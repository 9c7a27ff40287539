SPECIFICATION Spec
CONSTANTS
  Alphabet <- TheAlphabet
  MaxSize = 1000
  ConfigFiles <- TheConfigFiles
  ConfigName = "config"
  TemplateName = "template"
  Scenes <- TheScenes
  FirstNodes <- TheFirstNodes
  FirstFiles <- TheFirstFiles
  MapValues <- TheMapValues
  TableMethods <- TheTableMethods
  ExtraMethods <- TheExtraMethods
  FirstValue <- TheFirstValue
  ReadPath <- TheReadPath
  Piece = 2
  MaxContent = 3
  MaxQueue = 4
INVARIANTS
  NodesTellTheTruth
  MessagesAreRight
  FilesAreKept
PROPERTIES
  ChangesAreSignalled
CHECK_DEADLOCK FALSE
