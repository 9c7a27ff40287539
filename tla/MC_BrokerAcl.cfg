SPECIFICATION Spec
CONSTANTS
  Alphabet <- TheAlphabet
  RuleKeys <- TheRuleKeys
  LongTexts <- TheLongTexts
  mergeMaps <- MergedMaps
  Clients = {"1"}
  Logins <- TheLogins
  Calls <- TheCalls
  FileSets <- TheFileSets
  Starts <- TheStarts
  LdapName <- TheLdapName
  AzureNames <- TheAzureNames
  GroupLists <- TheGroupLists
  MaxNonce = 1
  MaxChanges = 2
INVARIANTS GrantsFollowTheLists CacheIsTransparent LoginsAgree SavedFilesReadBack
PROPERTIES ChangesAreRightful
