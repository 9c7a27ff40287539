------------------------------- MODULE ShvLog -------------------------------
(***************************************************************************)
(* Log entries and how they travel: as lines of a journal file             *)
(* (ShvJournalFileWriter, ShvJournalFileReader), as rows of a log in an    *)
(* RpcValue with a header in its meta data (getLog(), ShvLogHeader,        *)
(* ShvGetLogParams, ShvLogRpcValueReader), and in ShvMemoryJournal.        *)
(*                                                                         *)
(* Times are milliseconds of some scale.  A map is a function whose domain *)
(* is the set of the keys that are present.                                *)
(***************************************************************************)
EXTENDS ShvPath

CONSTANTS
  Settle,     \* how old an entry must be to be complete (1000 ms)
  MaxSkew,    \* MAX_SKEW of the short-time correction (500 ms)
  ShortMod,   \* short times wrap there (2^16 ms)
  DefaultLimit \* DEFAULT_GET_LOG_RECORD_COUNT_LIMIT

NoTime == -1   \* an invalid RpcValue where a time is expected
SinceLast == -2 \* the strings "last" and "now"
isDateTime(v) == v >= 0
NoShort == -1
MaxInt == 2147483647
NodeDrop == 0  \* a value whose meta type is NodeDrop
Junk == -9     \* what is parsed out of two values that ran together
DOMAIN_VAL_CHANGE == "chng"

Entry(t, path, val, dom) ==
  [t |-> t, path |-> path, val |-> val, st |-> NoShort, dom |-> dom, fl |-> {}]
setSnapshotValue(e) == [e EXCEPT !.fl = (@ \cup {"Snapshot"}) \ {"Spontaneous"}]
isSnapshotValue(e) == "Snapshot" \in e.fl
isSpontaneous(e) == "Spontaneous" \in e.fl

\* What a map or a list of parameters says for a key, or a default.
ValueOf(m, key, default) == IF key \in DOMAIN m THEN m[key] ELSE default
With(m, key, val) == [k \in DOMAIN m \cup {key} |-> IF k = key THEN val ELSE m[k]]

EmptyMap == [k \in {} |-> 0]

\* addToSnapshot(): snapshot maps a path to its last entry.
addToSnapshot(snap, e) ==
  IF e.dom # DOMAIN_VAL_CHANGE THEN snap
  ELSE IF e.val = NodeDrop
    THEN [k \in {p \in DOMAIN snap : ~IsPrefix(e.path, p)} |-> snap[k]]
  ELSE With(snap, e.path, e)

(***************************************************************************)
(* Lines of a journal file: the columns Timestamp, UpTime, Path, Value,    *)
(* ShortTime, Domain, ValueFlags and UserId, each with what it holds.      *)
(***************************************************************************)
Field(kind, val) == [k |-> kind, v |-> val]
NoField == Field("none", 0)
JunkField == Field("junk", 0)

append(t, orig, e) ==
  << Field("time", t),
     IF orig = t THEN NoField ELSE Field("time", orig),
     Field("path", e.path),
     Field("value", e.val),
     IF e.st >= 0 THEN Field("short", e.st) ELSE NoField,
     Field("domain", e.dom),
     Field("flags", e.fl),
     NoField >>

\* appendMonotonic(), appendSnapshot(): a time never lies before the last one.
appendMonotonic(e, recent) == append(Max({e.t, recent}), e.t, e)

\* A record without its end; the next one continues on its line, the column
\* that was cut and the time of the next record run together.
CutLine(line, column) == SubSeq(line, 1, column - 1) \o <<JunkField>>
Continued(line, next) == line \o Tail(next)

\* next(): a line without a time of its own, without a path or with a value
\* that cannot be parsed is skipped, other columns get a default.
Column(line, i) == IF i <= Len(line) THEN line[i] ELSE Field("missing", 0)
Readable(line) ==
  /\ Len(line) > 1 /\ line[1].k = "time"
  /\ Column(line, 3).k # "none"
  /\ Column(line, 4).k \in {"value", "junk", "missing"}
Parsed(field, kind, default) == IF field.k = kind THEN field.v ELSE default
entry(line) ==
  [ t |-> line[1].v,
    path |-> Parsed(Column(line, 3), "path", <<<<"?">>>>),
    val |-> Parsed(Column(line, 4), "value", Junk),
    st |-> Parsed(Column(line, 5), "short", NoShort),
    dom |-> Parsed(Column(line, 6), "domain",
                   IF Column(line, 6).k = "none" THEN DOMAIN_VAL_CHANGE ELSE "?"),
    fl |-> Parsed(Column(line, 7), "flags", {}) ]
ReadFile(lines) ==
  LET good == SelectSeq(lines, Readable) IN [i \in DOMAIN good |-> entry(good[i])]

(***************************************************************************)
(* ShvGetLogParams and PatternMatcher                                      *)
(***************************************************************************)
DefaultParams ==
  [ since |-> NoTime, until |-> NoTime, pathPattern |-> <<>>, patternType |-> "WildCard",
    domainPattern |-> "", recordCountLimit |-> DefaultLimit,
    withSnapshot |-> FALSE, withTypeInfo |-> FALSE, withPathsDict |-> TRUE ]

isSinceLast(p) == p.since = SinceLast

\* The keys that toRpcValue() leaves out, the ones it adds for old devices.
KeysOf(p, legacy) ==
  {"recordCountLimit", "withSnapshot", "withPathsDict", "withTypeInfo"}
    \cup (IF p.since # NoTime THEN {"since"} ELSE {})
    \cup (IF p.until # NoTime THEN {"until"} ELSE {})
    \cup (IF p.pathPattern # <<>> THEN {"pathPattern"} ELSE {})
    \cup (IF p.pathPattern # <<>> /\ p.patternType = "RegEx" THEN {"patternType"} ELSE {})
    \cup (IF p.domainPattern # "" THEN {"domainPattern"} ELSE {})
    \cup (IF legacy THEN {"headerOptions", "maxRecordCount"} ELSE {})
HeaderOptions(p) ==
  {"BasicInfo", "FieldInfo"} \cup (IF p.withTypeInfo THEN {"TypeInfo"} ELSE {})
    \cup (IF p.withPathsDict THEN {"PathsDict"} ELSE {})
toRpcValue(p, legacy) ==
  [k \in KeysOf(p, legacy) |->
     CASE k = "headerOptions" -> HeaderOptions(p)
       [] k = "maxRecordCount" -> p.recordCountLimit
       [] OTHER -> p[k]]

\* New keys win over the ones for old devices.
fromRpcValue(m) ==
  LET options == ValueOf(m, "headerOptions", {"PathsDict"})
  IN [ since |-> ValueOf(m, "since", NoTime), until |-> ValueOf(m, "until", NoTime),
       pathPattern |-> ValueOf(m, "pathPattern", <<>>),
       patternType |-> ValueOf(m, "patternType", "WildCard"),
       domainPattern |-> ValueOf(m, "domainPattern", ""),
       recordCountLimit |-> ValueOf(m, "recordCountLimit", ValueOf(m, "maxRecordCount", DefaultLimit)),
       withSnapshot |-> ValueOf(m, "withSnapshot", FALSE),
       withTypeInfo |-> ValueOf(m, "withTypeInfo", "TypeInfo" \in options),
       withPathsDict |-> ValueOf(m, "withPathsDict", "PathsDict" \in options) ]

\* A regular expression is one segment that occurs in the path.
RegexFinds(path, pattern) == \E i \in DOMAIN path : path[i] = pattern[1]
match(p, e) ==
  /\ \/ p.pathPattern = <<>>
     \/ IF p.patternType = "RegEx" THEN RegexFinds(e.path, p.pathPattern)
        ELSE matchWild(e.path, p.pathPattern)
  /\ p.domainPattern = "" \/ p.domainPattern = e.dom

(***************************************************************************)
(* Rows of a log.  A path is written as such or as its number in the       *)
(* dictionary of the header.                                               *)
(***************************************************************************)
\* as_shared_path()
PathId(cache, path) == ValueOf(cache, path, Cardinality(DOMAIN cache))
Shared(cache, path) == With(cache, path, PathId(cache, path))
toRpcValueList(e, shared, cache) ==
  [ t |-> e.t, path |-> IF shared THEN <<>> ELSE e.path,
    id |-> IF shared THEN PathId(cache, e.path) ELSE -1,
    val |-> e.val, st |-> e.st, dom |-> IF e.dom = DOMAIN_VAL_CHANGE THEN "" ELSE e.dom, fl |-> e.fl ]
fromRpcValueList(row, dict) ==
  [ t |-> row.t, path |-> IF row.id >= 0 THEN ValueOf(dict, row.id, <<>>) ELSE row.path,
    val |-> row.val, st |-> row.st,
    dom |-> IF row.dom = "" THEN DOMAIN_VAL_CHANGE ELSE row.dom, fl |-> row.fl ]

\* ShvLogHeader::toMetaData(), fromMetaData(): an empty dictionary is left out.
toMetaData(h) ==
  [k \in DOMAIN h \ (IF h.pathDict = EmptyMap THEN {"pathDict"} ELSE {}) |->
     IF k = "logParams" THEN toRpcValue(h.logParams, FALSE) ELSE h[k]]
fromMetaData(md) ==
  [ logParams |-> fromRpcValue(md.logParams), recordCount |-> md.recordCount,
    recordCountLimit |-> md.recordCountLimit, recordCountLimitHit |-> md.recordCountLimitHit,
    withSnapshot |-> md.withSnapshot, withPathsDict |-> md.withPathsDict,
    pathDict |-> ValueOf(md, "pathDict", EmptyMap), since |-> md.since, until |-> md.until ]

(***************************************************************************)
(* impl_get_log()                                                          *)
(***************************************************************************)
SinceMsec(p) == IF isDateTime(p.since) THEN p.since ELSE 0
BeforeUntil(p, t) == isDateTime(p.until) => t < p.until

\* What the loop over the entries carries along.
ScanStart == [ snap |-> EmptyMap, log |-> <<>>, cache |-> EmptyMap, last |-> NoTime, lastEntry |-> <<>>,
               unmatching |-> NoTime, hit |-> FALSE, before |-> FALSE ]

appendLogEntry(s, e, p) ==
  [s EXCEPT !.log = Append(@, toRpcValueList(e, p.withPathsDict, s.cache)),
            !.cache = IF p.withPathsDict THEN Shared(@, e.path) ELSE @]
TakenForSnapshot(p, e) == isSinceLast(p) \/ e.t <= SinceMsec(p)
LimitReached(s, p) == Cardinality(DOMAIN s.snap) + Len(s.log) + 1 > p.recordCountLimit

\* One entry that matches the patterns.  The scan ends at until, and where the
\* limit is reached and the time has changed.
Noted(s, e) == [s EXCEPT !.last = e.t, !.lastEntry = <<e>>]
ScanNotMoving(s, e, p) ==
  IF LimitReached(s, p) /\ s.last # NoTime /\ s.last # e.t
  THEN [s EXCEPT !.hit = TRUE, !.unmatching = s.last]
  ELSE [Noted(appendLogEntry(s, e, p), e) EXCEPT !.hit = @ \/ LimitReached(s, p)]
ScanLogged(s, e, p) ==
  IF LimitReached(s, p) /\ s.last # NoTime /\ s.last # e.t
  THEN [s EXCEPT !.hit = TRUE, !.unmatching = e.t]
  ELSE [Noted(appendLogEntry(s, e, p), e) EXCEPT !.hit = @ \/ LimitReached(s, p)]
ScanSnapshot(s, e, p) == IF TakenForSnapshot(p, e) THEN [s EXCEPT !.snap = addToSnapshot(@, e)] ELSE s
ScanEntry(s, e, p) ==
  IF ~BeforeUntil(p, e.t) THEN [s EXCEPT !.unmatching = e.t]
  ELSE IF TakenForSnapshot(p, e) THEN [Noted(s, e) EXCEPT !.before = TRUE]
  ELSE ScanLogged(s, e, p)
RECURSIVE Scan(_, _, _, _)
Scan(entries, i, p, s) ==
  IF i > Len(entries) \/ s.unmatching # NoTime THEN s
  ELSE IF ~match(p, entries[i]) THEN Scan(entries, i + 1, p, s)
  ELSE Scan(entries, i + 1, p, ScanEntry(ScanSnapshot(s, entries[i], p), entries[i], p))

\* snapshot_to_entries(): all at the time asked for, or at the newest one.
SnapshotTime(s, p) ==
  IF isSinceLast(p) THEN Max({s.snap[k].t : k \in DOMAIN s.snap} \cup {0}) ELSE p.since
\* Entries follow the order of a std::map; any order of the paths will do.
RECURSIVE snapshotRows(_, _, _, _)
snapshotRows(s, keys, t, p) ==
  IF keys = {} THEN s
  ELSE LET k == CHOOSE key \in keys : TRUE
       IN snapshotRows(appendLogEntry(s, [setSnapshotValue(s.snap[k]) EXCEPT !.t = t], p), keys \ {k}, t, p)
SnapshotRows(s, p) ==
  LET empty == [s EXCEPT !.log = <<>>]
  IN IF p.withSnapshot THEN snapshotRows(empty, DOMAIN s.snap, SnapshotTime(s, p), p)
     ELSE IF s.lastEntry # <<>> /\ isSinceLast(p) THEN appendLogEntry(empty, s.lastEntry[1], p)
     ELSE empty

\* The last entries are held back while more of the same time may come.
IsRecent(t, now) == t - now < Settle /\ now - t < Settle
NotAt(rows, t) == SelectSeq(rows, LAMBDA r : r.t # t)

\* The time from which the next request continues, and the rows.
CutRecent(s, rows, p, now) ==
  IF s.unmatching # NoTime \/ rows = <<>> THEN [rows |-> rows, until |-> s.unmatching]
  ELSE IF s.log = <<>> \/ isSinceLast(p) \/ ~IsRecent(Last(rows).t, now)
    THEN [rows |-> rows, until |-> Last(rows).t]
  ELSE [rows |-> NotAt(rows, Last(rows).t), until |-> Last(rows).t]

HeaderTimes(s, cut, p) ==
  IF cut.rows = <<>>
    THEN [ since |-> IF p.since # NoTime THEN p.since ELSE p.until,
           until |-> IF p.until # NoTime THEN p.until ELSE p.since ]
  ELSE IF isSinceLast(p) THEN [since |-> cut.rows[1].t, until |-> cut.rows[1].t]
  ELSE [since |-> IF s.before THEN p.since ELSE cut.rows[1].t, until |-> cut.until]

\* The dictionary maps numbers to paths.
DictOf(cache) == [n \in {cache[k] : k \in DOMAIN cache} |-> CHOOSE k \in DOMAIN cache : cache[k] = n]

LogHeader(s, cut, orig, p, ignoreLimit) ==
  [ logParams |-> orig, recordCount |-> Len(cut.rows),
    recordCountLimit |-> IF ignoreLimit THEN MaxInt ELSE Min({p.recordCountLimit, DefaultLimit}),
    recordCountLimitHit |-> s.hit, withSnapshot |-> p.withSnapshot, withPathsDict |-> p.withPathsDict,
    pathDict |-> IF p.withPathsDict THEN DictOf(s.cache) ELSE EmptyMap,
    since |-> HeaderTimes(s, cut, p).since, until |-> HeaderTimes(s, cut, p).until ]

\* A snapshot without since is not made.
Accepted(p) == [p EXCEPT !.withSnapshot = @ /\ p.since # NoTime]
LogOf(snapped, logged, orig, p, now, ignoreLimit) ==
  LET cut == CutRecent(logged, snapped.log \o logged.log, p, now)
  IN [ md |-> toMetaData(LogHeader([logged EXCEPT !.cache = snapped.cache], cut, orig, p, ignoreLimit)),
       rows |-> cut.rows ]
GetLogScanned(s, orig, p, now, ignoreLimit) == LogOf(SnapshotRows(s, p), s, orig, p, now, ignoreLimit)
getLog(entries, orig, now, ignoreLimit) ==
  GetLogScanned(Scan(entries, 1, Accepted(orig), ScanStart), orig, Accepted(orig), now, ignoreLimit)

\* newestMatchingFileIt(): the index of the first file that is read.
OlderFiles(starts, since) == {i \in DOMAIN starts : starts[i] <= since}
newestMatchingFileIt(starts, p) ==
  IF starts = <<>> \/ p.since = NoTime THEN 1
  ELSE IF isSinceLast(p) THEN Len(starts)
  ELSE Max(OlderFiles(starts, p.since) \cup {1})

(***************************************************************************)
(* ShvLogRpcValueReader and ShvMemoryJournal                               *)
(***************************************************************************)
\* next(): rows whose path is not in the dictionary are skipped.
ReadLog(log) ==
  LET header == fromMetaData(log.md)
      entries == [i \in DOMAIN log.rows |-> fromRpcValueList(log.rows[i], header.pathDict)]
  IN SelectSeq(entries, LAMBDA e : e.path # <<>>)
isInSnapshot(header, e) ==
  \/ e.t = (IF header.withSnapshot THEN header.since ELSE -1)
  \/ isSnapshotValue(e)

EmptyMemory == [ entries |-> <<>>, since |-> NoTime, until |-> NoTime, withSnapshot |-> FALSE, shorts |-> EmptyMap ]

\* Insertion where upper_bound() finds the first later entry.
Insert(entries, searched, e) ==
  IF entries = <<>> \/ e.t >= Last(entries).t THEN Append(entries, e)
  ELSE LET later == {i \in DOMAIN entries : entries[i].t > searched}
           at == IF later = {} THEN Len(entries) + 1 ELSE Min(later)
       IN SubSeq(entries, 1, at - 1) \o <<e>> \o SubSeq(entries, at, Len(entries))

\* The short-time correction: what is remembered for the path and the time
\* the entry gets.
ShortTime(epoch, recent) == [epoch |-> epoch, recent |-> recent]
toEpochTime(st, short) == st.epoch + ((short - st.recent) % ShortMod)
NeverPinned(st, t, short) == [st |-> ShortTime(toEpochTime(st, short), short), t |-> toEpochTime(st, short)]
Pinned(st, t, short) ==
  LET skew == toEpochTime(st, short) - t
      pin == IF skew < -MaxSkew THEN t - MaxSkew
             ELSE IF skew > MaxSkew THEN t + MaxSkew ELSE t + skew
  IN [st |-> ShortTime(pin, short), t |-> pin]
Corrected(st, e) ==
  IF e.st = st.recent THEN [st |-> ShortTime(e.t, st.recent), t |-> e.t]
  ELSE IF st.epoch = 0 THEN [st |-> ShortTime(e.t, e.st), t |-> e.t]
  ELSE Pinned(st, e.t, e.st)
memAppendAt(mem, e, c, correct) ==
  [mem EXCEPT !.entries = Insert(@, e.t, [e EXCEPT !.t = c.t]),
              !.shorts = IF correct THEN With(@, e.path, c.st) ELSE @]
memAppend(mem, e, correction, now) ==
  IF e.t = 0 THEN memAppendAt(mem, e, [t |-> now, st |-> <<>>], FALSE)
  ELSE IF correction /\ ~isSpontaneous(e) /\ e.st # NoShort
    THEN memAppendAt(mem, e, Corrected(ValueOf(mem.shorts, e.path, ShortTime(0, 0)), e), TRUE)
  ELSE memAppendAt(mem, e, [t |-> e.t, st |-> <<>>], FALSE)

RECURSIVE memAppendAll(_, _, _)
memAppendAll(mem, entries, now) ==
  IF entries = <<>> THEN mem
  ELSE memAppendAll(memAppend(mem, Head(entries), FALSE, now), Tail(entries), now)

\* loadLog()
HeaderTaken(mem, md) ==
  [mem EXCEPT !.entries = <<>>, !.since = md.since, !.until = md.until, !.withSnapshot = md.withSnapshot]
loadLog(mem, log, appendRecords, now) ==
  memAppendAll(IF appendRecords THEN mem ELSE HeaderTaken(mem, log.md), ReadLog(log), now)

\* loadLog() with values for the paths the snapshot does not have: they are
\* added before the first entry after the snapshot.
DefaultEntries(defaults, since) ==
  LET paths == SetToSeq(DOMAIN defaults)
  IN [i \in DOMAIN paths |-> Entry(Max({since, 0}), paths[i], defaults[paths[i]], "")]
RECURSIVE loadWithDefaults(_, _, _, _, _)
loadWithDefaults(mem, header, entries, missing, now) ==
  IF entries = <<>> THEN memAppendAll(mem, DefaultEntries(missing, header.since), now)
  ELSE LET e == Head(entries)
           rest == IF isInSnapshot(header, e) THEN [k \in DOMAIN missing \ {e.path} |-> missing[k]] ELSE EmptyMap
           ready == IF isInSnapshot(header, e) THEN mem
                    ELSE memAppendAll(mem, DefaultEntries(missing, header.since), now)
       IN loadWithDefaults(memAppend(ready, e, FALSE, now), header, Tail(entries), rest, now)
loadLogDefaults(mem, log, defaults, now) ==
  loadWithDefaults(HeaderTaken(mem, log.md), fromMetaData(log.md), ReadLog(log), defaults, now)
=============================================================================
