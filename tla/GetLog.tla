------------------------------- MODULE GetLog -------------------------------
(***************************************************************************)
(* Reading a device's journal while it grows: a device appends to its      *)
(* files, a client asks for parts of the log (getLog()), or downloads all  *)
(* of it page by page into a ShvMemoryJournal, which it may query as well. *)
(* The program may be restarted, and the power may fail in the middle of a *)
(* record.  What a client does with a page is the client's business: here  *)
(* it loads it and asks on from the end of the page as long as pages come, *)
(* and again when time has passed.                                         *)
(***************************************************************************)
EXTENDS ShvLog

CONSTANTS
  Paths,       \* paths of the values that are logged
  Changes,     \* what is logged: path, domain, and whether the path is dropped
  Queries,     \* parameters of queries
  Cuts,        \* columns in which a power failure may cut a record
  Defaults,    \* default values for loadLog()
  FileLimit,   \* m_fileSizeLimit, in records
  MaxTime,     \* bound: the clock; entries are complete before it stops
  MaxEntries,  \* bound: entries appended, a restart counts as one
  MaxPaged,    \* bound: entries appended while all is downloaded
  MaxFed       \* bound: entries with short times given to the memory journal

ASSUME GetLogAssumption ==
  /\ Settle \in Nat /\ MaxSkew \in Nat /\ ShortMod \in Nat \ {0}
  /\ Cuts \subseteq 1..8 /\ MaxTime > Settle /\ MaxEntries \in Nat /\ MaxPaged \in Nat /\ MaxFed \in Nat

VARIABLES
  files,    \* the journal: start time and lines of every file
  snapshot, \* m_snapshot of the journal
  now, count,
  torn,     \* 0, or the column in which the last line ends
  hurt,     \* history: the numbers of the entries a power failure may have hurt
  truth,    \* history: the entries that were appended
  restart,  \* history: how many files and entries there were at the restart
  reply,    \* the last answer, with its parameters and the journal it is from
  mem,      \* the memory journal of the client
  pos,      \* where the download goes on
  seen,     \* what the client had seen when it asked last
  mode, limit, correction

vars == <<files, snapshot, now, count, torn, hurt, truth, restart, reply, mem, pos, seen, mode, limit, correction>>
journal == <<files, snapshot, count, torn, hurt, truth, restart>>
settings == <<mode, limit, correction>>
client == <<mem, pos, seen>>

NoReply == [p |-> DefaultParams, log |-> [md |-> <<>>, rows |-> <<>>], of |-> "nothing"]
Reply(p, log, of) == [p |-> p, log |-> log, of |-> of]
Answered == reply.of # "nothing"

\* Times at which something is logged.
Times == 1..(MaxTime - Settle)
MayLog ==
  count + Min({restart.files, 1}) < IF mode = "download" THEN MaxPaged ELSE MaxEntries

Init ==
  /\ files = <<>> /\ snapshot = EmptyMap /\ now = 1 /\ count = 0 /\ torn = 0 /\ hurt = {}
  /\ truth = <<>> /\ restart = [files |-> 0, count |-> 0] /\ reply = NoReply
  /\ mem = EmptyMemory /\ pos = NoTime /\ seen = <<0, 0>>
  /\ \/ mode = "query" /\ limit = DefaultLimit /\ correction = FALSE
     \/ mode = "download" /\ limit \in {1, 2, DefaultLimit} /\ correction = FALSE
     \/ mode = "feed" /\ limit = DefaultLimit /\ correction \in BOOLEAN

(***************************************************************************)
(* The device.                                                             *)
(***************************************************************************)
\* A file starts with the values known.
SnapshotLines(snap, t) ==
  LET known == SetToSeq(DOMAIN snap)
  IN [i \in DOMAIN known |-> append(t, t, setSnapshotValue(snap[known[i]]))]
Extended(lines, line) ==
  IF torn = 0 THEN Append(lines, line) ELSE Append(Front(lines), Continued(Last(lines), line))

IsFull == files = <<>> \/ Len(Last(files).lines) > FileLimit
Appended(e) ==
  IF IsFull
  THEN Append(files, [start |-> e.t, lines |-> Append(SnapshotLines(snapshot, e.t), append(e.t, e.t, e))])
  ELSE Append(Front(files), [Last(files) EXCEPT !.lines = Extended(@, append(e.t, e.t, e))])

Log(path, val, dom) ==
  LET e == Entry(now, path, val, dom)
  IN /\ mode # "feed" /\ MayLog /\ now \in Times
     /\ files' = Appended(e)
     /\ snapshot' = addToSnapshot(snapshot, e)
     /\ hurt' = IF torn # 0 /\ ~IsFull THEN hurt \cup {count + 1} ELSE hurt
     /\ truth' = Append(truth, e) /\ count' = count + 1 /\ torn' = 0
     /\ reply' = NoReply
     /\ UNCHANGED <<now, restart, client, settings>>

\* The program starts again, once, and has forgotten its snapshot.
Forget ==
  /\ mode = "query" /\ files # <<>> /\ restart.files = 0 /\ MayLog
  /\ snapshot' = EmptyMap /\ restart' = [files |-> Len(files), count |-> count]
  /\ reply' = NoReply
  /\ UNCHANGED <<now, count, truth, client, settings>>

Restart == Forget /\ UNCHANGED <<files, torn, hurt>>

\* The power fails while the last record is written.
PowerFailure(column) ==
  /\ Forget
  /\ files' = Append(Front(files), [Last(files) EXCEPT !.lines = Append(Front(@), CutLine(Last(@), column))])
  /\ torn' = column /\ hurt' = {count}

Tick ==
  /\ now < MaxTime /\ mode # "feed"
  /\ now' = now + 1 /\ reply' = NoReply
  /\ UNCHANGED <<journal, client, settings>>

(***************************************************************************)
(* The client.                                                             *)
(***************************************************************************)
RECURSIVE ReadFiles(_, _)
ReadFiles(fs, i) == IF i > Len(fs) THEN <<>> ELSE ReadFile(fs[i].lines) \o ReadFiles(fs, i + 1)
Starts == [i \in DOMAIN files |-> files[i].start]

\* ShvFileJournal::getLog(): the parameters come over the network.
fileGetLog(p) == getLog(ReadFiles(files, newestMatchingFileIt(Starts, p)), p, now, FALSE)
Ask(p) == fileGetLog(fromRpcValue(toRpcValue(p, TRUE)))

Query(p) ==
  /\ mode = "query" /\ ~Answered
  /\ reply' = Reply(p, Ask(p), "files")
  /\ UNCHANGED <<journal, now, client, settings>>

\* ShvMemoryJournal::getLog().  Corrected times are not in order, and nothing
\* is said of a query over them.
QueryMemory(p) ==
  /\ mode = "feed" /\ ~correction /\ mem.entries # <<>> /\ ~Answered
  /\ reply' = Reply(p, getLog(mem.entries, p, now, FALSE), "memory")
  /\ UNCHANGED <<journal, now, client, settings>>

Page == [DefaultParams EXCEPT !.since = pos, !.withSnapshot = TRUE, !.recordCountLimit = limit]
CanDownload == mode = "download" /\ seen # <<count, now>>
Download ==
  /\ CanDownload
  /\ \E log \in {Ask(Page)} :
       /\ reply' = Reply(Page, log, "files")
       /\ mem' = loadLog(mem, log, pos # NoTime, now)
       /\ pos' = log.md.until
       /\ seen' = IF log.md.until # pos THEN <<0, 0>> ELSE <<count, now>>
  /\ UNCHANGED <<journal, now, settings>>

\* An entry with a short time comes to the memory journal, a little early or
\* late.  Without the correction the short time is never looked at.
Shorts == IF correction THEN 0..(ShortMod - 1) ELSE {0}
Feed(path, t, short) ==
  /\ mode = "feed" /\ Len(truth) < MaxFed
  /\ LET e == [Entry(t, path, Len(truth) + 1, DOMAIN_VAL_CHANGE) EXCEPT !.st = short]
     IN mem' = memAppend(mem, e, correction, now) /\ truth' = Append(truth, e)
  /\ reply' = NoReply
  /\ UNCHANGED <<files, snapshot, count, torn, hurt, restart, now, pos, seen, settings>>

Next ==
  \/ \E c \in Changes : Log(c.path, IF c.drop THEN NodeDrop ELSE count + 1, c.dom)
  \/ Restart \/ \E c \in Cuts : PowerFailure(c)
  \/ \E p \in Queries : Query(p) \/ QueryMemory(p)
  \/ Download
  \/ \E path \in Paths, t \in Times, short \in Shorts : Feed(path, t, short)
  \/ Tick

\* Time passes, and the client asks on: weak fairness of Download, which is
\* enabled where CanDownload holds.
ClientAsksOn == []<>(~CanDownload) \/ []<><<Download>>_vars
Spec == Init /\ [][Next]_vars /\ WF_vars(Tick) /\ ClientAsksOn

(***************************************************************************)
(* Properties.                                                             *)
(***************************************************************************)
TypeOK ==
  /\ now \in 1..MaxTime /\ count \in 0..MaxEntries /\ torn \in {0} \cup Cuts /\ restart.count <= count
  /\ pos \in {NoTime} \cup 1..MaxTime
  /\ \A i \in DOMAIN files : files[i].start \in 1..MaxTime /\ Len(files[i].lines) > 0

\* Everything in the files, and in the journal that was asked.
Journal == ReadFiles(files, 1)
Asked == IF reply.of = "memory" THEN mem.entries ELSE Journal

\* The value of a path at a time, as a replay of entries gives it.
Concerns(e, path) ==
  /\ e.dom = DOMAIN_VAL_CHANGE
  /\ e.path = path \/ (e.val = NodeDrop /\ IsPrefix(e.path, path))
ValueAt(entries, path, t) ==
  LET at == {i \in DOMAIN entries : entries[i].t <= t /\ Concerns(entries[i], path)}
  IN IF at = {} THEN NodeDrop ELSE entries[Max(at)].val

Since == SinceMsec(reply.p)
Until == reply.log.md.until
Matching(entries) == SelectSeq(entries, LAMBDA e : match(reply.p, e))
Logged == SelectSeq(ReadLog(reply.log), LAMBDA e : e.t > Since)

\* A page is what was asked for: every matching entry after since and before
\* the end that its header names, once and in order, whichever files were
\* read, and of the entries at the very end all or none; where neither until
\* nor the limit ends the page it reaches the end of the journal, and a limit
\* is exceeded by entries of one time only (impl_get_log(), getlog.cpp,
\* newestMatchingFileIt()).
PageIsComplete ==
  Answered /\ ~isSinceLast(reply.p) /\ reply.log.rows # <<>> =>
    LET logged == Logged
        all == SelectSeq(Matching(Asked), LAMBDA e : e.t > Since)
        inside == SelectSeq(all, LAMBDA e : e.t < Until)
    IN /\ logged = inside \/ logged = SelectSeq(all, LAMBDA e : e.t <= Until)
       /\ \/ reply.log.md.recordCountLimitHit
          \/ isDateTime(reply.p.until)
          \/ \A i \in DOMAIN all : all[i].t <= Until
       /\ logged # <<>> =>
            Len(SelectSeq(logged, LAMBDA e : e.t < Last(logged).t)) < Max({1, reply.p.recordCountLimit})

\* The snapshot of a page gives every matching path the value it had at the
\* beginning of the page, although only the files from the last one before it
\* are read, and "last" reads the last file only (impl_get_log(), getlog.cpp,
\* createNewLogFile(), shvfilejournal.cpp).  A file that was begun after a
\* restart knows what was logged since; a page that is read from the files
\* before as well knows everything that can be read in them.  A request that
\* ends where it begins or before is left out, the scan stops too early.
FirstRead == newestMatchingFileIt(Starts, reply.p)
Remembered ==
  IF reply.of = "memory" \/ FirstRead <= restart.files THEN Asked
  ELSE SubSeq(truth, restart.count + 1, Len(truth))
DropsMatch(entries) == \A i \in DOMAIN entries : entries[i].val = NodeDrop => match(reply.p, entries[i])
EndsLater(p) == isDateTime(p.until) => ~isSinceLast(p) /\ p.until > p.since
GivesValuesOf(entries) ==
  Answered /\ reply.log.md.withSnapshot /\ EndsLater(reply.p) /\ DropsMatch(truth) =>
    LET rows == SelectSeq(ReadLog(reply.log), LAMBDA e : isSnapshotValue(e) /\ (e.t <= Since \/ isSinceLast(reply.p)))
        t == IF isSinceLast(reply.p) THEN MaxTime ELSE Since
    IN \A p \in Paths : ValueAt(rows, p, MaxTime) = ValueAt(Matching(entries), p, t)
SnapshotIsRight == GivesValuesOf(Remembered)

\* "Even if someError is set only once, it should be in last snapshot"
\* (test_shvlog.cpp:398), the reason for which a "new file should start with
\* snapshot" (shvfilejournal.cpp:270).
SnapshotIsComplete == GivesValuesOf(Asked)

\* A download by pages gives every path its value at every time that was
\* downloaded: entries at the end of a page come in the snapshot of the next
\* one.  A path that was dropped is left out, a page that begins with the
\* drop does not tell (getLog(), ShvMemoryJournal::loadLog()).
Dropped(p) == \E i \in DOMAIN truth : truth[i].val = NodeDrop /\ IsPrefix(truth[i].path, p)
DownloadIsFaithful ==
  LET all == Journal
  IN \A p \in {q \in Paths : ~Dropped(q)} : \A t \in 1..(pos - 1) :
       ValueAt(mem.entries, p, t) = ValueAt(all, p, t)

\* A download catches up with the journal, however small the limit is
\* (getLog() moves on by at least the entries of one time).
CaughtUp ==
  mode = "download" =>
    LET all == Journal
    IN \A p \in {q \in Paths : ~Dropped(q)} : ValueAt(mem.entries, p, MaxTime) = ValueAt(all, p, MaxTime)
DownloadCatchesUp == <>[]CaughtUp

\* A power failure in the middle of a record costs that record and the next
\* one at most, which continues its line, and adds at most one wrong entry;
\* all others are read as they were written (ShvJournalFileReader::next()).
Own(entries) == SelectSeq(entries, LAMBDA e : ~isSnapshotValue(e))
PowerFailureCostsTwo ==
  mode = "query" /\ hurt # {} =>
    LET before == SubSeq(truth, 1, Min(hurt) - 1)
        after == SubSeq(truth, Max(hurt) + 1, Len(truth))
        read == Own(Journal)
    IN /\ Cardinality(hurt) <= 2
       /\ read = before \o after \/ \E i \in DOMAIN read : read = before \o <<read[i]>> \o after

\* Entries of the memory journal are in the order of their times, and entries
\* of the same time in the order in which they came, as long as times are not
\* corrected (ShvMemoryJournal::append()).
MemoryIsSorted ==
  ~correction /\ mode = "feed" =>
    \A i, k \in DOMAIN mem.entries : i < k =>
      \/ mem.entries[i].t < mem.entries[k].t
      \/ mem.entries[i].t = mem.entries[k].t /\ mem.entries[i].val < mem.entries[k].val

\* The correction of a time by a short time moves it by MAX_SKEW at most,
\* also where the short time wraps.
SkewIsBounded ==
  mode = "feed" =>
    \A i \in DOMAIN mem.entries :
      LET d == mem.entries[i].t - truth[mem.entries[i].val].t IN d <= MaxSkew /\ -d <= MaxSkew

\* loadLog() with default values leaves no path of the defaults without a
\* value from the beginning of a log with a snapshot on (a log without one may
\* begin with the snapshot of a file, which counts although it is later).
DefaultsFillIn ==
  Answered /\ mode = "query" /\ reply.log.md.withSnapshot /\ isDateTime(reply.log.md.since) =>
    LET loaded == loadLogDefaults(EmptyMemory, reply.log, Defaults, now)
    IN \A p \in DOMAIN Defaults :
         \E i \in DOMAIN loaded.entries : loaded.entries[i].path = p /\ loaded.entries[i].t = reply.log.md.since


\* What was logged is there for whoever reads it: after a download, after a
\* power failure, in the memory journal with corrected times or with defaults.
EntriesAreKept ==
  DownloadIsFaithful /\ PowerFailureCostsTwo /\ MemoryIsSorted /\ SkewIsBounded /\ DefaultsFillIn
=============================================================================
