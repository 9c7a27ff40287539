---------------------------- MODULE FileJournal ----------------------------
(***************************************************************************)
(* The journal a device keeps in files (ShvFileJournal, with its           *)
(* ShvJournalFileWriter): appending, new files that start with a snapshot, *)
(* rotation, what is remembered of the directory in JournalContext, and    *)
(* recovery after a restart, a removed directory or an I/O error.          *)
(*                                                                         *)
(* A file is named by the time of its first record.  Sizes are counted in  *)
(* records.  The time of an entry is any time: the clock of a device may   *)
(* be set, and the program may give the time itself.                       *)
(***************************************************************************)
EXTENDS Integers, Sequences, SequencesExt, FiniteSets, FiniteSetsExt

CONSTANTS
  Paths,         \* the paths whose values are logged (domain VAL_CHANGE)
  FileLimit,     \* m_fileSizeLimit
  JournalLimit,  \* m_journalSizeLimit
  MaxTime,       \* bound: times are 1..MaxTime
  MaxEntries,    \* bound: entries appended
  MaxRestarts,   \* bound: restarts of the program
  MaxRemovals,   \* bound: how often the directory is removed
  MaxErrors      \* bound: appends during which a file cannot be opened

ASSUME FileJournalAssumption ==
  /\ FileLimit \in Nat /\ JournalLimit \in Nat /\ MaxTime \in Nat /\ MaxEntries \in Nat
  /\ MaxRestarts \in Nat /\ MaxRemovals \in Nat /\ MaxErrors \in Nat
  /\ IsFiniteSet(Paths)

VARIABLES
  j,         \* the journal: directory, files, m_journalContext, m_snapshot
  count,     \* entries appended; the value of an entry is its number
  restarts, removals, errors,
  lost       \* history: entries that were not written

vars == <<j, count, restarts, removals, errors, lost>>

Times == 1..MaxTime
Records == [ts : Times, path : Paths, val : 1..MaxEntries, snap : BOOLEAN]
Context == [exists : BOOLEAN, size : Int, lastSize : Int, files : Seq(Times), recent : Int]
NoContext == [exists |-> FALSE, size |-> -1, lastSize |-> -1, files |-> <<>>, recent |-> 0]

\* Every variable has its type, and what the context says of the newest file
\* is so, as long as the context counts as consistent.
TypeOK ==
  /\ j.dir \in BOOLEAN /\ j.ctx \in Context
  /\ DOMAIN j.disk \subseteq Times /\ \A f \in DOMAIN j.disk : j.disk[f] \in Seq(Records)
  /\ j.snap \in [Paths -> 0..MaxEntries]
  /\ count \in 0..MaxEntries /\ lost \in SUBSET (1..MaxEntries)
  /\ restarts \in 0..MaxRestarts /\ removals \in 0..MaxRemovals /\ errors \in 0..MaxErrors
  /\ j.ctx.exists /\ j.dir =>
       /\ ToSet(j.ctx.files) = DOMAIN j.disk
       /\ j.ctx.files # <<>> => j.ctx.lastSize = Len(j.disk[Last(j.ctx.files)])

NoFiles == [f \in {} |-> <<>>]

Init ==
  /\ j = [dir |-> FALSE, disk |-> NoFiles, ctx |-> NoContext, snap |-> [p \in Paths |-> 0]]
  /\ count = 0 /\ restarts = 0 /\ removals = 0 /\ errors = 0 /\ lost = {}

(***************************************************************************)
(* The functions of the class, on a journal s.                             *)
(***************************************************************************)
\* The place of a record is its file and its number in it.
Places(disk, files) == UNION {{f} \X DOMAIN disk[f] : f \in files}
SizeOf(disk, files) == Cardinality(Places(disk, files))

\* Files are listed by their times.
InOrder(files) ==
  [i \in 1..Cardinality(files) |->
     CHOOSE f \in files : Cardinality({g \in files : g < f}) = i - 1]

isConsistent(s) == s.ctx.exists /\ s.ctx.size >= 0

\* updateJournalStatus(): the directory is read again.
updateJournalStatus(s) ==
  LET files == DOMAIN s.disk
  IN [s EXCEPT !.ctx.size = SizeOf(s.disk, files),
               !.ctx.lastSize = IF files = {} THEN 0 ELSE Len(s.disk[Max(files)]),
               !.ctx.files = InOrder(files)]

\* checkJournalContext_helper(): a missing directory is created.
checkJournalContext(s, force) ==
  IF isConsistent(s) /\ ~force THEN s
  ELSE updateJournalStatus([s EXCEPT !.ctx.recent = 0, !.ctx.exists = TRUE, !.dir = TRUE])

\* findLastEntryDateTime() looks for the separator before the last record; a
\* file of one record has none and counts as corrupted.
findLastEntryDateTime(f, records) ==
  CASE Len(records) = 0 -> f
    [] Len(records) = 1 -> -1
    [] OTHER -> Last(records).ts

checkRecentTimeStamp(s) ==
  IF s.ctx.recent > 0 \/ s.ctx.files = <<>> THEN s
  ELSE LET f == Last(s.ctx.files)
       IN [s EXCEPT !.ctx.recent = Max({0, findLastEntryDateTime(f, s.disk[f])})]

\* appendSnapshot(): one record for every value known, in the order of paths.
Snapshot(snap, t) ==
  LET known == SetToSeq({p \in Paths : snap[p] > 0})
  IN [i \in DOMAIN known |-> [ts |-> t, path |-> known[i], val |-> snap[known[i]], snap |-> TRUE]]

\* What ShvJournalFileWriter adds to file f; a new file is created.
write(disk, f, records) ==
  IF f \in DOMAIN disk THEN [disk EXCEPT ![f] = @ \o records]
  ELSE [g \in DOMAIN disk \cup {f} |-> IF g = f THEN records ELSE disk[g]]

\* createNewLogFile(): the snapshot is written, and not counted.
createNewLogFile(s, t) ==
  [s EXCEPT !.disk = write(@, t, Snapshot(s.snap, t)),
            !.ctx.files = Append(@, t), !.ctx.recent = t]

\* The oldest files go until the limit is kept, but not the last one.
Rest(files, n) == ToSet(SubSeq(files, n + 1, Len(files)))
deleteNothing(s) == s
deleteOldest(s) ==
  LET last == Len(s.ctx.files) - 1
      n == Min({k \in 0..last :
                  k = last \/ SizeOf(s.disk, Rest(s.ctx.files, k)) < JournalLimit})
  IN [s EXCEPT !.disk = Restrict(@, Rest(s.ctx.files, n))]

\* rotateJournal(): the directory is read before and after.
rotateJournal(s) == updateJournalStatus(deleteOldest(updateJournalStatus(s)))

Done(s) == [ok |-> TRUE, s |-> s]
Failed(s) == [ok |-> FALSE, s |-> s]

addToSnapshot(s, e) == [s EXCEPT !.snap[e.path] = e.val]

\* The time of the last record is the least an entry gets.
timeAsGiven(e, recent) == e.ts
timeOf(e, recent) == Max({e.ts, recent})

(***************************************************************************)
(* appendThrow(): what it leaves behind when it throws is kept.  broken    *)
(* says which of the two writers cannot open its file, if any: the one     *)
(* that creates a file or the one that adds the entry.                     *)
(***************************************************************************)
\* The entry is written and counted, and the journal rotated if it is large.
countEntry(s, f, e) ==
  [s EXCEPT !.ctx.recent = e.ts, !.ctx.lastSize = Len(s.disk[f]), !.ctx.size = @ + 1]
rotateIfLarge(s) == IF s.ctx.size > JournalLimit THEN rotateJournal(s) ELSE s
writeEntry(s, f, e) ==
  rotateIfLarge(countEntry([s EXCEPT !.disk = write(@, f, <<e>>)], f, e))

\* The snapshot has the entry before it is written.
appendEntry(s, e, broken) ==
  IF broken = "add" \/ ~s.dir THEN Failed(addToSnapshot(s, e))
  ELSE Done(writeEntry(addToSnapshot(s, e), Last(s.ctx.files), e))

appendReady(s, e, broken) ==
  IF s.ctx.files # <<>> /\ s.ctx.lastSize <= FileLimit THEN appendEntry(s, e, broken)
  ELSE IF broken = "create" \/ ~s.dir THEN Failed(s)
  ELSE appendEntry(createNewLogFile(s, e.ts), e, broken)

appendAt(s, e, broken) ==
  appendReady(s, [e EXCEPT !.ts = timeOf(e, s.ctx.recent)], broken)
appendThrow(s, e, broken) ==
  appendAt(checkRecentTimeStamp(checkJournalContext(s, FALSE)), e, broken)

\* append(): after a failure the directory is created, which fails when it is
\* there already, and read again.
appendOnce(first, e) == first
appendAgain(first, e) ==
  IF first.ok THEN first
  ELSE IF first.s.dir THEN Failed([first.s EXCEPT !.ctx.exists = FALSE])
  ELSE appendThrow(checkJournalContext([first.s EXCEPT !.dir = TRUE, !.ctx.exists = TRUE], TRUE),
                   e, "none")

(***************************************************************************)
(* Actions.                                                                *)
(***************************************************************************)
append(p, t, broken) ==
  /\ count < MaxEntries
  /\ LET e == [ts |-> t, path |-> p, val |-> count + 1, snap |-> FALSE]
     IN \E r \in {appendAgain(appendThrow(j, e, broken), e)} :
          j' = r.s /\ lost' = IF r.ok THEN lost ELSE lost \cup {e.val}
  /\ count' = count + 1
  /\ UNCHANGED <<restarts, removals>>

appendOk(p, t) == append(p, t, "none") /\ UNCHANGED errors
appendError(p, t, broken) ==
  /\ errors < MaxErrors /\ errors' = errors + 1
  /\ append(p, t, broken)

\* A new ShvFileJournal knows nothing.
restart ==
  /\ restarts < MaxRestarts /\ restarts' = restarts + 1
  /\ j' = [j EXCEPT !.ctx = NoContext, !.snap = [p \in Paths |-> 0]]
  /\ UNCHANGED <<count, removals, errors, lost>>

\* The directory disappears, with all files: the card was taken out.
removeDir ==
  /\ j.dir /\ removals < MaxRemovals /\ removals' = removals + 1
  /\ j' = [j EXCEPT !.dir = FALSE, !.disk = NoFiles]
  /\ UNCHANGED <<count, restarts, errors, lost>>

\* Every entry that may be appended has been.
Full == count = MaxEntries /\ UNCHANGED vars

Next ==
  \/ \E p \in Paths, t \in Times :
       appendOk(p, t) \/ \E broken \in {"create", "add"} : appendError(p, t, broken)
  \/ restart \/ removeDir \/ Full

Spec == Init /\ [][Next]_vars

(***************************************************************************)
(* Properties.                                                             *)
(***************************************************************************)
\* What a reader finds: the records, in the order of the files and in them.
Files == DOMAIN j.disk
Log == Places(j.disk, Files)
RecordAt(x) == j.disk[x[1]][x[2]]
Precedes(x, y) == x[1] < y[1] \/ (x[1] = y[1] /\ x[2] < y[2])

\* The context knows the time of the last record.  After a restart or an I/O
\* error it is looked up, and findLastEntryDateTime() does not find it in a
\* file of one record: new files may then sort before older ones.
TimeIsKnown == restarts = 0 /\ lost = {}

\* The times of the log never go back, whatever the clock does and whether or
\* not the directory is removed (appendMonotonic(), shvjournalfilewriter.cpp).
LogIsMonotonic ==
  TimeIsKnown => \A x, y \in Log : Precedes(x, y) => RecordAt(x).ts <= RecordAt(y).ts

\* The newest file alone tells the last value of every path that was logged
\* since the start ("even if someError is set only once, it should be in last
\* snapshot", test_shvlog.cpp), whichever older files were rotated away.
ValueIn(records, p) ==
  LET at == {i \in DOMAIN records : records[i].path = p}
  IN IF at = {} THEN 0 ELSE records[Max(at)].val
NewestFileIsComplete ==
  TimeIsKnown /\ Files # {} =>
    \A p \in Paths : j.snap[p] > 0 => ValueIn(j.disk[Max(Files)], p) = j.snap[p]

\* The size of the journal is limited but for the snapshots of the files the
\* context lists, which are counted only when the journal is rotated; the
\* newest file is never deleted.
SizeIsBounded ==
  Cardinality(Files) > 1 /\ j.ctx.exists =>
    SizeOf(j.disk, Files) <= JournalLimit + Len(j.ctx.files) * Cardinality(Paths)

\* Every entry is written: a failed append reads the directory again and tries
\* once more ("Append to log failed, journal dir will be read again, SD card
\* might be replaced", shvfilejournal.cpp).  Not an invariant of this code
\* (README, section 4).
NothingIsLost == lost = {}

\* An I/O error costs no more than the entry during which it happened, the
\* next one is written to a directory that was read again (append(),
\* checkJournalContext_helper(), shvfilejournal.cpp).
LossIsLimited == Cardinality(lost) <= errors

\* What is in the journal is the newest part of what was appended: rotation
\* and recovery never drop an entry and keep an older one (rotateJournal(),
\* shvfilejournal.cpp).
Logged == {RecordAt(x).val : x \in {y \in Log : ~RecordAt(y).snap}}
NewestAreKept ==
  TimeIsKnown => \A logged \in {Logged} : \A v \in logged : v..count \subseteq logged

\* The context agrees with the directory, times do not go back and the newest
\* file is enough to know every value.
FilesAreSound == TypeOK /\ LogIsMonotonic /\ NewestFileIsComplete

\* Rotation keeps the journal within its limit and deletes nothing that is
\* newer than what it keeps (rotateJournal()).
RotationIsSound == SizeIsBounded /\ NewestAreKept
=============================================================================
