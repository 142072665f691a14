---------------------------- MODULE StartupProofs ----------------------------
(***************************************************************************)
(* Theorems about the start of any number of server processes: first of    *)
(* JournalOpen alone, then of Startup, each of whose steps is a step of    *)
(* JournalOpen or leaves its state alone.                                  *)
(***************************************************************************)
EXTENDS Startup, SequenceTheorems, TLAPS

(***************************************************************************)
(* The inductive invariant.  Whoever has dropped the old table, or holds   *)
(* the lock, has nothing older on the disk; the transaction that holds the *)
(* lock has emptied schema_version before it writes the one row, and has   *)
(* the table when it is over; and on a disk that is not refused on sight   *)
(* the mark never comes to stand for an older table.                       *)
(***************************************************************************)
DropPrecedes ==
  \A p \in Processes : pc[p] = "delete" \/ writer = p => jobs # "legacy"

WriterInRebuild ==
  \A p \in Processes :
    /\ writer = p => pc[p] \in {"insert", "jobs", "columns", "commit"}
    /\ pc[p] = "insert" => writer = p

DraftSound ==
  \A p \in Processes : writer = p =>
    /\ draft.jobs # "legacy"
    /\ pc[p] \in {"columns", "commit"} => draft.jobs = "current"
    /\ draft.versions = IF pc[p] = "insert" THEN <<>> ELSE <<"current">>

MarkHasTable == calm /\ versions = <<"current">> => jobs # "legacy"

OpenInv == TypeOK /\ MarkHasTable /\ DropPrecedes /\ WriterInRebuild /\ DraftSound

(* A row for the current version, appended to none, is the one row.        *)
LEMMA OneRow == Append(<<>>, "current") = <<"current">> /\ <<"current">> \in Seq(Versions)
                /\ Len(<<"current">>) = 1 /\ <<>> \in Seq(Versions)
  BY DEF Versions

(* Every first state of the journal satisfies the invariant.               *)
LEMMA OpenInvInit == Init => OpenInv
  <1> SUFFICES ASSUME Init PROVE OpenInv
    OBVIOUS
  <1>1. TypeOK
    <2>1. PICK n \in 0 .. MaxRows : versions \in [1 .. n -> Versions]
      BY DEF Init
    <2>2. n \in Nat  BY <2>1, JournalOpenAssumption
    <2>3. versions \in Seq(Versions)  BY <2>1, <2>2
    <2>4. QED  BY <2>3, OneRow DEF Init, TypeOK, Empty, Tables, Ended
  <1>2. MarkHasTable  BY DEF Init, RefusedOnSight, MarkHasTable
  <1>3. DropPrecedes /\ WriterInRebuild /\ DraftSound
    BY JournalOpenAssumption DEF Init, DropPrecedes, WriterInRebuild, DraftSound
  <1>4. QED  BY <1>1, <1>2, <1>3 DEF OpenInv

(* The statements before the lock, and the server's own, keep it.          *)
LEMMA OpenInvUnlocked ==
  ASSUME OpenInv, NEW p \in Processes,
         \/ Launch(p) \/ FindsPath(p) \/ ReadVersion(p) \/ Serve(p) \/ Untrusted(p)
         \/ Works(p) \/ TimesOut(p)
  PROVE  OpenInv'
  <1> USE JournalOpenAssumption
      DEF OpenInv, TypeOK, MarkHasTable, DropPrecedes, WriterInRebuild, DraftSound, Goes, disk,
          Ended, Starting, OnPath, Statements, Paths
  <1>1. CASE Launch(p)  BY <1>1 DEF Launch
  <1>2. CASE FindDirectory(p)  BY <1>2 DEF FindDirectory
  <1>3. CASE MakeDirectory(p)  BY <1>3 DEF MakeDirectory
  <1>4. CASE FindFile(p)  BY <1>4 DEF FindFile
  <1>5. CASE CreateFile(p)  BY <1>5 DEF CreateFile
  <1>6. CASE ReadVersion(p)  BY <1>6 DEF ReadVersion
  <1>7. CASE Serve(p)  BY <1>7 DEF Serve
  <1>8. CASE Untrusted(p)  BY <1>8 DEF Untrusted
  <1>9. CASE Close(p)  BY <1>9 DEF Close
  <1>10. CASE \E r \in Requests : Record(p, r)  BY <1>10 DEF Record
  <1>11. CASE TimesOut(p)  BY <1>11 DEF TimesOut
  <1>12. QED
    BY <1>1, <1>2, <1>3, <1>4, <1>5, <1>6, <1>7, <1>8, <1>9, <1>10, <1>11 DEF FindsPath, Works

(* The end of the transaction that holds the lock keeps the parts of the   *)
(* invariant that speak of the lock.                                       *)
LEMMA Releasing ==
  ASSUME OpenInv, NEW p \in Processes, writer = p, Releases(p),
         NEW next \in {"refused", "down", "opened"}, Goes(p, next),
         jobs' = jobs \/ jobs' = draft.jobs
  PROVE  /\ DropPrecedes' /\ WriterInRebuild' /\ DraftSound'
         /\ writer' = Nobody /\ draft' = Empty
  <1> USE JournalOpenAssumption DEF OpenInv, TypeOK
  <1>1. writer' = Nobody /\ draft' = Empty  BY DEF Releases
  <1>2. \A q \in Processes : pc'[q] \in {"delete", "insert"} => q # p /\ pc'[q] = pc[q]
    BY DEF Goes
  <1>3. jobs' # "legacy" \/ jobs' = jobs  BY DEF DraftSound
  <1>4. DropPrecedes'  BY <1>1, <1>2, <1>3 DEF DropPrecedes
  <1>5. WriterInRebuild'  BY <1>1, <1>2 DEF WriterInRebuild
  <1>6. DraftSound'  BY <1>1 DEF DraftSound
  <1>7. QED  BY <1>1, <1>4, <1>5, <1>6

(* The statements of a rebuild, and the end of any transaction, keep it.   *)
LEMMA OpenInvLocked ==
  ASSUME OpenInv, NEW p \in Processes,
         \/ Rebuilds(p) \/ CreateJobs(p) \/ CheckColumns(p) \/ Commit(p)
         \/ DatabaseFails(p) \/ Crash(p)
  PROVE  OpenInv'
  <1> USE JournalOpenAssumption, OneRow
      DEF OpenInv, TypeOK, MarkHasTable, DropPrecedes, WriterInRebuild, DraftSound, Goes, disk,
          Ended, Starting, OnPath, Statements, Tables, Empty, Releases
  <1>1. CASE DropJobs(p)  BY <1>1 DEF DropJobs
  <1>2. CASE DeleteVersions(p)  BY <1>2 DEF DeleteVersions
  <1>3. CASE InsertVersion(p)
    <2>1. writer = p /\ draft.versions = <<>> /\ pc[p] = "insert"
      BY <1>3 DEF InsertVersion
    <2>2. draft'.versions = <<"current">> /\ draft'.jobs = draft.jobs
      BY <1>3, <2>1 DEF InsertVersion
    <2>3. QED  BY <1>3, <2>1, <2>2 DEF InsertVersion
  <1>4. CASE CreateJobs(p)  BY <1>4 DEF CreateJobs, Created
  <1>5. CASE CheckColumns(p)
    <2>1. CASE writer = p /\ Seen(p) # "current"
      <3>1. DropPrecedes' /\ WriterInRebuild' /\ DraftSound' /\ writer' = Nobody /\ draft' = Empty
        BY <1>5, <2>1, Releasing DEF CheckColumns
      <3>2. QED  BY <1>5, <2>1, <3>1 DEF CheckColumns
    <2>2. CASE writer = p /\ Seen(p) = "current"  BY <1>5, <2>2 DEF CheckColumns
    <2>3. CASE writer # p  BY <1>5, <2>3 DEF CheckColumns
    <2>4. QED  BY <2>1, <2>2, <2>3
  <1>6. CASE Commit(p)
    <2>1. CASE writer = p
      <3>1. DropPrecedes' /\ WriterInRebuild' /\ DraftSound' /\ writer' = Nobody /\ draft' = Empty
        BY <1>6, <2>1, Releasing DEF Commit
      <3>2. versions' = <<"current">> /\ jobs' = "current"
        BY <1>6, <2>1 DEF Commit
      <3>3. TypeOK'  BY <1>6, <3>1, <3>2 DEF Commit
      <3>4. MarkHasTable'  BY <3>2
      <3>5. QED  BY <3>1, <3>3, <3>4
    <2>2. CASE writer # p  BY <1>6, <2>2 DEF Commit
    <2>3. QED  BY <2>1, <2>2
  <1>7. CASE DatabaseFails(p)
    <2>1. CASE writer = p
      <3>1. DropPrecedes' /\ WriterInRebuild' /\ DraftSound' /\ writer' = Nobody /\ draft' = Empty
        BY <1>7, <2>1, Releasing DEF DatabaseFails
      <3>2. QED  BY <1>7, <2>1, <3>1 DEF DatabaseFails
    <2>2. CASE writer # p  BY <1>7, <2>2 DEF DatabaseFails
    <2>3. QED  BY <2>1, <2>2
  <1>8. CASE Crash(p)
    <2>1. CASE writer = p
      <3>1. DropPrecedes' /\ WriterInRebuild' /\ DraftSound' /\ writer' = Nobody /\ draft' = Empty
        BY <1>8, <2>1, Releasing DEF Crash
      <3>2. QED  BY <1>8, <2>1, <3>1 DEF Crash
    <2>2. CASE writer # p  BY <1>8, <2>2 DEF Crash
    <2>3. QED  BY <2>1, <2>2
  <1>9. QED  BY <1>1, <1>2, <1>3, <1>4, <1>5, <1>6, <1>7, <1>8 DEF Rebuilds

(* Every step keeps it.                                                    *)
LEMMA OpenInvStep == OpenInv /\ [Next]_vars => OpenInv'
  <1>1. ASSUME OpenInv, UNCHANGED vars  PROVE OpenInv'
    BY <1>1 DEF OpenInv, TypeOK, MarkHasTable, DropPrecedes, WriterInRebuild, DraftSound, vars
  <1>2. ASSUME OpenInv, Next  PROVE OpenInv'
    BY <1>2, OpenInvUnlocked, OpenInvLocked DEF Next, Opens, Fails
  <1>3. QED  BY <1>1, <1>2

(* The invariant holds in every behaviour of JournalOpen.                  *)
THEOREM OpenInvariance == Spec => []OpenInv
  BY OpenInvInit, OpenInvStep, PTL DEF Spec

(* The journal, the write lock and every process keep their types.         *)
THEOREM OpenTypeCorrect == Spec => []TypeOK
  <1>1. OpenInv => TypeOK  BY DEF OpenInv
  <1>2. QED  BY <1>1, OpenInvariance, PTL

(* A step that changes the mark commits a rebuild, with its table.         *)
LEMMA MarkStep ==
  ASSUME OpenInv, [Next]_vars
  PROVE  versions' # versions => versions' = <<"current">> /\ jobs' = "current"
  <1>1. CASE UNCHANGED vars  BY <1>1 DEF vars
  <1>2. ASSUME NEW p \in Processes,
               Launch(p) \/ Opens(p) \/ Serve(p) \/ Untrusted(p) \/ Works(p) \/ Fails(p)
        PROVE  versions' # versions => versions' = <<"current">> /\ jobs' = "current"
    <2>1. CASE Commit(p)
      BY <2>1 DEF Commit, OpenInv, WriterInRebuild, DraftSound
    <2>2. CASE ~Commit(p)
      BY <1>2, <2>2
      DEF Launch, Opens, FindsPath, FindDirectory, MakeDirectory, FindFile, CreateFile, ReadVersion,
          Rebuilds, DropJobs, DeleteVersions, InsertVersion, CreateJobs, CheckColumns, Serve,
          Untrusted, Works, Close, Record, Fails, TimesOut, DatabaseFails, Crash, disk
    <2>3. QED  BY <2>1, <2>2
  <1>3. QED  BY <1>1, <1>2 DEF Next

(* For any first disk and any number of starts, failures and crashes: what *)
(* changes the mark writes the one current row, with the current table.    *)
THEOREM MarkSound == Spec => MarkIsSound
  <1>1. OpenInv /\ [Next]_vars =>
          [versions' # versions => versions' = <<"current">> /\ jobs' = "current"]_disk
    BY MarkStep
  <1>2. QED  BY <1>1, OpenInvariance, PTL DEF Spec, MarkIsSound

(* A step from a settled journal leaves it settled, with all its requests. *)
LEMMA SettledStep ==
  ASSUME OpenInv, Settled, [Next]_vars
  PROVE  Settled' /\ rows \subseteq rows'
  <1> USE JournalOpenAssumption DEF Settled, Rebuilding, disk, Goes, Releases
  <1>1. CASE UNCHANGED vars  BY <1>1 DEF vars
  <1>2. ASSUME NEW p \in Processes,
               Launch(p) \/ Opens(p) \/ Serve(p) \/ Untrusted(p) \/ Works(p) \/ Fails(p)
        PROVE  Settled' /\ rows \subseteq rows'
    <2> USE DEF OpenInv, TypeOK, WriterInRebuild, Ended, Statements, OnPath
    <2>1. CASE Launch(p)  BY <2>1 DEF Launch
    <2>2. CASE FindsPath(p)
      BY <2>2 DEF FindsPath, FindDirectory, MakeDirectory, FindFile, CreateFile
    <2>3. CASE ReadVersion(p)  BY <2>3 DEF ReadVersion
    <2>4. ~Rebuilds(p)  BY DEF Rebuilds, DropJobs, DeleteVersions, InsertVersion
    <2>5. CASE CreateJobs(p)  BY <2>5 DEF CreateJobs
    <2>6. CASE CheckColumns(p)  BY <2>6 DEF CheckColumns
    <2>7. CASE Commit(p)  BY <2>7 DEF Commit
    <2>8. CASE Serve(p) \/ Untrusted(p)  BY <2>8 DEF Serve, Untrusted
    <2>9. CASE Works(p)  BY <2>9 DEF Works, Close, Record
    <2>10. CASE Fails(p)  BY <2>10 DEF Fails, TimesOut, DatabaseFails, Crash
    <2>11. QED
      BY <1>2, <2>1, <2>2, <2>3, <2>4, <2>5, <2>6, <2>7, <2>8, <2>9, <2>10 DEF Opens
  <1>3. QED  BY <1>1, <1>2 DEF Next

(* For any number of starts: once the journal is marked and no earlier     *)
(* start is still rebuilding, no request in it is ever discarded.          *)
THEOREM SettledKept == Spec => SettledJournalKept
  <1>1. OpenInv /\ [Next]_vars => [Settled => Settled' /\ rows \subseteq rows']_vars
    BY SettledStep
  <1>2. QED  BY <1>1, OpenInvariance, PTL DEF Spec, SettledJournalKept

-----------------------------------------------------------------------------
(***************************************************************************)
(* Not all starts are refused.  Whoever is refused, or will be because the *)
(* directory or the file came in between, leaves behind the one that made  *)
(* it; and whoever will find no table, the one that dropped it.            *)
(***************************************************************************)
TooLate == {"mkdir", "create", "refused", "broken"}

PathAhead ==
  /\ path # "unsafe"
  /\ path = "nothing" => \A p \in Processes : pc[p] \in {"down", "directory", "mkdir"}
  /\ path = "directory" =>
       /\ \A p \in Processes : pc[p] \in {"down", "broken"} \union OnPath
       /\ \A p \in Processes : pc[p] \in {"mkdir", "broken"} =>
            \E q \in Processes : pc[q] \in {"file", "create"}
  /\ path = "file" =>
       \A p \in Processes : pc[p] \in TooLate => \E q \in Processes : pc[q] \notin TooLate

TableAhead ==
  \A p \in Processes :
    /\ calm /\ pc[p] = "jobs" /\ writer # p => jobs # "legacy"
    /\ calm /\ pc[p] = "columns" /\ writer # p /\ jobs # "current" =>
         \E q \in Processes : pc[q] = "delete" \/ writer = q

SurvivorInv == (calm => PathAhead) /\ TableAhead

(* It holds of every first state.                                          *)
LEMMA SurvivorInit == Init => SurvivorInv
  BY DEF Init, RefusedOnSight, SurvivorInv, PathAhead, TableAhead, OnPath, TooLate, Paths

(* The table, or whoever dropped it, is ahead of every start.              *)
LEMMA TableAheadStep ==
  ASSUME OpenInv, TableAhead, NEW p \in Processes,
         Launch(p) \/ Opens(p) \/ Serve(p) \/ Untrusted(p) \/ Works(p) \/ Fails(p)
  PROVE  TableAhead'
  <1> USE JournalOpenAssumption
      DEF OpenInv, TypeOK, WriterInRebuild, DraftSound, MarkHasTable, TableAhead, Goes, disk, Tables,
          Ended, Starting, OnPath, Statements
  <1>1. CASE Launch(p)  BY <1>1 DEF Launch
  <1>2. CASE FindsPath(p)
    BY <1>2 DEF FindsPath, FindDirectory, MakeDirectory, FindFile, CreateFile
  <1>3. CASE ReadVersion(p)  BY <1>3 DEF ReadVersion
  <1>4. CASE DropJobs(p)
    <2>1. pc'[p] = "delete" /\ jobs' = "none" /\ UNCHANGED <<writer, draft>>
      BY <1>4 DEF DropJobs
    <2>2. \A q \in Processes : q # p => pc'[q] = pc[q]  BY <1>4 DEF DropJobs
    <2>3. QED  BY <2>1, <2>2
  <1>5. CASE DeleteVersions(p)  BY <1>5 DEF DeleteVersions
  <1>6. CASE InsertVersion(p)  BY <1>6 DEF InsertVersion
  <1>7. CASE CreateJobs(p)
    <2>1. CASE writer = p
      <3>1. draft'.jobs = "current" /\ UNCHANGED <<jobs, writer>>
        BY <1>7, <2>1 DEF CreateJobs, Created
      <3>2. QED  BY <1>7, <2>1, <3>1 DEF CreateJobs
    <2>2. CASE writer # p
      <3>1. (calm => jobs' = "current") /\ UNCHANGED <<draft, writer, calm>>
        BY <1>7, <2>2 DEF CreateJobs, Created
      <3>2. QED  BY <1>7, <2>2, <3>1 DEF CreateJobs
    <2>3. QED  BY <2>1, <2>2
  <1>8. CASE CheckColumns(p)
    <2>1. writer = p => Seen(p) = "current"  BY <1>8 DEF CheckColumns, Seen
    <2>2. UNCHANGED <<writer, draft, jobs>>  BY <1>8, <2>1 DEF CheckColumns, Releases
    <2>3. QED  BY <1>8, <2>2 DEF CheckColumns
  <1>9. CASE Commit(p)
    <2>1. CASE writer = p
      <3>1. jobs' = "current" /\ writer' = Nobody  BY <1>9, <2>1 DEF Commit, Releases
      <3>2. QED  BY <1>9, <2>1, <3>1 DEF Commit
    <2>2. CASE writer # p  BY <1>9, <2>2 DEF Commit, Releases
    <2>3. QED  BY <2>1, <2>2
  <1>10. CASE Serve(p) \/ Untrusted(p)  BY <1>10 DEF Serve, Untrusted
  <1>11. CASE Works(p)  BY <1>11 DEF Works, Close, Record
  <1>12. CASE TimesOut(p)  BY <1>12 DEF TimesOut
  <1>13. CASE DatabaseFails(p) \/ Crash(p)
    BY <1>13 DEF DatabaseFails, Crash, Releases
  <1>14. QED
    BY <1>1, <1>2, <1>3, <1>4, <1>5, <1>6, <1>7, <1>8, <1>9, <1>10, <1>11, <1>12, <1>13
    DEF Opens, Rebuilds, Fails

(* A step of a start leaves somebody who is not too late.                  *)
LEMMA PathAheadStep ==
  ASSUME OpenInv, TableAhead, calm, PathAhead, calm', NEW p \in Processes,
         Launch(p) \/ Opens(p) \/ Serve(p) \/ Untrusted(p) \/ Works(p) \/ Fails(p)
  PROVE  PathAhead'
  <1> USE JournalOpenAssumption
      DEF OpenInv, TypeOK, PathAhead, Goes, disk, Ended, Starting, OnPath, Statements, Paths, TooLate
  <1>1. CASE Launch(p)  BY <1>1 DEF Launch
  <1>2. CASE FindDirectory(p)  BY <1>2 DEF FindDirectory
  <1>3. CASE MakeDirectory(p)
    <2>1. CASE path = "nothing"
      <3>1. path' = "directory" /\ pc'[p] = "file"  BY <1>3, <2>1 DEF MakeDirectory
      <3>2. \A q \in Processes : q # p => pc'[q] = pc[q]  BY <1>3 DEF MakeDirectory
      <3>3. QED  BY <2>1, <3>1, <3>2
    <2>2. CASE path # "nothing"
      <3>1. path' = path /\ pc[p] = "mkdir" /\ pc' = [pc EXCEPT ![p] = "broken"]
        BY <1>3, <2>2 DEF MakeDirectory
      <3>2. QED  BY <2>2, <3>1
    <2>3. QED  BY <2>1, <2>2
  <1>4. CASE FindFile(p)  BY <1>4 DEF FindFile
  <1>5. CASE CreateFile(p)
    <2>1. CASE path = "directory"
      <3>1. path' = "file" /\ pc'[p] = "version"  BY <1>5, <2>1 DEF CreateFile
      <3>2. QED  BY <3>1
    <2>2. CASE path # "directory"
      <3>1. path' = path /\ pc[p] = "create" /\ pc' = [pc EXCEPT ![p] = "refused"]
        BY <1>5, <2>2 DEF CreateFile
      <3>2. QED  BY <2>2, <3>1
    <2>3. QED  BY <2>1, <2>2
  <1>6. CASE ReadVersion(p)  BY <1>6 DEF ReadVersion
  <1>7. CASE Rebuilds(p)  BY <1>7 DEF Rebuilds, DropJobs, DeleteVersions, InsertVersion
  <1>8. CASE CreateJobs(p)  BY <1>8 DEF CreateJobs
  <1>9. CASE CheckColumns(p)
    <2>1. pc[p] = "columns" /\ path' = path /\ path = "file"  BY <1>9 DEF CheckColumns
    <2>2. CASE Seen(p) = "current"  BY <1>9, <2>1, <2>2 DEF CheckColumns
    <2>3. CASE Seen(p) # "current"
      <3>1. writer # p /\ jobs # "current"
        BY <2>1, <2>3 DEF Seen, DraftSound
      <3>2. PICK q \in Processes : pc[q] = "delete" \/ writer = q
        BY <2>1, <3>1 DEF TableAhead
      <3>3. q # p /\ pc[q] \notin TooLate
        BY <2>1, <3>1, <3>2 DEF WriterInRebuild
      <3>4. pc'[q] = pc[q]  BY <1>9, <3>3 DEF CheckColumns
      <3>5. QED  BY <2>1, <3>3, <3>4
    <2>4. QED  BY <2>2, <2>3
  <1>10. CASE Commit(p)  BY <1>10 DEF Commit
  <1>11. CASE Serve(p) \/ Untrusted(p)  BY <1>11 DEF Serve, Untrusted
  <1>12. CASE Works(p)  BY <1>12 DEF Works, Close, Record
  <1>13. CASE Fails(p)  BY <1>13 DEF Fails, TimesOut, DatabaseFails, Crash
  <1>14. QED
    BY <1>1, <1>2, <1>3, <1>4, <1>5, <1>6, <1>7, <1>8, <1>9, <1>10, <1>11, <1>12, <1>13
    DEF Opens, FindsPath

(* Nothing that failed is forgotten.                                       *)
LEMMA CalmBefore ==
  ASSUME OpenInv, Next, calm' PROVE calm
  BY DEF OpenInv, TypeOK, Next, Launch, Opens, FindsPath, FindDirectory, MakeDirectory, FindFile,
         CreateFile, ReadVersion, Rebuilds, DropJobs, DeleteVersions, InsertVersion, CreateJobs,
         CheckColumns, Commit, Serve, Untrusted, Works, Close, Record, Fails, TimesOut,
         DatabaseFails, Crash

LEMMA SurvivorStep == OpenInv /\ SurvivorInv /\ [Next]_vars => SurvivorInv'
  <1>1. ASSUME OpenInv, SurvivorInv, UNCHANGED vars  PROVE SurvivorInv'
    BY <1>1 DEF SurvivorInv, PathAhead, TableAhead, vars
  <1>2. ASSUME OpenInv, SurvivorInv, Next  PROVE SurvivorInv'
    BY <1>2, CalmBefore, PathAheadStep, TableAheadStep DEF Next, SurvivorInv
  <1>3. QED  BY <1>1, <1>2

(* For any number of starts, on a journal with any mark, table and rows or *)
(* on none: unless something outside the program failed, or the disk is    *)
(* one that every start must refuse, racing starts do not all refuse one   *)
(* another.                                                                *)
THEOREM StartsSurvive == Spec => []NotAllRefused
  <1>1. OpenInv /\ SurvivorInv => NotAllRefused
    <2> SUFFICES ASSUME OpenInv, SurvivorInv, calm, Processes # {}
                 PROVE  \E p \in Processes : pc[p] \notin {"refused", "broken"}
      BY DEF NotAllRefused
    <2>1. PathAhead /\ path \in Paths  BY DEF SurvivorInv, OpenInv, TypeOK
    <2>2. PICK p \in Processes : TRUE  OBVIOUS
    <2>3. QED  BY <2>1, <2>2 DEF PathAhead, Paths, TooLate, OnPath
  <1>2. QED
    BY <1>1, SurvivorInit, SurvivorStep, OpenInvariance, PTL DEF Spec

-----------------------------------------------------------------------------
(* Startup.                                                                *)

(* A step of a start is a step of JournalOpen, or leaves its state alone.  *)
LEMMA StartupSteps == [StartupNext]_allVars => [Next]_vars
  <1>1. ASSUME NEW p \in Processes, Begin(p) \/ Proceeds(p) \/ Disturbs(p)
        PROVE  [Next]_vars
    <2>1. CASE Begin(p)  BY <2>1 DEF Begin
    <2>2. CASE Configures(p)
      BY <2>2 DEF Configures, ReadConfig, ReadSession, ReadEntry, LoadFails
    <2>3. CASE OpenJournal(p)  BY <2>3 DEF OpenJournal, Next
    <2>4. CASE Journals(p)  BY <2>4 DEF Journals, Next, Fails
    <2>5. CASE CreateServer(p)  BY <2>5 DEF CreateServer, Next
    <2>6. CASE Disturbs(p)  BY <2>6 DEF Disturbs, Next, Fails
    <2>7. QED  BY <1>1, <2>1, <2>2, <2>3, <2>4, <2>5, <2>6 DEF Proceeds
  <1>2. ASSUME NEW e \in Entries, Rotate(e)  PROVE UNCHANGED vars
    BY <1>2 DEF Rotate
  <1>3. UNCHANGED allVars => UNCHANGED vars  BY DEF allVars
  <1>4. QED  BY <1>1, <1>2, <1>3 DEF StartupNext

(* However the configuration is loaded, a start does to the journal what   *)
(* JournalOpen allows: what is proved of it holds of whole starts.         *)
THEOREM StartupImplementsOpen == StartupSpec => Spec
  <1>1. StartupInit => Init  BY DEF StartupInit
  <1>2. QED  BY <1>1, StartupSteps, PTL DEF StartupSpec, Spec

(* The journal of whole starts is kept once it is settled, and whole       *)
(* starts do not all refuse one another.                                   *)
THEOREM StartupKeepsJournal ==
  StartupSpec => SettledJournalKept /\ MarkIsSound /\ []NotAllRefused
  BY StartupImplementsOpen, SettledKept, MarkSound, StartsSurvive, PTL

(***************************************************************************)
(* The inductive invariant of the configuration: what each stage of a load *)
(* has read, and that a process loads only while it has no journal open.   *)
(* Between the two reads, what the process would have if the inbox's entry *)
(* came now is tolerable already.                                          *)
(***************************************************************************)
WithInbox(c) == [c EXCEPT !["inbox"] = vault["inbox"]]

Complete(c) == c["webhook"] # 0 /\ c["inbox"] # 0 /\ Tolerable(c)

HalfLoaded(c) ==
  c["webhook"] # 0 /\ c["webhook"] <= vault["webhook"] /\ Tolerable(WithInbox(c))

LoadedSoFar ==
  \A p \in Processes :
    /\ load[p] = "inbox" => HalfLoaded(cred[p])
    /\ load[p] = "ready" => Complete(cred[p])
    /\ load[p] # "none" => pc[p] \in Ended
    /\ pc[p] \in Starting \union {"serving"} => Complete(cred[p])

StartupInv == OpenInv /\ StartupTypeOK /\ vault \in past /\ First \in past /\ LoadedSoFar

(* The first states satisfy it.                                            *)
LEMMA StartupInvInit == StartupInit => StartupInv
  <1> SUFFICES ASSUME StartupInit PROVE StartupInv
    OBVIOUS
  <1>1. OpenInv  BY OpenInvInit DEF StartupInit
  <1>2. StartupTypeOK
    BY <1>1, StartupAssumption
    DEF StartupInit, StartupTypeOK, OpenInv, First, Unread, Loading
  <1>3. LoadedSoFar
    BY DEF StartupInit, Init, LoadedSoFar, Starting, OnPath, Statements, Ended
  <1>4. QED  BY <1>1, <1>2, <1>3 DEF StartupInv, StartupInit

(* More history tolerates no less.                                         *)
LEMMA TolerableGrows ==
  ASSUME NEW c, Tolerable(c), past \subseteq past'
  PROVE  c \in past' \/ \E v \in past' : v["webhook"] > c["webhook"] /\ v["inbox"] < c["inbox"]
  BY DEF Tolerable

(* A step of the journal leaves p in its phase, or takes it from a start   *)
(* to its end: nothing but Launch begins one.                              *)
LEMMA JournalPhases ==
  ASSUME TypeOK, NEW p \in Processes, NEW q \in Processes,
         \/ Opens(p) \/ TimesOut(p) \/ Serve(p) \/ Untrusted(p)
         \/ DatabaseFails(p) \/ Crash(p) \/ Works(p)
  PROVE  /\ pc[p] \notin Ended
         /\ pc[q] \in Ended => pc'[q] \in Ended
         /\ pc'[q] \in Starting \union {"serving"} => pc[q] \in Starting \union {"serving"}
  <1> USE DEF TypeOK, Goes, Ended, Starting, OnPath, Statements
  <1>1. CASE FindsPath(p)
    BY <1>1 DEF FindsPath, FindDirectory, MakeDirectory, FindFile, CreateFile
  <1>2. CASE ReadVersion(p)  BY <1>2 DEF ReadVersion
  <1>3. CASE Rebuilds(p)  BY <1>3 DEF Rebuilds, DropJobs, DeleteVersions, InsertVersion
  <1>4. CASE CreateJobs(p)  BY <1>4 DEF CreateJobs
  <1>5. CASE CheckColumns(p)  BY <1>5 DEF CheckColumns
  <1>6. CASE Commit(p)  BY <1>6 DEF Commit
  <1>7. CASE TimesOut(p) \/ DatabaseFails(p) \/ Crash(p)
    BY <1>7 DEF TimesOut, DatabaseFails, Crash
  <1>8. CASE Serve(p) \/ Untrusted(p)  BY <1>8 DEF Serve, Untrusted
  <1>9. CASE Works(p)  BY <1>9 DEF Works, Close, Record
  <1>10. QED
    BY <1>1, <1>2, <1>3, <1>4, <1>5, <1>6, <1>7, <1>8, <1>9 DEF Opens

(* A rotation keeps what the processes have read as good as it was: one of *)
(* the inbox's after one of the webhook's makes the tolerable mixture.     *)
LEMMA RotateStep ==
  ASSUME StartupInv, NEW e \in Entries, Rotate(e)
  PROVE  StartupInv'
  <1> USE StartupAssumption DEF StartupInv, StartupTypeOK, Entries
  <1>1. OpenInv'
    BY StartupSteps, OpenInvStep DEF StartupNext
  <1>2. /\ vault' \in [Entries -> 1 .. MaxRotations] /\ vault'[e] = vault[e] + 1
        /\ \A f \in Entries \ {e} : vault'[f] = vault[f]
        /\ past' = past \union {vault'}
        /\ UNCHANGED <<vars, config, load, cred>>
    BY DEF Rotate
  <1>3. StartupTypeOK' /\ (vault \in past)' /\ (First \in past)'
    BY <1>1, <1>2 DEF OpenInv, First
  <1>4. \A c : Tolerable(c) => Tolerable(c)'
    BY <1>2 DEF Tolerable
  <1>5. ASSUME NEW p \in Processes, HalfLoaded(cred[p])
        PROVE  HalfLoaded(cred[p])'
    <2> DEFINE c == cred[p]
    <2>1. c \in [Entries -> 0 .. MaxRotations] /\ c' = c  BY <1>2
    <2>2. c["webhook"] # 0 /\ c["webhook"] <= vault["webhook"] /\ Tolerable(WithInbox(c))
      BY <1>5 DEF HalfLoaded
    <2>3. vault'["webhook"] >= vault["webhook"] /\ c["webhook"] <= vault'["webhook"]
      <3>1. vault'["webhook"] \in {vault["webhook"], vault["webhook"] + 1}
        BY <1>2
      <3>2. vault["webhook"] \in Nat /\ c["webhook"] \in Nat  BY <2>1
      <3>3. QED  BY <2>2, <3>1, <3>2
    <2>4. CASE e = "webhook"
      <3>1. vault'["inbox"] = vault["inbox"]  BY <1>2, <2>4
      <3>2. WithInbox(c)' = WithInbox(c)  BY <2>1, <3>1 DEF WithInbox
      <3>3. Tolerable(WithInbox(c))'  BY <1>4, <2>2, <3>2 DEF Tolerable
      <3>4. QED  BY <2>1, <2>2, <2>3, <3>3 DEF HalfLoaded
    <2>5. CASE e = "inbox"
      <3> DEFINE d == [c EXCEPT !["inbox"] = vault'["inbox"]]
      <3>1. d \in [Entries -> 0 .. MaxRotations] /\ d["webhook"] = c["webhook"]
            /\ d["inbox"] = vault["inbox"] + 1
        BY <1>2, <2>1, <2>5
      <3>2. vault'["webhook"] = vault["webhook"]  BY <1>2, <2>5
      <3>3. ASSUME c["webhook"] = vault["webhook"]  PROVE d \in past'
        <4>1. \A f \in Entries : d[f] = vault'[f]  BY <1>2, <2>5, <3>1, <3>2, <3>3
        <4>2. d = vault'
          <5> HIDE DEF d
          <5>1. d \in [Entries -> Nat] /\ vault' \in [Entries -> Nat]  BY <1>2, <3>1
          <5>2. QED  BY <4>1, <5>1
        <4>3. QED  BY <1>2, <4>2
      <3>4. ASSUME c["webhook"] < vault["webhook"]
            PROVE  \E v \in past' : v["webhook"] > d["webhook"] /\ v["inbox"] < d["inbox"]
        <4>1. vault["webhook"] > d["webhook"] /\ vault["inbox"] < d["inbox"]
          BY <2>1, <3>1, <3>4
        <4>2. vault \in past'  BY <1>2
        <4>3. QED  BY <4>1, <4>2
      <3>5. c["webhook"] = vault["webhook"] \/ c["webhook"] < vault["webhook"]
        BY <2>1, <2>2
      <3>6. d \in past' \/ \E v \in past' : v["webhook"] > d["webhook"] /\ v["inbox"] < d["inbox"]
        BY <3>3, <3>4, <3>5
      <3>7. Tolerable(WithInbox(c))'  BY <2>1, <3>6 DEF Tolerable, WithInbox
      <3>8. QED  BY <2>1, <2>2, <2>3, <3>7 DEF HalfLoaded
    <2>6. QED  BY <2>4, <2>5
  <1>6. LoadedSoFar'
    BY <1>2, <1>4, <1>5 DEF LoadedSoFar, Complete, Tolerable, vars
  <1>7. QED  BY <1>1, <1>3, <1>6

(* A read leaves a process with what its next stage needs.                 *)
LEMMA ReadEntryStep ==
  ASSUME StartupInv, NEW p \in Processes, NEW e \in Entries, ReadEntry(p, e)
  PROVE  StartupTypeOK' /\ LoadedSoFar'
  <1> USE StartupAssumption
      DEF StartupInv, StartupTypeOK, Entries, Loads, vars, Ended, Starting, OnPath, Statements
  <1>1. load[p] = e /\ UNCHANGED <<vars, config, vault, past>>
    BY DEF ReadEntry
  <1>2. load' = [load EXCEPT ![p] = IF e = "webhook" THEN "inbox" ELSE "ready"]
    BY DEF ReadEntry, Follows
  <1>3. /\ cred' \in [Processes -> [Entries -> 0 .. MaxRotations]]
        /\ cred'[p] = [cred[p] EXCEPT ![e] = vault[e]]
        /\ \A q \in Processes \ {p} : cred'[q] = cred[q]
    BY DEF ReadEntry
  <1>4. TypeOK'  BY <1>1 DEF TypeOK
  <1>5. StartupTypeOK'  BY <1>1, <1>2, <1>3, <1>4 DEF Loading
  <1>6. \A c : (Tolerable(c) => Tolerable(c)') /\ (HalfLoaded(c) => HalfLoaded(c)')
    BY <1>1 DEF Tolerable, HalfLoaded, WithInbox
  <1>7. CASE e = "webhook"
    <2>1. cred'[p]["webhook"] = vault["webhook"] /\ WithInbox(cred'[p]) = vault
      BY <1>3, <1>7 DEF WithInbox
    <2>2. HalfLoaded(cred'[p])  BY <2>1 DEF HalfLoaded, Tolerable
    <2>3. HalfLoaded(cred[p])'  BY <1>1, <2>2 DEF HalfLoaded, WithInbox, Tolerable
    <2>4. QED
      BY <1>1, <1>2, <1>3, <1>5, <1>6, <1>7, <2>3 DEF LoadedSoFar, Complete
  <1>8. CASE e = "inbox"
    <2>1. HalfLoaded(cred[p])  BY <1>1, <1>8 DEF LoadedSoFar
    <2>2. cred'[p] = WithInbox(cred[p])  BY <1>3, <1>8 DEF WithInbox
    <2>3. cred'[p]["webhook"] = cred[p]["webhook"] /\ cred'[p]["inbox"] = vault["inbox"]
      BY <1>3, <1>8
    <2>4. Complete(cred'[p])  BY <2>1, <2>2, <2>3 DEF HalfLoaded, Complete
    <2>5. Complete(cred[p])'  BY <1>1, <2>4 DEF Complete, Tolerable
    <2>6. QED
      BY <1>1, <1>2, <1>3, <1>5, <1>6, <1>8, <2>5 DEF LoadedSoFar, Complete
  <1>9. QED  BY <1>7, <1>8

(* Every step keeps it.                                                    *)
LEMMA StartupInvStep == StartupInv /\ [StartupNext]_allVars => StartupInv'
  <1> SUFFICES ASSUME StartupInv, [StartupNext]_allVars PROVE StartupInv'
    OBVIOUS
  <1>1. OpenInv'  BY StartupSteps, OpenInvStep DEF StartupInv
  <1>2. TypeOK'  BY <1>1 DEF OpenInv
  <1>3. ASSUME UNCHANGED <<vault, past>>
        PROVE  /\ (vault \in past)' /\ (First \in past)'
               /\ \A c : (Complete(c) => Complete(c)') /\ (HalfLoaded(c) => HalfLoaded(c)')
    BY <1>3 DEF StartupInv, First, Complete, Tolerable, HalfLoaded, WithInbox
  <1> USE StartupAssumption DEF StartupInv, StartupTypeOK, LoadedSoFar, Loads
  <1>4. CASE UNCHANGED allVars
    BY <1>1, <1>2, <1>3, <1>4 DEF allVars, startupVars, vars
  <1>5. ASSUME NEW p \in Processes, Begin(p)  PROVE StartupInv'
    BY <1>1, <1>2, <1>3, <1>5 DEF Begin, vars, Loading, Ended, Starting, OnPath, Statements
  <1>6. ASSUME NEW p \in Processes, Configures(p)  PROVE StartupInv'
    <2> USE DEF vars, Loading, Ended, Starting, OnPath, Statements
    <2>1. CASE ReadConfig(p)
      <3>1. CASE config = "file"
        <4>1. cred' = [cred EXCEPT ![p] = First] /\ UNCHANGED <<vars, config, vault, past>>
              /\ load' = [load EXCEPT ![p] = "ready"]
          BY <2>1, <3>1 DEF ReadConfig
        <4>2. First \in [Entries -> 0 .. MaxRotations] /\ Complete(First)
          BY DEF First, Complete, Tolerable, Entries
        <4>3. QED  BY <1>1, <1>2, <1>3, <2>1, <4>1, <4>2 DEF ReadConfig
      <3>2. CASE config # "file"  BY <1>1, <1>2, <1>3, <2>1, <3>2 DEF ReadConfig
      <3>3. QED  BY <3>1, <3>2
    <2>2. CASE ReadSession(p)  BY <1>1, <1>2, <1>3, <2>2 DEF ReadSession, Follows
    <2>3. CASE \E e \in Entries : ReadEntry(p, e)
      <3>1. UNCHANGED <<vault, past>>  BY <2>3 DEF ReadEntry
      <3>2. StartupTypeOK' /\ LoadedSoFar'  BY <2>3, ReadEntryStep
      <3>3. QED  BY <1>1, <1>3, <3>1, <3>2
    <2>4. CASE LoadFails(p)
      BY <1>1, <1>2, <1>3, <2>4 DEF LoadFails, Unread, Entries
    <2>5. QED  BY <1>6, <2>1, <2>2, <2>3, <2>4 DEF Configures
  <1>7. ASSUME NEW p \in Processes, OpenJournal(p)  PROVE StartupInv'
    BY <1>1, <1>2, <1>3, <1>7 DEF OpenJournal, Launch, Goes, OpenInv, TypeOK, Loading
  <1>8. ASSUME NEW p \in Processes, Journals(p) \/ CreateServer(p) \/ Disturbs(p)
        PROVE  StartupInv'
    <2>1. Keeps(p)  BY <1>8 DEF Journals, CreateServer, Disturbs
    <2>2. /\ pc[p] \notin Ended
          /\ \A q \in Processes :
               /\ pc[q] \in Ended => pc'[q] \in Ended
               /\ pc'[q] \in Starting \union {"serving"} => pc[q] \in Starting \union {"serving"}
      BY <1>8, JournalPhases DEF Journals, CreateServer, Disturbs
    <2>3. /\ cred' \in [Processes -> [Entries -> 0 .. MaxRotations]]
          /\ \A q \in Processes : q # p \/ pc'[q] \notin Ended => cred'[q] = cred[q]
          /\ UNCHANGED <<config, vault, past, load>>
      BY <2>1 DEF Keeps, Unread, Entries
    <2>4. \A q \in Processes : pc'[q] \in Starting \union {"serving"} => pc'[q] \notin Ended
      BY DEF Ended, Starting, OnPath, Statements
    <2>5. load[p] = "none"  BY <2>2
    <2>6. LoadedSoFar'  BY <1>3, <2>2, <2>3, <2>4, <2>5
    <2>7. QED  BY <1>1, <1>2, <1>3, <2>3, <2>6
  <1>9. ASSUME NEW e \in Entries, Rotate(e)  PROVE StartupInv'
    BY <1>9, RotateStep
  <1>10. QED
    BY <1>4, <1>5, <1>6, <1>7, <1>8, <1>9 DEF StartupNext, Proceeds

(* Processes, their configuration and their credentials keep their types.  *)
THEOREM StartupTypeCorrect == StartupSpec => []StartupTypeOK
  <1>1. StartupInv => StartupTypeOK  BY DEF StartupInv
  <1>2. QED  BY <1>1, StartupInvInit, StartupInvStep, PTL DEF StartupSpec

(* For any processes and rotations: a process on its journal has both      *)
(* entries, of versions that were in Vault together unless the webhook's   *)
(* was renewed first, between its reads.                                   *)
THEOREM ConfiguredWhole == StartupSpec => []ServesConfigured
  <1>1. StartupInv => ServesConfigured
    BY DEF StartupInv, LoadedSoFar, Complete, ServesConfigured
  <1>2. QED  BY <1>1, StartupInvInit, StartupInvStep, PTL DEF StartupSpec
=============================================================================
