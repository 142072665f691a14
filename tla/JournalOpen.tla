----------------------------- MODULE JournalOpen -----------------------------
(***************************************************************************)
(* How server processes open the journal they share (jobs.py, _private_path *)
(* and JobStore.open, as main calls them).  The connection is opened with  *)
(* isolation_level="IMMEDIATE": a DELETE or INSERT begins a transaction    *)
(* that takes the write lock, a statement of any other kind outside one is *)
(* a transaction of its own.  So processes that start together interleave  *)
(* between all statements up to the DELETE.                                *)
(***************************************************************************)
EXTENDS Naturals, Sequences

CONSTANTS
  Processes,  \* the server processes given this journal
  Requests,   \* the requests they may record in it
  Nobody,     \* the owner of a write lock nobody holds
  MaxRows     \* BOUND: no journal starts with more rows of schema_version

ASSUME JournalOpenAssumption == Nobody \notin Processes /\ MaxRows \in Nat

VARIABLES
  path,      \* how much of the journal's path exists
  versions,  \* the rows of schema_version
  jobs,      \* the jobs table
  rows,      \* the requests recorded in it under the current schema
  writer,    \* whose connection holds the write lock
  draft,     \* what that connection's transaction has written so far
  pc,        \* the statement each process runs next
  calm       \* history: nothing outside the program has failed so far, and
             \* the disk was none that every start must refuse

disk == <<path, versions, jobs, rows>>
vars == <<path, versions, jobs, rows, writer, draft, pc, calm>>

\* "unsafe": a directory or file that is not private, regular and owned.
Paths == {"nothing", "directory", "file", "unsafe"}
Versions == {"old", "current"}
Tables == {"none", "legacy", "current"}

\* refused: main exits with status 2; broken: an exception main does not name.
Ended == {"down", "refused", "broken"}
OnPath == {"directory", "mkdir", "file", "create"}
Statements == {"version", "drop", "delete", "insert", "jobs", "columns", "commit"}
Starting == OnPath \union Statements \union {"opened"}

Empty == [versions |-> <<>>, jobs |-> "none"]

\* What every start refuses, whoever else starts: a path that is not private,
\* and a table without the columns under the mark of the current version.
RefusedOnSight == path = "unsafe" \/ (versions = <<"current">> /\ jobs = "legacy")

\* What may lie on the disk before the first of these processes starts: no
\* journal file, or one with any mark, any table and any requests in it.
Init ==
  /\ path \in Paths
  /\ versions \in UNION {[1 .. n -> Versions] : n \in 0 .. MaxRows}
  /\ jobs \in Tables
  /\ rows \in SUBSET Requests
  /\ path # "file" => versions = <<>> /\ jobs = "none"
  /\ jobs # "current" => rows = {}
  /\ writer = Nobody
  /\ draft = Empty
  /\ pc = [p \in Processes |-> "down"]
  /\ calm = ~RefusedOnSight

Goes(p, next) == pc' = [pc EXCEPT ![p] = next]

-----------------------------------------------------------------------------
(* _private_path                                                           *)

Launch(p) ==
  /\ pc[p] \in Ended
  /\ Goes(p, "directory")
  /\ UNCHANGED <<disk, writer, draft, calm>>

(* A plausible slip: mkdir without asking whether the directory exists.    *)
FindDirectoryNever(p) ==
  /\ pc[p] = "directory"
  /\ Goes(p, "mkdir")
  /\ UNCHANGED <<disk, writer, draft, calm>>

FindDirectory(p) ==
  /\ pc[p] = "directory"
  /\ Goes(p, IF path = "nothing" THEN "mkdir" ELSE "file")
  /\ UNCHANGED <<disk, writer, draft, calm>>

\* mkdir has no exist_ok: the loser of two first starts gets a
\* FileExistsError, which is neither a JobStateError nor caught by main.
MakeDirectory(p) ==
  /\ pc[p] = "mkdir"
  /\ IF path = "nothing"
       THEN path' = "directory" /\ Goes(p, "file")
       ELSE Goes(p, "broken") /\ UNCHANGED path
  /\ UNCHANGED <<versions, jobs, rows, writer, draft, calm>>

FindFile(p) ==
  /\ pc[p] = "file"
  /\ Goes(p, CASE path = "file"      -> "version"
               [] path = "directory" -> "create"
               [] OTHER              -> "refused")
  /\ UNCHANGED <<disk, writer, draft, calm>>

\* O_CREAT | O_EXCL: one of two first starts creates the file.
CreateFile(p) ==
  /\ pc[p] = "create"
  /\ IF path = "directory"
       THEN path' = "file" /\ Goes(p, "version")
       ELSE Goes(p, "refused") /\ UNCHANGED path
  /\ UNCHANGED <<versions, jobs, rows, writer, draft, calm>>

-----------------------------------------------------------------------------
(* JobStore.open                                                           *)

(* A plausible slip: the version is compared with a value of another type. *)
ReadVersionMistyped(p) ==
  /\ pc[p] = "version"
  /\ Goes(p, "drop")
  /\ UNCHANGED <<disk, writer, draft, calm>>

\* CREATE TABLE IF NOT EXISTS schema_version, and its SELECT.
ReadVersion(p) ==
  /\ pc[p] = "version"
  /\ Goes(p, IF versions = <<"current">> THEN "jobs" ELSE "drop")
  /\ UNCHANGED <<disk, writer, draft, calm>>

\* DROP TABLE IF EXISTS jobs, a transaction of its own.
DropJobs(p) ==
  /\ pc[p] = "drop"
  /\ jobs # "none" => writer = Nobody
  /\ jobs' = "none"
  /\ rows' = {}
  /\ Goes(p, "delete")
  /\ UNCHANGED <<path, versions, writer, draft, calm>>

(* A plausible slip: the old version rows are kept.                        *)
DeleteVersionsSkipped(p) ==
  /\ pc[p] = "delete"
  /\ writer = Nobody
  /\ writer' = p
  /\ draft' = [versions |-> versions, jobs |-> jobs]
  /\ Goes(p, "insert")
  /\ UNCHANGED <<disk, calm>>

\* DELETE FROM schema_version begins the transaction.
DeleteVersions(p) ==
  /\ pc[p] = "delete"
  /\ writer = Nobody
  /\ writer' = p
  /\ draft' = [versions |-> <<>>, jobs |-> jobs]
  /\ Goes(p, "insert")
  /\ UNCHANGED <<disk, calm>>

(* A plausible slip: the version written is not the one expected.          *)
InsertVersionOther(p) ==
  /\ pc[p] = "insert"
  /\ draft' = [draft EXCEPT !.versions = Append(@, "next")]
  /\ Goes(p, "jobs")
  /\ UNCHANGED <<disk, writer, calm>>

InsertVersion(p) ==
  /\ pc[p] = "insert"
  /\ draft' = [draft EXCEPT !.versions = Append(@, "current")]
  /\ Goes(p, "jobs")
  /\ UNCHANGED <<disk, writer, calm>>

Created(table) == IF table = "none" THEN "current" ELSE table

\* CREATE TABLE IF NOT EXISTS jobs: within the transaction of a rebuild,
\* else a transaction of its own if there is anything to create.
CreateJobs(p) ==
  /\ pc[p] = "jobs"
  /\ IF writer = p
       THEN draft' = [draft EXCEPT !.jobs = Created(@)] /\ UNCHANGED jobs
       ELSE /\ jobs = "none" => writer = Nobody
            /\ jobs' = Created(jobs)
            /\ UNCHANGED draft
  /\ Goes(p, "columns")
  /\ UNCHANGED <<path, versions, rows, writer, calm>>

\* A connection sees what its own transaction wrote.
Seen(p) == IF writer = p THEN draft.jobs ELSE jobs

\* The connection is closed, and its transaction with it.
Releases(p) ==
  IF writer = p THEN writer' = Nobody /\ draft' = Empty ELSE UNCHANGED <<writer, draft>>

\* PRAGMA table_info(jobs): all columns, or "job store columns are missing".
CheckColumns(p) ==
  /\ pc[p] = "columns"
  /\ IF Seen(p) = "current"
       THEN Goes(p, "commit") /\ UNCHANGED <<writer, draft>>
       ELSE Goes(p, "refused") /\ Releases(p)
  /\ UNCHANGED <<disk, calm>>

Commit(p) ==
  /\ pc[p] = "commit"
  /\ IF writer = p
       THEN versions' = draft.versions /\ jobs' = draft.jobs
       ELSE UNCHANGED <<versions, jobs>>
  /\ Releases(p)
  /\ Goes(p, "opened")
  /\ UNCHANGED <<path, rows, calm>>

-----------------------------------------------------------------------------
(* The server on the open journal.                                         *)

\* create_server succeeds, or raises InboxError.
Serve(p) ==
  /\ pc[p] = "opened"
  /\ Goes(p, "serving")
  /\ UNCHANGED <<disk, writer, draft, calm>>

Untrusted(p) ==
  /\ pc[p] = "opened"
  /\ Goes(p, "refused")
  /\ calm' = FALSE
  /\ UNCHANGED <<disk, writer, draft>>

\* create_request: an INSERT and its commit.
Record(p, r) ==
  /\ pc[p] = "serving"
  /\ jobs = "current" /\ writer = Nobody
  /\ rows' = rows \union {r}
  /\ UNCHANGED <<path, versions, jobs, writer, draft, pc, calm>>

Close(p) ==
  /\ pc[p] = "serving"
  /\ Goes(p, "down")
  /\ UNCHANGED <<disk, writer, draft, calm>>

-----------------------------------------------------------------------------
(* Failures.                                                               *)

(* A plausible slip: a statement waits for the lock without a timeout.     *)
TimesOutNever(p) == FALSE /\ UNCHANGED vars

\* timeout=5: "database is locked", when another's transaction takes long.
TimesOut(p) ==
  /\ pc[p] \in {"drop", "delete", "jobs"}
  /\ writer \notin {Nobody, p}
  /\ Goes(p, "refused")
  /\ calm' = FALSE
  /\ UNCHANGED <<disk, writer, draft>>

\* Any other sqlite3.Error: the disk is full, the file is no database.
DatabaseFails(p) ==
  /\ pc[p] \in Statements
  /\ Goes(p, "refused")
  /\ Releases(p)
  /\ calm' = FALSE
  /\ UNCHANGED disk

Crash(p) ==
  /\ pc[p] \notin Ended
  /\ Goes(p, "down")
  /\ Releases(p)
  /\ calm' = FALSE
  /\ UNCHANGED disk

-----------------------------------------------------------------------------
FindsPath(p) == FindDirectory(p) \/ MakeDirectory(p) \/ FindFile(p) \/ CreateFile(p)

Rebuilds(p) == DropJobs(p) \/ DeleteVersions(p) \/ InsertVersion(p)

Opens(p) ==
  \/ FindsPath(p)
  \/ ReadVersion(p)
  \/ Rebuilds(p)
  \/ CreateJobs(p)
  \/ CheckColumns(p)
  \/ Commit(p)

Fails(p) == TimesOut(p) \/ DatabaseFails(p) \/ Crash(p)

Works(p) == Close(p) \/ \E r \in Requests : Record(p, r)

Next ==
  \E p \in Processes :
    Launch(p) \/ Opens(p) \/ Serve(p) \/ Untrusted(p) \/ Works(p) \/ Fails(p)

Spec == Init /\ [][Next]_vars

-----------------------------------------------------------------------------
TypeOK ==
  /\ path \in Paths
  /\ versions \in Seq(Versions)
  /\ jobs \in Tables
  /\ rows \subseteq Requests
  /\ writer \in Processes \union {Nobody}
  /\ draft \in [versions : Seq(Versions), jobs : Tables]
  /\ pc \in [Processes -> Ended \union Starting \union {"serving"}]
  /\ calm \in BOOLEAN

(* The mark is sound: wherever starts interleave, fail or die, a change of *)
(* schema_version leaves one row, the current version's, and leaves it in  *)
(* one step with the current table.  A mark without its table, or with two *)
(* rows, would have every later start refused or discard the journal.      *)
MarkIsSound ==
  [][versions' # versions => versions' = <<"current">> /\ jobs' = "current"]_disk

\* p read a version that is not current, and may still drop a table for it.
Rebuilding(p) == pc[p] \in {"drop", "delete", "insert"} \/ writer = p

Settled == versions = <<"current">> /\ \A p \in Processes : ~Rebuilding(p)

(* Once the journal is marked and no start that read it before is under    *)
(* way, it is kept for good: no start, failure or crash discards a         *)
(* recorded request or makes a later start rebuild.  A start that read it  *)
(* before does both: of two first starts, the second to get the write lock *)
(* drops the table the first one already serves.                           *)
SettledJournalKept == [][Settled => Settled' /\ rows \subseteq rows']_vars

(* Racing starts refuse one another over a directory, a file or a table    *)
(* that came or went, but never all of them: unless something outside the  *)
(* program failed, or the disk was one to refuse from the first (calm),    *)
(* one of them is up or still at it.                                       *)
NotAllRefused == calm /\ Processes # {} => \E p \in Processes : pc[p] \notin {"refused", "broken"}
=============================================================================
