-------------------------- MODULE CoordinatorClaims --------------------------
(***************************************************************************)
(* Statements of the documentation and of comments about the coordinator   *)
(* that its code does not keep.  Each is checked alone, in the smallest    *)
(* environment that shows the disagreement.                                *)
(***************************************************************************)
EXTENDS Coordinator

GivesUp(j) == rows[j].state = "dispatched" /\ rows'[j].state = "uncertain"

(* "deadline with no callback | uncertain", and "Valid status: ok callback *)
(* | ready" (docs/mcp-coordinator.md:33, 29): a job whose callback is in   *)
(* the inbox is not given up at its deadline.  No last fetch is made once  *)
(* the deadline has passed.                                                *)
DeadlineMeansNoCallback ==
  [][\A j \in Jobs : GivesUp(j) => slots[j].body = NoBody]_rows

(* "retry a transient inbox failure until the deadline instead of          *)
(* stranding a posted request as uncertain" (coordinator.py:199): a posted *)
(* request is not given up before its deadline.  An exception of the inbox *)
(* client that is not an InboxError does so.                               *)
RetriedUntilDeadline ==
  [][\A j \in Jobs : GivesUp(j) => now >= rows[j].deadline]_rows

(* The contract of one stored body per job "holds under concurrent         *)
(* dispatchers" (docs/result-delivery-plan.md:19): an answer once          *)
(* validated and pinned is not abandoned.  A second session that starts    *)
(* resumes a job the first one polls; the one whose record_result fails    *)
(* settles the job as uncertain before the other marks it ready.           *)
PinnedIsNotAbandoned ==
  \A j \in Jobs : rows[j].digest # NoBody => rows[j].state # "uncertain"

(* "the job has 45 minutes to answer before the requestor marks it         *)
(* uncertain" (docs/workers.md:20): a request is settled in the end if a   *)
(* session of the requestor stays up.  The job of a session that died      *)
(* while another lives is polled by neither.                               *)
SettledWhileServed ==
  (\E s \in Sessions : <>[](session[s] = "up")) => EveryJobSettles
=============================================================================
