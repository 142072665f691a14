------------------------------ MODULE Delivery ------------------------------
(***************************************************************************)
(* The coordinator with results as they are: what becomes of a job given   *)
(* the very body its worker posted (deliver.py's rules, the journal's and  *)
(* the inbox client's limits), and whether a worker can know those rules.  *)
(***************************************************************************)
EXTENDS Coordinator, ResultBody

CONSTANTS
  Content,  \* what each body holds
  Goal,     \* the prompt of each job, its ends stripped
  Samples   \* bodies on which the rules are compared with the documentation

ASSUME DeliveryAssumption ==
  /\ Content \in [Bodies -> ResultBody]
  /\ \A b \in Bodies : Stored(Content[b])
  /\ Kind = [b \in Bodies |-> KindOf(Content[b])]
  /\ CompletedAt = [b \in Bodies |-> Content[b].completed]
  /\ \A j \in Jobs : Goal[j] \in Text /\ CleanGoal(Goal[j])
  /\ Samples \subseteq ResultBody

\* At time t the rules and the documentation agree on the samples.
RulesAgree == [t \in 0 .. MaxNow |->
  \A b \in Samples :
    /\ Validated(b, t) => Tolerated(b, t)
    /\ Compliant(b, t) => Validated(b, t)]

(* validate_result accepts nothing the documentation rules out, but for    *)
(* what it is known to overlook, and turns down nothing it allows that is  *)
(* not empty, padded, no text or an answer beyond the code's own bounds.   *)
RulesAreDocumented == RulesAgree[now]

(* What is recorded for a job fits the body its worker posted: a digest a  *)
(* timely answer the documentation tolerates, an error code such an error, *)
(* a rejection a body that breaks the contract then.                       *)
RecordFitsBody ==
  [][\A j \in Jobs : slots[j].body # NoBody =>
       LET b == Content[slots[j].body]
       IN /\ rows'[j].digest # rows[j].digest => b.status = "ok" /\ Tolerated(b, now)
          /\ rows'[j].error # rows[j].error =>
               IF rows'[j].error = "worker" THEN b.status = "error" /\ Tolerated(b, now)
               ELSE ~Compliant(b, now)]_rows

(* No answer is ever returned that breaks the documented contract in more  *)
(* than what validate_result is known to overlook, or that claims to have  *)
(* been completed later than it was returned.                              *)
AnswersAreTolerated ==
  \A j \in Jobs : \A b \in answers[j] :
    Tolerated(Content[b], now) /\ Content[b].status = "ok"

(* The outcome of a job fits the body the inbox holds for it, whichever of *)
(* its handlers, sessions and readers settled it and whatever was cut      *)
(* short or could not be written on the way: ready stands for an answer,   *)
(* failed for an error, and conflict for a body that breaks the contract,  *)
(* or did until the time it says it was completed                          *)
(* (docs/mcp-coordinator.md, lines 29 to 31).                              *)
OutcomeFitsBody ==
  \A j \in Jobs : slots[j].body # NoBody =>
    LET b == Content[slots[j].body]
    IN /\ rows[j].state = "ready" => b.status = "ok" /\ Tolerated(b, now)
       /\ rows[j].state = "failed" => b.status = "error" /\ Tolerated(b, now)
       /\ rows[j].state = "conflict" => ~Compliant(b, 0)

\* An answer as the packet's instructions ask for it (deliver.py:48-83).
FollowsPacket(b, goal) ==
  /\ b.identity /\ b.attested /\ b.utc
  /\ b.query = goal
  /\ b.status = "ok" /\ b.error.shape = "null"
  /\ b.answer.shape = "text" /\ b.summary.chars <= SummaryMax
  /\ b.sources.list /\ Len(b.sources.entries) <= SourcesMax
  /\ \A e \in DOMAIN b.sources.entries :
       Len(b.sources.entries[e]) = 1 /\ b.sources.entries[e][1].chars <= SourceMax
  /\ Tidy(b) /\ \A t \in Everything(b) : "credential" \notin t.marks

\* And what they leave a worker to guess: how long a text answer may be, that
\* it may not sound like a post of its own, and no text hold a control character.
Untold(b) ==
  \/ b.answer.texts[1].chars > AnswerStringMax
  \/ "claim" \in b.answer.texts[1].marks
  \/ \E t \in TextsOf(b) : "control" \in t.marks

(* A worker that follows its instructions, and is not caught by what they  *)
(* leave out, is never rejected, by whichever session judges its callback  *)
(* and however late: _CALLBACK_RESULT_CONTRACT tells all the other rules.  *)
ToldIsAccepted ==
  \A j \in Jobs : rows[j].error = "invalid_result" /\ slots[j].body # NoBody =>
    LET b == Content[slots[j].body]
    IN FollowsPacket(b, Goal[j]) /\ b.completed = 0 => Untold(b)

-----------------------------------------------------------------------------
(* A statement of the documentation that the code does not keep.           *)

(* "The requestor rejects a body that mismatches the job identity, claims  *)
(* a write action in the first person" and so on (result-delivery.md,      *)
(* lines 67 to 70): what it hands out is documented in full.  The pattern  *)
(* of such claims is searched for in the answer only.                      *)
AnswersAreDocumented ==
  \A j \in Jobs : \A b \in answers[j] : Documented(Content[b], now)
=============================================================================
