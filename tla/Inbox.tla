-------------------------------- MODULE Inbox --------------------------------
(***************************************************************************)
(* The one-shot result inbox (inbox.py): a threading HTTP server over      *)
(* slots in memory.  Each request has a handler thread; what it checks or  *)
(* stamps before it holds the lock may be old when it gets it.             *)
(***************************************************************************)
EXTENDS Slots, FiniteSets

CONSTANTS
  Keys,      \* (job, kind) pairs; a worker's token is good for one of them
  Tokens,    \* callback tokens, each standing for its hash
  NoToken,   \* the token of a slot that is not registered
  Handlers,  \* handler threads
  MaxNow,    \* BOUND: the clock stops here, and no deadline is later
  MaxPosts   \* BOUND: no worker POST arrives after so many different answers

ASSUME InboxAssumption == NoToken \notin Tokens /\ {MaxNow, MaxPosts} \subseteq Nat

VARIABLES
  slots,     \* the inbox's slots
  holder,    \* the token hash of each slot
  calls,     \* what each handler thread brings to the lock
  now,       \* the clock
  receipts,  \* every worker POST answered since the inbox started
  reads      \* every body a GET returned since the inbox started

vars == <<slots, holder, calls, now, receipts, reads>>

Idle == [call |-> "none"]
Registering == [call : {"register"}, key : Keys, token : Tokens, deadline : Nat]
Submitting == [call : {"submit"}, key : Keys, token : Tokens, body : Bodies, stamp : Nat]

Receipt == [key : Keys, token : Tokens, body : Bodies, stamp : Nat,
            status : {200, 401, 409}]

Init ==
  /\ slots = [k \in Keys |-> NoSlot]
  /\ holder = [k \in Keys |-> NoToken]
  /\ calls = [h \in Handlers |-> Idle]
  /\ now = 0
  /\ receipts = {}
  /\ reads = {}

-----------------------------------------------------------------------------
\* POST /expectations with the requestor's credential and a later deadline;
\* without either the request is answered 401 or 400 and changes nothing.
RegisterArrives(h, k, t, d) ==
  /\ calls[h] = Idle
  /\ now < d
  /\ calls' = [calls EXCEPT ![h] = [call |-> "register", key |-> k, token |-> t, deadline |-> d]]
  /\ UNCHANGED <<slots, holder, now, receipts, reads>>

(* A plausible slip: a second registration replaces the first.             *)
RegisterReplaces(h) ==
  LET c == calls[h] IN
  /\ c.call = "register"
  /\ slots' = [slots EXCEPT ![c.key] = Expected(c.deadline)]
  /\ holder' = [holder EXCEPT ![c.key] = c.token]
  /\ calls' = [calls EXCEPT ![h] = Idle]
  /\ UNCHANGED <<now, receipts, reads>>

\* Under the lock: 201 for a new slot, 400 for one that exists.
Register(h) ==
  LET c == calls[h] IN
  /\ c.call = "register"
  /\ IF slots[c.key].registered
       THEN UNCHANGED <<slots, holder>>
       ELSE /\ slots' = [slots EXCEPT ![c.key] = Expected(c.deadline)]
            /\ holder' = [holder EXCEPT ![c.key] = c.token]
  /\ calls' = [calls EXCEPT ![h] = Idle]
  /\ UNCHANGED <<now, receipts, reads>>

\* POST /jobs/<job>/<kind>: do_POST reads the clock before it calls submit.
SubmitArrives(h, k, t, b) ==
  /\ calls[h] = Idle
  /\ Cardinality(receipts) < MaxPosts
  /\ calls' = [calls EXCEPT ![h] = [call |-> "submit", key |-> k, token |-> t,
                                    body |-> b, stamp |-> now]]
  /\ UNCHANGED <<slots, holder, now, receipts, reads>>

(* A plausible slip: any token will do.                                    *)
AuthorizedByAnyToken(c) == InTime(slots[c.key], c.stamp)

(* A plausible slip: a token is used up by the body it delivered.          *)
AuthorizedOnce(c) ==
  InTime(slots[c.key], c.stamp) /\ holder[c.key] = c.token /\ slots[c.key].body = NoBody

\* The slot expects this worker, and the request was stamped in time.
Authorized(c) == InTime(slots[c.key], c.stamp) /\ holder[c.key] = c.token

(* Plausible slips: a stored slot answers 200 to whatever comes; a replay  *)
(* is taken for another body; a wrong status.                              *)
StatusNoCompare(c) == IF Authorized(c) THEN 200 ELSE 401
StatusInverted(c) ==
  IF ~Authorized(c) THEN 401
  ELSE IF slots[c.key].body = c.body THEN 409 ELSE 200
StatusWrong(c) ==
  IF ~Authorized(c) THEN 401
  ELSE IF slots[c.key].body \in {NoBody, c.body} THEN 200 ELSE 400

\* What submit decides under the lock ...
Status(c) ==
  IF ~Authorized(c) THEN 401
  ELSE IF slots[c.key].body \in {NoBody, c.body} THEN 200 ELSE 409

\* ... and does: the first accepted body stays.
Submit(h) ==
  LET c == calls[h] IN
  /\ c.call = "submit"
  /\ slots' = IF Status(c) = 200
              THEN [slots EXCEPT ![c.key] = Offered(slots[c.key], c.body)] ELSE slots
  /\ receipts' = receipts \union
       {[key |-> c.key, token |-> c.token, body |-> c.body, stamp |-> c.stamp,
         status |-> Status(c)]}
  /\ calls' = [calls EXCEPT ![h] = Idle]
  /\ UNCHANGED <<holder, now, reads>>

\* GET with the requestor's credential, answered under the lock.
Read(k) ==
  /\ slots[k].body # NoBody
  /\ reads' = reads \union {[key |-> k, body |-> slots[k].body]}
  /\ UNCHANGED <<slots, holder, calls, now, receipts>>

\* The process restarts: nothing is on disk.
Restart ==
  /\ slots' = [k \in Keys |-> NoSlot]
  /\ holder' = [k \in Keys |-> NoToken]
  /\ calls' = [h \in Handlers |-> Idle]
  /\ receipts' = {}
  /\ reads' = {}
  /\ UNCHANGED now

Tick ==
  /\ now < MaxNow
  /\ now' = now + 1
  /\ UNCHANGED <<slots, holder, calls, receipts, reads>>

Next ==
  \/ \E h \in Handlers, k \in Keys, t \in Tokens :
       \/ \E d \in 1 .. MaxNow : RegisterArrives(h, k, t, d)
       \/ \E b \in Bodies : SubmitArrives(h, k, t, b)
  \/ \E h \in Handlers : Register(h) \/ Submit(h)
  \/ \E k \in Keys : Read(k)
  \/ Restart
  \/ Tick

Spec == Init /\ [][Next]_vars

-----------------------------------------------------------------------------
TypeOK ==
  /\ slots \in [Keys -> Slot]
  /\ holder \in [Keys -> Tokens \union {NoToken}]
  /\ calls \in [Handlers -> {Idle} \union Registering \union Submitting]
  /\ now \in Nat
  /\ receipts \subseteq Receipt
  /\ reads \subseteq [key : Keys, body : Bodies]

(* A worker told 200 has its body in the inbox, whichever of the racing    *)
(* POSTs came first: no two bodies of one job are both accepted.           *)
AcceptedIsStored ==
  \A r \in receipts : r.status = 200 => slots[r.key].body = r.body

(* A worker told 409 really lost to another body, not to its own replay.   *)
RejectedForAnother ==
  \A r \in receipts : r.status = 409 => slots[r.key].body \notin {NoBody, r.body}

(* A stored body was presented with the token registered for this very     *)
(* slot, and stamped no later than its deadline.                           *)
StoredByHolderInTime ==
  \A k \in Keys : slots[k].body # NoBody =>
    \E r \in receipts :
      /\ r.key = k /\ r.body = slots[k].body /\ r.status = 200
      /\ r.token = holder[k] /\ r.stamp <= slots[k].deadline

(* Every requestor that ever collects a slot collects the same body, the   *)
(* one the inbox still holds.                                              *)
ReadsAgree == \A r \in reads : slots[r.key].body = r.body

(* An expectation once registered keeps its token and its deadline, even   *)
(* against a registration that raced it to the lock.                       *)
ExpectationKept ==
  [][\A k \in Keys : slots[k].registered /\ slots'[k].registered =>
        holder'[k] = holder[k] /\ slots'[k].deadline = slots[k].deadline]_<<slots, holder>>

\* r repeats a POST that was answered 200.
Repeats(r) ==
  \E first \in receipts :
    /\ first.status = 200
    /\ first.key = r.key /\ first.token = r.token /\ first.body = r.body

(* A worker whose 200 was lost repeats its POST: if the replay is stamped  *)
(* by the deadline it is answered 200 again, whatever other POSTs and      *)
(* registrations came to the lock in between.                              *)
ReplayAnswered ==
  [][\A r \in receipts' \ receipts :
       Repeats(r) /\ r.stamp <= slots[r.key].deadline => r.status = 200]_vars

(* For all its threads the inbox is the one-shot store of InboxContract.   *)
Contract == INSTANCE InboxContract WITH Deadlines <- 1 .. MaxNow

InboxSpec == Contract!Spec

-----------------------------------------------------------------------------
(* A statement of the documentation that the code does not keep.           *)

(* "An identical replay is accepted with HTTP 200" (result-delivery.md,    *)
(* lines 32 to 33).  submit compares the deadline before the body, so a    *)
(* replay of the stored body is answered 401 once the deadline is over.    *)
ReplayAccepted == [][\A r \in receipts' \ receipts : Repeats(r) => r.status = 200]_vars
=============================================================================
