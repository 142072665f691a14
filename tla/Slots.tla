------------------------------- MODULE Slots --------------------------------
(***************************************************************************)
(* One expectation of the result inbox (inbox.py, _Slot) and the decisions *)
(* Inbox.register and Inbox.submit take on it under the inbox lock.        *)
(* Constant level: Inbox and Coordinator put these operators on state.     *)
(***************************************************************************)
EXTENDS Callback, Naturals

Slot == [registered : BOOLEAN, deadline : Nat, body : OptionalBody]

NoSlot == [registered |-> FALSE, deadline |-> 0, body |-> NoBody]

Expected(deadline) == [registered |-> TRUE, deadline |-> deadline, body |-> NoBody]

CanRegister(slot, deadline, now) == ~slot.registered /\ now < deadline

\* The deadline itself is still in time: the code rejects now > deadline.
InTime(slot, stamp) == slot.registered /\ stamp <= slot.deadline

(* A plausible slip: the latest body is kept instead of the first.         *)
OfferedLastWins(slot, b) == [slot EXCEPT !.body = b]

\* The slot after a body with the right token arrives in time.
Offered(slot, b) == IF slot.body = NoBody THEN [slot EXCEPT !.body = b] ELSE slot
=============================================================================
