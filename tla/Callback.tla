------------------------------ MODULE Callback ------------------------------
(***************************************************************************)
(* The callback bodies a worker may POST.  A body is told from another by  *)
(* its SHA-256 digest, so a body stands for its digest wherever the code   *)
(* compares or stores one.                                                 *)
(***************************************************************************)
CONSTANTS
  Bodies,   \* the bodies a worker may send
  NoBody    \* a NULL digest; the body of a slot nothing was stored in

ASSUME CallbackAssumption == NoBody \notin Bodies

OptionalBody == Bodies \union {NoBody}
=============================================================================
