----------------------------- MODULE SerialKernel -----------------------------
(***************************************************************************)
(* What oracle/nts_ffi.h asks of everyone who calls libntsrocq: the OCaml  *)
(* runtime is started once, and one thread at a time is in it.             *)
(***************************************************************************)
CONSTANT Threads

VARIABLES
  up,      \* the runtime has been started
  inside   \* the threads in it

Init == up = FALSE /\ inside = {}

Enter(t) == inside = {} /\ inside' = {t}
Leave(t) == inside = {t} /\ inside' = {}

Start(t) == ~up /\ Enter(t) /\ UNCHANGED up
Started(t) == ~up /\ Leave(t) /\ up' = TRUE
Call(t) == up /\ Enter(t) /\ UNCHANGED up
Return(t) == up /\ Leave(t) /\ UNCHANGED up

Next == \E t \in Threads : Start(t) \/ Started(t) \/ Call(t) \/ Return(t)

Spec == Init /\ [][Next]_<<up, inside>>
=============================================================================
