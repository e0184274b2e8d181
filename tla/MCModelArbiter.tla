-------------------------- MODULE MCModelArbiter --------------------------
(***************************************************************************)
(* Two workspaces on one model, with one record each, where they are       *)
(* interchangeable, or with a second record in the first one's queue,      *)
(* which it dispatches after its first while the arbiter may be giving the *)
(* model to the other.                                                     *)
(***************************************************************************)
EXTENDS ModelArbiter, TLC

CONSTANTS w1, w2

OneEach == [w \in Workspaces |-> 1]
TwoAndOne == [w \in Workspaces |-> IF w = w1 THEN 2 ELSE 1]

Interchangeable == Permutations(Workspaces)

\* What can happen to windows, users, requests and the service.
EveryDisturbance ==
  {"cancel", "resume", "delete", "pause", "takeover", "fault", "lookup", "close", "hang", "crash"}
=============================================================================
