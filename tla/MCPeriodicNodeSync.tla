------------------------ MODULE MCPeriodicNodeSync ------------------------
(***************************************************************************)
(* Three ranks: one owns two masters, one owns one, one owns none.  Each   *)
(* update may need any of the masters, so schemes shrink, grow and vanish  *)
(* from one update to the next.                                            *)
(***************************************************************************)
EXTENDS PeriodicNodeSync, TLC

CONSTANTS p1, p2, p3, a, b, c

MCProc == {p1, p2, p3}
MCNode == {a, b, c}
MCOwner == a :> p1 @@ b :> p1 @@ c :> p2
MCPayload == SUBSET MCNode
===========================================================================
