------------------------- MODULE MCSparseExchange -------------------------
(***************************************************************************)
(* SparseExchange on three ranks with an anonymous payload.  Three calls   *)
(* and two distinct call numbers in a tag: the third call reuses the tag   *)
(* of the first.                                                           *)
(***************************************************************************)
EXTENDS SparseExchange

CONSTANTS p1, p2, p3, d

MCProc == {p1, p2, p3}
MCPayload == {d}
===========================================================================
