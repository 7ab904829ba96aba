-------------------------- MODULE MCSingleProcess --------------------------
(***************************************************************************)
(* Two simulations, two matches of two teams each.                         *)
(***************************************************************************)
EXTENDS SingleProcess

CONSTANTS gp, bm, germany, poland, brazil, mexico

MCMatches == <<[id |-> gp, home |-> germany, away |-> poland],
               [id |-> bm, home |-> brazil, away |-> mexico]>>

=============================================================================
