------------------------------ MODULE MCPhase1 -------------------------------
(***************************************************************************)
(* Model-checking instance of Phase1.  The hosts of a chunk differ in      *)
(* nothing but their number, so it is enough to look at the behaviours in  *)
(* which masscan finds them in the order of their numbers; a symmetry set  *)
(* would not be sound with the liveness property.                          *)
(***************************************************************************)
EXTENDS Phase1

FoundInOrder ==
    out' # out =>
        LET h == out'[Len(out')].host IN
        h > 1 => \E i \in DOMAIN out : out[i].host = h - 1
=============================================================================
