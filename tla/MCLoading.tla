----------------------------- MODULE MCLoading -----------------------------
(***************************************************************************)
(* Two loads of one segment.  Both hold a keystore where it is new; where  *)
(* it has a generation, one of them holds none.                            *)
(***************************************************************************)
EXTENDS Loading

CONSTANTS p1, p2, p3

MCLoaders == {p1, p2, p3}
MCKeyed == {p1, p2}
MCCasts == 0 :> {{p1, p2}} @@ 1 :> {{p1, p3}, {p2, p3}}
MCOneLoader == {p1}
MCOneCast == 0 :> {{p1}} @@ 1 :> {{p1}}
Symmetry == Permutations({p1, p2})
=============================================================================
