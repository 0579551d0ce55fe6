------------------------------ MODULE MCStore ------------------------------
(***************************************************************************)
(* Up to two loads with their collections, one sweep, one rollback and     *)
(* other operations, on a segment that starts with two or three            *)
(* generations.                                                            *)
(***************************************************************************)
EXTENDS Store

CONSTANTS p1, p2, c1, q1

MCLoaders == {p1, p2}
MCCollector == {c1}
MCRoller == {q1}
MCNobody == {}
MCCasts ==
    <<2, TRUE>>  :> {{p1, p2, q1}} @@
    <<2, FALSE>> :> {{p1, q1}, {p1, p2}} @@
    <<3, TRUE>>  :> {{p1, c1, q1}, {p2, c1, q1}, {c1, q1, Other}}
Symmetry == Permutations({p1, p2})

(* The entries at the places of a test are the ones a filter keeps.        *)
ASSUME EntriesAtSelects ==
    \A n \in 0..4 : \A s \in [1..n -> 0..2], T \in SUBSET (0..2) :
        EntriesAt(s, {i \in 1..n : s[i] \in T}) = SelectSeq(s, LAMBDA x : x \in T)
=============================================================================
