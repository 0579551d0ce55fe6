------------------------------ MODULE MCEraseId ------------------------------
(* Instances of EraseId for TLC.                                           *)
EXTENDS EraseId

CONSTANTS p1, q1, e1, e2

MCErasers == {e1, e2}
MCLoaders == {p1}
MCRollers == {q1}
MCNobody == {}
MCBrings == p1 :> {e1}

Start(casts, n, key, at, stray, strayKey, ids) ==
    [casts |-> casts, n |-> n, key |-> key, at |-> at, stray |-> stray, strayKey |-> strayKey,
     ids |-> ids]

Pairs == {{p1, e1, Network}, {q1, e1, Network}, {e1, e2, Network}, {e1, Other, Network}}

MCStarts ==
    {\* the id in the current generation, and in the one before
     Start(Pairs, 2, Clear, NoGen, NoGen, Clear, (0 :> {e1} @@ 1 :> {e1, e2})),
     \* rolled back, with the ids above the pointer
     Start(Pairs \ {{e1, e2, Network}}, 2, Clear, 0, NoGen, Clear, (0 :> {} @@ 1 :> {e1, e2})),
     \* a crashed load's object above the pointer
     Start({{p1, e1, Network}, {q1, e1, Network}}, 2, Clear, NoGen, 1, Clear,
           (0 :> {e2} @@ 1 :> {e1})),
     \* a crashed load's object below the pointer, which no ledger names
     Start({{p1, e1, Network}}, 2, Clear, NoGen, 0, Clear, (0 :> {e1} @@ 1 :> {e2})),
     \* an object under a key that was never stored, below the pointer
     Start({{p1, e1, Network}}, 2, Clear, NoGen, 0, Stray, (0 :> {e1} @@ 1 :> {e2})),
     \* no generation yet, and a crashed first load's object
     Start({{p1, e1, Network}, {e1, Other, Network}, {e1, e2, p1}}, 1, Clear, NoGen, 0, Clear, (0 :> {e1, e2}))}
=============================================================================
