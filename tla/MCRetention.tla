----------------------------- MODULE MCRetention -----------------------------
(* Instances of Retention for TLC.                                         *)
EXTENDS Retention

CONSTANTS p1, d1, s1, s2, w1, w2

MCLoaders == {p1}
MCDroppers == {d1}
MCSetters == {s1, s2}
MCSweepers == {w1, w2}
MCIndexSweepers == {w2}

Start(casts, n, key, expiresAt, mark, rowless, spent) ==
    [casts |-> casts, n |-> n, key |-> key, expiresAt |-> expiresAt, mark |-> mark,
     rowless |-> rowless, spent |-> spent]

MCStarts ==
    {\* a row due at once
     Start({{w1, d1}, {w1, p1}, {w1, s1}, {w1, Other}}, 1, Other, 1, 0, FALSE, 0),
     \* the same, for two sweeps, and nothing fails
     Start({{w1, w2}}, 1, Other, 1, 0, FALSE, MaxFaults),
     \* due later, with a sweep's mark it was restored with
     Start({{w2, d1}}, 1, Clear, 2, 1, FALSE, 0),
     \* no policy
     Start({{s1, s2}, {d1, p1}, {d1, Other}}, 1, Other, 0, 0, FALSE, 0),
     \* nothing
     Start({{s1, p1}, {s1, w1}}, 0, Clear, 0, 0, TRUE, 0),
     \* objects without a row
     Start({{d1, p1}, {d1, s1}}, 2, Clear, 0, 0, TRUE, 0)}
=============================================================================
