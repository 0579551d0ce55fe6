------------------------------ MODULE MCCombine ------------------------------
(* Small calls for TLC: an operand indexed at fewer ids than it holds, one  *)
(* that is pinned and subtracted, two fed ones, up to three outputs.        *)
EXTENDS Combine

(* Every sixth limit, from one that refuses the outputs to one that holds  *)
(* them all.                                                                *)
Limits(low, high) == {limit \in low..high : limit % 6 = 0}

Operand(claims, holds, pinned) == [claims |-> claims, holds |-> holds, pinned |-> pinned]

Output(op, of) == [op |-> op, of |-> of]

(* "a" is indexed at one id a key and has more: what is planned for it is   *)
(* too little.  "b" is pinned, and at few keys.                             *)
StoredTo(last, at) ==
    [a |-> Operand([k \in 0..last |-> 1], [k \in 0..last |-> 1..8], FALSE),
     b |-> Operand([k \in at |-> 2], [k \in at |-> {2, 4}], TRUE)]

Unfed(last, at, outputs, limit, budget) ==
    [stored |-> StoredTo(last, at), outputs |-> outputs, records |-> <<>>, names |-> {}, counts |-> <<>>,
     mayBeEmpty |-> {}, limit |-> limit, budget |-> budget, publishers |-> 2]

Three == <<Output("or", <<"a", "b">>), Output("andNot", <<"a", "b">>), Output("or", <<"a">>)>>

TwoSides == <<Output("or", <<"a", "b">>), Output("and", <<"a", "b">>)>>

Uneven == <<Output("and", <<"a", "b">>), Output("or", <<"a">>), Output("and", <<"b", "a">>)>>

OneSide == <<Output("or", <<"a", "b">>), Output("or", <<"a">>)>>

UnfedCalls ==
    {Unfed(3, {0}, Three, limit, budget) : limit \in Limits(50, 150), budget \in {3, 5, 30}}
        \cup {Unfed(4, {0}, Uneven, limit, 30) : limit \in Limits(50, 150)}
        \cup {Unfed(6, {0, 6}, TwoSides, limit, 30) : limit \in Limits(50, 150)}
        \cup {Unfed(6, {5, 6}, OneSide, limit, 30) : limit \in Limits(50, 150)}

(* One output, whose buffer leaves no room for a last chunk.                *)
LongCalls == {Unfed(7, {7}, <<Output("or", <<"a", "b">>)>>, limit, 30) : limit \in 67..80}

Record(key, ops, sound) == [key |-> key, ops |-> ops, sound |-> sound]

RecordsHere(sound) ==
    <<Record(0, [f |-> {1, 3}], TRUE), Record(0, [g |-> {2}], TRUE), Record(1, [f |-> {1}], sound)>>

LargeRecords ==
    <<Record(0, [f |-> 1..8], TRUE), Record(0, [g |-> 1..8], TRUE), Record(1, [f |-> 1..8, g |-> 1..8], TRUE)>>

FedOutputs == <<Output("or", <<"a", "f">>), Output("andNot", <<"f", "b">>), Output("or", <<"a", "g">>)>>

FedSides == <<Output("and", <<"f", "a">>), Output("or", <<"g", "f">>)>>

WithFeed(outputs, records, counts, limit) ==
    [stored |-> StoredTo(2, {0}), outputs |-> outputs, records |-> records, names |-> {"f", "g"},
     counts |-> counts, mayBeEmpty |-> {}, limit |-> limit, budget |-> 9, publishers |-> 2]

FedCalls ==
    {WithFeed(outputs, RecordsHere(sound), [f |-> 3, g |-> 1], limit) : limit \in Limits(40, 130), sound \in BOOLEAN,
            outputs \in {FedOutputs, FedSides}}
        \cup {WithFeed(FedOutputs, LargeRecords, [f |-> 16, g |-> 16], limit) : limit \in Limits(40, 130)}

MCCalls == UnfedCalls \cup FedCalls \cup LongCalls
=============================================================================
