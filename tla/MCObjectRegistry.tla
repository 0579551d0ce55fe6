------------------------- MODULE MCObjectRegistry -------------------------
(* Instances of ObjectRegistry for TLC.                                    *)
EXTENDS ObjectRegistry, TLC

CONSTANTS p1, p2

MCCallers == {p1, p2}

Kind(writes, deletes, removes, contends, local) ==
    [resendsWrites |-> writes, resendsDeletes |-> deletes, removes |-> removes,
     contends |-> contends, local |-> local]

(* S3 and S3-compatible, GCS, Azure with and without deletes, a directory. *)
(* GCS without deletes does no more than an S3-compatible store.           *)
MCStores ==
    {Kind(FALSE, FALSE, TRUE, TRUE, FALSE), Kind(FALSE, FALSE, FALSE, TRUE, FALSE),
     Kind(FALSE, TRUE, TRUE, FALSE, FALSE), Kind(TRUE, TRUE, TRUE, FALSE, FALSE),
     Kind(TRUE, TRUE, FALSE, FALSE, FALSE), Kind(FALSE, FALSE, TRUE, FALSE, TRUE)}

MCMaxCalls == (p1 :> 2) @@ (p2 :> 1)
=============================================================================
