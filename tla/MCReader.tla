------------------------------ MODULE MCReader ------------------------------
EXTENDS Reader, TLC

CONSTANTS t1, t2

(* A stream, with reads of one chunk and counts beside it.                 *)
MCKinds == (t1 :> {"chunk", "stream"}) @@ (t2 :> {"count"})

(* Two reads of one chunk.                                                 *)
MCChunks == [t \in {t1, t2} |-> {"chunk"}]
=============================================================================
