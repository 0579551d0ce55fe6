------------------------------ MODULE MCLeases ------------------------------
(***************************************************************************)
(* Two readers and a loader whose clocks differ by the margin, either way. *)
(***************************************************************************)
EXTENDS Leases, TLC

CONSTANTS r1, r2, w1

MCReaders == {r1, r2}
MCLoaders == {w1}
(* One reader is behind by the margin that the loader is ahead by.         *)
MCOffset == (r1 :> 0) @@ (r2 :> 1) @@ (w1 :> 1)
=============================================================================
