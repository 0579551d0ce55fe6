------------------------------ MODULE Loading ------------------------------
(***************************************************************************)
(* Several loads of one segment, from separate processes, beside the other *)
(* operations on its row: what a load tells its caller, against what its   *)
(* writes did.                                                             *)
(***************************************************************************)
EXTENDS Load

CONSTANT
    Casts  \* Casts[n]: the casts that may act on a segment of n generations

ASSUME LoadingAssumption == \A n \in Histories : Casts[n] \subseteq SUBSET Loaders

VARIABLE
    cast   \* the processes that load in this behaviour

Init == SegmentInit /\ LoadInit /\ cast \in Casts[others]

Next ==
    /\ \/ \E p \in cast : LoadStep(p) \/ Abandon(p)
       \/ OtherOperation /\ UNCHANGED load
       \/ LateWrite /\ UNCHANGED load
       \/ GracePassed /\ PurgeRow /\ UNCHANGED load
    /\ UNCHANGED cast

Spec == Init /\ [][Next]_<<loadVars, cast>>

(* A load whose requests are answered or fail keeps taking steps: between  *)
(* them it only computes and waits a bounded time.  Nothing is assumed of  *)
(* the other operations, nor that an unanswered write arrives.             *)
FairSpec == Spec /\ \A p \in Loaders : WF_loadVars(p \in cast /\ LoadStep(p))

-----------------------------------------------------------------------------
PendingOf(p) == {w \in inflight : w.token \in load[p].sent}

(* A refusal is final: no write of the load can be applied any more, and   *)
(* if every write it made was answered, none was (the reclaim of its       *)
(* object rests on this).  There is one load of which it is not true: a    *)
(* write it sent again, over leases it had waited out, got no answer, and  *)
(* the next turn finds no wait left and refuses (publish.ts 403-430), where*)
(* load.ts 774-776 says that a publish that may still land keeps its       *)
(* object.                                                                 *)
RefusalIsFinal ==
    \A p \in Loaders :
        load[p].result \in {"refused", "error", "superseded"} =>
            /\ ~load[p].early => \A w \in PendingOf(p) : ~Accepts(w)
            /\ ~load[p].unanswered => LandedOf(p) = {}

(* Resending an unanswered write never moves the pointer twice.            *)
AtMostOneLands == \A p \in Loaders : Cardinality(LandedOf(p)) <= 1

Points == Active /\ row.currentGen # NoGen

(* By a write of the load that was refused early.                          *)
PointsEarly == \E p \in Loaders : load[p].early /\ row.pointerId \in load[p].sent

(* An active row's pointer names an object in the bucket, whichever load   *)
(* deletes its own and whichever write arrives late, but for the write of  *)
(* a load refused early.                                                   *)
PointerHasObject == Points /\ ~PointsEarly => objects[row.currentGen] # None

(* The object a pointer names is sealed under the row's key, or neither    *)
(* has one, though the key is chosen before the row is written.            *)
KeyOpensPointer ==
    Points /\ ~PointsEarly /\ objects[row.currentGen] # None =>
        objects[row.currentGen].key = row.wrappedDeks

(* What a publish checks after its fence never stops a load: the fence on  *)
(* the row it read covers it.                                              *)
FenceCoversLaterChecks ==
    \A p \in Loaders :
        Deciding(p) /\ Proceeds(load[p]) => ~Invalid(load[p])

(* A publish replaces the row its load read, up to its leases: what it     *)
(* numbered, keyed and judged from is what it wrote over.                  *)
PublishReplacesTheRowRead ==
    [][\A p \in Loaders :
          LandedOf(p)' # LandedOf(p) =>
              IF load[p].base = NoRow THEN row = NoRow
              ELSE row # NoRow /\ OnlyLeasesDiffer(load[p].base, row)]_loadVars

(* A refused load deletes another's object only under a tombstone, where   *)
(* nothing can be read.                                                    *)
ReclaimTakesItsOwn ==
    [][\A p \in Loaders : \A g \in Gens :
          load[p].pc \in {"delete", "deleteOwn"} /\ load'[p] # load[p]
          /\ objects[g] # None /\ objects'[g] = None =>
              \/ objects[g].by = p
              \/ row # NoRow /\ row.status = "destroyed"]_loadVars

(* Every load ends with an answer, however its writes fare.                *)
EveryLoadEnds == \A p \in Loaders : load[p].pc # "start" ~> Ended(load[p])
=============================================================================
