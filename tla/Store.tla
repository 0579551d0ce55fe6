------------------------------- MODULE Store -------------------------------
(***************************************************************************)
(* Loads, their collections, an operator's collections and rollbacks of    *)
(* one segment, beside the other operations on its row.  A rollback may    *)
(* move the pointer onto a generation a collection is deleting: nothing    *)
(* prevents it, and the two re-reads are there to see it.                  *)
(***************************************************************************)
EXTENDS Collect, Rollback

CONSTANT
    Casts  \* the casts that may act, by the generations there are and whether
           \* the row has a ledger

VARIABLE
    cast   \* the processes that act in this behaviour; Other: other operations

storeVars == <<loadVars, pass, roll, cast>>

Init ==
    /\ SegmentInit /\ LoadInit /\ CollectInit /\ RollInit
    /\ cast \in Casts[others, row.knownGens # <<>>]

(* A request sent before the drop is done long before the grace ends.      *)
PurgeAllowed ==
    /\ GracePassed
    /\ \A c \in DOMAIN pass : pass[c].pc # "delete"

Next ==
    /\ \/ \E p \in Loaders \cap cast : (LoadStep(p) \/ Abandon(p)) /\ UNCHANGED <<pass, roll>>
       \/ \E c \in DOMAIN pass \cap cast : PassStep(c) /\ UNCHANGED roll
       \/ \E q \in Rollers \cap cast : RollStep(q) /\ UNCHANGED <<load, pass>>
       \/ Other \in cast /\ OtherOperation /\ UNCHANGED <<load, pass, roll>>
       \/ LateWrite /\ UNCHANGED <<load, pass, roll>>
       \/ PurgeAllowed /\ PurgeRow /\ UNCHANGED <<load, pass, roll>>
    /\ UNCHANGED cast

Spec == Init /\ [][Next]_storeVars

-----------------------------------------------------------------------------
Quiet(pc) == pc \in {"start", "published", "ended"}

AtRest ==
    /\ \A p \in Loaders : Quiet(load[p].pc)
    /\ \A c \in DOMAIN pass : Quiet(pass[c].pc)
    /\ \A q \in Rollers : Quiet(roll[q].pc)

PointerIsMissing == Active /\ row.currentGen # NoGen /\ objects[row.currentGen] = None

(* A load says so of its own object, or may have died over its delete.     *)
Told ==
    \/ \E p \in Loaders :
          /\ load[p].gen = row.currentGen
          /\ load[p].result \in {"missing", "unknown"} \/ load[p].early
    \/ \E c \in DOMAIN pass : pass[c].result = "missing"
    \/ \E q \in Rollers : roll[q].result \in {"stranded", "unknown"}

(* The targets of rollbacks not held to the ledger.                        *)
Insisted == {roll[q].target : q \in {r \in Rollers : roll[r].mode # "checked"}}

(* A load's reclaim met a fault, which it swallowed, while a rollback not  *)
(* held to the ledger moved onto its object.                               *)
Swallowed ==
    \E p \in Loaders : load[p].untidy /\ load[p].gen = row.currentGen /\ row.currentGen \in Insisted

(* The pointer rests on a deleted object only when the rollback that moved *)
(* it there, or the operation that deleted it, said so or could not tell:  *)
(* with one exception, a refused load that swallowed a fault of its        *)
(* reclaim (load.ts tidy).                                                 *)
MissingPointerIsReported == AtRest /\ PointerIsMissing => Told \/ Swallowed

(* "Nothing can restore a deleted object, so the deleting call detects it" *)
(* (docs/guide/correctness.md:503), but for one delete of an erasure: no   *)
(* other leaves the pointer on a missing object with nobody told.          *)
DeletingCallDetects == AtRest /\ PointerIsMissing => Told

(* A rollback onto a generation the row vouches for is kept out of every   *)
(* collection: its object is there for as long as the pointer is on it.    *)
CheckedRollbackKeepsItsObject ==
    \A q \in Rollers :
        /\ Active
        /\ roll[q].mode = "checked"
        /\ row.pointerId \in roll[q].sent
        => objects[row.currentGen] # None

(* A load that reports a publish made it: one of its own writes was        *)
(* applied, not merely another writer's that left the same number on the   *)
(* row (publish.ts landedHere).                                            *)
PublishedByOwnWrite ==
    \A p \in Loaders : load[p].result = "published" => LandedOf(p) # {}

(* With a keep of 1 or more, the generation a load superseded is there to  *)
(* roll back to for as long as the load's is the pointer, whatever a       *)
(* rollback held to the ledger did before it.                              *)
SupersededSurvives ==
    \A p \in Loaders :
        /\ Keep >= 1
        /\ load[p].result = "published"
        /\ Active
        /\ row.pointerId \in load[p].sent
        /\ load[p].base # NoRow
        /\ load[p].base.currentGen \notin Insisted \cup {NoGen}
        => objects[load[p].base.currentGen] # None

(* A ledger there is ends at its pointer, and a publish always leaves one, *)
(* over the row of an earlier build too; and it vouches for each generation *)
(* that is stored by the object it was published as, unless a rollback was *)
(* not held to the ledger.                                                 *)
RowVouchesForObjects ==
    Active =>
        /\ \/ UsableKnownGens(row) # <<>>
           \/ row.knownGens = <<>> /\ \A p \in Loaders : row.pointerId \notin load[p].sent
        /\ \A i \in DOMAIN row.knownGens :
              LET e == row.knownGens[i]
              IN  e.generation \notin Insisted /\ objects[e.generation] # None =>
                      objects[e.generation].by = e.footerCrc
=============================================================================
