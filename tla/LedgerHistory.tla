--------------------------- MODULE LedgerHistory ---------------------------
(***************************************************************************)
(* The life of one row's ledger: publishes with any `keep`, rollbacks and  *)
(* leases, against the true order in which the generations were current.   *)
(* The interleavings are in Store; here each operation is one step, so     *)
(* that long sequences of them can be checked.                             *)
(***************************************************************************)
EXTENDS Ledger

CONSTANTS
    MaxGen,    \* bound: the highest generation number
    MaxLeases, \* MAX_LEASES_PER_SEGMENT (64)
    Keeps      \* the values of `keep` the loads use

ASSUME LedgerHistoryAssumption ==
    /\ Keeps \subseteq Nat /\ MaxLeases \in Nat /\ MaxGen \in Nat
    /\ 2 <= KnownFill
    /\ MaxLeases + KnownSpan + 1 <= MaxKnown
    /\ MaxLeases + KnownFill <= MaxKnown

VARIABLES
    row,      \* the fields of the row a ledger depends on
    present,  \* the generations the bucket holds
    order     \* history: every generation, in the order it was last made current

vars == <<row, present, order>>

Gens == 0..MaxGen

EntryOf(g) == [generation |-> g, footerCrc |-> g]

RowAt(g, known, leases) ==
    [status |-> "active", currentGen |-> g, knownGens |-> known, leases |-> leases,
     summary |-> [generation |-> g, footerCrc |-> g, sealed |-> FALSE]]

Init ==
    /\ row = RowAt(NoGen, <<>>, {})
    /\ present = {}
    /\ order = <<>>

CurrentLast(g) == Append(EntriesAt(order, {i \in DOMAIN order : order[i] # g}), g)

(* nextLoadGeneration *)
Number ==
    IF row.currentGen + 1 \notin present THEN row.currentGen + 1
    ELSE 1 + CHOOSE g \in present : \A h \in present : h <= g

(* A publish, and what it evicts by name.  `live` are the leases its clock *)
(* still holds; it drops the others.                                       *)
Publish(keep, live) ==
    LET self == EntryOf(Number)
        kept == Kept(row, self, keep, live)
    IN  /\ Number \in Gens
        /\ row' = RowAt(Number, NextLedger(row, self, keep, live), live)
        /\ present' = (present \ kept.evict) \cup {Number}
        /\ order' = CurrentLast(Number)

(* A rollback, onto a target the row knows or one it is told to take.      *)
Rollback(target) ==
    /\ target \in present \ {row.currentGen}
    /\ row' = RowAt(target, RollbackKnown(row, EntryOf(target)), row.leases)
    /\ order' = CurrentLast(target)
    /\ UNCHANGED present

TakeLease(g) ==
    /\ g \in present \ row.leases
    /\ g <= row.currentGen
    /\ Cardinality(row.leases) < MaxLeases
    /\ row' = RowAt(row.currentGen, row.knownGens, row.leases \cup {g})
    /\ UNCHANGED <<present, order>>

Next ==
    \/ \E keep \in Keeps, live \in SUBSET row.leases : Publish(keep, live)
    \/ \E target \in Gens : Rollback(target)
    \/ \E g \in Gens : TakeLease(g)

Spec == Init /\ [][Next]_vars

-----------------------------------------------------------------------------
Known == Generations(row.knownGens)

(* The ledger is the history with entries missing: it names a generation   *)
(* once, in the order the generations were last current, the pointer last; *)
(* and it has at most MaxKnown entries, however many leases and rollbacks  *)
(* widen it.                                                               *)
LedgerFollowsHistory ==
    /\ [i \in DOMAIN row.knownGens |-> row.knownGens[i].generation]
         = EntriesAt(order, {i \in DOMAIN order : order[i] \in Known})
    /\ row.currentGen # NoGen => UsableKnownGens(row) = row.knownGens
    /\ Len(row.knownGens) <= MaxKnown

LastCurrent(S, n) ==
    {order[i] : i \in {j \in DOMAIN order :
        order[j] \in S /\ Cardinality({k \in DOMAIN order : k > j /\ order[k] \in S}) < n}}

(* A publish keeps, stored and in its ledger, the `keep` most recently     *)
(* current of the generations below it that the ledger named, whichever    *)
(* rollbacks came before: the one it superseded first.                     *)
KeepsTheMostRecentlyCurrent ==
    [][\A keep \in Keeps, live \in SUBSET row.leases :
          Publish(keep, live) =>
              LET span   == IF keep > KnownSpan THEN KnownSpan ELSE keep
                  window == LastCurrent({g \in Known : g < row'.currentGen}, span)
              IN  window \subseteq Known' \cap present']_vars

(* No write of the ledger forgets a leased generation, and none evicts it; *)
(* a rollback onto a generation the row knows forgets none.                *)
HeldStayKnown ==
    [][/\ row'.leases \cap Known \subseteq Known' \cap present'
       /\ row'.currentGen \in Known /\ row'.currentGen # row.currentGen => Known' = Known]_vars
=============================================================================
