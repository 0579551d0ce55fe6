------------------------------- MODULE Segment -------------------------------
(***************************************************************************)
(* One segment as every operation of the store sees it: its registry row,  *)
(* its write-once generation objects, the conditional writes of the row    *)
(* that are still on their way, and the operations that change the row or  *)
(* the bucket in a single request (retention, leases, drop, purge).  The   *)
(* operations of several steps are in the modules that extend this one.    *)
(***************************************************************************)
EXTENDS Row

CONSTANTS
    MaxGen,     \* bound: the highest generation number an instance writes
    MaxOthers,  \* bound: row writes by operations that are one request
    Other,      \* the writer of those
    Histories,  \* how many generations Other published before, one of these
    Ledgerless  \* those of them after which the row may have no ledger

ASSUME SegmentAssumption ==
    /\ MaxGen \in Nat
    /\ Histories \subseteq 0..(MaxGen + 1)

Gens == 0..MaxGen

VARIABLES
    row,       \* the registry row, or NoRow
    objects,   \* what each generation number names: [by, key], or None
    inflight,  \* row writes that got no answer and may still be applied
    landed,    \* history: the writes that were applied
    others     \* how many writes Other has made

segment == <<row, objects, inflight, landed, others>>

Entry(g) == [generation |-> g, footerCrc |-> Other]

(* The row n loads of Other leave that keep every generation.  Those of an *)
(* earlier build leave no ledger.                                          *)
PublishedRow(n, key, ledger) ==
    LET token(k) == [incarnation |-> <<Other, 1>>, counter |-> k - 1, write |-> <<Other, k>>]
    IN  [currentGen  |-> n - 1,
         status      |-> "active",
         wrappedDeks |-> key,
         summary     |-> [generation |-> n - 1, footerCrc |-> Other, sealed |-> key # Clear],
         knownGens   |-> IF ledger THEN [i \in 1..n |-> Entry(i - 1)] ELSE <<>>,
         retention   |-> NoMeta,
         leases      |-> {},
         token       |-> token(n),
         pointerId   |-> token(n)]

SegmentInit ==
    \E n \in Histories, key \in {Clear, Other}, ledger \in BOOLEAN :
        /\ ledger \/ n \in Ledgerless
        /\ row = IF n = 0 THEN NoRow ELSE PublishedRow(n, key, ledger)
        /\ objects = [g \in Gens |-> IF g < n THEN [by |-> Other, key |-> key] ELSE None]
        /\ inflight = {}
        /\ landed = {<<Other, k>> : k \in 1..n}
        /\ others = n

Listed == {g \in Gens : objects[g] # None}

(* A conditional write: expect is the token it was made against, or NoRow  *)
(* for a create; token is the one it leaves on the row.                    *)
CreateOf(patch, write) ==
    [expect |-> NoRow, patch |-> patch, token |-> NewIncarnationToken(write)]

SwapOf(record, patch, write) ==
    [expect |-> record.token, patch |-> patch,
     token |-> NextRegistryToken(record.token, write)]

(* Mutant: a conditional write that asks only that a row is there.         *)
AcceptsAnyRow(w) == IF w.expect = NoRow THEN row = NoRow ELSE row # NoRow

Accepts(w) ==
    IF w.expect = NoRow THEN row = NoRow
    ELSE row # NoRow /\ row.token = w.expect

RowAfter(w) ==
    IF w.expect = NoRow
    THEN RecordFromNew(w.patch, w.token)
    ELSE ApplyRegistryPatch(row, w.patch, w.token)

Apply(w) ==
    /\ Accepts(w)
    /\ row' = RowAfter(w)
    /\ landed' = landed \cup {w.token.write}

(* An unanswered write is applied if its condition still holds when it     *)
(* arrives, and is dropped otherwise; or it is lost on the way.            *)
LateWriteArrives(w) ==
    /\ w \in inflight
    /\ inflight' = inflight \ {w}
    /\ IF Accepts(w) THEN Apply(w) ELSE UNCHANGED <<row, landed>>
    /\ UNCHANGED <<objects, others>>

WriteIsLost(w) ==
    /\ w \in inflight
    /\ inflight' = inflight \ {w}
    /\ UNCHANGED <<row, objects, landed, others>>

-----------------------------------------------------------------------------
OtherWrites(w) ==
    /\ others < MaxOthers
    /\ others' = others + 1
    /\ Apply(w)
    /\ UNCHANGED <<objects, inflight>>

OtherWrite == <<Other, others + 1>>

Active == row # NoRow /\ row.status = "active"

(* setRetention ahead of the first load makes a row with no pointer.       *)
RecordRetention ==
    /\ row = NoRow
    /\ OtherWrites(CreateOf([currentGen |-> NoGen, retention |-> Until(1)], OtherWrite))

SetRetention ==
    /\ Active
    /\ OtherWrites(SwapOf(row, [retention |-> Until(1 - row.retention.expiresAt)], OtherWrite))

TakeLease(g) ==
    /\ Active
    /\ g <= row.currentGen
    /\ g \notin row.leases
    /\ OtherWrites(SwapOf(row, [leases |-> row.leases \cup {g}], OtherWrite))

ReleaseLease(g) ==
    /\ Active
    /\ g \in row.leases
    /\ OtherWrites(SwapOf(row, [leases |-> row.leases \ {g}], OtherWrite))

(* The tombstone of a shred, a drop or a retirement: the pointer stays.    *)
Shred ==
    /\ Active
    /\ OtherWrites(SwapOf(row, [status |-> "destroyed", wrappedDeks |-> Clear,
                                summary |-> NoSummary, knownGens |-> <<>>,
                                leases |-> {}], OtherWrite))

(* A drop of a name with objects and no row makes the tombstone itself.    *)
ClaimIdentity ==
    /\ row = NoRow
    /\ \E g \in Listed :
          /\ \A h \in Listed : h <= g
          /\ OtherWrites(CreateOf([currentGen |-> g, status |-> "destroyed"], OtherWrite))

(* A drop deletes under the tombstone every object it lists.               *)
DropObject(g) ==
    /\ row # NoRow
    /\ row.status = "destroyed"
    /\ objects[g] # None
    /\ objects' = [objects EXCEPT ![g] = None]
    /\ UNCHANGED <<row, inflight, landed, others>>

(* The sweep collects what is left under a tombstone whose grace has       *)
(* passed, then removes it.  The grace, never less than an hour, is there  *)
(* so that no request sent before the drop is still on its way.            *)
PurgeRow ==
    /\ row # NoRow
    /\ row.status = "destroyed"
    /\ Listed = {}
    /\ inflight = {}
    /\ row' = NoRow
    /\ UNCHANGED <<objects, inflight, landed, others>>

OtherOperation ==
    \/ RecordRetention
    \/ SetRetention
    \/ \E g \in Gens : TakeLease(g) \/ ReleaseLease(g)
    \/ Shred
    \/ ClaimIdentity
    \/ \E g \in Gens : DropObject(g)

LateWrite == \E w \in inflight : LateWriteArrives(w) \/ WriteIsLost(w)
=============================================================================
