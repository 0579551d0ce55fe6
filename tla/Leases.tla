------------------------------- MODULE Leases -------------------------------
(***************************************************************************)
(* Leased pins against the collections of loads, in real time with a clock *)
(* per process (leases.ts, the leased pin of the store, the prune of a     *)
(* publish and the re-read before a delete).  The row is its pointer, its  *)
(* leases and a version that stands for its token.  A write is computed,   *)
(* sent, and lands later or never: the clock it was computed by is then in *)
(* the past.  Which generations a load collects is left open: any below    *)
(* the pointer.                                                            *)
(***************************************************************************)
EXTENDS Integers, FiniteSets

CONSTANTS
    Readers,    \* the processes that pin with a lease, once each
    Loaders,    \* the processes that publish and collect
    Offset,     \* how far each process's clock is from real time
    Skew,       \* LEASE_SKEW_MS: how much longer a collector holds a lease
    MaxLease,   \* MAX_LEASE_MS: the longest lease
    MaxHolders, \* MAX_LEASES_PER_SEGMENT: the most live leases
    MaxTime,    \* bound: when real time stops
    MaxGen      \* bound: the highest generation

Processes == Readers \cup Loaders

(* The clocks of two processes differ by at most the margin.               *)
ASSUME LeasesAssumption ==
    /\ Readers \cap Loaders = {}
    /\ {Skew, MaxLease, MaxHolders, MaxTime, MaxGen} \subseteq Nat
    /\ Offset \in [Processes -> Int]
    /\ \A p, q \in Processes : Offset[p] - Offset[q] <= Skew

VARIABLES
    now,     \* real time
    row,     \* [currentGen, leases, version]
    stored,  \* the generations the bucket holds
    pin,     \* each reader's pin
    load     \* each loader's publish, then its collection

vars == <<now, row, stored, pin, load>>

Gens == 0..MaxGen

Lease == [holder : Readers, generation : Gens, until : Int]

Row == [currentGen : Gens, leases : SUBSET Lease, version : Nat]

PinState ==
    [pc : {"start", "read", "take", "taking", "hold", "release", "releasing", "done"},
     until : Int, generation : Gens, row : Row, leases : SUBSET Lease]

LoadState ==
    [pc : {"start", "publish", "publishing", "collect", "judge", "delete"},
     row : Row, leases : SUBSET Lease, doomed : Gens]

Clock(p) == now + Offset[p]

(* Mutant: no margin for the holder's clock.                               *)
IsLiveToItsEnd(e, at) == at < e.until /\ e.until <= at + MaxLease

(* isLive: not ended by more than the margin, nor further off than any     *)
(* lease can be.                                                           *)
IsLive(e, at) == at < e.until + Skew /\ e.until <= at + MaxLease + Skew

LiveLeases(r, at) == {e \in r.leases : IsLive(e, at)}

HeldGenerations(r, at) == {e.generation : e \in LiveLeases(r, at)}

LeaseOf(h) == [holder |-> h, generation |-> pin[h].generation, until |-> pin[h].until]

FirstRow == [currentGen |-> 0, leases |-> {}, version |-> 0]

(* The state of a pin and of a load that keep nothing they read.           *)
Unpinned == [pc |-> "start", until |-> 0, generation |-> 0, row |-> FirstRow, leases |-> {}]
Unloaded == [pc |-> "start", row |-> FirstRow, leases |-> {}, doomed |-> 0]

Init ==
    /\ now = 0
    /\ row = FirstRow
    /\ stored = {0}
    /\ pin = [h \in Readers |-> Unpinned]
    /\ load = [w \in Loaders |-> Unloaded]

Tick ==
    /\ now < MaxTime
    /\ now' = now + 1
    /\ UNCHANGED <<row, stored, pin, load>>

-----------------------------------------------------------------------------
(* A pin with a lease: read the row, write the lease on its pointer, hold. *)

Pin(h) ==
    /\ pin[h].pc = "start"
    /\ \E until \in Clock(h) + 1 .. Clock(h) + MaxLease :
          pin' = [pin EXCEPT ![h].pc = "read", ![h].until = until]
    /\ UNCHANGED <<now, row, stored, load>>

(* Mutant: pins the generation after the current one.                      *)
PinReadNext(h) ==
    /\ pin[h].pc = "read"
    /\ pin' = [pin EXCEPT ![h].pc = "take", ![h].row = row,
                          ![h].generation = row.currentGen + 1]
    /\ UNCHANGED <<now, row, stored, load>>

(* The pin is of the generation current in the row it reads.               *)
PinRead(h) ==
    /\ pin[h].pc = "read"
    /\ pin' = [pin EXCEPT ![h].pc = "take", ![h].row = row,
                          ![h].generation = row.currentGen]
    /\ UNCHANGED <<now, row, stored, load>>

(* The lease is computed from the row read: the other live leases, and it. *)
TakeSend(h) ==
    LET live == {e \in LiveLeases(pin[h].row, Clock(h)) : e.holder # h}
    IN  /\ pin[h].pc = "take"
        /\ Cardinality(live) < MaxHolders
        /\ pin' = [pin EXCEPT ![h].pc = "taking", ![h].leases = live \cup {LeaseOf(h)}]
        /\ UNCHANGED <<now, row, stored, load>>

(* Mutant: the write lands on whatever row is there.                       *)
WriteLeasesAnyway(against, leases) ==
    row' = [row EXCEPT !.leases = leases, !.version = @ + 1]

(* A write computed against a row lands only on that row.                  *)
WriteLeases(against, leases) ==
    /\ row.version = against.version
    /\ row' = [row EXCEPT !.leases = leases, !.version = @ + 1]

TakeLands(h) ==
    /\ pin[h].pc = "taking"
    /\ WriteLeases(pin[h].row, pin[h].leases)
    /\ pin' = [pin EXCEPT ![h].pc = "hold", ![h].row = FirstRow, ![h].leases = {}]
    /\ UNCHANGED <<now, stored, load>>

(* A conflict, or an answer lost with a write that did not land: the row   *)
(* is read again.  A lost answer to a write that landed is TakeLands: the  *)
(* read back finds the lease.                                              *)
TakeFails(h) ==
    /\ pin[h].pc = "taking"
    /\ pin' = [pin EXCEPT ![h].pc = "read", ![h].row = FirstRow, ![h].leases = {}]
    /\ UNCHANGED <<now, row, stored, load>>

HasLease(h) == \E e \in row.leases : e.holder = h

(* Someone pruned the lease, or a release before this one landed.          *)
ReleaseNothing(h) ==
    /\ pin[h].pc \in {"hold", "release"}
    /\ ~HasLease(h)
    /\ pin' = [pin EXCEPT ![h] = [Unpinned EXCEPT !.pc = "done"]]
    /\ UNCHANGED <<now, row, stored, load>>

(* The release reads the row, and writes back the other live leases.       *)
ReleaseSend(h) ==
    /\ pin[h].pc \in {"hold", "release"}
    /\ HasLease(h)
    /\ pin' = [pin EXCEPT ![h].pc = "releasing", ![h].row = row,
                          ![h].leases = {e \in LiveLeases(row, Clock(h)) : e.holder # h}]
    /\ UNCHANGED <<now, row, stored, load>>

ReleaseLands(h) ==
    /\ pin[h].pc = "releasing"
    /\ WriteLeases(pin[h].row, pin[h].leases)
    /\ pin' = [pin EXCEPT ![h] = [Unpinned EXCEPT !.pc = "done"]]
    /\ UNCHANGED <<now, stored, load>>

(* A conflict, or no answer: the row is read again.                        *)
ReleaseFails(h) ==
    /\ pin[h].pc = "releasing"
    /\ pin' = [pin EXCEPT ![h].pc = "release", ![h].row = FirstRow, ![h].leases = {}]
    /\ UNCHANGED <<now, row, stored, load>>

-----------------------------------------------------------------------------
(* A load: read the row, publish over it, collect, or publish again.       *)

LoadRead(w) ==
    /\ load[w].pc \in {"start", "collect"}
    /\ load' = [load EXCEPT ![w].pc = "publish", ![w].row = row]
    /\ UNCHANGED <<now, row, stored, pin>>

(* The publish drops from the row the leases its clock says have ended.    *)
PublishSend(w) ==
    /\ load[w].pc = "publish"
    /\ load[w].row.currentGen < MaxGen
    /\ load' = [load EXCEPT ![w].pc = "publishing",
                            ![w].leases = LiveLeases(load[w].row, Clock(w))]
    /\ UNCHANGED <<now, row, stored, pin>>

(* A publish that finds the row moved reads it again, or gives up.         *)
PublishFails(w) ==
    /\ load[w].pc = "publishing"
    /\ load' = [load EXCEPT ![w] = Unloaded]
    /\ UNCHANGED <<now, row, stored, pin>>

PublishLands(w) ==
    LET next == load[w].row.currentGen + 1
    IN  /\ load[w].pc = "publishing"
        /\ row.version = load[w].row.version
        /\ row' = [currentGen |-> next, leases |-> load[w].leases,
                   version |-> row.version + 1]
        /\ stored' = stored \cup {next}
        /\ load' = [load EXCEPT ![w] = [Unloaded EXCEPT !.pc = "collect"]]
        /\ UNCHANGED <<now, pin>>

(* The re-read before a delete.                                            *)
CollectRead(w) ==
    /\ load[w].pc = "collect"
    /\ load' = [load EXCEPT ![w].pc = "judge", ![w].row = row]
    /\ UNCHANGED <<now, row, stored, pin>>

(* Only a generation below the pointer of that read, and held by no lease  *)
(* in it that is live by the collector's clock now, is deleted.            *)
CollectCheck(w) ==
    /\ load[w].pc = "judge"
    /\ \E g \in Gens \ HeldGenerations(load[w].row, Clock(w)) :
          /\ g < load[w].row.currentGen
          /\ load' = [load EXCEPT ![w] = [Unloaded EXCEPT !.pc = "delete", !.doomed = g]]
    /\ UNCHANGED <<now, row, stored, pin>>

(* The re-read spares the generation.                                      *)
CollectSpares(w) ==
    /\ load[w].pc = "judge"
    /\ load' = [load EXCEPT ![w] = [Unloaded EXCEPT !.pc = "collect"]]
    /\ UNCHANGED <<now, row, stored, pin>>

CollectDelete(w) ==
    /\ load[w].pc = "delete"
    /\ stored' = stored \ {load[w].doomed}
    /\ load' = [load EXCEPT ![w] = [Unloaded EXCEPT !.pc = "collect"]]
    /\ UNCHANGED <<now, row, pin>>

PinStep(h) ==
    \/ Pin(h) \/ PinRead(h) \/ TakeSend(h) \/ TakeLands(h) \/ TakeFails(h)
    \/ ReleaseNothing(h) \/ ReleaseSend(h) \/ ReleaseLands(h) \/ ReleaseFails(h)

LoadStep(w) ==
    \/ LoadRead(w) \/ PublishSend(w) \/ PublishFails(w) \/ PublishLands(w)
    \/ CollectRead(w) \/ CollectCheck(w) \/ CollectSpares(w) \/ CollectDelete(w)

Next ==
    \/ Tick
    \/ \E h \in Readers : PinStep(h)
    \/ \E w \in Loaders : LoadStep(w)

Spec == Init /\ [][Next]_vars

-----------------------------------------------------------------------------
(* The type of the row, the bucket and each process's state.               *)
TypeOK ==
    /\ now \in Nat
    /\ row \in Row
    /\ stored \subseteq Gens
    /\ pin \in [Readers -> PinState]
    /\ load \in [Loaders -> LoadState]

(* A reader whose lease has not ended by its own clock.                    *)
Holds(h) == pin[h].pc = "hold" /\ Clock(h) < pin[h].until

(* A leased pin can read its generation until the lease ends by the        *)
(* reader's clock: no collection deletes it, whichever way the clocks      *)
(* differ, as long as they differ by at most the margin.                   *)
LeasedGenerationStays == \A h \in Readers : Holds(h) => pin[h].generation \in stored

(* The lease stays in the row for as long: no writer prunes it early, nor  *)
(* drops it by writing over a row it read before.                          *)
LeaseStaysInRow == \A h \in Readers : Holds(h) => LeaseOf(h) \in row.leases
=============================================================================
