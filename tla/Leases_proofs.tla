--------------------------- MODULE Leases_proofs ---------------------------
(***************************************************************************)
(* For every number of readers and loaders, every skew, lease length and   *)
(* clock offsets within the margin: a leased generation stays in the       *)
(* bucket, and its lease in the row.                                       *)
(***************************************************************************)
EXTENDS Leases, TLAPS

(* A row read earlier: no newer than the row, and the row if as new.       *)
IsOld(r) == r.version <= row.version /\ (r.version = row.version => r = row)

CopiesAreOld ==
    /\ IsOld(FirstRow)
    /\ \A h \in Readers : IsOld(pin[h].row)
    /\ \A w \in Loaders : IsOld(load[w].row)

(* What the guards of a pin's and a load's steps leave behind.             *)
PinIsBounded ==
    \A h \in Readers :
        /\ pin[h].pc \in {"read", "take", "taking", "hold"} =>
              pin[h].until <= Clock(h) + MaxLease
        /\ pin[h].pc \in {"take", "taking"} => pin[h].generation = pin[h].row.currentGen
        /\ pin[h].pc = "taking" => LeaseOf(h) \in pin[h].leases

LoadIsBounded ==
    \A w \in Loaders :
        /\ load[w].pc = "publishing" => load[w].row.currentGen < MaxGen
        /\ load[w].pc = "judge" => load[w].row.currentGen <= row.currentGen
        /\ load[w].pc = "delete" => load[w].doomed < row.currentGen

CurrentIsStored == row.currentGen \in stored

(* A write that can still land carries every lease that is held.           *)
WritesKeepLeases ==
    \A h \in Readers : Holds(h) =>
        /\ \A q \in Readers :
              pin[q].pc \in {"taking", "releasing"} /\ pin[q].row.version = row.version
                 => LeaseOf(h) \in pin[q].leases
        /\ \A w \in Loaders :
              load[w].pc = "publishing" /\ load[w].row.version = row.version
                 => LeaseOf(h) \in load[w].leases

(* A collector about to delete has chosen no generation under a lease, and *)
(* the row it is about to choose by shows every lease below its pointer.   *)
CollectorsSpare ==
    \A h \in Readers, w \in Loaders : Holds(h) =>
        /\ load[w].pc = "judge" =>
              \/ pin[h].generation >= load[w].row.currentGen
              \/ LeaseOf(h) \in load[w].row.leases
        /\ load[w].pc = "delete" => pin[h].generation # load[w].doomed

IInv ==
    /\ TypeOK
    /\ CopiesAreOld
    /\ PinIsBounded
    /\ LoadIsBounded
    /\ CurrentIsStored
    /\ WritesKeepLeases
    /\ CollectorsSpare
    /\ LeaseStaysInRow
    /\ LeasedGenerationStays

-----------------------------------------------------------------------------
(* What a step does: each is a fact of every step from a state in IInv,    *)
(* proved below action by action.                                          *)

(* The row stays, or takes the next version and no lower pointer.          *)
RowAdvances ==
    \/ row' = row
    \/ /\ row'.version = row.version + 1
       /\ row.version \in Nat
       /\ row'.currentGen >= row.currentGen

(* A row kept by a process is the one it kept, the one it reads, or none.  *)
CopiesFollow ==
    /\ \A h \in Readers : pin'[h].row \in {pin[h].row, FirstRow, row}
    /\ \A w \in Loaders : load'[w].row \in {load[w].row, FirstRow, row}

(* A lease held after a step was held before it, or is taken by it.        *)
HeldBefore ==
    \A h \in Readers : Holds(h)' => \/ Holds(h) /\ pin'[h] = pin[h]
                                   \/ TakeLands(h)

(* The row keeps every lease that was held.                                *)
RowKeeps == \A h \in Readers : Holds(h) => LeaseOf(h) \in row'.leases

(* What can still land if the row stays as it is.                          *)
SendKeeps(h) ==
    /\ \A q \in Readers :
          pin'[q].pc \in {"taking", "releasing"} /\ pin'[q].row.version = row.version
             => LeaseOf(h) \in pin'[q].leases
    /\ \A w \in Loaders :
          load'[w].pc = "publishing" /\ load'[w].row.version = row.version
             => LeaseOf(h) \in load'[w].leases

SendsKeep == row' = row => \A h \in Readers : Holds(h) /\ Holds(h)' => SendKeeps(h)

(* CollectorsSpare, of the choices after a step and the leases before it.  *)
ChoicesSpare ==
    \A h \in Readers, w \in Loaders : Holds(h) =>
        /\ load'[w].pc = "judge" =>
              \/ pin[h].generation >= load'[w].row.currentGen
              \/ LeaseOf(h) \in load'[w].row.leases
        /\ load'[w].pc = "delete" => pin[h].generation # load'[w].doomed

(* The bucket keeps every generation under a lease that was held.          *)
StoredKeeps == \A h \in Readers : Holds(h) => pin[h].generation \in stored'

-----------------------------------------------------------------------------
(* Lengths and clocks are integers, whatever the step.                     *)
LEMMA ClockIsInt ==
    ASSUME TypeOK, NEW p \in Processes
    PROVE  Clock(p) \in Int /\ Clock(p)' = now' + Offset[p] /\ Offset[p] \in Int
BY LeasesAssumption DEF Clock, TypeOK, Processes

(* The margin covers the difference of any two clocks.                     *)
LEMMA ClocksAreClose ==
    ASSUME TypeOK, NEW p \in Processes, NEW q \in Processes
    PROVE  Clock(p) <= Clock(q) + Skew
BY LeasesAssumption DEF Clock, TypeOK, Processes

(* A lease that its holder has not ended is live by every other clock, so  *)
(* neither a prune nor a collector's check passes it over.                 *)
LEMMA HeldIsLive ==
    ASSUME IInv, NEW h \in Readers, Holds(h), NEW p \in Processes
    PROVE  /\ LeaseOf(h) \in LiveLeases(row, Clock(p))
           /\ IsLive(LeaseOf(h), Clock(p))
<1>1. LeaseOf(h) \in row.leases
  BY DEF IInv, LeaseStaysInRow
<1>2. /\ Clock(p) <= Clock(h) + Skew
      /\ Clock(h) <= Clock(p) + Skew
  BY ClocksAreClose DEF IInv, Processes
<1>3. /\ Clock(h) < pin[h].until
      /\ pin[h].until <= Clock(h) + MaxLease
  BY DEF IInv, Holds, PinIsBounded
<1>4. /\ Clock(p) \in Int /\ Clock(h) \in Int /\ pin[h].until \in Int
      /\ Skew \in Int /\ MaxLease \in Int
  BY ClockIsInt, LeasesAssumption DEF IInv, Processes, TypeOK, PinState
<1>5. IsLive(LeaseOf(h), Clock(p))
  BY <1>2, <1>3, <1>4 DEF IsLive, LeaseOf
<1>6. QED
  BY <1>1, <1>5 DEF LiveLeases

(* The initial state satisfies the inductive invariant.                    *)
THEOREM InitEstablishes == Init => IInv
<1>1. SUFFICES ASSUME Init PROVE IInv
  OBVIOUS
<1>2. FirstRow \in Row /\ FirstRow.version = 0 /\ FirstRow.currentGen = 0
  BY LeasesAssumption DEF FirstRow, Row, Gens
<1>3. TypeOK
  BY <1>1, <1>2, LeasesAssumption DEF Init, TypeOK, Unpinned, Unloaded, PinState, LoadState, Gens
<1>4. CopiesAreOld
  BY <1>1, <1>2 DEF Init, CopiesAreOld, IsOld, Unpinned, Unloaded
<1>5. PinIsBounded /\ LoadIsBounded /\ CurrentIsStored
  BY <1>1, <1>2 DEF Init, PinIsBounded, LoadIsBounded, CurrentIsStored, Unpinned, Unloaded
<1>6. \A h \in Readers : ~Holds(h)
  BY <1>1 DEF Init, Holds, Unpinned
<1>7. QED
  BY <1>3, <1>4, <1>5, <1>6
     DEF IInv, WritesKeepLeases, CollectorsSpare, LeaseStaysInRow, LeasedGenerationStays

(* The types of the constants the processes start from.                    *)
LEMMA ConstantTypes ==
    /\ FirstRow \in Row /\ Unpinned \in PinState /\ Unloaded \in LoadState
    /\ \A r \in Row : r.currentGen \in Gens /\ r.leases \in SUBSET Lease /\ r.version \in Nat
BY LeasesAssumption DEF FirstRow, Row, Gens, Unpinned, Unloaded, PinState, LoadState

(* A write of leases keeps the type of the row.                            *)
LEMMA WriteKeepsType ==
    ASSUME row \in Row, NEW against, NEW L \in SUBSET Lease, WriteLeases(against, L)
    PROVE  row' \in Row
<1>1. row' = [currentGen |-> row.currentGen, leases |-> L, version |-> row.version + 1]
  BY DEF WriteLeases, Row
<1>2. QED
  BY <1>1 DEF Row

(* Every step keeps the types.                                            *)
LEMMA TypePreserved ==
    ASSUME IInv, Next
    PROVE  TypeOK'
<1>1. CASE Tick
  BY <1>1, ConstantTypes DEF Tick, IInv, TypeOK
<1>2. ASSUME NEW h \in Readers, PinStep(h) PROVE TypeOK'
  <2>1. CASE Pin(h)
    <3>1. PICK u \in Clock(h) + 1 .. Clock(h) + MaxLease :
             pin' = [pin EXCEPT ![h].pc = "read", ![h].until = u]
      BY <2>1 DEF Pin
    <3>2. u \in Int
      BY ClockIsInt, LeasesAssumption DEF IInv, Processes
    <3>3. pin' \in [Readers -> PinState]
      BY <3>1, <3>2 DEF IInv, TypeOK, PinState
    <3>4. QED
      BY <2>1, <3>3 DEF Pin, IInv, TypeOK
  <2>2. CASE PinRead(h)
    BY <2>2, ConstantTypes DEF PinRead, IInv, TypeOK, PinState
  <2>3. CASE TakeSend(h)
    <3>1. LeaseOf(h) \in Lease
      BY DEF IInv, TypeOK, PinState, LeaseOf, Lease
    <3>2. \A S \in SUBSET Lease : S \cup {LeaseOf(h)} \in SUBSET Lease
      BY <3>1
    <3>3. {e \in LiveLeases(pin[h].row, Clock(h)) : e.holder # h} \in SUBSET Lease
      BY ConstantTypes DEF IInv, TypeOK, PinState, LiveLeases
    <3>4. PICK new \in SUBSET Lease :
             new = {e \in LiveLeases(pin[h].row, Clock(h)) : e.holder # h} \cup {LeaseOf(h)}
      BY <3>2, <3>3
    <3>5. pin' = [pin EXCEPT ![h].pc = "taking", ![h].leases = new]
      BY <2>3, <3>4 DEF TakeSend
    <3>6. pin' \in [Readers -> PinState]
      BY <3>5 DEF IInv, TypeOK, PinState
    <3>7. QED
      BY <2>3, <3>6 DEF TakeSend, IInv, TypeOK
  <2>4. CASE TakeLands(h)
    <3>1. pin[h].leases \in SUBSET Lease
      BY DEF IInv, TypeOK, PinState
    <3>2. row' \in Row
      BY <2>4, <3>1, WriteKeepsType DEF TakeLands, IInv, TypeOK
    <3>3. pin' \in [Readers -> PinState]
      BY <2>4, ConstantTypes DEF TakeLands, IInv, TypeOK, PinState
    <3>4. QED
      BY <2>4, <3>2, <3>3 DEF TakeLands, IInv, TypeOK
  <2>5. CASE TakeFails(h)
    BY <2>5, ConstantTypes DEF TakeFails, IInv, TypeOK, PinState
  <2>6. CASE ReleaseNothing(h)
    BY <2>6, ConstantTypes DEF ReleaseNothing, IInv, TypeOK, PinState
  <2>7. CASE ReleaseSend(h)
    BY <2>7, ConstantTypes DEF ReleaseSend, IInv, TypeOK, LiveLeases, PinState
  <2>8. CASE ReleaseLands(h)
    <3>1. pin[h].leases \in SUBSET Lease
      BY DEF IInv, TypeOK, PinState
    <3>2. row' \in Row
      BY <2>8, <3>1, WriteKeepsType DEF ReleaseLands, IInv, TypeOK
    <3>3. pin' \in [Readers -> PinState]
      BY <2>8, ConstantTypes DEF ReleaseLands, IInv, TypeOK, PinState
    <3>4. QED
      BY <2>8, <3>2, <3>3 DEF ReleaseLands, IInv, TypeOK
  <2>9. CASE ReleaseFails(h)
    BY <2>9, ConstantTypes DEF ReleaseFails, IInv, TypeOK, PinState
  <2>. QED
    BY <1>2, <2>1, <2>2, <2>3, <2>4, <2>5, <2>6, <2>7, <2>8, <2>9 DEF PinStep
<1>3. ASSUME NEW w \in Loaders, LoadStep(w) PROVE TypeOK'
  <2>1. CASE LoadRead(w)
    BY <2>1, ConstantTypes DEF LoadRead, IInv, TypeOK, LoadState
  <2>2. CASE PublishSend(w)
    BY <2>2, ConstantTypes DEF PublishSend, IInv, TypeOK, LiveLeases, LoadState
  <2>3. CASE PublishFails(w)
    BY <2>3, ConstantTypes DEF PublishFails, IInv, TypeOK
  <2>4. CASE PublishLands(w)
    BY <2>4, ConstantTypes, LeasesAssumption
       DEF PublishLands, IInv, TypeOK, LoadIsBounded, LoadState, Row, Gens
  <2>5. CASE CollectRead(w)
    BY <2>5, ConstantTypes DEF CollectRead, IInv, TypeOK, LoadState
  <2>6. CASE CollectCheck(w)
    <3>1. PICK g \in Gens :
             load' = [load EXCEPT ![w] = [Unloaded EXCEPT !.pc = "delete", !.doomed = g]]
      BY <2>6 DEF CollectCheck
    <3>2. load' \in [Loaders -> LoadState]
      BY <3>1, ConstantTypes DEF IInv, TypeOK, LoadState
    <3>3. QED
      BY <2>6, <3>2 DEF CollectCheck, IInv, TypeOK
  <2>7. CASE CollectSpares(w)
    BY <2>7, ConstantTypes DEF CollectSpares, IInv, TypeOK, LoadState
  <2>8. CASE CollectDelete(w)
    BY <2>8, ConstantTypes DEF CollectDelete, IInv, TypeOK, LoadState
  <2>. QED
    BY <1>3, <2>1, <2>2, <2>3, <2>4, <2>5, <2>6, <2>7, <2>8 DEF LoadStep
<1>4. QED
  BY <1>1, <1>2, <1>3 DEF Next

(* What a write of leases that lands does to the row.                      *)
LEMMA WriteMoves ==
    ASSUME row \in Row, NEW against, NEW L, WriteLeases(against, L)
    PROVE  /\ row.version = against.version
           /\ row'.version = row.version + 1 /\ row.version \in Nat
           /\ row'.currentGen = row.currentGen /\ row.currentGen \in Nat /\ row'.leases = L
BY LeasesAssumption DEF WriteLeases, Row, Gens

(* A publish that lands was computed from the row it lands on.             *)
LEMMA PublishMoves ==
    ASSUME IInv, NEW w \in Loaders, PublishLands(w)
    PROVE  /\ load[w].row = row
           /\ row'.version = row.version + 1 /\ row.version \in Nat
           /\ row'.currentGen = row.currentGen + 1 /\ row.currentGen \in Nat
           /\ row'.leases = load[w].leases
           /\ stored' = stored \cup {row'.currentGen}
<1>1. load[w].row = row /\ row \in Row
  BY DEF PublishLands, IInv, TypeOK, CopiesAreOld, IsOld
<1>2. QED
  BY <1>1, LeasesAssumption DEF PublishLands, Row, Gens

(* A step leaves the row alone, or gives it the next version; it never    *)
(* moves the pointer back.                                                 *)
LEMMA RowMoves ==
    ASSUME IInv, Next
    PROVE  RowAdvances
<1>1. CASE Tick
  BY <1>1 DEF Tick, IInv, TypeOK, RowAdvances
<1>2. ASSUME NEW h \in Readers, PinStep(h) PROVE RowAdvances
  <2>1. CASE Pin(h)
    BY <2>1 DEF Pin, IInv, TypeOK, RowAdvances
  <2>2. CASE PinRead(h)
    BY <2>2 DEF PinRead, IInv, TypeOK, RowAdvances
  <2>3. CASE TakeSend(h)
    BY <2>3 DEF TakeSend, IInv, TypeOK, RowAdvances
  <2>4. CASE TakeLands(h)
    BY <2>4, WriteMoves DEF TakeLands, IInv, TypeOK, RowAdvances
  <2>5. CASE TakeFails(h)
    BY <2>5 DEF TakeFails, IInv, TypeOK, RowAdvances
  <2>6. CASE ReleaseNothing(h)
    BY <2>6 DEF ReleaseNothing, IInv, TypeOK, RowAdvances
  <2>7. CASE ReleaseSend(h)
    BY <2>7 DEF ReleaseSend, IInv, TypeOK, RowAdvances
  <2>8. CASE ReleaseLands(h)
    BY <2>8, WriteMoves DEF ReleaseLands, IInv, TypeOK, RowAdvances
  <2>9. CASE ReleaseFails(h)
    BY <2>9 DEF ReleaseFails, IInv, TypeOK, RowAdvances
  <2>. QED
    BY <1>2, <2>1, <2>2, <2>3, <2>4, <2>5, <2>6, <2>7, <2>8, <2>9 DEF PinStep
<1>3. ASSUME NEW w \in Loaders, LoadStep(w) PROVE RowAdvances
  <2>1. CASE LoadRead(w)
    BY <2>1 DEF LoadRead, IInv, TypeOK, RowAdvances
  <2>2. CASE PublishSend(w)
    BY <2>2 DEF PublishSend, IInv, TypeOK, RowAdvances
  <2>3. CASE PublishFails(w)
    BY <2>3 DEF PublishFails, IInv, TypeOK, RowAdvances
  <2>4. CASE PublishLands(w)
    BY <2>4, PublishMoves DEF RowAdvances
  <2>5. CASE CollectRead(w)
    BY <2>5 DEF CollectRead, IInv, TypeOK, RowAdvances
  <2>6. CASE CollectCheck(w)
    BY <2>6 DEF CollectCheck, IInv, TypeOK, RowAdvances
  <2>7. CASE CollectSpares(w)
    BY <2>7 DEF CollectSpares, IInv, TypeOK, RowAdvances
  <2>8. CASE CollectDelete(w)
    BY <2>8 DEF CollectDelete, IInv, TypeOK, RowAdvances
  <2>. QED
    BY <1>3, <2>1, <2>2, <2>3, <2>4, <2>5, <2>6, <2>7, <2>8 DEF LoadStep
<1>4. QED
  BY <1>1, <1>2, <1>3 DEF Next

(* A step that keeps a row keeps the one it reads.                         *)
LEMMA CopyMoves ==
    ASSUME IInv, Next
    PROVE  CopiesFollow
<1>1. CASE Tick
  BY <1>1 DEF Tick, IInv, TypeOK, PinState, LoadState, CopiesFollow, Unpinned, Unloaded
<1>2. ASSUME NEW h \in Readers, PinStep(h) PROVE CopiesFollow
  <2>1. CASE Pin(h)
    BY <2>1 DEF Pin, IInv, TypeOK, PinState, LoadState, CopiesFollow, Unpinned, Unloaded
  <2>2. CASE PinRead(h)
    BY <2>2
       DEF PinRead, IInv, TypeOK, PinState, LoadState, CopiesFollow, Unpinned, Unloaded
  <2>3. CASE TakeSend(h)
    BY <2>3
       DEF TakeSend, IInv, TypeOK, PinState, LoadState, CopiesFollow, Unpinned, Unloaded
  <2>4. CASE TakeLands(h)
    BY <2>4
       DEF TakeLands, IInv, TypeOK, PinState, LoadState, CopiesFollow, Unpinned, Unloaded
  <2>5. CASE TakeFails(h)
    BY <2>5
       DEF TakeFails, IInv, TypeOK, PinState, LoadState, CopiesFollow, Unpinned, Unloaded
  <2>6. CASE ReleaseNothing(h)
    BY <2>6
       DEF ReleaseNothing, IInv, TypeOK, PinState, LoadState, CopiesFollow, Unpinned, Unloaded
  <2>7. CASE ReleaseSend(h)
    BY <2>7
       DEF ReleaseSend, IInv, TypeOK, PinState, LoadState, CopiesFollow, Unpinned, Unloaded
  <2>8. CASE ReleaseLands(h)
    BY <2>8
       DEF ReleaseLands, IInv, TypeOK, PinState, LoadState, CopiesFollow, Unpinned, Unloaded
  <2>9. CASE ReleaseFails(h)
    BY <2>9
       DEF ReleaseFails, IInv, TypeOK, PinState, LoadState, CopiesFollow, Unpinned, Unloaded
  <2>. QED
    BY <1>2, <2>1, <2>2, <2>3, <2>4, <2>5, <2>6, <2>7, <2>8, <2>9 DEF PinStep
<1>3. ASSUME NEW w \in Loaders, LoadStep(w) PROVE CopiesFollow
  <2>1. CASE LoadRead(w)
    BY <2>1
       DEF LoadRead, IInv, TypeOK, PinState, LoadState, CopiesFollow, Unpinned, Unloaded
  <2>2. CASE PublishSend(w)
    BY <2>2
       DEF PublishSend, IInv, TypeOK, PinState, LoadState, CopiesFollow, Unpinned, Unloaded
  <2>3. CASE PublishFails(w)
    BY <2>3
       DEF PublishFails, IInv, TypeOK, PinState, LoadState, CopiesFollow, Unpinned, Unloaded
  <2>4. CASE PublishLands(w)
    BY <2>4
       DEF PublishLands, IInv, TypeOK, PinState, LoadState, CopiesFollow, Unpinned, Unloaded
  <2>5. CASE CollectRead(w)
    BY <2>5
       DEF CollectRead, IInv, TypeOK, PinState, LoadState, CopiesFollow, Unpinned, Unloaded
  <2>6. CASE CollectCheck(w)
    BY <2>6
       DEF CollectCheck, IInv, TypeOK, PinState, LoadState, CopiesFollow, Unpinned, Unloaded
  <2>7. CASE CollectSpares(w)
    BY <2>7
       DEF CollectSpares, IInv, TypeOK, PinState, LoadState, CopiesFollow, Unpinned, Unloaded
  <2>8. CASE CollectDelete(w)
    BY <2>8
       DEF CollectDelete, IInv, TypeOK, PinState, LoadState, CopiesFollow, Unpinned, Unloaded
  <2>. QED
    BY <1>3, <2>1, <2>2, <2>3, <2>4, <2>5, <2>6, <2>7, <2>8 DEF LoadStep
<1>4. QED
  BY <1>1, <1>2, <1>3 DEF Next

(* Every kept row stays older than the row, or is the row.                 *)
LEMMA CopiesStayOld ==
    ASSUME IInv, Next
    PROVE  CopiesAreOld'
<1>1. RowAdvances /\ CopiesFollow
  BY RowMoves, CopyMoves
<1>2. row \in Row /\ row' \in Row /\ FirstRow \in Row
  BY TypePreserved, ConstantTypes DEF IInv, TypeOK
<1>3. ASSUME NEW r \in Row, IsOld(r)
      PROVE  r.version <= row'.version /\ (r.version = row'.version => r = row')
  BY <1>1, <1>2, <1>3, ConstantTypes DEF RowAdvances, IsOld
<1>4. IsOld(row)
  BY <1>2, ConstantTypes DEF IsOld
<1>5. /\ \A h \in Readers : pin[h].row \in Row /\ IsOld(pin[h].row)
      /\ \A w \in Loaders : load[w].row \in Row /\ IsOld(load[w].row)
      /\ IsOld(FirstRow)
  BY DEF IInv, TypeOK, PinState, LoadState, CopiesAreOld
<1>6. IsOld(FirstRow)'
  BY <1>2, <1>3, <1>5 DEF IsOld, FirstRow
<1>7. ASSUME NEW h \in Readers PROVE IsOld(pin[h].row)'
  BY <1>1, <1>2, <1>3, <1>4, <1>5 DEF CopiesFollow, IsOld
<1>8. ASSUME NEW w \in Loaders PROVE IsOld(load[w].row)'
  BY <1>1, <1>2, <1>3, <1>4, <1>5 DEF CopiesFollow, IsOld
<1>9. QED
  BY <1>6, <1>7, <1>8 DEF CopiesAreOld

(* Every step keeps the bounds on a pin.                                   *)
LEMMA PinStaysBounded ==
    ASSUME IInv, Next
    PROVE  PinIsBounded'
<1>1. CASE Tick
  BY <1>1, ClockIsInt, LeasesAssumption
     DEF Tick, IInv, TypeOK, PinState, PinIsBounded, Clock, LeaseOf, Unpinned, Processes
<1>2. ASSUME NEW h \in Readers, PinStep(h) PROVE PinIsBounded'
  <2>1. CASE Pin(h)
    BY <2>1, ClockIsInt
       DEF Pin, IInv, TypeOK, PinState, PinIsBounded, Clock, LeaseOf, Unpinned
  <2>2. CASE PinRead(h)
    BY <2>2, ClockIsInt
       DEF PinRead, IInv, TypeOK, PinState, PinIsBounded, Clock, LeaseOf, Unpinned
  <2>3. CASE TakeSend(h)
    BY <2>3, ClockIsInt
       DEF TakeSend, IInv, TypeOK, PinState, PinIsBounded, Clock, LeaseOf, Unpinned
  <2>4. CASE TakeLands(h)
    BY <2>4, ClockIsInt
       DEF TakeLands, IInv, TypeOK, PinState, PinIsBounded, Clock, LeaseOf, Unpinned
  <2>5. CASE TakeFails(h)
    BY <2>5, ClockIsInt
       DEF TakeFails, IInv, TypeOK, PinState, PinIsBounded, Clock, LeaseOf, Unpinned
  <2>6. CASE ReleaseNothing(h)
    BY <2>6, ClockIsInt
       DEF ReleaseNothing, IInv, TypeOK, PinState, PinIsBounded, Clock, LeaseOf, Unpinned
  <2>7. CASE ReleaseSend(h)
    BY <2>7, ClockIsInt
       DEF ReleaseSend, IInv, TypeOK, PinState, PinIsBounded, Clock, LeaseOf, Unpinned
  <2>8. CASE ReleaseLands(h)
    BY <2>8, ClockIsInt
       DEF ReleaseLands, IInv, TypeOK, PinState, PinIsBounded, Clock, LeaseOf, Unpinned
  <2>9. CASE ReleaseFails(h)
    BY <2>9, ClockIsInt
       DEF ReleaseFails, IInv, TypeOK, PinState, PinIsBounded, Clock, LeaseOf, Unpinned
  <2>. QED
    BY <1>2, <2>1, <2>2, <2>3, <2>4, <2>5, <2>6, <2>7, <2>8, <2>9 DEF PinStep
<1>3. ASSUME NEW w \in Loaders, LoadStep(w) PROVE PinIsBounded'
  <2>1. CASE LoadRead(w)
    BY <2>1, ClockIsInt
       DEF LoadRead, IInv, TypeOK, PinState, PinIsBounded, Clock, LeaseOf, Unpinned
  <2>2. CASE PublishSend(w)
    BY <2>2, ClockIsInt
       DEF PublishSend, IInv, TypeOK, PinState, PinIsBounded, Clock, LeaseOf, Unpinned
  <2>3. CASE PublishFails(w)
    BY <2>3, ClockIsInt
       DEF PublishFails, IInv, TypeOK, PinState, PinIsBounded, Clock, LeaseOf, Unpinned
  <2>4. CASE PublishLands(w)
    BY <2>4, ClockIsInt
       DEF PublishLands, IInv, TypeOK, PinState, PinIsBounded, Clock, LeaseOf, Unpinned
  <2>5. CASE CollectRead(w)
    BY <2>5, ClockIsInt
       DEF CollectRead, IInv, TypeOK, PinState, PinIsBounded, Clock, LeaseOf, Unpinned
  <2>6. CASE CollectCheck(w)
    BY <2>6, ClockIsInt
       DEF CollectCheck, IInv, TypeOK, PinState, PinIsBounded, Clock, LeaseOf, Unpinned
  <2>7. CASE CollectSpares(w)
    BY <2>7, ClockIsInt
       DEF CollectSpares, IInv, TypeOK, PinState, PinIsBounded, Clock, LeaseOf, Unpinned
  <2>8. CASE CollectDelete(w)
    BY <2>8, ClockIsInt
       DEF CollectDelete, IInv, TypeOK, PinState, PinIsBounded, Clock, LeaseOf, Unpinned
  <2>. QED
    BY <1>3, <2>1, <2>2, <2>3, <2>4, <2>5, <2>6, <2>7, <2>8 DEF LoadStep
<1>4. QED
  BY <1>1, <1>2, <1>3 DEF Next

(* Every step keeps the bounds on a load.                                  *)
LEMMA LoadStaysBounded ==
    ASSUME IInv, Next
    PROVE  LoadIsBounded'
<1>1. CASE Tick
  BY <1>1 DEF Tick, IInv, TypeOK, LoadState, LoadIsBounded, Unloaded
<1>2. ASSUME NEW h \in Readers, PinStep(h) PROVE LoadIsBounded'
  <2>1. CASE Pin(h)
    BY <2>1 DEF Pin, IInv, TypeOK, LoadState, LoadIsBounded, Unloaded
  <2>2. CASE PinRead(h)
    BY <2>2 DEF PinRead, IInv, TypeOK, LoadState, LoadIsBounded, Unloaded
  <2>3. CASE TakeSend(h)
    BY <2>3 DEF TakeSend, IInv, TypeOK, LoadState, LoadIsBounded, Unloaded
  <2>4. CASE TakeLands(h)
    BY <2>4, WriteMoves DEF TakeLands, IInv, TypeOK, LoadState, LoadIsBounded, Unloaded
  <2>5. CASE TakeFails(h)
    BY <2>5 DEF TakeFails, IInv, TypeOK, LoadState, LoadIsBounded, Unloaded
  <2>6. CASE ReleaseNothing(h)
    BY <2>6 DEF ReleaseNothing, IInv, TypeOK, LoadState, LoadIsBounded, Unloaded
  <2>7. CASE ReleaseSend(h)
    BY <2>7 DEF ReleaseSend, IInv, TypeOK, LoadState, LoadIsBounded, Unloaded
  <2>8. CASE ReleaseLands(h)
    BY <2>8, WriteMoves DEF ReleaseLands, IInv, TypeOK, LoadState, LoadIsBounded, Unloaded
  <2>9. CASE ReleaseFails(h)
    BY <2>9 DEF ReleaseFails, IInv, TypeOK, LoadState, LoadIsBounded, Unloaded
  <2>. QED
    BY <1>2, <2>1, <2>2, <2>3, <2>4, <2>5, <2>6, <2>7, <2>8, <2>9 DEF PinStep
<1>3. ASSUME NEW w \in Loaders, LoadStep(w) PROVE LoadIsBounded'
  <2>1. CASE LoadRead(w)
    BY <2>1 DEF LoadRead, IInv, TypeOK, LoadState, LoadIsBounded, Unloaded
  <2>2. CASE PublishSend(w)
    BY <2>2 DEF PublishSend, IInv, TypeOK, LoadState, LoadIsBounded, Unloaded
  <2>3. CASE PublishFails(w)
    BY <2>3 DEF PublishFails, IInv, TypeOK, LoadState, LoadIsBounded, Unloaded
  <2>4. CASE PublishLands(w)
    <3>1. row'.currentGen = row.currentGen + 1 /\ row.currentGen \in Nat
      BY <2>4, PublishMoves
    <3>2. \A v \in Loaders : load[v].row.currentGen \in Nat /\ load[v].doomed \in Nat
      BY ConstantTypes, LeasesAssumption DEF IInv, TypeOK, LoadState, Gens
    <3>3. QED
      BY <2>4, <3>1, <3>2 DEF PublishLands, IInv, TypeOK, LoadState, LoadIsBounded, Unloaded
  <2>5. CASE CollectRead(w)
    BY <2>5, LeasesAssumption
       DEF CollectRead, IInv, TypeOK, LoadState, LoadIsBounded, Unloaded, Row, Gens
  <2>6. CASE CollectCheck(w)
    <3>1. PICK g \in Gens :
             /\ g < load[w].row.currentGen
             /\ load' = [load EXCEPT ![w] = [Unloaded EXCEPT !.pc = "delete", !.doomed = g]]
      BY <2>6 DEF CollectCheck
    <3>2. g \in Nat /\ load[w].row.currentGen \in Nat /\ row.currentGen \in Nat
      BY ConstantTypes, LeasesAssumption DEF IInv, TypeOK, LoadState, Gens
    <3>3. g < row.currentGen /\ row' = row
      BY <2>6, <3>1, <3>2 DEF IInv, LoadIsBounded, CollectCheck
    <3>4. QED
      BY <3>1, <3>3 DEF IInv, TypeOK, LoadState, LoadIsBounded, Unloaded
  <2>7. CASE CollectSpares(w)
    BY <2>7 DEF CollectSpares, IInv, TypeOK, LoadState, LoadIsBounded, Unloaded
  <2>8. CASE CollectDelete(w)
    BY <2>8 DEF CollectDelete, IInv, TypeOK, LoadState, LoadIsBounded, Unloaded
  <2>. QED
    BY <1>3, <2>1, <2>2, <2>3, <2>4, <2>5, <2>6, <2>7, <2>8 DEF LoadStep
<1>4. QED
  BY <1>1, <1>2, <1>3 DEF Next

(* No step deletes the current generation.                                 *)
LEMMA CurrentStaysStored ==
    ASSUME IInv, Next
    PROVE  CurrentIsStored'
<1>1. CASE Tick
  BY <1>1 DEF Tick, IInv, TypeOK, CurrentIsStored
<1>2. ASSUME NEW h \in Readers, PinStep(h) PROVE CurrentIsStored'
  <2>1. CASE Pin(h)
    BY <2>1 DEF Pin, IInv, TypeOK, CurrentIsStored
  <2>2. CASE PinRead(h)
    BY <2>2 DEF PinRead, IInv, TypeOK, CurrentIsStored
  <2>3. CASE TakeSend(h)
    BY <2>3 DEF TakeSend, IInv, TypeOK, CurrentIsStored
  <2>4. CASE TakeLands(h)
    BY <2>4, WriteMoves DEF TakeLands, IInv, TypeOK, CurrentIsStored
  <2>5. CASE TakeFails(h)
    BY <2>5 DEF TakeFails, IInv, TypeOK, CurrentIsStored
  <2>6. CASE ReleaseNothing(h)
    BY <2>6 DEF ReleaseNothing, IInv, TypeOK, CurrentIsStored
  <2>7. CASE ReleaseSend(h)
    BY <2>7 DEF ReleaseSend, IInv, TypeOK, CurrentIsStored
  <2>8. CASE ReleaseLands(h)
    BY <2>8, WriteMoves DEF ReleaseLands, IInv, TypeOK, CurrentIsStored
  <2>9. CASE ReleaseFails(h)
    BY <2>9 DEF ReleaseFails, IInv, TypeOK, CurrentIsStored
  <2>. QED
    BY <1>2, <2>1, <2>2, <2>3, <2>4, <2>5, <2>6, <2>7, <2>8, <2>9 DEF PinStep
<1>3. ASSUME NEW w \in Loaders, LoadStep(w) PROVE CurrentIsStored'
  <2>1. CASE LoadRead(w)
    BY <2>1 DEF LoadRead, IInv, TypeOK, CurrentIsStored
  <2>2. CASE PublishSend(w)
    BY <2>2 DEF PublishSend, IInv, TypeOK, CurrentIsStored
  <2>3. CASE PublishFails(w)
    BY <2>3 DEF PublishFails, IInv, TypeOK, CurrentIsStored
  <2>4. CASE PublishLands(w)
    BY <2>4, PublishMoves DEF CurrentIsStored
  <2>5. CASE CollectRead(w)
    BY <2>5 DEF CollectRead, IInv, TypeOK, CurrentIsStored
  <2>6. CASE CollectCheck(w)
    BY <2>6 DEF CollectCheck, IInv, TypeOK, CurrentIsStored
  <2>7. CASE CollectSpares(w)
    BY <2>7 DEF CollectSpares, IInv, TypeOK, CurrentIsStored
  <2>8. CASE CollectDelete(w)
    BY <2>8, LeasesAssumption
       DEF CollectDelete, IInv, TypeOK, CurrentIsStored, LoadIsBounded, Row, Gens
  <2>. QED
    BY <1>3, <2>1, <2>2, <2>3, <2>4, <2>5, <2>6, <2>7, <2>8 DEF LoadStep
<1>4. QED
  BY <1>1, <1>2, <1>3 DEF Next

(* A lease that is held was held before the step, or is the one taken.     *)
LEMMA HoldsSince ==
    ASSUME IInv, Next
    PROVE  HeldBefore
<1>1. CASE Tick
  BY <1>1, LeasesAssumption
     DEF Tick, IInv, TypeOK, PinState, Holds, HeldBefore, Clock, Processes, Unpinned
<1>2. ASSUME NEW h \in Readers, PinStep(h) PROVE HeldBefore
  <2>1. CASE Pin(h)
    BY <2>1, LeasesAssumption
       DEF Pin, IInv, TypeOK, PinState, Holds, HeldBefore, Clock, Processes, Unpinned
  <2>2. CASE PinRead(h)
    BY <2>2, LeasesAssumption
       DEF PinRead, IInv, TypeOK, PinState, Holds, HeldBefore, Clock, Processes, Unpinned
  <2>3. CASE TakeSend(h)
    BY <2>3, LeasesAssumption
       DEF TakeSend, IInv, TypeOK, PinState, Holds, HeldBefore, Clock, Processes, Unpinned
  <2>4. CASE TakeLands(h)
    BY <2>4, LeasesAssumption
       DEF TakeLands, IInv, TypeOK, PinState, Holds, HeldBefore, Clock, Processes, Unpinned
  <2>5. CASE TakeFails(h)
    BY <2>5, LeasesAssumption
       DEF TakeFails, IInv, TypeOK, PinState, Holds, HeldBefore, Clock, Processes, Unpinned
  <2>6. CASE ReleaseNothing(h)
    BY <2>6, LeasesAssumption
       DEF ReleaseNothing, IInv, TypeOK, PinState, Holds, HeldBefore, Clock, Processes, Unpinned
  <2>7. CASE ReleaseSend(h)
    BY <2>7, LeasesAssumption
       DEF ReleaseSend, IInv, TypeOK, PinState, Holds, HeldBefore, Clock, Processes, Unpinned
  <2>8. CASE ReleaseLands(h)
    BY <2>8, LeasesAssumption
       DEF ReleaseLands, IInv, TypeOK, PinState, Holds, HeldBefore, Clock, Processes, Unpinned
  <2>9. CASE ReleaseFails(h)
    BY <2>9, LeasesAssumption
       DEF ReleaseFails, IInv, TypeOK, PinState, Holds, HeldBefore, Clock, Processes, Unpinned
  <2>. QED
    BY <1>2, <2>1, <2>2, <2>3, <2>4, <2>5, <2>6, <2>7, <2>8, <2>9 DEF PinStep
<1>3. ASSUME NEW w \in Loaders, LoadStep(w) PROVE HeldBefore
  <2>1. CASE LoadRead(w)
    BY <2>1, LeasesAssumption
       DEF LoadRead, IInv, TypeOK, PinState, Holds, HeldBefore, Clock, Processes, Unpinned
  <2>2. CASE PublishSend(w)
    BY <2>2, LeasesAssumption
       DEF PublishSend, IInv, TypeOK, PinState, Holds, HeldBefore, Clock, Processes, Unpinned
  <2>3. CASE PublishFails(w)
    BY <2>3, LeasesAssumption
       DEF PublishFails, IInv, TypeOK, PinState, Holds, HeldBefore, Clock, Processes, Unpinned
  <2>4. CASE PublishLands(w)
    BY <2>4, LeasesAssumption
       DEF PublishLands, IInv, TypeOK, PinState, Holds, HeldBefore, Clock, Processes, Unpinned
  <2>5. CASE CollectRead(w)
    BY <2>5, LeasesAssumption
       DEF CollectRead, IInv, TypeOK, PinState, Holds, HeldBefore, Clock, Processes, Unpinned
  <2>6. CASE CollectCheck(w)
    BY <2>6, LeasesAssumption
       DEF CollectCheck, IInv, TypeOK, PinState, Holds, HeldBefore, Clock, Processes, Unpinned
  <2>7. CASE CollectSpares(w)
    BY <2>7, LeasesAssumption
       DEF CollectSpares, IInv, TypeOK, PinState, Holds, HeldBefore, Clock, Processes, Unpinned
  <2>8. CASE CollectDelete(w)
    BY <2>8, LeasesAssumption
       DEF CollectDelete, IInv, TypeOK, PinState, Holds, HeldBefore, Clock, Processes, Unpinned
  <2>. QED
    BY <1>3, <2>1, <2>2, <2>3, <2>4, <2>5, <2>6, <2>7, <2>8 DEF LoadStep
<1>4. QED
  BY <1>1, <1>2, <1>3 DEF Next

(* No write drops a lease that is held.                                    *)
LEMMA RowKeepsHeld ==
    ASSUME IInv, Next
    PROVE  RowKeeps
<1>1. CASE Tick
  BY <1>1 DEF Tick, IInv, TypeOK, WritesKeepLeases, LeaseStaysInRow, RowKeeps
<1>2. ASSUME NEW h \in Readers, PinStep(h) PROVE RowKeeps
  <2>1. CASE Pin(h)
    BY <2>1 DEF Pin, IInv, TypeOK, WritesKeepLeases, LeaseStaysInRow, RowKeeps
  <2>2. CASE PinRead(h)
    BY <2>2 DEF PinRead, IInv, TypeOK, WritesKeepLeases, LeaseStaysInRow, RowKeeps
  <2>3. CASE TakeSend(h)
    BY <2>3 DEF TakeSend, IInv, TypeOK, WritesKeepLeases, LeaseStaysInRow, RowKeeps
  <2>4. CASE TakeLands(h)
    BY <2>4, WriteMoves
       DEF TakeLands, IInv, TypeOK, WritesKeepLeases, LeaseStaysInRow, RowKeeps
  <2>5. CASE TakeFails(h)
    BY <2>5 DEF TakeFails, IInv, TypeOK, WritesKeepLeases, LeaseStaysInRow, RowKeeps
  <2>6. CASE ReleaseNothing(h)
    BY <2>6 DEF ReleaseNothing, IInv, TypeOK, WritesKeepLeases, LeaseStaysInRow, RowKeeps
  <2>7. CASE ReleaseSend(h)
    BY <2>7 DEF ReleaseSend, IInv, TypeOK, WritesKeepLeases, LeaseStaysInRow, RowKeeps
  <2>8. CASE ReleaseLands(h)
    BY <2>8, WriteMoves
       DEF ReleaseLands, IInv, TypeOK, WritesKeepLeases, LeaseStaysInRow, RowKeeps
  <2>9. CASE ReleaseFails(h)
    BY <2>9 DEF ReleaseFails, IInv, TypeOK, WritesKeepLeases, LeaseStaysInRow, RowKeeps
  <2>. QED
    BY <1>2, <2>1, <2>2, <2>3, <2>4, <2>5, <2>6, <2>7, <2>8, <2>9 DEF PinStep
<1>3. ASSUME NEW w \in Loaders, LoadStep(w) PROVE RowKeeps
  <2>1. CASE LoadRead(w)
    BY <2>1 DEF LoadRead, IInv, TypeOK, WritesKeepLeases, LeaseStaysInRow, RowKeeps
  <2>2. CASE PublishSend(w)
    BY <2>2 DEF PublishSend, IInv, TypeOK, WritesKeepLeases, LeaseStaysInRow, RowKeeps
  <2>3. CASE PublishFails(w)
    BY <2>3 DEF PublishFails, IInv, TypeOK, WritesKeepLeases, LeaseStaysInRow, RowKeeps
  <2>4. CASE PublishLands(w)
    BY <2>4, PublishMoves DEF PublishLands, IInv, WritesKeepLeases, RowKeeps
  <2>5. CASE CollectRead(w)
    BY <2>5 DEF CollectRead, IInv, TypeOK, WritesKeepLeases, LeaseStaysInRow, RowKeeps
  <2>6. CASE CollectCheck(w)
    BY <2>6 DEF CollectCheck, IInv, TypeOK, WritesKeepLeases, LeaseStaysInRow, RowKeeps
  <2>7. CASE CollectSpares(w)
    BY <2>7 DEF CollectSpares, IInv, TypeOK, WritesKeepLeases, LeaseStaysInRow, RowKeeps
  <2>8. CASE CollectDelete(w)
    BY <2>8 DEF CollectDelete, IInv, TypeOK, WritesKeepLeases, LeaseStaysInRow, RowKeeps
  <2>. QED
    BY <1>3, <2>1, <2>2, <2>3, <2>4, <2>5, <2>6, <2>7, <2>8 DEF LoadStep
<1>4. QED
  BY <1>1, <1>2, <1>3 DEF Next

(* A write is sent with every lease that is held.                          *)
LEMMA SendsKeepHeld ==
    ASSUME IInv, Next
    PROVE  SendsKeep
<1>1. CASE Tick
  BY <1>1
     DEF Tick, IInv, TypeOK, PinState, LoadState, WritesKeepLeases, SendsKeep, SendKeeps, Unpinned, Unloaded
<1>2. ASSUME NEW h \in Readers, PinStep(h) PROVE SendsKeep
  <2>1. CASE Pin(h)
    BY <2>1
       DEF Pin, IInv, TypeOK, PinState, LoadState, WritesKeepLeases, SendsKeep, SendKeeps, Unpinned, Unloaded
  <2>2. CASE PinRead(h)
    BY <2>2
       DEF PinRead, IInv, TypeOK, PinState, LoadState, WritesKeepLeases, SendsKeep, SendKeeps, Unpinned, Unloaded
  <2>3. CASE TakeSend(h)
    <3>1. SUFFICES ASSUME NEW g \in Readers, Holds(g), Holds(g)'
                   PROVE  SendKeeps(g)
      BY DEF SendsKeep
    <3>2. LeaseOf(g) \in LiveLeases(row, Clock(h))
      BY <3>1, HeldIsLive DEF Processes
    <3>3. pin[h].row.version = row.version =>
            LeaseOf(g) \in {e \in LiveLeases(pin[h].row, Clock(h)) : e.holder # h}
      BY <2>3, <3>1, <3>2 DEF TakeSend, Holds, LeaseOf, IInv, TypeOK, PinState, CopiesAreOld, IsOld
    <3>4. QED
      BY <2>3, <3>1, <3>3 DEF TakeSend, IInv, TypeOK, PinState, LoadState, WritesKeepLeases, SendKeeps
  <2>4. CASE TakeLands(h)
    BY <2>4
       DEF TakeLands, IInv, TypeOK, PinState, LoadState, WritesKeepLeases, SendsKeep, SendKeeps, Unpinned, Unloaded
  <2>5. CASE TakeFails(h)
    BY <2>5
       DEF TakeFails, IInv, TypeOK, PinState, LoadState, WritesKeepLeases, SendsKeep, SendKeeps, Unpinned, Unloaded
  <2>6. CASE ReleaseNothing(h)
    BY <2>6
       DEF ReleaseNothing, IInv, TypeOK, PinState, LoadState, WritesKeepLeases, SendsKeep, SendKeeps, Unpinned, Unloaded
  <2>7. CASE ReleaseSend(h)
    <3>1. SUFFICES ASSUME NEW g \in Readers, Holds(g), Holds(g)'
                   PROVE  SendKeeps(g)
      BY DEF SendsKeep
    <3>2. LeaseOf(g) \in LiveLeases(row, Clock(h))
      BY <3>1, HeldIsLive DEF Processes
    <3>3. LeaseOf(g) \in {e \in LiveLeases(row, Clock(h)) : e.holder # h} 
      BY <2>7, <3>1, <3>2 DEF ReleaseSend, Holds, LeaseOf, IInv, TypeOK, PinState, CopiesAreOld, IsOld
    <3>4. QED
      BY <2>7, <3>1, <3>3 DEF ReleaseSend, IInv, TypeOK, PinState, LoadState, WritesKeepLeases, SendKeeps
  <2>8. CASE ReleaseLands(h)
    BY <2>8
       DEF ReleaseLands, IInv, TypeOK, PinState, LoadState, WritesKeepLeases, SendsKeep, SendKeeps, Unpinned, Unloaded
  <2>9. CASE ReleaseFails(h)
    BY <2>9
       DEF ReleaseFails, IInv, TypeOK, PinState, LoadState, WritesKeepLeases, SendsKeep, SendKeeps, Unpinned, Unloaded
  <2>. QED
    BY <1>2, <2>1, <2>2, <2>3, <2>4, <2>5, <2>6, <2>7, <2>8, <2>9 DEF PinStep
<1>3. ASSUME NEW w \in Loaders, LoadStep(w) PROVE SendsKeep
  <2>1. CASE LoadRead(w)
    BY <2>1
       DEF LoadRead, IInv, TypeOK, PinState, LoadState, WritesKeepLeases, SendsKeep, SendKeeps, Unpinned, Unloaded
  <2>2. CASE PublishSend(w)
    <3>1. SUFFICES ASSUME NEW g \in Readers, Holds(g), Holds(g)'
                   PROVE  SendKeeps(g)
      BY DEF SendsKeep
    <3>2. LeaseOf(g) \in LiveLeases(row, Clock(w))
      BY <3>1, HeldIsLive DEF Processes
    <3>3. load[w].row.version = row.version =>
            LeaseOf(g) \in LiveLeases(load[w].row, Clock(w))
      BY <2>2, <3>1, <3>2 DEF PublishSend, Holds, LeaseOf, IInv, TypeOK, PinState, CopiesAreOld, IsOld
    <3>4. QED
      BY <2>2, <3>1, <3>3 DEF PublishSend, IInv, TypeOK, PinState, LoadState, WritesKeepLeases, SendKeeps
  <2>3. CASE PublishFails(w)
    BY <2>3
       DEF PublishFails, IInv, TypeOK, PinState, LoadState, WritesKeepLeases, SendsKeep, SendKeeps, Unpinned, Unloaded
  <2>4. CASE PublishLands(w)
    BY <2>4
       DEF PublishLands, IInv, TypeOK, PinState, LoadState, WritesKeepLeases, SendsKeep, SendKeeps, Unpinned, Unloaded
  <2>5. CASE CollectRead(w)
    BY <2>5
       DEF CollectRead, IInv, TypeOK, PinState, LoadState, WritesKeepLeases, SendsKeep, SendKeeps, Unpinned, Unloaded
  <2>6. CASE CollectCheck(w)
    BY <2>6
       DEF CollectCheck, IInv, TypeOK, PinState, LoadState, WritesKeepLeases, SendsKeep, SendKeeps, Unpinned, Unloaded
  <2>7. CASE CollectSpares(w)
    BY <2>7
       DEF CollectSpares, IInv, TypeOK, PinState, LoadState, WritesKeepLeases, SendsKeep, SendKeeps, Unpinned, Unloaded
  <2>8. CASE CollectDelete(w)
    BY <2>8
       DEF CollectDelete, IInv, TypeOK, PinState, LoadState, WritesKeepLeases, SendsKeep, SendKeeps, Unpinned, Unloaded
  <2>. QED
    BY <1>3, <2>1, <2>2, <2>3, <2>4, <2>5, <2>6, <2>7, <2>8 DEF LoadStep
<1>4. QED
  BY <1>1, <1>2, <1>3 DEF Next

(* A write that can still land still carries every lease that is held: a  *)
(* write computed before the row moved cannot land.                        *)
LEMMA WritesStillKeep ==
    ASSUME IInv, Next
    PROVE  WritesKeepLeases'
<1>1. SUFFICES ASSUME NEW h \in Readers, Holds(h)'
               PROVE  /\ \A q \in Readers :
                            pin'[q].pc \in {"taking", "releasing"} /\ pin'[q].row.version = row'.version
                               => LeaseOf(h)' \in pin'[q].leases
                      /\ \A w \in Loaders :
                            load'[w].pc = "publishing" /\ load'[w].row.version = row'.version
                               => LeaseOf(h)' \in load'[w].leases
  BY DEF WritesKeepLeases
<1>2. row \in Row /\ FirstRow \in Row /\ RowAdvances /\ CopiesFollow
  BY RowMoves, CopyMoves, ConstantTypes DEF IInv, TypeOK
<1>3. CASE row' = row
  <2>1. ~TakeLands(h)
    BY <1>2, <1>3, WriteMoves DEF TakeLands
  <2>2. Holds(h) /\ LeaseOf(h)' = LeaseOf(h)
    BY <1>1, <2>1, HoldsSince DEF HeldBefore, LeaseOf
  <2>3. QED
    BY <1>1, <1>3, <2>2, SendsKeepHeld DEF SendsKeep, SendKeeps
<1>4. CASE row' # row
  <2>1. /\ row'.version = row.version + 1 /\ row.version \in Nat
        /\ FirstRow.version <= row.version /\ FirstRow.version \in Nat
    BY <1>2, <1>4, ConstantTypes DEF RowAdvances, IInv, CopiesAreOld, IsOld
  <2>2. \A q \in Readers : pin[q].row.version <= row.version /\ pin[q].row.version \in Nat
    BY ConstantTypes DEF IInv, TypeOK, PinState, CopiesAreOld, IsOld
  <2>3. \A w \in Loaders : load[w].row.version <= row.version /\ load[w].row.version \in Nat
    BY ConstantTypes DEF IInv, TypeOK, LoadState, CopiesAreOld, IsOld
  <2>4. /\ \A q \in Readers : pin'[q].row.version # row'.version
        /\ \A w \in Loaders : load'[w].row.version # row'.version
    BY <1>2, <2>1, <2>2, <2>3 DEF CopiesFollow
  <2>5. QED
    BY <2>4
<1>5. QED
  BY <1>3, <1>4

(* A held lease stays in the row.                                          *)
LEMMA LeaseStillInRow ==
    ASSUME IInv, Next
    PROVE  LeaseStaysInRow'
<1>1. SUFFICES ASSUME NEW h \in Readers, Holds(h)'
               PROVE  LeaseOf(h)' \in row'.leases
  BY DEF LeaseStaysInRow
<1>2. CASE Holds(h) /\ pin'[h] = pin[h]
  BY <1>2, RowKeepsHeld DEF RowKeeps, LeaseOf
<1>3. CASE TakeLands(h)
  <2>1. row'.leases = pin[h].leases
    BY <1>3, WriteMoves DEF TakeLands, IInv, TypeOK
  <2>2. LeaseOf(h) \in pin[h].leases
    BY <1>3 DEF TakeLands, IInv, PinIsBounded
  <2>3. LeaseOf(h)' = LeaseOf(h)
    BY <1>3 DEF TakeLands, LeaseOf, IInv, TypeOK, PinState
  <2>4. QED
    BY <2>1, <2>2, <2>3
<1>4. QED
  BY <1>1, <1>2, <1>3, HoldsSince DEF HeldBefore

(* The pointer's generation is the one a lease is taken on.                *)
LEMMA TakenIsCurrent ==
    ASSUME IInv, NEW h \in Readers, TakeLands(h)
    PROVE  /\ pin'[h].generation = row.currentGen
           /\ load' = load /\ stored' = stored
BY DEF TakeLands, WriteLeases, IInv, TypeOK, PinState, PinIsBounded, CopiesAreOld, IsOld

(* No choice of a collector falls on a lease that is held.                *)
LEMMA ChoicesSpareHeld ==
    ASSUME IInv, Next
    PROVE  ChoicesSpare
<1>1. CASE Tick
  BY <1>1 DEF Tick, IInv, TypeOK, LoadState, CollectorsSpare, ChoicesSpare, Unloaded
<1>2. ASSUME NEW h \in Readers, PinStep(h) PROVE ChoicesSpare
  <2>1. CASE Pin(h)
    BY <2>1 DEF Pin, IInv, TypeOK, LoadState, CollectorsSpare, ChoicesSpare, Unloaded
  <2>2. CASE PinRead(h)
    BY <2>2 DEF PinRead, IInv, TypeOK, LoadState, CollectorsSpare, ChoicesSpare, Unloaded
  <2>3. CASE TakeSend(h)
    BY <2>3 DEF TakeSend, IInv, TypeOK, LoadState, CollectorsSpare, ChoicesSpare, Unloaded
  <2>4. CASE TakeLands(h)
    BY <2>4
       DEF TakeLands, IInv, TypeOK, LoadState, CollectorsSpare, ChoicesSpare, Unloaded
  <2>5. CASE TakeFails(h)
    BY <2>5
       DEF TakeFails, IInv, TypeOK, LoadState, CollectorsSpare, ChoicesSpare, Unloaded
  <2>6. CASE ReleaseNothing(h)
    BY <2>6
       DEF ReleaseNothing, IInv, TypeOK, LoadState, CollectorsSpare, ChoicesSpare, Unloaded
  <2>7. CASE ReleaseSend(h)
    BY <2>7
       DEF ReleaseSend, IInv, TypeOK, LoadState, CollectorsSpare, ChoicesSpare, Unloaded
  <2>8. CASE ReleaseLands(h)
    BY <2>8
       DEF ReleaseLands, IInv, TypeOK, LoadState, CollectorsSpare, ChoicesSpare, Unloaded
  <2>9. CASE ReleaseFails(h)
    BY <2>9
       DEF ReleaseFails, IInv, TypeOK, LoadState, CollectorsSpare, ChoicesSpare, Unloaded
  <2>. QED
    BY <1>2, <2>1, <2>2, <2>3, <2>4, <2>5, <2>6, <2>7, <2>8, <2>9 DEF PinStep
<1>3. ASSUME NEW w \in Loaders, LoadStep(w) PROVE ChoicesSpare
  <2>1. CASE LoadRead(w)
    BY <2>1 DEF LoadRead, IInv, TypeOK, LoadState, CollectorsSpare, ChoicesSpare, Unloaded
  <2>2. CASE PublishSend(w)
    BY <2>2
       DEF PublishSend, IInv, TypeOK, LoadState, CollectorsSpare, ChoicesSpare, Unloaded
  <2>3. CASE PublishFails(w)
    BY <2>3
       DEF PublishFails, IInv, TypeOK, LoadState, CollectorsSpare, ChoicesSpare, Unloaded
  <2>4. CASE PublishLands(w)
    BY <2>4
       DEF PublishLands, IInv, TypeOK, LoadState, CollectorsSpare, ChoicesSpare, Unloaded
  <2>5. CASE CollectRead(w)
    BY <2>5, HeldIsLive
       DEF CollectRead, IInv, TypeOK, LoadState, CollectorsSpare, ChoicesSpare, Unloaded, LeaseStaysInRow
  <2>6. CASE CollectCheck(w)
    <3>1. PICK g \in Gens \ HeldGenerations(load[w].row, Clock(w)) :
             /\ g < load[w].row.currentGen
             /\ load' = [load EXCEPT ![w] = [Unloaded EXCEPT !.pc = "delete", !.doomed = g]]
      BY <2>6 DEF CollectCheck
    <3>2. g \in Nat /\ load[w].row.currentGen \in Nat
      BY <3>1, ConstantTypes, LeasesAssumption DEF IInv, TypeOK, LoadState, Gens
    <3>3. ASSUME NEW h \in Readers, Holds(h) PROVE pin[h].generation # g
      <4>1. CASE pin[h].generation >= load[w].row.currentGen
        BY <3>1, <3>2, <4>1
      <4>2. CASE LeaseOf(h) \in load[w].row.leases
        <5>1. IsLive(LeaseOf(h), Clock(w))
          BY <3>3, HeldIsLive DEF Processes
        <5>2. pin[h].generation \in HeldGenerations(load[w].row, Clock(w))
          BY <4>2, <5>1 DEF HeldGenerations, LiveLeases, LeaseOf
        <5>3. QED
          BY <3>1, <5>2
      <4>3. QED
        BY <2>6, <3>3, <4>1, <4>2 DEF CollectCheck, IInv, CollectorsSpare
    <3>4. QED
      BY <3>1, <3>3 DEF IInv, TypeOK, LoadState, CollectorsSpare, ChoicesSpare, Unloaded
  <2>7. CASE CollectSpares(w)
    BY <2>7
       DEF CollectSpares, IInv, TypeOK, LoadState, CollectorsSpare, ChoicesSpare, Unloaded
  <2>8. CASE CollectDelete(w)
    BY <2>8
       DEF CollectDelete, IInv, TypeOK, LoadState, CollectorsSpare, ChoicesSpare, Unloaded
  <2>. QED
    BY <1>3, <2>1, <2>2, <2>3, <2>4, <2>5, <2>6, <2>7, <2>8 DEF LoadStep
<1>4. QED
  BY <1>1, <1>2, <1>3 DEF Next

(* No step deletes a generation under a lease that is held.                *)
LEMMA StoredKeepsHeld ==
    ASSUME IInv, Next
    PROVE  StoredKeeps
<1>1. CASE Tick
  BY <1>1
     DEF Tick, IInv, TypeOK, LoadState, CollectorsSpare, LeasedGenerationStays, StoredKeeps
<1>2. ASSUME NEW h \in Readers, PinStep(h) PROVE StoredKeeps
  <2>1. CASE Pin(h)
    BY <2>1
       DEF Pin, IInv, TypeOK, LoadState, CollectorsSpare, LeasedGenerationStays, StoredKeeps
  <2>2. CASE PinRead(h)
    BY <2>2
       DEF PinRead, IInv, TypeOK, LoadState, CollectorsSpare, LeasedGenerationStays, StoredKeeps
  <2>3. CASE TakeSend(h)
    BY <2>3
       DEF TakeSend, IInv, TypeOK, LoadState, CollectorsSpare, LeasedGenerationStays, StoredKeeps
  <2>4. CASE TakeLands(h)
    BY <2>4
       DEF TakeLands, IInv, TypeOK, LoadState, CollectorsSpare, LeasedGenerationStays, StoredKeeps
  <2>5. CASE TakeFails(h)
    BY <2>5
       DEF TakeFails, IInv, TypeOK, LoadState, CollectorsSpare, LeasedGenerationStays, StoredKeeps
  <2>6. CASE ReleaseNothing(h)
    BY <2>6
       DEF ReleaseNothing, IInv, TypeOK, LoadState, CollectorsSpare, LeasedGenerationStays, StoredKeeps
  <2>7. CASE ReleaseSend(h)
    BY <2>7
       DEF ReleaseSend, IInv, TypeOK, LoadState, CollectorsSpare, LeasedGenerationStays, StoredKeeps
  <2>8. CASE ReleaseLands(h)
    BY <2>8
       DEF ReleaseLands, IInv, TypeOK, LoadState, CollectorsSpare, LeasedGenerationStays, StoredKeeps
  <2>9. CASE ReleaseFails(h)
    BY <2>9
       DEF ReleaseFails, IInv, TypeOK, LoadState, CollectorsSpare, LeasedGenerationStays, StoredKeeps
  <2>. QED
    BY <1>2, <2>1, <2>2, <2>3, <2>4, <2>5, <2>6, <2>7, <2>8, <2>9 DEF PinStep
<1>3. ASSUME NEW w \in Loaders, LoadStep(w) PROVE StoredKeeps
  <2>1. CASE LoadRead(w)
    BY <2>1
       DEF LoadRead, IInv, TypeOK, LoadState, CollectorsSpare, LeasedGenerationStays, StoredKeeps
  <2>2. CASE PublishSend(w)
    BY <2>2
       DEF PublishSend, IInv, TypeOK, LoadState, CollectorsSpare, LeasedGenerationStays, StoredKeeps
  <2>3. CASE PublishFails(w)
    BY <2>3
       DEF PublishFails, IInv, TypeOK, LoadState, CollectorsSpare, LeasedGenerationStays, StoredKeeps
  <2>4. CASE PublishLands(w)
    BY <2>4
       DEF PublishLands, IInv, TypeOK, LoadState, CollectorsSpare, LeasedGenerationStays, StoredKeeps
  <2>5. CASE CollectRead(w)
    BY <2>5
       DEF CollectRead, IInv, TypeOK, LoadState, CollectorsSpare, LeasedGenerationStays, StoredKeeps
  <2>6. CASE CollectCheck(w)
    BY <2>6
       DEF CollectCheck, IInv, TypeOK, LoadState, CollectorsSpare, LeasedGenerationStays, StoredKeeps
  <2>7. CASE CollectSpares(w)
    BY <2>7
       DEF CollectSpares, IInv, TypeOK, LoadState, CollectorsSpare, LeasedGenerationStays, StoredKeeps
  <2>8. CASE CollectDelete(w)
    BY <2>8
       DEF CollectDelete, IInv, TypeOK, LoadState, CollectorsSpare, LeasedGenerationStays, StoredKeeps
  <2>. QED
    BY <1>3, <2>1, <2>2, <2>3, <2>4, <2>5, <2>6, <2>7, <2>8 DEF LoadStep
<1>4. QED
  BY <1>1, <1>2, <1>3 DEF Next

(* No collector has chosen a generation under a lease: one taken since    *)
(* is on the pointer, above everything chosen.                             *)
LEMMA CollectorsStillSpare ==
    ASSUME IInv, Next
    PROVE  CollectorsSpare'
<1>1. SUFFICES ASSUME NEW h \in Readers, NEW w \in Loaders, Holds(h)'
               PROVE  /\ load'[w].pc = "judge" =>
                            \/ pin'[h].generation >= load'[w].row.currentGen
                            \/ LeaseOf(h)' \in load'[w].row.leases
                      /\ load'[w].pc = "delete" => pin'[h].generation # load'[w].doomed
  BY DEF CollectorsSpare
<1>2. CASE Holds(h) /\ pin'[h] = pin[h]
  BY <1>2, ChoicesSpareHeld DEF ChoicesSpare, LeaseOf
<1>3. CASE TakeLands(h)
  <2>1. pin'[h].generation = row.currentGen /\ load' = load
    BY <1>3, TakenIsCurrent
  <2>2. load[w].row.currentGen \in Nat /\ row.currentGen \in Nat /\ load[w].doomed \in Nat
    BY ConstantTypes, LeasesAssumption DEF IInv, TypeOK, LoadState, Gens
  <2>3. QED
    BY <2>1, <2>2 DEF IInv, LoadIsBounded
<1>4. QED
  BY <1>1, <1>2, <1>3, HoldsSince DEF HeldBefore

(* A leased generation stays in the bucket.                                *)
LEMMA LeasedStillStored ==
    ASSUME IInv, Next
    PROVE  LeasedGenerationStays'
<1>1. SUFFICES ASSUME NEW h \in Readers, Holds(h)'
               PROVE  pin'[h].generation \in stored'
  BY DEF LeasedGenerationStays
<1>2. CASE Holds(h) /\ pin'[h] = pin[h]
  BY <1>2, StoredKeepsHeld DEF StoredKeeps
<1>3. CASE TakeLands(h)
  BY <1>3, TakenIsCurrent DEF IInv, CurrentIsStored
<1>4. QED
  BY <1>1, <1>2, <1>3, HoldsSince DEF HeldBefore

(* Every step of the specification keeps the inductive invariant.          *)
THEOREM StepPreserves == IInv /\ [Next]_vars => IInv'
<1>1. ASSUME IInv, Next PROVE IInv'
  BY <1>1, TypePreserved, CopiesStayOld, PinStaysBounded, LoadStaysBounded, CurrentStaysStored,
     WritesStillKeep, CollectorsStillSpare, LeaseStillInRow, LeasedStillStored DEF IInv
<1>2. ASSUME IInv, UNCHANGED vars PROVE IInv'
  BY <1>2 DEF IInv, vars, TypeOK, CopiesAreOld, IsOld, PinIsBounded, LoadIsBounded,
     CurrentIsStored, WritesKeepLeases, CollectorsSpare, LeaseStaysInRow,
     LeasedGenerationStays, Holds, LeaseOf, Clock
<1>3. QED
  BY <1>1, <1>2

(* IInv holds throughout every behaviour.                                  *)
LEMMA Inductive == Spec => []IInv
BY InitEstablishes, StepPreserves, PTL DEF Spec

(* The row, the bucket and the processes' states keep their types, for     *)
(* any processes, clocks, margin and bounds.                               *)
THEOREM TypesHold == Spec => []TypeOK
<1>1. IInv => TypeOK
  BY DEF IInv
<1>2. QED
  BY <1>1, Inductive, PTL

(* A leased pin can read its generation until its own clock ends the       *)
(* lease: no collection of any load deletes it, as long as any two clocks  *)
(* differ by at most the margin (isLive, stillCollectable).                *)
THEOREM LeaseHoldsGeneration == Spec => []LeasedGenerationStays
<1>1. IInv => LeasedGenerationStays
  BY DEF IInv
<1>2. QED
  BY <1>1, Inductive, PTL

(* No publish, take or release drops the lease from the row before that    *)
(* (leasesPatch, takeLease, releaseLease).                                 *)
THEOREM LeaseHoldsInRow == Spec => []LeaseStaysInRow
<1>1. IInv => LeaseStaysInRow
  BY DEF IInv
<1>2. QED
  BY <1>1, Inductive, PTL
=============================================================================
