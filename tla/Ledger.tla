------------------------------- MODULE Ledger -------------------------------
(***************************************************************************)
(* The ledger of a registry row: the generations the row knows it made     *)
(* current, in the order they last became so, the current one last         *)
(* (known-generations.ts).  An entry is [generation, footerCrc]; footerCrc *)
(* stands for the object the entry vouches for.  Everything here is a pure *)
(* function of a row's fields.                                             *)
(***************************************************************************)
EXTENDS Integers, Sequences, FiniteSets

CONSTANTS
    MaxKept,    \* MAX_KEPT_GENERATIONS (64): the widest window collected by name
    KnownFill,  \* KNOWN_FILL (128): how far a write fills a ledger it must cut
    MaxKnown,   \* MAX_KNOWN_GENERATIONS (192): the most entries a write leaves
    KnownSpan   \* KNOWN_SPAN (127): the most entries below the pointer it vouches for

ASSUME LedgerAssumption ==
    /\ {MaxKept, KnownFill, MaxKnown, KnownSpan} \subseteq Nat
    /\ KnownSpan < KnownFill
    /\ KnownFill <= MaxKnown

NoGen == -1  \* currentGen: null
NoBound == -1  \* keep: undefined

Generations(known) == {known[i].generation : i \in DOMAIN known}

(* The elements of a sequence at the positions I, in their order.          *)
EntriesAt(s, I) ==
    LET rank(i) == Cardinality({j \in I : j <= i})
    IN  [k \in 1..Cardinality(I) |-> s[CHOOSE i \in I : rank(i) = k]]

(* F(x, y), with x and y bound to their values first: under ENABLED TLC     *)
(* evaluates an argument again at every use of it.                         *)
Of(x, y, F(_, _)) == CHOOSE r \in {F(v, w) : v \in {x}, w \in {y}} : TRUE

Where(known, S) ==
    Of(known, S, LAMBDA s, T : EntriesAt(s, {i \in DOMAIN s : s[i].generation \in T}))

Below(known, g) == {h \in Generations(known) : h < g}

(* Mutant: newest by number, as if no rollback had reordered them.         *)
HighestOf(known, S, n) ==
    {g \in Generations(known) \cap S :
        Cardinality({h \in Generations(known) \cap S : h > g}) < n}

(* The generations of S that come last in the ledger, at most n of them.  *)
NewestOf(known, S, n) ==
    {known[i].generation : i \in
        {j \in DOMAIN known :
            /\ known[j].generation \in S
            /\ Cardinality({k \in DOMAIN known :
                               k > j /\ known[k].generation \in S}) < n}}

(* A ledger is usable only under an active row's pointer, and only when    *)
(* its last entry is that pointer over the object the summary describes.   *)
UsableKnownGens(row) ==
    IF /\ row.status = "active"
       /\ row.currentGen # NoGen
       /\ row.knownGens # <<>>
       /\ row.knownGens[Len(row.knownGens)].generation = row.currentGen
       /\ \/ row.summary.generation # row.currentGen
          \/ row.summary.sealed
          \/ row.summary.footerCrc = row.knownGens[Len(row.knownGens)].footerCrc
    THEN row.knownGens
    ELSE <<>>

WindowOf(row) == Below(UsableKnownGens(row), row.currentGen)

CarriesWindow(row, leased) ==
    /\ UsableKnownGens(row) # <<>>
    /\ Cardinality(WindowOf(row) \ leased) <= MaxKept

(* Of the listed generations below a new pointer, the ones to keep: the    *)
(* superseded one first, then the highest numbers.                         *)
KeptWindow(below, superseded, keep) ==
    LET first == {g \in below : keep > 0 /\ g = superseded}
        room  == keep - Cardinality(first)
    IN  first \cup {g \in below \ first :
                       Cardinality({h \in below \ first : h > g}) < room}

(* Cut a ledger to its protected entries, its newest leased ones up to     *)
(* MaxKnown, and its newest others up to KnownFill.                        *)
CapKnown(known, protect, leased) ==
    LET must   == Generations(known) \cap protect
        held   == must \cup NewestOf(known, (Generations(known) \cap leased) \ must,
                                     MaxKnown - Cardinality(must))
        filled == held \cup NewestOf(known, Generations(known) \ held,
                                     KnownFill - Cardinality(held))
    IN  Where(known, filled)

(* As CapKnown, for an entry a rollback inserts: the unleased entries fill *)
(* up to KnownFill first, and leased ones take what room is left.          *)
CapInsert(known, protect, leased) ==
    LET must   == Generations(known) \cap protect
        plain  == must \cup NewestOf(known, Generations(known) \ (must \cup leased),
                                     KnownFill - Cardinality(must \ leased))
        held   == plain \cup NewestOf(known, (Generations(known) \cap leased) \ plain,
                                      MaxKnown - Cardinality(plain))
    IN  Where(known, held)

(* Mutant: the entry is appended, and its old place kept.                  *)
MakeCurrentTwice(known, entry) == Append(known, entry)

MakeCurrent(known, entry) ==
    Append(Where(known, Generations(known) \ {entry.generation}), entry)

(* Mutant: a leased generation that leaves the window leaves the ledger.   *)
NextLedgerUnleased(prev, self, keep, leased) ==
    LET all   == UsableKnownGens(prev)
        span  == IF keep = NoBound \/ keep > KnownSpan THEN KnownSpan ELSE keep
        vouch == NewestOf(all, Below(all, self.generation), span)
        above == {g \in Generations(all) : g > self.generation}
    IN  CapKnown(Append(Where(all, vouch \cup above), self), vouch \cup {self.generation}, {})

(* What a publish of `self` leaves in the ledger: the newest KnownSpan     *)
(* entries below it, at most `keep`; the older leased ones; and those a    *)
(* rollback left above.  Nothing is vouched for when the row has a pointer *)
(* and no usable ledger.                                                   *)
NextLedger(prev, self, keep, leased) ==
    LET all   == UsableKnownGens(prev)
        below == Below(all, self.generation)
        span  == IF keep = NoBound \/ keep > KnownSpan THEN KnownSpan ELSE keep
        vouch == NewestOf(all, below, span)
        above == {g \in Generations(all) : g > self.generation}
    IN  IF all = <<>>
        THEN <<self>>
        ELSE Of(Append(Where(all, vouch \cup above \cup (below \cap leased)), self), vouch,
                LAMBDA known, fresh : CapKnown(known, fresh \cup {self.generation}, leased))

(* What a publish leaves that read a first window from the bucket.         *)
SeededLedger(seed, self, leased) ==
    LET rest == Where(seed, Generations(seed) \ {self.generation})
    IN  CapKnown(Append(rest, self), Generations(rest) \cup {self.generation}, leased)

(* The publish tells the collection what to evict by name only when the    *)
(* row it replaced carried a window of at most MaxKept.                    *)
CollectsByName(prev, keep, leased) ==
    /\ keep # NoBound /\ keep <= MaxKept
    /\ \/ prev.currentGen = NoGen
       \/ CarriesWindow(prev, leased)

NotByName == [byName |-> FALSE, list |-> {}, evict |-> {}]

(* What a publish leaves its collection: the window below the new pointer, *)
(* and what it dropped from the ledger there.                              *)
Kept(prev, self, keep, leased) ==
    LET window == Below(NextLedger(prev, self, keep, leased), self.generation)
    IN  IF CollectsByName(prev, keep, leased)
        THEN [byName |-> TRUE, list |-> window,
              evict |-> Below(UsableKnownGens(prev), self.generation) \ window]
        ELSE [byName |-> FALSE, list |-> {}, evict |-> {}]

(* Mutant: the ledger keeps its order, and the pointer is no longer last.  *)
RollbackKnownInPlace(prev, target) == UsableKnownGens(prev)

(* What a rollback onto `target` leaves: its entry moved last.             *)
RollbackKnown(prev, target) ==
    LET found == UsableKnownGens(prev)
        moved == MakeCurrent(found, target)
    IN  IF found = <<>>
        THEN <<>>
        ELSE IF target.generation \in Generations(found) /\ Len(moved) <= MaxKnown
             THEN moved
             ELSE CapInsert(moved, {target.generation, prev.currentGen}, prev.leases)

(* An erasure takes what it will delete out of the ledger, the pointer     *)
(* never.                                                                  *)
PruneKnown(row, doomed) ==
    LET found == UsableKnownGens(row)
        rest  == Where(found, Generations(found) \ (doomed \ {row.currentGen}))
    IN  IF Len(rest) <= MaxKnown THEN rest ELSE CapKnown(rest, {row.currentGen}, row.leases)

DescribingKnown(row, movedTo) ==
    LET found == UsableKnownGens(row)
    IN  IF Len(found) <= MaxKnown
        THEN found
        ELSE CapKnown(found, {row.currentGen, movedTo}, row.leases)

IsFullLedger(known) == Len(known) >= KnownFill

(* The oldest entry no lease holds: below it a full ledger says nothing.   *)
FallbackBound(row, known) ==
    LET free == {i \in DOMAIN known : known[i].generation \notin row.leases}
    IN  known[IF free = {} THEN 1 ELSE CHOOSE i \in free : \A j \in free : i <= j].generation
=============================================================================
