------------------------------- MODULE EraseId -------------------------------
(***************************************************************************)
(* The erasure of one id from a segment (erase-id.ts): rewrite the current *)
(* generation without it, or find it in the others and delete those, under *)
(* one write of the row that refuses whatever was under way, and say       *)
(* "erased" only after reading what is left.  It runs here beside loads    *)
(* and their collections, rollbacks, other erasures and the operations of  *)
(* one request.                                                            *)
(*                                                                         *)
(* An eraser stands for the id it erases.  An object is read at once, and  *)
(* the reads of one search follow each other, newest first.                *)
(***************************************************************************)
EXTENDS Collect, Rollback

CONSTANTS
    Erasers,        \* the processes that erase an id, once each
    KeyedErasers,   \* those that hold a keystore
    Brings,         \* the ids each loader's input holds
    Starts,         \* the segments to start from, as SegmentOf reads them,
                    \* each with the sets of processes that act on it together
    Network,        \* among those: whatever settles a late write
    Stray,          \* a load that crashed before its publish
    FenceAttempts,  \* FENCE_ATTEMPTS (5)
    DiscardAttempts,  \* DISCARD_ATTEMPTS (8)
    MaxBusy         \* bound: the processes under way at once

ASSUME EraseIdAssumption ==
    /\ KeyedErasers \subseteq Erasers
    /\ Brings \in [Loaders -> SUBSET Erasers]
    /\ {FenceAttempts, DiscardAttempts} \subseteq Nat \ {0}

VARIABLES
    erase,  \* erase[e]: the state of e's one call
    stored, \* what the objects of Starts hold: generation -> ids
    cast    \* the processes that act in this behaviour

setting == <<stored, cast>>

eraseVars == <<loadVars, pass, roll, erase, setting>>

beside == <<load, pass, roll, setting>>

(* A rewrite's identity is the eraser and the ids it left in.              *)
RewriteBy(e, ids) == <<e, ids>>

Content(g) ==
    LET by == objects[g].by
    IN  IF by \in Loaders THEN Brings[by]
        ELSE IF by \in {Other, Stray} THEN stored[g]
        ELSE by[2]

Calm ==
    [pc |-> "start", rec |-> NoRow, premise |-> NoRow, read |-> [g \in Gens |-> None],
     holders |-> {}, todo |-> {}, found |-> FALSE, path |-> "rewrite",
     gen |-> NoGen, left |-> {}, kept |-> FALSE, reason |-> "none", row |-> NoRow,
     first |-> NoRow, resends |-> 0, churn |-> 0, lost |-> 0, attempts |-> 0, made |-> "none", names |-> {}, byName |-> {},
     moved |-> "none", past |-> FALSE, ledgered |-> TRUE, passes |-> 0, gone |-> {}, unread |-> FALSE,
     looks |-> 0, missing |-> FALSE, second |-> FALSE, writes |-> 0, listed |-> {}, ahead |-> {},
     result |-> "none"]

EraseBecomes(e, r) == erase' = [erase EXCEPT ![e] = r]

(* A call that finds a tombstone where it had found a live row runs once   *)
(* more, under it.                                                         *)
Answer(r, result) ==
    IF result = "destroyed" /\ ~r.second /\ r.rec.status # "destroyed"
    THEN [Calm EXCEPT !.second = TRUE, !.ahead = r.ahead, !.writes = r.writes]
    ELSE [Calm EXCEPT !.pc = "ended", !.result = result, !.gen = r.gen, !.ahead = r.ahead,
                      !.listed = r.listed]

From(r) == r.rec.currentGen

Tombstoned(r) == r.rec.status = "destroyed"

(* Whether the row still is the one the call goes on under: "none", or why *)
(* not.                                                                    *)
RowVerdict(r, now, ignored) ==
    IF now = NoRow THEN "absent"
    ELSE IF now.status = "destroyed" THEN "destroyed"
    ELSE IF /\ now.currentGen = From(r)
            /\ now.token = r.premise.token \/ OnlyLeasesDifferBut(r.premise, now, ignored)
    THEN "none" ELSE "superseded"

VerdictOr(verdict, default) == IF verdict = "none" THEN default ELSE verdict

-----------------------------------------------------------------------------
(* Reading objects.                                                        *)

(* Under a tombstone there is no key, and what is encrypted is not held.   *)
Searchable(r, object) == object.key \in {Clear} \cup (IF Tombstoned(r) THEN {} ELSE {r.rec.wrappedDeks})

(* What cannot be searched may hold any id.                                *)
Holds(e, r, g) ==
    IF Searchable(r, objects[g]) THEN e \in Content(g) ELSE ~Tombstoned(r)

Newest(S) == CHOOSE g \in S : \A h \in S : h <= g

(* One read of a search, of the newest generation left to read.            *)
Searched(e, r) ==
    LET g == Newest(r.todo)
        t == [r EXCEPT !.todo = @ \ {g}, !.read[g] = objects[g]]
    IN  IF objects[g] = None \/ ~Holds(e, r, g) THEN t
        ELSE [t EXCEPT !.holders = @ \cup {g}, !.found = @ \/ Searchable(r, objects[g])]

-----------------------------------------------------------------------------
(* The row, and the rewrite of the current generation.                     *)

Begin(e) ==
    LET r == [erase[e] EXCEPT !.rec = row, !.premise = row,
                              !.ahead = IF erase[e].second THEN @
                                        ELSE {p \in Loaders : load[p].pc # "start"}]
    IN  /\ r.pc = "start"
        /\ EraseBecomes(e,
             IF row = NoRow THEN Answer(r, "absent")
             ELSE IF row.status = "destroyed" THEN [r EXCEPT !.pc = "list", !.path = "tombstone"]
             ELSE IF row.wrappedDeks # Clear /\ e \notin KeyedErasers THEN Answer(r, "error")
             ELSE IF row.currentGen = NoGen THEN [r EXCEPT !.pc = "list", !.path = "unpublished"]
             ELSE [r EXCEPT !.pc = "open"])
        /\ UNCHANGED <<segment, beside>>

(* With a summary to hold it to, another object than the row names is gone.*)
Open(e) ==
    LET r         == erase[e]
        object    == objects[From(r)]
        described == DescribingSummary(r.rec)
        opened    == [r EXCEPT !.read[From(r)] = object]
    IN  /\ r.pc = "open"
        /\ EraseBecomes(e,
             IF object = None \/ (described # NoSummary /\ described.footerCrc # object.by)
             THEN [r EXCEPT !.pc = "gone"]
             ELSE IF object.key # r.rec.wrappedDeks THEN Answer(r, "error")
             ELSE IF e \in Content(From(r)) THEN [opened EXCEPT !.pc = "number"]
             ELSE [opened EXCEPT !.pc = "list", !.path = "others"])
        /\ UNCHANGED <<segment, beside>>

(* Above the pointer of the row as it is now, and everything then listed.  *)
NumberRewrite(e) ==
    /\ erase[e].pc = "number"
    /\ EraseBecomes(e, [erase[e] EXCEPT !.pc = "numberList", !.row = row])
    /\ UNCHANGED <<segment, beside>>

ListForNumber(e) ==
    LET r == erase[e]
    IN  /\ r.pc = "numberList"
        /\ \E g \in Gens :
              /\ g = Newest(Listed \cup {CurrentGenOf(r.row)}) + 1
              /\ EraseBecomes(e, [r EXCEPT !.pc = "write", !.gen = g, !.row = NoRow])
        /\ UNCHANGED <<segment, beside>>

(* The stream reads the source to its end, and commits what it wrote.      *)
CopySource(e) ==
    LET r == erase[e]
    IN  /\ r.pc = "write"
        /\ EraseBecomes(e, IF objects[From(r)] = r.read[From(r)]
                           THEN [r EXCEPT !.pc = "commit", !.left = Content(From(r)) \ {e}]
                           ELSE [r EXCEPT !.pc = "gone", !.gen = NoGen])
        /\ UNCHANGED <<segment, beside>>

CommitRewrite(e) ==
    LET r      == erase[e]
        object == [by |-> RewriteBy(e, r.left), key |-> r.read[From(r)].key]
    IN  /\ r.pc = "commit"
        /\ IF objects[r.gen] # None
           THEN EraseBecomes(e, [r EXCEPT !.pc = "lostNumber", !.gen = NoGen]) /\ UNCHANGED objects
           ELSE /\ objects' = [objects EXCEPT ![r.gen] = object]
                /\ EraseBecomes(e, [r EXCEPT !.pc = "early", !.read[r.gen] = object])
        /\ UNCHANGED <<row, inflight, landed, others, beside>>

LostNumber(e) ==
    /\ erase[e].pc = "lostNumber"
    /\ EraseBecomes(e, Answer(erase[e], VerdictOr(RowVerdict(erase[e], row, {}), "superseded")))
    /\ UNCHANGED <<segment, beside>>

(* Refused with an object of its own in the bucket.                        *)
Refused(r, verdict) ==
    IF r.gen = NoGen THEN Answer(r, verdict) ELSE [r EXCEPT !.pc = "discard", !.reason = verdict]

(* An object this call needs is gone: the row says why, or nothing does.   *)
SourceGone(e) ==
    LET r       == erase[e]
        verdict == RowVerdict(r, row, {})
    IN  /\ r.pc = "gone"
        /\ EraseBecomes(e, IF verdict = "none" THEN Answer(r, "error") ELSE Refused(r, verdict))
        /\ UNCHANGED <<segment, beside>>

ProveRewrite(e) ==
    LET r       == erase[e]
        verdict == RowVerdict(r, row, {"knownGens"})
    IN  /\ r.pc = "early"
        /\ EraseBecomes(e, IF verdict = "none" THEN [r EXCEPT !.pc = "verify"] ELSE Refused(r, verdict))
        /\ UNCHANGED <<segment, beside>>

VerifyRewrite(e) ==
    LET r == erase[e]
    IN  /\ r.pc = "verify"
        /\ EraseBecomes(e, IF objects[r.gen] = r.read[r.gen] THEN [r EXCEPT !.pc = "publish"]
                           ELSE IF objects[r.gen] = None THEN [r EXCEPT !.pc = "gone"]
                           ELSE Answer(r, "error"))
        /\ UNCHANGED <<segment, beside>>

WriteOf(e, r) == <<e, r.writes + 1>>

RewriteRequest(e, r) ==
    LET by    == r.read[r.gen].by
        entry == [generation |-> r.gen, footerCrc |-> by]
    IN  SwapOf(row,
               [currentGen |-> r.gen, leases |-> {},
                summary    |-> entry @@ [sealed |-> row.wrappedDeks # Clear],
                knownGens  |-> NextLedger(row, entry, 0, {})],
               WriteOf(e, r))

(* The fenced publish (Load, in full): it lands on the row that was read,  *)
(* its leases and its ledger aside, or never will; or it fails with its    *)
(* write unanswered.                                                       *)
PublishRewrite(e) ==
    LET r == erase[e]
    IN  /\ r.pc = "publish"
        /\ IF RowVerdict(r, row, {"knownGens"}) = "none"
           THEN \/ /\ Apply(RewriteRequest(e, r))
                   /\ EraseBecomes(e, [r EXCEPT !.pc = "collect"])
                   /\ UNCHANGED inflight
                \/ /\ inflight' = inflight \cup {RewriteRequest(e, r)}
                   /\ EraseBecomes(e, Answer(r, "error"))
                   /\ UNCHANGED <<row, landed>>
           ELSE /\ EraseBecomes(e, [r EXCEPT !.pc = "discard"])
                /\ UNCHANGED <<row, inflight, landed>>
        /\ UNCHANGED <<objects, others, beside>>

-----------------------------------------------------------------------------
(* A conditional write of the row and what becomes of it (rowRenewal):     *)
(* r.row is the row it is made over.  A write that loses reads the row; a  *)
(* change of leases, or of what `ignored` names, is waited out.            *)

WriteRow(e, patch, after(_)) ==
    LET r == [erase[e] EXCEPT !.writes = @ + 1]
        w == SwapOf(r.row, patch, WriteOf(e, erase[e]))
    IN  /\ r.made = "none"
        /\ \/ /\ IF Accepts(w)
                 THEN Apply(w) /\ EraseBecomes(e, after([r EXCEPT !.row = RowAfter(w)]))
                 ELSE EraseBecomes(e, [r EXCEPT !.made = "lost"]) /\ UNCHANGED <<row, landed>>
              /\ UNCHANGED inflight
           \/ /\ inflight' = inflight \cup {w}
              /\ EraseBecomes(e, [r EXCEPT !.made = "unanswered"])
              /\ UNCHANGED <<row, landed>>
        /\ UNCHANGED <<objects, others, beside>>

(* The read that settles it: a row as it was gets a request of its own.    *)
AskAfterWrite(e, ignored, lost(_)) ==
    LET r == erase[e]
    IN  /\ r.made \in {"lost", "unanswered"}
        /\ EraseBecomes(e,
             IF r.made = "unanswered" /\ SameRow(row, r.row)
             THEN IF r.resends < MaxResends
                  THEN [r EXCEPT !.made = "none", !.resends = @ + 1, !.row = row]
                  ELSE Answer(r, "error")
             ELSE IF row # NoRow /\ r.churn < MaxChurn /\ OnlyLeasesDifferBut(r.row, row, ignored)
             THEN [r EXCEPT !.made = "waited", !.churn = @ + 1]
             ELSE lost([r EXCEPT !.made = "none"]))
        /\ UNCHANGED <<segment, beside>>

-----------------------------------------------------------------------------
(* discardRefused: a refused rewrite that stands above the winner's        *)
(* pointer can hold an id the winner has reported gone.                    *)

Discarded(r, now) ==
    Answer(r, IF r.reason = "none" THEN VerdictOr(RowVerdict(r, now, {}), "superseded")
              ELSE r.reason)

(* Mutant: a refused rewrite is left where it is.                          *)
DiscardNothing(r, now) == Discarded(r, now)

DiscardFrom(r, now) ==
    IF now # NoRow /\ now.status = "destroyed" THEN [r EXCEPT !.pc = "discardNumber"]
    ELSE IF now # NoRow /\ From(r) < now.currentGen /\ now.currentGen < r.gen
    THEN [r EXCEPT !.pc = "discardProve", !.row = now]
    ELSE Discarded(r, now)

DiscardRead(e) ==
    /\ erase[e].pc = "discard"
    /\ EraseBecomes(e, DiscardFrom(erase[e], row))
    /\ UNCHANGED <<segment, beside>>

DiscardProve(e) ==
    LET r == erase[e]
    IN  /\ r.pc = "discardProve" /\ r.made = "none"
        /\ EraseBecomes(e, IF objects[r.gen] = r.read[r.gen] THEN [r EXCEPT !.pc = "discardRenew"]
                           ELSE Discarded(r, r.row))
        /\ UNCHANGED <<segment, beside>>

RenewPointer(now) == [currentGen |-> now.currentGen]

DiscardRenew(e) ==
    /\ erase[e].pc = "discardRenew"
    /\ WriteRow(e, RenewPointer(erase[e].row), LAMBDA r : [r EXCEPT !.pc = "discardOwn"])

(* A renewal that lost decides again by the row that won.                  *)
DiscardLost(r) ==
    IF r.attempts + 1 >= DiscardAttempts THEN [Discarded(r, row) EXCEPT !.kept = TRUE]
    ELSE DiscardFrom([r EXCEPT !.attempts = @ + 1], row)

DiscardAsk(e) == erase[e].pc = "discardRenew" /\ AskAfterWrite(e, {"pointerId"}, DiscardLost)

DiscardWaited(e) ==
    /\ erase[e].pc = "discardRenew" /\ erase[e].made = "waited"
    /\ EraseBecomes(e, DiscardFrom([erase[e] EXCEPT !.made = "none"], row))
    /\ UNCHANGED <<segment, beside>>

(* By number under a tombstone, else the object that was proved.           *)
DiscardDelete(e) ==
    LET r == erase[e]
    IN  /\ r.pc \in {"discardNumber", "discardOwn"}
        /\ objects' = IF r.pc = "discardNumber" \/ objects[r.gen] = r.read[r.gen]
                      THEN [objects EXCEPT ![r.gen] = None] ELSE objects
        /\ EraseBecomes(e, IF r.pc = "discardNumber" /\ r.reason = "none" THEN Answer(r, "destroyed")
                           ELSE Discarded(r, r.row))
        /\ UNCHANGED <<row, inflight, landed, others, beside>>

-----------------------------------------------------------------------------
(* The search.                                                             *)

(* Where a search goes from what it found.  Holders that were searched are *)
(* swept below the pointer and deleted by name above it; with none, those  *)
(* that could not be searched are deleted by name.                         *)
AfterSearch(r) ==
    IF r.path = "tombstone" THEN IF r.found THEN [r EXCEPT !.pc = "collect"] ELSE Answer(r, "destroyed")
    ELSE IF r.holders = {}
    THEN Answer(r, IF r.path = "unpublished" THEN "noGeneration" ELSE "notMember")
    ELSE [r EXCEPT !.pc = "fence",
                   !.names = IF r.path = "others" /\ r.found THEN {g \in @ : g > From(r)} ELSE @]

(* A searched holder ends a search of a tombstone; elsewhere each one above*)
(* the pointer is wanted, and none below it once there is one.             *)
Continue(r) ==
    LET t == CASE ~r.found \/ r.path = "unpublished" -> r
               [] r.path = "tombstone" -> [r EXCEPT !.todo = {}]
               [] OTHER -> [r EXCEPT !.todo = {g \in @ : g > From(r)}]
    IN  IF t.todo = {} THEN AfterSearch([t EXCEPT !.names = t.holders]) ELSE t

List(e) ==
    LET r == erase[e]
        t == [r EXCEPT !.pc = "search", !.todo = Listed \ (IF r.path = "others" THEN {From(r)} ELSE {})]
    IN  /\ r.pc = "list"
        /\ EraseBecomes(e, Continue(t))
        /\ UNCHANGED <<segment, beside>>

Search(e) ==
    /\ erase[e].pc = "search"
    /\ EraseBecomes(e, Continue(Searched(e, erase[e])))
    /\ UNCHANGED <<segment, beside>>

-----------------------------------------------------------------------------
(* The fence: the one write of the row before anything is deleted.  It     *)
(* takes what is to be deleted out of the ledger, and renews the pointer   *)
(* where nothing else refuses a load under way.                            *)

Sweeps(r) == r.path = "rewrite" \/ (r.path = "others" /\ r.found)

PlanNames(r) == IF r.passes = 0 \/ r.past THEN r.names ELSE {}

FenceRead(e) ==
    /\ erase[e].pc = "fence"
    /\ EraseBecomes(e, [erase[e] EXCEPT !.pc = "fenced", !.row = row, !.first = row])
    /\ UNCHANGED <<segment, beside>>

(* The row still is the one the call searched under, its pointer renewed   *)
(* and its ledger pruned by whomever.                                      *)
HeldRow(r) ==
    r.row.token = r.rec.token \/ OnlyLeasesDifferBut(r.rec, r.row, {"pointerId", "knownGens"})

(* The pointer moved forward past every holder to delete by name: they are *)
(* below it now, and the collection's.                                     *)
PastHolders(r) ==
    /\ Sweeps(r)
    /\ r.row.currentGen > From(r)
    /\ \A g \in PlanNames(r) : g <= r.row.currentGen

Doomed(r, byName) ==
    LET now   == r.row
        below == IF r.path = "rewrite" THEN r.gen ELSE From(r)
        swept == Below(UsableKnownGens(now), IF below <= now.currentGen THEN below ELSE now.currentGen)
                     \cup (IF byName = {} THEN {g \in PlanNames(r) : g < now.currentGen} ELSE {})
    IN  (byName \cup (IF Sweeps(r) /\ UsableKnownGens(now) # <<>> THEN swept ELSE {}))
            \ {now.currentGen}

(* Mutant: a sweep never renews the pointer.                               *)
SweepOwesNothing(r) == FALSE

(* Nothing that happened since the call read the row refuses a load that   *)
(* read it before.                                                         *)
SweepOwes(r) ==
    /\ Sweeps(r)
    /\ r.row.pointerId = r.rec.pointerId
    /\ r.row.knownGens = r.rec.knownGens

NothingToFence(r) ==
    \/ r.row = NoRow
    \/ r.row.status = "destroyed"
    \/ r.path # "unpublished" /\ r.row.currentGen = NoGen

(* What the fence makes of the row in hand: to write `patch`, or to go on. *)
Fence(r) ==
    LET plan    == PlanNames(r)
        other   == r.row # NoRow /\ ~SameIncarnation(r.rec, r.row)
        held    == HeldRow(r)
        past    == plan # {} /\ ~held
        byName  == IF past THEN {} ELSE plan
        doomed  == Doomed(r, byName)
        named   == Generations(UsableKnownGens(r.row)) \cap doomed # {}
        renew   == byName # {} \/ (SweepOwes(r) /\ ~named)
        renewed == held /\ r.row.pointerId # r.first.pointerId
        goOn(moved) == [writes |-> FALSE, moved |-> moved, byName |-> {}, sweep |-> FALSE,
                        ledger |-> TRUE, pruned |-> FALSE, past |-> FALSE, patch |-> <<>>,
                        premise |-> r.premise]
    IN  IF other THEN goOn("superseded")
        ELSE IF NothingToFence(r)
        THEN [goOn(IF plan = {} THEN "none" ELSE IF r.row = NoRow THEN "absent"
                   ELSE IF r.row.status = "destroyed" THEN "destroyed" ELSE "superseded")
                 EXCEPT !.sweep = Sweeps(r)]
        ELSE IF past /\ ~PastHolders(r) THEN goOn("superseded")
        ELSE [writes |-> named \/ (renew /\ ~renewed),
              moved  |-> IF past THEN "superseded" ELSE "none",
              byName |-> byName, sweep |-> Sweeps(r), ledger |-> UsableKnownGens(r.row) # <<>>,
              pruned |-> named, past |-> past, premise |-> r.row,
              patch  |-> (IF renew THEN RenewPointer(r.row) ELSE <<>>)
                             @@ (IF named THEN [knownGens |-> PruneKnown(r.row, doomed)] ELSE <<>>)]

AfterSweep(r) ==
    IF r.byName # {} /\ ~r.missing THEN [r EXCEPT !.pc = "check", !.looks = 0]
    ELSE IF r.path = "rewrite" /\ r.missing THEN Answer(r, "missing")
    ELSE [r EXCEPT !.pc = "receipt"]

(* The call goes on from a fence made as f.                                *)
GoOnFrom(r, f) ==
    LET t == [r EXCEPT !.row = NoRow, !.first = NoRow, !.resends = 0, !.churn = 0,
                         !.premise = f.premise]
    IN  IF r.passes = 0
        THEN LET s == [t EXCEPT !.moved = f.moved, !.byName = f.byName,
                                !.ledgered = f.ledger, !.past = f.past]
             IN  IF f.sweep THEN [s EXCEPT !.pc = "collect"] ELSE AfterSweep(s)
        ELSE IF f.moved # "none" /\ ~f.past
        THEN AfterSweep([t EXCEPT !.moved = IF f.moved = "absent" THEN @ ELSE f.moved])
        ELSE IF f.pruned THEN [t EXCEPT !.pc = "collect"] ELSE AfterSweep(t)

FenceGoesOn(e) ==
    LET r == erase[e]
    IN  /\ r.pc = "fenced" /\ r.made = "none"
        /\ ~Fence(r).writes
        /\ EraseBecomes(e, GoOnFrom(r, Fence(r)))
        /\ UNCHANGED <<segment, beside>>

FenceWrites(e) ==
    LET f == Fence(erase[e])
    IN  /\ erase[e].pc = "fenced"
        /\ f.writes
        /\ WriteRow(e, f.patch, LAMBDA r : GoOnFrom(r, [f EXCEPT !.premise = r.row]))

(* A write that lost is tried again on the row that won.                   *)
FenceLost(r) ==
    IF r.lost + 1 < FenceAttempts THEN [r EXCEPT !.lost = @ + 1, !.row = row]
    ELSE GoOnFrom(r, [moved |-> "superseded", byName |-> {}, sweep |-> FALSE, ledger |-> TRUE,
                    pruned |-> FALSE, past |-> FALSE, premise |-> r.premise])

FenceAsk(e) == erase[e].pc = "fenced" /\ AskAfterWrite(e, {}, FenceLost)

FenceWaited(e) ==
    /\ erase[e].pc = "fenced" /\ erase[e].made = "waited"
    /\ EraseBecomes(e, [erase[e] EXCEPT !.made = "none", !.row = row])
    /\ UNCHANGED <<segment, beside>>

-----------------------------------------------------------------------------
(* The collection below the pointer, which keeps nothing but what the row  *)
(* names, and the collection again of what it spared.                      *)

Uncollected == [IdlePass EXCEPT !.pc = "none"]

CollectStart(e) ==
    LET r == erase[e]
    IN  /\ r.pc = "collect"
        /\ PassBecomes(e, [IdlePass EXCEPT !.pc = "row", !.kind = "sweep",
                              !.asked = IF r.path = "tombstone" THEN r.rec ELSE NoRow])
        /\ EraseBecomes(e, [r EXCEPT !.pc = "collecting"])
        /\ UNCHANGED <<segment, load, roll, setting>>

AfterCollect(r, s) ==
    LET t     == [r EXCEPT !.missing = (s.result = "missing"), !.passes = @ + 1]
        again == \/ s.spared # {}
                 \/ r.passes = 0 /\ ~r.ledgered
    IN  IF r.path = "tombstone" THEN [r EXCEPT !.pc = "receipt"]
        ELSE IF /\ again /\ ~t.missing
                /\ r.passes < FenceAttempts
                /\ r.passes = 0 => r.moved = "none" \/ r.past
        THEN [t EXCEPT !.pc = "fence"]
        ELSE AfterSweep(t)

(* A collection the row's changes stopped throws.                          *)
CollectEnded(e) ==
    LET s == pass[e]
    IN  /\ erase[e].pc = "collecting" /\ s.pc = "ended"
        /\ EraseBecomes(e, IF s.result = "changed" THEN Answer(erase[e], "error")
                           ELSE AfterCollect(erase[e], s))
        /\ PassBecomes(e, Uncollected)
        /\ UNCHANGED <<segment, load, roll, setting>>

-----------------------------------------------------------------------------
(* deleteFenced: the holders by name, newest first, each after a read of   *)
(* the row, and each only while it is the object that was read.            *)

LookForMissing(r) ==
    IF r.looks < MaxLooks THEN [r EXCEPT !.looks = @ + 1]
    ELSE [r EXCEPT !.pc = "receipt", !.moved = "superseded", !.missing = TRUE]

(* Mutant: the row is not read again after the last delete.                *)
StopUnsettled(r, moved) == [r EXCEPT !.pc = "receipt", !.moved = moved, !.byName = {}, !.looks = 0]

(* The deletes stop: the row is read once more when a delete followed the  *)
(* last read.                                                              *)
StopDeletes(r, moved) ==
    [r EXCEPT !.pc = IF r.unread THEN "settle" ELSE "receipt", !.moved = moved, !.byName = {},
              !.looks = 0]

DeleteCheck(e) ==
    LET r       == erase[e]
        g       == Newest(r.byName)
        now     == IF r.looks = 0 THEN row ELSE r.row
        verdict == RowVerdict(r, now, {"pointerId", "knownGens"})
        t       == [r EXCEPT !.looks = 0, !.unread = FALSE, !.row = NoRow]
    IN  /\ r.pc = "check"
        /\ EraseBecomes(e,
             IF r.moved # "none" THEN StopDeletes(r, r.moved)
             ELSE IF NamesDeleted(r.premise, r.gone) THEN LookForMissing([r EXCEPT !.row = now])
             ELSE IF verdict # "none" THEN StopDeletes(t, verdict)
             ELSE IF g \in Generations(UsableKnownGens(now)) THEN StopDeletes(t, "superseded")
             ELSE [t EXCEPT !.pc = "delete"])
        /\ UNCHANGED <<segment, beside>>

(* Mutant: the delete takes whatever is under the number.                  *)
DeleteByNumber(e) ==
    LET r == erase[e]
        g == Newest(r.byName)
        t == [r EXCEPT !.byName = @ \ {g}, !.gone = @ \cup {g}, !.unread = TRUE]
    IN  /\ r.pc = "delete"
        /\ objects' = [objects EXCEPT ![g] = None]
        /\ EraseBecomes(e, IF t.byName = {} THEN StopDeletes(t, "none") ELSE [t EXCEPT !.pc = "check"])
        /\ UNCHANGED <<row, inflight, landed, others, beside>>

DeleteHolder(e) ==
    LET r == erase[e]
        g == Newest(r.byName)
        t == [r EXCEPT !.byName = @ \ {g}, !.gone = @ \cup {g}, !.unread = TRUE]
    IN  /\ r.pc = "delete"
        /\ IF objects[g] \in {None, r.read[g]}
           THEN /\ objects' = [objects EXCEPT ![g] = None]
                /\ EraseBecomes(e, IF t.byName = {} THEN StopDeletes(t, "none")
                                   ELSE [t EXCEPT !.pc = "check"])
           ELSE /\ EraseBecomes(e, [r EXCEPT !.pc = "replaced"])
                /\ UNCHANGED objects
        /\ UNCHANGED <<row, inflight, landed, others, beside>>

DeleteReplaced(e) ==
    /\ erase[e].pc = "replaced"
    /\ EraseBecomes(e, StopDeletes(erase[e], VerdictOr(RowVerdict(erase[e], row, {}), "superseded")))
    /\ UNCHANGED <<segment, beside>>

DeleteSettle(e) ==
    LET r == erase[e]
    IN  /\ r.pc = "settle"
        /\ EraseBecomes(e, IF NamesDeleted(r.premise, r.gone) THEN LookForMissing(r)
                           ELSE [r EXCEPT !.pc = "receipt"])
        /\ UNCHANGED <<segment, beside>>

-----------------------------------------------------------------------------
(* holderLeft: list once more, and read everything but the generation the  *)
(* call found current or wrote, while the row names that very object.      *)

Own(r) == CASE r.path = "rewrite" -> {r.gen}
            [] r.path = "others"  -> {From(r)}
            [] OTHER              -> {}

(* What a call answers, with a holder left or with none.                   *)
Conclude(r, left) ==
    Answer(r, CASE r.missing                                  -> "missing"
                [] ~r.missing /\ ~left /\ r.path = "rewrite"  -> "erased"
                [] ~r.missing /\ ~left /\ r.path # "rewrite"  ->
                       IF r.found THEN "erased"
                       ELSE IF r.path = "others" THEN "notMember" ELSE "noGeneration"
                [] OTHER -> IF r.path = "rewrite" \/ r.moved = "none" THEN "error" ELSE r.moved)

(* Mutant: nothing is read before the receipt.                             *)
ReadNothing(r, gens) == Conclude(r, FALSE)

ReadLeft(r, gens) ==
    IF gens = {} THEN Conclude(r, FALSE) ELSE [r EXCEPT !.pc = "left", !.todo = gens]

Receipt(e) ==
    LET r == [erase[e] EXCEPT !.listed = {<<g, objects[g]>> : g \in Listed}]
    IN  /\ r.pc = "receipt"
        /\ EraseBecomes(e, IF Own(r) \cap Listed # {} THEN [r EXCEPT !.pc = "vouch", !.todo = Listed]
                           ELSE ReadLeft(r, Listed))
        /\ UNCHANGED <<segment, beside>>

(* A fault of the read only means that everything is read.                 *)
Vouch(e) ==
    LET r       == erase[e]
        known   == IF row = NoRow THEN <<>> ELSE UsableKnownGens(row)
        vouched == {g \in Own(r) : \E i \in DOMAIN known :
                        known[i] = [generation |-> g, footerCrc |-> r.read[g].by]}
    IN  /\ r.pc = "vouch"
        /\ \E named \in {vouched, {}} : EraseBecomes(e, ReadLeft(r, r.todo \ named))
        /\ UNCHANGED <<segment, beside>>

ReadOneLeft(e) ==
    LET r == erase[e]
        g == Newest(r.todo)
    IN  /\ r.pc = "left"
        /\ EraseBecomes(e, IF objects[g] # None /\ Holds(e, r, g) THEN Conclude(r, TRUE)
                           ELSE ReadLeft(r, r.todo \ {g}))
        /\ UNCHANGED <<segment, beside>>

-----------------------------------------------------------------------------
(* A fault that is thrown as it is, or the process dying.                  *)
EraseFails(e) ==
    /\ erase[e].pc \notin {"start", "ended"}
    /\ EraseBecomes(e, Answer(erase[e], "error"))
    /\ PassBecomes(e, Uncollected)
    /\ UNCHANGED <<segment, load, roll, setting>>

EraseStep(e) ==
    \/ Begin(e) \/ Open(e) \/ NumberRewrite(e) \/ ListForNumber(e) \/ CopySource(e) \/ CommitRewrite(e)
    \/ LostNumber(e) \/ SourceGone(e)
    \/ ProveRewrite(e) \/ VerifyRewrite(e) \/ PublishRewrite(e)
    \/ DiscardRead(e) \/ DiscardProve(e) \/ DiscardRenew(e) \/ DiscardAsk(e)
    \/ DiscardWaited(e) \/ DiscardDelete(e)
    \/ List(e) \/ Search(e)
    \/ FenceRead(e) \/ FenceGoesOn(e) \/ FenceWrites(e) \/ FenceAsk(e) \/ FenceWaited(e)
    \/ DeleteCheck(e) \/ DeleteHolder(e) \/ DeleteReplaced(e) \/ DeleteSettle(e)
    \/ Receipt(e) \/ Vouch(e) \/ ReadOneLeft(e)
    \/ EraseFails(e)

CollectStep(e) ==
    \/ PassReadRow(e) \/ PassList(e) \/ PassReadAgain(e)
    \/ PassCheck(e) \/ PassDelete(e) \/ PassSettle(e)

Quiet(pc) == pc \in {"start", "published", "ended"}

Busy ==
    {p \in Loaders : ~Quiet(load[p].pc)} \cup {q \in Rollers : ~Quiet(roll[q].pc)}
        \cup {e \in Erasers : ~Quiet(erase[e].pc)}

Acting == IF Cardinality(Busy) < MaxBusy THEN cast ELSE Busy

(* A segment of n generations, those of a load that crashed among them,    *)
(* perhaps rolled back to `at`, whose objects hold `ids`.                  *)
SegmentOf(s) ==
    LET key     == s.key
        named   == {g \in 0..(s.n - 1) : g # s.stray}
        ledger  == SelectSeq([i \in 1..s.n |-> Entry(i - 1)], LAMBDA k : k.generation \in named)
        at      == IF s.at = NoGen THEN Newest(named) ELSE s.at
        token   == [incarnation |-> <<Other, 1>>, counter |-> 2, write |-> <<Other, 2>>]
        pointed == [currentGen  |-> at, wrappedDeks |-> key,
                    summary     |-> [generation |-> at, footerCrc |-> Other, sealed |-> key # Clear],
                    knownGens   |-> MakeCurrent(ledger, Entry(at))]
    IN  /\ row = RecordFromNew(IF named = {} THEN <<>> ELSE pointed, token)
        /\ objects = [g \in Gens |->
                        IF g \in named THEN [by |-> Other, key |-> key]
                        ELSE IF g = s.stray THEN [by |-> Stray, key |-> s.strayKey] ELSE None]
        /\ stored = [g \in Gens |-> IF g \in DOMAIN s.ids THEN s.ids[g] ELSE {}]

Init ==
    /\ \E s \in Starts : SegmentOf(s) /\ cast \in s.casts
    /\ inflight = {} /\ others = 2 /\ landed = {<<Other, 1>>, <<Other, 2>>}
    /\ LoadInit /\ RollInit
    /\ pass = [c \in Loaders \cup Erasers |-> IF c \in Erasers THEN Uncollected ELSE IdlePass]
    /\ erase = [e \in Erasers |-> Calm]

(* A request sent before a drop is done long before its grace ends.        *)
PurgeAllowed ==
    /\ GracePassed
    /\ \A c \in DOMAIN pass : pass[c].pc # "delete"
    /\ \A e \in Erasers : erase[e].pc \notin {"delete", "discardNumber", "discardOwn"}

Next ==
    \/ \E p \in Loaders \cap Acting :
        /\ \/ (LoadStep(p) \/ Abandon(p)) /\ UNCHANGED pass
           \/ PassStep(p)
        /\ UNCHANGED <<roll, erase, setting>>
    \/ \E q \in Rollers \cap Acting : RollStep(q) /\ UNCHANGED <<load, pass, erase, setting>>
    \/ \E e \in Erasers \cap Acting :
        \/ EraseStep(e) \/ CollectStart(e) \/ CollectEnded(e)
        \/ CollectStep(e) /\ UNCHANGED <<roll, erase, setting>>
    \/ /\ \/ Other \in cast /\ OtherOperation
          \/ Network \in cast /\ LateWrite
       /\ UNCHANGED <<load, pass, roll, erase, setting>>
    \/ PurgeAllowed /\ PurgeRow /\ UNCHANGED <<load, pass, roll, erase, setting>>

Spec == Init /\ [][Next]_eraseVars

-----------------------------------------------------------------------------
AtRest ==
    /\ \A p \in Loaders : Quiet(load[p].pc) /\ Quiet(pass[p].pc)
    /\ \A q \in Rollers : Quiet(roll[q].pc)
    /\ \A e \in Erasers : Quiet(erase[e].pc)

Erased == {e \in Erasers : erase[e].result = "erased"}

(* Moved here by a rollback that was not held to the ledger.               *)
Insisted == \E q \in Rollers : roll[q].mode # "checked" /\ row.pointerId \in roll[q].sent

(* Once an erasure has said so, no read finds its id: no load that read    *)
(* the row before the call brings it back, nor any other erasure's rewrite *)
(* of what it replaced, nor a rollback the ledger allows.                  *)
ErasedIdIsNotServed ==
    \A e \in Erased :
        /\ Active /\ row.currentGen # NoGen
        /\ objects[row.currentGen] # None
        /\ ~Insisted
        /\ \A p \in Loaders : e \in Brings[p] => p \in erase[e].ahead
        => e \notin Content(row.currentGen)

(* What the receipt claims of the bucket: no object that was there when it *)
(* listed holds the id.                                                    *)
ReceiptIsTrue ==
    \A e \in Erased, g \in Gens :
        objects[g] # None /\ <<g, objects[g]>> \in erase[e].listed => e \notin Content(g)

(* A rewrite that was refused leaves no copy of an id another erasure has  *)
(* reported gone, short of losing every renewal it may make.               *)
RefusedRewriteIsGone ==
    AtRest =>
        \A e \in Erased, f \in Erasers, g \in Gens :
            /\ erase[f].result \in {"superseded", "absent", "destroyed", "notMember"}
            /\ ~erase[f].kept
            /\ objects[g] # None
            /\ objects[g].by \notin Loaders \cup {Other, Stray}
            => objects[g].by[1] # f \/ e \notin Content(g)

(* The pointer rests on a deleted object only when the operation that      *)
(* deleted it, or moved the pointer there, said so or could not tell.  A   *)
(* discard looks no more: a rollback that insists on the rewrite it is     *)
(* about to delete goes unreported (erase-id.ts discardRefused).           *)
MissingPointerIsReported ==
    /\ AtRest /\ Active
    /\ row.currentGen # NoGen /\ objects[row.currentGen] = None
    /\ ~(Insisted /\ \E e \in Erasers : erase[e].gen = row.currentGen)
    =>
        \/ \E p \in Loaders : load[p].result \in {"missing", "unknown"} \/ pass[p].result = "missing"
        \/ \E e \in Erasers : erase[e].result \in {"missing", "error"}
        \/ \E q \in Rollers : roll[q].result \in {"stranded", "unknown"}

(* By name, an erasure deletes the object it read and no other: one that   *)
(* took the number since is a load's.                                      *)
DeletesWhatItRead ==
    [][\A e \in Erasers :
          erase[e].pc = "delete" /\ erase'[e] # erase[e] =>
              \A g \in Gens : objects[g] # None /\ objects'[g] = None =>
                  Holds(e, erase[e], g)]_eraseVars
=============================================================================
