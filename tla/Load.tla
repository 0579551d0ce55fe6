-------------------------------- MODULE Load --------------------------------
(***************************************************************************)
(* A load: read the row, choose a number, write the object once, then move *)
(* the pointer with a write fenced on the row that was read, settling what *)
(* an unanswered write did, and reclaim the object of a refused load       *)
(* (load.ts runLoad, bulk-load.ts bulkLoadAhead, publish.ts                *)
(* publishGenerationKept).  load[p] is the state of p's one load; pc names *)
(* the request it makes next.                                              *)
(***************************************************************************)
EXTENDS Segment, SequencesExt

CONSTANTS
    Loaders,      \* the processes that load, one load each
    Keystores,    \* those of them that have a keystore
    Keep,         \* the `keep` they load with
    MaxAttempts,  \* writes a publish tries (5)
    MaxResends,   \* UNANSWERED_RESENDS (3)
    MaxChurn,     \* LEASE_ONLY_RETRIES (136): lease-only changes waited out
    MaxLooks      \* re-reads before a deleter says the pointer is on its delete (4)

ASSUME LoadAssumption ==
    /\ Keystores \subseteq Loaders
    /\ Other \notin Loaders
    /\ {NoRow, Clear, None} \cap (Loaders \cup {Other}) = {}
    /\ {Keep, MaxResends, MaxChurn, MaxLooks} \subseteq Nat
    /\ MaxAttempts \in Nat \ {0}

VARIABLE load

loadVars == <<segment, load>>

(* A first window being read: the generations to name, in order, those yet *)
(* to read, and the objects the others are.                                *)
NoSeed == [wanted |-> FALSE, order |-> <<>>, todo |-> {}, found |-> <<>>]

Idle ==
    [pc |-> "start", base |-> NoRow, rec |-> NoRow, before |-> None, waited |-> FALSE,
     gen |-> NoGen, key |-> Clear, minted |-> FALSE, sent |-> {}, resends |-> 0,
     attempt |-> 0, churn |-> 0, unanswered |-> FALSE, early |-> FALSE, held |-> NoRow, looks |-> 0,
     result |-> "none", untidy |-> FALSE, kept |-> NotByName, listed |-> {}, seed |-> NoSeed]

LoadInit == load = [p \in Loaders |-> Idle]

Becomes(p, l) == load' = [load EXCEPT ![p] = l]

Ended(l) == l.pc \in {"published", "ended"}

(* What a load that ended leaves for others to judge it by.                *)
End(l, result) ==
    [Idle EXCEPT !.pc = "ended", !.result = result, !.base = l.base, !.gen = l.gen,
                 !.sent = l.sent, !.unanswered = l.unanswered, !.early = l.early]

(* The next turn of the attempts loop, or the read that follows the last.  *)
Turn(l, pc) == [l EXCEPT !.pc = IF l.attempt < MaxAttempts THEN pc ELSE "final"]

-----------------------------------------------------------------------------
(* Up to the object: nothing here writes the row.                          *)

(* Over a row with a pointer and no usable ledger, a load seeds one.       *)
WantsSeed(base) ==
    /\ base # NoRow
    /\ base.status = "active"
    /\ base.currentGen # NoGen
    /\ UsableKnownGens(base) = <<>>

ReadRow(p) ==
    /\ load[p].pc = "start"
    /\ Becomes(p, [load[p] EXCEPT !.pc = "number", !.base = row, !.rec = row])
    /\ UNCHANGED segment

(* currentGen + 1 when a check finds nothing there.  A check that found an *)
(* object, or failed, is followed by a listing, made later: the number is  *)
(* then above every one listed, and at least currentGen + 1.               *)
Number(p) ==
    LET l    == load[p]
        next == CurrentGenOf(l.base) + 1
    IN  /\ l.pc = "number"
        /\ \E g \in Gens, lists \in BOOLEAN :
              /\ IF lists
                 THEN /\ g = next \/ (g > next /\ g - 1 \in Listed)
                      /\ \A h \in Listed : h < g
                 ELSE g = next /\ next \notin Listed
              /\ Becomes(p, [l EXCEPT !.pc = "key", !.gen = g,
                                      !.listed = IF lists /\ WantsSeed(l.base) THEN Listed ELSE {}])
        /\ UNCHANGED segment

(* The key the object is written under.  A row read with no key, or none   *)
(* read, decides it from the read in hand; otherwise the row is read again.*)
ChooseKey(p) ==
    LET l        == load[p]
        existing == IF l.base # NoRow /\ l.base.wrappedDeks = Clear THEN l.base ELSE row
        keyed    == existing # NoRow /\ existing.wrappedDeks # Clear
        mints    == p \in Keystores /\ CurrentGenOf(existing) = NoGen /\ ~keyed
        key      == IF p \notin Keystores THEN Clear
                    ELSE IF mints THEN p
                    ELSE existing.wrappedDeks
    IN  /\ l.pc = "key"
        /\ Becomes(p, IF \/ existing # NoRow /\ existing.status = "destroyed"
                         \/ keyed /\ p \notin Keystores
                      THEN End(l, "error")
                      ELSE [l EXCEPT !.pc = "put", !.key = key, !.minted = mints])
        /\ UNCHANGED segment

(* Mutant: a load that lost the number reclaims it.                        *)
PutReclaimsLost(p) ==
    LET l == load[p]
    IN  /\ l.pc = "put"
        /\ IF objects[l.gen] # None
           THEN /\ Becomes(p, [l EXCEPT !.pc = "reclaim", !.result = "superseded"])
                /\ UNCHANGED segment
           ELSE /\ objects' = [objects EXCEPT ![l.gen] = [by |-> p, key |-> l.key]]
                /\ Becomes(p, [l EXCEPT !.pc = "decide"])
                /\ UNCHANGED <<row, inflight, landed, others>>

(* The write-once put, and the guard over what it wrote.  A load that lost *)
(* the number wrote nothing and ends; a guard that refuses reclaims.       *)
Put(p) ==
    LET l == load[p]
    IN  /\ l.pc = "put"
        /\ IF objects[l.gen] # None
           THEN /\ Becomes(p, End(l, "superseded"))
                /\ UNCHANGED segment
           ELSE /\ objects' = [objects EXCEPT ![l.gen] = [by |-> p, key |-> l.key]]
                /\ \/ Becomes(p, [l EXCEPT !.pc = IF WantsSeed(l.base) THEN "seed" ELSE "decide"])
                   \/ Becomes(p, [l EXCEPT !.pc = "reclaim", !.result = "refused"])
                /\ UNCHANGED <<row, inflight, landed, others>>

-----------------------------------------------------------------------------
(* The first window of a ledger (ledger-seed.ts): the leases of the row as *)
(* it is now, the listing of the numbering or a new one, then a footer of  *)
(* each generation to name, the superseded one's held to the row's summary.*)

(* The leased ones outside the window first, the superseded one last.      *)
SeedOrder(l, present, held) ==
    LET kept   == KeptWindow({g \in present : g < l.gen}, l.base.currentGen,
                             IF Keep > KnownSpan THEN KnownSpan ELSE Keep)
        leased == (held \cap present) \ (kept \cup {l.gen})
        last   == kept \cap {l.base.currentGen}
    IN  SetToSortSeq(leased, <) \o SetToSortSeq(kept \ last, <) \o SetToSeq(last)

Seeds(l, present, held) ==
    LET order == SeedOrder(l, present, held)
    IN  [l EXCEPT !.pc = IF order = <<>> THEN "decide" ELSE "seedRead", !.listed = {},
                  !.seed = [NoSeed EXCEPT !.wanted = TRUE, !.order = order, !.todo = ToSet(order)]]

SeedLeases(p) ==
    LET l == load[p]
    IN  /\ l.pc = "seed"
        /\ \E held \in (IF row = NoRow THEN {{}} ELSE SUBSET row.leases) :
              Becomes(p, IF l.listed # {} THEN Seeds(l, l.listed, held)
                         ELSE [l EXCEPT !.pc = "seedList", !.seed.todo = held])
        /\ UNCHANGED segment

SeedList(p) ==
    LET l == load[p]
    IN  /\ l.pc = "seedList"
        /\ Becomes(p, Seeds(l, Listed, l.seed.todo))
        /\ UNCHANGED segment

(* A clear summary describes the generation it names by another object.    *)
Misdescribed(base, g) ==
    /\ g = base.currentGen
    /\ base.summary.generation = g
    /\ ~base.summary.sealed
    /\ base.summary.footerCrc # objects[g].by

(* The reads are under way together, and end in any order.                 *)
SeedRead(p) ==
    LET l == load[p]
    IN  /\ l.pc = "seedRead"
        /\ \E g \in l.seed.todo :
              LET named == objects[g] # None /\ ~Misdescribed(l.base, g)
                  seed  == [l.seed EXCEPT !.todo = @ \ {g},
                                          !.found = IF named THEN @ @@ (g :> objects[g].by) ELSE @]
              IN  Becomes(p, [l EXCEPT !.pc = IF seed.todo = {} THEN "decide" ELSE l.pc,
                                       !.seed = seed])
        /\ UNCHANGED segment

(* A read of these that fails ends the load, nothing of it published.      *)
SeedFails(p) ==
    LET l == load[p]
    IN  /\ l.pc \in {"seed", "seedList", "seedRead"}
        /\ Becomes(p, [l EXCEPT !.pc = "reclaim", !.result = "error"])
        /\ UNCHANGED segment

SeedOf(l) ==
    LET there == SelectSeq(l.seed.order, LAMBDA g : g \in DOMAIN l.seed.found)
    IN  [i \in DOMAIN there |-> [generation |-> there[i], footerCrc |-> l.seed.found[there[i]]]]

-----------------------------------------------------------------------------
(* One turn of the publish, from the record l.rec it works from.           *)

LandedHere(l) ==
    l.before # None /\ PointerSetBy(l.rec, l.before, l.gen, l.sent)

(* After a failed write: another writer has the pointer at this number.    *)
TakenByAnother(l) ==
    /\ l.before # None
    /\ ~LandedHere(l)
    /\ l.rec # NoRow
    /\ l.rec.status = "active"
    /\ l.rec.currentGen = l.gen

(* Mutant: compares the pointer's identity, which a retention keeps.       *)
PointerMoved(l) == l.base # NoRow /\ (l.rec = NoRow \/ l.rec.pointerId # l.base.pointerId)

TokenMoved(l) == l.base # NoRow /\ (l.rec = NoRow \/ l.rec.token # l.base.token)

(* Mutant: any change of the row is waited out.                           *)
RowMoved(l) == TokenMoved(l) /\ l.rec # NoRow

OnlyLeasesMoved(l) == TokenMoved(l) /\ l.rec # NoRow /\ OnlyLeasesDiffer(l.base, l.rec)

WaitsOutChurn(l) == OnlyLeasesMoved(l) /\ ~l.waited /\ l.churn < MaxChurn

(* Refused by a lease after it has waited out as many as it may, with a    *)
(* write that got no answer.                                               *)
OutOfChurn(l) ==
    /\ OnlyLeasesMoved(l) /\ ~l.waited /\ ~WaitsOutChurn(l)
    /\ ~TakenByAnother(l)
    /\ l.unanswered

Fenced(l) ==
    \/ TakenByAnother(l)
    \/ l.base = NoRow /\ l.rec # NoRow
    \/ TokenMoved(l) /\ ~WaitsOutChurn(l) /\ ~(OnlyLeasesMoved(l) /\ l.waited)

(* A summary sealed under a key this write does not bring, and no row.     *)
NothingToSealUnder(l) == l.rec = NoRow /\ l.key # Clear /\ ~l.minted

(* What the publish checks after its fence, for callers without one: a     *)
(* tombstone, a pointer this far or further, a key the row's generations   *)
(* are not under, cleartext onto a key.  A load is to be stopped before.   *)
Invalid(l) ==
    /\ l.rec # NoRow
    /\ \/ l.rec.status = "destroyed"
       \/ l.rec.currentGen >= l.gen
       \/ l.rec.currentGen # NoGen /\ l.minted
       \/ l.rec.wrappedDeks # Clear /\ l.key = Clear

Deciding(p) == load[p].pc = "decide"

Proceeds(l) ==
    /\ ~LandedHere(l)
    /\ ~Fenced(l)
    /\ ~WaitsOutChurn(l)

Sends(l) == Proceeds(l) /\ ~NothingToSealUnder(l) /\ ~Invalid(l)

EntryOf(p, l) == [generation |-> l.gen, footerCrc |-> p]

SummaryOf(p, l) == [generation |-> l.gen, footerCrc |-> p, sealed |-> l.key # Clear]

(* The ledger a publish over `prev` leaves.                                *)
LedgerAfter(p, l, prev, live) ==
    IF l.seed.wanted THEN SeededLedger(SeedOf(l), EntryOf(p, l), live)
    ELSE NextLedger(LedgerSource(prev), EntryOf(p, l), Keep, live)

(* What the write of this turn sets.  `live` are the leases its clock still*)
(* holds; `keyed`, whether the key is of the patch.                        *)
PatchOf(p, l, live, keyed) ==
    Of([currentGen |-> l.gen, summary |-> SummaryOf(p, l),
        knownGens |-> LedgerAfter(p, l, l.rec, live),
        wrappedDeks |-> l.key, leases |-> live],
       {"currentGen", "summary", "knownGens"}
           \cup (IF keyed THEN {"wrappedDeks"} ELSE {})
           \cup (IF CurrentGenOf(l.rec) = NoGen THEN {} ELSE {"leases"}),
       Restrict)

RequestWith(p, l, patch) ==
    LET write == <<p, Cardinality(l.sent) + 1>>
    IN  IF l.rec = NoRow THEN CreateOf(patch, write) ELSE SwapOf(l.rec, patch, write)

(* Mutant: the key goes with a create, never to a row made without one.    *)
RequestKeyedOnCreate(p, l, live) ==
    RequestWith(p, l, PatchOf(p, l, live, l.minted /\ l.rec = NoRow))

(* The write of this turn: a key it minted goes with the first pointer.    *)
RequestOf(p, l, live) ==
    RequestWith(p, l, PatchOf(p, l, live, l.minted /\ CurrentGenOf(l.rec) = NoGen))

LiveSets(l) == IF l.rec = NoRow THEN {{}} ELSE SUBSET l.rec.leases

Published(p, l, before, live) ==
    [End(l, "published") EXCEPT
        !.pc = "published",
        !.kept = IF l.seed.wanted THEN NotByName
                 ELSE Kept(LedgerSource(before), EntryOf(p, l), Keep, live)]

SettleLanded(p) ==
    LET l == load[p]
    IN  /\ Deciding(p)
        /\ LandedHere(l)
        /\ \E live \in (IF l.before = NoRow THEN {{}} ELSE SUBSET l.before.leases) :
              Becomes(p, Published(p, l, l.before, live))
        /\ UNCHANGED segment

Refuse(p) ==
    LET l == load[p]
    IN  /\ Deciding(p)
        /\ ~LandedHere(l)
        /\ Fenced(l)
        /\ Becomes(p, [l EXCEPT !.pc = "reclaim",
                                !.result = "refused", !.early = OutOfChurn(l)])
        /\ UNCHANGED segment

(* The row differs from the one read only in its leases: wait, read again. *)
WaitOutChurn(p) ==
    LET l == load[p]
    IN  /\ Deciding(p)
        /\ ~LandedHere(l)
        /\ ~Fenced(l)
        /\ WaitsOutChurn(l)
        /\ Becomes(p, [l EXCEPT !.rec = row, !.waited = TRUE, !.before = None,
                                !.churn = @ + 1])
        /\ UNCHANGED segment

(* Only a fresh read can show that there is no row to seal under.          *)
RefuseSealed(p) ==
    LET l == load[p]
    IN  /\ Deciding(p)
        /\ Proceeds(l)
        /\ NothingToSealUnder(l)
        /\ Becomes(p, IF l.attempt = 0
                      THEN Turn([l EXCEPT !.attempt = 1, !.before = None], "read")
                      ELSE [l EXCEPT !.pc = "reclaim", !.result = "refused"])
        /\ UNCHANGED segment

(* The write is answered: it moved the pointer, or it met a conflict.  A   *)
(* conflict a lease write caused, under a row waited out, costs no turn.   *)
SendAnswered(p) ==
    LET l == load[p]
    IN  /\ Deciding(p)
        /\ Sends(l)
        /\ \E live \in LiveSets(l) : \E w \in {RequestOf(p, l, live)} :
              LET after == [l EXCEPT !.sent = @ \cup {w.token}]
              IN  IF Accepts(w)
                  THEN /\ Apply(w)
                       /\ Becomes(p, Published(p, after, l.rec, live))
                  ELSE /\ Becomes(p, Turn([after EXCEPT
                                 !.before = l.rec,
                                 !.attempt = IF TokenMoved(l) THEN @ ELSE @ + 1], "read"))
                       /\ UNCHANGED <<row, landed>>
        /\ UNCHANGED <<objects, inflight, others>>

SendUnanswered(p) ==
    LET l == load[p]
    IN  /\ Deciding(p)
        /\ Sends(l)
        /\ \E live \in LiveSets(l) : \E w \in {RequestOf(p, l, live)} :
              /\ inflight' = inflight \cup {w}
              /\ Becomes(p, [l EXCEPT !.pc = "asking", !.unanswered = TRUE,
                                      !.sent = @ \cup {w.token}, !.before = None])
        /\ UNCHANGED <<row, objects, landed, others>>

(* Mutant: gives up as if the write could no longer land.                  *)
AskRowRefuses(p) ==
    LET l == load[p]
    IN  /\ l.pc = "asking"
        /\ Becomes(p,
             IF SameRow(row, l.rec) THEN [l EXCEPT !.pc = "reclaim", !.result = "refused"]
             ELSE Turn([l EXCEPT !.before = l.rec, !.rec = row, !.attempt = @ + 1], "decide"))
        /\ UNCHANGED segment

(* Mutant: asks for as long as the row stays.                              *)
AskRowPolls(p) ==
    LET l == load[p]
    IN  /\ l.pc = "asking"
        /\ Becomes(p,
             IF SameRow(row, l.rec) THEN l
             ELSE Turn([l EXCEPT !.before = l.rec, !.rec = row, !.attempt = @ + 1], "decide"))
        /\ UNCHANGED segment

(* One read of the row after an unanswered write.  The row it was made     *)
(* against is still there: it may land yet, so a new write follows, or the *)
(* load gives up with its outcome unknown.  Any other row: it never lands  *)
(* from here on, and the next turn settles whether it did.                 *)
AskRow(p) ==
    LET l == load[p]
    IN  /\ l.pc = "asking"
        /\ Becomes(p,
             IF ~SameRow(row, l.rec)
             THEN Turn([l EXCEPT !.before = l.rec, !.rec = row, !.waited = FALSE,
                                 !.attempt = @ + 1], "decide")
             ELSE IF l.resends < MaxResends
             THEN Turn([l EXCEPT !.rec = row, !.waited = FALSE, !.resends = @ + 1,
                                 !.attempt = @ + 1], "decide")
             ELSE End(l, "unknown"))
        /\ UNCHANGED segment

ReadAgain(p) ==
    LET l == load[p]
    IN  /\ l.pc = "read"
        /\ Becomes(p, [l EXCEPT !.pc = "decide", !.rec = row, !.waited = FALSE])
        /\ UNCHANGED segment

(* Mutant: a pointer below this number is taken for a refusal.             *)
FinalReadRefuses(p) ==
    LET l == load[p]
    IN  /\ l.pc = "final"
        /\ Becomes(p, IF row # NoRow /\ PointerSetBy(row, l.rec, l.gen, l.sent)
                      THEN [End(l, "published") EXCEPT !.pc = "published"]
                      ELSE [l EXCEPT !.pc = "reclaim", !.result = "refused"])
        /\ UNCHANGED segment

(* The read after the last turn.                                           *)
FinalRead(p) ==
    LET l    == load[p]
        last == IF l.before = None THEN l.rec ELSE l.before
    IN  /\ l.pc = "final"
        /\ Becomes(p, IF row = NoRow \/ row.currentGen < l.gen THEN End(l, "unknown")
                      ELSE IF PointerSetBy(row, last, l.gen, l.sent)
                      THEN [End(l, "published") EXCEPT !.pc = "published"]
                      ELSE [l EXCEPT !.pc = "reclaim", !.result = "refused"])
        /\ UNCHANGED segment

-----------------------------------------------------------------------------
(* The reclaim of a definite refusal, and the watch over its delete.       *)

ReclaimByNumber(l) ==
    /\ row # NoRow
    /\ \/ l.base # NoRow /\ (row.token = l.base.token \/ OnlyLeasesDiffer(l.base, row))
       \/ row.status = "destroyed"

ReclaimByObject(l) ==
    \/ row = NoRow
    \/ row.wrappedDeks # Clear /\ l.key = Clear

(* Under any other row the object is left, for a later collection.         *)
Reclaim(p) ==
    LET l == load[p]
    IN  /\ l.pc = "reclaim"
        /\ Becomes(p, IF ReclaimByNumber(l)
                      THEN [l EXCEPT !.pc = "delete", !.held = row]
                      ELSE IF ReclaimByObject(l) /\ objects[l.gen] # None
                              /\ objects[l.gen].by = p
                      THEN [l EXCEPT !.pc = "deleteOwn", !.held = row]
                      ELSE End(l, l.result))
        /\ UNCHANGED segment

Delete(p) ==
    LET l      == load[p]
        stored == objects[l.gen]
        goes   == l.pc = "delete" \/ (stored # None /\ stored.by = p)
        watch  == l.held # NoRow /\ l.held.status # "destroyed"
    IN  /\ l.pc \in {"delete", "deleteOwn"}
        /\ objects' = IF goes THEN [objects EXCEPT ![l.gen] = None] ELSE objects
        /\ Becomes(p, IF goes /\ watch THEN [l EXCEPT !.pc = "watch"] ELSE End(l, l.result))
        /\ UNCHANGED <<row, inflight, landed, others>>

(* The row names what was deleted, in the incarnation the delete was under.*)
NamesDeleted(held, gone) ==
    /\ Active
    /\ row.currentGen \in gone
    /\ SameIncarnation(held, row)
    /\ objects[row.currentGen] = None

Watch(p) ==
    LET l == load[p]
    IN  /\ l.pc = "watch"
        /\ Becomes(p, IF ~NamesDeleted(l.held, {l.gen}) THEN End(l, l.result)
                      ELSE IF l.looks < MaxLooks THEN [l EXCEPT !.looks = @ + 1]
                      ELSE End(l, "missing"))
        /\ UNCHANGED segment

(* A fault of the reclaim is swallowed (tidy): the load answers what it    *)
(* was to, and nothing looks at the row any more.                          *)
Untidy(l) == [End(l, l.result) EXCEPT !.untidy = TRUE]

TidyFails(p) ==
    LET l == load[p]
    IN  /\ l.pc \in {"reclaim", "delete", "deleteOwn", "watch"}
        /\ Becomes(p, Untidy(l))
        /\ UNCHANGED segment

(* The fault can be of a delete that was made.                             *)
DeleteUnanswered(p) ==
    LET l      == load[p]
        stored == objects[l.gen]
    IN  /\ \/ l.pc = "delete"
           \/ l.pc = "deleteOwn" /\ stored # None /\ stored.by = p
        /\ objects' = [objects EXCEPT ![l.gen] = None]
        /\ Becomes(p, Untidy(l))
        /\ UNCHANGED <<row, inflight, landed, others>>

(* A fault that is thrown as it is, or the process dying: nothing more is  *)
(* sent, and what was sent may still land.                                 *)
Abandon(p) ==
    LET l == load[p]
    IN  /\ ~Ended(l)
        /\ l.pc # "start"
        /\ Becomes(p, End(l, "unknown"))
        /\ UNCHANGED segment

LandedOf(p) == {t \in load[p].sent : t.write \in landed}

LoadStep(p) ==
    \/ ReadRow(p) \/ Number(p) \/ ChooseKey(p) \/ Put(p)
    \/ SeedLeases(p) \/ SeedList(p) \/ SeedRead(p) \/ SeedFails(p)
    \/ SettleLanded(p) \/ Refuse(p) \/ WaitOutChurn(p) \/ RefuseSealed(p)
    \/ SendAnswered(p) \/ SendUnanswered(p) \/ AskRow(p) \/ ReadAgain(p) \/ FinalRead(p)
    \/ Reclaim(p) \/ Delete(p) \/ Watch(p) \/ TidyFails(p) \/ DeleteUnanswered(p)

(* The grace outlasts every load that was under way when the tombstone was *)
(* written: what still runs has read the tombstone itself.                 *)
GracePassed ==
    \A p \in Loaders :
        \/ load[p].pc = "start" \/ Ended(load[p])
        \/ load[p].base # NoRow /\ load[p].base.status = "destroyed"
=============================================================================
