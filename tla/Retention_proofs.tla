-------------------------- MODULE Retention_proofs --------------------------
(***************************************************************************)
(* Proofs about a segment under a retention policy, for any number of      *)
(* loads, shreds, drops, policy calls and sweeps, and any bound on what    *)
(* they try.                                                               *)
(***************************************************************************)
EXTENDS Retention, TLAPS, FiniteSetTheorems

-----------------------------------------------------------------------------
(* The inductive invariant.  What it says of a row, a write or a process   *)
(* is said of a value, the row `x`, the writes `made` and the time `at`.   *)

Horizon == 0..(MaxClock + Grace)

Meta == [expiresAt : Horizon, mark : Nat]

(* A row, this one or one that was: the writes it names were made, and a   *)
(* tombstone with a sweep's mark is a sweep's.                             *)
RowFine(r, made) ==
    /\ "write" \in DOMAIN r.token
    /\ {r.token.write, r.token.incarnation, r.pointerId.write} \subseteq made
    /\ r.retention \in Meta
    /\ r.status = "destroyed" /\ r.retention.mark # 0 => r.pointerId.write[1] \in Sweepers

(* What a process holds of the row: a token names one row.                 *)
Knows(r, x, made) ==
    r # NoRow => /\ RowFine(r, made)
                 /\ x # NoRow /\ x.token = r.token => x = r

(* The row n that a write leaves over r: a tombstone is the writer's, and  *)
(* a sweep makes one only of a row that had expired when the sweep began.  *)
Outcome(n, r, w, at) ==
    /\ n.retention \in Meta
    /\ n.status = "destroyed" =>
          /\ n.pointerId = w.token
          /\ IF w.token.write[1] \in Sweepers
             THEN n.retention.mark <= at /\ ExpiredBy(r, n.retention.mark)
             ELSE n.retention.mark = 0

(* A write that may be applied: over no tombstone.  A create begins an     *)
(* incarnation, a swap goes on with the one it is made over.               *)
Fit(w, x, made, at) ==
    /\ "write" \in DOMAIN w.token
    /\ IF w.expect = NoRow
       THEN LET n == RecordFromNew(w.patch, w.token)
            IN  /\ w.token.incarnation = w.token.write
                /\ n.retention \in Meta /\ (n.status = "destroyed" => n.retention.mark = 0)
       ELSE /\ "write" \in DOMAIN w.expect /\ w.expect.write \in made
            /\ w.token.incarnation = w.expect.incarnation
            /\ x # NoRow /\ x.token = w.expect =>
                  /\ x.status # "destroyed"
                  /\ Outcome(ApplyRegistryPatch(x, w.patch, w.token), x, w, at)

NamesOf(fly) == {w.token.write : w \in fly}

SegmentFine(x, fly, made, at) ==
    /\ x # NoRow => RowFine(x, made)
    /\ \A w \in fly : Fit(w, x, made, at) /\ w.token.write \notin made
    /\ \A w, u \in fly : w.token.write = u.token.write => w = u

(* The writes of a process that counts them by the set of their tokens.    *)
Numbered(p, sent) ==
    /\ IsFiniteSet(sent)
    /\ \A t \in sent : \E k \in 1..Cardinality(sent) : t.write = <<p, k>>

LoadFine(p, l, x, made) ==
    /\ DOMAIN l = DOMAIN Idle
    /\ Knows(l.rec, x, made)
    /\ Numbered(p, l.sent)

DropFine(d, s, x, made, at) ==
    /\ DOMAIN s = DOMAIN IdleDrop
    /\ Knows(s.rec, x, made)
    /\ s.writes \in Nat
    /\ s.now \in Nat /\ s.now <= at
    /\ IF s.pc = "start" THEN d \in Sweepers \/ s.writes = 0
       ELSE s.kind = "retire" <=> d \in Sweepers
    /\ s.pc = "write" => /\ s.rec # NoRow /\ s.rec.status # "destroyed"
                         /\ s.kind = "retire" => ExpiredBy(s.rec, s.now)

PolicyFine(s, c, x, made) ==
    /\ DOMAIN c = DOMAIN Unset
    /\ Knows(c.rec, x, made)
    /\ c.expiresAt \in Horizon
    /\ c.pc # "ended" => Numbered(s, c.sent)
    /\ c.pc = "start" => c.sent = {}
    /\ c.pc = "write" => c.rec = NoRow \/ c.rec.status # "destroyed"

SweepFine(s, x, made, at) ==
    /\ DOMAIN s = DOMAIN Resting
    /\ Knows(s.rec, x, made)
    /\ s.now \in Nat /\ s.now <= at

(* Every write has a name that its writer has counted.                     *)
MadeBy(x) ==
    \/ \E p \in Loaders : \E k \in 1..Cardinality(load[p].sent) : x = <<p, k>>
    \/ \E d \in Droppers \cup Sweepers : \E k \in 1..drop[d].writes : x = <<d, k>>
    \/ \E s \in Setters : IF policy[s].pc = "ended" THEN x[1] = s
                          ELSE \E k \in 1..Cardinality(policy[s].sent) : x = <<s, k>>
    \/ \E k \in 1..others : x = <<Other, k>>

Counted == \A x \in landed \cup NamesOf(inflight) : MadeBy(x)

Typed ==
    /\ clock \in Nat /\ others \in Nat
    /\ DOMAIN load = Loaders /\ DOMAIN drop = Droppers \cup Sweepers
    /\ DOMAIN policy = Setters /\ DOMAIN sweep = Sweepers

IInv ==
    /\ Typed
    /\ SegmentFine(row, inflight, landed, clock)
    /\ Counted
    /\ \A p \in Loaders : LoadFine(p, load[p], row, landed)
    /\ \A d \in Droppers \cup Sweepers : DropFine(d, drop[d], row, landed, clock)
    /\ \A s \in Setters : PolicyFine(s, policy[s], row, landed)
    /\ \A w \in Sweepers : SweepFine(sweep[w], row, landed, clock)

-----------------------------------------------------------------------------
(* The row and the writes on their way.                                    *)

(* A row that a write leaves is a row, under the token of the write.       *)
LEMMA RecordIsRow ==
    ASSUME NEW patch, NEW token, NEW n, n = RecordFromNew(patch, token)
    PROVE  n # NoRow /\ n.token = token /\ n.pointerId = token
  BY DEF RecordFromNew, NoRow

(* So is the row that a swap leaves; its pointer identity is the new token *)
(* or the old one.                                                         *)
LEMMA PatchedIsRow ==
    ASSUME NEW r, NEW patch, NEW token, NEW n, n = ApplyRegistryPatch(r, patch, token)
    PROVE  n # NoRow /\ n.token = token /\ n.pointerId \in {token, r.pointerId}
  BY DEF ApplyRegistryPatch, NoRow

(* The row after a write that is applied, as a value.                      *)
After(x, w) ==
    IF w.expect = NoRow THEN RecordFromNew(w.patch, w.token)
    ELSE ApplyRegistryPatch(x, w.patch, w.token)

Taken(x, w) == IF w.expect = NoRow THEN x = NoRow ELSE x # NoRow /\ x.token = w.expect

(* It is a row, and nothing else that is known has its token.              *)
LEMMA AfterIsFine ==
    ASSUME NEW x, NEW made, NEW at, NEW w, NEW n, n = After(x, w),
           x # NoRow => RowFine(x, made), Fit(w, x, made, at), Taken(x, w)
    PROVE  /\ n # NoRow /\ n.token = w.token
           /\ RowFine(n, made \cup {w.token.write})
  <1>1. CASE w.expect = NoRow
    <2>1. n = RecordFromNew(w.patch, w.token)
      BY <1>1 DEF After
    <2>2. n # NoRow /\ n.token = w.token /\ n.pointerId = w.token
      BY <2>1, RecordIsRow
    <2> QED
      BY <1>1, <2>1, <2>2 DEF Fit, RowFine
  <1>2. CASE w.expect # NoRow
    <2>1. n = ApplyRegistryPatch(x, w.patch, w.token)
      BY <1>2 DEF After
    <2>2. n # NoRow /\ n.token = w.token /\ n.pointerId \in {w.token, x.pointerId}
      BY <2>1, PatchedIsRow
    <2>3. x # NoRow /\ RowFine(x, made) /\ Outcome(n, x, w, at)
      BY <1>2, <2>1 DEF Fit, Taken
    <2>4. n.status = "destroyed" /\ n.retention.mark # 0 => n.pointerId.write[1] \in Sweepers
      BY <2>3 DEF Outcome
    <2>5. w.token.incarnation \in made
      BY <1>2, <2>3 DEF Fit, RowFine, Taken
    <2> QED
      BY <2>2, <2>3, <2>4, <2>5 DEF Fit, RowFine, Outcome
  <1> QED
    BY <1>1, <1>2

(* What is known stays known when a new write is applied,                  *)
LEMMA KnownAfter ==
    ASSUME NEW r, NEW x, NEW made, NEW n, NEW token, Knows(r, x, made),
           n.token = token, token.write \notin made
    PROVE  Knows(r, n, made \cup {token.write})
  BY DEF Knows, RowFine

(* and when the row goes.                                                  *)
LEMMA KnownGone ==
    ASSUME NEW r, NEW x, NEW made, Knows(r, x, made)
    PROVE  Knows(r, NoRow, made)
  BY DEF Knows

(* A write on its way may still be applied after another one was,          *)
LEMMA FitAfter ==
    ASSUME NEW u, NEW x, NEW made, NEW at, NEW n, NEW token, Fit(u, x, made, at),
           n.token = token, token.write \notin made
    PROVE  Fit(u, n, made \cup {token.write}, at)
  BY DEF Fit

(* when the row is gone, and later.                                        *)
LEMMA FitGone ==
    ASSUME NEW u, NEW x, NEW made, NEW at, Fit(u, x, made, at)
    PROVE  Fit(u, NoRow, made, at)
  BY DEF Fit

(* A write that fits now fits later.                                       *)
LEMMA FitLater ==
    ASSUME NEW u, NEW x, NEW made, NEW at \in Nat, NEW later \in Nat, at <= later,
           Fit(u, x, made, at)
    PROVE  Fit(u, x, made, later)
  <1> SUFFICES ASSUME u.expect # NoRow, x # NoRow, x.token = u.expect,
                      NEW n, n = ApplyRegistryPatch(x, u.patch, u.token), Outcome(n, x, u, at)
               PROVE  Outcome(n, x, u, later)
    BY Zenon DEF Fit
  <1>1. n.retention.mark \in Nat
    BY DEF Outcome, Meta
  <1> QED
    BY <1>1 DEF Outcome

(* The segment after one of the writes on their way was applied.           *)
LEMMA LateLands ==
    ASSUME NEW x, NEW fly, NEW made, NEW at, SegmentFine(x, fly, made, at),
           NEW w \in fly, Taken(x, w)
    PROVE  SegmentFine(After(x, w), fly \ {w}, made \cup {w.token.write}, at)
  <1>1. PICK n : n = After(x, w)
    OBVIOUS
  <1>2. Fit(w, x, made, at) /\ w.token.write \notin made
    BY DEF SegmentFine
  <1>3. n # NoRow /\ n.token = w.token /\ RowFine(n, made \cup {w.token.write})
    BY <1>1, <1>2, AfterIsFine DEF SegmentFine
  <1>4. ASSUME NEW u \in fly \ {w}
        PROVE  Fit(u, n, made \cup {w.token.write}, at) /\ u.token.write \notin made \cup {w.token.write}
    <2>1. Fit(u, x, made, at) /\ u.token.write \notin made /\ u.token.write # w.token.write
      BY DEF SegmentFine
    <2> QED
      BY <1>2, <1>3, <2>1, FitAfter
  <1> QED
    BY <1>1, <1>3, <1>4 DEF SegmentFine

(* After a new one was.                                                    *)
LEMMA NewLands ==
    ASSUME NEW x, NEW fly, NEW made, NEW at, SegmentFine(x, fly, made, at),
           NEW w, Fit(w, x, made, at), w.token.write \notin made \cup NamesOf(fly), Taken(x, w)
    PROVE  SegmentFine(After(x, w), fly, made \cup {w.token.write}, at)
  <1>1. PICK n : n = After(x, w)
    OBVIOUS
  <1>2. n # NoRow /\ n.token = w.token /\ RowFine(n, made \cup {w.token.write})
    BY <1>1, AfterIsFine DEF SegmentFine
  <1>3. ASSUME NEW u \in fly
        PROVE  Fit(u, n, made \cup {w.token.write}, at) /\ u.token.write \notin made \cup {w.token.write}
    <2>1. Fit(u, x, made, at) /\ u.token.write \notin made /\ u.token.write # w.token.write
      BY DEF SegmentFine, NamesOf
    <2> QED
      BY <1>2, <2>1, FitAfter
  <1> QED
    BY <1>1, <1>2, <1>3 DEF SegmentFine

(* With one more on its way, and with one less.                            *)
LEMMA NewFlies ==
    ASSUME NEW x, NEW fly, NEW made, NEW at, SegmentFine(x, fly, made, at),
           NEW w, Fit(w, x, made, at), w.token.write \notin made \cup NamesOf(fly)
    PROVE  SegmentFine(x, fly \cup {w}, made, at)
  BY DEF SegmentFine, NamesOf

(* A segment is as fine with one write less on its way.                    *)
LEMMA OneIsLost ==
    ASSUME NEW x, NEW fly, NEW made, NEW at, SegmentFine(x, fly, made, at), NEW w
    PROVE  SegmentFine(x, fly \ {w}, made, at)
  BY DEF SegmentFine

(* After the row went, and later.                                          *)
LEMMA RowGoes ==
    ASSUME NEW x, NEW fly, NEW made, NEW at, SegmentFine(x, fly, made, at)
    PROVE  SegmentFine(NoRow, fly, made, at)
  BY FitGone DEF SegmentFine

(* A segment is as fine later.                                             *)
LEMMA TimePasses ==
    ASSUME NEW x, NEW fly, NEW made, NEW at \in Nat, NEW later \in Nat, at <= later,
           SegmentFine(x, fly, made, at)
    PROVE  SegmentFine(x, fly, made, later)
  BY FitLater DEF SegmentFine

-----------------------------------------------------------------------------
(* The steps of a load that write nothing of the row.                      *)

(* It takes up the row as it is, or none, or what it has.                  *)
LoadKeeps(l, m) ==
    /\ DOMAIN m = DOMAIN Idle
    /\ m.sent = l.sent
    /\ m.rec \in {l.rec, row, NoRow}

RowStays == UNCHANGED <<row, inflight, landed, others>>

(* A load that ends, published or not, takes up nothing new.               *)
LEMMA EndKeeps ==
    ASSUME NEW l, NEW result
    PROVE  /\ LoadKeeps(l, End(l, result))
           /\ LoadKeeps(l, [End(l, result) EXCEPT !.pc = "published"])
  BY DEF LoadKeeps, End, Idle

(* Nor does one whose write was seen to land.                              *)
LEMMA PublishedKeeps ==
    ASSUME NEW p, NEW l, NEW before, NEW live, NEW m, m = Published(p, l, before, live)
    PROVE  LoadKeeps(l, m)
  <1>1. PICK kept : kept = IF l.seed.wanted THEN NotByName
                           ELSE Kept(LedgerSource(before), EntryOf(p, l), Keep, live)
    OBVIOUS
  <1>2. m = [End(l, "published") EXCEPT !.pc = "published", !.kept = kept]
    BY <1>1 DEF Published
  <1>3. PICK e : e = End(l, "published")
    OBVIOUS
  <1>4. LoadKeeps(l, e)
    BY <1>3, EndKeeps
  <1>5. m = [e EXCEPT !.pc = "published", !.kept = kept]
    BY <1>2, <1>3
  <1> QED
    BY <1>4, <1>5 DEF LoadKeeps, Idle

(* Nor does one that goes for another turn.                                *)
LEMMA TurnKeeps ==
    ASSUME NEW l, NEW m, NEW pc, LoadKeeps(l, m)
    PROVE  LoadKeeps(l, Turn(m, pc))
  BY DEF LoadKeeps, Turn, Idle

(* Nor does one that chooses what to seed its ledger from.                 *)
LEMMA SeedsKeep ==
    ASSUME NEW l, DOMAIN l = DOMAIN Idle, NEW present, NEW held, NEW m, m = Seeds(l, present, held)
    PROVE  LoadKeeps(l, m)
  <1>1. PICK order : order = SeedOrder(l, present, held)
    OBVIOUS
  <1>2. PICK pc, seed : /\ pc = IF order = <<>> THEN "decide" ELSE "seedRead"
                        /\ seed = [NoSeed EXCEPT !.wanted = TRUE, !.order = order,
                                                 !.todo = ToSet(order)]
    OBVIOUS
  <1>3. m = [l EXCEPT !.pc = pc, !.listed = {}, !.seed = seed]
    BY <1>1, <1>2 DEF Seeds
  <1> QED
    BY <1>3 DEF LoadKeeps, Idle

(* The steps up to the first write: reads, the number, the key, the put,   *)
(* the seed.                                                               *)
LEMMA LoadReads ==
    ASSUME NEW p \in Loaders, DOMAIN load[p] = DOMAIN Idle,
           \/ ReadRow(p) \/ Number(p) \/ ChooseKey(p) \/ Put(p)
           \/ SeedLeases(p) \/ SeedList(p) \/ SeedRead(p) \/ SeedFails(p)
    PROVE  RowStays /\ \E m : Becomes(p, m) /\ LoadKeeps(load[p], m)
  <1> DEFINE l == load[p]
  <1>1. CASE ReadRow(p)
    <2>1. LoadKeeps(l, [l EXCEPT !.pc = "number", !.base = row, !.rec = row])
      BY DEF LoadKeeps, Idle
    <2> QED
      BY <1>1, <2>1 DEF ReadRow, RowStays, segment
  <1>2. CASE Number(p)
    <2>1. PICK g, listed : Becomes(p, [l EXCEPT !.pc = "key", !.gen = g, !.listed = listed])
      BY <1>2, Zenon DEF Number
    <2>2. LoadKeeps(l, [l EXCEPT !.pc = "key", !.gen = g, !.listed = listed])
      BY DEF LoadKeeps, Idle
    <2> QED
      BY <1>2, <2>1, <2>2 DEF Number, RowStays, segment
  <1>3. CASE ChooseKey(p)
    <2>1. PICK key, mints : \/ Becomes(p, End(l, "error"))
                            \/ Becomes(p, [l EXCEPT !.pc = "put", !.key = key, !.minted = mints])
      BY <1>3, Zenon DEF ChooseKey
    <2>2. LoadKeeps(l, [l EXCEPT !.pc = "put", !.key = key, !.minted = mints])
      BY DEF LoadKeeps, Idle
    <2> QED
      BY <1>3, <2>1, <2>2, EndKeeps DEF ChooseKey, RowStays, segment
  <1>4. CASE Put(p)
    <2>1. PICK pc : \/ Becomes(p, End(l, "superseded"))
                    \/ Becomes(p, [l EXCEPT !.pc = pc])
                    \/ Becomes(p, [l EXCEPT !.pc = "reclaim", !.result = "refused"])
      BY <1>4, Zenon DEF Put
    <2>2. /\ LoadKeeps(l, [l EXCEPT !.pc = pc])
          /\ LoadKeeps(l, [l EXCEPT !.pc = "reclaim", !.result = "refused"])
      BY DEF LoadKeeps, Idle
    <2> QED
      BY <1>4, <2>1, <2>2, EndKeeps DEF Put, RowStays, segment
  <1>5. CASE SeedLeases(p)
    <2>1. PICK held : Becomes(p, IF l.listed # {} THEN Seeds(l, l.listed, held)
                                 ELSE [l EXCEPT !.pc = "seedList", !.seed.todo = held])
      BY <1>5, Zenon DEF SeedLeases
    <2>2. LoadKeeps(l, [l EXCEPT !.pc = "seedList", !.seed.todo = held])
      BY DEF LoadKeeps, Idle
    <2>3. LoadKeeps(l, Seeds(l, l.listed, held))
      BY SeedsKeep
    <2> QED
      BY <1>5, <2>1, <2>2, <2>3 DEF SeedLeases, RowStays, segment
  <1>6. CASE SeedList(p)
    <2>1. LoadKeeps(l, Seeds(l, Listed, l.seed.todo))
      BY SeedsKeep
    <2> QED
      BY <1>6, <2>1 DEF SeedList, RowStays, segment
  <1>7. CASE SeedRead(p)
    <2>1. PICK pc, seed : Becomes(p, [l EXCEPT !.pc = pc, !.seed = seed])
      BY <1>7, Zenon DEF SeedRead
    <2>2. LoadKeeps(l, [l EXCEPT !.pc = pc, !.seed = seed])
      BY DEF LoadKeeps, Idle
    <2> QED
      BY <1>7, <2>1, <2>2 DEF SeedRead, RowStays, segment
  <1>8. CASE SeedFails(p)
    <2>1. LoadKeeps(l, [l EXCEPT !.pc = "reclaim", !.result = "error"])
      BY DEF LoadKeeps, Idle
    <2> QED
      BY <1>8, <2>1 DEF SeedFails, RowStays, segment
  <1> QED
    BY <1>1, <1>2, <1>3, <1>4, <1>5, <1>6, <1>7, <1>8

(* The steps that settle what a write of the pointer did.                  *)
LEMMA LoadSettles ==
    ASSUME NEW p \in Loaders, DOMAIN load[p] = DOMAIN Idle,
           \/ SettleLanded(p) \/ Refuse(p) \/ WaitOutChurn(p) \/ RefuseSealed(p)
           \/ AskRow(p) \/ ReadAgain(p) \/ FinalRead(p)
    PROVE  RowStays /\ \E m : Becomes(p, m) /\ LoadKeeps(load[p], m)
  <1> DEFINE l == load[p]
  <1>1. CASE SettleLanded(p)
    <2>1. PICK live : Becomes(p, Published(p, l, l.before, live))
      BY <1>1, Zenon DEF SettleLanded
    <2>2. LoadKeeps(l, Published(p, l, l.before, live))
      BY PublishedKeeps
    <2> QED
      BY <1>1, <2>1, <2>2 DEF SettleLanded, RowStays, segment
  <1>2. CASE Refuse(p)
    <2>1. PICK early : Becomes(p, [l EXCEPT !.pc = "reclaim", !.result = "refused", !.early = early])
      BY <1>2, Zenon DEF Refuse
    <2>2. LoadKeeps(l, [l EXCEPT !.pc = "reclaim", !.result = "refused", !.early = early])
      BY DEF LoadKeeps, Idle
    <2> QED
      BY <1>2, <2>1, <2>2 DEF Refuse, RowStays, segment
  <1>3. CASE WaitOutChurn(p)
    <2>1. LoadKeeps(l, [l EXCEPT !.rec = row, !.waited = TRUE, !.before = None, !.churn = @ + 1])
      BY DEF LoadKeeps, Idle
    <2> QED
      BY <1>3, <2>1 DEF WaitOutChurn, RowStays, segment
  <1>4. CASE RefuseSealed(p)
    <2>1. /\ LoadKeeps(l, [l EXCEPT !.attempt = 1, !.before = None])
          /\ LoadKeeps(l, [l EXCEPT !.pc = "reclaim", !.result = "refused"])
      BY DEF LoadKeeps, Idle
    <2>2. LoadKeeps(l, Turn([l EXCEPT !.attempt = 1, !.before = None], "read"))
      BY <2>1, TurnKeeps
    <2> QED
      BY <1>4, <2>1, <2>2 DEF RefuseSealed, RowStays, segment
  <1>5. CASE AskRow(p)
    <2>1. /\ LoadKeeps(l, [l EXCEPT !.before = l.rec, !.rec = row, !.waited = FALSE,
                                    !.attempt = @ + 1])
          /\ LoadKeeps(l, [l EXCEPT !.rec = row, !.waited = FALSE, !.resends = @ + 1,
                                    !.attempt = @ + 1])
      BY DEF LoadKeeps, Idle
    <2>2. /\ LoadKeeps(l, Turn([l EXCEPT !.before = l.rec, !.rec = row, !.waited = FALSE,
                                    !.attempt = @ + 1], "decide"))
          /\ LoadKeeps(l, Turn([l EXCEPT !.rec = row, !.waited = FALSE, !.resends = @ + 1,
                                    !.attempt = @ + 1], "decide"))
      BY <2>1, TurnKeeps
    <2> QED
      BY <1>5, <2>2, EndKeeps DEF AskRow, RowStays, segment
  <1>6. CASE ReadAgain(p)
    <2>1. LoadKeeps(l, [l EXCEPT !.pc = "decide", !.rec = row, !.waited = FALSE])
      BY DEF LoadKeeps, Idle
    <2> QED
      BY <1>6, <2>1 DEF ReadAgain, RowStays, segment
  <1>7. CASE FinalRead(p)
    <2>1. LoadKeeps(l, [l EXCEPT !.pc = "reclaim", !.result = "refused"])
      BY DEF LoadKeeps, Idle
    <2>2. \/ Becomes(p, End(l, "unknown")) \/ Becomes(p, [End(l, "published") EXCEPT !.pc = "published"])
          \/ Becomes(p, [l EXCEPT !.pc = "reclaim", !.result = "refused"])
      BY <1>7, Zenon DEF FinalRead
    <2> QED
      BY <1>7, <2>1, <2>2, EndKeeps DEF FinalRead, RowStays, segment
  <1> QED
    BY <1>1, <1>2, <1>3, <1>4, <1>5, <1>6, <1>7

(* The steps after a refusal, and a load that is abandoned.                *)
LEMMA LoadReclaims ==
    ASSUME NEW p \in Loaders, DOMAIN load[p] = DOMAIN Idle,
           \/ Reclaim(p) \/ Delete(p) \/ Watch(p) \/ Abandon(p)
           \/ TidyFails(p) \/ DeleteUnanswered(p)
    PROVE  RowStays /\ \E m : Becomes(p, m) /\ LoadKeeps(load[p], m)
  <1> DEFINE l == load[p]
  <1>1. CASE Reclaim(p)
    <2>1. PICK pc : \/ Becomes(p, [l EXCEPT !.pc = pc, !.held = row])
                    \/ Becomes(p, End(l, l.result))
      BY <1>1, Zenon DEF Reclaim
    <2>2. LoadKeeps(l, [l EXCEPT !.pc = pc, !.held = row])
      BY DEF LoadKeeps, Idle
    <2> QED
      BY <1>1, <2>1, <2>2, EndKeeps DEF Reclaim, RowStays, segment
  <1>2. CASE Delete(p)
    <2>1. Becomes(p, [l EXCEPT !.pc = "watch"]) \/ Becomes(p, End(l, l.result))
      BY <1>2, Zenon DEF Delete
    <2>2. LoadKeeps(l, [l EXCEPT !.pc = "watch"])
      BY DEF LoadKeeps, Idle
    <2> QED
      BY <1>2, <2>1, <2>2, EndKeeps DEF Delete, RowStays
  <1>3. CASE Watch(p)
    <2>1. \/ Becomes(p, [l EXCEPT !.looks = @ + 1]) \/ Becomes(p, End(l, l.result))
          \/ Becomes(p, End(l, "missing"))
      BY <1>3, Zenon DEF Watch
    <2>2. LoadKeeps(l, [l EXCEPT !.looks = @ + 1])
      BY DEF LoadKeeps, Idle
    <2> QED
      BY <1>3, <2>1, <2>2, EndKeeps DEF Watch, RowStays, segment
  <1>4. CASE Abandon(p)
    BY <1>4, EndKeeps DEF Abandon, RowStays, segment
  <1>5. CASE TidyFails(p) \/ DeleteUnanswered(p)
    <2>1. LoadKeeps(l, Untidy(l))
      BY EndKeeps DEF LoadKeeps, Untidy, End, Idle
    <2> QED
      BY <1>5, <2>1 DEF TidyFails, DeleteUnanswered, RowStays, segment
  <1> QED
    BY <1>1, <1>2, <1>3, <1>4, <1>5
-----------------------------------------------------------------------------
(* The names of the writes.                                                *)

(* A name tells who made the write, and that it was counted.               *)
LEMMA WhoMade ==
    ASSUME NEW z, NEW n, MadeBy(<<z, n>>)
    PROVE  /\ z \in Loaders => n \in 1..Cardinality(load[z].sent)
           /\ z \in Droppers \cup Sweepers => n \in 1..drop[z].writes
           /\ z \in Setters => policy[z].pc = "ended" \/ n \in 1..Cardinality(policy[z].sent)
           /\ z = Other => n \in 1..others
  <1> USE LoadAssumption, DropAssumption, RetentionAssumption
  <1>1. CASE \E p \in Loaders : \E k \in 1..Cardinality(load[p].sent) : <<z, n>> = <<p, k>>
    <2>1. z \in Loaders /\ n \in 1..Cardinality(load[z].sent)
      BY <1>1
    <2> QED
      BY <2>1
  <1>2. CASE \E d \in Droppers \cup Sweepers : \E k \in 1..drop[d].writes : <<z, n>> = <<d, k>>
    <2>1. z \in Droppers \cup Sweepers /\ n \in 1..drop[z].writes
      BY <1>2
    <2> QED
      BY <2>1
  <1>3. CASE \E s \in Setters : IF policy[s].pc = "ended" THEN <<z, n>>[1] = s
                                ELSE \E k \in 1..Cardinality(policy[s].sent) : <<z, n>> = <<s, k>>
    <2>1. z \in Setters /\ (policy[z].pc = "ended" \/ n \in 1..Cardinality(policy[z].sent))
      BY <1>3
    <2> QED
      BY <2>1
  <1>4. CASE \E k \in 1..others : <<z, n>> = <<Other, k>>
    <2>1. z = Other /\ n \in 1..others
      BY <1>4
    <2> QED
      BY <2>1
  <1> QED
    BY <1>1, <1>2, <1>3, <1>4 DEF MadeBy

(* So the next write of each has a name of its own.                        *)
LEMMA NextIsNew ==
    ASSUME IInv, NEW z, NEW n,
           \/ z \in Loaders /\ n = Cardinality(load[z].sent) + 1
           \/ z \in Droppers \cup Sweepers /\ n = drop[z].writes + 1
           \/ z \in Setters /\ policy[z].pc # "ended" /\ n = Cardinality(policy[z].sent) + 1
           \/ z = Other /\ n = others + 1
    PROVE  <<z, n>> \notin landed \cup NamesOf(inflight)
  <1>1. z \in Loaders => Cardinality(load[z].sent) \in Nat
    BY FS_CardinalityType DEF IInv, LoadFine, Numbered
  <1>2. z \in Droppers \cup Sweepers => drop[z].writes \in Nat
    BY DEF IInv, DropFine
  <1>3. z \in Setters /\ policy[z].pc # "ended" => Cardinality(policy[z].sent) \in Nat
    BY FS_CardinalityType DEF IInv, PolicyFine, Numbered
  <1>4. others \in Nat
    BY DEF IInv, Typed
  <1>5. ~MadeBy(<<z, n>>)
    BY <1>1, <1>2, <1>3, <1>4, WhoMade
  <1> QED
    BY <1>5 DEF IInv, Counted

(* A set of numbered writes with the next one.                             *)
LEMMA OneMore ==
    ASSUME NEW p, NEW sent, Numbered(p, sent), NEW t, t.write = <<p, Cardinality(sent) + 1>>
    PROVE  /\ Numbered(p, sent \cup {t})
           /\ Cardinality(sent) \in Nat
           /\ Cardinality(sent \cup {t}) = Cardinality(sent) + 1
  <1>1. Cardinality(sent) \in Nat
    BY FS_CardinalityType DEF Numbered
  <1>2. t \notin sent
    BY <1>1 DEF Numbered
  <1>3. IsFiniteSet(sent \cup {t}) /\ Cardinality(sent \cup {t}) = Cardinality(sent) + 1
    BY <1>2, FS_AddElement DEF Numbered
  <1>4. ASSUME NEW u \in sent \cup {t}
        PROVE  \E k \in 1..Cardinality(sent \cup {t}) : u.write = <<p, k>>
    <2>1. CASE u \in sent
      <3>1. PICK k \in 1..Cardinality(sent) : u.write = <<p, k>>
        BY <2>1 DEF Numbered
      <3>2. k \in 1..Cardinality(sent \cup {t})
        BY <1>1, <1>3
      <3> QED
        BY <3>1, <3>2
    <2>2. CASE u = t
      <3>1. Cardinality(sent) + 1 \in 1..Cardinality(sent \cup {t})
        BY <1>1, <1>3
      <3> QED
        BY <2>2, <3>1
    <2> QED
      BY <2>1, <2>2
  <1> QED
    BY <1>1, <1>3, <1>4 DEF Numbered

(* A write that was counted stays counted.                                 *)
LEMMA CountsGrow ==
    ASSUME others \in Nat, others' \in Nat, others <= others',
           \A p \in Loaders : /\ Cardinality(load[p].sent) \in Nat
                              /\ Cardinality(load'[p].sent) \in Nat
                              /\ Cardinality(load[p].sent) <= Cardinality(load'[p].sent),
           \A d \in Droppers \cup Sweepers : /\ drop[d].writes \in Nat /\ drop'[d].writes \in Nat
                                             /\ drop[d].writes <= drop'[d].writes,
           \A s \in Setters : \/ policy'[s].pc = "ended"
                              \/ /\ policy[s].pc # "ended"
                                 /\ Cardinality(policy[s].sent) \in Nat
                                 /\ Cardinality(policy'[s].sent) \in Nat
                                 /\ Cardinality(policy[s].sent) <= Cardinality(policy'[s].sent),
           NEW x, MadeBy(x)
    PROVE  MadeBy(x)'
  <1>1. CASE \E p \in Loaders : \E k \in 1..Cardinality(load[p].sent) : x = <<p, k>>
    <2>1. PICK p \in Loaders : \E k \in 1..Cardinality(load[p].sent) : x = <<p, k>>
      BY <1>1
    <2>2. PICK k \in 1..Cardinality(load[p].sent) : x = <<p, k>>
      BY <2>1
    <2>3. k \in 1..Cardinality(load'[p].sent)
      OBVIOUS
    <2> QED
      BY <2>2, <2>3 DEF MadeBy
  <1>2. CASE \E d \in Droppers \cup Sweepers : \E k \in 1..drop[d].writes : x = <<d, k>>
    <2>1. PICK d \in Droppers \cup Sweepers : \E k \in 1..drop[d].writes : x = <<d, k>>
      BY <1>2
    <2>2. PICK k \in 1..drop[d].writes : x = <<d, k>>
      BY <2>1
    <2>3. k \in 1..drop'[d].writes
      OBVIOUS
    <2> QED
      BY <2>2, <2>3 DEF MadeBy
  <1>3. CASE \E s \in Setters : IF policy[s].pc = "ended" THEN x[1] = s
                                ELSE \E k \in 1..Cardinality(policy[s].sent) : x = <<s, k>>
    <2>1. PICK s \in Setters : IF policy[s].pc = "ended" THEN x[1] = s
                               ELSE \E k \in 1..Cardinality(policy[s].sent) : x = <<s, k>>
      BY <1>3
    <2>2. CASE policy'[s].pc = "ended"
      <3>1. x[1] = s
        BY <2>1
      <3> QED
        BY <2>2, <3>1 DEF MadeBy
    <2>3. CASE policy'[s].pc # "ended"
      <3>1. PICK k \in 1..Cardinality(policy[s].sent) : x = <<s, k>>
        BY <2>1, <2>3
      <3>2. k \in 1..Cardinality(policy'[s].sent)
        BY <2>3
      <3> QED
        BY <2>3, <3>1, <3>2 DEF MadeBy
    <2> QED
      BY <2>2, <2>3
  <1>4. CASE \E k \in 1..others : x = <<Other, k>>
    <2>1. PICK k \in 1..others : x = <<Other, k>>
      BY <1>4
    <2>2. k \in 1..others'
      OBVIOUS
    <2> QED
      BY <2>1, <2>2 DEF MadeBy
  <1> QED
    BY <1>1, <1>2, <1>3, <1>4 DEF MadeBy

-----------------------------------------------------------------------------
(* A step as a whole: what is to be shown of it.                           *)

Follows(x, made, y, more) == \A r : Knows(r, x, made) => Knows(r, y, more)

LoadGrows(l, m)   == Cardinality(l.sent) <= Cardinality(m.sent)
DropGrows(s, t)   == s.writes <= t.writes
PolicyGrows(c, b) == b.pc = "ended" \/ (c.pc # "ended" /\ Cardinality(c.sent) <= Cardinality(b.sent))

(* The invariant outlives a step when the segment stays fine, what is      *)
(* known stays known, new writes are counted, and each process that        *)
(* changed is fine.                                                        *)
LEMMA StepIsFine ==
    ASSUME IInv, Typed', SegmentFine(row, inflight, landed, clock)',
           Follows(row, landed, row', landed'), clock <= clock', others <= others',
           \A x \in (landed \cup NamesOf(inflight))' :
               x \in landed \cup NamesOf(inflight) \/ MadeBy(x)',
           \A p \in Loaders : load'[p] = load[p]
               \/ (LoadFine(p, load'[p], row', landed') /\ LoadGrows(load[p], load'[p])),
           \A d \in Droppers \cup Sweepers : drop'[d] = drop[d]
               \/ (DropFine(d, drop'[d], row', landed', clock') /\ DropGrows(drop[d], drop'[d])),
           \A s \in Setters : policy'[s] = policy[s]
               \/ (PolicyFine(s, policy'[s], row', landed') /\ PolicyGrows(policy[s], policy'[s])),
           \A w \in Sweepers : sweep'[w] = sweep[w] \/ SweepFine(sweep'[w], row', landed', clock')
    PROVE  IInv'
  <1>1. \A p \in Loaders : LoadFine(p, load'[p], row', landed') /\ LoadGrows(load[p], load'[p])
    <2> SUFFICES ASSUME NEW p \in Loaders, load'[p] = load[p]
                 PROVE  LoadFine(p, load'[p], row', landed') /\ LoadGrows(load[p], load'[p])
      OBVIOUS
    <2>1. LoadFine(p, load[p], row, landed)
      BY DEF IInv
    <2>2. Cardinality(load[p].sent) \in Nat
      BY <2>1, FS_CardinalityType DEF LoadFine, Numbered
    <2> QED
      BY <2>1, <2>2 DEF LoadFine, Follows, LoadGrows
  <1>2. \A d \in Droppers \cup Sweepers : /\ DropFine(d, drop'[d], row', landed', clock')
                                          /\ DropGrows(drop[d], drop'[d])
    <2> SUFFICES ASSUME NEW d \in Droppers \cup Sweepers, drop'[d] = drop[d]
                 PROVE  DropFine(d, drop'[d], row', landed', clock') /\ DropGrows(drop[d], drop'[d])
      OBVIOUS
    <2>1. DropFine(d, drop[d], row, landed, clock)
      BY DEF IInv
    <2>2. drop[d].now <= clock'
      BY <2>1 DEF DropFine, Typed, IInv
    <2> QED
      BY <2>1, <2>2 DEF DropFine, Follows, DropGrows
  <1>3. \A s \in Setters : /\ PolicyFine(s, policy'[s], row', landed')
                           /\ PolicyGrows(policy[s], policy'[s])
    <2> SUFFICES ASSUME NEW s \in Setters, policy'[s] = policy[s]
                 PROVE  PolicyFine(s, policy'[s], row', landed') /\ PolicyGrows(policy[s], policy'[s])
      OBVIOUS
    <2>1. PolicyFine(s, policy[s], row, landed)
      BY DEF IInv
    <2>2. policy[s].pc # "ended" => Cardinality(policy[s].sent) \in Nat
      BY <2>1, FS_CardinalityType DEF PolicyFine, Numbered
    <2> QED
      BY <2>1, <2>2 DEF PolicyFine, Follows, PolicyGrows
  <1>4. \A w \in Sweepers : SweepFine(sweep'[w], row', landed', clock')
    <2> SUFFICES ASSUME NEW w \in Sweepers, sweep'[w] = sweep[w]
                 PROVE  SweepFine(sweep'[w], row', landed', clock')
      OBVIOUS
    <2>1. SweepFine(sweep[w], row, landed, clock)
      BY DEF IInv
    <2>2. sweep[w].now <= clock'
      BY <2>1 DEF SweepFine, Typed, IInv
    <2> QED
      BY <2>1, <2>2 DEF SweepFine, Follows
  <1>5. ASSUME NEW x, MadeBy(x)
        PROVE  MadeBy(x)'
    <2>1. others \in Nat /\ others' \in Nat
      BY DEF IInv, Typed
    <2>2. \A p \in Loaders : /\ Cardinality(load[p].sent) \in Nat
                             /\ Cardinality(load'[p].sent) \in Nat
                             /\ Cardinality(load[p].sent) <= Cardinality(load'[p].sent)
      BY <1>1, FS_CardinalityType DEF IInv, LoadFine, Numbered, LoadGrows
    <2>3. \A d \in Droppers \cup Sweepers : /\ drop[d].writes \in Nat /\ drop'[d].writes \in Nat
                                            /\ drop[d].writes <= drop'[d].writes
      BY <1>2 DEF IInv, DropFine, DropGrows
    <2>4. \A s \in Setters : \/ policy'[s].pc = "ended"
                             \/ /\ policy[s].pc # "ended"
                                /\ Cardinality(policy[s].sent) \in Nat
                                /\ Cardinality(policy'[s].sent) \in Nat
                                /\ Cardinality(policy[s].sent) <= Cardinality(policy'[s].sent)
      BY <1>3, FS_CardinalityType DEF IInv, PolicyFine, Numbered, PolicyGrows
    <2> QED
      BY <1>5, <2>1, <2>2, <2>3, <2>4, CountsGrow
  <1>6. Counted'
    BY <1>5 DEF Counted, IInv
  <1> QED
    BY <1>1, <1>2, <1>3, <1>4, <1>6 DEF IInv
-----------------------------------------------------------------------------
(* What a step makes of the segment.                                       *)

(* What RetiresOnlyExpired says of a step.                                 *)
RetireStep ==
    Active /\ row' # NoRow /\ row'.status = "destroyed" /\ row'.pointerId.write[1] \in Sweepers
    => row'.retention.mark <= clock /\ ExpiredBy(row, row'.retention.mark)

(* A tombstone stays or goes, no incarnation comes back, and what was      *)
(* applied was.                                                            *)
TombstonesStay ==
    /\ landed \subseteq landed'
    /\ row # NoRow /\ row.status = "destroyed" => row' \in {row, NoRow} /\ landed' = landed
    /\ row' # NoRow => \/ row # NoRow /\ row'.token.incarnation = row.token.incarnation
                       \/ row'.token.incarnation \notin landed

RowStep == RetireStep /\ TombstonesStay

(* The row and the writes after the step are fine, what was known of them  *)
(* is known still, and no write but w is new.                              *)
Moved(w) ==
    /\ SegmentFine(row, inflight, landed, clock)'
    /\ Follows(row, landed, row', landed')
    /\ \A x \in (landed \cup NamesOf(inflight))' :
          x \in landed \cup NamesOf(inflight) \/ x = w.token.write
    /\ RowStep

Stayed ==
    /\ SegmentFine(row, inflight, landed, clock)'
    /\ Follows(row, landed, row', landed')
    /\ \A x \in (landed \cup NamesOf(inflight))' : x \in landed \cup NamesOf(inflight)
    /\ RowStep

(* A write retires only what had expired, and is applied over no           *)
(* tombstone.                                                              *)
LEMMA WriteSteps ==
    ASSUME NEW w, Fit(w, row, landed, clock), w.token.write \notin landed, Accepts(w), Apply(w)
    PROVE  RowStep
  <1>0. row' = RowAfter(w) /\ landed' = landed \cup {w.token.write}
    BY DEF Apply
  <1>1. RetireStep
    <2> SUFFICES ASSUME row # NoRow, row'.status = "destroyed", row'.pointerId.write[1] \in Sweepers
                 PROVE  row'.retention.mark <= clock /\ ExpiredBy(row, row'.retention.mark)
      BY DEF RetireStep, Active
    <2>1. w.expect # NoRow /\ row.token = w.expect
      BY DEF Accepts
    <2>2. row' = ApplyRegistryPatch(row, w.patch, w.token)
      BY <1>0, <2>1 DEF RowAfter
    <2>3. Outcome(row', row, w, clock)
      BY <2>1, <2>2, Zenon DEF Fit
    <2> QED
      BY <2>3 DEF Outcome
  <1>2. CASE w.expect = NoRow
    <2>1. row = NoRow /\ row' = RecordFromNew(w.patch, w.token)
      BY <1>0, <1>2 DEF Accepts, RowAfter
    <2>2. row'.token = w.token
      BY <2>1, RecordIsRow
    <2>3. w.token.incarnation = w.token.write
      BY <1>2, Zenon DEF Fit
    <2> QED
      BY <1>0, <1>1, <2>1, <2>2, <2>3 DEF RowStep, TombstonesStay
  <1>3. CASE w.expect # NoRow
    <2>1. row # NoRow /\ row.token = w.expect /\ row' = ApplyRegistryPatch(row, w.patch, w.token)
      BY <1>0, <1>3 DEF Accepts, RowAfter
    <2>2. row'.token = w.token
      BY <2>1, PatchedIsRow
    <2>3. w.token.incarnation = w.expect.incarnation /\ row.status # "destroyed"
      BY <1>3, <2>1, Zenon DEF Fit
    <2> QED
      BY <1>0, <1>1, <2>1, <2>2, <2>3 DEF RowStep, TombstonesStay
  <1> QED
    BY <1>2, <1>3

(* A write that fits, under a new name, may be applied or sent.            *)
LEMMA WriteMoves ==
    ASSUME IInv, clock' = clock,
           NEW w, Fit(w, row, landed, clock), w.token.write \notin landed \cup NamesOf(inflight),
           \/ Accepts(w) /\ Apply(w) /\ inflight' = inflight
           \/ inflight' = inflight \cup {w} /\ row' = row /\ landed' = landed
    PROVE  Moved(w)
  <1>0. SegmentFine(row, inflight, landed, clock)
    BY DEF IInv
  <1>1. CASE Accepts(w) /\ Apply(w) /\ inflight' = inflight
    <2>1. Taken(row, w) /\ row' = After(row, w) /\ landed' = landed \cup {w.token.write}
      BY <1>1 DEF Accepts, Apply, Taken, After, RowAfter
    <2>2. SegmentFine(row, inflight, landed, clock)'
      BY <1>0, <1>1, <2>1, NewLands
    <2>3. row'.token = w.token
      BY <1>0, <2>1, AfterIsFine DEF SegmentFine
    <2>4. Follows(row, landed, row', landed')
      BY <2>1, <2>3, KnownAfter DEF Follows
    <2>5. RowStep
      BY <1>1, WriteSteps
    <2> QED
      BY <1>1, <2>1, <2>2, <2>4, <2>5 DEF Moved, NamesOf
  <1>2. CASE inflight' = inflight \cup {w} /\ row' = row /\ landed' = landed
    <2>1. SegmentFine(row, inflight, landed, clock)'
      BY <1>0, <1>2, NewFlies
    <2>2. RowStep
      BY <1>0, <1>2 DEF RowStep, RetireStep, TombstonesStay, Active
    <2> QED
      BY <1>2, <2>1, <2>2 DEF Moved, NamesOf, Follows
  <1> QED
    BY <1>1, <1>2

(* Nothing moves when the row stays, though writes are lost and time       *)
(* passes.                                                                 *)
LEMMA NothingMoves ==
    ASSUME IInv, row' = row, landed' = landed, inflight' \subseteq inflight, clock' \in Nat,
           clock <= clock'
    PROVE  Stayed
  <1>1. SegmentFine(row, inflight, landed, clock) /\ clock \in Nat
    BY DEF IInv, Typed
  <1>2. SegmentFine(row, inflight, landed, clock')
    BY <1>1, TimePasses
  <1>3. SegmentFine(row, inflight, landed, clock)'
    BY <1>2 DEF SegmentFine
  <1>4. RowStep
    BY DEF RowStep, RetireStep, TombstonesStay, Active
  <1> QED
    BY <1>3, <1>4 DEF Stayed, NamesOf, Follows

(* A row may go.                                                           *)
LEMMA GoneMoves ==
    ASSUME IInv, row' = NoRow, UNCHANGED <<landed, inflight, clock>>
    PROVE  Stayed
  <1>1. SegmentFine(row, inflight, landed, clock)'
    BY RowGoes DEF IInv
  <1>2. Follows(row, landed, row', landed')
    BY KnownGone DEF Follows
  <1> QED
    BY <1>1, <1>2 DEF Stayed, NamesOf, RowStep, RetireStep, TombstonesStay

(* A write that got no answer may be applied late, dropped or lost.        *)
LEMMA LateMoves ==
    ASSUME IInv, LateWrite, clock' = clock
    PROVE  Stayed
  <1>1. PICK w \in inflight : LateWriteArrives(w) \/ WriteIsLost(w)
    BY DEF LateWrite
  <1>2. CASE Accepts(w) /\ Apply(w) /\ inflight' = inflight \ {w}
    <2>1. Taken(row, w) /\ row' = After(row, w) /\ landed' = landed \cup {w.token.write}
      BY <1>2 DEF Accepts, Apply, Taken, After, RowAfter
    <2>2. SegmentFine(row, inflight, landed, clock) /\ Fit(w, row, landed, clock)
          /\ w.token.write \notin landed
      BY DEF IInv, SegmentFine
    <2>3. SegmentFine(row, inflight, landed, clock)'
      BY <1>2, <2>1, <2>2, LateLands
    <2>4. row'.token = w.token
      BY <2>1, <2>2, AfterIsFine DEF SegmentFine
    <2>5. Follows(row, landed, row', landed')
      BY <2>1, <2>2, <2>4, KnownAfter DEF Follows
    <2>6. RowStep
      BY <1>2, <2>2, WriteSteps
    <2> QED
      BY <1>2, <2>1, <2>3, <2>5, <2>6 DEF Stayed, NamesOf
  <1>3. CASE row' = row /\ landed' = landed /\ inflight' = inflight \ {w}
    BY <1>3, NothingMoves DEF IInv, Typed
  <1> QED
    BY <1>1, <1>2, <1>3 DEF LateWriteArrives, WriteIsLost

(* The row is known to itself, and so is no row.                           *)
LEMMA RowIsKnown ==
    ASSUME IInv
    PROVE  Knows(row, row, landed) /\ Knows(NoRow, row, landed)
  BY DEF IInv, SegmentFine, Knows

-----------------------------------------------------------------------------
(* The steps of a load.                                                    *)

(* One load steps.                                                         *)
LEMMA LoadIsFine ==
    ASSUME IInv, NEW p \in Loaders, NEW m, Becomes(p, m),
           UNCHANGED <<clock, others, drop, policy, sweep>>,
           SegmentFine(row, inflight, landed, clock)', Follows(row, landed, row', landed'),
           \A x \in (landed \cup NamesOf(inflight))' :
               \/ x \in landed \cup NamesOf(inflight)
               \/ \E k \in 1..Cardinality(m.sent) : x = <<p, k>>,
           LoadFine(p, m, row', landed'), LoadGrows(load[p], m)
    PROVE  IInv'
  <1>1. Typed' /\ load'[p] = m /\ \A q \in Loaders : q # p => load'[q] = load[q]
    BY DEF Becomes, IInv, Typed
  <1>2. \A x : (\E k \in 1..Cardinality(m.sent) : x = <<p, k>>) => MadeBy(x)'
    BY <1>1 DEF MadeBy
  <1>3. clock <= clock' /\ others <= others'
    BY DEF IInv, Typed
  <1>4. \A q \in Loaders : load'[q] = load[q]
            \/ (LoadFine(q, load'[q], row', landed') /\ LoadGrows(load[q], load'[q]))
    BY <1>1
  <1>5. \A x \in (landed \cup NamesOf(inflight))' : x \in landed \cup NamesOf(inflight) \/ MadeBy(x)'
    BY <1>2
  <1> QED
    BY <1>1, <1>3, <1>4, <1>5, StepIsFine

(* A step of a load that writes nothing of the row.                        *)
LEMMA LoadKeepsFine ==
    ASSUME IInv, NEW p \in Loaders, NEW m, Becomes(p, m), LoadKeeps(load[p], m), RowStays,
           UNCHANGED <<clock, drop, policy, sweep>>
    PROVE  IInv' /\ RowStep
  <1>1. Stayed
    BY NothingMoves DEF RowStays, IInv, Typed
  <1>2. LoadFine(p, load[p], row, landed)
    BY DEF IInv
  <1>3. Knows(m.rec, row, landed)
    BY <1>2, RowIsKnown DEF LoadFine, LoadKeeps
  <1>4. LoadFine(p, m, row', landed')
    BY <1>2, <1>3 DEF LoadFine, LoadKeeps, RowStays
  <1>5. LoadGrows(load[p], m)
    BY <1>2, FS_CardinalityType DEF LoadFine, Numbered, LoadGrows, LoadKeeps
  <1>6. IInv'
    BY <1>1, <1>4, <1>5, LoadIsFine DEF Stayed, RowStays
  <1> QED
    BY <1>1, <1>6 DEF Stayed

(* The patch of a load names no status and no retention.                   *)
LEMMA PatchLeaves ==
    ASSUME NEW p, NEW l, NEW live, NEW keyed, NEW patch, patch = PatchOf(p, l, live, keyed)
    PROVE  "status" \notin DOMAIN patch /\ "retention" \notin DOMAIN patch
  <1>1. PICK all : all = [currentGen |-> l.gen, summary |-> SummaryOf(p, l),
                          knownGens |-> LedgerAfter(p, l, l.rec, live),
                          wrappedDeks |-> l.key, leases |-> live]
    OBVIOUS
  <1>2. PICK fields : fields = {"currentGen", "summary", "knownGens"}
                                  \cup (IF keyed THEN {"wrappedDeks"} ELSE {})
                                  \cup (IF CurrentGenOf(l.rec) = NoGen THEN {} ELSE {"leases"})
    OBVIOUS
  <1>3. patch = [f \in fields |-> all[f]]
    BY <1>1, <1>2 DEF PatchOf, Restrict, Of
  <1>4. "status" \notin fields /\ "retention" \notin fields
    BY <1>2
  <1> QED
    BY <1>3, <1>4

(* What a write leaves that names neither.                                 *)
LEMMA Leaves ==
    ASSUME NEW r, NEW patch, NEW token,
           "status" \notin DOMAIN patch, "retention" \notin DOMAIN patch
    PROVE  /\ LET n == RecordFromNew(patch, token)
              IN  n.status = "active" /\ n.retention = NoMeta
           /\ LET n == ApplyRegistryPatch(r, patch, token)
              IN  n.status = r.status /\ n.retention = r.retention
  BY DEF RecordFromNew, ApplyRegistryPatch, BlankRow

(* A row without a policy has retention metadata like any other.           *)
LEMMA NoMetaIsMeta == NoMeta \in Meta /\ 0 \in Horizon
  BY RetentionAssumption DEF NoMeta, Meta, Horizon

(* A write made over what its writer knows, of a row that is no tombstone, *)
(* is fit if what it makes of that row is.                                 *)
LEMMA SwapIsFit ==
    ASSUME NEW r, NEW x, NEW made, NEW at, NEW patch, NEW write, NEW w,
           r # NoRow, Knows(r, x, made), r.status # "destroyed", w = SwapOf(r, patch, write),
           Outcome(ApplyRegistryPatch(r, patch, w.token), r, w, at)
    PROVE  Fit(w, x, made, at) /\ w.token.write = write
  <1>1. /\ w.expect = r.token /\ w.patch = patch /\ w.token.write = write
        /\ "write" \in DOMAIN w.token /\ w.token.incarnation = r.token.incarnation
    BY DEF SwapOf, NextRegistryToken
  <1>2. w.expect # NoRow /\ "write" \in DOMAIN w.expect /\ w.expect.write \in made
    BY <1>1 DEF Knows, RowFine, NoRow
  <1>3. x # NoRow /\ x.token = w.expect => x = r
    BY <1>1 DEF Knows
  <1> QED
    BY <1>1, <1>2, <1>3 DEF Fit

(* What a load sends fits: a create, or a swap of a row that is no         *)
(* tombstone.                                                              *)
LEMMA RequestFits ==
    ASSUME IInv, NEW p \in Loaders, NEW l, l = load[p], Sends(l), NEW live,
           NEW w, w = RequestOf(p, l, live)
    PROVE  Fit(w, row, landed, clock) /\ w.token.write = <<p, Cardinality(l.sent) + 1>>
  <1>1. PICK patch, write : /\ write = <<p, Cardinality(l.sent) + 1>>
                            /\ patch = PatchOf(p, l, live, l.minted /\ CurrentGenOf(l.rec) = NoGen)
    OBVIOUS
  <1>2. w = IF l.rec = NoRow THEN CreateOf(patch, write) ELSE SwapOf(l.rec, patch, write)
    BY <1>1, Zenon DEF RequestOf, RequestWith
  <1>3. "status" \notin DOMAIN patch /\ "retention" \notin DOMAIN patch
    BY <1>1, PatchLeaves
  <1>4. CASE l.rec = NoRow
    <2>1. /\ w.expect = NoRow /\ w.patch = patch /\ w.token.write = write
          /\ "write" \in DOMAIN w.token /\ w.token.incarnation = w.token.write
      BY <1>2, <1>4 DEF CreateOf, NewIncarnationToken
    <2>2. PICK n : n = RecordFromNew(w.patch, w.token)
      OBVIOUS
    <2>3. n.status = "active" /\ n.retention = NoMeta
      BY <1>3, <2>1, <2>2, Leaves
    <2> QED
      BY <1>1, <2>1, <2>2, <2>3, NoMetaIsMeta DEF Fit
  <1>5. CASE l.rec # NoRow
    <2>1. PICK r : r = l.rec
      OBVIOUS
    <2>2. Knows(r, row, landed) /\ r # NoRow /\ r.status # "destroyed"
      BY <1>5, <2>1 DEF IInv, LoadFine, Sends, Invalid
    <2>3. PICK n : n = ApplyRegistryPatch(r, patch, w.token)
      OBVIOUS
    <2>4. n.status = r.status /\ n.retention = r.retention
      BY <1>3, <2>3, Leaves
    <2>5. Outcome(n, r, w, clock)
      BY <2>2, <2>4 DEF Outcome, Knows, RowFine
    <2> QED
      BY <1>1, <1>2, <1>5, <2>1, <2>2, <2>3, <2>5, SwapIsFit
  <1> QED
    BY <1>4, <1>5

(* A load sends, whatever becomes of the request.                          *)
LEMMA SendIsFine ==
    ASSUME IInv, NEW p \in Loaders, NEW l, l = load[p], Deciding(p), Sends(l), NEW live,
           NEW w, w = RequestOf(p, l, live), NEW m, Becomes(p, m),
           DOMAIN m = DOMAIN Idle, m.sent = l.sent \cup {w.token}, m.rec \in {l.rec, row, NoRow},
           UNCHANGED <<clock, others, drop, policy, sweep>>,
           \/ Accepts(w) /\ Apply(w) /\ inflight' = inflight
           \/ inflight' = inflight \cup {w} /\ row' = row /\ landed' = landed
           \/ UNCHANGED <<row, landed, inflight>>
    PROVE  IInv' /\ RowStep
  <1>1. Fit(w, row, landed, clock) /\ w.token.write = <<p, Cardinality(l.sent) + 1>>
    BY RequestFits
  <1>2. w.token.write \notin landed \cup NamesOf(inflight)
    BY <1>1, NextIsNew
  <1>3. Moved(w)
    <2>1. CASE UNCHANGED <<row, landed, inflight>>
      <3>1. Stayed
        BY <2>1, NothingMoves DEF IInv, Typed
      <3> QED
        BY <3>1 DEF Moved, Stayed
    <2>2. CASE \/ Accepts(w) /\ Apply(w) /\ inflight' = inflight
               \/ inflight' = inflight \cup {w} /\ row' = row /\ landed' = landed
      BY <1>1, <1>2, <2>2, WriteMoves
    <2> QED
      BY <2>1, <2>2
  <1>4. LoadFine(p, l, row, landed)
    BY DEF IInv
  <1>5. /\ Numbered(p, m.sent) /\ Cardinality(l.sent) \in Nat
        /\ Cardinality(m.sent) = Cardinality(l.sent) + 1
    BY <1>1, <1>4, OneMore DEF LoadFine
  <1>6. Knows(m.rec, row, landed)
    BY <1>4, RowIsKnown DEF LoadFine
  <1>7. LoadFine(p, m, row', landed')
    BY <1>3, <1>5, <1>6 DEF Moved, Follows, LoadFine
  <1>8. LoadGrows(l, m)
    BY <1>5 DEF LoadGrows
  <1>9. Cardinality(l.sent) + 1 \in 1..Cardinality(m.sent)
    BY <1>5
  <1>10. IInv'
    BY <1>1, <1>3, <1>7, <1>8, <1>9, LoadIsFine DEF Moved
  <1> QED
    BY <1>3, <1>10 DEF Moved

(* The two actions in which a load sends.                                  *)
LEMMA LoadSends ==
    ASSUME IInv, NEW p \in Loaders, SendAnswered(p) \/ SendUnanswered(p),
           UNCHANGED <<clock, drop, policy, sweep>>
    PROVE  IInv' /\ RowStep
  <1>0. PICK l : l = load[p]
    OBVIOUS
  <1>1. DOMAIN l = DOMAIN Idle
    BY <1>0 DEF IInv, LoadFine
  <1>2. CASE SendAnswered(p)
    <2>1. PICK live, w, after :
             /\ w = RequestOf(p, l, live) /\ after = [l EXCEPT !.sent = @ \cup {w.token}]
             /\ IF Accepts(w)
                THEN /\ Apply(w)
                     /\ Becomes(p, Published(p, after, l.rec, live))
                ELSE /\ Becomes(p, Turn([after EXCEPT
                               !.before = l.rec,
                               !.attempt = IF TokenMoved(l) THEN @ ELSE @ + 1], "read"))
                     /\ UNCHANGED <<row, landed>>
      BY <1>0, <1>2, Zenon DEF SendAnswered
    <2>2. Deciding(p) /\ Sends(l) /\ UNCHANGED <<objects, inflight, others>>
      BY <1>0, <1>2, Zenon DEF SendAnswered
    <2>3. DOMAIN after = DOMAIN Idle /\ after.sent = l.sent \cup {w.token} /\ after.rec = l.rec
      BY <1>1, <2>1 DEF Idle
    <2>4. CASE Accepts(w)
      <3>1. PICK m : m = Published(p, after, l.rec, live)
        OBVIOUS
      <3>2. LoadKeeps(after, m)
        BY <3>1, PublishedKeeps
      <3>3. DOMAIN m = DOMAIN Idle /\ m.sent = l.sent \cup {w.token} /\ m.rec \in {l.rec, row, NoRow}
        BY <2>3, <3>2 DEF LoadKeeps
      <3>4. Apply(w) /\ Becomes(p, m)
        BY <2>1, <2>4, <3>1
      <3> QED
        BY <1>0, <2>1, <2>2, <2>4, <3>3, <3>4, SendIsFine
    <2>5. CASE ~Accepts(w)
      <3>1. PICK attempt : attempt = IF TokenMoved(l) THEN after.attempt ELSE after.attempt + 1
        OBVIOUS
      <3>2. PICK turn : turn = [after EXCEPT !.before = l.rec, !.attempt = attempt]
        OBVIOUS
      <3>3. PICK m : m = Turn(turn, "read")
        OBVIOUS
      <3>4. LoadKeeps(after, turn)
        BY <2>3, <3>2 DEF LoadKeeps, Idle
      <3>5. LoadKeeps(after, m)
        BY <3>3, <3>4, TurnKeeps
      <3>6. DOMAIN m = DOMAIN Idle /\ m.sent = l.sent \cup {w.token} /\ m.rec \in {l.rec, row, NoRow}
        BY <2>3, <3>5 DEF LoadKeeps
      <3>7. Becomes(p, m) /\ UNCHANGED <<row, landed>>
        BY <2>1, <2>5, <3>1, <3>2, <3>3
      <3> QED
        BY <1>0, <2>1, <2>2, <3>6, <3>7, SendIsFine
    <2> QED
      BY <2>4, <2>5
  <1>3. CASE SendUnanswered(p)
    <2>1. PICK live, w :
             /\ w = RequestOf(p, l, live)
             /\ inflight' = inflight \cup {w}
             /\ Becomes(p, [l EXCEPT !.pc = "asking", !.unanswered = TRUE,
                                     !.sent = @ \cup {w.token}, !.before = None])
      BY <1>0, <1>3, Zenon DEF SendUnanswered
    <2>2. Deciding(p) /\ Sends(l) /\ UNCHANGED <<row, objects, landed, others>>
      BY <1>0, <1>3, Zenon DEF SendUnanswered
    <2>3. PICK m : m = [l EXCEPT !.pc = "asking", !.unanswered = TRUE,
                                 !.sent = @ \cup {w.token}, !.before = None]
      OBVIOUS
    <2>4. DOMAIN m = DOMAIN Idle /\ m.sent = l.sent \cup {w.token} /\ m.rec = l.rec
      BY <1>1, <2>3 DEF Idle
    <2> QED
      BY <1>0, <2>1, <2>2, <2>3, <2>4, SendIsFine
  <1> QED
    BY <1>2, <1>3

(* Every step of a load, and its end at any point.                         *)
LEMMA LoadNext ==
    ASSUME IInv, NEW p \in Loaders, LoadStep(p) \/ Abandon(p),
           UNCHANGED <<clock, drop, policy, sweep>>
    PROVE  IInv' /\ RowStep
  <1>1. DOMAIN load[p] = DOMAIN Idle
    BY DEF IInv, LoadFine
  <1>2. CASE SendAnswered(p) \/ SendUnanswered(p)
    BY <1>2, LoadSends
  <1>3. CASE ~(SendAnswered(p) \/ SendUnanswered(p))
    <2>1. RowStays /\ \E m : Becomes(p, m) /\ LoadKeeps(load[p], m)
      BY <1>1, <1>3, LoadReads, LoadSettles, LoadReclaims DEF LoadStep
    <2>2. PICK m : Becomes(p, m) /\ LoadKeeps(load[p], m)
      BY <2>1
    <2> QED
      BY <2>1, <2>2, LoadKeepsFine
  <1> QED
    BY <1>2, <1>3
-----------------------------------------------------------------------------
(* The steps of a shred, a drop or a retirement.                           *)

(* It takes up the row as it is, and to write it goes by that.             *)
DropKeeps(s, t) ==
    /\ DOMAIN t = DOMAIN IdleDrop
    /\ t.kind = s.kind /\ t.writes = s.writes /\ t.now \in {s.now, 0}
    /\ t.rec \in {s.rec, row, NoRow}
    /\ t.pc # "start"
    /\ t.pc = "write" => /\ t.rec # NoRow /\ t.rec.status # "destroyed"
                         /\ t.kind = "retire" => ExpiredBy(t.rec, t.now)

(* A call that ends goes by no row.                                        *)
LEMMA EndDropKeeps ==
    ASSUME NEW s, NEW result, NEW t, t = EndDrop(s, result)
    PROVE  DropKeeps(s, t) /\ t.sent = s.sent /\ t.crypto = s.crypto /\ t.pc = "ended"
           /\ t.result = result
  BY DEF EndDrop, IdleDrop, DropKeeps

(* A call whose shred is settled goes by no row: it ends, or looks for     *)
(* orphans, or lists.                                                      *)
LEMMA AfterShredKeeps ==
    ASSUME NEW s, DOMAIN s = DOMAIN IdleDrop, NEW destroyed, NEW crypto, NEW reason, NEW tombstone,
           NEW t, t = AfterShred(s, destroyed, crypto, reason, tombstone)
    PROVE  /\ DropKeeps(s, t) /\ t.sent = s.sent /\ t.crypto = crypto
           /\ \/ t.pc = "ended" /\ t.result = "done"
              \/ t.pc = "orphans" /\ reason = "absent" /\ s.kind # "destroy"
              \/ t.pc = "list" /\ t.now = s.now /\ s.kind # "destroy"
  <1>1. PICK a : a = [s EXCEPT !.destroyed = destroyed, !.crypto = crypto, !.reason = reason,
                               !.tombstone = tombstone, !.rec = NoRow, !.lost = NoRow]
    OBVIOUS
  <1>2. /\ DOMAIN a = DOMAIN IdleDrop
        /\ a.kind = s.kind /\ a.writes = s.writes /\ a.now = s.now /\ a.rec = NoRow
        /\ a.sent = s.sent /\ a.crypto = crypto
    BY <1>1 DEF IdleDrop
  <1>3. t = IF s.kind = "destroy" THEN EndDrop(a, "done")
            ELSE IF reason = "absent" /\ ~s.claimed THEN [a EXCEPT !.pc = "orphans"]
            ELSE [a EXCEPT !.pc = "list"]
    BY <1>1 DEF AfterShred
  <1>4. CASE t = EndDrop(a, "done")
    <2>1. /\ DropKeeps(a, t) /\ t.sent = a.sent /\ t.crypto = a.crypto /\ t.pc = "ended"
          /\ t.result = "done"
      BY <1>4, EndDropKeeps
    <2> QED
      BY <1>2, <2>1 DEF DropKeeps
  <1>5. CASE t = [a EXCEPT !.pc = "orphans"] /\ reason = "absent" /\ s.kind # "destroy"
    BY <1>2, <1>5 DEF DropKeeps, IdleDrop
  <1>6. CASE t = [a EXCEPT !.pc = "list"] /\ s.kind # "destroy"
    BY <1>2, <1>6 DEF DropKeeps, IdleDrop
  <1> QED
    BY <1>3, <1>4, <1>5, <1>6

(* A call that lost a race reads again.                                    *)
LEMMA LostRaceKeeps ==
    ASSUME NEW s, DOMAIN s = DOMAIN IdleDrop, NEW attempts, NEW t, t = LostRace(s, attempts)
    PROVE  DropKeeps(s, t) /\ t.sent = s.sent /\ t.now = s.now /\ t.pc \in {"read", "last"}
  <1>1. PICK attempt : attempt = IF s.waited THEN s.attempt ELSE s.attempt + 1
    OBVIOUS
  <1>2. PICK a : a = [s EXCEPT !.lost = s.rec, !.waited = FALSE, !.attempt = attempt]
    OBVIOUS
  <1>3. /\ DOMAIN a = DOMAIN IdleDrop
        /\ a.kind = s.kind /\ a.writes = s.writes /\ a.now = s.now /\ a.rec = s.rec
        /\ a.sent = s.sent
    BY <1>2 DEF IdleDrop
  <1>4. t = [a EXCEPT !.pc = IF a.attempt < attempts THEN "read" ELSE "last"]
    BY <1>1, <1>2 DEF LostRace
  <1>5. PICK pc \in {"read", "last"} : t = [a EXCEPT !.pc = pc]
    BY <1>4
  <1> QED
    BY <1>3, <1>5 DEF DropKeeps, IdleDrop

(* A call that finds its own tombstone goes on.                            *)
LEMMA AfterOwnKeeps ==
    ASSUME NEW s, DOMAIN s = DOMAIN IdleDrop, NEW r, NEW t, t = AfterOwn(s, r)
    PROVE  DropKeeps(s, t)
  <1>1. PICK destroyed, crypto : /\ destroyed = TRUE
                                 /\ crypto = \E u \in OwnShreds(s, r) : u.encrypted
    OBVIOUS
  <1>2. t = AfterShred(s, destroyed, crypto, "none", r.token)
    BY <1>1 DEF AfterOwn
  <1> QED
    BY <1>2, AfterShredKeeps

(* A call that decides to write does so over the row it read: no           *)
(* tombstone, and for a retirement one that has expired.                   *)
LEMMA DecidedKeeps ==
    ASSUME NEW s, DOMAIN s = DOMAIN IdleDrop, s.rec = row, NEW t, t = Decided(s)
    PROVE  DropKeeps(s, t)
  <1>1. PICK r : r = s.rec
    OBVIOUS
  <1>2. CASE ShredIsOwn(s, r)
    <2>1. t = AfterOwn(s, r)
      BY <1>1, <1>2 DEF Decided
    <2> QED
      BY <2>1, AfterOwnKeeps
  <1>3. CASE ~ShredIsOwn(s, r)
    <2>1. t = IF s.kind = "retire" /\ ~Wanted(s, r) THEN EndDrop(s, "null")
              ELSE IF r = NoRow THEN AfterShred(s, FALSE, FALSE, "absent", None)
              ELSE IF r.status = "destroyed" THEN AfterShred(s, TRUE, FALSE, "already", r.token)
              ELSE IF ~Encrypted(r) /\ s.kind = "destroy"
              THEN AfterShred(s, FALSE, FALSE, "cleartext", None)
              ELSE [s EXCEPT !.pc = "write"]
      BY <1>1, <1>3, Zenon DEF Decided
    <2>2. CASE t = [s EXCEPT !.pc = "write"] /\ r # NoRow /\ r.status # "destroyed"
               /\ (s.kind = "retire" => Wanted(s, r))
      BY <1>1, <2>2 DEF DropKeeps, IdleDrop, Wanted
    <2>3. PICK yes, no : yes = TRUE /\ no = FALSE
      OBVIOUS
    <2>4. \A reason, tombstone : /\ DropKeeps(s, AfterShred(s, no, no, reason, tombstone))
                                 /\ DropKeeps(s, AfterShred(s, yes, no, reason, tombstone))
      BY AfterShredKeeps
    <2>5. DropKeeps(s, EndDrop(s, "null"))
      BY EndDropKeeps
    <2> QED
      BY <2>1, <2>2, <2>3, <2>4, <2>5
  <1> QED
    BY <1>2, <1>3

(* The steps that read the row.                                            *)
LEMMA DropReads ==
    ASSUME NEW d, DOMAIN drop[d] = DOMAIN IdleDrop,
           ShredRead(d) \/ ShredAsk(d) \/ ShredLast(d) \/ Orphans(d) \/ ClaimAsk(d)
    PROVE  /\ RowStays /\ load' = load /\ drop[d].pc # "start"
           /\ \E t : DropBecomes(d, t) /\ DropKeeps(drop[d], t)
  <1> DEFINE s == drop[d]
  <1>1. CASE ShredRead(d)
    <2>1. PICK a : a = [s EXCEPT !.rec = row]
      OBVIOUS
    <2>2. /\ DOMAIN a = DOMAIN IdleDrop /\ a.kind = s.kind /\ a.writes = s.writes
          /\ a.now = s.now /\ a.rec = row
      BY <2>1 DEF IdleDrop
    <2>3. DropKeeps(a, Decided(a))
      BY <2>2, DecidedKeeps
    <2>4. DropKeeps(s, Decided(a))
      BY <2>2, <2>3 DEF DropKeeps
    <2>5. PICK c : c = [s EXCEPT !.waited = TRUE, !.churn = @ + 1]
      OBVIOUS
    <2>6. s.pc = "read" => DropKeeps(s, c)
      BY <2>5 DEF DropKeeps, IdleDrop
    <2>7. DropBecomes(d, c) \/ DropBecomes(d, Decided(a))
      BY <1>1, <2>1, <2>5 DEF ShredRead
    <2> QED
      BY <1>1, <2>4, <2>6, <2>7 DEF ShredRead, RowStays, loadVars, segment
  <1>2. CASE ShredAsk(d)
    <2>1. \/ DropBecomes(d, AfterOwn(s, row)) \/ DropBecomes(d, EndDrop(s, "error"))
          \/ DropBecomes(d, LostRace(s, DropAttempts))
      BY <1>2, Zenon DEF ShredAsk
    <2>2. /\ DropKeeps(s, AfterOwn(s, row)) /\ DropKeeps(s, EndDrop(s, "error"))
          /\ DropKeeps(s, LostRace(s, DropAttempts))
      BY AfterOwnKeeps, EndDropKeeps, LostRaceKeeps
    <2> QED
      BY <1>2, <2>1, <2>2 DEF ShredAsk, RowStays, loadVars, segment
  <1>3. CASE ShredLast(d)
    <2>1. DropBecomes(d, AfterOwn(s, row)) \/ DropBecomes(d, EndDrop(s, "error"))
      BY <1>3, Zenon DEF ShredLast
    <2>2. DropKeeps(s, AfterOwn(s, row)) /\ DropKeeps(s, EndDrop(s, "error"))
      BY AfterOwnKeeps, EndDropKeeps
    <2> QED
      BY <1>3, <2>1, <2>2 DEF ShredLast, RowStays, loadVars, segment
  <1>4. CASE Orphans(d)
    <2>1. DropBecomes(d, EndDrop(s, "done")) \/ DropBecomes(d, [s EXCEPT !.pc = "claim", !.todo = Listed])
      BY <1>4, Zenon DEF Orphans
    <2>2. DropKeeps(s, EndDrop(s, "done")) /\ DropKeeps(s, [s EXCEPT !.pc = "claim", !.todo = Listed])
      BY EndDropKeeps DEF DropKeeps, IdleDrop
    <2> QED
      BY <1>4, <2>1, <2>2 DEF Orphans, RowStays, loadVars, segment
  <1>5. CASE ClaimAsk(d)
    <2>1. \/ DropBecomes(d, Claimed(s, row.token)) \/ DropBecomes(d, EndDrop(s, "error"))
          \/ DropBecomes(d, [s EXCEPT !.pc = "read", !.sent = {}, !.attempt = 0, !.churn = 0])
      BY <1>5, Zenon DEF ClaimAsk
    <2>2. DropKeeps(s, EndDrop(s, "error"))
      BY EndDropKeeps
    <2>3. DropKeeps(s, Claimed(s, row.token))
      BY DEF Claimed, DropKeeps, IdleDrop
    <2>4. DropKeeps(s, [s EXCEPT !.pc = "read", !.sent = {}, !.attempt = 0, !.churn = 0])
      BY DEF DropKeeps, IdleDrop
    <2> QED
      BY <1>5, <2>1, <2>2, <2>3, <2>4 DEF ClaimAsk, RowStays, loadVars, segment
  <1> QED
    BY <1>1, <1>2, <1>3, <1>4, <1>5

(* The steps over the bucket.                                              *)
LEMMA DropDeletes ==
    ASSUME NEW d, DOMAIN drop[d] = DOMAIN IdleDrop,
           \/ DropList(d) \/ \E g \in drop[d].todo : DropDelete(d, g)
           \/ DropPassEnds(d) \/ DropRemaining(d) \/ DropFails(d)
    PROVE  /\ RowStays /\ load' = load /\ drop[d].pc # "start"
           /\ \E t : DropBecomes(d, t) /\ DropKeeps(drop[d], t)
  <1> DEFINE s == drop[d]
  <1>1. CASE DropList(d)
    <2>1. \/ DropBecomes(d, [s EXCEPT !.pc = "remaining"])
          \/ DropBecomes(d, [s EXCEPT !.pc = "delete", !.todo = Listed, !.gone = FALSE])
      BY <1>1, Zenon DEF DropList
    <2>2. /\ DropKeeps(s, [s EXCEPT !.pc = "remaining"])
          /\ DropKeeps(s, [s EXCEPT !.pc = "delete", !.todo = Listed, !.gone = FALSE])
      BY DEF DropKeeps, IdleDrop
    <2> QED
      BY <1>1, <2>1, <2>2 DEF DropList, RowStays, loadVars, segment
  <1>2. CASE \E g \in s.todo : DropDelete(d, g)
    <2>1. PICK g : DropDelete(d, g)
      BY <1>2
    <2>2. \/ DropBecomes(d, [s EXCEPT !.todo = @ \ {g}, !.gone = TRUE, !.any = TRUE])
          \/ DropBecomes(d, [s EXCEPT !.todo = @ \ {g}])
      BY <2>1, Zenon DEF DropDelete
    <2>3. s.pc = "delete" => /\ DropKeeps(s, [s EXCEPT !.todo = @ \ {g}, !.gone = TRUE, !.any = TRUE])
                             /\ DropKeeps(s, [s EXCEPT !.todo = @ \ {g}])
      BY DEF DropKeeps, IdleDrop
    <2> QED
      BY <2>1, <2>2, <2>3 DEF DropDelete, RowStays, loadVars, segment
  <1>3. CASE DropPassEnds(d)
    <2>1. PICK pc : /\ DropBecomes(d, [s EXCEPT !.passes = @ + 1, !.pc = pc])
                    /\ pc \in {"list", "remaining"}
      BY <1>3, Zenon DEF DropPassEnds
    <2>2. DropKeeps(s, [s EXCEPT !.passes = @ + 1, !.pc = pc])
      BY <2>1 DEF DropKeeps, IdleDrop
    <2> QED
      BY <1>3, <2>1, <2>2 DEF DropPassEnds, RowStays, loadVars, segment
  <1>4. CASE DropRemaining(d)
    <2>1. PICK a : a = [s EXCEPT !.remaining = Listed]
      OBVIOUS
    <2>2. /\ DOMAIN a = DOMAIN IdleDrop /\ a.kind = s.kind /\ a.writes = s.writes
          /\ a.now = s.now /\ a.rec = s.rec
      BY <2>1 DEF IdleDrop
    <2>3. DropKeeps(a, EndDrop(a, "done"))
      BY EndDropKeeps
    <2>4. DropKeeps(s, EndDrop(a, "done"))
      BY <2>2, <2>3 DEF DropKeeps
    <2> QED
      BY <1>4, <2>1, <2>4 DEF DropRemaining, RowStays, loadVars, segment
  <1>5. CASE DropFails(d)
    <2>1. DropKeeps(s, EndDrop(s, "error"))
      BY EndDropKeeps
    <2> QED
      BY <1>5, <2>1 DEF DropFails, RowStays, loadVars, segment
  <1> QED
    BY <1>1, <1>2, <1>3, <1>4, <1>5
-----------------------------------------------------------------------------
(* One shred, drop or retirement steps, whatever its sweep does.           *)

(* The invariant outlives a step of one shred, drop or retirement.         *)
LEMMA DropIsFine ==
    ASSUME IInv, NEW d \in Droppers \cup Sweepers, NEW t, DropBecomes(d, t),
           UNCHANGED <<clock, others, load, policy>>,
           DOMAIN sweep' = Sweepers,
           \A w \in Sweepers : sweep'[w] = sweep[w] \/ SweepFine(sweep'[w], row', landed', clock'),
           SegmentFine(row, inflight, landed, clock)', Follows(row, landed, row', landed'),
           \A x \in (landed \cup NamesOf(inflight))' :
               x \in landed \cup NamesOf(inflight) \/ \E k \in 1..t.writes : x = <<d, k>>,
           DropFine(d, t, row', landed', clock'), DropGrows(drop[d], t)
    PROVE  IInv'
  <1>1. Typed' /\ drop'[d] = t /\ \A c \in Droppers \cup Sweepers : c # d => drop'[c] = drop[c]
    BY DEF DropBecomes, IInv, Typed
  <1>2. \A x : (\E k \in 1..t.writes : x = <<d, k>>) => MadeBy(x)'
    BY <1>1 DEF MadeBy
  <1>3. clock <= clock' /\ others <= others'
    BY DEF IInv, Typed
  <1>4. \A c \in Droppers \cup Sweepers : drop'[c] = drop[c]
            \/ (DropFine(c, drop'[c], row', landed', clock') /\ DropGrows(drop[c], drop'[c]))
    BY <1>1
  <1>5. \A x \in (landed \cup NamesOf(inflight))' : x \in landed \cup NamesOf(inflight) \/ MadeBy(x)'
    BY <1>2
  <1> QED
    BY <1>1, <1>3, <1>4, <1>5, StepIsFine

(* What a step that writes nothing leaves of such a call is fine.          *)
LEMMA KeptIsFine ==
    ASSUME IInv, NEW d, NEW s, s.pc # "start", DropFine(d, s, row, landed, clock),
           NEW t, DropKeeps(s, t)
    PROVE  DropFine(d, t, row, landed, clock)
  <1>1. Knows(t.rec, row, landed)
    BY RowIsKnown DEF DropFine, DropKeeps
  <1>2. t.now \in Nat /\ t.now <= clock
    BY DEF DropFine, DropKeeps, IInv, Typed
  <1> QED
    BY <1>1, <1>2 DEF DropFine, DropKeeps

(* So such a step keeps the invariant, and retires nothing.                *)
LEMMA DropKeepsFine ==
    ASSUME IInv, NEW d \in Droppers \cup Sweepers, NEW t, DropBecomes(d, t), RowStays,
           \/ drop[d].pc # "start" /\ DropKeeps(drop[d], t)
           \/ DropFine(d, t, row, landed, clock) /\ t.writes = drop[d].writes,
           UNCHANGED <<clock, load, policy>>,
           DOMAIN sweep' = Sweepers,
           \A w \in Sweepers : sweep'[w] = sweep[w] \/ SweepFine(sweep'[w], row', landed', clock')
    PROVE  IInv' /\ RowStep
  <1>1. Stayed
    BY NothingMoves DEF RowStays, IInv, Typed
  <1>2. DropFine(d, drop[d], row, landed, clock)
    BY DEF IInv
  <1>3. DropFine(d, t, row, landed, clock)
    BY <1>2, KeptIsFine
  <1>4. DropFine(d, t, row', landed', clock')
    BY <1>3 DEF RowStays
  <1>5. DropGrows(drop[d], t)
    BY <1>2 DEF DropFine, DropGrows, DropKeeps
  <1>6. IInv'
    BY <1>1, <1>4, <1>5, DropIsFine DEF Stayed, RowStays
  <1> QED
    BY <1>1, <1>6 DEF Stayed

(* A tombstone written over the row that the call goes by is fit.          *)
LEMMA TombstoneFits ==
    ASSUME IInv, NEW d \in Droppers \cup Sweepers, NEW s, s = drop[d], s.pc = "write",
           NEW w, w = SwapOf(s.rec, TombstonePatch(s), <<d, s.writes + 1>>)
    PROVE  Fit(w, row, landed, clock) /\ w.token.write = <<d, s.writes + 1>>
  <1>1. DropFine(d, s, row, landed, clock)
    BY DEF IInv
  <1>2. PICK r : r = s.rec
    OBVIOUS
  <1>3. PICK patch : patch = TombstonePatch(s)
    OBVIOUS
  <1>4. Knows(r, row, landed) /\ r # NoRow /\ r.status # "destroyed" /\ r.retention \in Meta
    BY <1>1, <1>2 DEF DropFine, Knows, RowFine
  <1>5. w.token.write = <<d, s.writes + 1>>
    BY DEF SwapOf, NextRegistryToken
  <1>6. PICK meta : meta = [r.retention EXCEPT !.mark = Mark(s)]
    OBVIOUS
  <1>7. s.now \in Nat /\ Mark(s) \in Nat
    BY <1>1 DEF DropFine, Mark
  <1>8. meta \in Meta /\ meta.mark = Mark(s)
    BY <1>4, <1>6, <1>7 DEF Meta
  <1>9. patch = [status |-> "destroyed", wrappedDeks |-> Clear, summary |-> NoSummary,
                 knownGens |-> <<>>, leases |-> {}, retention |-> meta]
    BY <1>2, <1>3, <1>6 DEF TombstonePatch
  <1>10. PICK n : n = ApplyRegistryPatch(r, patch, w.token)
    OBVIOUS
  <1>11. n.status = "destroyed" /\ n.retention = meta /\ n.pointerId = w.token
    BY <1>9, <1>10 DEF ApplyRegistryPatch, RenewsPointer, ResolvedFields
  <1>12. d \in Sweepers => Mark(s) <= clock /\ ExpiredBy(r, Mark(s))
    BY <1>1, <1>2 DEF DropFine, Mark
  <1>13. d \notin Sweepers => Mark(s) = 0
    BY <1>1 DEF DropFine, Mark
  <1>14. Outcome(n, r, w, clock)
    BY <1>5, <1>8, <1>11, <1>12, <1>13 DEF Outcome
  <1> QED
    BY <1>2, <1>3, <1>4, <1>10, <1>14, SwapIsFit

(* One of its writes is made.                                              *)
LEMMA DropSends ==
    ASSUME IInv, NEW d \in Droppers \cup Sweepers, NEW s, s = drop[d], s.pc # "start",
           NEW w, Fit(w, row, landed, clock), w.token.write = <<d, s.writes + 1>>,
           NEW a, DOMAIN a = DOMAIN IdleDrop, a.kind = s.kind, a.now = s.now, a.rec = s.rec,
           a.pc = s.pc, a.writes = s.writes + 1,
           NEW t, DropBecomes(d, t), DropKeeps(a, t),
           UNCHANGED <<clock, others, load, policy, sweep>>,
           \/ Accepts(w) /\ Apply(w) /\ inflight' = inflight
           \/ inflight' = inflight \cup {w} /\ row' = row /\ landed' = landed
           \/ UNCHANGED <<row, landed, inflight>>
    PROVE  IInv' /\ RowStep
  <1>1. w.token.write \notin landed \cup NamesOf(inflight)
    BY NextIsNew
  <1>2. Moved(w)
    <2>1. CASE UNCHANGED <<row, landed, inflight>>
      <3>1. Stayed
        BY <2>1, NothingMoves DEF IInv, Typed
      <3> QED
        BY <3>1 DEF Moved, Stayed
    <2>2. CASE \/ Accepts(w) /\ Apply(w) /\ inflight' = inflight
               \/ inflight' = inflight \cup {w} /\ row' = row /\ landed' = landed
      BY <1>1, <2>2, WriteMoves
    <2> QED
      BY <2>1, <2>2
  <1>3. DropFine(d, s, row, landed, clock)
    BY DEF IInv
  <1>4. DropFine(d, a, row, landed, clock)
    BY <1>3 DEF DropFine
  <1>5. DropFine(d, t, row, landed, clock)
    BY <1>4, KeptIsFine
  <1>6. DropFine(d, t, row', landed', clock')
    BY <1>2, <1>5 DEF DropFine, Moved, Follows
  <1>7. t.writes = s.writes + 1 /\ s.writes \in Nat
    BY <1>3 DEF DropKeeps, DropFine
  <1>8. DropGrows(s, t) /\ s.writes + 1 \in 1..t.writes
    BY <1>7 DEF DropGrows
  <1>9. DOMAIN sweep' = Sweepers
    BY DEF IInv, Typed
  <1>10. IInv'
    BY <1>2, <1>6, <1>8, <1>9, DropIsFine DEF Moved
  <1> QED
    BY <1>2, <1>10 DEF Moved

(* The tombstone is sent, whatever becomes of the request.                 *)
LEMMA ShredWriteFine ==
    ASSUME IInv, NEW d \in Droppers \cup Sweepers, ShredWrite(d), UNCHANGED <<clock, policy, sweep>>
    PROVE  IInv' /\ RowStep
  <1>1. PICK s : s = drop[d]
    OBVIOUS
  <1>2. DropFine(d, s, row, landed, clock)
    BY <1>1 DEF IInv
  <1>3. PICK w : w = SwapOf(s.rec, TombstonePatch(s), <<d, s.writes + 1>>)
    OBVIOUS
  <1>4. PICK sent : sent = s.sent \cup {[token |-> w.token, encrypted |-> Encrypted(s.rec)]}
    OBVIOUS
  <1>5. PICK a : a = [s EXCEPT !.writes = @ + 1, !.sent = sent]
    OBVIOUS
  <1>6. PICK keyed, yes : keyed = Encrypted(s.rec) /\ yes = TRUE
    OBVIOUS
  <1>7. /\ s.pc = "write"
        /\ \/ /\ Accepts(w) /\ Apply(w)
              /\ DropBecomes(d, AfterShred(a, yes, keyed, "none", w.token))
              /\ UNCHANGED inflight
           \/ /\ ~Accepts(w)
              /\ DropBecomes(d, LostRace(a, DropAttempts))
              /\ UNCHANGED <<row, landed, inflight>>
           \/ /\ Accepts(w) /\ Apply(w)
              /\ DropBecomes(d, LostRace(a, DropAttempts))
              /\ UNCHANGED inflight
           \/ /\ inflight' = inflight \cup {w}
              /\ DropBecomes(d, [a EXCEPT !.pc = "ask"])
              /\ UNCHANGED <<row, landed>>
        /\ UNCHANGED <<objects, others, load>>
    BY <1>1, <1>3, <1>4, <1>5, <1>6, Zenon DEF ShredWrite
  <1>8. /\ DOMAIN a = DOMAIN IdleDrop /\ a.kind = s.kind /\ a.now = s.now /\ a.rec = s.rec
        /\ a.pc = s.pc /\ a.writes = s.writes + 1
    BY <1>2, <1>5 DEF IdleDrop, DropFine
  <1>9. /\ DropKeeps(a, AfterShred(a, yes, keyed, "none", w.token))
        /\ DropKeeps(a, LostRace(a, DropAttempts))
    BY <1>8, AfterShredKeeps, LostRaceKeeps
  <1>10. DropKeeps(a, [a EXCEPT !.pc = "ask"])
    BY <1>8 DEF DropKeeps, IdleDrop
  <1>11. Fit(w, row, landed, clock) /\ w.token.write = <<d, s.writes + 1>>
    BY <1>1, <1>3, <1>7, TombstoneFits
  <1>12. PICK t : /\ DropBecomes(d, t) /\ DropKeeps(a, t)
                  /\ \/ Accepts(w) /\ Apply(w) /\ inflight' = inflight
                     \/ inflight' = inflight \cup {w} /\ row' = row /\ landed' = landed
                     \/ UNCHANGED <<row, landed, inflight>>
    BY <1>7, <1>9, <1>10, Zenon
  <1> QED
    BY <1>1, <1>7, <1>8, <1>11, <1>12, DropSends

(* So is the tombstone of a name without a row.                            *)
LEMMA ClaimFine ==
    ASSUME IInv, NEW d \in Droppers \cup Sweepers, Claim(d), UNCHANGED <<clock, policy, sweep>>
    PROVE  IInv' /\ RowStep
  <1>1. PICK s : s = drop[d]
    OBVIOUS
  <1>2. DropFine(d, s, row, landed, clock)
    BY <1>1 DEF IInv
  <1>3. PICK gen : gen = CHOOSE g \in s.todo : \A h \in s.todo : h <= g
    OBVIOUS
  <1>4. PICK w : w = CreateOf([currentGen |-> gen, status |-> "destroyed"], <<d, s.writes + 1>>)
    OBVIOUS
  <1>5. PICK sent : sent = {[token |-> w.token, encrypted |-> FALSE]}
    OBVIOUS
  <1>6. PICK a : a = [s EXCEPT !.writes = @ + 1, !.claimed = TRUE, !.todo = {}, !.sent = sent]
    OBVIOUS
  <1>7. /\ s.pc = "claim"
        /\ \/ /\ Accepts(w) /\ Apply(w)
              /\ DropBecomes(d, Claimed(a, w.token))
              /\ UNCHANGED inflight
           \/ /\ DropBecomes(d, [a EXCEPT !.pc = "claimAsk"])
              /\ UNCHANGED <<row, landed, inflight>>
           \/ /\ inflight' = inflight \cup {w}
              /\ DropBecomes(d, [a EXCEPT !.pc = "claimAsk", !.unanswered = TRUE])
              /\ UNCHANGED <<row, landed>>
        /\ UNCHANGED <<objects, others, load>>
    BY <1>1, <1>3, <1>4, <1>5, <1>6, Zenon DEF Claim
  <1>8. /\ DOMAIN a = DOMAIN IdleDrop /\ a.kind = s.kind /\ a.now = s.now /\ a.rec = s.rec
        /\ a.pc = s.pc /\ a.writes = s.writes + 1
    BY <1>2, <1>6 DEF IdleDrop, DropFine
  <1>9. /\ DropKeeps(a, Claimed(a, w.token))
        /\ DropKeeps(a, [a EXCEPT !.pc = "claimAsk"])
        /\ DropKeeps(a, [a EXCEPT !.pc = "claimAsk", !.unanswered = TRUE])
    BY <1>8 DEF DropKeeps, Claimed, IdleDrop
  <1>10. Fit(w, row, landed, clock) /\ w.token.write = <<d, s.writes + 1>>
    <2>1. /\ w.expect = NoRow /\ w.patch = [currentGen |-> gen, status |-> "destroyed"]
          /\ w.token.write = <<d, s.writes + 1>> /\ "write" \in DOMAIN w.token
          /\ w.token.incarnation = w.token.write
      BY <1>4 DEF CreateOf, NewIncarnationToken
    <2>2. PICK n : n = RecordFromNew(w.patch, w.token)
      OBVIOUS
    <2>3. n.retention = NoMeta
      BY <2>1, <2>2 DEF RecordFromNew, BlankRow
    <2> QED
      BY <2>1, <2>2, <2>3, NoMetaIsMeta DEF Fit, NoMeta
  <1>11. PICK t : /\ DropBecomes(d, t) /\ DropKeeps(a, t)
                  /\ \/ Accepts(w) /\ Apply(w) /\ inflight' = inflight
                     \/ inflight' = inflight \cup {w} /\ row' = row /\ landed' = landed
                     \/ UNCHANGED <<row, landed, inflight>>
    BY <1>7, <1>9, Zenon
  <1> QED
    BY <1>1, <1>7, <1>8, <1>10, <1>11, DropSends

(* Every step of a shred, a drop or a retirement.                          *)
LEMMA DropNext ==
    ASSUME IInv, NEW d \in Droppers \cup Sweepers,
           (d \in Droppers /\ DropStep(d)) \/ TombstoneStep(d),
           UNCHANGED <<clock, policy, sweep>>
    PROVE  IInv' /\ RowStep
  <1>1. DropFine(d, drop[d], row, landed, clock) /\ DOMAIN sweep' = Sweepers
    BY DEF IInv, Typed
  <1>2. DOMAIN drop[d] = DOMAIN IdleDrop
    BY <1>1 DEF DropFine
  <1>3. CASE ShredWrite(d)
    BY <1>3, ShredWriteFine
  <1>4. CASE Claim(d)
    BY <1>4, ClaimFine
  <1>5. CASE d \in Droppers /\ BeginDrop(d)
    <2>1. PICK kind \in {"destroy", "drop"} : DropBecomes(d, [IdleDrop EXCEPT !.pc = "read", !.kind = kind])
      BY <1>5, Zenon DEF BeginDrop
    <2>2. PICK t : t = [IdleDrop EXCEPT !.pc = "read", !.kind = kind]
      OBVIOUS
    <2>3. d \notin Sweepers
      BY <1>5, DropAssumption
    <2>4. drop[d].writes = 0
      BY <1>1, <1>5, <2>3 DEF BeginDrop, DropFine
    <2>5. t.kind # "retire" /\ t.writes = 0 /\ t.pc = "read" /\ t.now = 0 /\ t.rec = NoRow
          /\ DOMAIN t = DOMAIN IdleDrop
      BY <2>1, <2>2 DEF IdleDrop
    <2>6. DropFine(d, t, row, landed, clock)
      BY <2>3, <2>5 DEF DropFine, Knows, IInv, Typed
    <2>7. RowStays /\ load' = load
      BY <1>5 DEF BeginDrop, RowStays, loadVars, segment
    <2> QED
      BY <1>1, <2>1, <2>2, <2>4, <2>5, <2>6, <2>7, DropKeepsFine
  <1>6. CASE ~ShredWrite(d) /\ ~Claim(d) /\ ~(d \in Droppers /\ BeginDrop(d))
    <2>1. /\ RowStays /\ load' = load /\ drop[d].pc # "start"
          /\ \E t : DropBecomes(d, t) /\ DropKeeps(drop[d], t)
      BY <1>2, <1>6, DropReads, DropDeletes DEF DropStep, TombstoneStep
    <2>2. PICK t : DropBecomes(d, t) /\ DropKeeps(drop[d], t)
      BY <2>1
    <2> QED
      BY <1>1, <2>1, <2>2, DropKeepsFine
  <1> QED
    BY <1>3, <1>4, <1>5, <1>6
-----------------------------------------------------------------------------
(* The steps of a call that sets or clears the policy.                     *)

PolicyKeeps(c, b) ==
    /\ DOMAIN b = DOMAIN Unset
    /\ b.expiresAt \in {c.expiresAt, 0}
    /\ b.rec \in {c.rec, row, NoRow}
    /\ b.pc # "start"
    /\ b.pc # "ended" => b.sent = c.sent
    /\ b.pc = "write" => b.rec = NoRow \/ b.rec.status # "destroyed"

(* A call that ends goes by no row.                                        *)
LEMMA EndSetKeeps ==
    ASSUME NEW c, NEW result
    PROVE  PolicyKeeps(c, EndSet(c, result))
  BY DEF PolicyKeeps, EndSet, Unset

(* Nor does one that is done with the row and turns to the index.          *)
LEMMA ReindexKeeps ==
    ASSUME NEW c, DOMAIN c = DOMAIN Unset, NEW held, NEW b, b = Reindex(c, held)
    PROVE  PolicyKeeps(c, b)
  <1>1. PICK todo : todo = {Day(t) : t \in c.previous} \ (IF held = 0 THEN {} ELSE {Day(held)})
    OBVIOUS
  <1>2. PICK pc \in {"forget", "file"} : b = [c EXCEPT !.pc = pc, !.held = held, !.todo = todo]
    BY <1>1, Zenon DEF Reindex
  <1> QED
    BY <1>2 DEF PolicyKeeps, Unset

(* A call that decides to write does so over no row, or one that is no     *)
(* tombstone.                                                              *)
LEMMA SetDecidedKeeps ==
    ASSUME NEW c, DOMAIN c = DOMAIN Unset, NEW b, b = SetDecided(c)
    PROVE  PolicyKeeps(c, b)
  <1>1. PICK r : r = c.rec
    OBVIOUS
  <1>2. PICK previous : previous = IF r = NoRow \/ r.retention.expiresAt = 0 THEN c.previous
                                   ELSE c.previous \cup {r.retention.expiresAt}
    OBVIOUS
  <1>3. PICK t : t = [c EXCEPT !.pc = "write", !.previous = previous]
    OBVIOUS
  <1>4. \/ \E held : b = Reindex(c, held)
        \/ \E result : b = EndSet(c, result)
        \/ b = t /\ (r = NoRow \/ r.status # "destroyed")
    BY <1>1, <1>2, <1>3, Zenon DEF SetDecided
  <1>5. r = NoRow \/ r.status # "destroyed" => PolicyKeeps(c, t)
    BY <1>1, <1>3 DEF PolicyKeeps, Unset
  <1> QED
    BY <1>4, <1>5, ReindexKeeps, EndSetKeeps

(* A call that lost a race reads again, or gives up.                       *)
LEMMA SetLostRaceKeeps ==
    ASSUME NEW c, DOMAIN c = DOMAIN Unset, NEW b, b = SetLostRace(c)
    PROVE  PolicyKeeps(c, b)
  <1>1. PICK attempt : attempt = IF c.waited THEN c.attempt ELSE c.attempt + 1
    OBVIOUS
  <1>2. PICK t : t = [c EXCEPT !.lost = c.rec, !.waited = FALSE, !.attempt = attempt]
    OBVIOUS
  <1>3. /\ DOMAIN t = DOMAIN Unset /\ t.expiresAt = c.expiresAt /\ t.rec = c.rec
        /\ t.sent = c.sent
    BY <1>2 DEF Unset
  <1>4. b = [t EXCEPT !.pc = "read"] \/ b = EndSet(t, "error")
    BY <1>1, <1>2, Zenon DEF SetLostRace
  <1>5. PolicyKeeps(c, [t EXCEPT !.pc = "read"])
    BY <1>3 DEF PolicyKeeps, Unset
  <1>6. PolicyKeeps(c, EndSet(t, "error"))
    BY <1>3, EndSetKeeps DEF PolicyKeeps
  <1> QED
    BY <1>4, <1>5, <1>6

(* One call steps.                                                         *)
LEMMA PolicyIsFine ==
    ASSUME IInv, NEW s \in Setters, NEW b, PolicyBecomes(s, b),
           UNCHANGED <<clock, others, load, drop, sweep>>,
           SegmentFine(row, inflight, landed, clock)', Follows(row, landed, row', landed'),
           \A x \in (landed \cup NamesOf(inflight))' :
               x \in landed \cup NamesOf(inflight) \/ MadeBy(x)',
           PolicyFine(s, b, row', landed'), PolicyGrows(policy[s], b)
    PROVE  IInv'
  <1>1. Typed' /\ policy'[s] = b /\ \A t \in Setters : t # s => policy'[t] = policy[t]
    BY DEF PolicyBecomes, IInv, Typed
  <1>2. clock <= clock' /\ others <= others'
    BY DEF IInv, Typed
  <1>3. \A t \in Setters : policy'[t] = policy[t]
            \/ (PolicyFine(t, policy'[t], row', landed') /\ PolicyGrows(policy[t], policy'[t]))
    BY <1>1
  <1> QED
    BY <1>1, <1>2, <1>3, StepIsFine

(* What a step that writes nothing of the row leaves of such a call is     *)
(* fine.                                                                   *)
LEMMA PolicyKept ==
    ASSUME IInv, NEW s, NEW c, c.pc # "ended", PolicyFine(s, c, row, landed),
           NEW b, PolicyKeeps(c, b)
    PROVE  PolicyFine(s, b, row, landed) /\ PolicyGrows(c, b)
  <1>1. Knows(b.rec, row, landed)
    BY RowIsKnown DEF PolicyFine, PolicyKeeps
  <1>2. Cardinality(c.sent) \in Nat
    BY FS_CardinalityType DEF PolicyFine, Numbered
  <1> QED
    BY <1>1, <1>2, NoMetaIsMeta DEF PolicyFine, PolicyKeeps, PolicyGrows

(* So such a step keeps the invariant, and retires nothing.                *)
LEMMA PolicyKeepsFine ==
    ASSUME IInv, NEW s \in Setters, NEW b, PolicyBecomes(s, b), RowStays,
           policy[s].pc # "ended", PolicyKeeps(policy[s], b),
           UNCHANGED <<clock, load, drop, sweep>>
    PROVE  IInv' /\ RowStep
  <1>1. Stayed
    BY NothingMoves DEF RowStays, IInv, Typed
  <1>2. PolicyFine(s, policy[s], row, landed)
    BY DEF IInv
  <1>3. PolicyFine(s, b, row, landed) /\ PolicyGrows(policy[s], b)
    BY <1>2, PolicyKept
  <1>4. PolicyFine(s, b, row', landed')
    BY <1>3 DEF RowStays
  <1>5. IInv'
    BY <1>1, <1>3, <1>4, PolicyIsFine DEF Stayed, RowStays
  <1> QED
    BY <1>1, <1>5 DEF Stayed

(* The policy it writes leaves a row that is no tombstone as it is.        *)
LEMMA SetFits ==
    ASSUME IInv, NEW s \in Setters, NEW c, c = policy[s], c.pc = "write",
           NEW w, w = SetRequest(s, c)
    PROVE  Fit(w, row, landed, clock) /\ w.token.write = <<s, Cardinality(c.sent) + 1>>
  <1>1. PolicyFine(s, c, row, landed)
    BY DEF IInv
  <1>2. PICK write : write = <<s, Cardinality(c.sent) + 1>>
    OBVIOUS
  <1>3. CASE c.rec = NoRow
    <2>1. PICK meta : meta = Until(c.expiresAt)
      OBVIOUS
    <2>2. meta \in Meta
      BY <1>1, <2>1 DEF PolicyFine, Until, NoMeta, Meta
    <2>3. w = CreateOf([currentGen |-> NoGen, retention |-> meta], write)
      BY <1>2, <1>3, <2>1 DEF SetRequest
    <2>4. /\ w.expect = NoRow /\ w.patch = [currentGen |-> NoGen, retention |-> meta]
          /\ w.token.write = write /\ "write" \in DOMAIN w.token
          /\ w.token.incarnation = w.token.write
      BY <2>3 DEF CreateOf, NewIncarnationToken
    <2>5. PICK n : n = RecordFromNew(w.patch, w.token)
      OBVIOUS
    <2>6. n.retention = meta /\ n.status = "active"
      BY <2>4, <2>5 DEF RecordFromNew, BlankRow
    <2> QED
      BY <1>2, <2>2, <2>4, <2>5, <2>6 DEF Fit
  <1>4. CASE c.rec # NoRow
    <2>1. PICK r : r = c.rec
      OBVIOUS
    <2>2. Knows(r, row, landed) /\ r # NoRow /\ r.status # "destroyed" /\ r.retention \in Meta
      BY <1>1, <1>4, <2>1 DEF PolicyFine, Knows, RowFine
    <2>3. PICK meta : meta = [r.retention EXCEPT !.expiresAt = c.expiresAt]
      OBVIOUS
    <2>4. meta \in Meta
      BY <1>1, <2>2, <2>3 DEF PolicyFine, Meta
    <2>5. PICK patch : patch = [retention |-> meta]
      OBVIOUS
    <2>6. w = SwapOf(r, patch, write)
      BY <1>2, <1>4, <2>1, <2>3, <2>5 DEF SetRequest
    <2>7. PICK n : n = ApplyRegistryPatch(r, patch, w.token)
      OBVIOUS
    <2>8. n.status = r.status /\ n.retention = meta
      BY <2>5, <2>7 DEF ApplyRegistryPatch
    <2>9. Outcome(n, r, w, clock)
      BY <2>2, <2>4, <2>8 DEF Outcome
    <2> QED
      BY <1>2, <2>2, <2>6, <2>7, <2>9, SwapIsFit
  <1> QED
    BY <1>3, <1>4

(* The policy is sent, whatever becomes of the request.                    *)
LEMMA SetWriteFine ==
    ASSUME IInv, NEW s \in Setters, SetWrite(s)
    PROVE  IInv' /\ RowStep
  <1>1. PICK c : c = policy[s]
    OBVIOUS
  <1>2. PolicyFine(s, c, row, landed)
    BY <1>1 DEF IInv
  <1>3. PICK w : w = SetRequest(s, c)
    OBVIOUS
  <1>4. PICK a : a = [c EXCEPT !.sent = @ \cup {w.token}]
    OBVIOUS
  <1>5. PICK u : u = [a EXCEPT !.unsettled = TRUE]
    OBVIOUS
  <1>6. /\ c.pc = "write"
        /\ \/ /\ Accepts(w) /\ Apply(w)
              /\ PolicyBecomes(s, Reindex(a, c.expiresAt))
              /\ UNCHANGED inflight
           \/ /\ ~Accepts(w)
              /\ PolicyBecomes(s, SetLostRace(a))
              /\ UNCHANGED <<row, landed, inflight>>
           \/ /\ Accepts(w) /\ Apply(w)
              /\ PolicyBecomes(s, SetLostRace(u))
              /\ UNCHANGED inflight
           \/ /\ inflight' = inflight \cup {w}
              /\ PolicyBecomes(s, [a EXCEPT !.pc = "ask"])
              /\ UNCHANGED <<row, landed>>
        /\ UNCHANGED <<objects, others, besideSetting, due>>
    BY <1>1, <1>3, <1>4, <1>5, Zenon DEF SetWrite
  <1>7. /\ DOMAIN a = DOMAIN Unset /\ a.expiresAt = c.expiresAt /\ a.rec = c.rec /\ a.pc = c.pc
        /\ a.sent = c.sent \cup {w.token}
    BY <1>2, <1>4 DEF Unset, PolicyFine
  <1>8. /\ DOMAIN u = DOMAIN Unset /\ u.expiresAt = a.expiresAt /\ u.rec = a.rec
        /\ u.sent = a.sent
    BY <1>5, <1>7 DEF Unset
  <1>9. PolicyKeeps(a, Reindex(a, c.expiresAt)) /\ PolicyKeeps(a, SetLostRace(a))
    BY <1>7, ReindexKeeps, SetLostRaceKeeps
  <1>10. PolicyKeeps(a, SetLostRace(u))
    BY <1>8, SetLostRaceKeeps DEF PolicyKeeps
  <1>11. PolicyKeeps(a, [a EXCEPT !.pc = "ask"])
    BY <1>7 DEF PolicyKeeps, Unset
  <1>12. PICK b : /\ PolicyBecomes(s, b) /\ PolicyKeeps(a, b)
                  /\ \/ Accepts(w) /\ Apply(w) /\ inflight' = inflight
                     \/ inflight' = inflight \cup {w} /\ row' = row /\ landed' = landed
                     \/ UNCHANGED <<row, landed, inflight>>
    BY <1>6, <1>9, <1>10, <1>11, Zenon
  <1>13. Fit(w, row, landed, clock) /\ w.token.write = <<s, Cardinality(c.sent) + 1>>
    BY <1>1, <1>3, <1>6, SetFits
  <1>14. UNCHANGED <<clock, others, load, drop, sweep>>
    BY <1>6 DEF besideSetting
  <1>15. w.token.write \notin landed \cup NamesOf(inflight)
    BY <1>1, <1>6, <1>13, NextIsNew
  <1>16. Moved(w)
    <2>1. CASE UNCHANGED <<row, landed, inflight>>
      <3>1. Stayed
        BY <1>14, <2>1, NothingMoves DEF IInv, Typed
      <3> QED
        BY <3>1 DEF Moved, Stayed
    <2>2. CASE \/ Accepts(w) /\ Apply(w) /\ inflight' = inflight
               \/ inflight' = inflight \cup {w} /\ row' = row /\ landed' = landed
      BY <1>13, <1>14, <1>15, <2>2, WriteMoves
    <2> QED
      BY <1>12, <2>1, <2>2
  <1>17. /\ Numbered(s, a.sent) /\ Cardinality(c.sent) \in Nat
         /\ Cardinality(a.sent) = Cardinality(c.sent) + 1
    BY <1>2, <1>6, <1>7, <1>13, OneMore DEF PolicyFine
  <1>18. PolicyFine(s, a, row, landed)
    BY <1>2, <1>6, <1>7, <1>17 DEF PolicyFine
  <1>19. PolicyFine(s, b, row, landed) /\ PolicyGrows(a, b)
    BY <1>6, <1>7, <1>12, <1>18, PolicyKept
  <1>20. PolicyFine(s, b, row', landed')
    BY <1>16, <1>19 DEF PolicyFine, Moved, Follows
  <1>21. PolicyGrows(c, b)
    BY <1>6, <1>12, <1>17 DEF PolicyGrows, PolicyKeeps
  <1>22. policy'[s] = b
    BY <1>12 DEF PolicyBecomes, IInv, Typed
  <1>23. MadeBy(w.token.write)'
    <2>1. CASE b.pc = "ended"
      <3>1. w.token.write[1] = s
        BY <1>13
      <3> QED
        BY <1>22, <2>1, <3>1 DEF MadeBy
    <2>2. CASE b.pc # "ended"
      <3>1. b.sent = a.sent
        BY <1>12, <2>2 DEF PolicyKeeps
      <3>2. Cardinality(c.sent) + 1 \in 1..Cardinality(policy'[s].sent)
        BY <1>17, <1>22, <3>1
      <3> QED
        BY <1>13, <1>22, <2>2, <3>2 DEF MadeBy
    <2> QED
      BY <2>1, <2>2
  <1>24. IInv'
    BY <1>1, <1>12, <1>14, <1>16, <1>20, <1>21, <1>23, PolicyIsFine DEF Moved
  <1> QED
    BY <1>16, <1>24 DEF Moved

(* A policy stays what it is when something else touches the index.        *)
LEMMA AloneKeeps ==
    ASSUME IInv, NEW s \in Setters, NEW b, b = [policy[s] EXCEPT !.alone = FALSE]
    PROVE  PolicyFine(s, b, row, landed) /\ PolicyGrows(policy[s], b)
  <1>1. PolicyFine(s, policy[s], row, landed)
    BY DEF IInv
  <1>2. /\ DOMAIN b = DOMAIN Unset /\ b.rec = policy[s].rec /\ b.expiresAt = policy[s].expiresAt
        /\ b.pc = policy[s].pc /\ b.sent = policy[s].sent
    BY <1>1 DEF PolicyFine, Unset
  <1>3. policy[s].pc # "ended" => Cardinality(policy[s].sent) \in Nat
    BY <1>1, FS_CardinalityType DEF PolicyFine, Numbered
  <1> QED
    BY <1>1, <1>2, <1>3 DEF PolicyFine, PolicyGrows

(* A call begins, and no other is alone any more.                          *)
LEMMA BeginSetFine ==
    ASSUME IInv, NEW s \in Setters, BeginSet(s)
    PROVE  IInv' /\ RowStep
  <1>1. PICK e \in Expiries \cup {0} : \E alone :
           policy' = [t \in Setters |-> IF t = s
                                        THEN [Unset EXCEPT !.pc = "read", !.expiresAt = e, !.alone = alone]
                                        ELSE [policy[t] EXCEPT !.alone = FALSE]]
    BY Zenon DEF BeginSet
  <1>2. PICK alone : policy' = [t \in Setters |-> IF t = s
                                        THEN [Unset EXCEPT !.pc = "read", !.expiresAt = e, !.alone = alone]
                                        ELSE [policy[t] EXCEPT !.alone = FALSE]]
    BY <1>1
  <1>3. PICK c : c = [Unset EXCEPT !.pc = "read", !.expiresAt = e, !.alone = alone]
    OBVIOUS
  <1>4. /\ DOMAIN policy' = Setters /\ policy'[s] = c
        /\ \A t \in Setters : t # s => policy'[t] = [policy[t] EXCEPT !.alone = FALSE]
    BY <1>2, <1>3
  <1>5. /\ policy[s].pc = "start" /\ RowStays
        /\ UNCHANGED <<clock, load, drop, sweep>>
    BY DEF BeginSet, besideSetting, segment, RowStays
  <1>6. Stayed
    BY <1>5, NothingMoves DEF RowStays, IInv, Typed
  <1>7. policy[s].sent = {}
    BY <1>5 DEF IInv, PolicyFine
  <1>8. /\ DOMAIN c = DOMAIN Unset /\ c.pc = "read" /\ c.rec = NoRow /\ c.sent = {}
        /\ c.expiresAt \in Horizon
    BY <1>3, RetentionAssumption DEF Unset, Horizon
  <1>9. PolicyFine(s, c, row, landed) /\ PolicyGrows(policy[s], c)
    BY <1>5, <1>7, <1>8, FS_EmptySet DEF PolicyFine, PolicyGrows, Knows, Numbered
  <1>10. \A t \in Setters : PolicyFine(t, policy'[t], row', landed') /\ PolicyGrows(policy[t], policy'[t])
    BY <1>4, <1>5, <1>9, AloneKeeps DEF RowStays
  <1>11. Typed' /\ clock <= clock' /\ others <= others'
    BY <1>4, <1>5 DEF IInv, Typed, RowStays
  <1>12. IInv'
    BY <1>5, <1>6, <1>10, <1>11, StepIsFine DEF Stayed
  <1> QED
    BY <1>6, <1>12 DEF Stayed

(* The steps that write nothing of the row.                                *)
LEMMA SetReads ==
    ASSUME NEW s, DOMAIN policy[s] = DOMAIN Unset,
           SetRead(s) \/ SetAsk(s) \/ SetFile(s) \/ SetForget(s) \/ SetFails(s)
    PROVE  /\ RowStays /\ UNCHANGED <<clock, load, drop, sweep>> /\ policy[s].pc # "ended"
           /\ \E b : PolicyBecomes(s, b) /\ PolicyKeeps(policy[s], b)
  <1> DEFINE c == policy[s]
  <1>1. CASE SetRead(s)
    <2>1. PICK a : a = [c EXCEPT !.rec = row]
      OBVIOUS
    <2>2. /\ DOMAIN a = DOMAIN Unset /\ a.expiresAt = c.expiresAt /\ a.rec = row
          /\ a.sent = c.sent
      BY <2>1 DEF Unset
    <2>3. PolicyKeeps(a, SetDecided(a))
      BY <2>2, SetDecidedKeeps
    <2>4. PolicyKeeps(c, SetDecided(a))
      BY <2>2, <2>3 DEF PolicyKeeps
    <2>5. PICK b : b = [c EXCEPT !.waited = TRUE, !.churn = @ + 1]
      OBVIOUS
    <2>6. c.pc = "read" => PolicyKeeps(c, b)
      BY <2>5 DEF PolicyKeeps, Unset
    <2>7. PolicyBecomes(s, b) \/ PolicyBecomes(s, SetDecided(a))
      BY <1>1, <2>1, <2>5 DEF SetRead
    <2> QED
      BY <1>1, <2>4, <2>6, <2>7 DEF SetRead, RowStays, segment, besideSetting
  <1>2. CASE SetAsk(s)
    <2>1. PICK u : u = [c EXCEPT !.unsettled = TRUE]
      OBVIOUS
    <2>2. /\ DOMAIN u = DOMAIN Unset /\ u.expiresAt = c.expiresAt /\ u.rec = c.rec
          /\ u.sent = c.sent
      BY <2>1 DEF Unset
    <2>3. \/ \E held : PolicyBecomes(s, Reindex(c, held))
          \/ PolicyBecomes(s, EndSet(c, "error")) \/ PolicyBecomes(s, SetLostRace(u))
      BY <1>2, <2>1, Zenon DEF SetAsk
    <2>4. PolicyKeeps(u, SetLostRace(u))
      BY <2>2, SetLostRaceKeeps
    <2>5. PolicyKeeps(c, SetLostRace(u))
      BY <2>2, <2>4 DEF PolicyKeeps
    <2> QED
      BY <1>2, <2>3, <2>5, ReindexKeeps, EndSetKeeps DEF SetAsk, RowStays, segment, besideSetting
  <1>3. CASE SetFile(s)
    <2>1. PICK indexed : PolicyBecomes(s, [c EXCEPT !.pc = "forget", !.indexed = indexed])
      BY <1>3, Zenon DEF SetFile
    <2>2. PolicyKeeps(c, [c EXCEPT !.pc = "forget", !.indexed = indexed])
      BY DEF PolicyKeeps, Unset
    <2> QED
      BY <1>3, <2>1, <2>2 DEF SetFile, RowStays, segment, besideSetting
  <1>4. CASE SetForget(s)
    <2>1. \/ \E result : PolicyBecomes(s, EndSet(c, result))
          \/ \E b : PolicyBecomes(s, [c EXCEPT !.todo = @ \ {b}])
      BY <1>4, Zenon DEF SetForget
    <2>2. c.pc = "forget" => \A b : PolicyKeeps(c, [c EXCEPT !.todo = @ \ {b}])
      BY DEF PolicyKeeps, Unset
    <2> QED
      BY <1>4, <2>1, <2>2, EndSetKeeps DEF SetForget, RowStays, segment, besideSetting
  <1>5. CASE SetFails(s)
    BY <1>5, EndSetKeeps DEF SetFails, Setting, RowStays, segment, besideSetting
  <1> QED
    BY <1>1, <1>2, <1>3, <1>4, <1>5

(* Every step of a call that sets or clears the policy.                    *)
LEMMA SetNext ==
    ASSUME IInv, NEW s \in Setters, SetStep(s)
    PROVE  IInv' /\ RowStep
  <1>1. DOMAIN policy[s] = DOMAIN Unset
    BY DEF IInv, PolicyFine
  <1>2. CASE BeginSet(s)
    BY <1>2, BeginSetFine
  <1>3. CASE SetWrite(s)
    BY <1>3, SetWriteFine
  <1>4. CASE SetRead(s) \/ SetAsk(s) \/ SetFile(s) \/ SetForget(s) \/ SetFails(s)
    <2>1. /\ RowStays /\ UNCHANGED <<clock, load, drop, sweep>> /\ policy[s].pc # "ended"
          /\ \E b : PolicyBecomes(s, b) /\ PolicyKeeps(policy[s], b)
      BY <1>1, <1>4, SetReads
    <2>2. PICK b : PolicyBecomes(s, b) /\ PolicyKeeps(policy[s], b)
      BY <2>1
    <2> QED
      BY <2>1, <2>2, PolicyKeepsFine
  <1> QED
    BY <1>2, <1>3, <1>4 DEF SetStep
-----------------------------------------------------------------------------
(* The steps of a sweep.                                                   *)

SweepKeeps(s, t) ==
    /\ DOMAIN t = DOMAIN Resting
    /\ t.rec \in {s.rec, row, NoRow}
    /\ t.now \in {s.now, clock, 0}

SweepStays == UNCHANGED <<clock, load, drop, policy>>

(* A sweep that ends goes by no row.                                       *)
LEMMA EndSweepKeeps ==
    ASSUME NEW s, NEW result
    PROVE  SweepKeeps(s, EndSweep(result))
  BY DEF SweepKeeps, EndSweep, Resting

(* A sweep that judges the row it scanned goes by that row.                *)
LEMMA JudgedKeeps ==
    ASSUME NEW s, DOMAIN s = DOMAIN Resting, NEW t, t = Judged(s)
    PROVE  SweepKeeps(s, t)
  <1>1. \/ t = [s EXCEPT !.pc = "litter", !.todo = s.found]
        \/ \E result : t = EndSweep(result)
        \/ t = [s EXCEPT !.pc = "foreign"]
        \/ t = [s EXCEPT !.pc = "reclaimed", !.purge = TRUE]
        \/ t = [s EXCEPT !.pc = "reread"]
    BY Zenon DEF Judged
  <1>2. /\ SweepKeeps(s, [s EXCEPT !.pc = "litter", !.todo = s.found])
        /\ SweepKeeps(s, [s EXCEPT !.pc = "foreign"])
        /\ SweepKeeps(s, [s EXCEPT !.pc = "reclaimed", !.purge = TRUE])
        /\ SweepKeeps(s, [s EXCEPT !.pc = "reread"])
    BY DEF SweepKeeps, Resting
  <1> QED
    BY <1>1, <1>2, EndSweepKeeps

(* The steps of the scan and of the pointers.                              *)
LEMMA SweepScans ==
    ASSUME NEW w, DOMAIN sweep[w] = DOMAIN Resting,
           ScanRow(w) \/ ScanPointers(w) \/ SweepLitter(w) \/ SweepForeign(w) \/ SweepUnfile(w)
    PROVE  RowStays /\ SweepStays /\ \E t : SweepBecomes(w, t) /\ SweepKeeps(sweep[w], t)
  <1> DEFINE s == sweep[w]
  <1>1. CASE ScanRow(w)
    <2>1. PICK a : a = [s EXCEPT !.rec = row]
      OBVIOUS
    <2>2. DOMAIN a = DOMAIN Resting /\ a.rec = row /\ a.now = s.now
      BY <2>1 DEF Resting
    <2>3. SweepKeeps(a, Judged(a))
      BY <2>2, JudgedKeeps
    <2>4. SweepKeeps(s, Judged(a))
      BY <2>2, <2>3 DEF SweepKeeps
    <2>5. SweepKeeps(s, [s EXCEPT !.pc = "pointers", !.rec = row])
      BY DEF SweepKeeps, Resting
    <2>6. SweepBecomes(w, Judged(a)) \/ SweepBecomes(w, [s EXCEPT !.pc = "pointers", !.rec = row])
      BY <1>1, <2>1 DEF ScanRow
    <2> QED
      BY <1>1, <2>4, <2>5, <2>6 DEF ScanRow, RowStays, SweepStays, segment, besideSweeping
  <1>2. CASE ScanPointers(w)
    <2>1. PICK found : found = {[day |-> b, token |-> due[b].token] : b \in {b \in DaysRead(w) : Filed(b)}}
      OBVIOUS
    <2>2. PICK a : a = [s EXCEPT !.found = found]
      OBVIOUS
    <2>3. DOMAIN a = DOMAIN Resting /\ a.rec = s.rec /\ a.now = s.now
      BY <2>2 DEF Resting
    <2>4. SweepKeeps(a, Judged(a))
      BY <2>3, JudgedKeeps
    <2>5. SweepKeeps(s, Judged(a))
      BY <2>3, <2>4 DEF SweepKeeps
    <2>6. SweepKeeps(s, [s EXCEPT !.pc = "row", !.found = found])
      BY DEF SweepKeeps, Resting
    <2>7. \/ SweepBecomes(w, Judged(a)) \/ SweepBecomes(w, EndSweep("nothing"))
          \/ SweepBecomes(w, [s EXCEPT !.pc = "row", !.found = found])
      BY <1>2, <2>1, <2>2, Zenon DEF ScanPointers
    <2> QED
      BY <1>2, <2>5, <2>6, <2>7, EndSweepKeeps
         DEF ScanPointers, RowStays, SweepStays, segment, besideSweeping
  <1>3. CASE SweepLitter(w)
    <2>1. SweepBecomes(w, EndSweep("nothing")) \/ SweepBecomes(w, [s EXCEPT !.pc = "unfileLitter"])
      BY <1>3, Zenon DEF SweepLitter
    <2>2. SweepKeeps(s, [s EXCEPT !.pc = "unfileLitter"])
      BY DEF SweepKeeps, Resting
    <2> QED
      BY <1>3, <2>1, <2>2, EndSweepKeeps DEF SweepLitter, RowStays, SweepStays, segment, besideSweeping
  <1>4. CASE SweepForeign(w)
    <2>1. \/ SweepBecomes(w, EndSweep("foreign"))
          \/ SweepBecomes(w, [s EXCEPT !.pc = "unfile", !.todo = s.found])
      BY <1>4, Zenon DEF SweepForeign
    <2>2. SweepKeeps(s, [s EXCEPT !.pc = "unfile", !.todo = s.found])
      BY DEF SweepKeeps, Resting
    <2> QED
      BY <1>4, <2>1, <2>2, EndSweepKeeps DEF SweepForeign, RowStays, SweepStays, segment, besideSweeping
  <1>5. CASE SweepUnfile(w)
    <2>1. PICK next : next = IF s.pc = "unfile" THEN "unfile" ELSE "litter"
      OBVIOUS
    <2>2. \/ SweepBecomes(w, EndSweep("unfiled"))
          \/ \E p : SweepBecomes(w, [s EXCEPT !.pc = next, !.todo = @ \ {p}])
      BY <1>5, <2>1, Zenon DEF SweepUnfile
    <2>3. \A p : SweepKeeps(s, [s EXCEPT !.pc = next, !.todo = @ \ {p}])
      BY DEF SweepKeeps, Resting
    <2> QED
      BY <1>5, <2>2, <2>3, EndSweepKeeps DEF SweepUnfile, RowStays, SweepStays, segment, besideSweeping
  <1> QED
    BY <1>1, <1>2, <1>3, <1>4, <1>5

(* A sweep goes on from a removal by the row it had.                       *)
LEMMA RemovedKeeps ==
    ASSUME NEW s, DOMAIN s = DOMAIN Resting
    PROVE  SweepKeeps(s, Removed(s)) /\ SweepKeeps(s, NotRemoved(s))
  <1>1. \/ Removed(s) = [s EXCEPT !.pc = "unfile", !.todo = PurgePointers(s)]
        \/ Removed(s) = EndSweep("retired")
    BY Zenon DEF Removed
  <1>2. NotRemoved(s) = EndSweep("failed") \/ NotRemoved(s) = [s EXCEPT !.pc = "filePurge"]
    BY Zenon DEF NotRemoved
  <1>3. PICK todo : todo = PurgePointers(s)
    OBVIOUS
  <1>4. /\ SweepKeeps(s, [s EXCEPT !.pc = "unfile", !.todo = todo])
        /\ SweepKeeps(s, [s EXCEPT !.pc = "filePurge"])
    BY DEF SweepKeeps, Resting
  <1> QED
    BY <1>1, <1>2, <1>3, <1>4, EndSweepKeeps

(* The steps of a purge and of a retirement that write nothing of the row. *)
LEMMA SweepPurges ==
    ASSUME NEW w, DOMAIN sweep[w] = DOMAIN Resting,
           \/ FullyReclaimed(w) \/ SweepCollected(w) \/ RemoveAsk(w)
           \/ AfterFault(w) \/ ForgetDue(w) \/ RetiredEmpty(w) \/ FilePurge(w)
    PROVE  RowStays /\ SweepStays /\ \E t : SweepBecomes(w, t) /\ SweepKeeps(sweep[w], t)
  <1> DEFINE s == sweep[w]
  <1>0. \A pc : SweepKeeps(s, [s EXCEPT !.pc = pc])
    BY DEF SweepKeeps, Resting
  <1>1. CASE FullyReclaimed(w)
    <2>1. SweepBecomes(w, [s EXCEPT !.pc = "remove"]) \/ SweepBecomes(w, [s EXCEPT !.pc = "collect"])
      BY <1>1, Zenon DEF FullyReclaimed
    <2> QED
      BY <1>0, <1>1, <2>1 DEF FullyReclaimed, RowStays, SweepStays, segment, besideSweeping
  <1>2. CASE SweepCollected(w)
    <2>1. SweepBecomes(w, [s EXCEPT !.pc = "remove"]) \/ SweepBecomes(w, EndSweep("notEmpty"))
      BY <1>2, Zenon DEF SweepCollected
    <2> QED
      BY <1>0, <1>2, <2>1, EndSweepKeeps DEF SweepCollected, RowStays, SweepStays, segment, besideSweeping
  <1>3. CASE RemoveAsk(w)
    <2>1. SweepBecomes(w, Removed(s)) \/ SweepBecomes(w, NotRemoved(s))
      BY <1>3, Zenon DEF RemoveAsk
    <2> QED
      BY <1>3, <2>1, RemovedKeeps DEF RemoveAsk, RowStays, SweepStays, segment, besideSweeping
  <1>4. CASE AfterFault(w)
    <2>1. SweepBecomes(w, [s EXCEPT !.pc = "filePurge"]) \/ SweepBecomes(w, EndSweep("skipped"))
      BY <1>4, Zenon DEF AfterFault
    <2> QED
      BY <1>0, <1>4, <2>1, EndSweepKeeps DEF AfterFault, RowStays, SweepStays, segment, besideSweeping
  <1>5. CASE ForgetDue(w)
    <2>1. PICK pc : SweepBecomes(w, [s EXCEPT !.pc = pc, !.todo = {}])
      BY <1>5, Zenon DEF ForgetDue
    <2>2. SweepKeeps(s, [s EXCEPT !.pc = pc, !.todo = {}])
      BY DEF SweepKeeps, Resting
    <2> QED
      BY <1>5, <2>1, <2>2 DEF ForgetDue, RowStays, SweepStays, segment, besideSweeping
  <1>6. CASE RetiredEmpty(w)
    <2>1. \/ SweepBecomes(w, [s EXCEPT !.pc = "remove", !.rec = row])
          \/ SweepBecomes(w, [s EXCEPT !.pc = "filePurge"])
      BY <1>6, Zenon DEF RetiredEmpty
    <2>2. SweepKeeps(s, [s EXCEPT !.pc = "remove", !.rec = row])
      BY DEF SweepKeeps, Resting
    <2> QED
      BY <1>0, <1>6, <2>1, <2>2 DEF RetiredEmpty, RowStays, SweepStays, segment, besideSweeping
  <1>7. CASE FilePurge(w)
    BY <1>7, EndSweepKeeps DEF FilePurge, RowStays, SweepStays, segment, besideSweeping
  <1> QED
    BY <1>1, <1>2, <1>3, <1>4, <1>5, <1>6, <1>7

(* What such a step leaves of a sweep is fine.                             *)
LEMMA SweepKept ==
    ASSUME IInv, NEW w \in Sweepers, NEW t, SweepKeeps(sweep[w], t), UNCHANGED clock,
           Follows(row, landed, row', landed')
    PROVE  SweepFine(t, row', landed', clock')
  <1>1. SweepFine(sweep[w], row, landed, clock) /\ clock \in Nat
    BY DEF IInv, Typed
  <1>2. Knows(t.rec, row, landed)
    BY <1>1, RowIsKnown DEF SweepFine, SweepKeeps
  <1>3. t.now \in Nat /\ t.now <= clock
    BY <1>1 DEF SweepFine, SweepKeeps
  <1> QED
    BY <1>2, <1>3 DEF SweepFine, SweepKeeps, Follows

(* So such a step keeps the invariant, if the segment moved as it may.     *)
LEMMA SweepIsFine ==
    ASSUME IInv, NEW w \in Sweepers, NEW t, SweepBecomes(w, t), SweepKeeps(sweep[w], t),
           SweepStays, UNCHANGED others, Stayed
    PROVE  IInv' /\ RowStep
  <1>1. Typed' /\ sweep'[w] = t /\ \A v \in Sweepers : v # w => sweep'[v] = sweep[v]
    BY DEF SweepBecomes, SweepStays, IInv, Typed
  <1>2. SweepFine(t, row', landed', clock')
    BY SweepKept DEF Stayed, SweepStays
  <1>3. clock <= clock' /\ others <= others'
    BY DEF IInv, Typed, SweepStays
  <1>4. IInv'
    BY <1>1, <1>2, <1>3, StepIsFine DEF Stayed, SweepStays
  <1> QED
    BY <1>4 DEF Stayed

(* A sweep removes the row, whatever becomes of the request.               *)
LEMMA RemoveRowFine ==
    ASSUME IInv, NEW w \in Sweepers, RemoveRow(w)
    PROVE  IInv' /\ RowStep
  <1> DEFINE s == sweep[w]
  <1>1. DOMAIN s = DOMAIN Resting
    BY DEF IInv, SweepFine
  <1>2. UNCHANGED <<inflight, landed, others>> /\ SweepStays /\ row' \in {row, NoRow}
    BY DEF RemoveRow, SweepStays, besideSweeping
  <1>3. Stayed
    BY <1>2, NothingMoves, GoneMoves DEF SweepStays, IInv, Typed
  <1>4. \/ SweepBecomes(w, Removed(s)) \/ SweepBecomes(w, NotRemoved(s))
        \/ SweepBecomes(w, [s EXCEPT !.pc = "removeAsk"])
    BY Zenon DEF RemoveRow
  <1>5. SweepKeeps(s, [s EXCEPT !.pc = "removeAsk"])
    BY <1>1 DEF SweepKeeps, Resting
  <1>6. PICK t : SweepBecomes(w, t) /\ SweepKeeps(s, t)
    BY <1>1, <1>4, <1>5, RemovedKeeps
  <1> QED
    BY <1>2, <1>3, <1>6, SweepIsFine

(* A sweep that begins touches the index.                                  *)
LEMMA BeginSweepingFine ==
    ASSUME IInv, NEW w \in Sweepers, BeginSweeping(w)
    PROVE  IInv' /\ RowStep
  <1>1. PICK pc : SweepBecomes(w, [Resting EXCEPT !.pc = pc, !.now = clock])
    BY Zenon DEF BeginSweeping
  <1>2. PICK t : t = [Resting EXCEPT !.pc = pc, !.now = clock]
    OBVIOUS
  <1>3. SweepKeeps(sweep[w], t)
    BY <1>2 DEF SweepKeeps, Resting
  <1>4. RowStays /\ UNCHANGED <<clock, load, drop>>
    BY DEF BeginSweeping, RowStays, segment
  <1>5. Stayed
    BY <1>4, NothingMoves DEF RowStays, IInv, Typed
  <1>6. policy' = [s \in Setters |-> [policy[s] EXCEPT !.alone = FALSE]]
    BY DEF BeginSweeping
  <1>7. \A s \in Setters : PolicyFine(s, policy'[s], row', landed') /\ PolicyGrows(policy[s], policy'[s])
    BY <1>4, <1>6, AloneKeeps DEF RowStays
  <1>8. sweep'[w] = t /\ (\A v \in Sweepers : v # w => sweep'[v] = sweep[v]) /\ DOMAIN sweep' = Sweepers
    BY <1>1, <1>2 DEF SweepBecomes, IInv, Typed
  <1>9. SweepFine(t, row', landed', clock')
    BY <1>3, <1>4, <1>5, SweepKept DEF Stayed
  <1>10. Typed' /\ clock <= clock' /\ others <= others'
    BY <1>4, <1>6, <1>8 DEF IInv, Typed, RowStays
  <1>11. IInv'
    BY <1>4, <1>5, <1>7, <1>8, <1>9, <1>10, StepIsFine DEF Stayed
  <1> QED
    BY <1>5, <1>11 DEF Stayed

(* A retirement that begins, and one whose end is taken up.                *)
LEMMA RetirementTurns ==
    ASSUME IInv, NEW w \in Sweepers, Reread(w) \/ SweepDropped(w)
    PROVE  IInv' /\ RowStep
  <1> DEFINE s == sweep[w]
             d == drop[w]
  <1>1. /\ DOMAIN s = DOMAIN Resting /\ s.now \in Nat /\ s.now <= clock
        /\ DropFine(w, d, row, landed, clock)
    BY DEF IInv, SweepFine
  <1>2. /\ RowStays /\ UNCHANGED <<clock, load, policy>>
    BY DEF Reread, SweepDropped, RowStays, segment, besideSweeping
  <1>3. Stayed
    BY <1>2, NothingMoves DEF RowStays, IInv, Typed
  <1>4. PICK t : SweepBecomes(w, t) /\ SweepKeeps(s, t)
    <2>1. \A live : SweepKeeps(s, [s EXCEPT !.pc = "drop", !.live = live])
      BY <1>1 DEF SweepKeeps, Resting
    <2>2. SweepKeeps(s, [s EXCEPT !.pc = "fault"])
      BY <1>1 DEF SweepKeeps, Resting
    <2>3. \A todo : SweepKeeps(s, [s EXCEPT !.pc = "forget", !.purge = FALSE, !.todo = todo])
      BY <1>1 DEF SweepKeeps, Resting
    <2>4. CASE Reread(w)
      <3>1. \/ SweepBecomes(w, [s EXCEPT !.pc = "drop", !.live = row])
            \/ SweepBecomes(w, EndSweep("policyChanged"))
        BY <2>4, Zenon DEF Reread
      <3> QED
        BY <2>1, <3>1, EndSweepKeeps
    <2>5. CASE SweepDropped(w)
      <3>1. PICK todo : todo = IF d.any \/ d.remaining # {} THEN {"held"} ELSE {}
        OBVIOUS
      <3>2. \/ SweepBecomes(w, EndSweep("policyChanged"))
            \/ SweepBecomes(w, [s EXCEPT !.pc = "fault"])
            \/ SweepBecomes(w, [s EXCEPT !.pc = "forget", !.purge = FALSE, !.todo = todo])
        BY <2>5, <3>1, Zenon DEF SweepDropped
      <3> QED
        BY <2>2, <2>3, <3>2, EndSweepKeeps
    <2> QED
      BY <2>4, <2>5
  <1>5. /\ \A v \in Sweepers : sweep'[v] = sweep[v] \/ SweepFine(sweep'[v], row', landed', clock')
        /\ DOMAIN sweep' = Sweepers
    <2>1. SweepFine(t, row', landed', clock')
      BY <1>2, <1>3, <1>4, SweepKept DEF Stayed
    <2> QED
      BY <1>4, <2>1 DEF SweepBecomes, IInv, Typed
  <1>6. CASE drop' = drop
    <2>1. Typed' /\ clock <= clock' /\ others <= others'
      BY <1>2, <1>5, <1>6 DEF IInv, Typed, RowStays
    <2>2. IInv'
      BY <1>2, <1>3, <1>5, <1>6, <2>1, StepIsFine DEF Stayed
    <2> QED
      BY <1>3, <2>2 DEF Stayed
  <1>7. CASE drop' # drop
    <2>1. PICK e : /\ DropBecomes(w, e)
                   /\ \/ e = [IdleDrop EXCEPT !.pc = "read", !.kind = "retire", !.now = s.now, !.writes = d.writes]
                      \/ e = [IdleDrop EXCEPT !.writes = d.writes]
      BY <1>7, Zenon DEF Reread, SweepDropped
    <2>2. /\ DOMAIN e = DOMAIN IdleDrop /\ e.writes = d.writes /\ e.rec = NoRow
          /\ e.now \in {s.now, 0}
          /\ e.pc = "start" \/ (e.pc = "read" /\ e.kind = "retire")
      <3>1. PICK writes, now : writes = d.writes /\ now = s.now
        OBVIOUS
      <3>2. CASE e = [IdleDrop EXCEPT !.pc = "read", !.kind = "retire", !.now = now, !.writes = writes]
        BY <3>1, <3>2 DEF IdleDrop
      <3>3. CASE e = [IdleDrop EXCEPT !.writes = writes]
        BY <3>1, <3>3 DEF IdleDrop
      <3> QED
        BY <2>1, <3>1, <3>2, <3>3
    <2>3. DropFine(w, e, row, landed, clock)
      BY <1>1, <2>2 DEF DropFine, Knows, IInv, Typed
    <2> QED
      BY <1>2, <1>5, <2>1, <2>2, <2>3, DropKeepsFine
  <1> QED
    BY <1>6, <1>7

(* Every step of a sweep.                                                  *)
LEMMA SweepNext ==
    ASSUME IInv, NEW w \in Sweepers, SweepStep(w)
    PROVE  IInv' /\ RowStep
  <1>1. DOMAIN sweep[w] = DOMAIN Resting
    BY DEF IInv, SweepFine
  <1>2. CASE BeginSweeping(w)
    BY <1>2, BeginSweepingFine
  <1>3. CASE RemoveRow(w)
    BY <1>3, RemoveRowFine
  <1>4. CASE Reread(w) \/ SweepDropped(w)
    BY <1>4, RetirementTurns
  <1>5. CASE SweepDrops(w)
    BY <1>5, DropNext DEF SweepDrops
  <1>6. CASE SweepCollects(w)
    <2>1. UNCHANGED <<row, inflight, landed, others, load, drop, clock, policy, sweep>>
      BY <1>6 DEF SweepCollects, PassReadRow, PassList, PassReadAgain, PassCheck, PassDelete, PassSettle,
                  loadVars, segment
    <2>2. Stayed
      BY <2>1, NothingMoves DEF IInv, Typed
    <2>3. Typed' /\ clock <= clock' /\ others <= others'
      BY <2>1 DEF IInv, Typed
    <2>4. IInv'
      BY <2>1, <2>2, <2>3, StepIsFine DEF Stayed
    <2> QED
      BY <2>2, <2>4 DEF Stayed
  <1>7. CASE \/ ScanRow(w) \/ ScanPointers(w) \/ SweepLitter(w) \/ SweepForeign(w) \/ SweepUnfile(w)
             \/ FullyReclaimed(w) \/ SweepCollected(w) \/ RemoveAsk(w)
             \/ AfterFault(w) \/ ForgetDue(w) \/ RetiredEmpty(w) \/ FilePurge(w)
    <2>1. RowStays /\ SweepStays /\ \E t : SweepBecomes(w, t) /\ SweepKeeps(sweep[w], t)
      BY <1>1, <1>7, SweepScans, SweepPurges
    <2>2. PICK t : SweepBecomes(w, t) /\ SweepKeeps(sweep[w], t)
      BY <2>1
    <2>3. Stayed
      BY <2>1, NothingMoves DEF RowStays, SweepStays, IInv, Typed
    <2> QED
      BY <2>1, <2>2, <2>3, SweepIsFine DEF RowStays
  <1> QED
    BY <1>2, <1>3, <1>4, <1>5, <1>6, <1>7 DEF SweepStep
-----------------------------------------------------------------------------
(* The other steps, and the whole.                                         *)

(* A lease taken or released leaves status and policy alone.               *)
LEMMA LeaseIsFine ==
    ASSUME IInv, NEW g, TakeLease(g) \/ ReleaseLease(g), UNCHANGED <<clock, load, drop, policy, sweep>>
    PROVE  IInv' /\ RowStep
  <1>1. PICK leases : OtherWrites(SwapOf(row, [leases |-> leases], OtherWrite))
    BY Zenon DEF TakeLease, ReleaseLease
  <1>2. Active
    BY DEF TakeLease, ReleaseLease
  <1>3. PICK r, patch, write, w : /\ r = row /\ patch = [leases |-> leases]
                                  /\ write = <<Other, others + 1>> /\ w = SwapOf(r, patch, write)
    OBVIOUS
  <1>4. Accepts(w) /\ Apply(w) /\ inflight' = inflight /\ others' = others + 1
    BY <1>1, <1>3 DEF OtherWrites, Apply, OtherWrite
  <1>5. Knows(r, row, landed) /\ r # NoRow /\ r.status # "destroyed"
    BY <1>2, <1>3, RowIsKnown DEF Active
  <1>6. PICK n : n = ApplyRegistryPatch(r, patch, w.token)
    OBVIOUS
  <1>7. n.status = r.status /\ n.retention = r.retention
    BY <1>3, <1>6, Leaves
  <1>8. Outcome(n, r, w, clock)
    BY <1>5, <1>7 DEF Outcome, Knows, RowFine
  <1>9. Fit(w, row, landed, clock) /\ w.token.write = write
    BY <1>3, <1>5, <1>6, <1>8, SwapIsFit
  <1>10. w.token.write \notin landed \cup NamesOf(inflight)
    BY <1>3, <1>9, NextIsNew
  <1>11. Moved(w)
    BY <1>4, <1>9, <1>10, WriteMoves
  <1>12. others \in Nat
    BY DEF IInv, Typed
  <1>13. MadeBy(w.token.write)'
    <2>1. others + 1 \in 1..others'
      BY <1>4, <1>12
    <2> QED
      BY <1>3, <1>9, <2>1 DEF MadeBy
  <1>14. Typed' /\ clock <= clock' /\ others <= others'
    BY <1>4, <1>12 DEF IInv, Typed
  <1>15. IInv'
    BY <1>11, <1>13, <1>14, StepIsFine DEF Moved
  <1> QED
    BY <1>11, <1>15 DEF Moved

(* A step of no process: late writes, late removals, time.                 *)
LEMMA StayedIsFine ==
    ASSUME IInv, Stayed, clock' \in Nat, clock <= clock', UNCHANGED <<others, load, drop, policy, sweep>>
    PROVE  IInv' /\ RowStep
  <1>1. Typed' /\ others <= others'
    BY DEF IInv, Typed
  <1>2. IInv'
    BY <1>1, StepIsFine DEF Stayed
  <1> QED
    BY <1>2 DEF Stayed

(* The invariant holds of every segment to start from.                     *)
LEMMA InitFine == Init => IInv
  <1> SUFFICES ASSUME Init
               PROVE  IInv
    OBVIOUS
  <1>1. PICK s \in Starts : StartOf(s)
    BY DEF Init
  <1>2. /\ inflight = {} /\ others = 2 /\ landed = {<<Other, 1>>, <<Other, 2>>} /\ clock = 1
        /\ load = [p \in Loaders |-> Idle]
        /\ drop = [d \in Droppers \cup Sweepers |-> IdleDrop]
        /\ policy = [t \in Setters |-> Unset]
        /\ sweep = [w \in Sweepers |-> Resting]
    BY DEF Init, LoadInit, DropInit
  <1>3. Typed
    BY <1>2 DEF Typed
  <1>4. row # NoRow => RowFine(row, landed)
    <2> SUFFICES ASSUME row # NoRow
                 PROVE  RowFine(row, landed)
      OBVIOUS
    <2>1. PICK n, key, yes, meta : /\ n = s.n /\ key = s.key /\ yes = TRUE
                                   /\ meta = [expiresAt |-> s.expiresAt, mark |-> s.mark]
      OBVIOUS
    <2>2. PICK base : base = PublishedRow(n, key, yes)
      OBVIOUS
    <2>3. row = [base EXCEPT !.retention = meta] /\ ~s.rowless
      BY <1>1, <2>1, <2>2 DEF StartOf
    <2>4. PICK token : token = [incarnation |-> <<Other, 1>>, counter |-> n - 1, write |-> <<Other, n>>]
      OBVIOUS
    <2>5. /\ DOMAIN base = {"currentGen", "status", "wrappedDeks", "summary", "knownGens",
                            "retention", "leases", "token", "pointerId"}
          /\ base.status = "active" /\ base.token = token /\ base.pointerId = token
      BY <2>2, <2>4 DEF PublishedRow
    <2>6. row.status = "active" /\ row.token = token /\ row.pointerId = token /\ row.retention = meta
      BY <2>3, <2>5
    <2>7. meta \in Meta
      BY <2>1, RetentionAssumption DEF Meta, Horizon
    <2>8. n \in 1..2
      BY <2>1, <2>3, RetentionAssumption
    <2>9. token.write \in landed /\ "write" \in DOMAIN token /\ token.incarnation \in landed
      BY <1>2, <2>4, <2>8
    <2> QED
      BY <2>6, <2>7, <2>9 DEF RowFine
  <1>5. SegmentFine(row, inflight, landed, clock)
    BY <1>2, <1>4 DEF SegmentFine
  <1>6. Counted
    <2> SUFFICES ASSUME NEW x \in landed
                 PROVE  MadeBy(x)
      BY <1>2 DEF Counted, NamesOf
    <2>1. PICK k \in 1..others : x = <<Other, k>>
      BY <1>2
    <2> QED
      BY <2>1 DEF MadeBy
  <1>7. \A p \in Loaders : LoadFine(p, load[p], row, landed)
    BY <1>2, FS_EmptySet DEF LoadFine, Idle, Knows, Numbered
  <1>8. \A d \in Droppers \cup Sweepers : DropFine(d, drop[d], row, landed, clock)
    BY <1>2 DEF DropFine, IdleDrop, Knows
  <1>9. \A t \in Setters : PolicyFine(t, policy[t], row, landed)
    BY <1>2, FS_EmptySet, NoMetaIsMeta DEF PolicyFine, Unset, Knows, Numbered
  <1>10. \A w \in Sweepers : SweepFine(sweep[w], row, landed, clock)
    BY <1>2 DEF SweepFine, Resting, Knows
  <1> QED
    BY <1>3, <1>5, <1>6, <1>7, <1>8, <1>9, <1>10 DEF IInv

(* Every step keeps the invariant, and retires only what has expired.      *)
LEMMA NextFine ==
    ASSUME IInv, [Next]_retentionVars
    PROVE  IInv' /\ RowStep
  <1>1. CASE UNCHANGED retentionVars
    <2>1. UNCHANGED <<row, inflight, landed, clock, others, load, drop, policy, sweep>>
      BY <1>1 DEF retentionVars, loadVars, segment
    <2>2. Stayed
      BY <2>1, NothingMoves DEF IInv, Typed
    <2> QED
      BY <2>1, <2>2, StayedIsFine DEF IInv, Typed
  <1>2. ASSUME NEW p \in Loaders \cap cast,
               (LoadStep(p) \/ Abandon(p)) /\ UNCHANGED <<pass, drop, faults, besideSegment>>
        PROVE  IInv' /\ RowStep
    BY <1>2, LoadNext DEF besideSegment
  <1>3. ASSUME NEW d \in Droppers \cap cast, DropStep(d) /\ UNCHANGED <<pass, besideSegment>>
        PROVE  IInv' /\ RowStep
    BY <1>3, DropNext DEF besideSegment
  <1>4. ASSUME NEW s \in Setters \cap cast, SetStep(s)
        PROVE  IInv' /\ RowStep
    BY <1>4, SetNext
  <1>5. ASSUME NEW w \in Sweepers \cap cast, SweepStep(w)
        PROVE  IInv' /\ RowStep
    BY <1>5, SweepNext
  <1>6. ASSUME NEW g \in Gens, TakeLease(g) \/ ReleaseLease(g),
               UNCHANGED <<load, pass, drop, faults, besideSegment>>
        PROVE  IInv' /\ RowStep
    BY <1>6, LeaseIsFine DEF besideSegment
  <1>7. CASE LateWrite /\ UNCHANGED <<load, pass, drop, faults, besideSegment>>
    <2>1. UNCHANGED <<clock, others, load, drop, policy, sweep>>
      BY <1>7 DEF LateWrite, LateWriteArrives, WriteIsLost, besideSegment
    <2>2. Stayed
      BY <1>7, <2>1, LateMoves
    <2> QED
      BY <2>1, <2>2, StayedIsFine DEF IInv, Typed
  <1>8. ASSUME NEW t \in removals, RemovalArrives(t)
        PROVE  IInv' /\ RowStep
    <2>1. row' \in {row, NoRow} /\ UNCHANGED <<inflight, landed, others, clock, load, drop, policy, sweep>>
      BY <1>8 DEF RemovalArrives
    <2>2. Stayed
      BY <2>1, NothingMoves, GoneMoves DEF IInv, Typed
    <2> QED
      BY <2>1, <2>2, StayedIsFine DEF IInv, Typed
  <1>9. CASE Tick
    <2>1. /\ UNCHANGED <<row, inflight, landed, others, load, drop, policy, sweep>>
          /\ clock' \in Nat /\ clock <= clock'
      BY <1>9 DEF Tick, loadVars, segment, IInv, Typed
    <2>2. Stayed
      BY <2>1, NothingMoves
    <2> QED
      BY <2>1, <2>2, StayedIsFine
  <1> QED
    BY <1>1, <1>2, <1>3, <1>4, <1>5, <1>6, <1>7, <1>8, <1>9 DEF Next

(* The inductive invariant holds throughout.                               *)
THEOREM Invariance == Spec => []IInv
  <1>1. IInv /\ [Next]_retentionVars => IInv'
    BY NextFine
  <1> QED
    BY <1>1, InitFine, PTL DEF Spec

(* The sweep (retention-sweep.ts, through the shred of erasure.ts) retires *)
(* a row only by a policy that had expired, on the very row its write      *)
(* replaces: however the policy is cleared or moved while the sweep is at  *)
(* it, and however late its write lands.                                   *)
THEOREM RetiresOnlyExpiredHolds == Spec => RetiresOnlyExpired
  <1>1. IInv /\ [Next]_retentionVars
        => [/\ Active /\ row' # NoRow /\ row'.status = "destroyed"
              /\ row'.pointerId.write[1] \in Sweepers
              => row'.retention.mark <= clock /\ ExpiredBy(row, row'.retention.mark)]_retentionVars
    BY NextFine DEF RowStep, RetireStep
  <1> QED
    BY <1>1, Invariance, PTL DEF Spec, RetiresOnlyExpired
-----------------------------------------------------------------------------
(* The due index, and the call that no other touches it beside.            *)

(* What a call knows of the index `ix`: it is to file its policy's day,    *)
(* and then it clears the others; the days it clears are not that one.     *)
Shows(c, ix) ==
    /\ c.pc = "file" => c.held \in Horizon \ {0} /\ Day(c.held) \notin c.todo
    /\ c.pc = "forget" /\ c.held # 0 =>
          /\ c.held \in Horizon /\ Day(c.held) \notin c.todo
          /\ c.indexed /\ c.alone => ix[Day(c.held)].there
    /\ c.result = "set" => /\ c.pc = "ended"
                           /\ c.indexed /\ c.alone => ix[Day(c.held)].there

(* Nothing that touches the index is under way beside a call that is alone.*)
Alone(s) ==
    policy[s].alone =>
        /\ \A t \in Setters : t # s => ~Setting(t)
        /\ \A w \in Sweepers : ~Sweeping(w)

IndexInv ==
    /\ DOMAIN due = Days
    /\ \A s \in Setters : Alone(s) /\ Shows(policy[s], due)

(* The day of a time there is, is one of the index.                        *)
LEMMA DaysCover == ASSUME NEW t \in Horizon PROVE Day(t) \in Days
  BY RetentionAssumption DEF Day, Days, Horizon

(* A step of a call before it touches the index.                           *)
Turns(c, b) == (b.alone => c.alone) /\ \A ix : Shows(b, ix)

(* A call that ends otherwise than with a policy set says nothing of it.   *)
LEMMA EndSetTurns ==
    ASSUME NEW c, NEW result, result # "set", NEW b, b = EndSet(c, result)
    PROVE  Turns(c, b)
  BY DEF Turns, Shows, EndSet, Unset

(* A call that turns to the index has its own day still to file, and left  *)
(* it out of those to clear.                                               *)
LEMMA ReindexTurns ==
    ASSUME NEW c, DOMAIN c = DOMAIN Unset, c.result # "set", NEW held \in Horizon,
           NEW b, b = Reindex(c, held)
    PROVE  Turns(c, b)
  <1>1. PICK todo : todo = {Day(t) : t \in c.previous} \ (IF held = 0 THEN {} ELSE {Day(held)})
    OBVIOUS
  <1>2. PICK pc : pc = IF held = 0 THEN "forget" ELSE "file"
    OBVIOUS
  <1>3. b = [c EXCEPT !.pc = pc, !.held = held, !.todo = todo]
    BY <1>1, <1>2, Zenon DEF Reindex
  <1>4. /\ b.pc = pc /\ b.held = held /\ b.todo = todo
        /\ b.result = c.result /\ b.alone = c.alone
    BY <1>3 DEF Unset
  <1>5. held # 0 => Day(held) \notin todo
    BY <1>1
  <1> QED
    BY <1>2, <1>4, <1>5 DEF Turns, Shows

(* The policy it files is one it read.                                     *)
LEMMA SetDecidedTurns ==
    ASSUME NEW c, DOMAIN c = DOMAIN Unset, c.result # "set",
           c.rec # NoRow => c.rec.retention \in Meta, NEW b, b = SetDecided(c)
    PROVE  Turns(c, b)
  <1>1. PICK r : r = c.rec
    OBVIOUS
  <1>2. PICK previous : previous = IF r = NoRow \/ r.retention.expiresAt = 0 THEN c.previous
                                   ELSE c.previous \cup {r.retention.expiresAt}
    OBVIOUS
  <1>3. PICK t : t = [c EXCEPT !.pc = "write", !.previous = previous]
    OBVIOUS
  <1>4. PICK held : held = IF c.expiresAt = 0 THEN 0 ELSE r.retention.expiresAt
    OBVIOUS
  <1>5. \/ b = Reindex(c, held) /\ Wrote(c, r)
        \/ b = Reindex(c, 0)
        \/ \E result \in {"none", "error"} : b = EndSet(c, result)
        \/ b = t
    BY <1>1, <1>2, <1>3, <1>4, Zenon DEF SetDecided
  <1>6. Wrote(c, r) => held \in Horizon
    BY <1>1, <1>4, NoMetaIsMeta DEF Wrote, Meta
  <1>7. Turns(c, t)
    BY <1>3 DEF Turns, Shows, Unset
  <1> QED
    BY <1>5, <1>6, <1>7, ReindexTurns, EndSetTurns, NoMetaIsMeta

(* A call that lost a race files nothing yet.                              *)
LEMMA SetLostRaceTurns ==
    ASSUME NEW c, DOMAIN c = DOMAIN Unset, c.result # "set", NEW b, b = SetLostRace(c)
    PROVE  Turns(c, b)
  <1>1. PICK attempt : attempt = IF c.waited THEN c.attempt ELSE c.attempt + 1
    OBVIOUS
  <1>2. PICK t : t = [c EXCEPT !.lost = c.rec, !.waited = FALSE, !.attempt = attempt]
    OBVIOUS
  <1>3. DOMAIN t = DOMAIN Unset /\ t.alone = c.alone /\ t.result = c.result
    BY <1>2 DEF Unset
  <1>4. b = [t EXCEPT !.pc = "read"] \/ b = EndSet(t, "error")
    BY <1>1, <1>2, Zenon DEF SetLostRace
  <1>5. Turns(c, [t EXCEPT !.pc = "read"])
    BY <1>3 DEF Turns, Shows, Unset
  <1>6. Turns(t, EndSet(t, "error"))
    BY EndSetTurns
  <1> QED
    BY <1>3, <1>4, <1>5, <1>6 DEF Turns

(* One step of a call under way, and what it leaves of the index.          *)
SetMoves(s) ==
    /\ Setting(s) /\ UNCHANGED sweep /\ DOMAIN due' = DOMAIN due
    /\ \E b : PolicyBecomes(s, b) /\ (b.alone => policy[s].alone) /\ Shows(b, due')

(* The steps before a call turns to the index, which leave it alone.       *)
LEMMA SetTurns ==
    ASSUME IInv, IndexInv, NEW s \in Setters, SetRead(s) \/ SetWrite(s) \/ SetAsk(s) \/ SetFails(s)
    PROVE  SetMoves(s)
  <1> DEFINE c == policy[s]
  <1>1. /\ DOMAIN c = DOMAIN Unset /\ c.expiresAt \in Horizon
        /\ row # NoRow => row.retention \in Meta
    BY DEF IInv, PolicyFine, SegmentFine, RowFine
  <1>2. Setting(s) /\ c.result # "set"
    BY DEF SetRead, SetWrite, SetAsk, SetFails, Setting, IndexInv, Shows
  <1>3. due' = due /\ sweep' = sweep
    BY DEF SetRead, SetWrite, SetAsk, SetFails, besideSetting
  <1>4. \E b : PolicyBecomes(s, b) /\ Turns(c, b)
    <2>1. CASE SetRead(s)
      <3>1. PICK a : a = [c EXCEPT !.rec = row]
        OBVIOUS
      <3>2. /\ DOMAIN a = DOMAIN Unset /\ a.rec = row /\ a.result = c.result /\ a.alone = c.alone
        BY <1>1, <3>1 DEF Unset
      <3>3. Turns(a, SetDecided(a))
        BY <1>1, <1>2, <3>2, SetDecidedTurns
      <3>4. Turns(c, SetDecided(a))
        BY <3>2, <3>3 DEF Turns
      <3>5. PICK b : b = [c EXCEPT !.waited = TRUE, !.churn = @ + 1]
        OBVIOUS
      <3>6. c.pc = "read" => Turns(c, b)
        BY <1>1, <1>2, <3>5 DEF Turns, Shows, Unset
      <3>7. PolicyBecomes(s, b) \/ PolicyBecomes(s, SetDecided(a))
        BY <2>1, <3>1, <3>5 DEF SetRead
      <3> QED
        BY <2>1, <3>4, <3>6, <3>7 DEF SetRead
    <2>2. CASE SetAsk(s)
      <3>1. PICK u : u = [c EXCEPT !.unsettled = TRUE]
        OBVIOUS
      <3>2. DOMAIN u = DOMAIN Unset /\ u.result = c.result /\ u.alone = c.alone
        BY <1>1, <3>1 DEF Unset
      <3>3. PICK held : held = IF c.expiresAt = 0 THEN 0 ELSE row.retention.expiresAt
        OBVIOUS
      <3>4. \/ PolicyBecomes(s, Reindex(c, held)) /\ Wrote(c, row)
            \/ PolicyBecomes(s, EndSet(c, "error")) \/ PolicyBecomes(s, SetLostRace(u))
        BY <2>2, <3>1, <3>3, Zenon DEF SetAsk
      <3>5. Wrote(c, row) => held \in Horizon
        BY <1>1, <3>3, NoMetaIsMeta DEF Wrote, Meta
      <3>6. Turns(c, SetLostRace(u))
        BY <1>2, <3>2, SetLostRaceTurns DEF Turns
      <3> QED
        BY <1>1, <1>2, <3>4, <3>5, <3>6, ReindexTurns, EndSetTurns
    <2>3. CASE SetWrite(s)
      <3>1. PICK token : token = SetRequest(s, c).token
        OBVIOUS
      <3>2. PICK t : t = [c EXCEPT !.sent = @ \cup {token}]
        OBVIOUS
      <3>3. PICK u : u = [t EXCEPT !.unsettled = TRUE]
        OBVIOUS
      <3>4. DOMAIN t = DOMAIN Unset /\ t.result = c.result /\ t.alone = c.alone
        BY <1>1, <3>2 DEF Unset
      <3>5. DOMAIN u = DOMAIN Unset /\ u.result = c.result /\ u.alone = c.alone
        BY <3>3, <3>4 DEF Unset
      <3>6. \/ PolicyBecomes(s, Reindex(t, c.expiresAt))
            \/ PolicyBecomes(s, SetLostRace(t)) \/ PolicyBecomes(s, SetLostRace(u))
            \/ PolicyBecomes(s, [t EXCEPT !.pc = "ask"])
        BY <2>3, <3>1, <3>2, <3>3, Zenon DEF SetWrite
      <3>7. Turns(c, Reindex(t, c.expiresAt)) /\ Turns(c, SetLostRace(t)) /\ Turns(c, SetLostRace(u))
        BY <1>1, <1>2, <3>4, <3>5, ReindexTurns, SetLostRaceTurns DEF Turns
      <3>8. Turns(c, [t EXCEPT !.pc = "ask"])
        BY <1>2, <3>4 DEF Turns, Shows, Unset
      <3> QED
        BY <3>6, <3>7, <3>8
    <2>4. CASE SetFails(s)
      BY <2>4, EndSetTurns DEF SetFails
    <2> QED
      BY <2>1, <2>2, <2>3, <2>4
  <1> QED
    BY <1>2, <1>3, <1>4 DEF SetMoves, Turns

(* The steps on the index: its own pointer is filed before any is cleared, *)
(* and is none of those.                                                   *)
LEMMA SetIndexes ==
    ASSUME IInv, IndexInv, NEW s \in Setters, SetFile(s) \/ SetForget(s)
    PROVE  SetMoves(s)
  <1> DEFINE c == policy[s]
  <1>1. DOMAIN c = DOMAIN Unset /\ DOMAIN due = Days /\ Shows(c, due)
    BY DEF IInv, PolicyFine, IndexInv
  <1>2. Setting(s) /\ sweep' = sweep
    BY DEF SetFile, SetForget, Setting, besideSetting
  <1>3. CASE SetFile(s)
    <2>1. PICK b : b = Day(c.held)
      OBVIOUS
    <2>2. c.held \in Horizon /\ b \in Days /\ b \notin c.todo /\ c.result # "set"
      BY <1>1, <1>3, <2>1, DaysCover DEF SetFile, Shows
    <2>3. PICK indexed : /\ PolicyBecomes(s, [c EXCEPT !.pc = "forget", !.indexed = indexed])
                         /\ \/ FileAt(b)
                            \/ due' = due /\ indexed = Filed(b)
      BY <1>3, <2>1, Zenon DEF SetFile
    <2>4. DOMAIN due' = Days /\ (indexed => due'[b].there)
      <3>1. CASE FileAt(b)
        <4>1. CASE Filed(b)
          BY <1>1, <3>1, <4>1 DEF FileAt, Filed
        <4>2. CASE ~Filed(b)
          <5>1. PICK token : token = due[b].token + 1
            OBVIOUS
          <5>2. due' = [due EXCEPT ![b] = [there |-> TRUE, token |-> token]]
            BY <3>1, <4>2, <5>1 DEF FileAt
          <5> QED
            BY <1>1, <2>2, <5>2
        <4> QED
          BY <4>1, <4>2
      <3>2. CASE due' = due /\ indexed = Filed(b)
        BY <1>1, <3>2 DEF Filed
      <3> QED
        BY <2>3, <3>1, <3>2
    <2>5. PICK a : a = [c EXCEPT !.pc = "forget", !.indexed = indexed]
      OBVIOUS
    <2>6. /\ a.pc = "forget" /\ a.indexed = indexed /\ a.held = c.held /\ a.todo = c.todo
          /\ a.alone = c.alone /\ a.result = c.result
      BY <1>1, <2>5 DEF Unset
    <2>7. Shows(a, due')
      BY <2>1, <2>2, <2>4, <2>6 DEF Shows
    <2> QED
      BY <1>1, <1>2, <2>3, <2>4, <2>5, <2>6, <2>7 DEF SetMoves
  <1>4. CASE SetForget(s)
    <2>1. c.pc = "forget"
      BY <1>4 DEF SetForget
    <2>2. CASE PolicyBecomes(s, EndSet(c, IF c.held = 0 THEN "cleared" ELSE "set")) /\ due' = due
      <3>1. PICK result : result = IF c.held = 0 THEN "cleared" ELSE "set"
        OBVIOUS
      <3>2. PICK a : a = EndSet(c, result)
        OBVIOUS
      <3>3. /\ a.pc = "ended" /\ a.result = result /\ a.held = c.held /\ a.indexed = c.indexed
            /\ a.alone = c.alone
        BY <3>2 DEF EndSet, Unset
      <3>4. Shows(a, due')
        BY <1>1, <2>1, <2>2, <3>1, <3>3 DEF Shows
      <3> QED
        BY <1>2, <2>2, <3>1, <3>2, <3>3, <3>4 DEF SetMoves
    <2>3. ASSUME NEW b \in c.todo, PolicyBecomes(s, [c EXCEPT !.todo = @ \ {b}]),
                 UnfileAt(b) \/ due' = due
          PROVE  SetMoves(s)
      <3>1. PICK a : a = [c EXCEPT !.todo = @ \ {b}]
        OBVIOUS
      <3>2. /\ a.pc = c.pc /\ a.result = c.result /\ a.held = c.held /\ a.indexed = c.indexed
            /\ a.alone = c.alone /\ a.todo \subseteq c.todo
        BY <1>1, <3>1 DEF Unset
      <3>3. DOMAIN due' = Days /\ \A g \in Days : g # b => due'[g] = due[g]
        BY <1>1, <2>3 DEF UnfileAt
      <3>4. c.held # 0 => due'[Day(c.held)] = due[Day(c.held)]
        BY <1>1, <2>1, <2>3, <3>3, DaysCover DEF Shows
      <3>5. Shows(a, due')
        BY <1>1, <2>1, <3>2, <3>4 DEF Shows
      <3> QED
        BY <1>1, <1>2, <2>3, <3>1, <3>2, <3>3, <3>5 DEF SetMoves
    <2>4. \/ PolicyBecomes(s, EndSet(c, IF c.held = 0 THEN "cleared" ELSE "set")) /\ due' = due
          \/ \E b \in c.todo : /\ PolicyBecomes(s, [c EXCEPT !.todo = @ \ {b}])
                               /\ UnfileAt(b) \/ due' = due
      BY <1>4, Zenon DEF SetForget
    <2> QED
      BY <2>2, <2>3, <2>4
  <1> QED
    BY <1>3, <1>4

(* A call under way that steps is the only one that is alone.              *)
LEMMA SetKeepsIndex ==
    ASSUME IInv, IndexInv, NEW s \in Setters, SetMoves(s)
    PROVE  IndexInv'
  <1>1. PICK b : PolicyBecomes(s, b) /\ (b.alone => policy[s].alone) /\ Shows(b, due')
    BY DEF SetMoves
  <1>2. policy'[s] = b /\ \A t \in Setters : t # s => policy'[t] = policy[t]
    BY <1>1 DEF PolicyBecomes, IInv, Typed
  <1>3. Setting(s) /\ sweep' = sweep /\ DOMAIN due' = Days
    BY DEF SetMoves, IndexInv
  <1>4. \A t \in Setters : t # s => ~policy[t].alone
    BY <1>3 DEF IndexInv, Alone
  <1>5. Alone(s)'
    <2> SUFFICES ASSUME b.alone
                 PROVE  /\ \A t \in Setters : t # s => ~Setting(t)'
                        /\ \A w \in Sweepers : ~Sweeping(w)'
      BY <1>2 DEF Alone
    <2>1. Alone(s)
      BY DEF IndexInv
    <2> QED
      BY <1>1, <1>2, <1>3, <2>1 DEF Alone, Setting, Sweeping
  <1>6. \A t \in Setters : t # s => Alone(t)' /\ Shows(policy'[t], due')
    <2> SUFFICES ASSUME NEW t \in Setters, t # s
                 PROVE  Alone(t)' /\ Shows(policy'[t], due')
      OBVIOUS
    <2>1. policy'[t] = policy[t] /\ ~policy[t].alone /\ Shows(policy[t], due)
      BY <1>2, <1>4 DEF IndexInv
    <2> QED
      BY <2>1 DEF Alone, Shows
  <1> QED
    BY <1>1, <1>2, <1>3, <1>5, <1>6 DEF IndexInv

(* A call that begins leaves no other alone.                               *)
LEMMA BeginSetKeepsIndex ==
    ASSUME IInv, IndexInv, NEW s \in Setters, BeginSet(s)
    PROVE  IndexInv'
  <1> DEFINE others1 == (\A t \in Setters : ~Setting(t)) /\ (\A w \in Sweepers : ~Sweeping(w))
  <1>1. PICK alone : alone = others1
    OBVIOUS
  <1>2. PICK e \in Expiries \cup {0} :
           policy' = [t \in Setters |-> IF t = s
                                        THEN [Unset EXCEPT !.pc = "read", !.expiresAt = e, !.alone = alone]
                                        ELSE [policy[t] EXCEPT !.alone = FALSE]]
    BY <1>1, Zenon DEF BeginSet
  <1>3. PICK c : c = [Unset EXCEPT !.pc = "read", !.expiresAt = e, !.alone = alone]
    OBVIOUS
  <1>4. /\ policy'[s] = c
        /\ \A t \in Setters : t # s => policy'[t] = [policy[t] EXCEPT !.alone = FALSE]
    BY <1>2, <1>3
  <1>5. c.pc = "read" /\ c.result = "none" /\ c.alone = alone
    BY <1>3 DEF Unset
  <1>6. due' = due /\ sweep' = sweep
    BY DEF BeginSet, besideSetting
  <1>7. ASSUME NEW t \in Setters, t # s
        PROVE  /\ policy'[t].alone = FALSE /\ policy'[t].pc = policy[t].pc
               /\ Shows(policy'[t], due')
    <2>1. PICK b : b = [policy[t] EXCEPT !.alone = FALSE]
      OBVIOUS
    <2>2. DOMAIN policy[t] = DOMAIN Unset /\ Shows(policy[t], due)
      BY DEF IInv, PolicyFine, IndexInv
    <2>3. /\ b.alone = FALSE /\ b.pc = policy[t].pc /\ b.result = policy[t].result
          /\ b.held = policy[t].held /\ b.todo = policy[t].todo
      BY <2>1, <2>2 DEF Unset
    <2>4. Shows(b, due')
      BY <1>6, <2>2, <2>3 DEF Shows
    <2>5. policy'[t] = b
      BY <1>4, <1>7, <2>1, Zenon
    <2> QED
      BY <2>3, <2>4, <2>5
  <1>8. Shows(c, due')
    BY <1>5 DEF Shows
  <1>9. Alone(s)'
    <2> SUFFICES ASSUME alone
                 PROVE  /\ \A t \in Setters : t # s => ~Setting(t)'
                        /\ \A w \in Sweepers : ~Sweeping(w)'
      BY <1>4, <1>5 DEF Alone
    <2> QED
      BY <1>1, <1>6, <1>7 DEF Setting, Sweeping
  <1>10. \A t \in Setters : t # s => Alone(t)'
    BY <1>7 DEF Alone
  <1> QED
    BY <1>4, <1>6, <1>7, <1>8, <1>9, <1>10 DEF IndexInv

(* What a sweep does to the index, once it is under way.                   *)
LEMMA SweepTouches ==
    ASSUME IndexInv, NEW w, SweepStep(w), ~BeginSweeping(w)
    PROVE  Sweeping(w) /\ DOMAIN due' = DOMAIN due /\ policy' = policy
  <1>1. \A b : UnfileAt(b) \/ FileAt(b) => DOMAIN due' = DOMAIN due
    BY DEF UnfileAt, FileAt
  <1>2. \A p : Unfile(p) => DOMAIN due' = DOMAIN due
    BY <1>1, Zenon DEF Unfile
  <1>3. CASE ScanRow(w) \/ ScanPointers(w) \/ SweepLitter(w) \/ SweepForeign(w)
    BY <1>3 DEF ScanRow, ScanPointers, SweepLitter, SweepForeign, Sweeping, besideSweeping
  <1>4. CASE SweepUnfile(w)
    <2>1. DOMAIN due' = DOMAIN due
      BY <1>2, <1>4, Zenon DEF SweepUnfile
    <2> QED
      BY <1>4, <2>1 DEF SweepUnfile, Sweeping, besideSweeping
  <1>5. CASE FullyReclaimed(w) \/ SweepCollects(w) \/ SweepCollected(w) \/ RemoveRow(w) \/ RemoveAsk(w)
    BY <1>5 DEF FullyReclaimed, SweepCollects, SweepCollected, RemoveRow, RemoveAsk, Sweeping, besideSweeping
  <1>6. CASE Reread(w) \/ SweepDrops(w) \/ SweepDropped(w) \/ AfterFault(w) \/ RetiredEmpty(w)
    BY <1>6 DEF Reread, SweepDrops, SweepDropped, AfterFault, RetiredEmpty, Sweeping, besideSweeping
  <1>7. CASE ForgetDue(w) \/ FilePurge(w)
    <2>1. DOMAIN due' = DOMAIN due
      BY <1>1, <1>7, Zenon DEF ForgetDue, FilePurge
    <2> QED
      BY <1>7, <2>1 DEF ForgetDue, FilePurge, Sweeping, besideSweeping
  <1> QED
    BY <1>3, <1>4, <1>5, <1>6, <1>7 DEF SweepStep

(* While a sweep is under way no call is alone; one that begins sees to it.*)
LEMMA SweepKeepsIndex ==
    ASSUME IInv, IndexInv, NEW w \in Sweepers, SweepStep(w)
    PROVE  IndexInv'
  <1>1. CASE BeginSweeping(w)
    <2>1. due' = due /\ policy' = [s \in Setters |-> [policy[s] EXCEPT !.alone = FALSE]]
      BY <1>1 DEF BeginSweeping
    <2>2. ASSUME NEW s \in Setters
          PROVE  Alone(s)' /\ Shows(policy'[s], due')
      <3>1. PICK b : b = [policy[s] EXCEPT !.alone = FALSE]
        OBVIOUS
      <3>2. DOMAIN policy[s] = DOMAIN Unset /\ Shows(policy[s], due)
        BY DEF IInv, PolicyFine, IndexInv
      <3>3. /\ b.alone = FALSE /\ b.pc = policy[s].pc /\ b.result = policy[s].result
            /\ b.held = policy[s].held /\ b.todo = policy[s].todo
        BY <3>1, <3>2 DEF Unset
      <3>4. Shows(b, due') /\ policy'[s] = b
        BY <2>1, <3>1, <3>2, <3>3 DEF Shows
      <3> QED
        BY <3>3, <3>4 DEF Alone
    <2> QED
      BY <2>1, <2>2 DEF IndexInv
  <1>2. CASE ~BeginSweeping(w)
    <2>1. Sweeping(w) /\ DOMAIN due' = DOMAIN due /\ policy' = policy
      BY <1>2, SweepTouches
    <2>2. \A s \in Setters : ~policy[s].alone /\ Shows(policy[s], due)
      BY <2>1 DEF IndexInv, Alone
    <2> QED
      BY <2>1, <2>2 DEF IndexInv, Alone, Shows
  <1> QED
    BY <1>1, <1>2

(* A step that touches neither calls, sweeps nor the index.                *)
LEMMA OthersKeepIndex ==
    ASSUME IndexInv, UNCHANGED <<due, policy, sweep>>
    PROVE  IndexInv'
  BY DEF IndexInv, Alone, Setting, Sweeping

(* Every step keeps what is said of the index.                             *)
LEMMA IndexNext ==
    ASSUME IInv, IndexInv, [Next]_retentionVars
    PROVE  IndexInv'
  <1>1. CASE UNCHANGED retentionVars
    BY <1>1, OthersKeepIndex DEF retentionVars
  <1>2. ASSUME NEW s \in Setters \cap cast, SetStep(s)
        PROVE  IndexInv'
    BY <1>2, BeginSetKeepsIndex, SetTurns, SetIndexes, SetKeepsIndex DEF SetStep
  <1>3. ASSUME NEW w \in Sweepers \cap cast, SweepStep(w)
        PROVE  IndexInv'
    BY <1>3, SweepKeepsIndex
  <1>4. CASE (\E d \in Droppers \cap cast : DropStep(d) /\ UNCHANGED <<pass, besideSegment>>)
             \/ (\E t \in removals : RemovalArrives(t)) \/ Tick
    BY <1>4, OthersKeepIndex DEF besideSegment, RemovalArrives, Tick
  <1>5. CASE UNCHANGED <<pass, drop, faults, besideSegment>>
    BY <1>5, OthersKeepIndex DEF besideSegment
  <1>6. CASE UNCHANGED <<load, pass, drop, faults, besideSegment>>
    BY <1>6, OthersKeepIndex DEF besideSegment
  <1> QED
    BY <1>1, <1>2, <1>3, <1>4, <1>5, <1>6 DEF Next

(* It holds of every index to start from.                                  *)
LEMMA IndexInit == Init => IndexInv
  <1>1. Init => DOMAIN due = Days /\ policy = [s \in Setters |-> Unset]
    BY DEF Init, StartOf
  <1>2. Unset.pc = "start" /\ Unset.alone = FALSE /\ Unset.result = "none"
    BY DEF Unset
  <1> QED
    BY <1>1, <1>2 DEF IndexInv, Alone, Shows

(* A policy that setRetention said it indexed (retention.ts, due-index.ts) *)
(* is under its day for as long as no other call and no sweep touched the  *)
(* index: the new pointer is filed before the days left behind are         *)
(* cleared, whatever those are and whichever of the writes failed.         *)
THEOREM IndexedIsFoundHolds == Spec => []IndexedIsFound
  <1>1. IInv /\ IndexInv /\ [Next]_retentionVars => IndexInv'
    BY IndexNext
  <1>2. IndexInv => IndexedIsFound
    BY DEF IndexInv, Shows, IndexedIsFound, Filed
  <1> QED
    BY <1>1, <1>2, IndexInit, Invariance, PTL DEF Spec
-----------------------------------------------------------------------------
(* A name that was dropped.                                                *)

Early == {"start", "number", "key", "put"}

(* The object g is the one this load put, and none of its writes was       *)
(* applied: it is under way yet, or cannot tell.                           *)
Holds(l, g, made) ==
    /\ l.gen = g
    /\ l.pc \notin Early \cup {"watch", "published"}
    /\ l.pc = "ended" => l.result = "unknown" \/ l.untidy
    /\ \A t \in l.sent : t.write \notin made

(* Every object there is, but those of x, is held by the load that put it. *)
HeldBut(x) == \A g \in Listed : \/ objects[g].by \in x
                                \/ objects[g].by \in Loaders /\ Holds(load[objects[g].by], g, landed)

HeldByLoads == HeldBut({})

(* An incarnation whose row, if it is still there, is a tombstone.         *)
Buried(i, x, made) == i \in made /\ (x # NoRow /\ x.token.incarnation = i => x.status = "destroyed")

(* A drop that said nothing remains under its tombstone.                   *)
Told(s) == s.kind = "drop" /\ s.result = "done" /\ s.destroyed /\ s.remaining = {}

(* From the listing that found nothing, only loads that were under way put *)
(* an object, and none of them can publish it.                             *)
DropInv ==
    /\ DOMAIN objects = Gens
    /\ \A p \in Loaders : load[p].pc \in Early => load[p].sent = {}
    /\ \A d \in Droppers :
          LET s == drop[d]
          IN  /\ s.pc # "ended" => s.result = "none"
              /\ s.destroyed => Buried(s.tombstone.incarnation, row, landed)
              /\ Told(s) /\ row # NoRow /\ row.token.incarnation = s.tombstone.incarnation => HeldByLoads

Entombed == row # NoRow /\ row.status = "destroyed"

(* A step in which no load can publish: there is a tombstone, or no row    *)
(* and none after it.                                                      *)
Closed == Entombed \/ (row = NoRow /\ row' = NoRow)

(* One load becomes m: in such a step what it holds it holds still, or it  *)
(* is gone; what it puts it holds.                                         *)
Carries(p, m) ==
    /\ DOMAIN objects' = Gens
    /\ m.pc \in Early => load[p].pc \in Early /\ m.sent = load[p].sent
    /\ \A g \in Gens :
          \/ /\ objects'[g] \in {objects[g], None}
             /\ Closed /\ Holds(load[p], g, landed) /\ objects[g] # None /\ objects[g].by = p
                => Holds(m, g, landed) \/ objects'[g] = None
          \/ objects'[g].by = p /\ Holds(m, g, landed)

(* A load that is past its put and goes on with the object it has.         *)
GoesOn(l, m) ==
    /\ m.gen = l.gen /\ m.sent = l.sent
    /\ m.pc \notin Early \cup {"watch", "published"}
    /\ m.pc = "ended" => m.result = "unknown" \/ m.untidy

(* A step of a load that leaves the bucket alone, and of which the load    *)
(* that comes out has the object it had.                                   *)
LEMMA GoesOnCarries ==
    ASSUME DropInv, NEW p \in Loaders, NEW m, objects' = objects,
           Closed => GoesOn(load[p], m), m.pc \notin Early
    PROVE  Carries(p, m)
  <1>1. DOMAIN objects' = Gens
    BY DEF DropInv
  <1> QED
    BY <1>1 DEF Carries, GoesOn, Holds

(* A load that gives up without knowing has the object it had.             *)
LEMMA UnknownGoesOn ==
    ASSUME NEW l
    PROVE  GoesOn(l, End(l, "unknown"))
  BY DEF GoesOn, End, Idle, Early

(* A load whose reclaim met a fault has the object it had, if it is there. *)
LEMMA UntidyGoesOn ==
    ASSUME NEW l
    PROVE  GoesOn(l, Untidy(l)) /\ Untidy(l).pc \notin Early
  BY DEF GoesOn, Untidy, End, Idle, Early

(* A load that takes another turn has the object it had.                   *)
LEMMA TurnGoesOn ==
    ASSUME NEW l, NEW m, DOMAIN m = DOMAIN Idle, m.gen = l.gen, m.sent = l.sent,
           NEW pc \in {"read", "decide"}
    PROVE  GoesOn(l, Turn(m, pc))
  BY DEF GoesOn, Turn, Idle, Early

(* A load that published has left the numbers.                             *)
LEMMA PublishedIsPast ==
    ASSUME NEW p, NEW l, NEW before, NEW live
    PROVE  Published(p, l, before, live).pc \notin Early
  <1>1. PICK kept : kept = IF l.seed.wanted THEN NotByName
                           ELSE Kept(LedgerSource(before), EntryOf(p, l), Keep, live)
    OBVIOUS
  <1>2. PICK e : e = End(l, "published")
    OBVIOUS
  <1>3. Published(p, l, before, live) = [e EXCEPT !.pc = "published", !.kept = kept]
    BY <1>1, <1>2 DEF Published
  <1>4. DOMAIN e = DOMAIN Idle
    BY <1>2 DEF End, Idle
  <1> QED
    BY <1>3, <1>4 DEF Idle, Early

(* Up to the put.                                                          *)
LEMMA EarlyCarries ==
    ASSUME IInv, DropInv, NEW p \in Loaders, ReadRow(p) \/ Number(p) \/ ChooseKey(p) \/ Put(p)
    PROVE  \E m : Becomes(p, m) /\ Carries(p, m)
  <1> DEFINE l == load[p]
  <1>1. DOMAIN l = DOMAIN Idle /\ DOMAIN objects = Gens /\ (l.pc \in Early => l.sent = {})
    BY DEF IInv, LoadFine, DropInv
  <1>2. l.pc \in Early
    <2>1. l.pc = "start" \/ l.pc = "number" \/ l.pc = "key" \/ l.pc = "put"
      BY Zenon DEF ReadRow, Number, ChooseKey, Put
    <2> QED
      BY <2>1 DEF Early
  <1>3. ASSUME NEW m, objects' = objects, m.pc \in Early => m.sent = l.sent
        PROVE  Carries(p, m)
    BY <1>1, <1>2, <1>3 DEF Carries, Holds
  <1>4. \A result : End(l, result).pc = "ended"
    BY DEF End, Idle
  <1>5. CASE ReadRow(p)
    <2>1. PICK m : m = [l EXCEPT !.pc = "number", !.base = row, !.rec = row]
      OBVIOUS
    <2>2. m.sent = l.sent
      BY <1>1, <2>1 DEF Idle
    <2> QED
      BY <1>3, <1>5, <2>1, <2>2 DEF ReadRow, segment
  <1>6. CASE Number(p)
    <2>1. PICK g, listed : Becomes(p, [l EXCEPT !.pc = "key", !.gen = g, !.listed = listed])
      BY <1>6, Zenon DEF Number
    <2>2. PICK m : m = [l EXCEPT !.pc = "key", !.gen = g, !.listed = listed]
      OBVIOUS
    <2>3. m.sent = l.sent
      BY <1>1, <2>2 DEF Idle
    <2>4. objects' = objects
      BY <1>6, Zenon DEF Number, segment
    <2> QED
      BY <1>3, <2>1, <2>2, <2>3, <2>4
  <1>7. CASE ChooseKey(p)
    <2>1. PICK key, mints : \/ Becomes(p, End(l, "error"))
                            \/ Becomes(p, [l EXCEPT !.pc = "put", !.key = key, !.minted = mints])
      BY <1>7, Zenon DEF ChooseKey
    <2>2. PICK m : m = [l EXCEPT !.pc = "put", !.key = key, !.minted = mints]
      OBVIOUS
    <2>3. m.sent = l.sent
      BY <1>1, <2>2 DEF Idle
    <2>4. objects' = objects
      BY <1>7 DEF ChooseKey, segment
    <2>5. Carries(p, m) /\ Carries(p, End(l, "error"))
      BY <1>3, <1>4, <2>3, <2>4 DEF Early
    <2> QED
      BY <2>1, <2>2, <2>5
  <1>8. CASE Put(p)
    <2>1. CASE objects[l.gen] # None
      <3>1. Becomes(p, End(l, "superseded")) /\ objects' = objects
        BY <1>8, <2>1 DEF Put, segment
      <3> QED
        BY <1>3, <1>4, <3>1 DEF Early
    <2>2. CASE objects[l.gen] = None
      <3>1. PICK pc, result : /\ objects' = [objects EXCEPT ![l.gen] = [by |-> p, key |-> l.key]]
                              /\ pc \in {"seed", "decide", "reclaim"}
                              /\ \/ Becomes(p, [l EXCEPT !.pc = pc])
                                 \/ Becomes(p, [l EXCEPT !.pc = pc, !.result = result])
        BY <1>8, <2>2, Zenon DEF Put
      <3>2. PICK m : /\ Becomes(p, m)
                     /\ m \in {[l EXCEPT !.pc = pc], [l EXCEPT !.pc = pc, !.result = result]}
        BY <3>1
      <3>3. m.sent = {} /\ m.gen = l.gen /\ m.pc = pc
        BY <1>1, <1>2, <3>2 DEF Idle
      <3>4. Holds(m, l.gen, landed) /\ m.pc \notin Early
        BY <3>1, <3>3 DEF Holds, Early
      <3>5. ASSUME NEW g \in Gens
            PROVE  objects'[g] = objects[g] \/ (objects'[g].by = p /\ g = l.gen)
        BY <1>1, <3>1
      <3>6. \A g : ~Holds(l, g, landed)
        BY <1>2 DEF Holds
      <3>7. DOMAIN objects' = Gens
        BY <1>1, <3>1
      <3>8. Carries(p, m)
        BY <3>4, <3>5, <3>6, <3>7 DEF Carries
      <3> QED
        BY <3>2, <3>8
    <2> QED
      BY <2>1, <2>2
  <1> QED
    BY <1>5, <1>6, <1>7, <1>8

(* The seed of a ledger.                                                   *)
LEMMA SeedCarries ==
    ASSUME IInv, DropInv, NEW p \in Loaders,
           SeedLeases(p) \/ SeedList(p) \/ SeedRead(p) \/ SeedFails(p)
    PROVE  \E m : Becomes(p, m) /\ Carries(p, m)
  <1> DEFINE l == load[p]
  <1>1. DOMAIN l = DOMAIN Idle
    BY DEF IInv, LoadFine
  <1>2. objects' = objects
    BY Zenon DEF SeedLeases, SeedList, SeedRead, SeedFails, segment
  <1>3. ASSUME NEW m, GoesOn(l, m)
        PROVE  Carries(p, m)
    BY <1>2, <1>3, GoesOnCarries DEF GoesOn
  <1>4. ASSUME NEW present, NEW held
        PROVE  GoesOn(l, Seeds(l, present, held))
    <2>1. PICK order : order = SeedOrder(l, present, held)
      OBVIOUS
    <2>2. PICK pc, seed : /\ pc = IF order = <<>> THEN "decide" ELSE "seedRead"
                          /\ seed = [NoSeed EXCEPT !.wanted = TRUE, !.order = order,
                                                   !.todo = ToSet(order)]
      OBVIOUS
    <2>3. Seeds(l, present, held) = [l EXCEPT !.pc = pc, !.listed = {}, !.seed = seed]
      BY <2>1, <2>2 DEF Seeds
    <2>4. pc \in {"decide", "seedRead"}
      BY <2>2
    <2> QED
      BY <1>1, <2>3, <2>4 DEF GoesOn, Idle, Early
  <1>5. CASE SeedLeases(p)
    <2>1. PICK held : Becomes(p, IF l.listed # {} THEN Seeds(l, l.listed, held)
                                 ELSE [l EXCEPT !.pc = "seedList", !.seed.todo = held])
      BY <1>5, Zenon DEF SeedLeases
    <2>2. GoesOn(l, [l EXCEPT !.pc = "seedList", !.seed.todo = held])
      BY <1>1 DEF GoesOn, Idle, Early
    <2> QED
      BY <1>3, <1>4, <2>1, <2>2
  <1>6. CASE SeedList(p)
    <2>1. Becomes(p, Seeds(l, Listed, l.seed.todo))
      BY <1>6, Zenon DEF SeedList
    <2> QED
      BY <1>3, <1>4, <2>1
  <1>7. CASE SeedRead(p)
    <2>1. PICK pc, seed : /\ Becomes(p, [l EXCEPT !.pc = pc, !.seed = seed])
                          /\ pc = "decide" \/ pc = l.pc
      BY <1>7, Zenon DEF SeedRead
    <2>2. l.pc = "seedRead"
      BY <1>7, Zenon DEF SeedRead
    <2>3. GoesOn(l, [l EXCEPT !.pc = pc, !.seed = seed])
      BY <1>1, <2>1, <2>2 DEF GoesOn, Idle, Early
    <2> QED
      BY <1>3, <2>1, <2>3
  <1>8. CASE SeedFails(p)
    <2>1. Becomes(p, [l EXCEPT !.pc = "reclaim", !.result = "error"])
      BY <1>8, Zenon DEF SeedFails
    <2>2. GoesOn(l, [l EXCEPT !.pc = "reclaim", !.result = "error"])
      BY <1>1 DEF GoesOn, Idle, Early
    <2> QED
      BY <1>3, <2>1, <2>2
  <1> QED
    BY <1>5, <1>6, <1>7, <1>8

(* The end of a load that read its own write on the row: with a write that *)
(* was applied, it held nothing.                                           *)
LEMMA PublishedCarries ==
    ASSUME DropInv, NEW p \in Loaders, NEW m, objects' = objects, m.pc \notin Early,
           Closed => \A g : ~Holds(load[p], g, landed)
    PROVE  Carries(p, m)
  BY DEF Carries, DropInv

(* The steps that settle what a write did: in a step that is closed none   *)
(* says that one was applied.                                              *)
LEMMA SettleCarries ==
    ASSUME IInv, DropInv, NEW p \in Loaders,
           \/ SettleLanded(p) \/ Refuse(p) \/ WaitOutChurn(p) \/ RefuseSealed(p)
           \/ AskRow(p) \/ ReadAgain(p) \/ FinalRead(p)
    PROVE  \E m : Becomes(p, m) /\ Carries(p, m)
  <1> DEFINE l == load[p]
  <1>1. DOMAIN l = DOMAIN Idle /\ Knows(l.rec, row, landed)
    BY DEF IInv, LoadFine
  <1>2. objects' = objects
    BY Zenon DEF SettleLanded, Refuse, WaitOutChurn, RefuseSealed, AskRow, ReadAgain, FinalRead, segment
  <1>3. ASSUME NEW m, GoesOn(l, m)
        PROVE  Carries(p, m)
    BY <1>2, <1>3, GoesOnCarries DEF GoesOn
  <1>4. GoesOn(l, [l EXCEPT !.pc = "reclaim", !.result = "refused"])
    BY <1>1 DEF GoesOn, Idle, Early
  <1>5. CASE SettleLanded(p)
    <2>1. PICK live : Becomes(p, Published(p, l, l.before, live))
      BY <1>5, Zenon DEF SettleLanded
    <2>2. l.rec # NoRow /\ l.rec.pointerId \in l.sent
      BY <1>5, Zenon DEF SettleLanded, LandedHere, PointerSetBy
    <2>3. l.rec.pointerId.write \in landed
      BY <1>1, <2>2 DEF Knows, RowFine
    <2>4. \A g : ~Holds(l, g, landed)
      BY <2>2, <2>3 DEF Holds
    <2>5. PICK m : m = Published(p, l, l.before, live)
      OBVIOUS
    <2>6. m.pc \notin Early
      BY <2>5, PublishedIsPast
    <2>7. Carries(p, m)
      BY <1>2, <2>4, <2>6, PublishedCarries
    <2> QED
      BY <2>1, <2>5, <2>7
  <1>6. CASE Refuse(p)
    <2>1. PICK early : Becomes(p, [l EXCEPT !.pc = "reclaim", !.result = "refused", !.early = early])
      BY <1>6, Zenon DEF Refuse
    <2>2. GoesOn(l, [l EXCEPT !.pc = "reclaim", !.result = "refused", !.early = early])
      BY <1>1 DEF GoesOn, Idle, Early
    <2> QED
      BY <1>3, <2>1, <2>2
  <1>7. CASE WaitOutChurn(p)
    <2>1. /\ Becomes(p, [l EXCEPT !.rec = row, !.waited = TRUE, !.before = None, !.churn = @ + 1])
          /\ l.pc = "decide"
      BY <1>7, Zenon DEF WaitOutChurn, Deciding
    <2>2. GoesOn(l, [l EXCEPT !.rec = row, !.waited = TRUE, !.before = None, !.churn = @ + 1])
      BY <1>1, <2>1 DEF GoesOn, Idle, Early
    <2> QED
      BY <1>3, <2>1, <2>2
  <1>8. CASE RefuseSealed(p)
    <2>1. PICK t : t = [l EXCEPT !.attempt = 1, !.before = None]
      OBVIOUS
    <2>2. DOMAIN t = DOMAIN Idle /\ t.gen = l.gen /\ t.sent = l.sent
      BY <1>1, <2>1 DEF Idle
    <2>3. GoesOn(l, Turn(t, "read"))
      BY <2>2, TurnGoesOn
    <2>4. Becomes(p, Turn(t, "read")) \/ Becomes(p, [l EXCEPT !.pc = "reclaim", !.result = "refused"])
      BY <1>8, <2>1, Zenon DEF RefuseSealed
    <2> QED
      BY <1>3, <1>4, <2>3, <2>4
  <1>9. CASE AskRow(p)
    <2>1. PICK t, u : /\ t = [l EXCEPT !.before = l.rec, !.rec = row, !.waited = FALSE,
                                       !.attempt = @ + 1]
                      /\ u = [l EXCEPT !.rec = row, !.waited = FALSE, !.resends = @ + 1,
                                       !.attempt = @ + 1]
      OBVIOUS
    <2>2. /\ DOMAIN t = DOMAIN Idle /\ t.gen = l.gen /\ t.sent = l.sent
          /\ DOMAIN u = DOMAIN Idle /\ u.gen = l.gen /\ u.sent = l.sent
      BY <1>1, <2>1 DEF Idle
    <2>3. GoesOn(l, Turn(t, "decide")) /\ GoesOn(l, Turn(u, "decide")) /\ GoesOn(l, End(l, "unknown"))
      BY <2>2, TurnGoesOn, UnknownGoesOn
    <2>4. \/ Becomes(p, Turn(t, "decide")) \/ Becomes(p, Turn(u, "decide"))
          \/ Becomes(p, End(l, "unknown"))
      BY <1>9, <2>1, Zenon DEF AskRow
    <2> QED
      BY <1>3, <2>3, <2>4
  <1>10. CASE ReadAgain(p)
    <2>1. Becomes(p, [l EXCEPT !.pc = "decide", !.rec = row, !.waited = FALSE])
      BY <1>10, Zenon DEF ReadAgain
    <2>2. GoesOn(l, [l EXCEPT !.pc = "decide", !.rec = row, !.waited = FALSE])
      BY <1>1 DEF GoesOn, Idle, Early
    <2> QED
      BY <1>3, <2>1, <2>2
  <1>11. CASE FinalRead(p)
    <2>1. PICK last : last = IF l.before = None THEN l.rec ELSE l.before
      OBVIOUS
    <2>2. \/ Becomes(p, End(l, "unknown"))
          \/ /\ PointerSetBy(row, last, l.gen, l.sent)
             /\ Becomes(p, [End(l, "published") EXCEPT !.pc = "published"])
          \/ Becomes(p, [l EXCEPT !.pc = "reclaim", !.result = "refused"])
      BY <1>11, <2>1, Zenon DEF FinalRead
    <2>3. PICK m : m = [End(l, "published") EXCEPT !.pc = "published"]
      OBVIOUS
    <2>4. m.pc \notin Early
      BY <2>3 DEF End, Idle, Early
    <2>5. PointerSetBy(row, last, l.gen, l.sent) => ~Closed
      BY Zenon DEF PointerSetBy, Entombed, Closed
    <2>6. PointerSetBy(row, last, l.gen, l.sent) => Carries(p, m)
      BY <1>2, <2>4, <2>5, PublishedCarries
    <2> QED
      BY <1>3, <1>4, <2>2, <2>3, <2>6, UnknownGoesOn
  <1> QED
    BY <1>5, <1>6, <1>7, <1>8, <1>9, <1>10, <1>11

(* A write that is applied leaves a row under its token.                   *)
LEMMA AppliedIsRow ==
    ASSUME NEW w, Accepts(w), Apply(w)
    PROVE  /\ Taken(row, w) /\ row' = After(row, w) /\ landed' = landed \cup {w.token.write}
           /\ row' # NoRow /\ row'.token = w.token
  <1>1. Taken(row, w) /\ row' = After(row, w) /\ landed' = landed \cup {w.token.write}
    BY DEF Accepts, Apply, Taken, After, RowAfter
  <1> QED
    BY <1>1, RecordIsRow, PatchedIsRow DEF After

(* So none is applied in a step that is closed.                            *)
LEMMA SendCarries ==
    ASSUME IInv, DropInv, NEW p \in Loaders, SendAnswered(p) \/ SendUnanswered(p)
    PROVE  \E m : Becomes(p, m) /\ Carries(p, m)
  <1>0. PICK l : l = load[p]
    OBVIOUS
  <1>1. DOMAIN l = DOMAIN Idle
    BY <1>0 DEF IInv, LoadFine
  <1>2. objects' = objects /\ Sends(l)
    BY <1>0, Zenon DEF SendAnswered, SendUnanswered
  <1>3. ASSUME NEW live, NEW w, w = RequestOf(p, l, live)
        PROVE  w.token.write \notin landed /\ (Closed => ~(Accepts(w) /\ Apply(w)))
    <2>1. Fit(w, row, landed, clock) /\ w.token.write = <<p, Cardinality(l.sent) + 1>>
      BY <1>0, <1>2, <1>3, RequestFits
    <2>2. w.token.write \notin landed
      BY <1>0, <2>1, NextIsNew
    <2>3. Entombed => ~Accepts(w)
      BY <2>1 DEF Entombed, Accepts, Fit
    <2>4. Accepts(w) /\ Apply(w) => row' # NoRow
      BY AppliedIsRow
    <2> QED
      BY <2>2, <2>3, <2>4 DEF Closed
  <1>4. ASSUME NEW w, w.token.write \notin landed,
               NEW m, m.gen = l.gen, m.sent = l.sent \cup {w.token},
               m.pc \in {"asking", "read", "final"}
        PROVE  Carries(p, m)
    <2>1. \A g : Holds(l, g, landed) => Holds(m, g, landed)
      BY <1>4 DEF Holds, Early
    <2>2. m.pc \notin Early
      BY <1>4 DEF Early
    <2> QED
      BY <1>0, <1>2, <2>1, <2>2 DEF Carries, DropInv
  <1>5. CASE SendAnswered(p)
    <2>1. PICK live, w, after :
             /\ w = RequestOf(p, l, live) /\ after = [l EXCEPT !.sent = @ \cup {w.token}]
             /\ IF Accepts(w)
                THEN /\ Apply(w)
                     /\ Becomes(p, Published(p, after, l.rec, live))
                ELSE /\ Becomes(p, Turn([after EXCEPT
                               !.before = l.rec,
                               !.attempt = IF TokenMoved(l) THEN @ ELSE @ + 1], "read"))
                     /\ UNCHANGED <<row, landed>>
      BY <1>0, <1>5, Zenon DEF SendAnswered
    <2>2. w.token.write \notin landed /\ (Closed => ~(Accepts(w) /\ Apply(w)))
      BY <1>0, <1>2, <1>3, <2>1
    <2>3. CASE Accepts(w)
      <3>1. PICK m : m = Published(p, after, l.rec, live)
        OBVIOUS
      <3>2. m.pc \notin Early
        BY <3>1, PublishedIsPast
      <3>3. Carries(p, m)
        BY <1>2, <2>1, <2>2, <2>3, <3>2, PublishedCarries
      <3> QED
        BY <2>1, <2>3, <3>1, <3>3
    <2>4. CASE ~Accepts(w)
      <3>1. PICK attempt : attempt = IF TokenMoved(l) THEN after.attempt ELSE after.attempt + 1
        OBVIOUS
      <3>2. PICK turn : turn = [after EXCEPT !.before = l.rec, !.attempt = attempt]
        OBVIOUS
      <3>3. PICK m : m = Turn(turn, "read")
        OBVIOUS
      <3>4. /\ DOMAIN turn = DOMAIN Idle /\ turn.gen = l.gen /\ turn.sent = l.sent \cup {w.token}
        BY <1>1, <2>1, <3>2 DEF Idle
      <3>5. m.gen = l.gen /\ m.sent = l.sent \cup {w.token} /\ m.pc \in {"read", "final"}
        BY <3>3, <3>4 DEF Turn, Idle
      <3>6. Carries(p, m)
        BY <1>4, <2>2, <3>5
      <3>7. Becomes(p, m)
        BY <2>1, <2>4, <3>1, <3>2, <3>3
      <3> QED
        BY <3>6, <3>7
    <2> QED
      BY <2>3, <2>4
  <1>6. CASE SendUnanswered(p)
    <2>1. PICK live, w :
             /\ w = RequestOf(p, l, live)
             /\ Becomes(p, [l EXCEPT !.pc = "asking", !.unanswered = TRUE,
                                     !.sent = @ \cup {w.token}, !.before = None])
      BY <1>0, <1>6, Zenon DEF SendUnanswered
    <2>2. PICK m : m = [l EXCEPT !.pc = "asking", !.unanswered = TRUE,
                                 !.sent = @ \cup {w.token}, !.before = None]
      OBVIOUS
    <2>3. m.gen = l.gen /\ m.sent = l.sent \cup {w.token} /\ m.pc = "asking"
      BY <1>1, <2>2 DEF Idle
    <2>4. Carries(p, m)
      BY <1>3, <1>4, <2>1, <2>3
    <2> QED
      BY <2>1, <2>2, <2>4
  <1> QED
    BY <1>5, <1>6

(* Under a tombstone a load deletes by number, and without a row what it   *)
(* proves its own: it never lets go of an object that is.                  *)
LEMMA ReclaimCarries ==
    ASSUME IInv, DropInv, NEW p \in Loaders,
           \/ Reclaim(p) \/ Delete(p) \/ Watch(p) \/ Abandon(p)
           \/ TidyFails(p) \/ DeleteUnanswered(p)
    PROVE  \E m : Becomes(p, m) /\ Carries(p, m)
  <1> DEFINE l == load[p]
  <1>1. DOMAIN l = DOMAIN Idle /\ DOMAIN objects = Gens
    BY DEF IInv, LoadFine, DropInv
  <1>2. ASSUME NEW m, objects' = objects, GoesOn(l, m)
        PROVE  Carries(p, m)
    BY <1>2, GoesOnCarries DEF GoesOn
  <1>3. \A result : End(l, result).pc = "ended"
    BY DEF End, Idle
  <1>4. CASE Reclaim(p)
    <2>0. objects' = objects
      BY <1>4 DEF Reclaim, segment
    <2> DEFINE own == objects[l.gen] # None /\ objects[l.gen].by = p
    <2>1. PICK pc : /\ pc \in {"delete", "deleteOwn"}
                    /\ \/ Becomes(p, [l EXCEPT !.pc = pc, !.held = row])
                       \/ /\ ~ReclaimByNumber(l) /\ ~(ReclaimByObject(l) /\ own)
                          /\ Becomes(p, End(l, l.result))
      BY <1>4, Zenon DEF Reclaim
    <2>2. GoesOn(l, [l EXCEPT !.pc = pc, !.held = row])
      BY <1>1, <2>1 DEF GoesOn, Idle, Early
    <2>3. Closed => ReclaimByNumber(l) \/ ReclaimByObject(l)
      BY Zenon DEF Closed, Entombed, ReclaimByNumber, ReclaimByObject
    <2>4. ASSUME ~ReclaimByNumber(l), ~(ReclaimByObject(l) /\ own), NEW m, m = End(l, l.result)
          PROVE  Carries(p, m)
      <3>1. ASSUME NEW g, Closed, Holds(l, g, landed), objects[g] # None, objects[g].by = p
            PROVE  FALSE
        <4>1. l.gen = g
          BY <3>1 DEF Holds
        <4> QED
          BY <2>3, <2>4, <3>1, <4>1
      <3>2. m.pc \notin Early
        BY <1>3, <2>4 DEF Early
      <3> QED
        BY <1>1, <2>0, <3>1, <3>2 DEF Carries
    <2> QED
      BY <1>2, <2>0, <2>1, <2>2, <2>4
  <1>5. CASE Delete(p)
    <2>1. PICK goes : goes = (l.pc = "delete" \/ (objects[l.gen] # None /\ objects[l.gen].by = p))
      OBVIOUS
    <2>2. objects' = IF goes THEN [objects EXCEPT ![l.gen] = None] ELSE objects
      BY <1>5, <2>1, Zenon DEF Delete
    <2>3. Becomes(p, [l EXCEPT !.pc = "watch"]) \/ Becomes(p, End(l, l.result))
      BY <1>5, Zenon DEF Delete
    <2>4. DOMAIN objects' = Gens /\ \A g \in Gens : objects'[g] \in {objects[g], None}
      BY <1>1, <2>2
    <2>5. ASSUME NEW g \in Gens, Holds(l, g, landed), objects[g] # None, objects[g].by = p
          PROVE  objects'[g] = None
      <3>1. g = l.gen
        BY <2>5 DEF Holds
      <3>2. goes
        BY <2>1, <2>5, <3>1
      <3> QED
        BY <1>1, <2>2, <3>1, <3>2
    <2>6. ASSUME NEW m, m.pc \notin Early
          PROVE  Carries(p, m)
      BY <2>4, <2>5, <2>6 DEF Carries
    <2>7. [l EXCEPT !.pc = "watch"].pc \notin Early /\ End(l, l.result).pc \notin Early
      BY <1>1, <1>3 DEF Idle, Early
    <2> QED
      BY <2>3, <2>6, <2>7
  <1>6. CASE Watch(p)
    <2>1. \/ Becomes(p, [l EXCEPT !.looks = @ + 1]) \/ Becomes(p, End(l, l.result))
          \/ Becomes(p, End(l, "missing"))
      BY <1>6, Zenon DEF Watch
    <2>2. objects' = objects /\ l.pc = "watch"
      BY <1>6 DEF Watch, segment
    <2>3. [l EXCEPT !.looks = @ + 1].pc \notin Early
      BY <1>1, <2>2 DEF Idle, Early
    <2>4. \A g : ~Holds(l, g, landed)
      BY <2>2 DEF Holds
    <2>5. ASSUME NEW m, m.pc \notin Early
          PROVE  Carries(p, m)
      BY <2>2, <2>4, <2>5, PublishedCarries
    <2> QED
      BY <1>3, <2>1, <2>3, <2>5 DEF Early
  <1>7. CASE Abandon(p)
    <2>1. Becomes(p, End(l, "unknown")) /\ objects' = objects
      BY <1>7 DEF Abandon, segment
    <2> QED
      BY <1>2, <2>1, UnknownGoesOn
  <1>8. CASE TidyFails(p)
    <2>1. Becomes(p, Untidy(l)) /\ objects' = objects
      BY <1>8 DEF TidyFails, segment
    <2> QED
      BY <1>2, <2>1, UntidyGoesOn
  <1>9. CASE DeleteUnanswered(p)
    <2>1. Becomes(p, Untidy(l)) /\ objects' = [objects EXCEPT ![l.gen] = None]
      BY <1>9, Zenon DEF DeleteUnanswered
    <2>2. DOMAIN objects' = Gens /\ \A g \in Gens : objects'[g] \in {objects[g], None}
      BY <1>1, <2>1
    <2>3. \A g \in Gens : Holds(l, g, landed) => objects'[g] = None
      BY <1>1, <2>1 DEF Holds
    <2>4. PICK m : m = Untidy(l)
      OBVIOUS
    <2>5. m.pc \notin Early
      BY <2>4, UntidyGoesOn
    <2>6. Carries(p, m)
      BY <2>2, <2>3, <2>5 DEF Carries
    <2> QED
      BY <2>1, <2>4, <2>6
  <1> QED
    BY <1>4, <1>5, <1>6, <1>7, <1>8, <1>9

(* Every step of a load, and its end at any point.                         *)
LEMMA LoadCarries ==
    ASSUME IInv, DropInv, NEW p \in Loaders, LoadStep(p) \/ Abandon(p)
    PROVE  \E m : Becomes(p, m) /\ Carries(p, m)
  BY EarlyCarries, SeedCarries, SettleCarries, SendCarries, ReclaimCarries, Zenon DEF LoadStep

(* What a call may say once it stepped: that it is done with nothing left  *)
(* only when nothing is listed.                                            *)
Tells(t) ==
    /\ t.pc # "ended" => t.result = "none"
    /\ t.destroyed => Buried(t.tombstone.incarnation, row', landed')
    /\ Told(t) => \A g \in Gens : objects'[g] = None

(* A call that has said nothing.                                           *)
Untold(s) ==
    /\ DOMAIN s = DOMAIN IdleDrop
    /\ s.result = "none"
    /\ s.destroyed => Buried(s.tombstone.incarnation, row', landed')

(* A call that has said nothing says nothing untrue.                       *)
LEMMA UntoldTells == ASSUME NEW t, Untold(t) PROVE Tells(t)
  BY DEF Untold, Tells, Told

(* A call that ends says that nothing remains only if nothing is listed,   *)
(* or it is not done with it.                                              *)
LEMMA EndDropTells ==
    ASSUME NEW s, Untold(s), NEW result,
           \/ result # "done" \/ s.kind # "drop" \/ s.remaining # {}
           \/ \A g \in Gens : objects'[g] = None
    PROVE  Tells(EndDrop(s, result))
  <1>1. PICK t : t = EndDrop(s, result)
    OBVIOUS
  <1>2. /\ t.pc = "ended" /\ t.result = result /\ t.kind = s.kind /\ t.remaining = s.remaining
        /\ t.destroyed = s.destroyed /\ t.tombstone = s.tombstone
    BY <1>1 DEF EndDrop, IdleDrop
  <1> QED
    BY <1>1, <1>2 DEF Tells, Told, Untold

(* A call that is through with its tombstone has one that buries its       *)
(* incarnation, if it has any.                                             *)
LEMMA AfterShredTells ==
    ASSUME NEW s, Untold(s), NEW destroyed, NEW crypto, NEW reason, NEW tombstone,
           destroyed => Buried(tombstone.incarnation, row', landed')
    PROVE  Tells(AfterShred(s, destroyed, crypto, reason, tombstone))
  <1>1. PICK a : a = [s EXCEPT !.destroyed = destroyed, !.crypto = crypto, !.reason = reason,
                               !.tombstone = tombstone, !.rec = NoRow, !.lost = NoRow]
    OBVIOUS
  <1>2. /\ DOMAIN a = DOMAIN IdleDrop /\ a.kind = s.kind /\ a.result = "none"
        /\ a.destroyed = destroyed /\ a.tombstone = tombstone
    BY <1>1 DEF IdleDrop, Untold
  <1>3. Untold(a)
    BY <1>2 DEF Untold
  <1>4. \/ s.kind = "destroy" /\ AfterShred(s, destroyed, crypto, reason, tombstone) = EndDrop(a, "done")
        \/ AfterShred(s, destroyed, crypto, reason, tombstone) = [a EXCEPT !.pc = "orphans"]
        \/ AfterShred(s, destroyed, crypto, reason, tombstone) = [a EXCEPT !.pc = "list"]
    BY <1>1, Zenon DEF AfterShred
  <1>5. s.kind = "destroy" => Tells(EndDrop(a, "done"))
    BY <1>2, <1>3, EndDropTells
  <1>6. ASSUME NEW pc
        PROVE  Untold([a EXCEPT !.pc = pc])
    <2>1. PICK b : b = [a EXCEPT !.pc = pc]
      OBVIOUS
    <2>2. /\ DOMAIN b = DOMAIN IdleDrop /\ b.result = "none"
          /\ b.destroyed = a.destroyed /\ b.tombstone = a.tombstone
      BY <1>2, <2>1 DEF IdleDrop
    <2> QED
      BY <1>3, <2>1, <2>2 DEF Untold
  <1> QED
    BY <1>4, <1>5, <1>6, UntoldTells

(* A call that lost a race for the row has said nothing.                   *)
LEMMA LostRaceTells ==
    ASSUME NEW s, Untold(s), NEW attempts
    PROVE  Tells(LostRace(s, attempts))
  <1>1. PICK attempt : attempt = IF s.waited THEN s.attempt ELSE s.attempt + 1
    OBVIOUS
  <1>2. PICK a : a = [s EXCEPT !.lost = s.rec, !.waited = FALSE, !.attempt = attempt]
    OBVIOUS
  <1>3. PICK t : t = [a EXCEPT !.pc = IF a.attempt < attempts THEN "read" ELSE "last"]
    OBVIOUS
  <1>4. /\ DOMAIN t = DOMAIN IdleDrop /\ t.result = "none"
        /\ t.destroyed = s.destroyed /\ t.tombstone = s.tombstone
    BY <1>2, <1>3 DEF IdleDrop, Untold
  <1>5. Untold(t)
    BY <1>4 DEF Untold
  <1>6. t = LostRace(s, attempts)
    BY <1>1, <1>2, <1>3 DEF LostRace
  <1> QED
    BY <1>5, <1>6, UntoldTells

(* A tombstone that is read, of this call or not, is the end of its        *)
(* incarnation.                                                            *)
LEMMA TombstoneIsBuried ==
    ASSUME IInv, RowStays, Entombed
    PROVE  Buried(row.token.incarnation, row', landed')
  <1>1. row.token.incarnation \in landed
    BY DEF IInv, SegmentFine, RowFine, Entombed
  <1> QED
    BY <1>1 DEF Buried, RowStays, Entombed

(* A call that finds its own tombstone in the row, or takes it for its     *)
(* own, has the tombstone that is there.                                   *)
LEMMA OwnTells ==
    ASSUME IInv, RowStays, NEW s, Untold(s), ShredIsOwn(s, row)
    PROVE  Tells(AfterOwn(s, row)) /\ Tells(Claimed(s, row.token))
  <1>1. Entombed
    BY DEF ShredIsOwn, OwnShreds, Entombed
  <1>2. Buried(row.token.incarnation, row', landed')
    BY <1>1, TombstoneIsBuried
  <1>3. PICK yes, crypto : yes = TRUE /\ crypto = \E t \in OwnShreds(s, row) : t.encrypted
    OBVIOUS
  <1>4. AfterOwn(s, row) = AfterShred(s, yes, crypto, "none", row.token)
    BY <1>3 DEF AfterOwn
  <1>5. PICK c : c = Claimed(s, row.token)
    OBVIOUS
  <1>6. DOMAIN c = DOMAIN IdleDrop /\ c.result = "none" /\ c.tombstone = row.token
    BY <1>5 DEF Claimed, IdleDrop, Untold
  <1>7. Untold(c)
    BY <1>2, <1>6 DEF Untold, RowStays
  <1> QED
    BY <1>2, <1>4, <1>5, <1>7, AfterShredTells, UntoldTells DEF RowStays

(* A call that decides what to do on the row there is: whichever way it    *)
(* goes, the tombstone it names, if any, is that row's.                    *)
LEMMA DecidedTells ==
    ASSUME IInv, RowStays, NEW s, Untold(s), s.rec = row
    PROVE  Tells(Decided(s))
  <1>1. PICK r : r = s.rec
    OBVIOUS
  <1>2. CASE ShredIsOwn(s, r)
    <2>1. Decided(s) = AfterOwn(s, r)
      BY <1>1, <1>2 DEF Decided
    <2> QED
      BY <1>1, <1>2, <2>1, OwnTells
  <1>3. CASE ~ShredIsOwn(s, r)
    <2>1. PICK yes, no : yes = TRUE /\ no = FALSE
      OBVIOUS
    <2>2. \/ Decided(s) = EndDrop(s, "null")
          \/ Decided(s) = AfterShred(s, no, no, "absent", None)
          \/ /\ r # NoRow /\ r.status = "destroyed"
             /\ Decided(s) = AfterShred(s, yes, no, "already", r.token)
          \/ Decided(s) = AfterShred(s, no, no, "cleartext", None)
          \/ Decided(s) = [s EXCEPT !.pc = "write"]
      BY <1>1, <1>3, <2>1, Zenon DEF Decided
    <2>3. \A reason : Tells(AfterShred(s, no, no, reason, None))
      BY <2>1, AfterShredTells
    <2>4. r # NoRow /\ r.status = "destroyed" => Tells(AfterShred(s, yes, no, "already", r.token))
      BY <1>1, TombstoneIsBuried, AfterShredTells DEF Entombed, RowStays
    <2>5. Tells([s EXCEPT !.pc = "write"])
      <3>1. PICK t : t = [s EXCEPT !.pc = "write"]
        OBVIOUS
      <3>2. /\ DOMAIN t = DOMAIN IdleDrop /\ t.result = "none"
            /\ t.destroyed = s.destroyed /\ t.tombstone = s.tombstone
        BY <3>1 DEF IdleDrop, Untold
      <3>3. Untold(t)
        BY <3>2 DEF Untold
      <3> QED
        BY <3>1, <3>3, UntoldTells
    <2>6. Tells(EndDrop(s, "null"))
      BY EndDropTells
    <2> QED
      BY <2>2, <2>3, <2>4, <2>5, <2>6
  <1> QED
    BY <1>2, <1>3

(* What is buried stays so.                                                *)
LEMMA BuriedStays ==
    ASSUME TombstonesStay, NEW i, Buried(i, row, landed)
    PROVE  Buried(i, row', landed')
  <1>1. i \in landed'
    BY DEF TombstonesStay, Buried
  <1>2. ASSUME row' # NoRow, row'.token.incarnation = i
        PROVE  row'.status = "destroyed"
    <2>1. row # NoRow /\ row.token.incarnation = i
      BY <1>2 DEF TombstonesStay, Buried
    <2>2. row' = row
      BY <1>2, <2>1 DEF TombstonesStay, Buried
    <2> QED
      BY <2>1, <2>2 DEF Buried
  <1> QED
    BY <1>1, <1>2 DEF Buried

(* A call that has not ended has said nothing.                             *)
LEMMA CallIsUntold ==
    ASSUME IInv, DropInv, TombstonesStay, NEW d \in Droppers, drop[d].pc # "ended"
    PROVE  Untold(drop[d])
  <1>1. DOMAIN drop[d] = DOMAIN IdleDrop
    BY DEF IInv, DropFine
  <1>2. PICK s : s = drop[d]
    OBVIOUS
  <1>3. s.result = "none" /\ (s.destroyed => Buried(s.tombstone.incarnation, row, landed))
    BY <1>2 DEF DropInv
  <1>4. s.destroyed => Buried(s.tombstone.incarnation, row', landed')
    BY <1>3, BuriedStays
  <1> QED
    BY <1>1, <1>2, <1>3, <1>4 DEF Untold

(* The bucket after a step that put nothing.                               *)
PutsNothing == DOMAIN objects' = Gens /\ \A g \in Gens : objects'[g] \in {objects[g], None}

(* The steps of a drop that read the row.                                  *)
LEMMA DropReadsTell ==
    ASSUME IInv, DropInv, TombstonesStay, NEW d \in Droppers,
           ShredRead(d) \/ ShredAsk(d) \/ ShredLast(d) \/ Orphans(d) \/ ClaimAsk(d)
    PROVE  objects' = objects /\ \E t : DropBecomes(d, t) /\ Tells(t)
  <1>1. PICK s : s = drop[d]
    OBVIOUS
  <1>2. RowStays /\ objects' = objects
    BY Zenon DEF ShredRead, ShredAsk, ShredLast, Orphans, ClaimAsk, RowStays, loadVars, segment
  <1>3. s.pc \in {"read", "ask", "last", "orphans", "claimAsk"}
    <2>1. s.pc = "read" \/ s.pc = "ask" \/ s.pc = "last" \/ s.pc = "orphans" \/ s.pc = "claimAsk"
      BY <1>1, Zenon DEF ShredRead, ShredAsk, ShredLast, Orphans, ClaimAsk
    <2> QED
      BY <2>1
  <1>4. Untold(s)
    BY <1>1, <1>3, CallIsUntold
  <1>5. ASSUME NEW t, DOMAIN t = DOMAIN IdleDrop, t.result = s.result, t.destroyed = s.destroyed,
               t.tombstone = s.tombstone
        PROVE  Untold(t)
    BY <1>4, <1>5 DEF Untold
  <1>6. DOMAIN s = DOMAIN IdleDrop
    BY <1>4 DEF Untold
  <1>7. Tells(EndDrop(s, "error")) /\ Tells(LostRace(s, DropAttempts))
    BY <1>4, EndDropTells, LostRaceTells
  <1>8. ShredIsOwn(s, row) => Tells(AfterOwn(s, row)) /\ Tells(Claimed(s, row.token))
    BY <1>2, <1>4, OwnTells
  <1>9. CASE ShredRead(d)
    <2>1. PICK a, c : a = [s EXCEPT !.rec = row] /\ c = [s EXCEPT !.waited = TRUE, !.churn = @ + 1]
      OBVIOUS
    <2>2. /\ DOMAIN a = DOMAIN IdleDrop /\ a.result = s.result /\ a.destroyed = s.destroyed
          /\ a.tombstone = s.tombstone /\ a.rec = row
      BY <1>6, <2>1 DEF IdleDrop
    <2>3. /\ DOMAIN c = DOMAIN IdleDrop /\ c.result = s.result /\ c.destroyed = s.destroyed
          /\ c.tombstone = s.tombstone
      BY <1>6, <2>1 DEF IdleDrop
    <2>4. Untold(a) /\ Untold(c)
      BY <1>5, <2>2, <2>3
    <2>5. Tells(Decided(a)) /\ Tells(c)
      BY <1>2, <2>2, <2>4, DecidedTells, UntoldTells
    <2>6. DropBecomes(d, c) \/ DropBecomes(d, Decided(a))
      BY <1>1, <1>9, <2>1, Zenon DEF ShredRead
    <2> QED
      BY <1>2, <2>5, <2>6
  <1>10. CASE ShredAsk(d)
    <2>1. \/ ShredIsOwn(s, row) /\ DropBecomes(d, AfterOwn(s, row))
          \/ DropBecomes(d, EndDrop(s, "error"))
          \/ DropBecomes(d, LostRace(s, DropAttempts))
      BY <1>1, <1>10, Zenon DEF ShredAsk
    <2> QED
      BY <1>2, <1>7, <1>8, <2>1
  <1>11. CASE ShredLast(d)
    <2>1. \/ ShredIsOwn(s, row) /\ DropBecomes(d, AfterOwn(s, row))
          \/ DropBecomes(d, EndDrop(s, "error"))
      BY <1>1, <1>11, Zenon DEF ShredLast
    <2> QED
      BY <1>2, <1>7, <1>8, <2>1
  <1>12. CASE Orphans(d)
    <2>1. PICK c : c = [s EXCEPT !.pc = "claim", !.todo = Listed]
      OBVIOUS
    <2>2. \/ Listed = {} /\ DropBecomes(d, EndDrop(s, "done"))
          \/ DropBecomes(d, c)
      BY <1>1, <1>12, <2>1, Zenon DEF Orphans
    <2>3. /\ DOMAIN c = DOMAIN IdleDrop /\ c.result = s.result /\ c.destroyed = s.destroyed
          /\ c.tombstone = s.tombstone
      BY <1>6, <2>1 DEF IdleDrop
    <2>4. Tells(c)
      BY <1>5, <2>3, UntoldTells
    <2>5. Listed = {} => Tells(EndDrop(s, "done"))
      BY <1>2, <1>4, EndDropTells DEF Listed
    <2> QED
      BY <1>2, <2>2, <2>4, <2>5
  <1>13. CASE ClaimAsk(d)
    <2>1. PICK c : c = [s EXCEPT !.pc = "read", !.sent = {}, !.attempt = 0, !.churn = 0]
      OBVIOUS
    <2>2. \/ ShredIsOwn(s, row) /\ DropBecomes(d, Claimed(s, row.token))
          \/ DropBecomes(d, EndDrop(s, "error"))
          \/ DropBecomes(d, c)
      BY <1>1, <1>13, <2>1, Zenon DEF ClaimAsk
    <2>3. /\ DOMAIN c = DOMAIN IdleDrop /\ c.result = s.result /\ c.destroyed = s.destroyed
          /\ c.tombstone = s.tombstone
      BY <1>6, <2>1 DEF IdleDrop
    <2>4. Tells(c)
      BY <1>5, <2>3, UntoldTells
    <2> QED
      BY <1>2, <1>7, <1>8, <2>2, <2>4
  <1> QED
    BY <1>9, <1>10, <1>11, <1>12, <1>13

(* Those over the bucket: the last listing is what it says is left.        *)
LEMMA DropDeletesTell ==
    ASSUME IInv, DropInv, TombstonesStay, NEW d \in Droppers,
           \/ DropList(d) \/ \E g \in drop[d].todo : DropDelete(d, g)
           \/ DropPassEnds(d) \/ DropRemaining(d) \/ DropFails(d)
    PROVE  PutsNothing /\ \E t : DropBecomes(d, t) /\ Tells(t)
  <1>1. PICK s : s = drop[d]
    OBVIOUS
  <1>2. s.pc # "ended"
    <2>1. s.pc = "list" \/ s.pc = "delete" \/ s.pc = "remaining" \/ s.pc \in {"orphans", "list", "remaining"}
      BY <1>1, Zenon DEF DropList, DropDelete, DropPassEnds, DropRemaining, DropFails
    <2> QED
      BY <2>1
  <1>3. Untold(s)
    BY <1>1, <1>2, CallIsUntold
  <1>4. ASSUME NEW t, DOMAIN t = DOMAIN IdleDrop, t.result = s.result, t.destroyed = s.destroyed,
               t.tombstone = s.tombstone
        PROVE  Untold(t)
    BY <1>3, <1>4 DEF Untold
  <1>5. DOMAIN s = DOMAIN IdleDrop /\ DOMAIN objects = Gens
    BY <1>3 DEF Untold, DropInv
  <1>6. objects' = objects => PutsNothing
    BY <1>5 DEF PutsNothing
  <1>7. CASE DropList(d)
    <2>1. PICK a, b : a = [s EXCEPT !.pc = "remaining"]
                      /\ b = [s EXCEPT !.pc = "delete", !.todo = Listed, !.gone = FALSE]
      OBVIOUS
    <2>2. (DropBecomes(d, a) \/ DropBecomes(d, b)) /\ objects' = objects
      BY <1>1, <1>7, <2>1, Zenon DEF DropList, loadVars, segment
    <2>3. /\ DOMAIN a = DOMAIN IdleDrop /\ a.result = s.result /\ a.destroyed = s.destroyed
          /\ a.tombstone = s.tombstone
          /\ DOMAIN b = DOMAIN IdleDrop /\ b.result = s.result /\ b.destroyed = s.destroyed
          /\ b.tombstone = s.tombstone
      BY <1>5, <2>1 DEF IdleDrop
    <2>4. Tells(a) /\ Tells(b)
      BY <1>4, <2>3, UntoldTells
    <2> QED
      BY <1>6, <2>2, <2>4
  <1>8. CASE \E g \in drop[d].todo : DropDelete(d, g)
    <2>1. PICK g : DropDelete(d, g)
      BY <1>8
    <2>2. PICK a, b : a = [s EXCEPT !.todo = @ \ {g}, !.gone = TRUE, !.any = TRUE]
                      /\ b = [s EXCEPT !.todo = @ \ {g}]
      OBVIOUS
    <2>3. /\ DropBecomes(d, a) \/ DropBecomes(d, b)
          /\ objects' = [objects EXCEPT ![g] = None] \/ objects' = objects
      BY <1>1, <2>1, <2>2, Zenon DEF DropDelete
    <2>4. /\ DOMAIN a = DOMAIN IdleDrop /\ a.result = s.result /\ a.destroyed = s.destroyed
          /\ a.tombstone = s.tombstone
          /\ DOMAIN b = DOMAIN IdleDrop /\ b.result = s.result /\ b.destroyed = s.destroyed
          /\ b.tombstone = s.tombstone
      BY <1>5, <2>2 DEF IdleDrop
    <2>5. Tells(a) /\ Tells(b)
      BY <1>4, <2>4, UntoldTells
    <2>6. PutsNothing
      BY <1>5, <2>3 DEF PutsNothing
    <2> QED
      BY <2>3, <2>5, <2>6
  <1>9. CASE DropPassEnds(d)
    <2>1. PICK pc : DropBecomes(d, [s EXCEPT !.passes = @ + 1, !.pc = pc])
      BY <1>1, <1>9, Zenon DEF DropPassEnds
    <2>2. PICK a : a = [s EXCEPT !.passes = @ + 1, !.pc = pc]
      OBVIOUS
    <2>3. /\ DOMAIN a = DOMAIN IdleDrop /\ a.result = s.result /\ a.destroyed = s.destroyed
          /\ a.tombstone = s.tombstone
      BY <1>5, <2>2 DEF IdleDrop
    <2>4. Tells(a)
      BY <1>4, <2>3, UntoldTells
    <2>5. objects' = objects
      BY <1>9, Zenon DEF DropPassEnds, loadVars, segment
    <2> QED
      BY <1>6, <2>1, <2>2, <2>4, <2>5
  <1>10. CASE DropRemaining(d)
    <2>1. PICK a : a = [s EXCEPT !.remaining = Listed]
      OBVIOUS
    <2>2. DropBecomes(d, EndDrop(a, "done")) /\ objects' = objects
      BY <1>1, <1>10, <2>1, Zenon DEF DropRemaining, loadVars, segment
    <2>3. /\ DOMAIN a = DOMAIN IdleDrop /\ a.result = s.result /\ a.destroyed = s.destroyed
          /\ a.tombstone = s.tombstone /\ a.remaining = Listed
      BY <1>5, <2>1 DEF IdleDrop
    <2>4. Untold(a)
      BY <1>4, <2>3
    <2>5. a.remaining # {} \/ \A g \in Gens : objects'[g] = None
      BY <2>2, <2>3 DEF Listed
    <2>6. Tells(EndDrop(a, "done"))
      BY <2>4, <2>5, EndDropTells
    <2> QED
      BY <1>6, <2>2, <2>6
  <1>11. CASE DropFails(d)
    <2>1. DropBecomes(d, EndDrop(s, "error")) /\ objects' = objects
      BY <1>1, <1>11, Zenon DEF DropFails, loadVars, segment
    <2>2. Tells(EndDrop(s, "error"))
      BY <1>3, EndDropTells
    <2> QED
      BY <1>6, <2>1, <2>2
  <1> QED
    BY <1>7, <1>8, <1>9, <1>10, <1>11

(* Those that write a tombstone.                                           *)
LEMMA DropWritesTell ==
    ASSUME IInv, DropInv, TombstonesStay, NEW d \in Droppers, ShredWrite(d) \/ Claim(d)
    PROVE  objects' = objects /\ \E t : DropBecomes(d, t) /\ Tells(t)
  <1>1. PICK s : s = drop[d]
    OBVIOUS
  <1>2. s.pc # "ended"
    BY <1>1, Zenon DEF ShredWrite, Claim
  <1>3. Untold(s)
    BY <1>1, <1>2, CallIsUntold
  <1>4. ASSUME NEW t, DOMAIN t = DOMAIN IdleDrop, t.result = s.result, t.destroyed = s.destroyed,
               t.tombstone = s.tombstone
        PROVE  Untold(t)
    BY <1>3, <1>4 DEF Untold
  <1>5. DOMAIN s = DOMAIN IdleDrop
    BY <1>3 DEF Untold
  <1>6. ASSUME NEW w, Accepts(w), Apply(w), row'.status = "destroyed", row'.token = w.token,
               \/ w.token.incarnation = w.token.write
               \/ w.expect # NoRow /\ w.token.incarnation = w.expect.incarnation
        PROVE  Buried(w.token.incarnation, row', landed')
    <2>1. landed' = landed \cup {w.token.write}
      BY <1>6 DEF Apply
    <2>2. w.expect # NoRow => row # NoRow /\ row.token = w.expect
      BY <1>6 DEF Accepts
    <2>3. row # NoRow => row.token.incarnation \in landed
      BY DEF IInv, SegmentFine, RowFine
    <2>4. w.token.incarnation \in landed'
      BY <1>6, <2>1, <2>2, <2>3
    <2> QED
      BY <1>6, <2>4 DEF Buried
  <1>7. CASE ShredWrite(d)
    <2>1. PICK w : w = SwapOf(s.rec, TombstonePatch(s), <<d, s.writes + 1>>)
      OBVIOUS
    <2>2. PICK sent : sent = s.sent \cup {[token |-> w.token, encrypted |-> Encrypted(s.rec)]}
      OBVIOUS
    <2>3. PICK a : a = [s EXCEPT !.writes = @ + 1, !.sent = sent]
      OBVIOUS
    <2>4. PICK keyed, yes : keyed = Encrypted(s.rec) /\ yes = TRUE
      OBVIOUS
    <2>5. /\ s.pc = "write"
          /\ \/ /\ Accepts(w) /\ Apply(w)
                /\ DropBecomes(d, AfterShred(a, yes, keyed, "none", w.token))
             \/ DropBecomes(d, LostRace(a, DropAttempts))
             \/ DropBecomes(d, [a EXCEPT !.pc = "ask"])
          /\ objects' = objects
      BY <1>1, <1>7, <2>1, <2>2, <2>3, <2>4, Zenon DEF ShredWrite
    <2>6. /\ DOMAIN a = DOMAIN IdleDrop /\ a.result = s.result /\ a.destroyed = s.destroyed
          /\ a.tombstone = s.tombstone
      BY <1>5, <2>3 DEF IdleDrop
    <2>7. Untold(a)
      BY <1>4, <2>6
    <2>8. Tells([a EXCEPT !.pc = "ask"])
      <3>1. PICK b : b = [a EXCEPT !.pc = "ask"]
        OBVIOUS
      <3>2. /\ DOMAIN b = DOMAIN IdleDrop /\ b.result = s.result /\ b.destroyed = s.destroyed
            /\ b.tombstone = s.tombstone
        BY <2>6, <3>1 DEF IdleDrop
      <3>3. Untold(b)
        BY <1>4, <3>2
      <3> QED
        BY <3>1, <3>3, UntoldTells
    <2>9. Accepts(w) /\ Apply(w) => Tells(AfterShred(a, yes, keyed, "none", w.token))
      <3> SUFFICES ASSUME Accepts(w), Apply(w)
                   PROVE  Tells(AfterShred(a, yes, keyed, "none", w.token))
        OBVIOUS
      <3>1. /\ w.expect = s.rec.token /\ w.patch = TombstonePatch(s)
            /\ w.token.incarnation = w.expect.incarnation
        BY <2>1 DEF SwapOf, NextRegistryToken
      <3>2. s.rec # NoRow /\ Knows(s.rec, row, landed)
        BY <1>1, <2>5 DEF IInv, DropFine
      <3>3. w.expect # NoRow
        BY <3>1, <3>2 DEF Knows, RowFine, NoRow
      <3>4. row' = ApplyRegistryPatch(row, w.patch, w.token)
        BY <3>3 DEF Apply, RowAfter
      <3>5. PICK meta : meta = [s.rec.retention EXCEPT !.mark = Mark(s)]
        OBVIOUS
      <3>6. w.patch = [status |-> "destroyed", wrappedDeks |-> Clear, summary |-> NoSummary,
                       knownGens |-> <<>>, leases |-> {}, retention |-> meta]
        BY <3>1, <3>5 DEF TombstonePatch
      <3>7. row'.status = "destroyed" /\ row'.token = w.token
        BY <3>4, <3>6 DEF ApplyRegistryPatch
      <3>8. Buried(w.token.incarnation, row', landed')
        BY <1>6, <3>1, <3>3, <3>7
      <3> QED
        BY <2>7, <3>8, AfterShredTells
    <2> QED
      BY <2>5, <2>7, <2>8, <2>9, LostRaceTells
  <1>8. CASE Claim(d)
    <2>1. PICK gen : gen = CHOOSE g \in s.todo : \A h \in s.todo : h <= g
      OBVIOUS
    <2>2. PICK w : w = CreateOf([currentGen |-> gen, status |-> "destroyed"], <<d, s.writes + 1>>)
      OBVIOUS
    <2>3. PICK sent : sent = {[token |-> w.token, encrypted |-> FALSE]}
      OBVIOUS
    <2>4. PICK a : a = [s EXCEPT !.writes = @ + 1, !.claimed = TRUE, !.todo = {}, !.sent = sent]
      OBVIOUS
    <2>5. /\ \/ Accepts(w) /\ Apply(w) /\ DropBecomes(d, Claimed(a, w.token))
             \/ DropBecomes(d, [a EXCEPT !.pc = "claimAsk"])
             \/ DropBecomes(d, [a EXCEPT !.pc = "claimAsk", !.unanswered = TRUE])
          /\ objects' = objects
      BY <1>1, <1>8, <2>1, <2>2, <2>3, <2>4, Zenon DEF Claim
    <2>6. /\ DOMAIN a = DOMAIN IdleDrop /\ a.result = s.result /\ a.destroyed = s.destroyed
          /\ a.tombstone = s.tombstone
      BY <1>5, <2>4 DEF IdleDrop
    <2>7. PICK b, c, e : /\ b = [a EXCEPT !.pc = "claimAsk"]
                         /\ c = [a EXCEPT !.pc = "claimAsk", !.unanswered = TRUE]
                         /\ e = Claimed(a, w.token)
      OBVIOUS
    <2>8. /\ DOMAIN b = DOMAIN IdleDrop /\ b.result = s.result /\ b.destroyed = s.destroyed
          /\ b.tombstone = s.tombstone
          /\ DOMAIN c = DOMAIN IdleDrop /\ c.result = s.result /\ c.destroyed = s.destroyed
          /\ c.tombstone = s.tombstone
      BY <2>6, <2>7 DEF IdleDrop
    <2>9. Tells(b) /\ Tells(c)
      BY <1>4, <2>8, UntoldTells
    <2>10. Accepts(w) /\ Apply(w) => Tells(e)
      <3> SUFFICES ASSUME Accepts(w), Apply(w)
                   PROVE  Tells(e)
        OBVIOUS
      <3>1. /\ w.expect = NoRow /\ w.patch = [currentGen |-> gen, status |-> "destroyed"]
            /\ w.token.incarnation = w.token.write
        BY <2>2 DEF CreateOf, NewIncarnationToken
      <3>2. row' = RecordFromNew(w.patch, w.token)
        BY <3>1 DEF Apply, RowAfter
      <3>3. row'.status = "destroyed" /\ row'.token = w.token
        BY <3>1, <3>2 DEF RecordFromNew
      <3>4. Buried(w.token.incarnation, row', landed')
        BY <1>6, <3>1, <3>3
      <3>5. DOMAIN e = DOMAIN IdleDrop /\ e.result = "none" /\ e.tombstone = w.token
        BY <1>3, <2>6, <2>7 DEF Claimed, IdleDrop, Untold
      <3>6. Untold(e)
        BY <3>4, <3>5 DEF Untold
      <3> QED
        BY <3>6, UntoldTells
    <2> QED
      BY <2>5, <2>7, <2>9, <2>10
  <1> QED
    BY <1>7, <1>8

(* What the bucket and the loads become in a step.                         *)
Turned == \/ load' = load /\ PutsNothing
          \/ \E p \in Loaders : \E m : Becomes(p, m) /\ Carries(p, m)

(* A load that has put no object has sent no write, after any step.        *)
LEMMA EarlyStays ==
    ASSUME IInv, DropInv, Turned
    PROVE  /\ DOMAIN objects' = Gens
           /\ \A p \in Loaders : load'[p].pc \in Early => load'[p].sent = {}
  <1>1. CASE load' = load /\ PutsNothing
    BY <1>1 DEF PutsNothing, DropInv
  <1>2. ASSUME NEW p \in Loaders, NEW m, Becomes(p, m), Carries(p, m)
        PROVE  /\ DOMAIN objects' = Gens
               /\ \A q \in Loaders : load'[q].pc \in Early => load'[q].sent = {}
    <2>1. load'[p] = m /\ \A q \in Loaders : q # p => load'[q] = load[q]
      BY <1>2 DEF Becomes, IInv, Typed
    <2>2. m.pc \in Early => m.sent = {}
      BY <1>2 DEF Carries, DropInv
    <2>3. \A q \in Loaders : load[q].pc \in Early => load[q].sent = {}
      BY DEF DropInv
    <2>4. DOMAIN objects' = Gens
      BY <1>2 DEF Carries
    <2>5. ASSUME NEW q \in Loaders, load'[q].pc \in Early
          PROVE  load'[q].sent = {}
      <3>1. CASE q = p
        BY <2>1, <2>2, <2>5, <3>1
      <3>2. CASE q # p
        BY <2>1, <2>3, <2>5, <3>2
      <3> QED
        BY <3>1, <3>2
    <2> QED
      BY <2>4, <2>5
  <1> QED
    BY <1>1, <1>2 DEF Turned

(* What only loads hold before a step that is closed, only they hold after *)
(* it.                                                                     *)
LEMMA HeldStays ==
    ASSUME IInv, DropInv, Turned, Closed, landed' = landed, NEW x, HeldBut(x)
    PROVE  HeldBut(x)'
  <1> SUFFICES ASSUME NEW g \in Gens, objects'[g] # None, objects'[g].by \notin x
               PROVE  objects'[g].by \in Loaders /\ Holds(load'[objects'[g].by], g, landed)
    BY DEF HeldBut, Listed
  <1>1. objects[g] # None /\ objects[g].by \notin x
        => objects[g].by \in Loaders /\ Holds(load[objects[g].by], g, landed)
    BY DEF HeldBut, Listed
  <1>2. CASE load' = load /\ PutsNothing
    BY <1>1, <1>2 DEF PutsNothing
  <1>3. ASSUME NEW p \in Loaders, NEW m, Becomes(p, m), Carries(p, m)
        PROVE  objects'[g].by \in Loaders /\ Holds(load'[objects'[g].by], g, landed)
    <2>1. load'[p] = m /\ \A q \in Loaders : q # p => load'[q] = load[q]
      BY <1>3 DEF Becomes, IInv, Typed
    <2>2. CASE objects'[g].by = p /\ Holds(m, g, landed)
      BY <2>1, <2>2
    <2>3. CASE /\ objects'[g] \in {objects[g], None}
               /\ Closed /\ Holds(load[p], g, landed) /\ objects[g] # None /\ objects[g].by = p
                  => Holds(m, g, landed) \/ objects'[g] = None
      <3>1. objects'[g] = objects[g] /\ objects[g] # None
        BY <2>3
      <3>2. CASE objects[g].by = p
        BY <1>1, <2>1, <2>3, <3>1, <3>2
      <3>3. CASE objects[g].by # p
        BY <1>1, <2>1, <3>1, <3>3
      <3> QED
        BY <3>2, <3>3
    <2> QED
      BY <1>3, <2>2, <2>3 DEF Carries
  <1> QED
    BY <1>2, <1>3 DEF Turned

(* The invariant outlives a step of which all this is so.                  *)
LEMMA DropInvStays ==
    ASSUME IInv, DropInv, TombstonesStay, Turned,
           \A d \in Droppers : drop'[d] = drop[d] \/ Tells(drop'[d])
    PROVE  DropInv'
  <1>1. ASSUME NEW d \in Droppers, NEW s, s = drop'[d]
        PROVE  /\ s.pc # "ended" => s.result = "none"
               /\ s.destroyed => Buried(s.tombstone.incarnation, row', landed')
               /\ Told(s) /\ row' # NoRow /\ row'.token.incarnation = s.tombstone.incarnation
                  => HeldByLoads'
    <2>1. CASE Tells(s)
      <3>1. Told(s) => HeldByLoads'
        BY <2>1 DEF Tells, HeldByLoads, HeldBut, Listed
      <3> QED
        BY <2>1, <3>1 DEF Tells
    <2>2. CASE s = drop[d]
      <3>1. /\ s.pc # "ended" => s.result = "none"
            /\ s.destroyed => Buried(s.tombstone.incarnation, row, landed)
            /\ Told(s) /\ row # NoRow /\ row.token.incarnation = s.tombstone.incarnation => HeldByLoads
        BY <2>2 DEF DropInv
      <3>2. s.destroyed => Buried(s.tombstone.incarnation, row', landed')
        BY <3>1, BuriedStays
      <3>3. ASSUME Told(s), row' # NoRow, row'.token.incarnation = s.tombstone.incarnation
            PROVE  HeldByLoads'
        <4>1. Buried(s.tombstone.incarnation, row, landed)
          BY <3>1, <3>3 DEF Told
        <4>2. row # NoRow /\ row.token.incarnation = s.tombstone.incarnation
          BY <3>3, <4>1 DEF Buried, TombstonesStay
        <4>3. Entombed /\ landed' = landed
          BY <4>1, <4>2 DEF Buried, Entombed, TombstonesStay
        <4> QED
          BY <3>1, <3>3, <4>2, <4>3, HeldStays DEF HeldByLoads, Closed
      <3> QED
        BY <3>1, <3>2, <3>3
    <2> QED
      BY <1>1, <2>1, <2>2
  <1>2. /\ DOMAIN objects' = Gens
        /\ \A p \in Loaders : load'[p].pc \in Early => load'[p].sent = {}
    BY EarlyStays
  <1> QED
    BY <1>1, <1>2 DEF DropInv

(* A step of a sweep puts nothing, and is none of a drop.                  *)
LEMMA SweepPutsNothing ==
    ASSUME DropInv, NEW w \in Sweepers, SweepStep(w)
    PROVE  load' = load /\ PutsNothing /\ \A d \in Droppers : drop'[d] = drop[d]
  <1>0. DOMAIN objects = Gens
    BY DEF DropInv
  <1>1. objects' = objects => PutsNothing
    BY <1>0 DEF PutsNothing
  <1>2. ASSUME NEW t, DropBecomes(w, t)
        PROVE  \A d \in Droppers : drop'[d] = drop[d]
    BY <1>2, DropAssumption DEF DropBecomes
  <1>3. CASE SweepDrops(w)
    <2>1. TombstoneStep(w)
      BY <1>3 DEF SweepDrops
    <2>2. load' = load /\ \E t : DropBecomes(w, t)
      BY <2>1, Zenon DEF TombstoneStep, ShredRead, ShredWrite, ShredAsk, ShredLast, DropList, DropDelete,
                         DropPassEnds, DropRemaining, DropFails, loadVars
    <2>3. objects' = objects \/ \E g : objects' = [objects EXCEPT ![g] = None]
      BY <2>1, Zenon DEF TombstoneStep, ShredRead, ShredWrite, ShredAsk, ShredLast, DropList, DropDelete,
                         DropPassEnds, DropRemaining, DropFails, loadVars, segment
    <2>4. PutsNothing
      BY <1>0, <2>3 DEF PutsNothing
    <2> QED
      BY <1>2, <2>2, <2>4
  <1>4. CASE SweepCollects(w)
    <2>1. UNCHANGED <<drop, load>>
      BY <1>4, Zenon DEF SweepCollects, PassReadRow, PassList, PassReadAgain, PassCheck, PassDelete, PassSettle,
                         loadVars
    <2>2. objects' = objects \/ \E g : objects' = [objects EXCEPT ![g] = None]
      BY <1>4, Zenon DEF SweepCollects, PassReadRow, PassList, PassReadAgain, PassCheck, PassDelete, PassSettle,
                         loadVars, segment
    <2>3. PutsNothing
      BY <1>0, <2>2 DEF PutsNothing
    <2> QED
      BY <2>1, <2>3
  <1>5. CASE Reread(w) \/ SweepDropped(w)
    <2>1. load' = load /\ objects' = objects /\ (drop' = drop \/ \E t : DropBecomes(w, t))
      BY <1>5, Zenon DEF Reread, SweepDropped, segment, besideSweeping
    <2> QED
      BY <1>1, <1>2, <2>1
  <1>6. CASE \/ BeginSweeping(w) \/ ScanRow(w) \/ ScanPointers(w)
             \/ SweepLitter(w) \/ SweepForeign(w) \/ SweepUnfile(w)
             \/ FullyReclaimed(w) \/ SweepCollected(w) \/ RemoveRow(w) \/ RemoveAsk(w)
             \/ AfterFault(w) \/ ForgetDue(w) \/ RetiredEmpty(w) \/ FilePurge(w)
    <2>1. load' = load /\ objects' = objects /\ drop' = drop
      BY <1>6, Zenon DEF BeginSweeping, ScanRow, ScanPointers, SweepLitter, SweepForeign, SweepUnfile,
                         FullyReclaimed, SweepCollected, RemoveRow, RemoveAsk, AfterFault, ForgetDue,
                         RetiredEmpty, FilePurge, segment, besideSweeping
    <2> QED
      BY <1>1, <2>1
  <1> QED
    BY <1>3, <1>4, <1>5, <1>6 DEF SweepStep

(* Nor does any other step beside a load's or a drop's.                    *)
LEMMA OthersPutNothing ==
    ASSUME DropInv,
           \/ \E s \in Setters : SetStep(s)
           \/ (\E g \in Gens : TakeLease(g) \/ ReleaseLease(g))
              /\ UNCHANGED <<load, pass, drop, faults, besideSegment>>
           \/ LateWrite /\ UNCHANGED <<load, pass, drop, faults, besideSegment>>
           \/ \E t \in removals : RemovalArrives(t)
           \/ Tick
           \/ UNCHANGED retentionVars
    PROVE  load' = load /\ PutsNothing /\ drop' = drop
  <1>0. objects' = objects => PutsNothing
    BY DEF DropInv, PutsNothing
  <1>1. CASE \E s \in Setters : SetStep(s)
    <2>1. load' = load /\ objects' = objects /\ drop' = drop
      BY <1>1, Zenon DEF SetStep, BeginSet, SetRead, SetWrite, SetAsk, SetFile, SetForget, SetFails,
                         segment, besideSetting
    <2> QED
      BY <1>0, <2>1
  <1>2. CASE (\E g \in Gens : TakeLease(g) \/ ReleaseLease(g))
             /\ UNCHANGED <<load, pass, drop, faults, besideSegment>>
    <2>1. objects' = objects
      BY <1>2, Zenon DEF TakeLease, ReleaseLease, OtherWrites
    <2> QED
      BY <1>0, <1>2, <2>1
  <1>3. CASE LateWrite /\ UNCHANGED <<load, pass, drop, faults, besideSegment>>
    <2>1. objects' = objects
      BY <1>3, Zenon DEF LateWrite, LateWriteArrives, WriteIsLost
    <2> QED
      BY <1>0, <1>3, <2>1
  <1>4. CASE (\E t \in removals : RemovalArrives(t)) \/ Tick \/ UNCHANGED retentionVars
    <2>1. load' = load /\ objects' = objects /\ drop' = drop
      BY <1>4, Zenon DEF RemovalArrives, Tick, retentionVars, loadVars, segment
    <2> QED
      BY <1>0, <2>1
  <1> QED
    BY <1>1, <1>2, <1>3, <1>4

(* What every step makes of the bucket, the loads and the drops.           *)
LEMMA EveryStepTurns ==
    ASSUME IInv, DropInv, [Next]_retentionVars
    PROVE  Turned /\ \A d \in Droppers : drop'[d] = drop[d] \/ Tells(drop'[d])
  <1>0. TombstonesStay
    BY NextFine DEF RowStep
  <1>1. ASSUME NEW p \in Loaders,
               (LoadStep(p) \/ Abandon(p)) /\ UNCHANGED <<pass, drop, faults, besideSegment>>
        PROVE  Turned /\ \A c \in Droppers : drop'[c] = drop[c] \/ Tells(drop'[c])
    <2>1. Turned
      BY <1>1, LoadCarries, Zenon DEF Turned
    <2>2. drop' = drop
      BY <1>1
    <2> QED
      BY <2>1, <2>2
  <1>2. ASSUME NEW d \in Droppers, DropStep(d)
        PROVE  Turned /\ \A c \in Droppers : drop'[c] = drop[c] \/ Tells(drop'[c])
    <2>1. load' = load
      BY <1>2, Zenon DEF DropStep, BeginDrop, Orphans, Claim, ClaimAsk, TombstoneStep, ShredRead, ShredWrite,
                         ShredAsk, ShredLast, DropList, DropDelete, DropPassEnds, DropRemaining, DropFails,
                         loadVars
    <2>2. objects' = objects => PutsNothing
      BY DEF DropInv, PutsNothing
    <2>3. PutsNothing /\ \E t : DropBecomes(d, t) /\ Tells(t)
      <3>1. CASE BeginDrop(d)
        <4>1. PICK kind : DropBecomes(d, [IdleDrop EXCEPT !.pc = "read", !.kind = kind])
          BY <3>1, Zenon DEF BeginDrop
        <4>2. PICK t : t = [IdleDrop EXCEPT !.pc = "read", !.kind = kind]
          OBVIOUS
        <4>3. t.result = "none" /\ ~t.destroyed /\ DOMAIN t = DOMAIN IdleDrop
          BY <4>2 DEF IdleDrop
        <4>4. Tells(t)
          BY <4>3, UntoldTells DEF Untold
        <4>5. objects' = objects
          BY <3>1 DEF BeginDrop, loadVars, segment
        <4> QED
          BY <2>2, <4>1, <4>2, <4>4, <4>5
      <3>2. CASE ~BeginDrop(d)
        BY <1>0, <1>2, <2>2, <3>2, DropReadsTell, DropDeletesTell, DropWritesTell
           DEF DropStep, TombstoneStep
      <3> QED
        BY <3>1, <3>2
    <2>4. \A c \in Droppers : drop'[c] = drop[c] \/ Tells(drop'[c])
      <3>1. PICK t : DropBecomes(d, t) /\ Tells(t)
        BY <2>3
      <3>2. drop'[d] = t /\ \A c \in Droppers : c # d => drop'[c] = drop[c]
        BY <3>1 DEF DropBecomes, IInv, Typed
      <3> QED
        BY <3>1, <3>2
    <2> QED
      BY <2>1, <2>3, <2>4 DEF Turned
  <1>3. ASSUME NEW w \in Sweepers, SweepStep(w)
        PROVE  Turned /\ \A c \in Droppers : drop'[c] = drop[c] \/ Tells(drop'[c])
    BY <1>3, SweepPutsNothing DEF Turned
  <1>4. CASE \/ \E s \in Setters : SetStep(s)
             \/ (\E g \in Gens : TakeLease(g) \/ ReleaseLease(g))
                /\ UNCHANGED <<load, pass, drop, faults, besideSegment>>
             \/ LateWrite /\ UNCHANGED <<load, pass, drop, faults, besideSegment>>
             \/ \E t \in removals : RemovalArrives(t)
             \/ Tick
             \/ UNCHANGED retentionVars
    <2>1. load' = load /\ PutsNothing /\ drop' = drop
      BY <1>4, OthersPutNothing
    <2> QED
      BY <2>1 DEF Turned
  <1> QED
    BY <1>1, <1>2, <1>3, <1>4, Zenon DEF Next

(* So every step keeps what is known of a dropped name.                    *)
LEMMA DropInvNext ==
    ASSUME IInv, DropInv, [Next]_retentionVars
    PROVE  DropInv'
  BY NextFine, EveryStepTurns, DropInvStays DEF RowStep

(* It holds at the start: no call has said anything, no load has sent a    *)
(* write.                                                                  *)
LEMMA DropInvInit == Init => DropInv
  <1> SUFFICES ASSUME Init
               PROVE  DropInv
    OBVIOUS
  <1>1. PICK s \in Starts : StartOf(s)
    BY DEF Init
  <1>2. DOMAIN objects = Gens
    BY <1>1 DEF StartOf
  <1>3. \A p \in Loaders : load[p].sent = {}
    BY DEF Init, LoadInit, Idle
  <1>4. \A d \in Droppers : drop[d] = IdleDrop
    BY DEF Init, DropInit
  <1>5. IdleDrop.result = "none" /\ ~IdleDrop.destroyed
    BY DEF IdleDrop
  <1> QED
    BY <1>2, <1>3, <1>4, <1>5 DEF DropInv, Told

(* A drop (erasure.ts dropSegment) that reports that nothing remains is    *)
(* right for as long as its tombstone stands: whatever is put under it     *)
(* afterwards is the object of a load that was under way, which can no     *)
(* longer publish it and takes it away again, unless its process dies, its *)
(* reclaim meets a fault or it cannot tell.                                *)
THEOREM DroppedStaysEmptyHolds == Spec => []DroppedStaysEmpty
  <1>1. IInv /\ DropInv /\ [Next]_retentionVars => DropInv'
    BY DropInvNext
  <1>2. IInv /\ DropInv => DroppedStaysEmpty
    <2> SUFFICES ASSUME DropInv, NEW d \in Droppers, NEW s, s = drop[d],
                        Told(s), row # NoRow, row.token.incarnation = s.tombstone.incarnation,
                        NEW g \in Listed
                 PROVE  LoadAnswersFor(g)
      BY DEF DroppedStaysEmpty, Told
    <2>1. HeldByLoads
      BY DEF DropInv
    <2> QED
      BY <2>1 DEF HeldByLoads, HeldBut, Holds, LoadAnswersFor, Ended
  <1> QED
    BY <1>1, <1>2, DropInvInit, Invariance, PTL DEF Spec

-----------------------------------------------------------------------------
(***************************************************************************)
(* Proofs about what a tombstone is worth: that one a shred or a drop      *)
(* wrote is never removed, and that a call tells whether it discarded the  *)
(* key.  They hold as long as no sweep takes longer over a retirement than *)
(* the grace it gives a tombstone.                                         *)
(***************************************************************************)

(* A sweep that is about to retire the row, or to remove the one it        *)
(* retired because nothing was left under it.                              *)
Busy(w) == sweep[w].pc \in {"drop", "forget", "empty"}

(* The assumption on time.  The grace is an hour at least                  *)
(* (MIN_TOMBSTONE_GRACE_MS, retention-sweep.ts), a retirement a few        *)
(* requests.                                                               *)
SweepsInTime == \A w \in Sweepers : Busy(w) => clock - sweep[w].now < Grace

-----------------------------------------------------------------------------
(* The invariant.                                                          *)

(* The tombstone a call wrote is the row, and no delete of it is on its    *)
(* way.                                                                    *)
Stands(token, mark) ==
    /\ row # NoRow /\ row.status = "destroyed"
    /\ row.token = token /\ row.pointerId = token
    /\ row.retention.mark = mark
    /\ token \notin removals

(* The mark of d's tombstones.                                             *)
MarkOf(d) == IF d \in Sweepers THEN sweep[d].now ELSE 0

(* A write that leaves a tombstone with this mark.                         *)
Entombs(u, mark) ==
    /\ "status" \in DOMAIN u.patch /\ u.patch.status = "destroyed"
    /\ IF "retention" \in DOMAIN u.patch THEN u.patch.retention.mark = mark
       ELSE u.expect = NoRow /\ mark = 0

(* A write that is never applied any more.                                 *)
Dead(u) == u.expect # NoRow /\ (row = NoRow \/ row.token # u.expect)

(* A call that knows what its shred did.                                   *)
Settled(s) == s.pc \in {"list", "delete", "remaining"} \/ s.result = "done"

(* Of the writes of a call: one that landed stands, and one that may still *)
(* land is a tombstone of its own.                                         *)
CallSent(d, s, mark) ==
    \A t \in s.sent :
        /\ \E k \in 1..s.writes : t.token.write = <<d, k>>
        /\ t.token.write \in landed => Stands(t.token, mark)
        /\ \A u \in inflight : u.token.write = t.token.write =>
              u.token = t.token /\ Entombs(u, mark)

(* None may still land, but the one it asks after, and what it was not     *)
(* done with when it ended.                                                *)
CallDead(s) ==
    \A t \in s.sent, u \in inflight : u.token = t.token =>
        \/ Dead(u)
        \/ s.pc = "claimAsk"
        \/ s.pc = "ended" /\ s.result # "done"
        \/ s.pc = "ask" /\ u.expect = s.rec.token

Discarded(s) == \E t \in s.sent : t.encrypted /\ t.token.write \in landed

(* What it says of the key.                                                *)
CallTold(s) ==
    /\ IF s.pc = "ended" THEN s.result \in {"done", "error", "null"} ELSE s.result = "none"
    /\ s.pc \in {"write", "ask"} => s.rec # NoRow /\ s.rec.status # "destroyed"
    /\ s.pc \in {"claim", "claimAsk"} => s.crypto = FALSE
    /\ s.pc = "claimAsk" => \E t : s.sent = {t} /\ ~t.encrypted
    /\ s.pc = "orphans" => s.crypto = FALSE /\ ~Discarded(s)
    /\ Settled(s) => s.crypto \in BOOLEAN /\ (s.crypto <=> Discarded(s))

(* A retirement under way, and one that is settled: it has a tombstone.    *)
Retires(w, s) ==
    /\ s.pc # "start"
    /\ s.pc # "ended" => s.now = sweep[w].now
    /\ Settled(s) => \E t \in s.sent : t.token.write \in landed

CallInv(d, s) ==
    /\ CallSent(d, s, MarkOf(d))
    /\ CallDead(s)
    /\ CallTold(s)
    /\ d \in Sweepers => IF sweep[d].pc = "drop" THEN Retires(d, s) ELSE s.sent = {}

(* What a sweep is about to remove is a tombstone of a sweep: its own, or  *)
(* one whose grace has passed.                                             *)
SweepInv(w, s) ==
    /\ s.pc \in {"forget", "empty"} =>
          ~s.purge /\ \E token : Stands(token, s.now) /\ token.write[1] = w
    /\ s.pc \in {"reclaimed", "collect", "remove", "removeAsk"} =>
          /\ s.rec # NoRow /\ s.rec.status = "destroyed"
          /\ s.rec.pointerId.write[1] \in Sweepers
          /\ IF s.purge THEN s.now - s.rec.retention.mark >= Grace
             ELSE s.rec.pointerId.write[1] = w

RemovalInv ==
    \A t \in removals :
        /\ t.write \in landed
        /\ row # NoRow /\ row.token = t =>
              row.status = "destroyed" /\ row.pointerId.write[1] \in Sweepers

PInv ==
    /\ \A d \in Droppers \cup Sweepers : CallInv(d, drop[d])
    /\ \A w \in Sweepers : SweepInv(w, sweep[w])
    /\ RemovalInv

-----------------------------------------------------------------------------
(* What a step makes of the row.                                           *)

(* The row may go: a delete of it is on its way, or it is no tombstone of  *)
(* a sweep that is busy with it.                                           *)
Removable ==
    /\ row.status = "destroyed" /\ row.pointerId.write[1] \in Sweepers
    /\ \/ row.token \in removals
       \/ \A w \in Sweepers : row.pointerId.write[1] = w /\ Busy(w) => row.retention.mark # sweep[w].now

(* A sweep has made up its mind to remove it.                              *)
Condemned ==
    \/ row.token \in removals
    \/ \E w \in Sweepers : sweep[w].pc = "remove" /\ row.token = sweep[w].rec.token

(* The row is replaced by a new one, or goes if it may, and then nothing   *)
(* lands; a delete of it is sent only if it may go.                        *)
RowMoves ==
    /\ row' \in {row, NoRow} \/ (row' # NoRow /\ row'.token.write \notin landed)
    /\ row' = NoRow => landed' = landed
    /\ row # NoRow /\ row' = NoRow => Removable /\ Condemned
    /\ \/ removals' \subseteq removals
       \/ \E t : /\ removals' = removals \cup {t} /\ row' = row /\ t.write \in landed
                 /\ row # NoRow /\ row.token = t => Removable /\ Condemned

(* Writes that are new are z's; what lands is z's or was on its way.       *)
StepOf(z) ==
    /\ \A u \in inflight' : u \in inflight \/ u.token.write[1] = z
    /\ \A x \in landed' : \/ x \in landed
                          \/ x[1] = z
                          \/ \E u \in inflight : /\ u.token.write = x
                                                 /\ Taken(row, u) /\ row' = After(row, u)
    /\ RowMoves

(* A write that z makes now.                                               *)
Makes(z, w) ==
    /\ Fit(w, row, landed, clock)
    /\ w.token.write \notin landed \cup NamesOf(inflight)
    /\ w.token.write[1] = z

Writes(z, w) ==
    /\ Makes(z, w)
    /\ \/ Accepts(w) /\ Apply(w) /\ inflight' = inflight
       \/ inflight' = inflight \cup {w} /\ row' = row /\ landed' = landed

(* A step in which z writes is a step of z,                                *)
LEMMA WriteIsStep ==
    ASSUME NEW z, NEW w, Writes(z, w), removals' = removals
    PROVE  StepOf(z)
  <1>1. CASE Accepts(w) /\ Apply(w) /\ inflight' = inflight
    BY <1>1, AppliedIsRow DEF StepOf, RowMoves, Writes, Makes
  <1>2. CASE inflight' = inflight \cup {w} /\ row' = row /\ landed' = landed
    BY <1>2 DEF StepOf, RowMoves, Writes, Makes
  <1> QED
    BY <1>1, <1>2 DEF Writes

(* and one in which nothing is written is anyone's,                        *)
LEMMA RestIsStep ==
    ASSUME NEW z, row' = row, landed' = landed, inflight' \subseteq inflight, removals' \subseteq removals
    PROVE  StepOf(z)
  BY DEF StepOf, RowMoves

(* and so is one in which a write that was on its way lands or is lost.    *)
LEMMA LateIsStep ==
    ASSUME IInv, LateWrite, removals' = removals, NEW z
    PROVE  StepOf(z)
  <1>1. PICK w \in inflight : LateWriteArrives(w) \/ WriteIsLost(w)
    BY DEF LateWrite
  <1>2. CASE Accepts(w) /\ Apply(w) /\ inflight' = inflight \ {w}
    <2>1. w.token.write \notin landed
      BY DEF IInv, SegmentFine
    <2> QED
      BY <1>2, <2>1, AppliedIsRow DEF StepOf, RowMoves
  <1>3. CASE row' = row /\ landed' = landed /\ inflight' = inflight \ {w}
    BY <1>3, RestIsStep
  <1> QED
    BY <1>1, <1>2, <1>3 DEF LateWriteArrives, WriteIsLost

(* The row that a sweep is about to remove may go: it is not what another  *)
(* sweep is busy with, for that has not lasted as long as the grace.       *)
LEMMA RowMayGo ==
    ASSUME IInv, PInv, SweepsInTime, NEW w \in Sweepers, sweep[w].pc = "remove",
           row # NoRow, row.token = sweep[w].rec.token
    PROVE  Removable
  <1>1. PICK s : s = sweep[w]
    OBVIOUS
  <1>2. SweepInv(w, s) /\ SweepFine(s, row, landed, clock) /\ s.pc = "remove"
    BY <1>1 DEF PInv, IInv
  <1>3. row = s.rec /\ RowFine(row, landed)
    BY <1>1, <1>2 DEF SweepInv, SweepFine, Knows
  <1>4. /\ row.status = "destroyed" /\ row.pointerId.write[1] \in Sweepers
        /\ IF s.purge THEN s.now - row.retention.mark >= Grace ELSE row.pointerId.write[1] = w
    BY <1>2, <1>3 DEF SweepInv
  <1>5. ASSUME NEW v \in Sweepers, row.pointerId.write[1] = v, Busy(v), row.retention.mark = sweep[v].now
        PROVE  FALSE
    <2>1. v # w
      BY <1>1, <1>2, <1>5 DEF Busy
    <2>2. s.now - sweep[v].now >= Grace
      BY <1>4, <1>5, <2>1
    <2>3. clock - sweep[v].now < Grace
      BY <1>5 DEF SweepsInTime
    <2>4. s.now \in Nat /\ s.now <= clock /\ sweep[v].now \in Nat /\ clock \in Nat /\ Grace \in Nat
      BY <1>2, RetentionAssumption DEF SweepFine, IInv, Typed
    <2> QED
      BY <2>2, <2>3, <2>4
  <1> QED
    BY <1>4, <1>5 DEF Removable

(* So it may when it goes, at once                                         *)
LEMMA RemoveIsStep ==
    ASSUME IInv, PInv, SweepsInTime, NEW w \in Sweepers, RemoveRow(w), NEW z
    PROVE  StepOf(z)
  <1>1. PICK t : t = sweep[w].rec.token
    OBVIOUS
  <1>2. /\ sweep[w].pc = "remove" /\ inflight' = inflight /\ landed' = landed
        /\ \/ Removes(t) /\ row' = NoRow /\ removals' = removals
           \/ row' = row /\ removals' = removals
           \/ removals' = removals \cup {t} /\ row' = row
    BY <1>1, Zenon DEF RemoveRow
  <1>3. row # NoRow /\ row.token = t => Removable /\ Condemned
    BY <1>1, <1>2, RowMayGo DEF Condemned
  <1>4. t.write \in landed
    BY <1>1, <1>2 DEF PInv, SweepInv, IInv, SweepFine, Knows, RowFine
  <1> QED
    BY <1>2, <1>3, <1>4 DEF StepOf, RowMoves, Removes

(* or when the delete arrives.                                             *)
LEMMA RemovalIsStep ==
    ASSUME PInv, NEW t \in removals, RemovalArrives(t), NEW z
    PROVE  StepOf(z)
  <1>1. /\ inflight' = inflight /\ landed' = landed /\ removals' \subseteq removals
        /\ row' = row \/ (Removes(t) /\ row' = NoRow)
    BY DEF RemovalArrives
  <1>2. Removes(t) => Removable /\ Condemned
    BY DEF PInv, RemovalInv, Removes, Removable, Condemned
  <1> QED
    BY <1>1, <1>2 DEF StepOf, RowMoves

(* A tombstone of a shred or a drop, or of a sweep that is busy with it.   *)
Ours(token, mark) ==
    token.write[1] \in Sweepers =>
        \E w \in Sweepers : token.write[1] = w /\ Busy(w) /\ sweep[w].now = mark

(* Such a tombstone stands, whoever steps.                                 *)
LEMMA StandsOn ==
    ASSUME TombstonesStay, NEW z, StepOf(z), NEW token, NEW mark, Stands(token, mark), Ours(token, mark)
    PROVE  Stands(token, mark)'
  <1>1. ~Removable
    BY DEF Stands, Ours, Removable
  <1>2. row' = row
    BY <1>1 DEF TombstonesStay, Stands, StepOf, RowMoves
  <1>3. token \notin removals'
    BY <1>1 DEF Stands, StepOf, RowMoves
  <1> QED
    BY <1>2, <1>3 DEF Stands

(* What a write that entombs leaves.                                       *)
LEMMA EntombsRow ==
    ASSUME NEW x, NEW u, NEW mark, Entombs(u, mark), NEW n, n = After(x, u)
    PROVE  /\ n # NoRow /\ n.status = "destroyed" /\ n.token = u.token /\ n.pointerId = u.token
           /\ n.retention.mark = mark
  <1>1. CASE u.expect = NoRow
    <2>1. n = RecordFromNew(u.patch, u.token)
      BY <1>1 DEF After
    <2>2. n # NoRow /\ n.token = u.token /\ n.pointerId = u.token
      BY <2>1, RecordIsRow
    <2>3. n.status = "destroyed" /\ n.retention.mark = mark
      BY <2>1 DEF RecordFromNew, Entombs, BlankRow, NoMeta
    <2> QED
      BY <2>2, <2>3
  <1>2. CASE u.expect # NoRow
    <2>1. n = ApplyRegistryPatch(x, u.patch, u.token)
      BY <1>2 DEF After
    <2>2. n # NoRow /\ n.token = u.token
      BY <2>1, PatchedIsRow
    <2>3. n.status = "destroyed" /\ n.pointerId = u.token /\ n.retention.mark = mark
      BY <1>2, <2>1 DEF ApplyRegistryPatch, Entombs, RenewsPointer, ResolvedFields
    <2> QED
      BY <2>2, <2>3
  <1> QED
    BY <1>1, <1>2

(* A tombstone that lands stands: no delete of it can be on its way.       *)
LEMMA LandsStanding ==
    ASSUME PInv, TombstonesStay, NEW z, StepOf(z), NEW u, u.token.write \notin landed,
           NEW mark, Entombs(u, mark), row' = After(row, u)
    PROVE  Stands(u.token, mark)'
  <1>1. /\ row' # NoRow /\ row'.status = "destroyed" /\ row'.token = u.token
        /\ row'.pointerId = u.token /\ row'.retention.mark = mark
    BY EntombsRow
  <1>2. u.token \notin removals'
    BY DEF PInv, RemovalInv, StepOf, RowMoves
  <1> QED
    BY <1>1, <1>2 DEF Stands

(* A write that is dead stays dead.                                        *)
LEMMA DeadStays ==
    ASSUME IInv, NEW z, StepOf(z), NEW u \in inflight, Dead(u)
    PROVE  Dead(u)'
  <1>1. u.expect.write \in landed
    BY DEF IInv, SegmentFine, Fit, Dead
  <1> QED
    BY <1>1 DEF Dead, StepOf, RowMoves

(* What a call sent is in its own name.                                    *)
LEMMA SentIsOurs ==
    ASSUME PInv, NEW d \in Droppers \cup Sweepers, NEW t \in drop[d].sent
    PROVE  t.token.write[1] = d /\ Ours(t.token, MarkOf(d))
  <1>1. CallInv(d, drop[d])
    BY DEF PInv
  <1>2. t.token.write[1] = d
    BY <1>1 DEF CallInv, CallSent
  <1>3. d \in Sweepers => sweep[d].pc = "drop"
    BY <1>1 DEF CallInv
  <1> QED
    BY <1>2, <1>3 DEF Ours, MarkOf, Busy

(* What holds of a call goes on to hold while others step.                 *)
LEMMA CallStays ==
    ASSUME IInv, PInv, TombstonesStay, NEW z, StepOf(z), NEW d \in Droppers \cup Sweepers, d # z,
           drop'[d] = drop[d], d \in Sweepers => sweep'[d] = sweep[d]
    PROVE  CallInv(d, drop[d])'
  <1>1. PICK s, mark : s = drop[d] /\ mark = MarkOf(d)
    OBVIOUS
  <1>2. drop'[d] = s /\ MarkOf(d)' = mark
    BY <1>1 DEF MarkOf
  <1>3. /\ CallSent(d, s, mark) /\ CallDead(s) /\ CallTold(s)
        /\ d \in Sweepers => IF sweep[d].pc = "drop" THEN Retires(d, s) ELSE s.sent = {}
    BY <1>1 DEF PInv, CallInv
  <1>4. \A t \in s.sent : t.token.write[1] = d /\ Ours(t.token, mark)
    BY <1>1, SentIsOurs
  <1>5. ASSUME NEW t \in s.sent, NEW u \in inflight', u.token.write = t.token.write
        PROVE  u \in inflight
    BY <1>4, <1>5 DEF StepOf
  <1>6. ASSUME NEW t \in s.sent, t.token.write \in landed', t.token.write \notin landed
        PROVE  /\ Stands(t.token, mark)'
               /\ \E u \in inflight : u.token = t.token /\ ~Dead(u)
    <2>1. PICK u \in inflight : u.token.write = t.token.write /\ Taken(row, u) /\ row' = After(row, u)
      BY <1>4, <1>6 DEF StepOf
    <2>2. u.token = t.token /\ Entombs(u, mark)
      BY <1>3, <2>1 DEF CallSent
    <2>3. Stands(t.token, mark)'
      BY <1>6, <2>1, <2>2, LandsStanding
    <2> QED
      BY <2>1, <2>2, <2>3 DEF Dead, Taken
  <1>7. CallSent(d, s, mark)'
    <2> SUFFICES ASSUME NEW t \in s.sent
                 PROVE  /\ \E k \in 1..s.writes : t.token.write = <<d, k>>
                        /\ t.token.write \in landed' => Stands(t.token, mark)'
                        /\ \A u \in inflight' : u.token.write = t.token.write =>
                              u.token = t.token /\ Entombs(u, mark)
      BY DEF CallSent
    <2>1. t.token.write \in landed => Stands(t.token, mark)'
      BY <1>3, <1>4, StandsOn DEF CallSent
    <2> QED
      BY <1>3, <1>5, <1>6, <2>1 DEF CallSent
  <1>8. CallDead(s)'
    <2> SUFFICES ASSUME NEW t \in s.sent, NEW u \in inflight', u.token = t.token
                 PROVE  \/ Dead(u)'
                        \/ s.pc = "claimAsk"
                        \/ s.pc = "ended" /\ s.result # "done"
                        \/ s.pc = "ask" /\ u.expect = s.rec.token
      BY DEF CallDead
    <2>1. u \in inflight
      BY <1>5
    <2> QED
      BY <1>3, <2>1, DeadStays DEF CallDead
  <1>9. s.pc = "orphans" \/ Settled(s) => (Discarded(s)' <=> Discarded(s))
    <2> SUFFICES ASSUME s.pc = "orphans" \/ Settled(s), NEW t \in s.sent
                 PROVE  t.token.write \in landed' <=> t.token.write \in landed
      BY DEF Discarded
    <2>1. \A u \in inflight : u.token = t.token => Dead(u)
      BY <1>3 DEF CallDead, CallTold, Settled
    <2> QED
      BY <1>6, <2>1 DEF TombstonesStay
  <1>10. CallTold(s)'
    BY <1>3, <1>9 DEF CallTold, Settled
  <1>11. d \in Sweepers => IF sweep'[d].pc = "drop" THEN Retires(d, s)' ELSE s.sent = {}
    BY <1>3 DEF Retires, TombstonesStay, Settled
  <1> QED
    BY <1>2, <1>7, <1>8, <1>10, <1>11 DEF CallInv

(* So does what holds of a sweep,                                          *)
LEMMA SweepStaysSo ==
    ASSUME PInv, TombstonesStay, NEW z, StepOf(z), NEW w \in Sweepers, sweep'[w] = sweep[w]
    PROVE  SweepInv(w, sweep[w])'
  <1>1. PICK s : s = sweep[w]
    OBVIOUS
  <1>2. SweepInv(w, s) /\ sweep'[w] = s
    BY <1>1 DEF PInv
  <1>3. ASSUME s.pc \in {"forget", "empty"}
        PROVE  \E token : Stands(token, s.now)' /\ token.write[1] = w
    <2>1. PICK token : Stands(token, s.now) /\ token.write[1] = w
      BY <1>2, <1>3 DEF SweepInv
    <2>2. Ours(token, s.now)
      BY <1>1, <1>3, <2>1 DEF Ours, Busy
    <2> QED
      BY <2>1, <2>2, StandsOn
  <1> QED
    BY <1>2, <1>3 DEF SweepInv

(* and of the deletes on their way.                                        *)
LEMMA RemovalsStay ==
    ASSUME PInv, TombstonesStay, NEW z, StepOf(z)
    PROVE  RemovalInv'
  <1> SUFFICES ASSUME NEW t \in removals'
               PROVE  /\ t.write \in landed'
                      /\ row' # NoRow /\ row'.token = t =>
                            row'.status = "destroyed" /\ row'.pointerId.write[1] \in Sweepers
    BY DEF RemovalInv
  <1>1. CASE t \in removals
    BY <1>1 DEF PInv, RemovalInv, StepOf, RowMoves, TombstonesStay
  <1>2. CASE t \notin removals
    BY <1>2 DEF StepOf, RowMoves, TombstonesStay, Removable
  <1> QED
    BY <1>1, <1>2

(* A step of one who neither shreds nor sweeps.                            *)
LEMMA OthersKeep ==
    ASSUME IInv, PInv, TombstonesStay, NEW z, StepOf(z), z \notin Droppers \cup Sweepers,
           drop' = drop, sweep' = sweep
    PROVE  PInv' /\ RowMoves
  BY CallStays, SweepStaysSo, RemovalsStay DEF PInv, StepOf

(* A step of a load.                                                       *)
LEMMA LoadIsStep ==
    ASSUME IInv, NEW p \in Loaders, LoadStep(p) \/ Abandon(p), removals' = removals
    PROVE  StepOf(p)
  <1>1. DOMAIN load[p] = DOMAIN Idle
    BY DEF IInv, LoadFine
  <1>2. PICK l : l = load[p]
    OBVIOUS
  <1>3. ASSUME NEW live, NEW w, w = RequestOf(p, l, live), Deciding(p), Sends(l)
        PROVE  Makes(p, w)
    <2>1. Fit(w, row, landed, clock) /\ w.token.write = <<p, Cardinality(l.sent) + 1>>
      BY <1>2, <1>3, RequestFits
    <2>2. w.token.write \notin landed \cup NamesOf(inflight)
      BY <1>2, <2>1, NextIsNew
    <2> QED
      BY <2>1, <2>2 DEF Makes
  <1>4. CASE SendAnswered(p)
    <2>1. PICK live, w : /\ w = RequestOf(p, l, live)
                         /\ IF Accepts(w) THEN Apply(w) ELSE UNCHANGED <<row, landed>>
      BY <1>2, <1>4, Zenon DEF SendAnswered
    <2>2. Deciding(p) /\ Sends(l) /\ inflight' = inflight
      BY <1>2, <1>4, Zenon DEF SendAnswered
    <2> QED
      BY <1>3, <2>1, <2>2, WriteIsStep, RestIsStep DEF Writes
  <1>5. CASE SendUnanswered(p)
    <2>1. PICK live, w : w = RequestOf(p, l, live) /\ inflight' = inflight \cup {w}
      BY <1>2, <1>5, Zenon DEF SendUnanswered
    <2>2. Deciding(p) /\ Sends(l) /\ row' = row /\ landed' = landed
      BY <1>2, <1>5, Zenon DEF SendUnanswered
    <2> QED
      BY <1>3, <2>1, <2>2, WriteIsStep DEF Writes
  <1>6. CASE ~SendAnswered(p) /\ ~SendUnanswered(p)
    <2>1. RowStays
      BY <1>1, <1>6, LoadReads, LoadSettles, LoadReclaims DEF LoadStep
    <2> QED
      BY <2>1, RestIsStep DEF RowStays
  <1> QED
    BY <1>4, <1>5, <1>6

(* A step of a call that sets or clears the policy.                        *)
LEMMA SetIsStep ==
    ASSUME IInv, NEW s \in Setters, SetStep(s)
    PROVE  StepOf(s) /\ drop' = drop /\ sweep' = sweep
  <1>1. removals' = removals /\ drop' = drop /\ sweep' = sweep
    BY Zenon DEF SetStep, BeginSet, SetRead, SetWrite, SetAsk, SetFile, SetForget, SetFails, besideSetting
  <1>2. CASE SetWrite(s)
    <2>1. PICK c, w : c = policy[s] /\ w = SetRequest(s, c)
      OBVIOUS
    <2>2. /\ c.pc = "write"
          /\ \/ Accepts(w) /\ Apply(w) /\ inflight' = inflight
             \/ inflight' = inflight \cup {w} /\ row' = row /\ landed' = landed
             \/ UNCHANGED <<row, landed, inflight>>
      BY <1>2, <2>1, Zenon DEF SetWrite
    <2>3. Fit(w, row, landed, clock) /\ w.token.write = <<s, Cardinality(c.sent) + 1>>
      BY <2>1, <2>2, SetFits
    <2>4. w.token.write \notin landed \cup NamesOf(inflight)
      BY <2>1, <2>2, <2>3, NextIsNew
    <2>5. Makes(s, w)
      BY <2>3, <2>4 DEF Makes
    <2> QED
      BY <1>1, <2>2, <2>5, WriteIsStep, RestIsStep DEF Writes
  <1>3. CASE ~SetWrite(s)
    <2>1. DOMAIN policy[s] = DOMAIN Unset
      BY DEF IInv, PolicyFine
    <2>2. BeginSet(s) => RowStays
      BY DEF BeginSet, segment, RowStays
    <2>3. RowStays
      BY <1>3, <2>1, <2>2, SetReads DEF SetStep
    <2> QED
      BY <1>1, <2>3, RestIsStep DEF RowStays
  <1> QED
    BY <1>2, <1>3

(* A lease taken or released.                                              *)
LEMMA LeaseIsStep ==
    ASSUME IInv, NEW g, TakeLease(g) \/ ReleaseLease(g), removals' = removals
    PROVE  StepOf(Other)
  <1>1. PICK leases : OtherWrites(SwapOf(row, [leases |-> leases], OtherWrite))
    BY Zenon DEF TakeLease, ReleaseLease
  <1>2. Active
    BY DEF TakeLease, ReleaseLease
  <1>3. PICK r, patch, write, w : /\ r = row /\ patch = [leases |-> leases]
                                  /\ write = <<Other, others + 1>> /\ w = SwapOf(r, patch, write)
    OBVIOUS
  <1>4. Accepts(w) /\ Apply(w) /\ inflight' = inflight
    BY <1>1, <1>3 DEF OtherWrites, Apply, OtherWrite
  <1>5. Knows(r, row, landed) /\ r # NoRow /\ r.status # "destroyed"
    BY <1>2, <1>3, RowIsKnown DEF Active
  <1>6. PICK n : n = ApplyRegistryPatch(r, patch, w.token)
    OBVIOUS
  <1>7. n.status = r.status /\ n.retention = r.retention
    BY <1>3, <1>6, Leaves
  <1>8. Outcome(n, r, w, clock)
    BY <1>5, <1>7 DEF Outcome, Knows, RowFine
  <1>9. Fit(w, row, landed, clock) /\ w.token.write = write
    <2>1. w = SwapOf(r, patch, write) /\ Outcome(ApplyRegistryPatch(r, patch, w.token), r, w, clock)
      BY <1>3, <1>6, <1>8
    <2> QED
      BY <1>5, <2>1, SwapIsFit
  <1>10. w.token.write \notin landed \cup NamesOf(inflight)
    BY <1>3, <1>9, NextIsNew
  <1>11. w.token.write[1] = Other
    BY <1>3, <1>9
  <1>12. Writes(Other, w)
    BY <1>4, <1>9, <1>10, <1>11 DEF Writes, Makes
  <1> QED
    BY <1>12, WriteIsStep

-----------------------------------------------------------------------------
(* What a step makes of a call that shreds, drops or retires.              *)

(* None of its writes may land any more.                                   *)
AllDead(s) == \A t \in s.sent, u \in inflight : u.token = t.token => Dead(u)

(* A call under way.                                                       *)
Open(d, s) ==
    /\ DOMAIN s = DOMAIN IdleDrop /\ s.result = "none" /\ s.pc # "start"
    /\ CallSent(d, s, MarkOf(d))
    /\ d \in Sweepers => sweep[d].pc = "drop" /\ s.now = sweep[d].now

(* A call acts: a sweeper's only while it retires.                         *)
Acts(d) == d \in Droppers \cup Sweepers /\ (d \in Sweepers => sweep[d].pc = "drop")

LEMMA CallIsOpen ==
    ASSUME IInv, PInv, NEW d, Acts(d), NEW s, s = drop[d], s.pc \notin {"start", "ended"}
    PROVE  /\ Open(d, s) /\ CallTold(s) /\ CallDead(s)
           /\ s.pc \notin {"ask", "claimAsk"} => AllDead(s)
  <1>1. CallInv(d, s) /\ DOMAIN s = DOMAIN IdleDrop
    BY DEF PInv, Acts, IInv, DropFine
  <1> QED
    BY <1>1 DEF Open, CallInv, CallDead, AllDead, CallTold, Retires, Acts

(* Nothing of the row or a sweep changes.                                  *)
Still == UNCHANGED <<row, inflight, landed, removals, sweep>>

(* What holds of a call as it is, the segment unchanged, and as the state  *)
(* of a call that sent no more.                                            *)
LEMMA OpenStays ==
    ASSUME Still, NEW d, NEW s, Open(d, s), NEW a, DOMAIN a = DOMAIN IdleDrop, a.result = "none",
           a.pc # "start", a.sent = s.sent, a.writes = s.writes, a.now = s.now
    PROVE  /\ Open(d, a)' /\ (AllDead(s) => AllDead(a)')
           /\ Discarded(a)' <=> Discarded(s)
  <1>1. CallSent(d, a, MarkOf(d))'
    BY DEF Still, Open, CallSent, MarkOf, Stands
  <1>2. AllDead(s) => AllDead(a)'
    BY DEF Still, AllDead, Dead
  <1> QED
    BY <1>1, <1>2 DEF Open, Discarded, Still

(* A call that goes on.                                                    *)
LEMMA OpenGoesOn ==
    ASSUME NEW d, NEW a, Open(d, a)', NEW t, t.sent = a.sent, t.writes = a.writes, t.pc # "start",
           CallDead(t)', CallTold(t)',
           d \in Sweepers => /\ t.pc # "ended" => t.now = a.now
                             /\ Settled(t) => \E u \in t.sent : u.token.write \in landed'
    PROVE  CallInv(d, t)'
  <1>1. CallSent(d, t, MarkOf(d))'
    BY DEF Open, CallSent
  <1> QED
    BY <1>1 DEF CallInv, Retires, Open

(* One that is not settled, and whose writes are dead.                     *)
LEMMA OpenReads ==
    ASSUME NEW d, NEW a, Open(d, a)', AllDead(a)',
           NEW t, t.sent = a.sent, t.writes = a.writes, t.now = a.now, t.result = "none",
           t.pc \in {"read", "last"} \/ (t.pc = "write" /\ t.rec # NoRow /\ t.rec.status # "destroyed")
    PROVE  CallInv(d, t)'
  <1>1. CallDead(t)'
    BY DEF CallDead, AllDead
  <1>2. CallTold(t)' /\ ~Settled(t) /\ t.pc # "start"
    BY DEF CallTold, Settled
  <1> QED
    BY <1>1, <1>2, OpenGoesOn

(* One that ends without being done.                                       *)
LEMMA OpenEnds ==
    ASSUME NEW d, NEW a, Open(d, a)', NEW result \in {"error", "null"}
    PROVE  CallInv(d, EndDrop(a, result))'
  <1>1. PICK t : t = EndDrop(a, result)
    OBVIOUS
  <1>2. t.pc = "ended" /\ t.result = result /\ t.sent = a.sent /\ t.writes = a.writes
    BY <1>1 DEF EndDrop, IdleDrop
  <1>3. CallDead(t)'
    BY <1>2 DEF CallDead
  <1>4. CallTold(t)' /\ ~Settled(t)
    BY <1>2 DEF CallTold, Settled
  <1>5. CallInv(d, t)'
    BY <1>2, <1>3, <1>4, OpenGoesOn
  <1> QED
    BY <1>1, <1>5

(* What a call that knows what its shred did goes on as.                   *)
LEMMA AfterShredIs ==
    ASSUME NEW s, DOMAIN s = DOMAIN IdleDrop, s.result = "none", NEW destroyed, NEW crypto, NEW reason,
           NEW tombstone, NEW t, t = AfterShred(s, destroyed, crypto, reason, tombstone)
    PROVE  /\ t.sent = s.sent /\ t.writes = s.writes /\ t.crypto = crypto
           /\ \/ t.pc = "ended" /\ t.result = "done"
              \/ t.pc = "orphans" /\ reason = "absent" /\ t.result = "none" /\ t.now = s.now
              \/ t.pc = "list" /\ t.result = "none" /\ t.now = s.now
  <1>1. PICK a : a = [s EXCEPT !.destroyed = destroyed, !.crypto = crypto, !.reason = reason,
                               !.tombstone = tombstone, !.rec = NoRow, !.lost = NoRow]
    OBVIOUS
  <1>2. /\ DOMAIN a = DOMAIN IdleDrop /\ a.writes = s.writes /\ a.now = s.now
        /\ a.sent = s.sent /\ a.crypto = crypto /\ a.result = "none"
    BY <1>1 DEF IdleDrop
  <1>3. \/ t = EndDrop(a, "done")
        \/ t = [a EXCEPT !.pc = "orphans"] /\ reason = "absent"
        \/ t = [a EXCEPT !.pc = "list"]
    BY <1>1, Zenon DEF AfterShred
  <1>4. CASE t = EndDrop(a, "done")
    BY <1>2, <1>4 DEF EndDrop, IdleDrop
  <1>5. CASE t = [a EXCEPT !.pc = "orphans"] /\ reason = "absent"
    BY <1>2, <1>5 DEF IdleDrop
  <1>6. CASE t = [a EXCEPT !.pc = "list"]
    BY <1>2, <1>6 DEF IdleDrop
  <1> QED
    BY <1>3, <1>4, <1>5, <1>6

(* It tells the truth if what it says of the key is what its writes did.   *)
LEMMA OpenSettles ==
    ASSUME NEW d, NEW a, Open(d, a)', AllDead(a)',
           NEW crypto \in BOOLEAN, crypto <=> Discarded(a)',
           NEW destroyed, NEW reason, NEW tombstone, reason = "absent" => ~crypto,
           d \in Sweepers => \E u \in a.sent : u.token.write \in landed'
    PROVE  CallInv(d, AfterShred(a, destroyed, crypto, reason, tombstone))'
  <1>1. PICK t : t = AfterShred(a, destroyed, crypto, reason, tombstone)
    OBVIOUS
  <1>2. /\ t.sent = a.sent /\ t.writes = a.writes /\ t.crypto = crypto
        /\ \/ t.pc = "ended" /\ t.result = "done"
           \/ t.pc = "orphans" /\ reason = "absent" /\ t.result = "none" /\ t.now = a.now
           \/ t.pc = "list" /\ t.result = "none" /\ t.now = a.now
    BY <1>1, AfterShredIs DEF Open
  <1>3. CallDead(t)'
    BY <1>2 DEF CallDead, AllDead
  <1>4. Discarded(t)' <=> crypto
    BY <1>2 DEF Discarded
  <1>5. CallTold(t)'
    BY <1>2, <1>4 DEF CallTold, Settled
  <1>6. CallInv(d, t)'
    BY <1>2, <1>3, <1>5, OpenGoesOn
  <1> QED
    BY <1>1, <1>6

(* The tombstone it finds as its own is the write of it that landed.       *)
LEMMA OwnLanded ==
    ASSUME IInv, NEW d, NEW s, Open(d, s), NEW t \in s.sent
    PROVE  t \in OwnShreds(s, row) <=> t.token.write \in landed
  <1>1. row # NoRow => row.pointerId.write \in landed
    BY DEF IInv, SegmentFine, RowFine
  <1> QED
    BY <1>1 DEF OwnShreds, Open, CallSent, Stands

LEMMA OwnDiscards ==
    ASSUME IInv, NEW d, NEW s, Open(d, s)
    PROVE  /\ (\E t \in OwnShreds(s, row) : t.encrypted) <=> Discarded(s)
           /\ ShredIsOwn(s, row) <=> \E t \in s.sent : t.token.write \in landed
  BY OwnLanded DEF OwnShreds, Discarded, ShredIsOwn

(* A call whose own tombstone is there.                                    *)
LEMMA OwnCall ==
    ASSUME IInv, Still, NEW d, NEW s, Open(d, s), AllDead(s), ShredIsOwn(s, row),
           NEW t, t = AfterOwn(s, row)
    PROVE  CallInv(d, t)'
  <1>1. PICK yes, crypto \in BOOLEAN : yes = TRUE /\ crypto = \E u \in OwnShreds(s, row) : u.encrypted
    OBVIOUS
  <1>2. PICK tombstone : tombstone = row.token
    OBVIOUS
  <1>3. /\ DOMAIN s = DOMAIN IdleDrop /\ s.result = "none" /\ s.pc # "start"
    BY DEF Open
  <1>4. Open(d, s)' /\ AllDead(s)' /\ (Discarded(s)' <=> Discarded(s))
    BY <1>3, OpenStays
  <1>5. crypto <=> Discarded(s)'
    BY <1>1, <1>4, OwnDiscards
  <1>6. \E u \in s.sent : u.token.write \in landed'
    BY OwnDiscards DEF Still
  <1>7. CallInv(d, AfterShred(s, yes, crypto, "none", tombstone))'
    BY <1>4, <1>5, <1>6, OpenSettles
  <1>8. t = AfterShred(s, yes, crypto, "none", tombstone)
    BY <1>1, <1>2 DEF AfterOwn
  <1> QED
    BY <1>7, <1>8

(* A call that decides on the row there is.                                *)
LEMMA DecidedCall ==
    ASSUME IInv, Still, NEW d, NEW s, Open(d, s), AllDead(s), s.rec = row,
           d \in Sweepers <=> s.kind = "retire"
    PROVE  CallInv(d, Decided(s))'
  <1>1. PICK r : r = s.rec
    OBVIOUS
  <1>2. CASE ShredIsOwn(s, r)
    <2>1. PICK t : t = AfterOwn(s, row)
      OBVIOUS
    <2>2. Decided(s) = t
      BY <1>1, <1>2, <2>1 DEF Decided
    <2>3. CallInv(d, t)'
      BY <1>1, <1>2, <2>1, OwnCall
    <2> QED
      BY <2>2, <2>3
  <1>3. CASE ~ShredIsOwn(s, r)
    <2>1. PICK yes, no \in BOOLEAN : yes = TRUE /\ no = FALSE
      OBVIOUS
    <2>2. \/ Decided(s) = EndDrop(s, "null")
          \/ \E destroyed, reason, tombstone :
                /\ Decided(s) = AfterShred(s, destroyed, no, reason, tombstone)
                /\ d \notin Sweepers
          \/ Decided(s) = [s EXCEPT !.pc = "write"] /\ r # NoRow /\ r.status # "destroyed"
      <3>1. \/ Decided(s) = EndDrop(s, "null") /\ s.kind = "retire" /\ ~Wanted(s, r)
            \/ /\ s.kind = "retire" => Wanted(s, r)
               /\ \/ r = NoRow /\ Decided(s) = AfterShred(s, no, no, "absent", None)
                  \/ /\ r # NoRow /\ r.status = "destroyed"
                     /\ Decided(s) = AfterShred(s, yes, no, "already", r.token)
                  \/ s.kind = "destroy" /\ Decided(s) = AfterShred(s, no, no, "cleartext", None)
                  \/ Decided(s) = [s EXCEPT !.pc = "write"] /\ r # NoRow /\ r.status # "destroyed"
        BY <1>1, <1>3, <2>1, Zenon DEF Decided
      <3> QED
        BY <3>1 DEF Wanted
    <2>3. DOMAIN s = DOMAIN IdleDrop /\ s.result = "none" /\ s.pc # "start"
      BY DEF Open
    <2>4. Open(d, s)' /\ AllDead(s)' /\ (Discarded(s)' <=> Discarded(s))
      BY <2>3, OpenStays
    <2>5. ~Discarded(s)'
      BY <1>1, <1>3, <2>4, OwnDiscards DEF Discarded
    <2>6. ASSUME NEW destroyed, NEW reason, NEW tombstone, d \notin Sweepers
          PROVE  CallInv(d, AfterShred(s, destroyed, no, reason, tombstone))'
      BY <2>1, <2>4, <2>5, <2>6, OpenSettles
    <2>7. CallInv(d, EndDrop(s, "null"))'
      BY <2>4, OpenEnds
    <2>8. ASSUME r # NoRow, r.status # "destroyed"
          PROVE  CallInv(d, [s EXCEPT !.pc = "write"])'
      <3>1. PICK t : t = [s EXCEPT !.pc = "write"]
        OBVIOUS
      <3>2. /\ t.sent = s.sent /\ t.writes = s.writes /\ t.now = s.now /\ t.result = "none"
            /\ t.pc = "write" /\ t.rec = r
        BY <1>1, <2>3, <3>1 DEF IdleDrop
      <3>3. CallInv(d, t)'
        BY <2>4, <2>8, <3>2, OpenReads
      <3> QED
        BY <3>1, <3>3
    <2>9. PICK t : t = Decided(s)
      OBVIOUS
    <2>10. CallInv(d, t)'
      BY <2>2, <2>6, <2>7, <2>8, <2>9
    <2> QED
      BY <2>9, <2>10
  <1> QED
    BY <1>2, <1>3

(* A call that lost a race for the row.                                    *)
LEMMA LostCall ==
    ASSUME NEW d, NEW a, Open(d, a)', AllDead(a)', NEW attempts
    PROVE  CallInv(d, LostRace(a, attempts))'
  <1>1. PICK attempt : attempt = IF a.waited THEN a.attempt ELSE a.attempt + 1
    OBVIOUS
  <1>2. PICK b : b = [a EXCEPT !.lost = a.rec, !.waited = FALSE, !.attempt = attempt]
    OBVIOUS
  <1>3. PICK pc \in {"read", "last"} : LostRace(a, attempts) = [b EXCEPT !.pc = pc]
    BY <1>1, <1>2 DEF LostRace
  <1>4. PICK t : t = [b EXCEPT !.pc = pc]
    OBVIOUS
  <1>5. /\ t.sent = a.sent /\ t.writes = a.writes /\ t.now = a.now /\ t.result = "none"
        /\ t.pc = pc
    BY <1>2, <1>4 DEF IdleDrop, Open
  <1>6. CallInv(d, t)'
    BY <1>5, OpenReads
  <1> QED
    BY <1>3, <1>4, <1>6

(* The steps that read the row.                                            *)
LEMMA CallReads ==
    ASSUME IInv, PInv, Still, NEW d, Acts(d), ShredRead(d) \/ ShredAsk(d) \/ ShredLast(d)
    PROVE  \E t : DropBecomes(d, t) /\ CallInv(d, t)'
  <1>1. PICK s : s = drop[d]
    OBVIOUS
  <1>2. s.pc \in {"read", "ask", "last"}
    <2>1. s.pc = "read" \/ s.pc = "ask" \/ s.pc = "last"
      BY <1>1, Zenon DEF ShredRead, ShredAsk, ShredLast
    <2> QED
      BY <2>1
  <1>3. /\ Open(d, s) /\ CallTold(s) /\ CallDead(s)
        /\ s.pc # "ask" => AllDead(s)
    BY <1>1, <1>2, CallIsOpen
  <1>4. DOMAIN s = DOMAIN IdleDrop /\ s.result = "none" /\ s.pc # "start"
    BY <1>3 DEF Open
  <1>5. Open(d, s)' /\ (AllDead(s) => AllDead(s)')
    BY <1>3, <1>4, OpenStays
  <1>6. DropFine(d, s, row, landed, clock)
    BY <1>1 DEF IInv, Acts
  <1>7. CASE ShredRead(d)
    <2>1. PICK a, c : a = [s EXCEPT !.rec = row] /\ c = [s EXCEPT !.waited = TRUE, !.churn = @ + 1]
      OBVIOUS
    <2>2. /\ DOMAIN a = DOMAIN IdleDrop /\ a.result = "none" /\ a.pc = s.pc /\ a.sent = s.sent
          /\ a.writes = s.writes /\ a.now = s.now /\ a.kind = s.kind /\ a.rec = row
      BY <1>4, <2>1 DEF IdleDrop
    <2>3. /\ c.result = "none" /\ c.pc = s.pc /\ c.sent = s.sent
          /\ c.writes = s.writes /\ c.now = s.now
      BY <1>4, <2>1 DEF IdleDrop
    <2>4. s.pc = "read" /\ AllDead(s)
      BY <1>1, <1>3, <1>7 DEF ShredRead
    <2>5. Open(d, a) /\ AllDead(a)
      BY <1>3, <2>2, <2>4 DEF Open, AllDead, CallSent
    <2>6. CallInv(d, Decided(a))'
      BY <1>4, <1>6, <2>2, <2>5, DecidedCall DEF DropFine
    <2>7. CallInv(d, c)'
      BY <1>5, <2>3, <2>4, OpenReads
    <2>8. DropBecomes(d, c) \/ DropBecomes(d, Decided(a))
      BY <1>1, <1>7, <2>1, Zenon DEF ShredRead
    <2> QED
      BY <2>6, <2>7, <2>8
  <1>8. PICK own : own = AfterOwn(s, row) /\ (ShredIsOwn(s, row) /\ AllDead(s) => CallInv(d, own)')
    BY <1>3, OwnCall
  <1>9. CallInv(d, EndDrop(s, "error"))'
    BY <1>5, OpenEnds
  <1>10. CASE ShredAsk(d)
    <2>1. \/ ShredIsOwn(s, row) /\ DropBecomes(d, own)
          \/ DropBecomes(d, EndDrop(s, "error"))
          \/ ~SameRow(row, s.rec) /\ DropBecomes(d, LostRace(s, DropAttempts))
      BY <1>1, <1>8, <1>10, Zenon DEF ShredAsk
    <2>2. s.rec # NoRow /\ s.rec.status # "destroyed" /\ s.pc = "ask"
      BY <1>1, <1>3, <1>10 DEF CallTold, ShredAsk
    <2>3. s.rec.token # NoRow /\ (row # NoRow /\ row.token = s.rec.token => row = s.rec)
      BY <1>6, <2>2 DEF DropFine, Knows, RowFine, NoRow
    <2>4. ShredIsOwn(s, row) \/ ~SameRow(row, s.rec) => AllDead(s)
      <3>1. ShredIsOwn(s, row) => row.status = "destroyed"
        BY DEF ShredIsOwn, OwnShreds
      <3>2. ShredIsOwn(s, row) \/ ~SameRow(row, s.rec) => row = NoRow \/ row.token # s.rec.token
        BY <2>2, <2>3, <3>1 DEF SameRow
      <3> QED
        BY <1>3, <2>2, <2>3, <3>2 DEF AllDead, CallDead, Dead
    <2>5. ~SameRow(row, s.rec) => CallInv(d, LostRace(s, DropAttempts))'
      BY <1>5, <2>4, LostCall
    <2> QED
      BY <1>8, <1>9, <2>1, <2>4, <2>5
  <1>11. CASE ShredLast(d)
    <2>1. \/ ShredIsOwn(s, row) /\ DropBecomes(d, own)
          \/ DropBecomes(d, EndDrop(s, "error"))
      BY <1>1, <1>8, <1>11, Zenon DEF ShredLast
    <2>2. AllDead(s)
      BY <1>1, <1>3, <1>11 DEF ShredLast
    <2> QED
      BY <1>8, <1>9, <2>1, <2>2
  <1> QED
    BY <1>7, <1>10, <1>11

(* A call that is settled, and goes on or is done.                         *)
LEMMA OpenStaysSettled ==
    ASSUME NEW d, NEW a, Open(d, a)', AllDead(a)', a.crypto \in BOOLEAN, a.crypto <=> Discarded(a)',
           d \in Sweepers => \E u \in a.sent : u.token.write \in landed',
           NEW t, t.sent = a.sent, t.writes = a.writes, t.crypto = a.crypto,
           \/ t.pc \in {"list", "delete", "remaining"} /\ t.result = "none" /\ t.now = a.now
           \/ t.pc = "ended" /\ t.result = "done"
    PROVE  CallInv(d, t)'
  <1>1. CallDead(t)'
    BY DEF CallDead, AllDead
  <1>2. Discarded(t)' <=> Discarded(a)'
    BY DEF Discarded
  <1>3. CallTold(t)' /\ t.pc # "start"
    BY <1>2 DEF CallTold, Settled
  <1> QED
    BY <1>1, <1>3, OpenGoesOn

(* The fields of a call that ends.                                         *)
LEMMA EndDropIs ==
    ASSUME NEW s, NEW result, NEW t, t = EndDrop(s, result)
    PROVE  /\ t.pc = "ended" /\ t.result = result /\ t.sent = s.sent /\ t.writes = s.writes
           /\ t.crypto = s.crypto
  BY DEF EndDrop, IdleDrop

(* The steps over the bucket.                                              *)
LEMMA CallLists ==
    ASSUME IInv, PInv, Still, NEW d, Acts(d),
           \/ DropList(d) \/ \E g \in drop[d].todo : DropDelete(d, g)
           \/ DropPassEnds(d) \/ DropRemaining(d) \/ DropFails(d)
    PROVE  \E t : DropBecomes(d, t) /\ CallInv(d, t)'
  <1>1. PICK s : s = drop[d]
    OBVIOUS
  <1>2. s.pc \in {"orphans", "list", "delete", "remaining"}
    <2>1. s.pc = "list" \/ s.pc = "delete" \/ s.pc = "remaining" \/ s.pc \in {"orphans", "list", "remaining"}
      BY <1>1, Zenon DEF DropList, DropDelete, DropPassEnds, DropRemaining, DropFails
    <2> QED
      BY <2>1
  <1>3. Open(d, s) /\ CallTold(s) /\ AllDead(s)
    BY <1>1, <1>2, CallIsOpen
  <1>4. DOMAIN s = DOMAIN IdleDrop /\ s.result = "none" /\ s.pc # "start"
    BY <1>3 DEF Open
  <1>5. Open(d, s)' /\ AllDead(s)' /\ (Discarded(s)' <=> Discarded(s))
    BY <1>3, <1>4, OpenStays
  <1>6. d \in Sweepers => Retires(d, s)
    BY <1>1 DEF PInv, CallInv, Acts
  <1>7. CASE DropFails(d)
    <2>1. DropBecomes(d, EndDrop(s, "error"))
      BY <1>1, <1>7, Zenon DEF DropFails
    <2>2. CallInv(d, EndDrop(s, "error"))'
      BY <1>5, OpenEnds
    <2> QED
      BY <2>1, <2>2
  <1>8. CASE ~DropFails(d)
    <2>1. PICK t : /\ DropBecomes(d, t)
                   /\ t.sent = s.sent /\ t.writes = s.writes /\ t.crypto = s.crypto
                   /\ \/ t.pc \in {"list", "delete", "remaining"} /\ t.result = "none" /\ t.now = s.now
                      \/ t.pc = "ended" /\ t.result = "done"
      <3>1. CASE DropList(d)
        <4>1. PICK a, b : a = [s EXCEPT !.pc = "remaining"]
                          /\ b = [s EXCEPT !.pc = "delete", !.todo = Listed, !.gone = FALSE]
          OBVIOUS
        <4>2. DropBecomes(d, a) \/ DropBecomes(d, b)
          BY <1>1, <3>1, <4>1, Zenon DEF DropList
        <4>3. /\ a.sent = s.sent /\ a.writes = s.writes /\ a.crypto = s.crypto
              /\ a.pc = "remaining" /\ a.result = "none" /\ a.now = s.now
              /\ b.sent = s.sent /\ b.writes = s.writes /\ b.crypto = s.crypto
              /\ b.pc = "delete" /\ b.result = "none" /\ b.now = s.now
          BY <1>4, <4>1 DEF IdleDrop
        <4> QED
          BY <4>2, <4>3
      <3>2. CASE \E g \in drop[d].todo : DropDelete(d, g)
        <4>1. PICK g : DropDelete(d, g)
          BY <3>2
        <4>2. PICK a, b : a = [s EXCEPT !.todo = @ \ {g}, !.gone = TRUE, !.any = TRUE]
                          /\ b = [s EXCEPT !.todo = @ \ {g}]
          OBVIOUS
        <4>3. (DropBecomes(d, a) \/ DropBecomes(d, b)) /\ s.pc = "delete"
          BY <1>1, <4>1, <4>2, Zenon DEF DropDelete
        <4>4. /\ a.sent = s.sent /\ a.writes = s.writes /\ a.crypto = s.crypto
              /\ a.pc = s.pc /\ a.result = "none" /\ a.now = s.now
              /\ b.sent = s.sent /\ b.writes = s.writes /\ b.crypto = s.crypto
              /\ b.pc = s.pc /\ b.result = "none" /\ b.now = s.now
          BY <1>4, <4>2 DEF IdleDrop
        <4> QED
          BY <4>3, <4>4
      <3>3. CASE DropPassEnds(d)
        <4>1. PICK pc \in {"list", "remaining"} : DropBecomes(d, [s EXCEPT !.passes = @ + 1, !.pc = pc])
          BY <1>1, <3>3, Zenon DEF DropPassEnds
        <4>2. PICK a : a = [s EXCEPT !.passes = @ + 1, !.pc = pc]
          OBVIOUS
        <4>3. /\ a.sent = s.sent /\ a.writes = s.writes /\ a.crypto = s.crypto
              /\ a.pc = pc /\ a.result = "none" /\ a.now = s.now
          BY <1>4, <4>2 DEF IdleDrop
        <4> QED
          BY <4>1, <4>2, <4>3
      <3>4. CASE DropRemaining(d)
        <4>1. PICK a : a = [s EXCEPT !.remaining = Listed]
          OBVIOUS
        <4>2. DropBecomes(d, EndDrop(a, "done"))
          BY <1>1, <3>4, <4>1, Zenon DEF DropRemaining
        <4>3. a.sent = s.sent /\ a.writes = s.writes /\ a.crypto = s.crypto
          BY <1>4, <4>1 DEF IdleDrop
        <4> QED
          BY <4>2, <4>3, EndDropIs
      <3> QED
        BY <1>8, <3>1, <3>2, <3>3, <3>4
    <2>2. s.pc # "orphans"
      BY <1>1, <1>8, Zenon DEF DropList, DropDelete, DropPassEnds, DropRemaining
    <2>3. s.crypto \in BOOLEAN /\ (s.crypto <=> Discarded(s)')
      BY <1>2, <1>3, <1>5, <2>2 DEF CallTold, Settled
    <2>4. d \in Sweepers => \E u \in s.sent : u.token.write \in landed'
      BY <1>2, <1>6, <2>2 DEF Retires, Settled, Still
    <2> QED
      BY <1>5, <2>1, <2>3, <2>4, OpenStaysSettled
  <1> QED
    BY <1>7, <1>8

(* A drop that looks for orphans, and one that asks for its claim.         *)
LEMMA CallClaims ==
    ASSUME IInv, PInv, Still, NEW d \in Droppers, Orphans(d) \/ ClaimAsk(d)
    PROVE  \E t : DropBecomes(d, t) /\ CallInv(d, t)'
  <1>0. Acts(d) /\ d \notin Sweepers
    BY DropAssumption DEF Acts
  <1>1. PICK s : s = drop[d]
    OBVIOUS
  <1>2. s.pc = "orphans" \/ s.pc = "claimAsk"
    BY <1>1, Zenon DEF Orphans, ClaimAsk
  <1>3. Open(d, s) /\ CallTold(s) /\ (s.pc = "orphans" => AllDead(s))
    BY <1>0, <1>1, <1>2, CallIsOpen
  <1>4. DOMAIN s = DOMAIN IdleDrop /\ s.result = "none" /\ s.pc # "start"
    BY <1>3 DEF Open
  <1>5. Open(d, s)' /\ (AllDead(s) => AllDead(s)') /\ (Discarded(s)' <=> Discarded(s))
    BY <1>3, <1>4, OpenStays
  <1>6. CASE Orphans(d)
    <2>1. s.pc = "orphans"
      BY <1>1, <1>6 DEF Orphans
    <2>2. s.crypto = FALSE /\ ~Discarded(s)'
      BY <1>3, <1>5, <2>1 DEF CallTold
    <2>3. PICK a, b : a = [s EXCEPT !.pc = "claim", !.todo = Listed] /\ b = EndDrop(s, "done")
      OBVIOUS
    <2>4. DropBecomes(d, a) \/ DropBecomes(d, b)
      BY <1>1, <1>6, <2>3, Zenon DEF Orphans
    <2>5. /\ a.sent = s.sent /\ a.writes = s.writes /\ a.crypto = s.crypto /\ a.now = s.now
          /\ a.pc = "claim" /\ a.result = "none"
      BY <1>4, <2>3 DEF IdleDrop
    <2>6. CallDead(a)' /\ CallTold(a)'
      BY <1>3, <1>5, <2>1, <2>2, <2>5 DEF CallDead, AllDead, CallTold, Settled
    <2>7. CallInv(d, a)'
      BY <1>0, <1>5, <2>5, <2>6, OpenGoesOn
    <2>8. CallInv(d, b)'
      <3>1. /\ b.pc = "ended" /\ b.result = "done" /\ b.sent = s.sent /\ b.writes = s.writes
            /\ b.crypto = s.crypto
        BY <2>3, EndDropIs
      <3>2. AllDead(s)'
        BY <1>3, <1>5, <2>1
      <3>3. s.crypto \in BOOLEAN /\ (s.crypto <=> Discarded(s)')
        BY <2>2
      <3> QED
        BY <1>0, <1>5, <3>1, <3>2, <3>3, OpenStaysSettled
    <2> QED
      BY <2>4, <2>7, <2>8
  <1>7. CASE ClaimAsk(d)
    <2>1. s.pc = "claimAsk"
      BY <1>1, <1>7 DEF ClaimAsk
    <2>2. s.crypto = FALSE
      BY <1>3, <2>1 DEF CallTold
    <2>3. PICK x : s.sent = {x} /\ ~x.encrypted
      BY <1>3, <2>1 DEF CallTold
    <2>4. PICK a, b, c : /\ a = Claimed(s, row.token) /\ b = EndDrop(s, "error")
                         /\ c = [s EXCEPT !.pc = "read", !.sent = {}, !.attempt = 0, !.churn = 0]
      OBVIOUS
    <2>5. (ShredIsOwn(s, row) /\ DropBecomes(d, a)) \/ DropBecomes(d, b) \/ DropBecomes(d, c)
      BY <1>1, <1>7, <2>4, Zenon DEF ClaimAsk
    <2>6. CallInv(d, b)'
      BY <1>5, <2>4, OpenEnds
    <2>7. /\ DOMAIN c = DOMAIN IdleDrop
          /\ c.sent = {} /\ c.writes = s.writes /\ c.now = s.now /\ c.pc = "read" /\ c.result = "none"
      BY <1>4, <2>4 DEF IdleDrop
    <2>8. Open(d, c)' /\ AllDead(c)'
      BY <1>0, <2>7 DEF Open, CallSent, AllDead
    <2>9. CallInv(d, c)'
      BY <2>7, <2>8, OpenReads
    <2>10. /\ a.sent = s.sent /\ a.writes = s.writes /\ a.now = s.now /\ a.pc = "list"
           /\ a.result = "none" /\ a.crypto = s.crypto
      BY <1>4, <2>4 DEF Claimed, IdleDrop
    <2>11. ASSUME ShredIsOwn(s, row)
           PROVE  CallInv(d, a)'
      <3>1. x.token.write \in landed
        BY <1>3, <2>3, <2>11, OwnDiscards
      <3>2. AllDead(s)
        BY <2>3, <3>1 DEF AllDead, IInv, SegmentFine
      <3>3. ~Discarded(s)'
        BY <1>5, <2>3 DEF Discarded
      <3> QED
        BY <1>0, <1>5, <2>2, <2>10, <3>2, <3>3, OpenStaysSettled
    <2> QED
      BY <2>5, <2>6, <2>9, <2>11
  <1> QED
    BY <1>6, <1>7

(* A call sends a tombstone over what it knows.                            *)
LEMMA CallSends ==
    ASSUME IInv, PInv, TombstonesStay, UNCHANGED <<removals, sweep>>,
           NEW d, Acts(d), NEW s, s = drop[d], Open(d, s),
           NEW w, Fit(w, row, landed, clock), w.token.write = <<d, s.writes + 1>>, Entombs(w, MarkOf(d)),
           NEW x, x.token = w.token,
           NEW a, DOMAIN a = DOMAIN IdleDrop, a.result = "none", a.pc # "start", a.now = s.now,
           a.writes = s.writes + 1, a.sent \subseteq s.sent \cup {x},
           \/ Accepts(w) /\ Apply(w) /\ inflight' = inflight
           \/ UNCHANGED <<row, landed, inflight>>
           \/ inflight' = inflight \cup {w} /\ UNCHANGED <<row, landed>>
    PROVE  /\ StepOf(d) /\ Open(d, a)'
           /\ AllDead(s) => \A t \in a.sent, u \in inflight' : u.token = t.token => Dead(u)' \/ u = w
           /\ inflight' = inflight => w \notin inflight
           /\ Accepts(w) /\ Apply(w) => /\ \A t \in s.sent : t.token.write \notin landed'
                                        /\ x.token.write \in landed'
           /\ landed' = landed => x.token.write \notin landed'
  <1>0. d \in Droppers \cup Sweepers
    BY DEF Acts
  <1>1. w.token.write \notin landed \cup NamesOf(inflight)
    BY <1>0, NextIsNew
  <1>2. \A u \in inflight : u.token.write # w.token.write
    BY <1>1 DEF NamesOf
  <1>3. Makes(d, w)
    BY <1>1 DEF Makes
  <1>4. StepOf(d)
    BY <1>3, WriteIsStep, RestIsStep DEF Writes
  <1>5. s.writes \in Nat
    BY <1>0 DEF IInv, DropFine
  <1>6. PICK mark : mark = MarkOf(d)
    OBVIOUS
  <1>7. MarkOf(d)' = mark
    BY <1>6 DEF MarkOf
  <1>8. CallSent(d, s, mark)
    BY <1>6 DEF Open
  <1>9. ASSUME NEW t \in s.sent
        PROVE  /\ \E k \in 1..(s.writes + 1) : t.token.write = <<d, k>>
               /\ t.token.write # w.token.write
    <2>1. PICK k \in 1..s.writes : t.token.write = <<d, k>>
      BY <1>8 DEF CallSent
    <2> QED
      BY <1>5, <2>1
  <1>10. ASSUME NEW t \in s.sent, t.token.write \in landed
         PROVE  ~Accepts(w) /\ Stands(t.token, mark)
    <2>1. Stands(t.token, mark)
      BY <1>8, <1>10 DEF CallSent
    <2> QED
      BY <2>1 DEF Stands, Accepts, Fit
  <1>11. Accepts(w) /\ Apply(w) =>
            /\ row' = After(row, w) /\ landed' = landed \cup {w.token.write}
            /\ Stands(w.token, mark)'
    BY <1>1, <1>4, <1>6, AppliedIsRow, LandsStanding
  <1>12. CallSent(d, a, mark)'
    <2> SUFFICES ASSUME NEW t \in a.sent
                 PROVE  /\ \E k \in 1..a.writes : t.token.write = <<d, k>>
                        /\ t.token.write \in landed' => Stands(t.token, mark)'
                        /\ \A u \in inflight' : u.token.write = t.token.write =>
                              u.token = t.token /\ Entombs(u, mark)
      BY DEF CallSent
    <2>1. CASE t \in s.sent
      <3>1. t.token.write \in landed' => t.token.write \in landed
        BY <1>9, <1>11, <2>1
      <3>2. t.token.write \in landed => Stands(t.token, mark)'
        <4> SUFFICES ASSUME t.token.write \in landed
                     PROVE  Stands(t.token, mark)'
          OBVIOUS
        <4>1. ~Accepts(w) /\ Stands(t.token, mark)
          BY <1>10, <2>1
        <4> QED
          BY <4>1 DEF Stands
      <3>3. \A u \in inflight' : u \in inflight \/ u = w
        OBVIOUS
      <3> QED
        BY <1>8, <1>9, <2>1, <3>1, <3>2, <3>3 DEF CallSent
    <2>2. CASE t \notin s.sent
      <3>1. t = x
        BY <2>2
      <3>2. t.token.write = <<d, s.writes + 1>> /\ s.writes + 1 \in 1..a.writes
        BY <1>5, <3>1
      <3> QED
        BY <1>1, <1>2, <1>6, <1>11, <3>1, <3>2
    <2> QED
      BY <2>1, <2>2
  <1>13. Open(d, a)'
    BY <1>7, <1>12 DEF Open
  <1>14. ASSUME AllDead(s), NEW t \in a.sent, NEW u \in inflight', u.token = t.token, u # w
         PROVE  Dead(u)'
    <2>1. u \in inflight
      BY <1>14
    <2>2. t \in s.sent
      BY <1>2, <1>14, <2>1
    <2> QED
      BY <1>4, <1>14, <2>1, <2>2, DeadStays DEF AllDead
  <1>15. Accepts(w) /\ Apply(w) => \A t \in s.sent : t.token.write \notin landed'
    BY <1>9, <1>10, <1>11
  <1> QED
    BY <1>1, <1>2, <1>4, <1>11, <1>13, <1>14, <1>15

(* A call that sends its tombstone.                                        *)
LEMMA CallWrites ==
    ASSUME IInv, PInv, TombstonesStay, UNCHANGED <<removals, sweep>>, NEW d, Acts(d), ShredWrite(d)
    PROVE  StepOf(d) /\ \E t : DropBecomes(d, t) /\ CallInv(d, t)'
  <1>1. PICK s : s = drop[d]
    OBVIOUS
  <1>2. PICK w : w = SwapOf(s.rec, TombstonePatch(s), <<d, s.writes + 1>>)
    OBVIOUS
  <1>3. PICK keyed \in BOOLEAN : keyed = Encrypted(s.rec)
    BY DEF Encrypted
  <1>4. PICK yes \in BOOLEAN : yes = TRUE
    OBVIOUS
  <1>5. PICK x : x = [token |-> w.token, encrypted |-> keyed]
    OBVIOUS
  <1>6. PICK a : a = [s EXCEPT !.writes = @ + 1, !.sent = @ \cup {x}]
    OBVIOUS
  <1>7. PICK ask : ask = [a EXCEPT !.pc = "ask"]
    OBVIOUS
  <1>8. /\ s.pc = "write"
        /\ \/ /\ Accepts(w) /\ Apply(w) /\ inflight' = inflight
              /\ DropBecomes(d, AfterShred(a, yes, keyed, "none", w.token))
           \/ /\ UNCHANGED <<row, landed, inflight>>
              /\ DropBecomes(d, LostRace(a, DropAttempts))
           \/ /\ Accepts(w) /\ Apply(w) /\ inflight' = inflight
              /\ DropBecomes(d, LostRace(a, DropAttempts))
           \/ /\ inflight' = inflight \cup {w} /\ UNCHANGED <<row, landed>>
              /\ DropBecomes(d, ask)
    BY <1>1, <1>2, <1>3, <1>4, <1>5, <1>6, <1>7, Zenon DEF ShredWrite
  <1>9. Open(d, s) /\ CallTold(s) /\ AllDead(s)
    BY <1>1, <1>8, CallIsOpen
  <1>10. DOMAIN s = DOMAIN IdleDrop /\ s.result = "none"
    BY <1>9 DEF Open
  <1>11. DropFine(d, s, row, landed, clock) /\ d \in Droppers \cup Sweepers
    BY <1>1 DEF IInv, Acts
  <1>12. Fit(w, row, landed, clock) /\ w.token.write = <<d, s.writes + 1>>
    BY <1>1, <1>2, <1>8, <1>11, TombstoneFits
  <1>13. w.expect = s.rec.token
    BY <1>2 DEF SwapOf
  <1>14. Entombs(w, MarkOf(d))
    <2>1. PICK mark : mark = MarkOf(d)
      OBVIOUS
    <2>2. Mark(s) = mark
      BY <1>8, <1>9, <1>11, <2>1 DEF Mark, MarkOf, DropFine, Open
    <2>3. s.rec.retention \in Meta
      BY <1>8, <1>11 DEF DropFine, Knows, RowFine
    <2>4. PICK meta : meta = [s.rec.retention EXCEPT !.mark = mark]
      OBVIOUS
    <2>5. meta.mark = mark
      BY <2>3, <2>4 DEF Meta
    <2>6. w.patch = [status |-> "destroyed", wrappedDeks |-> Clear, summary |-> NoSummary,
                     knownGens |-> <<>>, leases |-> {}, retention |-> meta]
      BY <1>2, <2>2, <2>4 DEF SwapOf, TombstonePatch
    <2>7. Entombs(w, mark)
      BY <2>5, <2>6 DEF Entombs
    <2> QED
      BY <2>1, <2>7
  <1>15. /\ DOMAIN a = DOMAIN IdleDrop /\ a.result = "none" /\ a.pc = "write" /\ a.now = s.now
         /\ a.writes = s.writes + 1 /\ a.sent = s.sent \cup {x} /\ a.rec = s.rec
    BY <1>6, <1>8, <1>10 DEF IdleDrop
  <1>16. x.token = w.token /\ x.encrypted = keyed
    BY <1>5
  <1>17. /\ StepOf(d) /\ Open(d, a)'
         /\ \A t \in a.sent, u \in inflight' : u.token = t.token => Dead(u)' \/ u = w
         /\ inflight' = inflight => w \notin inflight
         /\ Accepts(w) /\ Apply(w) => /\ \A t \in s.sent : t.token.write \notin landed'
                                      /\ x.token.write \in landed'
    BY <1>1, <1>8, <1>9, <1>12, <1>14, <1>15, <1>16, CallSends
  <1>18. inflight' = inflight => AllDead(a)'
    BY <1>17 DEF AllDead
  <1>19. ASSUME Accepts(w), Apply(w), inflight' = inflight
         PROVE  CallInv(d, AfterShred(a, yes, keyed, "none", w.token))'
    <2>1. keyed <=> Discarded(a)'
      BY <1>15, <1>16, <1>17, <1>19 DEF Discarded
    <2>2. \E u \in a.sent : u.token.write \in landed'
      BY <1>15, <1>17, <1>19
    <2>3. PICK token : token = w.token
      OBVIOUS
    <2>4. CallInv(d, AfterShred(a, yes, keyed, "none", token))'
      BY <1>17, <1>18, <1>19, <2>1, <2>2, OpenSettles
    <2>5. PICK t : t = AfterShred(a, yes, keyed, "none", token)
      OBVIOUS
    <2> QED
      BY <2>3, <2>4, <2>5
  <1>20. ASSUME inflight' = inflight
         PROVE  CallInv(d, LostRace(a, DropAttempts))'
    BY <1>17, <1>18, <1>20, LostCall
  <1>21. CallInv(d, ask)'
    <2>1. /\ ask.pc = "ask" /\ ask.sent = a.sent /\ ask.writes = a.writes /\ ask.now = a.now
          /\ ask.result = "none" /\ ask.rec = s.rec
      BY <1>7, <1>15 DEF IdleDrop
    <2>2. CallDead(ask)'
      BY <1>13, <1>17, <2>1 DEF CallDead
    <2>3. CallTold(ask)' /\ ~Settled(ask)
      BY <1>8, <1>9, <2>1 DEF CallTold, Settled
    <2> QED
      BY <1>17, <2>1, <2>2, <2>3, OpenGoesOn
  <1>22. \E t : DropBecomes(d, t) /\ CallInv(d, t)'
    <2>1. PICK settled, lost : /\ settled = AfterShred(a, yes, keyed, "none", w.token)
                               /\ lost = LostRace(a, DropAttempts)
      OBVIOUS
    <2> QED
      BY <1>8, <1>19, <1>20, <1>21, <2>1
  <1> QED
    BY <1>17, <1>22

(* A drop that makes the tombstone of a name without a row.                *)
LEMMA CallMakes ==
    ASSUME IInv, PInv, TombstonesStay, UNCHANGED <<removals, sweep>>, NEW d \in Droppers, Claim(d)
    PROVE  StepOf(d) /\ \E t : DropBecomes(d, t) /\ CallInv(d, t)'
  <1>0. Acts(d) /\ d \notin Sweepers
    BY DropAssumption DEF Acts
  <1>1. PICK s : s = drop[d]
    OBVIOUS
  <1>2. PICK gen : gen = CHOOSE g \in s.todo : \A h \in s.todo : h <= g
    OBVIOUS
  <1>3. PICK w : w = CreateOf([currentGen |-> gen, status |-> "destroyed"], <<d, s.writes + 1>>)
    OBVIOUS
  <1>4. PICK x : x = [token |-> w.token, encrypted |-> FALSE]
    OBVIOUS
  <1>5. PICK sent : sent = {x}
    OBVIOUS
  <1>6. PICK a : a = [s EXCEPT !.writes = @ + 1, !.claimed = TRUE, !.todo = {}, !.sent = sent]
    OBVIOUS
  <1>7. PICK b, c, e : /\ b = Claimed(a, w.token) /\ c = [a EXCEPT !.pc = "claimAsk"]
                       /\ e = [a EXCEPT !.pc = "claimAsk", !.unanswered = TRUE]
    OBVIOUS
  <1>8. /\ s.pc = "claim"
        /\ \/ /\ Accepts(w) /\ Apply(w) /\ inflight' = inflight
              /\ DropBecomes(d, b)
           \/ /\ UNCHANGED <<row, landed, inflight>>
              /\ DropBecomes(d, c)
           \/ /\ inflight' = inflight \cup {w} /\ UNCHANGED <<row, landed>>
              /\ DropBecomes(d, e)
    BY <1>1, <1>2, <1>3, <1>4, <1>5, <1>6, <1>7, Zenon DEF Claim
  <1>9. Open(d, s) /\ CallTold(s) /\ AllDead(s)
    BY <1>0, <1>1, <1>8, CallIsOpen
  <1>10. DOMAIN s = DOMAIN IdleDrop /\ s.result = "none" /\ s.crypto = FALSE
    BY <1>8, <1>9 DEF Open, CallTold
  <1>11. Fit(w, row, landed, clock) /\ w.token.write = <<d, s.writes + 1>>
    <2>1. /\ w.expect = NoRow /\ w.patch = [currentGen |-> gen, status |-> "destroyed"]
          /\ w.token.write = <<d, s.writes + 1>> /\ "write" \in DOMAIN w.token
          /\ w.token.incarnation = w.token.write
      BY <1>3 DEF CreateOf, NewIncarnationToken
    <2>2. PICK n : n = RecordFromNew(w.patch, w.token)
      OBVIOUS
    <2>3. n.retention = NoMeta
      BY <2>1, <2>2 DEF RecordFromNew, BlankRow
    <2> QED
      BY <2>1, <2>2, <2>3, NoMetaIsMeta DEF Fit, NoMeta
  <1>12. Entombs(w, MarkOf(d))
    <2>1. w.expect = NoRow /\ w.patch = [currentGen |-> gen, status |-> "destroyed"]
      BY <1>3 DEF CreateOf
    <2>2. "retention" \notin DOMAIN w.patch
      BY <2>1
    <2> QED
      BY <1>0, <2>1, <2>2 DEF Entombs, MarkOf
  <1>13. /\ DOMAIN a = DOMAIN IdleDrop /\ a.result = "none" /\ a.pc = "claim" /\ a.now = s.now
         /\ a.writes = s.writes + 1 /\ a.sent = {x} /\ a.crypto = FALSE
    BY <1>5, <1>6, <1>8, <1>10 DEF IdleDrop
  <1>14. x.token = w.token /\ ~x.encrypted
    BY <1>4
  <1>15. /\ StepOf(d) /\ Open(d, a)'
         /\ \A t \in a.sent, u \in inflight' : u.token = t.token => Dead(u)' \/ u = w
         /\ inflight' = inflight => w \notin inflight
    BY <1>0, <1>1, <1>8, <1>9, <1>11, <1>12, <1>13, <1>14, CallSends
  <1>16. ASSUME inflight' = inflight
         PROVE  CallInv(d, b)'
    <2>1. AllDead(a)'
      BY <1>15, <1>16 DEF AllDead
    <2>2. ~Discarded(a)'
      BY <1>13, <1>14 DEF Discarded
    <2>3. /\ b.pc = "list" /\ b.result = "none" /\ b.now = a.now /\ b.sent = a.sent
          /\ b.writes = a.writes /\ b.crypto = a.crypto
      BY <1>7, <1>13 DEF Claimed, IdleDrop
    <2> QED
      BY <1>0, <1>13, <1>15, <2>1, <2>2, <2>3, OpenStaysSettled
  <1>17. ASSUME NEW t \in {c, e}
         PROVE  CallInv(d, t)'
    <2>1. /\ t.pc = "claimAsk" /\ t.result = "none" /\ t.sent = a.sent /\ t.writes = a.writes
          /\ t.crypto = FALSE
      BY <1>7, <1>13 DEF IdleDrop
    <2>2. CallDead(t)'
      BY <2>1 DEF CallDead
    <2>3. CallTold(t)'
      BY <1>13, <1>14, <2>1 DEF CallTold, Settled
    <2> QED
      BY <1>0, <1>15, <2>1, <2>2, <2>3, OpenGoesOn
  <1> QED
    BY <1>8, <1>15, <1>16, <1>17

(* A call that begins.                                                     *)
LEMMA CallBegins ==
    ASSUME PInv, NEW d \in Droppers, BeginDrop(d)
    PROVE  \E t : DropBecomes(d, t) /\ CallInv(d, t)'
  <1>1. PICK kind \in {"destroy", "drop"} : DropBecomes(d, [IdleDrop EXCEPT !.pc = "read", !.kind = kind])
    BY Zenon DEF BeginDrop
  <1>2. PICK t : t = [IdleDrop EXCEPT !.pc = "read", !.kind = kind]
    OBVIOUS
  <1>3. t.pc = "read" /\ t.sent = {} /\ t.result = "none"
    BY <1>2 DEF IdleDrop
  <1>4. CallSent(d, t, MarkOf(d))' /\ CallDead(t)' /\ CallTold(t)'
    BY <1>3 DEF CallSent, CallDead, CallTold, Settled
  <1> QED
    BY <1>1, <1>2, <1>4, DropAssumption DEF CallInv

(* Every step of a shred, a drop or a retirement.                          *)
LEMMA CallKeeps ==
    ASSUME IInv, PInv, TombstonesStay, UNCHANGED <<removals, sweep>>, NEW d, Acts(d),
           (d \in Droppers /\ DropStep(d)) \/ TombstoneStep(d)
    PROVE  PInv' /\ RowMoves
  <1>1. StepOf(d) /\ \E t : DropBecomes(d, t) /\ CallInv(d, t)'
    <2>1. CASE ShredWrite(d)
      BY <2>1, CallWrites
    <2>2. CASE d \in Droppers /\ Claim(d)
      BY <2>2, CallMakes
    <2>3. CASE d \in Droppers /\ BeginDrop(d)
      <3>1. Still
        BY <2>3, Zenon DEF BeginDrop, Still, loadVars, segment
      <3> QED
        BY <2>3, <3>1, CallBegins, RestIsStep DEF Still
    <2>4. CASE \/ ShredRead(d) \/ ShredAsk(d) \/ ShredLast(d)
               \/ DropList(d) \/ (\E g \in drop[d].todo : DropDelete(d, g)) \/ DropPassEnds(d)
               \/ DropRemaining(d) \/ DropFails(d)
               \/ d \in Droppers /\ (Orphans(d) \/ ClaimAsk(d))
      <3>1. Still
        BY <2>4, Zenon DEF ShredRead, ShredAsk, ShredLast, DropList, DropDelete, DropPassEnds,
                           DropRemaining, DropFails, Orphans, ClaimAsk, Still, loadVars, segment
      <3>2. \E t : DropBecomes(d, t) /\ CallInv(d, t)'
        BY <2>4, <3>1, CallReads, CallLists, CallClaims
      <3> QED
        BY <3>1, <3>2, RestIsStep DEF Still
    <2> QED
      BY <2>1, <2>2, <2>3, <2>4 DEF DropStep, TombstoneStep
  <1>2. PICK t : DropBecomes(d, t) /\ CallInv(d, t)'
    BY <1>1
  <1>3. DOMAIN drop = Droppers \cup Sweepers
    BY DEF IInv, Typed
  <1>4. drop'[d] = t /\ \A e \in Droppers \cup Sweepers : e # d => drop'[e] = drop[e]
    BY <1>2, <1>3 DEF DropBecomes, Acts
  <1>5. \A e \in Droppers \cup Sweepers : CallInv(e, drop[e])'
    <2> TAKE e \in Droppers \cup Sweepers
    <2>1. CASE e = d
      BY <1>2, <1>4, <2>1
    <2>2. CASE e # d
      BY <1>1, <1>4, <2>2, CallStays
    <2> QED
      BY <2>1, <2>2
  <1>6. \A w \in Sweepers : SweepInv(w, sweep[w])'
    BY <1>1, SweepStaysSo
  <1>7. RemovalInv'
    BY <1>1, RemovalsStay
  <1> QED
    BY <1>1, <1>5, <1>6, <1>7 DEF PInv, StepOf

-----------------------------------------------------------------------------
(* The steps of a sweep.                                                   *)

(* A step of w, whatever becomes of its sweep and of its call.             *)
LEMMA SweepMoves ==
    ASSUME IInv, PInv, TombstonesStay, NEW w \in Sweepers, StepOf(w), NEW t, SweepBecomes(w, t),
           \A d \in Droppers \cup Sweepers : d # w => drop'[d] = drop[d],
           SweepInv(w, t)', CallInv(w, drop[w])'
    PROVE  PInv' /\ RowMoves
  <1>1. DOMAIN sweep = Sweepers
    BY DEF IInv, Typed
  <1>2. sweep'[w] = t /\ \A v \in Sweepers : v # w => sweep'[v] = sweep[v]
    BY <1>1 DEF SweepBecomes
  <1>3. \A d \in Droppers \cup Sweepers : d # w => CallInv(d, drop[d])'
    BY <1>2, CallStays
  <1>4. \A v \in Sweepers : v # w => SweepInv(v, sweep[v])'
    BY <1>2, SweepStaysSo
  <1>5. RemovalInv'
    BY RemovalsStay
  <1> QED
    BY <1>2, <1>3, <1>4, <1>5 DEF PInv, StepOf

(* One that has nothing to do with a retirement.                           *)
LEMMA SweepGoesOn ==
    ASSUME IInv, PInv, TombstonesStay, NEW w \in Sweepers, StepOf(w), NEW t, SweepBecomes(w, t),
           sweep[w].pc # "drop", t.pc # "drop", drop' = drop, SweepInv(w, t)'
    PROVE  PInv' /\ RowMoves
  <1>1. PICK s : s = drop[w]
    OBVIOUS
  <1>2. CallInv(w, s) /\ s.sent = {}
    BY <1>1 DEF PInv, CallInv
  <1>3. sweep'[w] = t
    BY DEF SweepBecomes, IInv, Typed
  <1>4. CallSent(w, s, MarkOf(w))' /\ CallDead(s)'
    BY <1>2 DEF CallSent, CallDead
  <1>5. CallTold(s)'
    BY <1>2 DEF CallInv, CallTold, Discarded
  <1>6. CallInv(w, s)'
    BY <1>2, <1>3, <1>4, <1>5 DEF CallInv
  <1> QED
    BY <1>1, <1>6, SweepMoves

(* A sweep that is not about to retire a row, nor to remove one.           *)
Idles(t) == t.pc \notin {"drop", "forget", "empty", "remove"}

(* What a sweep goes on as, when it is about to do nothing to the row.     *)
LEMMA SweepIdles ==
    ASSUME NEW w, NEW t,
           t.pc \notin {"drop", "forget", "empty", "reclaimed", "collect", "remove", "removeAsk"}
    PROVE  SweepInv(w, t)' /\ Idles(t)
  BY DEF SweepInv, Idles

LEMMA EndSweepIs ==
    ASSUME NEW w, NEW result
    PROVE  LET t == EndSweep(result) IN SweepInv(w, t)' /\ Idles(t)
  <1>1. PICK t : t = EndSweep(result)
    OBVIOUS
  <1>2. t.pc = "ended"
    BY <1>1 DEF EndSweep, Resting
  <1>3. SweepInv(w, t)' /\ Idles(t)
    BY <1>2, SweepIdles
  <1> QED
    BY <1>1, <1>3

(* One that is about to remove a row it judged.                            *)
LEMMA SweepGoesBy ==
    ASSUME NEW w, NEW s, SweepInv(w, s), s.pc \in {"reclaimed", "collect", "remove", "removeAsk"},
           DOMAIN s = DOMAIN Resting,
           NEW pc \in {"collect", "remove", "removeAsk"}, NEW t, t = [s EXCEPT !.pc = pc]
    PROVE  SweepInv(w, t)' /\ t.pc # "drop"
  <1>1. t.pc = pc /\ t.rec = s.rec /\ t.purge = s.purge /\ t.now = s.now
    BY DEF Resting
  <1> QED
    BY <1>1 DEF SweepInv

(* A scan: what it judges due for a purge is a sweep's tombstone.          *)
LEMMA JudgedIs ==
    ASSUME NEW w \in Sweepers, NEW s, DOMAIN s = DOMAIN Resting, s.now \in Nat,
           s.rec # NoRow => RowFine(s.rec, landed), NEW t, t = Judged(s)
    PROVE  SweepInv(w, t)' /\ Idles(t)
  <1>1. PICK r : r = s.rec
    OBVIOUS
  <1>2. \/ t = [s EXCEPT !.pc = "litter", !.todo = s.found]
        \/ \E result : t = EndSweep(result)
        \/ t = [s EXCEPT !.pc = "foreign"]
        \/ t = [s EXCEPT !.pc = "reread"]
        \/ /\ t = [s EXCEPT !.pc = "reclaimed", !.purge = TRUE]
           /\ r # NoRow /\ r.status = "destroyed" /\ Marked(r) /\ ~(s.now - r.retention.mark < Grace)
    BY <1>1, Zenon DEF Judged
  <1>3. CASE \/ t = [s EXCEPT !.pc = "litter", !.todo = s.found]
             \/ t = [s EXCEPT !.pc = "foreign"]
             \/ t = [s EXCEPT !.pc = "reread"]
    <2>1. t.pc \in {"litter", "foreign", "reread"}
      BY <1>3 DEF Resting
    <2> QED
      BY <2>1, SweepIdles
  <1>4. CASE \E result : t = EndSweep(result)
    BY <1>4, EndSweepIs
  <1>5. CASE /\ t = [s EXCEPT !.pc = "reclaimed", !.purge = TRUE]
             /\ r # NoRow /\ r.status = "destroyed" /\ Marked(r) /\ ~(s.now - r.retention.mark < Grace)
    <2>1. t.pc = "reclaimed" /\ t.purge = TRUE /\ t.rec = r /\ t.now = s.now
      BY <1>1, <1>5 DEF Resting
    <2>2. r.pointerId.write[1] \in Sweepers /\ r.retention.mark \in Nat
      BY <1>1, <1>5 DEF RowFine, Meta, Marked
    <2>3. s.now - r.retention.mark >= Grace
      BY <1>5, <2>2, RetentionAssumption
    <2> QED
      BY <1>5, <2>1, <2>2, <2>3 DEF SweepInv, Idles
  <1> QED
    BY <1>2, <1>3, <1>4, <1>5

(* The steps of the scan and of the pointers.                              *)
LEMMA ScansGoOn ==
    ASSUME IInv, NEW w \in Sweepers,
           ScanRow(w) \/ ScanPointers(w) \/ SweepLitter(w) \/ SweepForeign(w) \/ SweepUnfile(w)
    PROVE  \E t : SweepBecomes(w, t) /\ SweepInv(w, t)' /\ Idles(t)
  <1>1. PICK s : s = sweep[w]
    OBVIOUS
  <1>2. DOMAIN s = DOMAIN Resting /\ s.now \in Nat /\ Knows(s.rec, row, landed)
    BY <1>1 DEF IInv, SweepFine
  <1>3. row # NoRow => RowFine(row, landed)
    BY DEF IInv, SegmentFine
  <1>4. CASE ScanRow(w)
    <2>1. PICK a, b : a = [s EXCEPT !.rec = row] /\ b = [s EXCEPT !.pc = "pointers", !.rec = row]
      OBVIOUS
    <2>2. PICK t : t = Judged(a)
      OBVIOUS
    <2>3. SweepBecomes(w, t) \/ SweepBecomes(w, b)
      BY <1>1, <1>4, <2>1, <2>2, Zenon DEF ScanRow
    <2>4. DOMAIN a = DOMAIN Resting /\ a.now = s.now /\ a.rec = row /\ b.pc = "pointers"
      BY <1>2, <2>1 DEF Resting
    <2> QED
      BY <1>2, <1>3, <2>2, <2>3, <2>4, JudgedIs, SweepIdles
  <1>5. CASE ScanPointers(w)
    <2>1. PICK found : found = {[day |-> b, token |-> due[b].token] : b \in {b \in DaysRead(w) : Filed(b)}}
      OBVIOUS
    <2>2. PICK a, b : a = [s EXCEPT !.found = found] /\ b = [s EXCEPT !.pc = "row", !.found = found]
      OBVIOUS
    <2>3. PICK t : t = Judged(a)
      OBVIOUS
    <2>4. SweepBecomes(w, t) \/ SweepBecomes(w, b) \/ SweepBecomes(w, EndSweep("nothing"))
      BY <1>1, <1>5, <2>1, <2>2, <2>3, Zenon DEF ScanPointers
    <2>5. DOMAIN a = DOMAIN Resting /\ a.now = s.now /\ a.rec = s.rec /\ b.pc = "row"
      BY <1>2, <2>2 DEF Resting
    <2> QED
      BY <1>2, <2>3, <2>4, <2>5, JudgedIs, SweepIdles, EndSweepIs DEF Knows
  <1>6. CASE SweepLitter(w)
    <2>1. PICK a : a = [s EXCEPT !.pc = "unfileLitter"]
      OBVIOUS
    <2>2. SweepBecomes(w, EndSweep("nothing")) \/ SweepBecomes(w, a)
      BY <1>1, <1>6, <2>1, Zenon DEF SweepLitter
    <2>3. a.pc = "unfileLitter"
      BY <1>2, <2>1 DEF Resting
    <2> QED
      BY <2>2, <2>3, SweepIdles, EndSweepIs
  <1>7. CASE SweepForeign(w)
    <2>1. PICK a : a = [s EXCEPT !.pc = "unfile", !.todo = s.found]
      OBVIOUS
    <2>2. SweepBecomes(w, EndSweep("foreign")) \/ SweepBecomes(w, a)
      BY <1>1, <1>7, <2>1, Zenon DEF SweepForeign
    <2>3. a.pc = "unfile"
      BY <1>2, <2>1 DEF Resting
    <2> QED
      BY <2>2, <2>3, SweepIdles, EndSweepIs
  <1>8. CASE SweepUnfile(w)
    <2>1. PICK next \in {"unfile", "litter"} :
             \/ SweepBecomes(w, EndSweep("unfiled"))
             \/ \E p : SweepBecomes(w, [s EXCEPT !.pc = next, !.todo = @ \ {p}])
      BY <1>1, <1>8, Zenon DEF SweepUnfile
    <2>2. ASSUME NEW p, SweepBecomes(w, [s EXCEPT !.pc = next, !.todo = @ \ {p}])
          PROVE  \E t : SweepBecomes(w, t) /\ SweepInv(w, t)' /\ Idles(t)
      <3>1. PICK a : a = [s EXCEPT !.pc = next, !.todo = @ \ {p}]
        OBVIOUS
      <3>2. a.pc = next
        BY <1>2, <3>1 DEF Resting
      <3> QED
        BY <2>2, <3>1, <3>2, SweepIdles
    <2> QED
      BY <2>1, <2>2, EndSweepIs
  <1> QED
    BY <1>4, <1>5, <1>6, <1>7, <1>8

(* What a sweep goes on as once it removed the row, or found it gone.      *)
LEMMA RemovedIs ==
    ASSUME NEW w, NEW s, DOMAIN s = DOMAIN Resting, NEW t, t \in {Removed(s), NotRemoved(s)}
    PROVE  SweepInv(w, t)' /\ Idles(t)
  <1>1. PICK todo : todo = PurgePointers(s)
    OBVIOUS
  <1>2. PICK a, b : a = [s EXCEPT !.pc = "unfile", !.todo = todo] /\ b = [s EXCEPT !.pc = "filePurge"]
    OBVIOUS
  <1>3. t = a \/ t = b \/ (\E result : t = EndSweep(result))
    BY <1>1, <1>2, Zenon DEF Removed, NotRemoved
  <1>4. a.pc = "unfile" /\ b.pc = "filePurge"
    BY <1>2 DEF Resting
  <1> QED
    BY <1>3, <1>4, SweepIdles, EndSweepIs

(* The steps of a purge.                                                   *)
LEMMA PurgesGoOn ==
    ASSUME IInv, PInv, NEW w \in Sweepers,
           FullyReclaimed(w) \/ SweepCollected(w) \/ RemoveRow(w) \/ RemoveAsk(w)
    PROVE  \E t : SweepBecomes(w, t) /\ SweepInv(w, t)' /\ t.pc # "drop"
  <1>1. PICK s : s = sweep[w]
    OBVIOUS
  <1>2. DOMAIN s = DOMAIN Resting /\ SweepInv(w, s)
    BY <1>1 DEF IInv, SweepFine, PInv
  <1>3. PICK a, b, c : /\ a = [s EXCEPT !.pc = "remove"] /\ b = [s EXCEPT !.pc = "collect"]
                       /\ c = [s EXCEPT !.pc = "removeAsk"]
    OBVIOUS
  <1>4. PICK gone, there : gone = Removed(s) /\ there = NotRemoved(s)
    OBVIOUS
  <1>5. /\ s.pc \in {"reclaimed", "collect", "remove", "removeAsk"}
        /\ \/ \E t \in {a, b, c, gone, there} : SweepBecomes(w, t)
           \/ SweepBecomes(w, EndSweep("notEmpty"))
    <2>1. CASE FullyReclaimed(w)
      <3>1. s.pc = "reclaimed" /\ (SweepBecomes(w, a) \/ SweepBecomes(w, b))
        BY <1>1, <1>3, <2>1, Zenon DEF FullyReclaimed
      <3> QED
        BY <3>1
    <2>2. CASE SweepCollected(w)
      <3>1. s.pc = "collect" /\ (SweepBecomes(w, a) \/ SweepBecomes(w, EndSweep("notEmpty")))
        BY <1>1, <1>3, <2>2, Zenon DEF SweepCollected
      <3> QED
        BY <3>1
    <2>3. CASE RemoveRow(w)
      <3>1. s.pc = "remove" /\ (SweepBecomes(w, gone) \/ SweepBecomes(w, there) \/ SweepBecomes(w, c))
        BY <1>1, <1>3, <1>4, <2>3, Zenon DEF RemoveRow
      <3> QED
        BY <3>1
    <2>4. CASE RemoveAsk(w)
      <3>1. s.pc = "removeAsk" /\ (SweepBecomes(w, gone) \/ SweepBecomes(w, there))
        BY <1>1, <1>4, <2>4, Zenon DEF RemoveAsk
      <3> QED
        BY <3>1
    <2> QED
      BY <2>1, <2>2, <2>3, <2>4
  <1>6. \A t \in {a, b, c} : SweepInv(w, t)' /\ t.pc # "drop"
    BY <1>2, <1>3, <1>5, SweepGoesBy
  <1>7. \A t \in {gone, there} : SweepInv(w, t)' /\ t.pc # "drop"
    BY <1>2, <1>4, RemovedIs DEF Idles
  <1> QED
    BY <1>5, <1>6, <1>7, EndSweepIs DEF Idles

(* The steps after a retirement.  What it removes at once is the tombstone *)
(* it wrote.                                                               *)
LEMMA RetirementsGoOn ==
    ASSUME IInv, PInv, UNCHANGED <<row, removals>>, NEW w \in Sweepers,
           AfterFault(w) \/ ForgetDue(w) \/ RetiredEmpty(w) \/ FilePurge(w)
    PROVE  \E t : SweepBecomes(w, t) /\ SweepInv(w, t)' /\ t.pc # "drop"
  <1>1. PICK s : s = sweep[w]
    OBVIOUS
  <1>2. DOMAIN s = DOMAIN Resting /\ SweepInv(w, s)
    BY <1>1 DEF IInv, SweepFine, PInv
  <1>3. PICK a : a = [s EXCEPT !.pc = "filePurge"]
    OBVIOUS
  <1>4. SweepInv(w, a)' /\ a.pc # "drop"
    <2>1. a.pc = "filePurge"
      BY <1>2, <1>3 DEF Resting
    <2> QED
      BY <2>1, SweepIdles DEF Idles
  <1>5. CASE AfterFault(w)
    <2>1. SweepBecomes(w, a) \/ SweepBecomes(w, EndSweep("skipped"))
      BY <1>1, <1>3, <1>5, Zenon DEF AfterFault
    <2> QED
      BY <1>4, <2>1, EndSweepIs DEF Idles
  <1>6. CASE ForgetDue(w)
    <2>1. PICK pc \in {"empty", "filePurge"} : SweepBecomes(w, [s EXCEPT !.pc = pc, !.todo = {}])
      BY <1>1, <1>6, Zenon DEF ForgetDue
    <2>2. PICK t : t = [s EXCEPT !.pc = pc, !.todo = {}]
      OBVIOUS
    <2>3. t.pc = pc /\ t.purge = s.purge /\ t.now = s.now
      BY <1>2, <2>2 DEF Resting
    <2>4. s.pc = "forget"
      BY <1>1, <1>6 DEF ForgetDue
    <2>5. PICK token : Stands(token, s.now) /\ token.write[1] = w /\ ~s.purge
      BY <1>2, <2>4 DEF SweepInv
    <2>6. Stands(token, s.now)'
      BY <2>5 DEF Stands
    <2>7. SweepInv(w, t)'
      BY <2>3, <2>5, <2>6 DEF SweepInv
    <2> QED
      BY <2>1, <2>2, <2>3, <2>7
  <1>7. CASE RetiredEmpty(w)
    <2>1. PICK b : b = [s EXCEPT !.pc = "remove", !.rec = row]
      OBVIOUS
    <2>2. s.pc = "empty" /\ (SweepBecomes(w, a) \/ SweepBecomes(w, b))
      BY <1>1, <1>3, <1>7, <2>1, Zenon DEF RetiredEmpty
    <2>3. PICK token : Stands(token, s.now) /\ token.write[1] = w /\ ~s.purge
      BY <1>2, <2>2 DEF SweepInv
    <2>4. b.pc = "remove" /\ b.purge = s.purge /\ b.rec = row
      BY <1>2, <2>1 DEF Resting
    <2>5. SweepInv(w, b)'
      BY <2>3, <2>4 DEF SweepInv, Stands
    <2> QED
      BY <1>4, <2>2, <2>4, <2>5
  <1>8. CASE FilePurge(w)
    BY <1>8, EndSweepIs DEF FilePurge, Idles
  <1> QED
    BY <1>5, <1>6, <1>7, <1>8

(* A retirement that begins.                                               *)
LEMMA RetirementBegins ==
    ASSUME IInv, PInv, TombstonesStay, NEW w \in Sweepers, StepOf(w), Reread(w)
    PROVE  PInv' /\ RowMoves
  <1>1. PICK s : s = sweep[w]
    OBVIOUS
  <1>2. DOMAIN s = DOMAIN Resting /\ s.pc = "reread"
    BY <1>1 DEF IInv, SweepFine, Reread
  <1>3. PICK a, c : /\ a = [s EXCEPT !.pc = "drop", !.live = row]
                    /\ c = [IdleDrop EXCEPT !.pc = "read", !.kind = "retire", !.now = s.now,
                                            !.writes = drop[w].writes]
    OBVIOUS
  <1>4. \/ SweepBecomes(w, a) /\ DropBecomes(w, c)
        \/ SweepBecomes(w, EndSweep("policyChanged")) /\ drop' = drop
    BY <1>1, <1>3, Zenon DEF Reread
  <1>5. CASE SweepBecomes(w, a) /\ DropBecomes(w, c)
    <2>1. a.pc = "drop" /\ a.now = s.now
      BY <1>2, <1>3 DEF Resting
    <2>2. c.pc = "read" /\ c.sent = {} /\ c.result = "none" /\ c.now = s.now
      BY <1>3 DEF IdleDrop
    <2>3. sweep'[w] = a /\ drop'[w] = c /\ \A d \in Droppers \cup Sweepers : d # w => drop'[d] = drop[d]
      BY <1>5 DEF SweepBecomes, DropBecomes, IInv, Typed
    <2>4. CallSent(w, c, MarkOf(w))' /\ CallDead(c)' /\ CallTold(c)' /\ Retires(w, c)'
      BY <2>1, <2>2, <2>3 DEF CallSent, CallDead, CallTold, Settled, Retires
    <2>5. CallInv(w, drop[w])'
      BY <2>1, <2>3, <2>4 DEF CallInv
    <2>6. SweepInv(w, a)'
      BY <2>1 DEF SweepInv
    <2> QED
      BY <1>5, <2>3, <2>5, <2>6, SweepMoves
  <1>6. CASE SweepBecomes(w, EndSweep("policyChanged")) /\ drop' = drop
    BY <1>1, <1>2, <1>6, EndSweepIs, SweepGoesOn DEF Idles
  <1> QED
    BY <1>4, <1>5, <1>6

(* One whose end is taken up: what it wrote stands.                        *)
LEMMA RetirementEnds ==
    ASSUME IInv, PInv, TombstonesStay, NEW w \in Sweepers, StepOf(w), UNCHANGED <<row, removals>>,
           SweepDropped(w)
    PROVE  PInv' /\ RowMoves
  <1>1. PICK s, d : s = sweep[w] /\ d = drop[w]
    OBVIOUS
  <1>2. DOMAIN s = DOMAIN Resting /\ s.pc = "drop" /\ d.pc = "ended"
    BY <1>1 DEF IInv, SweepFine, SweepDropped
  <1>3. PICK todo : todo = IF d.any \/ d.remaining # {} THEN {"held"} ELSE {}
    OBVIOUS
  <1>4. PICK writes : writes = d.writes
    OBVIOUS
  <1>5. PICK a, b, c, e : /\ a = EndSweep("policyChanged") /\ b = [s EXCEPT !.pc = "fault"]
                          /\ c = [s EXCEPT !.pc = "forget", !.purge = FALSE, !.todo = todo]
                          /\ e = [IdleDrop EXCEPT !.writes = writes]
    OBVIOUS
  <1>6. /\ DropBecomes(w, e)
        /\ \/ SweepBecomes(w, a) \/ SweepBecomes(w, b)
           \/ SweepBecomes(w, c) /\ d.result # "null" /\ d.result # "error"
    BY <1>1, <1>3, <1>4, <1>5, Zenon DEF SweepDropped
  <1>7. PICK t : /\ SweepBecomes(w, t) /\ t \in {a, b, c}
                 /\ t = c => (d.result # "null" /\ d.result # "error") \/ c = a \/ c = b
    BY <1>6
  <1>8. b.pc = "fault" /\ c.pc = "forget" /\ c.purge = FALSE /\ c.now = s.now /\ a.pc = "ended"
    BY <1>2, <1>5 DEF Resting, EndSweep
  <1>9. SweepInv(w, t)' /\ t.pc # "drop"
    <2>1. CASE t \in {a, b}
      BY <1>8, <2>1, SweepIdles DEF Idles
    <2>2. CASE t = c
      <3>1. d.result # "null" /\ d.result # "error"
        BY <1>7, <1>8, <2>2
      <3>2. CallInv(w, d)
        BY <1>1 DEF PInv
      <3>3. d.result = "done"
        BY <1>2, <3>1, <3>2 DEF CallInv, CallTold
      <3>4. PICK x \in d.sent : x.token.write \in landed
        BY <1>1, <1>2, <3>2, <3>3 DEF CallInv, Retires, Settled
      <3>5. Stands(x.token, s.now) /\ x.token.write[1] = w
        BY <1>1, <3>2, <3>4 DEF CallInv, CallSent, MarkOf
      <3>6. Stands(x.token, s.now)'
        BY <3>5 DEF Stands
      <3> QED
        BY <1>8, <2>2, <3>5, <3>6 DEF SweepInv
    <2> QED
      BY <1>7, <2>1, <2>2
  <1>10. e.pc = "start" /\ e.sent = {} /\ e.result = "none"
    BY <1>5 DEF IdleDrop
  <1>11. sweep'[w] = t /\ drop'[w] = e /\ \A v \in Droppers \cup Sweepers : v # w => drop'[v] = drop[v]
    BY <1>6, <1>7 DEF SweepBecomes, DropBecomes, IInv, Typed
  <1>12. CallSent(w, e, MarkOf(w))' /\ CallDead(e)' /\ CallTold(e)'
    BY <1>10 DEF CallSent, CallDead, CallTold, Settled
  <1>13. CallInv(w, drop[w])'
    BY <1>9, <1>10, <1>11, <1>12 DEF CallInv
  <1> QED
    BY <1>7, <1>9, <1>11, <1>13, SweepMoves

(* Every step of a sweep.                                                  *)
LEMMA SweepKeepsAll ==
    ASSUME IInv, PInv, TombstonesStay, SweepsInTime, NEW w \in Sweepers, SweepStep(w)
    PROVE  PInv' /\ RowMoves
  <1>1. PICK s : s = sweep[w]
    OBVIOUS
  <1>2. Other \notin Droppers \cup Sweepers
    BY RetentionAssumption
  <1>3. CASE SweepDrops(w)
    BY <1>3, CallKeeps DEF SweepDrops, Acts
  <1>4. CASE SweepCollects(w)
    <2>1. UNCHANGED <<row, inflight, landed, removals, drop, sweep>>
      BY <1>4, Zenon DEF SweepCollects, PassReadRow, PassList, PassReadAgain, PassCheck, PassDelete,
                         PassSettle, loadVars, segment
    <2>2. StepOf(Other)
      BY <2>1, RestIsStep
    <2> QED
      BY <1>2, <2>1, <2>2, OthersKeep
  <1>5. CASE RemoveRow(w)
    <2>1. StepOf(w)
      BY <1>5, RemoveIsStep
    <2>2. PICK t : SweepBecomes(w, t) /\ SweepInv(w, t)' /\ t.pc # "drop"
      BY <1>5, PurgesGoOn
    <2>3. s.pc = "remove" /\ drop' = drop
      BY <1>1, <1>5, Zenon DEF RemoveRow
    <2> QED
      BY <1>1, <2>1, <2>2, <2>3, SweepGoesOn
  <1>6. CASE \/ BeginSweeping(w)
             \/ ScanRow(w) \/ ScanPointers(w) \/ SweepLitter(w) \/ SweepForeign(w) \/ SweepUnfile(w)
             \/ FullyReclaimed(w) \/ SweepCollected(w) \/ RemoveAsk(w)
             \/ Reread(w) \/ SweepDropped(w)
             \/ AfterFault(w) \/ ForgetDue(w) \/ RetiredEmpty(w) \/ FilePurge(w)
    <2>1. UNCHANGED <<row, inflight, landed, removals>>
      BY <1>6, Zenon DEF BeginSweeping, ScanRow, ScanPointers, SweepLitter, SweepForeign, SweepUnfile,
                         FullyReclaimed, SweepCollected, RemoveAsk, Reread, SweepDropped,
                         AfterFault, ForgetDue, RetiredEmpty, FilePurge, segment
    <2>2. StepOf(w)
      BY <2>1, RestIsStep
    <2>3. CASE Reread(w) \/ SweepDropped(w)
      BY <2>1, <2>2, <2>3, RetirementBegins, RetirementEnds
    <2>4. CASE BeginSweeping(w)
      <3>1. PICK pc \in {"pointers", "row"} : SweepBecomes(w, [Resting EXCEPT !.pc = pc, !.now = clock])
        BY <2>4, Zenon DEF BeginSweeping
      <3>2. PICK t : t = [Resting EXCEPT !.pc = pc, !.now = clock]
        OBVIOUS
      <3>3. t.pc = pc
        BY <3>2 DEF Resting
      <3>4. SweepInv(w, t)' /\ t.pc # "drop"
        BY <3>3, SweepIdles DEF Idles
      <3>5. drop' = drop /\ sweep[w].pc # "drop"
        BY <2>4 DEF BeginSweeping, Sweeping
      <3> QED
        BY <2>2, <3>1, <3>2, <3>4, <3>5, SweepGoesOn
    <2>5. CASE \/ ScanRow(w) \/ ScanPointers(w) \/ SweepLitter(w) \/ SweepForeign(w) \/ SweepUnfile(w)
               \/ FullyReclaimed(w) \/ SweepCollected(w) \/ RemoveAsk(w)
               \/ AfterFault(w) \/ ForgetDue(w) \/ RetiredEmpty(w) \/ FilePurge(w)
      <3>1. PICK t : SweepBecomes(w, t) /\ SweepInv(w, t)' /\ t.pc # "drop"
        BY <2>1, <2>5, ScansGoOn, PurgesGoOn, RetirementsGoOn DEF Idles
      <3>2. drop' = drop
        BY <2>5, Zenon DEF ScanRow, ScanPointers, SweepLitter, SweepForeign, SweepUnfile, FullyReclaimed,
                           SweepCollected, RemoveAsk, AfterFault, ForgetDue, RetiredEmpty, FilePurge
      <3>3. \E pc \in {"row", "pointers", "litter", "foreign", "unfile", "unfileLitter", "reclaimed",
                       "collect", "removeAsk", "fault", "forget", "empty", "filePurge"} : s.pc = pc
        BY <1>1, <2>5, Zenon DEF ScanRow, ScanPointers, SweepLitter, SweepForeign, SweepUnfile,
                           FullyReclaimed, SweepCollected, RemoveAsk, AfterFault, ForgetDue, RetiredEmpty,
                           FilePurge
      <3>4. sweep[w].pc # "drop"
        BY <1>1, <3>3
      <3> QED
        BY <2>2, <3>1, <3>2, <3>4, SweepGoesOn
    <2> QED
      BY <1>6, <2>3, <2>4, <2>5
  <1> QED
    BY <1>3, <1>4, <1>5, <1>6 DEF SweepStep

-----------------------------------------------------------------------------
(* The whole.                                                              *)

(* Nothing was written before the first step.                              *)
LEMMA PurgeInit == Init => PInv
  <1> SUFFICES ASSUME Init
               PROVE  PInv
    OBVIOUS
  <1>1. /\ removals = {}
        /\ drop = [d \in Droppers \cup Sweepers |-> IdleDrop]
        /\ sweep = [w \in Sweepers |-> Resting]
    BY DEF Init, DropInit
  <1>2. IdleDrop.pc = "start" /\ IdleDrop.sent = {} /\ IdleDrop.result = "none"
    BY DEF IdleDrop
  <1>3. Resting.pc \notin {"drop", "forget", "empty", "reclaimed", "collect", "remove", "removeAsk"}
    BY DEF Resting
  <1>4. \A d \in Droppers \cup Sweepers : CallInv(d, drop[d])
    BY <1>1, <1>2, <1>3 DEF CallInv, CallSent, CallDead, CallTold, Settled
  <1>5. \A w \in Sweepers : SweepInv(w, sweep[w])
    BY <1>1, <1>3 DEF SweepInv
  <1> QED
    BY <1>1, <1>4, <1>5 DEF PInv, RemovalInv

(* Every step keeps the invariant, while no sweep outlasts the grace; and  *)
(* the row goes only if it may.                                            *)
LEMMA PurgeNext ==
    ASSUME IInv, PInv, SweepsInTime, [Next]_retentionVars
    PROVE  PInv' /\ RowMoves
  <1>0. TombstonesStay
    BY NextFine DEF RowStep
  <1>1. Other \notin Droppers \cup Sweepers
    BY RetentionAssumption
  <1>2. CASE UNCHANGED retentionVars
    <2>1. UNCHANGED <<row, inflight, landed, removals, drop, sweep>>
      BY <1>2 DEF retentionVars, loadVars, segment
    <2>2. StepOf(Other)
      BY <2>1, RestIsStep
    <2> QED
      BY <1>0, <1>1, <2>1, <2>2, OthersKeep
  <1>3. ASSUME NEW p \in Loaders \cap cast,
               (LoadStep(p) \/ Abandon(p)) /\ UNCHANGED <<pass, drop, faults, besideSegment>>
        PROVE  PInv' /\ RowMoves
    <2>1. removals' = removals /\ drop' = drop /\ sweep' = sweep
      BY <1>3 DEF besideSegment
    <2>2. StepOf(p)
      BY <1>3, <2>1, LoadIsStep
    <2>3. p \notin Droppers \cup Sweepers
      BY DropAssumption, RetentionAssumption
    <2> QED
      BY <1>0, <2>1, <2>2, <2>3, OthersKeep
  <1>4. ASSUME NEW d \in Droppers \cap cast, DropStep(d) /\ UNCHANGED <<pass, besideSegment>>
        PROVE  PInv' /\ RowMoves
    <2>1. UNCHANGED <<removals, sweep>>
      BY <1>4 DEF besideSegment
    <2>2. Acts(d)
      BY DropAssumption DEF Acts
    <2> QED
      BY <1>0, <1>4, <2>1, <2>2, CallKeeps
  <1>5. ASSUME NEW s \in Setters \cap cast, SetStep(s)
        PROVE  PInv' /\ RowMoves
    <2>1. StepOf(s) /\ drop' = drop /\ sweep' = sweep
      BY <1>5, SetIsStep
    <2>2. s \notin Droppers \cup Sweepers
      BY RetentionAssumption
    <2> QED
      BY <1>0, <2>1, <2>2, OthersKeep
  <1>6. ASSUME NEW w \in Sweepers \cap cast, SweepStep(w)
        PROVE  PInv' /\ RowMoves
    BY <1>0, <1>6, SweepKeepsAll
  <1>7. ASSUME NEW g \in Gens, TakeLease(g) \/ ReleaseLease(g),
               UNCHANGED <<load, pass, drop, faults, besideSegment>>
        PROVE  PInv' /\ RowMoves
    <2>1. removals' = removals /\ drop' = drop /\ sweep' = sweep
      BY <1>7 DEF besideSegment
    <2>2. StepOf(Other)
      BY <1>7, <2>1, LeaseIsStep
    <2> QED
      BY <1>0, <1>1, <2>1, <2>2, OthersKeep
  <1>8. CASE LateWrite /\ UNCHANGED <<load, pass, drop, faults, besideSegment>>
    <2>1. removals' = removals /\ drop' = drop /\ sweep' = sweep
      BY <1>8 DEF besideSegment
    <2>2. StepOf(Other)
      BY <1>8, <2>1, LateIsStep
    <2> QED
      BY <1>0, <1>1, <2>1, <2>2, OthersKeep
  <1>9. ASSUME NEW t \in removals, RemovalArrives(t)
        PROVE  PInv' /\ RowMoves
    <2>1. drop' = drop /\ sweep' = sweep
      BY <1>9 DEF RemovalArrives
    <2>2. StepOf(Other)
      BY <1>9, RemovalIsStep
    <2> QED
      BY <1>0, <1>1, <2>1, <2>2, OthersKeep
  <1>10. CASE Tick
    <2>1. UNCHANGED <<row, inflight, landed, removals, drop, sweep>>
      BY <1>10 DEF Tick, loadVars, segment
    <2>2. StepOf(Other)
      BY <2>1, RestIsStep
    <2> QED
      BY <1>0, <1>1, <2>1, <2>2, OthersKeep
  <1> QED
    BY <1>2, <1>3, <1>4, <1>5, <1>6, <1>7, <1>8, <1>9, <1>10 DEF Next

(* The invariant holds throughout, as long as no sweep outlasts the grace. *)
THEOREM PurgeInvariance == Spec /\ []SweepsInTime => []PInv
  <1>1. IInv /\ PInv /\ SweepsInTime /\ [Next]_retentionVars => PInv'
    BY PurgeNext
  <1> QED
    BY <1>1, Invariance, PurgeInit, PTL DEF Spec

(* A row that goes is a tombstone a sweep wrote (purgeTombstone, and       *)
(* retireLive of a segment that held nothing, retention-sweep.ts): what a  *)
(* shred or a drop attests to stays, whatever policy or mark the row came  *)
(* with and however late a removal arrives - as long as no sweep is so     *)
(* slow over a retirement that its own tombstone's grace passes meanwhile. *)
THEOREM AttestationsStayHolds == Spec /\ []SweepsInTime => AttestationsStay
  <1>1. IInv /\ PInv /\ SweepsInTime /\ [Next]_retentionVars
        => [row # NoRow /\ row' = NoRow =>
              /\ row.status = "destroyed"
              /\ row.pointerId.write[1] \in Sweepers]_retentionVars
    BY PurgeNext DEF RowMoves, Removable
  <1> QED
    BY <1>1, Invariance, PurgeInvariance, PTL DEF Spec, AttestationsStay

(* A shred, a drop or a retirement that ends (shredSegment, erasure.ts)    *)
(* says that it discarded the key exactly when one of its own writes over  *)
(* an encrypted row landed: however each was answered, whichever was       *)
(* asked after, and whoever else wrote the row or made it a tombstone.     *)
THEOREM ShredIsToldHolds == Spec /\ []SweepsInTime => []ShredIsTold
  <1>1. IInv /\ PInv => ShredIsTold
    <2> SUFFICES ASSUME IInv, PInv, NEW d \in Droppers \cup Sweepers, drop[d].result = "done"
                 PROVE  drop[d].crypto = \E t \in drop[d].sent : t.encrypted /\ t.token.write \in landed
      BY DEF ShredIsTold, IInv, Typed
    <2>1. PICK s : s = drop[d]
      OBVIOUS
    <2>2. CallTold(s) /\ Settled(s)
      BY <2>1 DEF PInv, CallInv, Settled
    <2>3. s.crypto \in BOOLEAN /\ (s.crypto <=> Discarded(s))
      BY <2>2 DEF CallTold
    <2>4. PICK yes \in BOOLEAN : yes = \E t \in s.sent : t.encrypted /\ t.token.write \in landed
      OBVIOUS
    <2>5. s.crypto = yes
      BY <2>3, <2>4 DEF Discarded
    <2> QED
      BY <2>1, <2>4, <2>5, Zenon
  <1> QED
    BY <1>1, Invariance, PurgeInvariance, PTL

-----------------------------------------------------------------------------
(***************************************************************************)
(* Proofs about what a purge leaves behind: a sweep makes up its mind to   *)
(* remove a row only when nothing is listed under it, and from then on, as *)
(* long as the tombstone stands, what loads put there they hold.           *)
(***************************************************************************)

(* A retirement that deleted nothing and found nothing remaining.          *)
FoundNothing(d) == d.result = "done" /\ ~d.any /\ d.remaining = {}

(* The sweep s, whose call is d, is to remove the row x without another    *)
(* look at the bucket.                                                     *)
Empties(s, d, x) ==
    \/ s.pc = "drop" /\ FoundNothing(d)
    \/ s.pc = "forget" /\ s.todo = {}
    \/ s.pc = "empty"
    \/ s.pc = "remove" /\ x # NoRow /\ x.token = s.rec.token

(* Without a row there are the objects of someone gone and what loads      *)
(* hold; under a row about to be removed, only what loads hold.            *)
LeftInv ==
    /\ row = NoRow => HeldBut({Stray})
    /\ row # NoRow /\ row.token \in removals => HeldByLoads
    /\ \A w \in Sweepers : Empties(sweep[w], drop[w], row) => HeldByLoads

-----------------------------------------------------------------------------
(* What holds while the row stays as it is.                                *)

(* A row a sweep is to remove is a tombstone.                              *)
LEMMA EmptiesEntombed ==
    ASSUME IInv, PInv, NEW w \in Sweepers, Empties(sweep[w], drop[w], row)
    PROVE  Entombed
  <1>1. PICK s, d : s = sweep[w] /\ d = drop[w]
    OBVIOUS
  <1>2. SweepInv(w, s) /\ CallInv(w, d) /\ Knows(s.rec, row, landed)
    BY <1>1 DEF PInv, IInv, SweepFine
  <1>3. CASE s.pc = "drop" /\ FoundNothing(d)
    <2>1. PICK t \in d.sent : t.token.write \in landed
      BY <1>1, <1>2, <1>3 DEF CallInv, Retires, Settled, FoundNothing
    <2> QED
      BY <1>2, <2>1 DEF CallInv, CallSent, Stands, Entombed
  <1>4. CASE s.pc \in {"forget", "empty"}
    BY <1>2, <1>4 DEF SweepInv, Stands, Entombed
  <1>5. CASE s.pc = "remove" /\ row # NoRow /\ row.token = s.rec.token
    BY <1>2, <1>5 DEF SweepInv, Knows, Entombed
  <1> QED
    BY <1>1, <1>3, <1>4, <1>5 DEF Empties

(* What only loads hold under a tombstone, only they hold after any step.  *)
LEMMA LeftStays ==
    ASSUME IInv, DropInv, TombstonesStay, Turned, Entombed, HeldByLoads
    PROVE  HeldByLoads'
  <1>1. Closed /\ landed' = landed
    BY DEF Closed, TombstonesStay, Entombed
  <1> QED
    BY <1>1, HeldStays DEF HeldByLoads

(* A row that may go is a tombstone under which only loads hold objects.   *)
LEMMA CondemnedIsLeft ==
    ASSUME LeftInv, Condemned, Removable, row # NoRow
    PROVE  Entombed /\ HeldByLoads
  BY DEF LeftInv, Condemned, Removable, Empties, Entombed

(* So that much goes on to hold of a name whose row went or is to go.      *)
LEMMA RowLeft ==
    ASSUME IInv, DropInv, PInv, LeftInv, TombstonesStay, Turned, RowMoves
    PROVE  /\ row' = NoRow => HeldBut({Stray})'
           /\ row' # NoRow /\ row'.token \in removals' => HeldByLoads'
  <1>1. ASSUME row' = NoRow
        PROVE  HeldBut({Stray})'
    <2>1. landed' = landed
      BY <1>1 DEF RowMoves
    <2>2. CASE row = NoRow
      <3>1. Closed /\ HeldBut({Stray})
        BY <1>1, <2>2 DEF Closed, LeftInv
      <3> QED
        BY <2>1, <3>1, HeldStays
    <2>3. CASE row # NoRow
      <3>1. Entombed /\ HeldByLoads
        BY <1>1, <2>3, CondemnedIsLeft DEF RowMoves
      <3>2. HeldByLoads'
        BY <3>1, LeftStays
      <3> QED
        BY <3>2 DEF HeldByLoads, HeldBut
    <2> QED
      BY <2>2, <2>3
  <1>2. ASSUME row' # NoRow, row'.token \in removals'
        PROVE  HeldByLoads'
    <2>1. CASE row'.token \in removals
      <3>1. row'.token.write \in landed
        BY <2>1 DEF PInv, RemovalInv
      <3>2. row' = row
        BY <1>2, <3>1 DEF RowMoves
      <3>3. Entombed /\ HeldByLoads
        BY <1>2, <2>1, <3>2 DEF PInv, RemovalInv, LeftInv, Entombed
      <3> QED
        BY <3>3, LeftStays
    <2>2. CASE row'.token \notin removals
      <3>1. row' = row /\ Removable /\ Condemned
        BY <1>2, <2>2 DEF RowMoves
      <3>2. Entombed /\ HeldByLoads
        BY <1>2, <3>1, CondemnedIsLeft
      <3> QED
        BY <3>2, LeftStays
    <2> QED
      BY <2>1, <2>2
  <1> QED
    BY <1>1, <1>2

(* A sweep that does not step and is to remove the row was to before.      *)
LEMMA EmptiesStays ==
    ASSUME IInv, PInv, RowMoves, NEW w \in Sweepers, Empties(sweep[w], drop[w], row')
    PROVE  Empties(sweep[w], drop[w], row)
  <1>1. PICK s : s = sweep[w]
    OBVIOUS
  <1>2. CASE s.pc = "remove" /\ row' # NoRow /\ row'.token = s.rec.token
    <2>1. SweepInv(w, s) /\ Knows(s.rec, row, landed)
      BY <1>1 DEF PInv, IInv, SweepFine
    <2>2. row'.token.write \in landed
      BY <1>2, <2>1 DEF SweepInv, Knows, RowFine
    <2>3. row' = row
      BY <1>2, <2>2 DEF RowMoves
    <2> QED
      BY <1>1, <1>2, <2>3 DEF Empties
  <1> QED
    BY <1>1, <1>2 DEF Empties

-----------------------------------------------------------------------------
(* A retirement says that it found nothing only when nothing is listed.    *)

(* Where it goes once its shred is settled it is not done.                 *)
LEMMA RetirementLists ==
    ASSUME NEW s, DOMAIN s = DOMAIN IdleDrop, s.result = "none", s.kind = "retire", NEW destroyed,
           NEW crypto, NEW reason, NEW tombstone
    PROVE  AfterShred(s, destroyed, crypto, reason, tombstone).result = "none"
  <1>1. PICK a : a = [s EXCEPT !.destroyed = destroyed, !.crypto = crypto, !.reason = reason,
                               !.tombstone = tombstone, !.rec = NoRow, !.lost = NoRow]
    OBVIOUS
  <1>2. DOMAIN a = DOMAIN IdleDrop /\ a.result = "none"
    BY <1>1 DEF IdleDrop
  <1>3. PICK t : t = AfterShred(s, destroyed, crypto, reason, tombstone)
    OBVIOUS
  <1>4. t = [a EXCEPT !.pc = "orphans"] \/ t = [a EXCEPT !.pc = "list"]
    BY <1>1, <1>3, Zenon DEF AfterShred
  <1>5. t.result = "none"
    BY <1>2, <1>4 DEF IdleDrop
  <1> QED
    BY <1>3, <1>5

(* Nor is it once it decided on the row.                                   *)
LEMMA RetirementDecides ==
    ASSUME NEW s, DOMAIN s = DOMAIN IdleDrop, s.result = "none", s.kind = "retire"
    PROVE  Decided(s).result \in {"none", "null"}
  <1>1. PICK t : t = Decided(s)
    OBVIOUS
  <1>2. PICK r : r = s.rec
    OBVIOUS
  <1>3. PICK a, b : a = [s EXCEPT !.pc = "write"] /\ b = EndDrop(s, "null")
    OBVIOUS
  <1>4. \/ \E destroyed, crypto \in BOOLEAN : \E reason, tombstone :
              t = AfterShred(s, destroyed, crypto, reason, tombstone)
        \/ t = a
        \/ t = b
    <2>1. PICK yes, no, own \in BOOLEAN :
             yes = TRUE /\ no = FALSE /\ own = \E u \in OwnShreds(s, r) : u.encrypted
      OBVIOUS
    <2>2. \/ t = AfterShred(s, yes, own, "none", r.token)
          \/ t = b
          \/ t = AfterShred(s, no, no, "absent", None)
          \/ t = AfterShred(s, yes, no, "already", r.token)
          \/ t = AfterShred(s, no, no, "cleartext", None)
          \/ t = a
      BY <1>1, <1>2, <1>3, <2>1, Zenon DEF Decided, AfterOwn
    <2> QED
      BY <2>2
  <1>5. a.result = "none" /\ b.result = "null"
    BY <1>3 DEF EndDrop, IdleDrop
  <1>6. t.result \in {"none", "null"}
    BY <1>4, <1>5, RetirementLists
  <1> QED
    BY <1>1, <1>6

(* Nor when it lost a race.                                                *)
LEMMA RetirementLoses ==
    ASSUME NEW s, DOMAIN s = DOMAIN IdleDrop, s.result = "none", NEW attempts
    PROVE  LostRace(s, attempts).result = "none"
  <1>1. PICK attempt : attempt = IF s.waited THEN s.attempt ELSE s.attempt + 1
    OBVIOUS
  <1>2. PICK b : b = [s EXCEPT !.lost = s.rec, !.waited = FALSE, !.attempt = attempt]
    OBVIOUS
  <1>3. PICK pc \in {"read", "last"} : LostRace(s, attempts) = [b EXCEPT !.pc = pc]
    BY <1>1, <1>2 DEF LostRace
  <1>4. DOMAIN b = DOMAIN IdleDrop /\ b.result = "none"
    BY <1>2 DEF IdleDrop
  <1>5. PICK t : t = [b EXCEPT !.pc = pc]
    OBVIOUS
  <1>6. t.result = "none"
    BY <1>4, <1>5 DEF IdleDrop
  <1> QED
    BY <1>3, <1>5, <1>6

(* A step of a retirement.                                                 *)
LEMMA RetirementTells ==
    ASSUME IInv, PInv, NEW w \in Sweepers, TombstoneStep(w)
    PROVE  \E t : DropBecomes(w, t) /\ (FoundNothing(t) => Listed = {} /\ objects' = objects)
  <1>1. PICK s : s = drop[w]
    OBVIOUS
  <1>2. /\ CallTold(s) /\ DOMAIN s = DOMAIN IdleDrop
        /\ s.pc # "start" => s.kind = "retire"
    BY <1>1 DEF PInv, CallInv, IInv, DropFine
  <1>3. \E pc \in {"read", "write", "ask", "last", "orphans", "list", "delete", "remaining"} : s.pc = pc
    BY <1>1, Zenon DEF TombstoneStep, ShredRead, ShredWrite, ShredAsk, ShredLast, DropList, DropDelete,
                       DropPassEnds, DropRemaining, DropFails
  <1>4. s.result = "none" /\ s.kind = "retire"
    BY <1>2, <1>3 DEF CallTold
  <1>5. PICK error : error = EndDrop(s, "error")
    OBVIOUS
  <1>6. error.result = "error"
    BY <1>5, EndDropIs
  <1>7. CASE ShredRead(w)
    <2>1. PICK a, c : a = [s EXCEPT !.rec = row] /\ c = [s EXCEPT !.waited = TRUE, !.churn = @ + 1]
      OBVIOUS
    <2>2. DOMAIN a = DOMAIN IdleDrop /\ a.result = "none" /\ a.kind = "retire" /\ c.result = "none"
      BY <1>2, <1>4, <2>1 DEF IdleDrop
    <2>3. DropBecomes(w, c) \/ DropBecomes(w, Decided(a))
      BY <1>1, <1>7, <2>1, Zenon DEF ShredRead
    <2>4. PICK t : t = Decided(a)
      OBVIOUS
    <2>5. t.result \in {"none", "null"}
      BY <2>2, <2>4, RetirementDecides
    <2> QED
      BY <2>2, <2>3, <2>4, <2>5 DEF FoundNothing
  <1>8. CASE ShredWrite(w)
    <2>1. PICK u : u = SwapOf(s.rec, TombstonePatch(s), <<w, s.writes + 1>>)
      OBVIOUS
    <2>0. PICK yes, keyed \in BOOLEAN : yes = TRUE /\ keyed = Encrypted(s.rec)
      BY DEF Encrypted
    <2>2. PICK a : a = [s EXCEPT !.writes = @ + 1,
                                 !.sent = @ \cup {[token |-> u.token, encrypted |-> keyed]}]
      OBVIOUS
    <2>3. PICK ask, lost, settled : /\ ask = [a EXCEPT !.pc = "ask"]
                                    /\ lost = LostRace(a, DropAttempts)
                                    /\ settled = AfterShred(a, yes, keyed, "none", u.token)
      OBVIOUS
    <2>4. DropBecomes(w, settled) \/ DropBecomes(w, lost) \/ DropBecomes(w, ask)
      BY <1>1, <1>8, <2>0, <2>1, <2>2, <2>3, Zenon DEF ShredWrite
    <2>5. DOMAIN a = DOMAIN IdleDrop /\ a.result = "none" /\ a.kind = "retire"
      BY <1>2, <1>4, <2>2 DEF IdleDrop
    <2>6. ask.result = "none"
      BY <2>3, <2>5 DEF IdleDrop
    <2>7. lost.result = "none" /\ settled.result = "none"
      BY <2>3, <2>5, RetirementLists, RetirementLoses
    <2> QED
      BY <2>4, <2>6, <2>7 DEF FoundNothing
  <1>9. CASE ShredAsk(w) \/ ShredLast(w)
    <2>0. PICK yes, crypto \in BOOLEAN :
             yes = TRUE /\ crypto = \E u \in OwnShreds(s, row) : u.encrypted
      OBVIOUS
    <2>1. PICK own, lost : /\ own = AfterShred(s, yes, crypto, "none", row.token)
                           /\ lost = LostRace(s, DropAttempts)
      OBVIOUS
    <2>2. DropBecomes(w, own) \/ DropBecomes(w, error) \/ DropBecomes(w, lost)
      BY <1>1, <1>5, <1>9, <2>0, <2>1, Zenon DEF ShredAsk, ShredLast, AfterOwn
    <2>3. own.result = "none" /\ lost.result = "none"
      BY <1>2, <1>4, <2>1, RetirementLists, RetirementLoses
    <2> QED
      BY <1>6, <2>2, <2>3 DEF FoundNothing
  <1>10. CASE DropList(w)
    <2>1. PICK a, b : a = [s EXCEPT !.pc = "remaining"]
                      /\ b = [s EXCEPT !.pc = "delete", !.todo = Listed, !.gone = FALSE]
      OBVIOUS
    <2>2. DropBecomes(w, a) \/ DropBecomes(w, b)
      BY <1>1, <1>10, <2>1, Zenon DEF DropList
    <2>3. a.result = "none" /\ b.result = "none"
      BY <1>2, <1>4, <2>1 DEF IdleDrop
    <2> QED
      BY <2>2, <2>3 DEF FoundNothing
  <1>11. CASE \E g \in drop[w].todo : DropDelete(w, g)
    <2>1. PICK g : DropDelete(w, g)
      BY <1>11
    <2>2. PICK a, b : a = [s EXCEPT !.todo = @ \ {g}, !.gone = TRUE, !.any = TRUE]
                      /\ b = [s EXCEPT !.todo = @ \ {g}]
      OBVIOUS
    <2>3. DropBecomes(w, a) \/ DropBecomes(w, b)
      BY <1>1, <2>1, <2>2, Zenon DEF DropDelete
    <2>4. a.result = "none" /\ b.result = "none"
      BY <1>2, <1>4, <2>2 DEF IdleDrop
    <2> QED
      BY <2>3, <2>4 DEF FoundNothing
  <1>12. CASE DropPassEnds(w)
    <2>1. PICK pc \in {"list", "remaining"} : DropBecomes(w, [s EXCEPT !.passes = @ + 1, !.pc = pc])
      BY <1>1, <1>12, Zenon DEF DropPassEnds
    <2>2. PICK a : a = [s EXCEPT !.passes = @ + 1, !.pc = pc]
      OBVIOUS
    <2>3. a.result = "none"
      BY <1>2, <1>4, <2>2 DEF IdleDrop
    <2> QED
      BY <2>1, <2>2, <2>3 DEF FoundNothing
  <1>13. CASE DropRemaining(w)
    <2>1. PICK a : a = [s EXCEPT !.remaining = Listed]
      OBVIOUS
    <2>2. DropBecomes(w, EndDrop(a, "done")) /\ UNCHANGED loadVars
      BY <1>1, <1>13, <2>1, Zenon DEF DropRemaining
    <2>3. a.remaining = Listed
      BY <1>2, <2>1 DEF IdleDrop
    <2>4. PICK t : t = EndDrop(a, "done")
      OBVIOUS
    <2>5. t.remaining = Listed
      BY <2>3, <2>4 DEF EndDrop, IdleDrop
    <2>6. objects' = objects
      BY <2>2 DEF loadVars, segment
    <2> QED
      BY <2>2, <2>4, <2>5, <2>6 DEF FoundNothing
  <1>14. CASE DropFails(w)
    <2>1. DropBecomes(w, error)
      BY <1>1, <1>5, <1>14, Zenon DEF DropFails
    <2> QED
      BY <1>6, <2>1 DEF FoundNothing
  <1> QED
    BY <1>7, <1>8, <1>9, <1>10, <1>11, <1>12, <1>13, <1>14 DEF TombstoneStep

-----------------------------------------------------------------------------
(* A sweep is to remove a row without another look only from where it was  *)
(* already, or when it finds nothing listed.                               *)

(* A step of w after which it idles.                                       *)
LEMMA IdlesKeeps ==
    ASSUME IInv, NEW w \in Sweepers, NEW t, SweepBecomes(w, t), Idles(t)
    PROVE  ~Empties(sweep'[w], drop'[w], row')
  <1>1. sweep'[w] = t
    BY DEF SweepBecomes, IInv, Typed
  <1> QED
    BY <1>1 DEF Empties, Idles

(* The steps of a purge.                                                   *)
LEMMA PurgeEmpties ==
    ASSUME IInv, NEW w \in Sweepers,
           FullyReclaimed(w) \/ SweepCollected(w) \/ RemoveRow(w) \/ RemoveAsk(w)
    PROVE  Empties(sweep'[w], drop'[w], row') => Listed' = {}
  <1>1. PICK s : s = sweep[w]
    OBVIOUS
  <1>2. DOMAIN s = DOMAIN Resting
    BY <1>1 DEF IInv, SweepFine
  <1>3. CASE FullyReclaimed(w) \/ SweepCollected(w)
    <2>1. PICK b : b = [s EXCEPT !.pc = "collect"]
      OBVIOUS
    <2>2. /\ UNCHANGED segment
          /\ Listed = {} \/ SweepBecomes(w, b) \/ SweepBecomes(w, EndSweep("notEmpty"))
      BY <1>1, <1>3, <2>1, Zenon DEF FullyReclaimed, SweepCollected
    <2>3. Idles(b)
      BY <1>2, <2>1 DEF Idles, Resting
    <2>4. Listed' = Listed
      BY <2>2 DEF Listed, segment
    <2> QED
      BY <2>2, <2>3, <2>4, IdlesKeeps, EndSweepIs
  <1>4. CASE RemoveRow(w) \/ RemoveAsk(w)
    <2>1. PICK c, gone, there : /\ c = [s EXCEPT !.pc = "removeAsk"]
                                /\ gone = Removed(s) /\ there = NotRemoved(s)
      OBVIOUS
    <2>2. SweepBecomes(w, c) \/ SweepBecomes(w, gone) \/ SweepBecomes(w, there)
      BY <1>1, <1>4, <2>1, Zenon DEF RemoveRow, RemoveAsk
    <2>3. Idles(c) /\ Idles(gone) /\ Idles(there)
      BY <1>2, <2>1, RemovedIs DEF Idles, Resting
    <2> QED
      BY <2>2, <2>3, IdlesKeeps
  <1> QED
    BY <1>3, <1>4

(* The steps of a retirement, before and after its call.                   *)
LEMMA RetirementEmpties ==
    ASSUME IInv, PInv, NEW w \in Sweepers,
           \/ Reread(w) \/ SweepDropped(w)
           \/ AfterFault(w) \/ ForgetDue(w) \/ RetiredEmpty(w) \/ FilePurge(w)
    PROVE  Empties(sweep'[w], drop'[w], row') => Empties(sweep[w], drop[w], row)
  <1>1. PICK s, d : s = sweep[w] /\ d = drop[w]
    OBVIOUS
  <1>2. DOMAIN s = DOMAIN Resting /\ DOMAIN sweep = Sweepers /\ DOMAIN drop = Droppers \cup Sweepers
    BY <1>1 DEF IInv, SweepFine, Typed
  <1>3. CASE Reread(w)
    <2>1. PICK a, c : /\ a = [s EXCEPT !.pc = "drop", !.live = row]
                      /\ c = [IdleDrop EXCEPT !.pc = "read", !.kind = "retire", !.now = s.now,
                                              !.writes = d.writes]
      OBVIOUS
    <2>2. \/ SweepBecomes(w, a) /\ DropBecomes(w, c)
          \/ SweepBecomes(w, EndSweep("policyChanged"))
      BY <1>1, <1>3, <2>1, Zenon DEF Reread
    <2>3. a.pc = "drop" /\ c.result = "none"
      BY <1>2, <2>1 DEF Resting, IdleDrop
    <2>4. SweepBecomes(w, a) /\ DropBecomes(w, c) => sweep'[w] = a /\ drop'[w] = c
      BY <1>2 DEF SweepBecomes, DropBecomes
    <2>5. ~Empties(a, c, row')
      BY <2>3 DEF Empties, FoundNothing
    <2> QED
      BY <2>2, <2>4, <2>5, IdlesKeeps, EndSweepIs
  <1>4. CASE SweepDropped(w)
    <2>1. PICK todo : todo = IF d.any \/ d.remaining # {} THEN {"held"} ELSE {}
      OBVIOUS
    <2>2. PICK a, b, c : /\ a = EndSweep("policyChanged") /\ b = [s EXCEPT !.pc = "fault"]
                         /\ c = [s EXCEPT !.pc = "forget", !.purge = FALSE, !.todo = todo]
      OBVIOUS
    <2>3. /\ s.pc = "drop" /\ d.pc = "ended"
          /\ \/ SweepBecomes(w, a) \/ SweepBecomes(w, b)
             \/ SweepBecomes(w, c) /\ d.result # "null" /\ d.result # "error"
      BY <1>1, <1>4, <2>1, <2>2, Zenon DEF SweepDropped
    <2>4. Idles(a) /\ Idles(b) /\ c.pc = "forget" /\ c.todo = todo
      BY <1>2, <2>2, EndSweepIs DEF Idles, Resting
    <2>5. CallTold(d)
      BY <1>1 DEF PInv, CallInv
    <2>6. ASSUME SweepBecomes(w, c), d.result # "null", d.result # "error",
                 Empties(sweep'[w], drop'[w], row')
          PROVE  Empties(s, d, row)
      <3>1. sweep'[w] = c
        BY <1>2, <2>6 DEF SweepBecomes
      <3>2. todo = {}
        BY <2>4, <2>6, <3>1 DEF Empties
      <3>3. FoundNothing(d)
        BY <2>1, <2>3, <2>5, <2>6, <3>2 DEF FoundNothing, CallTold
      <3> QED
        BY <2>3, <3>3 DEF Empties
    <2> QED
      BY <1>1, <2>3, <2>4, <2>6, IdlesKeeps
  <1>5. CASE ForgetDue(w)
    <2>1. PICK pc : pc = IF s.todo = {} THEN "empty" ELSE "filePurge"
      OBVIOUS
    <2>2. PICK t : t = [s EXCEPT !.pc = pc, !.todo = {}]
      OBVIOUS
    <2>3. s.pc = "forget" /\ SweepBecomes(w, t)
      BY <1>1, <1>5, <2>1, <2>2, Zenon DEF ForgetDue
    <2>4. t.pc = pc
      BY <1>2, <2>2 DEF Resting
    <2>5. Idles(t) \/ s.todo = {}
      BY <2>1, <2>4 DEF Idles
    <2> QED
      BY <1>1, <2>3, <2>5, IdlesKeeps DEF Empties
  <1>6. CASE RetiredEmpty(w)
    BY <1>6 DEF RetiredEmpty, Empties
  <1>7. CASE AfterFault(w) \/ FilePurge(w)
    <2>1. PICK a : a = [s EXCEPT !.pc = "filePurge"]
      OBVIOUS
    <2>2. \/ SweepBecomes(w, a) \/ SweepBecomes(w, EndSweep("skipped"))
          \/ SweepBecomes(w, EndSweep("retired"))
      BY <1>1, <1>7, <2>1, Zenon DEF AfterFault, FilePurge
    <2>3. Idles(a)
      BY <1>2, <2>1 DEF Idles, Resting
    <2> QED
      BY <2>2, <2>3, IdlesKeeps, EndSweepIs
  <1> QED
    BY <1>3, <1>4, <1>5, <1>6, <1>7

(* Every step of a sweep.                                                  *)
LEMMA SweepEmpties ==
    ASSUME IInv, PInv, NEW w \in Sweepers, SweepStep(w), Empties(sweep'[w], drop'[w], row')
    PROVE  Listed' = {} \/ Empties(sweep[w], drop[w], row)
  <1>1. CASE SweepDrops(w)
    <2>1. sweep[w].pc = "drop" /\ sweep' = sweep
      BY <1>1 DEF SweepDrops
    <2>2. PICK t : DropBecomes(w, t) /\ (FoundNothing(t) => Listed = {} /\ objects' = objects)
      BY <1>1, RetirementTells DEF SweepDrops
    <2>3. drop'[w] = t
      BY <2>2 DEF DropBecomes, IInv, Typed
    <2>4. FoundNothing(t)
      BY <2>1, <2>3 DEF Empties
    <2> QED
      BY <2>2, <2>4 DEF Listed
  <1>2. CASE SweepCollects(w)
    <2>1. sweep[w].pc = "collect" /\ sweep' = sweep
      BY <1>2 DEF SweepCollects
    <2> QED
      BY <2>1 DEF Empties
  <1>3. CASE BeginSweeping(w)
    <2>1. PICK pc \in {"pointers", "row"} : SweepBecomes(w, [Resting EXCEPT !.pc = pc, !.now = clock])
      BY <1>3, Zenon DEF BeginSweeping
    <2>2. PICK t : t = [Resting EXCEPT !.pc = pc, !.now = clock]
      OBVIOUS
    <2>3. Idles(t)
      BY <2>2 DEF Resting, Idles
    <2> QED
      BY <2>1, <2>2, <2>3, IdlesKeeps
  <1>4. CASE ScanRow(w) \/ ScanPointers(w) \/ SweepLitter(w) \/ SweepForeign(w) \/ SweepUnfile(w)
    BY <1>4, ScansGoOn, IdlesKeeps
  <1>5. CASE FullyReclaimed(w) \/ SweepCollected(w) \/ RemoveRow(w) \/ RemoveAsk(w)
    BY <1>5, PurgeEmpties
  <1>6. CASE \/ Reread(w) \/ SweepDropped(w)
             \/ AfterFault(w) \/ ForgetDue(w) \/ RetiredEmpty(w) \/ FilePurge(w)
    BY <1>6, RetirementEmpties
  <1> QED
    BY <1>1, <1>2, <1>3, <1>4, <1>5, <1>6 DEF SweepStep

(* A sweep steps, or it and its call stay as they are.                     *)
LEMMA EachSweep ==
    ASSUME IInv, [Next]_retentionVars, NEW w \in Sweepers
    PROVE  (sweep'[w] = sweep[w] /\ drop'[w] = drop[w]) \/ SweepStep(w)
  <1>1. CASE UNCHANGED retentionVars
    BY <1>1 DEF retentionVars
  <1>2. ASSUME NEW p \in Loaders \cap cast,
               (LoadStep(p) \/ Abandon(p)) /\ UNCHANGED <<pass, drop, faults, besideSegment>>
        PROVE  sweep' = sweep /\ drop' = drop
    BY <1>2 DEF besideSegment
  <1>3. ASSUME NEW d \in Droppers \cap cast, DropStep(d) /\ UNCHANGED <<pass, besideSegment>>
        PROVE  sweep'[w] = sweep[w] /\ drop'[w] = drop[w]
    <2>1. \E t : DropBecomes(d, t)
      BY <1>3, Zenon DEF DropStep, BeginDrop, Orphans, Claim, ClaimAsk, TombstoneStep, ShredRead, ShredWrite,
                         ShredAsk, ShredLast, DropList, DropDelete, DropPassEnds, DropRemaining, DropFails
    <2>2. d # w
      BY DropAssumption
    <2> QED
      BY <1>3, <2>1, <2>2 DEF DropBecomes, besideSegment, IInv, Typed
  <1>4. ASSUME NEW s \in Setters \cap cast, SetStep(s)
        PROVE  sweep' = sweep /\ drop' = drop
    BY <1>4, SetIsStep
  <1>5. ASSUME NEW v \in Sweepers \cap cast, SweepStep(v), v # w
        PROVE  sweep'[w] = sweep[w] /\ drop'[w] = drop[w]
    <2>1. sweep' = sweep \/ \E t : SweepBecomes(v, t)
      BY <1>5, Zenon DEF SweepStep, BeginSweeping, ScanRow, ScanPointers, SweepLitter, SweepForeign,
                         SweepUnfile, FullyReclaimed, SweepCollects, SweepCollected, RemoveRow, RemoveAsk,
                         Reread, SweepDrops, SweepDropped, AfterFault, ForgetDue, RetiredEmpty, FilePurge
    <2>2. drop' = drop \/ \E t : DropBecomes(v, t)
      BY <1>5, Zenon DEF SweepStep, BeginSweeping, ScanRow, ScanPointers, SweepLitter, SweepForeign,
                         SweepUnfile, FullyReclaimed, SweepCollects, SweepCollected, RemoveRow, RemoveAsk,
                         Reread, SweepDrops, SweepDropped, AfterFault, ForgetDue, RetiredEmpty, FilePurge,
                         TombstoneStep, ShredRead, ShredWrite, ShredAsk, ShredLast, DropList, DropDelete,
                         DropPassEnds, DropRemaining, DropFails
    <2> QED
      BY <1>5, <2>1, <2>2 DEF SweepBecomes, DropBecomes, IInv, Typed
  <1>6. CASE \/ /\ \E g \in Gens : TakeLease(g) \/ ReleaseLease(g)
                /\ UNCHANGED <<load, pass, drop, faults, besideSegment>>
             \/ LateWrite /\ UNCHANGED <<load, pass, drop, faults, besideSegment>>
             \/ Tick
    BY <1>6 DEF besideSegment, Tick
  <1>7. ASSUME NEW t \in removals, RemovalArrives(t)
        PROVE  sweep' = sweep /\ drop' = drop
    BY <1>7 DEF RemovalArrives
  <1> QED
    BY <1>1, <1>2, <1>3, <1>4, <1>5, <1>6, <1>7 DEF Next

-----------------------------------------------------------------------------
(* The whole.                                                              *)

(* A name without a row starts with the objects of someone gone.           *)
LEMMA LeftInit == Init => LeftInv
  <1> SUFFICES ASSUME Init
               PROVE  LeftInv
    OBVIOUS
  <1>1. PICK s \in Starts : StartOf(s)
    BY DEF Init
  <1>2. removals = {} /\ sweep = [w \in Sweepers |-> Resting]
    BY DEF Init
  <1>3. row = NoRow => \A g \in Listed : objects[g].by = Stray
    <2>1. row = NoRow => s.rowless
      <3>1. ~s.rowless => row = [PublishedRow(s.n, s.key, TRUE) EXCEPT
                                    !.retention = [expiresAt |-> s.expiresAt, mark |-> s.mark]]
        BY <1>1, Zenon DEF StartOf
      <3> QED
        BY <3>1 DEF NoRow, PublishedRow
    <2>2. objects = [g \in Gens |->
                       IF g < s.n THEN [by |-> IF s.rowless THEN Stray ELSE Other, key |-> s.key]
                       ELSE None]
      BY <1>1, Zenon DEF StartOf
    <2> QED
      BY <2>1, <2>2 DEF Listed
  <1>4. Resting.pc = "start"
    BY DEF Resting
  <1> QED
    BY <1>2, <1>3, <1>4 DEF LeftInv, HeldBut, Empties

(* Every step keeps the invariant.                                         *)
LEMMA LeftNext ==
    ASSUME IInv, DropInv, PInv, LeftInv, SweepsInTime, [Next]_retentionVars
    PROVE  LeftInv'
  <1>1. TombstonesStay /\ Turned /\ RowMoves
    BY NextFine, EveryStepTurns, PurgeNext DEF RowStep
  <1>2. ASSUME NEW w \in Sweepers, Empties(sweep'[w], drop'[w], row')
        PROVE  HeldByLoads'
    <2>1. Listed' = {} \/ Empties(sweep[w], drop[w], row)
      BY <1>1, <1>2, EachSweep, SweepEmpties, EmptiesStays
    <2>2. CASE Listed' = {}
      BY <2>2 DEF HeldByLoads, HeldBut
    <2>3. CASE Empties(sweep[w], drop[w], row)
      BY <1>1, <2>3, EmptiesEntombed, LeftStays DEF LeftInv
    <2> QED
      BY <2>1, <2>2, <2>3
  <1>3. \A w \in Sweepers : (Empties(sweep[w], drop[w], row) => HeldByLoads)'
    BY <1>2
  <1> QED
    BY <1>1, <1>3, RowLeft DEF LeftInv

(* A purge (purgeTombstone and retireLive, retention-sweep.ts) leaves      *)
(* behind no object that nothing can find any more: where there is no row  *)
(* there are the objects the name came with and those of loads under way,  *)
(* or whose own reclaim met a fault, whichever deletes failed and however  *)
(* late a removal arrives - as long as no sweep takes longer over a        *)
(* retirement than the grace.                                              *)
THEOREM PurgeStrandsNothingHolds == Spec /\ []SweepsInTime => []PurgeStrandsNothing
  <1>1. IInv /\ DropInv /\ [Next]_retentionVars => DropInv'
    BY DropInvNext
  <1>2. IInv /\ DropInv /\ PInv /\ LeftInv /\ SweepsInTime /\ [Next]_retentionVars => LeftInv'
    BY LeftNext
  <1>3. LeftInv => PurgeStrandsNothing
    BY DEF LeftInv, HeldBut, Holds, PurgeStrandsNothing, LoadAnswersFor, Ended
  <1> QED
    BY <1>1, <1>2, <1>3, DropInvInit, LeftInit, Invariance, PurgeInvariance, PTL DEF Spec
=============================================================================
