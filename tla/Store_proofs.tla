---------------------------- MODULE Store_proofs ----------------------------
(***************************************************************************)
(* Proofs about loads, their collections, sweeps and rollbacks of one      *)
(* segment, for any number of each and any bound on what they try.         *)
(***************************************************************************)
EXTENDS Store, TLAPS

-----------------------------------------------------------------------------
(* The inductive invariant: the pointer of a row there is or was, is the   *)
(* work of a write that was applied.                                       *)

Applied(r, made) == r # NoRow => r.pointerId.write \in made

LandedIn(sent, made) == {t \in sent : t.write \in made}

LoadFine(l, made) ==
    /\ DOMAIN l = DOMAIN Idle
    /\ Applied(l.rec, made)
    /\ l.result = "published" => LandedIn(l.sent, made) # {}

IInv ==
    /\ DOMAIN load = Loaders
    /\ Applied(row, landed)
    /\ \A p \in Loaders : LoadFine(load[p], landed)

(* What any step does to the row: nothing, take it away, or apply a write. *)
RowMoves ==
    \/ UNCHANGED <<row, landed>>
    \/ row' = NoRow /\ landed' = landed
    \/ \E w : Apply(w)

(* The pointer stays the work of an applied write.                         *)
LEMMA RowIsApplied ==
    ASSUME Applied(row, landed), RowMoves
    PROVE  landed \subseteq landed' /\ Applied(row', landed')
  <1>1. ASSUME NEW w, Apply(w)
        PROVE  landed \subseteq landed' /\ Applied(row', landed')
    <2>1. landed' = landed \cup {w.token.write} /\ row' = RowAfter(w) /\ Accepts(w)
      BY <1>1 DEF Apply
    <2>2. CASE w.expect = NoRow
      <3>1. row'.pointerId = w.token
        BY <2>1, <2>2 DEF RowAfter, RecordFromNew
      <3> QED
        BY <2>1, <3>1 DEF Applied
    <2>3. CASE w.expect # NoRow
      <3>1. row'.pointerId \in {w.token, row.pointerId} /\ row # NoRow
        BY <2>1, <2>3 DEF RowAfter, Accepts, ApplyRegistryPatch
      <3> QED
        BY <2>1, <3>1 DEF Applied
    <2> QED
      BY <2>2, <2>3
  <1> QED
    BY <1>1 DEF RowMoves, Applied

-----------------------------------------------------------------------------
(* The steps of a load that write nothing of the row.                      *)

(* It takes up the row as it is, or none, or what it has; and it reports a *)
(* publish only where a row showed one of its writes under the pointer.    *)
LoadKeeps(l, m) ==
    /\ DOMAIN m = DOMAIN Idle
    /\ m.sent = l.sent
    /\ m.rec \in {l.rec, row, NoRow}
    /\ m.result = "published" =>
          \/ l.result = "published"
          \/ \E r \in {l.rec, row} : r # NoRow /\ r.pointerId \in l.sent

RowStays == UNCHANGED <<row, inflight, landed, others>>

(* A load that ends takes up nothing new.                                  *)
LEMMA EndKeeps ==
    ASSUME NEW l, NEW result, result \in {l.result, "error", "superseded", "unknown", "missing"}
    PROVE  LoadKeeps(l, End(l, result))
  BY DEF LoadKeeps, End, Idle

(* Nor does one that saw its write under the pointer.                      *)
LEMMA PublishedEnds ==
    ASSUME NEW l, NEW r \in {l.rec, row}, r # NoRow, r.pointerId \in l.sent
    PROVE  LoadKeeps(l, [End(l, "published") EXCEPT !.pc = "published"])
  BY DEF LoadKeeps, End, Idle

(* What a load that reports a publish leaves.                              *)
LEMMA PublishedLeaves ==
    ASSUME NEW p, NEW l, NEW before, NEW live, NEW m, m = Published(p, l, before, live)
    PROVE  DOMAIN m = DOMAIN Idle /\ m.sent = l.sent /\ m.rec = NoRow
  <1>1. PICK kept : kept = IF l.seed.wanted THEN NotByName
                           ELSE Kept(LedgerSource(before), EntryOf(p, l), Keep, live)
    OBVIOUS
  <1>2. m = [End(l, "published") EXCEPT !.pc = "published", !.kept = kept]
    BY <1>1 DEF Published
  <1>3. PICK e : e = End(l, "published")
    OBVIOUS
  <1>4. DOMAIN e = DOMAIN Idle /\ e.sent = l.sent /\ e.rec = NoRow
    BY <1>3 DEF End, Idle
  <1>5. m = [e EXCEPT !.pc = "published", !.kept = kept]
    BY <1>2, <1>3
  <1> QED
    BY <1>4, <1>5 DEF Idle

(* A load that goes for another turn takes up nothing new.                 *)
LEMMA TurnKeeps ==
    ASSUME NEW l, NEW m, NEW pc, LoadKeeps(l, m)
    PROVE  LoadKeeps(l, Turn(m, pc))
  BY DEF LoadKeeps, Turn, Idle

(* Nor does one that chooses what to seed its ledger from.                 *)
LEMMA SeedsKeep ==
    ASSUME NEW l, DOMAIN l = DOMAIN Idle, NEW present, NEW held, NEW m, m = Seeds(l, present, held)
    PROVE  LoadKeeps(l, m)
  <1>1. PICK order : order = SeedOrder(l, present, held)
    OBVIOUS
  <1>2. PICK pc, seed : /\ pc = IF order = <<>> THEN "decide" ELSE "seedRead"
                        /\ seed = [NoSeed EXCEPT !.wanted = TRUE, !.order = order,
                                                 !.todo = ToSet(order)]
    OBVIOUS
  <1>3. m = [l EXCEPT !.pc = pc, !.listed = {}, !.seed = seed]
    BY <1>1, <1>2 DEF Seeds
  <1> QED
    BY <1>3 DEF LoadKeeps, Idle

(* The steps up to the first write: reads, the number, the key, the put,   *)
(* the seed.                                                               *)
LEMMA LoadReads ==
    ASSUME NEW p \in Loaders, DOMAIN load[p] = DOMAIN Idle,
           \/ ReadRow(p) \/ Number(p) \/ ChooseKey(p) \/ Put(p)
           \/ SeedLeases(p) \/ SeedList(p) \/ SeedRead(p) \/ SeedFails(p)
    PROVE  RowStays /\ \E m : Becomes(p, m) /\ LoadKeeps(load[p], m)
  <1> DEFINE l == load[p]
  <1>1. CASE ReadRow(p)
    <2>1. LoadKeeps(l, [l EXCEPT !.pc = "number", !.base = row, !.rec = row])
      BY DEF LoadKeeps, Idle
    <2> QED
      BY <1>1, <2>1 DEF ReadRow, RowStays, segment
  <1>2. CASE Number(p)
    <2>1. PICK g, listed : Becomes(p, [l EXCEPT !.pc = "key", !.gen = g, !.listed = listed])
      BY <1>2, Zenon DEF Number
    <2>2. LoadKeeps(l, [l EXCEPT !.pc = "key", !.gen = g, !.listed = listed])
      BY DEF LoadKeeps, Idle
    <2> QED
      BY <1>2, <2>1, <2>2 DEF Number, RowStays, segment
  <1>3. CASE ChooseKey(p)
    <2>1. PICK key, mints : \/ Becomes(p, End(l, "error"))
                            \/ Becomes(p, [l EXCEPT !.pc = "put", !.key = key, !.minted = mints])
      BY <1>3, Zenon DEF ChooseKey
    <2>2. LoadKeeps(l, [l EXCEPT !.pc = "put", !.key = key, !.minted = mints])
      BY DEF LoadKeeps, Idle
    <2> QED
      BY <1>3, <2>1, <2>2, EndKeeps DEF ChooseKey, RowStays, segment
  <1>4. CASE Put(p)
    <2>1. PICK pc : \/ Becomes(p, End(l, "superseded"))
                    \/ Becomes(p, [l EXCEPT !.pc = pc])
                    \/ Becomes(p, [l EXCEPT !.pc = "reclaim", !.result = "refused"])
      BY <1>4, Zenon DEF Put
    <2>2. /\ LoadKeeps(l, [l EXCEPT !.pc = pc])
          /\ LoadKeeps(l, [l EXCEPT !.pc = "reclaim", !.result = "refused"])
      BY DEF LoadKeeps, Idle
    <2> QED
      BY <1>4, <2>1, <2>2, EndKeeps DEF Put, RowStays, segment
  <1>5. CASE SeedLeases(p)
    <2>1. PICK held : Becomes(p, IF l.listed # {} THEN Seeds(l, l.listed, held)
                                 ELSE [l EXCEPT !.pc = "seedList", !.seed.todo = held])
      BY <1>5, Zenon DEF SeedLeases
    <2>2. LoadKeeps(l, [l EXCEPT !.pc = "seedList", !.seed.todo = held])
      BY DEF LoadKeeps, Idle
    <2>3. LoadKeeps(l, Seeds(l, l.listed, held))
      BY SeedsKeep
    <2> QED
      BY <1>5, <2>1, <2>2, <2>3 DEF SeedLeases, RowStays, segment
  <1>6. CASE SeedList(p)
    <2>1. LoadKeeps(l, Seeds(l, Listed, l.seed.todo))
      BY SeedsKeep
    <2> QED
      BY <1>6, <2>1 DEF SeedList, RowStays, segment
  <1>7. CASE SeedRead(p)
    <2>1. PICK pc, seed : Becomes(p, [l EXCEPT !.pc = pc, !.seed = seed])
      BY <1>7, Zenon DEF SeedRead
    <2>2. LoadKeeps(l, [l EXCEPT !.pc = pc, !.seed = seed])
      BY DEF LoadKeeps, Idle
    <2> QED
      BY <1>7, <2>1, <2>2 DEF SeedRead, RowStays, segment
  <1>8. CASE SeedFails(p)
    <2>1. LoadKeeps(l, [l EXCEPT !.pc = "reclaim", !.result = "error"])
      BY DEF LoadKeeps, Idle
    <2> QED
      BY <1>8, <2>1 DEF SeedFails, RowStays, segment
  <1> QED
    BY <1>1, <1>2, <1>3, <1>4, <1>5, <1>6, <1>7, <1>8

(* The steps that settle what a write of the pointer did.                  *)
LEMMA LoadSettles ==
    ASSUME NEW p \in Loaders, DOMAIN load[p] = DOMAIN Idle,
           \/ SettleLanded(p) \/ Refuse(p) \/ WaitOutChurn(p) \/ RefuseSealed(p)
           \/ AskRow(p) \/ ReadAgain(p) \/ FinalRead(p)
    PROVE  RowStays /\ \E m : Becomes(p, m) /\ LoadKeeps(load[p], m)
  <1> DEFINE l == load[p]
  <1>1. CASE SettleLanded(p)
    <2>1. PICK live : Becomes(p, Published(p, l, l.before, live))
      BY <1>1, Zenon DEF SettleLanded
    <2>2. l.rec # NoRow /\ l.rec.pointerId \in l.sent
      BY <1>1 DEF SettleLanded, LandedHere, PointerSetBy
    <2>3. LoadKeeps(l, Published(p, l, l.before, live))
      BY <2>2, PublishedLeaves DEF LoadKeeps
    <2> QED
      BY <1>1, <2>1, <2>3 DEF SettleLanded, RowStays, segment
  <1>2. CASE Refuse(p)
    <2>1. PICK early : Becomes(p, [l EXCEPT !.pc = "reclaim", !.result = "refused", !.early = early])
      BY <1>2, Zenon DEF Refuse
    <2>2. LoadKeeps(l, [l EXCEPT !.pc = "reclaim", !.result = "refused", !.early = early])
      BY DEF LoadKeeps, Idle
    <2> QED
      BY <1>2, <2>1, <2>2 DEF Refuse, RowStays, segment
  <1>3. CASE WaitOutChurn(p)
    <2>1. LoadKeeps(l, [l EXCEPT !.rec = row, !.waited = TRUE, !.before = None, !.churn = @ + 1])
      BY DEF LoadKeeps, Idle
    <2> QED
      BY <1>3, <2>1 DEF WaitOutChurn, RowStays, segment
  <1>4. CASE RefuseSealed(p)
    <2>1. /\ LoadKeeps(l, [l EXCEPT !.attempt = 1, !.before = None])
          /\ LoadKeeps(l, [l EXCEPT !.pc = "reclaim", !.result = "refused"])
      BY DEF LoadKeeps, Idle
    <2>2. LoadKeeps(l, Turn([l EXCEPT !.attempt = 1, !.before = None], "read"))
      BY <2>1, TurnKeeps
    <2> QED
      BY <1>4, <2>1, <2>2 DEF RefuseSealed, RowStays, segment
  <1>5. CASE AskRow(p)
    <2>1. /\ LoadKeeps(l, [l EXCEPT !.before = l.rec, !.rec = row, !.waited = FALSE,
                                    !.attempt = @ + 1])
          /\ LoadKeeps(l, [l EXCEPT !.rec = row, !.waited = FALSE, !.resends = @ + 1,
                                    !.attempt = @ + 1])
      BY DEF LoadKeeps, Idle
    <2>2. /\ LoadKeeps(l, Turn([l EXCEPT !.before = l.rec, !.rec = row, !.waited = FALSE,
                                    !.attempt = @ + 1], "decide"))
          /\ LoadKeeps(l, Turn([l EXCEPT !.rec = row, !.waited = FALSE, !.resends = @ + 1,
                                    !.attempt = @ + 1], "decide"))
      BY <2>1, TurnKeeps
    <2> QED
      BY <1>5, <2>2, EndKeeps DEF AskRow, RowStays, segment
  <1>6. CASE ReadAgain(p)
    <2>1. LoadKeeps(l, [l EXCEPT !.pc = "decide", !.rec = row, !.waited = FALSE])
      BY DEF LoadKeeps, Idle
    <2> QED
      BY <1>6, <2>1 DEF ReadAgain, RowStays, segment
  <1>7. CASE FinalRead(p)
    <2>1. LoadKeeps(l, [l EXCEPT !.pc = "reclaim", !.result = "refused"])
      BY DEF LoadKeeps, Idle
    <2>2. PICK last : last = IF l.before = None THEN l.rec ELSE l.before
      OBVIOUS
    <2>3. \/ Becomes(p, End(l, "unknown"))
          \/ /\ PointerSetBy(row, last, l.gen, l.sent)
             /\ Becomes(p, [End(l, "published") EXCEPT !.pc = "published"])
          \/ Becomes(p, [l EXCEPT !.pc = "reclaim", !.result = "refused"])
      BY <1>7, <2>2, Zenon DEF FinalRead
    <2>4. PointerSetBy(row, last, l.gen, l.sent) =>
              LoadKeeps(l, [End(l, "published") EXCEPT !.pc = "published"])
      BY PublishedEnds DEF PointerSetBy
    <2> QED
      BY <1>7, <2>1, <2>3, <2>4, EndKeeps DEF FinalRead, RowStays, segment
  <1> QED
    BY <1>1, <1>2, <1>3, <1>4, <1>5, <1>6, <1>7

(* The steps after a refusal, and a load that is abandoned.                *)
LEMMA LoadReclaims ==
    ASSUME NEW p \in Loaders, DOMAIN load[p] = DOMAIN Idle,
           \/ Reclaim(p) \/ Delete(p) \/ Watch(p) \/ Abandon(p)
           \/ TidyFails(p) \/ DeleteUnanswered(p)
    PROVE  RowStays /\ \E m : Becomes(p, m) /\ LoadKeeps(load[p], m)
  <1> DEFINE l == load[p]
  <1>1. CASE Reclaim(p)
    <2>1. PICK pc : \/ Becomes(p, [l EXCEPT !.pc = pc, !.held = row])
                    \/ Becomes(p, End(l, l.result))
      BY <1>1, Zenon DEF Reclaim
    <2>2. LoadKeeps(l, [l EXCEPT !.pc = pc, !.held = row])
      BY DEF LoadKeeps, Idle
    <2> QED
      BY <1>1, <2>1, <2>2, EndKeeps DEF Reclaim, RowStays, segment
  <1>2. CASE Delete(p)
    <2>1. Becomes(p, [l EXCEPT !.pc = "watch"]) \/ Becomes(p, End(l, l.result))
      BY <1>2, Zenon DEF Delete
    <2>2. LoadKeeps(l, [l EXCEPT !.pc = "watch"])
      BY DEF LoadKeeps, Idle
    <2> QED
      BY <1>2, <2>1, <2>2, EndKeeps DEF Delete, RowStays
  <1>3. CASE Watch(p)
    <2>1. \/ Becomes(p, [l EXCEPT !.looks = @ + 1]) \/ Becomes(p, End(l, l.result))
          \/ Becomes(p, End(l, "missing"))
      BY <1>3, Zenon DEF Watch
    <2>2. LoadKeeps(l, [l EXCEPT !.looks = @ + 1])
      BY DEF LoadKeeps, Idle
    <2> QED
      BY <1>3, <2>1, <2>2, EndKeeps DEF Watch, RowStays, segment
  <1>4. CASE Abandon(p)
    BY <1>4, EndKeeps DEF Abandon, RowStays, segment
  <1>5. CASE TidyFails(p) \/ DeleteUnanswered(p)
    <2>1. LoadKeeps(l, Untidy(l))
      BY EndKeeps DEF LoadKeeps, Untidy, End, Idle
    <2> QED
      BY <1>5, <2>1 DEF TidyFails, DeleteUnanswered, RowStays, segment
  <1> QED
    BY <1>1, <1>2, <1>3, <1>4, <1>5
-----------------------------------------------------------------------------
(* Every step of a load.                                                   *)

(* One load steps, and what it reports is so.                              *)
LEMMA LoadIsFine ==
    ASSUME IInv, NEW p \in Loaders, NEW m, Becomes(p, m), RowMoves, LoadFine(m, landed')
    PROVE  IInv'
  <1>1. landed \subseteq landed' /\ Applied(row', landed')
    BY RowIsApplied DEF IInv
  <1>2. DOMAIN load' = Loaders /\ load'[p] = m /\ \A q \in Loaders : q # p => load'[q] = load[q]
    BY DEF Becomes, IInv
  <1>3. \A q \in Loaders : LoadFine(load[q], landed')
    BY <1>1 DEF IInv, LoadFine, Applied, LandedIn
  <1> QED
    BY <1>1, <1>2, <1>3 DEF IInv

(* A load that takes nothing up but the row.                               *)
LEMMA LoadKeepsFine ==
    ASSUME IInv, NEW p \in Loaders, NEW m, Becomes(p, m), RowStays, LoadKeeps(load[p], m)
    PROVE  IInv'
  <1>1. RowMoves /\ landed' = landed
    BY DEF RowStays, RowMoves
  <1>2. LoadFine(load[p], landed) /\ Applied(row, landed)
    BY DEF IInv
  <1>3. m.result = "published" => LandedIn(m.sent, landed) # {}
    BY <1>2 DEF LoadFine, LoadKeeps, Applied, LandedIn
  <1>4. Applied(m.rec, landed)
    BY <1>2 DEF LoadFine, LoadKeeps, Applied
  <1>5. LoadFine(m, landed')
    BY <1>1, <1>3, <1>4 DEF LoadFine, LoadKeeps
  <1> QED
    BY <1>1, <1>5, LoadIsFine

(* A load that sends: the publish it reports is the write that was applied.*)
LEMMA LoadSends ==
    ASSUME IInv, NEW p \in Loaders, SendAnswered(p) \/ SendUnanswered(p)
    PROVE  IInv'
  <1>0. PICK l : l = load[p]
    OBVIOUS
  <1>1. DOMAIN l = DOMAIN Idle /\ LoadFine(l, landed)
    BY <1>0 DEF IInv, LoadFine
  <1>2. CASE SendAnswered(p)
    <2>1. PICK live, w, after :
             /\ w = RequestOf(p, l, live) /\ after = [l EXCEPT !.sent = @ \cup {w.token}]
             /\ IF Accepts(w)
                THEN /\ Apply(w)
                     /\ Becomes(p, Published(p, after, l.rec, live))
                ELSE /\ Becomes(p, Turn([after EXCEPT
                               !.before = l.rec,
                               !.attempt = IF TokenMoved(l) THEN @ ELSE @ + 1], "read"))
                     /\ UNCHANGED <<row, landed>>
      BY <1>0, <1>2, Zenon DEF SendAnswered
    <2>2. /\ DOMAIN after = DOMAIN Idle /\ after.sent = l.sent \cup {w.token} /\ after.rec = l.rec
          /\ after.result = l.result
      BY <1>1, <2>1 DEF Idle
    <2>3. CASE Accepts(w)
      <3>1. PICK m : m = Published(p, after, l.rec, live)
        OBVIOUS
      <3>2. DOMAIN m = DOMAIN Idle /\ m.sent = l.sent \cup {w.token} /\ m.rec = NoRow
        BY <2>2, <3>1, PublishedLeaves
      <3>3. Apply(w) /\ Becomes(p, m) /\ w.token.write \in landed'
        BY <2>1, <2>3, <3>1 DEF Apply
      <3>4. LoadFine(m, landed')
        BY <3>2, <3>3 DEF LoadFine, Applied, LandedIn
      <3> QED
        BY <3>3, <3>4, LoadIsFine DEF RowMoves
    <2>4. CASE ~Accepts(w)
      <3>1. PICK attempt : attempt = IF TokenMoved(l) THEN after.attempt ELSE after.attempt + 1
        OBVIOUS
      <3>2. PICK turn : turn = [after EXCEPT !.before = l.rec, !.attempt = attempt]
        OBVIOUS
      <3>3. PICK m : m = Turn(turn, "read")
        OBVIOUS
      <3>4. LoadKeeps(after, turn)
        BY <2>2, <3>2 DEF LoadKeeps, Idle
      <3>5. m.rec = l.rec /\ m.sent = l.sent \cup {w.token} /\ DOMAIN m = DOMAIN Idle /\ m.result = l.result
        <4>1. /\ DOMAIN turn = DOMAIN Idle /\ turn.rec = l.rec /\ turn.sent = after.sent
              /\ turn.result = l.result
          BY <2>2, <3>2 DEF Idle
        <4> QED
          BY <2>2, <3>3, <4>1 DEF Turn, Idle
      <3>6. Becomes(p, m) /\ UNCHANGED <<row, landed>>
        BY <2>1, <2>4, <3>1, <3>2, <3>3
      <3>7. LoadFine(m, landed')
        BY <1>1, <3>5, <3>6 DEF LoadFine, LandedIn
      <3> QED
        BY <3>6, <3>7, LoadIsFine DEF RowMoves
    <2> QED
      BY <2>3, <2>4
  <1>3. CASE SendUnanswered(p)
    <2>1. PICK token : Becomes(p, [l EXCEPT !.pc = "asking", !.unanswered = TRUE,
                                     !.sent = @ \cup {token}, !.before = None])
      BY <1>0, <1>3, Zenon DEF SendUnanswered
    <2>2. UNCHANGED <<row, landed>>
      BY <1>3 DEF SendUnanswered
    <2>3. PICK m : m = [l EXCEPT !.pc = "asking", !.unanswered = TRUE,
                                 !.sent = @ \cup {token}, !.before = None]
      OBVIOUS
    <2>4. /\ DOMAIN m = DOMAIN Idle /\ m.sent = l.sent \cup {token} /\ m.rec = l.rec
          /\ m.result = l.result
      BY <1>1, <2>3 DEF Idle
    <2>5. LoadFine(m, landed')
      BY <1>1, <2>2, <2>4 DEF LoadFine, LandedIn
    <2> QED
      BY <2>1, <2>2, <2>3, <2>5, LoadIsFine DEF RowMoves
  <1> QED
    BY <1>2, <1>3

(* Every step of a load, and its end at any point.                         *)
LEMMA LoadNext ==
    ASSUME IInv, NEW p \in Loaders, LoadStep(p) \/ Abandon(p)
    PROVE  IInv'
  <1>1. DOMAIN load[p] = DOMAIN Idle
    BY DEF IInv, LoadFine
  <1>2. CASE SendAnswered(p) \/ SendUnanswered(p)
    BY <1>2, LoadSends
  <1>3. CASE ~(SendAnswered(p) \/ SendUnanswered(p))
    <2>1. RowStays /\ \E m : Becomes(p, m) /\ LoadKeeps(load[p], m)
      BY <1>1, <1>3, LoadReads, LoadSettles, LoadReclaims DEF LoadStep
    <2>2. PICK m : Becomes(p, m) /\ LoadKeeps(load[p], m)
      BY <2>1
    <2> QED
      BY <2>1, <2>2, LoadKeepsFine
  <1> QED
    BY <1>2, <1>3
-----------------------------------------------------------------------------
(* The other steps, and the whole.                                         *)

(* A step that is no load's.                                               *)
LEMMA OthersKeep ==
    ASSUME IInv, load' = load, RowMoves
    PROVE  IInv'
  <1>1. landed \subseteq landed' /\ Applied(row', landed')
    BY RowIsApplied DEF IInv
  <1>2. \A q \in Loaders : LoadFine(load[q], landed')
    BY <1>1 DEF IInv, LoadFine, Applied, LandedIn
  <1> QED
    BY <1>1, <1>2 DEF IInv

(* A collection writes nothing of the row.                                 *)
LEMMA PassMoves ==
    ASSUME NEW c, PassStep(c)
    PROVE  load' = load /\ RowMoves
  BY DEF PassStep, BeginAfterLoad, BeginSweep, PassReadRow, PassList, PassReadAgain, PassCheck,
         PassDelete, PassSettle, loadVars, segment, RowMoves

(* A rollback writes it as everyone does.                                  *)
LEMMA RollMoves ==
    ASSUME NEW q, RollStep(q)
    PROVE  RowMoves
  <1>1. CASE SwapAnswered(q) \/ UndoAnswered(q)
    BY <1>1, Zenon DEF SwapAnswered, UndoAnswered, RowMoves
  <1>2. CASE SwapUnanswered(q) \/ UndoUnanswered(q)
    BY <1>2 DEF SwapUnanswered, UndoUnanswered, RowMoves
  <1>3. CASE \/ RollRead(q) \/ RollJudge(q) \/ SwapAsk(q) \/ SwapSeen(q) \/ SwapWaited(q) \/ RollProve(q)
             \/ UndoAsk(q) \/ UndoSeen(q) \/ UndoWaited(q)
    BY <1>3 DEF RollRead, RollJudge, SwapAsk, SwapSeen, SwapWaited, RollProve, UndoAsk, UndoSeen,
                UndoWaited, segment, RowMoves
  <1> QED
    BY <1>1, <1>2, <1>3 DEF RollStep

(* So do the operations of one request, and a write that arrives late.     *)
LEMMA RequestMoves ==
    ASSUME OtherOperation \/ LateWrite \/ PurgeRow
    PROVE  RowMoves
  <1>1. \A w : OtherWrites(w) => RowMoves
    BY DEF OtherWrites, RowMoves
  <1>2. CASE RecordRetention \/ SetRetention \/ Shred \/ ClaimIdentity
    BY <1>1, <1>2, Zenon DEF RecordRetention, SetRetention, Shred, ClaimIdentity
  <1>3. ASSUME NEW g, TakeLease(g) \/ ReleaseLease(g)
        PROVE  RowMoves
    BY <1>1, <1>3, Zenon DEF TakeLease, ReleaseLease
  <1>4. ASSUME NEW g, DropObject(g)
        PROVE  RowMoves
    BY <1>4 DEF DropObject, RowMoves
  <1>5. CASE LateWrite
    <2>1. PICK w \in inflight : LateWriteArrives(w) \/ WriteIsLost(w)
      BY <1>5 DEF LateWrite
    <2> QED
      BY <2>1 DEF LateWriteArrives, WriteIsLost, RowMoves
  <1>6. CASE PurgeRow
    BY <1>6 DEF PurgeRow, RowMoves
  <1> QED
    BY <1>2, <1>3, <1>4, <1>5, <1>6 DEF OtherOperation

(* The invariant holds of every segment to start from.                     *)
LEMMA InitFine == Init => IInv
  <1> SUFFICES ASSUME Init
               PROVE  IInv
    OBVIOUS
  <1>1. PICK n \in Histories :
           \E key, ledger :
              /\ row = IF n = 0 THEN NoRow ELSE PublishedRow(n, key, ledger)
              /\ landed = {<<Other, k>> : k \in 1..n}
    BY Zenon DEF Init, SegmentInit
  <1>2. n \in Nat
    BY SegmentAssumption
  <1>3. Applied(row, landed)
    <2>1. CASE n = 0
      BY <1>1, <2>1 DEF Applied
    <2>2. CASE n # 0
      <3>1. row.pointerId.write = <<Other, n>>
        BY <1>1, <2>2 DEF PublishedRow
      <3>2. n \in 1..n
        BY <1>2, <2>2
      <3> QED
        BY <1>1, <3>1, <3>2 DEF Applied
    <2> QED
      BY <2>1, <2>2
  <1>4. load = [p \in Loaders |-> Idle]
    BY DEF Init, LoadInit
  <1>5. LoadFine(Idle, landed)
    BY DEF LoadFine, Idle, Applied
  <1> QED
    BY <1>3, <1>4, <1>5 DEF IInv

(* Every step keeps the invariant.                                         *)
LEMMA NextFine ==
    ASSUME IInv, [Next]_storeVars
    PROVE  IInv'
  <1>1. CASE UNCHANGED storeVars
    BY <1>1, OthersKeep DEF storeVars, loadVars, segment, RowMoves
  <1>2. ASSUME NEW p \in Loaders \cap cast, LoadStep(p) \/ Abandon(p)
        PROVE  IInv'
    BY <1>2, LoadNext
  <1>3. ASSUME NEW c \in DOMAIN pass \cap cast, PassStep(c)
        PROVE  IInv'
    BY <1>3, PassMoves, OthersKeep
  <1>4. ASSUME NEW q \in Rollers \cap cast, RollStep(q) /\ UNCHANGED <<load, pass>>
        PROVE  IInv'
    BY <1>4, RollMoves, OthersKeep
  <1>5. CASE (OtherOperation \/ LateWrite \/ PurgeRow) /\ UNCHANGED <<load, pass, roll>>
    BY <1>5, RequestMoves, OthersKeep
  <1> QED
    BY <1>1, <1>2, <1>3, <1>4, <1>5 DEF Next

(* A load that reports a publish (publish.ts landedHere) made it: one of   *)
(* its own writes was applied, and it is not another load's or a rollback's*)
(* pointer, at the number the load was to publish, that it was told by.    *)
THEOREM PublishedByOwnWriteHolds == Spec => []PublishedByOwnWrite
  <1>1. IInv /\ [Next]_storeVars => IInv'
    BY NextFine
  <1>2. IInv => PublishedByOwnWrite
    BY DEF IInv, LoadFine, LandedIn, LandedOf, PublishedByOwnWrite
  <1> QED
    BY <1>1, <1>2, InitFine, PTL DEF Spec
=============================================================================
