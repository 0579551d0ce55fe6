--------------------------- MODULE EraseId_proofs ---------------------------
(***************************************************************************)
(* Proofs about the erasure of an id, for any number of erasures, loads,   *)
(* collections and rollbacks of one segment, and any bound on their tries. *)
(***************************************************************************)
EXTENDS EraseId, WellFoundedInduction, TLAPS

-----------------------------------------------------------------------------
(* The newest of some generations is one of them.                          *)
LEMMA NewestIsOne ==
    ASSUME NEW S, S \subseteq Gens, S # {}
    PROVE  Newest(S) \in S
  <1>1. MaxGen \in Nat
    BY SegmentAssumption
  <1> DEFINE T == {MaxGen - g : g \in S}
  <1>2. T \subseteq Nat /\ T # {}
    <2>1. \A g \in S : MaxGen - g \in Nat
      BY <1>1 DEF Gens
    <2> QED
      BY <2>1
  <1>3. PICK x \in T : \A y \in T : ~(<<y, x>> \in OpToRel(<, Nat))
    <2> HIDE DEF T
    <2> QED
      BY <1>2, NatLessThanWellFounded, WFMin, Zenon
  <1>4. \A y \in T : ~(y < x)
    <2> HIDE DEF T
    <2> QED
      BY <1>2, <1>3, Zenon DEF OpToRel
  <1>5. PICK g \in S : x = MaxGen - g
    BY <1>3
  <1>6. \A h \in S : h <= g
    <2> SUFFICES ASSUME NEW h \in S PROVE h <= g
      OBVIOUS
    <2>1. MaxGen - h \in T
      OBVIOUS
    <2>2. ~(MaxGen - h < MaxGen - g)
      BY <1>4, <1>5, <2>1
    <2> QED
      BY <1>1, <2>2 DEF Gens
  <1> QED
    BY <1>6 DEF Newest

-----------------------------------------------------------------------------
(* The inductive invariant: what a call holds of its search.               *)

(* Whether, of the row it began under, `object` may be said to hold the id.*)
MayHold(e, rec, g, object, held) ==
    LET by == object.by
    IN  IF object.key \in {Clear} \cup (IF rec.status = "destroyed" THEN {} ELSE {rec.wrappedDeks})
        THEN e \in IF by \in Loaders THEN Brings[by]
                   ELSE IF by \in {Other, Stray} THEN held[g]
                   ELSE by[2]
        ELSE rec.status # "destroyed"

(* Every generation it found to hold the id, it read; what it is to delete *)
(* is of those.                                                            *)
FoundFine(e, r, held) ==
    /\ \A g \in r.holders :
          /\ g \in Gens
          /\ r.read[g] # None
          /\ MayHold(e, r.rec, g, r.read[g], held)
    /\ r.names \subseteq r.holders
    /\ r.byName \subseteq r.holders

(* It reads a generation once in its search, and a rewrite searches none.  *)
PlaceFine(r) ==
    /\ r.pc \in {"start", "open", "number", "numberList", "write", "commit"} => r.path = "rewrite"
    /\ r.pc \in {"list", "search"} => r.path # "rewrite"
    /\ r.path = "rewrite" \/ r.pc = "list" => r.holders = {}
    /\ r.pc = "search" => r.todo # {} /\ r.holders \cap r.todo = {}
    /\ r.pc \in {"check", "delete"} => r.byName # {}

EraseFine(e, r, held) ==
    /\ DOMAIN r = DOMAIN Calm
    /\ DOMAIN r.read = Gens
    /\ r.todo \subseteq Gens
    /\ FoundFine(e, r, held)
    /\ PlaceFine(r)

IInv ==
    /\ DOMAIN erase = Erasers
    /\ DOMAIN objects = Gens
    /\ \A e \in Erasers : EraseFine(e, erase[e], stored)

(* An object that is there is held to the same as one that was read.       *)
LEMMA HoldsNow ==
    ASSUME NEW e, NEW r, NEW g
    PROVE  Holds(e, r, g) <=> MayHold(e, r.rec, g, objects[g], stored)
  BY DEF Holds, MayHold, Searchable, Tombstoned, Content

-----------------------------------------------------------------------------
(* The steps of a call that find nothing.                                  *)

(* What it found, and where it looked, is as it was.                       *)
Retains(l, m) ==
    /\ DOMAIN m = DOMAIN Calm
    /\ m.rec = l.rec /\ m.read = l.read /\ m.path = l.path
    /\ m.holders = l.holders /\ m.names = l.names
    /\ m.byName \subseteq l.holders
    /\ m.todo \subseteq Gens

(* It goes on to what it has all it needs for.                             *)
MovesOn(l, m) ==
    /\ m.pc \in {"start", "open", "number", "numberList", "write", "commit"} => l.path = "rewrite"
    /\ m.pc \notin {"list", "search"}
    /\ m.pc \in {"check", "delete"} => m.byName # {}

(* A call that keeps what it found and moves on is fine.                   *)
LEMMA RetainsFine ==
    ASSUME NEW e, NEW held, NEW l, NEW m, EraseFine(e, l, held), Retains(l, m), MovesOn(l, m)
    PROVE  EraseFine(e, m, held)
  BY DEF EraseFine, FoundFine, PlaceFine, Retains, MovesOn

(* A call that answers, or starts again, holds nothing.                    *)
LEMMA AnswerFine ==
    ASSUME NEW e, NEW held, NEW r, NEW result
    PROVE  EraseFine(e, Answer(r, result), held)
  <1>1. PICK m : m = [Calm EXCEPT !.second = TRUE, !.ahead = r.ahead, !.writes = r.writes]
    OBVIOUS
  <1>2. PICK n : n = [Calm EXCEPT !.pc = "ended", !.result = result, !.gen = r.gen, !.ahead = r.ahead,
                                  !.listed = r.listed]
    OBVIOUS
  <1>3. /\ DOMAIN m = DOMAIN Calm /\ DOMAIN n = DOMAIN Calm
        /\ DOMAIN m.read = Gens /\ DOMAIN n.read = Gens
    BY <1>1, <1>2 DEF Calm
  <1>4. /\ m.todo = {} /\ m.holders = {} /\ m.names = {} /\ m.byName = {}
        /\ n.todo = {} /\ n.holders = {} /\ n.names = {} /\ n.byName = {}
        /\ m.pc = "start" /\ m.path = "rewrite" /\ n.pc = "ended"
    BY <1>1, <1>2 DEF Calm
  <1>5. EraseFine(e, m, held) /\ EraseFine(e, n, held)
    BY <1>3, <1>4 DEF EraseFine, FoundFine, PlaceFine
  <1> QED
    BY <1>1, <1>2, <1>5 DEF Answer

-----------------------------------------------------------------------------
(* The row, and the rewrite.                                               *)

(* What a step of one call does to the call, and that it is fine after it. *)
Goes(e) == \E m : EraseBecomes(e, m) /\ EraseFine(e, m, stored)

(* Every call that begins, begins with nothing found.                      *)
LEMMA BeginGoes ==
    ASSUME IInv, NEW e \in Erasers, Begin(e)
    PROVE  Goes(e)
  <1> DEFINE ahead == IF erase[e].second THEN erase[e].ahead ELSE {p \in Loaders : load[p].pc # "start"}
  <1>1. PICK l : l = erase[e] /\ EraseFine(e, l, stored)
    BY DEF IInv
  <1>2. PICK a : a = ahead
    OBVIOUS
  <1>3. PICK r : r = [l EXCEPT !.rec = row, !.premise = row, !.ahead = a]
    OBVIOUS
  <1>4. /\ r.pc = "start"
        /\ EraseBecomes(e,
             IF row = NoRow THEN Answer(r, "absent")
             ELSE IF row.status = "destroyed" THEN [r EXCEPT !.pc = "list", !.path = "tombstone"]
             ELSE IF row.wrappedDeks # Clear /\ e \notin KeyedErasers THEN Answer(r, "error")
             ELSE IF row.currentGen = NoGen THEN [r EXCEPT !.pc = "list", !.path = "unpublished"]
             ELSE [r EXCEPT !.pc = "open"])
    BY <1>1, <1>2, <1>3 DEF Begin
  <1>5. DOMAIN r = DOMAIN Calm /\ DOMAIN r.read = Gens
    BY <1>1, <1>3 DEF EraseFine
  <1>6. /\ r.pc = l.pc /\ r.path = l.path /\ r.holders = l.holders /\ r.names = l.names
        /\ r.byName = l.byName /\ r.todo = l.todo
    BY <1>1, <1>3 DEF EraseFine, Calm
  <1>7. r.path = "rewrite" /\ r.holders = {} /\ r.names = {} /\ r.byName = {} /\ r.todo \subseteq Gens
    BY <1>1, <1>4, <1>6 DEF EraseFine, FoundFine, PlaceFine
  <1>8. ASSUME NEW pc \in {"list", "open"}, NEW path, pc = "open" <=> path = "rewrite",
               NEW m, m = [r EXCEPT !.pc = pc, !.path = path]
        PROVE  EraseFine(e, m, stored)
    <2>1. DOMAIN m = DOMAIN Calm /\ m.read = r.read /\ m.holders = {} /\ m.names = {} /\ m.byName = {}
          /\ m.todo = r.todo /\ m.pc = pc /\ m.path = path
      BY <1>5, <1>7, <1>8 DEF Calm
    <2> QED
      BY <1>5, <1>7, <1>8, <2>1 DEF EraseFine, FoundFine, PlaceFine
  <1>9. [r EXCEPT !.pc = "open"] = [r EXCEPT !.pc = "open", !.path = "rewrite"]
    BY <1>5, <1>7 DEF Calm
  <1> QED
    BY <1>4, <1>8, <1>9, AnswerFine DEF Goes

(* A rewrite reads its source and goes on by it, or searches the others.   *)
LEMMA OpenGoes ==
    ASSUME IInv, NEW e \in Erasers, Open(e)
    PROVE  Goes(e)
  <1>1. PICK r : r = erase[e] /\ EraseFine(e, r, stored)
    BY DEF IInv
  <1>2. PICK read : read = [r.read EXCEPT ![From(r)] = objects[From(r)]]
    OBVIOUS
  <1>3. PICK opened : opened = [r EXCEPT !.read = read]
    OBVIOUS
  <1>4. opened = [r EXCEPT !.read[From(r)] = objects[From(r)]]
    BY <1>2, <1>3
  <1>5. /\ r.pc = "open"
        /\ EraseBecomes(e,
             IF \/ objects[From(r)] = None
                \/ /\ DescribingSummary(r.rec) # NoSummary
                   /\ DescribingSummary(r.rec).footerCrc # objects[From(r)].by
             THEN [r EXCEPT !.pc = "gone"]
             ELSE IF objects[From(r)].key # r.rec.wrappedDeks THEN Answer(r, "error")
             ELSE IF e \in Content(From(r)) THEN [opened EXCEPT !.pc = "number"]
             ELSE [opened EXCEPT !.pc = "list", !.path = "others"])
    BY <1>1, <1>4, Zenon DEF Open
  <1>6. DOMAIN r = DOMAIN Calm /\ DOMAIN r.read = Gens /\ r.todo \subseteq Gens
        /\ r.path = "rewrite" /\ r.holders = {} /\ r.names = {} /\ r.byName = {}
    BY <1>1, <1>5 DEF EraseFine, FoundFine, PlaceFine
  <1>7. DOMAIN opened = DOMAIN Calm /\ DOMAIN opened.read = Gens /\ opened.todo = r.todo
        /\ opened.path = "rewrite" /\ opened.holders = {} /\ opened.names = {} /\ opened.byName = {}
    BY <1>2, <1>3, <1>6 DEF Calm
  <1>8. ASSUME NEW q \in {r, opened}, NEW pc \in {"gone", "number", "list"}, NEW path,
               pc = "list" <=> path # "rewrite", NEW m, m = [q EXCEPT !.pc = pc, !.path = path]
        PROVE  EraseFine(e, m, stored)
    <2>1. DOMAIN q = DOMAIN Calm /\ DOMAIN q.read = Gens /\ q.todo \subseteq Gens
          /\ q.holders = {} /\ q.names = {} /\ q.byName = {}
      BY <1>6, <1>7
    <2>2. DOMAIN m = DOMAIN Calm /\ m.read = q.read /\ m.holders = {} /\ m.names = {} /\ m.byName = {}
          /\ m.todo = q.todo /\ m.pc = pc /\ m.path = path
      BY <1>8, <2>1 DEF Calm
    <2> QED
      BY <1>8, <2>1, <2>2 DEF EraseFine, FoundFine, PlaceFine
  <1>9. /\ [r EXCEPT !.pc = "gone"] = [r EXCEPT !.pc = "gone", !.path = "rewrite"]
        /\ [opened EXCEPT !.pc = "number"] = [opened EXCEPT !.pc = "number", !.path = "rewrite"]
    BY <1>6, <1>7 DEF Calm
  <1> QED
    BY <1>5, <1>8, <1>9, AnswerFine DEF Goes

(* A step that reads and goes on, or answers.                              *)
Steps(e) ==
    \E m : /\ EraseBecomes(e, m)
           /\ \/ \E r, result : m = Answer(r, result)
              \/ Retains(erase[e], m) /\ MovesOn(erase[e], m)

(* Such a step leaves the call fine.                                       *)
LEMMA StepsGo ==
    ASSUME IInv, NEW e \in Erasers, Steps(e)
    PROVE  Goes(e)
  <1>1. PICK m : EraseBecomes(e, m) /\ (\/ \E r, result : m = Answer(r, result)
                                        \/ Retains(erase[e], m) /\ MovesOn(erase[e], m))
    BY DEF Steps
  <1>2. EraseFine(e, erase[e], stored)
    BY DEF IInv
  <1>3. EraseFine(e, m, stored)
    BY <1>1, <1>2, AnswerFine, RetainsFine
  <1> QED
    BY <1>1, <1>3 DEF Goes

(* What a call may change of itself and retain what it found.              *)
LEMMA PcRetains ==
    ASSUME NEW e, NEW held, NEW l, EraseFine(e, l, held), NEW pc, NEW m, m = [l EXCEPT !.pc = pc]
    PROVE  Retains(l, m) /\ m.pc = pc /\ m.byName = l.byName
  BY DEF EraseFine, FoundFine, Retains, Calm

(* A rewrite reads the row, lists, and takes its number.                   *)
LEMMA NumberGoes ==
    ASSUME IInv, NEW e \in Erasers, NumberRewrite(e) \/ ListForNumber(e)
    PROVE  Steps(e)
  <1>1. PICK l : l = erase[e] /\ EraseFine(e, l, stored)
    BY DEF IInv
  <1>2. CASE NumberRewrite(e)
    <2>1. PICK m : /\ l.pc = "number" /\ EraseBecomes(e, m)
                   /\ m = [l EXCEPT !.pc = "numberList", !.row = row]
      BY <1>1, <1>2 DEF NumberRewrite
    <2>2. Retains(l, m) /\ MovesOn(l, m)
      BY <1>1, <2>1 DEF EraseFine, FoundFine, PlaceFine, Retains, MovesOn, Calm
    <2> QED
      BY <1>1, <2>1, <2>2 DEF Steps
  <1>3. CASE ListForNumber(e)
    <2>1. PICK g \in Gens : /\ l.pc = "numberList"
                           /\ EraseBecomes(e, [l EXCEPT !.pc = "write", !.gen = g, !.row = NoRow])
      BY <1>1, <1>3, Zenon DEF ListForNumber
    <2>2. PICK m : m = [l EXCEPT !.pc = "write", !.gen = g, !.row = NoRow] /\ EraseBecomes(e, m)
      BY <2>1
    <2>3. Retains(l, m) /\ MovesOn(l, m)
      BY <1>1, <2>1, <2>2 DEF EraseFine, FoundFine, PlaceFine, Retains, MovesOn, Calm
    <2> QED
      BY <1>1, <2>2, <2>3 DEF Steps
  <1> QED
    BY <1>2, <1>3

(* It copies its source under that number, or finds the source gone.       *)
LEMMA CopyGoes ==
    ASSUME IInv, NEW e \in Erasers, CopySource(e)
    PROVE  Steps(e)
  <1>1. PICK l : l = erase[e] /\ EraseFine(e, l, stored)
    BY DEF IInv
  <1>2. l.pc = "write"
    BY <1>1 DEF CopySource
  <1>3. PICK m : /\ \/ \E left : m = [l EXCEPT !.pc = "commit", !.left = left]
                    \/ m = [l EXCEPT !.pc = "gone", !.gen = NoGen]
                 /\ EraseBecomes(e, m)
    <2>1. PICK left : left = Content(From(l)) \ {e}
      OBVIOUS
    <2>2. EraseBecomes(e, IF objects[From(l)] = l.read[From(l)]
                          THEN [l EXCEPT !.pc = "commit", !.left = left]
                          ELSE [l EXCEPT !.pc = "gone", !.gen = NoGen])
      BY <1>1, <2>1 DEF CopySource
    <2>3. CASE objects[From(l)] = l.read[From(l)]
      <3>1. EraseBecomes(e, [l EXCEPT !.pc = "commit", !.left = left])
        BY <2>2, <2>3, Zenon
      <3> QED
        BY <3>1, Zenon
    <2>4. CASE ~(objects[From(l)] = l.read[From(l)])
      BY <2>2, <2>4, Zenon
    <2> QED
      BY <2>3, <2>4
  <1>4. ASSUME \E left : m = [l EXCEPT !.pc = "commit", !.left = left] PROVE Retains(l, m) /\ MovesOn(l, m)
    BY <1>1, <1>2, <1>4 DEF EraseFine, FoundFine, PlaceFine, Retains, MovesOn, Calm
  <1>5. ASSUME m = [l EXCEPT !.pc = "gone", !.gen = NoGen] PROVE Retains(l, m) /\ MovesOn(l, m)
    BY <1>1, <1>2, <1>5 DEF EraseFine, FoundFine, PlaceFine, Retains, MovesOn, Calm
  <1> QED
    BY <1>1, <1>3, <1>4, <1>5, Zenon DEF Steps

(* A rewrite keeps what it committed beside what it read; it searched none.*)
LEMMA CommitGoes ==
    ASSUME IInv, NEW e \in Erasers, CommitRewrite(e)
    PROVE  Goes(e)
  <1>1. PICK l : l = erase[e] /\ EraseFine(e, l, stored)
    BY DEF IInv
  <1>2. l.pc = "commit"
    BY <1>1 DEF CommitRewrite
  <1>3. CASE objects[l.gen] # None
    <2>1. PICK m : m = [l EXCEPT !.pc = "lostNumber", !.gen = NoGen] /\ EraseBecomes(e, m)
      BY <1>1, <1>3 DEF CommitRewrite
    <2>2. Retains(l, m) /\ MovesOn(l, m)
      BY <1>1, <2>1 DEF EraseFine, FoundFine, PlaceFine, Retains, MovesOn, Calm
    <2> QED
      BY <1>1, <2>1, <2>2, StepsGo DEF Steps
  <1>4. CASE ~(objects[l.gen] # None)
    <2>1. PICK object : EraseBecomes(e, [l EXCEPT !.pc = "early", !.read[l.gen] = object])
      BY <1>1, <1>4 DEF CommitRewrite
    <2>2. PICK read : read = [l.read EXCEPT ![l.gen] = object]
      OBVIOUS
    <2>3. PICK m : m = [l EXCEPT !.pc = "early", !.read = read]
      OBVIOUS
    <2>4. EraseBecomes(e, m)
      BY <2>1, <2>2, <2>3
    <2>5. DOMAIN l = DOMAIN Calm /\ DOMAIN l.read = Gens /\ l.todo \subseteq Gens
          /\ l.path = "rewrite" /\ l.holders = {} /\ l.names = {} /\ l.byName = {}
      BY <1>1, <1>2 DEF EraseFine, FoundFine, PlaceFine
    <2>6. DOMAIN m = DOMAIN Calm /\ DOMAIN m.read = Gens /\ m.todo = l.todo /\ m.pc = "early"
          /\ m.path = "rewrite" /\ m.holders = {} /\ m.names = {} /\ m.byName = {}
      BY <2>2, <2>3, <2>5 DEF Calm
    <2>7. EraseFine(e, m, stored)
      BY <2>5, <2>6 DEF EraseFine, FoundFine, PlaceFine
    <2> QED
      BY <2>4, <2>7 DEF Goes
  <1> QED
    BY <1>3, <1>4

(* Refused, a rewrite is discarded or was not made.                        *)
LEMMA RefusedRetains ==
    ASSUME NEW e, NEW held, NEW l, EraseFine(e, l, held), NEW verdict
    PROVE  \/ \E r, result : Refused(l, verdict) = Answer(r, result)
           \/ Retains(l, Refused(l, verdict)) /\ MovesOn(l, Refused(l, verdict))
  <1>1. PICK m : m = [l EXCEPT !.pc = "discard", !.reason = verdict]
    OBVIOUS
  <1>2. Retains(l, m) /\ MovesOn(l, m)
    BY <1>1 DEF EraseFine, FoundFine, Retains, MovesOn, Calm
  <1> QED
    BY <1>1, <1>2 DEF Refused

(* It asks whether the object it wrote is its own, and reads it back.      *)
LEMMA ProofsGo ==
    ASSUME IInv, NEW e \in Erasers,
           LostNumber(e) \/ SourceGone(e) \/ ProveRewrite(e) \/ VerifyRewrite(e)
    PROVE  Steps(e)
  <1>1. PICK l : l = erase[e] /\ EraseFine(e, l, stored)
    BY DEF IInv
  <1>2. ASSUME NEW pc \in {"verify", "publish", "gone"}
        PROVE  Retains(l, [l EXCEPT !.pc = pc]) /\ MovesOn(l, [l EXCEPT !.pc = pc])
    BY <1>1, PcRetains DEF MovesOn
  <1>3. CASE LostNumber(e)
    BY <1>1, <1>3 DEF LostNumber, Steps
  <1>4. CASE SourceGone(e)
    <2>1. PICK verdict : \/ EraseBecomes(e, Answer(l, "error"))
                         \/ EraseBecomes(e, Refused(l, verdict))
      BY <1>1, <1>4, Zenon DEF SourceGone
    <2> QED
      BY <1>1, <2>1, RefusedRetains DEF Steps
  <1>5. CASE ProveRewrite(e)
    <2>1. PICK verdict : \/ EraseBecomes(e, [l EXCEPT !.pc = "verify"])
                         \/ EraseBecomes(e, Refused(l, verdict))
      BY <1>1, <1>5, Zenon DEF ProveRewrite
    <2> QED
      BY <1>1, <1>2, <2>1, RefusedRetains DEF Steps
  <1>6. CASE VerifyRewrite(e)
    <2>1. \/ EraseBecomes(e, [l EXCEPT !.pc = "publish"])
          \/ EraseBecomes(e, [l EXCEPT !.pc = "gone"])
          \/ EraseBecomes(e, Answer(l, "error"))
      BY <1>1, <1>6 DEF VerifyRewrite
    <2> QED
      BY <1>1, <1>2, <2>1 DEF Steps
  <1> QED
    BY <1>3, <1>4, <1>5, <1>6

(* Its publish succeeds, fails, or is refused.                             *)
LEMMA PublishGoes ==
    ASSUME IInv, NEW e \in Erasers, PublishRewrite(e)
    PROVE  Steps(e)
  <1>1. PICK l : l = erase[e] /\ EraseFine(e, l, stored)
    BY DEF IInv
  <1>2. \/ EraseBecomes(e, Answer(l, "error"))
        \/ \E pc \in {"collect", "discard"} : EraseBecomes(e, [l EXCEPT !.pc = pc])
    BY <1>1 DEF PublishRewrite
  <1>3. ASSUME NEW pc \in {"collect", "discard"}
        PROVE  Retains(l, [l EXCEPT !.pc = pc]) /\ MovesOn(l, [l EXCEPT !.pc = pc])
    BY <1>1, PcRetains DEF MovesOn
  <1> QED
    BY <1>1, <1>2, <1>3 DEF Steps

-----------------------------------------------------------------------------
(* The conditional write of the row, and the discard of a rewrite.         *)

(* Discarded, a call answers.                                              *)
LEMMA DiscardFromRetains ==
    ASSUME NEW e, NEW held, NEW l, EraseFine(e, l, held), NEW now
    PROVE  \/ \E r, result : DiscardFrom(l, now) = Answer(r, result)
           \/ Retains(l, DiscardFrom(l, now)) /\ MovesOn(l, DiscardFrom(l, now))
  <1>1. PICK m : m = [l EXCEPT !.pc = "discardNumber"]
    OBVIOUS
  <1>2. PICK n : n = [l EXCEPT !.pc = "discardProve", !.row = now]
    OBVIOUS
  <1>3. Retains(l, m) /\ MovesOn(l, m) /\ Retains(l, n) /\ MovesOn(l, n)
    BY <1>1, <1>2 DEF EraseFine, FoundFine, Retains, MovesOn, Calm
  <1>4. PICK verdict : Discarded(l, now) = Answer(l, verdict)
    BY DEF Discarded
  <1> QED
    BY <1>1, <1>2, <1>3, <1>4, Zenon DEF DiscardFrom

(* It discards the object of a publish that was refused.                   *)
LEMMA DiscardsGo ==
    ASSUME IInv, NEW e \in Erasers, DiscardRead(e) \/ DiscardProve(e) \/ DiscardWaited(e) \/ DiscardDelete(e)
    PROVE  Steps(e)
  <1>1. PICK l : l = erase[e] /\ EraseFine(e, l, stored)
    BY DEF IInv
  <1>2. CASE DiscardRead(e)
    BY <1>1, <1>2, DiscardFromRetains DEF DiscardRead, Steps
  <1>3. CASE DiscardProve(e)
    <2>1. PICK verdict : \/ EraseBecomes(e, [l EXCEPT !.pc = "discardRenew"])
                         \/ EraseBecomes(e, Answer(l, verdict))
      BY <1>1, <1>3, Zenon DEF DiscardProve, Discarded
    <2>2. Retains(l, [l EXCEPT !.pc = "discardRenew"]) /\ MovesOn(l, [l EXCEPT !.pc = "discardRenew"])
      BY <1>1, PcRetains DEF MovesOn
    <2> QED
      BY <1>1, <2>1, <2>2 DEF Steps
  <1>4. CASE DiscardWaited(e)
    <2>1. PICK m : m = [l EXCEPT !.made = "none"] /\ EraseBecomes(e, DiscardFrom(m, row))
      BY <1>1, <1>4, Zenon DEF DiscardWaited
    <2>2. Retains(l, m) /\ m.pc = "discardRenew"
      <3>1. l.pc = "discardRenew"
        BY <1>1, <1>4 DEF DiscardWaited
      <3> QED
        BY <1>1, <2>1, <3>1 DEF EraseFine, FoundFine, Retains, Calm
    <2>3. EraseFine(e, m, stored)
      BY <1>1, <2>2, RetainsFine DEF MovesOn
    <2>4. \/ \E r, result : DiscardFrom(m, row) = Answer(r, result)
          \/ Retains(l, DiscardFrom(m, row)) /\ MovesOn(l, DiscardFrom(m, row))
      BY <2>2, <2>3, DiscardFromRetains DEF Retains, MovesOn
    <2> QED
      BY <1>1, <2>1, <2>4 DEF Steps
  <1>5. CASE DiscardDelete(e)
    <2>1. PICK verdict : \/ EraseBecomes(e, Answer(l, "destroyed"))
                         \/ EraseBecomes(e, Answer(l, verdict))
      BY <1>1, <1>5, Zenon DEF DiscardDelete, Discarded
    <2> QED
      BY <2>1 DEF Steps
  <1> QED
    BY <1>2, <1>3, <1>4, <1>5

(* A call that renews the pointer first, or asks what became of it.        *)
LEMMA RenewGoes ==
    ASSUME IInv, NEW e \in Erasers, DiscardRenew(e)
    PROVE  Steps(e)
  <1>1. PICK l : l = erase[e] /\ EraseFine(e, l, stored)
    BY DEF IInv
  <1>2. PICK r : r = [l EXCEPT !.writes = @ + 1]
    OBVIOUS
  <1>3. /\ l.pc = "discardRenew"
        /\ \/ \E now : EraseBecomes(e, [[r EXCEPT !.row = now] EXCEPT !.pc = "discardOwn"])
           \/ \E made : EraseBecomes(e, [r EXCEPT !.made = made])
    BY <1>1, <1>2 DEF DiscardRenew, WriteRow
  <1>4. ASSUME NEW now, NEW m, m = [[r EXCEPT !.row = now] EXCEPT !.pc = "discardOwn"]
        PROVE  Retains(l, m) /\ MovesOn(l, m)
    BY <1>1, <1>2, <1>4 DEF EraseFine, FoundFine, Retains, MovesOn, Calm
  <1>5. ASSUME NEW made, NEW m, m = [r EXCEPT !.made = made]
        PROVE  Retains(l, m) /\ MovesOn(l, m)
    BY <1>1, <1>2, <1>3, <1>5 DEF EraseFine, FoundFine, Retains, MovesOn, Calm
  <1> QED
    BY <1>1, <1>3, <1>4, <1>5 DEF Steps

(* What the read after a write settles: it writes again, waits, or has     *)
(* lost.                                                                   *)
Settles(l, m) ==
    \/ \E resends : m = [l EXCEPT !.made = "none", !.resends = resends, !.row = row]
    \/ m = Answer(l, "error")
    \/ \E churn : m = [l EXCEPT !.made = "waited", !.churn = churn]

(* A call whose write is settled keeps what it found, or answers.          *)
LEMMA SettlesFine ==
    ASSUME NEW e, NEW held, NEW l, EraseFine(e, l, held), NEW m, Settles(l, m),
           l.pc \in {"fenced", "discardRenew"}
    PROVE  \/ \E r, result : m = Answer(r, result)
           \/ Retains(l, m) /\ MovesOn(l, m)
  <1>1. CASE m = Answer(l, "error")
    BY <1>1
  <1>2. ASSUME NEW resends, m = [l EXCEPT !.made = "none", !.resends = resends, !.row = row]
        PROVE  Retains(l, m) /\ m.pc = l.pc
    BY <1>2 DEF EraseFine, FoundFine, Retains, Calm
  <1>3. ASSUME NEW churn, m = [l EXCEPT !.made = "waited", !.churn = churn]
        PROVE  Retains(l, m) /\ m.pc = l.pc
    BY <1>3 DEF EraseFine, FoundFine, Retains, Calm
  <1> QED
    BY <1>1, <1>2, <1>3 DEF Settles, MovesOn

(* It asks of its discard after a write without answer.                    *)
LEMMA AskGoes ==
    ASSUME IInv, NEW e \in Erasers, DiscardAsk(e)
    PROVE  Goes(e)
  <1>1. PICK l : l = erase[e] /\ EraseFine(e, l, stored)
    BY DEF IInv
  <1>2. PICK lost : lost = [l EXCEPT !.made = "none"]
    OBVIOUS
  <1>3. /\ l.pc = "discardRenew"
        /\ \/ \E m : Settles(l, m) /\ EraseBecomes(e, m)
           \/ EraseBecomes(e, DiscardLost(lost))
    BY <1>1, <1>2, Zenon DEF DiscardAsk, AskAfterWrite, Settles
  <1>4. Retains(l, lost) /\ lost.pc = "discardRenew"
    BY <1>1, <1>2, <1>3 DEF EraseFine, FoundFine, Retains, Calm
  <1>5. EraseFine(e, lost, stored)
    BY <1>1, <1>4, RetainsFine DEF MovesOn
  <1>6. PICK more : more = [lost EXCEPT !.attempts = lost.attempts + 1]
    OBVIOUS
  <1>7. Retains(lost, more) /\ more.pc = "discardRenew"
    BY <1>4, <1>5, <1>6 DEF EraseFine, FoundFine, Retains, Calm
  <1>8. EraseFine(e, more, stored)
    BY <1>5, <1>7, RetainsFine DEF MovesOn
  <1>9. \/ \E r, result : DiscardFrom(more, row) = Answer(r, result)
        \/ Retains(l, DiscardFrom(more, row)) /\ MovesOn(l, DiscardFrom(more, row))
    BY <1>4, <1>7, <1>8, DiscardFromRetains DEF Retains, MovesOn
  <1>10. CASE EraseBecomes(e, DiscardLost(lost))
    <2>1. CASE lost.attempts + 1 >= DiscardAttempts
      <3>1. PICK verdict : Discarded(lost, row) = Answer(lost, verdict)
        BY DEF Discarded
      <3>2. PICK a : a = Answer(lost, verdict)
        OBVIOUS
      <3>3. PICK m : m = [a EXCEPT !.kept = TRUE]
        OBVIOUS
      <3>4. EraseFine(e, a, stored)
        BY <3>2, AnswerFine
      <3>5. Retains(a, m) /\ m.pc = a.pc /\ m.todo = a.todo /\ m.byName = a.byName
        BY <3>3, <3>4 DEF EraseFine, FoundFine, Retains, Calm
      <3>6. EraseFine(e, m, stored)
        BY <3>4, <3>5 DEF EraseFine, FoundFine, PlaceFine, Retains
      <3>7. EraseBecomes(e, m)
        BY <1>10, <2>1, <3>1, <3>2, <3>3 DEF DiscardLost
      <3> QED
        BY <3>6, <3>7 DEF Goes
    <2>2. CASE ~(lost.attempts + 1 >= DiscardAttempts)
      <3>1. EraseBecomes(e, DiscardFrom(more, row))
        BY <1>6, <1>10, <2>2 DEF DiscardLost
      <3> QED
        BY <1>1, <1>9, <3>1, StepsGo DEF Steps
    <2> QED
      BY <2>1, <2>2
  <1>11. CASE \E m : Settles(l, m) /\ EraseBecomes(e, m)
    BY <1>1, <1>3, <1>11, SettlesFine, StepsGo DEF Steps
  <1> QED
    BY <1>3, <1>10, <1>11

-----------------------------------------------------------------------------
(* The search.                                                             *)

(* A call in its search, before it looks where it has got to.              *)
SearchFine(e, r, held) ==
    /\ DOMAIN r = DOMAIN Calm
    /\ DOMAIN r.read = Gens
    /\ r.todo \subseteq Gens
    /\ FoundFine(e, r, held)
    /\ r.pc = "search"
    /\ r.path # "rewrite"
    /\ r.holders \cap r.todo = {}

(* Where the search is over, what is to be deleted is of what was found.   *)
LEMMA AfterSearchFine ==
    ASSUME NEW e, NEW held, NEW r, SearchFine(e, r, held)
    PROVE  EraseFine(e, AfterSearch(r), held)
  <1>1. PICK m : m = [r EXCEPT !.pc = "collect"]
    OBVIOUS
  <1>2. EraseFine(e, m, held)
    BY <1>1 DEF SearchFine, EraseFine, FoundFine, PlaceFine, Calm
  <1>3. PICK names : /\ names \subseteq r.names
                     /\ names = IF r.path = "others" /\ r.found THEN {g \in r.names : g > From(r)} ELSE r.names
    OBVIOUS
  <1>4. PICK n : n = [r EXCEPT !.pc = "fence", !.names = names]
    OBVIOUS
  <1>6. EraseFine(e, n, held)
    BY <1>3, <1>4 DEF SearchFine, EraseFine, FoundFine, PlaceFine, Calm
  <1>5. AfterSearch(r) = IF r.path = "tombstone" THEN IF r.found THEN m ELSE Answer(r, "destroyed")
                         ELSE IF r.holders = {}
                         THEN Answer(r, IF r.path = "unpublished" THEN "noGeneration" ELSE "notMember")
                         ELSE n
    BY <1>1, <1>3, <1>4 DEF AfterSearch
  <1> QED
    BY <1>2, <1>5, <1>6, AnswerFine

(* A search goes on, or comes to what follows it.                          *)
LEMMA ContinueFine ==
    ASSUME NEW e, NEW held, NEW r, SearchFine(e, r, held)
    PROVE  EraseFine(e, Continue(r), held)
  <1>1. PICK t : t = CASE ~r.found \/ r.path = "unpublished" -> r
                       [] r.path = "tombstone" -> [r EXCEPT !.todo = {}]
                       [] OTHER -> [r EXCEPT !.todo = {g \in @ : g > From(r)}]
    OBVIOUS
  <1>2. PICK todo : /\ todo \subseteq r.todo
                    /\ t = r \/ t = [r EXCEPT !.todo = todo]
    <2>1. t \in {r, [r EXCEPT !.todo = {}], [r EXCEPT !.todo = {g \in r.todo : g > From(r)}]}
      BY <1>1
    <2> QED
      BY <2>1
  <1>3. SearchFine(e, t, held)
    BY <1>2 DEF SearchFine, FoundFine, Calm
  <1>4. PICK n : n = [t EXCEPT !.names = t.holders]
    OBVIOUS
  <1>5. SearchFine(e, n, held)
    BY <1>3, <1>4 DEF SearchFine, FoundFine, Calm
  <1>6. t.todo # {} => EraseFine(e, t, held)
    BY <1>3 DEF SearchFine, EraseFine, PlaceFine
  <1>7. Continue(r) = IF t.todo = {} THEN AfterSearch(n) ELSE t
    BY <1>1, <1>4 DEF Continue
  <1> QED
    BY <1>5, <1>6, <1>7, AfterSearchFine

(* It lists what it is to search.                                          *)
LEMMA ListGoes ==
    ASSUME IInv, NEW e \in Erasers, List(e)
    PROVE  Goes(e)
  <1>1. PICK l : l = erase[e] /\ EraseFine(e, l, stored)
    BY DEF IInv
  <1>2. PICK todo : /\ todo \subseteq Gens
                    /\ todo = Listed \ (IF l.path = "others" THEN {From(l)} ELSE {})
    BY DEF Listed
  <1>3. PICK t : t = [l EXCEPT !.pc = "search", !.todo = todo]
    OBVIOUS
  <1>4. l.pc = "list" /\ EraseBecomes(e, Continue(t))
    BY <1>1, <1>2, <1>3 DEF List
  <1>5. SearchFine(e, t, stored)
    BY <1>1, <1>2, <1>3, <1>4 DEF SearchFine, EraseFine, FoundFine, PlaceFine, Calm
  <1> QED
    BY <1>4, <1>5, ContinueFine DEF Goes

(* What a search finds to hold the id, it read as it is then.              *)
LEMMA SearchGoes ==
    ASSUME IInv, NEW e \in Erasers, Search(e)
    PROVE  Goes(e)
  <1>1. PICK l : l = erase[e] /\ EraseFine(e, l, stored)
    BY DEF IInv
  <1>2. l.pc = "search" /\ EraseBecomes(e, Continue(Searched(e, l)))
    BY <1>1 DEF Search
  <1>3. /\ DOMAIN l = DOMAIN Calm /\ DOMAIN l.read = Gens
        /\ l.todo \subseteq Gens /\ l.todo # {} /\ l.holders \cap l.todo = {}
        /\ FoundFine(e, l, stored) /\ l.path # "rewrite"
    BY <1>1, <1>2 DEF EraseFine, PlaceFine
  <1>4. PICK g : g = Newest(l.todo) /\ g \in l.todo /\ g \in Gens
    BY <1>3, NewestIsOne
  <1>5. PICK read : read = [l.read EXCEPT ![g] = objects[g]]
    OBVIOUS
  <1>6. PICK t : t = [l EXCEPT !.todo = l.todo \ {g}, !.read = read]
    OBVIOUS
  <1>7. /\ DOMAIN t = DOMAIN Calm /\ t.read = read /\ t.todo = l.todo \ {g} /\ t.rec = l.rec
        /\ t.holders = l.holders /\ t.names = l.names /\ t.byName = l.byName
        /\ t.pc = l.pc /\ t.path = l.path
    BY <1>3, <1>6 DEF Calm
  <1>8. \A h \in l.holders : h # g /\ read[h] = l.read[h]
    BY <1>3, <1>4, <1>5 DEF FoundFine
  <1>9. SearchFine(e, t, stored)
    BY <1>2, <1>3, <1>5, <1>7, <1>8 DEF SearchFine, FoundFine
  <1>10. /\ From(t) = From(l) /\ Searchable(t, objects[g]) = Searchable(l, objects[g])
    BY <1>7 DEF From, Searchable, Tombstoned
  <1>11. CASE objects[g] = None \/ ~Holds(e, l, g)
    <2>1. Searched(e, l) = t
      BY <1>4, <1>5, <1>6, <1>11 DEF Searched
    <2> QED
      BY <1>2, <1>9, <2>1, ContinueFine DEF Goes
  <1>12. CASE ~(objects[g] = None \/ ~Holds(e, l, g))
    <2>1. PICK found : found = (t.found \/ Searchable(l, objects[g]))
      OBVIOUS
    <2>2. PICK n : n = [t EXCEPT !.holders = t.holders \cup {g}, !.found = found]
      OBVIOUS
    <2>3. Searched(e, l) = n
      <3>1. [l EXCEPT !.todo = @ \ {g}, !.read[g] = objects[g]] = t
        BY <1>5, <1>6
      <3>2. Searched(e, l) = [t EXCEPT !.holders = @ \cup {g}, !.found = @ \/ Searchable(l, objects[g])]
        BY <1>4, <1>12, <3>1, Zenon DEF Searched
      <3> QED
        BY <2>1, <2>2, <3>2
    <2>4. /\ DOMAIN n = DOMAIN Calm /\ n.read = read /\ n.todo = t.todo /\ n.rec = l.rec
          /\ n.holders = l.holders \cup {g} /\ n.names = l.names /\ n.byName = l.byName
          /\ n.pc = l.pc /\ n.path = l.path
      BY <1>7, <2>2 DEF Calm
    <2>5. MayHold(e, l.rec, g, read[g], stored) /\ read[g] # None
      BY <1>3, <1>4, <1>5, <1>12, HoldsNow
    <2>6. SearchFine(e, n, stored)
      BY <1>2, <1>3, <1>4, <1>7, <1>8, <1>9, <2>4, <2>5 DEF SearchFine, FoundFine
    <2> QED
      BY <1>2, <2>3, <2>6, ContinueFine DEF Goes
  <1> QED
    BY <1>11, <1>12

-----------------------------------------------------------------------------
(* The fence and the collection.                                           *)

(* A fence plans to delete by name all the call may, or nothing.           *)
LEMMA FencePlans ==
    ASSUME NEW r
    PROVE  "byName" \in DOMAIN Fence(r) /\ Fence(r).byName \in {{}, PlanNames(r)}
  <1> DEFINE goOn(moved) == [writes |-> FALSE, moved |-> moved, byName |-> {}, sweep |-> FALSE,
                             ledger |-> TRUE, pruned |-> FALSE, past |-> FALSE, patch |-> <<>>,
                             premise |-> r.premise]
             plan   == PlanNames(r)
             past   == plan # {} /\ ~HeldRow(r)
             byName == IF past THEN {} ELSE plan
             doomed == Doomed(r, byName)
             named  == Generations(UsableKnownGens(r.row)) \cap doomed # {}
             renew  == byName # {} \/ (SweepOwes(r) /\ ~named)
             moved  == IF plan = {} THEN "none" ELSE IF r.row = NoRow THEN "absent"
                       ELSE IF r.row.status = "destroyed" THEN "destroyed" ELSE "superseded"
             writes == named \/ (renew /\ ~(HeldRow(r) /\ r.row.pointerId # r.first.pointerId))
             ledger == UsableKnownGens(r.row) # <<>>
             patch  == (IF renew THEN RenewPointer(r.row) ELSE <<>>)
                          @@ (IF named THEN [knownGens |-> PruneKnown(r.row, doomed)] ELSE <<>>)
             came   == IF past THEN "superseded" ELSE "none"
             made   == [writes |-> writes, moved |-> came, byName |-> byName, sweep |-> Sweeps(r),
                        ledger |-> ledger, pruned |-> named, past |-> past, premise |-> r.row,
                        patch |-> patch]
  <1>1. Fence(r) = IF r.row # NoRow /\ ~SameIncarnation(r.rec, r.row) THEN goOn("superseded")
                   ELSE IF NothingToFence(r) THEN [goOn(moved) EXCEPT !.sweep = Sweeps(r)]
                   ELSE IF past /\ ~PastHolders(r) THEN goOn("superseded")
                   ELSE made
    BY Zenon DEF Fence
  <1>2. byName \in {{}, PlanNames(r)}
    OBVIOUS
  <1>3. "byName" \in DOMAIN made /\ made.byName = byName
    <2> HIDE DEF writes, came, byName, ledger, named, past, patch
    <2> QED
      OBVIOUS
  <1>4. "byName" \in DOMAIN goOn("superseded") /\ goOn("superseded").byName = {}
    OBVIOUS
  <1>5. ASSUME NEW f, f = [goOn(moved) EXCEPT !.sweep = Sweeps(r)]
        PROVE  "byName" \in DOMAIN f /\ f.byName = {}
    <2>1. PICK g : g = goOn(moved)
      OBVIOUS
    <2>2. "byName" \in DOMAIN g /\ g.byName = {}
      <3> HIDE DEF moved
      <3> QED
        BY <2>1
    <2> QED
      BY <1>5, <2>1, <2>2
  <1> HIDE DEF goOn, made, moved, past, byName
  <1>6. \/ Fence(r) = goOn("superseded")
        \/ Fence(r) = [goOn(moved) EXCEPT !.sweep = Sweeps(r)]
        \/ Fence(r) = made
    BY <1>1, Zenon
  <1> QED
    BY <1>2, <1>3, <1>4, <1>5, <1>6, Zenon

(* A call that goes past its sweep deletes what it is to, by name.         *)
LEMMA AfterSweepFine ==
    ASSUME NEW e, NEW held, NEW r, EraseFine(e, r, held)
    PROVE  EraseFine(e, AfterSweep(r), held)
  <1>1. PICK m : m = [r EXCEPT !.pc = "check", !.looks = 0]
    OBVIOUS
  <1>2. PICK n : n = [r EXCEPT !.pc = "receipt"]
    OBVIOUS
  <1>3. Retains(r, m) /\ m.pc = "check" /\ m.byName = r.byName /\ Retains(r, n) /\ n.pc = "receipt"
    BY <1>1, <1>2 DEF EraseFine, FoundFine, Retains, Calm
  <1>4. EraseFine(e, n, held) /\ (r.byName # {} => EraseFine(e, m, held))
    BY <1>3, RetainsFine DEF MovesOn
  <1> QED
    BY <1>1, <1>2, <1>4, AnswerFine DEF AfterSweep

(* A fence judged sends the call on to its deletes, a sweep or an answer.  *)
LEMMA GoOnFine ==
    ASSUME NEW e, NEW held, NEW r, EraseFine(e, r, held), NEW f, f.byName \subseteq r.holders,
           r.pc = "fenced"
    PROVE  EraseFine(e, GoOnFrom(r, f), held)
  <1>1. PICK t : t = [r EXCEPT !.row = NoRow, !.first = NoRow, !.resends = 0, !.churn = 0,
                               !.premise = f.premise]
    OBVIOUS
  <1>2. Retains(r, t) /\ t.pc = "fenced" /\ t.passes = r.passes /\ t.byName = r.byName
    BY <1>1 DEF EraseFine, FoundFine, Retains, Calm
  <1>3. EraseFine(e, t, held)
    BY <1>2, RetainsFine DEF MovesOn
  <1>4. PICK s : s = [t EXCEPT !.moved = f.moved, !.byName = f.byName, !.ledgered = f.ledger, !.past = f.past]
    OBVIOUS
  <1>5. EraseFine(e, s, held) /\ s.pc = "fenced"
    <2>1. Retains(t, s) /\ s.pc = "fenced"
      BY <1>2, <1>3, <1>4 DEF EraseFine, FoundFine, Retains, Calm
    <2> QED
      BY <1>3, <2>1, RetainsFine DEF MovesOn
  <1>6. PICK u : u = [t EXCEPT !.moved = IF f.moved = "absent" THEN @ ELSE f.moved]
    OBVIOUS
  <1>7. EraseFine(e, u, held)
    <2>1. PICK moved : moved = IF f.moved = "absent" THEN t.moved ELSE f.moved
      OBVIOUS
    <2>2. u = [t EXCEPT !.moved = moved]
      BY <1>6, <2>1
    <2>3. Retains(t, u) /\ u.pc = "fenced"
      BY <1>2, <1>3, <2>2 DEF EraseFine, FoundFine, Retains, Calm
    <2> QED
      BY <1>3, <2>3, RetainsFine DEF MovesOn
  <1>8. ASSUME NEW q \in {s, t}
        PROVE  EraseFine(e, [q EXCEPT !.pc = "collect"], held)
    <2>1. EraseFine(e, q, held)
      BY <1>3, <1>5
    <2> QED
      BY <2>1, PcRetains, RetainsFine DEF MovesOn
  <1>9. GoOnFrom(r, f) =
          IF r.passes = 0 THEN IF f.sweep THEN [s EXCEPT !.pc = "collect"] ELSE AfterSweep(s)
          ELSE IF f.moved # "none" /\ ~f.past THEN AfterSweep(u)
          ELSE IF f.pruned THEN [t EXCEPT !.pc = "collect"] ELSE AfterSweep(t)
    BY <1>1, <1>4, <1>6 DEF GoOnFrom
  <1> QED
    BY <1>3, <1>5, <1>7, <1>8, <1>9, AfterSweepFine

(* It reads the row its fence starts from.                                 *)
LEMMA FenceReadGoes ==
    ASSUME IInv, NEW e \in Erasers, FenceRead(e)
    PROVE  Steps(e)
  <1>1. PICK l : l = erase[e] /\ EraseFine(e, l, stored)
    BY DEF IInv
  <1>2. PICK m : m = [l EXCEPT !.pc = "fenced", !.row = row, !.first = row] /\ EraseBecomes(e, m)
    BY <1>1 DEF FenceRead
  <1>3. Retains(l, m) /\ MovesOn(l, m)
    BY <1>1, <1>2 DEF EraseFine, FoundFine, Retains, MovesOn, Calm
  <1> QED
    BY <1>1, <1>2, <1>3 DEF Steps

(* Whatever is written, the call goes on from a fence it planned.          *)
LEMMA FenceGoes ==
    ASSUME IInv, NEW e \in Erasers, FenceGoesOn(e) \/ FenceWrites(e) \/ FenceWaited(e)
    PROVE  Goes(e)
  <1>1. PICK l : l = erase[e] /\ EraseFine(e, l, stored)
    BY DEF IInv
  <1>2. l.pc = "fenced"
    BY <1>1 DEF FenceGoesOn, FenceWrites, FenceWaited
  <1>3. PICK f : f = Fence(l) /\ "byName" \in DOMAIN f /\ f.byName \subseteq l.holders
    <2>1. PlanNames(l) \subseteq l.holders
      BY <1>1 DEF PlanNames, EraseFine, FoundFine
    <2> QED
      BY <2>1, FencePlans
  <1>4. CASE FenceGoesOn(e)
    <2>1. EraseBecomes(e, GoOnFrom(l, f))
      BY <1>1, <1>3, <1>4 DEF FenceGoesOn
    <2> QED
      BY <1>1, <1>2, <1>3, <2>1, GoOnFine DEF Goes
  <1>5. CASE FenceWrites(e)
    <2>1. PICK r : r = [l EXCEPT !.writes = @ + 1]
      OBVIOUS
    <2>2. \/ \E now : EraseBecomes(e, GoOnFrom([r EXCEPT !.row = now],
                                               [f EXCEPT !.premise = [r EXCEPT !.row = now].row]))
          \/ \E made : EraseBecomes(e, [r EXCEPT !.made = made])
      BY <1>1, <1>3, <1>5, <2>1 DEF FenceWrites, WriteRow
    <2>3. ASSUME NEW now, NEW m, m = [r EXCEPT !.row = now]
          PROVE  EraseFine(e, GoOnFrom(m, [f EXCEPT !.premise = m.row]), stored)
      <3>1. Retains(l, m) /\ m.pc = "fenced"
        BY <1>1, <1>2, <2>1, <2>3 DEF EraseFine, FoundFine, Retains, Calm
      <3>2. EraseFine(e, m, stored)
        BY <1>1, <3>1, RetainsFine DEF MovesOn
      <3>3. PICK g : g = [f EXCEPT !.premise = m.row]
        OBVIOUS
      <3>4. g.byName \subseteq m.holders
        BY <1>3, <3>1, <3>3 DEF Retains
      <3> QED
        BY <3>1, <3>2, <3>3, <3>4, GoOnFine
    <2>4. ASSUME NEW made, NEW m, m = [r EXCEPT !.made = made]
          PROVE  EraseFine(e, m, stored)
      <3>1. Retains(l, m) /\ m.pc = "fenced"
        BY <1>1, <1>2, <2>1, <2>4 DEF EraseFine, FoundFine, Retains, Calm
      <3> QED
        BY <1>1, <3>1, RetainsFine DEF MovesOn
    <2> QED
      BY <2>2, <2>3, <2>4 DEF Goes
  <1>6. CASE FenceWaited(e)
    <2>1. PICK m : m = [l EXCEPT !.made = "none", !.row = row] /\ EraseBecomes(e, m)
      BY <1>1, <1>6 DEF FenceWaited
    <2>2. Retains(l, m) /\ m.pc = "fenced"
      BY <1>1, <1>2, <2>1 DEF EraseFine, FoundFine, Retains, Calm
    <2> QED
      BY <1>1, <2>1, <2>2, RetainsFine DEF MovesOn, Goes
  <1> QED
    BY <1>4, <1>5, <1>6

(* It asks of its fence after a write without answer.                      *)
LEMMA FenceAskGoes ==
    ASSUME IInv, NEW e \in Erasers, FenceAsk(e)
    PROVE  Goes(e)
  <1>1. PICK l : l = erase[e] /\ EraseFine(e, l, stored)
    BY DEF IInv
  <1>2. PICK lost : lost = [l EXCEPT !.made = "none"]
    OBVIOUS
  <1>3. /\ l.pc = "fenced"
        /\ \/ \E m : Settles(l, m) /\ EraseBecomes(e, m)
           \/ EraseBecomes(e, FenceLost(lost))
    BY <1>1, <1>2, Zenon DEF FenceAsk, AskAfterWrite, Settles
  <1>4. Retains(l, lost) /\ lost.pc = "fenced"
    BY <1>1, <1>2, <1>3 DEF EraseFine, FoundFine, Retains, Calm
  <1>5. EraseFine(e, lost, stored)
    BY <1>1, <1>4, RetainsFine DEF MovesOn
  <1>6. PICK more : more = [lost EXCEPT !.lost = @ + 1, !.row = row]
    OBVIOUS
  <1>7. EraseFine(e, more, stored)
    <2>1. Retains(lost, more) /\ more.pc = "fenced"
      BY <1>4, <1>5, <1>6 DEF EraseFine, FoundFine, Retains, Calm
    <2> QED
      BY <1>5, <2>1, RetainsFine DEF MovesOn
  <1>8. PICK f : f = [moved |-> "superseded", byName |-> {}, sweep |-> FALSE, ledger |-> TRUE,
                      pruned |-> FALSE, past |-> FALSE, premise |-> lost.premise]
    OBVIOUS
  <1>9. EraseFine(e, GoOnFrom(lost, f), stored)
    BY <1>4, <1>5, <1>8, GoOnFine
  <1>10. FenceLost(lost) = more \/ FenceLost(lost) = GoOnFrom(lost, f)
    BY <1>6, <1>8 DEF FenceLost
  <1>11. CASE \E m : Settles(l, m) /\ EraseBecomes(e, m)
    BY <1>1, <1>3, <1>11, SettlesFine, StepsGo DEF Steps
  <1> QED
    BY <1>3, <1>7, <1>9, <1>10, <1>11 DEF Goes

(* The collection below the pointer, and where the call goes from it.      *)
LEMMA CollectGoes ==
    ASSUME IInv, NEW e \in Erasers, CollectStart(e) \/ CollectEnded(e)
    PROVE  Goes(e)
  <1>1. PICK l : l = erase[e] /\ EraseFine(e, l, stored)
    BY DEF IInv
  <1>2. CASE CollectStart(e)
    <2>1. EraseBecomes(e, [l EXCEPT !.pc = "collecting"])
      BY <1>1, <1>2 DEF CollectStart
    <2> QED
      BY <1>1, <2>1, PcRetains, RetainsFine DEF MovesOn, Goes
  <1>3. CASE CollectEnded(e)
    <2>1. PICK s : s = pass[e]
      OBVIOUS
    <2>2. PICK missing : missing = (s.result = "missing")
      OBVIOUS
    <2>3. PICK t : t = [l EXCEPT !.missing = missing, !.passes = @ + 1]
      OBVIOUS
    <2>4. AfterCollect(l, s) \in {[l EXCEPT !.pc = "receipt"], [t EXCEPT !.pc = "fence"], AfterSweep(t)}
      BY <2>2, <2>3 DEF AfterCollect
    <2>5. l.pc = "collecting" /\ (EraseBecomes(e, Answer(l, "error")) \/ EraseBecomes(e, AfterCollect(l, s)))
      BY <1>1, <1>3, <2>1 DEF CollectEnded
    <2>6. Retains(l, t) /\ t.pc = "collecting"
      BY <1>1, <2>3, <2>5 DEF EraseFine, FoundFine, Retains, Calm
    <2>7. EraseFine(e, t, stored)
      BY <1>1, <2>6, RetainsFine DEF MovesOn
    <2>8. EraseFine(e, AfterSweep(t), stored)
      BY <2>7, AfterSweepFine
    <2>9. EraseFine(e, [t EXCEPT !.pc = "fence"], stored)
      BY <2>7, PcRetains, RetainsFine DEF MovesOn
    <2>10. EraseFine(e, [l EXCEPT !.pc = "receipt"], stored)
      BY <1>1, PcRetains, RetainsFine DEF MovesOn
    <2> QED
      BY <2>4, <2>5, <2>8, <2>9, <2>10, AnswerFine DEF Goes
  <1> QED
    BY <1>2, <1>3

-----------------------------------------------------------------------------
(* The deletes by name.                                                    *)

(* What stops the deletes leaves what was found.                           *)
LEMMA StopFine ==
    ASSUME NEW e, NEW held, NEW r, EraseFine(e, r, held), NEW moved
    PROVE  EraseFine(e, StopDeletes(r, moved), held)
  <1>1. PICK pc : pc \in {"settle", "receipt"} /\ pc = IF r.unread THEN "settle" ELSE "receipt"
    OBVIOUS
  <1>2. PICK m : m = [r EXCEPT !.pc = pc, !.moved = moved, !.byName = {}, !.looks = 0]
    OBVIOUS
  <1>3. Retains(r, m) /\ m.pc = pc
    BY <1>2 DEF EraseFine, FoundFine, Retains, Calm
  <1>4. StopDeletes(r, moved) = m
    BY <1>1, <1>2 DEF StopDeletes
  <1> QED
    BY <1>1, <1>3, <1>4, RetainsFine DEF MovesOn

(* It looks once more at a row that is missing, or stops.                  *)
LEMMA LookFine ==
    ASSUME NEW e, NEW held, NEW r, EraseFine(e, r, held), r.pc \in {"check", "settle"}
    PROVE  EraseFine(e, LookForMissing(r), held)
  <1>1. PICK m : m = [r EXCEPT !.looks = @ + 1]
    OBVIOUS
  <1>2. PICK n : n = [r EXCEPT !.pc = "receipt", !.moved = "superseded", !.missing = TRUE]
    OBVIOUS
  <1>3. Retains(r, m) /\ m.pc = r.pc /\ m.byName = r.byName /\ Retains(r, n) /\ n.pc = "receipt"
    BY <1>1, <1>2 DEF EraseFine, FoundFine, Retains, Calm
  <1>4. r.pc = "check" => r.byName # {}
    BY DEF EraseFine, PlaceFine
  <1>5. EraseFine(e, m, held) /\ EraseFine(e, n, held)
    BY <1>3, <1>4, RetainsFine DEF MovesOn
  <1> QED
    BY <1>1, <1>2, <1>5 DEF LookForMissing

(* It reads the row before each delete, and deletes under a row it vouched *)
(* for.                                                                    *)
LEMMA CheckGoes ==
    ASSUME IInv, NEW e \in Erasers, DeleteCheck(e)
    PROVE  Goes(e)
  <1>1. PICK l : l = erase[e] /\ EraseFine(e, l, stored)
    BY DEF IInv
  <1>2. PICK now : now = IF l.looks = 0 THEN row ELSE l.row
    OBVIOUS
  <1>3. PICK verdict : verdict = RowVerdict(l, now, {"pointerId", "knownGens"})
    OBVIOUS
  <1>4. PICK t : t = [l EXCEPT !.looks = 0, !.unread = FALSE, !.row = NoRow]
    OBVIOUS
  <1>5. PICK s : s = [l EXCEPT !.row = now]
    OBVIOUS
  <1>6. l.pc = "check" /\ l.byName # {}
    <2>1. l.pc = "check"
      BY <1>1 DEF DeleteCheck
    <2> QED
      BY <1>1, <2>1 DEF EraseFine, PlaceFine
  <1>7. \/ EraseBecomes(e, StopDeletes(l, l.moved))
        \/ EraseBecomes(e, LookForMissing(s))
        \/ \E moved : EraseBecomes(e, StopDeletes(t, moved))
        \/ EraseBecomes(e, [t EXCEPT !.pc = "delete"])
    BY <1>1, <1>2, <1>3, <1>4, <1>5, Zenon DEF DeleteCheck
  <1>8. /\ Retains(l, t) /\ t.pc = "check" /\ t.byName = l.byName
        /\ Retains(l, s) /\ s.pc = "check" /\ s.byName = l.byName
    BY <1>1, <1>4, <1>5, <1>6 DEF EraseFine, FoundFine, Retains, Calm
  <1>9. EraseFine(e, t, stored) /\ EraseFine(e, s, stored)
    BY <1>1, <1>6, <1>8, RetainsFine DEF MovesOn
  <1>10. EraseFine(e, [t EXCEPT !.pc = "delete"], stored)
    BY <1>6, <1>8, <1>9, PcRetains, RetainsFine DEF MovesOn
  <1> QED
    BY <1>1, <1>7, <1>8, <1>9, <1>10, StopFine, LookFine DEF Goes

(* It deletes the newest of what it still has to.                          *)
LEMMA DeleteGoes ==
    ASSUME IInv, NEW e \in Erasers, DeleteHolder(e)
    PROVE  Goes(e)
  <1>1. PICK l : l = erase[e] /\ EraseFine(e, l, stored)
    BY DEF IInv
  <1>2. PICK g : g = Newest(l.byName)
    OBVIOUS
  <1>3. PICK t : t = [l EXCEPT !.byName = @ \ {g}, !.gone = @ \cup {g}, !.unread = TRUE]
    OBVIOUS
  <1>4. l.pc = "delete" /\ \/ t.byName = {} /\ EraseBecomes(e, StopDeletes(t, "none"))
                           \/ t.byName # {} /\ EraseBecomes(e, [t EXCEPT !.pc = "check"])
                           \/ EraseBecomes(e, [l EXCEPT !.pc = "replaced"])
    BY <1>1, <1>2, <1>3 DEF DeleteHolder
  <1>5. PICK u : u = [t EXCEPT !.pc = "check"]
    OBVIOUS
  <1>6. PICK v : v = StopDeletes(t, "none")
    OBVIOUS
  <1>7. /\ Retains(l, u) /\ u.pc = "check" /\ u.byName = t.byName
        /\ Retains(l, v) /\ v.pc = "settle"
    <2>1. v = [t EXCEPT !.pc = "settle", !.moved = "none", !.byName = {}, !.looks = 0]
      BY <1>1, <1>3, <1>6 DEF StopDeletes, EraseFine, Calm
    <2>2. /\ DOMAIN t = DOMAIN Calm /\ t.rec = l.rec /\ t.read = l.read /\ t.path = l.path
          /\ t.holders = l.holders /\ t.names = l.names /\ t.byName \subseteq l.holders
          /\ t.todo \subseteq Gens
      BY <1>1, <1>3 DEF EraseFine, FoundFine, Calm
    <2> QED
      BY <1>5, <2>1, <2>2 DEF Retains, Calm
  <1>8. t.byName # {} => EraseFine(e, u, stored)
    BY <1>1, <1>7, RetainsFine DEF MovesOn
  <1>9. EraseFine(e, v, stored)
    BY <1>1, <1>7, RetainsFine DEF MovesOn
  <1>10. EraseFine(e, [l EXCEPT !.pc = "replaced"], stored)
    BY <1>1, PcRetains, RetainsFine DEF MovesOn
  <1> QED
    BY <1>4, <1>5, <1>6, <1>8, <1>9, <1>10 DEF Goes

(* It reads the row once more after its deletes.                           *)
LEMMA SettleGoes ==
    ASSUME IInv, NEW e \in Erasers, DeleteReplaced(e) \/ DeleteSettle(e)
    PROVE  Goes(e)
  <1>1. PICK l : l = erase[e] /\ EraseFine(e, l, stored)
    BY DEF IInv
  <1>2. CASE DeleteReplaced(e)
    <2>1. PICK moved : EraseBecomes(e, StopDeletes(l, moved))
      BY <1>1, <1>2 DEF DeleteReplaced
    <2> QED
      BY <1>1, <2>1, StopFine DEF Goes
  <1>3. CASE DeleteSettle(e)
    <2>1. l.pc = "settle" /\ (\/ EraseBecomes(e, LookForMissing(l))
                              \/ EraseBecomes(e, [l EXCEPT !.pc = "receipt"]))
      BY <1>1, <1>3 DEF DeleteSettle
    <2>2. EraseFine(e, [l EXCEPT !.pc = "receipt"], stored)
      BY <1>1, PcRetains, RetainsFine DEF MovesOn
    <2> QED
      BY <1>1, <2>1, <2>2, LookFine DEF Goes
  <1> QED
    BY <1>2, <1>3

-----------------------------------------------------------------------------
(* The receipt.                                                            *)

(* It turns to read what the segment still holds.                          *)
LEMMA ReadLeftFine ==
    ASSUME NEW e, NEW held, NEW r, EraseFine(e, r, held), NEW gens, gens \subseteq Gens
    PROVE  EraseFine(e, ReadLeft(r, gens), held)
  <1>1. PICK m : m = [r EXCEPT !.pc = "left", !.todo = gens]
    OBVIOUS
  <1>2. Retains(r, m) /\ m.pc = "left"
    BY <1>1 DEF EraseFine, FoundFine, Retains, Calm
  <1>3. EraseFine(e, m, held)
    BY <1>2, RetainsFine DEF MovesOn
  <1>4. EraseFine(e, Conclude(r, FALSE), held)
    BY AnswerFine DEF Conclude
  <1> QED
    BY <1>1, <1>3, <1>4 DEF ReadLeft

(* It reads what is left, and concludes.                                   *)
LEMMA ReceiptGoes ==
    ASSUME IInv, NEW e \in Erasers, Receipt(e) \/ Vouch(e) \/ ReadOneLeft(e)
    PROVE  Goes(e)
  <1>1. PICK l : l = erase[e] /\ EraseFine(e, l, stored)
    BY DEF IInv
  <1>2. CASE Receipt(e)
    <2>1. PICK listed : listed = {<<g, objects[g]>> : g \in Listed}
      OBVIOUS
    <2>2. PICK r : r = [l EXCEPT !.listed = listed]
      OBVIOUS
    <2>3. r.pc = "receipt" /\ (\/ EraseBecomes(e, [r EXCEPT !.pc = "vouch", !.todo = Listed])
                               \/ EraseBecomes(e, ReadLeft(r, Listed)))
      BY <1>1, <1>2, <2>1, <2>2 DEF Receipt
    <2>4. PICK gens : gens = Listed /\ gens \subseteq Gens
      BY DEF Listed
    <2>5. Retains(l, r)
      BY <1>1, <2>2 DEF EraseFine, FoundFine, Retains, Calm
    <2>6. EraseFine(e, r, stored)
      BY <1>1, <2>3, <2>5, RetainsFine DEF MovesOn
    <2>7. PICK m : m = [r EXCEPT !.pc = "vouch", !.todo = gens]
      OBVIOUS
    <2>8. Retains(r, m) /\ m.pc = "vouch"
      BY <2>4, <2>6, <2>7 DEF EraseFine, FoundFine, Retains, Calm
    <2>9. EraseFine(e, m, stored)
      BY <2>6, <2>8, RetainsFine DEF MovesOn
    <2> QED
      BY <2>3, <2>4, <2>6, <2>7, <2>9, ReadLeftFine DEF Goes
  <1>3. CASE Vouch(e)
    <2>1. PICK named : EraseBecomes(e, ReadLeft(l, l.todo \ named))
      BY <1>1, <1>3 DEF Vouch
    <2>2. l.todo \ named \subseteq Gens
      BY <1>1 DEF EraseFine
    <2> QED
      BY <1>1, <2>1, <2>2, ReadLeftFine DEF Goes
  <1>4. CASE ReadOneLeft(e)
    <2>1. PICK g : \/ EraseBecomes(e, Conclude(l, TRUE))
                   \/ EraseBecomes(e, ReadLeft(l, l.todo \ {g}))
      BY <1>1, <1>4 DEF ReadOneLeft
    <2>2. l.todo \ {g} \subseteq Gens
      BY <1>1 DEF EraseFine
    <2>3. EraseFine(e, Conclude(l, TRUE), stored)
      BY AnswerFine DEF Conclude
    <2> QED
      BY <1>1, <2>1, <2>2, <2>3, ReadLeftFine DEF Goes
  <1> QED
    BY <1>2, <1>3, <1>4

-----------------------------------------------------------------------------
(* The steps of the others, and the whole.                                 *)

(* Objects come and go under the numbers there are.                        *)
Numbers == DOMAIN objects' = DOMAIN objects

(* A load leaves the numbers as they are.                                  *)
LEMMA LoadNumbers ==
    ASSUME NEW p, LoadStep(p) \/ Abandon(p)
    PROVE  Numbers
  <1>1. CASE Put(p) \/ Delete(p) \/ DeleteUnanswered(p)
    BY <1>1 DEF Put, Delete, DeleteUnanswered, Numbers, segment
  <1>2. CASE SendAnswered(p) \/ SendUnanswered(p)
    BY <1>2, Zenon DEF SendAnswered, SendUnanswered, Numbers
  <1>3. CASE ~(Put(p) \/ Delete(p) \/ DeleteUnanswered(p) \/ SendAnswered(p) \/ SendUnanswered(p))
    BY <1>3, Zenon DEF LoadStep, Abandon, ReadRow, Number, ChooseKey, SeedLeases, SeedList, SeedRead,
       SeedFails, SettleLanded, Refuse, WaitOutChurn, RefuseSealed, AskRow, ReadAgain, FinalRead,
       Reclaim, Watch, TidyFails, segment, Numbers
  <1> QED
    BY <1>1, <1>2, <1>3

(* So does a collection.                                                   *)
LEMMA PassNumbers ==
    ASSUME NEW c, PassStep(c)
    PROVE  Numbers
  BY DEF PassStep, BeginAfterLoad, BeginSweep, PassReadRow, PassList, PassReadAgain, PassCheck,
         PassDelete, PassSettle, loadVars, segment, Numbers

(* So does a rollback.                                                     *)
LEMMA RollNumbers ==
    ASSUME NEW q, RollStep(q)
    PROVE  Numbers
  BY DEF RollStep, RollRead, RollJudge, SwapAnswered, SwapUnanswered, SwapAsk, SwapSeen, SwapWaited,
         RollProve, UndoAnswered, UndoUnanswered, UndoAsk, UndoSeen, UndoWaited, segment, Numbers

(* So do the operations of one request, and what lands late.               *)
LEMMA RequestNumbers ==
    ASSUME OtherOperation \/ LateWrite \/ PurgeRow
    PROVE  Numbers
  <1>1. \A w : OtherWrites(w) => Numbers
    BY DEF OtherWrites, Numbers
  <1>2. CASE RecordRetention \/ SetRetention \/ Shred \/ ClaimIdentity
    BY <1>1, <1>2, Zenon DEF RecordRetention, SetRetention, Shred, ClaimIdentity
  <1>3. ASSUME NEW g, TakeLease(g) \/ ReleaseLease(g)
        PROVE  Numbers
    BY <1>1, <1>3, Zenon DEF TakeLease, ReleaseLease
  <1>4. ASSUME NEW g, DropObject(g)
        PROVE  Numbers
    BY <1>4 DEF DropObject, Numbers
  <1>5. CASE LateWrite
    BY <1>5 DEF LateWrite, LateWriteArrives, WriteIsLost, Numbers
  <1>6. CASE PurgeRow
    BY <1>6 DEF PurgeRow, Numbers
  <1> QED
    BY <1>2, <1>3, <1>4, <1>5, <1>6 DEF OtherOperation

(* So does an erasure, and what its own objects held stays known.          *)
LEMMA EraseNumbers ==
    ASSUME NEW e, EraseStep(e) \/ CollectStart(e) \/ CollectEnded(e)
    PROVE  Numbers /\ stored' = stored
  <1>1. CASE PublishRewrite(e)
    BY <1>1, Zenon DEF PublishRewrite, beside, setting, Numbers
  <1>2. CASE DiscardRenew(e) \/ FenceWrites(e)
    BY <1>2, Zenon DEF DiscardRenew, FenceWrites, WriteRow, beside, setting, Numbers
  <1>3. CASE DiscardAsk(e) \/ FenceAsk(e)
    BY <1>3, Zenon DEF DiscardAsk, FenceAsk, AskAfterWrite, segment, beside, setting, Numbers
  <1>4. CASE CommitRewrite(e) \/ DiscardDelete(e) \/ DeleteHolder(e)
    BY <1>4 DEF CommitRewrite, DiscardDelete, DeleteHolder, beside, setting, Numbers
  <1>5. CASE \/ Begin(e) \/ Open(e) \/ NumberRewrite(e) \/ ListForNumber(e) \/ CopySource(e)
             \/ LostNumber(e) \/ SourceGone(e) \/ ProveRewrite(e) \/ VerifyRewrite(e)
    BY <1>5, Zenon DEF Begin, Open, NumberRewrite, ListForNumber, CopySource, LostNumber,
       SourceGone, ProveRewrite, VerifyRewrite, segment, beside, setting, Numbers
  <1>6. CASE \/ DiscardRead(e) \/ DiscardProve(e) \/ DiscardWaited(e) \/ List(e) \/ Search(e)
             \/ FenceRead(e) \/ FenceGoesOn(e) \/ FenceWaited(e) \/ DeleteCheck(e)
    BY <1>6, Zenon DEF DiscardRead, DiscardProve, DiscardWaited, List, Search, FenceRead, FenceGoesOn,
       FenceWaited, DeleteCheck, segment, beside, setting, Numbers
  <1>7. CASE \/ DeleteReplaced(e) \/ DeleteSettle(e) \/ Receipt(e) \/ Vouch(e) \/ ReadOneLeft(e)
             \/ EraseFails(e) \/ CollectStart(e) \/ CollectEnded(e)
    BY <1>7, Zenon DEF DeleteReplaced, DeleteSettle, Receipt, Vouch, ReadOneLeft, EraseFails,
       CollectStart, CollectEnded, segment, beside, setting, Numbers
  <1> QED
    BY <1>1, <1>2, <1>3, <1>4, <1>5, <1>6, <1>7 DEF EraseStep

(* Whatever a call does, it is fine after it.                              *)
LEMMA EraseGoes ==
    ASSUME IInv, NEW e \in Erasers, EraseStep(e) \/ CollectStart(e) \/ CollectEnded(e)
    PROVE  Goes(e)
  <1>1. CASE EraseFails(e)
    BY <1>1, AnswerFine DEF EraseFails, Goes
  <1>2. CASE ~EraseFails(e)
    BY <1>2, BeginGoes, OpenGoes, NumberGoes, CopyGoes, CommitGoes, ProofsGo, PublishGoes, DiscardsGo,
       RenewGoes, AskGoes, ListGoes, SearchGoes, FenceReadGoes, FenceGoes, FenceAskGoes, CollectGoes,
       CheckGoes, DeleteGoes, SettleGoes, ReceiptGoes, StepsGo DEF EraseStep
  <1> QED
    BY <1>1, <1>2

(* A step of one call leaves the others'.                                  *)
LEMMA GoesKeeps ==
    ASSUME IInv, NEW e \in Erasers, Goes(e), Numbers, stored' = stored
    PROVE  IInv'
  <1>1. PICK m : EraseBecomes(e, m) /\ EraseFine(e, m, stored)
    BY DEF Goes
  <1>2. \A f \in Erasers : erase'[f] = IF f = e THEN m ELSE erase[f]
    BY <1>1 DEF IInv, EraseBecomes
  <1>3. \A f \in Erasers : EraseFine(f, erase'[f], stored')
    BY <1>1, <1>2 DEF IInv
  <1>4. DOMAIN erase' = Erasers
    BY <1>1 DEF IInv, EraseBecomes
  <1> QED
    BY <1>3, <1>4 DEF IInv, Numbers

(* Where no erasure moves, each stays fine.                                *)
LEMMA OthersKeep ==
    ASSUME IInv, erase' = erase, stored' = stored, Numbers
    PROVE  IInv'
  BY DEF IInv, Numbers

(* The collection of an erasure is one of the collections.                 *)
LEMMA CollectStepIsPass ==
    ASSUME NEW c, CollectStep(c)
    PROVE  PassStep(c)
  BY DEF CollectStep, PassStep

(* Every step keeps the invariant.                                         *)
LEMMA NextFine ==
    ASSUME IInv, [Next]_eraseVars
    PROVE  IInv'
  <1>1. CASE UNCHANGED eraseVars
    BY <1>1, OthersKeep DEF eraseVars, loadVars, segment, setting, Numbers
  <1>2. ASSUME NEW p, (LoadStep(p) \/ Abandon(p)) \/ PassStep(p), UNCHANGED <<roll, erase, setting>>
        PROVE  IInv'
    BY <1>2, LoadNumbers, PassNumbers, OthersKeep DEF setting
  <1>3. ASSUME NEW q, RollStep(q), UNCHANGED <<load, pass, erase, setting>>
        PROVE  IInv'
    BY <1>3, RollNumbers, OthersKeep DEF setting
  <1>4. ASSUME NEW e \in Erasers, EraseStep(e) \/ CollectStart(e) \/ CollectEnded(e)
        PROVE  IInv'
    BY <1>4, EraseGoes, EraseNumbers, GoesKeeps
  <1>5. ASSUME NEW e, CollectStep(e), UNCHANGED <<roll, erase, setting>>
        PROVE  IInv'
    BY <1>5, CollectStepIsPass, PassNumbers, OthersKeep DEF setting
  <1>6. CASE (OtherOperation \/ LateWrite \/ PurgeRow) /\ UNCHANGED <<load, pass, roll, erase, setting>>
    BY <1>6, RequestNumbers, OthersKeep DEF setting
  <1> QED
    BY <1>1, <1>2, <1>3, <1>4, <1>5, <1>6 DEF Next

(* It holds at the start, where no call has begun.                         *)
LEMMA InitFine == Init => IInv
  <1> SUFFICES ASSUME Init
               PROVE  IInv
    OBVIOUS
  <1>1. DOMAIN objects = Gens
    <2>1. PICK s \in Starts : SegmentOf(s)
      BY DEF Init
    <2> QED
      BY <2>1 DEF SegmentOf
  <1>2. erase = [e \in Erasers |-> Calm]
    BY DEF Init
  <1>3. \A e : EraseFine(e, Calm, stored)
    BY DEF EraseFine, FoundFine, PlaceFine, Calm
  <1> QED
    BY <1>1, <1>2, <1>3 DEF IInv

(* What is deleted by name is what was found to hold the id.               *)
LEMMA DeletesFound ==
    ASSUME IInv, NEW e \in Erasers, DeleteHolder(e), NEW g \in Gens,
           objects[g] # None, objects'[g] = None
    PROVE  Holds(e, erase[e], g)
  <1>1. PICK l : l = erase[e] /\ EraseFine(e, l, stored) /\ l.pc = "delete"
    BY DEF IInv, DeleteHolder
  <1>2. l.byName \subseteq Gens /\ l.byName # {} /\ l.byName \subseteq l.holders
    BY <1>1 DEF EraseFine, FoundFine, PlaceFine
  <1>3. PICK h : h = Newest(l.byName) /\ h \in l.byName
    BY <1>2, NewestIsOne
  <1>4. objects[h] \in {None, l.read[h]} /\ objects' = [objects EXCEPT ![h] = None]
    BY <1>1, <1>3 DEF DeleteHolder
  <1>5. g = h
    BY <1>4 DEF IInv
  <1>6. objects[g] = l.read[g]
    BY <1>4, <1>5
  <1>7. MayHold(e, l.rec, g, objects[g], stored)
    BY <1>1, <1>2, <1>3, <1>5, <1>6 DEF EraseFine, FoundFine
  <1> QED
    BY <1>1, <1>7, HoldsNow

(* At its deletes, a call deletes or fails.                                *)
LEMMA DeletesOnly ==
    ASSUME NEW e, erase[e].pc = "delete", EraseStep(e) \/ CollectStart(e) \/ CollectEnded(e)
    PROVE  DeleteHolder(e) \/ objects' = objects
  BY DEF EraseStep, CollectStart, CollectEnded, Begin, Open, NumberRewrite, ListForNumber, CopySource,
     CommitRewrite, LostNumber, SourceGone, ProveRewrite, VerifyRewrite, PublishRewrite, DiscardRead, DiscardProve,
     DiscardRenew, DiscardAsk, DiscardWaited, DiscardDelete, List, Search, FenceRead, FenceGoesOn,
     FenceWrites, FenceAsk, FenceWaited, DeleteCheck, DeleteReplaced, DeleteSettle, Receipt, Vouch,
     ReadOneLeft, EraseFails, segment

(* A call changes only where a step of its own does.                       *)
LEMMA OwnSteps ==
    ASSUME IInv, Next, NEW e \in Erasers, erase'[e] # erase[e]
    PROVE  EraseStep(e) \/ CollectStart(e) \/ CollectEnded(e)
  <1>1. PICK f \in Erasers : EraseStep(f) \/ CollectStart(f) \/ CollectEnded(f)
    BY Zenon DEF Next, setting
  <1>2. Goes(f)
    BY <1>1, EraseGoes
  <1>3. f = e
    BY <1>2 DEF Goes, EraseBecomes, IInv
  <1> QED
    BY <1>1, <1>3

(* The inductive invariant holds throughout.                               *)
THEOREM Invariance == Spec => []IInv
  <1> QED
    BY InitFine, NextFine, PTL DEF Spec

(* By name, an erasure (erase-id.ts deleteFenced) deletes only an object   *)
(* it read and found to hold the id, or could not search: never one that   *)
(* took the number since, whichever steps of others come between the read, *)
(* the fence and the delete.                                               *)
THEOREM DeletesWhatItReadHolds == Spec => DeletesWhatItRead
  <1>1. IInv /\ [Next]_eraseVars
        => [\A e \in Erasers :
              erase[e].pc = "delete" /\ erase'[e] # erase[e] =>
                  \A g \in Gens : objects[g] # None /\ objects'[g] = None =>
                      Holds(e, erase[e], g)]_eraseVars
    <2> SUFFICES ASSUME IInv, Next, NEW e \in Erasers, erase[e].pc = "delete", erase'[e] # erase[e],
                        NEW g \in Gens, objects[g] # None, objects'[g] = None
                 PROVE  Holds(e, erase[e], g)
      OBVIOUS
    <2>1. EraseStep(e) \/ CollectStart(e) \/ CollectEnded(e)
      BY OwnSteps
    <2>2. DeleteHolder(e)
      BY <2>1, DeletesOnly
    <2> QED
      BY <2>2, DeletesFound
  <1> QED
    BY <1>1, Invariance, PTL DEF Spec, DeletesWhatItRead
=============================================================================
