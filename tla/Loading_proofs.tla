--------------------------- MODULE Loading_proofs ---------------------------
(***************************************************************************)
(* Proofs about the loads of one segment, for any number of them, any keep *)
(* and ledger, and any bound on their turns, their resends, the lease      *)
(* changes they wait out and the writes beside them.                       *)
(***************************************************************************)
EXTENDS Loading, TLAPS, FiniteSetTheorems

-----------------------------------------------------------------------------
(* The inductive invariant.                                                *)

Unwritten == {"number", "key", "put", "seed", "seedList", "seedRead"}
Stored    == {"seed", "seedList", "seedRead", "decide", "asking", "read", "final",
              "reclaim", "delete", "deleteOwn"}
Keyed     == Stored \cup {"put", "watch"}
Deletes   == {"delete", "deleteOwn"}
Turns     == {"decide", "asking", "read", "final"}
Refusing  == {"reclaim", "watch"} \cup Deletes
Over      == {"published", "ended"}
Going     == Unwritten \cup Turns \cup Refusing

Refusals == {"refused", "error", "superseded"}

Destroyed == row # NoRow /\ row.status = "destroyed"

Pending(l) == {w \in inflight : w.token \in l.sent}

Landed(l) == {t \in l.sent : t.write \in landed}

(* A row, this one or one that was.                                        *)
RowFine(r) ==
    /\ "write" \in DOMAIN r.token
    /\ r.token.write \in landed /\ r.pointerId.write \in landed
    /\ r.status \in {"active", "destroyed"}
    /\ r.currentGen \in Gens \cup {NoGen}
    /\ r.status = "destroyed" \/ r.currentGen = NoGen => r.wrappedDeks = Clear

(* A token names one row.                                                  *)
CopyFine(c) ==
    c # NoRow => /\ RowFine(c)
                 /\ row # NoRow /\ row.token = c.token => row = c

(* The writes of a load are numbered, and none has the name of another.    *)
NamesFine(p, l) ==
    /\ IsFiniteSet(l.sent)
    /\ \A t \in l.sent : \E k \in 1..Cardinality(l.sent) : t.write = <<p, k>>
    /\ \A t, u \in l.sent : t.write = u.write => t = u

(* What a load took from the row it read.                                  *)
BaseFine(p, l) ==
    /\ CopyFine(l.base) /\ CopyFine(l.rec)
    /\ l.base # NoRow /\ l.rec # NoRow /\ l.base.token = l.rec.token => l.base = l.rec
    /\ l.base # NoRow => l.base.pointerId.write[1] # p
    /\ l.base # NoRow /\ l.pc \in Going =>
          /\ l.rec # NoRow
          /\ l.base.status = "active" =>
                /\ row # NoRow
                /\ row.status # "destroyed" /\ l.base.wrappedDeks # Clear =>
                      row.wrappedDeks = l.base.wrappedDeks
          /\ l.base.status = "destroyed" => l.pc \in {"number", "key"}
    /\ l.pc \in Unwritten => l.rec = l.base /\ l.sent = {} /\ ~l.unanswered
    /\ l.pc \in Unwritten \cup Turns => l.result = "none" /\ ~l.early
    /\ l.pc \in Refusing => l.result \in Refusals

(* Its number and its key.                                                 *)
Numbered(l) ==
    /\ l.gen \in Gens
    /\ l.base # NoRow => l.base.currentGen < l.gen

KeyFits(p, l) ==
    /\ l.minted => l.key = p
    /\ IF l.base = NoRow
       THEN (l.key # Clear /\ ~l.minted) => (row # NoRow /\ l.sent = {})
       ELSE IF l.minted THEN l.base.currentGen = NoGen ELSE l.key = l.base.wrappedDeks

(* Its object.                                                             *)
Owns(p, l, key) ==
    /\ objects[l.gen] # None
    /\ objects[l.gen].by = p
    /\ objects[l.gen].key = key

(* The key of the row that write w of load l leaves.                       *)
KeyLeft(l, w) ==
    IF "wrappedDeks" \in DOMAIN w.patch THEN w.patch.wrappedDeks
    ELSE IF l.base = NoRow THEN Clear ELSE l.base.wrappedDeks

(* A write that may still land does so over the row its load read, up to   *)
(* its leases.                                                             *)
WriteFine(l, w) ==
    /\ w.token.write \notin landed
    /\ "write" \in DOMAIN w.token
    /\ "currentGen" \in DOMAIN w.patch /\ w.patch.currentGen = l.gen
    /\ "status" \notin DOMAIN w.patch
    /\ l.gen \in Gens
    /\ IF w.expect = NoRow THEN l.base = NoRow
       ELSE /\ l.base # NoRow
            /\ l.base.status = "active"
            /\ l.base.currentGen < l.gen
            /\ ("wrappedDeks" \in DOMAIN w.patch) => l.base.currentGen = NoGen
            /\ w.expect.write \in landed
            /\ (row # NoRow /\ row.token = w.expect) => OnlyLeasesDiffer(l.base, row)

ExpectedOf(r) == IF r = NoRow THEN NoRow ELSE r.token

(* The writes of a load that had no answer.                                *)
WritesFine(p, l) ==
    /\ \A w \in Pending(l) :
          /\ WriteFine(l, w)
          /\ l.unanswered
          /\ Accepts(w) /\ ~l.early => Owns(p, l, KeyLeft(l, w))
          /\ Accepts(w) /\ l.pc \in Turns => w.expect = ExpectedOf(l.rec)
          /\ Accepts(w) => l.pc # "read" /\ l.before = None
          /\ Accepts(w) => ~(l.result \in Refusals /\ ~l.early)
    /\ ~l.unanswered /\ l.result # "published" => Landed(l) = {}

(* At most one write of a load lands, and it moves the pointer's identity  *)
(* on for good.                                                            *)
LandingFine(p, l) ==
    /\ \A t, u \in Landed(l) : t = u
    /\ Landed(l) # {} => IF l.base # NoRow
                         THEN row = NoRow \/ row.pointerId # l.base.pointerId
                         ELSE l.pc \in Going \/ Pending(l) # {} => row # NoRow
    /\ (row # NoRow /\ row.status = "active" /\ row.pointerId \in l.sent) => row.currentGen = l.gen

LoadFine(p, l) ==
    /\ DOMAIN l = DOMAIN Idle
    /\ l.pc \in {"start"} \cup Going \cup Over
    /\ {l.minted, l.unanswered, l.early} \subseteq BOOLEAN
    /\ l.pc = "start" => /\ l.sent = {} /\ l.base = NoRow /\ l.rec = NoRow
                         /\ ~l.unanswered /\ ~l.early /\ l.result = "none"
    /\ NamesFine(p, l) /\ BaseFine(p, l)
    /\ l.pc \in Keyed \cup {"key"} => Numbered(l)
    /\ l.pc \in Keyed => KeyFits(p, l)
    /\ l.pc \in Stored => Owns(p, l, l.key) \/ Destroyed
    /\ WritesFine(p, l) /\ LandingFine(p, l)
    /\ l.pc \in Deletes /\ ~l.early =>
          ((row # NoRow /\ row.status = "active") => row.pointerId \notin l.sent)

LoadsFine == DOMAIN load = Loaders /\ \A p \in Loaders : LoadFine(p, load[p])

LandedAreMade ==
    /\ others \in Nat
    /\ \A write \in landed :
          \/ \E k \in 1..others : write = <<Other, k>>
          \/ \E p \in Loaders : \E t \in load[p].sent : t.write = write

FlyingAreSent ==
    /\ \A w \in inflight : \E p \in Loaders : w.token \in load[p].sent
    /\ \A w, u \in inflight : w.token = u.token => w = u

PointerFine ==
    Points /\ ~PointsEarly =>
        /\ objects[row.currentGen] # None
        /\ objects[row.currentGen].key = row.wrappedDeks
        /\ \A p \in Loaders : objects[row.currentGen].by = p => row.pointerId \in load[p].sent

IInv ==
    /\ cast \subseteq Loaders
    /\ DOMAIN objects = Gens
    /\ row # NoRow => RowFine(row)
    /\ LandedAreMade /\ FlyingAreSent /\ PointerFine
    /\ LoadsFine
-----------------------------------------------------------------------------
(* A token is a record with a write, so it is never the mark of no row.    *)
LEMMA TokenIsNotNoRow ==
    ASSUME NEW r, RowFine(r)
    PROVE  r.token # NoRow
  <1>1. DOMAIN NoRow = {"found"}
    BY DEF NoRow
  <1> QED
    BY <1>1 DEF RowFine

(* A row that a create or a swap leaves is a row.                          *)
LEMMA RowAfterIsRow == ASSUME NEW w PROVE RowAfter(w) # NoRow
  BY DEF RowAfter, RecordFromNew, ApplyRegistryPatch, NoRow

(* Two loads share no token.                                               *)
LEMMA TokensAreOwn ==
    ASSUME NEW p, NEW q, NEW l, NEW k, NamesFine(p, l), NamesFine(q, k),
           NEW t \in l.sent, NEW u \in k.sent, t.write = u.write
    PROVE  p = q
  <1>1. \A n : <<p, n>>[1] = p /\ <<q, n>>[1] = q
    OBVIOUS
  <1>2. t.write[1] = p
    BY <1>1 DEF NamesFine
  <1>3. u.write[1] = q
    BY <1>1 DEF NamesFine
  <1> QED
    BY <1>2, <1>3

(* The next write of a load has a name that none has had.                  *)
LEMMA NextWriteIsFresh ==
    ASSUME IInv, NEW p \in Loaders, NEW l, l = load[p],
           NEW x, x = <<p, Cardinality(l.sent) + 1>>
    PROVE  /\ x \notin landed
           /\ \A q \in Loaders : \A t \in load[q].sent : t.write # x
  <1>1. \A q \in Loaders : \A t \in load[q].sent : t.write # x
    <2> SUFFICES ASSUME NEW q \in Loaders, NEW k, k = load[q], NEW t \in k.sent, t.write = x
                 PROVE  FALSE
      OBVIOUS
    <2>1. NamesFine(q, k) /\ NamesFine(p, l)
      BY DEF IInv, LoadsFine, LoadFine
    <2>2. PICK j \in 1..Cardinality(k.sent) : t.write = <<q, j>>
      BY <2>1 DEF NamesFine
    <2>3. q = p /\ j = Cardinality(l.sent) + 1
      BY <2>2
    <2>4. Cardinality(l.sent) \in Nat
      BY <2>1, FS_CardinalityType DEF NamesFine
    <2> QED
      BY <2>3, <2>4
  <1>2. x[1] = p /\ p # Other
    BY LoadAssumption
  <1> QED
    BY <1>1, <1>2 DEF IInv, LandedAreMade

(* So has the next write of Other.                                         *)
LEMMA OtherWriteIsFresh ==
    ASSUME IInv
    PROVE  /\ OtherWrite \notin landed
           /\ \A q \in Loaders : \A t \in load[q].sent : t.write # OtherWrite
  <1>1. \A q \in Loaders : \A t \in load[q].sent : t.write[1] # Other
    <2> SUFFICES ASSUME NEW q \in Loaders, NEW k, k = load[q], NEW t \in k.sent
                 PROVE  t.write[1] # Other
      OBVIOUS
    <2>1. PICK j \in 1..Cardinality(k.sent) : t.write = <<q, j>>
      BY DEF IInv, LoadsFine, LoadFine, NamesFine
    <2> QED
      BY <2>1, LoadAssumption
  <1>2. OtherWrite[1] = Other /\ OtherWrite[2] = others + 1
    BY DEF OtherWrite
  <1>3. \A q \in Loaders : \A t \in load[q].sent : t.write # OtherWrite
    BY <1>1, <1>2
  <1>4. \A k \in 1..others : <<Other, k>> # OtherWrite
    BY <1>2 DEF IInv, LandedAreMade
  <1> QED
    BY <1>3, <1>4 DEF IInv, LandedAreMade

(* A write that would be applied is over an active row, or over none.      *)
LEMMA AcceptedIsActive ==
    ASSUME NEW l, NEW w, WriteFine(l, w), Accepts(w)
    PROVE  /\ ~Destroyed
           /\ row # NoRow =>
                 /\ l.base # NoRow /\ w.expect # NoRow /\ OnlyLeasesDiffer(l.base, row)
                 /\ row.status = "active" /\ row.currentGen = l.base.currentGen
                 /\ row.pointerId = l.base.pointerId /\ row.wrappedDeks = l.base.wrappedDeks
           /\ row = NoRow => l.base = NoRow /\ w.expect = NoRow
  BY DEF WriteFine, Accepts, Destroyed, OnlyLeasesDiffer, OnlyLeasesDifferBut

-----------------------------------------------------------------------------
(* What a load becomes, the segment being as it is.                        *)

(* A load forgets no write it made, and not that it was refused early.     *)
Keeps(l, m) == m.sent = l.sent /\ (l.early => m.early)

(* Before it has made a write.                                             *)
LEMMA Unsent ==
    ASSUME NEW p, NEW l, NEW m, LoadFine(p, l), l.pc \in Unwritten,
           DOMAIN m = DOMAIN Idle, m.pc \in Unwritten \cup {"decide", "reclaim"},
           m.base = l.base, m.rec = l.rec, m.sent = l.sent, m.unanswered = l.unanswered,
           m.early = l.early, m.minted \in BOOLEAN,
           IF m.pc = "reclaim" THEN m.result \in Refusals ELSE m.result = "none",
           (l.base # NoRow /\ l.base.status = "destroyed") => m.pc \in {"number", "key"},
           m.pc # "number" => Numbered(m),
           m.pc \notin {"number", "key"} => KeyFits(p, m),
           m.pc \in Stored => Owns(p, m, m.key) \/ Destroyed
    PROVE  LoadFine(p, m) /\ Keeps(l, m)
  <1>1. l.sent = {} /\ l.unanswered = FALSE /\ l.early = FALSE /\ l.rec = l.base
    BY DEF LoadFine, BaseFine, Unwritten
  <1>2. NamesFine(p, m)
    BY <1>1, FS_EmptySet DEF NamesFine
  <1>3. BaseFine(p, m)
    BY <1>1 DEF LoadFine, BaseFine, Unwritten, Going, Turns, Refusing, Deletes
  <1>4. WritesFine(p, m) /\ LandingFine(p, m)
    BY <1>1 DEF WritesFine, LandingFine, Pending, Landed
  <1> QED
    BY <1>1, <1>2, <1>3, <1>4
    DEF Keeps, LoadFine, Keyed, Stored, Going, Unwritten, Over, Turns, Refusing, Deletes

(* Between its turns and after a refusal.                                  *)
LEMMA Stepped ==
    ASSUME NEW p, NEW l, NEW m, LoadFine(p, l), l.pc \in Stored \cup {"watch"},
           DOMAIN m = DOMAIN Idle, m.pc \in Turns \cup Refusing,
           m.pc \in Stored => l.pc \in Stored,
           m.base = l.base, m.gen = l.gen, m.key = l.key, m.minted = l.minted,
           m.sent = l.sent, m.unanswered = l.unanswered, m.early \in BOOLEAN,
           l.early => m.early,
           CopyFine(m.rec), l.base # NoRow => m.rec # NoRow,
           (l.base # NoRow /\ m.rec # NoRow /\ l.base.token = m.rec.token) => l.base = m.rec,
           m.pc \in Turns => m.result = "none" /\ ~m.early,
           m.pc \in Refusing => m.result \in Refusals,
           \A w \in Pending(l) : Accepts(w) =>
               /\ m.pc \in Turns => w.expect = ExpectedOf(m.rec)
               /\ m.pc # "read" /\ m.before = None
               /\ m.result \in Refusals => m.early,
           (m.pc \in Deletes /\ ~m.early /\ row # NoRow /\ row.status = "active") =>
               row.pointerId \notin l.sent
    PROVE  LoadFine(p, m) /\ Keeps(l, m)
  <1>1. NamesFine(p, m) /\ Numbered(m) /\ KeyFits(p, m) /\ LandingFine(p, m)
    BY DEF LoadFine, NamesFine, Numbered, KeyFits, LandingFine, Landed, Pending, Keyed,
           Going, Stored, Unwritten, Turns, Refusing, Deletes
  <1>2. BaseFine(p, m)
    BY DEF LoadFine, BaseFine, Going, Stored, Unwritten, Turns, Refusing, Deletes
  <1>3. Pending(m) = Pending(l) /\ Landed(m) = Landed(l)
    BY DEF Pending, Landed
  <1>4. \A w \in Pending(l) :
           /\ WriteFine(m, w)
           /\ Accepts(w) /\ ~m.early => Owns(p, m, KeyLeft(m, w))
    BY DEF LoadFine, WritesFine, WriteFine, Owns, KeyLeft
  <1>5. l.result # "published"
    BY DEF LoadFine, BaseFine, Stored, Unwritten, Turns, Refusing, Refusals, Deletes
  <1>6. WritesFine(p, m)
    BY <1>3, <1>4, <1>5 DEF LoadFine, WritesFine
  <1>7. m.pc \in Stored => Owns(p, m, m.key) \/ Destroyed
    BY DEF LoadFine, Owns
  <1> QED
    BY <1>1, <1>2, <1>6, <1>7
    DEF Keeps, LoadFine, Keyed, Stored, Going, Unwritten, Over, Turns, Refusing, Deletes

(* When it ends.                                                           *)
Ends(l, m) ==
    /\ DOMAIN m = DOMAIN Idle /\ m.pc \in Over
    /\ m.base = l.base /\ m.rec = NoRow /\ m.gen = l.gen /\ m.sent = l.sent
    /\ m.unanswered = l.unanswered /\ m.early = l.early
    /\ m.before = None /\ m.minted = FALSE

(* A load that ends keeps what others judge it by.                         *)
LEMMA EndEnds ==
    ASSUME NEW l, NEW result
    PROVE  Ends(l, End(l, result)) /\ End(l, result).result = result
  BY DEF End, Ends, Idle, Over

(* So does one whose reclaim met a fault.                                  *)
LEMMA UntidyEnds ==
    ASSUME NEW l
    PROVE  Ends(l, Untidy(l)) /\ Untidy(l).result = l.result
  BY DEF Untidy, End, Ends, Idle, Over

(* So does one that saw its pointer in the last read.                      *)
LEMMA PublishedEnds ==
    ASSUME NEW l
    PROVE  LET m == [End(l, "published") EXCEPT !.pc = "published"]
           IN  Ends(l, m) /\ m.result = "published"
  BY DEF End, Ends, Idle, Over

(* So does one whose write moved the pointer.                              *)
LEMMA LandedEnds ==
    ASSUME NEW p, NEW l, NEW before, NEW live
    PROVE  /\ Ends(l, Published(p, l, before, live))
           /\ Published(p, l, before, live).result = "published"
  <1>1. PICK kept : kept = IF l.seed.wanted THEN NotByName
                           ELSE Kept(LedgerSource(before), EntryOf(p, l), Keep, live)
    OBVIOUS
  <1>2. Published(p, l, before, live) =
           [End(l, "published") EXCEPT !.pc = "published", !.kept = kept]
    BY <1>1 DEF Published
  <1>3. PICK m : m = [End(l, "published") EXCEPT !.pc = "published", !.kept = kept]
    OBVIOUS
  <1>4. Ends(l, m) /\ m.result = "published"
    BY <1>3 DEF End, Ends, Idle, Over
  <1> QED
    BY <1>2, <1>3, <1>4

(* An end with no refusal, or a refusal that nothing can contradict.       *)
LEMMA Finished ==
    ASSUME NEW p, NEW l, NEW m, LoadFine(p, l), l.pc \in Going, Ends(l, m),
           \A w \in Pending(l) : Accepts(w) => (m.result \in Refusals => l.early)
    PROVE  LoadFine(p, m) /\ Keeps(l, m)
  <1>1. NamesFine(p, m) /\ LandingFine(p, m)
    BY DEF Ends, LoadFine, NamesFine, LandingFine, Landed, Pending, Going, Over,
           Unwritten, Turns, Refusing, Deletes
  <1>2. BaseFine(p, m)
    BY DEF Ends, LoadFine, BaseFine, CopyFine, Going, Over, Unwritten, Turns, Refusing, Deletes
  <1>3. Pending(m) = Pending(l) /\ Landed(m) = Landed(l)
    BY DEF Ends, Pending, Landed
  <1>4. \A w \in Pending(l) :
           /\ WriteFine(m, w)
           /\ Accepts(w) /\ ~m.early => Owns(p, m, KeyLeft(m, w))
    BY DEF Ends, LoadFine, WritesFine, WriteFine, Owns, KeyLeft
  <1>5. l.result # "published"
    BY DEF LoadFine, BaseFine, Going, Unwritten, Turns, Refusing, Refusals, Deletes
  <1>6. WritesFine(p, m)
    BY <1>3, <1>4, <1>5 DEF Ends, LoadFine, WritesFine, Over, Turns
  <1>7. /\ {m.minted, m.unanswered, m.early} \subseteq BOOLEAN
        /\ m.pc \in Over /\ DOMAIN m = DOMAIN Idle
    BY DEF Ends, LoadFine
  <1>8. m.pc \notin Keyed \cup Stored \cup Deletes \cup {"key", "start"}
    BY <1>7 DEF Over, Keyed, Stored, Deletes
  <1> QED
    BY <1>1, <1>2, <1>6, <1>7, <1>8 DEF Ends, Keeps, LoadFine

-----------------------------------------------------------------------------
(* One lemma for each step of a load that leaves the segment as it is: `l` *)
(* is the load before it, `m` after it.                                    *)

(* A load that has made no write is not the one the row points by.         *)
LEMMA PointerOfAnother ==
    ASSUME IInv, NEW p \in Loaders, NEW l, l = load[p], l.sent = {}, row # NoRow
    PROVE  row.pointerId.write[1] # p
  <1>1. row.pointerId.write \in landed
    BY DEF IInv, RowFine
  <1>2. CASE \E k \in 1..others : row.pointerId.write = <<Other, k>>
    BY <1>2, LoadAssumption
  <1>3. CASE \E q \in Loaders : \E t \in load[q].sent : t.write = row.pointerId.write
    <2>1. PICK q, k : q \in Loaders /\ k = load[q] /\ \E t \in k.sent : t.write = row.pointerId.write
      BY <1>3
    <2>2. PICK t \in k.sent : t.write = row.pointerId.write
      BY <2>1
    <2>3. NamesFine(q, k) /\ q # p
      BY <2>1, <2>2 DEF IInv, LoadsFine, LoadFine
    <2>4. \A n : <<q, n>>[1] = q
      OBVIOUS
    <2> QED
      BY <2>2, <2>3, <2>4 DEF NamesFine
  <1> QED
    BY <1>1, <1>2, <1>3 DEF IInv, LandedAreMade

(* The first read.                                                         *)
LEMMA ReadRowFine ==
    ASSUME IInv, NEW p \in Loaders, NEW l, l = load[p], ReadRow(p), NEW m, m = load'[p]
    PROVE  LoadFine(p, m) /\ Keeps(l, m)
  <1>1. m = [l EXCEPT !.pc = "number", !.base = row, !.rec = row] /\ l.pc = "start"
    BY DEF ReadRow, Becomes, IInv, LoadsFine
  <1>2. LoadFine(p, l)
    BY DEF IInv, LoadsFine
  <1>3. /\ DOMAIN m = DOMAIN Idle /\ m.pc = "number" /\ m.base = row /\ m.rec = row
        /\ m.sent = {} /\ m.unanswered = FALSE /\ m.early = FALSE /\ m.result = "none"
        /\ m.minted \in BOOLEAN
    BY <1>1, <1>2 DEF LoadFine, Idle
  <1>4. NamesFine(p, m)
    BY <1>3, FS_EmptySet DEF NamesFine
  <1>5. row # NoRow => row.pointerId.write[1] # p
    BY <1>1, <1>2, PointerOfAnother DEF LoadFine
  <1>6. BaseFine(p, m)
    BY <1>3, <1>5 DEF BaseFine, CopyFine, IInv, Going, Unwritten, Turns, Refusing, Deletes
  <1>7. WritesFine(p, m) /\ LandingFine(p, m)
    BY <1>3 DEF WritesFine, LandingFine, Pending, Landed
  <1> QED
    BY <1>1, <1>2, <1>3, <1>4, <1>6, <1>7
    DEF Keeps, LoadFine, Keyed, Stored, Going, Unwritten, Over, Turns, Refusing, Deletes

(* A number above all that is listed.                                      *)
LEMMA NumberFine ==
    ASSUME IInv, NEW p \in Loaders, NEW l, l = load[p], Number(p), NEW m, m = load'[p]
    PROVE  LoadFine(p, m) /\ Keeps(l, m)
  <1>1. LoadFine(p, l) /\ l.pc = "number"
    BY DEF IInv, LoadsFine, Number
  <1>7. PICK g \in Gens, lists \in BOOLEAN :
           /\ IF lists
              THEN /\ \/ g = CurrentGenOf(l.base) + 1
                      \/ g > CurrentGenOf(l.base) + 1 /\ g - 1 \in Listed
                   /\ \A h \in Listed : h < g
              ELSE g = CurrentGenOf(l.base) + 1 /\ CurrentGenOf(l.base) + 1 \notin Listed
           /\ Becomes(p, [l EXCEPT !.pc = "key", !.gen = g,
                                   !.listed = IF lists /\ WantsSeed(l.base) THEN Listed ELSE {}])
    BY Zenon DEF Number
  <1>2. PICK seen : m = [l EXCEPT !.pc = "key", !.gen = g, !.listed = seen]
    BY <1>7 DEF Becomes, IInv, LoadsFine
  <1>3. /\ DOMAIN m = DOMAIN Idle /\ m.pc = "key" /\ m.gen = g /\ m.base = l.base
        /\ m.rec = l.rec /\ m.sent = l.sent /\ m.unanswered = l.unanswered
        /\ m.early = l.early /\ m.result = l.result /\ m.minted = l.minted
    BY <1>1, <1>2 DEF LoadFine, Idle
  <1>4. l.base # NoRow => l.base.currentGen \in Int /\ CurrentGenOf(l.base) = l.base.currentGen
    BY <1>1, SegmentAssumption
    DEF LoadFine, BaseFine, CopyFine, RowFine, Gens, NoGen, CurrentGenOf
  <1>5. Numbered(m)
    BY <1>7, <1>3, <1>4, SegmentAssumption DEF Numbered, Gens
  <1>6. m.result = "none" /\ m.minted \in BOOLEAN
    BY <1>1, <1>3 DEF LoadFine, BaseFine, Unwritten
  <1> QED
    BY <1>1, <1>3, <1>5, <1>6, Unsent DEF Unwritten, Stored

(* The key of the row read, or one it mints.                               *)
LEMMA ChooseKeyFine ==
    ASSUME IInv, NEW p \in Loaders, NEW l, l = load[p], ChooseKey(p), NEW m, m = load'[p]
    PROVE  LoadFine(p, m) /\ Keeps(l, m)
  <1>1. LoadFine(p, l) /\ l.pc = "key"
    BY DEF IInv, LoadsFine, ChooseKey
  <1>2. PICK read : read = IF l.base # NoRow /\ l.base.wrappedDeks = Clear THEN l.base ELSE row
    OBVIOUS
  <1>3. PICK keyed : keyed = (read # NoRow /\ read.wrappedDeks # Clear)
    OBVIOUS
  <1>4. PICK mints : mints = (p \in Keystores /\ CurrentGenOf(read) = NoGen /\ ~keyed)
    OBVIOUS
  <1>5. PICK key : key = IF p \notin Keystores THEN Clear ELSE IF mints THEN p
                         ELSE read.wrappedDeks
    OBVIOUS
  <1>6. m = IF (read # NoRow /\ read.status = "destroyed") \/ (keyed /\ p \notin Keystores)
            THEN End(l, "error")
            ELSE [l EXCEPT !.pc = "put", !.key = key, !.minted = mints]
    BY <1>2, <1>3, <1>4, <1>5 DEF ChooseKey, Becomes, IInv, LoadsFine
  <1>7. CASE m = End(l, "error")
    <2>1. l.sent = {} /\ Pending(l) = {}
      BY <1>1 DEF LoadFine, BaseFine, Unwritten, Pending
    <2> QED
      BY <1>1, <1>7, <2>1, EndEnds, Finished DEF Going, Unwritten
  <1>8. CASE /\ m = [l EXCEPT !.pc = "put", !.key = key, !.minted = mints]
             /\ ~(read # NoRow /\ read.status = "destroyed") /\ ~(keyed /\ p \notin Keystores)
    <2>1. /\ DOMAIN m = DOMAIN Idle /\ m.pc = "put" /\ m.gen = l.gen /\ m.base = l.base
          /\ m.rec = l.rec /\ m.sent = l.sent /\ m.unanswered = l.unanswered
          /\ m.early = l.early /\ m.result = l.result /\ m.minted = mints /\ m.key = key
      BY <1>1, <1>8 DEF LoadFine, Idle
    <2>2. l.sent = {} /\ l.result = "none"
      BY <1>1 DEF LoadFine, BaseFine, Unwritten
    <2>3. CopyFine(l.base)
      BY <1>1 DEF LoadFine, BaseFine
    <2>4. l.base # NoRow => l.base.status = "active"
      BY <1>2, <1>8, <2>3 DEF CopyFine, RowFine
    <2>5. (l.base # NoRow /\ l.base.wrappedDeks # Clear) =>
              row # NoRow /\ (row.status # "destroyed" => row.wrappedDeks = l.base.wrappedDeks)
      BY <1>1, <2>4 DEF LoadFine, BaseFine, Going, Unwritten
    <2>6. KeyFits(p, m)
      <3>1. mints => key = p
        BY <1>4, <1>5
      <3>2. CASE l.base = NoRow
        BY <1>2, <1>3, <1>4, <1>5, <2>1, <2>2, <3>1, <3>2 DEF KeyFits, CurrentGenOf
      <3>3. CASE l.base # NoRow /\ l.base.wrappedDeks = Clear
        BY <1>2, <1>3, <1>4, <1>5, <2>1, <3>1, <3>3 DEF KeyFits, CurrentGenOf
      <3>4. CASE l.base # NoRow /\ l.base.wrappedDeks # Clear
        <4>1. read = row /\ row # NoRow /\ row.wrappedDeks = l.base.wrappedDeks
          BY <1>2, <1>8, <2>5, <3>4
        <4>2. keyed /\ p \in Keystores
          BY <1>3, <1>8, <3>4, <4>1
        <4>3. mints = FALSE
          BY <1>4, <4>2
        <4>4. key = l.base.wrappedDeks
          BY <1>5, <4>1, <4>2, <4>3
        <4> QED
          BY <2>1, <3>4, <4>3, <4>4 DEF KeyFits
      <3> QED
        BY <3>2, <3>3, <3>4
    <2>7. Numbered(m)
      BY <1>1, <2>1 DEF LoadFine, Numbered
    <2>8. mints \in BOOLEAN
      BY <1>4
    <2> QED
      BY <1>1, <2>1, <2>2, <2>4, <2>6, <2>7, <2>8, Unsent DEF Unwritten, Stored
  <1> QED
    BY <1>6, <1>7, <1>8

(* The number was taken: the load ends.                                    *)
LEMMA PutLostFine ==
    ASSUME IInv, NEW p \in Loaders, NEW l, l = load[p], Put(p), objects[l.gen] # None,
           NEW m, m = load'[p]
    PROVE  LoadFine(p, m) /\ Keeps(l, m)
  <1>1. LoadFine(p, l) /\ l.pc = "put" /\ m = End(l, "superseded")
    BY DEF IInv, LoadsFine, Put, Becomes
  <1>2. Pending(l) = {}
    BY <1>1 DEF LoadFine, BaseFine, Unwritten, Pending
  <1> QED
    BY <1>1, <1>2, EndEnds, Finished DEF Going, Unwritten

(* What the fields of a load that moves from turn to turn have in common.  *)
SameLoad(l, m) ==
    /\ DOMAIN m = DOMAIN Idle
    /\ m.base = l.base /\ m.gen = l.gen /\ m.key = l.key /\ m.minted = l.minted
    /\ m.sent = l.sent /\ m.unanswered = l.unanswered

(* A step of the first window: it changes nothing of what is fine.         *)
LEMMA SeedStepFine ==
    ASSUME NEW p, NEW l, NEW m, LoadFine(p, l), l.pc \in {"seed", "seedList", "seedRead"},
           SameLoad(l, m), m.rec = l.rec, m.early = l.early, m.result = l.result,
           m.pc \in {"seed", "seedList", "seedRead", "decide"}
    PROVE  LoadFine(p, m) /\ Keeps(l, m)
  <1>1. l.result = "none" /\ ~(l.base # NoRow /\ l.base.status = "destroyed")
    BY DEF LoadFine, BaseFine, Unwritten, Going
  <1>2. Numbered(m) /\ KeyFits(p, m) /\ (Owns(p, m, m.key) \/ Destroyed) /\ m.minted \in BOOLEAN
    BY DEF SameLoad, LoadFine, Numbered, KeyFits, Owns, Keyed, Stored
  <1>3. m.pc \in Unwritten \cup {"decide", "reclaim"} /\ l.pc \in Unwritten /\ m.pc # "reclaim"
    BY DEF Unwritten
  <1> QED
    BY <1>1, <1>2, <1>3, Unsent DEF SameLoad

(* The generations to name are chosen.                                     *)
LEMMA SeedsFine ==
    ASSUME NEW p, NEW l, LoadFine(p, l), l.pc \in {"seed", "seedList", "seedRead"},
           NEW present, NEW held, NEW m, m = Seeds(l, present, held)
    PROVE  LoadFine(p, m) /\ Keeps(l, m)
  <1>1. PICK order : order = SeedOrder(l, present, held)
    OBVIOUS
  <1>2. PICK pc, seed : /\ pc = IF order = <<>> THEN "decide" ELSE "seedRead"
                        /\ seed = [NoSeed EXCEPT !.wanted = TRUE, !.order = order,
                                                 !.todo = ToSet(order)]
    OBVIOUS
  <1>3. m = [l EXCEPT !.pc = pc, !.listed = {}, !.seed = seed]
    BY <1>1, <1>2 DEF Seeds
  <1>4. /\ SameLoad(l, m) /\ m.rec = l.rec /\ m.early = l.early /\ m.result = l.result
        /\ m.pc \in {"seed", "seedList", "seedRead", "decide"}
    BY <1>2, <1>3 DEF LoadFine, Idle, SameLoad
  <1> QED
    BY <1>4, SeedStepFine

(* The first window is read.                                               *)
LEMMA SeedFine ==
    ASSUME IInv, NEW p \in Loaders, NEW l, l = load[p],
           SeedLeases(p) \/ SeedList(p) \/ SeedRead(p), NEW m, m = load'[p]
    PROVE  LoadFine(p, m) /\ Keeps(l, m)
  <1>1. LoadFine(p, l) /\ l.pc \in {"seed", "seedList", "seedRead"}
    BY DEF IInv, LoadsFine, SeedLeases, SeedList, SeedRead
  <1>2. CASE SeedLeases(p)
    <2>1. PICK held : Becomes(p, IF l.listed # {} THEN Seeds(l, l.listed, held)
                                 ELSE [l EXCEPT !.pc = "seedList", !.seed.todo = held])
      BY <1>2, Zenon DEF SeedLeases
    <2>2. m = IF l.listed # {} THEN Seeds(l, l.listed, held)
              ELSE [l EXCEPT !.pc = "seedList", !.seed.todo = held]
      BY <2>1 DEF Becomes, IInv, LoadsFine
    <2>3. CASE m = Seeds(l, l.listed, held)
      BY <1>1, <2>3, SeedsFine
    <2>4. CASE m = [l EXCEPT !.pc = "seedList", !.seed.todo = held]
      <3>1. /\ SameLoad(l, m) /\ m.rec = l.rec /\ m.early = l.early /\ m.result = l.result
            /\ m.pc = "seedList"
        BY <1>1, <2>4 DEF LoadFine, Idle, SameLoad
      <3> QED
        BY <1>1, <3>1, SeedStepFine
    <2> QED
      BY <2>2, <2>3, <2>4
  <1>3. CASE SeedList(p)
    <2>1. m = Seeds(l, Listed, l.seed.todo)
      BY <1>3 DEF SeedList, Becomes, IInv, LoadsFine
    <2> QED
      BY <1>1, <2>1, SeedsFine
  <1>4. CASE SeedRead(p)
    <2>1. PICK seed : Becomes(p, [l EXCEPT !.pc = IF seed.todo = {} THEN "decide" ELSE l.pc,
                                          !.seed = seed])
      BY <1>4, Zenon DEF SeedRead
    <2>2. m = [l EXCEPT !.pc = IF seed.todo = {} THEN "decide" ELSE l.pc, !.seed = seed]
      BY <2>1 DEF Becomes, IInv, LoadsFine
    <2>3. /\ SameLoad(l, m) /\ m.rec = l.rec /\ m.early = l.early /\ m.result = l.result
          /\ m.pc \in {l.pc, "decide"}
      BY <1>1, <2>2 DEF LoadFine, Idle, SameLoad
    <2> QED
      BY <1>1, <2>3, SeedStepFine
  <1> QED
    BY <1>2, <1>3, <1>4

(* A read of it failed.                                                    *)
LEMMA SeedFailsFine ==
    ASSUME IInv, NEW p \in Loaders, NEW l, l = load[p], SeedFails(p), NEW m, m = load'[p]
    PROVE  LoadFine(p, m) /\ Keeps(l, m)
  <1>1. /\ LoadFine(p, l) /\ l.pc \in {"seed", "seedList", "seedRead"}
        /\ m = [l EXCEPT !.pc = "reclaim", !.result = "error"]
    BY DEF IInv, LoadsFine, SeedFails, Becomes
  <1>2. /\ DOMAIN m = DOMAIN Idle /\ m.pc = "reclaim" /\ m.gen = l.gen /\ m.base = l.base
        /\ m.rec = l.rec /\ m.sent = l.sent /\ m.unanswered = l.unanswered
        /\ m.early = l.early /\ m.result = "error" /\ m.minted = l.minted /\ m.key = l.key
    BY <1>1 DEF LoadFine, Idle
  <1>3. ~(l.base # NoRow /\ l.base.status = "destroyed")
    BY <1>1 DEF LoadFine, BaseFine, Unwritten, Going
  <1>4. Numbered(m) /\ KeyFits(p, m) /\ (Owns(p, m, m.key) \/ Destroyed) /\ m.minted \in BOOLEAN
    BY <1>1, <1>2 DEF LoadFine, Numbered, KeyFits, Owns, Keyed, Stored
  <1> QED
    BY <1>1, <1>2, <1>3, <1>4, Unsent DEF Unwritten, Refusals

(* A turn may take up the row as it is.                                    *)
LEMMA RowIsTaken ==
    ASSUME IInv, NEW p, NEW l, LoadFine(p, l), l.pc \in Turns \cup Refusing
    PROVE  /\ CopyFine(row)
           /\ l.base # NoRow => row # NoRow /\ l.base.status = "active" /\ l.rec # NoRow
           /\ (l.base # NoRow /\ row # NoRow /\ l.base.token = row.token) => l.base = row
  <1>1. CopyFine(row)
    BY DEF IInv, CopyFine
  <1>2. BaseFine(p, l) /\ l.pc \in Going /\ l.pc \notin {"number", "key"}
    BY DEF LoadFine, Going, Turns, Refusing, Deletes
  <1>3. l.base # NoRow => l.base.status \in {"active", "destroyed"}
    BY <1>2 DEF BaseFine, CopyFine, RowFine
  <1> QED
    BY <1>1, <1>2, <1>3 DEF BaseFine, CopyFine

(* The row shows that an earlier write landed.                             *)
LEMMA SettleLandedFine ==
    ASSUME IInv, NEW p \in Loaders, NEW l, l = load[p], SettleLanded(p), NEW m, m = load'[p]
    PROVE  LoadFine(p, m) /\ Keeps(l, m)
  <1>1. LoadFine(p, l) /\ l.pc \in Going
    BY DEF IInv, LoadsFine, SettleLanded, Deciding, Going, Turns
  <1>2. PICK live : Becomes(p, Published(p, l, l.before, live))
    BY DEF SettleLanded
  <1>3. m = Published(p, l, l.before, live)
    BY <1>2 DEF Becomes, IInv, LoadsFine
  <1>4. Ends(l, m) /\ m.result = "published"
    BY <1>3, LandedEnds
  <1> QED
    BY <1>1, <1>4, Finished DEF Refusals

(* The fence refuses: no write of the load can land, or it is early.       *)
LEMMA RefuseFine ==
    ASSUME IInv, NEW p \in Loaders, NEW l, l = load[p], Refuse(p), NEW m, m = load'[p]
    PROVE  LoadFine(p, m) /\ Keeps(l, m)
  <1>1. LoadFine(p, l) /\ l.pc = "decide" /\ Fenced(l)
    BY DEF IInv, LoadsFine, Refuse, Deciding
  <1>2. PICK early : early = OutOfChurn(l)
    OBVIOUS
  <1>3. m = [l EXCEPT !.pc = "reclaim", !.result = "refused", !.early = early]
    BY <1>2 DEF Refuse, Becomes, IInv, LoadsFine
  <1>4. /\ SameLoad(l, m) /\ m.pc = "reclaim" /\ m.result = "refused" /\ m.early = early
        /\ m.rec = l.rec /\ m.before = l.before
    BY <1>1, <1>3 DEF LoadFine, Idle, SameLoad
  <1>5. l.early = FALSE /\ CopyFine(l.rec) /\ (l.base # NoRow => l.rec # NoRow)
    BY <1>1 DEF LoadFine, BaseFine, Turns, Going
  <1>6. ASSUME NEW w \in Pending(l), Accepts(w)
        PROVE  m.before = None /\ early
    <2>1. /\ WriteFine(l, w) /\ l.before = None /\ l.unanswered
          /\ w.expect = ExpectedOf(l.rec)
      BY <1>1, <1>6 DEF LoadFine, WritesFine, Turns
    <2>2. ~TakenByAnother(l)
      BY <2>1 DEF TakenByAnother
    <2>3. l.rec # NoRow => l.rec.token # NoRow
      BY <1>5, TokenIsNotNoRow DEF CopyFine
    <2>4. ~(l.base = NoRow /\ l.rec # NoRow)
      BY <2>1, <2>3 DEF WriteFine, ExpectedOf
    <2>5. TokenMoved(l) /\ ~WaitsOutChurn(l) /\ ~(OnlyLeasesMoved(l) /\ l.waited)
      BY <1>1, <2>2, <2>4 DEF Fenced
    <2>6. l.base # NoRow /\ l.rec # NoRow
      BY <1>5, <2>5 DEF TokenMoved
    <2>7. row # NoRow /\ row.token = l.rec.token
      BY <1>6, <2>1, <2>3, <2>6 DEF Accepts, ExpectedOf
    <2>8. row = l.rec /\ OnlyLeasesDiffer(l.base, row)
      BY <1>5, <1>6, <2>1, <2>6, <2>7, AcceptedIsActive DEF CopyFine
    <2> QED
      BY <1>2, <1>4, <2>1, <2>2, <2>5, <2>6, <2>8 DEF OutOfChurn, OnlyLeasesMoved
  <1>7. early \in BOOLEAN
    BY <1>2 DEF OutOfChurn
  <1>8. m.base # NoRow /\ m.rec # NoRow /\ m.base.token = m.rec.token => m.base = m.rec
    BY <1>1, <1>4 DEF LoadFine, BaseFine, SameLoad
  <1> QED
    BY <1>1, <1>4, <1>5, <1>6, <1>7, <1>8, Stepped
    DEF SameLoad, Stored, Turns, Refusing, Deletes, Refusals

(* Only leases moved: the load waits and reads again.                      *)
LEMMA WaitOutChurnFine ==
    ASSUME IInv, NEW p \in Loaders, NEW l, l = load[p], WaitOutChurn(p), NEW m, m = load'[p]
    PROVE  LoadFine(p, m) /\ Keeps(l, m)
  <1>1. LoadFine(p, l) /\ l.pc = "decide"
    BY DEF IInv, LoadsFine, WaitOutChurn, Deciding
  <1>2. PICK churn : m = [l EXCEPT !.rec = row, !.waited = TRUE, !.before = None, !.churn = churn]
    BY DEF WaitOutChurn, Becomes, IInv, LoadsFine
  <1>3. /\ SameLoad(l, m) /\ m.pc = "decide" /\ m.result = l.result /\ m.early = l.early
        /\ m.rec = row /\ m.before = None
    BY <1>1, <1>2 DEF LoadFine, Idle, SameLoad
  <1>4. l.result = "none" /\ l.early = FALSE
    BY <1>1 DEF LoadFine, BaseFine, Turns
  <1>5. ASSUME NEW w \in Pending(l), Accepts(w)
        PROVE  w.expect = ExpectedOf(row)
    BY <1>5 DEF Accepts, ExpectedOf
  <1>6. /\ CopyFine(m.rec) /\ (l.base # NoRow => m.rec # NoRow)
        /\ (l.base # NoRow /\ m.rec # NoRow /\ l.base.token = m.rec.token) => l.base = m.rec
    BY <1>1, <1>3, RowIsTaken DEF Turns
  <1> QED
    BY <1>1, <1>3, <1>4, <1>5, <1>6, Stepped
    DEF SameLoad, Stored, Turns, Refusing, Deletes, Refusals

(* No row to seal under: nothing was sent.                                 *)
LEMMA RefuseSealedFine ==
    ASSUME IInv, NEW p \in Loaders, NEW l, l = load[p], RefuseSealed(p), NEW m, m = load'[p]
    PROVE  LoadFine(p, m) /\ Keeps(l, m)
  <1>1. LoadFine(p, l) /\ l.pc = "decide" /\ NothingToSealUnder(l)
    BY DEF IInv, LoadsFine, RefuseSealed, Deciding
  <1>2. l.base = NoRow /\ l.sent = {}
    BY <1>1 DEF NothingToSealUnder, LoadFine, BaseFine, KeyFits, Keyed, Stored, Going, Turns
  <1>3. Pending(l) = {}
    BY <1>2 DEF Pending
  <1>4. l.result = "none" /\ l.early = FALSE /\ CopyFine(l.rec)
    BY <1>1 DEF LoadFine, BaseFine, Turns
  <1>5. m = IF l.attempt = 0
            THEN Turn([l EXCEPT !.attempt = 1, !.before = None], "read")
            ELSE [l EXCEPT !.pc = "reclaim", !.result = "refused"]
    BY DEF RefuseSealed, Becomes, IInv, LoadsFine
  <1>6. /\ SameLoad(l, m) /\ m.early = l.early /\ m.rec = l.rec
        /\ \/ m.pc \in {"read", "final"} /\ m.result = l.result
           \/ m.pc = "reclaim" /\ m.result = "refused"
    <2>1. CASE m = Turn([l EXCEPT !.attempt = 1, !.before = None], "read")
      BY <1>1, <2>1 DEF Turn, LoadFine, Idle, SameLoad
    <2>2. CASE m = [l EXCEPT !.pc = "reclaim", !.result = "refused"]
      BY <1>1, <2>2 DEF LoadFine, Idle, SameLoad
    <2> QED
      BY <1>5, <2>1, <2>2
  <1>7. m.pc \in Turns => m.result = "none"
    BY <1>4, <1>6 DEF Turns
  <1>8. m.pc \in Refusing => m.result \in Refusals
    BY <1>6 DEF Refusing, Deletes, Refusals
  <1>9. m.pc \in Turns \cup Refusing /\ m.pc \notin Deletes
    BY <1>6 DEF Turns, Refusing, Deletes
  <1> QED
    BY <1>1, <1>2, <1>3, <1>4, <1>6, <1>7, <1>8, <1>9, Stepped DEF SameLoad, Stored

(* The read after a conflict.                                              *)
LEMMA ReadAgainFine ==
    ASSUME IInv, NEW p \in Loaders, NEW l, l = load[p], ReadAgain(p), NEW m, m = load'[p]
    PROVE  LoadFine(p, m) /\ Keeps(l, m)
  <1>1. LoadFine(p, l) /\ l.pc = "read"
    BY DEF IInv, LoadsFine, ReadAgain
  <1>2. m = [l EXCEPT !.pc = "decide", !.rec = row, !.waited = FALSE]
    BY DEF ReadAgain, Becomes, IInv, LoadsFine
  <1>3. /\ SameLoad(l, m) /\ m.pc = "decide" /\ m.result = l.result /\ m.early = l.early
        /\ m.rec = row
    BY <1>1, <1>2 DEF LoadFine, Idle, SameLoad
  <1>4. l.result = "none" /\ l.early = FALSE
    BY <1>1 DEF LoadFine, BaseFine, Turns
  <1>5. \A w \in Pending(l) : ~Accepts(w)
    BY <1>1 DEF LoadFine, WritesFine
  <1>6. /\ CopyFine(m.rec) /\ (l.base # NoRow => m.rec # NoRow)
        /\ (l.base # NoRow /\ m.rec # NoRow /\ l.base.token = m.rec.token) => l.base = m.rec
    BY <1>1, <1>3, RowIsTaken DEF Turns
  <1> QED
    BY <1>1, <1>3, <1>4, <1>5, <1>6, Stepped
    DEF SameLoad, Stored, Turns, Refusing, Deletes, Refusals

(* After an unanswered write a row that is another means that no write of  *)
(* the load can be applied any more.                                       *)
LEMMA AnotherRowSettles ==
    ASSUME NEW p, NEW l, LoadFine(p, l), l.pc \in Turns, ~SameRow(row, l.rec),
           NEW w \in Pending(l)
    PROVE  ~Accepts(w)
  <1>1. Accepts(w) => w.expect = ExpectedOf(l.rec)
    BY DEF LoadFine, WritesFine
  <1>2. l.rec # NoRow => l.rec.token # NoRow
    BY TokenIsNotNoRow DEF LoadFine, BaseFine, CopyFine
  <1> QED
    BY <1>1, <1>2 DEF Accepts, SameRow, ExpectedOf

(* The read after a write that got no answer.                              *)
LEMMA AskRowFine ==
    ASSUME IInv, NEW p \in Loaders, NEW l, l = load[p], AskRow(p), NEW m, m = load'[p]
    PROVE  LoadFine(p, m) /\ Keeps(l, m)
  <1>1. LoadFine(p, l) /\ l.pc = "asking"
    BY DEF IInv, LoadsFine, AskRow
  <1>2. l.result = "none" /\ l.early = FALSE
    BY <1>1 DEF LoadFine, BaseFine, Turns
  <1>3. m = IF ~SameRow(row, l.rec)
            THEN Turn([l EXCEPT !.before = l.rec, !.rec = row, !.waited = FALSE,
                                !.attempt = @ + 1], "decide")
            ELSE IF l.resends < MaxResends
            THEN Turn([l EXCEPT !.rec = row, !.waited = FALSE, !.resends = @ + 1,
                                !.attempt = @ + 1], "decide")
            ELSE End(l, "unknown")
    BY DEF AskRow, Becomes, IInv, LoadsFine
  <1>4. CASE m = End(l, "unknown")
    <2>1. Ends(l, m) /\ m.result = "unknown"
      BY <1>4, EndEnds
    <2> QED
      BY <1>1, <2>1, Finished DEF Going, Turns, Refusals
  <1>5. CASE /\ SameRow(row, l.rec)
             /\ m = Turn([l EXCEPT !.rec = row, !.waited = FALSE, !.resends = @ + 1,
                                   !.attempt = @ + 1], "decide")
    <2>1. /\ SameLoad(l, m) /\ m.pc \in {"decide", "final"} /\ m.result = l.result
          /\ m.early = l.early /\ m.rec = row /\ m.before = l.before
      BY <1>1, <1>5 DEF Turn, LoadFine, Idle, SameLoad
    <2>2. ASSUME NEW w \in Pending(l), Accepts(w)
          PROVE  w.expect = ExpectedOf(row) /\ l.before = None
      BY <1>1, <2>2 DEF Accepts, ExpectedOf, LoadFine, WritesFine
    <2>3. /\ CopyFine(m.rec) /\ (l.base # NoRow => m.rec # NoRow)
          /\ (l.base # NoRow /\ m.rec # NoRow /\ l.base.token = m.rec.token) => l.base = m.rec
      BY <1>1, <2>1, RowIsTaken DEF Turns
    <2> QED
      BY <1>1, <1>2, <2>1, <2>2, <2>3, Stepped
      DEF SameLoad, Stored, Turns, Refusing, Deletes, Refusals
  <1>6. CASE /\ ~SameRow(row, l.rec)
             /\ m = Turn([l EXCEPT !.before = l.rec, !.rec = row, !.waited = FALSE,
                                   !.attempt = @ + 1], "decide")
    <2>1. /\ SameLoad(l, m) /\ m.pc \in {"decide", "final"} /\ m.result = l.result
          /\ m.early = l.early /\ m.rec = row
      BY <1>1, <1>6 DEF Turn, LoadFine, Idle, SameLoad
    <2>2. \A w \in Pending(l) : ~Accepts(w)
      BY <1>1, <1>6, AnotherRowSettles DEF Turns
    <2>3. /\ CopyFine(m.rec) /\ (l.base # NoRow => m.rec # NoRow)
          /\ (l.base # NoRow /\ m.rec # NoRow /\ l.base.token = m.rec.token) => l.base = m.rec
      BY <1>1, <2>1, RowIsTaken DEF Turns
    <2> QED
      BY <1>1, <1>2, <2>1, <2>2, <2>3, Stepped
      DEF SameLoad, Stored, Turns, Refusing, Deletes, Refusals
  <1> QED
    BY <1>3, <1>4, <1>5, <1>6

(* The read after the last turn.                                           *)
LEMMA FinalReadFine ==
    ASSUME IInv, NEW p \in Loaders, NEW l, l = load[p], FinalRead(p), NEW m, m = load'[p]
    PROVE  LoadFine(p, m) /\ Keeps(l, m)
  <1>1. LoadFine(p, l) /\ l.pc = "final"
    BY DEF IInv, LoadsFine, FinalRead
  <1>2. PICK last : last = IF l.before = None THEN l.rec ELSE l.before
    OBVIOUS
  <1>3. m = IF row = NoRow \/ row.currentGen < l.gen THEN End(l, "unknown")
            ELSE IF PointerSetBy(row, last, l.gen, l.sent)
            THEN [End(l, "published") EXCEPT !.pc = "published"]
            ELSE [l EXCEPT !.pc = "reclaim", !.result = "refused"]
    BY <1>2 DEF FinalRead, Becomes, IInv, LoadsFine
  <1>4. CASE m = End(l, "unknown")
    <2>1. Ends(l, m) /\ m.result = "unknown"
      BY <1>4, EndEnds
    <2> QED
      BY <1>1, <2>1, Finished DEF Going, Turns, Refusals
  <1>5. CASE m = [End(l, "published") EXCEPT !.pc = "published"]
    <2>1. Ends(l, m) /\ m.result = "published"
      BY <1>5, PublishedEnds
    <2> QED
      BY <1>1, <2>1, Finished DEF Going, Turns, Refusals
  <1>6. CASE /\ row # NoRow /\ ~(row.currentGen < l.gen)
             /\ m = [l EXCEPT !.pc = "reclaim", !.result = "refused"]
    <2>1. /\ SameLoad(l, m) /\ m.pc = "reclaim" /\ m.result = "refused"
          /\ m.early = l.early /\ m.rec = l.rec
      BY <1>1, <1>6 DEF LoadFine, Idle, SameLoad
    <2>2. l.early = FALSE /\ CopyFine(l.rec)
      BY <1>1 DEF LoadFine, BaseFine, Turns
    <2>3. ASSUME NEW w \in Pending(l), Accepts(w)
          PROVE  FALSE
      <3>1. WriteFine(l, w)
        BY <1>1 DEF LoadFine, WritesFine
      <3> QED
        BY <1>6, <2>3, <3>1, AcceptedIsActive DEF WriteFine
    <2>4. /\ l.base # NoRow => l.rec # NoRow
          /\ (l.base # NoRow /\ l.rec # NoRow /\ l.base.token = l.rec.token) => l.base = l.rec
      BY <1>1 DEF LoadFine, BaseFine, Going, Turns
    <2> QED
      BY <1>1, <2>1, <2>2, <2>3, <2>4, Stepped
      DEF SameLoad, Stored, Turns, Refusing, Deletes, Refusals
  <1> QED
    BY <1>3, <1>4, <1>5, <1>6

(* Only an early refusal leaves a pointer by the write of a refused load.  *)
LEMMA PointerIsNotEarly ==
    ASSUME IInv, NEW p \in Loaders, NEW l, l = load[p], ~l.early,
           row # NoRow, row.pointerId \in l.sent
    PROVE  ~PointsEarly
  <1> SUFFICES ASSUME NEW q \in Loaders, NEW k, k = load[q], k.early, row.pointerId \in k.sent
               PROVE  FALSE
    BY DEF PointsEarly
  <1>1. NamesFine(p, l) /\ NamesFine(q, k)
    BY DEF IInv, LoadsFine, LoadFine
  <1>2. p = q
    BY <1>1, TokensAreOwn
  <1> QED
    BY <1>2

(* The reclaim reads the row.                                              *)
LEMMA ReclaimFine ==
    ASSUME IInv, NEW p \in Loaders, NEW l, l = load[p], Reclaim(p), NEW m, m = load'[p]
    PROVE  LoadFine(p, m) /\ Keeps(l, m)
  <1>1. LoadFine(p, l) /\ l.pc = "reclaim"
    BY DEF IInv, LoadsFine, Reclaim
  <1>2. m = IF ReclaimByNumber(l) THEN [l EXCEPT !.pc = "delete", !.held = row]
            ELSE IF ReclaimByObject(l) /\ objects[l.gen] # None /\ objects[l.gen].by = p
            THEN [l EXCEPT !.pc = "deleteOwn", !.held = row]
            ELSE End(l, l.result)
    BY DEF Reclaim, Becomes, IInv, LoadsFine
  <1>3. /\ l.result \in Refusals /\ CopyFine(l.rec) /\ (l.base # NoRow => l.rec # NoRow)
        /\ (l.base # NoRow /\ l.rec # NoRow /\ l.base.token = l.rec.token) => l.base = l.rec
        /\ \A w \in Pending(l) : Accepts(w) => l.early /\ l.before = None
    BY <1>1 DEF LoadFine, BaseFine, WritesFine, Refusing, Going
  <1>4. CASE m = End(l, l.result)
    <2>1. Ends(l, m) /\ m.result = l.result
      BY <1>4, EndEnds
    <2> QED
      BY <1>1, <1>3, <2>1, Finished DEF Going, Refusing
  <1>5. CASE \/ ReclaimByNumber(l) /\ m = [l EXCEPT !.pc = "delete", !.held = row]
             \/ ReclaimByObject(l) /\ m = [l EXCEPT !.pc = "deleteOwn", !.held = row]
    <2>1. /\ SameLoad(l, m) /\ m.pc \in Deletes /\ m.result = l.result
          /\ m.early = l.early /\ m.rec = l.rec /\ m.before = l.before
      BY <1>1, <1>5 DEF LoadFine, Idle, SameLoad, Deletes
    <2>2. ASSUME ~l.early, row # NoRow, row.status = "active", row.pointerId \in l.sent
          PROVE  FALSE
      <3>1. row.pointerId.write[1] = p
        <4>1. \A n : <<p, n>>[1] = p
          OBVIOUS
        <4> QED
          BY <1>1, <2>2, <4>1 DEF LoadFine, NamesFine
      <3>2. ~ReclaimByNumber(l)
        <4>1. l.base # NoRow => /\ l.base.pointerId.write[1] # p
                                /\ row.token = l.base.token => row = l.base
          BY <1>1, <2>2 DEF LoadFine, BaseFine, CopyFine
        <4> QED
          BY <2>2, <3>1, <4>1 DEF ReclaimByNumber, OnlyLeasesDiffer, OnlyLeasesDifferBut
      <3>3. row.wrappedDeks # Clear /\ l.key = Clear
        BY <1>5, <2>2, <3>2 DEF ReclaimByObject
      <3>4. row.currentGen = l.gen /\ l.gen # NoGen
        BY <1>1, <2>2, SegmentAssumption
        DEF LoadFine, LandingFine, Numbered, Keyed, Stored, Gens, NoGen
      <3>5. objects[l.gen].key = l.key
        BY <1>1, <2>2 DEF LoadFine, Owns, Stored, Destroyed
      <3>6. ~PointsEarly
        BY <2>2, PointerIsNotEarly
      <3>7. objects[l.gen].key = row.wrappedDeks
        BY <2>2, <3>4, <3>6 DEF IInv, PointerFine, Points, Active
      <3> QED
        BY <3>3, <3>5, <3>7
    <2>3. m.pc \in Refusing /\ m.pc \in Stored /\ m.pc \notin Turns /\ m.pc # "read"
      BY <2>1 DEF Stored, Deletes, Turns, Refusing
    <2>4. l.early \in BOOLEAN /\ l.pc \in Stored
      BY <1>1 DEF LoadFine, Stored
    <2> QED
      BY <1>1, <1>3, <2>1, <2>2, <2>3, <2>4, Stepped DEF SameLoad
  <1> QED
    BY <1>2, <1>4, <1>5

(* A look at the row after the delete.                                     *)
LEMMA WatchFine ==
    ASSUME IInv, NEW p \in Loaders, NEW l, l = load[p], Watch(p), NEW m, m = load'[p]
    PROVE  LoadFine(p, m) /\ Keeps(l, m)
  <1>1. LoadFine(p, l) /\ l.pc = "watch"
    BY DEF IInv, LoadsFine, Watch
  <1>2. m = IF ~NamesDeleted(l.held, {l.gen}) THEN End(l, l.result)
            ELSE IF l.looks < MaxLooks THEN [l EXCEPT !.looks = @ + 1]
            ELSE End(l, "missing")
    BY DEF Watch, Becomes, IInv, LoadsFine
  <1>3. /\ l.result \in Refusals /\ CopyFine(l.rec) /\ (l.base # NoRow => l.rec # NoRow)
        /\ (l.base # NoRow /\ l.rec # NoRow /\ l.base.token = l.rec.token) => l.base = l.rec
        /\ \A w \in Pending(l) : Accepts(w) => l.early /\ l.before = None
    BY <1>1 DEF LoadFine, BaseFine, WritesFine, Refusing, Going
  <1>4. CASE m = End(l, l.result) \/ m = End(l, "missing")
    <2>1. Ends(l, m)
      BY <1>4, EndEnds
    <2> QED
      BY <1>1, <1>3, <2>1, Finished DEF Going, Refusing
  <1>5. CASE m = [l EXCEPT !.looks = @ + 1]
    <2>1. /\ SameLoad(l, m) /\ m.pc = "watch" /\ m.result = l.result
          /\ m.early = l.early /\ m.rec = l.rec /\ m.before = l.before
      BY <1>1, <1>5 DEF LoadFine, Idle, SameLoad
    <2>2. l.early \in BOOLEAN
      BY <1>1 DEF LoadFine
    <2> QED
      BY <1>1, <1>3, <2>1, <2>2, Stepped
      DEF SameLoad, Stored, Turns, Refusing, Deletes
  <1> QED
    BY <1>2, <1>4, <1>5

(* The reclaim stops at a fault, and the refusal stays what it was.        *)
LEMMA TidyFailsFine ==
    ASSUME IInv, NEW p \in Loaders, NEW l, l = load[p], TidyFails(p), NEW m, m = load'[p]
    PROVE  LoadFine(p, m) /\ Keeps(l, m)
  <1>1. LoadFine(p, l) /\ l.pc \in Refusing
    BY DEF IInv, LoadsFine, TidyFails, Refusing, Deletes
  <1>2. m = Untidy(l)
    BY DEF TidyFails, Becomes, IInv, LoadsFine
  <1>3. Ends(l, m) /\ m.result = l.result
    BY <1>2, UntidyEnds
  <1>4. \A w \in Pending(l) : Accepts(w) => (l.result \in Refusals => l.early)
    BY <1>1 DEF LoadFine, WritesFine
  <1> QED
    BY <1>1, <1>3, <1>4, Finished DEF Going

(* The load stops where it is.                                             *)
LEMMA AbandonFine ==
    ASSUME IInv, NEW p \in Loaders, NEW l, l = load[p], Abandon(p), NEW m, m = load'[p]
    PROVE  LoadFine(p, m) /\ Keeps(l, m)
  <1>1. LoadFine(p, l) /\ l.pc \in Going
    BY DEF IInv, LoadsFine, LoadFine, Abandon, Ended, Over
  <1>2. m = End(l, "unknown")
    BY DEF Abandon, Becomes, IInv, LoadsFine
  <1>3. Ends(l, m) /\ m.result = "unknown"
    BY <1>2, EndEnds
  <1> QED
    BY <1>1, <1>3, Finished DEF Refusals

-----------------------------------------------------------------------------
(* A step that leaves the segment as it is.                                *)
Quiet(p) ==
    \/ ReadRow(p) \/ Number(p) \/ ChooseKey(p) \/ (Put(p) /\ objects[load[p].gen] # None)
    \/ SeedLeases(p) \/ SeedList(p) \/ SeedRead(p) \/ SeedFails(p)
    \/ SettleLanded(p) \/ Refuse(p) \/ WaitOutChurn(p) \/ RefuseSealed(p)
    \/ AskRow(p) \/ ReadAgain(p) \/ FinalRead(p) \/ Reclaim(p) \/ Watch(p) \/ TidyFails(p)
    \/ Abandon(p)

(* Each step that changes nothing of the segment.                          *)
LEMMA QuietFine ==
    ASSUME IInv, NEW p \in Loaders, NEW l, l = load[p], Quiet(p), NEW m, m = load'[p]
    PROVE  LoadFine(p, m) /\ Keeps(l, m)
  BY ReadRowFine, NumberFine, ChooseKeyFine, PutLostFine, SeedFine, SeedFailsFine,
     SettleLandedFine, RefuseFine, WaitOutChurnFine, RefuseSealedFine, AskRowFine,
     ReadAgainFine, FinalReadFine, ReclaimFine, WatchFine, TidyFailsFine, AbandonFine
  DEF Quiet

-----------------------------------------------------------------------------
(* What a load is, fine or not, when the segment changes under it.         *)

(* The row stays; writes may be under way no more, and an object may go    *)
(* that the load has no use for.                                           *)
LEMMA RowStays ==
    ASSUME NEW q, NEW l, LoadFine(q, l), UNCHANGED <<row, landed>>,
           \A w \in inflight' : w.token \in l.sent => w \in inflight,
           \/ Destroyed
           \/ (objects[l.gen] # None /\ objects[l.gen].by = q) => objects'[l.gen] = objects[l.gen]
           \/ l.pc \notin Stored /\ \A w \in Pending(l) : Accepts(w) => l.early
    PROVE  LoadFine(q, l)'
  <1>1. NamesFine(q, l)' /\ (l.pc \in Keyed \cup {"key"} => Numbered(l)')
    BY DEF LoadFine, NamesFine, Numbered
  <1>2. BaseFine(q, l)'
    BY DEF LoadFine, BaseFine, CopyFine, RowFine
  <1>3. l.pc \in Keyed => KeyFits(q, l)'
    BY DEF LoadFine, KeyFits
  <1>4. l.pc \in Stored => (Owns(q, l, l.key) \/ Destroyed)'
    BY DEF LoadFine, Owns, Destroyed
  <1>5. /\ \A w \in Pending(l)' : w \in Pending(l)
        /\ Landed(l)' = Landed(l)
        /\ \A w : Accepts(w)' = Accepts(w)
    BY DEF Pending, Landed, Accepts
  <1>6. ASSUME NEW w \in Pending(l)'
        PROVE  /\ WriteFine(l, w)'
               /\ l.unanswered
               /\ Accepts(w)' /\ ~l.early => Owns(q, l, KeyLeft(l, w))'
               /\ Accepts(w)' /\ l.pc \in Turns => w.expect = ExpectedOf(l.rec)
               /\ Accepts(w)' => l.pc # "read" /\ l.before = None
               /\ Accepts(w)' => ~(l.result \in Refusals /\ ~l.early)
    <2>1. w \in Pending(l) /\ (Accepts(w)' <=> Accepts(w))
      BY <1>5, <1>6
    <2>2. /\ WriteFine(l, w) /\ l.unanswered
          /\ Accepts(w) /\ ~l.early => Owns(q, l, KeyLeft(l, w))
          /\ Accepts(w) /\ l.pc \in Turns => w.expect = ExpectedOf(l.rec)
          /\ Accepts(w) => l.pc # "read" /\ l.before = None
          /\ Accepts(w) => ~(l.result \in Refusals /\ ~l.early)
      BY <2>1 DEF LoadFine, WritesFine
    <2>3. WriteFine(l, w)'
      BY <2>2 DEF WriteFine
    <2>4. Accepts(w) /\ ~l.early => Owns(q, l, KeyLeft(l, w))'
      <3> SUFFICES ASSUME Accepts(w), ~l.early PROVE Owns(q, l, KeyLeft(l, w))'
        OBVIOUS
      <3>1. ~Destroyed
        BY <2>2, AcceptedIsActive
      <3> QED
        BY <2>1, <2>2, <3>1 DEF Owns, KeyLeft
    <2> QED
      BY <2>1, <2>2, <2>3, <2>4
  <1>7. WritesFine(q, l)'
    <2>1. ~l.unanswered /\ l.result # "published" => Landed(l)' = {}
      BY <1>5 DEF LoadFine, WritesFine
    <2> QED
      BY <1>6, <2>1 DEF WritesFine, ExpectedOf
  <1>8. LandingFine(q, l)'
    BY <1>5 DEF LoadFine, LandingFine
  <1>9. l.pc \in Deletes /\ ~l.early =>
           ((row # NoRow /\ row.status = "active") => row.pointerId \notin l.sent)'
    BY DEF LoadFine
  <1> QED
    BY <1>1, <1>2, <1>3, <1>4, <1>7, <1>8, <1>9 DEF LoadFine

(* The row is replaced by the one a write leaves, its name a new one.  A   *)
(* tombstone stays one, a key stays, and a pointer that is not renewed is  *)
(* the one that was there.                                                 *)
RowMoves ==
    /\ row' # NoRow
    /\ RowFine(row)'
    /\ row'.token.write \notin landed
    /\ landed' = landed \cup {row'.token.write}
    /\ row # NoRow =>
          /\ row.status = "destroyed" => row'.status = "destroyed"
          /\ row.wrappedDeks # Clear =>
                row'.status = "destroyed" \/ row'.wrappedDeks = row.wrappedDeks
    /\ \/ row'.pointerId = row'.token
       \/ /\ row # NoRow
          /\ row'.pointerId = row.pointerId /\ row'.status = row.status
          /\ row'.currentGen = row.currentGen /\ row'.wrappedDeks = row.wrappedDeks

(* What of a load does not depend on whose write moved the row.            *)
LEMMA BaseStays ==
    ASSUME NEW q, NEW l, LoadFine(q, l), RowMoves, UNCHANGED objects
    PROVE  /\ NamesFine(q, l)' /\ BaseFine(q, l)'
           /\ l.pc \in Keyed \cup {"key"} => Numbered(l)'
           /\ l.pc \in Keyed => KeyFits(q, l)'
           /\ l.pc \in Stored => (Owns(q, l, l.key) \/ Destroyed)'
  <1>1. NamesFine(q, l)' /\ (l.pc \in Keyed \cup {"key"} => Numbered(l)')
    BY DEF LoadFine, NamesFine, Numbered
  <1>2. \A c : CopyFine(c) => CopyFine(c)'
    BY DEF CopyFine, RowFine, RowMoves
  <1>3. BaseFine(q, l)'
    BY <1>2 DEF LoadFine, BaseFine, RowMoves
  <1>4. l.pc \in Keyed => KeyFits(q, l)'
    BY DEF LoadFine, KeyFits, RowMoves
  <1>5. l.pc \in Stored => (Owns(q, l, l.key) \/ Destroyed)'
    BY DEF LoadFine, Owns, Destroyed, RowMoves
  <1> QED
    BY <1>1, <1>3, <1>4, <1>5

(* No other write of a load is applied once one is.                        *)
LEMMA WritesStay ==
    ASSUME NEW q, NEW l, LoadFine(q, l), RowMoves,
           \A w \in inflight' : w.token \in l.sent =>
               w \in inflight /\ w.token.write # row'.token.write
    PROVE  \A w \in Pending(l)' : WriteFine(l, w)' /\ l.unanswered /\ ~Accepts(w)'
  <1> SUFFICES ASSUME NEW w \in Pending(l)'
               PROVE  WriteFine(l, w)' /\ l.unanswered /\ ~Accepts(w)'
    OBVIOUS
  <1>1. w \in Pending(l) /\ w.token.write # row'.token.write
    BY DEF Pending
  <1>2. WriteFine(l, w) /\ l.unanswered
    BY <1>1 DEF LoadFine, WritesFine
  <1>3. w.expect # NoRow => row'.token # w.expect
    BY <1>2 DEF WriteFine, RowMoves
  <1>4. ~Accepts(w)'
    BY <1>3 DEF Accepts, RowMoves
  <1> QED
    BY <1>1, <1>2, <1>3, <1>4 DEF WriteFine, RowMoves

(* A load whose write it is not stays fine.                                *)
LEMMA AnotherMoves ==
    ASSUME NEW q, NEW l, LoadFine(q, l), RowMoves, UNCHANGED objects, row # NoRow => RowFine(row),
           \A t \in l.sent : t.write # row'.token.write,
           \A w \in inflight' : w.token \in l.sent => w \in inflight
    PROVE  LoadFine(q, l)'
  <1>1. \A w \in Pending(l)' : WriteFine(l, w)' /\ l.unanswered /\ ~Accepts(w)'
    BY WritesStay
  <1>2. Landed(l)' = Landed(l)
    BY DEF Landed, RowMoves
  <1>3. WritesFine(q, l)'
    BY <1>1, <1>2 DEF LoadFine, WritesFine
  <1>4. row'.token \notin l.sent
    OBVIOUS
  <1>5. LandingFine(q, l)'
    <2>1. \A t, u \in Landed(l)' : t = u
      BY <1>2 DEF LoadFine, LandingFine
    <2>2. l.base # NoRow => l.base.pointerId # row'.token
      BY DEF LoadFine, BaseFine, CopyFine, RowFine, RowMoves
    <2>3. (Landed(l)' # {} /\ l.base # NoRow) => row'.pointerId # l.base.pointerId
      BY <1>2, <2>2 DEF LoadFine, LandingFine, RowMoves
    <2>4. (row'.status = "active" /\ row'.pointerId \in l.sent) => row'.currentGen = l.gen
      BY <1>4 DEF LoadFine, LandingFine, RowMoves
    <2> QED
      BY <2>1, <2>3, <2>4 DEF LandingFine, RowMoves
  <1>6. l.pc \in Deletes /\ ~l.early =>
           ((row # NoRow /\ row.status = "active") => row.pointerId \notin l.sent)'
    BY <1>4 DEF LoadFine, RowMoves
  <1> QED
    BY <1>3, <1>5, <1>6, BaseStays DEF LoadFine

(* The tombstone is purged.                                                *)
LEMMA RowGoes ==
    ASSUME IInv, NEW q \in Loaders, NEW l, l = load[q], PurgeRow, GracePassed
    PROVE  LoadFine(q, l)'
  <1>1. /\ LoadFine(q, l) /\ row' = NoRow /\ inflight' = {}
        /\ UNCHANGED <<objects, landed>>
        /\ l.pc = "start" \/ l.pc \in Over \/ (l.base # NoRow /\ l.base.status = "destroyed")
    BY DEF IInv, LoadsFine, PurgeRow, GracePassed, Ended, Over
  <1>2. l.pc \in {"start", "number", "key"} \cup Over
    BY <1>1 DEF LoadFine, BaseFine, Going, Over
  <1>3. l.pc \notin Keyed \cup Stored \cup Deletes
    BY <1>2 DEF Keyed, Stored, Deletes, Over
  <1>4. NamesFine(q, l)' /\ (l.pc \in Keyed \cup {"key"} => Numbered(l)')
    BY <1>1 DEF LoadFine, NamesFine, Numbered
  <1>5. BaseFine(q, l)'
    BY <1>1, <1>2 DEF LoadFine, BaseFine, CopyFine, RowFine, Going, Over, Unwritten, Turns,
                      Refusing, Deletes
  <1>6. Pending(l)' = {} /\ Landed(l)' = Landed(l)
    BY <1>1 DEF Pending, Landed
  <1>7. WritesFine(q, l)'
    BY <1>1, <1>6 DEF LoadFine, WritesFine
  <1>8. l.base = NoRow => l.pc \notin Going
    BY <1>1, <1>2 DEF LoadFine, Going, Over, Unwritten, Turns, Refusing, Deletes
  <1>9. LandingFine(q, l)'
    BY <1>1, <1>6, <1>8 DEF LoadFine, LandingFine
  <1> QED
    BY <1>1, <1>3, <1>4, <1>5, <1>7, <1>9 DEF LoadFine

-----------------------------------------------------------------------------
(* The writes that move the row: those of the loads, and those of Other.   *)

(* The write of a load moves the pointer to its own number, under its key. *)
LEMMA WriteMoves ==
    ASSUME IInv, NEW l, NEW w, WriteFine(l, w), Apply(w)
    PROVE  /\ RowMoves
           /\ row'.token = w.token /\ row'.pointerId = w.token /\ row'.status = "active"
           /\ row'.currentGen = l.gen /\ row'.wrappedDeks = KeyLeft(l, w)
  <1>1. Accepts(w) /\ row' = RowAfter(w) /\ landed' = landed \cup {w.token.write}
    BY DEF Apply
  <1>2. row' # NoRow
    BY <1>1, RowAfterIsRow
  <1>3. l.gen \in Gens /\ l.gen # NoGen
    BY SegmentAssumption DEF WriteFine, Gens, NoGen
  <1>4. /\ row'.token = w.token /\ row'.pointerId = w.token /\ row'.status = "active"
        /\ row'.currentGen = l.gen /\ row'.wrappedDeks = KeyLeft(l, w)
    <2>1. CASE w.expect = NoRow
      <3>1. row' = RecordFromNew(w.patch, w.token) /\ l.base = NoRow
        BY <1>1, <2>1 DEF RowAfter, WriteFine
      <3> QED
        BY <3>1 DEF RecordFromNew, BlankRow, WriteFine, KeyLeft
    <2>2. CASE w.expect # NoRow
      <3>1. row' = ApplyRegistryPatch(row, w.patch, w.token) /\ row # NoRow
        BY <1>1, <2>2 DEF RowAfter, Accepts
      <3>2. l.base # NoRow /\ row.status = "active" /\ row.wrappedDeks = l.base.wrappedDeks
        BY <1>1, <3>1, AcceptedIsActive
      <3>3. RenewsPointer(w.patch)
        BY DEF RenewsPointer, ResolvedFields, WriteFine
      <3> QED
        BY <3>1, <3>2, <3>3 DEF ApplyRegistryPatch, WriteFine, KeyLeft
    <2> QED
      BY <2>1, <2>2
  <1>5. RowFine(row)'
    BY <1>1, <1>3, <1>4 DEF RowFine, WriteFine
  <1>6. row # NoRow => row.status # "destroyed"
    BY <1>1, AcceptedIsActive
  <1>7. row # NoRow /\ row.wrappedDeks # Clear => row'.wrappedDeks = row.wrappedDeks
    <2> SUFFICES ASSUME row # NoRow, row.wrappedDeks # Clear
                 PROVE  row'.wrappedDeks = row.wrappedDeks
      OBVIOUS
    <2>1. row.currentGen # NoGen
      BY DEF IInv, RowFine
    <2>2. /\ l.base # NoRow /\ w.expect # NoRow
          /\ row.currentGen = l.base.currentGen /\ row.wrappedDeks = l.base.wrappedDeks
      BY <1>1, AcceptedIsActive
    <2>3. "wrappedDeks" \notin DOMAIN w.patch
      BY <2>1, <2>2 DEF WriteFine
    <2> QED
      BY <1>4, <2>2, <2>3 DEF KeyLeft
  <1> QED
    BY <1>1, <1>2, <1>4, <1>5, <1>6, <1>7 DEF RowMoves, WriteFine

(* A load whose write would be applied has had none applied.               *)
LEMMA NothingLanded ==
    ASSUME NEW p, NEW l, NEW w, LoadFine(p, l), WriteFine(l, w), Accepts(w),
           l.pc \in Going \/ Pending(l) # {}
    PROVE  Landed(l) = {}
  BY AcceptedIsActive DEF LoadFine, LandingFine

(* The write of a load is applied.                                         *)
LEMMA OwnLands ==
    ASSUME NEW p, NEW l, NEW w, LoadFine(p, l), RowMoves, Landed(l) = {},
           row'.token = w.token, row'.pointerId = w.token, row'.currentGen = l.gen,
           \A t \in l.sent : t.write = w.token.write => t = w.token,
           NEW m, m.base = l.base, m.gen = l.gen, m.sent = l.sent \cup {w.token}
    PROVE  LandingFine(p, m)'
  <1>1. \A t \in Landed(m)' : t = w.token
    BY DEF Landed, RowMoves
  <1>2. l.base # NoRow => l.base.pointerId # row'.token
    BY DEF LoadFine, BaseFine, CopyFine, RowFine, RowMoves
  <1> QED
    BY <1>1, <1>2 DEF LandingFine, RowMoves

(* So it is when the write arrives late.                                   *)
LEMMA OwnLateWriteLands ==
    ASSUME IInv, NEW p \in Loaders, NEW l, l = load[p], NEW w \in Pending(l),
           LateWriteArrives(w), Accepts(w)
    PROVE  LoadFine(p, l)'
  <1>1. /\ LoadFine(p, l) /\ WriteFine(l, w) /\ l.unanswered /\ (l.result \in Refusals => l.early)
    BY DEF IInv, LoadsFine, LoadFine, WritesFine
  <1>2. Apply(w) /\ inflight' = inflight \ {w} /\ UNCHANGED objects
    BY DEF LateWriteArrives
  <1>3. /\ RowMoves /\ row'.token = w.token /\ row'.pointerId = w.token
        /\ row'.currentGen = l.gen
    BY <1>1, <1>2, WriteMoves
  <1>4. \A t \in l.sent : t.write = w.token.write => t = w.token
    BY <1>1 DEF LoadFine, NamesFine, Pending
  <1>5. LandingFine(p, l)'
    <2>1. Landed(l) = {}
      BY <1>1, NothingLanded
    <2>2. l.sent = l.sent \cup {w.token}
      BY DEF Pending
    <2> QED
      BY <1>1, <1>3, <1>4, <2>1, <2>2, OwnLands
  <1>6. \A u \in Pending(l)' : WriteFine(l, u)' /\ l.unanswered /\ ~Accepts(u)'
    <2>1. ASSUME NEW u \in inflight', u.token \in l.sent
          PROVE  u \in inflight /\ u.token.write # row'.token.write
      BY <1>2, <1>3, <1>4, <2>1 DEF IInv, FlyingAreSent, Pending
    <2> QED
      BY <1>1, <1>3, <2>1, WritesStay
  <1>7. WritesFine(p, l)'
    BY <1>1, <1>6 DEF WritesFine
  <1>8. ~(l.pc \in Deletes /\ ~l.early)
    BY <1>1 DEF LoadFine, BaseFine, Deletes, Refusing
  <1>9. /\ NamesFine(p, l)' /\ BaseFine(p, l)'
        /\ l.pc \in Keyed \cup {"key"} => Numbered(l)'
        /\ l.pc \in Keyed => KeyFits(p, l)'
        /\ l.pc \in Stored => (Owns(p, l, l.key) \/ Destroyed)'
    BY <1>1, <1>2, <1>3, BaseStays
  <1> QED
    BY <1>1, <1>5, <1>7, <1>8, <1>9 DEF LoadFine

(* The writes of Other move no pointer: they leave it as it was, or what   *)
(* they leave has none that can be read.                                   *)
LEMMA OtherMoves ==
    ASSUME IInv, OtherOperation
    PROVE  \/ /\ RowMoves /\ row'.token.write = OtherWrite /\ others' = others + 1
              /\ UNCHANGED <<objects, inflight>>
              /\ ~Points' \/ (row # NoRow /\ row'.pointerId = row.pointerId)
           \/ \E g \in Gens : DropObject(g)
  <1>1. OtherWrite \notin landed /\ (row # NoRow => RowFine(row))
    BY OtherWriteIsFresh DEF IInv
  <1>2. ASSUME NEW w, OtherWrites(w), w.token.write = OtherWrite, "write" \in DOMAIN w.token,
               "leases" \notin DOMAIN w.patch \/ w.expect # NoRow,
               \/ /\ w.expect = NoRow
                  /\ {"currentGen", "wrappedDeks", "status"} \cap DOMAIN w.patch
                         \in {{"currentGen"}, {"currentGen", "status"}}
                  /\ w.patch.currentGen \in Gens \cup {NoGen}
                  /\ IF "status" \in DOMAIN w.patch THEN w.patch.status = "destroyed"
                     ELSE w.patch.currentGen = NoGen
               \/ /\ w.expect # NoRow
                  /\ ResolvedFields \cap DOMAIN w.patch = {}
               \/ /\ w.expect # NoRow
                  /\ "currentGen" \notin DOMAIN w.patch
                  /\ {"status", "wrappedDeks"} \subseteq DOMAIN w.patch
                  /\ w.patch.status = "destroyed" /\ w.patch.wrappedDeks = Clear
        PROVE  /\ RowMoves /\ row'.token.write = OtherWrite /\ others' = others + 1
               /\ UNCHANGED <<objects, inflight>>
               /\ ~Points' \/ (row # NoRow /\ row'.pointerId = row.pointerId)
    <2>1. /\ Accepts(w) /\ row' = RowAfter(w) /\ landed' = landed \cup {w.token.write}
          /\ others' = others + 1 /\ UNCHANGED <<objects, inflight>>
      BY <1>2 DEF OtherWrites, Apply
    <2>2. row' # NoRow
      BY <2>1, RowAfterIsRow
    <2>3. CASE w.expect = NoRow
      <3>1. row' = RecordFromNew(w.patch, w.token) /\ row = NoRow
        BY <2>1, <2>3 DEF RowAfter, Accepts
      <3>2. /\ row'.token = w.token /\ row'.pointerId = w.token
            /\ row'.currentGen = w.patch.currentGen /\ row'.wrappedDeks = Clear
            /\ row'.status = IF "status" \in DOMAIN w.patch THEN w.patch.status ELSE "active"
        BY <1>2, <2>3, <3>1 DEF RecordFromNew, BlankRow
      <3> QED
        BY <1>1, <1>2, <2>1, <2>2, <2>3, <3>1, <3>2 DEF RowMoves, RowFine, Points, Active
    <2>4. CASE w.expect # NoRow
      <3>1. row' = ApplyRegistryPatch(row, w.patch, w.token) /\ row # NoRow
        BY <2>1, <2>4 DEF RowAfter, Accepts
      <3>2. CASE ResolvedFields \cap DOMAIN w.patch = {}
        <4>1. ~RenewsPointer(w.patch) /\ \A f \in ResolvedFields : f \notin DOMAIN w.patch
          BY <3>2 DEF RenewsPointer
        <4>2. /\ row'.token = w.token /\ row'.pointerId = row.pointerId
              /\ row'.currentGen = row.currentGen /\ row'.wrappedDeks = row.wrappedDeks
              /\ row'.status = row.status
          BY <3>1, <4>1 DEF ApplyRegistryPatch, ResolvedFields
        <4> QED
          BY <1>1, <1>2, <2>1, <2>2, <3>1, <4>2 DEF RowMoves, RowFine
      <3>3. CASE /\ "currentGen" \notin DOMAIN w.patch
                 /\ {"status", "wrappedDeks"} \subseteq DOMAIN w.patch
                 /\ w.patch.status = "destroyed" /\ w.patch.wrappedDeks = Clear
        <4>1. RenewsPointer(w.patch)
          BY <3>3 DEF RenewsPointer, ResolvedFields
        <4>2. /\ row'.token = w.token /\ row'.pointerId = w.token
              /\ row'.currentGen = row.currentGen /\ row'.wrappedDeks = Clear
              /\ row'.status = "destroyed"
          BY <3>1, <3>3, <4>1 DEF ApplyRegistryPatch
        <4> QED
          BY <1>1, <1>2, <2>1, <2>2, <3>1, <4>2 DEF RowMoves, RowFine, Points, Active
      <3> QED
        BY <1>2, <2>4, <3>2, <3>3
    <2> QED
      BY <2>3, <2>4
  <1>3. \A r, patch : /\ SwapOf(r, patch, OtherWrite).expect = r.token
                      /\ SwapOf(r, patch, OtherWrite).patch = patch
                      /\ SwapOf(r, patch, OtherWrite).token.write = OtherWrite
                      /\ "write" \in DOMAIN SwapOf(r, patch, OtherWrite).token
    BY DEF SwapOf, NextRegistryToken
  <1>4. \A patch : /\ CreateOf(patch, OtherWrite).expect = NoRow
                   /\ CreateOf(patch, OtherWrite).patch = patch
                   /\ CreateOf(patch, OtherWrite).token.write = OtherWrite
                   /\ "write" \in DOMAIN CreateOf(patch, OtherWrite).token
    BY DEF CreateOf, NewIncarnationToken
  <1>5. row # NoRow => row.token # NoRow
    BY <1>1, TokenIsNotNoRow
  <1>6. CASE RecordRetention
    <2>1. PICK patch : patch = [currentGen |-> NoGen, retention |-> Until(1)]
      OBVIOUS
    <2>2. PICK w : w = CreateOf(patch, OtherWrite)
      OBVIOUS
    <2>3. OtherWrites(w) /\ DOMAIN patch = {"currentGen", "retention"} /\ patch.currentGen = NoGen
      BY <1>6, <2>1, <2>2 DEF RecordRetention
    <2>4. w.expect = NoRow /\ w.patch = patch /\ w.token.write = OtherWrite /\ "write" \in DOMAIN w.token
      BY <1>4, <2>2
    <2>5. {"currentGen", "wrappedDeks", "status"} \cap DOMAIN w.patch = {"currentGen"}
      BY <2>3, <2>4
    <2> QED
      BY <1>2, <2>3, <2>4, <2>5
  <1>7. CASE ClaimIdentity
    <2>1. PICK g \in Gens : OtherWrites(CreateOf([currentGen |-> g, status |-> "destroyed"], OtherWrite))
      BY <1>7 DEF ClaimIdentity, Listed
    <2>2. PICK patch : patch = [currentGen |-> g, status |-> "destroyed"]
      OBVIOUS
    <2>3. PICK w : w = CreateOf(patch, OtherWrite)
      OBVIOUS
    <2>4. /\ OtherWrites(w) /\ DOMAIN patch = {"currentGen", "status"} /\ patch.currentGen = g
          /\ patch.status = "destroyed"
      BY <2>1, <2>2, <2>3
    <2>5. w.expect = NoRow /\ w.patch = patch /\ w.token.write = OtherWrite /\ "write" \in DOMAIN w.token
      BY <1>4, <2>3
    <2>6. {"currentGen", "wrappedDeks", "status"} \cap DOMAIN w.patch = {"currentGen", "status"}
      BY <2>4, <2>5
    <2> QED
      BY <1>2, <2>4, <2>5, <2>6
  <1>8. CASE SetRetention \/ \E g \in Gens : TakeLease(g) \/ ReleaseLease(g)
    <2>1. PICK patch : /\ OtherWrites(SwapOf(row, patch, OtherWrite)) /\ row # NoRow
                       /\ ResolvedFields \cap DOMAIN patch = {}
      <3>1. CASE SetRetention
        <4>1. PICK patch : patch = [retention |-> Until(1 - row.retention.expiresAt)]
          OBVIOUS
        <4>2. OtherWrites(SwapOf(row, patch, OtherWrite)) /\ row # NoRow
          BY <3>1, <4>1 DEF SetRetention, Active
        <4>3. ResolvedFields \cap DOMAIN patch = {}
          BY <4>1 DEF ResolvedFields
        <4> QED
          BY <4>2, <4>3
      <3>2. ASSUME NEW g \in Gens, TakeLease(g) \/ ReleaseLease(g)
            PROVE  \E patch : /\ OtherWrites(SwapOf(row, patch, OtherWrite)) /\ row # NoRow
                              /\ ResolvedFields \cap DOMAIN patch = {}
        <4>1. PICK leases : /\ OtherWrites(SwapOf(row, [leases |-> leases], OtherWrite))
                            /\ row # NoRow
          BY <3>2 DEF TakeLease, ReleaseLease, Active
        <4>2. PICK patch : patch = [leases |-> leases]
          OBVIOUS
        <4>3. OtherWrites(SwapOf(row, patch, OtherWrite)) /\ row # NoRow
          BY <4>1, <4>2
        <4>4. ResolvedFields \cap DOMAIN patch = {}
          BY <4>2 DEF ResolvedFields
        <4> QED
          BY <4>3, <4>4
      <3> QED
        BY <1>8, <3>1, <3>2
    <2>2. PICK w : w = SwapOf(row, patch, OtherWrite)
      OBVIOUS
    <2>3. /\ w.expect = row.token /\ w.patch = patch /\ w.token.write = OtherWrite
          /\ "write" \in DOMAIN w.token
      BY <1>3, <2>2
    <2> QED
      BY <1>2, <1>5, <2>1, <2>2, <2>3
  <1>9. CASE Shred
    <2>1. PICK patch : patch = [status |-> "destroyed", wrappedDeks |-> Clear,
                                summary |-> NoSummary, knownGens |-> <<>>, leases |-> {}]
      OBVIOUS
    <2>2. PICK w : w = SwapOf(row, patch, OtherWrite)
      OBVIOUS
    <2>3. OtherWrites(w) /\ row # NoRow
      BY <1>9, <2>1, <2>2 DEF Shred, Active
    <2>4. /\ "currentGen" \notin DOMAIN patch /\ {"status", "wrappedDeks"} \subseteq DOMAIN patch
          /\ patch.status = "destroyed" /\ patch.wrappedDeks = Clear
      BY <2>1
    <2>5. /\ w.expect = row.token /\ w.patch = patch /\ w.token.write = OtherWrite
          /\ "write" \in DOMAIN w.token
      BY <1>3, <2>2
    <2> QED
      BY <1>2, <1>5, <2>3, <2>4, <2>5
  <1> QED
    BY <1>6, <1>7, <1>8, <1>9 DEF OtherOperation

-----------------------------------------------------------------------------
(* The steps of a load that change the segment.                            *)

(* What a turn's patch sets.                                               *)
LEMMA PatchHas ==
    ASSUME NEW p, NEW l, NEW live, NEW keyed \in BOOLEAN, NEW patch,
           patch = PatchOf(p, l, live, keyed)
    PROVE  /\ "currentGen" \in DOMAIN patch /\ patch.currentGen = l.gen
           /\ "status" \notin DOMAIN patch
           /\ "wrappedDeks" \in DOMAIN patch <=> keyed
           /\ keyed => patch.wrappedDeks = l.key
  <1>1. PICK summary : summary = SummaryOf(p, l)
    OBVIOUS
  <1>2. PICK ledger : ledger = LedgerAfter(p, l, l.rec, live)
    OBVIOUS
  <1>3. PICK all : all = [currentGen |-> l.gen, summary |-> summary, knownGens |-> ledger,
                          wrappedDeks |-> l.key, leases |-> live]
    OBVIOUS
  <1>4. PICK fields : fields = {"currentGen", "summary", "knownGens"}
                                  \cup (IF keyed THEN {"wrappedDeks"} ELSE {})
                                  \cup (IF CurrentGenOf(l.rec) = NoGen THEN {} ELSE {"leases"})
    OBVIOUS
  <1>5. patch = [f \in fields |-> all[f]]
    BY <1>1, <1>2, <1>3, <1>4 DEF PatchOf, Restrict, Of
  <1>6. "currentGen" \in fields /\ "status" \notin fields /\ ("wrappedDeks" \in fields <=> keyed)
    BY <1>4
  <1> QED
    BY <1>3, <1>5, <1>6

(* The fence over the row that was read.                                   *)
LEMMA FenceHolds ==
    ASSUME NEW p, NEW l, LoadFine(p, l), l.pc = "decide", Proceeds(l)
    PROVE  /\ l.base = NoRow <=> l.rec = NoRow
           /\ l.rec # NoRow => /\ OnlyLeasesDiffer(l.base, l.rec)
                               /\ l.base.status = "active" /\ l.base.currentGen < l.gen
  <1>1. BaseFine(p, l) /\ Numbered(l)
    BY DEF LoadFine, Keyed, Stored
  <1>2. l.base = NoRow <=> l.rec = NoRow
    BY <1>1 DEF BaseFine, Proceeds, Fenced, Going, Turns
  <1>3. ASSUME l.rec # NoRow
        PROVE  OnlyLeasesDiffer(l.base, l.rec)
    <2>1. CASE TokenMoved(l)
      BY <2>1 DEF Proceeds, Fenced, WaitsOutChurn, OnlyLeasesMoved
    <2>2. CASE ~TokenMoved(l)
      <3>1. l.base = l.rec
        BY <1>1, <1>2, <1>3, <2>2 DEF TokenMoved, BaseFine
      <3> QED
        BY <3>1 DEF OnlyLeasesDiffer, OnlyLeasesDifferBut, SameIncarnation
    <2> QED
      BY <2>1, <2>2
  <1>4. l.base # NoRow => l.base.status = "active"
    BY <1>1 DEF BaseFine, CopyFine, RowFine, Going, Turns
  <1> QED
    BY <1>1, <1>2, <1>3, <1>4 DEF Numbered

(* What is true of a write that a load makes.                              *)
RequestIs(p, l, w) ==
    /\ WriteFine(l, w) /\ KeyLeft(l, w) = l.key /\ w.expect = ExpectedOf(l.rec)
    /\ w.token.write = <<p, Cardinality(l.sent) + 1>>
    /\ \A q \in Loaders : \A t \in load[q].sent : t.write # w.token.write
    /\ l.base = NoRow => l.key = Clear \/ l.minted

(* The write of a turn is such a write.                                    *)
LEMMA RequestFine ==
    ASSUME IInv, NEW p \in Loaders, NEW l, l = load[p], Deciding(p), Sends(l),
           NEW live, NEW w, w = RequestOf(p, l, live)
    PROVE  RequestIs(p, l, w)
  <1>1. /\ LoadFine(p, l) /\ l.pc = "decide" /\ Proceeds(l) /\ BaseFine(p, l)
        /\ Numbered(l) /\ KeyFits(p, l)
    BY DEF IInv, LoadsFine, LoadFine, Deciding, Sends, Keyed, Stored
  <1>2. /\ l.base = NoRow <=> l.rec = NoRow
        /\ l.rec # NoRow => /\ OnlyLeasesDiffer(l.base, l.rec)
                            /\ l.base.status = "active" /\ l.base.currentGen < l.gen
    BY <1>1, FenceHolds
  <1>3. l.base = NoRow => l.key = Clear \/ l.minted
    BY <1>2 DEF Sends, NothingToSealUnder
  <1>4. PICK x : x = <<p, Cardinality(l.sent) + 1>>
    OBVIOUS
  <1>5. x \notin landed /\ \A q \in Loaders : \A t \in load[q].sent : t.write # x
    BY <1>4, NextWriteIsFresh
  <1>6. PICK keyed : keyed = (l.minted /\ CurrentGenOf(l.rec) = NoGen)
    OBVIOUS
  <1>7. PICK patch : patch = PatchOf(p, l, live, keyed)
    OBVIOUS
  <1>8. /\ "currentGen" \in DOMAIN patch /\ patch.currentGen = l.gen
        /\ "status" \notin DOMAIN patch
        /\ "wrappedDeks" \in DOMAIN patch <=> keyed
        /\ keyed => patch.wrappedDeks = l.key
    <2>1. keyed \in BOOLEAN
      BY <1>6
    <2> QED
      BY <1>7, <2>1, PatchHas
  <1>9. /\ w.patch = patch /\ w.expect = ExpectedOf(l.rec) /\ w.token.write = x
        /\ "write" \in DOMAIN w.token
    <2>1. w = IF l.rec = NoRow THEN CreateOf(patch, x) ELSE SwapOf(l.rec, patch, x)
      BY <1>4, <1>6, <1>7, Zenon DEF RequestOf, RequestWith
    <2> QED
      BY <2>1 DEF CreateOf, SwapOf, NewIncarnationToken, NextRegistryToken, ExpectedOf
  <1>10. l.rec # NoRow => /\ l.rec.token # NoRow /\ l.rec.token.write \in landed
                          /\ row # NoRow /\ row.token = l.rec.token => row = l.rec
    BY <1>1, TokenIsNotNoRow DEF BaseFine, CopyFine, RowFine
  <1>11. keyed => l.base = NoRow \/ l.base.currentGen = NoGen
    BY <1>1, <1>6 DEF KeyFits
  <1>12. WriteFine(l, w)
    BY <1>1, <1>2, <1>5, <1>8, <1>9, <1>10, <1>11 DEF WriteFine, ExpectedOf, Numbered
  <1>13. KeyLeft(l, w) = l.key
    <2>1. CASE keyed
      BY <1>8, <1>9, <2>1 DEF KeyLeft
    <2>2. CASE ~keyed /\ l.base = NoRow
      BY <1>2, <1>3, <1>6, <1>8, <1>9, <2>2 DEF KeyLeft, CurrentGenOf
    <2>3. CASE ~keyed /\ l.base # NoRow
      <3>1. CurrentGenOf(l.rec) = l.base.currentGen
        BY <1>2, <2>3 DEF CurrentGenOf, OnlyLeasesDiffer, OnlyLeasesDifferBut
      <3>2. ~l.minted
        BY <1>1, <1>6, <2>3, <3>1 DEF KeyFits
      <3> QED
        BY <1>1, <1>8, <1>9, <2>3, <3>2 DEF KeyFits, KeyLeft
    <2> QED
      BY <2>1, <2>2, <2>3, <1>6
  <1> QED
    BY <1>3, <1>4, <1>5, <1>9, <1>12, <1>13 DEF RequestIs

(* It has a name of its own.                                               *)
LEMMA NamesGrow ==
    ASSUME NEW p \in Loaders, NEW l, NEW m, NEW w, l = load[p], NamesFine(p, l),
           RequestIs(p, l, w), m.sent = l.sent \cup {w.token}
    PROVE  NamesFine(p, m)
  <1>0. /\ w.token.write = <<p, Cardinality(l.sent) + 1>>
        /\ \A t \in l.sent : t.write # w.token.write
    BY DEF RequestIs
  <1>1. /\ IsFiniteSet(m.sent) /\ Cardinality(m.sent) = Cardinality(l.sent) + 1
        /\ Cardinality(l.sent) \in Nat
    BY <1>0, FS_AddElement, FS_CardinalityType DEF NamesFine
  <1>2. \A t \in m.sent : \E k \in 1..Cardinality(m.sent) : t.write = <<p, k>>
    BY <1>0, <1>1 DEF NamesFine
  <1> QED
    BY <1>0, <1>1, <1>2 DEF NamesFine

(* The load wrote its object.                                              *)
LEMMA PutFine ==
    ASSUME IInv, NEW p \in Loaders, NEW l, l = load[p], Put(p), objects[l.gen] = None,
           NEW m, m = load'[p]
    PROVE  LoadFine(p, m)' /\ Keeps(l, m)
  <1>1. LoadFine(p, l) /\ l.pc = "put" /\ l.gen \in Gens
    BY DEF IInv, LoadsFine, Put, LoadFine, Keyed, Numbered
  <1>2. /\ objects' = [objects EXCEPT ![l.gen] = [by |-> p, key |-> l.key]]
        /\ \/ m = [l EXCEPT !.pc = IF WantsSeed(l.base) THEN "seed" ELSE "decide"]
           \/ m = [l EXCEPT !.pc = "reclaim", !.result = "refused"]
        /\ UNCHANGED <<row, inflight, landed>>
    BY DEF Put, Becomes, IInv, LoadsFine
  <1>3. objects'[l.gen] = [by |-> p, key |-> l.key]
    BY <1>1, <1>2 DEF IInv
  <1>4. /\ SameLoad(l, m) /\ m.early = l.early /\ m.rec = l.rec
        /\ \/ m.pc \in {"seed", "decide"} /\ m.result = l.result
           \/ m.pc = "reclaim" /\ m.result = "refused"
    BY <1>1, <1>2 DEF LoadFine, Idle, SameLoad
  <1>5. LoadFine(p, l)'
    <2>1. objects[l.gen] # None /\ objects[l.gen].by = p => objects'[l.gen] = objects[l.gen]
      OBVIOUS
    <2> QED
      BY <1>1, <1>2, <2>1, RowStays
  <1>6. Owns(p, m, m.key)'
    BY <1>3, <1>4 DEF Owns, SameLoad, None
  <1>7. /\ l.sent = {} /\ ~l.unanswered /\ ~l.early /\ l.result = "none"
        /\ ~(l.base # NoRow /\ l.base.status = "destroyed") /\ l.rec = l.base
    BY <1>1 DEF LoadFine, BaseFine, Going, Unwritten
  <1>8. NamesFine(p, m)' /\ Numbered(m)' /\ KeyFits(p, m)'
    <2>1. NamesFine(p, m)'
      BY <1>4, <1>7, FS_EmptySet DEF SameLoad, NamesFine
    <2>2. Numbered(m)' /\ KeyFits(p, l)'
      BY <1>1, <1>4, <1>5 DEF SameLoad, LoadFine, Numbered, Keyed
    <2>3. KeyFits(p, m)'
      BY <1>4, <2>2 DEF SameLoad, KeyFits
    <2> QED
      BY <2>1, <2>2, <2>3
  <1>9. BaseFine(p, m)'
    <2>1. BaseFine(p, l)' /\ l.pc \in Going
      BY <1>1, <1>5 DEF LoadFine, Going, Unwritten
    <2>2. m.pc \notin Unwritten \/ m.pc = "seed"
      BY <1>4 DEF Unwritten
    <2>3. /\ m.pc \in Unwritten \cup Turns => m.result = "none"
          /\ m.pc \in Refusing => m.result \in Refusals
      BY <1>4, <1>7 DEF Unwritten, Turns, Refusing, Deletes, Refusals
    <2> QED
      BY <1>4, <1>7, <2>1, <2>2, <2>3 DEF SameLoad, BaseFine
  <1>10. WritesFine(p, m)' /\ LandingFine(p, m)'
    BY <1>4, <1>7 DEF SameLoad, WritesFine, LandingFine, Pending, Landed
  <1>11. m.pc \in Keyed \cap Stored /\ m.pc \in Going /\ m.pc \notin Deletes /\ m.pc # "start"
    BY <1>4 DEF Keyed, Stored, Going, Unwritten, Turns, Refusing, Deletes
  <1>12. {m.minted, m.unanswered, m.early} \subseteq BOOLEAN
    BY <1>1, <1>4 DEF LoadFine, SameLoad
  <1> QED
    BY <1>4, <1>6, <1>8, <1>9, <1>10, <1>11, <1>12 DEF LoadFine, SameLoad, Keeps

(* The delete of a reclaim, answered or not.                               *)
Takes(p) == Delete(p) \/ DeleteUnanswered(p)

(* The refused load deletes its object, or leaves what is there.           *)
LEMMA DeleteFine ==
    ASSUME IInv, NEW p \in Loaders, NEW l, l = load[p], Takes(p), NEW m, m = load'[p]
    PROVE  LoadFine(p, m)' /\ Keeps(l, m)
  <1>1. LoadFine(p, l) /\ l.pc \in Deletes /\ UNCHANGED <<row, inflight, landed>>
    BY DEF IInv, LoadsFine, Takes, Delete, DeleteUnanswered, Deletes
  <1>2. m = [l EXCEPT !.pc = "watch"] \/ m = End(l, l.result) \/ m = Untidy(l)
    BY DEF Takes, Delete, DeleteUnanswered, Becomes, IInv, LoadsFine
  <1>3. /\ l.result \in Refusals /\ CopyFine(l.rec) /\ (l.base # NoRow => l.rec # NoRow)
        /\ (l.base # NoRow /\ l.rec # NoRow /\ l.base.token = l.rec.token) => l.base = l.rec
        /\ \A w \in Pending(l) : Accepts(w) => l.early /\ l.before = None
    BY <1>1 DEF LoadFine, BaseFine, WritesFine, Deletes, Refusing, Going
  <1>4. LoadFine(p, m) /\ Keeps(l, m) /\ m.pc \notin Stored
    <2>1. CASE m = End(l, l.result) \/ m = Untidy(l)
      <3>1. Ends(l, m) /\ m.result = l.result
        BY <2>1, EndEnds, UntidyEnds
      <3> QED
        BY <1>1, <1>3, <3>1, Finished DEF Ends, Over, Going, Refusing, Stored
    <2>2. CASE m = [l EXCEPT !.pc = "watch"]
      <3>1. /\ SameLoad(l, m) /\ m.pc = "watch" /\ m.result = l.result
            /\ m.early = l.early /\ m.rec = l.rec /\ m.before = l.before
        BY <1>1, <2>2 DEF LoadFine, Idle, SameLoad
      <3>2. l.early \in BOOLEAN /\ l.pc \in Stored
        BY <1>1 DEF LoadFine, Stored, Deletes
      <3>3. m.pc \in Refusing /\ m.pc \notin Stored \cup Turns \cup Deletes
        BY <3>1 DEF Refusing, Stored, Turns, Deletes
      <3> QED
        BY <1>1, <1>3, <3>1, <3>2, <3>3, Stepped DEF SameLoad
    <2> QED
      BY <1>2, <2>1, <2>2
  <1>5. \A w \in Pending(m) : Accepts(w) => m.early
    BY <1>3, <1>4 DEF Keeps, Pending
  <1> QED
    BY <1>1, <1>4, <1>5, RowStays

(* A load's writes only grow in number.                                    *)
Grows(l, m) == l.sent \subseteq m.sent /\ (l.early => m.early)

(* What no write under way has in common with one not made yet.            *)
LEMMA FlyingIsNotFresh ==
    ASSUME IInv, NEW token, \A q \in Loaders : \A t \in load[q].sent : t.write # token.write
    PROVE  \A u \in inflight : u.token # token /\ u.token.write # token.write
  BY DEF IInv, FlyingAreSent

(* The write is answered: it moved the pointer.                            *)
LEMMA SendLandsFine ==
    ASSUME IInv, NEW p \in Loaders, NEW l, l = load[p], l.pc = "decide",
           NEW w, RequestIs(p, l, w), Apply(w), UNCHANGED <<objects, inflight>>,
           NEW m, Ends([l EXCEPT !.sent = @ \cup {w.token}], m), m.result = "published"
    PROVE  LoadFine(p, m)' /\ Grows(l, m) /\ w.token \in m.sent
  <1>1. LoadFine(p, l) /\ l.pc = "decide"
    BY DEF IInv, LoadsFine
  <1>2. /\ DOMAIN m = DOMAIN Idle /\ m.pc \in Over /\ m.base = l.base /\ m.rec = NoRow
        /\ m.gen = l.gen /\ m.sent = l.sent \cup {w.token} /\ m.unanswered = l.unanswered
        /\ m.early = l.early /\ m.before = None /\ m.minted = FALSE
    BY <1>1 DEF Ends, LoadFine, Idle
  <1>3. /\ WriteFine(l, w) /\ w.token.write = <<p, Cardinality(l.sent) + 1>>
        /\ \A q \in Loaders : \A t \in load[q].sent : t.write # w.token.write
    BY DEF RequestIs
  <1>4. /\ RowMoves /\ row'.token = w.token /\ row'.pointerId = w.token
        /\ row'.currentGen = l.gen
    BY <1>3, WriteMoves
  <1>5. NamesFine(p, m)
    <2>1. NamesFine(p, l)
      BY <1>1 DEF LoadFine
    <2> QED
      BY <1>2, <2>1, NamesGrow
  <1>6. BaseFine(p, l)'
    BY <1>1, <1>4, BaseStays
  <1>7. BaseFine(p, m)'
    BY <1>2, <1>6 DEF BaseFine, CopyFine, Over, Going, Unwritten, Turns, Refusing, Deletes
  <1>8. \A u \in Pending(m)' : WriteFine(m, u)' /\ m.unanswered /\ ~Accepts(u)'
    <2>1. \A u \in inflight : u.token # w.token /\ u.token.write # w.token.write
      BY <1>3, FlyingIsNotFresh
    <2>2. \A u \in Pending(l)' : WriteFine(l, u)' /\ l.unanswered /\ ~Accepts(u)'
      BY <1>1, <1>4, <2>1, WritesStay
    <2>3. \A u \in Pending(m)' : u \in Pending(l)'
      BY <1>2, <2>1 DEF Pending
    <2> QED
      BY <1>2, <2>2, <2>3 DEF WriteFine
  <1>9. WritesFine(p, m)'
    BY <1>8 DEF WritesFine
  <1>10. LandingFine(p, m)'
    <2>1. Landed(l) = {}
      BY <1>1, <1>3, NothingLanded DEF Apply, Going, Turns
    <2>2. \A t \in l.sent : t.write = w.token.write => t = w.token
      BY <1>3
    <2>3. m.base = l.base /\ m.gen = l.gen /\ m.sent = l.sent \cup {w.token}
      BY <1>2
    <2> QED
      BY <1>1, <1>4, <2>1, <2>2, <2>3, OwnLands
  <1>11. m.pc \notin Keyed \cup Stored \cup Deletes \cup {"key", "start"}
    BY <1>2 DEF Over, Keyed, Stored, Deletes
  <1>12. {m.minted, m.unanswered, m.early} \subseteq BOOLEAN
    BY <1>1, <1>2 DEF LoadFine
  <1> QED
    BY <1>2, <1>5, <1>7, <1>9, <1>10, <1>11, <1>12 DEF LoadFine, NamesFine, Grows

(* The write is answered: it met a conflict.                               *)
LEMMA SendConflictFine ==
    ASSUME IInv, NEW p \in Loaders, NEW l, l = load[p], l.pc = "decide",
           NEW w, RequestIs(p, l, w), ~Accepts(w),
           NEW m, SameLoad([l EXCEPT !.sent = @ \cup {w.token}], m), m.pc \in {"read", "final"},
           m.rec = l.rec, m.result = l.result, m.early = l.early
    PROVE  LoadFine(p, m) /\ Grows(l, m)
  <1>1. LoadFine(p, l) /\ l.pc = "decide" /\ l.pc \in Going
    BY DEF IInv, LoadsFine, Going, Turns
  <1>2. /\ DOMAIN m = DOMAIN Idle /\ m.base = l.base /\ m.key = l.key /\ m.gen = l.gen
        /\ m.sent = l.sent \cup {w.token} /\ m.unanswered = l.unanswered /\ m.minted = l.minted
    BY <1>1 DEF SameLoad, LoadFine, Idle
  <1>3. /\ WriteFine(l, w) /\ w.token.write = <<p, Cardinality(l.sent) + 1>>
        /\ \A q \in Loaders : \A t \in load[q].sent : t.write # w.token.write
        /\ w.expect = ExpectedOf(l.rec)
        /\ l.base = NoRow => l.key = Clear \/ l.minted
    BY DEF RequestIs
  <1>4. NamesFine(p, m)
    <2>1. NamesFine(p, l)
      BY <1>1 DEF LoadFine
    <2> QED
      BY <1>2, <2>1, NamesGrow
  <1>5. m.pc \in Going /\ m.pc \notin Unwritten \cup Refusing \cup Deletes /\ m.pc \in Turns \cap Stored
    BY DEF Going, Unwritten, Turns, Refusing, Stored, Deletes
  <1>6. BaseFine(p, m) /\ Numbered(m) /\ KeyFits(p, m) /\ (Owns(p, m, m.key) \/ Destroyed)
    <2>1. BaseFine(p, l) /\ Numbered(l) /\ KeyFits(p, l) /\ (Owns(p, l, l.key) \/ Destroyed)
      BY <1>1 DEF LoadFine, Keyed, Stored
    <2>2. BaseFine(p, m)
      BY <1>1, <1>2, <1>5, <2>1 DEF BaseFine, Turns
    <2>3. KeyFits(p, m)
      BY <1>2, <1>3, <2>1 DEF KeyFits
    <2> QED
      BY <1>2, <2>1, <2>2, <2>3 DEF Numbered, Owns
  <1>7. Pending(m) = Pending(l) /\ Landed(m) = Landed(l)
    <2>1. \A u \in inflight : u.token # w.token
      BY <1>3, FlyingIsNotFresh
    <2>2. w.token.write \notin landed
      BY <1>3 DEF WriteFine
    <2> QED
      BY <1>2, <2>1, <2>2 DEF Pending, Landed
  <1>8. \A u \in Pending(l) : WriteFine(m, u) /\ m.unanswered /\ ~Accepts(u)
    <2> SUFFICES ASSUME NEW u \in Pending(l) PROVE WriteFine(m, u) /\ m.unanswered /\ ~Accepts(u)
      OBVIOUS
    <2>1. WriteFine(l, u) /\ l.unanswered /\ (Accepts(u) => u.expect = ExpectedOf(l.rec))
      BY <1>1 DEF LoadFine, WritesFine, Turns
    <2>2. ~Accepts(u)
      BY <1>3, <2>1 DEF Accepts
    <2> QED
      BY <1>2, <2>1, <2>2 DEF WriteFine
  <1>9. WritesFine(p, m)
    <2>1. ~m.unanswered => Landed(l) = {}
      BY <1>1, <1>2 DEF LoadFine, WritesFine, BaseFine, Turns
    <2> QED
      BY <1>7, <1>8, <2>1 DEF WritesFine
  <1>10. LandingFine(p, m)
    <2>1. row # NoRow => row.pointerId # w.token
      BY <1>3 DEF IInv, RowFine, WriteFine
    <2> QED
      BY <1>1, <1>2, <1>5, <1>7, <2>1 DEF LoadFine, LandingFine
  <1>11. {m.minted, m.unanswered, m.early} \subseteq BOOLEAN
    BY <1>1, <1>2 DEF LoadFine
  <1> QED
    BY <1>2, <1>4, <1>5, <1>6, <1>9, <1>10, <1>11 DEF LoadFine, Grows

(* The write is on its way, and its answer lost.                           *)
LEMMA SendUnansweredFine ==
    ASSUME IInv, NEW p \in Loaders, NEW l, l = load[p], l.pc = "decide",
           NEW w, RequestIs(p, l, w), inflight' = inflight \cup {w},
           UNCHANGED <<row, objects, landed>>,
           NEW m, m = [l EXCEPT !.pc = "asking", !.unanswered = TRUE,
                                !.sent = @ \cup {w.token}, !.before = None]
    PROVE  LoadFine(p, m)' /\ Grows(l, m) /\ w.token \in m.sent
  <1>1. LoadFine(p, l) /\ l.pc = "decide" /\ l.pc \in Going
    BY DEF IInv, LoadsFine, Going, Turns
  <1>2. /\ DOMAIN m = DOMAIN Idle /\ m.base = l.base /\ m.key = l.key /\ m.gen = l.gen
        /\ m.sent = l.sent \cup {w.token} /\ m.unanswered = TRUE /\ m.minted = l.minted
        /\ m.pc = "asking" /\ m.before = None /\ m.rec = l.rec /\ m.early = l.early
        /\ m.result = l.result
    BY <1>1 DEF LoadFine, Idle
  <1>3. /\ WriteFine(l, w) /\ w.token.write = <<p, Cardinality(l.sent) + 1>>
        /\ \A q \in Loaders : \A t \in load[q].sent : t.write # w.token.write
        /\ w.expect = ExpectedOf(l.rec) /\ KeyLeft(l, w) = l.key
        /\ l.base = NoRow => l.key = Clear \/ l.minted
    BY DEF RequestIs
  <1>4. NamesFine(p, m)
    <2>1. NamesFine(p, l)
      BY <1>1 DEF LoadFine
    <2>2. m.sent = l.sent \cup {w.token}
      BY <1>2
    <2> QED
      BY <2>1, <2>2, NamesGrow, Zenon
  <1>5. m.pc \in Going /\ m.pc \notin Unwritten \cup Refusing \cup Deletes /\ m.pc \in Turns \cap Stored
    BY <1>2 DEF Going, Unwritten, Turns, Refusing, Stored, Deletes
  <1>6. BaseFine(p, m) /\ Numbered(m) /\ KeyFits(p, m) /\ (Owns(p, m, m.key) \/ Destroyed)
    <2>1. BaseFine(p, l) /\ Numbered(l) /\ KeyFits(p, l) /\ (Owns(p, l, l.key) \/ Destroyed)
      BY <1>1 DEF LoadFine, Keyed, Stored
    <2>2. BaseFine(p, m)
      BY <1>1, <1>2, <1>5, <2>1 DEF BaseFine, Turns
    <2>3. KeyFits(p, m)
      BY <1>2, <1>3, <2>1 DEF KeyFits
    <2> QED
      BY <1>2, <2>1, <2>2, <2>3 DEF Numbered, Owns
  <1>7. l.result = "none" /\ l.early = FALSE
    BY <1>1 DEF LoadFine, BaseFine, Turns
  <1>8. Landed(m) = Landed(l)
    BY <1>2, <1>3 DEF Landed, WriteFine
  <1>9. ASSUME NEW u \in inflight', u.token \in m.sent
        PROVE  /\ WriteFine(l, u)
               /\ Accepts(u) => Owns(p, l, KeyLeft(l, u)) /\ u.expect = ExpectedOf(l.rec)
    <2>1. CASE u = w
      BY <1>3, <1>6, <1>2, <2>1, AcceptedIsActive DEF Owns
    <2>2. CASE u # w
      <3>1. u \in inflight /\ u.token # w.token
        BY <1>3, <1>9, <2>2, FlyingIsNotFresh
      <3>2. u \in Pending(l)
        BY <1>2, <1>9, <3>1 DEF Pending
      <3> QED
        BY <1>1, <1>7, <3>2 DEF LoadFine, WritesFine, Turns
    <2> QED
      BY <2>1, <2>2
  <1>10. WritesFine(p, m)'
    <2>1. ASSUME NEW u \in Pending(m)'
          PROVE  /\ WriteFine(m, u)'
                 /\ Accepts(u)' => Owns(p, m, KeyLeft(m, u))' /\ u.expect = ExpectedOf(m.rec)
      <3>1. /\ WriteFine(l, u)
            /\ Accepts(u) => Owns(p, l, KeyLeft(l, u)) /\ u.expect = ExpectedOf(l.rec)
        BY <1>9, <2>1 DEF Pending
      <3>2. WriteFine(m, u)'
        BY <1>2, <3>1 DEF WriteFine
      <3>3. Accepts(u)' <=> Accepts(u)
        BY DEF Accepts
      <3> QED
        BY <1>2, <3>1, <3>2, <3>3 DEF Owns, KeyLeft
    <2> QED
      BY <1>2, <1>7, <2>1 DEF WritesFine, ExpectedOf, Refusals
  <1>11. LandingFine(p, m)'
    <2>1. row # NoRow => row.pointerId # w.token
      BY <1>3 DEF IInv, RowFine, WriteFine
    <2>2. Landed(m)' = Landed(l)
      BY <1>8 DEF Landed
    <2> QED
      BY <1>1, <1>2, <2>1, <2>2 DEF LoadFine, LandingFine
  <1>12. /\ BaseFine(p, m)' /\ Numbered(m)' /\ KeyFits(p, m)' /\ (Owns(p, m, m.key) \/ Destroyed)'
    BY <1>6 DEF BaseFine, CopyFine, RowFine, Numbered, KeyFits, Owns, Destroyed
  <1>13. {m.minted, m.unanswered, m.early} \subseteq BOOLEAN
    BY <1>1, <1>2 DEF LoadFine
  <1> QED
    BY <1>2, <1>4, <1>5, <1>10, <1>11, <1>12, <1>13 DEF LoadFine, NamesFine, Grows

-----------------------------------------------------------------------------
(* The invariant is inductive.                                             *)

(* What holds of a load held fixed holds of the load as it is.             *)
LEMMA FineOf ==
    ASSUME NEW q, NEW l, l = load'[q], LoadFine(q, l)'
    PROVE  LoadFine(q, load[q])'
  <1>1. NamesFine(q, load[q])'
    BY DEF LoadFine, NamesFine
  <1>2. BaseFine(q, load[q])'
    BY DEF LoadFine, BaseFine
  <1>3. /\ l.pc \in Keyed \cup {"key"} => Numbered(load[q])'
        /\ l.pc \in Keyed => KeyFits(q, load[q])'
        /\ l.pc \in Stored => Owns(q, load[q], load[q].key)' \/ Destroyed'
    BY DEF LoadFine, Numbered, KeyFits, Owns
  <1>4. Pending(load[q])' = Pending(l)' /\ Landed(load[q])' = Landed(l)'
    BY DEF Pending, Landed
  <1>5. \A w : /\ WriteFine(l, w)' => WriteFine(load[q], w)'
               /\ Owns(q, l, KeyLeft(l, w))' => Owns(q, load[q], KeyLeft(load[q], w))'
    BY DEF WriteFine, Owns, KeyLeft
  <1>6. WritesFine(q, load[q])'
    BY <1>4, <1>5 DEF LoadFine, WritesFine
  <1>7. LandingFine(q, load[q])'
    BY <1>4 DEF LoadFine, LandingFine
  <1> QED
    BY <1>1, <1>2, <1>3, <1>6, <1>7 DEF LoadFine

(* Load by load.                                                           *)
LEMMA LoadsAreFine ==
    ASSUME DOMAIN load' = Loaders,
           \A q \in Loaders : \A l : l = load'[q] => LoadFine(q, l)'
    PROVE  LoadsFine'
  <1> SUFFICES ASSUME NEW q \in Loaders PROVE LoadFine(q, load[q])'
    BY DEF LoadsFine
  <1>1. PICK l : l = load'[q]
    OBVIOUS
  <1>2. LoadFine(q, l)'
    BY <1>1
  <1> QED
    BY <1>1, <1>2, FineOf

(* A step of a load changes that load alone.                               *)
LEMMA OneLoad ==
    ASSUME IInv, NEW p \in Loaders, NEW x, Becomes(p, x)
    PROVE  /\ DOMAIN load' = Loaders /\ load'[p] = x
           /\ \A q \in Loaders : q # p => load'[q] = load[q]
  BY DEF Becomes, IInv, LoadsFine

(* Every load keeps what it had.                                           *)
Growing == \A q \in Loaders : \A l, m : l = load[q] /\ m = load'[q] => Grows(l, m)

(* Every write applied has a maker still.                                  *)
LEMMA LandedKept ==
    ASSUME IInv, Growing, others' \in {others, others + 1},
           \A x \in landed' : \/ x \in landed
                              \/ x = OtherWrite /\ others' = others + 1
                              \/ \E q \in Loaders : \E t \in load'[q].sent : t.write = x
    PROVE  LandedAreMade'
  <1>1. others \in Nat /\ others' \in Nat
    BY DEF IInv, LandedAreMade
  <1>2. \A q \in Loaders : load[q].sent \subseteq load'[q].sent
    BY DEF Growing, Grows
  <1>3. \A x \in landed : \/ \E k \in 1..others' : x = <<Other, k>>
                          \/ \E q \in Loaders : \E t \in load'[q].sent : t.write = x
    <2> SUFFICES ASSUME NEW x \in landed
                 PROVE  \/ \E k \in 1..others' : x = <<Other, k>>
                        \/ \E q \in Loaders : \E t \in load'[q].sent : t.write = x
      OBVIOUS
    <2>1. \A k \in 1..others : k \in 1..others'
      BY <1>1
    <2> QED
      BY <1>2, <2>1 DEF IInv, LandedAreMade
  <1>4. others' = others + 1 => \E k \in 1..others' : OtherWrite = <<Other, k>>
    BY <1>1 DEF OtherWrite
  <1> QED
    BY <1>1, <1>3, <1>4 DEF LandedAreMade

(* So has every write under way.                                           *)
LEMMA FlyingKept ==
    ASSUME IInv, Growing, inflight' \subseteq inflight
    PROVE  FlyingAreSent'
  BY DEF IInv, FlyingAreSent, Growing, Grows

(* The pointer and its object are as they were.                            *)
LEMMA PointerKept ==
    ASSUME IInv, Growing,
           \/ ~Points'
           \/ PointsEarly'
           \/ /\ Points /\ row'.pointerId = row.pointerId /\ row'.currentGen = row.currentGen
              /\ row'.wrappedDeks = row.wrappedDeks
              /\ objects'[row.currentGen] = objects[row.currentGen]
    PROVE  PointerFine'
  <1> SUFFICES ASSUME Points', ~PointsEarly'
               PROVE  /\ objects'[row'.currentGen] # None
                      /\ objects'[row'.currentGen].key = row'.wrappedDeks
                      /\ \A p \in Loaders : objects'[row'.currentGen].by = p =>
                                               row'.pointerId \in load'[p].sent
    BY DEF PointerFine
  <1>1. /\ Points /\ row'.pointerId = row.pointerId /\ row'.currentGen = row.currentGen
        /\ row'.wrappedDeks = row.wrappedDeks
        /\ objects'[row.currentGen] = objects[row.currentGen]
    OBVIOUS
  <1>2. \A q \in Loaders : load[q].sent \subseteq load'[q].sent /\ (load[q].early => load'[q].early)
    BY DEF Growing, Grows
  <1>3. ~PointsEarly
    BY <1>1, <1>2 DEF PointsEarly
  <1> QED
    BY <1>1, <1>2, <1>3 DEF IInv, PointerFine

(* The pointer that a load's write sets.                                   *)
LEMMA PointerSet ==
    ASSUME IInv, NEW p \in Loaders, NEW l, NEW m, NEW w, l = load[p], m = load'[p],
           LoadFine(p, l), WriteFine(l, w), Apply(w), UNCHANGED objects, w.token \in m.sent,
           l.early => m.early, ~l.early => Owns(p, l, KeyLeft(l, w))
    PROVE  PointerFine'
  <1>1. /\ row'.pointerId = w.token /\ row'.currentGen = l.gen
        /\ row'.wrappedDeks = KeyLeft(l, w)
    BY WriteMoves
  <1>2. CASE l.early
    BY <1>1, <1>2 DEF PointerFine, PointsEarly
  <1>3. CASE ~l.early
    <2>1. /\ objects'[row'.currentGen] # None
          /\ objects'[row'.currentGen].key = row'.wrappedDeks
          /\ objects'[row'.currentGen].by = p /\ row'.pointerId \in m.sent
      BY <1>1, <1>3 DEF Owns
    <2> QED
      BY <2>1 DEF PointerFine
  <1> QED
    BY <1>2, <1>3

(* A step that changes nothing of the segment.                             *)
LEMMA QuietNext ==
    ASSUME IInv, NEW p \in Loaders, Quiet(p), UNCHANGED cast
    PROVE  IInv'
  <1>1. UNCHANGED segment
    BY DEF Quiet, ReadRow, Number, ChooseKey, Put, SeedLeases, SeedList, SeedRead, SeedFails,
           SettleLanded, Refuse, WaitOutChurn, RefuseSealed, AskRow, ReadAgain, FinalRead,
           Reclaim, Watch, TidyFails, Abandon
  <1>2. \E x : Becomes(p, x)
    BY Zenon
    DEF Quiet, ReadRow, Number, ChooseKey, Put, SeedLeases, SeedList, SeedRead, SeedFails,
        SettleLanded, Refuse, WaitOutChurn, RefuseSealed, AskRow, ReadAgain, FinalRead,
        Reclaim, Watch, TidyFails, Abandon
  <1>3. DOMAIN load' = Loaders /\ \A q \in Loaders : q # p => load'[q] = load[q]
    BY <1>2, OneLoad
  <1>4. PICK l, m : l = load[p] /\ m = load'[p]
    OBVIOUS
  <1>5. LoadFine(p, m) /\ Keeps(l, m)
    BY <1>4, QuietFine
  <1>6. \A q \in Loaders : \A k : k = load'[q] => LoadFine(q, k)'
    <2> SUFFICES ASSUME NEW q \in Loaders, NEW k, k = load'[q] PROVE LoadFine(q, k)'
      OBVIOUS
    <2>1. LoadFine(q, k)
      BY <1>3, <1>4, <1>5 DEF IInv, LoadsFine
    <2> QED
      BY <1>1, <2>1, RowStays DEF segment
  <1>7. LoadsFine'
    BY <1>3, <1>6, LoadsAreFine
  <1>8. Growing
    BY <1>3, <1>4, <1>5 DEF Growing, Keeps, Grows
  <1>9. LandedAreMade' /\ FlyingAreSent'
    BY <1>1, <1>8, LandedKept, FlyingKept DEF segment
  <1>10. PointerFine'
    BY <1>1, <1>8, PointerKept DEF segment, Points, Active
  <1>11. (row # NoRow => RowFine(row))'
    BY <1>1 DEF segment, IInv, RowFine
  <1> QED
    BY <1>1, <1>7, <1>9, <1>10, <1>11 DEF IInv, segment

(* The object is written.                                                  *)
LEMMA PutNext ==
    ASSUME IInv, NEW p \in Loaders, Put(p), objects[load[p].gen] = None, UNCHANGED cast
    PROVE  IInv'
  <1>1. PICK l, m : l = load[p] /\ m = load'[p]
    OBVIOUS
  <1>2. /\ UNCHANGED <<row, inflight, landed, others>> /\ l.gen \in Gens
        /\ objects' = [objects EXCEPT ![l.gen] = [by |-> p, key |-> l.key]]
    BY <1>1 DEF Put, IInv, LoadsFine, LoadFine, Keyed, Numbered
  <1>3. DOMAIN load' = Loaders /\ \A q \in Loaders : q # p => load'[q] = load[q]
    <2>1. \E x : Becomes(p, x)
      BY Zenon DEF Put
    <2> QED
      BY <2>1, OneLoad
  <1>4. LoadFine(p, m)' /\ Keeps(l, m)
    BY <1>1, PutFine
  <1>5. \A q \in Loaders : \A k : k = load'[q] => LoadFine(q, k)'
    <2> SUFFICES ASSUME NEW q \in Loaders, NEW k, k = load'[q], q # p PROVE LoadFine(q, k)'
      BY <1>1, <1>4
    <2>1. LoadFine(q, k)
      BY <1>3 DEF IInv, LoadsFine
    <2>2. objects[k.gen] # None => objects'[k.gen] = objects[k.gen]
      BY <1>1, <1>2 DEF IInv
    <2> QED
      BY <1>2, <2>1, <2>2, RowStays
  <1>6. LoadsFine'
    BY <1>3, <1>5, LoadsAreFine
  <1>7. Growing
    BY <1>1, <1>3, <1>4 DEF Growing, Keeps, Grows
  <1>8. LandedAreMade' /\ FlyingAreSent'
    BY <1>2, <1>7, LandedKept, FlyingKept
  <1>9. PointerFine'
    <2>1. PointsEarly => PointsEarly'
      BY <1>2, <1>7 DEF PointsEarly, Growing, Grows
    <2>2. Points /\ ~PointsEarly => objects'[row.currentGen] = objects[row.currentGen]
      BY <1>1, <1>2 DEF IInv, PointerFine
    <2>3. Points' => Points
      BY <1>2 DEF Points, Active
    <2> QED
      BY <1>2, <1>7, <2>1, <2>2, <2>3, PointerKept
  <1>10. (row # NoRow => RowFine(row))' /\ DOMAIN objects' = Gens
    BY <1>2 DEF IInv, RowFine
  <1> QED
    BY <1>6, <1>8, <1>9, <1>10 DEF IInv

(* A delete takes the object of its own load, unless nothing can be read.  *)
LEMMA DeletesOwn ==
    ASSUME IInv, NEW p \in Loaders, NEW l, l = load[p], Takes(p),
           NEW g, objects'[g] # objects[g]
    PROVE  g = l.gen /\ (objects[g].by = p \/ Destroyed)
  <1>1. LoadFine(p, l) /\ l.pc \in Deletes
    BY DEF IInv, LoadsFine, Takes, Delete, DeleteUnanswered, Deletes
  <1>2. Owns(p, l, l.key) \/ Destroyed
    BY <1>1 DEF LoadFine, Stored, Deletes
  <1>3. g = l.gen
    <2>1. Delete(p) => g = l.gen
      BY DEF Delete
    <2>2. DeleteUnanswered(p) => g = l.gen
      BY DEF DeleteUnanswered
    <2> QED
      BY <2>1, <2>2 DEF Takes
  <1>4. l.pc = "delete" \/ objects[l.gen].by = p
    BY <1>3 DEF Takes, Delete, DeleteUnanswered
  <1>5. l.pc = "delete" => (objects[g].by = p \/ Destroyed)
    BY <1>2, <1>3 DEF Owns
  <1> QED
    BY <1>3, <1>4, <1>5

(* An object is deleted.                                                   *)
LEMMA DeleteNext ==
    ASSUME IInv, NEW p \in Loaders, Takes(p), UNCHANGED cast
    PROVE  IInv'
  <1>1. PICK l, m : l = load[p] /\ m = load'[p]
    OBVIOUS
  <1>2. /\ UNCHANGED <<row, inflight, landed, others>>
        /\ DOMAIN objects' = Gens
    BY DEF Takes, Delete, DeleteUnanswered, IInv
  <1>3. DOMAIN load' = Loaders /\ \A q \in Loaders : q # p => load'[q] = load[q]
    <2>1. \E x : Becomes(p, x)
      BY Zenon DEF Takes, Delete, DeleteUnanswered
    <2> QED
      BY <2>1, OneLoad
  <1>4. LoadFine(p, m)' /\ Keeps(l, m)
    BY <1>1, DeleteFine
  <1>5. \A q \in Loaders : \A k : k = load'[q] => LoadFine(q, k)'
    <2> SUFFICES ASSUME NEW q \in Loaders, NEW k, k = load'[q], q # p PROVE LoadFine(q, k)'
      BY <1>1, <1>4
    <2>1. LoadFine(q, k)
      BY <1>3 DEF IInv, LoadsFine
    <2>2. Destroyed \/ (objects[k.gen].by = q => objects'[k.gen] = objects[k.gen])
      BY <1>1, DeletesOwn
    <2> QED
      BY <1>2, <2>1, <2>2, RowStays
  <1>6. LoadsFine'
    BY <1>3, <1>5, LoadsAreFine
  <1>7. Growing
    BY <1>1, <1>3, <1>4 DEF Growing, Keeps, Grows
  <1>8. LandedAreMade' /\ FlyingAreSent'
    BY <1>2, <1>7, LandedKept, FlyingKept
  <1>9. PointerFine'
    <2>1. Points' => Points /\ ~Destroyed /\ row # NoRow /\ row.status = "active"
      BY <1>2 DEF Points, Active, Destroyed
    <2>2. ASSUME Points, ~PointsEarly, ~Destroyed, row # NoRow, row.status = "active",
                 objects'[row.currentGen] # objects[row.currentGen]
          PROVE  FALSE
      <3>1. objects[row.currentGen].by = p
        BY <1>1, <2>2, DeletesOwn
      <3>2. row.pointerId \in l.sent
        BY <1>1, <2>2, <3>1 DEF IInv, PointerFine
      <3>3. l.pc \in Deletes /\ LoadFine(p, l)
        BY <1>1 DEF Takes, Delete, DeleteUnanswered, Deletes, IInv, LoadsFine
      <3>4. l.early
        BY <2>2, <3>2, <3>3 DEF LoadFine
      <3> QED
        BY <1>1, <2>2, <3>2, <3>4 DEF PointsEarly
    <2>3. PointsEarly => PointsEarly'
      BY <1>2, <1>7 DEF PointsEarly, Growing, Grows
    <2> QED
      BY <1>2, <1>7, <2>1, <2>2, <2>3, PointerKept
  <1>10. (row # NoRow => RowFine(row))'
    BY <1>2 DEF IInv, RowFine
  <1> QED
    BY <1>2, <1>6, <1>8, <1>9, <1>10 DEF IInv


(* A row that moves without moving its pointer.                            *)
LEMMA SamePointer ==
    ASSUME IInv, RowMoves, row # NoRow, row'.pointerId = row.pointerId, Points'
    PROVE  /\ Points /\ row'.currentGen = row.currentGen /\ row'.wrappedDeks = row.wrappedDeks
  <1>1. row.pointerId.write \in landed
    BY DEF IInv, RowFine
  <1>2. row'.pointerId # row'.token
    BY <1>1 DEF RowMoves
  <1> QED
    BY <1>2 DEF RowMoves, Points, Active

(* Retention, leases, shred, drop.                                         *)
LEMMA OtherNext ==
    ASSUME IInv, OtherOperation, UNCHANGED <<load, cast>>
    PROVE  IInv'
  <1>1. Growing
    BY DEF Growing, Grows
  <1>2. DOMAIN load' = Loaders /\ \A q \in Loaders : LoadFine(q, load[q])
    BY DEF IInv, LoadsFine
  <1>3. CASE \E g \in Gens : DropObject(g)
    <2>1. PICK g \in Gens : DropObject(g)
      BY <1>3
    <2>2. /\ Destroyed /\ UNCHANGED <<row, inflight, landed, others>>
          /\ DOMAIN objects' = Gens
      BY <2>1 DEF DropObject, Destroyed, IInv
    <2>3. LoadsFine'
      <3> SUFFICES ASSUME NEW q \in Loaders, NEW k, k = load'[q] PROVE LoadFine(q, k)'
        BY <1>2, LoadsAreFine
      <3>1. LoadFine(q, k)
        BY <1>2
      <3> QED
        BY <2>2, <3>1, RowStays
    <2>4. LandedAreMade' /\ FlyingAreSent'
      BY <1>1, <2>2, LandedKept, FlyingKept
    <2>5. ~Points'
      BY <2>2 DEF Destroyed, Points, Active
    <2>6. PointerFine'
      BY <2>5 DEF PointerFine
    <2>7. (row # NoRow => RowFine(row))'
      BY <2>2 DEF IInv, RowFine
    <2> QED
      BY <2>2, <2>3, <2>4, <2>6, <2>7 DEF IInv
  <1>4. CASE ~\E g \in Gens : DropObject(g)
    <2>1. /\ RowMoves /\ row'.token.write = OtherWrite /\ others' = others + 1
          /\ UNCHANGED <<objects, inflight>>
          /\ ~Points' \/ (row # NoRow /\ row'.pointerId = row.pointerId)
      BY <1>4, OtherMoves
    <2>2. LoadsFine'
      <3> SUFFICES ASSUME NEW q \in Loaders, NEW k, k = load'[q] PROVE LoadFine(q, k)'
        BY <1>2, LoadsAreFine
      <3>1. LoadFine(q, k) /\ \A t \in k.sent : t.write # row'.token.write
        BY <1>2, <2>1, OtherWriteIsFresh
      <3>2. row # NoRow => RowFine(row)
        BY DEF IInv
      <3> QED
        BY <2>1, <3>1, <3>2, AnotherMoves
    <2>3. LandedAreMade'
      <3>1. \A x \in landed' : x \in landed \/ (x = OtherWrite /\ others' = others + 1)
        BY <2>1 DEF RowMoves
      <3> QED
        BY <1>1, <2>1, <3>1, LandedKept
    <2>4. FlyingAreSent'
      BY <1>1, <2>1, FlyingKept
    <2>5. PointerFine'
      <3>1. CASE ~Points'
        BY <3>1 DEF PointerFine
      <3>2. CASE Points'
        <4>1. /\ row # NoRow /\ row'.pointerId = row.pointerId
              /\ Points /\ row'.currentGen = row.currentGen
              /\ row'.wrappedDeks = row.wrappedDeks
          BY <2>1, <3>2, SamePointer
        <4> QED
          BY <1>1, <2>1, <4>1, PointerKept
      <3> QED
        BY <3>1, <3>2
    <2>6. (row # NoRow => RowFine(row))'
      BY <2>1 DEF RowMoves
    <2> QED
      BY <2>1, <2>2, <2>3, <2>4, <2>5, <2>6 DEF IInv
  <1> QED
    BY <1>3, <1>4

(* The tombstone is purged.                                                *)
LEMMA PurgeNext ==
    ASSUME IInv, GracePassed, PurgeRow, UNCHANGED <<load, cast>>
    PROVE  IInv'
  <1>1. row' = NoRow /\ UNCHANGED <<objects, inflight, landed, others>>
    BY DEF PurgeRow
  <1>2. Growing
    BY DEF Growing, Grows
  <1>3. LoadsFine'
    <2>1. DOMAIN load' = Loaders
      BY DEF IInv, LoadsFine
    <2> QED
      BY <2>1, RowGoes, LoadsAreFine
  <1>4. LandedAreMade' /\ FlyingAreSent'
    BY <1>1, <1>2, LandedKept, FlyingKept
  <1>5. PointerFine'
    BY <1>1 DEF PointerFine, Points, Active
  <1> QED
    BY <1>1, <1>3, <1>4, <1>5 DEF IInv

(* Nothing is applied: the write was lost, or the row has moved on.        *)
LEMMA NoneArrives ==
    ASSUME IInv, inflight' \subseteq inflight, UNCHANGED <<row, objects, landed, others, load, cast>>
    PROVE  IInv'
  <1>1. Growing
    BY DEF Growing, Grows
  <1>2. LoadsFine'
    <2>1. DOMAIN load' = Loaders
      BY DEF IInv, LoadsFine
    <2> SUFFICES ASSUME NEW q \in Loaders, NEW k, k = load'[q] PROVE LoadFine(q, k)'
      BY <2>1, LoadsAreFine
    <2>2. LoadFine(q, k)
      BY DEF IInv, LoadsFine
    <2> QED
      BY <2>2, RowStays
  <1>3. LandedAreMade' /\ FlyingAreSent'
    BY <1>1, LandedKept, FlyingKept
  <1>4. PointerFine'
    BY <1>1, PointerKept DEF Points, Active
  <1>5. (row # NoRow => RowFine(row))'
    BY DEF IInv, RowFine
  <1> QED
    BY <1>2, <1>3, <1>4, <1>5 DEF IInv

(* A write arrives late, or is lost.                                       *)
LEMMA LateNext ==
    ASSUME IInv, LateWrite, UNCHANGED <<load, cast>>
    PROVE  IInv'
  <1>1. PICK w \in inflight : LateWriteArrives(w) \/ WriteIsLost(w)
    BY DEF LateWrite
  <1>2. CASE WriteIsLost(w) \/ ~Accepts(w)
    BY <1>1, <1>2, NoneArrives DEF LateWriteArrives, WriteIsLost
  <1>3. CASE LateWriteArrives(w) /\ Accepts(w)
    <2>1. PICK p \in Loaders : w.token \in load[p].sent
      BY DEF IInv, FlyingAreSent
    <2>2. PICK l : l = load[p]
      OBVIOUS
    <2>3. /\ LoadFine(p, l) /\ w \in Pending(l) /\ WriteFine(l, w)
          /\ ~l.early => Owns(p, l, KeyLeft(l, w))
      BY <1>3, <2>1, <2>2 DEF IInv, LoadsFine, LoadFine, WritesFine, Pending
    <2>4. Apply(w) /\ inflight' \subseteq inflight /\ UNCHANGED <<objects, others>>
      BY <1>3 DEF LateWriteArrives
    <2>5. RowMoves /\ row'.token = w.token
      BY <2>3, <2>4, WriteMoves
    <2>6. Growing
      BY DEF Growing, Grows
    <2>7. LoadsFine'
      <3>1. DOMAIN load' = Loaders
        BY DEF IInv, LoadsFine
      <3> SUFFICES ASSUME NEW q \in Loaders, NEW k, k = load'[q] PROVE LoadFine(q, k)'
        BY <3>1, LoadsAreFine
      <3>2. LoadFine(q, k) /\ k = load[q]
        BY DEF IInv, LoadsFine
      <3>3. CASE q = p
        BY <1>3, <2>2, <2>3, <3>2, <3>3, OwnLateWriteLands
      <3>4. CASE q # p
        <4>1. \A t \in k.sent : t.write # row'.token.write
          BY <2>1, <2>2, <2>3, <2>5, <3>2, <3>4, TokensAreOwn DEF LoadFine
        <4>2. row # NoRow => RowFine(row)
          BY DEF IInv
        <4> QED
          BY <2>4, <2>5, <3>2, <4>1, <4>2, AnotherMoves
      <3> QED
        BY <3>3, <3>4
    <2>8. LandedAreMade'
      <3>1. \A x \in landed' : x \in landed \/ \E q \in Loaders : \E t \in load'[q].sent : t.write = x
        BY <2>1, <2>5 DEF RowMoves
      <3> QED
        BY <2>4, <2>6, <3>1, LandedKept
    <2>9. FlyingAreSent'
      BY <2>4, <2>6, FlyingKept
    <2>10. PointerFine'
      <3>1. PICK m : m = load'[p]
        OBVIOUS
      <3> QED
        BY <2>1, <2>2, <2>3, <2>4, <3>1, PointerSet
    <2>11. (row # NoRow => RowFine(row))'
      BY <2>5 DEF RowMoves
    <2> QED
      BY <2>4, <2>7, <2>8, <2>9, <2>10, <2>11 DEF IInv
  <1> QED
    BY <1>1, <1>2, <1>3

(* What the others are after a write of load p has landed.                 *)
LEMMA OthersAfterLanding ==
    ASSUME IInv, NEW p \in Loaders, NEW w, RowMoves, row'.token.write = w.token.write,
           \A q \in Loaders : \A t \in load[q].sent : t.write # w.token.write,
           UNCHANGED <<objects, inflight>>,
           NEW q \in Loaders, NEW k, k = load[q]
    PROVE  LoadFine(q, k)'
  <1>1. LoadFine(q, k) /\ (row # NoRow => RowFine(row))
    BY DEF IInv, LoadsFine
  <1>2. \A t \in k.sent : t.write # row'.token.write
    OBVIOUS
  <1> QED
    BY <1>1, <1>2, AnotherMoves

(* The write of a turn is applied.                                         *)
LEMMA SendLandsNext ==
    ASSUME IInv, NEW p \in Loaders, NEW l, NEW m, l = load[p], m = load'[p], l.pc = "decide",
           DOMAIN load' = Loaders, \A q \in Loaders : q # p => load'[q] = load[q],
           NEW w, RequestIs(p, l, w), Apply(w), UNCHANGED <<objects, inflight, others, cast>>,
           LoadFine(p, m)', Grows(l, m), w.token \in m.sent
    PROVE  IInv'
  <1>1. LoadFine(p, l) /\ WriteFine(l, w) /\ KeyLeft(l, w) = l.key /\ Accepts(w)
    BY DEF IInv, LoadsFine, RequestIs, Apply
  <1>2. RowMoves /\ row'.token = w.token
    BY <1>1, WriteMoves
  <1>3. \A q \in Loaders : \A t \in load[q].sent : t.write # w.token.write
    BY DEF RequestIs
  <1>4. LoadsFine'
    <2> SUFFICES ASSUME NEW q \in Loaders, NEW k, k = load'[q] PROVE LoadFine(q, k)'
      BY LoadsAreFine
    <2>1. CASE q = p
      BY <2>1
    <2>2. CASE q # p
      BY <1>2, <1>3, <2>2, OthersAfterLanding
    <2> QED
      BY <2>1, <2>2
  <1>5. Growing
    BY DEF Growing, Grows
  <1>6. LandedAreMade'
    <2>1. \A x \in landed' : x \in landed \/ \E q \in Loaders : \E t \in load'[q].sent : t.write = x
      BY <1>2 DEF RowMoves
    <2> QED
      BY <1>5, <2>1, LandedKept
  <1>7. FlyingAreSent'
    BY <1>5, FlyingKept
  <1>8. PointerFine'
    <2>1. ~Destroyed
      BY <1>1, AcceptedIsActive
    <2>2. Owns(p, l, KeyLeft(l, w))
      BY <1>1, <2>1 DEF LoadFine, Stored
    <2> QED
      BY <1>1, <2>2, PointerSet DEF Grows
  <1>9. (row # NoRow => RowFine(row))'
    BY <1>2 DEF RowMoves
  <1> QED
    BY <1>4, <1>6, <1>7, <1>8, <1>9 DEF IInv

(* It met a conflict, or is under way.                                     *)
LEMMA SendWaitsNext ==
    ASSUME IInv, NEW p \in Loaders, NEW l, NEW m, l = load[p], m = load'[p],
           DOMAIN load' = Loaders, \A q \in Loaders : q # p => load'[q] = load[q],
           NEW w, RequestIs(p, l, w),
           inflight' = inflight \/ (inflight' = inflight \cup {w} /\ w.token \in m.sent),
           UNCHANGED <<row, objects, landed, others, cast>>,
           LoadFine(p, m)', Grows(l, m)
    PROVE  IInv'
  <1>1. \A q \in Loaders : \A t \in load[q].sent : t.write # w.token.write
    BY DEF RequestIs
  <1>2. LoadsFine'
    <2> SUFFICES ASSUME NEW q \in Loaders, NEW k, k = load'[q] PROVE LoadFine(q, k)'
      BY LoadsAreFine
    <2>1. CASE q = p
      BY <2>1
    <2>2. CASE q # p
      <3>1. LoadFine(q, k) /\ k = load[q]
        BY <2>2 DEF IInv, LoadsFine
      <3>2. \A u \in inflight' : u.token \in k.sent => u \in inflight
        BY <1>1, <3>1
      <3> QED
        BY <3>1, <3>2, RowStays
    <2> QED
      BY <2>1, <2>2
  <1>3. Growing
    BY DEF Growing, Grows
  <1>4. LandedAreMade'
    BY <1>3, LandedKept
  <1>5. FlyingAreSent'
    <2>1. \A u \in inflight : u.token # w.token
      BY <1>1, FlyingIsNotFresh
    <2>2. \A u \in inflight' : \E q \in Loaders : u.token \in load'[q].sent
      BY <1>3 DEF IInv, FlyingAreSent, Growing, Grows
    <2> QED
      BY <2>1, <2>2 DEF IInv, FlyingAreSent
  <1>6. PointerFine'
    BY <1>3, PointerKept DEF Points, Active
  <1>7. (row # NoRow => RowFine(row))'
    BY DEF IInv, RowFine
  <1> QED
    BY <1>2, <1>4, <1>5, <1>6, <1>7 DEF IInv

(* A turn writes.                                                          *)
LEMMA SendNext ==
    ASSUME IInv, NEW p \in Loaders, SendAnswered(p) \/ SendUnanswered(p), UNCHANGED cast
    PROVE  IInv'
  <1>1. PICK l, m : l = load[p] /\ m = load'[p]
    OBVIOUS
  <1>2. l.pc = "decide" /\ Sends(l) /\ Deciding(p) /\ DOMAIN l = DOMAIN Idle
    BY <1>1 DEF SendAnswered, SendUnanswered, Deciding, IInv, LoadsFine, LoadFine
  <1>3. DOMAIN load' = Loaders /\ \A q \in Loaders : q # p => load'[q] = load[q]
    <2>1. \E x : Becomes(p, x)
      BY Zenon DEF SendAnswered, SendUnanswered
    <2> QED
      BY <2>1, OneLoad
  <1>4. CASE SendAnswered(p)
    <2>1. PICK live \in LiveSets(l) :
             LET w     == RequestOf(p, l, live)
                 after == [l EXCEPT !.sent = @ \cup {w.token}]
             IN  IF Accepts(w)
                 THEN /\ Apply(w)
                      /\ Becomes(p, Published(p, after, l.rec, live))
                 ELSE /\ Becomes(p, Turn([after EXCEPT
                                !.before = l.rec,
                                !.attempt = IF TokenMoved(l) THEN @ ELSE @ + 1], "read"))
                      /\ UNCHANGED <<row, landed>>
      BY <1>1, <1>4, Zenon DEF SendAnswered
    <2>2. UNCHANGED <<objects, inflight, others>>
      BY <1>4 DEF SendAnswered
    <2>3. PICK w : w = RequestOf(p, l, live)
      OBVIOUS
    <2>4. RequestIs(p, l, w)
      BY <1>1, <1>2, <2>3, RequestFine
    <2>5. PICK after : after = [l EXCEPT !.sent = @ \cup {w.token}]
      OBVIOUS
    <2>6. CASE Accepts(w)
      <3>1. Apply(w) /\ Becomes(p, Published(p, after, l.rec, live))
        BY <2>1, <2>3, <2>5, <2>6
      <3>2. m = Published(p, after, l.rec, live)
        BY <1>1, <3>1, OneLoad
      <3>3. Ends(after, m) /\ m.result = "published"
        BY <3>2, LandedEnds
      <3>4. LoadFine(p, m)' /\ Grows(l, m) /\ w.token \in m.sent
        BY <1>1, <1>2, <2>2, <2>4, <2>5, <3>1, <3>3, SendLandsFine
      <3> QED
        BY <1>1, <1>2, <1>3, <2>2, <2>4, <3>1, <3>4, SendLandsNext
    <2>7. CASE ~Accepts(w)
      <3>1. PICK attempt : attempt = IF TokenMoved(l) THEN after.attempt ELSE after.attempt + 1
        OBVIOUS
      <3>2. PICK turned : turned = [after EXCEPT !.before = l.rec, !.attempt = attempt]
        OBVIOUS
      <3>3. Becomes(p, Turn(turned, "read")) /\ UNCHANGED <<row, landed>>
        BY <2>1, <2>3, <2>5, <2>7, <3>1, <3>2
      <3>4. m = [turned EXCEPT !.pc = IF turned.attempt < MaxAttempts THEN "read" ELSE "final"]
        BY <1>1, <3>3, OneLoad DEF Turn
      <3>5. /\ SameLoad(after, m) /\ m.pc \in {"read", "final"}
            /\ m.rec = l.rec /\ m.result = l.result /\ m.early = l.early
        BY <1>2, <2>5, <3>2, <3>4 DEF SameLoad, Idle
      <3>6. LoadFine(p, m) /\ Grows(l, m)
        BY <1>1, <1>2, <2>4, <2>5, <2>7, <3>5, SendConflictFine
      <3>7. LoadFine(p, m)'
        BY <2>2, <3>3, <3>6, RowStays
      <3> QED
        BY <1>1, <1>3, <2>2, <2>4, <3>3, <3>6, <3>7, SendWaitsNext
    <2> QED
      BY <2>6, <2>7
  <1>5. CASE SendUnanswered(p)
    <2>1. PICK live \in LiveSets(l) :
             LET w == RequestOf(p, l, live)
             IN  /\ inflight' = inflight \cup {w}
                 /\ Becomes(p, [l EXCEPT !.pc = "asking", !.unanswered = TRUE,
                                         !.sent = @ \cup {w.token}, !.before = None])
      BY <1>1, <1>5, Zenon DEF SendUnanswered
    <2>2. UNCHANGED <<row, objects, landed, others>>
      BY <1>5 DEF SendUnanswered
    <2>3. PICK w : w = RequestOf(p, l, live)
      OBVIOUS
    <2>4. RequestIs(p, l, w)
      BY <1>1, <1>2, <2>3, RequestFine
    <2>5. /\ inflight' = inflight \cup {w}
          /\ Becomes(p, [l EXCEPT !.pc = "asking", !.unanswered = TRUE,
                                  !.sent = @ \cup {w.token}, !.before = None])
      BY <2>1, <2>3
    <2>6. m = [l EXCEPT !.pc = "asking", !.unanswered = TRUE,
                        !.sent = @ \cup {w.token}, !.before = None]
      BY <1>1, <2>5, OneLoad
    <2>7. LoadFine(p, m)' /\ Grows(l, m) /\ w.token \in m.sent
      BY <1>1, <1>2, <2>2, <2>4, <2>5, <2>6, SendUnansweredFine
    <2> QED
      BY <1>1, <1>3, <2>2, <2>4, <2>5, <2>7, SendWaitsNext
  <1> QED
    BY <1>4, <1>5

(* Before the first step.                                                  *)
LEMMA InitFine == ASSUME Init PROVE IInv
  <1>1. PICK n \in Histories, key \in {Clear, Other}, ledger \in BOOLEAN :
           /\ row = IF n = 0 THEN NoRow ELSE PublishedRow(n, key, ledger)
           /\ objects = [g \in Gens |-> IF g < n THEN [by |-> Other, key |-> key] ELSE None]
           /\ inflight = {} /\ landed = {<<Other, k>> : k \in 1..n} /\ others = n
    BY DEF Init, SegmentInit
  <1>2. n \in Nat /\ MaxGen \in Nat /\ n <= MaxGen + 1
    BY SegmentAssumption
  <1>3. /\ DOMAIN load = Loaders /\ \A p \in Loaders : load[p] = Idle
        /\ cast \subseteq Loaders
    BY <1>1, LoadingAssumption DEF Init, LoadInit
  <1>4. row # NoRow =>
           /\ n \in 1..(MaxGen + 1) /\ row.status = "active" /\ row.currentGen = n - 1
           /\ row.wrappedDeks = key /\ row.token.write = <<Other, n>>
           /\ row.pointerId.write = <<Other, n>> /\ "write" \in DOMAIN row.token
    BY <1>1, <1>2 DEF PublishedRow
  <1>5. row # NoRow => RowFine(row)
    <2> SUFFICES ASSUME row # NoRow PROVE RowFine(row)
      OBVIOUS
    <2>1. n - 1 \in Gens /\ n - 1 # NoGen
      BY <1>2, <1>4 DEF Gens, NoGen
    <2>2. <<Other, n>> \in landed
      BY <1>1, <1>4
    <2> QED
      BY <1>4, <2>1, <2>2 DEF RowFine
  <1>6. LandedAreMade /\ FlyingAreSent
    BY <1>1, <1>2 DEF LandedAreMade, FlyingAreSent
  <1>7. PointerFine
    <2> SUFFICES ASSUME row # NoRow
                 PROVE  /\ objects[row.currentGen] # None
                        /\ objects[row.currentGen].key = row.wrappedDeks
                        /\ objects[row.currentGen].by = Other
      BY LoadAssumption DEF PointerFine, Points, Active
    <2>1. objects[row.currentGen] = [by |-> Other, key |-> key]
      BY <1>1, <1>2, <1>4 DEF Gens
    <2> QED
      BY <1>4, <2>1 DEF None
  <1>8. ASSUME NEW p \in Loaders PROVE LoadFine(p, load[p])
    <2>1. PICK l : l = load[p]
      OBVIOUS
    <2>2. /\ DOMAIN l = DOMAIN Idle /\ l.pc = "start" /\ l.sent = {} /\ l.base = NoRow
          /\ l.rec = NoRow /\ l.unanswered = FALSE /\ l.early = FALSE /\ l.minted = FALSE
          /\ l.result = "none"
      BY <1>3, <2>1 DEF Idle
    <2>3. NamesFine(p, l)
      BY <2>2, FS_EmptySet DEF NamesFine
    <2>4. BaseFine(p, l) /\ WritesFine(p, l) /\ LandingFine(p, l)
      BY <2>2 DEF BaseFine, CopyFine, WritesFine, LandingFine, Pending, Landed, Going,
                  Unwritten, Turns, Refusing, Deletes
    <2>5. LoadFine(p, l)
      BY <2>2, <2>3, <2>4 DEF LoadFine, Keyed, Stored, Deletes
    <2> QED
      BY <2>1, <2>5
  <1> QED
    BY <1>1, <1>3, <1>5, <1>6, <1>7, <1>8 DEF IInv, LoadsFine

(* Each step of a load.                                                    *)
LEMMA StepFine ==
    ASSUME IInv, NEW p \in Loaders, LoadStep(p) \/ Abandon(p), UNCHANGED cast
    PROVE  IInv'
  <1>1. CASE Quiet(p)
    BY <1>1, QuietNext
  <1>2. CASE Put(p) /\ objects[load[p].gen] = None
    BY <1>2, PutNext
  <1>3. CASE Takes(p)
    BY <1>3, DeleteNext
  <1>4. CASE SendAnswered(p) \/ SendUnanswered(p)
    BY <1>4, SendNext
  <1> QED
    BY <1>1, <1>2, <1>3, <1>4 DEF LoadStep, Quiet, Takes

(* Each step.                                                              *)
LEMMA NextFine == ASSUME IInv, [Next]_<<loadVars, cast>> PROVE IInv'
  <1>1. ASSUME NEW p \in cast, LoadStep(p) \/ Abandon(p), UNCHANGED cast
        PROVE  IInv'
    BY <1>1, StepFine DEF IInv
  <1>2. CASE OtherOperation /\ UNCHANGED <<load, cast>>
    BY <1>2, OtherNext
  <1>3. CASE LateWrite /\ UNCHANGED <<load, cast>>
    BY <1>3, LateNext
  <1>4. CASE GracePassed /\ PurgeRow /\ UNCHANGED <<load, cast>>
    BY <1>4, PurgeNext
  <1>5. CASE UNCHANGED <<loadVars, cast>>
    BY <1>5, NoneArrives DEF loadVars, segment
  <1> QED
    BY <1>1, <1>2, <1>3, <1>4, <1>5 DEF Next

-----------------------------------------------------------------------------
(* The theorems.                                                           *)

(* Every reachable state is one the invariant describes: each load's facts *)
(* about its row, its key, its object and its writes hold through every    *)
(* step of every other load, of retention, leases, shred, drop and purge,  *)
(* and of its own late writes.                                             *)
THEOREM IInvHolds == Spec => []IInv
  <1>1. Init => IInv
    BY InitFine
  <1>2. IInv /\ [Next]_<<loadVars, cast>> => IInv'
    BY NextFine
  <1> QED
    BY <1>1, <1>2, PTL DEF Spec

(* The pointer of an active row names an object in the bucket: no load's   *)
(* reclaim, and no drop, takes it, and no late write moves the pointer to  *)
(* one that is gone, but for a write of a load refused early.              *)
THEOREM PointerHasObjectHolds == Spec => []PointerHasObject
  <1>1. IInv => PointerHasObject
    BY DEF IInv, PointerFine, PointerHasObject
  <1> QED
    BY <1>1, IInvHolds, PTL

(* The object the pointer names was written under the row's own key, or    *)
(* both have none, though a load chooses the key before it writes the row. *)
THEOREM KeyOpensPointerHolds == Spec => []KeyOpensPointer
  <1>1. IInv => KeyOpensPointer
    BY DEF IInv, PointerFine, KeyOpensPointer
  <1> QED
    BY <1>1, IInvHolds, PTL

(* What a load is told when it is refused stays true: no write of it can   *)
(* move the pointer from there on, and if each was answered, none did.     *)
THEOREM RefusalIsFinalHolds == Spec => []RefusalIsFinal
  <1>1. IInv => RefusalIsFinal
    <2> SUFFICES ASSUME IInv, NEW p \in Loaders, NEW l, l = load[p], l.result \in Refusals
                 PROVE  /\ ~l.early => \A w \in PendingOf(p) : ~Accepts(w)
                        /\ ~l.unanswered => LandedOf(p) = {}
      BY DEF RefusalIsFinal, Refusals
    <2>1. WritesFine(p, l) /\ PendingOf(p) = Pending(l) /\ LandedOf(p) = Landed(l)
      BY DEF IInv, LoadsFine, LoadFine, PendingOf, Pending, LandedOf, Landed
    <2>2. l.result # "published"
      BY DEF Refusals
    <2> QED
      BY <2>1, <2>2 DEF WritesFine
  <1> QED
    BY <1>1, IInvHolds, PTL

(* However often a load sends its write again for want of an answer, one   *)
(* of them at most is applied.                                             *)
THEOREM AtMostOneLandsHolds == Spec => []AtMostOneLands
  <1>1. IInv => AtMostOneLands
    <2> SUFFICES ASSUME IInv, NEW p \in Loaders PROVE Cardinality(LandedOf(p)) <= 1
      BY DEF AtMostOneLands
    <2>1. \A t, u \in LandedOf(p) : t = u
      BY DEF IInv, LoadsFine, LoadFine, LandingFine, Landed, LandedOf
    <2>2. CASE LandedOf(p) = {}
      BY <2>2, FS_EmptySet
    <2>3. CASE LandedOf(p) # {}
      <3>1. PICK t : LandedOf(p) = {t}
        BY <2>1, <2>3
      <3> QED
        BY <3>1, FS_Singleton
    <2> QED
      BY <2>2, <2>3
  <1> QED
    BY <1>1, IInvHolds, PTL

(* Behind the fence on the row it read, the checks a publish makes for     *)
(* callers without a fence never stop a load: no tombstone, no pointer as  *)
(* far, no second key, no cleartext onto a key.                            *)
THEOREM FenceCoversLaterChecksHolds == Spec => []FenceCoversLaterChecks
  <1>1. IInv => FenceCoversLaterChecks
    <2> SUFFICES ASSUME IInv, NEW p \in Loaders, NEW l, l = load[p], l.pc = "decide",
                        Proceeds(l), l.rec # NoRow
                 PROVE  ~Invalid(l)
      BY DEF FenceCoversLaterChecks, Deciding, Invalid
    <2>1. LoadFine(p, l) /\ Numbered(l) /\ KeyFits(p, l)
      BY DEF IInv, LoadsFine, LoadFine, Keyed, Stored
    <2>2. /\ l.base # NoRow /\ OnlyLeasesDiffer(l.base, l.rec)
          /\ l.base.status = "active" /\ l.base.currentGen < l.gen
      BY <2>1, FenceHolds
    <2>3. /\ l.rec.status = "active" /\ l.rec.currentGen = l.base.currentGen
          /\ l.rec.wrappedDeks = l.base.wrappedDeks
      BY <2>2 DEF OnlyLeasesDiffer, OnlyLeasesDifferBut
    <2>4. l.gen \in Int /\ (l.base.currentGen \in Int)
      BY <2>1, <2>2, SegmentAssumption
      DEF Numbered, Gens, LoadFine, BaseFine, CopyFine, RowFine, NoGen
    <2>5. ~(l.rec.currentGen >= l.gen)
      BY <2>2, <2>3, <2>4
    <2>6. l.minted => l.key # Clear
      BY <2>1, LoadAssumption DEF KeyFits
    <2>7. /\ l.minted => l.base.currentGen = NoGen
          /\ ~l.minted => l.key = l.base.wrappedDeks
      BY <2>1, <2>2 DEF KeyFits
    <2> QED
      BY <2>2, <2>3, <2>5, <2>6, <2>7 DEF Invalid
  <1> QED
    BY <1>1, IInvHolds, PTL

(* What deletes in one step of a load is that load.                        *)
LEMMA MoverMoves ==
    ASSUME IInv, [Next]_<<loadVars, cast>>, NEW p \in Loaders, load'[p] # load[p]
    PROVE  LoadStep(p) \/ Abandon(p)
  <1>1. PICK q \in cast : LoadStep(q) \/ Abandon(q)
    BY DEF Next, loadVars
  <1>2. q \in Loaders
    BY DEF IInv
  <1>3. \E x : Becomes(q, x)
    BY <1>1, Zenon
    DEF LoadStep, ReadRow, Number, ChooseKey, Put, SeedLeases, SeedList, SeedRead, SeedFails,
        SettleLanded, Refuse, WaitOutChurn, RefuseSealed, SendAnswered, SendUnanswered,
        AskRow, ReadAgain, FinalRead, Reclaim, Delete, Watch, TidyFails, DeleteUnanswered,
        Abandon
  <1>4. q = p
    BY <1>2, <1>3, OneLoad
  <1> QED
    BY <1>1, <1>4

(* A refused load that deletes takes its own object, or one that a         *)
(* tombstone has already made unreadable.                                  *)
THEOREM ReclaimTakesItsOwnHolds == Spec => ReclaimTakesItsOwn
  <1>1. IInv /\ [Next]_<<loadVars, cast>> =>
           [\A p \in Loaders : \A g \in Gens :
               load[p].pc \in {"delete", "deleteOwn"} /\ load'[p] # load[p]
               /\ objects[g] # None /\ objects'[g] = None =>
                   \/ objects[g].by = p
                   \/ row # NoRow /\ row.status = "destroyed"]_loadVars
    <2> SUFFICES ASSUME IInv, [Next]_<<loadVars, cast>>, NEW p \in Loaders, NEW g \in Gens,
                        load[p].pc \in Deletes, load'[p] # load[p],
                        objects[g] # None, objects'[g] = None
                 PROVE  objects[g].by = p \/ Destroyed
      BY DEF Deletes, Destroyed
    <2>1. LoadStep(p) \/ Abandon(p)
      BY MoverMoves
    <2>2. Takes(p)
      BY <2>1
      DEF Takes, Deletes, LoadStep, ReadRow, Number, ChooseKey, Put, SeedLeases, SeedList, SeedRead,
          SeedFails, SettleLanded, Refuse, WaitOutChurn, RefuseSealed, SendAnswered,
          SendUnanswered, AskRow, ReadAgain, FinalRead, Reclaim, Watch, TidyFails, Abandon,
          Deciding, segment
    <2>3. PICK l : l = load[p]
      OBVIOUS
    <2> QED
      BY <2>2, <2>3, DeletesOwn
  <1> QED
    BY <1>1, IInvHolds, PTL DEF Spec, ReclaimTakesItsOwn

(* The write of a turn is applied at once, or nothing is.                  *)
LEMMA SendWrites ==
    ASSUME IInv, NEW p \in Loaders, SendAnswered(p) \/ SendUnanswered(p),
           NEW l, NEW m, l = load[p], m = load'[p]
    PROVE  \E w : /\ RequestIs(p, l, w) /\ m.sent = l.sent \cup {w.token}
                  /\ Apply(w) \/ UNCHANGED <<row, landed>>
  <1>1. Sends(l) /\ Deciding(p) /\ DOMAIN l = DOMAIN Idle
    BY DEF SendAnswered, SendUnanswered, IInv, LoadsFine, LoadFine
  <1>2. \A live, w : w = RequestOf(p, l, live) => RequestIs(p, l, w)
    BY <1>1, RequestFine
  <1>3. CASE SendAnswered(p)
    <2>1. PICK live \in LiveSets(l) :
             LET w     == RequestOf(p, l, live)
                 after == [l EXCEPT !.sent = @ \cup {w.token}]
             IN  IF Accepts(w)
                 THEN /\ Apply(w)
                      /\ Becomes(p, Published(p, after, l.rec, live))
                 ELSE /\ Becomes(p, Turn([after EXCEPT
                                !.before = l.rec,
                                !.attempt = IF TokenMoved(l) THEN @ ELSE @ + 1], "read"))
                      /\ UNCHANGED <<row, landed>>
      BY <1>3, Zenon DEF SendAnswered
    <2>2. PICK w : w = RequestOf(p, l, live)
      OBVIOUS
    <2>3. PICK after : after = [l EXCEPT !.sent = @ \cup {w.token}]
      OBVIOUS
    <2>4. after.sent = l.sent \cup {w.token}
      BY <1>1, <2>3 DEF Idle
    <2>5. CASE Accepts(w)
      <3>1. Apply(w) /\ Becomes(p, Published(p, after, l.rec, live))
        BY <2>1, <2>2, <2>3, <2>5
      <3>2. m = Published(p, after, l.rec, live)
        BY <3>1, OneLoad
      <3>3. Ends(after, m)
        BY <3>2, LandedEnds
      <3>4. m.sent = after.sent
        BY <3>3 DEF Ends
      <3> QED
        BY <1>2, <2>2, <2>4, <3>1, <3>4
    <2>6. CASE ~Accepts(w)
      <3>1. PICK attempt : attempt = IF TokenMoved(l) THEN after.attempt ELSE after.attempt + 1
        OBVIOUS
      <3>2. PICK turned : turned = [after EXCEPT !.before = l.rec, !.attempt = attempt]
        OBVIOUS
      <3>3. Becomes(p, Turn(turned, "read")) /\ UNCHANGED <<row, landed>>
        BY <2>1, <2>2, <2>3, <2>6, <3>1, <3>2
      <3>4. m = [turned EXCEPT !.pc = IF turned.attempt < MaxAttempts THEN "read" ELSE "final"]
        BY <3>3, OneLoad DEF Turn
      <3>5. m.sent = after.sent
        BY <1>1, <2>3, <3>2, <3>4 DEF Idle
      <3> QED
        BY <1>2, <2>2, <2>4, <3>3, <3>5
    <2> QED
      BY <2>5, <2>6
  <1>4. CASE SendUnanswered(p)
    <2>1. PICK live \in LiveSets(l) :
             LET w == RequestOf(p, l, live)
             IN  Becomes(p, [l EXCEPT !.pc = "asking", !.unanswered = TRUE,
                                      !.sent = @ \cup {w.token}, !.before = None])
      BY <1>4, Zenon DEF SendUnanswered
    <2>2. PICK w : w = RequestOf(p, l, live)
      OBVIOUS
    <2>3. m = [l EXCEPT !.pc = "asking", !.unanswered = TRUE,
                        !.sent = @ \cup {w.token}, !.before = None]
      BY <2>1, <2>2, OneLoad
    <2>4. m.sent = l.sent \cup {w.token}
      BY <1>1, <2>3 DEF Idle
    <2>5. UNCHANGED <<row, landed>>
      BY <1>4 DEF SendUnanswered
    <2> QED
      BY <1>2, <2>2, <2>4, <2>5
  <1> QED
    BY <1>3, <1>4

(* The row that a write of load l would be applied over.                   *)
OverBase(l) ==
    IF l.base = NoRow THEN row = NoRow ELSE row # NoRow /\ OnlyLeasesDiffer(l.base, row)

(* A load has another write applied only over the row it read: by a turn   *)
(* of its own, or late.                                                    *)
LEMMA LandsOverBase ==
    ASSUME IInv, Next, NEW p \in Loaders, NEW l, NEW m, l = load[p], m = load'[p],
           Landed(m)' # Landed(l)
    PROVE  OverBase(l)
  <1>1. LoadFine(p, l)
    BY DEF IInv, LoadsFine
  <1>2. \A w : WriteFine(l, w) /\ Accepts(w) => OverBase(l)
    BY AcceptedIsActive DEF OverBase
  <1>3. ASSUME NEW q \in Loaders, Quiet(q) \/ Put(q) \/ Takes(q)
        PROVE  FALSE
    <2>1. UNCHANGED landed
      BY <1>3
      DEF Quiet, ReadRow, Number, ChooseKey, Put, SeedLeases, SeedList, SeedRead, SeedFails,
          SettleLanded, Refuse, WaitOutChurn, RefuseSealed, AskRow, ReadAgain, FinalRead,
          Reclaim, Watch, TidyFails, Abandon, Takes, Delete, DeleteUnanswered, segment
    <2>2. \E x : Becomes(q, x)
      BY <1>3, Zenon
      DEF Quiet, ReadRow, Number, ChooseKey, Put, SeedLeases, SeedList, SeedRead, SeedFails,
          SettleLanded, Refuse, WaitOutChurn, RefuseSealed, AskRow, ReadAgain, FinalRead,
          Reclaim, Watch, TidyFails, Abandon, Takes, Delete, DeleteUnanswered
    <2>3. q # p => m = l
      BY <2>2, OneLoad
    <2>4. q = p => m.sent = l.sent
      <3> SUFFICES ASSUME q = p PROVE Keeps(l, m)
        BY DEF Keeps
      <3>1. CASE Quiet(p)
        BY <3>1, QuietFine
      <3>2. CASE Put(p)
        BY <3>2, PutFine, PutLostFine
      <3>3. CASE Takes(p)
        BY <3>3, DeleteFine
      <3> QED
        BY <1>3, <3>1, <3>2, <3>3
    <2>5. m.sent = l.sent
      BY <2>3, <2>4
    <2> QED
      BY <2>1, <2>5 DEF Landed
  <1>4. ASSUME NEW q \in Loaders, SendAnswered(q) \/ SendUnanswered(q)
        PROVE  OverBase(l)
    <2>1. PICK k, n : k = load[q] /\ n = load'[q]
      OBVIOUS
    <2>2. PICK w : /\ RequestIs(q, k, w) /\ n.sent = k.sent \cup {w.token}
                   /\ Apply(w) \/ UNCHANGED <<row, landed>>
      BY <1>4, <2>1, SendWrites
    <2>3. \E x : Becomes(q, x)
      BY <1>4, Zenon DEF SendAnswered, SendUnanswered
    <2>4. /\ WriteFine(k, w) /\ w.token.write \notin landed
          /\ \A t \in l.sent : t.write # w.token.write
      BY <2>2 DEF RequestIs, WriteFine
    <2>5. CASE q # p
      <3>1. m = l
        BY <2>3, <2>5, OneLoad
      <3>2. landed' \in {landed, landed \cup {w.token.write}}
        BY <2>2 DEF Apply
      <3> QED
        BY <2>4, <3>1, <3>2 DEF Landed
    <2>6. CASE q = p
      <3>1. CASE Apply(w)
        BY <1>2, <2>1, <2>4, <2>6, <3>1 DEF Apply
      <3>2. CASE UNCHANGED landed
        BY <2>1, <2>2, <2>4, <2>6, <3>2 DEF Landed
      <3> QED
        BY <2>2, <3>1, <3>2
    <2> QED
      BY <2>5, <2>6
  <1>5. CASE OtherOperation /\ UNCHANGED load
    <2>1. landed' \subseteq landed \cup {OtherWrite} /\ landed \subseteq landed'
      BY <1>5, OtherMoves DEF RowMoves, DropObject
    <2> QED
      BY <1>5, <2>1, OtherWriteIsFresh DEF Landed
  <1>6. CASE LateWrite /\ UNCHANGED load
    <2>1. PICK w \in inflight : LateWriteArrives(w) \/ WriteIsLost(w)
      BY <1>6 DEF LateWrite
    <2>2. Accepts(w) /\ landed' = landed \cup {w.token.write}
      BY <1>6, <2>1 DEF LateWriteArrives, WriteIsLost, Apply, Landed
    <2>3. PICK t \in l.sent : t.write = w.token.write
      BY <1>6, <2>2 DEF Landed
    <2>4. PICK q \in Loaders : w.token \in load[q].sent
      BY DEF IInv, FlyingAreSent
    <2>5. PICK k : k = load[q]
      OBVIOUS
    <2>6. LoadFine(q, k)
      BY <2>5 DEF IInv, LoadsFine
    <2>7. q = p
      BY <1>1, <2>3, <2>4, <2>5, <2>6, TokensAreOwn DEF LoadFine
    <2>8. w \in Pending(l)
      BY <2>4, <2>7 DEF Pending
    <2>9. WriteFine(l, w)
      BY <1>1, <2>8 DEF LoadFine, WritesFine
    <2> QED
      BY <1>2, <2>2, <2>9
  <1>7. CASE PurgeRow /\ UNCHANGED load
    BY <1>7 DEF PurgeRow, Landed
  <1>8. ASSUME NEW q \in cast, LoadStep(q) \/ Abandon(q)
        PROVE  OverBase(l)
    <2>1. q \in Loaders
      BY DEF IInv
    <2> QED
      BY <1>3, <1>4, <1>8, <2>1 DEF LoadStep, Quiet, Takes
  <1> QED
    BY <1>5, <1>6, <1>7, <1>8 DEF Next

(* Whatever the row went through, a publish lands only over the row its    *)
(* load read, or one that differs from it in its leases alone.             *)
THEOREM PublishReplacesTheRowReadHolds == Spec => PublishReplacesTheRowRead
  <1>1. IInv /\ [Next]_<<loadVars, cast>> =>
           [\A p \in Loaders :
               LandedOf(p)' # LandedOf(p) =>
                   IF load[p].base = NoRow THEN row = NoRow
                   ELSE row # NoRow /\ OnlyLeasesDiffer(load[p].base, row)]_loadVars
    <2> SUFFICES ASSUME IInv, [Next]_<<loadVars, cast>>, loadVars' # loadVars,
                        NEW p \in Loaders, LandedOf(p)' # LandedOf(p)
                 PROVE  IF load[p].base = NoRow THEN row = NoRow
                        ELSE row # NoRow /\ OnlyLeasesDiffer(load[p].base, row)
      OBVIOUS
    <2>1. Next
      OBVIOUS
    <2>2. PICK l, m : l = load[p] /\ m = load'[p]
      OBVIOUS
    <2>3. Landed(m)' = LandedOf(p)' /\ Landed(l) = LandedOf(p)
      BY <2>2 DEF Landed, LandedOf
    <2>4. OverBase(l)
      BY <2>1, <2>2, <2>3, LandsOverBase
    <2> QED
      BY <2>2, <2>4 DEF OverBase
  <1> QED
    BY <1>1, IInvHolds, PTL DEF Spec, PublishReplacesTheRowRead
=============================================================================
