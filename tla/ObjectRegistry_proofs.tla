----------------------- MODULE ObjectRegistry_proofs -----------------------
(***************************************************************************)
(* A conditional object store keeps the promise of a registry, for any     *)
(* number of callers and calls and whatever the store's client resends:    *)
(* ObjectRegistry implements Registry.                                     *)
(***************************************************************************)
EXTENDS ObjectRegistry, TLAPS

CallStates ==
    [n : Nat, pc : {"idle", "locked", "read", "wait", "readback"},
     op : {"create", "swap", "delete"}, on : Ids \union {NoRow}, hinted : BOOLEAN,
     seen : Rows \union {NoRow}, lost : {"none", "conflict", "unsettled"}, attempt : Nat,
     copy : {"none", "flying", "landed", "refused", "missing"}, sends : Nat,
     outcome : {"none"}]

Requests == [id : Ids, expect : Rows \union {NoRow}, body : Rows \union {NoRow}]

TypeOK ==
    /\ store \in Stores
    /\ object \in Rows \union {NoRow}
    /\ inflight \in SUBSET Requests
    /\ view \in [Callers -> Rows \union {NoRow}]
    /\ call \in [Callers -> CallStates]
    /\ open \in SUBSET [id : Ids, op : {"create", "swap", "delete"}, on : Ids \union {NoRow}]
    /\ effects \in SUBSET Ids

Active(p) == call[p].pc # "idle"

CallOf(p) == [id |-> CallId(p), op |-> call[p].op, on |-> call[p].on]

(* The requests that may still reach the store, or be sent again.          *)
Sent == inflight \union {Request(p) : p \in {q \in Callers : call[q].pc = "wait"}}

(* What was read somewhere and is still held, and the object.              *)
Known ==
    ({object} \union {view[p] : p \in Callers} \union {r.expect : r \in Sent}) \ {NoRow}

CreatorOf(obj) == <<obj.incarnation[1], obj.incarnation[2]>>

Applied(id) == id[1] = Earlier \/ id \in effects

(* The object was obj and cannot be it again.                              *)
Past(obj) ==
    \/ object = NoRow
    \/ object.incarnation # obj.incarnation
    \/ object.counter > obj.counter

-----------------------------------------------------------------------------
(* Ids are of calls that were made, and an open call is open once.         *)
Made(id) == id \in Callers \X Nat /\ id[2] <= call[id[1]].n

IdsAreMade ==
    /\ \A o \in open : Made(o.id)
    /\ \A id \in effects : Made(id)
    /\ \A r \in inflight : Made(r.id)

OpenIsUnique == \A o1, o2 \in open : o1.id = o2.id => o1 = o2

KnownIsApplied == \A x \in Known : Applied(CreatorOf(x)) /\ Applied(WrittenBy(x))

KnownIsPast == \A x \in Known : x = object \/ Past(x)

ViewsAreLive == \A p \in Callers : view[p] = NoRow \/ IsLive(view[p])

(* What a request of each kind makes of what it expects.                   *)
WellMade(r) ==
    IF ~IsLive(r.expect)
    THEN /\ IsLive(r.body) /\ r.body.incarnation = r.body.write /\ r.body.patches = {r.id}
         /\ WrittenBy(r.body) = r.id
    ELSE IF IsLive(r.body)
    THEN /\ r.body.incarnation = r.expect.incarnation
         /\ r.body.counter = r.expect.counter + 1
         /\ r.body.patches = r.expect.patches \union {r.id}
         /\ WrittenBy(r.body) = r.id
    ELSE r.body # NoRow =>
         /\ r.body.incarnation = r.expect.incarnation
         /\ r.body.counter = r.expect.counter + 1
         /\ WrittenBy(r.body) = r.id

SentAreWellMade == \A r \in Sent : WellMade(r)

(* A request that cannot be accepted any more.                             *)
Spent(r) ==
    IF IsLive(r.expect) THEN Past(r.expect)
    ELSE IsLive(object) /\ CreatorOf(object) = r.id

(* The request of an open call that may take effect.                       *)
Permits(o, r) ==
    /\ o.id = r.id
    /\ o.op = "create" => ~IsLive(r.expect)
    /\ o.op = "swap" => IsLive(r.expect) /\ IsLive(r.body) /\ WrittenBy(r.expect) = o.on
    /\ o.op = "delete" => /\ IsLive(r.expect) /\ ~IsLive(r.body)
                          /\ o.on # NoRow => WrittenBy(r.expect) = o.on
    /\ r.id \notin effects \/ (o.op = "delete" /\ o.on = NoRow)

SentArePermitted == \A r \in Sent : Spent(r) \/ \E o \in open : Permits(o, r)

(* Nothing of a call is left to be sent.                                   *)
Over(id) ==
    /\ \A r \in inflight : r.id # id
    /\ \A p \in Callers : Active(p) => CallId(p) # id

IsDelete(r) == IsLive(r.expect) /\ ~IsLive(r.body)

DeletesComeLate == \A r \in Sent : IsDelete(r) => Over(CreatorOf(r.expect))

(* A call that has sent nothing, or had every request refused.             *)
IsClean(p) == CallId(p) \notin effects /\ \A r \in inflight : r.id # CallId(p)

MustBeClean(p) ==
    LET c == call[p]
    IN  /\ c.copy # "landed"
        /\ c.attempt = 0 \/ (c.op # "delete" /\ ~store.resendsWrites)

(* The control state of a call.                                            *)
CallShape(c) ==
    /\ c.n > 0
    /\ c.pc \in {"locked", "read"} => c.copy = "none"
    /\ c.pc = "locked" => c.attempt = 0 /\ c.lost = "none"
    /\ c.pc = "read" /\ c.op # "delete" /\ c.lost = "none" => c.attempt = 0
    /\ c.pc = "wait" => c.attempt > 0 /\ c.copy # "none"
    /\ c.pc = "readback" => store.resendsWrites /\ c.copy = "refused" /\ c.attempt > 0
    /\ c.lost = "conflict" => ~store.resendsWrites
    /\ c.lost # "none" => c.op = "create"
    /\ c.op = "create" => c.on = NoRow
    /\ c.op = "swap" => c.on # NoRow
    /\ c.on # NoRow => Applied(c.on)
    /\ c.pc = "wait" =>
          CASE c.op = "create" -> ~IsLive(c.seen)
            [] OTHER -> IsLive(c.seen) /\ (c.on # NoRow => WrittenBy(c.seen) = c.on)

CallsAreOpen == \A p \in Callers : Active(p) => CallOf(p) \in open /\ CallShape(call[p])

CleanCalls == \A p \in Callers : Active(p) /\ MustBeClean(p) => IsClean(p)

LandedCalls ==
    \A p \in Callers :
        Active(p) /\ call[p].copy = "landed" =>
            /\ CallId(p) \in effects
            /\ \A r \in inflight : r.id = CallId(p) => Spent(r)

CreatedCalls ==
    \A p \in Callers :
        Active(p) /\ call[p].op = "create" /\ CallId(p) \in effects =>
            IsLive(object) /\ CreatorOf(object) = CallId(p)

DeletedCalls ==
    \A p \in Callers :
        /\ Active(p) /\ call[p].op = "delete" /\ call[p].on # NoRow
        /\ CallId(p) \in effects
        => ~(IsLive(object) /\ WrittenBy(object) = call[p].on)

DeletesWriteNoRow ==
    \A p \in Callers :
        Active(p) /\ call[p].op = "delete" /\ IsLive(object) => WrittenBy(object) # CallId(p)

IInv ==
    /\ TypeOK
    /\ IdsAreMade
    /\ OpenIsUnique
    /\ KnownIsApplied
    /\ KnownIsPast
    /\ ViewsAreLive
    /\ SentAreWellMade
    /\ SentArePermitted
    /\ DeletesComeLate
    /\ CallsAreOpen
    /\ CleanCalls
    /\ LandedCalls
    /\ CreatedCalls
    /\ DeletedCalls
    /\ DeletesWriteNoRow

-----------------------------------------------------------------------------
(* Rows, calls and requests.                                               *)

LEMMA RowTypes ==
    /\ NoRow \notin Rows /\ NoRow \notin Ids
    /\ \A x \in Rows : CreatorOf(x) \in Ids /\ WrittenBy(x) \in Ids /\ x.counter \in Nat
    /\ \A x \in Rows : IsLive(x) <=> ~x.deleted
    /\ ~IsLive(NoRow)
  <1>1. NoRow \notin Rows /\ NoRow \notin Ids
    BY ObjectRegistryAssumption
  <1>2. ASSUME NEW x \in Rows
        PROVE  CreatorOf(x) \in Ids /\ WrittenBy(x) \in Ids /\ x.counter \in Nat
    BY DEF Rows, Writes, Ids, CreatorOf, WrittenBy
  <1>3. \A x \in Rows : IsLive(x) <=> ~x.deleted
    BY <1>1 DEF IsLive
  <1> QED BY <1>1, <1>2, <1>3 DEF IsLive

LEMMA NewRowIsMade ==
    ASSUME NEW w \in Writes, NEW over \in Rows \union {NoRow}, NEW id \in Ids
    PROVE  LET x == NewRow(w, over, id)
           IN  /\ x \in Rows /\ ~x.deleted /\ IsLive(x)
               /\ x.incarnation = w /\ x.write = w /\ x.patches = {id}
  <1> DEFINE x == NewRow(w, over, id)
  <1>1. /\ x.deleted = FALSE /\ x.incarnation = w /\ x.write = w /\ x.patches = {id}
    BY DEF NewRow
  <1>2. (IF over = NoRow THEN 0 ELSE over.counter + 1) \in Nat
    BY RowTypes
  <1>3. x \in Rows
    BY <1>2 DEF NewRow, Rows
  <1> QED BY <1>1, <1>3, RowTypes

LEMMA PatchedRowIsMade ==
    ASSUME NEW w \in Writes, NEW over \in Rows, IsLive(over), NEW id \in Ids
    PROVE  LET x == PatchedRow(w, over, id)
           IN  /\ x \in Rows /\ IsLive(x)
               /\ x.incarnation = over.incarnation /\ x.write = w
               /\ x.counter = over.counter + 1 /\ x.patches = over.patches \union {id}
  <1>1. over.counter + 1 \in Nat /\ over.patches \union {id} \in SUBSET Ids
    BY DEF Rows
  <1>2. PatchedRow(w, over, id) \in Rows
    BY <1>1 DEF PatchedRow, Rows
  <1>3. LET x == PatchedRow(w, over, id)
        IN  /\ x.deleted = over.deleted /\ x.incarnation = over.incarnation /\ x.write = w
            /\ x.counter = over.counter + 1 /\ x.patches = over.patches \union {id}
    BY DEF PatchedRow, Rows
  <1> QED BY <1>2, <1>3, RowTypes

LEMMA TombstoneIsMade ==
    ASSUME NEW w \in Writes, NEW over \in Rows
    PROVE  LET x == Tombstone(w, over)
           IN  /\ x \in Rows /\ ~IsLive(x)
               /\ x.incarnation = over.incarnation /\ x.write = w
               /\ x.counter = over.counter + 1
  <1>1. over.counter + 1 \in Nat /\ {} \in SUBSET Ids
    BY DEF Rows
  <1>2. Tombstone(w, over) \in Rows
    BY <1>1 DEF Tombstone, Rows
  <1>3. LET x == Tombstone(w, over)
        IN  /\ x.deleted = TRUE /\ x.incarnation = over.incarnation /\ x.write = w
            /\ x.counter = over.counter + 1
    BY DEF Tombstone, Rows
  <1> QED BY <1>2, <1>3, RowTypes

(* A request of each kind is made of what it expects.                      *)
LEMMA RequestIsMade ==
    ASSUME NEW p \in Callers, NEW c \in CallStates,
           c.op = "create" => ~IsLive(c.seen),
           c.op # "create" => IsLive(c.seen)
    PROVE  LET r == RequestOf(p, c)
           IN  /\ r \in Requests /\ r.id = <<p, c.n>> /\ r.expect = c.seen
               /\ WellMade(r)
               /\ IsDelete(r) <=> c.op = "delete"
               /\ c.op # "delete" => IsLive(r.body)
  <1> DEFINE w == WriteOf(p, c)
             r == RequestOf(p, c)
  <1>1. w \in Writes /\ <<p, c.n>> \in Ids /\ <<w[1], w[2]>> = <<p, c.n>>
    BY DEF WriteOf, Writes, Ids, CallStates
  <1>2. c.seen \in Rows \union {NoRow} /\ c.op \in {"create", "swap", "delete"}
    BY DEF CallStates
  <1>3. r.id = <<p, c.n>> /\ r.expect = c.seen
    BY DEF RequestOf
  <1>0. ASSUME r.body \in Rows \union {NoRow}
        PROVE  r \in Requests
    <2>1. r = [id |-> r.id, expect |-> r.expect, body |-> r.body]
      BY DEF RequestOf
    <2> HIDE DEF r
    <2> QED BY <1>0, <1>1, <1>2, <1>3, <2>1 DEF Requests
  <1>4. CASE c.op = "create"
    <2>1. r.body = NewRow(w, c.seen, <<p, c.n>>)
      BY <1>4 DEF RequestOf, Removes
    <2>2. r.body \in Rows /\ IsLive(r.body) /\ r.body.incarnation = w /\ r.body.write = w
          /\ r.body.patches = {<<p, c.n>>}
      BY <1>1, <1>2, <2>1, NewRowIsMade
    <2>3. WrittenBy(r.body) = <<p, c.n>>
      BY <1>1, <2>2 DEF WrittenBy
    <2>4. r \in Requests
      BY <1>0, <2>2
    <2> QED BY <1>3, <1>4, <2>2, <2>3, <2>4 DEF WellMade, IsDelete
  <1>5. CASE c.op = "swap"
    <2>0. c.seen \in Rows /\ IsLive(c.seen)
      BY <1>2, <1>5, RowTypes
    <2>1. r.body = PatchedRow(w, c.seen, <<p, c.n>>)
      BY <1>5 DEF RequestOf, Removes
    <2>2. /\ r.body \in Rows /\ IsLive(r.body) /\ r.body.incarnation = c.seen.incarnation
          /\ r.body.write = w /\ r.body.counter = c.seen.counter + 1
          /\ r.body.patches = c.seen.patches \union {<<p, c.n>>}
      BY <1>1, <2>0, <2>1, PatchedRowIsMade
    <2>3. WrittenBy(r.body) = <<p, c.n>>
      BY <1>1, <2>2 DEF WrittenBy
    <2>4. r \in Requests
      BY <1>0, <2>2
    <2> QED BY <1>3, <1>5, <2>0, <2>2, <2>3, <2>4 DEF WellMade, IsDelete
  <1>6. CASE c.op = "delete"
    <2>0. c.seen \in Rows /\ IsLive(c.seen)
      BY <1>2, <1>6, RowTypes
    <2>1. CASE Removes(c)
      <3>1. r.body = NoRow
        BY <1>6, <2>1 DEF RequestOf
      <3>2. r \in Requests
        BY <1>0, <3>1
      <3> QED BY <1>3, <1>6, <2>0, <3>1, <3>2, RowTypes DEF WellMade, IsDelete
    <2>2. CASE ~Removes(c)
      <3>1. r.body = Tombstone(w, c.seen)
        BY <1>6, <2>2 DEF RequestOf
      <3>2. /\ r.body \in Rows /\ ~IsLive(r.body) /\ r.body.incarnation = c.seen.incarnation
            /\ r.body.write = w /\ r.body.counter = c.seen.counter + 1
        BY <1>1, <2>0, <3>1, TombstoneIsMade
      <3>3. WrittenBy(r.body) = <<p, c.n>>
        BY <1>1, <3>2 DEF WrittenBy
      <3>4. r \in Requests
        BY <1>0, <3>2
      <3> QED BY <1>3, <1>6, <2>0, <3>2, <3>3, <3>4 DEF WellMade, IsDelete
    <2> QED BY <2>1, <2>2
  <1> QED BY <1>2, <1>4, <1>5, <1>6

-----------------------------------------------------------------------------
(* What a step does to the object: a fact of every step from a state in    *)
(* IInv.  What was known is the object still or is past, and no request    *)
(* comes to be accepted that no open call permits.                         *)
CreatedIsLive(p) ==
    Active(p) /\ call[p].op = "create" => IsLive(object') /\ CreatorOf(object') = CallId(p)

DeletedIsGone(p) ==
    Active(p) /\ call[p].op = "delete" /\ call[p].on # NoRow =>
        ~(IsLive(object') /\ WrittenBy(object') = call[p].on)

ObjectMoves ==
    /\ object' \in Rows \union {NoRow} /\ effects \subseteq effects'
    /\ \A x \in (Known \union {object'}) \ {NoRow} :
          /\ Applied(CreatorOf(x))' /\ Applied(WrittenBy(x))'
          /\ x = object' \/ Past(x)'
    /\ \A q \in Sent : Spent(q) => Spent(q)'
    /\ \A q \in Sent : Spent(q)' \/ \E o \in open : Permits(o, q)'
    /\ \A p \in Callers : CallId(p) \in effects' => CreatedIsLive(p) /\ DeletedIsGone(p)
    /\ \A p \in Callers :
          Active(p) /\ call[p].op = "delete" /\ IsLive(object') => WrittenBy(object') # CallId(p)

LEMMA KnownTypes ==
    ASSUME TypeOK
    PROVE  /\ Known \subseteq Rows
           /\ \A q \in Sent : IsLive(q.expect) => q.expect \in Known
           /\ object # NoRow => object \in Known
  <1>1. ASSUME NEW q \in Sent PROVE q.expect \in Rows \union {NoRow}
    <2>1. CASE q \in inflight
      BY <2>1 DEF TypeOK, Requests
    <2>2. CASE q \in {Request(p) : p \in {h \in Callers : call[h].pc = "wait"}}
      <3>1. PICK p \in Callers : q = Request(p)
        BY <2>2
      <3>2. q.expect = call[p].seen
        BY <3>1 DEF Request, RequestOf, CallId
      <3> QED BY <3>2 DEF TypeOK, CallStates
    <2> QED BY <2>1, <2>2 DEF Sent
  <1>2. Known \subseteq Rows
    BY <1>1 DEF Known, TypeOK
  <1>3. \A q \in Sent : IsLive(q.expect) => q.expect \in Known
    BY DEF Known, IsLive
  <1> QED BY <1>2, <1>3 DEF Known

LEMMA StillObject ==
    ASSUME IInv, object' = object, effects' = effects
    PROVE  ObjectMoves
  <1>1. object' \in Rows \union {NoRow} /\ effects \subseteq effects'
    BY DEF IInv, TypeOK
  <1>2. \A x \in (Known \union {object'}) \ {NoRow} :
          /\ Applied(CreatorOf(x))' /\ Applied(WrittenBy(x))'
          /\ x = object' \/ Past(x)'
    BY KnownTypes DEF IInv, KnownIsApplied, KnownIsPast, Applied, Past
  <1>3. \A q : Spent(q) <=> Spent(q)'
    BY DEF Spent, Past
  <1>4. \A o, q : Permits(o, q) <=> Permits(o, q)'
    BY DEF Permits
  <1>5. \A q \in Sent : Spent(q)' \/ \E o \in open : Permits(o, q)'
    BY <1>3, <1>4 DEF IInv, SentArePermitted
  <1>6. ASSUME NEW p \in Callers
        PROVE  /\ CallId(p) \in effects' => CreatedIsLive(p) /\ DeletedIsGone(p)
               /\ Active(p) /\ call[p].op = "delete" /\ IsLive(object')
                     => WrittenBy(object') # CallId(p)
    BY DEF IInv, CreatedCalls, DeletedCalls, DeletesWriteNoRow, CreatedIsLive, DeletedIsGone
  <1> QED BY <1>1, <1>2, <1>3, <1>5, <1>6 DEF ObjectMoves

(* An accepted request of an open call replaces the object by one that was *)
(* never there, so that nothing that was known can be accepted again.      *)
LEMMA Landing ==
    ASSUME IInv, NEW r \in Requests, WellMade(r), r.expect = object,
           NEW o \in open, Permits(o, r),
           IsDelete(r) => Over(CreatorOf(object)),
           object' = r.body, effects' = effects \union {r.id}
    PROVE  ObjectMoves /\ \A q \in Sent : q.id = r.id => Spent(q)'
  <1> USE RowTypes
  <1>1. /\ object \in Rows \union {NoRow} /\ r.body \in Rows \union {NoRow}
        /\ r.id \in Ids /\ r.id[1] # Earlier
        /\ Known \subseteq Rows
    BY KnownTypes, ObjectRegistryAssumption
       DEF IInv, TypeOK, Requests, IdsAreMade, Made, Permits
  <1>2. ~IsDelete(r) => ~Applied(r.id)
    BY <1>1 DEF Permits, IsDelete, Applied
  <1>3. \/ /\ ~IsLive(object) /\ IsLive(r.body)
           /\ CreatorOf(r.body) = r.id /\ WrittenBy(r.body) = r.id /\ ~IsDelete(r)
        \/ /\ IsLive(object) /\ r.body # NoRow /\ object # NoRow
           /\ r.body.incarnation = object.incarnation /\ r.body.counter = object.counter + 1
           /\ CreatorOf(r.body) = CreatorOf(object) /\ WrittenBy(r.body) = r.id
        \/ r.body = NoRow /\ IsDelete(r)
    BY <1>1 DEF WellMade, CreatorOf, WrittenBy, IsDelete
  <1>4. \A id : Applied(id) => Applied(id)'
    BY DEF Applied
  <1>5. Applied(r.id)'
    BY DEF Applied
  <1>6. ASSUME NEW x \in Known
        PROVE  Past(x)' /\ Applied(CreatorOf(x))' /\ Applied(WrittenBy(x))'
    <2>1. Applied(CreatorOf(x)) /\ Applied(WrittenBy(x)) /\ (x = object \/ Past(x))
      BY DEF IInv, KnownIsApplied, KnownIsPast
    <2>2. x \in Rows /\ x.counter \in Nat /\ x # NoRow
      BY <1>1
    <2>3. CASE /\ ~IsLive(object) /\ IsLive(r.body)
               /\ CreatorOf(r.body) = r.id /\ WrittenBy(r.body) = r.id /\ ~IsDelete(r)
      <3>1. CreatorOf(x) # CreatorOf(r.body)
        BY <1>2, <2>1, <2>3
      <3>2. x.incarnation # r.body.incarnation
        BY <3>1 DEF CreatorOf
      <3> QED BY <1>4, <2>1, <3>2 DEF Past
    <2>4. CASE /\ IsLive(object) /\ r.body # NoRow /\ object # NoRow
               /\ r.body.incarnation = object.incarnation
               /\ r.body.counter = object.counter + 1
               /\ CreatorOf(r.body) = CreatorOf(object) /\ WrittenBy(r.body) = r.id
      <3>1. object.counter \in Nat
        BY <1>1, <2>4
      <3> QED BY <1>4, <2>1, <2>2, <2>4, <3>1 DEF Past
    <2>5. CASE r.body = NoRow /\ IsDelete(r)
      BY <1>4, <2>1, <2>5 DEF Past
    <2> QED BY <1>3, <2>3, <2>4, <2>5
  <1>7. r.body # NoRow => Applied(CreatorOf(r.body))' /\ Applied(WrittenBy(r.body))'
    <2>1. IsLive(object) => Applied(CreatorOf(object))
      BY KnownTypes DEF IInv, KnownIsApplied, IsLive
    <2> QED BY <1>3, <1>4, <1>5, <2>1
  <1>8. ASSUME NEW q \in Sent
        PROVE  /\ Spent(q) => Spent(q)'
               /\ q.id = r.id => Spent(q)'
               /\ Spent(q)' \/ \E u \in open : Permits(u, q)'
    <2>1. CASE IsLive(q.expect)
      BY <1>6, <2>1, KnownTypes DEF Spent, IInv
    <2>2. CASE ~IsLive(q.expect)
      <3>1. Spent(q) => IsLive(object) /\ CreatorOf(object) = q.id
        BY <2>2 DEF Spent
      <3>2. IsDelete(r) /\ IsLive(object) => q.id # CreatorOf(object)
        <4>1. CASE q \in inflight
          BY <4>1 DEF Over
        <4>2. CASE q \in {Request(p) : p \in {h \in Callers : call[h].pc = "wait"}}
          <5>1. PICK p \in Callers : call[p].pc = "wait" /\ q = Request(p)
            BY <4>2
          <5>2. q.id = CallId(p) /\ Active(p)
            BY <5>1 DEF Request, RequestOf, CallId, Active
          <5> QED BY <5>2 DEF Over
        <4> QED BY <4>1, <4>2 DEF Sent
      <3>3. Spent(q) => Spent(q)'
        BY <1>1, <1>3, <2>2, <3>1, <3>2 DEF Spent, IsDelete
      <3>4. CASE Spent(q)
        BY <3>3, <3>4
      <3>5. CASE ~Spent(q)
        <4>1. PICK u \in open : Permits(u, q)
          BY <3>5 DEF IInv, SentArePermitted
        <4>2. CASE q.id = r.id
          <5>1. u = o
            BY <4>1, <4>2 DEF IInv, OpenIsUnique, Permits
          <5>2. o.op = "create"
            BY <2>2, <4>1, <5>1 DEF Permits, IInv, TypeOK
          <5>3. ~IsLive(object)
            BY <5>2 DEF Permits
          <5> QED BY <1>3, <2>2, <3>5, <4>2, <5>3 DEF Spent, IsDelete
        <4>3. CASE q.id # r.id
          BY <3>5, <4>1, <4>3 DEF Permits
        <4> QED BY <4>2, <4>3
      <3> QED BY <3>4, <3>5
    <2> QED BY <2>1, <2>2
  <1>9. ASSUME NEW p \in Callers
        PROVE  /\ CallId(p) \in effects' => CreatedIsLive(p) /\ DeletedIsGone(p)
               /\ Active(p) /\ call[p].op = "delete" /\ IsLive(object')
                     => WrittenBy(object') # CallId(p)
    <2> SUFFICES ASSUME Active(p) PROVE
               /\ CallId(p) \in effects' => CreatedIsLive(p) /\ DeletedIsGone(p)
               /\ call[p].op = "delete" /\ IsLive(object') => WrittenBy(object') # CallId(p)
      BY DEF CreatedIsLive, DeletedIsGone
    <2>1. CallOf(p) \in open /\ CallShape(call[p])
      BY DEF IInv, CallsAreOpen
    <2>2. CASE CallId(p) = r.id
      <3>1. o = CallOf(p)
        BY <2>1, <2>2 DEF IInv, OpenIsUnique, Permits, CallOf
      <3>2. o.op = call[p].op /\ o.on = call[p].on
        BY <3>1 DEF CallOf
      <3>3. call[p].op = "create" => IsLive(object') /\ CreatorOf(object') = CallId(p)
        BY <1>3, <2>2, <3>2 DEF Permits, IsDelete
      <3>4. call[p].op = "delete" => ~IsLive(object')
        BY <3>2 DEF Permits
      <3> QED BY <3>3, <3>4 DEF CreatedIsLive, DeletedIsGone
    <2>3. CASE CallId(p) # r.id
      <3>1. WrittenBy(object') = r.id \/ ~IsLive(object')
        BY <1>3
      <3>2. ASSUME CallId(p) \in effects' PROVE CreatedIsLive(p)
        <4>1. CallId(p) \in effects
          BY <2>3, <3>2
        <4>2. SUFFICES ASSUME call[p].op = "create"
                       PROVE  IsLive(object') /\ CreatorOf(object') = CallId(p)
          BY DEF CreatedIsLive
        <4>3. IsLive(object) /\ CreatorOf(object) = CallId(p)
          BY <4>1, <4>2 DEF IInv, CreatedCalls
        <4>4. ~IsDelete(r)
          BY <4>3 DEF Over
        <4> QED BY <1>3, <4>3, <4>4 DEF IsDelete
      <3>3. ASSUME CallId(p) \in effects' PROVE DeletedIsGone(p)
        <4>1. SUFFICES ASSUME call[p].op = "delete", call[p].on # NoRow, IsLive(object')
                       PROVE  WrittenBy(object') # call[p].on
          BY DEF DeletedIsGone
        <4>2. Applied(call[p].on)
          BY <2>1, <4>1 DEF CallShape
        <4>3. ~IsDelete(r)
          BY <4>1 DEF IsDelete
        <4> QED BY <1>2, <3>1, <4>1, <4>2, <4>3
      <3> QED BY <2>3, <3>1, <3>2, <3>3
    <2> QED BY <2>2, <2>3
  <1>10. \A x \in (Known \union {object'}) \ {NoRow} :
           /\ Applied(CreatorOf(x))' /\ Applied(WrittenBy(x))'
           /\ x = object' \/ Past(x)'
    BY <1>6, <1>7
  <1> QED BY <1>1, <1>8, <1>9, <1>10 DEF ObjectMoves

(* A delete that finds no row to delete leaves none of its requests to     *)
(* be accepted.                                                            *)
LEMMA NothingToDelete ==
    ASSUME IInv, NEW p \in Callers, Active(p), call[p].op = "delete", call[p].on = NoRow,
           ~IsLive(object), object' = object, effects' = effects \union {CallId(p)}
    PROVE  ObjectMoves /\ \A q \in Sent : q.id = CallId(p) => Spent(q)'
  <1> USE RowTypes
  <1>1. object' \in Rows \union {NoRow} /\ effects \subseteq effects'
    BY DEF IInv, TypeOK
  <1>2. \A x \in (Known \union {object'}) \ {NoRow} :
          /\ Applied(CreatorOf(x))' /\ Applied(WrittenBy(x))'
          /\ x = object' \/ Past(x)'
    BY KnownTypes DEF IInv, KnownIsApplied, KnownIsPast, Applied, Past
  <1>3. \A q : Spent(q) <=> Spent(q)'
    BY DEF Spent, Past
  <1>4. ASSUME NEW q \in Sent
        PROVE  /\ q.id = CallId(p) => Spent(q)
               /\ Spent(q) \/ \E o \in open : Permits(o, q)'
    <2>1. ASSUME ~Spent(q) PROVE q.id # CallId(p) /\ \E o \in open : Permits(o, q)'
      <3>1. PICK o \in open : Permits(o, q)
        BY <2>1 DEF IInv, SentArePermitted
      <3>2. CASE q.id = CallId(p)
        <4>1. o = CallOf(p)
          BY <3>1, <3>2 DEF IInv, CallsAreOpen, OpenIsUnique, CallOf, Permits
        <4>2. IsLive(q.expect)
          BY <3>1, <4>1 DEF Permits, CallOf
        <4>3. q.expect \in Known /\ q.expect # object
          BY <4>2, KnownTypes DEF IInv
        <4> QED BY <2>1, <4>2, <4>3 DEF IInv, KnownIsPast, Spent
      <3>3. CASE q.id # CallId(p)
        BY <3>1, <3>3 DEF Permits
      <3> QED BY <3>2, <3>3
    <2> QED BY <2>1
  <1>5. ASSUME NEW q \in Callers
        PROVE  /\ CallId(q) \in effects' => CreatedIsLive(q) /\ DeletedIsGone(q)
               /\ Active(q) /\ call[q].op = "delete" /\ IsLive(object')
                     => WrittenBy(object') # CallId(q)
    <2>1. CallId(q) = CallId(p) => q = p
      BY DEF CallId
    <2> QED BY <2>1 DEF IInv, CreatedCalls, DeletedCalls, DeletesWriteNoRow, CreatedIsLive,
                        DeletedIsGone
  <1> QED BY <1>1, <1>2, <1>3, <1>4, <1>5 DEF ObjectMoves

-----------------------------------------------------------------------------
(* What a step does to the requests that may reach the store: it adds the  *)
(* ones in new, each onto what is known.                                   *)
RequestFits(r) ==
    /\ WellMade(r)
    /\ r.expect # NoRow => r.expect \in Known
    /\ IsDelete(r) => Over(CreatorOf(r.expect))

CallsFollow ==
    /\ \A r \in inflight' : r \in inflight \/ \E q \in Callers : Active(q) /\ r.id = CallId(q)
    /\ \A q \in Callers :
          Active(q)' => (Active(q) /\ CallId(q)' = CallId(q)) \/ ~(Applied(CallId(q)'))

LEMMA RequestsFollow ==
    ASSUME IInv, ObjectMoves, CallsFollow, NEW new, Sent' \subseteq Sent \union new,
           \A r \in new : RequestFits(r),
           \A r \in Sent' : Spent(r)' \/ \E o \in open' : Permits(o, r)',
           \A p \in Callers : view'[p] # NoRow => view'[p] \in Known \union {object'}
    PROVE  /\ KnownIsApplied' /\ KnownIsPast'
           /\ SentAreWellMade' /\ SentArePermitted' /\ DeletesComeLate'
  <1> USE RowTypes
  <1>1. Known' \subseteq (Known \union {object'}) \ {NoRow}
    <2>1. \A r \in Sent' : r.expect # NoRow => r.expect \in Known
      BY DEF RequestFits, Known
    <2> QED BY <2>1 DEF Known
  <1>2. KnownIsApplied' /\ KnownIsPast'
    BY <1>1 DEF ObjectMoves, KnownIsApplied, KnownIsPast
  <1>3. SentAreWellMade'
    BY DEF IInv, SentAreWellMade, RequestFits
  <1>4. ASSUME NEW r \in Sent', IsDelete(r)
        PROVE  Over(CreatorOf(r.expect))'
    <2>1. Over(CreatorOf(r.expect))
      BY <1>4 DEF RequestFits, IInv, DeletesComeLate
    <2>2. r.expect \in Known
      BY <1>4 DEF RequestFits, Known, IsDelete
    <2>3. Applied(CreatorOf(r.expect))
      BY <2>2 DEF IInv, KnownIsApplied
    <2> QED BY <2>1, <2>3 DEF Over, CallsFollow
  <1> QED BY <1>2, <1>3, <1>4 DEF SentArePermitted, DeletesComeLate

LEMMA NoNewRequest ==
    ASSUME IInv, ObjectMoves, CallsFollow, Sent' \subseteq Sent,
           \A r \in Sent' : Spent(r)' \/ \E o \in open' : Permits(o, r)',
           \A p \in Callers : view'[p] # NoRow => view'[p] \in Known \union {object'}
    PROVE  /\ KnownIsApplied' /\ KnownIsPast'
           /\ SentAreWellMade' /\ SentArePermitted' /\ DeletesComeLate'
  <1> DEFINE new == {r \in Sent : FALSE}
  <1>1. Sent' \subseteq Sent \union new /\ \A r \in new : RequestFits(r)
    OBVIOUS
  <1> HIDE DEF new
  <1> QED BY <1>1, RequestsFollow

-----------------------------------------------------------------------------
(* What a step does to the calls: the call of p goes on as c, or returns,  *)
(* and the others stay.                                                    *)
Stays(q) == call'[q] = call[q] /\ CallId(q)' = CallId(q) /\ CallOf(q)' = CallOf(q)

LEMMA OtherCallsStay ==
    ASSUME IInv, ObjectMoves, NEW p \in Callers, store' = store,
           \A q \in Callers \ {p} : call'[q] = call[q],
           \A q \in Callers \ {p} : CallOf(q) \in open => CallOf(q) \in open',
           effects' \subseteq effects \union {CallId(p)},
           \A r \in inflight' : r \in inflight \/ r.id = CallId(p),
           inflight' \subseteq Sent,
           NEW q \in Callers \ {p}
    PROVE  /\ Active(q)' => CallOf(q)' \in open' /\ CallShape(call[q])'
           /\ Active(q)' /\ MustBeClean(q)' => IsClean(q)'
           /\ Active(q)' /\ call'[q].copy = "landed" =>
                 /\ CallId(q)' \in effects'
                 /\ \A r \in inflight' : r.id = CallId(q)' => Spent(r)'
  <1>1. Stays(q) /\ Active(q)' = Active(q) /\ MustBeClean(q)' = MustBeClean(q)
    BY DEF Stays, CallId, CallOf, Active, MustBeClean
  <1>2. CallId(q) # CallId(p)
    BY DEF CallId
  <1>3. effects \subseteq effects' /\ \A r \in Sent : Spent(r) => Spent(r)'
    BY DEF ObjectMoves
  <1>4. ASSUME Active(q) PROVE CallOf(q) \in open' /\ CallShape(call[q])'
    <2>1. CallShape(call[q]) /\ CallOf(q) \in open
      BY <1>4 DEF IInv, CallsAreOpen
    <2> QED BY <1>1, <1>3, <2>1 DEF CallShape, Stays, Applied
  <1>5. ASSUME Active(q), MustBeClean(q) PROVE IsClean(q)'
    BY <1>1, <1>2, <1>5 DEF IInv, CleanCalls, IsClean, Stays
  <1>6. ASSUME Active(q), call[q].copy = "landed"
        PROVE  /\ CallId(q) \in effects'
               /\ \A r \in inflight' : r.id = CallId(q) => Spent(r)'
    BY <1>2, <1>3, <1>6 DEF IInv, LandedCalls
  <1> QED BY <1>1, <1>4, <1>5, <1>6 DEF Stays

(* The call of p goes on.                                                  *)
GoesOn(p, c) ==
    /\ Active(p) /\ c \in CallStates /\ c.pc # "idle"
    /\ c.n = call[p].n /\ c.op = call[p].op /\ c.on = call[p].on
    /\ call' = [call EXCEPT ![p] = c]
    /\ UNCHANGED <<store, view, open>>

LEMMA GoingOn ==
    ASSUME IInv, ObjectMoves, NEW p \in Callers, NEW c, GoesOn(p, c), NEW mine, mine = RequestOf(p, c),
           effects' \subseteq effects \union {CallId(p)},
           inflight' \subseteq inflight \union IF call[p].pc = "wait" THEN {Request(p)} ELSE {},
           CallShape(c),
           c.pc = "wait" => \/ mine \in Sent
                            \/ /\ RequestFits(mine)
                               /\ Spent(mine)' \/ \E o \in open : Permits(o, mine)',
           /\ c.copy # "landed"
           /\ c.attempt = 0 \/ (c.op # "delete" /\ ~store.resendsWrites)
           => MustBeClean(p) /\ inflight' \subseteq inflight /\ effects' = effects,
           c.copy = "landed" =>
               CallId(p) \in effects' /\ \A r \in Sent : r.id = CallId(p) => Spent(r)'
    PROVE  IInv'
  <1> USE RowTypes
  <1>0. DOMAIN call = Callers /\ call'[p] = c /\ \A q \in Callers \ {p} : call'[q] = call[q]
    BY DEF GoesOn, IInv, TypeOK
  <1>1. /\ CallId(p)' = CallId(p) /\ CallOf(p)' = CallOf(p)
        /\ \A q \in Callers : CallId(q)' = CallId(q) /\ Active(q)' = Active(q)
    BY <1>0 DEF GoesOn, CallId, CallOf, Active
  <1>2. \A q \in Callers : Request(q)' = IF q = p THEN mine ELSE Request(q)
    BY <1>0, <1>1 DEF GoesOn, Request, RequestOf, Removes, WriteOf
  <1>3. inflight' \subseteq Sent /\ \A r \in inflight' : r \in inflight \/ r.id = CallId(p)
    BY DEF Sent, Request, RequestOf, CallId
  <1>4. Sent' \subseteq Sent \union {r \in {mine} : c.pc = "wait"}
    BY <1>0, <1>2, <1>3 DEF Sent
  <1>5. TypeOK'
    <2>1. Request(p) \in Requests \/ call[p].pc # "wait"
      BY RequestIsMade DEF IInv, CallsAreOpen, CallShape, Active, TypeOK, Request
    <2>2. inflight' \in SUBSET Requests
      BY <2>1 DEF IInv, TypeOK
    <2>3. effects' \in SUBSET Ids
      BY DEF IInv, TypeOK, CallId, Ids, CallStates
    <2>4. call' \in [Callers -> CallStates]
      BY DEF GoesOn, IInv, TypeOK
    <2> QED BY <2>2, <2>3, <2>4 DEF GoesOn, IInv, TypeOK, ObjectMoves
  <1>6. IdsAreMade' /\ OpenIsUnique'
    <2>1. Made(CallId(p))
      BY DEF Made, CallId, IInv, TypeOK, CallStates
    <2>2. \A id : Made(id) => Made(id)'
      BY <1>0 DEF Made, GoesOn
    <2> QED BY <1>3, <2>1, <2>2 DEF IInv, IdsAreMade, OpenIsUnique, GoesOn
  <1>7. CallsFollow
    BY <1>1, <1>3 DEF CallsFollow, GoesOn
  <1>8. \A r \in Sent' : Spent(r)' \/ \E o \in open' : Permits(o, r)'
    <2>1. open' = open
      BY DEF GoesOn
    <2>2. \A r \in Sent : Spent(r)' \/ \E o \in open : Permits(o, r)'
      BY DEF ObjectMoves
    <2>3. c.pc = "wait" => Spent(mine)' \/ \E o \in open : Permits(o, mine)'
      BY <2>2
    <2> QED BY <1>4, <2>1, <2>2, <2>3
  <1>9. /\ KnownIsApplied' /\ KnownIsPast'
        /\ SentAreWellMade' /\ SentArePermitted' /\ DeletesComeLate'
    <2> DEFINE new == {r \in {mine} : c.pc = "wait" /\ mine \notin Sent}
    <2>1. Sent' \subseteq Sent \union new /\ \A r \in new : RequestFits(r)
      BY <1>4
    <2>2. \A q \in Callers : view'[q] # NoRow => view'[q] \in Known \union {object'}
      BY DEF GoesOn, Known
    <2> HIDE DEF new
    <2> QED BY <1>7, <1>8, <2>1, <2>2, RequestsFollow
  <1>10. ViewsAreLive'
    BY DEF GoesOn, IInv, ViewsAreLive
  <1>11. ASSUME NEW q \in Callers
         PROVE  /\ Active(q)' => CallOf(q)' \in open' /\ CallShape(call[q])'
                /\ Active(q)' /\ MustBeClean(q)' => IsClean(q)'
                /\ Active(q)' /\ call'[q].copy = "landed" =>
                      /\ CallId(q)' \in effects'
                      /\ \A r \in inflight' : r.id = CallId(q)' => Spent(r)'
    <2>1. CASE q # p
      BY <1>0, <1>3, <2>1, OtherCallsStay DEF GoesOn
    <2>2. CASE q = p
      <3>1. CallOf(p)' \in open'
        BY <1>1 DEF GoesOn, IInv, CallsAreOpen
      <3>2. CallShape(call[p])'
        BY <1>0 DEF CallShape, Applied, ObjectMoves, GoesOn
      <3>3. MustBeClean(p)' => IsClean(p)'
        BY <1>0, <1>1 DEF MustBeClean, IsClean, GoesOn, IInv, CleanCalls
      <3>4. call'[p].copy = "landed" =>
                      /\ CallId(p)' \in effects'
                      /\ \A r \in inflight' : r.id = CallId(p)' => Spent(r)'
        BY <1>0, <1>1, <1>3
      <3> QED BY <2>2, <3>1, <3>2, <3>3, <3>4
    <2> QED BY <2>1, <2>2
  <1>12. CallsAreOpen' /\ CleanCalls' /\ LandedCalls'
    BY <1>11 DEF CallsAreOpen, CleanCalls, LandedCalls
  <1>13. CreatedCalls' /\ DeletedCalls' /\ DeletesWriteNoRow'
    <2>1. \A q \in Callers : call'[q].op = call[q].op /\ call'[q].on = call[q].on
      BY <1>0 DEF GoesOn
    <2> QED BY <1>1, <2>1
         DEF ObjectMoves, CreatedCalls, DeletedCalls, DeletesWriteNoRow, CreatedIsLive, DeletedIsGone
  <1> QED BY <1>5, <1>6, <1>9, <1>10, <1>12, <1>13 DEF IInv

(* The call of p returns, and is closed when its outcome is final.         *)
Returns(p) ==
    /\ Active(p)
    /\ call' = [call EXCEPT ![p] = [Idle EXCEPT !.n = call[p].n]]
    /\ view' = [view EXCEPT ![p] = NoRow]
    /\ store' = store

Closes(p) == open' = {o \in open : o.id # CallId(p)}

LEMMA Returning ==
    ASSUME IInv, ObjectMoves, NEW p \in Callers, Returns(p),
           effects' \subseteq effects \union {CallId(p)},
           inflight' \subseteq inflight \union IF call[p].pc = "wait" THEN {Request(p)} ELSE {},
           \/ open' = open
           \/ Closes(p) /\ \A r \in inflight' : r.id = CallId(p) => Spent(r)'
    PROVE  IInv'
  <1> USE RowTypes
  <1> DEFINE idle == [Idle EXCEPT !.n = call[p].n]
  <1>0. /\ DOMAIN call = Callers /\ call'[p] = idle
        /\ \A q \in Callers \ {p} : call'[q] = call[q]
        /\ idle.n = call[p].n /\ idle.pc = "idle"
    BY DEF Returns, IInv, TypeOK, Idle
  <1>1. \A q \in Callers : /\ CallId(q)' = CallId(q)
                           /\ q # p => Active(q)' = Active(q) /\ CallOf(q)' = CallOf(q)
    BY <1>0 DEF CallId, CallOf, Active
  <1>2. ~Active(p)'
    BY <1>0 DEF Active
  <1>3. inflight' \subseteq Sent /\ \A r \in inflight' : r \in inflight \/ r.id = CallId(p)
    BY DEF Sent, Request, RequestOf, CallId
  <1>4. ASSUME NEW r \in Sent'
        PROVE  r \in Sent /\ (r \in inflight' \/ r.id # CallId(p))
    <2>1. CASE r \in inflight'
      BY <1>3, <2>1
    <2>2. CASE r \notin inflight'
      <3>1. PICK q \in Callers : call'[q].pc = "wait" /\ r = Request(q)'
        BY <2>2 DEF Sent
      <3>2. q # p /\ call'[q] = call[q]
        BY <1>0, <3>1
      <3>3. r = Request(q)
        BY <1>1, <3>1, <3>2 DEF Returns, Request, RequestOf, Removes, WriteOf
      <3>4. r.id = CallId(q) /\ CallId(q) # CallId(p)
        BY <3>2, <3>3 DEF Request, RequestOf, CallId
      <3> QED BY <3>1, <3>2, <3>3, <3>4 DEF Sent
    <2> QED BY <2>1, <2>2
  <1>5. TypeOK'
    <2>1. Request(p) \in Requests \/ call[p].pc # "wait"
      BY RequestIsMade DEF IInv, CallsAreOpen, CallShape, Active, TypeOK, Request
    <2>2. inflight' \in SUBSET Requests
      BY <2>1 DEF IInv, TypeOK
    <2>3. effects' \in SUBSET Ids
      BY DEF IInv, TypeOK, CallId, Ids, CallStates
    <2>4. idle \in CallStates
      BY DEF IInv, TypeOK, CallStates, Idle
    <2>5. call' \in [Callers -> CallStates] /\ view' \in [Callers -> Rows \union {NoRow}]
      BY <2>4 DEF Returns, IInv, TypeOK
    <2> QED BY <2>2, <2>3, <2>5 DEF Returns, Closes, IInv, TypeOK, ObjectMoves
  <1>6. IdsAreMade' /\ OpenIsUnique'
    <2>1. Made(CallId(p))
      BY DEF Made, CallId, IInv, TypeOK, CallStates
    <2>2. \A id : Made(id) => Made(id)'
      BY <1>0 DEF Made
    <2> QED BY <1>3, <2>1, <2>2 DEF IInv, IdsAreMade, OpenIsUnique, Closes
  <1>7. CallsFollow
    BY <1>1, <1>2, <1>3 DEF CallsFollow, Returns
  <1>8. \A r \in Sent' : Spent(r)' \/ \E o \in open' : Permits(o, r)'
    <2>1. ASSUME NEW r \in Sent', ~(Spent(r)')
          PROVE  \E o \in open' : Permits(o, r)'
      <3>1. PICK o \in open : Permits(o, r)'
        BY <1>4, <2>1 DEF ObjectMoves
      <3>2. CASE open' = open
        BY <3>1, <3>2
      <3>3. CASE Closes(p) /\ \A q \in inflight' : q.id = CallId(p) => Spent(q)'
        <4>1. r.id # CallId(p)
          BY <1>4, <2>1, <3>3
        <4>2. o.id = r.id
          BY <3>1 DEF Permits
        <4> QED BY <3>1, <3>3, <4>1, <4>2 DEF Closes
      <3> QED BY <3>2, <3>3
    <2> QED BY <2>1
  <1>9. \A q \in Callers : view'[q] # NoRow => view'[q] \in Known \union {object'}
    BY DEF Returns, Known, IInv, TypeOK
  <1>10. /\ KnownIsApplied' /\ KnownIsPast'
         /\ SentAreWellMade' /\ SentArePermitted' /\ DeletesComeLate'
    BY <1>4, <1>7, <1>8, <1>9, NoNewRequest
  <1>11. ViewsAreLive'
    BY DEF Returns, IInv, ViewsAreLive, TypeOK
  <1>12. ASSUME NEW q \in Callers
         PROVE  /\ Active(q)' => CallOf(q)' \in open' /\ CallShape(call[q])'
                /\ Active(q)' /\ MustBeClean(q)' => IsClean(q)'
                /\ Active(q)' /\ call'[q].copy = "landed" =>
                      /\ CallId(q)' \in effects'
                      /\ \A r \in inflight' : r.id = CallId(q)' => Spent(r)'
    <2>1. CASE q # p
      <3>1. \A h \in Callers \ {p} : CallOf(h) \in open => CallOf(h) \in open'
        <4>1. \A h \in Callers \ {p} : CallOf(h).id # CallId(p)
          BY DEF CallOf, CallId
        <4> QED BY <4>1 DEF Closes
      <3> QED BY <1>0, <1>3, <2>1, <3>1, OtherCallsStay DEF Returns
    <2>2. CASE q = p
      BY <1>2, <2>2
    <2> QED BY <2>1, <2>2
  <1>13. CallsAreOpen' /\ CleanCalls' /\ LandedCalls'
    BY <1>12 DEF CallsAreOpen, CleanCalls, LandedCalls
  <1>14. CreatedCalls' /\ DeletedCalls' /\ DeletesWriteNoRow'
    BY <1>0, <1>1, <1>2
       DEF ObjectMoves, CreatedCalls, DeletedCalls, DeletesWriteNoRow, CreatedIsLive, DeletedIsGone
  <1> QED BY <1>5, <1>6, <1>10, <1>11, <1>13, <1>14 DEF IInv

-----------------------------------------------------------------------------
(* The steps of no call, and the first step of one.                        *)

LEMMA SpentIsRefused ==
    ASSUME TypeOK, NEW r \in Sent, Spent(r)
    PROVE  ~Accepts(r)
  <1>1. CASE IsLive(r.expect)
    <2>1. r.expect \in Rows /\ r.expect.counter \in Nat /\ Past(r.expect)
      BY <1>1, KnownTypes, RowTypes DEF Spent
    <2> QED BY <2>1, RowTypes DEF Past, Accepts
  <1>2. CASE ~IsLive(r.expect)
    BY <1>2 DEF Spent, Accepts
  <1> QED BY <1>1, <1>2

(* An accepted request is one an open call permits.                        *)
LEMMA AcceptedLands ==
    ASSUME IInv, NEW r \in Sent, Accepts(r), Land(r)
    PROVE  /\ \E o \in open : Permits(o, r)
           /\ ObjectMoves /\ \A q \in Sent : q.id = r.id => Spent(q)'
  <1>1. r \in Requests
    <2>1. CASE r \in inflight
      BY <2>1 DEF IInv, TypeOK
    <2>2. CASE r \in {Request(p) : p \in {h \in Callers : call[h].pc = "wait"}}
      <3>1. PICK p \in Callers : call[p].pc = "wait" /\ r = Request(p)
        BY <2>2
      <3> QED BY <3>1, RequestIsMade DEF IInv, CallsAreOpen, CallShape, Active, TypeOK, Request
    <2> QED BY <2>1, <2>2 DEF Sent
  <1>2. WellMade(r) /\ (IsDelete(r) => Over(CreatorOf(object)))
    BY DEF IInv, SentAreWellMade, DeletesComeLate, Accepts
  <1>3. PICK o \in open : Permits(o, r)
    BY SpentIsRefused DEF IInv, SentArePermitted
  <1> QED BY <1>1, <1>2, <1>3, Landing DEF Land, Effect, Accepts

LEMMA LandingLate ==
    ASSUME IInv, LandsLate
    PROVE  ObjectMoves /\ IInv'
  <1> USE RowTypes
  <1>1. PICK req \in inflight :
          /\ inflight' = inflight \ {req}
          /\ IF Accepts(req) THEN Land(req) ELSE UNCHANGED <<object, effects>>
          /\ UNCHANGED <<store, view, call, open>>
    BY DEF LandsLate
  <1>2. req \in Sent /\ req.id \in Ids
    BY DEF Sent, IInv, TypeOK, Requests
  <1>3. ObjectMoves
    BY <1>1, <1>2, AcceptedLands, StillObject
  <1>4. effects' \subseteq effects \union {req.id}
    BY <1>1 DEF Land, Effect
  <1>5. \A q \in Callers : /\ CallId(q)' = CallId(q) /\ Active(q)' = Active(q)
                           /\ CallOf(q)' = CallOf(q) /\ Request(q)' = Request(q)
                           /\ MustBeClean(q)' = MustBeClean(q)
    BY <1>1 DEF CallId, Active, CallOf, Request, RequestOf, Removes, WriteOf, MustBeClean
  <1>6. Sent' \subseteq Sent
    BY <1>1, <1>5 DEF Sent
  <1>7. TypeOK'
    BY <1>1, <1>2, <1>3, <1>4 DEF IInv, TypeOK, ObjectMoves
  <1>8. IdsAreMade' /\ OpenIsUnique' /\ ViewsAreLive'
    BY <1>1, <1>4 DEF IInv, IdsAreMade, OpenIsUnique, ViewsAreLive, Made
  <1>9. CallsFollow
    BY <1>1, <1>5 DEF CallsFollow
  <1>10. \A r \in Sent' : Spent(r)' \/ \E o \in open' : Permits(o, r)'
    BY <1>1, <1>3, <1>6 DEF ObjectMoves
  <1>11. \A q \in Callers : view'[q] # NoRow => view'[q] \in Known \union {object'}
    BY <1>1 DEF Known
  <1>12. /\ KnownIsApplied' /\ KnownIsPast'
         /\ SentAreWellMade' /\ SentArePermitted' /\ DeletesComeLate'
    BY <1>3, <1>6, <1>9, <1>10, <1>11, NoNewRequest
  <1>13. CallsAreOpen'
    BY <1>1, <1>3, <1>5 DEF IInv, CallsAreOpen, CallShape, Applied, ObjectMoves
  <1>14. CleanCalls'
    BY <1>1, <1>4, <1>5 DEF IInv, CleanCalls, IsClean
  <1>15. LandedCalls'
    BY <1>1, <1>3, <1>5 DEF IInv, LandedCalls, ObjectMoves, Sent
  <1>16. CreatedCalls' /\ DeletedCalls' /\ DeletesWriteNoRow'
    BY <1>1, <1>3, <1>5
       DEF ObjectMoves, CreatedCalls, DeletedCalls, DeletesWriteNoRow, CreatedIsLive, DeletedIsGone
  <1> QED BY <1>3, <1>7, <1>8, <1>12, <1>13, <1>14, <1>15, <1>16 DEF IInv

LEMMA Getting ==
    ASSUME IInv, NEW p \in Callers, Get(p)
    PROVE  IInv'
  <1> USE RowTypes
  <1>1. /\ view' = [view EXCEPT ![p] = IF IsLive(object) THEN object ELSE NoRow]
        /\ UNCHANGED <<store, object, inflight, call, open, effects>>
    BY DEF Get
  <1>2. ObjectMoves
    BY <1>1, StillObject
  <1>3. \A q \in Callers : /\ CallId(q)' = CallId(q) /\ Active(q)' = Active(q)
                           /\ CallOf(q)' = CallOf(q) /\ Request(q)' = Request(q)
                           /\ MustBeClean(q)' = MustBeClean(q)
    BY <1>1 DEF CallId, Active, CallOf, Request, RequestOf, Removes, WriteOf, MustBeClean
  <1>4. Sent' \subseteq Sent
    BY <1>1, <1>3 DEF Sent
  <1>5. TypeOK'
    BY <1>1 DEF IInv, TypeOK
  <1>6. IdsAreMade' /\ OpenIsUnique'
    BY <1>1 DEF IInv, IdsAreMade, OpenIsUnique, Made
  <1>7. ViewsAreLive'
    BY <1>1 DEF IInv, TypeOK, ViewsAreLive
  <1>8. CallsFollow
    BY <1>1, <1>3 DEF CallsFollow
  <1>9. \A r \in Sent' : Spent(r)' \/ \E o \in open' : Permits(o, r)'
    BY <1>1, <1>2, <1>4 DEF ObjectMoves
  <1>10. \A q \in Callers : view'[q] # NoRow => view'[q] \in Known \union {object'}
    BY <1>1 DEF Known, IInv, TypeOK
  <1>11. /\ KnownIsApplied' /\ KnownIsPast'
         /\ SentAreWellMade' /\ SentArePermitted' /\ DeletesComeLate'
    BY <1>2, <1>4, <1>8, <1>9, <1>10, NoNewRequest
  <1>12. CallsAreOpen' /\ CleanCalls'
    BY <1>1, <1>3 DEF IInv, CallsAreOpen, CallShape, Applied, CleanCalls, IsClean
  <1>13. LandedCalls'
    BY <1>1, <1>2, <1>3 DEF IInv, LandedCalls, ObjectMoves, Sent
  <1>14. CreatedCalls' /\ DeletedCalls' /\ DeletesWriteNoRow'
    BY <1>1, <1>2, <1>3
       DEF ObjectMoves, CreatedCalls, DeletedCalls, DeletesWriteNoRow, CreatedIsLive, DeletedIsGone
  <1> QED BY <1>5, <1>6, <1>7, <1>11, <1>12, <1>13, <1>14 DEF IInv

LEMMA SendingIsMade ==
    ASSUME NEW c \in CallStates, NEW seen \in Rows \union {NoRow}
    PROVE  LET d == Sending(c, seen)
           IN  /\ d \in CallStates /\ d.n = c.n /\ d.pc = "wait" /\ d.op = c.op /\ d.on = c.on
               /\ d.hinted = c.hinted /\ d.seen = seen /\ d.lost = c.lost
               /\ d.attempt = c.attempt + 1 /\ d.copy = "flying"
  <1>1. c.attempt + 1 \in Nat
    BY DEF CallStates
  <1>2. Sending(c, seen) \in CallStates
    BY <1>1 DEF Sending, CallStates
  <1>3. LET d == Sending(c, seen)
        IN  /\ d.n = c.n /\ d.pc = "wait" /\ d.op = c.op /\ d.on = c.on
            /\ d.hinted = c.hinted /\ d.seen = seen /\ d.lost = c.lost
            /\ d.attempt = c.attempt + 1 /\ d.copy = "flying"
    BY DEF Sending, CallStates
  <1> QED BY <1>2, <1>3

(* What a call that is made may be.                                        *)
MayInvoke(p, op, on, hinted) ==
    /\ op \in {"create", "swap", "delete"} /\ hinted \in BOOLEAN
    /\ op = "create" => on = NoRow /\ (hinted => view[p] = NoRow)
    /\ op = "swap" => on # NoRow
    /\ op = "delete" => ~hinted
    /\ on # NoRow => view[p] # NoRow /\ on = WrittenBy(view[p])

(* The call a process makes next.                                          *)
NextCall(p, op, on) == [id |-> <<p, call[p].n + 1>>, op |-> op, on |-> on]

LEMMA Invoking ==
    ASSUME IInv, NEW p \in Callers, NEW op, NEW on, NEW hinted,
           MayInvoke(p, op, on, hinted), Invoke(p, op, on, hinted)
    PROVE  /\ IInv' /\ NextCall(p, op, on).id \in Callers \X Nat /\ on \in Ids \union {NoRow}
           /\ \A o \in open : o.id # NextCall(p, op, on).id
           /\ NextCall(p, op, on).id \notin effects
           /\ open' = open \union {NextCall(p, op, on)}
  <1> USE RowTypes
  <1> PICK new : new = NextCall(p, op, on)
    OBVIOUS
  <1>0. /\ call[p] \in CallStates /\ call[p].n \in Nat /\ DOMAIN call = Callers
        /\ p # Earlier /\ ~Active(p)
        /\ view[p] \in Rows \union {NoRow}
    BY ObjectRegistryAssumption DEF IInv, TypeOK, CallStates, Invoke, Active
  <1>1. PICK d :
          /\ call' = [call EXCEPT ![p] = d]
          /\ d \in CallStates /\ d.n = call[p].n + 1 /\ d.pc # "idle" /\ d.op = op /\ d.on = on
          /\ d.lost = "none" /\ d.copy # "landed" /\ d.attempt \in {0, 1}
          /\ d.pc = "wait" => hinted /\ d.seen = view[p] /\ d.attempt = 1 /\ d.copy = "flying"
          /\ d.pc # "wait" => d.copy = "none" /\ d.attempt = 0 /\ d.pc \in {"locked", "read"}
    <2> DEFINE c == [Idle EXCEPT !.n = call[p].n + 1, !.op = op, !.on = on, !.hinted = hinted]
    <2>1. on \in Ids \union {NoRow}
      BY <1>0 DEF MayInvoke
    <2>2. /\ c \in CallStates /\ c.n = call[p].n + 1 /\ c.op = op /\ c.on = on
          /\ c.lost = "none" /\ c.copy = "none" /\ c.attempt = 0
      <3>1. Idle \in CallStates /\ Idle.lost = "none" /\ Idle.copy = "none" /\ Idle.attempt = 0
        BY DEF Idle, CallStates
      <3>2. call[p].n + 1 \in Nat /\ op \in {"create", "swap", "delete"} /\ hinted \in BOOLEAN
        BY <1>0 DEF MayInvoke
      <3>3. c \in CallStates
        BY <2>1, <3>1, <3>2 DEF CallStates
      <3> QED BY <3>1, <3>3 DEF CallStates
    <2>3. call' = [call EXCEPT ![p] = IF store.local THEN [c EXCEPT !.pc = "locked"]
                                      ELSE IF hinted THEN Sending(c, view[p])
                                      ELSE [c EXCEPT !.pc = "read"]]
      BY DEF Invoke
    <2> HIDE DEF c
    <2>4. CASE store.local
      <3> DEFINE d == [c EXCEPT !.pc = "locked"]
      <3>1. call' = [call EXCEPT ![p] = d]
        BY <2>3, <2>4
      <3>2. /\ d \in CallStates /\ d.n = c.n /\ d.pc = "locked" /\ d.op = c.op /\ d.on = c.on
            /\ d.lost = c.lost /\ d.copy = c.copy /\ d.attempt = c.attempt
        BY <2>2 DEF CallStates
      <3> HIDE DEF d
      <3> QED BY <2>2, <3>1, <3>2
    <2>5. CASE ~store.local /\ hinted
      <3> DEFINE d == Sending(c, view[p])
      <3>1. call' = [call EXCEPT ![p] = d]
        BY <2>3, <2>5
      <3>2. /\ d \in CallStates /\ d.n = c.n /\ d.pc = "wait" /\ d.op = c.op /\ d.on = c.on
            /\ d.seen = view[p] /\ d.lost = c.lost /\ d.attempt = c.attempt + 1
            /\ d.copy = "flying"
        BY <1>0, <2>2, SendingIsMade
      <3> HIDE DEF d
      <3>3. /\ d.n = call[p].n + 1 /\ d.op = op /\ d.on = on /\ d.lost = "none"
            /\ d.attempt = 1
        BY <2>2, <3>2
      <3> WITNESS d
      <3> QED BY <2>5, <3>1, <3>2, <3>3
    <2>6. CASE ~store.local /\ ~hinted
      <3> DEFINE d == [c EXCEPT !.pc = "read"]
      <3>1. call' = [call EXCEPT ![p] = d]
        BY <2>3, <2>6
      <3>2. /\ d \in CallStates /\ d.n = c.n /\ d.pc = "read" /\ d.op = c.op /\ d.on = c.on
            /\ d.lost = c.lost /\ d.copy = c.copy /\ d.attempt = c.attempt
        BY <2>2 DEF CallStates
      <3> HIDE DEF d
      <3> QED BY <2>2, <3>1, <3>2
    <2> QED BY <2>4, <2>5, <2>6
  <1>2. /\ UNCHANGED <<store, object, inflight, view, effects>>
        /\ open' = open \union {new}
    BY DEF Invoke, NextCall
  <1>3. ObjectMoves
    BY <1>2, StillObject
  <1>4. new.id = <<p, call[p].n + 1>> /\ new.op = op /\ new.on = on
    BY DEF NextCall
  <1>5. /\ call'[p] = d /\ \A q \in Callers \ {p} : call'[q] = call[q]
        /\ CallId(p)' = new.id /\ CallOf(p)' = new /\ Active(p)'
    BY <1>0, <1>1 DEF CallId, CallOf, Active, NextCall
  <1>6. /\ ~Made(new.id) /\ new.id \notin effects /\ ~Applied(new.id) /\ new.id \in Ids
        /\ \A o \in open : o.id # new.id
        /\ \A r \in inflight : r.id # new.id
        /\ \A q \in Callers : CallId(q) # new.id
    <2>1. ~Made(new.id)
      BY <1>0 DEF Made, NextCall
    <2>2. new.id \in Ids /\ new.id[1] = p /\ \A q \in Callers : CallId(q) # new.id
      BY <1>0 DEF Ids, NextCall, CallId
    <2> QED BY <1>0, <2>1, <2>2 DEF IInv, IdsAreMade, Applied
  <1>7. on \in Ids \union {NoRow} /\ (on # NoRow => Applied(on))
    BY <1>0 DEF MayInvoke, IInv, KnownIsApplied, Known
  <1>8. \A q \in Callers \ {p} : Stays(q) /\ Active(q)' = Active(q)
                                 /\ Request(q)' = Request(q) /\ MustBeClean(q)' = MustBeClean(q)
    BY <1>2, <1>5 DEF Stays, CallId, CallOf, Active, Request, RequestOf, Removes, WriteOf,
                      MustBeClean
  <1>9. CallsFollow
    BY <1>2, <1>5, <1>6, <1>8 DEF CallsFollow, Stays
  <1>10. PICK mine : mine = RequestOf(p, d)
    OBVIOUS
  <1>11. Request(p)' = mine
    BY <1>2, <1>5, <1>10 DEF Request, RequestOf, Removes, WriteOf
  <1>12. Sent' \subseteq Sent \union {r \in {mine} : d.pc = "wait"}
    BY <1>2, <1>5, <1>8, <1>11 DEF Sent
  <1>13. ASSUME d.pc = "wait"
         PROVE  RequestFits(mine) /\ Permits(new, mine)'
    <2>1. op # "delete" /\ (op = "create" => d.seen = NoRow)
          /\ (op = "swap" => d.seen # NoRow /\ IsLive(d.seen) /\ WrittenBy(d.seen) = on)
      BY <1>1, <1>13 DEF MayInvoke, IInv, ViewsAreLive
    <2>2. /\ WellMade(mine) /\ ~IsDelete(mine) /\ mine.id = new.id /\ mine.expect = d.seen
          /\ IsLive(mine.body)
      BY <1>1, <1>4, <1>10, <2>1, RequestIsMade DEF MayInvoke
    <2>3. RequestFits(mine)
      BY <1>0, <1>1, <1>13, <2>2 DEF RequestFits, Known
    <2>4. Permits(new, mine)'
      BY <1>1, <1>2, <1>4, <1>6, <2>1, <2>2 DEF Permits, NextCall
    <2> QED BY <2>3, <2>4
  <1>14. \A r \in Sent' : Spent(r)' \/ \E o \in open' : Permits(o, r)'
    <2>1. \A r \in Sent : Spent(r)' \/ \E o \in open : Permits(o, r)'
      BY <1>3 DEF ObjectMoves
    <2> QED BY <1>2, <1>12, <1>13, <2>1
  <1>15. /\ KnownIsApplied' /\ KnownIsPast'
         /\ SentAreWellMade' /\ SentArePermitted' /\ DeletesComeLate'
    <2> DEFINE sent == {r \in {mine} : d.pc = "wait"}
    <2>1. \A q \in Callers : view'[q] # NoRow => view'[q] \in Known \union {object'}
      BY <1>2 DEF Known
    <2>2. \A r \in sent : RequestFits(r)
      BY <1>13
    <2>3. Sent' \subseteq Sent \union sent
      BY <1>12
    <2> HIDE DEF sent
    <2> QED BY <1>3, <1>9, <1>14, <2>1, <2>2, <2>3, RequestsFollow
  <1>16. TypeOK'
    <2>1. new \in [id : Ids, op : {"create", "swap", "delete"}, on : Ids \union {NoRow}]
      BY <1>6, <1>7 DEF NextCall, MayInvoke
    <2>2. call' \in [Callers -> CallStates]
      BY <1>1 DEF IInv, TypeOK
    <2> QED BY <1>2, <2>1, <2>2 DEF IInv, TypeOK
  <1>17. IdsAreMade'
    <2>1. Made(new.id)'
      BY <1>0, <1>1, <1>4, <1>5 DEF Made
    <2>2. \A id : Made(id) => Made(id)'
      BY <1>0, <1>1, <1>5 DEF Made, IInv, TypeOK, CallStates
    <2> QED BY <1>2, <2>1, <2>2 DEF IInv, IdsAreMade
  <1>18. OpenIsUnique' /\ ViewsAreLive'
    BY <1>2, <1>6 DEF IInv, OpenIsUnique, ViewsAreLive
  <1>19. ASSUME NEW q \in Callers
         PROVE  /\ Active(q)' => CallOf(q)' \in open' /\ CallShape(call[q])'
                /\ Active(q)' /\ MustBeClean(q)' => IsClean(q)'
                /\ Active(q)' /\ call'[q].copy = "landed" =>
                      /\ CallId(q)' \in effects'
                      /\ \A r \in inflight' : r.id = CallId(q)' => Spent(r)'
    <2>1. CASE q # p
      <3>1. /\ Active(q) => CallOf(q)' \in open' /\ CallShape(call[q])
            /\ Active(q) /\ MustBeClean(q) => IsClean(q)'
        BY <1>2, <1>8, <2>1 DEF IInv, CallsAreOpen, CleanCalls, IsClean, Stays
      <3>2. CallShape(call[q]) => CallShape(call[q])'
        BY <1>2, <1>8, <2>1 DEF CallShape, Applied, Stays
      <3>3. Active(q) /\ call[q].copy = "landed" =>
                      /\ CallId(q)' \in effects'
                      /\ \A r \in inflight' : r.id = CallId(q)' => Spent(r)'
        BY <1>2, <1>3, <1>8, <2>1 DEF IInv, LandedCalls, Stays, ObjectMoves, Sent
      <3> QED BY <1>5, <1>8, <2>1, <3>1, <3>2, <3>3
    <2>2. CASE q = p
      <3>1. CallOf(p)' \in open'
        BY <1>2, <1>5
      <3>2. CallShape(d)'
        <4>1. d.pc = "wait" => IF op = "create" THEN ~IsLive(d.seen)
                               ELSE IsLive(d.seen) /\ (on # NoRow => WrittenBy(d.seen) = on)
          BY <1>1 DEF MayInvoke, IInv, ViewsAreLive
        <4>2. on # NoRow => Applied(on)'
          BY <1>2, <1>7 DEF Applied
        <4> QED BY <1>0, <1>1, <4>1, <4>2 DEF CallShape, MayInvoke
      <3>3. IsClean(p)'
        BY <1>2, <1>5, <1>6 DEF IsClean
      <3> QED BY <1>1, <1>5, <2>2, <3>1, <3>2, <3>3
    <2> QED BY <2>1, <2>2
  <1>20. CallsAreOpen' /\ CleanCalls' /\ LandedCalls'
    BY <1>19 DEF CallsAreOpen, CleanCalls, LandedCalls
  <1>21. CreatedCalls' /\ DeletedCalls' /\ DeletesWriteNoRow'
    <2>1. CallId(p)' \notin effects'
      BY <1>2, <1>5, <1>6
    <2>2. object # NoRow => WrittenBy(object) # new.id
      BY <1>6 DEF IInv, KnownIsApplied, Known
    <2> QED BY <1>2, <1>5, <1>8, <2>1, <2>2
         DEF IInv, CreatedCalls, DeletedCalls, DeletesWriteNoRow, Stays, IsLive
  <1> QED BY <1>2, <1>4, <1>6, <1>7, <1>15, <1>16, <1>17, <1>18, <1>20, <1>21, <1>0
       DEF IInv, NextCall

-----------------------------------------------------------------------------
(* What a step means to the promise.                                       *)

LEMMA RowsBarred ==
    \A x \in Rows : [by |-> WrittenBy(x), patches |-> x.patches] # NoRow
  <1>1. \A x \in Rows :
          [by |-> WrittenBy(x), patches |-> x.patches] \in [by : Ids, patches : SUBSET Ids]
    BY RowTypes DEF Rows
  <1> QED BY <1>1, ObjectRegistryAssumption

(* An accepted request takes effect as its call promises.                  *)
LEMMA TakingEffect ==
    ASSUME IInv, NEW r \in Requests, WellMade(r), r.expect = object,
           NEW o \in open, Permits(o, r),
           object' = r.body, effects' = effects \union {r.id},
           open' = open \/ open' = open \ {o}
    PROVE  Promise!TakeEffect
  <1> USE RowTypes
  <1>1. /\ object \in Rows \union {NoRow} /\ r.body \in Rows \union {NoRow}
        /\ o.op \in {"create", "swap", "delete"}
    BY DEF IInv, TypeOK, Requests
  <1>2. o.id \notin effects \/ (o.op = "delete" /\ o.on = NoRow)
    BY DEF Permits
  <1>3. effects' = effects \union {o.id} /\ open' \in {open, open \ {o}}
    BY DEF Permits
  <1>4. CASE o.op = "create"
    <2>1. ~IsLive(object) /\ IsLive(r.body) /\ r.body.patches = {o.id} /\ WrittenBy(r.body) = o.id
      BY <1>4 DEF Permits, WellMade
    <2>2. Promise!Create(o)
      BY <1>4, <2>1 DEF Promise!Create
    <2> QED BY <1>2, <1>3, <2>2 DEF Promise!TakeEffect
  <1>5. CASE o.op = "swap"
    <2>1. /\ IsLive(object) /\ IsLive(r.body) /\ WrittenBy(object) = o.on
          /\ WrittenBy(r.body) = o.id /\ r.body.patches = object.patches \union {o.id}
      BY <1>5 DEF Permits, WellMade
    <2>2. [by |-> WrittenBy(object), patches |-> object.patches] # NoRow
      BY <1>1, <2>1, RowsBarred
    <2>3. Promise!Swap(o)
      BY <1>5, <2>1, <2>2 DEF Promise!Swap
    <2> QED BY <1>2, <1>3, <2>3 DEF Promise!TakeEffect
  <1>6. CASE o.op = "delete"
    <2>1. IsLive(object) /\ ~IsLive(r.body) /\ (o.on # NoRow => WrittenBy(object) = o.on)
      BY <1>6 DEF Permits
    <2>2. [by |-> WrittenBy(object), patches |-> object.patches] # NoRow
      BY <1>1, <2>1, RowsBarred
    <2>3. Promise!Delete(o)
      BY <1>6, <2>1, <2>2 DEF Promise!Delete
    <2> QED BY <1>2, <1>3, <2>3 DEF Promise!TakeEffect
  <1> QED BY <1>1, <1>4, <1>5, <1>6

LEMMA ClosesItsCall ==
    ASSUME IInv, NEW p \in Callers, Active(p), Closes(p)
    PROVE  /\ CallOf(p) \in open /\ CallOf(p).id = CallId(p) /\ CallOf(p).op = call[p].op
           /\ CallOf(p).on = call[p].on
           /\ open' = open \ {CallOf(p)}
  <1>1. CallOf(p) \in open /\ CallOf(p).id = CallId(p)
    BY DEF IInv, CallsAreOpen, CallOf
  <1> QED BY <1>1 DEF IInv, OpenIsUnique, Closes, CallOf

LEMMA NoStep ==
    ASSUME object' = object, open' = open, effects' = effects
    PROVE  [Promise!Next]_Promise!vars
  BY DEF Promise!vars, IsLive, WrittenBy

LEMMA AnsweredReturns ==
    ASSUME IInv, NEW p \in Callers, Active(p), NEW d \in CallStates,
           d.n = call[p].n, d.op = call[p].op, NEW outcome,
           Step(p, Answered(d, outcome)), store' = store
    PROVE  /\ Returns(p)
           /\ IF outcome = "done" \/ (outcome = "conflict" /\ call[p].op # "delete")
              THEN Closes(p) ELSE open' = open
  <1> DEFINE c == Answered(d, outcome)
  <1>1. c.pc = "answered" /\ c.n = d.n /\ c.op = d.op /\ c.outcome = outcome
    BY DEF Answered, CallStates
  <1> HIDE DEF c
  <1>2. /\ call' = [call EXCEPT ![p] = [Idle EXCEPT !.n = c.n]]
        /\ view' = [view EXCEPT ![p] = NoRow]
        /\ open' = IF IsFinal(c) THEN {o \in open : o.id # CallId(p)} ELSE open
    BY <1>1 DEF Step, c
  <1> QED BY <1>1, <1>2 DEF Returns, Closes, IsFinal

(* A call that returns and changes nothing of the object.                  *)
LEMMA QuietReturn ==
    ASSUME IInv, NEW p \in Callers, Active(p), NEW d \in CallStates,
           d.n = call[p].n, d.op = call[p].op, NEW outcome,
           Step(p, Answered(d, outcome)), UNCHANGED <<store, object, effects>>,
           inflight' \subseteq inflight \union IF call[p].pc = "wait" THEN {Request(p)} ELSE {},
           outcome = "done" =>
              /\ CallId(p) \in effects /\ inflight' = inflight
              /\ \A r \in inflight : r.id = CallId(p) => Spent(r),
           outcome = "conflict" /\ call[p].op # "delete" =>
              IsClean(p) /\ inflight' = inflight
    PROVE  IInv' /\ [Promise!Next]_Promise!vars
  <1>1. /\ Returns(p)
        /\ IF outcome = "done" \/ (outcome = "conflict" /\ call[p].op # "delete")
           THEN Closes(p) ELSE open' = open
    BY AnsweredReturns
  <1>2. ObjectMoves
    BY StillObject
  <1>3. \A r : Spent(r) => Spent(r)'
    BY DEF Spent, Past
  <1>4. IInv'
    BY <1>1, <1>2, <1>3, Returning DEF IsClean
  <1>5. CASE outcome = "done"
    <2>1. Promise!ReportDone
      BY <1>1, <1>5, ClosesItsCall DEF Promise!ReportDone
    <2> QED BY <1>4, <2>1 DEF Promise!Next
  <1>6. CASE outcome = "conflict" /\ call[p].op # "delete"
    <2>1. Promise!ReportConflict
      BY <1>1, <1>6, ClosesItsCall DEF Promise!ReportConflict, IsClean
    <2> QED BY <1>4, <2>1 DEF Promise!Next
  <1>7. CASE ~(outcome = "done" \/ (outcome = "conflict" /\ call[p].op # "delete"))
    BY <1>1, <1>4, <1>7, NoStep
  <1> QED BY <1>5, <1>6, <1>7

(* A call that goes on and changes nothing of the object.                  *)
LEMMA QuietGoingOn ==
    ASSUME IInv, NEW p \in Callers, Active(p), NEW d \in CallStates, d.pc # "idle",
           d.n = call[p].n, d.op = call[p].op, d.on = call[p].on,
           Step(p, d), UNCHANGED <<store, object, effects>>,
           inflight' \subseteq inflight \union IF call[p].pc = "wait" THEN {Request(p)} ELSE {},
           CallShape(d), NEW mine, mine = RequestOf(p, d),
           d.pc = "wait" => \/ mine \in Sent
                            \/ /\ RequestFits(mine)
                               /\ Spent(mine) \/ \E o \in open : Permits(o, mine),
           /\ d.copy # "landed"
           /\ d.attempt = 0 \/ (d.op # "delete" /\ ~store.resendsWrites)
           => MustBeClean(p) /\ inflight' \subseteq inflight,
           d.copy = "landed" =>
               CallId(p) \in effects /\ \A r \in Sent : r.id = CallId(p) => Spent(r)
    PROVE  IInv' /\ [Promise!Next]_Promise!vars
  <1>1. ObjectMoves
    BY StillObject
  <1>2. \A r : Spent(r) <=> Spent(r)'
    BY DEF Spent, Past
  <1>3. \A o, r : Permits(o, r) <=> Permits(o, r)'
    BY DEF Permits
  <1>4. d.pc # "answered"
    BY DEF CallStates
  <1>5. GoesOn(p, d)
    BY <1>4 DEF GoesOn, Step
  <1>6. IInv'
    BY <1>1, <1>2, <1>3, <1>5, GoingOn
  <1>7. open' = open
    BY <1>5 DEF GoesOn
  <1> QED BY <1>6, <1>7, NoStep

LEMMA CallFacts ==
    ASSUME IInv, NEW p \in Callers, Active(p)
    PROVE  /\ call[p] \in CallStates /\ CallOf(p) \in open /\ CallShape(call[p])
           /\ MustBeClean(p) => IsClean(p)
           /\ CallOf(p).id = CallId(p) /\ CallOf(p).op = call[p].op /\ CallOf(p).on = call[p].on
           /\ call[p].pc = "wait" => Request(p) \in Sent
           /\ store \in StoreKinds
           /\ \A o \in open : o.id = CallId(p) => o = CallOf(p)
  BY ObjectRegistryAssumption
     DEF IInv, TypeOK, CallsAreOpen, CleanCalls, CallOf, Sent, OpenIsUnique

(* A conflict of the request that was sent.                                *)
LEMMA Conflicting ==
    ASSUME IInv, NEW p \in Callers, call[p].pc \in {"wait", "readback"},
           call[p].copy # "landed", NEW kind \in {"conflict", "unsettled"},
           kind = "conflict" /\ call[p].op # "delete" => ~store.resendsWrites,
           Step(p, AfterConflict(call[p], kind)),
           UNCHANGED <<store, object, inflight, effects>>
    PROVE  IInv' /\ [Promise!Next]_Promise!vars
  <1> DEFINE c == call[p]
             d == AfterConflict(c, kind)
  <1>1. Active(p)
    BY DEF Active
  <1>2. c \in CallStates /\ CallShape(c) /\ (MustBeClean(p) => IsClean(p))
    BY <1>1, CallFacts
  <1>3. kind = "conflict" /\ c.op # "delete" => IsClean(p)
    BY <1>2 DEF MustBeClean
  <1>4. CASE \/ c.op = "delete" /\ c.attempt < MaxDeleteAttempts
             \/ c.op = "create" /\ c.hinted /\ c.lost = "none"
    <2>1. PICK lost : lost = IF c.op = "delete" THEN c.lost ELSE kind
      OBVIOUS
    <2>2. PICK e : e = [c EXCEPT !.pc = "read", !.lost = lost, !.copy = "none"]
      OBVIOUS
    <2>3. lost \in {"none", "conflict", "unsettled"}
      BY <1>2, <2>1 DEF CallStates
    <2>4. /\ e \in CallStates /\ e.pc = "read" /\ e.n = c.n /\ e.op = c.op /\ e.on = c.on
          /\ e.lost = lost /\ e.copy = "none" /\ e.attempt = c.attempt
      BY <1>2, <2>2, <2>3 DEF CallStates
    <2>5. d = e
      <3>1. CASE c.op = "delete"
        <4>1. d = [c EXCEPT !.pc = "read", !.copy = "none"]
          BY <1>4, <3>1 DEF AfterConflict
        <4>2. [c EXCEPT !.pc = "read", !.copy = "none"] \in CallStates
          BY <1>2 DEF CallStates
        <4>3. [c EXCEPT !.pc = "read", !.copy = "none"] =
              [c EXCEPT !.pc = "read", !.lost = c.lost, !.copy = "none"]
          BY <1>2 DEF CallStates
        <4> QED BY <2>1, <2>2, <3>1, <4>1, <4>3
      <3>2. CASE c.op # "delete"
        BY <1>4, <2>1, <2>2, <3>2 DEF AfterConflict
      <3> QED BY <3>1, <3>2
    <2>6. CallShape(e)
      BY <1>2, <1>4, <2>1, <2>4 DEF CallShape
    <2>7. PICK mine : mine = RequestOf(p, e)
      OBVIOUS
    <2>8. /\ e.copy # "landed"
          /\ e.attempt = 0 \/ (e.op # "delete" /\ ~store.resendsWrites)
          => MustBeClean(p)
      BY <2>4 DEF MustBeClean
    <2> QED BY <1>1, <2>4, <2>5, <2>6, <2>7, <2>8, QuietGoingOn
  <1>5. CASE ~ \/ c.op = "delete" /\ c.attempt < MaxDeleteAttempts
               \/ c.op = "create" /\ c.hinted /\ c.lost = "none"
    <2>1. d = Answered(c, "conflict") \/ d = Answered(c, kind)
      BY <1>5 DEF AfterConflict
    <2>2. c.op # "delete" => d = Answered(c, kind)
      BY <1>5 DEF AfterConflict
    <2>3. PICK outcome \in {"conflict", "unsettled"} :
             d = Answered(c, outcome) /\ (c.op # "delete" => outcome = kind)
      BY <2>1, <2>2
    <2> QED BY <1>1, <1>2, <1>3, <2>3, QuietReturn
  <1> QED BY <1>4, <1>5

LEMMA ReadFailing ==
    ASSUME IInv, NEW p \in Callers, ReadFails(p)
    PROVE  IInv' /\ [Promise!Next]_Promise!vars
  <1> DEFINE c == call[p]
  <1>1. Active(p) /\ c.pc = "read"
    BY DEF ReadFails, Active
  <1>2. c \in CallStates /\ CallShape(c) /\ (MustBeClean(p) => IsClean(p))
    BY <1>1, CallFacts
  <1>3. PICK outcome : outcome = IF c.lost = "none" THEN "unknown" ELSE c.lost
    OBVIOUS
  <1>4. /\ Step(p, Answered(c, outcome))
        /\ UNCHANGED <<store, object, inflight, effects>>
    BY <1>3 DEF ReadFails
  <1>5. outcome # "done" /\ (outcome = "conflict" => IsClean(p))
    BY <1>1, <1>2, <1>3 DEF CallShape, CallStates, MustBeClean
  <1> QED BY <1>1, <1>2, <1>4, <1>5, QuietReturn

(* What a call does with the object it reads: it returns, or sends what    *)
(* its place in the registry permits.                                      *)
LEMMA AfterReading ==
    ASSUME IInv, NEW p \in Callers, call[p].pc \in {"read", "locked"},
           call[p].op = "delete" => GracePassed(object),
           NEW d, d = AfterRead(call[p], object), NEW mine, mine = RequestOf(p, d)
    PROVE  \/ \E outcome :
                /\ d = Answered(call[p], outcome)
                /\ outcome = "done" =>
                      call[p].op = "delete" /\ call[p].on = NoRow /\ ~IsLive(object)
                /\ outcome = "conflict" /\ call[p].op # "delete" => IsClean(p)
           \/ /\ d = Sending(call[p], object) /\ CallShape(d)
              /\ mine \in Requests /\ mine.id = CallId(p) /\ mine.expect = object
              /\ RequestFits(mine) /\ Permits(CallOf(p), mine)
  <1> USE RowTypes
  <1> DEFINE c == call[p]
  <1>0. Active(p)
    BY DEF Active
  <1>1. /\ c \in CallStates /\ CallShape(c) /\ (MustBeClean(p) => IsClean(p))
        /\ CallOf(p) \in open
        /\ CallOf(p).id = CallId(p) /\ CallOf(p).op = c.op /\ CallOf(p).on = c.on
        /\ object \in Rows \union {NoRow}
    BY <1>0, CallFacts DEF IInv, TypeOK
  <1>2. c.op # "delete" /\ c.lost # "unsettled" => IsClean(p)
    BY <1>1 DEF CallShape, MustBeClean, CallStates
  <1>3. ASSUME NEW outcome, d = Answered(c, outcome),
               outcome = "done" => c.op = "delete" /\ c.on = NoRow /\ ~IsLive(object),
               outcome = "conflict" /\ c.op # "delete" => IsClean(p)
        PROVE  \E u : /\ d = Answered(call[p], u)
                      /\ u = "done" =>
                            call[p].op = "delete" /\ call[p].on = NoRow /\ ~IsLive(object)
                      /\ u = "conflict" /\ call[p].op # "delete" => IsClean(p)
    BY <1>3
  <1>4. ASSUME d = Sending(c, object),
               IF c.op = "create" THEN ~IsLive(object)
               ELSE IsLive(object) /\ (c.on # NoRow => WrittenBy(object) = c.on),
               CallId(p) \notin effects \/ (c.op = "delete" /\ c.on = NoRow)
        PROVE  /\ CallShape(d)
               /\ mine \in Requests /\ mine.id = CallId(p) /\ mine.expect = object
               /\ RequestFits(mine) /\ Permits(CallOf(p), mine)
    <2>1. /\ d \in CallStates /\ d.n = c.n /\ d.pc = "wait" /\ d.op = c.op /\ d.on = c.on
          /\ d.hinted = c.hinted /\ d.seen = object /\ d.lost = c.lost
          /\ d.attempt = c.attempt + 1 /\ d.copy = "flying"
      BY <1>1, <1>4, SendingIsMade
    <2>2. d.attempt > 0
      BY <1>1, <2>1 DEF CallStates
    <2>3. CallShape(d)
      BY <1>1, <1>4, <2>1, <2>2 DEF CallShape
    <2>4. /\ mine \in Requests /\ mine.id = CallId(p) /\ mine.expect = object
          /\ WellMade(mine) /\ (IsDelete(mine) <=> c.op = "delete")
          /\ c.op # "delete" => IsLive(mine.body)
      BY <1>4, <2>1, RequestIsMade DEF CallId
    <2>5. c.op = "delete" => Over(CreatorOf(object))
      BY <1>4 DEF GracePassed, Over, CreatorOf, Active
    <2>6. RequestFits(mine)
      BY <1>1, <2>4, <2>5, KnownTypes DEF RequestFits, IInv
    <2>7. Permits(CallOf(p), mine)
      BY <1>1, <1>4, <2>4 DEF Permits, IsDelete, CallShape
    <2> QED BY <2>3, <2>4, <2>6, <2>7
  <1>5. CASE c.op = "create"
    <2>1. CASE IsLive(object)
      <3>1. PICK outcome : outcome = IF c.lost = "none" THEN "conflict" ELSE c.lost
        OBVIOUS
      <3>2. d = Answered(c, outcome)
        BY <1>5, <2>1, <3>1 DEF AfterRead
      <3>3. outcome # "done" /\ (outcome = "conflict" => IsClean(p))
        BY <1>1, <1>2, <1>5, <3>1 DEF CallStates
      <3> QED BY <1>3, <3>2, <3>3
    <2>2. CASE ~IsLive(object) /\ c.lost # "none" /\ object = NoRow
      <3>1. d = Answered(c, c.lost)
        BY <1>5, <2>2 DEF AfterRead
      <3>2. c.lost # "done" /\ (c.lost = "conflict" => IsClean(p))
        BY <1>1, <1>2, <1>5 DEF CallStates
      <3> QED BY <1>3, <3>1, <3>2
    <2>3. CASE ~IsLive(object) /\ ~(c.lost # "none" /\ object = NoRow)
      <3>1. d = Sending(c, object)
        BY <1>5, <2>3 DEF AfterRead
      <3>2. CallId(p) \notin effects
        BY <1>0, <1>5, <2>3 DEF IInv, CreatedCalls
      <3> QED BY <1>4, <1>5, <2>3, <3>1, <3>2
    <2> QED BY <2>1, <2>2, <2>3
  <1>6. CASE c.op = "swap"
    <2>1. CallId(p) \notin effects /\ IsClean(p)
      BY <1>1, <1>2, <1>6 DEF CallShape, IsClean
    <2>2. CASE OnItsRow(c, object)
      <3>1. d = Sending(c, object)
        BY <1>6, <2>2 DEF AfterRead
      <3> QED BY <1>4, <1>6, <2>1, <2>2, <3>1 DEF OnItsRow
    <2>3. CASE ~OnItsRow(c, object)
      <3>1. d = Answered(c, "conflict")
        BY <1>6, <2>3 DEF AfterRead
      <3> QED BY <1>3, <2>1, <3>1
    <2> QED BY <2>2, <2>3
  <1>7. CASE c.op = "delete"
    <2>1. CASE OnItsRow(c, object)
      <3>1. d = Sending(c, object)
        BY <1>7, <2>1 DEF AfterRead
      <3>2. CallId(p) \notin effects \/ c.on = NoRow
        BY <1>0, <1>7, <2>1 DEF IInv, DeletedCalls, OnItsRow
      <3> QED BY <1>4, <1>7, <2>1, <3>1, <3>2 DEF OnItsRow
    <2>2. CASE ~OnItsRow(c, object)
      <3>1. PICK outcome : outcome = IF c.on # NoRow THEN "conflict" ELSE "done"
        OBVIOUS
      <3>2. d = Answered(c, outcome)
        BY <1>7, <2>2, <3>1 DEF AfterRead
      <3> QED BY <1>3, <1>7, <2>2, <3>1, <3>2 DEF OnItsRow
    <2> QED BY <2>1, <2>2
  <1> QED BY <1>1, <1>5, <1>6, <1>7 DEF CallStates

-----------------------------------------------------------------------------
(* Each action keeps IInv, and is a step of the promise or none.           *)

(* An unfenced delete that found no row: it is done.                       *)
LEMMA DeletingNothing ==
    ASSUME IInv, NEW p \in Callers, Active(p), call[p].op = "delete", call[p].on = NoRow,
           ~IsLive(object), Returns(p), Closes(p), UNCHANGED <<object, inflight>>,
           Effect(CallId(p))
    PROVE  IInv' /\ [Promise!Next]_Promise!vars
  <1>1. ObjectMoves /\ \A q \in Sent : q.id = CallId(p) => Spent(q)'
    BY NothingToDelete DEF Effect
  <1>2. IInv'
    BY <1>1, Returning DEF Effect, Sent
  <1>3. /\ CallOf(p) \in open /\ CallOf(p).id = CallId(p) /\ CallOf(p).op = call[p].op
        /\ CallOf(p).on = call[p].on
        /\ open' = open \ {CallOf(p)}
    BY ClosesItsCall
  <1>4. Promise!Delete(CallOf(p))
    BY <1>3 DEF Promise!Delete
  <1>5. Promise!TakeEffect
    BY <1>3, <1>4 DEF Promise!TakeEffect, Effect
  <1> QED BY <1>2, <1>5 DEF Promise!Next

LEMMA ReadingRow ==
    ASSUME IInv, NEW p \in Callers, ReadRow(p)
    PROVE  IInv' /\ [Promise!Next]_Promise!vars
  <1> DEFINE c == call[p]
  <1>0. /\ Active(p) /\ c.pc = "read"
        /\ c.op = "delete" => GracePassed(object)
    BY DEF ReadRow, Active
  <1>1. c \in CallStates /\ object \in Rows \union {NoRow} /\ c.copy = "none"
        /\ (MustBeClean(p) => IsClean(p)) /\ CallOf(p) \in open
    BY <1>0, CallFacts DEF IInv, TypeOK, CallShape
  <1>2. PICK d : d = AfterRead(c, object)
    OBVIOUS
  <1>3. PICK mine : mine = RequestOf(p, d)
    OBVIOUS
  <1>4. /\ Step(p, d)
        /\ IF d.op = "delete" /\ d.outcome = "done" THEN Effect(CallId(p)) ELSE UNCHANGED effects
        /\ UNCHANGED <<store, object, inflight>>
    BY <1>2 DEF ReadRow
  <1>5. CASE \E outcome :
                /\ d = Answered(c, outcome)
                /\ outcome = "done" => c.op = "delete" /\ c.on = NoRow /\ ~IsLive(object)
                /\ outcome = "conflict" /\ c.op # "delete" => IsClean(p)
    <2>1. PICK outcome :
                /\ d = Answered(c, outcome)
                /\ outcome = "done" => c.op = "delete" /\ c.on = NoRow /\ ~IsLive(object)
                /\ outcome = "conflict" /\ c.op # "delete" => IsClean(p)
      BY <1>5
    <2>2. d.outcome = outcome /\ d.op = c.op
      BY <1>1, <2>1 DEF Answered, CallStates
    <2>3. CASE outcome = "done"
      <3>1. Returns(p) /\ Closes(p)
        BY <1>0, <1>1, <1>4, <2>1, <2>3, AnsweredReturns
      <3> QED BY <1>0, <1>4, <2>1, <2>2, <2>3, <3>1, DeletingNothing
    <2>4. CASE outcome # "done"
      BY <1>0, <1>1, <1>4, <2>1, <2>2, <2>4, QuietReturn
    <2> QED BY <2>3, <2>4
  <1>6. CASE /\ d = Sending(c, object) /\ CallShape(d)
             /\ mine \in Requests /\ mine.id = CallId(p) /\ mine.expect = object
             /\ RequestFits(mine) /\ Permits(CallOf(p), mine)
    <2>1. /\ d \in CallStates /\ d.n = c.n /\ d.pc = "wait" /\ d.op = c.op /\ d.on = c.on
          /\ d.attempt = c.attempt + 1 /\ d.copy = "flying" /\ d.outcome = "none"
      BY <1>1, <1>6, SendingIsMade DEF CallStates
    <2>2. /\ d.copy # "landed"
          /\ d.attempt = 0 \/ (d.op # "delete" /\ ~store.resendsWrites)
          => MustBeClean(p)
      BY <1>1, <2>1 DEF MustBeClean, CallStates
    <2> QED BY <1>0, <1>1, <1>3, <1>4, <1>6, <2>1, <2>2, QuietGoingOn
  <1> QED BY <1>0, <1>2, <1>3, <1>5, <1>6, AfterReading

LEMMA Delivering ==
    ASSUME IInv, NEW p \in Callers, Deliver(p)
    PROVE  IInv' /\ [Promise!Next]_Promise!vars
  <1> DEFINE c == call[p]
  <1>0. Active(p) /\ c.pc = "wait" /\ c.copy = "flying" /\ UNCHANGED <<store, inflight>>
    BY DEF Deliver, Active
  <1>1. /\ c \in CallStates /\ CallShape(c) /\ Request(p) \in Sent /\ CallOf(p) \in open
        /\ CallOf(p).id = CallId(p)
    BY <1>0, CallFacts
  <1>2. ASSUME NEW m \in {"landed", "missing", "refused"}, NEW d,
               d = [c EXCEPT !.copy = m]
        PROVE  /\ d \in CallStates /\ d.pc = "wait" /\ d.n = c.n /\ d.op = c.op /\ d.on = c.on
               /\ d.attempt = c.attempt /\ d.copy = m
               /\ CallShape(d) /\ RequestOf(p, d) = Request(p)
    <2>1. /\ d \in CallStates /\ d.pc = "wait" /\ d.n = c.n /\ d.op = c.op /\ d.on = c.on
          /\ d.attempt = c.attempt /\ d.copy = m /\ d.seen = c.seen /\ d.lost = c.lost
      BY <1>0, <1>1, <1>2 DEF CallStates
    <2>2. CallShape(d)
      BY <1>0, <1>1, <2>1 DEF CallShape
    <2>3. RequestOf(p, d) = Request(p)
      BY <2>1 DEF Request, RequestOf, WriteOf, Removes
    <2> QED BY <2>1, <2>2, <2>3
  <1>3. CASE /\ Accepts(Request(p)) /\ Land(Request(p))
             /\ Step(p, [c EXCEPT !.copy = "landed"])
    <2>1. PICK r : r = Request(p)
      OBVIOUS
    <2>2. PICK d : d = [c EXCEPT !.copy = "landed"]
      OBVIOUS
    <2>3. /\ d \in CallStates /\ d.pc = "wait" /\ d.n = c.n /\ d.op = c.op /\ d.on = c.on
          /\ d.attempt = c.attempt /\ d.copy = "landed"
          /\ CallShape(d) /\ RequestOf(p, d) = r
      BY <1>2, <2>1, <2>2
    <2>4. GoesOn(p, d)
      BY <1>0, <1>3, <2>2, <2>3 DEF GoesOn, Step
    <2>5. /\ r \in Sent /\ r.id = CallId(p) /\ Accepts(r) /\ Land(r)
      BY <1>1, <1>3, <2>1 DEF Request, RequestOf, CallId
    <2>6. PICK o \in open : Permits(o, r)
      BY <2>5, AcceptedLands
    <2>7. ObjectMoves /\ \A q \in Sent : q.id = r.id => Spent(q)'
      BY <2>5, AcceptedLands
    <2>8. effects' = effects \union {CallId(p)} /\ CallId(p) \in effects'
      BY <2>5 DEF Land, Effect
    <2>9. IInv'
      BY <1>0, <2>3, <2>4, <2>5, <2>7, <2>8, GoingOn
    <2>10. r \in Requests /\ WellMade(r)
      <3>1. r \in Requests
        BY <1>0, <1>1, <2>1, RequestIsMade DEF CallShape, Request
      <3> QED BY <2>5, <3>1 DEF IInv, SentAreWellMade
    <2>11. Promise!TakeEffect
      BY <2>4, <2>5, <2>6, <2>10, TakingEffect DEF Land, Effect, Accepts, GoesOn
    <2> QED BY <2>9, <2>11 DEF Promise!Next
  <1>4. CASE /\ Step(p, [c EXCEPT !.copy = IF object = NoRow /\ c.seen # NoRow THEN "missing"
                                           ELSE "refused"])
             /\ UNCHANGED <<object, effects>>
    <2>1. PICK m \in {"landed", "missing", "refused"} :
             m # "landed" /\ Step(p, [c EXCEPT !.copy = m])
      BY <1>4
    <2>2. PICK d : d = [c EXCEPT !.copy = m]
      OBVIOUS
    <2>3. /\ d \in CallStates /\ d.pc = "wait" /\ d.n = c.n /\ d.op = c.op /\ d.on = c.on
          /\ d.attempt = c.attempt /\ d.copy = m
          /\ CallShape(d) /\ RequestOf(p, d) = Request(p)
      BY <1>2, <2>2
    <2>4. PICK mine : mine = RequestOf(p, d)
      OBVIOUS
    <2>5. /\ d.copy # "landed"
          /\ d.attempt = 0 \/ (d.op # "delete" /\ ~store.resendsWrites)
          => MustBeClean(p)
      BY <1>0, <2>3 DEF MustBeClean
    <2>6. inflight' \subseteq inflight \union IF c.pc = "wait" THEN {Request(p)} ELSE {}
      BY <1>0
    <2> QED BY <1>0, <1>1, <1>4, <2>1, <2>2, <2>3, <2>4, <2>5, <2>6, QuietGoingOn
  <1> QED BY <1>3, <1>4 DEF Deliver

LEMMA GoingUnanswered ==
    ASSUME IInv, NEW p \in Callers, Unanswered(p)
    PROVE  IInv' /\ [Promise!Next]_Promise!vars
  <1> DEFINE c == call[p]
  <1>0. /\ Active(p) /\ c.pc = "wait" /\ UNCHANGED <<store, object, effects>>
        /\ inflight' \subseteq inflight \union IF c.pc = "wait" THEN {Request(p)} ELSE {}
        /\ c.copy # "flying" => inflight' = inflight
    BY DEF Unanswered, Active
  <1>1. /\ c \in CallStates /\ CallShape(c) /\ Request(p) \in Sent
        /\ store \in StoreKinds /\ c.sends + 1 \in Nat
    BY <1>0, CallFacts DEF CallStates
  <1>2. CASE MayResend(c)
    <2>1. PICK d : d = [c EXCEPT !.copy = "flying", !.sends = @ + 1]
      OBVIOUS
    <2>2. /\ d \in CallStates /\ d.pc = "wait" /\ d.n = c.n /\ d.op = c.op /\ d.on = c.on
          /\ d.attempt = c.attempt /\ d.copy = "flying" /\ d.seen = c.seen /\ d.lost = c.lost
      BY <1>0, <1>1, <2>1 DEF CallStates
    <2>3. CallShape(d)
      BY <1>0, <1>1, <2>2 DEF CallShape
    <2>4. PICK mine : mine = RequestOf(p, d)
      OBVIOUS
    <2>5. mine = Request(p)
      BY <2>2, <2>4 DEF Request, RequestOf, WriteOf, Removes
    <2>6. ~(d.attempt = 0 \/ (d.op # "delete" /\ ~store.resendsWrites))
      BY <1>0, <1>1, <1>2, <2>2 DEF CallShape, CallStates, MayResend, Removes
    <2>7. Step(p, d)
      BY <1>2, <2>1 DEF Unanswered
    <2> QED BY <1>0, <1>1, <2>2, <2>3, <2>4, <2>5, <2>6, <2>7, QuietGoingOn
  <1>3. CASE ~MayResend(c)
    <2>1. PICK outcome : outcome = "unknown"
      OBVIOUS
    <2>2. Step(p, Answered(c, outcome))
      BY <1>3, <2>1 DEF Unanswered
    <2> QED BY <1>0, <1>1, <2>1, <2>2, QuietReturn
  <1> QED BY <1>2, <1>3

LEMMA Answering ==
    ASSUME IInv, NEW p \in Callers, Answer(p)
    PROVE  IInv' /\ [Promise!Next]_Promise!vars
  <1> DEFINE c == call[p]
  <1>0. /\ Active(p) /\ c.pc = "wait" /\ c.copy # "flying"
        /\ UNCHANGED <<store, object, inflight, effects>>
    BY DEF Answer, Active
  <1>1. c \in CallStates /\ CallShape(c)
    BY <1>0, CallFacts
  <1>2. CASE c.copy = "landed"
    <2>1. CallId(p) \in effects /\ \A r \in inflight : r.id = CallId(p) => Spent(r)
      BY <1>0, <1>2 DEF IInv, LandedCalls
    <2>2. PICK outcome : outcome = "done"
      OBVIOUS
    <2>3. Step(p, Answered(c, outcome))
      BY <1>2, <2>2 DEF Answer
    <2> QED BY <1>0, <1>1, <2>1, <2>2, <2>3, QuietReturn
  <1>3. CASE c.copy # "landed" /\ (Removes(c) \/ ~store.resendsWrites)
    <2>1. PICK kind \in {"conflict", "unsettled"} : kind = "conflict"
      OBVIOUS
    <2>2. Step(p, AfterConflict(c, kind))
      BY <1>3, <2>1 DEF Answer
    <2>3. c.op # "delete" => ~store.resendsWrites
      BY <1>3 DEF Removes
    <2> QED BY <1>0, <1>3, <2>1, <2>2, <2>3, Conflicting
  <1>4. CASE c.copy = "missing" /\ ~(Removes(c) \/ ~store.resendsWrites)
    <2>1. PICK kind \in {"conflict", "unsettled"} : kind = "unsettled"
      OBVIOUS
    <2>2. Step(p, AfterConflict(c, kind))
      BY <1>4, <2>1 DEF Answer
    <2> QED BY <1>0, <1>4, <2>1, <2>2, Conflicting
  <1>5. CASE c.copy \notin {"landed", "missing"} /\ ~(Removes(c) \/ ~store.resendsWrites)
    <2>1. PICK d : d = [c EXCEPT !.pc = "readback"]
      OBVIOUS
    <2>2. /\ d \in CallStates /\ d.pc = "readback" /\ d.n = c.n /\ d.op = c.op /\ d.on = c.on
          /\ d.attempt = c.attempt /\ d.copy = c.copy /\ d.lost = c.lost
      BY <1>1, <2>1 DEF CallStates
    <2>3. c.copy = "refused"
      BY <1>0, <1>1, <1>5 DEF CallShape, CallStates
    <2>4. CallShape(d)
      BY <1>0, <1>1, <1>5, <2>2, <2>3 DEF CallShape
    <2>5. PICK mine : mine = RequestOf(p, d)
      OBVIOUS
    <2>6. /\ d.copy # "landed"
          /\ d.attempt = 0 \/ (d.op # "delete" /\ ~store.resendsWrites)
          => MustBeClean(p)
      BY <2>2 DEF MustBeClean
    <2>7. Step(p, d)
      BY <1>5, <2>1 DEF Answer
    <2> QED BY <1>0, <1>1, <2>2, <2>3, <2>4, <2>5, <2>6, <2>7, QuietGoingOn
  <1> QED BY <1>2, <1>3, <1>4, <1>5

(* A call whose token is in the object took effect, and no copy of its     *)
(* request can again.                                                      *)
LEMMA OwnToken ==
    ASSUME IInv, NEW p \in Callers, Active(p), object # NoRow, WrittenBy(object) = CallId(p)
    PROVE  CallId(p) \in effects /\ \A r \in inflight : r.id = CallId(p) => Spent(r)
  <1> USE RowTypes
  <1>1. CallId(p) \in effects
    BY ObjectRegistryAssumption DEF IInv, KnownIsApplied, Known, Applied, CallId
  <1>2. ASSUME NEW r \in inflight, r.id = CallId(p), ~Spent(r)
        PROVE  FALSE
    <2>1. r \in Sent
      BY DEF Sent
    <2>2. PICK o \in open : Permits(o, r)
      BY <1>2, <2>1 DEF IInv, SentArePermitted
    <2>3. o = CallOf(p) /\ CallOf(p).op = call[p].op
      BY <1>2, <2>2, CallFacts DEF Permits
    <2>4. call[p].op = "delete" /\ IsLive(r.expect)
      BY <1>1, <1>2, <2>2, <2>3 DEF Permits
    <2>5. r.expect = object
      BY <1>2, <2>1, <2>4, KnownTypes DEF IInv, KnownIsPast, Spent
    <2> QED BY <2>4, <2>5 DEF IInv, DeletesWriteNoRow
  <1> QED BY <1>1, <1>2

LEMMA ReadingBack ==
    ASSUME IInv, NEW p \in Callers, ReadBack(p)
    PROVE  IInv' /\ [Promise!Next]_Promise!vars
  <1> DEFINE c   == call[p]
             own == object # NoRow /\ object.write = WriteOf(p, c)
  <1>0. /\ Active(p) /\ c.pc = "readback"
        /\ UNCHANGED <<store, object, inflight, effects>>
    BY DEF ReadBack, Active
  <1>1. c \in CallStates /\ CallShape(c)
    BY <1>0, CallFacts
  <1>2. CASE own /\ Step(p, Answered(c, "done"))
    <2>1. WrittenBy(object) = CallId(p)
      BY <1>2 DEF WrittenBy, WriteOf, CallId
    <2>2. PICK outcome : outcome = "done"
      OBVIOUS
    <2> QED BY <1>0, <1>1, <1>2, <2>1, <2>2, OwnToken, QuietReturn
  <1>3. CASE ~own /\ Step(p, AfterConflict(c, "unsettled"))
    <2>1. PICK kind \in {"conflict", "unsettled"} : kind = "unsettled"
      OBVIOUS
    <2>2. c.copy # "landed"
      BY <1>0, <1>1 DEF CallShape
    <2> QED BY <1>0, <1>3, <2>1, <2>2, Conflicting
  <1>4. CASE Step(p, Answered(c, "unknown"))
    <2>1. PICK outcome : outcome = "unknown"
      OBVIOUS
    <2> QED BY <1>0, <1>1, <1>4, <2>1, QuietReturn
  <1> QED BY <1>2, <1>3, <1>4 DEF ReadBack

LEMMA SteppingLocally ==
    ASSUME IInv, NEW p \in Callers, LocalStep(p)
    PROVE  IInv' /\ [Promise!Next]_Promise!vars
  <1> DEFINE c == call[p]
  <1>0. /\ Active(p) /\ c.pc = "locked" /\ UNCHANGED <<store, inflight>>
        /\ c.op = "delete" => GracePassed(object)
    BY DEF LocalStep, Active
  <1>1. /\ c \in CallStates /\ object \in Rows \union {NoRow} /\ IsClean(p)
        /\ CallOf(p) \in open /\ CallOf(p).id = CallId(p)
    BY <1>0, CallFacts DEF IInv, TypeOK, CallShape, MustBeClean
  <1>2. PICK d : d = AfterRead(c, object)
    OBVIOUS
  <1>3. PICK mine : mine = RequestOf(p, d)
    OBVIOUS
  <1>4. \/ \E outcome :
              /\ d = Answered(c, outcome)
              /\ outcome = "done" => c.op = "delete" /\ c.on = NoRow /\ ~IsLive(object)
              /\ outcome = "conflict" /\ c.op # "delete" => IsClean(p)
        \/ /\ d = Sending(c, object) /\ CallShape(d)
           /\ mine \in Requests /\ mine.id = CallId(p) /\ mine.expect = object
           /\ RequestFits(mine) /\ Permits(CallOf(p), mine)
    BY <1>0, <1>2, <1>3, AfterReading
  <1>5. CASE /\ d.pc = "wait" /\ Land(RequestOf(p, d))
             /\ \E o \in {"done", "unknown"} : Step(p, Answered(d, o))
    <2>1. /\ d = Sending(c, object)
          /\ mine \in Requests /\ mine.id = CallId(p) /\ mine.expect = object
          /\ RequestFits(mine) /\ Permits(CallOf(p), mine)
      BY <1>1, <1>4, <1>5 DEF Answered, CallStates
    <2>2. d \in CallStates /\ d.n = c.n /\ d.op = c.op
      BY <1>1, <2>1, SendingIsMade
    <2>3. PICK o \in {"done", "unknown"} : Step(p, Answered(d, o))
      BY <1>5
    <2>4. Returns(p) /\ (open' = open \/ Closes(p))
      BY <1>0, <2>2, <2>3, AnsweredReturns
    <2>5. object' = mine.body /\ effects' = effects \union {CallId(p)}
      BY <1>3, <1>5, <2>1 DEF Land, Effect
    <2>6. WellMade(mine) /\ (IsDelete(mine) => Over(CreatorOf(object)))
      BY <2>1 DEF RequestFits
    <2>7. ObjectMoves
      BY <1>1, <2>1, <2>5, <2>6, Landing
    <2>8. IInv'
      BY <1>0, <1>1, <2>4, <2>5, <2>7, Returning DEF IsClean
    <2>9. open' = open \/ open' = open \ {CallOf(p)}
      BY <1>0, <2>4, ClosesItsCall
    <2>10. Promise!TakeEffect
      BY <1>1, <2>1, <2>5, <2>6, <2>9, TakingEffect
    <2> QED BY <2>8, <2>10 DEF Promise!Next
  <1>6. CASE /\ d.pc # "wait" /\ Step(p, d) /\ UNCHANGED object
             /\ IF d.outcome = "done" THEN Effect(CallId(p)) ELSE UNCHANGED effects
    <2>1. PICK outcome :
              /\ d = Answered(c, outcome)
              /\ outcome = "done" => c.op = "delete" /\ c.on = NoRow /\ ~IsLive(object)
      BY <1>1, <1>4, <1>6, SendingIsMade
    <2>2. d.outcome = outcome
      BY <1>1, <2>1 DEF Answered, CallStates
    <2>3. CASE outcome = "done"
      <3>1. Returns(p) /\ Closes(p)
        BY <1>0, <1>1, <1>6, <2>1, <2>3, AnsweredReturns
      <3> QED BY <1>0, <1>6, <2>1, <2>2, <2>3, <3>1, DeletingNothing
    <2>4. CASE outcome # "done"
      BY <1>0, <1>1, <1>6, <2>1, <2>2, <2>4, QuietReturn
    <2> QED BY <2>3, <2>4
  <1>7. CASE Step(p, Answered(c, "unknown")) /\ UNCHANGED <<object, effects>>
    <2>1. PICK outcome : outcome = "unknown"
      OBVIOUS
    <2> QED BY <1>0, <1>1, <1>7, <2>1, QuietReturn
  <1> QED BY <1>2, <1>5, <1>6, <1>7 DEF LocalStep

LEMMA InvokingAny ==
    ASSUME IInv, NEW p \in Callers, InvokeCreate(p) \/ InvokeSwap(p) \/ InvokeDelete(p)
    PROVE  IInv' /\ [Promise!Next]_Promise!vars
  <1>1. PICK op, on, hinted : MayInvoke(p, op, on, hinted) /\ Invoke(p, op, on, hinted)
    <2>1. CASE InvokeCreate(p)
      <3>1. PICK hinted \in BOOLEAN :
               (hinted => view[p] = NoRow) /\ Invoke(p, "create", NoRow, hinted)
        BY <2>1 DEF InvokeCreate
      <3>2. MayInvoke(p, "create", NoRow, hinted)
        BY <3>1 DEF MayInvoke
      <3> QED BY <3>1, <3>2
    <2>2. CASE InvokeSwap(p)
      <3>1. PICK hinted \in BOOLEAN : Invoke(p, "swap", WrittenBy(view[p]), hinted)
        BY <2>2 DEF InvokeSwap
      <3>2. view[p] # NoRow /\ WrittenBy(view[p]) # NoRow
        BY <2>2, RowTypes DEF InvokeSwap, IInv, TypeOK
      <3>3. MayInvoke(p, "swap", WrittenBy(view[p]), hinted)
        BY <3>2 DEF MayInvoke
      <3> QED BY <3>1, <3>3
    <2>3. CASE InvokeDelete(p)
      <3>1. \/ Invoke(p, "delete", NoRow, FALSE)
            \/ view[p] # NoRow /\ Invoke(p, "delete", WrittenBy(view[p]), FALSE)
        BY <2>3 DEF InvokeDelete
      <3>2. MayInvoke(p, "delete", NoRow, FALSE)
        BY DEF MayInvoke
      <3>3. view[p] # NoRow => MayInvoke(p, "delete", WrittenBy(view[p]), FALSE)
        BY DEF MayInvoke
      <3> QED BY <3>1, <3>2, <3>3
    <2> QED BY <2>1, <2>2, <2>3
  <1>2. PICK new : new = NextCall(p, op, on)
    OBVIOUS
  <1>3. /\ IInv' /\ new.id \in Callers \X Nat /\ on \in Ids \union {NoRow}
        /\ \A o \in open : o.id # new.id
        /\ new.id \notin effects
        /\ open' = open \union {new}
    BY <1>1, <1>2, Invoking
  <1>4. new \in Promise!Calls
    <2>1. new = [id |-> new.id, op |-> op, on |-> on]
      BY <1>2 DEF NextCall
    <2>2. new.id \in Promise!Ids /\ on \in Promise!Ids \union {NoRow}
      BY <1>3 DEF Promise!Ids, Ids
    <2>3. op \in {"create", "swap", "delete"}
      BY <1>1 DEF MayInvoke
    <2> QED BY <2>1, <2>2, <2>3 DEF Promise!Calls
  <1>5. UNCHANGED <<object, effects>>
    BY <1>1 DEF Invoke
  <1>6. Promise!Invoke
    BY <1>3, <1>4, <1>5 DEF Promise!Invoke, IsLive, WrittenBy
  <1> QED BY <1>3, <1>6 DEF Promise!Next

LEMMA LandingLatePromise ==
    ASSUME IInv, LandsLate
    PROVE  IInv' /\ [Promise!Next]_Promise!vars
  <1>1. IInv'
    BY LandingLate
  <1>2. PICK req \in inflight :
          /\ IF Accepts(req) THEN Land(req) ELSE UNCHANGED <<object, effects>>
          /\ UNCHANGED <<store, view, call, open>>
    BY DEF LandsLate
  <1>3. req \in Sent /\ req \in Requests
    BY DEF Sent, IInv, TypeOK
  <1>4. CASE Accepts(req)
    <2>1. PICK o \in open : Permits(o, req)
      BY <1>2, <1>3, <1>4, AcceptedLands
    <2>2. Promise!TakeEffect
      BY <1>2, <1>3, <1>4, <2>1, TakingEffect
         DEF IInv, SentAreWellMade, Land, Effect, Accepts
    <2> QED BY <1>1, <2>2 DEF Promise!Next
  <1>5. CASE ~Accepts(req)
    BY <1>1, <1>2, <1>5, NoStep
  <1> QED BY <1>4, <1>5

-----------------------------------------------------------------------------
LEMMA IInvStarts ==
    ASSUME Init
    PROVE  IInv /\ Promise!Init
  <1>1. /\ FirstRow \in Rows /\ IsLive(FirstRow) /\ FirstRow.patches = {<<Earlier, 1>>}
        /\ WrittenBy(FirstRow) = <<Earlier, 1>> /\ CreatorOf(FirstRow) = <<Earlier, 1>>
    <2>1. <<Earlier, 1, 1>> \in Writes /\ <<Earlier, 1>> \in Ids
      BY DEF Writes, Ids
    <2>2. /\ FirstRow \in Rows /\ IsLive(FirstRow) /\ FirstRow.patches = {<<Earlier, 1>>}
          /\ FirstRow.incarnation = <<Earlier, 1, 1>> /\ FirstRow.write = <<Earlier, 1, 1>>
      <3>1. PICK w \in Writes, id \in Ids : w = <<Earlier, 1, 1>> /\ id = <<Earlier, 1>>
        BY <2>1
      <3>2. PICK none \in Rows \union {NoRow} : none = NoRow
        OBVIOUS
      <3>3. PICK x : x = NewRow(w, none, id)
        OBVIOUS
      <3>4. x \in Rows /\ IsLive(x) /\ x.patches = {id} /\ x.incarnation = w /\ x.write = w
        BY <3>3, NewRowIsMade
      <3>5. x = FirstRow
        BY <3>1, <3>2, <3>3 DEF FirstRow
      <3> QED BY <3>1, <3>4, <3>5
    <2> QED BY <2>2 DEF WrittenBy, CreatorOf
  <1>2. LET t == Tombstone(<<Earlier, 2, 1>>, FirstRow)
        IN  /\ t \in Rows /\ ~IsLive(t)
            /\ WrittenBy(t) = <<Earlier, 2>> /\ CreatorOf(t) = <<Earlier, 1>>
    <2>1. <<Earlier, 2, 1>> \in Writes
      BY DEF Writes, Ids
    <2>2. LET t == Tombstone(<<Earlier, 2, 1>>, FirstRow)
          IN  /\ t \in Rows /\ ~IsLive(t) /\ t.write = <<Earlier, 2, 1>>
              /\ t.incarnation = FirstRow.incarnation
      BY <1>1, <2>1, TombstoneIsMade
    <2> QED BY <1>1, <2>2 DEF WrittenBy, CreatorOf
  <1>3. /\ object \in Rows \union {NoRow}
        /\ object # NoRow => CreatorOf(object)[1] = Earlier /\ WrittenBy(object)[1] = Earlier
        /\ IsLive(object) => object = FirstRow
    BY <1>1, <1>2, RowTypes DEF Init
  <1>4. /\ inflight = {} /\ open = {} /\ effects = {} /\ store \in Stores
        /\ view = [p \in Callers |-> NoRow] /\ call = [p \in Callers |-> Idle]
        /\ Idle \in CallStates /\ Idle.pc = "idle"
    BY DEF Init, Idle, CallStates
  <1>5. TypeOK
    BY <1>3, <1>4 DEF TypeOK
  <1>6. Sent = {} /\ \A p \in Callers : ~Active(p) /\ view[p] = NoRow
    BY <1>4 DEF Sent, Active
  <1>7. Known = {object} \ {NoRow}
    BY <1>6 DEF Known
  <1>8. IdsAreMade /\ OpenIsUnique /\ ViewsAreLive
    BY <1>4, <1>6 DEF IdsAreMade, OpenIsUnique, ViewsAreLive
  <1>9. KnownIsApplied /\ KnownIsPast
    BY <1>3, <1>7 DEF KnownIsApplied, KnownIsPast, Applied
  <1>10. /\ SentAreWellMade /\ SentArePermitted /\ DeletesComeLate
         /\ CallsAreOpen /\ CleanCalls /\ LandedCalls
         /\ CreatedCalls /\ DeletedCalls /\ DeletesWriteNoRow
    BY <1>6 DEF SentAreWellMade, SentArePermitted, DeletesComeLate, CallsAreOpen, CleanCalls,
                LandedCalls, CreatedCalls, DeletedCalls, DeletesWriteNoRow
  <1>11. Promise!Init
    BY <1>1, <1>3, <1>4 DEF Promise!Init
  <1> QED BY <1>5, <1>8, <1>9, <1>10, <1>11 DEF IInv

LEMMA IInvKept ==
    ASSUME IInv, [Next]_vars
    PROVE  IInv' /\ [Promise!Next]_Promise!vars
  <1>1. CASE LandsLate
    BY <1>1, LandingLatePromise
  <1>2. ASSUME NEW p \in Callers, Get(p)
        PROVE  IInv' /\ [Promise!Next]_Promise!vars
    BY <1>2, Getting, NoStep DEF Get
  <1>3. ASSUME NEW p \in Callers, InvokeCreate(p) \/ InvokeSwap(p) \/ InvokeDelete(p)
        PROVE  IInv' /\ [Promise!Next]_Promise!vars
    BY <1>3, InvokingAny
  <1>4. ASSUME NEW p \in Callers,
               \/ ReadRow(p) \/ ReadFails(p) \/ Deliver(p) \/ Unanswered(p)
               \/ Answer(p) \/ ReadBack(p) \/ LocalStep(p)
        PROVE  IInv' /\ [Promise!Next]_Promise!vars
    BY <1>4, ReadingRow, ReadFailing, Delivering, GoingUnanswered, Answering, ReadingBack,
       SteppingLocally
  <1>5. CASE UNCHANGED vars
    <2>1. [Promise!Next]_Promise!vars
      BY <1>5, NoStep DEF vars
    <2>2. \A q \in Callers : /\ CallId(q)' = CallId(q) /\ Active(q)' = Active(q)
                             /\ CallOf(q)' = CallOf(q) /\ Request(q)' = Request(q)
                             /\ MustBeClean(q)' = MustBeClean(q) /\ IsClean(q)' = IsClean(q)
      BY <1>5 DEF vars, CallId, Active, CallOf, Request, RequestOf, Removes, WriteOf, MustBeClean,
                  IsClean
    <2>3. Sent' = Sent /\ Known' = Known
      BY <1>5, <2>2 DEF vars, Sent, Known
    <2>4. \A r : (Spent(r)' <=> Spent(r)) /\ (Past(r)' <=> Past(r)) /\ (Over(r)' <=> Over(r))
      BY <1>5, <2>2 DEF vars, Spent, Past, Over
    <2>5. TypeOK' /\ IdsAreMade' /\ OpenIsUnique' /\ ViewsAreLive'
      BY <1>5 DEF vars, IInv, TypeOK, IdsAreMade, Made, OpenIsUnique, ViewsAreLive
    <2>6. KnownIsApplied' /\ KnownIsPast'
      BY <1>5, <2>3, <2>4 DEF vars, IInv, KnownIsApplied, KnownIsPast, Applied
    <2>7. SentAreWellMade' /\ SentArePermitted' /\ DeletesComeLate'
      BY <1>5, <2>3, <2>4
         DEF vars, IInv, SentAreWellMade, SentArePermitted, Permits, DeletesComeLate
    <2>8. CallsAreOpen' /\ CleanCalls'
      BY <1>5, <2>2 DEF vars, IInv, CallsAreOpen, CallShape, Applied, CleanCalls
    <2>9. LandedCalls' /\ CreatedCalls' /\ DeletedCalls' /\ DeletesWriteNoRow'
      BY <1>5, <2>2, <2>4
         DEF vars, IInv, LandedCalls, CreatedCalls, DeletedCalls, DeletesWriteNoRow
    <2> QED BY <2>1, <2>5, <2>6, <2>7, <2>8, <2>9 DEF IInv
  <1> QED BY <1>1, <1>2, <1>3, <1>4, <1>5 DEF Next

(* The state of the calls and of the object is as IInv says, always.       *)
THEOREM IInvHolds == Spec => []IInv
  <1>1. Init => IInv
    BY IInvStarts
  <1>2. IInv /\ [Next]_vars => IInv'
    BY IInvKept
  <1> QED BY <1>1, <1>2, PTL DEF Spec

(* Whichever store it is and however often its client sends a request, a   *)
(* row kept as an object behaves as Registry promises: every call takes    *)
(* effect at most once and on the row it names, and what it reports of     *)
(* itself is so (object-registry.ts create, compareAndSwap, delete).       *)
THEOREM RowKeepsPromise == Spec => ImplementsRegistry
  <1>1. Init => Promise!Init
    BY IInvStarts
  <1>2. IInv /\ [Next]_vars => [Promise!Next]_Promise!vars
    BY IInvKept
  <1> QED BY <1>1, <1>2, IInvHolds, PTL DEF Spec, ImplementsRegistry, Promise!Spec
=============================================================================
