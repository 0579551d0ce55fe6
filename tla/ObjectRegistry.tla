--------------------------- MODULE ObjectRegistry ---------------------------
(***************************************************************************)
(* A registry row kept as one object of a store with conditional writes    *)
(* (drivers/_shared/object-registry.ts over the stores of packages/s3,     *)
(* gcs and azure-blob), and as a file (drivers/localfs/registry.ts).  Any  *)
(* client may give up on a request that is still under way.                *)
(*                                                                         *)
(* A version of the object is its content: an S3 ETag tells no more apart, *)
(* and no two writes have the same content, since each draws a random part *)
(* of its token.  That part is <<caller, call, attempt>> here.             *)
(***************************************************************************)
EXTENDS Naturals, FiniteSets

CONSTANTS
    NoRow,              \* no object; a read that found none
    Callers,            \* processes, each making its calls one at a time
    Earlier,            \* the caller of the write that made the first row, if there is one
    MaxCalls,           \* bound: calls of each process
    MaxDeleteAttempts,  \* MAX_DELETE_ATTEMPTS
    MaxSends,           \* bound: copies an SDK sends of one request
    Stores              \* the stores to check, each a record as in StoreKinds

(* resendsWrites: the client's retry sends a conditional write again       *)
(* (Azure).  resendsDeletes: a conditional delete (Azure, GCS).  removes:  *)
(* removesRows().  contends: it refuses a write it could accept while      *)
(* another is under way (409 of S3).  local: a file behind a lock.         *)
StoreKinds == [resendsWrites : BOOLEAN, resendsDeletes : BOOLEAN,
               removes : BOOLEAN, contends : BOOLEAN, local : BOOLEAN]

(* The id of a call; the random part of a token; a row, live or deleted.   *)
Ids == (Callers \union {Earlier}) \X Nat
Writes == (Callers \union {Earlier}) \X Nat \X Nat
Rows == [deleted : BOOLEAN, incarnation : Writes, write : Writes, counter : Nat,
         patches : SUBSET Ids]

ASSUME ObjectRegistryAssumption ==
    /\ MaxCalls \in [Callers -> Nat] /\ MaxDeleteAttempts \in Nat \ {0} /\ MaxSends \in Nat \ {0}
    /\ Stores \subseteq StoreKinds /\ Stores # {}
    /\ Earlier \notin Callers
    /\ NoRow \notin Ids \union Rows \union [by : Ids, patches : SUBSET Ids]

VARIABLES
    store,     \* which store this is
    object,    \* the object, a live row or a tombstone
    inflight,  \* requests given up on that may still reach the store
    view,      \* per caller: the row its last get returned
    call,      \* per caller: the call it is in
    open,      \* history: calls that may still take effect, as in Registry
    effects    \* history: calls that took effect

vars == <<store, object, inflight, view, call, open, effects>>

Idle == [n |-> 0, pc |-> "idle", op |-> "create", on |-> NoRow, hinted |-> FALSE,
         seen |-> NoRow, lost |-> "none", attempt |-> 0, copy |-> "none", sends |-> 0,
         outcome |-> "none"]

IsLive(obj) == obj # NoRow /\ ~obj.deleted

IsTombstone(obj) == obj # NoRow /\ obj.deleted

(* The call an object's token names.                                       *)
WrittenBy(obj) == <<obj.write[1], obj.write[2]>>

CallId(p) == <<p, call[p].n>>

-----------------------------------------------------------------------------
(* What is sent.                                                           *)

(* newIncarnationToken over what was read, and its row.                    *)
NewRow(write, over, id) ==
    [deleted |-> FALSE, incarnation |-> write, write |-> write,
     counter |-> IF over = NoRow THEN 0 ELSE over.counter + 1, patches |-> {id}]

(* nextRegistryToken, and the patch over the row that was read.            *)
PatchedRow(write, over, id) ==
    [over EXCEPT !.write = write, !.counter = @ + 1, !.patches = @ \union {id}]

(* A tombstone keeps the counter and nothing of the row.                   *)
Tombstone(write, over) ==
    [over EXCEPT !.deleted = TRUE, !.write = write, !.counter = @ + 1, !.patches = {}]

Removes(c) == c.op = "delete" /\ store.removes

WriteOf(p, c) == <<p, c.n, c.attempt>>

(* The request of a call that read c.seen: onto exactly that, or           *)
(* create-only where it is nothing.                                        *)
RequestOf(p, c) ==
    LET w  == WriteOf(p, c)
        id == <<p, c.n>>
    IN  [id |-> id, expect |-> c.seen,
         body |-> CASE c.op = "create" -> NewRow(w, c.seen, id)
                    [] c.op = "swap"   -> PatchedRow(w, c.seen, id)
                    [] Removes(c)      -> NoRow
                    [] OTHER           -> Tombstone(w, c.seen)]

Request(p) == RequestOf(p, call[p])

Accepts(req) == object = req.expect

Sending(c, seen) ==
    [c EXCEPT !.pc = "wait", !.seen = seen, !.attempt = @ + 1, !.copy = "flying", !.sends = 1]

Answered(c, outcome) == [c EXCEPT !.pc = "answered", !.outcome = outcome]

(* A refused create or swap is closed; a call that failed otherwise may    *)
(* still take effect, and a fenced delete's conflict is its caller's to    *)
(* settle.                                                                 *)
IsFinal(c) == c.outcome = "done" \/ (c.outcome = "conflict" /\ c.op # "delete")

(* The call goes on as c, or returns.                                      *)
Step(p, c) ==
    IF c.pc # "answered" THEN call' = [call EXCEPT ![p] = c] /\ UNCHANGED <<view, open>>
    ELSE /\ call' = [call EXCEPT ![p] = [Idle EXCEPT !.n = c.n]]
         /\ view' = [view EXCEPT ![p] = NoRow]
         /\ open' = IF IsFinal(c) THEN {o \in open : o.id # CallId(p)} ELSE open

Effect(id) == effects' = effects \union {id}

FirstRow == NewRow(<<Earlier, 1, 1>>, NoRow, <<Earlier, 1>>)

Init ==
    /\ store \in Stores
    /\ object \in {NoRow, FirstRow, Tombstone(<<Earlier, 2, 1>>, FirstRow)}
    /\ store.removes => ~IsTombstone(object)
    /\ inflight = {}
    /\ view = [p \in Callers |-> NoRow]
    /\ call = [p \in Callers |-> Idle]
    /\ open = {} /\ effects = {}

-----------------------------------------------------------------------------
(* The calls.                                                              *)

Get(p) ==
    /\ call[p].pc = "idle" /\ call[p].n < MaxCalls[p]
    /\ view' = [view EXCEPT ![p] = IF IsLive(object) THEN object ELSE NoRow]
    /\ UNCHANGED <<store, object, inflight, call, open, effects>>

(* A create told the row is absent (`held: null`), and a swap handed the   *)
(* record a get returned, send at once; any other call reads first.  A     *)
(* file is read under its lock, hint or not.                               *)
Invoke(p, op, on, hinted) ==
    LET c == [Idle EXCEPT !.n = call[p].n + 1, !.op = op, !.on = on, !.hinted = hinted]
    IN  /\ call[p].pc = "idle" /\ call[p].n < MaxCalls[p]
        /\ call' = [call EXCEPT ![p] =
                      IF store.local THEN [c EXCEPT !.pc = "locked"]
                      ELSE IF hinted THEN Sending(c, view[p]) ELSE [c EXCEPT !.pc = "read"]]
        /\ open' = open \union {[id |-> <<p, c.n>>, op |-> op, on |-> on]}
        /\ UNCHANGED <<store, object, inflight, view, effects>>

InvokeCreate(p) ==
    \E hinted \in BOOLEAN : (hinted => view[p] = NoRow) /\ Invoke(p, "create", NoRow, hinted)

InvokeSwap(p) ==
    /\ view[p] # NoRow
    /\ \E hinted \in BOOLEAN : Invoke(p, "swap", WrittenBy(view[p]), hinted)

InvokeDelete(p) ==
    \/ Invoke(p, "delete", NoRow, FALSE)
    \/ view[p] # NoRow /\ Invoke(p, "delete", WrittenBy(view[p]), FALSE)

(* The row a call is on: a swap and a fenced delete compare tokens.        *)
OnItsRow(c, obj) == IsLive(obj) /\ (c.on # NoRow => WrittenBy(obj) = c.on)

(* What a call does with the object it read.                               *)
AfterRead(c, obj) ==
    CASE c.op = "create" /\ IsLive(obj) ->
            Answered(c, IF c.lost = "none" THEN "conflict" ELSE c.lost)
      [] c.op = "create" /\ ~IsLive(obj) ->
            IF c.lost # "none" /\ obj = NoRow THEN Answered(c, c.lost) ELSE Sending(c, obj)
      [] c.op = "swap" ->
            IF OnItsRow(c, obj) THEN Sending(c, obj) ELSE Answered(c, "conflict")
      [] c.op = "delete" ->
            IF OnItsRow(c, obj) THEN Sending(c, obj)
            ELSE Answered(c, IF c.on # NoRow THEN "conflict" ELSE "done")

(* A row is deleted long after it was created (a purge waits out a grace,  *)
(* retention-sweep.ts), when the call that created it is over and no copy  *)
(* of its request is under way: one sent again, or late, would create the  *)
(* row once more.                                                          *)
GracePassed(obj) ==
    IsLive(obj) =>
        LET creator == <<obj.incarnation[1], obj.incarnation[2]>>
        IN  /\ \A req \in inflight : req.id # creator
            /\ \A p \in Callers : call[p].pc # "idle" => CallId(p) # creator

ReadRow(p) ==
    LET c == AfterRead(call[p], object)
    IN  /\ call[p].pc = "read"
        /\ call[p].op = "delete" => GracePassed(object)
        /\ Step(p, c)
        /\ IF c.op = "delete" /\ c.outcome = "done" THEN Effect(CallId(p)) ELSE UNCHANGED effects
        /\ UNCHANGED <<store, object, inflight>>

(* A fault of the read after a lost create leaves that conflict standing.  *)
ReadFails(p) ==
    /\ call[p].pc = "read"
    /\ Step(p, Answered(call[p], IF call[p].lost = "none" THEN "unknown" ELSE call[p].lost))
    /\ UNCHANGED <<store, object, inflight, effects>>

Land(req) == object' = req.body /\ Effect(req.id)

(* The store answers the copy under way.  A swap or a delete that finds no *)
(* object is answered 404 rather than 412.                                 *)
Deliver(p) ==
    LET c      == call[p]
        mark(m) == Step(p, [c EXCEPT !.copy = m])
    IN  /\ c.pc = "wait" /\ c.copy = "flying"
        /\ \/ Accepts(Request(p)) /\ mark("landed") /\ Land(Request(p))
           \/ /\ ~Accepts(Request(p)) \/ store.contends
              /\ mark(IF object = NoRow /\ c.seen # NoRow THEN "missing" ELSE "refused")
              /\ UNCHANGED <<object, effects>>
        /\ UNCHANGED <<store, inflight>>

MayResend(c) ==
    /\ c.sends < MaxSends
    /\ IF Removes(c) THEN store.resendsDeletes ELSE store.resendsWrites

(* The answer does not come: the client's retry sends the request again,   *)
(* or the call fails.  A copy the store has not seen yet may arrive later. *)
Unanswered(p) ==
    LET c == call[p]
    IN  /\ c.pc = "wait"
        /\ \/ inflight' = IF c.copy = "flying" THEN inflight \union {Request(p)} ELSE inflight
           \/ UNCHANGED inflight
        /\ Step(p, IF MayResend(c) THEN [c EXCEPT !.copy = "flying", !.sends = @ + 1]
                   ELSE Answered(c, "unknown"))
        /\ UNCHANGED <<store, object, effects>>

LandsLate ==
    \E req \in inflight :
        /\ inflight' = inflight \ {req}
        /\ IF Accepts(req) THEN Land(req) ELSE UNCHANGED <<object, effects>>
        /\ UNCHANGED <<store, view, call, open>>

(* Mutant: a conflict that may be with one's own first copy is reported as *)
(* a lost race.                                                            *)
AfterConflictUnmarked(c, kind) ==
    CASE c.op = "delete" ->
            IF c.attempt < MaxDeleteAttempts THEN [c EXCEPT !.pc = "read", !.copy = "none"]
            ELSE Answered(c, "conflict")
      [] c.op = "create" /\ c.hinted /\ c.lost = "none" ->
            [c EXCEPT !.pc = "read", !.lost = "conflict", !.copy = "none"]
      [] OTHER -> Answered(c, "conflict")

(* A conflict of the write or delete that was sent.                        *)
AfterConflict(c, kind) ==
    CASE c.op = "delete" ->
            IF c.attempt < MaxDeleteAttempts THEN [c EXCEPT !.pc = "read", !.copy = "none"]
            ELSE Answered(c, "conflict")
      [] c.op = "create" /\ c.hinted /\ c.lost = "none" ->
            [c EXCEPT !.pc = "read", !.lost = kind, !.copy = "none"]
      [] OTHER -> Answered(c, kind)

(* A store whose client may have sent a write twice reads the object back  *)
(* to see whether the conflict was with its own first copy, and marks the  *)
(* conflict otherwise; a 404 it marks at once.                             *)
Answer(p) ==
    LET c == call[p]
    IN  /\ c.pc = "wait" /\ c.copy # "flying"
        /\ Step(p, IF c.copy = "landed" THEN Answered(c, "done")
                   ELSE IF Removes(c) \/ ~store.resendsWrites THEN AfterConflict(c, "conflict")
                   ELSE IF c.copy = "missing" THEN AfterConflict(c, "unsettled")
                   ELSE [c EXCEPT !.pc = "readback"])
        /\ UNCHANGED <<store, object, inflight, effects>>

ReadBack(p) ==
    LET c   == call[p]
        own == object # NoRow /\ object.write = WriteOf(p, c)
    IN  /\ c.pc = "readback"
        /\ \/ Step(p, IF own THEN Answered(c, "done") ELSE AfterConflict(c, "unsettled"))
           \/ Step(p, Answered(c, "unknown"))
        /\ UNCHANGED <<store, object, inflight, effects>>

(* Under the row's lock the file is read, compared and renamed over or     *)
(* unlinked.  A fault can come before the rename or after it (the fsync of *)
(* the directory).                                                         *)
LocalStep(p) ==
    LET c    == AfterRead(call[p], object)
        send == c.pc = "wait"
    IN  /\ call[p].pc = "locked"
        /\ call[p].op = "delete" => GracePassed(object)
        /\ \/ send /\ Land(RequestOf(p, c)) /\ \E o \in {"done", "unknown"} : Step(p, Answered(c, o))
           \/ /\ ~send /\ Step(p, c) /\ UNCHANGED object
              /\ IF c.outcome = "done" THEN Effect(CallId(p)) ELSE UNCHANGED effects
           \/ Step(p, Answered(call[p], "unknown")) /\ UNCHANGED <<object, effects>>
        /\ UNCHANGED <<store, inflight>>

Next ==
    \/ LandsLate
    \/ \E p \in Callers :
        \/ Get(p) \/ InvokeCreate(p) \/ InvokeSwap(p) \/ InvokeDelete(p)
        \/ ReadRow(p) \/ ReadFails(p) \/ Deliver(p) \/ Unanswered(p)
        \/ Answer(p) \/ ReadBack(p) \/ LocalStep(p)

Spec == Init /\ [][Next]_vars

-----------------------------------------------------------------------------
(* The object store keeps the promise of a registry, whichever store it    *)
(* is: no write is lost or applied twice, a reported conflict is final.    *)
Promise == INSTANCE Registry WITH
    Callers <- Callers \union {Earlier},
    FirstRows <- {NoRow, [by |-> <<Earlier, 1>>, patches |-> {<<Earlier, 1>>}]},
    row <- IF IsLive(object) THEN [by |-> WrittenBy(object), patches |-> object.patches]
           ELSE NoRow

ImplementsRegistry == Promise!Spec
=============================================================================
