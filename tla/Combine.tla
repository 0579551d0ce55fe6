------------------------------- MODULE Combine -------------------------------
(***************************************************************************)
(* A batch combine (combine-many.ts): many outputs, each an expression     *)
(* over stored and fed operands, computed in passes over their chunks, key *)
(* by key, under one ledger of resident bytes.  What does not fit is given *)
(* up or put off to a pass of its own; a feed (combine-feed.ts) is read    *)
(* once.  Publishes run a few at a time, each waiting for room.            *)
(*                                                                         *)
(* An expression is one operator over operand names.  A bitmap is a set of *)
(* ids, and its bytes grow by one with each.                               *)
(***************************************************************************)
EXTENDS Integers, SequencesExt

CONSTANTS
    Calls,      \* the calls to check, each as in Call below
    MaxFaults   \* bound: requests and callbacks that fail

(* What one call is.                                                       *)
(*   stored: operand -> claims: key -> the ids its index says it has there *)
(*                      holds: key -> the ids it has                       *)
(*                      pinned                                             *)
(*   outputs: <<[op, of]>>, of the names of operands, in order             *)
(*   records: what the feed yields, each key, ops: name -> ids, and        *)
(*            whether it passes the checks of a record                     *)
(*   names, counts, mayBeEmpty: as in checkFeed; no names, no feed         *)
(*   limit: maxBufferedBytes; budget: maxRequests; publishers              *)

VARIABLES
    call,      \* the call
    pc,        \* what the call does next
    used,      \* the bytes the ledger counts
    reads,     \* chunk reads made
    groups,    \* the groups still to run: outputs, and the bytes of a kept plan
    out,       \* out[o]: the state of output o
    feed,      \* the feed's cursor
    pass,      \* the pass under way
    wave,      \* the publishes of the group that ran last: what waits in its
               \* queue, the workers, and what was replaced as its pass closed
    outside,   \* erased: an erasure ran in the store since the call began;
               \* replaced: the pinned operands their segments moved from
    faults

vars == <<call, pc, used, reads, groups, out, feed, pass, wave, outside, faults>>

None == [key |-> -1, ops |-> <<>>]

NoKey == -1

Stored == DOMAIN call.stored

Outputs == DOMAIN call.outputs

Total(S, bytes(_)) == MapThenSumSet(bytes, S)

-----------------------------------------------------------------------------
(* Sizes, in units of one id: an overhead for each bitmap.                 *)

serializedBound(n) == n

residentBound(n) == 1 + serializedBound(n)

MaxIds == 8

WorkingChunk == residentBound(MaxIds)

StreamBytes == 1

OutputPlan == 1

(* A group's plan holds a key list for each of its outputs.                *)
planBytes(members) == Len(members)

Bytes(ids) == residentBound(Cardinality(ids))

BytesOf(group) == Total(DOMAIN group.ops, LAMBDA x : Bytes(group.ops[x]))

-----------------------------------------------------------------------------
(* The plan (combine-expr.ts): a fed operand can hold any key.             *)

Keys ==
    UNION {DOMAIN call.stored[x].claims : x \in Stored}
        \cup {call.records[i].key : i \in DOMAIN call.records}

Operands(o) == ToSet(call.outputs[o].of)

Fed(o) == Operands(o) \cap call.names

First(o) == call.outputs[o].of[1]

Subtracted(o) ==
    IF call.outputs[o].op = "andNot" THEN ToSet(Tail(call.outputs[o].of)) ELSE {}

KeysOf(x) == IF x \in call.names THEN Keys ELSE DOMAIN call.stored[x].claims

planKeys(o) ==
    LET kids == {KeysOf(x) : x \in Operands(o)}
    IN  CASE call.outputs[o].op = "or"     -> UNION kids
          [] call.outputs[o].op = "and"    -> {k \in Keys : \A ks \in kids : k \in ks}
          [] call.outputs[o].op = "andNot" -> KeysOf(First(o))

(* Whether the keys of o are known before the feed is read.                *)
Rooted(o) ==
    CASE call.outputs[o].op = "or"     -> Fed(o) = {}
      [] call.outputs[o].op = "and"    -> Operands(o) \ Fed(o) # {}
      [] call.outputs[o].op = "andNot" -> First(o) \in Stored

(* The most ids o can have at key k, by the indexes.                       *)
cardAt(o, k) ==
    LET claims == {call.stored[x].claims[k] :
                     x \in {y \in Operands(o) \ Fed(o) : k \in KeysOf(y)}}
    IN  CASE call.outputs[o].op = "or"     ->
                Min({MaxIds, Total({y \in Operands(o) : k \in KeysOf(y)},
                                   LAMBDA y : call.stored[y].claims[k])})
          [] call.outputs[o].op = "and"    -> Min(claims)
          [] call.outputs[o].op = "andNot" -> call.stored[First(o)].claims[k]

rootKeys(o) == IF Rooted(o) THEN planKeys(o) ELSE {}

bound(o) == Total(rootKeys(o), LAMBDA k : residentBound(cardAt(o, k)))

serializedBoundOf(o) == Total(rootKeys(o), LAMBDA k : serializedBound(cardAt(o, k)))

(* The keys of stored operand x that o reads.                              *)
demand(o, x) == IF x \in Operands(o) THEN planKeys(o) \cap KeysOf(x) ELSE {}

fetch(members, x) == UNION {demand(members[i], x) : i \in DOMAIN members}

planReads(members) == Total(Stored, LAMBDA x : Cardinality(fetch(members, x)))

visited(members) ==
    UNION {rootKeys(members[i]) : i \in DOMAIN members} \cup UNION {fetch(members, x) : x \in Stored}

fixedBytes(members) ==
    StreamBytes * Cardinality({x \in Stored : fetch(members, x) # {}}) + planBytes(members)

canHold(o, holds) ==
    CASE call.outputs[o].op = "and"    -> Operands(o) \subseteq holds
      [] call.outputs[o].op = "or"     -> Operands(o) \cap holds # {}
      [] call.outputs[o].op = "andNot" -> First(o) \in holds

(* What a group with these outputs needs: its buffers, its streams, the    *)
(* chunks of a key, the largest objects it writes at once, its plan.       *)
GroupCost(members) ==
    LET os      == ToSet(members)
        read    == UNION {Operands(o) \cap Stored : o \in os}
        written == {Total(top, serializedBoundOf) :
                      top \in {s \in SUBSET os : Cardinality(s) <= call.publishers}}
    IN  Total(os, bound) + StreamBytes * Cardinality(read)
            + (Cardinality(read) + 3) * WorkingChunk + Max(written) + planBytes(members)

-----------------------------------------------------------------------------
(* Outputs.                                                                *)

Waiting ==
    [status |-> "waiting", result |-> "none", chunks |-> <<>>, charged |-> 0,
     serialized |-> 0, solo |-> FALSE, planned |-> FALSE, published |-> <<>>]

(* Mutant: the bytes are given back and the chunks stay.                   *)
KeepsChunks(s) == [s EXCEPT !.charged = 0, !.serialized = 0]

Dropped(s) == [s EXCEPT !.chunks = <<>>, !.charged = 0, !.serialized = 0]

fail(s) ==
    [Dropped(s) EXCEPT !.status = "done", !.result = IF @ = "none" THEN "failed" ELSE @]

FailAll(S) == out' = [o \in Outputs |-> IF o \in S THEN fail(out[o]) ELSE out[o]]

Charged(S) == Total(S, LAMBDA o : out[o].charged)

Live == {o \in ToSet(pass.members) : out[o].status = "live"}

(* Outputs a fault of the feed, of the budget or an erasure gives up.      *)
FedLeft == {o \in Outputs : Fed(o) # {} /\ out[o].status # "done"}

FeedGiven == call.names # {}

Closed(f) ==
    [f EXCEPT !.group = None, !.look = None, !.current = None, !.coming = None, !.held = 0, !.closed = TRUE]

FeedBytes(f) == BytesOf(f.group) + BytesOf(f.look) + BytesOf(f.current) + BytesOf(f.coming)

active(f) == FeedGiven /\ ~f.closed /\ (~f.ended \/ f.group # None \/ f.look # None)

(* failFed: the feed is closed, and what it has a part in fails.           *)
failFed ==
    /\ feed' = Closed(feed)
    /\ FailAll(FedLeft)
    /\ used' = used - feed.held - Charged(FedLeft)

Fits(bytes) == used + bytes <= call.limit

Kept(gs) == Total(DOMAIN gs, LAMBDA i : gs[i].kept)

Unkept(gs) == [i \in DOMAIN gs |-> [gs[i] EXCEPT !.kept = 0]]

Faulty == faults < MaxFaults /\ faults' = faults + 1

-----------------------------------------------------------------------------
(* Reading the indexes and planning, before any chunk is read.             *)

NoPass ==
    [members |-> <<>>, fixed |-> 0, fed |-> FALSE, exact |-> FALSE, last |-> NoKey, key |-> NoKey, todo |-> <<>>,
     begun |-> FALSE, takers |-> <<>>, decoded |-> <<>>, fedHere |-> <<>>, failed |-> {}, done |-> {}]

NoWave == [queue |-> <<>>, workers |-> <<>>, stale |-> {}]

(* Outputs in call order, a group at a time while there is room for the    *)
(* next; a group's plan is kept for its start while that fits.  A call     *)
(* with a feed has one group.                                              *)
formGroups(outputs, base) ==
    LET room == call.limit - base
        flush(f) ==
            LET bytes == planBytes(f.current)
                kept  == IF f.used + bytes <= call.limit THEN bytes ELSE 0
            IN  IF f.current = <<>> THEN f
                ELSE [f EXCEPT !.current = <<>>, !.used = @ + kept,
                               !.groups = Append(@, [members |-> f.current, kept |-> kept])]
        next(f, o) ==
            CASE GroupCost(<<o>>) > room -> [f EXCEPT !.refused = @ \cup {o}]
              [] /\ GroupCost(<<o>>) <= room
                 /\ ~FeedGiven /\ f.current # <<>> /\ GroupCost(Append(f.current, o)) > room ->
                    [flush(f) EXCEPT !.current = <<o>>]
              [] OTHER -> [f EXCEPT !.current = Append(@, o)]
    IN  flush(FoldLeft(next, [refused |-> {}, groups |-> <<>>, current |-> <<>>, used |-> base], outputs))

Planned(gs) == Total(DOMAIN gs, LAMBDA i : planReads(gs[i].members))

(* A plan that does not fit, or needs more reads than the budget, is an    *)
(* error of the whole call.                                                *)
Plan ==
    /\ pc = "plan"
    /\ \E unread \in SUBSET (Stored \cap UNION {Operands(o) : o \in Outputs}) :
          LET outputs == SelectSeq([o \in Outputs |-> o], LAMBDA o : Operands(o) \cap unread = {})
              base    == OutputPlan * Len(outputs)
              formed  == formGroups(outputs, base)
              failed  == (Outputs \ ToSet(outputs)) \cup formed.refused
          IN  /\ faults + Cardinality(unread) <= MaxFaults
              /\ faults' = faults + Cardinality(unread)
              /\ IF base > call.limit \/ Planned(formed.groups) > call.budget
                 THEN pc' = "thrown" /\ UNCHANGED <<used, groups, out>>
                 ELSE /\ pc' = "group" /\ used' = formed.used /\ groups' = formed.groups
                      /\ out' = [o \in Outputs |->
                                   [(IF o \in failed THEN fail(out[o]) ELSE out[o])
                                      EXCEPT !.planned = o \in ToSet(outputs)]]
    /\ UNCHANGED <<call, reads, feed, pass, wave, outside>>

(* runGroup: the next group, or an output that was put off, alone.  Its    *)
(* kept plan is released, and its streams and its plan are charged.        *)
RunGroup ==
    LET off     == {o \in Outputs : out[o].status = "deferred"}
        alone   == groups = <<>>
        next    == IF alone THEN [members |-> <<Min(off)>>, kept |-> 0] ELSE Head(groups)
        rest    == IF alone THEN <<>> ELSE Tail(groups)
        members == SelectSeq(next.members, LAMBDA o : out[o].status \in {"waiting", "deferred"})
        fixed   == fixedBytes(members)
        base    == used - next.kept
        over    == base + fixed > call.limit
        starts  == base + fixed - (IF over THEN Kept(rest) ELSE 0) <= call.limit
        dear    == reads + planReads(members) > call.budget
    IN  /\ pc = "group" /\ (~alone \/ off # {})
        /\ IF members = <<>> \/ dear
           THEN /\ groups' = rest /\ used' = base /\ FailAll(ToSet(members))
                /\ UNCHANGED <<pc, pass>>
           ELSE /\ groups' = IF over THEN Unkept(rest) ELSE rest
                /\ used' = base + (IF starts THEN fixed ELSE 0) - (IF over THEN Kept(rest) ELSE 0)
                /\ IF starts
                   THEN /\ pc' = "head"
                        /\ pass' = [NoPass EXCEPT !.members = members, !.fixed = fixed, !.fed = active(feed)]
                        /\ out' = [o \in Outputs |->
                                     IF o \in ToSet(members)
                                     THEN [out[o] EXCEPT !.status = "live", !.solo = alone] ELSE out[o]]
                   ELSE FailAll(ToSet(members)) /\ UNCHANGED <<pc, pass>>
        /\ UNCHANGED <<call, reads, feed, wave, outside, faults>>

End ==
    /\ pc = "group" /\ groups = <<>> /\ \A o \in Outputs : out[o].status # "deferred"
    /\ pc' = "ended"
    /\ UNCHANGED <<call, used, reads, groups, out, feed, pass, wave, outside, faults>>

-----------------------------------------------------------------------------
(* The feed's cursor (combine-feed.ts).                                    *)

besideFeed == <<call, reads, groups, wave, outside>>

(* Where the pass goes on when the feed has nothing more to say at a key.  *)
AfterFeed == IF pass.key = NoKey THEN "select" ELSE "open"

GivesUpFeed == failFed /\ pc' = AfterFeed

Tallied(name, n) ==
    Total({i \in 1..n : name \in DOMAIN call.records[i].ops},
          LAMBDA i : Cardinality(call.records[i].ops[name]))

(* finish: the counts given are the counts seen, and nothing is empty that *)
(* may not be.                                                             *)
CountsAgree ==
    \A name \in call.names :
        /\ call.counts[name] = Tallied(name, feed.read)
        /\ call.counts[name] = 0 => name \in call.mayBeEmpty

Lacks == IF pc = "fill" THEN feed.group = None ELSE feed.look = None

(* pull: the next record, unless an erasure ran.                           *)
Pull ==
    /\ pc \in {"fill", "complete"}
    /\ Lacks /\ ~feed.ended /\ (pc = "fill" => feed.look = None)
    /\ \/ outside.erased /\ GivesUpFeed /\ UNCHANGED faults
       \/ /\ feed.read < Len(call.records) /\ ~call.records[feed.read + 1].sound
          /\ GivesUpFeed /\ UNCHANGED faults
       \/ ~outside.erased /\ GivesUpFeed /\ Faulty
       \/ /\ ~outside.erased /\ feed.read < Len(call.records)
          /\ LET rec == call.records[feed.read + 1]
             IN  /\ rec.sound
                 /\ feed' = [feed EXCEPT !.read = @ + 1, !.left = DOMAIN rec.ops,
                                         !.coming = [key |-> rec.key, ops |-> <<>>]]
          /\ pc' = "convert" /\ UNCHANGED <<used, out, faults>>
       \/ /\ ~outside.erased
          /\ \/ feed.read = Len(call.records) /\ UNCHANGED faults
             \/ feed.read < Len(call.records) /\ Faulty
          /\ IF CountsAgree
             THEN feed' = [feed EXCEPT !.ended = TRUE, !.passed = TRUE] /\ UNCHANGED <<used, out, pc>>
             ELSE GivesUpFeed
    /\ UNCHANGED <<besideFeed, pass>>

Coming == CHOOSE name \in feed.left : TRUE

(* convert: each operand's bitmap is charged as it is built.  A feed that  *)
(* was closed to make the room has no use for it.                          *)
Convert ==
    LET ids   == call.records[feed.read].ops[Coming]
        group == [key |-> feed.coming.key, ops |-> feed.group.ops @@ feed.coming.ops]
        taken == [feed EXCEPT !.coming = None]
    IN  /\ pc = "convert"
        /\ CASE feed.closed ->
                  Fits(Bytes(ids)) /\ pc' = AfterFeed /\ UNCHANGED <<used, feed>>
             [] ~feed.closed /\ feed.left # {} ->
                  /\ Fits(Bytes(ids)) /\ used' = used + Bytes(ids)
                  /\ feed' = [feed EXCEPT !.left = @ \ {Coming}, !.held = @ + Bytes(ids),
                                          !.coming.ops = @ @@ Coming :> ids]
                  /\ UNCHANGED pc
             [] OTHER ->
                  /\ feed' = IF pass.key = NoKey THEN [taken EXCEPT !.group = feed.coming]
                             ELSE IF feed.coming.key = feed.group.key
                             THEN [taken EXCEPT !.group = group]
                             ELSE [taken EXCEPT !.look = feed.coming]
                  /\ pc' = IF pass.key = NoKey THEN "fill" ELSE "complete"
                  /\ UNCHANGED used
        /\ UNCHANGED <<besideFeed, pass, out, faults>>

(* nextKey, once it has a group or there is none to come.                  *)
Filled ==
    /\ pc = "fill"
    /\ ~Lacks \/ feed.look # None \/ feed.ended
    /\ feed' = IF Lacks THEN [feed EXCEPT !.group = feed.look, !.look = None] ELSE feed
    /\ pc' = "select"
    /\ UNCHANGED <<besideFeed, pass, used, out, faults>>

(* completeKey is done: the group is taken for the key.                    *)
Completed ==
    /\ pc = "complete"
    /\ ~Lacks \/ feed.ended
    /\ feed' = [feed EXCEPT !.current = feed.group, !.group = None]
    /\ pass' = [pass EXCEPT !.fedHere = feed.group.ops]
    /\ pc' = "open"
    /\ UNCHANGED <<besideFeed, used, out, faults>>

-----------------------------------------------------------------------------
(* The pass, a key at a time.                                              *)

besidePass == <<call, groups, wave, outside>>

(* The feed is worth reading while an output that uses it lives.           *)
PassHead ==
    LET idle == pass.fed /\ active(feed) /\ \A o \in Live : Fed(o) = {}
        f    == IF idle THEN Closed(feed) ELSE feed
    IN  /\ pc = "head"
        /\ IF Live = {} THEN pc' = "close" /\ UNCHANGED <<used, feed>>
           ELSE /\ used' = used - (IF idle THEN feed.held ELSE 0)
                /\ feed' = f
                /\ pc' = IF pass.fed /\ active(f) THEN "fill" ELSE "select"
        /\ UNCHANGED <<besidePass, reads, out, pass, faults>>

(* The next key is the lower of the plan's and the feed's.                 *)
Select ==
    LET ahead == {k \in visited(pass.members) : k > pass.last}
        fedAt == IF feed.group = None THEN {} ELSE {feed.group.key}
        key   == Min(ahead \cup fedAt)
    IN  /\ pc = "select"
        /\ IF ahead \cup fedAt = {} THEN pc' = "close" /\ UNCHANGED pass
           ELSE /\ pass' = [pass EXCEPT !.key = key,
                              !.exact = pass.fed \/ Live # ToSet(pass.members),
                              !.todo = SetToSeq({x \in Stored : key \in fetch(pass.members, x)})]
                /\ pc' = IF key \in fedAt THEN "complete" ELSE "open"
        /\ UNCHANGED <<besidePass, used, reads, out, feed, faults>>

(* An output with fed operands is evaluated where it can be non-empty.     *)
needs(o) ==
    Fed(o) = {} \/ canHold(o, {x \in Stored : pass.key \in KeysOf(x)} \cup DOMAIN pass.fedHere)

Wanting(x) == {o \in Live : pass.key \in demand(o, x) /\ needs(o)}

(* failOperand: no more is read of x, and who wants this chunk fails.      *)
failOperand(x, p) ==
    /\ pass' = [p EXCEPT !.failed = @ \cup {x}, !.done = @ \cup {x}]
    /\ FailAll(Wanting(x))
    /\ used' = used - Charged(Wanting(x))

(* Whether the chunk is worth a read, which is asked of an unfed pass only *)
(* at a key that began with an output gone; and whether the operand still  *)
(* may be read: its lease can have ended.                                  *)
Open ==
    LET x        == Head(pass.todo)
        next     == [pass EXCEPT !.todo = Tail(@)]
        unwanted == pass.exact /\ Wanting(x) = {}
    IN  /\ pc = "open"
        /\ IF pass.todo = <<>>
           THEN pc' = "take" /\ UNCHANGED <<used, out, pass, faults>>
           ELSE /\ UNCHANGED pc
                /\ CASE x \in pass.failed -> failOperand(x, next) /\ UNCHANGED faults
                     [] x \in pass.done \ pass.failed ->
                          pass' = next /\ UNCHANGED <<used, out, faults>>
                     [] x \notin pass.done /\ \A o \in Live : x \notin Operands(o) ->
                          pass' = [next EXCEPT !.done = @ \cup {x}] /\ UNCHANGED <<used, out, faults>>
                     [] OTHER ->
                          \/ ~unwanted /\ failOperand(x, next) /\ Faulty
                          \/ /\ pass' = [next EXCEPT !.takers =
                                           Append(@, [operand |-> x, unwanted |-> unwanted, result |-> "none"])]
                             /\ UNCHANGED <<used, out, faults>>
        /\ UNCHANGED <<besidePass, reads, feed>>

(* One chunk of each stream, together.                                     *)
Take ==
    /\ pc = "take"
    /\ \E result \in [DOMAIN pass.takers -> {"bytes", "hole", "rejected"}] :
          LET bad == Cardinality({i \in DOMAIN result : result[i] # "bytes"})
          IN  /\ faults + bad <= MaxFaults
              /\ faults' = faults + bad
              /\ pass' = [pass EXCEPT !.takers =
                            [i \in DOMAIN @ |-> [@[i] EXCEPT !.result = result[i]]]]
    /\ pc' = "decode"
    /\ UNCHANGED <<besidePass, used, reads, out, feed>>

ChunkAt(x) == call.stored[x].holds[pass.key]

(* A chunk nothing wants any more is dropped undecoded.                    *)
Decode ==
    LET t    == Head(pass.takers)
        x    == t.operand
        next == [pass EXCEPT !.takers = Tail(@), !.begun = FALSE]
        read == t.result # "rejected"
    IN  /\ pc = "decode"
        /\ IF pass.takers = <<>>
           THEN /\ pc' = "evaluate" /\ pass' = [pass EXCEPT !.todo = pass.members]
                /\ UNCHANGED <<used, reads, out>>
           ELSE /\ reads' = IF read THEN reads + 1 ELSE reads
                /\ CASE read /\ t.unwanted -> pass' = next /\ UNCHANGED <<used, out>>
                     [] t.result = "rejected" \/ (t.result = "hole" /\ ~t.unwanted) -> failOperand(x, next)
                     [] OTHER ->
                          /\ Fits(Bytes(ChunkAt(x))) /\ used' = used + Bytes(ChunkAt(x))
                          /\ pass' = [next EXCEPT !.decoded = @ @@ (x :> ChunkAt(x))]
                          /\ UNCHANGED out
                /\ UNCHANGED pc
        /\ UNCHANGED <<besidePass, feed, faults>>

At(chunks, x) == IF x \in DOMAIN chunks THEN chunks[x] ELSE {}

(* evaluate, of these chunks.                                              *)
valueOf(o, chunks) ==
    CASE call.outputs[o].op = "or"     -> UNION {At(chunks, x) : x \in Operands(o)}
      [] call.outputs[o].op = "and"    ->
            {i \in At(chunks, First(o)) : \A x \in Operands(o) : i \in At(chunks, x)}
      [] call.outputs[o].op = "andNot" ->
            At(chunks, First(o)) \ UNION {At(chunks, x) : x \in Subtracted(o)}

(* The clone it works on, at its largest.                                  *)
cloneOf(o, chunks) ==
    IF call.outputs[o].op = "or" THEN valueOf(o, chunks) ELSE At(chunks, First(o))

Chunks == pass.fedHere @@ pass.decoded

evaluates(o) ==
    /\ o \in Live
    /\ IF Fed(o) = {} THEN pass.key \in rootKeys(o) ELSE needs(o)

(* evaluateInto.  The value needs no more than its clone did, which has    *)
(* been let go.  An output evicted to make the room buffers nothing.       *)
Evaluate ==
    LET o     == Head(pass.todo)
        value == valueOf(o, Chunks)
        next  == [pass EXCEPT !.todo = Tail(@), !.begun = FALSE]
    IN  /\ pc = "evaluate" /\ pass.todo # <<>>
        /\ pass' = next
        /\ (evaluates(o) \/ pass.begun) /\ cloneOf(o, Chunks) # {} => Fits(Bytes(cloneOf(o, Chunks)))
        /\ IF evaluates(o) /\ value # {}
           THEN /\ used' = used + Bytes(value)
                /\ out' = [out EXCEPT ![o].charged = @ + Bytes(value),
                                      ![o].serialized = @ + serializedBound(Cardinality(value)),
                                      ![o].chunks = Append(@, [key |-> pass.key, ids |-> value])]
           ELSE UNCHANGED <<used, out>>
        /\ UNCHANGED <<besidePass, pc, reads, feed, faults>>

(* The key's chunks and the feed's group are let go.                       *)
KeyDone ==
    /\ pc = "evaluate" /\ pass.todo = <<>>
    /\ used' = used - Total(DOMAIN pass.decoded, LAMBDA x : Bytes(pass.decoded[x])) - BytesOf(feed.current)
    /\ feed' = [feed EXCEPT !.held = @ - BytesOf(feed.current), !.current = None]
    /\ pass' = [pass EXCEPT !.last = pass.key, !.key = NoKey, !.decoded = <<>>, !.fedHere = <<>>]
    /\ pc' = "head"
    /\ UNCHANGED <<besidePass, reads, out, faults>>

(* A feed that was not read to its end is refused; the streams' ranges are *)
(* let go, and what is left is published.                                  *)
Close ==
    LET short == IF pass.fed /\ ~feed.passed THEN FedLeft ELSE {}
    IN  /\ pc = "close"
        /\ FailAll(short)
        /\ feed' = IF pass.fed THEN Closed(feed) ELSE feed
        /\ used' = used - pass.fixed - Charged(short) - (IF pass.fed THEN feed.held ELSE 0)
        /\ wave' = [NoWave EXCEPT !.stale = outside.replaced,
                                  !.queue = SelectSeq(pass.members, LAMBDA o : o \in Live \ short)]
        /\ pass' = [NoPass EXCEPT !.members = pass.members]
        /\ pc' = IF Live \subseteq short THEN "group" ELSE "recheck"
        /\ UNCHANGED <<call, groups, outside, reads, faults>>

-----------------------------------------------------------------------------
(* Making room (reclaim): the plans kept for later groups, then the feed   *)
(* and what it was given to, then the largest buffer that can be built     *)
(* again; and when there is none, a refusal.                               *)

Wanted ==
    CASE pc = "convert" /\ feed.left # {} -> Bytes(call.records[feed.read].ops[Coming])
      [] /\ pc = "decode" /\ pass.takers # <<>>
         /\ Head(pass.takers).result = "bytes" /\ ~Head(pass.takers).unwanted ->
            Bytes(ChunkAt(Head(pass.takers).operand))
      [] /\ pc = "evaluate" /\ pass.todo # <<>>
         /\ evaluates(Head(pass.todo)) \/ pass.begun
         /\ cloneOf(Head(pass.todo), Chunks) # {} ->
            Bytes(cloneOf(Head(pass.todo), Chunks))
      [] OTHER -> 0

fedBytes == feed.held + Charged({o \in Live : Fed(o) # {}})

Evictable == IF Cardinality(Live) > 1 THEN {o \in Live : out[o].charged > 0} ELSE {}

Largest ==
    {o \in Evictable : \A other \in Evictable :
        out[o].charged > out[other].charged \/ (out[o].charged = out[other].charged /\ o <= other)}

(* Mutant: the buffer goes and its bytes stay charged.                     *)
EvictsUnreleased(o) ==
    /\ out' = [out EXCEPT ![o] = [Dropped(@) EXCEPT !.status = "deferred"]]
    /\ UNCHANGED used

evict(o) ==
    /\ out' = [out EXCEPT ![o] = [Dropped(@) EXCEPT !.status = "deferred"]]
    /\ used' = used - out[o].charged

reclaim ==
    /\ Wanted > 0 /\ ~Fits(Wanted)
    /\ \/ /\ Kept(groups) > 0
          /\ groups' = Unkept(groups) /\ used' = used - Kept(groups) /\ UNCHANGED <<out, feed>>
       \/ Kept(groups) = 0 /\ FeedGiven /\ fedBytes > 0 /\ failFed /\ UNCHANGED groups
       \/ /\ Kept(groups) = 0 /\ ~(FeedGiven /\ fedBytes > 0)
          /\ \E o \in Largest : evict(o)
          /\ UNCHANGED <<groups, feed>>
    /\ pass' = [pass EXCEPT !.begun = TRUE]
    /\ UNCHANGED <<call, pc, reads, wave, outside, faults>>

Refuse ==
    /\ Wanted > 0 /\ ~Fits(Wanted)
    /\ Kept(groups) = 0 /\ ~(FeedGiven /\ fedBytes > 0) /\ Largest = {}
    /\ CASE pc = "convert" -> GivesUpFeed /\ UNCHANGED <<pass, reads>>
         [] pc = "decode" ->
              /\ reads' = reads + 1
              /\ failOperand(Head(pass.takers).operand, [pass EXCEPT !.takers = Tail(@), !.begun = FALSE])
              /\ UNCHANGED <<pc, feed>>
         [] pc = "evaluate" ->
              LET o == {Head(pass.todo)} \cap Live
              IN  /\ FailAll(o) /\ used' = used - Charged(o)
                  /\ pass' = [pass EXCEPT !.todo = Tail(@), !.begun = FALSE]
                  /\ UNCHANGED <<pc, reads, feed>>
    /\ UNCHANGED <<besidePass, faults>>

-----------------------------------------------------------------------------
(* Publishing (publishWave).  A subtracted operand that was replaced, or   *)
(* cannot be read again, fails who subtracts it.                           *)

besideWave == <<call, reads, groups, feed, pass>>

Recheck ==
    LET toCheck == {x \in Stored : call.stored[x].pinned /\ \E o \in ToSet(wave.queue) : x \in Subtracted(o)}
    IN  /\ pc = "recheck"
        /\ \E unread \in SUBSET toCheck :
              LET verdict == unread \cup (toCheck \cap outside.replaced)
                  bad     == {o \in ToSet(wave.queue) : Subtracted(o) \cap verdict # {}}
                  queue   == SelectSeq(wave.queue, LAMBDA o : o \notin bad)
              IN  /\ faults + Cardinality(unread) <= MaxFaults
                  /\ faults' = faults + Cardinality(unread)
                  /\ FailAll(bad) /\ used' = used - Charged(bad)
                  /\ wave' = [wave EXCEPT !.queue = queue,
                                !.workers = [w \in 1..Min({call.publishers, Len(queue)}) |->
                                               [at |-> "next", on |-> 0]]]
        /\ pc' = "publish"
        /\ UNCHANGED <<besideWave, outside>>

inFlight == {w \in DOMAIN wave.workers : wave.workers[w].at = "publishing"}

(* Mutant: who waits is left waiting.                                      *)
WakesNone(workers) == workers

(* wake: who waits for room asks again.                                    *)
Woken(workers) ==
    [w \in DOMAIN workers |-> IF workers[w].at = "waiting" THEN [workers[w] EXCEPT !.at = "woken"] ELSE workers[w]]

Suspect(o) == Fed(o) # {} /\ outside.erased

Moves(w, at, on, wv) == [wv EXCEPT !.workers[w] = [at |-> at, on |-> on]]

Lets(w, wv) == wave' = [Moves(w, "next", 0, wv) EXCEPT !.workers = Woken(@)]

Sends(w, o, wv) ==
    /\ out' = [out EXCEPT ![o].status = "publishing"]
    /\ used' = used + out[o].serialized
    /\ wave' = Moves(w, "publishing", o, wv)

(* Mutant: erasures are not asked about again once there is room.          *)
AdmitsAll(w, o, wv) == Sends(w, o, wv)

(* There is room for the object of output o: waiting for it can have taken *)
(* long, so erasures are asked about again.                                *)
Admits(w, o, wv) ==
    IF Suspect(o)
    THEN FailAll({o}) /\ used' = used - out[o].charged /\ Lets(w, wv)
    ELSE Sends(w, o, wv)

(* Worker w asks for room for the object of output o.  It waits while other*)
(* publishes hold some; an output there is no room for runs again alone,   *)
(* if it can.                                                              *)
Asks(w, o, wv) ==
    CASE Fits(out[o].serialized) -> Admits(w, o, wv)
      [] ~Fits(out[o].serialized) /\ inFlight # {} ->
            wave' = Moves(w, "waiting", o, wv) /\ UNCHANGED <<used, out>>
      [] OTHER ->
            /\ out' = [out EXCEPT ![o] = IF @.solo \/ Fed(o) # {} THEN fail(@)
                                         ELSE [Dropped(@) EXCEPT !.status = "deferred"]]
            /\ used' = used - out[o].charged /\ Lets(w, wv)

(* The next of the queue, unless beforePublish throws.                     *)
TakesNext(w) ==
    LET o    == Head(wave.queue)
        rest == [wave EXCEPT !.queue = Tail(@)]
        drop == wave' = rest /\ FailAll({o}) /\ used' = used - out[o].charged
    IN  /\ wave.workers[w].at = "next"
        /\ IF wave.queue = <<>>
           THEN wave' = Moves(w, "gone", 0, wave) /\ UNCHANGED <<used, out, faults>>
           ELSE \/ Suspect(o) /\ drop /\ UNCHANGED faults
                \/ ~Suspect(o) /\ drop /\ Faulty
                \/ ~Suspect(o) /\ Asks(w, o, rest) /\ UNCHANGED faults

AsksAgain(w) ==
    /\ wave.workers[w].at = "woken"
    /\ Asks(w, wave.workers[w].on, wave)
    /\ UNCHANGED faults

(* The publish ends: what it held is let go, and who waits is woken.       *)
Settles(w) ==
    LET o == wave.workers[w].on
    IN  /\ wave.workers[w].at = "publishing"
        /\ \/ /\ out' = [out EXCEPT ![o] = [Dropped(@) EXCEPT !.status = "done", !.result = "ok",
                                                              !.published = out[o].chunks]]
              /\ UNCHANGED faults
           \/ out' = [out EXCEPT ![o] = fail(@)] /\ Faulty
        /\ used' = used - out[o].serialized - out[o].charged
        /\ Lets(w, wave)

Publish ==
    /\ pc = "publish"
    /\ \E w \in DOMAIN wave.workers : TakesNext(w) \/ AsksAgain(w) \/ Settles(w)
    /\ UNCHANGED <<besideWave, pc, outside>>

Published ==
    /\ pc = "publish" /\ \A w \in DOMAIN wave.workers : wave.workers[w].at = "gone"
    /\ pc' = "group" /\ wave' = NoWave
    /\ UNCHANGED <<besideWave, used, out, outside, faults>>

-----------------------------------------------------------------------------
(* The world outside: an erasure of an id in the store, and loads that     *)
(* replace an operand.                                                     *)

Running == pc \notin {"ended", "thrown"}

Erasure ==
    /\ Running /\ FeedGiven /\ ~outside.erased
    /\ outside' = [outside EXCEPT !.erased = TRUE]
    /\ UNCHANGED <<call, pc, used, reads, groups, out, feed, pass, wave, faults>>

Replace(x) ==
    /\ Running /\ call.stored[x].pinned /\ x \notin outside.replaced
    /\ outside' = [outside EXCEPT !.replaced = @ \cup {x}]
    /\ UNCHANGED <<call, pc, used, reads, groups, out, feed, pass, wave, faults>>

Init ==
    /\ call \in Calls
    /\ pc = "plan" /\ used = 0 /\ reads = 0 /\ groups = <<>> /\ faults = 0
    /\ out = [o \in Outputs |-> Waiting]
    /\ feed = [read |-> 0, group |-> None, look |-> None, current |-> None, coming |-> None,
               left |-> {}, held |-> 0, ended |-> FALSE, passed |-> FALSE, closed |-> ~FeedGiven]
    /\ pass = NoPass /\ wave = NoWave
    /\ outside = [erased |-> FALSE, replaced |-> {}]

RunStep ==
    \/ RunGroup \/ End
    \/ Pull \/ Convert \/ Filled \/ Completed
    \/ PassHead \/ Select \/ Open \/ Take \/ Decode \/ Evaluate \/ KeyDone \/ Close
    \/ reclaim \/ Refuse
    \/ Recheck \/ Publish \/ Published

Next == Plan \/ RunStep \/ Erasure \/ \E x \in Stored : Replace(x)

Spec == Init /\ [][Next]_vars

FairSpec == Spec /\ WF_vars(RunStep)

-----------------------------------------------------------------------------
(* Properties.                                                             *)

(* What a feed has of an operand at a key.                                 *)
FedAt(x, k) ==
    UNION {call.records[i].ops[x] :
             i \in {j \in DOMAIN call.records :
                      call.records[j].key = k /\ x \in DOMAIN call.records[j].ops}}

TrueAt(o, k) ==
    valueOf(o, [x \in Operands(o) |->
                  IF x \in call.names THEN FedAt(x, k)
                  ELSE IF k \in DOMAIN call.stored[x].holds THEN call.stored[x].holds[k] ELSE {}])

TrueValue(o) ==
    SelectSeq([i \in 1..(Max(Keys) + 1) |-> [key |-> i - 1, ids |-> TrueAt(o, i - 1)]],
              LAMBDA chunk : chunk.ids # {})

(* What an output publishes is its expression over the whole of its        *)
(* operands, in key order: a buffer that was dropped to make room, a       *)
(* pass that was run again alone, an operand that failed at an earlier key *)
(* or a feed that was closed early leaves no part of a value behind to be  *)
(* published (evictLargest, dropBuffer, failOperand, failFed).             *)
PublishedIsExact ==
    \A o \in Outputs : out[o].result = "ok" => out[o].published = TrueValue(o)

(* The ledger counts what the call holds and no more: its plans, a pass's  *)
(* ranges, buffers, chunks, the feed's bitmaps and the objects being       *)
(* written, each released once, along every way of giving up.  It never    *)
(* passes maxBufferedBytes, nor the reads maxRequests, those of outputs    *)
(* run again included (ResidentLedger, reclaim, settleBudget, runGroup).   *)
BudgetsHold ==
    /\ used <= call.limit /\ reads <= call.budget
    /\ used = OutputPlan * Cardinality({o \in Outputs : out[o].planned})
             + Kept(groups) + pass.fixed + Charged(Outputs)
             + Total(DOMAIN pass.decoded, LAMBDA x : Bytes(pass.decoded[x])) + FeedBytes(feed)
             + Total(inFlight, LAMBDA w : out[wave.workers[w].on].serialized)

(* When an output is sent to be published, no erasure has run since the    *)
(* call began if it was fed, the feed was read to its end and its counts   *)
(* agree, and no operand it subtracts had been replaced when its pass was  *)
(* over (publishWave, failFed).                                            *)
SentIsCurrent(o) ==
    /\ Fed(o) # {} => ~outside.erased /\ feed.passed /\ feed.read = Len(call.records)
    /\ Subtracted(o) \cap wave.stale = {}

NothingStaleIsPublished ==
    [][\A o \in Outputs : out'[o].status = "publishing" /\ out[o].status # "publishing" => SentIsCurrent(o)]_vars

(* A planned call ends with every output settled: none is put off for      *)
(* ever, and no publish waits for room nobody will free (publishWave's     *)
(* wake, the deferred runs of execute).                                    *)
EveryOutputSettles ==
    pc = "group" ~> (pc = "ended" /\ \A o \in Outputs : out[o].result \in {"ok", "failed"})
=============================================================================
