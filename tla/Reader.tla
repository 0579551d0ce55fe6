------------------------------- MODULE Reader -------------------------------
(***************************************************************************)
(* Live reads of one segment through one source: the resolution a read of  *)
(* the row leaves behind, the snapshot built on it, the reader a snapshot  *)
(* opens, and the heals, the timed refresh and the invalidations that move *)
(* a read on (crbm-storage-source.ts, a source with a registry and a timed *)
(* refresh).  Writers are as open as the row allows: they put objects,     *)
(* publish, roll back, drop and collect between any two steps of a read.   *)
(* A row is known by its place in the history, which stands for the        *)
(* pointerId that every such write renews.                                 *)
(***************************************************************************)
EXTENDS Integers, Sequences, FiniteSets

CONSTANTS
    Tasks,      \* the reads one process has running at once
    Kinds,      \* what each may read: a count, a chunk or a stream of two
    Unnamed,    \* the objects whose row has no summary of them
    TTL,        \* currentGenTtlMs
    Retry,      \* REFRESH_RETRY_MS
    MaxClock,   \* bound: when the clock stops
    MaxGen,     \* bound: the highest generation number
    MaxRows,    \* bound: the rows of a history
    MaxObjects, \* bound: the objects ever put
    MaxReads,   \* bound: the reads ever begun
    MaxFaults   \* bound: the faults, evictions and invalidations

ASSUME ReaderAssumption ==
    /\ {MaxClock, MaxGen, MaxRows, MaxObjects, MaxReads, MaxFaults} \subseteq Nat
    /\ Unnamed \subseteq 1..MaxObjects
    /\ TTL \in 1..MaxClock /\ Retry \in 1..TTL
    /\ Kinds \in [Tasks -> SUBSET {"count", "chunk", "stream"}]

VARIABLES
    now,    \* the clock
    rows,   \* the rows the segment has had, the last one current
    files,  \* generation number -> the object under its key, 0 for none
    puts,   \* how many objects were ever put, the last one's name
    memo,   \* what the source keeps: its resolutions and snapshots, ever
            \* made, the snapshot it holds and the resolution it keeps
    epoch,  \* how many times invalidate has run
    told,   \* the row that was current when it last ran
    outage, \* when a read of the row last rode out a fault
    faults, \* the faults, evictions and invalidations so far
    begun,  \* the reads so far
    task,   \* where each read is
    answer  \* what the last step handed out

world == <<rows, files, puts>>
spent == <<epoch, told, outage, faults>>
vars == <<now, world, memo, spent, begun, task, answer>>

Forever == MaxClock + 1

Gone == [generation |-> -1, object |-> 0, named |-> FALSE, until |-> Forever]

Idle == [pc |-> "idle", kind |-> "chunk", snap |-> 0, on |-> 0, live |-> 0,
         seen |-> FALSE, epoch |-> 0, left |-> 0, healed |-> FALSE,
         oldest |-> 0, outage |-> 0, told |-> 0, since |-> 0]

Nothing == [what |-> "nothing", row |-> 0, object |-> 0, read |-> Idle]

Silent == answer' = Nothing

Current == rows[Len(rows)]

-----------------------------------------------------------------------------
(* The segment's writers and collectors.                                   *)

MovesTo(row) ==
    /\ Len(rows) < MaxRows
    /\ rows' = Append([rows EXCEPT ![Len(rows)].until = now], row)
    /\ UNCHANGED <<now, memo, spent, begun, task>> /\ Silent

(* A publish, of a number that is free, or a rollback to an object still   *)
(* there.  The row carries a summary, which names the object, or has no    *)
(* room for one.                                                           *)
PointsAt(g) ==
    LET object == IF files[g] = 0 THEN puts + 1 ELSE files[g]
    IN  /\ IF files[g] = 0 THEN g > Current.generation ELSE g < Current.generation
        /\ object <= MaxObjects
        /\ MovesTo([generation |-> g, object |-> object, until |-> Forever,
                    named |-> object \notin Unnamed])
        /\ puts' = IF files[g] = 0 THEN object ELSE puts
        /\ files' = [files EXCEPT ![g] = object]

Drop == Current.generation >= 0 /\ MovesTo(Gone) /\ UNCHANGED <<files, puts>>

Collect(g) ==
    /\ files[g] # 0 /\ g # Current.generation
    /\ files' = [files EXCEPT ![g] = 0]
    /\ UNCHANGED <<now, rows, puts, memo, spent, begun, task>> /\ Silent

-----------------------------------------------------------------------------
(* What the source keeps.                                                  *)

expired(m, q) == now - m.resolutions[q].sentAt >= TTL

RowOf(m, q) == rows[m.resolutions[q].row]

(* A snapshot built on a resolution already found is resolved at once.     *)
snapshotOn(m, q) ==
    LET snap == [resolution |-> q,
                 prior |-> IF m.held # 0 /\ m.snapshots[m.held].reader # "unasked"
                           THEN m.held ELSE 0,
                 replaces |-> IF m.held # 0 THEN m.snapshots[m.held].resolution ELSE 0,
                 target |-> IF m.resolutions[q].state = "found" THEN "live" ELSE "due",
                 reader |-> "unasked", row |-> 0, object |-> 0]
    IN  [m EXCEPT !.snapshots = Append(@, snap), !.held = Len(m.snapshots) + 1]

resolveNow(m) ==
    LET sent == [state |-> "sent", row |-> Len(rows), sentAt |-> now, rodeOut |-> 0,
                 prior |-> IF m.held # 0 THEN m.snapshots[m.held].resolution ELSE 0]
    IN  [m EXCEPT !.resolutions = Append(@, sent), !.kept = Len(m.resolutions) + 1]

(* The source once a read has asked it for the live snapshot, which is     *)
(* then the one it holds.                                                  *)
liveSnapshot(m) ==
    LET existing == IF m.held # 0 THEN m.snapshots[m.held].resolution ELSE 0
    IN  CASE existing # 0 /\ ~expired(m, existing) -> m
          [] /\ existing = 0 \/ expired(m, existing)
             /\ m.kept \notin {0, existing}
             /\ ~expired(m, m.kept) -> snapshotOn(m, m.kept)
          [] OTHER -> LET r == resolveNow(m) IN snapshotOn(r, r.kept)

(* Mutant: the snapshot goes, the resolution it was built on stays.        *)
DropSnapshotOnly(m, s) == IF m.held = s THEN [m EXCEPT !.held = 0] ELSE m

dropStale(m, s) ==
    LET q == m.snapshots[s].resolution
    IN  [m EXCEPT !.held = IF @ # 0 /\ m.snapshots[@].resolution = q THEN 0 ELSE @,
                  !.kept = IF @ = q THEN 0 ELSE @]

asks(m, s) ==
    [m EXCEPT !.snapshots[s].reader = IF @ = "unasked" THEN "asked" ELSE @]

(* What a resolution that has landed makes of the snapshot s on it: a      *)
(* ride-out is served to the snapshot that replaced the one it rode on.    *)
TargetOn(m, s) ==
    LET q == m.snapshots[s].resolution
        r == m.resolutions[q]
    IN  CASE r.state = "failed" -> "failed"
          [] r.state = "found" /\ RowOf(m, q).generation < 0 -> "none"
          [] r.rodeOut \notin {0, m.snapshots[s].replaces} -> "failed"
          [] OTHER -> "live"

(* Resolution q lands as r, with what the source forgets as it does.       *)
lands(q, r) ==
    LET m == [memo EXCEPT !.resolutions[q] = r]
        landed == [m EXCEPT !.resolutions[q].prior = 0, !.resolutions[q].rodeOut = 0]
        on == {s \in DOMAIN m.snapshots : m.snapshots[s].resolution = q}
        isKept == r.state = "found" /\ RowOf(m, q).generation >= 0 /\ r.rodeOut = 0
    IN  [landed EXCEPT
           !.snapshots = [s \in DOMAIN @ |->
               IF s \in on THEN [@[s] EXCEPT !.target = TargetOn(m, s), !.replaces = 0]
               ELSE @[s]],
           !.held = IF @ \in on /\ TargetOn(m, @) # "live" THEN 0 ELSE @,
           !.kept = IF @ = q /\ ~isKept THEN 0 ELSE @]

(* The registry answers with a row that was current since it was asked.    *)
Answered(q, v) ==
    LET r == memo.resolutions[q]
    IN  /\ r.state = "sent" /\ v \in r.row..Len(rows)
        /\ memo' = lands(q, [r EXCEPT !.state = "found", !.row = v])
        /\ UNCHANGED <<now, world, spent, begun, task>> /\ Silent

(* It fails with a transient fault: a read with a snapshot to fall back on *)
(* waits for what that one found.                                          *)
Faulted(q) ==
    LET r == memo.resolutions[q]
    IN  /\ r.state = "sent" /\ faults < MaxFaults
        /\ faults' = faults + 1
        /\ memo' = IF r.prior = 0 THEN lands(q, [r EXCEPT !.state = "failed"])
                   ELSE [memo EXCEPT !.resolutions[q].state = "fault"]
        /\ UNCHANGED <<now, world, epoch, told, outage, begun, task>> /\ Silent

retrySoon == now - (TTL - Retry)

(* The prior resolution's row serves on, and lapses soon.                  *)
RideOut(q) ==
    LET r == memo.resolutions[q]
        p == memo.resolutions[r.prior]
    IN  /\ r.state = "fault" /\ p.state = "found" /\ RowOf(memo, r.prior).generation >= 0
        /\ memo' = lands(q, [r EXCEPT !.state = "found", !.row = p.row,
                                       !.sentAt = retrySoon, !.rodeOut = r.prior])
        /\ outage' = now
        /\ UNCHANGED <<now, world, epoch, told, faults, begun, task>> /\ Silent

(* The prior resolution found nothing to serve: the row is read once more. *)
ReadAgain(q) ==
    LET r == memo.resolutions[q]
        p == memo.resolutions[r.prior]
    IN  /\ r.state = "fault"
        /\ \/ p.state = "failed"
           \/ p.state = "found" /\ RowOf(memo, r.prior).generation < 0
        /\ memo' = [memo EXCEPT !.resolutions[q] =
                      [r EXCEPT !.state = "sent", !.row = Len(rows), !.prior = 0]]
        /\ UNCHANGED <<now, world, spent, begun, task>> /\ Silent

-----------------------------------------------------------------------------
(* A snapshot's reader.                                                    *)

HasSettled(snap) == snap.reader \in {"open", "none"}

(* The prior snapshot's reader is waited for while it opens.               *)
PriorIsOpening(snap) == snap.prior # 0 /\ memo.snapshots[snap.prior].reader = "asked"

(* Mutant: a reader kept by its generation number alone.                   *)
ReusesNumber(snap) ==
    /\ snap.prior # 0 /\ memo.snapshots[snap.prior].reader = "open"
    /\ LET r == RowOf(memo, snap.resolution)
       IN  rows[memo.snapshots[snap.prior].row].generation = r.generation

(* A refresh that found the same generation and pointerId, and the object  *)
(* the row names, keeps the reader.                                        *)
reuse(snap) ==
    /\ snap.prior # 0 /\ memo.snapshots[snap.prior].reader = "open"
    /\ memo.snapshots[snap.prior].row = memo.resolutions[snap.resolution].row
    /\ LET r == RowOf(memo, snap.resolution)
       IN  r.named => r.object = memo.snapshots[snap.prior].object

Reused(snap) ==
    LET before == memo.snapshots[snap.prior]
    IN  [snap EXCEPT !.reader = "open", !.prior = 0, !.row = before.row,
                     !.object = before.object]

(* A count that opened nothing keeps the reader for the read after it.     *)
adopt(s) ==
    LET snap == memo.snapshots[s]
    IN  /\ snap.reader = "unasked" /\ snap.target = "live"
        /\ snap.prior # 0 /\ ~PriorIsOpening(snap)
        /\ memo' = [memo EXCEPT !.snapshots[s] =
                      IF reuse(snap) THEN Reused(snap) ELSE [snap EXCEPT !.prior = 0]]
        /\ UNCHANGED <<now, world, spent, begun, task>> /\ Silent

(* The object under the generation's key, refused when it is not the one   *)
(* the row's summary names.                                                *)
openLive(snap) ==
    LET r == RowOf(memo, snap.resolution)
        found == files[r.generation]
    IN  IF found = 0 \/ (r.named /\ r.object # found)
        THEN [snap EXCEPT !.reader = "missing", !.prior = 0]
        ELSE [snap EXCEPT !.reader = "open", !.prior = 0, !.object = found,
                          !.row = memo.resolutions[snap.resolution].row]

opened(snap) ==
    CASE snap.target = "none" -> [snap EXCEPT !.reader = "none", !.prior = 0]
      [] snap.target = "failed" -> [snap EXCEPT !.reader = "failed", !.prior = 0]
      [] snap.target = "live" /\ reuse(snap) -> Reused(snap)
      [] OTHER -> openLive(snap)

(* The reader opens, or fails, and a failed one is forgotten as it lands.  *)
Open(s) ==
    LET snap == memo.snapshots[s]
        after == [memo EXCEPT !.snapshots[s] = opened(snap)]
    IN  /\ snap.reader = "asked" /\ snap.target # "due"
        /\ (snap.target = "live" => ~PriorIsOpening(snap))
        /\ memo' = IF HasSettled(opened(snap)) THEN after ELSE dropStale(after, s)
        /\ UNCHANGED <<now, world, spent, begun, task>> /\ Silent

-----------------------------------------------------------------------------
(* The reads.                                                              *)

(* What a read that looks now is held to: the oldest row that was current  *)
(* less than a TTL ago, or any at all within a retry of an outage.         *)
Looking(read) ==
    LET fresh == {v \in DOMAIN rows : rows[v].until > now - TTL \/ outage > now - Retry}
    IN  [read EXCEPT !.oldest = CHOOSE v \in fresh : \A w \in fresh : v <= w,
                     !.outage = outage, !.told = told]

(* Task t asks the source for its segment, beginning or over again.  A     *)
(* count asks for no reader yet.                                           *)
Resolves(t, m, read) ==
    LET l == liveSnapshot(m)
    IN  /\ memo' = IF read.kind = "count" THEN l ELSE asks(l, l.held)
        /\ task' = [task EXCEPT ![t] =
                      [Looking(read) EXCEPT !.pc = "reading", !.snap = l.held,
                                            !.on = l.held, !.epoch = epoch,
                                            !.seen = TRUE]]

Begin(t, kind) ==
    /\ task[t].pc = "idle" /\ begun < MaxReads
    /\ begun' = begun + 1
    /\ Resolves(t, memo, [Idle EXCEPT !.kind = kind, !.since = Len(rows),
                                      !.left = IF kind = "stream" THEN 2 ELSE 1])
    /\ UNCHANGED <<now, world, spent>> /\ Silent

Says(read, what, row, object) ==
    answer' = [what |-> what, row |-> row, object |-> object, read |-> read]

Ends(t) == task' = [task EXCEPT ![t] = Idle]

(* What ends a count is its resolution, any other read its reader.         *)
Fails(t) ==
    LET snap == memo.snapshots[task[t].on]
        came == IF task[t].kind = "count" THEN snap.target ELSE snap.reader
    IN  /\ task[t].pc = "reading" /\ came \in {"failed", "none"}
        /\ IF came = "failed" THEN Says(task[t], "fault", 0, 0)
           ELSE Says(task[t], "none", memo.resolutions[snap.resolution].row, 0)
        /\ Ends(t)
        /\ UNCHANGED <<now, world, memo, spent, begun>>

AnswersFromRow(t) ==
    LET snap == memo.snapshots[task[t].on]
    IN  task[t].kind = "count" /\ snap.target = "live" /\ RowOf(memo, snap.resolution).named

(* A count from the row's summary, or else from the object's index.        *)
described(t) ==
    LET snap == memo.snapshots[task[t].on]
        v == memo.resolutions[snap.resolution].row
    IN  /\ task[t].pc = "reading" /\ task[t].kind = "count" /\ snap.target = "live"
        /\ \/ AnswersFromRow(t) /\ Says(task[t], "object", v, rows[v].object) /\ Ends(t)
           \/ /\ ~AnswersFromRow(t) /\ snap.reader = "open"
              /\ Says(task[t], "object", snap.row, snap.object) /\ Ends(t)
        /\ UNCHANGED <<now, world, memo, spent, begun>>

(* With no summary in the row the count opens the object.                  *)
CountsObject(t) ==
    LET snap == memo.snapshots[task[t].on]
    IN  /\ task[t].pc = "reading" /\ task[t].kind = "count" /\ snap.target = "live"
        /\ ~AnswersFromRow(t) /\ snap.reader = "unasked"
        /\ memo' = asks(memo, task[t].on)
        /\ UNCHANGED <<now, world, spent, begun, task>> /\ Silent

HasReader(t, kind) ==
    /\ task[t].pc = "reading" /\ task[t].kind = kind
    /\ memo.snapshots[task[t].on].reader = "open"

(* A chunk of the object the reader opened, from its key, asked for at     *)
(* some instant since, or from the bytes the open kept.                    *)
getChunk(t) ==
    LET reader == memo.snapshots[task[t].on]
    IN  /\ HasReader(t, "chunk")
        /\ Says(task[t], "object", reader.row, reader.object) /\ Ends(t)
        /\ UNCHANGED <<now, world, memo, spent, begun>>

(* The object is gone at its open, or gone or replaced under its key when  *)
(* a range is asked for, as its footer tells.                              *)
Missed(t) ==
    LET reader == memo.snapshots[task[t].on]
    IN  /\ task[t].pc = "reading" /\ ~AnswersFromRow(t)
        /\ \/ reader.reader = "missing"
           \/ /\ task[t].kind # "count" /\ reader.reader = "open"
              /\ files[rows[reader.row].generation] # reader.object

(* Healed once with no chunk between, from the start.                      *)
Heal(t) ==
    /\ Missed(t)
    /\ IF task[t].healed
       THEN Says(task[t], "missing", 0, 0) /\ Ends(t) /\ memo' = memo
       ELSE /\ Resolves(t, dropStale(memo, task[t].snap), [task[t] EXCEPT !.healed = TRUE])
            /\ Silent
    /\ UNCHANGED <<now, world, spent, begun>>

-----------------------------------------------------------------------------
(* A stream, before it hands out a chunk it was sent.                      *)

mayHaveMoved(t) ==
    LET q == memo.snapshots[task[t].snap].resolution
    IN  task[t].epoch # epoch \/ expired(memo, q) \/ memo.kept # q

(* The chunk is handed out; what read there is looks at it from read.      *)
Yields(t, read) ==
    LET reader == memo.snapshots[read.on]
    IN  /\ Says(read, "object", reader.row, reader.object)
        /\ task' = [task EXCEPT ![t] = IF read.left = 1 THEN Idle ELSE
                      [read EXCEPT !.pc = "reading", !.left = @ - 1, !.healed = FALSE]]

(* The chunk comes from the snapshot the segment still has, or the stream  *)
(* waits for what the new one resolves to.                                 *)
HandOut(t) ==
    LET read == Looking(task[t])
        seesAnew(m, s) == ~read.seen /\ HasSettled(m.snapshots[s])
        l == liveSnapshot(memo)
    IN  /\ HasReader(t, "stream")
        /\ IF mayHaveMoved(t) \/ seesAnew(memo, read.snap)
           THEN /\ memo' = l
                /\ IF l.held = read.snap /\ ~seesAnew(l, l.held)
                   THEN Yields(t, [read EXCEPT !.epoch = epoch])
                   ELSE /\ task' = [task EXCEPT ![t] =
                              [read EXCEPT !.pc = "comparing", !.live = l.held,
                                           !.seen = HasSettled(l.snapshots[l.held])]]
                        /\ Silent
           ELSE Yields(t, read) /\ memo' = memo
        /\ UNCHANGED <<now, world, spent, begun>>

(* Mutant: the new snapshot compared by its generation number.             *)
ReadsNumber(read) ==
    LET other == memo.snapshots[read.live]
    IN  /\ other.target = "live"
        /\ RowOf(memo, other.resolution).generation =
              rows[memo.snapshots[read.on].row].generation

(* By the reader, when the new snapshot's had opened, or by the row.       *)
readsObjectOf(read) ==
    LET other == memo.snapshots[read.live]
        reader == memo.snapshots[read.on]
    IN  IF read.seen THEN other.row = reader.row /\ other.object = reader.object
        ELSE other.target = "live" /\ memo.resolutions[other.resolution].row = reader.row

Compare(t) ==
    LET read == task[t]
        other == memo.snapshots[read.live]
    IN  /\ read.pc = "comparing" /\ (read.seen \/ other.target # "due")
        /\ IF readsObjectOf(read)
           THEN /\ Yields(t, [read EXCEPT !.snap = read.live, !.epoch = epoch])
                /\ memo' = memo
           ELSE /\ Resolves(t, memo, [read EXCEPT !.healed = FALSE])
                /\ Silent
        /\ UNCHANGED <<now, world, spent, begun>>

-----------------------------------------------------------------------------
(* What moves a read on besides the clock.                                 *)

(* The store that erased, dropped or shredded tells its source.            *)
invalidate ==
    /\ faults < MaxFaults /\ faults' = faults + 1
    /\ epoch' = epoch + 1 /\ told' = Len(rows)
    /\ memo' = [memo EXCEPT !.held = 0, !.kept = 0]
    /\ UNCHANGED <<now, world, outage, begun, task>> /\ Silent

(* Either cache lets the segment go under pressure.                        *)
Evict ==
    /\ faults < MaxFaults /\ faults' = faults + 1
    /\ \/ memo.held # 0 /\ memo' = [memo EXCEPT !.held = 0]
       \/ memo.kept # 0 /\ memo' = [memo EXCEPT !.kept = 0]
    /\ UNCHANGED <<now, world, epoch, told, outage, begun, task>> /\ Silent

Tick ==
    /\ now < MaxClock
    /\ now' = now + 1
    /\ UNCHANGED <<world, memo, spent, begun, task>> /\ Silent

Init ==
    /\ now = 0
    /\ files = [g \in 0..MaxGen |-> IF g = 0 THEN 1 ELSE 0]
    /\ puts = 1
    /\ rows = <<[generation |-> 0, object |-> 1, named |-> 1 \notin Unnamed,
                until |-> Forever]>>
    /\ memo = [resolutions |-> <<>>, snapshots |-> <<>>, held |-> 0, kept |-> 0]
    /\ epoch = 0 /\ told = 1 /\ outage = -TTL /\ faults = 0 /\ begun = 0
    /\ task = [t \in Tasks |-> Idle]
    /\ answer = Nothing

Written == Drop \/ \E g \in 0..MaxGen : PointsAt(g) \/ Collect(g)

Kept ==
    \/ \E q \in DOMAIN memo.resolutions :
          \/ \E v \in DOMAIN rows : Answered(q, v)
          \/ Faulted(q) \/ RideOut(q) \/ ReadAgain(q)
    \/ \E s \in DOMAIN memo.snapshots : adopt(s) \/ Open(s)
    \/ invalidate \/ Evict

Read ==
    \E t \in Tasks :
        \/ \E kind \in Kinds[t] : Begin(t, kind)
        \/ Fails(t) \/ described(t) \/ CountsObject(t) \/ getChunk(t)
        \/ Heal(t) \/ HandOut(t) \/ Compare(t)

(* Bound: nothing moves before the first read, or after the last.          *)
Watched == begun > 0 /\ (begun < MaxReads \/ \E t \in Tasks : task[t].pc # "idle")

Next == Read \/ (Watched /\ (Written \/ Kept \/ Tick))

Spec == Init /\ [][Next]_vars

-----------------------------------------------------------------------------
(* What a read hands out was the segment's at some instant less than a TTL *)
(* before the read, or the chunk of a stream, last looked; past an outage  *)
(* of the registry, no later than one retry after it.  A row whose summary *)
(* names its object answers for no other object.                           *)
AnswersAreFresh ==
    answer.what \in {"object", "none"} =>
        /\ answer.row >= answer.read.oldest \/ outage # answer.read.outage
        /\ rows[answer.row].named => answer.object = rows[answer.row].object

(* What a read, or a stream's next chunk, that looks after an invalidation *)
(* hands out is of the row current then, or of a later one, whatever was   *)
(* in flight and whatever fault the registry's reads meet.                 *)
InvalidationIsHeeded ==
    answer.what \in {"object", "none"} => answer.row >= answer.read.told

(* A read that finds its generation gone, or its number taken again, ends  *)
(* in an answer unless the row moved while it read, or the registry was    *)
(* out: a heal reads the row anew, and never opens what was just found     *)
(* gone.                                                                   *)
MissIsARace ==
    answer.what = "missing" /\ outage < 0 => Len(rows) > answer.read.since

(* A swept generation heals forward: a missing object reaches the caller   *)
(* only when the row moved again after the read found its first one gone.  *)
OneMoveIsHealed ==
    answer.what = "missing" /\ outage < 0 => Len(rows) > answer.read.since + 1
=============================================================================
