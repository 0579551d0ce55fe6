------------------------------ MODULE Retention ------------------------------
(***************************************************************************)
(* A segment's life under a retention policy: the policy set and cleared   *)
(* (retention.ts), the due index that lists segments by the day they are   *)
(* due (due-index.ts), and the sweep that retires what has expired and,    *)
(* after a grace, removes the rows of its own retirements                  *)
(* (retention-sweep.ts) - beside loads, shreds and drops.                  *)
(*                                                                         *)
(* A due-index pointer is a row of its own; due[b] is the pointer to this  *)
(* segment under day b: whether it is there, and a number no two pointers  *)
(* of that day share, its token.                                           *)
(***************************************************************************)
EXTENDS Drop

CONSTANTS
    Setters,       \* the processes that set or clear the policy, once each
    Expiries,      \* the times they may set
    IndexSweepers, \* the sweepers that scan the due index, not every row
    Starts,        \* the segments to start from, each with the casts that act on it
    Stray,         \* whoever wrote the objects a name without a row has
    Network,       \* in a cast: whatever settles a late write
    SetAttempts,   \* RETENTION_CAS_ATTEMPTS (5)
    Grace,         \* tombstoneGraceMs, in ticks
    DaySpan,       \* ticks in a day
    Lookback,      \* lookbackBuckets (7)
    MaxClock       \* bound: when the clock stops

ASSUME RetentionAssumption ==
    /\ IndexSweepers \subseteq Sweepers
    /\ {SetAttempts, DaySpan} \subseteq Nat \ {0}
    /\ {Grace, Lookback, MaxClock} \subseteq Nat
    \* no policy falls due on a day past the last one
    /\ Expiries \subseteq 1..(MaxClock + Grace)
    /\ \A s \in Starts : s.expiresAt \in 0..(MaxClock + Grace)
    \* no two processes share a name, and Other wrote every row there is
    /\ Sweepers \cap Loaders = {}
    /\ Setters \cap (Loaders \cup Droppers \cup Sweepers) = {}
    /\ Other \notin Droppers \cup Sweepers \cup Setters
    /\ \A s \in Starts :
          /\ s.rowless \/ s.n \in 1..2
          /\ s.mark \in Nat

VARIABLES
    clock,
    due,      \* the due index's pointers to this segment
    removals, \* deletes of the row that got no answer, by the token they are held to
    policy,   \* policy[s]: the state of s's one call
    sweep,    \* sweep[w]: the state of w's current sweep
    cast      \* the processes that act in this behaviour

retentionVars == <<loadVars, pass, drop, faults, clock, due, removals, policy, sweep, cast>>

(* What one action of each kind leaves alone, besides the segment.         *)
besideSetting  == <<load, pass, drop, clock, removals, sweep, cast>>
besideSweeping == <<load, clock, policy, cast>>

Day(t) == t \div DaySpan

Days == 0..Day(MaxClock + Grace)

Filed(b) == due[b].there

FileAt(b) ==
    due' = IF Filed(b) THEN due ELSE [due EXCEPT ![b] = [there |-> TRUE, token |-> @.token + 1]]

UnfileAt(b) == due' = [due EXCEPT ![b].there = FALSE]

(* Held to the token of the pointer that was read, or to none.             *)
AnyToken == 0

Unfile(p) ==
    IF Filed(p.day) /\ p.token \in {AnyToken, due[p.day].token} THEN UnfileAt(p.day)
    ELSE UNCHANGED due

-----------------------------------------------------------------------------
(* setRetention and clearRetention; a call with no expiry clears.          *)

Unset ==
    [pc |-> "start", expiresAt |-> 0, rec |-> NoRow, lost |-> NoRow, waited |-> FALSE, churn |-> 0,
     attempt |-> 0, sent |-> {}, previous |-> {}, unsettled |-> FALSE, held |-> 0, todo |-> {},
     indexed |-> FALSE, alone |-> FALSE, result |-> "none"]

PolicyBecomes(s, c) == policy' = [policy EXCEPT ![s] = c]

EndSet(c, result) ==
    [Unset EXCEPT !.pc = "ended", !.held = c.held, !.indexed = c.indexed, !.alone = c.alone,
                  !.result = result]

Setting(s) == policy[s].pc \notin {"start", "ended"}

Sweeping(w) == sweep[w].pc \notin {"start", "ended"}

(* `alone` stays TRUE while nothing else touches the due index.            *)
BeginSet(s) ==
    /\ policy[s].pc = "start"
    /\ \E e \in Expiries \cup {0} :
          LET c == [Unset EXCEPT !.pc = "read", !.expiresAt = e,
                                 !.alone = /\ \A t \in Setters : ~Setting(t)
                                           /\ \A w \in Sweepers : ~Sweeping(w)]
          IN  policy' = [t \in Setters |-> IF t = s THEN c ELSE [policy[t] EXCEPT !.alone = FALSE]]
    /\ UNCHANGED <<segment, besideSetting, due>> /\ Sound

(* Mutant: a bucket the new policy falls in is cleared like any other.     *)
ReindexForgetsAll(c, held) ==
    [c EXCEPT !.pc = IF held = 0 THEN "forget" ELSE "file", !.held = held,
              !.todo = {Day(t) : t \in c.previous}]

(* The pointers to move: the new one first, then the days left behind.     *)
Reindex(c, held) ==
    [c EXCEPT !.pc = IF held = 0 THEN "forget" ELSE "file", !.held = held,
              !.todo = {Day(t) : t \in c.previous} \ (IF held = 0 THEN {} ELSE {Day(held)})]

Wrote(c, r) == r # NoRow /\ {r.token, r.pointerId} \cap c.sent # {}

SetDecided(c) ==
    LET r == c.rec
        t == [c EXCEPT !.pc = "write",
                       !.previous = IF r = NoRow \/ r.retention.expiresAt = 0 THEN @
                                    ELSE @ \cup {r.retention.expiresAt}]
    IN  IF Wrote(c, r) THEN Reindex(c, IF c.expiresAt = 0 THEN 0 ELSE r.retention.expiresAt)
        ELSE IF c.expiresAt = 0
        THEN IF r = NoRow \/ r.status = "destroyed" THEN EndSet(c, "none")
             ELSE IF r.retention.expiresAt # 0 THEN t
             ELSE IF c.unsettled THEN Reindex(c, 0)
             ELSE EndSet(c, "none")
        ELSE IF r # NoRow /\ r.status = "destroyed" THEN EndSet(c, "error")
        ELSE t

SetChurnMoved(c) ==
    /\ c.lost # NoRow /\ row # NoRow
    /\ ~c.waited /\ c.churn < MaxChurn
    /\ OnlyLeasesDiffer(c.lost, row)

SetRead(s) ==
    LET c == policy[s]
    IN  /\ c.pc = "read"
        /\ PolicyBecomes(s, IF SetChurnMoved(c) THEN [c EXCEPT !.waited = TRUE, !.churn = @ + 1]
                            ELSE SetDecided([c EXCEPT !.rec = row]))
        /\ UNCHANGED <<segment, besideSetting, due>> /\ Sound

SetLostRace(c) ==
    LET t == [c EXCEPT !.lost = c.rec, !.waited = FALSE,
                       !.attempt = IF c.waited THEN @ ELSE @ + 1]
    IN  IF t.attempt < SetAttempts THEN [t EXCEPT !.pc = "read"] ELSE EndSet(t, "error")

SetRequest(s, c) ==
    LET write == <<s, Cardinality(c.sent) + 1>>
    IN  IF c.rec = NoRow THEN CreateOf([currentGen |-> NoGen, retention |-> Until(c.expiresAt)], write)
        ELSE SwapOf(c.rec, [retention |-> [c.rec.retention EXCEPT !.expiresAt = c.expiresAt]], write)

SetWrite(s) ==
    LET c == policy[s]
        w == SetRequest(s, c)
        t == [c EXCEPT !.sent = @ \cup {w.token}]
    IN  /\ c.pc = "write"
        /\ \/ /\ Accepts(w) /\ Apply(w)
              /\ PolicyBecomes(s, Reindex(t, c.expiresAt))
              /\ UNCHANGED inflight /\ Sound
           \/ /\ ~Accepts(w)
              /\ PolicyBecomes(s, SetLostRace(t))
              /\ UNCHANGED <<row, landed, inflight>> /\ Sound
           \/ /\ Accepts(w) /\ Apply(w)
              /\ PolicyBecomes(s, SetLostRace([t EXCEPT !.unsettled = TRUE]))
              /\ UNCHANGED inflight /\ Faulty
           \/ /\ inflight' = inflight \cup {w}
              /\ PolicyBecomes(s, [t EXCEPT !.pc = "ask"])
              /\ UNCHANGED <<row, landed>> /\ Faulty
        /\ UNCHANGED <<objects, others, besideSetting, due>>

SetAsk(s) ==
    LET c == policy[s]
    IN  /\ c.pc = "ask"
        /\ PolicyBecomes(s,
             IF Wrote(c, row) THEN Reindex(c, IF c.expiresAt = 0 THEN 0 ELSE row.retention.expiresAt)
             ELSE IF SameRow(row, c.rec) THEN EndSet(c, "error")
             ELSE SetLostRace([c EXCEPT !.unsettled = TRUE]))
        /\ UNCHANGED <<segment, besideSetting, due>> /\ Sound

(* A create that gets no answer is told by a read of the pointer.          *)
SetFile(s) ==
    LET c == policy[s]
        b == Day(c.held)
    IN  /\ c.pc = "file"
        /\ \/ FileAt(b) /\ PolicyBecomes(s, [c EXCEPT !.pc = "forget", !.indexed = TRUE]) /\ Sound
           \/ /\ PolicyBecomes(s, [c EXCEPT !.pc = "forget", !.indexed = Filed(b)])
              /\ UNCHANGED due /\ Faulty
        /\ UNCHANGED <<segment, besideSetting>>

SetForget(s) ==
    LET c == policy[s]
    IN  /\ c.pc = "forget"
        /\ \/ /\ c.todo = {}
              /\ PolicyBecomes(s, EndSet(c, IF c.held = 0 THEN "cleared" ELSE "set"))
              /\ UNCHANGED due /\ Sound
           \/ \E b \in c.todo :
                 /\ PolicyBecomes(s, [c EXCEPT !.todo = @ \ {b}])
                 /\ \/ UnfileAt(b) /\ Sound
                    \/ UNCHANGED due /\ Faulty
        /\ UNCHANGED <<segment, besideSetting>>

(* A fault that is thrown as it is, or the process dying.                  *)
SetFails(s) ==
    /\ Setting(s)
    /\ PolicyBecomes(s, EndSet(policy[s], "error"))
    /\ UNCHANGED <<segment, besideSetting, due>> /\ Faulty

SetStep(s) ==
    BeginSet(s) \/ SetRead(s) \/ SetWrite(s) \/ SetAsk(s) \/ SetFile(s) \/ SetForget(s) \/ SetFails(s)

-----------------------------------------------------------------------------
(* The sweep: its scan, of every row or of the due days.                   *)

Resting ==
    [pc |-> "start", now |-> 0, rec |-> NoRow, live |-> NoRow, found |-> {}, todo |-> {},
     purge |-> FALSE, result |-> "none"]

SweepBecomes(w, s) == sweep' = [sweep EXCEPT ![w] = s]

EndSweep(result) == [Resting EXCEPT !.pc = "ended", !.result = result]

BeginSweeping(w) ==
    /\ ~Sweeping(w)
    /\ SweepBecomes(w, [Resting EXCEPT !.pc = IF w \in IndexSweepers THEN "pointers" ELSE "row",
                                       !.now = clock])
    /\ policy' = [t \in Setters |-> [policy[t] EXCEPT !.alone = FALSE]]
    /\ UNCHANGED <<segment, load, pass, drop, clock, due, removals, cast>> /\ Sound

(* An index scan reads the days up to this one; a scan of every row comes  *)
(* upon every pointer.                                                     *)
DaysRead(w) ==
    IF w \in IndexSweepers THEN {b \in Days : Day(sweep[w].now) - Lookback <= b /\ b <= Day(sweep[w].now)}
    ELSE Days

Marked(r) == r.retention.mark # 0

(* Mutant: a scan of every row takes the index's word for what is due.     *)
DueIfFiled(s) == ExpiredBy(s.rec, s.now) /\ s.found # {}

IsDue(s) == ExpiredBy(s.rec, s.now)

(* What the scanned row calls for.                                         *)
Judged(s) ==
    LET r == s.rec
    IN  IF r = NoRow THEN [s EXCEPT !.pc = "litter", !.todo = s.found]
        ELSE IF r.status = "destroyed"
        THEN IF ~Marked(r) THEN IF s.found = {} THEN EndSweep("foreign") ELSE [s EXCEPT !.pc = "foreign"]
             ELSE IF s.now - r.retention.mark < Grace THEN EndSweep("young")
             ELSE [s EXCEPT !.pc = "reclaimed", !.purge = TRUE]
        ELSE IF IsDue(s) THEN [s EXCEPT !.pc = "reread"]
        ELSE EndSweep("notDue")

ScanRow(w) ==
    LET s == sweep[w]
    IN  /\ s.pc = "row"
        /\ SweepBecomes(w, IF w \in IndexSweepers THEN Judged([s EXCEPT !.rec = row])
                           ELSE [s EXCEPT !.pc = "pointers", !.rec = row])
        /\ UNCHANGED <<segment, pass, drop, due, removals, besideSweeping>> /\ Sound

ScanPointers(w) ==
    LET s     == sweep[w]
        found == {[day |-> b, token |-> due[b].token] : b \in {b \in DaysRead(w) : Filed(b)}}
    IN  /\ s.pc = "pointers"
        /\ SweepBecomes(w, IF w \notin IndexSweepers THEN Judged([s EXCEPT !.found = found])
                           ELSE IF found = {} THEN EndSweep("nothing")
                           ELSE [s EXCEPT !.pc = "row", !.found = found])
        /\ UNCHANGED <<segment, pass, drop, due, removals, besideSweeping>> /\ Sound

(* A pointer to no row goes, once the row is read again.                   *)
SweepLitter(w) ==
    LET s == sweep[w]
    IN  /\ s.pc = "litter"
        /\ SweepBecomes(w, IF s.todo = {} \/ row # NoRow THEN EndSweep("nothing")
                           ELSE [s EXCEPT !.pc = "unfileLitter"])
        /\ UNCHANGED <<segment, pass, drop, due, removals, besideSweeping>> /\ Sound

(* So do those to a tombstone no sweep wrote.                              *)
SweepForeign(w) ==
    LET s == sweep[w]
    IN  /\ s.pc = "foreign"
        /\ SweepBecomes(w, IF row # NoRow /\ row.status = "destroyed" /\ ~Marked(row)
                           THEN [s EXCEPT !.pc = "unfile", !.todo = s.found]
                           ELSE EndSweep("foreign"))
        /\ UNCHANGED <<segment, pass, drop, due, removals, besideSweeping>> /\ Sound

(* One pointer after another; a refused removal leaves the pointer.        *)
SweepUnfile(w) ==
    LET s    == sweep[w]
        next == IF s.pc = "unfile" THEN "unfile" ELSE "litter"
    IN  /\ s.pc \in {"unfile", "unfileLitter"}
        /\ \/ /\ s.todo = {}
              /\ SweepBecomes(w, EndSweep("unfiled"))
              /\ UNCHANGED due /\ Sound
           \/ \E p \in s.todo :
                 /\ SweepBecomes(w, [s EXCEPT !.pc = next, !.todo = @ \ {p}])
                 /\ \/ Unfile(p) /\ Sound
                    \/ UNCHANGED due /\ Faulty
        /\ UNCHANGED <<segment, pass, drop, removals, besideSweeping>>

-----------------------------------------------------------------------------
(* The purge of a tombstone an earlier sweep wrote, once nothing is listed *)
(* under it.                                                               *)

(* Mutant: whatever is left is the collection's to find.                   *)
ReclaimedAlways(w) ==
    LET s == sweep[w]
    IN  /\ s.pc = "reclaimed"
        /\ SweepBecomes(w, [s EXCEPT !.pc = "remove"])
        /\ UNCHANGED <<segment, pass, drop, due, removals, besideSweeping>> /\ Sound

(* Mutant: what a retirement's deletes left is not collected.             *)
ReclaimedIfEmpty(w) ==
    LET s == sweep[w]
    IN  /\ s.pc = "reclaimed"
        /\ SweepBecomes(w, IF Listed = {} THEN [s EXCEPT !.pc = "remove"] ELSE EndSweep("notEmpty"))
        /\ UNCHANGED <<segment, pass, drop, due, removals, besideSweeping>> /\ Sound

FullyReclaimed(w) ==
    LET s == sweep[w]
    IN  /\ s.pc = "reclaimed"
        /\ IF Listed = {}
           THEN SweepBecomes(w, [s EXCEPT !.pc = "remove"]) /\ UNCHANGED pass
           ELSE /\ SweepBecomes(w, [s EXCEPT !.pc = "collect"])
                /\ PassBecomes(w, [IdlePass EXCEPT !.pc = "row", !.kind = "sweep", !.asked = s.rec])
        /\ UNCHANGED <<segment, drop, due, removals, besideSweeping>> /\ Sound

SweepCollects(w) ==
    /\ sweep[w].pc = "collect"
    /\ PassReadRow(w) \/ PassList(w) \/ PassReadAgain(w) \/ PassCheck(w) \/ PassDelete(w) \/ PassSettle(w)
    /\ UNCHANGED <<drop, due, removals, clock, policy, sweep, cast>> /\ Sound

SweepCollected(w) ==
    LET s == sweep[w]
    IN  /\ s.pc = "collect"
        /\ pass[w].pc = "ended"
        /\ PassBecomes(w, IdlePass)
        /\ SweepBecomes(w, IF Listed = {} THEN [s EXCEPT !.pc = "remove"] ELSE EndSweep("notEmpty"))
        /\ UNCHANGED <<segment, drop, due, removals, besideSweeping>> /\ Sound

(* What a purge's own grace would have filed goes with what was read.      *)
PurgePointers(s) ==
    LET filed == Day(s.rec.retention.mark + Grace)
    IN  s.found \cup (IF \E p \in s.found : p.day = filed THEN {}
                      ELSE {[day |-> filed, token |-> AnyToken]})

Removed(s) ==
    IF s.purge THEN [s EXCEPT !.pc = "unfile", !.todo = PurgePointers(s)] ELSE EndSweep("retired")

NotRemoved(s) == IF s.purge THEN EndSweep("failed") ELSE [s EXCEPT !.pc = "filePurge"]

Removes(token) == row # NoRow /\ row.token = token

(* The delete of the row is held to the token it was judged by.            *)
RemoveRow(w) ==
    LET s == sweep[w]
    IN  /\ s.pc = "remove"
        /\ \/ /\ Removes(s.rec.token)
              /\ row' = NoRow
              /\ SweepBecomes(w, Removed(s))
              /\ UNCHANGED removals /\ Sound
           \/ /\ ~Removes(s.rec.token)
              /\ SweepBecomes(w, IF row = NoRow THEN Removed(s) ELSE NotRemoved(s))
              /\ UNCHANGED <<row, removals>> /\ Sound
           \/ /\ removals' = removals \cup {s.rec.token}
              /\ SweepBecomes(w, [s EXCEPT !.pc = "removeAsk"])
              /\ UNCHANGED row /\ Faulty
        /\ UNCHANGED <<objects, inflight, landed, others, pass, drop, due, besideSweeping>>

RemoveAsk(w) ==
    LET s == sweep[w]
    IN  /\ s.pc = "removeAsk"
        /\ SweepBecomes(w, IF row = NoRow THEN Removed(s) ELSE NotRemoved(s))
        /\ UNCHANGED <<segment, pass, drop, due, removals, besideSweeping>> /\ Sound

-----------------------------------------------------------------------------
(* The retirement of an expired segment.                                   *)

Reread(w) ==
    LET s == sweep[w]
    IN  /\ s.pc = "reread"
        /\ IF row # NoRow /\ row.status # "destroyed" /\ ExpiredBy(row, s.now)
           THEN /\ SweepBecomes(w, [s EXCEPT !.pc = "drop", !.live = row])
                /\ DropBecomes(w, [IdleDrop EXCEPT !.pc = "read", !.kind = "retire", !.now = s.now,
                                                   !.writes = drop[w].writes])
           ELSE SweepBecomes(w, EndSweep("policyChanged")) /\ UNCHANGED drop
        /\ UNCHANGED <<segment, pass, due, removals, besideSweeping>> /\ Sound

SweepDrops(w) ==
    /\ sweep[w].pc = "drop"
    /\ TombstoneStep(w)
    /\ UNCHANGED <<pass, due, removals, clock, policy, sweep, cast>>

SweepDropped(w) ==
    LET s == sweep[w]
        d == drop[w]
    IN  /\ s.pc = "drop"
        /\ d.pc = "ended"
        /\ SweepBecomes(w, IF d.result = "null" THEN EndSweep("policyChanged")
                           ELSE IF d.result = "error" THEN [s EXCEPT !.pc = "fault"]
                           ELSE [s EXCEPT !.pc = "forget", !.purge = FALSE,
                                          !.todo = IF d.any \/ d.remaining # {} THEN {"held"} ELSE {}])
        /\ DropBecomes(w, [IdleDrop EXCEPT !.writes = d.writes])
        /\ UNCHANGED <<segment, pass, due, removals, besideSweeping>> /\ Sound

(* Whether the tombstone landed before the fault.                          *)
AfterFault(w) ==
    LET s == sweep[w]
    IN  /\ s.pc = "fault"
        /\ SweepBecomes(w, IF /\ row # NoRow /\ row.status = "destroyed"
                              /\ row.retention.mark = s.now
                              /\ SameIncarnation(s.live, row)
                           THEN [s EXCEPT !.pc = "filePurge"]
                           ELSE EndSweep("skipped"))
        /\ UNCHANGED <<segment, pass, drop, due, removals, besideSweeping>> /\ Sound

(* The expiry's pointer has done its job.                                  *)
ForgetDue(w) ==
    LET s == sweep[w]
    IN  /\ s.pc = "forget"
        /\ SweepBecomes(w, [s EXCEPT !.pc = IF s.todo = {} THEN "empty" ELSE "filePurge", !.todo = {}])
        /\ \/ UnfileAt(Day(s.live.retention.expiresAt)) /\ Sound
           \/ UNCHANGED due /\ Faulty
        /\ UNCHANGED <<segment, pass, drop, removals, besideSweeping>>

(* A segment that held nothing needs no tombstone.                         *)
RetiredEmpty(w) ==
    LET s == sweep[w]
    IN  /\ s.pc = "empty"
        /\ SweepBecomes(w, IF row # NoRow /\ row.status = "destroyed"
                           THEN [s EXCEPT !.pc = "remove", !.rec = row]
                           ELSE [s EXCEPT !.pc = "filePurge"])
        /\ UNCHANGED <<segment, pass, drop, due, removals, besideSweeping>> /\ Sound

(* Where an index scan finds the tombstone once its grace has passed.      *)
FilePurge(w) ==
    LET s == sweep[w]
    IN  /\ s.pc = "filePurge"
        /\ SweepBecomes(w, EndSweep("retired"))
        /\ \/ FileAt(Day(s.now + Grace)) /\ Sound
           \/ UNCHANGED due /\ Faulty
        /\ UNCHANGED <<segment, pass, drop, removals, besideSweeping>>

SweepStep(w) ==
    \/ BeginSweeping(w) \/ ScanRow(w) \/ ScanPointers(w)
    \/ SweepLitter(w) \/ SweepForeign(w) \/ SweepUnfile(w)
    \/ FullyReclaimed(w) \/ SweepCollects(w) \/ SweepCollected(w) \/ RemoveRow(w) \/ RemoveAsk(w)
    \/ Reread(w) \/ SweepDrops(w) \/ SweepDropped(w) \/ AfterFault(w)
    \/ ForgetDue(w) \/ RetiredEmpty(w) \/ FilePurge(w)

-----------------------------------------------------------------------------
(* The clock.  A tick outlasts every request that is still on its way.     *)
Tick ==
    /\ clock < MaxClock
    /\ inflight = {} /\ removals = {}
    /\ clock' = clock + 1
    /\ UNCHANGED <<loadVars, pass, drop, faults, due, removals, policy, sweep, cast>>

RemovalArrives(t) ==
    /\ t \in removals
    /\ removals' = removals \ {t}
    /\ row' \in {row, IF Removes(t) THEN NoRow ELSE row}
    /\ UNCHANGED <<objects, inflight, landed, others, load, pass, drop, faults, clock, due, policy, sweep, cast>>

(* A row of n generations due at `expiresAt`, under a mark it may have     *)
(* been restored with; or no row and the objects of someone gone.  `spent` *)
(* is how many of the faults are not to happen.                            *)
StartOf(s) ==
    LET meta == [expiresAt |-> s.expiresAt, mark |-> s.mark]
    IN  /\ row = IF s.rowless THEN NoRow ELSE [PublishedRow(s.n, s.key, TRUE) EXCEPT !.retention = meta]
        /\ objects = [g \in Gens |->
                        IF g < s.n THEN [by |-> IF s.rowless THEN Stray ELSE Other, key |-> s.key]
                        ELSE None]
        /\ faults = s.spent
        /\ due = [b \in Days |-> [there |-> b = Day(s.expiresAt) /\ s.expiresAt # 0, token |-> 1]]

Init ==
    /\ \E s \in Starts : StartOf(s) /\ cast \in s.casts
    /\ inflight = {} /\ others = 2 /\ landed = {<<Other, 1>>, <<Other, 2>>}
    /\ LoadInit /\ DropInit
    /\ pass = [c \in Sweepers |-> IdlePass]
    /\ clock = 1 /\ removals = {}
    /\ policy = [s \in Setters |-> Unset]
    /\ sweep = [w \in Sweepers |-> Resting]

besideSegment == <<clock, due, removals, policy, sweep, cast>>

Next ==
    \/ \E p \in Loaders \cap cast :
        (LoadStep(p) \/ Abandon(p)) /\ UNCHANGED <<pass, drop, faults, besideSegment>>
    \/ \E d \in Droppers \cap cast : DropStep(d) /\ UNCHANGED <<pass, besideSegment>>
    \/ \E s \in Setters \cap cast : SetStep(s)
    \/ \E w \in Sweepers \cap cast : SweepStep(w)
    \/ /\ Other \in cast
       /\ \E g \in Gens : TakeLease(g) \/ ReleaseLease(g)
       /\ UNCHANGED <<load, pass, drop, faults, besideSegment>>
    \/ LateWrite /\ UNCHANGED <<load, pass, drop, faults, besideSegment>>
    \/ \E t \in removals : RemovalArrives(t)
    \/ Tick

Spec == Init /\ [][Next]_retentionVars

(* A sweep of every row is run again and again ("run a fleet scan as the   *)
(* repair pass"), its requests are answered or fail, and time passes.      *)
FairSpec ==
    /\ Spec
    /\ WF_retentionVars(Tick)
    /\ WF_retentionVars(\E w \in inflight : WriteIsLost(w) /\ UNCHANGED <<load, pass, drop, faults, besideSegment>>)
    /\ WF_retentionVars(\E t \in removals : RemovalArrives(t))
    /\ \A w \in Sweepers \ IndexSweepers : WF_retentionVars(w \in cast /\ SweepStep(w))

-----------------------------------------------------------------------------
(* Of objects a load put, those it answers for: it is under way, its       *)
(* process died or could not tell, or a fault kept it from reclaiming it.  *)
LoadAnswersFor(g) ==
    LET by == objects[g].by
    IN  /\ by \in Loaders
        /\ ~Ended(load[by]) \/ load[by].result = "unknown" \/ load[by].untidy

(* A sweep retires a row only by a policy that has expired, on the row it  *)
(* replaces: a policy cleared or moved while the sweep was at it holds.    *)
RetiresOnlyExpired ==
    [][/\ Active /\ row' # NoRow /\ row'.status = "destroyed"
       /\ row'.pointerId.write[1] \in Sweepers
       => row'.retention.mark <= clock /\ ExpiredBy(row, row'.retention.mark)]_retentionVars

(* A row that goes is a tombstone a sweep wrote: what a shred or a drop    *)
(* attests to stays, whatever policy or mark the row had.                  *)
AttestationsStay ==
    [][row # NoRow /\ row' = NoRow =>
          /\ row.status = "destroyed"
          /\ row.pointerId.write[1] \in Sweepers]_retentionVars

(* A purge leaves no object behind that nothing can find any more.         *)
PurgeStrandsNothing ==
    row = NoRow => \A g \in Listed : objects[g].by = Stray \/ LoadAnswersFor(g)

(* What a call says of the key: that it discarded it, when one of its      *)
(* writes did, however that write was answered; and no call says so of a   *)
(* key another discarded.                                                  *)
ShredIsTold ==
    \A d \in DOMAIN drop :
        drop[d].result = "done" =>
            drop[d].crypto = (\E t \in drop[d].sent : t.encrypted /\ t.token.write \in landed)

(* A drop that says nothing remains is right for good: a load that was     *)
(* under way puts its object later and takes it away again.                *)
DroppedStaysEmpty ==
    \A d \in Droppers :
        /\ drop[d].kind = "drop" /\ drop[d].result = "done"
        /\ drop[d].destroyed /\ drop[d].remaining = {}
        /\ row # NoRow /\ row.status = "destroyed"
        /\ row.token.incarnation = drop[d].tombstone.incarnation
        => \A g \in Listed : LoadAnswersFor(g)

(* A policy that was said to be indexed is under its day, as long as no    *)
(* other call touches the index.                                           *)
IndexedIsFound ==
    \A s \in Setters :
        /\ policy[s].result = "set" /\ policy[s].indexed /\ policy[s].alone
        /\ Active /\ row.retention.expiresAt = policy[s].held
        => Filed(Day(policy[s].held))

(* What has expired is retired, pointer or none.                           *)
EveryDueIsRetired ==
    (\E w \in Sweepers \ IndexSweepers : w \in cast) /\ Active /\ ExpiredBy(row, clock)
        ~> ~(Active /\ ExpiredBy(row, clock))

(* A retirement's tombstone is purged once its grace has passed.           *)
Purgeable ==
    row # NoRow /\ row.status = "destroyed" /\ Marked(row) /\ clock - row.retention.mark >= Grace

EveryRetiredRowGoes ==
    (\E w \in Sweepers \ IndexSweepers : w \in cast) /\ Purgeable ~> ~Purgeable
=============================================================================
