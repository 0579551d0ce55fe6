-------------------------------- MODULE Drop --------------------------------
(***************************************************************************)
(* Shred and drop (erasure.ts): turn the row into a tombstone with one     *)
(* conditional write, settle what an unanswered one did, and for a drop    *)
(* delete what is listed under it, in several passes.  A drop of a name    *)
(* with objects and no row makes the tombstone itself; a retention sweep   *)
(* retires a row through the same calls.  drop[d] is the state of d's call.*)
(***************************************************************************)
EXTENDS Collect

CONSTANTS
    Droppers,      \* the processes that shred or drop, once each
    Sweepers,      \* those that sweep by policy, over and over
    DropAttempts,  \* MAX_CAS_ATTEMPTS (8)
    DropPasses,    \* MAX_STORAGE_SWEEPS (3)
    MaxFaults      \* bound: requests that fail or get no true answer

ASSUME DropAssumption ==
    /\ Droppers \cap (Loaders \cup Sweepers) = {}
    /\ {DropAttempts, DropPasses} \subseteq Nat \ {0}
    /\ MaxFaults \in Nat

VARIABLES
    drop,
    faults  \* how many requests failed so far

dropVars == <<loadVars, drop, faults>>

(* kind "destroy" leaves the objects and refuses a cleartext segment.      *)
IdleDrop ==
    [pc |-> "start", kind |-> "none", now |-> 0, rec |-> NoRow, lost |-> NoRow,
     waited |-> FALSE, churn |-> 0, attempt |-> 0, sent |-> {}, writes |-> 0,
     claimed |-> FALSE, unanswered |-> FALSE, destroyed |-> FALSE, crypto |-> FALSE, reason |-> "none",
     tombstone |-> None, todo |-> {}, gone |-> FALSE, any |-> FALSE, passes |-> 0,
     remaining |-> {}, result |-> "none"]

DropInit == drop = [d \in Droppers \cup Sweepers |-> IdleDrop]

DropBecomes(d, s) == drop' = [drop EXCEPT ![d] = s]

Faulty == faults < MaxFaults /\ faults' = faults + 1

Sound == UNCHANGED faults

EndDrop(s, result) ==
    [IdleDrop EXCEPT !.pc = "ended", !.kind = s.kind, !.sent = s.sent, !.writes = s.writes,
                     !.destroyed = s.destroyed, !.crypto = s.crypto, !.reason = s.reason,
                     !.tombstone = s.tombstone, !.any = s.any, !.remaining = s.remaining,
                     !.result = result]

Encrypted(r) == r.wrappedDeks # Clear

ExpiredBy(r, now) == r.retention.expiresAt # 0 /\ r.retention.expiresAt <= now

-----------------------------------------------------------------------------
(* The shred: one write of the row, tried again while it loses races.      *)

(* Where a call goes once its shred is settled; `tombstone` is the row it  *)
(* wrote or found.                                                         *)
AfterShred(s, destroyed, crypto, reason, tombstone) ==
    LET t == [s EXCEPT !.destroyed = destroyed, !.crypto = crypto, !.reason = reason,
                       !.tombstone = tombstone, !.rec = NoRow, !.lost = NoRow]
    IN  IF s.kind = "destroy" THEN EndDrop(t, "done")
        ELSE IF reason = "absent" /\ ~s.claimed THEN [t EXCEPT !.pc = "orphans"]
        ELSE [t EXCEPT !.pc = "list"]

(* The swaps of this call that could have left this tombstone.             *)
OwnShreds(s, r) ==
    IF r = NoRow \/ r.status # "destroyed" THEN {} ELSE {t \in s.sent : t.token = r.pointerId}

(* Mutant: a tombstone of this call is taken for one it found.             *)
ShredIsFound(s, r) == FALSE

ShredIsOwn(s, r) == OwnShreds(s, r) # {}

AfterOwn(s, r) ==
    AfterShred(s, TRUE, \E t \in OwnShreds(s, r) : t.encrypted, "none", r.token)

(* Mutant: a retirement judges the row by the read that found it expired.  *)
WantedAlways(s, r) == r # NoRow /\ r.status # "destroyed"

(* A retirement takes only a row whose policy has expired.                 *)
Wanted(s, r) == r # NoRow /\ r.status # "destroyed" /\ ExpiredBy(r, s.now)

(* What the row, as read, asks for.                                        *)
Decided(s) ==
    LET r == s.rec
    IN  IF ShredIsOwn(s, r) THEN AfterOwn(s, r)
        ELSE IF s.kind = "retire" /\ ~Wanted(s, r) THEN EndDrop(s, "null")
        ELSE IF r = NoRow THEN AfterShred(s, FALSE, FALSE, "absent", None)
        ELSE IF r.status = "destroyed" THEN AfterShred(s, TRUE, FALSE, "already", r.token)
        ELSE IF ~Encrypted(r) /\ s.kind = "destroy"
        THEN AfterShred(s, FALSE, FALSE, "cleartext", None)
        ELSE [s EXCEPT !.pc = "write"]

(* A race lost to a lease write is waited out, without using an attempt.   *)
ChurnMoved(s) ==
    /\ s.lost # NoRow /\ row # NoRow
    /\ ~s.waited /\ s.churn < MaxChurn
    /\ OnlyLeasesDiffer(s.lost, row)

LostRace(s, attempts) ==
    LET t == [s EXCEPT !.lost = s.rec, !.waited = FALSE,
                       !.attempt = IF s.waited THEN @ ELSE @ + 1]
    IN  [t EXCEPT !.pc = IF t.attempt < attempts THEN "read" ELSE "last"]

BeginDrop(d) ==
    /\ d \in Droppers
    /\ drop[d].pc = "start"
    /\ \E kind \in {"destroy", "drop"} :
          DropBecomes(d, [IdleDrop EXCEPT !.pc = "read", !.kind = kind])
    /\ UNCHANGED loadVars /\ Sound

ShredRead(d) ==
    LET s == drop[d]
    IN  /\ s.pc = "read"
        /\ DropBecomes(d, IF ChurnMoved(s) THEN [s EXCEPT !.waited = TRUE, !.churn = @ + 1]
                          ELSE Decided([s EXCEPT !.rec = row]))
        /\ UNCHANGED loadVars /\ Sound

(* Mutant: a mark the row came with stays on a shred's tombstone.          *)
MarkKept(s) == IF s.kind = "retire" THEN s.now ELSE s.rec.retention.mark

(* Only a retirement's tombstone carries the sweep's mark.                 *)
Mark(s) == IF s.kind = "retire" THEN s.now ELSE 0

(* The pointer stays.                                                      *)
TombstonePatch(s) ==
    [status |-> "destroyed", wrappedDeks |-> Clear, summary |-> NoSummary, knownGens |-> <<>>,
     leases |-> {}, retention |-> [s.rec.retention EXCEPT !.mark = Mark(s)]]

(* Answered; or it landed and a conflict came back; or no answer comes.    *)
ShredWrite(d) ==
    LET s == drop[d]
        w == SwapOf(s.rec, TombstonePatch(s), <<d, s.writes + 1>>)
        t == [s EXCEPT !.writes = @ + 1,
                       !.sent = @ \cup {[token |-> w.token, encrypted |-> Encrypted(s.rec)]}]
    IN  /\ s.pc = "write"
        /\ \/ /\ Accepts(w) /\ Apply(w)
              /\ DropBecomes(d, AfterShred(t, TRUE, Encrypted(s.rec), "none", w.token))
              /\ UNCHANGED inflight /\ Sound
           \/ /\ ~Accepts(w)
              /\ DropBecomes(d, LostRace(t, DropAttempts))
              /\ UNCHANGED <<row, landed, inflight>> /\ Sound
           \/ /\ Accepts(w) /\ Apply(w)
              /\ DropBecomes(d, LostRace(t, DropAttempts))
              /\ UNCHANGED inflight /\ Faulty
           \/ /\ inflight' = inflight \cup {w}
              /\ DropBecomes(d, [t EXCEPT !.pc = "ask"])
              /\ UNCHANGED <<row, landed>> /\ Faulty
        /\ UNCHANGED <<objects, others, load>>

(* The row as it was read: the swap may be on its way still, and the call  *)
(* throws.  Any other row: it never lands from here on.                    *)
ShredAsk(d) ==
    LET s == drop[d]
    IN  /\ s.pc = "ask"
        /\ DropBecomes(d, IF ShredIsOwn(s, row) THEN AfterOwn(s, row)
                          ELSE IF SameRow(row, s.rec) THEN EndDrop(s, "error")
                          ELSE LostRace(s, DropAttempts))
        /\ UNCHANGED loadVars /\ Sound

ShredLast(d) ==
    LET s == drop[d]
    IN  /\ s.pc = "last"
        /\ DropBecomes(d, IF ShredIsOwn(s, row) THEN AfterOwn(s, row) ELSE EndDrop(s, "error"))
        /\ UNCHANGED loadVars /\ Sound

-----------------------------------------------------------------------------
(* Objects and no row: the drop makes the tombstone.                       *)

Orphans(d) ==
    LET s == drop[d]
    IN  /\ s.pc = "orphans"
        /\ DropBecomes(d, IF Listed = {} THEN EndDrop(s, "done")
                          ELSE [s EXCEPT !.pc = "claim", !.todo = Listed])
        /\ UNCHANGED loadVars /\ Sound

Claimed(s, token) ==
    [s EXCEPT !.pc = "list", !.destroyed = TRUE, !.reason = "none", !.tombstone = token]

Claim(d) ==
    LET s == drop[d]
        w == CreateOf([currentGen |-> CHOOSE g \in s.todo : \A h \in s.todo : h <= g,
                       status |-> "destroyed"], <<d, s.writes + 1>>)
        t == [s EXCEPT !.writes = @ + 1, !.claimed = TRUE, !.todo = {},
                       !.sent = {[token |-> w.token, encrypted |-> FALSE]}]
    IN  /\ s.pc = "claim"
        /\ \/ /\ Accepts(w) /\ Apply(w)
              /\ DropBecomes(d, Claimed(t, w.token))
              /\ UNCHANGED inflight /\ Sound
           \/ /\ ~Accepts(w)
              /\ DropBecomes(d, [t EXCEPT !.pc = "claimAsk"])
              /\ UNCHANGED <<row, landed, inflight>> /\ Sound
           \/ /\ inflight' = inflight \cup {w}
              /\ DropBecomes(d, [t EXCEPT !.pc = "claimAsk", !.unanswered = TRUE])
              /\ UNCHANGED <<row, landed>> /\ Faulty
        /\ UNCHANGED <<objects, others, load>>

(* A row that appeared meanwhile is shredded like any other.               *)
ClaimAsk(d) ==
    LET s == drop[d]
    IN  /\ s.pc = "claimAsk"
        /\ DropBecomes(d, IF ShredIsOwn(s, row) THEN Claimed(s, row.token)
                          ELSE IF s.unanswered /\ row = NoRow THEN EndDrop(s, "error")
                          ELSE [s EXCEPT !.pc = "read", !.sent = {}, !.attempt = 0, !.churn = 0])
        /\ UNCHANGED loadVars /\ Sound

-----------------------------------------------------------------------------
(* The passes over the bucket, and the listing that says what is left.     *)

(* Mutant: one pass, and what it listed is what it reports.                *)
DropListOnce(d) ==
    LET s == drop[d]
    IN  /\ s.pc = "list"
        /\ DropBecomes(d, IF Listed = {} \/ s.passes = 1 THEN EndDrop(s, "done")
                          ELSE [s EXCEPT !.pc = "delete", !.todo = Listed, !.gone = FALSE])
        /\ UNCHANGED loadVars /\ Sound

DropList(d) ==
    LET s == drop[d]
    IN  /\ s.pc = "list"
        /\ DropBecomes(d, IF Listed = {} THEN [s EXCEPT !.pc = "remaining"]
                          ELSE [s EXCEPT !.pc = "delete", !.todo = Listed, !.gone = FALSE])
        /\ UNCHANGED loadVars /\ Sound

(* The deletes of one pass run together, by number; one that fails is left *)
(* to the next pass.                                                       *)
DropDelete(d, g) ==
    LET s == drop[d]
    IN  /\ s.pc = "delete"
        /\ g \in s.todo
        /\ \/ /\ objects' = [objects EXCEPT ![g] = None]
              /\ DropBecomes(d, [s EXCEPT !.todo = @ \ {g}, !.gone = TRUE, !.any = TRUE])
              /\ Sound
           \/ /\ DropBecomes(d, [s EXCEPT !.todo = @ \ {g}])
              /\ UNCHANGED objects /\ Faulty
        /\ UNCHANGED <<row, inflight, landed, others, load>>

DropPassEnds(d) ==
    LET s == drop[d]
    IN  /\ s.pc = "delete"
        /\ s.todo = {}
        /\ DropBecomes(d, [s EXCEPT !.passes = @ + 1,
                                    !.pc = IF s.gone /\ s.passes + 1 < DropPasses THEN "list"
                                           ELSE "remaining"])
        /\ UNCHANGED loadVars /\ Sound

DropRemaining(d) ==
    LET s == drop[d]
    IN  /\ s.pc = "remaining"
        /\ DropBecomes(d, EndDrop([s EXCEPT !.remaining = Listed], "done"))
        /\ UNCHANGED loadVars /\ Sound

(* A listing that throws, or the process dying.                            *)
DropFails(d) ==
    /\ drop[d].pc \in {"orphans", "list", "remaining"}
    /\ DropBecomes(d, EndDrop(drop[d], "error"))
    /\ UNCHANGED loadVars /\ Faulty

(* What a drop and a retirement have in common.                            *)
TombstoneStep(d) ==
    \/ ShredRead(d) \/ ShredWrite(d) \/ ShredAsk(d) \/ ShredLast(d)
    \/ DropList(d) \/ (\E g \in drop[d].todo : DropDelete(d, g)) \/ DropPassEnds(d) \/ DropRemaining(d)
    \/ DropFails(d)

DropStep(d) == BeginDrop(d) \/ Orphans(d) \/ Claim(d) \/ ClaimAsk(d) \/ TombstoneStep(d)
=============================================================================
