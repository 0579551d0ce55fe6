------------------------------ MODULE Rollback ------------------------------
(***************************************************************************)
(* store.rollback: move the pointer to an earlier generation, see that its *)
(* object is still there once the pointer names it, and move the pointer   *)
(* back when it is not (rollback.ts).  roll[q] is the state of q's one     *)
(* rollback.                                                               *)
(***************************************************************************)
EXTENDS Segment

CONSTANTS
    Rollers,       \* the processes that roll back, once each
    KeyedRollers,  \* those that hold a keystore
    MaxRollChurn   \* LEASE_ONLY_RETRIES (136), for a rollback

ASSUME RollbackAssumption ==
    /\ KeyedRollers \subseteq Rollers
    /\ MaxRollChurn \in Nat

VARIABLE roll

IdleRoll ==
    [pc |-> "start", base |-> NoRow, target |-> NoGen, allow |-> FALSE, foot |-> None,
     mode |-> "unknown", against |-> NoRow, sent |-> {}, swapped |-> None, back |-> {},
     churn |-> 0, result |-> "none"]

RollInit == roll = [q \in Rollers |-> IdleRoll]

RollBecomes(q, r) == roll' = [roll EXCEPT ![q] = r]

EndRoll(r, result) ==
    [IdleRoll EXCEPT !.pc = "ended", !.target = r.target, !.mode = r.mode,
                     !.sent = r.sent, !.result = result]

-----------------------------------------------------------------------------
RollRead(q) ==
    /\ roll[q].pc = "start"
    /\ \E target \in Gens, allow \in BOOLEAN :
          RollBecomes(q, IF ~Active THEN EndRoll(roll[q], "refused")
                         ELSE [roll[q] EXCEPT !.pc = "judge", !.base = row,
                                              !.target = target, !.allow = allow])
    /\ UNCHANGED segment

(* How the row vouches for a target it is asked to move to: it knows it,   *)
(* or its ledger may have forgotten it, or the caller insists.             *)
ModeOf(r) ==
    LET known == UsableKnownGens(r.base)
    IN  IF r.target \in Generations(known) THEN "checked"
        ELSE IF /\ r.base.currentGen # NoGen /\ r.target < r.base.currentGen
                /\ \/ known = <<>>
                   \/ IsFullLedger(known) /\ r.target < FallbackBound(r.base, known)
        THEN "fallback"
        ELSE IF r.allow THEN "override" ELSE "unknown"

CrcKnown(r) ==
    LET known == UsableKnownGens(r.base)
    IN  [generation |-> r.target, footerCrc |-> objects[r.target].by]
            \in {known[i] : i \in DOMAIN known}

Vouched(r) == IF ModeOf(r) = "checked" /\ ~CrcKnown(r) THEN "override" ELSE ModeOf(r)

(* The object is there, is the one vouched for unless the caller insists,  *)
(* and is under the row's key: proved by opening it, when it must be.      *)
MayMoveTo(q, r) ==
    LET object == objects[r.target]
        keyed  == r.base.wrappedDeks # Clear
    IN  /\ r.target # r.base.currentGen
        /\ ModeOf(r) # "unknown"
        /\ object # None
        /\ ModeOf(r) = "checked" /\ ~CrcKnown(r) => r.allow
        /\ (object.key # Clear) = keyed
        /\ keyed /\ q \in KeyedRollers => object.key = r.base.wrappedDeks
        /\ keyed /\ Vouched(r) = "override" => q \in KeyedRollers

RollJudge(q) ==
    LET r == roll[q]
    IN  /\ r.pc = "judge"
        /\ RollBecomes(q, IF MayMoveTo(q, r)
                          THEN [r EXCEPT !.pc = "swap", !.against = r.base,
                                         !.mode = Vouched(r), !.foot = objects[r.target]]
                          ELSE EndRoll(r, "refused"))
        /\ UNCHANGED segment

-----------------------------------------------------------------------------
(* The swap.  A summary is written only when the target was opened.        *)

SwapRequest(q, r) ==
    LET keyed   == r.base.wrappedDeks # Clear
        opened  == ~keyed \/ q \in KeyedRollers
        summary == [generation |-> r.target, footerCrc |-> r.foot.by, sealed |-> keyed]
        entry   == [generation |-> r.target, footerCrc |-> r.foot.by]
    IN  SwapOf(r.against,
               [currentGen |-> r.target,
                summary    |-> IF opened THEN summary ELSE NoSummary,
                knownGens  |-> RollbackKnown(r.base, entry)],
               <<q, Cardinality(r.sent) + 1>>)

Swapped(r, token, pointerId) ==
    [r EXCEPT !.pc = "prove", !.swapped = [token |-> token, pointerId |-> pointerId]]

SwapAnswered(q) ==
    LET r     == roll[q]
        w     == SwapRequest(q, r)
        after == [r EXCEPT !.sent = @ \cup {w.token}]
    IN  /\ r.pc = "swap"
        /\ IF Accepts(w)
           THEN Apply(w) /\ RollBecomes(q, Swapped(after, w.token, w.token))
           ELSE UNCHANGED <<row, landed>> /\ RollBecomes(q, [after EXCEPT !.pc = "swapSeen"])
        /\ UNCHANGED <<objects, inflight, others>>

SwapUnanswered(q) ==
    LET r == roll[q]
        w == SwapRequest(q, r)
    IN  /\ r.pc = "swap"
        /\ inflight' = inflight \cup {w}
        /\ RollBecomes(q, [r EXCEPT !.pc = "swapAsk", !.sent = @ \cup {w.token}])
        /\ UNCHANGED <<row, objects, landed, others>>

SwapShown(r) == PointerSetBy(row, r.base, r.target, r.sent)

SwapAsk(q) ==
    LET r == roll[q]
    IN  /\ r.pc = "swapAsk"
        /\ RollBecomes(q, IF SwapShown(r) THEN Swapped(r, row.token, row.pointerId)
                          ELSE EndRoll(r, "unknown"))
        /\ UNCHANGED segment

(* After a conflict.  A row that differs only in its leases is waited out. *)
SwapSeen(q) ==
    LET r == roll[q]
    IN  /\ r.pc = "swapSeen"
        /\ RollBecomes(q,
             IF SwapShown(r) THEN Swapped(r, row.token, row.pointerId)
             ELSE IF row # NoRow /\ r.churn < MaxRollChurn /\ OnlyLeasesDiffer(r.base, row)
             THEN [r EXCEPT !.pc = "swapWaited", !.churn = @ + 1]
             ELSE EndRoll(r, "refused"))
        /\ UNCHANGED segment

SwapWaited(q) ==
    LET r == roll[q]
    IN  /\ r.pc = "swapWaited"
        /\ RollBecomes(q, IF row # NoRow /\ OnlyLeasesDiffer(r.base, row)
                          THEN [r EXCEPT !.pc = "swap", !.against = row]
                          ELSE EndRoll(r, "refused"))
        /\ UNCHANGED segment

-----------------------------------------------------------------------------
(* With the pointer moved: is the object still the one that was read?      *)
RollProve(q) ==
    LET r == roll[q]
    IN  /\ r.pc = "prove"
        /\ RollBecomes(q, IF objects[r.target] = r.foot THEN EndRoll(r, "moved")
                          ELSE [r EXCEPT !.pc = "undo", !.against = r.swapped])
        /\ UNCHANGED segment

DescribingSummary(base) ==
    IF /\ base.summary.generation = base.currentGen
       /\ base.summary.sealed = (base.wrappedDeks # Clear)
    THEN base.summary ELSE NoSummary

UndoRequest(q, r) ==
    SwapOf(r.against,
           [currentGen |-> r.base.currentGen,
            summary    |-> DescribingSummary(r.base),
            knownGens  |-> SelectSeq(DescribingKnown(r.base, r.target),
                                     LAMBDA e : e.generation # r.target)],
           <<q, Cardinality(r.sent) + Cardinality(r.back) + 1>>)

UndoAnswered(q) ==
    LET r     == roll[q]
        w     == UndoRequest(q, r)
        after == [r EXCEPT !.back = @ \cup {w.token}]
    IN  /\ r.pc = "undo"
        /\ IF Accepts(w)
           THEN Apply(w) /\ RollBecomes(q, EndRoll(after, "undone"))
           ELSE UNCHANGED <<row, landed>> /\ RollBecomes(q, [after EXCEPT !.pc = "undoSeen"])
        /\ UNCHANGED <<objects, inflight, others>>

UndoUnanswered(q) ==
    LET r == roll[q]
        w == UndoRequest(q, r)
    IN  /\ r.pc = "undo"
        /\ inflight' = inflight \cup {w}
        /\ RollBecomes(q, [r EXCEPT !.pc = "undoAsk", !.back = @ \cup {w.token}])
        /\ UNCHANGED <<row, objects, landed, others>>

UndoShown(r) == PointerSetBy(row, r.base, r.base.currentGen, r.back)

UndoAsk(q) ==
    LET r == roll[q]
    IN  /\ r.pc = "undoAsk"
        /\ RollBecomes(q, EndRoll(r, IF UndoShown(r) THEN "undone" ELSE "stranded"))
        /\ UNCHANGED segment

SwapMoves == {"currentGen", "summary", "knownGens", "pointerId"}

UndoSeen(q) ==
    LET r == roll[q]
    IN  /\ r.pc = "undoSeen"
        /\ RollBecomes(q,
             IF UndoShown(r) THEN EndRoll(r, "undone")
             ELSE IF /\ row # NoRow /\ row.currentGen = r.target
                     /\ r.churn < MaxRollChurn
                     /\ OnlyLeasesDifferBut(r.base, row, SwapMoves)
             THEN [r EXCEPT !.pc = "undoWaited", !.churn = @ + 1]
             ELSE EndRoll(r, "stranded"))
        /\ UNCHANGED segment

UndoWaited(q) ==
    LET r == roll[q]
    IN  /\ r.pc = "undoWaited"
        /\ RollBecomes(q,
             IF /\ row # NoRow /\ row.currentGen = r.target
                /\ row.pointerId = r.swapped.pointerId
                /\ OnlyLeasesDifferBut(r.base, row, SwapMoves)
             THEN [r EXCEPT !.pc = "undo", !.against = row]
             ELSE EndRoll(r, "stranded"))
        /\ UNCHANGED segment

RollStep(q) ==
    \/ RollRead(q) \/ RollJudge(q)
    \/ SwapAnswered(q) \/ SwapUnanswered(q) \/ SwapAsk(q) \/ SwapSeen(q) \/ SwapWaited(q)
    \/ RollProve(q)
    \/ UndoAnswered(q) \/ UndoUnanswered(q) \/ UndoAsk(q) \/ UndoSeen(q) \/ UndoWaited(q)

RollAction == \E q \in Rollers : RollStep(q)
=============================================================================
