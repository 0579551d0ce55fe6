------------------------------ MODULE Registry ------------------------------
(***************************************************************************)
(* What a registry promises of one row (IRegistryDriver in core/ports.ts): *)
(* every call takes effect at most once, at one instant, on the row its    *)
(* condition names; a call that reports success did; a create or a swap    *)
(* that reports a conflict did not and never will; any other failure says  *)
(* nothing, and the call may still take effect after it was given up.      *)
(*                                                                         *)
(* A call is named by its caller and a number.  A row carries the call     *)
(* that wrote its token and the set of calls whose patches it holds, so    *)
(* that a write computed from anything but the row it replaces shows.      *)
(***************************************************************************)
EXTENDS Naturals

CONSTANTS NoRow, Callers, FirstRows

Ids == Callers \X Nat

(* `on` is the call that wrote the row a swap or a fenced delete names; an *)
(* unfenced delete and a create name none.                                 *)
Calls == [id : Ids, op : {"create", "swap", "delete"}, on : Ids \union {NoRow}]

VARIABLES
    row,      \* NoRow, or [by, patches]
    open,     \* calls that may still take effect
    effects   \* ids of calls that took effect

vars == <<row, open, effects>>

Init == row \in FirstRows /\ open = {} /\ effects = {}

Invoke ==
    \E call \in open' \ open :
        /\ call \in Calls
        /\ call.id \notin {c.id : c \in open} \union effects
        /\ open' = open \union {call}
        /\ UNCHANGED <<row, effects>>

Create(call) ==
    /\ call.op = "create" /\ row = NoRow
    /\ row' = [by |-> call.id, patches |-> {call.id}]

Swap(call) ==
    /\ call.op = "swap" /\ row # NoRow /\ row.by = call.on
    /\ row' = [by |-> call.id, patches |-> row.patches \union {call.id}]

Delete(call) ==
    /\ call.op = "delete"
    /\ IF call.on = NoRow THEN TRUE ELSE row # NoRow /\ row.by = call.on
    /\ row' = NoRow

(* An unfenced delete may remove the row again: a re-create that lands     *)
(* while it is being retried is deleted too.                               *)
TakeEffect ==
    \E call \in open :
        /\ call.id \notin effects \/ (call.op = "delete" /\ call.on = NoRow)
        /\ Create(call) \/ Swap(call) \/ Delete(call)
        /\ effects' = effects \union {call.id}
        /\ open' \in {open, open \ {call}}

ReportDone ==
    \E call \in open :
        /\ call.id \in effects
        /\ open' = open \ {call}
        /\ UNCHANGED <<row, effects>>

(* A fenced delete's conflict is left to its caller to settle by a read;   *)
(* it says nothing, and stays open.                                        *)
ReportConflict ==
    \E call \in open :
        /\ call.op # "delete" /\ call.id \notin effects
        /\ open' = open \ {call}
        /\ UNCHANGED <<row, effects>>

Next == Invoke \/ TakeEffect \/ ReportDone \/ ReportConflict

Spec == Init /\ [][Next]_vars
=============================================================================
