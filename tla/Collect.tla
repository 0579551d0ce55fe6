------------------------------ MODULE Collect ------------------------------
(***************************************************************************)
(* The collections: what a load's publish evicts by name, the listing pass *)
(* of a load, and the sweep an erasure makes, of a tombstone too           *)
(* (generation-gc.ts).  Each re-reads the row before every delete, and     *)
(* watches the row for a pointer moved back onto what it deleted.  pass[c] *)
(* is the state of c's one pass: a loader's follows its publish.           *)
(***************************************************************************)
EXTENDS Load

CONSTANT Collectors  \* the processes that sweep, once each

ASSUME CollectAssumption == Collectors \cap Loaders = {}

VARIABLE pass

(* kind "named" deletes the evicted names; "window" a load's pass by its   *)
(* ledger, "count" a load's pass by number, "sweep" keeps nothing.         *)
IdlePass ==
    [pc |-> "start", kind |-> "none", record |-> NoRow, gens |-> {}, after |-> NoRow,
     still |-> NoRow, asked |-> NoRow, cutoff |-> NoGen, protect |-> {}, todo |-> {}, gone |-> {},
     unread |-> FALSE, looks |-> 0, spared |-> {}, result |-> "none"]

CollectInit == pass = [c \in Loaders \cup Collectors |-> IdlePass]

PassBecomes(c, s) == pass' = [pass EXCEPT ![c] = s]

EndPass(result) == [IdlePass EXCEPT !.pc = "ended", !.result = result]

(* The clock decides which of a row's leases are live.                     *)
LiveOf(r) == SUBSET r.leases

OverTombstone(s) == s.record # NoRow /\ s.record.status = "destroyed"

(* A listing is deleted newest first, the evicted names oldest first.      *)
NextOf(s) ==
    CHOOSE g \in s.todo :
        \A h \in s.todo : IF s.kind = "named" THEN g <= h ELSE h <= g

-----------------------------------------------------------------------------
(* A load's collection, after its publish.  Every sixteenth generation is  *)
(* collected by a listing, and one whose previous object is gone by count. *)
KindsOf(l) ==
    IF ~l.kept.byName THEN {"count"}
    ELSE {"named", "window"} \cup
         (IF l.base # NoRow /\ l.base.currentGen # NoGen /\ objects[l.base.currentGen] = None
          THEN {"count"} ELSE {})

BeginAfterLoad(p) ==
    LET l == load[p]
    IN  /\ p \in Loaders
        /\ pass[p].pc = "start"
        /\ l.pc = "published"
        /\ Keep < l.gen
        /\ \E kind \in KindsOf(l) :
              PassBecomes(p, [IdlePass EXCEPT
                  !.kind = kind, !.protect = l.kept.list,
                  !.todo = IF kind = "named" THEN l.kept.evict ELSE {},
                  !.cutoff = IF kind = "named" THEN l.gen ELSE NoGen,
                  !.pc = IF kind = "named" THEN "check" ELSE "row"])
        /\ UNCHANGED loadVars

BeginSweep(c) ==
    /\ c \in Collectors
    /\ pass[c].pc = "start"
    /\ PassBecomes(c, [IdlePass EXCEPT !.pc = "row", !.kind = "sweep"])
    /\ UNCHANGED loadVars

-----------------------------------------------------------------------------
(* The listing pass: the row, the listing, the row again, the candidates.  *)

(* The row a pass was asked to collect, where it was asked for one.        *)
IsAskedRow(s, r) ==
    s.asked = NoRow \/ (SameIncarnation(s.asked, r) /\ s.asked.status = r.status)

PassReadRow(c) ==
    /\ pass[c].pc = "row"
    /\ PassBecomes(c, IF row = NoRow THEN EndPass("done")
                      ELSE IF ~IsAskedRow(pass[c], row) THEN EndPass("changed")
                      ELSE [pass[c] EXCEPT !.pc = "list", !.record = row])
    /\ UNCHANGED loadVars

PassList(c) ==
    /\ pass[c].pc = "list"
    /\ PassBecomes(c, [pass[c] EXCEPT !.pc = "again", !.gens = Listed])
    /\ UNCHANGED loadVars

(* Of the generations below the cutoff, those outside a window of `keep`:  *)
(* the ledger's own names first, then the newest others; with no ledger    *)
(* the superseded one first.                                               *)
OutsideWindow(below, known, cutoff, superseded, keep) ==
    LET span  == IF keep > KnownSpan THEN KnownSpan ELSE keep
        named == NewestOf(known, Below(known, cutoff), span) \cap below
        room  == keep - Cardinality(named)
    IN  IF known = <<>>
        THEN below \ KeptWindow(below, superseded, keep)
        ELSE {g \in below \ named : Cardinality({h \in below \ named : h > g}) >= room}

Cutoff(record, after) ==
    IF record.currentGen = NoGen \/ after.currentGen = NoGen THEN NoGen
    ELSE IF record.currentGen <= after.currentGen THEN record.currentGen
    ELSE after.currentGen

(* The generation the load superseded, as long as the pointer is its own.  *)
PriorOf(c, cutoff) ==
    IF c \in Loaders /\ load[c].base # NoRow /\ load[c].base.currentGen # NoGen
       /\ cutoff = load[c].gen
    THEN load[c].base.currentGen ELSE NoGen

Candidates(c, s, after, cutoff) ==
    LET keep    == IF s.kind = "sweep" THEN 0 ELSE Keep
        below   == {g \in s.gens : g < cutoff}
        prior   == PriorOf(c, cutoff)
        lost    == prior # NoGen /\ Keep >= 1 /\ prior \notin s.gens
        protect == s.protect \cup WindowOf(after)
    IN  IF OverTombstone(s) THEN s.gens
        ELSE IF cutoff = NoGen THEN {}
        ELSE IF s.kind = "window" /\ UsableKnownGens(after) # <<>> /\ ~lost
        THEN below \ protect
        ELSE OutsideWindow(below, UsableKnownGens(after), cutoff, prior, keep)

(* A sweep reads no lease; nothing reads one under a tombstone.            *)
Spares(s, r) == IF s.kind = "sweep" \/ OverTombstone(s) THEN {{}} ELSE LiveOf(r)

PassReadAgain(c) ==
    LET s == pass[c]
    IN  /\ s.pc = "again"
        /\ IF row = NoRow \/ (OverTombstone(s) /\ row.token # s.record.token)
           THEN PassBecomes(c, EndPass("changed"))
           ELSE LET cutoff == Cutoff(s.record, row)
                IN  \E held \in Spares(s, row) :
                       PassBecomes(c, [s EXCEPT
                           !.pc = "check", !.after = row, !.cutoff = cutoff, !.gens = {},
                           !.protect = @ \cup WindowOf(row),
                           !.kind = IF @ = "window" /\ UsableKnownGens(row) = <<>>
                                    THEN "unnamed" ELSE @,
                           !.todo = Candidates(c, s, row, cutoff) \ held])
        /\ UNCHANGED loadVars

-----------------------------------------------------------------------------
(* One delete: read the row, see that it names nothing deleted before,     *)
(* decide by the row as read, delete.                                      *)

(* The row names what was deleted, and the object is missing: look again,  *)
(* and after the last look say so.                                         *)
LookAgain(c, s) ==
    PassBecomes(c, IF s.looks < MaxLooks THEN [s EXCEPT !.looks = @ + 1]
                   ELSE EndPass("missing"))

(* Whether the row as read still allows the delete of g.                   *)
StillCollectable(s, r, g) ==
    CASE s.kind = "named" ->
            /\ r.currentGen >= s.cutoff
            /\ UsableKnownGens(r) # <<>>
            /\ g < r.currentGen
            /\ g \notin Generations(UsableKnownGens(r))
      [] s.kind # "named" /\ OverTombstone(s) -> r.token = s.after.token
      [] s.kind = "window" /\ ~OverTombstone(s) ->
            /\ s.cutoff = NoGen \/ r.currentGen >= s.cutoff
            /\ UsableKnownGens(r) # <<>>
            /\ g \notin WindowOf(r)
      [] OTHER -> s.cutoff = NoGen \/ r.currentGen >= s.cutoff

(* Mutant: a generation the row knows is deleted like any other.           *)
SkipsNothing(s, r, g) == FALSE

(* A pass that takes no window from the ledger spares what the row knows.  *)
SkipsKnown(s, r, g) ==
    /\ s.kind \in {"count", "sweep"}
    /\ ~OverTombstone(s)
    /\ g \in Generations(UsableKnownGens(r))

PassCheck(c) ==
    LET s == pass[c]
        r == IF s.still = NoRow THEN row ELSE s.still
        g == NextOf(s)
        t == [s EXCEPT !.still = NoRow, !.looks = 0, !.unread = FALSE]
    IN  /\ s.pc = "check"
        /\ s.todo # {}
        /\ IF s.after # NoRow /\ NamesDeleted(s.after, s.gone)
           THEN LookAgain(c, [s EXCEPT !.still = r])
           ELSE IF r = NoRow \/ ~StillCollectable(s, r, g)
           THEN PassBecomes(c, IF s.kind = "named" THEN [t EXCEPT !.pc = "settle"]
                               ELSE EndPass("changed"))
           ELSE \E held \in Spares(s, r) :
                   PassBecomes(c,
                       IF g \in held THEN [t EXCEPT !.todo = @ \ {g}]
                       ELSE IF SkipsKnown(s, r, g)
                       THEN [t EXCEPT !.todo = @ \ {g}, !.spared = @ \cup {g}]
                       ELSE [t EXCEPT !.pc = "delete",
                                      !.after = IF @ = NoRow THEN r ELSE @])
        /\ UNCHANGED loadVars

PassDelete(c) ==
    LET s == pass[c]
        g == NextOf(s)
    IN  /\ s.pc = "delete"
        /\ objects' = [objects EXCEPT ![g] = None]
        /\ PassBecomes(c, [s EXCEPT !.pc = "check", !.todo = @ \ {g}, !.gone = @ \cup {g},
                                 !.unread = TRUE])
        /\ UNCHANGED <<row, inflight, landed, others, load>>

(* Mutant: no look at the row after the last delete.                       *)
PassSettleBlindly(c) ==
    LET s == pass[c]
    IN  /\ s.pc = "settle" \/ (s.pc = "check" /\ s.todo = {})
        /\ PassBecomes(c, EndPass("done"))
        /\ UNCHANGED loadVars

(* The last look.  Only a delete that no later read followed needs it.     *)
PassSettle(c) ==
    LET s == pass[c]
    IN  /\ s.pc = "settle" \/ (s.pc = "check" /\ s.todo = {})
        /\ IF /\ s.unread
              /\ s.kind = "named" \/ ~OverTombstone(s)
              /\ NamesDeleted(s.after, s.gone)
           THEN LookAgain(c, s)
           ELSE PassBecomes(c, [EndPass("done") EXCEPT !.spared = s.spared])
        /\ UNCHANGED loadVars

PassStep(c) ==
    \/ BeginAfterLoad(c) \/ BeginSweep(c)
    \/ PassReadRow(c) \/ PassList(c) \/ PassReadAgain(c)
    \/ PassCheck(c) \/ PassDelete(c) \/ PassSettle(c)

CollectAction == \E c \in DOMAIN pass : PassStep(c)
=============================================================================
