-------------------------------- MODULE Row --------------------------------
(***************************************************************************)
(* The registry row of one segment and what a conditional write makes of   *)
(* it (drivers/_shared/registry.ts, pointer-id.ts, token.ts).  A write is  *)
(* named by <<writer, n>>, the writer's n-th: it stands for the random     *)
(* write part of the token, which no two writes share.                     *)
(***************************************************************************)
EXTENDS Ledger, TLC

CONSTANT
    Clear  \* no wrapped keys; also what an object written without a key has

(* No object, and the footer checksum of nothing.                          *)
None == [there |-> FALSE]

(* The retention metadata: when the row is due, and when a sweep retired   *)
(* it; 0 is absent.                                                        *)
NoMeta == [expiresAt |-> 0, mark |-> 0]

Until(t) == [NoMeta EXCEPT !.expiresAt = t]

NoSummary == [generation |-> NoGen, footerCrc |-> None, sealed |-> FALSE]

(* registry.get answers null.                                              *)
NoRow == [found |-> FALSE]

(* What a field is that a create does not name.                            *)
BlankRow == [currentGen |-> NoGen, status |-> "active", wrappedDeks |-> Clear,
             summary |-> NoSummary, knownGens |-> <<>>, retention |-> NoMeta, leases |-> {}]

(* A token is <incarnation>.<counter>.<write>, compared only by equality.  *)
NewIncarnationToken(write) == [incarnation |-> write, counter |-> 0, write |-> write]

NextRegistryToken(token, write) ==
    [incarnation |-> token.incarnation, counter |-> token.counter + 1, write |-> write]

SameIncarnation(a, b) == a.token.incarnation = b.token.incarnation

ResolvedFields == {"currentGen", "status", "wrappedDeks", "keyId", "summary"}

(* By presence, whatever the value: a patch of the same pointer renews.    *)
RenewsPointer(patch) == DOMAIN patch \cap ResolvedFields # {}

RecordFromNew(new, token) ==
    LET value(f) == IF f \in DOMAIN new THEN new[f] ELSE BlankRow[f]
    IN  [currentGen  |-> value("currentGen"),
         status      |-> value("status"),
         wrappedDeks |-> value("wrappedDeks"),
         summary     |-> value("summary"),
         knownGens   |-> value("knownGens"),
         retention   |-> value("retention"),
         leases      |-> {},
         token       |-> token,
         pointerId   |-> token]

(* A patch changes the fields it names.  A summary and a ledger describe   *)
(* the pointer, so a patch that moves the pointer without them drops them; *)
(* the leases stay.                                                        *)
ApplyRegistryPatch(prev, patch, token) ==
    LET named(f)        == f \in DOMAIN patch
        value(f)        == IF named(f) THEN patch[f] ELSE prev[f]
        moved           == value("currentGen") # prev.currentGen
        following(f, d) == IF named(f) \/ ~moved THEN value(f) ELSE d
    IN  [currentGen  |-> value("currentGen"),
         status      |-> value("status"),
         wrappedDeks |-> value("wrappedDeks"),
         summary     |-> following("summary", NoSummary),
         knownGens   |-> following("knownGens", <<>>),
         retention   |-> value("retention"),
         leases      |-> value("leases"),
         token       |-> token,
         pointerId   |-> IF RenewsPointer(patch) THEN token ELSE prev.pointerId]

(* Two reads of the row that differ in nothing but who holds a lease, and  *)
(* in the fields `ignored`.                                                *)
OnlyLeasesDifferBut(held, now, ignored) ==
    /\ SameIncarnation(held, now)
    /\ \A f \in {"currentGen", "status", "wrappedDeks", "summary",
                 "knownGens", "retention", "pointerId"} \ ignored : held[f] = now[f]

OnlyLeasesDiffer(held, now) == OnlyLeasesDifferBut(held, now, {})

(* Mutant: the pointer at this number in the same incarnation is enough.   *)
PointerAtNumber(now, before, generation, sent) ==
    /\ now # NoRow
    /\ now.status # "destroyed"
    /\ now.currentGen = generation
    /\ before # NoRow => SameIncarnation(before, now)

(* Whether `now` shows one of the writes `sent` as the one that put the    *)
(* pointer at `generation`; `before` is the row the write was made over.   *)
PointerSetBy(now, before, generation, sent) ==
    /\ now # NoRow
    /\ now.status # "destroyed"
    /\ now.currentGen = generation
    /\ before # NoRow => SameIncarnation(before, now)
    /\ now.pointerId \in sent

SameRow(a, b) == IF a = NoRow \/ b = NoRow THEN a = b ELSE a.token = b.token

CurrentGenOf(row) == IF row = NoRow THEN NoGen ELSE row.currentGen

(* What a row that is not there contributes to its successor's ledger.     *)
LedgerSource(row) == IF row = NoRow THEN BlankRow ELSE row
=============================================================================
