# A TLA+ model of the cloudbitmaps store

cloudbitmaps keeps sets of ids ("segments") in an object store. A segment is a
series of immutable *generations*, each one write-once object, and a *registry
row* whose `currentGen` names the generation that reads resolve to. Nothing
coordinates the processes that use a bucket: loads, collections, rollbacks,
erasures, sweeps and reads run from separate machines, each a sequence of
requests that may conflict, fail, or get no answer and still take effect. The
row is changed only by conditional writes on its token. These modules model that
protocol, TLC checks it on small instances, and TLAPS proves the parts named in
section 4 for all values of the constants.

All source paths below are under `packages/core/src/core/` unless they say
otherwise. `PROJECT.json` maps every definition to its lines, and lists the
hazards the properties are for.

## 1. The system

| part | state it keeps | operations | talks to |
|---|---|---|---|
| load and publish (`load.ts`, `publish.ts`, `bulk-load.ts`) | one object, the writes it sent, its turns | read the row, number, choose a key, put, publish, settle, reclaim | row, bucket, collection |
| ledger and its seed (`known-generations.ts`, `ledger-seed.ts`) | `knownGens` of a row: which generations were current, in order | publish, rollback, cap, window, prune, seed | a function of a row; the seed lists and reads objects |
| registry row (`drivers/_shared/registry.ts`, `pointer-id.ts`, `token.ts`) | pointer, status, keys, summary, ledger, retention, leases, token, pointer identity | create, compare-and-swap, delete | every operation |
| object-store registry (`drivers/_shared/object-registry.ts`, the drivers) | a row as a version of an object | read, conditional put and delete, settle a conflict with its own write | the bucket |
| collection (`generation-gc.ts`) | a listing, what it deleted | by name, by listing, by count, sweep | row, bucket |
| rollback (`rollback.ts`) | the row it judged, its swap | judge, swap, prove, undo | row, bucket |
| leases (`leases.ts`) | entries in the row, with an end by some clock | take, release, prune | row; read by collections |
| shred, drop, claim (`erasure.ts`) | a tombstone | destroy, delete all, claim a name without a row | row, bucket |
| retention (`retention.ts`, `retention-sweep.ts`, `due-index.ts`) | policy on the row, stamps, a due index | set, clear, sweep, purge a tombstone | row, bucket, index |
| erasure of an id (`erase-id.ts`) | a search, a fence | search, rewrite, renew, prove, collect | row, bucket, collection |
| reader (`crbm-storage-source.ts`) | cached resolutions, snapshots, open readers | resolve, refresh, heal, invalidate | row, bucket |
| combine (`combine-many.ts`, `combine-feed.ts`) | a byte ledger, partial outputs, a feed | plan, pass, defer, publish | reader, load |
| codec, format, export, audit, metrics, tools | – | – | – |

What is hard: each step of an operation is a request, and other processes act
between any two. A request without an answer may be applied later. A token that
moved may have moved for a lease only, and then the writer must go on. A number
can be used again after a purge. A rollback moves the pointer down onto a
generation that a collection decided about when it was up. Clocks differ. A
source answers from what it read a while ago, and an object it has open may be
collected or its number taken again.

What makes each part correct:

- **load**: a refused load changed nothing and never will (it deletes its object
  on the strength of that); a load reported as published was; a resend does not
  publish twice; the row it replaces is the one it read; the pointer has an
  object and the row has its key; a load ends.
- **ledger**: it is the history of the pointer with entries left out; it is
  bounded; the window keeps the most recently current; leased ones stay known.
- **object-store registry**: a call takes effect at most once, on the row its
  condition names, and what it reports is so.
- **collection and rollback**: a rollback held to the ledger never ends on a
  deleted object; one that is not is reported when it does; the generation
  superseded stays while `keep` says so.
- **leases**: the pinned generation stays until the lease ends by the reader's
  clock, and no other writer drops it from the row.
- **drop and retention**: what a shred or drop reports is so; only what has
  expired is retired; a row is removed only when nothing is left under it; a
  due segment is found and goes.
- **erasure of an id**: "erased" is true of what is left, of what is read from
  then on, and of the loads that were under way.
- **reader**: an answer is recent, comes after the last invalidation, is of the
  object its row names, and a row that stays put never ends in a miss.
- **combine**: what is published is whole and exact; the budgets hold; every
  output settles.

## 2. Modules

| module | models |
|---|---|
| `Ledger` | the functions of `known-generations.ts`, over a row |
| `Row` | tokens, what a create and a patch make of a row, `pointerSetBy`, `onlyLeasesDiffer` |
| `Segment` | EXTENDS `Row`. The variables `row`, `objects`, `inflight` (writes with no answer yet), and the operations that are one request: retention, leases, shred, claim, a drop's delete, a purge |
| `Load` | EXTENDS `Segment`. `load[p]`: one load of each process, a step per request, the seed of a first ledger included |
| `Loading` | EXTENDS `Load`. Several loads and the single-request operations; the properties of loads |
| `Collect` | EXTENDS `Load`. `pass[c]`: the collection after each load, and free-standing sweeps |
| `Rollback` | EXTENDS `Segment`. `roll[q]`: one rollback of each process |
| `Store` | EXTENDS `Collect`, `Rollback`: loads, collections, rollbacks and the rest on one segment |
| `EraseId` | EXTENDS `Collect`, `Rollback`. `erase[e]`: the erasure of one id, beside all of those |
| `Drop` | EXTENDS `Collect`. `drop[d]`: a shred or a drop with its retries |
| `Retention` | EXTENDS `Drop`. `policy[s]`, `sweep[w]`, the due index and the clock |
| `LedgerHistory` | EXTENDS `Ledger`: one row through long sequences of publishes, rollbacks and leases, each a single step |
| `Leases` | leases with real time and a clock per process; self-contained |
| `Registry` | the abstract specification: what a registry promises of one row |
| `ObjectRegistry` | one row kept as an object under conditional writes; implements `Registry` (`Promise`) |
| `Reader` | live reads through one source; self-contained |
| `Combine` | a batch combine; self-contained |
| `Leases_proofs`, `ObjectRegistry_proofs`, `Loading_proofs`, `Store_proofs`, `Reader_proofs`, `Retention_proofs`, `EraseId_proofs`, `LedgerHistory_proofs` | TLAPS: the theorems of section 4 |
| `MC*` | instances for TLC (`LedgerHistory` needs none) |

How state corresponds to code, for the segment's modules:

- `row` is the registry record; `updatedAt`, `createdAt`, `residency` and `keyId`
  are left out. A token is `[incarnation, counter, write]`, as in `registry.ts`.
  A write is named `<<process, n>>`, which stands for its random part.
- `objects[g]` is `None` or who wrote it and under which key. An object's writer
  stands for its footer checksum, so "is it my object" (`provesOwnObject`) is
  `by = p`.
- A conditional write either is answered (`Accepts` decides, atomically, as
  `ObjectRegistry` shows of the registries) or goes to `inflight` and is applied
  or lost at any later moment, by the same condition. The driver reports the
  token before it sends (`reportsWriteTokens`, which every shipped registry
  has): that is `sent`.
- `load[p].pc` names the next request: `start` (read the row), `number`, `key`,
  `put`, the seed's reads, `decide` (judge the row in hand and send), `asking`
  (read after a write without answer), `read`, `final`, `reclaim`, `delete`,
  `watch`. A fault of the last four is swallowed, as `tidy` does (`TidyFails`; of
  a delete that was made, `DeleteUnanswered`): the load answers its refusal, and
  `untidy` records it for the properties. `number` is the check of the next
  number or the listing that follows it; the listing sees the bucket as it is
  then, whatever the check found. In `publish.ts` `rec` is `record`, `before` is `failedOn`, `waited` is
  `record === waited`. `published` means reported and its collection still to
  come. `early` marks the one refusal section 5 describes.
- `pass[c].kind` is `named` (`deleteEvicted`), `window` (`listingPass` with
  `protect`), `unnamed` (the same once the row has no usable ledger), `count`
  (`reconcile`) or `sweep` (an erasure's `collectBelowPointer`).
- `roll[q].mode` is the `mode` of `rollbackSegment`: `checked`, `fallback`,
  `override`.
- `cast` is the set of processes that act in a behaviour, chosen at the start:
  a run checks several small groups at once instead of one large one.

Abstractions, and why they are sound for the properties:

- **One segment.** No operation modelled reads two. In `Retention` the sweep's
  limit, shards, tally, dry run and namespace scoping are therefore left out.
- **The guard** of a load (sizes) is a free choice in `Put`. A publish that
  clears leases (`clearLeases`) and the margin for stray numbers are left out
  with the writers that use them.
- **The seed's reads** that are under way together end in any order; its cap of
  64 leased names is beyond the instances and left out.
- **Which leases are live** is a free choice in `Load` and `Collect` (any subset
  of the row's); `Leases` has the clocks.
- **Retention, shred, claim** are one conditional write in `Segment`; their
  retry loops read the row again each time, so a retry is another such write.
  `Drop` and `Retention` have the loops. A drop's deletes in `Segment` are each
  a step, under the tombstone only.
- **A purge** waits for the tombstone's grace. The code's grace is a day by
  default and an hour at least, so that no request from before the tombstone is
  still on its way; `GracePassed` and `PurgeAllowed` state it. A process that
  stalls longer than the grace is outside the model. In `Segment` any tombstone
  may be purged, where the code purges those its sweep stamped (`Retention` has
  the stamps).
- **The watch** after a delete reads the row and then the object's tail; the
  model does both in one step.
- **A delete without an answer** was made or was not, at once; one that lands
  after its load has ended is left out.
- **A conflict whose cause is unsettled** (`isUnsettledConflict`) is the path of
  an unanswered write that reads the row one read later.
- `expectFrom` is implied by the token and is not repeated.

`ObjectRegistry`. The version of the object (ETag or generation) is its content,
since the token inside is never the same twice; a write's random part is
`<<caller, call, attempt>>`. The kinds of store checked are S3 (409 on
contention), an S3-compatible store without conditional deletes, GCS, Azure with
and without deletes, and a directory, where a call is one step under the row's
lock with a fault before or after the rename. `contends`, `resendsWrites` and
`resendsDeletes` say which layer below resends what. A fenced delete's conflict
is left to its caller to settle by a read, and an unfenced delete may remove a
row created again while it is retried: both are in `Registry`, since both are
what `IRegistryDriver` says. A delete of the object waits for the tombstone's
grace (`GracePassed`), as above.

`Leases`. A lease write without an answer lands or does not before the row is read
again; a first copy that outlives its resend is left out.

`EraseId`. The source of a rewrite is held to the row's summary, when the row has
one that names it; the read of the row and the listing its number comes from are
two steps. An object is read at once, and a search reads one object at a time,
newest first (the code reads four). The publish of a rewrite is one fenced
write. An object delete without an answer is left out. `kept` says that a
discard was given up after `DISCARD_ATTEMPTS`; result `error` is a throw.

`Retention`. A scan of pointers is one step, registry reads always answer, and
a tick is longer than any request is under way (grace is an hour at least).
`conditionalDelete` and `purgeTombstones` have their defaults. A write may land
and be answered a conflict by a retry below (`unsettled`). A pointer of the due
index that is created late, after its call failed, is left out. `w1` sweeps
every row and starts over; `w2` sweeps by index.

`Reader`. The source has a registry and a timed refresh. A row is known by its
place in the history, which stands for `pointerId`. Writers do what a row
allows, at any instant. `Unnamed` are the objects whose row carries no summary.
A registry read answers with any row that was current since it was sent; the
read of an object's tail is one instant; a chunk comes from its key or from the
bytes kept. An object is missed when it is gone, refused by the row's summary,
or replaced under its number. Left out: waiting for the prior snapshot's target
over one key, the caller's retry, transient faults of the bucket, corruption, a
source without a registry, distrusted summaries, unleased pins and the engine's
chunk cache. `oldest`, `outage`, `told` and `since` are recorded when a read
looks, for the properties, and `answer` is what the last step handed out.

`Combine`. Sizes are counts of ids with an overhead of one for each bitmap. An
expression is one operator over names. The re-check of subtracted operands reads
rows at one instant; woken workers ask in any order; an outside actor erases and
replaces. `planned`, `published` and `stale` are for the properties.

## 3. Runs

Ten runs pass; two show a disagreement of the code with its documentation.
`CHECK_DEADLOCK FALSE` throughout: the processes run once and stop.

| run | instance | properties | distinct states |
|---|---|---|---|
| `loads` | two loads with a keystore where there is no row, or one with and one without over one generation; 2 other writes, 2 turns, 1 resend | `PointerHasObject`, `KeyOpensPointer`, `RefusalIsFinal`, `AtMostOneLands`, `ReclaimTakesItsOwn` | 1,414,294 |
| `load_ends` | one load, none or one generation, with a ledger or without; 4 other writes, 3 turns, 2 resends, 2 waited lease changes | `FenceCoversLaterChecks`, `PublishReplacesTheRowRead`, `EveryLoadEnds` under `FairSpec` | 311,503 |
| `collect_and_roll_back` | two loads with collections and a rollback; a load, a sweep and a rollback; a sweep, a rollback and other writes; 2 or 3 generations | `MissingPointerIsReported`, `CheckedRollbackKeepsItsObject`, `RowVouchesForObjects`, `SupersededSurvives`, `PublishedByOwnWrite` | 885,819 |
| `ledger_history` | 6 generations, `keep` 0 to 2, 1 lease, a ledger of 4 entries at most | `LedgerFollowsHistory`, `KeepsTheMostRecentlyCurrent`, `HeldStayKnown` | 85,644 |
| `leases` | 2 readers, 1 loader, clocks 0, +1, +1, margin 1, lengths to 2, time to 4 | `TypeOK`, `LeasedGenerationStays`, `LeaseStaysInRow` | 2,078,382 |
| `object_registry` | 2 callers, one with two calls; 2 sends, 2 attempts of a delete; 6 kinds of store | `ImplementsRegistry` (refinement of `Registry`) | 1,448,648 |
| `erase_id` | one erasure beside a load, a rollback, a second erasure or other writes; six segments to start from | `ErasedIdIsNotServed`, `ReceiptIsTrue`, `RefusedRewriteIsGone`, `MissingPointerIsReported`, `DeletesWhatItRead` | 523,547 |
| `retention` | one or two sweeps beside a drop, a load, a setter or other writes; six segments to start from; 1 fault | `PurgeStrandsNothing`, `ShredIsTold`, `DroppedStaysEmpty`, `IndexedIsFound`, `RetiresOnlyExpired`, `AttestationsStay`; `EveryDueIsRetired`, `EveryRetiredRowGoes` under `FairSpec` | 236,090 |
| `live_reads` | a stream or chunk beside a count, 3 rows, 2 objects, 1 fault, eviction or invalidation | `AnswersAreFresh`, `InvalidationIsHeeded`, `MissIsARace` | 1,997,025 |
| `combine` | small calls with limits from refusing everything to holding everything, with and without a feed; 1 fault | `PublishedIsExact`, `BudgetsHold`, `NothingStaleIsPublished`, `EveryOutputSettles` under `FairSpec` | 265,830 |
| `swallowed_fault` | as `collect_and_roll_back` | violates `DeletingCallDetects` | stops at the violation |
| `one_move` | two reads of one chunk, no fault, the row moves once | violates `OneMoveIsHealed` | stops at the violation |

What the properties say of the code:

- `RefusalIsFinal`: when a load reports `superseded`, a guard's refusal or an
  error it stops at, no write of it can still land. `publish.ts` goes to great
  length to say "unknown" instead when one can. One refusal is excepted by name
  (section 5).
- `AtMostOneLands`: two copies of an unanswered write carry the same condition,
  so at most one is applied.
- `PointerHasObject` (no rollback): reclaims and late writes never leave the
  pointer on a deleted object.
- `KeyOpensPointer`: the key of the row is the key of the object, though two
  first loads may each have minted one.
- `ReclaimTakesItsOwn`: a refused load deletes by number, which is safe because
  of what it checked of the row first.
- `FenceCoversLaterChecks`: the checks of `publish.ts` after its fence (a
  tombstone, a pointer this far, new key material, cleartext onto a key) never
  stop a load; they are for the writers without a fence.
- `PublishReplacesTheRowRead`: a load's write lands over the row it read, up to
  its leases, though it waits out lease writes and reads again.
- `MissingPointerIsReported`: with rollbacks not held to the ledger, the pointer
  can end on a deleted object (`docs/guide/correctness.md`, "A rollback that races
  a collection"). When all is at rest, some call said so or could not tell, with
  one exception by name (`Swallowed`): a refused load whose reclaim met a fault,
  under a rollback not held to the ledger (section 5). A load counts only for the
  number it took. A rollback or a collection whose process dies says nothing, and
  is never at rest. `DeletingCallDetects` is the same with no exception, as the
  documentation has it.
- `CheckedRollbackKeepsItsObject`: with rollbacks held to the ledger, it does not
  in the casts checked (see below for what it takes).
- `RowVouchesForObjects`: what is stored under a number a usable ledger names is the
  object published as that number.
- `SupersededSurvives`: `keep >= 1` keeps the generation to roll back to, even
  when that was not the newest by number.
- `PublishedByOwnWrite`: a report of success rests on a write of the load's own,
  which `pointerId` shows after retention and lease writes moved the token on.
- `LedgerFollowsHistory`, `KeepsTheMostRecentlyCurrent`, `HeldStayKnown`: the
  ledger against `order`, a history variable: it is that order with entries left
  out and within its bound, the window keeps the most recent, and neither a cap
  nor a rollback forgets what a lease or a row must still name.
- `ImplementsRegistry`: `Promise!Spec`. Whatever is lost, resent or late, every
  call is one atomic step of the abstract row.
- `ErasedIdIsNotServed`, `ReceiptIsTrue`: once an erasure says "erased", the
  pointer does not serve the id, and what the receipt says of the rest is true.
  `RefusedRewriteIsGone`: a rewrite that was not published is deleted, or said to
  be there. `DeletesWhatItRead`: an erasure deletes an object it read, not
  another under its number.
- `PurgeStrandsNothing`: a sweep removes a row only when nothing is left under
  it. `ShredIsTold`: what a shred reports is so. `DroppedStaysEmpty`: a name
  reported dropped has no objects. Of both, the objects of loads are excepted
  that are under way, died, could not tell or met a fault in their reclaim
  (`LoadAnswersFor`). `IndexedIsFound`: the due index has a pointer
  under the day of every policy set and reported. `RetiresOnlyExpired`: judged by
  the row the tombstone replaces. `AttestationsStay`: a purge takes tombstones of
  a sweep's own making, not a caller's. `EveryDueIsRetired`, `EveryRetiredRowGoes`:
  in the end.
- `AnswersAreFresh`: what a read hands out was current less than a TTL before it
  looked (within a retry of an outage, any row at all may be served).
  `InvalidationIsHeeded`: nothing handed out is older than the last `invalidate`
  the read began after, whatever was in flight. `MissIsARace`: a read ends in a
  miss only if the row moved while it read, or the registry was out.
- `PublishedIsExact`: each output published is the value of its expression over
  what the reads returned. `BudgetsHold`: bytes counted and requests made stay
  within their limits, and the count is what is held. `NothingStaleIsPublished`:
  no output is published over an erasure or a replaced operand the call could
  see. `EveryOutputSettles`.

Bounds. Constants of the code are scaled, keeping their order: `MAX_KEPT` 64,
`KNOWN_SPAN` 127, `KNOWN_FILL` 128, `MAX_KNOWN` 192 become 2, 3, 4, 6 (1, 2, 3,
4 in `ledger_history`, so that a few publishes fill the ledger). A publish's 5
turns become 1 to 3, its 3 resends 1 or 2, the 136 lease changes 1 or 2, the 4
looks of the watch 1, the attempts of an erasure's fence and discard, of a drop
and of a policy call 2. Each bound is reached in a run, and the code's behaviour
at the bound (the final read, the unknown outcome, the refusal) is checked; the
turns are alike, so that more of them repeat what two show: a first write
without answer, and another. Each process runs one operation; another load and
one to four other writes are enough for any two steps of a load to be separated
by the write of a third party, and for that to be undone. `MaxOthers` counts the
writes of single-request operations, those that built the initial row included;
drops, purges and late writes are not counted. `MaxGen` bounds the numbers: a
load that would number above it stops. `MaxBusy` 2 bounds the processes under
way at once in `erase_id`.

In `Leases`, `MaxTime` 4 lets a lease of 2 be taken at any of three times and
end by each clock. In `retention`, `MaxClock` 3, `DaySpan` 2, `Grace` 2 and
`Lookback` 1 give a policy that falls due in the first or second bucket, a
tombstone whose grace passes, and a bucket behind the lookback; the start with
two sweepers has spent its fault. In `live_reads`, the 2000 ms of the TTL and the
500 ms of a retry are both one tick, 3 rows let a number be taken again or the
pointer go down and up, and nothing moves before the first read or after the
last (`Watched`), when there is no one to see it. In `combine`, a call has at
most 8 keys and 8 ids in a chunk; operand `a` is indexed at one id for each key
and holds 8, so that what was planned is too little; the limits are every sixth
value from one that refuses all outputs to one that holds them all, and the read
budgets 3, 5 and 30.

`collect_and_roll_back` checks a history without a ledger with loads and
rollbacks, not with a free-standing sweep beside them. There, an override
rollback onto an unpublished object that is being reclaimed, then undone
(`rollback.ts` 428-447, 591-676), can put the pointer back on a generation that a
`keep` 0 sweep took while the pointer was up: without a ledger nothing in the
row spares it.

`MissingPointerIsReported` is a property of its casts, and no theorem states it,
since with two loads, a sweep and a rollback together it fails. A pass has looked
at the row and is about to delete a number; another deletes that number's object
first; a rollback not held to the ledger lowers the pointer below it; a load
takes the number anew and puts its object; the first pass deletes by number
(`deleteGeneration` gives no condition) and finds the row changed, as does the
second; the load publishes. Each call has told the truth about its own part, and
the pointer is on nothing. It takes four processes and a delete that waits for
all of the others.

`CheckedRollbackKeepsItsObject`, `RowVouchesForObjects` and `SupersededSurvives`
are likewise of the casts checked, where two loads, a collection and a rollback
meet. With four loads, and every rollback held to the ledger, a delete that is
held up breaks each of them: section 5, "A reclaim that is held up".

Fairness. `load_ends`, `retention` and `combine` assume weak fairness.
`load_ends`: of the steps of each load. It says that the process stays up and
that each of its requests is answered or fails. Between requests the code only
computes and waits for bounded times (`jitteredWait` in `publish.ts` and
`leases.ts`). That requests end is an assumption about the driver: with no
`readTimeoutMs`, the default, a read lasts as long as its connection does, and a
load behind it waits as long. Nothing is assumed of the other writers, nor that
an unanswered write ever lands. That the loop ends rests on three counters
(turns, resends, churn), of which a wait for a lease and a conflict with one are
exempt from the first. `retention`: the sweep of every row is run again, as an
operator's schedule does, its requests are answered or fail, late writes settle,
and time passes. `combine`: `RunStep`, since callbacks and requests return or
fail; the planning that precedes it is outside, and `EveryOutputSettles` starts
when it is done.

## 4. Proofs

All of it is for every value of the constants that satisfies the named
assumptions, and for unbounded histories; the `Max*` constants are any numbers.
Each inductive invariant was checked by TLC on an instance before it was proved.

### Loads (`Loading_proofs`)

`Spec => []` of `PointerHasObject`, `KeyOpensPointer`, `RefusalIsFinal`,
`AtMostOneLands` and `FenceCoversLaterChecks`, and the action properties
`ReclaimTakesItsOwn` and `PublishReplacesTheRowRead`: for any number of loads with
or without a keystore, any number of turns, resends and waits, beside retention,
leases, shreds, drops, claims, purges and writes that land late or never.

Assumed: `LedgerAssumption`, `SegmentAssumption`, `LoadAssumption`,
`LoadingAssumption` (the constants are numbers in their order, a cast is a set of
loaders), and the guard `GracePassed` of a purge.

The argument. No property here is inductive: that a refusal is final depends on
what the load knew when it sent each write, and on what every other writer may
do to the row since. `IInv` says of each load

- which names its writes have (`NamesFine`), and what it took from the row it
  read (`BaseFine`);
- that its number is past that row's pointer and its key is the row's or fits a
  row that has none (`Numbered`, `KeyFits`), and that the object under its number
  is its own from the put until the row can show otherwise (`Owns`);
- that a write of it still under way would land only over the row it read, up to
  leases, with its object and key in place, and only while it has not settled
  (`WritesFine`);
- that at most one landed, and that one set the pointer identity (`LandingFine`);
- that while it deletes, the pointer is not on its own object;

and of the segment that what landed was sent (`LandedAreMade`), that what is
under way belongs to a load or to another operation (`FlyingAreSent`), and
`PointerFine`, of which the two pointer properties are parts. The heart of the
proof is what a change of the row does to the facts of the *other* loads
(`RowMoves`, `RowStays`, `RowGoes`): a row replaced has a token no one knew, so
that no expectation held anywhere can match again; a tombstone stays one, a key
stays, and a pointer not renewed is the same. There is one lemma for each step
of the acting load, and one for each kind of step (`Quiet`, `Put`, `Delete`,
`Send`, `Late`, `Other`, `Purge`) that says the rest are undisturbed.
`LandsOverBase` gives `PublishReplacesTheRowRead`, and `DeletesOwn` with
`MoverMoves` gives `ReclaimTakesItsOwn`.

TLC checked `IInv` on `load_ends`' instance (311,503 states) and on `loads`' (1,414,294).

### Loads among collections and rollbacks (`Store_proofs`)

`PublishedByOwnWriteHolds`: `Spec => []PublishedByOwnWrite`, for any number of
loads with their collections, sweeps and rollbacks of any mode, with or without
a ledger, beside the operations of one request and writes that land late.
Assumed: the named assumptions of `Store` and below.

The argument. The pointer identity of the row there is, and of every row a load
has in hand, is that of a write that was applied (`Applied`): a write that moves
the pointer leaves its own there (`ApplyRegistryPatch`), every other leaves it as
it was. A load reports a publish only where such a row shows one of the tokens it
sent, so that one landed. A collection writes no row and a rollback takes no
load's names, so `RowMoves` is all the other processes have to be shown to do.

### The registry row (`ObjectRegistry_proofs`)

`RowKeepsPromise`: `Spec => Promise!Spec`, with `Promise == INSTANCE Registry WITH
...`: for any number of callers, calls, resends and late requests, on every kind
of store. The abstract row is the object with its versions forgotten, `open` the
calls that may still take effect, `effects` those that did.

Assumed: `ObjectRegistryAssumption`, and the guard `GracePassed`.

The argument. `IInv` has three groups of conjuncts. Names: every content made
has an identity of its own (`IdsAreMade`, `OpenIsUnique`, `KnownIsApplied`).
Knowledge: whatever version a caller, a hint or a request under way holds is the
object still, or can never be it again (`KnownIsPast`, `ViewsAreLive`). Permission:
every request that may still reach the store is spent, or an open call permits
it (`SentAreWellMade`, `SentArePermitted`, `DeletesComeLate`, and the five facts
about calls by what they did). Lemma `Landing` is the reason why one request at
most is accepted: the object it leaves was never there before, so nothing known
matches it. Each action then is a step of `Registry` or a stutter
(`TakingEffect` for the former), one lemma each, and the refinement follows.

### Leases (`Leases_proofs`)

`TypesHold` (`TypeOK`), `LeaseHoldsGeneration` (`LeasedGenerationStays`) and
`LeaseHoldsInRow` (`LeaseStaysInRow`), for every set of readers and loaders, every
offset of their clocks within the margin, and every length of lease.

Assumed: `LeasesAssumption` alone: any two clocks differ by at most `Skew`. (The
code says this of `LEASE_SKEW_MS`, one minute; it is needed, since a collector
may drop the lease of a reader whose clock is further behind.)

The argument. A held lease is live by any clock within the margin
(`HeldIsLive`). A write is computed from a row and lands only on that version of
the row, so it carries every lease that is held now (`WritesKeepLeases`): the
lease was in the row it was computed from and live by the writer's clock, or the
write can no longer land. Hence the lease stays in the row. A collector that
judges a row sees the lease in it, or the row is older than the pin, and then
its pointer is not above the pinned generation (`CollectorsSpare`), so that
generation is not below the pointer and is not chosen; a chosen one is not
pinned afterwards, as a pin is of the current generation and the pointer moves
only up. The inductive invariant `IInv` also says that copies of the row are old
(`CopiesAreOld`), and bounds what the guards leave (`PinIsBounded`,
`LoadIsBounded`). `StepPreserves` is split by what a step does (how the row may
move, which copies may change, who holds a lease since), each proved action by
action, and then by conjunct.

What these theorems do not cover: a take or a publish without an answer is
either the step that lands or the one that fails, and a copy that lands after
its sender gave up is left out (a reader that gave up holds nothing). In
`Leases` the pointer only goes up. A rollback onto a generation a collector has
already chosen, and a lease taken on it then, is the race of "A rollback that
races a collection", which `Store` has and the code reports. `pinAt` of an older
generation is not modelled: the code's doc says a lease that lands in the round
trip before a delete is not seen. What a load collects is any generation below
the pointer, so the theorem does not depend on `keep` or on the ledger.

### Live reads (`Reader_proofs`)

`AnswersAreFreshHolds`, `InvalidationIsHeededHolds` and `MissIsARaceHolds`:
`Spec => []` of the three properties of `live_reads`, for any number of reads
through one source, of any length, any number of publishes, rollbacks, drops,
collections, invalidations, evictions and faults, and any TTL and retry.

Assumed: `ReaderAssumption` alone: the constants are numbers in their order,
and the retry of an outage is no longer than the TTL.

The argument. What a read may hand out is decided long before it asks: by the
resolution its snapshot is on, when that was sent, what it took over from the
one before, and what the source did with both meanwhile. `IInv` says

- of the rows (`WorldFine`): the current one runs on, and its object is there;
- of each resolution (`ResolutionFine`): the row it has was current when it was
  sent or later, or an outage since shows why not; of each snapshot
  (`SnapshotFine`): what its reader opened is that row's object, or the row has
  moved since; and of what the source holds and keeps (`HoldsFine`): they agree;
- of invalidations (`Bound`): from some resolution on, all that the source will
  still serve is of the row current at the last `invalidate`, or a later one. It
  covers the predecessors of unsettled resolutions too, since an outage rides one
  out: without that conjunct the invariant is not inductive;
- of each read under way (`ReadFine`): that it reads from a reader that is open,
  on the row of the snapshot it goes by, also in the middle of a refresh
  (`FollowsFine`); that the row is no older than it looked for (`LooksFine`), nor
  than the invalidation it began after (`HeedsFine`); and that the resolutions it
  may still come by were asked for since it began, except the one that it missed
  on (`RaceFine`), so that a second miss shows a row that moved.

A step is reasoned about as a step of the source's records (`m` to `n`), and
once for all reads: `Grows` says what any step may do to them (open readers stay
open, resolutions that landed stay, new ones are of the current row, what is
held was held or is new), and the four facts of every other read outlive such a
step. What remains is one lemma for each action, about the read that acts.
`HistoryContinues` carries everything over a move of the row, and `MissesMoved`
is the end of `MissIsARace`.

TLC checked `IInv` on `live_reads`' instance (1,997,025 states).

### Retirement by policy (`Retention_proofs`)

`RetiresOnlyExpiredHolds`: `Spec => RetiresOnlyExpired`, for any number of sweeps
of either kind, run any number of times, policy calls, shreds, drops, loads and
leases, with writes that land late or never and conflicts reported of writes that
landed, whatever the bounds on tries.

Assumed: `RetentionAssumption` and those of the modules below it. It says that no
two processes share a name (a name stands for the random part of a token), that
`Other` wrote the row there is to start from, and that times are numbers.

The argument. The write that retires is made over a row read earlier, and may be
applied much later, so what counts is which row that can be. `IInv` says of a row
in anyone's hand that the row there now is that very record or has another token
(`Knows`); of a write under way that, over the row whose token it expects, it makes
no tombstone of a tombstone, and a sweep's tombstone only by a policy that had
expired when the sweep began (`Fit`). That a token names one record needs every
write to have a name no other has: each process counts its writes (`Counted`,
`NextIsNew`). A step then replaces the row by a record whose token no one knew
(`KnownAfter`, `FitAfter`), removes it, or leaves it. There is one lemma for each
step of a process, one for each kind of process (`LoadNext`, `DropNext`, `SetNext`,
`SweepNext`), and `StepIsFine` says what is to be shown of any of them.

`IndexedIsFoundHolds`: `Spec => []IndexedIsFound`, from the same assumptions, with
`Expiries` within the days the index has. `IndexInv` says beside `IInv` that a call
is alone only while no other policy call or sweep is under way (`Alone`), and how
far it is with the index (`Shows`): it files the pointer of its own day first, the
days it clears afterwards are not that day, and once it may answer "indexed" that
pointer is there unless another call was beside it. The call may learn of the row
it took the place of at any point, and any of its index writes may fail: what it
does not know it filed, it does not report.

`DroppedStaysEmptyHolds`: `Spec => []DroppedStaysEmpty`, from the assumptions of the
first. A drop lists the bucket until it finds nothing, and reports it; a load that
was on its way before the tombstone may put its object after that. What makes the
report right for good is spread over three places, so `DropInv` says beside `IInv`:

- of the row: the incarnation a drop's tombstone ended is over. The row of that
  incarnation, if there is one, is a tombstone, and no write can begin the
  incarnation again (`Buried`): a create has an incarnation of its own, a write over
  a row keeps the row's, and none is made over a tombstone but another tombstone.
  `IInv` says this of writes under way too (`Fit`), which may land at any time;
- of the bucket: from the listing that found nothing, every object there was put by
  a load that has it still, or that ended and could not tell or swallowed a fault
  of its reclaim (`HeldByLoads`);
- of those loads: that none of their writes was applied (`Holds`). Without it the
  invariant is not inductive: a load whose write did land may take itself to have
  published, and leave its object. That it does not happen is `Buried` again: a
  write of a load over this incarnation finds a tombstone.

A step of one load is judged by what it carries over (`Carries`): what it held it
holds or has deleted, and what it puts it holds. A step of a call is judged by what
it tells (`Tells`): it is done with nothing left only when nothing is listed. There
is a lemma of each kind for each action.

TLC checked `IInv` and `IndexInv`, and then `IInv` with `DropInv`, on `retention`'s
instance (236,090 states); it reaches objects under the tombstone of a drop that
reported them gone.

### What a tombstone is worth (`Retention_proofs`)

`AttestationsStayHolds`, `ShredIsToldHolds` and `PurgeStrandsNothingHolds`:
`Spec /\ []SweepsInTime =>` the three properties, for any number of sweeps, shreds, drops, policy calls, loads and leases,
with writes that land late or never and conflicts reported of writes that landed.

Assumed, beside the assumptions above: `SweepsInTime`. While a sweep
is at a retirement (its drop, its index pointer, the empty row it is about to
remove), less than the grace has passed since it began. The grace is an hour or more
(`MIN_TOMBSTONE_GRACE_MS`), a retirement a few requests; but a sweep takes its time
`now` once for all the rows it does, so the assumption is about a sweep of one row,
or of rows enough to be done within the grace. It is satisfied by the runs, and
needed: `retireLive` reads the row again when nothing was left under it, and removes
whatever tombstone it finds (`retention-sweep.ts` 944-992, whose comment says it is
fenced "on the tombstone just written"). If its own was purged meanwhile, as one
whose grace has passed may be, that can be a tombstone some shred wrote since.

The argument. `PInv` says, beside `IInv`:

- of a call (`CallInv`): a write of its that was applied is the row still
  (`Stands`), and no delete of that row is on its way; a write that may still be
  applied would leave a tombstone with its mark (`Entombs`). It knows which of its
  writes can never be applied any more (`CallDead`, `Dead`), though it may have been
  told of a conflict where there was none, and from then on what it will say of the
  key is settled (`CallTold`). That it stands is what makes the report right for
  good: a call that reads a tombstone asks whether it is its own by `pointerId`;
- of a sweep (`SweepInv`): what it is about to remove is a tombstone that it made,
  or one of a sweep whose grace is over;
- of deletes on their way (`RemovalInv`): each is of a tombstone of a sweep.

So a row goes only if it is `Removable`, and what another sweep is busy with is not:
its mark is that sweep's `now`, and the grace is not over (`RowMayGo`, the one use
of `SweepsInTime`). A step of a process is judged by the writes it adds and by what
it makes of the row (`StepOf`), which keeps `PInv` of all the others at once
(`OthersKeep`); what is left is one lemma for each step of a call (`CallKeeps`) and
of a sweep (`SweepKeepsAll`).

For `PurgeStrandsNothing`, `LeftInv` says in addition that under a row a sweep is to
remove without another look at the bucket (`Empties`: its retirement found nothing,
or its reclaim did), or whose delete is on its way, there are only objects that loads
hold, and that without a row there are only those and the ones the name came with.
A load holds an object (`Holds`) if it put it, none of its row writes was applied,
and it will take it away unless it dies, cannot tell or meets a fault. Three facts make it
inductive. A sweep comes to be in `Empties` only by a listing that is empty at that
step (`SweepEmpties`); a row in `Empties` is a tombstone (`EmptiesEntombed`), and over
a tombstone, or over no row and none after it, no load publishes, so each step of a
load carries what it holds along (`HeldStays`, the lemma `DroppedStaysEmpty` rests
on too); and a row goes, or has its delete sent, only if a sweep was in `Empties` with
that very row (`RowMoves`, `Condemned`).

### Erasure of an id (`EraseId_proofs`)

`DeletesWhatItReadHolds`: `Spec => DeletesWhatItRead`, for any number of erasures,
keyed or not, beside loads, collections, rollbacks, the single-request operations
and writes that land late or never, from every start.

Assumed: `SegmentAssumption`, and no more: what the bounds on tries are does not
matter, nor what a start holds.

The argument. A call reads in its search and deletes long after it: its fence, a
collection of its own and any number of turns come between, and the object under
a number may have gone and another may have come. So the invariant is about the
*call*, not the segment: each generation among its `holders` was read, and what
was read may hold the id by the row the call began on (`MayHold`); what it still
has to delete by name is of those (`FoundFine`); a search reads a generation
once, so that a later read never replaces the one that was judged, and a rewrite
searches none (`PlaceFine`). That an object is compared with the one read before
the delete is in the step itself (`DeletesFound`), and no other step of a call
that is at its deletes removes an object (`DeletesOnly`). What it deletes next is
the highest number left: that a set of generations has one needs a least
counterexample (`NewestIsOne`), taken from the well-foundedness of `<`, which is
how an induction over numbers is done here without a theorem that takes an
operator. There is one lemma for each step of a call; the others leave it alone.

TLC checked `IInv` on `erase_id`'s instance (523,547 states).

### The ledger (`LedgerHistory_proofs`)

`LedgerFollowsHistoryHolds`, `KeepsTheMostRecentlyCurrentHolds` and
`HeldStayKnownHolds`: the three properties of `LedgerHistory`, for every sequence of
publishes, rollbacks and leases, every `keep`, and every bound: the code's 64, 128,
192 and 127 too, where a run could not fill a ledger.

Assumed: `LedgerAssumption` and `LedgerHistoryAssumption`, which say of the bounds
what the constants of `known-generations.ts` and `leases.ts` satisfy: 127 < 128 <= 192,
room in the 192 for 64 leases beside a full vouch (64 + 127 + 1) and beside a full
ledger (64 + 128), both with nothing to spare, and room in the 128 for the two
entries a rollback protects.

The argument. `Follows` says of a ledger that it names each generation once, and
that of two entries the later is the one made current later; a ledger that does is
the history with entries missing (`FollowsIsHistory`). Selecting entries keeps it
(`WhereFollows`), and so does adding the generation just made current
(`AppendFollows`). What a cut drops is counted: `CapKnownCuts` and `CapInsertCuts`
say that it leaves at most `MaxKnown` entries and every protected and leased one,
since the leases fit in what the protected leave. Of a ledger that follows the
history the newest entries are the ones last current (`NewestAreLastCurrent`): the
later ones of the ledger inject into the later ones of the history. `IInv` adds to
`Follows` that the last entry is the pointer, which makes the ledger usable
(`UsableIsKnown`), and that the bucket holds what the ledger names, so that a new
number is not in it (`NumberIsNew`, again by the well-foundedness of `<`).

A filter is written by the places it keeps (`EntriesAt`), since `SelectSeq` is
recursive and cannot be expanded in a proof; `MCStore` assumes, and TLC evaluates,
that the two agree on small sequences. TLC checked `IInv` on `ledger_history`'s
instance (85,644 states).

### Only model-checked

- Liveness (`EveryLoadEnds`, `EveryDueIsRetired`, `EveryRetiredRowGoes`,
  `EveryOutputSettles`) and anything with ENABLED: beyond the provers.
- What a recursive definition or a fold computes for every input, which needs
  induction over an operator: the sums and groups of `Combine`.
- `MissingPointerIsReported`, `RowVouchesForObjects`, `CheckedRollbackKeepsItsObject`
  and `SupersededSurvives` of `Store`: true of the casts checked, not of every one
  (sections 3 and 5).
- `ErasedIdIsNotServed`, `ReceiptIsTrue` and `RefusedRewriteIsGone` of `EraseId`. The
  first two rest on what the ledger of a row vouches for, which a wider cast does not
  keep. `RefusedRewriteIsGone` needs to know of a rewrite, as `Loading_proofs` does of
  a load, which of its writes may still land. It is not written.
- `PublishedIsExact` and `BudgetsHold` of `Combine`, which are about folds.
- That a read heals what moved once: `OneMoveIsHealed` is false (section 5).

## 5. What the work found

- **A swallowed fault of a refused load's cleanup** (`swallowed_fault`).
  `correctness.md` 503 says that "the deleting call detects it" when a rollback
  moves the pointer onto what is being deleted, and excepts one delete of an
  erasure; of a refused load's cleanup it says (938) that a fault is swallowed and
  "the object stays an orphan". `tidy` (`load.ts` 841) also swallows a fault that
  comes once the object is gone: of the delete's answer, or of the reads of
  `watchDeletes` after it. A rollback with an override that moves the pointer onto
  the refused load's own object in that round trip, and checks it before it goes,
  reports success; the load answers a plain refusal; the pointer is on a missing
  object, and nobody was told. `MissingPointerIsReported` names this one case.
- **A heal onto the stale snapshot of another read** (`one_move`). The heal drops
  a snapshot by identity only (`crbm-storage-source.ts` 2323), so it can take one
  that another read resolved before the row moved, opens what was just found gone
  and fails with `NotFoundError`, after a single move of the row. The reference
  says such an error means the object is permanently absent.
- **An early refusal** (found by the proof of `RefusalIsFinal`, which failed on
  it). A publish waits out lease changes, sends its write over the row it waited
  for, gets no answer and reads the same row again. That is a new record, so
  `record !== waited`, and its token is still not the one expected: the fence goes
  to wait once more, and when the `LEASE_ONLY_RETRIES` are used up it answers
  REFUSED (`publish.ts` 403-430, 567-585) while the write may still land. `load.ts`
  774-776 says a reclaim comes "never after an ambiguous outcome"; `reclaim`
  (813-818) then deletes by number under a row that differs in leases only, and
  the late write puts the pointer on a deleted object. It needs three turns, so
  `loads` with two does not reach it, and the theorems name it as their exception:
  `early` marks the refusal and nothing else (`OutOfChurn`), and `PointsEarly` is a
  pointer set by a write of such a load.

- **A reclaim that is held up** (found in looking for the invariant behind
  `RowVouchesForObjects`, with TLC on a scripted order of steps). `load.ts` 774 says
  of a reclaim under an unchanged row that "the number is its own", and 794 that in
  the round trip before its delete a rollback may land on the object. In that round
  trip the number can also be freed and taken again. With rollbacks held to the
  ledger and `keep` 1: a load numbers 3 over the pointer 2, is refused by its guard,
  reads its row unchanged, and its delete of 3 is held up. A second load publishes
  4, and its collection takes 3, which nothing names. A rollback returns to 2. A
  third load numbers 3 anew and publishes it. Then the first delete arrives, with no
  condition, and takes the published object. If a fourth load published 5 before
  it, the generation that superseded is not there to roll back to
  (`SupersededSurvives`), and a checked rollback to 3 that came before the delete is
  on nothing after it (`CheckedRollbackKeepsItsObject`). If instead a rollback to 2
  was last and the fourth load puts 3 once more, the ledger takes that object for the
  published one (`RowVouchesForObjects`). The first load reports a pointer that it
  finds on what it deleted (`watchDeletes`), and nothing below the pointer. No run
  has this cast: it is four loads, two rollbacks and a delete that waits for them.

## 6. Not modelled, and the plan

Not modelled: bytes (format, codec, checksums), set algebra over bitmaps, export,
metrics and audit, the consistency report, the SDK adapters, the CLI, scripts and
benchmarks. They hold no state the properties depend on. A drop that is still
deleting by number when its tombstone is purged and the name used anew takes the
new row's object: `Retention` admits that interleaving, no property excludes it, and
`correctness.md` 1007-1017 gives it as a limit. Of what is modelled,
`PROJECT.json` says for each component what is left out.

The order of what could come next:

1. Proofs: `RefusedRewriteIsGone` of `EraseId`; what a row vouches for, in `Store`,
   as long as no delete is held up while its number is freed and taken again.
2. The limiter and `withRetry` (`concurrency.ts`, `cas-retry.ts`), the writers
   without a fence (`bulkLoad*`, `*Into`), and pins below the pointer.
