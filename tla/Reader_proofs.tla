---------------------------- MODULE Reader_proofs ----------------------------
(***************************************************************************)
(* Proofs about live reads.  What a source keeps is described record by    *)
(* record, as operators of a memo m, the rows rs, the time at and the last *)
(* outage out, so that each step is reasoned about once, as a step of m.   *)
(***************************************************************************)
EXTENDS Reader, WellFoundedInduction, TLAPS

Resolution ==
    [state : {"sent", "fault", "found", "failed"}, row : Nat, sentAt : Int,
     rodeOut : Nat, prior : Nat]

Snapshot ==
    [resolution : Nat, prior : Nat, replaces : Nat,
     target : {"due", "live", "none", "failed"},
     reader : {"unasked", "asked", "open", "none", "missing", "failed"},
     row : Nat, object : Nat]

Memo ==
    [resolutions : Seq(Resolution), snapshots : Seq(Snapshot), held : Nat, kept : Nat]

SegmentRow == [generation : Int, object : Nat, named : BOOLEAN, until : Int]

ReadState ==
    [pc : {"idle", "reading", "comparing"}, kind : {"count", "chunk", "stream"},
     snap : Nat, on : Nat, live : Nat, seen : BOOLEAN, epoch : Nat, left : Int,
     healed : BOOLEAN, oldest : Nat, outage : Int, told : Nat, since : Nat]

WorldIsTyped ==
    /\ now \in 0..MaxClock
    /\ rows \in Seq(SegmentRow) /\ rows # <<>>
    /\ files \in [0..MaxGen -> Nat] /\ puts \in Nat

ReadsAreTyped ==
    /\ epoch \in Nat /\ told \in 1..Len(rows) /\ outage \in Int /\ outage <= now
    /\ task \in [Tasks -> ReadState]

(* The last row runs on; a row that points nowhere names nothing; the      *)
(* pointer's object is under its key.                                      *)
WorldFine ==
    /\ Current.until = Forever
    /\ \A v \in DOMAIN rows :
          /\ rows[v].generation <= MaxGen
          /\ rows[v].generation < 0 => ~rows[v].named
    /\ Current.generation >= 0 =>
          files[Current.generation] = Current.object /\ Current.object # 0

(* A resolution's row was current when it was sent or later; or it was     *)
(* ridden out, which an outage shows.                                      *)
ResolutionFine(z, q, rs, at, out) ==
    /\ z[q].row \in 1..Len(rs) /\ z[q].sentAt <= at /\ z[q].prior \in 0..(q - 1)
    /\ z[q].state = "fault" => z[q].prior # 0
    /\ IF z[q].state = "found"
       THEN rs[z[q].row].until >= z[q].sentAt \/ out >= z[q].sentAt + (TTL - Retry)
       ELSE \A w \in z[q].row..Len(rs) : rs[w].until >= z[q].sentAt

(* What a snapshot resolved to, and what its reader opened.                *)
SnapshotFine(y, s, z, rs) ==
    LET x == y[s]
        r == z[x.resolution]
    IN  /\ x.resolution \in DOMAIN z /\ x.prior \in 0..(s - 1)
        /\ x.target = "live" => r.state = "found" /\ rs[r.row].generation >= 0
        /\ x.target = "none" => r.state = "found" /\ rs[r.row].generation < 0
        /\ x.reader = "open" =>
              /\ x.target = "live" /\ x.row = r.row
              /\ rs[x.row].named => x.object = rs[x.row].object
              /\ x.object = rs[x.row].object \/ Len(rs) > x.row
        /\ x.reader # "open" => x.row = 0
        /\ x.reader = "none" => x.target = "none"
        /\ x.reader = "missing" => x.target = "live" /\ Len(rs) > r.row

(* The snapshot held is on the resolution kept, when there are both.       *)
HoldsFine(m, rs) ==
    /\ m.held \in 0..Len(m.snapshots) /\ m.kept \in 0..Len(m.resolutions)
    /\ m.held # 0 /\ m.kept # 0 => m.snapshots[m.held].resolution = m.kept
    /\ m.kept # 0 /\ m.resolutions[m.kept].state = "found" =>
          rs[m.resolutions[m.kept].row].generation >= 0

MemoFine(m, rs, at, out) ==
    /\ \A q \in DOMAIN m.resolutions : ResolutionFine(m.resolutions, q, rs, at, out)
    /\ \A s \in DOMAIN m.snapshots : SnapshotFine(m.snapshots, s, m.resolutions, rs)
    /\ HoldsFine(m, rs)

(* From resolution b on, whatever is served is of row v or a later one.    *)
Bound(b, v, m) ==
    /\ b <= Len(m.resolutions) + 1
    /\ m.held # 0 => m.snapshots[m.held].resolution >= b
    /\ m.kept # 0 => m.kept >= b
    /\ \A q \in DOMAIN m.resolutions :
          q >= b => /\ m.resolutions[q].row >= v
                    /\ m.resolutions[q].prior # 0 => m.resolutions[q].prior >= b

(* The snapshot a read goes by: the one it compares with, or its own.      *)
Aim(read) == IF read.pc = "comparing" THEN read.live ELSE read.snap

AimedAt(read, m) == m.snapshots[Aim(read)].resolution

(* The snapshots a read knows are there, and it reads one that is open, of *)
(* the row of the one it follows.                                          *)
FollowsFine(read, m) ==
    /\ read.snap \in DOMAIN m.snapshots /\ read.on \in DOMAIN m.snapshots
    /\ Aim(read) \in DOMAIN m.snapshots
    /\ read.pc = "comparing" => m.snapshots[read.on].reader = "open"
    /\ read.pc = "comparing" /\ read.seen =>
          m.snapshots[read.live].reader \in {"open", "none"}
    /\ read.snap # read.on =>
          /\ m.snapshots[read.on].reader = "open"
          /\ LET r == m.resolutions[m.snapshots[read.snap].resolution]
             IN  r.state = "found" /\ r.row = m.snapshots[read.on].row

(* What it looked at, and what it will serve of that.                      *)
LooksFine(read, m, rs, at, out) ==
    /\ read.oldest \in 1..Len(rs) /\ read.told \in 1..Len(rs) /\ read.since \in 1..Len(rs)
    /\ read.outage <= out
    /\ read.outage >= at => read.oldest = 1
    /\ m.resolutions[AimedAt(read, m)].row >= read.oldest \/ out # read.outage

HeedsFine(read, m) ==
    \E b \in Nat : Bound(b, read.told, m) /\ AimedAt(read, m) >= b

(* From resolution b on, all were asked for since the read began; it reads *)
(* of those once it healed, or else the source may have its own one too.   *)
RaceBound(b, read, m, out) ==
    /\ b <= Len(m.resolutions) + 1
    /\ \A q \in DOMAIN m.resolutions :
          q >= b => m.resolutions[q].row >= read.since \/ out >= 0
    /\ m.held # 0 => LET q == m.snapshots[m.held].resolution
                     IN  q >= b \/ q = AimedAt(read, m)
    /\ m.kept # 0 => m.kept >= b \/ m.kept = AimedAt(read, m)
    /\ read.pc = "reading" /\ read.healed => AimedAt(read, m) >= b

RaceFine(read, m, out) == \E b \in Nat : RaceBound(b, read, m, out)

ReadFine(read, m, rs, at, out) ==
    read.pc # "idle" =>
        /\ FollowsFine(read, m)
        /\ LooksFine(read, m, rs, at, out)
        /\ HeedsFine(read, m)
        /\ RaceFine(read, m, out)

(* What the source keeps, of use to all that read through it.              *)
SourceFine(m, out) ==
    /\ m \in Memo
    /\ MemoFine(m, rows, now, out)
    /\ \E b \in Nat : Bound(b, told, m)
    /\ \A t \in Tasks : ReadFine(task[t], m, rows, now, out)

IInv ==
    /\ WorldIsTyped /\ ReadsAreTyped /\ WorldFine
    /\ SourceFine(memo, outage)
    /\ AnswersAreFresh /\ InvalidationIsHeeded /\ MissIsARace

-----------------------------------------------------------------------------
(* What any step makes of what the source keeps, where the current row is  *)
(* the one numbered last: readers that opened stay open, resolutions that  *)
(* landed stay, new ones are of the current row, and what is held or kept  *)
(* was before, or is new.                                                  *)
ReadersStay(m, n) ==
    /\ Len(m.snapshots) <= Len(n.snapshots)
    /\ \A s \in DOMAIN m.snapshots :
          /\ n.snapshots[s].resolution = m.snapshots[s].resolution
          /\ m.snapshots[s].reader \in {"open", "none"} =>
                /\ n.snapshots[s].reader = m.snapshots[s].reader
                /\ n.snapshots[s].row = m.snapshots[s].row

ResolutionsStay(m, n) ==
    /\ Len(m.resolutions) <= Len(n.resolutions)
    /\ \A q \in DOMAIN m.resolutions :
          LET before == m.resolutions[q]
              after == n.resolutions[q]
          IN  /\ before.state = "found" => after.state = "found" /\ after.row = before.row
              /\ \/ after.row >= before.row
                 \/ before.prior # 0 /\ after.row >= m.resolutions[before.prior].row
              /\ after.prior \in {0, before.prior}

NewAreCurrent(m, n, last) ==
    \A q \in DOMAIN n.resolutions :
        q > Len(m.resolutions) =>
            /\ n.resolutions[q].row = last
            /\ \/ n.resolutions[q].prior = 0
               \/ m.held # 0 /\ n.resolutions[q].prior = m.snapshots[m.held].resolution

HoldsStay(m, n) ==
    /\ n.held \in 0..Len(n.snapshots)
    /\ n.held # 0 =>
          LET q == n.snapshots[n.held].resolution
          IN  \/ q > Len(m.resolutions)
              \/ m.held # 0 /\ q = m.snapshots[m.held].resolution
              \/ m.kept # 0 /\ q = m.kept
    /\ n.kept # 0 => n.kept > Len(m.resolutions) \/ n.kept = m.kept

Grows(m, n, last) ==
    /\ ReadersStay(m, n) /\ ResolutionsStay(m, n)
    /\ NewAreCurrent(m, n, last) /\ HoldsStay(m, n)

(* The types of what a source keeps.                                       *)
LEMMA MemoTypes ==
  ASSUME NEW m \in Memo
  PROVE  /\ m.resolutions \in Seq(Resolution) /\ m.snapshots \in Seq(Snapshot)
         /\ m.held \in Nat /\ m.kept \in Nat
         /\ \A q \in DOMAIN m.resolutions :
               /\ m.resolutions[q] \in Resolution
               /\ m.resolutions[q].row \in Nat /\ m.resolutions[q].prior \in Nat
               /\ m.resolutions[q].sentAt \in Int /\ m.resolutions[q].rodeOut \in Nat
         /\ \A s \in DOMAIN m.snapshots :
               /\ m.snapshots[s] \in Snapshot
               /\ m.snapshots[s].resolution \in Nat /\ m.snapshots[s].row \in Nat
               /\ m.snapshots[s].prior \in Nat
<1>1. m.resolutions \in Seq(Resolution) /\ m.snapshots \in Seq(Snapshot)
      /\ m.held \in Nat /\ m.kept \in Nat
  BY DEF Memo
<1>2. ASSUME NEW q \in DOMAIN m.resolutions
      PROVE  m.resolutions[q] \in Resolution
  BY <1>1
<1>3. ASSUME NEW s \in DOMAIN m.snapshots
      PROVE  m.snapshots[s] \in Snapshot
  BY <1>1
<1> QED
  BY <1>1, <1>2, <1>3 DEF Resolution, Snapshot

(* A set of naturals has a least one.                                      *)
LEMMA Least ==
  ASSUME NEW S, S \subseteq Nat, S # {}
  PROVE  \E x \in S : \A y \in S : x <= y
<1> DEFINE R == {ss \in Nat \X Nat : ss[1] < ss[2]}
<1>1. IsWellFoundedOn(R, Nat)
  BY NatLessThanWellFounded DEF OpToRel
<1>2. PICK x \in S : \A y \in S : ~(<<y, x>> \in R)
  <2> HIDE DEF R
  <2> QED
    BY <1>1, WFMin
<1>3. \A y \in S : ~(y < x)
  BY <1>2
<1> QED
  BY <1>3

(* A bound on what is served outlives every step.                          *)
LEMMA BoundStays ==
  ASSUME NEW m \in Memo, NEW n \in Memo, NEW rs \in Seq(SegmentRow), NEW at, NEW out,
         MemoFine(m, rs, at, out), Grows(m, n, Len(rs)),
         NEW b \in Nat, NEW v \in 1..Len(rs), Bound(b, v, m)
  PROVE  Bound(b, v, n)
<1>1. m.resolutions \in Seq(Resolution) /\ n.resolutions \in Seq(Resolution)
      /\ m.snapshots \in Seq(Snapshot) /\ n.snapshots \in Seq(Snapshot)
      /\ m.held \in Nat /\ m.kept \in Nat /\ n.held \in Nat /\ n.kept \in Nat
  BY DEF Memo
<1>2. b <= Len(n.resolutions) + 1 /\ (n.kept # 0 => n.kept >= b)
  BY <1>1 DEF Bound, Grows, ResolutionsStay, HoldsStay
<1>3. n.held # 0 => n.snapshots[n.held].resolution >= b
  <2> SUFFICES ASSUME n.held # 0
               PROVE  n.snapshots[n.held].resolution >= b
    OBVIOUS
  <2> DEFINE q == n.snapshots[n.held].resolution
  <2>1. q \in Nat
    <3>1. n.held \in 1..Len(n.snapshots)
      BY <1>1 DEF Grows, HoldsStay
    <3> QED
      BY <1>1, <3>1, MemoTypes
  <2>2. \/ q > Len(m.resolutions)
        \/ m.held # 0 /\ q = m.snapshots[m.held].resolution
        \/ m.kept # 0 /\ q = m.kept
    BY DEF Grows, HoldsStay
  <2>3. b <= Len(m.resolutions) + 1 /\ Len(m.resolutions) \in Nat
    BY <1>1 DEF Bound
  <2>4. q >= b
    <3> HIDE DEF q
    <3> QED
      BY <1>1, <2>1, <2>2, <2>3 DEF Bound
  <2> QED
    BY <2>4
<1>4. ASSUME NEW q \in DOMAIN n.resolutions, q >= b, q > Len(m.resolutions)
      PROVE  /\ n.resolutions[q].row >= v
             /\ n.resolutions[q].prior # 0 => n.resolutions[q].prior >= b
  <2>1. n.resolutions[q].row = Len(rs)
    BY <1>4 DEF Grows, NewAreCurrent
  <2>2. \/ n.resolutions[q].prior = 0
        \/ m.held # 0 /\ n.resolutions[q].prior = m.snapshots[m.held].resolution
    BY <1>4 DEF Grows, NewAreCurrent
  <2> QED
    BY <1>1, <2>1, <2>2, SMTT(20) DEF Bound
<1>5. ASSUME NEW q \in DOMAIN n.resolutions, q >= b, ~(q > Len(m.resolutions))
      PROVE  /\ n.resolutions[q].row >= v
             /\ n.resolutions[q].prior # 0 => n.resolutions[q].prior >= b
  <2>1. q \in DOMAIN m.resolutions
    BY <1>1, <1>5
  <2> DEFINE before == m.resolutions[q]
  <2>2. before \in Resolution /\ n.resolutions[q] \in Resolution
    BY <1>1, <2>1
  <2>3. before.row >= v /\ (before.prior # 0 => before.prior >= b)
    BY <2>1, <1>5 DEF Bound
  <2>4. before.prior # 0 => m.resolutions[before.prior].row >= v
                            /\ m.resolutions[before.prior] \in Resolution
    <3>1. before.prior \in 0..(q - 1)
      BY <2>1 DEF MemoFine, ResolutionFine
    <3>2. before.prior # 0 => before.prior \in DOMAIN m.resolutions
      BY <3>1, <2>1, <1>1, SMTT(20)
    <3> SUFFICES ASSUME before.prior # 0
                 PROVE  m.resolutions[before.prior].row >= v
                        /\ m.resolutions[before.prior] \in Resolution
      OBVIOUS
    <3> DEFINE p == before.prior
    <3>3. p \in DOMAIN m.resolutions /\ p >= b
      BY <3>2, <2>3
    <3> HIDE DEF p
    <3>4. m.resolutions[p].row >= v
      BY <3>3 DEF Bound
    <3>5. m.resolutions[p] \in Resolution
      BY <3>3, <1>1
    <3> QED
      BY <3>4, <3>5 DEF p
  <2>5. n.resolutions[q].row >= v
    <3>1. \/ n.resolutions[q].row >= before.row
          \/ before.prior # 0 /\ n.resolutions[q].row >= m.resolutions[before.prior].row
      BY <2>1 DEF Grows, ResolutionsStay
    <3>2. before.row \in Nat /\ n.resolutions[q].row \in Nat
      BY <2>2 DEF Resolution
    <3>3. before.prior # 0 => m.resolutions[before.prior].row \in Nat
      BY <2>4 DEF Resolution
    <3>4. v \in Nat
      OBVIOUS
    <3> DEFINE old == before.row
               new == n.resolutions[q].row
               other == m.resolutions[before.prior].row
    <3>5. CASE new >= old
      <4>1. old >= v /\ old \in Nat /\ new \in Nat
        BY <2>3, <3>2
      <4> HIDE DEF old, new
      <4>2. new >= v
        BY <4>1, <3>4, <3>5
      <4> QED
        BY <4>2 DEF new
    <3>6. CASE before.prior # 0 /\ new >= other
      <4>1. other >= v /\ other \in Nat /\ new \in Nat
        BY <2>4, <3>2, <3>3, <3>6
      <4> HIDE DEF other, new
      <4>2. new >= v
        BY <4>1, <3>4, <3>6
      <4> QED
        BY <4>2 DEF new
    <3> QED
      BY <3>1, <3>5, <3>6
  <2> QED
    BY <2>1, <2>3, <2>5 DEF Grows, ResolutionsStay
<1> QED
  BY <1>2, <1>3, <1>4, <1>5 DEF Bound

(* What a read follows stays.                                              *)
LEMMA FollowsStay ==
  ASSUME NEW m \in Memo, NEW n \in Memo, NEW rs, NEW at, NEW out,
         MemoFine(m, rs, at, out), Grows(m, n, Len(rs)),
         NEW read \in ReadState, FollowsFine(read, m)
  PROVE  FollowsFine(read, n) /\ AimedAt(read, n) = AimedAt(read, m)
<1>1. m.resolutions \in Seq(Resolution) /\ n.resolutions \in Seq(Resolution)
      /\ m.snapshots \in Seq(Snapshot) /\ n.snapshots \in Seq(Snapshot)
  BY DEF Memo
<1>2. \A s \in DOMAIN m.snapshots : /\ s \in DOMAIN n.snapshots
                                    /\ m.snapshots[s].resolution \in DOMAIN m.resolutions
  BY <1>1, SMTT(20) DEF Grows, ReadersStay, MemoFine, SnapshotFine
<1>3. AimedAt(read, n) = AimedAt(read, m)
  BY DEF Grows, ReadersStay, FollowsFine, AimedAt
<1>4. read.pc = "comparing" => read.live \in DOMAIN m.snapshots
  BY DEF FollowsFine, Aim
<1>5. read.pc = "comparing" => n.snapshots[read.on].reader = "open"
  BY DEF Grows, ReadersStay, FollowsFine
<1>6. read.pc = "comparing" /\ read.seen => n.snapshots[read.live].reader \in {"open", "none"}
  BY <1>4 DEF Grows, ReadersStay, FollowsFine
<1>7. ASSUME read.snap # read.on
      PROVE  /\ n.snapshots[read.on].reader = "open"
             /\ LET r == n.resolutions[n.snapshots[read.snap].resolution]
                IN  r.state = "found" /\ r.row = n.snapshots[read.on].row
  <2>1. /\ m.snapshots[read.on].reader = "open"
        /\ LET r == m.resolutions[m.snapshots[read.snap].resolution]
           IN  r.state = "found" /\ r.row = m.snapshots[read.on].row
        /\ read.snap \in DOMAIN m.snapshots /\ read.on \in DOMAIN m.snapshots
    BY <1>7 DEF FollowsFine
  <2>2. n.snapshots[read.on].reader = "open" /\ n.snapshots[read.on].row = m.snapshots[read.on].row
    BY <2>1 DEF Grows, ReadersStay
  <2>3. n.snapshots[read.snap].resolution = m.snapshots[read.snap].resolution
        /\ m.snapshots[read.snap].resolution \in DOMAIN m.resolutions
    BY <2>1, <1>2 DEF Grows, ReadersStay
  <2> QED
    BY <2>1, <2>2, <2>3 DEF Grows, ResolutionsStay
<1> QED
  BY <1>2, <1>3, <1>5, <1>6, <1>7 DEF FollowsFine, Aim

(* What a read looked at, too, unless a ride-out now excuses it.           *)
LEMMA LooksStay ==
  ASSUME NEW m \in Memo, NEW n \in Memo, NEW rs \in Seq(SegmentRow), NEW at \in Int,
         NEW out \in Int, NEW outAfter \in Int,
         MemoFine(m, rs, at, out), MemoFine(n, rs, at, outAfter), Grows(m, n, Len(rs)),
         \/ /\ outAfter = out
            /\ \A q \in DOMAIN m.resolutions : n.resolutions[q].row >= m.resolutions[q].row
         \/ outAfter = at,
         out <= outAfter,
         NEW read \in ReadState, FollowsFine(read, m), LooksFine(read, m, rs, at, out)
  PROVE  LooksFine(read, n, rs, at, outAfter)
<1> DEFINE q == AimedAt(read, m)
<1>1. m.resolutions \in Seq(Resolution) /\ n.resolutions \in Seq(Resolution)
      /\ m.snapshots \in Seq(Snapshot)
  BY DEF Memo
<1>2. q \in DOMAIN m.resolutions
  BY DEF FollowsFine, AimedAt, MemoFine, SnapshotFine
<1>3. q \in DOMAIN n.resolutions /\ AimedAt(read, n) = q
  BY <1>1, <1>2, FollowsStay DEF Grows, ResolutionsStay
<1>4. n.resolutions[q].row \in 1..Len(rs) /\ m.resolutions[q] \in Resolution
  BY <1>1, <1>2, <1>3 DEF MemoFine, ResolutionFine
<1>5. read.outage \in Int /\ read.oldest \in Nat
  BY DEF ReadState
<1>6. n.resolutions[q].row >= read.oldest \/ outAfter # read.outage
  <2>1. CASE outAfter = at
    BY <2>1, <1>4, <1>5 DEF LooksFine
  <2>2. CASE outAfter = out /\ n.resolutions[q].row >= m.resolutions[q].row
    BY <2>2, <1>4, <1>5, SMTT(20) DEF LooksFine, Resolution
  <2> QED
    BY <2>1, <2>2, <1>2
<1>7. read.outage <= outAfter
  BY <1>5 DEF LooksFine
<1> QED
  BY <1>3, <1>6, <1>7 DEF LooksFine

(* So does what was asked for since it began.                              *)
LEMMA RaceStays ==
  ASSUME NEW m \in Memo, NEW n \in Memo, NEW rs \in Seq(SegmentRow), NEW at \in Nat,
         NEW out \in Int, NEW outAfter \in Int,
         MemoFine(m, rs, at, out), Grows(m, n, Len(rs)),
         \/ /\ outAfter = out
            /\ \A q \in DOMAIN m.resolutions : n.resolutions[q].row >= m.resolutions[q].row
         \/ outAfter = at,
         out <= outAfter,
         NEW read \in ReadState, FollowsFine(read, m), read.since <= Len(rs),
         RaceFine(read, m, out)
  PROVE  RaceFine(read, n, outAfter)
<1>1. m.resolutions \in Seq(Resolution) /\ n.resolutions \in Seq(Resolution)
      /\ m.snapshots \in Seq(Snapshot) /\ n.snapshots \in Seq(Snapshot)
      /\ m.held \in Nat /\ m.kept \in Nat /\ n.held \in Nat /\ n.kept \in Nat
  BY DEF Memo
<1>2. PICK b \in Nat : RaceBound(b, read, m, out)
  BY DEF RaceFine
<1>3. AimedAt(read, n) = AimedAt(read, m)
  BY FollowsStay
<1>4. b <= Len(n.resolutions) + 1
  BY <1>1, <1>2 DEF RaceBound, Grows, ResolutionsStay, HoldsStay
<1>5. ASSUME NEW q \in DOMAIN n.resolutions, q >= b
      PROVE  n.resolutions[q].row >= read.since \/ outAfter >= 0
  <2>1. CASE outAfter = at
    BY <2>1
  <2>2. CASE q > Len(m.resolutions)
    BY <2>2, <1>1 DEF Grows, NewAreCurrent, ReadState
  <2>3. CASE q \in DOMAIN m.resolutions /\ outAfter # at
    <3>1. m.resolutions[q] \in Resolution /\ n.resolutions[q] \in Resolution
      BY <1>1, <2>3
    <3>2. m.resolutions[q].row >= read.since \/ out >= 0
      BY <1>2, <1>5, <2>3 DEF RaceBound
    <3>3. outAfter = out /\ n.resolutions[q].row >= m.resolutions[q].row
      BY <2>3
    <3>4. m.resolutions[q].row \in Nat /\ n.resolutions[q].row \in Nat /\ read.since \in Nat
      BY <3>1 DEF Resolution, ReadState
    <3> DEFINE old == m.resolutions[q].row
               new == n.resolutions[q].row
    <3>5. /\ old \in Nat /\ new \in Nat /\ new >= old /\ read.since \in Nat
          /\ old >= read.since \/ outAfter >= 0
      BY <3>2, <3>3, <3>4
    <3>6. new >= read.since \/ outAfter >= 0
      <4> HIDE DEF old, new
      <4> QED
        BY <3>5
    <3> QED
      BY <3>6
  <2> QED
    BY <2>1, <2>2, <2>3, <1>1
<1>6. n.kept # 0 => n.kept >= b \/ n.kept = AimedAt(read, m)
  BY <1>1, <1>2 DEF RaceBound, Grows, ResolutionsStay, HoldsStay
<1>7. n.held # 0 => LET q == n.snapshots[n.held].resolution
                    IN  q >= b \/ q = AimedAt(read, m)
  <2> SUFFICES ASSUME n.held # 0
               PROVE  LET q == n.snapshots[n.held].resolution
                      IN  q >= b \/ q = AimedAt(read, m)
    OBVIOUS
  <2> DEFINE q == n.snapshots[n.held].resolution
  <2>1. q \in Nat
    <3>1. n.held \in 1..Len(n.snapshots)
      BY <1>1 DEF Grows, HoldsStay
    <3> QED
      BY <1>1, <3>1, MemoTypes
  <2>2. \/ q > Len(m.resolutions)
        \/ m.held # 0 /\ q = m.snapshots[m.held].resolution
        \/ m.kept # 0 /\ q = m.kept
    BY DEF Grows, HoldsStay
  <2>3. b <= Len(m.resolutions) + 1 /\ Len(m.resolutions) \in Nat
    BY <1>1, <1>2 DEF RaceBound
  <2>4. q >= b \/ q = AimedAt(read, m)
    <3> HIDE DEF q
    <3> QED
      BY <1>1, <1>2, <2>1, <2>2, <2>3, SMTT(20) DEF RaceBound
  <2> QED
    BY <2>4
<1>8. read.pc = "reading" /\ read.healed => AimedAt(read, n) >= b
  BY <1>2, <1>3 DEF RaceBound
<1>9. RaceBound(b, read, n, outAfter)
  BY <1>3, <1>4, <1>5, <1>6, <1>7, <1>8 DEF RaceBound
<1> QED
  BY <1>9 DEF RaceFine

(* Whatever is done through the source leaves every read as good as it was.*)
LEMMA SourceStays ==
  ASSUME WorldIsTyped, ReadsAreTyped,
         NEW m, NEW n \in Memo, NEW out \in Int, NEW outAfter \in Int,
         SourceFine(m, out), MemoFine(n, rows, now, outAfter), Grows(m, n, Len(rows)),
         \/ /\ outAfter = out
            /\ \A q \in DOMAIN m.resolutions : n.resolutions[q].row >= m.resolutions[q].row
         \/ outAfter = now,
         out <= outAfter
  PROVE  SourceFine(n, outAfter)
<1>1. m \in Memo /\ MemoFine(m, rows, now, out)
  BY DEF SourceFine
<1>2. rows \in Seq(SegmentRow) /\ now \in Nat /\ now \in Int
  BY ReaderAssumption DEF WorldIsTyped
<1>3. \E b \in Nat : Bound(b, told, n)
  <2>1. PICK b \in Nat : Bound(b, told, m)
    BY DEF SourceFine
  <2>2. told \in 1..Len(rows)
    BY DEF ReadsAreTyped
  <2>3. Bound(b, told, n)
    BY <1>1, <1>2, <2>1, <2>2, BoundStays
  <2> QED
    BY <2>3
<1>4. ASSUME NEW t \in Tasks
      PROVE  ReadFine(task[t], n, rows, now, outAfter)
  <2> DEFINE read == task[t]
  <2>1. read \in ReadState
    BY DEF ReadsAreTyped
  <2> SUFFICES ASSUME read.pc # "idle"
               PROVE  /\ FollowsFine(read, n)
                      /\ LooksFine(read, n, rows, now, outAfter)
                      /\ HeedsFine(read, n)
                      /\ RaceFine(read, n, outAfter)
    BY DEF ReadFine
  <2>2. ReadFine(read, m, rows, now, out)
    BY DEF SourceFine
  <2>3. /\ FollowsFine(read, m) /\ LooksFine(read, m, rows, now, out)
        /\ HeedsFine(read, m) /\ RaceFine(read, m, out)
    BY <2>2 DEF ReadFine
  <2> HIDE DEF read
  <2>4. FollowsFine(read, n) /\ AimedAt(read, n) = AimedAt(read, m)
    BY <1>1, <2>1, <2>3, FollowsStay
  <2>5. LooksFine(read, n, rows, now, outAfter)
    BY <1>1, <1>2, <2>1, <2>3, LooksStay
  <2>6. read.since <= Len(rows) /\ read.told \in 1..Len(rows)
    BY <1>2, <2>3 DEF LooksFine
  <2>7. RaceFine(read, n, outAfter)
    BY <1>1, <1>2, <2>1, <2>3, <2>6, RaceStays
  <2>8. PICK b \in Nat : Bound(b, read.told, m) /\ AimedAt(read, m) >= b
    BY <2>3 DEF HeedsFine
  <2>9. Bound(b, read.told, n)
    BY <1>1, <1>2, <2>6, <2>8, BoundStays
  <2>10. HeedsFine(read, n)
    BY <2>4, <2>8, <2>9 DEF HeedsFine
  <2> QED
    BY <2>4, <2>5, <2>7, <2>10
<1> QED
  BY <1>1, <1>3, <1>4 DEF SourceFine

(* The source lets go of the snapshot it holds, or of the resolution it    *)
(* keeps.                                                                  *)
Forgets(m, n) ==
    /\ n.resolutions = m.resolutions /\ n.snapshots = m.snapshots
    /\ n.held \in {0, m.held} /\ n.kept \in {0, m.kept}

(* Letting go of what is cached leaves all that is known of the rest.      *)
LEMMA ForgetsStays ==
  ASSUME WorldIsTyped, ReadsAreTyped, NEW m, NEW n \in Memo, NEW out \in Int,
         SourceFine(m, out), Forgets(m, n)
  PROVE  SourceFine(n, out)
<1>1. m \in Memo /\ MemoFine(m, rows, now, out)
  BY DEF SourceFine
<1>2. MemoFine(n, rows, now, out)
  BY <1>1, MemoTypes, SMTT(20) DEF MemoFine, HoldsFine, Forgets
<1>3. HoldsStay(m, n)
  BY <1>1, MemoTypes DEF HoldsStay, Forgets, MemoFine, HoldsFine
<1>4. ReadersStay(m, n)
  BY <1>1, MemoTypes DEF ReadersStay, Forgets
<1>5. /\ ResolutionsStay(m, n)
      /\ \A q \in DOMAIN m.resolutions : n.resolutions[q].row >= m.resolutions[q].row
  BY <1>1, MemoTypes DEF ResolutionsStay, Forgets
<1>6. NewAreCurrent(m, n, Len(rows))
  BY <1>1, MemoTypes DEF NewAreCurrent, Forgets
<1> QED
  BY <1>1, <1>2, <1>3, <1>4, <1>5, <1>6, SourceStays DEF Grows

(* One snapshot's reader moves on, as x.                                   *)
MovesOn(m, n, s, x) ==
    /\ n.resolutions = m.resolutions /\ n.held = m.held /\ n.kept = m.kept
    /\ s \in DOMAIN m.snapshots /\ x \in Snapshot
    /\ n.snapshots = [m.snapshots EXCEPT ![s] = x]
    /\ x.resolution = m.snapshots[s].resolution
    /\ m.snapshots[s].reader \in {"open", "none"} =>
          x.reader = m.snapshots[s].reader /\ x.row = m.snapshots[s].row

(* A reader that moves on leaves what its source keeps fine, when what it  *)
(* comes to is.                                                            *)
LEMMA MovesOnStays ==
  ASSUME WorldIsTyped, ReadsAreTyped, NEW m, NEW n \in Memo, NEW out \in Int,
         SourceFine(m, out), NEW s, NEW x, MovesOn(m, n, s, x),
         SnapshotFine([m.snapshots EXCEPT ![s] = x], s, m.resolutions, rows)
  PROVE  SourceFine(n, out)
<1>1. m \in Memo /\ MemoFine(m, rows, now, out)
  BY DEF SourceFine
<1>2. m.snapshots \in Seq(Snapshot) /\ s \in DOMAIN m.snapshots
  BY <1>1, MemoTypes DEF MovesOn
<1>3. /\ DOMAIN n.snapshots = DOMAIN m.snapshots /\ Len(n.snapshots) = Len(m.snapshots)
      /\ n.snapshots[s] = x
      /\ \A z \in DOMAIN m.snapshots : z # s => n.snapshots[z] = m.snapshots[z]
      /\ \A z \in DOMAIN m.snapshots : n.snapshots[z].resolution = m.snapshots[z].resolution
  BY <1>2 DEF MovesOn
<1>4. n.resolutions = m.resolutions /\ n.held = m.held /\ n.kept = m.kept
  BY DEF MovesOn
<1>5. ASSUME NEW z \in DOMAIN n.snapshots
      PROVE  SnapshotFine(n.snapshots, z, n.resolutions, rows)
  <2>1. CASE z = s
    BY <2>1, <1>4 DEF MovesOn
  <2>2. CASE z # s
    <3>1. SnapshotFine(m.snapshots, z, m.resolutions, rows)
      BY <1>1, <1>3, <1>5 DEF MemoFine
    <3> QED
      BY <3>1, <2>2, <1>3, <1>4 DEF SnapshotFine
  <2> QED
    BY <2>1, <2>2
<1>6. HoldsFine(n, rows)
  BY <1>1, <1>3, <1>4, MemoTypes DEF HoldsFine, MemoFine
<1>7. MemoFine(n, rows, now, out)
  BY <1>1, <1>4, <1>5, <1>6 DEF MemoFine
<1>8. HoldsStay(m, n)
  <2>1. m.held \in 0..Len(m.snapshots) /\ m.held \in Nat
    BY <1>1, MemoTypes DEF MemoFine, HoldsFine
  <2> QED
    BY <2>1, <1>2, <1>3, <1>4 DEF HoldsStay
<1>9. ReadersStay(m, n)
  BY <1>2, <1>3, MemoTypes DEF ReadersStay, MovesOn
<1>10. /\ ResolutionsStay(m, n)
       /\ \A q \in DOMAIN m.resolutions : n.resolutions[q].row >= m.resolutions[q].row
  BY <1>1, <1>4, MemoTypes DEF ResolutionsStay
<1>11. NewAreCurrent(m, n, Len(rows))
  BY <1>1, <1>4, MemoTypes DEF NewAreCurrent
<1> QED
  BY <1>1, <1>7, <1>8, <1>9, <1>10, <1>11, SourceStays DEF Grows

(* A reader is asked for.                                                  *)
LEMMA Asks ==
  ASSUME WorldIsTyped, ReadsAreTyped, NEW m, NEW out \in Int, SourceFine(m, out),
         NEW s \in DOMAIN m.snapshots
  PROVE  /\ SourceFine(asks(m, s), out)
         /\ asks(m, s).resolutions = m.resolutions
         /\ asks(m, s).held = m.held /\ asks(m, s).kept = m.kept
         /\ DOMAIN asks(m, s).snapshots = DOMAIN m.snapshots
         /\ \A z \in DOMAIN m.snapshots :
               asks(m, s).snapshots[z].resolution = m.snapshots[z].resolution
<1> DEFINE n == asks(m, s)
           y == m.snapshots[s]
           x == [y EXCEPT !.reader = IF @ = "unasked" THEN "asked" ELSE @]
<1>1. m \in Memo /\ MemoFine(m, rows, now, out)
  BY DEF SourceFine
<1>2. y \in Snapshot /\ m.snapshots \in Seq(Snapshot)
  BY <1>1, MemoTypes
<1>3. x \in Snapshot /\ x.resolution = y.resolution /\ x.prior = y.prior
      /\ x.target = y.target /\ x.row = y.row /\ x.object = y.object
      /\ (y.reader # "unasked" => x.reader = y.reader)
      /\ (y.reader = "unasked" => x.reader = "asked")
  BY <1>2 DEF Snapshot
<1>4. n = [m EXCEPT !.snapshots = [m.snapshots EXCEPT ![s] = x]]
  BY <1>1, <1>2 DEF asks, Memo
<1> HIDE DEF x, n
<1>5. n \in Memo /\ n.snapshots = [m.snapshots EXCEPT ![s] = x]
      /\ n.resolutions = m.resolutions /\ n.held = m.held /\ n.kept = m.kept
  <2>1. [m.snapshots EXCEPT ![s] = x] \in Seq(Snapshot)
    BY <1>2, <1>3
  <2> QED
    BY <1>1, <1>4, <2>1 DEF Memo
<1>6. MovesOn(m, n, s, x)
  BY <1>3, <1>5 DEF MovesOn
<1>7. SnapshotFine([m.snapshots EXCEPT ![s] = x], s, m.resolutions, rows)
  <2>1. SnapshotFine(m.snapshots, s, m.resolutions, rows)
    BY <1>1 DEF MemoFine
  <2>2. [m.snapshots EXCEPT ![s] = x][s] = x
    BY <1>2
  <2> QED
    BY <2>1, <2>2, <1>3 DEF SnapshotFine
<1>8. SourceFine(n, out)
  BY <1>5, <1>6, <1>7, MovesOnStays
<1>9. \A z \in DOMAIN m.snapshots : n.snapshots[z].resolution = m.snapshots[z].resolution
  BY <1>2, <1>3, <1>5
<1>10. DOMAIN n.snapshots = DOMAIN m.snapshots
  BY <1>2, <1>5
<1> QED
  BY <1>5, <1>8, <1>9, <1>10 DEF n

(* What dropStale leaves neither holds nor keeps the resolution it         *)
(* dropped.                                                                *)
LEMMA DropsStale ==
  ASSUME WorldIsTyped, ReadsAreTyped, NEW m, NEW out \in Int, SourceFine(m, out),
         NEW s \in DOMAIN m.snapshots
  PROVE  /\ SourceFine(dropStale(m, s), out) /\ Forgets(m, dropStale(m, s))
         /\ LET q == m.snapshots[s].resolution
                n == dropStale(m, s)
            IN  /\ n.held # 0 => n.snapshots[n.held].resolution # q
                /\ n.kept # q \/ n.kept = 0
<1>1. m \in Memo
  BY DEF SourceFine
<1>2. dropStale(m, s) \in Memo /\ Forgets(m, dropStale(m, s))
  BY <1>1 DEF dropStale, Memo, Forgets
<1>3. SourceFine(dropStale(m, s), out)
  BY <1>2, ForgetsStays
<1>4. LET q == m.snapshots[s].resolution
          n == dropStale(m, s)
      IN  /\ n.held = IF m.held # 0 /\ m.snapshots[m.held].resolution = q THEN 0 ELSE m.held
          /\ n.kept = IF m.kept = q THEN 0 ELSE m.kept
          /\ n.snapshots = m.snapshots
  BY <1>1 DEF dropStale, Memo
<1> QED
  BY <1>1, <1>2, <1>3, <1>4

(* The source resolves the segment: a new snapshot x, on the resolution    *)
(* kept or on one sent now.                                                *)
BeginsOn(m, n, x) ==
    /\ x \in Snapshot /\ n.snapshots = Append(m.snapshots, x)
    /\ n.held = Len(m.snapshots) + 1 /\ n.kept = x.resolution
    /\ x.prior \in 0..Len(m.snapshots) /\ x.reader = "unasked" /\ x.row = 0
    /\ \/ /\ n.resolutions = m.resolutions /\ m.kept # 0 /\ x.resolution = m.kept
          /\ x.target = (IF m.resolutions[m.kept].state = "found" THEN "live" ELSE "due")
       \/ /\ x.resolution = Len(m.resolutions) + 1 /\ x.target = "due"
          /\ \E r \in Resolution :
                /\ n.resolutions = Append(m.resolutions, r)
                /\ r.state = "sent" /\ r.row = Len(rows) /\ r.sentAt = now
                /\ r.prior = (IF m.held # 0 THEN m.snapshots[m.held].resolution ELSE 0)

(* A new snapshot, on a resolution kept or sent, leaves what its source    *)
(* keeps fine, and no resolution on an older row.                          *)
LEMMA BeginsOnStays ==
  ASSUME WorldIsTyped, ReadsAreTyped, WorldFine, NEW m, NEW n \in Memo, NEW out \in Int,
         SourceFine(m, out), NEW x, BeginsOn(m, n, x)
  PROVE  /\ SourceFine(n, out) /\ Grows(m, n, Len(rows))
         /\ \A q \in DOMAIN m.resolutions : n.resolutions[q].row >= m.resolutions[q].row
<1>1. m \in Memo /\ MemoFine(m, rows, now, out)
  BY DEF SourceFine
<1>2. /\ Len(rows) \in Nat \ {0} /\ rows \in Seq(SegmentRow) /\ now \in Nat
      /\ rows[Len(rows)].until = MaxClock + 1 /\ now <= MaxClock /\ MaxClock \in Nat
  BY ReaderAssumption DEF WorldIsTyped, WorldFine, Current, Forever
<1>3. /\ Len(n.snapshots) = Len(m.snapshots) + 1
      /\ n.snapshots[Len(m.snapshots) + 1] = x
      /\ \A s \in DOMAIN m.snapshots : n.snapshots[s] = m.snapshots[s]
      /\ \A s \in DOMAIN n.snapshots : s \in DOMAIN m.snapshots \/ s = Len(m.snapshots) + 1
      /\ Len(m.snapshots) \in Nat /\ Len(m.resolutions) \in Nat
  BY <1>1, MemoTypes, SMTT(20) DEF BeginsOn
<1>4. m.held # 0 => /\ m.snapshots[m.held].resolution \in DOMAIN m.resolutions
                    /\ m.snapshots[m.held].resolution \in 1..Len(m.resolutions)
  BY <1>1, MemoTypes, SMTT(20) DEF MemoFine, HoldsFine, SnapshotFine
<1>5. /\ Len(n.resolutions) >= Len(m.resolutions)
      /\ \A q \in DOMAIN m.resolutions : q \in DOMAIN n.resolutions
                                         /\ n.resolutions[q] = m.resolutions[q]
      /\ x.resolution \in DOMAIN n.resolutions
      /\ \A q \in DOMAIN n.resolutions : q \in DOMAIN m.resolutions \/ q = Len(m.resolutions) + 1
      /\ \A q \in DOMAIN n.resolutions :
            q = Len(m.resolutions) + 1 =>
               /\ n.resolutions[q].state = "sent" /\ n.resolutions[q].row = Len(rows)
               /\ n.resolutions[q].sentAt = now
               /\ n.resolutions[q].prior \in 0..Len(m.resolutions)
               /\ \/ n.resolutions[q].prior = 0
                  \/ m.held # 0 /\ n.resolutions[q].prior = m.snapshots[m.held].resolution
  <2>1. CASE n.resolutions = m.resolutions /\ m.kept # 0 /\ x.resolution = m.kept
    BY <2>1, <1>1, MemoTypes DEF MemoFine, HoldsFine
  <2>2. CASE /\ x.resolution = Len(m.resolutions) + 1
             /\ \E r \in Resolution :
                /\ n.resolutions = Append(m.resolutions, r)
                /\ r.state = "sent" /\ r.row = Len(rows) /\ r.sentAt = now
                /\ r.prior = (IF m.held # 0 THEN m.snapshots[m.held].resolution ELSE 0)
    <3>1. PICK r \in Resolution :
                /\ n.resolutions = Append(m.resolutions, r)
                /\ r.state = "sent" /\ r.row = Len(rows) /\ r.sentAt = now
                /\ r.prior = (IF m.held # 0 THEN m.snapshots[m.held].resolution ELSE 0)
      BY <2>2
    <3>2. m.resolutions \in Seq(Resolution)
      BY <1>1, MemoTypes
    <3>3. /\ Len(n.resolutions) = Len(m.resolutions) + 1
          /\ DOMAIN n.resolutions = 1..(Len(m.resolutions) + 1)
          /\ DOMAIN m.resolutions = 1..Len(m.resolutions)
          /\ n.resolutions[Len(m.resolutions) + 1] = r
          /\ \A q \in DOMAIN m.resolutions : n.resolutions[q] = m.resolutions[q]
      BY <3>1, <3>2
    <3> QED
      BY <2>2, <3>1, <3>3, <1>3, <1>4
  <2> QED
    BY <2>1, <2>2 DEF BeginsOn
<1>6. ASSUME NEW q \in DOMAIN n.resolutions
      PROVE  ResolutionFine(n.resolutions, q, rows, now, out)
  <2>1. CASE q \in DOMAIN m.resolutions
    <3>1. ResolutionFine(m.resolutions, q, rows, now, out)
      BY <1>1, <2>1 DEF MemoFine
    <3> QED
      BY <3>1, <2>1, <1>5 DEF ResolutionFine
  <2>2. CASE q = Len(m.resolutions) + 1
    <3>1. /\ n.resolutions[q].state = "sent" /\ n.resolutions[q].row = Len(rows)
          /\ n.resolutions[q].sentAt = now
          /\ n.resolutions[q].prior \in 0..Len(m.resolutions)
      BY <1>5, <2>2
    <3>2. \A w \in Len(rows)..Len(rows) : w = Len(rows)
      BY <1>2
    <3>3. \A w \in n.resolutions[q].row..Len(rows) : rows[w].until >= n.resolutions[q].sentAt
      BY <3>1, <3>2, <1>2
    <3>4. n.resolutions[q].prior \in 0..(q - 1)
      BY <3>1, <2>2, <1>3
    <3> QED
      BY <3>1, <3>3, <3>4, <1>2 DEF ResolutionFine
  <2> QED
    BY <2>1, <2>2, <1>5
<1>7. ASSUME NEW s \in DOMAIN n.snapshots
      PROVE  SnapshotFine(n.snapshots, s, n.resolutions, rows)
  <2>1. CASE s \in DOMAIN m.snapshots
    <3>1. SnapshotFine(m.snapshots, s, m.resolutions, rows)
      BY <1>1, <2>1 DEF MemoFine
    <3>2. m.snapshots[s].resolution \in DOMAIN m.resolutions
      BY <3>1 DEF SnapshotFine
    <3> QED
      BY <3>1, <3>2, <2>1, <1>3, <1>5 DEF SnapshotFine
  <2>2. CASE s = Len(m.snapshots) + 1
    <3>1. x.target = "live" => /\ n.resolutions[x.resolution].state = "found"
                               /\ rows[n.resolutions[x.resolution].row].generation >= 0
      BY <1>1 DEF BeginsOn, MemoFine, HoldsFine
    <3>2. x.target # "none" /\ x.reader = "unasked" /\ x.row = 0 /\ x.prior \in 0..(s - 1)
      BY <2>2, <1>3 DEF BeginsOn
    <3> QED
      BY <3>1, <3>2, <2>2, <1>3, <1>5 DEF SnapshotFine
  <2> QED
    BY <2>1, <2>2, <1>3
<1>8. HoldsFine(n, rows)
  <2>1. n.kept # 0 /\ n.resolutions[n.kept].state = "found" =>
          rows[n.resolutions[n.kept].row].generation >= 0
    <3>1. CASE n.resolutions = m.resolutions /\ m.kept # 0 /\ x.resolution = m.kept
      BY <3>1, <1>1 DEF BeginsOn, MemoFine, HoldsFine
    <3>2. CASE x.resolution = Len(m.resolutions) + 1
      BY <3>2, <1>5 DEF BeginsOn
    <3> QED
      BY <3>1, <3>2 DEF BeginsOn
  <2>2. n.kept \in 0..Len(n.resolutions)
    BY <1>5, MemoTypes DEF BeginsOn
  <2> QED
    BY <2>1, <2>2, <1>3 DEF BeginsOn, HoldsFine
<1>9. MemoFine(n, rows, now, out)
  BY <1>6, <1>7, <1>8 DEF MemoFine
<1>10. HoldsStay(m, n)
  <2>1. n.snapshots[n.held].resolution = x.resolution /\ n.held \in 0..Len(n.snapshots)
    BY <1>3 DEF BeginsOn
  <2>2. x.resolution > Len(m.resolutions) \/ (m.kept # 0 /\ x.resolution = m.kept)
    BY <1>3 DEF BeginsOn
  <2> QED
    BY <2>1, <2>2 DEF BeginsOn, HoldsStay
<1>11. ReadersStay(m, n)
  BY <1>3 DEF ReadersStay
<1>12. /\ ResolutionsStay(m, n)
       /\ \A q \in DOMAIN m.resolutions : n.resolutions[q].row >= m.resolutions[q].row
  <2>1. \A q \in DOMAIN m.resolutions : /\ n.resolutions[q] = m.resolutions[q]
                                         /\ m.resolutions[q].row \in Nat
    BY <1>1, <1>5, MemoTypes
  <2>2. \A q \in DOMAIN m.resolutions : n.resolutions[q].row >= m.resolutions[q].row
    BY <2>1
  <2>3. Len(m.resolutions) <= Len(n.resolutions)
    <3>1. Len(m.resolutions) \in Nat /\ Len(n.resolutions) \in Nat
      BY <1>1, MemoTypes
    <3> QED
      BY <1>5, <3>1
  <2> QED
    BY <2>1, <2>2, <2>3 DEF ResolutionsStay
<1>13. NewAreCurrent(m, n, Len(rows))
  <2>1. \A q \in DOMAIN m.resolutions : ~(q > Len(m.resolutions))
    BY <1>1, MemoTypes
  <2> QED
    BY <2>1, <1>5 DEF NewAreCurrent
<1>14. Grows(m, n, Len(rows))
  BY <1>10, <1>11, <1>12, <1>13 DEF Grows
<1> QED
  BY <1>9, <1>12, <1>14, SourceStays

(* A read that asks the source gets a snapshot on a resolution that has    *)
(* not lapsed, and the source keeps none but that one.                     *)
LEMMA LiveSnapshots ==
  ASSUME WorldIsTyped, ReadsAreTyped, WorldFine, NEW m, NEW out \in Int, SourceFine(m, out)
  PROVE  LET l == liveSnapshot(m)
             q == l.snapshots[l.held].resolution
         IN  /\ SourceFine(l, out)
             /\ l.held \in DOMAIN l.snapshots
             /\ ~expired(l, q)
             /\ l.kept \in {0, q}
             /\ Grows(m, l, Len(rows))
             /\ \A p \in DOMAIN m.resolutions : l.resolutions[p].row >= m.resolutions[p].row
<1> DEFINE l == liveSnapshot(m)
           existing == IF m.held # 0 THEN m.snapshots[m.held].resolution ELSE 0
<1>1. m \in Memo /\ MemoFine(m, rows, now, out)
  BY DEF SourceFine
<1>2. m.held \in 0..Len(m.snapshots) /\ m.kept \in 0..Len(m.resolutions)
      /\ m.snapshots \in Seq(Snapshot) /\ m.resolutions \in Seq(Resolution)
      /\ (m.held # 0 => existing # 0 /\ (m.kept # 0 => m.kept = existing))
  BY <1>1, MemoTypes, SMTT(20) DEF MemoFine, HoldsFine, SnapshotFine
<1>3. CASE existing # 0 /\ ~expired(m, existing)
  <2>1. l = m
    BY <1>3 DEF liveSnapshot
  <2>2. m.held \in DOMAIN m.snapshots /\ m.snapshots[m.held].resolution = existing
    BY <1>2, <1>3
  <2>3. HoldsStay(m, m) /\ NewAreCurrent(m, m, Len(rows))
    BY <1>1, <1>2, MemoTypes DEF HoldsStay, NewAreCurrent
  <2>4. /\ ReadersStay(m, m) /\ ResolutionsStay(m, m)
        /\ \A p \in DOMAIN m.resolutions : m.resolutions[p].row >= m.resolutions[p].row
    BY <1>1, <1>2, MemoTypes DEF ReadersStay, ResolutionsStay
  <2> QED
    BY <1>2, <1>3, <2>1, <2>2, <2>3, <2>4 DEF Grows
<1>4. ASSUME NEW n \in Memo, NEW x, BeginsOn(m, n, x), ~expired(n, x.resolution), l = n
      PROVE  /\ SourceFine(l, out)
             /\ l.held \in DOMAIN l.snapshots
             /\ ~expired(l, l.snapshots[l.held].resolution)
             /\ l.kept \in {0, l.snapshots[l.held].resolution}
             /\ Grows(m, l, Len(rows))
             /\ \A p \in DOMAIN m.resolutions : l.resolutions[p].row >= m.resolutions[p].row
  <2>1. n.held \in DOMAIN n.snapshots /\ n.snapshots[n.held] = x /\ n.kept = x.resolution
    BY <1>2, <1>4 DEF BeginsOn
  <2> QED
    BY <1>4, <2>1, BeginsOnStays
<1>5. CASE ~(existing # 0 /\ ~expired(m, existing)) /\ m.kept \notin {0, existing} /\ ~expired(m, m.kept)
  <2>1. m.held = 0 /\ existing = 0
    BY <1>2, <1>5
  <2> DEFINE x == [resolution |-> m.kept, prior |-> 0, replaces |-> 0,
                   target |-> IF m.resolutions[m.kept].state = "found" THEN "live" ELSE "due",
                   reader |-> "unasked", row |-> 0, object |-> 0]
             n == [m EXCEPT !.snapshots = Append(@, x), !.held = Len(m.snapshots) + 1]
  <2>2. l = snapshotOn(m, m.kept)
    BY <1>5, <2>1 DEF liveSnapshot
  <2>3. snapshotOn(m, m.kept) = n
    BY <2>1 DEF snapshotOn
  <2>4. x \in Snapshot
    BY <1>2 DEF Snapshot
  <2>5. Append(m.snapshots, x) \in Seq(Snapshot)
    BY <1>2, <2>4
  <2>6. n \in Memo /\ n.resolutions = m.resolutions /\ n.snapshots = Append(m.snapshots, x)
        /\ n.held = Len(m.snapshots) + 1 /\ n.kept = m.kept
    <3>1. /\ Len(m.snapshots) + 1 \in Nat
          /\ m.resolutions \in Seq(Resolution) /\ m.kept \in Nat
      BY <1>1, <1>2, MemoTypes
    <3> DEFINE after == Append(m.snapshots, x)
               held == Len(m.snapshots) + 1
    <3>2. n = [m EXCEPT !.snapshots = after, !.held = held]
      BY <1>1 DEF Memo
    <3>3. after \in Seq(Snapshot) /\ held \in Nat
      BY <2>5, <3>1
    <3> HIDE DEF after, held, x, n
    <3>4. n \in Memo /\ n.resolutions = m.resolutions /\ n.snapshots = after
          /\ n.held = held /\ n.kept = m.kept
      BY <1>1, <3>2, <3>3 DEF Memo
    <3> QED
      BY <3>4 DEF after, held
  <2>7. BeginsOn(m, n, x)
    BY <1>2, <1>5, <2>4, <2>6 DEF BeginsOn
  <2>8. ~expired(n, x.resolution)
    BY <1>5, <2>6 DEF expired
  <2> HIDE DEF l, n, x
  <2>9. n \in Memo
    BY <2>6
  <2> QED
    BY <1>4, <2>2, <2>3, <2>7, <2>8, <2>9 DEF l
<1>6. CASE ~(existing # 0 /\ ~expired(m, existing)) /\ ~(m.kept \notin {0, existing} /\ ~expired(m, m.kept))
  <2> DEFINE sent == [state |-> "sent", row |-> Len(rows), sentAt |-> now, rodeOut |-> 0,
                      prior |-> existing]
             q == Len(m.resolutions) + 1
             x == [resolution |-> q,
                   prior |-> IF m.held # 0 /\ m.snapshots[m.held].reader # "unasked"
                             THEN m.held ELSE 0,
                   replaces |-> existing, target |-> "due", reader |-> "unasked",
                   row |-> 0, object |-> 0]
             n == [resolutions |-> Append(m.resolutions, sent),
                   snapshots |-> Append(m.snapshots, x),
                   held |-> Len(m.snapshots) + 1, kept |-> q]
  <2>1. /\ rows \in Seq(SegmentRow) /\ now \in Nat /\ existing \in Nat
        /\ q \in Nat \ {0} /\ TTL \in Nat \ {0}
    <3>1. rows \in Seq(SegmentRow) /\ now \in Nat /\ TTL \in Nat \ {0}
      BY ReaderAssumption DEF WorldIsTyped
    <3>2. m.held # 0 => m.snapshots[m.held].resolution \in Nat
      BY <1>1, <1>2, MemoTypes
    <3>3. existing \in Nat /\ q \in Nat \ {0}
      BY <1>2, <3>2
    <3> QED
      BY <3>1, <3>3
  <2>2. sent \in Resolution
    BY <2>1 DEF Resolution
  <2>3. x \in Snapshot
    BY <2>1, <1>2 DEF Snapshot
  <2>4. Append(m.resolutions, sent) \in Seq(Resolution) /\ Append(m.snapshots, x) \in Seq(Snapshot)
    BY <1>2, <2>2, <2>3
  <2>5. n \in Memo
    BY <2>1, <2>4, <1>2 DEF Memo
  <2>6. l = snapshotOn(resolveNow(m), resolveNow(m).kept)
    BY <1>5, <1>6 DEF liveSnapshot
  <2>7. resolveNow(m) = [resolutions |-> Append(m.resolutions, sent), snapshots |-> m.snapshots,
                         held |-> m.held, kept |-> q]
    <3>1. resolveNow(m) = [m EXCEPT !.resolutions = Append(@, sent), !.kept = q]
      BY DEF resolveNow
    <3> HIDE DEF sent, q
    <3> QED
      BY <1>1, <3>1 DEF Memo
  <2>8. Append(m.resolutions, sent)[q] = sent
    BY <1>2, <2>2
  <2>9. snapshotOn(resolveNow(m), q) = n
    <3> DEFINE r == resolveNow(m)
    <3>1. /\ r.snapshots = m.snapshots /\ r.held = m.held /\ r.kept = q
          /\ r.resolutions = Append(m.resolutions, sent)
          /\ r.resolutions[q].state = "sent"
      BY <2>7, <2>8
    <3> HIDE DEF r
    <3>2. snapshotOn(r, q) = [r EXCEPT !.snapshots = Append(@, x), !.held = Len(m.snapshots) + 1]
      BY <3>1 DEF snapshotOn
    <3>3. r = [resolutions |-> Append(m.resolutions, sent), snapshots |-> m.snapshots,
               held |-> m.held, kept |-> q]
      BY <2>7 DEF r
    <3>4. r \in Memo
      BY <3>3, <2>1, <2>4, <1>2 DEF Memo
    <3>5. [r EXCEPT !.snapshots = Append(@, x), !.held = Len(m.snapshots) + 1] = n
      <4> DEFINE all == Append(m.snapshots, x)
                 last == Len(m.snapshots) + 1
                 sends == Append(m.resolutions, sent)
                 k == [r EXCEPT !.snapshots = all, !.held = last]
      <4>1. all \in Seq(Snapshot) /\ last \in Nat /\ r.resolutions = sends /\ r.kept = q
            /\ Append(r.snapshots, x) = all
        BY <3>1, <2>4, <1>2
      <4> HIDE DEF all, last, sends, q
      <4>2. k \in Memo /\ k.resolutions = sends /\ k.snapshots = all /\ k.held = last
            /\ k.kept = q
        BY <4>1, <3>4 DEF Memo
      <4> HIDE DEF k
      <4>3. k = [resolutions |-> sends, snapshots |-> all, held |-> last, kept |-> q]
        BY <4>2 DEF Memo
      <4> QED
        BY <4>1, <4>3 DEF k, sends, all, last
    <3> QED
      BY <3>2, <3>5 DEF r
  <2>10. BeginsOn(m, n, x)
    BY <1>2, <2>2, <2>3, SMTT(20) DEF BeginsOn
  <2>11. ~expired(n, x.resolution)
    BY <2>1, <2>8 DEF expired
  <2>12. l = n
    BY <2>6, <2>7, <2>9
  <2> HIDE DEF l, n, x
  <2> QED
    BY <1>4, <2>5, <2>10, <2>11, <2>12 DEF l
<1> QED
  BY <1>3, <1>5, <1>6

(* Resolution q moves to r while its snapshots wait.                       *)
Waits(m, n, q, r) ==
    /\ n.snapshots = m.snapshots /\ n.held = m.held /\ n.kept = m.kept
    /\ q \in DOMAIN m.resolutions /\ r \in Resolution /\ r.state # "found"
    /\ n.resolutions = [m.resolutions EXCEPT ![q] = r]

(* What a resolution that is under way may turn into.                      *)
Turns(m, q, r) ==
    /\ m.resolutions[q].state # "found"
    /\ \/ r.row >= m.resolutions[q].row
       \/ m.resolutions[q].prior # 0 /\ r.row >= m.resolutions[m.resolutions[q].prior].row
    /\ r.prior \in {0, m.resolutions[q].prior}

(* A resolution that takes its turn keeps to its row or a later one, or to *)
(* what its predecessor resolved to.                                       *)
LEMMA TurnsStay ==
  ASSUME NEW m \in Memo, NEW n \in Memo, NEW q \in DOMAIN m.resolutions, NEW r \in Resolution,
         n.resolutions = [m.resolutions EXCEPT ![q] = r], Turns(m, q, r)
  PROVE  /\ ResolutionsStay(m, n)
         /\ \A last : NewAreCurrent(m, n, last)
         /\ r.row >= m.resolutions[q].row =>
               \A p \in DOMAIN m.resolutions : n.resolutions[p].row >= m.resolutions[p].row
<1>1. /\ DOMAIN n.resolutions = DOMAIN m.resolutions
      /\ DOMAIN m.resolutions = 1..Len(m.resolutions)
      /\ Len(n.resolutions) = Len(m.resolutions) /\ Len(m.resolutions) \in Nat
      /\ n.resolutions[q] = r
      /\ \A p \in DOMAIN m.resolutions : p # q => n.resolutions[p] = m.resolutions[p]
  BY MemoTypes
<1>2. \A p \in DOMAIN m.resolutions : m.resolutions[p].row \in Nat
  BY MemoTypes
<1>3. ASSUME NEW p \in DOMAIN m.resolutions
      PROVE  LET before == m.resolutions[p]
                 after == n.resolutions[p]
             IN  /\ before.state = "found" => after.state = "found" /\ after.row = before.row
                 /\ \/ after.row >= before.row
                    \/ before.prior # 0 /\ after.row >= m.resolutions[before.prior].row
                 /\ after.prior \in {0, before.prior}
  <2>1. CASE p = q
    BY <2>1, <1>1 DEF Turns
  <2>2. CASE p # q
    BY <2>2, <1>1, <1>2
  <2> QED
    BY <2>1, <2>2
<1>4. ResolutionsStay(m, n)
  BY <1>1, <1>3 DEF ResolutionsStay
<1>5. \A last : NewAreCurrent(m, n, last)
  BY <1>1 DEF NewAreCurrent
<1>6. ASSUME r.row >= m.resolutions[q].row, NEW p \in DOMAIN m.resolutions
      PROVE  n.resolutions[p].row >= m.resolutions[p].row
  <2>1. CASE p = q
    BY <2>1, <1>1, <1>6
  <2>2. CASE p # q
    BY <2>2, <1>1, <1>2
  <2> QED
    BY <2>1, <2>2
<1> QED
  BY <1>4, <1>5, <1>6

(* A resolution put off, to be tried again, leaves what its source keeps   *)
(* fine.                                                                   *)
LEMMA WaitsStays ==
  ASSUME WorldIsTyped, ReadsAreTyped, NEW m, NEW n \in Memo, NEW out \in Int,
         SourceFine(m, out), NEW q, NEW r, Waits(m, n, q, r),
         m.resolutions[q].state # "found",
         r.row >= m.resolutions[q].row, r.prior \in {0, m.resolutions[q].prior},
         ResolutionFine([m.resolutions EXCEPT ![q] = r], q, rows, now, out)
  PROVE  SourceFine(n, out)
<1>1. m \in Memo /\ MemoFine(m, rows, now, out)
  BY DEF SourceFine
<1>2. /\ q \in DOMAIN m.resolutions /\ r \in Resolution /\ r.state # "found"
      /\ n.resolutions = [m.resolutions EXCEPT ![q] = r]
      /\ n.snapshots = m.snapshots /\ n.held = m.held /\ n.kept = m.kept
  BY DEF Waits
<1>3. /\ DOMAIN n.resolutions = DOMAIN m.resolutions
      /\ Len(n.resolutions) = Len(m.resolutions)
      /\ n.resolutions[q] = r
      /\ \A p \in DOMAIN m.resolutions : p # q => n.resolutions[p] = m.resolutions[p]
  BY <1>1, <1>2, MemoTypes
<1>4. Turns(m, q, r)
  BY DEF Turns
<1>5. ASSUME NEW p \in DOMAIN n.resolutions
      PROVE  ResolutionFine(n.resolutions, p, rows, now, out)
  <2>1. CASE p = q
    BY <2>1, <1>2
  <2>2. CASE p # q
    <3>1. ResolutionFine(m.resolutions, p, rows, now, out)
      BY <1>1, <1>3, <1>5 DEF MemoFine
    <3> QED
      BY <3>1, <2>2, <1>3 DEF ResolutionFine
  <2> QED
    BY <2>1, <2>2
<1>6. ASSUME NEW s \in DOMAIN n.snapshots
      PROVE  SnapshotFine(n.snapshots, s, n.resolutions, rows)
  <2>1. SnapshotFine(m.snapshots, s, m.resolutions, rows)
    BY <1>1, <1>2 DEF MemoFine
  <2>2. CASE m.snapshots[s].resolution # q
    BY <2>1, <2>2, <1>2, <1>3, SMTT(20) DEF SnapshotFine
  <2>3. CASE m.snapshots[s].resolution = q
    BY <2>1, <2>3, <1>2, <1>3 DEF SnapshotFine
  <2> QED
    BY <2>2, <2>3
<1>7. HoldsFine(n, rows)
  BY <1>1, <1>2, <1>3, MemoTypes DEF HoldsFine, MemoFine
<1>8. MemoFine(n, rows, now, out)
  BY <1>5, <1>6, <1>7 DEF MemoFine
<1>9. HoldsStay(m, n)
  BY <1>1, <1>2, MemoTypes DEF HoldsStay, MemoFine, HoldsFine
<1>10. ReadersStay(m, n)
  BY <1>1, <1>2, MemoTypes DEF ReadersStay
<1> QED
  BY <1>1, <1>2, <1>4, <1>8, <1>9, <1>10, TurnsStay, SourceStays DEF Grows

(* Resolution q lands as r: snapshots on it are resolved, and the source   *)
(* forgets what came of nothing.                                           *)
Lands(m, n, q, r) ==
    /\ q \in DOMAIN m.resolutions /\ r \in Resolution /\ r.state \in {"found", "failed"}
    /\ n.resolutions = [m.resolutions EXCEPT ![q] = r]
    /\ Len(n.snapshots) = Len(m.snapshots)
    /\ \A s \in DOMAIN m.snapshots :
          LET x == m.snapshots[s]
              y == n.snapshots[s]
          IN  /\ y.resolution = x.resolution /\ y.prior = x.prior
              /\ y.reader = x.reader /\ y.row = x.row /\ y.object = x.object
              /\ x.resolution # q => y.target = x.target
              /\ x.resolution = q =>
                    /\ y.target = "live" => r.state = "found" /\ rows[r.row].generation >= 0
                    /\ y.target = "none" => r.state = "found" /\ rows[r.row].generation < 0
    /\ n.held \in {0, m.held} /\ n.kept \in {0, m.kept}
    /\ n.kept = q => r.state = "found" /\ rows[r.row].generation >= 0

(* A resolution that lands, with what follows of it for the snapshots that *)
(* wait on it, leaves what its source keeps fine. A row older than it      *)
(* asked for is only ever an outage ridden out.                            *)
LEMMA LandsStays ==
  ASSUME WorldIsTyped, ReadsAreTyped, NEW m, NEW n \in Memo, NEW out \in Int, NEW outAfter \in Int,
         SourceFine(m, out), NEW q, NEW r, Lands(m, n, q, r), Turns(m, q, r),
         ResolutionFine([m.resolutions EXCEPT ![q] = r], q, rows, now, outAfter),
         \/ outAfter = out /\ r.row >= m.resolutions[q].row
         \/ outAfter = now,
         out <= outAfter
  PROVE  SourceFine(n, outAfter)
<1>1. m \in Memo /\ MemoFine(m, rows, now, out)
  BY DEF SourceFine
<1>2. /\ q \in DOMAIN m.resolutions /\ r \in Resolution
      /\ n.resolutions = [m.resolutions EXCEPT ![q] = r]
      /\ n.held \in {0, m.held} /\ n.kept \in {0, m.kept}
  BY DEF Lands
<1>3. /\ DOMAIN n.resolutions = DOMAIN m.resolutions
      /\ Len(n.resolutions) = Len(m.resolutions)
      /\ n.resolutions[q] = r
      /\ \A p \in DOMAIN m.resolutions : p # q => n.resolutions[p] = m.resolutions[p]
  BY <1>1, <1>2, MemoTypes
<1>4. /\ DOMAIN n.snapshots = DOMAIN m.snapshots /\ Len(n.snapshots) = Len(m.snapshots)
      /\ DOMAIN m.snapshots = 1..Len(m.snapshots)
  BY <1>1, MemoTypes DEF Lands
<1>5. ASSUME NEW p \in DOMAIN n.resolutions
      PROVE  ResolutionFine(n.resolutions, p, rows, now, outAfter)
  <2>1. CASE p = q
    BY <2>1, <1>2
  <2>2. CASE p # q
    <3>1. ResolutionFine(m.resolutions, p, rows, now, out)
      BY <1>1, <1>3, <1>5 DEF MemoFine
    <3>2. m.resolutions[p].sentAt \in Int /\ TTL \in Int /\ Retry \in Int
      BY <1>1, <1>3, <1>5, MemoTypes, ReaderAssumption
    <3>3. out >= m.resolutions[p].sentAt + (TTL - Retry)
            => outAfter >= m.resolutions[p].sentAt + (TTL - Retry)
      BY <3>2
    <3>4. n.resolutions[p] = m.resolutions[p]
      BY <2>2, <1>3, <1>5
    <3> QED
      BY <3>1, <3>3, <3>4 DEF ResolutionFine
  <2> QED
    BY <2>1, <2>2
<1>6. ASSUME NEW s \in DOMAIN n.snapshots
      PROVE  SnapshotFine(n.snapshots, s, n.resolutions, rows)
  <2>1. SnapshotFine(m.snapshots, s, m.resolutions, rows)
    BY <1>1, <1>4, <1>6 DEF MemoFine
  <2>2. /\ n.snapshots[s].resolution = m.snapshots[s].resolution
        /\ n.snapshots[s].prior = m.snapshots[s].prior
        /\ n.snapshots[s].reader = m.snapshots[s].reader
        /\ n.snapshots[s].row = m.snapshots[s].row
        /\ n.snapshots[s].object = m.snapshots[s].object
    BY <1>4, <1>6 DEF Lands
  <2>3. CASE m.snapshots[s].resolution # q
    <3>1. n.snapshots[s].target = m.snapshots[s].target
      BY <2>3, <1>4, <1>6 DEF Lands
    <3> QED
      BY <2>1, <2>2, <2>3, <3>1, <1>3 DEF SnapshotFine
  <2>4. CASE m.snapshots[s].resolution = q
    <3>1. /\ n.snapshots[s].target = "live" => r.state = "found" /\ rows[r.row].generation >= 0
          /\ n.snapshots[s].target = "none" => r.state = "found" /\ rows[r.row].generation < 0
      BY <2>4, <1>4, <1>6 DEF Lands
    <3>2. m.snapshots[s].reader \notin {"open", "none", "missing"}
      BY <2>1, <2>4 DEF SnapshotFine, Turns
    <3> QED
      BY <2>1, <2>2, <2>4, <3>1, <3>2, <1>3 DEF SnapshotFine
  <2> QED
    BY <2>3, <2>4
<1>7. HoldsFine(n, rows)
  <2>1. n.kept # 0 /\ n.resolutions[n.kept].state = "found" =>
          rows[n.resolutions[n.kept].row].generation >= 0
    <3>1. CASE n.kept = q
      BY <3>1, <1>3 DEF Lands
    <3>2. CASE n.kept # q
      BY <3>2, <1>1, <1>2, <1>3, MemoTypes DEF MemoFine, HoldsFine
    <3> QED
      BY <3>1, <3>2
  <2>2. n.held # 0 => n.snapshots[n.held].resolution = m.snapshots[n.held].resolution
    <3>1. n.held # 0 => n.held = m.held /\ m.held \in 0..Len(m.snapshots)
      BY <1>1, <1>2 DEF MemoFine, HoldsFine
    <3>2. n.held # 0 => n.held \in DOMAIN m.snapshots
      BY <1>4, <3>1
    <3> QED
      BY <3>2 DEF Lands
  <2> QED
    BY <2>1, <2>2, <1>1, <1>2, <1>3, <1>4, MemoTypes, SMTT(20) DEF HoldsFine, MemoFine
<1>8. MemoFine(n, rows, now, outAfter)
  BY <1>5, <1>6, <1>7 DEF MemoFine
<1>9. HoldsStay(m, n)
  <2>1. n.held # 0 => n.snapshots[n.held].resolution = m.snapshots[m.held].resolution
    <3>1. n.held # 0 => n.held = m.held /\ m.held \in DOMAIN m.snapshots
      BY <1>1, <1>2, <1>4, MemoTypes DEF MemoFine, HoldsFine
    <3> QED
      BY <3>1 DEF Lands
  <2> QED
    BY <2>1, <1>1, <1>2, <1>4, MemoTypes DEF HoldsStay, MemoFine, HoldsFine
<1>10. ReadersStay(m, n)
  <2>1. \A s \in DOMAIN m.snapshots :
           /\ n.snapshots[s].resolution = m.snapshots[s].resolution
           /\ n.snapshots[s].reader = m.snapshots[s].reader
           /\ n.snapshots[s].row = m.snapshots[s].row
    BY DEF Lands
  <2> QED
    BY <2>1, <1>1, <1>4, MemoTypes DEF ReadersStay
<1> QED
  BY <1>1, <1>2, <1>8, <1>9, <1>10, TurnsStay, SourceStays DEF Grows

(* A resolution that has landed rides on nothing.                          *)
Settled(r) == [r EXCEPT !.prior = 0, !.rodeOut = 0]

(* A snapshot that learns its target keeps the rest.                       *)
LEMMA SnapshotResolves ==
  ASSUME NEW x \in Snapshot, NEW target \in {"due", "live", "none", "failed"}
  PROVE  LET y == [x EXCEPT !.target = target, !.replaces = 0]
         IN  /\ y \in Snapshot /\ y.target = target
             /\ y.resolution = x.resolution /\ y.prior = x.prior
             /\ y.reader = x.reader /\ y.row = x.row /\ y.object = x.object
<1> DEFINE a == [x EXCEPT !.target = target]
           b == [a EXCEPT !.replaces = 0]
<1>1. /\ a \in Snapshot /\ a.target = target
      /\ a.resolution = x.resolution /\ a.prior = x.prior
      /\ a.reader = x.reader /\ a.row = x.row /\ a.object = x.object
  BY DEF Snapshot
<1> HIDE DEF a
<1>2. /\ b \in Snapshot /\ b.target = target
      /\ b.resolution = x.resolution /\ b.prior = x.prior
      /\ b.reader = x.reader /\ b.row = x.row /\ b.object = x.object
  BY <1>1 DEF Snapshot
<1> QED
  BY <1>2, Zenon DEF a

(* What landing comes to, field by field.                                  *)
LEMMA LandsIs ==
  ASSUME WorldIsTyped, memo \in Memo, HoldsFine(memo, rows), NEW q \in DOMAIN memo.resolutions,
         NEW r \in Resolution, r.row \in 1..Len(rows), r.state \in {"found", "failed"}
  PROVE  lands(q, r) \in Memo /\ Lands(memo, lands(q, r), q, Settled(r))
<1> DEFINE m == [memo EXCEPT !.resolutions[q] = r]
           landed == [m EXCEPT !.resolutions[q].prior = 0, !.resolutions[q].rodeOut = 0]
           on == {s \in DOMAIN m.snapshots : m.snapshots[s].resolution = q}
           isKept == r.state = "found" /\ RowOf(m, q).generation >= 0 /\ r.rodeOut = 0
           f == [s \in DOMAIN landed.snapshots |->
                    IF s \in on THEN [landed.snapshots[s] EXCEPT !.target = TargetOn(m, s), !.replaces = 0]
                    ELSE landed.snapshots[s]]
           gone == landed.held \in on /\ TargetOn(m, landed.held) # "live"
           h == IF gone THEN 0 ELSE landed.held
           k == IF landed.kept = q /\ ~isKept THEN 0 ELSE landed.kept
           n == lands(q, r)
<1>1. /\ m \in Memo /\ m.resolutions = [memo.resolutions EXCEPT ![q] = r]
      /\ m.snapshots = memo.snapshots /\ m.held = memo.held /\ m.kept = memo.kept
  <2> DEFINE rs == [memo.resolutions EXCEPT ![q] = r]
  <2>1. rs \in Seq(Resolution)
    BY MemoTypes
  <2>2. m = [memo EXCEPT !.resolutions = rs]
    BY DEF Memo
  <2> HIDE DEF rs, m
  <2>3. m \in Memo /\ m.resolutions = rs
        /\ m.snapshots = memo.snapshots /\ m.held = memo.held /\ m.kept = memo.kept
    BY <2>1, <2>2 DEF Memo
  <2> QED
    BY <2>3 DEF rs
<1>2. Settled(r) \in Resolution /\ Settled(r).state = r.state /\ Settled(r).row = r.row
      /\ Settled(r).sentAt = r.sentAt /\ Settled(r).prior = 0
  BY DEF Settled, Resolution
<1>3. /\ landed \in Memo /\ landed.resolutions = [memo.resolutions EXCEPT ![q] = Settled(r)]
      /\ landed.snapshots = memo.snapshots /\ landed.held = memo.held /\ landed.kept = memo.kept
  <2> DEFINE rs == [memo.resolutions EXCEPT ![q] = Settled(r)]
             one == [m EXCEPT !.resolutions[q].prior = 0]
             r1 == [r EXCEPT !.prior = 0]
  <2>1. rs \in Seq(Resolution)
    BY <1>2, MemoTypes
  <2>2. m.resolutions[q] = r /\ q \in DOMAIN m.resolutions /\ r1 \in Resolution
    BY <1>1, MemoTypes DEF Resolution
  <2>3. one.resolutions = [memo.resolutions EXCEPT ![q] = r1]
    BY <1>1, <2>2, MemoTypes DEF Memo
  <2>4. landed = [one EXCEPT !.resolutions[q].rodeOut = 0]
    OBVIOUS
  <2>5. [r1 EXCEPT !.rodeOut = 0] = Settled(r)
    BY DEF Settled, Resolution
  <2>6. one.resolutions[q] = r1
    BY <2>2, <2>3, MemoTypes
  <2>7. [one.resolutions EXCEPT ![q] = Settled(r)] = rs
    BY <2>3, MemoTypes
  <2>8. landed = [one EXCEPT !.resolutions = [one.resolutions EXCEPT ![q] = Settled(r)]]
    BY <2>4, <2>5, <2>6
  <2> DEFINE two == [memo.resolutions EXCEPT ![q] = r1]
  <2>9. two \in Seq(Resolution)
    BY <2>2, MemoTypes
  <2>10. one = [m EXCEPT !.resolutions = two]
    BY <1>1, <2>2, MemoTypes DEF Memo
  <2> HIDE DEF landed, m, rs, one, two
  <2>11. one \in Memo /\ one.resolutions = two
         /\ one.snapshots = m.snapshots /\ one.held = m.held /\ one.kept = m.kept
    BY <1>1, <2>9, <2>10 DEF Memo
  <2>12. landed = [one EXCEPT !.resolutions = rs]
    BY <2>7, <2>8
  <2>13. landed \in Memo /\ landed.resolutions = rs
         /\ landed.snapshots = one.snapshots /\ landed.held = one.held /\ landed.kept = one.kept
    BY <2>1, <2>11, <2>12 DEF Memo
  <2> QED
    BY <1>1, <2>11, <2>13 DEF rs
<1>4. \A s : /\ TargetOn(m, s) \in {"live", "none", "failed"}
             /\ s \in on /\ TargetOn(m, s) = "live" => r.state = "found" /\ rows[r.row].generation >= 0
             /\ s \in on /\ TargetOn(m, s) = "none" => r.state = "found" /\ rows[r.row].generation < 0
  <2>1. m.resolutions[q] = r
    BY <1>1, MemoTypes
  <2> SUFFICES ASSUME NEW s
               PROVE  /\ TargetOn(m, s) \in {"live", "none", "failed"}
                      /\ s \in on /\ TargetOn(m, s) = "live" => r.state = "found" /\ rows[r.row].generation >= 0
                      /\ s \in on /\ TargetOn(m, s) = "none" => r.state = "found" /\ rows[r.row].generation < 0
    OBVIOUS
  <2>2. TargetOn(m, s) \in {"live", "none", "failed"}
    BY DEF TargetOn
  <2>3. ASSUME s \in on
        PROVE  /\ TargetOn(m, s) = "live" => r.state = "found" /\ rows[r.row].generation >= 0
               /\ TargetOn(m, s) = "none" => r.state = "found" /\ rows[r.row].generation < 0
    <3>1. m.snapshots[s].resolution = q
      BY <2>3
    <3> HIDE DEF m
    <3>2. RowOf(m, q) = rows[r.row]
      BY <2>1 DEF RowOf
    <3>3. ~(rows[r.row].generation < 0) => rows[r.row].generation >= 0
      <4>1. rows \in Seq(SegmentRow)
        BY DEF WorldIsTyped
      <4>2. rows[r.row] \in SegmentRow
        BY <4>1
      <4>3. rows[r.row].generation \in Int
        BY <4>2 DEF SegmentRow
      <4> QED
        BY <4>3
    <3> QED
      BY <2>1, <3>1, <3>2, <3>3 DEF TargetOn
  <2> QED
    BY <2>2, <2>3
<1> HIDE DEF m, landed
<1>5. f \in Seq(Snapshot) /\ Len(f) = Len(memo.snapshots)
      /\ \A s \in DOMAIN memo.snapshots :
            f[s] = IF s \in on THEN [memo.snapshots[s] EXCEPT !.target = TargetOn(m, s), !.replaces = 0]
                   ELSE memo.snapshots[s]
  <2>1. memo.snapshots \in Seq(Snapshot)
    BY MemoTypes
  <2>2. \A s \in DOMAIN memo.snapshots : [memo.snapshots[s] EXCEPT !.target = TargetOn(m, s), !.replaces = 0] \in Snapshot
    <3> SUFFICES ASSUME NEW s \in DOMAIN memo.snapshots
                 PROVE  [memo.snapshots[s] EXCEPT !.target = TargetOn(m, s), !.replaces = 0] \in Snapshot
      OBVIOUS
    <3>1. memo.snapshots[s] \in Snapshot
      BY <2>1
    <3>2. TargetOn(m, s) \in {"due", "live", "none", "failed"}
      BY <1>4
    <3> QED
      BY <3>1, <3>2, SnapshotResolves
  <2> HIDE DEF on
  <2>3. DOMAIN f = DOMAIN memo.snapshots /\ DOMAIN memo.snapshots = 1..Len(memo.snapshots)
    BY <1>3, <2>1
  <2>4. \A s \in DOMAIN memo.snapshots :
            f[s] = IF s \in on THEN [memo.snapshots[s] EXCEPT !.target = TargetOn(m, s), !.replaces = 0]
                   ELSE memo.snapshots[s]
    BY <1>3
  <2>5. \A s \in DOMAIN memo.snapshots : f[s] \in Snapshot
    <3> SUFFICES ASSUME NEW s \in DOMAIN memo.snapshots
                 PROVE  f[s] \in Snapshot
      OBVIOUS
    <3>1. CASE s \in on
      BY <2>2, <2>4, <3>1
    <3>2. CASE s \notin on
      <4>1. f[s] = memo.snapshots[s]
        BY <2>4, <3>2
      <4>2. memo.snapshots[s] \in Snapshot
        BY <2>1
      <4> QED
        BY <4>1, <4>2
    <3> QED
      BY <3>1, <3>2
  <2>6. f \in Seq(Snapshot) /\ Len(f) = Len(memo.snapshots)
    <3> DEFINE size == Len(memo.snapshots)
    <3>1. size \in Nat
      BY <2>1
    <3>2. f = [s \in 1..size |-> f[s]]
      BY <2>3, <1>3
    <3>3. \A s \in 1..size : f[s] \in Snapshot
      BY <2>3, <2>5
    <3> HIDE DEF f, size
    <3>4. f \in Seq(Snapshot) /\ Len(f) = size
      BY <3>1, <3>2, <3>3
    <3> QED
      BY <3>4 DEF size
  <2> QED
    BY <2>4, <2>6
<1>6. h \in {0, memo.held} /\ k \in {0, memo.kept} /\ h \in Nat /\ k \in Nat
  <2> HIDE DEF gone, isKept
  <2> QED
    BY <1>3, MemoTypes
<1>7. n = [landed EXCEPT !.snapshots = f, !.held = h, !.kept = k]
  BY DEF lands, m, landed
<1>8. k = q => r.state = "found" /\ rows[r.row].generation >= 0
  BY <1>1, <1>3, MemoTypes DEF RowOf, HoldsFine
<1>9. n \in Memo /\ n.resolutions = landed.resolutions /\ n.snapshots = f /\ n.held = h /\ n.kept = k
  <2> HIDE DEF n, f, h, k
  <2> QED
    BY <1>3, <1>5, <1>6, <1>7 DEF Memo
<1>10. \A s \in DOMAIN memo.snapshots : s \in on <=> memo.snapshots[s].resolution = q
  BY <1>1
<1>11. ASSUME NEW s \in DOMAIN memo.snapshots
       PROVE  LET x == memo.snapshots[s]
                  y == n.snapshots[s]
              IN  /\ y.resolution = x.resolution /\ y.prior = x.prior
                  /\ y.reader = x.reader /\ y.row = x.row /\ y.object = x.object
                  /\ x.resolution # q => y.target = x.target
                  /\ x.resolution = q =>
                        /\ y.target = "live" => r.state = "found" /\ rows[r.row].generation >= 0
                        /\ y.target = "none" => r.state = "found" /\ rows[r.row].generation < 0
  <2>1. memo.snapshots[s] \in Snapshot
    BY MemoTypes
  <2>2. n.snapshots[s] = f[s]
    BY <1>9
  <2> HIDE DEF n, f, on
  <2>3. CASE s \in on
    <3>1. n.snapshots[s] = [memo.snapshots[s] EXCEPT !.target = TargetOn(m, s), !.replaces = 0]
      BY <1>5, <2>2, <2>3
    <3> QED
      BY <1>4, <1>10, <2>1, <2>3, <3>1 DEF Snapshot
  <2>4. CASE s \notin on
    BY <1>5, <1>10, <2>2, <2>4
  <2> QED
    BY <2>3, <2>4
<1> HIDE DEF n, f, h, k
<1> QED
  BY <1>2, <1>3, <1>5, <1>6, <1>8, <1>9, <1>11 DEF Lands, n


-----------------------------------------------------------------------------
(* What the source does between two steps of the reads.                    *)

(* What such a step has to leave.                                          *)
LEMMA SourceSteps ==
  ASSUME IInv, UNCHANGED <<now, world, task>>, Silent,
         epoch' \in Nat, told' \in 1..Len(rows), outage' \in Int, outage' <= now,
         memo' \in Memo, MemoFine(memo', rows, now, outage'),
         \E b \in Nat : Bound(b, told', memo'),
         \A t \in Tasks : ReadFine(task[t], memo', rows, now, outage')
  PROVE  IInv'
<1>1. rows' = rows /\ files' = files /\ puts' = puts /\ now' = now /\ task' = task
  BY DEF world
<1>2. WorldIsTyped' /\ WorldFine' /\ ReadsAreTyped'
  BY <1>1 DEF IInv, WorldIsTyped, WorldFine, Current, ReadsAreTyped
<1>3. SourceFine(memo, outage)'
  BY <1>1 DEF SourceFine
<1>4. AnswersAreFresh' /\ InvalidationIsHeeded' /\ MissIsARace'
  BY DEF Silent, Nothing, AnswersAreFresh, InvalidationIsHeeded, MissIsARace
<1> QED
  BY <1>2, <1>3, <1>4 DEF IInv

(* The step leaves told as it was.                                         *)
LEMMA SourceStepsOn ==
  ASSUME IInv, UNCHANGED <<now, world, task>>, Silent, epoch' = epoch, told' = told,
         outage' \in Int, outage' <= now, SourceFine(memo', outage')
  PROVE  IInv'
<1>1. epoch' \in Nat /\ told' \in 1..Len(rows)
  BY DEF IInv, ReadsAreTyped
<1>2. /\ memo' \in Memo /\ MemoFine(memo', rows, now, outage')
      /\ \E b \in Nat : Bound(b, told', memo')
      /\ \A t \in Tasks : ReadFine(task[t], memo', rows, now, outage')
  BY DEF SourceFine
<1> QED
  BY <1>1, <1>2, SourceSteps

(* What the steps below use of the invariant.                              *)
LEMMA Facts ==
  ASSUME IInv
  PROVE  /\ WorldIsTyped /\ ReadsAreTyped /\ WorldFine /\ SourceFine(memo, outage)
         /\ memo \in Memo /\ MemoFine(memo, rows, now, outage) /\ HoldsFine(memo, rows)
         /\ rows \in Seq(SegmentRow) /\ Len(rows) \in Nat \ {0} /\ now \in Nat
         /\ DOMAIN rows = 1..Len(rows)
         /\ outage \in Int /\ outage <= now /\ epoch \in Nat /\ told \in 1..Len(rows)
         /\ TTL \in Nat \ {0} /\ Retry \in 1..TTL
<1>1. /\ WorldIsTyped /\ ReadsAreTyped /\ WorldFine /\ SourceFine(memo, outage)
  BY DEF IInv
<1>2. memo \in Memo /\ MemoFine(memo, rows, now, outage) /\ HoldsFine(memo, rows)
  BY <1>1 DEF SourceFine, MemoFine
<1>3. /\ rows \in Seq(SegmentRow) /\ Len(rows) \in Nat \ {0} /\ now \in Nat
      /\ DOMAIN rows = 1..Len(rows)
  BY <1>1, ReaderAssumption DEF WorldIsTyped
<1>4. outage \in Int /\ outage <= now /\ epoch \in Nat /\ told \in 1..Len(rows)
  BY <1>1 DEF ReadsAreTyped
<1>5. TTL \in Nat \ {0} /\ Retry \in 1..TTL
  BY ReaderAssumption
<1> QED
  BY <1>1, <1>2, <1>3, <1>4, <1>5

(* A resolution that settles lets go of its predecessor, and keeps all     *)
(* else.                                                                   *)
LEMMA SettledIs ==
  ASSUME NEW r \in Resolution
  PROVE  /\ Settled(r) \in Resolution /\ Settled(r).state = r.state
         /\ Settled(r).row = r.row /\ Settled(r).sentAt = r.sentAt /\ Settled(r).prior = 0
  BY DEF Settled, Resolution

(* The registry answers, or fails a read with nothing to fall back on.     *)
LEMMA AnsweredStays ==
  ASSUME IInv, NEW q \in DOMAIN memo.resolutions, NEW v \in DOMAIN rows, Answered(q, v)
  PROVE  IInv'
<1> DEFINE r == memo.resolutions[q]
           x == [r EXCEPT !.state = "found", !.row = v]
           after == [memo.resolutions EXCEPT ![q] = Settled(x)]
<1>1. r \in Resolution /\ r.row \in Nat /\ r.sentAt \in Int /\ memo.resolutions \in Seq(Resolution)
  BY Facts, MemoTypes
<1>2. v \in 1..Len(rows) /\ v \in Nat /\ v >= r.row /\ r.state = "sent" /\ memo' = lands(q, x)
  BY <1>1, Facts DEF Answered
<1>3. x \in Resolution /\ x.state = "found" /\ x.row = v /\ x.sentAt = r.sentAt
  BY <1>1, <1>2 DEF Resolution
<1>4. ResolutionFine(memo.resolutions, q, rows, now, outage)
  BY Facts DEF MemoFine
<1>5. memo' \in Memo /\ Lands(memo, memo', q, Settled(x))
  BY <1>2, <1>3, Facts, LandsIs
<1>6. Turns(memo, q, Settled(x))
  BY <1>2, <1>3, SettledIs DEF Turns
<1>7. after[q] = Settled(x)
  BY <1>1, <1>3, SettledIs
<1>8. ResolutionFine(after, q, rows, now, outage)
  <2>1. /\ Settled(x).row = v /\ Settled(x).state = "found"
        /\ Settled(x).sentAt = r.sentAt /\ Settled(x).prior = 0
    BY <1>3, SettledIs
  <2>2. rows[v].until >= r.sentAt /\ r.sentAt <= now
    BY <1>2, <1>4, Facts DEF ResolutionFine
  <2>3. 0 \in 0..(q - 1)
    BY <1>1
  <2> QED
    BY <1>2, <1>7, <2>1, <2>2, <2>3 DEF ResolutionFine
<1>9. Settled(x).row >= r.row
  BY <1>2, <1>3, SettledIs
<1>10. outage' = outage /\ told' = told /\ epoch' = epoch /\ UNCHANGED <<now, world, task>> /\ Silent
  BY DEF Answered, spent
<1>11. SourceFine(memo', outage)
  <2> HIDE DEF x, after
  <2>1. after = [memo.resolutions EXCEPT ![q] = Settled(x)]
    BY DEF after
  <2>2. /\ WorldIsTyped /\ ReadsAreTyped /\ SourceFine(memo, outage)
        /\ outage \in Int /\ outage <= outage
    BY Facts
  <2>3. ResolutionFine([memo.resolutions EXCEPT ![q] = Settled(x)], q, rows, now, outage)
    BY <1>8, <2>1
  <2> QED
    BY <1>5, <1>6, <1>9, <2>2, <2>3, LandsStays
<1> QED
  BY <1>10, <1>11, Facts, SourceStepsOn

(* A registry that fails is waited on with what was resolved before, or    *)
(* fails the snapshots with nothing before them.                           *)
LEMMA FaultedStays ==
  ASSUME IInv, NEW q \in DOMAIN memo.resolutions, Faulted(q)
  PROVE  IInv'
<1> DEFINE r == memo.resolutions[q]
<1>1. r \in Resolution /\ r.row \in Nat /\ memo.resolutions \in Seq(Resolution)
  BY Facts, MemoTypes
<1>2. r.state = "sent"
  BY DEF Faulted
<1>3. ResolutionFine(memo.resolutions, q, rows, now, outage)
  BY Facts DEF MemoFine
<1>4. outage' = outage /\ told' = told /\ epoch' = epoch /\ UNCHANGED <<now, world, task>> /\ Silent
  BY DEF Faulted
<1>5. /\ WorldIsTyped /\ ReadsAreTyped /\ SourceFine(memo, outage)
      /\ outage \in Int /\ outage <= outage /\ outage <= now /\ memo \in Memo
  BY Facts
<1>6. CASE r.prior = 0
  <2> DEFINE x == [r EXCEPT !.state = "failed"]
             after == [memo.resolutions EXCEPT ![q] = Settled(x)]
  <2>1. x \in Resolution /\ x.state = "failed" /\ x.row = r.row /\ x.sentAt = r.sentAt
    BY <1>1 DEF Resolution
  <2>2. /\ Settled(x).row = r.row /\ Settled(x).state = "failed"
        /\ Settled(x).sentAt = r.sentAt /\ Settled(x).prior = 0
    BY <2>1, SettledIs
  <2>3. after[q] = Settled(x)
    BY <1>1, <2>1, SettledIs
  <2>4. memo' \in Memo /\ Lands(memo, memo', q, Settled(x))
    <3>1. memo' = lands(q, x)
      BY <1>6 DEF Faulted
    <3>2. x.row \in 1..Len(rows)
      BY <1>3, <2>1 DEF ResolutionFine
    <3> QED
      BY <2>1, <3>1, <3>2, Facts, LandsIs
  <2>5. Turns(memo, q, Settled(x))
    BY <1>1, <1>2, <2>2 DEF Turns
  <2>6. ResolutionFine(after, q, rows, now, outage)
    <3>1. 0 \in 0..(q - 1)
      BY <1>1
    <3> QED
      BY <1>2, <1>3, <2>2, <2>3, <3>1 DEF ResolutionFine
  <2>7. Settled(x).row >= r.row
    BY <1>1, <2>2
  <2>8. SourceFine(memo', outage)
    <3> HIDE DEF x
    <3> QED
      BY <1>5, <2>4, <2>5, <2>6, <2>7, LandsStays
  <2> QED
    BY <1>4, <1>5, <2>8, SourceStepsOn
<1>7. CASE r.prior # 0
  <2> DEFINE x == [r EXCEPT !.state = "fault"]
             after == [memo.resolutions EXCEPT ![q] = x]
  <2>1. /\ x \in Resolution /\ x.state = "fault" /\ x.row = r.row /\ x.sentAt = r.sentAt
        /\ x.prior = r.prior
    BY <1>1 DEF Resolution
  <2>2. after[q] = x /\ after \in Seq(Resolution)
    BY <1>1, <2>1
  <2>3. memo' = [memo EXCEPT !.resolutions = after]
    BY <1>1, <1>5, <1>7 DEF Faulted, Memo
  <2>4. Waits(memo, memo', q, x) /\ memo' \in Memo
    <3> HIDE DEF after, x
    <3>1. /\ memo'.snapshots = memo.snapshots /\ memo'.held = memo.held
          /\ memo'.kept = memo.kept /\ memo'.resolutions = after /\ memo' \in Memo
      BY <1>5, <2>2, <2>3 DEF Memo
    <3> QED
      BY <2>1, <3>1 DEF after, Waits
  <2>5. ResolutionFine(after, q, rows, now, outage)
    BY <1>2, <1>3, <1>7, <2>1, <2>2 DEF ResolutionFine
  <2>6. x.row >= r.row /\ x.prior \in {0, r.prior} /\ r.state # "found"
    BY <1>1, <1>2, <2>1
  <2>7. SourceFine(memo', outage)
    <3> HIDE DEF x
    <3> QED
      BY <1>5, <2>4, <2>5, <2>6, WaitsStays
  <2> QED
    BY <1>4, <1>5, <2>7, SourceStepsOn
<1> QED
  BY <1>6, <1>7

(* A resolution's row is the current one when it is sent again.            *)
LEMMA ReadAgainStays ==
  ASSUME IInv, NEW q \in DOMAIN memo.resolutions, ReadAgain(q)
  PROVE  IInv'
<1> DEFINE r == memo.resolutions[q]
           x == [r EXCEPT !.state = "sent", !.row = Len(rows), !.prior = 0]
           after == [memo.resolutions EXCEPT ![q] = x]
<1>1. /\ r \in Resolution /\ r.row \in Nat /\ r.sentAt \in Int
      /\ memo.resolutions \in Seq(Resolution)
  BY Facts, MemoTypes
<1>2. r.state = "fault"
  BY DEF ReadAgain
<1>3. ResolutionFine(memo.resolutions, q, rows, now, outage)
  BY Facts DEF MemoFine
<1>4. outage' = outage /\ told' = told /\ epoch' = epoch /\ UNCHANGED <<now, world, task>> /\ Silent
  BY DEF ReadAgain, spent
<1>5. /\ WorldIsTyped /\ ReadsAreTyped /\ SourceFine(memo, outage)
      /\ outage \in Int /\ outage <= now /\ memo \in Memo
  BY Facts
<1>6. /\ x \in Resolution /\ x.state = "sent" /\ x.row = Len(rows) /\ x.sentAt = r.sentAt
      /\ x.prior = 0
  <2>1. Len(rows) \in Nat
    BY Facts
  <2> QED
    BY <1>1, <2>1 DEF Resolution
<1>7. after[q] = x /\ after \in Seq(Resolution)
  BY <1>1, <1>6
<1>8. memo' = [memo EXCEPT !.resolutions = after]
  BY DEF ReadAgain
<1>9. Waits(memo, memo', q, x) /\ memo' \in Memo
  <2> HIDE DEF after, x
  <2>1. /\ memo'.snapshots = memo.snapshots /\ memo'.held = memo.held
        /\ memo'.kept = memo.kept /\ memo'.resolutions = after /\ memo' \in Memo
    BY <1>5, <1>7, <1>8 DEF Memo
  <2> QED
    BY <1>6, <2>1 DEF after, Waits
<1>10. ResolutionFine(after, q, rows, now, outage)
  <2>1. r.sentAt <= now
    BY <1>3 DEF ResolutionFine
  <2>2. rows[Len(rows)].until >= r.sentAt
    <3>1. rows[Len(rows)].until = MaxClock + 1
      BY Facts DEF WorldFine, Current, Forever
    <3>2. now <= MaxClock /\ now \in Nat /\ MaxClock \in Nat /\ r.sentAt \in Int
      BY <1>1, Facts, ReaderAssumption DEF WorldIsTyped
    <3>3. r.sentAt <= MaxClock + 1
      BY <2>1, <3>2
    <3> QED
      BY <3>1, <3>3
  <2>3. \A w \in Len(rows)..Len(rows) : rows[w].until >= r.sentAt
    BY <2>2, Facts
  <2>4. 0 \in 0..(q - 1) /\ Len(rows) \in 1..Len(rows)
    BY <1>1, Facts
  <2> QED
    BY <1>6, <1>7, <2>1, <2>3, <2>4 DEF ResolutionFine
<1>11. x.row >= r.row /\ x.prior \in {0, r.prior} /\ r.state # "found"
  <2>1. r.row \in 1..Len(rows) /\ Len(rows) \in Nat
    BY <1>3, Facts DEF ResolutionFine
  <2> QED
    BY <1>2, <1>6, <2>1
<1>12. SourceFine(memo', outage)
  <2> HIDE DEF x
  <2> QED
    BY <1>5, <1>9, <1>10, <1>11, WaitsStays
<1> QED
  BY <1>4, <1>5, <1>12, SourceStepsOn

(* A ride-out serves the prior resolution's row, and shows as an outage.   *)
LEMMA RideOutStays ==
  ASSUME IInv, NEW q \in DOMAIN memo.resolutions, RideOut(q)
  PROVE  IInv'
<1> DEFINE r == memo.resolutions[q]
           p == memo.resolutions[r.prior]
           x == [r EXCEPT !.state = "found", !.row = p.row,
                          !.sentAt = retrySoon, !.rodeOut = r.prior]
           after == [memo.resolutions EXCEPT ![q] = Settled(x)]
<1>1. /\ r \in Resolution /\ r.row \in Nat /\ r.prior \in Nat
      /\ memo.resolutions \in Seq(Resolution)
  BY Facts, MemoTypes
<1>2. r.state = "fault" /\ memo' = lands(q, x) /\ outage' = now
  BY DEF RideOut
<1>3. ResolutionFine(memo.resolutions, q, rows, now, outage)
  BY Facts DEF MemoFine
<1>4. told' = told /\ epoch' = epoch /\ UNCHANGED <<now, world, task>> /\ Silent
  BY DEF RideOut
<1>5. /\ WorldIsTyped /\ ReadsAreTyped /\ SourceFine(memo, outage)
      /\ outage \in Int /\ now \in Int /\ outage <= now /\ memo \in Memo
      /\ TTL \in Nat \ {0} /\ Retry \in 1..TTL
  BY Facts
<1>6. r.prior # 0 /\ r.prior \in DOMAIN memo.resolutions
  <2>1. r.prior # 0 /\ r.prior \in 0..(q - 1)
    BY <1>2, <1>3 DEF ResolutionFine
  <2> QED
    BY <1>1, <2>1
<1>7. p.row \in 1..Len(rows) /\ p.row \in Nat
  BY <1>6, Facts, MemoTypes DEF MemoFine, ResolutionFine
<1>8. retrySoon \in Int /\ retrySoon <= now /\ now >= retrySoon + (TTL - Retry)
  BY <1>5 DEF retrySoon
<1>9. /\ x \in Resolution /\ x.state = "found" /\ x.row = p.row /\ x.sentAt = retrySoon
  <2> DEFINE row == p.row
             sent == retrySoon
             rode == r.prior
  <2>1. row \in Nat /\ sent \in Int /\ rode \in Nat
    BY <1>1, <1>7, <1>8
  <2>2. x = [r EXCEPT !.state = "found", !.row = row, !.sentAt = sent, !.rodeOut = rode]
    OBVIOUS
  <2> HIDE DEF row, sent, rode, x, r
  <2>3. x \in Resolution /\ x.state = "found" /\ x.row = row /\ x.sentAt = sent
    BY <1>1, <2>1, <2>2 DEF Resolution
  <2> QED
    BY <2>3 DEF row, sent
<1>10. /\ Settled(x) \in Resolution /\ Settled(x).row = p.row /\ Settled(x).state = "found"
       /\ Settled(x).sentAt = retrySoon /\ Settled(x).prior = 0
  BY <1>9, SettledIs
<1>11. after[q] = Settled(x)
  BY <1>1, <1>10
<1>12. memo' \in Memo /\ Lands(memo, memo', q, Settled(x))
  BY <1>2, <1>7, <1>9, Facts, LandsIs
<1>13. Turns(memo, q, Settled(x))
  BY <1>2, <1>6, <1>7, <1>10, SMTT(20) DEF Turns
<1>14. ResolutionFine(after, q, rows, now, now)
  <2>1. 0 \in 0..(q - 1)
    BY <1>1
  <2> QED
    BY <1>7, <1>8, <1>10, <1>11, <2>1 DEF ResolutionFine
<1>15. SourceFine(memo', now)
  <2> HIDE DEF x
  <2> QED
    BY <1>5, <1>12, <1>13, <1>14, LandsStays
<1> QED
  BY <1>2, <1>4, <1>5, <1>15, SourceStepsOn

(* The bounded caches may forget a segment at any time.                    *)
LEMMA EvictStays ==
  ASSUME IInv, Evict
  PROVE  IInv'
<1>1. memo' \in Memo /\ Forgets(memo, memo')
  BY Facts DEF Evict, Memo, Forgets
<1>2. SourceFine(memo', outage)
  BY <1>1, Facts, ForgetsStays
<1>3. outage' = outage /\ told' = told /\ epoch' = epoch /\ UNCHANGED <<now, world, task>> /\ Silent
  BY DEF Evict
<1> QED
  BY <1>2, <1>3, Facts, SourceStepsOn

(* After an invalidation whatever is resolved is of the current row.       *)
LEMMA InvalidateStays ==
  ASSUME IInv, invalidate
  PROVE  IInv'
<1> DEFINE b == Len(memo.resolutions) + 1
<1>1. /\ memo' = [memo EXCEPT !.held = 0, !.kept = 0]
      /\ epoch' = epoch + 1 /\ told' = Len(rows) /\ outage' = outage
      /\ UNCHANGED <<now, world, task>> /\ Silent
  BY DEF invalidate
<1>2. memo' \in Memo /\ memo'.resolutions = memo.resolutions
      /\ memo'.snapshots = memo.snapshots /\ memo'.held = 0 /\ memo'.kept = 0
  BY <1>1, Facts DEF Memo
<1>3. SourceFine(memo', outage)
  BY <1>2, Facts, ForgetsStays DEF Forgets
<1>4. b \in Nat /\ \A q \in DOMAIN memo.resolutions : ~(q >= b)
  BY Facts, MemoTypes
<1>5. Bound(b, told', memo')
  BY <1>2, <1>4 DEF Bound
<1>6. told' \in 1..Len(rows) /\ epoch' \in Nat /\ outage' \in Int /\ outage' <= now
  BY <1>1, Facts
<1>7. /\ MemoFine(memo', rows, now, outage')
      /\ \A t \in Tasks : ReadFine(task[t], memo', rows, now, outage')
  BY <1>1, <1>3 DEF SourceFine
<1> HIDE DEF b
<1> QED
  BY <1>1, <1>2, <1>4, <1>5, <1>6, <1>7, SourceSteps

(* What a snapshot's reader may move on to, as x.                          *)
ReaderFine(x, z) ==
    LET r == z[x.resolution]
    IN  /\ x.target = "live" => r.state = "found" /\ rows[r.row].generation >= 0
        /\ x.target = "none" => r.state = "found" /\ rows[r.row].generation < 0
        /\ x.reader = "open" =>
              /\ x.target = "live" /\ x.row = r.row
              /\ rows[x.row].named => x.object = rows[x.row].object
              /\ x.object = rows[x.row].object \/ Len(rows) > x.row
        /\ x.reader # "open" => x.row = 0
        /\ x.reader = "none" => x.target = "none"
        /\ x.reader = "missing" => x.target = "live" /\ Len(rows) > r.row

(* A reader that is opened, or is found missing, leaves what its source    *)
(* keeps fine.                                                             *)
LEMMA ReaderMoves ==
  ASSUME IInv, NEW s \in DOMAIN memo.snapshots, NEW x \in Snapshot,
         x.resolution = memo.snapshots[s].resolution, x.prior \in {0, memo.snapshots[s].prior},
         memo.snapshots[s].reader \notin {"open", "none"},
         ReaderFine(x, memo.resolutions)
  PROVE  /\ SourceFine([memo EXCEPT !.snapshots[s] = x], outage)
         /\ [memo EXCEPT !.snapshots[s] = x].snapshots = [memo.snapshots EXCEPT ![s] = x]
<1> DEFINE y == [memo.snapshots EXCEPT ![s] = x]
           n == [memo EXCEPT !.snapshots = y]
<1>1. memo.snapshots \in Seq(Snapshot) /\ memo \in Memo
  BY Facts, MemoTypes
<1>2. y \in Seq(Snapshot) /\ y[s] = x
  BY <1>1
<1>3. n \in Memo /\ n.snapshots = y /\ n.resolutions = memo.resolutions
      /\ n.held = memo.held /\ n.kept = memo.kept
  <2> HIDE DEF y
  <2> QED
    BY <1>1, <1>2 DEF Memo
<1>4. MovesOn(memo, n, s, x)
  <2> HIDE DEF n
  <2> QED
    BY <1>3 DEF MovesOn
<1>5. SnapshotFine(y, s, memo.resolutions, rows)
  <2>1. SnapshotFine(memo.snapshots, s, memo.resolutions, rows)
    BY Facts DEF MemoFine
  <2>2. s \in Nat
    BY <1>1
  <2>3. x.resolution \in DOMAIN memo.resolutions /\ x.prior \in 0..(s - 1)
    BY <2>1, <2>2, SMTT(20) DEF SnapshotFine
  <2> QED
    BY <1>2, <2>3 DEF SnapshotFine, ReaderFine
<1>6. SourceFine(n, outage)
  <2>1. WorldIsTyped /\ ReadsAreTyped /\ outage \in Int /\ SourceFine(memo, outage)
    BY Facts
  <2> HIDE DEF n
  <2> QED
    BY <1>3, <1>4, <1>5, <2>1, MovesOnStays
<1>7. n = [memo EXCEPT !.snapshots[s] = x]
  BY <1>1 DEF Memo
<1> QED
  BY <1>3, <1>6, <1>7

(* The reader of the snapshot before is reused for its row alone.          *)
LEMMA ReusedIsFine ==
  ASSUME IInv, NEW s \in DOMAIN memo.snapshots,
         memo.snapshots[s].target = "live", reuse(memo.snapshots[s])
  PROVE  LET x == Reused(memo.snapshots[s])
         IN  /\ x \in Snapshot /\ x.resolution = memo.snapshots[s].resolution /\ x.prior = 0
             /\ x.reader = "open" /\ ReaderFine(x, memo.resolutions)
<1> DEFINE snap == memo.snapshots[s]
           before == memo.snapshots[snap.prior]
           x == Reused(snap)
           row == before.row
           object == before.object
<1>1. memo.snapshots \in Seq(Snapshot) /\ snap \in Snapshot
  BY Facts, MemoTypes
<1>2. SnapshotFine(memo.snapshots, s, memo.resolutions, rows)
  BY Facts DEF MemoFine
<1>3. snap.prior \in DOMAIN memo.snapshots
  BY <1>1, <1>2 DEF SnapshotFine, reuse
<1>4. SnapshotFine(memo.snapshots, snap.prior, memo.resolutions, rows) /\ before \in Snapshot
  BY <1>1, <1>3, Facts DEF MemoFine
<1>5. /\ before.reader = "open" /\ row = memo.resolutions[snap.resolution].row
      /\ rows[row].named => rows[row].object = object
      /\ object = rows[row].object \/ Len(rows) > row
  BY <1>4 DEF SnapshotFine, reuse, RowOf
<1>6. row \in Nat /\ object \in Nat
  BY <1>4 DEF Snapshot
<1>7. /\ x \in Snapshot /\ x.resolution = snap.resolution /\ x.prior = 0
      /\ x.reader = "open" /\ x.row = row /\ x.object = object /\ x.target = snap.target
  <2>1. x = [snap EXCEPT !.reader = "open", !.prior = 0, !.row = row, !.object = object]
    BY DEF Reused
  <2> HIDE DEF row, object, snap, x
  <2> QED
    BY <1>1, <1>6, <2>1 DEF Snapshot
<1>8. /\ memo.resolutions[snap.resolution].state = "found"
      /\ rows[memo.resolutions[snap.resolution].row].generation >= 0
  BY <1>2 DEF SnapshotFine
<1>9. ReaderFine(x, memo.resolutions)
  <2>1. x.target = "live"
    BY <1>7
  <2> HIDE DEF x, row, object
  <2> QED
    BY <1>5, <1>7, <1>8, <2>1 DEF ReaderFine
<1> QED
  BY <1>7, <1>9

(* A reader whose row did not move is adopted from the snapshot before.    *)
LEMMA AdoptStays ==
  ASSUME IInv, NEW s \in DOMAIN memo.snapshots, adopt(s)
  PROVE  IInv'
<1> DEFINE snap == memo.snapshots[s]
           x == IF reuse(snap) THEN Reused(snap) ELSE [snap EXCEPT !.prior = 0]
<1>1. snap \in Snapshot
  BY Facts, MemoTypes
<1>2. snap.reader = "unasked" /\ snap.target = "live"
  BY DEF adopt
<1>3. SnapshotFine(memo.snapshots, s, memo.resolutions, rows)
  BY Facts DEF MemoFine
<1>4. /\ x \in Snapshot /\ x.resolution = snap.resolution /\ x.prior = 0
      /\ ReaderFine(x, memo.resolutions)
  <2>1. CASE reuse(snap)
    BY <1>2, <2>1, ReusedIsFine
  <2>2. CASE ~reuse(snap)
    <3> DEFINE y == [snap EXCEPT !.prior = 0]
    <3>1. /\ y \in Snapshot /\ y.resolution = snap.resolution /\ y.prior = 0
          /\ y.reader = "unasked" /\ y.target = "live"
      BY <1>1, <1>2 DEF Snapshot
    <3>2. ReaderFine(y, memo.resolutions)
      BY <1>2, <1>3, <3>1, SMTT(20) DEF ReaderFine, SnapshotFine
    <3> QED
      BY <2>2, <3>1, <3>2
  <2> QED
    BY <2>1, <2>2
<1>5. memo' = [memo EXCEPT !.snapshots[s] = x]
  BY DEF adopt
<1>6. SourceFine(memo', outage)
  <2> HIDE DEF x
  <2> QED
    BY <1>2, <1>4, <1>5, ReaderMoves
<1>7. outage' = outage /\ told' = told /\ epoch' = epoch /\ UNCHANGED <<now, world, task>> /\ Silent
  BY DEF adopt, spent
<1> QED
  BY <1>6, <1>7, Facts, SourceStepsOn

(* The object under the key of a current row is the row's.                 *)
LEMMA OpensItsRow ==
  ASSUME IInv, NEW s \in DOMAIN memo.snapshots, memo.snapshots[s].target = "live",
         memo.snapshots[s].reader = "asked"
  PROVE  LET x == openLive(memo.snapshots[s])
         IN  /\ x \in Snapshot /\ x.resolution = memo.snapshots[s].resolution /\ x.prior = 0
             /\ ReaderFine(x, memo.resolutions)
<1> DEFINE snap == memo.snapshots[s]
           v == memo.resolutions[snap.resolution].row
           r == rows[v]
           found == files[r.generation]
           x == openLive(snap)
<1>1. snap \in Snapshot
  BY Facts, MemoTypes
<1>2. /\ snap.resolution \in DOMAIN memo.resolutions
      /\ memo.resolutions[snap.resolution].state = "found" /\ r.generation >= 0
      /\ snap.row = 0
  BY Facts DEF MemoFine, SnapshotFine
<1>3. v \in 1..Len(rows) /\ v \in Nat
  BY <1>2, Facts, MemoTypes DEF MemoFine, ResolutionFine
<1>4. r \in SegmentRow /\ r.generation <= MaxGen
  BY <1>3, Facts, SMTT(20) DEF WorldFine
<1>5. found \in Nat
  <2>1. r.generation \in 0..MaxGen
    <3>1. r.generation \in Int /\ MaxGen \in Nat
      BY <1>4, ReaderAssumption DEF SegmentRow
    <3>2. r.generation >= 0 /\ r.generation <= MaxGen
      BY <1>2, <1>4
    <3> HIDE DEF r
    <3> QED
      BY <3>1, <3>2
  <2> QED
    BY <2>1, Facts DEF WorldIsTyped
<1>6. Len(rows) > v \/ (found = r.object /\ found # 0)
  <2>1. CASE v = Len(rows)
    BY <1>2, <2>1, Facts DEF WorldFine, Current
  <2>2. CASE v # Len(rows)
    <3>1. Len(rows) \in Nat /\ v \in 1..Len(rows)
      BY <1>3, Facts
    <3> HIDE DEF v
    <3>2. Len(rows) > v
      BY <2>2, <3>1
    <3> QED
      BY <3>2 DEF v
  <2> QED
    BY <2>1, <2>2
<1>7. CASE found = 0 \/ (r.named /\ r.object # found)
  <2> DEFINE y == [snap EXCEPT !.reader = "missing", !.prior = 0]
  <2>1. x = y
    BY <1>7 DEF openLive, RowOf
  <2>2. /\ y \in Snapshot /\ y.resolution = snap.resolution /\ y.prior = 0
        /\ y.reader = "missing" /\ y.target = "live" /\ y.row = snap.row
    BY <1>1 DEF Snapshot
  <2>3. Len(rows) > v
    BY <1>6, <1>7
  <2>4. ReaderFine(y, memo.resolutions)
    BY <1>2, <2>2, <2>3 DEF ReaderFine
  <2> QED
    BY <2>1, <2>2, <2>4
<1>8. CASE ~(found = 0 \/ (r.named /\ r.object # found))
  <2> DEFINE object == found
             row == v
             y == [snap EXCEPT !.reader = "open", !.prior = 0, !.object = object, !.row = row]
  <2>1. x = y
    BY <1>8 DEF openLive, RowOf
  <2>2. /\ y \in Snapshot /\ y.resolution = snap.resolution /\ y.prior = 0
        /\ y.reader = "open" /\ y.target = "live" /\ y.row = row /\ y.object = object
    <3>1. object \in Nat /\ row \in Nat /\ snap.target = "live"
      BY <1>3, <1>5
    <3> HIDE DEF object, row, snap
    <3> QED
      BY <1>1, <3>1 DEF Snapshot
  <2>3. (rows[row].named => object = rows[row].object) /\ (object = rows[row].object \/ Len(rows) > row)
    BY <1>6, <1>8
  <2>4. ReaderFine(y, memo.resolutions)
    <3>1. /\ memo.resolutions[snap.resolution].state = "found" /\ rows[row].generation >= 0
          /\ row = memo.resolutions[snap.resolution].row
      BY <1>2
    <3> HIDE DEF y, object, row
    <3> QED
      BY <2>2, <2>3, <3>1 DEF ReaderFine
  <2> QED
    BY <2>1, <2>2, <2>4
<1> QED
  BY <1>7, <1>8

(* An open that ends, with the object, without one, or with none to open,  *)
(* preserves the invariant.                                                *)
LEMMA OpenStays ==
  ASSUME IInv, NEW s \in DOMAIN memo.snapshots, Open(s)
  PROVE  IInv'
<1> DEFINE snap == memo.snapshots[s]
           x == opened(snap)
           after == [memo EXCEPT !.snapshots[s] = x]
<1>1. snap \in Snapshot
  BY Facts, MemoTypes
<1>2. snap.reader = "asked" /\ snap.target \in {"live", "none", "failed"}
  BY <1>1 DEF Open, Snapshot
<1>3. SnapshotFine(memo.snapshots, s, memo.resolutions, rows)
  BY Facts DEF MemoFine
<1>4. /\ x \in Snapshot /\ x.resolution = snap.resolution /\ x.prior = 0
      /\ ReaderFine(x, memo.resolutions)
  <2>1. CASE snap.target = "none"
    <3> DEFINE y == [snap EXCEPT !.reader = "none", !.prior = 0]
    <3>1. x = y
      BY <2>1 DEF opened
    <3>2. /\ y \in Snapshot /\ y.resolution = snap.resolution /\ y.prior = 0
          /\ y.reader = "none" /\ y.target = "none" /\ y.row = snap.row
      BY <1>1, <2>1 DEF Snapshot
    <3>3. ReaderFine(y, memo.resolutions)
      BY <1>2, <1>3, <2>1, <3>2 DEF ReaderFine, SnapshotFine
    <3> QED
      BY <3>1, <3>2, <3>3
  <2>2. CASE snap.target = "failed"
    <3> DEFINE y == [snap EXCEPT !.reader = "failed", !.prior = 0]
    <3>1. x = y
      BY <2>2 DEF opened
    <3>2. /\ y \in Snapshot /\ y.resolution = snap.resolution /\ y.prior = 0
          /\ y.reader = "failed" /\ y.target = "failed" /\ y.row = snap.row
      BY <1>1, <2>2 DEF Snapshot
    <3>3. ReaderFine(y, memo.resolutions)
      BY <1>2, <1>3, <3>2 DEF ReaderFine, SnapshotFine
    <3> QED
      BY <3>1, <3>2, <3>3
  <2>3. CASE snap.target = "live" /\ reuse(snap)
    <3>1. x = Reused(snap)
      BY <2>3 DEF opened
    <3> QED
      BY <2>3, <3>1, ReusedIsFine
  <2>4. CASE snap.target = "live" /\ ~reuse(snap)
    <3>1. x = openLive(snap)
      BY <2>4 DEF opened
    <3> QED
      BY <1>2, <2>4, <3>1, OpensItsRow
  <2> QED
    BY <1>2, <2>1, <2>2, <2>3, <2>4
<1>5. SourceFine(after, outage) /\ after.snapshots = [memo.snapshots EXCEPT ![s] = x]
  <2> HIDE DEF x
  <2> QED
    BY <1>2, <1>4, ReaderMoves
<1>6. SourceFine(dropStale(after, s), outage)
  <2>1. s \in DOMAIN after.snapshots
    BY <1>5, Facts, MemoTypes
  <2> HIDE DEF after
  <2> QED
    BY <1>5, <2>1, Facts, DropsStale
<1>7. memo' = after \/ memo' = dropStale(after, s)
  BY DEF Open
<1>8. SourceFine(memo', outage)
  BY <1>5, <1>6, <1>7
<1>9. outage' = outage /\ told' = told /\ epoch' = epoch /\ UNCHANGED <<now, world, task>> /\ Silent
  BY DEF Open, spent
<1> QED
  BY <1>8, <1>9, Facts, SourceStepsOn

-----------------------------------------------------------------------------
(* What the segment's writers and the clock do to what the source keeps.   *)

(* A history rb goes on from ra: its rows stay, the last of them ends no   *)
(* earlier than at, and so does a new one.                                 *)
Continues(ra, rb, at) ==
    /\ Len(ra) <= Len(rb)
    /\ \A v \in DOMAIN ra :
          /\ rb[v].generation = ra[v].generation /\ rb[v].object = ra[v].object
          /\ rb[v].named = ra[v].named
          /\ rb[v].until = ra[v].until \/ rb[v].until >= at
    /\ \A v \in DOMAIN rb : v > Len(ra) => rb[v].until >= at

(* What a source keeps of the rows stays true while they only go on: a row *)
(* is ended no earlier than now.                                           *)
LEMMA HistoryContinues ==
  ASSUME NEW m \in Memo, NEW ra \in Seq(SegmentRow), NEW rb \in Seq(SegmentRow),
         NEW at \in Int, NEW later \in Int, at <= later, NEW out,
         Continues(ra, rb, at), MemoFine(m, ra, at, out)
  PROVE  MemoFine(m, rb, later, out)
<1>1. Len(ra) \in Nat /\ Len(rb) \in Nat /\ DOMAIN ra = 1..Len(ra) /\ DOMAIN rb = 1..Len(rb)
      /\ Len(ra) <= Len(rb)
  BY DEF Continues
<1>2. ASSUME NEW q \in DOMAIN m.resolutions
      PROVE  /\ ResolutionFine(m.resolutions, q, rb, later, out)
             /\ m.resolutions[q].row \in DOMAIN ra
  <2> DEFINE z == m.resolutions
             row == z[q].row
             sent == z[q].sentAt
  <2>1. ResolutionFine(z, q, ra, at, out)
    BY DEF MemoFine
  <2>2. row \in DOMAIN ra /\ row \in Nat /\ sent \in Int /\ sent <= at
    BY <1>1, <2>1, MemoTypes DEF ResolutionFine
  <2>3. ASSUME NEW w \in DOMAIN ra, ra[w].until >= sent
        PROVE  rb[w].until >= sent
    <3>1. rb[w].until = ra[w].until \/ rb[w].until >= at
      BY DEF Continues
    <3>2. rb[w] \in SegmentRow
      BY <1>1
    <3>3. rb[w].until \in Int
      BY <3>2 DEF SegmentRow
    <3> HIDE DEF sent
    <3> QED
      BY <2>2, <2>3, <3>1, <3>3
  <2>4. ASSUME NEW w \in DOMAIN rb, w > Len(ra)
        PROVE  rb[w].until >= sent
    <3>1. rb[w].until >= at
      BY <2>4 DEF Continues
    <3>2. rb[w] \in SegmentRow
      OBVIOUS
    <3>3. rb[w].until \in Int
      BY <3>2 DEF SegmentRow
    <3> HIDE DEF sent
    <3> QED
      BY <2>2, <3>1, <3>3
  <2>5. row \in 1..Len(rb) /\ sent <= later
    <3> HIDE DEF row, sent
    <3> QED
      BY <1>1, <2>2
  <2>6. CASE z[q].state = "found"
    <3>1. ra[row].until >= sent \/ out >= sent + (TTL - Retry)
      BY <2>1, <2>6 DEF ResolutionFine
    <3>2. rb[row].until >= sent \/ out >= sent + (TTL - Retry)
      BY <2>2, <2>3, <3>1
    <3> QED
      BY <2>1, <2>2, <2>5, <2>6, <3>2 DEF ResolutionFine
  <2>7. CASE z[q].state # "found"
    <3>1. \A w \in row..Len(ra) : ra[w].until >= sent
      BY <2>1, <2>7 DEF ResolutionFine
    <3>2. \A w \in row..Len(rb) : rb[w].until >= sent
      <4> SUFFICES ASSUME NEW w \in row..Len(rb)
                   PROVE  rb[w].until >= sent
        OBVIOUS
      <4> HIDE DEF row, sent
      <4>1. CASE w <= Len(ra)
        <5>1. w \in row..Len(ra) /\ w \in DOMAIN ra
          BY <1>1, <2>2, <4>1
        <5> QED
          BY <2>3, <3>1, <5>1
      <4>2. CASE ~(w <= Len(ra))
        <5>1. w \in DOMAIN rb /\ w > Len(ra)
          BY <1>1, <2>2, <4>2
        <5> QED
          BY <2>4, <5>1
      <4> QED
        BY <4>1, <4>2
    <3> QED
      BY <2>1, <2>2, <2>5, <2>7, <3>2 DEF ResolutionFine
  <2> QED
    BY <2>2, <2>6, <2>7
<1>3. ASSUME NEW s \in DOMAIN m.snapshots
      PROVE  SnapshotFine(m.snapshots, s, m.resolutions, rb)
  <2> DEFINE x == m.snapshots[s]
             v == m.resolutions[x.resolution].row
  <2>1. SnapshotFine(m.snapshots, s, m.resolutions, ra)
    BY DEF MemoFine
  <2>2. x.resolution \in DOMAIN m.resolutions /\ v \in DOMAIN ra /\ v \in Nat
    <3>1. x.resolution \in DOMAIN m.resolutions
      BY <2>1 DEF SnapshotFine
    <3>2. v \in DOMAIN ra
      BY <1>2, <3>1
    <3> HIDE DEF v
    <3> QED
      BY <1>1, <3>1, <3>2
  <2>3. /\ rb[v].generation = ra[v].generation /\ rb[v].object = ra[v].object
        /\ rb[v].named = ra[v].named
    BY <2>2 DEF Continues
  <2>4. Len(ra) > v => Len(rb) > v
    <3> HIDE DEF v
    <3> QED
      BY <1>1, <2>2
  <2> QED
    BY <2>1, <2>2, <2>3, <2>4 DEF SnapshotFine
<1>4. HoldsFine(m, rb)
  <2>1. HoldsFine(m, ra)
    BY DEF MemoFine
  <2>2. m.kept # 0 => m.kept \in DOMAIN m.resolutions
    BY <2>1, MemoTypes DEF HoldsFine
  <2>3. m.kept # 0 => rb[m.resolutions[m.kept].row].generation
                        = ra[m.resolutions[m.kept].row].generation
    BY <1>2, <2>2 DEF Continues
  <2> QED
    BY <2>1, <2>3 DEF HoldsFine
<1> QED
  BY <1>2, <1>3, <1>4 DEF MemoFine

(* So nothing that a read goes by is worse for it.                         *)
LEMMA WorldSteps ==
  ASSUME IInv, UNCHANGED <<memo, epoch, told, outage, task>>, Silent,
         WorldIsTyped', WorldFine', now <= now', Continues(rows, rows', now)
  PROVE  IInv'
<1>1. /\ memo' = memo /\ task' = task /\ told' = told /\ outage' = outage /\ epoch' = epoch
  OBVIOUS
<1>2. /\ rows' \in Seq(SegmentRow) /\ now' \in Int /\ Len(rows') \in Nat /\ Len(rows) <= Len(rows')
  BY ReaderAssumption DEF WorldIsTyped, Continues
<1>3. ReadsAreTyped'
  <2>1. /\ epoch \in Nat /\ told \in 1..Len(rows) /\ outage \in Int /\ outage <= now
        /\ task \in [Tasks -> ReadState] /\ Len(rows) \in Nat /\ now \in Nat
    BY Facts DEF ReadsAreTyped
  <2> QED
    BY <1>1, <1>2, <2>1 DEF ReadsAreTyped
<1>4. MemoFine(memo, rows', now', outage)
  <2>1. /\ memo \in Memo /\ rows \in Seq(SegmentRow) /\ now \in Int
        /\ MemoFine(memo, rows, now, outage)
    BY Facts
  <2> QED
    BY <1>2, <2>1, HistoryContinues
<1>5. ASSUME NEW t \in Tasks
      PROVE  ReadFine(task[t], memo, rows', now', outage)
  <2>1. ReadFine(task[t], memo, rows, now, outage) /\ task[t] \in ReadState
    BY Facts DEF SourceFine, ReadsAreTyped
  <2> DEFINE read == task[t]
  <2>2. CASE read.pc # "idle"
    <3>1. LooksFine(read, memo, rows, now, outage)
      BY <2>1, <2>2 DEF ReadFine
    <3>2. LooksFine(read, memo, rows', now', outage)
      <4>1. read.outage \in Int /\ now \in Int /\ Len(rows) \in Nat
        BY <2>1, Facts DEF ReadState
      <4>2. read.outage >= now' => read.outage >= now
        <5> HIDE DEF read
        <5> QED
          BY <1>2, <4>1
      <4>3. \A v \in 1..Len(rows) : v \in 1..Len(rows')
        BY <1>2, <4>1
      <4> QED
        BY <3>1, <4>2, <4>3 DEF LooksFine
    <3> QED
      BY <2>1, <2>2, <3>2 DEF ReadFine
  <2>3. CASE read.pc = "idle"
    BY <2>3 DEF ReadFine
  <2> QED
    BY <2>2, <2>3
<1>6. SourceFine(memo, outage)'
  <2>1. memo \in Memo /\ \E b \in Nat : Bound(b, told, memo)
    BY Facts DEF SourceFine
  <2> QED
    BY <1>1, <1>4, <1>5, <2>1 DEF SourceFine
<1>7. AnswersAreFresh' /\ InvalidationIsHeeded' /\ MissIsARace'
  BY DEF Silent, Nothing, AnswersAreFresh, InvalidationIsHeeded, MissIsARace
<1> QED
  BY <1>3, <1>6, <1>7 DEF IInv

(* Time passing preserves the invariant.                                   *)
LEMMA TickStays ==
  ASSUME IInv, Tick
  PROVE  IInv'
<1>1. UNCHANGED <<memo, epoch, told, outage, task>> /\ Silent /\ rows' = rows /\ files' = files
      /\ puts' = puts /\ now' = now + 1 /\ now < MaxClock
  BY DEF Tick, world, spent
<1>2. WorldIsTyped' /\ WorldFine' /\ now <= now'
  BY <1>1, Facts, ReaderAssumption DEF WorldIsTyped, WorldFine, Current
<1>3. Continues(rows, rows', now)
  BY <1>1, Facts DEF Continues
<1> QED
  BY <1>1, <1>2, <1>3, WorldSteps

(* Collection of an object that the row does not point at preserves the    *)
(* invariant.                                                              *)
LEMMA CollectStays ==
  ASSUME IInv, NEW g \in 0..MaxGen, Collect(g)
  PROVE  IInv'
<1>1. UNCHANGED <<memo, epoch, told, outage, task>> /\ Silent /\ rows' = rows /\ now' = now
      /\ puts' = puts /\ files' = [files EXCEPT ![g] = 0] /\ g # Current.generation
  BY DEF Collect, spent
<1>2. WorldIsTyped' /\ now <= now'
  BY <1>1, Facts DEF WorldIsTyped
<1>3. WorldFine'
  <2>1. files \in [0..MaxGen -> Nat]
    BY Facts DEF WorldIsTyped
  <2>2. files'[Current.generation] = files[Current.generation]
    BY <1>1, <2>1
  <2> QED
    BY <1>1, <2>2, Facts DEF WorldFine, Current
<1>4. Continues(rows, rows', now)
  BY <1>1, Facts DEF Continues
<1> QED
  BY <1>1, <1>2, <1>3, <1>4, WorldSteps

(* A row that follows the current one ends it now.                         *)
LEMMA RowFollows ==
  ASSUME IInv, NEW row \in SegmentRow, row.until = Forever, MovesTo(row)
  PROVE  /\ rows' \in Seq(SegmentRow) /\ rows' # <<>> /\ Continues(rows, rows', now)
         /\ Len(rows') = Len(rows) + 1 /\ Current' = row
         /\ \A v \in DOMAIN rows : /\ rows'[v].generation = rows[v].generation
                                   /\ rows'[v].named = rows[v].named
<1> DEFINE last == Len(rows)
           x == [rows[last] EXCEPT !.until = now]
           ended == [rows EXCEPT ![last] = x]
<1>1. /\ rows \in Seq(SegmentRow) /\ last \in Nat \ {0} /\ now \in Nat /\ DOMAIN rows = 1..last
      /\ now <= MaxClock /\ MaxClock \in Nat
  BY Facts, ReaderAssumption DEF WorldIsTyped
<1>2. rows[last] \in SegmentRow
  BY <1>1
<1>3. /\ x \in SegmentRow /\ x.generation = rows[last].generation /\ x.named = rows[last].named
      /\ x.object = rows[last].object /\ x.until = now
  <2> DEFINE y == rows[last]
  <2>1. y \in SegmentRow /\ now \in Int /\ x = [y EXCEPT !.until = now]
    BY <1>1, <1>2
  <2> HIDE DEF y, x
  <2>2. /\ x \in SegmentRow /\ x.generation = y.generation /\ x.named = y.named
        /\ x.object = y.object /\ x.until = now
    BY <2>1 DEF SegmentRow
  <2> QED
    BY <2>2 DEF y
<1>4. rows' = Append(ended, row)
  BY <1>1 DEF MovesTo
<1> HIDE DEF x
<1>5. /\ ended \in Seq(SegmentRow) /\ Len(ended) = last /\ ended[last] = x
      /\ \A v \in 1..last : v # last => ended[v] = rows[v]
  <2>1. rows \in Seq(SegmentRow) /\ last \in DOMAIN rows /\ x \in SegmentRow
    BY <1>1, <1>3
  <2>2. ended \in Seq(SegmentRow)
    BY <2>1
  <2>3. Len(ended) = last /\ ended[last] = x
    BY <2>1
  <2>4. \A v \in 1..last : v # last => ended[v] = rows[v]
    BY <1>1
  <2> QED
    BY <2>2, <2>3, <2>4
<1> HIDE DEF ended
<1>6. /\ rows' \in Seq(SegmentRow) /\ Len(rows') = last + 1 /\ DOMAIN rows' = 1..(last + 1)
      /\ rows'[last + 1] = row
      /\ \A v \in 1..last : rows'[v] = ended[v]
  <2>1. ended \in Seq(SegmentRow) /\ row \in SegmentRow /\ Len(ended) = last /\ last \in Nat
    BY <1>1, <1>5
  <2> HIDE DEF last
  <2>2. rows' \in Seq(SegmentRow) /\ Len(rows') = last + 1
    BY <1>4, <2>1
  <2>3. rows'[last + 1] = row
    BY <1>4, <2>1
  <2>4. \A v \in 1..last : rows'[v] = ended[v]
    BY <1>4, <2>1
  <2> QED
    BY <2>2, <2>3, <2>4
<1>7. ASSUME NEW v \in DOMAIN rows
      PROVE  /\ rows'[v].generation = rows[v].generation /\ rows'[v].object = rows[v].object
             /\ rows'[v].named = rows[v].named
             /\ rows'[v].until = rows[v].until \/ rows'[v].until >= now
  <2>1. CASE v = last
    <3>1. rows'[v] = x
      BY <1>1, <1>5, <1>6, <2>1
    <3>2. now >= now
      BY <1>1
    <3> QED
      BY <1>3, <2>1, <3>1, <3>2
  <2>2. CASE v # last
    <3>1. rows'[v] = rows[v]
      BY <1>1, <1>5, <1>6, <2>2
    <3> QED
      BY <3>1
  <2> QED
    BY <2>1, <2>2
<1>8. ASSUME NEW v \in DOMAIN rows', v > last
      PROVE  rows'[v].until >= now
  <2>1. v = last + 1
    BY <1>1, <1>6, <1>8
  <2>2. rows'[v].until = MaxClock + 1
    BY <1>6, <2>1 DEF Forever
  <2> QED
    BY <1>1, <2>2
<1>9. Continues(rows, rows', now)
  BY <1>1, <1>6, <1>7, <1>8 DEF Continues
<1>10. Current' = row /\ rows' # <<>>
  BY <1>1, <1>6 DEF Current
<1> QED
  BY <1>6, <1>7, <1>9, <1>10

(* The world after it, where the row's object is under its key.            *)
LEMMA MovesToStays ==
  ASSUME IInv, NEW row \in SegmentRow, row.until = Forever, row.generation <= MaxGen,
         row.generation < 0 => ~row.named, MovesTo(row),
         files' \in [0..MaxGen -> Nat], puts' \in Nat,
         row.generation >= 0 => files'[row.generation] = row.object /\ row.object # 0
  PROVE  IInv'
<1>1. UNCHANGED <<memo, epoch, told, outage, task>> /\ Silent /\ now' = now
  BY DEF MovesTo, spent
<1>2. WorldIsTyped' /\ now <= now'
  BY <1>1, Facts, RowFollows DEF WorldIsTyped
<1>3. ASSUME NEW v \in DOMAIN rows'
      PROVE  rows'[v].generation <= MaxGen /\ (rows'[v].generation < 0 => ~rows'[v].named)
  <2>1. Len(rows') = Len(rows) + 1 /\ DOMAIN rows' = 1..Len(rows') /\ Len(rows) \in Nat
    BY RowFollows, Facts
  <2>2. CASE v \in DOMAIN rows
    <3>1. rows[v].generation <= MaxGen /\ (rows[v].generation < 0 => ~rows[v].named)
      BY <2>2, Facts DEF WorldFine
    <3> QED
      BY <2>2, <3>1, RowFollows
  <2>3. CASE v = Len(rows')
    BY <2>3, RowFollows DEF Current
  <2> QED
    BY <2>1, <2>2, <2>3, Facts
<1>4. WorldFine'
  <2>1. Current' = row
    BY RowFollows
  <2> QED
    BY <1>3, <2>1 DEF WorldFine
<1> QED
  BY <1>1, <1>2, <1>4, RowFollows, WorldSteps

(* A drop preserves the invariant: the row now points nowhere.             *)
LEMMA DropStays ==
  ASSUME IInv, Drop
  PROVE  IInv'
<1>1. /\ Gone \in SegmentRow /\ Gone.until = Forever /\ Gone.generation <= MaxGen
      /\ Gone.generation < 0 /\ ~Gone.named
  BY ReaderAssumption DEF Gone, SegmentRow, Forever
<1>2. MovesTo(Gone) /\ files' = files /\ puts' = puts
  BY DEF Drop
<1>3. files' \in [0..MaxGen -> Nat] /\ puts' \in Nat /\ ~(Gone.generation >= 0)
  BY <1>2, Facts DEF WorldIsTyped, Gone
<1> QED
  BY <1>1, <1>2, <1>3, MovesToStays

(* A publish or a rollback preserves the invariant: the row points at an   *)
(* object that is under its key.                                           *)
LEMMA PointsAtStays ==
  ASSUME IInv, NEW g \in 0..MaxGen, PointsAt(g)
  PROVE  IInv'
<1> DEFINE object == IF files[g] = 0 THEN puts + 1 ELSE files[g]
           row == [generation |-> g, object |-> object, until |-> Forever,
                   named |-> object \notin Unnamed]
<1>1. MovesTo(row) /\ puts' = (IF files[g] = 0 THEN object ELSE puts)
      /\ files' = [files EXCEPT ![g] = object]
  BY DEF PointsAt
<1>2. files \in [0..MaxGen -> Nat] /\ puts \in Nat /\ MaxGen \in Nat /\ MaxClock \in Nat
  BY Facts, ReaderAssumption DEF WorldIsTyped
<1>3. object \in Nat /\ object # 0
  BY <1>2
<1> HIDE DEF object
<1>4. /\ row \in SegmentRow /\ row.until = Forever /\ row.generation <= MaxGen
      /\ ~(row.generation < 0) /\ row.generation = g /\ row.object = object
  BY <1>2, <1>3 DEF SegmentRow, Forever
<1>5. files' \in [0..MaxGen -> Nat] /\ puts' \in Nat /\ files'[g] = object
  BY <1>1, <1>2, <1>3
<1> HIDE DEF row
<1> QED
  BY <1>1, <1>3, <1>4, <1>5, MovesToStays

-----------------------------------------------------------------------------
(* The reads.                                                              *)

Fresh(v) == rows[v].until > now - TTL \/ outage > now - Retry

(* The oldest row that a read that looks now may serve is there, and it is *)
(* the first one of all while the registry is out.                         *)
LEMMA LookingIs ==
  ASSUME IInv, NEW read \in ReadState
  PROVE  LET x == Looking(read)
         IN  /\ x \in ReadState /\ x.oldest \in 1..Len(rows) /\ x.outage = outage /\ x.told = told
             /\ outage >= now => x.oldest = 1
             /\ \A v \in 1..Len(rows) : Fresh(v) => v >= x.oldest
             /\ x.pc = read.pc /\ x.kind = read.kind /\ x.snap = read.snap /\ x.on = read.on
             /\ x.live = read.live /\ x.seen = read.seen /\ x.epoch = read.epoch
             /\ x.left = read.left /\ x.healed = read.healed /\ x.since = read.since
<1> DEFINE fresh == {v \in DOMAIN rows : rows[v].until > now - TTL \/ outage > now - Retry}
           oldest == CHOOSE v \in fresh : \A w \in fresh : v <= w
           x == Looking(read)
<1>1. /\ Len(rows) \in Nat \ {0} /\ DOMAIN rows = 1..Len(rows) /\ outage \in Int /\ now \in Nat
      /\ told \in 1..Len(rows) /\ TTL \in Nat \ {0} /\ Retry \in 1..TTL
  BY Facts
<1>2. Len(rows) \in fresh
  <2>1. rows[Len(rows)].until = MaxClock + 1 /\ now <= MaxClock /\ MaxClock \in Nat
    BY Facts, ReaderAssumption DEF WorldFine, Current, Forever, WorldIsTyped
  <2>2. rows[Len(rows)].until > now - TTL
    BY <1>1, <2>1
  <2> QED
    BY <1>1, <2>2
<1>3. oldest \in fresh /\ \A w \in fresh : oldest <= w
  <2>1. fresh \subseteq Nat
    BY <1>1
  <2> HIDE DEF fresh
  <2>2. \E v \in fresh : \A w \in fresh : v <= w
    BY <1>2, <2>1, Least
  <2> QED
    BY <2>2
<1>4. oldest \in 1..Len(rows)
  BY <1>1, <1>3
<1>5. x = [read EXCEPT !.oldest = oldest, !.outage = outage, !.told = told]
  BY DEF Looking
<1>6. \A v \in 1..Len(rows) : Fresh(v) => v \in fresh
  BY <1>1 DEF Fresh
<1> HIDE DEF oldest, x, fresh
<1>7. /\ x \in ReadState /\ x.oldest = oldest /\ x.outage = outage /\ x.told = told
      /\ x.pc = read.pc /\ x.kind = read.kind /\ x.snap = read.snap /\ x.on = read.on
      /\ x.live = read.live /\ x.seen = read.seen /\ x.epoch = read.epoch
      /\ x.left = read.left /\ x.healed = read.healed /\ x.since = read.since
  <2>1. oldest \in Nat /\ outage \in Int /\ told \in Nat
    BY <1>1, <1>4
  <2> QED
    BY <1>5, <2>1 DEF ReadState
<1>8. \A v \in 1..Len(rows) : Fresh(v) => v >= oldest
  BY <1>1, <1>3, <1>4, <1>6
<1>9. outage >= now => oldest = 1
  <2>1. outage >= now => Fresh(1)
    BY <1>1 DEF Fresh
  <2>2. outage >= now => 1 >= oldest
    BY <1>1, <1>8, <2>1
  <2> QED
    BY <1>4, <2>2
<1> QED
  BY <1>4, <1>7, <1>8, <1>9 DEF x

(* The row of a resolution that has not lapsed is none older.              *)
LEMMA UnexpiredIsFresh ==
  ASSUME IInv, NEW m \in Memo, MemoFine(m, rows, now, outage),
         NEW q \in DOMAIN m.resolutions, ~expired(m, q)
  PROVE  m.resolutions[q].row \in 1..Len(rows) /\ Fresh(m.resolutions[q].row)
<1> DEFINE row == m.resolutions[q].row
           sent == m.resolutions[q].sentAt
           until == rows[row].until
<1>1. ResolutionFine(m.resolutions, q, rows, now, outage)
  BY DEF MemoFine
<1>2. /\ row \in 1..Len(rows) /\ sent \in Int /\ now \in Nat /\ outage \in Int
      /\ TTL \in Nat \ {0} /\ Retry \in 1..TTL /\ Len(rows) \in Nat
  BY <1>1, MemoTypes, Facts DEF ResolutionFine
<1>3. until \in Int
  <2>1. rows[row] \in SegmentRow
    BY <1>2, Facts
  <2> QED
    BY <2>1 DEF SegmentRow
<1>4. now - sent < TTL
  <2>1. ~(now - sent >= TTL)
    BY DEF expired
  <2> HIDE DEF sent
  <2> QED
    BY <1>2, <2>1
<1>5. until >= sent \/ outage >= sent + (TTL - Retry)
  <2>1. row \in row..Len(rows)
    BY <1>2
  <2> QED
    BY <1>1, <2>1 DEF ResolutionFine
<1>6. until > now - TTL \/ outage > now - Retry
  <2> HIDE DEF until, sent
  <2> QED
    BY <1>2, <1>3, <1>4, <1>5
<1> QED
  BY <1>2, <1>6 DEF Fresh

(* What a step of a read has to leave.                                     *)
LEMMA ReadSteps ==
  ASSUME IInv, UNCHANGED <<now, world, spent>>, NEW t \in Tasks, NEW read \in ReadState,
         task' = [task EXCEPT ![t] = read], SourceFine(memo', outage),
         ReadFine(read, memo', rows, now, outage),
         AnswersAreFresh', InvalidationIsHeeded', MissIsARace'
  PROVE  IInv'
<1>1. rows' = rows /\ files' = files /\ puts' = puts /\ now' = now
      /\ epoch' = epoch /\ told' = told /\ outage' = outage
  BY DEF world, spent
<1>2. task \in [Tasks -> ReadState]
  BY Facts DEF ReadsAreTyped
<1>3. WorldIsTyped' /\ WorldFine' /\ ReadsAreTyped'
  BY <1>1, <1>2, Facts DEF WorldIsTyped, WorldFine, Current, ReadsAreTyped
<1>4. ASSUME NEW u \in Tasks
      PROVE  ReadFine(task'[u], memo', rows, now, outage)
  <2>1. CASE u = t
    BY <1>2, <2>1
  <2>2. CASE u # t
    <3>1. task'[u] = task[u]
      BY <1>2, <2>2
    <3> QED
      BY <3>1 DEF SourceFine
  <2> QED
    BY <2>1, <2>2
<1>5. SourceFine(memo, outage)'
  <2>1. memo' \in Memo /\ MemoFine(memo', rows, now, outage) /\ \E b \in Nat : Bound(b, told, memo')
    BY DEF SourceFine
  <2> QED
    BY <1>1, <1>4, <2>1 DEF SourceFine
<1> QED
  BY <1>3, <1>5 DEF IInv

(* With nothing handed out, nothing wrong is.                              *)
LEMMA SilenceIsFine ==
  ASSUME Silent
  PROVE  AnswersAreFresh' /\ InvalidationIsHeeded' /\ MissIsARace'
  BY DEF Silent, Nothing, AnswersAreFresh, InvalidationIsHeeded, MissIsARace

(* A read that goes by the snapshot the source now holds, whose resolution *)
(* has not lapsed, looks at nothing older.                                 *)
LEMMA LooksAtHeld ==
  ASSUME IInv, NEW m, SourceFine(m, outage), m.held \in DOMAIN m.snapshots,
         ~expired(m, m.snapshots[m.held].resolution),
         NEW read \in ReadState, AimedAt(read, m) = m.snapshots[m.held].resolution,
         read.oldest \in 1..Len(rows), read.outage = outage, read.told = told,
         outage >= now => read.oldest = 1, read.since \in 1..Len(rows),
         \A v \in 1..Len(rows) : Fresh(v) => v >= read.oldest
  PROVE  LooksFine(read, m, rows, now, outage) /\ HeedsFine(read, m)
<1> DEFINE q == m.snapshots[m.held].resolution
<1>1. m \in Memo /\ MemoFine(m, rows, now, outage)
  BY DEF SourceFine
<1>2. q \in DOMAIN m.resolutions
  BY <1>1 DEF MemoFine, SnapshotFine
<1>3. m.resolutions[q].row >= read.oldest
  BY <1>1, <1>2, UnexpiredIsFresh
<1>4. LooksFine(read, m, rows, now, outage)
  BY <1>3, Facts DEF LooksFine
<1>5. PICK b \in Nat : Bound(b, told, m)
  BY DEF SourceFine
<1>6. m.held # 0
  BY <1>1, MemoTypes
<1>7. Bound(b, read.told, m) /\ AimedAt(read, m) >= b
  BY <1>5, <1>6 DEF Bound
<1> QED
  BY <1>4, <1>7 DEF HeedsFine

(* The memo a read asks, with its reader asked for or not, serves alike.   *)
SameButReaders(l, n) ==
    /\ n.resolutions = l.resolutions /\ n.held = l.held /\ n.kept = l.kept
    /\ DOMAIN n.snapshots = DOMAIN l.snapshots
    /\ \A z \in DOMAIN l.snapshots : n.snapshots[z].resolution = l.snapshots[z].resolution

(* What a healed read has put behind it: from resolution b on, all were    *)
(* asked for since it began, and those are all the source still has.       *)
HealsFrom(b, m, read) ==
    /\ b <= Len(m.resolutions) + 1
    /\ \A q \in DOMAIN m.resolutions :
          q >= b => m.resolutions[q].row >= read.since \/ outage >= 0
    /\ m.held # 0 => m.snapshots[m.held].resolution >= b
    /\ m.kept # 0 => m.kept >= b

(* A read that goes by what the source just resolved has a race behind it. *)
LEMMA RacesFromHeld ==
  ASSUME IInv, NEW m, SourceFine(m, outage), NEW l \in Memo, Grows(m, l, Len(rows)),
         \A p \in DOMAIN m.resolutions : l.resolutions[p].row >= m.resolutions[p].row,
         l.held \in DOMAIN l.snapshots, l.kept \in {0, l.snapshots[l.held].resolution},
         NEW read \in ReadState, AimedAt(read, l) = l.snapshots[l.held].resolution,
         read.since \in 1..Len(rows),
         read.pc = "reading" /\ read.healed => \E b \in Nat : HealsFrom(b, m, read)
  PROVE  RaceFine(read, l, outage)
<1> DEFINE q == l.snapshots[l.held].resolution
           size == Len(m.resolutions)
<1>1. m \in Memo /\ size \in Nat /\ Len(l.resolutions) \in Nat /\ q \in Nat
      /\ DOMAIN m.resolutions = 1..size
  <2>1. m \in Memo
    BY DEF SourceFine
  <2> QED
    BY <2>1, MemoTypes
<1>2. CASE ~(read.pc = "reading" /\ read.healed)
  <2> DEFINE b == Len(l.resolutions) + 1
  <2>1. b \in Nat /\ \A p \in DOMAIN l.resolutions : ~(p >= b)
    BY <1>1, MemoTypes
  <2>2. RaceBound(b, read, l, outage)
    BY <1>2, <2>1 DEF RaceBound
  <2> HIDE DEF b
  <2> QED
    BY <2>1, <2>2 DEF RaceFine
<1>3. CASE read.pc = "reading" /\ read.healed
  <2>1. PICK b \in Nat : HealsFrom(b, m, read)
    BY <1>3
  <2>2. b <= size + 1 /\ size <= Len(l.resolutions)
    BY <2>1 DEF HealsFrom, Grows, ResolutionsStay
  <2>3. b <= Len(l.resolutions) + 1
    <3> HIDE DEF size
    <3> QED
      BY <1>1, <2>2
  <2>4. ASSUME NEW p \in DOMAIN l.resolutions, p >= b
        PROVE  l.resolutions[p].row >= read.since \/ outage >= 0
    <3>1. CASE p > size
      BY <3>1, Facts DEF Grows, NewAreCurrent
    <3>2. CASE ~(p > size)
      <4>1. p \in DOMAIN m.resolutions
        BY <1>1, <3>2, MemoTypes
      <4> DEFINE old == m.resolutions[p].row
                 new == l.resolutions[p].row
      <4>2. /\ old \in Nat /\ new \in Nat /\ new >= old /\ read.since \in Nat
            /\ old >= read.since \/ outage >= 0
        <5>1. old \in Nat /\ new \in Nat /\ read.since \in Nat
          BY <1>1, <4>1, MemoTypes DEF ReadState
        <5>2. new >= old
          BY <4>1
        <5>3. old >= read.since \/ outage >= 0
          BY <2>1, <2>4, <4>1 DEF HealsFrom
        <5> QED
          BY <5>1, <5>2, <5>3
      <4> HIDE DEF old, new
      <4>3. new >= read.since \/ outage >= 0
        BY <4>2
      <4> QED
        BY <4>3 DEF new
    <3> QED
      BY <3>1, <3>2
  <2>5. q >= b
    <3>1. l.held # 0
      BY MemoTypes
    <3>2. \/ q > size
          \/ m.held # 0 /\ q = m.snapshots[m.held].resolution
          \/ m.kept # 0 /\ q = m.kept
      BY <3>1 DEF Grows, HoldsStay
    <3> HIDE DEF q, size
    <3> QED
      BY <1>1, <2>1, <2>2, <3>2 DEF HealsFrom
  <2>6. RaceBound(b, read, l, outage)
    BY <2>3, <2>4, <2>5 DEF RaceBound
  <2> QED
    BY <2>6 DEF RaceFine
<1> QED
  BY <1>2, <1>3

(* A read that asks the source, at first or anew.                          *)
LEMMA ResolvesStays ==
  ASSUME IInv, UNCHANGED <<now, world, spent>>, Silent, NEW t \in Tasks,
         NEW m, SourceFine(m, outage), NEW read \in ReadState, read.since \in 1..Len(rows),
         read.healed => \E b \in Nat : HealsFrom(b, m, read), Resolves(t, m, read)
  PROVE  IInv'
<1> DEFINE l == liveSnapshot(m)
           n == memo'
           q == l.snapshots[l.held].resolution
           x == [Looking(read) EXCEPT !.pc = "reading", !.snap = l.held, !.on = l.held,
                                      !.epoch = epoch, !.seen = TRUE]
<1>1. /\ WorldIsTyped /\ ReadsAreTyped /\ WorldFine /\ outage \in Int /\ epoch \in Nat
  BY Facts
<1>2. /\ SourceFine(l, outage) /\ l.held \in DOMAIN l.snapshots /\ ~expired(l, q)
      /\ l.kept \in {0, q} /\ Grows(m, l, Len(rows)) /\ l \in Memo /\ l.held \in Nat
      /\ \A p \in DOMAIN m.resolutions : l.resolutions[p].row >= m.resolutions[p].row
  <2>1. /\ SourceFine(l, outage) /\ l.held \in DOMAIN l.snapshots /\ ~expired(l, q)
        /\ l.kept \in {0, q} /\ Grows(m, l, Len(rows))
        /\ \A p \in DOMAIN m.resolutions : l.resolutions[p].row >= m.resolutions[p].row
    BY <1>1, LiveSnapshots
  <2>2. l \in Memo
    BY <2>1 DEF SourceFine
  <2> QED
    BY <2>1, <2>2, MemoTypes
<1> HIDE DEF l
<1>3. SourceFine(n, outage) /\ SameButReaders(l, n)
  <2>1. n = l \/ n = asks(l, l.held)
    BY DEF Resolves, l
  <2>2. SameButReaders(l, l)
    BY DEF SameButReaders
  <2>3. SourceFine(asks(l, l.held), outage) /\ SameButReaders(l, asks(l, l.held))
    BY <1>1, <1>2, Asks DEF SameButReaders
  <2> QED
    BY <1>2, <2>1, <2>2, <2>3
<1>4. task' = [task EXCEPT ![t] = x]
  BY DEF Resolves, l
<1>5. /\ x \in ReadState /\ x.pc = "reading" /\ x.snap = l.held /\ x.on = l.held
      /\ x.healed = read.healed /\ x.since = read.since /\ x.told = told /\ x.outage = outage
      /\ x.oldest \in 1..Len(rows) /\ (outage >= now => x.oldest = 1)
      /\ \A v \in 1..Len(rows) : Fresh(v) => v >= x.oldest
  <2> DEFINE looks == Looking(read)
             held == l.held
  <2>1. /\ looks \in ReadState /\ looks.oldest \in 1..Len(rows) /\ looks.outage = outage
        /\ looks.told = told /\ (outage >= now => looks.oldest = 1)
        /\ \A v \in 1..Len(rows) : Fresh(v) => v >= looks.oldest
        /\ looks.healed = read.healed /\ looks.since = read.since
    BY LookingIs
  <2>2. x = [looks EXCEPT !.pc = "reading", !.snap = held, !.on = held,
                          !.epoch = epoch, !.seen = TRUE]
    OBVIOUS
  <2>3. held \in Nat
    BY <1>2
  <2> HIDE DEF x, looks, held
  <2>4. /\ x \in ReadState /\ x.pc = "reading" /\ x.snap = held /\ x.on = held
        /\ x.healed = looks.healed /\ x.since = looks.since /\ x.told = looks.told
        /\ x.outage = looks.outage /\ x.oldest = looks.oldest
    BY <1>1, <2>1, <2>2, <2>3 DEF ReadState
  <2> QED
    BY <2>1, <2>4 DEF held
<1> HIDE DEF x
<1>6. n \in Memo /\ n.held \in DOMAIN n.snapshots /\ n.snapshots[n.held].resolution = q
      /\ AimedAt(x, n) = q /\ AimedAt(x, l) = q /\ ~expired(n, q)
  BY <1>2, <1>3, <1>5 DEF SameButReaders, AimedAt, Aim, expired, SourceFine
<1>7. LooksFine(x, n, rows, now, outage) /\ HeedsFine(x, n)
  BY <1>3, <1>5, <1>6, LooksAtHeld
<1>8. FollowsFine(x, n)
  BY <1>2, <1>3, <1>5 DEF FollowsFine, Aim, SameButReaders
<1>9. RaceFine(x, n, outage)
  <2>1. x.pc = "reading" /\ x.healed => \E b \in Nat : HealsFrom(b, m, x)
    BY <1>5 DEF HealsFrom
  <2>2. RaceFine(x, l, outage)
    BY <1>2, <1>5, <1>6, <2>1, RacesFromHeld
  <2>3. PICK b \in Nat : RaceBound(b, x, l, outage)
    BY <2>2 DEF RaceFine
  <2>4. RaceBound(b, x, n, outage)
    BY <1>2, <1>3, <1>6, <2>3 DEF RaceBound, SameButReaders
  <2> QED
    BY <2>4 DEF RaceFine
<1>10. ReadFine(x, n, rows, now, outage)
  BY <1>7, <1>8, <1>9 DEF ReadFine
<1> HIDE DEF n
<1>11. SourceFine(memo', outage) /\ ReadFine(x, memo', rows, now, outage)
  BY <1>3, <1>10 DEF n
<1> QED
  BY <1>4, <1>5, <1>11, ReadSteps, SilenceIsFine

(* A read that begins goes by a snapshot the source has or begins.         *)
LEMMA BeginStays ==
  ASSUME IInv, NEW t \in Tasks, NEW kind \in Kinds[t], Begin(t, kind)
  PROVE  IInv'
<1> DEFINE left == IF kind = "stream" THEN 2 ELSE 1
           last == Len(rows)
           x == [Idle EXCEPT !.kind = kind, !.since = last, !.left = left]
<1>1. kind \in {"count", "chunk", "stream"} /\ left \in Int /\ last \in Nat \ {0}
  BY ReaderAssumption, Facts
<1>2. Idle \in ReadState /\ ~Idle.healed
  BY DEF Idle, ReadState
<1>3. Resolves(t, memo, x) /\ UNCHANGED <<now, world, spent>> /\ Silent
  BY DEF Begin
<1>4. x \in ReadState /\ x.since = last /\ ~x.healed
  <2> DEFINE i == Idle
  <2>1. x = [i EXCEPT !.kind = kind, !.since = last, !.left = left] /\ i \in ReadState /\ ~i.healed
    BY <1>2
  <2> HIDE DEF left, last, i, x
  <2> QED
    BY <1>1, <2>1 DEF ReadState
<1> HIDE DEF x
<1>5. x.since \in 1..Len(rows)
  BY <1>1, <1>4
<1> QED
  BY <1>3, <1>4, <1>5, Facts, ResolvesStays

(* The row a read goes by, the one its reader has open if it has one, is   *)
(* fresh enough, and no older than the last invalidation before it looked. *)
LEMMA ServesItsRow ==
  ASSUME IInv, NEW t \in Tasks, task[t].pc # "idle"
  PROVE  LET read == task[t]
             q == AimedAt(read, memo)
             v == memo.resolutions[q].row
         IN  /\ read \in ReadState /\ read.since \in 1..Len(rows)
             /\ FollowsFine(read, memo) /\ q \in DOMAIN memo.resolutions
             /\ v \in 1..Len(rows) /\ v >= read.told
             /\ v >= read.oldest \/ outage # read.outage
<1> DEFINE read == task[t]
           q == AimedAt(read, memo)
           v == memo.resolutions[q].row
<1>1. read \in ReadState
  BY Facts DEF ReadsAreTyped
<1>2. /\ FollowsFine(read, memo) /\ LooksFine(read, memo, rows, now, outage)
      /\ HeedsFine(read, memo)
  <2>1. ReadFine(read, memo, rows, now, outage)
    BY Facts DEF SourceFine
  <2> QED
    BY <2>1 DEF ReadFine
<1>3. q \in DOMAIN memo.resolutions
  BY <1>2, Facts DEF FollowsFine, AimedAt, MemoFine, SnapshotFine
<1>4. v \in 1..Len(rows)
  BY <1>3, Facts DEF MemoFine, ResolutionFine
<1>5. v >= read.told
  BY <1>2, <1>3 DEF HeedsFine, Bound
<1>6. read.since \in 1..Len(rows) /\ (v >= read.oldest \/ outage # read.outage)
  BY <1>2 DEF LooksFine
<1> QED
  BY <1>1, <1>2, <1>3, <1>4, <1>5, <1>6

(* Its snapshot's resolution is of that row, and so is its open reader.    *)
LEMMA ReadsItsRow ==
  ASSUME IInv, NEW t \in Tasks, task[t].pc = "reading"
  PROVE  LET read == task[t]
             snap == memo.snapshots[read.on]
             v == memo.resolutions[AimedAt(read, memo)].row
         IN  /\ read.on \in DOMAIN memo.snapshots
             /\ SnapshotFine(memo.snapshots, read.on, memo.resolutions, rows)
             /\ memo.resolutions[snap.resolution].row = v
             /\ snap.reader = "open" =>
                   /\ snap.row = v /\ (rows[v].named => snap.object = rows[v].object)
                   /\ memo.resolutions[AimedAt(read, memo)].state = "found"
<1> DEFINE read == task[t]
           snap == memo.snapshots[read.on]
           v == memo.resolutions[AimedAt(read, memo)].row
<1>1. /\ FollowsFine(read, memo) /\ AimedAt(read, memo) = memo.snapshots[read.snap].resolution
      /\ read.on \in DOMAIN memo.snapshots
  BY ServesItsRow DEF FollowsFine, AimedAt, Aim
<1>2. SnapshotFine(memo.snapshots, read.on, memo.resolutions, rows)
  BY <1>1, Facts DEF MemoFine
<1>3. snap.reader = "open" =>
         /\ snap.row = memo.resolutions[snap.resolution].row
         /\ rows[snap.row].named => snap.object = rows[snap.row].object
         /\ memo.resolutions[snap.resolution].state = "found"
  BY <1>2 DEF SnapshotFine
<1>4. CASE read.snap = read.on
  BY <1>1, <1>2, <1>3, <1>4
<1>5. CASE read.snap # read.on
  <2>1. /\ snap.reader = "open" /\ v = snap.row
        /\ memo.resolutions[AimedAt(read, memo)].state = "found"
    BY <1>1, <1>5 DEF FollowsFine
  <2> QED
    BY <1>1, <1>2, <1>3, <2>1
<1> QED
  BY <1>4, <1>5

(* A read that ends hands out what its row, or the reader of it, says.     *)
LEMMA EndsStays ==
  ASSUME IInv, NEW t \in Tasks, Ends(t), UNCHANGED <<now, world, memo, spent>>,
         AnswersAreFresh', InvalidationIsHeeded', MissIsARace'
  PROVE  IInv'
<1>1. Idle \in ReadState /\ Idle.pc = "idle"
  BY DEF Idle, ReadState
<1>2. memo' = memo /\ task' = [task EXCEPT ![t] = Idle] /\ UNCHANGED <<now, world, spent>>
  BY DEF Ends
<1>3. SourceFine(memo', outage) /\ ReadFine(Idle, memo', rows, now, outage)
  BY <1>1, <1>2, Facts DEF ReadFine
<1> QED
  BY <1>1, <1>2, <1>3, ReadSteps

(* An answer from a row no older than the read was told of, and than it    *)
(* looked at, with the object that row names, is as promised.              *)
LEMMA AnswerIsFine ==
  ASSUME IInv, NEW read, NEW v \in 1..Len(rows), NEW what \in {"object", "none"}, NEW object,
         UNCHANGED <<world, outage>>, Says(read, what, v, object),
         v >= read.told, v >= read.oldest \/ outage # read.outage,
         rows[v].named => object = rows[v].object
  PROVE  AnswersAreFresh' /\ InvalidationIsHeeded' /\ MissIsARace'
<1>1. /\ rows' = rows /\ outage' = outage /\ answer'.what = what /\ answer'.row = v
      /\ answer'.object = object /\ answer'.read = read
  BY DEF Says, world
<1> QED
  BY <1>1 DEF AnswersAreFresh, InvalidationIsHeeded, MissIsARace

(* A read that ends with a fault, or with nothing there, preserves the     *)
(* invariant.                                                              *)
LEMMA FailsStays ==
  ASSUME IInv, NEW t \in Tasks, Fails(t)
  PROVE  IInv'
<1> DEFINE read == task[t]
           snap == memo.snapshots[read.on]
           v == memo.resolutions[AimedAt(read, memo)].row
           came == IF read.kind = "count" THEN snap.target ELSE snap.reader
<1>1. /\ read.pc = "reading" /\ came \in {"failed", "none"} /\ Ends(t)
      /\ UNCHANGED <<now, world, memo, spent>>
  BY DEF Fails
<1>2. /\ memo.resolutions[snap.resolution].row = v
      /\ SnapshotFine(memo.snapshots, read.on, memo.resolutions, rows)
  BY <1>1, ReadsItsRow
<1>3. CASE came = "failed"
  <2>1. answer'.what = "fault"
    BY <1>3 DEF Fails, Says
  <2> QED
    BY <1>1, <2>1, EndsStays DEF AnswersAreFresh, InvalidationIsHeeded, MissIsARace
<1>4. CASE came = "none"
  <2>1. Says(read, "none", v, 0)
    BY <1>2, <1>4 DEF Fails
  <2>2. snap.target = "none"
    BY <1>2, <1>4 DEF SnapshotFine
  <2>3. rows[v].generation < 0
    BY <1>2, <2>2 DEF SnapshotFine
  <2>4. v \in 1..Len(rows) /\ v >= read.told /\ (v >= read.oldest \/ outage # read.outage)
    BY <1>1, ServesItsRow
  <2>5. ~rows[v].named
    BY <2>3, <2>4, Facts DEF WorldFine
  <2>6. UNCHANGED <<world, outage>>
    BY <1>1 DEF spent
  <2> HIDE DEF v
  <2>7. AnswersAreFresh' /\ InvalidationIsHeeded' /\ MissIsARace'
    BY <2>1, <2>4, <2>5, <2>6, AnswerIsFine
  <2> QED
    BY <1>1, <2>7, EndsStays
<1> QED
  BY <1>1, <1>3, <1>4

(* What an open reader hands out.                                          *)
LEMMA ReaderAnswers ==
  ASSUME IInv, NEW t \in Tasks, task[t].pc = "reading",
         memo.snapshots[task[t].on].reader = "open",
         Says(task[t], "object", memo.snapshots[task[t].on].row, memo.snapshots[task[t].on].object),
         Ends(t), UNCHANGED <<now, world, memo, spent>>
  PROVE  IInv'
<1> DEFINE read == task[t]
           snap == memo.snapshots[read.on]
           v == memo.resolutions[AimedAt(read, memo)].row
           object == snap.object
<1>1. snap.row = v /\ (rows[v].named => object = rows[v].object)
  BY ReadsItsRow
<1>2. v \in 1..Len(rows) /\ v >= read.told /\ (v >= read.oldest \/ outage # read.outage)
  BY ServesItsRow
<1>3. Says(read, "object", v, object)
  BY <1>1
<1>4. UNCHANGED <<world, outage>>
  BY DEF spent
<1> HIDE DEF v, object
<1>5. AnswersAreFresh' /\ InvalidationIsHeeded' /\ MissIsARace'
  BY <1>1, <1>2, <1>3, <1>4, AnswerIsFine
<1> QED
  BY <1>5, EndsStays

(* A count answered from the row, or from the reader that is open,         *)
(* preserves the invariant.                                                *)
LEMMA DescribedStays ==
  ASSUME IInv, NEW t \in Tasks, described(t)
  PROVE  IInv'
<1> DEFINE read == task[t]
           snap == memo.snapshots[read.on]
           v == memo.resolutions[AimedAt(read, memo)].row
<1>1. /\ read.pc = "reading" /\ UNCHANGED <<now, world, memo, spent>>
  BY DEF described
<1>2. memo.resolutions[snap.resolution].row = v
  BY <1>1, ReadsItsRow
<1>3. CASE AnswersFromRow(t) /\ Says(read, "object", v, rows[v].object) /\ Ends(t)
  <2>1. v \in 1..Len(rows) /\ v >= read.told /\ (v >= read.oldest \/ outage # read.outage)
    BY <1>1, ServesItsRow
  <2>2. UNCHANGED <<world, outage>>
    BY <1>1 DEF spent
  <2> HIDE DEF v
  <2>3. AnswersAreFresh' /\ InvalidationIsHeeded' /\ MissIsARace'
    BY <1>3, <2>1, <2>2, AnswerIsFine
  <2> QED
    BY <1>1, <1>3, <2>3, EndsStays
<1>4. CASE snap.reader = "open" /\ Says(read, "object", snap.row, snap.object) /\ Ends(t)
  BY <1>1, <1>4, ReaderAnswers
<1> QED
  BY <1>2, <1>3, <1>4 DEF described

(* A chunk served from the reader that is open preserves the invariant.    *)
LEMMA GetChunkStays ==
  ASSUME IInv, NEW t \in Tasks, getChunk(t)
  PROVE  IInv'
  BY ReaderAnswers DEF getChunk, HasReader

(* A count that the row cannot answer asks for a reader, as a chunk does.  *)
LEMMA CountsObjectStays ==
  ASSUME IInv, NEW t \in Tasks, CountsObject(t)
  PROVE  IInv'
<1>1. /\ task[t].pc = "reading" /\ memo' = asks(memo, task[t].on)
      /\ UNCHANGED <<now, world, spent, task>> /\ Silent
  BY DEF CountsObject
<1>2. task[t].on \in DOMAIN memo.snapshots
  BY <1>1, ReadsItsRow
<1>3. SourceFine(memo', outage)
  BY <1>1, <1>2, Facts, Asks
<1>4. outage' = outage /\ told' = told /\ epoch' = epoch /\ UNCHANGED <<now, world, task>>
  BY <1>1 DEF spent
<1> QED
  BY <1>1, <1>3, <1>4, Facts, SourceStepsOn

(* A healed read that misses again goes by a row that was current since it *)
(* began, and is not the current one any more.                             *)
LEMMA MissesMoved ==
  ASSUME IInv, NEW t \in Tasks, Missed(t), task[t].healed
  PROVE  outage < 0 => Len(rows) > task[t].since
<1> DEFINE read == task[t]
           snap == memo.snapshots[read.on]
           q == AimedAt(read, memo)
           v == memo.resolutions[q].row
<1>1. read.pc = "reading"
  BY DEF Missed
<1>2. v \in 1..Len(rows) /\ q \in DOMAIN memo.resolutions /\ read.since \in 1..Len(rows)
  BY <1>1, ServesItsRow
<1>3. outage < 0 => v >= read.since
  <2>1. PICK b \in Nat : RaceBound(b, read, memo, outage)
    BY <1>1, Facts DEF SourceFine, ReadFine, RaceFine
  <2>2. v >= read.since \/ outage >= 0
    BY <1>1, <1>2, <2>1 DEF RaceBound
  <2> QED
    BY <2>2, Facts
<1>4. Len(rows) > v
  <2>1. /\ memo.resolutions[snap.resolution].row = v
        /\ SnapshotFine(memo.snapshots, read.on, memo.resolutions, rows)
    BY <1>1, ReadsItsRow
  <2>2. CASE snap.reader = "missing"
    BY <2>1, <2>2 DEF SnapshotFine
  <2>3. CASE snap.reader = "open" /\ files[rows[snap.row].generation] # snap.object
    <3>1. snap.row = v /\ rows[v].generation >= 0 /\ (snap.object = rows[v].object \/ Len(rows) > v)
      BY <2>1, <2>3 DEF SnapshotFine
    <3>2. CASE v = Len(rows)
      <4>1. files[rows[v].generation] = rows[v].object
        BY <3>1, <3>2, Facts DEF WorldFine, Current
      <4> QED
        BY <2>3, <3>1, <4>1
    <3>3. CASE v # Len(rows)
      <4>1. v \in 1..Len(rows) /\ Len(rows) \in Nat
        BY <1>2, Facts
      <4> HIDE DEF v
      <4> QED
        BY <3>3, <4>1
    <3> QED
      BY <3>2, <3>3
  <2> QED
    BY <2>2, <2>3 DEF Missed
<1> HIDE DEF v
<1> QED
  BY <1>2, <1>3, <1>4, Facts

(* A read whose object is missing starts over once, and then says that it  *)
(* is missing: the row had moved under it.                                 *)
LEMMA HealStays ==
  ASSUME IInv, NEW t \in Tasks, Heal(t)
  PROVE  IInv'
<1> DEFINE read == task[t]
<1>1. Missed(t) /\ UNCHANGED <<now, world, spent>> /\ read.pc = "reading"
  BY DEF Heal, Missed
<1>2. CASE read.healed
  <2>1. Says(read, "missing", 0, 0) /\ Ends(t) /\ memo' = memo
    BY <1>2 DEF Heal
  <2>2. outage < 0 => Len(rows) > read.since
    BY <1>1, <1>2, MissesMoved
  <2>3. AnswersAreFresh' /\ InvalidationIsHeeded' /\ MissIsARace'
    BY <1>1, <2>1, <2>2
    DEF Says, spent, world, AnswersAreFresh, InvalidationIsHeeded, MissIsARace
  <2> QED
    BY <1>1, <2>1, <2>3, EndsStays
<1>3. CASE ~read.healed
  <2> DEFINE m == dropStale(memo, read.snap)
             x == [read EXCEPT !.healed = TRUE]
  <2>1. Resolves(t, m, x) /\ Silent
    BY <1>3 DEF Heal
  <2>2. /\ read \in ReadState /\ read.since \in 1..Len(rows) /\ read.snap \in DOMAIN memo.snapshots
        /\ AimedAt(read, memo) = memo.snapshots[read.snap].resolution
    BY <1>1, ServesItsRow DEF FollowsFine, AimedAt, Aim
  <2>3. x \in ReadState /\ x.since = read.since
    BY <2>2 DEF ReadState
  <2>4. /\ SourceFine(m, outage) /\ Forgets(memo, m)
        /\ m.held # 0 => m.snapshots[m.held].resolution # AimedAt(read, memo)
        /\ m.kept # AimedAt(read, memo) \/ m.kept = 0
    BY <2>2, Facts, DropsStale
  <2>5. PICK b \in Nat : RaceBound(b, read, memo, outage)
    BY <1>1, Facts DEF SourceFine, ReadFine, RaceFine
  <2> HIDE DEF m, x
  <2>6. HealsFrom(b, m, x)
    BY <2>3, <2>4, <2>5 DEF RaceBound, HealsFrom, Forgets
  <2> QED
    BY <1>1, <2>1, <2>2, <2>3, <2>4, <2>6, ResolvesStays
<1> QED
  BY <1>2, <1>3

(* A chunk of a stream is handed out, and what is left is read from there, *)
(* by what y knows: read as it goes on.                                    *)
LEMMA YieldsOnStays ==
  ASSUME IInv, UNCHANGED <<now, world, spent>>, NEW t \in Tasks,
         SourceFine(memo', outage), NEW read \in ReadState, Yields(t, read),
         NEW y, ReadFine(y, memo', rows, now, outage), y.pc = "reading", ~y.healed,
         y.snap = read.snap, y.on = read.on, y.live = read.live, y.seen = read.seen,
         y.oldest = read.oldest, y.outage = read.outage, y.told = read.told,
         y.since = read.since,
         NEW v \in 1..Len(rows), v = memo.snapshots[read.on].row,
         v >= read.told, v >= read.oldest \/ outage # read.outage,
         rows[v].named => memo.snapshots[read.on].object = rows[v].object
  PROVE  IInv'
<1> DEFINE after == [read EXCEPT !.pc = "reading", !.left = @ - 1, !.healed = FALSE]
           object == memo.snapshots[read.on].object
<1>1. /\ after \in ReadState /\ after.pc = "reading" /\ ~after.healed
      /\ after.snap = read.snap /\ after.on = read.on /\ after.live = read.live
      /\ after.seen = read.seen /\ after.oldest = read.oldest /\ after.outage = read.outage
      /\ after.told = read.told /\ after.since = read.since
  <2> DEFINE less == read.left - 1
  <2>1. after = [read EXCEPT !.pc = "reading", !.left = less, !.healed = FALSE] /\ less \in Int
    BY DEF ReadState
  <2> HIDE DEF after, less
  <2> QED
    BY <2>1 DEF ReadState
<1> HIDE DEF after
<1>2. AimedAt(after, memo') = AimedAt(y, memo') /\ Aim(after) = Aim(y)
  BY <1>1 DEF AimedAt, Aim
<1>3. /\ FollowsFine(y, memo') /\ LooksFine(y, memo', rows, now, outage)
      /\ HeedsFine(y, memo') /\ RaceFine(y, memo', outage)
  BY DEF ReadFine
<1>4. ReadFine(after, memo', rows, now, outage)
  <2>1. FollowsFine(after, memo')
    BY <1>1, <1>2, <1>3 DEF FollowsFine
  <2>2. LooksFine(after, memo', rows, now, outage)
    BY <1>1, <1>2, <1>3 DEF LooksFine
  <2>3. HeedsFine(after, memo')
    BY <1>1, <1>2, <1>3 DEF HeedsFine
  <2>4. RaceFine(after, memo', outage)
    <3>1. PICK b \in Nat : RaceBound(b, y, memo', outage)
      BY <1>3 DEF RaceFine
    <3>2. RaceBound(b, after, memo', outage)
      BY <1>1, <1>2, <3>1 DEF RaceBound
    <3> QED
      BY <3>2 DEF RaceFine
  <2> QED
    BY <2>1, <2>2, <2>3, <2>4 DEF ReadFine
<1>5. AnswersAreFresh' /\ InvalidationIsHeeded' /\ MissIsARace'
  <2>1. Says(read, "object", v, object) /\ UNCHANGED <<world, outage>>
    BY DEF Yields, spent
  <2> HIDE DEF object
  <2>2. rows[v].named => object = rows[v].object
    BY DEF object
  <2> QED
    BY <2>1, <2>2, AnswerIsFine
<1>6. Idle \in ReadState /\ ReadFine(Idle, memo', rows, now, outage)
  BY DEF Idle, ReadState, ReadFine
<1>7. CASE read.left = 1
  <2>1. task' = [task EXCEPT ![t] = Idle]
    BY <1>7 DEF Yields
  <2> QED
    BY <1>5, <1>6, <2>1, ReadSteps
<1>8. CASE read.left # 1
  <2>1. task' = [task EXCEPT ![t] = after]
    BY <1>8 DEF Yields, after
  <2> QED
    BY <1>1, <1>4, <1>5, <2>1, ReadSteps
<1> QED
  BY <1>7, <1>8

(* A stream that has not moved on goes on reading as it was.               *)
LEMMA YieldsStays ==
  ASSUME IInv, UNCHANGED <<now, world, spent>>, NEW t \in Tasks,
         SourceFine(memo', outage), NEW read \in ReadState, Yields(t, read),
         FollowsFine(read, memo'), LooksFine(read, memo', rows, now, outage),
         HeedsFine(read, memo'), read.pc = "reading",
         NEW v \in 1..Len(rows), v = memo.snapshots[read.on].row,
         v >= read.told, v >= read.oldest \/ outage # read.outage,
         rows[v].named => memo.snapshots[read.on].object = rows[v].object,
         RaceFine([read EXCEPT !.healed = FALSE], memo', outage)
  PROVE  IInv'
<1> DEFINE y == [read EXCEPT !.healed = FALSE]
<1>1. /\ y.pc = "reading" /\ ~y.healed /\ y.snap = read.snap /\ y.on = read.on
      /\ y.live = read.live /\ y.seen = read.seen /\ y.since = read.since
      /\ y.oldest = read.oldest /\ y.outage = read.outage /\ y.told = read.told
  BY DEF ReadState
<1>2. RaceFine(y, memo', outage)
  OBVIOUS
<1> HIDE DEF y
<1>3. AimedAt(y, memo') = AimedAt(read, memo') /\ Aim(y) = Aim(read)
  BY <1>1 DEF AimedAt, Aim
<1>4. FollowsFine(y, memo')
  BY <1>1, <1>3 DEF FollowsFine
<1>5. LooksFine(y, memo', rows, now, outage)
  BY <1>1, <1>3 DEF LooksFine
<1>6. HeedsFine(y, memo')
  BY <1>1, <1>3 DEF HeedsFine
<1>7. ReadFine(y, memo', rows, now, outage)
  BY <1>2, <1>4, <1>5, <1>6 DEF ReadFine
<1> QED
  BY <1>1, <1>7, YieldsOnStays

(* A stream that looks again keeps its place.                              *)
LEMMA LooksAgain ==
  ASSUME IInv, NEW t \in Tasks, task[t].pc = "reading",
         memo.snapshots[task[t].on].reader = "open"
  PROVE  LET old == task[t]
             read == Looking(old)
             v == memo.resolutions[AimedAt(old, memo)].row
         IN  /\ old \in ReadState /\ read \in ReadState /\ read.pc = "reading"
             /\ read.snap = old.snap /\ read.on = old.on /\ read.live = old.live
             /\ read.seen = old.seen /\ read.since \in 1..Len(rows)
             /\ read.oldest \in 1..Len(rows) /\ read.outage = outage /\ read.told = told
             /\ outage >= now => read.oldest = 1
             /\ \A w \in 1..Len(rows) : Fresh(w) => w >= read.oldest
             /\ FollowsFine(old, memo) /\ FollowsFine(read, memo)
             /\ AimedAt(read, memo) = AimedAt(old, memo)
             /\ AimedAt(read, memo) = memo.snapshots[read.snap].resolution
             /\ AimedAt(read, memo) \in DOMAIN memo.resolutions
             /\ memo.resolutions[AimedAt(read, memo)].state = "found"
             /\ v \in 1..Len(rows) /\ v = memo.snapshots[read.on].row
             /\ rows[v].named => memo.snapshots[read.on].object = rows[v].object
<1> DEFINE old == task[t]
           read == Looking(old)
           v == memo.resolutions[AimedAt(old, memo)].row
<1>1. /\ old \in ReadState /\ FollowsFine(old, memo) /\ v \in 1..Len(rows)
      /\ old.since \in 1..Len(rows) /\ AimedAt(old, memo) \in DOMAIN memo.resolutions
  BY ServesItsRow
<1>2. /\ read \in ReadState /\ read.pc = "reading"
      /\ read.snap = old.snap /\ read.on = old.on /\ read.live = old.live
      /\ read.seen = old.seen /\ read.since = old.since
      /\ read.oldest \in 1..Len(rows) /\ read.outage = outage /\ read.told = told
      /\ (outage >= now => read.oldest = 1)
      /\ \A w \in 1..Len(rows) : Fresh(w) => w >= read.oldest
  BY <1>1, LookingIs
<1>3. /\ v = memo.snapshots[old.on].row
      /\ rows[v].named => memo.snapshots[old.on].object = rows[v].object
      /\ memo.resolutions[AimedAt(old, memo)].state = "found"
  BY ReadsItsRow
<1> HIDE DEF read
<1>4. FollowsFine(read, memo) /\ AimedAt(read, memo) = AimedAt(old, memo)
      /\ AimedAt(read, memo) = memo.snapshots[read.snap].resolution
  BY <1>1, <1>2 DEF FollowsFine, AimedAt, Aim
<1> HIDE DEF v
<1>5. v \in 1..Len(rows) /\ v = memo.snapshots[read.on].row
      /\ (rows[v].named => memo.snapshots[read.on].object = rows[v].object)
  BY <1>1, <1>2, <1>3
<1> QED
  BY <1>1, <1>2, <1>3, <1>4, <1>5 DEF v, read

(* It goes on in the snapshot the source still has, ...                    *)
LEMMA GoesOnStays ==
  ASSUME IInv, NEW t \in Tasks, UNCHANGED <<now, world, spent>>, task[t].pc = "reading",
         memo.snapshots[task[t].on].reader = "open",
         memo' = liveSnapshot(memo), liveSnapshot(memo).held = task[t].snap,
         Yields(t, [Looking(task[t]) EXCEPT !.epoch = epoch])
  PROVE  IInv'
<1> DEFINE l == liveSnapshot(memo)
           read == Looking(task[t])
           x == [read EXCEPT !.epoch = epoch]
           calm == [x EXCEPT !.healed = FALSE]
           q == AimedAt(read, memo)
           v == memo.resolutions[AimedAt(task[t], memo)].row
<1>1. /\ read \in ReadState /\ read.pc = "reading" /\ read.snap = task[t].snap
      /\ read.since \in 1..Len(rows) /\ read.oldest \in 1..Len(rows)
      /\ read.outage = outage /\ read.told = told /\ (outage >= now => read.oldest = 1)
      /\ \A w \in 1..Len(rows) : Fresh(w) => w >= read.oldest
      /\ FollowsFine(read, memo) /\ q = memo.snapshots[read.snap].resolution
      /\ q \in DOMAIN memo.resolutions /\ memo.resolutions[q].state = "found"
      /\ v \in 1..Len(rows) /\ v = memo.snapshots[read.on].row /\ v = memo.resolutions[q].row
      /\ rows[v].named => memo.snapshots[read.on].object = rows[v].object
  BY LooksAgain
<1>2. /\ SourceFine(l, outage) /\ l.held \in DOMAIN l.snapshots
      /\ ~expired(l, l.snapshots[l.held].resolution)
      /\ l.kept \in {0, l.snapshots[l.held].resolution} /\ Grows(memo, l, Len(rows))
      /\ \A p \in DOMAIN memo.resolutions : l.resolutions[p].row >= memo.resolutions[p].row
  BY Facts, LiveSnapshots
<1>3. l \in Memo
  BY <1>2 DEF SourceFine
<1>4. memo' = l /\ l.held = read.snap /\ Yields(t, x)
  BY <1>1
<1> HIDE DEF l, read
<1>5. /\ x \in ReadState /\ x.pc = read.pc /\ x.snap = read.snap /\ x.on = read.on
      /\ x.live = read.live /\ x.seen = read.seen /\ x.since = read.since
      /\ x.oldest = read.oldest /\ x.outage = read.outage /\ x.told = read.told
  BY <1>1, Facts DEF ReadState
<1> HIDE DEF x
<1>6. /\ calm \in ReadState /\ calm.healed = FALSE /\ calm.pc = "reading"
      /\ calm.snap = read.snap /\ calm.since = read.since
  BY <1>1, <1>5 DEF ReadState
<1> HIDE DEF calm
<1>7. FollowsFine(read, l) /\ AimedAt(read, l) = q
  BY <1>1, <1>2, <1>3, Facts, FollowsStay
<1>8. /\ FollowsFine(x, l) /\ AimedAt(x, l) = q /\ AimedAt(calm, l) = q
      /\ q = l.snapshots[l.held].resolution
  BY <1>1, <1>4, <1>5, <1>6, <1>7 DEF FollowsFine, AimedAt, Aim
<1>9. LooksFine(x, l, rows, now, outage) /\ HeedsFine(x, l)
  BY <1>1, <1>2, <1>5, <1>8, LooksAtHeld
<1>10. RaceFine(calm, l, outage)
  BY <1>1, <1>2, <1>3, <1>6, <1>8, Facts, RacesFromHeld
<1>11. l.resolutions[q].row = v
  BY <1>1, <1>2 DEF Grows, ResolutionsStay
<1>12. v >= x.told /\ v >= x.oldest
  <2>1. q \in DOMAIN l.resolutions
    BY <1>2, <1>8 DEF SourceFine, MemoFine, SnapshotFine
  <2>2. v >= x.told
    BY <1>8, <1>9, <1>11, <2>1 DEF HeedsFine, Bound
  <2>3. v >= x.oldest
    BY <1>1, <1>5, <1>8, <1>9, <1>11 DEF LooksFine
  <2> QED
    BY <2>2, <2>3
<1> HIDE DEF v
<1>13. RaceFine([x EXCEPT !.healed = FALSE], memo', outage)
  BY <1>4, <1>10 DEF calm
<1>14. /\ v = memo.snapshots[x.on].row /\ x.pc = "reading"
       /\ rows[v].named => memo.snapshots[x.on].object = rows[v].object
  BY <1>1, <1>5
<1> QED
  BY <1>1, <1>2, <1>4, <1>5, <1>8, <1>9, <1>12, <1>13, <1>14, YieldsStays

(* ... or there is no sign that it may have moved on, ...                  *)
LEMMA StaysOnStays ==
  ASSUME IInv, NEW t \in Tasks, UNCHANGED <<now, world, spent>>, task[t].pc = "reading",
         memo.snapshots[task[t].on].reader = "open",
         memo' = memo, ~mayHaveMoved(t), Yields(t, Looking(task[t]))
  PROVE  IInv'
<1> DEFINE read == Looking(task[t])
           calm == [read EXCEPT !.healed = FALSE]
           q == AimedAt(read, memo)
           v == memo.resolutions[AimedAt(task[t], memo)].row
<1>1. /\ read \in ReadState /\ read.pc = "reading" /\ read.snap = task[t].snap
      /\ read.since \in 1..Len(rows) /\ read.oldest \in 1..Len(rows)
      /\ read.outage = outage /\ read.told = told /\ (outage >= now => read.oldest = 1)
      /\ \A w \in 1..Len(rows) : Fresh(w) => w >= read.oldest
      /\ FollowsFine(read, memo) /\ q = memo.snapshots[read.snap].resolution
      /\ q \in DOMAIN memo.resolutions
      /\ v \in 1..Len(rows) /\ v = memo.snapshots[read.on].row /\ v = memo.resolutions[q].row
      /\ rows[v].named => memo.snapshots[read.on].object = rows[v].object
  BY LooksAgain
<1>2. ~expired(memo, q) /\ memo.kept = q
  BY <1>1 DEF mayHaveMoved
<1> HIDE DEF read
<1>3. q # 0 /\ memo.kept # 0
  <2>1. memo.resolutions \in Seq(Resolution) /\ q \in DOMAIN memo.resolutions
    BY <1>1, Facts, MemoTypes
  <2> HIDE DEF q
  <2>2. q # 0
    BY <2>1
  <2> QED
    BY <1>2, <2>2
<1>4. v >= read.oldest
  BY <1>1, <1>2, Facts, UnexpiredIsFresh
<1>5. LooksFine(read, memo, rows, now, outage)
  <2>1. read.outage <= outage /\ read.told \in 1..Len(rows)
    <3>1. outage \in Int /\ told \in 1..Len(rows)
      BY Facts
    <3>2. outage <= outage
      BY <3>1
    <3> QED
      BY <1>1, <3>1, <3>2
  <2>2. read.outage >= now => read.oldest = 1
    BY <1>1
  <2>3. memo.resolutions[q].row >= read.oldest
    BY <1>1, <1>4
  <2> HIDE DEF v
  <2> QED
    BY <1>1, <2>1, <2>2, <2>3 DEF LooksFine
<1>6. HeedsFine(read, memo) /\ v >= read.told
  <2>1. PICK b \in Nat : Bound(b, told, memo)
    BY Facts DEF SourceFine
  <2>2. q >= b
    BY <1>2, <1>3, <2>1 DEF Bound
  <2>3. memo.resolutions[q].row >= told
    BY <1>1, <2>1, <2>2 DEF Bound
  <2>4. HeedsFine(read, memo)
    BY <1>1, <2>1, <2>2 DEF HeedsFine
  <2> QED
    BY <1>1, <2>3, <2>4
<1>7. RaceFine(calm, memo, outage)
  <2> DEFINE b == Len(memo.resolutions) + 1
  <2>1. /\ calm.healed = FALSE /\ calm.pc = "reading" /\ calm.snap = read.snap
    BY <1>1 DEF ReadState
  <2>2. AimedAt(calm, memo) = q
    BY <1>1, <2>1 DEF AimedAt, Aim
  <2>3. b \in Nat /\ \A p \in DOMAIN memo.resolutions : ~(p >= b)
    BY Facts, MemoTypes
  <2>4. memo.held # 0 => memo.snapshots[memo.held].resolution = q
    BY <1>2, <1>3, Facts DEF HoldsFine
  <2> HIDE DEF calm
  <2>5. RaceBound(b, calm, memo, outage)
    BY <1>2, <2>1, <2>2, <2>3, <2>4 DEF RaceBound
  <2> HIDE DEF b
  <2> QED
    BY <2>3, <2>5 DEF RaceFine
<1> HIDE DEF v
<1>8. RaceFine([read EXCEPT !.healed = FALSE], memo', outage)
  BY <1>7
<1>9. Yields(t, read) /\ SourceFine(memo', outage)
  BY Facts DEF read
<1> QED
  BY <1>1, <1>4, <1>5, <1>6, <1>8, <1>9, YieldsStays

(* ... or it waits for what the new snapshot resolves to.                  *)
LEMMA ComparesStays ==
  ASSUME IInv, NEW t \in Tasks, UNCHANGED <<now, world, spent>>, task[t].pc = "reading",
         memo.snapshots[task[t].on].reader = "open", Silent, memo' = liveSnapshot(memo),
         LET l == liveSnapshot(memo)
         IN  task' = [task EXCEPT ![t] = [Looking(task[t]) EXCEPT !.pc = "comparing",
                        !.live = l.held, !.seen = HasSettled(l.snapshots[l.held])]]
  PROVE  IInv'
<1> DEFINE l == liveSnapshot(memo)
           read == Looking(task[t])
           held == l.held
           seen == HasSettled(l.snapshots[held])
           x == [read EXCEPT !.pc = "comparing", !.live = held, !.seen = seen]
<1>1. /\ read \in ReadState /\ read.since \in 1..Len(rows) /\ read.oldest \in 1..Len(rows)
      /\ read.pc = "reading" /\ read.on = task[t].on
      /\ read.outage = outage /\ read.told = told /\ (outage >= now => read.oldest = 1)
      /\ \A w \in 1..Len(rows) : Fresh(w) => w >= read.oldest
      /\ FollowsFine(read, memo)
  BY LooksAgain
<1>2. /\ SourceFine(l, outage) /\ held \in DOMAIN l.snapshots
      /\ ~expired(l, l.snapshots[held].resolution)
      /\ l.kept \in {0, l.snapshots[held].resolution} /\ Grows(memo, l, Len(rows))
      /\ \A p \in DOMAIN memo.resolutions : l.resolutions[p].row >= memo.resolutions[p].row
  BY Facts, LiveSnapshots
<1>3. l \in Memo /\ held \in Nat /\ seen \in BOOLEAN
  BY <1>2, MemoTypes DEF SourceFine, HasSettled
<1>4. memo' = l /\ task' = [task EXCEPT ![t] = x]
  OBVIOUS
<1>5. seen => l.snapshots[held].reader \in {"open", "none"}
  BY DEF HasSettled
<1> HIDE DEF l, read, seen
<1>6. /\ x \in ReadState /\ x.pc = "comparing" /\ x.snap = read.snap /\ x.on = read.on
      /\ x.live = held /\ x.seen = seen /\ x.since = read.since
      /\ x.oldest = read.oldest /\ x.outage = read.outage /\ x.told = read.told
  <2> HIDE DEF held
  <2> QED
    BY <1>1, <1>3 DEF ReadState
<1> HIDE DEF x
<1>7. FollowsFine(read, l)
  BY <1>1, <1>2, <1>3, Facts, FollowsStay
<1>8. l.snapshots[read.on].reader = "open"
  BY <1>1, <1>2 DEF FollowsFine, Grows, ReadersStay
<1>9. FollowsFine(x, l) /\ AimedAt(x, l) = l.snapshots[l.held].resolution
  BY <1>1, <1>2, <1>5, <1>6, <1>7, <1>8 DEF FollowsFine, AimedAt, Aim
<1>10. LooksFine(x, l, rows, now, outage) /\ HeedsFine(x, l)
  BY <1>1, <1>2, <1>6, <1>9, LooksAtHeld
<1>11. RaceFine(x, l, outage)
  BY <1>1, <1>2, <1>3, <1>6, <1>9, Facts, RacesFromHeld
<1>12. SourceFine(memo', outage) /\ ReadFine(x, memo', rows, now, outage)
  BY <1>2, <1>4, <1>9, <1>10, <1>11 DEF ReadFine
<1> QED
  BY <1>4, <1>6, <1>12, ReadSteps, SilenceIsFine

(* A stream that hands out a chunk, or looks whether the row moved,        *)
(* preserves the invariant.                                                *)
LEMMA HandOutStays ==
  ASSUME IInv, NEW t \in Tasks, HandOut(t)
  PROVE  IInv'
<1>1. /\ task[t].pc = "reading" /\ memo.snapshots[task[t].on].reader = "open"
      /\ UNCHANGED <<now, world, spent>>
  BY DEF HandOut, HasReader
<1> DEFINE read == Looking(task[t])
           l == liveSnapshot(memo)
<1>2. \/ /\ memo' = l /\ l.held = read.snap /\ Yields(t, [read EXCEPT !.epoch = epoch])
      \/ /\ memo' = l /\ Silent
         /\ task' = [task EXCEPT ![t] = [read EXCEPT !.pc = "comparing",
                        !.live = l.held, !.seen = HasSettled(l.snapshots[l.held])]]
      \/ memo' = memo /\ ~mayHaveMoved(t) /\ Yields(t, read)
  BY DEF HandOut
<1>3. read.snap = task[t].snap
  BY <1>1, LooksAgain
<1> QED
  BY <1>1, <1>2, <1>3, GoesOnStays, ComparesStays, StaysOnStays

(* The snapshot a stream compares with, once it has moved on to it.        *)
LEMMA CompareStays ==
  ASSUME IInv, NEW t \in Tasks, Compare(t)
  PROVE  IInv'
<1> DEFINE read == task[t]
           other == memo.snapshots[read.live]
           reader == memo.snapshots[read.on]
           q == AimedAt(read, memo)
           v == memo.resolutions[q].row
<1>1. /\ read.pc = "comparing" /\ UNCHANGED <<now, world, spent>>
  BY DEF Compare
<1>2. /\ read \in ReadState /\ read.since \in 1..Len(rows)
      /\ FollowsFine(read, memo) /\ q \in DOMAIN memo.resolutions
      /\ v \in 1..Len(rows) /\ v >= read.told /\ (v >= read.oldest \/ outage # read.outage)
  BY <1>1, ServesItsRow
<1>3. ReadFine(read, memo, rows, now, outage)
  BY Facts DEF SourceFine
<1>4. LooksFine(read, memo, rows, now, outage) /\ HeedsFine(read, memo)
      /\ RaceFine(read, memo, outage)
  BY <1>1, <1>3 DEF ReadFine
<1>5. CASE readsObjectOf(read)
  <2> DEFINE x == [read EXCEPT !.snap = read.live, !.epoch = epoch]
  <2>1. Yields(t, x) /\ memo' = memo
    BY <1>5 DEF Compare
  <2>2. /\ read.live \in DOMAIN memo.snapshots /\ read.on \in DOMAIN memo.snapshots
        /\ q = other.resolution /\ reader.reader = "open"
        /\ read.seen => other.reader \in {"open", "none"}
    BY <1>1, <1>2 DEF FollowsFine, AimedAt, Aim
  <2>3. /\ SnapshotFine(memo.snapshots, read.live, memo.resolutions, rows)
        /\ SnapshotFine(memo.snapshots, read.on, memo.resolutions, rows)
    BY <2>2, Facts DEF MemoFine
  <2>4. /\ reader.row = memo.resolutions[reader.resolution].row
        /\ reader.resolution \in DOMAIN memo.resolutions
        /\ rows[reader.row].named => reader.object = rows[reader.row].object
    BY <2>2, <2>3 DEF SnapshotFine
  <2>5. reader.row \in 1..Len(rows)
    BY <2>4, Facts DEF MemoFine, ResolutionFine
  <2>6. v = reader.row /\ memo.resolutions[q].state = "found"
    <3>1. CASE read.seen
      <4>1. other.row = reader.row
        BY <1>5, <3>1 DEF readsObjectOf
      <4>2. other.reader = "open"
        <5>1. other.row # 0
          BY <2>5, <4>1
        <5>2. other.reader # "open" => other.row = 0
          BY <2>3 DEF SnapshotFine
        <5> QED
          BY <5>1, <5>2
      <4>3. other.row = memo.resolutions[other.resolution].row
            /\ memo.resolutions[other.resolution].state = "found"
        BY <2>3, <4>2 DEF SnapshotFine
      <4> QED
        BY <2>2, <4>1, <4>3
    <3>2. CASE ~read.seen
      <4>1. other.target = "live" /\ memo.resolutions[other.resolution].row = reader.row
        BY <1>5, <3>2 DEF readsObjectOf
      <4>2. memo.resolutions[other.resolution].state = "found"
        BY <2>3, <4>1 DEF SnapshotFine
      <4> QED
        BY <2>2, <4>1, <4>2
    <3> QED
      BY <3>1, <3>2
  <2>7. x \in ReadState /\ x.since = read.since /\ x.on = read.on
        /\ x.oldest = read.oldest /\ x.outage = read.outage /\ x.told = read.told
        /\ x.snap = read.live /\ x.live = read.live /\ x.seen = read.seen
    <3> DEFINE live == read.live
    <3>1. x = [read EXCEPT !.snap = live, !.epoch = epoch] /\ live \in Nat /\ epoch \in Nat
      BY <1>2, Facts DEF ReadState
    <3> HIDE DEF live, x, read
    <3>2. /\ x \in ReadState /\ x.snap = live /\ x.on = read.on
          /\ x.live = read.live /\ x.seen = read.seen /\ x.since = read.since
          /\ x.oldest = read.oldest /\ x.outage = read.outage /\ x.told = read.told
      BY <1>2, <3>1 DEF ReadState
    <3> QED
      BY <3>2 DEF live
  <2> HIDE DEF x
  <2> DEFINE y == [x EXCEPT !.pc = "reading", !.healed = FALSE]
  <2>8. /\ y.pc = "reading" /\ ~y.healed /\ y.snap = x.snap /\ y.on = x.on
        /\ y.live = x.live /\ y.seen = x.seen /\ y.since = x.since
        /\ y.oldest = x.oldest /\ y.outage = x.outage /\ y.told = x.told
    BY <2>7 DEF ReadState
  <2> HIDE DEF y
  <2>9. AimedAt(y, memo) = q /\ Aim(y) = read.live /\ q = memo.snapshots[read.live].resolution
    BY <2>2, <2>7, <2>8 DEF AimedAt, Aim
  <2>10. ReadFine(y, memo', rows, now, outage)
    <3>1. FollowsFine(y, memo)
      BY <2>2, <2>6, <2>7, <2>8, <2>9 DEF FollowsFine
    <3>2. LooksFine(y, memo, rows, now, outage)
      BY <1>4, <2>7, <2>8, <2>9 DEF LooksFine
    <3>3. HeedsFine(y, memo)
      BY <1>4, <2>7, <2>8, <2>9 DEF HeedsFine
    <3>4. RaceFine(y, memo, outage)
      <4>1. PICK b \in Nat : RaceBound(b, read, memo, outage)
        BY <1>4 DEF RaceFine
      <4>2. RaceBound(b, y, memo, outage)
        BY <2>7, <2>8, <2>9, <4>1 DEF RaceBound
      <4> QED
        BY <4>2 DEF RaceFine
    <3> QED
      BY <2>1, <3>1, <3>2, <3>3, <3>4 DEF ReadFine
  <2>11. SourceFine(memo', outage)
    BY <2>1, Facts
  <2> HIDE DEF v, q
  <2>12. /\ v \in 1..Len(rows) /\ v = memo.snapshots[x.on].row
         /\ v >= x.told /\ (v >= x.oldest \/ outage # x.outage)
         /\ rows[v].named => memo.snapshots[x.on].object = rows[v].object
    BY <1>2, <2>4, <2>6, <2>7
  <2> QED
    BY <1>1, <2>1, <2>7, <2>8, <2>10, <2>11, <2>12, YieldsOnStays
<1>6. CASE ~readsObjectOf(read)
  <2> DEFINE x == [read EXCEPT !.healed = FALSE]
  <2>1. Resolves(t, memo, x) /\ Silent
    BY <1>6 DEF Compare
  <2>2. x \in ReadState /\ x.since = read.since /\ ~x.healed
    BY <1>2 DEF ReadState
  <2> HIDE DEF x
  <2>3. SourceFine(memo, outage)
    BY Facts
  <2> QED
    BY <1>1, <1>2, <2>1, <2>2, <2>3, ResolvesStays
<1> QED
  BY <1>5, <1>6

-----------------------------------------------------------------------------
(* The whole of it.                                                        *)

(* A source that was just made meets the invariant.                        *)
LEMMA InitIsFine ==
  Init => IInv
<1> SUFFICES ASSUME Init
             PROVE  IInv
  OBVIOUS
<1>1. /\ MaxClock \in Nat /\ MaxGen \in Nat /\ TTL \in Nat \ {0}
  BY ReaderAssumption
<1> DEFINE row == [generation |-> 0, object |-> 1, named |-> 1 \notin Unnamed, until |-> Forever]
<1>2. row \in SegmentRow
  BY <1>1 DEF SegmentRow, Forever
<1>3. /\ rows \in Seq(SegmentRow) /\ Len(rows) = 1 /\ DOMAIN rows = 1..1 /\ rows[1] = row
      /\ rows # <<>>
  <2>1. rows = <<row>>
    BY DEF Init
  <2> HIDE DEF row
  <2> QED
    BY <1>2, <2>1
<1>4. WorldIsTyped
  BY <1>1, <1>3 DEF Init, WorldIsTyped
<1>5. ReadsAreTyped
  <2>1. Idle \in ReadState
    BY DEF Idle, ReadState
  <2> QED
    BY <1>1, <1>3, <2>1 DEF Init, ReadsAreTyped
<1>6. WorldFine
  <2>1. files[0] = 1
    BY <1>1 DEF Init
  <2> QED
    BY <1>1, <1>3, <2>1 DEF WorldFine, Current
<1>7. memo \in Memo
  BY DEF Init, Memo
<1>8. /\ memo.resolutions = <<>> /\ memo.snapshots = <<>> /\ memo.held = 0 /\ memo.kept = 0
      /\ told = 1 /\ \A t \in Tasks : task[t].pc = "idle"
  BY DEF Init, Idle
<1>9. MemoFine(memo, rows, now, outage)
  BY <1>8 DEF MemoFine, HoldsFine
<1>10. Bound(0, told, memo)
  BY <1>8 DEF Bound
<1>11. SourceFine(memo, outage)
  BY <1>7, <1>8, <1>9, <1>10 DEF SourceFine, ReadFine
<1>12. AnswersAreFresh /\ InvalidationIsHeeded /\ MissIsARace
  BY DEF Init, Nothing, AnswersAreFresh, InvalidationIsHeeded, MissIsARace
<1> QED
  BY <1>4, <1>5, <1>6, <1>11, <1>12 DEF IInv

(* A stuttering step preserves the invariant.                              *)
LEMMA StutterStays ==
  ASSUME IInv, UNCHANGED vars
  PROVE  IInv'
<1>1. /\ now' = now /\ rows' = rows /\ files' = files /\ puts' = puts /\ memo' = memo
      /\ epoch' = epoch /\ told' = told /\ outage' = outage /\ task' = task /\ answer' = answer
  BY DEF vars, world, spent
<1>2. WorldIsTyped' /\ ReadsAreTyped' /\ WorldFine'
  BY <1>1 DEF IInv, WorldIsTyped, ReadsAreTyped, WorldFine, Current
<1>3. SourceFine(memo, outage)'
  BY <1>1 DEF IInv, SourceFine
<1>4. AnswersAreFresh' /\ InvalidationIsHeeded' /\ MissIsARace'
  BY <1>1 DEF IInv, AnswersAreFresh, InvalidationIsHeeded, MissIsARace
<1> QED
  BY <1>2, <1>3, <1>4 DEF IInv

(* Every step preserves the invariant.                                     *)
LEMMA NextStays ==
  IInv /\ [Next]_vars => IInv'
<1> SUFFICES ASSUME IInv, [Next]_vars
             PROVE  IInv'
  OBVIOUS
<1>1. CASE Read
  <2>1. PICK t \in Tasks :
           \/ \E kind \in Kinds[t] : Begin(t, kind)
           \/ Fails(t) \/ described(t) \/ CountsObject(t) \/ getChunk(t)
           \/ Heal(t) \/ HandOut(t) \/ Compare(t)
    BY <1>1 DEF Read
  <2> QED
    BY <2>1, BeginStays, FailsStays, DescribedStays, CountsObjectStays, GetChunkStays,
       HealStays, HandOutStays, CompareStays
<1>2. CASE Written
  BY <1>2, DropStays, PointsAtStays, CollectStays DEF Written
<1>3. CASE Kept
  BY <1>3, AnsweredStays, FaultedStays, RideOutStays, ReadAgainStays, AdoptStays, OpenStays,
     InvalidateStays, EvictStays DEF Kept
<1>4. CASE Tick
  BY <1>4, TickStays
<1>5. CASE UNCHANGED vars
  BY <1>5, StutterStays
<1> QED
  BY <1>1, <1>2, <1>3, <1>4, <1>5 DEF Next

(* What the source keeps stays fine, whatever is read, written, collected, *)
(* invalidated or evicted in whatever order.                               *)
THEOREM SourceStaysFine == Spec => []IInv
  BY InitIsFine, NextStays, PTL DEF Spec

(* A live read hands out a row of the segment less than a TTL old, or one  *)
(* that an outage of the registry excuses, and never another row's object. *)
THEOREM AnswersAreFreshHolds == Spec => []AnswersAreFresh
<1>1. IInv => AnswersAreFresh
  BY DEF IInv
<1> QED
  BY <1>1, SourceStaysFine, PTL

(* Once invalidate has run, nothing older than the row current then is     *)
(* handed out to a read that looks after it.                               *)
THEOREM InvalidationIsHeededHolds == Spec => []InvalidationIsHeeded
<1>1. IInv => InvalidationIsHeeded
  BY DEF IInv
<1> QED
  BY <1>1, SourceStaysFine, PTL

(* A read ends in a missing object only if the row moved while it read, or *)
(* the registry was out.                                                   *)
THEOREM MissIsARaceHolds == Spec => []MissIsARace
<1>1. IInv => MissIsARace
  BY DEF IInv
<1> QED
  BY <1>1, SourceStaysFine, PTL
=============================================================================
