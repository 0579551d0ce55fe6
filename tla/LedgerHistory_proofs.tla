------------------------ MODULE LedgerHistory_proofs ------------------------
(***************************************************************************)
(* Proofs about the ledger of a row: what its functions keep and in which  *)
(* order, and what that makes of any history of publishes, rollbacks and   *)
(* leases, whatever the bounds a ledger is held to.                        *)
(***************************************************************************)
EXTENDS LedgerHistory, FiniteSetTheorems, SequenceTheorems, WellFoundedInduction, TLAPS

-----------------------------------------------------------------------------
(* Positions, and the entries at them.                                     *)

Rank(I, i) == Cardinality({j \in I : j <= i})

(* Positions have the ranks from 1 up, each one rank, in order.            *)
LEMMA Ranks ==
    ASSUME NEW n \in Nat, NEW I, I \subseteq 1..n
    PROVE  /\ IsFiniteSet(I) /\ Cardinality(I) \in Nat
           /\ \A i \in I : Rank(I, i) \in 1..Cardinality(I)
           /\ \A i, k \in I : i < k => Rank(I, i) < Rank(I, k)
           /\ \A r \in 1..Cardinality(I) : \E i \in I : Rank(I, i) = r
  <1>1. IsFiniteSet(I) /\ Cardinality(I) \in Nat
    <2>1. IsFiniteSet(1..n)
      BY FS_Interval
    <2>2. IsFiniteSet(I)
      BY <2>1, FS_Subset
    <2> QED
      BY <2>2, FS_CardinalityType
  <1>2. ASSUME NEW i \in I
        PROVE  Rank(I, i) \in 1..Cardinality(I)
    <2> DEFINE J == {j \in I : j <= i}
    <2>1. J \in SUBSET I /\ i \in J
      OBVIOUS
    <2>2. IsFiniteSet(J) /\ Cardinality(J) \in Nat /\ Cardinality(J) <= Cardinality(I)
      BY <1>1, <2>1, FS_Subset, FS_CardinalityType
    <2>3. Cardinality(J) # 0
      BY <2>1, <2>2, FS_EmptySet
    <2> QED
      BY <1>1, <2>2, <2>3 DEF Rank
  <1>3. ASSUME NEW i \in I, NEW k \in I, i < k
        PROVE  Rank(I, i) < Rank(I, k)
    <2> DEFINE J == {j \in I : j <= i}
               K == {j \in I : j <= k}
    <2>1. J \in SUBSET K /\ k \in K /\ k \notin J
      <3>1. \A j \in I : j <= i => j <= k
        BY <1>3
      <3>2. k <= k /\ ~(k <= i)
        BY <1>3
      <3> QED
        BY <3>1, <3>2
    <2>2. IsFiniteSet(J) /\ IsFiniteSet(K) /\ Cardinality(J) \in Nat /\ Cardinality(K) \in Nat
      <3>1. J \in SUBSET I /\ K \in SUBSET I
        OBVIOUS
      <3>2. IsFiniteSet(J) /\ IsFiniteSet(K)
        BY <1>1, <3>1, FS_Subset
      <3> QED
        BY <3>2, FS_CardinalityType
    <2>3. Cardinality(J) <= Cardinality(K) /\ Cardinality(J) # Cardinality(K)
      BY <2>1, <2>2, FS_Subset
    <2> QED
      BY <2>2, <2>3 DEF Rank
  <1>4. ASSUME NEW r \in 1..Cardinality(I)
        PROVE  \E i \in I : Rank(I, i) = r
    <2>1. PICK f : f = [i \in I |-> Rank(I, i)]
      OBVIOUS
    <2>2. f \in [I -> 1..Cardinality(I)]
      BY <1>2, <2>1
    <2>3. \A i, k \in I : f[i] = f[k] => i = k
      <3> SUFFICES ASSUME NEW i \in I, NEW k \in I, i # k
                   PROVE  f[i] # f[k]
        OBVIOUS
      <3>1. i < k \/ k < i
        OBVIOUS
      <3>2. Rank(I, i) < Rank(I, k) \/ Rank(I, k) < Rank(I, i)
        BY <1>3, <3>1
      <3>3. Rank(I, i) \in 1..Cardinality(I) /\ Rank(I, k) \in 1..Cardinality(I)
        BY <1>2
      <3> QED
        BY <1>1, <2>1, <3>2, <3>3
    <2>4. f \in Injection(I, 1..Cardinality(I))
      BY <2>2, <2>3 DEF Injection, IsInjective
    <2>5. IsFiniteSet(1..Cardinality(I)) /\ Cardinality(1..Cardinality(I)) = Cardinality(I)
      BY <1>1, FS_Interval
    <2>6. f \in Surjection(I, 1..Cardinality(I))
      BY <2>4, <2>5, FS_Injection
    <2> QED
      BY <2>1, <2>6 DEF Surjection
  <1> QED
    BY <1>1, <1>2, <1>3, <1>4

(* An enumeration of the positions I, in order.                            *)
Places(pos, m, I) ==
    /\ pos \in [1..m -> I]
    /\ \A k, l \in 1..m : k < l => pos[k] < pos[l]
    /\ \A i \in I : \E k \in 1..m : pos[k] = i

(* The entries at I are those of an enumeration of I.                      *)
LEMMA EntriesAtIs ==
    ASSUME NEW X, NEW s \in Seq(X), NEW I, I \subseteq DOMAIN s
    PROVE  /\ EntriesAt(s, I) \in Seq(X)
           /\ Len(EntriesAt(s, I)) = Cardinality(I)
           /\ Cardinality(I) \in Nat
           /\ \E pos : /\ Places(pos, Cardinality(I), I)
                       /\ \A k \in 1..Cardinality(I) : EntriesAt(s, I)[k] = s[pos[k]]
  <1>1. /\ Len(s) \in Nat /\ I \subseteq 1..Len(s)
    BY LenProperties
  <1>2. PICK m \in Nat : m = Cardinality(I)
    BY <1>1, Ranks
  <1>3. PICK pos : pos = [k \in 1..m |-> CHOOSE i \in I : Rank(I, i) = k]
    OBVIOUS
  <1>4. ASSUME NEW k \in 1..m
        PROVE  pos[k] \in I /\ Rank(I, pos[k]) = k
    <2>1. \E i \in I : Rank(I, i) = k
      BY <1>1, <1>2, Ranks
    <2> QED
      BY <1>3, <2>1
  <1>5. EntriesAt(s, I) = [k \in 1..m |-> s[pos[k]]]
    BY <1>2, <1>3 DEF EntriesAt, Rank
  <1>6. ASSUME NEW i \in I, NEW k \in I, Rank(I, i) = Rank(I, k)
        PROVE  i = k
    <2>1. Rank(I, i) \in Nat /\ (i < k => Rank(I, i) < Rank(I, k)) /\ (k < i => Rank(I, k) < Rank(I, i))
      BY <1>1, Ranks
    <2> QED
      BY <1>1, <1>6, <2>1
  <1>7. ASSUME NEW k \in 1..m, NEW l \in 1..m, k < l
        PROVE  pos[k] < pos[l]
    <2>1. pos[k] \in I /\ pos[l] \in I /\ Rank(I, pos[k]) < Rank(I, pos[l])
      BY <1>4, <1>7
    <2>2. ~(pos[l] < pos[k])
      <3> SUFFICES ASSUME pos[l] < pos[k] PROVE FALSE
        OBVIOUS
      <3>1. Rank(I, pos[l]) < Rank(I, pos[k])
        BY <1>1, <2>1, Ranks
      <3> QED
        BY <1>4, <1>7, <3>1
    <2>3. pos[k] # pos[l]
      BY <1>4, <1>7
    <2> QED
      BY <1>1, <2>1, <2>2, <2>3
  <1>8. ASSUME NEW i \in I
        PROVE  \E k \in 1..m : pos[k] = i
    <2>1. Rank(I, i) \in 1..m
      BY <1>1, <1>2, Ranks
    <2> QED
      BY <1>4, <1>6, <2>1
  <1>9. Places(pos, m, I)
    BY <1>3, <1>4, <1>7, <1>8 DEF Places
  <1>10. \A k \in 1..m : s[pos[k]] \in X
    BY <1>1, <1>4, ElementOfSeq
  <1>11. PICK q : q = [k \in 1..m |-> s[pos[k]]]
    OBVIOUS
  <1>12. q \in Seq(X) /\ Len(q) = m
    BY <1>10, <1>11
  <1> QED
    BY <1>2, <1>5, <1>9, <1>11, <1>12

(* And there is one enumeration only.                                      *)
LEMMA EntriesAtOnly ==
    ASSUME NEW X, NEW s \in Seq(X), NEW I, I \subseteq DOMAIN s,
           NEW q \in Seq(X), NEW pos, Places(pos, Len(q), I),
           \A k \in DOMAIN q : q[k] = s[pos[k]]
    PROVE  q = EntriesAt(s, I)
  <1>1. /\ Len(s) \in Nat /\ I \subseteq 1..Len(s) /\ Len(q) \in Nat /\ DOMAIN q = 1..Len(q)
        /\ q \in [1..Len(q) -> X]
    BY LenProperties
  <1>2. PICK m \in Nat : m = Len(q)
    BY <1>1
  <1>3. /\ pos \in [1..m -> I]
        /\ \A k, l \in 1..m : k < l => pos[k] < pos[l]
        /\ \A i \in I : \E k \in 1..m : pos[k] = i
    BY <1>2, Zenon DEF Places
  <1>4. \A k, l \in 1..m : pos[k] <= pos[l] => k <= l
    <2> SUFFICES ASSUME NEW k \in 1..m, NEW l \in 1..m, l < k
                 PROVE  ~(pos[k] <= pos[l])
      BY <1>2
    <2>1. pos[l] < pos[k] /\ pos[l] \in 1..Len(s) /\ pos[k] \in 1..Len(s)
      BY <1>1, <1>3
    <2> QED
      BY <1>1, <2>1
  <1>5. \A k, l \in 1..m : pos[k] = pos[l] => k = l
    <2> SUFFICES ASSUME NEW k \in 1..m, NEW l \in 1..m, pos[k] = pos[l]
                 PROVE  k = l
      OBVIOUS
    <2>1. pos[k] \in 1..Len(s) /\ pos[l] \in 1..Len(s)
      BY <1>1, <1>3
    <2>2. k <= l /\ l <= k
      BY <1>1, <1>4, <2>1
    <2> QED
      BY <1>2, <2>2
  <1>6. Cardinality(I) = m
    <2>1. pos \in Bijection(1..m, I)
      BY <1>3, <1>5 DEF Bijection, Injection, Surjection, IsInjective
    <2> QED
      BY <2>1, FS_CountingElements DEF ExistsBijection
  <1>7. ASSUME NEW k \in 1..m
        PROVE  Rank(I, pos[k]) = k
    <2>1. PICK J : J = {j \in I : j <= pos[k]}
      OBVIOUS
    <2>2. PICK f : f = [l \in 1..k |-> pos[l]]
      OBVIOUS
    <2>3. f \in [1..k -> J]
      <3> SUFFICES ASSUME NEW l \in 1..k
                   PROVE  pos[l] \in I /\ pos[l] <= pos[k]
        BY <2>1, <2>2
      <3>1. l \in 1..m /\ (l < k \/ l = k)
        BY <1>2
      <3>2. pos[l] \in I /\ pos[k] \in I /\ (pos[l] < pos[k] \/ pos[l] = pos[k])
        BY <1>3, <3>1
      <3> QED
        BY <1>1, <3>2
    <2>4. \A l, h \in 1..k : f[l] = f[h] => l = h
      BY <1>2, <1>5, <2>2
    <2>5. ASSUME NEW j \in J
          PROVE  \E l \in 1..k : f[l] = j
      <3>1. PICK l \in 1..m : pos[l] = j
        BY <1>3, <2>1
      <3>2. l <= k
        BY <1>4, <2>1, <3>1
      <3> QED
        BY <2>2, <3>1, <3>2
    <2>6. f \in Bijection(1..k, J)
      BY <2>3, <2>4, <2>5 DEF Bijection, Injection, Surjection, IsInjective
    <2> QED
      BY <2>1, <2>6, FS_CountingElements DEF ExistsBijection, Rank
  <1>8. ASSUME NEW k \in 1..m
        PROVE  q[k] = s[CHOOSE i \in I : Rank(I, i) = k]
    <2>1. \A i \in I : Rank(I, i) = k => i = pos[k]
      <3> SUFFICES ASSUME NEW i \in I, Rank(I, i) = k
                   PROVE  i = pos[k]
        OBVIOUS
      <3>1. PICK l \in 1..m : pos[l] = i
        BY <1>3
      <3> QED
        BY <1>7, <3>1
    <2>2. pos[k] \in I /\ Rank(I, pos[k]) = k
      BY <1>3, <1>7
    <2>3. (CHOOSE i \in I : Rank(I, i) = k) = pos[k]
      BY <2>1, <2>2
    <2> QED
      BY <1>1, <1>2, <2>3
  <1> QED
    BY <1>1, <1>2, <1>6, <1>8 DEF EntriesAt, Rank

-----------------------------------------------------------------------------
(* A ledger's entries, as a sequence of any records with a generation.     *)

Distinct(s) == \A i, j \in DOMAIN s : s[i].generation = s[j].generation => i = j

(* A ledger that names each generation once has as many entries as names.  *)
LEMMA NamesAreFinite ==
    ASSUME NEW X, NEW s \in Seq(X)
    PROVE  /\ IsFiniteSet(Generations(s)) /\ Cardinality(Generations(s)) \in Nat
           /\ Distinct(s) => Cardinality(Generations(s)) = Len(s)
  <1>1. Len(s) \in Nat /\ DOMAIN s = 1..Len(s)
    BY LenProperties
  <1>2. PICK f : f = [i \in 1..Len(s) |-> s[i].generation]
    OBVIOUS
  <1>3. f \in Surjection(1..Len(s), Generations(s))
    BY <1>1, <1>2 DEF Surjection, Generations
  <1>4. IsFiniteSet(1..Len(s)) /\ Cardinality(1..Len(s)) = Len(s)
    BY <1>1, FS_Interval
  <1>5. /\ IsFiniteSet(Generations(s))
        /\ Cardinality(Generations(s)) = Len(s) <=> f \in Injection(1..Len(s), Generations(s))
    BY <1>3, <1>4, FS_Surjection
  <1>6. Distinct(s) => f \in Injection(1..Len(s), Generations(s))
    BY <1>1, <1>2, <1>3 DEF Surjection, Injection, IsInjective, Distinct
  <1> QED
    BY <1>5, <1>6, FS_CardinalityType

(* What a selection by generation leaves, and that it keeps the order and  *)
(* a last entry it selects.                                                *)
LEMMA WhereIs ==
    ASSUME NEW X, NEW s \in Seq(X), NEW S, NEW w, w = Where(s, S)
    PROVE  /\ w \in Seq(X)
           /\ Generations(w) = Generations(s) \cap S
           /\ \A i, j \in DOMAIN w : i < j =>
                 \E k, l \in DOMAIN s : k < l /\ s[k] = w[i] /\ s[l] = w[j]
           /\ Distinct(s) => Distinct(w)
           /\ s # <<>> /\ s[Len(s)].generation \in S => w # <<>> /\ w[Len(w)] = s[Len(s)]
  <1>1. Len(s) \in Nat /\ DOMAIN s = 1..Len(s)
    BY LenProperties
  <1>2. PICK I : I = {i \in DOMAIN s : s[i].generation \in S}
    OBVIOUS
  <1>3. w = EntriesAt(s, I) /\ I \subseteq DOMAIN s
    BY <1>2 DEF Where, Of
  <1>4. /\ w \in Seq(X) /\ Len(w) = Cardinality(I) /\ Cardinality(I) \in Nat
        /\ \E pos : /\ Places(pos, Cardinality(I), I)
                    /\ \A k \in 1..Cardinality(I) : EntriesAt(s, I)[k] = s[pos[k]]
    BY <1>3, EntriesAtIs
  <1>5. PICK m \in Nat : m = Len(w)
    BY <1>4
  <1>6. PICK pos : m = Len(w) /\ Places(pos, m, I) /\ \A k \in 1..m : w[k] = s[pos[k]]
    BY <1>3, <1>4, <1>5
  <1>7. DOMAIN w = 1..m
    BY <1>4, <1>6, LenProperties
  <1>8. /\ \A k \in 1..m : pos[k] \in I
        /\ \A k, l \in 1..m : k < l => pos[k] < pos[l]
        /\ \A i \in I : \E k \in 1..m : pos[k] = i
    BY <1>6 DEF Places
  <1>9. Generations(w) = Generations(s) \cap S
    <2>1. ASSUME NEW k \in DOMAIN w
          PROVE  w[k].generation \in Generations(s) \cap S
      <3>1. pos[k] \in I /\ w[k] = s[pos[k]]
        BY <1>6, <1>7, <1>8, <2>1
      <3> QED
        BY <1>2, <3>1 DEF Generations
    <2>2. ASSUME NEW i \in DOMAIN s, s[i].generation \in S
          PROVE  \E k \in DOMAIN w : w[k].generation = s[i].generation
      <3>1. PICK k \in 1..m : pos[k] = i
        BY <1>2, <1>8, <2>2
      <3> QED
        BY <1>6, <1>7, <3>1
    <2> QED
      BY <2>1, <2>2 DEF Generations
  <1>10. ASSUME NEW i \in DOMAIN w, NEW j \in DOMAIN w, i < j
        PROVE  \E k, l \in DOMAIN s : k < l /\ s[k] = w[i] /\ s[l] = w[j]
    <2>1. pos[i] \in DOMAIN s /\ pos[j] \in DOMAIN s /\ pos[i] < pos[j]
      BY <1>3, <1>7, <1>8, <1>10
    <2>2. s[pos[i]] = w[i] /\ s[pos[j]] = w[j]
      BY <1>6, <1>7, <1>10
    <2> QED
      BY <2>1, <2>2
  <1>11. ASSUME Distinct(s)
         PROVE  Distinct(w)
    <2> SUFFICES ASSUME NEW i \in DOMAIN w, NEW j \in DOMAIN w, i < j
                 PROVE  w[i].generation # w[j].generation
      <3>1. \A i, j \in DOMAIN w : i # j => i < j \/ j < i
        BY <1>7
      <3> QED
        BY <3>1 DEF Distinct
    <2>1. PICK k \in DOMAIN s, l \in DOMAIN s : k < l /\ s[k] = w[i] /\ s[l] = w[j]
      BY <1>10
    <2>2. k # l
      BY <1>1, <2>1
    <2> QED
      BY <1>11, <2>1, <2>2 DEF Distinct
  <1>12. ASSUME s # <<>>, s[Len(s)].generation \in S
         PROVE  w # <<>> /\ w[Len(w)] = s[Len(s)]
    <2>1. Len(s) \in I
      <3>1. Len(s) # 0
        BY <1>12, EmptySeq
      <3> QED
        BY <1>1, <1>2, <1>12, <3>1
    <2>2. PICK k \in 1..m : pos[k] = Len(s)
      BY <1>8, <2>1
    <2>3. k = m
      <3> SUFFICES ASSUME k < m PROVE FALSE
        BY <1>6
      <3>1. pos[m] \in 1..Len(s) /\ pos[k] < pos[m]
        BY <1>1, <1>3, <1>6, <1>8
      <3> QED
        BY <1>1, <2>2, <3>1
    <2>4. w[m] = s[Len(s)] /\ m # 0
      BY <1>6, <2>2, <2>3
    <2> QED
      BY <1>6, <2>4, EmptySeq
  <1> QED
    BY <1>4, <1>9, <1>10, <1>11, <1>12

(* What one more entry makes of a ledger.                                  *)
LEMMA AppendIs ==
    ASSUME NEW X, NEW s \in Seq(X), NEW e \in X, NEW a, a = Append(s, e)
    PROVE  /\ a \in Seq(X) /\ a # <<>> /\ a[Len(a)] = e
           /\ Len(s) \in Nat /\ Len(a) = Len(s) + 1 /\ a[Len(s) + 1] = e
           /\ DOMAIN s = 1..Len(s) /\ DOMAIN a = 1..(Len(s) + 1)
           /\ \A i \in 1..Len(s) : a[i] = s[i]
  <1>1. /\ a \in Seq(X) /\ a # <<>> /\ Len(a) = Len(s) + 1 /\ a[Len(s) + 1] = e
        /\ \A i \in 1..Len(s) : a[i] = s[i]
    BY AppendProperties
  <1>2. Len(s) \in Nat /\ DOMAIN s = 1..Len(s) /\ DOMAIN a = 1..(Len(s) + 1)
    BY <1>1, LenProperties
  <1> QED
    BY <1>1, <1>2

(* It names the generation of the entry as well, ...                       *)
LEMMA AppendNames ==
    ASSUME NEW X, NEW s \in Seq(X), NEW e \in X
    PROVE  Generations(Append(s, e)) = Generations(s) \cup {e.generation}
  <1>1. PICK a : a = Append(s, e)
    OBVIOUS
  <1>2. /\ a[Len(s) + 1] = e /\ Len(s) \in Nat
        /\ DOMAIN s = 1..Len(s) /\ DOMAIN a = 1..(Len(s) + 1)
        /\ \A i \in 1..Len(s) : a[i] = s[i]
    BY <1>1, AppendIs
  <1>3. ASSUME NEW i \in DOMAIN a
        PROVE  a[i].generation \in Generations(s) \cup {e.generation}
    <2>1. i = Len(s) + 1 \/ (i \in DOMAIN s /\ a[i] = s[i])
      BY <1>2
    <2> QED
      BY <1>2, <2>1 DEF Generations
  <1>4. ASSUME NEW i \in DOMAIN s
        PROVE  i \in DOMAIN a /\ a[i].generation = s[i].generation
    BY <1>2
  <1>5. Len(s) + 1 \in DOMAIN a /\ a[Len(s) + 1].generation = e.generation
    BY <1>2
  <1>6. Generations(a) = Generations(s) \cup {e.generation}
    BY <1>3, <1>4, <1>5 DEF Generations
  <1> QED
    BY <1>1, <1>6

(* ... and names each one once if it did, and the entry's is new.          *)
LEMMA AppendDistinct ==
    ASSUME NEW X, NEW s \in Seq(X), NEW e \in X, Distinct(s), e.generation \notin Generations(s)
    PROVE  Distinct(Append(s, e))
  <1>1. PICK a : a = Append(s, e)
    OBVIOUS
  <1>2. /\ a[Len(s) + 1] = e /\ Len(s) \in Nat
        /\ DOMAIN s = 1..Len(s) /\ DOMAIN a = 1..(Len(s) + 1)
        /\ \A i \in 1..Len(s) : a[i] = s[i]
    BY <1>1, AppendIs
  <1>3. SUFFICES ASSUME NEW i \in DOMAIN a, NEW j \in DOMAIN a,
                        a[i].generation = a[j].generation
                 PROVE  i = j
    BY <1>1 DEF Distinct
  <1>4. \A k \in DOMAIN a : (k = Len(s) + 1 /\ a[k] = e) \/ (k \in DOMAIN s /\ a[k] = s[k])
    BY <1>2
  <1>5. \A k \in DOMAIN s : s[k].generation # e.generation
    BY DEF Generations
  <1> QED
    BY <1>3, <1>4, <1>5 DEF Distinct


-----------------------------------------------------------------------------
(* The history, and a ledger that follows it.                              *)

Once(o) == \A k, l \in DOMAIN o : o[k] = o[l] => k = l

Before(o, a, b) == \E k, l \in DOMAIN o : k < l /\ o[k] = a /\ o[l] = b

Follows(s, o) ==
    /\ Distinct(s)
    /\ Generations(s) \subseteq Range(o)
    /\ \A i, j \in DOMAIN s : i < j => Before(o, s[i].generation, s[j].generation)

(* A selection of a ledger follows what the ledger follows.                *)
LEMMA WhereFollows ==
    ASSUME NEW X, NEW s \in Seq(X), NEW S, NEW o, Follows(s, o)
    PROVE  Follows(Where(s, S), o)
  <1>1. PICK w : w = Where(s, S)
    OBVIOUS
  <1>2. /\ Generations(w) = Generations(s) \cap S
        /\ \A i, j \in DOMAIN w : i < j =>
              \E k, l \in DOMAIN s : k < l /\ s[k] = w[i] /\ s[l] = w[j]
        /\ Distinct(s) => Distinct(w)
    BY <1>1, WhereIs
  <1>3. ASSUME NEW i \in DOMAIN w, NEW j \in DOMAIN w, i < j
        PROVE  Before(o, w[i].generation, w[j].generation)
    <2>1. PICK k \in DOMAIN s, l \in DOMAIN s : k < l /\ s[k] = w[i] /\ s[l] = w[j]
      BY <1>2, <1>3
    <2> QED
      BY <2>1 DEF Follows
  <1> QED
    BY <1>1, <1>2, <1>3 DEF Follows

(* What becomes of the history when g is made current: g is last, and the  *)
(* others are in the order they were in.                                   *)
MadeLast(o, g) ==
    /\ o \in Seq(Gens) /\ Once(o)
    /\ Range(o) = Range(order) \cup {g}
    /\ \A a, b : a # g /\ b # g /\ Before(order, a, b) => Before(o, a, b)
    /\ \A k \in DOMAIN order : order[k] # g => Before(o, order[k], g)

(* CurrentLast makes it so.                                                *)
LEMMA CurrentLastIs ==
    ASSUME order \in Seq(Gens), Once(order), NEW g \in Gens, NEW o, o = CurrentLast(g)
    PROVE  MadeLast(o, g)
  <1>1. Len(order) \in Nat /\ DOMAIN order = 1..Len(order)
    BY LenProperties
  <1>2. PICK I : I = {i \in DOMAIN order : order[i] # g}
    OBVIOUS
  <1>3. PICK w : w = EntriesAt(order, I)
    OBVIOUS
  <1>4. o = Append(w, g)
    BY <1>2, <1>3 DEF CurrentLast
  <1>5. /\ w \in Seq(Gens) /\ Len(w) = Cardinality(I)
        /\ \E pos : /\ Places(pos, Cardinality(I), I)
                    /\ \A k \in 1..Cardinality(I) : w[k] = order[pos[k]]
    <2>1. I \subseteq DOMAIN order
      BY <1>2
    <2>2. /\ EntriesAt(order, I) \in Seq(Gens) /\ Len(EntriesAt(order, I)) = Cardinality(I)
          /\ \E pos : /\ Places(pos, Cardinality(I), I)
                      /\ \A k \in 1..Cardinality(I) : EntriesAt(order, I)[k] = order[pos[k]]
      BY <2>1, EntriesAtIs
    <2> QED
      BY <1>3, <2>2
  <1>6. PICK m \in Nat : m = Len(w)
    BY <1>5, LenProperties
  <1>7. PICK pos : m = Len(w) /\ Places(pos, m, I) /\ \A k \in 1..m : w[k] = order[pos[k]]
    BY <1>5, <1>6
  <1>8. /\ \A k \in 1..m : pos[k] \in I
        /\ \A k, l \in 1..m : k < l => pos[k] < pos[l]
        /\ \A i \in I : \E k \in 1..m : pos[k] = i
    BY <1>7 DEF Places
  <1>9. /\ o \in Seq(Gens) /\ DOMAIN o = 1..(m + 1) /\ o[m + 1] = g
        /\ \A k \in 1..m : o[k] = order[pos[k]]
    BY <1>4, <1>5, <1>7, AppendProperties, LenProperties
  <1>10. \A k \in 1..m : o[k] # g /\ pos[k] \in DOMAIN order
    BY <1>2, <1>8, <1>9
  <1>11. \A k \in DOMAIN o : k \in 1..m \/ k = m + 1
    BY <1>9
  <1>12. Once(o)
    <2> SUFFICES ASSUME NEW k \in DOMAIN o, NEW l \in DOMAIN o, o[k] = o[l]
                 PROVE  k = l
      BY DEF Once
    <2>1. CASE k \in 1..m /\ l \in 1..m
      <3>1. pos[k] = pos[l]
        BY <1>9, <1>10, <2>1 DEF Once
      <3>2. ~(k < l) /\ ~(l < k)
        BY <1>1, <1>8, <1>10, <2>1, <3>1
      <3> QED
        BY <2>1, <3>2
    <2>2. CASE ~(k \in 1..m /\ l \in 1..m)
      BY <1>9, <1>10, <1>11, <2>2
    <2> QED
      BY <2>1, <2>2
  <1>13. ASSUME NEW i \in DOMAIN order, order[i] # g
         PROVE  \E k \in 1..m : pos[k] = i /\ o[k] = order[i]
    BY <1>2, <1>8, <1>9, <1>13
  <1>14. Range(o) = Range(order) \cup {g}
    <2>1. ASSUME NEW k \in DOMAIN o
          PROVE  o[k] \in Range(order) \cup {g}
      BY <1>9, <1>10, <1>11 DEF Range
    <2>2. ASSUME NEW i \in DOMAIN order, order[i] # g
          PROVE  \E k \in DOMAIN o : o[k] = order[i]
      BY <1>7, <1>9, <1>13, <2>2
    <2>3. m + 1 \in DOMAIN o /\ o[m + 1] = g
      BY <1>9
    <2> QED
      BY <2>1, <2>2, <2>3 DEF Range
  <1>15. ASSUME NEW a, NEW b, a # g, b # g, Before(order, a, b)
         PROVE  Before(o, a, b)
    <2>1. PICK i \in DOMAIN order, j \in DOMAIN order : i < j /\ order[i] = a /\ order[j] = b
      BY <1>15 DEF Before
    <2>2. PICK k \in 1..m, l \in 1..m : pos[k] = i /\ o[k] = a /\ pos[l] = j /\ o[l] = b
      BY <1>13, <1>15, <2>1
    <2>3. k < l
      <3>1. ~(l < k) /\ k # l
        BY <1>1, <1>8, <2>1, <2>2
      <3> QED
        BY <3>1
    <2>4. k \in DOMAIN o /\ l \in DOMAIN o
      BY <1>9
    <2> QED
      BY <2>2, <2>3, <2>4 DEF Before
  <1>16. ASSUME NEW i \in DOMAIN order, order[i] # g
         PROVE  Before(o, order[i], g)
    <2>1. PICK k \in 1..m : o[k] = order[i]
      BY <1>13, <1>16
    <2>2. k \in DOMAIN o /\ m + 1 \in DOMAIN o /\ k < m + 1
      BY <1>9
    <2> QED
      BY <1>9, <2>1, <2>2 DEF Before
  <1> QED
    BY <1>9, <1>12, <1>14, <1>15, <1>16 DEF MadeLast

(* A ledger that g is added to last follows the history g is last in.      *)
LEMMA AppendFollows ==
    ASSUME order \in Seq(Gens), Once(order), NEW X, NEW s \in Seq(X), Follows(s, order),
           NEW e \in X, e.generation \in Gens, e.generation \notin Generations(s)
    PROVE  Follows(Append(s, e), CurrentLast(e.generation))
  <1>1. PICK a, g, o : a = Append(s, e) /\ g = e.generation /\ o = CurrentLast(g)
    OBVIOUS
  <1>2. /\ DOMAIN s = 1..Len(s) /\ DOMAIN a = 1..(Len(s) + 1) /\ Len(s) \in Nat
        /\ \A i \in 1..Len(s) : a[i] = s[i]
        /\ a[Len(s) + 1] = e
    BY <1>1, AppendIs
  <1>3. MadeLast(o, g)
    BY <1>1, CurrentLastIs
  <1>4. Distinct(a) /\ Generations(a) \subseteq Range(o)
    <2>1. Distinct(a)
      <3>1. Distinct(s)
        BY DEF Follows
      <3> QED
        BY <1>1, <3>1, AppendDistinct
    <2>2. Generations(a) = Generations(s) \cup {e.generation}
      BY <1>1, AppendNames
    <2> QED
      BY <1>1, <1>3, <2>1, <2>2 DEF Follows, MadeLast
  <1>5. \A i \in DOMAIN s : /\ s[i].generation # g
                            /\ \E k \in DOMAIN order : order[k] = s[i].generation
    BY <1>1 DEF Follows, Generations, Range
  <1>6. ASSUME NEW i \in DOMAIN a, NEW j \in DOMAIN a, i < j
        PROVE  Before(o, a[i].generation, a[j].generation)
    <2>1. i \in DOMAIN s /\ a[i] = s[i]
      BY <1>2, <1>6
    <2>2. CASE j \in DOMAIN s
      <3>1. Before(order, s[i].generation, s[j].generation) /\ a[j] = s[j]
        BY <1>2, <1>6, <2>1, <2>2 DEF Follows
      <3> QED
        BY <1>3, <1>5, <2>1, <2>2, <3>1 DEF MadeLast
    <2>3. CASE j \notin DOMAIN s
      <3>1. a[j].generation = g
        BY <1>1, <1>2, <2>3
      <3> QED
        BY <1>3, <1>5, <2>1, <3>1 DEF MadeLast
    <2> QED
      BY <2>2, <2>3
  <1> QED
    BY <1>1, <1>4, <1>6 DEF Follows

(* A ledger that follows the history is the history with entries missing.  *)
LEMMA FollowsIsHistory ==
    ASSUME order \in Seq(Gens), Once(order), NEW X, NEW s \in Seq(X), Follows(s, order),
           Generations(s) \subseteq Gens
    PROVE  [i \in DOMAIN s |-> s[i].generation]
             = EntriesAt(order, {k \in DOMAIN order : order[k] \in Generations(s)})
  <1>1. /\ Len(order) \in Nat /\ DOMAIN order = 1..Len(order)
        /\ Len(s) \in Nat /\ DOMAIN s = 1..Len(s)
    BY LenProperties
  <1>2. PICK n \in Nat : n = Len(s)
    BY <1>1
  <1>3. PICK I : I = {k \in DOMAIN order : order[k] \in Generations(s)}
    OBVIOUS
  <1>4. PICK q : q = [i \in 1..n |-> s[i].generation]
    OBVIOUS
  <1>5. PICK pos : pos = [i \in 1..n |-> CHOOSE k \in DOMAIN order : order[k] = s[i].generation]
    OBVIOUS
  <1>6. ASSUME NEW i \in 1..n
        PROVE  pos[i] \in I /\ order[pos[i]] = s[i].generation
    <2>1. s[i].generation \in Generations(s)
      BY <1>1, <1>2 DEF Generations
    <2>2. \E k \in DOMAIN order : order[k] = s[i].generation
      BY <2>1 DEF Follows, Range
    <2>3. pos[i] \in DOMAIN order /\ order[pos[i]] = s[i].generation
      BY <1>5, <2>2
    <2> QED
      BY <1>3, <2>1, <2>3
  <1>7. ASSUME NEW i \in 1..n, NEW j \in 1..n, i < j
        PROVE  pos[i] < pos[j]
    <2>1. PICK k \in DOMAIN order, l \in DOMAIN order :
             k < l /\ order[k] = s[i].generation /\ order[l] = s[j].generation
      BY <1>1, <1>2, <1>7 DEF Follows, Before
    <2>2. k = pos[i] /\ l = pos[j]
      BY <1>3, <1>6, <2>1 DEF Once
    <2> QED
      BY <2>1, <2>2
  <1>8. ASSUME NEW k \in I
        PROVE  \E i \in 1..n : pos[i] = k
    <2>1. PICK i \in 1..n : s[i].generation = order[k]
      BY <1>1, <1>2, <1>3 DEF Generations
    <2>2. k \in DOMAIN order /\ pos[i] \in DOMAIN order /\ order[pos[i]] = order[k]
      BY <1>3, <1>6, <2>1
    <2>3. pos[i] = k
      BY <2>2 DEF Once
    <2> QED
      BY <2>3
  <1>9. q \in Seq(Gens) /\ Len(q) = n /\ DOMAIN q = 1..n
    <2>1. \A i \in 1..n : s[i].generation \in Gens
      BY <1>1, <1>2 DEF Generations
    <2> QED
      BY <1>4, <2>1
  <1>10. Places(pos, Len(q), I)
    BY <1>5, <1>6, <1>7, <1>8, <1>9 DEF Places
  <1>11. \A i \in DOMAIN q : q[i] = order[pos[i]]
    BY <1>4, <1>6, <1>9
  <1>12. I \subseteq DOMAIN order
    BY <1>3
  <1>13. q = EntriesAt(order, I)
    BY <1>9, <1>10, <1>11, <1>12, EntriesAtOnly
  <1> QED
    BY <1>1, <1>2, <1>3, <1>4, <1>13

-----------------------------------------------------------------------------
(* The newest entries of a selection, and the cuts made of them.           *)

After(I, i) == Cardinality({j \in I : j > i})

LatestOf(I, n) == {i \in I : After(I, i) < n}

FewAfter(I, n, L) ==
    /\ IsFiniteSet(L) /\ Cardinality(L) \in Nat
    /\ n \in Nat => Cardinality(L) <= n
    /\ ~(n > 0) => L = {}
    /\ Cardinality(I) <= n => L = I

(* The positions with fewer than n after them are n at most, and are all   *)
(* of them when there are no more than n.                                  *)
LEMMA Latest ==
    ASSUME NEW N \in Nat, NEW I \in SUBSET (1..N), NEW n \in Int,
           NEW L, L = LatestOf(I, n)
    PROVE  FewAfter(I, n, L)
  <1>1. IsFiniteSet(I) /\ Cardinality(I) \in Nat
    BY Ranks
  <1>2. PICK m \in Nat : m = Cardinality(I)
    BY <1>1
  <1>3. ASSUME NEW i \in I
        PROVE  After(I, i) = m - Rank(I, i) /\ Rank(I, i) \in 1..m
    <2> DEFINE J == {j \in I : j <= i}
    <2>1. {j \in I : j > i} = I \ J /\ I \cap J = J
      <3>1. \A j \in I : j > i <=> ~(j <= i)
        OBVIOUS
      <3> QED
        BY <3>1
    <2>2. Cardinality(I \ J) = Cardinality(I) - Cardinality(I \cap J)
      BY <1>1, FS_Difference
    <2>3. After(I, i) = Cardinality(I) - Rank(I, i)
      BY <2>1, <2>2 DEF After, Rank
    <2>4. Rank(I, i) \in 1..Cardinality(I)
      BY Ranks
    <2> QED
      BY <1>2, <2>3, <2>4
  <1>4. L = {i \in I : After(I, i) < n} /\ L \in SUBSET I
    BY DEF LatestOf
  <1>5. IsFiniteSet(L)
    BY <1>1, <1>4, FS_Subset
  <1>6. Cardinality(L) \in Nat
    BY <1>5, FS_CardinalityType
  <1>7. ASSUME n \in Nat
        PROVE  Cardinality(L) <= n
    <2>1. PICK f : f = [i \in L |-> m - Rank(I, i) + 1]
      OBVIOUS
    <2>2. \A i \in L : /\ f[i] = m - Rank(I, i) + 1
                       /\ Rank(I, i) \in 1..m
                       /\ m - Rank(I, i) < n
      BY <1>3, <1>4, <2>1
    <2>3. f \in [L -> 1..n]
      <3>1. \A r \in 1..m : m - r < n => m - r + 1 \in 1..n
        BY <1>7
      <3> QED
        BY <2>1, <2>2, <3>1
    <2>4. \A i, k \in L : f[i] = f[k] => i = k
      <3> SUFFICES ASSUME NEW i \in L, NEW k \in L, i # k
                   PROVE  f[i] # f[k]
        OBVIOUS
      <3>1. i < k \/ k < i
        BY <1>4
      <3>2. Rank(I, i) < Rank(I, k) \/ Rank(I, k) < Rank(I, i)
        BY <1>4, <3>1, Ranks
      <3> QED
        BY <1>2, <2>2, <3>2
    <2>5. f \in Injection(L, 1..n)
      BY <2>3, <2>4 DEF Injection, IsInjective
    <2>6. IsFiniteSet(1..n) /\ Cardinality(1..n) = n
      BY <1>7, FS_Interval
    <2> QED
      BY <2>5, <2>6, FS_Injection
  <1>8. ASSUME ~(n > 0)
        PROVE  L = {}
    <2>1. \A r \in 1..m : ~(m - r < n)
      BY <1>8
    <2>2. \A i \in I : ~(After(I, i) < n)
      BY <1>3, <2>1
    <2> QED
      BY <1>4, <2>2
  <1>9. ASSUME Cardinality(I) <= n
        PROVE  L = I
    <2>1. \A r \in 1..m : m - r < n
      BY <1>2, <1>9
    <2>2. \A i \in I : After(I, i) < n
      BY <1>3, <2>1
    <2> QED
      BY <1>4, <2>2
  <1> QED
    BY <1>5, <1>6, <1>7, <1>8, <1>9 DEF FewAfter

NewestAre(s, S, n, w) ==
    /\ w \subseteq Generations(s) \cap S
    /\ IsFiniteSet(w) /\ Cardinality(w) \in Nat
    /\ n \in Nat => Cardinality(w) <= n
    /\ ~(n > 0) => w = {}
    /\ IsFiniteSet(S) /\ Cardinality(S) <= n => w = Generations(s) \cap S

(* The newest n of S are n at most, and are all of S when it is no more.   *)
LEMMA NewestIs ==
    ASSUME NEW X, NEW s \in Seq(X), Distinct(s), NEW S, NEW n \in Int,
           NEW w, w = NewestOf(s, S, n)
    PROVE  NewestAre(s, S, n, w)
  <1>1. Len(s) \in Nat /\ DOMAIN s = 1..Len(s)
    BY LenProperties
  <1>2. PICK I : I = {j \in DOMAIN s : s[j].generation \in S}
    OBVIOUS
  <1>3. PICK L : L = LatestOf(I, n)
    OBVIOUS
  <1>4. I \subseteq 1..Len(s)
    BY <1>1, <1>2
  <1>5. w = {s[i].generation : i \in L}
    <2>1. \A j \in DOMAIN s : {k \in I : k > j} = {k \in DOMAIN s : k > j /\ s[k].generation \in S}
      BY <1>2
    <2>2. L = {j \in DOMAIN s :
                  /\ s[j].generation \in S
                  /\ Cardinality({k \in DOMAIN s : k > j /\ s[k].generation \in S}) < n}
      BY <1>2, <1>3, <2>1 DEF After, LatestOf
    <2> QED
      BY <2>2 DEF NewestOf
  <1>6. /\ IsFiniteSet(L) /\ Cardinality(L) \in Nat
        /\ n \in Nat => Cardinality(L) <= n
        /\ ~(n > 0) => L = {}
        /\ Cardinality(I) <= n => L = I
    <2>1. PICK N \in Nat : N = Len(s)
      BY <1>1
    <2>2. I \in SUBSET (1..N)
      BY <1>4, <2>1
    <2>3. FewAfter(I, n, L)
      BY <1>3, <2>2, Latest
    <2> QED
      BY <2>3 DEF FewAfter
  <1>7. w \subseteq Generations(s) \cap S
    BY <1>2, <1>3, <1>5 DEF Generations, LatestOf
  <1>8. IsFiniteSet(w) /\ Cardinality(w) <= Cardinality(L)
    <2>1. PICK f : f = [i \in L |-> s[i].generation]
      OBVIOUS
    <2>2. f \in Surjection(L, w)
      BY <1>5, <2>1 DEF Surjection
    <2> QED
      BY <1>6, <2>2, FS_Surjection
  <1>9. Cardinality(w) \in Nat
    BY <1>8, FS_CardinalityType
  <1>10. ASSUME IsFiniteSet(S), Cardinality(S) <= n
         PROVE  w = Generations(s) \cap S
    <2>1. PICK f : f = [i \in I |-> s[i].generation]
      OBVIOUS
    <2>2. f \in [I -> S]
      BY <1>2, <2>1
    <2>3. \A i, k \in I : f[i] = f[k] => i = k
      BY <1>2, <1>10, <2>1 DEF Distinct
    <2>4. f \in Injection(I, S)
      BY <2>2, <2>3 DEF Injection, IsInjective
    <2>5. Cardinality(I) <= Cardinality(S)
      BY <1>10, <2>4, FS_Injection
    <2>6. Cardinality(I) \in Nat /\ Cardinality(S) \in Nat
      BY <1>1, <1>4, <1>10, Ranks, FS_CardinalityType
    <2>7. L = I
      BY <1>6, <1>10, <2>5, <2>6
    <2> QED
      BY <1>2, <1>5, <2>7 DEF Generations
  <1> QED
    <2>1. n \in Nat => Cardinality(w) <= n
      BY <1>6, <1>8, <1>9
    <2>2. ~(n > 0) => w = {}
      BY <1>5, <1>6
    <2> QED
      BY <1>7, <1>8, <1>9, <1>10, <2>1, <2>2 DEF NewestAre

(* Of the generations of a ledger that follows the history, its newest are *)
(* the ones last made current.                                             *)
LEMMA NewestAreLastCurrent ==
    ASSUME order \in Seq(Gens), Once(order), NEW X, NEW s \in Seq(X), Follows(s, order),
           NEW S, S \subseteq Generations(s), NEW n \in Int
    PROVE  LastCurrent(S, n) \subseteq NewestOf(s, S, n)
  <1>1. /\ Len(order) \in Nat /\ DOMAIN order = 1..Len(order)
        /\ Len(s) \in Nat /\ DOMAIN s = 1..Len(s)
    BY LenProperties
  <1>2. SUFFICES ASSUME NEW j \in DOMAIN order, order[j] \in S,
                        Cardinality({k \in DOMAIN order : k > j /\ order[k] \in S}) < n
                 PROVE  order[j] \in NewestOf(s, S, n)
    BY DEF LastCurrent
  <1>3. PICK i \in DOMAIN s : s[i].generation = order[j]
    BY <1>2 DEF Generations
  <1>4. PICK K : K = {k \in DOMAIN order : k > j /\ order[k] \in S}
    OBVIOUS
  <1>5. PICK H : H = {h \in DOMAIN s : h > i /\ s[h].generation \in S}
    OBVIOUS
  <1>6. \A h \in H : \E k \in K : order[k] = s[h].generation
    <2> SUFFICES ASSUME NEW h \in H
                 PROVE  \E k \in K : order[k] = s[h].generation
      OBVIOUS
    <2>1. h \in DOMAIN s /\ i < h /\ s[h].generation \in S
      BY <1>1, <1>3, <1>5
    <2>2. PICK k \in DOMAIN order, l \in DOMAIN order :
             k < l /\ order[k] = s[i].generation /\ order[l] = s[h].generation
      BY <1>3, <2>1 DEF Follows, Before
    <2>3. k = j
      BY <1>3, <2>2 DEF Once
    <2>4. l > j
      BY <1>1, <2>2, <2>3
    <2> QED
      BY <1>4, <2>1, <2>2, <2>4
  <1>7. PICK f : f = [h \in H |-> CHOOSE k \in K : order[k] = s[h].generation]
    OBVIOUS
  <1>8. \A h \in H : f[h] \in K /\ order[f[h]] = s[h].generation
    <2> SUFFICES ASSUME NEW h \in H
                 PROVE  f[h] \in K /\ order[f[h]] = s[h].generation
      OBVIOUS
    <2>1. \E k \in K : order[k] = s[h].generation
      BY <1>6
    <2> QED
      BY <1>7, <2>1
  <1>9. f \in [H -> K] /\ \A h, k \in H : f[h] = f[k] => h = k
    <2>1. \A h, k \in H : s[h].generation = s[k].generation => h = k
      BY <1>5 DEF Follows, Distinct
    <2> QED
      BY <1>7, <1>8, <2>1
  <1>10. f \in Injection(H, K)
    BY <1>9 DEF Injection, IsInjective
  <1>11. IsFiniteSet(K) /\ Cardinality(K) \in Nat
    <2>1. K \subseteq 1..Len(order)
      BY <1>1, <1>4
    <2> QED
      BY <1>1, <2>1, Ranks
  <1>12. Cardinality(H) <= Cardinality(K) /\ Cardinality(H) \in Nat
    <2>1. IsFiniteSet(H) /\ Cardinality(H) <= Cardinality(K)
      BY <1>10, <1>11, FS_Injection
    <2> QED
      BY <2>1, FS_CardinalityType
  <1>13. Cardinality({h \in DOMAIN s : h > i /\ s[h].generation \in S}) < n
    BY <1>2, <1>4, <1>5, <1>11, <1>12
  <1> QED
    BY <1>2, <1>3, <1>13 DEF NewestOf

LEMMA UnionAtMost ==
    ASSUME NEW A, NEW B, IsFiniteSet(A), IsFiniteSet(B)
    PROVE  /\ IsFiniteSet(A \cup B) /\ Cardinality(A \cup B) \in Nat
           /\ Cardinality(A \cup B) <= Cardinality(A) + Cardinality(B)
  <1>1. /\ IsFiniteSet(A \cup B)
        /\ Cardinality(A \cup B) = Cardinality(A) + Cardinality(B) - Cardinality(A \cap B)
    BY FS_Union
  <1>2. IsFiniteSet(A \cap B)
    BY FS_Intersection
  <1>3. /\ Cardinality(A) \in Nat /\ Cardinality(B) \in Nat
        /\ Cardinality(A \cap B) \in Nat /\ Cardinality(A \cup B) \in Nat
    BY <1>1, <1>2, FS_CardinalityType
  <1> QED
    BY <1>1, <1>3

(* c is what a cut of s leaves that may drop only what is not in P.        *)
Cut(c, s, P) ==
    \E T : /\ c = Where(s, T)
           /\ T \subseteq Generations(s) /\ Generations(s) \cap P \subseteq T
           /\ IsFiniteSet(T) /\ Cardinality(T) <= MaxKnown

(* A cut keeps every protected and every leased entry.                     *)
LEMMA CapKnownCuts ==
    ASSUME NEW X, NEW s \in Seq(X), Distinct(s), NEW P, NEW Q,
           IsFiniteSet(P), IsFiniteSet(Q),
           Cardinality(P) <= KnownFill, Cardinality(P) + Cardinality(Q) <= MaxKnown
    PROVE  Cut(CapKnown(s, P, Q), s, P \cup Q)
  <1>1. MaxKnown \in Nat /\ KnownFill \in Nat /\ KnownFill <= MaxKnown
    BY LedgerAssumption
  <1>2. PICK G : G = Generations(s)
    OBVIOUS
  <1>3. IsFiniteSet(G)
    BY <1>2, NamesAreFinite
  <1>4. PICK M : M = G \cap P
    OBVIOUS
  <1>5. PICK S : S = (G \cap Q) \ M
    OBVIOUS
  <1>6. /\ IsFiniteSet(M) /\ Cardinality(M) <= Cardinality(P)
        /\ IsFiniteSet(S) /\ Cardinality(S) <= Cardinality(Q)
    <2>1. M \in SUBSET P /\ S \in SUBSET Q
      BY <1>4, <1>5
    <2> QED
      BY <2>1, FS_Subset
  <1>7. /\ Cardinality(M) \in Nat /\ Cardinality(S) \in Nat
        /\ Cardinality(P) \in Nat /\ Cardinality(Q) \in Nat
    BY <1>6, FS_CardinalityType
  <1>8. PICK n \in Nat : n = MaxKnown - Cardinality(M)
    BY <1>1, <1>6, <1>7
  <1>9. PICK w : w = NewestOf(s, S, n)
    OBVIOUS
  <1>10. NewestAre(s, S, n, w)
    <2>1. n \in Int
      OBVIOUS
    <2> QED
      BY <1>9, <2>1, NewestIs
  <1>11. w = G \cap S /\ IsFiniteSet(w) /\ Cardinality(w) \in Nat /\ Cardinality(w) <= n
    <2>1. Cardinality(S) <= n
      BY <1>1, <1>6, <1>7, <1>8
    <2> QED
      BY <1>2, <1>6, <1>10, <2>1 DEF NewestAre
  <1>12. PICK H : H = M \cup w
    OBVIOUS
  <1>13. IsFiniteSet(H) /\ Cardinality(H) \in Nat /\ Cardinality(H) <= MaxKnown
    <2>1. /\ IsFiniteSet(H) /\ Cardinality(H) \in Nat
          /\ Cardinality(H) <= Cardinality(M) + Cardinality(w)
      BY <1>6, <1>11, <1>12, UnionAtMost
    <2> QED
      BY <1>1, <1>7, <1>8, <1>11, <2>1
  <1>14. PICK k \in Int : k = KnownFill - Cardinality(H)
    BY <1>1, <1>13
  <1>15. PICK v : v = NewestOf(s, G \ H, k)
    OBVIOUS
  <1>16. NewestAre(s, G \ H, k, v)
    BY <1>15, NewestIs
  <1>17. PICK T : T = H \cup v
    OBVIOUS
  <1>18. /\ IsFiniteSet(T) /\ Cardinality(T) \in Nat
         /\ Cardinality(T) <= Cardinality(H) + Cardinality(v)
    <2>1. IsFiniteSet(v)
      BY <1>16 DEF NewestAre
    <2> QED
      BY <1>13, <1>17, <2>1, UnionAtMost
  <1>19. Cardinality(T) <= MaxKnown
    <2>1. CASE k \in Nat
      <3>1. Cardinality(v) <= k /\ Cardinality(v) \in Nat
        BY <1>16, <2>1 DEF NewestAre
      <3> QED
        BY <1>1, <1>13, <1>14, <1>18, <3>1
    <2>2. CASE k \notin Nat
      <3>1. ~(k > 0)
        BY <2>2
      <3>2. v = {}
        BY <1>16, <3>1 DEF NewestAre
      <3>3. T = H
        BY <1>17, <3>2
      <3> QED
        BY <1>13, <3>3
    <2> QED
      BY <2>1, <2>2
  <1>20. CapKnown(s, P, Q) = Where(s, T)
    BY <1>2, <1>4, <1>5, <1>8, <1>9, <1>12, <1>14, <1>15, <1>17, Zenon DEF CapKnown
  <1>21. T \subseteq G /\ G \cap (P \cup Q) \subseteq T
    <2>1. v \subseteq G
      BY <1>2, <1>16 DEF NewestAre
    <2> QED
      BY <1>4, <1>5, <1>11, <1>12, <1>17, <2>1
  <1> QED
    BY <1>2, <1>18, <1>19, <1>20, <1>21 DEF Cut

(* So does the cut for an entry a rollback inserts.                        *)
LEMMA CapInsertCuts ==
    ASSUME NEW X, NEW s \in Seq(X), Distinct(s), NEW P, NEW Q,
           IsFiniteSet(P), IsFiniteSet(Q),
           Cardinality(P) <= KnownFill, KnownFill + Cardinality(Q) <= MaxKnown
    PROVE  Cut(CapInsert(s, P, Q), s, P \cup Q)
  <1>1. MaxKnown \in Nat /\ KnownFill \in Nat
    BY LedgerAssumption
  <1>2. PICK G : G = Generations(s)
    OBVIOUS
  <1>3. IsFiniteSet(G)
    BY <1>2, NamesAreFinite
  <1>4. PICK M : M = G \cap P
    OBVIOUS
  <1>5. IsFiniteSet(M) /\ Cardinality(M) <= Cardinality(P)
    <2>1. M \in SUBSET P
      BY <1>4
    <2> QED
      BY <2>1, FS_Subset
  <1>6. PICK m \in Nat, a \in Nat, b \in Nat, q \in Nat, d \in Nat :
           /\ m = Cardinality(M) /\ a = Cardinality(M \ Q) /\ b = Cardinality(M \cap Q)
           /\ q = Cardinality(Q) /\ d = Cardinality(Q \ M)
           /\ m = a + b /\ q = d + b
           /\ m <= KnownFill /\ KnownFill + q <= MaxKnown
    <2>1. /\ IsFiniteSet(M \ Q) /\ IsFiniteSet(Q \ M) /\ IsFiniteSet(M \cap Q)
      BY <1>5, FS_Difference, FS_Intersection
    <2>2. /\ Cardinality(M) \in Nat /\ Cardinality(M \ Q) \in Nat /\ Cardinality(M \cap Q) \in Nat
          /\ Cardinality(Q) \in Nat /\ Cardinality(Q \ M) \in Nat /\ Cardinality(P) \in Nat
      BY <1>5, <2>1, FS_CardinalityType
    <2>3. M \cap Q = Q \cap M
      OBVIOUS
    <2>4. Cardinality(M \ Q) = Cardinality(M) - Cardinality(M \cap Q)
      BY <1>5, FS_Difference
    <2>5. Cardinality(Q \ M) = Cardinality(Q) - Cardinality(Q \cap M)
      BY FS_Difference
    <2>6. Cardinality(Q \ M) = Cardinality(Q) - Cardinality(M \cap Q)
      BY <2>3, <2>5
    <2>7. Cardinality(M) <= KnownFill
      BY <1>1, <1>5, <2>2
    <2> QED
      BY <1>1, <2>2, <2>4, <2>6, <2>7
  <1>7. PICK n \in Nat : n = KnownFill - Cardinality(M \ Q) /\ n = KnownFill - a
    BY <1>1, <1>6
  <1>8. PICK v : v = NewestOf(s, G \ (M \cup Q), n)
    OBVIOUS
  <1>9. NewestAre(s, G \ (M \cup Q), n, v)
    <2>1. n \in Int
      OBVIOUS
    <2> QED
      BY <1>8, <2>1, NewestIs
  <1>10. /\ IsFiniteSet(v) /\ Cardinality(v) \in Nat /\ Cardinality(v) <= n
         /\ v \subseteq G \ (M \cup Q)
    BY <1>2, <1>9 DEF NewestAre
  <1>11. PICK L : L = M \cup v
    OBVIOUS
  <1>12. /\ IsFiniteSet(L) /\ Cardinality(L) \in Nat
         /\ Cardinality(L) <= KnownFill + b
    <2>1. /\ IsFiniteSet(L) /\ Cardinality(L) \in Nat
          /\ Cardinality(L) <= Cardinality(M) + Cardinality(v)
      BY <1>5, <1>10, <1>11, UnionAtMost
    <2>2. n = KnownFill - a /\ Cardinality(v) <= n /\ Cardinality(v) \in Nat
      BY <1>7, <1>10
    <2>3. Cardinality(L) <= a + b + Cardinality(v)
      BY <1>6, <2>1
    <2> QED
      BY <1>1, <2>1, <2>2, <2>3
  <1>13. PICK S : S = (G \cap Q) \ L
    OBVIOUS
  <1>14. IsFiniteSet(S) /\ Cardinality(S) \in Nat /\ Cardinality(S) <= d
    <2>1. S \in SUBSET (Q \ M)
      BY <1>11, <1>13
    <2>2. IsFiniteSet(Q \ M)
      BY FS_Difference
    <2>3. IsFiniteSet(S) /\ Cardinality(S) <= Cardinality(Q \ M)
      BY <2>1, <2>2, FS_Subset
    <2> QED
      BY <1>6, <2>3, FS_CardinalityType
  <1>15. PICK k \in Nat : k = MaxKnown - Cardinality(L)
    <2>1. KnownFill + b <= MaxKnown
      BY <1>1, <1>6
    <2>2. MaxKnown - Cardinality(L) \in Nat
      BY <1>1, <1>12, <2>1
    <2> QED
      BY <2>2
  <1>16. Cardinality(S) <= k
    <2>1. KnownFill + d + b <= MaxKnown
      BY <1>1, <1>6
    <2> QED
      BY <1>1, <1>12, <1>14, <1>15, <2>1
  <1>17. PICK w : w = NewestOf(s, S, k)
    OBVIOUS
  <1>18. NewestAre(s, S, k, w)
    <2>1. k \in Int
      OBVIOUS
    <2> QED
      BY <1>17, <2>1, NewestIs
  <1>19. IsFiniteSet(w) /\ Cardinality(w) \in Nat /\ Cardinality(w) <= k /\ w = G \cap S
    BY <1>2, <1>14, <1>16, <1>18 DEF NewestAre
  <1>20. PICK T : T = L \cup w
    OBVIOUS
  <1>21. IsFiniteSet(T) /\ Cardinality(T) <= MaxKnown
    <2>1. /\ IsFiniteSet(T) /\ Cardinality(T) \in Nat
          /\ Cardinality(T) <= Cardinality(L) + Cardinality(w)
      BY <1>12, <1>19, <1>20, UnionAtMost
    <2> QED
      BY <1>1, <1>12, <1>15, <1>19, <2>1
  <1>22. CapInsert(s, P, Q) = Where(s, T)
    BY <1>2, <1>4, <1>7, <1>8, <1>11, <1>13, <1>15, <1>17, <1>20, Zenon DEF CapInsert
  <1>23. T \subseteq G /\ G \cap (P \cup Q) \subseteq T
    BY <1>4, <1>10, <1>11, <1>13, <1>19, <1>20
  <1> QED
    BY <1>2, <1>21, <1>22, <1>23 DEF Cut

-----------------------------------------------------------------------------
(* The ledgers the writes of a row leave.                                  *)

Entries == {EntryOf(g) : g \in Gens}

(* An entry is that of its generation.                                     *)
LEMMA EntriesAre ==
    /\ \A e \in Entries : e.generation \in Gens /\ e = EntryOf(e.generation)
    /\ \A g \in Gens : EntryOf(g) \in Entries /\ EntryOf(g).generation = g
    /\ \A s \in Seq(Entries) : Generations(s) \subseteq Gens
    /\ Gens \subseteq Int /\ NoGen \notin Gens
  <1>1. /\ \A e \in Entries : e.generation \in Gens /\ e = EntryOf(e.generation)
        /\ \A g \in Gens : EntryOf(g) \in Entries /\ EntryOf(g).generation = g
    BY DEF Entries, EntryOf
  <1>2. ASSUME NEW s \in Seq(Entries)
        PROVE  Generations(s) \subseteq Gens
    <2>1. \A i \in DOMAIN s : s[i] \in Entries
      BY ElementOfSeq, LenProperties
    <2> QED
      BY <1>1, <2>1 DEF Generations
  <1>3. Gens \subseteq Int /\ NoGen \notin Gens
    BY LedgerHistoryAssumption DEF Gens, NoGen
  <1> QED
    BY <1>1, <1>2, <1>3

(* c is a ledger with g last, made of s, that keeps what s has of P.       *)
Leaves(c, s, g, P) ==
    /\ c \in Seq(Entries) /\ Follows(c, CurrentLast(g))
    /\ c # <<>> => c[Len(c)].generation = g
    /\ Len(c) <= MaxKnown
    /\ Generations(c) \subseteq Generations(s) \cup {g}
    /\ Generations(s) \cap P \subseteq Generations(c)

(* So is what a cut leaves of a ledger an entry was added to.              *)
LEMMA CutLeaves ==
    ASSUME order \in Seq(Gens), Once(order), NEW s \in Seq(Entries), Follows(s, order),
           NEW g \in Gens, g \notin Generations(s),
           NEW P, g \in P, NEW c, Cut(c, Append(s, EntryOf(g)), P)
    PROVE  Leaves(c, s, g, P)
  <1>1. PICK e \in Entries : e = EntryOf(g) /\ e.generation = g
    BY EntriesAre
  <1>2. PICK a : a = Append(s, e)
    OBVIOUS
  <1>3. a \in Seq(Entries) /\ a # <<>> /\ a[Len(a)] = e
    BY <1>2, AppendIs
  <1>4. Generations(a) = Generations(s) \cup {g}
    BY <1>1, <1>2, AppendNames
  <1>5. Follows(a, CurrentLast(g))
    <2>1. e.generation \in Gens /\ e.generation \notin Generations(s)
      BY <1>1
    <2>2. Follows(Append(s, e), CurrentLast(e.generation))
      BY <2>1, AppendFollows
    <2> QED
      BY <1>1, <1>2, <2>2
  <1>6. PICK T : /\ c = Where(a, T)
                 /\ T \subseteq Generations(a) /\ Generations(a) \cap P \subseteq T
                 /\ IsFiniteSet(T) /\ Cardinality(T) <= MaxKnown
    BY <1>1, <1>2 DEF Cut
  <1>7. c \in Seq(Entries)
    BY <1>3, <1>6, WhereIs
  <1>8. Generations(c) = T
    <2>1. Generations(c) = Generations(a) \cap T
      BY <1>3, <1>6, WhereIs
    <2> QED
      BY <1>6, <2>1
  <1>9. Follows(c, CurrentLast(g))
    BY <1>3, <1>5, <1>6, WhereFollows
  <1>10. c[Len(c)].generation = g
    <2>1. a[Len(a)].generation \in T
      BY <1>1, <1>3, <1>4, <1>6
    <2>2. c[Len(c)] = a[Len(a)]
      BY <1>3, <1>6, <2>1, WhereIs
    <2> QED
      BY <1>1, <1>3, <2>2
  <1>11. Len(c) <= MaxKnown
    <2>1. Distinct(c)
      BY <1>9 DEF Follows
    <2>2. Cardinality(Generations(c)) = Len(c)
      BY <1>7, <2>1, NamesAreFinite
    <2> QED
      BY <1>6, <1>8, <2>2
  <1> QED
    BY <1>4, <1>6, <1>7, <1>8, <1>9, <1>10, <1>11 DEF Leaves

-----------------------------------------------------------------------------
(* The invariant.                                                          *)

IInv ==
    /\ row = RowAt(row.currentGen, row.knownGens, row.leases)
    /\ row.currentGen \in Gens \cup {NoGen}
    /\ row.knownGens \in Seq(Entries)
    /\ row.leases \subseteq Gens /\ Cardinality(row.leases) <= MaxLeases
    /\ present \subseteq Gens /\ Known \subseteq present
    /\ order \in Seq(Gens) /\ Once(order)
    /\ Follows(row.knownGens, order)
    /\ row.knownGens # <<>> => row.knownGens[Len(row.knownGens)].generation = row.currentGen
    /\ Len(row.knownGens) <= MaxKnown

(* Whatever holds generations is finite.                                   *)
LEMMA GensAreFinite ==
    \A S : S \subseteq Gens => IsFiniteSet(S) /\ Cardinality(S) \in Nat
  <1>1. IsFiniteSet(Gens)
    BY LedgerHistoryAssumption, FS_Interval DEF Gens
  <1>2. ASSUME NEW S, S \subseteq Gens
        PROVE  IsFiniteSet(S) /\ Cardinality(S) \in Nat
    <2>1. S \in SUBSET Gens
      BY <1>2
    <2>2. IsFiniteSet(S)
      BY <1>1, <2>1, FS_Subset
    <2> QED
      BY <2>2, FS_CardinalityType
  <1> QED
    BY <1>2

(* The row's ledger is always usable.                                      *)
LEMMA UsableIsKnown ==
    ASSUME IInv
    PROVE  UsableKnownGens(row) = row.knownGens
  <1>1. CASE row.knownGens = <<>>
    BY <1>1 DEF UsableKnownGens
  <1>2. CASE row.knownGens # <<>>
    <2>1. PICK e : e = row.knownGens[Len(row.knownGens)]
      OBVIOUS
    <2>2. e \in Entries
      <3>1. row.knownGens \in Seq(Entries)
        BY DEF IInv
      <3> QED
        BY <1>2, <2>1, <3>1, EmptySeq, ElementOfSeq, LenProperties
    <2>3. e.generation = row.currentGen /\ e = EntryOf(e.generation) /\ row.currentGen # NoGen
      BY <1>2, <2>1, <2>2, EntriesAre DEF IInv
    <2>4. /\ row.status = "active"
          /\ row.summary = [generation |-> row.currentGen, footerCrc |-> row.currentGen,
                            sealed |-> FALSE]
      <3>1. row = RowAt(row.currentGen, row.knownGens, row.leases)
        BY DEF IInv
      <3>2. \A g, k, l : /\ RowAt(g, k, l).status = "active"
                         /\ RowAt(g, k, l).summary = [generation |-> g, footerCrc |-> g, sealed |-> FALSE]
        BY DEF RowAt
      <3> QED
        BY <3>1, <3>2
    <2>5. row.summary.footerCrc = e.footerCrc
      BY <2>3, <2>4 DEF EntryOf
    <2> QED
      BY <1>2, <2>1, <2>3, <2>4, <2>5 DEF UsableKnownGens
  <1> QED
    BY <1>1, <1>2

(* A publish numbers past everything the bucket holds at its number.       *)
LEMMA NumberIsNew ==
    ASSUME IInv
    PROVE  Number \in Int /\ Number \notin present
  <1>1. /\ present \subseteq Gens /\ Gens \subseteq Int /\ IsFiniteSet(present)
        /\ row.currentGen \in Int
    <2>1. present \subseteq Gens /\ Gens \subseteq Int /\ row.currentGen \in Gens \cup {NoGen}
      BY EntriesAre DEF IInv
    <2>2. IsFiniteSet(present)
      BY <2>1, GensAreFinite
    <2>3. NoGen \in Int
      BY DEF NoGen
    <2> QED
      BY <2>1, <2>2, <2>3
  <1>2. CASE row.currentGen + 1 \notin present
    BY <1>1, <1>2 DEF Number
  <1>3. CASE row.currentGen + 1 \in present
    <2>1. MaxGen \in Nat /\ present \subseteq 0..MaxGen
      BY <1>1, LedgerHistoryAssumption DEF Gens
    <2> DEFINE T == {MaxGen - g : g \in present}
    <2>2. T \subseteq Nat /\ T # {}
      <3>1. \A g \in present : MaxGen - g \in Nat
        BY <2>1
      <3> QED
        BY <1>3, <3>1
    <2>3. PICK x \in T : \A y \in T : ~(<<y, x>> \in OpToRel(<, Nat))
      <3> HIDE DEF T
      <3> QED
        BY <2>2, NatLessThanWellFounded, WFMin, Zenon
    <2>4. \A y \in T : ~(y < x)
      <3> HIDE DEF T
      <3> QED
        BY <2>2, <2>3, Zenon DEF OpToRel
    <2>5. PICK g \in present : x = MaxGen - g
      BY <2>3
    <2>6. \A h \in present : h <= g
      <3> SUFFICES ASSUME NEW h \in present PROVE h <= g
        OBVIOUS
      <3>1. ~(MaxGen - h < MaxGen - g)
        BY <2>4, <2>5
      <3> QED
        BY <2>1, <3>1
    <2>7. PICK m : m = CHOOSE h \in present : \A k \in present : k <= h
      OBVIOUS
    <2>8. m \in present /\ \A k \in present : k <= m
      BY <2>5, <2>6, <2>7
    <2>9. Number = 1 + m
      BY <1>3, <2>7 DEF Number
    <2>10. m \in Int /\ \A k \in present : k \in Int
      BY <2>1, <2>8
    <2> QED
      BY <2>8, <2>9, <2>10
  <1> QED
    BY <1>2, <1>3

-----------------------------------------------------------------------------
(* A publish.                                                              *)

(* What a publish vouches for, or finds leased, stays in the ledger.       *)
LEMMA PublishLeaves ==
    ASSUME IInv, NEW keep \in Keeps, NEW live \in SUBSET row.leases, Number \in Gens,
           NEW span, span = IF keep > KnownSpan THEN KnownSpan ELSE keep,
           NEW vouch, vouch = NewestOf(row.knownGens, Below(row.knownGens, Number), span)
    PROVE  Leaves(NextLedger(row, EntryOf(Number), keep, live), row.knownGens, Number, vouch \cup live)
  <1>1. PICK all, g : all = row.knownGens /\ g = Number
    OBVIOUS
  <1>2. /\ g \in Gens /\ g \in Int /\ g \notin Generations(all) /\ EntryOf(g).generation = g
    <2>1. g \notin present
      BY <1>1, NumberIsNew
    <2> QED
      BY <1>1, <2>1, EntriesAre DEF IInv, Known
  <1>3. /\ all \in Seq(Entries) /\ order \in Seq(Gens) /\ Once(order) /\ Follows(all, order)
        /\ Distinct(all)
    BY <1>1 DEF IInv, Follows
  <1>4. /\ IsFiniteSet(live) /\ Cardinality(live) \in Nat /\ Cardinality(live) <= MaxLeases
    <2>1. row.leases \subseteq Gens /\ Cardinality(row.leases) <= MaxLeases
      BY DEF IInv
    <2>2. IsFiniteSet(row.leases) /\ Cardinality(row.leases) \in Nat
      BY <2>1, GensAreFinite
    <2>3. IsFiniteSet(live) /\ Cardinality(live) <= Cardinality(row.leases)
      BY <2>2, FS_Subset
    <2>4. Cardinality(live) \in Nat
      BY <2>3, FS_CardinalityType
    <2> QED
      BY <2>1, <2>2, <2>3, <2>4, LedgerHistoryAssumption
  <1>5. span \in Nat /\ span <= KnownSpan /\ KnownSpan \in Nat
    <2>1. keep \in Nat /\ KnownSpan \in Nat
      BY LedgerAssumption, LedgerHistoryAssumption
    <2> QED
      BY <2>1
  <1>6. IsFiniteSet(vouch) /\ Cardinality(vouch) \in Nat /\ Cardinality(vouch) <= KnownSpan
        /\ vouch \subseteq Below(all, g)
    <2>1. span \in Int
      BY <1>5
    <2>2. NewestAre(all, Below(all, g), span, vouch)
      BY <1>1, <1>3, <2>1, NewestIs
    <2> QED
      BY <1>5, <2>2 DEF NewestAre
  <1>7. PICK P : P = vouch \cup {g}
    OBVIOUS
  <1>8. /\ IsFiniteSet(P) /\ Cardinality(P) \in Nat /\ Cardinality(P) <= KnownSpan + 1
    <2>1. IsFiniteSet({g}) /\ Cardinality({g}) = 1
      BY FS_Singleton
    <2>2. /\ IsFiniteSet(P) /\ Cardinality(P) \in Nat
          /\ Cardinality(P) <= Cardinality(vouch) + Cardinality({g})
      BY <1>6, <1>7, <2>1, UnionAtMost
    <2> QED
      BY <1>5, <1>6, <2>1, <2>2
  <1>9. Cardinality(P) <= KnownFill /\ Cardinality(P) + Cardinality(live) <= MaxKnown
    <2>1. /\ KnownFill \in Nat /\ MaxKnown \in Nat /\ MaxLeases \in Nat
          /\ KnownSpan < KnownFill /\ MaxLeases + KnownSpan + 1 <= MaxKnown
      BY LedgerAssumption, LedgerHistoryAssumption
    <2> QED
      BY <1>4, <1>5, <1>8, <2>1
  <1>10. UsableKnownGens(row) = all
    BY <1>1, UsableIsKnown
  <1>11. CASE all = <<>>
    <2>1. NextLedger(row, EntryOf(g), keep, live) = <<EntryOf(g)>>
      BY <1>10, <1>11 DEF NextLedger
    <2>2. Generations(all) = {}
      BY <1>11 DEF Generations
    <2>3. PICK a : a = Append(all, EntryOf(g))
      OBVIOUS
    <2>4. a = <<EntryOf(g)>>
      BY <1>11, <2>3
    <2>5. PICK T : T = {g}
      OBVIOUS
    <2>6. Generations(a) = {g}
      <3>1. EntryOf(g) \in Entries
        BY <1>2, EntriesAre
      <3> QED
        BY <1>2, <1>3, <2>2, <2>3, <3>1, AppendNames
    <2>7. a \in Seq(Entries) /\ a # <<>> /\ a[Len(a)] = EntryOf(g) /\ Len(a) = 1
      <3>1. EntryOf(g) \in Entries
        BY <1>2, EntriesAre
      <3> QED
        BY <2>4, <3>1
    <2>8. Follows(a, CurrentLast(g))
      <3>1. EntryOf(g) \in Entries /\ EntryOf(g).generation \notin Generations(all)
        BY <1>2, EntriesAre
      <3>2. Follows(Append(all, EntryOf(g)), CurrentLast(EntryOf(g).generation))
        BY <1>2, <1>3, <3>1, AppendFollows
      <3> QED
        BY <1>2, <2>3, <3>2
    <2>9. 1 <= MaxKnown
      BY LedgerAssumption
    <2>10. Leaves(a, all, g, vouch \cup live)
      BY <1>2, <2>2, <2>6, <2>7, <2>8, <2>9 DEF Leaves
    <2> QED
      BY <1>1, <2>1, <2>4, <2>10
  <1>12. CASE all # <<>>
    <2>1. PICK S : S = vouch \cup {h \in Generations(all) : h > g} \cup (Below(all, g) \cap live)
      OBVIOUS
    <2>2. PICK s : s = Where(all, S)
      OBVIOUS
    <2>3. s \in Seq(Entries) /\ Generations(s) = Generations(all) \cap S
      BY <1>3, <2>2, WhereIs
    <2>4. Follows(s, order) /\ Distinct(s)
      <3>1. Follows(s, order)
        BY <1>3, <2>2, WhereFollows
      <3> QED
        BY <3>1 DEF Follows
    <2>5. g \notin Generations(s)
      BY <1>2, <2>3
    <2>6. PICK a : a = Append(s, EntryOf(g))
      OBVIOUS
    <2>7. a \in Seq(Entries) /\ Distinct(a)
      <3>1. EntryOf(g) \in Entries /\ EntryOf(g).generation \notin Generations(s)
        BY <1>2, <2>5, EntriesAre
      <3> QED
        BY <2>3, <2>4, <2>6, <3>1, AppendIs, AppendDistinct
    <2>8. PICK c : c = CapKnown(a, P, live)
      OBVIOUS
    <2>9. Cut(c, a, P \cup live)
      BY <1>4, <1>8, <1>9, <2>7, <2>8, CapKnownCuts
    <2>10. NextLedger(row, EntryOf(g), keep, live) = c
      <3>1. keep # NoBound /\ (keep = NoBound \/ keep > KnownSpan <=> keep > KnownSpan)
        BY LedgerHistoryAssumption DEF NoBound
      <3>2. span = IF keep = NoBound \/ keep > KnownSpan THEN KnownSpan ELSE keep
        BY <3>1
      <3>3. PICK e : e = EntryOf(g)
        OBVIOUS
      <3>4. e.generation = g /\ vouch = NewestOf(all, Below(all, g), span)
        BY <1>1, <1>2, <3>3
      <3>5. PICK n : n = IF keep = NoBound \/ keep > KnownSpan THEN KnownSpan ELSE keep
        OBVIOUS
      <3>6. PICK d : d = Append(Where(all, vouch \cup {h \in Generations(all) : h > e.generation}
                                               \cup (Below(all, e.generation) \cap live)), e)
        OBVIOUS
      <3>7. d = a /\ NewestOf(all, Below(all, e.generation), n) = vouch
        BY <2>1, <2>2, <2>6, <3>2, <3>3, <3>4, <3>5, <3>6
      <3>8. NextLedger(row, e, keep, live)
              = CHOOSE r \in {CapKnown(known, fresh \cup {e.generation}, live) :
                                known \in {d},
                                fresh \in {NewestOf(all, Below(all, e.generation), n)}} : TRUE
        BY <1>10, <1>12, <3>5, <3>6, <3>7 DEF NextLedger, Of
      <3>9. {CapKnown(known, fresh \cup {e.generation}, live) :
                known \in {d}, fresh \in {NewestOf(all, Below(all, e.generation), n)}} = {c}
        BY <1>7, <2>8, <3>4, <3>7
      <3> QED
        BY <3>3, <3>8, <3>9
    <2>11. Leaves(c, s, g, P \cup live)
      <3>1. g \in P \cup live /\ Cut(c, Append(s, EntryOf(g)), P \cup live)
        BY <1>7, <2>6, <2>9
      <3> QED
        BY <1>2, <1>3, <2>3, <2>4, <2>5, <3>1, CutLeaves
    <2>12. Generations(all) \cap (vouch \cup live) \subseteq Generations(s)
      <3> SUFFICES ASSUME NEW h \in Generations(all), h \in vouch \cup live
                   PROVE  h \in S
        BY <2>3
      <3>1. h # g /\ h \in Int
        BY <1>2, <1>3, EntriesAre
      <3>2. h < g \/ h > g
        BY <1>2, <3>1
      <3> QED
        BY <2>1, <3>2 DEF Below
    <2>13. Leaves(c, all, g, vouch \cup live)
      BY <1>7, <2>3, <2>11, <2>12 DEF Leaves
    <2> QED
      BY <1>1, <2>10, <2>13
  <1> QED
    BY <1>11, <1>12

-----------------------------------------------------------------------------
(* A rollback.                                                             *)

(* A rollback keeps the leased ones, and all of them if it knew its target.*)
LEMMA RollbackLeaves ==
    ASSUME IInv, NEW g \in Gens, g # row.currentGen
    PROVE  /\ Leaves(RollbackKnown(row, EntryOf(g)), row.knownGens, g, row.leases)
           /\ g \in Known => Generations(RollbackKnown(row, EntryOf(g))) = Known
  <1>1. PICK all, Q : all = row.knownGens /\ Q = row.leases
    OBVIOUS
  <1>2. /\ all \in Seq(Entries) /\ order \in Seq(Gens) /\ Once(order) /\ Follows(all, order)
        /\ Distinct(all) /\ Known = Generations(all) /\ Len(all) <= MaxKnown
    BY <1>1 DEF IInv, Follows, Known
  <1>3. EntryOf(g) \in Entries /\ EntryOf(g).generation = g
    BY EntriesAre
  <1>4. UsableKnownGens(row) = all
    BY <1>1, UsableIsKnown
  <1>5. CASE all = <<>>
    <2>1. RollbackKnown(row, EntryOf(g)) = <<>>
      BY <1>4, <1>5 DEF RollbackKnown
    <2>2. Generations(all) = {}
      BY <1>5 DEF Generations
    <2>3. Follows(<<>>, CurrentLast(g))
      BY DEF Follows, Distinct, Generations
    <2>4. <<>> \in Seq(Entries) /\ Len(<<>>) <= MaxKnown
      BY LedgerAssumption
    <2>5. Leaves(<<>>, all, g, Q)
      BY <1>5, <2>2, <2>3, <2>4 DEF Leaves
    <2> QED
      BY <1>1, <1>2, <1>5, <2>1, <2>2, <2>5
  <1>6. CASE all # <<>>
    <2>1. PICK s : s = Where(all, Generations(all) \ {g})
      OBVIOUS
    <2>2. s \in Seq(Entries) /\ Generations(s) = Generations(all) \ {g}
      <3>1. s \in Seq(Entries) /\ Generations(s) = Generations(all) \cap (Generations(all) \ {g})
        BY <1>2, <2>1, WhereIs
      <3> QED
        BY <3>1
    <2>3. Follows(s, order) /\ Distinct(s)
      <3>1. Follows(s, order)
        BY <1>2, <2>1, WhereFollows
      <3> QED
        BY <3>1 DEF Follows
    <2>4. PICK a : a = Append(s, EntryOf(g))
      OBVIOUS
    <2>5. MakeCurrent(all, EntryOf(g)) = a
      BY <1>3, <2>1, <2>4 DEF MakeCurrent
    <2>6. /\ a \in Seq(Entries) /\ Distinct(a) /\ Generations(a) = Generations(s) \cup {g}
      <3>1. g \notin Generations(s)
        BY <2>2
      <3> QED
        BY <1>3, <2>2, <2>3, <2>4, <3>1, AppendIs, AppendDistinct, AppendNames
    <2>7. CASE g \in Generations(all)
      <3>1. Generations(a) = Generations(all)
        BY <2>2, <2>6, <2>7
      <3>2. Len(a) <= MaxKnown
        BY <1>2, <2>6, <3>1, NamesAreFinite
      <3>3. RollbackKnown(row, EntryOf(g)) = a
        BY <1>3, <1>4, <1>6, <2>5, <2>7, <3>2 DEF RollbackKnown
      <3>4. Follows(a, CurrentLast(g))
        <4>1. g \notin Generations(s)
          BY <2>2
        <4>2. Follows(Append(s, EntryOf(g)), CurrentLast(EntryOf(g).generation))
          BY <1>2, <1>3, <2>2, <2>3, <4>1, AppendFollows
        <4> QED
          BY <1>3, <2>4, <4>2
      <3>5. a[Len(a)].generation = g
        BY <1>3, <2>2, <2>4, AppendIs
      <3>6. Leaves(a, all, g, Q)
        BY <2>6, <3>1, <3>2, <3>4, <3>5 DEF Leaves
      <3> QED
        BY <1>1, <1>2, <3>1, <3>3, <3>6
    <2>8. CASE g \notin Generations(all)
      <3>1. PICK P : P = {g, row.currentGen}
        OBVIOUS
      <3>2. IsFiniteSet(P) /\ Cardinality(P) <= KnownFill
        <4>1. IsFiniteSet({g}) /\ Cardinality({g}) = 1
          BY FS_Singleton
        <4>2. /\ IsFiniteSet({row.currentGen}) /\ Cardinality({row.currentGen}) = 1
          BY FS_Singleton
        <4>3. P = {g} \cup {row.currentGen}
          BY <3>1
        <4>4. IsFiniteSet(P) /\ Cardinality(P) \in Nat /\ Cardinality(P) <= 1 + 1
          BY <4>1, <4>2, <4>3, UnionAtMost
        <4>5. 2 <= KnownFill /\ KnownFill \in Nat
          BY LedgerAssumption, LedgerHistoryAssumption
        <4> QED
          BY <4>4, <4>5
      <3>3. IsFiniteSet(Q) /\ KnownFill + Cardinality(Q) <= MaxKnown
        <4>1. Q \subseteq Gens /\ Cardinality(Q) <= MaxLeases
          BY <1>1 DEF IInv
        <4>2. IsFiniteSet(Q) /\ Cardinality(Q) \in Nat
          BY <4>1, GensAreFinite
        <4>3. /\ KnownFill \in Nat /\ MaxLeases \in Nat /\ MaxKnown \in Nat
              /\ MaxLeases + KnownFill <= MaxKnown
          BY LedgerAssumption, LedgerHistoryAssumption
        <4> QED
          BY <4>1, <4>2, <4>3
      <3>4. PICK c : c = CapInsert(a, P, Q)
        OBVIOUS
      <3>5. Cut(c, a, P \cup Q)
        BY <2>6, <3>2, <3>3, <3>4, CapInsertCuts
      <3>6. RollbackKnown(row, EntryOf(g)) = c
        BY <1>1, <1>3, <1>4, <1>6, <2>5, <2>8, <3>1, <3>4 DEF RollbackKnown
      <3>7. Leaves(c, s, g, P \cup Q)
        <4>1. g \in P \cup Q /\ Cut(c, Append(s, EntryOf(g)), P \cup Q)
          BY <2>4, <3>1, <3>5
        <4>2. g \notin Generations(s)
          BY <2>2
        <4> QED
          BY <1>2, <2>2, <2>3, <4>1, <4>2, CutLeaves
      <3>8. Leaves(c, all, g, Q)
        BY <2>2, <2>8, <3>7 DEF Leaves
      <3> QED
        BY <1>1, <1>2, <2>8, <3>6, <3>8
    <2> QED
      BY <2>7, <2>8
  <1> QED
    BY <1>5, <1>6

-----------------------------------------------------------------------------
(* The steps.                                                              *)

(* The history names each generation once, whichever is made current.      *)
LEMMA HistoryGoesOn ==
    ASSUME IInv, NEW g \in Gens
    PROVE  CurrentLast(g) \in Seq(Gens) /\ Once(CurrentLast(g))
  <1>1. order \in Seq(Gens) /\ Once(order)
    BY DEF IInv
  <1>2. MadeLast(CurrentLast(g), g)
    BY <1>1, CurrentLastIs
  <1> QED
    BY <1>2 DEF MadeLast

(* What a publish leaves: a ledger that keeps what it vouches for and what *)
(* is leased, each of them in the bucket.                                  *)
LEMMA PublishSteps ==
    ASSUME IInv, NEW keep \in Keeps, NEW live \in SUBSET row.leases, Publish(keep, live),
           NEW span, span = IF keep > KnownSpan THEN KnownSpan ELSE keep
    PROVE  /\ Leaves(row'.knownGens, row.knownGens, Number,
                     NewestOf(row.knownGens, Below(row.knownGens, Number), span) \cup live)
           /\ Number \in Gens /\ Number \notin present
           /\ row' = RowAt(Number, row'.knownGens, live)
           /\ row'.currentGen = Number /\ row'.leases = live
           /\ Known' = Generations(row'.knownGens)
           /\ Known' \subseteq present' /\ present' \subseteq Gens
           /\ order' = CurrentLast(Number)
  <1>1. PICK g, k : g = Number /\ k = NextLedger(row, EntryOf(g), keep, live)
    OBVIOUS
  <1>2. /\ g \in Gens /\ row' = RowAt(g, k, live) /\ order' = CurrentLast(g)
        /\ present' = (present \ Kept(row, EntryOf(g), keep, live).evict) \cup {g}
    BY <1>1 DEF Publish
  <1>3. /\ row'.knownGens = k /\ row'.currentGen = g /\ row'.leases = live
    BY <1>2 DEF RowAt
  <1>4. g \notin present
    BY <1>1, NumberIsNew
  <1>5. Leaves(k, row.knownGens, g,
               NewestOf(row.knownGens, Below(row.knownGens, g), span) \cup live)
    BY <1>1, <1>2, PublishLeaves
  <1>6. Known' = Generations(k)
    BY <1>3 DEF Known
  <1>7. Generations(k) \subseteq Known \cup {g} /\ Known \subseteq present /\ present \subseteq Gens
    BY <1>5 DEF Leaves, Known, IInv
  <1>8. Known' \subseteq present'
    <2>1. PICK E : E = Kept(row, EntryOf(g), keep, live).evict
      OBVIOUS
    <2>2. E \subseteq Below(UsableKnownGens(row), g) \ Below(k, g)
      BY <1>1, <1>2, <2>1, EntriesAre DEF Kept
    <2>3. ASSUME NEW h \in Generations(k), h # g
          PROVE  h \notin E
      <3>1. \A x : x \in E => x < g /\ ~(x \in Generations(k) /\ x < g)
        BY <2>2 DEF Below
      <3> QED
        BY <3>1
    <2> QED
      BY <1>2, <1>6, <1>7, <2>1, <2>3
  <1>9. present' \subseteq Gens
    BY <1>2, <1>7
  <1> QED
    BY <1>1, <1>2, <1>3, <1>4, <1>5, <1>6, <1>8, <1>9

(* What a rollback leaves.                                                 *)
LEMMA RollbackSteps ==
    ASSUME IInv, NEW g \in Gens, Rollback(g)
    PROVE  /\ Leaves(row'.knownGens, row.knownGens, g, row.leases)
           /\ g \in Known => Known' = Known
           /\ g # row.currentGen
           /\ row' = RowAt(g, row'.knownGens, row.leases)
           /\ row'.currentGen = g /\ row'.leases = row.leases
           /\ Known' = Generations(row'.knownGens)
           /\ Known' \subseteq present' /\ present' = present
           /\ order' = CurrentLast(g)
  <1>1. PICK k : k = RollbackKnown(row, EntryOf(g))
    OBVIOUS
  <1>2. /\ row' = RowAt(g, k, row.leases) /\ order' = CurrentLast(g) /\ present' = present
        /\ g \in present /\ g # row.currentGen
    BY <1>1 DEF Rollback
  <1>3. row'.knownGens = k /\ row'.currentGen = g /\ row'.leases = row.leases
    BY <1>2 DEF RowAt
  <1>4. Leaves(k, row.knownGens, g, row.leases) /\ (g \in Known => Generations(k) = Known)
    BY <1>1, <1>2, RollbackLeaves
  <1>5. Known' = Generations(k)
    BY <1>3 DEF Known
  <1>6. Known' \subseteq present'
    BY <1>2, <1>4, <1>5 DEF Leaves, IInv, Known
  <1> QED
    BY <1>2, <1>3, <1>4, <1>5, <1>6

(* A lease changes the leases, and they stay within their bound.           *)
LEMMA LeaseSteps ==
    ASSUME IInv, NEW g \in Gens, TakeLease(g)
    PROVE  /\ row' = RowAt(row.currentGen, row.knownGens, row'.leases)
           /\ row'.currentGen = row.currentGen /\ row'.knownGens = row.knownGens
           /\ row'.leases \subseteq Gens /\ Cardinality(row'.leases) <= MaxLeases
           /\ Known' = Known /\ present' = present /\ order' = order
  <1>1. PICK L : L = row.leases \cup {g}
    OBVIOUS
  <1>2. /\ row' = RowAt(row.currentGen, row.knownGens, L) /\ g \notin row.leases
        /\ Cardinality(row.leases) < MaxLeases /\ present' = present /\ order' = order
    BY <1>1 DEF TakeLease
  <1>3. /\ row'.currentGen = row.currentGen /\ row'.knownGens = row.knownGens /\ row'.leases = L
    BY <1>2 DEF RowAt
  <1>4. L \subseteq Gens /\ Cardinality(L) <= MaxLeases
    <2>1. row.leases \subseteq Gens
      BY DEF IInv
    <2>2. IsFiniteSet(row.leases) /\ Cardinality(row.leases) \in Nat
      BY <2>1, GensAreFinite
    <2>3. Cardinality(L) = Cardinality(row.leases) + 1
      BY <1>1, <1>2, <2>2, FS_AddElement
    <2> QED
      BY <1>1, <1>2, <2>1, <2>2, <2>3, LedgerHistoryAssumption
  <1>5. Known' = Known
    BY <1>3 DEF Known
  <1> QED
    BY <1>2, <1>3, <1>4, <1>5

(* A row with no pointer satisfies the invariant.                          *)
LEMMA Initially == Init => IInv
  <1> SUFFICES ASSUME Init PROVE IInv
    OBVIOUS
  <1>1. row = RowAt(NoGen, <<>>, {}) /\ present = {} /\ order = <<>>
    BY DEF Init
  <1>2. row.currentGen = NoGen /\ row.knownGens = <<>> /\ row.leases = {}
    BY <1>1 DEF RowAt
  <1>3. Known = {} /\ Follows(<<>>, order) /\ Once(order)
    BY <1>1, <1>2 DEF Known, Generations, Follows, Distinct, Once
  <1>4. /\ <<>> \in Seq(Entries) /\ order \in Seq(Gens) /\ Len(<<>>) = 0
        /\ 0 <= MaxKnown
    BY <1>1, LedgerAssumption
  <1>5. Cardinality({}) <= MaxLeases
    BY FS_EmptySet, LedgerHistoryAssumption
  <1> QED
    BY <1>1, <1>2, <1>3, <1>4, <1>5 DEF IInv

(* Every step keeps it.                                                    *)
LEMMA Inductive ==
    ASSUME IInv, [Next]_vars
    PROVE  IInv'
  <1>1. ASSUME NEW keep \in Keeps, NEW live \in SUBSET row.leases, Publish(keep, live)
        PROVE  IInv'
    <2>1. PICK span : span = IF keep > KnownSpan THEN KnownSpan ELSE keep
      OBVIOUS
    <2>2. /\ \E P : Leaves(row'.knownGens, row.knownGens, Number, P)
          /\ Number \in Gens /\ row' = RowAt(Number, row'.knownGens, live)
          /\ row'.currentGen = Number /\ row'.leases = live
          /\ Known' \subseteq present' /\ present' \subseteq Gens
          /\ order' = CurrentLast(Number)
      BY <1>1, <2>1, PublishSteps
    <2>3. live \subseteq Gens /\ Cardinality(live) <= MaxLeases
      <3>1. row.leases \subseteq Gens /\ Cardinality(row.leases) <= MaxLeases
        BY DEF IInv
      <3>2. IsFiniteSet(row.leases) /\ Cardinality(row.leases) \in Nat
        BY <3>1, GensAreFinite
      <3>3. IsFiniteSet(live) /\ Cardinality(live) <= Cardinality(row.leases)
        BY <3>2, FS_Subset
      <3>4. Cardinality(live) \in Nat
        BY <3>3, FS_CardinalityType
      <3> QED
        BY <3>1, <3>2, <3>3, <3>4, LedgerHistoryAssumption
    <2>4. order' \in Seq(Gens) /\ Once(order')
      BY <2>2, HistoryGoesOn
    <2> QED
      BY <2>2, <2>3, <2>4 DEF IInv, Leaves
  <1>2. ASSUME NEW g \in Gens, Rollback(g)
        PROVE  IInv'
    <2>1. /\ Leaves(row'.knownGens, row.knownGens, g, row.leases)
          /\ row' = RowAt(g, row'.knownGens, row.leases)
          /\ row'.currentGen = g /\ row'.leases = row.leases
          /\ Known' \subseteq present' /\ present' = present
          /\ order' = CurrentLast(g)
      BY <1>2, RollbackSteps
    <2>2. order' \in Seq(Gens) /\ Once(order')
      BY <2>1, HistoryGoesOn
    <2> QED
      BY <2>1, <2>2 DEF IInv, Leaves
  <1>3. ASSUME NEW g \in Gens, TakeLease(g)
        PROVE  IInv'
    <2>1. /\ row' = RowAt(row.currentGen, row.knownGens, row'.leases)
          /\ row'.currentGen = row.currentGen /\ row'.knownGens = row.knownGens
          /\ row'.leases \subseteq Gens /\ Cardinality(row'.leases) <= MaxLeases
          /\ Known' = Known /\ present' = present /\ order' = order
      BY <1>3, LeaseSteps
    <2> QED
      BY <2>1 DEF IInv
  <1>4. ASSUME UNCHANGED vars
        PROVE  IInv'
    <2>1. row' = row /\ present' = present /\ order' = order
      BY <1>4 DEF vars
    <2> QED
      BY <2>1 DEF IInv, Known
  <1> QED
    BY <1>1, <1>2, <1>3, <1>4 DEF Next

-----------------------------------------------------------------------------
(* The theorems.                                                           *)

(* In every reachable state the row's ledger is a ledger of its pointer:   *)
(* no longer than MaxKnown, and in the order of the history.               *)
THEOREM Invariance == Spec => []IInv
  <1>1. Init => IInv
    BY Initially
  <1>2. IInv /\ [Next]_vars => IInv'
    BY Inductive
  <1> QED
    BY <1>1, <1>2, PTL DEF Spec

(* After any publishes, rollbacks and leases, a ledger is the history with *)
(* entries missing, usable under its pointer, and never past its bound.    *)
THEOREM LedgerFollowsHistoryHolds == Spec => []LedgerFollowsHistory
  <1>1. ASSUME IInv PROVE LedgerFollowsHistory
    <2>1. PICK s : s = row.knownGens
      OBVIOUS
    <2>2. /\ order \in Seq(Gens) /\ Once(order) /\ s \in Seq(Entries) /\ Follows(s, order)
          /\ Generations(s) \subseteq Gens /\ Len(s) <= MaxKnown /\ Known = Generations(s)
      BY <1>1, <2>1, EntriesAre DEF IInv, Known
    <2>3. [i \in DOMAIN s |-> s[i].generation]
            = EntriesAt(order, {k \in DOMAIN order : order[k] \in Generations(s)})
      BY <2>2, FollowsIsHistory
    <2>4. UsableKnownGens(row) = s
      BY <1>1, <2>1, UsableIsKnown
    <2> QED
      BY <2>1, <2>2, <2>3, <2>4 DEF LedgerFollowsHistory
  <1> QED
    BY <1>1, Invariance, PTL

(* A publish keeps the most recently current generations below it that the *)
(* ledger named, `keep` of them, in the ledger and in the bucket.          *)
THEOREM KeepsTheMostRecentlyCurrentHolds == Spec => KeepsTheMostRecentlyCurrent
  <1>1. ASSUME IInv, NEW keep \in Keeps, NEW live \in SUBSET row.leases, Publish(keep, live),
               NEW span, span = IF keep > KnownSpan THEN KnownSpan ELSE keep
        PROVE  LastCurrent({g \in Known : g < row'.currentGen}, span) \subseteq Known' \cap present'
    <2>1. PICK s, n : s = row.knownGens /\ n = Number
      OBVIOUS
    <2>2. PICK S : S = Below(s, n)
      OBVIOUS
    <2>3. /\ Leaves(row'.knownGens, s, n, NewestOf(s, S, span) \cup live)
          /\ row'.currentGen = n /\ Known' = Generations(row'.knownGens) /\ Known' \subseteq present'
      BY <1>1, <2>1, <2>2, PublishSteps
    <2>4. span \in Int
      BY <1>1, LedgerAssumption, LedgerHistoryAssumption
    <2>5. /\ order \in Seq(Gens) /\ Once(order) /\ s \in Seq(Entries) /\ Follows(s, order)
          /\ Distinct(s)
      BY <1>1, <2>1 DEF IInv, Follows
    <2>6. S \subseteq Generations(s)
      BY <2>2 DEF Below
    <2>7. LastCurrent(S, span) \subseteq NewestOf(s, S, span)
      BY <2>4, <2>5, <2>6, NewestAreLastCurrent
    <2>8. NewestOf(s, S, span) \subseteq Generations(s)
      BY DEF NewestOf, Generations
    <2>9. {g \in Known : g < row'.currentGen} = S
      BY <2>1, <2>2, <2>3 DEF Known, Below
    <2>10. NewestOf(s, S, span) \subseteq Known'
      BY <2>3, <2>8 DEF Leaves
    <2> QED
      BY <2>3, <2>7, <2>9, <2>10
  <1>2. ASSUME IInv, [Next]_vars
        PROVE  [\A keep \in Keeps, live \in SUBSET row.leases :
                   Publish(keep, live) =>
                       LET span   == IF keep > KnownSpan THEN KnownSpan ELSE keep
                           window == LastCurrent({g \in Known : g < row'.currentGen}, span)
                       IN  window \subseteq Known' \cap present']_vars
    BY <1>1, <1>2
  <1> QED
    BY <1>2, Invariance, PTL DEF Spec, KeepsTheMostRecentlyCurrent

(* No write forgets or evicts a leased generation the ledger named, and a  *)
(* rollback onto one the row knows forgets nothing.                        *)
THEOREM HeldStayKnownHolds == Spec => HeldStayKnown
  <1>1. ASSUME IInv, Next
        PROVE  /\ row'.leases \cap Known \subseteq Known' \cap present'
               /\ row'.currentGen \in Known /\ row'.currentGen # row.currentGen => Known' = Known
    <2>0. Known \subseteq present
      BY <1>1 DEF IInv
    <2>1. ASSUME NEW keep \in Keeps, NEW live \in SUBSET row.leases, Publish(keep, live)
          PROVE  /\ row'.leases \cap Known \subseteq Known' \cap present'
                 /\ row'.currentGen \notin Known
      <3>1. PICK span : span = IF keep > KnownSpan THEN KnownSpan ELSE keep
        OBVIOUS
      <3>2. /\ \E P : live \subseteq P /\ Leaves(row'.knownGens, row.knownGens, Number, P)
            /\ Number \notin present /\ row'.currentGen = Number /\ row'.leases = live
            /\ Known' = Generations(row'.knownGens) /\ Known' \subseteq present'
        BY <1>1, <2>1, <3>1, PublishSteps
      <3>3. live \cap Known \subseteq Known'
        BY <3>2 DEF Leaves, Known
      <3> QED
        BY <2>0, <3>2, <3>3
    <2>2. ASSUME NEW g \in Gens, Rollback(g)
          PROVE  /\ row'.leases \cap Known \subseteq Known' \cap present'
                 /\ row'.currentGen \in Known => Known' = Known
      <3>1. /\ Leaves(row'.knownGens, row.knownGens, g, row.leases)
            /\ g \in Known => Known' = Known
            /\ row'.currentGen = g /\ row'.leases = row.leases
            /\ Known' = Generations(row'.knownGens) /\ Known' \subseteq present'
        BY <1>1, <2>2, RollbackSteps
      <3>2. row.leases \cap Known \subseteq Known'
        BY <3>1 DEF Leaves, Known
      <3> QED
        BY <3>1, <3>2
    <2>3. ASSUME NEW g \in Gens, TakeLease(g)
          PROVE  /\ row'.leases \cap Known \subseteq Known' \cap present'
                 /\ row'.currentGen = row.currentGen
      BY <1>1, <2>0, <2>3, LeaseSteps
    <2> QED
      BY <1>1, <2>1, <2>2, <2>3 DEF Next
  <1>2. ASSUME IInv, [Next]_vars
        PROVE  [/\ row'.leases \cap Known \subseteq Known' \cap present'
                /\ row'.currentGen \in Known /\ row'.currentGen # row.currentGen => Known' = Known]_vars
    BY <1>1, <1>2
  <1> QED
    BY <1>2, Invariance, PTL DEF Spec, HeldStayKnown
=============================================================================
