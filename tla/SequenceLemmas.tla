--------------------------- MODULE SequenceLemmas ---------------------------
(***************************************************************************)
(* What the operators on queues that PendingInputs is written with (list   *)
(* insertion, removal, concatenation) do to the entries: which there are   *)
(* and how often.  Also the least and the greatest element of sets of      *)
(* numbers, from the well-foundedness of strict inclusion.                 *)
(***************************************************************************)
EXTENDS SequencesExt, FiniteSetTheorems, SequenceTheorems, TLAPS

\* The entry e is in s at one place at most.
Once(s, e) == \A i, j \in DOMAIN s : s[i] = e /\ s[j] = e => i = j

-----------------------------------------------------------------------------
(* Extremal elements *)

\* A nonempty set of subsets of a finite set has one that includes no other.
LEMMA MinimalSubset ==
  ASSUME NEW S, IsFiniteSet(S), NEW F, F \subseteq SUBSET S, F # {}
  PROVE  \E T \in F : \A U \in F : U \subseteq T => U = T
<1>1. IsWellFoundedOn(StrictSubsetOrdering(S), FiniteSubsetsOf(S))
  BY FS_StrictSubsetOrderingWellFounded
<1>2. F \subseteq FiniteSubsetsOf(S)
  BY FS_FiniteSubsetsOfFinite
<1>3. PICK T \in F : \A U \in F : <<U, T>> \notin StrictSubsetOrdering(S)
  BY <1>1, <1>2, WFMin
<1>4. ASSUME NEW U \in F, U \subseteq T
      PROVE  U = T
  <2>1. <<U, T>> \in (SUBSET S) \X (SUBSET S)
    OBVIOUS
  <2> QED
    BY <1>3, <1>4, <2>1 DEF StrictSubsetOrdering
<1> QED
  BY <1>4

\* A nonempty set of numbers has a least element.
LEMMA LeastNatural ==
  ASSUME NEW S \in SUBSET Nat, S # {}
  PROVE  \E n \in S : \A k \in S : n <= k
<1> PICK n \in S : TRUE
  OBVIOUS
<1> DEFINE I == 0..n
           F == {0..k : k \in S \cap I}
<1>1. IsFiniteSet(I)
  BY FS_Interval
<1>2. F \subseteq SUBSET I /\ F # {}
  OBVIOUS
<1>3. PICK T \in F : \A U \in F : U \subseteq T => U = T
  <2> HIDE DEF F, I
  <2> QED
    BY <1>1, <1>2, MinimalSubset
<1>4. PICK k \in S \cap (0..n) : T = 0..k
  BY <1>3
<1>5. ASSUME NEW j \in S, j < k
      PROVE  FALSE
  <2>1. 0..j \in F /\ 0..j \subseteq T
    BY <1>4, <1>5
  <2>2. k \in T /\ k \notin 0..j
    BY <1>4, <1>5
  <2> QED
    BY <1>3, <2>1, <2>2
<1> QED
  BY <1>4, <1>5

\* A nonempty bounded set of numbers has a greatest element.
LEMMA GreatestNatural ==
  ASSUME NEW S \in SUBSET Nat, S # {}, NEW n \in Nat, \A k \in S : k <= n
  PROVE  \E k \in S : \A j \in S : j <= k
<1> DEFINE D == {n - k : k \in S}
<1>1. D \in SUBSET Nat /\ D # {}
  <2>1. ASSUME NEW k \in S
        PROVE  n - k \in Nat
    <3>1. k \in Nat /\ k <= n
      OBVIOUS
    <3> QED
      BY <3>1
  <2>2. PICK k \in S : TRUE
    OBVIOUS
  <2>3. D \in SUBSET Nat
    BY <2>1
  <2>4. n - k \in D
    BY <2>2
  <2> QED
    BY <2>3, <2>4
<1>2. PICK d \in D : \A e \in D : d <= e
  BY <1>1, LeastNatural
<1>3. PICK k \in S : d = n - k
  BY <1>2
<1>4. ASSUME NEW j \in S
      PROVE  j <= k
  <2>1. n - j \in D
    OBVIOUS
  <2>2. n - k <= n - j
    BY <1>2, <1>3, <2>1
  <2> QED
    BY <2>2
<1> QED
  BY <1>4

\* Max chooses it.
LEMMA MaxIsGreatest ==
  ASSUME NEW S \in SUBSET Nat, S # {}, NEW n \in Nat, \A k \in S : k <= n
  PROVE  Max(S) \in S /\ \A k \in S : k <= Max(S)
<1>1. PICK k \in S : \A j \in S : j <= k
  BY GreatestNatural
<1>2. \A j \in S : k >= j
  BY <1>1
<1>3. Max(S) \in S /\ \A j \in S : Max(S) >= j
  BY <1>1, <1>2 DEF Max
<1> QED
  BY <1>3

-----------------------------------------------------------------------------
(* Sequences *)

\* The entries of a sequence.
LEMMA Entries ==
  ASSUME NEW M, NEW s \in Seq(M)
  PROVE  /\ DOMAIN s = 1..Len(s) /\ Len(s) \in Nat
         /\ ToSet(s) \subseteq M
         /\ \A e : e \in ToSet(s) <=> \E i \in 1..Len(s) : s[i] = e
         /\ s = <<>> <=> ToSet(s) = {}
BY DEF ToSet

\* Concatenation.
LEMMA Concat ==
  ASSUME NEW M, NEW s \in Seq(M), NEW t \in Seq(M)
  PROVE  /\ s \o t \in Seq(M)
         /\ ToSet(s \o t) = ToSet(s) \cup ToSet(t)
         /\ \A e : Once(s, e) /\ Once(t, e)
                   /\ ~(e \in ToSet(s) /\ e \in ToSet(t)) => Once(s \o t, e)
<1> DEFINE st == s \o t
<1>1. /\ st \in Seq(M) /\ Len(st) = Len(s) + Len(t)
      /\ DOMAIN st = 1..Len(st)
      /\ \A i \in 1..Len(st) :
           st[i] = IF i <= Len(s) THEN s[i] ELSE t[i - Len(s)]
  BY ConcatProperties
<1>2. ASSUME NEW i \in 1..Len(st)
      PROVE  \/ i \in 1..Len(s) /\ st[i] = s[i]
             \/ i - Len(s) \in 1..Len(t) /\ st[i] = t[i - Len(s)]
  BY <1>1
<1>3. ASSUME NEW i \in 1..Len(s)
      PROVE  i \in 1..Len(st) /\ st[i] = s[i]
  BY <1>1
<1>4. ASSUME NEW i \in 1..Len(t)
      PROVE  Len(s) + i \in 1..Len(st) /\ st[Len(s) + i] = t[i]
  BY <1>1
<1> HIDE DEF st
<1>5. ToSet(st) = ToSet(s) \cup ToSet(t)
  <2>1. \A e : e \in ToSet(s) <=> \E k \in 1..Len(s) : s[k] = e
    BY Entries
  <2>2. \A e : e \in ToSet(t) <=> \E k \in 1..Len(t) : t[k] = e
    BY Entries
  <2>3. \A e : e \in ToSet(st) <=> \E k \in 1..Len(st) : st[k] = e
    BY <1>1, Entries
  <2> QED
    BY <1>2, <1>3, <1>4, <2>1, <2>2, <2>3
<1>6. ASSUME NEW e, Once(s, e), Once(t, e),
             ~(e \in ToSet(s) /\ e \in ToSet(t)),
             NEW i \in 1..Len(st), NEW j \in 1..Len(st), st[i] = e, st[j] = e
      PROVE  i = j
  <2>1. e \in ToSet(s) <=> \E k \in 1..Len(s) : s[k] = e
    BY Entries
  <2>2. e \in ToSet(t) <=> \E k \in 1..Len(t) : t[k] = e
    BY Entries
  <2>3. CASE e \in ToSet(s)
    <3>1. i \in 1..Len(s) /\ j \in 1..Len(s) /\ s[i] = e /\ s[j] = e
      BY <1>2, <1>6, <2>2, <2>3
    <3> QED
      BY <3>1, <1>6 DEF Once
  <2>4. CASE e \notin ToSet(s)
    <3>1. /\ i - Len(s) \in 1..Len(t) /\ j - Len(s) \in 1..Len(t)
          /\ t[i - Len(s)] = e /\ t[j - Len(s)] = e
      BY <1>2, <1>6, <2>1, <2>4
    <3>2. i - Len(s) = j - Len(s)
      BY <3>1, <1>6 DEF Once
    <3> QED
      BY <3>2
  <2> QED
    BY <2>3, <2>4
<1>7. \A e : Once(s, e) /\ Once(t, e)
             /\ ~(e \in ToSet(s) /\ e \in ToSet(t)) => Once(st, e)
  BY <1>1, <1>6 DEF Once
<1> QED
  BY <1>1, <1>5, <1>7 DEF st

\* Append, and a sequence of one entry.
LEMMA Appended ==
  ASSUME NEW M, NEW s \in Seq(M), NEW m \in M
  PROVE  /\ Append(s, m) \in Seq(M)
         /\ ToSet(Append(s, m)) = ToSet(s) \cup {m}
         /\ \A e : Once(s, e) /\ ~(e = m /\ m \in ToSet(s))
                => Once(Append(s, m), e)
<1> DEFINE t == <<m>>
<1>1. /\ t \in Seq(M) /\ ToSet(t) = {m} /\ \A e : Once(t, e)
  BY DEF ToSet, Once
<1>2. Append(s, m) = s \o t
  BY AppendIsConcat
<1> HIDE DEF t
<1> QED
  BY <1>1, <1>2, Concat

\* Removal at a position.
LEMMA Removed ==
  ASSUME NEW M, NEW s \in Seq(M), NEW i \in 1..Len(s)
  PROVE  /\ RemoveAt(s, i) \in Seq(M)
         /\ ToSet(s) = ToSet(RemoveAt(s, i)) \cup {s[i]}
         /\ \A e : Once(s, e) => Once(RemoveAt(s, i), e)
         /\ Once(s, s[i]) => s[i] \notin ToSet(RemoveAt(s, i))
<1> DEFINE p == SubSeq(s, 1, i-1)
           q == SubSeq(s, i+1, Len(s))
           r == RemoveAt(s, i)
<1>1. /\ p \in Seq(M) /\ Len(p) = i-1 /\ \A j \in 1..(i-1) : p[j] = s[j]
  <2>1. \A j \in 1..(i-1) : s[j] \in M
    BY ElementOfSeq
  <2>2. i-1 \in Int /\ Len(s) \in Nat
    OBVIOUS
  <2> QED
    BY <2>1, <2>2, SubSeqProperties
<1>2. /\ q \in Seq(M) /\ Len(q) = Len(s) - i
      /\ \A j \in 1..(Len(s) - i) : q[j] = s[i+j]
  <2>1. \A j \in (i+1)..Len(s) : s[j] \in M
    BY ElementOfSeq
  <2>2. i+1 \in Int /\ Len(s) \in Nat
    OBVIOUS
  <2>3. /\ q \in Seq(M) /\ Len(q) = (IF i+1 <= Len(s) THEN Len(s)-(i+1)+1 ELSE 0)
        /\ \A j \in 1..(Len(s)-(i+1)+1) : q[j] = s[(i+1)+j-1]
    BY <2>1, <2>2, SubSeqProperties
  <2> QED
    BY <2>2, <2>3
<1>3. r = p \o q
  BY DEF RemoveAt
<1> HIDE DEF p, q, r
<1>4. /\ r \in Seq(M) /\ Len(r) = Len(s) - 1
      /\ \A j \in 1..Len(r) : r[j] = IF j < i THEN s[j] ELSE s[j+1]
  <2>1. /\ r \in Seq(M) /\ Len(r) = Len(p) + Len(q)
        /\ \A j \in 1..(Len(p) + Len(q)) :
             r[j] = IF j <= Len(p) THEN p[j] ELSE q[j - Len(p)]
    BY <1>1, <1>2, <1>3, ConcatProperties
  <2> QED
    BY <1>1, <1>2, <2>1
<1>5. \A e : e \in ToSet(s) <=> \E k \in 1..Len(s) : s[k] = e
  BY Entries
<1>6. \A e : e \in ToSet(r) <=> \E k \in 1..Len(r) : r[k] = e
  BY <1>4, Entries
<1>7. ToSet(s) = ToSet(r) \cup {s[i]}
  <2>1. ASSUME NEW k \in 1..Len(s), k # i
        PROVE  \E j \in 1..Len(r) : r[j] = s[k]
    <3>1. CASE k < i
      BY <1>4, <3>1
    <3>2. CASE i < k
      <4>1. k-1 \in 1..Len(r) /\ r[k-1] = s[k]
        BY <1>4, <3>2
      <4> QED
        BY <4>1
    <3> QED
      BY <2>1, <3>1, <3>2
  <2>2. ASSUME NEW k \in 1..Len(r)
        PROVE  \E j \in 1..Len(s) : r[k] = s[j]
    BY <1>4
  <2> QED
    BY <1>5, <1>6, <2>1, <2>2
<1>8. ASSUME NEW e, Once(s, e)
      PROVE  Once(r, e)
  <2> DEFINE Old(j) == IF j < i THEN j ELSE j+1
  <2>1. /\ DOMAIN r = 1..Len(r)
        /\ \A j \in 1..Len(r) : Old(j) \in DOMAIN s /\ r[j] = s[Old(j)]
    BY <1>4
  <2>2. \A j, k \in 1..Len(r) : Old(j) = Old(k) => j = k
    BY <1>4
  <2> HIDE DEF Old
  <2> QED
    BY <1>8, <2>1, <2>2 DEF Once
<1>9. ASSUME Once(s, s[i]), NEW k \in 1..Len(r), r[k] = s[i]
      PROVE  FALSE
  BY <1>4, <1>9 DEF Once
<1> QED
  BY <1>4, <1>6, <1>7, <1>8, <1>9 DEF r

\* Insertion before a position.
LEMMA Inserted ==
  ASSUME NEW M, NEW s \in Seq(M), NEW i \in 1..(Len(s)+1), NEW m \in M
  PROVE  /\ InsertAt(s, i, m) \in Seq(M)
         /\ ToSet(InsertAt(s, i, m)) = ToSet(s) \cup {m}
         /\ \A e : Once(s, e) /\ ~(e = m /\ m \in ToSet(s))
                => Once(InsertAt(s, i, m), e)
<1> DEFINE p == SubSeq(s, 1, i-1)
           q == SubSeq(s, i, Len(s))
           pm == Append(p, m)
           r == InsertAt(s, i, m)
<1>1. /\ p \in Seq(M) /\ Len(p) = i-1 /\ \A j \in 1..(i-1) : p[j] = s[j]
  <2>1. \A j \in 1..(i-1) : s[j] \in M
    BY ElementOfSeq
  <2>2. i-1 \in Int /\ Len(s) \in Nat
    OBVIOUS
  <2> QED
    BY <2>1, <2>2, SubSeqProperties
<1>2. /\ q \in Seq(M) /\ Len(q) = Len(s) - i + 1
      /\ \A j \in 1..(Len(s) - i + 1) : q[j] = s[i+j-1]
  <2>1. \A j \in i..Len(s) : s[j] \in M
    BY ElementOfSeq
  <2>2. i \in Int /\ Len(s) \in Nat
    OBVIOUS
  <2>3. /\ q \in Seq(M) /\ Len(q) = (IF i <= Len(s) THEN Len(s)-i+1 ELSE 0)
        /\ \A j \in 1..(Len(s)-i+1) : q[j] = s[i+j-1]
    BY <2>1, <2>2, SubSeqProperties
  <2> QED
    BY <2>2, <2>3
<1>3. r = pm \o q /\ s = p \o q
  <2>1. pm = p \o <<m>>
    BY <1>1, AppendIsConcat
  <2>2. s = p \o q
    <3>1. /\ p \o q \in Seq(M) /\ Len(p \o q) = Len(p) + Len(q)
          /\ \A j \in 1..(Len(p) + Len(q)) :
               (p \o q)[j] = IF j <= Len(p) THEN p[j] ELSE q[j - Len(p)]
      BY <1>1, <1>2, ConcatProperties
    <3>2. /\ Len(p \o q) = Len(s)
          /\ \A j \in 1..Len(s) : (p \o q)[j] = s[j]
      <4> HIDE DEF p, q
      <4>1. Len(s) \in Nat /\ i \in 1..(Len(s)+1)
        BY Entries
      <4>2. Len(p \o q) = Len(s)
        BY <1>1, <1>2, <3>1, <4>1
      <4>3. ASSUME NEW j \in 1..Len(s)
            PROVE  (p \o q)[j] = s[j]
        <5>1. CASE j < i
          BY <1>1, <1>2, <3>1, <4>1, <5>1
        <5>2. CASE ~(j < i)
          <6>1. j - (i-1) \in 1..(Len(s) - i + 1) /\ i + (j - (i-1)) - 1 = j
            BY <4>1, <5>2
          <6>2. q[j - (i-1)] = s[j]
            BY <1>2, <6>1
          <6> QED
            BY <1>1, <1>2, <3>1, <4>1, <5>2, <6>2
        <5> QED
          BY <5>1, <5>2
      <4> QED
        BY <4>2, <4>3
    <3> QED
      BY <3>1, <3>2, SeqEqual
  <2> QED
    BY <2>1, <2>2 DEF InsertAt
<1> HIDE DEF p, q, pm, r
<1>4. ToSet(s) = ToSet(p) \cup ToSet(q)
  BY <1>1, <1>2, <1>3, Concat
<1>5. /\ pm \in Seq(M) /\ ToSet(pm) = ToSet(p) \cup {m}
      /\ \A e : Once(p, e) /\ ~(e = m /\ m \in ToSet(p)) => Once(pm, e)
  BY <1>1, Appended DEF pm
<1>6. /\ r \in Seq(M) /\ ToSet(r) = ToSet(pm) \cup ToSet(q)
      /\ \A e : Once(pm, e) /\ Once(q, e)
                 /\ ~(e \in ToSet(pm) /\ e \in ToSet(q)) => Once(r, e)
  BY <1>2, <1>3, <1>5, Concat
<1>7. ASSUME NEW e, Once(s, e)
      PROVE  Once(p, e) /\ Once(q, e) /\ ~(e \in ToSet(p) /\ e \in ToSet(q))
  <2>1. Once(p, e)
    BY <1>1, <1>7 DEF Once
  <2>2. Once(q, e)
    <3>1. /\ DOMAIN q = 1..Len(q)
          /\ \A j \in 1..Len(q) : i+j-1 \in DOMAIN s /\ q[j] = s[i+j-1]
      <4>1. DOMAIN s = 1..Len(s) /\ DOMAIN q = 1..Len(q) /\ Len(s) \in Nat
        BY <1>2, Entries
      <4>2. ASSUME NEW j \in 1..Len(q)
            PROVE  i+j-1 \in 1..Len(s) /\ q[j] = s[i+j-1]
        <5>1. j \in 1..(Len(s) - i + 1) /\ i \in 1..(Len(s)+1)
          BY <1>2, <4>2
        <5>2. i+j-1 \in 1..Len(s)
          BY <4>1, <5>1
        <5>3. q[j] = s[i+j-1]
          BY <1>2, <4>2
        <5> QED
          BY <5>2, <5>3
      <4> QED
        BY <4>1, <4>2
    <3>2. \A j, k \in 1..Len(q) : i+j-1 = i+k-1 => j = k
      BY <1>2
    <3> QED
      BY <1>7, <3>1, <3>2 DEF Once
  <2>3. ASSUME e \in ToSet(p), e \in ToSet(q)
        PROVE  FALSE
    <3>1. PICK j \in 1..Len(p) : p[j] = e
      BY <1>1, <2>3, Entries
    <3>2. PICK k \in 1..Len(q) : q[k] = e
      BY <1>2, <2>3, Entries
    <3>3. /\ j \in DOMAIN s /\ s[j] = e
          /\ i+k-1 \in DOMAIN s /\ s[i+k-1] = e /\ j # i+k-1
      BY <1>1, <1>2, <3>1, <3>2
    <3> QED
      BY <1>7, <3>3 DEF Once
  <2> QED
    BY <2>1, <2>2, <2>3
<1>8. ASSUME NEW e, Once(s, e), ~(e = m /\ m \in ToSet(s))
      PROVE  Once(r, e)
  BY <1>4, <1>5, <1>6, <1>7, <1>8
<1> QED
  BY <1>4, <1>5, <1>6, <1>8 DEF r

\* Removal of the first occurrence.
LEMMA RemovedFirst ==
  ASSUME NEW M, NEW s \in Seq(M), NEW m \in ToSet(s)
  PROVE  /\ RemoveFirst(s, m) \in Seq(M)
         /\ ToSet(s) = ToSet(RemoveFirst(s, m)) \cup {m}
         /\ \A e : Once(s, e) => Once(RemoveFirst(s, m), e)
         /\ Once(s, m) => m \notin ToSet(RemoveFirst(s, m))
<1> DEFINE I == {i \in 1..Len(s) : s[i] = m}
<1>1. I \in SUBSET Nat /\ I # {}
  BY Entries
<1>2. Min(I) \in I
  BY <1>1, LeastNatural DEF Min
<1>3. RemoveFirst(s, m) = RemoveAt(s, Min(I))
  BY <1>1 DEF RemoveFirst, SelectInSeq
<1>4. Min(I) \in 1..Len(s) /\ s[Min(I)] = m
  BY <1>2
<1> HIDE DEF I
<1> QED
  BY <1>3, <1>4, Removed

\* The position of the first occurrence.
LEMMA Selected ==
  ASSUME NEW M, NEW s \in Seq(M), NEW m
  PROVE  LET i == SelectInSeq(s, LAMBDA e : e = m)
         IN  i # 0 => i \in 1..Len(s) /\ s[i] = m
<1> DEFINE I == {i \in 1..Len(s) : s[i] = m}
<1>1. I \in SUBSET Nat
  BY Entries
<1>2. I # {} => Min(I) \in I
  BY <1>1, LeastNatural DEF Min
<1>3. SelectInSeq(s, LAMBDA e : e = m) = IF I # {} THEN Min(I) ELSE 0
  BY DEF SelectInSeq
<1>4. Min(I) \in I => Min(I) \in 1..Len(s) /\ s[Min(I)] = m
  OBVIOUS
<1> HIDE DEF I
<1> QED
  BY <1>2, <1>3, <1>4
=============================================================================
