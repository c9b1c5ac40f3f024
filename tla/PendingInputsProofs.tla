------------------------ MODULE PendingInputsProofs ------------------------
(***************************************************************************)
(* Theorems about PendingInputs: its types, that no accepted message is    *)
(* lost, that none waits in two places and that none comes back.           *)
(***************************************************************************)
EXTENDS PendingInputs, SequenceLemmas

-----------------------------------------------------------------------------
(* The inductive invariant *)

\* What a thread holds fits the point it has reached.
Fits(r) ==
  /\ r.pc = "idle" <=> r = Idle
  /\ r.pc \in {"submit", "park"} => r.kind \in Direct
  /\ r.pc = "failed" => r.kind = "release"
  /\ r.pc = "unsure" => r.kind = ""
  /\ r.pc \in {"pass", "unsent", "claimed"} => r.kind \in Queued
  /\ r.pc = "sending" => r.kind \in Queued \cup Direct
  /\ r.pc \notin {"idle", "pass"} => r.msg \in Msgs
  /\ r.pc # "pass" => r.todo = {}
Shaped == \A l \in Lanes : Fits(lane[l])

\* Every late send is one of the deliveries that failed.
LateCounted == \A m \in Msgs : late[m] <= unsent

\* The times of claims that are around have a bound.
Stamp(k) == \/ k \in ledger \/ \E l \in Lanes : lane[l].seq = k
            \/ \E c \in journals \cup registry \cup watch : c.seq = k
Bounded == \E n \in Nat : \A k \in Nat : Stamp(k) => k <= n

\* A claim is in one place, and its time is its own: what the file records as
\* put back is neither in the worker's memory nor in a thread's hands.
ClaimsApart ==
  /\ journals \cap registry = {}
  /\ \A c, d \in journals \cup registry : c.seq = d.seq => c = d
  /\ \A c \in registry : c.seq \notin ledger
  /\ \A l \in Lanes :
       Taken(l) => /\ lane[l].seq \notin ledger
                   /\ \A c \in journals \cup registry : c.seq # lane[l].seq
  /\ \A k, l \in Lanes :
       Taken(k) /\ Taken(l) /\ lane[k].seq = lane[l].seq => k = l

\* What a pass read is still there, or was put back by another pass.
ReadsHold ==
  /\ \A c \in watch : c \in journals \/ c.seq \in ledger
  /\ \A l \in Lanes : \A c \in lane[l].todo : c \in journals \/ c.seq \in ledger

\* Who knows of a message: the sender of all that waits, unless the thread is
\* still sending it for him.
Known ==
  /\ ToSet(queue) \cup ToSet(held) \cup ToSet(stop) \subseteq accepted
  /\ MsgsOf(journals) \cup settled \cup Doubled \subseteq accepted
  /\ MsgsOf(registry) \subseteq volatile
  /\ \A l \in Lanes :
       /\ InHand(l) /\ lane[l].kind # "fresh" => lane[l].msg \in accepted
       /\ lane[l].pc = "unsure" => lane[l].msg \in accepted
       /\ lane[l].kind = "fresh" => lane[l].msg \notin accepted
  /\ \A a \in acks : a.msg \in ToSet(a.seen)

Nowhere(m) ==
  /\ m \notin ToSet(queue) /\ m \notin ToSet(held) /\ m \notin ToSet(stop)
  /\ Unread(m) = {} /\ Hands(m) = {}

Alone(m) ==
  /\ Once(queue, m) /\ Once(held, m) /\ Once(stop, m)
  /\ \A c, d \in Unread(m) : c = d
  /\ \A k, l \in Hands(m) : k = l
  /\ m \in ToSet(queue) => /\ m \notin ToSet(held) /\ m \notin ToSet(stop)
                           /\ Unread(m) = {} /\ Hands(m) = {}
  /\ m \in ToSet(held) => /\ m \notin ToSet(stop)
                          /\ Unread(m) = {} /\ Hands(m) = {}
  /\ m \in ToSet(stop) => Unread(m) = {} /\ Hands(m) = {}
  /\ Unread(m) = {} \/ Hands(m) = {}

Copies ==
  /\ \A m \in Msgs \ Doubled : Alone(m)
  /\ \A m \in settled \ Doubled : Nowhere(m)
  /\ \A m \in accepted \ (settled \cup lost) :
       Nowhere(m) => m \in MsgsOf(registry)

\* Shorthands of the model.
USE DEF Doubled, releases

Base == TypeOK /\ IsFiniteSet(registry) /\ Shaped /\ LateCounted /\ Bounded
Claimed == ClaimsApart /\ ReadsHold
PInv == Base /\ Claimed /\ Known /\ Copies

-----------------------------------------------------------------------------
(* Claims in order, and the transaction's starting point *)

\* Among claims there is one that was made first.
LEMMA OldestChosen ==
  ASSUME NEW S \in SUBSET Claims, S # {}
  PROVE  Oldest(S) \in S
<1> DEFINE Seqs == {c.seq : c \in S}
<1>1. Seqs \in SUBSET Nat /\ Seqs # {}
  BY DEF Claims
<1>2. PICK n \in Seqs : \A k \in Seqs : n <= k
  BY <1>1, LeastNatural
<1>3. PICK c \in S : \A d \in S : c.seq <= d.seq
  BY <1>2
<1> QED
  BY <1>3 DEF Oldest

\* Among claims whose times are bounded there is one that was made last.
LEMMA NewestChosen ==
  ASSUME NEW S \in SUBSET Claims, S # {},
         NEW n \in Nat, \A c \in S : c.seq <= n
  PROVE  Newest(S) \in S
<1> DEFINE Seqs == {c.seq : c \in S}
<1>1. Seqs \in SUBSET Nat /\ Seqs # {} /\ \A k \in Seqs : k <= n
  BY DEF Claims
<1>2. PICK k \in Seqs : \A j \in Seqs : j <= k
  <2> HIDE DEF Seqs
  <2> QED
    BY <1>1, GreatestNatural
<1>3. PICK c \in S : \A d \in S : d.seq <= c.seq
  BY <1>2
<1> QED
  BY <1>3 DEF Newest

\* Restored is the function its recursion describes: one claim after the
\* other is put back, the oldest last.
LEMMA RestoredDef ==
  ASSUME registry \subseteq Claims, IsFiniteSet(registry)
  PROVE  \A S \in SUBSET registry :
           Restored[S] = IF S = {} THEN queue
                         ELSE AddMissing(Restored[S \ {Oldest(S)}], Oldest(S))
<1> DEFINE Step(g, S) == IF S = {} THEN queue
                         ELSE AddMissing(g[S \ {Oldest(S)}], Oldest(S))
           Solves(g, S) == g = [T \in SUBSET S |-> Step(g, T)]
<1>1. \A S \in SUBSET registry : S # {} => Oldest(S) \in S
  BY OldestChosen
<1>2. ASSUME NEW S \in SUBSET registry, NEW T \in SUBSET registry,
             NEW g, NEW h, Solves(g, S), Solves(h, T)
      PROVE  \A U \in SUBSET (S \cap T) : g[U] = h[U]
  <2> DEFINE Bad == {U \in SUBSET (S \cap T) : g[U] # h[U]}
  <2> SUFFICES ASSUME Bad # {} PROVE FALSE
    OBVIOUS
  <2>1. Bad \subseteq SUBSET registry
    OBVIOUS
  <2>2. PICK U \in Bad : \A V \in Bad : V \subseteq U => V = U
    <3> HIDE DEF Bad
    <3> QED
      BY <2>1, MinimalSubset
  <2>3. g[U] = Step(g, U) /\ h[U] = Step(h, U)
    BY <1>2
  <2>4. U # {}
    BY <2>3
  <2>5. Oldest(U) \in U
    BY <1>1, <2>1, <2>4
  <2>6. g[U \ {Oldest(U)}] = h[U \ {Oldest(U)}]
    BY <2>2, <2>5
  <2> QED
    BY <2>3, <2>4, <2>6
<1>3. \A S \in SUBSET registry : \E g : Solves(g, S)
  <2> DEFINE Bad == {S \in SUBSET registry : ~ \E g : Solves(g, S)}
  <2> SUFFICES ASSUME Bad # {} PROVE FALSE
    OBVIOUS
  <2>1. PICK S \in Bad : \A T \in Bad : T \subseteq S => T = S
    <3>1. Bad \subseteq SUBSET registry
      OBVIOUS
    <3> HIDE DEF Bad
    <3> QED
      BY <3>1, MinimalSubset
  <2> DEFINE G(T) == CHOOSE g : Solves(g, T)
             Whole == IF S = {} THEN queue
                     ELSE AddMissing(G(S \ {Oldest(S)})[S \ {Oldest(S)}],
                                     Oldest(S))
             f == [T \in SUBSET S |-> IF T = S THEN Whole ELSE G(T)[T]]
  <2>2. \A T \in SUBSET S : T # S => Solves(G(T), T)
    <3>1. \A T \in SUBSET S : T # S => T \notin Bad /\ T \in SUBSET registry
      BY <2>1
    <3>2. \A T \in SUBSET S : T # S => \E g : Solves(g, T)
      BY <3>1
    <3> HIDE DEF Solves
    <3> QED
      BY <3>2
  <2>3. f[S] = Step(f, S)
    <3>1. CASE S = {}
      BY <3>1
    <3>2. CASE S # {}
      <4>1. Oldest(S) \in S
        BY <1>1, <3>2
      <4>2. f[S \ {Oldest(S)}] = G(S \ {Oldest(S)})[S \ {Oldest(S)}]
        <5> HIDE DEF G, Whole
        <5> QED
          BY <4>1
      <4> HIDE DEF G
      <4> QED
        BY <3>2, <4>2
    <3> QED
      BY <3>1, <3>2
  <2>4. ASSUME NEW T \in SUBSET S, T # S
        PROVE  f[T] = Step(f, T)
    <3>1. f[T] = G(T)[T] /\ Solves(G(T), T)
      <4> HIDE DEF G, Whole, Solves
      <4> QED
        BY <2>2, <2>4
    <3>2. G(T)[T] = Step(G(T), T)
      <4> HIDE DEF G, Step
      <4> QED
        BY <3>1
    <3>3. CASE T = {}
      <4> HIDE DEF G, f
      <4> QED
        BY <3>1, <3>2, <3>3
    <3>4. CASE T # {}
      <4> DEFINE R == T \ {Oldest(T)}
      <4>1. Oldest(T) \in T /\ R \in SUBSET T /\ R # S
        BY <1>1, <2>1, <2>4, <3>4
      <4>2. f[R] = G(R)[R] /\ Solves(G(R), R)
        <5> HIDE DEF G, Whole, Solves, R
        <5> QED
          BY <2>2, <4>1
      <4>3. G(T)[R] = G(R)[R]
        <5>1. T \in SUBSET registry /\ R \in SUBSET registry
          BY <2>1, <4>1
        <5>2. R \in SUBSET (T \cap R)
          BY <4>1
        <5> HIDE DEF G, Solves, R
        <5> QED
          BY <1>2, <3>1, <4>2, <5>1, <5>2
      <4> HIDE DEF G, f
      <4> QED
        BY <3>1, <3>2, <3>4, <4>2, <4>3
    <3> QED
      BY <3>3, <3>4
  <2>5. Solves(f, S)
    <3>1. \A T \in SUBSET S : f[T] = Step(f, T)
      <4> HIDE DEF f, Step
      <4> QED
        BY <2>3, <2>4
    <3>2. f = [T \in SUBSET S |-> f[T]]
      <4> HIDE DEF G, Whole
      <4> QED
        OBVIOUS
    <3> HIDE DEF f, Step
    <3> QED
      BY <3>1, <3>2
  <2> QED
    BY <2>1, <2>5
<1>4. Solves(Restored, registry)
  <2>1. Restored = CHOOSE g : Solves(g, registry)
    BY DEF Restored
  <2>2. \E g : Solves(g, registry)
    BY <1>3
  <2> HIDE DEF Solves
  <2> QED
    BY <2>1, <2>2
<1> QED
  <2>1. \A S \in SUBSET registry : Restored[S] = Step(Restored, S)
    <3> HIDE DEF Step
    <3> QED
      BY <1>4
  <2> QED
    BY <2>1

\* Putting a claim into the queue adds its message.
LEMMA Placed ==
  ASSUME NEW q \in Seq(Msgs), NEW c \in Claims
  PROVE  /\ Place(q, c) \in Seq(Msgs)
         /\ ToSet(Place(q, c)) = ToSet(q) \cup {c.msg}
         /\ \A m : Once(q, m) /\ ~(m = c.msg /\ m \in ToSet(q))
                => Once(Place(q, c), m)
<1>1. c.at \in Nat /\ c.msg \in Msgs /\ Len(q) \in Nat
  BY Entries DEF Claims
<1> DEFINE i == (IF c.at < Len(q) THEN c.at ELSE Len(q)) + 1
<1>2. i \in 1..(Len(q) + 1)
  BY <1>1
<1>3. Place(q, c) = InsertAt(q, i, c.msg)
  BY DEF Place
<1> HIDE DEF i
<1> QED
  BY <1>1, <1>2, <1>3, Inserted

\* A transaction starts from the queue in the file with the messages of the
\* claims in memory added, each at most once.
LEMMA MergedQueue ==
  ASSUME queue \in Seq(Msgs), registry \subseteq Claims, IsFiniteSet(registry)
  PROVE  /\ Merged \in Seq(Msgs)
         /\ ToSet(Merged) = ToSet(queue) \cup MsgsOf(registry)
         /\ \A m : Once(queue, m) => Once(Merged, m)
<1> DEFINE Good(S) == /\ Restored[S] \in Seq(Msgs)
                      /\ ToSet(Restored[S]) = ToSet(queue) \cup MsgsOf(S)
                      /\ \A m : Once(queue, m) => Once(Restored[S], m)
           Bad == {S \in SUBSET registry : ~Good(S)}
<1>1. SUFFICES ASSUME Bad # {} PROVE FALSE
  BY DEF Merged
<1>2. PICK S \in Bad : \A T \in Bad : T \subseteq S => T = S
  <2>1. Bad \subseteq SUBSET registry
    OBVIOUS
  <2> HIDE DEF Bad
  <2> QED
    BY <1>1, <2>1, MinimalSubset
<1>3. S \in SUBSET registry /\ ~Good(S)
  BY <1>2
<1>4. CASE S = {}
  <2>1. Restored[S] = queue /\ MsgsOf(S) = {}
    BY <1>3, <1>4, RestoredDef DEF MsgsOf
  <2> QED
    BY <1>3, <2>1
<1>5. CASE S # {}
  <2> DEFINE c == Oldest(S)
             q == Restored[S \ {c}]
  <2>1. c \in S /\ c \in Claims
    BY <1>3, <1>5, OldestChosen
  <2>2. S \ {c} \in SUBSET registry /\ S \ {c} \notin Bad
    BY <1>2, <1>3, <2>1
  <2>3. Good(S \ {c})
    BY <2>2
  <2>4. Restored[S] = AddMissing(q, c)
    BY <1>3, <1>5, RestoredDef
  <2>5. MsgsOf(S) = MsgsOf(S \ {c}) \cup {c.msg}
    BY <2>1 DEF MsgsOf
  <2>6. /\ AddMissing(q, c) \in Seq(Msgs)
        /\ ToSet(AddMissing(q, c)) = ToSet(q) \cup {c.msg}
        /\ \A m : Once(q, m) => Once(AddMissing(q, c), m)
    <3> HIDE DEF c, q
    <3>1. q \in Seq(Msgs)
      BY <2>3 DEF q
    <3> QED
      BY <2>1, <3>1, Placed DEF AddMissing
  <2>7. Good(S)
    <3> HIDE DEF c
    <3> QED
      BY <2>3, <2>4, <2>5, <2>6
  <2> QED
    BY <1>3, <2>7
<1> QED
  BY <1>4, <1>5

-----------------------------------------------------------------------------
(* Places, in the terms of the inductive invariant *)

\* A message is in no place exactly when it is nowhere.
LEMMA NowhereIsNoPlace ==
  ASSUME NEW m
  PROVE  Nowhere(m) <=> Places(m) = {}
<1>1. \A s : At(s, m) = {} <=> m \notin ToSet(s)
  BY DEF At, ToSet
<1>2. \A x, S : {x} \X S = {} <=> S = {}
  <2>1. ASSUME NEW x, NEW S, NEW y \in S
        PROVE  <<x, y>> \in {x} \X S
    OBVIOUS
  <2> QED
    BY <2>1
<1>3. \A A, B, C, D, E :
        A \cup B \cup C \cup D \cup E = {}
          <=> A = {} /\ B = {} /\ C = {} /\ D = {} /\ E = {}
  OBVIOUS
<1>4. Places(m) = {} <=> /\ At(queue, m) = {} /\ At(held, m) = {}
                         /\ At(stop, m) = {} /\ Unread(m) = {}
                         /\ Hands(m) = {}
  <2> DEFINE A == {"queued"} \X At(queue, m)
             B == {"held"} \X At(held, m)
             C == {"stopped"} \X At(stop, m)
             D == {"journal"} \X Unread(m)
             E == {"thread"} \X Hands(m)
  <2>1. /\ A = {} <=> At(queue, m) = {}
        /\ B = {} <=> At(held, m) = {}
        /\ C = {} <=> At(stop, m) = {}
        /\ D = {} <=> Unread(m) = {}
        /\ E = {} <=> Hands(m) = {}
    BY <1>2, Zenon
  <2>2. Places(m) = A \cup B \cup C \cup D \cup E
    BY DEF Places
  <2> HIDE DEF A, B, C, D, E
  <2> QED
    BY <1>3, <2>1, <2>2
<1> QED
  BY <1>1, <1>4 DEF Nowhere

\* A message alone has one place.
LEMMA AloneIsOnePlace ==
  ASSUME NEW m, Alone(m), NEW p \in Places(m), NEW q \in Places(m)
  PROVE  p = q
<1>1. \A s : At(s, m) # {} => m \in ToSet(s)
  BY DEF At, ToSet
<1>2. \A s : Once(s, m) => \A i, j \in At(s, m) : i = j
  BY DEF At, Once
<1> HIDE DEF At, Unread, Hands
<1>3. \A S : \A x : p \in {x} \X S => \E y \in S : p = <<x, y>>
  OBVIOUS
<1>4. \A S : \A x : q \in {x} \X S => \E y \in S : q = <<x, y>>
  OBVIOUS
<1>5. CASE p \in {"queued"} \X At(queue, m)
  BY <1>1, <1>2, <1>3, <1>4, <1>5 DEF Alone, Places
<1>6. CASE p \in {"held"} \X At(held, m)
  BY <1>1, <1>2, <1>3, <1>4, <1>6 DEF Alone, Places
<1>7. CASE p \in {"stopped"} \X At(stop, m)
  BY <1>1, <1>2, <1>3, <1>4, <1>7 DEF Alone, Places
<1>8. CASE p \in {"journal"} \X Unread(m)
  BY <1>1, <1>2, <1>3, <1>4, <1>8 DEF Alone, Places
<1>9. CASE p \in {"thread"} \X Hands(m)
  BY <1>1, <1>2, <1>3, <1>4, <1>9 DEF Alone, Places
<1> QED
  BY <1>5, <1>6, <1>7, <1>8, <1>9 DEF Places

\* What the inductive invariant says of the properties the run checks.
LEMMA PInvImplies == PInv => NothingLost /\ OnePlace /\ SettledIsGone
BY NowhereIsNoPlace, AloneIsOnePlace
   DEF PInv, Copies, NothingLost, OnePlace, SettledIsGone

-----------------------------------------------------------------------------
(* Base is inductive *)

\* The time of a new claim is later than any other.
LEMMA NextSeqIsLater ==
  ASSUME Base
  PROVE  NextSeq \in Nat \ {0} /\ \A k \in Nat : Stamp(k) => k < NextSeq
<1> DEFINE Stamps == {0} \cup ledger \cup {lane[l].seq : l \in Lanes}
                     \cup {c.seq : c \in journals \cup registry \cup watch}
<1>1. /\ ledger \subseteq Nat /\ \A l \in Lanes : lane[l].seq \in Nat
      /\ \A c \in journals \cup registry \cup watch : c.seq \in Nat
  BY DEF Base, TypeOK, Claims
<1>2. Stamps \in SUBSET Nat /\ Stamps # {}
  <2>1. {lane[l].seq : l \in Lanes} \subseteq Nat
    BY <1>1
  <2>2. {c.seq : c \in journals \cup registry \cup watch} \subseteq Nat
    BY <1>1
  <2>3. \A A, B, C : A \subseteq Nat /\ B \subseteq Nat /\ C \subseteq Nat
          => /\ {0} \cup A \cup B \cup C \in SUBSET Nat
             /\ {0} \cup A \cup B \cup C # {}
    OBVIOUS
  <2> QED
    BY <1>1, <2>1, <2>2, <2>3, Zenon
<1>3. PICK n \in Nat : \A k \in Nat : Stamp(k) => k <= n
  BY DEF Base, Bounded
<1>4. \A k \in Nat : Stamp(k) => k \in Stamps
  BY DEF Stamp
<1>5. \A k \in Stamps : k = 0 \/ Stamp(k)
  BY DEF Stamp
<1>6. NextSeq = 1 + Max(Stamps)
  BY DEF NextSeq
<1> HIDE DEF Stamps
<1>7. \A k \in Stamps : k <= n
  BY <1>2, <1>3, <1>5
<1>8. Max(Stamps) \in Stamps /\ \A k \in Stamps : k <= Max(Stamps)
  BY <1>2, <1>3, <1>7, MaxIsGreatest
<1>9. Max(Stamps) \in Nat
  BY <1>2, <1>8
<1>10. \A k \in Nat : Stamp(k) => k <= Max(Stamps)
  BY <1>4, <1>8
<1> QED
  BY <1>6, <1>9, <1>10

\* A step that adds no time but the next keeps the bound.
LEMMA StaysBounded ==
  ASSUME Base, \A k \in Nat : Stamp(k)' => k = 0 \/ k = NextSeq \/ Stamp(k)
  PROVE  Bounded'
<1>1. NextSeq \in Nat \ {0} /\ \A k \in Nat : Stamp(k) => k < NextSeq
  BY NextSeqIsLater
<1>2. \A k \in Nat : Stamp(k)' => k <= NextSeq
  BY <1>1
<1> QED
  BY <1>1, <1>2 DEF Bounded

-----------------------------------------------------------------------------
(* What the steps do to the queue and to the threads *)

\* Queueing a message adds it, with the claims of the worker's memory.
LEMMA Enqueued ==
  ASSUME Base, NEW m \in Msgs, Enqueue(m)
  PROVE  /\ queue' \in Seq(Msgs)
         /\ ToSet(queue') = ToSet(queue) \cup MsgsOf(registry) \cup {m}
         /\ \A x : Once(queue, x) => Once(queue', x)
<1>1. /\ Merged \in Seq(Msgs)
      /\ ToSet(Merged) = ToSet(queue) \cup MsgsOf(registry)
      /\ \A x : Once(queue, x) => Once(Merged, x)
  BY MergedQueue DEF Base, TypeOK
<1>2. CASE m \in ToSet(Merged)
  BY <1>1, <1>2 DEF Enqueue
<1>3. CASE m \notin ToSet(Merged)
  BY <1>1, <1>3, Appended DEF Enqueue
<1> QED
  BY <1>2, <1>3

\* Putting a journal back adds its message unless the ledger has it.
LEMMA HasPutBack ==
  ASSUME NEW q \in Seq(Msgs), NEW c \in Claims, PutBack(c, q)
  PROVE  /\ queue' \in Seq(Msgs)
         /\ ToSet(queue') = ToSet(q) \cup (IF c.seq \in ledger THEN {} ELSE {c.msg})
         /\ \A x : Once(q, x) /\ (x = c.msg /\ x \in ToSet(q) => c.seq \in ledger)
                => Once(queue', x)
BY Placed DEF PutBack

\* Consuming a row removes it, and leaves the others alone.
LEMMA HasTaken ==
  ASSUME Base, NEW m \in ToSet(queue), Take(m)
  PROVE  /\ queue' \in Seq(Msgs)
         /\ ToSet(queue) \cup MsgsOf(registry) = ToSet(queue') \cup {m}
         /\ \A x : Once(queue, x) => Once(queue', x)
         /\ Once(queue, m) => m \notin ToSet(queue')
<1>1. /\ Merged \in Seq(Msgs)
      /\ ToSet(Merged) = ToSet(queue) \cup MsgsOf(registry)
      /\ \A x : Once(queue, x) => Once(Merged, x)
  BY MergedQueue DEF Base, TypeOK
<1>2. m \in ToSet(Merged) /\ queue' = RemoveFirst(Merged, m)
  BY <1>1 DEF Take
<1> QED
  BY <1>1, <1>2, RemovedFirst

\* Thread records, and what a thread has in hand.
LaneRecords ==
  [pc : {"idle", "submit", "pass", "claimed", "sending", "unsent", "park",
         "failed", "unsure"},
   kind : {""} \cup Queued \cup Direct, msg : Msgs \cup {NoMsg},
   at : Nat, seq : Nat, todo : SUBSET Claims]
Carries(r, m) ==
  /\ r.msg = m
  /\ \/ r.pc \in {"claimed", "sending", "unsent"} /\ r.kind \in Queued
     \/ r.kind \in Direct

\* The fields of an idle thread.
LEMMA IdleFields ==
  /\ Idle \in LaneRecords /\ Fits(Idle) /\ \A m : ~Carries(Idle, m)
  /\ Idle.pc = "idle" /\ Idle.kind = "" /\ Idle.seq = 0 /\ Idle.todo = {}
BY DEF Idle, LaneRecords, Carries, Fits, Queued, Direct

\* A thread that has nothing in hand: it is idle, or waits for a reply to a
\* release that will not come.
AtRest == {Idle} \cup {Unsure(m) : m \in Msgs}

LEMMA RestFields ==
  ASSUME NEW r \in AtRest
  PROVE  /\ r \in LaneRecords /\ Fits(r) /\ \A m : ~Carries(r, m)
         /\ r.pc \in {"idle", "unsure"} /\ r.kind = "" /\ r.seq = 0
         /\ r.todo = {}
<1>1. ASSUME NEW m \in Msgs
      PROVE  /\ Unsure(m) \in LaneRecords /\ Fits(Unsure(m))
             /\ \A x : ~Carries(Unsure(m), x)
             /\ Unsure(m).pc = "unsure" /\ Unsure(m).kind = ""
             /\ Unsure(m).seq = 0 /\ Unsure(m).todo = {}
  BY DEF Unsure, Idle, LaneRecords, Carries, Fits, Queued, Direct
<1> QED
  BY <1>1, IdleFields DEF AtRest

\* One thread moves: the messages in hand change by what it carries.
LEMMA LaneMoves ==
  ASSUME TypeOK, NEW l \in Lanes, NEW r \in LaneRecords,
         lane' = [lane EXCEPT ![l] = r]
  PROVE  /\ lane' \in [Lanes -> LaneRecords] /\ lane'[l] = r
         /\ \A k \in Lanes \ {l} : /\ lane'[k] = lane[k]
                                   /\ Taken(k)' <=> Taken(k)
                                   /\ InHand(k)' <=> InHand(k)
         /\ \A m : Hands(m)' = (Hands(m) \ {l})
                              \cup (IF Carries(r, m) THEN {l} ELSE {})
<1>1. lane \in [Lanes -> LaneRecords]
  BY DEF TypeOK, LaneRecords
<1>2. /\ lane' \in [Lanes -> LaneRecords]
      /\ lane'[l] = r /\ \A k \in Lanes \ {l} : lane'[k] = lane[k]
  BY <1>1 DEF LaneRecords
<1>3. \A m : Hands(m)' = {k \in Lanes : Carries(lane'[k], m)}
  BY DEF Hands, InHand, Taken, Carries
<1>4. \A m : Hands(m) = {k \in Lanes : Carries(lane[k], m)}
  BY DEF Hands, InHand, Taken, Carries
<1>5. \A k \in Lanes \ {l} : (Taken(k)' <=> Taken(k)) /\ (InHand(k)' <=> InHand(k))
  BY <1>2 DEF InHand, Taken
<1> HIDE DEF Carries
<1> QED
  BY <1>2, <1>3, <1>4, <1>5

\* A thread leaves what it did: it has nothing in hand any more.
LEMMA LaneLeaves ==
  ASSUME TypeOK, NEW l \in Lanes, NEW r \in AtRest, Leaves(l, r)
  PROVE  /\ lane' \in [Lanes -> LaneRecords] /\ owner' \in Lanes \cup {Nobody}
         /\ lane'[l] = r /\ ~Taken(l)' /\ ~InHand(l)'
         /\ \A k \in Lanes \ {l} : /\ lane'[k] = lane[k]
                                   /\ Taken(k)' <=> Taken(k)
                                   /\ InHand(k)' <=> InHand(k)
         /\ \A m : Hands(m)' = Hands(m) \ {l}
<1>1. owner' \in Lanes \cup {Nobody}
  BY DEF TypeOK, Leaves
<1>2. lane' = [lane EXCEPT ![l] = r]
  BY DEF Leaves
<1> HIDE DEF Carries, LaneRecords, AtRest
<1>3. /\ lane' \in [Lanes -> LaneRecords] /\ lane'[l] = r
      /\ \A k \in Lanes \ {l} : /\ lane'[k] = lane[k]
                                /\ Taken(k)' <=> Taken(k)
                                /\ InHand(k)' <=> InHand(k)
      /\ \A m : Hands(m)' = (Hands(m) \ {l})
                           \cup (IF Carries(r, m) THEN {l} ELSE {})
  BY <1>2, LaneMoves, RestFields
<1>4. ~Taken(l)' /\ ~InHand(l)'
  BY <1>3, RestFields DEF Taken, InHand, Direct
<1> QED
  BY <1>1, <1>3, <1>4, RestFields

\* In particular when it ends.
LEMMA LaneEnds ==
  ASSUME TypeOK, NEW l \in Lanes, Ends(l)
  PROVE  /\ lane' \in [Lanes -> LaneRecords] /\ owner' \in Lanes \cup {Nobody}
         /\ lane'[l] = Idle /\ ~Taken(l)' /\ ~InHand(l)'
         /\ \A k \in Lanes \ {l} : /\ lane'[k] = lane[k]
                                   /\ Taken(k)' <=> Taken(k)
                                   /\ InHand(k)' <=> InHand(k)
         /\ \A m : Hands(m)' = Hands(m) \ {l}
<1>1. Idle \in AtRest /\ Leaves(l, Idle)
  BY DEF AtRest, Ends
<1> QED
  BY <1>1, LaneLeaves

\* A thread that keeps in hand what it has goes on.
LEMMA LaneGoes ==
  ASSUME TypeOK, NEW l \in Lanes,
         NEW pc \in {"claimed", "sending", "unsent", "park", "failed"},
         Goes(l, pc),
         lane[l].kind \in Direct \/ (pc \notin {"park", "failed"} /\ Taken(l))
  PROVE  /\ lane' \in [Lanes -> LaneRecords]
         /\ lane'[l] = [lane[l] EXCEPT !.pc = pc]
         /\ \A k \in Lanes \ {l} : lane'[k] = lane[k]
         /\ \A k \in Lanes : (Taken(k)' <=> Taken(k)) /\ (InHand(k)' <=> InHand(k))
         /\ \A m : Hands(m)' = Hands(m)
<1> DEFINE r == [lane[l] EXCEPT !.pc = pc]
<1>1. lane \in [Lanes -> LaneRecords]
  BY DEF TypeOK, LaneRecords
<1>2. r \in LaneRecords /\ \A m : Carries(r, m) <=> Carries(lane[l], m)
  BY <1>1 DEF LaneRecords, Carries, Taken, Direct, Queued
<1>3. lane' = [lane EXCEPT ![l] = r]
  BY <1>1 DEF Goes
<1>4. \A m : l \in Hands(m) <=> Carries(lane[l], m)
  BY DEF Hands, InHand, Taken, Carries
<1>5. (Taken(l)' <=> Taken(l)) /\ (InHand(l)' <=> InHand(l))
  BY <1>1, <1>3 DEF LaneRecords, InHand, Taken, Direct, Queued
<1> HIDE DEF r, LaneRecords, Carries
<1>6. /\ lane' \in [Lanes -> LaneRecords] /\ lane'[l] = r
      /\ \A k \in Lanes \ {l} : /\ lane'[k] = lane[k]
                                /\ Taken(k)' <=> Taken(k)
                                /\ InHand(k)' <=> InHand(k)
      /\ \A m : Hands(m)' = (Hands(m) \ {l})
                           \cup (IF Carries(r, m) THEN {l} ELSE {})
  BY <1>2, <1>3, LaneMoves
<1>7. \A m : Hands(m)' = Hands(m)
  BY <1>2, <1>4, <1>6
<1> QED
  BY <1>5, <1>6, <1>7 DEF r

\* The counters are numbers within their bounds.
LEMMA CountersAreNumbers ==
  ASSUME Base
  PROVE  /\ MaxUnsent \in Nat /\ MaxFaults \in Nat /\ MaxStops \in Nat
         /\ unsent \in Nat /\ unsent <= MaxUnsent
         /\ faults \in Nat /\ faults <= MaxFaults
         /\ stops \in Nat /\ stops <= MaxStops
         /\ \A m \in Msgs : late[m] \in Nat /\ late[m] <= unsent
         /\ late = [m \in Msgs |-> late[m]]
<1>1. MaxUnsent \in Nat /\ MaxFaults \in Nat /\ MaxStops \in Nat
  BY PendingAssumption
<1>2. /\ unsent \in 0..MaxUnsent /\ faults \in 0..MaxFaults /\ stops \in 0..MaxStops
      /\ late \in [Msgs -> 0..MaxUnsent]
  BY DEF Base, TypeOK
<1>3. \A m \in Msgs : late[m] <= unsent
  BY DEF Base, LateCounted
<1> QED
  BY <1>1, <1>2, <1>3

\* A failed delivery is counted.
LEMMA Counted ==
  ASSUME Base, Unsent
  PROVE  unsent' \in 0..MaxUnsent /\ unsent' = unsent + 1
BY CountersAreNumbers DEF Unsent

\* So is a fault.
LEMMA Faulty ==
  ASSUME Base, Fault
  PROVE  faults' \in 0..MaxFaults
BY CountersAreNumbers DEF Fault

\* A thread turns to something else: the claims stay apart, and what passes
\* have read stays.
LEMMA LaneTurns ==
  ASSUME Base, Claimed, NEW l \in Lanes, NEW r \in LaneRecords, Fits(r),
         lane' = [lane EXCEPT ![l] = r],
         r.seq \in {0, lane[l].seq},
         r.pc \in {"claimed", "sending", "unsent"} /\ r.kind \in Queued
           => Taken(l) /\ r.seq = lane[l].seq,
         \A c \in r.todo : c \in journals' \/ c.seq \in ledger,
         UNCHANGED <<ledger, watch>>,
         journals \subseteq journals', journals' \cap registry' = {},
         journals' \cup registry' \subseteq journals \cup registry
  PROVE  /\ lane' \in [Lanes -> LaneRecords] /\ lane'[l] = r
         /\ \A k \in Lanes \ {l} : /\ lane'[k] = lane[k]
                                   /\ Taken(k)' <=> Taken(k)
                                   /\ InHand(k)' <=> InHand(k)
         /\ \A m : Hands(m)' = (Hands(m) \ {l})
                              \cup (IF Carries(r, m) THEN {l} ELSE {})
         /\ Shaped' /\ Bounded' /\ Claimed'
<1>1. TypeOK
  BY DEF Base
<1> HIDE DEF LaneRecords, Carries
<1>2. /\ lane' \in [Lanes -> LaneRecords] /\ lane'[l] = r
      /\ \A k \in Lanes \ {l} : /\ lane'[k] = lane[k]
                                /\ Taken(k)' <=> Taken(k)
                                /\ InHand(k)' <=> InHand(k)
      /\ \A m : Hands(m)' = (Hands(m) \ {l})
                           \cup (IF Carries(r, m) THEN {l} ELSE {})
  BY <1>1, LaneMoves
<1>3. Taken(l)' => Taken(l) /\ r.seq = lane[l].seq
  BY <1>2 DEF Taken
<1>4. Shaped'
  BY <1>2 DEF Base, Shaped
<1>5. Bounded'
  <2>1. ASSUME NEW k \in Nat, Stamp(k)'
        PROVE  k = 0 \/ Stamp(k)
    BY <1>2, <2>1 DEF Stamp
  <2> QED
    BY <2>1, StaysBounded
<1>6. ClaimsApart'
  BY <1>2, <1>3 DEF Claimed, ClaimsApart
<1>7. ReadsHold'
  BY <1>2 DEF Claimed, ReadsHold
<1> QED
  BY <1>2, <1>4, <1>5, <1>6, <1>7 DEF Claimed

\* In particular when it leaves what it did, ...
LEMMA LeaveKeeps ==
  ASSUME Base, Claimed, NEW l \in Lanes, NEW r \in AtRest, Leaves(l, r),
         UNCHANGED <<ledger, journals, registry, watch>>
  PROVE  /\ lane' \in [Lanes -> LaneRecords] /\ owner' \in Lanes \cup {Nobody}
         /\ lane'[l] = r /\ ~Taken(l)' /\ ~InHand(l)'
         /\ \A k \in Lanes \ {l} : /\ lane'[k] = lane[k]
                                   /\ Taken(k)' <=> Taken(k)
                                   /\ InHand(k)' <=> InHand(k)
         /\ \A m : Hands(m)' = Hands(m) \ {l}
         /\ Shaped' /\ Bounded' /\ Claimed'
<1> HIDE DEF LaneRecords, AtRest
<1>1. /\ lane' \in [Lanes -> LaneRecords] /\ owner' \in Lanes \cup {Nobody}
      /\ lane'[l] = r /\ ~Taken(l)' /\ ~InHand(l)'
      /\ \A k \in Lanes \ {l} : /\ lane'[k] = lane[k]
                                /\ Taken(k)' <=> Taken(k)
                                /\ InHand(k)' <=> InHand(k)
      /\ \A m : Hands(m)' = Hands(m) \ {l}
  BY LaneLeaves DEF Base
<1>2. lane' = [lane EXCEPT ![l] = r] /\ journals \cap registry = {}
  BY DEF Leaves, Claimed, ClaimsApart
<1>3. /\ r \in LaneRecords /\ Fits(r) /\ r.pc \in {"idle", "unsure"}
      /\ r.seq = 0 /\ r.todo = {}
  BY RestFields
<1>4. Shaped' /\ Bounded' /\ Claimed'
  BY <1>2, <1>3, LaneTurns
<1> QED
  BY <1>1, <1>4

\* ... and when it ends.
LEMMA EndKeeps ==
  ASSUME Base, Claimed, NEW l \in Lanes, Ends(l),
         UNCHANGED <<ledger, journals, registry, watch>>
  PROVE  /\ lane' \in [Lanes -> LaneRecords] /\ owner' \in Lanes \cup {Nobody}
         /\ lane'[l] = Idle /\ ~Taken(l)' /\ ~InHand(l)'
         /\ \A k \in Lanes \ {l} : /\ lane'[k] = lane[k]
                                   /\ Taken(k)' <=> Taken(k)
                                   /\ InHand(k)' <=> InHand(k)
         /\ \A m : Hands(m)' = Hands(m) \ {l}
         /\ Shaped' /\ Bounded' /\ Claimed'
<1>1. Idle \in AtRest /\ Leaves(l, Idle)
  BY DEF AtRest, Ends
<1> QED
  BY <1>1, LeaveKeeps

\* A send that is over leaves its thread, whatever becomes of the reply.
LEMMA DoneLeaves ==
  ASSUME Base, NEW l \in Lanes, lane[l].msg \in Msgs, Done(l)
  PROVE  /\ faults' \in 0..MaxFaults
         /\ \E r \in AtRest : /\ Leaves(l, r)
                              /\ r.pc = "unsure" => r.msg = lane[l].msg
<1>1. faults' \in 0..MaxFaults
  BY Faulty DEF Done, Base, TypeOK
<1>2. CASE Ends(l)
  BY <1>1, <1>2, IdleFields DEF AtRest, Ends
<1>3. CASE Leaves(l, Unsure(lane[l].msg))
  <2>1. Unsure(lane[l].msg) \in AtRest
    BY DEF AtRest
  <2>2. Unsure(lane[l].msg).msg = lane[l].msg
    BY DEF Unsure, Idle
  <2> QED
    BY <1>1, <1>3, <2>1, <2>2
<1> QED
  BY <1>2, <1>3 DEF Done

-----------------------------------------------------------------------------
(* Copies, step by step *)

\* The step leaves the places of a message as they are.
Same(m) ==
  /\ m \in ToSet(queue') <=> m \in ToSet(queue)
  /\ m \in ToSet(held') <=> m \in ToSet(held)
  /\ m \in ToSet(stop') <=> m \in ToSet(stop)
  /\ Once(queue, m) => Once(queue', m)
  /\ Once(held, m) => Once(held', m)
  /\ Once(stop, m) => Once(stop', m)
  /\ Unread(m)' = Unread(m) /\ Hands(m)' = Hands(m)

\* What a step has to show: the message it moves ends in one place, the others
\* stay, and what was somewhere is still somewhere.
LEMMA CopiesMove ==
  ASSUME Copies, Doubled \subseteq Doubled', NEW m,
         \A x \in Msgs \ Doubled' :
           x # m => Same(x) /\ (x \in settled' => x \in settled),
         m \in Msgs \ Doubled' => Alone(m)' /\ (m \in settled' => Nowhere(m)'),
         settled' \subseteq Msgs,
         \A x \in accepted' \ (settled' \cup lost') :
           Nowhere(x)' => x \in MsgsOf(registry)'
  PROVE  Copies'
<1>1. \A x : Same(x) => (Alone(x) => Alone(x)') /\ (Nowhere(x)' <=> Nowhere(x))
  BY DEF Same, Alone, Nowhere
<1>2. ASSUME NEW x \in Msgs \ Doubled'
      PROVE  Alone(x)' /\ (x \in settled' => Nowhere(x)')
  BY <1>1 DEF Copies
<1> QED
  BY <1>2 DEF Copies

\* A message in hand whose claims were never left to the memory is in no other
\* place, and not settled.
LEMMA InHandAlone ==
  ASSUME PInv, NEW l \in Lanes, InHand(l), NEW m \in Msgs, m = lane[l].msg
  PROVE  /\ l \in Hands(m) /\ \A x : l \in Hands(x) => x = m
         /\ m \notin Doubled =>
              /\ Hands(m) = {l} /\ Unread(m) = {}
              /\ m \notin ToSet(queue) /\ m \notin ToSet(held)
              /\ m \notin ToSet(stop) /\ m \notin settled
              /\ m \notin MsgsOf(registry)
              /\ Once(queue, m) /\ Once(held, m) /\ Once(stop, m)
         /\ \A k \in Lanes \ {l} : lane[k].kind = "fresh" => lane[k].msg # m
<1>1. l \in Hands(m) /\ \A x : l \in Hands(x) => x = m
  BY DEF Hands
<1>2. m \notin Doubled => Alone(m) /\ (m \in settled => Nowhere(m))
  BY DEF PInv, Copies
<1>3. m \notin Doubled => m \notin MsgsOf(registry)
  BY DEF PInv, Known
<1>4. ASSUME NEW k \in Lanes \ {l}, lane[k].kind = "fresh", lane[k].msg = m
      PROVE  FALSE
  <2>1. k \in Hands(m)
    BY <1>4 DEF Hands, InHand, Direct
  <2>2. m \notin accepted /\ m \notin Doubled
    BY <1>4 DEF PInv, Known
  <2> QED
    BY <1>1, <1>2, <2>1, <2>2 DEF Alone
<1> QED
  BY <1>1, <1>2, <1>3, <1>4 DEF Alone, Nowhere

-----------------------------------------------------------------------------
(* Direct sends *)

\* A message in hand enters the queue, and the thread ends.
LEMMA HandToQueue ==
  ASSUME PInv, NEW l \in Lanes, InHand(l),
         NEW m \in Msgs, m = lane[l].msg,
         NEW r \in AtRest, Leaves(l, r), r.pc = "unsure" => r.msg = m,
         queue' \in Seq(Msgs), faults' \in 0..MaxFaults,
         ToSet(queue') = ToSet(queue) \cup MsgsOf(registry) \cup {m},
         \A x : Once(queue, x)
                  /\ (x = m => x \notin ToSet(queue) \cup MsgsOf(registry))
                => Once(queue', x),
         accepted' = accepted \cup {m},
         UNCHANGED <<ledger, journals, held, memory, watch, stopper, engine,
                     settled, lost, volatile, work, repeated>>
  PROVE  PInv'
<1> HIDE DEF AtRest
<1>1. Base /\ TypeOK
  BY DEF PInv, Base
<1>2. /\ UNCHANGED <<ledger, journals, held, registry, timed, acks, watch, stop,
                     stops, late, landed, unsent, settled, lost, volatile, work,
                     repeated>>
      /\ \A x : Unread(x)' = Unread(x)
  BY DEF memory, stopper, engine, Unread
<1>3. /\ \A x : l \in Hands(x) => x = m
      /\ m \notin Doubled =>
           /\ Hands(m) = {l} /\ Unread(m) = {}
           /\ m \notin ToSet(queue) /\ m \notin ToSet(held)
           /\ m \notin ToSet(stop) /\ m \notin settled
           /\ m \notin MsgsOf(registry)
           /\ Once(queue, m) /\ Once(held, m) /\ Once(stop, m)
      /\ \A k \in Lanes \ {l} : lane[k].kind = "fresh" => lane[k].msg # m
  BY InHandAlone
<1>4. /\ lane' \in [Lanes -> LaneRecords] /\ owner' \in Lanes \cup {Nobody}
      /\ lane'[l] = r /\ ~Taken(l)' /\ ~InHand(l)'
      /\ \A k \in Lanes \ {l} : /\ lane'[k] = lane[k]
                                /\ Taken(k)' <=> Taken(k)
                                /\ InHand(k)' <=> InHand(k)
      /\ \A x : Hands(x)' = Hands(x) \ {l}
  BY <1>1, LaneLeaves
<1>5. Base'
  <2>1. TypeOK'
    BY <1>1, <1>2, <1>4 DEF TypeOK, LaneRecords
  <2>2. Shaped'
    BY <1>1, <1>4, RestFields DEF Base, Shaped
  <2>3. IsFiniteSet(registry)' /\ LateCounted'
    BY <1>1, <1>2 DEF Base, LateCounted
  <2>4. Bounded'
    BY <1>1, <1>2, <1>4, RestFields, StaysBounded DEF Stamp
  <2> QED
    BY <2>1, <2>2, <2>3, <2>4 DEF Base
<1>6. Claimed'
  <2>1. ClaimsApart'
    BY <1>2, <1>4 DEF PInv, Claimed, ClaimsApart
  <2>2. ReadsHold'
    BY <1>2, <1>4, RestFields DEF PInv, Claimed, ReadsHold
  <2> QED
    BY <2>1, <2>2 DEF Claimed
<1>7. Known'
  BY <1>2, <1>3, <1>4, RestFields DEF PInv, Known, MsgsOf
<1>8. Copies'
  <2>1. ASSUME NEW x \in Msgs \ Doubled', x # m
        PROVE  Same(x) /\ (x \in settled' => x \in settled)
    <3>1. x \notin MsgsOf(registry)
      BY <1>2 DEF PInv, Known
    <3>2. /\ x \in ToSet(queue') <=> x \in ToSet(queue)
          /\ Once(queue, x) => Once(queue', x)
      BY <2>1, <3>1
    <3>3. Hands(x)' = Hands(x)
      <4>1. l \notin Hands(x)
        BY <1>3, <2>1
      <4> QED
        BY <1>4, <4>1
    <3> QED
      BY <1>2, <3>2, <3>3 DEF Same
  <2>2. ASSUME m \in Msgs \ Doubled'
        PROVE  Alone(m)' /\ (m \in settled' => Nowhere(m)')
    BY <1>2, <1>3, <1>4, <2>2 DEF Alone, Nowhere
  <2>3. ASSUME NEW x \in accepted' \ (settled' \cup lost'), Nowhere(x)'
        PROVE  x \in MsgsOf(registry)'
    <3>1. x # m /\ x \notin MsgsOf(registry)
      BY <2>3 DEF Nowhere
    <3>2. Nowhere(x)
      BY <1>2, <1>3, <1>4, <2>3, <3>1 DEF Nowhere
    <3> QED
      BY <1>2, <2>3, <3>1, <3>2 DEF PInv, Copies
  <2>4. settled' \subseteq Msgs /\ Doubled \subseteq Doubled' /\ Copies
    BY <1>1, <1>2 DEF TypeOK, PInv
  <2> QED
    BY <2>1, <2>2, <2>3, <2>4, CopiesMove
<1> QED
  BY <1>5, <1>6, <1>7, <1>8 DEF PInv

\* A thread goes on with the message it has in hand.
LEMMA HandGoesOn ==
  ASSUME PInv, NEW l \in Lanes, NEW pc \in {"sending", "unsent", "park", "failed"},
         Goes(l, pc), lane[l].pc \notin {"idle", "pass", "unsure"},
         \/ lane[l].kind \in Direct /\ pc \in {"sending", "park"}
         \/ lane[l].kind = "release" /\ pc = "failed"
         \/ Taken(l) /\ pc \in {"sending", "unsent"},
         UNCHANGED <<disk, held, registry, acks, watch, stop, accepted, settled,
                     lost, volatile, repeated>>
  PROVE  /\ lane' \in [Lanes -> LaneRecords]
         /\ Shaped' /\ Bounded' /\ Claimed' /\ Known' /\ Copies'
<1>1. Base /\ TypeOK
  BY DEF PInv, Base
<1>2. /\ UNCHANGED <<queue, ledger, journals, held, registry, acks, watch, stop,
                     accepted, settled, lost, volatile, repeated>>
      /\ \A x : Unread(x)' = Unread(x)
  BY DEF disk, Unread
<1>3. /\ lane' \in [Lanes -> LaneRecords]
      /\ lane'[l] = [lane[l] EXCEPT !.pc = pc]
      /\ \A k \in Lanes \ {l} : lane'[k] = lane[k]
      /\ \A k \in Lanes : (Taken(k)' <=> Taken(k)) /\ (InHand(k)' <=> InHand(k))
      /\ \A x : Hands(x)' = Hands(x)
  BY <1>1, LaneGoes DEF Direct
<1>4. lane[l] \in LaneRecords /\ Fits(lane[l])
  BY <1>1 DEF TypeOK, LaneRecords, Base, Shaped
<1>5. /\ lane'[l].pc = pc /\ lane'[l].kind = lane[l].kind
      /\ lane'[l].msg = lane[l].msg /\ lane'[l].seq = lane[l].seq
      /\ lane'[l].todo = lane[l].todo
  BY <1>3, <1>4 DEF LaneRecords
<1>6. Shaped'
  <2>1. Fits(lane'[l])
    BY <1>4, <1>5, IdleFields DEF Fits, Taken
  <2> QED
    BY <1>1, <1>3, <2>1 DEF Base, Shaped
<1>7. Bounded'
  BY <1>1, <1>2, <1>3, <1>5, StaysBounded DEF Stamp
<1>8. Claimed'
  <2>1. \A k \in Lanes : lane'[k].seq = lane[k].seq /\ lane'[k].todo = lane[k].todo
    BY <1>3, <1>5
  <2> QED
    BY <1>2, <1>3, <2>1 DEF PInv, Claimed, ClaimsApart, ReadsHold
<1>9. Known'
  <2>1. \A k \in Lanes : /\ lane'[k].kind = lane[k].kind
                         /\ lane'[k].msg = lane[k].msg
                         /\ lane'[k].pc = "unsure" => lane[k].pc = "unsure"
    BY <1>3, <1>5
  <2> QED
    BY <1>2, <1>3, <2>1 DEF PInv, Known, MsgsOf
<1>10. Copies'
  BY <1>2, <1>3 DEF PInv, Copies, Alone, Nowhere
<1> QED
  BY <1>3, <1>6, <1>7, <1>8, <1>9, <1>10

\* A send is queued behind others, or goes out.
LEMMA SubmitKeeps ==
  ASSUME PInv, NEW l \in Lanes, Submit(l)
  PROVE  PInv'
<1> PICK m : m = lane[l].msg
  OBVIOUS
<1>1. m \in Msgs /\ lane[l].kind \in Direct /\ InHand(l)
  BY DEF Submit, PInv, Base, Shaped, Fits, InHand
<1>2. Base /\ TypeOK
  BY DEF PInv, Base
<1>3. UNCHANGED <<ledger, journals, held, memory, watch, stopper, engine,
                  settled, lost, volatile, work, repeated>>
  BY DEF Submit
<1>4. CASE Enqueue(m) /\ Done(l)
  <2>1. /\ queue' \in Seq(Msgs)
        /\ ToSet(queue') = ToSet(queue) \cup MsgsOf(registry) \cup {m}
        /\ \A x : Once(queue, x) => Once(queue', x)
        /\ accepted' = accepted \cup {m}
    BY <1>1, <1>2, <1>4, Enqueued DEF Enqueue
  <2>2. PICK r \in AtRest : Leaves(l, r) /\ (r.pc = "unsure" => r.msg = m)
    BY <1>1, <1>2, <1>4, DoneLeaves
  <2>3. faults' \in 0..MaxFaults
    BY <1>1, <1>2, <1>4, DoneLeaves
  <2> HIDE DEF AtRest
  <2> QED
    BY <1>1, <1>3, <2>1, <2>2, <2>3, HandToQueue
<1>5. CASE Goes(l, "sending") /\ UNCHANGED <<queue, owner, faults, accepted>>
  <2>1. /\ lane' \in [Lanes -> LaneRecords]
        /\ Shaped' /\ Bounded' /\ Claimed' /\ Known' /\ Copies'
    BY <1>1, <1>3, <1>5, HandGoesOn DEF Submit, disk, memory, stopper
  <2>2. TypeOK' /\ IsFiniteSet(registry)' /\ LateCounted'
    BY <1>2, <1>3, <1>5, <2>1
       DEF Base, TypeOK, LateCounted, LaneRecords, memory, stopper, engine
  <2> QED
    BY <2>1, <2>2 DEF PInv, Base
<1> QED
  BY <1>4, <1>5 DEF Submit

\* A message the engine did not take is queued after all.
LEMMA ParkKeeps ==
  ASSUME PInv, NEW l \in Lanes, Park(l)
  PROVE  PInv'
<1> PICK m : m = lane[l].msg
  OBVIOUS
<1>1. m \in Msgs /\ lane[l].kind \in Direct /\ InHand(l)
  BY DEF Park, PInv, Base, Shaped, Fits, InHand
<1>2. Base /\ Enqueue(m) /\ Done(l)
  BY DEF PInv, Base, Park
<1>3. /\ queue' \in Seq(Msgs)
      /\ ToSet(queue') = ToSet(queue) \cup MsgsOf(registry) \cup {m}
      /\ \A x : Once(queue, x) => Once(queue', x)
      /\ accepted' = accepted \cup {m}
  BY <1>1, <1>2, Enqueued DEF Enqueue
<1>4. PICK r \in AtRest : Leaves(l, r) /\ (r.pc = "unsure" => r.msg = m)
  BY <1>1, <1>2, DoneLeaves
<1>5. faults' \in 0..MaxFaults
  BY <1>1, <1>2, DoneLeaves
<1> HIDE DEF AtRest
<1> QED
  BY <1>1, <1>2, <1>3, <1>4, <1>5, HandToQueue DEF Park

\* The engine refused.
LEMMA RejectedKeeps ==
  ASSUME PInv, NEW l \in Lanes, Rejected(l)
  PROVE  PInv'
<1>1. Base /\ TypeOK
  BY DEF PInv, Base
<1>2. lane[l].pc = "sending" /\ lane[l].kind \in Queued \cup Direct
  BY <1>1 DEF Rejected, Base, Shaped, Fits
<1>3. /\ lane' \in [Lanes -> LaneRecords]
      /\ Shaped' /\ Bounded' /\ Claimed' /\ Known' /\ Copies'
  <2>1. CASE lane[l].kind \in Queued
    BY <1>2, <2>1, HandGoesOn DEF Rejected, Taken, memory, stopper, history
  <2>2. CASE lane[l].kind \notin Queued
    BY <1>2, <2>2, HandGoesOn DEF Rejected, memory, stopper, history
  <2> QED
    BY <2>1, <2>2
<1>4. /\ UNCHANGED <<queue, ledger, journals, held, owner, registry, timed, acks,
                     watch, stop, stops, late, landed, faults, accepted, settled,
                     lost, volatile, work, repeated>>
      /\ unsent' = unsent \/ (unsent < MaxUnsent /\ unsent' = unsent + 1)
  BY DEF Rejected, Unsent, disk, memory, stopper, history
<1>5. TypeOK' /\ IsFiniteSet(registry)' /\ LateCounted'
  <2>1. unsent' \in 0..MaxUnsent /\ \A m \in Msgs : late[m] <= unsent'
    BY <1>1, <1>4, CountersAreNumbers
  <2> QED
    BY <1>1, <1>3, <1>4, <2>1 DEF Base, TypeOK, LateCounted, LaneRecords
<1> QED
  BY <1>3, <1>5 DEF PInv, Base

\* The engine did not answer in time.
LEMMA TimedOutKeeps ==
  ASSUME PInv, NEW l \in Lanes, TimedOut(l)
  PROVE  PInv'
<1>1. Base /\ TypeOK
  BY DEF PInv, Base
<1>2. /\ lane[l].pc = "sending" /\ lane[l].kind \in Queued \cup Direct
      /\ lane[l].msg \in Msgs
  BY <1>1 DEF TimedOut, Base, Shaped, Fits
<1>3. /\ lane' \in [Lanes -> LaneRecords]
      /\ Shaped' /\ Bounded' /\ Claimed' /\ Known' /\ Copies'
  <2>1. CASE lane[l].kind \in Queued
    BY <1>2, <2>1, HandGoesOn DEF TimedOut, Taken, stopper, history
  <2>2. CASE lane[l].kind \notin Queued
    BY <1>2, <2>2, HandGoesOn DEF TimedOut, stopper, history
  <2> QED
    BY <2>1, <2>2
<1>4. /\ UNCHANGED <<queue, ledger, journals, held, owner, registry, acks,
                     watch, stop, stops, landed, faults, accepted, settled,
                     lost, volatile, work, repeated>>
      /\ unsent < MaxUnsent /\ unsent' = unsent + 1
      /\ late' = [late EXCEPT ![lane[l].msg] = @ + 1]
      /\ timed' \subseteq timed \cup {lane[l].msg}
  BY DEF TimedOut, Unsent, disk, stopper, history
<1>5. /\ unsent' \in 0..MaxUnsent /\ late' \in [Msgs -> 0..MaxUnsent]
      /\ \A m \in Msgs : late'[m] <= unsent'
  <2>1. /\ MaxUnsent \in Nat /\ unsent \in Nat /\ unsent <= MaxUnsent
        /\ late = [m \in Msgs |-> late[m]]
        /\ \A m \in Msgs : late[m] \in Nat /\ late[m] <= unsent
    BY <1>1, CountersAreNumbers
  <2>2. \A m \in Msgs :
          late'[m] = IF m = lane[l].msg THEN late[m] + 1 ELSE late[m]
    BY <1>4, <2>1
  <2>3. \A m \in Msgs : late'[m] \in Nat /\ late'[m] <= unsent' /\ late'[m] <= MaxUnsent
    BY <1>4, <2>1, <2>2
  <2>4. late' = [m \in Msgs |-> late'[m]]
    BY <1>4, <2>1
  <2>5. \A m \in Msgs : late'[m] \in 0..MaxUnsent
    BY <2>1, <2>3
  <2>6. late' \in [Msgs -> 0..MaxUnsent]
    BY <2>4, <2>5
  <2>7. unsent' \in 0..MaxUnsent
    BY <1>4, <2>1
  <2> QED
    BY <2>3, <2>6, <2>7
<1>6. TypeOK' /\ IsFiniteSet(registry)' /\ LateCounted'
  <2>1. timed' \subseteq Msgs
    BY <1>1, <1>2, <1>4 DEF TypeOK
  <2>2. TypeOK'
    <3>1. \A S \in {timed', landed', accepted', settled', lost', volatile', repeated'} :
            S \subseteq Msgs
      BY <1>1, <1>4, <2>1 DEF TypeOK
    <3> QED
      BY <1>1, <1>3, <1>4, <1>5, <3>1 DEF TypeOK, LaneRecords
  <2> QED
    BY <1>1, <1>4, <1>5, <2>2 DEF Base, LateCounted
<1> QED
  BY <1>3, <1>6 DEF PInv, Base

\* The queue cannot be written: a release is told so, another send is over.
LEMMA SendFailsKeeps ==
  ASSUME PInv, NEW l \in Lanes, SendFails(l)
  PROVE  PInv'
<1> PICK m : m = lane[l].msg
  OBVIOUS
<1>1. Base /\ TypeOK /\ Claimed
  BY DEF PInv, Base
<1>2. m \in Msgs /\ lane[l].kind \in Direct /\ InHand(l)
  BY DEF SendFails, PInv, Base, Shaped, Fits, InHand
<1>3. /\ UNCHANGED <<queue, ledger, journals, held, registry, timed, acks, watch,
                     stop, stops, late, landed, unsent, accepted, settled,
                     volatile, repeated>>
      /\ faults' \in 0..MaxFaults
      /\ \A x : Unread(x)' = Unread(x)
  BY <1>1, Faulty DEF SendFails, disk, memory, stopper, engine, Unread
<1>4. work' \in [Msgs -> {"none", "open", "refused", "uncertain"}]
  BY <1>1, <1>2 DEF SendFails, TypeOK
<1>5. CASE lane[l].kind = "release"
  <2>1. Goes(l, "failed") /\ UNCHANGED <<owner, lost>>
    BY <1>5 DEF SendFails
  <2>2. lane[l].pc \notin {"idle", "pass", "unsure"}
    BY DEF SendFails
  <2>3. /\ lane' \in [Lanes -> LaneRecords]
        /\ Shaped' /\ Bounded' /\ Claimed' /\ Known' /\ Copies'
    BY <1>3, <1>5, <2>1, <2>2, HandGoesOn DEF disk
  <2>4. TypeOK' /\ IsFiniteSet(registry)' /\ LateCounted'
    BY <1>1, <1>3, <1>4, <2>1, <2>3 DEF Base, TypeOK, LateCounted, LaneRecords
  <2> QED
    BY <2>3, <2>4 DEF PInv, Base
<1>6. CASE lane[l].kind # "release"
  <2>1. /\ Ends(l)
        /\ lost' = IF lane[l].kind = "orphan" THEN lost \cup {m} ELSE lost
    BY <1>6 DEF SendFails
  <2>2. /\ lane' \in [Lanes -> LaneRecords] /\ owner' \in Lanes \cup {Nobody}
        /\ lane'[l] = Idle /\ ~Taken(l)' /\ ~InHand(l)'
        /\ \A k \in Lanes \ {l} : /\ lane'[k] = lane[k]
                                  /\ Taken(k)' <=> Taken(k)
                                  /\ InHand(k)' <=> InHand(k)
        /\ \A x : Hands(x)' = Hands(x) \ {l}
        /\ Shaped' /\ Bounded' /\ Claimed'
    BY <1>1, <1>3, <2>1, EndKeeps
  <2>3. /\ \A x : l \in Hands(x) => x = m
        /\ m \notin Doubled =>
             /\ Hands(m) = {l} /\ Unread(m) = {}
             /\ m \notin ToSet(queue) /\ m \notin ToSet(held)
             /\ m \notin ToSet(stop) /\ m \notin settled
             /\ Once(queue, m) /\ Once(held, m) /\ Once(stop, m)
    BY <1>2, InHandAlone
  <2>4. Base'
    <3>1. lost' \subseteq Msgs
      BY <1>1, <1>2, <2>1 DEF TypeOK
    <3>2. \A S \in {timed', landed', accepted', settled', lost', volatile',
                    repeated'} :
            S \subseteq Msgs
      BY <1>1, <1>3, <3>1 DEF TypeOK
    <3>3. TypeOK'
      BY <1>1, <1>3, <1>4, <2>2, <3>2 DEF TypeOK, LaneRecords
    <3> QED
      BY <1>1, <1>3, <2>2, <3>3 DEF Base, LateCounted
  <2>5. Known'
    BY <1>3, <2>2, IdleFields DEF PInv, Known, MsgsOf
  <2>6. Copies'
    <3>1. \A x \in Msgs \ Doubled' :
            x # m => Same(x) /\ (x \in settled' => x \in settled)
      BY <1>3, <2>2, <2>3 DEF Same
    <3>2. m \in Msgs \ Doubled' => Alone(m)' /\ (m \in settled' => Nowhere(m)')
      BY <1>3, <2>2, <2>3 DEF Alone, Nowhere
    <3>3. ASSUME NEW x \in accepted' \ (settled' \cup lost'), Nowhere(x)'
          PROVE  x \in MsgsOf(registry)'
      <4>1. x # m
        <5>1. lane[l].kind \in {"fresh", "orphan"}
          BY <1>2, <1>6 DEF Direct
        <5>2. lane[l].kind = "fresh" => m \notin accepted
          BY DEF PInv, Known
        <5> QED
          BY <1>3, <2>1, <3>3, <5>1, <5>2
      <4>2. Nowhere(x) /\ x \notin lost
        BY <1>3, <2>1, <2>2, <2>3, <3>3, <4>1 DEF Nowhere
      <4> QED
        BY <1>3, <3>3, <4>2 DEF PInv, Copies
    <3>4. settled' \subseteq Msgs /\ Doubled \subseteq Doubled' /\ Copies
      BY <1>1, <1>3 DEF TypeOK, PInv
    <3> QED
      BY <3>1, <3>2, <3>3, <3>4, CopiesMove
  <2> QED
    BY <2>2, <2>4, <2>5, <2>6 DEF PInv
<1> QED
  BY <1>5, <1>6

\* A release that was not sent is held again, or lost; one that got no reply is
\* held again as well as what became of it.
LEMMA ReleaseFailsKeeps ==
  ASSUME PInv, NEW l \in Lanes, ReleaseFails(l)
  PROVE  PInv'
<1> PICK m : m = lane[l].msg
  OBVIOUS
<1>1. Base /\ TypeOK /\ Claimed
  BY DEF PInv, Base
<1>2. /\ m \in Msgs /\ m \in accepted /\ lane[l].kind # "fresh"
      /\ \/ lane[l].pc = "failed" /\ InHand(l)
         \/ lane[l].pc = "unsure" /\ ~InHand(l)
  <2>1. /\ m \in Msgs
        /\ \/ lane[l].pc = "failed" /\ lane[l].kind = "release"
           \/ lane[l].pc = "unsure" /\ lane[l].kind = ""
    BY <1>1 DEF ReleaseFails, Base, Shaped, Fits
  <2> QED
    BY <2>1 DEF InHand, Taken, Direct, Queued, PInv, Known
<1>3. /\ UNCHANGED <<queue, ledger, journals, registry, timed, acks, watch, stop,
                     stops, late, landed, unsent, accepted, settled, volatile,
                     work>>
      /\ \A x : Unread(x)' = Unread(x)
  BY DEF ReleaseFails, disk, memory, stopper, engine, Unread
<1>4. /\ lane' \in [Lanes -> LaneRecords] /\ owner' \in Lanes \cup {Nobody}
      /\ lane'[l] = Idle /\ ~Taken(l)' /\ ~InHand(l)'
      /\ \A k \in Lanes \ {l} : /\ lane'[k] = lane[k]
                                /\ Taken(k)' <=> Taken(k)
                                /\ InHand(k)' <=> InHand(k)
      /\ \A x : Hands(x)' = Hands(x) \ {l}
      /\ Shaped' /\ Bounded' /\ Claimed'
  BY <1>1, <1>3, EndKeeps DEF ReleaseFails
<1>5. /\ \A x : l \in Hands(x) => x = m
      /\ lane[l].pc = "failed" /\ m \notin Doubled =>
           /\ Hands(m) = {l} /\ Unread(m) = {}
           /\ m \notin ToSet(queue) /\ m \notin ToSet(held)
           /\ m \notin ToSet(stop) /\ m \notin settled
           /\ Once(queue, m) /\ Once(held, m) /\ Once(stop, m)
      /\ lane[l].pc = "unsure" => \A x : Hands(x)' = Hands(x)
  <2>1. CASE lane[l].pc = "failed" /\ InHand(l)
    BY <1>2, <2>1, InHandAlone
  <2>2. CASE lane[l].pc = "unsure" /\ ~InHand(l)
    BY <1>4, <2>2 DEF Hands
  <2> QED
    BY <1>2, <2>1, <2>2
<1>6. /\ held' \in Seq(Msgs) /\ faults' \in 0..MaxFaults
      /\ \/ /\ ToSet(held') = ToSet(held) \cup {m} /\ lost' = lost
            /\ \A x : Once(held, x) => Once(held', x)
            /\ repeated' = IF lane[l].pc = "unsure" THEN repeated \cup {m}
                           ELSE repeated
         \/ /\ held' = held /\ repeated' = repeated
            /\ lost' = IF lane[l].pc = "failed" THEN lost \cup {m} ELSE lost
  <2>1. CASE /\ RestoreHeld(m) /\ UNCHANGED <<faults, lost>>
             /\ repeated' = IF lane[l].pc = "unsure" THEN repeated \cup {m}
                            ELSE repeated
    <3>1. /\ <<m>> \in Seq(Msgs) /\ ToSet(<<m>>) = {m} /\ \A x : Once(<<m>>, x)
      BY <1>2 DEF ToSet, Once
    <3>2. held \in Seq(Msgs) /\ faults' \in 0..MaxFaults
      BY <1>1, <2>1 DEF TypeOK
    <3>3. /\ <<m>> \o held \in Seq(Msgs)
          /\ ToSet(<<m>> \o held) = ToSet(<<m>>) \cup ToSet(held)
          /\ \A x : /\ Once(<<m>>, x) /\ Once(held, x)
                   /\ ~(x \in ToSet(<<m>>) /\ x \in ToSet(held))
                 => Once(<<m>> \o held, x)
      BY <3>1, <3>2, Concat
    <3> QED
      BY <2>1, <3>1, <3>2, <3>3 DEF RestoreHeld
  <2>2. CASE /\ Fault /\ UNCHANGED <<held, repeated>>
             /\ lost' = IF lane[l].pc = "failed" THEN lost \cup {m} ELSE lost
    BY <1>1, <2>2, Faulty DEF TypeOK
  <2> QED
    BY <2>1, <2>2 DEF ReleaseFails
<1>7. Base'
  <2>1. lost' \subseteq Msgs /\ repeated' \subseteq Msgs
    BY <1>1, <1>2, <1>6 DEF TypeOK
  <2>2. \A S \in {timed', landed', accepted', settled', lost', volatile',
                  repeated'} :
          S \subseteq Msgs
    BY <1>1, <1>3, <2>1 DEF TypeOK
  <2>3. TypeOK'
    BY <1>1, <1>3, <1>4, <1>6, <2>2 DEF TypeOK, LaneRecords
  <2> QED
    BY <1>1, <1>3, <1>4, <2>3 DEF Base, LateCounted
<1>8. Known'
  BY <1>2, <1>3, <1>4, <1>6, IdleFields DEF PInv, Known, MsgsOf
<1>9. Copies'
  <2>1. ASSUME NEW x \in Msgs \ Doubled', x # m
        PROVE  Same(x) /\ (x \in settled' => x \in settled)
    <3>1. Hands(x)' = Hands(x)
      BY <1>4, <1>5, <2>1
    <3>2. Unread(x)' = Unread(x)
      BY <1>3
    <3>3. /\ x \in ToSet(held') <=> x \in ToSet(held)
          /\ Once(held, x) => Once(held', x)
      BY <1>6, <2>1
    <3>4. queue' = queue /\ stop' = stop /\ settled' = settled
      BY <1>3
    <3> QED
      BY <3>1, <3>2, <3>3, <3>4 DEF Same
  <2>2. ASSUME m \in Msgs \ Doubled'
        PROVE  Alone(m)' /\ (m \in settled' => Nowhere(m)')
    <3>1. m \in Msgs \ Doubled
      BY <1>3, <1>6, <2>2
    <3>2. CASE lane[l].pc = "failed"
      BY <1>3, <1>4, <1>5, <1>6, <3>1, <3>2 DEF Alone, Nowhere
    <3>3. CASE lane[l].pc = "unsure"
      <4>1. held' = held
        BY <1>6, <2>2, <3>3
      <4>2. Alone(m) /\ (m \in settled => Nowhere(m))
        BY <3>1 DEF PInv, Copies
      <4> QED
        BY <1>3, <1>5, <3>3, <4>1, <4>2 DEF Alone, Nowhere
    <3> QED
      BY <1>2, <3>2, <3>3
  <2>3. ASSUME NEW x \in accepted' \ (settled' \cup lost'), Nowhere(x)'
        PROVE  x \in MsgsOf(registry)'
    <3>1. Hands(x)' = Hands(x)
      BY <1>2, <1>4, <1>5, <1>6, <2>3 DEF Nowhere
    <3>2. Nowhere(x) /\ x \notin lost
      BY <1>3, <1>6, <2>3, <3>1 DEF Nowhere
    <3> QED
      BY <1>3, <2>3, <3>2 DEF PInv, Copies
  <2>4. settled' \subseteq Msgs /\ Doubled \subseteq Doubled' /\ Copies
    BY <1>1, <1>3, <1>6 DEF TypeOK, PInv
  <2> QED
    BY <2>1, <2>2, <2>3, <2>4, CopiesMove
<1> QED
  BY <1>4, <1>7, <1>8, <1>9 DEF PInv

\* A message that is sent is nowhere yet.
LEMMA SendKeeps ==
  ASSUME PInv, NEW l \in Lanes, NEW m \in Msgs, Send(l, m)
  PROVE  PInv'
<1> PICK r : r = [Idle EXCEPT !.pc = "submit", !.kind = "fresh", !.msg = m]
  OBVIOUS
<1>1. Base /\ TypeOK /\ Claimed
  BY DEF PInv, Base
<1>2. /\ r \in LaneRecords /\ Fits(r) /\ \A x : Carries(r, x) <=> x = m
      /\ r.pc = "submit" /\ r.kind = "fresh" /\ r.msg = m /\ r.seq = 0
      /\ r.todo = {}
  BY DEF Idle, LaneRecords, Carries, Fits, Queued, Direct
<1>3. /\ UNCHANGED <<queue, ledger, journals, held, owner, registry, timed, acks,
                     watch, stop, stops, late, landed, unsent, faults, accepted,
                     settled, lost, volatile, work, repeated>>
      /\ lane' = [lane EXCEPT ![l] = r]
      /\ \A x : Unread(x)' = Unread(x)
  BY DEF Send, disk, memory, stopper, engine, history, Unread
<1> HIDE DEF LaneRecords, Carries
<1>4. journals \cap registry = {}
  BY <1>1 DEF Claimed, ClaimsApart
<1>5. /\ lane' \in [Lanes -> LaneRecords] /\ lane'[l] = r
      /\ \A k \in Lanes \ {l} : /\ lane'[k] = lane[k]
                                /\ InHand(k)' <=> InHand(k)
      /\ \A x : Hands(x)' = (Hands(x) \ {l})
                            \cup (IF Carries(r, x) THEN {l} ELSE {})
      /\ Shaped' /\ Bounded' /\ Claimed'
  BY <1>1, <1>2, <1>3, <1>4, LaneTurns
<1>6. \A x : l \notin Hands(x) /\ (x # m => Hands(x)' = Hands(x))
  <2>1. lane[l].pc = "idle" /\ lane[l].kind = ""
    BY IdleFields DEF Send
  <2>2. \A x : l \notin Hands(x)
    BY <2>1 DEF Hands, InHand, Taken, Direct
  <2> QED
    BY <1>2, <1>5, <2>2
<1>7. /\ m \notin accepted /\ m \notin settled /\ m \notin Doubled /\ Nowhere(m)
      /\ \A k \in Lanes : lane[k].msg # m
  <2>1. m \notin accepted /\ \A k \in Lanes : lane[k].msg # m
    BY DEF Send
  <2>2. Hands(m) = {} /\ Unread(m) = {}
    BY <2>1 DEF PInv, Known, MsgsOf, Hands, Unread
  <2> QED
    BY <2>1, <2>2 DEF PInv, Known, Nowhere
<1>8. Base'
  <2>1. TypeOK'
    BY <1>1, <1>3, <1>5 DEF TypeOK, LaneRecords
  <2> QED
    BY <1>1, <1>3, <1>5, <2>1 DEF Base, LateCounted
<1>9. Known'
  BY <1>2, <1>3, <1>5, <1>7 DEF PInv, Known, MsgsOf
<1>10. Copies'
  <2>1. \A x \in Msgs \ Doubled' :
          x # m => Same(x) /\ (x \in settled' => x \in settled)
    BY <1>2, <1>3, <1>5, <1>6 DEF Same
  <2>2. Alone(m)' /\ m \notin settled'
    BY <1>2, <1>3, <1>5, <1>7 DEF PInv, Copies, Alone, Nowhere
  <2>3. ASSUME NEW x \in accepted' \ (settled' \cup lost'), Nowhere(x)'
        PROVE  x \in MsgsOf(registry)'
    BY <1>2, <1>3, <1>5, <1>6, <1>7, <2>3 DEF PInv, Copies, Nowhere, MsgsOf
  <2>4. settled' \subseteq Msgs /\ Doubled \subseteq Doubled' /\ Copies
    BY <1>1, <1>3 DEF TypeOK, PInv
  <2> QED
    BY <2>1, <2>2, <2>3, <2>4, CopiesMove
<1> QED
  BY <1>5, <1>8, <1>9, <1>10 DEF PInv

\* A release takes an item out of the held ones.
LEMMA ReleaseKeeps ==
  ASSUME PInv, NEW l \in Lanes, NEW m \in Msgs, Release(l, m)
  PROVE  PInv'
<1> PICK r : r = [Idle EXCEPT !.pc = "submit", !.kind = "release", !.msg = m]
  OBVIOUS
<1>1. Base /\ TypeOK /\ Claimed
  BY DEF PInv, Base
<1>2. /\ r \in LaneRecords /\ Fits(r) /\ \A x : Carries(r, x) <=> x = m
      /\ r.pc = "submit" /\ r.kind = "release" /\ r.msg = m /\ r.seq = 0
      /\ r.todo = {}
  BY DEF Idle, LaneRecords, Carries, Fits, Queued, Direct
<1>3. /\ UNCHANGED <<queue, ledger, journals, owner, registry, timed, acks,
                     watch, stop, stops, late, landed, unsent, faults, accepted,
                     settled, lost, volatile, repeated>>
      /\ work' \in [Msgs -> {"none", "open", "refused", "uncertain"}]
      /\ lane' = [lane EXCEPT ![l] = r]
      /\ \A x : Unread(x)' = Unread(x)
  BY <1>1 DEF Release, disk, memory, stopper, engine, Unread, TypeOK
<1> HIDE DEF LaneRecords, Carries
<1>4. journals \cap registry = {}
  BY <1>1 DEF Claimed, ClaimsApart
<1>5. /\ lane' \in [Lanes -> LaneRecords] /\ lane'[l] = r
      /\ \A k \in Lanes \ {l} : /\ lane'[k] = lane[k]
                                /\ InHand(k)' <=> InHand(k)
      /\ \A x : Hands(x)' = (Hands(x) \ {l})
                            \cup (IF Carries(r, x) THEN {l} ELSE {})
      /\ Shaped' /\ Bounded' /\ Claimed'
  BY <1>1, <1>2, <1>3, <1>4, LaneTurns
<1>6. \A x : l \notin Hands(x) /\ (x # m => Hands(x)' = Hands(x))
  <2>1. lane[l].pc = "idle" /\ lane[l].kind = ""
    BY IdleFields DEF Release
  <2>2. \A x : l \notin Hands(x)
    BY <2>1 DEF Hands, InHand, Taken, Direct
  <2> QED
    BY <1>2, <1>5, <2>2
<1>7. m \in ToSet(held) /\ held \in Seq(Msgs) /\ held' = RemoveFirst(held, m)
  BY <1>1 DEF Release, TypeOK
<1>8. /\ held' \in Seq(Msgs) /\ ToSet(held) = ToSet(held') \cup {m}
      /\ \A x : Once(held, x) => Once(held', x)
      /\ Once(held, m) => m \notin ToSet(held')
  BY <1>7, RemovedFirst
<1>9. Base'
  <2>1. TypeOK'
    BY <1>1, <1>3, <1>5, <1>8 DEF TypeOK, LaneRecords
  <2> QED
    BY <1>1, <1>3, <1>5, <2>1 DEF Base, LateCounted
<1>10. Known'
  BY <1>2, <1>3, <1>5, <1>7, <1>8 DEF PInv, Known, MsgsOf
<1>11. Copies'
  <2>1. \A x \in Msgs \ Doubled' :
          x # m => Same(x) /\ (x \in settled' => x \in settled)
    BY <1>2, <1>3, <1>5, <1>6, <1>8 DEF Same
  <2>2. m \in Msgs \ Doubled' => Alone(m)' /\ (m \in settled' => Nowhere(m)')
    BY <1>2, <1>3, <1>5, <1>7, <1>8 DEF PInv, Copies, Alone, Nowhere
  <2>3. ASSUME NEW x \in accepted' \ (settled' \cup lost'), Nowhere(x)'
        PROVE  x \in MsgsOf(registry)'
    BY <1>2, <1>3, <1>5, <1>6, <1>8, <2>3 DEF PInv, Copies, Nowhere, MsgsOf
  <2>4. settled' \subseteq Msgs /\ Doubled \subseteq Doubled' /\ Copies
    BY <1>1, <1>3 DEF TypeOK, PInv
  <2> QED
    BY <2>1, <2>2, <2>3, <2>4, CopiesMove
<1> QED
  BY <1>5, <1>9, <1>10, <1>11 DEF PInv

-----------------------------------------------------------------------------
(* The engine's answer *)

\* What a thread has in hand is delivered, and the thread ends.
LEMMA HandSettles ==
  ASSUME PInv, NEW l \in Lanes, InHand(l),
         NEW m \in Msgs, m = lane[l].msg, Deliver(m),
         NEW r \in AtRest, Leaves(l, r), r.pc = "unsure" => r.msg = m,
         timed' \subseteq Msgs, landed' \subseteq Msgs, faults' \in 0..MaxFaults,
         UNCHANGED <<disk, held, registry, acks, watch, stopper, late, unsent,
                     lost, volatile, work, repeated>>
  PROVE  PInv'
<1> HIDE DEF AtRest
<1>1. Base /\ TypeOK /\ Claimed
  BY DEF PInv, Base
<1>2. /\ UNCHANGED <<queue, ledger, journals, held, registry, acks, watch, stop,
                     stops, late, unsent, lost, volatile, work, repeated>>
      /\ settled' = settled \cup {m} /\ accepted' = accepted \cup {m}
      /\ \A x : Unread(x)' = Unread(x)
  BY DEF disk, stopper, Deliver, Unread
<1>3. /\ lane' \in [Lanes -> LaneRecords] /\ owner' \in Lanes \cup {Nobody}
      /\ lane'[l] = r /\ ~Taken(l)' /\ ~InHand(l)'
      /\ \A k \in Lanes \ {l} : /\ lane'[k] = lane[k]
                                /\ Taken(k)' <=> Taken(k)
                                /\ InHand(k)' <=> InHand(k)
      /\ \A x : Hands(x)' = Hands(x) \ {l}
      /\ Shaped' /\ Bounded' /\ Claimed'
  BY <1>1, <1>2, LeaveKeeps
<1>4. /\ \A x : l \in Hands(x) => x = m
      /\ m \notin Doubled =>
           /\ Hands(m) = {l} /\ Unread(m) = {}
           /\ m \notin ToSet(queue) /\ m \notin ToSet(held)
           /\ m \notin ToSet(stop) /\ m \notin settled
           /\ Once(queue, m) /\ Once(held, m) /\ Once(stop, m)
      /\ \A k \in Lanes \ {l} : lane[k].kind = "fresh" => lane[k].msg # m
  BY InHandAlone
<1>5. Base'
  <2>1. \A S \in {timed', landed', accepted', settled', lost', volatile',
                  repeated'} :
          S \subseteq Msgs
    BY <1>1, <1>2 DEF TypeOK
  <2>2. TypeOK'
    BY <1>1, <1>2, <1>3, <2>1 DEF TypeOK, LaneRecords
  <2> QED
    BY <1>1, <1>2, <1>3, <2>2 DEF Base, LateCounted
<1>6. Known'
  BY <1>2, <1>3, <1>4, RestFields DEF PInv, Known, MsgsOf
<1>7. Copies'
  <2>1. \A x \in Msgs \ Doubled' :
          x # m => Same(x) /\ (x \in settled' => x \in settled)
    BY <1>2, <1>3, <1>4 DEF Same
  <2>2. m \in Msgs \ Doubled' => Alone(m)' /\ (m \in settled' => Nowhere(m)')
    BY <1>2, <1>3, <1>4 DEF Alone, Nowhere
  <2>3. ASSUME NEW x \in accepted' \ (settled' \cup lost'), Nowhere(x)'
        PROVE  x \in MsgsOf(registry)'
    <3>1. Nowhere(x) /\ x \in accepted \ (settled \cup lost)
      BY <1>2, <1>3, <1>4, <2>3 DEF Nowhere
    <3> QED
      BY <1>2, <3>1 DEF PInv, Copies
  <2>4. settled' \subseteq Msgs /\ Doubled \subseteq Doubled' /\ Copies
    BY <1>1, <1>2 DEF TypeOK, PInv
  <2> QED
    BY <2>1, <2>2, <2>3, <2>4, CopiesMove
<1> QED
  BY <1>3, <1>5, <1>6, <1>7 DEF PInv

\* The engine accepted.
LEMMA CommitKeeps ==
  ASSUME PInv, NEW l \in Lanes, Commit(l)
  PROVE  PInv'
<1> PICK m : m = lane[l].msg
  OBVIOUS
<1>1. m \in Msgs /\ InHand(l)
  BY DEF Commit, PInv, Base, Shaped, Fits, InHand, Taken
<1>2. Base /\ timed \subseteq Msgs /\ landed \subseteq Msgs
  BY DEF PInv, Base, TypeOK
<1>3. /\ UNCHANGED <<disk, held, registry, acks, watch, stopper, late, unsent,
                     lost, volatile, work, repeated, timed>>
      /\ landed' = landed \cup {m} /\ Deliver(m) /\ Done(l)
  BY DEF Commit, memory
<1>4. PICK r \in AtRest : Leaves(l, r) /\ (r.pc = "unsure" => r.msg = m)
  BY <1>1, <1>2, <1>3, DoneLeaves
<1>5. faults' \in 0..MaxFaults
  BY <1>1, <1>2, <1>3, DoneLeaves
<1> HIDE DEF AtRest
<1> QED
  BY <1>1, <1>2, <1>3, <1>4, <1>5, HandSettles

\* A message that timed out is in the rollout by now, or it is sent.
LEMMA CheckKeeps ==
  ASSUME PInv, NEW l \in Lanes, Check(l)
  PROVE  PInv'
<1> PICK m : m = lane[l].msg
  OBVIOUS
<1>1. Base /\ TypeOK
  BY DEF PInv, Base
<1>2. m \in Msgs /\ lane[l].pc = "claimed" /\ Taken(l) /\ InHand(l)
  BY <1>1 DEF Check, Base, Shaped, Fits, InHand, Taken
<1>3. UNCHANGED <<disk, held, registry, acks, watch, stopper, engine, faults,
                  lost, volatile, work, repeated>>
  BY DEF Check
<1>4. CASE Landed(l)
  <2>1. Idle \in AtRest /\ Leaves(l, Idle) /\ Idle.pc # "unsure"
    BY <1>4, IdleFields DEF Check, Ends, AtRest
  <2>2. faults' \in 0..MaxFaults /\ timed' \subseteq Msgs /\ landed' \subseteq Msgs
    BY <1>1, <1>3, <1>4 DEF Check, TypeOK, engine
  <2>3. Deliver(m) /\ UNCHANGED <<late, unsent>>
    BY <1>3, <1>4 DEF Check, engine
  <2> HIDE DEF AtRest
  <2> QED
    BY <1>2, <1>3, <2>1, <2>2, <2>3, HandSettles
<1>5. CASE ~Landed(l)
  <2>1. Goes(l, "sending") /\ UNCHANGED <<timed, settled, accepted, owner>>
    BY <1>5 DEF Check
  <2>2. /\ lane' \in [Lanes -> LaneRecords]
        /\ Shaped' /\ Bounded' /\ Claimed' /\ Known' /\ Copies'
    BY <1>2, <1>3, <2>1, HandGoesOn DEF stopper, history
  <2>3. TypeOK' /\ IsFiniteSet(registry)' /\ LateCounted'
    BY <1>1, <1>3, <2>1, <2>2
       DEF Base, TypeOK, LateCounted, LaneRecords, disk, stopper, engine
  <2> QED
    BY <2>2, <2>3 DEF PInv, Base
<1> QED
  BY <1>4, <1>5

-----------------------------------------------------------------------------
(* Claims come back *)

\* The claim of a thread that has one in hand.
LEMMA ClaimInHand ==
  ASSUME PInv, NEW l \in Lanes, lane[l].pc = "unsent"
  PROVE  /\ lane[l].kind \in Queued /\ Taken(l) /\ InHand(l)
         /\ lane[l].msg \in Msgs /\ lane[l].msg \in accepted
         /\ ClaimOf(l) \in Claims /\ ClaimOf(l).seq = lane[l].seq
         /\ ClaimOf(l).msg = lane[l].msg
<1>1. lane[l] \in LaneRecords /\ Fits(lane[l])
  BY DEF PInv, Base, TypeOK, LaneRecords, Shaped
<1>2. lane[l].kind \in Queued /\ lane[l].msg \in Msgs
  BY <1>1 DEF Fits
<1>3. Taken(l) /\ InHand(l) /\ lane[l].kind # "fresh"
  BY <1>2 DEF Taken, InHand, Queued
<1>4. lane[l].msg \in accepted
  BY <1>3 DEF PInv, Known
<1>5. ClaimOf(l) \in Claims
  BY <1>1, <1>2 DEF ClaimOf, Claims, LaneRecords
<1> QED
  BY <1>2, <1>3, <1>4, <1>5 DEF ClaimOf

\* Back into the file.
LEMMA RestoreKeeps ==
  ASSUME PInv, NEW l \in Lanes, Restore(l)
  PROVE  PInv'
<1> PICK m : m = lane[l].msg
  OBVIOUS
<1> PICK c : c = ClaimOf(l)
  OBVIOUS
<1>1. /\ InHand(l) /\ m \in Msgs /\ m \in accepted
      /\ c \in Claims /\ c.msg = m
  BY ClaimInHand DEF Restore
<1>2. /\ Merged \in Seq(Msgs)
      /\ ToSet(Merged) = ToSet(queue) \cup MsgsOf(registry)
      /\ \A x : Once(queue, x) => Once(Merged, x)
  BY MergedQueue DEF PInv, Base, TypeOK
<1>3. /\ queue' = Place(Merged, c) /\ Ends(l)
      /\ UNCHANGED <<ledger, journals, held, memory, watch, stopper, engine,
                     faults, settled, lost, volatile, accepted, work, repeated>>
  BY DEF Restore, history
<1>4. /\ queue' \in Seq(Msgs)
      /\ ToSet(queue') = ToSet(queue) \cup MsgsOf(registry) \cup {m}
      /\ \A x : Once(queue, x)
                  /\ (x = m => x \notin ToSet(queue) \cup MsgsOf(registry))
                => Once(queue', x)
  BY <1>1, <1>2, <1>3, Placed
<1>5. accepted' = accepted \cup {m}
  BY <1>1, <1>3
<1>6. PICK r \in AtRest : Leaves(l, r) /\ (r.pc = "unsure" => r.msg = m)
  BY <1>3, IdleFields DEF Ends, AtRest
<1>7. faults' \in 0..MaxFaults
  BY <1>3 DEF PInv, Base, TypeOK
<1> HIDE DEF AtRest
<1> QED
  BY <1>1, <1>3, <1>4, <1>5, <1>6, <1>7, HandToQueue

\* Into a journal.
LEMMA JournalKeeps ==
  ASSUME PInv, NEW l \in Lanes, Journal(l)
  PROVE  PInv'
<1> PICK m : m = lane[l].msg
  OBVIOUS
<1> PICK c : c = ClaimOf(l)
  OBVIOUS
<1>1. Base /\ TypeOK /\ Claimed
  BY DEF PInv, Base
<1>2. /\ Taken(l) /\ InHand(l) /\ m \in Msgs /\ m \in accepted
      /\ c \in Claims /\ c.msg = m /\ c.seq = lane[l].seq
  BY ClaimInHand DEF Journal
<1>3. /\ UNCHANGED <<queue, ledger, held, registry, timed, acks, watch, stop,
                     stops, late, landed, unsent, accepted, settled, lost,
                     volatile, work, repeated>>
      /\ journals' = journals \cup {c} /\ Ends(l) /\ Fault
  BY DEF Journal, memory, stopper, engine, history
<1>4. /\ lane' \in [Lanes -> LaneRecords] /\ owner' \in Lanes \cup {Nobody}
      /\ lane'[l] = Idle /\ ~Taken(l)' /\ ~InHand(l)'
      /\ \A k \in Lanes \ {l} : /\ lane'[k] = lane[k]
                                /\ Taken(k)' <=> Taken(k)
                                /\ InHand(k)' <=> InHand(k)
      /\ \A x : Hands(x)' = Hands(x) \ {l}
  BY <1>1, <1>3, LaneEnds
<1>5. /\ c \notin registry /\ c.seq \notin ledger
      /\ \A d \in journals \cup registry : d.seq # c.seq
      /\ \A k \in Lanes \ {l} : Taken(k) => lane[k].seq # c.seq
  BY <1>1, <1>2 DEF Claimed, ClaimsApart
<1>6. /\ Unread(m)' = Unread(m) \cup {c}
      /\ \A x : x # m => Unread(x)' = Unread(x)
  BY <1>2, <1>3, <1>5 DEF Unread
<1>7. /\ \A x : l \in Hands(x) => x = m
      /\ m \notin Doubled =>
           /\ Hands(m) = {l} /\ Unread(m) = {}
           /\ m \notin ToSet(queue) /\ m \notin ToSet(held)
           /\ m \notin ToSet(stop) /\ m \notin settled
           /\ Once(queue, m) /\ Once(held, m) /\ Once(stop, m)
  BY <1>2, InHandAlone
<1>8. Base'
  <2>1. faults' \in 0..MaxFaults
    BY <1>1, <1>3, Faulty
  <2>2. TypeOK'
    BY <1>1, <1>2, <1>3, <1>4, <2>1 DEF TypeOK, LaneRecords
  <2>3. Shaped'
    BY <1>1, <1>4, IdleFields DEF Base, Shaped
  <2>4. Bounded'
    <3>1. ASSUME NEW k \in Nat, Stamp(k)'
          PROVE  k = 0 \/ Stamp(k)
      BY <1>2, <1>3, <1>4, <3>1, IdleFields DEF Stamp
    <3> QED
      BY <1>1, <3>1, StaysBounded
  <2> QED
    BY <1>1, <1>3, <2>2, <2>3, <2>4 DEF Base, LateCounted
<1>9. Claimed'
  <2>1. ClaimsApart'
    BY <1>1, <1>3, <1>4, <1>5 DEF Claimed, ClaimsApart
  <2>2. ReadsHold'
    BY <1>1, <1>3, <1>4, IdleFields DEF Claimed, ReadsHold
  <2> QED
    BY <2>1, <2>2 DEF Claimed
<1>10. Known'
  <2>1. /\ MsgsOf(journals)' = MsgsOf(journals) \cup {m}
        /\ MsgsOf(registry)' = MsgsOf(registry)
    BY <1>2, <1>3 DEF MsgsOf
  <2> QED
    BY <1>2, <1>3, <1>4, <2>1, IdleFields DEF PInv, Known
<1>11. Copies'
  <2>1. \A x \in Msgs \ Doubled' :
          x # m => Same(x) /\ (x \in settled' => x \in settled)
    BY <1>3, <1>4, <1>6, <1>7 DEF Same
  <2>2. m \in Msgs \ Doubled' => Alone(m)' /\ (m \in settled' => Nowhere(m)')
    BY <1>3, <1>4, <1>6, <1>7 DEF Alone, Nowhere
  <2>3. ASSUME NEW x \in accepted' \ (settled' \cup lost'), Nowhere(x)'
        PROVE  x \in MsgsOf(registry)'
    <3>1. x # m
      BY <1>6, <2>3 DEF Nowhere
    <3>2. Nowhere(x)
      BY <1>3, <1>4, <1>6, <1>7, <2>3, <3>1 DEF Nowhere
    <3> QED
      BY <1>3, <2>3, <3>2 DEF PInv, Copies
  <2>4. settled' \subseteq Msgs /\ Doubled \subseteq Doubled' /\ Copies
    BY <1>1, <1>3 DEF TypeOK, PInv
  <2> QED
    BY <2>1, <2>2, <2>3, <2>4, CopiesMove
<1> QED
  BY <1>8, <1>9, <1>10, <1>11 DEF PInv

\* Into the memory of the worker.
LEMMA KeepKeeps ==
  ASSUME PInv, NEW l \in Lanes, Keep(l)
  PROVE  PInv'
<1> PICK m : m = lane[l].msg
  OBVIOUS
<1> PICK c : c = ClaimOf(l)
  OBVIOUS
<1>1. Base /\ TypeOK /\ Claimed
  BY DEF PInv, Base
<1>2. /\ Taken(l) /\ InHand(l) /\ m \in Msgs /\ m \in accepted
      /\ c \in Claims /\ c.msg = m /\ c.seq = lane[l].seq
  BY ClaimInHand DEF Keep
<1>3. /\ UNCHANGED <<queue, ledger, journals, held, timed, acks, watch, stop,
                     stops, late, landed, unsent, accepted, settled, lost, work,
                     repeated>>
      /\ registry' = registry \cup {c} /\ volatile' = volatile \cup {m}
      /\ Ends(l) /\ Fault
      /\ \A x : Unread(x)' = Unread(x)
  BY DEF Keep, disk, stopper, engine, Unread
<1>4. /\ lane' \in [Lanes -> LaneRecords] /\ owner' \in Lanes \cup {Nobody}
      /\ lane'[l] = Idle /\ ~Taken(l)' /\ ~InHand(l)'
      /\ \A k \in Lanes \ {l} : /\ lane'[k] = lane[k]
                                /\ Taken(k)' <=> Taken(k)
                                /\ InHand(k)' <=> InHand(k)
      /\ \A x : Hands(x)' = Hands(x) \ {l}
  BY <1>1, <1>3, LaneEnds
<1>5. /\ c \notin journals /\ c.seq \notin ledger
      /\ \A d \in journals \cup registry : d.seq # c.seq
      /\ \A k \in Lanes \ {l} : Taken(k) => lane[k].seq # c.seq
  BY <1>1, <1>2 DEF Claimed, ClaimsApart
<1>6. \A x : l \in Hands(x) => x = m
  BY <1>2, InHandAlone
<1>7. MsgsOf(registry)' = MsgsOf(registry) \cup {m}
  BY <1>2, <1>3 DEF MsgsOf
<1>8. Base'
  <2>1. faults' \in 0..MaxFaults
    BY <1>1, <1>3, Faulty
  <2>2. TypeOK'
    <3>1. \A S \in {timed', landed', accepted', settled', lost', volatile',
                    repeated'} :
            S \subseteq Msgs
      BY <1>1, <1>2, <1>3 DEF TypeOK
    <3>2. registry' \subseteq Claims
      BY <1>1, <1>2, <1>3 DEF TypeOK
    <3> QED
      BY <1>1, <1>3, <1>4, <2>1, <3>1, <3>2 DEF TypeOK, LaneRecords
  <2>3. Shaped'
    BY <1>1, <1>4, IdleFields DEF Base, Shaped
  <2>4. Bounded'
    <3>1. ASSUME NEW k \in Nat, Stamp(k)'
          PROVE  k = 0 \/ Stamp(k)
      BY <1>2, <1>3, <1>4, <3>1, IdleFields DEF Stamp
    <3> QED
      BY <1>1, <3>1, StaysBounded
  <2>5. IsFiniteSet(registry)'
    BY <1>1, <1>3, FS_AddElement DEF Base
  <2> QED
    BY <1>1, <1>3, <2>2, <2>3, <2>4, <2>5 DEF Base, LateCounted
<1>9. Claimed'
  <2>1. ClaimsApart'
    BY <1>1, <1>3, <1>4, <1>5 DEF Claimed, ClaimsApart
  <2>2. ReadsHold'
    BY <1>1, <1>3, <1>4, IdleFields DEF Claimed, ReadsHold
  <2> QED
    BY <2>1, <2>2 DEF Claimed
<1>10. Known'
  <2>1. MsgsOf(journals)' = MsgsOf(journals)
    BY <1>3 DEF MsgsOf
  <2> QED
    BY <1>2, <1>3, <1>4, <1>7, <2>1, IdleFields DEF PInv, Known
<1>11. Copies'
  <2>1. \A x \in Msgs \ Doubled' :
          x # m => Same(x) /\ (x \in settled' => x \in settled)
    BY <1>3, <1>4, <1>6 DEF Same
  <2>2. m \notin Msgs \ Doubled'
    BY <1>3
  <2>3. ASSUME NEW x \in accepted' \ (settled' \cup lost'), Nowhere(x)'
        PROVE  x \in MsgsOf(registry)'
    <3>1. x # m => Nowhere(x)
      BY <1>3, <1>4, <1>6, <2>3 DEF Nowhere
    <3> QED
      BY <1>3, <1>7, <2>3, <3>1 DEF PInv, Copies
  <2>4. settled' \subseteq Msgs /\ Doubled \subseteq Doubled' /\ Copies
    BY <1>1, <1>3 DEF TypeOK, PInv
  <2> QED
    BY <2>1, <2>2, <2>3, <2>4, CopiesMove
<1> QED
  BY <1>8, <1>9, <1>10, <1>11 DEF PInv

-----------------------------------------------------------------------------
(* Deliveries *)

\* A pass that takes nothing ends.
LEMMA NoClaimKeeps ==
  ASSUME PInv, NEW l \in Lanes, NoClaim(l)
  PROVE  PInv'
<1>1. Base /\ TypeOK /\ Claimed
  BY DEF PInv, Base
<1>2. lane[l].pc = "pass" /\ lane[l].kind \in Queued /\ ~InHand(l)
  BY <1>1 DEF NoClaim, Base, Shaped, Fits, InHand, Taken, Queued, Direct
<1>3. /\ UNCHANGED <<queue, ledger, journals, held, registry, timed, acks, watch,
                     stop, stops, late, landed, unsent, accepted, settled, lost,
                     volatile, work, repeated>>
      /\ Ends(l)
      /\ \A x : Unread(x)' = Unread(x)
  BY DEF NoClaim, disk, memory, stopper, engine, history, Unread
<1>4. /\ lane' \in [Lanes -> LaneRecords] /\ owner' \in Lanes \cup {Nobody}
      /\ lane'[l] = Idle /\ ~Taken(l)' /\ ~InHand(l)'
      /\ \A k \in Lanes \ {l} : /\ lane'[k] = lane[k]
                                /\ Taken(k)' <=> Taken(k)
                                /\ InHand(k)' <=> InHand(k)
      /\ \A x : Hands(x)' = Hands(x) \ {l}
      /\ Shaped' /\ Bounded' /\ Claimed'
  BY <1>1, <1>3, EndKeeps
<1>5. \A x : Hands(x)' = Hands(x)
  BY <1>2, <1>4 DEF Hands
<1>6. Base'
  <2>1. faults' \in 0..MaxFaults
    BY <1>1, Faulty DEF NoClaim, TypeOK
  <2>2. TypeOK'
    BY <1>1, <1>3, <1>4, <2>1 DEF TypeOK, LaneRecords
  <2> QED
    BY <1>1, <1>3, <1>4, <2>2 DEF Base, LateCounted
<1>7. Known'
  BY <1>3, <1>4, IdleFields DEF PInv, Known, MsgsOf
<1>8. Copies'
  BY <1>3, <1>5 DEF PInv, Copies, Alone, Nowhere, MsgsOf
<1> QED
  BY <1>4, <1>6, <1>7, <1>8 DEF PInv

\* What a pass takes is in the queue.
LEMMA PositionInQueue ==
  ASSUME TypeOK, NEW l \in Lanes, Position(l) # 0
  PROVE  Position(l) \in 1..Len(queue)
<1>1. queue \in Seq(Msgs)
  BY DEF TypeOK
<1>2. CASE lane[l].kind = "steer"
  <2> DEFINE m == lane[l].msg
  <2>1. Position(l) = SelectInSeq(queue, LAMBDA e : e = m)
    BY <1>2 DEF Position
  <2> HIDE DEF m
  <2>2. LET j == SelectInSeq(queue, LAMBDA e : e = m)
        IN  j # 0 => j \in 1..Len(queue) /\ queue[j] = m
    BY <1>1, Selected
  <2> QED
    BY <2>1, <2>2
<1>3. CASE lane[l].kind # "steer"
  <2>1. Position(l) = 1 /\ queue # <<>>
    BY <1>3 DEF Position
  <2> QED
    BY <1>1, <2>1
<1> QED
  BY <1>2, <1>3

\* A message leaves the queue in the hands of a thread.
LEMMA ClaimKeeps ==
  ASSUME PInv, NEW l \in Lanes, Claim(l)
  PROVE  PInv'
<1> PICK i : i = Position(l)
  OBVIOUS
<1> PICK m : m = queue[i]
  OBVIOUS
<1> PICK r : r = [lane[l] EXCEPT
                    !.pc = IF lane[l].kind = "pump" THEN "claimed" ELSE "sending",
                    !.msg = m, !.at = i - 1, !.seq = NextSeq]
  OBVIOUS
<1>1. Base /\ TypeOK /\ Claimed
  BY DEF PInv, Base
<1>2. queue \in Seq(Msgs) /\ i \in 1..Len(queue)
  BY <1>1, PositionInQueue DEF Claim, TypeOK
<1>3. m \in ToSet(queue) /\ m \in Msgs /\ i \in Nat \ {0}
  BY <1>2, Entries
<1>4. NextSeq \in Nat \ {0} /\ \A k \in Nat : Stamp(k) => k < NextSeq
  BY <1>1, NextSeqIsLater
<1>5. /\ lane[l] \in LaneRecords /\ lane[l].kind \in Queued /\ lane[l].todo = {}
      /\ lane[l].pc = "pass"
  BY <1>1 DEF Claim, TypeOK, LaneRecords, Base, Shaped, Fits
<1>6. /\ r \in LaneRecords /\ Fits(r) /\ \A x : Carries(r, x) <=> x = m
      /\ r.pc \in {"claimed", "sending"} /\ r.kind \in Queued
      /\ r.msg = m /\ r.seq = NextSeq /\ r.todo = {}
  <2>1. /\ r.pc \in {"claimed", "sending"} /\ r.kind = lane[l].kind
        /\ r.msg = m /\ r.at = i - 1 /\ r.seq = NextSeq /\ r.todo = {}
    BY <1>5 DEF LaneRecords
  <2>2. i - 1 \in Nat
    BY <1>3
  <2>3. r \in LaneRecords
    BY <1>3, <1>4, <1>5, <2>1, <2>2 DEF LaneRecords
  <2> QED
    BY <1>3, <1>5, <2>1, <2>3, IdleFields DEF Fits, Carries
<1>7. /\ UNCHANGED <<ledger, journals, held, registry, timed, acks, watch, stop,
                     stops, late, landed, unsent, faults, accepted, settled, lost,
                     volatile, work, repeated>>
      /\ lane' = [lane EXCEPT ![l] = r] /\ queue' = RemoveAt(queue, i)
      /\ owner' \in Lanes \cup {Nobody}
      /\ journals = {} /\ registry = {}
      /\ \A x : Unread(x)' = Unread(x)
  <2>1. lane' = [lane EXCEPT ![l] = r]
    BY <1>1, <1>5 DEF Claim, TypeOK
  <2> QED
    BY <2>1 DEF Claim, Blocked, memory, stopper, engine, history, Unread
<1> HIDE DEF LaneRecords, Carries
<1>8. /\ lane' \in [Lanes -> LaneRecords] /\ lane'[l] = r
      /\ \A k \in Lanes \ {l} : /\ lane'[k] = lane[k]
                                /\ Taken(k)' <=> Taken(k)
                                /\ InHand(k)' <=> InHand(k)
      /\ \A x : Hands(x)' = (Hands(x) \ {l})
                            \cup (IF Carries(r, x) THEN {l} ELSE {})
  BY <1>1, <1>6, <1>7, LaneMoves
<1>9. /\ queue' \in Seq(Msgs) /\ ToSet(queue) = ToSet(queue') \cup {m}
      /\ \A x : Once(queue, x) => Once(queue', x)
      /\ Once(queue, m) => m \notin ToSet(queue')
  BY <1>2, <1>7, Removed
<1>10. \A x : l \notin Hands(x) /\ (x # m => Hands(x)' = Hands(x))
  <2>1. \A x : l \notin Hands(x)
    BY <1>5 DEF Hands, InHand, Taken, Queued, Direct
  <2> QED
    BY <1>6, <1>8, <2>1
<1>11. Base'
  <2>1. TypeOK'
    BY <1>1, <1>7, <1>8, <1>9 DEF TypeOK, LaneRecords
  <2>2. Shaped'
    BY <1>1, <1>6, <1>8 DEF Base, Shaped
  <2>3. Bounded'
    <3>1. ASSUME NEW k \in Nat, Stamp(k)'
          PROVE  k = NextSeq \/ Stamp(k)
      BY <1>6, <1>7, <1>8, <3>1 DEF Stamp
    <3> QED
      BY <1>1, <3>1, StaysBounded
  <2> QED
    BY <1>1, <1>7, <2>1, <2>2, <2>3 DEF Base, LateCounted
<1>12. Claimed'
  <2>1. NextSeq \notin ledger /\ \A k \in Lanes : lane[k].seq # NextSeq
    <3>1. ledger \subseteq Nat /\ \A k \in Lanes : lane[k].seq \in Nat
      BY <1>1 DEF TypeOK
    <3> QED
      BY <1>4, <3>1 DEF Stamp
  <2>2. ClaimsApart'
    BY <1>1, <1>6, <1>7, <1>8, <2>1 DEF Claimed, ClaimsApart
  <2>3. ReadsHold'
    BY <1>1, <1>6, <1>7, <1>8 DEF Claimed, ReadsHold
  <2> QED
    BY <2>2, <2>3 DEF Claimed
<1>13. Known'
  <2>1. r.kind # "fresh" /\ m \in accepted
    BY <1>3, <1>6 DEF Queued, PInv, Known
  <2> QED
    BY <1>6, <1>7, <1>8, <1>9, <2>1 DEF PInv, Known, MsgsOf
<1>14. Copies'
  <2>1. \A x \in Msgs \ Doubled' :
          x # m => Same(x) /\ (x \in settled' => x \in settled)
    BY <1>7, <1>9, <1>10 DEF Same
  <2>2. m \in Msgs \ Doubled' => Alone(m)' /\ (m \in settled' => Nowhere(m)')
    BY <1>3, <1>6, <1>7, <1>8, <1>9 DEF PInv, Copies, Alone, Nowhere
  <2>3. ASSUME NEW x \in accepted' \ (settled' \cup lost'), Nowhere(x)'
        PROVE  x \in MsgsOf(registry)'
    <3>1. x # m
      BY <1>6, <1>8, <2>3 DEF Nowhere
    <3>2. Nowhere(x)
      BY <1>7, <1>9, <1>10, <2>3, <3>1 DEF Nowhere
    <3> QED
      BY <1>7, <2>3, <3>2 DEF PInv, Copies, MsgsOf
  <2>4. settled' \subseteq Msgs /\ Doubled \subseteq Doubled' /\ Copies
    BY <1>1, <1>7 DEF TypeOK, PInv
  <2> QED
    BY <2>1, <2>2, <2>3, <2>4, CopiesMove
<1> QED
  BY <1>11, <1>12, <1>13, <1>14 DEF PInv

\* A delivery begins: the claims of the memory go to the file or to journals.
LEMMA BeginKeeps ==
  ASSUME PInv, NEW l \in Lanes, NEW kind \in Queued,
         NEW m \in Msgs \cup {NoMsg}, Begin(l, kind, m)
  PROVE  PInv'
<1>1. Base /\ TypeOK /\ Claimed
  BY DEF PInv, Base
<1>2. /\ UNCHANGED <<ledger, held, timed, acks, watch, stop, stops, late, landed,
                     unsent, accepted, settled, lost, volatile, work, repeated>>
      /\ lane[l] = Idle /\ owner' \in Lanes \cup {Nobody}
  BY DEF Begin, stopper, engine, history
<1>3. PICK todo \in SUBSET Claims :
        /\ Passes(l, kind, m, todo)
        /\ todo \subseteq journals' /\ journals \subseteq journals'
        /\ journals' \cap registry' = {}
        /\ journals' \cup registry' \subseteq journals \cup registry
        /\ \A c \in registry : \/ c \in journals' \cup registry'
                               \/ queue' = Merged
        /\ queue' = Merged \/ UNCHANGED queue
        /\ faults' \in 0..MaxFaults /\ IsFiniteSet(registry')
  <2>1. Retry(l, kind, m) /\ journals \cap registry = {}
    BY <1>1 DEF Begin, Claimed, ClaimsApart
  <2>2. CASE /\ queue' = Merged /\ registry' = {}
             /\ Passes(l, kind, m, journals)
             /\ UNCHANGED <<journals, faults>>
    <3>1. journals \in SUBSET Claims /\ faults' \in 0..MaxFaults
      BY <1>1, <2>2 DEF TypeOK
    <3>2. IsFiniteSet(registry')
      BY <2>2, FS_EmptySet
    <3> QED
      BY <2>2, <3>1, <3>2
  <2>3. CASE \E S \in SUBSET registry :
               /\ registry # {}
               /\ Fault
               /\ journals' = journals \cup S /\ registry' = registry \ S
               /\ Passes(l, kind, m, IF S = {} THEN {} ELSE journals')
               /\ UNCHANGED queue
    <3>1. PICK S \in SUBSET registry :
            /\ Fault
            /\ journals' = journals \cup S /\ registry' = registry \ S
            /\ Passes(l, kind, m, IF S = {} THEN {} ELSE journals')
            /\ UNCHANGED queue
      BY <2>3
    <3>2. faults' \in 0..MaxFaults /\ journals' \in SUBSET Claims
      BY <1>1, <3>1, Faulty DEF TypeOK
    <3>3. IsFiniteSet(registry')
      BY <1>1, <3>1, FS_Subset DEF Base
    <3>4. (IF S = {} THEN {} ELSE journals') \in SUBSET Claims
      BY <3>2
    <3> QED
      BY <2>1, <3>1, <3>2, <3>3, <3>4
  <2> QED
    BY <2>1, <2>2, <2>3 DEF Retry
<1> PICK r : r = [Idle EXCEPT !.pc = "pass", !.kind = kind, !.msg = m,
                              !.todo = todo]
  OBVIOUS
<1>4. /\ r \in LaneRecords /\ Fits(r) /\ \A x : ~Carries(r, x)
      /\ r.pc = "pass" /\ r.kind = kind /\ kind \notin Direct
      /\ r.seq = 0 /\ r.todo = todo
  BY DEF Idle, LaneRecords, Carries, Fits, Queued, Direct
<1>5. lane' = [lane EXCEPT ![l] = r]
  BY <1>3 DEF Passes
<1> HIDE DEF LaneRecords, Carries
<1>6. /\ lane' \in [Lanes -> LaneRecords] /\ lane'[l] = r
      /\ \A k \in Lanes \ {l} : /\ lane'[k] = lane[k]
                                /\ InHand(k)' <=> InHand(k)
      /\ \A x : Hands(x)' = (Hands(x) \ {l})
                            \cup (IF Carries(r, x) THEN {l} ELSE {})
      /\ Shaped' /\ Bounded' /\ Claimed'
  BY <1>1, <1>2, <1>3, <1>4, <1>5, LaneTurns
<1>7. \A x : Hands(x)' = Hands(x)
  <2>1. lane[l].pc = "idle" /\ lane[l].kind = ""
    BY <1>2, IdleFields
  <2>2. \A x : l \notin Hands(x)
    BY <2>1 DEF Hands, InHand, Taken, Direct
  <2> QED
    BY <1>4, <1>6, <2>2
<1>8. ~InHand(l)' /\ lane'[l].kind # "fresh" /\ lane'[l].pc # "unsure"
  BY <1>4, <1>6 DEF InHand, Taken, Direct, Queued
<1>9. /\ queue' \in Seq(Msgs) /\ ToSet(queue) \subseteq ToSet(queue')
      /\ ToSet(queue') \subseteq ToSet(queue) \cup MsgsOf(registry)
      /\ queue' = Merged => MsgsOf(registry) \subseteq ToSet(queue')
      /\ \A x : Once(queue, x) => Once(queue', x)
  <2>1. /\ Merged \in Seq(Msgs)
        /\ ToSet(Merged) = ToSet(queue) \cup MsgsOf(registry)
        /\ \A x : Once(queue, x) => Once(Merged, x)
    BY <1>1, MergedQueue DEF Base, TypeOK
  <2> QED
    BY <1>1, <1>3, <2>1 DEF TypeOK
<1>10. MsgsOf(journals \cup registry) = MsgsOf(journals) \cup MsgsOf(registry)
  BY DEF MsgsOf
<1>11. \A x : /\ Unread(x) \subseteq Unread(x)'
              /\ x \notin MsgsOf(registry) => Unread(x)' = Unread(x)
  BY <1>2, <1>3 DEF Unread, MsgsOf
<1>12. Base'
  <2>1. journals' \subseteq Claims /\ registry' \subseteq Claims
    BY <1>1, <1>3 DEF TypeOK
  <2>2. TypeOK'
    BY <1>1, <1>2, <1>3, <1>6, <1>9, <2>1 DEF TypeOK, LaneRecords
  <2> QED
    BY <1>1, <1>2, <1>3, <1>6, <2>2 DEF Base, LateCounted
<1>13. Known'
  <2>1. /\ MsgsOf(journals') \subseteq MsgsOf(journals) \cup MsgsOf(registry)
        /\ MsgsOf(registry') \subseteq volatile
    <3>1. ASSUME NEW x \in MsgsOf(registry') PROVE x \in volatile
      <4>1. PICK c \in registry' : c.msg = x
        BY <3>1 DEF MsgsOf
      <4>2. c \in registry \/ c \in journals
        BY <1>3, <4>1
      <4>3. c \notin journals
        BY <1>3, <4>1
      <4> QED
        BY <4>1, <4>2, <4>3 DEF PInv, Known, MsgsOf
    <3> QED
      BY <1>3, <3>1 DEF MsgsOf
  <2> QED
    BY <1>2, <1>6, <1>8, <1>9, <2>1 DEF PInv, Known, MsgsOf
<1>14. Copies'
  <2>1. ASSUME NEW x \in Msgs \ Doubled'
        PROVE  Same(x) /\ (x \in settled' => x \in settled)
    <3>1. x \notin MsgsOf(registry)
      BY <1>2, <2>1 DEF PInv, Known
    <3> QED
      BY <1>2, <1>7, <1>9, <1>11, <3>1 DEF Same
  <2>2. NoMsg \notin Msgs \ Doubled'
    BY PendingAssumption
  <2>3. ASSUME NEW x \in accepted' \ (settled' \cup lost'), Nowhere(x)'
        PROVE  x \in MsgsOf(registry)'
    <3>1. Nowhere(x)
      BY <1>2, <1>7, <1>9, <1>11, <2>3 DEF Nowhere
    <3>2. x \in MsgsOf(registry) /\ x \notin ToSet(queue')
      BY <1>2, <2>3, <3>1 DEF PInv, Copies, Nowhere
    <3>3. PICK c \in registry : c.msg = x
      BY <3>2 DEF MsgsOf
    <3>4. c \notin journals'
      <4>1. c.seq \notin ledger
        BY <1>1 DEF Claimed, ClaimsApart
      <4> QED
        BY <1>2, <2>3, <3>3, <4>1 DEF Nowhere, Unread
    <3>5. c \in registry'
      BY <1>3, <1>9, <3>2, <3>4
    <3> QED
      BY <3>3, <3>5 DEF MsgsOf
  <2>4. settled' \subseteq Msgs /\ Doubled \subseteq Doubled' /\ Copies
    BY <1>1, <1>2 DEF TypeOK, PInv
  <2> QED
    BY <2>1, <2>2, <2>3, <2>4, CopiesMove
<1> QED
  BY <1>6, <1>12, <1>13, <1>14 DEF PInv

\* A pump begins so.
LEMMA PumpKeeps ==
  ASSUME PInv, NEW l \in Lanes, Pump(l)
  PROVE  PInv'
BY BeginKeeps DEF Pump, Queued

\* So does a Steer.
LEMMA SteerKeeps ==
  ASSUME PInv, NEW l \in Lanes, NEW m \in Msgs, Steer(l, m)
  PROVE  PInv'
BY BeginKeeps DEF Steer, Queued

-----------------------------------------------------------------------------
(* Recovery *)

\* A journal a pass has read is put back at most once, whoever else reads it.
LEMMA ReadBackKeeps ==
  ASSUME PInv, NEW c \in Claims, c \in journals \/ c.seq \in ledger,
         NEW q \in Seq(Msgs), ToSet(queue) \subseteq ToSet(q),
         ToSet(q) \subseteq ToSet(queue) \cup MsgsOf(registry),
         \A x : Once(queue, x) => Once(q, x),
         ReadBack(c, q),
         lane' \in [Lanes -> LaneRecords], Shaped',
         \A k \in Lanes : /\ lane'[k].seq = lane[k].seq
                          /\ lane'[k].kind = lane[k].kind
                          /\ lane'[k].msg = lane[k].msg
                          /\ lane'[k].pc = lane[k].pc
                          /\ lane'[k].todo \subseteq lane[k].todo
                          /\ Taken(k)' <=> Taken(k)
                          /\ InHand(k)' <=> InHand(k),
         watch' \subseteq watch,
         UNCHANGED <<held, owner, memory, stopper, engine, history>>
  PROVE  PInv'
<1> PICK m : m = c.msg
  OBVIOUS
<1>1. Base /\ TypeOK /\ Claimed /\ m \in Msgs /\ c.seq \in Nat
  BY DEF PInv, Base, Claims
<1>2. /\ UNCHANGED <<held, owner, registry, timed, acks, stop, stops, late, landed,
                     unsent, accepted, settled, lost, volatile, work, repeated>>
      /\ \A x : Hands(x)' = Hands(x)
  <2>1. UNCHANGED <<held, owner, registry, timed, acks, stop, stops, late, landed,
                    unsent, accepted, settled, lost, volatile, work, repeated>>
    BY DEF memory, stopper, engine, history
  <2> QED
    BY <2>1 DEF Hands
<1>3. /\ faults' \in 0..MaxFaults
      /\ \/ UNCHANGED <<queue, ledger, journals>>
         \/ PutBack(c, q) /\ journals' \in {journals, journals \ {c}}
  <2>1. faults \in 0..MaxFaults
    BY <1>1 DEF TypeOK
  <2>2. Fault => faults' \in 0..MaxFaults
    BY <1>1, Faulty
  <2> QED
    BY <2>1, <2>2 DEF ReadBack, disk
<1>4. /\ queue' \in Seq(Msgs) /\ ToSet(queue) \subseteq ToSet(queue')
      /\ ToSet(queue') \subseteq ToSet(queue) \cup MsgsOf(registry)
                                 \cup (IF c.seq \in ledger THEN {} ELSE {m})
      /\ \A x : /\ Once(queue, x)
                /\ x = m /\ c.seq \notin ledger
                     => x \notin ToSet(queue) /\ x \notin MsgsOf(registry)
                => Once(queue', x)
      /\ ledger \subseteq ledger' /\ ledger' \subseteq ledger \cup {c.seq}
      /\ journals' \subseteq journals /\ journals \subseteq journals' \cup {c}
      /\ \/ c.seq \in ledger' \/ UNCHANGED <<queue, ledger, journals>>
  <2>1. CASE UNCHANGED <<queue, ledger, journals>>
    BY <1>1, <2>1 DEF TypeOK
  <2>2. CASE PutBack(c, q) /\ journals' \in {journals, journals \ {c}}
    <3>1. /\ queue' \in Seq(Msgs)
          /\ ToSet(queue') = ToSet(q) \cup (IF c.seq \in ledger THEN {}
                                            ELSE {c.msg})
          /\ \A x : Once(q, x) /\ (x = c.msg /\ x \in ToSet(q) => c.seq \in ledger)
                    => Once(queue', x)
      BY <2>2, HasPutBack
    <3>2. ledger' = ledger \cup {c.seq}
      BY <2>2 DEF PutBack
    <3> QED
      BY <2>2, <3>1, <3>2
  <2> QED
    BY <1>3, <2>1, <2>2
<1>5. \A d \in journals \cup registry : d.seq = c.seq /\ c.seq \notin ledger => d = c
  BY <1>1 DEF Claimed, ClaimsApart
<1>6. /\ \A x : Unread(x)' \subseteq Unread(x)
      /\ \A x : x # m => Unread(x)' = Unread(x)
      /\ c.seq \in ledger => Unread(m)' = Unread(m)
      /\ c.seq \notin ledger => c \in Unread(m)
      /\ \/ Unread(m)' = Unread(m) /\ queue' = queue
         \/ c.seq \in ledger
         \/ Unread(m)' = Unread(m) \ {c}
  <2>1. \A x : Unread(x) = {d \in journals : d.msg = x /\ d.seq \notin ledger}
    BY DEF Unread
  <2>2. \A x : Unread(x)' = {d \in journals' : d.msg = x /\ d.seq \notin ledger'}
    BY DEF Unread
  <2> QED
    BY <1>4, <1>5, <2>1, <2>2
<1>7. Base'
  <2>1. journals' \subseteq Claims /\ ledger' \subseteq Nat /\ watch' \subseteq Claims
    BY <1>1, <1>4 DEF TypeOK
  <2>2. TypeOK'
    BY <1>1, <1>2, <1>3, <1>4, <2>1 DEF TypeOK, LaneRecords
  <2>3. Bounded'
    <3>1. ASSUME NEW k \in Nat, Stamp(k)'
          PROVE  Stamp(k)
      BY <1>2, <1>4, <3>1 DEF Stamp
    <3> QED
      BY <1>1, <3>1, StaysBounded
  <2> QED
    BY <1>1, <1>2, <2>2, <2>3 DEF Base, LateCounted
<1>8. Claimed'
  <2>1. /\ \A d \in registry : d.seq # c.seq
        /\ \A k \in Lanes : Taken(k) => lane[k].seq # c.seq
    BY <1>1 DEF Claimed, ClaimsApart
  <2>2. ClaimsApart'
    BY <1>1, <1>2, <1>4, <2>1 DEF Claimed, ClaimsApart
  <2>3. ReadsHold'
    BY <1>1, <1>4 DEF Claimed, ReadsHold
  <2> QED
    BY <2>2, <2>3 DEF Claimed
<1>9. Known'
  <2>1. c.seq \notin ledger => m \in accepted
    BY DEF PInv, Known, MsgsOf
  <2>2. MsgsOf(journals)' \subseteq MsgsOf(journals) /\ MsgsOf(registry)' = MsgsOf(registry)
    BY <1>2, <1>4 DEF MsgsOf
  <2> QED
    BY <1>2, <1>4, <2>1, <2>2 DEF PInv, Known
<1>10. Copies'
  <2>1. ASSUME NEW x \in Msgs \ Doubled', x # m
        PROVE  Same(x) /\ (x \in settled' => x \in settled)
    <3>1. x \notin MsgsOf(registry)
      BY <1>2, <2>1 DEF PInv, Known
    <3> QED
      BY <1>2, <1>4, <1>6, <2>1, <3>1 DEF Same
  <2>2. ASSUME m \in Msgs \ Doubled'
        PROVE  Alone(m)' /\ (m \in settled' => Nowhere(m)')
    <3>1. Alone(m) /\ (m \in settled => Nowhere(m)) /\ m \notin MsgsOf(registry)
      BY <1>2, <2>2 DEF PInv, Copies, Known
    <3>2. CASE c.seq \in ledger
      BY <1>2, <1>4, <1>6, <3>1, <3>2 DEF Alone, Nowhere
    <3>3. CASE c.seq \notin ledger
      <4>1. /\ c \in Unread(m) /\ Unread(m) = {c} /\ m \notin settled
            /\ m \notin ToSet(queue) /\ m \notin ToSet(held)
            /\ m \notin ToSet(stop) /\ Hands(m) = {}
        BY <1>6, <3>1, <3>3 DEF Alone, Nowhere
      <4>2. Once(queue', m)
        BY <1>4, <3>1, <4>1 DEF Alone
      <4>3. \/ Unread(m)' = {c} /\ queue' = queue
            \/ Unread(m)' = {}
        BY <1>6, <3>3, <4>1
      <4> QED
        BY <1>2, <3>1, <4>1, <4>2, <4>3 DEF Alone
    <3> QED
      BY <3>2, <3>3
  <2>3. ASSUME NEW x \in accepted' \ (settled' \cup lost'), Nowhere(x)'
        PROVE  x \in MsgsOf(registry)'
    <3>1. Unread(x)' = Unread(x)
      <4>1. c.seq \notin ledger /\ UNCHANGED <<queue, ledger, journals>>
              => Unread(m)' = Unread(m)
        BY DEF Unread
      <4>2. PutBack(c, q) /\ c.seq \notin ledger => m \in ToSet(queue')
        BY HasPutBack
      <4> QED
        BY <1>3, <1>6, <2>3, <4>1, <4>2 DEF Nowhere
    <3>2. Nowhere(x)
      BY <1>2, <1>4, <2>3, <3>1 DEF Nowhere
    <3> QED
      BY <1>2, <2>3, <3>2 DEF PInv, Copies, MsgsOf
  <2>4. settled' \subseteq Msgs /\ Doubled \subseteq Doubled' /\ Copies
    BY <1>1, <1>2 DEF TypeOK, PInv
  <2> QED
    BY <2>1, <2>2, <2>3, <2>4, CopiesMove
<1> QED
  BY <1>7, <1>8, <1>9, <1>10 DEF PInv

\* Of what a pass has read there is a newest journal.
LEMMA NewestRead ==
  ASSUME PInv, NEW S \in SUBSET Claims, S # {},
         \A c \in S : c \in journals \/ c.seq \in ledger
  PROVE  Newest(S) \in S
<1>1. PICK n \in Nat : \A k \in Nat : Stamp(k) => k <= n
  BY DEF PInv, Base, Bounded
<1>2. \A c \in S : c.seq \in Nat /\ Stamp(c.seq)
  BY DEF Stamp, Claims
<1>3. \A c \in S : c.seq <= n
  BY <1>1, <1>2
<1> QED
  BY <1>3, NewestChosen

\* A thread of the worker puts a journal back.
LEMMA RecoverKeeps ==
  ASSUME PInv, NEW l \in Lanes, Recover(l)
  PROVE  PInv'
<1> PICK c : c = Newest(lane[l].todo)
  OBVIOUS
<1> PICK r : r = [lane[l] EXCEPT !.todo = lane[l].todo \ {c}]
  OBVIOUS
<1>1. Base /\ TypeOK /\ Claimed
  BY DEF PInv, Base
<1>2. /\ lane[l].pc = "pass" /\ lane[l].todo # {} /\ lane[l] \in LaneRecords
      /\ lane[l].kind \in Queued /\ lane[l].todo \in SUBSET Claims
      /\ \A d \in lane[l].todo : d \in journals \/ d.seq \in ledger
  BY <1>1 DEF Recover, TypeOK, LaneRecords, Base, Shaped, Fits, Claimed, ReadsHold
<1>3. c \in lane[l].todo
  BY <1>2, NewestRead
<1>4. ReadBack(c, Merged) /\ lane' = [lane EXCEPT ![l] = r]
  BY <1>1 DEF Recover, TypeOK
<1>5. /\ r \in LaneRecords /\ Fits(r) /\ \A x : ~Carries(r, x)
      /\ r.pc = "pass" /\ r.kind = lane[l].kind /\ r.msg = lane[l].msg
      /\ r.seq = lane[l].seq /\ r.todo \subseteq lane[l].todo
  BY <1>2, IdleFields DEF LaneRecords, Fits, Carries, Queued, Direct
<1> HIDE DEF LaneRecords, Carries
<1>6. /\ lane' \in [Lanes -> LaneRecords] /\ lane'[l] = r
      /\ \A k \in Lanes \ {l} : /\ lane'[k] = lane[k]
                                /\ Taken(k)' <=> Taken(k)
                                /\ InHand(k)' <=> InHand(k)
  BY <1>1, <1>4, <1>5, LaneMoves
<1>7. (Taken(l)' <=> Taken(l)) /\ (InHand(l)' <=> InHand(l))
  BY <1>2, <1>5, <1>6 DEF Taken, InHand, Queued, Direct
<1>8. Shaped'
  BY <1>1, <1>5, <1>6 DEF Base, Shaped
<1>9. /\ Merged \in Seq(Msgs)
      /\ ToSet(Merged) = ToSet(queue) \cup MsgsOf(registry)
      /\ \A x : Once(queue, x) => Once(Merged, x)
  BY <1>1, MergedQueue DEF Base, TypeOK
<1>10. /\ UNCHANGED <<held, owner, memory, stopper, engine, history>>
       /\ watch' \subseteq watch
  BY DEF Recover
<1>11. \A k \in Lanes : /\ lane'[k].seq = lane[k].seq
                        /\ lane'[k].kind = lane[k].kind
                        /\ lane'[k].msg = lane[k].msg
                        /\ lane'[k].pc = lane[k].pc
                        /\ lane'[k].todo \subseteq lane[k].todo
                        /\ Taken(k)' <=> Taken(k)
                        /\ InHand(k)' <=> InHand(k)
  BY <1>2, <1>5, <1>6, <1>7
<1> QED
  BY <1>2, <1>3, <1>4, <1>6, <1>8, <1>9, <1>10, <1>11, ReadBackKeeps

\* The dashboard's watcher puts a journal back.
LEMMA WatchRecoverKeeps ==
  ASSUME PInv, WatchRecover
  PROVE  PInv'
<1> PICK c : c = Newest(watch)
  OBVIOUS
<1>1. Base /\ TypeOK
  BY DEF PInv, Base
<1>2. /\ watch # {} /\ watch \in SUBSET Claims /\ queue \in Seq(Msgs)
      /\ \A d \in watch : d \in journals \/ d.seq \in ledger
  BY <1>1 DEF WatchRecover, TypeOK, PInv, Claimed, ReadsHold
<1>3. c \in watch
  BY <1>2, NewestRead
<1>4. /\ ReadBack(c, queue) /\ watch' \subseteq watch
      /\ UNCHANGED <<held, owner, lane, memory, stopper, engine, history>>
  BY DEF WatchRecover
<1>5. lane' \in [Lanes -> LaneRecords] /\ Shaped'
  BY <1>1, <1>4 DEF Base, TypeOK, LaneRecords, Shaped
<1>6. \A k \in Lanes : (Taken(k)' <=> Taken(k)) /\ (InHand(k)' <=> InHand(k))
  BY <1>4 DEF Taken, InHand
<1> HIDE DEF LaneRecords
<1> QED
  BY <1>2, <1>3, <1>4, <1>5, <1>6, ReadBackKeeps

\* The watcher's pass reads the journals.
LEMMA WatchBeginKeeps ==
  ASSUME PInv, WatchBegin
  PROVE  PInv'
<1>1. Base /\ TypeOK /\ Claimed
  BY DEF PInv, Base
<1>2. /\ UNCHANGED <<queue, ledger, journals, held, owner, lane, registry, timed,
                     acks, stop, stops, late, landed, unsent, faults, accepted,
                     settled, lost, volatile, work, repeated>>
      /\ watch' = journals
  BY DEF WatchBegin, disk, memory, stopper, engine, history
<1>3. TypeOK'
  BY <1>1, <1>2 DEF TypeOK
<1>4. Bounded'
  <2>1. ASSUME NEW k \in Nat, Stamp(k)'
        PROVE  Stamp(k)
    BY <1>2, <2>1 DEF Stamp
  <2> QED
    BY <1>1, <2>1, StaysBounded
<1>5. Base'
  BY <1>1, <1>2, <1>3, <1>4 DEF Base, Shaped, LateCounted
<1>6. ClaimsApart'
  BY <1>1, <1>2 DEF Claimed, ClaimsApart, Taken
<1>7. ReadsHold'
  BY <1>1, <1>2 DEF Claimed, ReadsHold
<1>8. Known'
  BY <1>2 DEF PInv, Known, InHand, Taken, MsgsOf
<1>9. Copies'
  BY <1>2 DEF PInv, Copies, Alone, Nowhere, Unread, Hands, InHand, Taken, MsgsOf
<1> QED
  BY <1>5, <1>6, <1>7, <1>8, <1>9 DEF PInv, Claimed

-----------------------------------------------------------------------------
(* Late answers, Stop and cancel *)

\* A step that leaves threads, claims and journals alone.
LEMMA Quiet ==
  ASSUME PInv, UNCHANGED <<ledger, journals, lane, registry, watch>>
  PROVE  /\ Shaped' /\ Bounded' /\ Claimed'
         /\ MsgsOf(journals)' = MsgsOf(journals)
         /\ MsgsOf(registry)' = MsgsOf(registry)
         /\ \A k \in Lanes : InHand(k)' <=> InHand(k)
         /\ \A x : Unread(x)' = Unread(x) /\ Hands(x)' = Hands(x)
<1>1. Base /\ Claimed
  BY DEF PInv
<1>2. Shaped'
  BY <1>1 DEF Base, Shaped
<1>3. Bounded'
  <2>1. ASSUME NEW k \in Nat, Stamp(k)'
        PROVE  Stamp(k)
    BY <2>1 DEF Stamp
  <2> QED
    BY <1>1, <2>1, StaysBounded
<1>4. Claimed'
  BY <1>1 DEF Claimed, ClaimsApart, ReadsHold, Taken
<1> QED
  BY <1>2, <1>3, <1>4 DEF MsgsOf, InHand, Taken, Unread, Hands

\* A queued row is consumed by an ack.
LEMMA TakeKeeps ==
  ASSUME PInv, NEW m \in ToSet(queue), Take(m),
         late' \in [Msgs -> 0..MaxUnsent], LateCounted',
         landed' \subseteq Msgs, faults' \in 0..MaxFaults, acks' \subseteq acks,
         UNCHANGED <<ledger, journals, held, owner, lane, registry, timed, watch,
                     stopper, unsent, accepted, lost, volatile, work, repeated>>
  PROVE  PInv'
<1>1. Base /\ TypeOK /\ m \in Msgs /\ m \in accepted
  BY Entries DEF PInv, Base, TypeOK, Known
<1>2. /\ Shaped' /\ Bounded' /\ Claimed'
      /\ MsgsOf(journals)' = MsgsOf(journals)
      /\ MsgsOf(registry)' = MsgsOf(registry)
      /\ \A k \in Lanes : InHand(k)' <=> InHand(k)
      /\ \A x : Unread(x)' = Unread(x) /\ Hands(x)' = Hands(x)
  BY Quiet
<1>3. /\ queue' \in Seq(Msgs)
      /\ ToSet(queue) \cup MsgsOf(registry) = ToSet(queue') \cup {m}
      /\ \A x : Once(queue, x) => Once(queue', x)
      /\ Once(queue, m) => m \notin ToSet(queue')
  BY <1>1, HasTaken
<1>4. settled' = settled \cup {m} /\ UNCHANGED <<stop, stops>>
  BY DEF Take, stopper
<1>5. Base'
  <2>1. TypeOK'
    BY <1>1, <1>3, <1>4 DEF TypeOK
  <2> QED
    BY <1>1, <1>2, <2>1 DEF Base
<1>6. Known'
  BY <1>1, <1>2, <1>3, <1>4 DEF PInv, Known
<1>7. Copies'
  <2>1. ASSUME NEW x \in Msgs \ Doubled', x # m
        PROVE  Same(x) /\ (x \in settled' => x \in settled)
    <3>1. x \notin MsgsOf(registry)
      BY <2>1 DEF PInv, Known
    <3> QED
      BY <1>2, <1>3, <1>4, <2>1, <3>1 DEF Same
  <2>2. m \in Msgs \ Doubled' => Alone(m)' /\ (m \in settled' => Nowhere(m)')
    BY <1>2, <1>3, <1>4 DEF PInv, Copies, Alone, Nowhere
  <2>3. ASSUME NEW x \in accepted' \ (settled' \cup lost'), Nowhere(x)'
        PROVE  x \in MsgsOf(registry)'
    <3>1. Nowhere(x)
      BY <1>2, <1>3, <1>4, <2>3 DEF Nowhere
    <3> QED
      BY <1>2, <1>4, <2>3, <3>1 DEF PInv, Copies
  <2>4. settled' \subseteq Msgs /\ Doubled \subseteq Doubled' /\ Copies
    BY <1>1, <1>4 DEF TypeOK, PInv
  <2> QED
    BY <2>1, <2>2, <2>3, <2>4, CopiesMove
<1> QED
  BY <1>2, <1>5, <1>6, <1>7 DEF PInv

\* A late send lands.
LEMMA LandKeeps ==
  ASSUME PInv, NEW m \in Msgs, Land(m)
  PROVE  PInv'
<1>1. Base /\ TypeOK
  BY DEF PInv, Base
<1>2. /\ late[m] > 0 /\ late' = [late EXCEPT ![m] = @ - 1]
      /\ landed' = landed \cup {m}
      /\ UNCHANGED <<ledger, journals, held, owner, lane, registry, timed, watch,
                     stopper, stop, stops, unsent, accepted, lost, volatile, work, repeated>>
  BY DEF Land, stopper
<1>3. late' \in [Msgs -> 0..MaxUnsent] /\ LateCounted'
  <2>1. /\ MaxUnsent \in Nat /\ unsent \in Nat /\ unsent <= MaxUnsent
        /\ late = [x \in Msgs |-> late[x]]
        /\ \A x \in Msgs : late[x] \in Nat /\ late[x] <= unsent
    BY <1>1, CountersAreNumbers
  <2>2. \A x \in Msgs : late'[x] = IF x = m THEN late[m] - 1 ELSE late[x]
    BY <1>2, <2>1
  <2>3. \A x \in Msgs : late'[x] \in 0..MaxUnsent /\ late'[x] <= unsent
    BY <1>2, <2>1, <2>2
  <2>4. late' = [x \in Msgs |-> late'[x]]
    BY <1>2, <2>1
  <2>5. late' \in [Msgs -> 0..MaxUnsent]
    BY <2>3, <2>4
  <2> QED
    BY <1>2, <2>3, <2>5 DEF LateCounted
<1>4. landed' \subseteq Msgs
  BY <1>1, <1>2 DEF TypeOK
<1>5. CASE m \in ToSet(queue) /\ Take(m) /\ UNCHANGED acks
           /\ (UNCHANGED faults \/ Fault)
  <2>1. faults' \in 0..MaxFaults
    BY <1>1, <1>5, Faulty DEF TypeOK
  <2> QED
    BY <1>2, <1>3, <1>4, <1>5, <2>1, TakeKeeps
<1>6. CASE /\ UNCHANGED <<queue, settled>> /\ (UNCHANGED faults \/ Fault)
           /\ \/ UNCHANGED acks
              \/ m \in ToSet(queue) /\ acks' = acks \cup {[msg |-> m, seen |-> queue]}
  <2>1. faults' \in 0..MaxFaults
    BY <1>1, <1>6, Faulty DEF TypeOK
  <2>2. /\ Shaped' /\ Bounded' /\ Claimed'
        /\ MsgsOf(journals)' = MsgsOf(journals)
        /\ MsgsOf(registry)' = MsgsOf(registry)
        /\ \A k \in Lanes : InHand(k)' <=> InHand(k)
        /\ \A x : Unread(x)' = Unread(x) /\ Hands(x)' = Hands(x)
    BY <1>2, Quiet
  <2>3. acks' \subseteq [msg : Msgs, seen : Seq(Msgs)]
    <3>1. queue \in Seq(Msgs) /\ acks \subseteq [msg : Msgs, seen : Seq(Msgs)]
      BY <1>1 DEF TypeOK
    <3> QED
      BY <1>6, <3>1
  <2>4. TypeOK'
    <3>1. \A S \in {timed', landed', accepted', settled', lost', volatile', repeated'} :
            S \subseteq Msgs
      BY <1>1, <1>2, <1>4, <1>6 DEF TypeOK
    <3> QED
      BY <1>1, <1>2, <1>3, <1>6, <2>1, <2>3, <3>1 DEF TypeOK
  <2>5. Known'
    BY <1>2, <1>6, <2>2 DEF PInv, Known
  <2>6. Copies'
    BY <1>2, <1>6, <2>2 DEF PInv, Copies, Alone, Nowhere
  <2> QED
    BY <1>1, <1>2, <1>3, <2>2, <2>4, <2>5, <2>6 DEF PInv, Base
<1> QED
  BY <1>5, <1>6 DEF Land

\* The thread of an ack reconciles.
LEMMA ReconcileKeeps ==
  ASSUME PInv, NEW a \in acks, Reconcile(a)
  PROVE  PInv'
<1>1. Base /\ TypeOK
  BY DEF PInv, Base
<1>2. /\ acks' = acks \ {a}
      /\ UNCHANGED <<ledger, journals, held, owner, lane, registry, timed, watch,
                     stopper, stop, stops, engine, late, landed, unsent, faults,
                     accepted, lost, volatile, work, repeated>>
  BY DEF Reconcile, stopper, engine
<1>3. CASE queue = a.seen /\ Take(a.msg)
  <2>1. a.msg \in ToSet(queue)
    BY <1>3 DEF PInv, Known
  <2>2. /\ late' \in [Msgs -> 0..MaxUnsent] /\ LateCounted' /\ landed' \subseteq Msgs
        /\ faults' \in 0..MaxFaults /\ acks' \subseteq acks
    BY <1>1, <1>2 DEF Base, TypeOK, LateCounted
  <2> QED
    BY <1>2, <1>3, <2>1, <2>2, TakeKeeps
<1>4. CASE UNCHANGED <<queue, settled>>
  <2>1. /\ Shaped' /\ Bounded' /\ Claimed'
        /\ MsgsOf(journals)' = MsgsOf(journals)
        /\ MsgsOf(registry)' = MsgsOf(registry)
        /\ \A k \in Lanes : InHand(k)' <=> InHand(k)
        /\ \A x : Unread(x)' = Unread(x) /\ Hands(x)' = Hands(x)
    BY <1>2, Quiet
  <2>2. TypeOK'
    BY <1>1, <1>2, <1>4 DEF TypeOK
  <2>3. Known'
    BY <1>2, <1>4, <2>1 DEF PInv, Known
  <2>4. Copies'
    BY <1>2, <1>4, <2>1 DEF PInv, Copies, Alone, Nowhere
  <2> QED
    BY <1>1, <1>2, <2>1, <2>2, <2>3, <2>4 DEF PInv, Base, LateCounted
<1> QED
  BY <1>3, <1>4 DEF Reconcile

\* A Stop takes the queue out.
LEMMA StopKeeps ==
  ASSUME PInv, Stop
  PROVE  PInv'
<1>1. Base /\ TypeOK
  BY DEF PInv, Base
<1>2. /\ UNCHANGED <<ledger, journals, held, owner, lane, registry, timed, acks,
                     watch, late, landed, unsent, faults, accepted, settled, lost,
                     volatile, work, repeated>>
      /\ stop = <<>> /\ stop' = queue /\ queue' = <<>>
      /\ stops < MaxStops /\ stops' = stops + 1
  BY DEF Stop, memory, engine, history
<1>3. /\ Shaped' /\ Bounded' /\ Claimed'
      /\ MsgsOf(journals)' = MsgsOf(journals)
      /\ MsgsOf(registry)' = MsgsOf(registry)
      /\ \A k \in Lanes : InHand(k)' <=> InHand(k)
      /\ \A x : Unread(x)' = Unread(x) /\ Hands(x)' = Hands(x)
  BY <1>2, Quiet
<1>4. /\ queue' \in Seq(Msgs) /\ ToSet(queue') = {} /\ \A x : Once(queue', x)
      /\ ToSet(stop) = {}
  <2>1. <<>> \in Seq(Msgs) /\ ToSet(<<>>) = {} /\ \A x : Once(<<>>, x)
    BY DEF ToSet, Once
  <2> QED
    BY <1>2, <2>1
<1>5. Base'
  <2>1. stops' \in 0..MaxStops
    BY <1>1, <1>2, CountersAreNumbers
  <2>2. TypeOK'
    BY <1>1, <1>2, <1>4, <2>1 DEF TypeOK
  <2> QED
    BY <1>1, <1>2, <1>3, <2>2 DEF Base, LateCounted
<1>6. Known'
  BY <1>2, <1>3, <1>4 DEF PInv, Known
<1>7. \A x : (Alone(x) => Alone(x)') /\ (Nowhere(x)' <=> Nowhere(x))
  BY <1>2, <1>3, <1>4 DEF Alone, Nowhere
<1>8. Copies'
  BY <1>2, <1>3, <1>7 DEF PInv, Copies
<1> QED
  BY <1>3, <1>5, <1>6, <1>8 DEF PInv

\* It holds what it took, or loses it.
LEMMA HoldKeeps ==
  ASSUME PInv, Hold
  PROVE  PInv'
<1>1. Base /\ TypeOK
  BY DEF PInv, Base
<1>2. /\ UNCHANGED <<queue, ledger, journals, owner, lane, registry, timed, acks,
                     watch, stops, late, landed, unsent, accepted, settled,
                     volatile, work, repeated>>
      /\ stop' = <<>>
      /\ \/ held' = held \o stop /\ UNCHANGED <<lost, faults>>
         \/ Fault /\ lost' = lost \cup ToSet(stop) /\ UNCHANGED held
  BY DEF Hold, disk, memory, engine
<1>3. /\ Shaped' /\ Bounded' /\ Claimed'
      /\ MsgsOf(journals)' = MsgsOf(journals)
      /\ MsgsOf(registry)' = MsgsOf(registry)
      /\ \A k \in Lanes : InHand(k)' <=> InHand(k)
      /\ \A x : Unread(x)' = Unread(x) /\ Hands(x)' = Hands(x)
  BY <1>2, Quiet
<1>4. stop' \in Seq(Msgs) /\ ToSet(stop') = {} /\ \A x : Once(stop', x)
  <2>1. <<>> \in Seq(Msgs) /\ ToSet(<<>>) = {} /\ \A x : Once(<<>>, x)
    BY DEF ToSet, Once
  <2> QED
    BY <1>2, <2>1
<1>5. /\ held' \in Seq(Msgs) /\ ToSet(held) \subseteq ToSet(held')
      /\ ToSet(held') \subseteq ToSet(held) \cup ToSet(stop)
      /\ ToSet(stop) \subseteq ToSet(held') \cup lost'
      /\ \A x : /\ Once(held, x) /\ Once(stop, x)
                /\ ~(x \in ToSet(held) /\ x \in ToSet(stop))
              => Once(held', x)
  <2>1. held \in Seq(Msgs) /\ stop \in Seq(Msgs)
    BY <1>1 DEF TypeOK
  <2>2. /\ held \o stop \in Seq(Msgs)
        /\ ToSet(held \o stop) = ToSet(held) \cup ToSet(stop)
        /\ \A x : /\ Once(held, x) /\ Once(stop, x)
                  /\ ~(x \in ToSet(held) /\ x \in ToSet(stop))
                => Once(held \o stop, x)
    BY <2>1, Concat
  <2> QED
    BY <1>2, <2>1, <2>2
<1>6. Base'
  <2>1. faults' \in 0..MaxFaults /\ lost' \subseteq Msgs
    <3>1. ToSet(stop) \subseteq Msgs /\ lost \subseteq Msgs /\ faults \in 0..MaxFaults
      BY <1>1, Entries DEF TypeOK
    <3> QED
      BY <1>1, <1>2, <3>1, Faulty
  <2>2. TypeOK'
    BY <1>1, <1>2, <1>4, <1>5, <2>1 DEF TypeOK
  <2> QED
    BY <1>1, <1>2, <1>3, <2>2 DEF Base, LateCounted
<1>7. Known'
  BY <1>2, <1>3, <1>4, <1>5 DEF PInv, Known
<1>8. /\ \A x : Alone(x) => Alone(x)'
      /\ \A x : Nowhere(x) => Nowhere(x)'
      /\ \A x : Nowhere(x)' /\ x \notin lost' => Nowhere(x)
  BY <1>2, <1>3, <1>4, <1>5 DEF Alone, Nowhere
<1>9. lost \subseteq lost'
  BY <1>2
<1>10. Copies'
  BY <1>2, <1>3, <1>8, <1>9 DEF PInv, Copies
<1> QED
  BY <1>3, <1>6, <1>7, <1>10 DEF PInv

\* A cancel takes a message out of the queue, or out of the held items.
LEMMA CancelKeeps ==
  ASSUME PInv, NEW m \in Msgs, Cancel(m)
  PROVE  PInv'
<1>1. Base /\ TypeOK
  BY DEF PInv, Base
<1>2. /\ UNCHANGED <<ledger, journals, owner, lane, registry, timed, acks, watch,
                     stop, stops, late, landed, unsent, faults, accepted, lost,
                     volatile, work, repeated>>
      /\ settled' = settled \cup {m}
  BY DEF Cancel, memory, stopper, engine
<1>3. /\ Shaped' /\ Bounded' /\ Claimed'
      /\ MsgsOf(journals)' = MsgsOf(journals)
      /\ MsgsOf(registry)' = MsgsOf(registry)
      /\ \A k \in Lanes : InHand(k)' <=> InHand(k)
      /\ \A x : Unread(x)' = Unread(x) /\ Hands(x)' = Hands(x)
  BY <1>2, Quiet
<1>4. /\ queue' \in Seq(Msgs) /\ held' \in Seq(Msgs)
      /\ ToSet(queue) \subseteq ToSet(queue') \cup {m}
      /\ ToSet(held) \subseteq ToSet(held') \cup {m}
      /\ ToSet(queue') \subseteq ToSet(queue) /\ ToSet(held') \subseteq ToSet(held)
      /\ \A x : /\ Once(queue, x) => Once(queue', x)
                /\ Once(held, x) => Once(held', x)
      /\ m \in accepted
      /\ \/ m \in ToSet(queue) /\ (Once(queue, m) => m \notin ToSet(queue'))
         \/ m \in ToSet(held) /\ (Once(held, m) => m \notin ToSet(held'))
  <2>1. queue \in Seq(Msgs) /\ held \in Seq(Msgs)
    BY <1>1 DEF TypeOK
  <2>2. CASE m \in ToSet(queue) /\ queue' = RemoveFirst(queue, m) /\ held' = held
    <3>1. /\ queue' \in Seq(Msgs) /\ ToSet(queue) = ToSet(queue') \cup {m}
          /\ \A x : Once(queue, x) => Once(queue', x)
          /\ Once(queue, m) => m \notin ToSet(queue')
      BY <2>1, <2>2, RemovedFirst
    <3> QED
      BY <2>1, <2>2, <3>1 DEF PInv, Known
  <2>3. CASE m \in ToSet(held) /\ held' = RemoveFirst(held, m) /\ queue' = queue
    <3>1. /\ held' \in Seq(Msgs) /\ ToSet(held) = ToSet(held') \cup {m}
          /\ \A x : Once(held, x) => Once(held', x)
          /\ Once(held, m) => m \notin ToSet(held')
      BY <2>1, <2>3, RemovedFirst
    <3> QED
      BY <2>1, <2>3, <3>1 DEF PInv, Known
  <2> QED
    BY <2>2, <2>3 DEF Cancel
<1>5. Base'
  <2>1. TypeOK'
    BY <1>1, <1>2, <1>4 DEF TypeOK
  <2> QED
    BY <1>1, <1>2, <1>3, <2>1 DEF Base, LateCounted
<1>6. Known'
  BY <1>2, <1>3, <1>4 DEF PInv, Known
<1>7. Copies'
  <2>1. \A x \in Msgs \ Doubled' :
          x # m => Same(x) /\ (x \in settled' => x \in settled)
    BY <1>2, <1>3, <1>4 DEF Same
  <2>2. ASSUME m \in Msgs \ Doubled'
        PROVE  Alone(m)' /\ (m \in settled' => Nowhere(m)')
    <3>1. Alone(m)
      BY <1>2, <2>2 DEF PInv, Copies
    <3> QED
      BY <1>2, <1>3, <1>4, <3>1 DEF Alone, Nowhere
  <2>3. ASSUME NEW x \in accepted' \ (settled' \cup lost'), Nowhere(x)'
        PROVE  x \in MsgsOf(registry)'
    <3>1. x # m /\ Nowhere(x)
      BY <1>2, <1>3, <1>4, <2>3 DEF Nowhere
    <3> QED
      BY <1>2, <1>3, <2>3, <3>1 DEF PInv, Copies
  <2>4. settled' \subseteq Msgs /\ Doubled \subseteq Doubled' /\ Copies
    BY <1>1, <1>2 DEF TypeOK, PInv
  <2> QED
    BY <2>1, <2>2, <2>3, <2>4, CopiesMove
<1> QED
  BY <1>3, <1>5, <1>6, <1>7 DEF PInv

\* A release that is answered for an earlier one loses its message.
LEMMA AnswerKeeps ==
  ASSUME PInv, NEW m \in Msgs, Answer(m)
  PROVE  PInv'
<1>1. Base /\ TypeOK
  BY DEF PInv, Base
<1>2. /\ UNCHANGED <<queue, ledger, journals, owner, lane, registry, timed, acks,
                     watch, stop, stops, late, landed, unsent, accepted, settled,
                     volatile, work, repeated>>
      /\ lost' = lost \cup {m} /\ faults' \in 0..MaxFaults
      /\ held \in Seq(Msgs) /\ m \in ToSet(held)
      /\ held' = RemoveFirst(held, m)
  BY <1>1, Faulty DEF Answer, disk, memory, stopper, engine, TypeOK
<1>3. /\ Shaped' /\ Bounded' /\ Claimed'
      /\ MsgsOf(journals)' = MsgsOf(journals)
      /\ MsgsOf(registry)' = MsgsOf(registry)
      /\ \A k \in Lanes : InHand(k)' <=> InHand(k)
      /\ \A x : Unread(x)' = Unread(x) /\ Hands(x)' = Hands(x)
  BY <1>2, Quiet
<1>4. /\ held' \in Seq(Msgs) /\ ToSet(held) = ToSet(held') \cup {m}
      /\ \A x : Once(held, x) => Once(held', x)
      /\ Once(held, m) => m \notin ToSet(held')
  BY <1>2, RemovedFirst
<1>5. Base'
  <2>1. TypeOK'
    BY <1>1, <1>2, <1>4 DEF TypeOK
  <2> QED
    BY <1>1, <1>2, <1>3, <2>1 DEF Base, LateCounted
<1>6. Known'
  BY <1>2, <1>3, <1>4 DEF PInv, Known
<1>7. Copies'
  <2>1. \A x \in Msgs \ Doubled' :
          x # m => Same(x) /\ (x \in settled' => x \in settled)
    BY <1>2, <1>3, <1>4 DEF Same
  <2>2. ASSUME m \in Msgs \ Doubled'
        PROVE  Alone(m)' /\ (m \in settled' => Nowhere(m)')
    <3>1. Alone(m) /\ (m \in settled => Nowhere(m))
      BY <1>2, <2>2 DEF PInv, Copies
    <3> QED
      BY <1>2, <1>3, <1>4, <3>1 DEF Alone, Nowhere
  <2>3. ASSUME NEW x \in accepted' \ (settled' \cup lost'), Nowhere(x)'
        PROVE  x \in MsgsOf(registry)'
    <3>1. x # m /\ Nowhere(x)
      BY <1>2, <1>3, <1>4, <2>3 DEF Nowhere
    <3> QED
      BY <1>2, <1>3, <2>3, <3>1 DEF PInv, Copies
  <2>4. settled' \subseteq Msgs /\ Doubled \subseteq Doubled' /\ Copies
    BY <1>1, <1>2 DEF TypeOK, PInv
  <2> QED
    BY <2>1, <2>2, <2>3, <2>4, CopiesMove
<1> QED
  BY <1>3, <1>5, <1>6, <1>7 DEF PInv

-----------------------------------------------------------------------------
(* Crashes *)

\* A message sent directly is one of the messages, and its thread is not in
\* the middle of a pass.
LEMMA DirectSends ==
  ASSUME PInv, NEW l \in Lanes, lane[l].kind \in Direct
  PROVE  /\ lane[l] \in LaneRecords /\ lane[l].msg \in Msgs
         /\ lane[l].pc \notin {"idle", "pass", "unsure"}
         /\ lane[l].todo = {} /\ InHand(l)
<1>1. lane[l] \in LaneRecords /\ Fits(lane[l])
  BY DEF PInv, Base, TypeOK, LaneRecords, Shaped
<1>2. lane[l].pc # "idle"
  BY <1>1, IdleFields DEF Fits, Direct
<1> QED
  BY <1>1, <1>2 DEF Fits, Queued, Direct, InHand

\* The worker dies: what its threads had in hand is lost, except releases, of
\* which the dashboard knows.
LEMMA WorkerCrashKeeps ==
  ASSUME PInv, WorkerCrash
  PROVE  PInv'
<1> PICK R : R = {l \in Lanes : lane[l].kind = "release"}
  OBVIOUS
<1>1. Base /\ TypeOK /\ Claimed
  BY DEF PInv, Base
<1>2. /\ UNCHANGED <<queue, ledger, journals, held, watch, stop, stops, late,
                     landed, unsent, accepted, settled, volatile, repeated>>
      /\ lane' = [l \in Lanes |->
                   IF lane[l].pc = "unsure" THEN lane[l]
                   ELSE IF l \in R THEN [lane[l] EXCEPT !.pc = "failed"]
                   ELSE Idle]
      /\ owner' = Nobody /\ registry' = {} /\ timed' = {} /\ acks' = {}
      /\ Fault
      /\ \A x : Unread(x)' = Unread(x)
  BY DEF WorkerCrash, disk, stopper, engine, Unread
<1>3. work' \in [Msgs -> {"none", "open", "refused", "uncertain"}]
  BY <1>1 DEF WorkerCrash, TypeOK
<1>4. lost' = lost \cup {lane[l].msg : l \in {k \in Lanes : Taken(k)}}
                   \cup (MsgsOf(registry) \ ToSet(queue)) \cup InLane("orphan")
  BY DEF WorkerCrash
<1>5. \A l \in R : /\ lane[l] \in LaneRecords /\ lane[l].msg \in Msgs
                   /\ lane[l].pc # "unsure" /\ lane[l].todo = {} /\ InHand(l)
  BY DirectSends DEF Direct
<1>6. ASSUME NEW l \in Lanes
      PROVE  /\ lane'[l] \in LaneRecords /\ Fits(lane'[l])
             /\ lane'[l].seq \in {0, lane[l].seq} /\ lane'[l].todo = {}
             /\ ~Taken(l)' /\ lane'[l].kind # "fresh"
             /\ InHand(l)' <=> l \in R
             /\ l \in R => /\ lane'[l].msg = lane[l].msg
                           /\ lane'[l].pc # "unsure"
             /\ lane'[l].pc = "unsure" => lane'[l] = lane[l]
  <2>1. CASE lane[l].pc = "unsure"
    <3>1. lane'[l] = lane[l] /\ lane[l] \in LaneRecords /\ Fits(lane[l])
      BY <1>1, <1>2, <2>1 DEF TypeOK, LaneRecords, Base, Shaped
    <3>2. lane[l].kind = "" /\ lane[l].todo = {} /\ l \notin R
      BY <1>5, <2>1, <3>1 DEF Fits
    <3> QED
      BY <2>1, <3>1, <3>2 DEF Taken, InHand, Queued, Direct
  <2>2. CASE l \in R
    <3>1. lane'[l] = [lane[l] EXCEPT !.pc = "failed"] /\ lane[l] \in LaneRecords
      BY <1>2, <1>5, <2>2
    <3>2. /\ lane'[l].pc = "failed" /\ lane'[l].kind = "release"
          /\ lane'[l].msg = lane[l].msg /\ lane'[l].seq = lane[l].seq
          /\ lane'[l].todo = {} /\ lane'[l] \in LaneRecords
      BY <1>5, <2>2, <3>1 DEF LaneRecords
    <3>3. Fits(lane'[l])
      BY <1>5, <2>2, <3>2, IdleFields DEF Fits
    <3> QED
      BY <2>2, <3>2, <3>3 DEF Taken, InHand, Queued, Direct
  <2>3. CASE lane[l].pc # "unsure" /\ l \notin R
    <3>1. lane'[l] = Idle
      BY <1>2, <2>3
    <3> QED
      BY <2>3, <3>1, IdleFields DEF Taken, InHand, Queued, Direct
  <2> QED
    BY <2>1, <2>2, <2>3
<1>7. \A x : Hands(x)' = {l \in Hands(x) : l \in R}
  BY <1>5, <1>6 DEF Hands
<1>8. Base'
  <2>1. faults' \in 0..MaxFaults
    BY <1>1, <1>2, Faulty
  <2>2. lost' \subseteq Msgs
    <3>1. {lane[l].msg : l \in {k \in Lanes : Taken(k)}} \subseteq Msgs
      BY <1>1 DEF Base, Shaped, Fits, Taken
    <3>2. MsgsOf(registry) \subseteq Msgs /\ lost \subseteq Msgs
      BY <1>1 DEF TypeOK, MsgsOf, Claims
    <3>3. InLane("orphan") \subseteq Msgs
      BY DirectSends DEF InLane, Direct
    <3> QED
      BY <1>4, <3>1, <3>2, <3>3
  <2>3. lane' \in [Lanes -> LaneRecords]
    BY <1>2, <1>6
  <2>4. TypeOK'
    <3>1. \A S \in {timed', landed', accepted', settled', lost', volatile',
                    repeated'} :
            S \subseteq Msgs
      BY <1>1, <1>2, <2>2 DEF TypeOK
    <3> QED
      BY <1>1, <1>2, <1>3, <2>1, <2>3, <3>1 DEF TypeOK, LaneRecords
  <2>5. Shaped'
    BY <1>6 DEF Shaped
  <2>6. Bounded'
    <3>1. ASSUME NEW k \in Nat, Stamp(k)'
          PROVE  k = 0 \/ Stamp(k)
      BY <1>2, <1>6, <3>1 DEF Stamp
    <3> QED
      BY <1>1, <3>1, StaysBounded
  <2>7. IsFiniteSet(registry)'
    BY <1>2, FS_EmptySet
  <2> QED
    BY <1>1, <1>2, <2>4, <2>5, <2>6, <2>7 DEF Base, LateCounted
<1>9. Claimed'
  <2>1. ClaimsApart'
    BY <1>1, <1>2, <1>6 DEF Claimed, ClaimsApart
  <2>2. ReadsHold'
    BY <1>1, <1>2, <1>6 DEF Claimed, ReadsHold
  <2> QED
    BY <2>1, <2>2 DEF Claimed
<1>10. Known'
  <2>1. \A l \in R : lane[l].msg \in accepted
    BY <1>5 DEF PInv, Known
  <2>2. ASSUME NEW l \in Lanes
        PROVE  /\ InHand(l)' => lane'[l].msg \in accepted
               /\ lane'[l].pc = "unsure" => lane'[l].msg \in accepted
               /\ lane'[l].kind # "fresh"
    <3>1. /\ InHand(l)' <=> l \in R
          /\ l \in R => lane'[l].msg = lane[l].msg
          /\ lane'[l].pc = "unsure" => lane'[l] = lane[l]
          /\ lane'[l].kind # "fresh"
      BY <1>6
    <3> QED
      BY <2>1, <3>1 DEF PInv, Known
  <2> QED
    BY <1>2, <2>2 DEF PInv, Known, MsgsOf
<1>11. Copies'
  <2>1. ASSUME NEW x \in Msgs \ Doubled
        PROVE  Alone(x)' /\ (x \in settled => Nowhere(x)')
    <3>1. Alone(x) /\ (x \in settled => Nowhere(x))
      BY <2>1 DEF PInv, Copies
    <3> QED
      BY <1>2, <1>7, <3>1 DEF Alone, Nowhere
  <2>2. ASSUME NEW x \in accepted \ (settled \cup lost'), Nowhere(x)'
        PROVE  FALSE
    <3>1. x \notin lost'
      BY <2>2
    <3>2. Hands(x) = {}
      <4>1. ASSUME NEW l \in Hands(x)
            PROVE  FALSE
        <5>1. lane[l].msg = x /\ InHand(l) /\ l \in Lanes
          BY DEF Hands
        <5>2. ~Taken(l)
          BY <1>4, <3>1, <5>1
        <5>3. l \notin R
          BY <1>7, <2>2, <4>1 DEF Nowhere
        <5>4. lane[l].kind \notin {"release", "orphan"}
          BY <1>4, <3>1, <5>1, <5>3 DEF InLane
        <5>5. lane[l].kind = "fresh"
          BY <5>1, <5>2, <5>4 DEF InHand, Direct
        <5> QED
          BY <2>2, <5>1, <5>5 DEF PInv, Known
      <4> QED
        BY <4>1
    <3>3. Nowhere(x) /\ x \notin ToSet(queue) /\ x \notin lost
      BY <1>2, <1>4, <2>2, <3>2 DEF Nowhere
    <3>4. x \in MsgsOf(registry)
      BY <2>2, <3>3 DEF PInv, Copies
    <3> QED
      BY <1>4, <3>1, <3>3, <3>4
  <2>3. Doubled' = Doubled /\ settled' = settled /\ accepted' = accepted
    BY <1>2
  <2>4. settled \subseteq Msgs
    BY <1>1 DEF TypeOK
  <2> QED
    BY <2>1, <2>2, <2>3, <2>4 DEF Copies
<1> QED
  BY <1>8, <1>9, <1>10, <1>11 DEF PInv

\* The dashboard dies: what a Stop took out is lost, and what a failed release
\* would put back; the other releases go on alone.
LEMMA DashboardCrashKeeps ==
  ASSUME PInv, DashboardCrash
  PROVE  PInv'
<1> PICK F : F = {l \in Lanes : lane[l].pc = "failed"}
  OBVIOUS
<1>1. Base /\ TypeOK /\ Claimed
  BY DEF PInv, Base
<1>2. /\ UNCHANGED <<queue, ledger, journals, held, owner, registry, timed, acks,
                     stops, late, landed, unsent, accepted, settled, volatile,
                     work, repeated>>
      /\ watch' = {} /\ stop' = <<>> /\ Fault
      /\ lost' = lost \cup ToSet(stop) \cup {lane[l].msg : l \in F}
      /\ lane' = [l \in Lanes |->
                   IF lane[l].pc \in {"failed", "unsure"} THEN Idle
                   ELSE IF lane[l].kind = "release"
                   THEN [lane[l] EXCEPT !.kind = "orphan"] ELSE lane[l]]
      /\ \A x : Unread(x)' = Unread(x)
  BY DEF DashboardCrash, disk, memory, engine, Unread
<1>3. ASSUME NEW l \in Lanes
      PROVE  /\ lane'[l] \in LaneRecords /\ Fits(lane'[l])
             /\ lane'[l].seq \in {0, lane[l].seq}
             /\ lane'[l].todo \subseteq lane[l].todo
             /\ Taken(l)' => Taken(l) /\ lane'[l].seq = lane[l].seq
             /\ InHand(l)' <=> InHand(l) /\ l \notin F
             /\ InHand(l)' => lane'[l].msg = lane[l].msg
             /\ lane'[l].kind = "fresh" <=> lane[l].kind = "fresh"
             /\ lane'[l].kind = "fresh" => lane'[l].msg = lane[l].msg
             /\ lane'[l].pc # "unsure"
  <2>1. lane[l] \in LaneRecords /\ Fits(lane[l])
    BY <1>1 DEF TypeOK, LaneRecords, Base, Shaped
  <2>2. CASE lane[l].pc \in {"failed", "unsure"}
    <3>1. lane'[l] = Idle
      BY <1>2, <2>2
    <3>2. lane[l].kind \in {"", "release"} /\ (InHand(l) => l \in F)
      BY <2>1, <2>2 DEF Fits, InHand, Taken, Direct
    <3> QED
      BY <3>1, <3>2, IdleFields DEF Taken, InHand, Queued, Direct
  <2>3. CASE lane[l].pc \notin {"failed", "unsure"} /\ lane[l].kind = "release"
    <3>1. lane'[l] = [lane[l] EXCEPT !.kind = "orphan"] /\ l \notin F
      BY <1>2, <2>3
    <3>2. /\ lane'[l].pc = lane[l].pc /\ lane'[l].kind = "orphan"
          /\ lane'[l].msg = lane[l].msg /\ lane'[l].seq = lane[l].seq
          /\ lane'[l].todo = lane[l].todo /\ lane'[l] \in LaneRecords
      BY <2>1, <3>1 DEF LaneRecords, Direct
    <3>3. lane[l].pc # "idle" /\ lane'[l] # Idle
      BY <2>1, <2>3, <3>2, IdleFields DEF Fits
    <3>4. Fits(lane'[l])
      BY <2>1, <2>3, <3>2, <3>3 DEF Fits, Queued, Direct
    <3> QED
      BY <2>3, <3>1, <3>2, <3>4 DEF Taken, InHand, Queued, Direct
  <2>4. CASE lane[l].pc \notin {"failed", "unsure"} /\ lane[l].kind # "release"
    <3>1. lane'[l] = lane[l] /\ l \notin F
      BY <1>2, <2>4
    <3> QED
      BY <2>1, <2>4, <3>1 DEF Taken, InHand
  <2> QED
    BY <2>2, <2>3, <2>4
<1>4. F \subseteq Lanes /\ \A l \in F : lane[l].msg \in Msgs
  BY <1>1 DEF Base, Shaped, Fits
<1>5. \A x : Hands(x)' = Hands(x) \ F
  BY <1>3 DEF Hands
<1>6. stop' \in Seq(Msgs) /\ ToSet(stop') = {} /\ \A x : Once(stop', x)
  <2>1. <<>> \in Seq(Msgs) /\ ToSet(<<>>) = {} /\ \A x : Once(<<>>, x)
    BY DEF ToSet, Once
  <2> QED
    BY <1>2, <2>1
<1>7. Base'
  <2>1. faults' \in 0..MaxFaults /\ lost' \subseteq Msgs
    <3>1. ToSet(stop) \subseteq Msgs /\ lost \subseteq Msgs
      BY <1>1, Entries DEF TypeOK
    <3> QED
      BY <1>1, <1>2, <1>4, <3>1, Faulty
  <2>2. lane' \in [Lanes -> LaneRecords]
    BY <1>2, <1>3
  <2>3. TypeOK'
    <3>1. \A S \in {timed', landed', accepted', settled', lost', volatile',
                    repeated'} :
            S \subseteq Msgs
      BY <1>1, <1>2, <2>1 DEF TypeOK
    <3> QED
      BY <1>1, <1>2, <1>6, <2>1, <2>2, <3>1 DEF TypeOK, LaneRecords
  <2>4. Bounded'
    <3>1. ASSUME NEW k \in Nat, Stamp(k)'
          PROVE  k = 0 \/ Stamp(k)
      BY <1>2, <1>3, <3>1 DEF Stamp
    <3> QED
      BY <1>1, <3>1, StaysBounded
  <2>5. Shaped'
    BY <1>3 DEF Shaped
  <2> QED
    BY <1>1, <1>2, <2>3, <2>4, <2>5 DEF Base, LateCounted
<1>8. Claimed'
  <2>1. ClaimsApart'
    <3>1. \A l \in Lanes : Taken(l)' => Taken(l) /\ lane'[l].seq = lane[l].seq
      BY <1>3
    <3> QED
      BY <1>1, <1>2, <3>1 DEF Claimed, ClaimsApart
  <2>2. ReadsHold'
    BY <1>1, <1>2, <1>3 DEF Claimed, ReadsHold
  <2> QED
    BY <2>1, <2>2 DEF Claimed
<1>9. Known'
  <2>1. ASSUME NEW l \in Lanes
        PROVE  /\ InHand(l)' /\ lane'[l].kind # "fresh"
                    => lane'[l].msg \in accepted
               /\ lane'[l].pc # "unsure"
               /\ lane'[l].kind = "fresh" => lane'[l].msg \notin accepted
    <3>1. /\ InHand(l)' => InHand(l) /\ lane'[l].msg = lane[l].msg
          /\ lane'[l].kind = "fresh" <=> lane[l].kind = "fresh"
          /\ lane'[l].kind = "fresh" => lane'[l].msg = lane[l].msg
          /\ lane'[l].pc # "unsure"
      BY <1>3
    <3> QED
      BY <3>1 DEF PInv, Known
  <2> QED
    BY <1>2, <1>6, <2>1 DEF PInv, Known, MsgsOf
<1>10. Copies'
  <2>1. /\ \A x : Alone(x) => Alone(x)'
        /\ \A x : Nowhere(x) => Nowhere(x)'
    BY <1>2, <1>5, <1>6 DEF Alone, Nowhere
  <2>2. ASSUME NEW x, Nowhere(x)', x \notin lost'
        PROVE  Nowhere(x)
    <3>1. Hands(x) \cap F = {}
      BY <1>2, <2>2 DEF Hands
    <3> QED
      BY <1>2, <1>5, <2>2, <3>1 DEF Nowhere
  <2>3. lost \subseteq lost'
    BY <1>2
  <2> QED
    BY <1>2, <2>1, <2>2, <2>3 DEF PInv, Copies, MsgsOf
<1> QED
  BY <1>7, <1>8, <1>9, <1>10 DEF PInv

-----------------------------------------------------------------------------
(* The theorems *)

\* It holds in the beginning.
LEMMA InitPInv == Init => PInv
<1> SUFFICES ASSUME Init PROVE PInv
  OBVIOUS
<1>1. /\ <<>> \in Seq(Msgs) /\ ToSet(<<>>) = {} /\ \A x : Once(<<>>, x)
  BY DEF ToSet, Once
<1>2. /\ lane \in [Lanes -> LaneRecords]
      /\ \A l \in Lanes : lane[l] = Idle /\ ~InHand(l) /\ ~Taken(l)
  <2>1. \A l \in Lanes : lane[l] = Idle
    BY DEF Init
  <2> QED
    BY <2>1, IdleFields DEF Init, InHand, Taken, Queued, Direct
<1>3. \A x : Nowhere(x) /\ Alone(x)
  <2>1. \A x : Unread(x) = {} /\ Hands(x) = {}
    BY <1>2 DEF Init, Unread, Hands
  <2> QED
    BY <1>1, <2>1 DEF Init, Nowhere, Alone
<1>4. Base
  <2>1. /\ {MaxUnsent, MaxFaults, MaxStops} \subseteq Nat
        /\ 0 \in 0..MaxUnsent /\ 0 \in 0..MaxFaults /\ 0 \in 0..MaxStops
    BY PendingAssumption
  <2>2. TypeOK
    BY <1>1, <1>2, <2>1 DEF Init, TypeOK, LaneRecords
  <2>3. Shaped
    BY <1>2, IdleFields DEF Shaped
  <2>4. LateCounted
    BY DEF Init, LateCounted
  <2>5. Bounded
    <3>1. \A l \in Lanes : lane[l].seq = 0
      BY <1>2, IdleFields
    <3>2. ASSUME NEW k \in Nat, Stamp(k)
          PROVE  k = 0
      BY <3>1, <3>2 DEF Init, Stamp
    <3> QED
      BY <3>2 DEF Bounded
  <2>6. IsFiniteSet(registry)
    BY FS_EmptySet DEF Init
  <2> QED
    BY <2>2, <2>3, <2>4, <2>5, <2>6 DEF Base
<1>5. Claimed
  BY <1>2, IdleFields DEF Init, Claimed, ClaimsApart, ReadsHold
<1>6. Known
  BY <1>1, <1>2, IdleFields DEF Init, Known, MsgsOf
<1>7. Copies
  BY <1>3 DEF Init, Copies
<1> QED
  BY <1>4, <1>5, <1>6, <1>7 DEF PInv

\* A step that changes nothing keeps it.
LEMMA StutterKeeps ==
  ASSUME PInv, UNCHANGED vars
  PROVE  PInv'
<1>1. UNCHANGED <<queue, ledger, journals, held, owner, lane, registry, timed,
                  acks, watch, stop, stops, late, landed, unsent, faults,
                  accepted, settled, lost, volatile, work, repeated>>
  BY DEF vars, disk, memory, stopper, engine, history
<1>2. /\ Shaped' /\ Bounded' /\ Claimed'
      /\ MsgsOf(journals)' = MsgsOf(journals)
      /\ MsgsOf(registry)' = MsgsOf(registry)
      /\ \A k \in Lanes : InHand(k)' <=> InHand(k)
      /\ \A x : Unread(x)' = Unread(x) /\ Hands(x)' = Hands(x)
  BY <1>1, Quiet
<1>3. Base'
  BY <1>1, <1>2 DEF PInv, Base, TypeOK, LateCounted
<1>4. Known'
  BY <1>1, <1>2 DEF PInv, Known
<1>5. Copies'
  BY <1>1, <1>2 DEF PInv, Copies, Alone, Nowhere
<1> QED
  BY <1>2, <1>3, <1>4, <1>5 DEF PInv

\* Every step keeps it.
LEMMA StepKeeps == PInv /\ [Next]_vars => PInv'
<1> SUFFICES ASSUME PInv, [Next]_vars PROVE PInv'
  OBVIOUS
<1>1. ASSUME NEW l \in Lanes, LaneStep(l)
      PROVE  PInv'
  BY <1>1, SubmitKeeps, ParkKeeps, SendFailsKeeps, ReleaseFailsKeeps,
     RecoverKeeps, ClaimKeeps, NoClaimKeeps, CheckKeeps, CommitKeeps, RejectedKeeps, TimedOutKeeps,
     RestoreKeeps, JournalKeeps, KeepKeeps
     DEF LaneStep
<1>2. ASSUME NEW l \in Lanes, Pump(l)
      PROVE  PInv'
  BY <1>2, PumpKeeps
<1>3. ASSUME NEW l \in Lanes, NEW m \in Msgs,
             Send(l, m) \/ Release(l, m) \/ Steer(l, m)
      PROVE  PInv'
  BY <1>3, SendKeeps, ReleaseKeeps, SteerKeeps
<1>4. ASSUME NEW m \in Msgs, Land(m) \/ Cancel(m) \/ Answer(m)
      PROVE  PInv'
  BY <1>4, LandKeeps, CancelKeeps, AnswerKeeps
<1>5. ASSUME NEW a \in acks, Reconcile(a)
      PROVE  PInv'
  BY <1>5, ReconcileKeeps
<1>6. CASE WatchStep \/ Stop \/ Hold
  BY <1>6, WatchBeginKeeps, WatchRecoverKeeps, StopKeeps, HoldKeeps DEF WatchStep
<1>7. CASE WorkerCrash \/ DashboardCrash
  BY <1>7, WorkerCrashKeeps, DashboardCrashKeeps
<1>8. CASE UNCHANGED vars
  BY <1>8, StutterKeeps
<1> QED
  BY <1>1, <1>2, <1>3, <1>4, <1>5, <1>6, <1>7, <1>8 DEF Next

\* The inductive invariant holds of every behaviour.
THEOREM PendingInductive == Spec => []PInv
BY InitPInv, StepKeeps, PTL DEF Spec

\* The queue of a session and all that goes with it have their types.
THEOREM PendingTypes == Spec => []TypeOK
<1>1. PInv => TypeOK
  BY DEF PInv, Base
<1> QED
  BY <1>1, PendingInductive, PTL

\* An accepted message waits somewhere until it is delivered or cancelled, for
\* any number of threads, crashes, failed writes and timeouts: what a claim, a
\* journal or a Stop takes out of the queue is somewhere else by then.  What
\* takes it away is named: a crash with the message in a process's memory, a
\* Stop or a failed release that cannot write the held items, and a release
\* that the worker answers for an earlier one of the same message.
THEOREM PendingNothingLost == Spec => []NothingLost
BY PInvImplies, PendingInductive, PTL

\* No message waits twice unless its claim was left to the worker's memory, or
\* the reply to its release got lost: a journal that two passes read, a claim
\* that is put back while a Stop empties the queue, a release under way and one
\* that failed yield one copy.
THEOREM PendingOnePlace == Spec => []OnePlace
BY PInvImplies, PendingInductive, PTL

\* With the same exceptions nothing that was delivered or cancelled comes back.
THEOREM PendingSettledIsGone == Spec => []SettledIsGone
BY PInvImplies, PendingInductive, PTL
=============================================================================
