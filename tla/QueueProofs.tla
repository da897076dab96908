----------------------------- MODULE QueueProofs -----------------------------
(***************************************************************************)
(* Facts about queues and lists, std::queue, std::vector and the lists of  *)
(* the tools in the code: what the operations on a sequence return and     *)
(* which elements are left, ids in their order, flattened lists.           *)
(***************************************************************************)
EXTENDS IdOrder, Integers, SequencesExt, FiniteSets, SequenceTheorems,
        FiniteSetTheorems, WellFoundedInduction, TLAPS

(* The elements of a sequence. *)
LEMMA InToSet ==
    ASSUME NEW S, NEW s \in Seq(S)
    PROVE  /\ ToSet(s) \subseteq S
           /\ \A i \in 1 .. Len(s) : s[i] \in ToSet(s)
           /\ \A x \in ToSet(s) : \E i \in 1 .. Len(s) : x = s[i]
  BY DEF ToSet

(* push() *)
LEMMA AppendQueue ==
    ASSUME NEW S, NEW s \in Seq(S), NEW x \in S
    PROVE  /\ Append(s, x) \in Seq(S) /\ Append(s, x) # <<>>
           /\ ToSet(Append(s, x)) = ToSet(s) \cup {x}
<1>1. /\ Append(s, x) \in Seq(S) /\ Len(Append(s, x)) = Len(s) + 1
      /\ \A i \in 1 .. Len(s) : Append(s, x)[i] = s[i]
      /\ Append(s, x)[Len(s) + 1] = x
  OBVIOUS
<1>2. ToSet(Append(s, x)) \subseteq ToSet(s) \cup {x}
  BY <1>1 DEF ToSet
<1>3. /\ \A i \in 1 .. Len(s) + 1 : Append(s, x)[i] \in ToSet(Append(s, x))
      /\ Len(s) + 1 \in 1 .. Len(s) + 1
      /\ \A i \in 1 .. Len(s) : i \in 1 .. Len(s) + 1
  <2>1. \A i \in 1 .. Len(Append(s, x)) :
            Append(s, x)[i] \in ToSet(Append(s, x))
    BY <1>1, InToSet, Zenon
  <2> QED
    BY <1>1, <2>1
<1>4. ASSUME NEW y \in ToSet(s)
      PROVE  y \in ToSet(Append(s, x))
  <2>1. PICK i \in 1 .. Len(s) : y = s[i]
    BY InToSet
  <2> QED
    BY <2>1, <1>1, <1>3
<1> QED
  BY <1>1, <1>2, <1>3, <1>4

(* front() and pop() *)
LEMMA HeadTailQueue ==
    ASSUME NEW S, NEW s \in Seq(S), s # <<>>
    PROVE  /\ Head(s) \in S /\ Head(s) \in ToSet(s)
           /\ Tail(s) \in Seq(S) /\ ToSet(Tail(s)) \subseteq ToSet(s)
<1>1. Head(s) = s[1] /\ 1 \in 1 .. Len(s) /\ Head(s) \in S
  OBVIOUS
<1>2. /\ Tail(s) \in Seq(S) /\ Len(Tail(s)) = Len(s) - 1
      /\ \A i \in 1 .. Len(Tail(s)) : Tail(s)[i] = s[i + 1]
  BY HeadTailProperties
<1>3. ASSUME NEW y \in ToSet(Tail(s))
      PROVE  y \in ToSet(s)
  <2>1. PICK i \in 1 .. Len(Tail(s)) : y = Tail(s)[i]
    BY <1>2, InToSet
  <2>2. i + 1 \in 1 .. Len(s)
    BY <1>2
  <2> QED
    BY <1>2, <2>1, <2>2, InToSet
<1> QED
  BY <1>1, <1>2, <1>3, InToSet

(* erase() in the middle *)
LEMMA RemoveAtQueue ==
    ASSUME NEW S, NEW s \in Seq(S), NEW i \in 1 .. Len(s)
    PROVE  /\ RemoveAt(s, i) \in Seq(S)
           /\ ToSet(RemoveAt(s, i)) \subseteq ToSet(s)
<1> DEFINE before == SubSeq(s, 1, i - 1)
           after  == SubSeq(s, i + 1, Len(s))
<1>1. /\ before \in Seq(S) /\ Len(before) = i - 1
      /\ \A j \in 1 .. Len(before) : before[j] = s[j]
  OBVIOUS
<1>2. /\ after \in Seq(S) /\ Len(after) = Len(s) - i
      /\ \A j \in 1 .. Len(after) : after[j] = s[i + j]
  OBVIOUS
<1>3. RemoveAt(s, i) = before \o after
  BY DEF RemoveAt
<1> HIDE DEF before, after
<1>4. /\ RemoveAt(s, i) \in Seq(S)
      /\ Len(RemoveAt(s, i)) = Len(before) + Len(after)
      /\ \A j \in 1 .. Len(before) + Len(after) : RemoveAt(s, i)[j] =
            IF j <= Len(before) THEN before[j] ELSE after[j - Len(before)]
  <2>1. /\ before \o after \in Seq(S)
        /\ Len(before \o after) = Len(before) + Len(after)
        /\ \A j \in 1 .. Len(before) + Len(after) : (before \o after)[j] =
              IF j <= Len(before) THEN before[j] ELSE after[j - Len(before)]
    BY <1>1, <1>2, ConcatProperties, Zenon
  <2> QED
    BY <1>3, <2>1, Zenon
<1>5. ASSUME NEW x \in ToSet(RemoveAt(s, i))
      PROVE  x \in ToSet(s)
  <2>1. PICK j \in 1 .. Len(RemoveAt(s, i)) : x = RemoveAt(s, i)[j]
    BY <1>4, InToSet
  <2>2. CASE j <= Len(before)
    <3>1. x = s[j] /\ j \in 1 .. Len(s)
      BY <1>1, <1>2, <1>4, <2>1, <2>2
    <3> QED
      BY <3>1, InToSet
  <2>3. CASE j > Len(before)
    <3>1. /\ x = after[j - Len(before)]
          /\ j - Len(before) \in 1 .. Len(after)
          /\ i + (j - Len(before)) \in 1 .. Len(s)
      BY <1>1, <1>2, <1>4, <2>1, <2>3
    <3>2. x = s[i + (j - Len(before))]
      BY <1>2, <3>1
    <3> QED
      BY <3>1, <3>2, InToSet
  <2> QED
    BY <2>1, <2>2, <2>3, <1>1, <1>2, <1>4
<1> QED
  BY <1>4, <1>5

(* The first packet that is due is one of those that are due. *)
LEMMA MinInSet ==
    ASSUME NEW S \in SUBSET Nat, S # {}
    PROVE  Min(S) \in S /\ \A y \in S : Min(S) <= y
<1> DEFINE Below == {0 .. n : n \in S}
<1>1. PICK B \in Below : \A C \in Below : ~ (<<C, B>> \in StrictSubsetOrdering(Nat))
  <2>1. Below \subseteq FiniteSubsetsOf(Nat) /\ Below # {}
    <3>1. ASSUME NEW n \in S
          PROVE  0 .. n \in FiniteSubsetsOf(Nat)
      <4>1. n \in Int /\ 0 \in Int /\ 0 .. n \in SUBSET Nat
        OBVIOUS
      <4>2. IsFiniteSet(0 .. n)
        BY <4>1, FS_Interval, Zenon
      <4> QED
        BY <4>1, <4>2 DEF FiniteSubsetsOf
    <3> QED
      BY <3>1
  <2> QED
    BY <2>1, WFMin, FS_StrictSubsetOrderingWellFounded
<1>2. PICK x \in S : B = 0 .. x
  OBVIOUS
<1>3. ASSUME NEW y \in S, y < x
      PROVE  FALSE
  <2>1. /\ 0 .. y \in Below
        /\ 0 .. y \subseteq B /\ x \in B /\ x \notin 0 .. y
        /\ B \subseteq Nat
    BY <1>2, <1>3
  <2>2. <<0 .. y, B>> \in StrictSubsetOrdering(Nat)
    BY <2>1 DEF StrictSubsetOrdering
  <2> QED
    BY <1>1, <2>1, <2>2
<1>4. \A y \in S : x =< y
  BY <1>3
<1> QED
  BY <1>4 DEF Min

(* A set of numbers with a bound has a largest one. *)
LEMMA LargestOfBounded ==
    ASSUME NEW n \in Nat, NEW S \in SUBSET (0 .. n), S # {}
    PROVE  \E s \in S : \A t \in S : s >= t
<1> DEFINE below == {n - t : t \in S}
<1>1. below \in SUBSET Nat /\ below # {}
  <2>1. \A t \in S : t \in Int /\ n - t \in Nat
    OBVIOUS
  <2> QED BY <2>1
<1>2. PICK s \in S : Min(below) = n - s
  BY <1>1, MinInSet
<1>3. \A t \in S : n - s <= n - t
  BY <1>1, <1>2, MinInSet
<1>4. \A t \in S : t \in Nat
  OBVIOUS
<1> QED BY <1>3, <1>4

(* Counting the elements of a sequence that have a property. *)
LEMMA CountIsNat ==
    ASSUME NEW S, NEW s \in Seq(S), NEW T, T \subseteq DOMAIN s
    PROVE  IsFiniteSet(T) /\ Cardinality(T) \in Nat
<1>1. DOMAIN s = 1 .. Len(s) /\ Len(s) \in Nat
  OBVIOUS
<1>2. IsFiniteSet(1 .. Len(s))
  BY <1>1, FS_Interval
<1>3. IsFiniteSet(T)
  BY <1>1, <1>2, FS_Subset
<1> QED
  BY <1>3, FS_CardinalityType

(* The indices and elements of a sequence. *)
LEMMA SeqElements ==
    ASSUME NEW S, NEW s \in Seq(S)
    PROVE  /\ DOMAIN s = 1 .. Len(s) /\ Len(s) \in Nat
           /\ \A i \in DOMAIN s : s[i] \in S
  OBVIOUS

(* A sequence made of another one element by element. *)
LEMMA MappedSeq ==
    ASSUME NEW S, NEW T, NEW s \in Seq(S), NEW f, f = [i \in DOMAIN s |-> f[i]],
           \A i \in DOMAIN s : f[i] \in T
    PROVE  f \in Seq(T) /\ Len(f) = Len(s) /\ DOMAIN f = DOMAIN s
<1>1. DOMAIN s = 1 .. Len(s) /\ Len(s) \in Nat
  OBVIOUS
<1>2. DOMAIN f = 1 .. Len(s)
  BY <1>1
<1> QED BY <1>1, <1>2

-----------------------------------------------------------------------------
(* Ids in their order (IdOrder).                                           *)

(* The rank of an id is a number below that of the larger ids. *)
LEMMA RankBounds ==
    ASSUME NEW S \in SUBSET Nat, IsFiniteSet(S), NEW x \in S
    PROVE  /\ Rank(S, x) \in Nat /\ Rank(S, x) < Cardinality(S)
           /\ \A y \in S : x < y => Rank(S, x) < Rank(S, y)
<1> DEFINE Below(y) == {i \in S : i < y}
<1>1. \A y \in S : /\ IsFiniteSet(Below(y)) /\ Cardinality(Below(y)) \in Nat
                   /\ Rank(S, y) = Cardinality(Below(y))
  <2> SUFFICES ASSUME NEW y \in S
               PROVE  /\ IsFiniteSet(Below(y)) /\ Cardinality(Below(y)) \in Nat
                      /\ Rank(S, y) = Cardinality(Below(y))
    OBVIOUS
  <2>1. Below(y) \in SUBSET S
    OBVIOUS
  <2>2. IsFiniteSet(Below(y))
    BY <2>1, FS_Subset
  <2> QED BY <2>2, FS_CardinalityType DEF Rank
<1>2. /\ IsFiniteSet(Below(x) \cup {x})
      /\ Cardinality(Below(x) \cup {x}) = Rank(S, x) + 1
  <2>1. x \notin Below(x)
    OBVIOUS
  <2> QED BY <1>1, <2>1, FS_AddElement
<1>3. ASSUME NEW T, IsFiniteSet(T), Below(x) \cup {x} \subseteq T
      PROVE  Rank(S, x) < Cardinality(T)
  <2>1. Cardinality(Below(x) \cup {x}) <= Cardinality(T) /\ Cardinality(T) \in Nat
    BY <1>3, FS_Subset, FS_CardinalityType
  <2>2. Rank(S, x) \in Nat
    BY <1>1
  <2> HIDE DEF Below
  <2> QED BY <1>2, <2>1, <2>2
<1>4. Rank(S, x) < Cardinality(S)
  BY <1>3
<1>5. ASSUME NEW y \in S, x < y PROVE Rank(S, x) < Rank(S, y)
  <2>1. Below(x) \cup {x} \subseteq Below(y)
    <3>1. \A i \in Below(x) \cup {x} : i \in S /\ i < y
      BY <1>5
    <3> QED BY <3>1
  <2> QED BY <1>1, <1>3, <2>1
<1> QED BY <1>1, <1>4, <1>5

(* Every number below the cardinality is the rank of exactly one id. *)
LEMMA RankReaches ==
    ASSUME NEW S \in SUBSET Nat, IsFiniteSet(S), NEW n \in 1 .. Cardinality(S)
    PROVE  \E x \in S : Rank(S, x) = n - 1
<1> DEFINE f == [x \in S |-> Rank(S, x) + 1]
           C == 1 .. Cardinality(S)
<1>1. Cardinality(S) \in Nat
  BY FS_CardinalityType
<1>2. IsFiniteSet(C) /\ Cardinality(C) = Cardinality(S)
  BY <1>1, FS_Interval
<1>3. f \in Injection(S, C)
  <2>1. \A x \in S : Rank(S, x) \in Nat /\ Rank(S, x) < Cardinality(S)
    BY RankBounds
  <2>2. f \in [S -> C]
    BY <1>1, <2>1
  <2>3. \A x, y \in S : f[x] = f[y] => x = y
    <3> TAKE x, y \in S
    <3>1. CASE x < y
      BY <2>1, <3>1, RankBounds
    <3>2. CASE y < x
      BY <2>1, <3>2, RankBounds
    <3> QED BY <3>1, <3>2
  <2> QED BY <2>2, <2>3 DEF Injection, IsInjective
<1>4. f \in Surjection(S, C)
  <2> HIDE DEF f, C
  <2> QED BY <1>2, <1>3, FS_Injection
<1>5. PICK x \in S : f[x] = n
  <2> HIDE DEF f
  <2> QED BY <1>4 DEF Surjection
<1>6. Rank(S, x) \in Nat
  BY RankBounds
<1> QED BY <1>5, <1>6

(* sorted() visits every id once, in order; an id is at its rank. *)
LEMMA InIdOrderSorts ==
    ASSUME NEW S \in SUBSET Nat, IsFiniteSet(S)
    PROVE  /\ InIdOrder(S) \in Seq(S)
           /\ Cardinality(S) \in Nat /\ Len(InIdOrder(S)) = Cardinality(S)
           /\ DOMAIN InIdOrder(S) = 1 .. Cardinality(S)
           /\ \A x \in S : /\ Rank(S, x) + 1 \in 1 .. Cardinality(S)
                           /\ InIdOrder(S)[Rank(S, x) + 1] = x
           /\ \A n \in 1 .. Cardinality(S) : Rank(S, InIdOrder(S)[n]) = n - 1
           /\ \A m, n \in 1 .. Cardinality(S) :
                  InIdOrder(S)[m] = InIdOrder(S)[n] => m = n
<1> DEFINE C == Cardinality(S)
           s == InIdOrder(S)
<1>1. C \in Nat
  BY FS_CardinalityType
<1>2. \A n \in 1 .. C : s[n] \in S /\ Rank(S, s[n]) = n - 1
  BY RankReaches DEF InIdOrder
<1>3. DOMAIN s = 1 .. C /\ s \in Seq(S) /\ Len(s) = C
  <2>1. s = [n \in 1 .. C |-> s[n]]
    BY DEF InIdOrder
  <2> HIDE DEF s, C
  <2> QED BY <1>1, <1>2, <2>1
<1>4. \A x \in S : Rank(S, x) \in Nat /\ Rank(S, x) < C
  BY RankBounds
<1>5. \A x, y \in S : Rank(S, x) = Rank(S, y) => x = y
  <2> TAKE x, y \in S
  <2>1. CASE x < y
    BY <1>4, <2>1, RankBounds
  <2>2. CASE y < x
    BY <1>4, <2>2, RankBounds
  <2> QED BY <2>1, <2>2
<1>6. ASSUME NEW x \in S
      PROVE  Rank(S, x) + 1 \in 1 .. C /\ s[Rank(S, x) + 1] = x
  <2> DEFINE r == Rank(S, x) + 1
  <2>1. r \in 1 .. C /\ r - 1 = Rank(S, x)
    <3> HIDE DEF C
    <3> QED BY <1>1, <1>4
  <2> HIDE DEF s, C, r
  <2>2. s[r] \in S /\ Rank(S, s[r]) = Rank(S, x)
    BY <1>2, <2>1
  <2>3. s[r] = x
    BY <1>5, <2>2
  <2> QED BY <2>1, <2>3 DEF r
<1>7. \A m, n \in 1 .. C : s[m] = s[n] => m = n
  <2> HIDE DEF s, C
  <2> QED BY <1>1, <1>2
<1> QED BY <1>1, <1>2, <1>3, <1>6, <1>7

(* Each of them once. *)
LEMMA InIdOrderLists ==
    ASSUME NEW S \in SUBSET Nat, IsFiniteSet(S)
    PROVE  LET s == InIdOrder(S)
           IN  /\ s \in Seq(S) /\ Len(s) \in Nat /\ DOMAIN s = 1 .. Len(s)
               /\ \A n \in DOMAIN s : s[n] \in S
               /\ \A x \in S : \E n \in DOMAIN s : s[n] = x
               /\ \A m, n \in DOMAIN s : s[m] = s[n] => m = n
<1> DEFINE s == InIdOrder(S)
<1>1. /\ s \in Seq(S) /\ Len(s) \in Nat /\ DOMAIN s = 1 .. Len(s)
      /\ \A x \in S : \E n \in DOMAIN s : s[n] = x
      /\ \A m, n \in DOMAIN s : s[m] = s[n] => m = n
  <2>1. /\ s \in Seq(S) /\ Cardinality(S) \in Nat /\ Len(s) = Cardinality(S)
        /\ DOMAIN s = 1 .. Cardinality(S)
        /\ \A x \in S : /\ Rank(S, x) + 1 \in 1 .. Cardinality(S)
                        /\ s[Rank(S, x) + 1] = x
        /\ \A m, n \in 1 .. Cardinality(S) : s[m] = s[n] => m = n
    BY InIdOrderSorts
  <2> HIDE DEF s
  <2>2. \A x \in S : \E n \in DOMAIN s : s[n] = x
    BY <2>1, Zenon
  <2> QED BY <2>1, <2>2
<1> HIDE DEF s
<1>2. \A n \in DOMAIN s : s[n] \in S
  BY <1>1, ElementOfSeq
<1> QED BY <1>1, <1>2 DEF s

-----------------------------------------------------------------------------
(* Sequences joined and flattened.                                         *)

(* What FlattenSeq calls flatten. *)
Flattens(seqs, g) ==
    g = [i \in 1 .. Len(seqs) |->
           IF i = 1 THEN seqs[i] ELSE g[i - 1] \o seqs[i]]

(* The recursion of FlattenSeq defines the flattened prefixes. *)
LEMMA FlattensExist ==
    ASSUME NEW seqs, Len(seqs) \in Nat
    PROVE  \E g : Flattens(seqs, g)
<1> DEFINE N == Len(seqs)
           UpTo(k, g) == /\ g = [n \in 1 .. N |-> g[n]]
                         /\ \A n \in 1 .. k :
                              g[n] = IF n = 1 THEN seqs[n] ELSE g[n - 1] \o seqs[n]
           Bad == {k \in 0 .. N : \A g : ~UpTo(k, g)}
<1>1. N \in Nat
  OBVIOUS
<1> HIDE DEF N
<1>2. CASE Bad # {}
  <2> DEFINE m == Min(Bad)
  <2>1. m \in Bad /\ \A k \in Bad : m <= k
    <3>1. Bad \in SUBSET Nat
      BY <1>1
    <3> HIDE DEF Bad
    <3> QED BY <1>2, <3>1, MinInSet
  <2>2. m \in 0 .. N /\ \A g : ~UpTo(m, g)
    <3> HIDE DEF m
    <3> QED BY <2>1
  <2> HIDE DEF m
  <2>3. CASE m = 0
    <3> DEFINE g == [n \in 1 .. N |-> <<>>]
    <3>1. UpTo(0, g)
      BY <1>1
    <3> QED BY <2>2, <2>3, <3>1
  <2>4. CASE m # 0
    <3>1. m - 1 \in 0 .. N /\ m - 1 \notin Bad /\ m \in 1 .. N
      BY <1>1, <2>1, <2>2, <2>4
    <3>2. PICK g : UpTo(m - 1, g)
      BY <3>1
    <3> DEFINE new == IF m = 1 THEN seqs[m] ELSE g[m - 1] \o seqs[m]
               h == [g EXCEPT ![m] = new]
    <3>3. UpTo(m, h)
      <4>1. h = [n \in 1 .. N |-> h[n]]
        BY <3>2
      <4>2. \A n \in 1 .. N : h[n] = IF n = m THEN new ELSE g[n]
        BY <3>1, <3>2
      <4>3. ASSUME NEW n \in 1 .. m
            PROVE  h[n] = IF n = 1 THEN seqs[n] ELSE h[n - 1] \o seqs[n]
        <5>1. n # 1 => n - 1 \in 1 .. N /\ n - 1 # m /\ h[n - 1] = g[n - 1]
          BY <1>1, <2>2, <4>2
        <5>2. CASE n = m
          <6>1. h[n] = new
            BY <3>1, <4>2, <5>2
          <6> HIDE DEF h
          <6> QED BY <5>1, <5>2, <6>1
        <5>3. CASE n # m
          <6>1. n \in 1 .. m - 1 /\ h[n] = g[n]
            BY <1>1, <2>2, <4>2, <5>3
          <6> HIDE DEF h
          <6> QED BY <3>2, <5>1, <6>1
        <5> QED BY <5>2, <5>3
      <4> QED BY <4>1, <4>3
    <3> HIDE DEF UpTo, h
    <3> QED BY <2>2, <3>3
  <2> QED BY <2>3, <2>4
<1>3. CASE Bad = {}
  <2>1. N \in 0 .. N
    BY <1>1
  <2>2. PICK g : UpTo(N, g)
    BY <1>3, <2>1
  <2>3. Flattens(seqs, g)
    BY <2>2 DEF Flattens, N
  <2> QED BY <2>3
<1> HIDE DEF Bad
<1> QED BY <1>2, <1>3

(* The elements of two sequences joined. *)
LEMMA ConcatToSet ==
    ASSUME NEW S, NEW s \in Seq(S), NEW t \in Seq(S)
    PROVE  s \o t \in Seq(S) /\ ToSet(s \o t) = ToSet(s) \cup ToSet(t)
<1> DEFINE r == s \o t
<1>1. /\ r \in Seq(S) /\ Len(r) = Len(s) + Len(t)
      /\ Len(s) \in Nat /\ Len(t) \in Nat
      /\ \A i \in 1 .. Len(s) : r[i] = s[i]
      /\ \A i \in 1 .. Len(t) : r[Len(s) + i] = t[i]
  OBVIOUS
<1> HIDE DEF r
<1>2. ASSUME NEW x \in ToSet(r) PROVE x \in ToSet(s) \cup ToSet(t)
  <2>1. PICK i \in 1 .. Len(r) : x = r[i]
    BY <1>1, InToSet
  <2>2. CASE i <= Len(s)
    <3>1. i \in 1 .. Len(s)
      BY <1>1, <2>2
    <3> QED BY <1>1, <2>1, <3>1, InToSet
  <2>3. CASE i > Len(s)
    <3>1. i - Len(s) \in 1 .. Len(t) /\ Len(s) + (i - Len(s)) = i
      BY <1>1, <2>3
    <3>2. t[i - Len(s)] = x
      BY <1>1, <2>1, <3>1
    <3> QED BY <3>1, <3>2, InToSet
  <2> QED BY <1>1, <2>2, <2>3
<1>3. ASSUME NEW x \in ToSet(s) PROVE x \in ToSet(r)
  <2>1. PICK i \in 1 .. Len(s) : x = s[i]
    BY InToSet
  <2>2. i \in 1 .. Len(r)
    BY <1>1
  <2> QED BY <1>1, <2>1, <2>2, InToSet
<1>4. ASSUME NEW x \in ToSet(t) PROVE x \in ToSet(r)
  <2>1. PICK i \in 1 .. Len(t) : x = t[i]
    BY InToSet
  <2>2. Len(s) + i \in 1 .. Len(r)
    BY <1>1
  <2> QED BY <1>1, <2>1, <2>2, InToSet
<1> QED BY <1>1, <1>2, <1>3, <1>4 DEF r

(* The flattened sequence has the elements of its parts. *)
LEMMA FlattenToSet ==
    ASSUME NEW S, NEW seqs, DOMAIN seqs = 1 .. Len(seqs), Len(seqs) \in Nat,
           \A i \in DOMAIN seqs : seqs[i] \in Seq(S), seqs \in Seq(Seq(S))
    PROVE  /\ FlattenSeq(seqs) \in Seq(S)
           /\ ToSet(FlattenSeq(seqs)) = UNION {ToSet(seqs[i]) : i \in DOMAIN seqs}
<1> DEFINE N == Len(seqs)
           Parts(n) == UNION {ToSet(seqs[i]) : i \in 1 .. n}
<1>1. CASE N = 0
  <2>1. seqs = <<>> /\ FlattenSeq(seqs) = seqs /\ DOMAIN seqs = {}
    BY <1>1 DEF FlattenSeq
  <2>2. ToSet(seqs) = {} /\ seqs \in Seq(S)
    BY <2>1 DEF ToSet
  <2>3. UNION {ToSet(seqs[i]) : i \in DOMAIN seqs} = {}
    BY <2>1
  <2> QED BY <2>1, <2>2, <2>3
<1>2. CASE N # 0
  <2> DEFINE g == CHOOSE g : Flattens(seqs, g)
  <2>1. Flattens(seqs, g)
    BY FlattensExist
  <2>2. FlattenSeq(seqs) = g[N]
    BY <1>2 DEF FlattenSeq, Flattens
  <2> HIDE DEF g
  <2> DEFINE Good(n) == g[n] \in Seq(S) /\ ToSet(g[n]) = Parts(n)
             Bad == {n \in 1 .. N : ~Good(n)}
  <2>3. CASE Bad # {}
    <3> DEFINE m == Min(Bad)
    <3>1. m \in Bad /\ \A k \in Bad : m <= k
      <4>1. Bad \in SUBSET Nat
        OBVIOUS
      <4> HIDE DEF Bad
      <4> QED BY <2>3, <4>1, MinInSet
    <3>2. m \in 1 .. N /\ ~Good(m)
      <4> HIDE DEF m
      <4> QED BY <3>1
    <3> HIDE DEF m
    <3>3. seqs[m] \in Seq(S)
      BY <3>2
    <3>4. CASE m = 1
      <4>1. g[m] = seqs[m]
        BY <2>1, <3>2, <3>4 DEF Flattens
      <4>2. Parts(m) = ToSet(seqs[m])
        BY <3>4
      <4> QED BY <3>2, <3>3, <4>1, <4>2
    <3>5. CASE m # 1
      <4>1. m - 1 \in 1 .. N /\ ~ (m <= m - 1)
        BY <3>2, <3>5
      <4>2. Good(m - 1)
        BY <3>1, <4>1
      <4>3. g[m] = g[m - 1] \o seqs[m]
        BY <2>1, <3>2, <3>5 DEF Flattens
      <4>4. Parts(m) = Parts(m - 1) \cup ToSet(seqs[m])
        <5>1. \A i : i \in 1 .. m <=> i \in 1 .. m - 1 \/ i = m
          BY <3>2
        <5> QED BY <5>1
      <4>5. g[m] \in Seq(S) /\ ToSet(g[m]) = ToSet(g[m - 1]) \cup ToSet(seqs[m])
        BY <3>3, <4>2, <4>3, ConcatToSet
      <4> QED BY <3>2, <4>2, <4>4, <4>5
    <3> QED BY <3>4, <3>5
  <2>4. CASE Bad = {}
    <3>1. N \in 1 .. N
      BY <1>2
    <3>2. Good(N)
      BY <2>4, <3>1
    <3> QED BY <2>2, <3>2
  <2> QED BY <2>3, <2>4
<1> QED BY <1>1, <1>2

=============================================================================
