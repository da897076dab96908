----------------------------- MODULE ToolProofs -----------------------------
(***************************************************************************)
(* The algorithms of the tools on data of any size: sorting a list of      *)
(* workloads by their dependencies, making a slice of selected workloads,  *)
(* converting a result of SET-IR.  Then the way of an IR through           *)
(* conversion, slicing and the parser: what is selected is the closure of  *)
(* what was asked for, and the lists the simulator gets are well typed,    *)
(* sorted, and name for every transfer the core that produces it.          *)
(***************************************************************************)
EXTENDS IRToolsInvariants, QueueProofs

-----------------------------------------------------------------------------
(* topological_sort_workloads: Kahn's algorithm on the list of a core.     *)

(* What the queue is at the beginning, and that a function as KahnQueue asks
   for exists: the queues can be given one after the other. *)
Ready(list) == {i \in DOMAIN list : Deps(list, i) = {}}

(* The queues of Kahn's algorithm, as one function of the workloads taken. *)
Queues(list, g) ==
    g = [n \in 0 .. Len(list) |->
           IF n = 0 THEN InIdOrder(Ready(list)) ELSE AfterTaking(list, g[n - 1], n)]

(* The recursion defines the queues: they are built from the empty queue on. *)
LEMMA QueuesExist ==
    ASSUME NEW list, Len(list) \in Nat
    PROVE  \E g : Queues(list, g)
<1> DEFINE N == Len(list)
           first == InIdOrder(Ready(list))
           Longer(q, n) == AfterTaking(list, q, n)
           UpTo(k, g) == /\ g = [n \in 0 .. N |-> g[n]]
                         /\ \A n \in 0 .. k :
                              g[n] = IF n = 0 THEN first ELSE Longer(g[n - 1], n)
           Bad == {k \in 0 .. N : \A g : ~UpTo(k, g)}
<1>1. N \in Nat
  OBVIOUS
<1> HIDE DEF N, first, Longer
<1>2. CASE Bad # {}
  <2> DEFINE m == Min(Bad)
  <2>1. m \in Bad /\ \A k \in Bad : m <= k
    <3>1. Bad \in SUBSET Nat
      BY <1>1
    <3> HIDE DEF Bad
    <3> QED BY <1>2, <3>1, MinInSet
  <2>2. m \in 0 .. N /\ \A g : ~UpTo(m, g)
    <3> HIDE DEF m
    <3> QED BY <2>1
  <2> HIDE DEF m
  <2>3. CASE m = 0
    <3> DEFINE g == [n \in 0 .. N |-> first]
    <3>1. UpTo(0, g)
      BY <1>1
    <3> QED BY <2>2, <2>3, <3>1
  <2>4. CASE m # 0
    <3>1. m - 1 \in 0 .. N /\ m - 1 \notin Bad
      BY <1>1, <2>1, <2>2, <2>4
    <3>2. PICK g : UpTo(m - 1, g)
      BY <3>1
    <3> DEFINE h == [g EXCEPT ![m] = Longer(g[m - 1], m)]
    <3>3. UpTo(m, h)
      <4>1. h = [n \in 0 .. N |-> h[n]]
        BY <3>2
      <4>2. \A n \in 0 .. N : h[n] = IF n = m THEN Longer(g[m - 1], m) ELSE g[n]
        BY <2>2, <3>2
      <4>3. ASSUME NEW n \in 0 .. m
            PROVE  h[n] = IF n = 0 THEN first ELSE Longer(h[n - 1], n)
        <5>1. CASE n = m
          <6>1. h[n] = Longer(g[n - 1], n) /\ h[n - 1] = g[n - 1]
            BY <2>2, <2>4, <3>1, <4>2, <5>1
          <6> QED BY <2>4, <5>1, <6>1
        <5>2. CASE n # m
          <6>1. n \in 0 .. m - 1 /\ h[n] = g[n]
            BY <1>1, <2>2, <4>2, <5>2
          <6>2. n # 0 => h[n - 1] = g[n - 1]
            BY <1>1, <2>2, <4>2, <5>2
          <6>3. g[n] = IF n = 0 THEN first ELSE Longer(g[n - 1], n)
            BY <3>2, <6>1
          <6> QED BY <6>1, <6>2, <6>3
        <5> QED BY <5>1, <5>2
      <4> QED BY <4>1, <4>3
    <3> QED BY <2>2, <3>3
  <2> QED BY <2>3, <2>4
<1>3. CASE Bad = {}
  <2>1. N \in 0 .. N
    BY <1>1
  <2>2. PICK g : UpTo(N, g)
    BY <1>3, <2>1
  <2>3. Queues(list, g)
    BY <2>2 DEF Queues, N, first, Longer
  <2> QED BY <2>3
<1> QED BY <1>2, <1>3

(* KahnQueue is the last of them. *)
LEMMA KahnQueueIsLast ==
    ASSUME NEW list, Len(list) \in Nat
    PROVE  \E g : Queues(list, g) /\ KahnQueue(list) = g[Len(list)]
<1> DEFINE g == CHOOSE g : Queues(list, g)
<1>1. Queues(list, g)
  BY QueuesExist
<1>2. KahnQueue(list) = g[Len(list)]
  BY DEF KahnQueue, Queues, Ready
<1> QED BY <1>1, <1>2

(* The first n workloads of the queue are taken.  Those in it are all whose
   dependencies are, each once, and each after its dependencies. *)
Taken(q, n) == {q[k] : k \in (1 .. n) \cap DOMAIN q}

(* The queue when n workloads are taken from it: every workload is in it once,
   it has those whose dependencies are all among the taken ones, and each
   dependency of one of them is before it. *)
KahnInv(list, q, n) ==
    /\ q \in Seq(DOMAIN list)
    /\ \A j, k \in DOMAIN q : q[j] = q[k] => j = k
    /\ \A i \in DOMAIN list : i \in Taken(q, Len(q)) <=> Deps(list, i) \subseteq Taken(q, n)
    /\ \A j \in DOMAIN q : \A d \in Deps(list, q[j]) :
          \E k \in DOMAIN q : k < j /\ q[k] = d

(* The queue starts with the workloads that have no dependency. *)
LEMMA InitialQueue ==
    ASSUME NEW T, NEW list \in Seq(T)
    PROVE  KahnInv(list, InIdOrder(Ready(list)), 0)
<1> DEFINE S == Ready(list)
           q == InIdOrder(S)
<1>1. S \in SUBSET Nat /\ IsFiniteSet(S) /\ S \subseteq DOMAIN list
  <2>1. S \subseteq DOMAIN list /\ DOMAIN list = 1 .. Len(list) /\ Len(list) \in Nat
    BY DEF Ready
  <2> HIDE DEF S
  <2>2. IsFiniteSet(1 .. Len(list)) /\ S \in SUBSET Nat
    BY <2>1, FS_Interval
  <2> QED BY <2>1, <2>2, FS_Subset
<1> HIDE DEF S
<1>2. /\ q \in Seq(S) /\ Len(q) \in Nat /\ DOMAIN q = 1 .. Len(q)
      /\ \A j \in DOMAIN q : q[j] \in S
      /\ \A x \in S : \E n \in DOMAIN q : q[n] = x
      /\ \A j, k \in DOMAIN q : q[j] = q[k] => j = k
  BY <1>1, InIdOrderLists
<1> HIDE DEF q
<1>3. q \in Seq(DOMAIN list) /\ \A j \in DOMAIN q : q[j] \in S
  BY <1>1, <1>2, SeqMonotonic
<1>4. Taken(q, 0) = {} /\ Taken(q, Len(q)) = S
  BY <1>2, <1>3 DEF Taken
<1>5. \A i \in DOMAIN list : i \in S <=> Deps(list, i) \subseteq {}
  BY DEF S, Ready
<1>6. \A j \in DOMAIN q : Deps(list, q[j]) = {}
  BY <1>3 DEF S, Ready
<1> QED BY <1>2, <1>3, <1>4, <1>5, <1>6 DEF KahnInv, q, S

(* Taking the next workload keeps it so. *)
LEMMA KahnStep ==
    ASSUME NEW T, NEW list \in Seq(T), NEW q, NEW n \in Nat \ {0},
           KahnInv(list, q, n - 1)
    PROVE  KahnInv(list, AfterTaking(list, q, n), n)
<1>1. q \in Seq(DOMAIN list) /\ Len(q) \in Nat /\ DOMAIN q = 1 .. Len(q)
  BY DEF KahnInv
<1>2. CASE n > Len(q)
  <2>1. Taken(q, n) = Taken(q, n - 1)
    BY <1>1, <1>2 DEF Taken
  <2> QED BY <1>2, <2>1 DEF KahnInv, AfterTaking
<1>3. CASE n <= Len(q)
  <2> DEFINE S == LastWaitFor(list, q, n)
             new == InIdOrder(S)
             r == q \o new
  <2>1. AfterTaking(list, q, n) = r
    <3>1. ~ (n > Len(q))
      BY <1>1, <1>3
    <3> QED BY <3>1 DEF AfterTaking
  <2>2. {q[k] : k \in 1 .. n} = Taken(q, n) /\ n \in DOMAIN q
    <3>1. 1 .. n = (1 .. n) \cap DOMAIN q /\ n \in DOMAIN q
      BY <1>1, <1>3
    <3> QED BY <3>1 DEF Taken
  <2>3. \A i : i \in S <=> /\ i \in DOMAIN list /\ q[n] \in Deps(list, i)
                           /\ Deps(list, i) \subseteq Taken(q, n)
    BY <2>2 DEF LastWaitFor
  <2>4. S \in SUBSET Nat /\ IsFiniteSet(S) /\ S \subseteq DOMAIN list
    <3>1. S \subseteq DOMAIN list /\ DOMAIN list = 1 .. Len(list) /\ Len(list) \in Nat
      BY <2>3
    <3> HIDE DEF S
    <3>2. IsFiniteSet(1 .. Len(list)) /\ S \in SUBSET Nat
      BY <3>1, FS_Interval
    <3> QED BY <3>1, <3>2, FS_Subset
  <2> HIDE DEF S
  <2>5. /\ new \in Seq(S) /\ Len(new) \in Nat /\ DOMAIN new = 1 .. Len(new)
        /\ \A j \in DOMAIN new : new[j] \in S
        /\ \A x \in S : \E k \in DOMAIN new : new[k] = x
        /\ \A j, k \in DOMAIN new : new[j] = new[k] => j = k
    BY <2>4, InIdOrderLists
  <2> HIDE DEF new
  <2>6. /\ r \in Seq(DOMAIN list) /\ Len(r) = Len(q) + Len(new)
        /\ DOMAIN r = 1 .. Len(q) + Len(new)
        /\ \A k \in DOMAIN q : r[k] = q[k]
        /\ \A k \in DOMAIN new : r[Len(q) + k] = new[k]
    <3>1. new \in Seq(DOMAIN list)
      BY <2>4, <2>5, SeqMonotonic
    <3>2. /\ r \in Seq(DOMAIN list) /\ Len(r) = Len(q) + Len(new)
          /\ \A k \in 1 .. Len(q) + Len(new) :
                r[k] = IF k <= Len(q) THEN q[k] ELSE new[k - Len(q)]
      BY <1>1, <3>1, ConcatProperties
    <3> HIDE DEF r
    <3>3. DOMAIN r = 1 .. Len(q) + Len(new)
      BY <3>2, LenProperties
    <3>4. ASSUME NEW k \in DOMAIN new PROVE r[Len(q) + k] = new[k]
      <4>1. /\ Len(q) + k \in 1 .. Len(q) + Len(new) /\ ~ (Len(q) + k <= Len(q))
            /\ (Len(q) + k) - Len(q) = k
        BY <1>1, <2>5
      <4> QED BY <3>2, <4>1
    <3>5. ASSUME NEW k \in DOMAIN q PROVE r[k] = q[k]
      BY <1>1, <2>5, <3>2
    <3> QED BY <3>2, <3>3, <3>4, <3>5
  <2> HIDE DEF r
  <2>7. 1 .. n \subseteq DOMAIN q /\ DOMAIN q \subseteq DOMAIN r
    <3>1. DOMAIN q = 1 .. Len(q) /\ DOMAIN r = 1 .. Len(q) + Len(new)
          /\ Len(q) \in Nat /\ Len(new) \in Nat
      BY <1>1, <2>5, <2>6
    <3>2. 1 .. n \subseteq 1 .. Len(q)
      BY <1>3, <3>1
    <3>3. 1 .. Len(q) \subseteq 1 .. Len(q) + Len(new)
      BY <3>1
    <3> QED BY <3>1, <3>2, <3>3
  <2>8. \A j \in DOMAIN r : \/ j \in DOMAIN q /\ r[j] = q[j]
                            \/ j > Len(q) /\ r[j] \in S /\ j - Len(q) \in DOMAIN new
                                 /\ r[j] = new[j - Len(q)]
    <3> TAKE j \in DOMAIN r
    <3>1. CASE j <= Len(q)
      BY <1>1, <2>5, <2>6, <3>1
    <3>2. CASE j > Len(q)
      <4> DEFINE k == j - Len(q)
      <4>1. k \in DOMAIN new /\ j = Len(q) + k
        BY <1>1, <2>5, <2>6, <3>2
      <4> HIDE DEF k
      <4>2. r[j] = new[k] /\ new[k] \in S
        BY <2>5, <2>6, <4>1
      <4> QED BY <3>2, <4>1, <4>2 DEF k
    <3> QED BY <1>1, <2>5, <2>6, <3>1, <3>2
  <2>9. /\ Taken(q, n) = Taken(q, n - 1) \cup {q[n]}
        /\ q[n] \notin Taken(q, n - 1)
    <3>1. /\ 1 .. n = (1 .. n - 1) \cup {n} /\ n \notin 1 .. n - 1
          /\ 1 .. n \subseteq DOMAIN q
      BY <1>1, <1>3
    <3>2. \A k \in 1 .. n - 1 : q[k] # q[n]
      BY <3>1 DEF KahnInv
    <3> QED BY <2>2, <3>1, <3>2 DEF Taken
  <2>10. Taken(r, n) = Taken(q, n) /\ Taken(r, Len(r)) = Taken(q, Len(q)) \cup S
    <3>1. Taken(r, n) = Taken(q, n)
      <4>1. \A k \in 1 .. n : k \in DOMAIN q /\ k \in DOMAIN r /\ r[k] = q[k]
        BY <2>6, <2>7
      <4> QED BY <4>1 DEF Taken
    <3>2. \A x : x \in Taken(q, Len(q)) <=> \E k \in DOMAIN q : x = q[k]
      BY <1>1 DEF Taken
    <3>3. \A x : x \in Taken(r, Len(r)) <=> \E k \in DOMAIN r : x = r[k]
      BY <2>6 DEF Taken
    <3>4. \A x \in S : \E k \in DOMAIN r : x = r[k]
      <4> TAKE x \in S
      <4>1. PICK k \in DOMAIN new : new[k] = x
        BY <2>5
      <4>2. Len(q) + k \in DOMAIN r
        <5>1. k \in Nat \ {0} /\ k <= Len(new) /\ Len(new) \in Nat
          BY <2>5
        <5>2. Len(q) + k \in 1 .. Len(q) + Len(new)
          BY <1>1, <5>1
        <5> QED BY <2>6, <5>2
      <4>3. r[Len(q) + k] = x
        BY <2>6, <4>1
      <4> QED BY <4>2, <4>3
    <3>5. \A x \in Taken(r, Len(r)) : x \in Taken(q, Len(q)) \cup S
      BY <2>8, <3>2, <3>3
    <3>6. \A x \in Taken(q, Len(q)) : x \in Taken(r, Len(r))
      BY <2>6, <2>7, <3>2, <3>3
    <3> QED BY <3>1, <3>3, <3>4, <3>5, <3>6
  <2>11. \A j \in DOMAIN q : q[j] \notin S
    <3> TAKE j \in DOMAIN q
    <3>1. q[j] \in DOMAIN list /\ q[j] \in Taken(q, Len(q))
      BY <1>1, ElementOfSeq DEF Taken
    <3>2. Deps(list, q[j]) \subseteq Taken(q, n - 1)
      BY <3>1 DEF KahnInv
    <3> QED BY <2>3, <2>9, <3>2
  <2>12. \A j, k \in DOMAIN r : r[j] = r[k] => j = k
    <3> TAKE j, k \in DOMAIN r
    <3> HAVE r[j] = r[k]
    <3>1. CASE r[j] \in S
      <4>1. /\ j - Len(q) \in DOMAIN new /\ k - Len(q) \in DOMAIN new
            /\ new[j - Len(q)] = new[k - Len(q)]
        BY <2>8, <2>11, <3>1
      <4>2. j - Len(q) = k - Len(q)
        BY <2>5, <4>1
      <4> QED BY <1>1, <2>5, <2>6, <4>2
    <3>2. CASE r[j] \notin S
      <4>1. j \in DOMAIN q /\ k \in DOMAIN q /\ q[j] = q[k]
        BY <2>8, <3>2
      <4> QED BY <4>1 DEF KahnInv
    <3> QED BY <3>1, <3>2
  <2>13. \A i \in DOMAIN list : i \in Taken(r, Len(r)) <=> Deps(list, i) \subseteq Taken(r, n)
    <3> TAKE i \in DOMAIN list
    <3>1. i \in Taken(q, Len(q)) <=> Deps(list, i) \subseteq Taken(q, n - 1)
      BY DEF KahnInv
    <3>2. i \in S <=> q[n] \in Deps(list, i) /\ Deps(list, i) \subseteq Taken(q, n)
      BY <2>3
    <3> QED BY <2>9, <2>10, <3>1, <3>2
  <2>14. \A j \in DOMAIN r : \A d \in Deps(list, r[j]) :
            \E k \in DOMAIN r : k < j /\ r[k] = d
    <3> TAKE j \in DOMAIN r
    <3> TAKE d \in Deps(list, r[j])
    <3>1. CASE j \in DOMAIN q /\ r[j] = q[j]
      <4>1. PICK k \in DOMAIN q : k < j /\ q[k] = d
        BY <3>1 DEF KahnInv
      <4> QED BY <2>6, <2>7, <4>1
    <3>2. CASE j > Len(q) /\ r[j] \in S
      <4>1. PICK k \in 1 .. n : q[k] = d
        BY <2>2, <2>3, <3>2
      <4>2. k \in DOMAIN q
        BY <2>7
      <4>3. k < j
        <5>1. j \in Nat /\ k \in Nat /\ k <= n
          BY <1>1, <2>5, <2>6
        <5> QED BY <1>1, <1>3, <3>2, <5>1
      <4> QED BY <4>3, <2>6, <2>7, <4>1, <4>2
    <3> QED BY <2>8, <3>1, <3>2
  <2> QED BY <2>1, <2>6, <2>12, <2>13, <2>14 DEF KahnInv
<1> QED BY <1>1, <1>2, <1>3

(* So it is when the algorithm ends. *)
LEMMA KahnQueueInv ==
    ASSUME NEW T, NEW list \in Seq(T)
    PROVE  KahnInv(list, KahnQueue(list), Len(list))
<1> DEFINE N == Len(list)
<1>1. N \in Nat
  OBVIOUS
<1>2. PICK g : Queues(list, g) /\ KahnQueue(list) = g[N]
  BY <1>1, KahnQueueIsLast
<1>3. \A n \in 0 .. N :
        g[n] = IF n = 0 THEN InIdOrder(Ready(list)) ELSE AfterTaking(list, g[n - 1], n)
  BY <1>2 DEF Queues
<1> DEFINE Bad == {n \in 0 .. N : ~KahnInv(list, g[n], n)}
<1>4. CASE Bad # {}
  <2> DEFINE m == Min(Bad)
  <2>1. m \in Bad /\ \A n \in Bad : m <= n
    <3>1. Bad \in SUBSET Nat
      BY <1>1
    <3> HIDE DEF Bad
    <3> QED BY <1>4, <3>1, MinInSet
  <2>2. m \in 0 .. N /\ ~KahnInv(list, g[m], m)
    <3> HIDE DEF m
    <3> QED BY <2>1
  <2> HIDE DEF m, N
  <2>3. CASE m = 0
    BY <1>3, <2>2, <2>3, InitialQueue
  <2>4. CASE m # 0
    <3>1. m \in Nat \ {0} /\ m - 1 \in 0 .. N /\ ~ (m <= m - 1)
      BY <1>1, <2>2, <2>4
    <3>2. KahnInv(list, g[m - 1], m - 1)
      BY <2>1, <3>1
    <3>3. g[m] = AfterTaking(list, g[m - 1], m)
      BY <1>3, <2>2, <2>4
    <3> QED BY <2>2, <3>1, <3>2, <3>3, KahnStep
  <2> QED BY <2>3, <2>4
<1>5. CASE Bad = {}
  <2>1. N \in 0 .. N
    BY <1>1
  <2> HIDE DEF N
  <2> QED BY <1>2, <1>5, <2>1 DEF N
<1> QED BY <1>4, <1>5

-----------------------------------------------------------------------------
(* A list in which no transfer is output twice. *)
OutputsOnce(list) ==
    \A i, j \in DOMAIN list :
        OutputTids(list[i]) \cap OutputTids(list[j]) # {} => i = j

(* The dependencies of a workload are on workloads of its list it reads from,
   and when no transfer is output twice on all of these. *)
LEMMA DepsAreReads ==
    ASSUME NEW T, NEW list \in Seq(T), NEW i \in DOMAIN list
    PROVE  /\ \A j \in Deps(list, i) : j \in DOMAIN list /\ DependsOn(list, i, j)
           /\ OutputsOnce(list) =>
                \A j \in DOMAIN list : DependsOn(list, i, j) => j \in Deps(list, i)
<1>1. DOMAIN list = 1 .. Len(list) /\ Len(list) \in Nat
  OBVIOUS
<1>2. ASSUME NEW t, Producers(list, t) # {}
      PROVE  Max(Producers(list, t)) \in Producers(list, t)
  <2> DEFINE P == Producers(list, t)
  <2>1. P \in SUBSET (0 .. Len(list))
    BY <1>1 DEF Producers
  <2> HIDE DEF P
  <2>2. \E s \in P : \A u \in P : s >= u
    BY <1>1, <1>2, <2>1, LargestOfBounded DEF P
  <2> QED BY <2>2 DEF Max, P
<1>3. \A j, t : j \in Producers(list, t) /\ t \in LocalTids(list[i]) /\ j # i
                  => j \in DOMAIN list /\ DependsOn(list, i, j)
  BY DEF Producers, LocalTids, OutputTids, DependsOn
<1>4. ASSUME NEW j \in Deps(list, i)
      PROVE  j \in DOMAIN list /\ DependsOn(list, i, j)
  <2>1. PICK t \in LocalTids(list[i]) :
          Producers(list, t) # {} /\ j = Max(Producers(list, t)) /\ j # i
    BY DEF Deps
  <2> QED BY <1>2, <1>3, <2>1
<1>5. ASSUME OutputsOnce(list), NEW j \in DOMAIN list, DependsOn(list, i, j)
      PROVE  j \in Deps(list, i)
  <2>1. PICK t \in LocalTids(list[i]) : t \in OutputTids(list[j]) /\ i # j
    BY <1>5 DEF DependsOn, LocalTids, OutputTids
  <2>2. j \in Producers(list, t)
    BY <2>1 DEF Producers
  <2>3. \A k \in Producers(list, t) : k = j
    BY <1>5, <2>1 DEF OutputsOnce, Producers
  <2>4. Max(Producers(list, t)) = j
    BY <1>2, <2>2, <2>3
  <2> QED BY <2>1, <2>2, <2>4 DEF Deps
<1> QED BY <1>4, <1>5

(* The queue of an acyclic list has all of it. *)
LEMMA KahnTakesAll ==
    ASSUME NEW T, NEW list \in Seq(T), Acyclic(list)
    PROVE  /\ Len(KahnQueue(list)) = Len(list)
           /\ \A i \in DOMAIN list : \E k \in DOMAIN list : KahnQueue(list)[k] = i
<1> DEFINE q == KahnQueue(list)
<1>1. KahnInv(list, q, Len(list))
  BY KahnQueueInv
<1> HIDE DEF q
<1>2. /\ q \in Seq(DOMAIN list) /\ Len(q) \in Nat /\ DOMAIN q = 1 .. Len(q)
      /\ q \in [DOMAIN q -> DOMAIN list]
      /\ DOMAIN list = 1 .. Len(list) /\ Len(list) \in Nat
  BY <1>1, LenProperties DEF KahnInv
<1>3. /\ IsFiniteSet(DOMAIN list) /\ Cardinality(DOMAIN list) = Len(list)
      /\ IsFiniteSet(DOMAIN q) /\ Cardinality(DOMAIN q) = Len(q)
  <2>1. \A n \in Nat : IsFiniteSet(1 .. n) /\ Cardinality(1 .. n) = n
    BY FS_Interval
  <2> QED BY <1>2, <2>1
<1>4. q \in Injection(DOMAIN q, DOMAIN list)
  BY <1>1, <1>2 DEF KahnInv, Injection, IsInjective
<1>5. Len(q) <= Len(list)
  BY <1>3, <1>4, FS_Injection
<1>6. Taken(q, Len(list)) = Taken(q, Len(q))
  <2>1. (1 .. Len(list)) \cap DOMAIN q = (1 .. Len(q)) \cap DOMAIN q
    BY <1>2, <1>5
  <2> QED BY <2>1 DEF Taken
<1>7. \A i \in DOMAIN list : i \in Taken(q, Len(q))
  <2> DEFINE S == {i \in DOMAIN list : i \notin Taken(q, Len(q))}
  <2>1. ASSUME S # {} PROVE FALSE
    <3>1. S \in (SUBSET DOMAIN list) \ {{}}
      BY <2>1
    <3>2. PICK i \in S : \A j \in S : ~DependsOn(list, i, j)
      <4> HIDE DEF S
      <4> QED BY <3>1 DEF Acyclic
    <3>3. \A j \in Deps(list, i) : j \in Taken(q, Len(q))
      BY <3>2, DepsAreReads
    <3> QED BY <1>1, <1>6, <3>2, <3>3 DEF KahnInv
  <2> QED BY <2>1
<1>8. \A i \in DOMAIN list : \E k \in DOMAIN q : q[k] = i
  BY <1>7 DEF Taken
<1>9. q \in Surjection(DOMAIN q, DOMAIN list)
  BY <1>2, <1>8 DEF Surjection
<1>10. Len(q) = Len(list)
  BY <1>3, <1>4, <1>9, FS_Injection
<1> QED BY <1>2, <1>8, <1>10 DEF q

(* The sorted list has the workloads of the list, each after those it reads
   from. *)
LEMMA SortedInOrder ==
    ASSUME NEW T, NEW list \in Seq(T), Acyclic(list)
    PROVE  /\ Len(Sorted(list)) = Len(list)
           /\ ToSet(Sorted(list)) = ToSet(list)
           /\ OutputsOnce(list) => Ordered(Sorted(list))
<1> DEFINE q == KahnQueue(list)
<1>1. DOMAIN list = 1 .. Len(list) /\ Len(list) \in Nat
  OBVIOUS
<1>2. CASE Len(list) <= 1
  <2>1. Sorted(list) = list
    BY <1>2 DEF Sorted
  <2>2. \A i, j \in DOMAIN list : i = j
    BY <1>1, <1>2
  <2> QED BY <2>1, <2>2 DEF Ordered, DependsOn
<1>3. CASE Len(list) > 1
  <2>1. /\ Len(q) = Len(list)
        /\ \A i \in DOMAIN list : \E k \in DOMAIN list : q[k] = i
    BY KahnTakesAll
  <2>2. Sorted(list) = [i \in DOMAIN list |-> list[q[i]]]
    <3>1. ~ (Len(list) <= 1)
      BY <1>1, <1>3
    <3> QED BY <2>1, <3>1 DEF Sorted
  <2>3. /\ KahnInv(list, q, Len(list))
        /\ q \in Seq(DOMAIN list)
    BY KahnQueueInv DEF KahnInv
  <2> HIDE DEF q
  <2>4. DOMAIN q = DOMAIN list /\ \A k \in DOMAIN list : q[k] \in DOMAIN list
    BY <1>1, <2>1, <2>3, ElementOfSeq, LenProperties
  <2> DEFINE s == [i \in DOMAIN list |-> list[q[i]]]
  <2>5. Len(s) = Len(list) /\ DOMAIN s = DOMAIN list
    BY <1>1
  <2>6. ToSet(s) = ToSet(list)
    <3>1. \A x \in ToSet(s) : x \in ToSet(list)
      BY <2>4 DEF ToSet
    <3>2. \A x \in ToSet(list) : x \in ToSet(s)
      BY <2>1, <2>4 DEF ToSet
    <3> QED BY <3>1, <3>2
  <2>7. ASSUME OutputsOnce(list) PROVE Ordered(s)
    <3> SUFFICES ASSUME NEW i \in DOMAIN list, NEW j \in DOMAIN list, DependsOn(s, i, j)
                 PROVE  j < i
      BY DEF Ordered
    <3>1. q[i] # q[j]
      <4>1. i # j
        BY DEF DependsOn
      <4> QED BY <2>3, <2>4, <4>1 DEF KahnInv
    <3>2. DependsOn(list, q[i], q[j])
      BY <2>4, <3>1 DEF DependsOn
    <3>3. q[j] \in Deps(list, q[i])
      BY <2>4, <2>7, <3>2, DepsAreReads
    <3>4. PICK k \in DOMAIN q : k < i /\ q[k] = q[j]
      BY <2>3, <2>4, <3>3 DEF KahnInv
    <3>5. k = j
      BY <2>3, <2>4, <3>4 DEF KahnInv
    <3> QED BY <3>4, <3>5
  <2> QED BY <2>2, <2>5, <2>6, <2>7
<1> QED BY <1>1, <1>2, <1>3

-----------------------------------------------------------------------------
(* slice_ir.py: the lists made of the selected workloads.                  *)

(* A position is a core and an index of its list. *)
LEMMA InPositions ==
    ASSUME NEW cores
    PROVE  /\ \A p \in Positions(cores) :
                 /\ p = <<p[1], p[2]>>
                 /\ p[1] \in DOMAIN cores /\ p[2] \in DOMAIN cores[p[1]]
           /\ \A c \in DOMAIN cores : \A i \in DOMAIN cores[c] :
                 <<c, i>> \in Positions(cores)
  BY DEF Positions

(* The last of one workload is that workload. *)
LEMMA OnlyOneIsLast ==
    ASSUME NEW S, NEW p \in S, \A q \in S : q = p
    PROVE  LastOf(S) = p
  BY DEF LastOf

(* Lists that are made of other lists, each workload of one workload with the
   same outputs: no transfer gets a second producer. *)
LEMMA MakersMoved ==
    ASSUME NEW old, NEW new, NEW at,
           \A q \in Positions(new) :
              /\ at[q] \in Positions(old)
              /\ OutTids(new[q[1]][q[2]]) = OutTids(old[at[q][1]][at[q][2]]),
           \A p, q \in Positions(new) : at[p] = at[q] => p = q
    PROVE  \A t : /\ \A q \in MakersIn(new, t) : at[q] \in MakersIn(old, t)
                  /\ \A q \in Positions(new) :
                        at[q] \in MakersIn(old, t) => q \in MakersIn(new, t)
                  /\ (\A p, q \in MakersIn(old, t) : p = q) =>
                        \A p, q \in MakersIn(new, t) : p = q
  BY DEF MakersIn

-----------------------------------------------------------------------------
(* Slicing: the workload at a place of the slice, and where that is in the
   file. *)
Indices(c) == {p[2] : p \in {q \in selected : q[1] = c}}
OldCore(c) == InIdOrder(CoresOf(selected))[c + 1]
OldPlace(q) == <<OldCore(q[1]), InIdOrder(Indices(OldCore(q[1])))[q[2]]>>
NewPlace(p) == <<NewId(p[1]), Rank(Indices(p[1]), p[2]) + 1>>

(* A selection of workloads of a file. *)
Slicing ==
    /\ FileAgrees(setir.cores, file.cores)
    /\ selected \subseteq All

(* The ids and the indices that are numbered anew are finitely many. *)
LEMMA SelectedPlaces ==
    ASSUME Slicing
    PROVE  /\ CoresOf(selected) \in SUBSET Nat
           /\ CoresOf(selected) \subseteq DOMAIN file.cores
           /\ IsFiniteSet(CoresOf(selected))
           /\ Cardinality(CoresOf(selected)) \in Nat
           /\ Cardinality(CoresOf(selected)) <= NumCores
           /\ \A c \in CoresOf(selected) :
                 Indices(c) \in SUBSET Nat /\ IsFiniteSet(Indices(c))
           /\ \A p \in selected :
                 /\ p[1] \in CoresOf(selected) /\ p[2] \in Indices(p[1])
                 /\ p = <<p[1], p[2]>>
           /\ \A c \in CoresOf(selected) : \A i \in Indices(c) :
                 <<c, i>> \in selected
<1>1. \A p \in selected : /\ p = <<p[1], p[2]>> /\ p[1] \in DOMAIN file.cores
                          /\ p[2] \in DOMAIN file.cores[p[1]]
  BY InPositions DEF Slicing, All
<1>2. /\ DOMAIN file.cores \subseteq Nat /\ IsFiniteSet(DOMAIN file.cores)
      /\ Cardinality(DOMAIN file.cores) <= NumCores
      /\ \A c \in DOMAIN file.cores : file.cores[c] \in Seq(FileWorkload)
  BY DEF Slicing, FileAgrees, Lists
<1>3. CoresOf(selected) \subseteq DOMAIN file.cores
  BY <1>1 DEF CoresOf
<1>4. /\ IsFiniteSet(CoresOf(selected)) /\ Cardinality(CoresOf(selected)) \in Nat
      /\ Cardinality(CoresOf(selected)) <= Cardinality(DOMAIN file.cores)
      /\ Cardinality(DOMAIN file.cores) \in Nat
  BY <1>2, <1>3, FS_Subset, FS_CardinalityType
<1>5. ASSUME NEW c \in CoresOf(selected)
      PROVE  Indices(c) \in SUBSET Nat /\ IsFiniteSet(Indices(c))
  <2>1. Indices(c) \subseteq DOMAIN file.cores[c]
    BY <1>1 DEF Indices
  <2>2. c \in DOMAIN file.cores /\ file.cores[c] \in Seq(FileWorkload)
    BY <1>2, <1>3, <1>5
  <2> DEFINE n == Len(file.cores[c])
  <2>3. DOMAIN file.cores[c] = 1 .. n /\ n \in Nat
    BY <2>2
  <2> HIDE DEF n
  <2>4. IsFiniteSet(1 .. n)
    BY <2>3, FS_Interval
  <2>5. Indices(c) \subseteq 1 .. n
    BY <2>1, <2>3
  <2>6. \A i \in 1 .. n : i \in Nat
    BY <2>3
  <2>7. IsFiniteSet(Indices(c))
    BY <2>4, <2>5, FS_Subset
  <2> QED BY <2>5, <2>6, <2>7
<1>6. \A p \in selected : p[1] \in CoresOf(selected) /\ p[2] \in Indices(p[1])
  BY DEF CoresOf, Indices
<1>7. ASSUME NEW c \in CoresOf(selected), NEW i \in Indices(c)
      PROVE  <<c, i>> \in selected
  <2>1. PICK p \in selected : p[1] = c /\ p[2] = i
    BY DEF Indices
  <2> QED BY <1>1, <2>1
<1>8. Cardinality(CoresOf(selected)) <= NumCores
  BY <1>2, <1>4, TaskAssumption
<1> QED BY <1>1, <1>2, <1>3, <1>4, <1>5, <1>6, <1>7, <1>8

(* Every workload of the slice is a selected one, and the other way round. *)
LEMMA SlicedPlaces ==
    ASSUME Slicing
    PROVE  /\ DOMAIN SlicedCores = 0 .. Cardinality(CoresOf(selected)) - 1
           /\ \A c \in DOMAIN SlicedCores :
                 /\ SlicedCores[c] \in Seq({RemappedWorkload(p) : p \in selected})
                 /\ OldCore(c) \in CoresOf(selected) /\ NewId(OldCore(c)) = c
           /\ \A q \in Positions(SlicedCores) :
                 /\ OldPlace(q) \in selected
                 /\ NewId(OldPlace(q)[1]) = q[1]
                 /\ SlicedCores[q[1]][q[2]] = RemappedWorkload(OldPlace(q))
           /\ \A p, q \in Positions(SlicedCores) :
                 OldPlace(p) = OldPlace(q) => p = q
           /\ \A p \in selected : /\ NewPlace(p) \in Positions(SlicedCores)
                                  /\ OldPlace(NewPlace(p)) = p
<1> DEFINE S == CoresOf(selected)
           ids == InIdOrder(S)
           indices(c) == InIdOrder(Indices(c))
           list(c) == [i \in DOMAIN indices(c) |-> RemappedWorkload(<<c, indices(c)[i]>>)]
<1>1. /\ S \in SUBSET Nat /\ IsFiniteSet(S) /\ Cardinality(S) \in Nat
      /\ \A c \in S : Indices(c) \in SUBSET Nat /\ IsFiniteSet(Indices(c))
      /\ \A p \in selected : p[1] \in S /\ p[2] \in Indices(p[1]) /\ p = <<p[1], p[2]>>
      /\ \A c \in S : \A i \in Indices(c) : <<c, i>> \in selected
  BY SelectedPlaces
<1>2. /\ ids \in Seq(S) /\ Len(ids) = Cardinality(S)
      /\ DOMAIN ids = 1 .. Cardinality(S)
      /\ \A x \in S : Rank(S, x) + 1 \in 1 .. Cardinality(S) /\ ids[Rank(S, x) + 1] = x
      /\ \A n \in 1 .. Cardinality(S) : Rank(S, ids[n]) = n - 1
  BY <1>1, InIdOrderSorts
<1>3. SlicedCores = [c \in 0 .. Cardinality(S) - 1 |-> list(ids[c + 1])]
  BY <1>2 DEF SlicedCores, Indices
<1>4. \A x \in S : Rank(S, x) \in Nat
  BY <1>1, RankBounds
<1> HIDE DEF S
<1>5. \A c \in 0 .. Cardinality(S) - 1 :
          /\ OldCore(c) = ids[c + 1] /\ OldCore(c) \in S /\ NewId(OldCore(c)) = c
  <2> SUFFICES ASSUME NEW c \in 0 .. Cardinality(S) - 1
               PROVE  OldCore(c) = ids[c + 1] /\ OldCore(c) \in S /\ NewId(OldCore(c)) = c
    OBVIOUS
  <2>1. c + 1 \in 1 .. Cardinality(S) /\ (c + 1) - 1 = c
    BY <1>1
  <2>2. OldCore(c) = ids[c + 1]
    BY DEF OldCore, S
  <2> HIDE DEF ids
  <2>3. ids[c + 1] \in S
    BY <1>2, <2>1, ElementOfSeq
  <2>4. Rank(S, ids[c + 1]) = c
    BY <1>2, <2>1
  <2> QED BY <2>2, <2>3, <2>4 DEF NewId, S
<1>6. \A c \in S :
        /\ indices(c) \in Seq(Indices(c)) /\ Cardinality(Indices(c)) \in Nat
        /\ DOMAIN indices(c) = 1 .. Cardinality(Indices(c))
        /\ \A i \in Indices(c) : /\ Rank(Indices(c), i) + 1 \in DOMAIN indices(c)
                                 /\ indices(c)[Rank(Indices(c), i) + 1] = i
        /\ \A i \in DOMAIN indices(c) : indices(c)[i] \in Indices(c)
        /\ \A i, j \in DOMAIN indices(c) : indices(c)[i] = indices(c)[j] => i = j
  <2> SUFFICES ASSUME NEW c \in S, NEW T, T = Indices(c), NEW s, s = InIdOrder(T)
        PROVE
        /\ s \in Seq(T) /\ Cardinality(T) \in Nat /\ DOMAIN s = 1 .. Cardinality(T)
        /\ \A i \in T : Rank(T, i) + 1 \in DOMAIN s /\ s[Rank(T, i) + 1] = i
        /\ \A i \in DOMAIN s : s[i] \in T
        /\ \A i, j \in DOMAIN s : s[i] = s[j] => i = j
    OBVIOUS
  <2>1. T \in SUBSET Nat /\ IsFiniteSet(T)
    BY <1>1
  <2>2. /\ s \in Seq(T) /\ Cardinality(T) \in Nat /\ DOMAIN s = 1 .. Cardinality(T)
        /\ \A i \in T : Rank(T, i) + 1 \in 1 .. Cardinality(T) /\ s[Rank(T, i) + 1] = i
        /\ \A i, j \in 1 .. Cardinality(T) : s[i] = s[j] => i = j
    BY <2>1, InIdOrderSorts
  <2>3. \A i \in DOMAIN s : s[i] \in T
    BY <2>2, ElementOfSeq
  <2> QED BY <2>2, <2>3
<1> HIDE DEF ids, indices
<1>7. \A c \in DOMAIN SlicedCores :
         /\ c \in 0 .. Cardinality(S) - 1
         /\ SlicedCores[c] = list(OldCore(c))
         /\ DOMAIN SlicedCores[c] = DOMAIN indices(OldCore(c))
  BY <1>3, <1>5
<1>8. ASSUME NEW q \in Positions(SlicedCores)
      PROVE  /\ q[1] \in DOMAIN SlicedCores /\ q[2] \in DOMAIN indices(OldCore(q[1]))
             /\ q = <<q[1], q[2]>>
             /\ OldPlace(q) = <<OldCore(q[1]), indices(OldCore(q[1]))[q[2]]>>
             /\ OldPlace(q) \in selected
             /\ NewId(OldPlace(q)[1]) = q[1]
             /\ SlicedCores[q[1]][q[2]] = RemappedWorkload(OldPlace(q))
  <2>1. /\ q[1] \in DOMAIN SlicedCores /\ q[2] \in DOMAIN indices(OldCore(q[1]))
        /\ q = <<q[1], q[2]>>
    BY <1>7, InPositions
  <2>2. OldPlace(q) = <<OldCore(q[1]), indices(OldCore(q[1]))[q[2]]>>
    BY DEF OldPlace, indices
  <2>3. OldCore(q[1]) \in S /\ NewId(OldCore(q[1])) = q[1]
    BY <1>5, <1>7, <2>1
  <2>4. indices(OldCore(q[1]))[q[2]] \in Indices(OldCore(q[1]))
    BY <1>6, <2>1, <2>3
  <2>5. OldPlace(q) \in selected
    BY <1>1, <2>2, <2>3, <2>4
  <2>6. SlicedCores[q[1]][q[2]] = RemappedWorkload(OldPlace(q))
    BY <1>7, <2>1, <2>2
  <2> QED BY <2>1, <2>2, <2>3, <2>5, <2>6
<1>9. ASSUME NEW p \in Positions(SlicedCores), NEW q \in Positions(SlicedCores),
             OldPlace(p) = OldPlace(q)
      PROVE  p = q
  <2>1. p[1] = q[1]
    BY <1>8, <1>9
  <2>2. indices(OldCore(p[1]))[p[2]] = indices(OldCore(p[1]))[q[2]]
    BY <1>8, <1>9, <2>1
  <2>3. OldCore(p[1]) \in S
    BY <1>5, <1>7, <1>8
  <2>4. p[2] = q[2]
    BY <1>6, <1>8, <2>1, <2>2, <2>3
  <2> QED BY <1>8, <2>1, <2>4
<1>10. ASSUME NEW p \in selected
       PROVE  NewPlace(p) \in Positions(SlicedCores) /\ OldPlace(NewPlace(p)) = p
  <2> DEFINE c == NewId(p[1])
             i == Rank(Indices(p[1]), p[2]) + 1
  <2>1. p[1] \in S /\ p[2] \in Indices(p[1]) /\ p = <<p[1], p[2]>>
    BY <1>1
  <2>2. c = Rank(S, p[1])
    BY DEF NewId, S
  <2>3. c \in 0 .. Cardinality(S) - 1 /\ ids[c + 1] = p[1]
    <3>1. c \in Nat /\ c + 1 \in 1 .. Cardinality(S) /\ ids[c + 1] = p[1]
      BY <1>2, <1>4, <2>1, <2>2
    <3> HIDE DEF c
    <3> QED BY <1>1, <3>1
  <2> HIDE DEF c
  <2>4. c \in DOMAIN SlicedCores /\ OldCore(c) = p[1]
    BY <1>3, <1>5, <2>3
  <2>5. i \in DOMAIN SlicedCores[c] /\ indices(p[1])[i] = p[2]
    BY <1>6, <1>7, <2>1, <2>4
  <2>6. <<c, i>> \in Positions(SlicedCores)
    BY <2>4, <2>5, InPositions
  <2>7. NewPlace(p) = <<c, i>>
    BY DEF NewPlace, c
  <2>8. OldPlace(<<c, i>>) = <<p[1], p[2]>>
    <3> HIDE DEF i
    <3> QED BY <2>4, <2>5 DEF OldPlace, indices
  <2> QED BY <2>1, <2>6, <2>7, <2>8
<1>11. ASSUME NEW c \in DOMAIN SlicedCores
       PROVE  SlicedCores[c] \in Seq({RemappedWorkload(p) : p \in selected})
  <2> DEFINE n == Cardinality(Indices(OldCore(c)))
  <2>1. OldCore(c) \in S
    BY <1>5, <1>7
  <2>2. n \in Nat /\ DOMAIN SlicedCores[c] = 1 .. n
    BY <1>6, <1>7, <2>1
  <2>3. \A i \in DOMAIN SlicedCores[c] : <<c, i>> \in Positions(SlicedCores)
    BY InPositions
  <2>4. \A i \in 1 .. n : SlicedCores[c][i] \in {RemappedWorkload(p) : p \in selected}
    <3> SUFFICES ASSUME NEW i \in 1 .. n
                 PROVE  SlicedCores[c][i] \in {RemappedWorkload(p) : p \in selected}
      OBVIOUS
    <3> DEFINE q == <<c, i>>
    <3>1. q \in Positions(SlicedCores) /\ q[1] = c /\ q[2] = i
      BY <2>2, <2>3
    <3> HIDE DEF q
    <3>2. OldPlace(q) \in selected /\ SlicedCores[c][i] = RemappedWorkload(OldPlace(q))
      BY <1>8, <3>1
    <3> QED BY <3>2
  <2>5. SlicedCores[c] = [i \in 1 .. n |-> SlicedCores[c][i]]
    BY <1>7, <2>2
  <2> HIDE DEF n
  <2> QED BY <2>2, <2>4, <2>5
<1>12. DOMAIN SlicedCores = 0 .. Cardinality(S) - 1
  BY <1>3
<1> QED BY <1>5, <1>8, <1>9, <1>10, <1>11, <1>12 DEF S

(* The DRAM is no core id. *)
LEMMA EndpointIds ==
    /\ Core \subseteq Nat /\ DRAM = -1 /\ DRAM \notin Nat
    /\ Endpoint \cup Nat = Nat \cup {DRAM}
  BY TaskAssumption DEF Endpoint, Core, DRAM

(* remap_wl counts the selected workloads before one. *)
LEMMA NewIndexIsNat ==
    ASSUME Slicing, NEW p \in selected
    PROVE  NewIndex(p) \in Nat
<1> DEFINE T == {q \in selected : q[1] = p[1] /\ q[2] < p[2]}
<1>1. IsFiniteSet({p[1]}) /\ IsFiniteSet(Indices(p[1]))
  BY SelectedPlaces, FS_Singleton
<1>2. IsFiniteSet({p[1]} \X Indices(p[1]))
  BY <1>1, FS_Product
<1>3. \A q \in T : q = <<q[1], q[2]>> /\ q[1] = p[1] /\ q[2] \in Indices(p[1])
  BY SelectedPlaces
<1>4. T \subseteq {p[1]} \X Indices(p[1])
  <2> HIDE DEF T
  <2> QED BY <1>3
<1>5. IsFiniteSet(T)
  BY <1>2, <1>4, FS_Subset
<1>6. Cardinality(T) \in Nat
  BY <1>5, FS_CardinalityType
<1> QED BY <1>6 DEF NewIndex

(* remap_core_id keeps apart the cores and the DRAM. *)
LEMMA RemappedIds ==
    ASSUME Slicing, NEW id \in Nat \cup {DRAM}
    PROVE  /\ Remapped(id) \in Nat \cup {DRAM}
           /\ Remapped(id) = DRAM <=> id = DRAM
<1>1. CoresOf(selected) \in SUBSET Nat /\ IsFiniteSet(CoresOf(selected))
  BY SelectedPlaces
<1>2. CASE id \in CoresOf(selected)
  <2>1. NewId(id) \in Nat
    BY <1>1, <1>2, RankBounds DEF NewId
  <2> QED BY <1>1, <1>2, <2>1, EndpointIds DEF Remapped
<1>3. CASE id \notin CoresOf(selected)
  BY <1>3 DEF Remapped
<1> QED BY <1>2, <1>3

(* What rewriting a workload leaves: its inputs, outputs and weights. *)
LEMMA RemappedKeeps ==
    ASSUME Slicing, NEW p \in selected
    PROVE  LET w == WorkloadAt(p)
               v == RemappedWorkload(p)
           IN  /\ w \in FileWorkload /\ WorkloadAgrees(setir.cores, file.cores, w)
               /\ v \in FileWorkload
               /\ OutTids(v) = OutTids(w) /\ v.ifmap = w.ifmap /\ v.weight = w.weight
               /\ \A s \in ToSet(v.sources) : \E r \in ToSet(w.sources) :
                    /\ r.tid = s.tid /\ s.from = Remapped(r.from)
                    /\ (r.from = DRAM <=> s.from = DRAM)
               /\ \A t : Origin(v, t) = DRAM <=> Origin(w, t) = DRAM
<1> DEFINE w == WorkloadAt(p)
           v == RemappedWorkload(p)
<1>1. /\ p[1] \in DOMAIN file.cores /\ p[2] \in DOMAIN file.cores[p[1]]
      /\ file.cores[p[1]] \in Seq(FileWorkload)
      /\ \A x \in ToSet(file.cores[p[1]]) : WorkloadAgrees(setir.cores, file.cores, x)
  BY InPositions DEF Slicing, FileAgrees, All
<1>2. w \in FileWorkload /\ WorkloadAgrees(setir.cores, file.cores, w)
  <2>1. w \in ToSet(file.cores[p[1]])
    BY <1>1 DEF WorkloadAt, ToSet
  <2> QED BY <1>1, <2>1, InToSet
<1>3. /\ w.sources \in Seq(FileSource) /\ w.ofmap \in Seq(FileOutput)
      /\ w.ifmap \in Seq(Tid) /\ w.weight \in Seq(Tid) /\ w.layer \in Layer
  BY <1>2 DEF FileWorkload
<1>4. v = [wid |-> NewIndex(p), layer |-> w.layer, ifmap |-> w.ifmap,
           sources |-> [i \in DOMAIN w.sources |-> RemappedSource(w.sources[i])],
           weight |-> w.weight,
           ofmap |-> [k \in DOMAIN w.ofmap |-> RemappedOutput(w.ofmap[k])]]
  <2> DEFINE sources == [i \in DOMAIN w.sources |-> RemappedSource(w.sources[i])]
             ofmap == [k \in DOMAIN w.ofmap |-> RemappedOutput(w.ofmap[k])]
  <2>1. v = [w EXCEPT !.wid = NewIndex(p), !.sources = sources, !.ofmap = ofmap]
    BY DEF RemappedWorkload
  <2> HIDE DEF sources, ofmap, w, v
  <2>2. v = [wid |-> NewIndex(p), layer |-> w.layer, ifmap |-> w.ifmap,
             sources |-> sources, weight |-> w.weight, ofmap |-> ofmap]
    BY <1>2, <2>1 DEF FileWorkload
  <2> QED BY <2>2 DEF sources, ofmap
<1> HIDE DEF w, v
<1>5. \A s \in FileSource :
         /\ RemappedSource(s) \in FileSource /\ RemappedSource(s).tid = s.tid
         /\ RemappedSource(s).from = Remapped(s.from)
         /\ s.from = DRAM <=> RemappedSource(s).from = DRAM
  <2> SUFFICES ASSUME NEW s \in FileSource
               PROVE  /\ RemappedSource(s) \in FileSource /\ RemappedSource(s).tid = s.tid
                      /\ RemappedSource(s).from = Remapped(s.from)
                      /\ s.from = DRAM <=> RemappedSource(s).from = DRAM
    OBVIOUS
  <2>1. s.from \in Nat \cup {DRAM} /\ s.tid \in Tid
    BY EndpointIds DEF FileSource
  <2>2. /\ Remapped(s.from) \in Endpoint \cup Nat
        /\ Remapped(s.from) = DRAM <=> s.from = DRAM
    BY <2>1, RemappedIds, EndpointIds
  <2>3. RemappedSource(s) = [tid |-> s.tid, from |-> Remapped(s.from)]
    BY DEF RemappedSource, FileSource
  <2> QED BY <2>1, <2>2, <2>3 DEF FileSource
<1>6. \A out \in FileOutput : RemappedOutput(out) \in FileOutput /\ RemappedOutput(out).tid = out.tid
  <2> SUFFICES ASSUME NEW out \in FileOutput
               PROVE  RemappedOutput(out) \in FileOutput /\ RemappedOutput(out).tid = out.tid
    OBVIOUS
  <2>1. out.tid \in Tid /\ out.dests \in Seq(FileDest)
    BY DEF FileOutput
  <2>2. \A d \in FileDest : RemappedDest(d) \in FileDest
    <3> SUFFICES ASSUME NEW d \in FileDest PROVE RemappedDest(d) \in FileDest
      OBVIOUS
    <3>1. d.core \in Nat \cup {DRAM} /\ d.wl \in Nat
      BY EndpointIds DEF FileDest
    <3>2. Remapped(d.core) \in Endpoint \cup Nat
      BY <3>1, RemappedIds, EndpointIds
    <3>3. RemappedDest(d) = [core |-> Remapped(d.core), wl |-> d.wl]
      BY DEF RemappedDest, FileDest
    <3> QED BY <3>1, <3>2, <3>3 DEF FileDest
  <2>3. [j \in DOMAIN out.dests |-> RemappedDest(out.dests[j])] \in Seq(FileDest)
    BY <2>1, <2>2
  <2>4. RemappedOutput(out) = [tid |-> out.tid, dests |-> [j \in DOMAIN out.dests |-> RemappedDest(out.dests[j])]]
    BY DEF RemappedOutput, FileOutput
  <2> QED BY <2>1, <2>3, <2>4 DEF FileOutput
<1>7. v \in FileWorkload
  <2>1. [i \in DOMAIN w.sources |-> RemappedSource(w.sources[i])] \in Seq(FileSource)
    <3> DEFINE f == [i \in DOMAIN w.sources |-> RemappedSource(w.sources[i])]
    <3>1. \A i \in DOMAIN w.sources : f[i] \in FileSource
      BY <1>3, <1>5, ElementOfSeq
    <3>2. f = [i \in DOMAIN w.sources |-> f[i]] /\ w.sources \in Seq(FileSource)
      BY <1>3
    <3> HIDE DEF f
    <3>3. f \in Seq(FileSource)
      BY <3>1, <3>2, MappedSeq
    <3> QED BY <3>3 DEF f
  <2>2. [k \in DOMAIN w.ofmap |-> RemappedOutput(w.ofmap[k])] \in Seq(FileOutput)
    <3> DEFINE f == [k \in DOMAIN w.ofmap |-> RemappedOutput(w.ofmap[k])]
    <3>1. \A k \in DOMAIN w.ofmap : f[k] \in FileOutput
      BY <1>3, <1>6, ElementOfSeq
    <3>2. f = [k \in DOMAIN w.ofmap |-> f[k]] /\ w.ofmap \in Seq(FileOutput)
      BY <1>3
    <3> HIDE DEF f
    <3>3. f \in Seq(FileOutput)
      BY <3>1, <3>2, MappedSeq
    <3> QED BY <3>3 DEF f
  <2> QED BY <1>3, <1>4, <2>1, <2>2, NewIndexIsNat DEF FileWorkload
<1>8. OutTids(v) = OutTids(w)
  <2>1. DOMAIN v.ofmap = DOMAIN w.ofmap
    BY <1>4
  <2>2. \A k \in DOMAIN w.ofmap : v.ofmap[k].tid = w.ofmap[k].tid
    BY <1>3, <1>4, <1>6
  <2> QED BY <2>1, <2>2 DEF OutTids
<1>9. /\ DOMAIN v.sources = DOMAIN w.sources
      /\ \A i \in DOMAIN w.sources :
           /\ v.sources[i].tid = w.sources[i].tid
           /\ v.sources[i].from = Remapped(w.sources[i].from)
           /\ w.sources[i].from = DRAM <=> v.sources[i].from = DRAM
  BY <1>3, <1>4, <1>5
<1>10. \A s \in ToSet(v.sources) : \E r \in ToSet(w.sources) :
          /\ r.tid = s.tid /\ s.from = Remapped(r.from)
          /\ (r.from = DRAM <=> s.from = DRAM)
  BY <1>9 DEF ToSet
<1>11. ASSUME NEW t PROVE Origin(v, t) = DRAM <=> Origin(w, t) = DRAM
  <2> DEFINE K == {i \in DOMAIN w.sources : w.sources[i].tid = t}
  <2>1. {i \in DOMAIN v.sources : v.sources[i].tid = t} = K
    BY <1>9
  <2>2. K # {} => Min(K) \in DOMAIN w.sources
    <3>1. K \in SUBSET Nat
      BY <1>3
    <3>2. K # {} => Min(K) \in K
      <4> HIDE DEF K
      <4> QED BY <3>1, MinInSet
    <3> QED BY <3>2
  <2> HIDE DEF K
  <2>3. /\ Origin(v, t) = IF K = {} THEN DRAM ELSE v.sources[Min(K)].from
        /\ Origin(w, t) = IF K = {} THEN DRAM ELSE w.sources[Min(K)].from
    BY <2>1 DEF Origin, K
  <2> QED BY <1>9, <2>2, <2>3
<1>12. v.ifmap = w.ifmap /\ v.weight = w.weight
  BY <1>4
<1> QED BY <1>2, <1>7, <1>8, <1>10, <1>11, <1>12 DEF w, v

(* Everything the workloads of a closed selection read from is selected, so
   the slice agrees as the file did. *)
LEMMA SliceAgrees ==
    ASSUME Slicing, Closed(selected)
    PROVE  FileAgrees(setir.cores, SlicedCores)
<1> DEFINE new == SlicedCores
           old == file.cores
<1>1. /\ \A q \in Positions(new) :
            /\ OldPlace(q) \in selected
            /\ NewId(OldPlace(q)[1]) = q[1]
            /\ new[q[1]][q[2]] = RemappedWorkload(OldPlace(q))
      /\ \A p, q \in Positions(new) : OldPlace(p) = OldPlace(q) => p = q
      /\ \A p \in selected : NewPlace(p) \in Positions(new) /\ OldPlace(NewPlace(p)) = p
      /\ DOMAIN new = 0 .. Cardinality(CoresOf(selected)) - 1
      /\ \A c \in DOMAIN new : new[c] \in Seq({RemappedWorkload(p) : p \in selected})
  BY SlicedPlaces
<1>2. \A p \in selected : /\ p \in Positions(old) /\ WorkloadAt(p) = old[p[1]][p[2]]
                          /\ OutTids(RemappedWorkload(p)) = OutTids(WorkloadAt(p))
  BY RemappedKeeps DEF Slicing, All, WorkloadAt
<1>3. /\ \A t \in Tid : \A p, q \in MakersIn(old, t) : p = q
      /\ \A t : Making(t) = MakersIn(old, t)
  BY DEF Slicing, FileAgrees, Lists, Making, MakersIn, All, WorkloadAt
<1> DEFINE at == [q \in Positions(new) |-> OldPlace(q)]
<1>4. \A t : /\ \A q \in MakersIn(new, t) : at[q] \in MakersIn(old, t)
             /\ \A q \in Positions(new) :
                   at[q] \in MakersIn(old, t) => q \in MakersIn(new, t)
             /\ (\A p, q \in MakersIn(old, t) : p = q) =>
                   \A p, q \in MakersIn(new, t) : p = q
  <2>1. \A q \in Positions(new) :
           /\ at[q] \in Positions(old)
           /\ OutTids(new[q[1]][q[2]]) = OutTids(old[at[q][1]][at[q][2]])
    BY <1>1, <1>2
  <2>2. \A p, q \in Positions(new) : at[p] = at[q] => p = q
    BY <1>1
  <2> HIDE DEF at, new, old
  <2> QED BY <2>1, <2>2, MakersMoved
<1> HIDE DEF new
<1>5. Lists(new)
  <2> DEFINE n == Cardinality(CoresOf(selected))
  <2>1. n \in Nat /\ n <= NumCores /\ DOMAIN new = 0 .. n - 1
    BY <1>1, SelectedPlaces
  <2> HIDE DEF n
  <2>2. IsFiniteSet(0 .. n - 1) /\ Cardinality(0 .. n - 1) = n /\ 0 .. n - 1 \subseteq Nat
    <3>1. n - 1 \in Int /\ (n - 1) - 0 + 1 = n
      BY <2>1
    <3>2. IsFiniteSet(0 .. n - 1)
      BY <3>1, FS_Interval
    <3>3. Cardinality(0 .. n - 1) = IF 0 > n - 1 THEN 0 ELSE (n - 1) - 0 + 1
      BY <3>1, FS_Interval
    <3> QED BY <2>1, <3>2, <3>3
  <2>3. \A t \in Tid : \A p, q \in MakersIn(new, t) : p = q
    BY <1>3, <1>4
  <2> QED BY <2>1, <2>2, <2>3 DEF Lists
<1>6. ASSUME NEW p \in selected
      PROVE  /\ RemappedWorkload(p) \in FileWorkload
             /\ WorkloadAgrees(setir.cores, new, RemappedWorkload(p))
  <2> DEFINE w == WorkloadAt(p)
             v == RemappedWorkload(p)
  <2>1. /\ w \in FileWorkload /\ WorkloadAgrees(setir.cores, old, w)
        /\ v \in FileWorkload /\ v.ifmap = w.ifmap /\ v.weight = w.weight
        /\ \A s \in ToSet(v.sources) : \E r \in ToSet(w.sources) :
                    /\ r.tid = s.tid /\ s.from = Remapped(r.from)
                    /\ (r.from = DRAM <=> s.from = DRAM)
        /\ \A t : Origin(v, t) = DRAM <=> Origin(w, t) = DRAM
    BY RemappedKeeps
  <2> HIDE DEF v
  <2>2. ASSUME NEW s \in ToSet(v.sources), s.from # DRAM
        PROVE  \E q \in MakersIn(new, s.tid) : q[1] = s.from
    <3>1. PICK r \in ToSet(w.sources) :
            r.tid = s.tid /\ s.from = Remapped(r.from) /\ r.from # DRAM
      BY <2>1, <2>2
    <3>2. PICK q \in MakersIn(old, r.tid) : q[1] = r.from
      BY <2>1, <3>1 DEF WorkloadAgrees
    <3>3. r.tid \in Tid
      <4>1. w.sources \in Seq(FileSource)
        BY <2>1 DEF FileWorkload
      <4>2. r \in FileSource
        BY <3>1, <4>1, InToSet
      <4> QED BY <4>2 DEF FileSource
    <3>4. q \in selected
      <4>1. Making(r.tid) = MakersIn(old, r.tid) /\ LastOf(Making(r.tid)) = q
        BY <1>3, <3>2, <3>3, OnlyOneIsLast
      <4>2. r.tid \in Consumed(p)
        BY <3>1 DEF Consumed
      <4>3. q \in Predecessors(p)
        BY <3>2, <4>1, <4>2 DEF Predecessors
      <4> QED BY <4>3 DEF Closed
    <3>5. /\ NewPlace(q) \in Positions(new) /\ OldPlace(NewPlace(q)) = q
          /\ NewPlace(q)[1] = NewId(q[1])
      BY <1>1, <3>4 DEF new, NewPlace
    <3>6. NewPlace(q) \in MakersIn(new, r.tid)
      BY <1>4, <3>2, <3>5
    <3>7. s.from = NewId(q[1])
      BY <3>1, <3>2, <3>4, SelectedPlaces DEF Remapped
    <3> QED BY <3>1, <3>5, <3>6, <3>7
  <2>3. \A t \in ToSet(v.ifmap) : Origin(v, t) = DRAM => MakersIn(setir.cores, t) = {}
    BY <2>1 DEF WorkloadAgrees
  <2>4. \A t \in ToSet(v.weight) : MakersIn(setir.cores, t) = {}
    BY <2>1 DEF WorkloadAgrees
  <2> QED BY <2>1, <2>2, <2>3, <2>4 DEF WorkloadAgrees, v
<1>7. ASSUME NEW c \in DOMAIN new
      PROVE  /\ new[c] \in Seq(FileWorkload)
             /\ \A x \in ToSet(new[c]) : WorkloadAgrees(setir.cores, new, x)
  <2> DEFINE R == {RemappedWorkload(p) : p \in selected}
  <2>1. R \subseteq FileWorkload /\ \A x \in R : WorkloadAgrees(setir.cores, new, x)
    BY <1>6
  <2>2. new[c] \in Seq(R)
    BY <1>1 DEF new
  <2> HIDE DEF R
  <2>3. new[c] \in Seq(FileWorkload) /\ ToSet(new[c]) \subseteq R
    BY <2>1, <2>2, SeqMonotonic, InToSet
  <2> QED BY <2>1, <2>3
<1> QED BY <1>5, <1>7 DEF FileAgrees, new

-----------------------------------------------------------------------------
(* setir_to_gemini_ir.py: the lists and entries made of SET-IR's.          *)

(* The last of some workloads of one core is one of them. *)
LEMMA LastAtCore ==
    ASSUME NEW n \in Nat, NEW c, NEW S \in SUBSET ({c} \X (1 .. n)), S # {}
    PROVE  LastOf(S) \in S
<1> DEFINE I == {p[2] : p \in S}
<1>1. \A p \in S : p = <<c, p[2]>> /\ p[1] = c /\ p[2] \in 1 .. n
  OBVIOUS
<1>2. I \in SUBSET (0 .. n) /\ I # {}
  <2>1. \A p \in S : p[2] \in 0 .. n
    BY <1>1
  <2> QED BY <2>1
<1>3. PICK i \in I : \A j \in I : i >= j
  <2> HIDE DEF I
  <2> QED BY <1>2, LargestOfBounded
<1>4. PICK p \in S : p[2] = i
  OBVIOUS
<1>5. \A q \in S : q = p \/ Before(q, p)
  <2> SUFFICES ASSUME NEW q \in S PROVE q = p \/ Before(q, p)
    OBVIOUS
  <2>1. q[2] \in 1 .. n /\ p[2] \in 1 .. n /\ p[2] >= q[2]
    BY <1>1, <1>3, <1>4
  <2>2. q[2] = p[2] \/ q[2] < p[2]
    BY <2>1
  <2>3. q = <<c, q[2]>> /\ p = <<c, p[2]>> /\ q[1] = p[1]
    BY <1>1
  <2> QED BY <2>2, <2>3 DEF Before
<1> QED BY <1>5 DEF LastOf

SetWorkloadAt(p) == setir.cores[p[1]][p[2]]

(* The lists of SET-IR and the new ids of their cores. *)
LEMMA SetIRFacts ==
    ASSUME SetIRAgrees(setir)
    PROVE  /\ Cores \in SUBSET Nat /\ IsFiniteSet(Cores)
           /\ Cardinality(Cores) \in Nat /\ Cardinality(Cores) <= NumCores
           /\ \A id \in Cores : NewCore(id) \in 0 .. Cardinality(Cores) - 1
           /\ NewCore(DRAM) = DRAM
           /\ \A c \in Cores : /\ setir.cores[c] \in Seq(SetWorkload)
                               /\ DOMAIN setir.cores[c] = 1 .. Len(setir.cores[c])
                               /\ Len(setir.cores[c]) \in Nat
           /\ \A c \in Cores : \A i \in DOMAIN setir.cores[c] :
                 /\ setir.cores[c][i] \in SetWorkload
                 /\ SetWorkloadAgrees(setir, setir.cores[c][i])
<1>1. Cores \in SUBSET Nat /\ IsFiniteSet(Cores) /\ Cardinality(Cores) <= NumCores
  BY DEF SetIRAgrees, Lists, Cores
<1>2. Cardinality(Cores) \in Nat
  BY <1>1, FS_CardinalityType
<1>3. \A id \in Cores : NewCore(id) \in 0 .. Cardinality(Cores) - 1
  <2> SUFFICES ASSUME NEW id \in Cores PROVE NewCore(id) \in 0 .. Cardinality(Cores) - 1
    OBVIOUS
  <2>1. Rank(Cores, id) \in Nat /\ Rank(Cores, id) < Cardinality(Cores)
    BY <1>1, RankBounds
  <2>2. NewCore(id) = Rank(Cores, id)
    BY DEF NewCore
  <2> HIDE DEF Cores
  <2> QED BY <1>2, <2>1, <2>2
<1>4. NewCore(DRAM) = DRAM
  BY <1>1, EndpointIds DEF NewCore
<1>5. ASSUME NEW c \in Cores
      PROVE  /\ setir.cores[c] \in Seq(SetWorkload)
             /\ DOMAIN setir.cores[c] = 1 .. Len(setir.cores[c])
             /\ Len(setir.cores[c]) \in Nat
             /\ \A i \in DOMAIN setir.cores[c] :
                 /\ setir.cores[c][i] \in SetWorkload
                 /\ SetWorkloadAgrees(setir, setir.cores[c][i])
  <2>1. /\ setir.cores[c] \in Seq(SetWorkload)
        /\ \A w \in ToSet(setir.cores[c]) : SetWorkloadAgrees(setir, w)
    BY <1>5 DEF SetIRAgrees, Cores
  <2> DEFINE s == setir.cores[c]
  <2>2. s \in Seq(SetWorkload) /\ \A w \in ToSet(s) : SetWorkloadAgrees(setir, w)
    BY <2>1
  <2> HIDE DEF s
  <2>3. DOMAIN s = 1 .. Len(s) /\ Len(s) \in Nat
    BY <2>2
  <2>4. \A i \in DOMAIN s : s[i] \in SetWorkload /\ s[i] \in ToSet(s)
    BY <2>2, <2>3, ElementOfSeq, InToSet
  <2> QED BY <2>2, <2>3, <2>4 DEF s
<1> QED BY <1>1, <1>2, <1>3, <1>4, <1>5

(* The workload a transfer is given to has it as an input, on that core. *)
LEMMA ConsumerReads ==
    ASSUME SetIRAgrees(setir), NEW t, NEW c \in Cores \cup {DRAM}
    PROVE  /\ Consumer(t, c) \in Nat
           /\ ConsumersAt(t, c) # {} =>
                \E p \in ConsumersAt(t, c) : Consumer(t, c) = Wid(p)
<1>1. CASE ConsumersAt(t, c) = {}
  BY <1>1 DEF Consumer
<1>2. CASE ConsumersAt(t, c) # {}
  <2> DEFINE S == ConsumersAt(t, c)
             n == Len(setir.cores[c])
  <2>1. c \in Cores /\ \A p \in S : p = <<c, p[2]>> /\ p[2] \in DOMAIN setir.cores[c]
    BY <1>2, InPositions DEF ConsumersAt, Cores
  <2>2. n \in Nat /\ DOMAIN setir.cores[c] = 1 .. n
    BY <2>1, SetIRFacts
  <2>3. S \in SUBSET ({c} \X (1 .. n)) /\ S # {}
    <3> HIDE DEF S, n
    <3> QED BY <1>2, <2>1, <2>2 DEF S
  <2>4. LastOf(S) \in S
    <3> HIDE DEF S, n
    <3> QED BY <2>2, <2>3, LastAtCore
  <2>5. Consumer(t, c) = Wid(LastOf(S))
    BY <1>2 DEF Consumer
  <2>6. \A p \in S : Wid(p) \in Nat
    <3> SUFFICES ASSUME NEW p \in S PROVE Wid(p) \in Nat
      OBVIOUS
    <3>1. p[1] = c /\ p[2] \in DOMAIN setir.cores[c]
      BY <2>1
    <3>2. setir.cores[c][p[2]] \in SetWorkload
      BY <2>1, <3>1, SetIRFacts
    <3>3. setir.cores[c][p[2]].wid \in Nat
      BY <3>2 DEF SetWorkload
    <3> QED BY <3>1, <3>3 DEF Wid
  <2> QED BY <2>4, <2>5, <2>6
<1> QED BY <1>1, <1>2

(* What is known of a buffer that has a description. *)
LEMMA BufferFacts ==
    ASSUME SetIRAgrees(setir), NEW w \in SetWorkload, NEW i \in Known(w)
    PROVE  /\ Buffer(w, i).source \in Seq(FileSource)
           /\ \A s \in ToSet(Buffer(w, i).source) :
                 s \in FileSource /\ NamesMaker(setir.cores, s)
<1> DEFINE b == Buffer(w, i)
<1>1. /\ b \in [weight : BOOLEAN, source : Seq(FileSource)]
      /\ \A s \in ToSet(b.source) : NamesMaker(setir.cores, s)
  BY DEF SetIRAgrees, Known, Buffer
<1> HIDE DEF b
<1>2. b.source \in Seq(FileSource)
  BY <1>1
<1>3. ToSet(b.source) \subseteq FileSource
  BY <1>2, InToSet
<1> QED BY <1>1, <1>2, <1>3 DEF b

(* The sources of a workload are those of its buffers that are described. *)
LEMMA SourcesAreOfBuffers ==
    ASSUME SetIRAgrees(setir), NEW w \in SetWorkload
    PROVE  /\ SourcesOf(w) \in Seq(FileSource)
           /\ \A s \in ToSet(SourcesOf(w)) :
                 s \in FileSource /\ NamesMaker(setir.cores, s)
           /\ \A i \in Known(w) : \A s \in ToSet(Buffer(w, i).source) :
                 s \in ToSet(SourcesOf(w))
<1> DEFINE parts == [i \in DOMAIN w.buffers |->
                        IF i \in Known(w) THEN Buffer(w, i).source ELSE <<>>]
<1>1. w.buffers \in Seq(Nat) /\ Known(w) \subseteq DOMAIN w.buffers
  BY DEF SetWorkload, Known
<1>2. \A i \in DOMAIN w.buffers : parts[i] \in Seq(FileSource)
  BY BufferFacts
<1>3. parts = [i \in DOMAIN w.buffers |-> parts[i]] /\ DOMAIN parts = DOMAIN w.buffers
  OBVIOUS
<1>4. SourcesOf(w) = FlattenSeq(parts)
  BY DEF SourcesOf
<1>5. \A i \in DOMAIN w.buffers :
         ToSet(parts[i]) = IF i \in Known(w) THEN ToSet(Buffer(w, i).source) ELSE {}
  <2>1. ToSet(<<>>) = {}
    BY DEF ToSet
  <2> QED BY <2>1
<1> HIDE DEF parts
<1>6. /\ parts \in Seq(Seq(FileSource)) /\ Len(parts) = Len(w.buffers)
      /\ Len(w.buffers) \in Nat /\ DOMAIN w.buffers = 1 .. Len(w.buffers)
  <2>1. DOMAIN w.buffers = 1 .. Len(w.buffers) /\ Len(w.buffers) \in Nat
    BY <1>1
  <2>2. parts \in Seq(Seq(FileSource)) /\ Len(parts) = Len(w.buffers)
    <3> DEFINE b == w.buffers
               T == Seq(FileSource)
    <3>1. /\ b \in Seq(Nat) /\ parts = [i \in DOMAIN b |-> parts[i]]
          /\ \A i \in DOMAIN b : parts[i] \in T
      BY <1>1, <1>2, <1>3
    <3> HIDE DEF b, T
    <3>2. parts \in Seq(T) /\ Len(parts) = Len(b)
      BY <3>1
    <3> QED BY <3>2 DEF b, T
  <2> QED BY <2>1, <2>2
<1>7. /\ FlattenSeq(parts) \in Seq(FileSource)
      /\ ToSet(FlattenSeq(parts)) = UNION {ToSet(parts[i]) : i \in DOMAIN parts}
  BY <1>2, <1>3, <1>6, FlattenToSet
<1>8. ASSUME NEW s \in ToSet(SourcesOf(w))
      PROVE  s \in FileSource /\ NamesMaker(setir.cores, s)
  <2>1. PICK i \in DOMAIN w.buffers : s \in ToSet(parts[i])
    BY <1>3, <1>4, <1>7
  <2>2. i \in Known(w) /\ s \in ToSet(Buffer(w, i).source)
    BY <1>5, <2>1
  <2> QED BY <2>2, BufferFacts
<1>9. ASSUME NEW i \in Known(w), NEW s \in ToSet(Buffer(w, i).source)
      PROVE  s \in ToSet(SourcesOf(w))
  BY <1>1, <1>3, <1>4, <1>5, <1>7
<1> QED BY <1>4, <1>7, <1>8, <1>9

(* The weights come from the DRAM. *)
LEMMA WeightsAreLoaded ==
    ASSUME SetIRAgrees(setir), NEW w \in SetWorkload
    PROVE  /\ WeightsOf(w) \in Seq(Tid)
           /\ \A t \in ToSet(WeightsOf(w)) : MakersIn(setir.cores, t) = {}
<1> DEFINE weights == {i \in Known(w) : Buffer(w, i).weight}
           source == Buffer(w, Min(weights)).source
           direct == {k \in DOMAIN source : source[k].from = DRAM}
           loads == InIdOrder(direct)
<1>1. WeightsOf(w) = IF weights = {} THEN <<>>
                     ELSE IF loads = <<>> THEN <<0>>
                     ELSE [n \in DOMAIN loads |-> source[loads[n]].tid]
  BY DEF WeightsOf
<1> HIDE DEF loads, source
<1>2. CASE weights = {}
  <2>1. WeightsOf(w) = <<>>
    BY <1>1, <1>2
  <2> QED BY <2>1 DEF ToSet
<1>3. CASE weights # {} /\ loads = <<>>
  <2>1. WeightsOf(w) = <<0>> /\ 0 \in Tid /\ MakersIn(setir.cores, 0) = {}
    BY <1>1, <1>3, TaskAssumption DEF SetIRAgrees
  <2>2. <<0>> \in Seq(Tid) /\ \A t \in ToSet(<<0>>) : t = 0
    BY <2>1 DEF ToSet
  <2> QED BY <2>1, <2>2
<1>4. CASE weights # {} /\ loads # <<>>
  <2>1. Min(weights) \in Known(w)
    <3>1. w.buffers \in Seq(Nat)
      BY DEF SetWorkload
    <3>2. weights \in SUBSET Nat
      BY <3>1 DEF Known
    <3> HIDE DEF weights
    <3>3. Min(weights) \in weights
      BY <1>4, <3>2, MinInSet
    <3> QED BY <3>3 DEF weights
  <2>2. /\ source \in Seq(FileSource)
        /\ \A s \in ToSet(source) : s \in FileSource /\ NamesMaker(setir.cores, s)
    BY <2>1, BufferFacts DEF source
  <2>3. DOMAIN source = 1 .. Len(source) /\ Len(source) \in Nat
    BY <2>2
  <2>4. direct \in SUBSET Nat /\ IsFiniteSet(direct)
    <3>1. direct \subseteq 1 .. Len(source)
      BY <2>3
    <3>2. IsFiniteSet(1 .. Len(source))
      BY <2>3, FS_Interval
    <3> HIDE DEF direct
    <3>3. IsFiniteSet(direct)
      BY <3>1, <3>2, FS_Subset
    <3>4. \A k \in direct : k \in Nat
      BY <2>3, <3>1
    <3> QED BY <3>3, <3>4
  <2> HIDE DEF direct
  <2>5. /\ loads \in Seq(direct) /\ Len(loads) \in Nat /\ DOMAIN loads = 1 .. Len(loads)
        /\ \A n \in DOMAIN loads : loads[n] \in direct
    BY <2>4, InIdOrderLists DEF loads
  <2> DEFINE ts == [n \in DOMAIN loads |-> source[loads[n]].tid]
  <2>6. \A n \in DOMAIN loads : ts[n] \in Tid /\ MakersIn(setir.cores, ts[n]) = {}
    <3> SUFFICES ASSUME NEW n \in DOMAIN loads
                 PROVE  ts[n] \in Tid /\ MakersIn(setir.cores, ts[n]) = {}
      OBVIOUS
    <3> DEFINE s == source[loads[n]]
    <3>1. loads[n] \in DOMAIN source /\ s.from = DRAM
      BY <2>5 DEF direct
    <3>2. s \in ToSet(source)
      BY <3>1 DEF ToSet
    <3>3. s \in FileSource /\ NamesMaker(setir.cores, s)
      BY <2>2, <3>2
    <3>4. ts[n] = s.tid
      OBVIOUS
    <3> HIDE DEF s, ts
    <3> QED BY <3>1, <3>3, <3>4 DEF FileSource, NamesMaker
  <2>7. ts = [n \in DOMAIN loads |-> ts[n]] /\ WeightsOf(w) = ts
    BY <1>1, <1>4
  <2> HIDE DEF ts
  <2>8. ts \in Seq(Tid) /\ DOMAIN ts = DOMAIN loads
    BY <2>5, <2>6, <2>7, MappedSeq
  <2>9. \A t \in ToSet(ts) : MakersIn(setir.cores, t) = {}
    BY <2>6, <2>8 DEF ToSet
  <2> QED BY <2>7, <2>8, <2>9
<1> QED BY <1>2, <1>3, <1>4

(* A source of a converted workload names the core of the producer. *)
LEMMA ConvertedSources ==
    ASSUME SetIRAgrees(setir), NEW s \in FileSource, NamesMaker(setir.cores, s)
    PROVE  /\ ConvertedSource(s) \in FileSource /\ ConvertedSource(s).tid = s.tid
           /\ ConvertedSource(s).from = NewCore(s.from)
           /\ ConvertedSource(s).from = DRAM <=> s.from = DRAM
<1>1. s.tid \in Tid /\ s.from \in Nat \cup {DRAM}
  BY EndpointIds DEF FileSource
<1>2. s.from = DRAM \/ s.from \in Cores
  <2>1. \A p \in MakersIn(setir.cores, s.tid) : p[1] \in Cores
    BY InPositions DEF MakersIn, Cores
  <2> QED BY <2>1 DEF NamesMaker
<1>3. ConvertedSource(s) = [tid |-> s.tid, from |-> NewCore(s.from)]
  BY <1>2 DEF ConvertedSource, FileSource
<1>4. /\ NewCore(s.from) \in Nat \cup {DRAM}
      /\ NewCore(s.from) = DRAM <=> s.from = DRAM
  <2>1. CASE s.from = DRAM
    BY <2>1, SetIRFacts
  <2>2. CASE s.from \in Cores
    <3>1. s.from # DRAM
      BY <2>2, SetIRFacts, EndpointIds
    <3>2. NewCore(s.from) \in 0 .. Cardinality(Cores) - 1 /\ Cardinality(Cores) \in Nat
      BY <2>2, SetIRFacts
    <3>3. NewCore(s.from) \in Nat
      BY <3>2
    <3> QED BY <3>1, <3>3, EndpointIds
  <2> QED BY <1>2, <2>1, <2>2
<1> QED BY <1>1, <1>3, <1>4, EndpointIds DEF FileSource

(* A converted destination is a core of the new numbering or the DRAM. *)
LEMMA ConvertedDestFacts ==
    ASSUME SetIRAgrees(setir), NEW t,
           NEW dests \in Seq(Nat \cup {DRAM}), ToSet(dests) \subseteq Cores \cup {DRAM}
    PROVE  /\ ConvertedDests(t, dests) \in Seq(FileDest)
           /\ DOMAIN ConvertedDests(t, dests) = DOMAIN dests
           /\ \A d \in ToSet(ConvertedDests(t, dests)) : d.core \in Endpoint
<1> DEFINE r == ConvertedDests(t, dests)
<1>1. DOMAIN dests = 1 .. Len(dests) /\ Len(dests) \in Nat
  OBVIOUS
<1>2. r = [i \in DOMAIN dests |-> r[i]] /\ DOMAIN r = DOMAIN dests
  BY DEF ConvertedDests
<1>3. ASSUME NEW i \in DOMAIN dests
      PROVE  r[i] \in FileDest /\ r[i].core \in Endpoint
  <2>1. dests[i] \in Cores \cup {DRAM}
    BY DEF ToSet
  <2>2. NewCore(dests[i]) \in Endpoint
    <3>1. CASE dests[i] = DRAM
      BY <3>1, SetIRFacts DEF Endpoint
    <3>2. CASE dests[i] \in Cores
      <4>1. /\ NewCore(dests[i]) \in 0 .. Cardinality(Cores) - 1
            /\ Cardinality(Cores) \in Nat /\ Cardinality(Cores) <= NumCores
        BY <3>2, SetIRFacts
      <4>2. NewCore(dests[i]) \in 0 .. NumCores - 1
        BY <4>1, TaskAssumption
      <4> QED BY <4>2 DEF Endpoint, Core
    <3> QED BY <2>1, <3>1, <3>2
  <2>3. Consumer(t, dests[i]) \in Nat
    BY <2>1, ConsumerReads
  <2>4. r[i] = [core |-> NewCore(dests[i]), wl |-> Consumer(t, dests[i])]
    BY DEF ConvertedDests
  <2> QED BY <2>2, <2>3, <2>4 DEF FileDest
<1> HIDE DEF r
<1>4. r \in Seq(FileDest)
  BY <1>1, <1>2, <1>3
<1>5. \A d \in ToSet(r) : d.core \in Endpoint
  BY <1>2, <1>3 DEF ToSet
<1> QED BY <1>2, <1>4, <1>5 DEF r

(* What converting a workload makes of it. *)
LEMMA ConvertedKeeps ==
    ASSUME SetIRAgrees(setir), NEW w \in SetWorkload, SetWorkloadAgrees(setir, w)
    PROVE  LET v == ConvertedWorkload(w)
           IN  /\ v \in FileWorkload
               /\ v.wid = w.wid /\ OutTids(v) = OutTids(w) /\ v.ifmap = w.ifmap
               /\ v.weight = WeightsOf(w)
               /\ \A s \in ToSet(v.sources) : \E r \in FileSource :
                    /\ NamesMaker(setir.cores, r) /\ r.tid = s.tid
                    /\ s.from = NewCore(r.from)
                    /\ (r.from = DRAM <=> s.from = DRAM)
               /\ \A t \in ToSet(v.ifmap) :
                    Origin(v, t) = DRAM => MakersIn(setir.cores, t) = {}
               /\ \A out \in ToSet(v.ofmap) : \A d \in ToSet(out.dests) :
                    d.core \in Endpoint
<1> DEFINE v == ConvertedWorkload(w)
           S == SourcesOf(w)
           sources == [i \in DOMAIN S |-> ConvertedSource(S[i])]
           ofmap == [k \in DOMAIN w.ofmap |->
                       [w.ofmap[k] EXCEPT !.dests = ConvertedDests(w.ofmap[k].tid, @)]]
<1>1. v = [wid |-> w.wid, layer |-> w.layer, ifmap |-> w.ifmap,
           sources |-> sources, weight |-> WeightsOf(w), ofmap |-> ofmap]
  BY DEF ConvertedWorkload
<1>2. /\ w.wid \in Nat /\ w.layer \in Layer /\ w.ifmap \in Seq(Tid)
      /\ w.ofmap \in Seq(SetOutput) /\ w.buffers \in Seq(Nat)
  BY DEF SetWorkload
<1>3. /\ S \in Seq(FileSource)
      /\ \A s \in ToSet(S) : s \in FileSource /\ NamesMaker(setir.cores, s)
      /\ \A i \in Known(w) : \A s \in ToSet(Buffer(w, i).source) : s \in ToSet(S)
  BY SourcesAreOfBuffers
<1> HIDE DEF S
<1>4. DOMAIN S = 1 .. Len(S) /\ Len(S) \in Nat /\ \A i \in DOMAIN S : S[i] \in ToSet(S)
  BY <1>3 DEF ToSet
<1>5. \A i \in DOMAIN S :
         /\ S[i] \in FileSource /\ NamesMaker(setir.cores, S[i])
         /\ sources[i] \in FileSource /\ sources[i].tid = S[i].tid
         /\ sources[i].from = NewCore(S[i].from)
         /\ sources[i].from = DRAM <=> S[i].from = DRAM
  <2> SUFFICES ASSUME NEW i \in DOMAIN S
               PROVE  /\ S[i] \in FileSource /\ NamesMaker(setir.cores, S[i])
                      /\ sources[i] \in FileSource /\ sources[i].tid = S[i].tid
                      /\ sources[i].from = NewCore(S[i].from)
                      /\ sources[i].from = DRAM <=> S[i].from = DRAM
    OBVIOUS
  <2>1. S[i] \in FileSource /\ NamesMaker(setir.cores, S[i])
    BY <1>3, <1>4
  <2>2. sources[i] = ConvertedSource(S[i])
    OBVIOUS
  <2> HIDE DEF sources
  <2> QED BY <2>1, <2>2, ConvertedSources
<1>6. sources = [i \in DOMAIN S |-> sources[i]] /\ DOMAIN sources = DOMAIN S
  OBVIOUS
<1> HIDE DEF sources
<1>7. sources \in Seq(FileSource)
  BY <1>4, <1>5, <1>6
<1>8. \A k \in DOMAIN w.ofmap :
         /\ ofmap[k] \in FileOutput /\ ofmap[k].tid = w.ofmap[k].tid
         /\ \A d \in ToSet(ofmap[k].dests) : d.core \in Endpoint
  <2> SUFFICES ASSUME NEW k \in DOMAIN w.ofmap
               PROVE  /\ ofmap[k] \in FileOutput /\ ofmap[k].tid = w.ofmap[k].tid
                      /\ \A d \in ToSet(ofmap[k].dests) : d.core \in Endpoint
    OBVIOUS
  <2> DEFINE out == w.ofmap[k]
  <2>1. out \in SetOutput /\ out \in ToSet(w.ofmap)
    BY <1>2, ElementOfSeq DEF ToSet
  <2>2. ToSet(out.dests) \subseteq Cores \cup {DRAM}
    BY <2>1 DEF SetWorkloadAgrees, Cores
  <2>3. out.tid \in Tid /\ out.dests \in Seq(Nat \cup {DRAM})
    BY <2>1 DEF SetOutput
  <2>4. ofmap[k] = [out EXCEPT !.dests = ConvertedDests(out.tid, @)]
    OBVIOUS
  <2> HIDE DEF ofmap, out
  <2>5. ofmap[k] = [tid |-> out.tid, dests |-> ConvertedDests(out.tid, out.dests)]
    BY <2>1, <2>4 DEF SetOutput
  <2>6. /\ ConvertedDests(out.tid, out.dests) \in Seq(FileDest)
        /\ \A d \in ToSet(ConvertedDests(out.tid, out.dests)) : d.core \in Endpoint
    BY <2>2, <2>3, ConvertedDestFacts
  <2>7. ofmap[k] \in FileOutput /\ ofmap[k].tid = out.tid
    BY <2>3, <2>5, <2>6 DEF FileOutput
  <2>8. ofmap[k].dests = ConvertedDests(out.tid, out.dests)
    BY <2>5
  <2> QED BY <2>6, <2>7, <2>8 DEF out
<1>9. ofmap = [k \in DOMAIN w.ofmap |-> ofmap[k]] /\ DOMAIN ofmap = DOMAIN w.ofmap
  OBVIOUS
<1> HIDE DEF ofmap
<1>10. ofmap \in Seq(FileOutput)
  <2> DEFINE o == w.ofmap
  <2>1. DOMAIN o = 1 .. Len(o) /\ Len(o) \in Nat
    BY <1>2
  <2>2. ofmap = [k \in DOMAIN o |-> ofmap[k]] /\ \A k \in DOMAIN o : ofmap[k] \in FileOutput
    BY <1>8, <1>9
  <2> HIDE DEF o
  <2> QED BY <2>1, <2>2
<1>11. v \in FileWorkload
  BY <1>1, <1>2, <1>7, <1>10, WeightsAreLoaded DEF FileWorkload
<1>12. /\ v.wid = w.wid /\ v.ifmap = w.ifmap /\ v.weight = WeightsOf(w)
       /\ v.sources = sources /\ v.ofmap = ofmap
  BY <1>1
<1> HIDE DEF v
<1>13. OutTids(v) = OutTids(w)
  BY <1>8, <1>9, <1>12 DEF OutTids
<1>14. ASSUME NEW s \in ToSet(sources)
       PROVE  \E r \in FileSource :
                 /\ NamesMaker(setir.cores, r) /\ r.tid = s.tid
                 /\ s.from = NewCore(r.from)
                 /\ (r.from = DRAM <=> s.from = DRAM)
  BY <1>5, <1>6 DEF ToSet
<1>15. ASSUME NEW t \in ToSet(w.ifmap), Origin(v, t) = DRAM
       PROVE  MakersIn(setir.cores, t) = {}
  <2> DEFINE K == {i \in DOMAIN S : S[i].tid = t}
  <2>1. {i \in DOMAIN v.sources : v.sources[i].tid = t} = K
    BY <1>5, <1>6, <1>12
  <2>2. CASE K = {}
    <3>1. ~Describes(setir, w, t)
      <4> SUFFICES ASSUME Describes(setir, w, t) PROVE FALSE
        OBVIOUS
      <4>1. PICK b \in ToSet(w.buffers) \cap DOMAIN setir.data :
              \E s \in ToSet(setir.data[b].source) : s.tid = t
        BY DEF Describes
      <4>2. PICK i \in DOMAIN w.buffers : b = w.buffers[i]
        BY <4>1 DEF ToSet
      <4>3. PICK s \in ToSet(Buffer(w, i).source) : s.tid = t
        BY <4>1, <4>2 DEF Buffer
      <4>4. i \in Known(w)
        BY <4>1, <4>2 DEF Known
      <4>5. s \in ToSet(S)
        BY <1>3, <4>3, <4>4
      <4>6. PICK j \in DOMAIN S : s = S[j]
        BY <4>5 DEF ToSet
      <4> QED BY <2>2, <4>3, <4>6
    <3> QED BY <3>1 DEF SetWorkloadAgrees
  <2>3. CASE K # {}
    <3>1. Min(K) \in K
      <4>1. K \in SUBSET Nat
        BY <1>4
      <4> HIDE DEF K
      <4> QED BY <2>3, <4>1, MinInSet
    <3>2. Origin(v, t) = v.sources[Min(K)].from
      <4> HIDE DEF K
      <4> QED BY <2>1, <2>3 DEF Origin
    <3>3. S[Min(K)].from = DRAM /\ S[Min(K)].tid = t
      BY <1>5, <1>12, <1>15, <3>1, <3>2
    <3> QED BY <1>5, <3>1, <3>3 DEF NamesMaker
  <2> QED BY <2>2, <2>3
<1>16. \A out \in ToSet(ofmap) : \A d \in ToSet(out.dests) : d.core \in Endpoint
  BY <1>8, <1>9 DEF ToSet
<1> QED BY <1>11, <1>12, <1>13, <1>14, <1>15, <1>16 DEF v

-----------------------------------------------------------------------------
(* The lists of the converted file. *)
SetPlace(q) == <<InIdOrder(Cores)[q[1] + 1], q[2]>>

(* Every converted workload is one of SET-IR, and the other way round. *)
LEMMA ConvertedPlaces ==
    ASSUME SetIRAgrees(setir)
    PROVE  /\ DOMAIN Converted.cores = 0 .. Cardinality(Cores) - 1
           /\ \A c \in DOMAIN Converted.cores :
                 /\ InIdOrder(Cores)[c + 1] \in Cores
                 /\ NewCore(InIdOrder(Cores)[c + 1]) = c
                 /\ Converted.cores[c] =
                      [i \in DOMAIN setir.cores[InIdOrder(Cores)[c + 1]] |->
                         ConvertedWorkload(setir.cores[InIdOrder(Cores)[c + 1]][i])]
           /\ \A q \in Positions(Converted.cores) :
                 /\ SetPlace(q) \in Positions(setir.cores)
                 /\ NewCore(SetPlace(q)[1]) = q[1]
                 /\ Converted.cores[q[1]][q[2]] = ConvertedWorkload(SetWorkloadAt(SetPlace(q)))
           /\ \A p, q \in Positions(Converted.cores) :
                 SetPlace(p) = SetPlace(q) => p = q
           /\ \A p \in Positions(setir.cores) :
                 /\ <<NewCore(p[1]), p[2]>> \in Positions(Converted.cores)
                 /\ SetPlace(<<NewCore(p[1]), p[2]>>) = p
<1> DEFINE ids == InIdOrder(Cores)
           list(id) == setir.cores[id]
           new == Converted.cores
<1>1. /\ Cores \in SUBSET Nat /\ IsFiniteSet(Cores) /\ Cardinality(Cores) \in Nat
      /\ \A id \in Cores : NewCore(id) \in 0 .. Cardinality(Cores) - 1
  BY SetIRFacts
<1>2. /\ ids \in Seq(Cores) /\ Len(ids) = Cardinality(Cores)
      /\ DOMAIN ids = 1 .. Cardinality(Cores)
      /\ \A x \in Cores : ids[Rank(Cores, x) + 1] = x
      /\ \A n \in 1 .. Cardinality(Cores) : Rank(Cores, ids[n]) = n - 1
  BY <1>1, InIdOrderSorts
<1>3. new = [c \in 0 .. Cardinality(Cores) - 1 |->
               [i \in DOMAIN list(ids[c + 1]) |-> ConvertedWorkload(list(ids[c + 1])[i])]]
  BY <1>2 DEF Converted
<1> HIDE DEF new, ids
<1>4. \A c \in DOMAIN new :
         /\ c \in 0 .. Cardinality(Cores) - 1
         /\ ids[c + 1] \in Cores /\ NewCore(ids[c + 1]) = c
         /\ new[c] = [i \in DOMAIN list(ids[c + 1]) |->
                         ConvertedWorkload(list(ids[c + 1])[i])]
  <2> SUFFICES ASSUME NEW c \in DOMAIN new
               PROVE  /\ c \in 0 .. Cardinality(Cores) - 1
                      /\ ids[c + 1] \in Cores /\ NewCore(ids[c + 1]) = c
                      /\ new[c] = [i \in DOMAIN list(ids[c + 1]) |->
                                     ConvertedWorkload(list(ids[c + 1])[i])]
    OBVIOUS
  <2>1. c \in 0 .. Cardinality(Cores) - 1
    BY <1>3
  <2>2. c + 1 \in 1 .. Cardinality(Cores) /\ (c + 1) - 1 = c
    BY <1>1, <2>1
  <2>3. ids[c + 1] \in Cores
    BY <1>2, <2>2, ElementOfSeq
  <2>4. NewCore(ids[c + 1]) = c
    BY <1>2, <2>2, <2>3 DEF NewCore
  <2> QED BY <1>3, <2>1, <2>3, <2>4
<1>5. ASSUME NEW q \in Positions(new)
      PROVE  /\ q = <<q[1], q[2]>> /\ SetPlace(q) = <<ids[q[1] + 1], q[2]>>
             /\ SetPlace(q) \in Positions(setir.cores)
             /\ NewCore(SetPlace(q)[1]) = q[1]
             /\ new[q[1]][q[2]] = ConvertedWorkload(SetWorkloadAt(SetPlace(q)))
  <2>1. q = <<q[1], q[2]>> /\ q[1] \in DOMAIN new /\ q[2] \in DOMAIN new[q[1]]
    BY InPositions
  <2>2. SetPlace(q) = <<ids[q[1] + 1], q[2]>>
    BY DEF SetPlace, ids
  <2>3. ids[q[1] + 1] \in Cores /\ q[2] \in DOMAIN list(ids[q[1] + 1])
    BY <1>4, <2>1
  <2>4. SetPlace(q) \in Positions(setir.cores)
    BY <2>2, <2>3, InPositions DEF Cores
  <2>5. new[q[1]][q[2]] = ConvertedWorkload(list(ids[q[1] + 1])[q[2]])
    BY <1>4, <2>1, <2>3
  <2> QED BY <1>4, <2>1, <2>2, <2>4, <2>5 DEF SetWorkloadAt
<1>6. ASSUME NEW p \in Positions(new), NEW q \in Positions(new),
             SetPlace(p) = SetPlace(q)
      PROVE  p = q
  <2>1. p[1] = q[1] /\ p[2] = q[2]
    BY <1>5, <1>6
  <2> QED BY <1>5, <2>1
<1>7. ASSUME NEW p \in Positions(setir.cores)
      PROVE  /\ <<NewCore(p[1]), p[2]>> \in Positions(new)
             /\ SetPlace(<<NewCore(p[1]), p[2]>>) = p
  <2> DEFINE c == NewCore(p[1])
  <2>1. p = <<p[1], p[2]>> /\ p[1] \in Cores /\ p[2] \in DOMAIN list(p[1])
    BY InPositions DEF Cores
  <2>2. c \in 0 .. Cardinality(Cores) - 1 /\ ids[c + 1] = p[1]
    BY <1>1, <1>2, <2>1 DEF NewCore
  <2> HIDE DEF c
  <2>3. c \in DOMAIN new /\ p[2] \in DOMAIN new[c]
    BY <1>3, <1>4, <2>1, <2>2
  <2>4. <<c, p[2]>> \in Positions(new)
    BY <2>3, InPositions
  <2>5. SetPlace(<<c, p[2]>>) = <<p[1], p[2]>>
    BY <2>2 DEF SetPlace, ids
  <2> QED BY <2>1, <2>4, <2>5 DEF c
<1>8. DOMAIN new = 0 .. Cardinality(Cores) - 1
  BY <1>3
<1> QED BY <1>4, <1>5, <1>6, <1>7, <1>8 DEF new, ids

(* The workload at a position of SET-IR. *)
LEMMA SetWorkloadFacts ==
    ASSUME SetIRAgrees(setir), NEW p \in Positions(setir.cores)
    PROVE  /\ SetWorkloadAt(p) \in SetWorkload
           /\ SetWorkloadAgrees(setir, SetWorkloadAt(p))
           /\ p[1] \in Cores
<1>1. p[1] \in Cores /\ p[2] \in DOMAIN setir.cores[p[1]]
  BY InPositions DEF Cores
<1> QED BY <1>1, SetIRFacts DEF SetWorkloadAt

(* A transfer is output by the same workload before and after. *)
LEMMA ConvertedMakers ==
    ASSUME SetIRAgrees(setir)
    PROVE  /\ \A t : \A q \in MakersIn(Converted.cores, t) :
                 SetPlace(q) \in MakersIn(setir.cores, t)
           /\ \A t : \A p \in MakersIn(setir.cores, t) :
                 <<NewCore(p[1]), p[2]>> \in MakersIn(Converted.cores, t)
           /\ \A t \in Tid : \A p, q \in MakersIn(Converted.cores, t) : p = q
<1> DEFINE new == Converted.cores
           at == [q \in Positions(new) |-> SetPlace(q)]
<1>1. /\ \A q \in Positions(new) :
            /\ SetPlace(q) \in Positions(setir.cores)
            /\ new[q[1]][q[2]] = ConvertedWorkload(SetWorkloadAt(SetPlace(q)))
      /\ \A p, q \in Positions(new) : SetPlace(p) = SetPlace(q) => p = q
      /\ \A p \in Positions(setir.cores) :
            /\ <<NewCore(p[1]), p[2]>> \in Positions(new)
            /\ SetPlace(<<NewCore(p[1]), p[2]>>) = p
  BY ConvertedPlaces
<1>2. \A p \in Positions(setir.cores) :
         OutTids(ConvertedWorkload(SetWorkloadAt(p))) = OutTids(SetWorkloadAt(p))
  BY SetWorkloadFacts, ConvertedKeeps
<1>3. \A t \in Tid : \A p, q \in MakersIn(setir.cores, t) : p = q
  BY DEF SetIRAgrees, Lists
<1> HIDE DEF new
<1>4. \A t : /\ \A q \in MakersIn(new, t) : at[q] \in MakersIn(setir.cores, t)
             /\ \A q \in Positions(new) :
                   at[q] \in MakersIn(setir.cores, t) => q \in MakersIn(new, t)
             /\ (\A p, q \in MakersIn(setir.cores, t) : p = q) =>
                   \A p, q \in MakersIn(new, t) : p = q
  <2>1. \A q \in Positions(new) :
           /\ at[q] \in Positions(setir.cores)
           /\ OutTids(new[q[1]][q[2]]) = OutTids(setir.cores[at[q][1]][at[q][2]])
    BY <1>1, <1>2 DEF SetWorkloadAt
  <2>2. \A p, q \in Positions(new) : at[p] = at[q] => p = q
    BY <1>1
  <2> DEFINE old == setir.cores
  <2>3. \A q \in Positions(new) :
           /\ at[q] \in Positions(old)
           /\ OutTids(new[q[1]][q[2]]) = OutTids(old[at[q][1]][at[q][2]])
    BY <2>1
  <2> HIDE DEF at, old
  <2>4. \A t : /\ \A q \in MakersIn(new, t) : at[q] \in MakersIn(old, t)
               /\ \A q \in Positions(new) :
                     at[q] \in MakersIn(old, t) => q \in MakersIn(new, t)
               /\ (\A p, q \in MakersIn(old, t) : p = q) =>
                     \A p, q \in MakersIn(new, t) : p = q
    BY <2>2, <2>3, MakersMoved
  <2> QED BY <2>4 DEF old
<1>5. \A t : \A q \in MakersIn(new, t) : SetPlace(q) \in MakersIn(setir.cores, t)
  <2>1. \A t : MakersIn(new, t) \subseteq Positions(new)
    BY DEF MakersIn
  <2> QED BY <1>4, <2>1
<1>6. \A t : \A p \in MakersIn(setir.cores, t) : <<NewCore(p[1]), p[2]>> \in MakersIn(new, t)
  <2> SUFFICES ASSUME NEW t, NEW p \in MakersIn(setir.cores, t)
               PROVE  <<NewCore(p[1]), p[2]>> \in MakersIn(new, t)
    OBVIOUS
  <2> DEFINE q == <<NewCore(p[1]), p[2]>>
  <2>1. q \in Positions(new) /\ SetPlace(q) = p
    BY <1>1 DEF MakersIn
  <2>2. at[q] = p
    BY <2>1
  <2> HIDE DEF q
  <2>3. q \in MakersIn(new, t)
    BY <1>4, <2>1, <2>2
  <2> QED BY <2>3 DEF q
<1>7. \A t \in Tid : \A p, q \in MakersIn(new, t) : p = q
  BY <1>3, <1>4
<1> QED BY <1>5, <1>6, <1>7 DEF new

(* convert makes lists whose sources name producers, and destinations with workloads. *)
LEMMA ConversionAgrees ==
    ASSUME SetIRAgrees(setir)
    PROVE  FileAgrees(setir.cores, Converted.cores) /\ DestsAgree(Converted.cores)
<1> DEFINE new == Converted.cores
           n == Cardinality(Cores)
<1>1. DOMAIN new = 0 .. n - 1 /\ n \in Nat /\ n <= NumCores
  BY ConvertedPlaces, SetIRFacts
<1>2. Lists(new)
  <2> HIDE DEF new, n
  <2>1. IsFiniteSet(0 .. n - 1) /\ Cardinality(0 .. n - 1) = n /\ 0 .. n - 1 \subseteq Nat
    <3>1. n - 1 \in Int /\ (n - 1) - 0 + 1 = n
      BY <1>1
    <3>2. IsFiniteSet(0 .. n - 1)
      BY <3>1, FS_Interval
    <3>3. Cardinality(0 .. n - 1) = IF 0 > n - 1 THEN 0 ELSE (n - 1) - 0 + 1
      BY <3>1, FS_Interval
    <3> QED BY <1>1, <3>2, <3>3
  <2>2. \A t \in Tid : \A p, q \in MakersIn(new, t) : p = q
    BY ConvertedMakers DEF new
  <2> QED BY <1>1, <2>1, <2>2 DEF Lists
<1>3. ASSUME NEW q \in Positions(new)
      PROVE  /\ new[q[1]][q[2]] \in FileWorkload
             /\ WorkloadAgrees(setir.cores, new, new[q[1]][q[2]])
             /\ \A out \in ToSet(new[q[1]][q[2]].ofmap) : \A d \in ToSet(out.dests) :
                   d.core \in Endpoint
  <2> DEFINE w == SetWorkloadAt(SetPlace(q))
             v == ConvertedWorkload(w)
  <2>1. new[q[1]][q[2]] = v /\ SetPlace(q) \in Positions(setir.cores)
    BY ConvertedPlaces
  <2>2. w \in SetWorkload /\ SetWorkloadAgrees(setir, w)
    BY <2>1, SetWorkloadFacts
  <2> HIDE DEF w
  <2>3. /\ v \in FileWorkload
        /\ v.ifmap = w.ifmap /\ v.weight = WeightsOf(w)
        /\ \A s \in ToSet(v.sources) : \E r \in FileSource :
             /\ NamesMaker(setir.cores, r) /\ r.tid = s.tid
             /\ s.from = NewCore(r.from)
             /\ (r.from = DRAM <=> s.from = DRAM)
        /\ \A t \in ToSet(v.ifmap) :
             Origin(v, t) = DRAM => MakersIn(setir.cores, t) = {}
        /\ \A out \in ToSet(v.ofmap) : \A d \in ToSet(out.dests) : d.core \in Endpoint
    BY <2>2, ConvertedKeeps
  <2> HIDE DEF v
  <2>4. \A t \in ToSet(v.weight) : MakersIn(setir.cores, t) = {}
    BY <2>2, <2>3, WeightsAreLoaded
  <2>5. ASSUME NEW s \in ToSet(v.sources), s.from # DRAM
        PROVE  \E m \in MakersIn(new, s.tid) : m[1] = s.from
    <3>1. PICK r \in FileSource :
            /\ NamesMaker(setir.cores, r) /\ r.tid = s.tid
            /\ s.from = NewCore(r.from) /\ r.from # DRAM
      BY <2>3, <2>5
    <3>2. PICK p \in MakersIn(setir.cores, s.tid) : p[1] = r.from
      BY <3>1 DEF NamesMaker
    <3>3. <<NewCore(p[1]), p[2]>> \in MakersIn(new, s.tid)
      BY <3>2, ConvertedMakers
    <3> QED BY <3>1, <3>2, <3>3
  <2> QED BY <2>1, <2>3, <2>4, <2>5 DEF WorkloadAgrees
<1>4. ASSUME NEW c \in DOMAIN new
      PROVE  /\ new[c] \in Seq(FileWorkload)
             /\ \A w \in ToSet(new[c]) :
                  \E q \in Positions(new) : w = new[q[1]][q[2]]
  <2> DEFINE id == InIdOrder(Cores)[c + 1]
             s == setir.cores[id]
             r == new[c]
  <2>1. id \in Cores /\ r = [i \in DOMAIN s |-> ConvertedWorkload(s[i])]
    BY ConvertedPlaces
  <2>2. DOMAIN s = 1 .. Len(s) /\ Len(s) \in Nat
    BY <2>1, SetIRFacts
  <2> HIDE DEF id, s
  <2>3. DOMAIN r = DOMAIN s /\ r = [i \in DOMAIN s |-> r[i]]
    BY <2>1
  <2>4. \A i \in DOMAIN r : <<c, i>> \in Positions(new)
    BY InPositions
  <2>5. \A i \in DOMAIN r : \E q \in Positions(new) : r[i] = new[q[1]][q[2]]
    <3> SUFFICES ASSUME NEW i \in DOMAIN r
                 PROVE  \E q \in Positions(new) : r[i] = new[q[1]][q[2]]
      OBVIOUS
    <3>1. <<c, i>>[1] = c /\ <<c, i>>[2] = i /\ <<c, i>> \in Positions(new)
      BY <2>4
    <3> HIDE DEF new
    <3> QED BY <3>1
  <2>6. \A i \in DOMAIN r : r[i] \in FileWorkload
    <3> HIDE DEF r
    <3> QED BY <1>3, <2>5
  <2>7. \A w \in ToSet(r) : \E i \in DOMAIN r : w = r[i]
    BY DEF ToSet
  <2> HIDE DEF r
  <2>8. r \in Seq(FileWorkload)
    BY <2>2, <2>3, <2>6
  <2>9. \A w \in ToSet(r) : \E q \in Positions(new) : w = new[q[1]][q[2]]
    <3> HIDE DEF new
    <3> QED BY <2>5, <2>7
  <2> QED BY <2>8, <2>9 DEF r
<1>5. \A c \in DOMAIN new : \A w \in ToSet(new[c]) :
         /\ WorkloadAgrees(setir.cores, new, w)
         /\ \A out \in ToSet(w.ofmap) : \A d \in ToSet(out.dests) : d.core \in Endpoint
  <2> HIDE DEF new
  <2> QED BY <1>3, <1>4
<1>6. \A c \in DOMAIN new : new[c] \in Seq(FileWorkload)
  BY <1>4
<1> QED BY <1>2, <1>5, <1>6 DEF FileAgrees, DestsAgree

(* The entries of the DRAM of a converted file name the workloads. *)
LEMMA ConvertedEntriesAgree ==
    ASSUME SetIRAgrees(setir)
    PROVE  EntriesAgree(Converted)
<1> DEFINE new == Converted.cores
           At(p) == <<NewCore(p[1]), p[2]>>
<1>1. \A p \in Positions(setir.cores) :
         /\ At(p) \in Positions(new)
         /\ new[NewCore(p[1])][p[2]] = ConvertedWorkload(SetWorkloadAt(p))
         /\ ConvertedWorkload(SetWorkloadAt(p)).wid = Wid(p)
         /\ ConvertedWorkload(SetWorkloadAt(p)).ifmap = SetWorkloadAt(p).ifmap
  <2> SUFFICES ASSUME NEW p \in Positions(setir.cores)
               PROVE  /\ At(p) \in Positions(new)
                      /\ new[NewCore(p[1])][p[2]] = ConvertedWorkload(SetWorkloadAt(p))
                      /\ ConvertedWorkload(SetWorkloadAt(p)).wid = Wid(p)
                      /\ ConvertedWorkload(SetWorkloadAt(p)).ifmap = SetWorkloadAt(p).ifmap
    OBVIOUS
  <2>1. At(p) \in Positions(new) /\ SetPlace(At(p)) = p
    BY ConvertedPlaces
  <2>2. \A q \in Positions(new) :
           new[q[1]][q[2]] = ConvertedWorkload(SetWorkloadAt(SetPlace(q)))
    BY ConvertedPlaces
  <2>3. At(p)[1] = NewCore(p[1]) /\ At(p)[2] = p[2]
    OBVIOUS
  <2>4. new[NewCore(p[1])][p[2]] = ConvertedWorkload(SetWorkloadAt(p))
    <3> HIDE DEF new, At
    <3> QED BY <2>1, <2>2, <2>3
  <2>5. /\ ConvertedWorkload(SetWorkloadAt(p)).wid = SetWorkloadAt(p).wid
        /\ ConvertedWorkload(SetWorkloadAt(p)).ifmap = SetWorkloadAt(p).ifmap
    BY SetWorkloadFacts, ConvertedKeeps
  <2> QED BY <2>1, <2>4, <2>5 DEF Wid, SetWorkloadAt
<1>2. ASSUME NEW e \in ToSet(Converted.in)
      PROVE  Names(new, e.core, e.wl, e.tid)
  <2>1. PICK i \in DOMAIN setir.in : e = ConvertedIn(setir.in[i])
    BY DEF Converted, ToSet
  <2> DEFINE f == setir.in[i]
  <2>2. f \in [tid : Tid, core : Nat] /\ MakersIn(setir.cores, f.tid) # {}
    <3>1. f \in ToSet(setir.in)
      BY DEF ToSet
    <3>2. setir.in \in Seq([tid : Tid, core : Nat])
      BY DEF SetIRAgrees
    <3> QED BY <3>1, <3>2, InToSet DEF SetIRAgrees
  <2>3. ProducersOf(f.tid) = MakersIn(setir.cores, f.tid)
    BY DEF ProducersOf, MakersIn
  <2>4. PICK p \in MakersIn(setir.cores, f.tid) : TRUE
    BY <2>2
  <2>5. LastOf(ProducersOf(f.tid)) = p
    <3>1. \A q \in MakersIn(setir.cores, f.tid) : q = p
      BY <2>2, <2>4 DEF SetIRAgrees, Lists
    <3> QED BY <2>3, <2>4, <3>1, OnlyOneIsLast
  <2>6. e = [tid |-> f.tid, core |-> NewCore(p[1]), wl |-> Wid(p)]
    BY <2>1, <2>3, <2>4, <2>5 DEF ConvertedIn
  <2>7. p \in Positions(setir.cores) /\ At(p) \in MakersIn(new, f.tid)
    BY <2>4, ConvertedMakers DEF MakersIn
  <2>8. new[At(p)[1]][At(p)[2]].wid = Wid(p) /\ At(p)[1] = NewCore(p[1])
    BY <1>1, <2>7
  <2> HIDE DEF new, At, f
  <2> QED BY <2>6, <2>7, <2>8 DEF Names
<1>3. ASSUME NEW e \in ToSet(Converted.out), NEW d \in ToSet(e.dests),
             NEW m \in Positions(new), m[1] = d.core, e.tid \in ToSet(new[m[1]][m[2]].ifmap)
      PROVE  \E p \in Positions(new) :
                /\ p[1] = d.core /\ new[p[1]][p[2]].wid = d.wl
                /\ e.tid \in ToSet(new[p[1]][p[2]].ifmap)
  <2>1. PICK i \in DOMAIN setir.out :
          e = [setir.out[i] EXCEPT !.dests = ConvertedDests(setir.out[i].tid, @)]
    BY DEF Converted, ToSet
  <2> DEFINE f == setir.out[i]
  <2>2. f \in [tid : Tid, dests : Seq(Cores)]
    <3>1. setir.out \in Seq([tid : Tid, dests : Seq(Cores)])
      BY DEF SetIRAgrees, Cores
    <3> DEFINE o == setir.out
               T == [tid : Tid, dests : Seq(Cores)]
    <3>2. o \in Seq(T) /\ i \in DOMAIN o
      BY <3>1
    <3> HIDE DEF o, T
    <3>3. o[i] \in T
      BY <3>2, ElementOfSeq
    <3> QED BY <3>3 DEF o, T
  <2>3. e.tid = f.tid /\ e.dests = ConvertedDests(f.tid, f.dests)
    BY <2>1, <2>2
  <2>4. PICK j \in DOMAIN f.dests :
          d = [core |-> NewCore(f.dests[j]), wl |-> Consumer(f.tid, f.dests[j])]
    BY <2>3 DEF ConvertedDests, ToSet
  <2> DEFINE id == f.dests[j]
  <2>5. id \in Cores
    <3>1. f.dests \in Seq(Cores)
      BY <2>2
    <3> QED BY <3>1, ElementOfSeq
  <2>6. d.core = NewCore(id) /\ d.wl = Consumer(e.tid, id)
    BY <2>3, <2>4
  <2> HIDE DEF f, id
  <2>7. ConsumersAt(e.tid, id) # {}
    <3> DEFINE p == SetPlace(m)
    <3>1. /\ p \in Positions(setir.cores) /\ NewCore(p[1]) = m[1]
          /\ new[m[1]][m[2]] = ConvertedWorkload(SetWorkloadAt(p))
      BY ConvertedPlaces
    <3>2. e.tid \in ToSet(SetWorkloadAt(p).ifmap)
      BY <1>1, <1>3, <3>1
    <3>3. p[1] \in Cores /\ NewCore(p[1]) = NewCore(id)
      BY <1>3, <2>6, <3>1, SetWorkloadFacts
    <3>4. p[1] = id
      <4>1. Rank(Cores, p[1]) = Rank(Cores, id)
        BY <2>5, <3>3 DEF NewCore
      <4>2. \A x \in Cores : InIdOrder(Cores)[Rank(Cores, x) + 1] = x
        BY SetIRFacts, InIdOrderSorts
      <4> QED BY <2>5, <3>3, <4>1, <4>2
    <3> QED BY <3>1, <3>2, <3>4 DEF ConsumersAt, SetWorkloadAt
  <2>8. PICK p \in ConsumersAt(e.tid, id) : Consumer(e.tid, id) = Wid(p)
    BY <2>5, <2>7, ConsumerReads
  <2>9. /\ p \in Positions(setir.cores) /\ p[1] = id
        /\ e.tid \in ToSet(SetWorkloadAt(p).ifmap)
    BY DEF ConsumersAt, SetWorkloadAt
  <2>10. /\ At(p) \in Positions(new) /\ At(p)[1] = d.core
         /\ new[At(p)[1]][At(p)[2]].wid = d.wl
         /\ e.tid \in ToSet(new[At(p)[1]][At(p)[2]].ifmap)
    BY <1>1, <2>6, <2>8, <2>9
  <2> HIDE DEF new, At
  <2> QED BY <2>10
<1> QED BY <1>2, <1>3 DEF EntriesAgree


-----------------------------------------------------------------------------
(* The selection is a closure.                                             *)

(* While the passes go on the selection contains the seed and stays inside
   every closed set that does; the last pass added nothing. *)
Selecting == stage \in {"closing", "rebuild"}

Least ==
    /\ seed \subseteq selected
    /\ \A S \in SUBSET All : seed \subseteq S /\ Closed(S) => selected \subseteq S

ClosureInv ==
    /\ Selecting => Least
    /\ stage = "rebuild" => Closed(selected)

-----------------------------------------------------------------------------
(* A pass keeps the selection inside every closed set, and closes nothing
   but a selection it does not change. *)
LEMMA GrownInside ==
    ASSUME NEW S, selected \subseteq S, Closed(S)
    PROVE  Grown \subseteq S
  BY DEF Grown, Closed

LEMMA GrownContains == selected \subseteq Grown
  BY DEF Grown

LEMMA SettledCloses == Settled => Closed(selected)
  BY DEF Settled, Grown, Closed

(* The passes do not touch the file, so what depends on it stays. *)
LEMMA FileDetermines ==
    ASSUME file' = file
    PROVE  /\ All' = All
           /\ \A S : Closed(S)' = Closed(S)
<1>1. All' = All
  BY DEF All, Positions
<1>2. ASSUME NEW p PROVE WorkloadAt(p)' = WorkloadAt(p)
  BY DEF WorkloadAt
<1>3. ASSUME NEW p PROVE Consumed(p)' = Consumed(p)
  BY DEF Consumed, WorkloadAt
<1>4. ASSUME NEW t PROVE Making(t)' = Making(t)
  BY <1>1 DEF Making, WorkloadAt
<1>5. ASSUME NEW p PROVE Predecessors(p)' = Predecessors(p)
  BY <1>3, <1>4 DEF Predecessors
<1>6. ASSUME NEW S PROVE Closed(S)' = Closed(S)
  BY <1>5 DEF Closed
<1> QED BY <1>1, <1>6

-----------------------------------------------------------------------------
LEMMA ClosureInit == Init => ClosureInv
  BY DEF Init, ClosureInv, Selecting

LEMMA StartKeepsClosure ==
    ASSUME StartSlice PROVE ClosureInv'
  BY DEF StartSlice, ClosureInv, Selecting, Least

LEMMA PassKeepsClosure ==
    ASSUME ClosureInv, ClosePass PROVE ClosureInv'
<1>1. file' = file /\ seed' = seed /\ selected' = Grown /\ Least
  BY DEF ClosePass, ClosureInv, Selecting
<1>2. All' = All /\ \A S : Closed(S)' = Closed(S)
  BY <1>1, FileDetermines
<1>3. Least'
  <2>1. seed' \subseteq selected'
    BY <1>1, GrownContains DEF Least
  <2>2. ASSUME NEW S \in SUBSET All, seed \subseteq S, Closed(S)
        PROVE  selected' \subseteq S
    BY <1>1, <2>2, GrownInside DEF Least
  <2> QED BY <1>1, <1>2, <2>1, <2>2 DEF Least
<1>4. stage' = "rebuild" => Closed(selected)'
  <2>1. stage' = "rebuild" => Settled
    BY DEF ClosePass
  <2>2. stage' = "rebuild" => selected' = selected /\ Closed(selected)
    BY <1>1, <2>1, SettledCloses DEF Settled
  <2> QED BY <1>2, <2>2 DEF Closed
<1> QED BY <1>3, <1>4 DEF ClosureInv

(* The steps that do not select leave the stages of the selection. *)
LEMMA OthersKeepClosure ==
    ASSUME ClosureInv, Convert \/ Rebuild \/ Parse PROVE ClosureInv'
<1>1. stage' \in {"gemini", "compact", "sort", "count", "done"}
  BY DEF Convert, Rebuild, Parse, Read, CompactCoreIds, SortWorkloads,
         FixOutputRefCounts, Pass
<1> QED BY <1>1 DEF ClosureInv, Selecting

LEMMA StutterKeepsClosure ==
    ASSUME ClosureInv, UNCHANGED vars PROVE ClosureInv'
<1>1. All' = All /\ \A S : Closed(S)' = Closed(S)
  BY FileDetermines DEF vars
<1> QED BY <1>1 DEF vars, ClosureInv, Selecting, Least, Closed

(* The selection is the least set that contains the seed and the producers of
   all it consumes (SliceIsClosure), for every IR and every request:
   close_under_predecessors neither misses a dependency nor adds a workload
   that is not one. *)
THEOREM SliceClosureCorrect == Spec => []SliceIsClosure
<1>1. Init => ClosureInv
  BY ClosureInit
<1>2. ClosureInv /\ [Next]_vars => ClosureInv'
  BY StartKeepsClosure, PassKeepsClosure, OthersKeepClosure, StutterKeepsClosure
     DEF Next, SliceIR
<1>3. ClosureInv => SliceIsClosure
  BY DEF ClosureInv, Selecting, Least, SliceIsClosure
<1> QED BY <1>1, <1>2, <1>3, PTL DEF Spec

-----------------------------------------------------------------------------
(* parse_workload and compact_core_ids.                                    *)

(* The parser: where a transfer of the ifmap comes from. *)
LEMMA OriginIsSource ==
    ASSUME NEW w \in FileWorkload, NEW t
    PROVE  /\ Origin(w, t) \in Nat \cup {DRAM}
           /\ Origin(w, t) # DRAM =>
                \E s \in ToSet(w.sources) : s.tid = t /\ s.from = Origin(w, t)
<1> DEFINE S == w.sources
           K == {i \in DOMAIN S : S[i].tid = t}
<1>1. S \in Seq(FileSource)
  BY DEF FileWorkload
<1>2. Origin(w, t) = IF K = {} THEN DRAM ELSE S[Min(K)].from
  BY DEF Origin
<1> HIDE DEF S
<1>3. DOMAIN S = 1 .. Len(S) /\ Len(S) \in Nat
  BY <1>1
<1>4. CASE K = {}
  BY <1>2, <1>4
<1>5. CASE K # {}
  <2>1. Min(K) \in K
    <3>1. K \in SUBSET Nat
      BY <1>3
    <3> HIDE DEF K
    <3> QED BY <1>5, <3>1, MinInSet
  <2> DEFINE s == S[Min(K)]
  <2>2. s \in FileSource /\ s \in ToSet(S) /\ s.tid = t
    <3>1. Min(K) \in DOMAIN S /\ S[Min(K)].tid = t
      BY <2>1
    <3> HIDE DEF K
    <3>2. s \in ToSet(S)
      BY <3>1 DEF ToSet
    <3>3. s \in FileSource
      BY <1>1, <3>1, ElementOfSeq
    <3> QED BY <3>1, <3>2, <3>3
  <2>3. Origin(w, t) = s.from
    BY <1>2, <1>5
  <2> HIDE DEF s, K
  <2>4. s.from \in Nat \cup {DRAM}
    BY <2>2, EndpointIds DEF FileSource
  <2> QED BY <2>2, <2>3, <2>4 DEF S
<1> QED BY <1>4, <1>5

RawSource == [tid : Tid, size : Nat, from : Nat \cup {DRAM}]

(* parse_workload: the sources of a workload and where they come from. *)
LEMMA ParsedFacts ==
    ASSUME NEW w \in FileWorkload
    PROVE  LET v == Parsed(w)
           IN  /\ v.sources \in Seq(RawSource)
               /\ \A s \in ToSet(v.sources) :
                     \/ s.tid \in ToSet(w.ifmap) /\ s.from = Origin(w, s.tid)
                     \/ s.tid \in ToSet(w.weight) /\ s.from = DRAM
               /\ v.outputs = [k \in DOMAIN w.ofmap |->
                     [tid |-> w.ofmap[k].tid, size |-> 1,
                      dests |-> [j \in DOMAIN w.ofmap[k].dests |->
                                   w.ofmap[k].dests[j].core]]]
               /\ v = [sources |-> v.sources, outputs |-> v.outputs,
                       cycles |-> 1, pe |-> FALSE]
<1> DEFINE v == Parsed(w)
           A == [i \in DOMAIN w.ifmap |->
                   [tid |-> w.ifmap[i], size |-> 1, from |-> Origin(w, w.ifmap[i])]]
           B == [i \in DOMAIN w.weight |->
                   [tid |-> w.weight[i], size |-> 1, from |-> DRAM]]
<1>1. /\ v.sources = A \o B
      /\ v.outputs = [k \in DOMAIN w.ofmap |->
                     [tid |-> w.ofmap[k].tid, size |-> 1,
                      dests |-> [j \in DOMAIN w.ofmap[k].dests |->
                                   w.ofmap[k].dests[j].core]]]
      /\ v = [sources |-> v.sources, outputs |-> v.outputs, cycles |-> 1, pe |-> FALSE]
  BY DEF Parsed
<1>2. w.ifmap \in Seq(Tid) /\ w.weight \in Seq(Tid)
  BY DEF FileWorkload
<1>3. A \in Seq(RawSource)
  <2> DEFINE s == w.ifmap
  <2>1. DOMAIN s = 1 .. Len(s) /\ Len(s) \in Nat /\ \A i \in DOMAIN s : s[i] \in Tid
    BY <1>2
  <2>2. A = [i \in DOMAIN s |-> A[i]]
    OBVIOUS
  <2>3. \A i \in DOMAIN s : A[i] \in RawSource
    BY <2>1, OriginIsSource DEF RawSource
  <2> HIDE DEF s, A
  <2> QED BY <2>1, <2>2, <2>3
<1>4. B \in Seq(RawSource)
  <2> DEFINE s == w.weight
  <2>1. DOMAIN s = 1 .. Len(s) /\ Len(s) \in Nat /\ \A i \in DOMAIN s : s[i] \in Tid
    BY <1>2
  <2>2. B = [i \in DOMAIN s |-> B[i]]
    OBVIOUS
  <2>3. \A i \in DOMAIN s : B[i] \in RawSource
    BY <2>1 DEF RawSource
  <2> HIDE DEF s, B
  <2> QED BY <2>1, <2>2, <2>3
<1>5. ASSUME NEW s \in ToSet(A)
      PROVE  s.tid \in ToSet(w.ifmap) /\ s.from = Origin(w, s.tid)
  <2>1. \E i \in DOMAIN w.ifmap : s = A[i]
    BY <1>5 DEF ToSet
  <2>2. PICK i \in DOMAIN w.ifmap : s = A[i]
    BY <2>1
  <2>3. s = [tid |-> w.ifmap[i], size |-> 1, from |-> Origin(w, w.ifmap[i])]
    BY <2>2
  <2>4. w.ifmap[i] \in ToSet(w.ifmap)
    BY DEF ToSet
  <2> HIDE DEF A
  <2> QED BY <2>3, <2>4
<1>6. ASSUME NEW s \in ToSet(B)
      PROVE  s.tid \in ToSet(w.weight) /\ s.from = DRAM
  <2>1. \E i \in DOMAIN w.weight : s = B[i]
    BY <1>6 DEF ToSet
  <2>2. PICK i \in DOMAIN w.weight : s = B[i]
    BY <2>1
  <2>3. s = [tid |-> w.weight[i], size |-> 1, from |-> DRAM]
    BY <2>2
  <2>4. w.weight[i] \in ToSet(w.weight)
    BY DEF ToSet
  <2> HIDE DEF B
  <2> QED BY <2>3, <2>4
<1> HIDE DEF A, B, v
<1>7. A \o B \in Seq(RawSource) /\ ToSet(A \o B) = ToSet(A) \cup ToSet(B)
  BY <1>3, <1>4, ConcatToSet
<1> QED BY <1>1, <1>5, <1>6, <1>7 DEF v

-----------------------------------------------------------------------------
(* The ids that have workloads, and their places after compaction. *)
Parsing ==
    /\ FileAgrees(setir.cores, file.cores)
    /\ raw = Reading

(* compact_core_ids makes cores of the mesh of the ids that have workloads. *)
LEMMA RawIdFacts ==
    ASSUME Parsing
    PROVE  /\ DOMAIN raw = RawIds /\ RawIds \in SUBSET Nat /\ IsFiniteSet(RawIds)
           /\ RawIds \subseteq DOMAIN file.cores
           /\ Cardinality(RawIds) \in Nat /\ Cardinality(RawIds) <= NumCores
           /\ \A id \in RawIds : Rank(RawIds, id) \in Core
           /\ \A id \in Nat \cup {DRAM} :
                 /\ Renamed(id) = IF id \in RawIds THEN Rank(RawIds, id) ELSE id
                 /\ Renamed(id) \in Nat \cup {DRAM}
                 /\ Renamed(id) = DRAM <=> id = DRAM
<1>1. DOMAIN raw = RawIds
  BY DEF Parsing, Reading
<1>2. /\ DOMAIN file.cores \subseteq Nat /\ IsFiniteSet(DOMAIN file.cores)
      /\ Cardinality(DOMAIN file.cores) <= NumCores
  BY DEF Parsing, FileAgrees, Lists
<1>3. RawIds \subseteq DOMAIN file.cores
  BY DEF RawIds
<1>4. /\ IsFiniteSet(RawIds) /\ Cardinality(RawIds) \in Nat
      /\ Cardinality(RawIds) <= Cardinality(DOMAIN file.cores)
      /\ Cardinality(DOMAIN file.cores) \in Nat
  BY <1>2, <1>3, FS_Subset, FS_CardinalityType
<1>5. RawIds \in SUBSET Nat /\ Cardinality(RawIds) <= NumCores
  BY <1>2, <1>3, <1>4, TaskAssumption
<1>6. \A id \in RawIds : Rank(RawIds, id) \in Nat /\ Rank(RawIds, id) \in Core
  <2> SUFFICES ASSUME NEW id \in RawIds
               PROVE  Rank(RawIds, id) \in Nat /\ Rank(RawIds, id) \in Core
    OBVIOUS
  <2>1. Rank(RawIds, id) \in Nat /\ Rank(RawIds, id) < Cardinality(RawIds)
    BY <1>4, <1>5, RankBounds
  <2> QED BY <1>4, <1>5, <2>1, TaskAssumption DEF Core
<1>7. ASSUME NEW id \in Nat \cup {DRAM}
      PROVE  /\ Renamed(id) = IF id \in RawIds THEN Rank(RawIds, id) ELSE id
             /\ Renamed(id) \in Nat \cup {DRAM}
             /\ Renamed(id) = DRAM <=> id = DRAM
  <2>1. Renamed(id) = IF id \in RawIds THEN Rank(RawIds, id) ELSE id
    BY <1>1 DEF Renamed
  <2>2. CASE id \in RawIds
    BY <1>5, <1>6, <2>1, <2>2, EndpointIds
  <2>3. CASE id \notin RawIds
    BY <2>1, <2>3
  <2> QED BY <2>1, <2>2, <2>3
<1> QED BY <1>1, <1>3, <1>4, <1>5, <1>6, <1>7

(* A core with a workload is one of the ids that are made compact. *)
LEMMA MakersHaveIds ==
    ASSUME Parsing, NEW p \in Positions(file.cores)
    PROVE  p[1] \in RawIds
<1>1. p[1] \in DOMAIN file.cores /\ p[2] \in DOMAIN file.cores[p[1]]
  BY InPositions
<1>2. DOMAIN <<>> = {}
  OBVIOUS
<1>3. file.cores[p[1]] # <<>>
  BY <1>1, <1>2
<1> QED BY <1>1, <1>3 DEF RawIds

(* One source of a renamed workload. *)
RenamedSourceFrom(s) ==
    /\ s \in Source
    /\ s.from = DRAM => MakersIn(setir.cores, s.tid) = {}
    /\ s.from # DRAM =>
         \E q \in MakersIn(file.cores, s.tid) :
            q[1] \in RawIds /\ s.from = Rank(RawIds, q[1])

(* Renaming a source lets it name the place of the producer's list. *)
LEMMA RenamedSourceFacts ==
    ASSUME Parsing, NEW w \in FileWorkload,
           WorkloadAgrees(setir.cores, file.cores, w),
           NEW r \in ToSet(Parsed(w).sources), r \in RawSource
    PROVE  RenamedSourceFrom(RenamedSource(r))
<1> DEFINE s == RenamedSource(r)
<1>1. /\ r.tid \in Tid /\ r.size \in Nat /\ r.from \in Nat \cup {DRAM}
      /\ s = [tid |-> r.tid, size |-> r.size, from |-> Renamed(r.from)]
  BY DEF RawSource, RenamedSource
<1>2. \/ r.tid \in ToSet(w.ifmap) /\ r.from = Origin(w, r.tid)
      \/ r.tid \in ToSet(w.weight) /\ r.from = DRAM
  BY ParsedFacts
<1>3. s.tid = r.tid /\ s.size = r.size /\ s.from = Renamed(r.from)
  BY <1>1
<1>4. s.from = DRAM <=> r.from = DRAM
  BY <1>1, <1>3, RawIdFacts
<1>5. CASE r.from = DRAM
  <2>1. MakersIn(setir.cores, r.tid) = {}
    BY <1>2, <1>5 DEF WorkloadAgrees
  <2>2. s \in Source
    BY <1>1, <1>3, <1>4, <1>5 DEF Source, Endpoint
  <2> QED BY <1>3, <1>4, <1>5, <2>1, <2>2 DEF RenamedSourceFrom
<1>6. CASE r.from # DRAM
  <2>1. r.from = Origin(w, r.tid)
    BY <1>2, <1>6
  <2>2. PICK f \in ToSet(w.sources) : f.tid = r.tid /\ f.from = r.from
    BY <1>6, <2>1, OriginIsSource
  <2>3. PICK q \in MakersIn(file.cores, r.tid) : q[1] = r.from
    BY <1>6, <2>2 DEF WorkloadAgrees
  <2>4. r.from \in RawIds
    BY <2>3, MakersHaveIds DEF MakersIn
  <2>5. s.from = Rank(RawIds, r.from) /\ s.from \in Core
    BY <1>1, <1>3, <2>4, RawIdFacts
  <2>6. s \in Source
    BY <1>1, <1>3, <2>5 DEF Source, Endpoint
  <2> QED BY <1>3, <1>4, <1>6, <2>3, <2>4, <2>5, <2>6 DEF RenamedSourceFrom
<1> QED BY <1>5, <1>6

(* The destinations of a workload of the file, when it was not sliced. *)
DestsNamed(w) ==
    \A out \in ToSet(w.ofmap) : \A d \in ToSet(out.dests) :
        d.core \in Endpoint \/ \E p \in Positions(file.cores) : p[1] = d.core

(* Renaming an output keeps its transfer and makes its destinations endpoints. *)
LEMMA RenamedOutputFacts ==
    ASSUME Parsing, NEW f \in FileOutput,
           NEW o, o = [tid |-> f.tid, size |-> 1,
                       dests |-> [j \in DOMAIN f.dests |-> f.dests[j].core]]
    PROVE  /\ RenamedOutput(o) \in SliceOutput /\ RenamedOutput(o).tid = f.tid
           /\ (\A d \in ToSet(f.dests) :
                 d.core \in Endpoint \/ \E p \in Positions(file.cores) : p[1] = d.core)
              => RenamedOutput(o) \in Output
<1> DEFINE D == [j \in DOMAIN f.dests |-> Renamed(f.dests[j].core)]
           s == f.dests
<1>1. f.tid \in Tid /\ s \in Seq(FileDest)
  BY DEF FileOutput
<1>2. RenamedOutput(o) = [tid |-> f.tid, size |-> 1, dests |-> D]
  <2> DEFINE E == [j \in DOMAIN f.dests |-> f.dests[j].core]
             F == [j \in DOMAIN E |-> Renamed(E[j])]
  <2>1. F = D
    OBVIOUS
  <2>2. o = [tid |-> f.tid, size |-> 1, dests |-> E]
    OBVIOUS
  <2> HIDE DEF D
  <2>3. RenamedOutput([tid |-> f.tid, size |-> 1, dests |-> E])
          = [tid |-> f.tid, size |-> 1, dests |-> F]
    <3> HIDE DEF E
    <3> QED BY DEF RenamedOutput
  <2> QED BY <2>1, <2>2, <2>3
<1>3. \A j \in DOMAIN s : s[j].core \in Nat \cup {DRAM} /\ s[j] \in ToSet(s)
  <2> SUFFICES ASSUME NEW j \in DOMAIN s
               PROVE  s[j].core \in Nat \cup {DRAM} /\ s[j] \in ToSet(s)
    OBVIOUS
  <2>1. s[j] \in FileDest
    BY <1>1, ElementOfSeq
  <2>2. s[j] \in ToSet(s)
    BY DEF ToSet
  <2> QED BY <2>1, <2>2, EndpointIds DEF FileDest
<1>4. D = [j \in DOMAIN s |-> D[j]] /\ \A j \in DOMAIN s : D[j] = Renamed(s[j].core)
  OBVIOUS
<1>5. \A j \in DOMAIN s : D[j] \in Endpoint \cup Nat
  <2> HIDE DEF D, s
  <2> QED BY <1>3, <1>4, RawIdFacts, EndpointIds
<1>6. ASSUME \A d \in ToSet(s) :
                 d.core \in Endpoint \/ \E p \in Positions(file.cores) : p[1] = d.core
      PROVE  \A j \in DOMAIN s : D[j] \in Endpoint
  <2> SUFFICES ASSUME NEW j \in DOMAIN s PROVE D[j] \in Endpoint
    OBVIOUS
  <2> DEFINE id == s[j].core
  <2>1. /\ id \in Endpoint \/ \E p \in Positions(file.cores) : p[1] = id
        /\ id \in Nat \cup {DRAM} /\ D[j] = Renamed(id)
    BY <1>3, <1>4, <1>6
  <2> HIDE DEF D, s, id
  <2>2. id \in Endpoint \/ id \in RawIds
    BY <2>1, MakersHaveIds
  <2>3. CASE id \in RawIds
    BY <2>1, <2>3, RawIdFacts DEF Endpoint
  <2>4. CASE id \notin RawIds
    BY <2>1, <2>2, <2>4, RawIdFacts
  <2> QED BY <2>3, <2>4
<1> HIDE DEF D, s
<1>7. D \in Seq(Endpoint \cup Nat)
  BY <1>1, <1>4, <1>5, MappedSeq
<1>8. ASSUME \A d \in ToSet(s) :
                 d.core \in Endpoint \/ \E p \in Positions(file.cores) : p[1] = d.core
      PROVE  D \in Seq(Endpoint)
  BY <1>1, <1>4, <1>6, <1>8, MappedSeq
<1> QED BY <1>1, <1>2, <1>7, <1>8 DEF SliceOutput, Output, s

(* A workload as it is read and renamed. *)
LEMMA RenamedFacts ==
    ASSUME Parsing, NEW w \in FileWorkload,
           WorkloadAgrees(setir.cores, file.cores, w)
    PROVE  LET v == RenamedWorkload(Parsed(w))
           IN  /\ v \in SliceWorkload /\ OutputTids(v) = OutTids(w)
               /\ \A s \in ToSet(v.sources) : RenamedSourceFrom(s)
               /\ DestsNamed(w) => v \in Workload
<1> DEFINE u == Parsed(w)
           v == RenamedWorkload(u)
           S == [i \in DOMAIN u.sources |-> RenamedSource(u.sources[i])]
           O == [k \in DOMAIN u.outputs |-> RenamedOutput(u.outputs[k])]
           src == u.sources
           of == w.ofmap
<1>1. /\ src \in Seq(RawSource)
      /\ u.outputs = [k \in DOMAIN of |->
                       [tid |-> of[k].tid, size |-> 1,
                        dests |-> [j \in DOMAIN of[k].dests |-> of[k].dests[j].core]]]
      /\ u = [sources |-> u.sources, outputs |-> u.outputs, cycles |-> 1, pe |-> FALSE]
  BY ParsedFacts
<1>2. v = [sources |-> S, outputs |-> O, cycles |-> 1, pe |-> FALSE]
  <2> DEFINE A == u.sources
             B == u.outputs
  <2>1. u = [sources |-> A, outputs |-> B, cycles |-> 1, pe |-> FALSE]
    BY <1>1
  <2>2. /\ S = [i \in DOMAIN A |-> RenamedSource(A[i])]
        /\ O = [k \in DOMAIN B |-> RenamedOutput(B[k])]
    OBVIOUS
  <2>3. v = [u EXCEPT !.sources = [i \in DOMAIN @ |-> RenamedSource(@[i])],
                      !.outputs = [k \in DOMAIN @ |-> RenamedOutput(@[k])]]
    BY DEF RenamedWorkload
  <2> HIDE DEF A, B, S, O, v, u
  <2> QED BY <2>1, <2>2, <2>3
<1>3. \A i \in DOMAIN src : RenamedSourceFrom(S[i])
  <2> SUFFICES ASSUME NEW i \in DOMAIN src PROVE RenamedSourceFrom(S[i])
    OBVIOUS
  <2>1. src[i] \in ToSet(src)
    BY DEF ToSet
  <2>2. src[i] \in RawSource
    BY <1>1, ElementOfSeq
  <2>3. RenamedSourceFrom(RenamedSource(src[i]))
    BY <2>1, <2>2, RenamedSourceFacts
  <2> QED BY <2>3
<1>4. of \in Seq(FileOutput)
  BY DEF FileWorkload
<1>5. \A k \in DOMAIN of :
        /\ O[k] \in SliceOutput /\ O[k].tid = of[k].tid
        /\ DestsNamed(w) => O[k] \in Output
  <2> SUFFICES ASSUME NEW k \in DOMAIN of
               PROVE  /\ O[k] \in SliceOutput /\ O[k].tid = of[k].tid
                      /\ DestsNamed(w) => O[k] \in Output
    OBVIOUS
  <2> DEFINE o == u.outputs[k]
  <2>1. o = [tid |-> of[k].tid, size |-> 1,
             dests |-> [j \in DOMAIN of[k].dests |-> of[k].dests[j].core]]
    BY <1>1
  <2>2. O[k] = RenamedOutput(o)
    BY <1>1
  <2>3. of[k] \in FileOutput
    BY <1>4, ElementOfSeq
  <2>4. of[k] \in ToSet(of)
    BY DEF ToSet
  <2> HIDE DEF o, O
  <2>5. DestsNamed(w) => \A d \in ToSet(of[k].dests) :
                 d.core \in Endpoint \/ \E p \in Positions(file.cores) : p[1] = d.core
    BY <2>4 DEF DestsNamed
  <2> QED BY <2>1, <2>2, <2>3, <2>5, RenamedOutputFacts
<1>6. S = [i \in DOMAIN src |-> S[i]] /\ O = [k \in DOMAIN of |-> O[k]]
  BY <1>1
<1>7. \A s \in ToSet(S) : RenamedSourceFrom(s)
  <2>1. ASSUME NEW s \in ToSet(S) PROVE \E i \in DOMAIN S : s = S[i]
    BY <2>1 DEF ToSet
  <2>2. DOMAIN S = DOMAIN src
    OBVIOUS
  <2> HIDE DEF S
  <2> QED BY <1>3, <2>1, <2>2
<1>8. {O[k].tid : k \in DOMAIN of} = OutTids(w)
  <2>1. OutTids(w) = {of[k].tid : k \in DOMAIN of}
    BY DEF OutTids
  <2> HIDE DEF O, of
  <2> QED BY <1>5, <2>1
<1> HIDE DEF S, O, src, of, u, v
<1>9. \A i \in DOMAIN src : S[i] \in Source
  BY <1>3 DEF RenamedSourceFrom
<1>10. S \in Seq(Source)
  BY <1>1, <1>6, <1>9, MappedSeq
<1>11. O \in Seq(SliceOutput) /\ DOMAIN O = DOMAIN of
  BY <1>4, <1>5, <1>6, MappedSeq
<1>12. DestsNamed(w) => O \in Seq(Output)
  BY <1>4, <1>5, <1>6, MappedSeq
<1>13. ToSet(O) = {O[k] : k \in DOMAIN of}
  BY <1>11 DEF ToSet
<1>14. OutputTids(v) = OutTids(w)
  BY <1>2, <1>8, <1>13 DEF OutputTids
<1>15. v \in SliceWorkload
  BY <1>2, <1>10, <1>11 DEF SliceWorkload
<1>16. DestsNamed(w) => v \in Workload
  BY <1>2, <1>10, <1>12 DEF Workload
<1>17. v.sources = S
  BY <1>2
<1> QED BY <1>7, <1>14, <1>15, <1>16, <1>17 DEF v, u

FileAt(p) == file.cores[p[1]][p[2]]

(* The workload at a position of the file. *)
LEMMA FilePlaces ==
    ASSUME FileAgrees(setir.cores, file.cores), NEW p \in Positions(file.cores)
    PROVE  /\ FileAt(p) \in FileWorkload
           /\ WorkloadAgrees(setir.cores, file.cores, FileAt(p))
           /\ FileAt(p) \in ToSet(file.cores[p[1]])
           /\ DestsAgree(file.cores) => DestsNamed(FileAt(p))
           /\ OutTids(FileAt(p)) \subseteq Tid
<1>1. p[1] \in DOMAIN file.cores /\ p[2] \in DOMAIN file.cores[p[1]]
  BY InPositions
<1> DEFINE s == file.cores[p[1]]
<1>2. s \in Seq(FileWorkload)
  BY <1>1 DEF FileAgrees
<1>3. FileAt(p) \in FileWorkload
  BY <1>1, <1>2, ElementOfSeq DEF FileAt
<1>4. FileAt(p) \in ToSet(s)
  BY <1>1 DEF FileAt, ToSet
<1>5. WorkloadAgrees(setir.cores, file.cores, FileAt(p))
  BY <1>1, <1>4 DEF FileAgrees
<1>6. DestsAgree(file.cores) => DestsNamed(FileAt(p))
  BY <1>1, <1>4 DEF DestsAgree, DestsNamed
<1>7. OutTids(FileAt(p)) \subseteq Tid
  <2> DEFINE o == FileAt(p).ofmap
  <2>1. o \in Seq(FileOutput)
    BY <1>3 DEF FileWorkload
  <2>2. \A k \in DOMAIN o : o[k].tid \in Tid
    <3> SUFFICES ASSUME NEW k \in DOMAIN o PROVE o[k].tid \in Tid
      OBVIOUS
    <3>1. o[k] \in FileOutput
      BY <2>1, ElementOfSeq
    <3> QED BY <3>1 DEF FileOutput
  <2> QED BY <2>2 DEF OutTids
<1> QED BY <1>3, <1>4, <1>5, <1>6, <1>7

(* The core of a workload after compaction. *)
IdOf(c) == InIdOrder(RawIds)[c + 1]

(* The list of a core is that of the id in its place, or empty. *)
LEMMA ReadLists ==
    ASSUME Parsing, NEW c \in Core
    PROVE  \/ /\ IdOf(c) \in RawIds /\ Rank(RawIds, IdOf(c)) = c
              /\ DOMAIN Original(c) = DOMAIN file.cores[IdOf(c)]
              /\ file.cores[IdOf(c)] \in Seq(FileWorkload)
              /\ \A i \in DOMAIN Original(c) :
                    Original(c)[i] = RenamedWorkload(Parsed(file.cores[IdOf(c)][i]))
           \/ /\ Original(c) = <<>>
              /\ \A id \in RawIds : Rank(RawIds, id) # c
<1>1. /\ DOMAIN raw = RawIds /\ RawIds \in SUBSET Nat /\ IsFiniteSet(RawIds)
      /\ RawIds \subseteq DOMAIN file.cores /\ Cardinality(RawIds) \in Nat
  BY RawIdFacts
<1>2. c \in Nat
  BY EndpointIds
<1>3. CASE c < Cardinality(RawIds)
  <2> DEFINE id == IdOf(c)
  <2>1. c + 1 \in 1 .. Cardinality(RawIds)
    BY <1>1, <1>2, <1>3
  <2>2. Rank(RawIds, id) = (c + 1) - 1
    BY <1>1, <2>1, InIdOrderSorts DEF IdOf
  <2>3. id \in RawIds
    <3>1. InIdOrder(RawIds) \in Seq(RawIds) /\ c + 1 \in DOMAIN InIdOrder(RawIds)
      BY <1>1, <2>1, InIdOrderSorts
    <3> QED BY <3>1, ElementOfSeq DEF IdOf
  <2>4. ReadList(c) = raw[id]
    BY <1>1, <1>3 DEF ReadList, IdOf
  <2>5. raw[id] = [i \in DOMAIN file.cores[id] |-> Parsed(file.cores[id][i])]
    BY <2>3 DEF Parsing, Reading
  <2>6. Original(c) = [i \in DOMAIN file.cores[id] |->
                         RenamedWorkload(Parsed(file.cores[id][i]))]
    BY <2>4, <2>5 DEF Original
  <2>7. file.cores[id] \in Seq(FileWorkload)
    BY <1>1, <2>3 DEF Parsing, FileAgrees
  <2> HIDE DEF id
  <2> QED BY <1>2, <2>2, <2>3, <2>6, <2>7 DEF id
<1>4. CASE ~ (c < Cardinality(RawIds))
  <2>1. ReadList(c) = <<>>
    BY <1>1, <1>4 DEF ReadList
  <2>2. Original(c) = <<>>
    BY <2>1 DEF Original
  <2>3. \A id \in RawIds : Rank(RawIds, id) # c
    BY <1>1, <1>2, <1>4, RankBounds
  <2> QED BY <2>2, <2>3
<1> QED BY <1>3, <1>4

(* The lists the passes start from have the workloads of the file. *)
LEMMA OriginalPlaces ==
    ASSUME Parsing, NEW c \in Core
    PROVE  /\ \A i \in DOMAIN Original(c) :
                 /\ <<IdOf(c), i>> \in Positions(file.cores)
                 /\ Original(c)[i] = RenamedWorkload(Parsed(FileAt(<<IdOf(c), i>>)))
           /\ \A p \in Positions(file.cores) : Rank(RawIds, p[1]) = c =>
                 /\ p[2] \in DOMAIN Original(c)
                 /\ Original(c)[p[2]] = RenamedWorkload(Parsed(FileAt(p)))
<1>1. CASE /\ Original(c) = <<>>
           /\ \A id \in RawIds : Rank(RawIds, id) # c
  <2>1. DOMAIN Original(c) = {}
    BY <1>1
  <2> QED BY <1>1, <2>1, MakersHaveIds
<1>2. CASE /\ IdOf(c) \in RawIds /\ Rank(RawIds, IdOf(c)) = c
           /\ DOMAIN Original(c) = DOMAIN file.cores[IdOf(c)]
           /\ \A i \in DOMAIN Original(c) :
                    Original(c)[i] = RenamedWorkload(Parsed(file.cores[IdOf(c)][i]))
  <2>1. RawIds \in SUBSET Nat /\ IsFiniteSet(RawIds) /\ RawIds \subseteq DOMAIN file.cores
    BY RawIdFacts
  <2>2. \A i \in DOMAIN Original(c) : <<IdOf(c), i>> \in Positions(file.cores)
    BY <1>2, <2>1, InPositions
  <2>3. ASSUME NEW p \in Positions(file.cores), Rank(RawIds, p[1]) = c
        PROVE  p[1] = IdOf(c) /\ p[2] \in DOMAIN Original(c)
    <3>1. p[1] \in RawIds
      BY MakersHaveIds
    <3>2. InIdOrder(RawIds)[Rank(RawIds, p[1]) + 1] = p[1]
      BY <2>1, <3>1, InIdOrderSorts
    <3>3. p[1] = IdOf(c)
      BY <2>3, <3>2 DEF IdOf
    <3> QED BY <1>2, <3>3, InPositions
  <2> QED BY <1>2, <2>2, <2>3 DEF FileAt
<1> QED BY <1>1, <1>2, ReadLists

(* Every source of a list names its producer, or the DRAM when there is none. *)
SourcesAgree(list) ==
    \A w \in ToSet(list) : \A s \in ToSet(w.sources) : RenamedSourceFrom(s)

(* So do the lists the sort begins with, and no transfer is output twice. *)
LEMMA OriginalFacts ==
    ASSUME Parsing, NEW c \in Core
    PROVE  /\ Original(c) \in Seq(SliceWorkload)
           /\ DestsAgree(file.cores) => Original(c) \in Seq(Workload)
           /\ SourcesAgree(Original(c)) /\ OutputsOnce(Original(c))
<1> DEFINE s == Original(c)
           at(i) == FileAt(<<IdOf(c), i>>)
<1>1. \E n \in Nat : DOMAIN s = 1 .. n
  <2>1. \A f \in Seq(FileWorkload) : Len(f) \in Nat /\ DOMAIN f = 1 .. Len(f)
    OBVIOUS
  <2>2. DOMAIN <<>> = 1 .. 0
    OBVIOUS
  <2> QED BY <2>1, <2>2, ReadLists
<1>2. \A i \in DOMAIN s : /\ at(i) \in FileWorkload
                          /\ WorkloadAgrees(setir.cores, file.cores, at(i))
                          /\ DestsAgree(file.cores) => DestsNamed(at(i))
                          /\ OutTids(at(i)) \subseteq Tid
                          /\ s[i] = RenamedWorkload(Parsed(at(i)))
  BY OriginalPlaces, FilePlaces DEF Parsing
<1>3. s = [i \in DOMAIN s |-> s[i]]
  BY DEF Original
<1> HIDE DEF s, at
<1>4. \A i \in DOMAIN s :
        /\ s[i] \in SliceWorkload /\ OutputTids(s[i]) = OutTids(at(i))
        /\ \A x \in ToSet(s[i].sources) : RenamedSourceFrom(x)
        /\ DestsAgree(file.cores) => s[i] \in Workload
  BY <1>2, RenamedFacts
<1>5. s \in Seq(SliceWorkload)
  BY <1>1, <1>3, <1>4
<1>6. DestsAgree(file.cores) => s \in Seq(Workload)
  BY <1>1, <1>3, <1>4
<1>7. SourcesAgree(s)
  <2>1. \A w \in ToSet(s) : \E i \in DOMAIN s : w = s[i]
    BY DEF ToSet
  <2> QED BY <1>4, <2>1 DEF SourcesAgree
<1>8. OutputsOnce(s)
  <2> SUFFICES ASSUME NEW i \in DOMAIN s, NEW j \in DOMAIN s, NEW t,
                      t \in OutputTids(s[i]), t \in OutputTids(s[j])
               PROVE  i = j
    BY DEF OutputsOnce
  <2>1. t \in OutTids(at(i)) /\ t \in OutTids(at(j)) /\ t \in Tid
    BY <1>2, <1>4
  <2>2. /\ <<IdOf(c), i>> \in MakersIn(file.cores, t)
        /\ <<IdOf(c), j>> \in MakersIn(file.cores, t)
    BY <2>1, OriginalPlaces DEF MakersIn, at, FileAt, s
  <2>3. <<IdOf(c), i>> = <<IdOf(c), j>>
    BY <2>1, <2>2 DEF Parsing, FileAgrees, Lists
  <2> QED BY <2>3
<1> QED BY <1>5, <1>6, <1>7, <1>8 DEF s

(* A source that is a core names the one whose list has the producer. *)
LEMMA SourcesAreOutput ==
    ASSUME Parsing, NEW s, RenamedSourceFrom(s), s.from # DRAM
    PROVE  /\ s.from \in Core
           /\ \E i \in DOMAIN Original(s.from) : s.tid \in OutputTids(Original(s.from)[i])
<1>1. PICK q \in MakersIn(file.cores, s.tid) :
         q[1] \in RawIds /\ s.from = Rank(RawIds, q[1])
  BY DEF RenamedSourceFrom
<1>2. s.from \in Core
  BY <1>1, RawIdFacts
<1>3. q \in Positions(file.cores) /\ s.tid \in OutTids(FileAt(q))
  BY <1>1 DEF MakersIn, FileAt
<1>4. /\ q[2] \in DOMAIN Original(s.from)
      /\ Original(s.from)[q[2]] = RenamedWorkload(Parsed(FileAt(q)))
  BY <1>1, <1>2, <1>3, OriginalPlaces
<1>5. OutputTids(Original(s.from)[q[2]]) = OutTids(FileAt(q))
  <2>1. FileAt(q) \in FileWorkload /\ WorkloadAgrees(setir.cores, file.cores, FileAt(q))
    BY <1>3, FilePlaces DEF Parsing
  <2> QED BY <1>4, <2>1, RenamedFacts
<1> QED BY <1>2, <1>3, <1>4, <1>5

-----------------------------------------------------------------------------
(* The sort and the reference counts keep what a list says.                *)

(* Sorting takes its workloads from the list, some of them emptied when there
   is a dependency cycle. *)
LEMMA SortedKeeps ==
    ASSUME NEW T, NEW list \in Seq(T),
           \A w \in T : LET e == [w EXCEPT !.sources = <<>>, !.outputs = <<>>]
                        IN  e \in T /\ ToSet(e.sources) = {}
    PROVE  /\ Sorted(list) \in Seq(T)
           /\ \A w \in ToSet(Sorted(list)) : \A s \in ToSet(w.sources) :
                 \E u \in ToSet(list) : s \in ToSet(u.sources)
<1> DEFINE q == KahnQueue(list)
           Emptied(w) == [w EXCEPT !.sources = <<>>, !.outputs = <<>>]
           r == [i \in DOMAIN list |->
                   IF i \in ToSet(q) THEN Emptied(list[i]) ELSE list[i]]
           s == [i \in DOMAIN list |-> list[q[i]]]
<1>1. DOMAIN list = 1 .. Len(list) /\ Len(list) \in Nat /\ \A i \in DOMAIN list : list[i] \in T
  BY SeqElements, Zenon
<1>2. \A i \in DOMAIN list : list[i] \in ToSet(list)
  BY DEF ToSet
<1>3. \A w \in T : Emptied(w) \in T /\ ToSet(Emptied(w).sources) = {}
  OBVIOUS
<1>4. Sorted(list) = list \/ Sorted(list) = r \/ (Len(q) = Len(list) /\ Sorted(list) = s)
  BY DEF Sorted
<1>5. KahnInv(list, q, Len(list)) /\ q \in Seq(DOMAIN list)
  BY KahnQueueInv DEF KahnInv
<1> HIDE DEF q, Emptied
<1>6. CASE Sorted(list) = list
  BY <1>6
<1>7. CASE Sorted(list) = r
  <2>1. /\ r = [i \in DOMAIN list |-> r[i]]
        /\ \A i \in DOMAIN list : r[i] \in T /\ (r[i] = list[i] \/ ToSet(r[i].sources) = {})
    BY <1>1, <1>3
  <2>2. \A w \in ToSet(r) : \E i \in DOMAIN list : w = r[i]
    BY DEF ToSet
  <2> HIDE DEF r
  <2>3. r \in Seq(T)
    BY <2>1, MappedSeq
  <2> QED BY <1>2, <1>7, <2>1, <2>2, <2>3
<1>8. CASE Len(q) = Len(list) /\ Sorted(list) = s
  <2>1. \A i \in DOMAIN list : q[i] \in DOMAIN list
    BY <1>1, <1>5, <1>8, ElementOfSeq, LenProperties
  <2>2. s = [i \in DOMAIN list |-> s[i]] /\ \A i \in DOMAIN list : s[i] = list[q[i]]
    OBVIOUS
  <2>3. \A w \in ToSet(s) : \E i \in DOMAIN list : w = s[i]
    BY DEF ToSet
  <2> HIDE DEF s
  <2>4. \A i \in DOMAIN list : s[i] \in T /\ s[i] \in ToSet(list)
    BY <1>1, <1>2, <2>1, <2>2
  <2>5. s \in Seq(T)
    BY <2>2, <2>4, MappedSeq
  <2> QED BY <1>8, <2>3, <2>4, <2>5
<1> QED BY <1>4, <1>6, <1>7, <1>8

-----------------------------------------------------------------------------
(* The dummy destinations are as many as an integer says. *)
LEMMA UsesAreFinite ==
    ASSUME NEW list \in Seq(SliceWorkload), NEW t
    PROVE  LocalUses(list, t) \in Nat
<1> DEFINE K(i) == {k \in DOMAIN list[i].sources :
                       /\ list[i].sources[k].tid = t
                       /\ list[i].sources[k].from # DRAM}
           X == [i \in DOMAIN list |-> {<<i, j>> : j \in K(i)}]
           Y == {{<<i, j>> : j \in K(i)} : i \in DOMAIN list}
<1>1. DOMAIN list = 1 .. Len(list) /\ Len(list) \in Nat
  OBVIOUS
<1>2. ASSUME NEW i \in DOMAIN list PROVE IsFiniteSet({<<i, j>> : j \in K(i)})
  <2>1. list[i] \in SliceWorkload
    BY ElementOfSeq
  <2> DEFINE src == list[i].sources
  <2>2. src \in Seq(Source)
    BY <2>1 DEF SliceWorkload
  <2>3. DOMAIN src = 1 .. Len(src) /\ Len(src) \in Nat
    BY <2>2
  <2>4. IsFiniteSet(DOMAIN src)
    BY <2>3, FS_Interval
  <2>5. IsFiniteSet({i} \X DOMAIN src)
    BY <2>4, FS_Singleton, FS_Product
  <2>6. {<<i, j>> : j \in K(i)} \subseteq {i} \X DOMAIN src
    OBVIOUS
  <2> QED BY <2>5, <2>6, FS_Subset
<1>3. X \in Surjection(DOMAIN list, Y)
  <2>1. \A i \in DOMAIN list : X[i] \in Y
    OBVIOUS
  <2>2. \A y \in Y : \E i \in DOMAIN list : X[i] = y
    OBVIOUS
  <2>3. X \in [DOMAIN list -> Y]
    BY <2>1
  <2> HIDE DEF X, Y
  <2> QED BY <2>2, <2>3 DEF Surjection
<1>4. \A y \in Y : IsFiniteSet(y)
  BY <1>2
<1> HIDE DEF X, Y
<1>5. IsFiniteSet(DOMAIN list)
  BY <1>1, FS_Interval
<1>6. IsFiniteSet(Y)
  BY <1>3, <1>5, FS_Surjection
<1>7. IsFiniteSet(UNION Y)
  BY <1>4, <1>6, FS_UNION
<1>8. Cardinality(UNION Y) \in Nat
  BY <1>7, FS_CardinalityType
<1> QED BY <1>8 DEF LocalUses, Y

(* An output with dummy destinations is an output. *)
LEMMA FixedOutput ==
    ASSUME NEW list \in Seq(SliceWorkload), NEW out \in SliceOutput, NEW n \in Int
    PROVE  LET f == [out EXCEPT !.dests = @ \o [i \in 1 .. n |-> 0]]
           IN  /\ f \in SliceOutput /\ f.tid = out.tid
               /\ out \in Output => f \in Output
<1> DEFINE z == [i \in 1 .. n |-> 0]
           d == out.dests
<1>1. 0 \in Endpoint
  BY TaskAssumption DEF Endpoint, Core
<1>2. z \in Seq(Endpoint)
  <2>1. CASE n \in Nat
    BY <1>1, <2>1
  <2>2. CASE n \notin Nat
    <3>1. 1 .. n = 1 .. 0
      BY <2>2
    <3>2. z = [i \in 1 .. 0 |-> 0]
      BY <3>1
    <3> QED BY <1>1, <3>2
  <2> QED BY <2>1, <2>2
<1>3. out.tid \in Tid /\ out.size \in Nat /\ d \in Seq(Endpoint \cup Nat)
      /\ out = [tid |-> out.tid, size |-> out.size, dests |-> d]
  BY DEF SliceOutput
<1>4. out \in Output => d \in Seq(Endpoint)
  BY DEF Output
<1> DEFINE f == [out EXCEPT !.dests = @ \o z]
<1> HIDE DEF z, d
<1>5. z \in Seq(Endpoint \cup Nat)
  BY <1>2, SeqMonotonic
<1>6. d \o z \in Seq(Endpoint \cup Nat) /\ (out \in Output => d \o z \in Seq(Endpoint))
  BY <1>2, <1>3, <1>4, <1>5, ConcatProperties
<1>7. f = [tid |-> out.tid, size |-> out.size, dests |-> d \o z]
  <2> DEFINE a == out.tid
             b == out.size
  <2>1. out = [tid |-> a, size |-> b, dests |-> d]
    BY <1>3
  <2> HIDE DEF a, b
  <2>2. f = [[tid |-> a, size |-> b, dests |-> d] EXCEPT !.dests = @ \o z]
    BY <2>1
  <2> HIDE DEF f
  <2>3. f = [tid |-> a, size |-> b, dests |-> d \o z]
    BY <2>2
  <2> QED BY <2>3 DEF a, b
<1>8. f \in SliceOutput /\ f.tid = out.tid /\ (out \in Output => f \in Output)
  <2> HIDE DEF f
  <2> QED BY <1>3, <1>6, <1>7 DEF SliceOutput, Output
<1> QED BY <1>8 DEF z

(* fix_output_ref_counts touches nothing but the destinations. *)
LEMMA CountedKeeps ==
    ASSUME NEW list \in Seq(SliceWorkload)
    PROVE  /\ Counted(list) \in Seq(SliceWorkload)
           /\ list \in Seq(Workload) => Counted(list) \in Seq(Workload)
           /\ DOMAIN Counted(list) = DOMAIN list
           /\ \A i \in DOMAIN list :
                 /\ Counted(list)[i].sources = list[i].sources
                 /\ OutputTids(Counted(list)[i]) = OutputTids(list[i])
<1> DEFINE Missing(out) == LocalUses(list, out.tid) - CoreDests(out)
           Fixed(out) == [out EXCEPT !.dests = @ \o [i \in 1 .. Missing(out) |-> 0]]
           W(w) == [w EXCEPT !.outputs = [k \in DOMAIN @ |-> Fixed(@[k])]]
           g == [i \in DOMAIN list |-> W(list[i])]
<1>1. Counted(list) = g
  BY DEF Counted
<1>2. ASSUME NEW out \in SliceOutput
      PROVE  /\ Fixed(out) \in SliceOutput /\ Fixed(out).tid = out.tid
             /\ out \in Output => Fixed(out) \in Output
  <2>1. LocalUses(list, out.tid) \in Nat
    BY UsesAreFinite
  <2> DEFINE d == out.dests
             D == {j \in DOMAIN d : d[j] # DRAM}
  <2>2. d \in Seq(Endpoint \cup Nat)
    BY DEF SliceOutput
  <2>3. DOMAIN d = 1 .. Len(d) /\ Len(d) \in Nat
    BY <2>2
  <2>4. IsFiniteSet(DOMAIN d) /\ D \subseteq DOMAIN d
    BY <2>3, FS_Interval
  <2>5. Cardinality(D) \in Nat
    <3> HIDE DEF D, d
    <3> QED BY <2>4, FS_Subset, FS_CardinalityType
  <2>6. CoreDests(out) \in Nat
    BY <2>5 DEF CoreDests
  <2>7. Missing(out) \in Int
    BY <2>1, <2>6
  <2> HIDE DEF Missing
  <2> QED BY <2>7, FixedOutput
<1> HIDE DEF Fixed, Missing
<1>3. ASSUME NEW w \in SliceWorkload
      PROVE  /\ W(w) \in SliceWorkload /\ (w \in Workload => W(w) \in Workload)
             /\ W(w).sources = w.sources /\ OutputTids(W(w)) = OutputTids(w)
  <2> DEFINE o == w.outputs
             p == [k \in DOMAIN o |-> Fixed(o[k])]
             a == w.sources
             b == w.cycles
             c == w.pe
  <2>1. /\ w = [sources |-> a, outputs |-> o, cycles |-> b, pe |-> c]
        /\ a \in Seq(Source) /\ b \in Nat /\ c \in BOOLEAN /\ o \in Seq(SliceOutput)
    BY DEF SliceWorkload
  <2>2. w \in Workload => o \in Seq(Output)
    BY DEF Workload
  <2> HIDE DEF a, b, c
  <2>3. \A k \in DOMAIN o : p[k] = Fixed(o[k])
    OBVIOUS
  <2>4. p = [k \in DOMAIN o |-> p[k]]
    OBVIOUS
  <2>5. W(w) = [w EXCEPT !.outputs = p]
    OBVIOUS
  <2> HIDE DEF p, o
  <2>6. W(w) = [sources |-> a, outputs |-> p, cycles |-> b, pe |-> c]
    <3> HIDE DEF W
    <3> QED BY <2>1, <2>5
  <2>7. p \in Seq(SliceOutput) /\ DOMAIN p = DOMAIN o
    <3>1. \A k \in DOMAIN o : p[k] \in SliceOutput
      BY <1>2, <2>1, <2>3, ElementOfSeq
    <3> QED BY <2>1, <2>4, <3>1, MappedSeq
  <2>8. ASSUME w \in Workload PROVE p \in Seq(Output)
    <3>1. \A k \in DOMAIN o : o[k] \in Output /\ o[k] \in SliceOutput
      BY <2>1, <2>2, <2>8, ElementOfSeq
    <3>2. \A k \in DOMAIN o : p[k] \in Output
      BY <1>2, <2>3, <3>1
    <3> QED BY <2>2, <2>4, <2>8, <3>2, MappedSeq
  <2>9. \A k \in DOMAIN o : p[k].tid = o[k].tid
    BY <1>2, <2>1, <2>3, ElementOfSeq
  <2>10. OutputTids(W(w)) = OutputTids(w)
    <3>1. /\ OutputTids(W(w)) = {x.tid : x \in ToSet(p)}
          /\ OutputTids(w) = {x.tid : x \in ToSet(o)}
      <4> HIDE DEF W
      <4> QED BY <2>1, <2>6 DEF OutputTids
    <3>2. {x.tid : x \in ToSet(p)} = {p[k].tid : k \in DOMAIN o}
      BY <2>7 DEF ToSet
    <3>3. {x.tid : x \in ToSet(o)} = {o[k].tid : k \in DOMAIN o}
      BY DEF ToSet
    <3>4. {p[k].tid : k \in DOMAIN o} = {o[k].tid : k \in DOMAIN o}
      BY <2>9
    <3> HIDE DEF W
    <3> QED BY <3>1, <3>2, <3>3, <3>4
  <2>11. W(w).sources = w.sources
    BY <2>6 DEF a
  <2> HIDE DEF W
  <2>12. W(w) \in SliceWorkload
    BY <2>1, <2>6, <2>7 DEF SliceWorkload
  <2>13. w \in Workload => W(w) \in Workload
    BY <2>1, <2>6, <2>8 DEF Workload
  <2> QED BY <2>10, <2>11, <2>12, <2>13
<1>4. g = [i \in DOMAIN list |-> g[i]] /\ \A i \in DOMAIN list : g[i] = W(list[i])
  OBVIOUS
<1> HIDE DEF g, W
<1>5. \A i \in DOMAIN list : list[i] \in SliceWorkload
  BY ElementOfSeq
<1>6. \A i \in DOMAIN list : g[i] \in SliceWorkload
  BY <1>3, <1>4, <1>5
<1>7. g \in Seq(SliceWorkload) /\ DOMAIN g = DOMAIN list
  BY <1>4, <1>6, MappedSeq
<1>8. ASSUME list \in Seq(Workload) PROVE g \in Seq(Workload)
  <2>1. \A i \in DOMAIN list : g[i] \in Workload
    BY <1>3, <1>4, <1>5, <1>8, ElementOfSeq
  <2> QED BY <1>4, <1>8, <2>1, MappedSeq
<1> QED BY <1>1, <1>3, <1>4, <1>5, <1>7, <1>8

-----------------------------------------------------------------------------
(* What every pass keeps of a list. *)
ListAgrees(list) ==
    /\ list \in Seq(SliceWorkload)
    /\ DestsAgree(file.cores) => list \in Seq(Workload)
    /\ SourcesAgree(list)

(* A workload that was moved from is a workload without sources and outputs. *)
LEMMA EmptiedWorkload ==
    /\ \A w \in SliceWorkload :
          LET e == [w EXCEPT !.sources = <<>>, !.outputs = <<>>]
          IN  e \in SliceWorkload /\ ToSet(e.sources) = {}
    /\ \A w \in Workload :
          LET e == [w EXCEPT !.sources = <<>>, !.outputs = <<>>]
          IN  e \in Workload /\ ToSet(e.sources) = {}
<1>1. ToSet(<<>>) = {}
  BY DEF ToSet
<1>2. ASSUME NEW w \in SliceWorkload
      PROVE  [w EXCEPT !.sources = <<>>, !.outputs = <<>>] \in SliceWorkload
  <2> DEFINE e == [sources |-> <<>>, outputs |-> <<>>, cycles |-> w.cycles, pe |-> w.pe]
  <2>1. [w EXCEPT !.sources = <<>>, !.outputs = <<>>] = e
    <3> DEFINE a == w.sources
               b == w.outputs
               c == w.cycles
               d == w.pe
    <3>1. w = [sources |-> a, outputs |-> b, cycles |-> c, pe |-> d]
      BY DEF SliceWorkload
    <3> DEFINE z == <<>>
    <3> HIDE DEF a, b, c, d, z
    <3>2. [w EXCEPT !.sources = z]
            = [sources |-> z, outputs |-> b, cycles |-> c, pe |-> d]
      BY <3>1
    <3>3. [[sources |-> z, outputs |-> b, cycles |-> c, pe |-> d] EXCEPT !.outputs = z]
            = [sources |-> z, outputs |-> z, cycles |-> c, pe |-> d]
      OBVIOUS
    <3>4. [w EXCEPT !.sources = z, !.outputs = z]
            = [[w EXCEPT !.sources = z] EXCEPT !.outputs = z]
      OBVIOUS
    <3> QED BY <3>2, <3>3, <3>4 DEF c, d, z
  <2>2. <<>> \in Seq(Source) /\ <<>> \in Seq(SliceOutput) /\ w.cycles \in Nat /\ w.pe \in BOOLEAN
    BY DEF SliceWorkload
  <2>3. e \in SliceWorkload
    BY <2>2 DEF SliceWorkload
  <2> HIDE DEF e
  <2> QED BY <2>1, <2>3
<1>3. ASSUME NEW w \in Workload
      PROVE  [w EXCEPT !.sources = <<>>, !.outputs = <<>>] \in Workload
  <2> DEFINE e == [sources |-> <<>>, outputs |-> <<>>, cycles |-> w.cycles, pe |-> w.pe]
  <2>1. [w EXCEPT !.sources = <<>>, !.outputs = <<>>] = e
    <3> DEFINE a == w.sources
               b == w.outputs
               c == w.cycles
               d == w.pe
    <3>1. w = [sources |-> a, outputs |-> b, cycles |-> c, pe |-> d]
      BY DEF Workload
    <3> DEFINE z == <<>>
    <3> HIDE DEF a, b, c, d, z
    <3>2. [w EXCEPT !.sources = z]
            = [sources |-> z, outputs |-> b, cycles |-> c, pe |-> d]
      BY <3>1
    <3>3. [[sources |-> z, outputs |-> b, cycles |-> c, pe |-> d] EXCEPT !.outputs = z]
            = [sources |-> z, outputs |-> z, cycles |-> c, pe |-> d]
      OBVIOUS
    <3>4. [w EXCEPT !.sources = z, !.outputs = z]
            = [[w EXCEPT !.sources = z] EXCEPT !.outputs = z]
      OBVIOUS
    <3> QED BY <3>2, <3>3, <3>4 DEF c, d, z
  <2>2. <<>> \in Seq(Source) /\ <<>> \in Seq(Output) /\ w.cycles \in Nat /\ w.pe \in BOOLEAN
    BY DEF Workload
  <2>3. e \in Workload
    BY <2>2 DEF Workload
  <2> HIDE DEF e
  <2> QED BY <2>1, <2>3
<1>4. \A w \in SliceWorkload \cup Workload :
         [w EXCEPT !.sources = <<>>, !.outputs = <<>>].sources = <<>>
  BY DEF SliceWorkload, Workload
<1> QED BY <1>1, <1>2, <1>3, <1>4

(* The passes keep it. *)
LEMMA PassesAgree ==
    ASSUME Parsing, NEW c \in Core
    PROVE  /\ ListAgrees(Original(c)) /\ ListAgrees(Sorted(Original(c)))
           /\ ListAgrees(Counted(Sorted(Original(c))))
<1> DEFINE a == Original(c)
           b == Sorted(a)
           d == Counted(b)
<1>1. ListAgrees(a)
  BY OriginalFacts DEF ListAgrees
<1>2. ListAgrees(b)
  <2> HIDE DEF a
  <2>1. a \in Seq(SliceWorkload)
    BY <1>1 DEF ListAgrees
  <2>2. /\ b \in Seq(SliceWorkload)
        /\ \A w \in ToSet(b) : \A s \in ToSet(w.sources) :
              \E u \in ToSet(a) : s \in ToSet(u.sources)
    BY <2>1, SortedKeeps, EmptiedWorkload
  <2>3. DestsAgree(file.cores) => b \in Seq(Workload)
    BY <1>1, SortedKeeps, EmptiedWorkload DEF ListAgrees
  <2>4. SourcesAgree(b)
    BY <1>1, <2>2 DEF ListAgrees, SourcesAgree
  <2> QED BY <2>2, <2>3, <2>4 DEF ListAgrees
<1>3. ListAgrees(d)
  <2> HIDE DEF b
  <2>1. b \in Seq(SliceWorkload) /\ SourcesAgree(b)
    BY <1>2 DEF ListAgrees
  <2>2. /\ d \in Seq(SliceWorkload) /\ (b \in Seq(Workload) => d \in Seq(Workload))
        /\ DOMAIN d = DOMAIN b
        /\ \A i \in DOMAIN b : d[i].sources = b[i].sources
    BY <2>1, CountedKeeps
  <2>3. \A w \in ToSet(d) : \E u \in ToSet(b) : w.sources = u.sources
    BY <2>2 DEF ToSet
  <2>4. SourcesAgree(d)
    BY <2>1, <2>3 DEF SourcesAgree
  <2> QED BY <1>2, <2>2, <2>4 DEF ListAgrees
<1> QED BY <1>1, <1>2, <1>3

-----------------------------------------------------------------------------
(* The inductive invariant.                                                *)

(* Without SET-IR no transfer has a producer there. *)
LEMMA NothingMade ==
    ASSUME NEW t
    PROVE  MakersIn(<<>>, t) = {}
<1>1. DOMAIN <<>> = {}
  OBVIOUS
<1> QED BY <1>1 DEF MakersIn, Positions

(* The IRs the tools start from are as IRAssumption says. *)
LEMMA ToolInit == Init => ToolInv
<1> SUFFICES ASSUME Init PROVE ToolInv
  OBVIOUS
<1>1. /\ slices = 0 /\ stage \in {"setir", "gemini"}
      /\ slices \in 0 .. MaxSlices
  BY MaxSlicesAssumption DEF Init
<1>2. CASE stage = "setir"
  <2>1. SetIRAgrees(setir)
    BY <1>2, IRAssumption DEF Init
  <2> QED BY <1>1, <1>2, <2>1 DEF ToolInv, Stage, FileInv, SelectionInv, PassInv
<1>3. CASE stage = "gemini"
  <2>1. file \in GeminiIRs /\ setir = NoResult
    BY <1>3 DEF Init
  <2>2. GeminiIRAgrees(file) /\ setir.cores = <<>>
    BY <2>1, IRAssumption DEF NoResult
  <2>3. \A t : MakersIn(setir.cores, t) = {}
    BY <2>2, NothingMade
  <2>4. ASSUME NEW c \in DOMAIN file.cores, NEW w \in ToSet(file.cores[c])
        PROVE  WorkloadAgrees(setir.cores, file.cores, w)
    <3>1. \A s \in ToSet(w.sources) : NamesMaker(file.cores, s)
      BY <2>2 DEF GeminiIRAgrees, GeminiWorkloadAgrees
    <3> QED BY <2>3, <3>1 DEF WorkloadAgrees, NamesMaker
  <2>5. FileAgrees(setir.cores, file.cores)
    BY <2>2, <2>4 DEF GeminiIRAgrees, FileAgrees
  <2>6. DestsAgree(file.cores) /\ EntriesAgree(file)
    BY <2>2 DEF GeminiIRAgrees, GeminiWorkloadAgrees, DestsAgree
  <2> QED BY <1>1, <1>3, <2>5, <2>6
          DEF ToolInv, Stage, FileInv, SelectionInv, PassInv
<1> QED BY <1>1, <1>2, <1>3

-----------------------------------------------------------------------------
(* The steps up to the parser. *)
LEMMA ConvertKeepsInv ==
    ASSUME ToolInv, Convert, UNCHANGED <<seed, selected, slices, raw, lists>>
    PROVE  ToolInv'
<1>1. /\ SetIRAgrees(setir) /\ setir' = setir /\ file' = Converted
      /\ stage' = "gemini" /\ slices' = slices /\ slices \in 0 .. MaxSlices
  BY DEF ToolInv, FileInv, SelectionInv, Convert
<1>2. /\ FileAgrees(setir.cores, Converted.cores) /\ DestsAgree(Converted.cores)
      /\ EntriesAgree(Converted)
  BY <1>1, ConversionAgrees, ConvertedEntriesAgree
<1>3. FileInv'
  BY <1>1, <1>2 DEF FileInv
<1> QED BY <1>1, <1>3 DEF ToolInv, Stage, SelectionInv, PassInv

(* The seed consists of workloads of the file. *)
LEMMA StartKeepsInv ==
    ASSUME ToolInv, StartSlice, UNCHANGED <<setir, raw, lists>>
    PROVE  ToolInv'
<1>1. /\ FileAgrees(setir.cores, file.cores) /\ setir' = setir /\ file' = file
      /\ stage' = "closing" /\ slices' = slices + 1
      /\ slices \in 0 .. MaxSlices /\ slices < MaxSlices
  BY DEF ToolInv, FileInv, SelectionInv, StartSlice
<1>2. slices' \in 0 .. MaxSlices /\ slices' > 0 /\ slices' # 0
  BY <1>1, MaxSlicesAssumption
<1>3. selected' \subseteq All
  BY DEF StartSlice, OfLayers, First
<1>4. All' = All
  BY <1>1, FileDetermines
<1>5. FileInv'
  BY <1>1, <1>2 DEF FileInv
<1>6. SelectionInv'
  BY <1>1, <1>2, <1>3, <1>4 DEF SelectionInv
<1> QED BY <1>1, <1>5, <1>6 DEF ToolInv, Stage, PassInv

(* The producers that are added are workloads of the file. *)
LEMMA PredecessorsExist ==
    ASSUME FileAgrees(setir.cores, file.cores), NEW p \in All
    PROVE  Predecessors(p) \subseteq All
<1>1. ASSUME NEW t \in Consumed(p), Making(t) # {}
      PROVE  LastOf(Making(t)) \in All
  <2>1. WorkloadAt(p) \in FileWorkload
    BY FilePlaces DEF All, WorkloadAt, FileAt
  <2>2. WorkloadAt(p).sources \in Seq(FileSource)
    BY <2>1 DEF FileWorkload
  <2>3. PICK s \in ToSet(WorkloadAt(p).sources) : s.tid = t
    BY <1>1 DEF Consumed
  <2>4. s \in FileSource
    BY <2>2, <2>3 DEF ToSet
  <2>5. t \in Tid
    BY <2>3, <2>4 DEF FileSource
  <2>6. Making(t) = MakersIn(file.cores, t)
    BY DEF Making, MakersIn, All, WorkloadAt
  <2>7. PICK q \in Making(t) : \A r \in Making(t) : r = q
    BY <1>1, <2>5, <2>6 DEF FileAgrees, Lists
  <2>8. LastOf(Making(t)) = q
    BY <2>7, OnlyOneIsLast
  <2> QED BY <2>7, <2>8 DEF Making
<1> QED BY <1>1 DEF Predecessors

(* A pass of the closure; the last one leaves a closed selection. *)
LEMMA CloseKeepsInv ==
    ASSUME ToolInv, ClosePass, UNCHANGED <<setir, raw, lists>>
    PROVE  ToolInv'
<1>1. /\ FileAgrees(setir.cores, file.cores) /\ setir' = setir /\ file' = file
      /\ stage' = IF Settled THEN "rebuild" ELSE "closing"
      /\ slices' = slices /\ slices \in 0 .. MaxSlices /\ slices > 0
      /\ selected \subseteq All /\ selected' = Grown
  BY DEF ToolInv, FileInv, SelectionInv, ClosePass
<1>2. slices # 0
  BY <1>1
<1>3. All' = All /\ \A S : Closed(S)' = Closed(S)
  BY <1>1, FileDetermines
<1>4. selected' \subseteq All
  BY <1>1, PredecessorsExist DEF Grown
<1>5. stage' = "rebuild" => Closed(selected)'
  <2>1. stage' = "rebuild" => selected' = selected /\ Closed(selected)
    BY <1>1, SettledCloses DEF Settled
  <2> QED BY <1>3, <2>1 DEF Closed
<1>6. FileInv'
  BY <1>1, <1>2 DEF FileInv
<1>7. SelectionInv'
  BY <1>1, <1>3, <1>4, <1>5 DEF SelectionInv
<1> QED BY <1>1, <1>6, <1>7 DEF ToolInv, Stage, PassInv

(* The new file is made of a closed selection. *)
LEMMA RebuildKeepsInv ==
    ASSUME ToolInv, Rebuild, UNCHANGED <<setir, raw, lists>>
    PROVE  ToolInv'
<1>1. /\ FileAgrees(setir.cores, file.cores) /\ setir' = setir
      /\ selected \subseteq All /\ Closed(selected)
      /\ slices' = slices /\ slices \in 0 .. MaxSlices /\ slices > 0
      /\ stage' = "gemini" /\ file'.cores = SlicedCores
  BY DEF ToolInv, FileInv, SelectionInv, Rebuild
<1>2. FileAgrees(setir.cores, SlicedCores)
  BY <1>1, SliceAgrees DEF Slicing
<1>3. slices # 0
  BY <1>1
<1>4. FileInv'
  BY <1>1, <1>2, <1>3 DEF FileInv
<1> QED BY <1>1, <1>4 DEF ToolInv, Stage, SelectionInv, PassInv

-----------------------------------------------------------------------------
(* The parser. *)
LEMMA FileIsRead ==
    ASSUME file' = file
    PROVE  Reading' = Reading /\ RawIds' = RawIds
  BY DEF Reading, RawIds

(* The lists the passes start from depend on nothing but what was read. *)
LEMMA RawIsRenamed ==
    ASSUME raw' = raw
    PROVE  \A c \in Core : Original(c)' = Original(c) /\ ReadList(c)' = ReadList(c)
  BY DEF Original, ReadList, RenamedWorkload, RenamedSource, RenamedOutput, Renamed

(* Reading the file. *)
LEMMA ReadKeepsInv ==
    ASSUME ToolInv, Read, UNCHANGED <<setir, file, seed, selected, slices>>
    PROVE  ToolInv'
<1>1. /\ FileAgrees(setir.cores, file.cores) /\ (slices = 0 => DestsAgree(file.cores))
      /\ slices \in 0 .. MaxSlices /\ stage' = "compact" /\ raw' = Reading
      /\ setir' = setir /\ file' = file /\ slices' = slices
  BY DEF ToolInv, FileInv, SelectionInv, Read, Reading
<1>2. Reading' = Reading
  BY <1>1, FileIsRead
<1>3. lists' = [c \in Core |-> ReadList(c)']
  <2>1. DOMAIN raw' = RawIds
    BY <1>1 DEF Reading
  <2> QED BY <2>1 DEF Read, ReadList
<1>4. FileInv'
  BY <1>1 DEF FileInv
<1>5. PassInv'
  BY <1>1, <1>2, <1>3 DEF PassInv
<1> QED BY <1>1, <1>4, <1>5 DEF ToolInv, Stage, SelectionInv

(* Each pass works on what the one before it left. *)
LEMMA PassKeepsInv ==
    ASSUME ToolInv, CompactCoreIds \/ SortWorkloads \/ FixOutputRefCounts,
           UNCHANGED <<setir, file, seed, selected, slices>>
    PROVE  ToolInv'
<1>1. /\ FileAgrees(setir.cores, file.cores) /\ (slices = 0 => DestsAgree(file.cores))
      /\ slices \in 0 .. MaxSlices /\ raw = Reading /\ raw' = raw
      /\ setir' = setir /\ file' = file /\ slices' = slices
      /\ stage' \in {"sort", "count", "done"}
  BY DEF ToolInv, FileInv, SelectionInv, PassInv, CompactCoreIds, SortWorkloads,
         FixOutputRefCounts, Pass
<1>2. Reading' = Reading
  BY <1>1, FileIsRead
<1>3. \A c \in Core : Original(c)' = Original(c)
  BY <1>1, RawIsRenamed
<1>4. ASSUME CompactCoreIds PROVE PassInv'
  <2>1. stage' = "sort" /\ lists = [c \in Core |-> ReadList(c)]
    BY <1>4 DEF ToolInv, PassInv, CompactCoreIds, Pass
  <2>2. lists' = [c \in Core |-> Original(c)]
    BY <1>4, <2>1 DEF CompactCoreIds, Original
  <2>3. lists' = [c \in Core |-> Original(c)']
    BY <1>3, <2>2
  <2> QED BY <1>1, <1>2, <2>1, <2>3 DEF PassInv
<1>5. ASSUME SortWorkloads PROVE PassInv'
  <2>1. stage' = "count" /\ lists = [c \in Core |-> Original(c)]
    BY <1>5 DEF ToolInv, PassInv, SortWorkloads, Pass
  <2>2. lists' = [c \in Core |-> Sorted(Original(c))]
    BY <1>5, <2>1 DEF SortWorkloads
  <2>3. lists' = [c \in Core |-> Sorted(Original(c)')]
    BY <1>3, <2>2
  <2> QED BY <1>1, <1>2, <2>1, <2>3 DEF PassInv
<1>6. ASSUME FixOutputRefCounts PROVE PassInv'
  <2>1. stage' = "done" /\ lists = [c \in Core |-> Sorted(Original(c))]
    BY <1>6 DEF ToolInv, PassInv, FixOutputRefCounts, Pass
  <2>2. lists' = [c \in Core |-> Counted(Sorted(Original(c)))]
    BY <1>6, <2>1 DEF FixOutputRefCounts
  <2>3. lists' = [c \in Core |-> Counted(Sorted(Original(c)'))]
    BY <1>3, <2>2
  <2> QED BY <1>1, <1>2, <2>1, <2>3 DEF PassInv
<1>7. FileInv'
  BY <1>1 DEF FileInv
<1> QED BY <1>1, <1>4, <1>5, <1>6, <1>7 DEF ToolInv, Stage, SelectionInv

(* Nothing happens. *)
LEMMA StutterKeepsInv ==
    ASSUME ToolInv, UNCHANGED vars PROVE ToolInv'
<1>1. /\ setir' = setir /\ file' = file /\ selected' = selected /\ slices' = slices
      /\ raw' = raw /\ lists' = lists /\ stage' = stage
  BY DEF vars
<1>2. All' = All /\ \A S : Closed(S)' = Closed(S)
  BY <1>1, FileDetermines
<1>3. Reading' = Reading
  BY <1>1, FileIsRead
<1>4. \A c \in Core : Original(c)' = Original(c) /\ ReadList(c)' = ReadList(c)
  BY <1>1, RawIsRenamed
<1>5. FileInv'
  BY <1>1 DEF ToolInv, FileInv
<1>6. SelectionInv'
  BY <1>1, <1>2 DEF ToolInv, SelectionInv, Closed
<1>7. PassInv'
  BY <1>1, <1>3, <1>4 DEF ToolInv, PassInv
<1> QED BY <1>1, <1>5, <1>6, <1>7 DEF ToolInv

(* The invariant is inductive. *)
LEMMA ToolStep == ToolInv /\ [Next]_vars => ToolInv'
<1> SUFFICES ASSUME ToolInv, [Next]_vars PROVE ToolInv'
  OBVIOUS
<1>1. CASE Convert /\ UNCHANGED <<seed, selected, slices, raw, lists>>
  BY <1>1, ConvertKeepsInv
<1>2. CASE SliceIR /\ UNCHANGED <<setir, raw, lists>>
  BY <1>2, StartKeepsInv, CloseKeepsInv, RebuildKeepsInv DEF SliceIR
<1>3. CASE Parse /\ UNCHANGED <<setir, file, seed, selected, slices>>
  BY <1>3, ReadKeepsInv, PassKeepsInv DEF Parse
<1>4. CASE UNCHANGED vars
  BY <1>4, StutterKeepsInv
<1> QED BY <1>1, <1>2, <1>3, <1>4 DEF Next

(* It holds in every state of the tools. *)
LEMMA InvariantHolds == Spec => []ToolInv
  BY ToolInit, ToolStep, PTL DEF Spec

(* In the parser's passes the file and its lists agree. *)
LEMMA PassesParse ==
    ASSUME ToolInv, stage \in {"sort", "count", "done"}
    PROVE  /\ Parsing /\ slices \in 0 .. MaxSlices
           /\ slices = 0 => DestsAgree(file.cores)
           /\ stage = "sort" => lists = [c \in Core |-> Original(c)]
           /\ stage = "count" => lists = [c \in Core |-> Sorted(Original(c))]
           /\ stage = "done" => lists = [c \in Core |-> Counted(Sorted(Original(c)))]
  BY DEF ToolInv, FileInv, SelectionInv, PassInv, Parsing

(* The lists after any of the passes. *)
LEMMA ListsAgree ==
    ASSUME ToolInv, stage \in {"sort", "count", "done"}
    PROVE  /\ DOMAIN lists = Core /\ lists = [c \in Core |-> lists[c]]
           /\ \A c \in Core : ListAgrees(lists[c])
  BY PassesParse, PassesAgree

(* It implies the properties of the runs. *)
LEMMA InvWellFormed == ToolInv => TypeOK
<1> SUFFICES ASSUME ToolInv PROVE TypeOK
  OBVIOUS
<1>1. slices \in 0 .. MaxSlices /\ stage \in Stage
  BY DEF ToolInv, SelectionInv
<1>2. ASSUME stage \in {"sort", "count", "done"}
      PROVE  lists \in [Core -> Seq(IF slices = 0 THEN Workload ELSE SliceWorkload)]
  <2>1. \A c \in Core : /\ lists[c] \in Seq(SliceWorkload)
                        /\ slices = 0 => lists[c] \in Seq(Workload)
    BY <1>2, ListsAgree, PassesParse DEF ListAgrees
  <2>2. CASE slices = 0
    BY <1>2, <2>1, <2>2, ListsAgree
  <2>3. CASE slices # 0
    BY <1>2, <2>1, <2>3, ListsAgree
  <2> QED BY <2>2, <2>3
<1> QED BY <1>1, <1>2 DEF TypeOK, Stage

(* A position of the file holds one of its workloads. *)
LEMMA PlacedWorkload ==
    ASSUME NEW p \in Positions(file.cores)
    PROVE  FileAt(p) \in FileWorkloads(p[1])
  BY InPositions DEF FileAt, FileWorkloads, ToSet

(* The entries of the DRAM. *)
LEMMA InvEntries == ToolInv => DramEntriesNameWorkloads
<1> SUFFICES ASSUME ToolInv, stage = "gemini", slices = 0
             PROVE  /\ \A e \in ToSet(file.in) : \E w \in FileWorkloads(e.core) :
                          w.wid = e.wl /\ e.tid \in OutTids(w)
                    /\ \A e \in ToSet(file.out) : \A d \in ToSet(e.dests) :
                          (\E w \in FileWorkloads(d.core) : e.tid \in ToSet(w.ifmap)) =>
                             \E w \in FileWorkloads(d.core) :
                                w.wid = d.wl /\ e.tid \in ToSet(w.ifmap)
  BY DEF DramEntriesNameWorkloads
<1>1. EntriesAgree(file)
  BY DEF ToolInv, FileInv
<1>2. ASSUME NEW e \in ToSet(file.in)
      PROVE  \E w \in FileWorkloads(e.core) : w.wid = e.wl /\ e.tid \in OutTids(w)
  <2>1. PICK p \in MakersIn(file.cores, e.tid) :
           p[1] = e.core /\ file.cores[e.core][p[2]].wid = e.wl
    BY <1>1, <1>2 DEF EntriesAgree, Names
  <2> QED BY <2>1, PlacedWorkload DEF MakersIn, FileAt
<1>3. ASSUME NEW e \in ToSet(file.out), NEW d \in ToSet(e.dests),
             NEW w \in FileWorkloads(d.core), e.tid \in ToSet(w.ifmap)
      PROVE  \E v \in FileWorkloads(d.core) : v.wid = d.wl /\ e.tid \in ToSet(v.ifmap)
  <2>1. PICK i \in DOMAIN file.cores[d.core] :
           d.core \in DOMAIN file.cores /\ w = file.cores[d.core][i]
    BY <1>3 DEF FileWorkloads, ToSet
  <2>2. <<d.core, i>> \in Positions(file.cores)
    BY <2>1, InPositions
  <2>3. PICK p \in Positions(file.cores) :
           /\ p[1] = d.core /\ e.tid \in ToSet(file.cores[p[1]][p[2]].ifmap)
           /\ file.cores[p[1]][p[2]].wid = d.wl
    BY <1>1, <1>3, <2>1, <2>2 DEF EntriesAgree
  <2> QED BY <2>3, PlacedWorkload DEF FileAt
<1> QED BY <1>2, <1>3

(* The sorted lists. *)
LEMMA InvSorted == ToolInv => SortedByDependencies
<1> SUFFICES ASSUME ToolInv, stage = "count", NEW c \in Core, Acyclic(Original(c))
             PROVE  /\ Ordered(lists[c]) /\ Len(lists[c]) = Len(Original(c))
                    /\ ToSet(lists[c]) = ToSet(Original(c))
  BY DEF SortedByDependencies
<1>1. lists[c] = Sorted(Original(c)) /\ Parsing
  BY PassesParse
<1>2. Original(c) \in Seq(SliceWorkload) /\ OutputsOnce(Original(c))
  BY <1>1, OriginalFacts
<1> QED BY <1>1, <1>2, SortedInOrder

(* Sources that are cores. *)
LEMMA InvSources == ToolInv => SourcesNameProducers
<1> SUFFICES ASSUME ToolInv, stage = "done", \A c \in Core : Acyclic(Original(c)),
                    NEW c \in Core, NEW w \in ToSet(lists[c]),
                    NEW s \in ToSet(w.sources), s.from # DRAM
             PROVE  s.from \in Core /\ Outputting(s.from, s.tid)
  BY DEF SourcesNameProducers
<1>1. Parsing /\ RenamedSourceFrom(s)
  BY PassesParse, ListsAgree DEF ListAgrees, SourcesAgree
<1>2. s.from \in Core
  BY <1>1, SourcesAreOutput
<1> DEFINE a == Original(s.from)
           b == Sorted(a)
<1>3. PICK i \in DOMAIN a : s.tid \in OutputTids(a[i])
  BY <1>1, SourcesAreOutput
<1>4. a \in Seq(SliceWorkload) /\ b \in Seq(SliceWorkload)
  BY <1>1, <1>2, PassesAgree DEF ListAgrees
<1>5. lists[s.from] = Counted(b)
  BY <1>2, PassesParse
<1>6. ToSet(b) = ToSet(a)
  BY <1>2, <1>4, SortedInOrder
<1> HIDE DEF a, b
<1>7. a[i] \in ToSet(a)
  BY DEF ToSet
<1>8. PICK j \in DOMAIN b : b[j] = a[i]
  BY <1>6, <1>7 DEF ToSet
<1>9. j \in DOMAIN Counted(b) /\ OutputTids(Counted(b)[j]) = OutputTids(a[i])
  BY <1>4, <1>8, CountedKeeps
<1>10. Counted(b)[j] \in ToSet(Counted(b))
  BY <1>9 DEF ToSet
<1> QED BY <1>2, <1>3, <1>5, <1>9, <1>10 DEF Outputting

(* Sources that are the DRAM. *)
LEMMA InvDramReads == ToolInv => DramReadsHaveNoProducer
<1> SUFFICES ASSUME ToolInv, stage = "done", NEW c \in Core,
                    NEW w \in ToSet(lists[c]), NEW s \in ToSet(w.sources), s.from = DRAM
             PROVE  ProducersOf(s.tid) = {}
  BY DEF DramReadsHaveNoProducer
<1>1. RenamedSourceFrom(s)
  BY ListsAgree DEF ListAgrees, SourcesAgree
<1>2. MakersIn(setir.cores, s.tid) = {}
  BY <1>1 DEF RenamedSourceFrom
<1> QED BY <1>2 DEF MakersIn, ProducersOf

(* After every pass of the parser the lists are well typed (TypeOK): whatever
   ids the file had, sources and destinations are cores of the mesh or the DRAM,
   destinations outside a slice excepted. *)
THEOREM ListsWellFormed == Spec => []TypeOK
  BY InvariantHolds, InvWellFormed, PTL

(* The DRAM entries of an IR that was not sliced name workloads that write and
   read the transfers (DramEntriesNameWorkloads): setir_to_gemini_ir.py finds
   them for every result of SET-IR that describes what its workloads read. *)
THEOREM EntriesNameWorkloads == Spec => []DramEntriesNameWorkloads
  BY InvariantHolds, InvEntries, PTL

(* topological_sort_workloads puts the workloads of every core without a
   dependency cycle, and only these, in an order in which none is before one it
   reads from (SortedByDependencies), for lists of any length. *)
THEOREM SortingCorrect == Spec => []SortedByDependencies
  BY InvariantHolds, InvSorted, PTL

(* A source that is a core names, at the end of all tools and passes, the core
   whose list outputs the transfer (SourcesNameProducers). *)
THEOREM SourcesCorrect == Spec => []SourcesNameProducers
  BY InvariantHolds, InvSources, PTL

(* What some workload of SET-IR outputs is loaded from no DRAM
   (DramReadsHaveNoProducer): the description of a transfer between workloads
   is lost neither in the conversion, nor in slices, nor in the parser. *)
THEOREM DramReadsCorrect == Spec => []DramReadsHaveNoProducer
  BY InvariantHolds, InvDramReads, PTL

=============================================================================
