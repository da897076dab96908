----------------------------- MODULE TokenProofs -----------------------------
(***************************************************************************)
(* Loads and write-backs are carried by exactly one token each, for every  *)
(* network, chip and latency.  The tokens are counted: a step takes one    *)
(* from a queue and adds it to another, so the sum over all queues is      *)
(* arithmetic, whichever queue it is.                                      *)
(***************************************************************************)
EXTENDS TypeProofs

-----------------------------------------------------------------------------
(* Counting in a queue.                                                    *)

One(x, S) == IF x \in S THEN 1 ELSE 0

LEMMA HeldTyped ==
    ASSUME NEW T, NEW q \in Seq(T), NEW S
    PROVE  Held(q, S) \in Nat /\ IsFiniteSet({i \in DOMAIN q : q[i] \in S})
  BY CountIsNat DEF Held

LEMMA HeldEmpty ==
    ASSUME NEW S
    PROVE  Held(<<>>, S) = 0
<1>1. {i \in DOMAIN <<>> : <<>>[i] \in S} = {}
  OBVIOUS
<1> QED
  BY <1>1, FS_EmptySet DEF Held

LEMMA HeldAppend ==
    ASSUME NEW T, NEW q \in Seq(T), NEW x \in T, NEW S
    PROVE  Held(Append(q, x), S) = Held(q, S) + One(x, S)
<1> DEFINE n == Len(q) + 1
           old == {i \in DOMAIN q : q[i] \in S}
           new == {i \in DOMAIN Append(q, x) : Append(q, x)[i] \in S}
<1>1. /\ DOMAIN q = 1 .. Len(q) /\ DOMAIN Append(q, x) = 1 .. n
      /\ \A i \in 1 .. Len(q) : Append(q, x)[i] = q[i]
      /\ Append(q, x)[n] = x /\ Len(q) \in Nat /\ n \notin 1 .. Len(q)
      /\ \A i \in 1 .. n : i \in 1 .. Len(q) \/ i = n
  OBVIOUS
<1>2. IsFiniteSet(old) /\ Cardinality(old) \in Nat
  BY CountIsNat
<1>3. CASE x \in S
  <2>1. new = old \cup {n} /\ n \notin old
    BY <1>1, <1>3
  <2>2. Cardinality(new) = Cardinality(old) + 1
    BY <1>2, <2>1, FS_AddElement
  <2> QED
    BY <1>3, <2>2 DEF Held, One
<1>4. CASE x \notin S
  <2>1. new = old
    BY <1>1, <1>4
  <2>2. Held(Append(q, x), S) = Held(q, S) /\ Held(q, S) \in Nat
    BY <1>2, <2>1 DEF Held
  <2> QED
    BY <1>4, <2>2 DEF One
<1> QED
  BY <1>3, <1>4

(* r is q without its element i. *)
Removed(q, i, r) ==
    /\ DOMAIN r = 1 .. Len(q) - 1
    /\ \A j \in 1 .. Len(q) - 1 : r[j] = IF j < i THEN q[j] ELSE q[j + 1]

LEMMA HeldRemoved ==
    ASSUME NEW T, NEW q \in Seq(T), NEW i \in 1 .. Len(q), NEW r, Removed(q, i, r),
           NEW S
    PROVE  Held(q, S) = Held(r, S) + One(q[i], S)
<1> DEFINE old == {j \in DOMAIN q : q[j] \in S}
           rest == old \ {i}
           new == {j \in DOMAIN r : r[j] \in S}
           shift == [j \in rest |-> IF j < i THEN j ELSE j - 1]
<1>1. /\ DOMAIN q = 1 .. Len(q) /\ Len(q) \in Nat /\ i \in Nat
      /\ DOMAIN r = 1 .. Len(q) - 1
      /\ \A j \in 1 .. Len(q) - 1 : r[j] = IF j < i THEN q[j] ELSE q[j + 1]
  BY DEF Removed
<1>2. IsFiniteSet(old) /\ Cardinality(old) \in Nat
  BY CountIsNat
<1>3. IsFiniteSet(rest) /\ Cardinality(rest) =
            IF i \in old THEN Cardinality(old) - 1 ELSE Cardinality(old)
  BY <1>2, FS_RemoveElement
<1>4. shift \in Bijection(rest, new)
  <2>1. ASSUME NEW j \in rest
        PROVE  shift[j] \in new
    BY <1>1
  <2>2. ASSUME NEW j \in rest, NEW k \in rest, shift[j] = shift[k]
        PROVE  j = k
    BY <1>1, <2>2
  <2>3. ASSUME NEW k \in new
        PROVE  \E j \in rest : shift[j] = k
    <3>1. CASE k < i
      <4>1. k \in rest /\ shift[k] = k
        BY <1>1, <3>1
      <4> QED BY <4>1
    <3>2. CASE ~(k < i)
      <4>1. k + 1 \in rest /\ shift[k + 1] = k
        BY <1>1, <3>2
      <4> QED BY <4>1
    <3> QED
      BY <3>1, <3>2
  <2>4. shift \in [rest -> new]
    BY <2>1
  <2> HIDE DEF rest, new, shift
  <2> QED
    BY <2>2, <2>3, <2>4 DEF Bijection, Injection, Surjection, IsInjective
<1>5. Cardinality(new) = Cardinality(rest)
  BY <1>3, <1>4, FS_Bijection DEF ExistsBijection
<1>6. i \in old <=> q[i] \in S
  BY <1>1
<1> QED
  BY <1>2, <1>3, <1>5, <1>6 DEF Held, One

LEMMA HeldTail ==
    ASSUME NEW T, NEW q \in Seq(T), q # <<>>, NEW S
    PROVE  Held(q, S) = Held(Tail(q), S) + One(Head(q), S)
<1>1. /\ Tail(q) \in Seq(T) /\ Len(Tail(q)) = Len(q) - 1
      /\ \A i \in 1 .. Len(Tail(q)) : Tail(q)[i] = q[i + 1]
  BY HeadTailProperties
<1>2. 1 \in 1 .. Len(q) /\ Head(q) = q[1]
  OBVIOUS
<1>3. Removed(q, 1, Tail(q))
  BY <1>1 DEF Removed
<1> QED
  BY <1>2, <1>3, HeldRemoved

LEMMA HeldRemoveAt ==
    ASSUME NEW T, NEW q \in Seq(T), NEW i \in 1 .. Len(q), NEW S
    PROVE  Held(q, S) = Held(RemoveAt(q, i), S) + One(q[i], S)
<1> DEFINE before == SubSeq(q, 1, i - 1)
           after  == SubSeq(q, i + 1, Len(q))
<1>1. /\ before \in Seq(T) /\ Len(before) = i - 1
      /\ \A j \in 1 .. Len(before) : before[j] = q[j]
  OBVIOUS
<1>2. /\ after \in Seq(T) /\ Len(after) = Len(q) - i
      /\ \A j \in 1 .. Len(after) : after[j] = q[i + j]
  OBVIOUS
<1>3. RemoveAt(q, i) = before \o after
  BY DEF RemoveAt
<1> HIDE DEF before, after
<1>4. /\ before \o after \in Seq(T)
      /\ Len(before \o after) = Len(before) + Len(after)
      /\ \A j \in 1 .. Len(before) + Len(after) : (before \o after)[j] =
            IF j <= Len(before) THEN before[j] ELSE after[j - Len(before)]
  BY <1>1, <1>2, ConcatProperties, Zenon
<1>5. ASSUME NEW j \in 1 .. Len(q) - 1
      PROVE  (before \o after)[j] = IF j < i THEN q[j] ELSE q[j + 1]
  <2>1. j \in 1 .. Len(before) + Len(after)
    BY <1>1, <1>2
  <2>2. CASE j < i
    <3>1. j <= Len(before) /\ j \in 1 .. Len(before)
      BY <1>1, <2>2
    <3> QED
      BY <1>1, <1>4, <2>1, <2>2, <3>1
  <2>3. CASE ~(j < i)
    <3>1. /\ ~(j <= Len(before)) /\ j - Len(before) \in 1 .. Len(after)
          /\ i + (j - Len(before)) = j + 1
      BY <1>1, <1>2, <2>3
    <3> QED
      BY <1>2, <1>4, <2>1, <2>3, <3>1
  <2> QED
    BY <2>2, <2>3
<1>6. DOMAIN (before \o after) = 1 .. Len(q) - 1
  BY <1>1, <1>2, <1>4
<1>7. Removed(q, i, RemoveAt(q, i))
  BY <1>3, <1>5, <1>6 DEF Removed
<1> QED
  BY <1>7, HeldRemoved

LEMMA HeldSame ==
    ASSUME NEW q, NEW r, NEW S, DOMAIN r = DOMAIN q,
           \A i \in DOMAIN q : r[i] \in S <=> q[i] \in S
    PROVE  Held(r, S) = Held(q, S)
  BY DEF Held

(* A queue of which nothing is counted holds nothing that counts. *)
LEMMA HeldPresent ==
    ASSUME NEW T, NEW q \in Seq(T), NEW i \in 1 .. Len(q), NEW S, q[i] \in S
    PROVE  Held(q, S) >= 1
<1> DEFINE old == {j \in DOMAIN q : q[j] \in S}
<1>1. IsFiniteSet(old) /\ Cardinality(old) \in Nat /\ i \in old
  BY CountIsNat
<1>2. /\ IsFiniteSet(old \ {i})
      /\ Cardinality(old \ {i}) = Cardinality(old) - 1
  BY <1>1, FS_RemoveElement
<1>3. Cardinality(old \ {i}) \in Nat
  BY <1>2, FS_CardinalityType
<1> QED
  BY <1>1, <1>2, <1>3 DEF Held

-----------------------------------------------------------------------------
(* Counting in the queues of all cores.                                    *)

Queues(T) == [Core -> Seq(T)]
Changes(f, g, c, q) == g = [f EXCEPT ![c] = q]
OthersSame(f, g, c) == \A d \in Core : d # c => g[d] = f[d]
CountedIn(q, S) == {i \in DOMAIN q : q[i] \in S}
Elsewhere(f, c, S) == {x \in Places(f, S) : x[1] # c}

LEMMA CoreFinite == IsFiniteSet(Core)
  BY TaskAssumption, FS_Interval DEF Core

LEMMA PlacesFinite ==
    ASSUME NEW T, NEW f \in [Core -> Seq(T)], NEW S
    PROVE  IsFiniteSet(Places(f, S))
<1> DEFINE At(c) == {<<c, i>> : i \in CountedIn(f[c], S)}
           All == {At(c) : c \in Core}
<1>1. ASSUME NEW c \in Core
      PROVE  IsFiniteSet(At(c))
  <2>1. IsFiniteSet(CountedIn(f[c], S))
    BY HeldTyped DEF CountedIn
  <2>2. [i \in CountedIn(f[c], S) |-> <<c, i>>] \in Surjection(CountedIn(f[c], S), At(c))
    BY DEF Surjection
  <2> QED
    BY <2>1, <2>2, FS_Surjection
<1>2. IsFiniteSet(All)
  <2> HIDE DEF At
  <2>1. [c \in Core |-> At(c)] \in Surjection(Core, All)
    BY DEF Surjection
  <2> QED
    BY <2>1, CoreFinite, FS_Surjection
<1>3. IsFiniteSet(UNION All)
  BY <1>1, <1>2, FS_UNION
<1> QED
  BY <1>3 DEF Places, CountedIn

(* What the queue of one core holds and what the others hold. *)
LEMMA HeldSplit ==
    ASSUME NEW T, NEW f \in [Core -> Seq(T)], NEW c \in Core, NEW S
    PROVE  /\ HeldByCores(f, S) = Held(f[c], S) + Cardinality(Elsewhere(f, c, S))
           /\ Held(f[c], S) \in Nat /\ Cardinality(Elsewhere(f, c, S)) \in Nat
<1> DEFINE here == {c} \X CountedIn(f[c], S)
<1>1. IsFiniteSet(CountedIn(f[c], S)) /\ Cardinality(CountedIn(f[c], S)) = Held(f[c], S)
      /\ Held(f[c], S) \in Nat
  BY HeldTyped DEF CountedIn, Held
<1>2. IsFiniteSet(here) /\ Cardinality(here) = Held(f[c], S)
  <2>1. IsFiniteSet({c}) /\ Cardinality({c}) = 1
    BY FS_Singleton
  <2>2. IsFiniteSet(here) /\ Cardinality(here) = 1 * Cardinality(CountedIn(f[c], S))
    BY <1>1, <2>1, FS_Product
  <2> QED
    BY <1>1, <2>2
<1>3. IsFiniteSet(Elsewhere(f, c, S)) /\ Cardinality(Elsewhere(f, c, S)) \in Nat
  <2>1. IsFiniteSet(Elsewhere(f, c, S))
    BY PlacesFinite, FS_Subset DEF Elsewhere
  <2> QED
    BY <2>1, FS_CardinalityType
<1>4. Places(f, S) = here \cup Elsewhere(f, c, S) /\ here \cap Elsewhere(f, c, S) = {}
  BY DEF Places, Elsewhere, CountedIn
<1>5. Cardinality({}) = 0
  BY FS_EmptySet
<1> HIDE DEF here
<1>6. Cardinality(here \cup Elsewhere(f, c, S)) =
          Cardinality(here) + Cardinality(Elsewhere(f, c, S)) - 0
  BY <1>2, <1>3, <1>4, <1>5, FS_Union
<1> QED
  BY <1>1, <1>2, <1>3, <1>4, <1>6 DEF HeldByCores

(* One queue changes: the others count what they did. *)
LEMMA HeldUpdate ==
    ASSUME NEW T, NEW f \in Queues(T), NEW g \in Queues(T),
           NEW c \in Core, OthersSame(f, g, c), NEW S
    PROVE  /\ HeldByCores(g, S) - Held(g[c], S) = HeldByCores(f, S) - Held(f[c], S)
           /\ HeldByCores(g, S) \in Nat /\ HeldByCores(f, S) \in Nat
           /\ Held(g[c], S) \in Nat /\ Held(f[c], S) \in Nat
<1>0. f \in [Core -> Seq(T)] /\ g \in [Core -> Seq(T)]
  BY DEF Queues
<1>1. Elsewhere(g, c, S) = Elsewhere(f, c, S)
  BY DEF Elsewhere, Places, OthersSame
<1>2. /\ HeldByCores(g, S) = Held(g[c], S) + Cardinality(Elsewhere(g, c, S))
      /\ Held(g[c], S) \in Nat /\ Cardinality(Elsewhere(g, c, S)) \in Nat
  BY <1>0, HeldSplit
<1>3. /\ HeldByCores(f, S) = Held(f[c], S) + Cardinality(Elsewhere(f, c, S))
      /\ Held(f[c], S) \in Nat /\ Cardinality(Elsewhere(f, c, S)) \in Nat
  BY <1>0, HeldSplit
<1> QED
  BY <1>1, <1>2, <1>3

LEMMA HeldByCoresTyped ==
    ASSUME NEW T, NEW f \in Queues(T), NEW S
    PROVE  HeldByCores(f, S) \in Nat
<1>1. PICK c \in Core : TRUE
  BY CoreConstant
<1>2. f \in [Core -> Seq(T)]
  BY DEF Queues
<1> QED
  BY <1>1, <1>2, HeldSplit

LEMMA HeldPushed ==
    ASSUME NEW T, NEW f \in Queues(T), NEW c \in Core, NEW x \in T, NEW S,
           NEW g, Changes(f, g, c, Append(f[c], x))
    PROVE  HeldByCores(g, S) = HeldByCores(f, S) + One(x, S)
<1> DEFINE q == Append(f[c], x)
<1>1. f[c] \in Seq(T) /\ q \in Seq(T)
  BY AppendQueue DEF Queues
<1>2. Held(q, S) = Held(f[c], S) + One(x, S)
  BY <1>1, HeldAppend
<1>3. One(x, S) \in Nat
  BY DEF One
<1>4. Changes(f, g, c, q)
  OBVIOUS
<1> HIDE DEF q
<1>5. g \in Queues(T) /\ g[c] = q /\ OthersSame(f, g, c)
  BY <1>1, <1>4 DEF Queues, OthersSame, Changes
<1>6. /\ HeldByCores(g, S) - Held(g[c], S) = HeldByCores(f, S) - Held(f[c], S)
      /\ HeldByCores(g, S) \in Nat /\ HeldByCores(f, S) \in Nat
      /\ Held(g[c], S) \in Nat /\ Held(f[c], S) \in Nat
  BY <1>5, HeldUpdate
<1> QED
  BY <1>2, <1>3, <1>5, <1>6

LEMMA HeldPopped ==
    ASSUME NEW T, NEW f \in Queues(T), NEW c \in Core, f[c] # <<>>, NEW S,
           NEW g, Changes(f, g, c, Tail(f[c]))
    PROVE  HeldByCores(f, S) = HeldByCores(g, S) + One(Head(f[c]), S)
<1> DEFINE q == Tail(f[c])
<1>1. f[c] \in Seq(T) /\ q \in Seq(T)
  BY HeadTailQueue DEF Queues
<1>2. Held(f[c], S) = Held(q, S) + One(Head(f[c]), S)
  BY <1>1, HeldTail
<1>3. One(Head(f[c]), S) \in Nat
  BY DEF One
<1>4. Changes(f, g, c, q)
  OBVIOUS
<1> HIDE DEF q
<1>5. g \in Queues(T) /\ g[c] = q /\ OthersSame(f, g, c)
  BY <1>1, <1>4 DEF Queues, OthersSame, Changes
<1>6. /\ HeldByCores(g, S) - Held(g[c], S) = HeldByCores(f, S) - Held(f[c], S)
      /\ HeldByCores(g, S) \in Nat /\ HeldByCores(f, S) \in Nat
      /\ Held(g[c], S) \in Nat /\ Held(f[c], S) \in Nat
  BY <1>5, HeldUpdate
<1> QED
  BY <1>2, <1>3, <1>5, <1>6

LEMMA HeldTaken ==
    ASSUME NEW T, NEW f \in Queues(T), NEW c \in Core, NEW i \in 1 .. Len(f[c]), NEW S,
           NEW g, Changes(f, g, c, RemoveAt(f[c], i))
    PROVE  HeldByCores(f, S) = HeldByCores(g, S) + One(f[c][i], S)
<1> DEFINE q == RemoveAt(f[c], i)
<1>1. f[c] \in Seq(T) /\ q \in Seq(T)
  BY RemoveAtQueue DEF Queues
<1>2. Held(f[c], S) = Held(q, S) + One(f[c][i], S)
  BY <1>1, HeldRemoveAt
<1>3. One(f[c][i], S) \in Nat
  BY DEF One
<1>4. Changes(f, g, c, q)
  OBVIOUS
<1> HIDE DEF q
<1>5. g \in Queues(T) /\ g[c] = q /\ OthersSame(f, g, c)
  BY <1>1, <1>4 DEF Queues, OthersSame, Changes
<1>6. /\ HeldByCores(g, S) - Held(g[c], S) = HeldByCores(f, S) - Held(f[c], S)
      /\ HeldByCores(g, S) \in Nat /\ HeldByCores(f, S) \in Nat
      /\ Held(g[c], S) \in Nat /\ Held(f[c], S) \in Nat
  BY <1>5, HeldUpdate
<1> QED
  BY <1>2, <1>3, <1>5, <1>6

-----------------------------------------------------------------------------
(* What a step does to the number of packets of two sets: sent in the
   injection queues, taken in all other queues.                            *)

Flying(taken) == [pkt : taken, ttl : Nat]

LEMMA QueuesTyped ==
    TypeInv => /\ injection \in Queues(Packet) /\ ejection \in Queues(Packet)
               /\ remote \in Queues(Packet) /\ retry \in Queues(Packet)
               /\ noc \in Seq(InFlight) /\ dram \in Seq(InFlight)
               /\ dramReplies \in Seq(Packet)
  BY DEF TypeInv, TypeOK, CoreTypeOK, QueueTypeOK, TransportTypeOK, PacketSeqs,
         Queues

LEMMA UnderWayTyped ==
    ASSUME TypeInv, NEW sent, NEW taken
    PROVE  /\ HeldByCores(injection, sent) \in Nat /\ HeldByCores(ejection, taken) \in Nat
           /\ HeldByCores(remote, taken) \in Nat /\ HeldByCores(retry, taken) \in Nat
           /\ Held(noc, Flying(taken)) \in Nat /\ Held(dram, Flying(taken)) \in Nat
           /\ Held(dramReplies, taken) \in Nat
           /\ UnderWay(sent, taken) \in Nat
<1>1. /\ HeldByCores(injection, sent) \in Nat /\ HeldByCores(ejection, taken) \in Nat
      /\ HeldByCores(remote, taken) \in Nat /\ HeldByCores(retry, taken) \in Nat
  BY QueuesTyped, HeldByCoresTyped
<1>2. /\ Held(noc, Flying(taken)) \in Nat /\ Held(dram, Flying(taken)) \in Nat
      /\ Held(dramReplies, taken) \in Nat
  BY QueuesTyped, HeldTyped
<1> QED
  BY <1>1, <1>2 DEF UnderWay, Flying

LEMMA SameUnderWay ==
    ASSUME NEW sent, NEW taken, UNCHANGED <<netVars, remote, retry, transportVars>>
    PROVE  UnderWay(sent, taken)' = UnderWay(sent, taken)
  BY DEF netVars, transportVars, UnderWay

LEMMA UnderWaySum ==
    ASSUME TypeInv, NEW sent, NEW taken
    PROVE  /\ HeldByCores(injection, sent) \in Nat /\ HeldByCores(ejection, taken) \in Nat
           /\ HeldByCores(remote, taken) \in Nat /\ HeldByCores(retry, taken) \in Nat
           /\ Held(noc, Flying(taken)) \in Nat /\ Held(dram, Flying(taken)) \in Nat
           /\ Held(dramReplies, taken) \in Nat
           /\ UnderWay(sent, taken) =
                  HeldByCores(injection, sent) + HeldByCores(ejection, taken)
                  + HeldByCores(remote, taken) + HeldByCores(retry, taken)
                  + Held(noc, Flying(taken)) + Held(dram, Flying(taken))
                  + Held(dramReplies, taken)
           /\ UnderWay(sent, taken)' =
                  HeldByCores(injection', sent) + HeldByCores(ejection', taken)
                  + HeldByCores(remote', taken) + HeldByCores(retry', taken)
                  + Held(noc', Flying(taken)) + Held(dram', Flying(taken))
                  + Held(dramReplies', taken)
  BY UnderWayTyped DEF UnderWay, Flying

LEMMA UnderWayStaysTyped ==
    ASSUME TypeInv', NEW sent, NEW taken
    PROVE  UnderWay(sent, taken)' \in Nat
<1>1. /\ injection' \in Queues(Packet) /\ ejection' \in Queues(Packet)
      /\ remote' \in Queues(Packet) /\ retry' \in Queues(Packet)
      /\ noc' \in Seq(InFlight) /\ dram' \in Seq(InFlight)
      /\ dramReplies' \in Seq(Packet)
  BY DEF TypeInv, TypeOK, CoreTypeOK, QueueTypeOK, TransportTypeOK, PacketSeqs,
         Queues
<1>2. /\ HeldByCores(injection', sent) \in Nat /\ HeldByCores(ejection', taken) \in Nat
      /\ HeldByCores(remote', taken) \in Nat /\ HeldByCores(retry', taken) \in Nat
  BY <1>1, HeldByCoresTyped
<1>3. /\ Held(noc', Flying(taken)) \in Nat /\ Held(dram', Flying(taken)) \in Nat
      /\ Held(dramReplies', taken) \in Nat
  BY <1>1, HeldTyped
<1> QED
  BY <1>2, <1>3 DEF UnderWay, Flying

LEMMA OneTyped ==
    ASSUME NEW x, NEW S
    PROVE  One(x, S) \in Nat
  BY DEF One

(* Pushing a packet into an injection queue. *)
LEMMA PushCounts ==
    ASSUME TypeInv, NEW c \in Core, NEW p \in Packet, Push(c, p), NEW sent
    PROVE  HeldByCores(injection', sent) = HeldByCores(injection, sent) + One(p, sent)
<1>1. Changes(injection, injection', c, Append(injection[c], p))
  BY DEF Push, Changes
<1> QED
  BY <1>1, QueuesTyped, HeldPushed

(* A core takes the first packet it was given. *)
Arriving == Head(ejection[cur])

LEMMA IncomingCounts ==
    ASSUME TypeInv, NEW type, Incoming(type), NEW taken
    PROVE  /\ Arriving \in Packet /\ Arriving.type = type /\ cur \in Core
           /\ HeldByCores(ejection, taken)
                = HeldByCores(ejection', taken) + One(Arriving, taken)
           /\ HeldByCores(ejection', taken) \in Nat
<1>1. ejection \in Queues(Packet) /\ cur \in Core /\ ejection[cur] # <<>>
  BY QueuesTyped, InTick DEF Incoming
<1>2. Changes(ejection, ejection', cur, Tail(ejection[cur]))
  BY DEF Incoming, Changes
<1>3. ejection' \in Queues(Packet) /\ Arriving \in Packet
  BY IncomingTyped DEF PacketSeqs, Queues, Arriving
<1> QED
  BY <1>1, <1>2, <1>3, HeldPopped, HeldByCoresTyped DEF Arriving, Incoming

(* Core cur gives a reader of its data away. *)
Answers(req) ==
    IsReady(sram[cur], req.tid) /\ sram' = [sram EXCEPT ![cur] = ReleaseRef(@, req.tid)]

LEMMA ReceiveReadRequestCounts ==
    ASSUME TypeInv, ReceiveReadRequest, UNCHANGED transportVars, NEW sent, NEW taken
    PROVE  \/ UnderWay(sent, taken)' = UnderWay(sent, taken) /\ UNCHANGED sram
           \/ /\ UnderWay(sent, taken)' + One(Arriving, taken)
                    = UnderWay(sent, taken) + One(Response(cur, Arriving), sent)
              /\ Answers(Arriving)
<1>1. /\ Arriving \in Packet /\ cur \in Core
      /\ HeldByCores(ejection, taken)
            = HeldByCores(ejection', taken) + One(Arriving, taken)
      /\ HeldByCores(ejection', taken) \in Nat
  BY IncomingCounts DEF ReceiveReadRequest
<1>2. UNCHANGED <<retry, noc, dram, dramReplies>>
  BY DEF ReceiveReadRequest, transportVars
<1>3. One(Arriving, taken) \in Nat /\ One(Response(cur, Arriving), sent) \in Nat
  BY OneTyped
<1>4. CASE IsReady(sram[cur], Arriving.tid)
  <2>1. Push(cur, Response(cur, Arriving)) /\ UNCHANGED remote /\ Answers(Arriving)
    BY <1>4 DEF ReceiveReadRequest, Arriving, Answers
  <2>2. HeldByCores(injection', sent)
            = HeldByCores(injection, sent) + One(Response(cur, Arriving), sent)
    BY <1>1, <2>1, ResponseTyped, PushCounts
  <2> QED
    BY <1>1, <1>2, <1>3, <2>1, <2>2, UnderWaySum
<1>5. CASE ~IsReady(sram[cur], Arriving.tid)
  <2>1. /\ Changes(remote, remote', cur, Append(remote[cur], Arriving))
        /\ UNCHANGED <<injection, sram>>
    BY <1>5 DEF ReceiveReadRequest, Changes, Arriving
  <2>2. HeldByCores(remote', taken) = HeldByCores(remote, taken) + One(Arriving, taken)
    BY <1>1, <2>1, QueuesTyped, HeldPushed
  <2> QED
    BY <1>1, <1>2, <1>3, <2>1, <2>2, UnderWaySum
<1> QED
  BY <1>4, <1>5

LEMMA ReceiveReadResponseCounts ==
    ASSUME TypeInv, ReceiveReadResponse, UNCHANGED transportVars, NEW sent, NEW taken
    PROVE  \/ /\ UnderWay(sent, taken)' = UnderWay(sent, taken)
              /\ UNCHANGED writeVars
           \/ /\ UnderWay(sent, taken) = UnderWay(sent, taken)' + One(Arriving, taken)
              /\ StartWrite(cur, Arriving)
<1>1. /\ Arriving \in Packet /\ cur \in Core
      /\ HeldByCores(ejection, taken)
            = HeldByCores(ejection', taken) + One(Arriving, taken)
      /\ HeldByCores(ejection', taken) \in Nat
  BY IncomingCounts DEF ReceiveReadResponse
<1>2. UNCHANGED <<injection, remote, noc, dram, dramReplies>>
  BY DEF ReceiveReadResponse, transportVars
<1>3. One(Arriving, taken) \in Nat
  BY OneTyped
<1>4. CASE CanAllocate(sram[cur], Arriving.tid, Arriving.size)
  <2>1. StartWrite(cur, Arriving) /\ UNCHANGED retry
    BY <1>4 DEF ReceiveReadResponse, Arriving
  <2> QED
    BY <1>1, <1>2, <1>3, <2>1, UnderWaySum
<1>5. CASE ~CanAllocate(sram[cur], Arriving.tid, Arriving.size)
  <2>1. Changes(retry, retry', cur, Append(retry[cur], Arriving)) /\ UNCHANGED writeVars
    BY <1>5 DEF ReceiveReadResponse, Postpone, Changes, Arriving
  <2>2. HeldByCores(retry', taken) = HeldByCores(retry, taken) + One(Arriving, taken)
    BY <1>1, <2>1, QueuesTyped, HeldPushed
  <2> QED
    BY <1>1, <1>2, <1>3, <2>1, <2>2, UnderWaySum
<1> QED
  BY <1>4, <1>5

LEMMA ReceiveWriteResponseCounts ==
    ASSUME TypeInv, ReceiveWriteResponse, UNCHANGED transportVars, NEW sent, NEW taken
    PROVE  UnderWay(sent, taken) = UnderWay(sent, taken)' + One(Arriving, taken)
<1>1. /\ HeldByCores(ejection, taken)
            = HeldByCores(ejection', taken) + One(Arriving, taken)
      /\ HeldByCores(ejection', taken) \in Nat
  BY IncomingCounts DEF ReceiveWriteResponse
<1>2. UNCHANGED <<injection, remote, retry, noc, dram, dramReplies>>
  BY DEF ReceiveWriteResponse, transportVars
<1>3. One(Arriving, taken) \in Nat
  BY OneTyped
<1> QED
  BY <1>1, <1>2, <1>3, UnderWaySum

LEMMA RetryAllocationCounts ==
    ASSUME TypeInv, RetryAllocation, UNCHANGED transportVars, NEW sent, NEW taken
    PROVE  \/ /\ UnderWay(sent, taken)' = UnderWay(sent, taken)
              /\ UNCHANGED writeVars
           \/ /\ UnderWay(sent, taken)
                    = UnderWay(sent, taken)' + One(retry[cur][cursor], taken)
              /\ StartWrite(cur, retry[cur][cursor])
<1> DEFINE p == retry[cur][cursor]
<1>1. UNCHANGED <<injection, ejection, remote, noc, dram, dramReplies>>
  BY DEF RetryAllocation, transportVars, netVars
<1>2. CASE CanAllocate(sram[cur], p.tid, p.size)
  <2>1. Changes(retry, retry', cur, RemoveAt(retry[cur], cursor)) /\ StartWrite(cur, p)
    BY <1>2 DEF RetryAllocation, Changes
  <2>2. cursor \in 1 .. Len(retry[cur]) /\ cur \in Core
    BY InTick DEF RetryAllocation, CoreTypeOK, TickTypeOK, QueueTypeOK, PacketSeqs
  <2>3. HeldByCores(retry, taken) = HeldByCores(retry', taken) + One(p, taken)
    BY <2>1, <2>2, QueuesTyped, HeldTaken
  <2>4. HeldByCores(retry', taken) \in Nat /\ One(p, taken) \in Nat
    <3>1. RemoveAt(retry[cur], cursor) \in Seq(Packet)
      BY <2>2, QueuesTyped, RemoveAtQueue DEF Queues
    <3>2. retry' \in Queues(Packet)
      BY <2>1, <2>2, <3>1, QueuesTyped DEF Queues, Changes
    <3> QED
      BY <3>2, HeldByCoresTyped, OneTyped
  <2> HIDE DEF p
  <2>5. UnderWay(sent, taken) = UnderWay(sent, taken)' + One(p, taken)
    BY <1>1, <2>3, <2>4, UnderWaySum
  <2> QED
    BY <2>1, <2>5 DEF p
<1>3. CASE ~CanAllocate(sram[cur], p.tid, p.size)
  <2>1. UNCHANGED <<writeVars, retry>>
    BY <1>3 DEF RetryAllocation
  <2> QED
    BY <1>1, <2>1, SameUnderWay DEF netVars, transportVars
<1> QED
  BY <1>2, <1>3

LEMMA ServeRemoteRequestCounts ==
    ASSUME TypeInv, ServeRemoteRequest, UNCHANGED transportVars, NEW sent, NEW taken
    PROVE  LET req == remote[cur][cursor]
           IN  \/ UnderWay(sent, taken)' = UnderWay(sent, taken) /\ UNCHANGED sram
               \/ /\ UnderWay(sent, taken)' + One(req, taken)
                        = UnderWay(sent, taken) + One(Response(cur, req), sent)
                  /\ Answers(req)
                  /\ req \in ToSet(remote[cur]) /\ req \in Packet /\ cur \in Core
<1> DEFINE req == remote[cur][cursor]
<1>1. UNCHANGED <<ejection, retry, noc, dram, dramReplies>>
  BY DEF ServeRemoteRequest, transportVars
<1>2. CASE IsReady(sram[cur], req.tid) /\ ~InjectionFull(cur)
  <2>1. /\ Changes(remote, remote', cur, RemoveAt(remote[cur], cursor))
        /\ Push(cur, Response(cur, req)) /\ Answers(req)
    BY <1>2 DEF ServeRemoteRequest, Changes, Answers
  <2>2. /\ remote \in Queues(Packet) /\ remote[cur] \in Seq(Packet)
        /\ cursor \in 1 .. Len(remote[cur]) /\ cur \in Core
    BY InTick, QueuesTyped
    DEF ServeRemoteRequest, CoreTypeOK, TickTypeOK, QueueTypeOK, PacketSeqs
  <2>3. HeldByCores(remote, taken) = HeldByCores(remote', taken) + One(req, taken)
    BY <2>1, <2>2, HeldTaken
  <2>4. HeldByCores(remote', taken) \in Nat
    <3>1. RemoveAt(remote[cur], cursor) \in Seq(Packet)
      BY <2>2, RemoveAtQueue
    <3>2. remote' \in Queues(Packet)
      BY <2>1, <2>2, <3>1 DEF Queues, Changes
    <3> QED
      BY <3>2, HeldByCoresTyped
  <2>5. req \in Packet /\ req \in ToSet(remote[cur])
    BY <2>2, InToSet
  <2> HIDE DEF req
  <2>6. HeldByCores(injection', sent)
            = HeldByCores(injection, sent) + One(Response(cur, req), sent)
    BY <2>1, <2>2, <2>5, ResponseTyped, PushCounts
  <2>7. One(req, taken) \in Nat /\ One(Response(cur, req), sent) \in Nat
    BY OneTyped
  <2>8. UnderWay(sent, taken)' + One(req, taken)
            = UnderWay(sent, taken) + One(Response(cur, req), sent)
    BY <1>1, <2>3, <2>4, <2>6, <2>7, UnderWaySum
  <2> QED
    BY <2>1, <2>2, <2>5, <2>8 DEF req
<1>3. CASE ~(IsReady(sram[cur], req.tid) /\ ~InjectionFull(cur))
  <2>1. UNCHANGED <<injection, remote, sram>>
    BY <1>3 DEF ServeRemoteRequest
  <2> QED
    BY <1>1, <2>1, SameUnderWay DEF netVars, transportVars
<1> QED
  BY <1>2, <1>3

(* A core pushes a packet of its own and nothing else moves. *)
LEMMA SendCounts ==
    ASSUME TypeInv, NEW p \in Packet, NEW c \in Core, Push(c, p),
           UNCHANGED <<ejection, remote, retry, transportVars>>, NEW sent, NEW taken
    PROVE  UnderWay(sent, taken)' = UnderWay(sent, taken) + One(p, sent)
<1>1. HeldByCores(injection', sent) = HeldByCores(injection, sent) + One(p, sent)
  BY PushCounts
<1>2. One(p, sent) \in Nat
  BY OneTyped
<1>3. UNCHANGED <<ejection, remote, retry, noc, dram, dramReplies>>
  BY DEF transportVars
<1> QED
  BY <1>1, <1>2, <1>3, UnderWaySum

-----------------------------------------------------------------------------
(* The same for the network and the memory.                                *)

LEMMA FlyingOne ==
    ASSUME NEW f \in InFlight, NEW taken
    PROVE  One(f, Flying(taken)) = One(f.pkt, taken)
<1>1. f \in Flying(taken) <=> f.pkt \in taken
  BY DEF InFlight, Flying
<1> QED
  BY <1>1 DEF One

LEMMA EnterCounts ==
    ASSUME NEW q \in Seq(InFlight), NEW p \in Packet, NEW latency \in Nat, NEW taken
    PROVE  Held(Append(q, [pkt |-> p, ttl |-> latency]), Flying(taken))
                = Held(q, Flying(taken)) + One(p, taken)
<1> DEFINE f == [pkt |-> p, ttl |-> latency]
<1>1. f \in InFlight /\ f.pkt = p
  BY DEF InFlight
<1> HIDE DEF f
<1>2. Held(Append(q, f), Flying(taken)) = Held(q, Flying(taken)) + One(f, Flying(taken))
  BY <1>1, HeldAppend
<1> QED
  BY <1>1, <1>2, FlyingOne DEF f

LEMMA NocInjectCounts ==
    ASSUME TypeInv, NEW p \in Packet, NocInject(p), NEW taken
    PROVE  Held(noc', Flying(taken)) = Held(noc, Flying(taken)) + One(p, taken)
  BY QueuesTyped, EnterCounts, SimulatorAssumption DEF NocInject

LEMMA DramSendCounts ==
    ASSUME TypeInv, NEW p \in Packet, DramSend(p), NEW taken
    PROVE  Held(dram', Flying(taken)) = Held(dram, Flying(taken)) + One(Reply(p), taken)
<1>1. Reply(p) \in Packet
  BY ReplyTyped
<1> QED
  BY <1>1, QueuesTyped, EnterCounts, SimulatorAssumption DEF DramSend

LEMMA LeaveCounts ==
    ASSUME NEW q \in Seq(InFlight), NEW i \in 1 .. Len(q), NEW taken
    PROVE  /\ Held(q, Flying(taken))
                = Held(RemoveAt(q, i), Flying(taken)) + One(q[i].pkt, taken)
           /\ Held(RemoveAt(q, i), Flying(taken)) \in Nat
           /\ q[i].pkt \in Packet
<1>1. q[i] \in InFlight /\ RemoveAt(q, i) \in Seq(InFlight)
  BY RemoveAtQueue
<1>2. Held(q, Flying(taken)) = Held(RemoveAt(q, i), Flying(taken)) + One(q[i], Flying(taken))
  BY HeldRemoveAt
<1> QED
  BY <1>1, <1>2, FlyingOne, HeldTyped DEF InFlight

(* Time passes: the packets stay. *)
LEMMA OneCycleCounts ==
    ASSUME NEW q \in Seq(InFlight), NEW taken
    PROVE  Held(OneCycle(q), Flying(taken)) = Held(q, Flying(taken))
<1>1. /\ OneCycle(q) \in Seq(InFlight) /\ Len(OneCycle(q)) = Len(q)
      /\ \A i \in 1 .. Len(q) : OneCycle(q)[i].pkt = q[i].pkt
  BY OneCycleTyped
<1>2. DOMAIN OneCycle(q) = DOMAIN q /\ DOMAIN q = 1 .. Len(q)
  BY <1>1
<1>3. ASSUME NEW i \in DOMAIN q
      PROVE  OneCycle(q)[i] \in Flying(taken) <=> q[i] \in Flying(taken)
  <2>1. OneCycle(q)[i] \in InFlight /\ q[i] \in InFlight /\ OneCycle(q)[i].pkt = q[i].pkt
    BY <1>1, <1>2
  <2> QED
    BY <2>1 DEF InFlight, Flying
<1> QED
  BY <1>2, <1>3, HeldSame

LEMMA CollectPacketCounts ==
    ASSUME TypeInv, NEW c \in Core, CollectPacket(c), NEW sent, NEW taken
    PROVE  LET p == Head(injection[c])
           IN  /\ p \in Packet /\ p \in ToSet(injection[c])
               /\ \E q \in Packet :
                    /\ IF p.dst = DRAM /\ ~OnNoc THEN q = Reply(p) ELSE q \in Routed(p)
                    /\ UnderWay(sent, taken)' + One(p, sent)
                            = UnderWay(sent, taken) + One(q, taken)
<1> DEFINE p == Head(injection[c])
<1>1. /\ injection \in Queues(Packet) /\ injection[c] \in Seq(Packet)
      /\ injection[c] # <<>>
  BY QueuesTyped DEF CollectPacket, Queues
<1>2. p \in Packet /\ p \in ToSet(injection[c]) /\ Tail(injection[c]) \in Seq(Packet)
  BY <1>1, HeadTailQueue
<1>3. Changes(injection, injection', c, Tail(injection[c]))
  BY DEF CollectPacket, Changes
<1>4. HeldByCores(injection, sent) = HeldByCores(injection', sent) + One(p, sent)
  BY <1>1, <1>3, HeldPopped
<1>5. HeldByCores(injection', sent) \in Nat
  <2>1. injection' \in Queues(Packet)
    BY <1>1, <1>2, <1>3 DEF Queues, Changes
  <2> QED
    BY <2>1, HeldByCoresTyped
<1>6. UNCHANGED <<ejection, remote, retry, dramReplies>>
  BY DEF CollectPacket, QuietCores
<1>7. CASE p.dst = DRAM /\ ~OnNoc
  <2>1. DramSend(p) /\ UNCHANGED noc
    BY <1>7 DEF CollectPacket
  <2> HIDE DEF p
  <2>2. /\ Held(dram', Flying(taken)) = Held(dram, Flying(taken)) + One(Reply(p), taken)
        /\ Reply(p) \in Packet
    BY <1>2, <2>1, DramSendCounts, ReplyTyped
  <2>3. One(p, sent) \in Nat /\ One(Reply(p), taken) \in Nat
    BY OneTyped
  <2>4. UnderWay(sent, taken)' + One(p, sent)
            = UnderWay(sent, taken) + One(Reply(p), taken)
    BY <1>4, <1>5, <1>6, <2>1, <2>2, <2>3, UnderWaySum
  <2> QED
    BY <1>2, <1>7, <2>2, <2>4 DEF p
<1>8. CASE ~(p.dst = DRAM /\ ~OnNoc)
  <2>1. UNCHANGED dram /\ \E q \in Routed(p) : NocInject(q)
    BY <1>8 DEF CollectPacket
  <2>2. PICK q \in Routed(p) : NocInject(q)
    BY <2>1
  <2> HIDE DEF p
  <2>3. q \in Packet
    BY <1>2, RoutedTyped
  <2>4. Held(noc', Flying(taken)) = Held(noc, Flying(taken)) + One(q, taken)
    BY <2>2, <2>3, NocInjectCounts
  <2>5. One(p, sent) \in Nat /\ One(q, taken) \in Nat
    BY OneTyped
  <2>6. UnderWay(sent, taken)' + One(p, sent) = UnderWay(sent, taken) + One(q, taken)
    BY <1>4, <1>5, <1>6, <2>1, <2>4, <2>5, UnderWaySum
  <2> QED
    BY <1>2, <1>8, <2>2, <2>3, <2>6 DEF p
<1> QED
  BY <1>7, <1>8

LEMMA InjectDramResponseCounts ==
    ASSUME TypeInv, InjectDramResponse, NEW sent, NEW taken
    PROVE  UnderWay(sent, taken)' = UnderWay(sent, taken)
<1> DEFINE p == Head(dramReplies)
<1>1. dramReplies \in Seq(Packet) /\ dramReplies # <<>>
  BY QueuesTyped DEF InjectDramResponse
<1>2. p \in Packet /\ Tail(dramReplies) \in Seq(Packet)
  BY <1>1, HeadTailQueue
<1>3. NocInject(p) /\ dramReplies' = Tail(dramReplies)
  BY DEF InjectDramResponse
<1>4. UNCHANGED <<injection, ejection, remote, retry, dram>>
  BY DEF InjectDramResponse, QuietCores, netVars
<1>5. Held(dramReplies, taken) = Held(Tail(dramReplies), taken) + One(p, taken)
  BY <1>1, HeldTail
<1>6. Held(dramReplies', taken) \in Nat
  BY <1>2, <1>3, HeldTyped
<1> HIDE DEF p
<1>7. Held(noc', Flying(taken)) = Held(noc, Flying(taken)) + One(p, taken)
  BY <1>2, <1>3, NocInjectCounts
<1>8. One(p, taken) \in Nat /\ Held(dramReplies, taken) = Held(dramReplies', taken) + One(p, taken)
  BY <1>3, <1>5, OneTyped
<1> QED
  BY <1>4, <1>6, <1>7, <1>8, UnderWaySum

LEMMA AdvanceCounts ==
    ASSUME TypeInv, Advance, NEW sent, NEW taken
    PROVE  UnderWay(sent, taken)' = UnderWay(sent, taken)
<1>1. UNCHANGED <<injection, ejection, remote, retry, dramReplies>>
  BY DEF Advance, QuietCores, netVars
<1>2. noc' = OneCycle(noc) /\ dram' = OneCycle(dram)
  BY DEF Advance
<1>3. /\ Held(noc', Flying(taken)) = Held(noc, Flying(taken))
      /\ Held(dram', Flying(taken)) = Held(dram, Flying(taken))
  BY <1>2, QueuesTyped, OneCycleCounts
<1> QED
  BY <1>1, <1>3, UnderWaySum

(* A packet is handed to a core. *)
LEMMA ReceiveCounts ==
    ASSUME TypeInv, NEW c \in Core, NEW p \in Packet, Receive(c, p), NEW taken
    PROVE  HeldByCores(ejection', taken) = HeldByCores(ejection, taken) + One(p, taken)
<1>1. Changes(ejection, ejection', c, Append(ejection[c], p))
  BY DEF Receive, Changes
<1> QED
  BY <1>1, QueuesTyped, HeldPushed

(* What the deliveries move. *)
LEMMA DeliverToCoreMoves ==
    ASSUME TypeInv, NEW c \in Core, DeliverToCore(c)
    PROVE  /\ \E i \in 1 .. Len(noc) :
                /\ noc[i].pkt.dst = NodeId(c)
                /\ Receive(c, noc[i].pkt) /\ noc' = RemoveAt(noc, i)
           /\ UNCHANGED <<injection, remote, retry, dram, dramReplies>>
<1>1. Min(DueAt(NodeId(c))) \in DueAt(NodeId(c)) /\ DueAt(NodeId(c)) \subseteq 1 .. Len(noc)
  BY DueTyped DEF DeliverToCore, TypeInv, TypeOK
<1>2. noc[Min(DueAt(NodeId(c)))].pkt.dst = NodeId(c)
  BY <1>1 DEF DueAt
<1> QED
  BY <1>1, <1>2 DEF DeliverToCore, QuietCores

LEMMA ForwardToDramMoves ==
    ASSUME TypeInv, NEW m \in DOMAIN MemoryNodes, ForwardToDram(m)
    PROVE  /\ \E i \in 1 .. Len(noc) :
                /\ noc[i].pkt.dst \in ToSet(MemoryNodes)
                /\ DramSend(noc[i].pkt) /\ noc' = RemoveAt(noc, i)
           /\ UNCHANGED <<injection, ejection, remote, retry, dramReplies>>
<1> DEFINE node == MemoryNodes[m]
<1>1. Min(DueAt(node)) \in DueAt(node) /\ DueAt(node) \subseteq 1 .. Len(noc)
  BY DueTyped DEF ForwardToDram, TypeInv, TypeOK
<1>2. noc[Min(DueAt(node))].pkt.dst = node
  BY <1>1 DEF DueAt
<1>3. node \in ToSet(MemoryNodes)
  BY SimulatorAssumption, InToSet
<1> QED
  BY <1>1, <1>2, <1>3 DEF ForwardToDram, QuietCores, netVars

LEMMA DeliverDramResponseMoves ==
    ASSUME TypeInv, DeliverDramResponse
    PROVE  /\ \E i \in 1 .. Len(dram) :
                /\ dram' = RemoveAt(dram, i)
                /\ IF OnNoc
                     THEN /\ dramReplies' = Append(dramReplies, dram[i].pkt)
                          /\ UNCHANGED ejection
                     ELSE Receive(dram[i].pkt.dst, dram[i].pkt) /\ UNCHANGED dramReplies
           /\ UNCHANGED <<injection, remote, retry, noc>>
<1>1. Min(DueResponses) \in DueResponses /\ DueResponses \subseteq 1 .. Len(dram)
  BY DueTyped DEF DeliverDramResponse, TypeInv, TypeOK
<1> QED
  BY <1>1 DEF DeliverDramResponse, QuietCores

LEMMA DeliverToCoreCounts ==
    ASSUME TypeInv, NEW c \in Core, DeliverToCore(c), NEW sent, NEW taken
    PROVE  UnderWay(sent, taken)' = UnderWay(sent, taken)
<1>1. PICK i \in 1 .. Len(noc) : Receive(c, noc[i].pkt) /\ noc' = RemoveAt(noc, i)
  BY DeliverToCoreMoves
<1>2. UNCHANGED <<injection, remote, retry, dram, dramReplies>>
  BY DeliverToCoreMoves
<1>3. /\ Held(noc, Flying(taken)) = Held(noc', Flying(taken)) + One(noc[i].pkt, taken)
      /\ Held(noc', Flying(taken)) \in Nat /\ noc[i].pkt \in Packet
  BY <1>1, QueuesTyped, LeaveCounts
<1>4. HeldByCores(ejection', taken) = HeldByCores(ejection, taken) + One(noc[i].pkt, taken)
  BY <1>1, <1>3, ReceiveCounts
<1>5. One(noc[i].pkt, taken) \in Nat
  BY OneTyped
<1> QED
  BY SMTT(30), <1>2, <1>3, <1>4, <1>5, UnderWaySum

(* The network holds leaves tokens less and the memory enters tokens more. *)
LEMMA NocToDram ==
    ASSUME TypeInv, NEW sent, NEW taken, NEW leaves \in Nat, NEW enters \in Nat,
           UNCHANGED <<injection, ejection, remote, retry, dramReplies>>,
           Held(noc, Flying(taken)) = Held(noc', Flying(taken)) + leaves,
           Held(noc', Flying(taken)) \in Nat,
           Held(dram', Flying(taken)) = Held(dram, Flying(taken)) + enters
    PROVE  UnderWay(sent, taken)' + leaves = UnderWay(sent, taken) + enters
  BY UnderWaySum

LEMMA ForwardToDramCounts ==
    ASSUME TypeInv, NEW m \in DOMAIN MemoryNodes, ForwardToDram(m), NEW sent, NEW taken
    PROVE  \E i \in 1 .. Len(noc) :
             /\ noc[i].pkt.dst \in ToSet(MemoryNodes) /\ noc[i].pkt \in Packet
             /\ UnderWay(sent, taken)' + One(noc[i].pkt, taken)
                    = UnderWay(sent, taken) + One(Reply(noc[i].pkt), taken)
<1>1. PICK i \in 1 .. Len(noc) :
        /\ noc[i].pkt.dst \in ToSet(MemoryNodes)
        /\ DramSend(noc[i].pkt) /\ noc' = RemoveAt(noc, i)
  BY ForwardToDramMoves
<1>2. UNCHANGED <<injection, ejection, remote, retry, dramReplies>>
  BY ForwardToDramMoves
<1>3. /\ Held(noc, Flying(taken)) = Held(noc', Flying(taken)) + One(noc[i].pkt, taken)
      /\ Held(noc', Flying(taken)) \in Nat /\ noc[i].pkt \in Packet
  BY <1>1, QueuesTyped, LeaveCounts
<1>4. Held(dram', Flying(taken)) = Held(dram, Flying(taken)) + One(Reply(noc[i].pkt), taken)
  BY <1>1, <1>3, DramSendCounts
<1>5. One(noc[i].pkt, taken) \in Nat /\ One(Reply(noc[i].pkt), taken) \in Nat
  BY OneTyped
<1>6. UnderWay(sent, taken)' + One(noc[i].pkt, taken)
        = UnderWay(sent, taken) + One(Reply(noc[i].pkt), taken)
  BY <1>2, <1>3, <1>4, <1>5, NocToDram
<1> QED
  BY <1>1, <1>3, <1>6

LEMMA DeliverDramResponseCounts ==
    ASSUME TypeInv, DeliverDramResponse, NEW sent, NEW taken,
           ~OnNoc => \A i \in 1 .. Len(dram) : dram[i].pkt.dst \in Core
    PROVE  UnderWay(sent, taken)' = UnderWay(sent, taken)
<1>1. PICK i \in 1 .. Len(dram) :
        /\ dram' = RemoveAt(dram, i)
        /\ IF OnNoc
             THEN /\ dramReplies' = Append(dramReplies, dram[i].pkt)
                  /\ UNCHANGED ejection
             ELSE Receive(dram[i].pkt.dst, dram[i].pkt) /\ UNCHANGED dramReplies
  BY DeliverDramResponseMoves
<1>2. UNCHANGED <<injection, remote, retry, noc>>
  BY DeliverDramResponseMoves
<1>3. /\ Held(dram, Flying(taken)) = Held(dram', Flying(taken)) + One(dram[i].pkt, taken)
      /\ Held(dram', Flying(taken)) \in Nat /\ dram[i].pkt \in Packet
  BY <1>1, QueuesTyped, LeaveCounts
<1>4. One(dram[i].pkt, taken) \in Nat
  BY OneTyped
<1>5. CASE OnNoc
  <2>1. Held(dramReplies', taken) = Held(dramReplies, taken) + One(dram[i].pkt, taken)
    BY <1>1, <1>3, <1>5, QueuesTyped, HeldAppend
  <2> QED
    BY SMTT(30), <1>1, <1>2, <1>3, <1>4, <1>5, <2>1, UnderWaySum
<1>6. CASE ~OnNoc
  <2>1. HeldByCores(ejection', taken)
            = HeldByCores(ejection, taken) + One(dram[i].pkt, taken)
    BY <1>1, <1>3, <1>6, ReceiveCounts
  <2> QED
    BY SMTT(30), <1>1, <1>2, <1>3, <1>4, <1>6, <2>1, UnderWaySum
<1> QED
  BY <1>5, <1>6

-----------------------------------------------------------------------------
(* Every packet is of a kind its queue is for, and addressed to who gets it. *)

(* What the queues g of the cores hold and f did not is in X, at core c. *)
Adds(f, g, c, X) ==
    \A d \in Core : \A y \in ToSet(g[d]) : y \in ToSet(f[d]) \/ (d = c /\ y \in X)

LEMMA AddsPushed ==
    ASSUME NEW T, NEW f \in Queues(T), NEW c \in Core, NEW x \in T,
           NEW g, Changes(f, g, c, Append(f[c], x))
    PROVE  Adds(f, g, c, {x})
<1>1. f[c] \in Seq(T)
  BY DEF Queues
<1>2. ToSet(Append(f[c], x)) = ToSet(f[c]) \cup {x}
  BY <1>1, AppendQueue
<1> QED
  BY <1>2 DEF Adds, Queues, Changes

LEMMA AddsFewer ==
    ASSUME NEW T, NEW f \in Queues(T), NEW c \in Core, NEW q,
           ToSet(q) \subseteq ToSet(f[c]), NEW g, Changes(f, g, c, q), NEW X
    PROVE  Adds(f, g, c, X)
  BY DEF Adds, Queues, Changes

LEMMA AddsPopped ==
    ASSUME NEW T, NEW f \in Queues(T), NEW c \in Core, f[c] # <<>>,
           NEW g, Changes(f, g, c, Tail(f[c])), NEW X
    PROVE  Adds(f, g, c, X)
<1>1. f[c] \in Seq(T)
  BY DEF Queues
<1>2. ToSet(Tail(f[c])) \subseteq ToSet(f[c])
  BY <1>1, HeadTailQueue
<1> QED
  BY <1>2, AddsFewer

LEMMA AddsTaken ==
    ASSUME NEW T, NEW f \in Queues(T), NEW c \in Core, NEW i \in 1 .. Len(f[c]),
           NEW g, Changes(f, g, c, RemoveAt(f[c], i)), NEW X
    PROVE  Adds(f, g, c, X)
<1>1. f[c] \in Seq(T)
  BY DEF Queues
<1>2. ToSet(RemoveAt(f[c], i)) \subseteq ToSet(f[c])
  BY <1>1, RemoveAtQueue
<1> QED
  BY <1>2, AddsFewer

LEMMA AddsSame ==
    ASSUME NEW f, NEW c, NEW X
    PROVE  Adds(f, f, c, X)
  BY DEF Adds

LEMMA AddsPush ==
    ASSUME TypeInv, NEW c \in Core, NEW p \in Packet, Push(c, p)
    PROVE  Adds(injection, injection', c, {p})
<1>1. Changes(injection, injection', c, Append(injection[c], p))
  BY DEF Push, Changes
<1> QED
  BY <1>1, QueuesTyped, AddsPushed

LEMMA AddsReceive ==
    ASSUME TypeInv, NEW c \in Core, NEW p \in Packet, Receive(c, p)
    PROVE  Adds(ejection, ejection', c, {p})
<1>1. Changes(ejection, ejection', c, Append(ejection[c], p))
  BY DEF Receive, Changes
<1> QED
  BY <1>1, QueuesTyped, AddsPushed

LEMMA ChunksTyped ==
    TypeInv => writeQueue \in Queues(Chunk)
  BY DEF TypeInv, TypeOK, CoreTypeOK, WriteTypeOK, ChunkSeqs, Queues

(* What is new in the queues of core c is addressed as its queue asks. *)
LEMMA CoresAddressedKept ==
    ASSUME CoresAddressed, NEW c, NEW sent, NEW given, NEW waiting, NEW retried,
           NEW written,
           Adds(injection, injection', c, sent), \A p \in sent : SentBy(c, p),
           Adds(ejection, ejection', c, given), \A p \in given : GivenTo(c, p),
           Adds(remote, remote', c, waiting),
           \A p \in waiting : ReadRequest(p) /\ p.src \in CoreNodes,
           Adds(retry, retry', c, retried),
           \A p \in retried : ReadResponse(p) /\ p.dst = NodeId(c),
           Adds(writeQueue, writeQueue', c, written), \A p \in written : HasBytes(p)
    PROVE  CoresAddressed'
<1> SUFFICES ASSUME NEW d \in Core
             PROVE  /\ \A p \in ToSet(injection'[d]) : SentBy(d, p)
                    /\ \A p \in ToSet(ejection'[d]) : GivenTo(d, p)
                    /\ \A p \in ToSet(remote'[d]) : ReadRequest(p) /\ p.src \in CoreNodes
                    /\ \A p \in ToSet(retry'[d]) : ReadResponse(p) /\ p.dst = NodeId(d)
                    /\ \A chunk \in ToSet(writeQueue'[d]) : HasBytes(chunk)
  BY DEF CoresAddressed
<1>1. \A p \in ToSet(injection'[d]) : SentBy(d, p)
  BY DEF CoresAddressed, Adds
<1>2. \A p \in ToSet(ejection'[d]) : GivenTo(d, p)
  BY DEF CoresAddressed, Adds
<1>3. \A p \in ToSet(remote'[d]) : ReadRequest(p) /\ p.src \in CoreNodes
  BY DEF CoresAddressed, Adds
<1>4. \A p \in ToSet(retry'[d]) : ReadResponse(p) /\ p.dst = NodeId(d)
  BY DEF CoresAddressed, Adds
<1>5. \A chunk \in ToSet(writeQueue'[d]) : HasBytes(chunk)
  BY DEF CoresAddressed, Adds
<1> QED
  BY <1>1, <1>2, <1>3, <1>4, <1>5

LEMMA ArrivingGiven ==
    ASSUME AddressInv, NEW type, Incoming(type)
    PROVE  /\ GivenTo(cur, Arriving) /\ Arriving.type = type
           /\ Arriving \in Packet /\ cur \in Core
           /\ \A X : Adds(ejection, ejection', cur, X)
<1>1. /\ TypeInv /\ ejection \in Queues(Packet) /\ cur \in Core
      /\ ejection[cur] # <<>>
  BY QueuesTyped, InTick DEF AddressInv, Incoming
<1>2. Changes(ejection, ejection', cur, Tail(ejection[cur]))
  BY DEF Incoming, Changes
<1>3. Arriving \in ToSet(ejection[cur]) /\ Arriving \in Packet
  BY <1>1, HeadTailQueue DEF Queues, Arriving
<1>4. GivenTo(cur, Arriving)
  BY <1>1, <1>3 DEF AddressInv, CoresAddressed
<1> QED
  BY <1>1, <1>2, <1>3, <1>4, AddsPopped DEF Incoming, Arriving

LEMMA ResponseAddressed ==
    ASSUME NEW c \in Core, NEW d \in Core, NEW p, ReadRequest(p), p.src \in CoreNodes
    PROVE  SentBy(d, Response(c, p))
  BY DEF SentBy, Response, ReadRequest, ReadResponse, HasBytes

LEMMA ReceiveReadRequestAddressed ==
    ASSUME AddressInv, ReceiveReadRequest
    PROVE  CoresAddressed'
<1>1. /\ GivenTo(cur, Arriving) /\ Arriving.type = "READ_REQUEST"
      /\ Arriving \in Packet /\ cur \in Core /\ TypeInv /\ CoresAddressed
      /\ Adds(ejection, ejection', cur, {})
  BY ArrivingGiven DEF ReceiveReadRequest, AddressInv
<1>2. ReadRequest(Arriving) /\ Arriving.src \in CoreNodes
  BY <1>1 DEF GivenTo, Answer, ReadResponse
<1>3. Response(cur, Arriving) \in Packet /\ SentBy(cur, Response(cur, Arriving))
  BY <1>1, <1>2, ResponseTyped, ResponseAddressed
<1>4. /\ Adds(retry, retry', cur, {}) /\ Adds(writeQueue, writeQueue', cur, {})
  BY AddsSame DEF ReceiveReadRequest, writeVars
<1>5. /\ Adds(injection, injection', cur, {Response(cur, Arriving)})
      /\ Adds(remote, remote', cur, {Arriving})
  <2>1. CASE IsReady(sram[cur], Arriving.tid)
    <3>1. Push(cur, Response(cur, Arriving)) /\ remote' = remote
      BY <2>1 DEF ReceiveReadRequest, Arriving
    <3> QED
      BY <1>1, <1>3, <3>1, AddsPush, AddsSame
  <2>2. CASE ~IsReady(sram[cur], Arriving.tid)
    <3>1. /\ Changes(remote, remote', cur, Append(remote[cur], Arriving))
          /\ injection' = injection
      BY <2>2 DEF ReceiveReadRequest, Changes, Arriving
    <3> QED
      BY <1>1, <3>1, QueuesTyped, AddsPushed, AddsSame
  <2> QED
    BY <2>1, <2>2
<1> HIDE DEF Arriving
<1> QED
  BY <1>1, <1>2, <1>3, <1>4, <1>5, CoresAddressedKept

(* The write of a response that has bytes. *)
LEMMA StartWriteAdds ==
    ASSUME TypeInv, NEW c \in Core, NEW p \in Packet, StartWrite(c, p)
    PROVE  Adds(writeQueue, writeQueue', c, {[tid |-> p.tid, size |-> p.size]})
<1> DEFINE x == [tid |-> p.tid, size |-> p.size]
<1>1. x \in Chunk
  BY DEF Packet, Chunk
<1>2. writeQueue' = writeQueue \/ Changes(writeQueue, writeQueue', c, Append(writeQueue[c], x))
  BY DEF StartWrite, Changes
<1> HIDE DEF x
<1>3. Adds(writeQueue, writeQueue', c, {x})
  BY <1>1, <1>2, ChunksTyped, AddsPushed, AddsSame
<1> QED
  BY <1>3 DEF x

LEMMA ReceiveReadResponseAddressed ==
    ASSUME AddressInv, ReceiveReadResponse
    PROVE  CoresAddressed'
<1> DEFINE chunk == [tid |-> Arriving.tid, size |-> Arriving.size]
<1>1. /\ GivenTo(cur, Arriving) /\ Arriving.type = "READ_RESPONSE"
      /\ Arriving \in Packet /\ cur \in Core /\ TypeInv /\ CoresAddressed
      /\ Adds(ejection, ejection', cur, {})
  BY ArrivingGiven DEF ReceiveReadResponse, AddressInv
<1>2. ReadResponse(Arriving) /\ Arriving.dst = NodeId(cur)
  BY <1>1 DEF GivenTo, Answer, ReadRequest
<1>3. HasBytes(chunk)
  BY <1>2 DEF ReadResponse, HasBytes
<1>4. Adds(injection, injection', cur, {}) /\ Adds(remote, remote', cur, {})
  BY AddsSame DEF ReceiveReadResponse
<1>5. /\ Adds(retry, retry', cur, {Arriving})
      /\ Adds(writeQueue, writeQueue', cur, {chunk})
  <2>1. CASE CanAllocate(sram[cur], Arriving.tid, Arriving.size)
    <3>1. StartWrite(cur, Arriving) /\ retry' = retry
      BY <2>1 DEF ReceiveReadResponse, Arriving
    <3> QED
      BY <1>1, <3>1, StartWriteAdds, AddsSame
  <2>2. CASE ~CanAllocate(sram[cur], Arriving.tid, Arriving.size)
    <3>1. /\ Changes(retry, retry', cur, Append(retry[cur], Arriving))
          /\ writeQueue' = writeQueue
      BY <2>2 DEF ReceiveReadResponse, Postpone, writeVars, Changes, Arriving
    <3> QED
      BY <1>1, <3>1, QueuesTyped, AddsPushed, AddsSame
  <2> QED
    BY <2>1, <2>2
<1> HIDE DEF Arriving, chunk
<1> QED
  BY <1>1, <1>2, <1>3, <1>4, <1>5, CoresAddressedKept

LEMMA ReceiveWriteResponseAddressed ==
    ASSUME AddressInv, ReceiveWriteResponse
    PROVE  CoresAddressed'
<1>1. CoresAddressed /\ Adds(ejection, ejection', cur, {})
  BY ArrivingGiven DEF ReceiveWriteResponse, AddressInv
<1>2. /\ Adds(injection, injection', cur, {}) /\ Adds(remote, remote', cur, {})
      /\ Adds(retry, retry', cur, {}) /\ Adds(writeQueue, writeQueue', cur, {})
  BY AddsSame DEF ReceiveWriteResponse, writeVars
<1> QED
  BY <1>1, <1>2, CoresAddressedKept

LEMMA RetriedAddressed ==
    ASSUME AddressInv, RetryAllocation
    PROVE  /\ retry[cur][cursor] \in Packet
           /\ ReadResponse(retry[cur][cursor]) /\ retry[cur][cursor].dst = NodeId(cur)
           /\ cursor \in 1 .. Len(retry[cur]) /\ cur \in Core /\ TypeInv
<1>1. TypeInv /\ CoresAddressed
  BY DEF AddressInv
<1>2. retry[cur] \in Seq(Packet) /\ cursor \in 1 .. Len(retry[cur]) /\ cur \in Core
  BY <1>1, InTick DEF RetryAllocation, CoreTypeOK, TickTypeOK, QueueTypeOK, PacketSeqs
<1>3. retry[cur][cursor] \in ToSet(retry[cur]) /\ retry[cur][cursor] \in Packet
  BY <1>2, InToSet
<1> QED
  BY <1>1, <1>2, <1>3 DEF CoresAddressed

LEMMA RetryAllocationAddressed ==
    ASSUME AddressInv, RetryAllocation
    PROVE  CoresAddressed'
<1> DEFINE p == retry[cur][cursor]
           chunk == [tid |-> p.tid, size |-> p.size]
<1>1. /\ p \in Packet /\ ReadResponse(p) /\ p.dst = NodeId(cur) /\ TypeInv
      /\ cursor \in 1 .. Len(retry[cur]) /\ cur \in Core /\ CoresAddressed
  BY RetriedAddressed DEF AddressInv
<1>2. HasBytes(chunk)
  BY <1>1 DEF ReadResponse, HasBytes
<1>3. /\ Adds(injection, injection', cur, {}) /\ Adds(remote, remote', cur, {})
      /\ Adds(ejection, ejection', cur, {})
  BY AddsSame DEF RetryAllocation, netVars
<1>4. /\ Adds(retry, retry', cur, {})
      /\ Adds(writeQueue, writeQueue', cur, {chunk})
  <2>1. CASE CanAllocate(sram[cur], p.tid, p.size)
    <3>1. /\ Changes(retry, retry', cur, RemoveAt(retry[cur], cursor))
          /\ StartWrite(cur, p)
      BY <2>1 DEF RetryAllocation, Changes
    <3> QED
      BY <1>1, <3>1, QueuesTyped, StartWriteAdds, AddsTaken
  <2>2. CASE ~CanAllocate(sram[cur], p.tid, p.size)
    BY <2>2, AddsSame DEF RetryAllocation, writeVars
  <2> QED
    BY <2>1, <2>2
<1> HIDE DEF p, chunk
<1> QED
  BY <1>1, <1>2, <1>3, <1>4, CoresAddressedKept

LEMMA DrainAddressed ==
    ASSUME AddressInv, DrainUnlimited \/ DrainLimited
    PROVE  CoresAddressed'
<1>1. TypeInv /\ cur \in Core /\ CoresAddressed /\ writeQueue \in Queues(Chunk)
  BY InTick, ChunksTyped DEF AddressInv
<1>2. \/ writeQueue' = writeQueue
      \/ /\ writeQueue[cur] # <<>>
         /\ Changes(writeQueue, writeQueue', cur, Tail(writeQueue[cur]))
  <2>1. CASE DrainUnlimited
    BY <2>1 DEF DrainUnlimited, Changes
  <2>2. CASE DrainLimited
    BY <2>2, <1>1 DEF DrainLimited, Changes, TypeInv, TypeOK, CoreTypeOK, WriteTypeOK
  <2> QED
    BY <2>1, <2>2
<1>3. Adds(writeQueue, writeQueue', cur, {})
  BY <1>1, <1>2, AddsPopped, AddsSame
<1>4. /\ Adds(injection, injection', cur, {}) /\ Adds(remote, remote', cur, {})
      /\ Adds(ejection, ejection', cur, {}) /\ Adds(retry, retry', cur, {})
  BY AddsSame DEF DrainUnlimited, DrainLimited, netVars
<1> QED
  BY <1>1, <1>3, <1>4, CoresAddressedKept

LEMMA ServeRemoteRequestAddressed ==
    ASSUME AddressInv, ServeRemoteRequest
    PROVE  CoresAddressed'
<1> DEFINE req == remote[cur][cursor]
<1>1. /\ TypeInv /\ CoresAddressed /\ remote \in Queues(Packet)
      /\ remote[cur] \in Seq(Packet) /\ cursor \in 1 .. Len(remote[cur]) /\ cur \in Core
  BY InTick, QueuesTyped
  DEF ServeRemoteRequest, CoreTypeOK, TickTypeOK, QueueTypeOK, PacketSeqs, AddressInv
<1>2. req \in ToSet(remote[cur]) /\ req \in Packet
  BY <1>1, InToSet
<1>3. ReadRequest(req) /\ req.src \in CoreNodes
  BY <1>1, <1>2 DEF CoresAddressed
<1>4. Response(cur, req) \in Packet /\ SentBy(cur, Response(cur, req))
  BY <1>1, <1>2, <1>3, ResponseTyped, ResponseAddressed
<1>5. /\ Adds(ejection, ejection', cur, {}) /\ Adds(retry, retry', cur, {})
      /\ Adds(writeQueue, writeQueue', cur, {})
  BY AddsSame DEF ServeRemoteRequest, writeVars
<1>6. /\ Adds(injection, injection', cur, {Response(cur, req)})
      /\ Adds(remote, remote', cur, {})
  <2>1. CASE IsReady(sram[cur], req.tid) /\ ~InjectionFull(cur)
    <3>1. /\ Push(cur, Response(cur, req))
          /\ Changes(remote, remote', cur, RemoveAt(remote[cur], cursor))
      BY <2>1 DEF ServeRemoteRequest, Changes
    <3> HIDE DEF req
    <3> QED
      BY <1>1, <1>4, <3>1, AddsPush, AddsTaken
  <2>2. CASE ~(IsReady(sram[cur], req.tid) /\ ~InjectionFull(cur))
    BY <2>2, AddsSame DEF ServeRemoteRequest
  <2> QED
    BY <2>1, <2>2
<1> HIDE DEF req
<1> QED
  BY <1>1, <1>4, <1>5, <1>6, CoresAddressedKept

(* The source a loading core asks for has bytes. *)
LEMMA FetchedHasBytes ==
    ASSUME AddressInv, FetchSource
    PROVE  LET s == Sources(cur)[cursor]
           IN  /\ s \in Source /\ HasBytes(s)
               /\ [type |-> "READ_REQUEST", src |-> cur, dst |-> s.from,
                   tid |-> s.tid, size |-> s.size] \in Packet
               /\ cur \in Core /\ TypeInv /\ s.tid \in SourceTids(cur)
               /\ state[cur] = "LOADING"
<1> DEFINE s == Sources(cur)[cursor]
<1>1. /\ TypeInv /\ CoreTypeOK /\ Control /\ cur \in Core /\ cursor \in Nat \ {0}
      /\ state[cur] = "LOADING" /\ HasWorkload(cur) /\ ir \in Programs
      /\ ir[cur] \in Seq(Workload) /\ idx[cur] \in Nat \ {0}
  BY InTick
  DEF AddressInv, FetchSource, CoreTypeOK, TickTypeOK, FsmTypeOK, Control,
      PcMatchesState, WorkingHasWorkload, CoreState
<1>2. Sources(cur) \in Seq(Source) /\ cursor \in 1 .. Len(Sources(cur))
  BY <1>1, CurrentTyped DEF FetchSource, FetchDone
<1>3. s \in Source /\ s \in ToSet(Sources(cur))
  BY <1>2, InToSet
<1>4. HasBytes(s)
  <2>1. idx[cur] \in DOMAIN ir[cur]
    BY <1>1 DEF HasWorkload
  <2> QED
    BY <1>1, <1>3, <2>1 DEF HasBytes, SourcesHaveBytes, Sources, Current
<1>5. [type |-> "READ_REQUEST", src |-> cur, dst |-> s.from,
       tid |-> s.tid, size |-> s.size] \in Packet
  BY <1>1, <1>3, CoreConstant DEF Source, Endpoint, DRAM, Packet, PacketType
<1> QED
  BY <1>1, <1>3, <1>4, <1>5 DEF SourceTids

LEMMA FetchSourceAddressed ==
    ASSUME AddressInv, FetchSource
    PROVE  CoresAddressed'
<1> DEFINE s == Sources(cur)[cursor]
           request == [type |-> "READ_REQUEST", src |-> cur, dst |-> s.from,
                       tid |-> s.tid, size |-> s.size]
<1>1. /\ HasBytes(s) /\ request \in Packet
      /\ cur \in Core /\ TypeInv /\ CoresAddressed
  BY FetchedHasBytes DEF AddressInv
<1>2. SentBy(cur, request)
  BY <1>1 DEF SentBy, ReadRequest, HasBytes
<1>3. injection' = injection \/ Push(cur, request)
  BY DEF FetchSource
<1>4. /\ Adds(ejection, ejection', cur, {}) /\ Adds(retry, retry', cur, {})
      /\ Adds(writeQueue, writeQueue', cur, {}) /\ Adds(remote, remote', cur, {})
  BY AddsSame DEF FetchSource, writeVars
<1> HIDE DEF request
<1>5. Adds(injection, injection', cur, {request})
  BY <1>1, <1>3, AddsPush, AddsSame
<1> QED
  BY <1>1, <1>2, <1>4, <1>5, CoresAddressedKept

(* The request that carries a write to the memory. *)
WriteRequest == [type |-> "WRITE_REQUEST", src |-> cur, dst |-> DRAM,
                 tid |-> Head(wbQueue[cur]).tid, size |-> Head(wbQueue[cur]).size]

LEMMA WriteRequestTyped ==
    ASSUME TypeInv, SendWrite
    PROVE  /\ WriteRequest \in Packet /\ Push(cur, WriteRequest) /\ cur \in Core
           /\ wbQueue[cur] \in Seq(Chunk) /\ wbQueue[cur] # <<>>
<1>1. wbQueue[cur] \in Seq(Chunk) /\ wbQueue[cur] # <<>> /\ cur \in Core
  BY InTick DEF SendWrite, CoreTypeOK, WbTypeOK, ChunkSeqs
<1>2. Head(wbQueue[cur]) \in Chunk
  BY <1>1, HeadTailQueue
<1>3. Head(wbQueue[cur]).tid \in Tid /\ Head(wbQueue[cur]).size \in Nat
  BY <1>2 DEF Chunk
<1>4. WriteRequest \in Packet
  BY <1>1, <1>3, CoreConstant DEF WriteRequest, Packet, PacketType, DRAM
<1> QED
  BY <1>1, <1>4 DEF SendWrite, WriteRequest

LEMMA WritebackCycleAddressed ==
    ASSUME AddressInv, WritebackCycle
    PROVE  CoresAddressed'
<1>1. TypeInv /\ CoresAddressed
  BY DEF AddressInv
<1>2. /\ Adds(ejection, ejection', cur, {}) /\ Adds(retry, retry', cur, {})
      /\ Adds(writeQueue, writeQueue', cur, {}) /\ Adds(remote, remote', cur, {})
  BY AddsSame DEF WritebackCycle, writeVars
<1>3. CASE SendWrite
  <2>1. Adds(injection, injection', cur, {WriteRequest})
    BY <1>1, <1>3, WriteRequestTyped, AddsPush
  <2>2. SentBy(cur, WriteRequest)
    BY DEF SentBy, WriteRequest
  <2> QED
    BY <1>1, <1>2, <2>1, <2>2, CoresAddressedKept
<1>4. CASE NothingToWrite \/ ReadOut
  <2>1. Adds(injection, injection', cur, {})
    BY <1>4, AddsSame DEF NothingToWrite, ReadOut
  <2> QED
    BY <1>1, <1>2, <2>1, CoresAddressedKept
<1> QED
  BY <1>3, <1>4 DEF WritebackCycle

LEMMA SameAddressed ==
    ASSUME CoresAddressed, UNCHANGED <<injection, ejection, remote, retry, writeQueue>>
    PROVE  CoresAddressed'
<1>1. PICK c : c \in Core
  BY CoreConstant
<1>2. /\ Adds(injection, injection', c, {}) /\ Adds(ejection, ejection', c, {})
      /\ Adds(retry, retry', c, {}) /\ Adds(writeQueue, writeQueue', c, {})
      /\ Adds(remote, remote', c, {})
  BY AddsSame
<1> QED
  BY <1>2, CoresAddressedKept

LEMMA NothingIn ==
    ASSUME NEW S
    PROVE  ToSet(<<>>) \subseteq S
  BY DEF ToSet

(* Responses and writes that are forgotten are not looked for elsewhere. *)
LEMMA ForgetAddressed ==
    ASSUME AddressInv, NEW c \in Core,
           writeQueue' = writeQueue \/ Changes(writeQueue, writeQueue', c, <<>>),
           retry' = retry \/ Changes(retry, retry', c, <<>>),
           UNCHANGED <<injection, ejection, remote>>
    PROVE  CoresAddressed'
<1>1. TypeInv /\ CoresAddressed
  BY DEF AddressInv
<1>2. /\ Adds(injection, injection', c, {}) /\ Adds(ejection, ejection', c, {})
      /\ Adds(remote, remote', c, {})
  BY AddsSame
<1>3. Adds(retry, retry', c, {}) /\ Adds(writeQueue, writeQueue', c, {})
  BY <1>1, AddsSame, AddsFewer, NothingIn, QueuesTyped, ChunksTyped
<1> QED
  BY <1>1, <1>2, <1>3, CoresAddressedKept

LEMMA StartWorkloadAddressed ==
    ASSUME AddressInv, StartWorkload
    PROVE  CoresAddressed'
<1>1. cur \in Core
  BY InTick DEF AddressInv
<1> QED
  BY <1>1, ForgetAddressed
  DEF StartWorkload, ForgetWrites, writeVars, netVars, Changes

LEMMA CoreTickAddressed ==
    ASSUME AddressInv, CoreTick
    PROVE  CoresAddressed'
<1>1. CASE \/ EndIncoming \/ EndRetry \/ EndDrain \/ EndServe \/ RetireCore \/ EndFetch
           \/ ComputeCycle \/ PublishOutput \/ EndOutputs \/ FreeInput \/ FinishWorkload
           \/ EnterWriteback \/ QueueWriteback \/ EndQueue \/ IdleTick
  BY <1>1, SameAddressed
  DEF AddressInv, EndIncoming, EndRetry, EndDrain, EndServe, RetireCore, EndFetch,
      ComputeCycle, PublishOutput, EndOutputs, FreeInput, FinishWorkload,
      EnterWriteback, QueueWriteback, EndQueue, IdleTick, netVars, writeVars
<1> QED
  BY <1>1, ReceiveReadRequestAddressed, ReceiveReadResponseAddressed,
     ReceiveWriteResponseAddressed, RetryAllocationAddressed, DrainAddressed,
     ServeRemoteRequestAddressed, FetchSourceAddressed, WritebackCycleAddressed,
     StartWorkloadAddressed
  DEF CoreTick

LEMMA WatchdogAddressed ==
    ASSUME AddressInv, Watchdog
    PROVE  CoresAddressed' /\ UNCHANGED transportVars
<1>1. ASSUME NEW c \in Core, ForceAdvanceLoading(c)
      PROVE  CoresAddressed'
  BY <1>1, ForgetAddressed DEF ForceAdvanceLoading, ForgetWrites, netVars, Changes
<1>2. ASSUME NEW c \in Core, ForceCompleteWriteback(c)
      PROVE  CoresAddressed'
  BY <1>2, SameAddressed DEF ForceCompleteWriteback, netVars, writeVars, AddressInv
<1>3. CASE GiveUp
  BY <1>3, SameAddressed DEF GiveUp, QuietCores, netVars, writeVars, AddressInv
<1>4. ASSUME NEW S \in SUBSET Core, BreakCycle(S)
      PROVE  CoresAddressed' /\ UNCHANGED transportVars
  BY <1>1, <1>4, VictimIsCore DEF BreakCycle, IsCycle, Resolved
<1>5. CASE RelievePressure
  BY <1>1, <1>5, VictimIsCore DEF RelievePressure, Pressured, Resolved
<1>6. CASE AbandonWriteback
  BY <1>2, <1>6, VictimIsCore DEF AbandonWriteback, Writing, Resolved
<1> QED
  BY <1>3, <1>4, <1>5, <1>6 DEF Watchdog, GiveUp

-----------------------------------------------------------------------------
(* The addresses on the way through the network and the memory.            *)

LEMMA NodesApart ==
    /\ CoreNodes \cap ToSet(MemoryNodes) = {} /\ DRAM \notin CoreNodes
    /\ \A id : CoreToNoc(id) \notin ToSet(MemoryNodes)
    /\ \A c \in Core : NodeId(c) \in CoreNodes /\ NodeId(c) \notin ToSet(MemoryNodes)
    /\ \A c, d \in Core : NodeId(c) = NodeId(d) => c = d
    /\ ~OnNoc => ToSet(MemoryNodes) = {} /\ CoreNodes = Core /\ \A c \in Core : NodeId(c) = c
    /\ OnNoc => \A c \in Core : NodeId(c) = CoreToNoc(c)
<1>1. ToSet(MemoryNodes) \subseteq Nat
  BY SimulatorAssumption, InToSet
<1>2. ~OnNoc => ToSet(MemoryNodes) = {}
  BY NothingIn DEF OnNoc
<1>3. \A c \in Core : NodeId(c) \in CoreNodes /\ NodeId(c) \in Nat
  BY SimulatorAssumption, CoreConstant DEF CoreNodes, NodeId
<1>4. \A c \in Core : NodeId(c) \notin ToSet(MemoryNodes)
  BY <1>2, SimulatorAssumption DEF NodeId
<1>5. CoreNodes \cap ToSet(MemoryNodes) = {} /\ DRAM \notin CoreNodes
  BY <1>3, <1>4 DEF CoreNodes, DRAM
<1>6. \A id : CoreToNoc(id) \notin ToSet(MemoryNodes)
  BY <1>1, SimulatorAssumption DEF CoreToNoc
<1>7. \A c, d \in Core : NodeId(c) = NodeId(d) => c = d
  BY SimulatorAssumption DEF NodeId
<1>8. ~OnNoc => CoreNodes = Core /\ \A c \in Core : NodeId(c) = c
  BY DEF NodeId, CoreNodes
<1>9. OnNoc => \A c \in Core : NodeId(c) = CoreToNoc(c)
  BY DEF NodeId, CoreToNoc
<1> QED
  BY <1>2, <1>3, <1>4, <1>5, <1>6, <1>7, <1>8, <1>9

(* What enters the network, or the memory, is what OnNetwork and FromMemory
   say. *)
LEMMA RoutedOnNetwork ==
    ASSUME NEW c \in Core, NEW p \in Packet, SentBy(c, p), ~(p.dst = DRAM /\ ~OnNoc),
           NEW q \in Routed(p)
    PROVE  OnNetwork(q) /\ q.type = p.type
<1>1. CASE ~OnNoc
  <2>1. q = p /\ p.dst # DRAM
    BY <1>1 DEF Routed
  <2> QED
    BY <1>1, <2>1, NodesApart DEF SentBy, OnNetwork, Answer
<1>2. CASE OnNoc
  <2>1. PICK node \in IF p.dst = DRAM THEN ToSet(MemoryNodes) ELSE {CoreToNoc(p.dst)} :
          q = [p EXCEPT !.src = CoreToNoc(p.src), !.dst = node]
    BY <1>2 DEF Routed
  <2>2. /\ q.type = p.type /\ q.src = CoreToNoc(p.src) /\ q.dst = node /\ q.size = p.size
    BY <2>1 DEF Packet
  <2>3. CASE ReadRequest(p) /\ p.src = c
    <3>1. CoreToNoc(c) \in CoreNodes
      BY <1>2, NodesApart
    <3> QED
      BY <2>2, <2>3, <3>1 DEF OnNetwork, ReadRequest, HasBytes
  <2>4. CASE p.type = "WRITE_REQUEST" /\ p.src = c /\ p.dst = DRAM
    <3>1. CoreToNoc(c) \in CoreNodes
      BY <1>2, NodesApart
    <3> QED
      BY <2>1, <2>2, <2>4, <3>1 DEF OnNetwork
  <2>5. CASE ReadResponse(p) /\ p.dst \in CoreNodes
    <3>1. node \notin ToSet(MemoryNodes)
      BY <2>1, <2>5, NodesApart
    <3> QED
      BY <2>2, <2>5, <3>1 DEF OnNetwork, Answer, ReadResponse, HasBytes
  <2> QED
    BY <2>2, <2>3, <2>4, <2>5 DEF SentBy
<1> QED
  BY <1>1, <1>2

LEMMA ReplyFromMemory ==
    ASSUME NEW p \in Packet, IsRequest(p), p.src \in CoreNodes,
           p.type = "READ_REQUEST" => ReadRequest(p)
    PROVE  FromMemory(Reply(p))
<1>1. /\ Reply(p).type = IF p.type = "READ_REQUEST" THEN "READ_RESPONSE"
                                                    ELSE "WRITE_RESPONSE"
      /\ Reply(p).dst = p.src /\ Reply(p).size = p.size
  BY DEF Reply, Packet
<1> HIDE DEF Reply
<1> QED
  BY <1>1 DEF FromMemory, Answer, ReadResponse, ReadRequest, HasBytes, IsRequest

LEMMA TransportAddressedKept ==
    ASSUME TransportAddressed,
           \A f \in ToSet(noc') :
               (\E g \in ToSet(noc) : g.pkt = f.pkt) \/ OnNetwork(f.pkt),
           \A f \in ToSet(dram') :
               (\E g \in ToSet(dram) : g.pkt = f.pkt) \/ FromMemory(f.pkt),
           \A p \in ToSet(dramReplies') : p \in ToSet(dramReplies) \/ FromMemory(p)
    PROVE  TransportAddressed'
<1>1. \A f \in ToSet(noc') : OnNetwork(f.pkt)
  BY DEF TransportAddressed
<1>2. \A f \in ToSet(dram') : FromMemory(f.pkt)
  BY DEF TransportAddressed
<1>3. \A p \in ToSet(dramReplies') : FromMemory(p)
  BY DEF TransportAddressed
<1> QED
  BY <1>1, <1>2, <1>3 DEF TransportAddressed

LEMMA SameTransportAddressed ==
    ASSUME TransportAddressed, UNCHANGED transportVars
    PROVE  TransportAddressed'
  BY DEF TransportAddressed, transportVars

(* A packet enters one of the lists. *)
LEMMA NocInjectEnters ==
    ASSUME TypeInv, NEW p \in Packet, NocInject(p)
    PROVE  \A f \in ToSet(noc') : f \in ToSet(noc) \/ f.pkt = p
<1>1. PICK latency \in NocLatency : noc' = Append(noc, [pkt |-> p, ttl |-> latency])
  BY DEF NocInject
<1>2. [pkt |-> p, ttl |-> latency] \in InFlight
  BY SimulatorAssumption DEF InFlight
<1>3. ToSet(noc') = ToSet(noc) \cup {[pkt |-> p, ttl |-> latency]}
  BY <1>1, <1>2, QueuesTyped, AppendQueue
<1> QED
  BY <1>3

LEMMA DramSendEnters ==
    ASSUME TypeInv, NEW p \in Packet, DramSend(p)
    PROVE  \A f \in ToSet(dram') : f \in ToSet(dram) \/ f.pkt = Reply(p)
<1>1. PICK latency \in DramLatency :
        dram' = Append(dram, [pkt |-> Reply(p), ttl |-> latency])
  BY DEF DramSend
<1>2. [pkt |-> Reply(p), ttl |-> latency] \in InFlight
  BY SimulatorAssumption, ReplyTyped DEF InFlight
<1>3. ToSet(dram') = ToSet(dram) \cup {[pkt |-> Reply(p), ttl |-> latency]}
  BY <1>1, <1>2, QueuesTyped, AppendQueue
<1> QED
  BY <1>3

LEMMA LeavesFlight ==
    ASSUME NEW q \in Seq(InFlight), NEW i \in 1 .. Len(q)
    PROVE  /\ q[i] \in ToSet(q) /\ q[i].pkt \in Packet
           /\ ToSet(RemoveAt(q, i)) \subseteq ToSet(q)
  BY InToSet, InFlightTyped, RemoveAtQueue

LEMMA OneCycleAddressed ==
    ASSUME NEW q \in Seq(InFlight)
    PROVE  \A f \in ToSet(OneCycle(q)) : \E g \in ToSet(q) : g.pkt = f.pkt
<1>1. /\ OneCycle(q) \in Seq(InFlight) /\ Len(OneCycle(q)) = Len(q)
      /\ \A i \in 1 .. Len(q) : OneCycle(q)[i].pkt = q[i].pkt
  BY OneCycleTyped
<1>2. \A f \in ToSet(OneCycle(q)) : \E i \in 1 .. Len(q) : f = OneCycle(q)[i]
  BY <1>1, InToSet
<1>3. \A i \in 1 .. Len(q) : q[i] \in ToSet(q)
  BY InToSet
<1> HIDE DEF OneCycle
<1> QED
  BY <1>1, <1>2, <1>3

(* No step changes the IR. *)
LEMMA NextKeepsIr ==
    ASSUME [Next]_vars
    PROVE  ir' = ir
<1>1. CASE CoreTick
  BY <1>1
  DEF CoreTick, ReceiveReadResponse, ReceiveReadRequest, ReceiveWriteResponse,
      EndIncoming, RetryAllocation, EndRetry, DrainUnlimited, DrainLimited, EndDrain,
      ServeRemoteRequest, EndServe, RetireCore, StartWorkload, FetchSource, EndFetch,
      ComputeCycle, PublishOutput, EndOutputs, FreeInput, FinishWorkload,
      EnterWriteback, QueueWriteback, EndQueue, WritebackCycle, IdleTick
<1>2. CASE Tick /\ ~CoreTick
  BY <1>2
  DEF Tick, CollectPacket, DeliverToCore, EndCollect, InjectDramResponse,
      EndReply, Advance, EndDeliver, ForwardToDram, EndForward,
      DeliverDramResponse, EndRespond, QuietCores
<1>3. CASE NextCycle \/ CheckProgress \/ Watchdog
  BY <1>3
  DEF NextCycle, CheckProgress, Watchdog, BreakCycle, RelievePressure,
      AbandonWriteback, GiveUp, ForceAdvanceLoading, ForceCompleteWriteback, QuietCores
<1>4. CASE UNCHANGED vars
  BY <1>4 DEF vars, coreVars
<1> QED
  BY <1>1, <1>2, <1>3, <1>4 DEF Next, Halted

(* Of the cores only two queues are touched by the transport. *)
LEMMA QuietAddressed ==
    ASSUME CoresAddressed, QuietCores, NEW c, NEW given,
           Adds(injection, injection', c, {}),
           Adds(ejection, ejection', c, given), \A p \in given : GivenTo(c, p)
    PROVE  CoresAddressed'
<1>1. /\ Adds(retry, retry', c, {}) /\ Adds(writeQueue, writeQueue', c, {})
      /\ Adds(remote, remote', c, {})
  BY AddsSame DEF QuietCores, writeVars
<1> QED
  BY <1>1, CoresAddressedKept

LEMMA CollectPacketAddressed ==
    ASSUME AddressInv, NEW c \in Core, CollectPacket(c)
    PROVE  CoresAddressed' /\ TransportAddressed'
<1> DEFINE p == Head(injection[c])
<1>1. /\ TypeInv /\ CoresAddressed /\ TransportAddressed
      /\ injection \in Queues(Packet) /\ injection[c] \in Seq(Packet)
      /\ injection[c] # <<>>
  BY QueuesTyped DEF CollectPacket, Queues, AddressInv
<1>2. p \in Packet /\ p \in ToSet(injection[c])
  BY <1>1, HeadTailQueue
<1>3. SentBy(c, p)
  BY <1>1, <1>2 DEF CoresAddressed
<1>4. CoresAddressed'
  <2>1. Changes(injection, injection', c, Tail(injection[c]))
    BY DEF CollectPacket, Changes
  <2>2. Adds(injection, injection', c, {})
    BY <1>1, <2>1, AddsPopped
  <2>3. Adds(ejection, ejection', c, {}) /\ QuietCores
    BY AddsSame DEF CollectPacket
  <2> QED
    BY <1>1, <2>2, <2>3, QuietAddressed
<1>5. TransportAddressed'
  <2>1. CASE p.dst = DRAM /\ ~OnNoc
    <3>1. DramSend(p) /\ UNCHANGED <<noc, dramReplies>>
      BY <2>1 DEF CollectPacket
    <3> HIDE DEF p
    <3>2. p.src \in CoreNodes /\ IsRequest(p) /\ (p.type = "READ_REQUEST" => ReadRequest(p))
      BY <1>3, <2>1, NodesApart DEF SentBy, IsRequest, ReadRequest, ReadResponse
    <3>3. FromMemory(Reply(p))
      BY <1>2, <3>2, ReplyFromMemory
    <3> QED
      BY <1>1, <1>2, <3>1, <3>3, DramSendEnters, TransportAddressedKept
  <2>2. CASE ~(p.dst = DRAM /\ ~OnNoc)
    <3>1. UNCHANGED <<dram, dramReplies>> /\ \E q \in Routed(p) : NocInject(q)
      BY <2>2 DEF CollectPacket
    <3>2. PICK q \in Routed(p) : NocInject(q)
      BY <3>1
    <3> HIDE DEF p
    <3>3. q \in Packet /\ OnNetwork(q)
      BY <1>2, <1>3, <2>2, RoutedTyped, RoutedOnNetwork
    <3> QED
      BY <1>1, <3>1, <3>2, <3>3, NocInjectEnters, TransportAddressedKept
  <2> QED
    BY <2>1, <2>2
<1> QED
  BY <1>4, <1>5

LEMMA InjectDramResponseAddressed ==
    ASSUME AddressInv, InjectDramResponse
    PROVE  CoresAddressed' /\ TransportAddressed'
<1> DEFINE p == Head(dramReplies)
<1>1. /\ TypeInv /\ CoresAddressed /\ TransportAddressed
      /\ dramReplies \in Seq(Packet) /\ dramReplies # <<>>
  BY QueuesTyped DEF InjectDramResponse, AddressInv
<1>2. /\ p \in Packet /\ p \in ToSet(dramReplies)
      /\ ToSet(Tail(dramReplies)) \subseteq ToSet(dramReplies)
  BY <1>1, HeadTailQueue
<1>3. OnNetwork(p)
  <2>1. FromMemory(p)
    BY <1>1, <1>2 DEF TransportAddressed
  <2> QED
    BY <2>1, NodesApart DEF FromMemory, OnNetwork
<1>4. NocInject(p) /\ dramReplies' = Tail(dramReplies) /\ UNCHANGED dram
  BY DEF InjectDramResponse
<1>5. CoresAddressed'
  BY <1>1, SameAddressed DEF InjectDramResponse, QuietCores, netVars, writeVars
<1> HIDE DEF p
<1>6. TransportAddressed'
  BY <1>1, <1>2, <1>3, <1>4, NocInjectEnters, TransportAddressedKept
<1> QED
  BY <1>5, <1>6

LEMMA AdvanceAddressed ==
    ASSUME AddressInv, Advance
    PROVE  CoresAddressed' /\ TransportAddressed'
<1>1. TypeInv /\ CoresAddressed /\ TransportAddressed
  BY DEF AddressInv
<1>2. CoresAddressed'
  BY <1>1, SameAddressed DEF Advance, QuietCores, netVars, writeVars
<1>3. noc' = OneCycle(noc) /\ dram' = OneCycle(dram) /\ dramReplies' = dramReplies
  BY DEF Advance
<1> HIDE DEF OneCycle
<1>4. TransportAddressed'
  BY <1>1, <1>3, QueuesTyped, OneCycleAddressed, TransportAddressedKept
<1> QED
  BY <1>2, <1>4

LEMMA DeliverToCoreAddressed ==
    ASSUME AddressInv, NEW c \in Core, DeliverToCore(c)
    PROVE  CoresAddressed' /\ TransportAddressed'
<1>1. TypeInv /\ CoresAddressed /\ TransportAddressed /\ QuietCores
  BY DEF AddressInv, DeliverToCore
<1>2. PICK i \in 1 .. Len(noc) :
        /\ noc[i].pkt.dst = NodeId(c)
        /\ Receive(c, noc[i].pkt) /\ noc' = RemoveAt(noc, i)
  BY <1>1, DeliverToCoreMoves
<1>3. UNCHANGED <<injection, dram, dramReplies>>
  BY <1>1, DeliverToCoreMoves
<1>4. /\ noc[i] \in ToSet(noc) /\ noc[i].pkt \in Packet
      /\ ToSet(noc') \subseteq ToSet(noc)
  BY <1>1, <1>2, QueuesTyped, LeavesFlight
<1>5. OnNetwork(noc[i].pkt)
  BY <1>1, <1>4 DEF TransportAddressed
<1>6. GivenTo(c, noc[i].pkt)
  BY <1>2, <1>5, NodesApart DEF OnNetwork, GivenTo
<1>7. CoresAddressed'
  <2>1. /\ Adds(injection, injection', c, {})
        /\ Adds(ejection, ejection', c, {noc[i].pkt})
    BY <1>1, <1>2, <1>3, <1>4, AddsSame, AddsReceive
  <2> QED
    BY <1>1, <1>6, <2>1, QuietAddressed
<1>8. TransportAddressed'
  BY <1>1, <1>3, <1>4, TransportAddressedKept
<1> QED
  BY <1>7, <1>8

LEMMA ForwardToDramAddressed ==
    ASSUME AddressInv, NEW m \in DOMAIN MemoryNodes, ForwardToDram(m)
    PROVE  CoresAddressed' /\ TransportAddressed'
<1>1. TypeInv /\ CoresAddressed /\ TransportAddressed /\ QuietCores
  BY DEF AddressInv, ForwardToDram
<1>2. PICK i \in 1 .. Len(noc) :
        /\ noc[i].pkt.dst \in ToSet(MemoryNodes)
        /\ DramSend(noc[i].pkt) /\ noc' = RemoveAt(noc, i)
  BY <1>1, ForwardToDramMoves
<1>3. UNCHANGED <<injection, ejection, remote, retry, dramReplies>>
  BY <1>1, ForwardToDramMoves
<1>4. /\ noc[i] \in ToSet(noc) /\ noc[i].pkt \in Packet
      /\ ToSet(noc') \subseteq ToSet(noc)
  BY <1>1, <1>2, QueuesTyped, LeavesFlight
<1>5. OnNetwork(noc[i].pkt)
  BY <1>1, <1>4 DEF TransportAddressed
<1>6. FromMemory(Reply(noc[i].pkt))
  BY <1>2, <1>4, <1>5, ReplyFromMemory DEF OnNetwork, IsRequest, ReadRequest
<1>7. CoresAddressed'
  BY <1>1, <1>3, SameAddressed DEF QuietCores, writeVars
<1>8. TransportAddressed'
  BY <1>1, <1>2, <1>3, <1>4, <1>6, DramSendEnters, TransportAddressedKept
<1> QED
  BY <1>7, <1>8

LEMMA DeliverDramResponseAddressed ==
    ASSUME AddressInv, DeliverDramResponse
    PROVE  CoresAddressed' /\ TransportAddressed'
<1>1. TypeInv /\ CoresAddressed /\ TransportAddressed /\ QuietCores
  BY DEF AddressInv, DeliverDramResponse
<1>2. PICK i \in 1 .. Len(dram) :
        /\ dram' = RemoveAt(dram, i)
        /\ IF OnNoc
             THEN /\ dramReplies' = Append(dramReplies, dram[i].pkt)
                  /\ UNCHANGED ejection
             ELSE Receive(dram[i].pkt.dst, dram[i].pkt) /\ UNCHANGED dramReplies
  BY <1>1, DeliverDramResponseMoves
<1>3. UNCHANGED <<injection, remote, retry, noc>>
  BY <1>1, DeliverDramResponseMoves
<1>4. /\ dram[i] \in ToSet(dram) /\ dram[i].pkt \in Packet
      /\ ToSet(dram') \subseteq ToSet(dram)
  BY <1>1, <1>2, QueuesTyped, LeavesFlight
<1>5. FromMemory(dram[i].pkt)
  BY <1>1, <1>4 DEF TransportAddressed
<1>6. CASE OnNoc
  <2>1. CoresAddressed'
    BY <1>1, <1>2, <1>3, <1>6, SameAddressed DEF QuietCores, writeVars
  <2>2. ToSet(dramReplies') = ToSet(dramReplies) \cup {dram[i].pkt}
    <3>1. dramReplies' = Append(dramReplies, dram[i].pkt)
      BY <1>2, <1>6
    <3>2. dramReplies \in Seq(Packet)
      BY <1>1, QueuesTyped
    <3> QED
      BY <1>4, <3>1, <3>2, AppendQueue
  <2>3. TransportAddressed'
    BY <1>1, <1>3, <1>4, <1>5, <2>2, TransportAddressedKept
  <2> QED
    BY <2>1, <2>3
<1>7. CASE ~OnNoc
  <2> DEFINE c == dram[i].pkt.dst
  <2>1. c \in Core /\ NodeId(c) = c
    BY <1>5, <1>7, NodesApart DEF FromMemory
  <2>2. GivenTo(c, dram[i].pkt)
    BY <1>5, <2>1 DEF FromMemory, GivenTo
  <2>3. /\ Adds(injection, injection', c, {})
        /\ Adds(ejection, ejection', c, {dram[i].pkt})
    BY <1>1, <1>2, <1>3, <1>4, <1>7, <2>1, AddsSame, AddsReceive
  <2>4. CoresAddressed'
    BY <1>1, <2>2, <2>3, QuietAddressed
  <2>5. TransportAddressed'
    BY <1>1, <1>2, <1>3, <1>4, <1>7, TransportAddressedKept
  <2> QED
    BY <2>4, <2>5
<1> QED
  BY <1>6, <1>7

(* The steps that move no packet. *)
LEMMA PhaseAddressed ==
    ASSUME AddressInv,
           \/ EndCollect \/ EndReply \/ EndDeliver \/ EndForward \/ EndRespond
           \/ NextCycle \/ CheckProgress \/ GiveUp
    PROVE  CoresAddressed' /\ TransportAddressed'
<1>1. /\ QuietCores /\ UNCHANGED <<netVars, transportVars>>
  BY DEF EndCollect, EndReply, EndDeliver, EndForward, EndRespond, NextCycle,
         CheckProgress, GiveUp
<1> QED
  BY <1>1, SameAddressed, SameTransportAddressed
  DEF AddressInv, QuietCores, netVars, writeVars

LEMMA TickAddressed ==
    ASSUME AddressInv, Tick
    PROVE  CoresAddressed' /\ TransportAddressed'
<1>1. CASE CoreTick /\ UNCHANGED <<transportVars, watchVars>>
  BY <1>1, CoreTickAddressed, SameTransportAddressed DEF AddressInv
<1>2. ASSUME NEW c \in Core, CollectPacket(c) \/ DeliverToCore(c)
      PROVE  CoresAddressed' /\ TransportAddressed'
  BY <1>2, CollectPacketAddressed, DeliverToCoreAddressed
<1>3. ASSUME NEW m \in DOMAIN MemoryNodes, ForwardToDram(m)
      PROVE  CoresAddressed' /\ TransportAddressed'
  BY <1>3, ForwardToDramAddressed
<1> QED
  BY <1>1, <1>2, <1>3, PhaseAddressed, InjectDramResponseAddressed,
     AdvanceAddressed, DeliverDramResponseAddressed
  DEF Tick

LEMMA NextAddressed ==
    ASSUME AddressInv, [Next]_vars
    PROVE  AddressInv'
<1>1. TypeInv'
  BY NextTyped DEF AddressInv
<1>2. ir' = ir
  BY NextKeepsIr DEF AddressInv
<1>3. CASE UNCHANGED vars
  <2>1. UNCHANGED <<injection, ejection, remote, retry, writeQueue, transportVars>>
    BY <1>3 DEF vars, coreVars, netVars, writeVars
  <2> QED
    BY <1>1, <1>2, <2>1, SameAddressed, SameTransportAddressed DEF AddressInv
<1>4. CASE Watchdog
  BY <1>1, <1>2, <1>4, WatchdogAddressed, SameTransportAddressed DEF AddressInv
<1>5. CASE Tick \/ NextCycle \/ CheckProgress
  BY <1>1, <1>2, <1>5, TickAddressed, PhaseAddressed DEF AddressInv
<1> QED
  BY <1>3, <1>4, <1>5 DEF Next, Halted

LEMMA InitAddressed ==
    ASSUME Init
    PROVE  AddressInv
<1>1. TypeInv /\ ir \in Programs
  BY InitTyped DEF Init
<1>2. \A x : x \notin ToSet(<<>>)
  BY NothingIn
<1>3. CoresAddressed
  BY <1>2 DEF Init, CoreInit, CoresAddressed
<1>4. TransportAddressed
  BY <1>2 DEF Init, TransportAddressed
<1> QED
  BY <1>1, <1>3, <1>4 DEF AddressInv

-----------------------------------------------------------------------------
(* What travels for a core: a request and its answer are one token.        *)

Paired(request, response) ==
    \/ request = "READ_REQUEST" /\ response = "READ_RESPONSE"
    \/ request = "WRITE_REQUEST" /\ response = "WRITE_RESPONSE"

Sent(c, t, request, response) ==
    From(c, request, t) \cup To(NodeId(c), response, t)
Taken(c, t, request, response) ==
    From(NodeId(c), request, t) \cup To(NodeId(c), response, t)

LEMMA InSentOrTaken ==
    ASSUME NEW p \in Packet, NEW c, NEW t, NEW request, NEW response
    PROVE  /\ p \in Sent(c, t, request, response) <=>
                /\ p.tid = t
                /\ \/ p.type = request /\ p.src = c
                   \/ p.type = response /\ p.dst = NodeId(c)
           /\ p \in Taken(c, t, request, response) <=>
                /\ p.tid = t
                /\ \/ p.type = request /\ p.src = NodeId(c)
                   \/ p.type = response /\ p.dst = NodeId(c)
  BY DEF Packet, Sent, Taken, From, To

LEMMA OneEqual ==
    ASSUME NEW x, NEW y, NEW S, NEW T, x \in S <=> y \in T
    PROVE  One(x, S) = One(y, T)
  BY DEF One

LEMMA CarriedIsUnderWay ==
    ASSUME NEW c, NEW t, NEW request, NEW response
    PROVE  /\ Carried(c, t, request, response)
                = UnderWay(Sent(c, t, request, response), Taken(c, t, request, response))
           /\ Carried(c, t, request, response)'
                = UnderWay(Sent(c, t, request, response), Taken(c, t, request, response))'
  BY DEF Carried, Sent, Taken

LEMMA CarriedTyped ==
    ASSUME TypeInv, NEW c, NEW t, NEW request, NEW response
    PROVE  Carried(c, t, request, response) \in Nat
  BY CarriedIsUnderWay, UnderWayTyped

LEMMA SameCarried ==
    ASSUME NEW c, NEW t, NEW request, NEW response,
           UNCHANGED <<netVars, remote, retry, transportVars>>
    PROVE  Carried(c, t, request, response)' = Carried(c, t, request, response)
  BY CarriedIsUnderWay, SameUnderWay

(* A packet that enters the network or the memory is the same token. *)
LEMMA CollectedToken ==
    ASSUME NEW d \in Core, NEW p \in Packet, SentBy(d, p), NEW q \in Packet,
           IF p.dst = DRAM /\ ~OnNoc THEN q = Reply(p) ELSE q \in Routed(p),
           NEW c \in Core, NEW t, NEW request, NEW response, Paired(request, response),
           request = "READ_REQUEST" => CoreIdsAreNodes
    PROVE  p \in Sent(c, t, request, response) <=> q \in Taken(c, t, request, response)
<1> DEFINE inSent  == /\ p.tid = t
                      /\ \/ p.type = request /\ p.src = c
                         \/ p.type = response /\ p.dst = NodeId(c)
           inTaken == /\ q.tid = t
                      /\ \/ q.type = request /\ q.src = NodeId(c)
                         \/ q.type = response /\ q.dst = NodeId(c)
<1>1. inSent <=> inTaken
  <2>1. CASE p.dst = DRAM /\ ~OnNoc
    <3>1. /\ q.type = IF p.type = "READ_REQUEST" THEN "READ_RESPONSE"
                                                 ELSE "WRITE_RESPONSE"
          /\ q.src = p.dst /\ q.dst = p.src /\ q.tid = p.tid
      BY <2>1 DEF Reply, Packet
    <3>2. /\ p.src = d /\ p.type \in {"READ_REQUEST", "WRITE_REQUEST"}
          /\ NodeId(c) = c /\ p.dst # NodeId(c)
      BY <2>1, NodesApart DEF SentBy, ReadRequest, ReadResponse
    <3> QED
      BY <3>1, <3>2 DEF Paired
  <2>2. CASE ~OnNoc /\ p.dst # DRAM
    <3>1. q = p /\ NodeId(c) = c
      BY <2>2, NodesApart DEF Routed
    <3> QED
      BY <3>1
  <2>3. CASE OnNoc
    <3>1. PICK node \in IF p.dst = DRAM THEN ToSet(MemoryNodes) ELSE {CoreToNoc(p.dst)} :
            q = [p EXCEPT !.src = CoreToNoc(p.src), !.dst = node]
      BY <2>3 DEF Routed
    <3>2. /\ q.type = p.type /\ q.src = CoreToNoc(p.src) /\ q.dst = node /\ q.tid = p.tid
      BY <3>1 DEF Packet
    <3>3. CASE p.type \in {"READ_REQUEST", "WRITE_REQUEST"}
      <4>1. p.src = d /\ CoreToNoc(d) = NodeId(d)
        BY <2>3, <3>3, NodesApart DEF SentBy, ReadRequest, ReadResponse
      <4>2. NodeId(d) = NodeId(c) <=> d = c
        BY NodesApart
      <4> QED
        BY <3>2, <3>3, <4>1, <4>2 DEF Paired
    <3>4. CASE p.type = "READ_RESPONSE"
      <4>1. p.dst \in CoreNodes /\ p.dst # DRAM
        BY <3>4, NodesApart DEF SentBy, ReadRequest, ReadResponse
      <4>2. request = "READ_REQUEST" => q.dst = p.dst
        <5>1. q.dst = CoreToNoc(p.dst)
          BY <3>1, <3>2, <4>1
        <5>2. PICK e \in Core : p.dst = NodeId(e)
          BY <4>1 DEF CoreNodes
        <5> QED
          BY <2>3, <5>1, <5>2 DEF CoreIdsAreNodes, CoreToNoc, NodeId
      <4> QED
        BY <3>2, <3>4, <4>2 DEF Paired
    <3> QED
      BY <3>3, <3>4 DEF SentBy, ReadRequest, ReadResponse
  <2> QED
    BY <2>1, <2>2, <2>3
<1> QED
  BY <1>1, InSentOrTaken

LEMMA CollectPacketCarries ==
    ASSUME AddressInv, NEW d \in Core, CollectPacket(d),
           NEW c \in Core, NEW t, NEW request, NEW response, Paired(request, response),
           request = "READ_REQUEST" => CoreIdsAreNodes
    PROVE  Carried(c, t, request, response)' = Carried(c, t, request, response)
<1> DEFINE sent == Sent(c, t, request, response)
           taken == Taken(c, t, request, response)
           p == Head(injection[d])
<1>1. TypeInv /\ CoresAddressed
  BY DEF AddressInv
<1>2. p \in Packet /\ p \in ToSet(injection[d])
  BY <1>1, CollectPacketCounts
<1>3. PICK q \in Packet :
        /\ IF p.dst = DRAM /\ ~OnNoc THEN q = Reply(p) ELSE q \in Routed(p)
        /\ UnderWay(sent, taken)' + One(p, sent) = UnderWay(sent, taken) + One(q, taken)
  BY <1>1, CollectPacketCounts
<1>4. SentBy(d, p)
  BY <1>1, <1>2 DEF CoresAddressed
<1> HIDE DEF p
<1>5. One(p, sent) = One(q, taken)
  BY <1>2, <1>3, <1>4, CollectedToken, OneEqual
<1> HIDE DEF sent, taken
<1>6. UnderWay(sent, taken) \in Nat /\ UnderWay(sent, taken)' \in Nat
  BY <1>1, NextTyped, UnderWayTyped, UnderWayStaysTyped DEF Next, Tick
<1>7. One(p, sent) \in Nat
  BY OneTyped
<1>8. UnderWay(sent, taken)' = UnderWay(sent, taken)
  BY <1>3, <1>5, <1>6, <1>7
<1> QED
  BY <1>8, CarriedIsUnderWay DEF sent, taken

LEMMA ForwardToDramCarries ==
    ASSUME AddressInv, NEW m \in DOMAIN MemoryNodes, ForwardToDram(m),
           NEW c \in Core, NEW t, NEW request, NEW response, Paired(request, response)
    PROVE  Carried(c, t, request, response)' = Carried(c, t, request, response)
<1> DEFINE sent == Sent(c, t, request, response)
           taken == Taken(c, t, request, response)
<1>1. TypeInv /\ TransportAddressed
  BY DEF AddressInv
<1>2. PICK i \in 1 .. Len(noc) :
        /\ noc[i].pkt.dst \in ToSet(MemoryNodes) /\ noc[i].pkt \in Packet
        /\ UnderWay(sent, taken)' + One(noc[i].pkt, taken)
                = UnderWay(sent, taken) + One(Reply(noc[i].pkt), taken)
  BY <1>1, ForwardToDramCounts
<1> DEFINE p == noc[i].pkt
<1>3. OnNetwork(p)
  BY <1>1, <1>2, QueuesTyped, LeavesFlight DEF TransportAddressed
<1>4. One(p, taken) = One(Reply(p), taken)
  <2>1. /\ p.type \in {"READ_REQUEST", "WRITE_REQUEST"}
        /\ p.dst # NodeId(c)
    BY <1>2, <1>3, NodesApart DEF OnNetwork, ReadRequest, Answer
  <2>2. /\ Reply(p).type = IF p.type = "READ_REQUEST" THEN "READ_RESPONSE"
                                                      ELSE "WRITE_RESPONSE"
        /\ Reply(p).dst = p.src /\ Reply(p).tid = p.tid /\ Reply(p) \in Packet
    BY <1>2, ReplyTyped DEF Reply, Packet
  <2> HIDE DEF p, Reply
  <2>3. p \in Packet
    BY <1>2 DEF p
  <2>4. p \in taken <=> Reply(p) \in taken
    BY <2>1, <2>2, <2>3, InSentOrTaken DEF Paired
  <2> QED
    BY <2>4, OneEqual
<1>5. UnderWay(sent, taken)' + One(p, taken) = UnderWay(sent, taken) + One(Reply(p), taken)
  BY <1>2
<1> HIDE DEF p, sent, taken
<1>6. UnderWay(sent, taken) \in Nat /\ UnderWay(sent, taken)' \in Nat
  BY <1>1, NextTyped, UnderWayTyped, UnderWayStaysTyped DEF Next, Tick
<1>7. One(p, taken) \in Nat
  BY OneTyped
<1>8. UnderWay(sent, taken)' = UnderWay(sent, taken)
  BY <1>4, <1>5, <1>6, <1>7
<1> QED
  BY <1>8, CarriedIsUnderWay DEF sent, taken

LEMMA DeliverDramResponseCarries ==
    ASSUME AddressInv, DeliverDramResponse,
           NEW c \in Core, NEW t, NEW request, NEW response
    PROVE  Carried(c, t, request, response)' = Carried(c, t, request, response)
<1>1. TypeInv /\ TransportAddressed
  BY DEF AddressInv
<1>2. ~OnNoc => \A i \in 1 .. Len(dram) : dram[i].pkt.dst \in Core
  BY <1>1, QueuesTyped, LeavesFlight, NodesApart DEF TransportAddressed, FromMemory
<1> QED
  BY <1>1, <1>2, DeliverDramResponseCounts, CarriedIsUnderWay

(* The steps of the network, the memory and the clock. *)
TransportStep ==
    \/ \E c \in Core : CollectPacket(c) \/ DeliverToCore(c)
    \/ EndCollect \/ InjectDramResponse \/ EndReply \/ Advance \/ EndDeliver
    \/ \E m \in DOMAIN MemoryNodes : ForwardToDram(m)
    \/ EndForward \/ DeliverDramResponse \/ EndRespond
    \/ NextCycle \/ CheckProgress \/ GiveUp

(* They move tokens and lose none. *)
LEMMA TransportCarries ==
    ASSUME AddressInv, TransportStep,
           NEW c \in Core, NEW t, NEW request, NEW response, Paired(request, response),
           request = "READ_REQUEST" => CoreIdsAreNodes
    PROVE  Carried(c, t, request, response)' = Carried(c, t, request, response)
<1>1. TypeInv
  BY DEF AddressInv
<1>2. CASE \/ EndCollect \/ EndReply \/ EndDeliver \/ EndForward \/ EndRespond
           \/ NextCycle \/ CheckProgress \/ GiveUp
  <2>1. UNCHANGED <<netVars, remote, retry, transportVars>>
    BY <1>2 DEF EndCollect, EndReply, EndDeliver, EndForward, EndRespond, NextCycle,
         CheckProgress, GiveUp, QuietCores
  <2> QED
    BY <2>1, SameCarried
<1>3. ASSUME NEW d \in Core, CollectPacket(d) \/ DeliverToCore(d)
      PROVE  Carried(c, t, request, response)' = Carried(c, t, request, response)
  BY <1>1, <1>3, CollectPacketCarries, DeliverToCoreCounts, CarriedIsUnderWay
<1>4. ASSUME NEW m \in DOMAIN MemoryNodes, ForwardToDram(m)
      PROVE  Carried(c, t, request, response)' = Carried(c, t, request, response)
  BY <1>4, ForwardToDramCarries
<1>5. CASE InjectDramResponse \/ Advance \/ DeliverDramResponse
  BY <1>1, <1>5, InjectDramResponseCounts, AdvanceCounts, DeliverDramResponseCarries,
     CarriedIsUnderWay
<1> QED
  BY <1>2, <1>3, <1>4, <1>5 DEF TransportStep

-----------------------------------------------------------------------------
(* What the steps of a core do to the tokens.                              *)

(* A request and the response to it are the same token. *)
LEMMA ResponseToken ==
    ASSUME NEW p \in Packet, ReadRequest(p), p.src \in CoreNodes, NEW d \in Core,
           NEW c \in Core, NEW t, NEW request, NEW response, Paired(request, response)
    PROVE  One(p, Taken(c, t, request, response))
                = One(Response(d, p), Sent(c, t, request, response))
<1>1. /\ Response(d, p) \in Packet /\ Response(d, p).type = "READ_RESPONSE"
      /\ Response(d, p).dst = p.src /\ Response(d, p).tid = p.tid
  BY ResponseTyped DEF Response
<1>2. p.type = "READ_REQUEST"
  BY DEF ReadRequest
<1>3. p \in Taken(c, t, request, response)
            <=> Response(d, p) \in Sent(c, t, request, response)
  BY <1>1, <1>2, InSentOrTaken DEF Paired
<1> QED
  BY <1>3, OneEqual

(* One token is given for another. *)
LEMMA SwapOfTokens ==
    ASSUME TypeInv, TypeInv', NEW sent, NEW taken, NEW p, NEW q,
           UnderWay(sent, taken)' + One(p, taken) = UnderWay(sent, taken) + One(q, sent),
           One(p, taken) = One(q, sent)
    PROVE  UnderWay(sent, taken)' = UnderWay(sent, taken)
<1>1. UnderWay(sent, taken) \in Nat /\ UnderWay(sent, taken)' \in Nat
  BY UnderWayTyped, UnderWayStaysTyped
<1>2. One(p, taken) \in Nat
  BY OneTyped
<1> QED
  BY <1>1, <1>2

LEMMA ReceiveReadRequestCarries ==
    ASSUME AddressInv, TypeInv', ReceiveReadRequest, UNCHANGED transportVars,
           NEW c \in Core, NEW t, NEW request, NEW response, Paired(request, response)
    PROVE  Carried(c, t, request, response)' = Carried(c, t, request, response)
<1> DEFINE sent == Sent(c, t, request, response)
           taken == Taken(c, t, request, response)
<1>1. /\ TypeInv /\ Arriving \in Packet /\ cur \in Core
      /\ ReadRequest(Arriving) /\ Arriving.src \in CoreNodes
  BY ArrivingGiven DEF AddressInv, ReceiveReadRequest, GivenTo, Answer, ReadResponse
<1>2. \/ UnderWay(sent, taken)' = UnderWay(sent, taken)
      \/ UnderWay(sent, taken)' + One(Arriving, taken)
            = UnderWay(sent, taken) + One(Response(cur, Arriving), sent)
  BY <1>1, ReceiveReadRequestCounts
<1>3. One(Arriving, taken) = One(Response(cur, Arriving), sent)
  BY <1>1, ResponseToken
<1> HIDE DEF sent, taken
<1>4. UnderWay(sent, taken)' = UnderWay(sent, taken)
  BY <1>1, <1>2, <1>3, SwapOfTokens
<1> QED
  BY <1>4, CarriedIsUnderWay DEF sent, taken

LEMMA ServeRemoteRequestCarries ==
    ASSUME AddressInv, TypeInv', ServeRemoteRequest, UNCHANGED transportVars,
           NEW c \in Core, NEW t, NEW request, NEW response, Paired(request, response)
    PROVE  Carried(c, t, request, response)' = Carried(c, t, request, response)
<1> DEFINE sent == Sent(c, t, request, response)
           taken == Taken(c, t, request, response)
           req == remote[cur][cursor]
<1>1. TypeInv /\ CoresAddressed
  BY DEF AddressInv
<1>2. \/ UnderWay(sent, taken)' = UnderWay(sent, taken)
      \/ /\ UnderWay(sent, taken)' + One(req, taken)
                = UnderWay(sent, taken) + One(Response(cur, req), sent)
         /\ req \in ToSet(remote[cur]) /\ req \in Packet /\ cur \in Core
  BY <1>1, ServeRemoteRequestCounts
<1> HIDE DEF req
<1>3. CASE /\ UnderWay(sent, taken)' + One(req, taken)
                = UnderWay(sent, taken) + One(Response(cur, req), sent)
           /\ req \in ToSet(remote[cur]) /\ req \in Packet /\ cur \in Core
  <2>1. ReadRequest(req) /\ req.src \in CoreNodes
    BY <1>1, <1>3 DEF CoresAddressed
  <2>2. One(req, taken) = One(Response(cur, req), sent)
    BY <1>3, <2>1, ResponseToken
  <2> HIDE DEF sent, taken
  <2>3. UnderWay(sent, taken)' = UnderWay(sent, taken)
    BY <1>1, <1>3, <2>2, SwapOfTokens
  <2> QED
    BY <2>3, CarriedIsUnderWay DEF sent, taken
<1> QED
  BY <1>2, <1>3, CarriedIsUnderWay

(* The token a core takes from its queue is its own. *)
LEMMA ArrivedToken ==
    ASSUME NEW p \in Packet, NEW d \in Core, Answer(p), p.dst = NodeId(d),
           NEW c \in Core, NEW t, NEW request, NEW response, Paired(request, response)
    PROVE  One(p, Taken(c, t, request, response))
                = IF d = c /\ p.tid = t /\ p.type = response THEN 1 ELSE 0
<1>1. p.type \in {"READ_RESPONSE", "WRITE_RESPONSE"}
  BY DEF Answer, ReadResponse
<1>2. NodeId(d) = NodeId(c) <=> d = c
  BY NodesApart
<1>3. p \in Taken(c, t, request, response) <=> d = c /\ p.tid = t /\ p.type = response
  BY <1>1, <1>2, InSentOrTaken DEF Paired
<1> QED
  BY <1>3 DEF One

(* The data of p reaches core c's memory: a response becomes a write. *)
ResponseWritten(p, c, t, request, response) ==
    \/ /\ Carried(c, t, request, response)' = Carried(c, t, request, response)
       /\ UNCHANGED writeVars
    \/ /\ Carried(c, t, request, response)
            = Carried(c, t, request, response)'
              + IF cur = c /\ p.tid = t /\ response = "READ_RESPONSE" THEN 1 ELSE 0
       /\ StartWrite(cur, p)

LEMMA ReceiveReadResponseCarries ==
    ASSUME AddressInv, ReceiveReadResponse, UNCHANGED transportVars,
           NEW c \in Core, NEW t, NEW request, NEW response, Paired(request, response)
    PROVE  /\ ResponseWritten(Arriving, c, t, request, response)
           /\ Arriving \in Packet /\ HasBytes(Arriving) /\ cur \in Core
<1> DEFINE sent == Sent(c, t, request, response)
           taken == Taken(c, t, request, response)
<1>1. /\ TypeInv /\ Arriving \in Packet /\ cur \in Core
      /\ ReadResponse(Arriving) /\ Arriving.dst = NodeId(cur)
  BY ArrivingGiven DEF AddressInv, ReceiveReadResponse, GivenTo, Answer, ReadRequest
<1>2. \/ /\ UnderWay(sent, taken)' = UnderWay(sent, taken)
         /\ UNCHANGED writeVars
      \/ /\ UnderWay(sent, taken) = UnderWay(sent, taken)' + One(Arriving, taken)
         /\ StartWrite(cur, Arriving)
  BY <1>1, ReceiveReadResponseCounts
<1>3. One(Arriving, taken)
        = IF cur = c /\ Arriving.tid = t /\ Arriving.type = response THEN 1 ELSE 0
  BY <1>1, ArrivedToken DEF Answer
<1>4. Arriving.type = "READ_RESPONSE" /\ HasBytes(Arriving)
  BY <1>1 DEF ReadResponse
<1>5. One(Arriving, taken)
        = IF cur = c /\ Arriving.tid = t /\ response = "READ_RESPONSE" THEN 1 ELSE 0
  BY <1>3, <1>4
<1> QED
  BY <1>1, <1>2, <1>4, <1>5, CarriedIsUnderWay DEF ResponseWritten

LEMMA RetryAllocationCarries ==
    ASSUME AddressInv, RetryAllocation, UNCHANGED transportVars,
           NEW c \in Core, NEW t, NEW request, NEW response, Paired(request, response)
    PROVE  /\ ResponseWritten(retry[cur][cursor], c, t, request, response)
           /\ retry[cur][cursor] \in Packet /\ HasBytes(retry[cur][cursor])
           /\ cur \in Core
<1> DEFINE sent == Sent(c, t, request, response)
           taken == Taken(c, t, request, response)
           p == retry[cur][cursor]
<1>1. /\ TypeInv /\ p \in Packet /\ cur \in Core
      /\ ReadResponse(p) /\ p.dst = NodeId(cur)
  BY RetriedAddressed
<1>2. \/ /\ UnderWay(sent, taken)' = UnderWay(sent, taken)
         /\ UNCHANGED writeVars
      \/ /\ UnderWay(sent, taken) = UnderWay(sent, taken)' + One(p, taken)
         /\ StartWrite(cur, p)
  BY <1>1, RetryAllocationCounts
<1> HIDE DEF p
<1>3. One(p, taken) = IF cur = c /\ p.tid = t /\ p.type = response THEN 1 ELSE 0
  BY <1>1, ArrivedToken DEF Answer
<1>4. p.type = "READ_RESPONSE" /\ HasBytes(p)
  BY <1>1 DEF ReadResponse
<1>5. One(p, taken) = IF cur = c /\ p.tid = t /\ response = "READ_RESPONSE" THEN 1 ELSE 0
  BY <1>3, <1>4
<1>6. ResponseWritten(p, c, t, request, response)
  BY <1>1, <1>2, <1>4, <1>5, CarriedIsUnderWay DEF ResponseWritten
<1> QED
  BY <1>1, <1>4, <1>6 DEF p

LEMMA ReceiveWriteResponseCarries ==
    ASSUME AddressInv, ReceiveWriteResponse, UNCHANGED transportVars,
           NEW c \in Core, NEW t, NEW request, NEW response, Paired(request, response)
    PROVE  /\ Carried(c, t, request, response)
                = Carried(c, t, request, response)'
                  + IF cur = c /\ Arriving.tid = t /\ response = "WRITE_RESPONSE"
                      THEN 1 ELSE 0
           /\ Arriving \in Packet /\ cur \in Core
<1> DEFINE sent == Sent(c, t, request, response)
           taken == Taken(c, t, request, response)
<1>1. /\ TypeInv /\ Arriving \in Packet /\ cur \in Core
      /\ Answer(Arriving) /\ Arriving.dst = NodeId(cur) /\ Arriving.type = "WRITE_RESPONSE"
  BY ArrivingGiven DEF AddressInv, ReceiveWriteResponse, GivenTo, ReadRequest
<1>2. UnderWay(sent, taken) = UnderWay(sent, taken)' + One(Arriving, taken)
  BY <1>1, ReceiveWriteResponseCounts
<1>3. One(Arriving, taken)
        = IF cur = c /\ Arriving.tid = t /\ Arriving.type = response THEN 1 ELSE 0
  BY <1>1, ArrivedToken
<1>4. One(Arriving, taken)
        = IF cur = c /\ Arriving.tid = t /\ response = "WRITE_RESPONSE" THEN 1 ELSE 0
  BY <1>1, <1>3
<1> QED
  BY <1>1, <1>2, <1>4, CarriedIsUnderWay

(* A core pushes a request of its own. *)
LEMMA SendCarries ==
    ASSUME TypeInv, NEW p \in Packet, Push(cur, p), p.src = cur,
           UNCHANGED <<ejection, remote, retry, transportVars>>,
           NEW c \in Core, NEW t, NEW request, NEW response, Paired(request, response),
           p.type \in {"READ_REQUEST", "WRITE_REQUEST"}
    PROVE  Carried(c, t, request, response)'
                = Carried(c, t, request, response)
                  + IF cur = c /\ p.tid = t /\ p.type = request THEN 1 ELSE 0
<1> DEFINE sent == Sent(c, t, request, response)
           taken == Taken(c, t, request, response)
<1>1. cur \in Core
  BY InTick
<1>2. UnderWay(sent, taken)' = UnderWay(sent, taken) + One(p, sent)
  BY <1>1, SendCounts
<1>3. p \in sent <=> cur = c /\ p.tid = t /\ p.type = request
  BY InSentOrTaken DEF Paired
<1> QED
  BY <1>2, <1>3, CarriedIsUnderWay DEF One

(* Every other step of a core leaves the packets alone. *)
SilentStep ==
    \/ EndIncoming \/ EndRetry \/ DrainUnlimited \/ DrainLimited \/ EndDrain
    \/ EndServe \/ RetireCore \/ StartWorkload \/ EndFetch
    \/ ComputeCycle \/ PublishOutput \/ EndOutputs
    \/ FreeInput \/ FinishWorkload
    \/ EnterWriteback \/ QueueWriteback \/ EndQueue
    \/ (WritebackCycle /\ ~SendWrite) \/ IdleTick

LEMMA SilentStepCarries ==
    ASSUME SilentStep, UNCHANGED transportVars,
           NEW c, NEW t, NEW request, NEW response
    PROVE  Carried(c, t, request, response)' = Carried(c, t, request, response)
<1>1. UNCHANGED <<netVars, remote, retry>>
  BY DEF SilentStep, EndIncoming, EndRetry, DrainUnlimited, DrainLimited, EndDrain,
         EndServe, RetireCore, StartWorkload, EndFetch, ComputeCycle, PublishOutput,
         EndOutputs, FreeInput, FinishWorkload, EnterWriteback, QueueWriteback,
         EndQueue, WritebackCycle, NothingToWrite, ReadOut, IdleTick, netVars
<1> QED
  BY <1>1, SameCarried

-----------------------------------------------------------------------------
(* The write-backs of a core: what it collects, sends and waits for.       *)

WriteBook == WritesDiffer /\ CollectedSoFar /\ WritesUnderWay

(* A step that has nothing to do with the writes. *)
NoWriteStep ==
    /\ UNCHANGED <<pendingWb, wbQueue>>
    /\ \A c \in Core : state'[c] = "WRITEBACK" <=> state[c] = "WRITEBACK"
    /\ pc' # "queue"

LEMMA NoWriteStepKeeps ==
    ASSUME WriteBook, NoWriteStep
    PROVE  WriteBook'
<1>1. WritesDiffer'
  BY DEF WriteBook, NoWriteStep, WritesDiffer
<1>2. CollectedSoFar'
  BY DEF NoWriteStep, CollectedSoFar
<1>3. WritesUnderWay'
  BY DEF WriteBook, NoWriteStep, WritesUnderWay
<1> QED
  BY <1>1, <1>2, <1>3 DEF WriteBook

(* One core, not in WRITEBACK, changes its state to another one. *)
LEMMA StateUpdate ==
    ASSUME TypeInv, NEW c \in Core, state[c] # "WRITEBACK", NEW s, s # "WRITEBACK",
           state' = [state EXCEPT ![c] = s]
    PROVE  \A d \in Core : state'[d] = "WRITEBACK" <=> state[d] = "WRITEBACK"
  BY DEF TypeInv, TypeOK, CoreTypeOK, FsmTypeOK

LEMMA CoreNoWriteStep ==
    ASSUME TypeInv,
           \/ ReceiveReadResponse \/ ReceiveReadRequest \/ EndIncoming
           \/ RetryAllocation \/ EndRetry \/ DrainUnlimited \/ DrainLimited \/ EndDrain
           \/ ServeRemoteRequest \/ EndServe \/ RetireCore \/ StartWorkload
           \/ FetchSource \/ EndFetch \/ ComputeCycle \/ PublishOutput \/ EndOutputs
           \/ FreeInput \/ FinishWorkload \/ EndQueue \/ IdleTick
    PROVE  NoWriteStep
<1>1. Control /\ cur \in Core /\ state[cur] \in CoreState
  BY InTick DEF CoreTypeOK, FsmTypeOK
<1>2. UNCHANGED <<pendingWb, wbQueue>>
  BY DEF ReceiveReadResponse, ReceiveReadRequest, EndIncoming, RetryAllocation,
         EndRetry, DrainUnlimited, DrainLimited, EndDrain, ServeRemoteRequest,
         EndServe, RetireCore, StartWorkload, FetchSource, EndFetch, ComputeCycle,
         PublishOutput, EndOutputs, FreeInput, FinishWorkload, EndQueue, IdleTick,
         wbVars
<1>3. pc' # "queue"
  BY <1>1
  DEF ReceiveReadResponse, ReceiveReadRequest, EndIncoming, RetryAllocation,
         EndRetry, DrainUnlimited, DrainLimited, EndDrain, ServeRemoteRequest,
         EndServe, RetireCore, StartWorkload, FetchSource, EndFetch, ComputeCycle,
         PublishOutput, EndOutputs, FreeInput, FinishWorkload, EndQueue, IdleTick,
         Incoming, SameIteration, NextIteration, Goto, EndTick, CoreState
<1>4. \A c \in Core : state'[c] = "WRITEBACK" <=> state[c] = "WRITEBACK"
  <2>1. CASE RetireCore
    BY <1>1, <2>1, StateUpdate DEF RetireCore, Control, PcMatchesState, CoreState
  <2>2. CASE StartWorkload
    <3>1. state[cur] # "WRITEBACK"
      BY <1>1, <2>2 DEF StartWorkload, Control, PcMatchesState, CoreState
    <3> QED
      BY <1>1, <2>2, <3>1, StateUpdate DEF StartWorkload, BeginCompute
  <2>3. CASE EndFetch
    <3>1. state[cur] # "WRITEBACK"
      BY <1>1, <2>3 DEF EndFetch, Control, PcMatchesState, CoreState
    <3> QED
      BY <1>1, <2>3, <3>1, StateUpdate DEF EndFetch, BeginCompute, fsmVars
  <2>4. CASE FinishWorkload
    <3>1. state[cur] # "WRITEBACK"
      BY <1>1, <2>4 DEF FinishWorkload, Control, PcMatchesState
    <3> QED
      BY <1>1, <2>4, <3>1, StateUpdate DEF FinishWorkload, NextWorkload
  <2>5. CASE \/ ReceiveReadResponse \/ ReceiveReadRequest \/ EndIncoming
             \/ RetryAllocation \/ EndRetry \/ DrainUnlimited \/ DrainLimited \/ EndDrain
             \/ ServeRemoteRequest \/ EndServe \/ FetchSource \/ ComputeCycle
             \/ PublishOutput \/ EndOutputs \/ FreeInput \/ EndQueue \/ IdleTick
    BY <2>5
    DEF ReceiveReadResponse, ReceiveReadRequest, EndIncoming, RetryAllocation,
        EndRetry, DrainUnlimited, DrainLimited, EndDrain, ServeRemoteRequest,
        EndServe, FetchSource, ComputeCycle, PublishOutput, EndOutputs, FreeInput,
        EndQueue, IdleTick, fsmVars
  <2> QED
    BY <2>1, <2>2, <2>3, <2>4, <2>5
<1> QED
  BY <1>2, <1>3, <1>4 DEF NoWriteStep

LEMMA QuietNoWriteStep ==
    ASSUME TypeInv, TransportStep
    PROVE  NoWriteStep
<1>1. QuietCores
  BY DEF TransportStep, CollectPacket, DeliverToCore, EndCollect, InjectDramResponse,
         EndReply, Advance, EndDeliver, ForwardToDram, EndForward,
         DeliverDramResponse, EndRespond, NextCycle, CheckProgress, GiveUp
<1>2. pc' # "queue"
  BY DEF TransportStep, CollectPacket, DeliverToCore, EndCollect, InjectDramResponse,
         EndReply, Advance, EndDeliver, ForwardToDram, EndForward,
         DeliverDramResponse, EndRespond, NextCycle, CheckProgress, GiveUp,
         Step, LoopHead
<1> QED
  BY <1>1, <1>2 DEF NoWriteStep, QuietCores, fsmVars, wbVars

LEMMA ForcedLoadNoWriteStep ==
    ASSUME TypeInv, (\E S \in SUBSET Core : BreakCycle(S)) \/ RelievePressure
    PROVE  NoWriteStep
<1>1. PICK c \in Core : ForceAdvanceLoading(c) /\ Resolved
  BY VictimIsCore DEF BreakCycle, IsCycle, RelievePressure, Pressured
<1>2. \A d \in Core : state'[d] = "WRITEBACK" <=> state[d] = "WRITEBACK"
  BY <1>1, StateUpdate DEF ForceAdvanceLoading, BeginCompute
<1> QED
  BY <1>1, <1>2 DEF NoWriteStep, ForceAdvanceLoading, Resolved, Step, wbVars

LEMMA ReceiveWriteResponseBook ==
    ASSUME TypeInv, WriteBook, ReceiveWriteResponse
    PROVE  WriteBook'
<1>1. cur \in Core /\ pendingWb \in [Core -> SUBSET Tid]
  BY InTick DEF CoreTypeOK, WbTypeOK
<1>2. /\ UNCHANGED <<wbQueue, state, pc>> /\ pc = "incoming"
      /\ \A c \in Core : pendingWb'[c] \subseteq pendingWb[c]
  BY <1>1 DEF ReceiveWriteResponse, Incoming, SameIteration, fsmVars
<1>3. WritesDiffer'
  BY <1>2 DEF WriteBook, WritesDiffer
<1>4. CollectedSoFar'
  BY <1>2 DEF CollectedSoFar
<1>5. WritesUnderWay'
  BY <1>2 DEF WriteBook, WritesUnderWay
<1> QED
  BY <1>3, <1>4, <1>5 DEF WriteBook

LEMMA EnterWritebackBook ==
    ASSUME TypeInv, WriteBook, EnterWriteback
    PROVE  WriteBook'
<1>1. /\ cur \in Core /\ state[cur] = "COMPUTING"
      /\ state \in [Core -> CoreState] /\ wbQueue \in [Core -> Seq(Chunk)]
  BY InTick
  DEF CoreTypeOK, FsmTypeOK, WbTypeOK, ChunkSeqs, EnterWriteback, Control, PcMatchesState
<1>2. pendingWb[cur] = {}
  BY <1>1 DEF WriteBook, WritesUnderWay
<1>3. /\ \A c \in Core : c # cur => state'[c] = state[c] /\ wbQueue'[c] = wbQueue[c]
      /\ state'[cur] = "WRITEBACK" /\ wbQueue'[cur] = <<>>
      /\ pendingWb' = pendingWb /\ cur' = cur
  BY <1>1 DEF EnterWriteback, Goto
<1>4. DOMAIN <<>> = {}
  OBVIOUS
<1>5. WritesDiffer'
  <2> SUFFICES ASSUME NEW c \in Core, state'[c] = "WRITEBACK"
               PROVE  \A j \in DOMAIN wbQueue'[c] :
                        /\ wbQueue'[c][j].tid \notin pendingWb'[c]
                        /\ \A k \in DOMAIN wbQueue'[c] :
                              wbQueue'[c][j].tid = wbQueue'[c][k].tid => j = k
    BY DEF WritesDiffer
  <2>1. CASE c = cur
    BY <1>3, <1>4, <2>1
  <2>2. CASE c # cur
    BY <1>3, <2>2 DEF WriteBook, WritesDiffer
  <2> QED
    BY <2>1, <2>2
<1>6. CollectedSoFar'
  BY <1>2, <1>3, <1>4 DEF CollectedSoFar
<1>7. WritesUnderWay'
  BY <1>3 DEF WriteBook, WritesUnderWay
<1> QED
  BY <1>5, <1>6, <1>7 DEF WriteBook

LEMMA QueueWritebackBook ==
    ASSUME TypeInv, ir \in Programs, WritesEachOnce, WriteBook, QueueWriteback
    PROVE  WriteBook'
<1> DEFINE out == Outputs(cur)[cursor]
           old == wbQueue[cur]
           new == wbQueue'[cur]
<1>1. /\ cur \in Core /\ state[cur] = "WRITEBACK" /\ pc = "queue" /\ cursor \in Nat \ {0}
      /\ wbQueue \in [Core -> Seq(Chunk)] /\ old \in Seq(Chunk)
      /\ ir[cur] \in Seq(Workload) /\ idx[cur] \in Nat \ {0} /\ HasWorkload(cur)
  BY InTick
  DEF CoreTypeOK, FsmTypeOK, TickTypeOK, WbTypeOK, ChunkSeqs, QueueWriteback, Control,
      PcMatchesState, WorkingHasWorkload
<1>2. /\ Outputs(cur) \in Seq(Output) /\ cursor \in 1 .. Len(Outputs(cur))
      /\ out.tid \in Tid /\ out.size \in Nat
  BY OutputTyped DEF QueueWriteback
<1>3. /\ UNCHANGED <<ir, state, idx, pendingWb, cur, pc>> /\ cursor' = cursor + 1
      /\ \A c \in Core : c # cur => wbQueue'[c] = wbQueue[c]
  BY <1>1 DEF QueueWriteback, NextIteration, fsmVars
<1>4. UNCHANGED Outputs(cur)
  BY <1>3 DEF Outputs, Current
<1>5. pendingWb[cur] = {}
  BY <1>1 DEF WriteBook, CollectedSoFar
<1>6. \A j \in DOMAIN old : \E k \in 1 .. cursor - 1 :
         /\ k \in DOMAIN Outputs(cur) /\ ToDram(Outputs(cur)[k])
         /\ old[j].tid = Outputs(cur)[k].tid
  BY <1>1 DEF WriteBook, CollectedSoFar
<1>7. \A j, k \in DOMAIN old : old[j].tid = old[k].tid => j = k
  BY <1>1 DEF WriteBook, WritesDiffer
<1>8. /\ \A j \in DOMAIN new : \E k \in 1 .. cursor :
            /\ k \in DOMAIN Outputs(cur) /\ ToDram(Outputs(cur)[k])
            /\ new[j].tid = Outputs(cur)[k].tid
      /\ \A j, k \in DOMAIN new : new[j].tid = new[k].tid => j = k
  <2>1. CASE ~ToDram(out)
    <3>1. new = old
      BY <2>1 DEF QueueWriteback
    <3> QED
      BY <1>1, <1>6, <1>7, <3>1
  <2>2. CASE ToDram(out)
    <3> DEFINE x == [tid |-> out.tid, size |-> out.size]
               n == Len(old) + 1
    <3>1. new = Append(old, x) /\ x \in Chunk /\ x.tid = out.tid
      BY <1>1, <1>2, <2>2 DEF QueueWriteback, Chunk
    <3> HIDE DEF x
    <3>2. /\ DOMAIN old = 1 .. Len(old) /\ DOMAIN new = 1 .. n
          /\ \A j \in 1 .. Len(old) : new[j] = old[j]
          /\ new[n] = x /\ Len(old) \in Nat
          /\ \A j \in 1 .. n : j \in 1 .. Len(old) \/ j = n
      BY <1>1, <3>1
    <3>3. \A j \in DOMAIN old : old[j].tid # out.tid
      <4> SUFFICES ASSUME NEW j \in DOMAIN old, old[j].tid = out.tid
                   PROVE  FALSE
        OBVIOUS
      <4>1. PICK k \in 1 .. cursor - 1 :
              /\ k \in DOMAIN Outputs(cur) /\ ToDram(Outputs(cur)[k])
              /\ Outputs(cur)[k].tid = out.tid
        BY <1>6
      <4>2. idx[cur] \in DOMAIN ir[cur] /\ cursor \in DOMAIN Outputs(cur)
        BY <1>1, <1>2 DEF HasWorkload
      <4>3. k = cursor
        BY <1>1, <2>2, <4>1, <4>2 DEF WritesEachOnce, Outputs, Current
      <4> QED
        BY <1>1, <4>1, <4>3
    <3>4. cursor \in 1 .. cursor /\ cursor \in DOMAIN Outputs(cur)
          /\ \A k \in 1 .. cursor - 1 : k \in 1 .. cursor
      BY <1>1, <1>2
    <3> HIDE DEF old, new, out, n
    <3>5. ASSUME NEW j \in DOMAIN new
          PROVE  \E k \in 1 .. cursor :
                    /\ k \in DOMAIN Outputs(cur) /\ ToDram(Outputs(cur)[k])
                    /\ new[j].tid = Outputs(cur)[k].tid
      <4>1. CASE j \in DOMAIN old
        BY <1>6, <3>2, <3>4, <4>1
      <4>2. CASE j = n
        BY <2>2, <3>1, <3>2, <3>4, <4>2 DEF out
      <4> QED
        BY <3>2, <4>1, <4>2
    <3>6. ASSUME NEW j \in DOMAIN new, NEW k \in DOMAIN new, new[j].tid = new[k].tid
          PROVE  j = k
      BY <1>7, <3>1, <3>2, <3>3, <3>6
    <3> QED
      BY <3>5, <3>6
  <2> QED
    BY <2>1, <2>2
<1>9. WritesDiffer'
  <2> SUFFICES ASSUME NEW c \in Core, state'[c] = "WRITEBACK"
               PROVE  \A j \in DOMAIN wbQueue'[c] :
                        /\ wbQueue'[c][j].tid \notin pendingWb'[c]
                        /\ \A k \in DOMAIN wbQueue'[c] :
                              wbQueue'[c][j].tid = wbQueue'[c][k].tid => j = k
    BY DEF WritesDiffer
  <2>1. CASE c = cur
    BY <1>3, <1>5, <1>8, <2>1
  <2>2. CASE c # cur
    BY <1>3, <2>2 DEF WriteBook, WritesDiffer
  <2> QED
    BY <2>1, <2>2
<1>10. CollectedSoFar'
  <2>1. cursor' - 1 = cursor
    BY <1>1, <1>3
  <2>2. \A k : ToDram(Outputs(cur)[k])' <=> ToDram(Outputs(cur)[k])
    BY <1>4 DEF ToDram
  <2> QED
    BY <1>3, <1>4, <1>5, <1>8, <2>1, <2>2 DEF CollectedSoFar
<1>11. WritesUnderWay'
  BY <1>3 DEF WriteBook, WritesUnderWay
<1> QED
  BY <1>9, <1>10, <1>11 DEF WriteBook

(* The write that is sent is not under way, and no other of the list is it. *)
LEMMA SendWriteBook ==
    ASSUME TypeInv, WriteBook, WritebackCycle, SendWrite
    PROVE  /\ WriteBook'
           /\ Head(wbQueue[cur]).tid \notin pendingWb[cur]
           /\ \A c \in Core : pendingWb'[c] =
                 IF c = cur THEN pendingWb[c] \cup {Head(wbQueue[cur]).tid}
                            ELSE pendingWb[c]
<1> DEFINE old == wbQueue[cur]
           new == wbQueue'[cur]
           x == Head(old)
<1>1. /\ cur \in Core /\ state[cur] = "WRITEBACK" /\ pc = "WRITEBACK"
      /\ wbQueue \in [Core -> Seq(Chunk)] /\ old \in Seq(Chunk) /\ old # <<>>
      /\ pendingWb \in [Core -> SUBSET Tid]
  BY InTick
  DEF CoreTypeOK, WbTypeOK, ChunkSeqs, WritebackCycle, SendWrite, Control,
      PcMatchesState, CoreState
<1>2. /\ \A c \in Core : c # cur => wbQueue'[c] = wbQueue[c]
      /\ \A c \in Core : pendingWb'[c] = IF c = cur THEN pendingWb[c] \cup {x.tid}
                                                    ELSE pendingWb[c]
      /\ new = Tail(old)
  BY <1>1 DEF SendWrite
<1>3. UNCHANGED state /\ pc' # "queue"
  <2>1. pendingWb'[cur] # {}
    BY <1>1, <1>2
  <2>2. UNCHANGED fsmVars
    BY <2>1 DEF WritebackCycle
  <2> QED
    BY <2>2 DEF WritebackCycle, EndTick, fsmVars
<1>4. \A j \in DOMAIN old :
         /\ old[j].tid \notin pendingWb[cur]
         /\ \A k \in DOMAIN old : old[j].tid = old[k].tid => j = k
  BY <1>1 DEF WriteBook, WritesDiffer
<1>5. /\ DOMAIN old = 1 .. Len(old) /\ Len(old) \in Nat /\ 1 \in DOMAIN old /\ x = old[1]
      /\ DOMAIN Tail(old) = 1 .. Len(old) - 1
      /\ \A j \in 1 .. Len(old) - 1 : Tail(old)[j] = old[j + 1] /\ j + 1 \in DOMAIN old
  <2>1. /\ Tail(old) \in Seq(Chunk) /\ Len(Tail(old)) = Len(old) - 1
        /\ \A j \in 1 .. Len(Tail(old)) : Tail(old)[j] = old[j + 1]
    BY <1>1, HeadTailProperties
  <2> QED
    BY <1>1, <2>1
<1> HIDE DEF old, new, x
<1>6. x.tid \notin pendingWb[cur]
  BY <1>4, <1>5
<1>7. \A j \in DOMAIN new :
         /\ new[j].tid \notin pendingWb'[cur]
         /\ \A k \in DOMAIN new : new[j].tid = new[k].tid => j = k
  <2> SUFFICES ASSUME NEW j \in DOMAIN new
               PROVE  /\ new[j].tid \notin pendingWb'[cur]
                      /\ \A k \in DOMAIN new : new[j].tid = new[k].tid => j = k
    OBVIOUS
  <2>1. j \in 1 .. Len(old) - 1 /\ new[j] = old[j + 1] /\ j + 1 \in DOMAIN old
    BY <1>2, <1>5
  <2>2. new[j].tid # x.tid
    BY <1>4, <1>5, <2>1
  <2>3. new[j].tid \notin pendingWb'[cur]
    BY <1>1, <1>2, <1>4, <2>1, <2>2
  <2>4. ASSUME NEW k \in DOMAIN new, new[j].tid = new[k].tid
        PROVE  j = k
    <3>1. k \in 1 .. Len(old) - 1 /\ new[k] = old[k + 1] /\ k + 1 \in DOMAIN old
      BY <1>2, <1>5
    <3>2. j + 1 = k + 1
      BY <1>4, <2>1, <2>4, <3>1
    <3> QED
      BY <2>1, <3>1, <3>2
  <2> QED
    BY <2>3, <2>4
<1>8. WritesDiffer'
  <2> SUFFICES ASSUME NEW c \in Core, state'[c] = "WRITEBACK"
               PROVE  \A j \in DOMAIN wbQueue'[c] :
                        /\ wbQueue'[c][j].tid \notin pendingWb'[c]
                        /\ \A k \in DOMAIN wbQueue'[c] :
                              wbQueue'[c][j].tid = wbQueue'[c][k].tid => j = k
    BY DEF WritesDiffer
  <2>1. CASE c = cur
    BY <1>7, <2>1 DEF new
  <2>2. CASE c # cur
    BY <1>2, <1>3, <2>2 DEF WriteBook, WritesDiffer
  <2> QED
    BY <2>1, <2>2
<1>9. CollectedSoFar'
  BY <1>3 DEF CollectedSoFar
<1>10. WritesUnderWay'
  BY <1>1, <1>2, <1>3 DEF WriteBook, WritesUnderWay
<1> QED
  BY <1>2, <1>6, <1>8, <1>9, <1>10 DEF WriteBook, old, x

LEMMA WritebackCycleBook ==
    ASSUME TypeInv, WriteBook, WritebackCycle, ~SendWrite
    PROVE  WriteBook' /\ UNCHANGED pendingWb
<1>1. /\ cur \in Core /\ state \in [Core -> CoreState]
  BY InTick DEF CoreTypeOK, FsmTypeOK
<1>2. UNCHANGED <<pendingWb, wbQueue>> /\ pc' # "queue"
  BY DEF WritebackCycle, NothingToWrite, ReadOut, EndTick
<1>3. \A c \in Core : /\ state'[c] = "WRITEBACK" => state[c] = "WRITEBACK"
                      /\ state[c] = "WRITEBACK" =>
                            state'[c] = "WRITEBACK" \/ pendingWb[c] = {}
  <2>1. CASE wbIssued'[cur] /\ pendingWb'[cur] = {}
    BY <1>1, <1>2, <2>1 DEF WritebackCycle, NextWorkload
  <2>2. CASE ~(wbIssued'[cur] /\ pendingWb'[cur] = {})
    BY <2>2 DEF WritebackCycle, fsmVars
  <2> QED
    BY <2>1, <2>2
<1>4. WritesDiffer'
  BY <1>2, <1>3 DEF WriteBook, WritesDiffer
<1>5. CollectedSoFar'
  BY <1>2 DEF CollectedSoFar
<1>6. WritesUnderWay'
  BY <1>2, <1>3 DEF WriteBook, WritesUnderWay
<1> QED
  BY <1>2, <1>4, <1>5, <1>6 DEF WriteBook

(* A step after which what core c waits for is what travels for it. *)
WriteToken(c, t) ==
    WritebackTokens(c, t) = IF t \in pendingWb[c] THEN 1 ELSE 0

LEMMA SameWriteToken ==
    ASSUME NEW c \in Core, NEW t \in Tid, WriteToken(c, t),
           Carried(c, t, "WRITE_REQUEST", "WRITE_RESPONSE")'
                = Carried(c, t, "WRITE_REQUEST", "WRITE_RESPONSE"),
           UNCHANGED pendingWb
    PROVE  WriteToken(c, t)'
  BY DEF WriteToken, WritebackTokens

LEMMA ReceiveWriteResponseToken ==
    ASSUME AddressInv, TypeInv', ReceiveWriteResponse, UNCHANGED transportVars,
           NEW c \in Core, NEW t \in Tid, WriteToken(c, t)
    PROVE  WriteToken(c, t)'
<1> DEFINE now == Carried(c, t, "WRITE_REQUEST", "WRITE_RESPONSE")
           then == Carried(c, t, "WRITE_REQUEST", "WRITE_RESPONSE")'
<1>1. now = then + (IF cur = c /\ Arriving.tid = t THEN 1 ELSE 0) /\ cur \in Core
  BY ReceiveWriteResponseCarries DEF Paired
<1>2. pendingWb'[c] = IF cur = c THEN pendingWb[c] \ {Arriving.tid} ELSE pendingWb[c]
  BY <1>1 DEF ReceiveWriteResponse, Arriving, AddressInv, TypeInv, TypeOK, CoreTypeOK,
              WbTypeOK
<1>3. now \in Nat /\ then \in Nat
  BY CarriedTyped, CarriedIsUnderWay, UnderWayStaysTyped DEF AddressInv
<1>4. now = IF t \in pendingWb[c] THEN 1 ELSE 0
  BY DEF WriteToken, WritebackTokens
<1>5. WriteToken(c, t)' <=> then = IF t \in pendingWb'[c] THEN 1 ELSE 0
  BY DEF WriteToken, WritebackTokens
<1> HIDE DEF now, then
<1> QED
  BY <1>1, <1>2, <1>3, <1>4, <1>5

LEMMA SendWriteToken ==
    ASSUME AddressInv, WriteBook, WritebackCycle, SendWrite, UNCHANGED transportVars,
           NEW c \in Core, NEW t \in Tid, WriteToken(c, t)
    PROVE  WriteToken(c, t)'
<1> DEFINE now == Carried(c, t, "WRITE_REQUEST", "WRITE_RESPONSE")
           then == Carried(c, t, "WRITE_REQUEST", "WRITE_RESPONSE")'
           sent == Head(wbQueue[cur]).tid
<1>1. /\ WriteRequest \in Packet /\ Push(cur, WriteRequest) /\ cur \in Core /\ TypeInv
      /\ WriteRequest.type = "WRITE_REQUEST" /\ WriteRequest.src = cur
      /\ WriteRequest.tid = sent
  BY WriteRequestTyped DEF AddressInv, WriteRequest
<1>2. UNCHANGED <<ejection, remote, retry>>
  BY DEF WritebackCycle
<1>3. then = now + (IF cur = c /\ sent = t THEN 1 ELSE 0)
  BY <1>1, <1>2, SendCarries DEF Paired
<1>4. /\ sent \notin pendingWb[cur]
      /\ pendingWb'[c] = IF c = cur THEN pendingWb[c] \cup {sent} ELSE pendingWb[c]
  BY <1>1, SendWriteBook
<1>5. now = IF t \in pendingWb[c] THEN 1 ELSE 0
  BY DEF WriteToken, WritebackTokens
<1>6. WriteToken(c, t)' <=> then = IF t \in pendingWb'[c] THEN 1 ELSE 0
  BY DEF WriteToken, WritebackTokens
<1> HIDE DEF now, then, sent
<1> QED
  BY <1>3, <1>4, <1>5, <1>6

LEMMA FetchSourceCarriesNoWrite ==
    ASSUME AddressInv, FetchSource, UNCHANGED transportVars, NEW c \in Core, NEW t
    PROVE  Carried(c, t, "WRITE_REQUEST", "WRITE_RESPONSE")'
                = Carried(c, t, "WRITE_REQUEST", "WRITE_RESPONSE")
<1> DEFINE s == Sources(cur)[cursor]
           p == [type |-> "READ_REQUEST", src |-> cur, dst |-> s.from,
                 tid |-> s.tid, size |-> s.size]
<1>1. TypeInv /\ p \in Packet /\ p.src = cur /\ p.type = "READ_REQUEST"
  BY FetchedHasBytes
<1>2. UNCHANGED <<ejection, remote, retry>> /\ (injection' = injection \/ Push(cur, p))
  BY DEF FetchSource
<1> HIDE DEF p
<1>3. CASE Push(cur, p)
  <2>1. Carried(c, t, "WRITE_REQUEST", "WRITE_RESPONSE")'
          = Carried(c, t, "WRITE_REQUEST", "WRITE_RESPONSE") + 0
    BY <1>1, <1>2, <1>3, SendCarries DEF Paired
  <2> QED
    BY <1>1, <2>1, CarriedTyped
<1>4. CASE injection' = injection
  BY <1>2, <1>4, SameCarried DEF netVars
<1> QED
  BY <1>2, <1>3, <1>4

LEMMA CoreTickWrites ==
    ASSUME AddressInv, TypeInv', WriteBook, WritesEachOnce, OneTokenPerWriteback,
           CoreTick, UNCHANGED transportVars
    PROVE  WriteBook' /\ OneTokenPerWriteback'
<1> USE DEF Paired
<1>1. TypeInv /\ ir \in Programs
  BY DEF AddressInv
<1>2. ASSUME UNCHANGED pendingWb,
             \A c \in Core : \A t \in Tid :
                Carried(c, t, "WRITE_REQUEST", "WRITE_RESPONSE")'
                    = Carried(c, t, "WRITE_REQUEST", "WRITE_RESPONSE")
      PROVE  OneTokenPerWriteback'
  BY <1>2, SameWriteToken DEF OneTokenPerWriteback, WriteToken
<1>3. CASE SilentStep
  <2>1. WriteBook' /\ UNCHANGED pendingWb
    BY <1>1, <1>3, CoreNoWriteStep, NoWriteStepKeeps, WritebackCycleBook,
       EnterWritebackBook, QueueWritebackBook
    DEF SilentStep, NoWriteStep, EnterWriteback, QueueWriteback
  <2> QED
    BY <1>2, <1>3, <2>1, SilentStepCarries
<1>4. CASE ReceiveReadRequest \/ ServeRemoteRequest
  <2>1. WriteBook' /\ UNCHANGED pendingWb
    BY <1>1, <1>4, CoreNoWriteStep, NoWriteStepKeeps DEF NoWriteStep
  <2> QED
    BY <1>2, <1>4, <2>1, ReceiveReadRequestCarries, ServeRemoteRequestCarries
<1>5. CASE ReceiveReadResponse \/ RetryAllocation
  <2>1. ASSUME NEW c \in Core, NEW t \in Tid
        PROVE  Carried(c, t, "WRITE_REQUEST", "WRITE_RESPONSE")'
                    = Carried(c, t, "WRITE_REQUEST", "WRITE_RESPONSE")
    <3>1. \E p : ResponseWritten(p, c, t, "WRITE_REQUEST", "WRITE_RESPONSE")
      BY <1>5, ReceiveReadResponseCarries, RetryAllocationCarries
    <3>2. Carried(c, t, "WRITE_REQUEST", "WRITE_RESPONSE")' \in Nat
      BY CarriedIsUnderWay, UnderWayStaysTyped
    <3> QED
      BY <3>1, <3>2 DEF ResponseWritten
  <2> QED
    BY <1>1, <1>2, <1>5, <2>1, CoreNoWriteStep, NoWriteStepKeeps DEF NoWriteStep
<1>6. CASE FetchSource
  BY <1>1, <1>2, <1>6, CoreNoWriteStep, NoWriteStepKeeps, FetchSourceCarriesNoWrite
  DEF NoWriteStep
<1>7. CASE ReceiveWriteResponse
  BY <1>1, <1>7, ReceiveWriteResponseBook, ReceiveWriteResponseToken
  DEF OneTokenPerWriteback, WriteToken
<1>8. CASE WritebackCycle /\ SendWrite
  BY <1>1, <1>8, SendWriteBook, SendWriteToken DEF OneTokenPerWriteback, WriteToken
<1> QED
  BY <1>3, <1>4, <1>5, <1>6, <1>7, <1>8 DEF CoreTick, SilentStep

LEMMA HeldNone ==
    ASSUME NEW T, NEW q \in Seq(T), NEW S, \A x \in ToSet(q) : x \notin S
    PROVE  Held(q, S) = 0
<1>1. {i \in DOMAIN q : q[i] \in S} = {}
  BY DEF ToSet
<1> QED
  BY <1>1, FS_EmptySet DEF Held

(* What the watchdog drops are responses, none of them to a write. *)
LEMMA ForcedLoadCarriesNoWrite ==
    ASSUME AddressInv, NEW d \in Core, ForceAdvanceLoading(d), UNCHANGED transportVars,
           NEW c \in Core, NEW t
    PROVE  Carried(c, t, "WRITE_REQUEST", "WRITE_RESPONSE")'
                = Carried(c, t, "WRITE_REQUEST", "WRITE_RESPONSE")
<1> DEFINE sent == Sent(c, t, "WRITE_REQUEST", "WRITE_RESPONSE")
           taken == Taken(c, t, "WRITE_REQUEST", "WRITE_RESPONSE")
<1>1. /\ TypeInv /\ retry \in Queues(Packet) /\ retry[d] \in Seq(Packet)
      /\ \A p \in ToSet(retry[d]) : p.type = "READ_RESPONSE"
  BY QueuesTyped DEF AddressInv, CoresAddressed, ReadResponse, Queues
<1>2. \A p \in ToSet(retry[d]) : p \notin taken
  BY <1>1 DEF Taken, From, To
<1>3. Held(retry[d], taken) = 0
  BY <1>1, <1>2, HeldNone
<1>4. /\ Changes(retry, retry', d, <<>>)
      /\ UNCHANGED <<injection, ejection, remote, noc, dram, dramReplies>>
  BY DEF ForceAdvanceLoading, Changes, netVars, transportVars
<1>5. retry' \in Queues(Packet) /\ OthersSame(retry, retry', d) /\ retry'[d] = <<>>
  BY <1>1, <1>4 DEF Changes, OthersSame, Queues
<1>6. /\ HeldByCores(retry', taken) - Held(retry'[d], taken)
            = HeldByCores(retry, taken) - Held(retry[d], taken)
      /\ HeldByCores(retry', taken) \in Nat /\ HeldByCores(retry, taken) \in Nat
  BY <1>1, <1>5, HeldUpdate
<1>7. Held(retry'[d], taken) = 0
  BY <1>5, HeldEmpty
<1> HIDE DEF sent, taken
<1>8. HeldByCores(retry', taken) = HeldByCores(retry, taken)
  BY <1>3, <1>6, <1>7
<1>9. UnderWay(sent, taken)' = UnderWay(sent, taken)
  BY <1>4, <1>8 DEF UnderWay
<1> QED
  BY <1>9, CarriedIsUnderWay DEF sent, taken

LEMMA NextWrites ==
    ASSUME WritesEachOnce, WritebackInv, [Next]_vars, ~AbandonWriteback
    PROVE  WritebackInv'
<1>1. AddressInv' /\ TypeInv' /\ AddressInv /\ TypeInv /\ WriteBook
  BY NextAddressed DEF WritebackInv, AddressInv, WriteBook
<1>2. ASSUME UNCHANGED pendingWb,
             \A c \in Core : \A t \in Tid :
                Carried(c, t, "WRITE_REQUEST", "WRITE_RESPONSE")'
                    = Carried(c, t, "WRITE_REQUEST", "WRITE_RESPONSE")
      PROVE  OneTokenPerWriteback'
  BY <1>2, SameWriteToken DEF WritebackInv, OneTokenPerWriteback, WriteToken
<1>3. WriteBook' /\ OneTokenPerWriteback'
  <2>1. CASE UNCHANGED vars
    <3>1. /\ UNCHANGED <<netVars, remote, retry, transportVars, pendingWb, wbQueue,
                         state, pc, ir, idx, cur, cursor>>
      BY <2>1 DEF vars, coreVars, fsmVars, wbVars
    <3>2. UNCHANGED WriteBook
      BY <3>1 DEF WriteBook, WritesDiffer, CollectedSoFar, WritesUnderWay, Outputs,
                  Current, ToDram
    <3> QED
      BY <1>1, <1>2, <3>1, <3>2, SameCarried
  <2>2. CASE CoreTick /\ UNCHANGED <<transportVars, watchVars>>
    BY <1>1, <2>2, CoreTickWrites DEF WritebackInv
  <2>3. CASE TransportStep
    BY <1>1, <1>2, <2>3, QuietNoWriteStep, NoWriteStepKeeps, TransportCarries
    DEF NoWriteStep, Paired
  <2>4. CASE (\E S \in SUBSET Core : BreakCycle(S)) \/ RelievePressure
    <3>1. \E d \in Core : ForceAdvanceLoading(d) /\ Resolved
      BY <1>1, <2>4, VictimIsCore DEF BreakCycle, IsCycle, RelievePressure, Pressured
    <3>2. UNCHANGED transportVars
      BY <3>1 DEF Resolved
    <3> QED
      BY <1>1, <1>2, <2>4, <3>1, <3>2, ForcedLoadNoWriteStep, NoWriteStepKeeps,
         ForcedLoadCarriesNoWrite DEF NoWriteStep
  <2> QED
    BY <2>1, <2>2, <2>3, <2>4 DEF Next, Tick, TransportStep, Watchdog, Halted
<1> QED
  BY <1>1, <1>3 DEF WritebackInv, WriteBook

(* Nothing travels at the start. *)
LEMMA NothingCarried ==
    ASSUME Init, NEW c \in Core, NEW t, NEW request, NEW response
    PROVE  Carried(c, t, request, response) = 0
<1>1. ASSUME NEW S
      PROVE  HeldByCores([d \in Core |-> <<>>], S) = 0
  <2>1. Places([d \in Core |-> <<>>], S) = {}
    BY DEF Places
  <2> QED
    BY <2>1, FS_EmptySet DEF HeldByCores
<1>2. /\ injection = [d \in Core |-> <<>>] /\ ejection = [d \in Core |-> <<>>]
      /\ remote = [d \in Core |-> <<>>] /\ retry = [d \in Core |-> <<>>]
      /\ noc = <<>> /\ dram = <<>> /\ dramReplies = <<>>
  BY DEF Init, CoreInit
<1> QED
  BY <1>1, <1>2, HeldEmpty DEF Carried, UnderWay

LEMMA InitWrites ==
    ASSUME Init
    PROVE  WritebackInv
<1>1. /\ pendingWb = [c \in Core |-> {}] /\ wbQueue = [c \in Core |-> <<>>]
      /\ state = [c \in Core |-> "IDLE"] /\ pc = "incoming"
  BY DEF Init, CoreInit
<1>2. WritesDiffer /\ CollectedSoFar /\ WritesUnderWay
  BY <1>1 DEF WritesDiffer, CollectedSoFar, WritesUnderWay
<1>3. OneTokenPerWriteback
  BY <1>1, NothingCarried DEF OneTokenPerWriteback, WritebackTokens
<1> QED
  BY <1>2, <1>3, InitAddressed DEF WritebackInv

(* Every packet is of a kind the queue it is in is for.  A core's queues hold
   requests with the node of the core that asks, and answers to that core's own;
   on the network nothing but a request is addressed to the memory.  That an
   answer arrives where it was asked for is AnswersArrive, and needs more. *)
THEOREM PacketsAddressed == Spec => []AddressInv
<1>1. Init => AddressInv
  BY InitAddressed
<1>2. AddressInv /\ [Next]_vars => AddressInv'
  BY NextAddressed
<1> QED
  BY <1>1, <1>2, PTL DEF Spec

(* As long as the watchdog abandons no write-back, a write-back that was issued
   and is not acknowledged is one request or one response, in one queue, and no
   other write travels: none is lost, doubled, or answered to another core. *)
THEOREM WritebacksAreSingle ==
    ASSUME WritesEachOnce
    PROVE  Spec /\ [][~AbandonWriteback]_vars => []OneTokenPerWriteback
<1>1. Init => WritebackInv
  BY InitWrites
<1>2. WritebackInv /\ [Next]_vars /\ [~AbandonWriteback]_vars => WritebackInv'
  <2> SUFFICES ASSUME WritebackInv, [Next]_vars, [~AbandonWriteback]_vars
               PROVE  WritebackInv'
    OBVIOUS
  <2>1. CASE ~AbandonWriteback
    BY <2>1, NextWrites
  <2>2. CASE UNCHANGED vars /\ AbandonWriteback
    <3>1. pc = "resolve" /\ pc' = "incoming"
      BY <2>2 DEF AbandonWriteback, Resolved, Step
    <3> QED
      BY <2>2, <3>1 DEF vars, coreVars
  <2> QED
    BY <2>1, <2>2
<1>3. WritebackInv => OneTokenPerWriteback
  BY DEF WritebackInv
<1> QED
  BY <1>1, <1>2, <1>3, PTL DEF Spec

-----------------------------------------------------------------------------
(* The writes into the memory of a core.                                   *)

Pieces(t) == [tid : {t}, size : Nat]
WritesOf(queue, rem, id, t) ==
    Held(queue, Pieces(t)) + IF rem > 0 /\ id = t THEN 1 ELSE 0

LEMMA WritesAre ==
    ASSUME NEW c, NEW t
    PROVE  /\ Writes(c, t) = WritesOf(writeQueue[c], writeRem[c], writeId[c], t)
           /\ Writes(c, t)' = WritesOf(writeQueue'[c], writeRem'[c], writeId'[c], t)
  BY DEF Writes, WritesOf, Pieces

LEMMA WritesOfTyped ==
    ASSUME NEW queue \in Seq(Chunk), NEW rem, NEW id, NEW t
    PROVE  /\ WritesOf(queue, rem, id, t) \in Nat
           /\ Held(queue, Pieces(t)) \in Nat
<1>1. Held(queue, Pieces(t)) \in Nat
  BY HeldTyped
<1> QED
  BY <1>1 DEF WritesOf

LEMMA WriteTypes ==
    ASSUME TypeInv, NEW c \in Core
    PROVE  /\ writeQueue[c] \in Seq(Chunk) /\ writeRem[c] \in Nat
           /\ writeRem \in [Core -> Nat] /\ writeId \in [Core -> Tid]
           /\ writeQueue \in [Core -> Seq(Chunk)]
  BY DEF TypeInv, TypeOK, CoreTypeOK, WriteTypeOK, ChunkSeqs

LEMMA PieceOf ==
    ASSUME NEW x \in Chunk, NEW t
    PROVE  One(x, Pieces(t)) = IF x.tid = t THEN 1 ELSE 0
<1>1. x \in Pieces(t) <=> x.tid = t
  BY DEF Chunk, Pieces
<1> QED
  BY <1>1 DEF One

(* Data of at least a byte that starts its write, or queues for it, is one
   write more. *)
LEMMA StartWriteWrites ==
    ASSUME TypeInv, NEW p \in Packet, p.size > 0, cur \in Core, StartWrite(cur, p),
           NEW c \in Core, NEW t
    PROVE  Writes(c, t)' = Writes(c, t) + IF cur = c /\ p.tid = t THEN 1 ELSE 0
<1> DEFINE x == [tid |-> p.tid, size |-> p.size]
           queue == writeQueue[c]
<1>1. queue \in Seq(Chunk) /\ writeRem[c] \in Nat /\ x \in Chunk /\ p.size \in Nat
  BY WriteTypes DEF Packet, Chunk
<1>2. CASE c # cur
  <2>1. /\ writeQueue'[c] = queue /\ writeRem'[c] = writeRem[c] /\ writeId'[c] = writeId[c]
    BY <1>2, WriteTypes DEF StartWrite
  <2>2. Writes(c, t) \in Nat
    BY <1>1, WritesAre, WritesOfTyped
  <2> QED
    BY <1>2, <2>1, <2>2, WritesAre
<1>3. CASE c = cur /\ writeRem[cur] = 0
  <2>1. writeQueue'[c] = queue /\ writeRem'[c] = p.size /\ writeId'[c] = p.tid
    BY <1>3, WriteTypes DEF StartWrite
  <2>2. Held(queue, Pieces(t)) \in Nat
    BY <1>1, WritesOfTyped
  <2> HIDE DEF queue
  <2>3. /\ Writes(c, t) = Held(queue, Pieces(t))
        /\ Writes(c, t)' = Held(queue, Pieces(t)) + IF p.tid = t THEN 1 ELSE 0
    BY <1>1, <1>3, <2>1, <2>2, WritesAre DEF WritesOf, queue
  <2> QED
    BY <1>3, <2>2, <2>3
<1>4. CASE c = cur /\ writeRem[cur] # 0
  <2>1. /\ writeQueue'[c] = Append(queue, x)
        /\ writeRem'[c] = writeRem[c] /\ writeId'[c] = writeId[c]
    BY <1>4, WriteTypes DEF StartWrite
  <2>2. /\ Held(Append(queue, x), Pieces(t)) = Held(queue, Pieces(t)) + One(x, Pieces(t))
        /\ Held(queue, Pieces(t)) \in Nat
    BY <1>1, HeldAppend, WritesOfTyped
  <2>3. One(x, Pieces(t)) = IF p.tid = t THEN 1 ELSE 0
    BY <1>1, PieceOf
  <2> HIDE DEF queue, x
  <2>4. /\ Writes(c, t) = Held(queue, Pieces(t))
                          + IF writeRem[c] > 0 /\ writeId[c] = t THEN 1 ELSE 0
        /\ Writes(c, t)' = Held(Append(queue, x), Pieces(t))
                          + IF writeRem[c] > 0 /\ writeId[c] = t THEN 1 ELSE 0
    BY <2>1, WritesAre DEF WritesOf, queue
  <2> QED
    BY <1>4, <2>2, <2>3, <2>4
<1> QED
  BY <1>2, <1>3, <1>4

(* The write of t ends, if done, and nothing else changes for the core's tokens. *)
WriteEnds(t, done) ==
    /\ pendingLoads' = IF done THEN [pendingLoads EXCEPT ![cur] = @ \ {t}]
                               ELSE pendingLoads
    /\ UNCHANGED requested
    /\ \A c \in Core : \A x \in Tid :
          /\ Writes(c, x)' \in Nat
          /\ Writes(c, x) = Writes(c, x)' + IF done /\ cur = c /\ x = t THEN 1 ELSE 0

(* The next write of the queue takes the place of the finished one. *)
LEMMA NextOfQueue ==
    ASSUME NEW queue \in Seq(Chunk), queue # <<>>, Head(queue).size > 0, NEW t
    PROVE  WritesOf(Tail(queue), Head(queue).size, Head(queue).tid, t)
                = Held(queue, Pieces(t))
<1>1. Head(queue) \in Chunk
  BY HeadTailQueue
<1>2. Held(queue, Pieces(t)) = Held(Tail(queue), Pieces(t)) + One(Head(queue), Pieces(t))
  BY HeldTail
<1>3. One(Head(queue), Pieces(t)) = IF Head(queue).tid = t THEN 1 ELSE 0
  BY <1>1, PieceOf
<1> QED
  BY <1>2, <1>3 DEF WritesOf

LEMMA QueuedHasBytes ==
    ASSUME AddressInv, SourcesHaveBytes, NEW c \in Core, writeQueue[c] # <<>>
    PROVE  /\ Head(writeQueue[c]).size > 0 /\ Head(writeQueue[c]).size \in Nat
           /\ Head(writeQueue[c]).tid \in Tid /\ Tail(writeQueue[c]) \in Seq(Chunk)
<1>1. writeQueue[c] \in Seq(Chunk) /\ TypeInv
  BY WriteTypes DEF AddressInv
<1>2. Head(writeQueue[c]) \in ToSet(writeQueue[c])
  BY <1>1, HeadTailQueue
<1>3. HasBytes(Head(writeQueue[c]))
  BY <1>2 DEF AddressInv, CoresAddressed
<1> QED
  BY <1>1, <1>3, NextChunkTyped DEF HasBytes, TypeInv, TypeOK

LEMMA DrainUnlimitedWrites ==
    ASSUME AddressInv, SourcesHaveBytes, DrainUnlimited
    PROVE  WriteEnds(writeId[cur], writeRem[cur] > 0) /\ cur \in Core /\ writeId[cur] \in Tid
<1>1. TypeInv /\ cur \in Core
  BY InTick DEF AddressInv
<1>2. /\ writeQueue[cur] \in Seq(Chunk) /\ writeRem[cur] \in Nat /\ writeId[cur] \in Tid
  BY <1>1, WriteTypes
<1>3. ASSUME NEW c \in Core, NEW x \in Tid
      PROVE  /\ Writes(c, x)' \in Nat
             /\ Writes(c, x) = Writes(c, x)'
                    + IF writeRem[cur] > 0 /\ cur = c /\ x = writeId[cur] THEN 1 ELSE 0
  <2>1. CASE c # cur
    <3>1. /\ writeQueue'[c] = writeQueue[c] /\ writeRem'[c] = writeRem[c]
          /\ writeId'[c] = writeId[c] /\ writeQueue[c] \in Seq(Chunk)
      BY <1>1, <2>1, WriteTypes DEF DrainUnlimited
    <3>2. Writes(c, x) \in Nat
      BY <3>1, WritesAre, WritesOfTyped
    <3> QED
      BY <2>1, <3>1, <3>2, WritesAre
  <2>2. CASE c = cur /\ writeQueue[cur] = <<>>
    <3>1. writeQueue'[c] = <<>> /\ writeRem'[c] = 0
      BY <1>1, <2>2, WriteTypes DEF DrainUnlimited
    <3>2. Held(<<>>, Pieces(x)) = 0
      BY HeldEmpty
    <3>3. Writes(c, x)' = 0
      BY <3>1, <3>2, WritesAre DEF WritesOf
    <3>4. Writes(c, x) = IF writeRem[cur] > 0 /\ writeId[cur] = x THEN 1 ELSE 0
      BY <2>2, <3>2, WritesAre DEF WritesOf
    <3> QED
      BY <2>2, <3>3, <3>4
  <2>3. CASE c = cur /\ writeQueue[cur] # <<>>
    <3> DEFINE queue == writeQueue[cur]
    <3>1. /\ writeQueue'[c] = Tail(queue) /\ writeRem'[c] = Head(queue).size
          /\ writeId'[c] = Head(queue).tid
      BY <1>1, <2>3, WriteTypes DEF DrainUnlimited
    <3>2. Head(queue).size > 0
      BY <1>1, <2>3, QueuedHasBytes
    <3>3. WritesOf(Tail(queue), Head(queue).size, Head(queue).tid, x)
              = Held(queue, Pieces(x)) /\ Held(queue, Pieces(x)) \in Nat
      BY <1>2, <2>3, <3>2, NextOfQueue, WritesOfTyped
    <3> HIDE DEF queue
    <3>4. /\ Writes(c, x)' = Held(queue, Pieces(x))
          /\ Writes(c, x) = Held(queue, Pieces(x))
                            + IF writeRem[cur] > 0 /\ writeId[cur] = x THEN 1 ELSE 0
      BY <2>3, <3>1, <3>3, WritesAre DEF WritesOf, queue
    <3> QED
      BY <2>3, <3>3, <3>4
  <2> QED
    BY <2>1, <2>2, <2>3
<1>4. /\ pendingLoads' = IF writeRem[cur] > 0
                           THEN [pendingLoads EXCEPT ![cur] = @ \ {writeId[cur]}]
                           ELSE pendingLoads
      /\ UNCHANGED requested
  BY DEF DrainUnlimited, WriteDone
<1> QED
  BY <1>1, <1>2, <1>3, <1>4 DEF WriteEnds

(* With a limit the write is first fetched from the queue, if none is in
   progress, and then goes on. *)
LEMMA DrainLimitedWrites ==
    ASSUME AddressInv, SourcesHaveBytes, DrainLimited
    PROVE  \E t \in Tid : \E done \in BOOLEAN : WriteEnds(t, done) /\ cur \in Core
<1> DEFINE fetch == writeRem[cur] = 0
           queue == writeQueue[cur]
           t == IF fetch THEN Head(queue).tid ELSE writeId[cur]
           rem == IF fetch THEN Head(queue).size ELSE writeRem[cur]
           rest == IF fetch THEN Tail(queue) ELSE queue
           left == Minus(rem, budget)
           done == rem <= budget
<1>1. TypeInv /\ cur \in Core /\ budget \in Nat
  BY InTick DEF AddressInv, CoreTypeOK, TickTypeOK
<1>2. /\ queue \in Seq(Chunk) /\ writeRem[cur] \in Nat /\ writeId[cur] \in Tid
  BY <1>1, WriteTypes
<1>3. /\ t \in Tid /\ rem \in Nat /\ rem > 0 /\ rest \in Seq(Chunk)
      /\ \A x : WritesOf(rest, rem, t, x) = WritesOf(queue, writeRem[cur], writeId[cur], x)
  <2>1. CASE fetch
    <3>1. queue # <<>>
      BY <1>2, <2>1 DEF DrainLimited
    <3>2. /\ Head(queue).size > 0 /\ Head(queue).size \in Nat
          /\ Head(queue).tid \in Tid /\ Tail(queue) \in Seq(Chunk)
      BY <1>1, <3>1, QueuedHasBytes
    <3>3. ASSUME NEW x
          PROVE  WritesOf(Tail(queue), Head(queue).size, Head(queue).tid, x)
                    = WritesOf(queue, writeRem[cur], writeId[cur], x)
      <4>1. /\ WritesOf(Tail(queue), Head(queue).size, Head(queue).tid, x)
                    = Held(queue, Pieces(x))
            /\ Held(queue, Pieces(x)) \in Nat
        BY <1>2, <3>1, <3>2, NextOfQueue, WritesOfTyped
      <4>2. WritesOf(queue, writeRem[cur], writeId[cur], x) = Held(queue, Pieces(x)) + 0
        BY <2>1 DEF WritesOf
      <4> HIDE DEF queue
      <4> QED
        BY <4>1, <4>2
    <3> QED
      BY <2>1, <3>2, <3>3
  <2>2. CASE ~fetch
    BY <1>2, <2>2
  <2> QED
    BY <2>1, <2>2
<1>4. /\ \A c \in Core : writeQueue'[c] = IF c = cur THEN rest ELSE writeQueue[c]
      /\ \A c \in Core : writeRem'[c] = IF c = cur THEN left ELSE writeRem[c]
      /\ \A c \in Core : writeId'[c] = IF c = cur THEN t ELSE writeId[c]
  BY <1>1, WriteTypes DEF DrainLimited
<1>5. /\ pendingLoads' = IF done THEN [pendingLoads EXCEPT ![cur] = @ \ {t}]
                                 ELSE pendingLoads
      /\ UNCHANGED requested
  BY DEF DrainLimited, WriteDone
<1>6. left \in Nat /\ (left > 0 <=> ~done)
  BY <1>1, <1>3 DEF Minus
<1> HIDE DEF t, rem, rest, left, done
<1>7. ASSUME NEW c \in Core, NEW x \in Tid
      PROVE  /\ Writes(c, x)' \in Nat
             /\ Writes(c, x) = Writes(c, x)' + IF done /\ cur = c /\ x = t THEN 1 ELSE 0
  <2>1. CASE c # cur
    <3>1. Writes(c, x)' = Writes(c, x)
      BY <1>4, <2>1, WritesAre
    <3>2. Writes(c, x) \in Nat
      BY <1>1, WriteTypes, WritesAre, WritesOfTyped
    <3> QED
      BY <2>1, <3>1, <3>2
  <2>2. CASE c = cur
    <3>1. /\ Writes(c, x)' = WritesOf(rest, left, t, x)
          /\ Writes(c, x) = WritesOf(rest, rem, t, x)
      BY <1>3, <1>4, <2>2, WritesAre
    <3>2. Held(rest, Pieces(x)) \in Nat
      BY <1>3, WritesOfTyped
    <3> QED
      BY <1>3, <1>6, <2>2, <3>1, <3>2 DEF WritesOf
  <2> QED
    BY <2>1, <2>2
<1>8. WriteEnds(t, done) /\ t \in Tid
  BY <1>3, <1>5, <1>7 DEF WriteEnds
<1>9. done \in BOOLEAN
  BY DEF done
<1> QED
  BY <1>1, <1>8, <1>9

-----------------------------------------------------------------------------
(* The loads of a core: what it asks for and still waits for.              *)

ReadsCarried(c, t) == Carried(c, t, "READ_REQUEST", "READ_RESPONSE")

LoadToken(c, t) == LoadTokens(c, t) = IF t \in Awaited(c) THEN 1 ELSE 0

LEMMA LoadTokensTyped ==
    ASSUME TypeInv, NEW c \in Core, NEW t
    PROVE  /\ ReadsCarried(c, t) \in Nat /\ Writes(c, t) \in Nat
           /\ LoadTokens(c, t) = ReadsCarried(c, t) + Writes(c, t)
           /\ LoadTokens(c, t)' = ReadsCarried(c, t)' + Writes(c, t)'
  BY CarriedTyped, WriteTypes, WritesAre, WritesOfTyped DEF ReadsCarried, LoadTokens

LEMMA LoadTokensStayTyped ==
    ASSUME TypeInv', NEW c \in Core, NEW t
    PROVE  ReadsCarried(c, t)' \in Nat
  BY CarriedIsUnderWay, UnderWayStaysTyped DEF ReadsCarried

LEMMA SameWrites ==
    ASSUME UNCHANGED writeVars, NEW c, NEW t
    PROVE  Writes(c, t)' = Writes(c, t)
  BY DEF Writes, writeVars

(* Neither the tokens nor what is waited for changes. *)
LEMMA SameLoadToken ==
    ASSUME NEW c \in Core, NEW t, LoadToken(c, t),
           ReadsCarried(c, t)' = ReadsCarried(c, t), Writes(c, t)' = Writes(c, t),
           t \in Awaited(c)' <=> t \in Awaited(c)
    PROVE  LoadToken(c, t)'
  BY DEF LoadToken, LoadTokens, ReadsCarried

(* A core that does not change its workload has the sources it had. *)
LEMMA SourcesKept ==
    ASSUME NEW c \in Core, UNCHANGED ir, idx'[c] = idx[c]
    PROVE  SourceTids(c)' = SourceTids(c)
  BY DEF SourceTids, Sources, Current

(* A step that ends or begins no load of any core. *)
NoLoadStep ==
    /\ UNCHANGED <<ir, pendingLoads, requested>>
    /\ \A c \in Core : /\ state'[c] = "LOADING" => state[c] = "LOADING"
                       /\ state'[c] = "LOADING" => idx'[c] = idx[c]
                       /\ state[c] = "LOADING" =>
                             state'[c] = "LOADING" \/ Awaited(c) = {}

LEMMA NoLoadStepKeeps ==
    ASSUME NoLoadStep
    PROVE  /\ LoadsAhead => LoadsAhead'
           /\ \A c \in Core : Awaited(c)' = Awaited(c)
<1>1. LoadsAhead => LoadsAhead'
  BY SourcesKept DEF NoLoadStep, LoadsAhead
<1>2. ASSUME NEW c \in Core
      PROVE  Awaited(c)' = Awaited(c)
  BY DEF NoLoadStep, Awaited
<1> QED
  BY <1>1, <1>2

(* The steps of a core that are about no load. *)
LEMMA CoreNoLoadStep ==
    ASSUME TypeInv,
           \/ ReceiveReadResponse \/ ReceiveReadRequest \/ ReceiveWriteResponse
           \/ EndIncoming \/ RetryAllocation \/ EndRetry \/ EndDrain
           \/ ServeRemoteRequest \/ EndServe \/ RetireCore
           \/ EndFetch \/ ComputeCycle \/ PublishOutput \/ EndOutputs
           \/ FreeInput \/ FinishWorkload
           \/ EnterWriteback \/ QueueWriteback \/ EndQueue
           \/ WritebackCycle \/ IdleTick
    PROVE  NoLoadStep
<1>1. /\ cur \in Core /\ state \in [Core -> CoreState] /\ idx \in [Core -> Nat \ {0}]
      /\ Control
  BY InTick DEF CoreTypeOK, FsmTypeOK
<1>2. UNCHANGED <<ir, pendingLoads, requested>>
  BY DEF ReceiveReadResponse, ReceiveReadRequest, ReceiveWriteResponse, EndIncoming,
         RetryAllocation, EndRetry, EndDrain, ServeRemoteRequest, EndServe, RetireCore,
         EndFetch, ComputeCycle, PublishOutput, EndOutputs, FreeInput, FinishWorkload,
         EnterWriteback, QueueWriteback, EndQueue, WritebackCycle, IdleTick, loadVars
<1>3. \A c \in Core : /\ state'[c] = "LOADING" => state[c] = "LOADING"
                      /\ state'[c] = "LOADING" => idx'[c] = idx[c]
                      /\ state[c] = "LOADING" =>
                             state'[c] = "LOADING" \/ Awaited(c) = {}
  <2>1. CASE \/ ReceiveReadResponse \/ ReceiveReadRequest \/ ReceiveWriteResponse
             \/ EndIncoming \/ RetryAllocation \/ EndRetry \/ EndDrain
             \/ ServeRemoteRequest \/ EndServe \/ ComputeCycle \/ PublishOutput
             \/ EndOutputs \/ FreeInput \/ QueueWriteback \/ EndQueue \/ IdleTick
    BY <2>1
    DEF ReceiveReadResponse, ReceiveReadRequest, ReceiveWriteResponse, EndIncoming,
        RetryAllocation, EndRetry, EndDrain, ServeRemoteRequest, EndServe,
        ComputeCycle, PublishOutput, EndOutputs, FreeInput, QueueWriteback, EndQueue,
        IdleTick, fsmVars
  <2>2. CASE RetireCore
    <3>1. state[cur] # "LOADING"
      BY <1>1, <2>2 DEF RetireCore, Control, PcMatchesState, CoreState
    <3> QED
      BY <1>1, <2>2, <3>1 DEF RetireCore
  <2>3. CASE EndFetch
    <3>1. CASE pendingLoads[cur] = {}
      <4>1. Awaited(cur) = {}
        BY <3>1 DEF Awaited
      <4> QED
        BY <1>1, <2>3, <3>1, <4>1 DEF EndFetch, BeginCompute
    <3>2. CASE pendingLoads[cur] # {}
      BY <2>3, <3>2 DEF EndFetch, fsmVars
    <3> QED
      BY <3>1, <3>2
  <2>4. CASE FinishWorkload \/ EnterWriteback
    <3>1. state[cur] # "LOADING"
      BY <1>1, <2>4 DEF FinishWorkload, EnterWriteback, Control, PcMatchesState
    <3> QED
      BY <1>1, <2>4, <3>1 DEF FinishWorkload, EnterWriteback, NextWorkload
  <2>5. CASE WritebackCycle
    <3>1. state[cur] # "LOADING"
      BY <1>1, <2>5 DEF WritebackCycle, Control, PcMatchesState, CoreState
    <3> QED
      BY <1>1, <2>5, <3>1 DEF WritebackCycle, NextWorkload, fsmVars
  <2> QED
    BY <2>1, <2>2, <2>3, <2>4, <2>5
<1> QED
  BY <1>2, <1>3 DEF NoLoadStep

LEMMA OtherNoLoadStep ==
    ASSUME TypeInv, TransportStep \/ AbandonWriteback
    PROVE  NoLoadStep /\ UNCHANGED writeVars
<1>1. CASE TransportStep
  <2>1. QuietCores
    BY <1>1
    DEF TransportStep, CollectPacket, DeliverToCore, EndCollect, InjectDramResponse,
        EndReply, Advance, EndDeliver, ForwardToDram, EndForward,
        DeliverDramResponse, EndRespond, NextCycle, CheckProgress, GiveUp
  <2> QED
    BY <2>1 DEF NoLoadStep, QuietCores, fsmVars, loadVars, writeVars
<1>2. CASE AbandonWriteback
  <2>1. PICK d \in Core : ForceCompleteWriteback(d)
    BY <1>2, VictimIsCore DEF AbandonWriteback, Writing
  <2>2. state \in [Core -> CoreState] /\ idx \in [Core -> Nat \ {0}]
    BY DEF TypeInv, TypeOK, CoreTypeOK, FsmTypeOK
  <2> QED
    BY <2>1, <2>2 DEF NoLoadStep, ForceCompleteWriteback, NextWorkload, loadVars, writeVars
<1> QED
  BY <1>1, <1>2

(* The data of a response is written instead of carried. *)
LEMMA WrittenLoadToken ==
    ASSUME TypeInv, TypeInv', SourcesHaveBytes, NEW p \in Packet, HasBytes(p),
           cur \in Core, NEW c \in Core, NEW t,
           ResponseWritten(p, c, t, "READ_REQUEST", "READ_RESPONSE"),
           t \in Awaited(c)' <=> t \in Awaited(c), LoadToken(c, t)
    PROVE  LoadToken(c, t)'
<1>1. /\ ReadsCarried(c, t) \in Nat /\ Writes(c, t) \in Nat
      /\ LoadTokens(c, t) = ReadsCarried(c, t) + Writes(c, t)
      /\ LoadTokens(c, t)' = ReadsCarried(c, t)' + Writes(c, t)'
      /\ ReadsCarried(c, t)' \in Nat
  BY LoadTokensTyped, LoadTokensStayTyped
<1>2. CASE UNCHANGED writeVars /\ ReadsCarried(c, t)' = ReadsCarried(c, t)
  BY <1>2, SameLoadToken, SameWrites
<1>3. CASE /\ StartWrite(cur, p)
           /\ ReadsCarried(c, t) = ReadsCarried(c, t)'
                 + IF cur = c /\ p.tid = t THEN 1 ELSE 0
  <2>1. Writes(c, t)' = Writes(c, t) + IF cur = c /\ p.tid = t THEN 1 ELSE 0
    BY <1>3, StartWriteWrites DEF HasBytes
  <2>2. LoadTokens(c, t)' = LoadTokens(c, t)
    BY <1>1, <1>3, <2>1
  <2> QED
    BY <2>2 DEF LoadToken
<1> QED
  BY <1>2, <1>3 DEF ResponseWritten, ReadsCarried

LEMMA StartWorkloadLoads ==
    ASSUME TypeInv, StartWorkload, UNCHANGED transportVars, OneTokenPerLoad, LoadsAhead
    PROVE  LoadsAhead' /\ OneTokenPerLoad'
<1>1. /\ cur \in Core /\ state \in [Core -> CoreState] /\ idx \in [Core -> Nat \ {0}]
      /\ pendingLoads \in [Core -> SUBSET Tid] /\ requested \in [Core -> SUBSET Tid]
      /\ state[cur] = "IDLE"
  BY InTick DEF CoreTypeOK, FsmTypeOK, LoadTypeOK, StartWorkload, Control,
                PcMatchesState, CoreState
<1>2. /\ UNCHANGED <<ir, idx>>
      /\ requested' = [requested EXCEPT ![cur] = {}]
      /\ pendingLoads' = [pendingLoads EXCEPT ![cur] = SourceTids(cur)]
  BY DEF StartWorkload, BeginCompute
<1>3. \A c \in Core : c # cur => state'[c] = state[c]
  BY <1>1 DEF StartWorkload, BeginCompute
<1>4. \A c \in Core : SourceTids(c)' = SourceTids(c)
  BY <1>2, SourcesKept
<1>5. LoadsAhead'
  <2> SUFFICES ASSUME NEW c \in Core, state'[c] = "LOADING"
               PROVE  SourceTids(c)' \ requested'[c] \subseteq pendingLoads'[c]
    BY DEF LoadsAhead
  <2>1. CASE c = cur
    BY <1>1, <1>2, <1>4, <2>1
  <2>2. CASE c # cur
    BY <1>1, <1>2, <1>3, <1>4, <2>2 DEF LoadsAhead
  <2> QED
    BY <2>1, <2>2
<1>6. \A c \in Core : Awaited(c)' = Awaited(c)
  <2> TAKE c \in Core
  <2>1. CASE c = cur
    <3>1. state[c] = "IDLE" /\ requested'[c] = {}
      BY <1>1, <1>2, <2>1
    <3> QED
      BY <3>1 DEF Awaited
  <2>2. CASE c # cur
    <3>1. /\ state'[c] = state[c] /\ requested'[c] = requested[c]
          /\ pendingLoads'[c] = pendingLoads[c]
      BY <1>1, <1>2, <1>3, <2>2
    <3> QED
      BY <3>1 DEF Awaited
  <2> QED
    BY <2>1, <2>2
<1>7. ASSUME NEW c \in Core, NEW t \in Tid
      PROVE  LoadToken(c, t)'
  <2>1. ReadsCarried(c, t)' = ReadsCarried(c, t)
    BY SilentStepCarries DEF ReadsCarried, SilentStep
  <2>2. LoadToken(c, t)
    BY DEF OneTokenPerLoad, LoadToken
  <2>3. Writes(c, t)' = Writes(c, t)
    <3>1. CASE UNCHANGED writeVars
      BY <3>1, SameWrites
    <3>2. CASE ForgetWrites(cur) /\ c # cur
      BY <1>1, <3>2, WriteTypes, WritesAre DEF ForgetWrites
    <3>3. CASE ForgetWrites(cur) /\ c = cur
      <4>1. writeQueue'[c] = <<>> /\ writeRem'[c] = 0
        BY <1>1, <3>3, WriteTypes DEF ForgetWrites
      <4>2. Writes(c, t)' = 0
        BY <4>1, HeldEmpty, WritesAre DEF WritesOf
      <4>3. LoadTokens(c, t) = 0
        BY <1>1, <2>2, <3>3 DEF LoadToken, Awaited
      <4> QED
        BY <4>2, <4>3, LoadTokensTyped
    <3> QED
      BY <3>1, <3>2, <3>3 DEF StartWorkload
  <2> QED
    BY <1>6, <2>1, <2>2, <2>3, SameLoadToken
<1> QED
  BY <1>5, <1>7 DEF OneTokenPerLoad, LoadToken

LEMMA FetchSourceLoads ==
    ASSUME AddressInv, FetchSource, UNCHANGED transportVars, OneTokenPerLoad, LoadsAhead
    PROVE  LoadsAhead' /\ OneTokenPerLoad'
<1> DEFINE s == Sources(cur)[cursor]
           x == s.tid
           p == [type |-> "READ_REQUEST", src |-> cur, dst |-> s.from,
                 tid |-> s.tid, size |-> s.size]
<1>1. /\ s \in Source /\ p \in Packet /\ cur \in Core /\ TypeInv
      /\ x \in SourceTids(cur) /\ state[cur] = "LOADING"
  BY FetchedHasBytes
<1>2. /\ pendingLoads \in [Core -> SUBSET Tid] /\ requested \in [Core -> SUBSET Tid]
  BY <1>1 DEF TypeInv, TypeOK, CoreTypeOK, LoadTypeOK
<1>3. /\ UNCHANGED <<ir, state, idx>> /\ UNCHANGED writeVars
      /\ UNCHANGED <<ejection, remote, retry>>
      /\ \A c \in Core : requested'[c] = IF c = cur THEN requested[c] \cup {x}
                                                    ELSE requested[c]
  BY <1>2 DEF FetchSource, fsmVars
<1>4. \/ x \in requested[cur] /\ UNCHANGED <<pendingLoads, injection>>
      \/ /\ x \notin requested[cur] /\ UNCHANGED injection
         /\ pendingLoads' = [pendingLoads EXCEPT ![cur] = @ \ {x}]
      \/ /\ x \notin requested[cur] /\ UNCHANGED pendingLoads
         /\ Push(cur, p)
  BY DEF FetchSource, AlreadyRequested
<1>5. p.type = "READ_REQUEST" /\ p.src = cur /\ p.tid = x
  OBVIOUS
<1>6. \A c \in Core : SourceTids(c)' = SourceTids(c)
  BY <1>3, SourcesKept
<1>7. \A c \in Core : c # cur => UNCHANGED <<requested[c], pendingLoads[c]>>
  BY <1>2, <1>3, <1>4
<1>8. x \notin requested[cur] => x \in pendingLoads[cur]
  BY <1>1 DEF LoadsAhead
<1> HIDE DEF p, x, s
<1>9. LoadsAhead'
  <2> SUFFICES ASSUME NEW c \in Core, state[c] = "LOADING"
               PROVE  SourceTids(c) \ requested'[c] \subseteq pendingLoads'[c]
    BY <1>3, <1>6 DEF LoadsAhead
  <2>1. SourceTids(c) \ requested[c] \subseteq pendingLoads[c]
    BY DEF LoadsAhead
  <2> QED
    BY <1>2, <1>3, <1>4, <2>1
<1>10. ASSUME NEW c \in Core, NEW t \in Tid
       PROVE  LoadToken(c, t)'
  <2>1. LoadToken(c, t) /\ Writes(c, t)' = Writes(c, t)
    BY <1>3, SameWrites DEF OneTokenPerLoad, LoadToken
  <2>2. CASE UNCHANGED injection
    <3>1. ReadsCarried(c, t)' = ReadsCarried(c, t)
      BY <1>3, <2>2, SameCarried DEF ReadsCarried, netVars
    <3>2. CASE c # cur
      BY <1>3, <1>7, <2>1, <3>1, <3>2, SameLoadToken DEF Awaited
    <3>3. CASE c = cur /\ x \in requested[cur] /\ UNCHANGED pendingLoads
      <4>1. requested'[cur] = requested[cur]
        BY <1>1, <1>3, <3>3
      <4> QED
        BY <1>3, <2>1, <3>1, <3>3, <4>1, SameLoadToken DEF Awaited
    <3>4. CASE /\ c = cur /\ x \notin requested[cur]
               /\ pendingLoads' = [pendingLoads EXCEPT ![cur] = @ \ {x}]
      <4>1. pendingLoads'[cur] = pendingLoads[cur] \ {x}
            /\ requested'[cur] = requested[cur] \cup {x}
        BY <1>1, <1>2, <1>3, <3>4
      <4>2. t \in Awaited(c)' <=> t \in Awaited(c)
        BY <1>1, <1>3, <3>4, <4>1 DEF Awaited
      <4> QED
        BY <2>1, <3>1, <4>2, SameLoadToken
    <3>5. CASE c = cur /\ x \notin requested[cur] /\ Push(cur, p) /\ UNCHANGED pendingLoads
      <4>1. injection[cur] \in Seq(Packet) /\ injection'[cur] = Append(injection[cur], p)
        BY <1>1, <3>5, QueuesTyped DEF Push, Queues
      <4>2. Len(Append(injection[cur], p)) = Len(injection[cur]) + 1
            /\ Len(injection[cur]) \in Nat
        BY <4>1, <1>1
      <4> QED
        BY <2>2, <4>1, <4>2
    <3> QED
      BY <1>4, <3>2, <3>3, <3>4, <3>5
  <2>3. CASE x \notin requested[cur] /\ UNCHANGED pendingLoads /\ Push(cur, p)
    <3>1. ReadsCarried(c, t)' = ReadsCarried(c, t) + IF cur = c /\ x = t THEN 1 ELSE 0
      BY <1>1, <1>3, <1>5, <2>3, SendCarries DEF ReadsCarried, Paired
    <3>2. /\ ReadsCarried(c, t) \in Nat /\ Writes(c, t) \in Nat
          /\ LoadTokens(c, t) = ReadsCarried(c, t) + Writes(c, t)
          /\ LoadTokens(c, t)' = ReadsCarried(c, t)' + Writes(c, t)'
      BY <1>1, LoadTokensTyped
    <3>3. CASE c = cur /\ t = x
      <4>1. t \notin Awaited(c)
        BY <2>3, <3>3 DEF Awaited
      <4>2. requested'[cur] = requested[cur] \cup {x}
        BY <1>1, <1>3
      <4>3. t \in Awaited(c)'
        BY <1>1, <1>3, <1>8, <2>3, <3>3, <4>2 DEF Awaited
      <4> QED
        BY <2>1, <3>1, <3>2, <3>3, <4>1, <4>3 DEF LoadToken
    <3>4. CASE ~(c = cur /\ t = x)
      <4>1. ReadsCarried(c, t)' = ReadsCarried(c, t)
        BY <3>1, <3>2, <3>4
      <4>2. t \in requested'[c] <=> t \in requested[c]
        BY <1>3, <3>4
      <4>3. t \in Awaited(c)' <=> t \in Awaited(c)
        BY <1>3, <2>3, <4>2 DEF Awaited
      <4> QED
        BY <2>1, <4>1, <4>3, SameLoadToken
    <3> QED
      BY <3>3, <3>4
  <2> QED
    BY <1>4, <2>2, <2>3
<1> QED
  BY <1>9, <1>10 DEF OneTokenPerLoad, LoadToken

(* A write that ends was awaited: its token goes and so does the wait. *)
LEMMA WriteEndsLoads ==
    ASSUME TypeInv, OneTokenPerLoad, LoadsAhead, NEW x \in Tid, NEW done \in BOOLEAN,
           WriteEnds(x, done), cur \in Core, UNCHANGED <<ir, state, idx>>,
           \A c \in Core : \A t \in Tid : ReadsCarried(c, t)' = ReadsCarried(c, t)
    PROVE  LoadsAhead' /\ OneTokenPerLoad'
<1>1. /\ pendingLoads \in [Core -> SUBSET Tid]
      /\ \A c \in Core : SourceTids(c)' = SourceTids(c)
  BY SourcesKept DEF TypeInv, TypeOK, CoreTypeOK, LoadTypeOK
<1>2. \A c \in Core : pendingLoads'[c] = IF done /\ c = cur THEN pendingLoads[c] \ {x}
                                                            ELSE pendingLoads[c]
  BY <1>1 DEF WriteEnds
<1>3. ASSUME NEW c \in Core, NEW t \in Tid
      PROVE  /\ ReadsCarried(c, t) \in Nat /\ Writes(c, t)' \in Nat
             /\ LoadTokens(c, t) = ReadsCarried(c, t) + Writes(c, t)
             /\ LoadTokens(c, t)' = ReadsCarried(c, t) + Writes(c, t)'
             /\ Writes(c, t) = Writes(c, t)' + IF done /\ cur = c /\ t = x THEN 1 ELSE 0
             /\ LoadTokens(c, t) = IF t \in Awaited(c) THEN 1 ELSE 0
  BY LoadTokensTyped DEF WriteEnds, OneTokenPerLoad
<1>4. done => x \in Awaited(cur)
  BY <1>3
<1>5. LoadsAhead'
  <2> SUFFICES ASSUME NEW c \in Core, state[c] = "LOADING"
               PROVE  SourceTids(c) \ requested[c] \subseteq pendingLoads'[c]
    BY <1>1 DEF LoadsAhead, WriteEnds
  <2>1. SourceTids(c) \ requested[c] \subseteq pendingLoads[c]
    BY DEF LoadsAhead
  <2>2. done => x \in requested[cur]
    BY <1>4 DEF Awaited
  <2> QED
    BY <1>2, <2>1, <2>2
<1>6. ASSUME NEW c \in Core, NEW t \in Tid
      PROVE  LoadToken(c, t)'
  <2>1. t \in Awaited(c)' <=> t \in Awaited(c) /\ ~(done /\ c = cur /\ t = x)
    BY <1>2 DEF Awaited, WriteEnds
  <2>2. LoadTokens(c, t)' = IF t \in Awaited(c) /\ ~(done /\ c = cur /\ t = x)
                              THEN 1 ELSE 0
    BY <1>3, <1>4
  <2> QED
    BY <2>1, <2>2 DEF LoadToken
<1> QED
  BY <1>5, <1>6 DEF OneTokenPerLoad, LoadToken

LEMMA CoreTickLoads ==
    ASSUME AddressInv, TypeInv', SourcesHaveBytes, OneTokenPerLoad, LoadsAhead,
           CoreTick, UNCHANGED transportVars
    PROVE  LoadsAhead' /\ OneTokenPerLoad'
<1> USE DEF Paired
<1>1. TypeInv /\ \A c \in Core : \A t \in Tid : LoadToken(c, t)
  BY DEF AddressInv, OneTokenPerLoad, LoadToken
<1>2. ASSUME NoLoadStep, UNCHANGED writeVars,
             \A c \in Core : \A t \in Tid : ReadsCarried(c, t)' = ReadsCarried(c, t)
      PROVE  LoadsAhead' /\ OneTokenPerLoad'
  BY <1>1, <1>2, NoLoadStepKeeps, SameWrites, SameLoadToken DEF OneTokenPerLoad, LoadToken
<1>3. CASE \/ EndIncoming \/ EndRetry \/ EndDrain \/ EndServe \/ RetireCore \/ EndFetch
           \/ ComputeCycle \/ PublishOutput \/ EndOutputs \/ FreeInput \/ FinishWorkload
           \/ EnterWriteback \/ QueueWriteback \/ EndQueue
           \/ (WritebackCycle /\ ~SendWrite) \/ IdleTick
  <2>1. NoLoadStep
    BY <1>1, <1>3, CoreNoLoadStep
  <2>2. UNCHANGED writeVars
    BY <1>3
    DEF EndIncoming, EndRetry, EndDrain, EndServe, RetireCore, EndFetch, ComputeCycle,
        PublishOutput, EndOutputs, FreeInput, FinishWorkload, EnterWriteback,
        QueueWriteback, EndQueue, WritebackCycle, IdleTick
  <2>3. SilentStep
    BY <1>3 DEF SilentStep
  <2> QED
    BY <1>2, <2>1, <2>2, <2>3, SilentStepCarries DEF ReadsCarried
<1>4. CASE ReceiveReadRequest \/ ServeRemoteRequest
  <2>1. NoLoadStep /\ UNCHANGED writeVars
    BY <1>1, <1>4, CoreNoLoadStep DEF ReceiveReadRequest, ServeRemoteRequest
  <2> QED
    BY <1>2, <1>4, <2>1, ReceiveReadRequestCarries, ServeRemoteRequestCarries
    DEF ReadsCarried
<1>5. CASE ReceiveWriteResponse
  <2>1. NoLoadStep /\ UNCHANGED writeVars
    BY <1>1, <1>5, CoreNoLoadStep DEF ReceiveWriteResponse
  <2>2. ASSUME NEW c \in Core, NEW t \in Tid
        PROVE  ReadsCarried(c, t)' = ReadsCarried(c, t)
    <3>1. ReadsCarried(c, t) = ReadsCarried(c, t)' + 0
      BY <1>5, ReceiveWriteResponseCarries DEF ReadsCarried
    <3> QED
      BY <3>1, LoadTokensStayTyped
  <2> QED
    BY <1>2, <2>1, <2>2
<1>6. CASE WritebackCycle /\ SendWrite
  <2>1. NoLoadStep /\ UNCHANGED <<writeVars, ejection, remote, retry>>
    BY <1>1, <1>6, CoreNoLoadStep DEF WritebackCycle
  <2>2. /\ WriteRequest \in Packet /\ Push(cur, WriteRequest)
        /\ WriteRequest.type = "WRITE_REQUEST" /\ WriteRequest.src = cur
    BY <1>1, <1>6, WriteRequestTyped DEF WriteRequest
  <2>3. ASSUME NEW c \in Core, NEW t \in Tid
        PROVE  ReadsCarried(c, t)' = ReadsCarried(c, t)
    <3>1. ReadsCarried(c, t)' = ReadsCarried(c, t) + 0
      BY <1>1, <2>1, <2>2, SendCarries DEF ReadsCarried
    <3> QED
      BY <1>1, <3>1, LoadTokensTyped
  <2> QED
    BY <1>2, <2>1, <2>3
<1>7. CASE ReceiveReadResponse \/ RetryAllocation
  <2>1. NoLoadStep
    BY <1>1, <1>7, CoreNoLoadStep
  <2>2. ASSUME NEW c \in Core, NEW t \in Tid
        PROVE  LoadToken(c, t)'
    <3>1. \E p \in Packet :
            /\ ResponseWritten(p, c, t, "READ_REQUEST", "READ_RESPONSE")
            /\ HasBytes(p) /\ cur \in Core
      BY <1>7, ReceiveReadResponseCarries, RetryAllocationCarries
    <3>2. t \in Awaited(c)' <=> t \in Awaited(c)
      BY <2>1, NoLoadStepKeeps
    <3> QED
      BY <1>1, <3>1, <3>2, WrittenLoadToken
  <2> QED
    BY <2>1, <2>2, NoLoadStepKeeps DEF OneTokenPerLoad, LoadToken
<1>8. CASE DrainUnlimited \/ DrainLimited
  <2>1. \E t \in Tid : \E done \in BOOLEAN : WriteEnds(t, done) /\ cur \in Core
    <3>1. (writeRem[cur] > 0) \in BOOLEAN
      OBVIOUS
    <3> QED
      BY <1>8, <3>1, DrainUnlimitedWrites, DrainLimitedWrites
  <2>2. UNCHANGED <<ir, state, idx>>
    BY <1>8 DEF DrainUnlimited, DrainLimited, fsmVars
  <2>3. \A c \in Core : \A t \in Tid : ReadsCarried(c, t)' = ReadsCarried(c, t)
    BY <1>8, SilentStepCarries DEF ReadsCarried, SilentStep
  <2> QED
    BY <1>1, <2>1, <2>2, <2>3, WriteEndsLoads
<1>9. CASE StartWorkload \/ FetchSource
  BY <1>1, <1>9, StartWorkloadLoads, FetchSourceLoads
<1> QED
  BY <1>3, <1>4, <1>5, <1>6, <1>7, <1>8, <1>9 DEF CoreTick

(* The watchdog makes a core go on without a transfer it waits for. *)
ForcedLoad == (\E S \in SUBSET Core : BreakCycle(S)) \/ RelievePressure

LEMMA NextLoads ==
    ASSUME SourcesHaveBytes, CoreIdsAreNodes, LoadInv, [Next]_vars, ~ForcedLoad
    PROVE  LoadInv'
<1>1. AddressInv' /\ TypeInv' /\ AddressInv /\ TypeInv
  BY NextAddressed DEF LoadInv, AddressInv
<1>2. ASSUME NoLoadStep, UNCHANGED writeVars,
             \A c \in Core : \A t \in Tid : ReadsCarried(c, t)' = ReadsCarried(c, t)
      PROVE  LoadsAhead' /\ OneTokenPerLoad'
  BY <1>2, NoLoadStepKeeps, SameWrites, SameLoadToken
  DEF LoadInv, OneTokenPerLoad, LoadToken
<1>3. LoadsAhead' /\ OneTokenPerLoad'
  <2>1. CASE UNCHANGED vars
    <3>1. /\ UNCHANGED <<netVars, remote, retry, transportVars, writeVars>>
          /\ UNCHANGED <<ir, state, idx, pendingLoads, requested>>
      BY <2>1 DEF vars, coreVars, fsmVars, loadVars
    <3> QED
      BY <1>2, <3>1, SameCarried DEF NoLoadStep, ReadsCarried
  <2>2. CASE CoreTick /\ UNCHANGED <<transportVars, watchVars>>
    BY <1>1, <2>2, CoreTickLoads DEF LoadInv
  <2>3. CASE TransportStep
    BY <1>1, <1>2, <2>3, OtherNoLoadStep, TransportCarries DEF ReadsCarried, Paired
  <2>4. CASE AbandonWriteback
    <3>1. UNCHANGED <<netVars, remote, retry, transportVars>>
      BY <1>1, <2>4, VictimIsCore
      DEF AbandonWriteback, Writing, ForceCompleteWriteback, Resolved
    <3> QED
      BY <1>1, <1>2, <2>4, <3>1, OtherNoLoadStep, SameCarried DEF ReadsCarried
  <2> QED
    BY <2>1, <2>2, <2>3, <2>4 DEF Next, Tick, TransportStep, Watchdog, Halted, ForcedLoad
<1> QED
  BY <1>1, <1>3 DEF LoadInv

LEMMA InitLoads ==
    ASSUME Init
    PROVE  LoadInv
<1>1. /\ state = [c \in Core |-> "IDLE"] /\ writeRem = [c \in Core |-> 0]
      /\ writeQueue = [c \in Core |-> <<>>]
  BY DEF Init, CoreInit
<1>2. LoadsAhead
  BY <1>1 DEF LoadsAhead
<1>3. ASSUME NEW c \in Core, NEW t \in Tid
      PROVE  LoadTokens(c, t) = IF t \in Awaited(c) THEN 1 ELSE 0
  <2>1. Writes(c, t) = 0
    BY <1>1, WritesAre, HeldEmpty DEF WritesOf
  <2>2. Carried(c, t, "READ_REQUEST", "READ_RESPONSE") = 0 /\ Awaited(c) = {}
    BY <1>1, NothingCarried DEF Awaited
  <2> QED
    BY <2>1, <2>2 DEF LoadTokens
<1> QED
  BY <1>2, <1>3, InitAddressed DEF LoadInv, OneTokenPerLoad

LEMMA UnforcedLoads ==
    ASSUME SourcesHaveBytes, CoreIdsAreNodes
    PROVE  LoadInv /\ [Next]_vars /\ [~ForcedLoad]_vars => LoadInv'
<1> SUFFICES ASSUME LoadInv, [Next]_vars, [~ForcedLoad]_vars
             PROVE  LoadInv'
  OBVIOUS
<1>1. CASE ~ForcedLoad
  BY <1>1, NextLoads
<1>2. CASE UNCHANGED vars /\ ForcedLoad
  <2>1. pc = "resolve" /\ pc' = "incoming"
    BY <1>2 DEF ForcedLoad, BreakCycle, RelievePressure, Resolved, Step
  <2> QED
    BY <1>2, <2>1 DEF vars, coreVars
<1> QED
  BY <1>1, <1>2

(* As long as the watchdog forces no loading core on, a transfer that a core has
   asked for and waits for is one request, one response or one write into its
   memory, in one queue, and no other is under way: a core never waits for what
   is lost, and a producer never answers it twice.  Every source has to have
   bytes, and on the network cores have to be nodes of the same number. *)
THEOREM LoadsAreSingle ==
    ASSUME SourcesHaveBytes, CoreIdsAreNodes
    PROVE  Spec /\ [][~ForcedLoad]_vars => []OneTokenPerLoad
<1>1. LoadInv => OneTokenPerLoad
  BY DEF LoadInv
<1> QED
  BY <1>1, InitLoads, UnforcedLoads, PTL DEF Spec

(* A packet in a core's queue is counted. *)
LEMMA PresentIsUnderWay ==
    ASSUME TypeInv, NEW c \in Core, NEW sent, NEW taken, NEW p \in taken,
           p \in ToSet(ejection[c]) \cup ToSet(retry[c])
    PROVE  UnderWay(sent, taken) >= 1
<1>1. ASSUME NEW f \in Queues(Packet), p \in ToSet(f[c])
      PROVE  HeldByCores(f, taken) >= 1
  <2>1. f[c] \in Seq(Packet) /\ f \in [Core -> Seq(Packet)]
    BY DEF Queues
  <2>2. PICK i \in 1 .. Len(f[c]) : f[c][i] \in taken
    BY <1>1, <2>1, InToSet
  <2>3. Held(f[c], taken) >= 1
    BY <2>1, <2>2, HeldPresent
  <2> QED
    BY <2>1, <2>3, HeldSplit
<1>2. HeldByCores(ejection, taken) >= 1 \/ HeldByCores(retry, taken) >= 1
  BY <1>1, QueuesTyped
<1> QED
  BY <1>2, UnderWaySum

(* An answer a core is given is the one token of a load it waits for. *)
LEMMA ResponseIsAwaited ==
    ASSUME LoadInv, NEW c \in Core, NEW p \in Packet, p.type = "READ_RESPONSE",
           p.dst = NodeId(c), p \in ToSet(ejection[c]) \cup ToSet(retry[c])
    PROVE  p.tid \in Awaited(c)
<1>1. TypeInv /\ OneTokenPerLoad /\ p.tid \in Tid
  BY DEF LoadInv, AddressInv, Packet
<1>2. p \in Taken(c, p.tid, "READ_REQUEST", "READ_RESPONSE")
  BY InSentOrTaken
<1>3. ReadsCarried(c, p.tid) >= 1
  BY <1>1, <1>2, PresentIsUnderWay, CarriedIsUnderWay DEF ReadsCarried
<1> QED
  BY <1>1, <1>3, LoadTokensTyped DEF OneTokenPerLoad

(* Under the same conditions an answer, of a core or of the memory, is only ever
   given to a core that has asked for the transfer (README.md:101 of the
   repository): collect_core_packets sends none to another one.  Where cores are
   not the nodes of their ids it does. *)
THEOREM AnswersArrive ==
    ASSUME SourcesHaveBytes, CoreIdsAreNodes
    PROVE  Spec /\ [][~ForcedLoad]_vars => []AnswersReachConsumer
<1>1. LoadInv => AnswersReachConsumer
  <2> SUFFICES ASSUME LoadInv, NEW c \in Core, NEW p \in ToSet(ejection[c]),
                      p.type = "READ_RESPONSE"
               PROVE  p.tid \in requested[c]
    BY DEF AnswersReachConsumer
  <2>1. p \in Packet
    BY QueuesTyped, InToSet DEF LoadInv, AddressInv, Queues
  <2>2. GivenTo(c, p)
    BY DEF LoadInv, AddressInv, CoresAddressed
  <2>3. p.dst = NodeId(c)
    BY <2>2 DEF GivenTo, ReadRequest
  <2>4. p.tid \in Awaited(c)
    BY <2>1, <2>3, ResponseIsAwaited
  <2> QED
    BY <2>4 DEF Awaited
<1> QED
  BY <1>1, InitLoads, UnforcedLoads, PTL DEF Spec

=============================================================================
