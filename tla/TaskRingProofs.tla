--------------------------- MODULE TaskRingProofs ---------------------------
(***************************************************************************)
(* Proofs about TaskRing, for any finite number of tasks: the pointers of  *)
(* the three queues describe rings of exactly the tasks that are in them,  *)
(* and the rings implement the queues of TaskQueues.                       *)
(*                                                                         *)
(* The argument: attach and detach touch only the pointers of the task and *)
(* of its neighbours in one ring, and rings have no task in common; the    *)
(* pointers of a ring determine the order of its tasks.                    *)
(***************************************************************************)
EXTENDS TaskRing, SequenceTheorems, FiniteSetTheorems, TLAPS

Elements(s) == {s[i] : i \in 1..Len(s)}

Pointers == [head : [Queues -> Tasks \cup {Null}],
             prev : [Tasks -> Tasks \cup {Null}],
             next : [Tasks -> Tasks \cup {Null}]]

(* The pointers of r describe the queue q with the tasks of S, in the order s. *)
RingOf(r, q, S, s) ==
    s \in Seq(Tasks) /\ Injective(s) /\ Elements(s) = S /\ IsRing(r, q, s)

(* Each queue is a ring of its tasks. *)
RingInv ==
    /\ TypeOK
    /\ \A q \in Queues : \E s : RingOf(Rings, q, InQueue(q), s)

-----------------------------------------------------------------------------
(* Sequences without repetition.                                           *)

LEMMA LeastNumber ==
    ASSUME NEW T \in SUBSET Nat, T # {}
    PROVE  \E n \in T : \A m \in T : n <= m
<1> DEFINE R == OpToRel(<, Nat)
<1>1. IsWellFoundedOn(R, Nat)
  BY NatLessThanWellFounded
<1>2. \A m, n \in Nat : m < n => <<m, n>> \in R
  BY DEF OpToRel
<1> HIDE DEF R
<1>3. \E n \in T : \A m \in T : ~ (<<m, n>> \in R)
  BY <1>1, WFMin
<1>4. \E n \in T : \A m \in T : ~ (m < n)
  BY <1>2, <1>3
<1>5. \A m, n \in Nat : ~(m < n) => n <= m
  OBVIOUS
<1> QED  BY <1>4, <1>5

(* A queue is no longer than there are tasks. *)
LEMMA InOrders ==
    ASSUME NEW s \in Seq(Tasks), Injective(s)
    PROVE  s \in Orders
<1>1. Len(s) \in Nat /\ s \in [1..Len(s) -> Tasks]
  BY LenProperties
<1>2. s \in Injection(1..Len(s), Tasks)
  BY <1>1 DEF Injective, Injection, IsInjective
<1>3. Cardinality(1..Len(s)) = Len(s)
  BY <1>1, FS_Interval
<1>4. Cardinality(1..Len(s)) <= Cardinality(Tasks)
  BY <1>2, FS_Injection, TasksAssumption
<1>5. Cardinality(Tasks) \in Nat
  BY FS_CardinalityType, TasksAssumption
<1>6. Len(s) \in 0..Cardinality(Tasks)
  BY <1>1, <1>3, <1>4, <1>5
<1> QED  BY <1>1, <1>6 DEF Orders

LEMMA FromOrders ==
    ASSUME NEW s \in Orders
    PROVE  s \in Seq(Tasks) /\ Injective(s)
<1>1. Cardinality(Tasks) \in Nat
  BY FS_CardinalityType, TasksAssumption
<1>2. PICK n \in 0..Cardinality(Tasks) : s \in [1..n -> Tasks]
  BY DEF Orders
<1> QED  BY <1>1, <1>2, SeqDef DEF Orders

LEMMA Appended ==
    ASSUME NEW s \in Seq(Tasks), Injective(s), NEW t \in Tasks \ Elements(s)
    PROVE  LET a == Append(s, t)
           IN /\ a \in Seq(Tasks) /\ Injective(a) /\ Elements(a) = Elements(s) \cup {t}
              /\ Len(a) = Len(s) + 1 /\ a[Len(s) + 1] = t
              /\ \A i \in 1..Len(s) : a[i] = s[i]
<1> DEFINE a == Append(s, t)
<1>1. /\ a \in Seq(Tasks) /\ Len(a) = Len(s) + 1 /\ Len(s) \in Nat
      /\ \A i \in 1..Len(s) : a[i] = s[i]
      /\ a[Len(s) + 1] = t
  BY AppendProperties, LenProperties
<1> HIDE DEF a
<1>2. Elements(s) \cup {t} \subseteq Elements(a)
  BY <1>1 DEF Elements
<1>3. \A i \in 1..Len(a) : i = Len(s) + 1 \/ i \in 1..Len(s)
  BY <1>1
<1>4. Elements(a) \subseteq Elements(s) \cup {t}
  BY <1>1, <1>3 DEF Elements
<1>5. \A i \in 1..Len(s) : s[i] # t
  BY DEF Elements
<1>6. Injective(a)
  BY <1>1, <1>3, <1>5 DEF Injective
<1> QED  BY <1>1, <1>2, <1>4, <1>6 DEF a

LEMMA Removed ==
    ASSUME NEW s \in Seq(Tasks), Injective(s), NEW k \in 1..Len(s)
    PROVE  LET w == Abstract!Without(s, s[k])
           IN /\ w \in Seq(Tasks) /\ Injective(w) /\ Elements(w) = Elements(s) \ {s[k]}
              /\ Len(w) = Len(s) - 1
              /\ \A i \in 1..(Len(s) - 1) : w[i] = IF i < k THEN s[i] ELSE s[i + 1]
<1> DEFINE w == Abstract!Without(s, s[k])
<1>1. Len(s) \in Nat /\ \A i \in 1..Len(s) : s[i] \in Tasks
  BY LenProperties, ElementOfSeq
<1>2. (CHOOSE i \in 1..Len(s) : s[i] = s[k]) = k
  BY DEF Injective
<1>3. w = [i \in 1..(Len(s) - 1) |-> IF i < k THEN s[i] ELSE s[i + 1]]
  BY <1>2 DEF Abstract!Without
<1> HIDE DEF w
<1>4. Len(s) - 1 \in Nat
  BY <1>1
<1>5. \A i \in 1..(Len(s) - 1) : (IF i < k THEN s[i] ELSE s[i + 1]) \in Tasks
  BY <1>1, <1>4
<1>6. w \in [1..(Len(s) - 1) -> Tasks]
  BY <1>3, <1>5
<1>7. w \in Seq(Tasks) /\ Len(w) = Len(s) - 1
  <2>1. w \in Seq(Tasks)
    BY <1>4, <1>6, SeqDef
  <2> QED  BY <2>1, <1>4, <1>6, LenProperties
<1>8. \A i \in 1..(Len(s) - 1) : w[i] = IF i < k THEN s[i] ELSE s[i + 1]
  BY <1>3
<1>9. Injective(w)
  BY <1>1, <1>7, <1>8 DEF Injective
<1>10. Elements(w) \subseteq Elements(s) \ {s[k]}
  <2>1. ASSUME NEW i \in 1..Len(w)
        PROVE  \E j \in 1..Len(s) : w[i] = s[j] /\ j # k
    BY <1>1, <1>7, <1>8
  <2> QED  BY <2>1 DEF Elements, Injective
<1>11. Elements(s) \ {s[k]} \subseteq Elements(w)
  <2>1. ASSUME NEW i \in 1..Len(s), i # k
        PROVE  \E j \in 1..Len(w) : s[i] = w[j]
    <3>1. CASE i < k
      BY <1>1, <1>7, <1>8, <3>1
    <3>2. CASE i > k
      <4>1. i - 1 \in 1..Len(w) /\ ~(i - 1 < k) /\ (i - 1) + 1 = i
        BY <1>1, <1>7, <3>2
      <4> QED  BY <4>1, <1>7, <1>8
    <3> QED  BY <3>1, <3>2, <2>1, <1>1
  <2> QED  BY <2>1 DEF Elements
<1> QED  BY <1>7, <1>8, <1>9, <1>10, <1>11 DEF w

-----------------------------------------------------------------------------
(* What attach and detach do to a ring.                                    *)

(* A ring with the same head and pointers of its tasks is the same ring. *)
LEMMA OtherRing ==
    ASSUME NEW r, NEW r2, NEW q \in Queues, NEW S, NEW s, RingOf(r, q, S, s),
           r2.head[q] = r.head[q],
           \A u \in S : r2.prev[u] = r.prev[u] /\ r2.next[u] = r.next[u]
    PROVE  RingOf(r2, q, S, s)
<1>1. \A i \in 1..Len(s) : r2.prev[s[i]] = r.prev[s[i]] /\ r2.next[s[i]] = r.next[s[i]]
  BY DEF RingOf, Elements
<1>2. Len(s) \in Nat
  BY LenProperties DEF RingOf
<1>3. \A n \in Nat : \A i \in 1..(n - 1) : i \in 1..n /\ i + 1 \in 1..n
  OBVIOUS
<1>4. \A n \in Nat : n > 0 => 1 \in 1..n /\ n \in 1..n
  OBVIOUS
<1>5. IsRing(r2, q, s)
  BY <1>1, <1>2, <1>3, <1>4 DEF RingOf, IsRing
<1> QED  BY <1>5 DEF RingOf

LEMMA AttachKeeps ==
    ASSUME NEW r \in Pointers, NEW q \in Queues, NEW S, NEW s, RingOf(r, q, S, s),
           NEW t \in Tasks, t \notin S
    PROVE  LET r2 == Attach(r, q, t)
           IN /\ r2 \in Pointers
              /\ RingOf(r2, q, S \cup {t}, Append(s, t))
              /\ \A p \in Queues : p # q => r2.head[p] = r.head[p]
              /\ \A u \in Tasks : u \notin S \cup {t} =>
                    r2.prev[u] = r.prev[u] /\ r2.next[u] = r.next[u]
<1> DEFINE r2 == Attach(r, q, t)
           a == Append(s, t)
           n == Len(s)
<1>1. /\ s \in Seq(Tasks) /\ Injective(s) /\ Elements(s) = S /\ IsRing(r, q, s)
      /\ n \in Nat /\ \A i \in 1..n : s[i] \in Tasks /\ s[i] \in S
  BY LenProperties, ElementOfSeq DEF RingOf, Elements
<1>2. /\ a \in Seq(Tasks) /\ Injective(a) /\ Elements(a) = S \cup {t}
      /\ Len(a) = n + 1 /\ a[n + 1] = t
      /\ \A i \in 1..n : a[i] = s[i]
  BY <1>1, Appended
<1>3. /\ r.head \in [Queues -> Tasks \cup {Null}]
      /\ r.prev \in [Tasks -> Tasks \cup {Null}] /\ r.next \in [Tasks -> Tasks \cup {Null}]
  BY DEF Pointers
<1>4. t \in Tasks /\ t \notin S /\ t # Null /\ \A i \in 1..n : s[i] # Null /\ s[i] # t
  BY <1>1, NullAssumption
<1> HIDE DEF a, n
<1>5. CASE n = 0
  <2>1. r.head[q] = Null
    BY <1>1, <1>5 DEF IsRing, n
  <2>2. r2 = [head |-> [r.head EXCEPT ![q] = t],
              prev |-> [r.prev EXCEPT ![t] = Null],
              next |-> [r.next EXCEPT ![t] = Null]]
    BY <2>1 DEF Attach
  <2> HIDE DEF r2
  <2>3. /\ r2.head = [r.head EXCEPT ![q] = t] /\ r2.prev = [r.prev EXCEPT ![t] = Null]
        /\ r2.next = [r.next EXCEPT ![t] = Null]
    BY <2>2
  <2>4. r2 \in Pointers
    BY <1>3, <2>2 DEF Pointers
  <2>5. /\ r2.head[q] = t /\ r2.prev[t] = Null /\ r2.next[t] = Null
        /\ \A p \in Queues : p # q => r2.head[p] = r.head[p]
        /\ \A u \in Tasks : u # t => r2.prev[u] = r.prev[u] /\ r2.next[u] = r.next[u]
    BY <1>3, <2>3
  <2>6. Len(a) = 1 /\ a[1] = t
    BY <1>2, <1>5
  <2>7. IsRing(r2, q, a)
    BY <2>5, <2>6 DEF IsRing
  <2> QED  BY <1>2, <2>4, <2>5, <2>7 DEF RingOf, r2, a
<1>6. CASE n = 1
  <2> DEFINE h == s[1]
  <2>1. r.head[q] = h /\ r.prev[h] = Null /\ r.next[h] = Null /\ h # Null /\ h # t /\ h \in Tasks
    BY <1>1, <1>4, <1>6 DEF IsRing, n
  <2>2. r2 = [head |-> r.head,
              prev |-> [r.prev EXCEPT ![h] = t, ![t] = h],
              next |-> [r.next EXCEPT ![h] = t, ![t] = h]]
    BY <2>1 DEF Attach
  <2>3. h \in S
    BY <1>1, <1>6
  <2> HIDE DEF r2, h
  <2>4. r2 \in Pointers
    BY <1>3, <2>1, <2>2 DEF Pointers
  <2>5. /\ r2.head = r.head
        /\ r2.prev = [r.prev EXCEPT ![h] = t, ![t] = h]
        /\ r2.next = [r.next EXCEPT ![h] = t, ![t] = h]
    BY <2>2
  <2>6. /\ r2.prev[h] = t /\ r2.next[h] = t /\ r2.prev[t] = h /\ r2.next[t] = h
        /\ \A u \in Tasks : u # t /\ u # h => r2.prev[u] = r.prev[u] /\ r2.next[u] = r.next[u]
    BY <1>3, <2>1, <2>5
  <2>7. Len(a) = 2 /\ a[1] = h /\ a[2] = t
    BY <1>2, <1>6 DEF h
  <2>8. \A i \in 1..(2 - 1) : i = 1 /\ i + 1 = 2
    OBVIOUS
  <2>9. IsRing(r2, q, a)
    BY <2>1, <2>5, <2>6, <2>7, <2>8 DEF IsRing
  <2> QED  BY <1>2, <2>3, <2>4, <2>5, <2>6, <2>9 DEF RingOf, r2, a
<1>7. CASE n > 1
  <2> DEFINE h == s[1]
             l == s[n]
  <2>1. /\ r.head[q] = h /\ r.next[l] = h /\ r.prev[h] = l
        /\ \A i \in 1..(n - 1) : r.next[s[i]] = s[i + 1] /\ r.prev[s[i + 1]] = s[i]
    BY <1>1, <1>7 DEF IsRing, n
  <2>2. /\ h \in Tasks /\ l \in Tasks /\ h # Null /\ l # Null /\ h # t /\ l # t /\ h # l
        /\ h \in S /\ l \in S
    BY <1>1, <1>4, <1>7 DEF Injective, n
  <2>3. r2 = [head |-> r.head,
              prev |-> [r.prev EXCEPT ![t] = l, ![h] = t],
              next |-> [r.next EXCEPT ![t] = h, ![l] = t]]
    BY <2>1, <2>2 DEF Attach
  <2>4. /\ Len(a) = n + 1 /\ a[1] = h /\ a[n] = l /\ a[n + 1] = t
        /\ \A i \in 1..n : a[i] = s[i]
    BY <1>1, <1>2, <1>7
  <2>5. \A i \in 1..n : (s[i] = h => i = 1) /\ (s[i] = l => i = n)
    BY <1>1, <1>7 DEF Injective, n
  <2> HIDE DEF r2, h, l
  <2>6. r2 \in Pointers
    BY <1>3, <2>2, <2>3 DEF Pointers
  <2>7. /\ r2.head = r.head
        /\ r2.prev = [r.prev EXCEPT ![t] = l, ![h] = t]
        /\ r2.next = [r.next EXCEPT ![t] = h, ![l] = t]
    BY <2>3
  <2>8. /\ r2.prev[t] = l /\ r2.prev[h] = t /\ r2.next[t] = h /\ r2.next[l] = t
        /\ \A u \in Tasks : u # t /\ u # h => r2.prev[u] = r.prev[u]
        /\ \A u \in Tasks : u # t /\ u # l => r2.next[u] = r.next[u]
    BY <1>3, <2>2, <2>7
  <2>9. ASSUME NEW i \in 1..n PROVE r2.next[a[i]] = a[i + 1] /\ r2.prev[a[i + 1]] = a[i]
    <3>1. CASE i = n
      BY <2>4, <2>8, <3>1
    <3>2. CASE i # n
      <4>1. i \in 1..(n - 1) /\ i + 1 \in 1..n /\ i + 1 # 1
        BY <1>1, <3>2
      <4>2. s[i] \in Tasks /\ s[i] # t /\ s[i] # l
        BY <1>1, <1>4, <2>5, <3>2
      <4>3. s[i + 1] \in Tasks /\ s[i + 1] # t /\ s[i + 1] # h
        BY <1>1, <1>4, <2>5, <4>1
      <4> QED  BY <2>1, <2>4, <2>8, <4>1, <4>2, <4>3
    <3> QED  BY <3>1, <3>2
  <2>10. Len(a) > 1 /\ Len(a) - 1 = n
    BY <1>1, <1>7, <2>4
  <2>11. IsRing(r2, q, a)
    <3>1. /\ r2.head[q] = a[1] /\ r2.next[a[Len(a)]] = a[1] /\ r2.prev[a[1]] = a[Len(a)]
          /\ Len(a) # 0 /\ Len(a) # 1
      BY <1>1, <2>1, <2>4, <2>7, <2>8, <2>10
    <3>2. \A i \in 1..(Len(a) - 1) : r2.next[a[i]] = a[i + 1] /\ r2.prev[a[i + 1]] = a[i]
      BY <2>9, <2>10
    <3> HIDE DEF a
    <3> QED  BY <2>10, <3>1, <3>2 DEF IsRing
  <2> QED  BY <1>2, <2>2, <2>6, <2>7, <2>8, <2>11 DEF RingOf, r2, a
<1> QED  BY <1>1, <1>5, <1>6, <1>7

LEMMA DetachKeeps ==
    ASSUME NEW r \in Pointers, NEW q \in Queues, NEW S, NEW s, RingOf(r, q, S, s),
           NEW t \in S
    PROVE  LET r2 == Detach(r, q, t)
           IN /\ r2 \in Pointers
              /\ RingOf(r2, q, S \ {t}, Abstract!Without(s, t))
              /\ \A p \in Queues : p # q => r2.head[p] = r.head[p]
              /\ \A u \in Tasks : u \notin S =>
                    r2.prev[u] = r.prev[u] /\ r2.next[u] = r.next[u]
<1> DEFINE r2 == Detach(r, q, t)
           w == Abstract!Without(s, t)
           n == Len(s)
<1>1. /\ s \in Seq(Tasks) /\ Injective(s) /\ Elements(s) = S /\ IsRing(r, q, s)
      /\ n \in Nat /\ \A i \in 1..n : s[i] \in Tasks /\ s[i] \in S
  BY LenProperties, ElementOfSeq DEF RingOf, Elements
<1>2. PICK k \in 1..n : t = s[k]
  BY <1>1 DEF Elements
<1>3. /\ w \in Seq(Tasks) /\ Injective(w) /\ Elements(w) = S \ {t}
      /\ Len(w) = n - 1
      /\ \A i \in 1..(n - 1) : w[i] = IF i < k THEN s[i] ELSE s[i + 1]
  BY <1>1, <1>2, Removed
<1>4. /\ DOMAIN r = {"head", "prev", "next"}
      /\ r = [head |-> r.head, prev |-> r.prev, next |-> r.next]
      /\ r.head \in [Queues -> Tasks \cup {Null}]
      /\ r.prev \in [Tasks -> Tasks \cup {Null}] /\ r.next \in [Tasks -> Tasks \cup {Null}]
  BY DEF Pointers
<1>5. t \in Tasks /\ t # Null /\ \A i \in 1..n : s[i] # Null
  BY <1>1, <1>2, NullAssumption
<1>6. \A i, j \in 1..n : s[i] = s[j] => i = j
  BY <1>1 DEF Injective
<1> HIDE DEF w
<1>7. CASE n = 1
  <2>1. r.head[q] = t /\ r.prev[t] = Null /\ r.next[t] = Null
    BY <1>1, <1>2, <1>7 DEF IsRing
  <2>2. r2 = [r EXCEPT !.head[q] = Null]
    BY <2>1 DEF Detach
  <2>3. r2 = [head |-> [r.head EXCEPT ![q] = Null], prev |-> r.prev, next |-> r.next]
    BY <1>4, <2>2
  <2> HIDE DEF r2
  <2>4. r2 \in Pointers
    BY <1>4, <2>3 DEF Pointers
  <2>5. /\ r2.head[q] = Null /\ \A p \in Queues : p # q => r2.head[p] = r.head[p]
        /\ r2.prev = r.prev /\ r2.next = r.next
    BY <1>4, <2>3
  <2>6. Len(w) = 0
    BY <1>3, <1>7
  <2>7. IsRing(r2, q, w)
    BY <2>5, <2>6 DEF IsRing
  <2> QED  BY <1>3, <2>4, <2>5, <2>7 DEF RingOf, r2, w
<1>8. ASSUME n > 1
      PROVE  /\ r.head[q] = s[1]
             /\ \A i \in 1..n : r.next[s[i]] = s[IF i = n THEN 1 ELSE i + 1]
             /\ \A i \in 1..n : r.prev[s[i]] = s[IF i = 1 THEN n ELSE i - 1]
  <2>1. /\ r.head[q] = s[1] /\ r.next[s[n]] = s[1] /\ r.prev[s[1]] = s[n]
        /\ \A i \in 1..(n - 1) : r.next[s[i]] = s[i + 1] /\ r.prev[s[i + 1]] = s[i]
    BY <1>1, <1>8 DEF IsRing
  <2>2. \A i \in 1..n : i # 1 => i - 1 \in 1..(n - 1) /\ (i - 1) + 1 = i
    BY <1>1
  <2>3. \A i \in 1..n : i # n => i \in 1..(n - 1)
    BY <1>1
  <2> QED  BY <2>1, <2>2, <2>3
<1>9. CASE n = 2
  <2> DEFINE o == s[IF k = 1 THEN 2 ELSE 1]
  <2>1. r.head[q] \in {t, o} /\ r.prev[t] = o /\ r.next[t] = o
    BY <1>2, <1>8, <1>9
  <2>2. o \in Tasks /\ o # Null /\ o # t /\ o \in S
    BY <1>1, <1>2, <1>5, <1>6, <1>9
  <2>3. r2 = [head |-> [r.head EXCEPT ![q] = IF @ = t THEN o ELSE @],
              prev |-> [r.prev EXCEPT ![o] = Null],
              next |-> [r.next EXCEPT ![o] = Null]]
    BY <2>1, <2>2 DEF Detach
  <2>4. Len(w) = 1 /\ w[1] = o
    <3>1. k = 1 \/ k = 2
      BY <1>9
    <3> QED  BY <1>3, <1>9, <3>1
  <2> HIDE DEF r2, o
  <2>5. r2 \in Pointers
    BY <1>4, <2>2, <2>3 DEF Pointers
  <2>6. /\ r2.head = [r.head EXCEPT ![q] = IF @ = t THEN o ELSE @]
        /\ r2.prev = [r.prev EXCEPT ![o] = Null] /\ r2.next = [r.next EXCEPT ![o] = Null]
    BY <2>3
  <2>7. /\ r2.head[q] = o /\ r2.prev[o] = Null /\ r2.next[o] = Null
        /\ \A p \in Queues : p # q => r2.head[p] = r.head[p]
        /\ \A u \in Tasks : u # o => r2.prev[u] = r.prev[u] /\ r2.next[u] = r.next[u]
    BY <1>4, <2>1, <2>2, <2>6
  <2>8. IsRing(r2, q, w)
    BY <2>4, <2>7 DEF IsRing
  <2> QED  BY <1>3, <2>2, <2>5, <2>7, <2>8 DEF RingOf, r2, w
<1>10. CASE n > 2
  <2> DEFINE pi == IF k = 1 THEN n ELSE k - 1
             ni == IF k = n THEN 1 ELSE k + 1
  <2>1. pi \in 1..n /\ ni \in 1..n /\ pi # ni /\ pi # k /\ ni # k
    BY <1>1, <1>10
  <2>2. r.prev[t] = s[pi] /\ r.next[t] = s[ni] /\ r.head[q] = s[1]
    BY <1>2, <1>8, <1>10
  <2>3. s[pi] # s[ni] /\ s[pi] # Null /\ s[ni] # Null /\ s[pi] \in Tasks /\ s[ni] \in Tasks
        /\ s[pi] \in S /\ s[ni] \in S
    BY <1>1, <1>5, <1>6, <2>1
  <2> HIDE DEF pi, ni
  <2>4. r2 = [head |-> [r.head EXCEPT ![q] = IF @ = t THEN s[ni] ELSE @],
              prev |-> [r.prev EXCEPT ![s[ni]] = s[pi]],
              next |-> [r.next EXCEPT ![s[pi]] = s[ni]]]
    BY <2>2, <2>3 DEF Detach
  <2> HIDE DEF r2
  <2>5. r2 \in Pointers
    BY <1>4, <2>3, <2>4 DEF Pointers
  <2>6. /\ r2.head = [r.head EXCEPT ![q] = IF @ = t THEN s[ni] ELSE @]
        /\ r2.prev = [r.prev EXCEPT ![s[ni]] = s[pi]]
        /\ r2.next = [r.next EXCEPT ![s[pi]] = s[ni]]
    BY <2>4
  <2>7. /\ r2.head[q] = IF k = 1 THEN s[ni] ELSE s[1]
        /\ \A p \in Queues : p # q => r2.head[p] = r.head[p]
        /\ \A u \in Tasks : u # s[ni] => r2.prev[u] = r.prev[u]
        /\ \A u \in Tasks : u # s[pi] => r2.next[u] = r.next[u]
        /\ r2.prev[s[ni]] = s[pi] /\ r2.next[s[pi]] = s[ni]
    <3>1. r.head[q] = t <=> k = 1
      BY <1>2, <1>6, <1>10, <2>2
    <3> QED  BY <1>4, <2>2, <2>3, <2>6, <3>1
  <2>8. \A i \in 1..n : /\ i # pi => r2.next[s[i]] = s[IF i = n THEN 1 ELSE i + 1]
                        /\ i # ni => r2.prev[s[i]] = s[IF i = 1 THEN n ELSE i - 1]
    <3>1. \A i \in 1..n : (i # pi => s[i] # s[pi]) /\ (i # ni => s[i] # s[ni])
      BY <1>6, <2>1
    <3>2. \A i \in 1..n : /\ i # pi => r2.next[s[i]] = r.next[s[i]]
                          /\ i # ni => r2.prev[s[i]] = r.prev[s[i]]
      BY <1>1, <2>7, <3>1
    <3>3. n > 1
      BY <1>1, <1>10
    <3> QED  BY <1>8, <3>2, <3>3
  <2> DEFINE m == n - 1
  <2>9. /\ k = 1 => w[1] = s[2] /\ pi = n /\ ni = 2
        /\ k # 1 => w[1] = s[1]
        /\ k = n => w[m] = s[n - 1] /\ pi = n - 1 /\ ni = 1
        /\ k # n => w[m] = s[n]
        /\ Len(w) = m /\ m > 1
    <3>1. 1 \in 1..(n - 1) /\ m \in 1..(n - 1) /\ 1 + 1 = 2 /\ m + 1 = n
      BY <1>1, <1>10
    <3>2. w[1] = (IF 1 < k THEN s[1] ELSE s[2]) /\ w[m] = IF m < k THEN s[m] ELSE s[n]
      BY <1>3, <3>1
    <3>3. (1 < k <=> k # 1) /\ (m < k <=> k = n)
      BY <1>1
    <3>4. Len(w) = m /\ m > 1
      BY <1>1, <1>3, <1>10
    <3>5. k = 1 => k # n
      BY <1>1, <1>10
    <3> HIDE DEF m
    <3>6. k # n => w[m] = s[n]
      BY <3>2, <3>3
    <3>7. k = n => w[m] = s[m]
      BY <3>2, <3>3
    <3> QED  BY <1>1, <3>2, <3>3, <3>4, <3>5, <3>6, <3>7 DEF pi, ni, m
  <2>10. r2.head[q] = w[1]
    BY <1>1, <1>10, <2>7, <2>9 DEF ni
  <2>11. r2.next[w[m]] = w[1] /\ r2.prev[w[1]] = w[m]
    <3>1. CASE k = 1
      <4>1. w[m] = s[n] /\ w[1] = s[2] /\ pi = n /\ ni = 2
        BY <1>10, <2>9, <3>1
      <4> QED  BY <2>7, <4>1
    <3>2. CASE k = n
      <4>1. w[m] = s[n - 1] /\ w[1] = s[1] /\ pi = n - 1 /\ ni = 1
        BY <1>10, <2>9, <3>2
      <4> QED  BY <2>7, <4>1
    <3>3. CASE k # 1 /\ k # n
      <4>1. pi # n /\ ni # 1 /\ n \in 1..n /\ 1 \in 1..n
        BY <1>1, <1>10, <3>3 DEF pi, ni
      <4>2. w[m] = s[n] /\ w[1] = s[1]
        BY <2>9, <3>3
      <4> QED  BY <2>8, <4>1, <4>2
    <3> QED  BY <3>1, <3>2, <3>3
  <2>12. ASSUME NEW i \in 1..(m - 1)
         PROVE  r2.next[w[i]] = w[i + 1] /\ r2.prev[w[i + 1]] = w[i]
    <3>1. i \in 1..(n - 1) /\ i + 1 \in 1..(n - 1) /\ i + 2 \in 1..n /\ i \in 1..n /\ i + 1 \in 1..n
          /\ (i + 1) + 1 = i + 2 /\ (i + 2) - 1 = i + 1 /\ (i + 1) - 1 = i
      BY <1>1, <1>10
    <3>2. CASE i + 1 < k
      <4>1. w[i] = s[i] /\ w[i + 1] = s[i + 1]
        BY <1>1, <1>3, <3>1, <3>2
      <4>2. i # pi /\ i + 1 # ni /\ i # n /\ i + 1 # 1
        BY <1>1, <1>10, <3>1, <3>2 DEF pi, ni
      <4>3. r2.next[s[i]] = s[i + 1] /\ r2.prev[s[i + 1]] = s[i]
        BY <2>8, <3>1, <4>2
      <4> QED  BY <4>1, <4>3
    <3>3. CASE i + 1 = k
      <4>1. w[i] = s[i] /\ w[i + 1] = s[i + 2]
        BY <1>1, <1>3, <3>1, <3>3
      <4>2. pi = i /\ ni = i + 2
        BY <1>1, <1>10, <3>1, <3>3 DEF pi, ni
      <4> QED  BY <2>7, <4>1, <4>2
    <3>4. CASE i + 1 > k
      <4>1. w[i] = s[i + 1] /\ w[i + 1] = s[i + 2]
        BY <1>1, <1>3, <3>1, <3>4
      <4>2. i + 1 # pi /\ i + 2 # ni /\ i + 1 # n /\ i + 2 # 1
        BY <1>1, <1>10, <3>1, <3>4 DEF pi, ni
      <4>3. r2.next[s[i + 1]] = s[i + 2] /\ r2.prev[s[i + 2]] = s[i + 1]
        BY <2>8, <3>1, <4>2
      <4> QED  BY <4>1, <4>3
    <3> QED  BY <1>1, <3>1, <3>2, <3>3, <3>4
  <2>13. IsRing(r2, q, w)
    BY <2>9, <2>10, <2>11, <2>12 DEF IsRing
  <2> QED  BY <1>3, <2>3, <2>5, <2>7, <2>13 DEF RingOf, r2, w
<1>11. n = 1 \/ n = 2 \/ n > 2
  <2>1. n \in Nat
    BY <1>1
  <2> HIDE DEF n
  <2>2. n >= 1
    BY <2>1
  <2> QED  BY <2>1, <2>2
<1> QED  BY <1>7, <1>9, <1>10, <1>11

-----------------------------------------------------------------------------
(* The pointers determine the order.                                       *)

LEMMA NotLonger ==
    ASSUME NEW r, NEW q, NEW S, NEW s1, NEW s2, RingOf(r, q, S, s1), RingOf(r, q, S, s2),
           \A i \in 1..Len(s1) : i <= Len(s2) => s1[i] = s2[i]
    PROVE  ~ (Len(s1) < Len(s2))
<1> DEFINE n == Len(s1)
           m == Len(s2)
<1> SUFFICES ASSUME n < m PROVE FALSE
  OBVIOUS
<1>1. /\ n \in Nat /\ m \in Nat /\ IsRing(r, q, s1) /\ IsRing(r, q, s2) /\ Injective(s2)
      /\ \A i \in 1..m : s2[i] # Null
  BY LenProperties, ElementOfSeq, NullAssumption DEF RingOf
<1>2. CASE n = 0
  <2>1. r.head[q] = Null /\ r.head[q] = s2[1] /\ 1 \in 1..m
    BY <1>1, <1>2 DEF IsRing
  <2> QED  BY <1>1, <2>1
<1>3. CASE n = 1
  <2>1. s1[1] = s2[1] /\ r.next[s1[1]] = Null
    BY <1>1, <1>3 DEF IsRing
  <2>2. 1 \in 1..(m - 1) /\ 1 + 1 \in 1..m /\ m > 1
    BY <1>1, <1>3
  <2>3. r.next[s2[1]] = s2[1 + 1]
    BY <1>1, <2>2 DEF IsRing
  <2> QED  BY <1>1, <2>1, <2>2, <2>3
<1>4. CASE n > 1
  <2>1. n \in 1..(m - 1) /\ n + 1 \in 1..m /\ 1 \in 1..m /\ 1 \in 1..n /\ n \in 1..n /\ m > 1
        /\ n + 1 # 1 /\ 1 <= m /\ n <= m
    BY <1>1, <1>4
  <2>2. r.next[s1[n]] = s1[1] /\ r.next[s2[n]] = s2[n + 1]
    BY <1>1, <1>4, <2>1 DEF IsRing
  <2>3. s1[n] = s2[n] /\ s1[1] = s2[1]
    BY <2>1
  <2>4. s2[n + 1] = s2[1]
    BY <2>2, <2>3
  <2> QED  BY <1>1, <2>1, <2>4 DEF Injective
<1>5. n = 0 \/ n = 1 \/ n > 1
  <2>1. n \in Nat
    BY <1>1
  <2> HIDE DEF n
  <2> QED  BY <2>1
<1> QED  BY <1>2, <1>3, <1>4, <1>5

LEMMA OneOrder ==
    ASSUME NEW r, NEW q, NEW S, NEW s1, NEW s2, RingOf(r, q, S, s1), RingOf(r, q, S, s2)
    PROVE  s1 = s2
<1> DEFINE n == Len(s1)
           m == Len(s2)
           T == {i \in Nat : i \in 1..n /\ i \in 1..m /\ s1[i] # s2[i]}
<1>1. n \in Nat /\ m \in Nat /\ IsRing(r, q, s1) /\ IsRing(r, q, s2)
      /\ s1 \in Seq(Tasks) /\ s2 \in Seq(Tasks)
  BY LenProperties DEF RingOf
<1>2. T = {}
  <2> SUFFICES ASSUME T # {} PROVE FALSE
    OBVIOUS
  <2>1. PICK j \in T : \A i \in T : j <= i
    <3>1. T \in SUBSET Nat
      OBVIOUS
    <3> HIDE DEF T
    <3> QED  BY <3>1, LeastNumber
  <2>2. j \in Nat /\ j \in 1..n /\ j \in 1..m /\ s1[j] # s2[j]
    BY <2>1
  <2>3. CASE j = 1
    <3>1. n > 0 /\ m > 0
      BY <1>1, <2>2
    <3>2. s1[1] = r.head[q] /\ s2[1] = r.head[q]
      BY <1>1, <3>1 DEF IsRing
    <3> QED  BY <2>2, <2>3, <3>2
  <2>4. CASE j # 1
    <3>1. /\ j - 1 \in Nat /\ j - 1 \in 1..n /\ j - 1 \in 1..m /\ ~(j <= j - 1)
          /\ j - 1 \in 1..(n - 1) /\ j - 1 \in 1..(m - 1) /\ (j - 1) + 1 = j /\ n > 1 /\ m > 1
      BY <1>1, <2>2, <2>4
    <3>2. s1[j - 1] = s2[j - 1]
      BY <2>1, <3>1
    <3>3. r.next[s1[j - 1]] = s1[j] /\ r.next[s2[j - 1]] = s2[j]
      <4> DEFINE i == j - 1
      <4> HIDE DEF i
      <4>1. i \in 1..(n - 1) /\ i \in 1..(m - 1) /\ i + 1 = j
        BY <3>1 DEF i
      <4>2. r.next[s1[i]] = s1[i + 1] /\ r.next[s2[i]] = s2[i + 1]
        BY <1>1, <3>1, <4>1 DEF IsRing
      <4> QED  BY <4>1, <4>2 DEF i
    <3> QED  BY <2>2, <3>2, <3>3
  <2> QED  BY <2>3, <2>4
<1>3. \A i \in 1..n : i <= m => s1[i] = s2[i]
  BY <1>1, <1>2
<1>4. \A i \in 1..m : i <= n => s2[i] = s1[i]
  BY <1>1, <1>2
<1>5. ~(n < m) /\ ~(m < n)
  BY <1>3, <1>4, NotLonger
<1>6. n = m
  BY <1>1, <1>5
<1>7. \A i \in 1..n : s1[i] = s2[i]
  BY <1>1, <1>3, <1>6
<1> QED  BY <1>1, <1>6, <1>7, SeqEqual

LEMMA ChosenOrder ==
    ASSUME NEW r, NEW q, NEW S, NEW s, RingOf(r, q, S, s)
    PROVE  (CHOOSE o \in Orders : {o[i] : i \in 1..Len(o)} = S /\ IsRing(r, q, o)) = s
<1> DEFINE Is(o) == {o[i] : i \in 1..Len(o)} = S /\ IsRing(r, q, o)
<1>1. s \in Orders /\ Is(s)
  BY InOrders DEF RingOf, Elements
<1>2. ASSUME NEW o \in Orders, Is(o) PROVE o = s
  <2>1. RingOf(r, q, S, o)
    BY <1>2, FromOrders DEF RingOf, Elements
  <2> QED  BY <2>1, OneOrder
<1> HIDE DEF Is
<1>3. (CHOOSE o \in Orders : Is(o)) = s
  BY <1>1, <1>2
<1> QED  BY <1>3 DEF Is

-----------------------------------------------------------------------------
(* The three queues together.                                              *)

(* The pointers of r describe the queues o, of the tasks w says. *)
RingsOf(r, w, o) ==
    /\ r \in Pointers
    /\ w \in [Tasks -> Queues \cup {"none"}]
    /\ o = [q \in Queues |-> o[q]]
    /\ \A q \in Queues : RingOf(r, q, {t \in Tasks : w[t] = q}, o[q])

LEMMA AttachRings ==
    ASSUME NEW r, NEW w, NEW o, RingsOf(r, w, o), NEW t \in Tasks, w[t] = "none",
           NEW q \in Queues
    PROVE  RingsOf(Attach(r, q, t), [w EXCEPT ![t] = q], [o EXCEPT ![q] = Append(@, t)])
<1> DEFINE r2 == Attach(r, q, t)
           w2 == [w EXCEPT ![t] = q]
           o2 == [o EXCEPT ![q] = Append(@, t)]
           In(f, p) == {u \in Tasks : f[u] = p}
<1>1. /\ r \in Pointers /\ w \in [Tasks -> Queues \cup {"none"}] /\ o = [p \in Queues |-> o[p]]
      /\ \A p \in Queues : RingOf(r, p, In(w, p), o[p])
  BY DEF RingsOf
<1>2. "none" \notin Queues
  BY DEF Queues
<1>3. t \notin In(w, q)
  BY <1>2
<1>4. /\ w2 \in [Tasks -> Queues \cup {"none"}] /\ o2 = [p \in Queues |-> o2[p]]
      /\ In(w2, q) = In(w, q) \cup {t}
      /\ \A p \in Queues : p # q => In(w2, p) = In(w, p) /\ o2[p] = o[p]
      /\ o2[q] = Append(o[q], t)
  BY <1>1, <1>2
<1> HIDE DEF In
<1>5. /\ r2 \in Pointers /\ RingOf(r2, q, In(w, q) \cup {t}, Append(o[q], t))
      /\ \A p \in Queues : p # q => r2.head[p] = r.head[p]
      /\ \A u \in Tasks : u \notin In(w, q) \cup {t} =>
            r2.prev[u] = r.prev[u] /\ r2.next[u] = r.next[u]
  <2>1. r \in Pointers /\ RingOf(r, q, In(w, q), o[q])
    BY <1>1
  <2> QED  BY <1>3, <2>1, AttachKeeps
<1> HIDE DEF r2, o2, w2
<1>6. ASSUME NEW p \in Queues, p # q PROVE RingOf(r2, p, In(w, p), o[p])
  <2>1. \A u \in In(w, p) : u \in Tasks /\ u \notin In(w, q) \cup {t}
    BY <1>2, <1>6 DEF In
  <2>2. \A u \in In(w, p) : r2.prev[u] = r.prev[u] /\ r2.next[u] = r.next[u]
    BY <1>5, <2>1
  <2> QED  BY <1>1, <1>5, <1>6, <2>2, OtherRing
<1>7. \A p \in Queues : RingOf(r2, p, In(w2, p), o2[p])
  BY <1>4, <1>5, <1>6
<1>8. RingsOf(r2, w2, o2)
  BY <1>4, <1>5, <1>7 DEF RingsOf, In
<1> QED  BY <1>8 DEF r2, w2, o2

LEMMA DetachRings ==
    ASSUME NEW r, NEW w, NEW o, RingsOf(r, w, o), NEW t \in Tasks,
           NEW q \in Queues, w[t] = q
    PROVE  RingsOf(Detach(r, q, t), [w EXCEPT ![t] = "none"],
                   [o EXCEPT ![q] = Abstract!Without(@, t)])
<1> DEFINE r2 == Detach(r, q, t)
           w2 == [w EXCEPT ![t] = "none"]
           o2 == [o EXCEPT ![q] = Abstract!Without(@, t)]
           In(f, p) == {u \in Tasks : f[u] = p}
<1>1. /\ r \in Pointers /\ w \in [Tasks -> Queues \cup {"none"}] /\ o = [p \in Queues |-> o[p]]
      /\ \A p \in Queues : RingOf(r, p, In(w, p), o[p])
  BY DEF RingsOf
<1>2. "none" \notin Queues
  BY DEF Queues
<1>3. t \in In(w, q)
  OBVIOUS
<1>4. /\ w2 \in [Tasks -> Queues \cup {"none"}] /\ o2 = [p \in Queues |-> o2[p]]
      /\ In(w2, q) = In(w, q) \ {t}
      /\ \A p \in Queues : p # q => In(w2, p) = In(w, p) /\ o2[p] = o[p]
      /\ o2[q] = Abstract!Without(o[q], t)
  BY <1>1, <1>2
<1> HIDE DEF In
<1>5. /\ r2 \in Pointers /\ RingOf(r2, q, In(w, q) \ {t}, Abstract!Without(o[q], t))
      /\ \A p \in Queues : p # q => r2.head[p] = r.head[p]
      /\ \A u \in Tasks : u \notin In(w, q) =>
            r2.prev[u] = r.prev[u] /\ r2.next[u] = r.next[u]
  BY <1>1, <1>3, DetachKeeps
<1> HIDE DEF r2, o2, w2
<1>6. ASSUME NEW p \in Queues, p # q PROVE RingOf(r2, p, In(w, p), o[p])
  <2>1. \A u \in In(w, p) : u \in Tasks /\ u \notin In(w, q)
    BY <1>6 DEF In
  <2>2. \A u \in In(w, p) : r2.prev[u] = r.prev[u] /\ r2.next[u] = r.next[u]
    BY <1>5, <2>1
  <2> QED  BY <1>1, <1>5, <1>6, <2>2, OtherRing
<1>7. \A p \in Queues : RingOf(r2, p, In(w2, p), o2[p])
  BY <1>4, <1>5, <1>6
<1>8. RingsOf(r2, w2, o2)
  BY <1>4, <1>5, <1>7 DEF RingsOf, In
<1> QED  BY <1>8 DEF r2, w2, o2

(* The pointers of a task that is in no queue do not matter. *)
LEMMA ResetRings ==
    ASSUME NEW r, NEW w, NEW o, RingsOf(r, w, o), NEW t \in Tasks, w[t] = "none"
    PROVE  RingsOf([r EXCEPT !.prev[t] = Null, !.next[t] = Null], w, o)
<1> DEFINE r2 == [r EXCEPT !.prev[t] = Null, !.next[t] = Null]
<1>1. /\ r = [head |-> r.head, prev |-> r.prev, next |-> r.next]
      /\ r.head \in [Queues -> Tasks \cup {Null}]
      /\ r.prev \in [Tasks -> Tasks \cup {Null}] /\ r.next \in [Tasks -> Tasks \cup {Null}]
  BY DEF RingsOf, Pointers
<1>2. r2 = [head |-> r.head, prev |-> [r.prev EXCEPT ![t] = Null],
            next |-> [r.next EXCEPT ![t] = Null]]
  <2> DEFINE r1 == [r EXCEPT !.prev[t] = Null]
  <2>1. r1 = [head |-> r.head, prev |-> [r.prev EXCEPT ![t] = Null], next |-> r.next]
    BY <1>1
  <2>2. r2 = [r1 EXCEPT !.next[t] = Null]
    OBVIOUS
  <2> HIDE DEF r1, r2
  <2> QED  BY <2>1, <2>2
<1> HIDE DEF r2
<1>3. r2 \in Pointers
  BY <1>1, <1>2 DEF Pointers
<1>4. /\ r2.head = r.head
      /\ \A u \in Tasks : u # t => r2.prev[u] = r.prev[u] /\ r2.next[u] = r.next[u]
  BY <1>1, <1>2
<1>5. ASSUME NEW q \in Queues PROVE RingOf(r2, q, {u \in Tasks : w[u] = q}, o[q])
  <2>1. \A u \in {v \in Tasks : w[v] = q} : u # t
    BY DEF Queues
  <2> QED  BY <1>4, <2>1, OtherRing DEF RingsOf
<1>6. RingsOf(r2, w, o)
  BY <1>3, <1>5 DEF RingsOf
<1> QED  BY <1>6 DEF r2

LEMMA MoveRings ==
    ASSUME NEW r, NEW w, NEW o, RingsOf(r, w, o), NEW t \in Tasks,
           NEW from \in Queues, NEW to \in Queues, from # to, w[t] = from
    PROVE  RingsOf(Attach(Detach(r, from, t), to, t), [w EXCEPT ![t] = to],
                   [o EXCEPT ![from] = Abstract!Without(@, t), ![to] = Append(@, t)])
<1> DEFINE w1 == [w EXCEPT ![t] = "none"]
           o1 == [o EXCEPT ![from] = Abstract!Without(@, t)]
<1>1. RingsOf(Detach(r, from, t), w1, o1)
  BY DetachRings
<1>2. w1[t] = "none"
  BY DEF RingsOf
<1> HIDE DEF w1, o1
<1>3. RingsOf(Attach(Detach(r, from, t), to, t), [w1 EXCEPT ![t] = to],
              [o1 EXCEPT ![to] = Append(@, t)])
  BY <1>1, <1>2, AttachRings
<1>4. [w1 EXCEPT ![t] = to] = [w EXCEPT ![t] = to]
  BY DEF w1, RingsOf
<1>5. [o1 EXCEPT ![to] = Append(@, t)]
      = [o EXCEPT ![from] = Abstract!Without(@, t), ![to] = Append(@, t)]
  BY DEF o1, RingsOf
<1> QED  BY <1>3, <1>4, <1>5

-----------------------------------------------------------------------------
(* The theorems.                                                           *)

(* The queues that the pointers describe. *)
Held == [q \in Queues |-> Order(q)]

LEMMA RingsAreHeld ==
    RingInv => RingsOf(Rings, where, Held)
<1> SUFFICES ASSUME RingInv PROVE RingsOf(Rings, where, Held)
  OBVIOUS
<1>1. /\ Rings \in Pointers /\ where \in [Tasks -> Queues \cup {"none"}]
      /\ Held = [q \in Queues |-> Held[q]]
  BY DEF RingInv, TypeOK, Rings, Pointers, Held
<1>2. ASSUME NEW q \in Queues PROVE RingOf(Rings, q, {t \in Tasks : where[t] = q}, Held[q])
  <2>1. PICK s : RingOf(Rings, q, {t \in Tasks : where[t] = q}, s)
    BY DEF RingInv, InQueue
  <2>2. Order(q) = s
    BY <2>1, ChosenOrder DEF Order, InQueue
  <2> QED  BY <2>1, <2>2 DEF Held
<1> QED  BY <1>1, <1>2 DEF RingsOf

(* Pointers that describe the queues o are the next state of the invariant, and
   o is what TaskQueues sees. *)
LEMMA HeldNext ==
    ASSUME NEW r, NEW w, NEW o, RingsOf(r, w, o), Become(r), where' = w
    PROVE  RingInv' /\ Held' = o
<1>1. /\ r = [head |-> r.head, prev |-> r.prev, next |-> r.next]
      /\ r.head \in [Queues -> Tasks \cup {Null}]
      /\ r.prev \in [Tasks -> Tasks \cup {Null}] /\ r.next \in [Tasks -> Tasks \cup {Null}]
  BY DEF RingsOf, Pointers
<1>2. head' = r.head /\ prev' = r.prev /\ next' = r.next
  BY DEF Become
<1>3. Rings' = r
  BY <1>1, <1>2 DEF Rings
<1>4. TypeOK'
  BY <1>1, <1>2 DEF TypeOK, RingsOf
<1>5. \A q \in Queues : RingOf(r, q, InQueue(q)', o[q])
  BY DEF RingsOf, InQueue
<1>6. RingInv'
  BY <1>3, <1>4, <1>5 DEF RingInv
<1>7. \A q \in Queues : Order(q)' = o[q]
  BY <1>3, <1>5, ChosenOrder DEF Order
<1>8. Held' = [q \in Queues |-> o[q]]
  BY <1>7 DEF Held
<1>9. o = [q \in Queues |-> o[q]]
  BY <1>8 DEF RingsOf
<1> QED  BY <1>6, <1>8, <1>9

LEMMA InitRings == Init => RingInv /\ Held = [q \in Queues |-> IF q = "wait" THEN << Main >> ELSE << >>]
<1> SUFFICES ASSUME Init
             PROVE  RingInv /\ Held = [q \in Queues |-> IF q = "wait" THEN << Main >> ELSE << >>]
  OBVIOUS
<1> DEFINE o == [q \in Queues |-> IF q = "wait" THEN << Main >> ELSE << >>]
<1>1. TypeOK
  BY MainAssumption DEF Init, TypeOK, Queues
<1>2. ASSUME NEW q \in Queues PROVE RingOf(Rings, q, InQueue(q), o[q])
  <2>1. CASE q = "wait"
    <3>1. /\ o[q] = << Main >> /\ Len(<< Main >>) = 1 /\ << Main >> \in Seq(Tasks)
          /\ << Main >>[1] = Main
      BY <2>1, MainAssumption
    <3>2. InQueue(q) = {Main}
      BY <2>1, MainAssumption DEF Init, InQueue
    <3>3. /\ Rings.head[q] = Main /\ Rings.prev[Main] = Null /\ Rings.next[Main] = Null
      BY <2>1, MainAssumption DEF Init, Rings
    <3>4. \A i \in 1..1 : i = 1
      OBVIOUS
    <3>5. IsRing(Rings, q, << Main >>)
      BY <3>1, <3>3 DEF IsRing
    <3>6. Injective(<< Main >>) /\ Elements(<< Main >>) = {Main}
      BY <3>1, <3>4 DEF Injective, Elements
    <3> QED  BY <3>1, <3>2, <3>5, <3>6 DEF RingOf
  <2>2. CASE q # "wait"
    <3>1. o[q] = << >> /\ Len(<< >>) = 0 /\ << >> \in Seq(Tasks)
      BY <2>2
    <3>2. InQueue(q) = {}
      BY <2>2 DEF Init, InQueue, Queues
    <3>3. Rings.head[q] = Null
      BY <2>2 DEF Init, Rings
    <3>4. IsRing(Rings, q, << >>)
      BY <3>1, <3>3 DEF IsRing
    <3>5. Injective(<< >>) /\ Elements(<< >>) = {}
      BY <3>1 DEF Injective, Elements
    <3> QED  BY <3>1, <3>2, <3>4, <3>5 DEF RingOf
  <2> QED  BY <2>1, <2>2
<1>3. RingInv
  BY <1>1, <1>2 DEF RingInv
<1>4. \A q \in Queues : Order(q) = o[q]
  <2> HIDE DEF o
  <2> QED  BY <1>2, ChosenOrder DEF Order
<1>5. Held = o
  BY <1>4 DEF Held
<1> QED  BY <1>3, <1>5

(* Each step keeps the rings and is a step of TaskQueues. *)
LEMMA RingStep ==
    RingInv /\ [Next]_vars => RingInv' /\ [Abstract!Next]_Held
<1> SUFFICES ASSUME RingInv, [Next]_vars PROVE RingInv' /\ [Abstract!Next]_Held
  OBVIOUS
<1>1. RingsOf(Rings, where, Held)
  BY RingsAreHeld
<1>2. CASE UNCHANGED vars
  <2>1. Become(Rings) /\ where' = where
    BY <1>2 DEF vars, Become, Rings
  <2>2. RingInv' /\ Held' = Held
    BY <1>1, <2>1, HeldNext
  <2> QED  BY <2>2
<1>3. /\ where \in [Tasks -> Queues \cup {"none"}] /\ "none" \notin Queues
      /\ DOMAIN Held = Queues /\ Abstract!Queues = Queues
      /\ \A q \in Queues, t \in Tasks : t \in Abstract!Members(Held[q]) <=> where[t] = q
  BY <1>1 DEF RingsOf, RingOf, Elements, Abstract!Members, Abstract!Queues, Queues
<1>4. ASSUME NEW t \in Tasks, Create(t) PROVE RingInv' /\ Abstract!Create(t)
  <2>1. RingsOf(Attach(Rings, "wait", t), [where EXCEPT ![t] = "wait"],
                [Held EXCEPT !["wait"] = Append(@, t)])
    BY <1>1, <1>4, AttachRings DEF Create, Queues
  <2>2. RingInv' /\ Held' = [Held EXCEPT !["wait"] = Append(@, t)]
    BY <1>4, <2>1, HeldNext DEF Create
  <2>3. ~Abstract!Queued(t)
    BY <1>3, <1>4 DEF Create, Abstract!Queued, Held
  <2> QED  BY <2>2, <2>3 DEF Abstract!Create, Held
<1>5. ASSUME NEW t \in Tasks, NEW from \in Queues, NEW to \in Queues, from # to,
             Move(t, from, to)
      PROVE  RingInv' /\ Abstract!Move(t, from, to)
  <2>1. RingsOf(Attach(Detach(Rings, from, t), to, t), [where EXCEPT ![t] = to],
                [Held EXCEPT ![from] = Abstract!Without(@, t), ![to] = Append(@, t)])
    BY <1>1, <1>5, MoveRings DEF Move
  <2>2. /\ RingInv'
        /\ Held' = [Held EXCEPT ![from] = Abstract!Without(@, t), ![to] = Append(@, t)]
    BY <1>5, <2>1, HeldNext DEF Move
  <2>3. t \in Abstract!Members(Held[from])
    BY <1>3, <1>5 DEF Move
  <2> QED  BY <1>5, <2>2, <2>3 DEF Abstract!Move, Held
<1>6. ASSUME NEW t \in Tasks, Destroy(t) PROVE RingInv' /\ Abstract!Destroy(t)
  <2> DEFINE r == Detach(Rings, "done", t)
             w == [where EXCEPT ![t] = "none"]
             o == [Held EXCEPT !["done"] = Abstract!Without(@, t)]
  <2>1. RingsOf(r, w, o)
    BY <1>1, <1>6, DetachRings DEF Destroy, Queues
  <2>2. w[t] = "none"
    BY <1>3
  <2>3. Become([r EXCEPT !.prev[t] = Null, !.next[t] = Null]) /\ where' = w
    BY <1>6 DEF Destroy
  <2> HIDE DEF r, w, o
  <2>4. RingsOf([r EXCEPT !.prev[t] = Null, !.next[t] = Null], w, o)
    BY <2>1, <2>2, ResetRings
  <2>5. RingInv' /\ Held' = o
    BY <2>3, <2>4, HeldNext
  <2>6. t \in Abstract!Members(Held["done"])
    BY <1>3, <1>6 DEF Destroy, Queues
  <2> QED  BY <2>5, <2>6 DEF Abstract!Destroy, Held, o
<1>7. ASSUME NEW t \in Tasks, Suspend(t) \/ Resume(t) \/ Terminate(t)
      PROVE  RingInv' /\ (Abstract!Suspend(t) \/ Abstract!Resume(t) \/ Abstract!Terminate(t))
  <2>1. {"ready", "wait", "done"} \subseteq Queues
    BY DEF Queues
  <2> QED  BY <1>5, <1>7, <2>1 DEF Suspend, Resume, Terminate, Abstract!Suspend,
                                     Abstract!Resume, Abstract!Terminate
<1> QED  BY <1>2, <1>4, <1>6, <1>7 DEF Next, Abstract!Next

LEMMA AlwaysRings == Spec => []RingInv
<1> QED  BY InitRings, RingStep, PTL DEF Spec

(* However tasks are created, moved and destroyed, following the pointers of a
   queue visits exactly its tasks, each once: attach and detach (task.cpp) never
   follow a stale pointer of a detached task. *)
THEOREM RingsAreWhole == Spec => []RingsHoldTheirTasks
<1>1. RingInv => RingsHoldTheirTasks
  <2> SUFFICES ASSUME RingInv, NEW q \in Queues
               PROVE  \E s \in Orders : /\ {s[i] : i \in 1..Len(s)} = InQueue(q)
                                        /\ IsRing(Rings, q, s)
    BY DEF RingInv, RingsHoldTheirTasks
  <2>1. PICK s : RingOf(Rings, q, InQueue(q), s)
    BY DEF RingInv
  <2> QED  BY <2>1, InOrders DEF RingOf, Elements
<1> QED  BY <1>1, AlwaysRings, PTL

(* The rings behave as the queues of TaskQueues: a task that is attached goes to
   the end, and the others keep their order. *)
THEOREM RingsImplementQueues == Spec => RefinesTaskQueues
<1>1. Init => Abstract!Init
  BY InitRings DEF Abstract!Init, Abstract!Queues, Queues, Held
<1>2. Held = [q \in Queues |-> Order(q)]
  BY DEF Held
<1>3. RingInv /\ [Next]_vars => [Abstract!Next]_([q \in Queues |-> Order(q)])
  BY RingStep DEF Held
<1> QED  BY <1>1, <1>3, AlwaysRings, PTL DEF Spec, RefinesTaskQueues, Abstract!Spec
=============================================================================
