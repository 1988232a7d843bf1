---------------------------- MODULE QueuesProofs ----------------------------
EXTENDS Queues, FiniteSetTheorems, WellFoundedInduction, TLAPS

USE Zenon

---------------------------------------------------------------------------
(* Induction.                                                              *)

\* A non-empty set of numbers has a least element.
LEMMA Least ==
  ASSUME NEW S \in SUBSET Nat, S # {}
  PROVE  \E s \in S : \A t \in S : s <= t
<1>1. IsWellFoundedOn(OpToRel(<, Nat), Nat)
  BY NatLessThanWellFounded
<1>2. PICK s \in S : \A t \in S : ~(<<t, s>> \in OpToRel(<, Nat))
  BY <1>1, WFMin
<1>3. ASSUME NEW t \in S PROVE s <= t
  <2>1. s \in Nat /\ t \in Nat
    BY <1>2
  <2>2. ~(t < s)
    BY <1>2, <2>1 DEF OpToRel
  <2> QED
    BY <2>1, <2>2, SMT
<1> QED
  BY <1>2, <1>3

\* A set of numbers that has every number all of whose predecessors it has,
\* has all.  A statement P(n) is proved with the set of the n that have it.
LEMMA Induction ==
  ASSUME NEW S, \A n \in Nat : (\A m \in Nat : m < n => m \in S) => n \in S
  PROVE  \A n \in Nat : n \in S
<1> SUFFICES ASSUME Nat \ S # {} PROVE FALSE
  OBVIOUS
<1>1. PICK n \in Nat \ S : \A m \in Nat \ S : n <= m
  BY Least
<1>2. ASSUME NEW m \in Nat, m < n PROVE m \in S
  <2>1. n \in Nat /\ ~(n <= m)
    BY <1>1, <1>2, SMT
  <2> QED
    BY <1>1, <2>1
<1> QED
  BY <1>1, <1>2

---------------------------------------------------------------------------
(* How often a request is in an array.                                     *)

Where(d, at, y) == {i \in at : d[i] = y}
One(y, z) == IF y = z THEN 1 ELSE 0

\* The entries A of d are the entries B of e, or these and x.
Alike(d, A, e, B) == \A y : Cardinality(Where(d, A, y)) = Cardinality(Where(e, B, y))
Gains(d, A, e, B, x) ==
  \A y : /\ Cardinality(Where(e, B, y)) \in Nat
         /\ Cardinality(Where(d, A, y)) = Cardinality(Where(e, B, y)) + One(x, y)

\* Moving the entries of an array one to one to other places changes no count.
LEMMA SameCount ==
  ASSUME NEW A, NEW B, IsFiniteSet(B), NEW d, NEW e,
         NEW to \in [A -> B],
         \A i, j \in A : to[i] = to[j] => i = j,
         \A k \in B : \E i \in A : to[i] = k,
         \A i \in A : d[i] = e[to[i]]
  PROVE  Alike(d, A, e, B)
<1> SUFFICES ASSUME NEW y PROVE Cardinality(Where(d, A, y)) = Cardinality(Where(e, B, y))
  BY DEF Alike
<1> DEFINE S == Where(d, A, y)
           T == Where(e, B, y)
           f == [i \in S |-> to[i]]
<1>1. f \in [S -> T]
  BY DEF Where
<1>2. \A i, j \in S : f[i] = f[j] => i = j
  BY DEF Where
<1>3. \A k \in T : \E i \in S : f[i] = k
  <2> SUFFICES ASSUME NEW k \in T PROVE \E i \in S : f[i] = k
    OBVIOUS
  <2>1. PICK i \in A : to[i] = k
    BY DEF Where
  <2>2. i \in S
    BY <2>1 DEF Where
  <2> QED
    BY <2>1, <2>2
<1>4. IsFiniteSet(T)
  BY FS_Subset DEF Where
<1>5. f \in Injection(S, T) /\ f \in Surjection(S, T)
  <2> HIDE DEF S, T, f
  <2> QED
    BY <1>1, <1>2, <1>3 DEF Injection, Surjection, IsInjective
<1> HIDE DEF S, T, f
<1>6. Cardinality(S) = Cardinality(T)
  BY <1>4, <1>5, FS_Injection
<1> QED
  BY <1>6 DEF S, T

\* One more place adds its entry.
LEMMA OneMore ==
  ASSUME NEW A, IsFiniteSet(A), NEW s, s \notin A, NEW d
  PROVE  Gains(d, A \cup {s}, d, A, d[s])
<1> SUFFICES ASSUME NEW y
             PROVE  /\ Cardinality(Where(d, A, y)) \in Nat
                    /\ Cardinality(Where(d, A \cup {s}, y)) = Cardinality(Where(d, A, y)) + One(d[s], y)
  BY DEF Gains
<1> DEFINE S == Where(d, A, y)
           T == Where(d, A \cup {s}, y)
<1>1. IsFiniteSet(S) /\ s \notin S
  BY FS_Subset DEF Where
<1>2. d[s] = y => T = S \cup {s}
  BY DEF Where
<1>3. d[s] # y => T = S
  BY DEF Where
<1> HIDE DEF S, T
<1>4. Cardinality(S) \in Nat /\ Cardinality(S \cup {s}) = Cardinality(S) + 1
  BY <1>1, FS_CardinalityType, FS_AddElement
<1>5. Cardinality(T) = Cardinality(S) + One(d[s], y)
  <2>1. CASE d[s] = y
    BY <1>2, <1>4, <2>1 DEF One
  <2>2. CASE d[s] # y
    BY <1>3, <1>4, <2>2, SMT DEF One
  <2> QED
    BY <2>1, <2>2
<1> QED
  BY <1>4, <1>5 DEF S, T

---------------------------------------------------------------------------
(* insertMinHeap().                                                        *)

Entry(h, k) == key[h.data[k].b]

ClimbBody(h, x, f, p) ==
  IF p > 0 /\ Entry(h, p \div 2) > key[x.b]
  THEN [stop |-> f[p \div 2].stop, moved |-> f[p \div 2].moved \cup {p}]
  ELSE [stop |-> p, moved |-> {}]

LEMMA Halves ==
  ASSUME NEW p \in Nat, p > 0
  PROVE  p \div 2 \in Nat /\ p \div 2 < p
BY SMT

LEMMA ClimbIs ==
  ASSUME NEW h, NEW x
  PROVE  Climb(h, x, key) = CHOOSE f : f = [p \in 0 .. Capacity |-> ClimbBody(h, x, f, p)]
BY DEF Climb, ClimbBody, Entry

LEMMA ClimbExists ==
  ASSUME NEW h, NEW x, NEW N \in Nat
  PROVE  \E f : f = [p \in 0 .. N |-> ClimbBody(h, x, f, p)]
<1> DEFINE S == {n \in Nat : \E f : f = [p \in 0 .. n |-> ClimbBody(h, x, f, p)]}
<1>1. ASSUME NEW n \in Nat, \A m \in Nat : m < n => m \in S
      PROVE  n \in S
  <2>1. CASE n = 0
    <3> DEFINE f == [p \in 0 .. 0 |-> [stop |-> p, moved |-> {}]]
    <3>1. f = [p \in 0 .. 0 |-> ClimbBody(h, x, f, p)]
      <4>1. ASSUME NEW p \in 0 .. 0 PROVE ClimbBody(h, x, f, p) = [stop |-> p, moved |-> {}]
        <5>1. ~(p > 0)
          BY SMT
        <5> QED
          BY <5>1 DEF ClimbBody
      <4> QED
        BY <4>1
    <3> QED
      BY <2>1, <3>1
  <2>2. CASE n > 0
    <3>1. n - 1 \in Nat /\ n - 1 < n
      BY <2>2, SMT
    <3>2. PICK g : g = [p \in 0 .. n - 1 |-> ClimbBody(h, x, g, p)]
      BY <1>1, <3>1
    <3> DEFINE f == [p \in 0 .. n |-> ClimbBody(h, x, g, p)]
    <3>3. ASSUME NEW p \in 0 .. n PROVE ClimbBody(h, x, f, p) = ClimbBody(h, x, g, p)
      <4>1. CASE p > 0
        <5>1. p \div 2 \in 0 .. n /\ p \div 2 \in 0 .. n - 1
          BY <4>1, Halves, SMT
        <5>2. f[p \div 2] = g[p \div 2]
          BY <3>2, <5>1
        <5> QED
          BY <5>2 DEF ClimbBody
      <4>2. CASE ~(p > 0)
        BY <4>2 DEF ClimbBody
      <4> QED
        BY <4>1, <4>2
    <3>4. f = [p \in 0 .. n |-> ClimbBody(h, x, f, p)]
      BY <3>3
    <3> QED
      BY <3>4
  <2> QED
    BY <2>1, <2>2, SMT
<1>2. \A n \in Nat : n \in S
  <2> HIDE DEF S
  <2> QED
    BY <1>1, Induction
<1> QED
  BY <1>2

LEMMA ClimbUnfolds ==
  ASSUME NEW h, NEW x, NEW p \in 0 .. Capacity
  PROVE  Climb(h, x, key)[p] = ClimbBody(h, x, Climb(h, x, key), p)
<1> DEFINE Solves(f) == f = [q \in 0 .. Capacity |-> ClimbBody(h, x, f, q)]
<1>1. \E f : Solves(f)
  BY QueuesAssumption, ClimbExists
<1>2. Climb(h, x, key) = CHOOSE f : Solves(f)
  BY ClimbIs
<1>3. Solves(Climb(h, x, key))
  <2> HIDE DEF Solves
  <2> QED
    BY <1>1, <1>2
<1> QED
  BY <1>3

\* What the loop of insertMinHeap() has done when it started at p: the moved
\* entries are the path from p up to where it stops; their parents, which
\* are on the path too, are larger than x, and the one where it stops is not.
Climbed(h, x, u, p) ==
  /\ u.stop \in 0 .. p /\ u.moved \subseteq u.stop + 1 .. p
  /\ p \in u.moved \cup {u.stop}
  /\ u.stop > 0 => ~(Entry(h, u.stop \div 2) > key[x.b])
  /\ \A i \in u.moved : Entry(h, i \div 2) > key[x.b] /\ i \div 2 \in u.moved \cup {u.stop}
  /\ \A i, j \in u.moved : i \div 2 = j \div 2 => i = j
  /\ \A j \in u.moved \cup {u.stop} : j # p => \E i \in u.moved : i \div 2 = j

LEMMA Climbs ==
  ASSUME NEW h, NEW x, NEW p \in 0 .. Capacity
  PROVE  Climbed(h, x, Climb(h, x, key)[p], p)
<1> DEFINE C == Climb(h, x, key)
           S == {n \in Nat : n <= Capacity => Climbed(h, x, C[n], n)}
<1>0. Capacity \in Nat
  BY QueuesAssumption
<1>1. ASSUME NEW n \in Nat, \A m \in Nat : m < n => m \in S, n <= Capacity
      PROVE  Climbed(h, x, C[n], n)
  <2>0. n \in 0 .. Capacity
    BY <1>0, <1>1, SMT
  <2>1. C[n] = ClimbBody(h, x, C, n)
    BY <2>0, ClimbUnfolds
  <2>2. CASE n > 0 /\ Entry(h, n \div 2) > key[x.b]
    <3> DEFINE m == n \div 2
               u == C[m]
               v == C[n]
    <3>1. m \in Nat /\ m < n /\ m <= Capacity
      BY <1>0, <1>1, <2>2, Halves, SMT
    <3>2. Climbed(h, x, u, m)
      BY <1>1, <3>1
    <3>3. v.stop = u.stop /\ v.moved = u.moved \cup {n}
      <4>1. v = [stop |-> u.stop, moved |-> u.moved \cup {n}]
        BY <2>1, <2>2 DEF ClimbBody
      <4> HIDE DEF u, v
      <4> QED
        BY <4>1, SMT
    <3> HIDE DEF u, v
    <3>4. u.stop \in 0 .. m /\ \A j \in u.moved : j \in u.stop + 1 .. m
      BY <3>2 DEF Climbed
    <3>5. \A j \in u.moved : j \div 2 # m /\ j # n
      BY <3>1, <3>4, SMT
    <3>6. v.stop \in 0 .. n /\ (\A j \in v.moved : j \in v.stop + 1 .. n)
      BY <1>1, <3>1, <3>3, <3>4, SMT
    <3>7. m \in u.moved \cup {u.stop}
      BY <3>2 DEF Climbed
    <3>8. \A i \in v.moved : Entry(h, i \div 2) > key[x.b] /\ i \div 2 \in v.moved \cup {v.stop}
      BY <2>2, <3>2, <3>3, <3>7 DEF Climbed
    <3>9. \A i, j \in v.moved : i \div 2 = j \div 2 => i = j
      BY <3>2, <3>3, <3>5 DEF Climbed
    <3>10. \A j \in v.moved \cup {v.stop} : j # n => \E i \in v.moved : i \div 2 = j
      <4>1. ASSUME NEW j \in u.moved \cup {u.stop} PROVE \E i \in v.moved : i \div 2 = j
        BY <3>2, <3>3 DEF Climbed
      <4> QED
        BY <3>3, <4>1
    <3>11. v.stop > 0 => ~(Entry(h, v.stop \div 2) > key[x.b])
      BY <3>2, <3>3 DEF Climbed
    <3>12. n \in v.moved \cup {v.stop}
      BY <3>3
    <3>13. v.moved \subseteq v.stop + 1 .. n
      BY <3>6
    <3> QED
      BY <3>6, <3>8, <3>9, <3>10, <3>11, <3>12, <3>13 DEF Climbed, v
  <2>3. CASE ~(n > 0 /\ Entry(h, n \div 2) > key[x.b])
    <3>1. C[n].stop = n /\ C[n].moved = {}
      <4>1. C[n] = [stop |-> n, moved |-> {}]
        BY <2>1, <2>3 DEF ClimbBody
      <4> HIDE DEF C
      <4> QED
        BY <4>1, SMT
    <3>2. n \in 0 .. n
      BY SMT
    <3> QED
      BY <2>3, <3>1, <3>2 DEF Climbed
  <2> QED
    BY <2>2, <2>3
<1>2. \A n \in Nat : n \in S
  <2>1. \A n \in Nat : (\A m \in Nat : m < n => m \in S) => n \in S
    BY <1>1
  <2> HIDE DEF S
  <2> QED
    BY <2>1, Induction
<1>3. p \in Nat /\ p <= Capacity
  BY <1>0, SMT
<1> QED
  BY <1>2, <1>3

Positions == 0 .. Capacity - 1
Arrays == [Positions -> Requests]
Ordered(h) == \A i \in 2 .. h.Size : Entry(h, i) >= Entry(h, i \div 2)

\* A heap as the operations find it, with Size at -1 after the deletion from
\* an empty one.
HeapType(h) == h.data \in Arrays /\ h.Size \in -1 .. Capacity - 1

\* Block numbers are natural numbers.
LEMMA KeyType ==
  ASSUME NEW y \in Requests
  PROVE  key[y.b] \in Nat /\ key[y.b] = y.b
<1>1. PICK k \in Keys : y = [b |-> k, write |-> 0]
  BY DEF Requests
<1>2. y.b = k
  BY <1>1, SMT
<1>3. k \in Nat
  BY QueuesAssumption
<1> QED
  BY <1>2, <1>3 DEF key

LEMMA EntryType ==
  ASSUME NEW h, HeapType(h)
  PROVE  \A i \in Positions : h.data[i] \in Requests /\ Entry(h, i) \in Nat
<1>1. \A i \in Positions : h.data[i] \in Requests
  BY DEF HeapType, Arrays
<1> QED
  BY <1>1, KeyType DEF Entry

\* From below data[0] the loop gets there only when x is less than data[0].
LEMMA StopsBelow ==
  ASSUME NEW h, NEW x, NEW p \in 1 .. Capacity, NEW u, Climbed(h, x, u, p),
         ~(u.stop = 0 /\ Entry(h, 0) > key[x.b])
  PROVE  u.stop # 0
<1> SUFFICES ASSUME u.stop = 0 PROVE FALSE
  OBVIOUS
<1>1. p # 0
  BY QueuesAssumption, SMT
<1>2. PICK i \in u.moved : i \div 2 = 0
  BY <1>1 DEF Climbed
<1>3. Entry(h, i \div 2) > key[x.b]
  BY DEF Climbed
<1> QED
  BY <1>2, <1>3

\* data[] as insertMinHeap() leaves it.
Raised(h, x, u) ==
  [i \in Positions |->
     IF i = u.stop THEN x ELSE IF i \in u.moved THEN h.data[i \div 2] ELSE h.data[i]]

LEMMA InsertIs ==
  ASSUME NEW h, HeapType(h), NEW x \in Requests
  PROVE  LET u == Climb(h, x, key)[h.Size + 1]
             r == insertMinHeap(h, x, key)
         IN  \/ h.Size + 1 = Capacity /\ r.fault # "none" /\ r.heap.Size = Capacity
             \/ u.stop = 0 /\ Entry(h, 0) > key[x.b] /\ r.fault # "none" /\ r.heap = h
             \/ /\ h.Size < Capacity - 1 /\ ~(u.stop = 0 /\ Entry(h, 0) > key[x.b])
                /\ r = [heap |-> [data |-> Raised(h, x, u), Size |-> h.Size + 1], fault |-> "none"]
<1> DEFINE u == Climb(h, x, key)[h.Size + 1]
           r == insertMinHeap(h, x, key)
<1>1. /\ Capacity \in Nat /\ h.Size \in Int /\ h.Size # Capacity
      /\ h.Size + 1 # Capacity => h.Size < Capacity - 1
  BY QueuesAssumption, SMT DEF HeapType
<1>2. CASE h.Size + 1 = Capacity
  <2>1. r = [heap |-> [data |-> h.data, Size |-> h.Size + 1], fault |-> "insertMinHeap: past data[]"]
    BY <1>1, <1>2 DEF insertMinHeap
  <2> HIDE DEF r
  <2>2. r.fault # "none" /\ r.heap.Size = h.Size + 1
    BY <2>1
  <2> QED
    BY <1>2, <2>2 DEF r
<1>3. CASE h.Size + 1 # Capacity /\ u.stop = 0 /\ Entry(h, 0) > key[x.b]
  <2>1. r = [heap |-> h, fault |-> "insertMinHeap: endless loop"]
    BY <1>1, <1>3 DEF insertMinHeap, Entry
  <2> HIDE DEF r
  <2>2. r.fault # "none" /\ r.heap = h
    BY <2>1
  <2> QED
    BY <1>3, <2>2 DEF r
<1>4. CASE h.Size + 1 # Capacity /\ ~(u.stop = 0 /\ Entry(h, 0) > key[x.b])
  BY <1>1, <1>4 DEF insertMinHeap, Raised, Positions, Entry
<1> QED
  BY <1>2, <1>3, <1>4

\* An insertion keeps the heap ordered.
LEMMA InsertOrdered ==
  ASSUME NEW h, HeapType(h), Ordered(h), NEW x \in Requests, h.Size < Capacity - 1, h.Size >= 0,
         NEW u, Climbed(h, x, u, h.Size + 1), u.stop # 0
  PROVE  LET g == [data |-> Raised(h, x, u), Size |-> h.Size + 1]
         IN  HeapType(g) /\ Ordered(g) /\ g.data[0] = h.data[0]
<1> DEFINE n == h.Size + 1
           g == [data |-> Raised(h, x, u), Size |-> n]
<1>0. /\ Capacity \in Nat /\ h.Size \in Nat /\ n \in 1 .. Capacity - 1
      /\ n \in 1 .. Capacity /\ n \in -1 .. Capacity - 1
  BY QueuesAssumption, SMT DEF HeapType
<1>1. g.data = Raised(h, x, u) /\ g.Size = n
  OBVIOUS
<1>2. u.stop \in 1 .. n
  <2>1. u.stop \in 0 .. n
    BY DEF Climbed
  <2> QED
    BY <1>0, <2>1, SMT
<1>3. \A i \in u.moved : i \in Nat /\ i > u.stop /\ i <= n /\ i \in Positions /\ i \div 2 \in Positions
  <2>1. \A i \in u.moved : i \in u.stop + 1 .. n
    BY DEF Climbed
  <2> QED
    BY <1>0, <1>2, <2>1, SMT DEF Positions
<1>4. \A i \in Positions :
        g.data[i] = IF i = u.stop THEN x ELSE IF i \in u.moved THEN h.data[i \div 2] ELSE h.data[i]
  BY <1>1 DEF Raised
<1>5. HeapType(g)
  <2>1. g.data \in Arrays
    <3>1. ASSUME NEW i \in Positions PROVE g.data[i] \in Requests
      BY <1>3, <1>4, EntryType
    <3>2. g.data = [i \in Positions |-> g.data[i]]
      BY <1>1 DEF Raised
    <3> HIDE DEF g
    <3> QED
      BY <3>1, <3>2 DEF Arrays
  <2> QED
    BY <1>0, <1>1, <2>1 DEF HeapType
<1>6. Ordered(g)
  <2> DEFINE new(i) == IF i = u.stop THEN key[x.b]
                       ELSE IF i \in u.moved THEN Entry(h, i \div 2) ELSE Entry(h, i)
  <2>1. \A i \in Positions : Entry(g, i) = new(i)
    BY <1>4 DEF Entry
  <2>2. ASSUME NEW i \in 2 .. n PROVE new(i) >= new(i \div 2)
    <3> DEFINE q == i \div 2
               qq == q \div 2
    <3> SUFFICES new(i) >= new(q)
      OBVIOUS
    <3>1. /\ i \in Positions /\ q \in Positions /\ qq \in Positions
          /\ i \in Nat /\ q \in Nat /\ 0 < q /\ q < i /\ q <= h.Size
      BY <1>0, SMT DEF Positions
    <3>2. /\ Entry(h, i) \in Nat /\ Entry(h, q) \in Nat /\ Entry(h, qq) \in Nat /\ key[x.b] \in Nat
      BY <3>1, EntryType, KeyType
    <3>3. i # n => Entry(h, i) >= Entry(h, q)
      <4>1. i # n => i \in 2 .. h.Size
        BY <1>0, SMT
      <4> QED
        BY <4>1 DEF Ordered
    <3>4. q >= 2 => Entry(h, q) >= Entry(h, qq)
      <4>1. q >= 2 => q \in 2 .. h.Size
        BY <1>0, <3>1, SMT
      <4> QED
        BY <4>1 DEF Ordered
    <3>5. q \in u.moved => q >= 2
      BY <1>2, <1>3, SMT
    <3>6. CASE i \in u.moved
      <4>1. i # u.stop /\ Entry(h, q) > key[x.b] /\ q \in u.moved \cup {u.stop}
        BY <1>2, <1>3, <3>6, SMT DEF Climbed
      <4>2. new(i) = Entry(h, q)
        BY <3>6, <4>1
      <4>3. new(q) = key[x.b] \/ (new(q) = Entry(h, qq) /\ q \in u.moved)
        BY <4>1
      <4> HIDE DEF new, q, qq
      <4> QED
        BY <3>2, <3>4, <3>5, <4>1, <4>2, <4>3, SMT
    <3>7. CASE i = u.stop
      <4>1. q # u.stop /\ q \notin u.moved
        BY <1>2, <1>3, <3>1, <3>7, SMT
      <4>2. ~(Entry(h, q) > key[x.b])
        <5>1. u.stop > 0
          BY <1>2, SMT
        <5> QED
          BY <3>7, <5>1 DEF Climbed
      <4>3. new(i) = key[x.b] /\ new(q) = Entry(h, q)
        BY <3>7, <4>1
      <4> HIDE DEF new, q, qq
      <4> QED
        BY <3>2, <4>2, <4>3, SMT
    <3>8. CASE i \notin u.moved /\ i # u.stop
      <4>1. i # n
        BY <3>8 DEF Climbed
      <4>2. new(i) = Entry(h, i)
        BY <3>8
      <4>3. CASE q \in u.moved /\ q # u.stop
        <5>1. new(q) = Entry(h, qq)
          BY <4>3
        <5> HIDE DEF new, q, qq
        <5> QED
          BY <3>2, <3>3, <3>4, <3>5, <4>1, <4>2, <4>3, <5>1, SMT
      <4>4. CASE q = u.stop
        <5>1. q # n
          BY <1>0, <3>1, SMT
        <5>2. PICK j \in u.moved : j \div 2 = q
          BY <4>4, <5>1 DEF Climbed
        <5>3. Entry(h, q) > key[x.b]
          BY <5>2 DEF Climbed
        <5>4. new(q) = key[x.b]
          BY <4>4
        <5> HIDE DEF new, q, qq
        <5> QED
          BY <3>2, <3>3, <4>1, <4>2, <5>3, <5>4, SMT
      <4>5. CASE q \notin u.moved /\ q # u.stop
        <5>1. new(q) = Entry(h, q)
          BY <4>5
        <5> HIDE DEF new, q, qq
        <5> QED
          BY <3>3, <4>1, <4>2, <5>1
      <4> QED
        BY <4>3, <4>4, <4>5
    <3> QED
      BY <3>6, <3>7, <3>8
  <2>3. ASSUME NEW i \in 2 .. n PROVE i \in Positions /\ i \div 2 \in Positions
    BY <1>0, SMT DEF Positions
  <2> HIDE DEF new
  <2> QED
    BY <1>1, <2>1, <2>2, <2>3 DEF Ordered
<1>7. g.data[0] = h.data[0]
  <2>1. 0 # u.stop /\ 0 \notin u.moved /\ 0 \in Positions
    BY <1>0, <1>2, <1>3, SMT DEF Positions
  <2> QED
    BY <1>4, <2>1
<1> QED
  BY <1>5, <1>6, <1>7

\* It adds x, and loses or duplicates nothing.
LEMMA InsertCounts ==
  ASSUME NEW h, HeapType(h), NEW x \in Requests, h.Size < Capacity - 1, h.Size >= 0,
         NEW u, Climbed(h, x, u, h.Size + 1), u.stop # 0
  PROVE  Gains(Raised(h, x, u), 1 .. h.Size + 1, h.data, 1 .. h.Size, x)
<1> DEFINE n == h.Size + 1
           d == Raised(h, x, u)
           s == u.stop
           A == (1 .. n) \ {s}
           B == 1 .. h.Size
           to == [i \in A |-> IF i \in u.moved THEN i \div 2 ELSE i]
<1>0. /\ Capacity \in Nat /\ h.Size \in Nat /\ n \in 1 .. Capacity - 1
      /\ n \in 1 .. Capacity
  BY QueuesAssumption, SMT DEF HeapType
<1>1. s \in 1 .. n
  <2>1. u.stop \in 0 .. n
    BY DEF Climbed
  <2> QED
    BY <1>0, <2>1, SMT
<1>2. \A i \in u.moved : i \in 2 .. n /\ i > s
  <2>1. \A i \in u.moved : i \in u.stop + 1 .. n
    BY DEF Climbed
  <2> QED
    BY <1>0, <1>1, <2>1, SMT
<1>3. n \in u.moved \cup {s}
  BY DEF Climbed
<1>4. to \in [A -> B]
  <2>1. ASSUME NEW i \in A PROVE (IF i \in u.moved THEN i \div 2 ELSE i) \in B
    <3>1. CASE i \in u.moved
      BY <1>0, <1>2, <3>1, SMT
    <3>2. CASE i \notin u.moved
      <4>1. i # n /\ i \in 1 .. n
        BY <1>3, <3>2
      <4> QED
        BY <1>0, <3>2, <4>1, SMT
    <3> QED
      BY <3>1, <3>2
  <2> QED
    BY <2>1
<1>5. ASSUME NEW i \in A, NEW j \in A, to[i] = to[j] PROVE i = j
  <2>1. \A k \in u.moved : k \div 2 \in u.moved \cup {s}
    BY DEF Climbed
  <2>2. \A k, l \in u.moved : k \div 2 = l \div 2 => k = l
    BY DEF Climbed
  <2> QED
    BY <1>5, <2>1, <2>2, ZenonT(30)
<1>6. ASSUME NEW k \in B PROVE \E i \in A : to[i] = k
  <2>0. k # n /\ k \in 1 .. n
    BY <1>0, SMT
  <2>1. CASE k \in u.moved \cup {s}
    <3>1. PICK i \in u.moved : i \div 2 = k
      BY <2>0, <2>1 DEF Climbed
    <3>2. i \in A
      BY <1>0, <1>1, <1>2, SMT
    <3> QED
      BY <3>1, <3>2
  <2>2. CASE k \notin u.moved \cup {s}
    BY <2>0, <2>2
  <2> QED
    BY <2>1, <2>2
<1>7. \A i \in A : d[i] = h.data[to[i]]
  <2>1. \A i \in A : i \in Positions
    BY <1>0, SMT DEF Positions
  <2> QED
    BY <2>1 DEF Raised
<1>8. IsFiniteSet(B) /\ IsFiniteSet(A)
  <2>1. IsFiniteSet(1 .. h.Size) /\ IsFiniteSet(1 .. n)
    BY <1>0, FS_Interval, SMT
  <2> QED
    BY <2>1, FS_Subset
<1>9. Alike(d, A, h.data, B)
  <2> HIDE DEF A, B, to, d
  <2> QED
    BY <1>4, <1>5, <1>6, <1>7, <1>8, SameCount
<1>10. Gains(d, A \cup {s}, d, A, d[s])
  <2>1. s \notin A
    OBVIOUS
  <2> HIDE DEF A, d, s
  <2> QED
    BY <1>8, <2>1, OneMore
<1>11. A \cup {s} = 1 .. n
  BY <1>1
<1>12. d[s] = x
  <2>1. s \in Positions
    BY <1>0, <1>1, SMT DEF Positions
  <2> QED
    BY <2>1 DEF Raised
<1>13. Gains(d, 1 .. n, d, A, x)
  BY <1>10, <1>11, <1>12
<1> HIDE DEF A, d, s
<1>14. Gains(d, 1 .. n, h.data, B, x)
  BY <1>9, <1>13 DEF Alike, Gains
<1> QED
  BY <1>14 DEF d

---------------------------------------------------------------------------
(* deleteFromMinHeap().                                                    *)

Smaller(h, n, i) == SmallerChild(h, n, i, key)

SinkBody(h, n, last, f, i) ==
  IF 2 * i <= n /\ ~(Entry(h, Smaller(h, n, i)) > key[last.b])
  THEN [stop |-> f[Smaller(h, n, i)].stop, moved |-> f[Smaller(h, n, i)].moved \cup {i}]
  ELSE [stop |-> i, moved |-> {}]

LEMMA SinkIs ==
  ASSUME NEW h, NEW n, NEW last
  PROVE  Sink(h, n, last, key) = CHOOSE f : f = [i \in 1 .. Capacity |-> SinkBody(h, n, last, f, i)]
BY DEF Sink, SinkBody, Entry, Smaller

\* The hole moves to a child.
LEMMA ChildOf ==
  ASSUME NEW h, NEW n \in Int, NEW i \in Nat, i > 0, 2 * i <= n
  PROVE  LET c == Smaller(h, n, i) IN c \in Nat /\ i < c /\ c <= n /\ c \div 2 = i
<1>1. Smaller(h, n, i) = 2 * i \/ (Smaller(h, n, i) = 2 * i + 1 /\ 2 * i # n)
  BY DEF Smaller, SmallerChild
<1> QED
  BY <1>1, SMT

LEMMA SinkExists ==
  ASSUME NEW h, NEW n \in Int, n < Capacity, NEW last
  PROVE  \E f : f = [i \in 1 .. Capacity |-> SinkBody(h, n, last, f, i)]
<1> DEFINE N == Capacity
           S == {m \in Nat : m < N => \E f : f = [i \in N - m .. N |-> SinkBody(h, n, last, f, i)]}
<1>0. N \in Nat /\ N > 0
  BY QueuesAssumption, SMT
<1>1. ASSUME NEW m \in Nat, \A k \in Nat : k < m => k \in S, m < N
      PROVE  \E f : f = [i \in N - m .. N |-> SinkBody(h, n, last, f, i)]
  <2>1. CASE m = 0
    <3> DEFINE f == [i \in N .. N |-> [stop |-> i, moved |-> {}]]
    <3>1. ASSUME NEW i \in N .. N PROVE SinkBody(h, n, last, f, i) = [stop |-> i, moved |-> {}]
      <4>1. ~(2 * i <= n)
        BY <1>0, SMT
      <4> QED
        BY <4>1 DEF SinkBody
    <3>2. f = [i \in N .. N |-> SinkBody(h, n, last, f, i)]
      BY <3>1
    <3>3. N - m = N
      BY <1>0, <2>1, SMT
    <3> HIDE DEF f
    <3> QED
      BY <3>2, <3>3
  <2>2. CASE m > 0
    <3>1. m - 1 \in Nat /\ m - 1 < m /\ m - 1 < N
      BY <1>0, <1>1, <2>2, SMT
    <3>2. PICK g : g = [i \in N - (m - 1) .. N |-> SinkBody(h, n, last, g, i)]
      BY <1>1, <3>1
    <3> DEFINE f == [i \in N - m .. N |-> SinkBody(h, n, last, g, i)]
    <3>3. ASSUME NEW i \in N - m .. N PROVE SinkBody(h, n, last, f, i) = SinkBody(h, n, last, g, i)
      <4>1. CASE 2 * i <= n
        <5>0. i \in Nat /\ i > 0
          BY <1>0, <1>1, SMT
        <5> DEFINE c == Smaller(h, n, i)
        <5>1. c \in Nat /\ i < c /\ c <= n
          BY <4>1, <5>0, ChildOf
        <5> HIDE DEF c
        <5>2. c \in N - m .. N /\ c \in N - (m - 1) .. N
          BY <1>0, <1>1, <5>0, <5>1, SMT
        <5>3. f[c] = g[c]
          BY <3>2, <5>2
        <5> QED
          BY <5>3 DEF SinkBody, c
      <4>2. CASE ~(2 * i <= n)
        BY <4>2 DEF SinkBody
      <4> QED
        BY <4>1, <4>2
    <3>4. f = [i \in N - m .. N |-> SinkBody(h, n, last, f, i)]
      BY <3>3
    <3> QED
      BY <3>4
  <2> QED
    BY <2>1, <2>2, SMT
<1>2. \A m \in Nat : m \in S
  <2>1. \A m \in Nat : (\A k \in Nat : k < m => k \in S) => m \in S
    BY <1>1
  <2> HIDE DEF S
  <2> QED
    BY <2>1, Induction
<1>3. N - 1 \in Nat /\ N - 1 < N /\ N - (N - 1) = 1
  BY <1>0, SMT
<1>4. \E f : f = [i \in N - (N - 1) .. N |-> SinkBody(h, n, last, f, i)]
  BY <1>2, <1>3
<1> QED
  BY <1>3, <1>4

LEMMA SinkUnfolds ==
  ASSUME NEW h, NEW n \in Int, n < Capacity, NEW last, NEW i \in 1 .. Capacity
  PROVE  Sink(h, n, last, key)[i] = SinkBody(h, n, last, Sink(h, n, last, key), i)
<1> DEFINE Solves(f) == f = [j \in 1 .. Capacity |-> SinkBody(h, n, last, f, j)]
<1>1. \E f : Solves(f)
  BY SinkExists
<1>2. Sink(h, n, last, key) = CHOOSE f : Solves(f)
  BY SinkIs
<1>3. Solves(Sink(h, n, last, key))
  <2> HIDE DEF Solves
  <2> QED
    BY <1>1, <1>2
<1> QED
  BY <1>3

\* What the loop of deleteFromMinHeap() has done when it started at i: the
\* moved entries are a path down from i, each going on to the smaller child,
\* which is not larger than last, and where it stops there is no such child.
Sunk(h, n, last, u, i) ==
  /\ u.stop \in Nat /\ i <= u.stop /\ (u.stop = i \/ u.stop <= n)
  /\ \A j \in u.moved : j \in Nat /\ i <= j /\ j < u.stop
  /\ i \in u.moved \cup {u.stop}
  /\ 2 * u.stop <= n => Entry(h, Smaller(h, n, u.stop)) > key[last.b]
  /\ \A j \in u.moved :
       /\ 2 * j <= n /\ ~(Entry(h, Smaller(h, n, j)) > key[last.b])
       /\ Smaller(h, n, j) \in u.moved \cup {u.stop}
  /\ \A j \in u.moved \cup {u.stop} : j # i => j \div 2 \in u.moved /\ j = Smaller(h, n, j \div 2)

LEMMA Sinks ==
  ASSUME NEW h, NEW n \in Int, n < Capacity, NEW last, NEW i \in 1 .. Capacity
  PROVE  Sunk(h, n, last, Sink(h, n, last, key)[i], i)
<1> DEFINE N == Capacity
           C == Sink(h, n, last, key)
           S == {m \in Nat : m < N => Sunk(h, n, last, C[N - m], N - m)}
<1>0. N \in Nat /\ N > 0
  BY QueuesAssumption, SMT
<1>1. ASSUME NEW m \in Nat, \A k \in Nat : k < m => k \in S, m < N
      PROVE  Sunk(h, n, last, C[N - m], N - m)
  <2> DEFINE p == N - m
             c == Smaller(h, n, p)
             u == C[c]
             v == C[p]
  <2>0. p \in 1 .. Capacity /\ p \in Nat /\ p > 0 /\ p <= p
    BY <1>0, <1>1, SMT
  <2>1. v = SinkBody(h, n, last, C, p)
    BY <2>0, SinkUnfolds
  <2>2. CASE 2 * p <= n /\ ~(Entry(h, c) > key[last.b])
    <3>1. c \in Nat /\ p < c /\ c <= n /\ c \div 2 = p
      BY <2>0, <2>2, ChildOf
    <3>2. Sunk(h, n, last, u, c)
      <4> HIDE DEF c, u, C
      <4>1. N - c \in Nat /\ N - c < m /\ N - c < N /\ N - (N - c) = c
        BY <1>0, <1>1, <3>1, SMT
      <4>2. Sunk(h, n, last, C[N - (N - c)], N - (N - c))
        BY <1>1, <4>1
      <4> QED
        BY <4>1, <4>2 DEF u
    <3>3. v.stop = u.stop /\ v.moved = u.moved \cup {p}
      <4>1. v = [stop |-> u.stop, moved |-> u.moved \cup {p}]
        BY <2>1, <2>2 DEF SinkBody
      <4> HIDE DEF u, v
      <4> QED
        BY <4>1, SMT
    <3> HIDE DEF c, u, v, p
    <3>4. c \in u.moved \cup {u.stop}
      BY <3>2 DEF Sunk
    <3>5. u.stop \in Nat /\ c <= u.stop /\ u.stop <= n /\ \A j \in u.moved : j \in Nat /\ c <= j /\ j < u.stop
      BY <3>1, <3>2 DEF Sunk
    <3>6. /\ v.stop \in Nat /\ p <= v.stop /\ v.stop <= n
          /\ \A j \in v.moved : j \in Nat /\ p <= j /\ j < v.stop
      BY <2>0, <3>1, <3>3, <3>5, SMT
    <3>7. p \in v.moved \cup {v.stop}
      BY <3>3
    <3>8. 2 * v.stop <= n => Entry(h, Smaller(h, n, v.stop)) > key[last.b]
      BY <3>2, <3>3 DEF Sunk
    <3>9. \A j \in v.moved :
            /\ 2 * j <= n /\ ~(Entry(h, Smaller(h, n, j)) > key[last.b])
            /\ Smaller(h, n, j) \in v.moved \cup {v.stop}
      <4>1. ASSUME NEW j \in u.moved
            PROVE  /\ 2 * j <= n /\ ~(Entry(h, Smaller(h, n, j)) > key[last.b])
                   /\ Smaller(h, n, j) \in u.moved \cup {u.stop}
        BY <3>2 DEF Sunk
      <4>2. 2 * p <= n /\ ~(Entry(h, Smaller(h, n, p)) > key[last.b])
            /\ Smaller(h, n, p) \in u.moved \cup {u.stop}
        BY <2>2, <3>4 DEF c
      <4> QED
        BY <3>3, <4>1, <4>2
    <3>10. \A j \in v.moved \cup {v.stop} : j # p => j \div 2 \in v.moved /\ j = Smaller(h, n, j \div 2)
      <4>1. ASSUME NEW j \in u.moved \cup {u.stop}
            PROVE  j \div 2 \in v.moved /\ j = Smaller(h, n, j \div 2)
        <5>1. CASE j = c
          BY <3>1, <3>3, <5>1 DEF c
        <5>2. CASE j # c
          BY <3>2, <3>3, <5>2 DEF Sunk
        <5> QED
          BY <5>1, <5>2
      <4> QED
        BY <3>3, <4>1
    <3> QED
      BY <3>6, <3>7, <3>8, <3>9, <3>10 DEF Sunk, v, p
  <2>3. CASE ~(2 * p <= n /\ ~(Entry(h, c) > key[last.b]))
    <3>1. v.stop = p /\ v.moved = {}
      <4>1. v = [stop |-> p, moved |-> {}]
        BY <2>1, <2>3 DEF SinkBody
      <4> HIDE DEF v
      <4> QED
        BY <4>1, SMT
    <3> HIDE DEF v, p
    <3> QED
      BY <2>0, <2>3, <3>1 DEF Sunk, v, p, c
  <2> QED
    BY <2>2, <2>3
<1>2. \A m \in Nat : m \in S
  <2>1. \A m \in Nat : (\A k \in Nat : k < m => k \in S) => m \in S
    BY <1>1
  <2> HIDE DEF S
  <2> QED
    BY <2>1, Induction
<1>3. N - i \in Nat /\ N - i < N /\ N - (N - i) = i
  BY <1>0, SMT
<1>4. Sunk(h, n, last, C[N - (N - i)], N - (N - i))
  BY <1>2, <1>3
<1> QED
  BY <1>3, <1>4

\* data[] as deleteFromMinHeap() leaves it.
Lowered(h, n, last, u) ==
  [i \in Positions |->
     IF i = u.stop THEN last
     ELSE IF i \in u.moved THEN h.data[Smaller(h, n, i)] ELSE h.data[i]]

LEMMA DeleteIs ==
  ASSUME NEW h, HeapType(h), h.Size >= 0
  PROVE  LET n == h.Size - 1
             last == h.data[h.Size]
         IN  deleteFromMinHeap(h, key)
               = [heap |-> [data |-> Lowered(h, n, last, Sink(h, n, last, key)[1]), Size |-> n],
                  fault |-> "none"]
<1>1. ~(h.Size < 0)
  BY SMT DEF HeapType
<1> QED
  BY <1>1 DEF deleteFromMinHeap, Lowered, Positions, Smaller

\* What the two proofs below start from.
LEMMA DeleteBounds ==
  ASSUME NEW h, HeapType(h), h.Size > 0, NEW last, NEW u, Sunk(h, h.Size - 1, last, u, 1)
  PROVE  LET n == h.Size - 1 IN
         /\ Capacity \in Nat /\ h.Size \in Nat /\ n \in Nat /\ n + 1 = h.Size /\ h.Size < Capacity
         /\ u.stop \in Nat /\ u.stop >= 1 /\ (n > 0 => u.stop <= n) /\ u.stop \in Positions
         /\ \A j \in u.moved :
              LET c == Smaller(h, n, j) IN
              /\ j \in Nat /\ j >= 1 /\ j < u.stop /\ 2 * j <= n
              /\ c \in Nat /\ j < c /\ c <= n /\ c \div 2 = j /\ c \in Positions
<1> DEFINE n == h.Size - 1
<1>1. Capacity \in Nat /\ h.Size \in Nat /\ n \in Nat /\ n + 1 = h.Size /\ h.Size < Capacity
  BY QueuesAssumption, SMT DEF HeapType
<1>2. u.stop \in Nat /\ 1 <= u.stop /\ (u.stop = 1 \/ u.stop <= n)
  BY DEF Sunk
<1>3. u.stop >= 1 /\ (n > 0 => u.stop <= n) /\ u.stop \in Positions
  BY <1>1, <1>2, SMT DEF Positions
<1>4. ASSUME NEW j \in u.moved
      PROVE  LET c == Smaller(h, n, j) IN
             /\ j \in Nat /\ j >= 1 /\ j < u.stop /\ 2 * j <= n
             /\ c \in Nat /\ j < c /\ c <= n /\ c \div 2 = j /\ c \in Positions
  <2> DEFINE c == Smaller(h, n, j)
  <2>1. j \in Nat /\ 1 <= j /\ j < u.stop /\ 2 * j <= n
    BY DEF Sunk
  <2>2. j > 0 /\ j >= 1
    BY <2>1, SMT
  <2>3. c \in Nat /\ j < c /\ c <= n /\ c \div 2 = j
    <3>1. n \in Int
      BY <1>1, SMT
    <3> QED
      BY <2>1, <2>2, <3>1, ChildOf
  <2> HIDE DEF c
  <2>4. c \in Positions
    BY <1>1, <2>3, SMT DEF Positions
  <2> QED
    BY <2>1, <2>2, <2>3, <2>4 DEF c
<1> QED
  BY <1>1, <1>2, <1>3, <1>4

\* A deletion keeps the heap ordered.
LEMMA DeleteOrdered ==
  ASSUME NEW h, HeapType(h), Ordered(h), h.Size > 0,
         NEW u, Sunk(h, h.Size - 1, h.data[h.Size], u, 1)
  PROVE  LET n == h.Size - 1
             g == [data |-> Lowered(h, n, h.data[h.Size], u), Size |-> n]
         IN  HeapType(g) /\ Ordered(g) /\ g.data[0] = h.data[0]
<1> DEFINE n == h.Size - 1
           last == h.data[h.Size]
           c(i) == Smaller(h, n, i)
           g == [data |-> Lowered(h, n, last, u), Size |-> n]
<1>0. /\ Capacity \in Nat /\ h.Size \in Nat /\ n \in Nat /\ n + 1 = h.Size /\ h.Size < Capacity
      /\ u.stop \in Nat /\ u.stop >= 1 /\ (n > 0 => u.stop <= n) /\ u.stop \in Positions
  BY DeleteBounds
<1>1. \A j \in u.moved :
        /\ j \in Nat /\ j >= 1 /\ j < u.stop /\ 2 * j <= n
        /\ c(j) \in Nat /\ j < c(j) /\ c(j) <= n /\ c(j) \div 2 = j /\ c(j) \in Positions
  BY DeleteBounds
<1>2. last \in Requests
  <2>1. h.Size \in Positions
    BY <1>0, SMT DEF Positions
  <2> QED
    BY <2>1, EntryType
<1>3. g.data = Lowered(h, n, last, u) /\ g.Size = n
  OBVIOUS
<1>4. \A i \in Positions :
        g.data[i] = IF i = u.stop THEN last ELSE IF i \in u.moved THEN h.data[c(i)] ELSE h.data[i]
  BY <1>3 DEF Lowered
<1> HIDE DEF c, last
<1>5. HeapType(g)
  <2>1. g.data \in Arrays
    <3>1. ASSUME NEW i \in Positions PROVE g.data[i] \in Requests
      BY <1>1, <1>2, <1>4, EntryType
    <3>2. g.data = [i \in Positions |-> g.data[i]]
      BY <1>3 DEF Lowered
    <3> HIDE DEF g
    <3> QED
      BY <3>1, <3>2 DEF Arrays
  <2>2. n \in -1 .. Capacity - 1
    BY <1>0, SMT
  <2> QED
    BY <1>3, <2>1, <2>2 DEF HeapType
<1>6. Ordered(g)
  <2> DEFINE new(i) == IF i = u.stop THEN key[last.b]
                       ELSE IF i \in u.moved THEN Entry(h, c(i)) ELSE Entry(h, i)
  <2>1. \A i \in Positions : Entry(g, i) = new(i)
    BY <1>4 DEF Entry
  <2>2. ASSUME NEW i \in 2 .. n PROVE new(i) >= new(i \div 2)
    <3> DEFINE q == i \div 2
    <3> SUFFICES new(i) >= new(q)
      OBVIOUS
    <3>1. /\ i \in Positions /\ q \in Positions /\ i \in Nat /\ q \in Nat /\ 1 <= q /\ q < i /\ 2 * q <= n
          /\ i \in 2 .. h.Size /\ i # 1 /\ (i = 2 * q \/ i = 2 * q + 1)
      BY <1>0, SMT DEF Positions
    <3>2. Entry(h, i) \in Nat /\ Entry(h, q) \in Nat /\ key[last.b] \in Nat
      BY <1>2, <3>1, EntryType, KeyType
    <3>3. Entry(h, i) >= Entry(h, q)
      BY <3>1 DEF Ordered
    <3>4. i \in u.moved \cup {u.stop} => q \in u.moved /\ i = c(q)
      BY <3>1 DEF Sunk, c
    \* The smaller child is not larger than i.
    <3>5. /\ c(q) \in Positions /\ Entry(h, c(q)) \in Nat /\ Entry(h, i) >= Entry(h, c(q))
      <4>1. q > 0
        BY <3>1, SMT
      <4>2. c(q) \in Nat /\ c(q) <= n
        <5>1. n \in Int
          BY <1>0, SMT
        <5> QED
          BY <3>1, <4>1, <5>1, ChildOf DEF c
      <4>3. c(q) \in Positions
        BY <1>0, <4>2, SMT DEF Positions
      <4>4. Entry(h, c(q)) \in Nat
        BY <4>3, EntryType
      <4>5. CASE i = c(q)
        BY <3>2, <4>3, <4>4, <4>5, SMT
      <4>6. CASE i # c(q)
        <5> DEFINE l == 2 * q
                   r == 2 * q + 1
        <5>1. c(q) = IF l # n /\ Entry(h, l) > Entry(h, r) THEN r ELSE l
          BY DEF c, Smaller, SmallerChild, Entry
        <5>2. l # r
          BY <3>1, SMT
        <5>3. \/ i = l /\ c(q) = r /\ Entry(h, l) > Entry(h, r)
              \/ i = r /\ c(q) = l /\ (l = n \/ ~(Entry(h, l) > Entry(h, r)))
          BY <3>1, <4>6, <5>1, <5>2
        <5>4. i = r => l # n
          BY <3>1, <1>0, SMT
        <5> HIDE DEF c, l, r
        <5> QED
          BY <3>2, <4>3, <4>4, <5>3, <5>4, SMT
      <4> QED
        BY <4>3, <4>4, <4>5, <4>6
    <3>6. CASE i \in u.moved
      <4>1. i # u.stop /\ q # u.stop /\ q \in u.moved /\ i = c(q)
        BY <1>1, <3>4, <3>6, SMT
      <4>2. new(i) = Entry(h, c(i)) /\ new(q) = Entry(h, i)
        BY <3>6, <4>1
      <4>3. c(i) \in 2 .. h.Size /\ c(i) \div 2 = i
        BY <1>0, <1>1, <3>1, <3>6, SMT
      <4>4. Entry(h, c(i)) >= Entry(h, i)
        BY <4>3 DEF Ordered
      <4> HIDE DEF new
      <4> QED
        BY <4>2, <4>4
    <3>7. CASE i = u.stop
      <4>1. q # u.stop /\ q \in u.moved /\ i = c(q)
        BY <1>1, <3>4, <3>7, SMT
      <4>2. new(i) = key[last.b] /\ new(q) = Entry(h, i)
        BY <3>7, <4>1
      <4>3. ~(Entry(h, i) > key[last.b])
        BY <4>1 DEF Sunk, c, last
      <4> HIDE DEF new
      <4> QED
        BY <3>2, <4>2, <4>3, SMT
    <3>8. CASE i \notin u.moved /\ i # u.stop
      <4>1. new(i) = Entry(h, i)
        BY <3>8
      <4>2. CASE q \in u.moved /\ q # u.stop
        <5>1. new(q) = Entry(h, c(q))
          BY <4>2
        <5> HIDE DEF new
        <5> QED
          BY <3>5, <4>1, <5>1
      <4>3. CASE q = u.stop
        <5>1. new(q) = key[last.b]
          BY <4>3
        <5>2. Entry(h, c(q)) > key[last.b]
          BY <3>1, <4>3 DEF Sunk, c, last
        <5> HIDE DEF new
        <5> QED
          BY <3>2, <3>5, <4>1, <5>1, <5>2, SMT
      <4>4. CASE q \notin u.moved /\ q # u.stop
        <5>1. new(q) = Entry(h, q)
          BY <4>4
        <5> HIDE DEF new
        <5> QED
          BY <3>3, <4>1, <5>1
      <4> QED
        BY <4>2, <4>3, <4>4
    <3> QED
      BY <3>6, <3>7, <3>8
  <2>3. ASSUME NEW i \in 2 .. n PROVE i \in Positions /\ i \div 2 \in Positions
    BY <1>0, SMT DEF Positions
  <2> HIDE DEF new
  <2> QED
    BY <1>3, <2>1, <2>2, <2>3 DEF Ordered
<1>7. g.data[0] = h.data[0]
  <2>1. 0 # u.stop /\ 0 \notin u.moved /\ 0 \in Positions
    BY <1>0, <1>1, SMT DEF Positions
  <2> QED
    BY <1>4, <2>1
<1> QED
  BY <1>5, <1>6, <1>7 DEF last

\* It takes data[1] out, and loses or duplicates nothing else.
LEMMA DeleteCounts ==
  ASSUME NEW h, HeapType(h), h.Size > 0,
         NEW u, Sunk(h, h.Size - 1, h.data[h.Size], u, 1)
  PROVE  LET n == h.Size - 1 IN
         Gains(h.data, 1 .. h.Size, Lowered(h, n, h.data[h.Size], u), 1 .. n, h.data[1])
<1> DEFINE n == h.Size - 1
           last == h.data[h.Size]
           c(i) == Smaller(h, n, i)
           d == Lowered(h, n, last, u)
           A == 1 .. n
           B == 2 .. h.Size
           to == [i \in A |-> IF i = u.stop THEN h.Size ELSE IF i \in u.moved THEN c(i) ELSE i]
<1>0. /\ Capacity \in Nat /\ h.Size \in Nat /\ n \in Nat /\ n + 1 = h.Size /\ h.Size < Capacity
      /\ u.stop \in Nat /\ u.stop >= 1 /\ (n > 0 => u.stop <= n) /\ u.stop \in Positions
  BY DeleteBounds
<1>1. \A j \in u.moved :
        /\ j \in Nat /\ j >= 1 /\ j < u.stop /\ 2 * j <= n
        /\ c(j) \in Nat /\ j < c(j) /\ c(j) <= n /\ c(j) \div 2 = j /\ c(j) \in Positions
  BY DeleteBounds
<1>2. 1 \in u.moved \cup {u.stop}
  BY DEF Sunk
<1>3. \A j \in u.moved : c(j) \in u.moved \cup {u.stop}
  BY DEF Sunk
<1>4. \A j \in u.moved \cup {u.stop} : j # 1 => j \div 2 \in u.moved /\ j = c(j \div 2)
  BY DEF Sunk
<1> HIDE DEF c
<1>5. \A i \in A : i \in Positions /\ i # h.Size /\ (i # 1 => i \in B)
  BY <1>0, SMT DEF Positions
<1>6. to \in [A -> B]
  <2>1. ASSUME NEW i \in A
        PROVE  (IF i = u.stop THEN h.Size ELSE IF i \in u.moved THEN c(i) ELSE i) \in B
    <3>1. h.Size \in B
      BY <1>0, SMT
    <3>2. i \in u.moved => c(i) \in B
      BY <1>0, <1>1, SMT
    <3>3. i \notin u.moved \cup {u.stop} => i \in B
      BY <1>2, <1>5
    <3> QED
      BY <3>1, <3>2, <3>3
  <2> QED
    BY <2>1
<1>7. ASSUME NEW i \in A, NEW j \in A, to[i] = to[j] PROVE i = j
  <2>1. \A k \in u.moved : c(k) # h.Size
    BY <1>0, <1>1, SMT
  <2>2. \A k, l \in u.moved : c(k) = c(l) => k = l
    BY <1>1
  <2> QED
    BY <1>3, <1>5, <1>7, <2>1, <2>2, ZenonT(30)
<1>8. ASSUME NEW k \in B PROVE \E i \in A : to[i] = k
  <2>0. (k # h.Size => k \in A) /\ k # 1
    BY <1>0, SMT
  <2>1. CASE k = h.Size
    <3>1. u.stop \in A
      BY <1>0, SMT
    <3> QED
      BY <2>1, <3>1
  <2>2. CASE k # h.Size /\ k \in u.moved \cup {u.stop}
    <3>1. k \div 2 \in u.moved /\ k = c(k \div 2)
      BY <1>4, <2>0, <2>2
    <3>2. k \div 2 \in A /\ k \div 2 # u.stop
      BY <1>0, <1>1, <3>1, SMT
    <3> QED
      BY <3>1, <3>2
  <2>3. CASE k # h.Size /\ k \notin u.moved \cup {u.stop}
    BY <2>0, <2>3
  <2> QED
    BY <2>1, <2>2, <2>3
<1>9. \A i \in A : d[i] = h.data[to[i]]
  BY <1>5 DEF Lowered, c
<1>10. IsFiniteSet(B)
  BY <1>0, FS_Interval, SMT
<1>11. Alike(d, A, h.data, B)
  <2> HIDE DEF A, B, to, d
  <2> QED
    BY <1>6, <1>7, <1>8, <1>9, <1>10, SameCount
<1>12. Gains(h.data, B \cup {1}, h.data, B, h.data[1])
  <2>1. 1 \notin B
    BY SMT
  <2> HIDE DEF B
  <2> QED
    BY <1>10, <2>1, OneMore
<1>13. B \cup {1} = 1 .. h.Size
  BY <1>0, SMT
<1>14. Gains(h.data, 1 .. h.Size, h.data, B, h.data[1])
  BY <1>12, <1>13
<1> HIDE DEF A, B, d
<1>15. Gains(h.data, 1 .. h.Size, d, A, h.data[1])
  BY <1>11, <1>14 DEF Alike, Gains
<1> QED
  BY <1>15 DEF d, A

---------------------------------------------------------------------------
(* SSTF().                                                                 *)

Dist(x, y) == Q!distance(x, y, key)

SweepBody(data, f, i) ==
  IF i = 0 THEN data
  ELSE LET d == f[i - 1]
       IN  IF Dist(d[0], d[i]) < Dist(d[0], d[1]) THEN [d EXCEPT ![i] = d[1], ![1] = d[i]] ELSE d

\* data[] after each turn of the loop.
Sweep(data) == CHOOSE f : f = [i \in 0 .. Capacity |-> SweepBody(data, f, i)]

LEMMA SstfIs ==
  ASSUME NEW data, NEW size
  PROVE  Q!SSTF(data, size, key) = IF size < 2 THEN data ELSE Sweep(data)[size - 1]
BY DEF Q!SSTF, Sweep, SweepBody, Dist

LEMMA SweepExists ==
  ASSUME NEW data, NEW N \in Nat
  PROVE  \E f : f = [i \in 0 .. N |-> SweepBody(data, f, i)]
<1> DEFINE S == {n \in Nat : \E f : f = [i \in 0 .. n |-> SweepBody(data, f, i)]}
<1>1. ASSUME NEW n \in Nat, \A m \in Nat : m < n => m \in S
      PROVE  n \in S
  <2>1. CASE n = 0
    <3> DEFINE f == [i \in 0 .. 0 |-> data]
    <3>1. ASSUME NEW i \in 0 .. 0 PROVE SweepBody(data, f, i) = data
      <4>1. i = 0
        BY SMT
      <4> QED
        BY <4>1 DEF SweepBody
    <3>2. f = [i \in 0 .. 0 |-> SweepBody(data, f, i)]
      BY <3>1
    <3> QED
      BY <2>1, <3>2
  <2>2. CASE n > 0
    <3>1. n - 1 \in Nat /\ n - 1 < n
      BY <2>2, SMT
    <3>2. PICK g : g = [i \in 0 .. n - 1 |-> SweepBody(data, g, i)]
      BY <1>1, <3>1
    <3> DEFINE f == [i \in 0 .. n |-> SweepBody(data, g, i)]
    <3>3. ASSUME NEW i \in 0 .. n PROVE SweepBody(data, f, i) = SweepBody(data, g, i)
      <4>1. CASE i # 0
        <5>1. i - 1 \in 0 .. n /\ i - 1 \in 0 .. n - 1
          BY <4>1, SMT
        <5>2. f[i - 1] = g[i - 1]
          BY <3>2, <5>1
        <5> HIDE DEF f
        <5> QED
          BY <5>2 DEF SweepBody
      <4>2. CASE i = 0
        BY <4>2 DEF SweepBody
      <4> QED
        BY <4>1, <4>2
    <3>4. f = [i \in 0 .. n |-> SweepBody(data, f, i)]
      BY <3>3
    <3> QED
      BY <3>4
  <2> QED
    BY <2>1, <2>2, SMT
<1>2. \A n \in Nat : n \in S
  <2> HIDE DEF S
  <2> QED
    BY <1>1, Induction
<1> QED
  BY <1>2

LEMMA SweepUnfolds ==
  ASSUME NEW data, NEW i \in 0 .. Capacity
  PROVE  Sweep(data)[i] = SweepBody(data, Sweep(data), i)
<1> DEFINE Solves(f) == f = [j \in 0 .. Capacity |-> SweepBody(data, f, j)]
<1>1. \E f : Solves(f)
  BY QueuesAssumption, SweepExists
<1>2. Sweep(data) = CHOOSE f : Solves(f)
  BY DEF Sweep
<1>3. Solves(Sweep(data))
  <2> HIDE DEF Solves
  <2> QED
    BY <1>1, <1>2
<1> QED
  BY <1>3

LEMMA DistType ==
  ASSUME NEW x \in Requests, NEW y \in Requests
  PROVE  Dist(x, y) \in Nat
<1>1. key[x.b] \in Nat /\ key[y.b] \in Nat
  BY KeyType
<1> QED
  BY <1>1, SMT DEF Dist, Q!distance

\* data[1] is a waiting request nearest to data[0].
Nearest(d, n) == \A j \in 1 .. n : Dist(d[0], d[1]) <= Dist(d[0], d[j])

\* After n turns of the loop over data: data[0] is where it was, data[1] is
\* the nearest so far, and the requests are the same.
Swept(data, d, n) ==
  /\ d \in Arrays /\ d[0] = data[0] /\ Nearest(d, n)
  /\ \A m \in 1 .. Capacity : m > n =>
       Alike(d, 0 .. m - 1, data, 0 .. m - 1)

\* The positions below m are finitely many.
LEMMA BelowFinite ==
  ASSUME NEW m \in Int
  PROVE  IsFiniteSet(0 .. m - 1)
BY FS_Interval, SMT

\* A swap moves no request out of an interval that holds both.
LEMMA SwapCount ==
  ASSUME NEW d, NEW e, NEW i \in Positions, NEW k \in Positions,
         NEW m \in 1 .. Capacity, i < m, k < m,
         e[i] = d[k], e[k] = d[i], \A j \in Positions : j # i /\ j # k => e[j] = d[j]
  PROVE  Alike(e, 0 .. m - 1, d, 0 .. m - 1)
<1> DEFINE A == 0 .. m - 1
           to == [j \in A |-> IF j = i THEN k ELSE IF j = k THEN i ELSE j]
<1>0. Capacity \in Nat /\ m \in Nat /\ m \in Int
  BY QueuesAssumption, SMT
<1>1. i \in A /\ k \in A
  BY <1>0, SMT DEF Positions
<1>2. to \in [A -> A]
  BY <1>1
<1>3. \A j, l \in A : to[j] = to[l] => j = l
  OBVIOUS
<1>4. \A l \in A : \E j \in A : to[j] = l
  BY <1>1
<1>5. \A j \in A : j \in Positions
  BY <1>0, SMT DEF Positions
<1>6. \A j \in A : e[j] = d[to[j]]
  BY <1>5
<1>7. IsFiniteSet(A)
  BY <1>0, BelowFinite
<1> HIDE DEF A, to
<1>8. Alike(e, A, d, A)
  BY <1>2, <1>3, <1>4, <1>6, <1>7, SameCount
<1> QED
  BY <1>8 DEF A

LEMMA Sweeps ==
  ASSUME NEW data \in Arrays, NEW n \in Positions
  PROVE  Swept(data, Sweep(data)[n], n)
<1> DEFINE F == Sweep(data)
           S == {m \in Nat : m < Capacity => Swept(data, F[m], m)}
<1>0. Capacity \in Nat /\ Capacity > 0
  BY QueuesAssumption, SMT
<1>1. ASSUME NEW m \in Nat, \A k \in Nat : k < m => k \in S, m < Capacity
      PROVE  Swept(data, F[m], m)
  <2> DEFINE d == F[m - 1]
             e == F[m]
  <2>0. m \in 0 .. Capacity /\ m \in Positions /\ 0 \in Positions
    BY <1>0, <1>1, SMT DEF Positions
  <2>1. e = SweepBody(data, F, m)
    BY <2>0, SweepUnfolds
  <2>2. CASE m = 0
    <3>1. e = data
      BY <2>1, <2>2 DEF SweepBody
    <3>2. ASSUME NEW j \in 1 .. 0 PROVE FALSE
      BY SMT
    <3> QED
      BY <2>2, <3>1, <3>2 DEF Swept, Nearest, Alike
  <2>3. CASE m # 0
    <3>0. m - 1 \in Nat /\ m - 1 < m /\ m - 1 < Capacity /\ 1 \in Positions
      BY <1>0, <1>1, <2>3, SMT DEF Positions
    <3>1. Swept(data, d, m - 1)
      BY <1>1, <3>0
    <3>2. e = IF Dist(d[0], d[m]) < Dist(d[0], d[1]) THEN [d EXCEPT ![m] = d[1], ![1] = d[m]] ELSE d
      BY <2>1, <2>3 DEF SweepBody
    <3> HIDE DEF d, e, F
    <3>3. d \in Arrays /\ d[0] = data[0] /\ \A j \in 1 .. m - 1 : Dist(d[0], d[1]) <= Dist(d[0], d[j])
      BY <3>1 DEF Swept, Nearest
    <3>4. \A j \in Positions : d[j] \in Requests /\ Dist(d[0], d[j]) \in Nat
      BY <2>0, <3>3, DistType DEF Arrays
    <3>5. CASE Dist(d[0], d[m]) < Dist(d[0], d[1])
      <4>1. m # 1 /\ 0 # m /\ 0 # 1
        BY <2>0, <2>3, <3>0, <3>4, <3>5, SMT
      <4>2. e = [d EXCEPT ![m] = d[1], ![1] = d[m]]
        BY <3>2, <3>5
      <4>3. e \in Arrays /\ e[0] = d[0] /\ e[1] = d[m] /\ e[m] = d[1]
            /\ \A j \in Positions : j # 1 /\ j # m => e[j] = d[j]
        BY <2>0, <3>0, <3>3, <3>4, <4>1, <4>2 DEF Arrays
      <4>4. ASSUME NEW j \in 1 .. m PROVE Dist(e[0], e[1]) <= Dist(e[0], e[j])
        <5>0. j \in Positions /\ (j # m => j \in 1 .. m - 1)
          BY <1>0, <1>1, SMT DEF Positions
        <5>1. CASE j = 1
          BY <2>0, <3>4, <4>3, <5>1, SMT
        <5>2. CASE j = m
          BY <2>0, <3>0, <3>4, <3>5, <4>3, <5>2, SMT
        <5>3. CASE j # 1 /\ j # m
          <6>1. Dist(d[0], d[1]) <= Dist(d[0], d[j]) /\ e[j] = d[j]
            BY <3>3, <4>3, <5>0, <5>3
          <6> QED
            BY <2>0, <3>0, <3>4, <3>5, <4>3, <5>0, <6>1, SMT
        <5> QED
          BY <5>1, <5>2, <5>3
      <4>5. ASSUME NEW k \in 1 .. Capacity, k > m
            PROVE  Alike(e, 0 .. k - 1, data, 0 .. k - 1)
        <5>1. 1 < k /\ m < k /\ k > m - 1
          BY <1>1, <3>0, <4>1, <4>5, SMT
        <5>2. Alike(e, 0 .. k - 1, d, 0 .. k - 1)
          BY <2>0, <3>0, <4>3, <5>1, SwapCount
        <5>3. Alike(d, 0 .. k - 1, data, 0 .. k - 1)
          BY <3>1, <5>1 DEF Swept
        <5> QED
          BY <5>2, <5>3 DEF Alike
      <4> QED
        BY <3>3, <4>3, <4>4, <4>5 DEF Swept, Nearest, e
    <3>6. CASE ~(Dist(d[0], d[m]) < Dist(d[0], d[1]))
      <4>1. e = d
        BY <3>2, <3>6
      <4>2. ASSUME NEW j \in 1 .. m PROVE Dist(d[0], d[1]) <= Dist(d[0], d[j])
        <5>1. j # m => j \in 1 .. m - 1
          BY <1>1, SMT
        <5>2. CASE j = m
          BY <2>0, <3>0, <3>4, <3>6, <5>2, SMT
        <5> QED
          BY <3>3, <5>1, <5>2
      <4>3. ASSUME NEW k \in 1 .. Capacity, k > m PROVE k > m - 1
        BY <1>0, <1>1, <4>3, SMT
      <4> QED
        BY <3>1, <4>1, <4>2, <4>3 DEF Swept, Nearest, e
    <3> QED
      BY <3>5, <3>6
  <2> QED
    BY <2>2, <2>3
<1>2. \A m \in Nat : m \in S
  <2>1. \A m \in Nat : (\A k \in Nat : k < m => k \in S) => m \in S
    BY <1>1
  <2> HIDE DEF S
  <2> QED
    BY <2>1, Induction
<1>3. n \in Nat /\ n < Capacity
  BY <1>0, SMT DEF Positions
<1> QED
  BY <1>2, <1>3

\* SSTF() on a queue of that size.
Arranged(d, data, size) ==
  /\ d \in Arrays /\ d[0] = data[0] /\ Nearest(d, size - 1)
  /\ Alike(d, 0 .. size - 1, data, 0 .. size - 1)

LEMMA Sstf ==
  ASSUME NEW data \in Arrays, NEW size \in 0 .. Capacity
  PROVE  Arranged(Q!SSTF(data, size, key), data, size)
<1> DEFINE d == Q!SSTF(data, size, key)
<1>0. Capacity \in Nat /\ 0 \in Positions
  BY QueuesAssumption, SMT DEF Positions
<1>1. CASE size < 2
  <2>1. d = data
    BY <1>1, SstfIs
  <2>2. ASSUME NEW j \in 1 .. size - 1 PROVE j = 1
    BY <1>0, <1>1, SMT
  <2>3. Nearest(data, size - 1)
    <3>1. ASSUME NEW j \in 1 .. size - 1 PROVE Dist(data[0], data[1]) <= Dist(data[0], data[j])
      <4>1. j = 1 /\ 1 \in Positions
        BY <1>0, <2>2, SMT DEF Positions
      <4>2. Dist(data[0], data[1]) \in Nat
        BY <1>0, <4>1, DistType DEF Arrays
      <4> QED
        BY <4>1, <4>2, SMT
    <3> QED
      BY <3>1 DEF Nearest
  <2> QED
    BY <2>1, <2>3 DEF Alike, Arranged
<1>2. CASE ~(size < 2)
  <2>1. size - 1 \in Positions /\ size \in 1 .. Capacity /\ size > size - 1
    BY <1>0, <1>2, SMT DEF Positions
  <2>2. d = Sweep(data)[size - 1]
    BY <1>2, SstfIs
  <2>3. Swept(data, d, size - 1)
    BY <2>1, <2>2, Sweeps
  <2> HIDE DEF d
  <2>4. d \in Arrays /\ d[0] = data[0] /\ Nearest(d, size - 1)
        /\ Alike(d, 0 .. size - 1, data, 0 .. size - 1)
    BY <2>1, <2>3 DEF Swept
  <2> QED
    BY <2>4 DEF d, Arranged
<1> QED
  BY <1>1, <1>2

\* A queue as the operations find it.
QueueType(q) ==
  q.data \in Arrays /\ q.size \in -1 .. Capacity /\ Nearest(q.data, q.size - 1)

\* An arrival adds its request and leaves data[0] alone.
LEMMA Enqueues ==
  ASSUME NEW q, QueueType(q), q.size >= 0, q.size < Capacity, NEW x \in Requests
  PROVE  LET r == Q!enqueue(q, x, key) IN
         /\ r.fault = "none" /\ QueueType(r.queue) /\ r.queue.size = q.size + 1
         /\ q.size > 0 => r.queue.data[0] = q.data[0]
         /\ Gains(r.queue.data, 0 .. q.size, q.data, 0 .. q.size - 1, x)
<1> DEFINE r == Q!enqueue(q, x, key)
           n == q.size
           e == [q.data EXCEPT ![n] = x]
           d == Q!SSTF(e, n + 1, key)
<1>0. /\ Capacity \in Nat /\ n \in Nat /\ n \in Positions /\ n + 1 \in 0 .. Capacity /\ n # Capacity
      /\ n + 1 \in -1 .. Capacity /\ ~(n < 0) /\ 0 \in Positions /\ (n + 1) - 1 = n /\ q.data \in Arrays
  BY QueuesAssumption, SMT DEF QueueType, Positions
<1>1. r.queue.data = d /\ r.queue.size = n + 1 /\ r.fault = "none"
  BY <1>0 DEF Q!enqueue
<1>2. e \in Arrays /\ e[n] = x /\ \A i \in Positions : i # n => e[i] = q.data[i]
  BY <1>0 DEF Arrays
<1> HIDE DEF e
<1>3. d \in Arrays /\ d[0] = e[0] /\ Nearest(d, n) /\ Alike(d, 0 .. n, e, 0 .. n)
  <2>1. Arranged(d, e, n + 1)
    BY <1>0, <1>2, Sstf
  <2>2. (n + 1) - 1 = n
    BY <1>0
  <2> HIDE DEF d
  <2>3. /\ d \in Arrays /\ d[0] = e[0] /\ Nearest(d, (n + 1) - 1)
        /\ Alike(d, 0 .. (n + 1) - 1, e, 0 .. (n + 1) - 1)
    BY <2>1 DEF Arranged
  <2> QED
    BY <2>2, <2>3
<1> HIDE DEF d, r
<1>4. QueueType(r.queue)
  <2>0. r.queue.size - 1 = n
    BY <1>0, <1>1, SMT
  <2>1. Nearest(r.queue.data, r.queue.size - 1)
    BY <1>1, <1>3, <2>0
  <2> QED
    BY <1>0, <1>1, <1>3, <2>1 DEF QueueType
<1>5. n > 0 => r.queue.data[0] = q.data[0]
  <2>1. n > 0 => 0 # n
    BY <1>0, SMT
  <2> QED
    BY <1>0, <1>1, <1>2, <1>3, <2>1
<1>6. Gains(r.queue.data, 0 .. n, q.data, 0 .. n - 1, x)
  <2> DEFINE A == 0 .. n - 1
  <2>1. IsFiniteSet(A)
    BY <1>0, FS_Interval, SMTT(30)
  <2>2. n \notin A /\ \A i \in A : i \in Positions
    BY <1>0, SMT DEF Positions
  <2>3. A \cup {n} = 0 .. n
    BY <1>0, SMT
  <2>4. \A y : Where(e, A, y) = Where(q.data, A, y)
    BY <1>2, <2>2 DEF Where
  <2> HIDE DEF A
  <2>5. Gains(e, A \cup {n}, e, A, e[n])
    BY <2>1, <2>2, OneMore
  <2>6. Gains(e, 0 .. n, e, A, x)
    BY <1>2, <2>3, <2>5
  <2>7. Gains(e, 0 .. n, q.data, A, x)
    BY <2>4, <2>6 DEF Gains
  <2>8. Gains(d, 0 .. n, q.data, A, x)
    BY <1>3, <2>7 DEF Gains, Alike
  <2> QED
    BY <1>1, <2>8 DEF A
<1> QED
  BY <1>1, <1>4, <1>5, <1>6 DEF r

\* A completion takes data[0] out, and the next to be served was data[1].
LEMMA Dequeues ==
  ASSUME NEW q, QueueType(q), q.size > 0
  PROVE  LET r == Q!dequeue(q, key) IN
         /\ QueueType(r) /\ r.size = q.size - 1
         /\ r.size > 0 => r.data[0] = q.data[1]
         /\ Gains(q.data, 0 .. q.size - 1, r.data, 0 .. r.size - 1, q.data[0])
<1> DEFINE r == Q!dequeue(q, key)
           n == q.size
           e == [i \in Positions |-> IF i < n - 1 THEN q.data[i + 1] ELSE q.data[i]]
           d == Q!SSTF(e, n - 1, key)
<1>0. /\ Capacity \in Nat /\ n \in Nat /\ n - 1 \in Nat /\ n - 1 \in 0 .. Capacity
      /\ n - 1 \in -1 .. Capacity
      /\ 0 \in Positions /\ q.data \in Arrays /\ 0 + 1 = 1
  BY QueuesAssumption, SMT DEF QueueType, Positions
<1>1. r.data = d /\ r.size = n - 1
  BY DEF Q!dequeue, Positions
<1>2. e \in Arrays
  <2>1. ASSUME NEW i \in Positions PROVE e[i] \in Requests
    <3>1. i < n - 1 => i + 1 \in Positions
      BY <1>0, SMT DEF Positions, QueueType
    <3> QED
      BY <1>0, <3>1 DEF Arrays
  <2> QED
    BY <2>1 DEF Arrays
<1>3. /\ d \in Arrays /\ d[0] = e[0] /\ Nearest(d, n - 1 - 1)
      /\ Alike(d, 0 .. n - 1 - 1, e, 0 .. n - 1 - 1)
  <2> HIDE DEF e
  <2>1. Arranged(d, e, n - 1)
    BY <1>0, <1>2, Sstf
  <2> HIDE DEF d
  <2> QED
    BY <2>1 DEF Arranged
<1> HIDE DEF d, r
<1>4. QueueType(r)
  BY <1>0, <1>1, <1>3 DEF QueueType
<1>5. n - 1 > 0 => r.data[0] = q.data[1]
  <2>1. n - 1 > 0 => 0 < n - 1
    BY <1>0, SMT
  <2> QED
    BY <1>0, <1>1, <1>3, <2>1
<1>6. Gains(q.data, 0 .. n - 1, r.data, 0 .. r.size - 1, q.data[0])
  <2> DEFINE A == 0 .. n - 1 - 1
             B == 1 .. n - 1
             to == [i \in A |-> i + 1]
  <2>1. IsFiniteSet(B)
    BY <1>0, FS_Interval, SMT
  <2>2. to \in [A -> B]
    <3>1. \A i \in A : i + 1 \in B
      BY <1>0, SMT
    <3> QED
      BY <3>1
  <2>3. \A i, j \in A : to[i] = to[j] => i = j
    <3>1. \A i, j \in A : i + 1 = j + 1 => i = j
      BY <1>0, SMT
    <3> QED
      BY <3>1
  <2>4. \A k \in B : \E i \in A : to[i] = k
    <3>1. \A k \in B : k - 1 \in A /\ k - 1 + 1 = k
      BY <1>0, SMT
    <3> QED
      BY <3>1
  <2>5. \A i \in A : e[i] = q.data[to[i]]
    <3>1. \A i \in A : i \in Positions /\ i < n - 1
      BY <1>0, SMT DEF Positions, QueueType
    <3> QED
      BY <3>1
  <2>6. 0 \notin B /\ B \cup {0} = 0 .. n - 1
    BY <1>0, SMT
  <2> HIDE DEF A, B, to, e
  <2>7. Alike(e, A, q.data, B)
    BY <2>1, <2>2, <2>3, <2>4, <2>5, SameCount
  <2>8. Gains(q.data, B \cup {0}, q.data, B, q.data[0])
    BY <2>1, <2>6, OneMore
  <2>9. Gains(q.data, 0 .. n - 1, q.data, B, q.data[0])
    BY <2>6, <2>8
  <2>10. Gains(q.data, 0 .. n - 1, e, A, q.data[0])
    BY <2>7, <2>9 DEF Gains, Alike
  <2>11. Alike(d, A, e, A)
    BY <1>3 DEF A
  <2>12. Gains(q.data, 0 .. n - 1, d, A, q.data[0])
    BY <2>10, <2>11 DEF Gains, Alike
  <2> QED
    BY <1>1, <2>12 DEF A
<1> QED
  BY <1>1, <1>4, <1>5, <1>6 DEF r

\* A completion that finds the queue empty: only size changes.
LEMMA DequeuesNone ==
  ASSUME NEW q, QueueType(q), q.size = 0
  PROVE  QueueType(Q!dequeue(q, key)) /\ Q!dequeue(q, key).size = -1
<1> DEFINE e == [i \in Positions |-> IF i < q.size - 1 THEN q.data[i + 1] ELSE q.data[i]]
           r == Q!dequeue(q, key)
<1>1. /\ Capacity \in Nat /\ q.size - 1 = -1 /\ q.size - 1 < 2 /\ -1 \in -1 .. Capacity
      /\ \A i \in Positions : ~(i < q.size - 1)
  BY QueuesAssumption, SMT DEF Positions
<1>2. e = q.data /\ q.data \in Arrays
  BY <1>1 DEF Arrays, QueueType
<1>3. r = [data |-> Q!SSTF(e, q.size - 1, key), size |-> q.size - 1]
  BY DEF Q!dequeue, Positions
<1>4. Q!SSTF(e, q.size - 1, key) = e
  BY <1>1, SstfIs
<1> HIDE DEF e, r
<1>5. r.data = q.data /\ r.size = -1
  BY <1>1, <1>2, <1>3, <1>4
<1>6. \A i \in 1 .. -1 - 1 : FALSE
  BY SMT
<1> QED
  BY <1>1, <1>2, <1>5, <1>6 DEF QueueType, Nearest, r

---------------------------------------------------------------------------
(* The operations as the system takes them.                                *)

\* What an operation on the heap leaves.
HeapFine(g, size, h) == HeapType(g) /\ Ordered(g) /\ g.Size = size /\ g.data[0] = h.data[0]

\* An insertion into the heap.
LEMMA Inserts ==
  ASSUME NEW h, HeapType(h), Ordered(h), NEW x \in Requests, h.Size >= 0
  PROVE  LET r == insertMinHeap(h, x, key) IN
         \/ r.fault # "none" /\ (r.heap.Size = Capacity \/ Entry(h, 0) > key[x.b])
         \/ /\ r.fault = "none" /\ HeapFine(r.heap, h.Size + 1, h)
            /\ Gains(r.heap.data, 1 .. h.Size + 1, h.data, 1 .. h.Size, x)
<1> DEFINE r == insertMinHeap(h, x, key)
           u == Climb(h, x, key)[h.Size + 1]
           g == [data |-> Raised(h, x, u), Size |-> h.Size + 1]
<1>1. h.Size + 1 \in 0 .. Capacity /\ h.Size + 1 \in 1 .. Capacity
  BY QueuesAssumption, SMT DEF HeapType
<1>2. Climbed(h, x, u, h.Size + 1)
  BY <1>1, Climbs
<1>3. \/ r.fault # "none" /\ (r.heap.Size = Capacity \/ Entry(h, 0) > key[x.b])
      \/ /\ h.Size < Capacity - 1 /\ ~(u.stop = 0 /\ Entry(h, 0) > key[x.b])
         /\ r = [heap |-> g, fault |-> "none"]
  BY InsertIs
<1> HIDE DEF u, r
<1> SUFFICES ASSUME h.Size < Capacity - 1, ~(u.stop = 0 /\ Entry(h, 0) > key[x.b]),
                    r = [heap |-> g, fault |-> "none"]
             PROVE  /\ r.fault = "none" /\ HeapFine(r.heap, h.Size + 1, h)
                    /\ Gains(r.heap.data, 1 .. h.Size + 1, h.data, 1 .. h.Size, x)
  BY <1>3 DEF r
<1>4. u.stop # 0
  BY <1>1, <1>2, StopsBelow
<1>5. HeapType(g) /\ Ordered(g) /\ g.data[0] = h.data[0]
  BY <1>2, <1>4, InsertOrdered
<1>6. Gains(Raised(h, x, u), 1 .. h.Size + 1, h.data, 1 .. h.Size, x)
  BY <1>2, <1>4, InsertCounts
<1>7. r.heap = g /\ r.fault = "none"
  <2> HIDE DEF g
  <2> QED
    OBVIOUS
<1>8. g.data = Raised(h, x, u) /\ g.Size = h.Size + 1
  OBVIOUS
<1> HIDE DEF g
<1> QED
  BY <1>5, <1>6, <1>7, <1>8 DEF HeapFine

\* An insertion after the deletion from an empty heap: x takes the place of
\* the sentinel.
LEMMA InsertsBelow ==
  ASSUME NEW h, HeapType(h), NEW x \in Requests, ~(h.Size >= 0)
  PROVE  LET r == insertMinHeap(h, x, key) IN
         r.fault = "none" => HeapType(r.heap) /\ Ordered(r.heap) /\ r.heap.Size = 0
<1> DEFINE r == insertMinHeap(h, x, key)
           u == Climb(h, x, key)[h.Size + 1]
           g == [data |-> Raised(h, x, u), Size |-> h.Size + 1]
<1>1. Capacity \in Nat /\ 0 < Capacity /\ h.Size + 1 = 0 /\ 0 \in 0 .. Capacity /\ 0 \in -1 .. Capacity - 1
  BY QueuesAssumption, SMT DEF HeapType
<1>2. Climbed(h, x, u, 0)
  BY <1>1, Climbs
<1> SUFFICES ASSUME r.fault = "none" PROVE HeapType(r.heap) /\ Ordered(r.heap) /\ r.heap.Size = 0
  OBVIOUS
<1>3. r = [heap |-> g, fault |-> "none"]
  BY InsertIs
<1> HIDE DEF u, r
<1>4. r.heap = g
  <2> HIDE DEF g
  <2> QED
    BY <1>3
<1>5. g.data = Raised(h, x, u) /\ g.Size = 0
  BY <1>1
<1>6. \A i \in u.moved : FALSE
  <2>1. \A i \in u.moved : i \in u.stop + 1 .. 0
    BY <1>2 DEF Climbed
  <2>2. u.stop \in 0 .. 0
    BY <1>2 DEF Climbed
  <2> QED
    BY <2>1, <2>2, SMT
<1>7. g.data \in Arrays
  <2>1. ASSUME NEW i \in Positions PROVE Raised(h, x, u)[i] \in Requests
    BY <1>6, EntryType DEF Raised
  <2>2. Raised(h, x, u) = [i \in Positions |-> Raised(h, x, u)[i]]
    BY DEF Raised
  <2> QED
    BY <1>5, <2>1, <2>2 DEF Arrays
<1>8. \A i \in 2 .. 0 : FALSE
  BY SMT
<1> HIDE DEF g
<1> QED
  BY <1>1, <1>4, <1>5, <1>7, <1>8 DEF HeapType, Ordered

\* A deletion of data[1] from the heap.
LEMMA Deletes ==
  ASSUME NEW h, HeapType(h), Ordered(h), h.Size > 0
  PROVE  LET r == deleteFromMinHeap(h, key) IN
         /\ r.fault = "none" /\ HeapFine(r.heap, h.Size - 1, h)
         /\ Gains(h.data, 1 .. h.Size, r.heap.data, 1 .. h.Size - 1, h.data[1])
<1> DEFINE r == deleteFromMinHeap(h, key)
           n == h.Size - 1
           last == h.data[h.Size]
           u == Sink(h, n, last, key)[1]
           g == [data |-> Lowered(h, n, last, u), Size |-> n]
<1>1. n \in Int /\ n < Capacity /\ 1 \in 1 .. Capacity /\ h.Size >= 0
  BY QueuesAssumption, SMT DEF HeapType
<1>2. Sunk(h, n, last, u, 1)
  BY <1>1, Sinks
<1>3. r = [heap |-> g, fault |-> "none"]
  BY <1>1, DeleteIs
<1> HIDE DEF u, r
<1>4. HeapType(g) /\ Ordered(g) /\ g.data[0] = h.data[0]
  BY <1>2, DeleteOrdered
<1>5. Gains(h.data, 1 .. h.Size, Lowered(h, n, last, u), 1 .. n, h.data[1])
  BY <1>2, DeleteCounts
<1>6. r.heap = g /\ r.fault = "none"
  <2> HIDE DEF g
  <2> QED
    BY <1>3
<1>7. g.data = Lowered(h, n, last, u) /\ g.Size = n
  OBVIOUS
<1> HIDE DEF g
<1> QED
  BY <1>4, <1>5, <1>6, <1>7 DEF r, HeapFine

\* A deletion from an empty heap: the sentinel is copied to data[1] and Size
\* becomes -1.
LEMMA DeletesNone ==
  ASSUME NEW h, HeapType(h), h.Size = 0
  PROVE  LET r == deleteFromMinHeap(h, key) IN
         r.fault = "none" /\ HeapType(r.heap) /\ Ordered(r.heap) /\ r.heap.Size = -1
<1> DEFINE r == deleteFromMinHeap(h, key)
           n == h.Size - 1
           last == h.data[h.Size]
           u == Sink(h, n, last, key)[1]
           g == [data |-> Lowered(h, n, last, u), Size |-> n]
<1>1. /\ n \in Int /\ n < Capacity /\ n = -1 /\ n \in -1 .. Capacity - 1
      /\ 1 \in 1 .. Capacity /\ h.Size >= 0 /\ h.Size \in Positions
  BY QueuesAssumption, SMT DEF HeapType, Positions
<1>2. Sunk(h, n, last, u, 1)
  BY <1>1, Sinks
<1>3. r = [heap |-> g, fault |-> "none"]
  BY <1>1, DeleteIs
<1> HIDE DEF u, r
<1>4. r.heap = g /\ r.fault = "none"
  <2> HIDE DEF g
  <2> QED
    BY <1>3
<1>5. g.data = Lowered(h, n, last, u) /\ g.Size = n
  OBVIOUS
<1>6. \A j \in u.moved : FALSE
  <2>1. \A j \in u.moved : j \in Nat /\ 1 <= j /\ 2 * j <= n
    BY <1>2 DEF Sunk
  <2> QED
    BY <1>1, <2>1, SMT
<1>7. g.data \in Arrays
  <2>1. last \in Requests
    BY <1>1, EntryType
  <2> HIDE DEF last
  <2>2. ASSUME NEW i \in Positions PROVE Lowered(h, n, last, u)[i] \in Requests
    BY <1>6, <2>1, EntryType DEF Lowered
  <2>3. Lowered(h, n, last, u) = [i \in Positions |-> Lowered(h, n, last, u)[i]]
    BY DEF Lowered
  <2> QED
    BY <1>5, <2>2, <2>3 DEF Arrays
<1>8. \A i \in 2 .. -1 : FALSE
  BY SMT
<1> HIDE DEF g
<1> QED
  BY <1>1, <1>4, <1>5, <1>7, <1>8 DEF r, HeapType, Ordered

\* What Gains says of the counts the properties compare.
OneApart(p, r, x) == p = [r EXCEPT ![x] = @ + 1] /\ r = [p EXCEPT ![x] = @ - 1]

LEMMA CountGains ==
  ASSUME NEW d, NEW A, NEW e, NEW B, NEW x \in Requests, Gains(d, A, e, B, x)
  PROVE  OneApart(Count(d, A), Count(e, B), x)
<1> DEFINE P == Count(d, A)
           R == Count(e, B)
<1>1. ASSUME NEW y \in Requests PROVE R[y] \in Nat /\ P[y] = R[y] + One(x, y)
  BY DEF Gains, Count, Where
<1>2. P = [y \in Requests |-> P[y]] /\ R = [y \in Requests |-> R[y]]
  BY DEF Count
<1> HIDE DEF P, R
<1>3. ASSUME NEW y \in Requests
      PROVE  /\ P[y] = IF y = x THEN R[x] + 1 ELSE R[y]
             /\ R[y] = IF y = x THEN P[x] - 1 ELSE P[y]
  BY <1>1, SMT DEF One
<1>4. P = [R EXCEPT ![x] = R[x] + 1]
  BY <1>2, <1>3
<1>5. R = [P EXCEPT ![x] = P[x] - 1]
  BY <1>2, <1>3
<1> QED
  BY <1>4, <1>5 DEF P, R, OneApart

LEMMA CountNone ==
  ASSUME NEW d
  PROVE  Count(d, {}) = [x \in Requests |-> 0]
<1>1. ASSUME NEW x \in Requests PROVE Cardinality({i \in {} : d[i] = x}) = 0
  <2>1. {i \in {} : d[i] = x} = {}
    OBVIOUS
  <2> QED
    BY <2>1, FS_EmptySet
<1> QED
  BY <1>1 DEF Count

\* Seek() is the distance SSTF() compares.
LEMMA SeekIs ==
  ASSUME NEW x \in Requests, NEW y \in Requests
  PROVE  Seek(x, y) = Dist(x, y)
<1> DEFINE a == x.b
           b == y.b
<1>1. a \in Nat /\ b \in Nat /\ key[x.b] = a /\ key[y.b] = b
  BY KeyType
<1>2. Dist(x, y) = IF a - b >= 0 THEN a - b ELSE -(a - b)
  BY <1>1 DEF Dist, Q!distance
<1> HIDE DEF a, b
<1>3. Cardinality(a .. b - 1) = IF a > b - 1 THEN 0 ELSE b - 1 - a + 1
  BY <1>1, FS_Interval, SMT
<1>4. Cardinality(b .. a - 1) = IF b > a - 1 THEN 0 ELSE a - 1 - b + 1
  BY <1>1, FS_Interval, SMT
<1>5. Cardinality(a .. b - 1) + Cardinality(b .. a - 1) = IF a - b >= 0 THEN a - b ELSE -(a - b)
  BY <1>1, <1>3, <1>4, SMT
<1> QED
  BY <1>2, <1>5 DEF Seek, a, b

---------------------------------------------------------------------------
(* The invariant and the theorems.                                         *)

\* As long as nothing has gone wrong, both are well formed and hold what they
\* have been given; the sentinel is in its place until a completion has found
\* its queue empty, and up to then nothing but a full data[] goes wrong.
QInv ==
  /\ fault = "none" =>
       /\ HeapType(heap) /\ Ordered(heap) /\ heapDue = HeapElements
       /\ QueueType(queue) /\ sstfDue = SstfElements
       /\ ~early => heap.Size >= 0 /\ heap.data[0] = Nothing /\ queue.size >= 0
  /\ FaultsExplained

\* The empty heap and the empty queue.
LEMMA QueuesInitial == QueuesInit => QInv
<1> DEFINE d == [i \in Positions |-> Nothing]
<1> SUFFICES ASSUME QueuesInit PROVE QInv
  OBVIOUS
<1>1. /\ heap.data = d /\ heap.Size = 0 /\ queue.data = d /\ queue.size = 0 /\ fault = "none"
      /\ heapDue = [x \in Requests |-> 0] /\ sstfDue = [x \in Requests |-> 0]
  BY DEF QueuesInit, Positions
<1>2. Nothing \in Requests
  BY QueuesAssumption DEF Nothing, Requests
<1>3. 0 \in Positions /\ 0 \in -1 .. Capacity - 1 /\ 0 \in -1 .. Capacity /\ 0 >= 0
  BY QueuesAssumption, SMT DEF Positions
<1>4. d \in Arrays /\ d[0] = Nothing
  BY <1>2, <1>3 DEF Arrays
<1>5. (\A i \in 2 .. 0 : FALSE) /\ (\A i \in 1 .. 0 - 1 : FALSE)
  BY SMT
<1> HIDE DEF d
<1>6. HeapType(heap) /\ Ordered(heap)
  BY <1>1, <1>3, <1>4, <1>5 DEF HeapType, Ordered
<1>7. QueueType(queue)
  BY <1>1, <1>3, <1>4, <1>5 DEF QueueType, Nearest
<1>8. heapDue = HeapElements /\ sstfDue = SstfElements
  <2>1. 1 .. 0 = {} /\ 0 .. 0 - 1 = {}
    BY SMT
  <2>2. \A e : Count(e, {}) = [x \in Requests |-> 0]
    BY CountNone
  <2> QED
    BY <1>1, <2>1, <2>2 DEF HeapElements, SstfElements
<1> QED
  BY <1>1, <1>3, <1>4, <1>6, <1>7, <1>8 DEF QInv, FaultsExplained

\* An arrival in the heap.
LEMMA HeapArrives ==
  ASSUME QInv, fault = "none", NEW x \in Requests, HeapArrive(x)
  PROVE  QInv' /\ queue' = queue
<1> DEFINE r == insertMinHeap(heap, x, key)
<1>1. /\ heap' = r.heap /\ fault' = r.fault /\ queue' = queue /\ sstfDue' = sstfDue /\ early' = early
      /\ heapDue' = IF heap.Size < 0 THEN heapDue ELSE [heapDue EXCEPT ![x] = @ + 1]
  BY DEF HeapArrive, sstfVars
<1>2. /\ HeapType(heap) /\ Ordered(heap) /\ heapDue = HeapElements
      /\ QueueType(queue) /\ sstfDue = SstfElements
      /\ ~early => heap.Size >= 0 /\ heap.data[0] = Nothing /\ queue.size >= 0
  BY DEF QInv
<1>3. /\ heap.Size < 0 <=> ~(heap.Size >= 0)
      /\ ~(heap.Size >= 0) => 1 .. heap.Size = {}
      /\ 1 .. 0 = {}
  BY <1>2, QueuesAssumption, SMT DEF HeapType
<1>4. SstfElements' = SstfElements
  BY <1>1 DEF SstfElements
<1>5. CASE heap.Size >= 0
  <2>1. \/ r.fault # "none" /\ (r.heap.Size = Capacity \/ Entry(heap, 0) > key[x.b])
        \/ /\ r.fault = "none" /\ HeapFine(r.heap, heap.Size + 1, heap)
           /\ Gains(r.heap.data, 1 .. heap.Size + 1, heap.data, 1 .. heap.Size, x)
    BY <1>2, <1>5, Inserts
  <2> HIDE DEF r
  <2>2. CASE r.fault # "none" /\ (r.heap.Size = Capacity \/ Entry(heap, 0) > key[x.b])
    <3>1. ~early => Entry(heap, 0) = 0
      <4>1. Nothing \in Requests /\ Nothing.b = 0
        BY QueuesAssumption DEF Requests, Nothing
      <4> QED
        BY <1>2, <4>1, KeyType DEF Entry
    <3>2. key[x.b] \in Nat
      BY KeyType
    <3>3. ~(0 > key[x.b])
      BY <3>2, SMT
    <3>4. early \/ r.heap.Size = Capacity
      BY <2>2, <3>1, <3>3
    <3> QED
      BY <1>1, <2>2, <3>4 DEF QInv, FaultsExplained
  <2>3. CASE /\ r.fault = "none" /\ HeapFine(r.heap, heap.Size + 1, heap)
             /\ Gains(r.heap.data, 1 .. heap.Size + 1, heap.data, 1 .. heap.Size, x)
    <3>1. OneApart(Count(r.heap.data, 1 .. heap.Size + 1), Count(heap.data, 1 .. heap.Size), x)
      BY <2>3, CountGains
    <3>2. heapDue' = HeapElements'
      BY <1>1, <1>2, <1>3, <1>5, <2>3, <3>1 DEF HeapElements, OneApart, HeapFine
    <3>3. heap.Size + 1 >= 0
      BY <1>2, <1>5, QueuesAssumption, SMT DEF HeapType
    <3> QED
      BY <1>1, <1>2, <1>4, <2>3, <3>2, <3>3 DEF QInv, FaultsExplained, HeapFine
  <2> QED
    BY <2>1, <2>2, <2>3
<1>6. CASE ~(heap.Size >= 0)
  <2>1. early
    BY <1>2, <1>6
  <2>2. r.fault = "none" => HeapType(r.heap) /\ Ordered(r.heap) /\ r.heap.Size = 0
    BY <1>2, <1>6, InsertsBelow
  <2> HIDE DEF r
  <2>3. r.fault = "none" => HeapElements' = HeapElements
    BY <1>1, <1>3, <1>6, <2>2, CountNone DEF HeapElements
  <2> QED
    BY <1>1, <1>2, <1>3, <1>4, <1>6, <2>1, <2>2, <2>3 DEF QInv, FaultsExplained
<1> QED
  BY <1>1, <1>5, <1>6

\* A completion in the cfq mode.
LEMMA HeapCompletes ==
  ASSUME QInv, fault = "none", HeapComplete
  PROVE  QInv' /\ queue' = queue
<1> DEFINE r == deleteFromMinHeap(heap, key)
<1>1. /\ heap' = r.heap /\ fault' = r.fault /\ queue' = queue /\ sstfDue' = sstfDue
      /\ early' = (early \/ heap.Size <= 0)
      /\ heapDue' = IF heap.Size > 0 THEN [heapDue EXCEPT ![heap.data[1]] = @ - 1] ELSE heapDue
  BY DEF HeapComplete, sstfVars
<1>2. /\ HeapType(heap) /\ Ordered(heap) /\ heapDue = HeapElements
      /\ QueueType(queue) /\ sstfDue = SstfElements
      /\ ~early => heap.Size >= 0 /\ heap.data[0] = Nothing /\ queue.size >= 0
  BY DEF QInv
<1>3. SstfElements' = SstfElements
  BY <1>1 DEF SstfElements
<1>4. CASE heap.Size > 0
  <2>1. /\ r.fault = "none" /\ HeapFine(r.heap, heap.Size - 1, heap)
        /\ Gains(heap.data, 1 .. heap.Size, r.heap.data, 1 .. heap.Size - 1, heap.data[1])
    BY <1>2, <1>4, Deletes
  <2> HIDE DEF r
  <2>2. heap.Size - 1 >= 0 /\ 1 \in Positions
    BY <1>2, <1>4, QueuesAssumption, SMT DEF HeapType, Positions
  <2>3. heap.data[1] \in Requests
    BY <1>2, <2>2, EntryType
  <2>4. OneApart(Count(heap.data, 1 .. heap.Size), Count(r.heap.data, 1 .. heap.Size - 1), heap.data[1])
    BY <2>1, <2>3, CountGains
  <2>5. heapDue' = HeapElements'
    BY <1>1, <1>2, <1>4, <2>1, <2>4 DEF HeapElements, OneApart, HeapFine
  <2> QED
    BY <1>1, <1>2, <1>3, <2>1, <2>2, <2>5 DEF QInv, FaultsExplained, HeapFine
<1>5. CASE heap.Size = 0
  <2>1. r.fault = "none" /\ HeapType(r.heap) /\ Ordered(r.heap) /\ r.heap.Size = -1
    BY <1>2, <1>5, DeletesNone
  <2> HIDE DEF r
  <2>2. 1 .. 0 = {} /\ 1 .. -1 = {} /\ 0 <= 0 /\ ~(0 > 0)
    BY SMT
  <2>3. HeapElements' = HeapElements
    BY <1>1, <1>5, <2>1, <2>2, CountNone DEF HeapElements
  <2> QED
    BY <1>1, <1>2, <1>3, <1>5, <2>1, <2>2, <2>3 DEF QInv, FaultsExplained
<1>6. CASE heap.Size < 0
  <2>1. early' /\ r.fault # "none"
    <3>1. heap.Size <= 0
      BY <1>2, <1>6, QueuesAssumption, SMT DEF HeapType
    <3>2. r = [heap |-> heap, fault |-> "deleteFromMinHeap: before data[]"]
      BY <1>6 DEF deleteFromMinHeap
    <3> HIDE DEF r
    <3>3. r.fault # "none"
      BY <3>2
    <3> QED
      BY <1>1, <3>1, <3>3
  <2> QED
    BY <1>1, <2>1 DEF QInv, FaultsExplained
<1>7. heap.Size > 0 \/ heap.Size = 0 \/ heap.Size < 0
  BY <1>2, QueuesAssumption, SMT DEF HeapType
<1> QED
  BY <1>1, <1>4, <1>5, <1>6, <1>7

\* An arrival in the queue of the sstf mode.
LEMMA SstfArrives ==
  ASSUME QInv, fault = "none", NEW x \in Requests, SstfArrive(x)
  PROVE  /\ QInv' /\ heap' = heap
         /\ fault' = "none" =>
              /\ ~(queue'.size < queue.size)
              /\ queue.size > 0 => queue'.data[0] = queue.data[0]
<1> DEFINE r == Q!enqueue(queue, x, key)
<1>1. /\ queue' = r.queue /\ fault' = r.fault /\ heap' = heap /\ heapDue' = heapDue /\ early' = early
      /\ sstfDue' = [sstfDue EXCEPT ![x] = @ + 1]
  BY DEF SstfArrive, heapVars
<1>2. /\ HeapType(heap) /\ Ordered(heap) /\ heapDue = HeapElements
      /\ QueueType(queue) /\ sstfDue = SstfElements
      /\ ~early => heap.Size >= 0 /\ heap.data[0] = Nothing /\ queue.size >= 0
  BY DEF QInv
<1>3. HeapElements' = HeapElements
  BY <1>1 DEF HeapElements
<1>4. /\ queue.size = Capacity \/ queue.size < 0 \/ (queue.size >= 0 /\ queue.size < Capacity)
      /\ queue.size + 1 >= queue.size /\ ~(queue.size + 1 < queue.size)
      /\ (queue.size + 1) - 1 = queue.size
      /\ queue.size >= 0 => queue.size + 1 >= 0
      /\ queue.size < 0 => ~(queue.size >= 0)
  BY <1>2, QueuesAssumption, SMT DEF QueueType
<1>5. CASE queue.size = Capacity \/ queue.size < 0
  <2>1. r.fault # "none" /\ r.queue = queue
    BY <1>5 DEF Q!enqueue
  <2> HIDE DEF r
  <2> QED
    BY <1>1, <1>2, <1>4, <1>5, <2>1 DEF QInv, FaultsExplained
<1>6. CASE queue.size >= 0 /\ queue.size < Capacity
  <2>1. /\ r.fault = "none" /\ QueueType(r.queue) /\ r.queue.size = queue.size + 1
        /\ queue.size > 0 => r.queue.data[0] = queue.data[0]
        /\ Gains(r.queue.data, 0 .. queue.size, queue.data, 0 .. queue.size - 1, x)
    BY <1>2, <1>6, Enqueues
  <2> HIDE DEF r
  <2>2. OneApart(Count(r.queue.data, 0 .. queue.size), Count(queue.data, 0 .. queue.size - 1), x)
    BY <2>1, CountGains
  <2>3. sstfDue' = SstfElements'
    BY <1>1, <1>2, <1>4, <2>1, <2>2 DEF SstfElements, OneApart
  <2>4. QInv'
    BY <1>1, <1>2, <1>3, <1>4, <1>6, <2>1, <2>3 DEF QInv, FaultsExplained
  <2> QED
    BY <1>1, <1>4, <2>1, <2>4
<1> QED
  BY <1>4, <1>5, <1>6

\* A completion in the sstf mode.
LEMMA SstfCompletes ==
  ASSUME QInv, fault = "none", SstfComplete
  PROVE  /\ QInv' /\ heap' = heap /\ ~(queue'.size > queue.size)
         /\ queue'.size > 0 => queue'.data[0] = queue.data[1]
<1> DEFINE r == Q!dequeue(queue, key)
<1>1. /\ queue' = r /\ fault' = fault /\ heap' = heap /\ heapDue' = heapDue
      /\ early' = (early \/ queue.size <= 0) /\ queue.size > -1
      /\ sstfDue' = IF queue.size > 0 THEN [sstfDue EXCEPT ![queue.data[0]] = @ - 1] ELSE sstfDue
  BY DEF SstfComplete, heapVars, LeastSize
<1>2. /\ HeapType(heap) /\ Ordered(heap) /\ heapDue = HeapElements
      /\ QueueType(queue) /\ sstfDue = SstfElements
      /\ ~early => heap.Size >= 0 /\ heap.data[0] = Nothing /\ queue.size >= 0
  BY DEF QInv
<1>3. HeapElements' = HeapElements
  BY <1>1 DEF HeapElements
<1>4. /\ queue.size = 0 \/ queue.size > 0
      /\ ~(queue.size - 1 > queue.size)
      /\ queue.size > 0 => queue.size - 1 >= 0
  BY <1>1, <1>2, QueuesAssumption, SMT DEF QueueType
<1>5. CASE queue.size > 0
  <2>1. /\ QueueType(r) /\ r.size = queue.size - 1
        /\ r.size > 0 => r.data[0] = queue.data[1]
        /\ Gains(queue.data, 0 .. queue.size - 1, r.data, 0 .. r.size - 1, queue.data[0])
    BY <1>2, <1>5, Dequeues
  <2> HIDE DEF r
  <2>2. 0 \in Positions /\ queue.data \in Arrays
    BY <1>2, QueuesAssumption, SMT DEF QueueType, Positions
  <2>3. queue.data[0] \in Requests
    BY <2>2 DEF Arrays
  <2>4. OneApart(Count(queue.data, 0 .. queue.size - 1), Count(r.data, 0 .. r.size - 1), queue.data[0])
    BY <2>1, <2>3, CountGains
  <2>5. sstfDue' = SstfElements'
    BY <1>1, <1>2, <1>5, <2>1, <2>4 DEF SstfElements, OneApart
  <2>6. QInv'
    BY <1>1, <1>2, <1>3, <1>4, <1>5, <2>1, <2>5 DEF QInv, FaultsExplained
  <2> QED
    BY <1>1, <1>4, <2>1, <2>6
<1>6. CASE queue.size = 0
  <2>1. QueueType(r) /\ r.size = -1
    BY <1>2, <1>6, DequeuesNone
  <2> HIDE DEF r
  <2>2. 0 .. 0 - 1 = {} /\ 0 .. -1 - 1 = {} /\ 0 <= 0 /\ ~(0 > 0) /\ ~(-1 > 0)
    BY SMT
  <2>3. SstfElements' = SstfElements
    BY <1>1, <1>6, <2>1, <2>2, CountNone DEF SstfElements
  <2>4. QInv'
    BY <1>1, <1>2, <1>3, <1>6, <2>1, <2>2, <2>3 DEF QInv, FaultsExplained
  <2> QED
    BY <1>1, <1>6, <2>1, <2>2, <2>4, SMT
<1> QED
  BY <1>4, <1>5, <1>6

\* Every step is one of the four, or changes nothing.
LEMMA QueuesSteps ==
  QInv /\ [HeapNext \/ SstfNext]_queueVars => QInv'
<1> SUFFICES ASSUME QInv, [HeapNext \/ SstfNext]_queueVars PROVE QInv'
  OBVIOUS
<1>1. CASE HeapNext
  BY <1>1, HeapArrives, HeapCompletes DEF HeapNext
<1>2. CASE SstfNext
  BY <1>2, SstfArrives, SstfCompletes DEF SstfNext
<1>3. CASE UNCHANGED queueVars
  BY <1>3 DEF queueVars, heapVars, sstfVars, QInv, FaultsExplained, HeapElements, SstfElements
<1> QED
  BY <1>1, <1>2, <1>3

\* The step NearestNext speaks of.
LEMMA SstfStep ==
  ASSUME QInv, SstfNext
  PROVE  fault' = "none" =>
         /\ queue'.size < queue.size /\ queue'.size > 0 =>
              \A i \in 1 .. queue.size - 1 :
                Seek(queue.data[0], queue'.data[0]) <= Seek(queue.data[0], queue.data[i])
         /\ queue'.size > queue.size /\ queue.size > 0 => queue'.data[0] = queue.data[0]
<1>0. fault = "none" /\ QueueType(queue)
  BY DEF SstfNext, QInv
<1>1. CASE SstfComplete
  <2>1. ~(queue'.size > queue.size)
    BY <1>0, <1>1, SstfCompletes
  <2>2. ASSUME queue'.size > 0, NEW i \in 1 .. queue.size - 1
        PROVE  Seek(queue.data[0], queue'.data[0]) <= Seek(queue.data[0], queue.data[i])
    <3>1. i \in Positions /\ 0 \in Positions /\ 1 \in Positions /\ queue.data \in Arrays
      BY <1>0, QueuesAssumption, SMT DEF Positions, QueueType
    <3>2. queue.data[0] \in Requests /\ queue.data[1] \in Requests /\ queue.data[i] \in Requests
      BY <3>1 DEF Arrays
    <3>3. Dist(queue.data[0], queue.data[1]) <= Dist(queue.data[0], queue.data[i])
      BY <1>0 DEF QueueType, Nearest
    <3>4. /\ Seek(queue.data[0], queue.data[1]) = Dist(queue.data[0], queue.data[1])
          /\ Seek(queue.data[0], queue.data[i]) = Dist(queue.data[0], queue.data[i])
      BY <3>2, SeekIs
    <3>5. queue'.data[0] = queue.data[1]
      BY <1>0, <1>1, <2>2, SstfCompletes
    <3> QED
      BY <3>3, <3>4, <3>5
  <2> QED
    BY <2>1, <2>2
<1>2. ASSUME NEW x \in Requests, SstfArrive(x), fault' = "none"
      PROVE  /\ ~(queue'.size < queue.size)
             /\ queue.size > 0 => queue'.data[0] = queue.data[0]
  BY <1>0, <1>2, SstfArrives
<1> QED
  BY <1>1, <1>2 DEF SstfNext

\* The heap step leaves the queue alone.
LEMMA Apart ==
  ASSUME QInv, [HeapNext \/ SstfNext]_queueVars
  PROVE  queue' = queue \/ SstfNext
BY HeapArrives, HeapCompletes DEF HeapNext, SstfNext, queueVars, sstfVars

\* For every capacity, every set of block numbers and every sequence of
\* arrivals and completions: see QInv.
THEOREM QueuesInvariant == QueuesSpec => []QInv
<1>1. QueuesInit => QInv
  BY QueuesInitial
<1>2. QInv /\ [HeapNext \/ SstfNext]_queueVars => QInv'
  BY QueuesSteps
<1> QED
  BY <1>1, <1>2, PTL DEF QueuesSpec

\* insertMinHeap, deleteFromMinHeap, enqueue and dequeue panic, leave data[]
\* or stay in a loop only when an arrival finds data[] full or after a
\* completion has found its queue empty.
THEOREM QueueFaults == QueuesSpec => []FaultsExplained
<1>1. QInv => FaultsExplained
  BY DEF QInv
<1> QED
  BY <1>1, QueuesInvariant, PTL

\* insertMinHeap and deleteFromMinHeap keep the heap in order.
THEOREM HeapStaysOrdered == QueuesSpec => []HeapOrdered
<1>1. QInv => HeapOrdered
  BY DEF QInv, Ordered, HeapOrdered, Entry
<1> QED
  BY <1>1, QueuesInvariant, PTL

\* The heap holds what rw_queue has inserted less what completions have taken
\* from data[1].
THEOREM HeapKeepsElements == QueuesSpec => []ElementsKept
<1>1. QInv => ElementsKept
  BY DEF QInv, ElementsKept
<1> QED
  BY <1>1, QueuesInvariant, PTL

\* The request served next is one of those nearest to the one completed, and
\* an arrival leaves the one being served in its place.
THEOREM NearestIsNext == QueuesSpec => NearestNext
<1> DEFINE Step ==
      fault' = "none" =>
        /\ queue'.size < queue.size /\ queue'.size > 0 =>
             \A i \in 1 .. queue.size - 1 :
               Seek(queue.data[0], queue'.data[0]) <= Seek(queue.data[0], queue.data[i])
        /\ queue'.size > queue.size /\ queue.size > 0 => queue'.data[0] = queue.data[0]
<1>1. QInv /\ [HeapNext \/ SstfNext]_queueVars => [Step]_queue
  BY Apart, SstfStep
<1> QED
  BY <1>1, QueuesInvariant, PTL DEF QueuesSpec, NearestNext

\* The queue holds what rw_queue has put in less what completions have taken
\* from data[0]; SSTF() loses and duplicates none.
THEOREM QueueKeepsRequests == QueuesSpec => []RequestsKept
<1>1. QInv => RequestsKept
  BY DEF QInv, RequestsKept
<1> QED
  BY <1>1, QueuesInvariant, PTL
=============================================================================
