------------------------- MODULE BufferCacheProofs --------------------------
(***************************************************************************)
(* What TLAPS proves of BufferCache for any finite sets of processes and   *)
(* buffers and any blocks and contents: the counts, the identity of a      *)
(* buffer, the hand-over of its sleep lock, and that bread() returns the   *)
(* latest contents.                                                        *)
(*                                                                         *)
(* None of the properties is inductive.  PlaceInv says which variables a   *)
(* process at a given point has set, LockInv who holds which sleep lock,   *)
(* and ContentInv where the latest contents of a block are when they are   *)
(* not on the disk: in the one buffer that caches the block, which then    *)
(* has a pin or a holder, so that bget() cannot recycle it.                *)
(***************************************************************************)
EXTENDS BufferCache, FiniteSetTheorems, SequenceTheorems, TLAPS

\* A leaf is first-order reasoning, which Zenon does, unless it cites SMT.
USE Zenon

\* The list of bget() and brelse() holds every buffer once.
LruInv ==
  /\ lru \in Seq(Bufs) /\ Range(lru) = Bufs /\ Len(lru) = Cardinality(Bufs)
  /\ \A i, j \in 1 .. Len(lru) : lru[i] = lru[j] => i = j

\* What a process outside bget() .. brelse() and an unassigned buffer have not.
PlaceInv ==
  /\ \A p \in Procs :
       /\ pc[p] = "idle" <=> cur[p] = NULL
       /\ pc[p] = "idle" <=> want[p] = NULL
       /\ dirty[p] = 1 => pc[p] = "have"
  /\ \A b \in Bufs : blockno[b] = NULL => valid[b] = 0 /\ pins[b] = 0

\* The holder of a buffer's sleep lock is the process inside the buffer, and
\* whoever is asleep for it waits for somebody else.
LockInv == \A p \in Procs :
  /\ pc[p] \in {"locked", "have"} => locked[cur[p]] = p
  /\ pc[p] = "asleep" => locked[cur[p]] \in Procs \ {p}
  /\ \A b \in Bufs : locked[b] = p => cur[p] = b /\ pc[p] \in {"locked", "have"}

\* A valid buffer has the latest contents of its block, and a block that is
\* not on the disk has such a buffer, pinned or dirty in the hands of a process.
Kept(b) == pins[b] > 0 \/ \E p \in Procs : cur[p] = b /\ dirty[p] = 1
ContentInv ==
  /\ \A p \in Procs : pc[p] = "have" => valid[cur[p]] = 1
  /\ \A b \in Bufs : valid[b] = 1 => data[b] = latest[blockno[b]]
  /\ \A k \in Blocks : blocks[k] # latest[k] =>
       \E b \in Bufs : blockno[b] = k /\ valid[b] = 1 /\ Kept(b)

\* The log pins no more buffers than it may.
Pinned == {b \in Bufs : pins[b] > 0}
PinInv == /\ \A b \in Bufs : pins[b] \in {0, 1}
          /\ Cardinality(Pinned) <= MaxPins

\* No panic but the one of bget(), which needs an assumption of its own.
HoldersOnly == panic \in {"none", "bget: no buffers"}

Inv == /\ TypeOK /\ LruInv /\ PlaceInv /\ RefcntCounts /\ BufferIdentity /\ LockInv
       /\ ContentInv /\ PinInv /\ HoldersOnly

---------------------------------------------------------------------------
(* Facts about the list and the counts.                                    *)

\* A set of numbers up to n that is not empty has a greatest one.
LEMMA GreatestExists ==
  ASSUME NEW n \in Nat, NEW V \in SUBSET (1 .. n), V # {}
  PROVE  \E i \in V : \A j \in V : j <= i
<1> DEFINE Above(x) == {y \in V : y > x}
           R == StrictSubsetOrdering(V)
           T == {Above(x) : x \in V}
<1>1. IsFiniteSet(V)
  <2>1. IsFiniteSet(1 .. n)
    BY FS_Interval, SMTT(30)
  <2> QED BY <2>1, FS_Subset
<1>2. T \subseteq FiniteSubsetsOf(V) /\ T # {}
  <2>1. FiniteSubsetsOf(V) = SUBSET V
    BY <1>1, FS_FiniteSubsetsOfFinite
  <2>2. \A x \in V : Above(x) \subseteq V /\ Above(x) \in T
    OBVIOUS
  <2> HIDE DEF Above
  <2>3. \A t \in T : t \subseteq V
    BY <2>2
  <2> QED BY <2>1, <2>2, <2>3
<1>3. IsWellFoundedOn(R, FiniteSubsetsOf(V))
  BY FS_StrictSubsetOrderingWellFounded
<1>4. \E x \in T : \A y \in T : ~(<<y, x>> \in R)
  BY <1>2, <1>3, WFMin
<1>5. PICK i \in V : \A j \in V : ~(<<Above(j), Above(i)>> \in R)
  BY <1>4
<1>6. ASSUME NEW j \in V, j > i
      PROVE  FALSE
  <2>1. i \in Nat /\ j \in Nat /\ \A k \in V : k \in Nat
    BY SMT
  <2>2. Above(j) \subseteq Above(i)
    <3>1. \A k \in V : k > j => k > i
      BY <1>6, <2>1, SMT
    <3> QED BY <3>1
  <2>3. j \in Above(i) /\ j \notin Above(j)
    BY <1>6, <2>1, SMT
  <2>4. <<Above(j), Above(i)>> \in R
    BY <2>2, <2>3 DEF StrictSubsetOrdering
  <2> QED BY <1>5, <2>4
<1> QED BY <1>6, SMT

\* bget() recycles an unused buffer if there is one.
LEMMA VictimUnused ==
  ASSUME LruInv, Victims # {}
  PROVE  Victim \in Bufs /\ refcnt[Victim] = 0
<1>1. Victims \in SUBSET (1 .. Len(lru)) /\ Len(lru) \in Nat
  BY SMT DEF LruInv, Victims
<1>2. \E i \in Victims : \A j \in Victims : j <= i
  BY <1>1, GreatestExists
<1>3. PICK v \in Victims : v = CHOOSE i \in Victims : \A j \in Victims : j <= i
  BY <1>2
<1>4. Victim = lru[v] /\ v \in 1 .. Len(lru)
  BY <1>1, <1>3 DEF Victim
<1> QED BY <1>4, <1>3, SMTT(30) DEF LruInv, Victims

\* A buffer that nobody has is in Victims, so a full scan that finds none
\* means that every buffer is in use.
LEMMA NoVictim ==
  ASSUME LruInv, Victims = {}, NEW b \in Bufs
  PROVE  refcnt[b] # 0
<1>1. PICK i \in DOMAIN lru : lru[i] = b
  BY DEF LruInv, Range
<1> QED BY <1>1 DEF Victims

\* brelse() moves a buffer within the list: every buffer stays in it, once.
LEMMA MovedToFront ==
  ASSUME LruInv, NEW b \in Bufs
  PROVE  LET m == MoveToFront(b)
         IN  /\ m \in Seq(Bufs) /\ Range(m) = Bufs /\ Len(m) = Cardinality(Bufs)
             /\ \A i, j \in 1 .. Len(m) : m[i] = m[j] => i = j
<1> DEFINE at == CHOOSE i \in DOMAIN lru : lru[i] = b
           rest == RemoveAt(lru, at)
           m == MoveToFront(b)
           n == Len(lru)
<1>1. /\ lru \in Seq(Bufs) /\ n \in Nat /\ DOMAIN lru = 1 .. n
      /\ \A i \in 1 .. n : lru[i] \in Bufs
  BY SMT DEF LruInv
<1>2. at \in 1 .. n /\ lru[at] = b
  <2>1. \E i \in DOMAIN lru : lru[i] = b
    BY DEF LruInv, Range
  <2> QED BY <1>1, <2>1
<1> HIDE DEF at, n
<1>3. /\ rest \in Seq(Bufs) /\ Len(rest) = n - 1
      /\ \A j \in 1 .. n - 1 : rest[j] = IF j < at THEN lru[j] ELSE lru[j + 1]
  <2> DEFINE front == SubSeq(lru, 1, at - 1)
             back == SubSeq(lru, at + 1, n)
  <2>1. /\ front \in Seq(Bufs) /\ Len(front) = at - 1
        /\ \A j \in 1 .. at - 1 : front[j] = lru[j]
    BY <1>1, <1>2, SubSeqProperties, SMTT(30)
  <2>2. /\ back \in Seq(Bufs) /\ Len(back) = n - at
        /\ \A j \in 1 .. n - at : back[j] = lru[at + j]
    <3>1. \A j \in at + 1 .. n : lru[j] \in Bufs
      BY <1>1, <1>2, SMT
    <3>2. /\ back \in Seq(Bufs) /\ Len(back) = IF at + 1 <= n THEN n - (at + 1) + 1 ELSE 0
          /\ \A j \in 1 .. n - (at + 1) + 1 : back[j] = lru[at + 1 + j - 1]
      BY <1>1, <1>2, <3>1, SubSeqProperties, SMTT(30)
    <3> HIDE DEF back
    <3> QED BY <1>1, <1>2, <3>2, SMTT(30)
  <2>3. rest = front \o back
    BY DEF RemoveAt, n
  <2> HIDE DEF front, back, rest
  <2>4. /\ rest \in Seq(Bufs) /\ Len(rest) = Len(front) + Len(back)
        /\ \A i \in 1 .. Len(front) + Len(back) :
             rest[i] = IF i <= Len(front) THEN front[i] ELSE back[i - Len(front)]
    BY <2>1, <2>2, <2>3, ConcatProperties, ZenonT(30)
  <2> QED BY <1>1, <1>2, <2>1, <2>2, <2>4, SMTT(30)
<1> HIDE DEF rest
<1>4. /\ m \in Seq(Bufs) /\ Len(m) = n /\ m[1] = b
      /\ \A j \in 2 .. n : m[j] = rest[j - 1]
  <2>1. <<b>> \in Seq(Bufs) /\ Len(<<b>>) = 1 /\ <<b>>[1] = b
    BY SMT
  <2>2. m = <<b>> \o rest
    BY DEF MoveToFront, rest, at
  <2>3. /\ m \in Seq(Bufs) /\ Len(m) = 1 + (n - 1)
        /\ \A j \in 1 .. 1 + (n - 1) : m[j] = IF j <= 1 THEN <<b>>[j] ELSE rest[j - 1]
    BY <1>3, <2>1, <2>2, ConcatProperties, SMTT(30)
  <2> HIDE DEF m
  <2> QED BY <1>1, <1>2, <2>1, <2>3, SMTT(30)
<1> HIDE DEF m
<1>5. \A j \in 2 .. n : m[j] = IF j <= at THEN lru[j - 1] ELSE lru[j]
  BY <1>1, <1>2, <1>3, <1>4, SMTT(30)
<1>6. \A i, j \in 1 .. n : lru[i] = lru[j] => i = j
  BY DEF LruInv, n
<1>7. \A i, j \in 1 .. n : m[i] = m[j] => i = j
  BY <1>1, <1>2, <1>4, <1>5, <1>6, SMTT(30)
<1>8. Range(m) = Bufs
  <2>1. DOMAIN m = 1 .. n /\ \A i \in 1 .. n : m[i] \in Bufs
    BY <1>4, SMT
  <2>2. ASSUME NEW c \in Bufs
        PROVE  \E j \in 1 .. n : m[j] = c
    <3>1. PICK i \in 1 .. n : lru[i] = c
      BY <1>1 DEF LruInv, Range
    <3>2. CASE i = at
      BY <1>2, <1>4, <3>1, <3>2, SMTT(30)
    <3>3. CASE i < at
      <4>1. i + 1 \in 2 .. n /\ i + 1 <= at /\ (i + 1) - 1 = i
        BY <1>1, <1>2, <3>1, <3>3, SMTT(30)
      <4> QED BY <1>1, <1>5, <3>1, <4>1, SMTT(30)
    <3>4. CASE i > at
      BY <1>1, <1>2, <1>5, <3>1, <3>4, SMTT(30)
    <3> QED BY <1>1, <1>2, <3>2, <3>3, <3>4, SMTT(30)
  <2> QED BY <2>1, <2>2 DEF Range
<1> QED BY <1>4, <1>7, <1>8 DEF LruInv, n, m

\* The number of users is a number.
LEMMA UsersFinite ==
  ASSUME NEW b
  PROVE  Cardinality({q \in Procs : cur[q] = b}) \in Nat
BY NBufAssumption, FS_Subset, FS_CardinalityType

\* How the number of users of a buffer changes when p gets or gives up one.
LEMMA UserComes ==
  ASSUME TypeOK, NEW p \in Procs, cur[p] = NULL, NEW b \in Bufs, NEW c \in Bufs
  PROVE  Cardinality({q \in Procs : [cur EXCEPT ![p] = b][q] = c}) =
           Cardinality({q \in Procs : cur[q] = c}) + (IF b = c THEN 1 ELSE 0)
<1> DEFINE before == {q \in Procs : cur[q] = c}
           after == {q \in Procs : [cur EXCEPT ![p] = b][q] = c}
<1>1. IsFiniteSet(before) /\ Cardinality(before) \in Nat /\ p \notin before
  BY NBufAssumption, NullAssumption, FS_Subset, FS_CardinalityType
<1>2. CASE b = c
  <2>1. after = before \cup {p}
    BY <1>2 DEF TypeOK
  <2> QED BY <1>1, <1>2, <2>1, FS_AddElement
<1>3. CASE b # c
  <2>1. after = before
    BY <1>1, <1>3 DEF TypeOK
  <2> QED BY <1>1, <1>3, <2>1, SMTT(30)
<1> QED BY <1>2, <1>3

\* A process that lets go of its buffer is counted at that buffer no more.
LEMMA UserGoes ==
  ASSUME TypeOK, NEW p \in Procs, cur[p] \in Bufs, NEW c \in Bufs
  PROVE  Cardinality({q \in Procs : [cur EXCEPT ![p] = NULL][q] = c}) =
           Cardinality({q \in Procs : cur[q] = c}) - (IF cur[p] = c THEN 1 ELSE 0)
<1> DEFINE before == {q \in Procs : cur[q] = c}
           after == {q \in Procs : [cur EXCEPT ![p] = NULL][q] = c}
<1>1. IsFiniteSet(before) /\ Cardinality(before) \in Nat
  BY NBufAssumption, FS_Subset, FS_CardinalityType
<1>2. CASE cur[p] = c
  <2>1. after = before \ {p} /\ p \in before
    BY <1>2, NullAssumption DEF TypeOK
  <2> QED BY <1>1, <1>2, <2>1, FS_RemoveElement, ZenonT(30)
<1>3. CASE cur[p] # c
  <2>1. after = before
    BY <1>3, NullAssumption DEF TypeOK
  <2> QED BY <1>1, <1>3, <2>1, SMTT(30)
<1> QED BY <1>2, <1>3

\* refcnt of a buffer with a user is positive, and one with neither users nor
\* pins is unused.
LEMMA UsersCounted ==
  ASSUME TypeOK, RefcntCounts, NEW b \in Bufs
  PROVE  /\ refcnt[b] = 0 => pins[b] = 0 /\ \A q \in Procs : cur[q] # b
         /\ \A q \in Procs : cur[q] = b => refcnt[b] >= 1 /\ refcnt[b] - 1 >= pins[b]
<1> DEFINE users == {q \in Procs : cur[q] = b}
<1>1. IsFiniteSet(users) /\ Cardinality(users) \in Nat
  BY NBufAssumption, FS_Subset, FS_CardinalityType
<1>2. Cardinality(users) = 0 <=> users = {}
  BY <1>1, FS_EmptySet
<1>3. refcnt[b] = Cardinality(users) + pins[b] /\ pins[b] \in Nat
  BY DEF RefcntCounts, TypeOK
<1>4. \A q \in Procs : cur[q] = b => users # {}
  OBVIOUS
<1>5. users = {} => \A q \in Procs : cur[q] # b
  OBVIOUS
<1> HIDE DEF users
<1> QED BY <1>1, <1>2, <1>3, <1>4, <1>5, SMTT(30)

---------------------------------------------------------------------------
(* The invariant.                                                          *)

\* binit() chains every buffer into the list, once.
LEMMA ListInit ==
  ASSUME lru = SetToSeq(Bufs)
  PROVE  LruInv
<1> DEFINE n == Cardinality(Bufs)
<1>1. n \in Nat /\ ExistsBijection(1 .. n, Bufs)
  BY NBufAssumption, FS_CardinalityType
<1>2. IsFiniteSet(1 .. n) /\ Cardinality(1 .. n) = n
  BY <1>1, FS_Interval, SMTT(30)
<1>3. \E f \in [1 .. n -> Bufs] : IsInjective(f)
  BY <1>1 DEF ExistsBijection, Bijection, Injection
<1>4. lru \in [1 .. n -> Bufs] /\ IsInjective(lru)
  BY <1>3 DEF SetToSeq
<1>5. lru \in Injection(1 .. n, Bufs)
  BY <1>4 DEF Injection
<1>6. lru \in Surjection(1 .. n, Bufs)
  BY <1>2, <1>5, NBufAssumption, FS_Injection
<1>7. lru \in Seq(Bufs) /\ Len(lru) = n /\ DOMAIN lru = 1 .. n
  BY <1>1, <1>4, SMTT(30)
<1>8. Range(lru) = Bufs
  BY <1>4, <1>6, <1>7 DEF Surjection, Range
<1> QED BY <1>4, <1>7, <1>8 DEF LruInv, IsInjective

\* The cache as binit() leaves it satisfies the invariant.
LEMMA InvInit == Init => Inv
<1> SUFFICES ASSUME Init PROVE Inv
  OBVIOUS
<1>1. LruInv
  BY ListInit DEF Init
<1>2. TypeOK
  BY <1>1 DEF Init, TypeOK, LruInv
<1>3. RefcntCounts
  <2> SUFFICES ASSUME NEW b \in Bufs
               PROVE  0 = Cardinality({p \in Procs : cur[p] = b}) + 0
    BY DEF RefcntCounts, Init
  <2>1. {p \in Procs : cur[p] = b} = {}
    BY NullAssumption DEF Init
  <2> QED BY <2>1, FS_EmptySet, SMTT(30)
<1>4. PinInv
  <2>1. Pinned = {} /\ \A b \in Bufs : pins[b] \in {0, 1}
    BY SMT DEF Init, Pinned
  <2> QED BY <2>1, FS_EmptySet, NBufAssumption, SMTT(30) DEF PinInv
<1>5. PlaceInv /\ BufferIdentity /\ LockInv /\ ContentInv /\ HoldersOnly
  BY NullAssumption, SMT DEF Init, PlaceInv, BufferIdentity, OneBufferPerBlock, BufferKeepsBlock,
     LockInv, ContentInv, HoldersOnly
<1> QED BY <1>1, <1>2, <1>3, <1>4, <1>5 DEF Inv

\* A process inside bget() .. brelse() has a buffer that caches its block.
LEMMA HasBuffer ==
  ASSUME Inv, NEW p \in Procs, pc[p] # "idle"
  PROVE  cur[p] \in Bufs /\ want[p] \in Blocks /\ blockno[cur[p]] = want[p]
BY ZenonT(30) DEF Inv, TypeOK, PlaceInv, BufferIdentity, BufferKeepsBlock

\* Steps that leave the list or the pins alone.
LEMMA SameList ==
  ASSUME LruInv, UNCHANGED lru
  PROVE  LruInv'
BY DEF LruInv

\* The pins stay bounded while nobody pins.
LEMMA SamePins ==
  ASSUME PinInv, UNCHANGED pins
  PROVE  PinInv'
<1>1. Pinned' = Pinned
  BY DEF Pinned
<1> QED BY <1>1 DEF PinInv

\* bget() finds the block cached.
LEMMA HitStep ==
  ASSUME Inv, NEW p \in Procs, NEW k \in Blocks, BgetHit(p, k)
  PROVE  Inv'
<1> USE NullAssumption
<1>1. PICK b \in Bufs : /\ blockno[b] = k /\ refcnt' = [refcnt EXCEPT ![b] = @ + 1]
                        /\ pc' = [pc EXCEPT ![p] = "lock"]
                        /\ want' = [want EXCEPT ![p] = k] /\ cur' = [cur EXCEPT ![p] = b]
  BY DEF BgetHit, Cached, Counted, Take, Goto
<1>2. /\ UNCHANGED <<blockno, valid, data, locked, lru, pins, blocks, dirty, latest, panic>>
      /\ pc[p] = "idle" /\ cur[p] = NULL
  BY DEF BgetHit, Inv, PlaceInv
<1>3. LruInv' /\ PinInv'
  BY <1>2, SameList, SamePins DEF Inv
<1>9. TypeOK' /\ HoldersOnly'
  <2>1. refcnt' \in [Bufs -> Nat]
    BY <1>1, SMTT(30) DEF Inv, TypeOK
  <2> QED BY <1>1, <1>2, <1>3, <2>1 DEF Inv, TypeOK, LruInv, HoldersOnly
<1>4. RefcntCounts'
  <2> SUFFICES ASSUME NEW c \in Bufs
               PROVE  refcnt'[c] = Cardinality({q \in Procs : cur'[q] = c}) + pins'[c]
    BY DEF RefcntCounts
  <2>1. Cardinality({q \in Procs : cur'[q] = c}) =
          Cardinality({q \in Procs : cur[q] = c}) + (IF b = c THEN 1 ELSE 0)
    BY <1>1, <1>2, UserComes, SMTT(30) DEF Inv
  <2>2. refcnt[c] = Cardinality({q \in Procs : cur[q] = c}) + pins[c]
    BY DEF Inv, RefcntCounts
  <2>3. refcnt[c] \in Nat /\ pins[c] \in Nat /\ refcnt'[c] = refcnt[c] + (IF b = c THEN 1 ELSE 0)
    BY <1>1, SMT DEF Inv, TypeOK
  <2> QED BY <1>2, <2>1, <2>2, <2>3, UsersFinite, SMTT(30)
<1>5. PlaceInv'
  BY <1>1, <1>2 DEF Inv, TypeOK, PlaceInv
<1>6. BufferIdentity'
  BY <1>1, <1>2, ZenonT(30) DEF Inv, TypeOK, PlaceInv, BufferIdentity, OneBufferPerBlock, BufferKeepsBlock
<1>7. LockInv'
  BY <1>1, <1>2, SMT DEF Inv, TypeOK, LockInv
<1>8. ContentInv'
  BY <1>1, <1>2, SMT DEF Inv, TypeOK, PlaceInv, ContentInv, Kept
<1> QED BY <1>3, <1>4, <1>5, <1>6, <1>7, <1>8, <1>9 DEF Inv

\* bget() recycles an unused buffer.
LEMMA MissStep ==
  ASSUME Inv, NEW p \in Procs, NEW k \in Blocks, BgetMiss(p, k)
  PROVE  Inv'
<1> USE NullAssumption
<1>1. /\ UNCHANGED <<data, locked, lru, pins, blocks, dirty, latest>>
      /\ pc[p] = "idle" /\ cur[p] = NULL /\ \A b \in Bufs : blockno[b] # k
  BY DEF BgetMiss, Inv, PlaceInv, NotCached, Cached
<1>2. CASE Victims = {}
  <2>1. HoldersOnly' /\ UNCHANGED <<blockno, valid, refcnt, pc, want, cur>>
    BY <1>2 DEF BgetMiss, HoldersOnly
  <2>2. LruInv' /\ PinInv'
    BY <1>1, SameList, SamePins DEF Inv
  <2> QED BY <1>1, <2>1, <2>2, SMTT(30) DEF Inv, TypeOK, LruInv, PlaceInv, RefcntCounts, BufferIdentity,
             OneBufferPerBlock, BufferKeepsBlock, LockInv, ContentInv, Kept
<1>3. CASE Victims # {}
  <2> DEFINE v == Victim
  <2>1. v \in Bufs /\ refcnt[v] = 0
    BY <1>3, VictimUnused DEF Inv
  <2>2. pins[v] = 0 /\ \A q \in Procs : cur[q] # v
    BY <2>1, UsersCounted DEF Inv
  <2>3. /\ blockno' = [blockno EXCEPT ![v] = k] /\ valid' = [valid EXCEPT ![v] = 0]
        /\ refcnt' = [refcnt EXCEPT ![v] = 1] /\ pc' = [pc EXCEPT ![p] = "lock"]
        /\ want' = [want EXCEPT ![p] = k] /\ cur' = [cur EXCEPT ![p] = v] /\ panic' = panic
    BY <1>3 DEF BgetMiss, Invalid, Take, Goto
  <2> HIDE DEF v
  <2>4. LruInv' /\ PinInv'
    BY <1>1, SameList, SamePins DEF Inv
  <2>10. TypeOK' /\ HoldersOnly'
    BY <1>1, <2>1, <2>3, <2>4 DEF Inv, TypeOK, LruInv, HoldersOnly
  <2>5. RefcntCounts'
    <3> SUFFICES ASSUME NEW c \in Bufs
                 PROVE  refcnt'[c] = Cardinality({q \in Procs : cur'[q] = c}) + pins'[c]
      BY DEF RefcntCounts
    <3>1. refcnt[c] = Cardinality({q \in Procs : cur[q] = c}) + pins[c]
      BY DEF Inv, RefcntCounts
    <3>3. Cardinality({q \in Procs : cur'[q] = c}) =
            Cardinality({q \in Procs : cur[q] = c}) + (IF v = c THEN 1 ELSE 0)
      BY <1>1, <2>1, <2>3, UserComes, SMTT(30) DEF Inv
    <3>2. v = c => Cardinality({q \in Procs : cur[q] = c}) = 0 /\ pins[c] = 0
      <4>1. v = c => {q \in Procs : cur[q] = c} = {}
        BY <2>2
      <4> QED BY <2>2, <4>1, FS_EmptySet
    <3>4. /\ refcnt[c] \in Nat /\ pins[c] \in Nat
          /\ refcnt'[c] = IF v = c THEN 1 ELSE refcnt[c]
      BY <2>3 DEF Inv, TypeOK
    <3> QED BY <1>1, <3>1, <3>2, <3>3, <3>4, UsersFinite, SMTT(30)
  <2>6. PlaceInv'
    BY <1>1, <2>1, <2>3, ZenonT(30) DEF Inv, TypeOK, PlaceInv
  <2>7. BufferIdentity'
    BY <1>1, <2>1, <2>2, <2>3, SMT DEF Inv, TypeOK, PlaceInv, BufferIdentity, OneBufferPerBlock,
       BufferKeepsBlock
  <2>8. LockInv'
    BY <1>1, <2>1, <2>2, <2>3, SMTT(30) DEF Inv, TypeOK, LockInv
  <2>9. ContentInv'
    <3>1. \A q \in Procs : pc'[q] = "have" => valid'[cur'[q]] = 1
      BY <1>1, <2>1, <2>2, <2>3, SMTT(30) DEF Inv, TypeOK, ContentInv
    <3>2. \A b \in Bufs : valid'[b] = 1 => data'[b] = latest'[blockno'[b]]
      BY <1>1, <2>1, <2>3, SMTT(30) DEF Inv, TypeOK, ContentInv
    <3>3. ASSUME NEW m \in Blocks, blocks'[m] # latest'[m]
          PROVE  \E b \in Bufs : blockno'[b] = m /\ valid'[b] = 1 /\ Kept(b)'
      <4>1. PICK b \in Bufs : blockno[b] = m /\ valid[b] = 1 /\ Kept(b)
        BY <1>1, <3>3 DEF Inv, ContentInv
      <4>2. b # v
        BY <2>2, <4>1, SMTT(30) DEF Kept
      <4>3. Kept(b)'
        BY <1>1, <2>3, <4>1, ZenonT(30) DEF Kept, Inv, TypeOK, PlaceInv
      <4> QED BY <2>3, <4>1, <4>2, <4>3 DEF Inv, TypeOK
    <3> QED BY <3>1, <3>2, <3>3 DEF ContentInv
  <2> QED BY <2>4, <2>5, <2>6, <2>7, <2>8, <2>9, <2>10, ZenonT(30) DEF Inv
<1> QED BY <1>2, <1>3

\* acquiresleep() and the rest of bread().
LEMMA BreadStep ==
  ASSUME Inv, NEW p \in Procs, Bread(p)
  PROVE  Inv'
<1> USE NullAssumption
<1>1. pc[p] \in {"lock", "locked"} /\ cur[p] \in Bufs /\ want[p] \in Blocks
      /\ blockno[cur[p]] = want[p]
  BY HasBuffer DEF Bread, AcquireSleep, BreadCached, BreadDisk
<1>2. UNCHANGED <<blockno, refcnt, lru, pins, blocks, want, cur, dirty, latest, panic>>
  BY DEF Bread, AcquireSleep, BreadCached, BreadDisk, bufVars
<1>3. LruInv' /\ PinInv' /\ RefcntCounts' /\ BufferIdentity' /\ HoldersOnly'
  BY <1>2, SameList, SamePins DEF Inv, RefcntCounts, BufferIdentity, OneBufferPerBlock,
       BufferKeepsBlock, HoldersOnly
<1>4. CASE AcquireSleep(p)
  <2>1. pc[p] = "lock" /\ UNCHANGED <<valid, data>>
    BY <1>4 DEF AcquireSleep
  <2>2. CASE locked[cur[p]] = NULL
    <3>1. locked' = [locked EXCEPT ![cur[p]] = p] /\ pc' = [pc EXCEPT ![p] = "locked"]
      BY <1>4, <2>2 DEF AcquireSleep, Unlocked, Goto
    <3>2. TypeOK' /\ PlaceInv'
      BY <1>1, <1>2, <1>3, <2>1, <3>1, ZenonT(30) DEF Inv, TypeOK, LruInv, PlaceInv
    <3>3. LockInv'
      BY <1>1, <1>2, <2>1, <2>2, <3>1, SMTT(30) DEF Inv, TypeOK, LockInv, PlaceInv
    <3>4. ContentInv'
      BY <1>1, <1>2, <2>1, <3>1, SMTT(30) DEF Inv, TypeOK, ContentInv, Kept
    <3> QED BY <1>3, <3>2, <3>3, <3>4 DEF Inv
  <2>3. CASE locked[cur[p]] # NULL
    <3>1. locked' = locked /\ pc' = [pc EXCEPT ![p] = "asleep"]
      BY <1>4, <2>3 DEF AcquireSleep, Unlocked, Goto
    <3>2. TypeOK' /\ PlaceInv'
      BY <1>1, <1>2, <1>3, <2>1, <3>1, ZenonT(30) DEF Inv, TypeOK, LruInv, PlaceInv
    <3>3. LockInv'
      BY <1>1, <1>2, <2>1, <2>3, <3>1, SMTT(30) DEF Inv, TypeOK, LockInv, PlaceInv
    <3>4. ContentInv'
      BY <1>1, <1>2, <2>1, <3>1, SMTT(30) DEF Inv, TypeOK, ContentInv, Kept
    <3> QED BY <1>3, <3>2, <3>3, <3>4 DEF Inv
  <2> QED BY <2>2, <2>3
<1>5. CASE BreadCached(p)
  <2>1. /\ pc[p] = "locked" /\ valid[cur[p]] = 1 /\ UNCHANGED <<valid, data, locked>>
        /\ pc' = [pc EXCEPT ![p] = "have"]
    BY <1>5 DEF BreadCached, bufVars, Goto
  <2>2. TypeOK' /\ PlaceInv' /\ LockInv'
    BY <1>1, <1>2, <1>3, <2>1, SMTT(30) DEF Inv, TypeOK, LruInv, PlaceInv, LockInv
  <2>3. ContentInv'
    BY <1>1, <1>2, <2>1, SMTT(30) DEF Inv, TypeOK, ContentInv, Kept
  <2> QED BY <1>3, <2>2, <2>3 DEF Inv
<1>6. CASE BreadDisk(p)
  <2>1. /\ pc[p] = "locked" /\ valid[cur[p]] = 0 /\ UNCHANGED locked
        /\ data' = [data EXCEPT ![cur[p]] = blocks[want[p]]]
        /\ valid' = [valid EXCEPT ![cur[p]] = 1] /\ pc' = [pc EXCEPT ![p] = "have"]
    BY <1>1, <1>6 DEF BreadDisk, Goto
  <2>2. TypeOK' /\ PlaceInv' /\ LockInv'
    <3>1. TypeOK' /\ PlaceInv'
      BY <1>1, <1>2, <1>3, <2>1, SMTT(30) DEF Inv, TypeOK, LruInv, PlaceInv
    <3>2. LockInv'
      BY <1>1, <1>2, <2>1, SMTT(30) DEF Inv, TypeOK, LockInv
    <3> QED BY <3>1, <3>2
  <2>3. blocks[want[p]] = latest[want[p]]
    BY <1>1, <2>1, SMTT(30) DEF Inv, ContentInv, BufferIdentity, OneBufferPerBlock
  <2>4. ContentInv'
    BY <1>1, <1>2, <2>1, <2>3, SMTT(30) DEF Inv, TypeOK, ContentInv, Kept
  <2> QED BY <1>3, <2>2, <2>4 DEF Inv
<1> QED BY <1>4, <1>5, <1>6 DEF Bread

\* A process changes the contents of a buffer it holds.
LEMMA ModifyStep ==
  ASSUME Inv, NEW p \in Procs, NEW d \in Data, Modify(p, d)
  PROVE  Inv'
<1> USE NullAssumption
<1>1. PICK b \in Bufs, k \in Blocks :
        cur[p] = b /\ want[p] = k /\ pc[p] = "have" /\ blockno[b] = k /\ valid[b] = 1
  BY HasBuffer DEF Modify, Inv, ContentInv
<1>2. /\ UNCHANGED <<blockno, valid, refcnt, locked, lru, pins, blocks, pc, want, cur, panic>>
      /\ data' = [data EXCEPT ![b] = d] /\ latest' = [latest EXCEPT ![k] = d]
      /\ dirty' = [dirty EXCEPT ![p] = IF pins[b] > 0 THEN 0 ELSE 1]
  BY <1>1 DEF Modify
<1>4. /\ LruInv' /\ PinInv' /\ RefcntCounts' /\ BufferIdentity' /\ HoldersOnly' /\ LockInv'
  <2>1. LruInv' /\ PinInv'
    BY <1>2, SameList, SamePins DEF Inv
  <2>2. RefcntCounts'
    BY <1>2 DEF Inv, RefcntCounts
  <2>3. HoldersOnly' /\ LockInv'
    BY <1>2 DEF Inv, HoldersOnly, LockInv
  <2>4. BufferIdentity'
    BY <1>2 DEF Inv, BufferIdentity, OneBufferPerBlock, BufferKeepsBlock
  <2> QED BY <2>1, <2>2, <2>3, <2>4
<1>5. TypeOK' /\ PlaceInv'
  BY <1>1, <1>2, <1>4 DEF Inv, TypeOK, LruInv, PlaceInv
<1>6. Kept(b)'
  <2>1. CASE pins[b] > 0
    BY <1>2, <2>1 DEF Kept
  <2>2. CASE ~(pins[b] > 0)
    <3>1. dirty'[p] = 1 /\ cur'[p] = b
      BY <1>2, <1>1, <2>2 DEF Inv, TypeOK
    <3> QED BY <3>1 DEF Kept
  <2> QED BY <2>1, <2>2
<1>7. ASSUME NEW c \in Bufs, c # b, Kept(c)
      PROVE  Kept(c)'
  BY <1>2, <1>1, <1>7 DEF Kept, Inv, TypeOK
<1>8. \A c \in Bufs : valid'[c] = 1 => data'[c] = latest'[blockno'[c]]
  <2> SUFFICES ASSUME NEW c \in Bufs, valid[c] = 1
               PROVE  data'[c] = latest'[blockno[c]]
    BY <1>2
  <2>1. blockno[c] \in Blocks /\ data[c] = latest[blockno[c]]
    BY SMT DEF Inv, TypeOK, PlaceInv, ContentInv
  <2>2. c = b \/ blockno[c] # k
    BY <1>1 DEF Inv, BufferIdentity, OneBufferPerBlock
  <2> QED BY <1>1, <1>2, <2>1, <2>2 DEF Inv, TypeOK
<1>9. ASSUME NEW m \in Blocks, blocks'[m] # latest'[m]
      PROVE  \E c \in Bufs : blockno'[c] = m /\ valid'[c] = 1 /\ Kept(c)'
  <2>1. CASE m = k
    BY <1>1, <1>2, <1>6, <2>1
  <2>2. CASE m # k
    <3>1. blocks[m] # latest[m]
      BY <1>2, <1>9, <2>2 DEF Inv, TypeOK
    <3>2. PICK c \in Bufs : blockno[c] = m /\ valid[c] = 1 /\ Kept(c)
      BY <3>1 DEF Inv, ContentInv
    <3>3. c # b
      BY <1>1, <2>2, <3>2
    <3> QED BY <1>2, <1>7, <3>2, <3>3
  <2> QED BY <2>1, <2>2
<1>10. ContentInv'
  BY <1>2, <1>8, <1>9 DEF ContentInv, Inv
<1> QED BY <1>4, <1>5, <1>10 DEF Inv

\* bwrite(), bpin() and bunpin() by the holder of a buffer.
LEMMA UseStep ==
  ASSUME Inv, NEW p \in Procs, Bwrite(p) \/ Bpin(p) \/ Bunpin(p)
  PROVE  Inv'
<1> USE NullAssumption
<1>1. PICK b \in Bufs, k \in Blocks :
        /\ cur[p] = b /\ want[p] = k /\ pc[p] = "have" /\ blockno[b] = k /\ valid[b] = 1
        /\ locked[b] = p /\ data[b] = latest[k] /\ data[b] \in Data
  <2>1. pc[p] = "have"
    BY DEF Bwrite, Bpin, Bunpin
  <2>2. cur[p] \in Bufs /\ want[p] \in Blocks /\ blockno[cur[p]] = want[p]
    BY <2>1, HasBuffer
  <2> QED BY <2>1, <2>2, SMTT(30) DEF Inv, ContentInv, LockInv, TypeOK
<1>2. /\ UNCHANGED <<blockno, valid, data, locked, lru, pc, want, cur, latest>>
  BY DEF Bwrite, Bpin, Bunpin, bufVars
<1>4. CASE Bwrite(p)
  <2>1. /\ blocks' = [blocks EXCEPT ![k] = data[b]] /\ dirty' = [dirty EXCEPT ![p] = 0]
        /\ UNCHANGED <<refcnt, pins, panic>>
    BY <1>1, <1>4 DEF Bwrite, holdingsleep, bufVars
  <2>2. /\ LruInv' /\ PinInv' /\ RefcntCounts' /\ BufferIdentity' /\ HoldersOnly' /\ LockInv'
    <3>1. LruInv' /\ PinInv'
      BY <1>2, <2>1, SameList, SamePins DEF Inv
    <3>2. RefcntCounts'
      BY <1>2, <2>1 DEF Inv, RefcntCounts
    <3>3. HoldersOnly' /\ LockInv'
      BY <1>2, <2>1 DEF Inv, HoldersOnly, LockInv
    <3>4. BufferIdentity'
      BY <1>2, <2>1 DEF Inv, BufferIdentity, OneBufferPerBlock, BufferKeepsBlock
    <3> QED BY <3>1, <3>2, <3>3, <3>4
  <2>3. TypeOK' /\ PlaceInv'
    BY <1>1, <1>2, <2>1, <2>2 DEF Inv, TypeOK, LruInv, PlaceInv
  <2>4. ASSUME NEW c \in Bufs, c # b, Kept(c)
        PROVE  Kept(c)'
    BY <1>1, <1>2, <2>1, <2>4 DEF Kept, Inv, TypeOK
  <2>5. ASSUME NEW m \in Blocks, blocks'[m] # latest'[m]
        PROVE  \E c \in Bufs : blockno'[c] = m /\ valid'[c] = 1 /\ Kept(c)'
    <3>1. m # k /\ blocks[m] # latest[m]
      BY <1>1, <1>2, <2>1, <2>5 DEF Inv, TypeOK
    <3>2. PICK c \in Bufs : blockno[c] = m /\ valid[c] = 1 /\ Kept(c)
      BY <3>1 DEF Inv, ContentInv
    <3> QED BY <1>1, <1>2, <2>4, <3>1, <3>2
  <2>6. ContentInv'
    BY <1>2, <2>5 DEF ContentInv, Inv
  <2> QED BY <2>2, <2>3, <2>6 DEF Inv
<1>5. CASE Bpin(p)
  <2>1. /\ refcnt' = [refcnt EXCEPT ![b] = @ + 1] /\ pins' = [pins EXCEPT ![b] = @ + 1]
        /\ pins[b] = 0 /\ Cardinality(Pinned) < MaxPins
        /\ dirty' = [dirty EXCEPT ![p] = 0] /\ UNCHANGED <<blocks, panic>>
    BY <1>1, <1>5 DEF Bpin, Counted, Pinned
  <2>2. /\ LruInv' /\ BufferIdentity' /\ HoldersOnly' /\ LockInv'
    BY <1>2, <2>1, SameList DEF Inv, BufferIdentity, OneBufferPerBlock,
         BufferKeepsBlock, HoldersOnly, LockInv
  <2>3. TypeOK' /\ PlaceInv'
    <3>1. refcnt' \in [Bufs -> Nat] /\ pins' \in [Bufs -> Nat]
      BY <1>1, <2>1, SMTT(30) DEF Inv, TypeOK
    <3> QED BY <1>1, <1>2, <2>1, <2>2, <3>1, SMTT(30) DEF Inv, TypeOK, LruInv, PlaceInv
  <2>4. PinInv'
    <3>1. Pinned' = Pinned \cup {b}
      BY <1>1, <2>1, SMTT(30) DEF Pinned, Inv, TypeOK
    <3>2. IsFiniteSet(Pinned) /\ b \notin Pinned /\ Cardinality(Pinned) \in Nat
      BY <2>1, NBufAssumption, FS_Subset, FS_CardinalityType, SMTT(30) DEF Pinned
    <3>4. Cardinality(Pinned \cup {b}) = Cardinality(Pinned) + 1
      BY <3>2, FS_AddElement
    <3>3. Cardinality(Pinned') <= MaxPins
      BY <2>1, <3>1, <3>2, <3>4, NBufAssumption, SMTT(30)
    <3> QED BY <1>1, <2>1, <3>3, SMTT(30) DEF PinInv, Inv, TypeOK
  <2>5. RefcntCounts'
    <3> SUFFICES ASSUME NEW c \in Bufs
                 PROVE  refcnt'[c] = Cardinality({q \in Procs : cur[q] = c}) + pins'[c]
      BY <1>2 DEF RefcntCounts
    <3> DEFINE users == Cardinality({q \in Procs : cur[q] = c})
    <3>1. refcnt[c] = users + pins[c] /\ users \in Nat
      BY UsersFinite DEF Inv, RefcntCounts
    <3> HIDE DEF users
    <3>2. /\ refcnt[c] \in Nat /\ pins[c] \in Nat
          /\ refcnt'[c] = refcnt[c] + (IF c = b THEN 1 ELSE 0)
          /\ pins'[c] = pins[c] + (IF c = b THEN 1 ELSE 0)
      BY <2>1, SMTT(30) DEF Inv, TypeOK
    <3>3. refcnt'[c] = users + pins'[c]
      BY <3>1, <3>2, SMTT(30)
    <3> QED BY <3>3 DEF users
  <2>6. ASSUME NEW c \in Bufs, Kept(c)
        PROVE  Kept(c)'
    <3>1. CASE c = b
      BY <1>1, <2>1, <3>1, SMTT(30) DEF Kept, Inv, TypeOK
    <3>2. CASE c # b
      BY <1>1, <1>2, <2>1, <2>6, <3>2, ZenonT(30) DEF Kept, Inv, TypeOK
    <3> QED BY <3>1, <3>2
  <2>7. ContentInv'
    BY <1>2, <2>1, <2>6, ZenonT(30) DEF ContentInv, Inv
  <2> QED BY <2>2, <2>3, <2>4, <2>5, <2>7 DEF Inv
<1>6. CASE Bunpin(p)
  <2>1. /\ refcnt' = [refcnt EXCEPT ![b] = @ - 1] /\ pins' = [pins EXCEPT ![b] = @ - 1]
        /\ pins[b] > 0 /\ blocks[k] = data[b] /\ UNCHANGED <<blocks, dirty, panic>>
    BY <1>1, <1>6 DEF Bunpin
  <2>2. pins[b] = 1 /\ refcnt[b] >= 1
    BY <1>1, <2>1, UsersCounted, SMTT(30) DEF Inv, PinInv
  <2>3. /\ LruInv' /\ BufferIdentity' /\ HoldersOnly' /\ LockInv'
    BY <1>2, <2>1, SameList, ZenonT(30) DEF Inv, BufferIdentity, OneBufferPerBlock, BufferKeepsBlock,
       HoldersOnly, LockInv
  <2>4. TypeOK' /\ PlaceInv'
    <3>1. refcnt' \in [Bufs -> Nat] /\ pins' \in [Bufs -> Nat]
      BY <1>1, <2>1, <2>2, SMTT(30) DEF Inv, TypeOK
    <3> QED BY <1>1, <1>2, <2>1, <2>3, <3>1, SMTT(30) DEF Inv, TypeOK, LruInv, PlaceInv
  <2>5. PinInv'
    <3>1. Pinned' = Pinned \ {b}
      BY <1>1, <2>1, <2>2, SMTT(30) DEF Pinned, Inv, TypeOK
    <3>2. IsFiniteSet(Pinned) /\ b \in Pinned /\ Cardinality(Pinned) \in Nat
      BY <1>1, <2>1, NBufAssumption, FS_Subset, FS_CardinalityType DEF Pinned
    <3>4. Cardinality(Pinned \ {b}) = Cardinality(Pinned) - 1
      BY <3>2, FS_RemoveElement
    <3>3. Cardinality(Pinned') <= MaxPins
      BY <3>1, <3>2, <3>4, NBufAssumption, SMTT(30) DEF Inv, PinInv
    <3> QED BY <1>1, <2>1, <2>2, <3>3, SMTT(30) DEF PinInv, Inv, TypeOK
  <2>6. RefcntCounts'
    <3> SUFFICES ASSUME NEW c \in Bufs
                 PROVE  refcnt'[c] = Cardinality({q \in Procs : cur[q] = c}) + pins'[c]
      BY <1>2 DEF RefcntCounts
    <3> DEFINE users == Cardinality({q \in Procs : cur[q] = c})
    <3>1. refcnt[c] = users + pins[c] /\ users \in Nat
      BY UsersFinite DEF Inv, RefcntCounts
    <3> HIDE DEF users
    <3>2. /\ refcnt[c] \in Nat /\ pins[c] \in Nat
          /\ refcnt'[c] = refcnt[c] - (IF c = b THEN 1 ELSE 0)
          /\ pins'[c] = pins[c] - (IF c = b THEN 1 ELSE 0)
      BY <2>1, SMTT(30) DEF Inv, TypeOK
    <3>3. refcnt'[c] = users + pins'[c]
      BY <3>1, <3>2, SMTT(30)
    <3> QED BY <3>3 DEF users
  <2>7. ASSUME NEW c \in Bufs, c # b, Kept(c)
        PROVE  Kept(c)'
    BY <1>2, <2>1, <2>7, ZenonT(30) DEF Kept, Inv, TypeOK
  <2>8. ASSUME NEW m \in Blocks, blocks'[m] # latest'[m]
        PROVE  \E c \in Bufs : blockno'[c] = m /\ valid'[c] = 1 /\ Kept(c)'
    <3>1. m # k /\ blocks[m] # latest[m]
      BY <1>1, <1>2, <2>1, <2>8, ZenonT(30)
    <3>2. PICK c \in Bufs : blockno[c] = m /\ valid[c] = 1 /\ Kept(c)
      BY <3>1 DEF Inv, ContentInv
    <3> QED BY <1>1, <1>2, <2>7, <3>1, <3>2
  <2>9. ContentInv'
    BY <1>2, <2>8 DEF ContentInv, Inv
  <2> QED BY <2>3, <2>4, <2>5, <2>6, <2>9 DEF Inv
<1> QED BY <1>4, <1>5, <1>6, ZenonT(30)

\* releasesleep() in brelse(), and a kill() of a sleeping process.
LEMMA ReleaseStep ==
  ASSUME Inv, NEW p \in Procs, ReleaseSleep(p) \/ Kill(p)
  PROVE  Inv'
<1> USE NullAssumption
<1>1. UNCHANGED <<blockno, valid, refcnt, data, lru, pins, blocks, want, cur, dirty, latest>>
  BY DEF ReleaseSleep, Kill, bufVars
<1>2. CASE ReleaseSleep(p)
  <2>1. PICK b \in Bufs : /\ cur[p] = b /\ pc[p] = "have" /\ dirty[p] = 0 /\ locked[b] = p
    BY <1>2, HasBuffer DEF ReleaseSleep, Inv, LockInv
  <2>2. /\ locked' = [locked EXCEPT ![b] = NULL] /\ panic' = panic
        /\ pc' = [WakeLock(pc, b) EXCEPT ![p] = "release"]
    BY <1>2, <2>1 DEF ReleaseSleep, holdingsleep
  <2>3. /\ pc'[p] = "release"
        /\ \A q \in Procs \ {p} :
             pc'[q] = IF pc[q] = "asleep" /\ cur[q] = b THEN "lock" ELSE pc[q]
        /\ pc' \in [Procs -> {"idle", "lock", "asleep", "locked", "have", "release"}]
    BY <2>2 DEF WakeLock, Inv, TypeOK
  <2>4. /\ LruInv' /\ PinInv' /\ RefcntCounts' /\ BufferIdentity' /\ HoldersOnly'
    BY <1>1, <2>2, SameList, SamePins DEF Inv, RefcntCounts, BufferIdentity, OneBufferPerBlock,
         BufferKeepsBlock, HoldersOnly
  <2>5. TypeOK' /\ PlaceInv'
    <3>1. TypeOK'
      BY <1>1, <2>1, <2>2, <2>3, <2>4, ZenonT(30) DEF Inv, TypeOK, LruInv
    <3>2. PlaceInv'
      BY <1>1, <2>1, <2>3, SMTT(30) DEF Inv, PlaceInv
    <3> QED BY <3>1, <3>2
  <2>6. LockInv'
    <3> SUFFICES ASSUME NEW q \in Procs
                 PROVE  /\ pc'[q] \in {"locked", "have"} => locked'[cur'[q]] = q
                        /\ pc'[q] = "asleep" => locked'[cur'[q]] \in Procs \ {q}
                        /\ \A c \in Bufs : locked'[c] = q => cur'[q] = c /\ pc'[q] \in {"locked", "have"}
      BY DEF LockInv
    <3>1. /\ pc[q] \in {"locked", "have"} => locked[cur[q]] = q
          /\ pc[q] = "asleep" => locked[cur[q]] \in Procs \ {q}
          /\ \A c \in Bufs : locked[c] = q => cur[q] = c /\ pc[q] \in {"locked", "have"}
      BY DEF Inv, LockInv
    <3>2. locked \in [Bufs -> Procs \cup {NULL}] /\ (pc[q] # "idle" => cur[q] \in Bufs)
      BY ZenonT(30) DEF Inv, TypeOK, PlaceInv
    <3>3. locked'[b] = NULL /\ \A c \in Bufs \ {b} : locked'[c] = locked[c]
      BY <2>2, <3>2
    <3> QED BY <1>1, <2>1, <2>3, <3>1, <3>2, <3>3, SMTT(30)
  <2>7. ContentInv'
    <3>1. \A q \in Procs : pc'[q] = "have" => pc[q] = "have"
      BY <2>1, <2>3
    <3> QED BY <1>1, <3>1, SMTT(30) DEF Inv, ContentInv, Kept
  <2> QED BY <2>4, <2>5, <2>6, <2>7 DEF Inv
<1>3. CASE Kill(p)
  <2>1. pc[p] = "asleep" /\ pc' = [pc EXCEPT ![p] = "lock"] /\ UNCHANGED <<locked, panic>>
    BY <1>3 DEF Kill, Goto, bufVars
  <2>2. /\ LruInv' /\ PinInv' /\ RefcntCounts' /\ BufferIdentity' /\ HoldersOnly'
    BY <1>1, <2>1, SameList, SamePins, ZenonT(30) DEF Inv, RefcntCounts, BufferIdentity, OneBufferPerBlock,
         BufferKeepsBlock, HoldersOnly
  <2>3. TypeOK' /\ PlaceInv' /\ LockInv'
    BY <1>1, <2>1, <2>2, SMTT(30) DEF Inv, TypeOK, LruInv, PlaceInv, LockInv
  <2>4. ContentInv'
    BY <1>1, <2>1, SMTT(30) DEF Inv, TypeOK, ContentInv, Kept
  <2> QED BY <2>2, <2>3, <2>4 DEF Inv
<1> QED BY <1>2, <1>3

\* The end of brelse().
LEMMA BrelseStep ==
  ASSUME Inv, NEW p \in Procs, Brelse(p)
  PROVE  Inv'
<1> USE NullAssumption
<1>1. PICK b \in Bufs : cur[p] = b /\ pc[p] = "release" /\ refcnt[b] >= 1
  BY HasBuffer, UsersCounted DEF Brelse, Inv
<1>2. /\ refcnt' = [refcnt EXCEPT ![b] = @ - 1] /\ pc' = [pc EXCEPT ![p] = "idle"]
      /\ want' = [want EXCEPT ![p] = NULL] /\ cur' = [cur EXCEPT ![p] = NULL]
      /\ lru' = (IF refcnt[b] = 1 THEN MoveToFront(b) ELSE lru)
      /\ UNCHANGED <<blockno, valid, data, locked, pins, blocks, dirty, latest, panic>>
  BY <1>1 DEF Brelse, Released, Goto
<1>3. LruInv' /\ PinInv' /\ HoldersOnly'
  <2>1. LruInv'
    BY <1>2, MovedToFront, SameList, ZenonT(30) DEF LruInv, Inv
  <2> QED BY <1>2, <2>1, SamePins DEF Inv, HoldersOnly
<1>4. TypeOK' /\ PlaceInv'
  <2>1. refcnt' \in [Bufs -> Nat]
    BY <1>1, <1>2, SMTT(30) DEF Inv, TypeOK
  <2> QED BY <1>1, <1>2, <1>3, <2>1 DEF Inv, TypeOK, LruInv, PlaceInv
<1>5. RefcntCounts'
  <2> SUFFICES ASSUME NEW c \in Bufs
               PROVE  refcnt'[c] = Cardinality({q \in Procs : cur'[q] = c}) + pins'[c]
    BY DEF RefcntCounts
  <2> DEFINE users == Cardinality({q \in Procs : cur[q] = c})
  <2>1. Cardinality({q \in Procs : cur'[q] = c}) = users - (IF b = c THEN 1 ELSE 0)
    BY <1>1, <1>2, UserGoes, ZenonT(30) DEF Inv
  <2>2. refcnt[c] = users + pins[c] /\ users \in Nat
    BY UsersFinite DEF Inv, RefcntCounts
  <2>3. refcnt[c] \in Nat /\ pins[c] \in Nat /\ refcnt'[c] = refcnt[c] - (IF b = c THEN 1 ELSE 0)
    BY <1>2, SMT DEF Inv, TypeOK
  <2> HIDE DEF users
  <2> QED BY <1>2, <2>1, <2>2, <2>3, SMTT(30)
<1>6. BufferIdentity' /\ LockInv'
  BY <1>1, <1>2, SMTT(30) DEF Inv, TypeOK, PlaceInv, BufferIdentity, OneBufferPerBlock,
     BufferKeepsBlock, LockInv
<1>7. \A c \in Bufs : Kept(c) => Kept(c)'
  BY <1>1, <1>2 DEF Inv, TypeOK, PlaceInv, Kept
<1>8. ContentInv'
  <2>1. \A q \in Procs : pc'[q] = "have" => valid'[cur'[q]] = 1
    BY <1>1, <1>2, ZenonT(30) DEF Inv, TypeOK, ContentInv
  <2> QED BY <1>2, <1>7, <2>1 DEF Inv, ContentInv
<1> QED BY <1>3, <1>4, <1>5, <1>6, <1>8 DEF Inv

\* The invariant holds in every reachable state.
THEOREM Invariance == Spec => []Inv
<1>1. Inv /\ [Next]_vars => Inv'
  <2> SUFFICES ASSUME Inv, [Next]_vars PROVE Inv'
    OBVIOUS
  <2>1. CASE UNCHANGED vars
    <3>1. LruInv' /\ PinInv'
      BY <2>1, SameList, SamePins DEF Inv, vars, bufVars
    <3>2. TypeOK' /\ PlaceInv' /\ LockInv'
      BY <2>1, <3>1 DEF Inv, TypeOK, LruInv, PlaceInv, LockInv, vars, bufVars
    <3>3. RefcntCounts' /\ BufferIdentity' /\ HoldersOnly'
      BY <2>1, ZenonT(30) DEF Inv, RefcntCounts, BufferIdentity, OneBufferPerBlock, BufferKeepsBlock,
           HoldersOnly, vars, bufVars
    <3>4. ContentInv'
      BY <2>1, SMT DEF Inv, ContentInv, Kept, vars, bufVars
    <3> QED BY <3>1, <3>2, <3>3, <3>4 DEF Inv
  <2>2. CASE Next
    BY <2>2, HitStep, MissStep, BreadStep, ModifyStep, UseStep, ReleaseStep, BrelseStep, ZenonT(30)
       DEF Next, Bget, Use
  <2> QED BY <2>1, <2>2
<1> QED BY <1>1, InvInit, PTL DEF Spec

---------------------------------------------------------------------------
(* What the invariant gives.                                               *)

\* From bget() to the end of brelse() a process has the block it asked for, in
\* the only buffer that caches it.
THEOREM BufferKeepsItsBlock == Spec => []BufferIdentity
BY Invariance, PTL DEF Inv

\* bread() returns what a process last gave the block, whatever was recycled.
THEOREM BreadReturnsLatest == Spec => []ReadsLatest
<1>1. Inv => ReadsLatest
  BY NullAssumption, HasBuffer, SMTT(30) DEF Inv, ContentInv, ReadsLatest
<1> QED BY <1>1, Invariance, PTL

\* One process at a time is inside a buffer, and no sleeper of acquiresleep()
\* is left without a holder who will wake it.
THEOREM SleepLockHandedOn == Spec => []LockHandedOn
<1>1. Inv => LockHandedOn
  BY NullAssumption, HasBuffer DEF Inv, LockInv, LockHandedOn, HolderUnique, SleeperHasHolder
<1> QED BY <1>1, Invariance, PTL

\* Only bget() can panic, and only with every buffer in use by a process that is
\* between bget() and brelse(), or pinned by the log.
OnlyOutOfBuffers ==
  panic' # panic => panic' = "bget: no buffers"
                    /\ \A b \in Bufs : pins[b] > 0 \/ \E p \in Procs : cur[p] = b

\* A buffer in use has a pin or a process.
LEMMA InUse ==
  ASSUME Inv, NEW b \in Bufs, refcnt[b] # 0
  PROVE  pins[b] > 0 \/ \E p \in Procs : cur[p] = b
<1> SUFFICES ASSUME ~(pins[b] > 0), \A p \in Procs : cur[p] # b
             PROVE  FALSE
  OBVIOUS
<1>1. {p \in Procs : cur[p] = b} = {}
  OBVIOUS
<1>2. Cardinality({p \in Procs : cur[p] = b}) = 0
  BY <1>1, FS_EmptySet
<1>3. pins[b] = 0
  BY SMT DEF Inv, TypeOK
<1> QED BY <1>2, <1>3, SMTT(30) DEF Inv, RefcntCounts

\* The only panic of bio.c that a caller who keeps to bread() .. brelse() can
\* meet is the one of bget() without a buffer to recycle.
THEOREM PanicsOnlyOutOfBuffers == Spec => [][OnlyOutOfBuffers]_vars
<1>1. Inv /\ Inv' /\ [Next]_vars => [OnlyOutOfBuffers]_vars
  <2> SUFFICES ASSUME Inv, Inv', Next, panic' # panic
               PROVE  OnlyOutOfBuffers
    BY DEF OnlyOutOfBuffers
  <2>1. panic' = "bget: no buffers"
    BY DEF Inv, HoldersOnly, Next
  <2>2. PICK p \in Procs, blk \in Blocks : BgetMiss(p, blk)
    BY <2>1 DEF Next, Bget, Bread, Use, BgetHit, AcquireSleep, BreadCached, BreadDisk, Modify,
         Bwrite, Bpin, Bunpin, ReleaseSleep, Brelse, Kill
  <2>3. Victims = {}
    BY <2>1, <2>2 DEF BgetMiss
  <2>4. \A b \in Bufs : refcnt[b] # 0
    BY <2>3, NoVictim DEF Inv
  <2> QED BY <2>1, <2>4, InUse DEF OnlyOutOfBuffers
<1> QED BY <1>1, Invariance, PTL DEF Spec

\* For any number of buffers, refcnt counts users and pins, the list holds every
\* buffer once, and bget() panics only when every buffer has a user or a pin.
THEOREM CountsAlwaysHold == Spec => []CountsHold
<1>1. Init => PanicsWhenFull
  BY DEF Init, PanicsWhenFull
<1>2. Inv /\ Inv' /\ PanicsWhenFull /\ [Next]_vars => PanicsWhenFull'
  <2>1. CASE UNCHANGED vars
    BY <2>1 DEF PanicsWhenFull, vars, bufVars
  <2>2. ASSUME Inv, Inv', Next, panic' # "none" PROVE PanicsWhenFull'
    <3>1. panic' = "bget: no buffers"
      BY <2>2 DEF Inv, HoldersOnly
    <3>2. PICK p \in Procs, blk \in Blocks : BgetMiss(p, blk)
      BY <2>2, <3>1 DEF Next, Bget, Bread, Use, BgetHit, AcquireSleep, BreadCached, BreadDisk,
           Modify, Bwrite, Bpin, Bunpin, ReleaseSleep, Brelse, Kill
    <3>3. Victims = {} /\ refcnt' = refcnt
      BY <2>2, <3>1, <3>2 DEF Next, BgetMiss
    <3>4. \A b \in Bufs : refcnt[b] # 0
      BY <2>2, <3>3, NoVictim DEF Inv
    <3> QED BY <3>1, <3>3, <3>4 DEF PanicsWhenFull
  <2> QED BY <2>1, <2>2 DEF PanicsWhenFull
<1>3. Inv /\ PanicsWhenFull => CountsHold
  BY DEF Inv, CountsHold
<1> QED BY <1>1, <1>2, <1>3, Invariance, PTL DEF Spec
=============================================================================
