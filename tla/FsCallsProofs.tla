--------------------------- MODULE FsCallsProofs ---------------------------
(***************************************************************************)
(* Proofs about FsCalls, for any number of processes, inodes, table slots  *)
(* and names, and any set of calls: the references of the inode table are  *)
(* counted (RefsCounted), iput() never waits for a lock while it holds     *)
(* itable.lock (PutNeverBlocks), and what ilock() hands out is what the    *)
(* disk has (Coherent).  First the inductive invariant Inv and, for each   *)
(* action, that it keeps Inv; then what the steps need of numbers and      *)
(* finite sets; then the conclusions.                                      *)
(***************************************************************************)
EXTENDS FsCalls, Integers, TLAPS

\* A leaf is first-order reasoning, which Zenon does, unless it cites SMT.
USE Zenon

---------------------------------------------------------------------------
(* The inductive invariant.                                                *)

Types == {"none", "dir", "file", "dev"}
Table ==
  [Slots -> [inum: 0 .. NInodes, ref: Int, valid: BOOLEAN, lock: Procs \cup {NULL},
             type: Types, nlink: Int]]
Dinodes == [Inums -> [type: Types, nlink: Int]]
Dirents == [Inums -> [Names -> 0 .. NInodes]]
Pointer == [Procs -> Slots \cup {NULL}]

Putting == {"put", "trunc", "inval", "drop"}
Labels == {"idle", "walk", "found", "parent", "linked", "dpbad", "unlink", "unlinked",
           "create", "exists", "created", "fail", "end"}

TypeInv ==
  /\ itable \in Table /\ dinode \in Dinodes /\ dirents \in Dirents
  /\ saved \in Dinodes \X Dirents
  /\ pc \in [Procs -> Labels \cup Putting] /\ ret \in [Procs -> Labels]
  /\ call \in [Procs -> Calls \cup {NULL}] /\ path \in [Procs -> Seq(Names)]
  /\ ip \in Pointer /\ dp \in Pointer /\ tgt \in Pointer /\ put \in Pointer
  /\ cwd \in [Procs -> Slots] /\ fd \in Pointer
  /\ calls \in Nat

\* Where a process is, or will be when iput() returns.
Place(p) == IF pc[p] \in Putting THEN ret[p] ELSE pc[p]

\* Which pointers a process has at each place.  Only link() keeps tgt while
\* it walks a path, and only a call that has not yet opened a file will.
PlaceAt(p) ==
  LET l == Place(p) IN
  /\ put[p] # NULL <=> pc[p] \in Putting
  /\ pc[p] \in {"trunc", "inval"} => dp[p] # put[p] /\ tgt[p] # put[p]
  /\ ip[p] # NULL <=> l \in {"walk", "found"}
  /\ dp[p] # NULL <=> l \in {"parent", "dpbad", "unlink", "create"}
  /\ l \in {"parent", "unlink", "create"} => path[p] # <<>>
  /\ l \in {"idle", "found", "end"} => tgt[p] = NULL
  /\ (l \in {"walk", "fail"} /\ tgt[p] # NULL) => call[p].op = "link"
  /\ l \in {"parent", "dpbad"} => (tgt[p] # NULL <=> call[p].op = "link")
  /\ l \in {"linked", "unlink", "unlinked", "create", "exists", "created"} => tgt[p] # NULL
  /\ l = "unlink" => call[p].op = "unlink"
  /\ l \notin {"idle", "end"} => call[p] \in Calls
  /\ (l \notin {"idle", "end"} /\ call[p].op \in {"creat", "open", "openw"}) => fd[p] = NULL
PlaceInv == \A p \in Procs : PlaceAt(p)

\* Whether p holds the lock of slot s.
Holds(p, s) ==
  \/ Place(p) \in {"unlink", "create", "dpbad"} /\ dp[p] = s
  \/ Place(p) \in {"unlinked", "created"} /\ tgt[p] = s
  \/ pc[p] \in {"trunc", "inval"} /\ put[p] = s

LockInv == \A p \in Procs, s \in Slots : itable[s].lock = p <=> Holds(p, s)

\* iget() keeps an inode in one slot.
OneSlot ==
  /\ \A s \in Slots : itable[s].ref > 0 => itable[s].inum \in Inums
  /\ \A s, t \in Slots :
       itable[s].ref > 0 /\ itable[t].ref > 0 /\ itable[s].inum = itable[t].inum => s = t

\* A copy in memory is the inode on the disk, which is in use, but for the
\* moment in which iput() has freed it and not yet forgotten the copy.
CopyOf(it, di, s) ==
  /\ it[s].type # "none"
  /\ di[it[s].inum].type = it[s].type
  /\ di[it[s].inum].nlink = it[s].nlink
Copied(s) == CopyOf(itable, dinode, s)
Freed(s) == \E p \in Procs : pc[p] = "inval" /\ put[p] = s
CopyInv == \A s \in Slots : itable[s].ref > 0 /\ itable[s].valid => Copied(s) \/ Freed(s)

Inv == TypeInv /\ PlaceInv /\ LockInv /\ RefsCounted /\ OneSlot /\ CopyInv

\* panic("ilock") and panic("iunlock") are out of reach: whoever is about to
\* lock an inode has a reference to it, and whoever is about to unlock one
\* has a reference to it and holds its lock.
LocksReferenced ==
  \A p \in Procs : 
    /\ Wants(p) # NULL => itable[Wants(p)].ref >= 1
    /\ \A s \in Slots : Holds(p, s) => itable[s].lock = p /\ itable[s].ref >= 1

\* An inode number is a number of the disk's range other than zero.
LEMMA InumRange ==
  /\ Inums \subseteq 0 .. NInodes /\ 0 \in 0 .. NInodes
  /\ \A i \in 0 .. NInodes : i # 0 => i \in Inums
  /\ ROOTINO \in Inums /\ ROOTINO \in 0 .. NInodes
BY InodeAssumption, SMT DEF Inums, ROOTINO

\* The counts of an entry are numbers, and so are their neighbours.
LEMMA NumberFields ==
  ASSUME NEW it \in Table, NEW s \in Slots
  PROVE  /\ it[s].ref \in Int /\ it[s].ref + 1 \in Int /\ it[s].ref - 1 \in Int
         /\ it[s].nlink \in Int /\ it[s].nlink + 1 \in Int /\ it[s].nlink - 1 \in Int
         /\ ~(it[s].ref > 0) => it[s].ref <= 0
         /\ 1 \in Int
BY SMT DEF Table

\* A process holds an inode lock only between certain places of its call.
LEMMA HoldsNone ==
  ASSUME NEW p \in Procs, NEW t \in Slots
  PROVE  LET free == /\ Place(p) \notin {"unlink", "create", "dpbad", "unlinked", "created"}
                     /\ pc[p] \notin {"trunc", "inval"}
         IN  (free => ~Holds(p, t)) /\ (free' => ~Holds(p, t)')
BY DEF Holds

\* At the others it holds the directory, or the inode it found or created.
LEMMA HoldsAt ==
  ASSUME NEW p \in Procs, NEW t \in Slots
  PROVE  LET out == pc[p] \notin {"trunc", "inval"}
             dir == out /\ Place(p) \in {"unlink", "create", "dpbad"}
             ino == out /\ Place(p) \in {"unlinked", "created"}
         IN  /\ dir => (Holds(p, t) <=> dp[p] = t)
             /\ ino => (Holds(p, t) <=> tgt[p] = t)
             /\ dir' => (Holds(p, t)' <=> dp'[p] = t)
             /\ ino' => (Holds(p, t)' <=> tgt'[p] = t)
BY DEF Holds

\* The lock of an entry names the process that holds it.
LEMMA LockOf ==
  ASSUME Inv, NEW p \in Procs, NEW t \in Slots
  PROVE  itable[t].lock = p <=> Holds(p, t)
BY DEF Inv, LockInv

\* NULL is neither a slot nor a process.
LEMMA NullApart == NULL \notin Slots /\ NULL \notin Procs
BY InodeAssumption

---------------------------------------------------------------------------
(* What the steps need of numbers and finite sets.  It is proved after     *)
(* them, from the library's theorems.                                      *)

\* The scan of iget() ends at a first slot if there is one.
HasLeast == \A S \in SUBSET Nat : S # {} => \E s \in S : \A t \in S : s <= t

\* When p changes one of its pointers, the count of such pointers to a slot
\* changes with it.
One(v, s) == IF v = s THEN 1 ELSE 0
Count(f, s) == Cardinality({p \in Procs : f[p] = s})
CountsChange ==
  \A f, g \in Pointer, p \in Procs, s \in Slots :
    (\A q \in Procs \ {p} : g[q] = f[q]) =>
      /\ Count(f, s) \in Nat /\ Count(g, s) \in Nat
      /\ Count(g, s) = Count(f, s) - One(f[p], s) + One(g[p], s)

Counting == HasLeast /\ CountsChange

---------------------------------------------------------------------------
(* The operations of the inode table, field by field.                      *)

\* What iget() finds: the slot of inode i, or a free one if it has none.
LEMMA SlotFound ==
  ASSUME Counting, NEW it \in Table, NEW i, Slot(it, i) # 0
  PROVE  /\ Slot(it, i) \in Slots
         /\ \/ it[Slot(it, i)].ref > 0 /\ it[Slot(it, i)].inum = i
            \/ /\ it[Slot(it, i)].ref = 0
               /\ \A t \in Slots : ~(it[t].ref > 0 /\ it[t].inum = i)
<1> DEFINE hit == {s \in Slots : it[s].ref > 0 /\ it[s].inum = i}
           empty == {s \in Slots : it[s].ref = 0}
           first(S) == CHOOSE s \in S : \A t \in S : s <= t
<1>1. Slots \in SUBSET Nat
  BY InodeAssumption, SMT DEF Slots
<1>2. ASSUME NEW S \in SUBSET Slots, S # {} PROVE first(S) \in S
  BY <1>1, <1>2 DEF Counting, HasLeast
<1>3. Slot(it, i) = IF hit # {} THEN first(hit) ELSE IF empty # {} THEN first(empty) ELSE 0
  BY DEF Slot
<1>4. CASE hit # {}
  <2>1. first(hit) \in hit
    BY <1>2, <1>4
  <2> HIDE DEF first
  <2> QED
    BY <1>3, <1>4, <2>1
<1>5. CASE hit = {} /\ empty # {}
  <2>1. first(empty) \in empty
    BY <1>2, <1>5
  <2> HIDE DEF first
  <2> QED
    BY <1>3, <1>5, <2>1
<1> QED
  BY <1>3, <1>4, <1>5

\* The scan looks at counts and numbers only.
LEMMA SlotSame ==
  ASSUME NEW it, NEW jt, NEW i,
         \A t \in Slots : jt[t].ref = it[t].ref /\ jt[t].inum = it[t].inum
  PROVE  Slot(jt, i) = Slot(it, i)
<1> DEFINE hit(x) == {s \in Slots : x[s].ref > 0 /\ x[s].inum = i}
           empty(x) == {s \in Slots : x[s].ref = 0}
           first(S) == CHOOSE s \in S : \A t \in S : s <= t
<1>1. hit(jt) = hit(it)
  OBVIOUS
<1>2. empty(jt) = empty(it)
  OBVIOUS
<1>3. Slot(jt, i) = IF hit(jt) # {} THEN first(hit(jt))
                    ELSE IF empty(jt) # {} THEN first(empty(jt)) ELSE 0
  BY DEF Slot
<1>4. Slot(it, i) = IF hit(it) # {} THEN first(hit(it))
                    ELSE IF empty(it) # {} THEN first(empty(it)) ELSE 0
  BY DEF Slot
<1> HIDE DEF hit, empty, first
<1> QED
  BY <1>1, <1>2, <1>3, <1>4, SMT

\* Changes of one field of one slot.
LEMMA SetRef ==
  ASSUME NEW it \in Table, NEW s \in Slots, NEW n \in Int
  PROVE  LET jt == [it EXCEPT ![s].ref = n]
         IN  /\ jt \in Table
             /\ \A t \in Slots \ {s} : jt[t] = it[t]
             /\ jt[s].ref = n /\ jt[s].inum = it[s].inum /\ jt[s].valid = it[s].valid
             /\ jt[s].lock = it[s].lock /\ jt[s].type = it[s].type /\ jt[s].nlink = it[s].nlink
BY DEF Table

\* A change of the lock.
LEMMA SetLock ==
  ASSUME NEW it \in Table, NEW s \in Slots, NEW n \in Procs \cup {NULL}
  PROVE  LET jt == [it EXCEPT ![s].lock = n]
         IN  /\ jt \in Table
             /\ \A t \in Slots \ {s} : jt[t] = it[t]
             /\ jt[s].ref = it[s].ref /\ jt[s].inum = it[s].inum /\ jt[s].valid = it[s].valid
             /\ jt[s].lock = n /\ jt[s].type = it[s].type /\ jt[s].nlink = it[s].nlink
BY DEF Table

\* ip->valid = 0.
LEMMA Forgotten ==
  ASSUME NEW it \in Table, NEW s \in Slots, NEW jt, jt = Invalidated(it, s)
  PROVE  /\ jt \in Table
         /\ \A t \in Slots \ {s} : jt[t] = it[t]
         /\ jt[s].ref = it[s].ref /\ jt[s].inum = it[s].inum /\ ~jt[s].valid
<1>1. jt = [it EXCEPT ![s].valid = FALSE]
  BY DEF Invalidated
<1>2. jt \in Table
  <2>1. ASSUME NEW b \in BOOLEAN PROVE [it EXCEPT ![s].valid = b] \in Table
    BY DEF Table
  <2>2. FALSE \in BOOLEAN
    OBVIOUS
  <2> QED
    BY <1>1, <2>1, <2>2
<1>3. \A t \in Slots \ {s} : jt[t] = it[t]
  BY <1>1 DEF Table
<1>4. jt[s].ref = it[s].ref /\ jt[s].inum = it[s].inum
  BY <1>1 DEF Table
<1>5. ~jt[s].valid
  BY <1>1 DEF Table
<1> QED
  BY <1>2, <1>3, <1>4, <1>5

\* A change of nlink.
LEMMA SetNlink ==
  ASSUME NEW it \in Table, NEW s \in Slots, NEW n \in Int
  PROVE  LET jt == SetLinks(it, s, n)
         IN  /\ jt \in Table
             /\ \A t \in Slots \ {s} : jt[t] = it[t]
             /\ jt[s].ref = it[s].ref /\ jt[s].inum = it[s].inum /\ jt[s].valid = it[s].valid
             /\ jt[s].lock = it[s].lock /\ jt[s].type = it[s].type /\ jt[s].nlink = n
BY DEF Table, SetLinks

\* iunlock(): the lock is free, the rest of the entry is as it was.
LEMMA Unlocked ==
  ASSUME NEW it \in Table, NEW s \in Slots
  PROVE  LET jt == iunlock(it, s)
         IN  /\ jt \in Table
             /\ \A t \in Slots \ {s} : jt[t] = it[t]
             /\ jt[s].ref = it[s].ref /\ jt[s].inum = it[s].inum /\ jt[s].valid = it[s].valid
             /\ jt[s].lock = NULL /\ jt[s].type = it[s].type /\ jt[s].nlink = it[s].nlink
BY SetLock, SMT DEF iunlock

\* ilock(): the slot is locked and valid, and was read if it was not valid.
LEMMA Locked ==
  ASSUME NEW it \in Table, NEW s \in Slots, NEW p \in Procs, dinode \in Dinodes,
         it[s].inum \in Inums
  PROVE  LET jt == ilock(it, p, s)
         IN  /\ jt \in Table
             /\ \A t \in Slots \ {s} : jt[t] = it[t]
             /\ jt[s].ref = it[s].ref /\ jt[s].inum = it[s].inum /\ jt[s].valid
             /\ jt[s].lock = p
             /\ it[s].valid => jt[s].type = it[s].type /\ jt[s].nlink = it[s].nlink
             /\ ~it[s].valid => /\ jt[s].type = dinode[it[s].inum].type
                                /\ jt[s].nlink = dinode[it[s].inum].nlink
<1>1. dinode[it[s].inum].type \in Types /\ dinode[it[s].inum].nlink \in Int
  BY DEF Dinodes
<1>2. CASE it[s].valid
  BY <1>2 DEF Table, ilock
<1>3. CASE ~it[s].valid
  BY <1>1, <1>3, ZenonT(30) DEF Table, ilock
<1> QED
  BY <1>2, <1>3

\* iget(): one more reference, to the slot the inode has or to a free one,
\* which is then its slot and not valid.
LEMMA Got ==
  ASSUME Counting, NEW it \in Table, NEW i \in Inums, NEW s, s = Slot(it, i), s # 0
  PROVE  LET jt == iget(it, i)
         IN  /\ s \in Slots /\ jt \in Table
             /\ \A t \in Slots \ {s} : jt[t] = it[t]
             /\ jt[s].ref = it[s].ref + 1 /\ jt[s].inum = i /\ jt[s].lock = it[s].lock
             /\ it[s].ref > 0 => /\ it[s].inum = i /\ jt[s].valid = it[s].valid
                                 /\ jt[s].type = it[s].type /\ jt[s].nlink = it[s].nlink
             /\ it[s].ref <= 0 => /\ ~jt[s].valid
                                  /\ \A t \in Slots : ~(it[t].ref > 0 /\ it[t].inum = i)
<1>1. /\ s \in Slots
      /\ \/ it[s].ref > 0 /\ it[s].inum = i
         \/ it[s].ref = 0 /\ \A t \in Slots : ~(it[t].ref > 0 /\ it[t].inum = i)
  BY SlotFound
<1>2. CASE it[s].ref > 0
  <2>1. iget(it, i) = [it EXCEPT ![s].ref = it[s].ref + 1]
    BY <1>2 DEF iget, Referenced
  <2> DEFINE n == it[s].ref + 1
             jt == [it EXCEPT ![s].ref = n]
  <2>2. it[s].ref \in Int /\ n \in Int
    BY <1>1, NumberFields
  <2> HIDE DEF n
  <2>3. /\ jt \in Table
        /\ \A t \in Slots \ {s} : jt[t] = it[t]
        /\ jt[s].ref = n /\ jt[s].inum = it[s].inum /\ jt[s].valid = it[s].valid
        /\ jt[s].lock = it[s].lock /\ jt[s].type = it[s].type /\ jt[s].nlink = it[s].nlink
    BY <1>1, <2>2, SetRef, SMT
  <2>4. iget(it, i) = jt
    BY <2>1 DEF n
  <2>5. it[s].inum = i /\ ~(it[s].ref <= 0)
    BY <1>1, <1>2, <2>2, SMT
  <2> HIDE DEF jt
  <2> QED
    BY <1>1, <1>2, <2>3, <2>4, <2>5 DEF n
<1>3. CASE it[s].ref = 0 /\ \A t \in Slots : ~(it[t].ref > 0 /\ it[t].inum = i)
  <2>1. iget(it, i) = [it EXCEPT ![s].inum = i, ![s].ref = 1, ![s].valid = FALSE]
    BY <1>3, SMT DEF iget
  <2>2. i \in 0 .. NInodes
    BY InumRange
  <2> QED
    BY <1>1, <1>3, <2>1, <2>2, SMT DEF Table
<1> QED
  BY <1>1, <1>2, <1>3

---------------------------------------------------------------------------
(* References.                                                             *)

\* The pointers to slot s that p has.
Held(p, s) ==
  One(ip[p], s) + One(dp[p], s) + One(tgt[p], s) + One(put[p], s) + One(cwd[p], s) + One(fd[p], s)

\* It is a number of pointers.
LEMMA HeldNat ==
  ASSUME NEW p, NEW s
  PROVE  Held(p, s) \in Nat /\ Held(p, s)' \in Nat
BY SMT DEF Held, One

\* A pointer that p hands to iput() is still counted once.
LEMMA PutAway ==
  ASSUME NEW p \in Procs, NEW t \in Slots,
         put[p] = NULL, cwd'[p] = cwd[p], fd'[p] = fd[p],
         \/ put'[p] = ip[p] /\ ip'[p] = NULL /\ dp'[p] = dp[p] /\ tgt'[p] = tgt[p]
         \/ put'[p] = dp[p] /\ dp'[p] = NULL /\ ip'[p] = ip[p] /\ tgt'[p] = tgt[p]
         \/ put'[p] = tgt[p] /\ tgt'[p] = NULL /\ ip'[p] = ip[p] /\ dp'[p] = dp[p]
  PROVE  Held(p, t)' = Held(p, t)
BY InodeAssumption, SMT DEF Held, One

\* A pointer that p gets from iget() is counted once more, also when p hands
\* the directory to iput() in the same step.
LEMMA TookOne ==
  ASSUME NEW p \in Procs, NEW t \in Slots, NEW g,
         put[p] = NULL, cwd'[p] = cwd[p], fd'[p] = fd[p], ip'[p] = ip[p],
         \/ put'[p] = g /\ dp'[p] = dp[p] /\ tgt'[p] = tgt[p]
         \/ tgt[p] = NULL /\ tgt'[p] = g /\ dp'[p] = dp[p] /\ put'[p] = NULL
         \/ tgt[p] = NULL /\ tgt'[p] = g /\ dp'[p] = NULL /\ put'[p] = dp[p]
  PROVE  Held(p, t)' = Held(p, t) + One(g, t)
BY InodeAssumption, SMT DEF Held, One

\* The same, as a lemma.
LEMMA Recount ==
  ASSUME Counting, NEW f \in Pointer, NEW g \in Pointer, NEW p \in Procs, NEW s \in Slots,
         \A q \in Procs \ {p} : g[q] = f[q]
  PROVE  /\ Count(f, s) \in Nat /\ Count(g, s) \in Nat
         /\ Count(g, s) = Count(f, s) - One(f[p], s) + One(g[p], s)
BY DEF Counting, CountsChange

\* A slot has at least the references its pointers stand for.
LEMMA HeldCounts ==
  ASSUME Counting, TypeInv, RefsCounted, NEW p \in Procs, NEW s \in Slots
  PROVE  itable[s].ref \in Nat /\ itable[s].ref >= Held(p, s)
<1>1. ASSUME NEW f \in Pointer PROVE Count(f, s) \in Nat /\ Count(f, s) >= One(f[p], s)
  <2> DEFINE g == [f EXCEPT ![p] = NULL]
  <2>1. /\ Count(f, s) \in Nat /\ Count(g, s) \in Nat
        /\ Count(g, s) = Count(f, s) - One(f[p], s) + One(g[p], s)
    <3>1. g \in Pointer /\ \A q \in Procs \ {p} : g[q] = f[q]
      BY DEF Pointer
    <3> HIDE DEF g
    <3> QED
      BY <3>1, Recount
  <2>2. One(g[p], s) = 0
    BY InodeAssumption DEF One, Pointer
  <2> HIDE DEF g
  <2> QED
    BY <2>1, <2>2, SMT DEF One
<1>2. itable[s].ref = Count(ip, s) + Count(dp, s) + Count(tgt, s) + Count(put, s)
                      + Count(cwd, s) + Count(fd, s)
  BY DEF RefsCounted, Pointers, Count
<1>3. /\ Count(ip, s) \in Nat /\ Count(ip, s) >= One(ip[p], s)
      /\ Count(dp, s) \in Nat /\ Count(dp, s) >= One(dp[p], s)
      /\ Count(tgt, s) \in Nat /\ Count(tgt, s) >= One(tgt[p], s)
  BY <1>1 DEF TypeInv
<1>4. /\ Count(put, s) \in Nat /\ Count(put, s) >= One(put[p], s)
      /\ Count(cwd, s) \in Nat /\ Count(cwd, s) >= One(cwd[p], s)
      /\ Count(fd, s) \in Nat /\ Count(fd, s) >= One(fd[p], s)
  <2>1. cwd \in Pointer
    BY DEF TypeInv, Pointer
  <2> QED
    BY <1>1, <2>1 DEF TypeInv
<1> QED
  BY <1>2, <1>3, <1>4, SMT DEF Held, One

---------------------------------------------------------------------------
(* Steps of one process.                                                   *)

\* No other process moves.
Own(p) ==
  \A q \in Procs \ {p} :
    /\ pc'[q] = pc[q] /\ ret'[q] = ret[q] /\ call'[q] = call[q] /\ path'[q] = path[q]
    /\ ip'[q] = ip[q] /\ dp'[q] = dp[q] /\ tgt'[q] = tgt[q] /\ put'[q] = put[q]
    /\ cwd'[q] = cwd[q] /\ fd'[q] = fd[q]

\* The table counts the pointers p gained and lost.
Counted(p) ==
  \A s \in Slots : itable'[s].ref = itable[s].ref + Held(p, s)' - Held(p, s)

\* p has taken and released locks for itself only, and has those it should.
LocksOwn(p) ==
  \A s \in Slots :
    /\ itable'[s].lock = p <=> Holds(p, s)'
    /\ \/ itable'[s].lock = itable[s].lock
       \/ itable[s].lock \in {p, NULL} /\ itable'[s].lock \in {p, NULL}

\* A step of p preserves the invariant if it does so for p and for the table:
\* the other processes have the pointers, places and locks they had.
LEMMA Reduce ==
  ASSUME Counting, Inv, NEW p \in Procs, Own(p), TypeInv', PlaceAt(p)', Counted(p), LocksOwn(p),
         OneSlot', CopyInv'
  PROVE  Inv'
<1>1. PlaceInv'
  <2>1. ASSUME NEW q \in Procs \ {p} PROVE PlaceAt(q)'
    <3>1. PlaceAt(q)
      BY DEF Inv, PlaceInv
    <3> QED
      BY <3>1, ZenonT(30) DEF Own, PlaceAt, Place
  <2> QED
    BY <2>1 DEF PlaceInv
<1>2. LockInv'
  <2> SUFFICES ASSUME NEW q \in Procs, NEW s \in Slots
               PROVE  (itable[s].lock = q <=> Holds(q, s))'
    BY DEF LockInv
  <2>1. CASE q = p
    BY <2>1 DEF LocksOwn
  <2>2. CASE q # p
    <3>1. itable[s].lock = q <=> Holds(q, s)
      BY DEF Inv, LockInv
    <3>2. Holds(q, s)' <=> Holds(q, s)
      BY <2>2 DEF Holds, Place, Own
    <3>3. q # NULL
      BY InodeAssumption
    <3>4. itable'[s].lock = q <=> itable[s].lock = q
      BY <2>2, <3>3 DEF LocksOwn
    <3> QED
      BY <3>1, <3>2, <3>4
  <2> QED
    BY <2>1, <2>2
<1>3. RefsCounted'
  <2> SUFFICES ASSUME NEW s \in Slots PROVE itable'[s].ref = Pointers(s)'
    BY DEF RefsCounted
  <2>1. /\ itable[s].ref = Count(ip, s) + Count(dp, s) + Count(tgt, s) + Count(put, s)
                           + Count(cwd, s) + Count(fd, s)
        /\ Pointers(s)' = Count(ip', s) + Count(dp', s) + Count(tgt', s) + Count(put', s)
                          + Count(cwd', s) + Count(fd', s)
    BY DEF Inv, RefsCounted, Pointers, Count
  <2>2. itable'[s].ref = itable[s].ref + Held(p, s)' - Held(p, s)
    BY DEF Counted
  <2>3. /\ Count(ip, s) \in Nat /\ Count(ip', s) \in Nat
        /\ Count(ip', s) = Count(ip, s) - One(ip[p], s) + One(ip'[p], s)
    <3>1. ip \in Pointer /\ ip' \in Pointer /\ \A q \in Procs \ {p} : ip'[q] = ip[q]
      BY DEF Own, Inv, TypeInv
    <3> QED
      BY <3>1, Recount
  <2>4. /\ Count(dp, s) \in Nat /\ Count(dp', s) \in Nat
        /\ Count(dp', s) = Count(dp, s) - One(dp[p], s) + One(dp'[p], s)
    <3>1. dp \in Pointer /\ dp' \in Pointer /\ \A q \in Procs \ {p} : dp'[q] = dp[q]
      BY DEF Own, Inv, TypeInv
    <3> QED
      BY <3>1, Recount
  <2>5. /\ Count(tgt, s) \in Nat /\ Count(tgt', s) \in Nat
        /\ Count(tgt', s) = Count(tgt, s) - One(tgt[p], s) + One(tgt'[p], s)
    <3>1. tgt \in Pointer /\ tgt' \in Pointer /\ \A q \in Procs \ {p} : tgt'[q] = tgt[q]
      BY DEF Own, Inv, TypeInv
    <3> QED
      BY <3>1, Recount
  <2>6. /\ Count(put, s) \in Nat /\ Count(put', s) \in Nat
        /\ Count(put', s) = Count(put, s) - One(put[p], s) + One(put'[p], s)
    <3>1. put \in Pointer /\ put' \in Pointer /\ \A q \in Procs \ {p} : put'[q] = put[q]
      BY DEF Own, Inv, TypeInv
    <3> QED
      BY <3>1, Recount
  <2>7. /\ Count(cwd, s) \in Nat /\ Count(cwd', s) \in Nat
        /\ Count(cwd', s) = Count(cwd, s) - One(cwd[p], s) + One(cwd'[p], s)
    <3>1. cwd \in Pointer /\ cwd' \in Pointer /\ \A q \in Procs \ {p} : cwd'[q] = cwd[q]
      BY DEF Own, Inv, TypeInv, Pointer
    <3> QED
      BY <3>1, Recount
  <2>8. /\ Count(fd, s) \in Nat /\ Count(fd', s) \in Nat
        /\ Count(fd', s) = Count(fd, s) - One(fd[p], s) + One(fd'[p], s)
    <3>1. fd \in Pointer /\ fd' \in Pointer /\ \A q \in Procs \ {p} : fd'[q] = fd[q]
      BY DEF Own, Inv, TypeInv
    <3> QED
      BY <3>1, Recount
  <2>9. \A v : One(v, s) \in Nat
    BY DEF One
  <2> QED
    BY <2>1, <2>2, <2>3, <2>4, <2>5, <2>6, <2>7, <2>8, <2>9, SMT DEF Held
<1> QED
  BY <1>1, <1>2, <1>3 DEF Inv

\* iget() alone gives a slot to an inode.
LEMMA OneSlotKept ==
  ASSUME Inv, \A s \in Slots : /\ itable'[s].inum = itable[s].inum
                               /\ itable'[s].ref > 0 => itable[s].ref > 0
  PROVE  OneSlot'
BY DEF Inv, OneSlot

\* A copy that is not the disk's is one another process has freed.
LEMMA CopyKept ==
  ASSUME Inv, NEW p \in Procs, Own(p), pc[p] # "inval",
         \A s \in Slots : itable'[s].ref > 0 /\ itable'[s].valid => Copied(s)' \/ Freed(s)
  PROVE  CopyInv'
<1>1. ASSUME NEW s \in Slots, Freed(s) PROVE Freed(s)'
  BY <1>1 DEF Freed, Own
<1> QED
  BY <1>1 DEF CopyInv

\* Steps that leave the table and the disk alone.
LEMMA TableKept ==
  ASSUME Counting, Inv, NEW p \in Procs, Own(p), pc[p] # "inval", UNCHANGED <<itable, dinode>>,
         TypeInv', PlaceAt(p)',
         \A s \in Slots : Held(p, s)' = Held(p, s) /\ (Holds(p, s)' <=> Holds(p, s))
  PROVE  Inv'
<1>1. Counted(p)
  <2> SUFFICES ASSUME NEW s \in Slots PROVE itable'[s].ref = itable[s].ref + Held(p, s)' - Held(p, s)
    BY DEF Counted
  <2>1. itable[s].ref \in Int /\ Held(p, s) \in Nat
    BY HeldNat DEF Inv, TypeInv, Table
  <2> QED
    BY <2>1, SMT
<1>2. LocksOwn(p)
  BY DEF LocksOwn, Inv, LockInv
<1>3. OneSlot'
  BY OneSlotKept
<1>4. CopyInv'
  <2>1. ASSUME NEW s \in Slots, itable'[s].ref > 0 /\ itable'[s].valid PROVE Copied(s)' \/ Freed(s)
    BY <2>1 DEF Inv, CopyInv, Copied, CopyOf
  <2> QED
    BY <2>1, CopyKept
<1> QED
  BY <1>1, <1>2, <1>3, <1>4, Reduce

\* close() of the open file.
LEMMA CloseStep ==
  ASSUME Counting, Inv, NEW p \in Procs, Close(p)
  PROVE  Inv'
<1>1. Own(p)
  BY DEF Close, Iput, Set, Own, Inv, TypeInv, Pointer
<1>2. TypeInv'
  BY DEF Close, Iput, Set, Inv, TypeInv, Pointer, Putting, Labels, diskVars
<1>3. PlaceAt(p) /\ pc[p] = "idle" /\ pc'[p] = "put" /\ ret'[p] = "end" /\ put[p] = NULL
  BY DEF Close, Iput, Set, Inv, TypeInv, Pointer, PlaceInv, PlaceAt, Putting
<1>4. Place(p) = "idle" /\ Place(p)' = "end"
  BY <1>3 DEF Place, Putting
<1>5. /\ ip'[p] = ip[p] /\ dp'[p] = dp[p] /\ tgt'[p] = tgt[p] /\ cwd'[p] = cwd[p]
      /\ put'[p] = fd[p] /\ fd'[p] = NULL /\ fd[p] # NULL
  BY DEF Close, Iput, Set, Inv, TypeInv, Pointer
<1>6. PlaceAt(p)'
  BY <1>3, <1>4, <1>5 DEF PlaceAt, Putting
<1>7. ASSUME NEW s \in Slots PROVE Held(p, s)' = Held(p, s) /\ (Holds(p, s)' <=> Holds(p, s))
  BY <1>3, <1>4, <1>5, InodeAssumption, SMT DEF Held, One, Holds
<1> QED
  BY <1>1, <1>2, <1>3, <1>6, <1>7, TableKept DEF Close, diskVars

\* namex() has walked the path.
LEMMA WalkEndStep ==
  ASSUME Counting, Inv, NEW p \in Procs, WalkEnd(p)
  PROVE  Inv'
<1>0. PlaceAt(p) /\ pc[p] = "walk" /\ put[p] = NULL /\ Place(p) = "walk" /\ ip[p] \in Slots
  BY ZenonT(30) DEF WalkEnd, Inv, TypeInv, Pointer, PlaceInv, PlaceAt, Place, Putting
<1>1. Own(p)
  BY ZenonT(30) DEF WalkEnd, Iput, Goto, Set, Own, Inv, TypeInv, Pointer, Keep, Same
<1>2. TypeInv'
  <2>1. CASE Parent(p)
    BY <1>0, <2>1, ZenonT(30) DEF WalkEnd, Iput, Set, Inv, TypeInv, Pointer, Putting, Labels, diskVars,
       Keep, Same
  <2>2. CASE ~Parent(p)
    BY <1>0, <2>2 DEF WalkEnd, Goto, Set, Inv, TypeInv, Pointer, Putting, Labels, diskVars, Keep, Same
  <2> QED
    BY <2>1, <2>2
<1>3. /\ dp'[p] = dp[p] /\ tgt'[p] = tgt[p] /\ cwd'[p] = cwd[p] /\ fd'[p] = fd[p]
      /\ call'[p] = call[p] /\ path'[p] = path[p]
  BY DEF WalkEnd, Keep, Same
<1>4. CASE Parent(p)
  <2>1. /\ pc'[p] = "put" /\ ret'[p] = "fail" /\ put'[p] = ip[p] /\ ip'[p] = NULL
        /\ Place(p)' = "fail"
    BY <1>4, ZenonT(30) DEF WalkEnd, Iput, Set, Inv, TypeInv, Pointer, Place, Putting
  <2>2. PlaceAt(p)'
    BY <1>0, <1>3, <2>1 DEF PlaceAt, Putting
  <2>3. ASSUME NEW s \in Slots PROVE Held(p, s)' = Held(p, s) /\ (Holds(p, s)' <=> Holds(p, s))
    BY <1>0, <1>3, <2>1, PutAway, HoldsNone
  <2> QED
    BY <1>0, <1>1, <1>2, <2>2, <2>3, TableKept DEF WalkEnd, diskVars
<1>5. CASE ~Parent(p)
  <2>1. pc'[p] = "found" /\ ret'[p] = ret[p] /\ put'[p] = put[p] /\ ip'[p] = ip[p]
    BY <1>5 DEF WalkEnd, Goto, Inv, TypeInv
  <2>2. Place(p)' = "found" /\ tgt[p] = NULL
    BY <1>5, <2>1 DEF Place, Putting, Parent
  <2>3. PlaceAt(p)'
    BY <1>0, <1>3, <2>1, <2>2 DEF PlaceAt, Putting
  <2>4. ASSUME NEW s \in Slots PROVE Held(p, s)' = Held(p, s) /\ (Holds(p, s)' <=> Holds(p, s))
    BY <1>0, <1>3, <2>1, <2>2, InodeAssumption, ZenonT(30) DEF Held, One, Holds
  <2> QED
    BY <1>0, <1>1, <1>2, <2>3, <2>4, TableKept DEF WalkEnd, diskVars
<1> QED
  BY <1>4, <1>5

\* sys_link() has entered the name and puts the old inode.
LEMMA LinkedStep ==
  ASSUME Counting, Inv, NEW p \in Procs, Linked(p)
  PROVE  Inv'
<1>0. PlaceAt(p) /\ pc[p] = "linked" /\ put[p] = NULL /\ Place(p) = "linked" /\ tgt[p] \in Slots
  BY ZenonT(30) DEF Linked, Inv, TypeInv, Pointer, PlaceInv, PlaceAt, Place, Putting
<1>1. Own(p)
  BY DEF Linked, Iput, Set, Own, Inv, TypeInv, Pointer, Keep, Same
<1>2. TypeInv'
  BY <1>0 DEF Linked, Iput, Set, Inv, TypeInv, Pointer, Putting, Labels, diskVars, Keep, Same
<1>3. /\ ip'[p] = ip[p] /\ dp'[p] = dp[p] /\ cwd'[p] = cwd[p] /\ fd'[p] = fd[p]
      /\ call'[p] = call[p] /\ path'[p] = path[p]
      /\ pc'[p] = "put" /\ ret'[p] = "end" /\ put'[p] = tgt[p] /\ tgt'[p] = NULL
      /\ Place(p)' = "end"
  BY DEF Linked, Iput, Set, Inv, TypeInv, Pointer, Place, Putting, Keep, Same
<1>4. PlaceAt(p)'
  BY <1>0, <1>3 DEF PlaceAt, Putting
<1>5. ASSUME NEW s \in Slots PROVE Held(p, s)' = Held(p, s) /\ (Holds(p, s)' <=> Holds(p, s))
  BY <1>0, <1>3, PutAway, HoldsNone
<1> QED
  BY <1>0, <1>1, <1>2, <1>4, <1>5, TableKept DEF Linked, diskVars

\* end_op().
LEMMA EndStep ==
  ASSUME Counting, Inv, NEW p \in Procs, End(p)
  PROVE  Inv'
<1>0. PlaceAt(p) /\ pc[p] \in {"end", "fail"} /\ put[p] = NULL /\ Place(p) = pc[p] /\ tgt[p] = NULL
  BY ZenonT(30) DEF End, Inv, TypeInv, Pointer, PlaceInv, PlaceAt, Place, Putting
<1>1. Own(p)
  BY DEF End, Goto, Set, Own, Inv, TypeInv, Pointer, ptrVars
<1>2. TypeInv'
  <2>1. <<>> \in Seq(Names) /\ diskVars \in Dinodes \X Dirents
    BY SMT DEF Inv, TypeInv, diskVars
  <2>2. saved' \in Dinodes \X Dirents
    BY <2>1 DEF End, Inv, TypeInv
  <2> QED
    BY <1>0, <2>1, <2>2 DEF End, Goto, Set, Inv, TypeInv, Pointer, Putting, Labels, diskVars, ptrVars
<1>3. /\ ip'[p] = ip[p] /\ dp'[p] = dp[p] /\ cwd'[p] = cwd[p] /\ fd'[p] = fd[p]
      /\ pc'[p] = "idle" /\ put'[p] = NULL /\ tgt'[p] = NULL /\ Place(p)' = "idle"
  BY <1>0 DEF End, Goto, Set, Inv, TypeInv, Pointer, Place, Putting, ptrVars
<1>4. PlaceAt(p)'
  BY <1>0, <1>3 DEF PlaceAt, Putting
<1>5. ASSUME NEW s \in Slots PROVE Held(p, s)' = Held(p, s) /\ (Holds(p, s)' <=> Holds(p, s))
  BY <1>0, <1>3, InodeAssumption DEF Held, One, Holds
<1> QED
  BY <1>0, <1>1, <1>2, <1>4, <1>5, TableKept DEF End, diskVars

---------------------------------------------------------------------------
(* Steps that visit an inode: lock it, read it if need be, and unlock it.  *)

\* Whoever has a pointer to a slot finds it in use.
LEMMA Referred ==
  ASSUME Counting, Inv, NEW p \in Procs, NEW s \in Slots,
         s \in {ip[p], dp[p], tgt[p], put[p], cwd[p], fd[p]}
  PROVE  itable[s].ref \in Nat /\ itable[s].ref > 0 /\ itable[s].inum \in Inums
<1>1. itable[s].ref \in Nat /\ itable[s].ref >= Held(p, s)
  BY HeldCounts DEF Inv
<1>2. Held(p, s) \in Nat /\ Held(p, s) >= 1
  BY SMT DEF Held, One
<1> QED
  BY <1>1, <1>2, SMT DEF Inv, OneSlot

\* What a process reads after ilock() is on the disk and not free.
LEMMA LockedIsCopy ==
  ASSUME Inv, NEW p \in Procs, NEW s \in Slots, itable[s].ref > 0, Lockable(s)
  PROVE  LET jt == ilock(itable, p, s)
         IN  /\ jt \in Table
             /\ \A t \in Slots \ {s} : jt[t] = itable[t]
             /\ jt[s].ref = itable[s].ref /\ jt[s].inum = itable[s].inum /\ jt[s].valid
             /\ jt[s].lock = p /\ jt[s].type # "none"
             /\ jt[s].type = dinode[itable[s].inum].type
             /\ jt[s].nlink = dinode[itable[s].inum].nlink
<1>1. itable \in Table /\ dinode \in Dinodes /\ itable[s].inum \in Inums
  BY DEF Inv, TypeInv, OneSlot
<1>2. itable[s].lock = NULL
  BY DEF Lockable
<1>3. ~Freed(s)
  <2> SUFFICES ASSUME NEW q \in Procs, pc[q] = "inval" /\ put[q] = s PROVE FALSE
    BY DEF Freed
  <2>1. itable[s].lock = q
    BY DEF Inv, LockInv, Holds
  <2> QED
    BY <1>2, <2>1, InodeAssumption
<1>4. itable[s].valid => Copied(s)
  BY <1>3 DEF Inv, CopyInv
<1>5. ~itable[s].valid => dinode[itable[s].inum].type # "none"
  BY DEF Lockable
<1> DEFINE jt == ilock(itable, p, s)
<1>6. /\ jt \in Table
      /\ \A t \in Slots \ {s} : jt[t] = itable[t]
      /\ jt[s].ref = itable[s].ref /\ jt[s].inum = itable[s].inum /\ jt[s].valid
      /\ jt[s].lock = p
      /\ itable[s].valid => jt[s].type = itable[s].type /\ jt[s].nlink = itable[s].nlink
      /\ ~itable[s].valid => /\ jt[s].type = dinode[itable[s].inum].type
                             /\ jt[s].nlink = dinode[itable[s].inum].nlink
  BY <1>1, Locked, SMT
<1> HIDE DEF jt
<1>7. /\ jt[s].type # "none" /\ jt[s].type = dinode[itable[s].inum].type
      /\ jt[s].nlink = dinode[itable[s].inum].nlink
  BY <1>4, <1>5, <1>6 DEF Copied, CopyOf
<1> QED
  BY <1>6, <1>7 DEF jt

\* ilock() and iunlock() leave a valid copy of the inode on the disk.
LEMMA VisitedIsCopy ==
  ASSUME Inv, NEW p \in Procs, NEW s \in Slots, itable[s].ref > 0, Lockable(s)
  PROVE  LET jt == Visited(p, s)
         IN  /\ jt \in Table
             /\ \A t \in Slots \ {s} : jt[t] = itable[t]
             /\ jt[s].ref = itable[s].ref /\ jt[s].inum = itable[s].inum /\ jt[s].valid
             /\ jt[s].lock = NULL /\ jt[s].type # "none"
             /\ jt[s].type = dinode[itable[s].inum].type
             /\ jt[s].nlink = dinode[itable[s].inum].nlink
<1> DEFINE it == ilock(itable, p, s)
           jt == iunlock(it, s)
<1>1. /\ it \in Table
      /\ \A t \in Slots \ {s} : it[t] = itable[t]
      /\ it[s].ref = itable[s].ref /\ it[s].inum = itable[s].inum /\ it[s].valid
      /\ it[s].type # "none"
      /\ it[s].type = dinode[itable[s].inum].type
      /\ it[s].nlink = dinode[itable[s].inum].nlink
  BY LockedIsCopy, SMT
<1>2. Visited(p, s) = jt
  BY DEF Visited
<1> HIDE DEF it
<1>3. /\ jt \in Table
      /\ \A t \in Slots \ {s} : jt[t] = it[t]
      /\ jt[s].ref = it[s].ref /\ jt[s].inum = it[s].inum /\ jt[s].valid = it[s].valid
      /\ jt[s].lock = NULL /\ jt[s].type = it[s].type /\ jt[s].nlink = it[s].nlink
  BY <1>1, Unlocked
<1> HIDE DEF jt
<1> QED
  BY <1>1, <1>2, <1>3

\* A step of p that only locks, reads and unlocks an inode.
LEMMA TableVisited ==
  ASSUME Counting, Inv, NEW p \in Procs, NEW s \in Slots, itable[s].ref > 0, Lockable(s),
         Own(p), pc[p] # "inval", itable' = Visited(p, s), dinode' = dinode,
         TypeInv', PlaceAt(p)',
         \A t \in Slots : Held(p, t)' = Held(p, t) /\ (Holds(p, t)' <=> Holds(p, t))
  PROVE  Inv'
<1>1. /\ \A t \in Slots \ {s} : itable'[t] = itable[t]
      /\ itable'[s].ref = itable[s].ref /\ itable'[s].inum = itable[s].inum /\ itable'[s].valid
      /\ itable'[s].lock = NULL /\ itable'[s].type # "none"
      /\ itable'[s].type = dinode[itable[s].inum].type
      /\ itable'[s].nlink = dinode[itable[s].inum].nlink
  BY VisitedIsCopy, ZenonT(30)
<1>2. itable[s].lock = NULL
  BY DEF Lockable
<1>3. Counted(p)
  <2> SUFFICES ASSUME NEW t \in Slots PROVE itable'[t].ref = itable[t].ref + Held(p, t)' - Held(p, t)
    BY DEF Counted
  <2>1. itable[t].ref \in Int /\ Held(p, t) \in Nat
    BY HeldNat DEF Inv, TypeInv, Table
  <2>2. itable'[t].ref = itable[t].ref
    BY <1>1
  <2> QED
    BY <2>1, <2>2, SMT
<1>4. LocksOwn(p)
  BY <1>1, <1>2, SMT DEF LocksOwn, Inv, LockInv
<1>5. OneSlot'
  BY <1>1, OneSlotKept
<1>6. CopyInv'
  <2>1. ASSUME NEW t \in Slots, itable'[t].ref > 0 /\ itable'[t].valid PROVE Copied(t)' \/ Freed(t)
    <3>1. CASE t = s
      BY <1>1, <3>1 DEF Copied, CopyOf
    <3>2. CASE t # s
      BY <1>1, <2>1, <3>2, ZenonT(30) DEF Inv, CopyInv, Copied, CopyOf
    <3> QED
      BY <3>1, <3>2
  <2> QED
    BY <2>1, CopyKept
<1> QED
  BY <1>3, <1>4, <1>5, <1>6, Reduce

---------------------------------------------------------------------------
(* Steps that take a reference.                                            *)

\* jt is table it with one more reference, to slot g: one that is in use, or
\* a free one that an inode without a slot gets.
OneMore(it, jt, g) ==
  /\ \A t \in Slots \ {g} : jt[t] = it[t]
  /\ jt[g].ref = it[g].ref + 1 /\ jt[g].lock = it[g].lock
  /\ it[g].ref > 0 => /\ jt[g].inum = it[g].inum /\ jt[g].valid = it[g].valid
                      /\ jt[g].type = it[g].type /\ jt[g].nlink = it[g].nlink
  /\ it[g].ref <= 0 => /\ ~jt[g].valid /\ jt[g].inum \in Inums
                       /\ \A t \in Slots : ~(it[t].ref > 0 /\ it[t].inum = jt[g].inum)

\* iget() finds the slot of the inode or an empty one, and adds a reference.
LEMMA GotMore ==
  ASSUME Counting, NEW it \in Table, itable \in Table, NEW i \in Inums, HasSlot(i),
         \A t \in Slots : it[t].ref = itable[t].ref /\ it[t].inum = itable[t].inum
  PROVE  /\ Slot(it, i) = Slot(itable, i)
         /\ Slot(itable, i) \in Slots /\ iget(it, i) \in Table
         /\ OneMore(it, iget(it, i), Slot(itable, i))
<1> DEFINE s == Slot(itable, i)
           jt == iget(it, i)
<1>1. Slot(it, i) = s /\ s # 0
  BY SlotSame DEF HasSlot
<1> HIDE DEF s
<1>2. /\ s \in Slots /\ jt \in Table
      /\ \A t \in Slots \ {s} : jt[t] = it[t]
      /\ jt[s].ref = it[s].ref + 1 /\ jt[s].inum = i /\ jt[s].lock = it[s].lock
      /\ it[s].ref > 0 => /\ it[s].inum = i /\ jt[s].valid = it[s].valid
                          /\ jt[s].type = it[s].type /\ jt[s].nlink = it[s].nlink
      /\ it[s].ref <= 0 => /\ ~jt[s].valid
                           /\ \A t \in Slots : ~(it[t].ref > 0 /\ it[t].inum = i)
  BY <1>1, Got, SMT
<1> HIDE DEF jt
<1>3. OneMore(it, jt, s)
  BY <1>2 DEF OneMore
<1> QED
  BY <1>1, <1>2, <1>3 DEF s, jt

\* idup() adds a reference.
LEMMA DupMore ==
  ASSUME NEW it \in Table, NEW s \in Slots, it[s].ref > 0
  PROVE  Referenced(it, s) \in Table /\ OneMore(it, Referenced(it, s), s)
<1> DEFINE n == it[s].ref + 1
           jt == [it EXCEPT ![s].ref = n]
<1>0. Referenced(it, s) = jt
  BY DEF Referenced
<1>1. it[s].ref \in Int /\ n \in Int
  BY NumberFields
<1> HIDE DEF n
<1>2. /\ jt \in Table
      /\ \A t \in Slots \ {s} : jt[t] = it[t]
      /\ jt[s].ref = n /\ jt[s].inum = it[s].inum /\ jt[s].valid = it[s].valid
      /\ jt[s].lock = it[s].lock /\ jt[s].type = it[s].type /\ jt[s].nlink = it[s].nlink
  BY <1>1, SetRef, SMT
<1> HIDE DEF jt
<1>3. OneMore(it, jt, s)
  BY <1>1, <1>2, SMT DEF OneMore, n
<1> QED
  BY <1>0, <1>2, <1>3

\* p takes the reference, after locking and unlocking for itself, and after
\* changing on the disk only what nobody has a valid copy of.
LEMMA TableGot ==
  ASSUME Counting, Inv, NEW p \in Procs, Own(p), pc[p] # "inval",
         NEW it \in Table, NEW g \in Slots, OneMore(it, itable', g),
         \A t \in Slots : it[t].ref = itable[t].ref /\ it[t].inum = itable[t].inum,
         TypeInv', PlaceAt(p)',
         \A t \in Slots : Held(p, t)' = Held(p, t) + One(g, t),
         \A t \in Slots :
           /\ it[t].lock = p <=> Holds(p, t)'
           /\ \/ it[t].lock = itable[t].lock
              \/ itable[t].lock \in {p, NULL} /\ it[t].lock \in {p, NULL},
         \A t \in Slots : it[t].ref > 0 /\ it[t].valid => CopyOf(it, dinode', t) \/ Freed(t)
  PROVE  Inv'
<1>1. Counted(p)
  <2> SUFFICES ASSUME NEW t \in Slots PROVE itable'[t].ref = itable[t].ref + Held(p, t)' - Held(p, t)
    BY DEF Counted
  <2>1. itable[t].ref \in Int /\ Held(p, t) \in Nat /\ Held(p, t)' = Held(p, t) + One(g, t)
    BY HeldNat DEF Inv, TypeInv, Table
  <2>2. itable'[t].ref = itable[t].ref + One(g, t)
    BY <2>1, SMT DEF OneMore, One
  <2>3. One(g, t) \in Nat
    BY DEF One
  <2> QED
    BY <2>1, <2>2, <2>3, SMT
<1>2. LocksOwn(p)
  <2>1. \A t \in Slots : itable'[t].lock = it[t].lock
    BY DEF OneMore
  <2> QED
    BY <2>1 DEF LocksOwn
<1>3. OneSlot'
  <2>1. CASE it[g].ref > 0
    <3>1. \A t \in Slots : itable'[t].inum = itable[t].inum /\ (itable'[t].ref > 0 => itable[t].ref > 0)
      BY <2>1, ZenonT(30) DEF OneMore
    <3> QED
      BY <3>1, OneSlotKept
  <2>2. CASE ~(it[g].ref > 0)
    <3>0. it[g].ref <= 0
      BY <2>2, NumberFields
    <3>1. /\ itable'[g].inum \in Inums
          /\ \A t \in Slots : ~(itable[t].ref > 0 /\ itable[t].inum = itable'[g].inum)
      BY <3>0 DEF OneMore
    <3>2. \A t \in Slots \ {g} : itable'[t].ref = itable[t].ref /\ itable'[t].inum = itable[t].inum
      BY ZenonT(30) DEF OneMore
    <3> QED
      BY <3>1, <3>2, SMT DEF OneSlot, Inv
  <2> QED
    BY <2>1, <2>2
<1>4. CopyInv'
  <2>1. ASSUME NEW t \in Slots, itable'[t].ref > 0 /\ itable'[t].valid PROVE Copied(t)' \/ Freed(t)
    <3>1. CASE t # g \/ it[g].ref > 0
      <4>1. /\ it[t].ref > 0 /\ it[t].valid
            /\ itable'[t].type = it[t].type /\ itable'[t].inum = it[t].inum
            /\ itable'[t].nlink = it[t].nlink
        BY <2>1, <3>1 DEF OneMore
      <4> QED
        BY <4>1 DEF Copied, CopyOf
    <3>2. CASE t = g /\ ~(it[g].ref > 0)
      <4>1. it[g].ref <= 0
        BY <3>2, NumberFields
      <4> QED
        BY <2>1, <3>2, <4>1 DEF OneMore
    <3> QED
      BY <3>1, <3>2
  <2> QED
    BY <2>1, CopyKept
<1> QED
  BY <1>1, <1>2, <1>3, <1>4, Reduce

---------------------------------------------------------------------------
(* The steps, one by one.                                                  *)

\* A call begins: namei() takes a reference to where it starts.
LEMMA BeginStep ==
  ASSUME Counting, Inv, NEW p \in Procs, Begin(p)
  PROVE  Inv'
<1>1. PICK c \in Callable(p) :
        /\ c.abs => HasSlot(ROOTINO)
        /\ call' = Set(call, p, c) /\ path' = Set(path, p, c.path)
        /\ itable' = Started(itable, p, c.abs) /\ ip' = Set(ip, p, StartSlot(p, c.abs))
        /\ Goto(p, "walk")
  BY DEF Begin
<1>2. /\ c \in Calls /\ c.path \in Seq(Names) /\ c.abs \in BOOLEAN
      /\ c.op \in {"creat", "open", "openw"} => fd[p] = NULL
  BY InodeAssumption DEF Callable
<1>3. PlaceAt(p) /\ pc[p] = "idle" /\ put[p] = NULL /\ Place(p) = "idle" /\ ip[p] = NULL
  BY DEF Begin, Inv, TypeInv, Pointer, PlaceInv, PlaceAt, Place, Putting
<1> DEFINE g == StartSlot(p, c.abs)
<1>4. itable' \in Table /\ g \in Slots /\ OneMore(itable, itable', g)
  <2>1. itable \in Table /\ cwd[p] \in Slots
    BY DEF Inv, TypeInv
  <2>2. CASE c.abs
    <3>1. ROOTINO \in Inums /\ HasSlot(ROOTINO)
      BY <1>1, <2>2, InumRange
    <3>2. itable' = iget(itable, ROOTINO) /\ g = Slot(itable, ROOTINO)
      BY <1>1, <2>2 DEF Started, StartSlot
    <3> QED
      BY <2>1, <3>1, <3>2, GotMore
  <2>3. CASE ~c.abs
    <3>1. itable[cwd[p]].ref > 0
      BY <2>1, Referred
    <3>2. itable' = Referenced(itable, cwd[p]) /\ g = cwd[p]
      BY <1>1, <2>3 DEF Started, StartSlot, idup
    <3> QED
      BY <2>1, <3>1, <3>2, DupMore
  <2> QED
    BY <1>2, <2>2, <2>3
<1> HIDE DEF g
<1>5. ip' = [ip EXCEPT ![p] = g]
  BY <1>1 DEF Set, g
<1>6. Own(p)
  BY <1>1, <1>5, ZenonT(30) DEF Begin, Goto, Set, Own, Inv, TypeInv, Pointer, Same
<1>7. TypeInv'
  BY <1>1, <1>2, <1>4, <1>5, SMT DEF Begin, Goto, Set, Inv, TypeInv, Pointer, Putting, Labels,
     diskVars, Same
<1>8. /\ ip'[p] = g /\ dp'[p] = dp[p] /\ tgt'[p] = tgt[p] /\ put'[p] = put[p]
      /\ cwd'[p] = cwd[p] /\ fd'[p] = fd[p] /\ pc'[p] = "walk" /\ Place(p)' = "walk"
  BY <1>1, <1>5 DEF Begin, Goto, Set, Inv, TypeInv, Pointer, Place, Putting, Same
<1>9. call'[p] = c
  BY <1>1, <1>2 DEF Set, Inv, TypeInv
<1>10. PlaceAt(p)'
  BY <1>2, <1>3, <1>4, <1>8, <1>9, InodeAssumption DEF PlaceAt, Putting
<1>11. ASSUME NEW t \in Slots PROVE Held(p, t)' = Held(p, t) + One(g, t)
  BY <1>3, <1>8, InodeAssumption, SMT DEF Held, One
<1>12. ASSUME NEW t \in Slots PROVE itable[t].lock = p <=> Holds(p, t)'
  BY <1>3, <1>8 DEF Holds, Inv, LockInv
<1>13. ASSUME NEW t \in Slots, itable[t].ref > 0, itable[t].valid
       PROVE  CopyOf(itable, dinode', t) \/ Freed(t)
  <2>1. dinode' = dinode
    BY DEF Begin, diskVars
  <2> QED
    BY <1>13, <2>1 DEF Inv, CopyInv, Copied
<1>14. itable \in Table /\ pc[p] # "inval"
  BY <1>3 DEF Inv, TypeInv
<1> QED
  BY <1>4, <1>6, <1>7, <1>10, <1>11, <1>12, <1>13, <1>14, TableGot

\* namex() goes from a directory to the next one, or gives up.
LEMMA WalkNameStep ==
  ASSUME Counting, Inv, NEW p \in Procs, WalkName(p)
  PROVE  Inv'
<1> DEFINE s == ip[p]
           it == Visited(p, s)
           next == NextInum(p)
<1>1. PlaceAt(p) /\ pc[p] = "walk" /\ put[p] = NULL /\ Place(p) = "walk" /\ s \in Slots /\ dp[p] = NULL
  BY ZenonT(30) DEF WalkName, Inv, TypeInv, Pointer, PlaceInv, PlaceAt, Place, Putting
<1>2. itable[s].ref > 0 /\ itable[s].inum \in Inums /\ Lockable(s)
  BY <1>1, Referred DEF WalkName
<1>3. /\ it \in Table
      /\ \A t \in Slots \ {s} : it[t] = itable[t]
      /\ it[s].ref = itable[s].ref /\ it[s].inum = itable[s].inum /\ it[s].valid
      /\ it[s].lock = NULL /\ it[s].type # "none"
      /\ it[s].type = dinode[itable[s].inum].type
      /\ it[s].nlink = dinode[itable[s].inum].nlink
  BY <1>1, <1>2, VisitedIsCopy
<1>4. path[p] \in Seq(Names) /\ path[p] # <<>> /\ Head(path[p]) \in Names /\ Tail(path[p]) \in Seq(Names)
  BY SMT DEF WalkName, Inv, TypeInv
<1>5. next \in 0 .. NInodes
  <2>1. Walked(p).inum = itable[s].inum
    BY <1>1, <1>2, LockedIsCopy DEF Walked
  <2> QED
    BY <1>2, <1>4, <2>1 DEF NextInum, Inv, TypeInv, Dirents
<1>6. /\ tgt'[p] = tgt[p] /\ cwd'[p] = cwd[p] /\ fd'[p] = fd[p] /\ call'[p] = call[p]
      /\ dinode' = dinode /\ pc[p] # "inval"
  BY <1>1 DEF WalkName, diskVars, Keep, Same
<1>7. CASE /\ AtLast(p) /\ itable' = Visited(p, s)
           /\ dp' = Set(dp, p, s) /\ ip' = Set(ip, p, NULL) /\ Goto(p, "parent")
           /\ UNCHANGED path
  <2>1. Own(p)
    BY <1>7 DEF WalkName, Goto, Set, Own, Inv, TypeInv, Pointer, Keep, Same
  <2>2. TypeInv'
    <3> HIDE DEF it
    <3> QED
      BY <1>1, <1>3, <1>7 DEF it, WalkName, Goto, Set, Inv, TypeInv, Pointer, Putting, Labels, diskVars, Keep, Same
  <2>3. /\ ip'[p] = NULL /\ dp'[p] = s /\ put'[p] = NULL /\ pc'[p] = "parent" /\ Place(p)' = "parent"
        /\ path'[p] = path[p]
    BY <1>1, <1>7 DEF Goto, Set, Inv, TypeInv, Pointer, Place, Putting
  <2>4. PlaceAt(p)'
    BY <1>1, <1>4, <1>6, <1>7, <2>3, InodeAssumption DEF PlaceAt, Putting, AtLast, Parent, Creates
  <2>5. ASSUME NEW t \in Slots PROVE Held(p, t)' = Held(p, t) /\ (Holds(p, t)' <=> Holds(p, t))
    BY <1>1, <1>6, <2>3, InodeAssumption, SMT DEF Held, One, Holds
  <2> QED
    BY <1>1, <1>2, <1>6, <1>7, <2>1, <2>2, <2>4, <2>5, TableVisited, ZenonT(30)
<1>8. CASE /\ next # 0 /\ HasSlot(next) /\ itable' = iget(Visited(p, s), next)
           /\ ip' = Set(ip, p, Slot(Visited(p, s), next)) /\ path' = Set(path, p, Tail(path[p]))
           /\ Iput(p, s, "walk") /\ UNCHANGED dp
  <2> DEFINE g == Slot(itable, next)
  <2>1. next \in Inums
    BY <1>5, <1>8, InumRange
  <2>2. \A t \in Slots : it[t].ref = itable[t].ref /\ it[t].inum = itable[t].inum
    BY <1>3
  <2>3. Slot(it, next) = g /\ g \in Slots /\ itable' \in Table /\ OneMore(it, itable', g)
    <3>1. itable \in Table /\ HasSlot(next) /\ itable' = iget(it, next)
      BY <1>8 DEF Inv, TypeInv
    <3> HIDE DEF it, next
    <3> QED
      BY <1>3, <2>1, <2>2, <3>1, GotMore
  <2>4. ip' = [ip EXCEPT ![p] = g]
    BY <1>8, <2>3 DEF Set
  <2> HIDE DEF g
  <2>5. Own(p)
    BY <1>8, <2>4, ZenonT(30) DEF WalkName, Iput, Set, Own, Inv, TypeInv, Pointer, Keep, Same
  <2>6. TypeInv'
    BY <1>1, <1>4, <1>8, <2>3, <2>4, SMT DEF WalkName, Iput, Set, Inv, TypeInv, Pointer, Putting,
       Labels, diskVars, Keep, Same
  <2>7. /\ ip'[p] = g /\ dp'[p] = dp[p] /\ put'[p] = s /\ pc'[p] = "put" /\ Place(p)' = "walk"
    BY <1>1, <1>8, <2>4 DEF Iput, Set, Inv, TypeInv, Pointer, Place, Putting
  <2>8. PlaceAt(p)'
    BY <1>1, <1>6, <2>3, <2>7, InodeAssumption DEF PlaceAt, Putting
  <2>9. ASSUME NEW t \in Slots PROVE Held(p, t)' = Held(p, t) + One(g, t)
    BY <1>1, <1>6, <2>7, InodeAssumption, SMT DEF Held, One
  <2>10. ASSUME NEW t \in Slots PROVE (it[t].lock = p <=> Holds(p, t)') /\ it[t].lock = itable[t].lock
    <3>1. it[t].lock = itable[t].lock
      BY <1>2, <1>3 DEF Lockable
    <3> QED
      BY <1>1, <2>7, <3>1, HoldsNone DEF Inv, LockInv
  <2>11. ASSUME NEW t \in Slots, it[t].ref > 0, it[t].valid PROVE CopyOf(it, dinode', t) \/ Freed(t)
    BY <1>3, <1>6, <2>11, ZenonT(30) DEF Inv, CopyInv, Copied, CopyOf
  <2> HIDE DEF it
  <2> QED
    BY <1>3, <1>6, <2>2, <2>3, <2>5, <2>6, <2>8, <2>9, <2>10, <2>11, TableGot
<1>9. CASE /\ itable' = Visited(p, s)
           /\ ip' = Set(ip, p, NULL) /\ Iput(p, s, "fail") /\ UNCHANGED <<dp, path>>
  <2>1. Own(p)
    BY <1>9 DEF WalkName, Iput, Set, Own, Inv, TypeInv, Pointer, Keep, Same
  <2>2. TypeInv'
    <3> HIDE DEF it
    <3> QED
      BY <1>1, <1>3, <1>9 DEF it, WalkName, Iput, Set, Inv, TypeInv, Pointer, Putting, Labels, diskVars, Keep, Same
  <2>3. /\ ip'[p] = NULL /\ dp'[p] = dp[p] /\ put'[p] = s /\ pc'[p] = "put" /\ Place(p)' = "fail"
    BY <1>1, <1>9 DEF Iput, Set, Inv, TypeInv, Pointer, Place, Putting
  <2>4. PlaceAt(p)'
    BY <1>1, <1>6, <2>3, InodeAssumption DEF PlaceAt, Putting
  <2>5. ASSUME NEW t \in Slots PROVE Held(p, t)' = Held(p, t) /\ (Holds(p, t)' <=> Holds(p, t))
    BY <1>1, <1>6, <2>3, PutAway, HoldsNone
  <2> QED
    BY <1>1, <1>2, <1>6, <1>9, <2>1, <2>2, <2>4, <2>5, TableVisited
<1> QED
  BY <1>7, <1>8, <1>9 DEF WalkName

\* sys_open() has found the file.
LEMMA OpenStep ==
  ASSUME Counting, Inv, NEW p \in Procs, Open(p)
  PROVE  Inv'
<1> DEFINE s == ip[p]
           it == Visited(p, s)
<1>1. /\ PlaceAt(p) /\ pc[p] = "found" /\ put[p] = NULL /\ Place(p) = "found" /\ s \in Slots
      /\ dp[p] = NULL /\ tgt[p] = NULL /\ fd[p] = NULL
  BY ZenonT(30) DEF Open, Inv, TypeInv, Pointer, PlaceInv, PlaceAt, Place, Putting
<1>2. itable[s].ref > 0 /\ Lockable(s) /\ it \in Table /\ itable' = it
  BY <1>1, Referred, VisitedIsCopy DEF Open
<1>3. /\ dp'[p] = dp[p] /\ tgt'[p] = tgt[p] /\ cwd'[p] = cwd[p] /\ call'[p] = call[p] /\ ip'[p] = NULL
      /\ dinode' = dinode /\ pc[p] # "inval"
  BY <1>1 DEF Open, diskVars, Set, Inv, TypeInv, Pointer
<1>4. CASE fd' = Set(fd, p, s) /\ Goto(p, "end")
  <2>1. Own(p)
    BY <1>4 DEF Open, Goto, Set, Own, Inv, TypeInv, Pointer
  <2>2. TypeInv'
    <3> HIDE DEF it
    <3> QED
      BY <1>1, <1>2, <1>4 DEF Open, Goto, Set, Inv, TypeInv, Pointer, Putting, Labels, diskVars
  <2>3. fd'[p] = s /\ put'[p] = put[p] /\ pc'[p] = "end" /\ Place(p)' = "end"
    BY <1>1, <1>4 DEF Goto, Set, Inv, TypeInv, Pointer, Place, Putting
  <2>4. PlaceAt(p)'
    BY <1>1, <1>3, <2>3 DEF PlaceAt, Putting
  <2>5. ASSUME NEW t \in Slots PROVE Held(p, t)' = Held(p, t) /\ (Holds(p, t)' <=> Holds(p, t))
    BY <1>1, <1>3, <2>3, InodeAssumption, SMTT(30) DEF Held, One, Holds
  <2> QED
    BY <1>1, <1>2, <1>3, <2>1, <2>2, <2>4, <2>5, TableVisited, ZenonT(30)
<1>5. CASE Iput(p, s, "fail") /\ UNCHANGED fd
  <2>1. Own(p)
    BY <1>5 DEF Open, Iput, Set, Own, Inv, TypeInv, Pointer
  <2>2. TypeInv'
    <3> HIDE DEF it
    <3> QED
      BY <1>1, <1>2, <1>5 DEF Open, Iput, Set, Inv, TypeInv, Pointer, Putting, Labels, diskVars
  <2>3. fd'[p] = NULL /\ put'[p] = s /\ pc'[p] = "put" /\ Place(p)' = "fail"
    BY <1>1, <1>5 DEF Iput, Set, Inv, TypeInv, Pointer, Place, Putting
  <2>4. PlaceAt(p)'
    BY <1>1, <1>3, <2>3, InodeAssumption DEF PlaceAt, Putting
  <2>5. ASSUME NEW t \in Slots PROVE Held(p, t)' = Held(p, t) /\ (Holds(p, t)' <=> Holds(p, t))
    BY <1>1, <1>3, <2>3, PutAway, HoldsNone
  <2> QED
    BY <1>1, <1>2, <1>3, <2>1, <2>2, <2>4, <2>5, TableVisited
<1> QED
  BY <1>4, <1>5 DEF Open

\* sys_chdir() swaps the directory.
LEMMA ChdirStep ==
  ASSUME Counting, Inv, NEW p \in Procs, Chdir(p)
  PROVE  Inv'
<1> DEFINE s == ip[p]
           it == Visited(p, s)
<1>1. /\ PlaceAt(p) /\ pc[p] = "found" /\ put[p] = NULL /\ Place(p) = "found" /\ s \in Slots
      /\ dp[p] = NULL /\ tgt[p] = NULL /\ cwd[p] \in Slots
  BY ZenonT(30) DEF Chdir, Inv, TypeInv, Pointer, PlaceInv, PlaceAt, Place, Putting
<1>2. itable[s].ref > 0 /\ Lockable(s) /\ it \in Table /\ itable' = it
  BY <1>1, Referred, VisitedIsCopy DEF Chdir
<1>3. /\ dp'[p] = dp[p] /\ tgt'[p] = tgt[p] /\ fd'[p] = fd[p] /\ call'[p] = call[p] /\ ip'[p] = NULL
      /\ dinode' = dinode /\ pc[p] # "inval"
  BY <1>1 DEF Chdir, diskVars, Set, Inv, TypeInv, Pointer
<1>4. CASE Iput(p, cwd[p], "end") /\ cwd' = Set(cwd, p, s)
  <2>1. Own(p)
    BY <1>4 DEF Chdir, Iput, Set, Own, Inv, TypeInv, Pointer
  <2>2. TypeInv'
    <3> HIDE DEF it
    <3> QED
      BY <1>1, <1>2, <1>4 DEF Chdir, Iput, Set, Inv, TypeInv, Pointer, Putting, Labels, diskVars
  <2>3. cwd'[p] = s /\ put'[p] = cwd[p] /\ pc'[p] = "put" /\ Place(p)' = "end"
    BY <1>1, <1>4 DEF Iput, Set, Inv, TypeInv, Pointer, Place, Putting
  <2>4. PlaceAt(p)'
    BY <1>1, <1>3, <2>3, InodeAssumption DEF PlaceAt, Putting
  <2>5. ASSUME NEW t \in Slots PROVE Held(p, t)' = Held(p, t) /\ (Holds(p, t)' <=> Holds(p, t))
    BY <1>1, <1>3, <2>3, InodeAssumption, SMTT(30) DEF Held, One, Holds
  <2> QED
    BY <1>1, <1>2, <1>3, <2>1, <2>2, <2>4, <2>5, TableVisited
<1>5. CASE Iput(p, s, "fail") /\ UNCHANGED cwd
  <2>1. Own(p)
    BY <1>5 DEF Chdir, Iput, Set, Own, Inv, TypeInv, Pointer
  <2>2. TypeInv'
    <3> HIDE DEF it
    <3> QED
      BY <1>1, <1>2, <1>5 DEF Chdir, Iput, Set, Inv, TypeInv, Pointer, Putting, Labels, diskVars
  <2>3. cwd'[p] = cwd[p] /\ put'[p] = s /\ pc'[p] = "put" /\ Place(p)' = "fail"
    BY <1>1, <1>5 DEF Iput, Set, Inv, TypeInv, Pointer, Place, Putting
  <2>4. PlaceAt(p)'
    BY <1>1, <1>3, <2>3, InodeAssumption DEF PlaceAt, Putting
  <2>5. ASSUME NEW t \in Slots PROVE Held(p, t)' = Held(p, t) /\ (Holds(p, t)' <=> Holds(p, t))
    BY <1>1, <1>3, <2>3, PutAway, HoldsNone
  <2> QED
    BY <1>1, <1>2, <1>3, <2>1, <2>2, <2>4, <2>5, TableVisited
<1> QED
  BY <1>4, <1>5 DEF Chdir

\* iupdate() writes what the slot has.
LEMMA Updated ==
  ASSUME NEW di \in Dinodes, NEW it \in Table, NEW s \in Slots, it[s].inum \in Inums
  PROVE  LET dj == iupdate(di, it, s)
         IN  /\ dj \in Dinodes
             /\ \A i \in Inums \ {it[s].inum} : dj[i] = di[i]
             /\ dj[it[s].inum].type = it[s].type /\ dj[it[s].inum].nlink = it[s].nlink
<1>1. it[s].type \in Types /\ it[s].nlink \in Int
  BY DEF Table
<1> QED
  BY <1>1 DEF iupdate, Dinodes

\* Steps that neither take nor drop a reference.
LEMMA TableSame ==
  ASSUME Counting, Inv, NEW p \in Procs, Own(p), pc[p] # "inval",
         \A t \in Slots : itable'[t].ref = itable[t].ref /\ itable'[t].inum = itable[t].inum,
         TypeInv', PlaceAt(p)', LocksOwn(p),
         \A t \in Slots : Held(p, t)' = Held(p, t),
         \A t \in Slots : itable[t].ref > 0 /\ itable'[t].valid => Copied(t)' \/ Freed(t)
  PROVE  Inv'
<1>1. Counted(p)
  <2> SUFFICES ASSUME NEW t \in Slots PROVE itable'[t].ref = itable[t].ref + Held(p, t)' - Held(p, t)
    BY DEF Counted
  <2>1. itable[t].ref \in Int /\ Held(p, t) \in Nat /\ Held(p, t)' = Held(p, t)
    BY HeldNat DEF Inv, TypeInv, Table
  <2>2. itable'[t].ref = itable[t].ref
    OBVIOUS
  <2> QED
    BY <2>1, <2>2, SMT
<1>2. OneSlot'
  BY OneSlotKept
<1>3. CopyInv'
  BY CopyKept
<1> QED
  BY <1>1, <1>2, <1>3, Reduce

\* Another slot in use has another inode, so that iupdate() keeps its copy.
LEMMA CopyApart ==
  ASSUME Inv, NEW s \in Slots, NEW t \in Slots, t # s,
         itable[s].ref > 0, itable[t].ref > 0, itable[t].valid,
         NEW di, \A i \in Inums \ {itable[s].inum} : di[i] = dinode[i]
  PROVE  CopyOf(itable, di, t) \/ Freed(t)
<1>1. itable[t].inum \in Inums \ {itable[s].inum}
  BY DEF Inv, OneSlot
<1> QED
  BY <1>1 DEF Inv, CopyInv, Copied, CopyOf

\* sys_link() counts the new link before the name exists.
LEMMA LinkOldStep ==
  ASSUME Counting, Inv, NEW p \in Procs, LinkOld(p)
  PROVE  Inv'
<1> DEFINE s == ip[p]
           it == Visited(p, s)
           up == CountLink(it, s)
           g == cwd[p]
<1>1. /\ PlaceAt(p) /\ pc[p] = "found" /\ put[p] = NULL /\ Place(p) = "found" /\ s \in Slots
      /\ dp[p] = NULL /\ tgt[p] = NULL /\ cwd[p] \in Slots /\ call[p] \in Calls /\ call[p].op = "link"
  BY ZenonT(30) DEF LinkOld, Inv, TypeInv, Pointer, PlaceInv, PlaceAt, Place, Putting
<1>2. itable[s].ref > 0 /\ itable[s].inum \in Inums /\ Lockable(s) /\ itable[g].ref > 0
  BY <1>1, Referred DEF LinkOld
<1>3. /\ it \in Table
      /\ \A t \in Slots \ {s} : it[t] = itable[t]
      /\ it[s].ref = itable[s].ref /\ it[s].inum = itable[s].inum /\ it[s].valid
      /\ it[s].lock = NULL /\ it[s].type # "none"
  BY <1>1, <1>2, VisitedIsCopy
<1>4. /\ dp'[p] = dp[p] /\ cwd'[p] = cwd[p] /\ fd'[p] = fd[p] /\ call'[p] = call[p]
      /\ pc[p] # "inval"
  BY <1>1 DEF LinkOld, Keep, Same
<1>5. CASE /\ itable' = it /\ Iput(p, s, "fail") /\ ip' = Set(ip, p, NULL)
           /\ UNCHANGED <<dinode, tgt, path>>
  <2>1. Own(p)
    BY <1>5 DEF LinkOld, Iput, Set, Own, Inv, TypeInv, Pointer, Keep, Same
  <2>2. TypeInv'
    <3> HIDE DEF it
    <3> QED
      BY <1>1, <1>3, <1>5 DEF LinkOld, Iput, Set, Inv, TypeInv, Pointer, Putting, Labels, Keep, Same
  <2>3. ip'[p] = NULL /\ tgt'[p] = NULL /\ put'[p] = s /\ pc'[p] = "put" /\ Place(p)' = "fail"
    BY <1>1, <1>5 DEF Iput, Set, Inv, TypeInv, Pointer, Place, Putting
  <2>4. PlaceAt(p)'
    BY <1>1, <1>4, <2>3, InodeAssumption DEF PlaceAt, Putting
  <2>5. ASSUME NEW t \in Slots PROVE Held(p, t)' = Held(p, t) /\ (Holds(p, t)' <=> Holds(p, t))
    BY <1>1, <1>4, <2>3, PutAway, HoldsNone
  <2> QED
    BY <1>1, <1>2, <1>4, <1>5, <2>1, <2>2, <2>4, <2>5, TableVisited, ZenonT(30)
<1>6. CASE /\ itable' = Started(up, p, FALSE) /\ dinode' = iupdate(dinode, up, s)
           /\ tgt' = Set(tgt, p, s) /\ ip' = Set(ip, p, cwd[p])
           /\ path' = Set(path, p, call[p].new) /\ Goto(p, "walk")
  <2>1. /\ up \in Table
        /\ \A t \in Slots \ {s} : up[t] = it[t]
        /\ up[s].ref = it[s].ref /\ up[s].inum = it[s].inum /\ up[s].valid = it[s].valid
        /\ up[s].lock = it[s].lock /\ up[s].type = it[s].type
    <3> DEFINE n == it[s].nlink + 1
    <3>1. n \in Int
      BY <1>1, <1>3, NumberFields
    <3>2. up = SetLinks(it, s, n)
      BY DEF CountLink
    <3>3. s \in Slots /\ it \in Table
      BY <1>1, <1>3
    <3> HIDE DEF s, it, up, n
    <3> QED
      BY <3>1, <3>2, <3>3, SetNlink, ZenonT(30)
  <2> HIDE DEF up
  <2>2. /\ dinode' \in Dinodes
        /\ \A i \in Inums \ {itable[s].inum} : dinode'[i] = dinode[i]
        /\ dinode'[itable[s].inum].type = up[s].type /\ dinode'[itable[s].inum].nlink = up[s].nlink
    <3>1. dinode \in Dinodes /\ up[s].inum = itable[s].inum
      BY <1>3, <2>1 DEF Inv, TypeInv
    <3> QED
      BY <1>1, <1>2, <1>6, <2>1, <3>1, Updated, SMTT(30)
  <2>3. \A t \in Slots : up[t].ref = itable[t].ref /\ up[t].inum = itable[t].inum
    BY <1>3, <2>1
  <2>4. itable' \in Table /\ OneMore(up, itable', g)
    <3>1. itable' = Referenced(up, g) /\ up[g].ref > 0
      BY <1>1, <1>2, <1>6, <2>3 DEF Started, idup
    <3> QED
      BY <1>1, <2>1, <3>1, DupMore
  <2>5. Own(p)
    BY <1>6 DEF LinkOld, Goto, Set, Own, Inv, TypeInv, Pointer, Keep, Same
  <2>6. TypeInv'
    <3>1. call[p].new \in Seq(Names)
      BY <1>1, InodeAssumption
    <3> QED
      BY <1>1, <1>6, <2>2, <2>4, <3>1
      DEF LinkOld, Goto, Set, Inv, TypeInv, Pointer, Putting, Labels, Keep, Same
  <2>7. ip'[p] = g /\ tgt'[p] = s /\ put'[p] = NULL /\ pc'[p] = "walk" /\ Place(p)' = "walk"
    BY <1>1, <1>6 DEF Goto, Set, Inv, TypeInv, Pointer, Place, Putting
  <2>8. PlaceAt(p)'
    BY <1>1, <1>4, <2>7, InodeAssumption, ZenonT(30) DEF PlaceAt, Putting
  <2>9. ASSUME NEW t \in Slots PROVE Held(p, t)' = Held(p, t) + One(g, t)
    BY <1>1, <1>4, <2>7, InodeAssumption, SMT DEF Held, One
  <2>10. ASSUME NEW t \in Slots PROVE (up[t].lock = p <=> Holds(p, t)') /\ up[t].lock = itable[t].lock
    <3>1. up[t].lock = itable[t].lock
      BY <1>2, <1>3, <2>1 DEF Lockable
    <3> QED
      BY <1>1, <2>7, <3>1, HoldsNone DEF Inv, LockInv
  <2>11. ASSUME NEW t \in Slots, up[t].ref > 0, up[t].valid PROVE CopyOf(up, dinode', t) \/ Freed(t)
    <3>1. CASE t = s
      BY <1>3, <2>1, <2>2, <3>1 DEF CopyOf
    <3>2. CASE t # s
      <4>1. up[t] = itable[t]
        BY <1>3, <2>1, <3>2
      <4>2. CopyOf(itable, dinode', t) \/ Freed(t)
        BY <1>1, <1>2, <2>2, <2>11, <3>2, <4>1, CopyApart
      <4> QED
        BY <4>1, <4>2 DEF CopyOf
    <3> QED
      BY <3>1, <3>2
  <2> QED
    BY <1>1, <1>4, <2>1, <2>3, <2>4, <2>5, <2>6, <2>8, <2>9, <2>10, <2>11, TableGot
<1> QED
  BY <1>5, <1>6 DEF LinkOld

\* What holds when a call has found the parent directory.
LEMMA ParentFound ==
  ASSUME Counting, Inv, NEW p \in Procs, NEW ops, AtParent(p, ops)
  PROVE  /\ PlaceAt(p) /\ pc[p] = "parent" /\ Place(p) = "parent" /\ put[p] = NULL /\ ip[p] = NULL
         /\ dp[p] \in Slots /\ itable[dp[p]].ref > 0 /\ DpInum(p) \in Inums
         /\ Lockable(dp[p]) /\ Name(p) \in Names /\ Entry(p) \in 0 .. NInodes
         /\ call[p].op \in ops /\ call[p] \in Calls
<1>1. /\ PlaceAt(p) /\ pc[p] = "parent" /\ Place(p) = "parent" /\ put[p] = NULL /\ ip[p] = NULL
      /\ dp[p] \in Slots /\ path[p] # <<>> /\ call[p] \in Calls
  BY ZenonT(30) DEF AtParent, Inv, TypeInv, Pointer, PlaceInv, PlaceAt, Place, Putting
<1>2. itable[dp[p]].ref > 0 /\ DpInum(p) \in Inums
  BY <1>1, Referred DEF DpInum
<1>3. Name(p) \in Names
  BY <1>1, SMT DEF Name, Inv, TypeInv
<1>4. Entry(p) \in 0 .. NInodes
  BY <1>2, <1>3 DEF Entry, Inv, TypeInv, Dirents
<1> QED
  BY <1>1, <1>2, <1>3, <1>4 DEF AtParent

\* The table once p has locked its parent directory and iget() has found i.
LEMMA LockedMore ==
  ASSUME Counting, Inv, NEW p \in Procs, dp[p] \in Slots, itable[dp[p]].ref > 0, Lockable(dp[p]),
         NEW i \in Inums, HasSlot(i)
  PROVE  LET it == ilock(itable, p, dp[p])
         IN  /\ it \in Table /\ Slot(itable, i) \in Slots /\ LockedAnd(p, i) \in Table
             /\ OneMore(it, LockedAnd(p, i), Slot(itable, i))
             /\ \A t \in Slots : /\ it[t].ref = itable[t].ref /\ it[t].inum = itable[t].inum
                                 /\ t # dp[p] => it[t].lock = itable[t].lock
             /\ it[dp[p]].lock = p /\ itable[dp[p]].lock = NULL
             /\ \A t \in Slots : it[t].ref > 0 /\ it[t].valid => CopyOf(it, dinode, t) \/ Freed(t)
<1> DEFINE s == dp[p]
           it == ilock(itable, p, s)
<1>1. /\ it \in Table
      /\ \A t \in Slots \ {s} : it[t] = itable[t]
      /\ it[s].ref = itable[s].ref /\ it[s].inum = itable[s].inum
      /\ it[s].lock = p /\ it[s].type # "none"
      /\ it[s].type = dinode[itable[s].inum].type
      /\ it[s].nlink = dinode[itable[s].inum].nlink
  BY LockedIsCopy, SMT
<1>2. LockedAnd(p, i) = iget(it, i) /\ itable[s].lock = NULL /\ itable \in Table
  BY DEF LockedAnd, Lockable, Inv, TypeInv
<1> HIDE DEF it
<1>3. \A t \in Slots : it[t].ref = itable[t].ref /\ it[t].inum = itable[t].inum
  BY <1>1
<1>4. /\ Slot(itable, i) \in Slots /\ LockedAnd(p, i) \in Table
      /\ OneMore(it, LockedAnd(p, i), Slot(itable, i))
  BY <1>1, <1>2, <1>3, GotMore
<1>5. ASSUME NEW t \in Slots, it[t].ref > 0, it[t].valid PROVE CopyOf(it, dinode, t) \/ Freed(t)
  BY <1>1, <1>5 DEF Inv, CopyInv, Copied, CopyOf
<1> QED
  BY <1>1, <1>2, <1>3, <1>4, <1>5 DEF it

\* sys_link() enters the new name in its directory, or cannot.
LEMMA LinkNewStep ==
  ASSUME Counting, Inv, NEW p \in Procs, LinkNew(p)
  PROVE  Inv'
<1> DEFINE s == dp[p]
           it == ilock(itable, p, s)
           g == Slot(itable, Entry(p))
<1>1. /\ PlaceAt(p) /\ pc[p] = "parent" /\ Place(p) = "parent" /\ put[p] = NULL /\ ip[p] = NULL
      /\ s \in Slots /\ itable[s].ref > 0 /\ DpInum(p) \in Inums
      /\ Lockable(s) /\ Name(p) \in Names /\ Entry(p) \in 0 .. NInodes
      /\ call[p].op = "link" /\ call[p] \in Calls
  BY ParentFound, SMT DEF LinkNew
<1>2. tgt[p] \in Slots /\ itable[tgt[p]].inum \in Inums
  <2>1. tgt[p] \in Slots
    BY <1>1 DEF PlaceAt, Inv, TypeInv, Pointer
  <2> QED
    BY <2>1, Referred
<1>3. /\ ip'[p] = ip[p] /\ tgt'[p] = tgt[p] /\ cwd'[p] = cwd[p] /\ fd'[p] = fd[p] /\ call'[p] = call[p]
      /\ path'[p] = path[p] /\ pc[p] # "inval" /\ dinode' = dinode
  BY <1>1 DEF LinkNew, Keep, Same
<1>4. CASE Entry(p) = 0
  <2>1. /\ dirents' = [dirents EXCEPT ![DpInum(p)][Name(p)] = itable[tgt[p]].inum]
        /\ itable' = Visited(p, s) /\ dp' = Set(dp, p, NULL) /\ Iput(p, s, "linked")
    BY <1>4 DEF LinkNew
  <2>2. itable' \in Table
    BY <1>1, <2>1, VisitedIsCopy
  <2>3. dirents' \in Dirents
    <3>1. itable[tgt[p]].inum \in 0 .. NInodes
      BY <1>2, InumRange
    <3> QED
      BY <1>1, <2>1, <3>1 DEF Inv, TypeInv, Dirents
  <2>4. Own(p)
    BY <2>1 DEF LinkNew, Iput, Set, Own, Inv, TypeInv, Pointer, Keep, Same
  <2>5. TypeInv'
    BY <1>1, <2>1, <2>2, <2>3 DEF LinkNew, Iput, Set, Inv, TypeInv, Pointer, Putting, Labels, Keep, Same
  <2>6. dp'[p] = NULL /\ put'[p] = s /\ pc'[p] = "put" /\ Place(p)' = "linked"
    BY <1>1, <2>1 DEF Iput, Set, Inv, TypeInv, Pointer, Place, Putting
  <2>7. PlaceAt(p)'
    BY <1>1, <1>2, <1>3, <2>6, InodeAssumption DEF PlaceAt, Putting
  <2>8. ASSUME NEW t \in Slots PROVE Held(p, t)' = Held(p, t) /\ (Holds(p, t)' <=> Holds(p, t))
    BY <1>1, <1>3, <2>6, PutAway, HoldsNone
  <2> QED
    BY <1>1, <1>3, <2>1, <2>4, <2>5, <2>7, <2>8, TableVisited
<1>5. CASE Entry(p) # 0
  <2>1. /\ HasSlot(Entry(p)) /\ itable' = LockedAnd(p, Entry(p))
        /\ Iput(p, g, "dpbad") /\ UNCHANGED <<dirents, dp>>
    BY <1>5 DEF LinkNew
  <2>2. Entry(p) \in Inums
    BY <1>1, <1>5, InumRange
  <2>3. /\ it \in Table /\ g \in Slots /\ itable' \in Table /\ OneMore(it, itable', g)
        /\ \A t \in Slots : /\ it[t].ref = itable[t].ref /\ it[t].inum = itable[t].inum
                            /\ t # s => it[t].lock = itable[t].lock
        /\ it[s].lock = p /\ itable[s].lock = NULL
        /\ \A t \in Slots : it[t].ref > 0 /\ it[t].valid => CopyOf(it, dinode, t) \/ Freed(t)
    BY <1>1, <2>1, <2>2, LockedMore
  <2> HIDE DEF it, g
  <2>4. Own(p)
    BY <2>1 DEF LinkNew, Iput, Set, Own, Inv, TypeInv, Pointer, Keep, Same
  <2>5. TypeInv'
    BY <1>1, <2>1, <2>3 DEF LinkNew, Iput, Set, Inv, TypeInv, Pointer, Putting, Labels, Keep, Same
  <2>6. dp'[p] = s /\ put'[p] = g /\ pc'[p] = "put" /\ Place(p)' = "dpbad"
    BY <1>1, <2>1 DEF Iput, Set, Inv, TypeInv, Pointer, Place, Putting
  <2>7. PlaceAt(p)'
    BY <1>1, <1>2, <1>3, <2>3, <2>6, InodeAssumption DEF PlaceAt, Putting
  <2>8. ASSUME NEW t \in Slots PROVE Held(p, t)' = Held(p, t) + One(g, t)
    BY <1>1, <1>3, <2>6, TookOne
  <2>9. ASSUME NEW t \in Slots
        PROVE  /\ it[t].lock = p <=> Holds(p, t)'
               /\ \/ it[t].lock = itable[t].lock
                  \/ itable[t].lock \in {p, NULL} /\ it[t].lock \in {p, NULL}
    <3>1. itable[t].lock # p
      BY <1>1, LockOf, HoldsNone
    <3>2. Holds(p, t)' <=> t = s
      BY <2>6, HoldsAt
    <3> QED BY <1>1, <2>3, <2>6, <3>1, <3>2, NullApart
  <2> QED
    BY <1>3, <2>3, <2>4, <2>5, <2>7, <2>8, <2>9, TableGot, ZenonT(30)
<1> QED
  BY <1>4, <1>5

---------------------------------------------------------------------------
(* Steps that write an inode back.                                         *)

\* After iupdate(s) the copy in slot s is the disk's, and the others still
\* are what they were.
LEMMA WriteBack ==
  ASSUME Inv, NEW it \in Table, NEW di \in Dinodes, NEW s \in Slots, itable[s].ref > 0,
         \A t \in Slots : it[t].ref = itable[t].ref /\ it[t].inum = itable[t].inum,
         it[s].valid => it[s].type # "none",
         \A t \in Slots \ {s} : it[t].ref > 0 /\ it[t].valid => CopyOf(it, di, t) \/ Freed(t)
  PROVE  LET dj == iupdate(di, it, s)
         IN  /\ dj \in Dinodes
             /\ \A t \in Slots : it[t].ref > 0 /\ it[t].valid => CopyOf(it, dj, t) \/ Freed(t)
<1> DEFINE dj == iupdate(di, it, s)
<1>1. it[s].inum \in Inums
  BY DEF Inv, OneSlot
<1>2. /\ dj \in Dinodes
      /\ \A i \in Inums \ {it[s].inum} : dj[i] = di[i]
      /\ dj[it[s].inum].type = it[s].type /\ dj[it[s].inum].nlink = it[s].nlink
  BY <1>1, Updated
<1> HIDE DEF dj
<1>3. ASSUME NEW t \in Slots, it[t].ref > 0, it[t].valid PROVE CopyOf(it, dj, t) \/ Freed(t)
  <2>1. CASE t = s
    BY <1>2, <1>3, <2>1 DEF CopyOf
  <2>2. CASE t # s
    <3>1. it[t].inum \in Inums \ {it[s].inum}
      BY <1>3, <2>2 DEF Inv, OneSlot
    <3>2. CopyOf(it, di, t) \/ Freed(t)
      BY <1>3, <2>2
    <3> QED
      BY <1>2, <3>1, <3>2 DEF CopyOf
  <2> QED
    BY <2>1, <2>2
<1> QED
  BY <1>2, <1>3 DEF dj

\* A slot that is not locked, or is locked by a process that is not freeing
\* it, is not being freed.
LEMMA NotFreed ==
  ASSUME Inv, NEW p \in Procs, NEW s \in Slots, itable[s].lock \in {p, NULL}, pc[p] # "inval"
  PROVE  ~Freed(s)
<1> SUFFICES ASSUME NEW q \in Procs, pc[q] = "inval" /\ put[q] = s PROVE FALSE
  BY DEF Freed
<1>1. itable[s].lock = q
  BY DEF Inv, LockInv, Holds
<1> QED
  BY <1>1, InodeAssumption

\* sys_link() takes back the link it has counted.
LEMMA LinkBadStep ==
  ASSUME Counting, Inv, NEW p \in Procs, LinkBad(p)
  PROVE  Inv'
<1> DEFINE s == tgt[p]
           it == Visited(p, s)
           n == it[s].nlink - 1
           down == SetLinks(it, s, n)
<1>1. /\ PlaceAt(p) /\ pc[p] = "fail" /\ put[p] = NULL /\ Place(p) = "fail" /\ s \in Slots
      /\ dp[p] = NULL /\ ip[p] = NULL
  BY ZenonT(30) DEF LinkBad, Inv, TypeInv, Pointer, PlaceInv, PlaceAt, Place, Putting
<1>2. itable[s].ref > 0 /\ itable[s].inum \in Inums /\ Lockable(s)
  BY <1>1, Referred DEF LinkBad
<1>3. /\ it \in Table
      /\ \A t \in Slots \ {s} : it[t] = itable[t]
      /\ it[s].ref = itable[s].ref /\ it[s].inum = itable[s].inum
      /\ it[s].lock = NULL /\ it[s].type # "none"
  BY <1>1, <1>2, VisitedIsCopy
<1>4. /\ dp'[p] = dp[p] /\ ip'[p] = ip[p] /\ cwd'[p] = cwd[p] /\ fd'[p] = fd[p] /\ pc[p] # "inval"
  BY <1>1 DEF LinkBad, Keep, Same
<1>5. /\ itable' = down /\ dinode' = iupdate(dinode, down, s)
      /\ tgt' = Set(tgt, p, NULL) /\ Iput(p, s, "end")
  BY DEF LinkBad
<1>6. /\ down \in Table
      /\ \A t \in Slots \ {s} : down[t] = it[t]
      /\ down[s].ref = it[s].ref /\ down[s].inum = it[s].inum /\ down[s].valid = it[s].valid
      /\ down[s].lock = it[s].lock /\ down[s].type = it[s].type
  <2>1. s \in Slots /\ it \in Table /\ n \in Int
    BY <1>1, <1>3, NumberFields
  <2> HIDE DEF s, it, n
  <2> QED
    BY <2>1, SetNlink, ZenonT(30)
<1> HIDE DEF it, down
<1>7. /\ dinode' \in Dinodes
      /\ \A t \in Slots : down[t].ref > 0 /\ down[t].valid => CopyOf(down, dinode', t) \/ Freed(t)
  <2>1. \A t \in Slots : down[t].ref = itable[t].ref /\ down[t].inum = itable[t].inum
    BY <1>3, <1>6
  <2>2. ASSUME NEW t \in Slots \ {s}, down[t].ref > 0, down[t].valid
        PROVE  CopyOf(down, dinode, t) \/ Freed(t)
    BY <1>3, <1>6, <2>2, ZenonT(30) DEF Inv, CopyInv, Copied, CopyOf
  <2>3. dinode \in Dinodes /\ down[s].type # "none"
    BY <1>3, <1>6 DEF Inv, TypeInv
  <2> QED
    BY <1>1, <1>2, <1>5, <1>6, <2>1, <2>2, <2>3, WriteBack
<1>8. Own(p)
  BY <1>5 DEF LinkBad, Iput, Set, Own, Inv, TypeInv, Pointer, Keep, Same
<1>9. TypeInv'
  BY <1>1, <1>5, <1>6, <1>7 DEF LinkBad, Iput, Set, Inv, TypeInv, Pointer, Putting, Labels, Keep, Same
<1>10. tgt'[p] = NULL /\ put'[p] = s /\ pc'[p] = "put" /\ Place(p)' = "end"
  BY <1>1, <1>5 DEF Iput, Set, Inv, TypeInv, Pointer, Place, Putting
<1>11. PlaceAt(p)'
  BY <1>1, <1>4, <1>10, InodeAssumption DEF PlaceAt, Putting
<1>12. ASSUME NEW t \in Slots PROVE Held(p, t)' = Held(p, t)
  BY <1>1, <1>4, <1>10, PutAway
<1>13. LocksOwn(p)
  <2>1. \A t \in Slots : itable'[t].lock = itable[t].lock
    BY <1>2, <1>3, <1>5, <1>6 DEF Lockable
  <2> QED
    BY <1>1, <1>10, <2>1, HoldsNone DEF LocksOwn, Inv, LockInv
<1>14. \A t \in Slots : itable'[t].ref = itable[t].ref /\ itable'[t].inum = itable[t].inum
  BY <1>3, <1>5, <1>6
<1>15. \A t \in Slots : itable[t].ref > 0 /\ itable'[t].valid => Copied(t)' \/ Freed(t)
  BY <1>5, <1>7, <1>14 DEF Copied
<1> QED
  BY <1>4, <1>8, <1>9, <1>11, <1>12, <1>13, <1>14, <1>15, TableSame

\* sys_unlink() looks the name up in the directory it has locked.
LEMMA UnlinkNameStep ==
  ASSUME Counting, Inv, NEW p \in Procs, UnlinkName(p)
  PROVE  Inv'
<1> DEFINE s == dp[p]
           it == ilock(itable, p, s)
           g == Slot(itable, Entry(p))
<1>1. /\ PlaceAt(p) /\ pc[p] = "parent" /\ Place(p) = "parent" /\ put[p] = NULL /\ ip[p] = NULL
      /\ s \in Slots /\ itable[s].ref > 0 /\ DpInum(p) \in Inums
      /\ Lockable(s) /\ Name(p) \in Names /\ Entry(p) \in 0 .. NInodes
      /\ call[p].op = "unlink" /\ call[p] \in Calls
  BY ParentFound, SMT DEF UnlinkName
<1>2. tgt[p] = NULL
  BY <1>1 DEF PlaceAt
<1>3. /\ ip'[p] = ip[p] /\ cwd'[p] = cwd[p] /\ fd'[p] = fd[p] /\ call'[p] = call[p]
      /\ path'[p] = path[p] /\ pc[p] # "inval" /\ dinode' = dinode /\ dirents' = dirents
  BY <1>1 DEF UnlinkName, Keep, Same, diskVars
<1>4. CASE /\ itable' = Visited(p, s) /\ dp' = Set(dp, p, NULL)
           /\ Iput(p, s, "fail") /\ UNCHANGED tgt
  <2>2. itable' \in Table
    BY <1>1, <1>4, VisitedIsCopy
  <2>4. Own(p)
    BY <1>4 DEF UnlinkName, Iput, Set, Own, Inv, TypeInv, Pointer, Keep, Same
  <2>5. TypeInv'
    BY <1>1, <1>3, <1>4, <2>2 DEF UnlinkName, Iput, Set, Inv, TypeInv, Pointer, Putting, Labels, Keep, Same
  <2>6. dp'[p] = NULL /\ put'[p] = s /\ pc'[p] = "put" /\ Place(p)' = "fail" /\ tgt'[p] = NULL
    BY <1>1, <1>2, <1>4 DEF Iput, Set, Inv, TypeInv, Pointer, Place, Putting
  <2>7. PlaceAt(p)'
    BY <1>1, <1>2, <1>3, <2>6, InodeAssumption DEF PlaceAt, Putting
  <2>8. ASSUME NEW t \in Slots PROVE Held(p, t)' = Held(p, t) /\ (Holds(p, t)' <=> Holds(p, t))
    BY <1>1, <1>2, <1>3, <2>6, PutAway, HoldsNone
  <2> QED
    BY <1>1, <1>3, <1>4, <2>4, <2>5, <2>7, <2>8, TableVisited
<1>5. CASE /\ Entry(p) # 0 /\ HasSlot(Entry(p)) /\ itable' = LockedAnd(p, Entry(p))
           /\ tgt' = Set(tgt, p, g) /\ Goto(p, "unlink") /\ UNCHANGED dp
  <2>2. Entry(p) \in Inums
    BY <1>1, <1>5, InumRange
  <2>3. /\ it \in Table /\ g \in Slots /\ itable' \in Table /\ OneMore(it, itable', g)
        /\ \A t \in Slots : /\ it[t].ref = itable[t].ref /\ it[t].inum = itable[t].inum
                            /\ t # s => it[t].lock = itable[t].lock
        /\ it[s].lock = p /\ itable[s].lock = NULL
        /\ \A t \in Slots : it[t].ref > 0 /\ it[t].valid => CopyOf(it, dinode, t) \/ Freed(t)
    BY <1>1, <1>5, <2>2, LockedMore
  <2> HIDE DEF it, g
  <2>4. Own(p)
    BY <1>5 DEF UnlinkName, Goto, Set, Own, Inv, TypeInv, Pointer, Keep, Same
  <2>5. TypeInv'
    BY <1>1, <1>3, <1>5, <2>3 DEF UnlinkName, Goto, Set, Inv, TypeInv, Pointer, Putting, Labels, Keep, Same
  <2>6. dp'[p] = s /\ put'[p] = NULL /\ pc'[p] = "unlink" /\ Place(p)' = "unlink" /\ tgt'[p] = g
    BY <1>1, <1>5 DEF Goto, Set, Inv, TypeInv, Pointer, Place, Putting
  <2>7. PlaceAt(p)'
    BY <1>1, <1>3, <2>3, <2>6, InodeAssumption DEF PlaceAt, Putting
  <2>8. ASSUME NEW t \in Slots PROVE Held(p, t)' = Held(p, t) + One(g, t)
    BY <1>1, <1>2, <1>3, <2>6, TookOne
  <2>9. ASSUME NEW t \in Slots
        PROVE  /\ it[t].lock = p <=> Holds(p, t)'
               /\ \/ it[t].lock = itable[t].lock
                  \/ itable[t].lock \in {p, NULL} /\ it[t].lock \in {p, NULL}
    <3>1. itable[t].lock # p
      BY <1>1, LockOf, HoldsNone
    <3>2. Holds(p, t)' <=> t = s
      BY <2>6, HoldsAt
    <3> QED BY <1>1, <2>3, <2>6, <3>1, <3>2, NullApart
  <2> QED
    BY <1>3, <2>3, <2>4, <2>5, <2>7, <2>8, <2>9, TableGot, ZenonT(30)
<1> QED
  BY <1>4, <1>5 DEF UnlinkName

\* create() and sys_unlink() give up and put the directory.
LEMMA DpBadStep ==
  ASSUME Counting, Inv, NEW p \in Procs, DpBad(p)
  PROVE  Inv'
<1> DEFINE s == dp[p]
<1>1. /\ PlaceAt(p) /\ pc[p] = "dpbad" /\ put[p] = NULL /\ Place(p) = "dpbad" /\ s \in Slots
      /\ ip[p] = NULL
  <2>1. PlaceAt(p) /\ pc[p] = "dpbad" /\ dp[p] \in Slots \cup {NULL}
    BY DEF DpBad, Inv, TypeInv, Pointer, PlaceInv
  <2>2. Place(p) = "dpbad"
    BY <2>1 DEF Place, Putting
  <2> QED
    BY <2>1, <2>2 DEF PlaceAt, Putting
<1>2. itable[s].lock = p
  BY <1>1 DEF Inv, LockInv, Holds
<1>3. /\ itable' \in Table
      /\ \A t \in Slots \ {s} : itable'[t] = itable[t]
      /\ itable'[s].ref = itable[s].ref /\ itable'[s].inum = itable[s].inum
      /\ itable'[s].valid = itable[s].valid /\ itable'[s].lock = NULL
      /\ itable'[s].type = itable[s].type /\ itable'[s].nlink = itable[s].nlink
  <2>1. itable \in Table /\ itable' = iunlock(itable, s)
    BY DEF DpBad, Inv, TypeInv
  <2> QED
    BY <1>1, <2>1, Unlocked
<1>4. /\ ip'[p] = ip[p] /\ tgt'[p] = tgt[p] /\ cwd'[p] = cwd[p] /\ fd'[p] = fd[p] /\ call'[p] = call[p]
      /\ path'[p] = path[p] /\ pc[p] # "inval" /\ dinode' = dinode
  BY <1>1 DEF DpBad, Keep, Same, diskVars
<1>5. Own(p)
  BY DEF DpBad, Iput, Set, Own, Inv, TypeInv, Pointer, Keep, Same
<1>6. TypeInv'
  BY <1>1, <1>3 DEF DpBad, Iput, Set, Inv, TypeInv, Pointer, Putting, Labels, Keep, Same, diskVars
<1>7. dp'[p] = NULL /\ put'[p] = s /\ pc'[p] = "put" /\ Place(p)' = "fail"
  BY <1>1 DEF DpBad, Iput, Set, Inv, TypeInv, Pointer, Place, Putting
<1>8. PlaceAt(p)'
  BY <1>1, <1>4, <1>7, InodeAssumption DEF PlaceAt, Putting
<1>9. ASSUME NEW t \in Slots PROVE Held(p, t)' = Held(p, t)
  BY <1>1, <1>4, <1>7, PutAway
<1>10. LocksOwn(p)
  <2>1. ASSUME NEW t \in Slots PROVE itable'[t].lock # p /\ ~Holds(p, t)'
    <3>1. itable[t].lock = p <=> t = s
      BY <1>1, LockOf, HoldsAt
    <3>2. ~Holds(p, t)'
      BY <1>7, HoldsNone
    <3> QED BY <1>1, <1>3, <1>7, <3>1, <3>2, NullApart
  <2> QED
    BY <1>2, <1>3, <2>1 DEF LocksOwn
<1>11. \A t \in Slots : itable'[t].ref = itable[t].ref /\ itable'[t].inum = itable[t].inum
  BY <1>3
<1>12. ASSUME NEW t \in Slots, itable[t].ref > 0, itable'[t].valid PROVE Copied(t)' \/ Freed(t)
  <2>1. /\ itable'[t].valid = itable[t].valid /\ itable'[t].inum = itable[t].inum
        /\ itable'[t].type = itable[t].type /\ itable'[t].nlink = itable[t].nlink
        /\ dinode' = dinode
    BY <1>3, <1>4
  <2>2. Copied(t) \/ Freed(t)
    BY <1>12, <2>1 DEF Inv, CopyInv
  <2> QED BY <2>1, <2>2 DEF Copied, CopyOf
<1> QED
  BY <1>4, <1>5, <1>6, <1>8, <1>9, <1>10, <1>11, <1>12, TableSame

\* sys_unlink() counts the link off and puts the inode.
LEMMA UnlinkedStep ==
  ASSUME Counting, Inv, NEW p \in Procs, Unlinked(p)
  PROVE  Inv'
<1> DEFINE s == tgt[p]
           n == itable[s].nlink - 1
           down == SetLinks(itable, s, n)
<1>1. /\ PlaceAt(p) /\ pc[p] = "unlinked" /\ put[p] = NULL /\ Place(p) = "unlinked" /\ s \in Slots
      /\ dp[p] = NULL /\ ip[p] = NULL
  <2>1. PlaceAt(p) /\ pc[p] = "unlinked" /\ tgt[p] \in Slots \cup {NULL}
    BY DEF Unlinked, Inv, TypeInv, Pointer, PlaceInv
  <2>2. Place(p) = "unlinked"
    BY <2>1 DEF Place, Putting
  <2> QED
    BY <2>1, <2>2 DEF PlaceAt, Putting
<1>2. itable[s].ref > 0 /\ itable[s].inum \in Inums /\ itable[s].lock = p
  BY <1>1, Referred DEF Inv, LockInv, Holds
<1>3. /\ itable' = iunlock(down, s) /\ dinode' = iupdate(dinode, down, s)
      /\ tgt' = Set(tgt, p, NULL) /\ Iput(p, s, "end")
  BY DEF Unlinked
<1>4. /\ dp'[p] = dp[p] /\ ip'[p] = ip[p] /\ cwd'[p] = cwd[p] /\ fd'[p] = fd[p] /\ pc[p] # "inval"
  BY <1>1 DEF Unlinked, Keep, Same
<1>5. /\ down \in Table
      /\ \A t \in Slots \ {s} : down[t] = itable[t]
      /\ down[s].ref = itable[s].ref /\ down[s].inum = itable[s].inum
      /\ down[s].valid = itable[s].valid /\ down[s].type = itable[s].type
  <2>1. itable \in Table
    BY DEF Inv, TypeInv
  <2>2. s \in Slots /\ n \in Int
    BY <1>1, <2>1, NumberFields
  <2> HIDE DEF s, n
  <2> QED
    BY <2>1, <2>2, SetNlink, ZenonT(30)
<1> HIDE DEF down
<1>6. /\ itable' \in Table
      /\ \A t \in Slots \ {s} : itable'[t] = down[t]
      /\ itable'[s].ref = down[s].ref /\ itable'[s].inum = down[s].inum
      /\ itable'[s].valid = down[s].valid /\ itable'[s].lock = NULL
      /\ itable'[s].type = down[s].type /\ itable'[s].nlink = down[s].nlink
  BY <1>1, <1>3, <1>5, Unlocked
<1>7. /\ dinode' \in Dinodes
      /\ \A t \in Slots : down[t].ref > 0 /\ down[t].valid => CopyOf(down, dinode', t) \/ Freed(t)
  <2>1. \A t \in Slots : down[t].ref = itable[t].ref /\ down[t].inum = itable[t].inum
    BY <1>5
  <2>2. ASSUME NEW t \in Slots \ {s}, down[t].ref > 0, down[t].valid
        PROVE  CopyOf(down, dinode, t) \/ Freed(t)
    BY <1>5, <2>2 DEF Inv, CopyInv, Copied, CopyOf
  <2>3. dinode \in Dinodes /\ (down[s].valid => down[s].type # "none")
    <3>1. ~Freed(s)
      BY <1>1, <1>2, NotFreed
    <3> QED
      BY <1>1, <1>2, <1>5, <3>1 DEF Inv, TypeInv, CopyInv, Copied, CopyOf
  <2> QED
    BY <1>1, <1>2, <1>3, <1>5, <2>1, <2>2, <2>3, WriteBack
<1>8. Own(p)
  BY <1>3, ZenonT(30) DEF Unlinked, Iput, Set, Own, Inv, TypeInv, Pointer, Keep, Same
<1>9. TypeInv'
  BY <1>1, <1>3, <1>6, <1>7 DEF Unlinked, Iput, Set, Inv, TypeInv, Pointer, Putting, Labels, Keep, Same
<1>10. tgt'[p] = NULL /\ put'[p] = s /\ pc'[p] = "put" /\ Place(p)' = "end"
  BY <1>1, <1>3 DEF Iput, Set, Inv, TypeInv, Pointer, Place, Putting
<1>11. PlaceAt(p)'
  BY <1>1, <1>4, <1>10, InodeAssumption DEF PlaceAt, Putting
<1>12. ASSUME NEW t \in Slots PROVE Held(p, t)' = Held(p, t)
  BY <1>1, <1>4, <1>10, PutAway
<1>13. LocksOwn(p)
  <2>1. \A t \in Slots \ {s} : itable'[t].lock = itable[t].lock
    BY <1>5, <1>6
  <2>2. ASSUME NEW t \in Slots PROVE itable'[t].lock # p /\ ~Holds(p, t)'
    <3>1. itable[t].lock = p <=> t = s
      BY <1>1, LockOf, HoldsAt, ZenonT(30)
    <3>2. ~Holds(p, t)'
      BY <1>10, HoldsNone
    <3> QED BY <1>1, <1>6, <1>10, <2>1, <3>1, <3>2, NullApart
  <2> QED
    BY <1>2, <1>6, <2>1, <2>2 DEF LocksOwn
<1>14. \A t \in Slots : itable'[t].ref = itable[t].ref /\ itable'[t].inum = itable[t].inum
  BY <1>5, <1>6
<1>15. ASSUME NEW t \in Slots, itable[t].ref > 0, itable'[t].valid PROVE Copied(t)' \/ Freed(t)
  <2>1. /\ down[t].ref > 0 /\ down[t].valid /\ itable'[t].type = down[t].type
        /\ itable'[t].inum = down[t].inum /\ itable'[t].nlink = down[t].nlink
    BY <1>5, <1>6, <1>15
  <2> QED
    BY <1>7, <2>1 DEF Copied, CopyOf
<1> QED
  BY <1>4, <1>8, <1>9, <1>11, <1>12, <1>13, <1>14, <1>15, TableSame

\* open(), mkdir() and mknod() go on with what create() returned.
LEMMA CreatedStep ==
  ASSUME Counting, Inv, NEW p \in Procs, Created(p)
  PROVE  Inv'
<1> DEFINE s == tgt[p]
<1>1. /\ PlaceAt(p) /\ pc[p] = "created" /\ put[p] = NULL /\ Place(p) = "created" /\ s \in Slots
      /\ dp[p] = NULL /\ ip[p] = NULL
  <2>1. PlaceAt(p) /\ pc[p] = "created" /\ tgt[p] \in Slots \cup {NULL}
    BY DEF Created, Inv, TypeInv, Pointer, PlaceInv
  <2>2. Place(p) = "created"
    BY <2>1 DEF Place, Putting
  <2> QED
    BY <2>1, <2>2 DEF PlaceAt, Putting
<1>2. itable[s].lock = p
  BY <1>1 DEF Inv, LockInv, Holds
<1>3. /\ itable' \in Table
      /\ \A t \in Slots \ {s} : itable'[t] = itable[t]
      /\ itable'[s].ref = itable[s].ref /\ itable'[s].inum = itable[s].inum
      /\ itable'[s].valid = itable[s].valid /\ itable'[s].lock = NULL
      /\ itable'[s].type = itable[s].type /\ itable'[s].nlink = itable[s].nlink
  <2>1. itable \in Table /\ itable' = iunlock(itable, s)
    BY DEF Created, Inv, TypeInv
  <2> QED
    BY <1>1, <2>1, Unlocked
<1>4. /\ ip'[p] = ip[p] /\ dp'[p] = dp[p] /\ cwd'[p] = cwd[p] /\ call'[p] = call[p] /\ tgt'[p] = NULL
      /\ pc[p] # "inval" /\ dinode' = dinode
  BY <1>1 DEF Created, diskVars, Set, Inv, TypeInv, Pointer
<1>5. \/ call[p].op = "creat" /\ fd' = Set(fd, p, s) /\ Goto(p, "end")
      \/ Iput(p, s, "end") /\ UNCHANGED fd
  BY DEF Created
<1>6. Own(p)
  BY <1>5, ZenonT(30) DEF Created, Iput, Goto, Set, Own, Inv, TypeInv, Pointer
<1>7. TypeInv'
  <2>1. CASE fd' = Set(fd, p, s) /\ Goto(p, "end")
    BY <1>1, <1>3, <2>1 DEF Created, Goto, Set, Inv, TypeInv, Pointer, Putting, Labels, diskVars
  <2>2. CASE Iput(p, s, "end") /\ UNCHANGED fd
    BY <1>1, <1>3, <2>2 DEF Created, Iput, Set, Inv, TypeInv, Pointer, Putting, Labels, diskVars
  <2> QED
    BY <1>5, <2>1, <2>2
<1>8. /\ Place(p)' = "end"
      /\ \/ fd[p] = NULL /\ fd'[p] = s /\ put'[p] = NULL /\ pc'[p] = "end"
         \/ fd'[p] = fd[p] /\ put'[p] = s /\ pc'[p] = "put"
  <2>1. CASE call[p].op = "creat" /\ fd' = Set(fd, p, s) /\ Goto(p, "end")
    <3>1. fd[p] = NULL
      BY <1>1, <2>1 DEF PlaceAt
    <3> QED
      BY <1>1, <2>1, <3>1 DEF Goto, Set, Inv, TypeInv, Pointer, Place, Putting
  <2>2. CASE Iput(p, s, "end") /\ UNCHANGED fd
    BY <1>1, <2>2 DEF Iput, Set, Inv, TypeInv, Pointer, Place, Putting
  <2> QED
    BY <1>5, <2>1, <2>2
<1>9. PlaceAt(p)'
  BY <1>1, <1>4, <1>8, InodeAssumption DEF PlaceAt, Putting
<1>10. ASSUME NEW t \in Slots PROVE Held(p, t)' = Held(p, t)
  BY <1>1, <1>4, <1>8, InodeAssumption, SMTT(30) DEF Held, One
<1>11. LocksOwn(p)
  <2>1. ASSUME NEW t \in Slots PROVE itable'[t].lock # p /\ ~Holds(p, t)'
    <3>1. itable[t].lock = p <=> t = s
      BY <1>1, LockOf, HoldsAt, ZenonT(30)
    <3>2. ~Holds(p, t)'
      BY <1>8, HoldsNone
    <3> QED BY <1>1, <1>3, <1>4, <1>8, <3>1, <3>2, NullApart
  <2> QED
    BY <1>2, <1>3, <2>1 DEF LocksOwn
<1>12. \A t \in Slots : itable'[t].ref = itable[t].ref /\ itable'[t].inum = itable[t].inum
  BY <1>3
<1>13. ASSUME NEW t \in Slots, itable[t].ref > 0, itable'[t].valid PROVE Copied(t)' \/ Freed(t)
  <2>1. /\ itable'[t].valid = itable[t].valid /\ itable'[t].inum = itable[t].inum
        /\ itable'[t].type = itable[t].type /\ itable'[t].nlink = itable[t].nlink
        /\ dinode' = dinode
    BY <1>3, <1>4
  <2>2. Copied(t) \/ Freed(t)
    BY <1>13, <2>1 DEF Inv, CopyInv
  <2> QED BY <2>1, <2>2 DEF Copied, CopyOf
<1> QED
  BY <1>4, <1>6, <1>7, <1>9, <1>10, <1>11, <1>12, <1>13, TableSame

\* create() has found the name.
LEMMA ExistsStep ==
  ASSUME Counting, Inv, NEW p \in Procs, Exists(p)
  PROVE  Inv'
<1> DEFINE s == tgt[p]
           it == ilock(itable, p, s)
<1>1. /\ PlaceAt(p) /\ pc[p] = "exists" /\ put[p] = NULL /\ Place(p) = "exists" /\ s \in Slots
      /\ dp[p] = NULL /\ ip[p] = NULL
  <2>1. PlaceAt(p) /\ pc[p] = "exists" /\ tgt[p] \in Slots \cup {NULL}
    BY DEF Exists, Inv, TypeInv, Pointer, PlaceInv
  <2>2. Place(p) = "exists"
    BY <2>1 DEF Place, Putting
  <2> QED
    BY <2>1, <2>2 DEF PlaceAt, Putting
<1>2. itable[s].ref > 0 /\ itable[s].inum \in Inums /\ Lockable(s) /\ itable[s].lock = NULL
  BY <1>1, Referred DEF Exists, Lockable
<1>3. /\ dp'[p] = dp[p] /\ ip'[p] = ip[p] /\ cwd'[p] = cwd[p] /\ fd'[p] = fd[p] /\ call'[p] = call[p]
      /\ pc[p] # "inval" /\ dinode' = dinode
  BY <1>1 DEF Exists, Keep, Same, diskVars
<1>4. CASE itable' = it /\ Goto(p, "created") /\ UNCHANGED tgt
  <2>1. /\ itable' \in Table
        /\ \A t \in Slots \ {s} : itable'[t] = itable[t]
        /\ itable'[s].ref = itable[s].ref /\ itable'[s].inum = itable[s].inum
        /\ itable'[s].lock = p /\ itable'[s].type # "none"
        /\ itable'[s].type = dinode[itable[s].inum].type
        /\ itable'[s].nlink = dinode[itable[s].inum].nlink
    BY <1>1, <1>2, <1>4, LockedIsCopy, SMT
  <2>2. Own(p)
    BY <1>4 DEF Exists, Goto, Set, Own, Inv, TypeInv, Pointer, Keep, Same
  <2>3. TypeInv'
    BY <1>1, <1>4, <2>1 DEF Exists, Goto, Inv, TypeInv, Pointer, Putting, Labels, Keep, Same, diskVars
  <2>4. tgt'[p] = s /\ put'[p] = NULL /\ pc'[p] = "created" /\ Place(p)' = "created"
    BY <1>1, <1>4 DEF Goto, Inv, TypeInv, Place, Putting
  <2>5. PlaceAt(p)'
    BY <1>1, <1>3, <2>4, InodeAssumption DEF PlaceAt, Putting
  <2>6. ASSUME NEW t \in Slots PROVE Held(p, t)' = Held(p, t)
    BY <1>1, <1>3, <2>4, InodeAssumption DEF Held, One
  <2>7. LocksOwn(p)
    <3>1. ASSUME NEW t \in Slots PROVE itable'[t].lock = p <=> Holds(p, t)'
      <4>1. itable[t].lock # p
        BY <1>1, LockOf, HoldsNone
      <4>2. Holds(p, t)' <=> t = s
        BY <2>4, HoldsAt
      <4> QED BY <1>1, <2>1, <2>4, <4>1, <4>2, NullApart
    <3> QED
      BY <1>2, <2>1, <3>1 DEF LocksOwn
  <2>8. \A t \in Slots : itable'[t].ref = itable[t].ref /\ itable'[t].inum = itable[t].inum
    BY <2>1
  <2>9. ASSUME NEW t \in Slots, itable[t].ref > 0, itable'[t].valid PROVE Copied(t)' \/ Freed(t)
    BY <1>3, <2>1, <2>9, ZenonT(30) DEF Inv, CopyInv, Copied, CopyOf
  <2> QED
    BY <1>3, <2>2, <2>3, <2>5, <2>6, <2>7, <2>8, <2>9, TableSame
<1>5. CASE itable' = iunlock(it, s) /\ Iput(p, s, "fail") /\ tgt' = Set(tgt, p, NULL)
  <2>1. itable' = Visited(p, s)
    BY <1>5 DEF Visited
  <2>2. itable' \in Table
    BY <1>1, <1>2, <2>1, VisitedIsCopy
  <2>3. Own(p)
    BY <1>5 DEF Exists, Iput, Set, Own, Inv, TypeInv, Pointer, Keep, Same
  <2>4. TypeInv'
    BY <1>1, <1>5, <2>2 DEF Exists, Iput, Set, Inv, TypeInv, Pointer, Putting, Labels, Keep, Same, diskVars
  <2>5. tgt'[p] = NULL /\ put'[p] = s /\ pc'[p] = "put" /\ Place(p)' = "fail"
    BY <1>1, <1>5 DEF Iput, Set, Inv, TypeInv, Pointer, Place, Putting
  <2>6. PlaceAt(p)'
    BY <1>1, <1>3, <2>5, InodeAssumption DEF PlaceAt, Putting
  <2>7. ASSUME NEW t \in Slots PROVE Held(p, t)' = Held(p, t) /\ (Holds(p, t)' <=> Holds(p, t))
    BY <1>1, <1>3, <2>5, PutAway, HoldsNone
  <2> QED
    BY <1>1, <1>2, <1>3, <2>1, <2>3, <2>4, <2>6, <2>7, TableVisited
<1> QED
  BY <1>4, <1>5 DEF Exists

\* create() looks the name up and, if there is none, allocates an inode.
LEMMA CreateNameStep ==
  ASSUME Counting, Inv, NEW p \in Procs, CreateName(p)
  PROVE  Inv'
<1> DEFINE s == dp[p]
<1>1. /\ PlaceAt(p) /\ pc[p] = "parent" /\ Place(p) = "parent" /\ put[p] = NULL /\ ip[p] = NULL
      /\ s \in Slots /\ itable[s].ref > 0 /\ DpInum(p) \in Inums
      /\ Lockable(s) /\ Name(p) \in Names /\ Entry(p) \in 0 .. NInodes
      /\ call[p].op \in Creates /\ call[p] \in Calls
  BY ParentFound DEF CreateName
<1>2. tgt[p] = NULL
  BY <1>1 DEF PlaceAt, Creates
<1>3. /\ ip'[p] = ip[p] /\ cwd'[p] = cwd[p] /\ fd'[p] = fd[p] /\ call'[p] = call[p]
      /\ path'[p] = path[p] /\ pc[p] # "inval" /\ dirents' = dirents /\ itable[s].lock = NULL
  BY <1>1 DEF CreateName, Keep, Same, Lockable
<1>4. CASE /\ Entry(p) # 0 /\ HasSlot(Entry(p))
           /\ itable' = iget(Visited(p, s), Entry(p))
           /\ tgt' = Set(tgt, p, Slot(Visited(p, s), Entry(p)))
           /\ Iput(p, s, "exists") /\ dp' = Set(dp, p, NULL) /\ UNCHANGED dinode
  <2> DEFINE it == Visited(p, s)
             i == Entry(p)
             g == Slot(itable, i)
  <2>1. i \in Inums
    BY <1>1, <1>4, InumRange
  <2>2. /\ it \in Table
        /\ \A t \in Slots \ {s} : it[t] = itable[t]
        /\ it[s].ref = itable[s].ref /\ it[s].inum = itable[s].inum
        /\ it[s].lock = NULL /\ it[s].type # "none"
        /\ it[s].type = dinode[itable[s].inum].type
        /\ it[s].nlink = dinode[itable[s].inum].nlink
    BY <1>1, VisitedIsCopy
  <2>3. \A t \in Slots : it[t].ref = itable[t].ref /\ it[t].inum = itable[t].inum
    BY <2>2
  <2>4. Slot(it, i) = g /\ g \in Slots /\ itable' \in Table /\ OneMore(it, itable', g)
    <3>1. itable \in Table /\ HasSlot(i) /\ itable' = iget(it, i)
      BY <1>4 DEF Inv, TypeInv
    <3> HIDE DEF it, i
    <3> QED
      BY <2>1, <2>2, <2>3, <3>1, GotMore
  <2>5. tgt' = [tgt EXCEPT ![p] = g]
    BY <1>4, <2>4 DEF Set
  <2> HIDE DEF g
  <2>6. Own(p)
    BY <1>4, <2>5 DEF CreateName, Iput, Set, Own, Inv, TypeInv, Pointer, Keep, Same
  <2>7. TypeInv'
    BY <1>1, <1>3, <1>4, <2>4, <2>5, SMTT(30) DEF CreateName, Iput, Set, Inv, TypeInv, Pointer, Putting,
       Labels, Keep, Same
  <2>8. dp'[p] = NULL /\ put'[p] = s /\ pc'[p] = "put" /\ Place(p)' = "exists" /\ tgt'[p] = g
    BY <1>1, <1>4, <2>5 DEF Iput, Set, Inv, TypeInv, Pointer, Place, Putting
  <2>9. PlaceAt(p)'
    BY <1>1, <1>3, <2>4, <2>8, InodeAssumption DEF PlaceAt, Putting
  <2>10. ASSUME NEW t \in Slots PROVE Held(p, t)' = Held(p, t) + One(g, t)
    BY <1>1, <1>2, <1>3, <2>8, TookOne
  <2>11. ASSUME NEW t \in Slots PROVE (it[t].lock = p <=> Holds(p, t)') /\ it[t].lock = itable[t].lock
    <3>1. it[t].lock = itable[t].lock
      BY <1>3, <2>2
    <3> QED
      BY <1>1, <2>8, <3>1, HoldsNone DEF Inv, LockInv
  <2>12. ASSUME NEW t \in Slots, it[t].ref > 0, it[t].valid PROVE CopyOf(it, dinode', t) \/ Freed(t)
    BY <1>4, <2>2, <2>12 DEF Inv, CopyInv, Copied, CopyOf
  <2> HIDE DEF it
  <2> QED
    BY <1>3, <2>2, <2>3, <2>4, <2>6, <2>7, <2>9, <2>10, <2>11, <2>12, TableGot
<1>5. ASSUME NEW i \in Inums, dinode[i].type = "none", HasSlot(i),
             dinode' = [dinode EXCEPT ![i] = [type |-> NewType(call[p].op), nlink |-> 0]],
             itable' = LockedAnd(p, i), tgt' = Set(tgt, p, Slot(itable, i)),
             Goto(p, "create"), UNCHANGED dp
      PROVE  Inv'
  <2> DEFINE it == ilock(itable, p, s)
             g == Slot(itable, i)
  <2>2. /\ it \in Table /\ g \in Slots /\ itable' \in Table /\ OneMore(it, itable', g)
        /\ \A t \in Slots : /\ it[t].ref = itable[t].ref /\ it[t].inum = itable[t].inum
                            /\ t # s => it[t].lock = itable[t].lock
        /\ it[s].lock = p
        /\ \A t \in Slots : it[t].ref > 0 /\ it[t].valid => CopyOf(it, dinode, t) \/ Freed(t)
    BY <1>1, <1>5, LockedMore
  <2>3. tgt' = [tgt EXCEPT ![p] = g]
    BY <1>5 DEF Set
  <2> HIDE DEF it, g
  <2>4. dinode' \in Dinodes
    <3>1. NewType(call[p].op) \in Types
      BY DEF NewType, Types
    <3> QED
      BY <1>5, <3>1, SMT DEF Inv, TypeInv, Dinodes
  <2>5. Own(p)
    BY <1>5, <2>3 DEF CreateName, Goto, Set, Own, Inv, TypeInv, Pointer, Keep, Same
  <2>6. TypeInv'
    BY <1>1, <1>3, <1>5, <2>2, <2>3, <2>4, SMT DEF CreateName, Goto, Set, Inv, TypeInv, Pointer,
       Putting, Labels, Keep, Same
  <2>7. dp'[p] = s /\ put'[p] = NULL /\ pc'[p] = "create" /\ Place(p)' = "create" /\ tgt'[p] = g
    BY <1>1, <1>5, <2>3 DEF Goto, Set, Inv, TypeInv, Pointer, Place, Putting
  <2>8. PlaceAt(p)'
    BY <1>1, <1>3, <2>2, <2>7, InodeAssumption DEF PlaceAt, Putting
  <2>9. ASSUME NEW t \in Slots PROVE Held(p, t)' = Held(p, t) + One(g, t)
    BY <1>1, <1>2, <1>3, <2>7, TookOne
  <2>10. ASSUME NEW t \in Slots
         PROVE  /\ it[t].lock = p <=> Holds(p, t)'
                /\ \/ it[t].lock = itable[t].lock
                   \/ itable[t].lock \in {p, NULL} /\ it[t].lock \in {p, NULL}
    <3>1. itable[t].lock # p
      BY <1>1, LockOf, HoldsNone
    <3>2. Holds(p, t)' <=> t = s
      BY <2>7, HoldsAt
    <3> QED BY <1>1, <1>3, <2>2, <2>7, <3>1, <3>2, NullApart
  <2>11. ASSUME NEW t \in Slots, it[t].ref > 0, it[t].valid PROVE CopyOf(it, dinode', t) \/ Freed(t)
    <3>1. CASE CopyOf(it, dinode, t)
      <4>1. dinode[it[t].inum].type # "none" /\ it[t].inum \in Inums
        BY <2>2, <2>11, <3>1 DEF CopyOf, Inv, OneSlot
      <4>2. dinode'[it[t].inum] = dinode[it[t].inum]
        BY <1>5, <4>1 DEF Inv, TypeInv, Dinodes
      <4> QED
        BY <3>1, <4>2 DEF CopyOf
    <3> QED
      BY <2>2, <2>11, <3>1
  <2> QED
    BY <1>3, <2>2, <2>5, <2>6, <2>8, <2>9, <2>10, <2>11, TableGot, ZenonT(30)
<1> QED
  BY <1>4, <1>5 DEF CreateName

\* sys_unlink() erases the name, or finds that it must not.
LEMMA UnlinkStep ==
  ASSUME Counting, Inv, NEW p \in Procs, Unlink(p)
  PROVE  Inv'
<1> DEFINE s == tgt[p]
           d == dp[p]
           it == ilock(itable, p, s)
           dir == it[s].type = "dir"
           n == it[d].nlink - 1
           up == IF dir THEN SetLinks(it, d, n) ELSE it
<1>1. /\ PlaceAt(p) /\ pc[p] = "unlink" /\ put[p] = NULL /\ Place(p) = "unlink"
      /\ s \in Slots /\ d \in Slots /\ ip[p] = NULL /\ path[p] # <<>> /\ call[p] \in Calls
      /\ call[p].op = "unlink"
  <2>1. PlaceAt(p) /\ pc[p] = "unlink" /\ s \in Slots \cup {NULL} /\ d \in Slots \cup {NULL}
    BY DEF Unlink, Inv, TypeInv, Pointer, PlaceInv
  <2>2. Place(p) = "unlink"
    BY <2>1 DEF Place, Putting
  <2> QED
    BY <2>1, <2>2 DEF PlaceAt, Putting
<1>2. /\ itable[s].ref > 0 /\ itable[s].inum \in Inums /\ Lockable(s) /\ itable[s].lock = NULL
      /\ itable[d].ref > 0 /\ itable[d].inum \in Inums
  BY <1>1, Referred DEF Unlink, Lockable
<1>3. itable[d].lock = p /\ s # d
  <2>1. itable[d].lock = p
    BY <1>1, LockOf, HoldsAt
  <2> QED BY <1>2, <2>1, NullApart
<1>4. /\ it \in Table
      /\ \A t \in Slots \ {s} : it[t] = itable[t]
      /\ it[s].ref = itable[s].ref /\ it[s].inum = itable[s].inum
      /\ it[s].lock = p /\ it[s].type # "none"
      /\ it[s].type = dinode[itable[s].inum].type
      /\ it[s].nlink = dinode[itable[s].inum].nlink
  BY <1>1, <1>2, LockedIsCopy
<1>5. /\ ip'[p] = ip[p] /\ cwd'[p] = cwd[p] /\ fd'[p] = fd[p] /\ call'[p] = call[p]
      /\ path'[p] = path[p] /\ pc[p] # "inval"
  BY <1>1 DEF Unlink, Keep, Same
<1>6. CASE /\ itable' = iunlock(it, s) /\ Iput(p, s, "dpbad") /\ tgt' = Set(tgt, p, NULL)
           /\ UNCHANGED <<diskVars, dp>>
  <2>1. itable' = Visited(p, s) /\ dinode' = dinode /\ dirents' = dirents
    BY <1>6 DEF Visited, diskVars
  <2>2. itable' \in Table
    BY <1>1, <1>2, <2>1, VisitedIsCopy
  <2>3. Own(p)
    BY <1>6 DEF Unlink, Iput, Set, Own, Inv, TypeInv, Pointer, Keep, Same
  <2>4. TypeInv'
    BY <1>1, <1>6, <2>1, <2>2 DEF Unlink, Iput, Set, Inv, TypeInv, Pointer, Putting, Labels, Keep, Same
  <2>5. tgt'[p] = NULL /\ dp'[p] = d /\ put'[p] = s /\ pc'[p] = "put" /\ Place(p)' = "dpbad"
    BY <1>1, <1>6 DEF Iput, Set, Inv, TypeInv, Pointer, Place, Putting
  <2>6. PlaceAt(p)'
    BY <1>1, <1>5, <2>5, InodeAssumption DEF PlaceAt, Putting
  <2>7. ASSUME NEW t \in Slots PROVE Held(p, t)' = Held(p, t) /\ (Holds(p, t)' <=> Holds(p, t))
    BY <1>1, <1>5, <2>5, PutAway, HoldsAt
  <2> QED
    BY <1>1, <1>2, <1>5, <2>1, <2>3, <2>4, <2>6, <2>7, TableVisited
<1>7. CASE /\ dirents' = [dirents EXCEPT ![DpInum(p)][Name(p)] = 0]
           /\ dinode' = iupdate(dinode, up, d)
           /\ itable' = iunlock(up, d)
           /\ Iput(p, d, "unlinked") /\ dp' = Set(dp, p, NULL) /\ UNCHANGED tgt
  <2>1. /\ up \in Table
        /\ \A t \in Slots \ {d} : up[t] = it[t]
        /\ up[d].ref = it[d].ref /\ up[d].inum = it[d].inum /\ up[d].valid = it[d].valid
        /\ up[d].lock = it[d].lock /\ up[d].type = it[d].type
    <3>1. d \in Slots /\ it \in Table /\ n \in Int
      BY <1>1, <1>4, NumberFields
    <3> DEFINE jt == SetLinks(it, d, n)
    <3> HIDE DEF d, it, n
    <3>2. /\ jt \in Table
          /\ \A t \in Slots \ {d} : jt[t] = it[t]
          /\ jt[d].ref = it[d].ref /\ jt[d].inum = it[d].inum /\ jt[d].valid = it[d].valid
          /\ jt[d].lock = it[d].lock /\ jt[d].type = it[d].type
      BY <3>1, SetNlink, ZenonT(30)
    <3>3. up = jt \/ up = it
      OBVIOUS
    <3> HIDE DEF up, jt
    <3> QED
      BY <3>1, <3>2, <3>3
  <2> HIDE DEF up, it
  <2>2. /\ itable' \in Table
        /\ \A t \in Slots \ {d} : itable'[t] = up[t]
        /\ itable'[d].ref = up[d].ref /\ itable'[d].inum = up[d].inum
        /\ itable'[d].valid = up[d].valid /\ itable'[d].lock = NULL
        /\ itable'[d].type = up[d].type /\ itable'[d].nlink = up[d].nlink
    BY <1>1, <1>7, <2>1, Unlocked
  <2>3. /\ dinode' \in Dinodes
        /\ \A t \in Slots : up[t].ref > 0 /\ up[t].valid => CopyOf(up, dinode', t) \/ Freed(t)
    <3>1. \A t \in Slots : up[t].ref = itable[t].ref /\ up[t].inum = itable[t].inum
      BY <1>4, <2>1, ZenonT(30)
    <3>2. ASSUME NEW t \in Slots \ {d}, up[t].ref > 0, up[t].valid
          PROVE  CopyOf(up, dinode, t) \/ Freed(t)
      <4>1. CASE t = s
        BY <1>4, <2>1, <3>2, <4>1, ZenonT(30) DEF CopyOf
      <4>2. CASE t # s
        <5>1. up[t] = itable[t]
          BY <1>4, <2>1, <3>2, <4>2
        <5> QED BY <3>2, <5>1 DEF Inv, CopyInv, Copied, CopyOf
      <4> QED BY <4>1, <4>2
    <3>3. dinode \in Dinodes /\ (up[d].valid => up[d].type # "none")
      <4>1. ~Freed(d)
        BY <1>1, <1>3, NotFreed
      <4>2. up[d].valid = itable[d].valid /\ up[d].type = itable[d].type
        BY <1>1, <1>3, <1>4, <2>1
      <4> QED
        BY <1>1, <1>2, <4>1, <4>2 DEF Inv, TypeInv, CopyInv, Copied, CopyOf
    <3> QED
      BY <1>1, <1>2, <1>7, <2>1, <3>1, <3>2, <3>3, WriteBack
  <2>4. dirents' \in Dirents
    <3>1. Name(p) \in Names /\ DpInum(p) \in Inums
      BY <1>1, <1>2, SMT DEF Name, DpInum, Inv, TypeInv
    <3> QED
      BY <1>7, <3>1, InodeAssumption, SMTT(30) DEF Inv, TypeInv, Dirents
  <2>5. Own(p)
    BY <1>7 DEF Unlink, Iput, Set, Own, Inv, TypeInv, Pointer, Keep, Same
  <2>6. TypeInv'
    BY <1>1, <1>7, <2>2, <2>3, <2>4 DEF Unlink, Iput, Set, Inv, TypeInv, Pointer, Putting, Labels, Keep, Same
  <2>7. tgt'[p] = s /\ dp'[p] = NULL /\ put'[p] = d /\ pc'[p] = "put" /\ Place(p)' = "unlinked"
    BY <1>1, <1>7 DEF Iput, Set, Inv, TypeInv, Pointer, Place, Putting
  <2>8. PlaceAt(p)'
    BY <1>1, <1>5, <2>7, InodeAssumption DEF PlaceAt, Putting
  <2>9. ASSUME NEW t \in Slots PROVE Held(p, t)' = Held(p, t)
    BY <1>1, <1>5, <2>7, PutAway
  <2>10. LocksOwn(p)
    <3>1. itable'[d].lock = NULL /\ itable'[s].lock = p
      BY <1>1, <1>3, <1>4, <2>1, <2>2, ZenonT(30)
    <3>2. \A t \in Slots \ {s, d} : itable'[t].lock = itable[t].lock
      BY <1>4, <2>1, <2>2
    <3>3. ASSUME NEW t \in Slots PROVE itable'[t].lock = p <=> Holds(p, t)'
      <4>1. itable[t].lock = p <=> t = d
        BY <1>1, LockOf, HoldsAt, ZenonT(30)
      <4>2. Holds(p, t)' <=> t = s
        BY <2>7, HoldsAt
      <4> QED BY <1>1, <1>3, <2>7, <3>1, <3>2, <4>1, <4>2, NullApart
    <3> QED
      BY <1>2, <1>3, <3>1, <3>2, <3>3 DEF LocksOwn
  <2>11. \A t \in Slots : itable'[t].ref = itable[t].ref /\ itable'[t].inum = itable[t].inum
    BY <1>4, <2>1, <2>2, ZenonT(30)
  <2>12. ASSUME NEW t \in Slots, itable[t].ref > 0, itable'[t].valid PROVE Copied(t)' \/ Freed(t)
    <3>1. /\ up[t].ref > 0 /\ up[t].valid /\ itable'[t].type = up[t].type
          /\ itable'[t].inum = up[t].inum /\ itable'[t].nlink = up[t].nlink
      BY <1>4, <2>1, <2>2, <2>12, SMT
    <3> QED
      BY <2>3, <3>1 DEF Copied, CopyOf
  <2> QED
    BY <1>5, <2>5, <2>6, <2>8, <2>9, <2>10, <2>11, <2>12, TableSame
<1> QED
  BY <1>6, <1>7 DEF Unlink

\* Entering a name, and the two names every directory starts with, leave the
\* directories well-formed.
LEMMA Entered ==
  ASSUME NEW de \in Dirents, NEW dot \in Inums, NEW up \in Inums, NEW n \in Names
  PROVE  /\ [de EXCEPT ![up][n] = dot] \in Dirents
         /\ [de EXCEPT ![dot] = [Empty EXCEPT !["."] = dot, ![".."] = up]] \in Dirents
<1>1. Inums \subseteq 0 .. NInodes /\ dot \in 0 .. NInodes /\ up \in 0 .. NInodes
  BY InumRange
<1> DEFINE dots == [Empty EXCEPT !["."] = dot, ![".."] = up]
           Dir == [Names -> 0 .. NInodes]
<1>2. [de EXCEPT ![up][n] = dot] \in Dirents
  BY <1>1 DEF Dirents
<1>3. dots \in Dir
  <2>1. Empty \in Dir
    BY InodeAssumption, SMT DEF Empty
  <2>2. ASSUME NEW f \in Dir, NEW k \in Names, NEW v \in 0 .. NInodes
        PROVE  [f EXCEPT ![k] = v] \in Dir
    OBVIOUS
  <2> HIDE DEF Dir
  <2>3. [Empty EXCEPT !["."] = dot] \in Dir
    BY <1>1, <2>1, <2>2, InodeAssumption
  <2> QED
    BY <1>1, <2>2, <2>3, InodeAssumption
<1> HIDE DEF dots
<1>4. [de EXCEPT ![dot] = dots] \in Dirents
  BY <1>3 DEF Dirents
<1> QED
  BY <1>2, <1>4 DEF dots

\* create() initialises the new inode and enters its names.
LEMMA CreateStep ==
  ASSUME Counting, Inv, NEW p \in Procs, Create(p)
  PROVE  Inv'
<1> DEFINE s == tgt[p]
           d == dp[p]
           jt == ilock(itable, p, s)
           it == SetLinks(jt, s, 1)
           dir == call[p].op = "mkdir"
           n == it[d].nlink + 1
           up == IF dir THEN SetLinks(it, d, n) ELSE it
           dots == [Empty EXCEPT !["."] = it[s].inum, ![".."] = DpInum(p)]
           entered == [dirents EXCEPT ![DpInum(p)][Name(p)] = it[s].inum]
           dj == iupdate(dinode, up, s)
<1>1. /\ PlaceAt(p) /\ pc[p] = "create" /\ put[p] = NULL /\ Place(p) = "create"
      /\ s \in Slots /\ d \in Slots /\ ip[p] = NULL /\ path[p] # <<>> /\ call[p] \in Calls
  <2>1. PlaceAt(p) /\ pc[p] = "create" /\ s \in Slots \cup {NULL} /\ d \in Slots \cup {NULL}
    BY DEF Create, Inv, TypeInv, Pointer, PlaceInv
  <2>2. Place(p) = "create"
    BY <2>1 DEF Place, Putting
  <2> QED
    BY <2>1, <2>2 DEF PlaceAt, Putting
<1>2. /\ itable[s].ref > 0 /\ itable[s].inum \in Inums /\ Lockable(s) /\ itable[s].lock = NULL
      /\ itable[d].ref > 0 /\ itable[d].inum \in Inums
  BY <1>1, Referred DEF Create, Lockable
<1>3. itable[d].lock = p /\ s # d
  <2>1. itable[d].lock = p
    BY <1>1, LockOf, HoldsAt, ZenonT(30)
  <2> QED BY <1>2, <2>1, NullApart
<1>4. /\ it \in Table
      /\ \A t \in Slots \ {s} : it[t] = itable[t]
      /\ it[s].ref = itable[s].ref /\ it[s].inum = itable[s].inum
      /\ it[s].lock = p /\ it[s].type # "none"
  <2>1. /\ jt \in Table
        /\ \A t \in Slots \ {s} : jt[t] = itable[t]
        /\ jt[s].ref = itable[s].ref /\ jt[s].inum = itable[s].inum
        /\ jt[s].lock = p /\ jt[s].type # "none"
    BY <1>1, <1>2, LockedIsCopy
  <2>2. s \in Slots /\ 1 \in Int
    BY <1>1, SMT
  <2> HIDE DEF s, jt
  <2>3. /\ it \in Table
        /\ \A t \in Slots \ {s} : it[t] = jt[t]
        /\ it[s].ref = jt[s].ref /\ it[s].inum = jt[s].inum
        /\ it[s].lock = jt[s].lock /\ it[s].type = jt[s].type
    BY <2>1, <2>2, SetNlink, ZenonT(30)
  <2> HIDE DEF it
  <2> QED
    BY <2>1, <2>3
<1>5. /\ up \in Table
      /\ \A t \in Slots \ {d} : up[t] = it[t]
      /\ up[d].ref = it[d].ref /\ up[d].inum = it[d].inum /\ up[d].valid = it[d].valid
      /\ up[d].lock = it[d].lock /\ up[d].type = it[d].type
  <2>1. d \in Slots /\ it \in Table /\ n \in Int
    BY <1>1, <1>4, NumberFields
  <2> DEFINE kt == SetLinks(it, d, n)
  <2> HIDE DEF d, it, n
  <2>2. /\ kt \in Table
        /\ \A t \in Slots \ {d} : kt[t] = it[t]
        /\ kt[d].ref = it[d].ref /\ kt[d].inum = it[d].inum /\ kt[d].valid = it[d].valid
        /\ kt[d].lock = it[d].lock /\ kt[d].type = it[d].type
    BY <2>1, SetNlink, ZenonT(30)
  <2>3. up = kt \/ up = it
    OBVIOUS
  <2> HIDE DEF up, kt
  <2> QED
    BY <2>1, <2>2, <2>3
<1>6. /\ itable' = iunlock(up, d)
      /\ dinode' = iupdate(dj, up, d)
      /\ dirents' = IF dir THEN [entered EXCEPT ![it[s].inum] = dots] ELSE entered
      /\ Iput(p, d, "created") /\ dp' = Set(dp, p, NULL)
  BY DEF Create
<1>7. /\ ip'[p] = ip[p] /\ cwd'[p] = cwd[p] /\ fd'[p] = fd[p] /\ call'[p] = call[p]
      /\ path'[p] = path[p] /\ tgt'[p] = s /\ pc[p] # "inval"
  BY <1>1 DEF Create, Keep, Same
<1>8. dirents' \in Dirents
  <2>1. Name(p) \in Names /\ DpInum(p) \in Inums /\ it[s].inum \in Inums /\ dirents \in Dirents
    BY <1>1, <1>2, <1>4, SMTT(30) DEF Name, DpInum, Inv, TypeInv
  <2> HIDE DEF it, s
  <2>2. entered \in Dirents
    BY <2>1, Entered
  <2> HIDE DEF entered
  <2>3. [entered EXCEPT ![it[s].inum] = dots] \in Dirents
    BY <2>1, <2>2, Entered
  <2> QED
    BY <1>6, <2>2, <2>3, ZenonT(30)
<1> HIDE DEF it, up
<1>9. /\ itable' \in Table
      /\ \A t \in Slots \ {d} : itable'[t] = up[t]
      /\ itable'[d].ref = up[d].ref /\ itable'[d].inum = up[d].inum
      /\ itable'[d].valid = up[d].valid /\ itable'[d].lock = NULL
      /\ itable'[d].type = up[d].type /\ itable'[d].nlink = up[d].nlink
  BY <1>1, <1>5, <1>6, Unlocked
<1>10. /\ dinode' \in Dinodes
       /\ \A t \in Slots : up[t].ref > 0 /\ up[t].valid => CopyOf(up, dinode', t) \/ Freed(t)
  <2>1. \A t \in Slots : up[t].ref = itable[t].ref /\ up[t].inum = itable[t].inum
    BY <1>4, <1>5, ZenonT(30)
  <2>2. dinode \in Dinodes /\ up[s].inum \in Inums /\ up[s].inum = itable[s].inum /\ up[s].type # "none"
    BY <1>1, <1>2, <1>3, <1>4, <1>5 DEF Inv, TypeInv
  <2>3. /\ dj \in Dinodes
        /\ \A i \in Inums \ {itable[s].inum} : dj[i] = dinode[i]
        /\ dj[up[s].inum].type = up[s].type /\ dj[up[s].inum].nlink = up[s].nlink
    BY <1>1, <1>5, <2>2, Updated, SMTT(30)
  <2> HIDE DEF dj
  <2>4. ASSUME NEW t \in Slots \ {d}, up[t].ref > 0, up[t].valid
        PROVE  CopyOf(up, dj, t) \/ Freed(t)
    <3>1. CASE t = s
      BY <2>2, <2>3, <3>1 DEF CopyOf
    <3>2. CASE t # s
      <4>1. up[t] = itable[t]
        BY <1>4, <1>5, <3>2
      <4>2. CopyOf(itable, dj, t) \/ Freed(t)
        BY <1>1, <1>2, <2>3, <2>4, <3>2, <4>1, CopyApart
      <4> QED
        BY <4>1, <4>2 DEF CopyOf
    <3> QED
      BY <3>1, <3>2
  <2>5. up[d].valid => up[d].type # "none"
    <3>1. ~Freed(d)
      BY <1>1, <1>3, NotFreed
    <3>2. up[d].valid = itable[d].valid /\ up[d].type = itable[d].type
      BY <1>1, <1>3, <1>4, <1>5
    <3> QED
      <4>1. itable[d].valid => Copied(d)
        BY <1>1, <1>2, <3>1 DEF Inv, CopyInv
      <4> QED
        BY <3>2, <4>1 DEF Copied, CopyOf
  <2> QED
    BY <1>1, <1>2, <1>5, <1>6, <2>1, <2>3, <2>4, <2>5, WriteBack, ZenonT(30)
<1>11. Own(p)
  BY <1>6, ZenonT(30) DEF Create, Iput, Set, Own, Inv, TypeInv, Pointer, Keep, Same
<1>12. TypeInv'
  <2>1. UNCHANGED <<call, path, ip, tgt, saved, cwd, fd, calls>>
    BY DEF Create, Keep, Same
  <2>2. itable' \in Table /\ dinode' \in Dinodes /\ dirents' \in Dirents
    BY <1>8, <1>9, <1>10
  <2>3. Iput(p, d, "created") /\ dp' = Set(dp, p, NULL)
    BY <1>6
  <2>4. dp' \in Pointer /\ put' \in Pointer
    BY <1>1, <2>3 DEF Iput, Set, Inv, TypeInv, Pointer
  <2>5. pc' \in [Procs -> Labels \cup Putting] /\ ret' \in [Procs -> Labels]
    BY <2>3 DEF Iput, Set, Inv, TypeInv, Putting, Labels
  <2> QED
    BY <2>1, <2>2, <2>4, <2>5 DEF Inv, TypeInv, Pointer
<1>13. dp'[p] = NULL /\ put'[p] = d /\ pc'[p] = "put" /\ Place(p)' = "created"
  BY <1>1, <1>6 DEF Iput, Set, Inv, TypeInv, Pointer, Place, Putting
<1>14. PlaceAt(p)'
  BY <1>1, <1>7, <1>13, InodeAssumption DEF PlaceAt, Putting
<1>15. ASSUME NEW t \in Slots PROVE Held(p, t)' = Held(p, t)
  BY <1>1, <1>7, <1>13, PutAway
<1>16. LocksOwn(p)
  <2>1. itable'[d].lock = NULL /\ itable'[s].lock = p
    BY <1>1, <1>3, <1>4, <1>5, <1>9, ZenonT(30)
  <2>2. \A t \in Slots \ {s, d} : itable'[t].lock = itable[t].lock
    BY <1>4, <1>5, <1>9
  <2>3. ASSUME NEW t \in Slots PROVE itable'[t].lock = p <=> Holds(p, t)'
    <3>1. itable[t].lock = p <=> t = d
      BY <1>1, LockOf, HoldsAt
    <3>2. Holds(p, t)' <=> t = s
      BY <1>7, <1>13, HoldsAt
    <3> QED BY <1>1, <1>3, <1>7, <1>13, <2>1, <2>2, <3>1, <3>2, NullApart
  <2> QED
    BY <1>2, <1>3, <2>1, <2>2, <2>3 DEF LocksOwn
<1>17. \A t \in Slots : itable'[t].ref = itable[t].ref /\ itable'[t].inum = itable[t].inum
  BY <1>4, <1>5, <1>9, ZenonT(30)
<1>18. ASSUME NEW t \in Slots, itable[t].ref > 0, itable'[t].valid PROVE Copied(t)' \/ Freed(t)
  <2>1. /\ up[t].ref > 0 /\ up[t].valid /\ itable'[t].type = up[t].type
        /\ itable'[t].inum = up[t].inum /\ itable'[t].nlink = up[t].nlink
    BY <1>4, <1>5, <1>9, <1>18, SMT
  <2> QED
    BY <1>10, <2>1 DEF Copied, CopyOf
<1> QED
  BY <1>7, <1>11, <1>12, <1>14, <1>15, <1>16, <1>17, <1>18, TableSame

\* iput() drops the reference p had: its count and p's pointer go together.
LEMMA DropStep ==
  ASSUME Counting, Inv, NEW p \in Procs, PutDrop(p) \/ PutLast(p)
  PROVE  Inv'
<1> DEFINE s == put[p]
           n == itable[s].ref - 1
<1>1. PlaceAt(p) /\ s \in Slots /\ ret[p] \in Labels /\ Place(p) = ret[p] /\ pc[p] \in {"put", "drop"}
  BY DEF PutDrop, PutLast, Inv, TypeInv, Pointer, PlaceInv, PlaceAt, Place, Putting
<1>2. UNCHANGED <<call, path, ip, dp, tgt, cwd, fd, ret, saved, dinode, dirents, calls>>
  BY DEF PutDrop, PutLast, diskVars, ptrVars
<1>3. /\ itable' \in Table
      /\ \A t \in Slots \ {s} : itable'[t] = itable[t]
      /\ itable'[s].ref = n /\ itable'[s].inum = itable[s].inum /\ itable'[s].valid = itable[s].valid
      /\ itable'[s].lock = itable[s].lock /\ itable'[s].type = itable[s].type
      /\ itable'[s].nlink = itable[s].nlink
  <2>1. itable \in Table /\ n \in Int /\ itable[s].ref \in Int
    BY <1>1, NumberFields DEF Inv, TypeInv
  <2>2. itable' = [itable EXCEPT ![s].ref = n]
    BY DEF PutDrop, PutLast
  <2>3. s \in Slots
    BY <1>1
  <2> HIDE DEF s, n
  <2> QED
    BY <2>1, <2>2, <2>3 DEF Table
<1>4. pc' = [pc EXCEPT ![p] = ret[p]] /\ put' = [put EXCEPT ![p] = NULL]
  BY DEF PutDrop, PutLast
<1>5. Own(p)
  BY <1>2, <1>4 DEF Own, Inv, TypeInv, Pointer
<1>6. TypeInv'
  <2>1. put' \in Pointer
    BY <1>4 DEF Inv, TypeInv, Pointer
  <2>2. pc' \in [Procs -> Labels \cup Putting]
    BY <1>1, <1>4 DEF Inv, TypeInv
  <2> QED
    BY <1>2, <1>3, <2>1, <2>2 DEF Inv, TypeInv, Pointer
<1>7. put'[p] = NULL /\ pc'[p] = ret[p] /\ pc'[p] \notin Putting /\ Place(p)' = Place(p)
  BY <1>1, <1>2, <1>4 DEF Inv, TypeInv, Pointer, Place, Putting, Labels
<1>8. PlaceAt(p)'
  BY <1>1, <1>2, <1>7 DEF PlaceAt, Putting
<1>9. Counted(p)
  <2>1. ASSUME NEW t \in Slots
        PROVE  itable'[t].ref = itable[t].ref + Held(p, t)' - Held(p, t)
    <3>1. Held(p, t)' = Held(p, t) - One(s, t) /\ One(s, t) = (IF t = s THEN 1 ELSE 0)
      BY <1>1, <1>2, <1>7, InodeAssumption, SMT DEF Held, One
    <3>2. itable[t].ref \in Int /\ Held(p, t) \in Nat
      BY HeldNat DEF Inv, TypeInv, Table
    <3>3. itable'[t].ref = IF t = s THEN itable[t].ref - 1 ELSE itable[t].ref
      BY <1>3
    <3> QED
      BY <3>1, <3>2, <3>3, SMTT(30)
  <2> QED
    BY <2>1 DEF Counted
<1>10. LocksOwn(p)
  <2>1. ASSUME NEW t \in Slots
        PROVE  itable'[t].lock = itable[t].lock /\ (Holds(p, t)' <=> Holds(p, t))
    BY <1>1, <1>2, <1>3, <1>7 DEF Holds, Putting
  <2> QED
    BY <2>1 DEF LocksOwn, Inv, LockInv
<1>11. ASSUME NEW t \in Slots
       PROVE  /\ itable'[t].inum = itable[t].inum /\ itable'[t].valid = itable[t].valid
              /\ itable'[t].type = itable[t].type /\ itable'[t].nlink = itable[t].nlink
              /\ itable'[t].ref > 0 => itable[t].ref > 0
  <2>1. itable[t].ref \in Int
    BY DEF Inv, TypeInv, Table
  <2> QED
    BY <1>3, <2>1, SMT
<1>12. OneSlot'
  BY <1>11, OneSlotKept
<1>13. CopyInv'
  <2>1. ASSUME NEW t \in Slots, itable'[t].ref > 0, itable'[t].valid PROVE Copied(t)' \/ Freed(t)
    BY <1>2, <1>11, <2>1 DEF Inv, CopyInv, Copied, CopyOf
  <2> QED
    BY <1>1, <1>5, <2>1, CopyKept
<1> QED
  BY <1>5, <1>6, <1>8, <1>9, <1>10, <1>12, <1>13, Reduce

\* iput() has the last reference, and locks the inode.
LEMMA PutLockStep ==
  ASSUME Counting, Inv, NEW p \in Procs, PutLock(p)
  PROVE  Inv'
<1> DEFINE s == put[p]
<1>1. /\ PlaceAt(p) /\ s \in Slots /\ Place(p) = ret[p] /\ pc[p] = "put"
      /\ itable[s].lock = NULL
  BY ZenonT(30) DEF PutLock, Inv, TypeInv, Pointer, PlaceInv, PlaceAt, Place, Putting
<1>2. UNCHANGED <<call, path, ip, dp, tgt, put, cwd, fd, ret, saved, dinode, dirents, calls>>
  BY DEF PutLock, diskVars, ptrVars
<1>3. /\ itable' \in Table
      /\ \A t \in Slots \ {s} : itable'[t] = itable[t]
      /\ itable'[s].ref = itable[s].ref /\ itable'[s].inum = itable[s].inum
      /\ itable'[s].valid = itable[s].valid /\ itable'[s].lock = p
      /\ itable'[s].type = itable[s].type /\ itable'[s].nlink = itable[s].nlink
  <2>1. itable \in Table /\ itable' = [itable EXCEPT ![s].lock = p]
    BY DEF Inv, TypeInv, PutLock
  <2>2. s \in Slots
    BY <1>1
  <2> HIDE DEF s
  <2> QED
    BY <2>1, <2>2 DEF Table
<1>4. pc' = [pc EXCEPT ![p] = "trunc"]
  BY DEF PutLock
<1>5. Own(p)
  BY <1>2, <1>4 DEF Own, Inv, TypeInv
<1>6. TypeInv'
  <2>1. pc' \in [Procs -> Labels \cup Putting]
    BY <1>4 DEF Inv, TypeInv, Putting
  <2> QED
    BY <1>2, <1>3, <2>1 DEF Inv, TypeInv, Pointer
<1>7. pc'[p] = "trunc" /\ Place(p)' = Place(p)
  BY <1>1, <1>2, <1>4 DEF Inv, TypeInv, Place, Putting
<1>8. PlaceAt(p)'
  <2>1. dp[p] # s /\ tgt[p] # s
    <3>1. itable[s].ref = 1 /\ itable[s].ref >= Held(p, s)
      BY <1>1, HeldCounts DEF PutLock, Inv
    <3>2. One(s, s) = 1 /\ \A v : One(v, s) \in Nat
      BY DEF One
    <3>3. dp[p] = s => Held(p, s) >= 2
      BY <3>2, SMT DEF Held
    <3>4. tgt[p] = s => Held(p, s) >= 2
      BY <3>2, SMT DEF Held
    <3> QED
      BY <3>1, <3>3, <3>4, HeldNat, SMT
  <2> QED
    BY <1>1, <1>2, <1>7, <2>1 DEF PlaceAt, Putting
<1>9. ASSUME NEW t \in Slots PROVE Held(p, t)' = Held(p, t)
  BY <1>2 DEF Held
<1>10. LocksOwn(p)
  <2>1. ASSUME NEW t \in Slots PROVE itable'[t].lock = p <=> Holds(p, t)'
    <3>1. Holds(p, t)' <=> (Holds(p, t) \/ t = s)
      BY <1>1, <1>2, <1>7 DEF Holds
    <3> QED
      BY <1>3, <3>1, SMT DEF Inv, LockInv
  <2> QED
    BY <1>1, <1>3, <2>1 DEF LocksOwn
<1>11. ASSUME NEW t \in Slots
       PROVE  /\ itable'[t].ref = itable[t].ref /\ itable'[t].valid = itable[t].valid
              /\ itable'[t].inum = itable[t].inum
              /\ itable'[t].type = itable[t].type /\ itable'[t].nlink = itable[t].nlink
  BY <1>3
<1>12. ASSUME NEW t \in Slots, itable[t].ref > 0, itable'[t].valid PROVE Copied(t)' \/ Freed(t)
  BY <1>2, <1>11, <1>12 DEF Inv, CopyInv, Copied, CopyOf
<1> QED
  BY <1>1, <1>5, <1>6, <1>8, <1>9, <1>10, <1>11, <1>12, TableSame

\* iput() has freed the inode on the disk: its copy in memory is the one that
\* may differ, and no other slot holds a copy of that inode.
LEMMA PutTruncStep ==
  ASSUME Counting, Inv, NEW p \in Procs, PutTrunc(p)
  PROVE  Inv'
<1> DEFINE s == put[p]
<1>1. PlaceAt(p) /\ s \in Slots /\ Place(p) = ret[p] /\ pc[p] = "trunc"
  BY DEF PutTrunc, Inv, TypeInv, Pointer, PlaceInv, PlaceAt, Place, Putting
<1>2. itable[s].ref > 0 /\ itable[s].inum \in Inums
  BY <1>1, Referred
<1>3. UNCHANGED <<call, path, ip, dp, tgt, put, cwd, fd, ret, saved, calls>>
  BY DEF PutTrunc, ptrVars
<1>4. /\ itable' \in Table
      /\ \A t \in Slots \ {s} : itable'[t] = itable[t]
      /\ itable'[s].ref = itable[s].ref /\ itable'[s].inum = itable[s].inum
      /\ itable'[s].lock = itable[s].lock
  <2>1. itable \in Table /\ itable' = [itable EXCEPT ![s].type = "none"]
    BY DEF Inv, TypeInv, PutTrunc
  <2>2. s \in Slots /\ "none" \in Types
    BY <1>1 DEF Types
  <2> HIDE DEF s
  <2> QED
    BY <2>1, <2>2 DEF Table
<1>5. dinode' \in Dinodes /\ \A i \in Inums \ {itable[s].inum} : dinode'[i] = dinode[i]
  <2> DEFINE it == itable'
  <2>1. dinode' = iupdate(dinode, it, s) /\ dinode \in Dinodes /\ s \in Slots
        /\ it \in Table /\ it[s].inum = itable[s].inum /\ it[s].inum \in Inums
    BY <1>1, <1>2, <1>4 DEF PutTrunc, Inv, TypeInv
  <2> HIDE DEF it, s
  <2>2. /\ iupdate(dinode, it, s) \in Dinodes
        /\ \A i \in Inums \ {it[s].inum} : iupdate(dinode, it, s)[i] = dinode[i]
    BY <2>1, Updated
  <2> QED
    BY <2>1, <2>2
<1>6. dirents' \in Dirents
  <2>1. Empty \in [Names -> 0 .. NInodes]
    BY InodeAssumption, SMT DEF Empty
  <2>2. dirents' = [dirents EXCEPT ![itable[s].inum] = Empty]
    BY DEF PutTrunc
  <2> QED
    BY <1>2, <2>1, <2>2 DEF Dirents, Inv, TypeInv
<1>7. pc' = [pc EXCEPT ![p] = "inval"]
  BY DEF PutTrunc
<1>8. Own(p)
  BY <1>3, <1>7 DEF Own, Inv, TypeInv
<1>9. TypeInv'
  <2>1. pc' \in [Procs -> Labels \cup Putting]
    BY <1>7 DEF Inv, TypeInv, Putting
  <2> QED
    BY <1>3, <1>4, <1>5, <1>6, <2>1 DEF Inv, TypeInv, Pointer
<1>10. pc'[p] = "inval" /\ Place(p)' = Place(p)
  BY <1>1, <1>3, <1>7 DEF Inv, TypeInv, Place, Putting
<1>11. PlaceAt(p)'
  BY <1>1, <1>3, <1>10 DEF PlaceAt, Putting
<1>12. ASSUME NEW t \in Slots PROVE Held(p, t)' = Held(p, t)
  BY <1>3 DEF Held
<1>13. LocksOwn(p)
  <2>1. ASSUME NEW t \in Slots
        PROVE  itable'[t].lock = itable[t].lock /\ (Holds(p, t)' <=> Holds(p, t))
    BY <1>1, <1>3, <1>4, <1>10 DEF Holds
  <2> QED
    BY <2>1 DEF LocksOwn, Inv, LockInv
<1>14. ASSUME NEW t \in Slots, itable[t].ref > 0, itable'[t].valid, t # s
       PROVE  Copied(t)' \/ Freed(t)
  <2>1. itable'[t] = itable[t]
    BY <1>4, <1>14
  <2>2. CopyOf(itable, dinode', t) \/ Freed(t)
    BY <1>1, <1>2, <1>5, <1>14, <2>1, CopyApart
  <2> QED
    BY <2>1, <2>2 DEF Copied, CopyOf
<1>15. \A t \in Slots : itable'[t].ref = itable[t].ref /\ itable'[t].inum = itable[t].inum
  BY <1>4
<1>16. Counted(p)
  <2>1. ASSUME NEW t \in Slots PROVE itable[t].ref \in Int /\ Held(p, t) \in Nat
    BY HeldNat DEF Inv, TypeInv, Table
  <2> QED
    BY <1>12, <1>15, <2>1, SMT DEF Counted
<1>17. OneSlot'
  BY <1>15, OneSlotKept
<1>18. CopyInv'
  <2>1. Freed(s)'
    BY <1>3, <1>10 DEF Freed
  <2>2. ASSUME NEW t \in Slots, Freed(t) PROVE Freed(t)'
    BY <1>1, <1>3, <1>8, <2>2 DEF Freed, Own
  <2>3. ASSUME NEW t \in Slots, itable'[t].ref > 0, itable'[t].valid PROVE Copied(t)' \/ Freed(t)'
    <3>1. CASE t = s
      BY <1>3, <1>10, <3>1 DEF Freed
    <3>2. CASE t # s
      BY <1>14, <1>15, <2>2, <2>3, <3>2
    <3> QED
      BY <3>1, <3>2
  <2> QED
    BY <2>3 DEF CopyInv
<1> QED
  BY <1>8, <1>9, <1>11, <1>13, <1>16, <1>17, <1>18, Reduce

\* iput() forgets the copy before it unlocks it.
LEMMA PutInvalStep ==
  ASSUME Counting, Inv, NEW p \in Procs, PutInval(p)
  PROVE  Inv'
<1> DEFINE s == put[p]
<1>1. PlaceAt(p) /\ s \in Slots /\ Place(p) = ret[p] /\ pc[p] = "inval"
  BY DEF PutInval, Inv, TypeInv, Pointer, PlaceInv, PlaceAt, Place, Putting
<1>2. itable[s].lock = p
  BY <1>1 DEF Inv, LockInv, Holds
<1>3. UNCHANGED <<call, path, ip, dp, tgt, put, cwd, fd, ret, saved, dinode, dirents, calls>>
  BY DEF PutInval, diskVars, ptrVars
<1>4. /\ itable' \in Table
      /\ \A t \in Slots \ {s} : itable'[t] = itable[t]
      /\ itable'[s].ref = itable[s].ref /\ itable'[s].inum = itable[s].inum
      /\ ~itable'[s].valid /\ itable'[s].lock = NULL
  <2> DEFINE it == Invalidated(itable, s)
  <2>1. itable \in Table /\ itable' = iunlock(it, s) /\ s \in Slots
    BY <1>1 DEF Inv, TypeInv, PutInval
  <2> HIDE DEF s
  <2>2. /\ it \in Table
        /\ \A t \in Slots \ {s} : it[t] = itable[t]
        /\ it[s].ref = itable[s].ref /\ it[s].inum = itable[s].inum /\ ~it[s].valid
    BY <2>1, Forgotten
  <2> HIDE DEF it
  <2> QED
    BY <2>1, <2>2, Unlocked, ZenonT(30)
<1>5. pc' = [pc EXCEPT ![p] = "drop"]
  BY DEF PutInval
<1>6. Own(p)
  BY <1>3, <1>5 DEF Own, Inv, TypeInv
<1>7. TypeInv'
  <2>1. pc' \in [Procs -> Labels \cup Putting]
    BY <1>5 DEF Inv, TypeInv, Putting
  <2> QED
    BY <1>3, <1>4, <2>1 DEF Inv, TypeInv, Pointer
<1>8. pc'[p] = "drop" /\ Place(p)' = Place(p)
  BY <1>1, <1>3, <1>5 DEF Inv, TypeInv, Place, Putting
<1>9. PlaceAt(p)'
  BY <1>1, <1>3, <1>8 DEF PlaceAt, Putting
<1>10. \A t \in Slots : itable'[t].ref = itable[t].ref /\ itable'[t].inum = itable[t].inum
  BY <1>4
<1>11. Counted(p)
  <2>1. ASSUME NEW t \in Slots
        PROVE  itable[t].ref \in Int /\ Held(p, t) \in Nat /\ Held(p, t)' = Held(p, t)
    <3>1. itable[t].ref \in Int /\ Held(p, t) \in Nat
      BY HeldNat DEF Inv, TypeInv, Table
    <3>2. Held(p, t)' = Held(p, t)
      BY <1>3 DEF Held
    <3> QED
      BY <3>1, <3>2
  <2> QED
    BY <1>10, <2>1, SMT DEF Counted
<1>12. LocksOwn(p)
  <2>1. ASSUME NEW t \in Slots PROVE itable'[t].lock = p <=> Holds(p, t)'
    <3>1. CASE t = s
      <4>1. dp[p] # s /\ tgt[p] # s
        BY <1>1 DEF PlaceAt
      <4> QED
        BY <1>1, <1>3, <1>4, <1>8, <3>1, <4>1, InodeAssumption DEF Holds
    <3>2. CASE t # s
      <4>1. Holds(p, t)' <=> Holds(p, t)
        BY <1>1, <1>3, <1>8, <3>2 DEF Holds
      <4> QED
        BY <1>4, <3>2, <4>1, ZenonT(30) DEF Inv, LockInv
    <3> QED
      BY <3>1, <3>2
  <2> QED
    BY <1>2, <1>4, <2>1 DEF LocksOwn
<1>13. CopyInv'
  <2>1. ASSUME NEW t \in Slots, itable'[t].ref > 0, itable'[t].valid PROVE Copied(t)' \/ Freed(t)'
    <3>1. t # s /\ itable'[t] = itable[t]
      BY <1>1, <1>4, <2>1
    <3>2. Copied(t) \/ Freed(t)
      BY <2>1, <3>1 DEF Inv, CopyInv
    <3>3. Copied(t) => Copied(t)'
      BY <1>3, <3>1 DEF Copied, CopyOf
    <3>4. Freed(t) => Freed(t)'
      BY <1>3, <1>6, <3>1 DEF Freed, Own
    <3> QED
      BY <3>2, <3>3, <3>4
  <2> QED
    BY <2>1 DEF CopyInv
<1>14. OneSlot'
  BY <1>10, OneSlotKept
<1> QED
  BY <1>6, <1>7, <1>9, <1>11, <1>12, <1>13, <1>14, Reduce

---------------------------------------------------------------------------
(* Numbers and finite sets.                                                *)

INSTANCE FiniteSetTheorems
INSTANCE WellFoundedInduction

\* The scan of iget() ends at a first slot if there is one.
LEMMA Least ==
  ASSUME NEW S \in SUBSET Nat, S # {}
  PROVE  \E s \in S : \A t \in S : s <= t
<1>1. IsWellFoundedOn(OpToRel(<, Nat), Nat)
  BY NatLessThanWellFounded
<1>2. PICK s \in S : \A t \in S : ~(<<t, s>> \in OpToRel(<, Nat))
  BY <1>1, WFMin
<1>3. ASSUME NEW t \in S PROVE s <= t
  <2>1. s \in Nat /\ t \in Nat
    BY <1>2
  <2>2. ~(t < s)
    BY <1>2, <2>1 DEF OpToRel
  <2> QED
    BY <2>1, <2>2, SMT
<1> QED
  BY <1>2, <1>3

\* When p changes one of its pointers, the count of such pointers to a slot
\* changes with it.
LEMMA CountsMove ==
  ASSUME NEW f \in Pointer, NEW g \in Pointer, NEW p \in Procs, NEW s \in Slots,
         \A q \in Procs \ {p} : g[q] = f[q]
  PROVE  /\ Count(f, s) \in Nat /\ Count(g, s) \in Nat
         /\ Count(g, s) = Count(f, s) - One(f[p], s) + One(g[p], s)
<1> DEFINE A == {q \in Procs : f[q] = s}
           B == {q \in Procs : g[q] = s}
           C == {q \in Procs \ {p} : f[q] = s}
<1>1. IsFiniteSet(A) /\ IsFiniteSet(B) /\ IsFiniteSet(C)
  <2>1. IsFiniteSet(Procs)
    BY InodeAssumption
  <2> QED
    BY <2>1, FS_Subset
<1>2. Cardinality(A) \in Nat /\ Cardinality(B) \in Nat /\ Cardinality(C) \in Nat
  BY <1>1, FS_CardinalityType
<1>3. Cardinality(C \cup {p}) = Cardinality(C) + 1
  BY <1>1, FS_AddElement
<1>4. Cardinality(A) = Cardinality(C) + One(f[p], s)
  <2>1. f[p] = s => A = C \cup {p}
    OBVIOUS
  <2>2. f[p] # s => A = C
    OBVIOUS
  <2> HIDE DEF A, C
  <2>3. CASE f[p] = s
    BY <1>2, <1>3, <2>1, <2>3 DEF One
  <2>4. CASE f[p] # s
    BY <1>2, <2>2, <2>4, SMTT(30) DEF One
  <2> QED
    BY <2>3, <2>4
<1>5. Cardinality(B) = Cardinality(C) + One(g[p], s)
  <2>1. g[p] = s => B = C \cup {p}
    OBVIOUS
  <2>2. g[p] # s => B = C
    OBVIOUS
  <2> HIDE DEF B, C
  <2>3. CASE g[p] = s
    BY <1>2, <1>3, <2>1, <2>3 DEF One
  <2>4. CASE g[p] # s
    BY <1>2, <2>2, <2>4, SMTT(30) DEF One
  <2> QED
    BY <2>3, <2>4
<1>6. Count(f, s) = Cardinality(A) /\ Count(g, s) = Cardinality(B)
  BY DEF Count
<1>7. One(f[p], s) \in Nat /\ One(g[p], s) \in Nat
  BY DEF One
<1> HIDE DEF A, B, C
<1> QED
  BY <1>2, <1>4, <1>5, <1>6, <1>7, SMTT(30)

\* What the steps need.
LEMMA Countable == Counting
BY Least, CountsMove DEF Counting, HasLeast, CountsChange

---------------------------------------------------------------------------
(* Boot and power loss.                                                    *)

\* A freshly booted kernel on any disk.
Booted ==
  /\ dinode \in Dinodes /\ dirents \in Dirents /\ saved \in Dinodes \X Dirents /\ calls \in Nat
  /\ itable = BootTable
  /\ pc = Nobody("idle") /\ call = Nobody(NULL) /\ path = Nobody(<<>>)
  /\ ip = Nobody(NULL) /\ dp = Nobody(NULL) /\ tgt = Nobody(NULL)
  /\ put = Nobody(NULL) /\ ret = Nobody("idle")
  /\ cwd = Nobody(1) /\ fd = Nobody(NULL)

\* It counts one reference to the root for each process that stands in it.
LEMMA BootedInv == Booted => Inv
<1> SUFFICES ASSUME Booted PROVE Inv
  OBVIOUS
<1>1. 1 \in Slots /\ ROOTINO \in Inums /\ ROOTINO \in 0 .. NInodes /\ 0 \in 0 .. NInodes
  BY InodeAssumption, SMTT(30) DEF Slots, Inums, ROOTINO
<1>2. Cardinality(Procs) \in Nat /\ Cardinality({}) = 0
  BY InodeAssumption, FS_CardinalityType, FS_EmptySet
<1>3. ASSUME NEW s \in Slots
      PROVE  /\ itable[s].inum = (IF s = 1 THEN ROOTINO ELSE 0)
             /\ itable[s].ref = (IF s = 1 THEN Cardinality(Procs) ELSE 0)
             /\ ~itable[s].valid /\ itable[s].lock = NULL
  BY DEF Booted, BootTable
<1>4. itable \in Table
  <2> DEFINE c == Cardinality(Procs)
  <2>1. c \in Int
    BY <1>2, SMTT(30)
  <2>2. itable = [s \in Slots |-> [inum |-> IF s = 1 THEN ROOTINO ELSE 0, ref |-> IF s = 1 THEN c ELSE 0,
                    valid |-> FALSE, lock |-> NULL, type |-> "none", nlink |-> 0]]
    BY DEF Booted, BootTable
  <2> HIDE DEF c
  <2> QED
    BY <1>1, <2>1, <2>2, SMTT(30) DEF Table, Types
<1>5. TypeInv
  <2>1. <<>> \in Seq(Names)
    BY SMT
  <2>2. path \in [Procs -> Seq(Names)]
    BY <2>1 DEF Booted, Nobody
  <2>3. pc \in [Procs -> Labels \cup Putting] /\ ret \in [Procs -> Labels]
    BY DEF Booted, Nobody, Labels
  <2>4. ip \in Pointer /\ dp \in Pointer /\ tgt \in Pointer /\ put \in Pointer /\ fd \in Pointer
    BY DEF Booted, Nobody, Pointer
  <2>5. cwd \in [Procs -> Slots] /\ call \in [Procs -> Calls \cup {NULL}]
    BY <1>1 DEF Booted, Nobody
  <2> QED
    BY <1>4, <2>2, <2>3, <2>4, <2>5, ZenonT(30) DEF Booted, TypeInv
<1>6. ASSUME NEW p \in Procs
      PROVE  /\ pc[p] = "idle" /\ Place(p) = "idle" /\ put[p] = NULL /\ ip[p] = NULL /\ dp[p] = NULL
             /\ tgt[p] = NULL /\ fd[p] = NULL /\ cwd[p] = 1
  BY DEF Booted, Nobody, Place, Putting
<1>7. PlaceInv
  BY <1>6 DEF PlaceInv, PlaceAt, Putting
<1>8. LockInv
  BY <1>3, <1>6, InodeAssumption DEF LockInv, Holds
<1>9. RefsCounted
  <2>1. ASSUME NEW s \in Slots PROVE itable[s].ref = Pointers(s)
    <3>1. /\ {p \in Procs : ip[p] = s} = {} /\ {p \in Procs : dp[p] = s} = {}
          /\ {p \in Procs : tgt[p] = s} = {} /\ {p \in Procs : put[p] = s} = {}
          /\ {p \in Procs : fd[p] = s} = {}
      BY <1>6, InodeAssumption
    <3>2. {p \in Procs : cwd[p] = s} = IF s = 1 THEN Procs ELSE {}
      BY <1>6
    <3>3. /\ Count(ip, s) = 0 /\ Count(dp, s) = 0 /\ Count(tgt, s) = 0 /\ Count(put, s) = 0
          /\ Count(fd, s) = 0
      BY <1>2, <3>1 DEF Count
    <3>4. Count(cwd, s) = IF s = 1 THEN Cardinality(Procs) ELSE 0
      BY <1>2, <3>2 DEF Count
    <3>5. Pointers(s) = Count(ip, s) + Count(dp, s) + Count(tgt, s) + Count(put, s) + Count(cwd, s)
                        + Count(fd, s)
      BY DEF Pointers, Count
    <3> QED
      BY <1>2, <1>3, <3>3, <3>4, <3>5, SMTT(30)
  <2> QED
    BY <2>1 DEF RefsCounted
<1>10. OneSlot
  BY <1>1, <1>3, SMTT(30) DEF OneSlot
<1>11. CopyInv
  BY <1>3 DEF CopyInv
<1> QED
  BY <1>5, <1>7, <1>8, <1>9, <1>10, <1>11, ZenonT(30) DEF Inv

\* mkfs leaves a disk the kernel can boot from.
LEMMA InvInit == Init => Inv
<1> SUFFICES ASSUME Init PROVE Inv
  OBVIOUS
<1>1. ROOTINO \in 0 .. NInodes /\ 0 \in 0 .. NInodes
  BY InumRange
<1>2. dinode \in Dinodes
  BY SMTT(30) DEF Init, Mkfs, Dinodes, Types, Free
<1>3. dirents \in Dirents
  BY <1>1 DEF Init, Mkfs, Dirents
<1>4. saved \in Dinodes \X Dirents /\ calls \in Nat
  BY <1>2, <1>3 DEF Init, diskVars
<1>5. Booted
  BY <1>2, <1>3, <1>4 DEF Init, Booted
<1> QED
  BY <1>5, BootedInv

\* Power loss forgets every process and every lock; the disk is that of the
\* last commit.
LEMMA CrashStep ==
  ASSUME Inv, Crash
  PROVE  Inv'
<1>1. Booted'
  <2>1. saved[1] \in Dinodes /\ saved[2] \in Dirents /\ saved' \in Dinodes \X Dirents /\ calls' \in Nat
    BY DEF Inv, TypeInv, Crash
  <2> QED
    BY <2>1 DEF Crash, Booted, BootTable, Nobody
<1> QED
  BY <1>1, BootedInv, PTL

---------------------------------------------------------------------------
(* The theorems.                                                           *)

\* One step of a process in a call, whichever it is.
LEMMA ProcessStep ==
  ASSUME Inv, NEW p \in Procs, Step(p)
  PROVE  Inv'
<1>1. CASE WalkName(p) \/ WalkEnd(p) \/ Open(p) \/ Chdir(p)
  BY <1>1, Countable, WalkNameStep, WalkEndStep, OpenStep, ChdirStep, ZenonT(30)
<1>2. CASE LinkOld(p) \/ LinkNew(p) \/ Linked(p) \/ LinkBad(p)
  BY <1>2, Countable, LinkOldStep, LinkNewStep, LinkedStep, LinkBadStep, ZenonT(30)
<1>3. CASE UnlinkName(p) \/ Unlink(p) \/ Unlinked(p) \/ DpBad(p)
  BY <1>3, Countable, UnlinkNameStep, UnlinkStep, UnlinkedStep, DpBadStep, ZenonT(30)
<1>4. CASE CreateName(p) \/ Create(p) \/ Exists(p) \/ Created(p)
  BY <1>4, Countable, CreateNameStep, CreateStep, ExistsStep, CreatedStep, ZenonT(30)
<1>5. CASE iput(p)
  BY <1>5, Countable, DropStep, PutLockStep, PutTruncStep, PutInvalStep, ZenonT(30) DEF iput
<1>6. CASE End(p)
  BY <1>6, Countable, EndStep
<1> QED
  BY <1>1, <1>2, <1>3, <1>4, <1>5, <1>6, ZenonT(30) DEF Step

\* The invariant says nothing of the counters and of the panic message.
LEMMA InvKept ==
  ASSUME Inv,
         UNCHANGED <<itable, diskVars, saved, pc, call, path, ptrVars, put, ret, calls>>
  PROVE  Inv'
<1>1. UNCHANGED <<itable, dinode, dirents, saved, pc, call, path, ip, dp, tgt, cwd, fd, put, ret, calls>>
  BY DEF diskVars, ptrVars
<1>2. TypeInv'
  BY <1>1 DEF Inv, TypeInv, Pointer
<1>3. PlaceInv'
  BY <1>1, ZenonT(30) DEF Inv, PlaceInv, PlaceAt, Place
<1>4. LockInv'
  BY <1>1, SMT DEF Inv, LockInv, Holds, Place
<1>5. RefsCounted'
  BY <1>1 DEF Inv, RefsCounted, Pointers
<1>6. OneSlot' /\ CopyInv'
  <2>1. OneSlot'
    BY <1>1 DEF Inv, OneSlot
  <2>2. CopyInv'
    BY <1>1, ZenonT(30) DEF Inv, CopyInv, Copied, CopyOf, Freed
  <2> QED BY <2>1, <2>2
<1> QED
  BY <1>2, <1>3, <1>4, <1>5, <1>6, ZenonT(30) DEF Inv

\* The inductive invariant holds of every behaviour of the file system calls.
THEOREM Invariance == Spec => []Inv
<1>1. Inv /\ [Next \/ Stop]_vars => Inv'
  <2> SUFFICES ASSUME Inv, [Next \/ Stop]_vars PROVE Inv'
    OBVIOUS
  <2>1. ASSUME NEW p \in Procs, Begin(p) \/ Close(p) \/ Step(p) PROVE Inv'
    BY <2>1, Countable, BeginStep, CloseStep, ProcessStep, ZenonT(30)
  <2>2. ASSUME NEW p \in Procs, Panic(p) PROVE Inv'
    BY <2>2, InvKept DEF Panic
  <2>3. CASE Crash
    BY <2>3, CrashStep
  <2>4. CASE Stop \/ UNCHANGED vars
    BY <2>4, InvKept DEF Stop, vars
  <2> QED
    BY <2>1, <2>2, <2>3, <2>4 DEF Next
<1> QED
  BY <1>1, InvInit, PTL DEF Spec

\* ip->ref is the number of C pointers to the entry, on every path through
\* link(), unlink(), open(), mkdir(), mknod(), chdir() and iput(), for any
\* number of processes, inodes and table entries.
THEOREM RefsAlwaysCounted == Spec => []RefsCounted
<1>1. Inv => RefsCounted
  BY DEF Inv
<1> QED
  BY <1>1, Invariance, PTL

\* Whoever locks a valid inode sees what is on the disk.
THEOREM CopiesCoherent == Spec => []Coherent
<1>1. Inv => Coherent
  <2> SUFFICES ASSUME Inv, NEW s \in Slots,
                      itable[s].ref > 0, itable[s].valid, itable[s].lock = NULL
               PROVE  dinode[itable[s].inum] = [type |-> itable[s].type, nlink |-> itable[s].nlink]
    BY DEF Coherent
  <2>1. ~Freed(s)
    <3> SUFFICES ASSUME NEW q \in Procs, pc[q] = "inval" /\ put[q] = s PROVE FALSE
      BY DEF Freed
    <3>1. itable[s].lock = q
      BY DEF Inv, LockInv, Holds
    <3> QED
      BY <3>1, InodeAssumption
  <2>2. Copied(s) /\ itable[s].inum \in Inums
    BY <2>1 DEF Inv, CopyInv, OneSlot
  <2>3. dinode[itable[s].inum] \in [type: Types, nlink: Int]
    BY <2>2 DEF Inv, TypeInv, Dinodes
  <2> QED
    BY <2>2, <2>3 DEF Copied, CopyOf
<1> QED
  BY <1>1, Invariance, PTL

\* Pointers of one kind that two processes have to a slot count twice.
LEMMA CountsTwo ==
  ASSUME NEW f, NEW p \in Procs, NEW q \in Procs, NEW s, f[p] = s, p # q
  PROVE  /\ Count(f, s) \in Nat /\ Count(f, s) >= 1
         /\ f[q] = s => Count(f, s) >= 2
<1> DEFINE S == {r \in Procs : f[r] = s}
<1>1. IsFiniteSet(Procs) /\ S \subseteq Procs
  BY InodeAssumption
<1>2. IsFiniteSet(S) /\ Cardinality(S) \in Nat
  <2> HIDE DEF S
  <2>1. IsFiniteSet(S)
    BY <1>1, FS_Subset
  <2> QED
    BY <2>1, FS_CardinalityType
<1>3. {p} \subseteq S /\ (f[q] = s => {p, q} \subseteq S)
  OBVIOUS
<1>4. Cardinality({p}) = 1 /\ IsFiniteSet({p})
  <2>1. \A x : IsFiniteSet({x}) /\ Cardinality({x}) = 1
    BY FS_Singleton
  <2> QED
    BY <2>1
<1>5. Cardinality({p} \cup {q}) = 2 /\ {p} \cup {q} = {p, q}
  <2>1. q \notin {p}
    OBVIOUS
  <2> QED
    BY <1>4, <2>1, FS_AddElement, SMTT(30)
<1> HIDE DEF S
<1>6. Cardinality({p}) <= Cardinality(S)
  BY <1>2, <1>3, FS_Subset
<1>7. f[q] = s => Cardinality({p, q}) <= Cardinality(S)
  BY <1>2, <1>3, FS_Subset, ZenonT(30)
<1> QED
  BY <1>2, <1>4, <1>5, <1>6, <1>7, ZenonT(30) DEF Count, S

\* fs.c: "ip->ref == 1 means no other process can have ip locked, so this
\* acquiresleep() won't block (or deadlock)": a lock is held through a
\* pointer of its own, which the count includes.
THEOREM PutDoesNotBlock == Spec => []PutNeverBlocks
<1>1. Inv => PutNeverBlocks
  <2> SUFFICES ASSUME Inv, NEW p \in Procs, pc[p] = "put", itable[put[p]].ref = 1,
                      itable[put[p]].lock # NULL
               PROVE  FALSE
    BY DEF PutNeverBlocks
  <2> DEFINE s == put[p]
  <2>1. s \in Slots
    BY DEF Inv, TypeInv, Pointer, PlaceInv, PlaceAt, Putting
  <2>2. PICK q \in Procs : itable[s].lock = q
    BY <2>1 DEF Inv, TypeInv, Table
  <2>3. Holds(q, s)
    BY <2>1, <2>2 DEF Inv, LockInv
  <2>4. CASE q = p
    <3>1. dp[p] = s \/ tgt[p] = s
      BY <2>3, <2>4 DEF Holds
    <3>2. One(s, s) = 1 /\ \A v : One(v, s) \in Nat
      BY DEF One
    <3>3. Held(p, s) >= 2
      BY <3>1, <3>2, SMTT(30) DEF Held
    <3> QED
      BY <2>1, <3>3, Countable, HeldCounts, HeldNat, SMTT(30) DEF Inv
  <2>5. CASE q # p
    <3>1. /\ Count(put, s) \in Nat /\ Count(put, s) >= 1
          /\ put[q] = s => Count(put, s) >= 2
      BY <2>5, CountsTwo
    <3>2. dp[q] = s => Count(dp, s) >= 1
      BY <2>5, CountsTwo
    <3>3. tgt[q] = s => Count(tgt, s) >= 1
      BY <2>5, CountsTwo
    <3>4. dp[q] = s \/ tgt[q] = s \/ put[q] = s
      BY <2>3 DEF Holds
    <3>5. /\ ip \in Pointer /\ dp \in Pointer /\ tgt \in Pointer /\ cwd \in Pointer /\ fd \in Pointer
      BY DEF Inv, TypeInv, Pointer
    <3>6. /\ Count(ip, s) \in Nat /\ Count(dp, s) \in Nat /\ Count(tgt, s) \in Nat
          /\ Count(cwd, s) \in Nat /\ Count(fd, s) \in Nat
      BY <2>1, <3>5, Countable, Recount, ZenonT(30)
    <3>7. itable[s].ref = Count(ip, s) + Count(dp, s) + Count(tgt, s) + Count(put, s) + Count(cwd, s)
                          + Count(fd, s)
      <4>1. s \in Slots
        BY <2>1
      <4> HIDE DEF s
      <4>2. itable[s].ref = Pointers(s)
        BY <4>1 DEF Inv, RefsCounted
      <4>3. Pointers(s) = Count(ip, s) + Count(dp, s) + Count(tgt, s) + Count(put, s) + Count(cwd, s)
                          + Count(fd, s)
        BY DEF Pointers, Count
      <4> QED
        BY <4>2, <4>3
    <3> QED
      BY <3>1, <3>2, <3>3, <3>4, <3>6, <3>7, SMTT(30)
  <2> QED
    BY <2>4, <2>5
<1> QED
  BY <1>1, Invariance, PTL

\* Neither ilock() nor iunlock() panics for want of a reference or a lock.
THEOREM LocksAlwaysReferenced == Spec => []LocksReferenced
<1>1. Inv => LocksReferenced
  <2> SUFFICES ASSUME Inv, NEW p \in Procs
               PROVE  /\ Wants(p) # NULL => itable[Wants(p)].ref >= 1
                      /\ \A s \in Slots : Holds(p, s) => itable[s].lock = p /\ itable[s].ref >= 1
    BY DEF LocksReferenced
  <2>1. ASSUME NEW s \in Slots, s \in {ip[p], dp[p], tgt[p], put[p]} PROVE itable[s].ref >= 1
    BY <2>1, Countable, Referred, SMTT(30)
  <2>2. Wants(p) # NULL => itable[Wants(p)].ref >= 1
    <3>1. Wants(p) \in {ip[p], dp[p], tgt[p], NULL}
      BY DEF Wants
    <3>2. {ip[p], dp[p], tgt[p]} \subseteq Slots \cup {NULL}
      BY ZenonT(30) DEF Inv, TypeInv, Pointer
    <3> QED
      BY <2>1, <3>1, <3>2, SMTT(30)
  <2>3. ASSUME NEW s \in Slots, Holds(p, s) PROVE itable[s].lock = p /\ itable[s].ref >= 1
    <3>1. itable[s].lock = p
      BY <2>3 DEF Inv, LockInv
    <3>2. s \in {ip[p], dp[p], tgt[p], put[p]}
      BY <2>3 DEF Holds
    <3> QED
      BY <2>1, <3>1, <3>2
  <2> QED
    BY <2>2, <2>3
<1> QED
  BY <1>1, Invariance, PTL
=============================================================================
