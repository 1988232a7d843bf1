---------------------------- MODULE BufferCache ----------------------------
(***************************************************************************)
(* The buffer cache of kernel/bio.c with the sleep locks of                *)
(* kernel/sleeplock.c.  Processes get a buffer with bread(), may change,   *)
(* write, pin and unpin it, and give it back with brelse().  rw_queue is   *)
(* used as AbstractDisk promises: the block is transferred between the     *)
(* call and the return.  A step is a critical section of bcache.lock or of *)
(* the spinlock inside a sleep lock.                                       *)
(***************************************************************************)
EXTENDS Naturals, FiniteSets, SequencesExt

CONSTANTS Procs, Bufs, Blocks, Data, NULL,
          MaxPins       \* most buffers the log pins at a time

ASSUME NBufAssumption == IsFiniteSet(Procs) /\ IsFiniteSet(Bufs) /\ MaxPins \in Nat
ASSUME NullAssumption == NULL \notin Procs \cup Bufs \cup Blocks

VARIABLES
  blockno, valid, refcnt, data,  \* struct buf
  locked,        \* lk->locked and lk->pid of b->lock: the holder, or NULL
  lru,           \* the buffers from head.next (most recent) to head.prev
  blocks,        \* the disk
  pc, want, cur, \* per process: where it is, the block and buffer it is at
  dirty,         \* per process: it changed cur and has not written or pinned it
  pins,          \* bpin() calls on a buffer minus bunpin() calls
  latest,        \* the last contents a process gave each block
  panic

bufVars == <<blockno, valid, refcnt, data, locked, lru, pins>>
vars == <<bufVars, blocks, pc, want, cur, dirty, latest, panic>>

Init ==
  /\ blockno = [b \in Bufs |-> NULL]
  /\ valid = [b \in Bufs |-> 0]
  /\ refcnt = [b \in Bufs |-> 0]
  /\ data = [b \in Bufs |-> NULL]
  /\ locked = [b \in Bufs |-> NULL]
  /\ lru = SetToSeq(Bufs)
  /\ pins = [b \in Bufs |-> 0]
  /\ blocks \in [Blocks -> Data] /\ latest = blocks
  /\ pc = [p \in Procs |-> "idle"]
  /\ want = [p \in Procs |-> NULL]
  /\ cur = [p \in Procs |-> NULL]
  /\ dirty = [p \in Procs |-> 0]
  /\ panic = "none"

Goto(p, l) == pc' = [pc EXCEPT ![p] = l]

---------------------------------------------------------------------------
(* bget: one critical section of bcache.lock, then acquiresleep.           *)

Cached(blk) == {b \in Bufs : blockno[b] = blk}

Take(p, blk, b) ==
  /\ Goto(p, "lock")
  /\ want' = [want EXCEPT ![p] = blk]
  /\ cur' = [cur EXCEPT ![p] = b]

Borrowed(b) == refcnt                             \* mutant: not counted
Counted(b) == [refcnt EXCEPT ![b] = @ + 1]        \* b->refcnt++

BgetHit(p, blk) ==
  /\ pc[p] = "idle"
  /\ \E b \in Cached(blk) :
       /\ refcnt' = Counted(b)
       /\ Take(p, blk, b)
  /\ UNCHANGED <<blockno, valid, data, locked, lru, pins, blocks, dirty, latest, panic>>

AnyVictims == DOMAIN lru                          \* mutant: refcnt not looked at

\* The first unused buffer from the tail of the list.
Victims == {i \in DOMAIN lru : refcnt[lru[i]] = 0}
Victim == lru[CHOOSE i \in Victims : \A j \in Victims : j <= i]

NotCached(blk) == Cached(blk) = {}
StillValid(b) == valid                            \* mutant: old contents pass for new
Invalid(b) == [valid EXCEPT ![b] = 0]

BgetMiss(p, blk) ==
  /\ pc[p] = "idle"
  /\ NotCached(blk)
  /\ IF Victims = {}
     THEN panic' = "bget: no buffers" /\ UNCHANGED <<blockno, valid, refcnt, pc, want, cur>>
     ELSE /\ blockno' = [blockno EXCEPT ![Victim] = blk]
          /\ valid' = Invalid(Victim)
          /\ refcnt' = [refcnt EXCEPT ![Victim] = 1]
          /\ Take(p, blk, Victim)
          /\ UNCHANGED panic
  /\ UNCHANGED <<data, locked, lru, pins, blocks, dirty, latest>>

Unlocked(b) == locked[b] = NULL

AcquireSleep(p) ==
  /\ pc[p] = "lock"
  /\ IF Unlocked(cur[p])
     THEN locked' = [locked EXCEPT ![cur[p]] = p] /\ Goto(p, "locked")
     ELSE Goto(p, "asleep") /\ UNCHANGED locked
  /\ UNCHANGED <<blockno, valid, refcnt, data, lru, pins, blocks, want, cur, dirty,
                 latest, panic>>

---------------------------------------------------------------------------
(* bread, after bget; bwrite; and what callers do with a buffer they hold. *)

BreadCached(p) ==
  /\ pc[p] = "locked" /\ valid[cur[p]] = 1
  /\ Goto(p, "have")
  /\ UNCHANGED <<bufVars, blocks, want, cur, dirty, latest, panic>>

\* rw_queue(b, 0) has transferred the block, then b->valid = 1.
BreadDisk(p) ==
  /\ pc[p] = "locked" /\ valid[cur[p]] = 0
  /\ data' = [data EXCEPT ![cur[p]] = blocks[blockno[cur[p]]]]
  /\ valid' = [valid EXCEPT ![cur[p]] = 1]
  /\ Goto(p, "have")
  /\ UNCHANGED <<blockno, refcnt, locked, lru, pins, blocks, want, cur, dirty, latest, panic>>

Modify(p, d) ==
  /\ pc[p] = "have"
  /\ data' = [data EXCEPT ![cur[p]] = d]
  /\ latest' = [latest EXCEPT ![want[p]] = d]
  /\ dirty' = [dirty EXCEPT ![p] = IF pins[cur[p]] > 0 THEN 0 ELSE 1]
  /\ UNCHANGED <<blockno, valid, refcnt, locked, lru, pins, blocks, pc, want, cur, panic>>

holdingsleep(p, b) == locked[b] = p

Bwrite(p) ==
  /\ pc[p] = "have"
  /\ IF holdingsleep(p, cur[p])
     THEN /\ blocks' = [blocks EXCEPT ![blockno[cur[p]]] = data[cur[p]]]
          /\ dirty' = [dirty EXCEPT ![p] = 0]
          /\ UNCHANGED panic
     ELSE panic' = "bwrite" /\ UNCHANGED <<blocks, dirty>>
  /\ UNCHANGED <<bufVars, pc, want, cur, latest>>

\* log_write pins a buffer it has not pinned yet, under the caller's lock.
Bpin(p) ==
  /\ pc[p] = "have" /\ pins[cur[p]] = 0
  /\ Cardinality({b \in Bufs : pins[b] > 0}) < MaxPins
  /\ refcnt' = Counted(cur[p])
  /\ pins' = [pins EXCEPT ![cur[p]] = @ + 1]
  /\ dirty' = [dirty EXCEPT ![p] = 0]
  /\ UNCHANGED <<blockno, valid, data, locked, lru, blocks, pc, want, cur, latest, panic>>

\* install_trans unpins a buffer it has just written.
Bunpin(p) ==
  /\ pc[p] = "have" /\ pins[cur[p]] > 0
  /\ blocks[blockno[cur[p]]] = data[cur[p]]
  /\ refcnt' = [refcnt EXCEPT ![cur[p]] = @ - 1]
  /\ pins' = [pins EXCEPT ![cur[p]] = @ - 1]
  /\ UNCHANGED <<blockno, valid, data, locked, lru, blocks, pc, want, cur, dirty,
                 latest, panic>>

---------------------------------------------------------------------------
(* brelse: releasesleep, then a critical section of bcache.lock.           *)

WakeNobody(f, b) == f                             \* mutant: no wakeup
WakeLock(f, b) ==
  [q \in Procs |-> IF f[q] = "asleep" /\ cur[q] = b THEN "lock" ELSE f[q]]

ReleaseSleep(p) ==
  /\ pc[p] = "have" /\ dirty[p] = 0
  /\ IF holdingsleep(p, cur[p])
     THEN /\ locked' = [locked EXCEPT ![cur[p]] = NULL]
          /\ pc' = [WakeLock(pc, cur[p]) EXCEPT ![p] = "release"]
          /\ UNCHANGED panic
     ELSE panic' = "brelse" /\ UNCHANGED <<locked, pc>>
  /\ UNCHANGED <<blockno, valid, refcnt, data, lru, pins, blocks, want, cur, dirty, latest>>

Released(b) == [refcnt EXCEPT ![b] = @ - 1]       \* b->refcnt--
MoveToFront(b) == <<b>> \o RemoveAt(lru, CHOOSE i \in DOMAIN lru : lru[i] = b)

Brelse(p) ==
  /\ pc[p] = "release"
  /\ refcnt' = Released(cur[p])
  /\ lru' = IF refcnt[cur[p]] = 1 THEN MoveToFront(cur[p]) ELSE lru
  /\ Goto(p, "idle")
  /\ want' = [want EXCEPT ![p] = NULL]
  /\ cur' = [cur EXCEPT ![p] = NULL]
  /\ UNCHANGED <<blockno, valid, data, locked, pins, blocks, dirty, latest, panic>>

\* kill() makes a sleeping process runnable although the lock is held.
Kill(p) ==
  /\ pc[p] = "asleep"
  /\ Goto(p, "lock")
  /\ UNCHANGED <<bufVars, blocks, want, cur, dirty, latest, panic>>

---------------------------------------------------------------------------
Bget(p) == \E blk \in Blocks : BgetHit(p, blk) \/ BgetMiss(p, blk)
Use(p) == Bwrite(p) \/ Bpin(p) \/ Bunpin(p) \/ \E d \in Data : Modify(p, d)
Bread(p) == AcquireSleep(p) \/ BreadCached(p) \/ BreadDisk(p)

Next ==
  /\ panic = "none"
  /\ \E p \in Procs : Bget(p) \/ Bread(p) \/ Use(p) \/ ReleaseSleep(p) \/ Brelse(p)
                   \/ Kill(p)

Spec == Init /\ [][Next]_vars

---------------------------------------------------------------------------
(* Properties.                                                             *)

\* The fields of the buffers, their list and the processes are well typed; the
\* list of brelse holds each buffer once.
TypeOK ==
  /\ blockno \in [Bufs -> Blocks \cup {NULL}]
  /\ valid \in [Bufs -> {0, 1}]
  /\ refcnt \in [Bufs -> Nat]
  /\ data \in [Bufs -> Data \cup {NULL}]
  /\ locked \in [Bufs -> Procs \cup {NULL}]
  /\ Range(lru) = Bufs /\ Len(lru) = Cardinality(Bufs)
  /\ blocks \in [Blocks -> Data] /\ latest \in [Blocks -> Data]
  /\ pc \in [Procs -> {"idle", "lock", "asleep", "locked", "have", "release"}]
  /\ want \in [Procs -> Blocks \cup {NULL}] /\ cur \in [Procs -> Bufs \cup {NULL}]
  /\ dirty \in [Procs -> {0, 1}] /\ pins \in [Bufs -> Nat]

\* The search and the recycling of bget are one critical section: no block
\* is ever cached in two buffers, so its sleep lock guards the block.
OneBufferPerBlock ==
  \A b, c \in Bufs : blockno[b] = blockno[c] /\ blockno[b] # NULL => b = c

\* refcnt counts the processes between bget and the end of brelse plus the
\* pins of the log; it never underflows.
RefcntCounts ==
  \A b \in Bufs : refcnt[b] = Cardinality({p \in Procs : cur[p] = b}) + pins[b]

\* A process that waits for, holds or releases a buffer finds it still
\* assigned to the block it asked for, however long it slept in between.
BufferKeepsBlock ==
  \A p \in Procs : cur[p] # NULL => blockno[cur[p]] = want[p]

\* At most one process is inside a buffer, and it is the recorded holder.
HolderUnique ==
  \A p \in Procs : pc[p] \in {"locked", "have"} <=> \E b \in Bufs : locked[b] = p

\* What bread returns is the latest contents any process gave the block,
\* even if the buffer was recycled meanwhile: a changed block is on the disk
\* or pinned in the cache.
ReadsLatest ==
  \A p \in Procs : pc[p] = "have" => data[cur[p]] = latest[want[p]]

\* Of the panics of bio.c only that of bget() is reachable, and only when every
\* buffer is in use.
PanicsWhenFull ==
  panic # "none" => panic = "bget: no buffers" /\ \A b \in Bufs : refcnt[b] # 0

\* No lost wakeup: whoever is asleep in acquiresleep waits for a process that
\* holds the buffer at this moment and will wake it in releasesleep.
SleeperHasHolder ==
  \A p \in Procs : pc[p] = "asleep" => locked[cur[p]] \in Procs \ {p}

\* From the search of bget() to the end of brelse() a process has the block it
\* asked for, in the only buffer that caches it, however long it slept.
BufferIdentity == OneBufferPerBlock /\ BufferKeepsBlock

\* refcnt counts users and pins, the list of brelse() holds every buffer once,
\* and so bget() finds a buffer unless each has a user or a pin.
CountsHold == TypeOK /\ RefcntCounts /\ PanicsWhenFull

\* One process at a time is inside a buffer, and everybody who sleeps for it
\* has a holder who will wake them.
LockHandedOn == HolderUnique /\ SleeperHasHolder
=============================================================================
