------------------------------ MODULE IoSched ------------------------------
(***************************************************************************)
(* rw_queue, the entry point bread() and bwrite() use, composed with the   *)
(* driver of VirtioDisk and with the request queue of each scheduling      *)
(* mode: IO_type 0 noop, 1 cfq (MinHeap), 2 sstf (SstfQueue), 3 ddl        *)
(* (Deadline).  In modes 1-3 a caller inserts its request under            *)
(* queue_lock, then reads the head of the queue without the lock and       *)
(* issues that; virtio_disk_intr removes one entry per interrupt.          *)
(***************************************************************************)
EXTENDS VirtioDisk, Integers

CONSTANTS TEMP,          \* the static buf behind the heap's sentinel
          Types,         \* arguments IO_switch is called with
          Capacity, TREESIZE, timeLimit,
          MaxTicks       \* bound on ticks

H == INSTANCE MinHeap
Q == INSTANCE SstfQueue
D == INSTANCE Deadline

ASSUME SchedAssumption == TEMP \in Bufs /\ 0 \in Blocks /\ MaxTicks \in Nat

VARIABLES
  IO_type, heap, sstfq, ddl, ticks,
  spc,       \* where each process is in rw_queue
  asked,     \* its arguments of rw_queue
  top,       \* what it read from the head of the queue
  mode,      \* the IO_type it dispatched on
  intr_at    \* how far virtio_disk_intr is past its loop

queueVars == <<heap, sstfq, ddl>>
callVars == <<spc, asked, top, mode>>
schedVars == <<IO_type, queueVars, ticks, callVars, intr_at>>

NoAsk == [b |-> NULL, write |-> 0]
Callers == Bufs \ {TEMP}

SchedInit ==
  /\ Init
  /\ IO_type \in Types
  /\ heap = [data |-> [i \in 0 .. Capacity - 1 |->
                         IF i = 0 THEN [b |-> TEMP, write |-> 0] ELSE NoAsk],
             Size |-> 0]
  /\ sstfq = [data |-> [i \in 0 .. Capacity - 1 |-> NoAsk], size |-> 0]
  /\ ddl = D!InitDeadline
  /\ ticks = 0
  /\ spc = [p \in Procs |-> "idle"]
  /\ asked = [p \in Procs |-> NoAsk]
  /\ top = [p \in Procs |-> NoAsk]
  /\ mode = [p \in Procs |-> 0]
  /\ intr_at = "loop"

\* blockno as the comparisons of the queues see it; TEMP's is 0.
Key == [b \in Bufs |-> IF b_blockno[b] = NULL THEN 0 ELSE b_blockno[b]]

---------------------------------------------------------------------------
(* rw_queue.                                                               *)

AskedByOther(p, b) == \E q \in Procs \ {p} : spc[q] # "idle" /\ asked[q].b = b

\* bread() or bwrite() calls rw_queue, which branches on IO_type.  A type
\* without a branch returns at once.
Dispatch(p, b, write) ==
  /\ spc' = [spc EXCEPT ![p] = CASE IO_type = 0 -> "disk"
                                 [] IO_type \in {1, 2, 3} -> "insert"
                                 [] OTHER -> "return"]
  /\ asked' = [asked EXCEPT ![p] = [b |-> b, write |-> write]]
  /\ mode' = [mode EXCEPT ![p] = IO_type]
  /\ IF IO_type = 0 THEN Enter(p, b, write, b_blockno'[b]) ELSE UNCHANGED procVars
  /\ UNCHANGED <<IO_type, queueVars, ticks, top, intr_at>>

AskRead(p, b, blk) ==
  /\ spc[p] = "idle" /\ ~AskedByOther(p, b)
  /\ \A c \in Callers \ {b} : b_blockno[c] # blk
  /\ b_blockno' = [b_blockno EXCEPT ![b] = blk]
  /\ Dispatch(p, b, 0)
  /\ UNCHANGED <<vdisk_lock, diskVars, ringVars, b_disk, b_data, devVars, panic>>

AskWrite(p, b, d) ==
  /\ spc[p] = "idle" /\ ~AskedByOther(p, b)
  /\ b_blockno[b] # NULL
  /\ b_data' = [b_data EXCEPT ![b] = d]
  /\ UNCHANGED <<b_blockno, b_disk>>
  /\ Dispatch(p, b, 1)
  /\ UNCHANGED <<vdisk_lock, diskVars, ringVars, devVars, panic>>

\* Under queue_lock: insert the request into the queue of the mode.
InsertHeap(x) ==
  LET r == H!insertMinHeap(heap, x, Key)
  IN  heap' = r.heap /\ panic' = r.fault /\ UNCHANGED <<sstfq, ddl>>
InsertSstf(x) ==
  LET r == Q!enqueue(sstfq, x, Key)
  IN  sstfq' = r.queue /\ panic' = r.fault /\ UNCHANGED <<heap, ddl>>
InsertDdl(x) ==
  LET r == D!InsertRequest(ddl, x, ticks)
  IN  ddl' = r.ddl /\ panic' = r.fault /\ UNCHANGED <<heap, sstfq>>

Insert(p) ==
  /\ spc[p] = "insert"
  /\ \/ mode[p] = 1 /\ InsertHeap(asked[p])
     \/ mode[p] = 2 /\ InsertSstf(asked[p])
     \/ mode[p] = 3 /\ InsertDdl(asked[p])
  /\ spc' = [spc EXCEPT ![p] = "top"]
  /\ UNCHANGED <<vdisk_lock, procVars, diskVars, ringVars, bufVars, devVars,
                 IO_type, ticks, asked, top, mode, intr_at>>

QueueHeadSentinel(m) ==                           \* mutant: data[0] of the heap
  CASE m = 1 -> heap.data[0] [] m = 2 -> sstfq.data[0] [] m = 3 -> ddl.readyArea

\* The head of the queue.  rw_queue reads its .b and its .write after it has
\* released queue_lock, in either order, while others may replace it.
QueueHead(m) == CASE m = 1 -> heap.data[1] [] m = 2 -> sstfq.data[0] [] m = 3 -> ddl.readyArea

ReadTop(p) ==
  /\ spc[p] = "top"
  /\ top' = [top EXCEPT ![p] = QueueHead(mode[p])]
  /\ spc' = [spc EXCEPT ![p] = "issue"]
  /\ UNCHANGED <<vdisk_lock, procVars, diskVars, ringVars, bufVars, devVars, panic,
                 IO_type, queueVars, ticks, asked, mode, intr_at>>

\* virtio_disk_rw reads b->blockno first thing.
Issue(p) ==
  /\ spc[p] = "issue"
  /\ LET again == QueueHead(mode[p])
     IN  \E b \in {top[p].b, again.b}, write \in {top[p].write, again.write} :
           IF b = NULL
           THEN panic' = "fault: b is null" /\ UNCHANGED procVars
           ELSE Enter(p, b, write, Key[b]) /\ UNCHANGED panic
  /\ spc' = [spc EXCEPT ![p] = "disk"]
  /\ UNCHANGED <<vdisk_lock, diskVars, ringVars, bufVars, devVars,
                 IO_type, queueVars, ticks, asked, top, mode, intr_at>>

ReturnsEarly(p) == spc[p] \in {"return", "disk"}   \* mutant: does not wait
Returning(p) == spc[p] = "return" \/ (spc[p] = "disk" /\ pc[p] = "idle")

\* rw_queue returns to bread() or bwrite().
Return(p) ==
  /\ Returning(p)
  /\ spc' = [spc EXCEPT ![p] = "idle"]
  /\ asked' = [asked EXCEPT ![p] = NoAsk]
  /\ top' = [top EXCEPT ![p] = NoAsk]
  /\ mode' = [mode EXCEPT ![p] = 0]
  /\ UNCHANGED <<vars, IO_type, queueVars, ticks, intr_at>>

\* sys_IO_schedule: any process, at any time, without a lock.
IO_switch(p, t) ==
  /\ spc[p] = "idle" /\ IO_type # t
  /\ IO_type' = t
  /\ UNCHANGED <<vars, queueVars, ticks, callVars, intr_at>>

Tick ==
  /\ ticks < MaxTicks
  /\ ticks' = ticks + 1
  /\ UNCHANGED <<vars, IO_type, queueVars, callVars, intr_at>>

---------------------------------------------------------------------------
(* The tail of virtio_disk_intr: each test of IO_type reads it again.      *)

IntrRest == UNCHANGED <<procVars, diskVars, ringVars, bufVars, devVars,
                        IO_type, ticks, callVars>>

RemovesFromHeap(t) == t = 1 /\ IO_type = 1        \* mutant: other modes forgotten
Removes(t) == IO_type = t

IntrHeap ==
  /\ vdisk_lock = INTR /\ intr_at = "loop" /\ used_idx = used_dev
  /\ intr_at' = "sstf"
  /\ IF Removes(1)
     THEN LET r == H!deleteFromMinHeap(heap, Key) IN heap' = r.heap /\ panic' = r.fault
     ELSE UNCHANGED <<heap, panic>>
  /\ UNCHANGED <<vdisk_lock, sstfq, ddl>> /\ IntrRest

IntrSstf ==
  /\ vdisk_lock = INTR /\ intr_at = "sstf"
  /\ intr_at' = "ddl"
  /\ sstfq' = IF Removes(2) THEN Q!dequeue(sstfq, Key) ELSE sstfq
  /\ UNCHANGED <<vdisk_lock, heap, ddl, panic>> /\ IntrRest

IntrDdl ==
  /\ vdisk_lock = INTR /\ intr_at = "ddl"
  /\ intr_at' = "loop"
  /\ IF Removes(3)
     THEN LET r == D!PrimRBTree(ddl) IN ddl' = r.ddl /\ panic' = r.fault
     ELSE UNCHANGED <<ddl, panic>>
  /\ vdisk_lock' = NULL
  /\ UNCHANGED <<heap, sstfq>> /\ IntrRest

---------------------------------------------------------------------------
Ask(p) == \E b \in Callers : \/ \E blk \in Blocks : AskRead(p, b, blk)
                             \/ \E d \in Data : AskWrite(p, b, d)

SchedNext ==
  /\ panic = "none"
  /\ \/ \E p \in Procs : \/ Ask(p) \/ Insert(p) \/ ReadTop(p) \/ Issue(p) \/ Return(p)
                         \/ \E t \in Types : IO_switch(p, t)
                         \/ (rw(p) \/ Kill(p)) /\ UNCHANGED schedVars
     \/ Device /\ UNCHANGED schedVars
     \/ IntrEnter /\ UNCHANGED schedVars
     \/ intr_at = "loop" /\ IntrNext /\ UNCHANGED schedVars
     \/ IntrHeap \/ IntrSstf \/ IntrDdl
     \/ Tick

allVars == <<vars, schedVars>>
SchedSpec == SchedInit /\ [][SchedNext]_allVars

---------------------------------------------------------------------------
(* Properties.                                                             *)

Returns(p) == spc[p] # "idle" /\ spc'[p] = "idle"
Carried(p) == b_data[asked[p].b] = blocks[b_blockno[asked[p].b]]

\* bread(): when rw_queue returns from a read, the buffer that was asked for
\* holds the contents of its block.
ReadServed ==
  [][\A p \in Procs : Returns(p) /\ asked[p].write = 0 => Carried(p)]_allVars

\* bwrite(): when rw_queue returns from a write, the block holds the
\* contents of the buffer.
WriteServed ==
  [][\A p \in Procs : Returns(p) /\ asked[p].write = 1 => Carried(p)]_allVars

\* Each insertion of rw_queue is matched by one removal in virtio_disk_intr:
\* when nothing is in progress every queue is empty.
QueuesDrained ==
  ((\A p \in Procs : spc[p] = "idle") /\ vdisk_lock = NULL) =>
    /\ heap.Size = 0 /\ sstfq.size = 0
    /\ \A w \in {0, 1} : ddl.tree[w].size = 0 /\ ddl.ring[w].size = 0

\* A process has at most one request in the heap, and Capacity exceeds the
\* number of processes, so that there is always room: insertMinHeap neither
\* panics nor, its test being one entry late, writes past data[].
HeapHasRoom ==
  panic \notin {"queue out of capacity", "insertMinHeap: past data[]"}

\* Slots past the end of a queue, the nodes and sections of empty trees, and the
\* head of a queue when nobody is about to issue it, are written before they
\* are read.
Reading(m) == \E p \in Procs : spc[p] \in {"top", "issue"} /\ mode[p] = m
DdlLive ==
  <<IF Reading(3) THEN ddl.readyArea ELSE NoAsk,
    [w \in {0, 1} |->
       IF ddl.tree[w].size # 0 \/ ddl.ring[w].size # 0 THEN <<ddl.tree[w], ddl.ring[w]>>
       ELSE LET t == ddl.tree[w]
                r == ddl.ring[w]
            IN  <<t.first, t.pos, t.avail, r.pos, r.avail, r.pFront, r.pBack, r.rear, r.time>>]>>
SchedLive ==
  <<Live, IO_type, ticks, callVars, intr_at, DdlLive, heap.Size, sstfq.size,
    [i \in 0 .. Capacity - 1 |-> IF i <= heap.Size \/ i = 0 \/ (i = 1 /\ Reading(1))
                               THEN heap.data[i] ELSE NoAsk],
    [i \in 0 .. Capacity - 1 |-> IF i < sstfq.size \/ (i = 0 /\ Reading(2))
                               THEN sstfq.data[i] ELSE NoAsk]>>
=============================================================================
