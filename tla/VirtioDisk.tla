---------------------------- MODULE VirtioDisk ----------------------------
(***************************************************************************)
(* The virtio block driver of kernel/virtio_disk.c as it runs when no I/O  *)
(* scheduler is selected (IO_type = 0): virtio_disk_rw, virtio_disk_intr,  *)
(* the descriptor allocator they share, and the device they talk to        *)
(* through the avail and used rings.  IoSched composes this module with    *)
(* the request queues of the other scheduling modes.                       *)
(*                                                                         *)
(* A step is a maximal run of driver code that no other actor can observe  *)
(* in the middle: everything under vdisk_lock up to the next store the     *)
(* device may see.  sleep() releases vdisk_lock and blocks in one step.    *)
(***************************************************************************)
EXTENDS Naturals, FiniteSets

CONSTANTS Procs,    \* processes that call virtio_disk_rw
          Bufs,     \* struct buf's of the buffer cache
          Blocks,   \* block numbers
          Data,     \* contents of a block
          NUM,      \* descriptors, and slots of each ring (virtio.h)
          IdxMod,   \* avail->idx, used->idx and used_idx wrap here (uint16)
          INTR,     \* virtio_disk_intr as a holder of vdisk_lock
          NULL

Desc == 0 .. NUM - 1
SectorsPerBlock == 2            \* BSIZE / 512

ASSUME SizeAssumption ==
  /\ NUM \in Nat /\ NUM >= 3
  /\ IdxMod \in Nat /\ IdxMod >= NUM /\ IdxMod % NUM = 0
  /\ Blocks \subseteq Nat /\ 0 \in Blocks
ASSUME NullAssumption ==
  /\ NULL \notin Procs \cup Bufs \cup Blocks \cup Data \cup {INTR}
  /\ INTR \notin Procs

VARIABLES
  vdisk_lock,   \* its holder, or NULL
  pc,           \* where each process is in virtio_disk_rw
  req,          \* its arguments and the local `sector`
  idx,          \* its local idx[3]
  free, desc, info, ops,                           \* struct disk
  avail_ring, avail_idx, used_ring, used_dev,      \* the rings; used_dev is used->idx
  used_idx,                                        \* disk.used_idx
  b_disk, b_blockno, b_data,                       \* struct buf
  blocks, dev_avail, inflight, kick, isr,          \* the device
  panic         \* the panic() or fault the kernel stopped at, or "none"

procVars == <<pc, req, idx>>
diskVars == <<free, desc, info, ops>>
ringVars == <<avail_ring, avail_idx, used_ring, used_dev, used_idx>>
bufVars  == <<b_disk, b_blockno, b_data>>
devVars  == <<blocks, dev_avail, inflight, kick, isr>>
vars == <<vdisk_lock, procVars, diskVars, ringVars, bufVars, devVars, panic>>

NoReq  == [b |-> NULL, write |-> 0, sector |-> 0]
NoDesc == [addr |-> NULL, flags |-> {}, next |-> 0]

Init ==
  /\ vdisk_lock = NULL
  /\ pc = [p \in Procs |-> "idle"]
  /\ req = [p \in Procs |-> NoReq]
  /\ idx = [p \in Procs |-> <<0, 0, 0>>]
  /\ free = Desc
  /\ desc = [i \in Desc |-> NoDesc]
  /\ info = [i \in Desc |-> [b |-> NULL, status |-> 0]]
  /\ ops = [i \in Desc |-> [type |-> "IN", sector |-> 0]]
  /\ avail_ring = [s \in Desc |-> 0] /\ avail_idx = 0
  /\ used_ring = [s \in Desc |-> 0] /\ used_dev = 0 /\ used_idx = 0
  /\ b_disk = [b \in Bufs |-> 0]
  /\ b_blockno = [b \in Bufs |-> NULL]
  /\ b_data = [b \in Bufs |-> NULL]
  /\ blocks \in [Blocks -> Data]
  /\ dev_avail = 0 /\ inflight = {} /\ kick = 0 /\ isr = 0
  /\ panic = "none"

---------------------------------------------------------------------------
(* Callers.  The buffer cache hands virtio_disk_rw a buffer whose sleep    *)
(* lock the caller holds, and caches a block in at most one buffer; a      *)
(* write is of a buffer that has been read.                                *)

Busy(p) == pc[p] # "idle"
LockedByOther(p, b) == \E q \in Procs \ {p} : Busy(q) /\ req[q].b = b

SectorIsBlock(blk) == blk                         \* mutant: no scaling
Sector(blk) == blk * SectorsPerBlock

\* virtio_disk_rw computes the sector before it takes vdisk_lock.
Enter(p, b, write, blk) ==
  /\ pc' = [pc EXCEPT ![p] = "enter"]
  /\ req' = [req EXCEPT ![p] = [b |-> b, write |-> write, sector |-> Sector(blk)]]
  /\ UNCHANGED idx

CallRead(p, b, blk) ==
  /\ ~Busy(p) /\ ~LockedByOther(p, b)
  /\ \A c \in Bufs \ {b} : b_blockno[c] # blk
  /\ b_blockno' = [b_blockno EXCEPT ![b] = blk]
  /\ Enter(p, b, 0, blk)
  /\ UNCHANGED <<vdisk_lock, diskVars, ringVars, b_disk, b_data, devVars, panic>>

CallWrite(p, b, d) ==
  /\ ~Busy(p) /\ ~LockedByOther(p, b)
  /\ b_blockno[b] # NULL
  /\ b_data' = [b_data EXCEPT ![b] = d]
  /\ Enter(p, b, 1, b_blockno[b])
  /\ UNCHANGED <<vdisk_lock, diskVars, ringVars, b_disk, b_blockno, devVars, panic>>

---------------------------------------------------------------------------
(* Descriptors.                                                            *)

\* alloc_desc scans from 0, so alloc3_desc takes the three lowest free ones.
alloc3_desc(i, j, k) ==
  /\ i \in free /\ j \in free /\ k \in free
  /\ i < j /\ j < k
  /\ \A m \in free : m = i \/ m = j \/ m >= k

CanAlloc3 == \E i, j, k \in Desc : alloc3_desc(i, j, k)

WakeNobody(f) == f                                \* mutant: no wakeup in free_desc

\* wakeup(chan): every process asleep on chan becomes runnable.
WakeFree(f) == [q \in Procs |-> IF f[q] = "sleep_free" THEN "enter" ELSE f[q]]
WakeBuf(f, b) ==
  [q \in Procs |-> IF f[q] = "sleep_buf" /\ req[q].b = b THEN "woken" ELSE f[q]]

ChainOfTwo(i) == {i, desc[i].next}                \* mutant: the third one leaks

\* The descriptors free_chain(i) visits; a chain has at most three.
Chain(i) ==
  LET j == desc[i].next
      k == desc[j].next
  IN  IF "NEXT" \notin desc[i].flags THEN {i}
      ELSE IF "NEXT" \notin desc[j].flags THEN {i, j}
      ELSE {i, j, k}

free_chain(i) ==
  /\ free' = free \cup Chain(i)
  /\ desc' = [m \in Desc |-> IF m \in Chain(i) THEN NoDesc ELSE desc[m]]
  /\ panic' = IF Chain(i) \cap free # {} THEN "free_desc 2" ELSE panic

---------------------------------------------------------------------------
(* virtio_disk_rw, one action for each stretch the device or another CPU   *)
(* can tell apart.                                                         *)

\* Format the three descriptors of the chain i -> j -> k for request r.
Format(i, j, k, r) ==
  /\ ops' = [ops EXCEPT ![i] =
               [type |-> IF r.write = 1 THEN "OUT" ELSE "IN", sector |-> r.sector]]
  /\ desc' = [desc EXCEPT
       ![i] = [addr |-> <<"op", i>>, flags |-> {"NEXT"}, next |-> j],
       ![j] = [addr |-> <<"data", r.b>>,
               flags |-> IF r.write = 1 THEN {"NEXT"} ELSE {"WRITE", "NEXT"},
               next |-> k],
       ![k] = [addr |-> <<"status", i>>, flags |-> {"WRITE"}, next |-> 0]]
  /\ info' = [info EXCEPT ![i] = [b |-> r.b, status |-> 255]]
  /\ b_disk' = [b_disk EXCEPT ![r.b] = 1]

\* Take vdisk_lock, allocate and format.
Start(p) ==
  /\ pc[p] = "enter" /\ vdisk_lock = NULL
  /\ \E i, j, k \in Desc :
       /\ alloc3_desc(i, j, k)
       /\ free' = free \ {i, j, k}
       /\ idx' = [idx EXCEPT ![p] = <<i, j, k>>]
       /\ Format(i, j, k, req[p])
  /\ vdisk_lock' = p
  /\ pc' = [pc EXCEPT ![p] = "ring"]
  /\ UNCHANGED <<req, ringVars, b_blockno, b_data, devVars, panic>>

\* Take vdisk_lock, fail to allocate and sleep on &disk.free[0].  What
\* alloc3_desc had taken it gives back, and free_desc wakes the sleepers.
StartSleep(p) ==
  /\ pc[p] = "enter" /\ vdisk_lock = NULL
  /\ ~CanAlloc3
  /\ pc' = [(IF free # {} THEN WakeFree(pc) ELSE pc) EXCEPT ![p] = "sleep_free"]
  /\ UNCHANGED <<vdisk_lock, req, idx, diskVars, ringVars, bufVars, devVars, panic>>

AvailSlot == avail_idx % NUM

PublishSlot(p) ==
  /\ pc[p] = "ring"
  /\ avail_ring' = [avail_ring EXCEPT ![AvailSlot] = idx[p][1]]
  /\ pc' = [pc EXCEPT ![p] = "idx"]
  /\ UNCHANGED <<vdisk_lock, req, idx, diskVars, avail_idx, used_ring, used_dev,
                 used_idx, bufVars, devVars, panic>>

NextIdx(i) == (i + 1) % IdxMod

PublishIdx(p) ==
  /\ pc[p] = "idx"
  /\ avail_idx' = NextIdx(avail_idx)
  /\ pc' = [pc EXCEPT ![p] = "notify"]
  /\ UNCHANGED <<vdisk_lock, req, idx, diskVars, avail_ring, used_ring, used_dev,
                 used_idx, bufVars, devVars, panic>>

Notify(p) ==
  /\ pc[p] = "notify"
  /\ kick' = 1
  /\ pc' = [pc EXCEPT ![p] = "check"]
  /\ UNCHANGED <<vdisk_lock, req, idx, diskVars, ringVars, bufVars, blocks,
                 dev_avail, inflight, isr, panic>>

DoneAnyway(p) == TRUE                             \* mutant: does not test b->disk
Done(p) == b_disk[req[p].b] = 0

\* while(b->disk == 1) sleep(b, &disk.vdisk_lock)
Wait(p) ==
  /\ pc[p] = "check"
  /\ ~Done(p)
  /\ vdisk_lock' = NULL
  /\ pc' = [pc EXCEPT ![p] = "sleep_buf"]
  /\ UNCHANGED <<req, idx, diskVars, ringVars, bufVars, devVars, panic>>

\* sleep() returns with vdisk_lock held again.
Reacquire(p) ==
  /\ pc[p] = "woken" /\ vdisk_lock = NULL
  /\ vdisk_lock' = p
  /\ pc' = [pc EXCEPT ![p] = "check"]
  /\ UNCHANGED <<req, idx, diskVars, ringVars, bufVars, devVars, panic>>

Finish(p) ==
  /\ pc[p] = "check"
  /\ Done(p)
  /\ info' = [info EXCEPT ![idx[p][1]].b = NULL]
  /\ free_chain(idx[p][1])
  /\ vdisk_lock' = NULL
  /\ pc' = [WakeFree(pc) EXCEPT ![p] = "idle"]
  /\ req' = [req EXCEPT ![p] = NoReq]
  /\ idx' = [idx EXCEPT ![p] = <<0, 0, 0>>]
  /\ UNCHANGED <<ops, ringVars, bufVars, devVars>>

---------------------------------------------------------------------------
(* The device (external): it reads the avail ring once notified, serves    *)
(* the requests it has fetched in any order, and raises an interrupt.      *)

\* The lowest request slot of the device that is not in use.
UnusedTag(t) == /\ \A r \in inflight : r.tag # t
                /\ \A u \in 0 .. t - 1 : \E r \in inflight : r.tag = u

\* A chain the device can serve; at any other it stops fetching for good.
Readable(h, j, k) ==
  /\ desc[h].addr \in {"op"} \X Desc
  /\ desc[j].addr \in {"data"} \X Bufs
  /\ desc[k].addr \in {"status"} \X Desc

DevFetch ==
  /\ kick = 1 /\ dev_avail # avail_idx
  /\ LET h == avail_ring[dev_avail % NUM]
         j == desc[h].next
         k == desc[j].next
     IN  /\ Readable(h, j, k)
         /\ \E t \in Desc :
              /\ UnusedTag(t)
              /\ inflight' = inflight \cup
                   {[tag |-> t, head |-> h, op |-> ops[desc[h].addr[2]],
                     buf |-> desc[j].addr[2], status |-> desc[k].addr[2]]}
  /\ dev_avail' = NextIdx(dev_avail)
  /\ UNCHANGED <<vdisk_lock, procVars, diskVars, ringVars, bufVars, blocks, kick,
                 isr, panic>>

DevRest ==
  /\ kick = 1 /\ dev_avail = avail_idx
  /\ kick' = 0
  /\ UNCHANGED <<vdisk_lock, procVars, diskVars, ringVars, bufVars, blocks,
                 dev_avail, inflight, isr, panic>>

DevComplete(r) ==
  /\ LET blk == r.op.sector \div SectorsPerBlock
     IN  IF r.op.type = "OUT"
         THEN /\ blocks' = [blocks EXCEPT ![blk] = b_data[r.buf]]
              /\ UNCHANGED b_data
         ELSE /\ b_data' = [b_data EXCEPT ![r.buf] = blocks[blk]]
              /\ UNCHANGED blocks
  /\ info' = [info EXCEPT ![r.status].status = 0]
  /\ used_ring' = [used_ring EXCEPT ![used_dev % NUM] = r.head]
  /\ used_dev' = NextIdx(used_dev)
  /\ inflight' = inflight \ {r}
  /\ isr' = 1
  /\ UNCHANGED <<vdisk_lock, procVars, free, desc, ops, avail_ring, avail_idx,
                 used_idx, b_disk, b_blockno, dev_avail, kick, panic>>

---------------------------------------------------------------------------
(* virtio_disk_intr.  The PLIC delivers one disk interrupt at a time.      *)

IntrEnter ==
  /\ isr = 1 /\ vdisk_lock = NULL
  /\ vdisk_lock' = INTR
  /\ isr' = 0
  /\ UNCHANGED <<procVars, diskVars, ringVars, bufVars, blocks, dev_avail,
                 inflight, kick, panic>>

UsedSlot == used_idx % NUM

IntrNext ==
  /\ vdisk_lock = INTR /\ used_idx # used_dev
  /\ LET id == used_ring[UsedSlot]
         b  == info[id].b
     IN  IF info[id].status # 0
         THEN /\ panic' = "virtio_disk_intr status"
              /\ UNCHANGED <<b_disk, pc, used_idx>>
         ELSE IF b = NULL
         THEN /\ panic' = "fault: info[id].b is null"
              /\ UNCHANGED <<b_disk, pc, used_idx>>
         ELSE /\ b_disk' = [b_disk EXCEPT ![b] = 0]
              /\ pc' = WakeBuf(pc, b)
              /\ used_idx' = NextIdx(used_idx)
              /\ UNCHANGED panic
  /\ UNCHANGED <<vdisk_lock, req, idx, diskVars, avail_ring, avail_idx, used_ring,
                 used_dev, b_blockno, b_data, devVars>>

IntrExitUndrained ==                              \* mutant: leaves entries behind
  /\ vdisk_lock = INTR
  /\ vdisk_lock' = NULL
  /\ UNCHANGED <<procVars, diskVars, ringVars, bufVars, devVars, panic>>

IntrExit ==
  /\ vdisk_lock = INTR /\ used_idx = used_dev
  /\ vdisk_lock' = NULL
  /\ UNCHANGED <<procVars, diskVars, ringVars, bufVars, devVars, panic>>

\* kill() makes a sleeping process runnable whatever it waits for.
Kill(p) ==
  /\ pc[p] \in {"sleep_free", "sleep_buf"}
  /\ pc' = [pc EXCEPT ![p] = IF @ = "sleep_free" THEN "enter" ELSE "woken"]
  /\ UNCHANGED <<vdisk_lock, req, idx, diskVars, ringVars, bufVars, devVars, panic>>

---------------------------------------------------------------------------
rw(p) == \/ Start(p) \/ StartSleep(p) \/ PublishSlot(p) \/ PublishIdx(p)
         \/ Notify(p) \/ Wait(p) \/ Reacquire(p) \/ Finish(p)

Call(p) == \E b \in Bufs : \/ \E blk \in Blocks : CallRead(p, b, blk)
                           \/ \E d \in Data : CallWrite(p, b, d)

Device == DevFetch \/ DevRest \/ \E r \in inflight : DevComplete(r)
Intr == IntrEnter \/ IntrNext \/ IntrExit

Next ==
  /\ panic = "none"
  /\ (\E p \in Procs : Call(p) \/ rw(p) \/ Kill(p)) \/ Device \/ Intr

Spec == Init /\ [][Next]_vars

(* Fairness.  A CPU that holds vdisk_lock runs on with interrupts off, the *)
(* device serves what it was told about, and a CPU that spins for a lock   *)
(* that is released again and again obtains it.  Nobody has to call.       *)
Fairness ==
  /\ \A p \in Procs :
       /\ SF_vars(Start(p) \/ StartSleep(p))
       /\ SF_vars(Reacquire(p))
       /\ WF_vars(PublishSlot(p) \/ PublishIdx(p) \/ Notify(p) \/ Wait(p) \/ Finish(p))
  /\ SF_vars(IntrEnter) /\ WF_vars(IntrNext \/ IntrExit)
  /\ WF_vars(DevFetch)
  /\ \A t \in Desc : WF_vars(\E r \in inflight : r.tag = t /\ DevComplete(r))

FairSpec == Spec /\ Fairness

---------------------------------------------------------------------------
(* Properties.                                                             *)

PcValues == {"idle", "enter", "sleep_free", "ring", "idx", "notify", "check",
             "sleep_buf", "woken"}
Addr == {NULL} \cup ({"op", "status"} \X Desc) \cup ({"data"} \X Bufs)
Sectors == {Sector(blk) : blk \in Blocks}
Request == [b : Bufs \cup {NULL}, write : {0, 1}, sector : Sectors]
Op == [type : {"IN", "OUT"}, sector : Sectors]

\* The state of struct disk, the rings, the buffers and the device is well
\* typed; in particular the three ring counters stay within their width.
TypeOK ==
  /\ vdisk_lock \in Procs \cup {INTR, NULL}
  /\ pc \in [Procs -> PcValues]
  /\ req \in [Procs -> Request]
  /\ idx \in [Procs -> Desc \X Desc \X Desc]
  /\ free \in SUBSET Desc
  /\ desc \in [Desc -> [addr : Addr, flags : SUBSET {"NEXT", "WRITE"}, next : Desc]]
  /\ info \in [Desc -> [b : Bufs \cup {NULL}, status : {0, 255}]]
  /\ ops \in [Desc -> Op]
  /\ avail_ring \in [Desc -> Desc] /\ used_ring \in [Desc -> Desc]
  /\ {avail_idx, used_dev, used_idx, dev_avail} \subseteq 0 .. IdxMod - 1
  /\ b_disk \in [Bufs -> {0, 1}]
  /\ b_blockno \in [Bufs -> Blocks \cup {NULL}]
  /\ b_data \in [Bufs -> Data \cup {NULL}]
  /\ blocks \in [Blocks -> Data \cup {NULL}]
  /\ \A r \in inflight : r \in [tag : Desc, head : Desc, op : Op,
                                 buf : Bufs, status : Desc]
  /\ kick \in {0, 1} /\ isr \in {0, 1}

\* p has a chain of descriptors: it is between alloc3_desc and free_chain.
HasChain(p) == pc[p] \in {"ring", "idx", "notify", "check", "sleep_buf", "woken"}
Mine(p) == {idx[p][1], idx[p][2], idx[p][3]}

\* alloc3_desc and free_chain neither leak nor share descriptors: a
\* descriptor is not free exactly when one request in virtio_disk_rw has it,
\* and each such request has three of its own.
DescriptorsAccounted ==
  /\ \A i \in Desc : i \notin free <=> \E p \in Procs : HasChain(p) /\ i \in Mine(p)
  /\ \A p \in Procs : HasChain(p) =>
       /\ idx[p][1] < idx[p][2] /\ idx[p][2] < idx[p][3]
       /\ \A q \in Procs \ {p} : HasChain(q) => Mine(p) \cap Mine(q) = {}

\* The chain the device will find at head h is the one virtio_disk_rw
\* formats for the request of p: header, buffer and status, in this order.
WellFormed(h, p) ==
  LET j == desc[h].next
      k == desc[j].next
      w == req[p].write = 1
  IN  /\ h = idx[p][1] /\ {h, j, k} = Mine(p)
      /\ ops[h] = [type |-> IF w THEN "OUT" ELSE "IN", sector |-> req[p].sector]
      /\ desc[h] = [addr |-> <<"op", h>>, flags |-> {"NEXT"}, next |-> j]
      /\ desc[j].addr = <<"data", req[p].b>>
      /\ desc[j].flags = {"NEXT"} \cup (IF w THEN {} ELSE {"WRITE"})
      /\ desc[k] = [addr |-> <<"status", h>>, flags |-> {"WRITE"}, next |-> 0]

\* Positions of a ring from counter `from` up to counter `to`, modulo IdxMod.
Window(from, to) == {(from + n) % IdxMod : n \in 0 .. ((to + IdxMod - from) % IdxMod) - 1}
Unfetched == Window(dev_avail, avail_idx)
Unseen == Window(used_idx, used_dev)

\* Whatever the avail ring offers the device is a complete chain of a
\* request that is still waiting: the slot and the chain are written before
\* avail->idx, and nothing reuses them before the device has fetched them.
DeviceSeesWholeChain ==
  \A at \in Unfetched : \E p \in Procs :
    HasChain(p) /\ WellFormed(avail_ring[at % NUM], p)

\* How many times the request with chain head h is with the device or on its
\* way back: in an avail slot, in flight, or in a used slot not yet handled.
Outstanding(h) == Cardinality({at \in Unfetched : avail_ring[at % NUM] = h})
                + Cardinality({r \in inflight : r.head = h})
                + Cardinality({at \in Unseen : used_ring[at % NUM] = h})

\* A request is outstanding exactly once from the moment avail->idx covers it
\* until the interrupt handler has cleared b->disk, and never otherwise; so
\* no chain is freed, and no info[] slot reused, under a pending completion.
OutstandingOnce ==
  \A h \in Desc :
    LET waiting == {p \in Procs : /\ HasChain(p) /\ idx[p][1] = h
                                  /\ pc[p] \notin {"ring", "idx"}
                                  /\ b_disk[req[p].b] = 1}
    IN  Outstanding(h) = Cardinality(waiting)

\* No panic() or null dereference of the driver is reachable: the handler
\* finds status 0 and a buffer in info[id], free_desc finds a busy descriptor.
NoPanic == panic = "none"

\* What the device can fetch is a whole chain of a waiting call, each request
\* is outstanding once, and the handler finds the buffer and status it needs.
RingsInStep == DeviceSeesWholeChain /\ OutstandingOnce /\ NoPanic

\* When virtio_disk_rw returns, the request has been carried out: the buffer
\* of a read holds the block, the block of a write holds the buffer.
RequestServed ==
  [][\A p \in Procs : (pc[p] # "idle" /\ pc'[p] = "idle") =>
       b_data[req[p].b] = blocks[b_blockno[req[p].b]]]_vars

\* The abstract call of p: virtio_disk_rw formats status 255 into its chain
\* and the device writes 0 there when it has transferred the block.
AbstractCall(p) ==
  [at |-> IF ~Busy(p) THEN "idle"
          ELSE IF HasChain(p) /\ info[idx[p][1]].status = 0 THEN "done" ELSE "called",
   b |-> req[p].b, write |-> req[p].write]

Abstract == INSTANCE AbstractDisk WITH call <- [p \in Procs |-> AbstractCall(p)]

\* The driver, the device and the interrupt handler together transfer each
\* block exactly once, in one step, between the call and the return.
ImplementsAbstractDisk == Abstract!Spec

\* The driver implements the abstract disk, and when virtio_disk_rw() returns
\* buffer and block agree.
ServesRequests == ImplementsAbstractDisk /\ RequestServed

\* Every call of virtio_disk_rw returns.
EveryRequestReturns == \A p \in Procs : pc[p] = "enter" ~> pc[p] = "idle"

\* A process asleep on &disk.free[0] is woken again: whoever holds the
\* descriptors it lacks returns from virtio_disk_rw and frees them.
SleeperWoken == \A p \in Procs : pc[p] = "sleep_free" ~> pc[p] = "enter"

---------------------------------------------------------------------------
(* Neither side reads a ring slot outside the windows, or the header and    *)
(* status of a free descriptor, before it is written again: states that    *)
(* differ only there are one state.                                        *)
LiveSlots == {at % NUM : at \in Unfetched} \cup
             (IF \E p \in Procs : pc[p] = "idx" THEN {avail_idx % NUM} ELSE {})
Live ==
  <<vdisk_lock, procVars, free, [i \in Desc \ free |-> <<desc[i], info[i], ops[i]>>],
    [s \in LiveSlots |-> avail_ring[s]],
    [s \in {at % NUM : at \in Unseen} |-> used_ring[s]],
    avail_idx, used_dev, used_idx, bufVars, devVars, panic>>

(* The positions of the counters do not matter to progress, only their     *)
(* distances and the entries between them, in order.                       *)
Ahead(from, to) == (to + IdxMod - from) % IdxMod
Rotated ==
  <<vdisk_lock, procVars, free, [i \in Desc \ free |-> <<desc[i], info[i], ops[i]>>],
    [n \in 0 .. Ahead(dev_avail, avail_idx) |->
       IF (dev_avail + n) % NUM \in LiveSlots THEN avail_ring[(dev_avail + n) % NUM] ELSE 0],
    [n \in 0 .. Ahead(used_idx, used_dev) - 1 |-> used_ring[(used_idx + n) % NUM]],
    bufVars, blocks, inflight, kick, isr, panic>>
=============================================================================
