------------------------- MODULE VirtioDiskProofs --------------------------
(***************************************************************************)
(* What TLAPS proves of VirtioDisk, for any number of processes, buffers,  *)
(* blocks and descriptors.                                                 *)
(*                                                                         *)
(* The allocator: it neither leaks nor shares nor frees twice.  TypeOK is  *)
(* not inductive: Start writes req[p].b into a descriptor, so a request    *)
(* under way must have a buffer (BusyHasBuffer).  DescriptorsAccounted is  *)
(* not either: free_chain frees what the next fields lead to, so the links *)
(* must be the ones Start wrote (ChainLinked).                             *)
(*                                                                         *)
(* The rings: what the device may fetch is a whole chain of a waiting      *)
(* call, a request is outstanding exactly once, no panic() of the driver   *)
(* is reachable, and the driver with the device implements AbstractDisk.   *)
(* The invariant follows one request around: its buffer is its own         *)
(* (CallerInv), its chain is the one Format wrote and its status byte says *)
(* whether the transfer took place (ChainInv), and while b->disk is set it *)
(* is in exactly one place: an avail slot, in flight, or a used slot       *)
(* (RingInv).  As heads are distinct there are fewer of them than slots,   *)
(* so neither ring overruns (Room).                                        *)
(***************************************************************************)
EXTENDS VirtioDisk, Integers, TLAPS

\* A leaf is first-order reasoning, which Zenon does, unless it cites SMT.
USE Zenon

---------------------------------------------------------------------------
(* Types, and the allocator of descriptors.                                *)

\* A process inside virtio_disk_rw was called with a buffer.
BusyHasBuffer == \A p \in Procs : Busy(p) => req[p].b \in Bufs

TypeInv == TypeOK /\ BusyHasBuffer

\* The links from the head of p's chain lead through p's three descriptors
\* and stop there.
ChainLinked ==
  \A p \in Procs : HasChain(p) =>
    /\ "NEXT" \in desc[idx[p][1]].flags /\ desc[idx[p][1]].next = idx[p][2]
    /\ "NEXT" \in desc[idx[p][2]].flags /\ desc[idx[p][2]].next = idx[p][3]

\* free_desc has not found a descriptor free already.
NeverFreedTwice == panic # "free_desc 2"

DescriptorInv == DescriptorsAccounted /\ ChainLinked /\ NeverFreedTwice

\* A remainder lies below the modulus: ring slots are descriptor numbers,
\* and counters stay within their width.
LEMMA ModBound ==
  ASSUME NEW a \in Nat, NEW m \in Nat, m > 0
  PROVE  a % m \in 0 .. m - 1
  BY SMT

\* The device gets back the block number from the sector virtio_disk_rw
\* computed from it.
LEMMA SectorBlock ==
  ASSUME NEW s \in Sectors
  PROVE  s \div SectorsPerBlock \in Blocks
BY SizeAssumption, SMT DEF Sectors, Sector, SectorsPerBlock

\* Counters and slots: what NextIdx and the slot of a counter return.
LEMMA CounterTypes ==
  ASSUME NEW i \in 0 .. IdxMod - 1
  PROVE  /\ NextIdx(i) \in 0 .. IdxMod - 1
         /\ i % NUM \in Desc
<1>1. i \in Nat /\ i + 1 \in Nat /\ IdxMod > 0 /\ NUM > 0
  BY SizeAssumption, SMT
<1>2. NextIdx(i) \in 0 .. IdxMod - 1
  BY <1>1, ModBound, SizeAssumption DEF NextIdx
<1>3. i % NUM \in Desc
  BY <1>1, ModBound, SizeAssumption DEF Desc
<1> QED BY <1>2, <1>3

\* The initial state is well typed.
LEMMA TypeInit == Init => TypeInv
<1> SUFFICES ASSUME Init PROVE TypeInv
  OBVIOUS
<1>1. 0 \in Desc /\ 0 \in 0 .. IdxMod - 1
  BY SizeAssumption, SMT DEF Desc
<1>2. 0 \in Sectors
  BY SizeAssumption, SMT DEF Sectors, Sector, SectorsPerBlock
<1>3. TypeOK
  BY <1>1, <1>2 DEF Init, TypeOK, NoReq, NoDesc, PcValues, Addr, Request, Op
<1>4. BusyHasBuffer
  BY DEF Init, BusyHasBuffer, Busy
<1> QED BY <1>3, <1>4 DEF TypeInv

\* Every step of a caller keeps the types.
LEMMA TypeCall ==
  ASSUME TypeInv, NEW p \in Procs, Call(p)
  PROVE  TypeInv'
<1> USE DEF TypeInv, TypeOK, BusyHasBuffer, Busy
<1>1. \A blk \in Blocks : Sector(blk) \in Sectors
  BY DEF Sectors
<1>2. ASSUME NEW b \in Bufs, NEW blk \in Blocks, CallRead(p, b, blk)
      PROVE  TypeInv'
  BY <1>1, <1>2 DEF CallRead, Enter, PcValues, Request, diskVars, ringVars, devVars
<1>3. ASSUME NEW b \in Bufs, NEW d \in Data, CallWrite(p, b, d)
      PROVE  TypeInv'
  <2>1. b_blockno[b] \in Blocks
    BY <1>3 DEF CallWrite
  <2> QED BY <1>1, <1>3, <2>1 DEF CallWrite, Enter, PcValues, Request, diskVars,
                                 ringVars, devVars
<1> QED BY <1>2, <1>3 DEF Call

\* wakeup() moves processes between program points only.
LEMMA WakeFreeTypes ==
  ASSUME NEW f \in [Procs -> PcValues]
  PROVE  /\ WakeFree(f) \in [Procs -> PcValues]
         /\ \A q \in Procs : WakeFree(f)[q] = "idle" <=> f[q] = "idle"
         /\ \A q \in Procs : \/ WakeFree(f)[q] = f[q]
                             \/ WakeFree(f)[q] = "enter" /\ f[q] = "sleep_free"
BY DEF WakeFree, PcValues

\* wakeup(b) moves processes between places of virtio_disk_rw only.
LEMMA WakeBufTypes ==
  ASSUME NEW f \in [Procs -> PcValues], NEW b
  PROVE  /\ WakeBuf(f, b) \in [Procs -> PcValues]
         /\ \A q \in Procs : WakeBuf(f, b)[q] = "idle" <=> f[q] = "idle"
BY DEF WakeBuf, PcValues

\* Assigning one field of an info[] slot keeps its type.
LEMMA InfoTypes ==
  ASSUME NEW f \in [Desc -> [b : Bufs \cup {NULL}, status : {0, 255}]], NEW i \in Desc
  PROVE  /\ [f EXCEPT ![i].b = NULL] \in [Desc -> [b : Bufs \cup {NULL}, status : {0, 255}]]
         /\ [f EXCEPT ![i].status = 0] \in [Desc -> [b : Bufs \cup {NULL}, status : {0, 255}]]
<1> DEFINE Slot == [b : Bufs \cup {NULL}, status : {0, 255}]
<1>1. f[i] \in Slot
  BY SMT
<1>2. [f[i] EXCEPT !.b = NULL] \in Slot /\ [f[i] EXCEPT !.status = 0] \in Slot
  BY <1>1, SMT
<1> HIDE DEF Slot
<1>3. /\ [f EXCEPT ![i] = [f[i] EXCEPT !.b = NULL]] \in [Desc -> Slot]
      /\ [f EXCEPT ![i] = [f[i] EXCEPT !.status = 0]] \in [Desc -> Slot]
  BY <1>2 DEF Slot
<1> QED BY <1>3 DEF Slot

\* Allocation and formatting keep the types.
LEMMA TypeStart ==
  ASSUME TypeInv, NEW p \in Procs, Start(p)
  PROVE  TypeInv'
<1> USE DEF TypeInv, TypeOK, BusyHasBuffer, Busy
<1>1. PICK i, j, k \in Desc :
        /\ free' = free \ {i, j, k}
        /\ idx' = [idx EXCEPT ![p] = <<i, j, k>>]
        /\ Format(i, j, k, req[p])
  BY DEF Start
<1>2. req[p].b \in Bufs /\ req[p] \in Request
  BY SMT DEF Start
<1>3. 0 \in Desc
  BY SizeAssumption, SMT DEF Desc
<1>4. ops' \in [Desc -> Op]
  BY <1>1, <1>2 DEF Format, Op, Request
<1>5. desc' \in [Desc -> [addr : Addr, flags : SUBSET {"NEXT", "WRITE"}, next : Desc]]
  <2>1. <<"op", i>> \in Addr /\ <<"status", i>> \in Addr /\ <<"data", req[p].b>> \in Addr
    BY <1>2 DEF Addr
  <2> DEFINE Types == [addr : Addr, flags : SUBSET {"NEXT", "WRITE"}, next : Desc]
             di == [addr |-> <<"op", i>>, flags |-> {"NEXT"}, next |-> j]
             dj == [addr |-> <<"data", req[p].b>>,
                    flags |-> IF req[p].write = 1 THEN {"NEXT"} ELSE {"WRITE", "NEXT"},
                    next |-> k]
             dk == [addr |-> <<"status", i>>, flags |-> {"WRITE"}, next |-> 0]
  <2>2. di \in Types /\ dj \in Types /\ dk \in Types
    BY <1>3, <2>1
  <2>3. desc' = [desc EXCEPT ![i] = di, ![j] = dj, ![k] = dk]
    BY <1>1 DEF Format
  <2>4. desc \in [Desc -> Types]
    OBVIOUS
  <2> HIDE DEF Types, di, dj, dk
  <2>5. desc' \in [Desc -> Types]
    BY <2>2, <2>3, <2>4
  <2> QED BY <2>5 DEF Types
<1>6. info' \in [Desc -> [b : Bufs \cup {NULL}, status : {0, 255}]]
  BY <1>1, <1>2 DEF Format
<1>7. b_disk' \in [Bufs -> {0, 1}]
  BY <1>1, <1>2 DEF Format
<1>8. idx' \in [Procs -> Desc \X Desc \X Desc] /\ free' \in SUBSET Desc
  BY <1>1, SMT
<1>9. /\ pc' \in [Procs -> PcValues] /\ vdisk_lock' \in Procs
      /\ \A q \in Procs : pc'[q] # "idle" <=> pc[q] # "idle"
  BY DEF Start, PcValues
<1> QED BY <1>4, <1>5, <1>6, <1>7, <1>8, <1>9 DEF Start, ringVars, devVars

\* The other steps of virtio_disk_rw, and kill(), keep the types.
LEMMA TypeRw ==
  ASSUME TypeInv, NEW p \in Procs, rw(p) \/ Kill(p)
  PROVE  TypeInv'
<1> USE DEF TypeInv, TypeOK, BusyHasBuffer, Busy
<1>1. CASE Start(p)
  BY <1>1, TypeStart
<1>2. CASE StartSleep(p)
  <2>1. /\ pc' \in [Procs -> PcValues]
        /\ \A q \in Procs : pc'[q] # "idle" => pc[q] # "idle"
    <3> DEFINE f == IF free # {} THEN WakeFree(pc) ELSE pc
    <3>1. /\ f \in [Procs -> PcValues]
          /\ \A q \in Procs : f[q] = "idle" <=> pc[q] = "idle"
      BY WakeFreeTypes
    <3>2. pc' = [f EXCEPT ![p] = "sleep_free"] /\ pc[p] = "enter"
      BY <1>2 DEF StartSleep
    <3> HIDE DEF f
    <3> QED BY <3>1, <3>2 DEF PcValues
  <2> QED BY <1>2, <2>1 DEF StartSleep, diskVars, ringVars, bufVars, devVars
<1>3. CASE PublishSlot(p)
  <2>1. avail_ring' \in [Desc -> Desc]
    BY <1>3 DEF PublishSlot
  <2> QED BY <1>3, <2>1, SMT DEF PublishSlot, PcValues, diskVars, bufVars, devVars
<1>4. CASE PublishIdx(p)
  <2>1. avail_idx' \in 0 .. IdxMod - 1
    BY <1>4, CounterTypes DEF PublishIdx
  <2> QED BY <1>4, <2>1, SMT DEF PublishIdx, PcValues, diskVars, bufVars, devVars
<1>5. CASE Notify(p)
  BY <1>5 DEF Notify, PcValues, diskVars, ringVars, bufVars
<1>6. CASE Wait(p)
  BY <1>6 DEF Wait, PcValues, diskVars, ringVars, bufVars, devVars
<1>7. CASE Reacquire(p)
  BY <1>7 DEF Reacquire, PcValues, diskVars, ringVars, bufVars, devVars
<1>8. CASE Finish(p)
  <2>1. 0 \in Desc /\ 0 \in Sectors
    BY SizeAssumption, SMT DEF Desc, Sectors, Sector, SectorsPerBlock
  <2>2. idx[p][1] \in Desc
    OBVIOUS
  <2>3. Chain(idx[p][1]) \subseteq Desc
    BY <2>2, SMT DEF Chain
  <2>4. free' \subseteq Desc
    BY <1>8, <2>3 DEF Finish, free_chain
  <2>5. desc' \in [Desc -> [addr : Addr, flags : SUBSET {"NEXT", "WRITE"}, next : Desc]]
    <3>1. NoDesc \in [addr : Addr, flags : SUBSET {"NEXT", "WRITE"}, next : Desc]
      BY <2>1 DEF NoDesc, Addr
    <3> QED BY <1>8, <3>1 DEF Finish, free_chain
  <2>6. info' \in [Desc -> [b : Bufs \cup {NULL}, status : {0, 255}]]
    BY <1>8, <2>2, InfoTypes DEF Finish
  <2>7. req' \in [Procs -> Request] /\ idx' \in [Procs -> Desc \X Desc \X Desc]
    BY <1>8, <2>1 DEF Finish, NoReq, Request
  <2>8. /\ pc' \in [Procs -> PcValues]
        /\ \A q \in Procs : pc'[q] # "idle" => q # p /\ pc[q] # "idle"
    <3>1. /\ WakeFree(pc) \in [Procs -> PcValues]
          /\ \A q \in Procs : WakeFree(pc)[q] = "idle" <=> pc[q] = "idle"
      BY WakeFreeTypes
    <3>2. pc' = [WakeFree(pc) EXCEPT ![p] = "idle"]
      BY <1>8 DEF Finish
    <3> QED BY <3>1, <3>2, SMT DEF PcValues
  <2>9. BusyHasBuffer'
    BY <1>8, <2>8 DEF Finish
  <2> QED BY <1>8, <2>4, <2>5, <2>6, <2>7, <2>8, <2>9 DEF Finish, ringVars, bufVars, devVars
<1>9. CASE Kill(p)
  BY <1>9 DEF Kill, PcValues, diskVars, ringVars, bufVars, devVars
<1> QED BY <1>1, <1>2, <1>3, <1>4, <1>5, <1>6, <1>7, <1>8, <1>9 DEF rw

\* The device and the interrupt handler keep the types.
LEMMA TypeDevice ==
  ASSUME TypeInv, Device \/ Intr
  PROVE  TypeInv'
<1> USE DEF TypeInv, TypeOK, BusyHasBuffer, Busy
<1>1. CASE DevFetch
  <2> DEFINE h == avail_ring[dev_avail % NUM]
             j == desc[h].next
             k == desc[j].next
  <2>1. dev_avail % NUM \in Desc /\ dev_avail' \in 0 .. IdxMod - 1
    BY <1>1, CounterTypes DEF DevFetch
  <2>2. h \in Desc /\ j \in Desc /\ k \in Desc
    BY <2>1
  <2>3. /\ desc[h].addr[2] \in Desc
        /\ desc[j].addr[2] \in Bufs
        /\ desc[k].addr[2] \in Desc
    BY <1>1 DEF DevFetch, Readable
  <2>4. \A r \in inflight' : r \in [tag : Desc, head : Desc, op : Op,
                                     buf : Bufs, status : Desc]
    <3>1. PICK t \in Desc :
            inflight' = inflight \cup
              {[tag |-> t, head |-> h, op |-> ops[desc[h].addr[2]],
                buf |-> desc[j].addr[2], status |-> desc[k].addr[2]]}
      BY <1>1 DEF DevFetch
    <3>2. ops[desc[h].addr[2]] \in Op
      BY <2>3
    <3> HIDE DEF h, j, k
    <3> QED BY <2>2, <2>3, <3>1, <3>2, SMT
  <2>5. UNCHANGED <<vdisk_lock, procVars, diskVars, ringVars, bufVars, blocks, kick, isr>>
    BY <1>1 DEF DevFetch
  <2> QED BY <2>1, <2>4, <2>5, SMT DEF procVars, diskVars, ringVars, bufVars
<1>2. CASE DevRest
  BY <1>2 DEF DevRest, procVars, diskVars, ringVars, bufVars
<1>3. ASSUME NEW r \in inflight, DevComplete(r)
      PROVE  TypeInv'
  <2>1. /\ r.head \in Desc /\ r.op \in Op /\ r.buf \in Bufs /\ r.status \in Desc
        /\ r.op.sector \in Sectors
    BY DEF Op
  <2>2. r.op.sector \div SectorsPerBlock \in Blocks
    BY <2>1, SectorBlock
  <2>3. /\ blocks' \in [Blocks -> Data \cup {NULL}]
        /\ b_data' \in [Bufs -> Data \cup {NULL}]
    <3> DEFINE blk == r.op.sector \div SectorsPerBlock
    <3>1. \/ blocks' = [blocks EXCEPT ![blk] = b_data[r.buf]] /\ b_data' = b_data
          \/ b_data' = [b_data EXCEPT ![r.buf] = blocks[blk]] /\ blocks' = blocks
      BY <1>3 DEF DevComplete
    <3> HIDE DEF blk
    <3>2. blk \in Blocks
      BY <2>2 DEF blk
    <3>3. b_data[r.buf] \in Data \cup {NULL} /\ blocks[blk] \in Data \cup {NULL}
      BY <2>1, <3>2 DEF TypeInv, TypeOK
    <3> QED BY <2>1, <3>1, <3>2, <3>3, ZenonT(30)
  <2>4. info' \in [Desc -> [b : Bufs \cup {NULL}, status : {0, 255}]]
    BY <1>3, <2>1, InfoTypes, ZenonT(30) DEF DevComplete
  <2>5. used_ring' \in [Desc -> Desc] /\ used_dev' \in 0 .. IdxMod - 1
    BY <1>3, <2>1, CounterTypes DEF DevComplete
  <2> QED BY <1>3, <2>3, <2>4, <2>5, SMT DEF DevComplete, procVars
<1>4. CASE IntrEnter
  BY <1>4 DEF IntrEnter, procVars, diskVars, ringVars, bufVars
<1>5. CASE IntrNext
  <2> DEFINE id == used_ring[UsedSlot]
  <2>1. id \in Desc
    BY CounterTypes DEF UsedSlot
  <2> DEFINE b == info[id].b
  <2>2. \/ UNCHANGED <<b_disk, pc, used_idx>>
        \/ /\ b # NULL
           /\ b_disk' = [b_disk EXCEPT ![b] = 0]
           /\ pc' = WakeBuf(pc, b)
           /\ used_idx' = NextIdx(used_idx)
    BY <1>5 DEF IntrNext
  <2> HIDE DEF id
  <2>3. b \in Bufs \cup {NULL}
    BY <2>1
  <2> HIDE DEF b
  <2>4. /\ b_disk' \in [Bufs -> {0, 1}]
        /\ used_idx' \in 0 .. IdxMod - 1
    <3>1. used_idx \in 0 .. IdxMod - 1 /\ NextIdx(used_idx) \in 0 .. IdxMod - 1
      BY CounterTypes
    <3> QED BY <2>2, <2>3, <3>1, ZenonT(30)
  <2>5. /\ pc' \in [Procs -> PcValues]
        /\ \A q \in Procs : pc'[q] # "idle" => pc[q] # "idle"
    <3>1. /\ pc \in [Procs -> PcValues] /\ WakeBuf(pc, b) \in [Procs -> PcValues]
          /\ \A q \in Procs : WakeBuf(pc, b)[q] = "idle" <=> pc[q] = "idle"
      BY WakeBufTypes, SMTT(30)
    <3>2. pc' = pc \/ pc' = WakeBuf(pc, b)
      BY <2>2
    <3> HIDE DEF TypeInv
    <3> QED BY <3>1, <3>2
  <2>6. UNCHANGED <<vdisk_lock, req, idx, diskVars, avail_ring, avail_idx, used_ring,
                    used_dev, b_blockno, b_data, devVars>>
    BY <1>5 DEF IntrNext
  <2> QED BY <2>4, <2>5, <2>6, SMT DEF diskVars, devVars
<1>6. CASE IntrExit
  BY <1>6 DEF IntrExit, procVars, diskVars, ringVars, bufVars, devVars
<1> QED BY <1>1, <1>2, <1>3, <1>4, <1>5, <1>6 DEF Device, Intr

\* Stuttering keeps every invariant.
LEMMA TypeStutter == TypeInv /\ UNCHANGED vars => TypeInv'
BY SMT DEF TypeInv, TypeOK, BusyHasBuffer, Busy, vars, procVars, diskVars, ringVars, bufVars,
   devVars

\* struct disk, the rings, the buffers and the device stay well typed for any
\* number of processes, descriptors and blocks.
THEOREM TypeCorrect == Spec => []TypeInv
<1>1. TypeInv /\ [Next]_vars => TypeInv'
  BY TypeCall, TypeRw, TypeDevice, TypeStutter DEF Next
<1> QED BY <1>1, TypeInit, PTL DEF Spec

\* The type invariant of the driver, as the runs check it.
THEOREM TypeOKHolds == Spec => []TypeOK
<1>1. TypeInv => TypeOK
  BY DEF TypeInv
<1> QED BY <1>1, TypeCorrect, PTL

---------------------------------------------------------------------------
(* The descriptor allocator.                                               *)

\* All descriptors are free at first and no process has a chain.
LEMMA DescriptorInit == Init => DescriptorInv
BY SMT DEF Init, DescriptorInv, DescriptorsAccounted, ChainLinked, NeverFreedTwice, HasChain

\* A step that leaves the allocator's data and the owners of chains alone
\* preserves the invariant.
LEMMA DescriptorFrame ==
  ASSUME DescriptorInv, UNCHANGED <<free, desc, idx>>, NeverFreedTwice',
         \A p \in Procs : HasChain(p)' <=> HasChain(p)
  PROVE  DescriptorInv'
BY DEF DescriptorInv, DescriptorsAccounted, ChainLinked, Mine

\* Start gives p three descriptors that nobody had, linked into a chain.
LEMMA DescriptorStart ==
  ASSUME TypeInv, DescriptorInv, NEW p \in Procs, Start(p)
  PROVE  DescriptorInv'
<1> USE DEF DescriptorInv
<1>1. PICK i, j, k \in Desc :
        /\ alloc3_desc(i, j, k)
        /\ free' = free \ {i, j, k}
        /\ idx' = [idx EXCEPT ![p] = <<i, j, k>>]
        /\ Format(i, j, k, req[p])
  BY DEF Start
<1>2. /\ i \in free /\ j \in free /\ k \in free
      /\ i < j /\ j < k
  BY <1>1 DEF alloc3_desc
<1>3. i # j /\ j # k /\ i # k /\ free \subseteq Desc
  BY <1>2, SMT DEF Desc, TypeInv, TypeOK
<1>4. /\ idx'[p] = <<i, j, k>>
      /\ \A q \in Procs \ {p} : idx'[q] = idx[q]
  BY <1>1, SMT DEF TypeInv, TypeOK
<1>5. /\ ~HasChain(p) /\ HasChain(p)'
      /\ \A q \in Procs \ {p} : HasChain(q)' <=> HasChain(q)
  BY SMT DEF Start, HasChain, TypeInv, TypeOK
<1>6. /\ Mine(p)' = {i, j, k}
      /\ \A q \in Procs \ {p} : Mine(q)' = Mine(q)
  BY <1>4, SMT DEF Mine
<1>7. \A q \in Procs : HasChain(q) => Mine(q) \cap free = {} /\ Mine(q) \subseteq Desc
  BY SMT DEF DescriptorsAccounted, Mine, TypeInv, TypeOK
<1>8. \A m \in Desc : m \notin free' <=> \E q \in Procs : HasChain(q)' /\ m \in Mine(q)'
  BY <1>1, <1>3, <1>5, <1>6, SMT DEF DescriptorsAccounted
<1>9. \A q \in Procs : HasChain(q)' =>
        /\ idx'[q][1] < idx'[q][2] /\ idx'[q][2] < idx'[q][3]
        /\ \A r \in Procs \ {q} : HasChain(r)' => Mine(q)' \cap Mine(r)' = {}
  BY <1>2, <1>4, <1>5, <1>6, <1>7, SMT DEF DescriptorsAccounted
<1>10. DescriptorsAccounted'
  BY <1>8, <1>9 DEF DescriptorsAccounted
<1>11. /\ desc'[i].flags = {"NEXT"} /\ desc'[i].next = j
       /\ "NEXT" \in desc'[j].flags /\ desc'[j].next = k
       /\ \A m \in Desc \ {i, j, k} : desc'[m] = desc[m]
  BY <1>1, <1>3, SMT DEF Format, TypeInv, TypeOK
<1>12. ChainLinked'
  <2> SUFFICES ASSUME NEW q \in Procs, HasChain(q)'
               PROVE  /\ "NEXT" \in desc'[idx'[q][1]].flags
                      /\ desc'[idx'[q][1]].next = idx'[q][2]
                      /\ "NEXT" \in desc'[idx'[q][2]].flags
                      /\ desc'[idx'[q][2]].next = idx'[q][3]
    BY DEF ChainLinked
  <2>1. CASE q = p
    BY <1>4, <1>11, <2>1, SMT
  <2>2. CASE q # p
    <3>1. HasChain(q) /\ idx'[q] = idx[q]
      BY <1>4, <1>5, <2>2
    <3>2. idx[q][1] \in Desc \ {i, j, k} /\ idx[q][2] \in Desc \ {i, j, k}
      BY <1>2, <1>7, <3>1 DEF Mine
    <3> QED BY <1>11, <3>1, <3>2, SMT DEF ChainLinked
  <2> QED BY <2>1, <2>2
<1>13. NeverFreedTwice'
  BY DEF Start, NeverFreedTwice
<1> QED BY <1>10, <1>12, <1>13

\* Finish frees the chain of p and nothing else.
LEMMA DescriptorFinish ==
  ASSUME TypeInv, DescriptorInv, NEW p \in Procs, Finish(p)
  PROVE  DescriptorInv'
<1> USE DEF DescriptorInv
<1>1. HasChain(p)
  BY DEF Finish, HasChain
<1>2. Chain(idx[p][1]) = Mine(p)
  BY <1>1 DEF Chain, ChainLinked, Mine
<1>3. /\ free' = free \cup Mine(p)
      /\ desc' = [m \in Desc |-> IF m \in Mine(p) THEN NoDesc ELSE desc[m]]
      /\ panic' = IF Mine(p) \cap free # {} THEN "free_desc 2" ELSE panic
  BY <1>2 DEF Finish, free_chain
<1>4. \A q \in Procs : HasChain(q) => Mine(q) \cap free = {} /\ Mine(q) \subseteq Desc
  BY SMT DEF DescriptorsAccounted, Mine, TypeInv, TypeOK
<1>5. NeverFreedTwice'
  BY <1>1, <1>3, <1>4 DEF NeverFreedTwice
<1>6. /\ ~HasChain(p)'
      /\ \A q \in Procs \ {p} : (HasChain(q)' <=> HasChain(q)) /\ idx'[q] = idx[q]
  BY SMT DEF Finish, HasChain, WakeFree, TypeInv, TypeOK
<1>7. \A q \in Procs \ {p} : Mine(q)' = Mine(q)
  BY <1>6 DEF Mine
<1>8. \A q \in Procs \ {p} : HasChain(q) => Mine(q) \cap Mine(p) = {}
  BY <1>1 DEF DescriptorsAccounted
<1>9. \A m \in Desc : m \notin free' <=> \E q \in Procs : HasChain(q)' /\ m \in Mine(q)'
  <2> SUFFICES ASSUME NEW m \in Desc
               PROVE  m \notin free' <=> \E q \in Procs : HasChain(q)' /\ m \in Mine(q)'
    OBVIOUS
  <2>1. m \notin free <=> \E q \in Procs : HasChain(q) /\ m \in Mine(q)
    BY DEF DescriptorsAccounted
  <2>2. m \notin free' <=> m \notin free /\ m \notin Mine(p)
    BY <1>3
  <2>3. ASSUME NEW q \in Procs, HasChain(q), m \in Mine(q), m \notin Mine(p)
        PROVE  HasChain(q)' /\ m \in Mine(q)'
    BY <1>6, <1>7, <2>3
  <2>4. ASSUME NEW q \in Procs, HasChain(q)', m \in Mine(q)'
        PROVE  HasChain(q) /\ m \in Mine(q) /\ m \notin Mine(p)
    BY <1>6, <1>7, <1>8, <2>4
  <2> QED BY <2>1, <2>2, <2>3, <2>4
<1>10. \A q \in Procs : HasChain(q)' =>
         /\ idx'[q][1] < idx'[q][2] /\ idx'[q][2] < idx'[q][3]
         /\ \A r \in Procs \ {q} : HasChain(r)' => Mine(q)' \cap Mine(r)' = {}
  BY <1>6, <1>7 DEF DescriptorsAccounted
<1>11. DescriptorsAccounted'
  BY <1>9, <1>10 DEF DescriptorsAccounted
<1>12. ChainLinked'
  <2> SUFFICES ASSUME NEW q \in Procs, HasChain(q)'
               PROVE  /\ "NEXT" \in desc'[idx'[q][1]].flags
                      /\ desc'[idx'[q][1]].next = idx'[q][2]
                      /\ "NEXT" \in desc'[idx'[q][2]].flags
                      /\ desc'[idx'[q][2]].next = idx'[q][3]
    BY DEF ChainLinked
  <2>1. q # p /\ HasChain(q) /\ idx'[q] = idx[q]
    BY <1>6
  <2>2. idx[q][1] \in Desc \ Mine(p) /\ idx[q][2] \in Desc \ Mine(p)
    BY <1>4, <1>8, <2>1 DEF Mine
  <2> QED BY <1>3, <2>1, <2>2 DEF ChainLinked
<1> QED BY <1>5, <1>11, <1>12

\* Every step preserves the allocator's invariant.
LEMMA DescriptorStep ==
  ASSUME TypeInv, DescriptorInv, [Next]_vars
  PROVE  DescriptorInv'
<1> DEFINE Framed == /\ UNCHANGED <<free, desc, idx>> /\ NeverFreedTwice'
                     /\ \A q \in Procs : HasChain(q)' <=> HasChain(q)
<1> SUFFICES Framed \/ \E p \in Procs : Start(p) \/ Finish(p)
  BY DescriptorFrame, DescriptorStart, DescriptorFinish
<1>0. NeverFreedTwice /\ pc \in [Procs -> PcValues]
  BY DEF DescriptorInv, TypeInv, TypeOK
<1> USE DEF HasChain, NeverFreedTwice
<1>1. ASSUME NEW p \in Procs, Call(p) PROVE Framed
  BY <1>0, <1>1 DEF Call, CallRead, CallWrite, Enter, Busy, diskVars
<1>2. ASSUME NEW p \in Procs, StartSleep(p) PROVE Framed
  <2>1. PICK f \in {pc, WakeFree(pc)} : pc' = [f EXCEPT ![p] = "sleep_free"]
    BY <1>2 DEF StartSleep
  <2>2. /\ f \in [Procs -> PcValues]
        /\ \A q \in Procs : f[q] = pc[q] \/ (f[q] = "enter" /\ pc[q] = "sleep_free")
    <3>1. CASE f = pc
      BY <1>0, <3>1
    <3>2. CASE f = WakeFree(pc)
      BY <1>0, <3>2, WakeFreeTypes
    <3> QED BY <3>1, <3>2
  <2>3. pc[p] = "enter" /\ UNCHANGED <<free, desc, idx, panic>>
    BY <1>2 DEF StartSleep, diskVars
  <2> QED BY <1>0, <2>1, <2>2, <2>3
<1>3. ASSUME NEW p \in Procs, PublishSlot(p) PROVE Framed
  BY <1>0, <1>3 DEF PublishSlot, diskVars
<1>4. ASSUME NEW p \in Procs, PublishIdx(p) PROVE Framed
  BY <1>0, <1>4 DEF PublishIdx, diskVars
<1>5. ASSUME NEW p \in Procs, Notify(p) PROVE Framed
  BY <1>0, <1>5 DEF Notify, diskVars
<1>6. ASSUME NEW p \in Procs, Wait(p) \/ Reacquire(p) \/ Kill(p) PROVE Framed
  BY <1>0, <1>6 DEF Wait, Reacquire, Kill, diskVars
<1>7. CASE Device
  BY <1>0, <1>7 DEF Device, DevFetch, DevRest, DevComplete, procVars, diskVars
<1>8. CASE IntrEnter \/ IntrExit
  BY <1>0, <1>8 DEF IntrEnter, IntrExit, procVars, diskVars
<1>9. CASE IntrNext
  <2>1. pc' = pc \/ \E b : pc' = WakeBuf(pc, b)
    BY <1>9 DEF IntrNext
  <2>2. \A q \in Procs : pc'[q] = pc[q] \/ (pc'[q] = "woken" /\ pc[q] = "sleep_buf")
    BY <2>1 DEF WakeBuf
  <2>3. UNCHANGED <<free, desc, idx>> /\ panic' # "free_desc 2"
    BY <1>0, <1>9 DEF IntrNext, diskVars
  <2> QED BY <2>2, <2>3
<1>10. CASE UNCHANGED vars
  BY <1>0, <1>10 DEF vars, procVars, diskVars
<1> QED BY <1>1, <1>2, <1>3, <1>4, <1>5, <1>6, <1>7, <1>8, <1>9, <1>10 DEF Next, rw, Intr

\* The descriptor invariant holds in every reachable state.
THEOREM DescriptorInvariance == Spec => []DescriptorInv
BY DescriptorInit, DescriptorStep, TypeCorrect, PTL DEF Spec

\* alloc3_desc and free_chain neither leak nor share descriptors, whatever
\* the number of processes and descriptors: in any state a descriptor is
\* either free or part of the chain of exactly one request in progress.
THEOREM DescriptorsAlwaysAccounted == Spec => []DescriptorsAccounted
<1>1. DescriptorInv => DescriptorsAccounted
  BY DEF DescriptorInv
<1> QED BY <1>1, DescriptorInvariance, PTL

\* The check panic("free_desc 2") of free_desc never fires.
THEOREM NoDoubleFree == Spec => []NeverFreedTwice
<1>1. DescriptorInv => NeverFreedTwice
  BY DEF DescriptorInv
<1> QED BY <1>1, DescriptorInvariance, PTL

---------------------------------------------------------------------------
(* The rings.                                                              *)

HeadOf(p) == idx[p][1]

\* p's request has been covered by avail->idx.
Published(p) == pc[p] \in {"notify", "check", "sleep_buf", "woken"}

\* ... and the interrupt handler has not cleared b->disk yet.
Waiting(p) == Published(p) /\ b_disk[req[p].b] = 1

\* The device has transferred the block of p's request.
Served(p) == info[HeadOf(p)].status = 0

\* vdisk_lock is held from the allocation of the chain to the first sleep;
\* a buffer serves one call at a time and a block is in one buffer.
CallerInv ==
  /\ \A p \in Procs : pc[p] \in {"ring", "idx", "notify", "check"} <=> vdisk_lock = p
  /\ \A p \in Procs : ~Busy(p) => req[p] = NoReq
  /\ \A p, q \in Procs : Busy(p) /\ Busy(q) /\ req[p].b = req[q].b => p = q
  /\ \A p \in Procs : Busy(p) => /\ b_blockno[req[p].b] \in Blocks
                                 /\ req[p].sector = Sector(b_blockno[req[p].b])
  /\ \A b, c \in Bufs : b_blockno[b] = b_blockno[c] /\ b_blockno[b] # NULL => b = c

\* The three descriptors of p are as Format leaves them.
Formatted(p) ==
  LET h == HeadOf(p)
      j == idx[p][2]
      k == idx[p][3]
      w == req[p].write = 1
  IN  /\ ops[h] = [type |-> IF w THEN "OUT" ELSE "IN", sector |-> req[p].sector]
      /\ desc[h] = [addr |-> <<"op", h>>, flags |-> {"NEXT"}, next |-> j]
      /\ desc[j] = [addr |-> <<"data", req[p].b>>,
                    flags |-> IF w THEN {"NEXT"} ELSE {"WRITE", "NEXT"}, next |-> k]
      /\ desc[k] = [addr |-> <<"status", h>>, flags |-> {"WRITE"}, next |-> 0]
      /\ info[h].b = req[p].b

\* Before avail->idx covers the chain b->disk is set and the status is 255; the
\* handler clears b->disk only of a request that was served.
ChainOf(p) ==
  /\ Formatted(p)
  /\ ~Published(p) => b_disk[req[p].b] = 1 /\ ~Served(p)
  /\ b_disk[req[p].b] = 0 => Served(p)
  /\ Served(p) => b_data[req[p].b] = blocks[b_blockno[req[p].b]]
  /\ pc[p] = "idx" => avail_ring[AvailSlot] = HeadOf(p)

ChainInv == \A p \in Procs : HasChain(p) => ChainOf(p)

\* Where the request with chain head h is.
InAvail(h) == \E at \in Unfetched : avail_ring[at % NUM] = h
InFlight(h) == \E r \in inflight : r.head = h
InUsed(h) == \E at \in Unseen : used_ring[at % NUM] = h

\* A request is in one place while it waits, and the places hold nothing else.
PlaceOf(h) ==
  /\ \A p \in Procs : Waiting(p) /\ HeadOf(p) = h =>
       IF Served(p) THEN InUsed(h) /\ ~InAvail(h) /\ ~InFlight(h)
       ELSE ~InUsed(h) /\ ~(InAvail(h) <=> InFlight(h))
  /\ InAvail(h) \/ InFlight(h) \/ InUsed(h) =>
       \E p \in Procs : Waiting(p) /\ HeadOf(p) = h

PlaceInv == \A h \in Desc : PlaceOf(h)

\* No head is twice in the same place.
OnceInv ==
  /\ \A a, c \in Unfetched : avail_ring[a % NUM] = avail_ring[c % NUM] => a = c
  /\ \A a, c \in Unseen : used_ring[a % NUM] = used_ring[c % NUM] => a = c
  /\ \A r, s \in inflight : r.head = s.head => r = s

\* What the device remembers of a request is what the chain said.
FetchedInv == \A r \in inflight :
  r.op = ops[r.head] /\ r.buf = info[r.head].b /\ r.status = r.head

RingInv == PlaceInv /\ OnceInv /\ FetchedInv

Inv == /\ TypeInv /\ DescriptorInv
       /\ CallerInv /\ ChainInv /\ RingInv /\ NoPanic
---------------------------------------------------------------------------
(* Counters modulo IdxMod, and the slots they select.                      *)

Counter == 0 .. IdxMod - 1

\* A counter plus less than a full turn wraps at most once.
LEMMA WrapOnce ==
  ASSUME NEW m \in Nat, m > 0, NEW x \in 0 .. 2 * m - 1
  PROVE  x % m = IF x < m THEN x ELSE x - m
BY SMT

\* The counters in a window: from `from` up, wrapping, to before `to`.
LEMMA InWindow ==
  ASSUME NEW from \in Counter, NEW to \in Counter, NEW at
  PROVE  at \in Window(from, to) <=>
           /\ at \in Counter
           /\ IF from <= to THEN from <= at /\ at < to ELSE from <= at \/ at < to
<1> DEFINE len == (to + IdxMod - from) % IdxMod
<1>1. IdxMod \in Nat /\ IdxMod > 0
  BY SizeAssumption, SMT
<1>2. len = IF from <= to THEN to - from ELSE to + IdxMod - from
  <2>1. to + IdxMod - from \in 0 .. 2 * IdxMod - 1
    BY <1>1, SMT DEF Counter
  <2> QED BY <1>1, <2>1, WrapOnce, SMT DEF Counter
<1>3. \A n \in 0 .. len - 1 :
        (from + n) % IdxMod = IF from + n < IdxMod THEN from + n ELSE from + n - IdxMod
  <2> SUFFICES ASSUME NEW n \in 0 .. len - 1
               PROVE  (from + n) % IdxMod
                        = IF from + n < IdxMod THEN from + n ELSE from + n - IdxMod
    OBVIOUS
  <2>1. len \in 0 .. IdxMod - 1
    BY <1>1, <1>2, SMT DEF Counter
  <2> HIDE DEF len
  <2>2. from + n \in 0 .. 2 * IdxMod - 1
    BY <1>1, <2>1, SMT DEF Counter
  <2> QED BY <1>1, <2>1, <2>2, WrapOnce, SMT DEF Counter
<1> HIDE DEF len
<1>4. at \in Window(from, to) <=> \E n \in 0 .. len - 1 : at = (from + n) % IdxMod
  BY DEF Window, len
<1>5. ASSUME NEW n \in 0 .. len - 1, at = (from + n) % IdxMod
      PROVE  /\ at \in Counter
             /\ IF from <= to THEN from <= at /\ at < to ELSE from <= at \/ at < to
  BY <1>1, <1>2, <1>3, <1>5, SMT DEF Counter
<1>6. ASSUME at \in Counter,
             IF from <= to THEN from <= at /\ at < to ELSE from <= at \/ at < to
      PROVE  \E n \in 0 .. len - 1 : at = (from + n) % IdxMod
  <2> DEFINE n == IF from <= at THEN at - from ELSE at + IdxMod - from
  <2>1. n \in 0 .. len - 1 /\ at = IF from + n < IdxMod THEN from + n ELSE from + n - IdxMod
    BY <1>1, <1>2, <1>6, SMT DEF Counter
  <2> QED BY <1>3, <2>1
<1> QED BY <1>4, <1>5, <1>6

\* How far `to` is ahead of `from`.
LEMMA AheadValue ==
  ASSUME NEW from \in Counter, NEW to \in Counter
  PROVE  /\ Ahead(from, to) = IF from <= to THEN to - from ELSE to + IdxMod - from
         /\ Ahead(from, to) \in Counter
<1>1. IdxMod \in Nat /\ IdxMod > 0
  BY SizeAssumption, SMT
<1>2. to + IdxMod - from \in 0 .. 2 * IdxMod - 1
  BY <1>1, SMT DEF Counter
<1> QED BY <1>1, <1>2, WrapOnce, SMT DEF Ahead, Counter

\* The successor of a counter.
LEMMA NextValue ==
  ASSUME NEW i \in Counter
  PROVE  /\ NextIdx(i) = IF i = IdxMod - 1 THEN 0 ELSE i + 1
         /\ NextIdx(i) \in Counter
<1>1. IdxMod \in Nat /\ IdxMod > 0 /\ i + 1 \in 0 .. 2 * IdxMod - 1
  BY SizeAssumption, SMT DEF Counter
<1> QED BY <1>1, WrapOnce, SMT DEF NextIdx, Counter

\* Consuming the oldest entry takes it, and nothing else, out of the window.
LEMMA WindowConsume ==
  ASSUME NEW from \in Counter, NEW to \in Counter, from # to
  PROVE  /\ from \in Window(from, to)
         /\ Window(NextIdx(from), to) = Window(from, to) \ {from}
<1>1. from \in Window(from, to)
  BY InWindow, SMT DEF Counter
<1>2. ASSUME NEW at
      PROVE  at \in Window(NextIdx(from), to) <=> at \in Window(from, to) /\ at # from
  <2>1. PICK nx \in Counter : nx = NextIdx(from)
    BY NextValue
  <2>2. nx = IF from = IdxMod - 1 THEN 0 ELSE from + 1
    BY <2>1, NextValue
  <2>3. at \in Window(nx, to) <=>
          /\ at \in Counter
          /\ IF nx <= to THEN nx <= at /\ at < to ELSE nx <= at \/ at < to
    BY InWindow
  <2>4. at \in Window(from, to) <=>
          /\ at \in Counter
          /\ IF from <= to THEN from <= at /\ at < to ELSE from <= at \/ at < to
    BY InWindow
  <2>5. at \in Window(nx, to) <=> at \in Window(from, to) /\ at # from
    BY <2>2, <2>3, <2>4, SizeAssumption, SMT DEF Counter
  <2> QED BY <2>1, <2>5
<1> QED BY <1>1, <1>2

\* Producing an entry adds it, and nothing else, unless the ring runs over.
LEMMA WindowProduce ==
  ASSUME NEW from \in Counter, NEW to \in Counter, Ahead(from, to) + 1 < IdxMod
  PROVE  /\ to \notin Window(from, to)
         /\ Window(from, NextIdx(to)) = Window(from, to) \cup {to}
<1>1. to \notin Window(from, to)
  BY InWindow, SMT DEF Counter
<1>2. ASSUME NEW at
      PROVE  at \in Window(from, NextIdx(to)) <=> at \in Window(from, to) \/ at = to
  <2>1. PICK nx \in Counter : nx = NextIdx(to)
    BY NextValue
  <2>2. nx = IF to = IdxMod - 1 THEN 0 ELSE to + 1
    BY <2>1, NextValue
  <2>3. at \in Window(from, nx) <=>
          /\ at \in Counter
          /\ IF from <= nx THEN from <= at /\ at < nx ELSE from <= at \/ at < nx
    BY InWindow
  <2>4. at \in Window(from, to) <=>
          /\ at \in Counter
          /\ IF from <= to THEN from <= at /\ at < to ELSE from <= at \/ at < to
    BY InWindow
  <2>5. (IF from <= to THEN to - from ELSE to + IdxMod - from) + 1 < IdxMod
    BY AheadValue
  <2>6. at \in Window(from, nx) <=> at \in Window(from, to) \/ at = to
    BY <2>2, <2>3, <2>4, <2>5, SizeAssumption, SMT DEF Counter
  <2> QED BY <2>1, <2>6
<1> QED BY <1>1, <1>2

\* An empty window.
LEMMA WindowEmpty ==
  ASSUME NEW i \in Counter
  PROVE  Window(i, i) = {}
<1>1. \A at : at \notin Window(i, i)
  BY InWindow, SMT DEF Counter
<1> QED BY <1>1

\* No multiple of m lies strictly between 0 and m.
LEMMA NoMultiple ==
  ASSUME NEW m \in Nat, m > 0, NEW e \in Int, NEW d \in 1 .. m - 1
  PROVE  d # m * e
<1>1. CASE e <= 0
  <2>1. m * e <= 0
    BY <1>1, SMT
  <2> QED BY <2>1, SMT
<1>2. CASE e >= 1
  <2>1. m * e >= m
    BY <1>2, SMT
  <2> QED BY <2>1, SMT
<1> QED BY <1>1, <1>2, SMT

\* The remainder is what division leaves, and only that.
LEMMA ModUnique ==
  ASSUME NEW m \in Nat, m > 0, NEW q \in Int, NEW r \in 0 .. m - 1, m * q + r \in Nat
  PROVE  (m * q + r) % m = r
<1> DEFINE a == m * q + r
           s == a % m
           p == a \div m
<1>1. a \in Nat /\ s \in 0 .. m - 1 /\ p \in Int /\ a = m * p + s
  BY SMT
<1>2. r - s = m * (p - q)
  <2>1. m * q + r = m * p + s
    BY <1>1
  <2> HIDE DEF a, s, p
  <2>2. m * (p - q) = m * p - m * q
    BY <1>1, SMT
  <2> DEFINE x == m * p
             y == m * q
  <2>3. x \in Int /\ y \in Int /\ m * (p - q) = x - y /\ y + r = x + s
    BY <1>1, <2>1, <2>2, SMT
  <2> HIDE DEF x, y
  <2> QED BY <1>1, <2>3, SMT
<1>3. s - r = m * (q - p)
  <2>1. m * (q - p) = -(m * (p - q))
    BY <1>1, SMT
  <2> HIDE DEF s, p
  <2> QED BY <1>1, <1>2, <2>1, SMT
<1> HIDE DEF s, p
<1>4. ~(r > s)
  BY <1>1, <1>2, NoMultiple, SMT
<1>5. ~(s > r)
  BY <1>1, <1>3, NoMultiple, SMT
<1> QED BY <1>1, <1>4, <1>5, SMT DEF s

\* Two numbers less than NUM apart select different slots.
LEMMA SlotsApart ==
  ASSUME NEW m \in Nat, m > 0, NEW a \in Nat, NEW d \in 1 .. m - 1
  PROVE  (a + d) % m # a % m
<1> SUFFICES ASSUME (a + d) % m = a % m
             PROVE  FALSE
  OBVIOUS
<1> DEFINE p == a \div m
           q == (a + d) \div m
           s == a % m
<1>1. p \in Int /\ q \in Int /\ s \in Int /\ a = m * p + s /\ a + d = m * q + s
  BY SMT
<1> HIDE DEF p, q, s
<1>2. d = m * q - m * p
  BY <1>1, SMT
<1>3. m * (q - p) = m * q - m * p
  BY <1>1, SMT
<1>4. q - p \in Int /\ d = m * (q - p)
  BY <1>1, <1>2, <1>3, SMT
<1> QED BY <1>4, NoMultiple

\* A full turn of a counter leads to the same slot.
LEMMA SlotsTurn ==
  ASSUME NEW a \in Nat
  PROVE  (a + IdxMod) % NUM = a % NUM
<1>1. NUM \in Nat /\ NUM > 0 /\ IdxMod \in Nat /\ IdxMod % NUM = 0
  BY SizeAssumption, SMT
<1> DEFINE k == IdxMod \div NUM
           p == a \div NUM
           s == a % NUM
<1>2. k \in Int /\ IdxMod = NUM * k
  BY <1>1, SMT
<1>3. p \in Int /\ s \in 0 .. NUM - 1 /\ a = NUM * p + s
  BY <1>1, SMT
<1> HIDE DEF k, p, s
<1>4. a + IdxMod = NUM * (p + k) + s
  BY <1>1, <1>2, <1>3, SMT
<1>5. (NUM * (p + k) + s) % NUM = s
  BY <1>1, <1>2, <1>3, <1>4, ModUnique, SMT
<1> QED BY <1>4, <1>5 DEF s

\* Different counters of a window that is at most NUM long select different
\* slots.
LEMMA SlotsDistinct ==
  ASSUME NEW from \in Counter, NEW to \in Counter, Ahead(from, to) <= NUM,
         NEW a \in Window(from, to), NEW c \in Window(from, to), a # c
  PROVE  a % NUM # c % NUM
<1> SUFFICES ASSUME NEW x \in Window(from, to), NEW y \in Window(from, to), x < y
             PROVE  x % NUM # y % NUM
  BY InWindow, SMT DEF Counter
<1>1. NUM \in Nat /\ NUM > 0 /\ IdxMod \in Nat /\ IdxMod > 0
  BY SizeAssumption, SMT
<1>2. x \in Nat /\ y \in Nat
  BY InWindow, <1>1, SMT DEF Counter
<1>3. y - x < NUM \/ (x + IdxMod - y < NUM /\ x + IdxMod - y > 0)
  <2>1. x \in Counter /\ IF from <= to THEN from <= x /\ x < to ELSE from <= x \/ x < to
    BY InWindow
  <2>2. y \in Counter /\ IF from <= to THEN from <= y /\ y < to ELSE from <= y \/ y < to
    BY InWindow
  <2>3. (IF from <= to THEN to - from ELSE to + IdxMod - from) <= NUM
    BY AheadValue
  <2> QED BY <1>1, <2>1, <2>2, <2>3, SMT DEF Counter
<1>4. CASE y - x < NUM
  <2>1. y - x \in 1 .. NUM - 1 /\ y = x + (y - x)
    BY <1>1, <1>2, <1>4, SMT
  <2>2. (x + (y - x)) % NUM # x % NUM
    BY <1>1, <1>2, <2>1, SlotsApart
  <2> QED BY <2>1, <2>2
<1>5. CASE x + IdxMod - y < NUM /\ x + IdxMod - y > 0
  <2> DEFINE d == x + IdxMod - y
  <2>1. d \in 1 .. NUM - 1 /\ x + IdxMod = y + d
    BY <1>1, <1>2, <1>5, SMT
  <2> HIDE DEF d
  <2>2. (y + d) % NUM # y % NUM
    BY <1>1, <1>2, <2>1, SlotsApart
  <2>3. (x + IdxMod) % NUM = x % NUM
    BY <1>2, SlotsTurn
  <2> QED BY <2>1, <2>2, <2>3
<1> QED BY <1>3, <1>4, <1>5

INSTANCE FiniteSetTheorems

\* A ring whose window holds distinct heads other than h has room for h: a
\* head is followed by two more descriptors of its chain, so there are fewer
\* heads than slots.
LEMMA Room ==
  ASSUME NEW from \in Counter, NEW to \in Counter, NEW ring \in [Desc -> Desc],
         NEW h \in 0 .. NUM - 3,
         \A a, c \in Window(from, to) : ring[a % NUM] = ring[c % NUM] => a = c,
         \A a \in Window(from, to) : ring[a % NUM] \in 0 .. NUM - 3 /\ ring[a % NUM] # h
  PROVE  /\ to \notin Window(from, to)
         /\ Window(from, NextIdx(to)) = Window(from, to) \cup {to}
         /\ \A a \in Window(from, to) : a % NUM # to % NUM
<1> DEFINE len == Ahead(from, to)
           at(n) == (from + n) % IdxMod
           f == [n \in 0 .. len |-> IF n = len THEN h ELSE ring[at(n) % NUM]]
<1>1. NUM \in Nat /\ NUM >= 3 /\ IdxMod \in Nat /\ IdxMod >= NUM /\ len \in Counter
  BY SizeAssumption, AheadValue
<1>2. \A n \in 0 .. len - 1 : at(n) \in Window(from, to)
  BY DEF Window, Ahead
<1>3. \A m, n \in 0 .. len - 1 : at(m) = at(n) => m = n
  <2> SUFFICES ASSUME NEW m \in 0 .. len - 1, NEW n \in 0 .. len - 1, at(m) = at(n)
               PROVE  m = n
    OBVIOUS
  <2> HIDE DEF len
  <2>1. from + m \in 0 .. 2 * IdxMod - 1 /\ from + n \in 0 .. 2 * IdxMod - 1
    BY <1>1, SMT DEF Counter
  <2>2. at(m) = IF from + m < IdxMod THEN from + m ELSE from + m - IdxMod
    BY <1>1, <2>1, WrapOnce, SMT DEF Counter
  <2>3. at(n) = IF from + n < IdxMod THEN from + n ELSE from + n - IdxMod
    BY <1>1, <2>1, WrapOnce, SMT DEF Counter
  <2>4. /\ from \in 0 .. IdxMod - 1 /\ IdxMod \in Nat
        /\ m \in 0 .. IdxMod - 1 /\ n \in 0 .. IdxMod - 1
    BY <1>1, SMT DEF Counter
  <2>5. (IF from + m < IdxMod THEN from + m ELSE from + m - IdxMod)
          = (IF from + n < IdxMod THEN from + n ELSE from + n - IdxMod)
    BY <2>2, <2>3
  <2> QED BY <2>4, <2>5, SMT
<1> HIDE DEF at, len
<1>4. f \in [0 .. len -> 0 .. NUM - 3]
  BY <1>1, <1>2, SMT DEF Counter
<1>5. \A m, n \in 0 .. len : f[m] = f[n] => m = n
  BY <1>1, <1>2, <1>3, SMT DEF Counter
<1> HIDE DEF f
<1>6. /\ IsFiniteSet(0 .. len) /\ Cardinality(0 .. len) = len + 1
      /\ IsFiniteSet(0 .. NUM - 3) /\ Cardinality(0 .. NUM - 3) = NUM - 2
  <2>1. /\ 0 \in Int /\ len \in Int /\ NUM - 3 \in Int
        /\ ~(0 > len) /\ ~(0 > NUM - 3)
    BY <1>1, SMT DEF Counter
  <2>2. /\ IsFiniteSet(0 .. len) /\ Cardinality(0 .. len) = len - 0 + 1
        /\ IsFiniteSet(0 .. NUM - 3) /\ Cardinality(0 .. NUM - 3) = (NUM - 3) - 0 + 1
    BY <2>1, FS_Interval
  <2> QED BY <1>1, <2>1, <2>2, SMT
<1>7. ~(Cardinality(0 .. NUM - 3) < Cardinality(0 .. len))
  <2> DEFINE S == 0 .. len
             T == 0 .. NUM - 3
  <2> HIDE DEF S, T
  <2>1. IsFiniteSet(S) /\ IsFiniteSet(T) /\ f \in [S -> T]
    BY <1>4, <1>6 DEF S, T
  <2>2. Cardinality(T) < Cardinality(S) => \E x, y \in S : x # y /\ f[x] = f[y]
    BY <2>1, FS_PigeonHole, SMT
  <2> QED BY <1>5, <2>2 DEF S, T
<1>8. len + 1 <= NUM - 2
  BY <1>1, <1>6, <1>7, SMTT(30) DEF Counter
<1>9. /\ to \notin Window(from, to)
      /\ Window(from, NextIdx(to)) = Window(from, to) \cup {to}
  BY <1>1, <1>8, WindowProduce, SMT DEF len, Counter
<1>10. Ahead(from, NextIdx(to)) <= NUM /\ NextIdx(to) \in Counter
  <2>1. PICK nx \in Counter : nx = NextIdx(to)
    BY NextValue
  <2>2. nx = IF to = IdxMod - 1 THEN 0 ELSE to + 1
    BY <2>1, NextValue
  <2>3. Ahead(from, nx) = IF from <= nx THEN nx - from ELSE nx + IdxMod - from
    BY AheadValue
  <2>4. len = IF from <= to THEN to - from ELSE to + IdxMod - from
    BY AheadValue DEF len
  <2>5. Ahead(from, nx) <= NUM
    BY <1>1, <1>8, <2>2, <2>3, <2>4, SMTT(30) DEF Counter
  <2> QED BY <2>1, <2>5
<1>11. \A a \in Window(from, to) : a % NUM # to % NUM
  BY <1>9, <1>10, SlotsDistinct
<1> QED BY <1>9, <1>11

---------------------------------------------------------------------------
(* CallerInv.                                                              *)

\* Nobody has called virtio_disk_rw at first.
LEMMA CallerInit == Init => CallerInv
<1> SUFFICES ASSUME Init PROVE CallerInv
  OBVIOUS
<1>1. \A p \in Procs : p # NULL
  BY NullAssumption
<1> QED BY <1>1 DEF Init, CallerInv, Busy, NoReq

\* A step that takes or releases vdisk_lock as the program point says, and
\* leaves the calls alone.
LEMMA CallerFrame ==
  ASSUME CallerInv, UNCHANGED <<req, b_blockno>>,
         \A q \in Procs : Busy(q)' <=> Busy(q),
         \A q \in Procs : pc'[q] \in {"ring", "idx", "notify", "check"} <=> vdisk_lock' = q
  PROVE  CallerInv'
BY DEF CallerInv

\* A call takes a buffer that no other call has.
LEMMA CallerCall ==
  ASSUME TypeInv, CallerInv, NEW p \in Procs, Call(p)
  PROVE  CallerInv'
<1>1. PICK b \in Bufs, blk \in Blocks, w \in {0, 1} :
        /\ ~Busy(p) /\ ~LockedByOther(p, b)
        /\ Enter(p, b, w, blk)
        /\ \A c \in Bufs \ {b} : b_blockno[c] # blk
        /\ b_blockno' = [b_blockno EXCEPT ![b] = blk]
        /\ vdisk_lock' = vdisk_lock
  <2>1. ASSUME NEW b \in Bufs, NEW d \in Data, CallWrite(p, b, d)
        PROVE  /\ b_blockno[b] \in Blocks
               /\ \A c \in Bufs \ {b} : b_blockno[c] # b_blockno[b]
               /\ b_blockno' = [b_blockno EXCEPT ![b] = b_blockno[b]]
               /\ Enter(p, b, 1, b_blockno[b])
               /\ ~Busy(p) /\ ~LockedByOther(p, b) /\ vdisk_lock' = vdisk_lock
    BY <2>1, ZenonT(30) DEF CallWrite, CallerInv, TypeInv, TypeOK
  <2>2. ASSUME NEW b \in Bufs, NEW blk \in Blocks, CallRead(p, b, blk)
        PROVE  /\ \A c \in Bufs \ {b} : b_blockno[c] # blk
               /\ b_blockno' = [b_blockno EXCEPT ![b] = blk]
               /\ Enter(p, b, 0, blk)
               /\ ~Busy(p) /\ ~LockedByOther(p, b) /\ vdisk_lock' = vdisk_lock
    BY <2>2 DEF CallRead
  <2> QED BY <2>1, <2>2 DEF Call
<1>2. /\ pc'[p] = "enter" /\ req'[p] = [b |-> b, write |-> w, sector |-> Sector(blk)]
      /\ \A q \in Procs \ {p} : pc'[q] = pc[q] /\ req'[q] = req[q]
      /\ b_blockno'[b] = blk
      /\ \A c \in Bufs \ {b} : b_blockno'[c] = b_blockno[c]
  BY <1>1, ZenonT(30) DEF Enter, TypeInv, TypeOK
<1>3. \A q \in Procs \ {p} : Busy(q) => req[q].b # b /\ req[q].b \in Bufs
  BY <1>1 DEF LockedByOther, TypeInv, BusyHasBuffer
<1>4. Busy(p)' /\ pc[p] = "idle" /\ \A q \in Procs \ {p} : Busy(q)' <=> Busy(q)
  BY <1>1, <1>2 DEF Busy
<1>5. \A q \in Procs : pc'[q] \in {"ring", "idx", "notify", "check"} <=> vdisk_lock' = q
  BY <1>1, <1>2, <1>4 DEF CallerInv
<1>6. \A q \in Procs : ~Busy(q)' => req'[q] = NoReq
  BY <1>2, <1>4 DEF CallerInv
<1>7. req'[p].b = b
  BY <1>2, SMT
<1>8. \A q, r \in Procs : Busy(q)' /\ Busy(r)' /\ req'[q].b = req'[r].b => q = r
  BY <1>2, <1>3, <1>4, <1>7, SMT DEF CallerInv
<1>9. \A q \in Procs : Busy(q)' => /\ b_blockno'[req'[q].b] \in Blocks
                                   /\ req'[q].sector = Sector(b_blockno'[req'[q].b])
  BY <1>2, <1>3, <1>4, <1>7, SMT DEF CallerInv
<1>10. \A c, d \in Bufs : b_blockno'[c] = b_blockno'[d] /\ b_blockno'[c] # NULL => c = d
  BY <1>1, <1>2, SMT DEF CallerInv
<1> QED BY <1>5, <1>6, <1>8, <1>9, <1>10 DEF CallerInv

\* Finish returns: the call is over.
LEMMA CallerFinish ==
  ASSUME TypeInv, CallerInv, NEW p \in Procs, Finish(p)
  PROVE  CallerInv'
<1>1. /\ pc[p] = "check" /\ vdisk_lock' = NULL /\ b_blockno' = b_blockno
      /\ pc'[p] = "idle" /\ req'[p] = NoReq
      /\ \A q \in Procs \ {p} : req'[q] = req[q]
      /\ \A q \in Procs \ {p} : \/ pc'[q] = pc[q]
                                \/ pc'[q] = "enter" /\ pc[q] = "sleep_free"
  BY WakeFreeTypes, SMTT(30) DEF Finish, bufVars, TypeInv, TypeOK
<1>2. NULL \notin Procs /\ vdisk_lock = p
  BY <1>1, NullAssumption DEF CallerInv
<1>3. ~Busy(p)' /\ \A q \in Procs \ {p} : Busy(q)' <=> Busy(q)
  BY <1>1 DEF Busy
<1>4. \A q \in Procs : pc'[q] \in {"ring", "idx", "notify", "check"} <=> vdisk_lock' = q
  BY <1>1, <1>2 DEF CallerInv
<1> QED BY <1>1, <1>3, <1>4, ZenonT(30) DEF CallerInv

\* Every step preserves CallerInv.
LEMMA CallerStep ==
  ASSUME TypeInv, CallerInv, [Next]_vars
  PROVE  CallerInv'
<1> DEFINE Framed ==
      /\ UNCHANGED <<req, b_blockno>>
      /\ \A q \in Procs : Busy(q)' <=> Busy(q)
      /\ \A q \in Procs : pc'[q] \in {"ring", "idx", "notify", "check"} <=> vdisk_lock' = q
<1> SUFFICES Framed \/ \E p \in Procs : Call(p) \/ Finish(p)
  BY CallerFrame, CallerCall, CallerFinish
<1>0. /\ pc \in [Procs -> PcValues] /\ NULL \notin Procs /\ INTR \notin Procs
      /\ \A p \in Procs : pc[p] \in {"ring", "idx", "notify", "check"} <=> vdisk_lock = p
  BY NullAssumption DEF CallerInv, TypeInv, TypeOK
<1> USE DEF Busy
<1>1. ASSUME NEW p \in Procs, Start(p) PROVE Framed
  BY <1>0, <1>1 DEF Start
<1>2. ASSUME NEW p \in Procs, StartSleep(p) PROVE Framed
  <2>1. PICK f \in {pc, WakeFree(pc)} : pc' = [f EXCEPT ![p] = "sleep_free"]
    BY <1>2 DEF StartSleep
  <2>2. /\ f \in [Procs -> PcValues]
        /\ \A q \in Procs : f[q] = pc[q] \/ (f[q] = "enter" /\ pc[q] = "sleep_free")
    <3>1. CASE f = pc
      BY <1>0, <3>1
    <3>2. CASE f = WakeFree(pc)
      BY <1>0, <3>2, WakeFreeTypes
    <3> QED BY <3>1, <3>2
  <2>3. pc[p] = "enter" /\ UNCHANGED <<req, b_blockno, vdisk_lock>>
    BY <1>2 DEF StartSleep, bufVars
  <2> QED BY <1>0, <2>1, <2>2, <2>3
<1>3. ASSUME NEW p \in Procs, PublishSlot(p) \/ PublishIdx(p) \/ Notify(p) PROVE Framed
  BY <1>0, <1>3 DEF PublishSlot, PublishIdx, Notify, bufVars
<1>4. ASSUME NEW p \in Procs, Wait(p) PROVE Framed
  BY <1>0, <1>4 DEF Wait, bufVars
<1>5. ASSUME NEW p \in Procs, Reacquire(p) PROVE Framed
  BY <1>0, <1>5 DEF Reacquire, bufVars
<1>6. ASSUME NEW p \in Procs, Kill(p) PROVE Framed
  BY <1>0, <1>6 DEF Kill, bufVars
<1>7. CASE Device
  BY <1>0, <1>7 DEF Device, DevFetch, DevRest, DevComplete, procVars, bufVars
<1>8. CASE IntrEnter \/ IntrExit
  BY <1>0, <1>8 DEF IntrEnter, IntrExit, procVars, bufVars
<1>9. CASE IntrNext
  <2>1. pc' = pc \/ \E b : pc' = WakeBuf(pc, b)
    BY <1>9 DEF IntrNext
  <2>2. \A q \in Procs : pc'[q] = pc[q] \/ (pc'[q] = "woken" /\ pc[q] = "sleep_buf")
    BY <2>1 DEF WakeBuf
  <2>3. UNCHANGED <<req, b_blockno, vdisk_lock>>
    BY <1>9 DEF IntrNext
  <2> QED BY <1>0, <2>2, <2>3
<1>10. CASE UNCHANGED vars
  BY <1>0, <1>10 DEF vars, procVars, bufVars
<1> QED BY <1>1, <1>2, <1>3, <1>4, <1>5, <1>6, <1>7, <1>8, <1>9, <1>10 DEF Next, rw, Intr

---------------------------------------------------------------------------
(* ChainInv.                                                               *)

\* The chains of two calls are apart, and a head is not among the last two
\* descriptors.
LEMMA Heads ==
  ASSUME TypeInv, DescriptorInv
  PROVE  /\ \A p \in Procs : HasChain(p) =>
              /\ HeadOf(p) \in Desc /\ HeadOf(p) \in 0 .. NUM - 3
              /\ idx[p][2] \in Desc /\ idx[p][3] \in Desc
              /\ HeadOf(p) # idx[p][2] /\ HeadOf(p) # idx[p][3] /\ idx[p][2] # idx[p][3]
              /\ req[p].b \in Bufs
         /\ \A p, q \in Procs : HasChain(p) /\ HasChain(q) /\ p # q =>
              Mine(p) \cap Mine(q) = {} /\ HeadOf(p) # HeadOf(q)
         /\ \A p \in Procs : HasChain(p) => Mine(p) \cap free = {}
<1>1. ASSUME NEW p \in Procs, HasChain(p)
      PROVE  /\ idx[p][1] \in Desc /\ idx[p][2] \in Desc /\ idx[p][3] \in Desc
             /\ idx[p][1] < idx[p][2] /\ idx[p][2] < idx[p][3]
             /\ req[p].b \in Bufs
             /\ Mine(p) \cap free = {}
  BY <1>1, SMT DEF DescriptorInv, DescriptorsAccounted, TypeInv, TypeOK, BusyHasBuffer, Busy,
     HasChain, Mine
<1>2. ASSUME NEW p \in Procs, NEW q \in Procs, HasChain(p), HasChain(q), p # q
      PROVE  Mine(p) \cap Mine(q) = {} /\ HeadOf(p) # HeadOf(q)
  BY <1>2 DEF DescriptorInv, DescriptorsAccounted, Mine, HeadOf
<1>3. ASSUME NEW p \in Procs, HasChain(p)
      PROVE  /\ HeadOf(p) \in Desc /\ HeadOf(p) \in 0 .. NUM - 3
             /\ HeadOf(p) # idx[p][2] /\ HeadOf(p) # idx[p][3] /\ idx[p][2] # idx[p][3]
  BY <1>1, <1>3, SizeAssumption, SMT DEF Desc, HeadOf
<1> QED BY <1>1, <1>2, <1>3

\* Assigning one field of an info[] slot leaves the other field, and the other
\* slots, alone.
LEMMA InfoFields ==
  ASSUME NEW f \in [Desc -> [b : Bufs \cup {NULL}, status : {0, 255}]], NEW i \in Desc
  PROVE  /\ \A m \in Desc \ {i} : /\ [f EXCEPT ![i].b = NULL][m] = f[m]
                                  /\ [f EXCEPT ![i].status = 0][m] = f[m]
         /\ [f EXCEPT ![i].status = 0][i].status = 0
         /\ [f EXCEPT ![i].status = 0][i].b = f[i].b
<1>1. PICK x, y : x = [f[i] EXCEPT !.b = NULL] /\ y = [f[i] EXCEPT !.status = 0]
  OBVIOUS
<1>2. f[i] \in [b : Bufs \cup {NULL}, status : {0, 255}]
  BY SMT
<1>3. y.status = 0 /\ y.b = f[i].b
  BY <1>1, <1>2
<1>4. /\ [f EXCEPT ![i].b = NULL] = [f EXCEPT ![i] = x]
      /\ [f EXCEPT ![i].status = 0] = [f EXCEPT ![i] = y]
  BY <1>1
<1> QED BY <1>3, <1>4, ZenonT(30)

\* A chain nobody touches stays formatted.
LEMMA FormattedKept ==
  ASSUME NEW p \in Procs, Formatted(p), idx'[p] = idx[p], req'[p] = req[p],
         \A m \in Mine(p) : desc'[m] = desc[m],
         ops'[HeadOf(p)] = ops[HeadOf(p)], info'[HeadOf(p)].b = info[HeadOf(p)].b
  PROVE  Formatted(p)'
BY DEF Formatted, HeadOf, Mine

\* A step that leaves a chain, its buffer and its status alone.
LEMMA ChainKept ==
  ASSUME NEW p \in Procs, ChainOf(p), idx'[p] = idx[p], req'[p] = req[p],
         \A m \in Mine(p) : desc'[m] = desc[m],
         ops'[HeadOf(p)] = ops[HeadOf(p)], info'[HeadOf(p)] = info[HeadOf(p)],
         b_disk'[req[p].b] = b_disk[req[p].b],
         Served(p) => b_data'[req[p].b] = blocks'[b_blockno'[req[p].b]],
         Published(p)' <=> Published(p),
         pc'[p] = "idx" => pc[p] = "idx" /\ UNCHANGED <<avail_ring, avail_idx>>
  PROVE  ChainOf(p)'
<1>1. Formatted(p)'
  BY FormattedKept DEF ChainOf
<1>2. HeadOf(p)' = HeadOf(p) /\ (Served(p)' <=> Served(p))
  BY DEF HeadOf, Served
<1>3. pc'[p] = "idx" => (avail_ring[AvailSlot])' = HeadOf(p)'
  BY <1>2 DEF ChainOf, AvailSlot
<1> QED BY <1>1, <1>2, <1>3 DEF ChainOf

\* No chains at first.
LEMMA ChainInit == Init => ChainInv
BY DEF Init, ChainInv, HasChain

\* A step that moves processes between program points, and the device's steps
\* other than a transfer, leave all chains alone.
LEMMA ChainFrame ==
  ASSUME ChainInv, UNCHANGED <<idx, req, desc, ops, info, bufVars, blocks>>,
         \A p \in Procs : HasChain(p)' <=> HasChain(p),
         \A p \in Procs : HasChain(p) => (Published(p)' <=> Published(p)),
         \A p \in Procs : pc'[p] = "idx" =>
           pc[p] = "idx" /\ UNCHANGED <<avail_ring, avail_idx>>
  PROVE  ChainInv'
<1> SUFFICES ASSUME NEW p \in Procs, HasChain(p)' PROVE ChainOf(p)'
  BY DEF ChainInv
<1>1. HasChain(p) /\ ChainOf(p)
  BY DEF ChainInv
<1>2. Served(p) => b_data'[req[p].b] = blocks'[b_blockno'[req[p].b]]
  BY <1>1 DEF ChainOf, bufVars
<1> QED BY <1>1, <1>2, ChainKept DEF bufVars

\* A call changes only the buffer it is about.
LEMMA ChainCall ==
  ASSUME TypeInv, DescriptorInv, ChainInv, NEW p \in Procs, Call(p)
  PROVE  ChainInv'
<1> SUFFICES ASSUME NEW q \in Procs, HasChain(q)' PROVE ChainOf(q)'
  BY DEF ChainInv
<1>1. PICK b \in Bufs :
        /\ ~Busy(p) /\ ~LockedByOther(p, b)
        /\ pc' = [pc EXCEPT ![p] = "enter"]
        /\ \A r \in Procs \ {p} : req'[r] = req[r]
        /\ \A c \in Bufs \ {b} : b_blockno'[c] = b_blockno[c] /\ b_data'[c] = b_data[c]
        /\ UNCHANGED <<idx, desc, ops, info, b_disk, blocks, avail_ring, avail_idx>>
  BY DEF Call, CallRead, CallWrite, Enter, diskVars, ringVars, devVars, TypeInv, TypeOK
<1>2. q # p /\ HasChain(q) /\ pc'[q] = pc[q] /\ Busy(q)
  BY <1>1 DEF HasChain, Busy, TypeInv, TypeOK
<1>3. ChainOf(q) /\ req[q].b \in Bufs \ {b}
  BY <1>1, <1>2, Heads DEF ChainInv, LockedByOther
<1>4. Served(q) => b_data'[req[q].b] = blocks'[b_blockno'[req[q].b]]
  BY <1>1, <1>3 DEF ChainOf
<1>5. Published(q)' <=> Published(q)
  BY <1>2 DEF Published
<1> QED BY <1>1, <1>2, <1>3, <1>4, <1>5, ChainKept

\* Start formats a chain that no other request has.
LEMMA ChainStart ==
  ASSUME TypeInv, DescriptorInv, CallerInv, ChainInv, NEW p \in Procs, Start(p)
  PROVE  ChainInv'
<1> SUFFICES ASSUME NEW q \in Procs, HasChain(q)' PROVE ChainOf(q)'
  BY DEF ChainInv
<1>1. PICK i, j, k \in Desc :
        /\ alloc3_desc(i, j, k)
        /\ idx' = [idx EXCEPT ![p] = <<i, j, k>>]
        /\ Format(i, j, k, req[p])
  BY DEF Start
<1>2. /\ i \in free /\ j \in free /\ k \in free
      /\ i # j /\ j # k /\ i # k
  BY <1>1, SMT DEF alloc3_desc, Desc
<1>3. /\ pc[p] = "enter" /\ pc'[p] = "ring" /\ \A r \in Procs \ {p} : pc'[r] = pc[r]
      /\ Busy(p) /\ req[p].b \in Bufs
      /\ UNCHANGED <<req, avail_ring, avail_idx, b_blockno, b_data, blocks>>
  BY ZenonT(30) DEF Start, ringVars, devVars, Busy, TypeInv, TypeOK, BusyHasBuffer
<1>4. /\ idx'[p] = <<i, j, k>> /\ \A r \in Procs \ {p} : idx'[r] = idx[r]
      /\ ops'[i] = [type |-> IF req[p].write = 1 THEN "OUT" ELSE "IN", sector |-> req[p].sector]
      /\ desc'[i] = [addr |-> <<"op", i>>, flags |-> {"NEXT"}, next |-> j]
      /\ desc'[j] = [addr |-> <<"data", req[p].b>>,
                     flags |-> IF req[p].write = 1 THEN {"NEXT"} ELSE {"WRITE", "NEXT"},
                     next |-> k]
      /\ desc'[k] = [addr |-> <<"status", i>>, flags |-> {"WRITE"}, next |-> 0]
      /\ info'[i] = [b |-> req[p].b, status |-> 255]
      /\ b_disk'[req[p].b] = 1
      /\ \A m \in Desc \ {i, j, k} :
           desc'[m] = desc[m] /\ ops'[m] = ops[m] /\ info'[m] = info[m]
      /\ \A b \in Bufs \ {req[p].b} : b_disk'[b] = b_disk[b]
  BY <1>1, <1>2, <1>3, ZenonT(30) DEF Format, TypeInv, TypeOK
<1>5. CASE q = p
  <2>1. Formatted(p)'
    BY <1>3, <1>4, SMTT(30) DEF Formatted, HeadOf
  <2>2. ~Served(p)' /\ b_disk'[req'[p].b] = 1 /\ pc'[p] # "idx"
    BY <1>3, <1>4, SMT DEF Served, HeadOf
  <2> QED BY <1>5, <2>1, <2>2, SMT DEF ChainOf
<1>6. CASE q # p
  <2>1. HasChain(q) /\ Busy(q) /\ ChainOf(q) /\ (Published(q)' <=> Published(q))
    BY <1>3, <1>6 DEF HasChain, Busy, ChainInv, Published
  <2>2. /\ \A m \in Mine(q) : m \in Desc \ {i, j, k}
        /\ HeadOf(q) \in Mine(q) /\ req[q].b \in Bufs
    BY <1>2, <2>1, Heads DEF Mine, HeadOf
  <2>3. req[q].b # req[p].b
    BY <1>3, <1>6, <2>1 DEF CallerInv
  <2>4. Served(q) => b_data'[req[q].b] = blocks'[b_blockno'[req[q].b]]
    BY <1>3, <2>1 DEF ChainOf
  <2>5. /\ idx'[q] = idx[q] /\ req'[q] = req[q] /\ pc'[q] = pc[q]
        /\ \A m \in Mine(q) : desc'[m] = desc[m]
        /\ ops'[HeadOf(q)] = ops[HeadOf(q)] /\ info'[HeadOf(q)] = info[HeadOf(q)]
        /\ b_disk'[req[q].b] = b_disk[req[q].b]
    BY <1>3, <1>4, <1>6, <2>2, <2>3, ZenonT(30)
  <2> QED BY <1>3, <2>1, <2>4, <2>5, ChainKept
<1> QED BY <1>5, <1>6

\* PublishSlot writes the head into the slot that avail->idx will cover.
LEMMA ChainPublish ==
  ASSUME TypeInv, CallerInv, ChainInv, NEW p \in Procs, PublishSlot(p) \/ PublishIdx(p)
  PROVE  ChainInv'
<1> SUFFICES ASSUME NEW q \in Procs, HasChain(q)' PROVE ChainOf(q)'
  BY DEF ChainInv
<1>1. /\ UNCHANGED <<idx, req, desc, ops, info, b_disk, b_data, b_blockno, blocks>>
      /\ vdisk_lock = p
      /\ \A r \in Procs \ {p} : pc'[r] = pc[r] /\ pc[r] # "idx"
  BY SMT DEF PublishSlot, PublishIdx, diskVars, bufVars, devVars, TypeInv, TypeOK, CallerInv
<1>2. CASE q # p
  <2>1. HasChain(q) /\ ChainOf(q) /\ (Published(q)' <=> Published(q)) /\ pc'[q] # "idx"
    BY <1>1, <1>2 DEF HasChain, ChainInv, Published
  <2>2. Served(q) => b_data'[req[q].b] = blocks'[b_blockno'[req[q].b]]
    BY <1>1, <2>1 DEF ChainOf
  <2> QED BY <1>1, <2>1, <2>2, ChainKept
<1>3. CASE q = p
  <2>1. HasChain(p) /\ ChainOf(p) /\ ~Published(p)
    BY DEF PublishSlot, PublishIdx, HasChain, Published, ChainInv
  <2>2. Formatted(p)'
    BY <1>1, <2>1, FormattedKept DEF ChainOf
  <2>3. /\ Served(p)' <=> Served(p)
        /\ HeadOf(p)' = HeadOf(p) /\ HeadOf(p) = idx[p][1]
    BY <1>1 DEF Served, HeadOf
  <2>4. ~Served(p) /\ b_disk'[req'[p].b] = 1
    BY <1>1, <2>1 DEF ChainOf
  <2>5. pc'[p] = "idx" => (avail_ring[AvailSlot])' = HeadOf(p)'
    <3>1. AvailSlot \in Desc
      BY CounterTypes DEF AvailSlot, TypeInv, TypeOK
    <3>2. pc'[p] = "idx" => PublishSlot(p)
      BY SMT DEF PublishIdx, TypeInv, TypeOK
    <3>3. PublishSlot(p) => avail_ring'[AvailSlot] = idx[p][1] /\ avail_idx' = avail_idx
      BY <3>1, ZenonT(30) DEF PublishSlot, TypeInv, TypeOK
    <3> QED BY <2>3, <3>2, <3>3 DEF AvailSlot
  <2> QED BY <1>3, <2>2, <2>3, <2>4, <2>5, SMTT(30) DEF ChainOf
<1> QED BY <1>2, <1>3

\* Finish frees one chain and leaves the others alone.
LEMMA ChainFinish ==
  ASSUME TypeInv, DescriptorInv, CallerInv, ChainInv, NEW p \in Procs, Finish(p)
  PROVE  ChainInv'
<1> SUFFICES ASSUME NEW q \in Procs, HasChain(q)' PROVE ChainOf(q)'
  BY DEF ChainInv
<1>1. HasChain(p) /\ Chain(idx[p][1]) = Mine(p)
  <2>1. HasChain(p)
    BY DEF Finish, HasChain
  <2> QED BY <2>1 DEF Chain, ChainLinked, Mine, DescriptorInv
<1>2. /\ desc' = [m \in Desc |-> IF m \in Mine(p) THEN NoDesc ELSE desc[m]]
      /\ \A m \in Desc \ {HeadOf(p)} : info'[m] = info[m]
      /\ UNCHANGED <<ops, avail_ring, avail_idx, b_disk, b_data, b_blockno, blocks>>
  <2>1. info' = [info EXCEPT ![HeadOf(p)].b = NULL] /\ HeadOf(p) \in Desc
    BY <1>1, Heads DEF Finish, HeadOf
  <2>2. \A m \in Desc \ {HeadOf(p)} : info'[m] = info[m]
    BY <2>1, InfoFields, SMT DEF TypeInv, TypeOK
  <2> QED BY <1>1, <2>2 DEF Finish, free_chain, ringVars, bufVars, devVars
<1>3. /\ q # p /\ idx'[q] = idx[q] /\ req'[q] = req[q]
      /\ pc'[q] = pc[q]
  BY DEF Finish, HasChain, WakeFree, TypeInv, TypeOK
<1>4. HasChain(q) /\ ChainOf(q) /\ (Published(q)' <=> Published(q))
  BY <1>3 DEF HasChain, ChainInv, Published
<1>5. /\ \A m \in Mine(q) : m \in Desc \ Mine(p)
      /\ HeadOf(q) \in Mine(q) /\ HeadOf(p) \in Mine(p)
  BY <1>1, <1>3, <1>4, Heads DEF Mine, HeadOf
<1>6. /\ \A m \in Mine(q) : desc'[m] = desc[m]
      /\ ops'[HeadOf(q)] = ops[HeadOf(q)] /\ info'[HeadOf(q)] = info[HeadOf(q)]
      /\ b_disk'[req[q].b] = b_disk[req[q].b]
  BY <1>2, <1>5
<1>7. Served(q) => b_data'[req[q].b] = blocks'[b_blockno'[req[q].b]]
  BY <1>2, <1>4 DEF ChainOf
<1> QED BY <1>2, <1>3, <1>4, <1>6, <1>7, ChainKept

\* The request in flight and the call it belongs to.
LEMMA Owner ==
  ASSUME Inv, NEW r \in inflight
  PROVE  \E p \in Procs :
           /\ Waiting(p) /\ HasChain(p) /\ ~Served(p) /\ HeadOf(p) = r.head
           /\ r.status = r.head /\ r.buf = req[p].b
           /\ r.op = [type |-> IF req[p].write = 1 THEN "OUT" ELSE "IN",
                      sector |-> req[p].sector]
           /\ req[p].b \in Bufs /\ b_blockno[req[p].b] \in Blocks
           /\ r.op.sector \div SectorsPerBlock = b_blockno[req[p].b]
<1>1. r.head \in Desc /\ InFlight(r.head)
  BY DEF Inv, TypeInv, TypeOK, InFlight
<1>2. PICK p \in Procs : Waiting(p) /\ HeadOf(p) = r.head
  BY <1>1 DEF Inv, RingInv, PlaceInv, PlaceOf
<1>3. HasChain(p) /\ Busy(p) /\ ~Served(p)
  BY <1>1, <1>2 DEF Inv, RingInv, PlaceInv, PlaceOf, Waiting, Published, HasChain, Busy
<1>4. Formatted(p)
  BY <1>3 DEF Inv, ChainInv, ChainOf
<1>5. /\ ops[r.head] = [type |-> IF req[p].write = 1 THEN "OUT" ELSE "IN",
                        sector |-> req[p].sector]
      /\ info[r.head].b = req[p].b
  BY <1>2, <1>4 DEF Formatted
<1>6. r.status = r.head /\ r.buf = req[p].b /\ r.op = ops[r.head]
  BY <1>5 DEF Inv, RingInv, FetchedInv
<1>7. /\ req[p].b \in Bufs /\ b_blockno[req[p].b] \in Blocks
      /\ req[p].sector = Sector(b_blockno[req[p].b])
  BY <1>3 DEF Inv, CallerInv, TypeInv, BusyHasBuffer
<1>8. \A blk \in Blocks : Sector(blk) \div SectorsPerBlock = blk
  BY SizeAssumption, SMTT(30) DEF Sector, SectorsPerBlock
<1>9. r.op.sector \div SectorsPerBlock = b_blockno[req[p].b]
  BY <1>5, <1>6, <1>7, <1>8, SMTT(30)
<1> QED BY <1>2, <1>3, <1>5, <1>6, <1>7, <1>9

\* The device's transfer serves one request; another request that was served
\* is about another buffer and another block.
LEMMA ChainComplete ==
  ASSUME Inv, NEW r \in inflight, DevComplete(r)
  PROVE  ChainInv'
<1> SUFFICES ASSUME NEW q \in Procs, HasChain(q)' PROVE ChainOf(q)'
  BY DEF ChainInv
<1>1. PICK p \in Procs :
           /\ Waiting(p) /\ HasChain(p) /\ HeadOf(p) = r.head
           /\ r.status = r.head /\ r.buf = req[p].b
           /\ req[p].b \in Bufs /\ b_blockno[req[p].b] \in Blocks
           /\ r.op.sector \div SectorsPerBlock = b_blockno[req[p].b]
  BY Owner
<1> DEFINE b == req[p].b
           blk == b_blockno[b]
<1>2. /\ \/ blocks' = [blocks EXCEPT ![blk] = b_data[b]] /\ b_data' = b_data
         \/ b_data' = [b_data EXCEPT ![b] = blocks[blk]] /\ blocks' = blocks
      /\ info' = [info EXCEPT ![r.head].status = 0]
      /\ UNCHANGED <<pc, req, idx, desc, ops, avail_ring, avail_idx, b_disk, b_blockno>>
  BY <1>1 DEF DevComplete, procVars
<1>3. r.head \in Desc
  BY <1>1, Heads DEF Inv
<1>4. /\ \A m \in Desc \ {r.head} : info'[m] = info[m]
      /\ info'[r.head].status = 0 /\ info'[r.head].b = info[r.head].b
  BY <1>2, <1>3, InfoFields, SMTT(30) DEF Inv, TypeInv, TypeOK
<1>5. HasChain(q) /\ Busy(q) /\ ChainOf(q) /\ (Published(q)' <=> Published(q))
  BY <1>2 DEF HasChain, Busy, Inv, ChainInv, Published
<1>6. HasChain(p) /\ Busy(p) /\ Published(p)
  BY <1>1 DEF HasChain, Busy, Waiting
<1>7. CASE q = p
  <2>1. Formatted(q)'
    BY <1>1, <1>2, <1>4, <1>5, <1>7, FormattedKept DEF ChainOf
  <2>2. Served(q)'
    BY <1>1, <1>2, <1>4, <1>7 DEF Served, HeadOf
  <2>3. b_data'[b] = blocks'[blk]
    BY <1>1, <1>2, ZenonT(30) DEF Inv, TypeInv, TypeOK
  <2>4. (b_data[req[q].b] = blocks[b_blockno[req[q].b]])'
    BY <1>2, <1>7, <2>3
  <2>5. Published(q)' /\ pc'[q] # "idx"
    BY <1>2, <1>6, <1>7 DEF Published
  <2> QED BY <2>1, <2>2, <2>4, <2>5 DEF ChainOf
<1>8. CASE q # p
  <2>1. HeadOf(q) \in Desc \ {r.head} /\ req[q].b \in Bufs
    BY <1>1, <1>5, <1>8, Heads DEF Inv
  <2>2. req[q].b # b /\ b_blockno[req[q].b] \in Blocks
    BY <1>5, <1>6, <1>8 DEF Inv, CallerInv
  <2>3. b_blockno[req[q].b] # blk
    BY <1>1, <2>1, <2>2, NullAssumption DEF Inv, CallerInv
  <2>4. b_data'[req[q].b] = b_data[req[q].b]
        /\ blocks'[b_blockno[req[q].b]] = blocks[b_blockno[req[q].b]]
    BY <1>1, <1>2, <2>1, <2>2, <2>3 DEF Inv, TypeInv, TypeOK
  <2>5. Served(q) => b_data'[req[q].b] = blocks'[b_blockno'[req[q].b]]
    BY <1>2, <1>5, <2>4 DEF ChainOf
  <2>6. info'[HeadOf(q)] = info[HeadOf(q)]
    BY <1>4, <2>1
  <2> QED BY <1>2, <1>5, <2>5, <2>6, ChainKept
<1> QED BY <1>7, <1>8

\* The handler finds the request it was told of served, and its buffer in
\* info[id]; it clears b->disk of that one and wakes who sleeps on it.
LEMMA Handled ==
  ASSUME Inv, IntrNext
  PROVE  \E p \in Procs :
           /\ Waiting(p) /\ HasChain(p) /\ Served(p) /\ HeadOf(p) = used_ring[used_idx % NUM]
           /\ used_idx # used_dev
           /\ req[p].b \in Bufs
           /\ b_disk' = [b_disk EXCEPT ![req[p].b] = 0]
           /\ used_idx' = NextIdx(used_idx)
           /\ panic' = panic
           /\ \A q \in Procs : pc'[q] = pc[q] \/ (pc'[q] = "woken" /\ pc[q] = "sleep_buf")
           /\ UNCHANGED <<req, idx, desc, ops, info, avail_ring, avail_idx, used_ring,
                          used_dev, b_blockno, b_data, blocks, dev_avail, inflight>>
<1> DEFINE id == used_ring[used_idx % NUM]
<1>1. /\ used_idx \in Counter /\ used_dev \in Counter /\ used_idx # used_dev
      /\ used_idx % NUM \in Desc /\ id \in Desc
  BY CounterTypes DEF IntrNext, Inv, TypeInv, TypeOK, Counter
<1>2. InUsed(id)
  BY <1>1, WindowConsume DEF InUsed, Unseen
<1>3. PICK p \in Procs : Waiting(p) /\ HeadOf(p) = id
  BY <1>1, <1>2 DEF Inv, RingInv, PlaceInv, PlaceOf
<1>4. HasChain(p) /\ Served(p)
  <2>1. PlaceOf(id)
    BY <1>1 DEF Inv, RingInv, PlaceInv
  <2> QED BY <1>2, <1>3, <2>1 DEF PlaceOf, Waiting, Published, HasChain
<1>5. info[id].status = 0 /\ info[id].b = req[p].b /\ req[p].b \in Bufs /\ req[p].b # NULL
  <2>1. Formatted(p) /\ req[p].b \in Bufs
    BY <1>4, Heads DEF Inv, ChainInv, ChainOf
  <2> QED BY <1>3, <1>4, <2>1, NullAssumption DEF Formatted, Served
<1>6. /\ b_disk' = [b_disk EXCEPT ![req[p].b] = 0]
      /\ pc' = WakeBuf(pc, req[p].b)
      /\ used_idx' = NextIdx(used_idx)
      /\ panic' = panic
  BY <1>5 DEF IntrNext, UsedSlot
<1>7. UNCHANGED <<req, idx, desc, ops, info, avail_ring, avail_idx, used_ring,
                  used_dev, b_blockno, b_data, blocks, dev_avail, inflight>>
  BY DEF IntrNext, diskVars, devVars
<1>8. \A q \in Procs : pc'[q] = pc[q] \/ (pc'[q] = "woken" /\ pc[q] = "sleep_buf")
  BY <1>6 DEF WakeBuf
<1> QED BY <1>1, <1>3, <1>4, <1>5, <1>6, <1>7, <1>8

\* Clearing b->disk keeps the chains: the request was served.
LEMMA ChainIntr ==
  ASSUME Inv, IntrNext
  PROVE  ChainInv' /\ NoPanic'
<1>1. PICK p \in Procs :
           /\ Waiting(p) /\ HasChain(p) /\ Served(p)
           /\ req[p].b \in Bufs
           /\ b_disk' = [b_disk EXCEPT ![req[p].b] = 0]
           /\ panic' = panic
           /\ \A q \in Procs : pc'[q] = pc[q] \/ (pc'[q] = "woken" /\ pc[q] = "sleep_buf")
           /\ UNCHANGED <<req, idx, desc, ops, info, avail_ring, avail_idx, b_blockno,
                          b_data, blocks>>
  BY Handled
<1>2. NoPanic'
  BY <1>1 DEF Inv, NoPanic
<1> SUFFICES ASSUME NEW q \in Procs, HasChain(q)' PROVE ChainOf(q)'
  BY <1>2 DEF ChainInv
<1>3. HasChain(q) /\ Busy(q) /\ ChainOf(q) /\ (Published(q)' <=> Published(q))
  BY <1>1 DEF HasChain, Busy, Inv, ChainInv, Published
<1>4. HasChain(p) /\ Busy(p) /\ Published(p)
  BY <1>1 DEF HasChain, Busy, Waiting
<1>5. (Served(q)' <=> Served(q)) /\ HeadOf(q)' = HeadOf(q)
  BY <1>1 DEF Served, HeadOf
<1>6. Served(q) => b_data'[req[q].b] = blocks'[b_blockno'[req[q].b]]
  BY <1>1, <1>3 DEF ChainOf
<1>7. CASE q = p
  <2>1. Formatted(q)'
    BY <1>1, <1>3, FormattedKept DEF ChainOf
  <2>2. Published(q)' /\ pc'[q] # "idx" /\ Served(q)'
    BY <1>1, <1>3, <1>4, <1>5, <1>7 DEF Published
  <2>3. (b_data[req[q].b] = blocks[b_blockno[req[q].b]])'
    BY <1>1, <1>6, <1>7
  <2> QED BY <2>1, <2>2, <2>3 DEF ChainOf
<1>8. CASE q # p
  <2>1. req[q].b # req[p].b /\ req[q].b \in Bufs
    BY <1>3, <1>4, <1>8, Heads DEF Inv, CallerInv
  <2>2. b_disk'[req[q].b] = b_disk[req[q].b]
    BY <1>1, <2>1 DEF Inv, TypeInv, TypeOK
  <2>3. pc'[q] = "idx" => pc[q] = "idx"
    BY <1>1
  <2> QED BY <1>1, <1>3, <1>6, <2>2, <2>3, ChainKept
<1> QED BY <1>7, <1>8

---------------------------------------------------------------------------
(* RingInv.                                                                *)

\* The rings are empty at first.
LEMMA RingInit == Init => RingInv
<1> SUFFICES ASSUME Init PROVE RingInv
  OBVIOUS
<1>1. 0 \in Counter
  BY SizeAssumption, SMT DEF Counter
<1>2. Unfetched = {} /\ Unseen = {} /\ inflight = {}
  BY <1>1, WindowEmpty DEF Init, Unfetched, Unseen
<1>3. \A p \in Procs : ~Waiting(p)
  BY DEF Init, Waiting, Published
<1> QED BY <1>2, <1>3 DEF RingInv, PlaceInv, PlaceOf, OnceInv, FetchedInv, InAvail, InFlight, InUsed

\* A step that leaves the rings, and the requests that wait, alone.
LEMMA RingFrame ==
  ASSUME RingInv,
         UNCHANGED <<avail_ring, avail_idx, used_ring, used_dev, used_idx, dev_avail, inflight>>,
         \A p \in Procs : Waiting(p)' <=> Waiting(p),
         \A p \in Procs : Waiting(p) => HeadOf(p)' = HeadOf(p) /\ (Served(p)' <=> Served(p)),
         \A r \in inflight : ops'[r.head] = ops[r.head] /\ info'[r.head].b = info[r.head].b
  PROVE  RingInv'
<1>1. Unfetched' = Unfetched /\ Unseen' = Unseen
  BY DEF Unfetched, Unseen
<1>2. \A h \in Desc : /\ InAvail(h)' <=> InAvail(h)
                      /\ InFlight(h)' <=> InFlight(h)
                      /\ InUsed(h)' <=> InUsed(h)
  BY <1>1 DEF InAvail, InFlight, InUsed
<1>3. OnceInv'
  BY <1>1 DEF RingInv, OnceInv
<1>4. FetchedInv'
  BY DEF RingInv, FetchedInv
<1>5. ASSUME NEW h \in Desc PROVE PlaceOf(h)'
  <2>1. PlaceOf(h)
    BY DEF RingInv, PlaceInv
  <2> QED BY <1>2, <2>1 DEF PlaceOf
<1> QED BY <1>3, <1>4, <1>5 DEF RingInv, PlaceInv

\* What waits has a chain and is inside virtio_disk_rw; what is in a place waits.
LEMMA Places ==
  ASSUME Inv
  PROVE  /\ \A p \in Procs : Waiting(p) => HasChain(p) /\ Busy(p)
         /\ \A h \in Desc : InAvail(h) \/ InFlight(h) \/ InUsed(h) =>
              \E p \in Procs : Waiting(p) /\ HeadOf(p) = h
         /\ \A at \in Unfetched : at % NUM \in Desc /\ avail_ring[at % NUM] \in Desc
                                  /\ InAvail(avail_ring[at % NUM])
         /\ \A at \in Unseen : at % NUM \in Desc /\ used_ring[at % NUM] \in Desc
                               /\ InUsed(used_ring[at % NUM])
         /\ \A r \in inflight : r.head \in Desc /\ InFlight(r.head)
<1>1. \A p \in Procs : Waiting(p) => HasChain(p) /\ Busy(p)
  BY DEF Waiting, Published, HasChain, Busy
<1>2. \A h \in Desc : InAvail(h) \/ InFlight(h) \/ InUsed(h) =>
              \E p \in Procs : Waiting(p) /\ HeadOf(p) = h
  BY DEF Inv, RingInv, PlaceInv, PlaceOf
<1>3. /\ {avail_idx, used_dev, used_idx, dev_avail} \subseteq Counter
      /\ avail_ring \in [Desc -> Desc] /\ used_ring \in [Desc -> Desc]
  BY DEF Inv, TypeInv, TypeOK, Counter
<1>4. \A at \in Unfetched : at % NUM \in Desc
  BY <1>3, InWindow, CounterTypes DEF Unfetched, Counter
<1>5. \A at \in Unseen : at % NUM \in Desc
  BY <1>3, InWindow, CounterTypes DEF Unseen, Counter
<1>6. \A r \in inflight : r.head \in Desc
  BY DEF Inv, TypeInv, TypeOK
<1> QED BY <1>1, <1>2, <1>3, <1>4, <1>5, <1>6 DEF InAvail, InUsed, InFlight

\* A step that only moves processes between program points.
LEMMA RingMove ==
  ASSUME RingInv, UNCHANGED <<req, idx, diskVars, ringVars, b_disk, dev_avail, inflight>>,
         \A p \in Procs : Published(p)' <=> Published(p)
  PROVE  RingInv'
<1>1. \A p \in Procs : (Waiting(p)' <=> Waiting(p)) /\ HeadOf(p)' = HeadOf(p)
                       /\ (Served(p)' <=> Served(p))
  BY DEF Waiting, HeadOf, Served, diskVars
<1> QED BY <1>1, RingFrame DEF diskVars, ringVars

\* A call that begins waits for nothing yet.
LEMMA RingCall ==
  ASSUME Inv, NEW p \in Procs, Call(p)
  PROVE  RingInv'
<1>1. /\ pc[p] = "idle" /\ pc'[p] = "enter"
      /\ \A q \in Procs \ {p} : pc'[q] = pc[q] /\ req'[q] = req[q]
      /\ UNCHANGED <<idx, diskVars, ringVars, b_disk, dev_avail, inflight>>
  BY ZenonT(30) DEF Call, CallRead, CallWrite, Enter, Busy, devVars, Inv, TypeInv, TypeOK
<1>2. \A q \in Procs : /\ Waiting(q)' <=> Waiting(q)
                       /\ HeadOf(q)' = HeadOf(q) /\ (Served(q)' <=> Served(q))
  BY <1>1 DEF Waiting, Published, HeadOf, Served, diskVars
<1> QED BY <1>1, <1>2, RingFrame DEF Inv, diskVars, ringVars

\* Start gives p descriptors that no waiting request has.
LEMMA RingStart ==
  ASSUME Inv, NEW p \in Procs, Start(p)
  PROVE  RingInv'
<1>1. PICK i, j, k \in Desc :
        /\ alloc3_desc(i, j, k)
        /\ idx' = [idx EXCEPT ![p] = <<i, j, k>>]
        /\ Format(i, j, k, req[p])
  BY DEF Start
<1>2. i \in free
  BY <1>1 DEF alloc3_desc
<1>3. /\ pc[p] = "enter" /\ pc'[p] = "ring" /\ \A r \in Procs \ {p} : pc'[r] = pc[r]
      /\ Busy(p) /\ req[p].b \in Bufs
      /\ UNCHANGED <<req, ringVars, dev_avail, inflight>>
  BY ZenonT(30) DEF Start, devVars, Busy, Inv, TypeInv, TypeOK, BusyHasBuffer
<1>4. /\ \A r \in Procs \ {p} : idx'[r] = idx[r]
      /\ \A m \in Desc \ {i} : ops'[m] = ops[m] /\ info'[m] = info[m]
      /\ \A b \in Bufs \ {req[p].b} : b_disk'[b] = b_disk[b]
  BY <1>1, <1>3 DEF Format, Inv, TypeInv, TypeOK
<1>5. ~Waiting(p) /\ ~Waiting(p)'
  BY <1>3 DEF Waiting, Published
<1>6. ASSUME NEW q \in Procs \ {p}
      PROVE  Waiting(q)' <=> Waiting(q)
  <2>1. Published(q) => Busy(q)
    BY DEF Published, Busy
  <2>2. Published(q) => req[q].b \in Bufs \ {req[p].b}
    BY <1>3, <2>1 DEF Inv, CallerInv, TypeInv, BusyHasBuffer
  <2>3. Published(q)' <=> Published(q)
    BY <1>3 DEF Published
  <2> QED BY <1>3, <1>4, <2>2, <2>3 DEF Waiting
<1>7. ASSUME NEW q \in Procs, Waiting(q)
      PROVE  /\ HeadOf(q) \in Desc \ {i}
             /\ HeadOf(q)' = HeadOf(q) /\ (Served(q)' <=> Served(q))
  <2>1. q # p /\ HasChain(q)
    BY <1>5, <1>7, Places
  <2>2. HeadOf(q) \in Desc \ {i}
    BY <1>2, <2>1, Heads DEF Inv, HeadOf, Mine
  <2> QED BY <1>4, <2>1, <2>2, SMTT(30) DEF HeadOf, Served
<1>8. \A r \in inflight : ops'[r.head] = ops[r.head] /\ info'[r.head].b = info[r.head].b
  BY <1>4, <1>7, Places
<1> QED BY <1>3, <1>5, <1>6, <1>7, <1>8, RingFrame DEF Inv, ringVars

\* Finish frees the chain of a request that no longer waits.
LEMMA RingFinish ==
  ASSUME Inv, NEW p \in Procs, Finish(p)
  PROVE  RingInv'
<1>1. /\ pc[p] = "check" /\ b_disk[req[p].b] = 0 /\ HasChain(p)
      /\ pc'[p] = "idle"
      /\ \A q \in Procs \ {p} : idx'[q] = idx[q] /\ req'[q] = req[q]
      /\ \A q \in Procs \ {p} : \/ pc'[q] = pc[q]
                                \/ pc'[q] = "enter" /\ pc[q] = "sleep_free"
      /\ UNCHANGED <<ops, ringVars, b_disk, dev_avail, inflight>>
  <2>1. /\ pc[p] = "check" /\ b_disk[req[p].b] = 0
        /\ UNCHANGED <<ops, ringVars, b_disk, dev_avail, inflight>>
    BY DEF Finish, Done, bufVars, devVars
  <2>2. HasChain(p)
    BY <2>1 DEF HasChain
  <2>3. \A q \in Procs \ {p} : idx'[q] = idx[q] /\ req'[q] = req[q]
    BY ZenonT(30) DEF Finish, Inv, TypeInv, TypeOK
  <2>4. /\ pc'[p] = "idle"
        /\ \A q \in Procs \ {p} : \/ pc'[q] = pc[q]
                                  \/ pc'[q] = "enter" /\ pc[q] = "sleep_free"
    <3>1. pc' = [WakeFree(pc) EXCEPT ![p] = "idle"] /\ pc \in [Procs -> PcValues]
      BY DEF Finish, Inv, TypeInv, TypeOK
    <3>2. /\ WakeFree(pc) \in [Procs -> PcValues]
          /\ \A q \in Procs : \/ WakeFree(pc)[q] = pc[q]
                              \/ WakeFree(pc)[q] = "enter" /\ pc[q] = "sleep_free"
      BY <3>1, WakeFreeTypes
    <3> QED BY <3>1, <3>2
  <2> QED BY <2>1, <2>2, <2>3, <2>4
<1>2. \A m \in Desc \ {HeadOf(p)} : info'[m] = info[m]
  <2>1. info' = [info EXCEPT ![HeadOf(p)].b = NULL] /\ HeadOf(p) \in Desc
    BY <1>1, Heads DEF Finish, HeadOf, Inv
  <2> QED BY <2>1, InfoFields, SMT DEF Inv, TypeInv, TypeOK
<1>3. ~Waiting(p) /\ ~Waiting(p)'
  BY <1>1, SMT DEF Waiting, Published
<1>4. \A q \in Procs \ {p} : Waiting(q)' <=> Waiting(q)
  BY <1>1 DEF Waiting, Published
<1>5. ASSUME NEW q \in Procs, Waiting(q)
      PROVE  /\ HeadOf(q) \in Desc \ {HeadOf(p)}
             /\ HeadOf(q)' = HeadOf(q) /\ (Served(q)' <=> Served(q))
  <2>1. q # p /\ HasChain(q)
    BY <1>3, <1>5, Places
  <2>2. HeadOf(q) \in Desc \ {HeadOf(p)}
    BY <1>1, <2>1, Heads DEF Inv
  <2> QED BY <1>1, <1>2, <2>1, <2>2, ZenonT(30) DEF HeadOf, Served
<1>6. \A r \in inflight : ops'[r.head] = ops[r.head] /\ info'[r.head].b = info[r.head].b
  BY <1>1, <1>2, <1>5, Places
<1> QED BY <1>1, <1>3, <1>4, <1>5, <1>6, RingFrame DEF Inv, ringVars

\* The avail ring has a slot for the request whose caller is about to publish
\* it, and that request is nowhere yet.
LEMMA AvailRoom ==
  ASSUME Inv, NEW p \in Procs, pc[p] \in {"ring", "idx"}
  PROVE  /\ HeadOf(p) \in Desc /\ ~Waiting(p) /\ HasChain(p)
         /\ ~InAvail(HeadOf(p)) /\ ~InFlight(HeadOf(p)) /\ ~InUsed(HeadOf(p))
         /\ \A q \in Procs : Waiting(q) => HeadOf(q) # HeadOf(p)
         /\ avail_idx \notin Unfetched
         /\ Window(dev_avail, NextIdx(avail_idx)) = Unfetched \cup {avail_idx}
         /\ \A a \in Unfetched : a % NUM # avail_idx % NUM
<1>1. HasChain(p) /\ ~Waiting(p)
  BY DEF HasChain, Waiting, Published
<1>2. HeadOf(p) \in Desc /\ HeadOf(p) \in 0 .. NUM - 3
  BY <1>1, Heads DEF Inv
<1>3. \A q \in Procs : Waiting(q) => HeadOf(q) # HeadOf(p) /\ HeadOf(q) \in 0 .. NUM - 3
  BY <1>1, Heads, Places DEF Inv
<1>4. ~InAvail(HeadOf(p)) /\ ~InFlight(HeadOf(p)) /\ ~InUsed(HeadOf(p))
  BY <1>2, <1>3, Places
<1>5. /\ dev_avail \in Counter /\ avail_idx \in Counter /\ avail_ring \in [Desc -> Desc]
  BY DEF Inv, TypeInv, TypeOK, Counter
<1>6. \A a \in Unfetched : avail_ring[a % NUM] \in 0 .. NUM - 3
                           /\ avail_ring[a % NUM] # HeadOf(p)
  BY <1>3, Places
<1>7. \A a, c \in Unfetched : avail_ring[a % NUM] = avail_ring[c % NUM] => a = c
  BY DEF Inv, RingInv, OnceInv
<1>8. /\ avail_idx \notin Unfetched
      /\ Window(dev_avail, NextIdx(avail_idx)) = Unfetched \cup {avail_idx}
      /\ \A a \in Unfetched : a % NUM # avail_idx % NUM
  BY <1>2, <1>5, <1>6, <1>7, Room, SMTT(30) DEF Unfetched
<1> QED BY <1>1, <1>2, <1>3, <1>4, <1>8

\* The used ring has a slot for a request in flight.
LEMMA UsedRoom ==
  ASSUME Inv, NEW r \in inflight
  PROVE  /\ used_dev \notin Unseen
         /\ Window(used_idx, NextIdx(used_dev)) = Unseen \cup {used_dev}
         /\ \A a \in Unseen : a % NUM # used_dev % NUM
<1>1. PICK p \in Procs : Waiting(p) /\ HasChain(p) /\ ~Served(p) /\ HeadOf(p) = r.head
  BY Owner
<1>2. r.head \in Desc /\ r.head \in 0 .. NUM - 3
  BY <1>1, Heads DEF Inv
<1>3. ~InUsed(r.head)
  BY <1>1, <1>2 DEF Inv, RingInv, PlaceInv, PlaceOf
<1>4. \A q \in Procs : Waiting(q) => HeadOf(q) \in 0 .. NUM - 3
  BY Heads, Places DEF Inv
<1>5. used_dev \in Counter /\ used_idx \in Counter /\ used_ring \in [Desc -> Desc]
  BY DEF Inv, TypeInv, TypeOK, Counter
<1>6. \A a \in Unseen : used_ring[a % NUM] \in 0 .. NUM - 3 /\ used_ring[a % NUM] # r.head
  BY <1>3, <1>4, Places
<1>7. \A a, c \in Unseen : used_ring[a % NUM] = used_ring[c % NUM] => a = c
  BY DEF Inv, RingInv, OnceInv
<1> QED BY <1>2, <1>5, <1>6, <1>7, Room, ZenonT(30) DEF Unseen

\* PublishSlot overwrites a slot outside the window.
LEMMA RingPublishSlot ==
  ASSUME Inv, NEW p \in Procs, PublishSlot(p)
  PROVE  RingInv'
<1>1. /\ pc[p] = "ring" /\ pc'[p] = "idx" /\ \A q \in Procs \ {p} : pc'[q] = pc[q]
      /\ avail_ring' = [avail_ring EXCEPT ![avail_idx % NUM] = HeadOf(p)]
      /\ UNCHANGED <<req, idx, ops, info, b_disk, avail_idx, used_ring, used_dev,
                     used_idx, dev_avail, inflight>>
  BY ZenonT(30) DEF PublishSlot, AvailSlot, HeadOf, diskVars, bufVars, devVars, Inv, TypeInv, TypeOK
<1>2. Unfetched' = Unfetched /\ Unseen' = Unseen
  BY <1>1 DEF Unfetched, Unseen
<1>3. \A a \in Unfetched : avail_ring'[a % NUM] = avail_ring[a % NUM]
  BY <1>1, AvailRoom, Places, ZenonT(30) DEF Inv, TypeInv, TypeOK
<1>4. \A h \in Desc : /\ InAvail(h)' <=> InAvail(h)
                      /\ InFlight(h)' <=> InFlight(h)
                      /\ InUsed(h)' <=> InUsed(h)
  BY <1>1, <1>2, <1>3, ZenonT(30) DEF InAvail, InFlight, InUsed
<1>5. OnceInv'
  BY <1>1, <1>2, <1>3, SMT DEF Inv, RingInv, OnceInv
<1>6. FetchedInv'
  BY <1>1 DEF Inv, RingInv, FetchedInv
<1>7. \A q \in Procs : /\ Waiting(q)' <=> Waiting(q)
                       /\ HeadOf(q)' = HeadOf(q) /\ (Served(q)' <=> Served(q))
  BY <1>1 DEF Waiting, Published, HeadOf, Served
<1>8. ASSUME NEW h \in Desc PROVE PlaceOf(h)'
  <2>1. PlaceOf(h)
    BY DEF Inv, RingInv, PlaceInv
  <2> QED BY <1>4, <1>7, <2>1 DEF PlaceOf
<1> QED BY <1>5, <1>6, <1>8 DEF RingInv, PlaceInv

\* PublishIdx puts the request into the avail ring, and it waits from now on.
LEMMA RingPublishIdx ==
  ASSUME Inv, NEW p \in Procs, PublishIdx(p)
  PROVE  RingInv'
<1>1. /\ pc[p] = "idx" /\ pc'[p] = "notify" /\ \A q \in Procs \ {p} : pc'[q] = pc[q]
      /\ avail_idx' = NextIdx(avail_idx)
      /\ UNCHANGED <<req, idx, ops, info, b_disk, avail_ring, used_ring, used_dev,
                     used_idx, dev_avail, inflight>>
  BY ZenonT(30) DEF PublishIdx, diskVars, bufVars, devVars, Inv, TypeInv, TypeOK
<1>2. PICK x : x = HeadOf(p)
  OBVIOUS
<1>3. /\ x \in Desc /\ ~Waiting(p) /\ ~InAvail(x) /\ ~InFlight(x) /\ ~InUsed(x)
      /\ \A q \in Procs : Waiting(q) => HeadOf(q) # x
      /\ avail_idx \notin Unfetched
  BY <1>1, <1>2, AvailRoom
<1>4. Unfetched' = Unfetched \cup {avail_idx} /\ Unseen' = Unseen
  BY <1>1, AvailRoom DEF Unfetched, Unseen
<1>5. /\ avail_ring[avail_idx % NUM] = x
      /\ b_disk[req[p].b] = 1 /\ ~Served(p)
  BY <1>1, <1>2 DEF Inv, ChainInv, ChainOf, HasChain, Published, AvailSlot
<1>6. \A h \in Desc : /\ InAvail(h)' <=> InAvail(h) \/ h = x
                      /\ InFlight(h)' <=> InFlight(h)
                      /\ InUsed(h)' <=> InUsed(h)
  BY <1>1, <1>4, <1>5 DEF InAvail, InFlight, InUsed
<1>7. \A a \in Unfetched : avail_ring[a % NUM] # x
  BY <1>3 DEF InAvail
<1>8. OnceInv'
  BY <1>1, <1>4, <1>5, <1>7, ZenonT(30) DEF Inv, RingInv, OnceInv
<1>9. FetchedInv'
  BY <1>1 DEF Inv, RingInv, FetchedInv
<1>10. /\ \A q \in Procs \ {p} : Waiting(q)' <=> Waiting(q)
       /\ Waiting(p)'
       /\ \A q \in Procs : HeadOf(q)' = HeadOf(q) /\ (Served(q)' <=> Served(q))
  BY <1>1, <1>5 DEF Waiting, Published, HeadOf, Served
<1>11. ASSUME NEW h \in Desc PROVE PlaceOf(h)'
  <2>1. PlaceOf(h)
    BY DEF Inv, RingInv, PlaceInv
  <2>2. CASE h # x
    BY <1>2, <1>6, <1>10, <2>1, <2>2 DEF PlaceOf
  <2>3. CASE h = x
    BY <1>2, <1>3, <1>5, <1>6, <1>10, <2>3 DEF PlaceOf
  <2> QED BY <2>2, <2>3
<1> QED BY <1>8, <1>9, <1>11 DEF RingInv, PlaceInv

\* DevFetch moves the oldest avail entry into flight, with what its chain says.
LEMMA RingFetch ==
  ASSUME Inv, DevFetch
  PROVE  RingInv'
<1>1. PICK x : x = avail_ring[dev_avail % NUM]
  OBVIOUS
<1>2. /\ dev_avail \in Counter /\ avail_idx \in Counter /\ dev_avail # avail_idx
      /\ dev_avail' = NextIdx(dev_avail)
      /\ UNCHANGED <<pc, req, idx, ops, info, b_disk, avail_ring, avail_idx, used_ring,
                     used_dev, used_idx>>
  BY DEF DevFetch, procVars, diskVars, ringVars, bufVars, Inv, TypeInv, TypeOK, Counter
<1>3. /\ dev_avail \in Unfetched /\ Unseen' = Unseen
      /\ Unfetched' = Unfetched \ {dev_avail}
  BY <1>2, WindowConsume DEF Unfetched, Unseen
<1>4. x \in Desc /\ InAvail(x)
  BY <1>1, <1>3, Places
<1>5. PICK p \in Procs : Waiting(p) /\ HeadOf(p) = x
  BY <1>4, Places
<1>6. ~Served(p) /\ ~InFlight(x) /\ ~InUsed(x)
  BY <1>4, <1>5 DEF Inv, RingInv, PlaceInv, PlaceOf
<1>7. Formatted(p) /\ info[x].b = req[p].b
  BY <1>5, Places DEF Inv, ChainInv, ChainOf, Formatted
<1>8. PICK r : /\ inflight' = inflight \cup {r}
               /\ r.head = x /\ r.op = ops[x] /\ r.buf = info[x].b /\ r.status = x
  <2>1. PICK t \in Desc : inflight' = inflight \cup
          {[tag |-> t, head |-> x, op |-> ops[desc[x].addr[2]],
            buf |-> desc[desc[x].next].addr[2],
            status |-> desc[desc[desc[x].next].next].addr[2]]}
    BY <1>1, ZenonT(30) DEF DevFetch
  <2>2. /\ desc[x].addr[2] = x
        /\ desc[desc[x].next].addr[2] = req[p].b
        /\ desc[desc[desc[x].next].next].addr[2] = x
    BY <1>5, <1>7, SMT DEF Formatted
  <2> DEFINE r0 == [tag |-> t, head |-> x, op |-> ops[x], buf |-> req[p].b, status |-> x]
  <2>3. inflight' = inflight \cup {r0}
    BY <2>1, <2>2
  <2>4. r0.head = x /\ r0.op = ops[x] /\ r0.buf = info[x].b /\ r0.status = x
    BY <1>7
  <2> HIDE DEF r0
  <2> QED BY <2>3, <2>4
<1>9. /\ \A a \in Unfetched' : avail_ring[a % NUM] # x
      /\ \A a \in Unfetched \ Unfetched' : avail_ring[a % NUM] = x
  BY <1>1, <1>3 DEF Inv, RingInv, OnceInv
<1>10. \A h \in Desc : /\ InAvail(h)' <=> InAvail(h) /\ h # x
                       /\ InFlight(h)' <=> InFlight(h) \/ h = x
                       /\ InUsed(h)' <=> InUsed(h)
  <2>1. \A h \in Desc : InAvail(h)' <=> InAvail(h) /\ h # x
    BY <1>2, <1>3, <1>9 DEF InAvail
  <2>2. \A h \in Desc : InFlight(h)' <=> InFlight(h) \/ h = x
    BY <1>8 DEF InFlight
  <2>3. \A h \in Desc : InUsed(h)' <=> InUsed(h)
    BY <1>2, <1>3 DEF InUsed
  <2> QED BY <2>1, <2>2, <2>3
<1>11. OnceInv'
  <2>1. \A s \in inflight : s.head # x
    BY <1>6 DEF InFlight
  <2> QED BY <1>2, <1>3, <1>8, <2>1 DEF Inv, RingInv, OnceInv
<1>12. FetchedInv'
  BY <1>2, <1>8 DEF Inv, RingInv, FetchedInv
<1>13. \A q \in Procs : /\ Waiting(q)' <=> Waiting(q)
                        /\ HeadOf(q)' = HeadOf(q) /\ (Served(q)' <=> Served(q))
  BY <1>2 DEF Waiting, Published, HeadOf, Served
<1>14. \A q \in Procs : Waiting(q) /\ HeadOf(q) = x => q = p
  BY <1>5, Places, Heads DEF Inv
<1>15. ASSUME NEW h \in Desc PROVE PlaceOf(h)'
  <2>1. PlaceOf(h)
    BY DEF Inv, RingInv, PlaceInv
  <2>2. CASE h # x
    BY <1>10, <1>13, <2>1, <2>2 DEF PlaceOf
  <2>3. CASE h = x
    BY <1>5, <1>6, <1>10, <1>13, <1>14, <2>3 DEF PlaceOf
  <2> QED BY <2>2, <2>3
<1> QED BY <1>11, <1>12, <1>15 DEF RingInv, PlaceInv

\* DevComplete moves a request from flight to the used ring.
LEMMA RingComplete ==
  ASSUME Inv, NEW r \in inflight, DevComplete(r)
  PROVE  RingInv'
<1>1. PICK p \in Procs : /\ Waiting(p) /\ HasChain(p) /\ ~Served(p) /\ HeadOf(p) = r.head
                         /\ r.status = r.head
  BY Owner
<1>2. PICK x : x = r.head
  OBVIOUS
<1>3. /\ info' = [info EXCEPT ![x].status = 0]
      /\ used_ring' = [used_ring EXCEPT ![used_dev % NUM] = x]
      /\ used_dev' = NextIdx(used_dev)
      /\ inflight' = inflight \ {r}
      /\ UNCHANGED <<pc, req, idx, ops, b_disk, avail_ring, avail_idx, used_idx, dev_avail>>
  BY <1>1, <1>2 DEF DevComplete, procVars
<1>4. x \in Desc /\ InFlight(x) /\ used_dev % NUM \in Desc
  BY <1>2, Places, CounterTypes DEF Inv, TypeInv, TypeOK
<1>5. ~InAvail(x) /\ ~InUsed(x)
  BY <1>1, <1>2, <1>4 DEF Inv, RingInv, PlaceInv, PlaceOf
<1>6. /\ \A m \in Desc \ {x} : info'[m] = info[m]
      /\ info'[x].status = 0 /\ info'[x].b = info[x].b
  BY <1>3, <1>4, InfoFields, SMTT(30) DEF Inv, TypeInv, TypeOK
<1>7. /\ Unfetched' = Unfetched /\ Unseen' = Unseen \cup {used_dev}
      /\ used_ring'[used_dev % NUM] = x
      /\ \A a \in Unseen : used_ring'[a % NUM] = used_ring[a % NUM]
  <2>1. Unfetched' = Unfetched /\ Unseen' = Unseen \cup {used_dev}
    BY <1>3, UsedRoom DEF Unfetched, Unseen
  <2> QED BY <1>3, <1>4, <2>1, UsedRoom, Places, ZenonT(30) DEF Inv, TypeInv, TypeOK
<1>8. \A s \in inflight \ {r} : s.head # x
  BY <1>2 DEF Inv, RingInv, OnceInv
<1>9. \A h \in Desc : /\ InAvail(h)' <=> InAvail(h)
                      /\ InFlight(h)' <=> InFlight(h) /\ h # x
                      /\ InUsed(h)' <=> InUsed(h) \/ h = x
  <2>1. \A h \in Desc : InAvail(h)' <=> InAvail(h)
    BY <1>3, <1>7 DEF InAvail
  <2>2. \A h \in Desc : InFlight(h)' <=> InFlight(h) /\ h # x
    BY <1>2, <1>3, <1>8 DEF InFlight
  <2>3. \A h \in Desc : InUsed(h)' <=> InUsed(h) \/ h = x
    BY <1>7 DEF InUsed
  <2> QED BY <2>1, <2>2, <2>3
<1>10. OnceInv'
  <2>1. \A a \in Unseen : used_ring[a % NUM] # x
    BY <1>5 DEF InUsed
  <2>2. \A a, c \in Unseen' : used_ring'[a % NUM] = used_ring'[c % NUM] => a = c
    BY <1>7, <2>1, SMTT(30) DEF Inv, RingInv, OnceInv
  <2> QED BY <1>3, <1>7, <2>2, ZenonT(30) DEF Inv, RingInv, OnceInv
<1>11. FetchedInv'
  <2>1. \A s \in inflight : info'[s.head].b = info[s.head].b
    BY <1>6, Places
  <2> QED BY <1>3, <2>1 DEF Inv, RingInv, FetchedInv
<1>12. \A q \in Procs : (Waiting(q)' <=> Waiting(q)) /\ HeadOf(q)' = HeadOf(q)
  BY <1>3 DEF Waiting, Published, HeadOf
<1>13. \A q \in Procs : Waiting(q) => (Served(q)' <=> Served(q) \/ HeadOf(q) = x)
  BY <1>6, <1>12, Places, Heads, ZenonT(30) DEF Served, Inv
<1>14. ASSUME NEW h \in Desc PROVE PlaceOf(h)'
  <2>1. PlaceOf(h)
    BY DEF Inv, RingInv, PlaceInv
  <2>2. CASE h # x
    BY <1>9, <1>12, <1>13, <2>1, <2>2 DEF PlaceOf
  <2>3. CASE h = x
    BY <1>1, <1>2, <1>5, <1>9, <1>12, <1>13, <2>3, ZenonT(30) DEF PlaceOf
  <2> QED BY <2>2, <2>3
<1> QED BY <1>10, <1>11, <1>14 DEF RingInv, PlaceInv

\* IntrNext takes the oldest used entry, and its request no longer waits.
LEMMA RingIntr ==
  ASSUME Inv, IntrNext
  PROVE  RingInv'
<1>1. PICK p \in Procs :
           /\ Waiting(p) /\ HasChain(p) /\ Served(p) /\ HeadOf(p) = used_ring[used_idx % NUM]
           /\ used_idx # used_dev
           /\ req[p].b \in Bufs
           /\ b_disk' = [b_disk EXCEPT ![req[p].b] = 0]
           /\ used_idx' = NextIdx(used_idx)
           /\ \A q \in Procs : pc'[q] = pc[q] \/ (pc'[q] = "woken" /\ pc[q] = "sleep_buf")
           /\ UNCHANGED <<req, idx, desc, ops, info, avail_ring, avail_idx, used_ring,
                          used_dev, dev_avail, inflight>>
  BY Handled
<1>2. PICK x : x = HeadOf(p)
  OBVIOUS
<1>3. x \in Desc /\ Busy(p)
  BY <1>1, <1>2, Heads, Places DEF Inv
<1>4. /\ used_idx \in Unseen /\ Unfetched' = Unfetched
      /\ Unseen' = Unseen \ {used_idx}
  <2>1. used_idx \in Counter /\ used_dev \in Counter
    BY DEF Inv, TypeInv, TypeOK, Counter
  <2> QED BY <1>1, <2>1, WindowConsume DEF Unfetched, Unseen
<1>5. InUsed(x) /\ ~InAvail(x) /\ ~InFlight(x)
  BY <1>1, <1>2, <1>3 DEF Inv, RingInv, PlaceInv, PlaceOf
<1>6. /\ \A a \in Unseen' : used_ring[a % NUM] # x
      /\ \A a \in Unseen \ Unseen' : used_ring[a % NUM] = x
  BY <1>1, <1>2, <1>4 DEF Inv, RingInv, OnceInv
<1>7. \A h \in Desc : /\ InAvail(h)' <=> InAvail(h)
                      /\ InFlight(h)' <=> InFlight(h)
                      /\ InUsed(h)' <=> InUsed(h) /\ h # x
  <2>1. \A h \in Desc : (InAvail(h)' <=> InAvail(h)) /\ (InFlight(h)' <=> InFlight(h))
    BY <1>1, <1>4 DEF InAvail, InFlight
  <2>2. \A h \in Desc : InUsed(h)' <=> InUsed(h) /\ h # x
    BY <1>1, <1>4, <1>6 DEF InUsed
  <2> QED BY <2>1, <2>2
<1>8. OnceInv' /\ FetchedInv'
  BY <1>1, <1>4, ZenonT(30) DEF Inv, RingInv, OnceInv, FetchedInv
<1>9. \A q \in Procs : HeadOf(q)' = HeadOf(q) /\ (Served(q)' <=> Served(q))
                       /\ (Published(q)' <=> Published(q))
  BY <1>1 DEF HeadOf, Served, Published
<1>10. ~Waiting(p)'
  BY <1>1, SMTT(30) DEF Waiting, Inv, TypeInv, TypeOK
<1>11. ASSUME NEW q \in Procs \ {p}
       PROVE  (Waiting(q)' <=> Waiting(q)) /\ (Waiting(q) => HeadOf(q) # x)
  <2>1. Published(q) => Busy(q) /\ HasChain(q)
    BY DEF Published, Busy, HasChain
  <2>2. Published(q) => req[q].b # req[p].b /\ req[q].b \in Bufs
    BY <1>3, <2>1 DEF Inv, CallerInv, TypeInv, BusyHasBuffer
  <2>3. Waiting(q)' <=> Waiting(q)
    BY <1>1, <1>9, <2>2 DEF Waiting, Inv, TypeInv, TypeOK
  <2>4. Waiting(q) => HeadOf(q) # x
    BY <1>1, <1>2, <2>1, Heads, ZenonT(30) DEF Inv, Waiting
  <2> QED BY <2>3, <2>4
<1>12. ASSUME NEW h \in Desc PROVE PlaceOf(h)'
  <2>1. PlaceOf(h)
    BY DEF Inv, RingInv, PlaceInv
  <2>2. CASE h # x
    BY <1>2, <1>7, <1>9, <1>10, <1>11, <2>1, <2>2, ZenonT(30) DEF PlaceOf
  <2>3. CASE h = x
    BY <1>5, <1>7, <1>9, <1>10, <1>11, <2>3, ZenonT(30) DEF PlaceOf
  <2> QED BY <2>2, <2>3
<1> QED BY <1>8, <1>12 DEF RingInv, PlaceInv

---------------------------------------------------------------------------
(* The theorems.                                                           *)

\* Every step preserves ChainInv, RingInv and NoPanic.
LEMMA RingStep ==
  ASSUME Inv, [Next]_vars
  PROVE  ChainInv' /\ RingInv' /\ NoPanic'
<1>0. /\ TypeInv /\ DescriptorInv /\ CallerInv /\ ChainInv /\ RingInv /\ panic = "none"
      /\ pc \in [Procs -> PcValues]
  BY DEF Inv, TypeInv, TypeOK, NoPanic
<1> DEFINE Moved == /\ UNCHANGED <<req, idx, diskVars, ringVars, bufVars, blocks,
                                   dev_avail, inflight, panic>>
                    /\ \A q \in Procs : HasChain(q)' <=> HasChain(q)
                    /\ \A q \in Procs : Published(q)' <=> Published(q)
                    /\ \A q \in Procs : pc'[q] = "idx" => pc[q] = "idx"
<1>1. ASSUME Moved PROVE ChainInv' /\ RingInv' /\ NoPanic'
  <2>1. ChainInv'
    BY <1>0, <1>1, ChainFrame DEF diskVars, ringVars
  <2>2. RingInv'
    BY <1>0, <1>1, RingMove DEF bufVars
  <2>3. NoPanic'
    BY <1>0, <1>1 DEF NoPanic
  <2> QED BY <2>1, <2>2, <2>3
<1> HIDE DEF Moved
<1>2. ASSUME NEW p \in Procs, Call(p) PROVE ChainInv' /\ RingInv' /\ NoPanic'
  <2>1. NoPanic'
    BY <1>0, <1>2 DEF Call, CallRead, CallWrite, NoPanic
  <2> QED BY <1>0, <1>2, <2>1, ChainCall, RingCall
<1>3. ASSUME NEW p \in Procs, Start(p) PROVE ChainInv' /\ RingInv' /\ NoPanic'
  <2>1. NoPanic'
    BY <1>0, <1>3 DEF Start, NoPanic
  <2> QED BY <1>0, <1>3, <2>1, ChainStart, RingStart
<1>4. ASSUME NEW p \in Procs, StartSleep(p) PROVE Moved
  <2>1. PICK f \in {pc, WakeFree(pc)} : pc' = [f EXCEPT ![p] = "sleep_free"]
    BY <1>4 DEF StartSleep
  <2>2. /\ f \in [Procs -> PcValues]
        /\ \A q \in Procs : f[q] = pc[q] \/ (f[q] = "enter" /\ pc[q] = "sleep_free")
    <3>1. CASE f = pc
      BY <1>0, <3>1
    <3>2. CASE f = WakeFree(pc)
      BY <1>0, <3>2, WakeFreeTypes
    <3> QED BY <3>1, <3>2
  <2>3. /\ pc[p] = "enter"
        /\ UNCHANGED <<req, idx, diskVars, ringVars, bufVars, blocks, dev_avail, inflight, panic>>
    BY <1>4 DEF StartSleep, devVars
  <2> QED BY <1>0, <2>1, <2>2, <2>3 DEF Moved, HasChain, Published
<1>5. ASSUME NEW p \in Procs, PublishSlot(p) PROVE ChainInv' /\ RingInv' /\ NoPanic'
  <2>1. NoPanic'
    BY <1>0, <1>5 DEF PublishSlot, NoPanic
  <2> QED BY <1>0, <1>5, <2>1, ChainPublish, RingPublishSlot
<1>6. ASSUME NEW p \in Procs, PublishIdx(p) PROVE ChainInv' /\ RingInv' /\ NoPanic'
  <2>1. NoPanic'
    BY <1>0, <1>6 DEF PublishIdx, NoPanic
  <2> QED BY <1>0, <1>6, <2>1, ChainPublish, RingPublishIdx
<1>7. ASSUME NEW p \in Procs, Notify(p) PROVE Moved
  BY <1>0, <1>7 DEF Notify, Moved, HasChain, Published
<1>8. ASSUME NEW p \in Procs, Wait(p) \/ Reacquire(p) \/ Kill(p) PROVE Moved
  BY <1>0, <1>8, ZenonT(30) DEF Wait, Reacquire, Kill, devVars, Moved, HasChain, Published
<1>9. ASSUME NEW p \in Procs, Finish(p) PROVE ChainInv' /\ RingInv' /\ NoPanic'
  <2>1. HasChain(p)
    BY <1>9 DEF Finish, HasChain
  <2>2. Chain(idx[p][1]) = Mine(p)
    BY <1>0, <2>1 DEF Chain, ChainLinked, Mine, DescriptorInv
  <2>3. NoPanic'
    BY <1>0, <1>9, <2>1, <2>2, Heads DEF Finish, free_chain, NoPanic
  <2> QED BY <1>0, <1>9, <2>3, ChainFinish, RingFinish
<1>10. CASE DevFetch
  <2>1. ChainInv' /\ NoPanic'
    <3>1. UNCHANGED <<pc, idx, req, desc, ops, info, bufVars, blocks, avail_ring, avail_idx, panic>>
      BY <1>10 DEF DevFetch, procVars, diskVars, ringVars
    <3>2. \A q \in Procs : (HasChain(q)' <=> HasChain(q)) /\ (Published(q)' <=> Published(q))
      BY <3>1 DEF HasChain, Published
    <3> QED BY <1>0, <3>1, <3>2, ChainFrame DEF NoPanic
  <2> QED BY <1>10, <2>1, RingFetch
<1>11. ASSUME DevRest \/ IntrEnter \/ IntrExit PROVE Moved
  BY <1>11 DEF DevRest, IntrEnter, IntrExit, devVars, procVars, Moved, HasChain, Published
<1>12. ASSUME NEW r \in inflight, DevComplete(r) PROVE ChainInv' /\ RingInv' /\ NoPanic'
  <2>1. NoPanic'
    BY <1>0, <1>12 DEF DevComplete, NoPanic
  <2> QED BY <1>12, <2>1, ChainComplete, RingComplete
<1>13. CASE IntrNext
  BY <1>13, ChainIntr, RingIntr
<1>14. ASSUME UNCHANGED vars PROVE Moved
  BY <1>14 DEF vars, devVars, procVars, Moved, HasChain, Published
<1> QED BY <1>1, <1>2, <1>3, <1>4, <1>5, <1>6, <1>7, <1>8, <1>9, <1>10, <1>11, <1>12, <1>13, <1>14,
           SMTT(30) DEF Next, rw, Device, Intr

\* The invariant holds in every reachable state.
THEOREM RingInvariance == Spec => []Inv
<1>1. Init => CallerInv /\ ChainInv /\ RingInv /\ NoPanic
  BY CallerInit, ChainInit, RingInit DEF Init, NoPanic
<1>2. Init => Inv
  BY <1>1, TypeInit, DescriptorInit DEF Inv
<1>3. Inv /\ [Next]_vars /\ TypeInv' /\ DescriptorInv' => Inv'
  <2> SUFFICES ASSUME Inv, [Next]_vars, TypeInv', DescriptorInv' PROVE Inv'
    OBVIOUS
  <2>1. CallerInv'
    BY CallerStep, ZenonT(30) DEF Inv
  <2> QED BY <2>1, RingStep DEF Inv
<1> QED BY <1>2, <1>3, TypeCorrect, DescriptorInvariance, PTL DEF Spec

\* A formatted chain is what DeviceSeesWholeChain asks for.
LEMMA FormattedIsWellFormed ==
  ASSUME NEW p \in Procs, Formatted(p)
  PROVE  WellFormed(HeadOf(p), p)
BY SMT DEF Formatted, WellFormed, HeadOf, Mine

\* A set whose members are all equal has no or one element.
LEMMA AtMostOne ==
  ASSUME NEW S, \A x, y \in S : x = y
  PROVE  Cardinality(S) = IF S = {} THEN 0 ELSE 1
<1>1. CASE S = {}
  BY <1>1, FS_EmptySet
<1>2. CASE S # {}
  <2>1. PICK x \in S : TRUE
    BY <1>2
  <2>2. S = {x}
    BY <2>1
  <2>3. Cardinality({x}) = 1
    BY FS_Singleton
  <2> QED BY <1>2, <2>2, <2>3
<1> QED BY <1>1, <1>2

\* Places and cardinalities: each request is counted once.
LEMMA InvRings == Inv => RingsInStep
<1> SUFFICES ASSUME Inv PROVE RingsInStep
  OBVIOUS
<1>1. DeviceSeesWholeChain
  <2> SUFFICES ASSUME NEW at \in Unfetched
               PROVE  \E p \in Procs : HasChain(p) /\ WellFormed(avail_ring[at % NUM], p)
    BY DEF DeviceSeesWholeChain
  <2>1. PICK p \in Procs : Waiting(p) /\ HeadOf(p) = avail_ring[at % NUM]
    BY Places
  <2>2. HasChain(p) /\ Formatted(p)
    BY <2>1, Places DEF Inv, ChainInv, ChainOf
  <2> QED BY <2>1, <2>2, FormattedIsWellFormed
<1>2. OutstandingOnce
  <2> SUFFICES ASSUME NEW h \in Desc
               PROVE  Outstanding(h) =
                        Cardinality({p \in Procs : /\ HasChain(p) /\ idx[p][1] = h
                                                   /\ pc[p] \notin {"ring", "idx"}
                                                   /\ b_disk[req[p].b] = 1})
    BY DEF OutstandingOnce
  <2> DEFINE A == {at \in Unfetched : avail_ring[at % NUM] = h}
             F == {r \in inflight : r.head = h}
             U == {at \in Unseen : used_ring[at % NUM] = h}
             W == {p \in Procs : Waiting(p) /\ HeadOf(p) = h}
  <2>1. Cardinality(A) = IF InAvail(h) THEN 1 ELSE 0
    <3>1. \A x, y \in A : x = y
      BY DEF Inv, RingInv, OnceInv
    <3>2. A = {} <=> ~InAvail(h)
      BY DEF InAvail
    <3> QED BY <3>1, <3>2, AtMostOne
  <2>2. Cardinality(F) = IF InFlight(h) THEN 1 ELSE 0
    <3>1. \A x, y \in F : x = y
      BY DEF Inv, RingInv, OnceInv
    <3>2. F = {} <=> ~InFlight(h)
      BY DEF InFlight
    <3> QED BY <3>1, <3>2, AtMostOne
  <2>3. Cardinality(U) = IF InUsed(h) THEN 1 ELSE 0
    <3>1. \A x, y \in U : x = y
      BY DEF Inv, RingInv, OnceInv
    <3>2. U = {} <=> ~InUsed(h)
      BY DEF InUsed
    <3> QED BY <3>1, <3>2, AtMostOne
  <2>4. Cardinality(W) = IF W = {} THEN 0 ELSE 1
    <3>1. \A x, y \in W : x = y
      BY Heads, Places DEF Inv
    <3> QED BY <3>1, AtMostOne
  <2>5. PlaceOf(h)
    BY DEF Inv, RingInv, PlaceInv
  <2>6. {p \in Procs : /\ HasChain(p) /\ idx[p][1] = h /\ pc[p] \notin {"ring", "idx"}
                       /\ b_disk[req[p].b] = 1} = W
    BY DEF HasChain, Waiting, Published, HeadOf
  <2>7. Outstanding(h) = Cardinality(A) + Cardinality(F) + Cardinality(U)
    BY DEF Outstanding
  <2> HIDE DEF A, F, U
  <2>8. Cardinality(A) + Cardinality(F) + Cardinality(U) = IF W = {} THEN 0 ELSE 1
    <3>1. CASE W = {}
      <4>1. ~InAvail(h) /\ ~InFlight(h) /\ ~InUsed(h)
        BY <2>5, <3>1 DEF PlaceOf
      <4> QED BY <2>1, <2>2, <2>3, <3>1, <4>1, SMTT(30)
    <3>2. CASE W # {}
      <4>1. PICK p \in Procs : Waiting(p) /\ HeadOf(p) = h
        BY <3>2
      <4>2. \/ InUsed(h) /\ ~InAvail(h) /\ ~InFlight(h)
            \/ ~InUsed(h) /\ InAvail(h) /\ ~InFlight(h)
            \/ ~InUsed(h) /\ ~InAvail(h) /\ InFlight(h)
        BY <2>5, <4>1, ZenonT(30) DEF PlaceOf
      <4> HIDE DEF W
      <4> QED BY <2>1, <2>2, <2>3, <3>2, <4>2, SMTT(30)
    <3> QED BY <3>1, <3>2
  <2> QED BY <2>4, <2>6, <2>7, <2>8
<1> QED BY <1>1, <1>2 DEF RingsInStep, Inv

\* For any number of processes, descriptors and buffers, with ring counters
\* that wrap: the device can fetch only whole chains of waiting requests, a
\* request is outstanding exactly once, and the driver never panics.
THEOREM RingsAlwaysInStep == Spec => []RingsInStep
BY InvRings, RingInvariance, PTL

---------------------------------------------------------------------------
(* The refinement.                                                         *)

\* Nobody has called, and the blocks are the same.
LEMMA AbstractInit == Init => Abstract!Init
BY SMT DEF Init, Abstract!Init, Abstract!Idle, AbstractCall, Busy, NoReq

\* A step that changes no call, buffer or block maps to a stutter.
LEMMA AbstractStutter ==
  ASSUME UNCHANGED <<b_blockno, b_data, blocks>>,
         \A q \in Procs : AbstractCall(q)' = AbstractCall(q)
  PROVE  UNCHANGED Abstract!vars
BY ZenonT(30) DEF Abstract!vars

\* What a call looks like from above.
LEMMA AbstractIdle ==
  ASSUME Inv, NEW p \in Procs
  PROVE  /\ ~Busy(p) => AbstractCall(p) = Abstract!Idle
         /\ Busy(p) => AbstractCall(p).b \in Bufs
         /\ HasChain(p) /\ Served(p) => AbstractCall(p).at = "done"
         /\ Busy(p) /\ ~(HasChain(p) /\ Served(p)) => AbstractCall(p).at = "called"
BY SMT DEF Inv, CallerInv, TypeInv, BusyHasBuffer, AbstractCall, Abstract!Idle, NoReq, Busy,
   HasChain, Served, HeadOf

\* A call whose program point class, request and status stay looks the same.
LEMMA CallKept ==
  ASSUME NEW q \in Procs, req'[q] = req[q],
         Busy(q)' <=> Busy(q), HasChain(q)' <=> HasChain(q),
         HasChain(q) => idx'[q] = idx[q] /\ info'[HeadOf(q)].status = info[HeadOf(q)].status
  PROVE  AbstractCall(q)' = AbstractCall(q)
BY DEF AbstractCall, HeadOf

\* virtio_disk_rw is called.
LEMMA AbstractCalls ==
  ASSUME Inv, NEW p \in Procs, Call(p)
  PROVE  Abstract!Next
<1> DEFINE call == [q \in Procs |-> AbstractCall(q)]
<1>1. /\ ~Busy(p) /\ Busy(p)' /\ ~HasChain(p)'
      /\ \A q \in Procs \ {p} : pc'[q] = pc[q] /\ req'[q] = req[q]
      /\ UNCHANGED <<idx, info, blocks>>
  BY ZenonT(30) DEF Call, CallRead, CallWrite, Enter, Busy, HasChain, diskVars, devVars, Inv, TypeInv,
     TypeOK
<1>2. ASSUME NEW q \in Procs \ {p} PROVE AbstractCall(q)' = AbstractCall(q)
  <2>1. (Busy(q)' <=> Busy(q)) /\ (HasChain(q)' <=> HasChain(q))
    BY <1>1 DEF Busy, HasChain
  <2> QED BY <1>1, <2>1, CallKept
<1>3. AbstractCall(p) = Abstract!Idle
  BY <1>1, AbstractIdle
<1>4. ASSUME NEW b \in Bufs, ~LockedByOther(p, b), NEW q \in Procs
      PROVE  AbstractCall(q).b # b
  <2>1. AbstractCall(q).b = req[q].b
    BY DEF AbstractCall
  <2>2. CASE Busy(q)
    BY <1>1, <1>4, <2>1, <2>2 DEF LockedByOther
  <2>3. CASE ~Busy(q)
    <3>1. req[q] = NoReq
      BY <2>3 DEF Inv, CallerInv
    <3>2. NoReq.b = NULL /\ NULL \notin Bufs
      BY NullAssumption DEF NoReq
    <3> QED BY <2>1, <3>1, <3>2
  <2> QED BY <2>2, <2>3
<1>5. ASSUME NEW b \in Bufs, NEW w, req'[p].b = b, req'[p].write = w
      PROVE  call' = [call EXCEPT ![p] = [at |-> "called", b |-> b, write |-> w]]
  <2>1. AbstractCall(p)' = [at |-> "called", b |-> b, write |-> w]
    BY <1>1, <1>5 DEF AbstractCall
  <2> QED BY <1>2, <2>1
<1>6. ASSUME NEW b \in Bufs, NEW blk \in Blocks, CallRead(p, b, blk)
      PROVE  Abstract!CallRead(p, b, blk)
  <2>1. req'[p].b = b /\ req'[p].write = 0 /\ ~LockedByOther(p, b)
    BY <1>6, ZenonT(30) DEF CallRead, Enter, Inv, TypeInv, TypeOK
  <2>2. call' = [call EXCEPT ![p] = [at |-> "called", b |-> b, write |-> 0]]
    BY <1>5, <2>1
  <2>3. ~Abstract!InUse(b)
    BY <1>4, <2>1 DEF Abstract!InUse
  <2>4. call[p] = Abstract!Idle
    BY <1>3
  <2> QED BY <1>1, <1>6, <2>2, <2>3, <2>4 DEF Abstract!CallRead, CallRead
<1>7. ASSUME NEW b \in Bufs, NEW d \in Data, CallWrite(p, b, d)
      PROVE  Abstract!CallWrite(p, b, d)
  <2>1. req'[p].b = b /\ req'[p].write = 1 /\ ~LockedByOther(p, b)
    BY <1>7 DEF CallWrite, Enter, Inv, TypeInv, TypeOK
  <2>2. call' = [call EXCEPT ![p] = [at |-> "called", b |-> b, write |-> 1]]
    BY <1>5, <2>1
  <2>3. ~Abstract!InUse(b)
    BY <1>4, <2>1 DEF Abstract!InUse
  <2>4. call[p] = Abstract!Idle
    BY <1>3
  <2> QED BY <1>1, <1>7, <2>2, <2>3, <2>4 DEF Abstract!CallWrite, CallWrite
<1> QED BY <1>6, <1>7 DEF Call, Abstract!Next

\* The device's transfer is the abstract one.
LEMMA AbstractTransfer ==
  ASSUME Inv, NEW r \in inflight, DevComplete(r)
  PROVE  Abstract!Next
<1> DEFINE call == [q \in Procs |-> AbstractCall(q)]
<1>1. PICK p \in Procs :
           /\ HasChain(p) /\ ~Served(p) /\ HeadOf(p) = r.head
           /\ r.status = r.head /\ r.buf = req[p].b
           /\ r.op = [type |-> IF req[p].write = 1 THEN "OUT" ELSE "IN",
                      sector |-> req[p].sector]
           /\ r.op.sector \div SectorsPerBlock = b_blockno[req[p].b]
  BY Owner
<1> DEFINE b == req[p].b
           blk == b_blockno[b]
<1>2. IF req[p].write = 1
      THEN blocks' = [blocks EXCEPT ![blk] = b_data[b]] /\ UNCHANGED b_data
      ELSE b_data' = [b_data EXCEPT ![b] = blocks[blk]] /\ UNCHANGED blocks
  <2>1. r.op.type = "OUT" <=> req[p].write = 1
    BY <1>1, SMT
  <2> QED BY <1>1, <2>1 DEF DevComplete
<1>3. /\ info' = [info EXCEPT ![r.head].status = 0]
      /\ UNCHANGED <<pc, req, idx, b_blockno>>
  BY <1>1 DEF DevComplete, procVars
<1>4. r.head \in Desc /\ Busy(p)
  BY <1>1, Heads DEF Inv, HasChain, Busy
<1>5. /\ \A m \in Desc \ {r.head} : info'[m] = info[m]
      /\ info'[r.head].status = 0
  BY <1>3, <1>4, InfoFields, SMTT(30) DEF Inv, TypeInv, TypeOK
<1>6. \A q \in Procs : (Busy(q)' <=> Busy(q)) /\ (HasChain(q)' <=> HasChain(q))
  BY <1>3 DEF Busy, HasChain
<1>7. \A q \in Procs \ {p} : AbstractCall(q)' = AbstractCall(q)
  <2> SUFFICES ASSUME NEW q \in Procs \ {p} PROVE AbstractCall(q)' = AbstractCall(q)
    OBVIOUS
  <2>1. HasChain(q) => HeadOf(q) \in Desc \ {r.head}
    BY <1>1, Heads DEF Inv
  <2> QED BY <1>3, <1>5, <1>6, <2>1, CallKept
<1>8. /\ AbstractCall(p) = [at |-> "called", b |-> b, write |-> req[p].write]
      /\ AbstractCall(p)' = [at |-> "done", b |-> b, write |-> req[p].write]
  BY <1>1, <1>3, <1>4, <1>5, <1>6 DEF AbstractCall, Served, HeadOf
<1>9. call' = [call EXCEPT ![p].at = "done"]
  <2>1. [AbstractCall(p) EXCEPT !.at = "done"] = [at |-> "done", b |-> b, write |-> req[p].write]
    BY <1>8, SMT
  <2>2. call[p] = AbstractCall(p)
    OBVIOUS
  <2>3. [call EXCEPT ![p].at = "done"] = [call EXCEPT ![p] = AbstractCall(p)']
    BY <1>8, <2>1, <2>2
  <2>4. call' = [call EXCEPT ![p] = AbstractCall(p)']
    BY <1>7
  <2> QED BY <2>3, <2>4
<1>10. call[p].at = "called" /\ call[p].b = b /\ call[p].write = req[p].write
  BY <1>8, SMT
<1>11. Abstract!Transfer(p)
  BY <1>2, <1>3, <1>9, <1>10 DEF Abstract!Transfer
<1> QED BY <1>11 DEF Abstract!Next

\* virtio_disk_rw returns after the transfer only.
LEMMA AbstractReturn ==
  ASSUME Inv, NEW p \in Procs, Finish(p)
  PROVE  Abstract!Next
<1> DEFINE call == [q \in Procs |-> AbstractCall(q)]
<1>1. /\ pc[p] = "check" /\ b_disk[req[p].b] = 0 /\ pc'[p] = "idle" /\ req'[p] = NoReq
      /\ \A q \in Procs \ {p} : idx'[q] = idx[q] /\ req'[q] = req[q]
      /\ \A q \in Procs \ {p} : \/ pc'[q] = pc[q]
                                \/ pc'[q] = "enter" /\ pc[q] = "sleep_free"
      /\ UNCHANGED <<b_blockno, b_data, blocks>>
  <2>1. /\ pc \in [Procs -> PcValues] /\ req \in [Procs -> Request]
        /\ idx \in [Procs -> Desc \X Desc \X Desc]
    BY DEF Inv, TypeInv, TypeOK
  <2>2. /\ pc[p] = "check" /\ b_disk[req[p].b] = 0
        /\ pc' = [WakeFree(pc) EXCEPT ![p] = "idle"]
        /\ req' = [req EXCEPT ![p] = NoReq] /\ idx' = [idx EXCEPT ![p] = <<0, 0, 0>>]
        /\ UNCHANGED <<b_blockno, b_data, blocks>>
    BY DEF Finish, Done, bufVars, devVars
  <2>3. /\ WakeFree(pc) \in [Procs -> PcValues]
        /\ \A q \in Procs : \/ WakeFree(pc)[q] = pc[q]
                            \/ WakeFree(pc)[q] = "enter" /\ pc[q] = "sleep_free"
    BY <2>1, WakeFreeTypes
  <2> QED BY <2>1, <2>2, <2>3
<1>2. HasChain(p) /\ Served(p)
  BY <1>1 DEF HasChain, Inv, ChainInv, ChainOf
<1>3. AbstractCall(p).at = "done"
  BY <1>2, AbstractIdle
<1>4. AbstractCall(p)' = Abstract!Idle
  BY <1>1, SMTT(30) DEF AbstractCall, Busy, NoReq, Abstract!Idle
<1>5. \A m \in Desc \ {HeadOf(p)} : info'[m] = info[m]
  <2>1. info' = [info EXCEPT ![HeadOf(p)].b = NULL] /\ HeadOf(p) \in Desc
    BY <1>2, Heads DEF Finish, HeadOf, Inv
  <2> QED BY <2>1, InfoFields, SMT DEF Inv, TypeInv, TypeOK
<1>6. \A q \in Procs \ {p} : AbstractCall(q)' = AbstractCall(q)
  <2> SUFFICES ASSUME NEW q \in Procs \ {p} PROVE AbstractCall(q)' = AbstractCall(q)
    OBVIOUS
  <2>1. HasChain(q) => HeadOf(q) \in Desc \ {HeadOf(p)}
    BY <1>2, Heads DEF Inv
  <2>2. (Busy(q)' <=> Busy(q)) /\ (HasChain(q)' <=> HasChain(q))
    BY <1>1 DEF Busy, HasChain
  <2> QED BY <1>1, <1>5, <2>1, <2>2, CallKept
<1>7. call' = [call EXCEPT ![p] = Abstract!Idle] /\ call[p].at = "done"
  BY <1>3, <1>4, <1>6
<1>8. Abstract!Return(p)
  BY <1>1, <1>7 DEF Abstract!Return
<1> QED BY <1>8 DEF Abstract!Next

\* Every step maps to a step of AbstractDisk or to a stutter.
LEMMA AbstractStep ==
  ASSUME Inv, [Next]_vars
  PROVE  [Abstract!Next]_(Abstract!vars)
<1>0. pc \in [Procs -> PcValues]
  BY DEF Inv, TypeInv, TypeOK
<1> DEFINE Quiet == /\ UNCHANGED <<req, idx, info, b_blockno, b_data, blocks>>
                    /\ \A q \in Procs : Busy(q)' <=> Busy(q)
                    /\ \A q \in Procs : HasChain(q)' <=> HasChain(q)
<1>1. ASSUME Quiet PROVE UNCHANGED Abstract!vars
  <2>1. \A q \in Procs : AbstractCall(q)' = AbstractCall(q)
    BY <1>1, CallKept
  <2> QED BY <1>1, <2>1, AbstractStutter
<1> HIDE DEF Quiet
<1>2. ASSUME NEW p \in Procs, Start(p) PROVE UNCHANGED Abstract!vars
  <2>1. PICK i, j, k \in Desc :
          /\ alloc3_desc(i, j, k)
          /\ idx' = [idx EXCEPT ![p] = <<i, j, k>>]
          /\ Format(i, j, k, req[p])
    BY <1>2 DEF Start
  <2>2. /\ pc[p] = "enter" /\ pc'[p] = "ring" /\ \A r \in Procs \ {p} : pc'[r] = pc[r]
        /\ UNCHANGED <<req, b_blockno, b_data, blocks>>
    BY <1>0, <1>2, ZenonT(30) DEF Start, devVars
  <2>3. /\ i \in free
        /\ idx'[p] = <<i, j, k>> /\ \A q \in Procs \ {p} : idx'[q] = idx[q]
        /\ info'[i] = [b |-> req[p].b, status |-> 255]
        /\ \A m \in Desc \ {i} : info'[m] = info[m]
    BY <2>1, SMTT(30) DEF alloc3_desc, Format, Inv, TypeInv, TypeOK
  <2>4. AbstractCall(p)' = AbstractCall(p)
    BY <2>2, <2>3, SMTT(30) DEF AbstractCall, Busy, HasChain
  <2>5. ASSUME NEW q \in Procs \ {p} PROVE AbstractCall(q)' = AbstractCall(q)
    <3>1. HasChain(q) => HeadOf(q) \in Desc \ {i}
      BY <2>3, Heads, ZenonT(30) DEF Inv, HeadOf, Mine
    <3>2. (Busy(q)' <=> Busy(q)) /\ (HasChain(q)' <=> HasChain(q))
      BY <2>2 DEF Busy, HasChain
    <3> QED BY <2>2, <2>3, <3>1, <3>2, CallKept, ZenonT(30)
  <2> QED BY <2>2, <2>4, <2>5, AbstractStutter
<1>3. ASSUME NEW p \in Procs, StartSleep(p) PROVE Quiet
  <2>1. PICK f \in {pc, WakeFree(pc)} : pc' = [f EXCEPT ![p] = "sleep_free"]
    BY <1>3 DEF StartSleep
  <2>2. /\ f \in [Procs -> PcValues]
        /\ \A q \in Procs : f[q] = pc[q] \/ (f[q] = "enter" /\ pc[q] = "sleep_free")
    <3>1. CASE f = pc
      BY <1>0, <3>1
    <3>2. CASE f = WakeFree(pc)
      BY <1>0, <3>2, WakeFreeTypes
    <3> QED BY <3>1, <3>2
  <2>3. pc[p] = "enter" /\ UNCHANGED <<req, idx, info, b_blockno, b_data, blocks>>
    BY <1>3 DEF StartSleep, diskVars, bufVars, devVars
  <2> QED BY <1>0, <2>1, <2>2, <2>3 DEF Quiet, HasChain, Busy
<1>4. ASSUME NEW p \in Procs, PublishSlot(p) \/ PublishIdx(p) \/ Notify(p) PROVE Quiet
  BY <1>0, <1>4 DEF PublishSlot, PublishIdx, Notify, diskVars, bufVars, devVars, Quiet,
                    HasChain, Busy
<1>5. ASSUME NEW p \in Procs, Wait(p) \/ Reacquire(p) \/ Kill(p) PROVE Quiet
  BY <1>0, <1>5 DEF Wait, Reacquire, Kill, diskVars, bufVars, devVars, Quiet, HasChain, Busy
<1>6. ASSUME DevFetch \/ DevRest \/ IntrEnter \/ IntrExit PROVE Quiet
  BY <1>6 DEF DevFetch, DevRest, IntrEnter, IntrExit, procVars, diskVars, bufVars, devVars,
              Quiet, HasChain, Busy
<1>7. ASSUME IntrNext PROVE Quiet
  <2>1. /\ \A q \in Procs : pc'[q] = pc[q] \/ (pc'[q] = "woken" /\ pc[q] = "sleep_buf")
        /\ UNCHANGED <<req, idx, info, b_blockno, b_data, blocks>>
    BY <1>7, Handled
  <2> QED BY <2>1 DEF Quiet, HasChain, Busy
<1>8. ASSUME UNCHANGED vars PROVE Quiet
  BY <1>8 DEF vars, procVars, diskVars, bufVars, devVars, Quiet, HasChain, Busy
<1> QED BY <1>1, <1>2, <1>3, <1>4, <1>5, <1>6, <1>7, <1>8, AbstractCalls, AbstractTransfer,
           AbstractReturn, ZenonT(30) DEF Next, rw, Device, Intr

\* A call returns by Finish only, and Finish finds the request served.
LEMMA ServedStep ==
  ASSUME Inv, [Next]_vars, NEW p \in Procs, pc[p] # "idle", pc'[p] = "idle"
  PROVE  b_data[req[p].b] = blocks[b_blockno[req[p].b]]
<1>0. pc \in [Procs -> PcValues]
  BY DEF Inv, TypeInv, TypeOK
<1> DEFINE Stays == pc'[p] # "idle"
<1>1. ASSUME NEW q \in Procs, Call(q) PROVE Stays
  BY <1>0, <1>1 DEF Call, CallRead, CallWrite, Enter
<1>2. ASSUME NEW q \in Procs, StartSleep(q) PROVE Stays
  <2>1. PICK f \in {pc, WakeFree(pc)} : pc' = [f EXCEPT ![q] = "sleep_free"]
    BY <1>2 DEF StartSleep
  <2>2. f \in [Procs -> PcValues] /\ f[p] # "idle"
    BY <1>0, <2>1, WakeFreeTypes, SMTT(30)
  <2> QED BY <2>1, <2>2
<1>3. ASSUME NEW q \in Procs, Start(q) \/ PublishSlot(q) \/ PublishIdx(q) \/ Notify(q)
                              \/ Wait(q) \/ Reacquire(q) \/ Kill(q) PROVE Stays
  BY <1>0, <1>3 DEF Start, PublishSlot, PublishIdx, Notify, Wait, Reacquire, Kill
<1>4. ASSUME Device \/ IntrEnter \/ IntrExit \/ UNCHANGED vars PROVE Stays
  BY <1>4 DEF Device, DevFetch, DevRest, DevComplete, IntrEnter, IntrExit, vars, procVars
<1>5. ASSUME IntrNext PROVE Stays
  BY <1>5, Handled
<1>6. PICK q \in Procs : Finish(q)
  BY <1>1, <1>2, <1>3, <1>4, <1>5 DEF Next, rw, Intr
<1>7. q = p
  <2>1. pc' = [WakeFree(pc) EXCEPT ![q] = "idle"]
    BY <1>6 DEF Finish
  <2>2. WakeFree(pc) \in [Procs -> PcValues] /\ WakeFree(pc)[p] # "idle"
    BY <1>0, WakeFreeTypes
  <2> QED BY <2>1, <2>2
<1>8. HasChain(p) /\ b_disk[req[p].b] = 0
  BY <1>6, <1>7 DEF Finish, Done, HasChain
<1> QED BY <1>8 DEF Inv, ChainInv, ChainOf

\* The driver, the device and the interrupt handler implement the abstract
\* disk for any number of processes, descriptors, buffers and blocks: each
\* call's block is transferred once, in one step, between call and return.
THEOREM DriverImplementsDisk == Spec => ImplementsAbstractDisk
BY AbstractInit, AbstractStep, RingInvariance, PTL
   DEF Spec, ImplementsAbstractDisk, Abstract!Spec

\* When virtio_disk_rw returns, the buffer and the block agree.
THEOREM ReturnsServed == Spec => RequestServed
<1>1. Inv /\ [Next]_vars =>
        [\A p \in Procs : (pc[p] # "idle" /\ pc'[p] = "idle") =>
           b_data[req[p].b] = blocks[b_blockno[req[p].b]]]_vars
  BY ServedStep
<1> QED BY <1>1, RingInvariance, PTL DEF Spec, RequestServed

\* Both of what the run checks of the driver's service.
THEOREM RequestsServed == Spec => ServesRequests
BY DriverImplementsDisk, ReturnsServed, PTL DEF ServesRequests
=============================================================================
