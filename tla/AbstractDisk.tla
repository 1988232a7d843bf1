--------------------------- MODULE AbstractDisk ---------------------------
(***************************************************************************)
(* What the disk layer promises bread() and bwrite() of kernel/bio.c: a    *)
(* caller hands over a buffer it has locked, the block is transferred once *)
(* in one step somewhere between the call and the return, and the call     *)
(* returns.  VirtioDisk implements this; BufferCache relies on it.         *)
(***************************************************************************)
EXTENDS Naturals

CONSTANTS Procs, Bufs, Blocks, Data, NULL

VARIABLES call,        \* per process: where its call is, on which buffer
          b_blockno, b_data, blocks

vars == <<call, b_blockno, b_data, blocks>>
Idle == [at |-> "idle", b |-> NULL, write |-> 0]

Init ==
  /\ call = [p \in Procs |-> Idle]
  /\ b_blockno = [b \in Bufs |-> NULL]
  /\ b_data = [b \in Bufs |-> NULL]
  /\ blocks \in [Blocks -> Data]

InUse(b) == \E p \in Procs : call[p].b = b

\* bread() of a block that is not cached, into buffer b.
CallRead(p, b, blk) ==
  /\ call[p] = Idle /\ ~InUse(b)
  /\ \A c \in Bufs \ {b} : b_blockno[c] # blk
  /\ b_blockno' = [b_blockno EXCEPT ![b] = blk]
  /\ call' = [call EXCEPT ![p] = [at |-> "called", b |-> b, write |-> 0]]
  /\ UNCHANGED <<b_data, blocks>>

\* bwrite() of buffer b with new contents d.
CallWrite(p, b, d) ==
  /\ call[p] = Idle /\ ~InUse(b)
  /\ b_blockno[b] # NULL
  /\ b_data' = [b_data EXCEPT ![b] = d]
  /\ call' = [call EXCEPT ![p] = [at |-> "called", b |-> b, write |-> 1]]
  /\ UNCHANGED <<b_blockno, blocks>>

Transfer(p) ==
  LET b == call[p].b
      blk == b_blockno[b]
  IN  /\ call[p].at = "called"
      /\ IF call[p].write = 1
         THEN blocks' = [blocks EXCEPT ![blk] = b_data[b]] /\ UNCHANGED b_data
         ELSE b_data' = [b_data EXCEPT ![b] = blocks[blk]] /\ UNCHANGED blocks
      /\ call' = [call EXCEPT ![p].at = "done"]
      /\ UNCHANGED b_blockno

Return(p) ==
  /\ call[p].at = "done"
  /\ call' = [call EXCEPT ![p] = Idle]
  /\ UNCHANGED <<b_blockno, b_data, blocks>>

Next ==
  \E p \in Procs :
    \/ \E b \in Bufs, blk \in Blocks : CallRead(p, b, blk)
    \/ \E b \in Bufs, d \in Data : CallWrite(p, b, d)
    \/ Transfer(p)
    \/ Return(p)

Spec == Init /\ [][Next]_vars
=============================================================================
