----------------------------- MODULE Deadline ------------------------------
(***************************************************************************)
(* The request queues of the "ddl" mode of kernel/virtio_disk.c: for reads *)
(* (0) and writes (1) a red-black tree ordered by block number and a ring  *)
(* ordered by arrival.  No statement assigns tree->root after              *)
(* virtio_disk_init sets it to NULL, so InsertToRBTree's descent takes no  *)
(* step, every node is hung off the sentinel (`first` is sen.p[0]), has no *)
(* children and is BLACK, and the loops of the rebalancing code are never  *)
(* entered.  No statement assigns rank either: a freed slot is entered in  *)
(* avail[] as 0.                                                           *)
(***************************************************************************)
EXTENDS Integers

CONSTANTS TREESIZE, timeLimit, NULL

NIL == -1                 \* the null Node* or Section*
SEN == TREESIZE           \* &sen, of a ring
Slots == 0 .. TREESIZE - 1
NoRequest == [b |-> NULL, write |-> 0]

\* virtio_disk_init numbers the avail[] of tree[0] and ring[0] only.
InitAvail(w) == [j \in Slots |-> IF w = 0 THEN j ELSE 0]
InitDeadline ==
  [tree |-> [w \in {0, 1} |->
               [first |-> NIL, data |-> [n \in Slots |-> NoRequest],
                pSection |-> [n \in Slots |-> NIL],
                pos |-> TREESIZE - 1, avail |-> InitAvail(w), size |-> 0]],
   ring |-> [w \in {0, 1} |->
               [time |-> [s \in Slots |-> 0], data |-> [s \in Slots |-> NoRequest],
                pFront |-> [s \in Slots |-> NIL],
                pBack |-> [s \in Slots \cup {SEN} |-> NIL],
                rear |-> SEN, pos |-> TREESIZE - 1, avail |-> InitAvail(w), size |-> 0]],
   readyArea |-> NoRequest]

\* The tree GetFromRBTree and PrimRBTree work on.
Served(d) == IF d.tree[0].size = 0 THEN 1 ELSE 0

GetFromRBTree(d) ==
  LET t == d.tree[Served(d)] IN IF t.first = NIL THEN NoRequest ELSE t.data[t.first]

InsertToRing(r, x, now) ==
  LET s == r.avail[r.pos]
  IN  [r EXCEPT !.size = @ + 1, !.pos = @ - 1,
                !.data[s] = x, !.time[s] = now,
                !.pFront[s] = r.rear, !.pBack[r.rear] = s, !.rear = s]

InsertToRBTree(t, x, s) ==
  LET n == t.avail[t.pos]
  IN  [t EXCEPT !.size = @ + 1, !.pos = @ - 1,
                !.data[n] = x, !.pSection[n] = s, !.first = n]

\* The oldest section of ring r has waited longer than timeLimit.
Expired(r, now) ==
  LET s == r.pBack[SEN] IN s # NIL /\ now - r.time[s] > timeLimit

\* The ddl branch of rw_queue, under queue_lock.  RenewReadyArea would serve
\* an expired request first, but DeleteFromRBTree faults: its search runs past
\* sen.p[] when a later node has taken the place, and BalanceAfterDeletion of
\* the sentinel reads the null sen.p[2] in any case.  Otherwise the choice is
\* GetFromRBTree's.
InsertRequest(d, x, now) ==
  LET w == x.write
      s == d.ring[w].avail[d.ring[w].pos]
      d1 == [d EXCEPT !.ring[w] = InsertToRing(@, x, now),
                      !.tree[w] = InsertToRBTree(@, x, s)]
  IN  IF d.ring[w].size = TREESIZE THEN [ddl |-> d, fault |-> "ring out of capacity"]
      ELSE IF d.tree[w].size = TREESIZE THEN [ddl |-> d, fault |-> "queue out of capacity"]
      ELSE IF \E i \in {0, 1} : Expired(d1.ring[i], now)
      THEN [ddl |-> d1, fault |-> "BalanceAfterDeletion: sen.p[2] is null"]
      ELSE [ddl |-> [d1 EXCEPT !.readyArea = GetFromRBTree(d1)], fault |-> "none"]

\* Unlink section s from the ring; rear is left alone.
Unlink(r, s) ==
  LET f == r.pFront[s]
      b == r.pBack[s]
      r1 == [r EXCEPT !.pos = @ + 1, !.avail[r.pos + 1] = 0, !.size = @ - 1,
                      !.pBack[f] = b]
  IN  IF r1.pBack[s] = NIL THEN r1 ELSE [r1 EXCEPT !.pFront[r1.pBack[s]] = f]

PrimRBTree(d) ==
  LET w == Served(d)
      t == d.tree[w]
      n == t.first
  IN  IF n = NIL THEN [ddl |-> d, fault |-> "PrimRBTree: sen.p[2] is null"]
      ELSE [ddl |-> [d EXCEPT
                       !.tree[w] = [t EXCEPT !.size = IF @ = 0 THEN 0 ELSE @ - 1,
                                             !.pos = @ + 1, !.avail[t.pos + 1] = 0,
                                             !.first = NIL],
                       !.ring[t.data[n].write] = Unlink(@, t.pSection[n])],
            fault |-> "none"]
=============================================================================
