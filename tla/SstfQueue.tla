----------------------------- MODULE SstfQueue -----------------------------
(***************************************************************************)
(* The request queue of the "sstf" mode of kernel/virtio_disk.c: an array  *)
(* [data, size] whose element 0 is being served and whose element 1 SSTF() *)
(* makes the waiting request nearest to it.                                *)
(***************************************************************************)
EXTENDS Integers

CONSTANT Capacity

signedDistance(x, y, key) == key[x.b] - key[y.b]  \* mutant: no absolute value

distance(x, y, key) ==
  LET delta == key[x.b] - key[y.b] IN IF delta >= 0 THEN delta ELSE -delta

SSTFOverwrites(data, size, key) ==                \* mutant: one half of the swap
  LET f[i \in 0 .. Capacity] ==
        IF i = 0 THEN data
        ELSE LET d == f[i - 1]
             IN  IF distance(d[0], d[i], key) < distance(d[0], d[1], key)
                 THEN [d EXCEPT ![1] = d[i]] ELSE d
  IN  IF size < 2 THEN data ELSE f[size - 1]

\* data[] after the loop of SSTF over 1 .. size - 1.
SSTF(data, size, key) ==
  LET f[i \in 0 .. Capacity] ==
        IF i = 0 THEN data
        ELSE LET d == f[i - 1]
             IN  IF distance(d[0], d[i], key) < distance(d[0], d[1], key)
                 THEN [d EXCEPT ![i] = d[1], ![1] = d[i]] ELSE d
  IN  IF size < 2 THEN data ELSE f[size - 1]

enqueue(q, x, key) ==
  IF q.size = Capacity THEN [queue |-> q, fault |-> "queue out of capacity"]
  ELSE IF q.size < 0 THEN [queue |-> q, fault |-> "enqueue: before data[]"]
  ELSE [queue |-> [data |-> SSTF([q.data EXCEPT ![q.size] = x], q.size + 1, key),
                   size |-> q.size + 1],
        fault |-> "none"]

dequeue(q, key) ==
  LET shifted == [i \in 0 .. Capacity - 1 |->
                    IF i < q.size - 1 THEN q.data[i + 1] ELSE q.data[i]]
  IN  [data |-> SSTF(shifted, q.size - 1, key), size |-> q.size - 1]
=============================================================================
