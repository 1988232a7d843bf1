---------------------------- MODULE FileContent ----------------------------
(***************************************************************************)
(* The contents of files: the block bitmap (balloc, bfree), the block map  *)
(* of an inode (bmap, itrunc), readi() and writei() of kernel/fs.c, the    *)
(* chunks filewrite() of kernel/file.c cuts a write into, and the image    *)
(* mkfs/mkfs.c starts from.                                                *)
(*                                                                         *)
(* A block is an array of cells; a cell holds a byte of a file or, in an   *)
(* indirect block, a block number.  The lock of the inode makes readi()    *)
(* and writei() steps.  NULL addresses and empty cells are 0.  Blocks are  *)
(* read and written in the buffer cache; what a transaction logged is on   *)
(* the disk after it, and a buffer nobody logged may be read again.        *)
(***************************************************************************)
EXTENDS Naturals, Sequences, FiniteSets, FiniteSetsExt, TLC

CONSTANTS
  NBlocks,       \* data blocks, numbered from 1 (mkfs's nblocks)
  Bsize,         \* BSIZE
  Ndirect, Nindirect,
  BPB,           \* bits of a bitmap block
  MaxOpBlocks,   \* MAXOPBLOCKS
  RootEntries,   \* entries of the root directory of the image
  Bytes,         \* what can be written
  FileSizes,     \* sizes of the file mkfs puts into the image
  MaxWrites      \* bound on the calls of write() and truncations

ASSUME ContentAssumption ==
  /\ {NBlocks, Bsize, Ndirect, Nindirect, BPB} \subseteq Nat \ {0}
  /\ MaxOpBlocks \in Nat /\ MaxOpBlocks >= 6 /\ MaxWrites \in Nat
  /\ Bytes \subseteq Nat \ {0} /\ FileSizes \subseteq Nat

\* The entries do not fill their last block: the Makefile's image has 26 of
\* them (".", "..", README and 23 programs), and a block has room for 64.
ASSUME RootAssumption ==
  RootEntries \in 1 .. (Ndirect + Nindirect) * Bsize /\ RootEntries % Bsize # 0

VARIABLES
  fs,      \* bitmap, blocks (cached and on the disk), addrs[] and size of
           \* every inode
  file,    \* for each byte of each file, what a reader may find
  wr,      \* the write() in progress: file, offset, bytes left, byte
  logged,  \* blocks the last transaction logged
  writes,  \* calls so far
  fsPanic
contentVars == <<fs, file, wr, logged, writes, fsPanic>>

Inodes == {1, 2, 3}                  \* the root, mkfs's file, one made later
MaxFile == Ndirect + Nindirect
Cells == 0 .. Max({Bsize, Nindirect}) - 1
Zeroed == [c \in Cells |-> 0]
Idle == [i |-> 0, off |-> 0, n |-> 0, v |-> 0]

---------------------------------------------------------------------------
(* Blocks.  The operators take and return the file system w, in which addr *)
(* is the block found or allocated last and log what was logged.           *)

Logs(w, b) == [w EXCEPT !.log = @ \cup {<<"data", b>>}]

DirtyBlock(f, b) == f                             \* mutant: no bzero()
bzero(f, b) == [f EXCEPT ![b] = Zeroed]

balloc(w) ==
  LET free == (1 .. NBlocks) \ w.used
      b == Min(free)
  IN  IF free = {} THEN [w EXCEPT !.panic = "balloc: out of blocks", !.addr = 0]
      ELSE [w EXCEPT !.used = @ \cup {b}, !.blk = bzero(@, b), !.addr = b,
                     !.log = @ \cup {<<"bitmap", b \div BPB>>, <<"data", b>>}]

bfree(w, b) ==
  IF b \in w.used THEN [w EXCEPT !.used = @ \ {b}]
  ELSE [w EXCEPT !.panic = "freeing free block"]

\* The block at position k of addrs[], allocated if there is none.
Direct(w, i, k) ==
  IF w.addrs[i][k] # 0 THEN [w EXCEPT !.addr = w.addrs[i][k]]
  ELSE LET x == balloc(w) IN [x EXCEPT !.addrs[i][k] = x.addr]

\* The block at position k of the indirect block ib, likewise.
Indirect(w, ib, k) ==
  IF w.blk[ib][k] # 0 THEN [w EXCEPT !.addr = w.blk[ib][k]]
  ELSE LET x == balloc(w) IN Logs([x EXCEPT !.blk[ib][k] = x.addr], ib)

bmap(w, i, bn) ==
  IF bn < Ndirect THEN Direct(w, i, bn)
  ELSE LET x == Direct(w, i, Ndirect)
       IN  IF x.panic # "none" THEN x ELSE Indirect(x, x.addr, bn - Ndirect)

\* The blocks the map of inode i leads to, in the order itrunc() frees them.
Pointed(w, i) ==
  LET ib == w.addrs[i][Ndirect]
  IN  [k \in 0 .. Ndirect - 1 |-> w.addrs[i][k]] @@
      [k \in Ndirect .. MaxFile - 1 |-> IF ib = 0 THEN 0 ELSE w.blk[ib][k - Ndirect]] @@
      (MaxFile :> ib)

RECURSIVE FreeFrom(_, _, _)
FreeFrom(w, ptr, k) ==
  IF k > MaxFile THEN w
  ELSE FreeFrom(IF ptr[k] = 0 THEN w ELSE bfree(w, ptr[k]), ptr, k + 1)

itrunc(w, i) ==
  [FreeFrom(w, Pointed(w, i), 0) EXCEPT !.addrs[i] = [k \in 0 .. Ndirect |-> 0], !.size[i] = 0]

---------------------------------------------------------------------------
(* readi() and writei().                                                   *)

RECURSIVE ReadFrom(_, _, _, _)
ReadFrom(w, i, off, n) ==
  IF n = 0 THEN <<>>
  ELSE LET x == bmap(w, i, off \div Bsize)
       IN  <<x.blk[x.addr][off % Bsize]>> \o ReadFrom(x, i, off + 1, n - 1)

readi(w, i, off, n) ==
  IF off > w.size[i] THEN <<>>
  ELSE ReadFrom(w, i, off, Min({n, w.size[i] - off}))

\* n copies of byte v go to offset off, a block at a time; the copy from user
\* memory fails when ok bytes have been copied.  The last part of them are then
\* in a buffer that is not logged, and are not counted.
RECURSIVE WriteFrom(_, _, _, _, _, _)
WriteFrom(w, i, off, n, v, ok) ==
  LET x == bmap(w, i, off \div Bsize)
      at == off % Bsize
      m == Min({n, Bsize - at})
      copied == Min({m, ok})
      here == [c \in Cells |-> IF at <= c /\ c < at + copied THEN v ELSE x.blk[x.addr][c]]
      y == [x EXCEPT !.blk[x.addr] = here]
  IN  IF n = 0 \/ w.panic # "none" THEN [w EXCEPT !.off = off]
      ELSE IF x.panic # "none" THEN [x EXCEPT !.off = off]
      ELSE IF ok < m THEN [y EXCEPT !.off = off, !.part = copied]
      ELSE WriteFrom(Logs(y, x.addr), i, off + m, n - m, v, ok - m)

\* The file system after writei(); off is where it stopped.
LastOffset(size, off) == off                      \* mutant: always sets ip->size
Grown(size, off) == IF off > size THEN off ELSE size
TooBig(off, n) == off + n > MaxFile * Bsize
writei(w, i, off, n, v, ok) ==
  IF off > w.size[i] \/ TooBig(off, n) THEN [w EXCEPT !.off = off]
  ELSE LET x == WriteFrom(w, i, off, n, v, ok)
       IN  [x EXCEPT !.size[i] = Grown(@, x.off), !.log = @ \cup {<<"inode", i>>}]

---------------------------------------------------------------------------
(* mkfs: blocks are handed out in order, by iappend(); balloc() at the end *)
(* marks them in the bitmap.                                               *)

RECURSIVE iappend(_, _, _, _)
iappend(w, i, n, v) ==
  LET off == w.size[i]
      x == bmap(w, i, off \div Bsize)
  IN  IF n = 0 THEN w
      ELSE iappend([x EXCEPT !.blk[x.addr][off % Bsize] = v, !.size[i] = off + 1], i, n - 1, v)

\* "fix size of root inode dir": up to a whole number of blocks.
RootSize(n) == (n \div Bsize + 1) * Bsize

\* The root directory, then the file, n bytes long.
MkfsImage(n) ==
  LET none == [k \in 0 .. Ndirect |-> 0]
      blank == [used |-> {}, blk |-> [b \in 0 .. NBlocks |-> Zeroed],
                addrs |-> [i \in Inodes |-> none], size |-> [i \in Inodes |-> 0],
                stored |-> [b \in 0 .. NBlocks |-> Zeroed],
                addr |-> 0, off |-> 0, part |-> 0, log |-> {}, panic |-> "none"]
      image == iappend(iappend(blank, 1, RootEntries, Max(Bytes)), 2, n, Max(Bytes))
  IN  [image EXCEPT !.size[1] = RootSize(@), !.stored = image.blk, !.addr = 0, !.log = {}]

---------------------------------------------------------------------------
(* Calls.                                                                  *)

\* Contents s with n bytes v written at offset off, at most the length of s,
\* and the next part bytes, as far as there are any, perhaps written as well.
Over(s, off, n, part, v) ==
  [k \in 1 .. Max({Len(s), off + n}) |->
     IF off < k /\ k <= off + n THEN {v}
     ELSE IF off + n < k /\ k <= off + n + part THEN s[k] \cup {v} ELSE s[k]]

\* end_op(): the blocks that were logged go to the disk.
Committed(w) ==
  [w EXCEPT !.stored = [b \in DOMAIN @ |-> IF <<"data", b>> \in w.log THEN w.blk[b] ELSE @[b]],
            !.addr = 0, !.off = 0, !.part = 0, !.log = {}]

ContentInit ==
  /\ \E n \in FileSizes : fs = MkfsImage(n)
  /\ file = [i \in Inodes |-> LET s == readi(fs, i, 0, fs.size[i])
                              IN  [k \in DOMAIN s |-> {s[k]}]]
  /\ wr = Idle /\ logged = {} /\ writes = 0 /\ fsPanic = "none"

\* write() on a file open at offset off.
CallWrite(i) ==
  /\ wr = Idle /\ writes < MaxWrites /\ writes' = writes + 1
  /\ \E off \in 0 .. fs.size[i], n \in 1 .. MaxFile * Bsize, v \in Bytes :
       wr' = [i |-> i, off |-> off, n |-> n, v |-> v]
  /\ UNCHANGED <<fs, file, logged, fsPanic>>

\* One turn of the loop of filewrite(): a transaction of at most Chunk bytes.
BigChunk == ((MaxOpBlocks - 1 - 1) \div 2) * Bsize \* mutant: no slop
Chunk == ((MaxOpBlocks - 1 - 1 - 2) \div 2) * Bsize
WriteChunk ==
  /\ wr # Idle
  /\ \E ok \in 0 .. Min({wr.n, Chunk}) :
       LET n1 == Min({wr.n, Chunk})
           w == writei(fs, wr.i, wr.off, n1, wr.v, ok)
           r == w.off - wr.off
       IN  /\ fs' = Committed(w)
           /\ logged' = w.log /\ fsPanic' = w.panic
           /\ file' = [file EXCEPT ![wr.i] = Over(@, wr.off, r, w.part, wr.v)]
           /\ wr' = IF r # n1 \/ wr.n = n1 THEN Idle
                    ELSE [wr EXCEPT !.off = w.off, !.n = @ - n1]
  /\ UNCHANGED writes

\* open() with O_TRUNC, or iput() of the last reference.
Truncate(i) ==
  /\ wr = Idle /\ fs.size[i] > 0 /\ writes < MaxWrites /\ writes' = writes + 1
  /\ fs' = itrunc(fs, i) /\ fsPanic' = fs'.panic
  /\ file' = [file EXCEPT ![i] = <<>>]
  /\ UNCHANGED <<wr, logged>>

\* bget() gives the buffer of block b to another block; bread() reads b again.
Recycle(b) ==
  /\ fs.blk[b] # fs.stored[b]
  /\ fs' = [fs EXCEPT !.blk[b] = fs.stored[b]]
  /\ UNCHANGED <<file, wr, logged, writes, fsPanic>>

ContentNext ==
  /\ fsPanic = "none"
  /\ \/ \E i \in Inodes \ {1} : CallWrite(i) \/ Truncate(i)
     \/ WriteChunk \/ \E b \in 1 .. NBlocks : Recycle(b)

\* The kernel has stopped, or the calls are used up.
ContentStop ==
  /\ fsPanic # "none" \/ (wr = Idle /\ writes = MaxWrites)
  /\ UNCHANGED contentVars

---------------------------------------------------------------------------
(* Properties.                                                             *)

\* read() returns the bytes last written, from every offset, for one byte,
\* more than a block or the rest of the file, across the direct and the
\* indirect blocks.  After a write that failed half-way the bytes it counted
\* are there, and each byte of the block it failed in is the old or the new
\* one; no other byte and no length is affected.
ReadsBack ==
  fsPanic = "none" => \A i \in Inodes, off \in 0 .. MaxFile * Bsize, n \in {1, Bsize + 1, MaxFile * Bsize} :
    LET got == readi(fs, i, off, n)
        owed == SubSeq(file[i], off + 1, Min({off + n, Len(file[i])}))
    IN  Len(got) = Len(owed) /\ \A k \in DOMAIN got : got[k] \in owed[k]

\* Where the map of inode i points, and its indirect block.
Places == {<<i, k>> \in Inodes \X (0 .. MaxFile) : Pointed(fs, i)[k] # 0}

\* Every block the bitmap has in use belongs to one place in one file, and
\* every block of a file is marked in use: none is lost, shared or free.
BlocksOwned ==
  /\ fs.used = {Pointed(fs, ik[1])[ik[2]] : ik \in Places}
  /\ Cardinality(fs.used) = Cardinality(Places)

\* Reading never allocates: every block below the size of a file is there.
NoHoles ==
  \A i \in Inodes, bn \in 0 .. MaxFile - 1 : bn * Bsize < fs.size[i] => Pointed(fs, i)[bn] # 0

\* A chunk of filewrite() logs at most MAXOPBLOCKS blocks, the number
\* begin_op() reserves for it, even if it is not aligned, needs the indirect
\* block and every block it allocates is in another bitmap block.
LogBudget == Cardinality(logged) <= MaxOpBlocks
=============================================================================
