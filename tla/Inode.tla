------------------------------- MODULE Inode -------------------------------
(***************************************************************************)
(* The inode table of kernel/fs.c (iget, idup, ilock, iunlock, iput), the  *)
(* directories (dirlookup, dirlink, namex) and the system calls of         *)
(* kernel/sysfile.c that create, link, unlink and look up names, run by    *)
(* several processes.                                                      *)
(*                                                                         *)
(* A step is what a process does between two points where another process  *)
(* can come in: a critical section of itable.lock, or a stretch under one  *)
(* inode lock that takes no other.  The log makes a group of calls atomic  *)
(* on the disk: a crash falls back to the image at the last moment at      *)
(* which no call was inside begin_op() and end_op().                       *)
(*                                                                         *)
(* Abstractions: a directory is the function from names to inode numbers   *)
(* its entries spell, with 0 for no entry; file contents are FileContent's *)
(* subject; a path is a sequence of names.                                 *)
(***************************************************************************)
EXTENDS Naturals, Sequences, FiniteSets

CONSTANTS
  Procs,       \* the processes
  NInodes,     \* inode numbers are 1 .. NInodes, 1 is the root
  NINODE,      \* slots of the inode table
  Names,       \* what a directory entry can be called, dots included
  Calls,       \* the calls a process may make
  MaxCalls,    \* bound on the calls of all processes together
  MaxCrashes,  \* bound on crashes
  NULL

Slots == 1 .. NINODE

ASSUME InodeAssumption ==
  /\ {".", ".."} \subseteq Names /\ {NInodes, NINODE} \subseteq Nat \ {0}
  /\ {MaxCalls, MaxCrashes} \subseteq Nat
  /\ IsFiniteSet(Procs) /\ NULL \notin Slots \cup Procs
  /\ Calls \subseteq [op: STRING, abs: BOOLEAN, path: Seq(Names), new: Seq(Names)]

VARIABLES
  itable,   \* [inum, ref, valid, lock, type, nlink] of every slot
  dinode,   \* [type, nlink] of every inode on the disk
  dirents,  \* the entries of every directory on the disk
  saved,    \* the disk as of the last commit
  pc, call, path,   \* where a process is, in which call, names still to walk
  ip, dp, tgt,      \* its inode pointers: walking, parent, target
  put, ret,         \* the slot iput() is dropping, and where it returns to
  cwd, fd,          \* current directory; inode of its open file
  calls, crashes, panic

diskVars == <<dinode, dirents>>
ptrVars == <<ip, dp, tgt, cwd, fd>>
vars == <<itable, diskVars, saved, pc, call, path, ptrVars, put, ret, calls, crashes, panic>>

ROOTINO == 1
Inums == 1 .. NInodes
Empty == [n \in Names |-> 0]
Free == [type |-> "none", nlink |-> 0]

(* What mkfs leaves: a root whose two entries name itself, with one link.  *)
Mkfs ==
  /\ dinode = [i \in Inums |-> IF i = ROOTINO THEN [type |-> "dir", nlink |-> 1] ELSE Free]
  /\ dirents = [i \in Inums |-> [n \in Names |->
                  IF i = ROOTINO /\ n \in {".", ".."} THEN ROOTINO ELSE 0]]

(* The tables of a freshly booted kernel: every process stands in the root *)
(* directory, which nobody has read yet.                                   *)
BootTable ==
  [s \in Slots |-> [inum |-> IF s = 1 THEN ROOTINO ELSE 0,
                    ref |-> IF s = 1 THEN Cardinality(Procs) ELSE 0,
                    valid |-> FALSE, lock |-> NULL, type |-> "none", nlink |-> 0]]
Nobody(v) == [p \in Procs |-> v]

Init ==
  /\ Mkfs /\ saved = diskVars /\ itable = BootTable
  /\ pc = Nobody("idle") /\ call = Nobody(NULL) /\ path = Nobody(<<>>)
  /\ ip = Nobody(NULL) /\ dp = Nobody(NULL) /\ tgt = Nobody(NULL)
  /\ put = Nobody(NULL) /\ ret = Nobody("idle")
  /\ cwd = Nobody(1) /\ fd = Nobody(NULL)
  /\ calls = 0 /\ crashes = 0 /\ panic = "none"

---------------------------------------------------------------------------
(* The inode table.                                                        *)

\* The slot iget() finds or, when there is none, recycles; 0 if it panics.
Slot(it, i) ==
  LET hit == {s \in Slots : it[s].ref > 0 /\ it[s].inum = i}
      empty == {s \in Slots : it[s].ref = 0}
      first(S) == CHOOSE s \in S : \A t \in S : s <= t
  IN  IF hit # {} THEN first(hit) ELSE IF empty # {} THEN first(empty) ELSE 0

\* Otherwise iget(i) panics.
HasSlot(i) == Slot(itable, i) # 0

Referenced(it, s) == [it EXCEPT ![s].ref = @ + 1]

iget(it, i) ==
  LET s == Slot(it, i)
  IN  IF it[s].ref > 0 THEN Referenced(it, s)
      ELSE [it EXCEPT ![s].inum = i, ![s].ref = 1, ![s].valid = FALSE]

idup(it, s) == Referenced(it, s)

\* ilock() gets past acquiresleep() and, if it has to read the inode, does
\* not find it free.
Lockable(s) ==
  /\ itable[s].lock = NULL
  /\ itable[s].valid \/ dinode[itable[s].inum].type # "none"

\* The table once p has locked slot s, and once slot s is unlocked.
ilock(it, p, s) ==
  LET d == dinode[it[s].inum]
  IN  IF it[s].valid THEN [it EXCEPT ![s].lock = p]
      ELSE [it EXCEPT ![s].lock = p, ![s].valid = TRUE,
                      ![s].type = d.type, ![s].nlink = d.nlink]
iunlock(it, s) == [it EXCEPT ![s].lock = NULL]

\* A visit to slot s: locked, read if need be and unlocked again.
Visited(p, s) == iunlock(ilock(itable, p, s), s)

\* Slot s with n links, in memory and (iupdate) on the disk.
SetLinks(it, s, n) == [it EXCEPT ![s].nlink = n]
iupdate(di, it, s) == [di EXCEPT ![it[s].inum] = [type |-> it[s].type, nlink |-> it[s].nlink]]

\* p goes on with iput(s) and, when that is done, at label l.
Iput(p, s, l) ==
  /\ pc' = [pc EXCEPT ![p] = "put"]
  /\ put' = [put EXCEPT ![p] = s] /\ ret' = [ret EXCEPT ![p] = l]
Goto(p, l) == pc' = [pc EXCEPT ![p] = l] /\ UNCHANGED <<put, ret>>

\* iput() drops a reference ...
PutDrop(p) ==
  /\ pc[p] = "put"
  /\ LET e == itable[put[p]] IN ~(e.ref = 1 /\ e.valid /\ e.nlink = 0)
  /\ itable' = [itable EXCEPT ![put[p]].ref = @ - 1]
  /\ pc' = [pc EXCEPT ![p] = ret[p]] /\ put' = [put EXCEPT ![p] = NULL]
  /\ UNCHANGED <<diskVars, saved, call, path, ptrVars, ret, calls, crashes, panic>>

\* ... or, if it is the last one to an inode without links, locks the inode,
PutLock(p) ==
  /\ pc[p] = "put"
  /\ LET e == itable[put[p]] IN e.ref = 1 /\ e.valid /\ e.nlink = 0 /\ e.lock = NULL
  /\ itable' = [itable EXCEPT ![put[p]].lock = p]
  /\ pc' = [pc EXCEPT ![p] = "trunc"]
  /\ UNCHANGED <<diskVars, saved, call, path, ptrVars, put, ret, calls, crashes, panic>>

\* discards the contents and frees the inode on the disk,
PutTrunc(p) ==
  /\ pc[p] = "trunc"
  /\ itable' = [itable EXCEPT ![put[p]].type = "none"]
  /\ dinode' = iupdate(dinode, itable', put[p])
  /\ dirents' = [dirents EXCEPT ![itable[put[p]].inum] = Empty]
  /\ pc' = [pc EXCEPT ![p] = "inval"]
  /\ UNCHANGED <<saved, call, path, ptrVars, put, ret, calls, crashes, panic>>

\* forgets the copy in memory and unlocks it,
StillValid(it, s) == it                           \* mutant: ip->valid = 0 forgotten
Invalidated(it, s) == [it EXCEPT ![s].valid = FALSE]
PutInval(p) ==
  /\ pc[p] = "inval"
  /\ itable' = iunlock(Invalidated(itable, put[p]), put[p])
  /\ pc' = [pc EXCEPT ![p] = "drop"]
  /\ UNCHANGED <<diskVars, saved, call, path, ptrVars, put, ret, calls, crashes, panic>>

\* and only then drops the reference.
PutLast(p) ==
  /\ pc[p] = "drop"
  /\ itable' = [itable EXCEPT ![put[p]].ref = @ - 1]
  /\ pc' = [pc EXCEPT ![p] = ret[p]] /\ put' = [put EXCEPT ![p] = NULL]
  /\ UNCHANGED <<diskVars, saved, call, path, ptrVars, ret, calls, crashes, panic>>

iput(p) == PutDrop(p) \/ PutLock(p) \/ PutTrunc(p) \/ PutInval(p) \/ PutLast(p)
=============================================================================
