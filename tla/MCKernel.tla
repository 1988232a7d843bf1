------------------------------ MODULE MCKernel ------------------------------
(***************************************************************************)
(* Parts of the system that share no state, for TLC: each behaviour is one *)
(* of them, chosen by mode, and the rest stand still.                      *)
(***************************************************************************)
EXTENDS Queues, FsCalls, FileContent, Memory, Spinlock, ShellCmd

VARIABLE mode

Modes == {"cfq", "sstf", "calls", "content", "memory", "locks", "parser"}

KernelInit ==
  /\ mode \in Modes /\ QueuesInit /\ Init /\ SpinInit /\ LineInit
  /\ IF mode = "memory" THEN MemInit ELSE mem = NIL /\ aspace = NIL
  /\ IF mode = "content" THEN ContentInit
     ELSE fs = NIL /\ file = NIL /\ wr = NIL /\ logged = {} /\ writes = 0 /\ fsPanic = "none"

Others(m) ==
  /\ UNCHANGED mode
  /\ m \notin {"cfq", "sstf"} => UNCHANGED queueVars
  /\ m # "calls" => UNCHANGED vars
  /\ m # "content" => UNCHANGED contentVars
  /\ m # "memory" => UNCHANGED memVars
  /\ m # "locks" => UNCHANGED spinVars
  /\ m # "parser" => UNCHANGED line

KernelNext ==
  \/ mode = "cfq" /\ (HeapNext \/ QueuesStop) /\ Others("cfq")
  \/ mode = "sstf" /\ (SstfNext \/ QueuesStop) /\ Others("sstf")
  \/ mode = "calls" /\ (Next \/ Stop) /\ Others("calls")
  \/ mode = "content" /\ (ContentNext \/ ContentStop) /\ Others("content")
  \/ mode = "memory" /\ MemNext /\ Others("memory")
  \/ mode = "locks" /\ SpinNext /\ Others("locks")
  \/ mode = "parser" /\ (LineNext \/ LineStop) /\ Others("parser")

KernelSpec ==
  KernelInit /\ [][KernelNext]_<<mode, queueVars, vars, contentVars, memVars, spinVars, line>>

---------------------------------------------------------------------------
(* Constants.  The calls are about files "a" and directories "d" in the    *)
(* root and one level below; an image is a sequence of program headers.    *)

C(op, abs, names) == [op |-> op, abs |-> abs, path |-> names, new |-> <<>>]
MCNames == {".", "..", "a", "d"}
MCCalls ==
  {C("creat", FALSE, <<"d", "a">>), C("mkdir", FALSE, <<"d">>), C("mknod", FALSE, <<"a">>),
   C("unlink", TRUE, <<"d">>), C("unlink", TRUE, <<"d", "a">>), C("unlink", TRUE, <<>>),
   C("chdir", FALSE, <<"d">>), C("openw", FALSE, <<"d">>), C("open", FALSE, <<"..", "a">>),
   [op |-> "link", abs |-> FALSE, path |-> <<"d", "a">>, new |-> <<"a">>]}

Ph(v, m, f, r) == [vaddr |-> v, memsz |-> m, filesz |-> f, readable |-> r]
MCImages ==
  {<<Ph(0, 3, 2, TRUE)>>, <<Ph(0, 2, 2, TRUE), Ph(2, 1, 1, FALSE)>>, <<Ph(0, 1, 2, TRUE)>>,
   <<Ph(0, 1, 1, TRUE), Ph(1, 2, 1, TRUE)>>, <<Ph(2, 2, 2, TRUE), Ph(0, 1, 1, TRUE)>>}

\* No arguments, one, two (more than the stack has room for), and a bad one.
MCArgs == {<<>>, <<0>>, <<0, 0>>, <<0, MaxSz>>}

Symmetry == Permutations(Procs \cup SProcs)

---------------------------------------------------------------------------
(* Views: states that no step and no property tells apart.                 *)

\* The entries past the end of a queue are written before they are read.
QueuesView ==
  <<heap.Size, queue.size, fault, heapDue, sstfDue, early,
    [i \in 0 .. Capacity - 1 |-> IF i = 0 \/ i <= heap.Size THEN heap.data[i] ELSE Nothing],
    [i \in 0 .. Capacity - 1 |-> IF i < queue.size THEN queue.data[i] ELSE Nothing]>>

\* What no step reads before it writes it: the fields of a free slot, the
\* type and links of a slot that is not valid, the return label of no iput(),
\* and the last commit once there can be no crash.
CallsView ==
  <<[s \in Slots |-> LET e == itable[s] IN
       IF e.ref = 0 THEN NULL
       ELSE IF e.valid THEN e ELSE [e EXCEPT !.type = "none", !.nlink = 0]],
    [p \in Procs |-> IF put[p] = NULL THEN NULL ELSE ret[p]],
    IF crashes = MaxCrashes THEN NULL ELSE saved,
    diskVars, pc, call, path, ptrVars, put, calls, crashes, panic>>

\* The page tables up to the names of pages, and what was lost of them.
RECURSIVE Shape(_, _)
Shape(pt, level) ==
  [i \in Index |-> LET e == mem.ent[pt][i] IN
     IF e = NIL THEN <<>> ELSE IF e.kind # "table" THEN <<e.kind>> ELSE <<Shape(e.pa, level - 1)>>]
MemoryView ==
  <<[p \in MProcs |-> IF aspace[p] = NIL THEN <<>>
                      ELSE <<aspace[p].sz, Shape(aspace[p].pagetable, Levels - 1)>>],
    Cardinality(mem.free), mem.panic, PagesAccounted>>

\* Without locals that are set before they are read again.
LocksView ==
  <<locked, owner, noff, sie, hold, run, lpc, phase,
    [c \in Cpus |-> noff[c] > 0 /\ intena[c]],
    [t \in Threads |-> <<IF lpc[t] \in {"off", "spin", "got", "rel"} THEN want[t] ELSE NONE,
                         lpc[t] = "off" /\ old[t], lpc[t] = "switched" /\ savedIntena[t]>>],
    [t \in Threads |-> IF trapped[t] = NONE THEN <<>>
                       ELSE IF trapped[t].lpc = "run" THEN <<"run">> ELSE <<trapped[t]>>]>>

View ==
  <<mode,
    CASE mode \in {"cfq", "sstf"} -> QueuesView
      [] mode = "calls" -> CallsView
      [] mode = "content" -> contentVars
      [] mode = "memory" -> MemoryView
      [] mode = "locks" -> LocksView
      [] mode = "parser" -> line>>

---------------------------------------------------------------------------
(* Properties of files and memory, which are there in their own modes.     *)

\* ReadsBack and NoHoles of FileContent: readi() returns what was last
\* written, and never has to allocate a block for it.
FilesReadBack == mode = "content" => ReadsBack /\ NoHoles
\* BlocksOwned of FileContent: a block in use has one place in one file.
BlocksHaveOwner == mode = "content" => BlocksOwned
\* PagesAccounted of Memory: a page is free or in exactly one place.
PagesHaveHolder == mode = "memory" => PagesAccounted
\* SpaceIsSize of Memory: the pages below sz, and no others, are mapped.
SpaceMatchesSize == mode = "memory" => SpaceIsSize
=============================================================================
