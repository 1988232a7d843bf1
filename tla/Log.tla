-------------------------------- MODULE Log --------------------------------
(***************************************************************************)
(* The redo log of kernel/log.c: begin_op, log_write, end_op and commit    *)
(* for concurrent file system calls, crashes at any point, and             *)
(* recover_from_log at boot.  The buffer cache below it is used as         *)
(* BufferCache shows it to behave: bread returns the latest contents of a  *)
(* block, and a pinned block stays cached.  A block write that a crash     *)
(* interrupts leaves TORN; the header fits one sector and is never torn.   *)
(***************************************************************************)
EXTENDS Naturals, FiniteSets

CONSTANTS Procs, Blocks, Data, TORN,
          MAXOPBLOCKS, LOGSIZE,
          size          \* log.size: blocks of the on-disk log, its header included

ASSUME LogAssumption ==
  /\ MAXOPBLOCKS \in Nat \ {0} /\ LOGSIZE \in Nat /\ LOGSIZE >= MAXOPBLOCKS
  /\ size \in Nat
  /\ IsFiniteSet(Procs) /\ IsFiniteSet(Blocks) /\ Blocks # {}
  /\ TORN \notin Data

Slot == 1 .. LOGSIZE

VARIABLES
  n, block,                 \* log.lh
  outstanding, committing,  \* struct log
  cache,        \* what bread returns for each block
  pc,           \* per process: idle, asleep in begin_op, in a call, or committing
  wrote,        \* per process: the blocks its call has logged
  at, tail,     \* where commit() or recover_from_log() is, and its loop index
  home, dlog, hdr,          \* the disk: blocks, log blocks, log header
  panic

memVars == <<n, block, outstanding, committing, cache>>
procVars == <<pc, wrote>>
stepVars == <<at, tail>>
diskVars == <<home, dlog, hdr>>
vars == <<memVars, procVars, stepVars, diskVars, panic>>

AnyBlock == CHOOSE b \in Blocks : TRUE
NoEntries == [i \in Slot |-> AnyBlock]

\* The machine boots from a disk whose log is empty.
Init ==
  /\ n = 0 /\ block = NoEntries /\ outstanding = 0 /\ committing = 0
  /\ home \in [Blocks -> Data] /\ cache = home
  /\ dlog = [i \in Slot |-> TORN]
  /\ hdr = [n |-> 0, block |-> NoEntries]
  /\ pc = [p \in Procs |-> "idle"] /\ wrote = [p \in Procs |-> {}]
  /\ at = "recover" /\ tail = 0
  /\ panic = "none"

Recovering == at \in {"recover", "rinstall", "rinstall2", "rclear"}
WakeNobody(f) == f                                \* mutant: no wakeup(&log)
Wake(f) == [q \in Procs |-> IF f[q] = "asleep" THEN "idle" ELSE f[q]]

---------------------------------------------------------------------------
(* begin_op, log_write and end_op, each a critical section of log.lock.    *)

FullWithout == n + outstanding * MAXOPBLOCKS > LOGSIZE   \* mutant: own call left out
Full == n + (outstanding + 1) * MAXOPBLOCKS > LOGSIZE

Committing == committing = 1

BeginOpWait(p) ==
  /\ ~Recovering /\ pc[p] = "idle"
  /\ Committing \/ Full
  /\ pc' = [pc EXCEPT ![p] = "asleep"]
  /\ UNCHANGED <<memVars, wrote, stepVars, diskVars, panic>>

Raised == outstanding + 1

BeginOp(p) ==
  /\ ~Recovering /\ pc[p] = "idle"
  /\ ~Committing /\ ~Full
  /\ outstanding' = Raised
  /\ pc' = [pc EXCEPT ![p] = "op"]
  /\ UNCHANGED <<n, block, committing, cache, wrote, stepVars, diskVars, panic>>

\* The caller has the buffer of b locked, changes it and logs it.  A call
\* logs at most MAXOPBLOCKS different blocks (param.h).
LogWrite(p, b, d) ==
  /\ pc[p] = "op"
  /\ Cardinality(wrote[p] \cup {b}) <= MAXOPBLOCKS
  /\ IF n >= LOGSIZE \/ n + 1 >= size
     THEN /\ panic' = "too big a transaction"
          /\ UNCHANGED <<n, block, cache, wrote>>
     ELSE IF outstanding < 1
     THEN /\ panic' = "log_write outside of trans"
          /\ UNCHANGED <<n, block, cache, wrote>>
     ELSE /\ IF \E i \in 1 .. n : block[i] = b
             THEN UNCHANGED <<n, block>>
             ELSE n' = n + 1 /\ block' = [block EXCEPT ![n + 1] = b]
          /\ cache' = [cache EXCEPT ![b] = d]
          /\ wrote' = [wrote EXCEPT ![p] = @ \cup {b}]
          /\ UNCHANGED panic
  /\ UNCHANGED <<outstanding, committing, pc, stepVars, diskVars>>

\* end_op when another call is still in progress.
EndOp(p) ==
  /\ pc[p] = "op" /\ outstanding # 1
  /\ IF committing = 1 THEN panic' = "log.committing" ELSE UNCHANGED panic
  /\ outstanding' = outstanding - 1
  /\ pc' = [Wake(pc) EXCEPT ![p] = "idle"]
  /\ wrote' = [wrote EXCEPT ![p] = {}]
  /\ UNCHANGED <<n, block, committing, cache, stepVars, diskVars>>

\* end_op of the last call, which goes on to commit().
EndOpLast(p) ==
  /\ pc[p] = "op" /\ outstanding = 1
  /\ IF committing = 1 THEN panic' = "log.committing" ELSE UNCHANGED panic
  /\ outstanding' = 0
  /\ committing' = 1
  /\ pc' = [pc EXCEPT ![p] = "commit"]
  /\ wrote' = [wrote EXCEPT ![p] = {}]
  /\ at' = (IF n > 0 THEN "log" ELSE "done") /\ tail' = 0
  /\ UNCHANGED <<n, block, cache, diskVars>>

---------------------------------------------------------------------------
(* commit(), run without log.lock.  Writing a block takes two steps.       *)

\* One iteration of write_log.
WriteLogBegin ==
  /\ at = "log" /\ tail < n
  /\ dlog' = [dlog EXCEPT ![tail + 1] = TORN]
  /\ at' = "log2"
  /\ UNCHANGED <<memVars, procVars, tail, home, hdr, panic>>

WriteLogEnd ==
  /\ at = "log2"
  /\ dlog' = [dlog EXCEPT ![tail + 1] = cache[block[tail + 1]]]
  /\ at' = "log" /\ tail' = tail + 1
  /\ UNCHANGED <<memVars, procVars, home, hdr, panic>>

write_head == hdr' = [n |-> n, block |-> [i \in Slot |-> IF i <= n THEN block[i] ELSE hdr.block[i]]]

AnyTail == TRUE                                   \* mutant: commits before write_log ends
LogWritten == tail = n

WriteHead ==
  /\ at = "log" /\ LogWritten
  /\ write_head
  /\ at' = "install" /\ tail' = 0
  /\ UNCHANGED <<memVars, procVars, home, dlog, panic>>

\* One iteration of install_trans, of commit() or of recover_from_log().
InstallBegin ==
  /\ at \in {"install", "rinstall"} /\ tail < n
  /\ home' = [home EXCEPT ![block[tail + 1]] = TORN]
  /\ at' = IF at = "install" THEN "install2" ELSE "rinstall2"
  /\ UNCHANGED <<memVars, procVars, tail, dlog, hdr, panic>>

NextTail == tail + 1

InstallEnd ==
  /\ at \in {"install2", "rinstall2"}
  /\ home' = [home EXCEPT ![block[tail + 1]] = dlog[tail + 1]]
  /\ cache' = [cache EXCEPT ![block[tail + 1]] = dlog[tail + 1]]
  /\ at' = (IF at = "install2" THEN "install" ELSE "rinstall") /\ tail' = NextTail
  /\ UNCHANGED <<n, block, outstanding, committing, procVars, dlog, hdr, panic>>

\* log.lh.n = 0, then write_head erases the transaction.
InstallDone ==
  /\ at \in {"install", "rinstall"} /\ tail = n
  /\ n' = 0 /\ tail' = 0
  /\ at' = IF at = "install" THEN "clear" ELSE "rclear"
  /\ UNCHANGED <<block, outstanding, committing, cache, procVars, diskVars, panic>>

ClearHead ==
  /\ at \in {"clear", "rclear"}
  /\ write_head
  /\ at' = IF at = "clear" THEN "done" ELSE "none"
  /\ UNCHANGED <<memVars, procVars, tail, home, dlog, panic>>

CommitDone(p) ==
  /\ at = "done" /\ pc[p] = "commit"
  /\ committing' = 0
  /\ pc' = [Wake(pc) EXCEPT ![p] = "idle"]
  /\ at' = "none"
  /\ UNCHANGED <<n, block, outstanding, cache, wrote, tail, diskVars, panic>>

\* kill() makes a process asleep in begin_op runnable; it tests again.
Kill(p) ==
  /\ pc[p] = "asleep"
  /\ pc' = [pc EXCEPT ![p] = "idle"]
  /\ UNCHANGED <<memVars, wrote, stepVars, diskVars, panic>>

---------------------------------------------------------------------------
(* A crash loses memory; the next boot runs recover_from_log first.        *)

Crash ==
  /\ n' = 0 /\ block' = NoEntries /\ outstanding' = 0 /\ committing' = 0
  /\ pc' = [p \in Procs |-> "idle"] /\ wrote' = [p \in Procs |-> {}]
  /\ cache' = home
  /\ at' = "recover" /\ tail' = 0
  /\ UNCHANGED <<diskVars, panic>>

ReadHead ==
  /\ at = "recover"
  /\ n' = hdr.n
  /\ block' = [i \in Slot |-> IF i <= hdr.n THEN hdr.block[i] ELSE block[i]]
  /\ at' = "rinstall" /\ tail' = 0
  /\ UNCHANGED <<outstanding, committing, cache, procVars, diskVars, panic>>

---------------------------------------------------------------------------
Op(p) == BeginOpWait(p) \/ BeginOp(p) \/ EndOp(p) \/ EndOpLast(p) \/ CommitDone(p)
           \/ Kill(p) \/ \E b \in Blocks, d \in Data : LogWrite(p, b, d)
Step == WriteLogBegin \/ WriteLogEnd \/ WriteHead \/ InstallBegin \/ InstallEnd
           \/ InstallDone \/ ClearHead \/ ReadHead

Next == panic = "none" /\ ((\E p \in Procs : Op(p)) \/ Step \/ Crash)
Spec == Init /\ [][Next]_vars

(* Calls end, commit and recovery go on; a machine that is not recovering  *)
(* may crash at any time but need not.                                     *)
Fairness ==
  /\ WF_vars(Step)
  /\ \A p \in Procs : WF_vars(EndOp(p) \/ EndOpLast(p)) /\ WF_vars(CommitDone(p))

FairSpec == Spec /\ Fairness

---------------------------------------------------------------------------
(* Properties.                                                             *)

Phases == {"none", "log", "log2", "install", "install2", "clear", "done",
           "recover", "rinstall", "rinstall2", "rclear"}

\* struct log, the on-disk log and the file system's blocks are well typed;
\* n stays within the header.
TypeOK ==
  /\ n \in 0 .. LOGSIZE /\ block \in [Slot -> Blocks]
  /\ outstanding \in Nat /\ committing \in {0, 1}
  /\ cache \in [Blocks -> Data \cup {TORN}]
  /\ pc \in [Procs -> {"idle", "asleep", "op", "commit"}]
  /\ wrote \in [Procs -> SUBSET Blocks]
  /\ at \in Phases /\ tail \in 0 .. LOGSIZE
  /\ home \in [Blocks -> Data \cup {TORN}]
  /\ dlog \in [Slot -> Data \cup {TORN}]
  /\ hdr \in [n : 0 .. LOGSIZE, block : [Slot -> Blocks]]

\* What recover_from_log would make of the disk as it is.
Entries(b) == {i \in 1 .. hdr.n : hdr.block[i] = b}
Durable == [b \in Blocks |->
              IF Entries(b) # {} THEN dlog[CHOOSE i \in Entries(b) : TRUE] ELSE home[b]]

InOp == {p \in Procs : pc[p] = "op"}

Store == INSTANCE AtomicStore WITH
  durable <- Durable, image <- (IF Recovering THEN Durable ELSE cache), active <- InOp

\* Crash atomicity: whatever write the machine crashes in, and however often
\* it crashes while recovering, the blocks it comes back with are those of
\* the last commit, and a commit takes in whole calls only.
ImplementsAtomicStore == Store!Spec

\* The entries that the calls in progress may still add: the k-th block of
\* call p, for each k that p has not logged yet.
Reserved == {pk \in InOp \X (1 .. MAXOPBLOCKS) : pk[2] > Cardinality(wrote[pk[1]])}

\* The reservation of begin_op: what is logged, plus what the calls in
\* progress may still log, fits the log header.
ReservationHolds == n + Cardinality(Reserved) <= LOGSIZE

\* Calls that keep to MAXOPBLOCKS reach no panic of log.c: none logs outside
\* begin_op and end_op, none ends while another commits, and none finds the
\* log full.
NoPanic == panic = "none"

\* A process asleep in begin_op is woken: when it waits there is a call in
\* progress or a commit, and either ends with a wakeup.
SleeperWoken == \A p \in Procs : pc[p] = "asleep" ~> pc[p] # "asleep"

\* Commit and recovery finish unless the machine keeps crashing.
LogComesToRest == []<><<Crash>>_vars \/ (at # "none" ~> at = "none")

\* Entries past the end of a header, and log blocks no header or commit in
\* progress covers, are written before they are read again.
Live ==
  <<n, [i \in 1 .. n |-> block[i]], outstanding, committing, cache, procVars, stepVars, home,
    hdr.n, [i \in 1 .. hdr.n |-> hdr.block[i]],
    [i \in 1 .. (IF hdr.n > 0 THEN hdr.n ELSE tail) |-> dlog[i]], panic>>
=============================================================================
