------------------------------ MODULE Spinlock ------------------------------
(***************************************************************************)
(* kernel/spinlock.c: acquire and release in the steps the machine takes,  *)
(* with push_off and pop_off keeping the interrupts of a CPU off while it  *)
(* holds a lock, under interrupts (kerneltrap of kernel/trap.c) and under  *)
(* threads that move between CPUs (sched, yield and scheduler of           *)
(* kernel/proc.c), which is what intena and its saving in sched() are for. *)
(*                                                                         *)
(* The threads are the processes, in the kernel with interrupts on as a    *)
(* system call is, and the scheduler of every CPU, named by the CPU.  They *)
(* take and release locks as they like, but in the kernel's order: a lock  *)
(* of DevLocks first, then the lock of one process, named by the process.  *)
(***************************************************************************)
EXTENDS Naturals, FiniteSets

CONSTANTS Cpus, SProcs, DevLocks, NONE

Threads == SProcs \cup Cpus
Locks == DevLocks \cup SProcs

\* What an interrupt puts aside: the thread was running, or inside push_off().
Trap == [lpc : {"run"}, want : Locks \cup {NONE}] \cup [lpc : {"off"}, want : Locks]

ASSUME SpinlockAssumption ==
  /\ Cpus \cap SProcs = {} /\ DevLocks \cap (SProcs \cup Cpus) = {}
  /\ NONE \notin Cpus \cup SProcs \cup DevLocks \cup Trap

VARIABLES
  locked, owner,       \* of every lock: lk->locked, lk->cpu
  noff, intena, sie,   \* of every CPU; sie: interrupts are enabled
  hold,                \* the locks a CPU is between acquire() and release() of
  run,                 \* the thread a CPU runs
  lpc, want, old,      \* of every thread: where it is, the lock, push_off()'s old
  phase,               \* "switch": it has taken the lock it will switch with
  trapped,             \* the [lpc, want] an interrupt has put aside, or NONE
  savedIntena          \* the local intena of sched()

lockVars == <<locked, owner>>
cpuState == <<noff, intena, sie>>
threadVars == <<run, phase, trapped, savedIntena>>
spinVars == <<lockVars, cpuState, hold, lpc, want, old, threadVars>>

\* Every CPU is at the top of scheduler(), every process in a sched() that
\* yield() called with interrupts on.
SpinInit ==
  /\ locked = [l \in Locks |-> FALSE] /\ owner = [l \in Locks |-> NONE]
  /\ noff = [c \in Cpus |-> 0] /\ intena = [c \in Cpus |-> FALSE]
  /\ sie = [c \in Cpus |-> TRUE] /\ hold = [c \in Cpus |-> {}]
  /\ run = [c \in Cpus |-> c]
  /\ lpc = [t \in Threads |-> IF t \in Cpus THEN "run" ELSE "switched"]
  /\ want = [t \in Threads |-> NONE] /\ old = [t \in Threads |-> FALSE]
  /\ phase = [t \in Threads |-> "none"] /\ trapped = [t \in Threads |-> NONE]
  /\ savedIntena = [t \in Threads |-> TRUE]

At(c, l) == lpc[run[c]] = l
StepTo(c, l) == lpc' = [lpc EXCEPT ![run[c]] = l]
Want(c) == want[run[c]]
holding(l, c) == locked[l] /\ owner[l] = c

---------------------------------------------------------------------------
(* acquire() and release().                                                *)

\* acquire(l) begins: push_off() reads intr_get().  A thread about to switch
\* takes nothing more.
MayTake(c, l) ==
  /\ hold[c] \cap SProcs = {} /\ (l \in DevLocks => hold[c] = {})
  /\ run[c] \in Cpus /\ trapped[run[c]] = NONE => l \in SProcs
Acquire(c, l) ==
  /\ At(c, "run") /\ MayTake(c, l) /\ StepTo(c, "off")
  /\ want' = [want EXCEPT ![run[c]] = l] /\ old' = [old EXCEPT ![run[c]] = sie[c]]
  /\ UNCHANGED <<lockVars, cpuState, hold, threadVars>>
\* intr_off(), the rest of push_off(), and the test for holding().
PushOff(c) ==
  /\ At(c, "off") /\ sie' = [sie EXCEPT ![c] = FALSE]
  /\ intena' = IF noff[c] = 0 THEN [intena EXCEPT ![c] = old[run[c]]] ELSE intena
  /\ noff' = [noff EXCEPT ![c] = @ + 1]
  /\ StepTo(c, IF holding(Want(c), c) THEN "panic" ELSE "spin")
  /\ UNCHANGED <<lockVars, hold, want, old, threadVars>>
SpinUntil(l) == TRUE                              \* mutant: takes a lock that is held
Unlocked(l) == ~locked[l]
Spin(c) ==
  /\ At(c, "spin") /\ Unlocked(Want(c)) /\ StepTo(c, "got")
  /\ locked' = [locked EXCEPT ![Want(c)] = TRUE]
  /\ UNCHANGED <<owner, cpuState, hold, want, old, threadVars>>
Got(c) ==
  /\ At(c, "got") /\ StepTo(c, "run") /\ owner' = [owner EXCEPT ![Want(c)] = c]
  /\ hold' = [hold EXCEPT ![c] = @ \cup {Want(c)}]
  /\ phase' = [phase EXCEPT ![run[c]] =
       IF Want(c) = run[c] \/ (run[c] \in Cpus /\ trapped[run[c]] = NONE) THEN "switch" ELSE @]
  /\ UNCHANGED <<locked, cpuState, want, old, run, trapped, savedIntena>>

Release(c, l) ==
  /\ At(c, "run") /\ l \in hold[c] /\ (phase[run[c]] = "switch" /\ run[c] \in SProcs => l # run[c])
  /\ want' = [want EXCEPT ![run[c]] = l]
  /\ IF holding(l, c)
     THEN /\ StepTo(c, "rel") /\ owner' = [owner EXCEPT ![l] = NONE]
          /\ hold' = [hold EXCEPT ![c] = @ \ {l}]
     ELSE StepTo(c, "panic") /\ UNCHANGED <<owner, hold>>
  /\ phase' = [phase EXCEPT ![run[c]] = IF run[c] \in Cpus THEN "none" ELSE @]
  /\ UNCHANGED <<locked, cpuState, old, run, trapped, savedIntena>>
Unlock(c) ==
  /\ At(c, "rel") /\ StepTo(c, "pop") /\ locked' = [locked EXCEPT ![Want(c)] = FALSE]
  /\ UNCHANGED <<owner, cpuState, hold, want, old, threadVars>>
PopOff(c) ==
  /\ At(c, "pop")
  /\ IF sie[c] \/ noff[c] < 1 THEN StepTo(c, "panic") /\ UNCHANGED cpuState
     ELSE /\ StepTo(c, "run") /\ noff' = [noff EXCEPT ![c] = @ - 1]
          /\ sie' = [sie EXCEPT ![c] = noff[c] = 1 /\ intena[c]] /\ UNCHANGED intena
  /\ UNCHANGED <<lockVars, hold, want, old, threadVars>>

---------------------------------------------------------------------------
(* Interrupts and context switches.                                        *)

Interrupt(c) ==
  /\ sie[c] /\ lpc[run[c]] \in {"run", "off"} /\ sie' = [sie EXCEPT ![c] = FALSE]
  /\ trapped' = [trapped EXCEPT ![run[c]] = [lpc |-> lpc[run[c]], want |-> want[run[c]]]]
  /\ StepTo(c, IF trapped[run[c]] # NONE THEN "panic" ELSE "run")
  /\ UNCHANGED <<lockVars, noff, intena, hold, want, old, run, phase, savedIntena>>
\* The end of kerneltrap(): sstatus as it was, with interrupts on.
Return(c) ==
  LET t == run[c] IN
  /\ At(c, "run") /\ trapped[t] # NONE /\ hold[c] = {}
  /\ lpc' = [lpc EXCEPT ![t] = trapped[t].lpc] /\ want' = [want EXCEPT ![t] = trapped[t].want]
  /\ old' = [old EXCEPT ![t] = TRUE] /\ sie' = [sie EXCEPT ![c] = TRUE]
  /\ trapped' = [trapped EXCEPT ![t] = NONE]
  /\ UNCHANGED <<lockVars, noff, intena, hold, run, phase, savedIntena>>

IntrOn(c) ==
  /\ run[c] = c /\ At(c, "run") /\ hold[c] = {} /\ trapped[c] = NONE /\ ~sie[c]
  /\ sie' = [sie EXCEPT ![c] = TRUE]
  /\ UNCHANGED <<lockVars, noff, intena, hold, lpc, want, old, threadVars>>

\* sched(): to the scheduler, with p->lock.
KeepsTheCpus(c) == FALSE                          \* mutant: intena is not saved
SavedIntena(c) == intena[c]
SchedPanics(c) == ~holding(run[c], c) \/ noff[c] # 1 \/ sie[c]
Sched(c) ==
  LET t == run[c] IN
  /\ t \in SProcs /\ At(c, "run") /\ phase[t] = "switch" /\ hold[c] = {t}
  /\ phase' = [phase EXCEPT ![t] = "none"] /\ savedIntena' = [savedIntena EXCEPT ![t] = SavedIntena(c)]
  /\ StepTo(c, IF SchedPanics(c) THEN "panic" ELSE "switched")
  /\ run' = IF SchedPanics(c) THEN run ELSE [run EXCEPT ![c] = c]
  /\ UNCHANGED <<lockVars, cpuState, hold, want, old, trapped>>
\* scheduler(): to p, in the middle of p's sched().
Swtch(c, p) ==
  /\ run[c] = c /\ At(c, "run") /\ phase[c] = "switch" /\ hold[c] = {p} /\ lpc[p] = "switched"
  /\ phase' = [phase EXCEPT ![c] = "none"] /\ lpc' = [lpc EXCEPT ![p] = "run"]
  /\ run' = [run EXCEPT ![c] = p] /\ intena' = [intena EXCEPT ![c] = savedIntena[p]]
  /\ UNCHANGED <<lockVars, noff, sie, hold, want, old, trapped, savedIntena>>

SpinStep(c) ==
  \/ \E l \in Locks : Acquire(c, l) \/ Release(c, l)
  \/ PushOff(c) \/ Spin(c) \/ Got(c) \/ Unlock(c) \/ PopOff(c)
  \/ Interrupt(c) \/ Return(c) \/ IntrOn(c) \/ Sched(c)
  \/ \E p \in SProcs : Swtch(c, p)
SpinNext == \E c \in Cpus : SpinStep(c)
SpinSpec == SpinInit /\ [][SpinNext]_spinVars

---------------------------------------------------------------------------
(* Properties.                                                             *)

\* Two CPUs are never between acquire() and release() of the same lock, and
\* a CPU that is has its interrupts off: no interrupt handler can spin on a
\* lock of the CPU it runs on.
MutualExclusion ==
  \A c \in Cpus :
    /\ \A d \in Cpus \ {c} : hold[c] \cap hold[d] = {}
    /\ hold[c] # {} => ~sie[c]

\* No panic of acquire, release, pop_off, sched or kerneltrap is reached,
\* and a process that holds no lock has interrupts as it wants them, on in
\* its own code and off in an interrupt's, on whatever CPU it runs now.
IntrRestored ==
  /\ \A t \in Threads : lpc[t] # "panic"
  /\ \A c \in Cpus : run[c] \in SProcs /\ hold[c] = {} /\ At(c, "run")
       => sie[c] = (trapped[run[c]] = NONE)
=============================================================================
