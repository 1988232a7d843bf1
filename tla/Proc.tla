-------------------------------- MODULE Proc --------------------------------
(***************************************************************************)
(* The life of a process in kernel/proc.c: fork, exit, wait, kill, sleep,  *)
(* wakeup, yield and the per-CPU scheduler, down to the locks.  p->lock is *)
(* held across swtch(): taken by the process and released by the scheduler *)
(* on the way out, the other way round on the way in.  All other critical  *)
(* sections of a p->lock are one step, and wait_lock is held as long as    *)
(* the code holds it, over scans of the table that take one step an entry. *)
(***************************************************************************)
EXTENDS Naturals, FiniteSetsExt

CONSTANTS NPROC, NCPU

ASSUME TableAssumption == NPROC \in Nat \ {0} /\ NCPU \in Nat \ {0}

Procs == 1 .. NPROC
initproc == 1
NULL == 0

VARIABLES
  state, parent, chan, killed,    \* struct proc
  lock,       \* p->lock is held across a swtch()
  at,         \* the kernel thread: "on" a CPU, switching "in" or "out", or "off"
  on,         \* on how many CPUs c->proc is p
  wait_lock,  \* its holder, or NULL
  pc,         \* where the thread is
  np,         \* its loop variable over proc[], or the child fork has allocated
  wk,         \* the loop variable of a wakeup() it has called
  havekids

procVars == <<state, parent, chan, killed>>
cpuVars == <<lock, at, on>>
localVars == <<pc, np, wk, havekids>>
vars == <<procVars, cpuVars, wait_lock, localVars>>

\* userinit has made the first process.
Init ==
  /\ state = [p \in Procs |-> IF p = initproc THEN "RUNNABLE" ELSE "UNUSED"]
  /\ parent = [p \in Procs |-> NULL] /\ chan = [p \in Procs |-> NULL]
  /\ killed = [p \in Procs |-> 0]
  /\ lock = [p \in Procs |-> FALSE] /\ at = [p \in Procs |-> "off"]
  /\ on = [p \in Procs |-> 0]
  /\ wait_lock = NULL
  /\ pc = [p \in Procs |-> "run"] /\ np = [p \in Procs |-> 0]
  /\ wk = [p \in Procs |-> 0] /\ havekids = [p \in Procs |-> FALSE]

IdleCpus == NCPU - MapThenSumSet(LAMBDA p : on[p], Procs)

At(p, l) == at[p] = "on" /\ pc[p] = l
Goto(p, l) == pc' = [pc EXCEPT ![p] = l]

NextEntry(i) == i + 1                             \* np++ in a loop over proc[]

---------------------------------------------------------------------------
(* The scheduler and the context switch.                                   *)

UnlockedEarly == FALSE                            \* mutant: released before swtch()
LockedOut == TRUE

\* p acquires p->lock, becomes s and calls sched().
Sched(p, s) ==
  /\ ~lock[p]
  /\ state' = [state EXCEPT ![p] = s]
  /\ lock' = [lock EXCEPT ![p] = LockedOut]
  /\ at' = [at EXCEPT ![p] = "out"]

\* swtch() has returned to scheduler(), which releases p->lock.
SwitchedOut(p) ==
  /\ at[p] = "out"
  /\ on' = [on EXCEPT ![p] = @ - 1]
  /\ lock' = [lock EXCEPT ![p] = FALSE]
  /\ at' = [at EXCEPT ![p] = "off"]
  /\ UNCHANGED <<procVars, wait_lock, localVars>>

Pick(p) ==
  /\ IdleCpus > 0 /\ ~lock[p] /\ state[p] = "RUNNABLE"
  /\ state' = [state EXCEPT ![p] = "RUNNING"]
  /\ on' = [on EXCEPT ![p] = @ + 1]
  /\ lock' = [lock EXCEPT ![p] = TRUE]
  /\ at' = [at EXCEPT ![p] = "in"]
  /\ UNCHANGED <<parent, chan, killed, wait_lock, localVars>>

\* The thread goes on in forkret, yield or sleep, which release p->lock.
SwitchedIn(p) ==
  /\ at[p] = "in"
  /\ chan' = [chan EXCEPT ![p] = NULL]
  /\ lock' = [lock EXCEPT ![p] = FALSE]
  /\ at' = [at EXCEPT ![p] = "on"]
  /\ UNCHANGED <<state, parent, killed, on, wait_lock, localVars>>

\* A timer interrupt, in user space or in the kernel where no lock is held.
Yield(p) ==
  /\ at[p] = "on" /\ pc[p] \in {"run", "alloc", "adopt", "start", "wait", "exit"}
  /\ Sched(p, "RUNNABLE")
  /\ UNCHANGED <<parent, chan, killed, on, wait_lock, localVars>>

---------------------------------------------------------------------------
(* System calls start from "run"; usertrap tests p->killed first.          *)

Enter(p, l) ==
  /\ At(p, "run") /\ killed[p] = 0
  /\ Goto(p, l)
  /\ np' = [np EXCEPT ![p] = 1]
  /\ UNCHANGED <<procVars, cpuVars, wait_lock, wk, havekids>>

CallFork(p) == Enter(p, "alloc")
CallWait(p) == Enter(p, "wait")

Leave(p) == Goto(p, "run") /\ np' = [np EXCEPT ![p] = 0]

\* One step of allocproc's scan.  Where it finds an unused entry, the rest of
\* allocproc and the copying in fork() follow under np->lock; when memory runs
\* out they free the entry again.
AllocProc(p) ==
  /\ At(p, "alloc")
  /\ \/ np[p] > NPROC /\ Leave(p) /\ UNCHANGED state
     \/ /\ np[p] <= NPROC /\ ~lock[np[p]] /\ state[np[p]] # "UNUSED"
        /\ np' = [np EXCEPT ![p] = NextEntry(@)]
        /\ UNCHANGED <<state, pc>>
     \/ /\ np[p] <= NPROC /\ ~lock[np[p]] /\ state[np[p]] = "UNUSED"
        /\ state' = [state EXCEPT ![np[p]] = "USED"]
        /\ pc' = [pc EXCEPT ![p] = "adopt", ![np[p]] = "run"]
        /\ UNCHANGED np
     \/ /\ np[p] <= NPROC /\ ~lock[np[p]] /\ state[np[p]] = "UNUSED"
        /\ Leave(p) /\ UNCHANGED state
  /\ UNCHANGED <<parent, chan, killed, cpuVars, wait_lock, wk, havekids>>

\* fork(): np->parent = p, under wait_lock.
Adopt(p) ==
  /\ At(p, "adopt") /\ wait_lock = NULL
  /\ parent' = [parent EXCEPT ![np[p]] = p]
  /\ Goto(p, "start")
  /\ UNCHANGED <<state, chan, killed, cpuVars, wait_lock, np, wk, havekids>>

StartChild(p) ==
  /\ At(p, "start") /\ ~lock[np[p]]
  /\ state' = [state EXCEPT ![np[p]] = "RUNNABLE"]
  /\ Leave(p)
  /\ UNCHANGED <<parent, chan, killed, cpuVars, wait_lock, wk, havekids>>

AnyState(t) == TRUE                               \* mutant: wakes whatever it finds
Asleep(t) == state[t] = "SLEEPING"

\* kill(): the scan ends at the entry with the pid.  No program kills init.
Kill(p, t) ==
  /\ At(p, "run") /\ killed[p] = 0
  /\ t # initproc /\ ~lock[t] /\ state[t] # "UNUSED"
  /\ killed' = [killed EXCEPT ![t] = 1]
  /\ state' = IF Asleep(t) THEN [state EXCEPT ![t] = "RUNNABLE"] ELSE state
  /\ UNCHANGED <<parent, chan, cpuVars, wait_lock, localVars>>

---------------------------------------------------------------------------
(* wait().                                                                 *)

WaitLock(p) ==
  /\ At(p, "wait") /\ wait_lock = NULL
  /\ wait_lock' = p
  /\ Goto(p, "scan")
  /\ np' = [np EXCEPT ![p] = 1]
  /\ havekids' = [havekids EXCEPT ![p] = FALSE]
  /\ UNCHANGED <<procVars, cpuVars, wk>>

ScanOther(p) ==
  /\ At(p, "scan") /\ np[p] <= NPROC /\ parent[np[p]] # p
  /\ np' = [np EXCEPT ![p] = NextEntry(@)]
  /\ UNCHANGED <<procVars, cpuVars, wait_lock, pc, wk, havekids>>

ChildLock(c) == ~lock[c]

ScanLiving(p) ==
  /\ At(p, "scan") /\ np[p] <= NPROC /\ parent[np[p]] = p /\ ChildLock(np[p])
  /\ state[np[p]] # "ZOMBIE"
  /\ havekids' = [havekids EXCEPT ![p] = TRUE]
  /\ np' = [np EXCEPT ![p] = NextEntry(@)]
  /\ UNCHANGED <<procVars, cpuVars, wait_lock, pc, wk>>

freeproc(c) ==
  /\ state' = [state EXCEPT ![c] = "UNUSED"]
  /\ parent' = [parent EXCEPT ![c] = NULL]
  /\ chan' = [chan EXCEPT ![c] = NULL]
  /\ killed' = [killed EXCEPT ![c] = 0]

\* copyout of the exit status fails for a bad address; init passes none.
ScanZombie(p) ==
  /\ At(p, "scan") /\ np[p] <= NPROC /\ parent[np[p]] = p /\ ChildLock(np[p])
  /\ state[np[p]] = "ZOMBIE"
  /\ freeproc(np[p]) \/ (p # initproc /\ UNCHANGED procVars)
  /\ wait_lock' = NULL
  /\ Leave(p)
  /\ havekids' = [havekids EXCEPT ![p] = FALSE]
  /\ UNCHANGED <<cpuVars, wk>>

WaitFails(p) ==
  /\ At(p, "scan") /\ np[p] > NPROC
  /\ ~havekids[p] \/ killed[p] = 1
  /\ wait_lock' = NULL
  /\ Leave(p)
  /\ havekids' = [havekids EXCEPT ![p] = FALSE]
  /\ UNCHANGED <<procVars, cpuVars, wk>>

\* Nobody is told of a kill() between this test and sleep().
WaitGoesOn(p) ==
  /\ At(p, "scan") /\ np[p] > NPROC
  /\ havekids[p] /\ killed[p] = 0
  /\ Goto(p, "sleep")
  /\ UNCHANGED <<procVars, cpuVars, wait_lock, np, wk, havekids>>

\* sleep(p, &wait_lock): p->lock is acquired before wait_lock is released.
\* When it returns, wait() acquires wait_lock and scans again.
WaitSleep(p) ==
  /\ At(p, "sleep")
  /\ Sched(p, "SLEEPING")
  /\ chan' = [chan EXCEPT ![p] = p]
  /\ wait_lock' = NULL
  /\ Goto(p, "wait")
  /\ np' = [np EXCEPT ![p] = 0]
  /\ havekids' = [havekids EXCEPT ![p] = FALSE]
  /\ UNCHANGED <<parent, killed, on, wk>>

---------------------------------------------------------------------------
(* exit().                                                                 *)

\* By the system call, or because usertrap finds p->killed set.
CallExit(p) ==
  /\ At(p, "run") /\ p # initproc
  /\ Goto(p, "exit")
  /\ UNCHANGED <<procVars, cpuVars, wait_lock, np, wk, havekids>>

ExitLock(p) ==
  /\ At(p, "exit") /\ wait_lock = NULL
  /\ wait_lock' = p
  /\ Goto(p, "reparent")
  /\ np' = [np EXCEPT ![p] = 1]
  /\ UNCHANGED <<procVars, cpuVars, wk, havekids>>

Adopted(c) == [parent EXCEPT ![c] = initproc]

Reparent(p) ==
  /\ At(p, "reparent")
  /\ \/ np[p] <= NPROC /\ parent[np[p]] # p
        /\ np' = [np EXCEPT ![p] = NextEntry(@)] /\ UNCHANGED <<parent, pc, wk>>
     \/ np[p] <= NPROC /\ parent[np[p]] = p
        /\ parent' = Adopted(np[p])
        /\ np' = [np EXCEPT ![p] = NextEntry(@)]
        /\ Goto(p, "wakeinit") /\ wk' = [wk EXCEPT ![p] = 1]
     \/ np[p] > NPROC
        /\ Goto(p, "wakeparent") /\ wk' = [wk EXCEPT ![p] = 1]
        /\ np' = [np EXCEPT ![p] = 0] /\ UNCHANGED parent
  /\ UNCHANGED <<state, chan, killed, cpuVars, wait_lock, havekids>>

WakesNobody(t, c) == FALSE                        \* mutant: no wakeup
Wakes(t, c) == state[t] = "SLEEPING" /\ chan[t] = c

\* wakeup(initproc) and wakeup(p->parent), one entry of the table at a time.
Wakeup(p) ==
  /\ At(p, "wakeinit") \/ At(p, "wakeparent")
  /\ wk[p] <= NPROC
  /\ LET c == IF pc[p] = "wakeinit" THEN initproc ELSE parent[p]
         t == wk[p]
     IN  /\ t # p => ~lock[t]
         /\ state' = IF t # p /\ Wakes(t, c) THEN [state EXCEPT ![t] = "RUNNABLE"] ELSE state
  /\ wk' = [wk EXCEPT ![p] = NextEntry(@)]
  /\ UNCHANGED <<parent, chan, killed, cpuVars, wait_lock, pc, np, havekids>>

WakeupDone(p) ==
  /\ At(p, "wakeinit") /\ wk[p] > NPROC
  /\ Goto(p, "reparent")
  /\ wk' = [wk EXCEPT ![p] = 0]
  /\ UNCHANGED <<procVars, cpuVars, wait_lock, np, havekids>>

ExitZombie(p) ==
  /\ At(p, "wakeparent") /\ wk[p] > NPROC
  /\ Sched(p, "ZOMBIE")
  /\ wait_lock' = NULL
  /\ Goto(p, "dead")
  /\ wk' = [wk EXCEPT ![p] = 0]
  /\ UNCHANGED <<parent, chan, killed, on, np, havekids>>

---------------------------------------------------------------------------
Call(p) == CallFork(p) \/ CallWait(p) \/ CallExit(p) \/ \E t \in Procs : Kill(p, t)
Acquire(p) == Adopt(p) \/ WaitLock(p) \/ ExitLock(p)
Step(p) == AllocProc(p) \/ StartChild(p) \/ ScanOther(p) \/ ScanLiving(p) \/ ScanZombie(p)
             \/ WaitFails(p) \/ WaitGoesOn(p) \/ WaitSleep(p) \/ Reparent(p) \/ Wakeup(p) \/ WakeupDone(p)
             \/ ExitZombie(p)
Switch(p) == SwitchedOut(p) \/ SwitchedIn(p)

Next == \E p \in Procs :
  Call(p) \/ Acquire(p) \/ Step(p) \/ Switch(p) \/ Pick(p) \/ Yield(p)

Spec == Init /\ [][Next]_vars

---------------------------------------------------------------------------
(* Properties.                                                             *)

\* The process table and the threads are well typed.
TypeOK ==
  /\ state \in [Procs -> {"UNUSED", "USED", "SLEEPING", "RUNNABLE", "RUNNING", "ZOMBIE"}]
  /\ parent \in [Procs -> Procs \cup {NULL}] /\ chan \in [Procs -> Procs \cup {NULL}]
  /\ killed \in [Procs -> {0, 1}] /\ lock \in [Procs -> BOOLEAN]
  /\ at \in [Procs -> {"on", "in", "out", "off"}] /\ on \in [Procs -> 0 .. NCPU]
  /\ wait_lock \in Procs \cup {NULL}
  /\ pc \in [Procs -> {"run", "alloc", "adopt", "start", "wait", "scan", "sleep", "exit", "reparent",
                       "wakeinit", "wakeparent", "dead"}]
  /\ np \in [Procs -> 0 .. NPROC + 1] /\ wk \in [Procs -> 0 .. NPROC + 1]
  /\ havekids \in [Procs -> BOOLEAN]

\* p->lock is passed along with the CPU: no kernel thread runs on two CPUs,
\* or is picked while another CPU is still on its stack.
OneCpu == \A p \in Procs : on[p] = (IF at[p] = "off" THEN 0 ELSE 1)

\* wait() frees a child only when it has left exit() and swtch(): an entry
\* that is free or being set up has no CPU on its kernel stack.
FreedOffCpu == \A p \in Procs : state[p] \in {"UNUSED", "USED"} => on[p] = 0

\* Every process but init has a parent that can still wait() for it: exit()
\* passes all children on before it becomes a zombie.
ParentLives ==
  \A p \in Procs \ {initproc} : state[p] \in {"SLEEPING", "RUNNABLE", "RUNNING", "ZOMBIE"} =>
    /\ parent[p] \in Procs
    /\ state[parent[p]] \in {"SLEEPING", "RUNNABLE", "RUNNING"}

\* No lost wakeup: while wait_lock is free, nobody sleeps in wait() who has
\* a zombie to collect.
NoZombieAwaited ==
  wait_lock = NULL => \A p, c \in Procs :
    state[p] = "SLEEPING" /\ parent[c] = p => state[c] # "ZOMBIE"

\* Every child has a living parent, and no parent sleeps in wait() while it
\* has a zombie: no exit is missed, whoever exits first.  And wait() frees
\* no entry whose kernel thread is still on a CPU on its way out of exit().
WaitedFor == ParentLives /\ NoZombieAwaited /\ FreedOffCpu

\* A zombie never runs again (panic("zombie exit")); it is collected.
ZombieStays ==
  [][\A p \in Procs : state[p] = "ZOMBIE" => state'[p] \in {"ZOMBIE", "UNUSED"}]_vars
=============================================================================
