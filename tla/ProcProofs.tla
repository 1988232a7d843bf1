----------------------------- MODULE ProcProofs -----------------------------
(***************************************************************************)
(* What TLAPS proves of Proc for any number of table entries and CPUs: no  *)
(* kernel thread is on two CPUs, no entry is free while a CPU is on its    *)
(* stack, and wait() misses no exit().                                     *)
(*                                                                         *)
(* The invariant ties p->lock to the context switch (CpuInv): the lock is  *)
(* held while the thread switches, and who finds it free finds RUNNING     *)
(* exactly when the thread is on a CPU.  StartChild makes an entry         *)
(* RUNNABLE without looking at its state, so ForkInv says that it is the   *)
(* one its caller has allocated, and nobody else's.  FamilyInv adds who    *)
(* holds wait_lock, and how far the loops over proc[] under it have come.  *)
(***************************************************************************)
EXTENDS Proc, TLAPS

\* A leaf is first-order reasoning, which Zenon does, unless it cites SMT.
USE Zenon

\* The loop variables are in the table where they are used.
IndexInv == \A p \in Procs :
  /\ pc[p] \in {"alloc", "adopt", "start", "scan", "reparent", "wakeinit"} => np[p] >= 1
  /\ pc[p] \in {"adopt", "start"} => np[p] <= NPROC
  /\ pc[p] \in {"wakeinit", "wakeparent"} => wk[p] >= 1

CpuInv == \A p \in Procs :
  /\ on[p] = (IF at[p] = "off" THEN 0 ELSE 1)
  /\ lock[p] = TRUE <=> at[p] \in {"in", "out"}
  /\ at[p] \in {"on", "in"} => state[p] = "RUNNING"
  /\ state[p] = "RUNNING" => at[p] \in {"on", "in"}
  /\ state[p] \in {"UNUSED", "USED"} => at[p] = "off"

Forking(p) == pc[p] \in {"adopt", "start"}
ForkInv == \A p \in Procs : Forking(p) =>
  /\ state[np[p]] = "USED"
  /\ \A q \in Procs \ {p} : Forking(q) => np[q] # np[p]

Inv == TypeOK /\ IndexInv /\ CpuInv /\ ForkInv

\* userinit's process table satisfies the invariant.
LEMMA InvInit == Init => Inv
BY TableAssumption, SMT DEF Init, Inv, TypeOK, IndexInv, CpuInv, ForkInv, Forking, Procs, initproc,
   NULL

\* The scheduler and the context switch.
LEMMA SwitchStep ==
  ASSUME Inv, NEW p \in Procs, Switch(p) \/ Pick(p) \/ Yield(p)
  PROVE  Inv'
<1> USE DEF Inv, TypeOK, IndexInv, CpuInv, ForkInv, Forking
<1>1. CASE SwitchedOut(p)
  BY <1>1, TableAssumption, SMT DEF SwitchedOut, procVars, localVars
<1>2. CASE SwitchedIn(p)
  BY <1>2, TableAssumption, SMT DEF SwitchedIn, localVars
<1>3. CASE Pick(p)
  BY <1>3, TableAssumption, SMT DEF Pick, localVars
<1>4. CASE Yield(p)
  BY <1>4, TableAssumption, SMT DEF Yield, Sched, LockedOut, localVars
<1> QED BY <1>1, <1>2, <1>3, <1>4 DEF Switch

\* A loop over proc[] ends one past the table, and a fork in progress has an
\* entry of the table.
LEMMA Loop == \A i \in 0 .. NPROC + 1 :
  i <= NPROC => NextEntry(i) \in 0 .. NPROC + 1 /\ NextEntry(i) >= 1
BY TableAssumption, SMT DEF NextEntry

\* The scans of the process table stay inside it.
LEMMA Entries ==
  ASSUME TypeOK, NEW q \in Procs
  PROVE  /\ np[q] \in 0 .. NPROC + 1 /\ wk[q] \in 0 .. NPROC + 1
         /\ np[q] >= 1 /\ np[q] <= NPROC => np[q] \in Procs
         /\ wk[q] >= 1 /\ wk[q] <= NPROC => wk[q] \in Procs
BY TableAssumption, SMT DEF TypeOK, Procs

\* While fork() sets up its child, np is a table entry.
LEMMA ForkEntry ==
  ASSUME TypeOK, IndexInv, NEW q \in Procs, pc[q] \in {"adopt", "start"}
  PROVE  np[q] \in Procs
BY Entries DEF IndexInv

\* System calls begin, and processes are killed.
LEMMA CallStep ==
  ASSUME Inv, NEW p \in Procs, Call(p)
  PROVE  Inv'
<1> USE DEF Inv, TypeOK, IndexInv, CpuInv, ForkInv, Forking
<1>1. CASE CallFork(p)
  BY <1>1, TableAssumption, SMT DEF CallFork, Enter, Goto, At, procVars, cpuVars
<1>2. CASE CallWait(p)
  BY <1>2, TableAssumption, SMT DEF CallWait, Enter, Goto, At, procVars, cpuVars
<1>3. CASE CallExit(p)
  BY <1>3, SMT DEF CallExit, Goto, At, procVars, cpuVars
<1>4. ASSUME NEW t \in Procs, Kill(p, t)
      PROVE  Inv'
  BY <1>4, SMT DEF Kill, Asleep, localVars, cpuVars
<1> QED BY <1>1, <1>2, <1>3, <1>4 DEF Call

\* fork() and the taking of wait_lock.
LEMMA AcquireStep ==
  ASSUME Inv, NEW p \in Procs, Acquire(p)
  PROVE  Inv'
<1> USE DEF Inv, TypeOK, IndexInv, CpuInv, ForkInv, Forking
<1>1. CASE Adopt(p)
  <2>1. np[p] \in Procs
    BY <1>1, ForkEntry DEF Adopt, At
  <2> QED BY <1>1, <2>1, SMT DEF Adopt, Goto, At, cpuVars
<1>2. CASE WaitLock(p)
  BY <1>2, TableAssumption, SMT DEF WaitLock, Goto, At, procVars, cpuVars
<1>3. CASE ExitLock(p)
  BY <1>3, TableAssumption, SMT DEF ExitLock, Goto, At, procVars, cpuVars
<1> QED BY <1>1, <1>2, <1>3 DEF Acquire

\* fork() after allocproc has begun its scan.
LEMMA ForkStep ==
  ASSUME Inv, NEW p \in Procs, AllocProc(p) \/ StartChild(p)
  PROVE  Inv'
<1> USE DEF Inv, TypeOK, IndexInv, CpuInv, ForkInv, Forking
<1>1. CASE AllocProc(p)
  <2>1. np[p] \in 0 .. NPROC + 1 /\ np[p] >= 1 /\ at[p] = "on" /\ pc[p] = "alloc"
    BY <1>1, Entries DEF AllocProc, At
  <2>2. UNCHANGED <<parent, chan, killed, lock, at, on, wait_lock, wk, havekids>>
    BY <1>1 DEF AllocProc, cpuVars
  <2>3. CASE Leave(p) /\ UNCHANGED state
    BY <2>1, <2>2, <2>3, TableAssumption, SMT DEF Leave, Goto
  <2>4. CASE /\ np[p] <= NPROC /\ np' = [np EXCEPT ![p] = NextEntry(@)]
             /\ UNCHANGED <<state, pc>>
    <3>1. NextEntry(np[p]) \in 0 .. NPROC + 1 /\ NextEntry(np[p]) >= 1
      BY <2>1, <2>4, Loop
    <3> QED BY <2>1, <2>2, <2>4, <3>1, SMT
  <2>5. CASE /\ np[p] <= NPROC /\ state[np[p]] = "UNUSED"
             /\ state' = [state EXCEPT ![np[p]] = "USED"]
             /\ pc' = [pc EXCEPT ![p] = "adopt", ![np[p]] = "run"] /\ UNCHANGED np
    <3> DEFINE c == np[p]
    <3>1. c \in Procs /\ c # p
      <4>1. np[p] \in Procs
        BY <2>1, <2>5, Entries
      <4>2. state[p] = "RUNNING"
        BY <2>1
      <4> QED BY <2>5, <4>1, <4>2
    <3>2. TypeOK'
      BY <2>2, <2>5, <3>1
    <3>3. IndexInv'
      BY <2>1, <2>2, <2>5, <3>1, SMT
    <3>4. CpuInv'
      BY <2>2, <2>5, <3>1, SMT
    <3>5. \A q \in Procs : Forking(q) => np[q] \in Procs /\ np[q] # c
      BY <2>5, ForkEntry, SMT
    <3>6. \A q \in Procs : Forking(q)' => Forking(q) \/ q = p
      BY <2>5, <3>1, SMT
    <3>7. state' = [state EXCEPT ![c] = "USED"] /\ np' = np
      BY <2>5
    <3> HIDE DEF c
    <3>8. ForkInv'
      <4> SUFFICES ASSUME NEW q \in Procs, Forking(q)'
                   PROVE  /\ state'[np[q]] = "USED"
                          /\ \A r \in Procs \ {q} : Forking(r)' => np[r] # np[q]
        BY <3>7, SMT
      <4>1. \A r \in Procs : r = p => np[r] = c
        BY DEF c
      <4> QED BY <3>1, <3>5, <3>6, <3>7, <4>1, SMT
    <3> QED BY <3>2, <3>3, <3>4, <3>8
  <2> QED BY <1>1, <2>3, <2>4, <2>5 DEF AllocProc
<1>2. CASE StartChild(p)
  <2>1. np[p] \in Procs /\ state[np[p]] = "USED" /\ at[np[p]] = "off"
    BY <1>2, TableAssumption, SMTT(30) DEF StartChild, At, Procs
  <2> QED BY <1>2, <2>1, TableAssumption, SMT DEF StartChild, Leave, Goto, At, cpuVars
<1> QED BY <1>1, <1>2

\* wait().
LEMMA WaitStep ==
  ASSUME Inv, NEW p \in Procs,
         ScanOther(p) \/ ScanLiving(p) \/ ScanZombie(p) \/ WaitFails(p) \/ WaitGoesOn(p)
           \/ WaitSleep(p)
  PROVE  Inv'
<1> USE DEF Inv, TypeOK, IndexInv, CpuInv, ForkInv, Forking
<1>1. CASE ScanOther(p)
  BY <1>1, TableAssumption, SMT DEF ScanOther, NextEntry, At, procVars, cpuVars
<1>2. CASE ScanLiving(p)
  BY <1>2, TableAssumption, SMT DEF ScanLiving, NextEntry, At, procVars, cpuVars
<1>3. CASE ScanZombie(p)
  <2>1. np[p] \in Procs /\ ~lock[np[p]] /\ state[np[p]] = "ZOMBIE"
    BY <1>3, TableAssumption, SMT DEF ScanZombie, ChildLock, At, Procs
  <2>2. at[np[p]] = "off"
    BY <2>1, SMT
  <2>3. /\ \/ freeproc(np[p])
           \/ UNCHANGED procVars
        /\ wait_lock' = NULL /\ Leave(p) /\ at[p] = "on"
        /\ havekids' = [havekids EXCEPT ![p] = FALSE] /\ UNCHANGED <<cpuVars, wk>>
    BY <1>3 DEF ScanZombie, At
  <2>4. CASE UNCHANGED procVars
    BY <2>3, <2>4, TableAssumption, SMT DEF Leave, Goto, procVars, cpuVars, NULL
  <2>5. CASE freeproc(np[p])
    <3>1. TypeOK'
      BY <2>1, <2>3, <2>5, TableAssumption, SMT DEF freeproc, Leave, Goto, cpuVars, NULL
    <3>2. IndexInv'
      BY <2>3, <2>5, SMT DEF Leave, Goto
    <3>3. CpuInv'
      BY <2>1, <2>2, <2>3, <2>5, SMT DEF freeproc, cpuVars
    <3>4. \A q \in Procs : Forking(q) => np[q] \in Procs /\ np[q] # np[p]
      BY <2>1, ForkEntry
    <3>5. ForkInv'
      BY <2>1, <2>3, <2>5, <3>4, SMT DEF freeproc, Leave, Goto
    <3> QED BY <3>1, <3>2, <3>3, <3>5
  <2> QED BY <2>3, <2>4, <2>5
<1>4. CASE WaitFails(p)
  BY <1>4, TableAssumption, SMT DEF WaitFails, Leave, Goto, At, procVars, cpuVars
<1>5. CASE WaitGoesOn(p)
  BY <1>5, SMT DEF WaitGoesOn, Goto, At, procVars, cpuVars
<1>6. CASE WaitSleep(p)
  BY <1>6, TableAssumption, SMT DEF WaitSleep, Sched, LockedOut, Goto, At
<1> QED BY <1>1, <1>2, <1>3, <1>4, <1>5, <1>6

\* exit().
LEMMA ExitStep ==
  ASSUME Inv, NEW p \in Procs,
         Reparent(p) \/ Wakeup(p) \/ WakeupDone(p) \/ ExitZombie(p)
  PROVE  Inv'
<1> USE DEF Inv, TypeOK, IndexInv, CpuInv, ForkInv, Forking
<1>1. CASE Reparent(p)
  <2>1. np[p] \in 0 .. NPROC + 1 /\ np[p] >= 1 /\ pc[p] = "reparent"
    BY <1>1, Entries DEF Reparent, At
  <2>2. UNCHANGED <<state, chan, killed, lock, at, on, wait_lock, havekids>>
    BY <1>1 DEF Reparent, cpuVars
  <2>3. CASE /\ np[p] <= NPROC /\ np' = [np EXCEPT ![p] = NextEntry(@)]
             /\ UNCHANGED <<parent, pc, wk>>
    BY <2>1, <2>2, <2>3, Loop, SMT
  <2>4. CASE /\ np[p] <= NPROC /\ parent' = Adopted(np[p])
             /\ np' = [np EXCEPT ![p] = NextEntry(@)]
             /\ Goto(p, "wakeinit") /\ wk' = [wk EXCEPT ![p] = 1]
    <3>1. NextEntry(np[p]) \in 0 .. NPROC + 1 /\ NextEntry(np[p]) >= 1
      BY <2>1, <2>4, Loop
    <3>2. initproc \in Procs /\ 1 \in 0 .. NPROC + 1
      BY TableAssumption, SMT DEF initproc, Procs
    <3>3. np[p] \in Procs
      BY <2>1, <2>4, Entries
    <3> QED BY <2>1, <2>2, <2>4, <3>1, <3>2, <3>3, SMT DEF Adopted, Goto
  <2>5. CASE /\ Goto(p, "wakeparent") /\ wk' = [wk EXCEPT ![p] = 1]
             /\ np' = [np EXCEPT ![p] = 0] /\ UNCHANGED parent
    BY <2>1, <2>2, <2>5, TableAssumption, SMT DEF Goto
  <2> QED BY <1>1, <2>3, <2>4, <2>5 DEF Reparent
<1>2. CASE Wakeup(p)
  <2>1. wk[p] \in Procs
    BY <1>2, TableAssumption, SMT DEF Wakeup, At, Procs
  <2>2. \/ state' = state
        \/ /\ wk[p] # p /\ ~lock[wk[p]] /\ state[wk[p]] = "SLEEPING"
           /\ state' = [state EXCEPT ![wk[p]] = "RUNNABLE"]
    BY <1>2 DEF Wakeup, Wakes
  <2>3. NextEntry(wk[p]) \in 0 .. NPROC + 1 /\ NextEntry(wk[p]) >= 1
    BY <1>2, Loop, Entries DEF Wakeup
  <2> QED BY <1>2, <2>1, <2>2, <2>3, SMT DEF Wakeup, At, cpuVars
<1>3. CASE WakeupDone(p)
  BY <1>3, TableAssumption, SMT DEF WakeupDone, Goto, At, procVars, cpuVars
<1>4. CASE ExitZombie(p)
  BY <1>4, TableAssumption, SMT DEF ExitZombie, Sched, LockedOut, Goto, At
<1> QED BY <1>1, <1>2, <1>3, <1>4

\* The invariant holds in every reachable state.
THEOREM Invariance == Spec => []Inv
<1>1. Inv /\ [Next]_vars => Inv'
  <2> SUFFICES ASSUME Inv, [Next]_vars PROVE Inv'
    OBVIOUS
  <2>1. CASE UNCHANGED vars
    BY <2>1 DEF Inv, TypeOK, IndexInv, CpuInv, ForkInv, Forking, vars, procVars, cpuVars,
                localVars
  <2>2. CASE Next
    BY <2>2, SwitchStep, CallStep, AcquireStep, ForkStep, WaitStep, ExitStep DEF Next, Step
  <2> QED BY <2>1, <2>2
<1> QED BY <1>1, InvInit, PTL DEF Spec

\* The process table and the threads stay well typed, whatever the number of
\* entries and CPUs.
THEOREM TypeCorrect == Spec => []TypeOK
<1>1. Inv => TypeOK
  BY DEF Inv
<1> QED BY <1>1, Invariance, PTL

\* The hand-over of p->lock between a process and scheduler() keeps every
\* kernel thread on at most one CPU, whatever the number of entries and CPUs.
THEOREM AtMostOneCpu == Spec => []OneCpu
<1>1. Inv => OneCpu
  BY DEF Inv, CpuInv, OneCpu
<1> QED BY <1>1, Invariance, PTL

\* freeproc and allocproc never touch an entry whose kernel stack a CPU is
\* still using.
THEOREM FreedEntriesAreOffCpu == Spec => []FreedOffCpu
<1>1. Inv => FreedOffCpu
  BY DEF Inv, CpuInv, FreedOffCpu
<1> QED BY <1>1, Invariance, PTL

\* A zombie never runs again; kill(), wakeup() and the scheduler leave it
\* alone until wait() collects it.
THEOREM ZombiesStay == Spec => ZombieStays
<1>1. Inv /\ [Next]_vars =>
        [\A p \in Procs : state[p] = "ZOMBIE" => state'[p] \in {"ZOMBIE", "UNUSED"}]_vars
  <2> SUFFICES ASSUME Inv, NEW p \in Procs,
                      Call(p) \/ Acquire(p) \/ Step(p) \/ Switch(p) \/ Pick(p) \/ Yield(p),
                      NEW z \in Procs, state[z] = "ZOMBIE"
               PROVE  state'[z] \in {"ZOMBIE", "UNUSED"}
    BY DEF Next
  <2>1. state \in [Procs -> {"UNUSED", "USED", "SLEEPING", "RUNNABLE", "RUNNING", "ZOMBIE"}]
        /\ (at[p] = "on" => state[p] = "RUNNING")
    BY DEF Inv, TypeOK, CpuInv
  <2>2. \A s : Sched(p, s) /\ at[p] = "on" => state'[z] = "ZOMBIE"
    BY <2>1 DEF Sched
  <2>3. CASE Call(p) \/ Acquire(p)
    BY <2>1, <2>3 DEF Call, Acquire, CallFork, CallWait, CallExit, Kill, Asleep, Enter, Adopt,
                      WaitLock, ExitLock, procVars
  <2>4. CASE Switch(p) \/ Pick(p) \/ Yield(p)
    BY <2>1, <2>2, <2>4 DEF Switch, SwitchedOut, SwitchedIn, Pick, Yield, procVars
  <2>5. CASE WaitSleep(p) \/ ExitZombie(p)
    BY <2>2, <2>5 DEF WaitSleep, ExitZombie, At
  <2>6. CASE StartChild(p)
    BY <2>1, <2>6 DEF StartChild, At, Inv, ForkInv, Forking
  <2>7. CASE AllocProc(p) \/ Wakeup(p)
    BY <2>1, <2>7 DEF AllocProc, Wakeup, Wakes
  <2>8. CASE ScanZombie(p)
    BY <2>1, <2>8 DEF ScanZombie, freeproc, procVars
  <2>9. CASE ScanOther(p) \/ ScanLiving(p) \/ WaitFails(p) \/ WaitGoesOn(p) \/ Reparent(p)
               \/ WakeupDone(p)
    BY <2>9 DEF ScanOther, ScanLiving, WaitFails, WaitGoesOn, Reparent, WakeupDone, procVars
  <2> QED BY <2>3, <2>4, <2>5, <2>6, <2>7, <2>8, <2>9 DEF Step
<1> QED BY <1>1, Invariance, PTL DEF Spec, ZombieStays

---------------------------------------------------------------------------
(* Parents and children.                                                   *)

Living == {"SLEEPING", "RUNNABLE", "RUNNING"}
Held == {"scan", "sleep", "reparent", "wakeinit", "wakeparent"}
Exiting == {"exit", "reparent", "wakeinit", "wakeparent", "dead"}

\* Who is where: the holder of wait_lock keeps its CPU, a call is made by a
\* living process, and init does not exit.
PlaceInv == \A p \in Procs :
  /\ pc[p] \in Held <=> wait_lock = p
  /\ pc[p] \in Held => at[p] = "on"
  /\ state[p] = "USED" => pc[p] = "run"
  /\ pc[p] \notin {"run", "dead"} => state[p] \in Living
  /\ pc[p] = "dead" => state[p] \notin Living
  /\ p = initproc => pc[p] \notin Exiting /\ state[p] \in Living
  /\ state[p] = "SLEEPING" => chan[p] = p

\* Whoever is a parent lives, and who lives or is a zombie has a parent.
ParentInv ==
  /\ \A c \in Procs : parent[c] # NULL => state[parent[c]] \in Living
  /\ \A c \in Procs \ {initproc} : state[c] \in Living \/ state[c] = "ZOMBIE" => parent[c] # NULL
  /\ \A p \in Procs : pc[p] = "start" => parent[np[p]] = p

\* The scans of wait() and of reparent() under wait_lock: what they have passed
\* stays as they found it.
ScanInv == \A p, i \in Procs : parent[i] = p =>
  /\ state[i] = "ZOMBIE" => pc[p] # "sleep" /\ (pc[p] = "scan" => i >= np[p])
  /\ pc[p] \in {"reparent", "wakeinit"} => i >= np[p]
  /\ pc[p] # "wakeparent"

\* wakeup(p->parent) has found the parent awake, or is still to come to it.
WakeInv == \A p \in Procs :
  pc[p] = "wakeparent" => state[parent[p]] # "SLEEPING" \/ wk[p] <= parent[p]

\* A sleeping parent has no zombie, but for an init that has just been given
\* one and that wakeup(initproc) is still to come to.
AwaitInv == \A p, c \in Procs :
  state[p] = "SLEEPING" /\ parent[c] = p /\ state[c] = "ZOMBIE" =>
    p = initproc /\ \E e \in Procs : pc[e] = "wakeinit" /\ wk[e] = initproc

FamilyInv == PlaceInv /\ ParentInv /\ ScanInv /\ WakeInv /\ AwaitInv

\* init is the first entry of the table.
LEMMA Table ==
  /\ initproc \in Procs /\ NULL \notin Procs
  /\ \A i \in Procs : i \in Nat /\ i >= initproc /\ i <= NPROC
BY TableAssumption, SMT DEF Procs, initproc, NULL

\* At boot only init lives, and it has no parent.
LEMMA FamilyInit == Init => FamilyInv
<1> SUFFICES ASSUME Init PROVE FamilyInv
  OBVIOUS
<1>1. /\ state = [p \in Procs |-> IF p = initproc THEN "RUNNABLE" ELSE "UNUSED"]
      /\ parent = [p \in Procs |-> NULL] /\ pc = [p \in Procs |-> "run"] /\ wait_lock = NULL
  BY DEF Init
<1>2. PlaceInv
  BY <1>1, Table DEF PlaceInv, Held, Exiting, Living
<1>3. ParentInv /\ ScanInv /\ WakeInv /\ AwaitInv
  BY <1>1, Table DEF ParentInv, ScanInv, WakeInv, AwaitInv, Living
<1> QED BY <1>2, <1>3 DEF FamilyInv

\* A step that changes neither parents, nor where the holders of wait_lock are,
\* nor who lives, sleeps or is a zombie.
LEMMA FamilyKept ==
  ASSUME TypeOK, FamilyInv, UNCHANGED <<parent, wait_lock>>,
         \A q \in Procs :
           /\ state'[q] \in Living <=> state[q] \in Living
           /\ state'[q] = "SLEEPING" => state[q] = "SLEEPING" /\ chan'[q] = chan[q]
           /\ state'[q] = "ZOMBIE" => state[q] = "ZOMBIE"
           /\ state'[q] = "USED" => pc'[q] = "run"
           /\ pc'[q] # pc[q] => /\ pc[q] \notin Held /\ pc'[q] \notin Held \cup {"dead", "start"}
                                /\ pc'[q] # "run" => state[q] \in Living
                                /\ q = initproc => pc'[q] \notin Exiting
           /\ pc[q] \in Held => at'[q] = "on"
           /\ pc[q] \in Held \cup {"start"} => np'[q] = np[q] /\ wk'[q] = wk[q]
  PROVE  FamilyInv'
<1>1. PlaceInv'
  BY SMT DEF FamilyInv, PlaceInv, Living, Held, Exiting
<1>2. \A q \in Procs : pc'[q] \in Held \cup {"start"} => pc[q] = pc'[q]
  BY DEF Held
<1>3. \A c \in Procs : parent[c] \in Procs \cup {NULL}
  BY DEF TypeOK
<1>4. ParentInv'
  <2>1. \A c \in Procs : parent'[c] # NULL => state'[parent'[c]] \in Living
    <3> SUFFICES ASSUME NEW c \in Procs, parent[c] # NULL
                 PROVE  state'[parent[c]] \in Living
      OBVIOUS
    <3>1. parent[c] \in Procs /\ state[parent[c]] \in Living
      BY <1>3 DEF FamilyInv, ParentInv
    <3> QED BY <3>1
  <2> QED BY <1>2, <2>1, Table, SMT DEF FamilyInv, ParentInv, Living, Held
<1>5. ScanInv'
  BY <1>2, SMT DEF FamilyInv, ScanInv, Held
<1>6. WakeInv'
  <2> SUFFICES ASSUME NEW p \in Procs, pc'[p] = "wakeparent"
               PROVE  state'[parent[p]] # "SLEEPING" \/ wk[p] <= parent[p]
    BY <1>2, SMT DEF WakeInv, Held
  <2>1. pc[p] = "wakeparent"
    BY <1>2 DEF Held
  <2>2. parent[p] \in Procs
    BY <1>3, <2>1 DEF FamilyInv, PlaceInv, ParentInv, Exiting
  <2> QED BY <2>1, <2>2 DEF FamilyInv, WakeInv
<1>7. AwaitInv'
  BY SMT DEF FamilyInv, AwaitInv, Held
<1> QED BY <1>1, <1>4, <1>5, <1>6, <1>7 DEF FamilyInv

\* The scheduler, the context switch, and the beginning of a system call.
LEMMA FamilySwitch ==
  ASSUME Inv, FamilyInv, NEW p \in Procs,
         Switch(p) \/ Pick(p) \/ Yield(p) \/ Call(p) \/ AllocProc(p)
  PROVE  FamilyInv'
<1>0. TypeOK
  BY DEF Inv
<1>1. CASE SwitchedOut(p)
  <2>1. /\ UNCHANGED <<state, parent, chan, wait_lock, pc, np, wk>>
        /\ at[p] = "out" /\ at' = [at EXCEPT ![p] = "off"]
    BY <1>1 DEF SwitchedOut, procVars, localVars
  <2> QED BY <1>0, <2>1, FamilyKept DEF FamilyInv, PlaceInv, Inv, TypeOK
<1>2. CASE SwitchedIn(p)
  <2>1. /\ UNCHANGED <<state, parent, wait_lock, pc, np, wk>> /\ state[p] = "RUNNING"
        /\ at[p] = "in" /\ at' = [at EXCEPT ![p] = "on"] /\ chan' = [chan EXCEPT ![p] = NULL]
    BY <1>2 DEF SwitchedIn, localVars, Inv, CpuInv
  <2> QED BY <1>0, <2>1, FamilyKept, SMT DEF FamilyInv, PlaceInv, Inv, TypeOK
<1>3. CASE Pick(p)
  <2>1. /\ UNCHANGED <<chan, parent, wait_lock, pc, np, wk>> /\ state[p] = "RUNNABLE"
        /\ at' = [at EXCEPT ![p] = "in"] /\ state' = [state EXCEPT ![p] = "RUNNING"]
        /\ at[p] # "on"
    BY <1>3 DEF Pick, localVars, Inv, CpuInv
  <2> QED BY <1>0, <2>1, FamilyKept, SMT DEF FamilyInv, PlaceInv, Inv, TypeOK, Living
<1>4. CASE Yield(p)
  <2>1. /\ UNCHANGED <<chan, parent, wait_lock, pc, np, wk>> /\ state[p] = "RUNNING"
        /\ at' = [at EXCEPT ![p] = "out"] /\ state' = [state EXCEPT ![p] = "RUNNABLE"]
        /\ pc[p] \notin Held
    BY <1>4 DEF Yield, Sched, localVars, Inv, CpuInv, Held
  <2> QED BY <1>0, <2>1, FamilyKept DEF FamilyInv, PlaceInv, Inv, TypeOK, Living
<1>5. CASE CallFork(p) \/ CallWait(p) \/ CallExit(p)
  <2>1. /\ UNCHANGED <<state, chan, parent, wait_lock, wk, at>> /\ pc[p] = "run"
        /\ state[p] = "RUNNING" /\ \A q \in Procs \ {p} : pc'[q] = pc[q] /\ np'[q] = np[q]
        /\ pc'[p] \in {"alloc", "wait"} \/ (pc'[p] = "exit" /\ p # initproc)
    BY <1>5, SMT DEF CallFork, CallWait, CallExit, Enter, At, Goto, procVars, cpuVars, Inv, CpuInv,
       TypeOK
  <2> QED BY <1>0, <2>1, FamilyKept, SMT DEF FamilyInv, PlaceInv, Living, Held, Exiting
<1>6. ASSUME NEW t \in Procs, Kill(p, t)
      PROVE  FamilyInv'
  <2>1. /\ UNCHANGED <<chan, parent, wait_lock, pc, np, wk, at>>
        /\ state' = state \/ (state[t] = "SLEEPING" /\ state' = [state EXCEPT ![t] = "RUNNABLE"])
    BY <1>6 DEF Kill, Asleep, cpuVars, localVars
  <2> QED BY <1>0, <2>1, FamilyKept, SMT DEF FamilyInv, PlaceInv, Inv, TypeOK, Living
<1>7. CASE AllocProc(p)
  <2>1. /\ UNCHANGED <<chan, parent, wait_lock, wk, at>> /\ pc[p] = "alloc"
        /\ state[p] = "RUNNING" /\ \A q \in Procs \ {p} : np'[q] = np[q]
    BY <1>7, SMTT(30) DEF AllocProc, At, Leave, cpuVars, Inv, CpuInv, TypeOK
  <2>2. CASE /\ state[np[p]] = "UNUSED" /\ np[p] <= NPROC
             /\ state' = [state EXCEPT ![np[p]] = "USED"]
             /\ pc' = [pc EXCEPT ![p] = "adopt", ![np[p]] = "run"]
    <3>1. PICK c \in Procs : c = np[p] /\ c # p
      BY <1>0, <2>1, <2>2, Entries DEF Inv, IndexInv
    <3>2. /\ state' = [state EXCEPT ![c] = "USED"] /\ state[c] = "UNUSED"
          /\ pc'[p] = "adopt" /\ pc'[c] = "run" /\ \A q \in Procs \ {p, c} : pc'[q] = pc[q]
      BY <2>2, <3>1 DEF Inv, TypeOK
    <3>3. at[c] = "off" /\ pc[c] \notin Held /\ c # initproc
      BY <3>2 DEF Inv, CpuInv, FamilyInv, PlaceInv, Living
    <3> QED BY <1>0, <2>1, <3>1, <3>2, <3>3, FamilyKept, SMT DEF FamilyInv, PlaceInv, Inv, TypeOK,
               Living, Held, Exiting
  <2>3. CASE state' = state /\ pc' \in {pc, [pc EXCEPT ![p] = "run"]}
    BY <1>0, <2>1, <2>3, FamilyKept, SMT DEF FamilyInv, PlaceInv, Inv, TypeOK, Living, Held,
       Exiting
  <2> QED BY <1>7, <2>2, <2>3 DEF AllocProc, Leave, Goto
<1> QED BY <1>1, <1>2, <1>3, <1>4, <1>5, <1>6, <1>7 DEF Switch, Call

\* The parent of a process is a process that lives, or there is none.
LEMMA Parents ==
  ASSUME Inv, FamilyInv, NEW c \in Procs, parent[c] # NULL
  PROVE  parent[c] \in Procs /\ state[parent[c]] \in Living
BY DEF Inv, TypeOK, FamilyInv, ParentInv

\* fork() gives the child its parent, and starts it.
LEMMA FamilyFork ==
  ASSUME Inv, FamilyInv, NEW p \in Procs, Adopt(p) \/ StartChild(p)
  PROVE  FamilyInv'
<1>1. PICK c \in Procs : c = np[p] /\ state[c] = "USED" /\ state[p] = "RUNNING" /\ c # p
  BY ForkEntry, SMT DEF Adopt, StartChild, At, Inv, ForkInv, Forking, CpuInv
<1>2. c # initproc /\ pc[c] = "run" /\ UNCHANGED <<chan, at, wait_lock, wk>>
  BY <1>1 DEF Adopt, StartChild, cpuVars, FamilyInv, PlaceInv, Living
<1>3. CASE Adopt(p)
  <2>1. /\ parent' = [parent EXCEPT ![c] = p] /\ pc[p] = "adopt"
        /\ pc' = [pc EXCEPT ![p] = "start"] /\ UNCHANGED <<state, np>> /\ wait_lock = NULL
    BY <1>1, <1>3 DEF Adopt, Goto, At
  <2>2. \A q \in Procs : pc'[q] \notin Held /\ pc[q] \notin Held
    BY <2>1, Table DEF FamilyInv, PlaceInv, Inv, TypeOK, Held
  <2>3. PlaceInv'
    BY <1>1, <1>2, <2>1, Table, SMT DEF FamilyInv, PlaceInv, Inv, TypeOK, Held, Exiting, Living
  <2>4. ParentInv'
    <3>1. \A q \in Procs : q # p /\ pc[q] = "start" => np[q] # c /\ np[q] \in Procs
      BY <1>1, <2>1, ForkEntry DEF Inv, ForkInv, Forking
    <3>2. \A i \in Procs : parent'[i] # NULL => state[parent'[i]] \in Living
      BY <1>1, <2>1, Parents DEF Inv, TypeOK, Living
    <3> QED BY <1>1, <2>1, <3>1, <3>2, Table, SMT DEF FamilyInv, ParentInv, Inv, TypeOK, Living
  <2>5. ScanInv' /\ WakeInv'
    BY <2>2 DEF ScanInv, WakeInv, Held
  <2>6. AwaitInv'
    BY <1>1, <2>1, <2>2, SMT DEF FamilyInv, AwaitInv, Held, Inv, TypeOK
  <2> QED BY <2>3, <2>4, <2>5, <2>6 DEF FamilyInv
<1>4. CASE StartChild(p)
  <2>1. /\ state' = [state EXCEPT ![c] = "RUNNABLE"] /\ pc[p] = "start"
        /\ pc' = [pc EXCEPT ![p] = "run"] /\ np' = [np EXCEPT ![p] = 0] /\ UNCHANGED parent
    BY <1>1, <1>4 DEF StartChild, Leave, Goto, At
  <2>2. /\ \A q \in Procs : q # p => pc'[q] = pc[q] /\ np'[q] = np[q]
        /\ \A q \in Procs : q # c => state'[q] = state[q]
        /\ state'[c] = "RUNNABLE" /\ pc'[p] = "run" /\ parent[c] = p
    BY <1>1, <2>1 DEF Inv, TypeOK, FamilyInv, ParentInv
  <2>3. PlaceInv'
    BY <1>1, <1>2, <2>1, <2>2, SMT DEF FamilyInv, PlaceInv, Held, Exiting, Living
  <2>4. ParentInv'
    BY <1>1, <2>1, <2>2, Table, Parents, SMT DEF FamilyInv, ParentInv, Living
  <2>5. ScanInv'
    BY <2>1, <2>2, SMT DEF FamilyInv, ScanInv
  <2>6. WakeInv'
    BY <2>1, <2>2, <1>2, SMT DEF FamilyInv, WakeInv
  <2>7. AwaitInv'
    BY <2>1, <2>2, <1>2, SMT DEF FamilyInv, AwaitInv
  <2> QED BY <2>3, <2>4, <2>5, <2>6, <2>7 DEF FamilyInv
<1> QED BY <1>3, <1>4

\* Only one process is between the acquire and the release of wait_lock.
LEMMA OneHolder ==
  ASSUME FamilyInv, NEW p \in Procs, pc[p] \in Held
  PROVE  /\ wait_lock = p /\ at[p] = "on" /\ state[p] \in Living
         /\ \A q \in Procs : q # p => pc[q] \notin Held
BY DEF FamilyInv, PlaceInv, Held

\* wait() and exit() take wait_lock.
LEMMA FamilyLock ==
  ASSUME Inv, FamilyInv, NEW p \in Procs, WaitLock(p) \/ ExitLock(p)
  PROVE  FamilyInv'
<1>1. /\ UNCHANGED <<state, parent, chan, at, wk>> /\ wait_lock = NULL /\ wait_lock' = p
      /\ at[p] = "on" /\ state[p] = "RUNNING" /\ np' = [np EXCEPT ![p] = 1]
      /\ \/ pc[p] = "wait" /\ pc' = [pc EXCEPT ![p] = "scan"]
         \/ pc[p] = "exit" /\ pc' = [pc EXCEPT ![p] = "reparent"]
  BY DEF WaitLock, ExitLock, At, Goto, procVars, cpuVars, Inv, CpuInv
<1>2. /\ \A q \in Procs : pc[q] \notin Held
      /\ \A q \in Procs : q # p => pc'[q] = pc[q] /\ np'[q] = np[q]
      /\ np'[p] = 1 /\ pc'[p] \in {"scan", "reparent"} /\ (pc'[p] = "reparent" => p # initproc)
  BY <1>1, Table, SMT DEF FamilyInv, PlaceInv, Inv, TypeOK, Held, Exiting
<1>3. PlaceInv'
  BY <1>1, <1>2, Table, SMT DEF FamilyInv, PlaceInv, Held, Exiting, Living
<1>4. ParentInv'
  BY <1>1, <1>2 DEF FamilyInv, ParentInv
<1>5. ScanInv'
  BY <1>1, <1>2, Table, SMT DEF ScanInv, Held, initproc
<1>6. WakeInv' /\ AwaitInv'
  BY <1>1, <1>2 DEF FamilyInv, WakeInv, AwaitInv, Held
<1> QED BY <1>3, <1>4, <1>5, <1>6 DEF FamilyInv

\* wait() passes an entry, or goes on to sleep after the last.
LEMMA FamilyScan ==
  ASSUME Inv, FamilyInv, NEW p \in Procs, ScanOther(p) \/ ScanLiving(p) \/ WaitGoesOn(p)
  PROVE  FamilyInv'
<1>1. /\ UNCHANGED <<state, parent, chan, at, wait_lock, wk>> /\ pc[p] = "scan"
      /\ \/ /\ np[p] <= NPROC /\ (parent[np[p]] = p => state[np[p]] # "ZOMBIE") /\ pc' = pc
            /\ np' = [np EXCEPT ![p] = np[p] + 1]
         \/ np[p] > NPROC /\ np' = np /\ pc' = [pc EXCEPT ![p] = "sleep"]
  BY DEF ScanOther, ScanLiving, WaitGoesOn, NextEntry, At, Goto, procVars, cpuVars
<1>2. /\ \A q \in Procs : q # p => pc'[q] = pc[q] /\ np'[q] = np[q] /\ pc[q] \notin Held
      /\ pc'[p] \in {"scan", "sleep"} /\ np[p] \in Nat
  BY <1>1, OneHolder, TableAssumption, SMT DEF Inv, TypeOK, Held
<1>3. PlaceInv'
  BY <1>1, <1>2, OneHolder, SMT DEF FamilyInv, PlaceInv, Held, Exiting, Living
<1>4. ParentInv'
  BY <1>1, <1>2 DEF FamilyInv, ParentInv
<1>5. ScanInv'
  <2>1. \A i \in Procs : parent[i] = p /\ state[i] = "ZOMBIE" =>
          pc'[p] # "sleep" /\ i >= np'[p]
    <3> SUFFICES ASSUME NEW i \in Procs, parent[i] = p, state[i] = "ZOMBIE"
                 PROVE  pc'[p] # "sleep" /\ i >= np'[p]
      OBVIOUS
    <3>1. i >= np[p] /\ i \in Nat /\ i <= NPROC
      BY <1>1, Table DEF FamilyInv, ScanInv
    <3>2. ~(np[p] > NPROC)
      BY <1>2, <3>1, TableAssumption, SMT
    <3>3. i # np[p] /\ pc' = pc /\ np'[p] = np[p] + 1
      BY <1>1, <3>2 DEF Inv, TypeOK
    <3> QED BY <1>1, <1>2, <3>1, <3>3, SMT
  <2> QED BY <1>1, <1>2, <2>1 DEF FamilyInv, ScanInv, Held
<1>6. WakeInv' /\ AwaitInv'
  BY <1>1, <1>2 DEF FamilyInv, WakeInv, AwaitInv, Held
<1> QED BY <1>3, <1>4, <1>5, <1>6 DEF FamilyInv

\* wait() returns, with a zombie freed or without.
LEMMA FamilyWaitDone ==
  ASSUME Inv, FamilyInv, NEW p \in Procs, ScanZombie(p) \/ WaitFails(p)
  PROVE  FamilyInv'
<1>1. /\ UNCHANGED <<at, wk>> /\ pc[p] = "scan" /\ wait_lock' = NULL
      /\ pc' = [pc EXCEPT ![p] = "run"] /\ np' = [np EXCEPT ![p] = 0]
      /\ \/ UNCHANGED <<state, parent, chan>>
         \/ /\ np[p] <= NPROC /\ state[np[p]] = "ZOMBIE"
            /\ state' = [state EXCEPT ![np[p]] = "UNUSED"]
            /\ parent' = [parent EXCEPT ![np[p]] = NULL] /\ chan' = [chan EXCEPT ![np[p]] = NULL]
  BY DEF ScanZombie, WaitFails, freeproc, Leave, Goto, At, procVars, cpuVars
<1>2. /\ \A q \in Procs : q # p => pc'[q] = pc[q] /\ np'[q] = np[q] /\ pc[q] \notin Held
      /\ pc'[p] = "run" /\ state[p] \in Living
  BY <1>1, OneHolder, SMT DEF Inv, TypeOK, Held
<1>3. \A q \in Procs : pc'[q] \notin Held
  BY <1>2 DEF Held
<1>4. ScanInv' /\ WakeInv'
  BY <1>3 DEF ScanInv, WakeInv, Held
<1>5. CASE UNCHANGED <<state, parent, chan>>
  <2>1. PlaceInv'
    BY <1>1, <1>2, <1>3, <1>5, Table, SMT DEF FamilyInv, PlaceInv, Held, Exiting
  <2>2. ParentInv' /\ AwaitInv'
    BY <1>1, <1>2, <1>3, <1>5, SMT DEF FamilyInv, ParentInv, AwaitInv, Held
  <2> QED BY <1>4, <2>1, <2>2 DEF FamilyInv
<1>6. CASE ~UNCHANGED <<state, parent, chan>>
  <2>1. PICK c \in Procs :
          /\ c = np[p] /\ state[c] = "ZOMBIE" /\ state' = [state EXCEPT ![c] = "UNUSED"]
          /\ parent' = [parent EXCEPT ![c] = NULL] /\ chan' = [chan EXCEPT ![c] = NULL]
    <3>1. np[p] <= NPROC => np[p] \in Procs
      BY <1>1, Entries DEF Inv, IndexInv
    <3> QED BY <1>1, <1>6, <3>1
  <2>2. /\ \A q \in Procs : q # c => state'[q] = state[q] /\ parent'[q] = parent[q]
                                                          /\ chan'[q] = chan[q]
        /\ state'[c] = "UNUSED" /\ parent'[c] = NULL /\ c # p /\ c # initproc
        /\ pc[c] \in {"run", "dead"}
    BY <1>2, <2>1, SMT DEF Inv, TypeOK, Living, FamilyInv, PlaceInv
  <2>3. PlaceInv'
    BY <1>1, <1>2, <1>3, <2>1, <2>2, Table, SMT DEF FamilyInv, PlaceInv, Held, Exiting, Living
  <2>4. ParentInv'
    <3>1. \A i \in Procs : parent[i] # NULL => parent[i] # c /\ parent[i] \in Procs
      BY <2>1, Parents DEF Living
    <3>2. \A q \in Procs : pc'[q] = "start" => pc[q] = "start" /\ np'[q] = np[q] /\ np[q] \in Procs
                                               /\ np[q] # c
      BY <1>2, <2>1, ForkEntry DEF Inv, ForkInv, Forking
    <3> QED BY <2>2, <3>1, <3>2, SMT DEF FamilyInv, ParentInv, Living
  <2>5. AwaitInv'
    BY <1>1, <1>2, <2>2, Table, SMT DEF FamilyInv, AwaitInv, Held
  <2> QED BY <1>4, <2>3, <2>4, <2>5 DEF FamilyInv
<1> QED BY <1>5, <1>6

\* wait() sleeps: it has seen that none of its children is a zombie.
LEMMA FamilySleep ==
  ASSUME Inv, FamilyInv, NEW p \in Procs, WaitSleep(p)
  PROVE  FamilyInv'
<1>1. /\ UNCHANGED <<parent, wk>> /\ pc[p] = "sleep" /\ wait_lock' = NULL
      /\ pc' = [pc EXCEPT ![p] = "wait"] /\ np' = [np EXCEPT ![p] = 0]
      /\ state' = [state EXCEPT ![p] = "SLEEPING"] /\ chan' = [chan EXCEPT ![p] = p]
      /\ at' = [at EXCEPT ![p] = "out"] /\ state[p] = "RUNNING"
  BY DEF WaitSleep, Sched, Goto, At, Inv, CpuInv
<1>2. /\ \A q \in Procs : q # p => /\ pc'[q] = pc[q] /\ np'[q] = np[q] /\ pc[q] \notin Held
                                   /\ state'[q] = state[q] /\ chan'[q] = chan[q] /\ at'[q] = at[q]
      /\ pc'[p] = "wait" /\ state'[p] = "SLEEPING" /\ chan'[p] = p
  BY <1>1, OneHolder DEF Inv, TypeOK, Held
<1>3. \A q \in Procs : pc'[q] \notin Held
  BY <1>2 DEF Held
<1>4. PlaceInv'
  BY <1>1, <1>2, <1>3, Table, SMT DEF FamilyInv, PlaceInv, Held, Exiting, Living
<1>5. ParentInv'
  BY <1>1, <1>2, Parents, SMT DEF FamilyInv, ParentInv, Living
<1>6. ScanInv' /\ WakeInv'
  BY <1>3 DEF ScanInv, WakeInv, Held
<1>7. AwaitInv'
  BY <1>1, <1>2, SMT DEF FamilyInv, AwaitInv, ScanInv, Held
<1> QED BY <1>4, <1>5, <1>6, <1>7 DEF FamilyInv

\* exit() passes an entry of the table, gives a child to init, or is through.
LEMMA FamilyReparent ==
  ASSUME Inv, FamilyInv, NEW p \in Procs, Reparent(p)
  PROVE  FamilyInv'
<1>1. /\ UNCHANGED <<state, chan, at, wait_lock>> /\ pc[p] = "reparent" /\ p # initproc
      /\ np[p] \in Nat /\ np[p] >= 1 /\ (np[p] <= NPROC => np[p] \in Procs)
      /\ \A q \in Procs : q # p => pc[q] \notin Held
      /\ state[p] \in Living
  BY OneHolder, Entries, TableAssumption, SMT DEF Reparent, At, cpuVars, Inv, IndexInv, FamilyInv,
     PlaceInv, Held, Exiting
<1>2. /\ \A i \in Procs : parent[i] = p => i >= np[p]
      /\ \A q, c \in Procs : state[q] = "SLEEPING" /\ parent[c] = q => state[c] # "ZOMBIE"
  BY <1>1 DEF FamilyInv, ScanInv, AwaitInv, Held
<1>3. CASE /\ np[p] <= NPROC /\ parent[np[p]] # p /\ np' = [np EXCEPT ![p] = NextEntry(@)]
           /\ UNCHANGED <<parent, pc, wk>>
  <2>1. np'[p] = np[p] + 1 /\ \A q \in Procs : q # p => np'[q] = np[q]
    BY <1>3 DEF Inv, TypeOK, NextEntry
  <2>2. PlaceInv' /\ ParentInv' /\ WakeInv' /\ AwaitInv'
    BY <1>1, <1>3, <2>1, SMT DEF FamilyInv, PlaceInv, ParentInv, WakeInv, AwaitInv
  <2>3. \A i \in Procs : parent[i] = p => i >= np[p] + 1
    BY <1>1, <1>2, <1>3, Table, SMT
  <2>4. ScanInv'
    BY <1>1, <1>3, <2>1, <2>3, SMT DEF FamilyInv, ScanInv, Held
  <2> QED BY <2>2, <2>4 DEF FamilyInv
<1>4. CASE /\ np[p] <= NPROC /\ parent[np[p]] = p /\ parent' = Adopted(np[p])
           /\ np' = [np EXCEPT ![p] = NextEntry(@)]
           /\ Goto(p, "wakeinit") /\ wk' = [wk EXCEPT ![p] = 1]
  <2>1. PICK c \in Procs :
          c = np[p] /\ parent[c] = p /\ parent' = [parent EXCEPT ![c] = initproc]
    BY <1>1, <1>4 DEF Adopted
  <2>2. /\ np'[p] = np[p] + 1 /\ pc'[p] = "wakeinit" /\ wk'[p] = initproc
        /\ \A q \in Procs : q # p => np'[q] = np[q] /\ pc'[q] = pc[q] /\ wk'[q] = wk[q]
        /\ \A i \in Procs : i # c => parent'[i] = parent[i]
        /\ parent'[c] = initproc
    BY <1>4, <2>1 DEF Inv, TypeOK, NextEntry, Goto, initproc
  <2>3. PlaceInv'
    BY <1>1, <2>2, SMT DEF FamilyInv, PlaceInv, Held, Exiting
  <2>4. ParentInv'
    <3>1. \A q \in Procs : pc'[q] = "start" =>
            pc[q] = "start" /\ np'[q] = np[q] /\ np[q] \in Procs /\ np[q] # c
      BY <1>1, <2>1, <2>2, ForkEntry, SMT DEF Inv, FamilyInv, ParentInv
    <3>2. state[initproc] \in Living /\ initproc # NULL
      BY Table DEF FamilyInv, PlaceInv
    <3>3. \A i \in Procs : parent'[i] # NULL => state'[parent'[i]] \in Living
      BY <1>1, <2>2, <3>2, Parents
    <3>4. \A i \in Procs \ {initproc} :
            state'[i] \in Living \/ state'[i] = "ZOMBIE" => parent'[i] # NULL
      BY <1>1, <2>2, <3>2 DEF FamilyInv, ParentInv
    <3>5. \A q \in Procs : pc'[q] = "start" => parent'[np'[q]] = q
      BY <2>2, <3>1, SMT DEF FamilyInv, ParentInv
    <3> QED BY <3>3, <3>4, <3>5 DEF ParentInv
  <2>5. ScanInv'
    <3>1. \A i \in Procs : parent'[i] = p => i >= np[p] + 1
      BY <1>1, <1>2, <2>1, <2>2, Table, SMT
    <3> QED BY <1>1, <2>2, <3>1, SMT DEF ScanInv, Held
  <2>6. WakeInv'
    BY <1>1, <2>2 DEF WakeInv, Held
  <2>7. AwaitInv'
    BY <1>1, <1>2, <2>2, SMT DEF AwaitInv
  <2> QED BY <2>3, <2>4, <2>5, <2>6, <2>7 DEF FamilyInv
<1>5. CASE /\ np[p] > NPROC /\ Goto(p, "wakeparent") /\ wk' = [wk EXCEPT ![p] = 1]
           /\ np' = [np EXCEPT ![p] = 0] /\ UNCHANGED parent
  <2>1. /\ pc'[p] = "wakeparent" /\ wk'[p] = initproc
        /\ \A q \in Procs : q # p => np'[q] = np[q] /\ pc'[q] = pc[q] /\ wk'[q] = wk[q]
    BY <1>5 DEF Inv, TypeOK, Goto, initproc
  <2>2. PlaceInv'
    BY <1>1, <2>1, SMT DEF FamilyInv, PlaceInv, Held, Exiting
  <2>3. ParentInv'
    BY <1>1, <1>5, <2>1, SMT DEF FamilyInv, ParentInv
  <2>4. ScanInv'
    <3>1. \A i \in Procs : parent[i] # p
      BY <1>1, <1>2, <1>5, Table, TableAssumption, SMT
    <3> QED BY <1>1, <1>5, <2>1, <3>1, SMT DEF ScanInv, Held
  <2>5. WakeInv'
    <3>1. parent[p] \in Procs
      BY <1>1, Parents DEF FamilyInv, ParentInv
    <3> QED BY <1>1, <1>5, <2>1, <3>1, Table, SMT DEF WakeInv, Held
  <2>6. AwaitInv'
    BY <1>1, <1>2, <1>5 DEF AwaitInv
  <2> QED BY <2>2, <2>3, <2>4, <2>5, <2>6 DEF FamilyInv
<1> QED BY <1>3, <1>4, <1>5 DEF Reparent

\* wakeup() looks at one entry of the table.
LEMMA FamilyWakeup ==
  ASSUME Inv, FamilyInv, NEW p \in Procs, Wakeup(p)
  PROVE  FamilyInv'
<1>1. /\ UNCHANGED <<parent, chan, at, wait_lock, pc, np>>
      /\ pc[p] \in {"wakeinit", "wakeparent"} /\ p # initproc
      /\ wk[p] \in Procs /\ wk' = [wk EXCEPT ![p] = wk[p] + 1]
      /\ \A q \in Procs : q # p => pc[q] \notin Held
      /\ state[p] = "RUNNING"
  <2>1. pc[p] \in Held
    BY DEF Wakeup, At, Held
  <2> QED BY <2>1, OneHolder, Entries DEF Wakeup, At, cpuVars, NextEntry, Inv, IndexInv, CpuInv, FamilyInv,
     PlaceInv, Held, Exiting
<1>2. PICK t \in Procs : t = wk[p]
  BY <1>1
<1> DEFINE c == IF pc[p] = "wakeinit" THEN initproc ELSE parent[p]
<1>3. /\ state' = IF t # p /\ Wakes(t, c) THEN [state EXCEPT ![t] = "RUNNABLE"] ELSE state
      /\ \A q \in Procs : q # p => wk'[q] = wk[q]
      /\ wk'[p] = t + 1
  BY <1>1, <1>2 DEF Wakeup, Inv, TypeOK
<1>4. \A q \in Procs :
        /\ state'[q] \in Living <=> state[q] \in Living
        /\ state'[q] = "SLEEPING" => state[q] = "SLEEPING"
        /\ state'[q] = "ZOMBIE" <=> state[q] = "ZOMBIE"
        /\ state'[q] = "USED" <=> state[q] = "USED"
  BY <1>3 DEF Wakes, Living, Inv, TypeOK
<1>5. c = t => state'[t] # "SLEEPING"
  <2>1. state[t] = "SLEEPING" => t # p /\ chan[t] = t
    BY <1>1 DEF FamilyInv, PlaceInv
  <2> HIDE DEF c
  <2> QED BY <1>3, <2>1 DEF Wakes, Inv, TypeOK
<1>6. PlaceInv'
  BY <1>1, <1>4 DEF FamilyInv, PlaceInv
<1>7. ParentInv'
  BY <1>1, <1>4, Parents DEF FamilyInv, ParentInv
<1>8. ScanInv'
  BY <1>1, <1>4 DEF FamilyInv, ScanInv
<1>9. WakeInv'
  <2> SUFFICES ASSUME pc[p] = "wakeparent"
               PROVE  state'[parent[p]] # "SLEEPING" \/ t + 1 <= parent[p]
    BY <1>1, <1>3 DEF WakeInv, Held
  <2>1. parent[p] \in Procs /\ parent[p] = c
    BY <1>1, Parents DEF FamilyInv, ParentInv, Living
  <2>2. state[parent[p]] # "SLEEPING" \/ t <= parent[p]
    BY <1>2 DEF FamilyInv, WakeInv
  <2> HIDE DEF c
  <2>3. t \in Nat /\ parent[p] \in Nat
    BY <2>1, Table
  <2>4. parent[p] # t /\ t <= parent[p] => t + 1 <= parent[p]
    BY <2>3, SMT
  <2> QED BY <1>4, <1>5, <2>1, <2>2, <2>4
<1>10. AwaitInv'
  <2> SUFFICES ASSUME NEW q \in Procs, NEW i \in Procs, state[q] = "SLEEPING",
                      state'[q] = "SLEEPING", parent[i] = q, state[i] = "ZOMBIE"
               PROVE  FALSE
    BY <1>1, <1>4 DEF AwaitInv
  <2>1. q = initproc /\ pc[p] = "wakeinit" /\ t = initproc
    BY <1>1, <1>2 DEF FamilyInv, AwaitInv, Held
  <2> QED BY <1>5, <2>1
<1> QED BY <1>6, <1>7, <1>8, <1>9, <1>10 DEF FamilyInv

\* wakeup(initproc) is over, and so is exit().
LEMMA FamilyExit ==
  ASSUME Inv, FamilyInv, NEW p \in Procs, WakeupDone(p) \/ ExitZombie(p)
  PROVE  FamilyInv'
<1>1. /\ UNCHANGED <<parent, chan, np>>
      /\ pc[p] \in {"wakeinit", "wakeparent"} /\ p # initproc
      /\ wk[p] > NPROC /\ wk' = [wk EXCEPT ![p] = 0]
      /\ \A q \in Procs : q # p => pc[q] \notin Held
      /\ state[p] = "RUNNING"
  <2>1. pc[p] \in Held
    BY DEF WakeupDone, ExitZombie, At, Held
  <2> QED BY <2>1, OneHolder DEF WakeupDone, ExitZombie, At, procVars, Inv, CpuInv, FamilyInv, PlaceInv,
     Held, Exiting
<1>2. \A q, i \in Procs : state[q] = "SLEEPING" /\ parent[i] = q => state[i] # "ZOMBIE"
  <2>1. wk[p] # initproc
    BY <1>1, TableAssumption, SMT DEF initproc
  <2> QED BY <1>1, <2>1 DEF FamilyInv, AwaitInv, Held
<1>3. CASE WakeupDone(p)
  <2>1. /\ UNCHANGED <<state, at, wait_lock>> /\ pc[p] = "wakeinit" /\ pc'[p] = "reparent"
        /\ \A q \in Procs : q # p => pc'[q] = pc[q]
    BY <1>3 DEF WakeupDone, At, Goto, procVars, cpuVars, Inv, TypeOK
  <2>2. PlaceInv'
    BY <1>1, <2>1 DEF FamilyInv, PlaceInv, Held, Exiting
  <2>3. ParentInv' /\ ScanInv'
    BY <1>1, <2>1 DEF FamilyInv, ParentInv, ScanInv
  <2>4. WakeInv' /\ AwaitInv'
    BY <1>1, <1>2, <2>1 DEF WakeInv, AwaitInv, Held
  <2> QED BY <2>2, <2>3, <2>4 DEF FamilyInv
<1>4. CASE ExitZombie(p)
  <2>1. /\ wait_lock' = NULL /\ pc[p] = "wakeparent" /\ pc'[p] = "dead" /\ state'[p] = "ZOMBIE"
        /\ \A q \in Procs : q # p => pc'[q] = pc[q] /\ state'[q] = state[q] /\ at'[q] = at[q]
    BY <1>4 DEF ExitZombie, Sched, At, Goto, Inv, TypeOK
  <2>2. \A q \in Procs : pc'[q] \notin Held
    BY <1>1, <2>1 DEF Held
  <2>3. PlaceInv'
    BY <1>1, <2>1, <2>2, Table, SMT DEF FamilyInv, PlaceInv, Held, Exiting, Living
  <2>4. \A i \in Procs : parent[i] # p
    BY <2>1 DEF FamilyInv, ScanInv
  <2>5. ParentInv'
    BY <1>1, <2>1, <2>4, Parents, ZenonT(30) DEF FamilyInv, ParentInv, Living
  <2>6. ScanInv' /\ WakeInv'
    BY <2>2 DEF ScanInv, WakeInv, Held
  <2>7. parent[p] \in Procs
    BY <1>1, Parents DEF FamilyInv, ParentInv, Living
  <2>8. state[parent[p]] # "SLEEPING"
    <3>1. ~(wk[p] <= parent[p])
      BY <1>1, <2>7, Table, TableAssumption, Entries, SMT DEF Inv
    <3> QED BY <2>1, <3>1 DEF FamilyInv, WakeInv
  <2>9. AwaitInv'
    BY <1>1, <1>2, <2>1, <2>8, SMT DEF AwaitInv
  <2> QED BY <2>3, <2>5, <2>6, <2>9 DEF FamilyInv
<1> QED BY <1>3, <1>4

\* Both invariants hold in every reachable state.
THEOREM FamilyInvariance == Spec => []FamilyInv
<1>1. Inv /\ FamilyInv /\ [Next]_vars => FamilyInv'
  <2> SUFFICES ASSUME Inv, FamilyInv, [Next]_vars PROVE FamilyInv'
    OBVIOUS
  <2>1. CASE UNCHANGED vars
    BY <2>1, SMT DEF FamilyInv, PlaceInv, ParentInv, ScanInv, WakeInv, AwaitInv, vars, procVars,
       cpuVars, localVars
  <2>2. CASE Next
    BY <2>2, FamilySwitch, FamilyFork, FamilyLock, FamilyScan, FamilyWaitDone, FamilySleep,
       FamilyReparent, FamilyWakeup, FamilyExit DEF Next, Step, Acquire
  <2> QED BY <2>1, <2>2
<1> QED BY <1>1, FamilyInit, Invariance, PTL DEF Spec

\* No exit is missed, whatever the number of processes and whoever exits first:
\* every child has a living parent, no parent sleeps in wait() with a zombie to
\* collect, and no entry is freed while a CPU is on its stack.
THEOREM ExitsAreWaitedFor == Spec => []WaitedFor
<1>1. Inv /\ FamilyInv => ParentLives
  BY Parents DEF ParentLives, FamilyInv, ParentInv, Living
<1>2. Inv /\ FamilyInv => NoZombieAwaited
  <2> SUFFICES ASSUME Inv, FamilyInv, wait_lock = NULL PROVE NoZombieAwaited
    BY DEF NoZombieAwaited
  <2>1. \A e \in Procs : pc[e] # "wakeinit"
    BY Table DEF FamilyInv, PlaceInv, Held
  <2> QED BY <2>1 DEF NoZombieAwaited, FamilyInv, AwaitInv
<1>3. Inv => FreedOffCpu
  BY DEF Inv, CpuInv, FreedOffCpu
<1> QED BY <1>1, <1>2, <1>3, Invariance, FamilyInvariance, PTL DEF WaitedFor
=============================================================================
