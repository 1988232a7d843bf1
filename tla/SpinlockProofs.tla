--------------------------- MODULE SpinlockProofs ---------------------------
(***************************************************************************)
(* For any number of CPUs, processes and locks: spin locks exclude each    *)
(* other, and interrupts are off while one is held and as the thread wants *)
(* them otherwise.                                                         *)
(***************************************************************************)
EXTENDS Spinlock, FiniteSetTheorems, TLAPS

\* A leaf is first-order reasoning, which Zenon does, unless it cites SMT.
USE Zenon

Labels == {"run", "off", "spin", "got", "rel", "pop", "switched"}

\* Types.  That "panic" is no label here is half of IntrRestored.
TypeInv ==
  /\ locked \in [Locks -> BOOLEAN] /\ owner \in [Locks -> Cpus \cup {NONE}]
  /\ noff \in [Cpus -> Nat] /\ intena \in [Cpus -> BOOLEAN] /\ sie \in [Cpus -> BOOLEAN]
  /\ hold \in [Cpus -> SUBSET Locks] /\ run \in [Cpus -> Threads]
  /\ lpc \in [Threads -> Labels] /\ want \in [Threads -> Locks \cup {NONE}]
  /\ old \in [Threads -> BOOLEAN] /\ phase \in [Threads -> {"none", "switch"}]
  /\ trapped \in [Threads -> Trap \cup {NONE}] /\ savedIntena \in [Threads -> BOOLEAN]
  /\ \A t \in Threads : lpc[t] \in {"off", "spin", "got", "rel"} => want[t] \in Locks

\* A thread runs on one CPU at most, and the scheduler's thread on its own.
RunInv ==
  /\ \A c \in Cpus : lpc[c] # "switched" /\ run[c] \in {c} \cup SProcs
  /\ \A c \in Cpus : run[c] \in SProcs =>
       lpc[run[c]] # "switched" /\ lpc[c] = "run" /\ trapped[c] = NONE /\ phase[c] = "none"
  /\ \A c, d \in Cpus : run[c] = run[d] => c = d

\* The CPU has set lk->locked and not yet lk->cpu, or cleared lk->cpu and not
\* yet lk->locked.
Between(c) == lpc[run[c]] \in {"got", "rel"}

\* Who has a lock.
OwnInv ==
  /\ \A c \in Cpus : \A l \in hold[c] : locked[l] /\ owner[l] = c
  /\ \A l \in Locks : owner[l] # NONE => locked[l] /\ l \in hold[owner[l]]
  /\ \A c \in Cpus : Between(c) => locked[Want(c)] /\ owner[Want(c)] = NONE
  /\ \A c, d \in Cpus : Between(c) /\ Between(d) /\ Want(c) = Want(d) => c = d

\* noff counts the locks held, and one that is being taken or given up; as
\* long as it is not zero interrupts are off.
Busy(c) == IF lpc[run[c]] \in {"spin", "got", "rel", "pop"} THEN 1 ELSE 0
CountInv ==
  \A c \in Cpus :
    /\ IsFiniteSet(hold[c]) /\ noff[c] = Cardinality(hold[c]) + Busy(c)
    /\ noff[c] > 0 => ~sie[c]

\* Locks are taken in the kernel's order, so never twice.
OrderInv ==
  \A c \in Cpus : lpc[run[c]] \in {"off", "spin", "got"} =>
    hold[c] \cap SProcs = {} /\ (Want(c) \in DevLocks => hold[c] = {})

\* What the interrupt flag is, will be restored to, or was saved as.
FlagOf(c) ==
  /\ lpc[run[c]] = "off" => old[run[c]] = sie[c]
  /\ run[c] \in SProcs =>
       /\ noff[c] = 0 => (sie[c] <=> trapped[run[c]] = NONE)
       /\ noff[c] > 0 => (intena[c] <=> trapped[run[c]] = NONE)
  /\ run[c] = c /\ trapped[c] # NONE => ~sie[c] /\ (noff[c] > 0 => ~intena[c])
FlagInv ==
  /\ \A c \in Cpus : FlagOf(c)
  /\ \A p \in SProcs : lpc[p] = "switched" => (savedIntena[p] <=> trapped[p] = NONE)

\* A thread in the phase "switch" has the lock it will switch with.
PhaseInv ==
  /\ \A c \in Cpus : phase[c] = "switch" => trapped[c] = NONE /\ hold[c] # {}
  /\ \A c \in Cpus : run[c] \in SProcs /\ phase[run[c]] = "switch" => run[c] \in hold[c]

IInv == TypeInv /\ RunInv /\ OwnInv /\ CountInv /\ OrderInv /\ FlagInv /\ PhaseInv

---------------------------------------------------------------------------
(* Every step keeps it.  One lemma per action.                             *)

\* What a CPU's step does to its own thread no other CPU's thread notices.
LEMMA OtherThreads ==
  ASSUME TypeInv, RunInv, NEW c \in Cpus
  PROVE  /\ run[c] \in Threads /\ run[c] \in {c} \cup SProcs
         /\ \A d \in Cpus : d # c => run[d] # run[c] /\ run[d] \in Threads
  BY DEF TypeInv, RunInv

\* With interrupts on a CPU holds nothing, and while its thread is between
\* acquire() and release() noff is the number of locks it holds.
LEMMA CountFacts ==
  ASSUME TypeInv, CountInv, NEW c \in Cpus
  PROVE  /\ Cardinality(hold[c]) \in Nat /\ noff[c] \in Nat
         /\ Cardinality(hold[c]) = 0 <=> hold[c] = {}
         /\ sie[c] => noff[c] = 0 /\ hold[c] = {}
         /\ lpc[run[c]] \in {"run", "off", "switched"} => (noff[c] = 0 <=> hold[c] = {})
<1>1. IsFiniteSet(hold[c]) /\ noff[c] = Cardinality(hold[c]) + Busy(c)
      /\ (noff[c] > 0 => ~sie[c]) /\ noff[c] \in Nat
  BY DEF TypeInv, CountInv
<1>2. Cardinality(hold[c]) \in Nat /\ (Cardinality(hold[c]) = 0 <=> hold[c] = {})
  BY <1>1, FS_CardinalityType, FS_EmptySet
<1> QED
  BY <1>1, <1>2, SMT DEF Busy

\* The first step of acquire() keeps the invariant: the lock wanted is above
\* what the CPU holds.
LEMMA AcquireKeeps ==
  ASSUME IInv, NEW c \in Cpus, NEW l \in Locks, Acquire(c, l)
  PROVE  IInv'
<1> USE SpinlockAssumption DEF Threads, Locks
<1>0. TypeInv /\ RunInv /\ OwnInv /\ CountInv /\ OrderInv /\ FlagInv /\ PhaseInv
  BY DEF IInv
<1>t. /\ run[c] \in Threads /\ run[c] \in {c} \cup SProcs
      /\ \A d \in Cpus : d # c => run[d] # run[c] /\ run[d] \in Threads
  BY <1>0, OtherThreads
<1>1. TypeInv'
  BY <1>0, <1>t DEF Acquire, MayTake, At, StepTo, lockVars, cpuState,
     threadVars, TypeInv, Labels, Trap
<1>2. RunInv'
  BY <1>0, <1>t, SMT DEF Acquire, MayTake, At, StepTo, lockVars, cpuState, threadVars, TypeInv,
     RunInv
<1>3. OwnInv'
  BY <1>0, <1>t DEF Acquire, MayTake, At, StepTo, Want, lockVars, cpuState,
     threadVars, TypeInv, OwnInv, Between
<1>4. CountInv'
  BY <1>0, <1>t DEF Acquire, MayTake, At, StepTo, lockVars, cpuState,
     threadVars, TypeInv, CountInv, Busy
<1>5. OrderInv'
  BY <1>0, <1>t DEF Acquire, MayTake, At, StepTo, Want, lockVars, cpuState,
     threadVars, TypeInv, OrderInv
<1>6. FlagInv'
  <2>1. FlagOf(c)'
    BY <1>0, <1>t DEF Acquire, MayTake, At, StepTo, lockVars, cpuState,
       threadVars, TypeInv, FlagInv, FlagOf
  <2>2. \A d \in Cpus : d # c => FlagOf(d)'
    BY <1>0, <1>t DEF Acquire, MayTake, At, StepTo, lockVars, cpuState,
       threadVars, TypeInv, FlagInv, FlagOf
  <2>3. (\A p \in SProcs : lpc[p] = "switched" => (savedIntena[p] <=> trapped[p] = NONE))'
    BY <1>0, <1>t DEF Acquire, MayTake, At, StepTo, lockVars, cpuState,
       threadVars, TypeInv, FlagInv
  <2> QED
    BY <2>1, <2>2, <2>3 DEF FlagInv
<1>7. PhaseInv'
  BY <1>0, <1>t DEF Acquire, MayTake, At, StepTo, lockVars, cpuState,
     threadVars, TypeInv, PhaseInv
<1> QED
  BY <1>1, <1>2, <1>3, <1>4, <1>5, <1>6, <1>7 DEF IInv

\* push_off() keeps it: the lock is not held by this CPU, so no panic.
LEMMA PushOffKeeps ==
  ASSUME IInv, NEW c \in Cpus, PushOff(c)
  PROVE  IInv'
<1> USE SpinlockAssumption DEF Threads, Locks
<1>0. TypeInv /\ RunInv /\ OwnInv /\ CountInv /\ OrderInv /\ FlagInv /\ PhaseInv
  BY DEF IInv
<1>t. /\ run[c] \in Threads /\ run[c] \in {c} \cup SProcs
      /\ \A d \in Cpus : d # c => run[d] # run[c] /\ run[d] \in Threads
  BY <1>0, OtherThreads
<1>c. \A d \in Cpus :
        /\ Cardinality(hold[d]) \in Nat /\ noff[d] \in Nat
        /\ Cardinality(hold[d]) = 0 <=> hold[d] = {}
        /\ sie[d] => noff[d] = 0 /\ hold[d] = {}
        /\ lpc[run[d]] \in {"run", "off", "switched"} => (noff[d] = 0 <=> hold[d] = {})
  BY <1>0, CountFacts
<1>a. ~holding(Want(c), c) /\ lpc[run[c]] = "off"
  BY <1>0, <1>t, SMT DEF PushOff, At, Want, holding, TypeInv, OwnInv, OrderInv
<1>1. TypeInv'
  BY <1>0, <1>t, <1>a, SMT DEF PushOff, holding, At, StepTo, Want, lockVars, threadVars, TypeInv,
     Labels, Trap
<1>2. RunInv'
  BY <1>0, <1>t, <1>a DEF PushOff, holding, At, StepTo, Want, lockVars,
     threadVars, TypeInv, RunInv
<1>3. OwnInv'
  BY <1>0, <1>t, <1>a DEF PushOff, holding, At, StepTo, Want, lockVars,
     threadVars, TypeInv, OwnInv, Between
<1>4. CountInv'
  BY <1>0, <1>t, <1>a, <1>c, SMT DEF PushOff, holding, At, StepTo, Want, lockVars, threadVars,
     TypeInv, CountInv, Busy
<1>5. OrderInv'
  BY <1>0, <1>t, <1>a DEF PushOff, holding, At, StepTo, Want, lockVars,
     threadVars, TypeInv, OrderInv
<1>6. FlagInv'
  <2>1. FlagOf(c)'
    <3>1. /\ noff'[c] = noff[c] + 1 /\ ~sie'[c] /\ lpc'[run[c]] = "spin"
          /\ run' = run /\ trapped' = trapped
      BY <1>0, <1>t, <1>a DEF PushOff, StepTo, threadVars, TypeInv
    <3>2. noff[c] = 0 => (intena'[c] <=> sie[c])
      BY <1>0, <1>t, <1>a, SMT DEF PushOff, TypeInv, FlagInv, FlagOf
    <3>3. noff[c] > 0 => (intena'[c] <=> intena[c])
      BY <1>0, <1>c, SMT DEF PushOff, TypeInv
    <3>4. FlagOf(c) /\ noff[c] \in Nat
      BY <1>0, <1>c DEF FlagInv
    <3> QED
      BY <3>1, <3>2, <3>3, <3>4, SMT DEF FlagOf
  <2>2. \A d \in Cpus : d # c => FlagOf(d)'
    BY <1>0, <1>t, <1>a, <1>c, SMT DEF PushOff, holding, At, StepTo, Want, lockVars, threadVars,
       TypeInv, FlagInv, FlagOf
  <2>3. (\A p \in SProcs : lpc[p] = "switched" => (savedIntena[p] <=> trapped[p] = NONE))'
    BY <1>0, <1>t, <1>a, <1>c DEF PushOff, holding, At, StepTo, Want,
       lockVars, threadVars, TypeInv, FlagInv
  <2> QED
    BY <2>1, <2>2, <2>3 DEF FlagInv
<1>7. PhaseInv'
  BY <1>0, <1>t, <1>a DEF PushOff, holding, At, StepTo, Want, lockVars,
     threadVars, TypeInv, PhaseInv
<1> QED
  BY <1>1, <1>2, <1>3, <1>4, <1>5, <1>6, <1>7 DEF IInv

\* The atomic swap of acquire() keeps it: it found the lock free.
LEMMA SpinKeeps ==
  ASSUME IInv, NEW c \in Cpus, Spin(c)
  PROVE  IInv'
<1> USE SpinlockAssumption DEF Threads, Locks
<1>0. TypeInv /\ RunInv /\ OwnInv /\ CountInv /\ OrderInv /\ FlagInv /\ PhaseInv
  BY DEF IInv
<1>t. /\ run[c] \in Threads /\ run[c] \in {c} \cup SProcs
      /\ \A d \in Cpus : d # c => run[d] # run[c] /\ run[d] \in Threads
  BY <1>0, OtherThreads
<1>1. TypeInv'
  BY <1>0, <1>t DEF Spin, Unlocked, At, StepTo, Want, cpuState, threadVars,
     TypeInv, Labels, Trap
<1>2. RunInv'
  BY <1>0, <1>t DEF Spin, Unlocked, At, StepTo, Want, cpuState, threadVars,
     TypeInv, RunInv
<1>3. OwnInv'
  BY <1>0, <1>t, SMT DEF Spin, Unlocked, At, StepTo, Want, cpuState, threadVars, TypeInv, OwnInv,
     Between
<1>4. CountInv'
  BY <1>0, <1>t DEF Spin, Unlocked, At, StepTo, Want, cpuState, threadVars,
     TypeInv, CountInv, Busy
<1>5. OrderInv'
  BY <1>0, <1>t DEF Spin, Unlocked, At, StepTo, Want, cpuState, threadVars,
     TypeInv, OrderInv
<1>6. FlagInv'
  <2>1. FlagOf(c)'
    BY <1>0, <1>t DEF Spin, Unlocked, At, StepTo, Want, cpuState, threadVars,
       TypeInv, FlagInv, FlagOf
  <2>2. \A d \in Cpus : d # c => FlagOf(d)'
    BY <1>0, <1>t DEF Spin, Unlocked, At, StepTo, Want, cpuState, threadVars,
       TypeInv, FlagInv, FlagOf
  <2>3. (\A p \in SProcs : lpc[p] = "switched" => (savedIntena[p] <=> trapped[p] = NONE))'
    BY <1>0, <1>t DEF Spin, Unlocked, At, StepTo, Want, cpuState, threadVars,
       TypeInv, FlagInv
  <2> QED
    BY <2>1, <2>2, <2>3 DEF FlagInv
<1>7. PhaseInv'
  BY <1>0, <1>t DEF Spin, Unlocked, At, StepTo, Want, cpuState, threadVars,
     TypeInv, PhaseInv
<1> QED
  BY <1>1, <1>2, <1>3, <1>4, <1>5, <1>6, <1>7 DEF IInv

\* Setting lk->cpu at the end of acquire() keeps it: the lock becomes held.
LEMMA GotKeeps ==
  ASSUME IInv, NEW c \in Cpus, Got(c)
  PROVE  IInv'
<1> USE SpinlockAssumption DEF Threads, Locks
<1>0. TypeInv /\ RunInv /\ OwnInv /\ CountInv /\ OrderInv /\ FlagInv /\ PhaseInv
  BY DEF IInv
<1>t. /\ run[c] \in Threads /\ run[c] \in {c} \cup SProcs
      /\ \A d \in Cpus : d # c => run[d] # run[c] /\ run[d] \in Threads
  BY <1>0, OtherThreads
<1>c. \A d \in Cpus :
        /\ Cardinality(hold[d]) \in Nat /\ noff[d] \in Nat
        /\ Cardinality(hold[d]) = 0 <=> hold[d] = {}
        /\ sie[d] => noff[d] = 0 /\ hold[d] = {}
        /\ lpc[run[d]] \in {"run", "off", "switched"} => (noff[d] = 0 <=> hold[d] = {})
  BY <1>0, CountFacts
<1>a. /\ Want(c) \in Locks /\ Want(c) \notin hold[c] /\ lpc[run[c]] = "got"
      /\ hold'[c] = hold[c] \cup {Want(c)}
      /\ \A d \in Cpus : d # c => hold'[d] = hold[d]
  BY <1>0, <1>t, SMT DEF Got, At, Want, TypeInv, OwnInv, Between
<1>b. IsFiniteSet(hold'[c]) /\ Cardinality(hold'[c]) = Cardinality(hold[c]) + 1
  <2>1. IsFiniteSet(hold[c])
    BY <1>0 DEF CountInv
  <2> HIDE DEF Locks, Threads
  <2>2. /\ IsFiniteSet(hold[c] \cup {Want(c)})
        /\ Cardinality(hold[c] \cup {Want(c)}) = Cardinality(hold[c]) + 1
    BY <1>a, <2>1, FS_AddElement
  <2> QED BY <1>a, <2>2
<1>1. TypeInv'
  BY <1>0, <1>t, SMT DEF Got, At, StepTo, Want, cpuState, TypeInv, Labels, Trap
<1>2. RunInv'
  BY <1>0, <1>t DEF Got, At, StepTo, Want, cpuState, TypeInv, RunInv
<1>3. OwnInv'
  BY <1>0, <1>t, SMT DEF Got, At, StepTo, Want, cpuState, TypeInv, OwnInv, Between
<1>4. CountInv'
  <2>1. noff'[c] = noff[c] /\ sie'[c] = sie[c] /\ noff[c] > 0 /\ Busy(c)' = 1 - Busy(c)
    BY <1>0, <1>t, <1>a, <1>b, <1>c, SMT DEF Got, At, StepTo, Want, cpuState, TypeInv, CountInv,
       Busy
  <2>2. noff'[c] = Cardinality(hold'[c]) + Busy(c)'
    BY <1>0, <1>t, <1>a, <1>b, <1>c, <2>1, SMT DEF CountInv, Busy
  <2>3. \A d \in Cpus : d # c => hold'[d] = hold[d] /\ Busy(d)' = Busy(d)
    BY <1>0, <1>t, <1>a, <1>b, <1>c DEF Got, At, StepTo, Want, cpuState,
       TypeInv, CountInv, Busy
  <2>4. noff' = noff /\ sie' = sie
    BY DEF Got, cpuState
  <2> QED
    BY <1>0, <1>b, <2>1, <2>2, <2>3, <2>4 DEF CountInv
<1>5. OrderInv'
  BY <1>0, <1>t DEF Got, At, StepTo, Want, cpuState, TypeInv, OrderInv
<1>6. FlagInv'
  <2>1. FlagOf(c)'
    BY <1>0, <1>t DEF Got, At, StepTo, Want, cpuState, TypeInv, FlagInv, FlagOf
  <2>2. \A d \in Cpus : d # c => FlagOf(d)'
    BY <1>0, <1>t DEF Got, At, StepTo, Want, cpuState, TypeInv, FlagInv, FlagOf
  <2>3. (\A p \in SProcs : lpc[p] = "switched" => (savedIntena[p] <=> trapped[p] = NONE))'
    BY <1>0, <1>t DEF Got, At, StepTo, Want, cpuState, TypeInv, FlagInv
  <2> QED
    BY <2>1, <2>2, <2>3 DEF FlagInv
<1>7. PhaseInv'
  BY <1>0, <1>t, <1>a, SMT DEF Got, At, StepTo, Want, cpuState, TypeInv, PhaseInv, RunInv
<1> QED
  BY <1>1, <1>2, <1>3, <1>4, <1>5, <1>6, <1>7 DEF IInv

\* The first step of release() keeps it: the CPU holds the lock it releases.
LEMMA ReleaseKeeps ==
  ASSUME IInv, NEW c \in Cpus, NEW l \in Locks, Release(c, l)
  PROVE  IInv'
<1> USE SpinlockAssumption DEF Threads, Locks
<1>0. TypeInv /\ RunInv /\ OwnInv /\ CountInv /\ OrderInv /\ FlagInv /\ PhaseInv
  BY DEF IInv
<1>t. /\ run[c] \in Threads /\ run[c] \in {c} \cup SProcs
      /\ \A d \in Cpus : d # c => run[d] # run[c] /\ run[d] \in Threads
  BY <1>0, OtherThreads
<1>c. \A d \in Cpus :
        /\ Cardinality(hold[d]) \in Nat /\ noff[d] \in Nat
        /\ Cardinality(hold[d]) = 0 <=> hold[d] = {}
        /\ sie[d] => noff[d] = 0 /\ hold[d] = {}
        /\ lpc[run[d]] \in {"run", "off", "switched"} => (noff[d] = 0 <=> hold[d] = {})
  BY <1>0, CountFacts
<1>a. /\ l \in hold[c] /\ holding(l, c) /\ lpc[run[c]] = "run"
      /\ hold'[c] = hold[c] \ {l}
      /\ \A d \in Cpus : d # c => hold'[d] = hold[d]
  BY <1>0, <1>t, SMT DEF Release, At, holding, TypeInv, OwnInv
<1>b. IsFiniteSet(hold'[c]) /\ Cardinality(hold'[c]) = Cardinality(hold[c]) - 1
  BY <1>0, <1>a, FS_RemoveElement DEF CountInv
<1>1. TypeInv'
  BY <1>0, <1>t, <1>a, SMTT(30) DEF Release, holding, At, StepTo, cpuState, TypeInv, Labels, Trap
<1>2. RunInv'
  BY <1>0, <1>t, <1>a, SMT DEF Release, holding, At, StepTo, cpuState, TypeInv, RunInv
<1>3. OwnInv'
  BY <1>0, <1>t, <1>a, SMTT(30) DEF Release, holding, At, StepTo, Want, cpuState, TypeInv, OwnInv,
     Between
<1>4. CountInv'
  <2>1. noff'[c] = noff[c] /\ sie'[c] = sie[c] /\ noff[c] > 0 /\ Busy(c)' = 1 - Busy(c)
    BY <1>0, <1>t, <1>a, <1>b, <1>c, SMT DEF Release, holding, At, StepTo, cpuState, TypeInv,
       CountInv, Busy
  <2>2. noff'[c] = Cardinality(hold'[c]) + Busy(c)'
    BY <1>0, <1>t, <1>a, <1>b, <1>c, <2>1, SMT DEF CountInv, Busy
  <2>3. \A d \in Cpus : d # c => hold'[d] = hold[d] /\ Busy(d)' = Busy(d)
    BY <1>0, <1>t, <1>a, <1>b, <1>c, SMT DEF Release, holding, At, StepTo, cpuState, TypeInv,
       CountInv, Busy
  <2>4. noff' = noff /\ sie' = sie
    BY DEF Release, cpuState
  <2> QED
    BY <1>0, <1>b, <2>1, <2>2, <2>3, <2>4 DEF CountInv
<1>5. OrderInv'
  BY <1>0, <1>t, <1>a, SMTT(30) DEF Release, holding, At, StepTo, Want, cpuState, TypeInv, OrderInv
<1>6. FlagInv'
  <2>1. FlagOf(c)'
    BY <1>0, <1>t, <1>a, SMT DEF Release, holding, At, StepTo, cpuState, TypeInv, FlagInv, FlagOf
  <2>2. \A d \in Cpus : d # c => FlagOf(d)'
    BY <1>0, <1>t, <1>a, SMT DEF Release, holding, At, StepTo, cpuState, TypeInv, FlagInv, FlagOf
  <2>3. (\A p \in SProcs : lpc[p] = "switched" => (savedIntena[p] <=> trapped[p] = NONE))'
    BY <1>0, <1>t, <1>a, SMT DEF Release, holding, At, StepTo, cpuState, TypeInv, FlagInv
  <2> QED
    BY <2>1, <2>2, <2>3 DEF FlagInv
<1>7. PhaseInv'
  BY <1>0, <1>t, <1>a, SMTT(30) DEF Release, holding, At, StepTo, cpuState, TypeInv, PhaseInv, RunInv
<1> QED
  BY <1>1, <1>2, <1>3, <1>4, <1>5, <1>6, <1>7 DEF IInv

\* Clearing lk->locked in release() keeps it: nobody owned the lock.
LEMMA UnlockKeeps ==
  ASSUME IInv, NEW c \in Cpus, Unlock(c)
  PROVE  IInv'
<1> USE SpinlockAssumption DEF Threads, Locks
<1>0. TypeInv /\ RunInv /\ OwnInv /\ CountInv /\ OrderInv /\ FlagInv /\ PhaseInv
  BY DEF IInv
<1>t. /\ run[c] \in Threads /\ run[c] \in {c} \cup SProcs
      /\ \A d \in Cpus : d # c => run[d] # run[c] /\ run[d] \in Threads
  BY <1>0, OtherThreads
<1>1. TypeInv'
  BY <1>0, <1>t DEF Unlock, At, StepTo, Want, cpuState, threadVars, TypeInv,
     Labels, Trap
<1>2. RunInv'
  BY <1>0, <1>t DEF Unlock, At, StepTo, Want, cpuState, threadVars, TypeInv, RunInv
<1>3. OwnInv'
  BY <1>0, <1>t, SMT DEF Unlock, At, StepTo, Want, cpuState, threadVars, TypeInv, OwnInv, Between
<1>4. CountInv'
  BY <1>0, <1>t DEF Unlock, At, StepTo, Want, cpuState, threadVars, TypeInv,
     CountInv, Busy
<1>5. OrderInv'
  BY <1>0, <1>t DEF Unlock, At, StepTo, Want, cpuState, threadVars, TypeInv,
     OrderInv
<1>6. FlagInv'
  <2>1. FlagOf(c)'
    BY <1>0, <1>t DEF Unlock, At, StepTo, Want, cpuState, threadVars, TypeInv,
       FlagInv, FlagOf
  <2>2. \A d \in Cpus : d # c => FlagOf(d)'
    BY <1>0, <1>t DEF Unlock, At, StepTo, Want, cpuState, threadVars, TypeInv,
       FlagInv, FlagOf
  <2>3. (\A p \in SProcs : lpc[p] = "switched" => (savedIntena[p] <=> trapped[p] = NONE))'
    BY <1>0, <1>t DEF Unlock, At, StepTo, Want, cpuState, threadVars, TypeInv,
       FlagInv
  <2> QED
    BY <2>1, <2>2, <2>3 DEF FlagInv
<1>7. PhaseInv'
  BY <1>0, <1>t DEF Unlock, At, StepTo, Want, cpuState, threadVars, TypeInv,
     PhaseInv
<1> QED
  BY <1>1, <1>2, <1>3, <1>4, <1>5, <1>6, <1>7 DEF IInv

\* pop_off() keeps it: noff was positive and interrupts were off.
LEMMA PopOffKeeps ==
  ASSUME IInv, NEW c \in Cpus, PopOff(c)
  PROVE  IInv'
<1> USE SpinlockAssumption DEF Threads, Locks
<1>0. TypeInv /\ RunInv /\ OwnInv /\ CountInv /\ OrderInv /\ FlagInv /\ PhaseInv
  BY DEF IInv
<1>t. /\ run[c] \in Threads /\ run[c] \in {c} \cup SProcs
      /\ \A d \in Cpus : d # c => run[d] # run[c] /\ run[d] \in Threads
  BY <1>0, OtherThreads
<1>c. \A d \in Cpus :
        /\ Cardinality(hold[d]) \in Nat /\ noff[d] \in Nat
        /\ Cardinality(hold[d]) = 0 <=> hold[d] = {}
        /\ sie[d] => noff[d] = 0 /\ hold[d] = {}
        /\ lpc[run[d]] \in {"run", "off", "switched"} => (noff[d] = 0 <=> hold[d] = {})
  BY <1>0, CountFacts
<1>a. noff[c] >= 1 /\ ~sie[c] /\ lpc[run[c]] = "pop" /\ noff[c] = Cardinality(hold[c]) + 1
      /\ noff[c] - 1 \in Nat /\ (noff[c] = 1 /\ intena[c]) \in BOOLEAN
  BY <1>0, <1>t, <1>c, SMT DEF PopOff, At, CountInv, Busy
<1>1. TypeInv'
  <2>0. ~(sie[c] \/ noff[c] < 1)
    BY <1>a, <1>c, SMT
  <2>1. noff' \in [Cpus -> Nat]
    BY <1>0, <1>a, <2>0, SMT DEF PopOff, TypeInv
  <2>2. sie' \in [Cpus -> BOOLEAN]
    <3>1. sie' = [sie EXCEPT ![c] = (noff[c] = 1 /\ intena[c])]
      BY <2>0 DEF PopOff
    <3> QED
      BY <1>0, <1>a, <3>1 DEF TypeInv
  <2>3. /\ UNCHANGED <<locked, owner, intena, hold, run, want, old, phase, trapped, savedIntena>>
        /\ lpc' = [lpc EXCEPT ![run[c]] = "run"]
    BY <2>0 DEF PopOff, StepTo, lockVars, threadVars
  <2> QED
    BY <1>0, <1>t, <2>1, <2>2, <2>3 DEF TypeInv, Labels
<1>2. RunInv'
  BY <1>0, <1>t, <1>a, SMT DEF PopOff, At, StepTo, lockVars, cpuState, threadVars, TypeInv, RunInv
<1>3. OwnInv'
  BY <1>0, <1>t, <1>a, SMT DEF PopOff, At, StepTo, Want, lockVars, cpuState, threadVars, TypeInv,
     OwnInv, Between
<1>4. CountInv'
  BY <1>0, <1>t, <1>a, <1>c, SMT DEF PopOff, At, StepTo, lockVars, cpuState, threadVars, TypeInv,
     CountInv, Busy
<1>5. OrderInv'
  BY <1>0, <1>t, <1>a, SMTT(30) DEF PopOff, At, StepTo, Want, lockVars, cpuState, threadVars, TypeInv,
     OrderInv
<1>6. FlagInv'
  <2>1. FlagOf(c)'
    BY <1>0, <1>t, <1>a, <1>c, SMTT(30) DEF PopOff, At, StepTo, lockVars, cpuState, threadVars, TypeInv,
       FlagInv, FlagOf
  <2>2. \A d \in Cpus : d # c => FlagOf(d)'
    BY <1>0, <1>t, <1>a, <1>c, SMT DEF PopOff, At, StepTo, lockVars, cpuState, threadVars, TypeInv,
       FlagInv, FlagOf
  <2>3. (\A p \in SProcs : lpc[p] = "switched" => (savedIntena[p] <=> trapped[p] = NONE))'
    BY <1>0, <1>t, <1>a, <1>c, SMT DEF PopOff, At, StepTo, lockVars, cpuState, threadVars, TypeInv,
       FlagInv
  <2> QED
    BY <2>1, <2>2, <2>3 DEF FlagInv
<1>7. PhaseInv'
  BY <1>0, <1>t, <1>a DEF PopOff, At, StepTo, lockVars, cpuState, threadVars,
     TypeInv, PhaseInv
<1> QED
  BY <1>1, <1>2, <1>3, <1>4, <1>5, <1>6, <1>7 DEF IInv

\* An interrupt keeps it: it finds interrupts on, so no lock held.
LEMMA InterruptKeeps ==
  ASSUME IInv, NEW c \in Cpus, Interrupt(c)
  PROVE  IInv'
<1> USE SpinlockAssumption DEF Threads, Locks
<1>0. TypeInv /\ RunInv /\ OwnInv /\ CountInv /\ OrderInv /\ FlagInv /\ PhaseInv
  BY DEF IInv
<1>t. /\ run[c] \in Threads /\ run[c] \in {c} \cup SProcs
      /\ \A d \in Cpus : d # c => run[d] # run[c] /\ run[d] \in Threads
  BY <1>0, OtherThreads
<1>c. \A d \in Cpus :
        /\ Cardinality(hold[d]) \in Nat /\ noff[d] \in Nat
        /\ Cardinality(hold[d]) = 0 <=> hold[d] = {}
        /\ sie[d] => noff[d] = 0 /\ hold[d] = {}
        /\ lpc[run[d]] \in {"run", "off", "switched"} => (noff[d] = 0 <=> hold[d] = {})
  BY <1>0, CountFacts
<1>a. trapped[run[c]] = NONE /\ noff[c] = 0 /\ hold[c] = {} /\ lpc[run[c]] \in {"run", "off"}
  BY <1>0, <1>t, <1>c DEF Interrupt, FlagInv, FlagOf
<1>b. trapped'[run[c]] \in Trap /\ trapped'[run[c]] # NONE
      /\ \A t \in Threads : t # run[c] => trapped'[t] = trapped[t]
  BY <1>0, <1>t, <1>a, SMT DEF Interrupt, TypeInv, Trap
<1>1. TypeInv'
  BY <1>0, <1>t, <1>a, <1>b DEF Interrupt, StepTo, lockVars, TypeInv, Labels, Trap
<1>2. RunInv'
  BY <1>0, <1>t, <1>a, SMT DEF Interrupt, StepTo, lockVars, TypeInv, RunInv
<1>3. OwnInv'
  BY <1>0, <1>t, <1>a DEF Interrupt, StepTo, Want, lockVars, TypeInv, OwnInv,
     Between
<1>4. CountInv'
  BY <1>0, <1>t, <1>a, SMT DEF Interrupt, StepTo, lockVars, TypeInv, CountInv, Busy
<1>5. OrderInv'
  BY <1>0, <1>t, <1>a DEF Interrupt, StepTo, Want, lockVars, TypeInv, OrderInv
<1>6. FlagInv'
  <2>1. FlagOf(c)'
    <3>1. /\ noff'[c] = 0 /\ ~sie'[c] /\ lpc'[run[c]] = "run" /\ run' = run
      BY <1>0, <1>t, <1>a DEF Interrupt, StepTo, TypeInv
    <3> QED
      BY <1>b, <3>1, SMT DEF FlagOf
  <2>2. \A d \in Cpus : d # c => FlagOf(d)'
    BY <1>0, <1>t, <1>a, <1>b, SMT DEF Interrupt, StepTo, lockVars, TypeInv, FlagInv, RunInv,
       FlagOf
  <2>3. (\A p \in SProcs : lpc[p] = "switched" => (savedIntena[p] <=> trapped[p] = NONE))'
    BY <1>0, <1>t, <1>a, <1>b DEF Interrupt, StepTo, lockVars, TypeInv,
       FlagInv, RunInv
  <2> QED
    BY <2>1, <2>2, <2>3 DEF FlagInv
<1>7. PhaseInv'
  BY <1>0, <1>t, <1>a, <1>b, SMTT(30) DEF Interrupt, StepTo, lockVars, TypeInv, PhaseInv, RunInv
<1> QED
  BY <1>1, <1>2, <1>3, <1>4, <1>5, <1>6, <1>7 DEF IInv

\* The return from kerneltrap() keeps it: the handler holds nothing.
LEMMA ReturnKeeps ==
  ASSUME IInv, NEW c \in Cpus, Return(c)
  PROVE  IInv'
<1> USE SpinlockAssumption DEF Threads, Locks
<1>0. TypeInv /\ RunInv /\ OwnInv /\ CountInv /\ OrderInv /\ FlagInv /\ PhaseInv
  BY DEF IInv
<1>t. /\ run[c] \in Threads /\ run[c] \in {c} \cup SProcs
      /\ \A d \in Cpus : d # c => run[d] # run[c] /\ run[d] \in Threads
  BY <1>0, OtherThreads
<1>c. \A d \in Cpus :
        /\ Cardinality(hold[d]) \in Nat /\ noff[d] \in Nat
        /\ Cardinality(hold[d]) = 0 <=> hold[d] = {}
        /\ sie[d] => noff[d] = 0 /\ hold[d] = {}
        /\ lpc[run[d]] \in {"run", "off", "switched"} => (noff[d] = 0 <=> hold[d] = {})
  BY <1>0, CountFacts
<1>a. trapped[run[c]] \in Trap /\ hold[c] = {} /\ noff[c] = 0 /\ lpc[run[c]] = "run"
  BY <1>0, <1>t, <1>c DEF Return, At, TypeInv
<1>b. /\ trapped[run[c]].lpc \in {"run", "off"} /\ trapped[run[c]].want \in Locks \cup {NONE}
      /\ trapped[run[c]].lpc = "off" => trapped[run[c]].want \in Locks
  BY <1>a DEF Trap
<1>1. TypeInv'
  BY <1>0, <1>t, <1>a, <1>b DEF Return, At, lockVars, TypeInv, Labels, Trap
<1>2. RunInv'
  BY <1>0, <1>t, <1>a, <1>b, SMT DEF Return, At, lockVars, TypeInv, RunInv
<1>3. OwnInv'
  BY <1>0, <1>t, <1>a, <1>b, ZenonT(30) DEF Return, At, Want, lockVars, TypeInv, OwnInv, Between
<1>4. CountInv'
  BY <1>0, <1>t, <1>a, <1>b, <1>c, SMT DEF Return, At, lockVars, TypeInv, CountInv, Busy
<1>5. OrderInv'
  BY <1>0, <1>t, <1>a, <1>b, SMT DEF Return, At, Want, lockVars, TypeInv, OrderInv
<1>6. FlagInv'
  <2>1. FlagOf(c)'
    <3>1. /\ noff'[c] = 0 /\ sie'[c] = TRUE /\ old'[run[c]] = TRUE
          /\ trapped'[run[c]] = NONE /\ run' = run
      BY <1>0, <1>t, <1>a DEF Return, TypeInv
    <3>2. ~(noff'[c] > 0)
      BY <3>1, SMT
    <3>3. sie'[c] /\ old'[run[c]] = sie'[c]
      BY <3>1
    <3> QED
      BY <3>1, <3>2, <3>3 DEF FlagOf
  <2>2. \A d \in Cpus : d # c => FlagOf(d)'
    <3>1. SUFFICES ASSUME NEW d \in Cpus, d # c PROVE FlagOf(d)'
      OBVIOUS
    <3>2. /\ run'[d] = run[d] /\ noff'[d] = noff[d]
          /\ intena'[d] = intena[d] /\ (intena'[d] <=> intena[d])
          /\ sie'[d] = sie[d] /\ (sie'[d] <=> sie[d])
      BY <1>0, <3>1 DEF Return, TypeInv
    <3>4. FlagOf(d) /\ (run[d] = d => trapped'[d] = trapped[d])
      BY <1>0, <1>t, <3>1 DEF Return, TypeInv, FlagInv
    <3>3. /\ lpc'[run[d]] = lpc[run[d]] /\ old'[run[d]] = old[run[d]]
          /\ trapped'[run[d]] = trapped[run[d]]
      BY <1>0, <1>t, <3>1 DEF Return, TypeInv
    <3> QED
      BY <3>2, <3>3, <3>4 DEF FlagOf
  <2>3. (\A p \in SProcs : lpc[p] = "switched" => (savedIntena[p] <=> trapped[p] = NONE))'
    BY <1>0, <1>t, <1>a, <1>b DEF Return, At, lockVars, TypeInv, FlagInv, RunInv
  <2> QED
    BY <2>1, <2>2, <2>3 DEF FlagInv
<1>7. PhaseInv'
  BY <1>0, <1>t, <1>a DEF Return, At, lockVars, TypeInv, PhaseInv
<1> QED
  BY <1>1, <1>2, <1>3, <1>4, <1>5, <1>6, <1>7 DEF IInv

\* The intr_on() of scheduler() keeps it: the scheduler holds nothing.
LEMMA IntrOnKeeps ==
  ASSUME IInv, NEW c \in Cpus, IntrOn(c)
  PROVE  IInv'
<1> USE SpinlockAssumption DEF Threads, Locks
<1>0. TypeInv /\ RunInv /\ OwnInv /\ CountInv /\ OrderInv /\ FlagInv /\ PhaseInv
  BY DEF IInv
<1>t. /\ run[c] \in Threads /\ run[c] \in {c} \cup SProcs
      /\ \A d \in Cpus : d # c => run[d] # run[c] /\ run[d] \in Threads
  BY <1>0, OtherThreads
<1>c. \A d \in Cpus :
        /\ Cardinality(hold[d]) \in Nat /\ noff[d] \in Nat
        /\ Cardinality(hold[d]) = 0 <=> hold[d] = {}
        /\ sie[d] => noff[d] = 0 /\ hold[d] = {}
        /\ lpc[run[d]] \in {"run", "off", "switched"} => (noff[d] = 0 <=> hold[d] = {})
  BY <1>0, CountFacts
<1>a. noff[c] = 0 /\ lpc[run[c]] = "run"
  BY <1>0, <1>t, <1>c DEF IntrOn, At
<1>1. TypeInv'
  BY <1>0, <1>t DEF IntrOn, At, lockVars, threadVars, TypeInv, Labels, Trap
<1>2. RunInv'
  BY <1>0, <1>t DEF IntrOn, At, lockVars, threadVars, TypeInv, RunInv
<1>3. OwnInv'
  BY <1>0, <1>t, SMT DEF IntrOn, At, Want, lockVars, threadVars, TypeInv, OwnInv, Between
<1>4. CountInv'
  BY <1>0, <1>t, <1>a, SMT DEF IntrOn, At, lockVars, threadVars, TypeInv, CountInv, Busy
<1>5. OrderInv'
  BY <1>0, <1>t DEF IntrOn, At, Want, lockVars, threadVars, TypeInv, OrderInv
<1>6. FlagInv'
  <2>1. FlagOf(c)'
    BY <1>0, <1>t, <1>a DEF IntrOn, At, lockVars, threadVars, TypeInv,
       FlagInv, RunInv, FlagOf
  <2>2. \A d \in Cpus : d # c => FlagOf(d)'
    BY <1>0, <1>t, <1>a, SMT DEF IntrOn, At, lockVars, threadVars, TypeInv, FlagInv, RunInv, FlagOf
  <2>3. (\A p \in SProcs : lpc[p] = "switched" => (savedIntena[p] <=> trapped[p] = NONE))'
    BY <1>0, <1>t, <1>a DEF IntrOn, At, lockVars, threadVars, TypeInv,
       FlagInv, RunInv
  <2> QED
    BY <2>1, <2>2, <2>3 DEF FlagInv
<1>7. PhaseInv'
  BY <1>0, <1>t DEF IntrOn, At, lockVars, threadVars, TypeInv, PhaseInv
<1> QED
  BY <1>1, <1>2, <1>3, <1>4, <1>5, <1>6, <1>7 DEF IInv

\* sched() keeps it: p->lock is held and nothing else, so no panic.
LEMMA SchedKeeps ==
  ASSUME IInv, NEW c \in Cpus, Sched(c)
  PROVE  IInv'
<1> USE SpinlockAssumption DEF Threads, Locks
<1>0. TypeInv /\ RunInv /\ OwnInv /\ CountInv /\ OrderInv /\ FlagInv /\ PhaseInv
  BY DEF IInv
<1>t. /\ run[c] \in Threads /\ run[c] \in {c} \cup SProcs
      /\ \A d \in Cpus : d # c => run[d] # run[c] /\ run[d] \in Threads
  BY <1>0, OtherThreads
<1>c. \A d \in Cpus :
        /\ Cardinality(hold[d]) \in Nat /\ noff[d] \in Nat
        /\ Cardinality(hold[d]) = 0 <=> hold[d] = {}
        /\ sie[d] => noff[d] = 0 /\ hold[d] = {}
        /\ lpc[run[d]] \in {"run", "off", "switched"} => (noff[d] = 0 <=> hold[d] = {})
  BY <1>0, CountFacts
<1>a. ~SchedPanics(c) /\ lpc[run[c]] = "run" /\ noff[c] = 1
  <2>1. Cardinality(hold[c]) = 1
    BY FS_Singleton DEF Sched
  <2>3. lpc[run[c]] = "run"
    BY DEF Sched, At
  <2>4. Busy(c) = 0
    BY <2>3 DEF Busy
  <2>5. noff[c] = 1
    BY <1>0, <2>1, <2>4, SMT DEF CountInv
  <2>2. noff[c] = 1 /\ ~sie[c] /\ lpc[run[c]] = "run"
    BY <1>0, <2>3, <2>5, SMT DEF CountInv
  <2> QED
    BY <1>0, <1>t, <2>2 DEF Sched, SchedPanics, holding, OwnInv
<1>b. /\ run[c] \in SProcs /\ c # run[c] /\ lpc[c] = "run"
      /\ run' = [run EXCEPT ![c] = c] /\ lpc' = [lpc EXCEPT ![run[c]] = "switched"]
  BY <1>0, <1>t, <1>a DEF Sched, StepTo, RunInv
<1>1. TypeInv'
  BY <1>0, <1>t, <1>a, <1>b, SMTT(30) DEF Sched, SavedIntena, At, StepTo, lockVars, cpuState, TypeInv,
     Labels, Trap
<1>2. RunInv'
  BY <1>0, <1>t, <1>a, <1>b, SMTT(30) DEF Sched, SavedIntena, At, StepTo, lockVars, cpuState, TypeInv,
     RunInv
<1>3. OwnInv'
  BY <1>0, <1>t, <1>a, <1>b, SMTT(30) DEF Sched, SavedIntena, At, StepTo, Want, lockVars, cpuState,
     TypeInv, OwnInv, Between, RunInv
<1>4. CountInv'
  BY <1>0, <1>t, <1>a, <1>b, <1>c, SMTT(30) DEF Sched, SavedIntena, At, StepTo, lockVars, cpuState,
     TypeInv, CountInv, Busy, RunInv
<1>5. OrderInv'
  BY <1>0, <1>t, <1>a, <1>b, SMTT(30) DEF Sched, SavedIntena, At, StepTo, Want, lockVars, cpuState,
     TypeInv, OrderInv, RunInv
<1>6. FlagInv'
  <2>1. FlagOf(c)'
    BY <1>0, <1>t, <1>a, <1>b, SMTT(30) DEF Sched, SavedIntena, At, StepTo, lockVars, cpuState, TypeInv,
       FlagInv, RunInv, FlagOf
  <2>2. \A d \in Cpus : d # c => FlagOf(d)'
    BY <1>0, <1>t, <1>a, <1>b, SMTT(30) DEF Sched, SavedIntena, At, StepTo, lockVars, cpuState, TypeInv,
       FlagInv, RunInv, FlagOf
  <2>3. (\A p \in SProcs : lpc[p] = "switched" => (savedIntena[p] <=> trapped[p] = NONE))'
    BY <1>0, <1>t, <1>a, <1>b, SMTT(30) DEF Sched, SavedIntena, At, StepTo, lockVars, cpuState, TypeInv,
       FlagInv, RunInv, FlagOf
  <2> QED
    BY <2>1, <2>2, <2>3 DEF FlagInv
<1>7. PhaseInv'
  BY <1>0, <1>t, <1>a, <1>b, SMT DEF Sched, SavedIntena, At, StepTo, lockVars, cpuState, TypeInv,
     PhaseInv
<1> QED
  BY <1>1, <1>2, <1>3, <1>4, <1>5, <1>6, <1>7 DEF IInv

\* The scheduler's switch to a process keeps it: intena is that process's.
LEMMA SwtchKeeps ==
  ASSUME IInv, NEW c \in Cpus, NEW p \in SProcs, Swtch(c, p)
  PROVE  IInv'
<1> USE SpinlockAssumption DEF Threads, Locks
<1>0. TypeInv /\ RunInv /\ OwnInv /\ CountInv /\ OrderInv /\ FlagInv /\ PhaseInv
  BY DEF IInv
<1>t. /\ run[c] \in Threads /\ run[c] \in {c} \cup SProcs
      /\ \A d \in Cpus : d # c => run[d] # run[c] /\ run[d] \in Threads
  BY <1>0, OtherThreads
<1>c. \A d \in Cpus :
        /\ Cardinality(hold[d]) \in Nat /\ noff[d] \in Nat
        /\ Cardinality(hold[d]) = 0 <=> hold[d] = {}
        /\ sie[d] => noff[d] = 0 /\ hold[d] = {}
        /\ lpc[run[d]] \in {"run", "off", "switched"} => (noff[d] = 0 <=> hold[d] = {})
  BY <1>0, CountFacts
<1>a. /\ run[c] = c /\ lpc[c] = "run" /\ trapped[c] = NONE /\ noff[c] > 0
      /\ c # p /\ \A d \in Cpus : run[d] # p
  BY <1>0, <1>t, <1>c, SMT DEF Swtch, At, TypeInv, RunInv, PhaseInv
<1>1. TypeInv'
  BY <1>0, <1>t DEF Swtch, At, lockVars, TypeInv, Labels, Trap
<1>2. RunInv'
  BY <1>0, <1>t, <1>a, SMTT(30) DEF Swtch, At, lockVars, TypeInv, RunInv
<1>3. OwnInv'
  BY <1>0, <1>t, <1>a, SMTT(30) DEF Swtch, At, Want, lockVars, TypeInv, OwnInv, Between
<1>4. CountInv'
  BY <1>0, <1>t, <1>a, SMTT(30) DEF Swtch, At, lockVars, TypeInv, CountInv, Busy
<1>5. OrderInv'
  BY <1>0, <1>t, <1>a, SMT DEF Swtch, At, Want, lockVars, TypeInv, OrderInv
<1>6. FlagInv'
  <2>1. FlagOf(c)'
    BY <1>0, <1>t, <1>a, SMTT(30) DEF Swtch, At, lockVars, TypeInv, FlagInv, RunInv, FlagOf
  <2>2. \A d \in Cpus : d # c => FlagOf(d)'
    BY <1>0, <1>t, <1>a, SMT DEF Swtch, At, lockVars, TypeInv, FlagInv, RunInv, FlagOf
  <2>3. (\A q \in SProcs : lpc[q] = "switched" => (savedIntena[q] <=> trapped[q] = NONE))'
    BY <1>0, <1>t, <1>a DEF Swtch, At, lockVars, TypeInv, FlagInv, RunInv
  <2> QED
    BY <2>1, <2>2, <2>3 DEF FlagInv
<1>7. PhaseInv'
  BY <1>0, <1>t, <1>a, SMT DEF Swtch, At, lockVars, TypeInv, PhaseInv
<1> QED
  BY <1>1, <1>2, <1>3, <1>4, <1>5, <1>6, <1>7 DEF IInv

---------------------------------------------------------------------------
(* The theorems.                                                           *)

\* The machine boots into the invariant.
LEMMA InitHolds == SpinInit => IInv
<1> SUFFICES ASSUME SpinInit PROVE IInv
  OBVIOUS
<1> USE SpinlockAssumption DEF Threads, Locks
<1>1. TypeInv /\ RunInv /\ OwnInv /\ OrderInv /\ PhaseInv
  BY DEF SpinInit, TypeInv, Labels, Trap, RunInv, OwnInv, Between, Want,
     OrderInv, PhaseInv
<1>2. CountInv
  BY FS_EmptySet, SMT DEF SpinInit, CountInv, Busy
<1>3. FlagInv
  BY DEF SpinInit, FlagInv, FlagOf
<1> QED
  BY <1>1, <1>2, <1>3 DEF IInv

\* Every step of every CPU keeps the invariant.
LEMMA NextKeeps == IInv /\ [SpinNext]_spinVars => IInv'
<1> SUFFICES ASSUME IInv, [SpinNext]_spinVars PROVE IInv'
  OBVIOUS
<1>1. CASE UNCHANGED spinVars
  BY <1>1 DEF spinVars, lockVars, cpuState, threadVars, IInv, TypeInv, RunInv,
     OwnInv, Between,
     CountInv, Busy, OrderInv, FlagInv, FlagOf, PhaseInv, Want
<1>2. ASSUME NEW c \in Cpus, SpinStep(c) PROVE IInv'
  BY <1>2, AcquireKeeps, PushOffKeeps, SpinKeeps, GotKeeps, ReleaseKeeps,
     UnlockKeeps,
     PopOffKeeps, InterruptKeeps, ReturnKeeps, IntrOnKeeps, SchedKeeps, SwtchKeeps DEF SpinStep
<1> QED
  BY <1>1, <1>2 DEF SpinNext

\* So it always holds.
LEMMA Inductive == SpinSpec => []IInv
  BY InitHolds, NextKeeps, PTL DEF SpinSpec

\* acquire() and release() exclude two CPUs from one lock, and a CPU that
\* holds a lock has its interrupts off, however many CPUs, processes and
\* locks there are.
THEOREM LocksExclude == SpinSpec => []MutualExclusion
<1>1. IInv => MutualExclusion
  <2> SUFFICES ASSUME IInv, NEW c \in Cpus
               PROVE  /\ \A d \in Cpus \ {c} : hold[c] \cap hold[d] = {}
                      /\ hold[c] # {} => ~sie[c]
    BY DEF MutualExclusion
  <2>1. ASSUME NEW d \in Cpus \ {c}, NEW l \in hold[c] \cap hold[d] PROVE FALSE
    <3>1. owner[l] = c /\ owner[l] = d
      BY DEF IInv, OwnInv
    <3> QED
      BY <3>1
  <2>2. hold[c] # {} => ~sie[c]
    BY CountFacts DEF IInv
  <2> QED
    BY <2>1, <2>2
<1> QED
  BY <1>1, Inductive, PTL

\* No panic of acquire(), release(), pop_off(), sched() or kerneltrap() is
\* reached, and a process finds its interrupts as it left them after it has
\* given up its locks, on the CPU it started on or on another.
THEOREM InterruptsRestored == SpinSpec => []IntrRestored
<1>1. IInv => IntrRestored
  <2> SUFFICES ASSUME IInv PROVE IntrRestored
    OBVIOUS
  <2>1. \A t \in Threads : lpc[t] # "panic"
    BY DEF IInv, TypeInv, Labels
  <2>2. ASSUME NEW c \in Cpus, run[c] \in SProcs, hold[c] = {}, At(c, "run")
        PROVE  sie[c] = (trapped[run[c]] = NONE)
    <3>1. noff[c] = 0
      BY <2>2, CountFacts DEF IInv, At
    <3>2. sie[c] \in BOOLEAN /\ (sie[c] <=> trapped[run[c]] = NONE)
      BY <2>2, <3>1 DEF IInv, TypeInv, FlagInv, FlagOf
    <3> QED
      BY <3>2
  <2> QED
    BY <2>1, <2>2 DEF IntrRestored
<1> QED
  BY <1>1, Inductive, PTL

=============================================================================
