----------------------------- MODULE LogProofs ------------------------------
(***************************************************************************)
(* What TLAPS proves of Log for any finite sets of processes and blocks,   *)
(* any contents, and any MAXOPBLOCKS, LOGSIZE and log size: the            *)
(* reservation of begin_op() holds, log_write() finds the header full only *)
(* for a block that needs no entry, and the log implements AtomicStore.    *)
(*                                                                         *)
(* CallInv relates the counters of struct log to the processes; EntryInv   *)
(* says that the entries of the header in memory are different blocks that *)
(* include what the calls in progress wrote; DiskInv follows the disk      *)
(* through commit() and recover_from_log(), phase by phase.                *)
(***************************************************************************)
EXTENDS Log, FiniteSetTheorems, TLAPS

\* A leaf is first-order reasoning, which Zenon does, unless it cites SMT.
USE Zenon

InCommit == at \in {"log", "log2", "install", "install2", "clear", "done"}

\* outstanding counts the calls in progress, committing marks a commit, and
\* no call is in progress while a commit or a recovery runs.
CallInv ==
  /\ outstanding = Cardinality(InOp)
  /\ Committing <=> InCommit
  /\ at # "none" => InOp = {}
  /\ panic \in {"none", "too big a transaction"}

\* The blocks with an entry in the header in memory.
Logged == {block[i] : i \in 1 .. n}

\* log_write() absorbs: no block has two entries.
EntryInv ==
  /\ \A i, j \in 1 .. n : block[i] = block[j] => i = j
  /\ \A i, j \in 1 .. hdr.n : hdr.block[i] = hdr.block[j] => i = j
  /\ \A p \in Procs : wrote[p] \subseteq Logged /\ (wrote[p] # {} => pc[p] = "op")

\* The disk and the cache in each phase of commit() and recover_from_log().
DiskInv ==
  /\ at \in {"none", "log", "log2", "done"} => hdr.n = 0
  /\ \A b \in Blocks \ Logged : home[b] = cache[b]
  /\ at \in {"log", "log2"} => tail <= n /\ \A i \in 1 .. tail : dlog[i] = cache[block[i]]
  /\ at \in {"install", "install2", "rinstall", "rinstall2"} =>
       /\ hdr.n = n /\ \A i \in 1 .. n : hdr.block[i] = block[i]
       /\ tail <= n
       /\ \A i \in 1 .. tail : home[block[i]] = dlog[i] /\ cache[block[i]] = dlog[i]
  /\ at \in {"log2", "install2", "rinstall2"} => tail < n
  /\ at \in {"install", "install2", "clear", "rclear"} => Durable = cache
  /\ at \in {"clear", "rclear", "done", "recover"} => n = 0

\* What recovery would make of the disk, and what calls read, is never torn.
WholeInv ==
  /\ Durable \in [Blocks -> Data]
  /\ ~Recovering => cache \in [Blocks -> Data]

Inv == TypeOK /\ ReservationHolds /\ CallInv /\ EntryInv /\ DiskInv /\ WholeInv

---------------------------------------------------------------------------
(* What recovery makes of a disk with header h, log blocks l and blocks o. *)

Has(h, b) == {i \in 1 .. h.n : h.block[i] = b}
Recovered(h, l, o) == [b \in Blocks |->
                         IF Has(h, b) # {} THEN l[CHOOSE i \in Has(h, b) : TRUE] ELSE o[b]]

\* What recovery would restore, as a function of the header, the log blocks and
\* the home blocks.
LEMMA DurableIsRecovered ==
  /\ Durable = Recovered(hdr, dlog, home)
  /\ Durable' = Recovered(hdr', dlog', home')
BY DEF Durable, Entries, Recovered, Has

\* The block of the i-th entry gets the i-th log block, the others stay.
LEMMA RecoveredValue ==
  ASSUME NEW h, NEW l, NEW o,
         \A i, j \in 1 .. h.n : h.block[i] = h.block[j] => i = j
  PROVE  /\ \A i \in 1 .. h.n : h.block[i] \in Blocks => Recovered(h, l, o)[h.block[i]] = l[i]
         /\ \A b \in Blocks : (\A i \in 1 .. h.n : h.block[i] # b) => Recovered(h, l, o)[b] = o[b]
<1>1. ASSUME NEW i \in 1 .. h.n, h.block[i] \in Blocks
      PROVE  Recovered(h, l, o)[h.block[i]] = l[i]
  <2>1. Has(h, h.block[i]) = {i}
    BY DEF Has
  <2> QED BY <1>1, <2>1 DEF Recovered
<1>2. ASSUME NEW b \in Blocks, \A i \in 1 .. h.n : h.block[i] # b
      PROVE  Recovered(h, l, o)[b] = o[b]
  <2>1. Has(h, b) = {}
    BY <1>2 DEF Has
  <2> QED BY <2>1 DEF Recovered
<1> QED BY <1>1, <1>2

\* Without entries nothing is installed.
LEMMA RecoveredEmpty ==
  ASSUME NEW h, NEW l, NEW D, NEW o \in [Blocks -> D], h.n = 0
  PROVE  Recovered(h, l, o) = o
<1>1. \A b \in Blocks : Has(h, b) = {}
  BY SMT DEF Has
<1> QED BY <1>1 DEF Recovered

---------------------------------------------------------------------------
(* What each step of commit() and recovery does to the durable contents.   *)

\* In the phases without a header, recovery would change nothing.
LEMMA NoHeader ==
  ASSUME Inv, hdr.n = 0
  PROVE  Durable = home
BY RecoveredEmpty, DurableIsRecovered DEF Inv, TypeOK

\* The block an iteration of install_trans() writes is that of a header entry.
LEMMA InstallsEntry ==
  ASSUME Inv, InstallBegin \/ InstallEnd
  PROVE  /\ tail + 1 \in 1 .. n /\ hdr.n = n /\ block[tail + 1] = hdr.block[tail + 1]
         /\ block[tail + 1] \in Blocks /\ Durable[block[tail + 1]] = dlog[tail + 1]
<1>1. tail + 1 \in 1 .. n /\ hdr.n = n /\ block[tail + 1] = hdr.block[tail + 1]
  BY SMT DEF Inv, TypeOK, DiskInv, InstallBegin, InstallEnd
<1>2. n \in 0 .. LOGSIZE /\ block[tail + 1] \in Blocks
  BY <1>1, LogAssumption, SMT DEF Inv, TypeOK, Slot
<1> QED BY <1>1, <1>2, RecoveredValue, DurableIsRecovered, SMT DEF Inv, EntryInv

\* Every step but the write of the header leaves the durable contents alone.
LEMMA DurableKept ==
  ASSUME Inv, Next, ~WriteHead
  PROVE  Durable' = Durable
<1>1. CASE UNCHANGED diskVars
  BY <1>1, DurableIsRecovered DEF diskVars
<1>2. CASE WriteLogBegin \/ WriteLogEnd
  <2>1. hdr' = hdr /\ home' = home /\ hdr.n = 0
    BY <1>2 DEF WriteLogBegin, WriteLogEnd, Inv, DiskInv
  <2>2. Durable = home
    BY <2>1, NoHeader
  <2> QED BY <2>1, <2>2, DurableIsRecovered, RecoveredEmpty DEF Inv, TypeOK
<1>3. CASE InstallBegin \/ InstallEnd
  <2>1. /\ hdr' = hdr /\ dlog' = dlog
        /\ \A b \in Blocks : b # hdr.block[tail + 1] => home'[b] = home[b]
    BY <1>3, InstallsEntry DEF InstallBegin, InstallEnd, Inv, TypeOK
  <2>2. \A b \in Blocks : Has(hdr, b) # {} \/ b # hdr.block[tail + 1]
    BY <1>3, InstallsEntry DEF Has
  <2>3. \A b \in Blocks : Recovered(hdr, dlog, home)[b] = Recovered(hdr, dlog, home')[b]
    BY <2>1, <2>2, SMT DEF Recovered
  <2> QED BY <2>1, <2>3, DurableIsRecovered DEF Recovered
<1>4. CASE ClearHead
  <2>1. n = 0 /\ home' = home /\ hdr'.n = 0 /\ Durable = cache
    BY <1>4 DEF ClearHead, write_head, Inv, DiskInv
  <2>2. home = cache
    BY <2>1, SMT DEF Inv, DiskInv, TypeOK, Logged
  <2> QED BY <2>1, <2>2, DurableIsRecovered, RecoveredEmpty DEF Inv, TypeOK
<1> QED
  BY <1>1, <1>2, <1>3, <1>4 DEF Next, Op, Step, BeginOpWait, BeginOp, EndOp, EndOpLast,
     CommitDone, Kill, LogWrite, InstallDone, Crash, ReadHead, diskVars

\* write_head() of commit() makes everything the calls wrote durable at once.
LEMMA HeadCommits ==
  ASSUME Inv, WriteHead
  PROVE  /\ Durable' = cache /\ hdr'.n = n
         /\ \A i \in 1 .. n : hdr'.block[i] = block[i]
<1> USE LogAssumption
<1>1. /\ tail = n /\ n \in 0 .. LOGSIZE /\ UNCHANGED <<home, dlog>>
      /\ \A i \in 1 .. n : dlog[i] = cache[block[i]] /\ block[i] \in Blocks
  BY SMT DEF WriteHead, LogWritten, Inv, TypeOK, DiskInv, Slot
<1>2. hdr'.n = n /\ \A i \in 1 .. n : hdr'.block[i] = block[i]
  BY <1>1, SMT DEF WriteHead, write_head, Slot
<1>3. \A i, j \in 1 .. hdr'.n : hdr'.block[i] = hdr'.block[j] => i = j
  BY <1>1, <1>2, SMT DEF Inv, EntryInv
<1>4. ASSUME NEW b \in Blocks
      PROVE  Recovered(hdr', dlog, home)[b] = cache[b]
  <2>1. CASE b \in Logged
    <3>1. PICK i \in 1 .. n : b = block[i]
      BY <2>1 DEF Logged
    <3>2. Recovered(hdr', dlog, home)[hdr'.block[i]] = dlog[i]
      BY <1>1, <1>2, <1>3, RecoveredValue, SMT
    <3> QED BY <1>1, <1>2, <3>1, <3>2
  <2>2. CASE b \notin Logged
    <3>1. \A i \in 1 .. hdr'.n : hdr'.block[i] # b
      BY <1>2, <2>2 DEF Logged
    <3>2. Recovered(hdr', dlog, home)[b] = home[b]
      BY <1>3, <3>1, RecoveredValue, SMT
    <3> QED BY <2>2, <3>2 DEF Inv, DiskInv, WriteHead
  <2> QED BY <2>1, <2>2
<1>5. Recovered(hdr', dlog, home) = cache
  BY <1>4 DEF Recovered, Inv, TypeOK
<1> QED BY <1>1, <1>2, <1>5, DurableIsRecovered

---------------------------------------------------------------------------
(* The reservation.                                                        *)

\* A set of reserved entries is finite, and begin_op() bounds it.
LEMMA ReservedBound ==
  ASSUME NEW P \in SUBSET Procs, NEW R \in SUBSET (P \X (1 .. MAXOPBLOCKS))
  PROVE  /\ IsFiniteSet(P) /\ Cardinality(P) \in Nat
         /\ IsFiniteSet(R) /\ Cardinality(R) \in Nat
         /\ Cardinality(R) <= Cardinality(P) * MAXOPBLOCKS
<1>1. IsFiniteSet(P) /\ Cardinality(P) \in Nat
  BY LogAssumption, FS_Subset, FS_CardinalityType
<1>2. MAXOPBLOCKS \in Nat /\ MAXOPBLOCKS >= 1
  BY LogAssumption, SMT
<1>3. IsFiniteSet(1 .. MAXOPBLOCKS) /\ Cardinality(1 .. MAXOPBLOCKS) = MAXOPBLOCKS
  BY <1>2, FS_Interval, SMT
<1>4. /\ IsFiniteSet(P \X (1 .. MAXOPBLOCKS))
      /\ Cardinality(P \X (1 .. MAXOPBLOCKS)) = Cardinality(P) * MAXOPBLOCKS
  BY <1>1, <1>3, FS_Product
<1>5. IsFiniteSet(R) /\ Cardinality(R) <= Cardinality(P \X (1 .. MAXOPBLOCKS))
  BY <1>4, FS_Subset
<1> QED BY <1>1, <1>4, <1>5, FS_CardinalityType

\* What the calls have reserved is finite, now and in the next state.
LEMMA ReservedFinite ==
  /\ InOp \subseteq Procs /\ IsFiniteSet(InOp) /\ Cardinality(InOp) \in Nat
  /\ IsFiniteSet(Reserved) /\ Cardinality(Reserved) \in Nat
  /\ IsFiniteSet(InOp') /\ Cardinality(InOp') \in Nat
  /\ IsFiniteSet(Reserved') /\ Cardinality(Reserved') \in Nat
  /\ Cardinality(Reserved') <= Cardinality(InOp') * MAXOPBLOCKS
<1>1. InOp \in SUBSET Procs /\ InOp' \in SUBSET Procs
  BY DEF InOp
<1>2. /\ Reserved \in SUBSET (InOp \X (1 .. MAXOPBLOCKS))
      /\ Reserved' \in SUBSET (InOp' \X (1 .. MAXOPBLOCKS))
  BY DEF Reserved
<1>3. /\ IsFiniteSet(InOp) /\ Cardinality(InOp) \in Nat
      /\ IsFiniteSet(Reserved) /\ Cardinality(Reserved) \in Nat
  BY <1>1, <1>2, ReservedBound
<1>4. /\ IsFiniteSet(InOp') /\ Cardinality(InOp') \in Nat
      /\ IsFiniteSet(Reserved') /\ Cardinality(Reserved') \in Nat
      /\ Cardinality(Reserved') <= Cardinality(InOp') * MAXOPBLOCKS
  BY <1>1, <1>2, ReservedBound
<1> QED BY <1>1, <1>3, <1>4

\* Giving up reserved entries keeps the reservation.
LEMMA ReservedShrinks ==
  ASSUME Inv, n' = n, Reserved' \subseteq Reserved
  PROVE  ReservationHolds'
<1>1. Cardinality(Reserved') <= Cardinality(Reserved)
  BY ReservedFinite, FS_Subset
<1> QED BY <1>1, ReservedFinite, LogAssumption, SMT DEF Inv, TypeOK, ReservationHolds

\* Without a call in progress nothing is reserved.
LEMMA NothingReserved ==
  ASSUME InOp' = {}, n' \in 0 .. LOGSIZE
  PROVE  ReservationHolds'
<1>1. Reserved' = {}
  BY DEF Reserved
<1>2. Cardinality(Reserved') = 0
  BY <1>1, FS_EmptySet
<1>3. n' \in Nat /\ n' <= LOGSIZE
  BY LogAssumption, SMT
<1>4. n' + Cardinality(Reserved') <= LOGSIZE
  BY <1>2, <1>3, SMT
<1> QED BY <1>4 DEF ReservationHolds

---------------------------------------------------------------------------
(* begin_op() and end_op() keep the invariant.                             *)

\* The steps that leave the header, the cache and the disk alone.
LEMMA SameContents ==
  ASSUME Inv, Next, UNCHANGED <<n, block, cache, diskVars, stepVars>>,
         \A p \in Procs : wrote'[p] = {} \/ (wrote'[p] = wrote[p] /\ pc'[p] = pc[p])
  PROVE  EntryInv' /\ DiskInv' /\ WholeInv'
<1>1. UNCHANGED <<n, block, cache, home, dlog, hdr, at, tail>>
  BY DEF diskVars, stepVars
<1>2. Durable' = Durable
  BY <1>1, DurableIsRecovered
<1>3. Logged' = Logged
  BY <1>1 DEF Logged
<1>4. EntryInv'
  BY <1>1, <1>3 DEF Inv, EntryInv
<1>5. DiskInv'
  BY <1>1, <1>2, <1>3, SMT DEF Inv, DiskInv
<1> QED BY <1>1, <1>2, <1>4, <1>5 DEF Inv, WholeInv, Recovering

\* begin_op() sleeps, or a sleeper of it is killed.
LEMMA WaitStep ==
  ASSUME Inv, Next, NEW p \in Procs, BeginOpWait(p) \/ Kill(p)
  PROVE  Inv'
<1>1. /\ UNCHANGED <<memVars, wrote, stepVars, diskVars, panic>>
      /\ pc[p] \in {"idle", "asleep"} /\ pc'[p] \in {"idle", "asleep"}
      /\ pc' = [pc EXCEPT ![p] = pc'[p]]
  BY DEF BeginOpWait, Kill, Inv, TypeOK
<1>2. InOp' = InOp
  BY <1>1 DEF InOp, Inv, TypeOK
<1>3. Reserved' = Reserved
  BY <1>1, <1>2 DEF Reserved
<1>4. TypeOK'
  BY <1>1 DEF Inv, TypeOK, memVars, stepVars, diskVars
<1>5. ReservationHolds' /\ CallInv'
  BY <1>1, <1>2, <1>3 DEF Inv, ReservationHolds, CallInv, memVars, stepVars, Committing, InCommit
<1>6. \A q \in Procs : wrote'[q] = {} \/ (wrote'[q] = wrote[q] /\ pc'[q] = pc[q])
  BY <1>1 DEF Inv, TypeOK, EntryInv
<1>7. UNCHANGED <<n, block, cache, diskVars, stepVars>>
  BY <1>1 DEF memVars
<1> QED BY <1>4, <1>5, <1>6, <1>7, SameContents DEF Inv

\* begin_op() lets a call in: there is room for MAXOPBLOCKS more entries.
LEMMA BeginOpStep ==
  ASSUME Inv, Next, NEW p \in Procs, BeginOp(p)
  PROVE  Inv'
<1>1. /\ pc[p] = "idle" /\ pc' = [pc EXCEPT ![p] = "op"] /\ outstanding' = outstanding + 1
      /\ UNCHANGED <<n, block, committing, cache, wrote, at, tail, home, dlog, hdr, panic>>
      /\ ~Recovering /\ ~Committing /\ n + (outstanding + 1) * MAXOPBLOCKS <= LOGSIZE
  <2>1. outstanding + 1 \in Nat /\ n \in Nat /\ MAXOPBLOCKS \in Nat /\ LOGSIZE \in Nat
    BY LogAssumption, SMT DEF Inv, TypeOK
  <2>2. (outstanding + 1) * MAXOPBLOCKS \in Nat
    BY <2>1, SMT
  <2> QED BY <2>1, <2>2, SMT DEF BeginOp, Raised, Full, stepVars, diskVars
<1>2. at = "none" /\ at' = "none"
  BY <1>1 DEF Inv, TypeOK, CallInv, InCommit, Recovering, Phases
<1>3. InOp' = InOp \cup {p} /\ p \notin InOp
  BY <1>1 DEF InOp, Inv, TypeOK
<1>4. Cardinality(InOp') = outstanding'
  BY <1>1, <1>3, ReservedFinite, FS_AddElement DEF Inv, CallInv
<1>5. TypeOK'
  BY <1>1, SMT DEF Inv, TypeOK
<1>6. ReservationHolds'
  <2>1. outstanding + 1 \in Nat /\ n \in Nat /\ MAXOPBLOCKS \in Nat /\ LOGSIZE \in Nat
    BY LogAssumption, SMT DEF Inv, TypeOK
  <2>2. (outstanding + 1) * MAXOPBLOCKS \in Nat
    BY <2>1, SMT
  <2>3. Cardinality(Reserved') \in Nat /\ Cardinality(Reserved') <= (outstanding + 1) * MAXOPBLOCKS
    BY <1>1, <1>4, ReservedFinite
  <2> QED BY <1>1, <2>1, <2>2, <2>3, SMT DEF ReservationHolds
<1>7. CallInv'
  BY <1>1, <1>2, <1>4 DEF Inv, CallInv, Committing, InCommit
<1>8. \A q \in Procs : wrote'[q] = {} \/ (wrote'[q] = wrote[q] /\ pc'[q] = pc[q])
  BY <1>1 DEF Inv, TypeOK, EntryInv
<1> QED BY <1>1, <1>5, <1>6, <1>7, <1>8, SameContents DEF Inv, diskVars, stepVars

\* A process in a call: nothing commits or recovers, and it is counted.
LEMMA InCall ==
  ASSUME Inv, NEW p \in Procs, pc[p] = "op"
  PROVE  /\ p \in InOp /\ at = "none" /\ committing = 0 /\ ~Recovering
         /\ outstanding \in Nat /\ outstanding >= 1 /\ hdr.n = 0
<1>1. p \in InOp
  BY DEF InOp
<1>2. at = "none" /\ hdr.n = 0
  BY <1>1 DEF Inv, CallInv, DiskInv
<1>3. committing = 0 /\ ~Recovering
  BY <1>2 DEF Inv, TypeOK, CallInv, Committing, InCommit, Recovering
<1>4. Cardinality(InOp) # 0 /\ Cardinality(InOp) \in Nat
  BY <1>1, ReservedFinite, FS_EmptySet
<1>5. outstanding = Cardinality(InOp)
  BY DEF Inv, CallInv
<1>6. outstanding \in Nat /\ outstanding >= 1
  BY <1>4, <1>5, SMT
<1> QED BY <1>1, <1>2, <1>3, <1>6

\* wakeup(&log) makes sleepers runnable and leaves calls in progress alone.
LEMMA EndOpStep ==
  ASSUME Inv, Next, NEW p \in Procs, EndOp(p)
  PROVE  Inv'
<1>1. /\ pc[p] = "op" /\ outstanding' = outstanding - 1
      /\ pc' = [Wake(pc) EXCEPT ![p] = "idle"] /\ wrote' = [wrote EXCEPT ![p] = {}]
      /\ UNCHANGED <<n, block, committing, cache, at, tail, home, dlog, hdr>>
  BY DEF EndOp, stepVars, diskVars
<1>2. panic' = panic
  BY <1>1, InCall, SMT DEF EndOp
<1>3. /\ pc'[p] = "idle" /\ pc' \in [Procs -> {"idle", "asleep", "op", "commit"}]
      /\ \A q \in Procs \ {p} : pc'[q] = IF pc[q] = "asleep" THEN "idle" ELSE pc[q]
  BY <1>1 DEF Wake, Inv, TypeOK
<1>4. InOp' = InOp \ {p}
  BY <1>3 DEF InOp
<1>5. Cardinality(InOp') = outstanding'
  BY <1>1, <1>4, InCall, ReservedFinite, FS_RemoveElement DEF Inv, CallInv
<1>6. TypeOK'
  BY <1>1, <1>3, InCall, SMT DEF Inv, TypeOK
<1>7. ReservationHolds'
  <2>1. \A q \in InOp' : q \in InOp /\ wrote'[q] = wrote[q]
    BY <1>1, <1>4, ReservedFinite DEF Inv, TypeOK
  <2>2. Reserved' \subseteq Reserved
    BY <2>1 DEF Reserved
  <2> QED BY <1>1, <2>2, ReservedShrinks
<1>8. CallInv'
  BY <1>1, <1>2, <1>4, <1>5, InCall DEF Inv, CallInv, Committing, InCommit
<1>9. \A q \in Procs : wrote'[q] = {} \/ (wrote'[q] = wrote[q] /\ pc'[q] = pc[q])
  BY <1>1, <1>3 DEF Inv, TypeOK, EntryInv
<1> QED BY <1>1, <1>6, <1>7, <1>8, <1>9, SameContents DEF Inv, diskVars, stepVars

\* The last end_op() goes on to commit().
LEMMA EndOpLastStep ==
  ASSUME Inv, Next, NEW p \in Procs, EndOpLast(p)
  PROVE  Inv'
<1>1. /\ pc[p] = "op" /\ outstanding = 1 /\ outstanding' = 0 /\ committing' = 1
      /\ pc' = [pc EXCEPT ![p] = "commit"] /\ wrote' = [wrote EXCEPT ![p] = {}]
      /\ at' = (IF n > 0 THEN "log" ELSE "done") /\ tail' = 0
      /\ UNCHANGED <<n, block, cache, home, dlog, hdr>>
  BY DEF EndOpLast, diskVars
<1>2. panic' = panic /\ at = "none" /\ hdr.n = 0
  BY <1>1, InCall, SMT DEF EndOpLast
<1>3. InOp' = {}
  <2>1. PICK q : InOp = {q}
    BY <1>1, ReservedFinite, FS_Singleton DEF Inv, CallInv
  <2>2. InOp = {p}
    BY <1>1, <2>1, InCall
  <2> QED BY <1>1, <2>2 DEF InOp, Inv, TypeOK
<1>4. Cardinality(InOp') = 0
  BY <1>3, FS_EmptySet
<1>5. TypeOK'
  BY <1>1, LogAssumption, SMT DEF Inv, TypeOK, Phases
<1>6. ReservationHolds'
  BY <1>1, <1>3, NothingReserved DEF Inv, TypeOK
<1>7. CallInv'
  BY <1>1, <1>2, <1>3, <1>4 DEF Inv, CallInv, Committing, InCommit
<1>8. Logged' = Logged /\ Durable' = Durable
  BY <1>1, DurableIsRecovered DEF Logged
<1>9. EntryInv'
  BY <1>1, <1>3, <1>8 DEF Inv, EntryInv, TypeOK
<1>10. DiskInv'
  BY <1>1, <1>2, <1>8, SMT DEF Inv, DiskInv, TypeOK
<1>11. WholeInv'
  BY <1>1, <1>2, <1>8 DEF Inv, WholeInv, Recovering
<1> QED BY <1>5, <1>6, <1>7, <1>9, <1>10, <1>11 DEF Inv

\* The commit is over.
LEMMA CommitDoneStep ==
  ASSUME Inv, Next, NEW p \in Procs, CommitDone(p)
  PROVE  Inv'
<1>1. /\ at = "done" /\ pc[p] = "commit" /\ committing' = 0 /\ at' = "none"
      /\ pc' = [Wake(pc) EXCEPT ![p] = "idle"]
      /\ UNCHANGED <<n, block, outstanding, cache, wrote, tail, home, dlog, hdr, panic>>
  BY DEF CommitDone, diskVars
<1>2. \A q \in Procs : pc'[q] = "op" <=> pc[q] = "op"
  BY <1>1 DEF Wake, Inv, TypeOK
<1>3. InOp' = InOp /\ InOp = {}
  BY <1>1, <1>2 DEF InOp, Inv, CallInv
<1>4. TypeOK'
  BY <1>1 DEF Inv, TypeOK, Phases, Wake
<1>5. ReservationHolds'
  BY <1>1, <1>3, NothingReserved DEF Inv, TypeOK
<1>6. CallInv'
  <2>1. outstanding' = Cardinality(InOp')
    BY <1>1, <1>3 DEF Inv, CallInv
  <2>2. ~Committing' /\ ~InCommit'
    BY <1>1, SMT DEF Committing, InCommit
  <2> QED BY <1>1, <1>3, <2>1, <2>2 DEF Inv, CallInv
<1>7. Logged' = Logged /\ Durable' = Durable
  BY <1>1, DurableIsRecovered DEF Logged
<1>8. EntryInv'
  BY <1>1, <1>2, <1>7 DEF Inv, EntryInv
<1>9. DiskInv' /\ WholeInv'
  BY <1>1, <1>7 DEF Inv, DiskInv, WholeInv, Recovering
<1> QED BY <1>4, <1>5, <1>6, <1>8, <1>9 DEF Inv

---------------------------------------------------------------------------
(* log_write().                                                            *)

\* A block without an entry takes one of those the call has reserved.
LEMMA NewEntry ==
  ASSUME Inv, NEW p \in Procs, pc[p] = "op", NEW b \in Blocks, b \notin Logged,
         Cardinality(wrote[p] \cup {b}) <= MAXOPBLOCKS
  PROVE  /\ Cardinality(wrote[p]) \in Nat /\ b \notin wrote[p]
         /\ Cardinality(wrote[p] \cup {b}) = Cardinality(wrote[p]) + 1
         /\ <<p, Cardinality(wrote[p]) + 1>> \in Reserved
         /\ n + 1 <= LOGSIZE
<1> USE LogAssumption
<1>1. b \notin wrote[p] /\ wrote[p] \in SUBSET Blocks
  BY DEF Inv, EntryInv, TypeOK
<1>2. IsFiniteSet(wrote[p]) /\ Cardinality(wrote[p]) \in Nat
  BY <1>1, FS_Subset, FS_CardinalityType
<1>3. Cardinality(wrote[p] \cup {b}) = Cardinality(wrote[p]) + 1
  BY <1>1, <1>2, FS_AddElement
<1>4. <<p, Cardinality(wrote[p]) + 1>> \in Reserved
  BY <1>2, <1>3, SMT DEF Reserved, InOp
<1>5. Cardinality(Reserved) # 0 /\ Cardinality(Reserved) \in Nat
  BY <1>4, ReservedFinite, FS_EmptySet
<1>6. n + Cardinality(Reserved) <= LOGSIZE /\ n \in Nat
  BY SMT DEF Inv, ReservationHolds, TypeOK
<1> QED BY <1>1, <1>2, <1>3, <1>4, <1>5, <1>6, SMT

\* log_write() with room in the log.
LEMMA LogWriteStep ==
  ASSUME Inv, Next, NEW p \in Procs, NEW b \in Blocks, NEW d \in Data, LogWrite(p, b, d)
  PROVE  Inv'
<1> USE LogAssumption
<1>1. /\ pc[p] = "op" /\ Cardinality(wrote[p] \cup {b}) <= MAXOPBLOCKS
      /\ UNCHANGED <<outstanding, committing, pc, at, tail, home, dlog, hdr>>
      /\ at = "none" /\ outstanding >= 1 /\ outstanding \in Nat /\ hdr.n = 0
  BY InCall DEF LogWrite, stepVars, diskVars
<1>2. InOp' = InOp
  BY <1>1 DEF InOp
<1>3. Durable' = Durable
  BY <1>1, DurableIsRecovered
<1>4. CASE n >= LOGSIZE \/ n + 1 >= size
  <2>1. panic' = "too big a transaction" /\ UNCHANGED <<n, block, cache, wrote>>
    BY <1>4 DEF LogWrite
  <2>2. TypeOK'
    BY <1>1, <2>1 DEF Inv, TypeOK
  <2>3. ReservationHolds'
    BY <1>2, <2>1, ReservedShrinks DEF Reserved
  <2>4. CallInv'
    BY <1>1, <1>2, <2>1 DEF Inv, CallInv, Committing, InCommit
  <2>5. \A q \in Procs : wrote'[q] = {} \/ (wrote'[q] = wrote[q] /\ pc'[q] = pc[q])
    BY <1>1, <2>1
  <2> QED BY <1>1, <2>1, <2>2, <2>3, <2>4, <2>5, SameContents DEF Inv, diskVars, stepVars
<1>5. CASE ~(n >= LOGSIZE \/ n + 1 >= size)
  <2>1. /\ IF \E i \in 1 .. n : block[i] = b
           THEN UNCHANGED <<n, block>>
           ELSE n' = n + 1 /\ block' = [block EXCEPT ![n + 1] = b]
        /\ cache' = [cache EXCEPT ![b] = d] /\ wrote' = [wrote EXCEPT ![p] = @ \cup {b}]
        /\ panic' = panic
    <3>1. ~(outstanding < 1)
      BY <1>1, SMT
    <3> QED BY <1>5, <3>1 DEF LogWrite
  <2>2. n \in Nat /\ LOGSIZE \in Nat /\ n + 1 \in Slot /\ n + 1 <= LOGSIZE
    BY <1>5, SMT DEF Inv, TypeOK, Slot
  <2>3. TypeOK'
    BY <1>1, <2>1, <2>2, SMT DEF Inv, TypeOK
  <2>4. CallInv'
    BY <1>1, <1>2, <2>1 DEF Inv, CallInv, Committing, InCommit
  <2>5. /\ Logged' = Logged \cup {b}
        /\ \A i, j \in 1 .. n' : block'[i] = block'[j] => i = j
    <3>1. CASE b \in Logged
      BY <2>1, <3>1, SMT DEF Logged, Inv, EntryInv
    <3>2. CASE b \notin Logged
      <4>1. n' = n + 1 /\ block' = [block EXCEPT ![n + 1] = b]
        BY <2>1, <3>2 DEF Logged
      <4>2. /\ 1 .. n' = (1 .. n) \cup {n + 1} /\ block'[n + 1] = b
            /\ \A i \in 1 .. n : block'[i] = block[i] /\ i # n + 1 /\ block[i] # b
        BY <2>2, <3>2, <4>1, SMT DEF Inv, TypeOK, Slot, Logged
      <4> QED BY <4>2, SMT DEF Logged, Inv, EntryInv
    <3> QED BY <3>1, <3>2
  <2>6. EntryInv'
    BY <1>1, <2>1, <2>5, SMT DEF Inv, EntryInv, TypeOK
  <2>7. DiskInv'
    BY <1>1, <2>1, <2>5, <1>3, SMT DEF Inv, DiskInv, TypeOK
  <2>8. WholeInv'
    BY <1>1, <1>3, <2>1 DEF Inv, WholeInv, Recovering
  <2>9. ReservationHolds'
    <3>1. ASSUME NEW q \in InOp, q # p PROVE wrote'[q] = wrote[q]
      BY <2>1, <3>1, ReservedFinite DEF Inv, TypeOK
    <3>2. wrote'[p] = wrote[p] \cup {b}
      BY <2>1 DEF Inv, TypeOK
    <3>3. CASE b \in Logged
      <4>1. IsFiniteSet(wrote[p]) /\ Cardinality(wrote[p]) \in Nat
        BY FS_Subset, FS_CardinalityType DEF Inv, TypeOK
      <4>2. Cardinality(wrote'[p]) \in Nat /\ Cardinality(wrote'[p]) >= Cardinality(wrote[p])
        <5>1. Cardinality(wrote'[p]) = IF b \in wrote[p] THEN Cardinality(wrote[p])
                                       ELSE Cardinality(wrote[p]) + 1
          BY <3>2, <4>1, FS_AddElement
        <5> QED BY <4>1, <5>1, SMT
      <4>3. Reserved' \subseteq Reserved
        BY <1>2, <3>1, <4>1, <4>2, SMT DEF Reserved
      <4> QED BY <2>1, <3>3, <4>3, ReservedShrinks DEF Logged
    <3>4. CASE b \notin Logged
      <4> DEFINE k == Cardinality(wrote[p]) + 1
      <4>1. /\ k - 1 \in Nat /\ Cardinality(wrote'[p]) = k /\ Cardinality(wrote[p]) = k - 1
            /\ <<p, k>> \in Reserved
        BY <1>1, <3>2, <3>4, NewEntry, SMT
      <4> HIDE DEF k
      <4>2. Reserved' \subseteq Reserved \ {<<p, k>>}
        BY <1>2, <3>1, <4>1, SMT DEF Reserved
      <4>3. /\ IsFiniteSet(Reserved \ {<<p, k>>})
            /\ Cardinality(Reserved \ {<<p, k>>}) = Cardinality(Reserved) - 1
        BY <4>1, ReservedFinite, FS_RemoveElement
      <4>4. Cardinality(Reserved') <= Cardinality(Reserved) - 1
        BY <4>2, <4>3, FS_Subset, SMT
      <4>5. n' = n + 1 /\ n + Cardinality(Reserved) <= LOGSIZE
        BY <2>1, <3>4 DEF Logged, Inv, ReservationHolds
      <4> QED BY <2>2, <4>4, <4>5, ReservedFinite, SMT DEF ReservationHolds
    <3> QED BY <3>3, <3>4
  <2> QED BY <2>3, <2>4, <2>6, <2>7, <2>8, <2>9 DEF Inv
<1> QED BY <1>4, <1>5

---------------------------------------------------------------------------
(* commit(), recover_from_log() and crashes.                               *)

\* The steps of commit() and recovery are taken without a call in progress.
LEMMA StepCalls ==
  ASSUME Inv, Step
  PROVE  /\ CallInv'
         /\ \A q \in Procs : wrote'[q] = {}
         /\ UNCHANGED <<outstanding, committing, pc, wrote, panic>>
         /\ n' \in 0 .. LOGSIZE => ReservationHolds'
<1>1. UNCHANGED <<outstanding, committing, pc, wrote, panic>>
  BY DEF Step, WriteLogBegin, WriteLogEnd, WriteHead, InstallBegin, InstallEnd, InstallDone,
     ClearHead, ReadHead, memVars, procVars
<1>2. /\ at # "none"
      /\ at \in {"log", "log2", "install", "install2", "clear", "done"}
           <=> at' \in {"log", "log2", "install", "install2", "clear", "done"}
  BY DEF Step, WriteLogBegin, WriteLogEnd, WriteHead, InstallBegin, InstallEnd, InstallDone,
     ClearHead, ReadHead
<1>3. InOp' = {} /\ InOp = {}
  BY <1>1, <1>2 DEF Inv, CallInv, InOp
<1>4. CallInv'
  BY <1>1, <1>2, <1>3 DEF Inv, CallInv, Committing, InCommit
<1>5. \A q \in Procs : wrote'[q] = {}
  BY <1>1, <1>3 DEF Inv, EntryInv, InOp, TypeOK
<1> QED BY <1>1, <1>3, <1>4, <1>5, NothingReserved

\* write_log().
LEMMA WriteLogStep ==
  ASSUME Inv, Next, WriteLogBegin \/ WriteLogEnd
  PROVE  Inv'
<1> USE LogAssumption
<1>1. /\ UNCHANGED <<n, block, cache, home, hdr>> /\ at \in {"log", "log2"}
      /\ tail \in Nat /\ tail < n /\ n \in 0 .. LOGSIZE /\ hdr.n = 0
      /\ CallInv' /\ (n' \in 0 .. LOGSIZE => ReservationHolds')
      /\ UNCHANGED <<outstanding, committing, pc, wrote, panic>>
  BY StepCalls, SMT DEF WriteLogBegin, WriteLogEnd, memVars, Inv, DiskInv, TypeOK, Step
<1>2. /\ tail + 1 \in Slot /\ \A i \in 1 .. tail : i \in Slot /\ i # tail + 1
      /\ cache[block[tail + 1]] \in Data \cup {TORN}
  BY <1>1, SMT DEF Slot, Inv, TypeOK
<1>3. Durable' = Durable /\ Logged' = Logged
  <2>1. ~WriteHead
    BY DEF WriteHead, WriteLogBegin, WriteLogEnd, LogWritten, Inv, TypeOK
  <2> QED BY <1>1, <2>1, DurableKept DEF Logged
<1>4. EntryInv'
  BY <1>1, <1>3, SMT DEF Inv, EntryInv
<1>5. CASE WriteLogBegin
  <2>1. dlog' = [dlog EXCEPT ![tail + 1] = TORN] /\ at' = "log2" /\ tail' = tail /\ at = "log"
    BY <1>5 DEF WriteLogBegin
  <2>2. TypeOK'
    BY <1>1, <1>2, <2>1 DEF Inv, TypeOK, Phases
  <2>3. DiskInv'
    BY <1>1, <1>2, <1>3, <2>1, SMT DEF Inv, TypeOK, DiskInv
  <2>4. WholeInv'
    BY <1>1, <1>3, <2>1 DEF Inv, WholeInv, Recovering
  <2> QED BY <1>1, <1>4, <2>2, <2>3, <2>4 DEF Inv, TypeOK
<1>6. CASE WriteLogEnd
  <2>1. /\ dlog' = [dlog EXCEPT ![tail + 1] = cache[block[tail + 1]]] /\ at' = "log"
        /\ tail' = tail + 1 /\ at = "log2"
    BY <1>6 DEF WriteLogEnd
  <2>2. TypeOK'
    BY <1>1, <1>2, <2>1, SMT DEF Inv, TypeOK, Phases
  <2>3. \A i \in 1 .. tail' : dlog'[i] = cache[block[i]]
    BY <1>1, <1>2, <2>1, SMTT(30) DEF Inv, TypeOK, DiskInv
  <2>4. DiskInv'
    BY <1>1, <1>3, <2>1, <2>3, SMT DEF Inv, TypeOK, DiskInv
  <2>5. WholeInv'
    BY <1>1, <1>3, <2>1 DEF Inv, WholeInv, Recovering
  <2> QED BY <1>1, <1>4, <2>2, <2>4, <2>5 DEF Inv, TypeOK
<1> QED BY <1>5, <1>6

\* write_head() of commit().
LEMMA WriteHeadStep ==
  ASSUME Inv, Next, WriteHead
  PROVE  Inv'
<1> USE LogAssumption
<1>1. /\ UNCHANGED <<n, block, cache, home, dlog>> /\ at = "log" /\ at' = "install" /\ tail' = 0
      /\ CallInv' /\ (n' \in 0 .. LOGSIZE => ReservationHolds')
      /\ UNCHANGED <<outstanding, committing, pc, wrote, panic>> /\ n \in 0 .. LOGSIZE
      /\ hdr' = [n |-> n, block |-> [i \in Slot |-> IF i <= n THEN block[i] ELSE hdr.block[i]]]
  BY StepCalls DEF WriteHead, write_head, memVars, Step, Inv, TypeOK
<1>2. Logged' = Logged
  BY <1>1 DEF Logged
<1>3. TypeOK'
  <2>1. hdr' \in [n : 0 .. LOGSIZE, block : [Slot -> Blocks]]
    BY <1>1 DEF Inv, TypeOK
  <2> QED BY <1>1, <2>1, SMT DEF Inv, TypeOK, Phases
<1>4. EntryInv'
  BY <1>1, <1>2, HeadCommits, SMTT(30) DEF Inv, EntryInv
<1>5. DiskInv'
  BY <1>1, <1>2, HeadCommits, SMT DEF Inv, TypeOK, DiskInv
<1>6. WholeInv'
  BY <1>1, HeadCommits DEF Inv, WholeInv, Recovering
<1> QED BY <1>1, <1>3, <1>4, <1>5, <1>6 DEF Inv, TypeOK

\* One iteration of install_trans().
LEMMA InstallStep ==
  ASSUME Inv, Next, InstallBegin \/ InstallEnd
  PROVE  Inv'
<1> USE LogAssumption
<1>1. PICK e \in Blocks, t \in 1 .. n :
        /\ t = tail + 1 /\ block[t] = e /\ hdr.n = n /\ hdr.block[t] = e
        /\ Durable[e] = dlog[t] /\ e \in Logged
  BY InstallsEntry DEF Logged
<1>2. /\ UNCHANGED <<n, block, dlog, hdr>> /\ n \in 0 .. LOGSIZE /\ tail \in Nat
      /\ t \in Slot /\ CallInv' /\ ReservationHolds'
      /\ UNCHANGED <<outstanding, committing, pc, wrote, panic>>
      /\ at \in {"install", "install2", "rinstall", "rinstall2"}
      /\ at' \in {"install", "install2", "rinstall", "rinstall2"}
      /\ at \in {"install", "install2"} <=> at' \in {"install", "install2"}
      /\ Recovering <=> at \notin {"install", "install2"}
      /\ Recovering' <=> at' \notin {"install", "install2"}
  BY <1>1, StepCalls, SMT DEF InstallBegin, InstallEnd, Step, memVars, Inv, TypeOK, Slot,
     Recovering
<1>3. Durable' = Durable /\ Logged' = Logged /\ dlog[t] \in Data
  <2>1. ~WriteHead
    BY <1>2 DEF WriteHead
  <2> QED BY <1>1, <1>2, <2>1, DurableKept DEF Logged, Inv, WholeInv
<1>4. EntryInv'
  BY <1>2, <1>3 DEF Inv, EntryInv
<1>7. \A i \in 1 .. tail : i \in 1 .. n /\ block[i] # e /\ block[i] \in Blocks
  <2>1. tail \in Nat /\ n \in 0 .. LOGSIZE /\ t = tail + 1 /\ t \in 1 .. n
    BY <1>1, <1>2
  <2>2. \A i \in 1 .. tail : i \in 1 .. n /\ i \in Slot /\ i # t
    BY <2>1, SMT DEF Slot
  <2> QED BY <1>1, <2>2 DEF Inv, TypeOK, EntryInv
<1>5. CASE InstallBegin
  <2>1. /\ home' = [home EXCEPT ![e] = TORN] /\ UNCHANGED <<cache, tail>>
        /\ at \in {"install", "rinstall"}
        /\ at' = IF at = "install" THEN "install2" ELSE "rinstall2"
    BY <1>1, <1>5 DEF InstallBegin, memVars
  <2>2. TypeOK'
    BY <1>2, <2>1 DEF Inv, TypeOK, Phases
  <2>3. \A b \in Blocks \ Logged' : home'[b] = cache'[b]
    BY <1>1, <1>2, <1>3, <2>1 DEF Inv, DiskInv, TypeOK
  <2>4. \A i \in 1 .. tail' : home'[block'[i]] = dlog'[i] /\ cache'[block'[i]] = dlog'[i]
    BY <1>2, <1>7, <2>1, ZenonT(30) DEF Inv, TypeOK, DiskInv
  <2>5. DiskInv'
    BY <1>1, <1>2, <1>3, <2>1, <2>3, <2>4, SMT DEF Inv, DiskInv
  <2>6. WholeInv'
    BY <1>2, <1>3, <2>1 DEF Inv, WholeInv
  <2> QED BY <1>2, <1>4, <2>2, <2>5, <2>6 DEF Inv
<1>6. CASE InstallEnd
  <2>1. /\ home' = [home EXCEPT ![e] = dlog[t]] /\ cache' = [cache EXCEPT ![e] = dlog[t]]
        /\ tail' = t /\ at \in {"install2", "rinstall2"}
        /\ at' = IF at = "install2" THEN "install" ELSE "rinstall"
    BY <1>1, <1>6 DEF InstallEnd, NextTail
  <2>2. TypeOK'
    BY <1>2, <1>3, <2>1, SMT DEF Inv, TypeOK, Phases, Slot
  <2>3. \A b \in Blocks \ Logged' : home'[b] = cache'[b]
    BY <1>1, <1>2, <1>3, <2>1 DEF Inv, DiskInv, TypeOK
  <2>4. \A i \in 1 .. tail' : home'[block'[i]] = dlog'[i] /\ cache'[block'[i]] = dlog'[i]
    <3>1. ASSUME NEW i \in 1 .. tail
          PROVE  home'[block[i]] = dlog[i] /\ cache'[block[i]] = dlog[i]
      BY <1>2, <1>7, <2>1 DEF Inv, TypeOK, DiskInv
    <3>2. home'[e] = dlog[t] /\ cache'[e] = dlog[t]
      BY <2>1 DEF Inv, TypeOK
    <3>3. \A i \in 1 .. tail' : i \in 1 .. tail \/ i = t
      BY <1>1, <1>2, <2>1, SMT
    <3> QED BY <1>1, <1>2, <3>1, <3>2, <3>3
  <2>5. at = "install2" => cache' = cache
    BY <1>1, <2>1, SMTT(30) DEF Inv, TypeOK, DiskInv
  <2>6. DiskInv'
    BY <1>1, <1>2, <1>3, <2>1, <2>3, <2>4, <2>5, SMT DEF Inv, DiskInv
  <2>7. WholeInv'
    BY <1>2, <1>3, <2>1, <2>5 DEF Inv, WholeInv
  <2> QED BY <1>2, <1>4, <2>2, <2>6, <2>7 DEF Inv
<1> QED BY <1>5, <1>6

\* All entries are installed: disk and cache agree, and are what recovery
\* would make of the disk.
LEMMA Installed ==
  ASSUME Inv, at \in {"install", "rinstall"}, tail = n
  PROVE  home = cache /\ Durable = cache
<1>1. /\ hdr.n = n /\ \A i \in 1 .. n : hdr.block[i] = block[i] /\ block[i] \in Blocks
      /\ \A i \in 1 .. n : home[block[i]] = dlog[i] /\ cache[block[i]] = dlog[i]
      /\ \A b \in Blocks \ Logged : home[b] = cache[b]
  BY LogAssumption, SMT DEF Inv, TypeOK, DiskInv, Slot
<1>2. \A i, j \in 1 .. hdr.n : hdr.block[i] = hdr.block[j] => i = j
  BY DEF Inv, EntryInv
<1>3. ASSUME NEW b \in Blocks
      PROVE  home[b] = cache[b] /\ Recovered(hdr, dlog, home)[b] = cache[b]
  <2>1. CASE b \in Logged
    <3>1. PICK i \in 1 .. n : b = block[i]
      BY <2>1 DEF Logged
    <3>2. Recovered(hdr, dlog, home)[hdr.block[i]] = dlog[i]
      BY <1>1, <1>2, RecoveredValue, SMT
    <3> QED BY <1>1, <3>1, <3>2
  <2>2. CASE b \notin Logged
    <3>1. \A i \in 1 .. hdr.n : hdr.block[i] # b
      BY <1>1, <2>2 DEF Logged
    <3>2. Recovered(hdr, dlog, home)[b] = home[b]
      BY <1>2, <3>1, RecoveredValue, SMT
    <3> QED BY <1>1, <2>2, <3>2
  <2> QED BY <2>1, <2>2
<1>4. Recovered(hdr, dlog, home) = cache /\ home = cache
  BY <1>3, SMTT(30) DEF Recovered, Inv, TypeOK
<1> QED BY <1>4, DurableIsRecovered

\* log.lh.n = 0, and the header that erases the transaction.
LEMMA EraseStep ==
  ASSUME Inv, Next, InstallDone \/ ClearHead
  PROVE  Inv'
<1> USE LogAssumption
<1>1. /\ UNCHANGED <<block, cache, home, dlog>> /\ n' = 0 /\ tail' \in 0 .. LOGSIZE
      /\ CallInv' /\ ReservationHolds'
      /\ UNCHANGED <<outstanding, committing, pc, wrote, panic>>
  BY StepCalls, SMT DEF InstallDone, ClearHead, Step, memVars, diskVars, Inv, TypeOK, DiskInv
<1>2. Durable' = Durable /\ Logged' = {}
  <2>1. ~WriteHead
    BY DEF WriteHead, InstallDone, ClearHead
  <2> QED BY <1>1, <2>1, DurableKept, SMT DEF Logged
<1>3. home = cache /\ Durable = cache
  <2>1. CASE InstallDone
    BY <2>1, Installed DEF InstallDone
  <2>2. CASE ClearHead
    BY <2>2, SMT DEF ClearHead, Inv, DiskInv, TypeOK, Logged
  <2> QED BY <2>1, <2>2
<1>4. /\ at' \in {"clear", "rclear", "done", "none"}
      /\ at' \in {"done", "none"} => hdr'.n = 0
      /\ hdr' \in [n : 0 .. LOGSIZE, block : [Slot -> Blocks]]
      /\ \A i, j \in 1 .. hdr'.n : hdr'.block[i] = hdr'.block[j] => i = j
  <2>1. CASE InstallDone
    BY <2>1 DEF InstallDone, diskVars, Inv, TypeOK, EntryInv
  <2>2. CASE ClearHead
    <3>1. /\ n = 0 /\ at' \in {"done", "none"} /\ Slot \subseteq Nat
          /\ hdr' = [n |-> n, block |-> [i \in Slot |-> IF i <= n THEN block[i] ELSE hdr.block[i]]]
      BY <2>2, SMT DEF ClearHead, write_head, Inv, DiskInv, Slot
    <3>2. hdr' \in [n : 0 .. LOGSIZE, block : [Slot -> Blocks]] /\ hdr'.n = 0
      BY <3>1 DEF Inv, TypeOK
    <3> QED BY <3>1, <3>2, SMT
  <2> QED BY <2>1, <2>2
<1>5. TypeOK'
  BY <1>1, <1>4, SMT DEF Inv, TypeOK, Phases
<1>6. EntryInv'
  BY <1>1, <1>4, StepCalls, SMT DEF EntryInv, Step
<1>7. DiskInv'
  BY <1>1, <1>2, <1>3, <1>4 DEF DiskInv
<1>8. WholeInv'
  BY <1>1, <1>2, <1>3 DEF Inv, WholeInv
<1> QED BY <1>1, <1>5, <1>6, <1>7, <1>8 DEF Inv

\* read_head() of recovery.
LEMMA ReadHeadStep ==
  ASSUME Inv, Next, ReadHead
  PROVE  Inv'
<1> USE LogAssumption
<1>1. /\ UNCHANGED <<cache, home, dlog, hdr>> /\ n' = hdr.n /\ tail' = 0
      /\ at = "recover" /\ at' = "rinstall" /\ n = 0 /\ hdr.n \in 0 .. LOGSIZE
      /\ block' = [i \in Slot |-> IF i <= hdr.n THEN hdr.block[i] ELSE block[i]]
      /\ CallInv' /\ ReservationHolds'
      /\ UNCHANGED <<outstanding, committing, pc, wrote, panic>>
  BY StepCalls DEF ReadHead, Step, diskVars, Inv, TypeOK, DiskInv
<1>2. /\ block' \in [Slot -> Blocks] /\ \A i \in 1 .. hdr.n : block'[i] = hdr.block[i]
  BY <1>1, SMT DEF Inv, TypeOK, Slot
<1>3. Durable' = Durable
  BY <1>1, DurableIsRecovered
<1>4. TypeOK'
  BY <1>1, <1>2 DEF Inv, TypeOK, Phases
<1>5. EntryInv'
  BY <1>1, <1>2, StepCalls, SMTT(30) DEF Inv, EntryInv, Step
<1>6. DiskInv'
  <2>1. \A b \in Blocks : home[b] = cache[b]
    BY <1>1, SMT DEF Inv, DiskInv, Logged
  <2> QED BY <1>1, <1>2, <2>1, SMTT(30) DEF DiskInv
<1>7. WholeInv'
  BY <1>1, <1>3 DEF Inv, WholeInv, Recovering
<1> QED BY <1>1, <1>4, <1>5, <1>6, <1>7 DEF Inv

\* The machine stops and boots again.
LEMMA CrashStep ==
  ASSUME Inv, Next, Crash
  PROVE  Inv'
<1> USE LogAssumption
<1>1. /\ n' = 0 /\ block' = NoEntries /\ outstanding' = 0 /\ committing' = 0
      /\ pc' = [p \in Procs |-> "idle"] /\ wrote' = [p \in Procs |-> {}]
      /\ cache' = home /\ at' = "recover" /\ tail' = 0
      /\ UNCHANGED <<home, dlog, hdr, panic>>
  BY DEF Crash, diskVars
<1>2. NoEntries \in [Slot -> Blocks]
  BY DEF NoEntries, AnyBlock
<1>3. TypeOK'
  BY <1>1, <1>2, SMT DEF Inv, TypeOK, Phases
<1>4. InOp' = {} /\ Logged' = {}
  BY <1>1, SMT DEF InOp, Logged
<1>5. ReservationHolds' /\ Cardinality(InOp') = 0
  BY <1>1, <1>4, NothingReserved, FS_EmptySet, SMT
<1>6. CallInv'
  <2>1. ~Committing' /\ ~InCommit'
    BY <1>1, SMT DEF Committing, InCommit
  <2>2. panic' \in {"none", "too big a transaction"} /\ outstanding' = Cardinality(InOp')
    BY <1>1, <1>5 DEF Inv, CallInv
  <2> QED BY <1>4, <2>1, <2>2 DEF CallInv
<1>7. EntryInv'
  BY <1>1, SMT DEF Inv, EntryInv
<1>8. DiskInv'
  BY <1>1 DEF DiskInv
<1>9. WholeInv'
  BY <1>1, DurableIsRecovered DEF Inv, WholeInv, Recovering
<1> QED BY <1>3, <1>5, <1>6, <1>7, <1>8, <1>9 DEF Inv

\* The invariant holds when the machine is switched on.
LEMMA InvInit == Init => Inv
<1> SUFFICES ASSUME Init PROVE Inv
  OBVIOUS
<1> USE LogAssumption
<1>1. NoEntries \in [Slot -> Blocks]
  BY DEF NoEntries, AnyBlock
<1>2. TypeOK
  BY <1>1, SMT DEF Init, TypeOK, Phases
<1>3. InOp = {} /\ Reserved = {} /\ Logged = {}
  BY SMT DEF Init, InOp, Reserved, Logged
<1>4. Cardinality(InOp) = 0 /\ Cardinality(Reserved) = 0
  BY <1>3, FS_EmptySet
<1>5. ReservationHolds
  BY <1>4, SMT DEF Init, ReservationHolds
<1>6. CallInv
  BY <1>3, <1>4, SMT DEF Init, CallInv, Committing, InCommit
<1>7. Durable = home
  BY DurableIsRecovered, RecoveredEmpty, SMT DEF Init
<1>8. EntryInv /\ DiskInv /\ WholeInv
  BY <1>7, SMT DEF Init, EntryInv, DiskInv, WholeInv, Recovering
<1> QED BY <1>2, <1>5, <1>6, <1>8 DEF Inv

\* Every step keeps the invariant.
LEMMA InvStep == Inv /\ [Next]_vars => Inv'
<1> SUFFICES ASSUME Inv, [Next]_vars PROVE Inv'
  OBVIOUS
<1>1. CASE UNCHANGED vars
  <2>1. Durable' = Durable /\ InOp' = InOp /\ Logged' = Logged
    BY <1>1, DurableIsRecovered DEF vars, memVars, procVars, diskVars, InOp, Logged
  <2>2. Reserved' = Reserved
    BY <1>1, <2>1 DEF vars, procVars, Reserved
  <2>3. TypeOK' /\ ReservationHolds' /\ CallInv'
    BY <1>1, <2>1, <2>2 DEF Inv, TypeOK, ReservationHolds, CallInv, Committing, InCommit, vars,
       memVars, procVars, stepVars, diskVars
  <2>4. EntryInv' /\ DiskInv' /\ WholeInv'
    BY <1>1, <2>1, SMT DEF Inv, EntryInv, DiskInv, WholeInv, Recovering, vars, memVars, procVars,
       stepVars, diskVars
  <2> QED BY <2>3, <2>4 DEF Inv
<1>2. CASE Next
  BY <1>2, WaitStep, BeginOpStep, EndOpStep, EndOpLastStep, CommitDoneStep, LogWriteStep,
     WriteLogStep, WriteHeadStep, InstallStep, EraseStep, ReadHeadStep, CrashStep
     DEF Next, Op, Step
<1> QED BY <1>1, <1>2

\* The inductive invariant holds of every behaviour of the log.
THEOREM Invariance == Spec => []Inv
BY InvInit, InvStep, PTL DEF Spec

---------------------------------------------------------------------------
(* What the invariant gives.                                               *)

\* Whatever overlaps, and whenever the machine crashes, the entries of the log
\* plus what the calls in progress may still log fit the header.
THEOREM ReservationAlwaysHolds == Spec => []ReservationHolds
BY Invariance, PTL DEF Inv

\* What recovery would make of the disk holds no torn block, whatever write a
\* crash interrupts and however often recovery is interrupted itself.
NeverTorn == Durable \in [Blocks -> Data]

\* Whatever step of commit() or of recovery a crash interrupts, recovery
\* restores whole blocks only.
THEOREM RecoveryNeverTorn == Spec => []NeverTorn
BY Invariance, PTL DEF Inv, WholeInv, NeverTorn

\* A panic of log.c: log_write() finds the on-disk log used up, or, for a
\* block that has an entry already and so needs no room, the header full.
FullOrAbsorbing ==
  panic' # panic =>
    /\ panic' = "too big a transaction"
    /\ \E p \in InOp, b \in Blocks, d \in Data :
         LogWrite(p, b, d) /\ (n + 1 >= size \/ (n = LOGSIZE /\ b \in Logged))

\* Calls that keep to MAXOPBLOCKS reach no other panic of log.c than that of
\* log_write(), and that only when the blocks of the on-disk log are used up
\* or when a block is logged once more with the header exactly full: a block
\* that needs an entry always finds one in the header.
THEOREM PanicsOnlyFull == Spec => [][FullOrAbsorbing]_vars
<1>1. Inv /\ Inv' /\ [Next]_vars => [FullOrAbsorbing]_vars
  <2> SUFFICES ASSUME Inv, Inv', Next, panic' # panic
               PROVE  FullOrAbsorbing
    BY DEF FullOrAbsorbing
  <2>1. panic' = "too big a transaction"
    BY DEF Inv, CallInv, Next
  <2>2. PICK p \in Procs, b \in Blocks, d \in Data : LogWrite(p, b, d)
    <3>1. ~Step /\ ~Crash
      BY StepCalls DEF Crash
    <3>2. \A p \in Procs : ~(BeginOpWait(p) \/ BeginOp(p) \/ EndOp(p) \/ EndOpLast(p)
                             \/ CommitDone(p) \/ Kill(p))
      BY <2>1 DEF BeginOpWait, BeginOp, EndOp, EndOpLast, CommitDone, Kill
    <3> QED BY <3>1, <3>2 DEF Next, Op
  <2>3. pc[p] = "op" /\ p \in InOp /\ Cardinality(wrote[p] \cup {b}) <= MAXOPBLOCKS
    BY <2>2 DEF LogWrite, InOp
  <2>4. n >= LOGSIZE \/ n + 1 >= size
    BY <2>1, <2>2 DEF LogWrite
  <2>5. n >= LOGSIZE => n = LOGSIZE
    BY LogAssumption, SMT DEF Inv, TypeOK
  <2>6. n = LOGSIZE => b \in Logged
    <3>1. b \notin Logged => n + 1 <= LOGSIZE
      BY <2>3, NewEntry
    <3> QED BY <3>1, LogAssumption, SMT
  <2> QED BY <2>1, <2>2, <2>3, <2>4, <2>5, <2>6 DEF FullOrAbsorbing
<1> QED BY <1>1, Invariance, PTL DEF Spec

---------------------------------------------------------------------------
(* The log implements the atomic store.                                    *)

Image == IF Recovering THEN Durable ELSE cache

\* The log starts as a store that holds what is on the disk.
LEMMA StoreInit ==
  ASSUME Init
  PROVE  Store!Init
<1>1. Inv
  BY InvInit
<1>2. InOp = {} /\ Recovering
  BY DEF Init, InOp, Recovering
<1> QED BY <1>1, <1>2 DEF Inv, WholeInv, Store!Init

\* Every step of the log is a step of the store, or leaves it as it is.
LEMMA StoreStep ==
  ASSUME Inv, Inv', Next
  PROVE  [Store!Next]_Store!vars
<1>1. ASSUME NEW p \in Procs, BeginOpWait(p) \/ Kill(p) \/ CommitDone(p)
      PROVE  UNCHANGED <<Durable, Image, InOp>>
  <2>1. InOp' = InOp
    BY <1>1 DEF BeginOpWait, Kill, CommitDone, Wake, InOp, Inv, TypeOK
  <2>2. UNCHANGED cache /\ Recovering' = Recovering /\ UNCHANGED diskVars
    BY <1>1, SMT DEF BeginOpWait, Kill, CommitDone, Recovering, memVars, stepVars
  <2> QED BY <2>1, <2>2, DurableIsRecovered DEF Image, diskVars
<1>2. ASSUME NEW p \in Procs, BeginOp(p)
      PROVE  Store!Begin(p)
  <2>1. InOp' = InOp \cup {p} /\ p \notin InOp
    BY <1>2, SMT DEF BeginOp, InOp, Inv, TypeOK
  <2>2. ~Recovering /\ ~Recovering' /\ UNCHANGED <<cache, diskVars>>
    BY <1>2 DEF BeginOp, Recovering, stepVars
  <2> QED BY <2>1, <2>2, DurableIsRecovered DEF Store!Begin, diskVars
<1>3. ASSUME NEW p \in Procs, EndOp(p) \/ EndOpLast(p)
      PROVE  Store!End(p)
  <2>1. InOp' = InOp \ {p} /\ p \in InOp
    <3>1. pc[p] = "op" /\ pc \in [Procs -> {"idle", "asleep", "op", "commit"}]
      BY <1>3 DEF EndOp, EndOpLast, Inv, TypeOK
    <3>2. ASSUME NEW q \in Procs
          PROVE  pc'[q] = "op" <=> pc[q] = "op" /\ q # p
      <4>1. CASE EndOp(p)
        BY <3>1, <4>1, SMT DEF EndOp, Wake
      <4>2. CASE EndOpLast(p)
        BY <3>1, <4>2, SMT DEF EndOpLast
      <4> QED BY <1>3, <4>1, <4>2
    <3> QED BY <3>1, <3>2 DEF InOp
  <2>2. ~Recovering
    BY <1>3, InCall DEF EndOp, EndOpLast
  <2>3. ~Recovering' /\ UNCHANGED <<cache, diskVars>>
    BY <1>3, <2>2 DEF EndOp, EndOpLast, Recovering, stepVars
  <2> QED BY <2>1, <2>2, <2>3, DurableIsRecovered DEF Store!End, diskVars
<1>4. ASSUME NEW p \in Procs, NEW b \in Blocks, NEW d \in Data, LogWrite(p, b, d)
      PROVE  Store!Write(p, b, d) \/ UNCHANGED <<Durable, Image, InOp>>
  <2>1. InOp' = InOp /\ p \in InOp /\ UNCHANGED <<diskVars, stepVars>>
    BY <1>4 DEF LogWrite, InOp
  <2>2. ~Recovering /\ ~Recovering'
    BY <1>4, <2>1, InCall DEF LogWrite, Recovering, stepVars
  <2>3. cache' = cache \/ cache' = [cache EXCEPT ![b] = d]
    BY <1>4 DEF LogWrite
  <2>4. Durable' = Durable
    BY <2>1, DurableIsRecovered DEF diskVars
  <2> QED BY <2>1, <2>2, <2>3, <2>4 DEF Store!Write, Image
<1>5. ASSUME Step, ~WriteHead
      PROVE  UNCHANGED <<Durable, Image, InOp>>
  <2>1. InOp' = InOp
    BY <1>5, StepCalls DEF InOp
  <2>2. Durable' = Durable
    BY <1>5, DurableKept
  <2>3. CASE ClearHead
    <3>1. Durable = cache /\ cache' = cache
      BY <2>3 DEF ClearHead, memVars, Inv, DiskInv
    <3> QED BY <2>1, <2>2, <3>1 DEF Image
  <2>4. CASE InstallEnd
    <3>1. at = "install2" => cache' = cache
      BY <2>4, InstallsEntry, SMT DEF InstallEnd, Inv, DiskInv, TypeOK
    <3>2. Recovering' = Recovering /\ (~Recovering => at = "install2")
      BY <2>4, SMT DEF InstallEnd, Recovering
    <3> QED BY <2>1, <2>2, <3>1, <3>2, ZenonT(30) DEF Image
  <2>5. CASE ~ClearHead /\ ~InstallEnd
    <3>1. UNCHANGED cache /\ Recovering' = Recovering
      BY <1>5, <2>5, SMT DEF Step, WriteLogBegin, WriteLogEnd, InstallBegin, InstallDone, ReadHead,
         memVars, Recovering
    <3> QED BY <2>1, <2>2, <3>1 DEF Image
  <2> QED BY <2>3, <2>4, <2>5
<1>6. ASSUME WriteHead
      PROVE  Store!Commit
  <2>1. InOp' = InOp /\ InOp = {}
    BY <1>6, StepCalls DEF WriteHead, Inv, CallInv, InOp, Step
  <2>2. ~Recovering /\ ~Recovering' /\ cache' = cache
    BY <1>6 DEF WriteHead, Recovering, memVars
  <2> QED BY <1>6, <2>1, <2>2, HeadCommits DEF Store!Commit
<1>7. ASSUME Crash
      PROVE  Store!Crash
  <2>1. InOp' = {} /\ Recovering'
    BY <1>7 DEF Crash, InOp, Recovering
  <2>2. Durable' = Durable
    BY <1>7, DurableIsRecovered DEF Crash, diskVars
  <2> QED BY <2>1, <2>2 DEF Store!Crash
<1> HIDE DEF Store!Begin, Store!End, Store!Write, Store!Commit, Store!Crash
<1> QED
  BY <1>1, <1>2, <1>3, <1>4, <1>5, <1>6, <1>7
     DEF Next, Op, Image, Store!Next, Store!vars

\* Crash atomicity for every number of processes and blocks and every log size:
\* whatever write the machine crashes in, what it comes back with is the last
\* commit, and a commit takes in whole calls only.
THEOREM LogImplementsAtomicStore == Spec => ImplementsAtomicStore
<1>1. Init => Store!Init
  BY StoreInit
<1>2. Inv /\ Inv' /\ [Next]_vars => [Store!Next]_Store!vars
  <2>1. UNCHANGED vars => UNCHANGED Store!vars
    BY DurableIsRecovered DEF vars, memVars, procVars, stepVars, diskVars, Store!vars, Recovering, InOp
  <2> QED BY <2>1, StoreStep
<1> QED BY <1>1, <1>2, Invariance, PTL DEF Spec, ImplementsAtomicStore, Store!Spec
=============================================================================
