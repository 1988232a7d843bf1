# TLA+ models of the I/O-scheduling xv6 kernel

This directory holds TLA+ specifications of an xv6-riscv kernel to which a
selectable I/O scheduler was added in `kernel/virtio_disk.c`, the TLC
configurations that check them on small instances, and proofs for TLAPS. The
models follow a block from a file system call down to the device, and beside
that path treat processes, locks, memory, pipes, the console and the shell:

```
 sh.c: parser, runcmd ─────────────────────────────────  ShellCmd
        │ system calls
 file table, descriptors ── pipes ─────────────────────  Files ── Pipe
 console.c, uart.c ────────────────────────────────────  Console
        │
 names, inodes, directories (fs.c, sysfile.c) ─────────  Inode ── FsCalls
 contents, block map, bitmap (fs.c, file.c, mkfs.c) ───  FileContent
        │ begin_op / log_write / end_op
 log.c ────────────────────────────────────────────────  Log ── AtomicStore
        │ bread / bwrite / brelse / bpin
 bio.c, sleeplock.c ───────────────────────────────────  BufferCache
        │
 rw_queue: noop | cfq | sstf | ddl (virtio_disk.c) ────  IoSched, MinHeap, SstfQueue, Deadline
        │
 virtio_disk_rw / virtio_disk_intr ── rings ── device ─  VirtioDisk ── AbstractDisk

 proc.c: fork, exit, wait, kill, scheduler ────────────  Proc
 spinlock.c, with interrupts and context switches ─────  Spinlock
 kalloc.c, vm.c, exec.c: pages and address spaces ─────  Memory
```

A layer is modelled over what the one below it promises. `VirtioDisk` is shown to
implement `AbstractDisk`; `BufferCache` reads and writes blocks the way
`AbstractDisk` promises. `Log` is shown to implement `AtomicStore`; `FsCalls` falls
back to the last image at which no call was in progress, which is what
`AtomicStore` promises, and `FileContent` counts what each chunk of a write logs
against what `begin_op` reserves. `Spinlock` shows that a critical section
excludes the other CPUs and the interrupts of its own, which is why the other
modules make one step of it. `Proc` has the locks and the context switch under
`sleep` and `wakeup`; the others use sleep and wakeup as it provides them.

PROJECT.json lists the components with their status, and maps every definition to
the lines it models.

## The modules

### VirtioDisk

`virtio_disk_rw` is cut into steps at every point where the device, the
interrupt handler or another CPU can see the difference:

| `pc[p]` | Action | Code |
|---|---|---|
| idle | `CallRead`, `CallWrite` | the buffer cache calls with a buffer it holds the sleep lock of |
| enter | `Start` / `StartSleep` | take `vdisk_lock`, `alloc3_desc`, format the chain / give back and sleep on `&disk.free[0]` |
| ring, idx, notify | `PublishSlot`, `PublishIdx`, `Notify` | `avail->ring[..] = `, `avail->idx += 1`, the notify register |
| check | `Wait` / `Finish` | `while(b->disk == 1) sleep` / clear `info`, `free_chain`, release |
| sleep_buf, woken | `Reacquire` | `sleep` returns with the lock |

The handler is `IntrEnter` (lock, acknowledge), `IntrNext` (one used entry) and
`IntrExit`. `Kill(p)` is the early wakeup `kill()` gives any sleeper. The device
is external: it fetches in order once notified (`DevFetch`, `DevRest`) and
completes in any order (`DevComplete`). The counters that are `uint16` in the
code wrap at `IdxMod`, which must be a multiple of `NUM` as 2^16 is of 128.
Block numbers become sectors (`Sector`) and the device turns them back.

`AbstractDisk` is the promise: between call and return each request transfers
its block exactly once, in one step. A call is mapped to "done" when the status
byte of its chain is 0.

### MinHeap, SstfQueue, Deadline, Queues

The request queues as operators on records, shared by `IoSched` and by the modules
that exercise them alone (`Queues`, `MCDeadline`). Operators that can panic or
fault return the fault with the new value. In `Queues` requests arrive and complete
in any order, at a full array and at an empty queue too: neither `rw_queue` nor
`virtio_disk_intr` looks at the size first. A fault ends the behaviour; the size
below zero that completions on an empty queue leave is followed down to
`LeastSize`. `heapDue` and `sstfDue` count what was given and not taken, and
`early` records that a completion found its queue empty; the code has none of
the three. `Deadline` has no rebalancing: no
statement assigns `tree->root` after it is set to NULL, so every inserted node
is hung off the sentinel and the loops are never entered.

### IoSched

Extends `VirtioDisk` by `rw_queue`: `Dispatch` on `IO_type`, `Insert` under
`queue_lock`, `ReadTop` and `Issue`, which read the head of the queue without a
lock (both fields are chosen from the two readings, since either may be old or
new), and `Return`. `IntrHeap`, `IntrSstf` and `IntrDdl` are the three tests of
`IO_type` at the end of `virtio_disk_intr`. `IO_switch` may be called at any
time by a process that is not inside `rw_queue`. `Tick` is `clockintr`.

### BufferCache

A step is a critical section of `bcache.lock` (`BgetHit`, `BgetMiss`, `Bpin`,
`Bunpin`, `Brelse`) or of a sleep lock (`AcquireSleep`, `ReleaseSleep`).
`latest` records the contents last given to each block, `dirty` the caller's
obligation to write or pin a buffer it changed before it releases it. The callers
in the kernel do so, but for `writei` when its copy from user memory fails part of
the way through a block; what becomes of that block is in `FileContent`. A process
has one buffer at a time. `write_log`, `install_trans` and `bmap` with `balloc` hold
two, which uses up the buffers sooner and is otherwise the same as two processes.

### Log

`BeginOp`, `BeginOpWait`, `LogWrite`, `EndOp`, `EndOpLast` are critical sections
of `log.lock`; `commit` runs without it, one block write at a time, each in two
steps so that a crash can leave it torn. `Crash` may happen at any point,
recovery included. The header is smaller than a sector and is written at once.
`AtomicStore` is the promise: the durable contents change only when no call is
in progress, by all updates since the last change together.

### Proc

A process is its table entry (`state`, `parent`, `chan`, `killed`) and its kernel
thread (`at`, `pc` and the loop variables). `on[p]` counts the CPUs whose
`c->proc` is `p`, which is how running on two of them would show.

| Action | Code |
|---|---|
| `Pick`, `SwitchedIn` | `scheduler` takes `p->lock` and switches / `forkret`, `yield` or `sleep` go on and release it |
| `Yield`, `WaitSleep`, `ExitZombie`, then `SwitchedOut` | `p` takes `p->lock`, sets its state and calls `sched` / `scheduler` releases it |
| `CallFork`, `AllocProc`, `Adopt`, `StartChild` | `fork`: one entry of the scan per step, then `parent` under `wait_lock`, then RUNNABLE |
| `CallWait`, `WaitLock`, `ScanOther`, `ScanLiving`, `ScanZombie`, `WaitFails`, `WaitGoesOn` | `wait`: one entry of the scan per step, `wait_lock` held throughout |
| `CallExit`, `ExitLock`, `Reparent`, `Wakeup`, `WakeupDone` | `exit`, `reparent` and `wakeup`, one entry per step |
| `Kill` | the entry at which `kill` finds the pid |

`p->lock` is a variable only where it is held across `swtch`; its other critical
sections are single steps. Running out of memory in `fork` and a failing
`copyout` in `wait` are choices. Nobody kills init, which would end in
`panic("init exiting")`.

### Spinlock

`acquire` is `Acquire` (`push_off` reads `intr_get`), `PushOff`, `Spin` (the
test-and-set) and `Got` (`lk->cpu`); `release` is `Release`, `Unlock`, `PopOff`. An
`Interrupt` may come wherever interrupts are on, between the first two steps of
`acquire` in particular; its handler takes locks too, and may `yield` the process
to another CPU. `Sched` and `Swtch` are the two sides of the context switch with
the saving of `intena`. The threads take locks as they like, in the kernel's
order: a device's lock first, then the lock of one process. Panics are a label.

### Inode and FsCalls

`Inode` has the inode table and the disk (`dinode`, `dirents`) with `iget`, `idup`,
`ilock`, `iput` (in the three stretches its locks cut it into) and `ialloc`;
`FsCalls` the calls. A process goes through `namex` one name per step, holding a
pointer and no lock between two names, then through the call.

| Call | Actions |
|---|---|
| all | `Begin` is `begin_op`, `WalkName` and `WalkEnd` are `namex`, `End` is `end_op`; `Crash` goes back to `saved` |
| `link` | `LinkOld` counts the link; then the second path, `LinkNew`, and `Linked` or back with `LinkBad` |
| `unlink` | `UnlinkName` finds the name, `Unlink` erases it and puts the parent, `Unlinked` takes off the link |
| `open`, `mkdir`, `mknod` | `CreateName` and `Create` make the inode and its entries, "." and ".." included; `Exists` takes the one that is there; `Open` opens without creating |
| `chdir`, `close` | `Chdir`, `Close` move or drop the reference the process holds |

A directory is a function from names to inode numbers. A panic of the code, an
inode table without a free slot (`iget: no inodes`) among them, is recorded in
`panic` and ends the behaviour.

### FileContent

The bitmap, block maps, direct and indirect blocks and bytes of three files, with
`balloc`, `bfree`, `bmap`, `readi`, `writei` and `itrunc` as operators on that
record. A `write()` is cut into chunks as `filewrite` does, and its copy from user
memory may fail at any byte. The bytes of the block it fails in that were copied
are then in a buffer that was not logged: `blk` is what the cache has and `stored`
what the disk has, `Committed` (`end_op`) makes them equal for the logged blocks, and
`Recycle` reads a block from the disk again. `file` is the reference: for each byte
of a file the set of values it may have, one but for the bytes just described.
The initial states are the images mkfs makes (`MkfsImage`), with `RootEntries`
entries in the root directory.

### Memory

Free pages and page-table trees of `Levels` levels; functions take the memory and
return it changed. `WithFailure` makes any one `kalloc` of an operation fail.
Actions: the first process, `fork`, `exec` (segments, stack, arguments), `sbrk`
both ways, and the freeing of a process.

### Files and Pipe

`Files` has the file table and descriptors of processes that run scripts of system
calls; `Pipe` adds `pipe()` (`pipealloc`, the descriptors and their copying out),
`pipeclose`, `piperead`, `pipewrite` and `kill`. `mishaps` bounds what goes wrong: a
kill, an allocation of a file, page or process that fails because others have what
there was, a copy from or to user memory that fails. Each error path undoes what
the code undoes. A byte whose copy to the reader fails is gone from the pipe
(`Lost`). The steps end where a lock is released and before `sleep`. Bytes carry their number,
so that what is read shows its order. The scripts are what `ShellCmd!runcmd` makes
of command lines. A shell that is done is waited for by init.

### Console

`Store` and the echo steps are `consoleintr`, `Read` is `consoleread`, `ReadFails` its
two ways of failing (the copy to the user, and a killed reader), `consolewrite` and
`Putc` are `write()`, `UartStart`/`UartPut` the loop of `uartstart` under
`uart_tx_lock`, `SyncIdle`/`SyncPut` `uartputc_sync`, which tests and writes without
the lock. The UART is external: a FIFO that reports when it is empty and drops
what it has no room for, and an interrupt line.

### ShellCmd

`parsecmd` and its helpers follow the recursive descent of `sh.c` over tokens;
`Line` is the reference: the tree the grammar gives a line, found by splitting it
at its separators. `runcmd` turns a tree into system calls.

## The runs

A property that is a conjunction has its parts in the component's module. It is
defined there too where a theorem states it, and in the MC module otherwise.

| Run | Result | Properties |
|---|---|---|
| `noop` | holds | `DescriptorsAccounted`: none leaked, none shared. `RingsInStep`: the device sees whole chains, a request is outstanding once, no panic. `ServesRequests`: refinement of `AbstractDisk`, right data on return. `EveryRequestReturns` |
| `noop_pressure` | holds | `SleeperWoken`: with descriptors for one request, who sleeps for them is woken |
| `sched_single` | holds | one process, four modes, switches and the clock: `ReadServed`, `WriteServed`, and `QueuesSafe` (no fault, queues drain) |
| `bcache` | holds | `BufferIdentity` (one buffer per block, and the buffer asked for), `CountsHold` (references, list, `bget` panics only when every buffer is in use), `ReadsLatest`, `LockHandedOn` (one holder, and nobody sleeps for a lock without one) |
| `log` | holds | `ImplementsAtomicStore` under crashes and torn writes, `ReservationHolds` (what is logged and what may still be logged fits), `LogProgress` (sleepers woken, commit and recovery end) |
| `proc` | holds | `OneCpu`, `WaitedFor` (living parents, no zombie missed, no entry freed under a CPU), `ZombieStays` |
| `kernel` | holds | seven parts that share no state, one per behaviour: see below |
| `io` | holds | pipelines: `FilesCounted`, `PipeStream`, `PipelineEnds`; the console: `InputInOrder`, `NothingLost`, `ConsoleQuiet` |
| `sched_cfq_read` | violated | with two readers in cfq mode one issues the other's request and returns its own buffer unread |
| `sched_leak` | violated | two callers issue the same request; its completion lets both return and removes one heap entry, so that entries of finished calls fill the heap |
| `ddl_minimum` | violated | `readyArea` is the last request inserted, not the one with the least block number |
| `log_size` | violated | with `log.size = LOGSIZE`, as mkfs lays the disk out, calls within `MAXOPBLOCKS` panic in `log_write` |

The four violated runs state what a comment of the source says and show that
the code does otherwise; PROJECT.json quotes the lines.

`MCKernel` chooses one of its parts in the initial state (`mode`) and leaves the
others as they are, so the run is the disjoint union of seven state spaces:

| `mode` | Properties |
|---|---|
| cfq, sstf | `HeapOrdered`, `ElementsKept`; `NearestNext`, `RequestsKept`: order, and exactly the requests that arrived and were not taken |
| calls | `RefsCounted`: `ip->ref` is the number of pointers on every path. `Coherent`: whoever locks an inode sees what is on disk. `NamesBacked`: at every moment, crashes included, no name of a freed inode. `PutNeverBlocks`: `iput` never waits with `itable.lock` held |
| content | `FilesReadBack`: what was written is read, without holes, and after a failed copy only bytes of the block it failed in are in doubt. `BlocksHaveOwner`: bitmap and block maps agree. `LogBudget`: a chunk logs at most `MAXOPBLOCKS` blocks |
| memory | `PagesHaveHolder`: no page lost, shared or freed twice, whichever allocation fails. `SpaceMatchesSize`: exactly the pages below `sz` are mapped, no panic |
| locks | `MutualExclusion`, `IntrRestored` |
| parser | `ParsesGrammar` |

### Bounds

* `noop`: two processes and buffers, two blocks, six descriptors, so that both
  requests are in flight together, complete in either order and leave the free
  descriptors in any arrangement; `IdxMod = NUM` makes every counter wrap.
  `noop_pressure` has four descriptors: a request takes three and an attempt to
  take three more finds one and gives it back. `IdxMod = 8` there makes counters
  and slots wrap at different times.
* `sched_single`: one process. With two, the faults above come first.
* `bcache`: three buffers for two processes and two pins, four blocks: buffers
  are recycled, and all of them can be in use, so that `bget` panics.
* `proc`: three entries and two CPUs: init, a parent and a child, so that
  `reparent` has work to do, entries are reused, and two processes run in the
  kernel at once while a third waits for a CPU.
* `log`: three processes, at most two calls fit (`LOGSIZE = 2 * MAXOPBLOCKS`), so
  one waits. There are fewer blocks than log entries: with more, logging a block
  again while the log is exactly full panics, because `log_write` tests `n`
  before it looks for the block (see the comment on `NoPanic`).
* `kernel`, queues: up to six heap elements (three levels, a last parent with one
  child) and seven queue elements over four block numbers, so equal and
  equidistant requests occur, and one arrival more, at which the arrays are full.
* `kernel`, calls: two processes, three inodes (the root and two that are freed and
  allocated again), four calls out of ten that meet in the same two names, one
  crash. `NINODE = 4` is enough for every pointer two processes have; the proofs
  are for any `NINODE`, so for a table that runs out as well.
* `kernel`, content: blocks of two cells, one direct and three indirect blocks, ten
  data blocks, so that a write crosses every boundary, fills the file and takes
  back blocks with old contents; each bit of the bitmap in a block of its own
  (`BPB = 1`), the worst case for the log. The root directory of three entries ends
  inside its second block.
* `kernel`, memory: three levels of two entries, pages of two bytes, 21 pages, two
  processes: page-table pages are made, shared by several pages and freed.
* `kernel`, locks: two CPUs, two processes, one device lock. Parser: every line of
  up to five tokens.
* `io`: six processes, so that a pipeline of three has all of its processes, and
  tables that some of the lines fill; a pipe of two bytes with counters modulo
  four; one mishap. The console has an input buffer of three, rings and FIFO of two,
  four events of typing, writing and failing to read. The run has no deadlock check: when the line
  has been run, or everything typed and written, the system rests.

Symmetry is used in `bcache` and `kernel`, which check no liveness. The
views (`Live`, `Rotated`, `SchedLive`, `View`) leave out what nobody reads before it
is written again: ring slots outside the windows, fields of free descriptors and
free inode slots, queue slots past the end, log blocks no header covers, locals
that are set before they are read; `Rotated` also counts ring positions from the
reader's counter, and `MemoryView` forgets the names of pages. States with the
same view have the same futures and the same values of the properties checked
under the view. Where a view is combined with symmetry (`kernel`) TLC may keep
equivalent states twice, so that the number of states it reports varies a little.

### Fairness

* A CPU that holds a spin lock goes on (interrupts are off): weak fairness of the
  steps under `vdisk_lock` and `uart_tx_lock`, of the handlers' loops, of commit and
  recovery.
* A CPU that spins for a lock that is free again and again gets it: strong
  fairness of `Start`/`StartSleep`, `Reacquire` and `IntrEnter`. xv6's
  test-and-set lock is not a fair lock; this is the assumption that contention
  on it does not last forever.
* The devices serve what they have been told of: weak fairness of `DevFetch`, of
  each completion, of the UART's sending and of a pending interrupt.
* A process that can run is scheduled, as the round robin of `scheduler` does: weak
  fairness of its steps in `Pipe` and `Console`.
* Calls between `begin_op` and `end_op` end. Nobody is assumed to make a call, to
  type, to be killed or to crash; `LogComesToRest` excludes machines that crash for
  ever.
* For `SleeperWoken` only the wakeup is claimed. A woken process may find the
  descriptors or the log taken again; the code gives no order among waiters.

## Proofs

Seven modules hold theorems, checked by TLAPS for every value of the constants that
satisfies the `ASSUME` of the component's module. None of the properties is
inductive; each module begins with the strengthening that is, and has one lemma
per action, with one step per conjunct that the action can disturb.

The modules start with `USE Zenon`: most leaves are first-order reasoning about a
few named facts, and the leaves that need arithmetic, records or sequences cite
`SMT`. This is a matter of time as well as of style, since what tlapm spends on an
SMT leaf grows with the number of SMT leaves before it.

| Module | Theorems | What the runs check of it |
|---|---|---|
| `VirtioDiskProofs` | `TypeOKHolds`, `DescriptorsAlwaysAccounted`, `NoDoubleFree`, `RingsAlwaysInStep`, `DriverImplementsDisk`, `RequestsServed` | `DescriptorsAccounted`, `RingsInStep`, `ServesRequests` |
| `QueuesProofs` | `HeapStaysOrdered`, `HeapKeepsElements`, `NearestIsNext`, `QueueKeepsRequests`, `QueueFaults` | `HeapOrdered`, `ElementsKept`, `NearestNext`, `RequestsKept` |
| `BufferCacheProofs` | `BufferKeepsItsBlock`, `BreadReturnsLatest`, `SleepLockHandedOn`, `PanicsOnlyOutOfBuffers`, `CountsAlwaysHold` | `BufferIdentity`, `ReadsLatest`, `LockHandedOn`, `CountsHold` |
| `LogProofs` | `ReservationAlwaysHolds`, `RecoveryNeverTorn`, `LogImplementsAtomicStore`, `PanicsOnlyFull` | `ImplementsAtomicStore`, `ReservationHolds` |
| `FsCallsProofs` | `RefsAlwaysCounted`, `CopiesCoherent`, `PutDoesNotBlock`, `LocksAlwaysReferenced` | `RefsCounted`, `Coherent`, `PutNeverBlocks` |
| `ProcProofs` | `TypeCorrect`, `AtMostOneCpu`, `FreedEntriesAreOffCpu`, `ZombiesStay`, `ExitsAreWaitedFor` | `OneCpu`, `ZombieStays`, `WaitedFor` |
| `SpinlockProofs` | `LocksExclude`, `InterruptsRestored` | `MutualExclusion`, `IntrRestored` |

### The driver and its rings

For any sets of processes, buffers, blocks and data and any `NUM` and `IdxMod` that
satisfy `SizeAssumption` (at least three descriptors, counters that wrap at a
multiple of `NUM`, block numbers natural) and `NullAssumption` (NULL and the handler
are no process, buffer or value).

The first part of `VirtioDiskProofs` is about the allocator. `TypeOK` alone is not inductive, since
`Start` stores `req[p].b` in a descriptor; `TypeInv` adds that a process inside
`virtio_disk_rw` has a buffer. `DescriptorInv` adds `ChainLinked`: `free_chain` follows
the `next` fields, so it frees the descriptors of its caller only if these are
still the links `Start` wrote. `Start` takes free descriptors only, hence touches
no other chain; `Finish` returns exactly its own; every other step leaves allocator
and owners alone (`DescriptorFrame`). So `panic("free_desc 2")` is unreachable.

The second part follows one request around. `CallerInv`: `vdisk_lock` is held from
the allocation of the chain to the first sleep, and a buffer serves one call.
`ChainInv`: while a call has a chain, the descriptors are as `Start` formatted them,
and the status byte says whether the transfer took place. `RingInv`: while `b->disk`
is set the request is in exactly one place (an avail slot, in flight, or a used
slot) and the places hold nothing else. Heads are distinct descriptors, so there
are fewer of them than slots, and neither ring overruns (`Room`): this is where
`IdxMod` being a multiple of `NUM` matters, since otherwise two counters less than
`NUM` apart could select the same slot when the 16-bit counter wraps. From this
invariant every step of driver and device is a step of `AbstractDisk` or a stutter
(`DriverImplementsDisk`), and a call returns the data of its block (`ReturnsServed`).

### The request queues

For any `Capacity` of at least one and any set `Keys` of block numbers that holds the
sentinel's 0 (`QueuesAssumption`), under any sequence of arrivals and completions
(`QueuesSpec`), a full array and an empty queue included. The theorems on order and
contents hold as long as no fault has happened, and `QueueFaults` says when that is:
no fault comes before a completion has found its queue empty or a queue has
`Capacity` requests. The driver does reach this (`sched_leak`).

`Climb`, `Sink` and the sweep of `SSTF` are recursive functions, so what they compute
takes an induction over data. The library's induction theorems have an operator as
parameter, which the provers cannot instantiate; `Induction` takes a set instead:
one that contains every number all of whose predecessors it contains. It follows
from the well-foundedness of `<`, a relation, hence no operator. With the set of the
arguments at which a statement holds it yields, for each of the three, that the
function exists and satisfies its equation (`ClimbUnfolds`, `SinkUnfolds`,
`SweepUnfolds`) and what the loop has done when it stops:

* `Climbed`: the entries that receive their parent's request are those on the path
  from the new last entry to the stop, each of their parents is larger than the new
  request, and the parent of the stop is not;
* `Sunk`: the same downwards, with the smaller child in the place of the parent;
* `Swept`: `data[0]` is where it was and `data[1]` is the nearest so far.

The order of the heap follows by cases on where an entry and its parent lie
relative to the path (`InsertOrdered`, `DeleteOrdered`). That no request is lost or
duplicated is a bijection between the entries before and after, but for the one
inserted or removed (`SameCount`, `OneMore`): along the path it shifts every index
to its parent or child, and for `SSTF` it exchanges two.

### The buffer cache

For finite sets of processes and buffers, any blocks and contents. `LruInv`: the list
holds every buffer once, so `bget` finds an unused buffer whenever there is one.
`LockInv`: who holds which sleep lock. `ContentInv`: a valid buffer has the latest
contents of its block, and if the disk has not, the one buffer that caches the
block is pinned or dirty in the hands of a process, so `bget` cannot recycle it. This
gives `BreadReturnsLatest`.

`CountsAlwaysHold` is about the counts and the list, and about the panic
`bget: no buffers`: it comes only when each buffer has a user or a pin. No step
reaches another panic (`PanicsOnlyOutOfBuffers`). Nothing excludes this one:
`NBUF` is 30 and `NPROC` 64. It stays away while few enough processes are inside
file system calls, which `begin_op` limits for the calls that write.

### The log

For finite sets of processes and blocks, any contents, `MAXOPBLOCKS`, `LOGSIZE` and log
size. `CallInv` relates the counters of `struct log` to the processes, `EntryInv` says
that the header's entries are different blocks and include what the calls in
progress wrote, `DiskInv` follows header, log and home blocks through `commit` and
`recover_from_log` phase by phase, and `WholeInv` says that what recovery would make
of the disk is never a torn block. `LogImplementsAtomicStore` is the refinement, with
crashes at every step, recovery included: writing the header is the one step that
changes the durable contents.

`ReservationAlwaysHolds` is the promise of `begin_op`. It gives `PanicsOnlyFull`:
`log_write` finds room in the header for a block that needs a new entry, so it
panics only if the blocks of the on-disk log are used up, or if the header is
full and the block is already in it, so that it would have needed no room. Both can
happen: the first with `size = LOGSIZE`, as mkfs makes it (the run `log_size`), the
second with at least `LOGSIZE` different blocks, more than the `log` run has.

### The system calls over inodes

For any numbers of processes, inodes, table slots and names and any set of calls
(`InodeAssumption`), crashes included. `Inv` consists of

* `TypeInv` and `PlaceInv`: which of `ip`, `dp`, the target, `cwd` and the file a process
  has at each point of each call, error paths included;
* `LockInv`: a sleep lock is held exactly by the process whose place says so;
* `RefsCounted`, the property itself: `ref` is the number of these pointers;
* `OneSlot`: `iget` keeps an inode in one slot, which is what makes a lock on the slot
  a lock on the inode;
* `CopyInv`: a valid copy is the inode on the disk, but for the moment in which `iput`
  has freed the inode and not yet cleared `valid`.

There is one lemma for each step. Of numbers of pointers the steps need only
`Counting`: a non-empty set of numbers has a least one, and when a process changes
one of its pointers the counts of the two slots change by one. It is proved from the
library's theorems on finite sets.

`RefsAlwaysCounted` and `CopiesCoherent` follow. `PutDoesNotBlock` is the comment in
`iput`, "ip->ref == 1 means no other process can have ip locked, so this
acquiresleep() won't block (or deadlock)": whoever holds a lock has one of the
counted pointers, and a count of one leaves none for another process. The same
reasoning shows that `panic("ilock")` and `panic("iunlock")` for an unreferenced or
unlocked inode are unreachable (`LocksAlwaysReferenced`).

### Processes

For any number of table entries and CPUs, at least one of each (`TableAssumption`).
The first invariant `Inv` consists of

* `TypeOK` and `IndexInv`: loop variables are inside the table where an action
  uses them as an index;
* `CpuInv`: `p->lock` is held exactly while the thread switches, and the state is
  RUNNING exactly while the thread is on a CPU or on its way there. So a CPU that
  finds the lock free and the state RUNNABLE or ZOMBIE knows that the thread has
  left its stack;
* `ForkInv`: `fork` sets the child RUNNABLE without looking at its state; the entry
  is still the USED one it allocated, and no other `fork` has it.

`FamilyInv`, proved on top of it, is about parents and children.

* `PlaceInv`: `wait_lock` is held exactly at the places between its acquire and
  release, a call is made by a living process, and init does not exit;
* `ParentInv`: a parent lives, and whoever lives or is a zombie has one;
* `ScanInv`: what the scans of `wait` and `reparent` have passed stays as they found
  it, since nobody becomes a zombie or a child while `wait_lock` is held;
* `WakeInv` and `AwaitInv`: a parent that sleeps while a child exits is still ahead of
  the `wakeup` loop, and an init that has just been given a zombie is about to be
  woken. The loop takes one `p->lock` at a time, so this is not one step.

It gives `ExitsAreWaitedFor`: no process sleeps in `wait` over a zombie child nobody
is about to wake it for, and no zombie is without a living parent.

### Spin locks

For any sets of CPUs, processes and device locks that are disjoint
(`SpinlockAssumption`, which also keeps `NONE` apart from all values it stands in for).
`IInv` consists of

* `TypeInv`, in which "panic" is no label, and `RunInv`: a thread runs on one CPU;
* `OwnInv`: `locked` and `owner` say who holds a lock, but for a CPU between its two
  assignments, and only one CPU is there for a lock. This gives the exclusion;
* `CountInv`: `noff` is the number of locks held plus one being taken or given up,
  and interrupts are off while it is positive. So `pop_off` and `sched` find the
  counts they insist on;
* `OrderInv` and `PhaseInv`: locks are taken in order and a thread that switches has
  its own, so `acquire` never finds the lock held by its own CPU;
* `FlagInv`: `old`, `intena` and `savedIntena` are what the running thread, or the one
  that was switched away, wants the interrupt flag to be. `old` may be stale on
  paper, since an interrupt can move the thread to another CPU after it was read;
  it is right because interrupts were on at both places.

### What is only model-checked

* Liveness (`EveryRequestReturns`, `SleeperWoken`, `LogProgress`, `PipelineEnds`,
  `ConsoleQuiet`): fairness is outside what the prover handles.
* The four modes of `rw_queue` together (`QueuesSafe`, `ReadServed`, `WriteServed` of
  `IoSched`): with two processes they fail (see the findings), and for one process,
  which has one request under way at a time, the run leaves little to generalise.
* File contents, memory and the parser (`FilesReadBack`, `BlocksHaveOwner`, `LogBudget`,
  `PagesHaveHolder`, `SpaceMatchesSize`, `ParsesGrammar`): their modules define
  recursive operators, which the prover cannot use.
* `NamesBacked`: it holds within the bounds of the run and not beyond them, see the
  last of the observations below.
* Pipes and console (`FilesCounted`, `PipeStream`, `InputInOrder`, `NothingLost`): no
  proof has been written.

## Not modelled

* Memory ordering is sequentially consistent: `__sync_synchronize` keeps the stores
  to rings and locks in program order, which is what the separate steps express.
* Boot (`main.c`, `start.c`, the assembly files), the PLIC, device initialisation,
  `printf.c` and `string.c`: register writes, formatting and byte copies without a
  state that several steps could break. `ramdisk.c` is not linked. The kernel's own
  page table is made once and never changed.
* The saving of registers in traps and the fetching of system call arguments.
  `sys_sleep` and `uptime`.
* Rebalancing in the trees of ddl, which is never reached (see `Deadline`).
* `^P` on the console, which prints a listing, and the NUL key, which is ignored.
* `create` marks the inode on the disk in `ialloc` and takes a table slot for it in
  `iget`; the model does both in one step (`CreateName`). No other process has the
  inode in between, apart from one that got there by the stale ".." described below.
* Two device locks held by one thread in `Spinlock`: a thread takes one device's lock
  and then that of a process. Two buffers held by one process in `BufferCache`.
* The offset that processes share through one `struct file`, and other calls
  between two chunks of one `write()`.
* `exit` closes a descriptor and then clears it; the model does both in one step,
  since the descriptor is the process's own. The panic "sched running" is about
  process states, which are `Proc`'s subject and not `Spinlock`'s.
* Names as bytes: splitting of paths, names longer than `DIRSIZ`, tokens of the
  shell. `cd` in the shell.
* mkfs beyond the layout it makes: byte order, reading of host files.
* Test programs and utilities (`usertests`, `grind`, `ls`, `grep`, ...): they are
  inputs of the system rather than parts of it. Their loops of reads and writes are
  the scripts of `Files`. The C library (`umalloc.c`, `ulib.c`, `printf.c`) is sequential.

Four observations made while modelling and proving, for which no text of the repository states
an expectation. Once a process's current directory and the directory above it
have both been removed, a lookup of ".." from there can reach the freed inode and
end in `panic("ilock: no type")` (`kernel/fs.c:322`); `FsCalls` has this behaviour, in
six calls of one process and so beyond the bounds of the run, with
the panic as its end. A directory made inside a removed current directory
leaves more links than names, which is why `NamesBacked` says "at least". And the
freed inode that such a ".." names may be one `create` has just taken: between
`ialloc` and `ilock` (`kernel/sysfile.c:261-267`) it has its type and no link, a
`link("..", ...)` of the other process counts one, and `ip->nlink = 1` then stands for
two names. `FsCalls` has this behaviour too, in seven calls of two processes. And `iappend` of mkfs
makes the blocks of the root directory as it fills them and then rounds the size up
by `(off / BSIZE + 1) * BSIZE` (`mkfs/mkfs.c:165-167`): with a number of entries that fills
the last block exactly, the size would take in a block that is not there.
`RootAssumption` excludes it; the image of the Makefile has 26 entries, and a block
holds 64.
