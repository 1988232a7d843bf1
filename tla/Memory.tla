------------------------------- MODULE Memory -------------------------------
(***************************************************************************)
(* The page allocator (kernel/kalloc.c), user page tables (kernel/vm.c)    *)
(* and the calls that build, copy, resize and free address spaces: fork,   *)
(* exec, sbrk and the freeing of a process.                                *)
(*                                                                         *)
(* An operation works on its own page table, so it is one step; what other *)
(* CPUs do meanwhile shows only in which of its kalloc() calls fails, and  *)
(* that is any one of them.  A function takes the memory m and returns it  *)
(* changed, with its result in m.r.                                        *)
(***************************************************************************)
EXTENDS Naturals, Sequences, FiniteSets

CONSTANTS
  MProcs,          \* process table entries; Boot is the first process
  Boot,
  NPages,          \* physical pages
  Levels,          \* page table levels (3 in Sv39)
  Entries,         \* entries of a page-table page (512)
  PGSIZE,
  MaxSz,           \* bound on the memory a process asks for
  Images,          \* programs exec() may find
  Args,            \* argument vectors of exec(): addresses of strings
  NIL

RECURSIVE Power(_, _)
Power(b, n) == IF n = 0 THEN 1 ELSE b * Power(b, n - 1)
MAXVA == Power(Entries, Levels) * PGSIZE
TRAMPOLINE == MAXVA - PGSIZE
TRAPFRAME == TRAMPOLINE - PGSIZE
Index == 0 .. Entries - 1
Page == 1 .. NPages
RoundDown(a) == (a \div PGSIZE) * PGSIZE
RoundUp(a) == RoundDown(a + PGSIZE - 1)
PX(level, va) == (va \div (PGSIZE * Power(Entries, level))) % Entries

\* Physical memory is smaller than the space below TRAPFRAME, in the machine
\* by far, so that kalloc() fails before a process can grow into it.
ASSUME MemoryAssumption ==
  /\ Boot \in MProcs /\ {NPages, Levels, Entries, PGSIZE} \subseteq Nat \ {0}
  /\ MaxSz \in Nat /\ MaxSz <= TRAPFRAME

VARIABLES
  mem,   \* [free, ent, left, r, panic]: free pages, contents of the others
         \* as page tables, kalloc() calls that succeed, result, panicked
  aspace \* [pagetable, trapframe, sz] of every process, or NIL

memVars == <<mem, aspace>>

---------------------------------------------------------------------------
(* kalloc.c and vm.c.                                                      *)

NoEntries == [i \in Index |-> NIL]
Ret(m, r) == [m EXCEPT !.r = r]
Die(m) == [m EXCEPT !.panic = TRUE]

kalloc(m) ==
  IF m.left = 0 \/ m.free = {} THEN Ret(m, NIL)
  ELSE LET p == CHOOSE p \in m.free : \A q \in m.free : p <= q
       IN  [m EXCEPT !.free = @ \ {p}, !.left = @ - 1, !.r = p, !.ent[p] = NoEntries]
kfree(m, p) == IF p \in Page \ m.free THEN [m EXCEPT !.free = @ \cup {p}, !.ent[p] = NoEntries] ELSE Die(m)

\* walk(): m.r is the place <<page, index>> of the entry for va, or NIL.
RECURSIVE WalkFrom(_, _, _, _, _)
WalkFrom(m, pt, va, alloc, level) ==
  IF level = 0 THEN Ret(m, <<pt, PX(0, va)>>)
  ELSE LET e == m.ent[pt][PX(level, va)] IN
       IF e # NIL THEN WalkFrom(m, e.pa, va, alloc, level - 1)
       ELSE IF ~alloc THEN Ret(m, NIL)
       ELSE LET k == kalloc(m) IN
            IF k.r = NIL THEN k
            ELSE WalkFrom([k EXCEPT !.ent[pt][PX(level, va)] = [pa |-> k.r, kind |-> "table"]],
                          k.r, va, alloc, level - 1)
walk(m, pt, va, alloc) ==
  IF va >= MAXVA THEN Die(Ret(m, NIL)) ELSE WalkFrom(m, pt, va, alloc, Levels - 1)

PteAt(m, place) == IF place = NIL THEN NIL ELSE m.ent[place[1]][place[2]]
SetPte(m, place, pte) == [m EXCEPT !.ent[place[1]][place[2]] = pte]

\* 0 (NIL) unless va is a page the user may use.
walkaddr(m, pt, va) ==
  LET pte == IF va >= MAXVA THEN NIL ELSE PteAt(m, walk(m, pt, va, FALSE).r)
  IN  IF pte # NIL /\ pte.kind = "user" THEN pte.pa ELSE NIL
\* copyin(), copyout() and copyinstr() reach the memory a page at a time.
Copies(m, pt, va, len) ==
  \A a \in va .. va + len - 1 : walkaddr(m, pt, RoundDown(a)) # NIL

\* mappages() of one page: all that user page tables ask for.
mappages(m, pt, va, pa, kind) ==
  LET at(w) == IF w.r = NIL THEN Ret(w, FALSE)
               ELSE IF PteAt(w, w.r) # NIL THEN Die(w)
               ELSE Ret(SetPte(w, w.r, [pa |-> pa, kind |-> kind]), TRUE)
  IN  at(walk(m, pt, va, TRUE))

RECURSIVE uvmunmap(_, _, _, _, _)
uvmunmap(m, pt, va, npages, dofree) ==
  LET at(place, pte) ==
        IF pte = NIL \/ (pte # NIL /\ pte.kind = "table") THEN Die(m)
        ELSE uvmunmap(SetPte(IF dofree THEN kfree(m, pte.pa) ELSE m, place, NIL),
                      pt, va + PGSIZE, npages - 1, dofree)
      found(place) == at(place, PteAt(m, place))
  IN  IF npages = 0 THEN m ELSE found(walk(m, pt, va, FALSE).r)

RoundedDown(new) == RoundDown(new)                \* mutant: the page holding newsz goes too
FirstGone(new) == RoundUp(new)
uvmdealloc(m, pt, old, new) ==
  IF new >= old THEN Ret(m, old)
  ELSE Ret(IF RoundUp(new) < RoundUp(old)
           THEN uvmunmap(m, pt, FirstGone(new), (RoundUp(old) - FirstGone(new)) \div PGSIZE, TRUE)
           ELSE m, new)

\* uvmalloc(), which gives back the pages it got when it fails.
RECURSIVE AllocFrom(_, _, _, _, _)
AllocFrom(m, pt, a, from, new) ==
  LET undo(b) == Ret(uvmdealloc(b, pt, a, from), 0)
      mapped(mp, page) == IF mp.r THEN AllocFrom(mp, pt, a + PGSIZE, from, new) ELSE undo(kfree(mp, page))
      got(k) == IF k.r = NIL THEN undo(k) ELSE mapped(mappages(k, pt, a, k.r, "user"), k.r)
  IN  IF a >= new THEN Ret(m, new) ELSE got(kalloc(m))
uvmalloc(m, pt, old, new) ==
  IF new < old THEN Ret(m, old) ELSE AllocFrom(m, pt, RoundUp(old), RoundUp(old), new)

RECURSIVE freewalk(_, _), FreeEntries(_, _, _)
FreeEntries(m, pt, i) ==
  IF i = Entries THEN m
  ELSE LET e == m.ent[pt][i] IN
       IF e = NIL THEN FreeEntries(m, pt, i + 1)
       ELSE IF e.kind # "table" THEN Die(m)
       ELSE FreeEntries([freewalk(m, e.pa) EXCEPT !.ent[pt][i] = NIL], pt, i + 1)
freewalk(m, pt) == kfree(FreeEntries(m, pt, 0), pt)
uvmfree(m, pt, sz) ==
  freewalk(IF sz > 0 THEN uvmunmap(m, pt, 0, RoundUp(sz) \div PGSIZE, TRUE) ELSE m, pt)

RECURSIVE CopyFrom(_, _, _, _, _)
CopyFrom(m, old, new, i, sz) ==
  LET err(b) == Ret(uvmunmap(b, new, 0, i \div PGSIZE, TRUE), FALSE)
      mapped(mp, page) == IF mp.r THEN CopyFrom(mp, old, new, i + PGSIZE, sz) ELSE err(kfree(mp, page))
      got(k, kind) == IF k.r = NIL THEN err(k) ELSE mapped(mappages(k, new, i, k.r, kind), k.r)
      found(pte) == IF pte = NIL THEN Die(m) ELSE got(kalloc(m), pte.kind)
  IN  IF i >= sz THEN Ret(m, TRUE) ELSE found(PteAt(m, walk(m, old, i, FALSE).r))
uvmcopy(m, old, new, sz) == CopyFrom(m, old, new, 0, sz)

uvmclear(m, pt, va) ==
  LET place == walk(m, pt, va, FALSE).r IN
  IF place = NIL THEN Die(m) ELSE SetPte(m, place, [PteAt(m, place) EXCEPT !.kind = "guard"])

---------------------------------------------------------------------------
(* proc.c: the page table of a process.                                    *)

\* m.r is the page table, or NIL.  The trampoline is no page of kalloc()'s.
proc_pagetable(m, trapframe) ==
  LET second(b, pt) ==
        IF b.r THEN Ret(b, pt)
        ELSE Ret(uvmfree(uvmunmap(b, pt, TRAMPOLINE, 1, FALSE), pt, 0), NIL)
      first(a, pt) ==
        IF a.r THEN second(mappages(a, pt, TRAPFRAME, trapframe, "kernel"), pt)
        ELSE Ret(uvmfree(a, pt, 0), NIL)
      got(k) == IF k.r = NIL THEN k ELSE first(mappages(k, k.r, TRAMPOLINE, NIL, "kernel"), k.r)
  IN  got(kalloc(m))
proc_freepagetable(m, pt, sz) ==
  uvmfree(uvmunmap(uvmunmap(m, pt, TRAMPOLINE, 1, FALSE), pt, TRAPFRAME, 1, FALSE), pt, sz)

\* allocproc(): m.r is [pagetable, trapframe, sz] or NIL.
allocproc(m) ==
  LET made(pt, tf) ==
        IF pt.r = NIL THEN Ret(kfree(pt, tf), NIL)
        ELSE Ret(pt, [pagetable |-> pt.r, trapframe |-> tf, sz |-> 0])
      got(k) == IF k.r = NIL THEN k ELSE made(proc_pagetable(k, k.r), k.r)
  IN  got(kalloc(m))
freeproc(m, a) == proc_freepagetable(kfree(m, a.trapframe), a.pagetable, a.sz)

\* userinit(), with enough memory.
FreshMem == [free |-> Page, ent |-> [p \in Page |-> NoEntries], left |-> NPages, r |-> NIL, panic |-> FALSE]
MemInit ==
  LET a == allocproc(FreshMem)
      k == kalloc(a)
      u == mappages(k, a.r.pagetable, 0, k.r, "user")
  IN  /\ mem = [u EXCEPT !.left = NPages, !.r = NIL]
      /\ aspace = [p \in MProcs |-> IF p = Boot THEN [a.r EXCEPT !.sz = PGSIZE] ELSE NIL]

---------------------------------------------------------------------------
(* The calls.  Each picks how many of its kalloc() calls succeed.          *)

WithFailure(Op(_)) ==
  \E n \in 0 .. Cardinality(mem.free) : Op([mem EXCEPT !.left = n])
Settled(m) == [m EXCEPT !.left = NPages, !.r = NIL]
Live(p) == aspace[p] # NIL /\ ~mem.panic

MFork(p, q) ==
  LET copied(c, a) ==
        IF c.r THEN mem' = Settled(c) /\ aspace' = [aspace EXCEPT ![q] = [a EXCEPT !.sz = aspace[p].sz]]
        ELSE mem' = Settled(freeproc(c, a)) /\ UNCHANGED aspace
      made(m) ==
        IF m.r = NIL THEN mem' = Settled(m) /\ UNCHANGED aspace
        ELSE copied(uvmcopy(m, aspace[p].pagetable, m.r.pagetable, aspace[p].sz), m.r)
  IN  Live(p) /\ aspace[q] = NIL /\ WithFailure(LAMBDA m : made(allocproc(m)))

\* growproc().  A size below zero wraps to one that is no smaller.
Grow(p, n) ==
  LET sz == aspace[p].sz
      grown(g) == mem' = Settled(g) /\ aspace' = [aspace EXCEPT ![p].sz = IF g.r = 0 THEN sz ELSE g.r]
  IN  /\ Live(p) /\ sz + n <= MaxSz
      /\ WithFailure(LAMBDA m : grown(uvmalloc(m, aspace[p].pagetable, sz, sz + n)))
Shrink(p, n) ==
  LET sz == aspace[p].sz
      shrunk(d) == mem' = Settled(d) /\ aspace' = [aspace EXCEPT ![p].sz = d.r]
  IN  /\ Live(p) /\ n > 0
      /\ IF sz < n THEN UNCHANGED memVars ELSE shrunk(uvmdealloc(mem, aspace[p].pagetable, sz, sz - n))

\* The loop of exec() over the program headers: r is the size, or NIL.
RECURSIVE LoadFrom(_, _, _, _)
LoadFrom(m, pt, phs, sz) ==
  LET ph == Head(phs)
      bad(b, size) == [m |-> b, sz |-> size, ok |-> FALSE]
      absent(u) == \E a \in ph.vaddr .. ph.vaddr + ph.filesz - 1 : walkaddr(u, pt, RoundDown(a)) = NIL
      grown(u) ==
        IF u.r = 0 THEN bad(u, sz)
        ELSE IF ph.vaddr % PGSIZE # 0 THEN bad(u, u.r)
        ELSE IF absent(u) THEN bad(Die(u), u.r)
        ELSE IF ~ph.readable THEN bad(u, u.r)
        ELSE LoadFrom(u, pt, Tail(phs), u.r)
  IN  IF phs = <<>> THEN [m |-> m, sz |-> sz, ok |-> TRUE]
      ELSE IF ph.memsz < ph.filesz THEN bad(m, sz)
      ELSE grown(uvmalloc(m, pt, sz, ph.vaddr + ph.memsz))

\* exec(), with n units of argument strings and pointers on the stack:
\* [m, ok, a], a the address space the process has afterwards.
exec(m, a, image, n) ==
  LET bad(b, pt, sz) == [m |-> proc_freepagetable(b, pt, sz), a |-> a]
      cleared(g, pt, sz) ==
        IF n > PGSIZE \/ ~Copies(g, pt, sz - n, n) THEN bad(g, pt, sz)
        ELSE [m |-> proc_freepagetable(g, a.pagetable, a.sz), a |-> [a EXCEPT !.pagetable = pt, !.sz = sz]]
      stacked(s, pt, sz) ==
        IF s.r = 0 THEN bad(s, pt, sz) ELSE cleared(uvmclear(s, pt, s.r - 2 * PGSIZE), pt, s.r)
      loaded(l, pt) ==
        IF ~l.ok THEN bad(l.m, pt, l.sz)
        ELSE stacked(uvmalloc(l.m, pt, RoundUp(l.sz), RoundUp(l.sz) + 2 * PGSIZE), pt, RoundUp(l.sz))
      made(k) == IF k.r = NIL THEN [m |-> k, a |-> a] ELSE loaded(LoadFrom(k, k.r, image, 0), k.r)
  IN  made(proc_pagetable(m, a.trapframe))

\* sys_exec(): a page for every argument, freed again whatever happens.
RECURSIVE ArgPages(_, _, _), FreeArgs(_, _)
ArgPages(m, a, args) ==
  IF args = <<>> THEN [m |-> m, pages |-> {}, ok |-> TRUE]
  ELSE LET k == kalloc(m)
           rest == ArgPages(k, a, Tail(args))
       IN  IF k.r = NIL THEN [m |-> k, pages |-> {}, ok |-> FALSE]
           ELSE IF ~Copies(k, a.pagetable, Head(args), 1) THEN [m |-> k, pages |-> {k.r}, ok |-> FALSE]
           ELSE [rest EXCEPT !.pages = @ \cup {k.r}]
LeakArgs(m, pages) == m                           \* mutant: bad: frees nothing
FreeArgs(m, pages) ==
  IF pages = {} THEN m
  ELSE LET p == CHOOSE p \in pages : TRUE IN FreeArgs(kfree(m, p), pages \ {p})
Exec(p, image, args) ==
  LET ran(x, pages) == mem' = Settled(FreeArgs(x.m, pages)) /\ aspace' = [aspace EXCEPT ![p] = x.a]
      fetched(g) ==
        IF g.ok THEN ran(exec(g.m, aspace[p], image, Len(args) + 1), g.pages)
        ELSE mem' = Settled(FreeArgs(g.m, g.pages)) /\ UNCHANGED aspace
  IN  Live(p) /\ WithFailure(LAMBDA m : fetched(ArgPages(m, aspace[p], args)))

\* wait() frees a process that has exited.
FreeProc(p) ==
  /\ Live(p) /\ p # Boot
  /\ mem' = Settled(freeproc(mem, aspace[p])) /\ aspace' = [aspace EXCEPT ![p] = NIL]

MemNext ==
  \E p \in MProcs :
    \/ \E q \in MProcs : MFork(p, q)
    \/ \E n \in 1 .. MaxSz : Grow(p, n) \/ Shrink(p, n)
    \/ \E image \in Images, args \in Args : Exec(p, image, args)
    \/ FreeProc(p)

---------------------------------------------------------------------------
(* Properties.                                                             *)

\* The places that hold a page of kalloc()'s, each with its page.
Holders ==
  UNION {{<<<<p, "trapframe">>, aspace[p].trapframe>>, <<<<p, "pagetable">>, aspace[p].pagetable>>}
          : p \in {p \in MProcs : aspace[p] # NIL}}
  \cup {<<<<pg, i>>, mem.ent[pg][i].pa>> : <<pg, i>> \in
          {e \in (Page \ mem.free) \X Index :
             IF mem.ent[e[1]][e[2]] = NIL THEN FALSE ELSE mem.ent[e[1]][e[2]].kind # "kernel"}}

\* A page is free, or exactly one place holds it.  Whichever kalloc() fails
\* in fork, exec or sbrk, no page is lost, none is freed twice, and no two
\* processes share one.
PagesAccounted ==
  \A pg \in Page :
    Cardinality({h \in Holders : h[2] = pg}) = IF pg \in mem.free THEN 0 ELSE 1

\* The pages below sz, and no others, are mapped, whatever sequence of calls
\* made the process what it is; the trampoline and its own trapframe are
\* always there.  So walk(), uvmunmap(), uvmcopy(), freewalk() and loadseg()
\* find what they expect, and none of their panics is reached.
SpaceIsSize ==
  /\ ~mem.panic
  /\ \A p \in MProcs : aspace[p] # NIL =>
       LET a == aspace[p]
           pte(va) == PteAt(mem, walk(mem, a.pagetable, va, FALSE).r)
       IN  /\ \A k \in 0 .. MAXVA \div PGSIZE - 1 :
                pte(k * PGSIZE) # NIL <=> k * PGSIZE < a.sz \/ k * PGSIZE >= TRAPFRAME
           /\ pte(TRAPFRAME) = [pa |-> a.trapframe, kind |-> "kernel"]
=============================================================================
