------------------------------ MODULE FsCalls ------------------------------
(***************************************************************************)
(* The system calls of kernel/sysfile.c over the inode table: open, mkdir, *)
(* mknod, link, unlink, chdir and close, with namex() of kernel/fs.c, from *)
(* begin_op() to end_op().                                                 *)
(*                                                                         *)
(* A call is [op, abs, path, new]: abs says that the path starts with a    *)
(* slash; new is the second path of link(), relative.  "creat" is open()   *)
(* with O_CREATE, "open" is open(O_RDONLY), "openw" open(O_WRONLY).        *)
(***************************************************************************)
EXTENDS Inode

\* The calls that go through create(), and the type they ask for.
Creates == {"creat", "mkdir", "mknod"}
NewType(op) == CASE op = "mkdir" -> "dir" [] op = "mknod" -> "dev" [] OTHER -> "file"

\* namex() runs as nameiparent(): in create() and sys_unlink(), and for the
\* second path of sys_link(), when the first has been found.
Parent(p) == call[p].op \in Creates \cup {"unlink"} \/ tgt[p] # NULL

Set(f, p, v) == [f EXCEPT ![p] = v]
Same == UNCHANGED <<saved, cwd, fd, crashes, panic>>
Keep == Same /\ UNCHANGED calls

\* The slot namex() starts at, and the table with one more reference to it.
StartSlot(p, abs) == IF abs THEN Slot(itable, ROOTINO) ELSE cwd[p]
Started(it, p, abs) == IF abs THEN iget(it, ROOTINO) ELSE idup(it, cwd[p])

Callable(p) == {c \in Calls : c.op \in {"creat", "open", "openw"} => fd[p] = NULL}

Begin(p) ==
  /\ pc[p] = "idle" /\ calls < MaxCalls /\ calls' = calls + 1
  /\ \E c \in Callable(p) :
       /\ c.abs => HasSlot(ROOTINO)
       /\ call' = Set(call, p, c) /\ path' = Set(path, p, c.path)
       /\ itable' = Started(itable, p, c.abs) /\ ip' = Set(ip, p, StartSlot(p, c.abs))
       /\ Goto(p, "walk")
  /\ UNCHANGED <<diskVars, dp, tgt>> /\ Same

\* fileclose() of the last reference to an open file.
Close(p) ==
  /\ pc[p] = "idle" /\ fd[p] # NULL
  /\ Iput(p, fd[p], "end") /\ fd' = Set(fd, p, NULL)
  /\ UNCHANGED <<itable, diskVars, saved, call, path, ip, dp, tgt, cwd, calls, crashes, panic>>

---------------------------------------------------------------------------
(* namex().                                                                *)

\* Whether nameiparent() stops before the next name; ip once it is locked;
\* and what dirlookup() finds in it.
AtLast(p) == Parent(p) /\ Len(path[p]) = 1
Walked(p) == ilock(itable, p, ip[p])[ip[p]]
NextInum(p) == dirents[Walked(p).inum][Head(path[p])]

\* One turn of the loop: under the lock of ip, the next name is looked up.
WalkName(p) ==
  LET s == ip[p]
      dir == Walked(p).type = "dir"
      next == NextInum(p)
  IN  /\ pc[p] = "walk" /\ path[p] # <<>> /\ Lockable(s)
      /\ \/ /\ dir /\ AtLast(p)
            /\ itable' = Visited(p, s)
            /\ dp' = Set(dp, p, s) /\ ip' = Set(ip, p, NULL) /\ Goto(p, "parent")
            /\ UNCHANGED path
         \/ /\ dir /\ ~AtLast(p) /\ next # 0 /\ HasSlot(next)
            /\ itable' = iget(Visited(p, s), next)
            /\ ip' = Set(ip, p, Slot(Visited(p, s), next)) /\ path' = Set(path, p, Tail(path[p]))
            /\ Iput(p, s, "walk") /\ UNCHANGED dp
         \/ /\ ~dir \/ (~AtLast(p) /\ next = 0)
            /\ itable' = Visited(p, s)
            /\ ip' = Set(ip, p, NULL) /\ Iput(p, s, "fail") /\ UNCHANGED <<dp, path>>
      /\ UNCHANGED <<diskVars, call, tgt>> /\ Keep

\* The path has no names left: namei() has its inode, nameiparent() fails.
WalkEnd(p) ==
  /\ pc[p] = "walk" /\ path[p] = <<>>
  /\ IF Parent(p) THEN Iput(p, ip[p], "fail") /\ ip' = Set(ip, p, NULL)
     ELSE Goto(p, "found") /\ UNCHANGED ip
  /\ UNCHANGED <<itable, diskVars, call, path, dp, tgt>> /\ Keep

---------------------------------------------------------------------------
(* The calls that start with namei().                                      *)

\* sys_open() without O_CREATE; filealloc() or fdalloc() may find no room.
Open(p) ==
  LET s == ip[p] IN
  /\ pc[p] = "found" /\ call[p].op \in {"open", "openw"} /\ Lockable(s)
  /\ itable' = Visited(p, s) /\ ip' = Set(ip, p, NULL)
  /\ \/ /\ ~(itable'[s].type = "dir" /\ call[p].op = "openw")
        /\ fd' = Set(fd, p, s) /\ Goto(p, "end")
     \/ Iput(p, s, "fail") /\ UNCHANGED fd
  /\ UNCHANGED <<diskVars, saved, call, path, dp, tgt, cwd, calls, crashes, panic>>

\* sys_chdir(): the old directory is put, then replaced.
Chdir(p) ==
  LET s == ip[p] IN
  /\ pc[p] = "found" /\ call[p].op = "chdir" /\ Lockable(s)
  /\ itable' = Visited(p, s) /\ ip' = Set(ip, p, NULL)
  /\ IF itable'[s].type = "dir" THEN Iput(p, cwd[p], "end") /\ cwd' = Set(cwd, p, s)
     ELSE Iput(p, s, "fail") /\ UNCHANGED cwd
  /\ UNCHANGED <<diskVars, saved, call, path, dp, tgt, fd, calls, crashes, panic>>

\* sys_link() counts the new link first, then looks for the new parent.
NotCounted(it, s) == it                           \* mutant: ip->nlink++ forgotten
CountLink(it, s) == SetLinks(it, s, it[s].nlink + 1)
LinkOld(p) ==
  LET s == ip[p]
      it == Visited(p, s)
      up == CountLink(it, s)
  IN  /\ pc[p] = "found" /\ call[p].op = "link" /\ Lockable(s)
      /\ IF it[s].type = "dir"
         THEN /\ itable' = it /\ Iput(p, s, "fail") /\ ip' = Set(ip, p, NULL)
              /\ UNCHANGED <<dinode, tgt, path>>
         ELSE /\ itable' = Started(up, p, FALSE) /\ dinode' = iupdate(dinode, up, s)
              /\ tgt' = Set(tgt, p, s) /\ ip' = Set(ip, p, cwd[p])
              /\ path' = Set(path, p, call[p].new) /\ Goto(p, "walk")
      /\ UNCHANGED <<dirents, call, dp>> /\ Keep

---------------------------------------------------------------------------
(* The calls that start with nameiparent().                                *)

Name(p) == Head(path[p])
DpInum(p) == itable[dp[p]].inum
Entry(p) == dirents[DpInum(p)][Name(p)]
\* The table once p has locked dp and iget() has found inode i.
LockedAnd(p, i) == iget(ilock(itable, p, dp[p]), i)

AtParent(p, ops) ==
  /\ pc[p] = "parent" /\ call[p].op \in ops
  /\ Lockable(dp[p]) /\ itable[dp[p]].type = "dir"

\* sys_link(): dirlink() of the new name, which must not exist.
LinkNew(p) ==
  /\ AtParent(p, {"link"})
  /\ IF Entry(p) = 0
     THEN /\ dirents' = [dirents EXCEPT ![DpInum(p)][Name(p)] = itable[tgt[p]].inum]
          /\ itable' = Visited(p, dp[p]) /\ dp' = Set(dp, p, NULL)
          /\ Iput(p, dp[p], "linked")
     ELSE /\ HasSlot(Entry(p)) /\ itable' = LockedAnd(p, Entry(p))
          /\ Iput(p, Slot(itable, Entry(p)), "dpbad") /\ UNCHANGED <<dirents, dp>>
  /\ UNCHANGED <<dinode, call, path, ip, tgt>> /\ Keep

\* Mutant: sys_link() returns without iput(ip).
LinkedKeeps(p) ==
  /\ pc[p] = "linked" /\ Goto(p, "end") /\ tgt' = Set(tgt, p, NULL)
  /\ UNCHANGED <<itable, diskVars, call, path, ip, dp>> /\ Keep

Linked(p) ==
  /\ pc[p] = "linked" /\ Iput(p, tgt[p], "end") /\ tgt' = Set(tgt, p, NULL)
  /\ UNCHANGED <<itable, diskVars, call, path, ip, dp>> /\ Keep

\* bad: the link was counted but not made.
LinkBad(p) ==
  LET s == tgt[p]
      it == Visited(p, s)
      down == SetLinks(it, s, it[s].nlink - 1)
  IN  /\ pc[p] = "fail" /\ s # NULL /\ Lockable(s)
      /\ itable' = down /\ dinode' = iupdate(dinode, down, s)
      /\ tgt' = Set(tgt, p, NULL) /\ Iput(p, s, "end")
      /\ UNCHANGED <<dirents, call, path, ip, dp>> /\ Keep

\* sys_unlink(): under the lock of the parent the name is looked up,
UnlinkName(p) ==
  /\ AtParent(p, {"unlink"})
  /\ IF Name(p) \in {".", ".."} \/ Entry(p) = 0
     THEN /\ itable' = Visited(p, dp[p]) /\ dp' = Set(dp, p, NULL)
          /\ Iput(p, dp[p], "fail") /\ UNCHANGED tgt
     ELSE /\ HasSlot(Entry(p)) /\ itable' = LockedAnd(p, Entry(p))
          /\ tgt' = Set(tgt, p, Slot(itable, Entry(p))) /\ Goto(p, "unlink") /\ UNCHANGED dp
  /\ UNCHANGED <<diskVars, call, path, ip>> /\ Keep

\* and then under the locks of both the entry is erased, unless it is a
\* directory with entries of its own;
IsDirEmpty(i) == \A n \in Names \ {".", ".."} : dirents[i][n] = 0
Unlink(p) ==
  LET s == tgt[p]
      it == ilock(itable, p, s)
      dir == it[s].type = "dir"
      up == IF dir THEN SetLinks(it, dp[p], it[dp[p]].nlink - 1) ELSE it
  IN  /\ pc[p] = "unlink" /\ Lockable(s) /\ it[s].nlink >= 1
      /\ IF dir /\ ~IsDirEmpty(it[s].inum)
         THEN /\ itable' = iunlock(it, s) /\ Iput(p, s, "dpbad") /\ tgt' = Set(tgt, p, NULL)
              /\ UNCHANGED <<diskVars, dp>>
         ELSE /\ dirents' = [dirents EXCEPT ![DpInum(p)][Name(p)] = 0]
              /\ dinode' = iupdate(dinode, up, dp[p])
              /\ itable' = iunlock(up, dp[p])
              /\ Iput(p, dp[p], "unlinked") /\ dp' = Set(dp, p, NULL) /\ UNCHANGED tgt
      /\ UNCHANGED <<call, path, ip>> /\ Keep

\* the link is taken off only when the parent has been put.
UnlinkedLocked(p) ==                              \* mutant: iput() in place of iunlockput()
  LET s == tgt[p]
      down == SetLinks(itable, s, itable[s].nlink - 1)
  IN  /\ pc[p] = "unlinked"
      /\ itable' = down /\ dinode' = iupdate(dinode, down, s)
      /\ tgt' = Set(tgt, p, NULL) /\ Iput(p, s, "end")
      /\ UNCHANGED <<dirents, call, path, ip, dp>> /\ Keep
Unlinked(p) ==
  LET s == tgt[p]
      down == SetLinks(itable, s, itable[s].nlink - 1)
  IN  /\ pc[p] = "unlinked"
      /\ itable' = iunlock(down, s) /\ dinode' = iupdate(dinode, down, s)
      /\ tgt' = Set(tgt, p, NULL) /\ Iput(p, s, "end")
      /\ UNCHANGED <<dirents, call, path, ip, dp>> /\ Keep

\* bad: the parent is still locked.
DpBad(p) ==
  /\ pc[p] = "dpbad" /\ itable' = iunlock(itable, dp[p])
  /\ Iput(p, dp[p], "fail") /\ dp' = Set(dp, p, NULL)
  /\ UNCHANGED <<diskVars, call, path, ip, tgt>> /\ Keep

\* create(): a name that exists is handed on unlocked, otherwise ialloc()
\* takes a free inode on the disk while the parent stays locked: any one, as
\* others may be taken and freed behind its scan;
CreateName(p) ==
  /\ AtParent(p, Creates)
  /\ \/ /\ Entry(p) # 0 /\ HasSlot(Entry(p))
        /\ itable' = iget(Visited(p, dp[p]), Entry(p))
        /\ tgt' = Set(tgt, p, Slot(Visited(p, dp[p]), Entry(p)))
        /\ Iput(p, dp[p], "exists") /\ dp' = Set(dp, p, NULL) /\ UNCHANGED dinode
     \/ /\ Entry(p) = 0
        /\ \E i \in Inums :
             /\ dinode[i].type = "none" /\ HasSlot(i)
             /\ dinode' = [dinode EXCEPT ![i] = [type |-> NewType(call[p].op), nlink |-> 0]]
             /\ itable' = LockedAnd(p, i) /\ tgt' = Set(tgt, p, Slot(itable, i))
        /\ Goto(p, "create") /\ UNCHANGED dp
  /\ UNCHANGED <<dirents, call, path, ip>> /\ Keep

\* the new inode is locked and linked, with its dots first if it is a
\* directory, and the parent is put;
Create(p) ==
  LET s == tgt[p]
      it == SetLinks(ilock(itable, p, s), s, 1)
      dir == call[p].op = "mkdir"
      up == IF dir THEN SetLinks(it, dp[p], it[dp[p]].nlink + 1) ELSE it
      dots == [Empty EXCEPT !["."] = it[s].inum, ![".."] = DpInum(p)]
      entered == [dirents EXCEPT ![DpInum(p)][Name(p)] = it[s].inum]
  IN  /\ pc[p] = "create" /\ Lockable(s)
      /\ itable' = iunlock(up, dp[p])
      /\ dinode' = iupdate(iupdate(dinode, up, s), up, dp[p])
      /\ dirents' = IF dir THEN [entered EXCEPT ![it[s].inum] = dots] ELSE entered
      /\ Iput(p, dp[p], "created") /\ dp' = Set(dp, p, NULL)
      /\ UNCHANGED <<call, path, ip, tgt>> /\ Keep

\* a name that exists will do for open(O_CREATE) if it is not a directory;
Exists(p) ==
  LET s == tgt[p]
      it == ilock(itable, p, s)
  IN  /\ pc[p] = "exists" /\ Lockable(s)
      /\ IF call[p].op = "creat" /\ it[s].type \in {"file", "dev"}
         THEN itable' = it /\ Goto(p, "created") /\ UNCHANGED tgt
         ELSE itable' = iunlock(it, s) /\ Iput(p, s, "fail") /\ tgt' = Set(tgt, p, NULL)
      /\ UNCHANGED <<diskVars, call, path, ip, dp>> /\ Keep

\* and the caller of create() unlocks what it got: open keeps it if there is
\* room for the file, mkdir and mknod put it.
Created(p) ==
  LET s == tgt[p] IN
  /\ pc[p] = "created"
  /\ itable' = iunlock(itable, s) /\ tgt' = Set(tgt, p, NULL)
  /\ \/ call[p].op = "creat" /\ fd' = Set(fd, p, s) /\ Goto(p, "end")
     \/ Iput(p, s, "end") /\ UNCHANGED fd
  /\ UNCHANGED <<diskVars, saved, call, path, ip, dp, cwd, calls, crashes, panic>>

---------------------------------------------------------------------------
\* end_op(): the log commits when no other call is in progress.
End(p) ==
  /\ pc[p] \in {"end", "fail"} /\ tgt[p] = NULL
  /\ Goto(p, "idle") /\ call' = Set(call, p, NULL) /\ path' = Set(path, p, <<>>)
  /\ saved' = IF \A q \in Procs \ {p} : pc[q] = "idle" THEN diskVars ELSE saved
  /\ UNCHANGED <<itable, diskVars, ptrVars, calls, crashes, panic>>

\* The slot p is about to lock.
Wants(p) ==
  CASE pc[p] \in {"walk", "found"} -> ip[p]
    [] pc[p] = "parent" -> dp[p]
    [] pc[p] \in {"unlink", "create", "exists", "fail"} -> tgt[p]
    [] OTHER -> NULL

\* The inodes p's next step may ask iget() for.
Gets(p) ==
  CASE pc[p] = "idle" /\ calls < MaxCalls -> {ROOTINO : c \in {c \in Callable(p) : c.abs}}
    [] pc[p] = "walk" /\ path[p] # <<>> /\ Lockable(ip[p]) ->
         IF Walked(p).type = "dir" /\ ~AtLast(p) THEN {NextInum(p)} \ {0} ELSE {}
    [] AtParent(p, {"link", "unlink"} \cup Creates) ->
         IF call[p].op \in Creates /\ Entry(p) = 0 THEN {i \in Inums : dinode[i].type = "none"}
         ELSE IF call[p].op = "unlink" /\ Name(p) \in {".", ".."} THEN {} ELSE {Entry(p)} \ {0}
    [] OTHER -> {}

\* The panic of iget(), ilock(), dirlookup(), sys_unlink() or ialloc() p runs
\* into.
Panics(p) ==
  LET s == Wants(p) IN
  IF \E i \in Gets(p) : ~HasSlot(i) THEN "iget: no inodes"
  ELSE IF s = NULL \/ (pc[p] = "walk" /\ path[p] = <<>>) THEN "none"
  ELSE IF itable[s].lock # NULL THEN "none"
  ELSE IF ~Lockable(s) THEN "ilock: no type"
  ELSE IF pc[p] = "parent" /\ itable[s].type # "dir" THEN "dirlookup not DIR"
  ELSE IF pc[p] = "unlink" /\ ilock(itable, p, s)[s].nlink < 1 THEN "unlink: nlink < 1"
  ELSE IF /\ AtParent(p, Creates) /\ Entry(p) = 0
          /\ \A i \in Inums : dinode[i].type # "none" THEN "ialloc: no inodes"
  ELSE "none"

Panic(p) ==
  /\ Panics(p) # "none" /\ panic' = Panics(p)
  /\ UNCHANGED <<itable, diskVars, saved, pc, call, path, ptrVars, put, ret, calls, crashes>>

\* Power is lost; the kernel boots again from the last commit.
Crash ==
  /\ crashes < MaxCrashes /\ crashes' = crashes + 1
  /\ dinode' = saved[1] /\ dirents' = saved[2] /\ itable' = BootTable
  /\ pc' = Nobody("idle") /\ call' = Nobody(NULL) /\ path' = Nobody(<<>>)
  /\ ip' = Nobody(NULL) /\ dp' = Nobody(NULL) /\ tgt' = Nobody(NULL)
  /\ put' = Nobody(NULL) /\ ret' = Nobody("idle")
  /\ cwd' = Nobody(1) /\ fd' = Nobody(NULL) /\ UNCHANGED <<saved, calls, panic>>

Step(p) ==
  \/ WalkName(p) \/ WalkEnd(p) \/ Open(p) \/ Chdir(p) \/ LinkOld(p) \/ LinkNew(p)
  \/ Linked(p) \/ LinkBad(p) \/ UnlinkName(p) \/ Unlink(p) \/ Unlinked(p) \/ DpBad(p)
  \/ CreateName(p) \/ Create(p) \/ Exists(p) \/ Created(p) \/ iput(p) \/ End(p)

Next ==
  /\ panic = "none"
  /\ (\E p \in Procs : Begin(p) \/ Close(p) \/ Step(p) \/ Panic(p)) \/ Crash

\* Nothing is left to do: the kernel has stopped, or every process is idle
\* and has used up its calls.
Stop ==
  /\ \/ panic # "none"
     \/ calls = MaxCalls /\ \A p \in Procs : pc[p] = "idle" /\ fd[p] = NULL
  /\ UNCHANGED vars

Spec == Init /\ [][Next \/ Stop]_vars

---------------------------------------------------------------------------
(* Properties.                                                             *)

\* How many pointers to slot s the processes hold.
Pointers(s) ==
  LET At(f) == Cardinality({p \in Procs : f[p] = s})
  IN  At(ip) + At(dp) + At(tgt) + At(put) + At(cwd) + At(fd)

\* On every path through the calls, the error paths included, ip->ref is the
\* number of C pointers to the entry: no call leaks a reference and none
\* puts one it does not have.
RefsCounted == \A s \in Slots : itable[s].ref = Pointers(s)

\* Whoever locks an inode sees what is on the disk: the copy in memory is
\* either invalid or the same, even if ialloc() takes an inode again while
\* the iput() that freed it still has its table entry.
Coherent ==
  \A s \in Slots : LET e == itable[s] IN
    (e.ref > 0 /\ e.valid /\ e.lock = NULL) =>
      dinode[e.inum] = [type |-> e.type, nlink |-> e.nlink]

\* The entries, dots aside, that name inode i.
NamesOf(i) ==
  {dn \in Inums \X (Names \ {".", ".."}) : dirents[dn[1]][dn[2]] = i}

\* At every moment, and in the image a crash falls back to, an inode has at
\* least as many links as it has names: no name is left of a freed inode,
\* however link, unlink, create and iput overlap, as long as nobody walks up
\* from a removed directory into an inode create() is taking again.
NamesBacked ==
  \A i \in Inums :
    /\ dinode[i].nlink >= Cardinality(NamesOf(i))
    /\ NamesOf(i) # {} => dinode[i].type # "none"

\* "ip->ref == 1 means no other process can have ip locked, so this
\* acquiresleep() won't block (or deadlock)": iput() takes it with
\* itable.lock held.
PutNeverBlocks ==
  \A p \in Procs : pc[p] = "put" =>
    LET e == itable[put[p]]
    IN  (e.ref = 1 /\ e.valid /\ e.nlink = 0) => e.lock = NULL
=============================================================================
