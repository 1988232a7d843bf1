-------------------------------- MODULE Pipe --------------------------------
(***************************************************************************)
(* kernel/pipe.c over the file table of Files: pipealloc, pipeclose,       *)
(* piperead and pipewrite, with their two wait channels &pi->nread and     *)
(* &pi->nwrite, and kill().                                                *)
(***************************************************************************)
EXTENDS Files

NewPipe == [lock |-> NULL, nread |-> 0, nwrite |-> 0, data |-> [k \in 0 .. PIPESIZE - 1 |-> 0],
            readopen |-> TRUE, writeopen |-> TRUE]

\* sys_pipe(): the first filealloc(),
PipeAlloc(p) ==
  /\ Calls(p, "pipe")
  /\ \/ Fails(Free = {}) /\ GivesUp(p) /\ UNCHANGED <<ftable, arg>>
     \/ /\ Free # {} /\ UNCHANGED <<mishaps, script>>
        /\ ftable' = [ftable EXCEPT ![First(Free)].ref = 1]
        /\ at' = Set(at, p, "pipealloc") /\ arg' = Set(arg, p, [r |-> First(Free)])
  /\ UNCHANGED <<ofile, pipes, parent, killed, sent, got>>

\* then the second, and the page.  What fails leaves no file behind.
Released(f) == [ftable EXCEPT ![f].ref = 0, ![f].type = "none"]
PipeAlloc2(p) ==
  LET pages == {i \in PipeIds : pipes[i] = NULL}
      i == First(pages)
      r == arg[p].r
      w == First(Free)
      end(writable) == [ref |-> 1, type |-> "pipe", writable |-> writable, pipe |-> i]
  IN  /\ at[p] = "pipealloc"
      /\ \/ /\ Fails(Free = {} \/ pages = {})
            /\ ftable' = Released(r) /\ GivesUp(p)
            /\ arg' = Set(arg, p, NULL) /\ UNCHANGED <<pipes, sent, got>>
         \/ /\ Free # {} /\ pages # {} /\ UNCHANGED <<mishaps, script>>
            /\ ftable' = [ftable EXCEPT ![r] = end(FALSE), ![w] = end(TRUE)]
            /\ pipes' = Set(pipes, i, NewPipe)
            /\ at' = Set(at, p, "pipefds") /\ arg' = Set(arg, p, [r |-> r, w |-> w, pipe |-> i])
            /\ sent' = Set(sent, i, 0) /\ got' = Set(got, i, <<>>)
      /\ UNCHANGED <<ofile, parent, killed>>

\* Last the two descriptors, which go to user memory.  If that fails they are
\* taken back and the files closed, the end for reading first.
PipeFds(p) ==
  LET fd0 == First(FreeFd(p))
      fd1 == First(FreeFd(p) \ {fd0})
      enough == Cardinality(FreeFd(p)) >= 2
  IN  /\ at[p] = "pipefds"
      /\ \/ /\ Fails(~enough) /\ ftable' = Released(arg[p].r)
            /\ pipes' = [pipes EXCEPT ![arg[p].pipe].readopen = FALSE]
            /\ at' = Set(at, p, "pipeundo") /\ UNCHANGED <<ofile, script, arg>>
         \/ /\ enough /\ ofile' = [ofile EXCEPT ![p][fd0] = arg[p].r, ![p][fd1] = arg[p].w]
            /\ Returns(p) /\ arg' = Set(arg, p, NULL) /\ UNCHANGED <<mishaps, ftable, pipes>>
      /\ UNCHANGED <<parent, killed, sent, got>>
PipeUndo(p) ==
  /\ at[p] = "pipeundo" /\ ftable' = Released(arg[p].w)
  /\ pipes' = Set(pipes, arg[p].pipe, NULL)
  /\ GivesUp(p) /\ arg' = Set(arg, p, NULL)
  /\ UNCHANGED <<ofile, sent, got>> /\ Same

\* wakeup(): f with the sleepers on a channel of pipe i running again.
Wakes(f, i, from, to) ==
  [q \in FProcs |-> IF f[q] = from /\ arg[q].pipe = i THEN to ELSE f[q]]
WakeNobody(f, i) == f                             \* mutant: no wakeup
WakeReaders(f, i) == Wakes(f, i, "rwait", "read")
WakeWriters(f, i) == Wakes(f, i, "wwait", "write")

PipeClose(p) ==
  LET i == arg[p].pipe
      w == arg[p].writable
      pi == IF w THEN [pipes[i] EXCEPT !.writeopen = FALSE] ELSE [pipes[i] EXCEPT !.readopen = FALSE]
  IN  /\ at[p] = "pipeclose" /\ pipes[i].lock = NULL
      /\ pipes' = Set(pipes, i, IF pi.readopen \/ pi.writeopen THEN pi ELSE NULL)
      /\ at' = Set(IF w THEN WakeReaders(at, i) ELSE WakeWriters(at, i), p, "run")
      /\ arg' = Set(arg, p, NULL)
      /\ UNCHANGED <<ftable, ofile, script, sent, got>> /\ Same

\* fileread() and filewrite() as far as the file: not open, wrong end, or
\* not a pipe; otherwise piperead() and pipewrite() begin.
Begin(p, name, writable, to, n) ==
  LET f == ofile[p][FdArg(p)] IN
  /\ Calls(p, name)
  /\ IF f # NULL /\ ftable[f].type = "pipe" /\ ftable[f].writable = writable
     THEN /\ at' = Set(at, p, to) /\ arg' = Set(arg, p, [pipe |-> ftable[f].pipe, n |-> n, i |-> 0])
          /\ UNCHANGED script
     ELSE Returns(p) /\ UNCHANGED arg
  /\ UNCHANGED <<ftable, ofile, pipes, sent, got>> /\ Same
ReadBegin(p) == Begin(p, "read", FALSE, "read", Head(script[p])[3])
DrainBegin(p) == Begin(p, "drain", FALSE, "read", PIPESIZE)
WriteBegin(p) == Begin(p, "write", TRUE, "write", Head(script[p])[3])

Holds(p) == arg[p] # NULL /\ pipes[arg[p].pipe].lock \in {NULL, p}
Plus(a, b) == (a + b) % UMod
OneTooMany(pi) == pi.nwrite = Plus(pi.nread, PIPESIZE + 1)  \* mutant: off by one
Full(pi) == pi.nwrite = Plus(pi.nread, PIPESIZE)
IsEmpty(pi) == pi.nread = pi.nwrite
Lost == 0                                         \* no byte has this number

\* pipewrite() returns how much it has written.
WriteEnds(p, i) ==
  /\ pipes' = [pipes EXCEPT ![i].lock = NULL] /\ arg' = Set(arg, p, NULL)
  /\ at' = Set(WakeReaders(at, i), p, "run")
  /\ script' = Set(script, p, Tail(script[p])) /\ UNCHANGED sent

\* One turn of pipewrite()'s loop, or its end; copyin() may fail.
PipeWrite(p) ==
  LET i == arg[p].pipe
      pi == pipes[i]
      copies == arg[p].i < arg[p].n /\ pi.readopen /\ ~killed[p] /\ ~Full(pi)
  IN  /\ at[p] = "write" /\ Holds(p)
      /\ \/ copies /\ Mishap /\ WriteEnds(p, i)
         \/ /\ copies
            /\ pipes' = Set(pipes, i, [pi EXCEPT !.lock = p, !.nwrite = Plus(@, 1),
                                         !.data[pi.nwrite % PIPESIZE] = sent[i] + 1])
            /\ sent' = [sent EXCEPT ![i] = @ + 1] /\ arg' = [arg EXCEPT ![p].i = @ + 1]
            /\ UNCHANGED <<at, script, mishaps>>
         \/ arg[p].i = arg[p].n /\ WriteEnds(p, i) /\ UNCHANGED mishaps
         \/ /\ arg[p].i < arg[p].n /\ (~pi.readopen \/ killed[p])
            /\ pipes' = [pipes EXCEPT ![i].lock = NULL] /\ arg' = Set(arg, p, NULL)
            /\ GivesUp(p) /\ UNCHANGED <<sent, mishaps>>
         \/ /\ arg[p].i < arg[p].n /\ pi.readopen /\ ~killed[p] /\ Full(pi)
            /\ pipes' = [pipes EXCEPT ![i].lock = p]
            /\ at' = Set(WakeReaders(at, i), p, "wsleep") /\ UNCHANGED <<script, arg, sent, mishaps>>
      /\ UNCHANGED <<ftable, ofile, got, parent, killed>>

\* The end of piperead(): k bytes are taken and writers woken; unless copyout()
\* failed for the last of them, all k are in user memory.
Taken(pi, k) == [j \in 1 .. k |-> pi.data[Plus(pi.nread, j - 1) % PIPESIZE]]
ReadEnds(p, i, k, copied) ==
  LET pi == pipes[i]
      more == Head(script[p])[1] = "drain" /\ copied > 0
  IN  /\ pipes' = Set(pipes, i, [pi EXCEPT !.lock = NULL, !.nread = Plus(@, k)])
      /\ got' = [got EXCEPT ![i] = @ \o [j \in 1 .. k |-> IF j <= copied THEN Taken(pi, k)[j] ELSE Lost]]
      /\ at' = Set(WakeWriters(at, i), p, "run") /\ arg' = Set(arg, p, NULL)
      /\ script' = IF more THEN script ELSE Set(script, p, Tail(script[p]))
PipeRead(p) ==
  LET i == arg[p].pipe
      pi == pipes[i]
      have == Plus(pi.nwrite, UMod - pi.nread)
      k == IF have < arg[p].n THEN have ELSE arg[p].n
      waits == IsEmpty(pi) /\ pi.writeopen
  IN  /\ at[p] = "read" /\ Holds(p)
      /\ \/ /\ waits /\ killed[p] /\ GivesUp(p) /\ pipes' = [pipes EXCEPT ![i].lock = NULL]
            /\ arg' = Set(arg, p, NULL) /\ UNCHANGED <<got, mishaps>>
         \/ /\ waits /\ ~killed[p] /\ pipes' = [pipes EXCEPT ![i].lock = p]
            /\ at' = Set(at, p, "rsleep") /\ UNCHANGED <<script, arg, got, mishaps>>
         \/ ~waits /\ ReadEnds(p, i, k, k) /\ UNCHANGED mishaps
         \/ ~waits /\ Mishap /\ \E j \in 1 .. k : ReadEnds(p, i, j, j - 1)
      /\ UNCHANGED <<ftable, ofile, sent, parent, killed>>

\* sleep(): the pipe's lock is given up and the process waits.
Sleep(p) ==
  /\ at[p] \in {"rsleep", "wsleep"}
  /\ at' = Set(at, p, IF at[p] = "rsleep" THEN "rwait" ELSE "wwait")
  /\ pipes' = [pipes EXCEPT ![arg[p].pipe].lock = NULL]
  /\ UNCHANGED <<ftable, ofile, script, arg, sent, got>> /\ Same

\* kill(): the victim is marked and, if it sleeps, woken.
Kill(q) ==
  /\ Mishap /\ q # Sh /\ at[q] \notin {"unused", "zombie"} /\ ~killed[q]
  /\ killed' = Set(killed, q, TRUE)
  /\ at' = IF at[q] = "rwait" THEN Set(at, q, "read")
           ELSE IF at[q] = "wwait" THEN Set(at, q, "write") ELSE at
  /\ UNCHANGED <<ftable, ofile, pipes, script, arg, parent, sent, got>>

FStep(p) ==
  \/ Close(p) \/ Dup(p) \/ OpenFile(p) \/ Fork(p) \/ ExitClose(p) \/ Exit(p) \/ Wait(p)
  \/ InitWait(p) \/ PipeAlloc(p) \/ PipeAlloc2(p) \/ PipeFds(p) \/ PipeUndo(p) \/ PipeClose(p)
  \/ ReadBegin(p) \/ DrainBegin(p) \/ WriteBegin(p) \/ PipeWrite(p) \/ PipeRead(p) \/ Sleep(p)
FilesNext == \E p \in FProcs : FStep(p) \/ Kill(p)

\* Every process that can run is scheduled.  Nobody has to be killed.
FilesFairness == \A p \in FProcs : WF_fileVars(FStep(p))

---------------------------------------------------------------------------
(* Properties.                                                             *)

\* Files that pipe() has allocated and not yet given a descriptor.
InPipe(p) ==
  IF at[p] = "pipealloc" THEN {arg[p].r} ELSE IF at[p] = "pipefds" THEN {arg[p].r, arg[p].w}
  ELSE IF at[p] = "pipeundo" THEN {arg[p].w} ELSE {}

\* f->ref is the number of descriptors of f, plus one while pipe() has it
\* and has no descriptor for it.
FileRefs ==
  \A f \in Slot : ftable[f].ref =
    Cardinality({<<p, fd>> \in FProcs \X Fd : ofile[p][fd] = f})
    + Cardinality({p \in FProcs : f \in InPipe(p)})

\* Somebody has, or is just closing, the end of pipe i for writing or reading.
HasEnd(i, w) ==
  \/ \E f \in Slot : ftable[f].ref > 0 /\ ftable[f].type = "pipe"
                       /\ ftable[f].pipe = i /\ ftable[f].writable = w
  \/ \E p \in FProcs : at[p] = "pipeclose" /\ arg[p].pipe = i /\ arg[p].writable = w

\* readopen and writeopen say who can still use the pipe, and the page is
\* there as long as anybody can: a reader gets end of file exactly when the
\* last descriptor for writing is closed, and nobody uses a freed page.
EndsOpen ==
  \A i \in PipeIds :
    /\ pipes[i] = NULL => ~HasEnd(i, TRUE) /\ ~HasEnd(i, FALSE)
    /\ pipes[i] # NULL => /\ pipes[i].writeopen = HasEnd(i, TRUE)
                          /\ pipes[i].readopen = HasEnd(i, FALSE)
    /\ \A p \in FProcs : at[p] \in {"read", "rsleep", "rwait", "write", "wsleep", "wwait"} =>
         pipes[arg[p].pipe] # NULL

\* A pipe is a queue: readers get the bytes in the order in which they were
\* written, each once, however nread and nwrite wrap, but for one whose
\* copyout() failed; what was not taken is in the buffer.
PipeStream ==
  \A i \in PipeIds :
    /\ \A k \in DOMAIN got[i] : got[i][k] \in {k, Lost}
    /\ pipes[i] # NULL => Len(got[i]) + Plus(pipes[i].nwrite, UMod - pipes[i].nread) = sent[i]

\* What the shell was told to run comes to an end: no reader waits for an
\* end of file that some forgotten descriptor holds up, no writer for room
\* nobody will make, and no wakeup is lost.
PipelineEnds == <>(at[Sh] = "zombie")
=============================================================================
