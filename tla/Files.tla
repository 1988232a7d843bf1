------------------------------- MODULE Files -------------------------------
(***************************************************************************)
(* Open files and pipes: the file table of kernel/file.c, the descriptors  *)
(* of a process (kernel/sysfile.c, fork and exit of kernel/proc.c) and     *)
(* kernel/pipe.c, driven by processes that each run a script of system     *)
(* calls.                                                                  *)
(*                                                                         *)
(* A call is a tuple: <<"pipe">>, <<"open">>, <<"close", fd>>,             *)
(* <<"dup", fd>>, <<"write", fd, n>>, <<"read", fd, n>>, <<"drain", fd>>   *)
(* (read until end of file), <<"fork", script>>, <<"wait">>, <<"exit">>.   *)
(*                                                                         *)
(* Steps end where a lock is released, and before sleep(), where a kill    *)
(* can come in.  Files that are not pipes are only opened and closed here. *)
(* Every byte written to a pipe carries its number, so that got shows what *)
(* was read and in which order.                                            *)
(***************************************************************************)
EXTENDS Naturals, Sequences, FiniteSets

CONSTANTS
  FProcs,    \* the process table
  Sh,        \* the process that is running at the start
  NFILE, NOFILE, PIPESIZE,
  NPipes,    \* pages kalloc() can give to pipes
  UMod,      \* 2^32: nread and nwrite wrap
  MaxMishaps,  \* bound on what goes wrong: kill(), an allocation or a copy
               \* from or to user memory that fails
  Scripts,   \* what the first process may run
  NULL

ASSUME FilesAssumption ==
  /\ Sh \in FProcs /\ {NFILE, NOFILE, PIPESIZE, NPipes, UMod} \subseteq Nat \ {0}
  /\ UMod % PIPESIZE = 0 /\ UMod > PIPESIZE /\ MaxMishaps \in Nat

VARIABLES
  ftable,  \* [ref, type, writable, pipe] of every file slot
  ofile,   \* descriptors of every process
  pipes,   \* [lock, nread, nwrite, data, readopen, writeopen] or NULL
  at, script, arg,      \* where a process is, its calls, locals of a call
  parent, killed,
  mishaps,              \* how much may still go wrong
  sent, got             \* bytes written to, numbers read from each pipe

fileVars == <<ftable, ofile, pipes, at, script, arg, parent, killed, mishaps, sent, got>>

Fd == 0 .. NOFILE - 1
Slot == 1 .. NFILE
PipeIds == 1 .. NPipes
NoFile == [ref |-> 0, type |-> "none", writable |-> FALSE, pipe |-> NULL]
Set(f, p, v) == [f EXCEPT ![p] = v]
First(S) == CHOOSE x \in S : \A y \in S : x <= y

\* init opens the console once and dups it twice for the shell.
FilesInit ==
  /\ ftable = [f \in Slot |-> IF f = 1 THEN [NoFile EXCEPT !.ref = 3, !.type = "inode"] ELSE NoFile]
  /\ ofile = [p \in FProcs |-> [fd \in Fd |-> IF p = Sh /\ fd < 3 THEN 1 ELSE NULL]]
  /\ pipes = [i \in PipeIds |-> NULL]
  /\ at = [p \in FProcs |-> IF p = Sh THEN "run" ELSE "unused"]
  /\ \E s \in Scripts : script = [p \in FProcs |-> IF p = Sh THEN s ELSE <<>>]
  /\ arg = [p \in FProcs |-> NULL] /\ parent = [p \in FProcs |-> NULL]
  /\ killed = [p \in FProcs |-> FALSE] /\ mishaps \in 0 .. MaxMishaps
  /\ sent = [i \in PipeIds |-> 0] /\ got = [i \in PipeIds |-> <<>>]

Free == {f \in Slot : ftable[f].ref = 0}
FreeFd(p) == {fd \in Fd : ofile[p][fd] = NULL}
Open(p) == Fd \ FreeFd(p)

\* usertrap() lets a process that was killed make no further call.
Calls(p, name) ==
  at[p] = "run" /\ ~killed[p] /\ script[p] # <<>> /\ Head(script[p])[1] = name
FdArg(p) == Head(script[p])[2]
Returns(p) == at' = Set(at, p, "run") /\ script' = Set(script, p, Tail(script[p]))
GivesUp(p) == at' = Set(at, p, "run") /\ script' = Set(script, p, <<>>)
Same == UNCHANGED <<parent, killed, mishaps>>

\* An allocation fails when there is nothing left, or when what there is has
\* gone to processes outside the model: the tables and the memory are shared.
Mishap == mishaps > 0 /\ mishaps' = mishaps - 1
Fails(none) == IF none THEN UNCHANGED mishaps ELSE Mishap

---------------------------------------------------------------------------
(* Descriptors.                                                            *)

\* fileclose(f), with the descriptor already cleared: the last reference
\* frees the slot and leaves the pipe's end to be closed afterwards.
FileClose(p, f) ==
  LET e == ftable[f] IN
  /\ ftable' = IF e.ref > 1 THEN [ftable EXCEPT ![f].ref = @ - 1]
               ELSE [ftable EXCEPT ![f].ref = 0, ![f].type = "none"]
  /\ IF e.ref = 1 /\ e.type = "pipe"
     THEN at' = Set(at, p, "pipeclose") /\ arg' = Set(arg, p, e)
     ELSE at' = Set(at, p, "run") /\ UNCHANGED arg

Close(p) ==
  /\ Calls(p, "close") /\ script' = Set(script, p, Tail(script[p]))
  /\ LET f == ofile[p][FdArg(p)]
     IN  IF f = NULL THEN UNCHANGED <<ofile, ftable, at, arg>>
         ELSE ofile' = [ofile EXCEPT ![p][FdArg(p)] = NULL] /\ FileClose(p, f)
  /\ UNCHANGED <<pipes, sent, got>> /\ Same

\* fdalloc(), then filedup().
NotCounted(f) == ftable                           \* mutant: f->ref++ forgotten
filedup(f) == [ftable EXCEPT ![f].ref = @ + 1]
Dup(p) ==
  /\ Calls(p, "dup") /\ Returns(p)
  /\ LET f == ofile[p][FdArg(p)]
     IN  IF f = NULL \/ FreeFd(p) = {} THEN UNCHANGED <<ofile, ftable>>
         ELSE /\ ofile' = [ofile EXCEPT ![p][First(FreeFd(p))] = f]
              /\ ftable' = filedup(f)
  /\ UNCHANGED <<pipes, arg, sent, got>> /\ Same

\* open(), of something that is not a pipe.
OpenFile(p) ==
  /\ Calls(p, "open")
  /\ \/ /\ Fails(Free = {} \/ FreeFd(p) = {})
        /\ GivesUp(p) /\ UNCHANGED <<ofile, ftable>>
     \/ /\ Free # {} /\ FreeFd(p) # {} /\ UNCHANGED mishaps
        /\ Returns(p) /\ ofile' = [ofile EXCEPT ![p][First(FreeFd(p))] = First(Free)]
        /\ ftable' = [ftable EXCEPT ![First(Free)] = [NoFile EXCEPT !.ref = 1, !.type = "inode"]]
  /\ UNCHANGED <<pipes, arg, parent, killed, sent, got>>

\* The slots of a process table entry that fork() fills.
Fork(p) ==
  LET child == {q \in FProcs : at[q] = "unused"}
      refs(f) == Cardinality({fd \in Fd : ofile[p][fd] = f})
  IN  /\ Calls(p, "fork")
      /\ \/ Fails(child = {}) /\ GivesUp(p) /\ UNCHANGED <<ofile, ftable, parent>>
         \/ /\ child # {} /\ UNCHANGED mishaps
            /\ LET q == CHOOSE q \in child : TRUE IN
               /\ at' = Set(at, q, "run") /\ parent' = Set(parent, q, p)
               /\ script' = [script EXCEPT ![p] = Tail(@), ![q] = FdArg(p)]
               /\ ofile' = Set(ofile, q, ofile[p])
               /\ ftable' = [f \in Slot |-> [ftable[f] EXCEPT !.ref = @ + refs(f)]]
      /\ UNCHANGED <<pipes, arg, killed, sent, got>>

\* exit() closes the descriptors in order, then becomes a zombie.
Exiting(p) ==
  /\ at[p] = "run"
  /\ IF killed[p] \/ script[p] = <<>> THEN TRUE ELSE Head(script[p])[1] = "exit"
ExitClose(p) ==
  /\ Exiting(p) /\ Open(p) # {}
  /\ LET fd == First(Open(p))
     IN  ofile' = [ofile EXCEPT ![p][fd] = NULL] /\ FileClose(p, ofile[p][fd])
  /\ script' = Set(script, p, <<>>)
  /\ UNCHANGED <<pipes, sent, got>> /\ Same
Exit(p) ==
  /\ Exiting(p) /\ Open(p) = {} /\ at' = Set(at, p, "zombie")
  /\ parent' = [q \in FProcs |-> IF parent[q] = p THEN NULL ELSE parent[q]]
  /\ UNCHANGED <<ftable, ofile, pipes, script, arg, killed, mishaps, sent, got>>

\* wait(): frees a child that has exited, or fails if there is no child;
\* init waits for the orphans.
Reap(q) ==
  /\ at[q] = "zombie" /\ killed' = Set(killed, q, FALSE) /\ parent' = Set(parent, q, NULL)
Wait(p) ==
  LET kids == {q \in FProcs : parent[q] = p} IN
  /\ Calls(p, "wait") /\ script' = Set(script, p, Tail(script[p]))
  /\ \/ kids = {} /\ UNCHANGED <<at, killed, parent>>
     \/ \E q \in kids : Reap(q) /\ at' = Set(at, q, "unused")
  /\ UNCHANGED <<ftable, ofile, pipes, arg, mishaps, sent, got>>
InitWait(q) ==
  /\ q # Sh /\ parent[q] = NULL /\ Reap(q) /\ at' = Set(at, q, "unused")
  /\ UNCHANGED <<ftable, ofile, pipes, script, arg, mishaps, sent, got>>
=============================================================================
