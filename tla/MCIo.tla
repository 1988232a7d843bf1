-------------------------------- MODULE MCIo --------------------------------
(***************************************************************************)
(* Pipes and the console for TLC.  A behaviour starts with a shell: one    *)
(* that runs a line of commands, or one that exits at once and leaves the  *)
(* console to a reader and to writers.                                     *)
(***************************************************************************)
EXTENDS Pipe, Console, ShellCmd

\* Words, with the system calls of their programs, and the other tokens.
Prog(calls) == <<"a", calls>>
Cat == Prog(<<<<"drain", 0>>>>)
First1 == Prog(<<<<"read", 0, 1>>>>)
Tac == Prog(<<<<"drain", 0>>, <<"write", 1, 3>>>>)
Echoes(n) == Prog(<<<<"write", 1, n>>>>)
Waiter == Prog(<<<<"write", 1, 2>>, <<"wait">>>>)   \* it has no child
Sym(c) == <<c>>

MCLines ==
  {<<Echoes(5), Sym("|"), Cat>>, <<Echoes(5), Sym("|"), First1>>,
   <<Sym("("), Echoes(2), Sym(";"), Echoes(2), Sym(")"), Sym("|"), Cat>>,
   <<Waiter, Sym(">"), Cat>>}
LongLines ==
  {<<Echoes(2), Sym("|"), Tac, Sym("|"), Cat>>,
   <<Echoes(2), Sym(">"), Cat, Sym("&"), Sym(";"), Echoes(3), Sym("|"), First1>>}
MCScripts == {shmain(s) : s \in MCLines \cup LongLines} \cup {<<>>}

VARIABLE mode   \* "pipes" or "console"

IoInit ==
  /\ mode \in {"pipes", "console"} /\ FilesInit /\ ConsInit /\ LineInit
  /\ (script[Sh] = <<>>) = (mode = "console")
  /\ mishaps > 0 => script[Sh] \in {shmain(s) : s \in MCLines}

\* In the mode "pipes" nobody types or writes to the console.
IoNext ==
  /\ UNCHANGED <<mode, line>>
  /\ \/ FilesNext /\ UNCHANGED consVars
     \/ mode = "console" /\ at[Sh] = "zombie" /\ ConsNext /\ UNCHANGED fileVars

\* Until somebody does, no step of ConsFairness is enabled.
IoSpec ==
  IoInit /\ [][IoNext]_<<mode, fileVars, consVars, line>> /\ FilesFairness /\ ConsFairness

---------------------------------------------------------------------------
\* FileRefs and EndsOpen: f->ref counts the descriptors, and a pipe's ends are
\* open, and its page is there, exactly as long as somebody has a descriptor.
FilesCounted == FileRefs /\ EndsOpen

\* InputKept and ReadsLines: cons.buf holds the edited input, and read()
\* returns it line by line, with nothing lost or overwritten.
InputInOrder == InputKept /\ ReadsLines
=============================================================================
