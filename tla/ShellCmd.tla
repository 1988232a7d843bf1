------------------------------ MODULE ShellCmd ------------------------------
(***************************************************************************)
(* user/sh.c: the recursive-descent parser, from tokens to a command tree, *)
(* and runcmd(), as the system calls it makes for a tree.                  *)
(*                                                                         *)
(* A token is a tuple that begins with its symbol: "|", ";", "&", "<",     *)
(* ">", "(", ")", or "a" for a word, which carries the system calls of the *)
(* program of that name.  gettoken() and peek() are Head and Tail on the   *)
(* tokens.  A tree is <<"exec", words>>, <<"redir", fd, tree>>,            *)
(* <<"pipe", left, right>>, <<"list", left, right>> or <<"back", tree>>.   *)
(***************************************************************************)
EXTENDS Naturals, Sequences, FiniteSets

CONSTANTS MAXARGS, MaxTokens   \* MaxTokens bounds the lines that are tried

ASSUME ShellAssumption == MAXARGS \in Nat \ {0} /\ MaxTokens \in Nat

VARIABLE line   \* what has been typed, as tokens

peek(s) == IF s = <<>> THEN "end" ELSE Head(s)[1]
Syntax == <<"panic">>
Failed(t) == t[1] = "panic"
Fail == [cmd |-> Syntax, rest |-> <<>>]
RedirFd(sym) == IF sym = "<" THEN 0 ELSE 1

---------------------------------------------------------------------------
(* The parser.  A function takes the tokens and returns a tree and what is *)
(* left.                                                                   *)

RECURSIVE parseline(_), PutBack(_), parsepipe(_), ExecFrom(_, _, _), Wrap(_, _), parseredirs(_)

Wrap(cmd, fds) == IF fds = <<>> THEN cmd ELSE Wrap(<<"redir", Head(fds), cmd>>, Tail(fds))

\* The descriptors that redirections at the start of s set.
parseredirs(s) ==
  IF peek(s) \notin {"<", ">"} THEN [fds |-> <<>>, rest |-> s, ok |-> TRUE]
  ELSE IF peek(Tail(s)) # "a" THEN [fds |-> <<>>, rest |-> s, ok |-> FALSE]
  ELSE LET more == parseredirs(Tail(Tail(s)))
       IN  [more EXCEPT !.fds = <<RedirFd(peek(s))>> \o @]

\* parseexec() after some words and redirections.
ExecFrom(s, words, fds) ==
  LET r == parseredirs(s) IN
  IF ~r.ok THEN Fail
  ELSE IF peek(r.rest) \in {"|", ")", "&", ";", "end"}
  THEN [cmd |-> Wrap(<<"exec", words>>, fds \o r.fds), rest |-> r.rest]
  ELSE IF peek(r.rest) # "a" \/ Len(words) + 1 >= MAXARGS THEN Fail
  ELSE ExecFrom(Tail(r.rest), Append(words, Head(r.rest)), fds \o r.fds)

parseblock(s) ==
  LET b == parseline(Tail(s))
      r == parseredirs(Tail(b.rest))
  IN  IF Failed(b.cmd) \/ peek(b.rest) # ")" THEN Fail
      ELSE IF ~r.ok THEN Fail
      ELSE [cmd |-> Wrap(b.cmd, r.fds), rest |-> r.rest]
parseexec(s) == IF peek(s) = "(" THEN parseblock(s) ELSE ExecFrom(s, <<>>, <<>>)

parsepipe(s) ==
  LET l == parseexec(s)
      r == parsepipe(Tail(l.rest))
  IN  IF Failed(l.cmd) \/ peek(l.rest) # "|" THEN l
      ELSE IF Failed(r.cmd) THEN r
      ELSE [cmd |-> <<"pipe", l.cmd, r.cmd>>, rest |-> r.rest]

PutBack(p) ==
  IF peek(p.rest) = "&" THEN PutBack([cmd |-> <<"back", p.cmd>>, rest |-> Tail(p.rest)]) ELSE p
IgnoreMore(l) == l                                \* mutant: what follows ";" is not parsed
ThenList(l) ==
  LET r == parseline(Tail(l.rest)) IN
  IF Failed(r.cmd) THEN r ELSE [cmd |-> <<"list", l.cmd, r.cmd>>, rest |-> r.rest]
parseline(s) ==
  LET p == parsepipe(s)
      l == PutBack(p)
  IN  IF Failed(p.cmd) THEN p ELSE IF peek(l.rest) = ";" THEN ThenList(l) ELSE l

parsecmd(s) ==
  LET p == parseline(s) IN IF p.rest # <<>> THEN Syntax ELSE p.cmd

---------------------------------------------------------------------------
(* runcmd().  With 0, 1 and 2 open, pipe() returns 3 and 4.                *)

CloseBoth == <<<<"close", 3>>, <<"close", 4>>>>
Waits == <<<<"wait">>>>
Exits == <<<<"exit">>>>

RECURSIVE runcmd(_)
runcmd(cmd) ==
  CASE cmd[1] = "panic" -> Exits
    [] cmd[1] = "exec" -> IF cmd[2] = <<>> THEN Exits ELSE cmd[2][1][2] \o Exits
    [] cmd[1] = "redir" -> <<<<"close", cmd[2]>>, <<"open">>>> \o runcmd(cmd[3])
    [] cmd[1] = "list" -> <<<<"fork", runcmd(cmd[2])>>>> \o Waits \o runcmd(cmd[3])
    [] cmd[1] = "pipe" ->
         <<<<"pipe">>,
           <<"fork", <<<<"close", 1>>, <<"dup", 4>>>> \o CloseBoth \o runcmd(cmd[2])>>,
           <<"fork", <<<<"close", 0>>, <<"dup", 3>>>> \o CloseBoth \o runcmd(cmd[3])>>>>
         \o CloseBoth \o Waits \o Waits \o Exits
    [] cmd[1] = "back" -> <<<<"fork", runcmd(cmd[2])>>>> \o Exits

\* One turn of the loop of main(), and the end of input.
shmain(s) == <<<<"fork", runcmd(parsecmd(s))>>>> \o Waits \o Exits

---------------------------------------------------------------------------
(* Lines, one token at a time.                                             *)

Symbols == {"|", ";", "&", "<", ">", "(", ")"}
Token == {<<c>> : c \in Symbols} \cup {<<"a", <<>>>>}
LineInit == line = <<>>
LineNext == Len(line) < MaxTokens /\ \E t \in Token : line' = Append(line, t)
LineStop == Len(line) = MaxTokens /\ UNCHANGED line

\* What a line means, by where it is cut: at the first ";" outside
\* parentheses, before a final "&", at the first "|" outside parentheses,
\* then words and redirections, or one parenthesis and redirections.
Depth(s, k) == Cardinality({j \in 1 .. k - 1 : s[j][1] = "("})
               - Cardinality({j \in 1 .. k - 1 : s[j][1] = ")"})
Outside(s, sym) ==
  {k \in DOMAIN s : s[k][1] = sym /\ \A j \in 1 .. k : Depth(s, j) >= 0 /\ Depth(s, k) = 0}
FirstOf(S) == CHOOSE k \in S : \A j \in S : k <= j
Before(s, k) == SubSeq(s, 1, k - 1)
After(s, k) == SubSeq(s, k + 1, Len(s))
Both(op, l, r) == IF Failed(l) \/ Failed(r) THEN Syntax ELSE <<op, l, r>>
\* The files of redirections, and whether s is words and redirections only.
IsFile(s, k) == k > 1 /\ s[k][1] = "a" /\ s[k - 1][1] \in {"<", ">"}
Simple(s) == \A k \in DOMAIN s : \/ s[k][1] = "a"
                                 \/ s[k][1] \in {"<", ">"} /\ k < Len(s) /\ s[k + 1][1] = "a"
Pick(s, Test(_)) == LET ks == {k \in DOMAIN s : Test(k)} IN
  [n \in 1 .. Cardinality(ks) |-> s[CHOOSE k \in ks : Cardinality({j \in ks : j < k}) = n - 1]]
Words(s) == Pick(s, LAMBDA k : s[k][1] = "a" /\ ~IsFile(s, k))
Redirs(s) == LET t == Pick(s, LAMBDA k : s[k][1] \in {"<", ">"})
             IN  [n \in DOMAIN t |-> RedirFd(t[n][1])]

RECURSIVE Line(_), Job(_), Pipeline(_), Command(_)
Line(s) ==
  IF Outside(s, ";") = {} THEN Job(s)
  ELSE LET k == FirstOf(Outside(s, ";")) IN Both("list", Job(Before(s, k)), Line(After(s, k)))
Job(s) ==
  IF s = <<>> \/ (s # <<>> /\ s[Len(s)][1] # "&") THEN Pipeline(s)
  ELSE LET j == Job(Before(s, Len(s))) IN IF Failed(j) THEN j ELSE <<"back", j>>
Pipeline(s) ==
  IF Outside(s, "|") = {} THEN Command(s)
  ELSE LET k == FirstOf(Outside(s, "|")) IN Both("pipe", Command(Before(s, k)), Pipeline(After(s, k)))
Command(s) ==
  IF s # <<>> /\ s[1][1] = "(" THEN
    LET close == {k \in DOMAIN s : s[k][1] = ")" /\ Depth(s, k) = 1}
        k == FirstOf(close)
        in == Line(SubSeq(s, 2, k - 1))
        out == After(s, k)
    IN  IF close = {} THEN Syntax
        ELSE IF Failed(in) \/ ~Simple(out) \/ Words(out) # <<>> THEN Syntax
        ELSE Wrap(in, Redirs(out))
  ELSE IF ~Simple(s) \/ Len(Words(s)) >= MAXARGS THEN Syntax
  ELSE Wrap(<<"exec", Words(s)>>, Redirs(s))

\* The parser gives every line that tree, and refuses exactly the lines that
\* have none: nothing of a line is dropped, and nothing is read twice.
ParsesGrammar == parsecmd(line) = Line(line)
=============================================================================
