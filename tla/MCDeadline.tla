---------------------------- MODULE MCDeadline -----------------------------
(***************************************************************************)
(* The queues of Deadline under arrivals, completions and clock ticks.     *)
(***************************************************************************)
EXTENDS Deadline

CONSTANTS Keys,         \* block numbers
          MaxTicks

VARIABLES ddl, now, fault,
          queued        \* requests inserted and not yet removed, in order

vars == <<ddl, now, fault, queued>>

Init == ddl = InitDeadline /\ now = 0 /\ fault = "none" /\ queued = {}

Insert(x) ==
  LET r == InsertRequest(ddl, x, now)
  IN  /\ fault = "none" /\ x \notin queued
      /\ ddl' = r.ddl /\ fault' = r.fault
      /\ queued' = queued \cup {x}
      /\ UNCHANGED now

Complete ==
  LET r == PrimRBTree(ddl)
  IN  /\ fault = "none" /\ queued # {}
      /\ ddl' = r.ddl /\ fault' = r.fault
      /\ queued' = queued \ {GetFromRBTree(ddl)}
      /\ UNCHANGED now

Tick == fault = "none" /\ now < MaxTicks /\ now' = now + 1 /\ UNCHANGED <<ddl, fault, queued>>

Next == Complete \/ Tick \/ \E k \in Keys, w \in {0, 1} : Insert([b |-> k, write |-> w])
Spec == Init /\ [][Next]_vars

Reads == {x \in queued : x.write = 0}

\* GetFromRBTree returns the least block number in the tree: after an
\* insertion, readyArea is the lowest waiting read if there is one.
ReadyIsMinimum ==
  [][queued' # queued /\ queued \subseteq queued' /\ fault' = "none" /\ Reads' # {} =>
       \A x \in Reads' : ddl'.readyArea.b <= x.b]_vars
=============================================================================
