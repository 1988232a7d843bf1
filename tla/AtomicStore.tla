---------------------------- MODULE AtomicStore ----------------------------
(***************************************************************************)
(* What the log promises file system calls: the durable contents of the    *)
(* disk change only when no call is in progress, and then by all the       *)
(* updates made since the last change at once.  A crash loses the updates  *)
(* that are not durable yet and nothing else.                              *)
(***************************************************************************)
CONSTANTS Procs, Blocks, Data

VARIABLES durable,   \* the contents a reboot would recover
          image,     \* the contents calls read and write
          active     \* processes inside a file system call

vars == <<durable, image, active>>

Init == durable \in [Blocks -> Data] /\ image = durable /\ active = {}

Begin(p) == p \notin active /\ active' = active \cup {p} /\ UNCHANGED <<durable, image>>
Write(p, b, d) ==
  p \in active /\ image' = [image EXCEPT ![b] = d] /\ UNCHANGED <<durable, active>>
End(p) == p \in active /\ active' = active \ {p} /\ UNCHANGED <<durable, image>>
Commit == active = {} /\ durable' = image /\ UNCHANGED <<image, active>>
Crash == image' = durable /\ active' = {} /\ UNCHANGED durable

Next ==
  \/ \E p \in Procs : Begin(p) \/ End(p) \/ \E b \in Blocks, d \in Data : Write(p, b, d)
  \/ Commit
  \/ Crash

Spec == Init /\ [][Next]_vars
=============================================================================
