--------------------------- MODULE MCBufferCache ----------------------------
EXTENDS BufferCache

\* After a panic nothing moves.
Halt == panic # "none" /\ UNCHANGED vars
HaltSpec == Init /\ [][Next \/ Halt]_vars

Symmetry == Permutations(Procs) \cup Permutations(Blocks) \cup Permutations(Data)
=============================================================================
