----------------------------- MODULE MCIoSched ------------------------------
EXTENDS IoSched

\* No panic or wild access of the scheduling layer is reached, and a queue
\* holds nothing when no request of its mode is in progress.
QueuesSafe == NoPanic /\ QueuesDrained
=============================================================================
