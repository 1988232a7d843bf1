------------------------------- MODULE MCLog --------------------------------
EXTENDS Log

\* Nobody sleeps in begin_op() for ever, and commit and recovery finish
\* unless the machine keeps crashing.
LogProgress == SleeperWoken /\ LogComesToRest
=============================================================================
