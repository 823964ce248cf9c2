------------------------------ MODULE MCQueue ------------------------------
EXTENDS QueueMachine
=============================================================================
