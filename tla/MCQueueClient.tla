--------------------------- MODULE MCQueueClient ---------------------------
EXTENDS QueueClient
=============================================================================
