------------------------- MODULE MCQueueLifecycle -------------------------
EXTENDS QueueLifecycle

CONSTANT r1
=============================================================================
