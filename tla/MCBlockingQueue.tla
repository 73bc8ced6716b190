--------------------------- MODULE MCBlockingQueue ---------------------------
EXTENDS BlockingQueueProps
=============================================================================
