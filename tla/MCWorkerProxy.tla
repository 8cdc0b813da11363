--------------------------- MODULE MCWorkerProxy ---------------------------
EXTENDS WorkerProxy, TLC
=============================================================================
