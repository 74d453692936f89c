------------------------ MODULE MCBatchingEventStore ------------------------
EXTENDS BatchingEventStore
=============================================================================
