-------------------- MODULE MCDelayedJobSchedulerThreads --------------------
EXTENDS DelayedJobSchedulerThreads
=============================================================================
