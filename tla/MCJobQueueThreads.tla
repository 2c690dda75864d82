------------------------- MODULE MCJobQueueThreads -------------------------
EXTENDS JobQueueThreads

\* Two jobs that differ in priority.
MCJobs == {[id |-> 1, spec |-> [priority |-> 0]],
           [id |-> 2, spec |-> [priority |-> 1]]}
=============================================================================
