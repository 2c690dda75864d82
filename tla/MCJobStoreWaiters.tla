------------------------- MODULE MCJobStoreWaiters -------------------------
EXTENDS JobStoreWaiters

\* A job that may run once, one that may run twice, one that save refuses.
MCSpecs == [priority : {0}, delay : {0}, retryBackoff : {0},
            maxAttempts : 0 .. 2]
=============================================================================
