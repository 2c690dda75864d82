--------------------------- MODULE MCRestoreOrder ---------------------------
EXTENDS RestoreOrder

MCSpecs == [priority : {0, 1}, delay : {0}, retryBackoff : {0}, maxAttempts : {2}]
=============================================================================
