--------------------------- MODULE MCTwoProcesses ---------------------------
EXTENDS TwoProcesses

MCSpecs == {[priority |-> 0, delay |-> 0, retryBackoff |-> 0, maxAttempts |-> 3]}
=============================================================================
