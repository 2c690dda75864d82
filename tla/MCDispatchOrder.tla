--------------------------- MODULE MCDispatchOrder ---------------------------
EXTENDS DispatchOrder

\* An urgent job, and one that is not.
MCJobs == {[id |-> 1, spec |-> [priority |-> 0]],
           [id |-> 2, spec |-> [priority |-> 1]]}
=============================================================================
