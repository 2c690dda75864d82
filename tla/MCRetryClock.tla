---------------------------- MODULE MCRetryClock ----------------------------
EXTENDS RetryClock

\* The clock as it was when the job was posted, and two other settings.
MCSkews == {0, 5, 9}
=============================================================================
