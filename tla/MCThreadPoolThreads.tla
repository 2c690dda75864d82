------------------------ MODULE MCThreadPoolThreads ------------------------
EXTENDS ThreadPoolThreads
=============================================================================
