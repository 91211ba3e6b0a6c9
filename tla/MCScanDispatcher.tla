-------------------------- MODULE MCScanDispatcher --------------------------
EXTENDS ScanDispatcher
CONSTANTS r1, r2
HalfQuarters == [q \in Queues |-> IF q = ScanVerification THEN 50 ELSE 25]
=============================================================================
