--------------------------- MODULE MCBlockingQueue ---------------------------
EXTENDS BlockingQueue, TLC

CONSTANTS q1, q2, full1, empty1

\* The defaults of the short overloads: FMQ_NOT_FULL and FMQ_NOT_EMPTY.
DefaultFull == [q \in Queues |-> {full1}]
DefaultEmpty == [q \in Queues |-> {empty1}]

BothSides == {"writer", "reader"} \X Queues
OneSide == {<<"writer", q1>>}
\* One queue in use, and a reader of the other that waits in vain.
TwoReaders == {<<"writer", q1>>, <<"reader", q1>>, <<"reader", q2>>}
=============================================================================
