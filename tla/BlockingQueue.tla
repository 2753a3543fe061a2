---------------------------- MODULE BlockingQueue ----------------------------
(***************************************************************************)
(* writeBlocking and readBlocking (MessageQueueBase.h): a write or read    *)
(* that finds no room or no data sleeps in EventFlag::wait, and one that   *)
(* succeeds wakes the other side.  The two functions are the same but for  *)
(* who moves which counter and which notification is waited for, so the    *)
(* steps below are those of either party of a queue.  A synchronized queue *)
(* is a bounded FIFO (MessageQueue, RefinesFifo): what matters here is how *)
(* many messages it holds.  Several queues may share one EventFlag word.   *)
(***************************************************************************)
EXTENDS Integers

CONSTANTS Queues,
          Capacity,      \* getQuantumCount() of the queues
          Sizes,         \* the 'count' arguments of callers
          NotFull,       \* the readNotification mask of each queue
          NotEmpty,      \* the writeNotification mask of each queue
          Callers,       \* the parties that call at all
          Bits, Timeouts, RealFutex,
          Mortal         \* the parties that may be killed in the middle of a call

Parties == {"writer", "reader"} \X Queues

ASSUME BlockingAssumption ==
    /\ Capacity \in Nat \ {0}
    /\ Sizes \subseteq Nat
    /\ NotFull \in [Queues -> SUBSET Bits]
    /\ NotEmpty \in [Queues -> SUBSET Bits]
    /\ Callers \subseteq Parties
    /\ Timeouts \subseteq BOOLEAN
    /\ RealFutex \in BOOLEAN /\ Mortal \subseteq Parties

VARIABLES
    level,       \* messages in each queue
    pc,          \* where each party is
    count,       \* the argument of its call
    deadline,    \* it gave a timeout: shouldTimeOut
    over,        \* its timeOutNanos has been used up
    result,      \* what its last call returned
    moved,       \* history: its last call moved its counter
    owed,        \* history: parties whose peer was killed after its commit and
                 \* before the wake() they wait for
    word, at, call, expected, late, status, efState, orphaned  \* EventFlag

EF == INSTANCE EventFlag WITH Threads <- Parties, Masks <- {}, Retries <- {TRUE},
                              CanDie <- Mortal # {}

queue == <<level, count, deadline, over, result, moved, owed>>
flag  == <<word, at, call, expected, late, status, efState, orphaned>>
vars  == <<queue, pc, flag>>

Side(p) == p[1]
Queue(p) == p[2]
Peer(p) == <<IF Side(p) = "writer" THEN "reader" ELSE "writer", Queue(p)>>

\* What the party waits for, and what it wakes when it is done.
WaitMask(p) == IF Side(p) = "writer" THEN NotFull[Queue(p)] ELSE NotEmpty[Queue(p)]
\* (Mutant of WakeMask: the notification a party waits for itself.)
WakeMaskOwn(p) == WaitMask(p)
WakeMask(p) == WaitMask(Peer(p))

\* write() or read() of n messages would succeed.
\* (Mutants of Ready: the writer needs room for one message less; the reader
\* needs one message more.)
ReadyLate(p, n) == IF Side(p) = "writer" THEN Capacity - level[Queue(p)] >= n
                                         ELSE level[Queue(p)] > n
ReadyEarly(p, n) == IF Side(p) = "writer" THEN Capacity - level[Queue(p)] >= n - 1
                                          ELSE level[Queue(p)] >= n
Ready(p, n) == IF Side(p) = "writer" THEN Capacity - level[Queue(p)] >= n
                                     ELSE level[Queue(p)] >= n

Init ==
    /\ level = [q \in Queues |-> 0]
    /\ pc = [p \in Parties |-> "idle"]
    /\ count = [p \in Parties |-> 0]
    /\ deadline = [p \in Parties |-> FALSE]
    /\ over = [p \in Parties |-> FALSE]
    /\ result = [p \in Parties |-> FALSE]
    /\ moved = [p \in Parties |-> FALSE]
    /\ owed = {}
    /\ EF!Init

-----------------------------------------------------------------------------
Goto(p, place) == pc' = [pc EXCEPT ![p] = place]

Leaves(p, ok) ==
    /\ Goto(p, "idle")
    /\ count' = [count EXCEPT ![p] = 0]
    /\ deadline' = [deadline EXCEPT ![p] = FALSE]
    /\ over' = [over EXCEPT ![p] = FALSE]
    /\ result' = [result EXCEPT ![p] = ok]

Returns(p, ok) == Leaves(p, ok) /\ owed' = owed \ {p}

\* What wait() or wake() returned goes with the locals of the call.
Forgets(p) ==
    /\ status' = [status EXCEPT ![p] = "NONE"]
    /\ efState' = [efState EXCEPT ![p] = {}]
    /\ UNCHANGED <<word, at, call, expected, late, orphaned>>

\* The early return: nothing to wait on, or more than the queue ever holds.
Refused(p, n) == WaitMask(p) = {} \/ n > Capacity

CallRefused(p, n) ==
    /\ pc[p] = "idle"
    /\ Refused(p, n)
    /\ Returns(p, FALSE)
    /\ moved' = [moved EXCEPT ![p] = FALSE]
    /\ UNCHANGED <<level, flag>>

\* The attempt before the loop; write() or read() succeeds if it finds the
\* peer's counter far enough, and moves its own counter later.
Call(p, n, timed) ==
    /\ pc[p] = "idle"
    /\ ~Refused(p, n)
    /\ count' = [count EXCEPT ![p] = n]
    /\ deadline' = [deadline EXCEPT ![p] = timed]
    /\ result' = [result EXCEPT ![p] = FALSE]
    /\ moved' = [moved EXCEPT ![p] = FALSE]
    /\ Goto(p, IF Ready(p, n) THEN "moving" ELSE "looping")
    /\ UNCHANGED <<level, over, owed, flag>>

\* The commit of write() or read().
Move(p) ==
    /\ pc[p] = "moving"
    /\ level' = [level EXCEPT ![Queue(p)] =
                    IF Side(p) = "writer" THEN @ + count[p] ELSE @ - count[p]]
    /\ moved' = [moved EXCEPT ![p] = TRUE]
    /\ IF WakeMask(p) = {}
       THEN Returns(p, TRUE)
       ELSE Goto(p, "notifying") /\ UNCHANGED <<count, deadline, over, result, owed>>
    /\ UNCHANGED flag

Notify(p) ==
    /\ pc[p] = "notifying"
    /\ EF!WakeDeferred(p, WakeMask(p)) \/ EF!WakePosts(p, WakeMask(p))
    /\ Goto(p, "waking")
    /\ owed' = owed \ {Peer(p)}
    /\ UNCHANGED <<level, count, deadline, over, result, moved>>

WakeReturns(p) ==
    /\ pc[p] = "waking" /\ at[p] = "out"
    /\ Returns(p, TRUE) /\ Forgets(p)
    /\ UNCHANGED <<level, moved>>

\* The time is up: the last attempt, without waiting again.
\* (Mutant of LastAttempt: it answers true but commits nothing.)
LastAttemptLost(p) ==
    /\ pc[p] = "looping" /\ over[p]
    /\ Returns(p, Ready(p, count[p]))
    /\ UNCHANGED <<level, moved, flag>>
LastAttempt(p) ==
    /\ pc[p] = "looping" /\ over[p]
    /\ IF Ready(p, count[p])
       THEN Goto(p, "moving") /\ UNCHANGED <<count, deadline, over, result, owed>>
       ELSE Returns(p, FALSE)
    /\ UNCHANGED <<level, moved, flag>>

\* (Mutant of Wait: the wait is given no timeout.)
WaitUntimed(p) ==
    /\ pc[p] = "looping" /\ ~over[p]
    /\ EF!WaitStarts(p, WaitMask(p), FALSE, TRUE)
    /\ Goto(p, "waiting")
    /\ UNCHANGED queue
Wait(p) ==
    /\ pc[p] = "looping" /\ ~over[p]
    /\ EF!WaitStarts(p, WaitMask(p), deadline[p], TRUE)
    /\ Goto(p, "waiting")
    /\ UNCHANGED queue

\* Notified: another attempt, and if it fails another round.
WaitFinds(p) ==
    /\ pc[p] = "waiting" /\ at[p] = "out"
    /\ status[p] = "NO_ERROR"
    /\ Goto(p, IF Ready(p, count[p]) THEN "moving" ELSE "looping")
    /\ Forgets(p)
    /\ UNCHANGED queue

\* The wait timed out: the call fails without another attempt.
WaitTimedOut(p) ==
    /\ pc[p] = "waiting" /\ at[p] = "out"
    /\ status[p] = "TIMED_OUT"
    /\ Returns(p, FALSE) /\ Forgets(p)
    /\ UNCHANGED <<level, moved>>

\* The clock passes the deadline of the call and of the wait inside it.
Expire(p) ==
    /\ deadline[p] /\ ~over[p]
    /\ over' = [over EXCEPT ![p] = TRUE]
    /\ late' = [late EXCEPT ![p] = call[p].timed]
    /\ UNCHANGED <<level, count, deadline, result, moved, owed, pc, word, at,
                   call, expected, status, efState, orphaned>>

\* The process of p is killed, wherever it is; another one takes its place and
\* goes on with the same counters.
Die(p) ==
    /\ p \in Mortal /\ pc[p] # "idle"
    /\ Leaves(p, FALSE)
    /\ moved' = [moved EXCEPT ![p] = FALSE]
    /\ owed' = (owed \ {p}) \cup {peer \in {Peer(p)} :
                                     pc[p] = "notifying" /\ pc[peer] # "idle"}
    /\ EF!Die(p) \/ (at[p] = "out" /\ Forgets(p))
    /\ UNCHANGED level

Steps(p) ==
    \/ Move(p) \/ Notify(p) \/ WakeReturns(p)
    \/ LastAttempt(p) \/ Wait(p) \/ WaitFinds(p) \/ WaitTimedOut(p)
    \/ EF!Runs(p) /\ UNCHANGED <<queue, pc>>

Clock(p) ==
    \/ Expire(p)
    \/ EF!FutexTimesOut(p) /\ UNCHANGED <<queue, pc>>
Kernel(p) == EF!Kernel(p) /\ UNCHANGED <<queue, pc>>

Calling(p) ==
    \E n \in Sizes : CallRefused(p, n) \/ \E timed \in Timeouts : Call(p, n, timed)

Next ==
    \/ \E p \in Callers : Calling(p)
    \/ \E p \in Parties : Steps(p) \/ Clock(p) \/ Kernel(p) \/ Die(p)

\* The scheduler runs every thread that is inside a call and ready, and time
\* passes; nobody has to call again.
Fairness == \A p \in Parties : WF_vars(Steps(p)) /\ WF_vars(Clock(p))

Spec == Init /\ [][Next]_vars
FairSpec == Spec /\ Fairness

-----------------------------------------------------------------------------
\* Properties.

\* Type invariant.  wait() with retry never ends in the error that the code
\* logs as unexpected, and never reports a foreign bit.
Places == {"idle", "moving", "notifying", "waking", "looping", "waiting"}

TypeOK ==
    /\ level \in [Queues -> 0..Capacity]
    /\ pc \in [Parties -> Places]
    /\ count \in [Parties -> 0..Capacity]
    /\ deadline \in [Parties -> BOOLEAN]
    /\ over \in [Parties -> BOOLEAN]
    /\ result \in [Parties -> BOOLEAN]
    /\ moved \in [Parties -> BOOLEAN]
    /\ owed \subseteq Parties
    /\ EF!TypeOK
    /\ \A p \in Parties :
         /\ pc[p] \notin {"waiting", "waking"} => at[p] = "out"
         /\ pc[p] = "waiting" /\ at[p] = "out" =>
              \/ status[p] = "TIMED_OUT"
              \/ status[p] = "NO_ERROR" /\ efState[p] \cap WaitMask(p) # {}

\* A call answers true exactly when it moved its counter: no timeout, early
\* return or late notification loses or repeats messages.
ResultsAreTruthful == \A p \in Parties : pc[p] = "idle" => result[p] = moved[p]

\* The peer of p was killed after its commit: p misses the notification, or the
\* bit is set and nobody will call FUTEX_WAKE_BITSET for it.
Orphan(p) == p \in owed \/ orphaned \cap WaitMask(p) # {}

\* When a call waits although what it waits for is there, a notification for
\* it is set, has been taken by it, or is about to be set by its peer, unless
\* the peer was killed between its commit and its wake.
NotificationPending ==
    \A p \in Parties :
        pc[p] = "waiting" /\ Ready(p, count[p]) =>
            \/ at[p] = "out"
            \/ word \cap WaitMask(p) # {}
            \/ pc[Peer(p)] = "notifying"
            \/ p \in owed

\* A blocked call whose room or data is there returns, whether or not its peer
\* ever calls again, with the same exception.  The documentation makes none for
\* queues that share an EventFlag: "The same EventFlag object can be used with
\* multiple FMQs" (EventFlag.h:30).
BlockedCallFinishes ==
    \A p \in Parties :
        (pc[p] # "idle" /\ Ready(p, count[p])) ~> (pc[p] = "idle" \/ Orphan(p))

\* A call with a timeout returns, whatever its peer does and wherever it dies.
TimedCallReturns == \A p \in Parties : deadline[p] ~> ~deadline[p]

\* The two sides do not deadlock: as long as both keep calling and are not killed
\* over and over, no call blocks for ever, when any two requests fit the queue
\* together.  (Larger ones may block both sides: the queue has too little room for
\* one and too little data for the other.)  A kill between commit and wake may
\* block both: the one left without its notification, and then its peer when the
\* queue is full or empty.
RequestsFit == \A n, m \in Sizes : n > Capacity \/ m > Capacity \/ n + m <= Capacity + 1
KeepCalling == \A p \in Callers : WF_vars(Calling(p))
KillsStop == <>[][\A p \in Parties : ~Die(p)]_vars

EveryCallReturns ==
    RequestsFit /\ KeepCalling /\ KillsStop =>
        \A p \in Parties :
            pc[p] # "idle" ~> (pc[p] = "idle" \/ Orphan(p) \/ Orphan(Peer(p)))
=============================================================================
