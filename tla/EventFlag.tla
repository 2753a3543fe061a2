------------------------------ MODULE EventFlag ------------------------------
(***************************************************************************)
(* EventFlag.cpp: threads of any process set bits of a shared futex word   *)
(* with wake() and sleep with wait() until one of the bits of a mask is    *)
(* set, which wait() then clears.  Every atomic operation on the word and  *)
(* every futex call is a step.  The kernel's futex is external: asleep     *)
(* threads are its wait queue.                                             *)
(***************************************************************************)
EXTENDS FiniteSets

CONSTANTS Threads,
          Bits,        \* the bits of the word
          Masks,       \* the bitmask arguments of callers
          Timeouts,    \* {FALSE}: callers never give a timeout; or {TRUE}, BOOLEAN
          Retries,     \* the 'retry' arguments of callers
          RealFutex,   \* FALSE: the _MSC_VER build, whose futex calls are faked
          CanDie       \* TRUE: a process may be killed in the middle of a call

ASSUME EventFlagAssumption ==
    /\ Masks \subseteq SUBSET Bits
    /\ Timeouts \subseteq BOOLEAN /\ Retries \subseteq BOOLEAN
    /\ RealFutex \in BOOLEAN /\ CanDie \in BOOLEAN

VARIABLES
    word,       \* *mEfWordPtr, as the set of its bits
    at,         \* where each thread is
    call,       \* the arguments of its call
    expected,   \* efWord, what it expects the word to be when it goes to sleep
    late,       \* its timeoutNanoSeconds has been used up
    status,     \* what its last call returned, "NONE" before it does
    efState,    \* the bits its last wait() reported
    orphaned    \* history: bits whose waker died before FUTEX_WAKE_BITSET

calls == <<call, expected, late, status, efState>>
vars  == <<word, at, calls, orphaned>>

NoCall == [mask |-> {}, timed |-> FALSE, retry |-> FALSE]
Calls == [mask : SUBSET Bits, timed : BOOLEAN, retry : BOOLEAN]

\* "out" of the library; in wake(): "posted", between fetch_or and the system
\* call; in wait(): "polling" at the head of the loop, "polled" between the
\* fetch_and and the system call, "asleep" in it, "awake" when it returned 0.
InWait(t) == at[t] \in {"polling", "polled", "asleep", "awake"}

Init ==
    /\ word = {}
    /\ at = [t \in Threads |-> "out"]
    /\ call = [t \in Threads |-> NoCall]
    /\ expected = [t \in Threads |-> {}]
    /\ late = [t \in Threads |-> FALSE]
    /\ status = [t \in Threads |-> "NONE"]
    /\ efState = [t \in Threads |-> {}]
    /\ orphaned = {}

\* The call of t returns s, and wait() reports the bits.
Returns(t, s, bits) ==
    /\ at' = [at EXCEPT ![t] = "out"]
    /\ call' = [call EXCEPT ![t] = NoCall]
    /\ expected' = [expected EXCEPT ![t] = {}]
    /\ late' = [late EXCEPT ![t] = FALSE]
    /\ status' = [status EXCEPT ![t] = s]
    /\ efState' = [efState EXCEPT ![t] = bits]

\* t starts a call and goes to place.
Starts(t, place, args) ==
    /\ at' = [at EXCEPT ![t] = place]
    /\ call' = [call EXCEPT ![t] = args]
    /\ status' = [status EXCEPT ![t] = "NONE"]
    /\ efState' = [efState EXCEPT ![t] = {}]
    /\ UNCHANGED <<expected, late>>

-----------------------------------------------------------------------------
\* wake(m)

\* Some bit of m is not set yet (for an empty m there is none).
\* (Mutant of MustWake: only a mask that is new as a whole wakes anybody.)
MustWakeWhole(m) == m # {} /\ m \cap word = {}
MustWake(m) == ~(m \subseteq word)

\* An empty mask, or deferred wakes for all of its bits: nobody is woken.
WakeDeferred(t, m) ==
    /\ at[t] = "out"
    /\ ~MustWake(m)
    /\ word' = word \cup m
    /\ Returns(t, "NO_ERROR", {})
    /\ UNCHANGED orphaned

WakePosts(t, m) ==
    /\ at[t] = "out"
    /\ MustWake(m)
    /\ word' = word \cup m
    /\ Starts(t, "posted", [mask |-> m, timed |-> FALSE, retry |-> FALSE])
    /\ UNCHANGED orphaned

\* FUTEX_WAKE_BITSET wakes all threads asleep on a bit of the mask; the fake
\* wakes nobody.
Sleepers(m) ==
    {s \in Threads : RealFutex /\ at[s] = "asleep" /\ call[s].mask \cap m # {}}

FutexWake(t) ==
    /\ at[t] = "posted"
    /\ at' = [s \in Threads |-> IF s = t THEN "out"
                                ELSE IF s \in Sleepers(call[t].mask) THEN "awake"
                                ELSE at[s]]
    /\ call' = [call EXCEPT ![t] = NoCall]
    /\ status' = [status EXCEPT ![t] = "NO_ERROR"]
    /\ orphaned' = orphaned \ call[t].mask
    /\ UNCHANGED <<word, expected, late, efState>>

-----------------------------------------------------------------------------
\* wait(m, timed, retry)

WaitStarts(t, m, timed, retry) ==
    /\ at[t] = "out"
    /\ Starts(t, "polling", [mask |-> m, timed |-> timed, retry |-> retry])
    /\ UNCHANGED <<word, orphaned>>

\* The clock reaches the deadline that the retry loop looks at.
Expire(t) ==
    /\ InWait(t) /\ call[t].timed /\ call[t].retry /\ ~late[t]
    /\ late' = [late EXCEPT ![t] = TRUE]
    /\ UNCHANGED <<word, at, call, expected, status, efState, orphaned>>

\* (Mutant of TimeUp: every round of the loop starts a new timeout.)
NeverUp(t) == late[t] # late[t]
TimeUp(t) == late[t]

LoopTimesOut(t) ==
    /\ at[t] = "polling" /\ TimeUp(t)
    /\ Returns(t, "TIMED_OUT", {})
    /\ UNCHANGED <<word, orphaned>>

\* (Mutant of BadMask: waitHelper accepts an empty mask.)
AnyMask(t) == call[t] # call[t]
BadMask(t) == call[t].mask = {}

WaitRefused(t) ==
    /\ at[t] = "polling" /\ ~TimeUp(t)
    /\ BadMask(t)
    /\ Returns(t, "BAD_VALUE", {})
    /\ UNCHANGED <<word, orphaned>>

\* fetch_and of the complement of the mask.
SetBits(t) == word \cap call[t].mask
\* (Mutant of ClearMask: the word is cleared as a whole.)
ClearWord(t) == word' = {} /\ orphaned' = {}
ClearMask(t) ==
    /\ word' = word \ call[t].mask
    /\ orphaned' = orphaned \ call[t].mask

\* A deferred wake is available.
PollFinds(t) ==
    /\ at[t] = "polling" /\ ~TimeUp(t)
    /\ SetBits(t) # {}
    /\ ClearMask(t)
    /\ Returns(t, "NO_ERROR", SetBits(t))

PollFindsNothing(t) ==
    /\ at[t] = "polling" /\ ~TimeUp(t)
    /\ ~BadMask(t) /\ SetBits(t) = {}
    /\ ClearMask(t)
    /\ at' = [at EXCEPT ![t] = "polled"]
    /\ expected' = [expected EXCEPT ![t] = word \ call[t].mask]
    /\ UNCHANGED <<call, late, status, efState>>

\* waitHelper fails with EAGAIN or EINTR: wait() goes round its loop, or
\* returns the error when it must not retry.
\* (Mutant of Fails: a spurious wake-up is not retried.)
FailsUnlessAgain(t, error) ==
    /\ IF call[t].retry /\ error = "EAGAIN"
       THEN /\ at' = [at EXCEPT ![t] = "polling"]
            /\ expected' = [expected EXCEPT ![t] = {}]
            /\ UNCHANGED <<call, late, status, efState>>
       ELSE Returns(t, error, {})
    /\ UNCHANGED <<word, orphaned>>
Fails(t, error) ==
    /\ IF call[t].retry
       THEN /\ at' = [at EXCEPT ![t] = "polling"]
            /\ expected' = [expected EXCEPT ![t] = {}]
            /\ UNCHANGED <<call, late, status, efState>>
       ELSE Returns(t, error, {})
    /\ UNCHANGED <<word, orphaned>>

\* FUTEX_WAIT_BITSET sleeps only if the word is still the expected one.
\* (Mutant of AsExpected: the thread sleeps whatever the word is.)
AnyWord(t) == expected[t] = expected[t]
AsExpected(t) == word = expected[t]

FutexSleeps(t) ==
    /\ at[t] = "polled" /\ RealFutex
    /\ AsExpected(t)
    /\ at' = [at EXCEPT ![t] = "asleep"]
    /\ UNCHANGED <<word, calls, orphaned>>

FutexAgain(t) ==
    /\ at[t] = "polled" /\ RealFutex
    /\ ~AsExpected(t)
    /\ Fails(t, "EAGAIN")

\* A signal ends the sleep.
FutexInterrupted(t) == at[t] = "asleep" /\ Fails(t, "EINTR")

\* The absolute timeout given to the kernel passes.
FutexTimesOut(t) ==
    /\ at[t] = "asleep" /\ call[t].timed
    /\ Returns(t, "TIMED_OUT", {})
    /\ UNCHANGED <<word, orphaned>>

\* The kernel may return 0 without a wake.
FutexSpurious(t) ==
    /\ at[t] = "asleep"
    /\ at' = [at EXCEPT ![t] = "awake"]
    /\ UNCHANGED <<word, calls, orphaned>>

\* The _MSC_VER build calls no futex and goes on with ret = 0.
\* (Mutant of FakeFutex: it sleeps, while wake() is still faked.)
FakeFutexSleeps(t) ==
    /\ at[t] = "polled" /\ ~RealFutex
    /\ at' = [at EXCEPT ![t] = "asleep"]
    /\ UNCHANGED <<word, calls, orphaned>>
FakeFutex(t) ==
    /\ at[t] = "polled" /\ ~RealFutex
    /\ at' = [at EXCEPT ![t] = "awake"]
    /\ UNCHANGED <<word, calls, orphaned>>

AwakeFinds(t) ==
    /\ at[t] = "awake"
    /\ SetBits(t) # {}
    /\ ClearMask(t)
    /\ Returns(t, "NO_ERROR", SetBits(t))

\* Another thread was faster, or the wake-up was spurious.
AwakeFindsNothing(t) ==
    /\ at[t] = "awake"
    /\ SetBits(t) = {}
    /\ Fails(t, "EINTR")

-----------------------------------------------------------------------------
\* The process of t is killed, and another takes its place.
Die(t) ==
    /\ CanDie
    /\ at[t] # "out"
    /\ Returns(t, "NONE", {})
    /\ orphaned' = IF at[t] = "posted"
                   THEN orphaned \cup (word \cap call[t].mask) ELSE orphaned
    /\ UNCHANGED word

\* A step of a thread that is inside the library and not asleep.
Runs(t) ==
    \/ FutexWake(t)
    \/ LoopTimesOut(t) \/ WaitRefused(t) \/ PollFinds(t) \/ PollFindsNothing(t)
    \/ FutexSleeps(t) \/ FutexAgain(t)
    \/ FakeFutex(t)
    \/ AwakeFinds(t) \/ AwakeFindsNothing(t)

Clock(t) == Expire(t) \/ FutexTimesOut(t)

Kernel(t) == FutexInterrupted(t) \/ FutexSpurious(t)

Calling(t) ==
    \E m \in Masks :
        \/ WakeDeferred(t, m)
        \/ WakePosts(t, m)
        \/ \E timed \in Timeouts, retry \in Retries : WaitStarts(t, m, timed, retry)

Next == \E t \in Threads : Calling(t) \/ Runs(t) \/ Clock(t) \/ Kernel(t) \/ Die(t)

\* The scheduler runs every thread that is ready, and time passes.
Fairness == \A t \in Threads : WF_vars(Runs(t)) /\ WF_vars(Clock(t))

Spec == Init /\ [][Next]_vars
FairSpec == Spec /\ Fairness

-----------------------------------------------------------------------------
\* Properties.

\* Type invariant: locations, arguments and results are what the code has.
TypeOK ==
    /\ word \subseteq Bits
    /\ at \in [Threads -> {"out", "posted", "polling", "polled", "asleep", "awake"}]
    /\ call \in [Threads -> Calls]
    /\ expected \in [Threads -> SUBSET Bits]
    /\ late \in [Threads -> BOOLEAN]
    /\ status \in [Threads -> {"NONE", "NO_ERROR", "BAD_VALUE", "EAGAIN", "EINTR",
                               "TIMED_OUT"}]
    /\ efState \in [Threads -> SUBSET Bits]
    /\ orphaned \subseteq word
    /\ \A t \in Threads :
         /\ at[t] = "out" => call[t] = NoCall
         /\ at[t] \notin {"out", "polling"} => call[t].mask # {}
         /\ late[t] => InWait(t) /\ call[t].timed

\* No wake is lost: if a bit that a sleeping thread waits for is set, a thread
\* that set it is about to call FUTEX_WAKE_BITSET for it, unless that thread
\* died before it could.  wake() relies on this when it skips the system call.
NoLostWake ==
    \A s \in Threads : \A b \in call[s].mask \cap word :
        at[s] = "asleep" =>
            b \in orphaned \/ \E t \in Threads : at[t] = "posted" /\ b \in call[t].mask

\* The same without the exception, which is what the comment in wake() says
\* (EventFlag.cpp:94, "No need to call FUTEX_WAKE_BITSET if there were deferred
\* wakes already available for all set bits").
DeferredWakesSuffice ==
    \A s \in Threads : \A b \in call[s].mask \cap word :
        at[s] = "asleep" => \E t \in Threads : at[t] = "posted" /\ b \in call[t].mask

\* A bit is cleared only by the wait() that reports it, and every report is of
\* bits cleared: no notification is dropped, none is delivered twice, by
\* whatever path the waiters leave.
Reporting(t) == InWait(t) /\ at'[t] = "out"

EachBitReportedOnce ==
    [][word \ word' = UNION {efState'[t] : t \in {u \in Threads : Reporting(u)}}]_vars

\* "-EAGAIN or -EINTR error codes will not be returned if 'retry' is true"
\* (EventFlag.h:88), whichever way the futex call ends.
RetryHidesSpurious ==
    [][\A t \in Threads : Reporting(t) /\ call[t].retry =>
            status'[t] \notin {"EAGAIN", "EINTR"}]_vars

\* A thread does not wait for ever for a bit that stays set, although others
\* sleep, wake and consume around it.
WakeArrives ==
    \A t \in Threads : \A b \in Bits :
        (InWait(t) /\ b \in call[t].mask /\ b \in word)
            ~> (at[t] = "out" \/ b \notin word)

\* A wait with a timeout returns, even if spurious wake-ups keep it looping.
TimedWaitReturns ==
    \A t \in Threads : (InWait(t) /\ call[t].timed) ~> at[t] = "out"
=============================================================================
