--------------------------- MODULE EventFlagProofs ---------------------------
(***************************************************************************)
(* Theorems about EventFlag for any number of threads and bits, with or    *)
(* without a real futex and with or without processes that are killed.     *)
(***************************************************************************)
EXTENDS EventFlag, TLAPS

\* Nobody sleeps in the build that fakes the futex, and a thread about to sleep
\* expects a word without the bits it waits for.
SleepInv ==
    \A t \in Threads :
        /\ at[t] = "asleep" => RealFutex
        /\ at[t] = "polled" => expected[t] \cap call[t].mask = {}

FlagInv == TypeOK /\ SleepInv /\ NoLostWake

LEMMA NoCallIsCall == NoCall \in Calls
  BY DEF NoCall, Calls

-----------------------------------------------------------------------------
\* Type correctness.

LEMMA ReturnsTyped ==
    ASSUME TypeOK, NEW t \in Threads,
           NEW s \in {"NONE", "NO_ERROR", "BAD_VALUE", "EAGAIN", "EINTR", "TIMED_OUT"},
           NEW bits \in SUBSET Bits,
           Returns(t, s, bits), word' \subseteq Bits, orphaned' \subseteq word'
    PROVE  TypeOK'
  BY NoCallIsCall DEF TypeOK, Returns, InWait

LEMMA FailsTyped ==
    ASSUME TypeOK, NEW t \in Threads, NEW error \in {"EAGAIN", "EINTR"},
           at[t] # "out", at[t] # "posted", Fails(t, error)
    PROVE  TypeOK'
<1>1. CASE call[t].retry
  BY <1>1 DEF Fails, TypeOK, InWait
<1>2. CASE ~call[t].retry
  BY <1>2, ReturnsTyped DEF Fails, TypeOK
<1> QED
  BY <1>1, <1>2

LEMMA SetBitsTyped ==
    ASSUME TypeOK, NEW t \in Threads
    PROVE  /\ SetBits(t) \in SUBSET Bits
           /\ ClearMask(t) => word' \subseteq Bits /\ orphaned' \subseteq word'
  BY DEF TypeOK, SetBits, ClearMask

LEMMA TypeInit == Init => TypeOK
  BY NoCallIsCall DEF Init, TypeOK, InWait

LEMMA TypeNext == TypeOK /\ [Next]_vars => TypeOK'
<1> SUFFICES ASSUME TypeOK, [Next]_vars PROVE TypeOK'
  OBVIOUS
<1>u. CASE UNCHANGED vars
  BY <1>u DEF vars, calls, TypeOK, InWait
<1>1. ASSUME NEW t \in Threads, NEW m \in Masks, WakeDeferred(t, m) PROVE TypeOK'
  <2>1. m \subseteq Bits
    BY EventFlagAssumption
  <2> QED
    BY <1>1, <2>1, ReturnsTyped DEF WakeDeferred, TypeOK
<1>2. ASSUME NEW t \in Threads, NEW m \in Masks, WakePosts(t, m) PROVE TypeOK'
  <2>1. m \subseteq Bits /\ m # {}
    BY <1>2, EventFlagAssumption DEF WakePosts, MustWake
  <2>2. [mask |-> m, timed |-> FALSE, retry |-> FALSE] \in Calls
    BY <2>1 DEF Calls
  <2> QED
    BY <1>2, <2>1, <2>2 DEF WakePosts, Starts, TypeOK, InWait
<1>3. ASSUME NEW t \in Threads, NEW m \in Masks, NEW timed \in Timeouts,
             NEW retry \in Retries, WaitStarts(t, m, timed, retry)
      PROVE  TypeOK'
  <2>1. [mask |-> m, timed |-> timed, retry |-> retry] \in Calls
    BY EventFlagAssumption DEF Calls
  <2> QED
    BY <1>3, <2>1 DEF WaitStarts, Starts, TypeOK, InWait
<1>4. ASSUME NEW t \in Threads, FutexWake(t) PROVE TypeOK'
  BY <1>4, NoCallIsCall DEF FutexWake, Sleepers, TypeOK, InWait
<1>5. ASSUME NEW t \in Threads, LoopTimesOut(t) PROVE TypeOK'
  BY <1>5, ReturnsTyped DEF LoopTimesOut, TypeOK
<1>6. ASSUME NEW t \in Threads, WaitRefused(t) PROVE TypeOK'
  BY <1>6, ReturnsTyped DEF WaitRefused, TypeOK
<1>7. ASSUME NEW t \in Threads, PollFinds(t) PROVE TypeOK'
  BY <1>7, ReturnsTyped, SetBitsTyped DEF PollFinds
<1>8. ASSUME NEW t \in Threads, PollFindsNothing(t) PROVE TypeOK'
  BY <1>8, SetBitsTyped DEF PollFindsNothing, BadMask, TypeOK, InWait
<1>9. ASSUME NEW t \in Threads, FutexSleeps(t) PROVE TypeOK'
  BY <1>9 DEF FutexSleeps, calls, TypeOK, InWait
<1>10. ASSUME NEW t \in Threads, FutexAgain(t) PROVE TypeOK'
  BY <1>10, FailsTyped DEF FutexAgain
<1>11. ASSUME NEW t \in Threads, FakeFutex(t) PROVE TypeOK'
  BY <1>11 DEF FakeFutex, calls, TypeOK, InWait
<1>12. ASSUME NEW t \in Threads, AwakeFinds(t) PROVE TypeOK'
  BY <1>12, ReturnsTyped, SetBitsTyped DEF AwakeFinds
<1>13. ASSUME NEW t \in Threads, AwakeFindsNothing(t) PROVE TypeOK'
  BY <1>13, FailsTyped DEF AwakeFindsNothing
<1>14. ASSUME NEW t \in Threads, Expire(t) PROVE TypeOK'
  BY <1>14 DEF Expire, TypeOK, InWait
<1>15. ASSUME NEW t \in Threads, FutexTimesOut(t) PROVE TypeOK'
  BY <1>15, ReturnsTyped DEF FutexTimesOut, TypeOK
<1>16. ASSUME NEW t \in Threads, FutexInterrupted(t) PROVE TypeOK'
  BY <1>16, FailsTyped DEF FutexInterrupted
<1>17. ASSUME NEW t \in Threads, FutexSpurious(t) PROVE TypeOK'
  BY <1>17 DEF FutexSpurious, calls, TypeOK, InWait
<1>18. ASSUME NEW t \in Threads, Die(t) PROVE TypeOK'
  <2>1. word' \subseteq Bits /\ orphaned' \subseteq word'
    BY <1>18 DEF Die, TypeOK
  <2> QED
    BY <1>18, <2>1, ReturnsTyped DEF Die
<1> QED
  BY <1>u, <1>1, <1>2, <1>3, <1>4, <1>5, <1>6, <1>7, <1>8, <1>9, <1>10, <1>11,
     <1>12, <1>13, <1>14, <1>15, <1>16, <1>17, <1>18
     DEF Next, Calling, Runs, Clock, Kernel

\* Every variable keeps its range, and a thread inside the library has the
\* arguments of the call it is in.
THEOREM TypeCorrect == Spec => []TypeOK
  BY TypeInit, TypeNext, PTL DEF Spec

-----------------------------------------------------------------------------
\* No wake is lost.

LEMMA FailsOut ==
    ASSUME TypeOK, NEW t \in Threads, NEW error, Fails(t, error)
    PROVE  /\ at' \in [Threads -> {"out", "posted", "polling", "polled", "asleep", "awake"}]
           /\ at'[t] \in {"out", "polling"}
           /\ \A s \in Threads \ {t} : at'[s] = at[s] /\ call'[s] = call[s]
                                       /\ expected'[s] = expected[s]
           /\ UNCHANGED <<word, orphaned>>
<1>1. CASE call[t].retry
  BY <1>1 DEF Fails, TypeOK
<1>2. CASE ~call[t].retry
  BY <1>2 DEF Fails, Returns, TypeOK
<1> QED
  BY <1>1, <1>2

LEMMA SleepInit == Init => SleepInv
  BY DEF Init, SleepInv

\* A step of t after which t neither sleeps nor is about to, and which leaves
\* the others alone but for waking them.
LEMMA SleepKept ==
    ASSUME SleepInv, NEW t \in Threads, at'[t] \notin {"polled", "asleep"},
           \A s \in Threads \ {t} :
               /\ at'[s] = at[s] \/ at'[s] = "awake"
               /\ at'[s] = "polled" =>
                    expected'[s] = expected[s] /\ call'[s] = call[s]
    PROVE  SleepInv'
  BY DEF SleepInv

LEMMA SleepNext == TypeOK /\ SleepInv /\ [Next]_vars => SleepInv'
<1> SUFFICES ASSUME TypeOK, SleepInv, [Next]_vars PROVE SleepInv'
  OBVIOUS
<1>u. CASE UNCHANGED vars
  BY <1>u DEF vars, calls, SleepInv
<1>1. ASSUME NEW t \in Threads, NEW m \in Masks, WakeDeferred(t, m) PROVE SleepInv'
  BY <1>1, SleepKept DEF WakeDeferred, Returns, TypeOK
<1>2. ASSUME NEW t \in Threads, NEW m \in Masks, WakePosts(t, m) PROVE SleepInv'
  BY <1>2, SleepKept DEF WakePosts, Starts, TypeOK
<1>3. ASSUME NEW t \in Threads, NEW m \in Masks, NEW timed \in Timeouts,
             NEW retry \in Retries, WaitStarts(t, m, timed, retry)
      PROVE  SleepInv'
  BY <1>3, SleepKept DEF WaitStarts, Starts, TypeOK
<1>4. ASSUME NEW t \in Threads, FutexWake(t) PROVE SleepInv'
  BY <1>4, SleepKept DEF FutexWake, TypeOK
<1>5. ASSUME NEW t \in Threads, LoopTimesOut(t) PROVE SleepInv'
  BY <1>5, SleepKept DEF LoopTimesOut, Returns, TypeOK
<1>6. ASSUME NEW t \in Threads, WaitRefused(t) PROVE SleepInv'
  BY <1>6, SleepKept DEF WaitRefused, Returns, TypeOK
<1>7. ASSUME NEW t \in Threads, PollFinds(t) PROVE SleepInv'
  BY <1>7, SleepKept DEF PollFinds, Returns, TypeOK
<1>8. ASSUME NEW t \in Threads, PollFindsNothing(t) PROVE SleepInv'
  BY <1>8 DEF PollFindsNothing, SleepInv, TypeOK
<1>9. ASSUME NEW t \in Threads, FutexSleeps(t) PROVE SleepInv'
  BY <1>9 DEF FutexSleeps, calls, SleepInv, TypeOK
<1>10. ASSUME NEW t \in Threads, FutexAgain(t) PROVE SleepInv'
  BY <1>10, SleepKept, FailsOut DEF FutexAgain
<1>11. ASSUME NEW t \in Threads, FakeFutex(t) PROVE SleepInv'
  BY <1>11, SleepKept DEF FakeFutex, calls, TypeOK
<1>12. ASSUME NEW t \in Threads, AwakeFinds(t) PROVE SleepInv'
  BY <1>12, SleepKept DEF AwakeFinds, Returns, TypeOK
<1>13. ASSUME NEW t \in Threads, AwakeFindsNothing(t) PROVE SleepInv'
  BY <1>13, SleepKept, FailsOut DEF AwakeFindsNothing
<1>14. ASSUME NEW t \in Threads, Expire(t) PROVE SleepInv'
  BY <1>14 DEF Expire, SleepInv
<1>15. ASSUME NEW t \in Threads, FutexTimesOut(t) PROVE SleepInv'
  BY <1>15, SleepKept DEF FutexTimesOut, Returns, TypeOK
<1>16. ASSUME NEW t \in Threads, FutexInterrupted(t) PROVE SleepInv'
  BY <1>16, SleepKept, FailsOut DEF FutexInterrupted
<1>17. ASSUME NEW t \in Threads, FutexSpurious(t) PROVE SleepInv'
  BY <1>17, SleepKept DEF FutexSpurious, calls, TypeOK
<1>18. ASSUME NEW t \in Threads, Die(t) PROVE SleepInv'
  BY <1>18, SleepKept DEF Die, Returns, TypeOK
<1> QED
  BY <1>u, <1>1, <1>2, <1>3, <1>4, <1>5, <1>6, <1>7, <1>8, <1>9, <1>10, <1>11,
     <1>12, <1>13, <1>14, <1>15, <1>16, <1>17, <1>18
     DEF Next, Calling, Runs, Clock, Kernel

LEMMA WakeInit == Init => NoLostWake
  BY DEF Init, NoLostWake

\* A step that puts nobody to sleep, ends no wake() and sets no bit.
LEMMA WakeKept ==
    ASSUME NoLostWake,
           \A s \in Threads :
               /\ at'[s] = "asleep" => at[s] = "asleep" /\ call'[s] = call[s]
               /\ at[s] = "posted" => at'[s] = "posted" /\ call'[s] = call[s],
           word' \subseteq word, orphaned \cap word' \subseteq orphaned'
    PROVE  NoLostWake'
  BY DEF NoLostWake

LEMMA WakeNext == TypeOK /\ SleepInv /\ NoLostWake /\ [Next]_vars => NoLostWake'
<1> SUFFICES ASSUME TypeOK, SleepInv, NoLostWake, [Next]_vars PROVE NoLostWake'
  OBVIOUS
<1>u. CASE UNCHANGED vars
  BY <1>u DEF vars, calls, NoLostWake
<1>1. ASSUME NEW t \in Threads, NEW m \in Masks, WakeDeferred(t, m) PROVE NoLostWake'
  BY <1>1, WakeKept DEF WakeDeferred, MustWake, Returns, TypeOK
<1>2. ASSUME NEW t \in Threads, NEW m \in Masks, WakePosts(t, m) PROVE NoLostWake'
  <2>1. at'[t] = "posted" /\ call'[t].mask = m /\ word' = word \cup m
        /\ orphaned' = orphaned
    BY <1>2 DEF WakePosts, Starts, TypeOK
  <2>2. \A s \in Threads \ {t} : at'[s] = at[s] /\ call'[s] = call[s]
    BY <1>2 DEF WakePosts, Starts, TypeOK
  <2>3. at[t] = "out"
    BY <1>2 DEF WakePosts
  <2> QED
    BY <2>1, <2>2, <2>3 DEF NoLostWake
<1>3. ASSUME NEW t \in Threads, NEW m \in Masks, NEW timed \in Timeouts,
             NEW retry \in Retries, WaitStarts(t, m, timed, retry)
      PROVE  NoLostWake'
  BY <1>3, WakeKept DEF WaitStarts, Starts, TypeOK
<1>4. ASSUME NEW t \in Threads, FutexWake(t) PROVE NoLostWake'
  <2> SUFFICES ASSUME NEW s \in Threads, NEW b \in call'[s].mask \cap word',
                      at'[s] = "asleep"
               PROVE  \/ b \in orphaned'
                      \/ \E u \in Threads : at'[u] = "posted" /\ b \in call'[u].mask
    BY DEF NoLostWake
  <2>1. at[s] = "asleep" /\ s # t /\ call'[s] = call[s] /\ word' = word
    BY <1>4 DEF FutexWake, TypeOK
  <2>2. b \notin call[t].mask
    BY <1>4, <2>1 DEF FutexWake, Sleepers, TypeOK, SleepInv
  <2>3. CASE b \in orphaned
    BY <1>4, <2>2, <2>3 DEF FutexWake
  <2>4. ASSUME NEW u \in Threads, at[u] = "posted", b \in call[u].mask
        PROVE  at'[u] = "posted" /\ b \in call'[u].mask
    BY <1>4, <2>2, <2>4 DEF FutexWake, Sleepers, TypeOK
  <2> QED
    BY <2>1, <2>3, <2>4 DEF NoLostWake
<1>5. ASSUME NEW t \in Threads, LoopTimesOut(t) PROVE NoLostWake'
  BY <1>5, WakeKept DEF LoopTimesOut, Returns, TypeOK
<1>6. ASSUME NEW t \in Threads, WaitRefused(t) PROVE NoLostWake'
  BY <1>6, WakeKept DEF WaitRefused, Returns, TypeOK
<1>7. ASSUME NEW t \in Threads, PollFinds(t) PROVE NoLostWake'
  BY <1>7, WakeKept DEF PollFinds, ClearMask, Returns, TypeOK
<1>8. ASSUME NEW t \in Threads, PollFindsNothing(t) PROVE NoLostWake'
  BY <1>8, WakeKept DEF PollFindsNothing, ClearMask, TypeOK
<1>9. ASSUME NEW t \in Threads, FutexSleeps(t) PROVE NoLostWake'
  <2>1. call[t].mask \cap word = {}
    BY <1>9 DEF FutexSleeps, AsExpected, SleepInv
  <2> QED
    BY <1>9, <2>1 DEF FutexSleeps, calls, NoLostWake, TypeOK
<1>10. ASSUME NEW t \in Threads, FutexAgain(t) PROVE NoLostWake'
  BY <1>10, WakeKept, FailsOut DEF FutexAgain
<1>11. ASSUME NEW t \in Threads, FakeFutex(t) PROVE NoLostWake'
  BY <1>11, WakeKept DEF FakeFutex, calls, TypeOK
<1>12. ASSUME NEW t \in Threads, AwakeFinds(t) PROVE NoLostWake'
  BY <1>12, WakeKept DEF AwakeFinds, ClearMask, Returns, TypeOK
<1>13. ASSUME NEW t \in Threads, AwakeFindsNothing(t) PROVE NoLostWake'
  BY <1>13, WakeKept, FailsOut DEF AwakeFindsNothing
<1>14. ASSUME NEW t \in Threads, Expire(t) PROVE NoLostWake'
  BY <1>14, WakeKept DEF Expire
<1>15. ASSUME NEW t \in Threads, FutexTimesOut(t) PROVE NoLostWake'
  BY <1>15, WakeKept DEF FutexTimesOut, Returns, TypeOK
<1>16. ASSUME NEW t \in Threads, FutexInterrupted(t) PROVE NoLostWake'
  BY <1>16, WakeKept, FailsOut DEF FutexInterrupted
<1>17. ASSUME NEW t \in Threads, FutexSpurious(t) PROVE NoLostWake'
  BY <1>17, WakeKept DEF FutexSpurious, calls, TypeOK
<1>18. ASSUME NEW t \in Threads, Die(t) PROVE NoLostWake'
  <2>1. CASE at[t] # "posted"
    BY <1>18, <2>1, WakeKept DEF Die, Returns, TypeOK
  <2>2. CASE at[t] = "posted"
    <3>1. orphaned' = orphaned \cup (word \cap call[t].mask) /\ word' = word
          /\ at'[t] = "out"
      BY <1>18, <2>2 DEF Die, Returns, TypeOK
    <3>2. \A s \in Threads \ {t} : at'[s] = at[s] /\ call'[s] = call[s]
      BY <1>18 DEF Die, Returns, TypeOK
    <3> QED
      BY <3>1, <3>2 DEF NoLostWake
  <2> QED
    BY <2>1, <2>2
<1> QED
  BY <1>u, <1>1, <1>2, <1>3, <1>4, <1>5, <1>6, <1>7, <1>8, <1>9, <1>10, <1>11,
     <1>12, <1>13, <1>14, <1>15, <1>16, <1>17, <1>18
     DEF Next, Calling, Runs, Clock, Kernel

\* The inductive invariant.
THEOREM FlagInvariant == Spec => []FlagInv
<1>1. Init => FlagInv
  BY TypeInit, SleepInit, WakeInit DEF FlagInv
<1>2. FlagInv /\ [Next]_vars => FlagInv'
  BY TypeNext, SleepNext, WakeNext DEF FlagInv
<1> QED
  BY <1>1, <1>2, PTL DEF Spec

\* A thread never sleeps on a bit that is set unless the wake-up for it is on
\* its way, or was on its way in a process that died.
THEOREM NoWakeIsLost == Spec => []NoLostWake
<1>1. FlagInv => NoLostWake
  BY DEF FlagInv
<1> QED
  BY <1>1, FlagInvariant, PTL

\* With no process killed there is no exception: the deferred wake that wake()
\* leaves to the thread that set the bit always suffices.
THEOREM DeferredWakesAreEnough ==
    ASSUME CanDie = FALSE
    PROVE  Spec => []DeferredWakesSuffice
<1> DEFINE Inv == FlagInv /\ orphaned = {}
<1>1. Init => Inv
  BY TypeInit, SleepInit, WakeInit DEF FlagInv, Init
<1>2. Inv /\ [Next]_vars => Inv'
  <2> SUFFICES ASSUME Inv, [Next]_vars PROVE Inv'
    OBVIOUS
  <2>1. FlagInv'
    BY TypeNext, SleepNext, WakeNext DEF FlagInv
  <2>2. orphaned' = {}
    BY DEF Next, Calling, Runs, Clock, Kernel, WakeDeferred, WakePosts, WaitStarts,
           FutexWake, LoopTimesOut, WaitRefused, PollFinds, PollFindsNothing,
           ClearMask, FutexSleeps, FutexAgain, FakeFutex, AwakeFinds,
           AwakeFindsNothing, Fails, Expire, FutexTimesOut, FutexInterrupted,
           FutexSpurious, Die, vars
  <2> QED
    BY <2>1, <2>2
<1>3. Inv => DeferredWakesSuffice
  BY DEF FlagInv, NoLostWake, DeferredWakesSuffice
<1> QED
  BY <1>1, <1>2, <1>3, PTL DEF Spec

-----------------------------------------------------------------------------
\* Each bit that is cleared is reported, once.

Reported == UNION {efState'[t] : t \in {u \in Threads : Reporting(u)}}

\* Every other thread stays in its place or, asleep, is woken.
OthersStay(t) == \A s \in Threads \ {t} : at'[s] = at[s] \/ at'[s] = "awake"

LEMMA NobodyReports ==
    ASSUME NEW t \in Threads, OthersStay(t), ~Reporting(t)
    PROVE  Reported = {}
<1>1. \A s \in Threads : ~Reporting(s)
  BY DEF OthersStay, Reporting, InWait
<1> QED
  BY <1>1 DEF Reported

LEMMA OneReports ==
    ASSUME NEW t \in Threads, OthersStay(t), Reporting(t)
    PROVE  Reported = efState'[t]
<1>1. {u \in Threads : Reporting(u)} = {t}
  BY DEF OthersStay, Reporting, InWait
<1> QED
  BY <1>1 DEF Reported

\* A step of wait() that clears no bit reports none.
LEMMA EmptyReport ==
    ASSUME TypeOK, NEW t \in Threads, NEW s, Returns(t, s, {}), UNCHANGED word
    PROVE  word \ word' = Reported
<1>1. OthersStay(t) /\ efState'[t] = {}
  BY DEF Returns, OthersStay, TypeOK
<1>2. Reported = {}
  BY <1>1, NobodyReports, OneReports
<1> QED
  BY <1>2

LEMMA FailsReport ==
    ASSUME TypeOK, NEW t \in Threads, NEW error, Fails(t, error)
    PROVE  word \ word' = Reported
<1>1. CASE call[t].retry
  <2>1. OthersStay(t) /\ ~Reporting(t) /\ word' = word
    BY <1>1 DEF Fails, OthersStay, Reporting, InWait, TypeOK
  <2> QED
    BY <2>1, NobodyReports
<1>2. CASE ~call[t].retry
  BY <1>2, EmptyReport DEF Fails
<1> QED
  BY <1>1, <1>2

LEMMA FoundReport ==
    ASSUME TypeOK, NEW t \in Threads, InWait(t), ClearMask(t),
           Returns(t, "NO_ERROR", SetBits(t))
    PROVE  word \ word' = Reported
<1>1. OthersStay(t) /\ Reporting(t) /\ efState'[t] = SetBits(t)
  BY DEF Returns, OthersStay, Reporting, TypeOK
<1>2. word \ word' = SetBits(t)
  BY DEF ClearMask, SetBits
<1> QED
  BY <1>1, <1>2, OneReports

\* A step of t that neither clears a bit nor leaves wait().
LEMMA QuietReport ==
    ASSUME NEW t \in Threads, OthersStay(t), ~Reporting(t), word \subseteq word'
    PROVE  word \ word' = Reported
  BY NobodyReports

LEMMA ReportNext == TypeOK /\ Next => word \ word' = Reported
<1> SUFFICES ASSUME TypeOK, Next PROVE word \ word' = Reported
  OBVIOUS
<1>1. ASSUME NEW t \in Threads, NEW m \in Masks, WakeDeferred(t, m)
      PROVE  word \ word' = Reported
  BY <1>1, QuietReport
     DEF WakeDeferred, Returns, OthersStay, Reporting, InWait, TypeOK
<1>2. ASSUME NEW t \in Threads, NEW m \in Masks, WakePosts(t, m)
      PROVE  word \ word' = Reported
  BY <1>2, QuietReport
     DEF WakePosts, Starts, OthersStay, Reporting, InWait, TypeOK
<1>3. ASSUME NEW t \in Threads, NEW m \in Masks, NEW timed \in Timeouts,
             NEW retry \in Retries, WaitStarts(t, m, timed, retry)
      PROVE  word \ word' = Reported
  BY <1>3, QuietReport
     DEF WaitStarts, Starts, OthersStay, Reporting, InWait, TypeOK
<1>4. ASSUME NEW t \in Threads, FutexWake(t) PROVE word \ word' = Reported
  BY <1>4, QuietReport DEF FutexWake, OthersStay, Reporting, InWait, TypeOK
<1>5. ASSUME NEW t \in Threads, LoopTimesOut(t) PROVE word \ word' = Reported
  BY <1>5, EmptyReport DEF LoopTimesOut
<1>6. ASSUME NEW t \in Threads, WaitRefused(t) PROVE word \ word' = Reported
  BY <1>6, EmptyReport DEF WaitRefused
<1>7. ASSUME NEW t \in Threads, PollFinds(t) PROVE word \ word' = Reported
  BY <1>7, FoundReport DEF PollFinds, InWait
<1>8. ASSUME NEW t \in Threads, PollFindsNothing(t) PROVE word \ word' = Reported
  BY <1>8, QuietReport
     DEF PollFindsNothing, SetBits, ClearMask, OthersStay, Reporting, TypeOK
<1>9. ASSUME NEW t \in Threads, FutexSleeps(t) PROVE word \ word' = Reported
  BY <1>9, QuietReport DEF FutexSleeps, OthersStay, Reporting, TypeOK
<1>10. ASSUME NEW t \in Threads, FutexAgain(t) PROVE word \ word' = Reported
  BY <1>10, FailsReport DEF FutexAgain
<1>11. ASSUME NEW t \in Threads, FakeFutex(t) PROVE word \ word' = Reported
  BY <1>11, QuietReport DEF FakeFutex, OthersStay, Reporting, TypeOK
<1>12. ASSUME NEW t \in Threads, AwakeFinds(t) PROVE word \ word' = Reported
  BY <1>12, FoundReport DEF AwakeFinds, InWait
<1>13. ASSUME NEW t \in Threads, AwakeFindsNothing(t) PROVE word \ word' = Reported
  BY <1>13, FailsReport DEF AwakeFindsNothing
<1>14. ASSUME NEW t \in Threads, Expire(t) PROVE word \ word' = Reported
  BY <1>14, QuietReport DEF Expire, OthersStay, Reporting, InWait
<1>15. ASSUME NEW t \in Threads, FutexTimesOut(t) PROVE word \ word' = Reported
  BY <1>15, EmptyReport DEF FutexTimesOut
<1>16. ASSUME NEW t \in Threads, FutexInterrupted(t) PROVE word \ word' = Reported
  BY <1>16, FailsReport DEF FutexInterrupted
<1>17. ASSUME NEW t \in Threads, FutexSpurious(t) PROVE word \ word' = Reported
  BY <1>17, QuietReport DEF FutexSpurious, OthersStay, Reporting, TypeOK
<1>18. ASSUME NEW t \in Threads, Die(t) PROVE word \ word' = Reported
  BY <1>18, EmptyReport DEF Die
<1> QED
  BY <1>1, <1>2, <1>3, <1>4, <1>5, <1>6, <1>7, <1>8, <1>9, <1>10, <1>11,
     <1>12, <1>13, <1>14, <1>15, <1>16, <1>17, <1>18
     DEF Next, Calling, Runs, Clock, Kernel

\* No notification is dropped and none is delivered twice.
THEOREM BitsAreReportedOnce == Spec => EachBitReportedOnce
<1>1. TypeOK /\ [Next]_vars =>
        [word \ word' = UNION {efState'[t] : t \in {u \in Threads : Reporting(u)}}]_vars
  BY ReportNext DEF Reported
<1> QED
  BY <1>1, TypeCorrect, PTL DEF Spec, EachBitReportedOnce
-----------------------------------------------------------------------------
\* What the retry loop hides.

\* t is the only thread whose wait() may end here, and if it ends it does not
\* end in an error that another round could have avoided.
EndsWell(t) ==
    OthersStay(t) /\ (Reporting(t) /\ call[t].retry => status'[t] \notin {"EAGAIN", "EINTR"})

LEMMA FailsEndsWell ==
    ASSUME TypeOK, NEW t \in Threads, NEW error, Fails(t, error)
    PROVE  EndsWell(t)
<1>1. CASE call[t].retry
  BY <1>1 DEF Fails, EndsWell, OthersStay, Reporting, TypeOK
<1>2. CASE ~call[t].retry
  BY <1>2 DEF Fails, Returns, EndsWell, OthersStay, Reporting, TypeOK
<1> QED
  BY <1>1, <1>2

LEMMA ReturnsEndsWell ==
    ASSUME TypeOK, NEW t \in Threads, NEW s, NEW bits, Returns(t, s, bits),
           s \notin {"EAGAIN", "EINTR"}
    PROVE  EndsWell(t)
  BY DEF Returns, EndsWell, OthersStay, Reporting, TypeOK

\* A step after which t is still, or was never, in wait().
LEMMA StaysEndsWell ==
    ASSUME NEW t \in Threads, OthersStay(t), ~Reporting(t)
    PROVE  EndsWell(t)
  BY DEF EndsWell

LEMMA EveryStepEndsWell == TypeOK /\ Next => \E t \in Threads : EndsWell(t)
<1> SUFFICES ASSUME TypeOK, Next PROVE \E t \in Threads : EndsWell(t)
  OBVIOUS
<1>1. ASSUME NEW t \in Threads, NEW m \in Masks, WakeDeferred(t, m) PROVE EndsWell(t)
  BY <1>1, ReturnsEndsWell DEF WakeDeferred
<1>2. ASSUME NEW t \in Threads, NEW m \in Masks, WakePosts(t, m) PROVE EndsWell(t)
  BY <1>2, StaysEndsWell DEF WakePosts, Starts, OthersStay, Reporting, InWait, TypeOK
<1>3. ASSUME NEW t \in Threads, NEW m \in Masks, NEW timed \in Timeouts,
             NEW retry \in Retries, WaitStarts(t, m, timed, retry)
      PROVE  EndsWell(t)
  BY <1>3, StaysEndsWell DEF WaitStarts, Starts, OthersStay, Reporting, InWait, TypeOK
<1>4. ASSUME NEW t \in Threads, FutexWake(t) PROVE EndsWell(t)
  BY <1>4, StaysEndsWell DEF FutexWake, OthersStay, Reporting, InWait, TypeOK
<1>5. ASSUME NEW t \in Threads,
             LoopTimesOut(t) \/ WaitRefused(t) \/ PollFinds(t) \/ AwakeFinds(t)
               \/ FutexTimesOut(t) \/ Die(t)
      PROVE  EndsWell(t)
  BY <1>5, ReturnsEndsWell
     DEF LoopTimesOut, WaitRefused, PollFinds, AwakeFinds, FutexTimesOut, Die
<1>6. ASSUME NEW t \in Threads, PollFindsNothing(t) PROVE EndsWell(t)
  BY <1>6, StaysEndsWell DEF PollFindsNothing, OthersStay, Reporting, TypeOK
<1>7. ASSUME NEW t \in Threads, FutexSleeps(t) \/ FakeFutex(t) \/ FutexSpurious(t)
      PROVE  EndsWell(t)
  BY <1>7, StaysEndsWell
     DEF FutexSleeps, FakeFutex, FutexSpurious, OthersStay, Reporting, TypeOK
<1>8. ASSUME NEW t \in Threads,
             FutexAgain(t) \/ FutexInterrupted(t) \/ AwakeFindsNothing(t)
      PROVE  EndsWell(t)
  BY <1>8, FailsEndsWell DEF FutexAgain, FutexInterrupted, AwakeFindsNothing
<1>9. ASSUME NEW t \in Threads, Expire(t) PROVE EndsWell(t)
  BY <1>9, StaysEndsWell DEF Expire, OthersStay, Reporting, InWait
<1> QED
  BY <1>1, <1>2, <1>3, <1>4, <1>5, <1>6, <1>7, <1>8, <1>9
     DEF Next, Calling, Runs, Clock, Kernel

\* A wait() that retries never ends in an error it retries on: EAGAIN and EINTR
\* stay inside the loop whichever way the futex call ends.
THEOREM SpuriousIsHidden == Spec => RetryHidesSpurious
<1> DEFINE Hides == \A t \in Threads : Reporting(t) /\ call[t].retry =>
                        status'[t] \notin {"EAGAIN", "EINTR"}
<1>1. TypeOK /\ Next => Hides
  <2> SUFFICES ASSUME TypeOK, Next, NEW t \in Threads, Reporting(t), call[t].retry
               PROVE  status'[t] \notin {"EAGAIN", "EINTR"}
    OBVIOUS
  <2>1. PICK u \in Threads : EndsWell(u)
    BY EveryStepEndsWell
  <2>2. u = t
    BY <2>1 DEF EndsWell, OthersStay, Reporting, InWait
  <2> QED
    BY <2>1, <2>2 DEF EndsWell
<1>2. TypeOK /\ [Next]_vars => [Hides]_vars
  BY <1>1
<1> QED
  BY <1>2, TypeCorrect, PTL DEF Spec, RetryHidesSpurious
=============================================================================
