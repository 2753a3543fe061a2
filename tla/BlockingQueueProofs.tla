-------------------------- MODULE BlockingQueueProofs --------------------------
(***************************************************************************)
(* Theorems about BlockingQueue for any number of queues, any capacity and *)
(* counts, any notification masks and any set of parties that may be       *)
(* killed.  What holds of the EventFlag they share is not proved again:    *)
(* every step of a party is a step of EventFlag as its theorems know it.   *)
(***************************************************************************)
EXTENDS BlockingQueue, TLAPS

\* EventFlag with its theorems, open to calls with any arguments.
FP == INSTANCE EventFlagProofs WITH Threads <- Parties, Masks <- SUBSET Bits,
          Timeouts <- BOOLEAN, Retries <- BOOLEAN, CanDie <- Mortal # {}

\* The places of a call in the loop: it has not succeeded yet.
Trying == {"looping", "waiting"}

\* A party is inside EventFlag only in its wait() or wake(), with the arguments
\* the queue gives it; and it waits only if there is something to wait on.
CallInv ==
    \A p \in Parties :
        /\ pc[p] # "idle" => WaitMask(p) # {}
        /\ pc[p] \notin {"waiting", "waking"} => at[p] = "out"
        /\ pc[p] = "waking" => at[p] \in {"out", "posted"}
        /\ pc[p] = "waiting" => at[p] # "posted"
        /\ at[p] = "posted" => ~call[p].timed
        /\ pc[p] = "waiting" /\ at[p] # "out" =>
             call[p].mask = WaitMask(p) /\ call[p].retry
        /\ pc[p] = "waiting" /\ at[p] = "out" =>
             \/ status[p] = "TIMED_OUT"
             \/ status[p] = "NO_ERROR" /\ efState[p] \cap WaitMask(p) # {}

\* What an attempt has found is still there when it commits: the other side
\* only adds to it.
FoundInv == \A p \in Parties : pc[p] = "moving" => Ready(p, count[p])

\* The counter moves once in a call that succeeds, and not in another.
MovedInv ==
    \A p \in Parties :
        /\ pc[p] = "idle" => result[p] = moved[p]
        /\ pc[p] \in Trying \cup {"moving"} => ~moved[p]
        /\ pc[p] \in {"notifying", "waking"} => moved[p]

\* NotificationPending from the failed attempt on.
PendingInv ==
    \A p \in Parties :
        pc[p] \in Trying /\ Ready(p, count[p]) =>
            \/ pc[p] = "waiting" /\ at[p] = "out"
            \/ word \cap WaitMask(p) # {}
            \/ pc[Peer(p)] = "notifying"
            \/ p \in owed

QueueTyped ==
    /\ level \in [Queues -> 0..Capacity]
    /\ pc \in [Parties -> Places]
    /\ count \in [Parties -> 0..Capacity]
    /\ deadline \in [Parties -> BOOLEAN]
    /\ over \in [Parties -> BOOLEAN]
    /\ result \in [Parties -> BOOLEAN]
    /\ moved \in [Parties -> BOOLEAN]
    /\ owed \subseteq Parties

\* The inductive invariant.
QueueInv == QueueTyped /\ FP!FlagInv /\ CallInv /\ FoundInv /\ MovedInv

LEMMA Masks ==
    ASSUME NEW p \in Parties
    PROVE  /\ Queue(p) \in Queues /\ Peer(p) \in Parties /\ Peer(p) # p
           /\ Queue(Peer(p)) = Queue(p) /\ Peer(Peer(p)) = p
           /\ Side(Peer(p)) = "writer" <=> Side(p) # "writer"
           /\ WaitMask(p) \in SUBSET Bits /\ WakeMask(p) \in SUBSET Bits
<1>1. PICK side \in {"writer", "reader"}, q \in Queues : p = <<side, q>>
  BY DEF Parties
<1>2. Side(p) = side /\ Queue(p) = q
      /\ Peer(p) = <<IF side = "writer" THEN "reader" ELSE "writer", q>>
  BY <1>1 DEF Side, Queue, Peer
<1>3. Side(Peer(p)) = (IF side = "writer" THEN "reader" ELSE "writer")
      /\ Queue(Peer(p)) = q
  BY <1>2 DEF Side, Queue
<1>4. Peer(p) \in Parties /\ Peer(p) # p
  BY <1>1, <1>2 DEF Parties
<1>5. Peer(Peer(p)) = p
  BY <1>1, <1>3 DEF Peer
<1>6. \A r \in Parties : Queue(r) \in Queues => WaitMask(r) \in SUBSET Bits
  BY BlockingAssumption DEF WaitMask
<1> QED
  BY <1>1, <1>2, <1>3, <1>4, <1>5, <1>6 DEF WakeMask

-----------------------------------------------------------------------------
\* The event flag in the queue.

LEMMA SameTypes == EF!TypeOK <=> FP!TypeOK
  BY DEF EF!TypeOK, FP!TypeOK, EF!InWait, FP!InWait, EF!Calls, FP!Calls,
         EF!NoCall, FP!NoCall

LEMMA FlagStep == FP!FlagInv /\ FP!Next => FP!FlagInv'
  BY FP!TypeNext, FP!SleepNext, FP!WakeNext, BlockingAssumption DEF FP!FlagInv

\* A step of a thread inside the library.
Library(p) == EF!Runs(p) \/ EF!FutexTimesOut(p) \/ EF!Kernel(p)

LEMMA LibraryIsFlag ==
    ASSUME NEW p \in Parties, Library(p)
    PROVE  FP!Next
<1>1. EF!FutexWake(p) => FP!Runs(p)
  BY DEF EF!FutexWake, FP!FutexWake, EF!Sleepers, FP!Sleepers, EF!NoCall, FP!NoCall,
         FP!Runs
<1>2. EF!LoopTimesOut(p) => FP!Runs(p)
  BY DEF EF!LoopTimesOut, FP!LoopTimesOut, EF!TimeUp, FP!TimeUp, EF!Returns, FP!Returns,
         EF!NoCall, FP!NoCall, FP!Runs
<1>3. EF!WaitRefused(p) => FP!Runs(p)
  BY DEF EF!WaitRefused, FP!WaitRefused, EF!TimeUp, FP!TimeUp, EF!Returns, FP!Returns,
         EF!BadMask, FP!BadMask, EF!NoCall, FP!NoCall, FP!Runs
<1>4. EF!PollFinds(p) => FP!Runs(p)
  BY DEF EF!PollFinds, FP!PollFinds, EF!TimeUp, FP!TimeUp, EF!Returns, FP!Returns,
         EF!SetBits, FP!SetBits, EF!ClearMask, FP!ClearMask, EF!NoCall, FP!NoCall, FP!Runs
<1>5. EF!PollFindsNothing(p) => FP!Runs(p)
  BY DEF EF!PollFindsNothing, FP!PollFindsNothing, EF!TimeUp, FP!TimeUp,
         EF!SetBits, FP!SetBits, EF!ClearMask, FP!ClearMask, EF!BadMask, FP!BadMask,
         FP!Runs
<1>6. EF!FutexSleeps(p) => FP!Runs(p)
  BY DEF EF!FutexSleeps, FP!FutexSleeps, EF!AsExpected, FP!AsExpected,
         EF!calls, FP!calls, FP!Runs
<1>7. \A error : EF!Fails(p, error) <=> FP!Fails(p, error)
  BY DEF EF!Fails, FP!Fails, EF!Returns, FP!Returns, EF!NoCall, FP!NoCall
<1>8. EF!FutexAgain(p) => FP!Runs(p)
  BY <1>7 DEF EF!FutexAgain, FP!FutexAgain, EF!AsExpected, FP!AsExpected, FP!Runs
<1>9. EF!FakeFutex(p) => FP!Runs(p)
  BY DEF EF!FakeFutex, FP!FakeFutex, EF!calls, FP!calls, FP!Runs
<1>10. EF!AwakeFinds(p) => FP!Runs(p)
  BY DEF EF!AwakeFinds, FP!AwakeFinds, EF!Returns, FP!Returns,
         EF!SetBits, FP!SetBits, EF!ClearMask, FP!ClearMask, EF!NoCall, FP!NoCall, FP!Runs
<1>11. EF!AwakeFindsNothing(p) => FP!Runs(p)
  BY <1>7 DEF EF!AwakeFindsNothing, FP!AwakeFindsNothing, EF!SetBits, FP!SetBits, FP!Runs
<1>12. EF!FutexTimesOut(p) => FP!Clock(p)
  BY DEF EF!FutexTimesOut, FP!FutexTimesOut, EF!Returns, FP!Returns,
         EF!NoCall, FP!NoCall, FP!Clock
<1>13. EF!FutexInterrupted(p) => FP!Kernel(p)
  BY <1>7 DEF EF!FutexInterrupted, FP!FutexInterrupted, FP!Kernel
<1>14. EF!FutexSpurious(p) => FP!Kernel(p)
  BY DEF EF!FutexSpurious, FP!FutexSpurious, EF!calls, FP!calls, FP!Kernel
<1>15. FP!Runs(p) \/ FP!Clock(p) \/ FP!Kernel(p)
  BY <1>1, <1>2, <1>3, <1>4, <1>5, <1>6, <1>8, <1>9, <1>10, <1>11, <1>12, <1>13, <1>14
     DEF Library, EF!Runs, EF!Kernel
<1> QED
  BY <1>15 DEF FP!Next
\* The calls the queue makes.
LEMMA CallIsFlag ==
    ASSUME NEW p \in Parties, NEW m \in SUBSET Bits, NEW timed \in BOOLEAN,
           EF!WakeDeferred(p, m) \/ EF!WakePosts(p, m) \/ EF!WaitStarts(p, m, timed, TRUE)
    PROVE  FP!Next
<1>1. EF!WakeDeferred(p, m) => FP!WakeDeferred(p, m)
  BY DEF EF!WakeDeferred, FP!WakeDeferred, EF!MustWake, FP!MustWake, EF!Returns,
         FP!Returns, EF!NoCall, FP!NoCall
<1>2. EF!WakePosts(p, m) => FP!WakePosts(p, m)
  BY DEF EF!WakePosts, FP!WakePosts, EF!MustWake, FP!MustWake, EF!Starts, FP!Starts
<1>3. EF!WaitStarts(p, m, timed, TRUE) => FP!WaitStarts(p, m, timed, TRUE)
  BY DEF EF!WaitStarts, FP!WaitStarts, EF!Starts, FP!Starts
<1>4. FP!Calling(p)
  BY <1>1, <1>2, <1>3 DEF FP!Calling
<1> QED
  BY <1>4 DEF FP!Next

LEMMA DieIsFlag ==
    ASSUME NEW p \in Parties, p \in Mortal, EF!Die(p)
    PROVE  FP!Next
<1>1. FP!Die(p)
  BY DEF EF!Die, FP!Die, EF!Returns, FP!Returns, EF!NoCall, FP!NoCall
<1> QED
  BY <1>1 DEF FP!Next

LEMMA FlagStutters == FP!FlagInv /\ UNCHANGED flag => FP!FlagInv'
<1>1. UNCHANGED flag => UNCHANGED FP!vars
  BY DEF flag, FP!vars, FP!calls
<1> QED
  BY <1>1, FP!TypeNext, FP!SleepNext, FP!WakeNext, BlockingAssumption DEF FP!FlagInv

\* The locals of a call that is over are no part of what the flag relies on.
LEMMA ForgetsKeepsFlag ==
    ASSUME FP!FlagInv, NEW p \in Parties, Forgets(p)
    PROVE  FP!FlagInv'
<1>1. FP!TypeOK'
  BY DEF Forgets, FP!FlagInv, FP!TypeOK, FP!InWait
<1>2. FP!SleepInv' /\ FP!NoLostWake'
  BY DEF Forgets, FP!FlagInv, FP!SleepInv, FP!NoLostWake
<1> QED
  BY <1>1, <1>2 DEF FP!FlagInv

LEMMA ExpireKeepsFlag ==
    ASSUME FP!FlagInv, CallInv, NEW p \in Parties, Expire(p)
    PROVE  FP!FlagInv'
<1>1. call[p].timed => at[p] \in {"polling", "polled", "asleep", "awake"}
  BY DEF FP!FlagInv, FP!TypeOK, FP!NoCall, CallInv
<1>2. call[p].timed \in BOOLEAN
  BY DEF FP!FlagInv, FP!TypeOK, FP!Calls
<1>3. FP!TypeOK'
  BY <1>1, <1>2 DEF Expire, FP!FlagInv, FP!TypeOK, FP!InWait
<1>4. FP!SleepInv' /\ FP!NoLostWake'
  BY DEF Expire, FP!FlagInv, FP!SleepInv, FP!NoLostWake
<1> QED
  BY <1>3, <1>4 DEF FP!FlagInv

LEMMA FlagNext == QueueInv /\ [Next]_vars => FP!FlagInv'
<1> SUFFICES ASSUME QueueInv, [Next]_vars PROVE FP!FlagInv'
  OBVIOUS
<1> USE DEF QueueInv
<1>u. CASE UNCHANGED vars
  BY <1>u, FlagStutters DEF vars
<1>1. ASSUME NEW p \in Parties, NEW n, CallRefused(p, n) PROVE FP!FlagInv'
  BY <1>1, FlagStutters DEF CallRefused
<1>2. ASSUME NEW p \in Parties, NEW n, NEW timed, Call(p, n, timed) PROVE FP!FlagInv'
  BY <1>2, FlagStutters DEF Call
<1>3. ASSUME NEW p \in Parties, Move(p) PROVE FP!FlagInv'
  BY <1>3, FlagStutters DEF Move
<1>4. ASSUME NEW p \in Parties, Notify(p) PROVE FP!FlagInv'
  BY <1>4, Masks, CallIsFlag, FlagStep DEF Notify
<1>5. ASSUME NEW p \in Parties, WakeReturns(p) PROVE FP!FlagInv'
  BY <1>5, ForgetsKeepsFlag DEF WakeReturns
<1>6. ASSUME NEW p \in Parties, LastAttempt(p) PROVE FP!FlagInv'
  BY <1>6, FlagStutters DEF LastAttempt
<1>7. ASSUME NEW p \in Parties, Wait(p) PROVE FP!FlagInv'
  BY <1>7, Masks, CallIsFlag, FlagStep DEF Wait, QueueTyped
<1>8. ASSUME NEW p \in Parties, WaitFinds(p) PROVE FP!FlagInv'
  BY <1>8, ForgetsKeepsFlag DEF WaitFinds
<1>9. ASSUME NEW p \in Parties, WaitTimedOut(p) PROVE FP!FlagInv'
  BY <1>9, ForgetsKeepsFlag DEF WaitTimedOut
<1>10. ASSUME NEW p \in Parties, Library(p) PROVE FP!FlagInv'
  BY <1>10, LibraryIsFlag, FlagStep
<1>11. ASSUME NEW p \in Parties, Expire(p) PROVE FP!FlagInv'
  BY <1>11, ExpireKeepsFlag
<1>12. ASSUME NEW p \in Parties, Die(p) PROVE FP!FlagInv'
  BY <1>12, DieIsFlag, FlagStep, ForgetsKeepsFlag DEF Die
<1> QED
  BY <1>u, <1>1, <1>2, <1>3, <1>4, <1>5, <1>6, <1>7, <1>8, <1>9, <1>10, <1>11, <1>12,
     BlockingAssumption DEF Next, Calling, Steps, Clock, Kernel, Library
-----------------------------------------------------------------------------
\* What a step in the library does to the call it is in, and to others.
OthersOnlyWoken(p) ==
    \A s \in Parties \ {p} :
        /\ call'[s] = call[s] /\ status'[s] = status[s] /\ efState'[s] = efState[s]
        /\ at'[s] = at[s] \/ (at[s] = "asleep" /\ at'[s] = "awake")

Proceeds(p) ==
    /\ at[p] # "out"
    /\ at[p] = "posted" => at'[p] = "out"
    /\ at[p] # "posted" => at'[p] # "posted"
    /\ at'[p] # "out" => call'[p] = call[p]

\* wait() ends in a timeout or with a bit it waited for.
Answered(p) ==
    at[p] # "posted" /\ at'[p] = "out" /\ call[p].retry /\ call[p].mask # {} =>
        \/ status'[p] = "TIMED_OUT"
        \/ status'[p] = "NO_ERROR" /\ efState'[p] \cap call[p].mask # {}

\* Who clears a bit leaves wait() with it.
ClearsOwn(p) ==
    \/ word' = word
    \/ at[p] # "posted" /\ at'[p] = "out" /\ word' = word \ call[p].mask

LEMMA FailsEffect ==
    ASSUME FP!TypeOK, NEW p \in Parties, NEW error, EF!Fails(p, error),
           at[p] \notin {"out", "posted"}
    PROVE  OthersOnlyWoken(p) /\ Proceeds(p) /\ Answered(p) /\ ClearsOwn(p)
<1>1. CASE call[p].retry
  BY <1>1 DEF EF!Fails, FP!TypeOK, OthersOnlyWoken, Proceeds, Answered, ClearsOwn
<1>2. CASE ~call[p].retry
  BY <1>2 DEF EF!Fails, EF!Returns, FP!TypeOK, OthersOnlyWoken, Proceeds, Answered,
              ClearsOwn
<1> QED
  BY <1>1, <1>2

LEMMA LibraryEffect ==
    ASSUME FP!TypeOK, NEW p \in Parties, Library(p)
    PROVE  OthersOnlyWoken(p) /\ Proceeds(p) /\ Answered(p) /\ ClearsOwn(p)
<1> DEFINE Goal == OthersOnlyWoken(p) /\ Proceeds(p) /\ Answered(p) /\ ClearsOwn(p)
<1>1. EF!FutexWake(p) => Goal
  BY DEF EF!FutexWake, EF!Sleepers, FP!TypeOK, OthersOnlyWoken, Proceeds, Answered,
         ClearsOwn
<1>2. EF!LoopTimesOut(p) => Goal
  BY DEF EF!LoopTimesOut, EF!Returns, FP!TypeOK, OthersOnlyWoken, Proceeds, Answered,
         ClearsOwn
<1>3. EF!WaitRefused(p) => Goal
  BY DEF EF!WaitRefused, EF!BadMask, EF!Returns, FP!TypeOK, OthersOnlyWoken, Proceeds,
         Answered, ClearsOwn
<1>4. EF!PollFinds(p) => Goal
  BY DEF EF!PollFinds, EF!SetBits, EF!ClearMask, EF!Returns, FP!TypeOK, OthersOnlyWoken,
         Proceeds, Answered, ClearsOwn
<1>5. EF!PollFindsNothing(p) => Goal
  BY DEF EF!PollFindsNothing, EF!SetBits, EF!ClearMask, FP!TypeOK, OthersOnlyWoken,
         Proceeds, Answered, ClearsOwn
<1>6. EF!FutexSleeps(p) => Goal
  BY DEF EF!FutexSleeps, EF!calls, FP!TypeOK, OthersOnlyWoken, Proceeds, Answered,
         ClearsOwn
<1>7. EF!FutexAgain(p) => Goal
  BY FailsEffect DEF EF!FutexAgain
<1>8. EF!FakeFutex(p) => Goal
  BY DEF EF!FakeFutex, EF!calls, FP!TypeOK, OthersOnlyWoken, Proceeds, Answered,
         ClearsOwn
<1>9. EF!AwakeFinds(p) => Goal
  BY DEF EF!AwakeFinds, EF!SetBits, EF!ClearMask, EF!Returns, FP!TypeOK, OthersOnlyWoken,
         Proceeds, Answered, ClearsOwn
<1>10. EF!AwakeFindsNothing(p) => Goal
  BY FailsEffect DEF EF!AwakeFindsNothing
<1>11. EF!FutexTimesOut(p) => Goal
  BY DEF EF!FutexTimesOut, EF!Returns, FP!TypeOK, OthersOnlyWoken, Proceeds, Answered,
         ClearsOwn
<1>12. EF!FutexInterrupted(p) => Goal
  BY FailsEffect DEF EF!FutexInterrupted
<1>13. EF!FutexSpurious(p) => Goal
  BY DEF EF!FutexSpurious, EF!calls, FP!TypeOK, OthersOnlyWoken, Proceeds, Answered,
         ClearsOwn
<1> QED
  BY <1>1, <1>2, <1>3, <1>4, <1>5, <1>6, <1>7, <1>8, <1>9, <1>10, <1>11, <1>12, <1>13
     DEF Library, EF!Runs, EF!Kernel

-----------------------------------------------------------------------------
\* The inductive step, part by part.

LEMMA QueueTypedNext == QueueInv /\ [Next]_vars => QueueTyped'
<1> SUFFICES ASSUME QueueInv, [Next]_vars PROVE QueueTyped'
  OBVIOUS
<1> USE DEF QueueInv
<1>z. 0 \in 0..Capacity
  BY BlockingAssumption
<1>u. CASE UNCHANGED vars
  BY <1>u DEF vars, queue, QueueTyped
<1>1. ASSUME NEW p \in Parties, NEW n, CallRefused(p, n) PROVE QueueTyped'
  BY <1>1, <1>z DEF CallRefused, Returns, Leaves, Goto, QueueTyped, Places
<1>2. ASSUME NEW p \in Parties, NEW n \in Sizes, NEW timed \in Timeouts,
             Call(p, n, timed)
      PROVE  QueueTyped'
  <2>1. n \in 0..Capacity /\ timed \in BOOLEAN
    BY <1>2, BlockingAssumption DEF Call, Refused
  <2> QED
    BY <1>2, <2>1 DEF Call, Goto, QueueTyped, Places
<1>3. ASSUME NEW p \in Parties, Move(p) PROVE QueueTyped'
  <2>1. Ready(p, count[p]) /\ Queue(p) \in Queues
    BY <1>3, Masks DEF Move, FoundInv
  <2>2. level' \in [Queues -> 0..Capacity]
    <3>1. level[Queue(p)] \in 0..Capacity /\ count[p] \in 0..Capacity
      BY <2>1 DEF QueueTyped
    <3>2. IF Side(p) = "writer" THEN level[Queue(p)] + count[p] \in 0..Capacity
          ELSE level[Queue(p)] - count[p] \in 0..Capacity
      BY <2>1, <3>1, BlockingAssumption DEF Ready
    <3> QED
      BY <1>3, <3>2 DEF Move, QueueTyped
  <2> QED
    BY <1>3, <1>z, <2>2 DEF Move, Returns, Leaves, Goto, QueueTyped, Places
<1>4. ASSUME NEW p \in Parties, Notify(p) PROVE QueueTyped'
  BY <1>4 DEF Notify, Goto, QueueTyped, Places
<1>5. ASSUME NEW p \in Parties, WakeReturns(p) PROVE QueueTyped'
  BY <1>5, <1>z DEF WakeReturns, Returns, Leaves, Goto, QueueTyped, Places
<1>6. ASSUME NEW p \in Parties, LastAttempt(p) PROVE QueueTyped'
  BY <1>6, <1>z DEF LastAttempt, Returns, Leaves, Goto, QueueTyped, Places
<1>7. ASSUME NEW p \in Parties, Wait(p) PROVE QueueTyped'
  BY <1>7 DEF Wait, Goto, queue, QueueTyped, Places
<1>8. ASSUME NEW p \in Parties, WaitFinds(p) PROVE QueueTyped'
  BY <1>8 DEF WaitFinds, Goto, queue, QueueTyped, Places
<1>9. ASSUME NEW p \in Parties, WaitTimedOut(p) PROVE QueueTyped'
  BY <1>9, <1>z DEF WaitTimedOut, Returns, Leaves, Goto, QueueTyped, Places
<1>10. ASSUME UNCHANGED <<queue, pc>> PROVE QueueTyped'
  BY <1>10 DEF queue, QueueTyped
<1>11. ASSUME NEW p \in Parties, Expire(p) PROVE QueueTyped'
  BY <1>11 DEF Expire, QueueTyped
<1>12. ASSUME NEW p \in Parties, Die(p) PROVE QueueTyped'
  BY <1>12, <1>z, Masks DEF Die, Leaves, Goto, QueueTyped, Places
<1> QED
  BY <1>u, <1>1, <1>2, <1>3, <1>4, <1>5, <1>6, <1>7, <1>8, <1>9, <1>10, <1>11, <1>12,
     BlockingAssumption DEF Next, Calling, Steps, Clock, Kernel
LEMMA CallNext == QueueInv /\ [Next]_vars => CallInv'
<1> SUFFICES ASSUME QueueInv, [Next]_vars PROVE CallInv'
  OBVIOUS
<1> USE DEF QueueInv
<1>t. /\ QueueTyped /\ CallInv
      /\ \A p \in Parties : WaitMask(p)' = WaitMask(p)
  BY DEF WaitMask
<1>u. CASE UNCHANGED vars
  BY <1>u DEF vars, queue, flag, CallInv, WaitMask
<1>1. ASSUME NEW p \in Parties, NEW n, CallRefused(p, n) PROVE CallInv'
  BY <1>1, <1>t DEF CallRefused, Returns, Leaves, Goto, flag, QueueTyped, CallInv
<1>2. ASSUME NEW p \in Parties, NEW n, NEW timed, Call(p, n, timed) PROVE CallInv'
  BY <1>2, <1>t DEF Call, Refused, Goto, flag, QueueTyped, CallInv
<1>3. ASSUME NEW p \in Parties, Move(p) PROVE CallInv'
  BY <1>3, <1>t DEF Move, Returns, Leaves, Goto, flag, QueueTyped, CallInv
<1>4. ASSUME NEW p \in Parties, Notify(p) PROVE CallInv'
  <2>1. /\ at'[p] \in {"out", "posted"} /\ (at'[p] = "posted" => ~call'[p].timed)
        /\ \A s \in Parties \ {p} : /\ at'[s] = at[s] /\ call'[s] = call[s]
                                    /\ status'[s] = status[s] /\ efState'[s] = efState[s]
    BY <1>4 DEF Notify, EF!WakeDeferred, EF!WakePosts, EF!Returns, EF!Starts,
                FP!FlagInv, FP!TypeOK
  <2>2. pc[p] = "notifying" /\ pc' = [pc EXCEPT ![p] = "waking"]
    BY <1>4 DEF Notify, Goto
  <2> QED
    BY <2>1, <2>2, <1>t DEF QueueTyped, CallInv
<1>5. ASSUME NEW p \in Parties, WakeReturns(p) PROVE CallInv'
  BY <1>5, <1>t DEF WakeReturns, Returns, Leaves, Forgets, Goto, QueueTyped, CallInv,
                    FP!FlagInv, FP!TypeOK
<1>6. ASSUME NEW p \in Parties, LastAttempt(p) PROVE CallInv'
  BY <1>6, <1>t DEF LastAttempt, Returns, Leaves, Goto, flag, QueueTyped, CallInv
<1>7. ASSUME NEW p \in Parties, Wait(p) PROVE CallInv'
  <2>1. /\ at'[p] = "polling" /\ call'[p].mask = WaitMask(p) /\ call'[p].retry
        /\ \A s \in Parties \ {p} : /\ at'[s] = at[s] /\ call'[s] = call[s]
                                    /\ status'[s] = status[s] /\ efState'[s] = efState[s]
    BY <1>7 DEF Wait, EF!WaitStarts, EF!Starts, FP!FlagInv, FP!TypeOK
  <2>2. pc[p] = "looping" /\ pc' = [pc EXCEPT ![p] = "waiting"]
    BY <1>7 DEF Wait, Goto
  <2> QED
    BY <2>1, <2>2, <1>t DEF QueueTyped, CallInv
<1>8. ASSUME NEW p \in Parties, WaitFinds(p) PROVE CallInv'
  BY <1>8, <1>t DEF WaitFinds, Forgets, Goto, QueueTyped, CallInv, FP!FlagInv, FP!TypeOK
<1>9. ASSUME NEW p \in Parties, WaitTimedOut(p) PROVE CallInv'
  BY <1>9, <1>t DEF WaitTimedOut, Returns, Leaves, Forgets, Goto, QueueTyped, CallInv,
                    FP!FlagInv, FP!TypeOK
<1>10. ASSUME NEW p \in Parties, Library(p), UNCHANGED <<queue, pc>> PROVE CallInv'
  <2>1. OthersOnlyWoken(p) /\ Proceeds(p) /\ Answered(p)
    BY <1>10, LibraryEffect DEF FP!FlagInv
  <2>2. pc' = pc
    BY <1>10
  <2>3. pc[p] \in {"waiting", "waking"}
    BY <2>1, <1>t DEF Proceeds, CallInv
  <2> QED
    BY <2>1, <2>2, <2>3, <1>t DEF OthersOnlyWoken, Proceeds, Answered, CallInv
<1>11. ASSUME NEW p \in Parties, Expire(p) PROVE CallInv'
  BY <1>11, <1>t DEF Expire, CallInv
<1>12. ASSUME NEW p \in Parties, Die(p) PROVE CallInv'
  <2>1. /\ at'[p] = "out" /\ pc' = [pc EXCEPT ![p] = "idle"]
        /\ \A s \in Parties \ {p} : /\ at'[s] = at[s] /\ call'[s] = call[s]
                                    /\ status'[s] = status[s] /\ efState'[s] = efState[s]
    BY <1>12 DEF Die, Leaves, Goto, Forgets, EF!Die, EF!Returns, FP!FlagInv, FP!TypeOK
  <2> QED
    BY <2>1, <1>t DEF QueueTyped, CallInv
<1> QED
  BY <1>u, <1>1, <1>2, <1>3, <1>4, <1>5, <1>6, <1>7, <1>8, <1>9, <1>10, <1>11, <1>12,
     BlockingAssumption DEF Next, Calling, Steps, Clock, Kernel, Library

\* A step that lets no party begin to move and moves no counter.
LEMMA FoundKept ==
    ASSUME FoundInv, UNCHANGED level,
           \A s \in Parties : pc'[s] = "moving" =>
               (pc[s] = "moving" /\ count'[s] = count[s]) \/ Ready(s, count'[s])
    PROVE  FoundInv'
  BY DEF FoundInv, Ready

LEMMA FoundNext == QueueInv /\ [Next]_vars => FoundInv'
<1> SUFFICES ASSUME QueueInv, [Next]_vars PROVE FoundInv'
  OBVIOUS
<1>t. QueueTyped /\ FoundInv
  BY DEF QueueInv
<1>u. CASE UNCHANGED vars
  BY <1>u, <1>t, FoundKept DEF vars, queue
<1>1. ASSUME NEW p \in Parties, NEW n, CallRefused(p, n) PROVE FoundInv'
  BY <1>1, <1>t, FoundKept DEF CallRefused, Returns, Leaves, Goto, QueueTyped
<1>2. ASSUME NEW p \in Parties, NEW n, NEW timed, Call(p, n, timed) PROVE FoundInv'
  BY <1>2, <1>t, FoundKept DEF Call, Goto, QueueTyped
<1>3. ASSUME NEW p \in Parties, Move(p) PROVE FoundInv'
  <2>1. ASSUME NEW s \in Parties, pc'[s] = "moving" PROVE Ready(s, count[s])'
    <3>1. pc'[p] # "moving"
      BY <1>3, <1>t DEF Move, Returns, Leaves, Goto, QueueTyped
    <3>2. s # p /\ pc[s] = "moving" /\ count'[s] = count[s]
      BY <1>3, <1>t, <2>1, <3>1 DEF Move, Returns, Leaves, Goto, QueueTyped
    <3>3. Ready(s, count[s])
      BY <3>2, <1>t DEF FoundInv
    <3>4. CASE Queue(s) # Queue(p)
      <4>1. level'[Queue(s)] = level[Queue(s)]
        BY <1>3, <1>t, <3>4, Masks DEF Move, QueueTyped
      <4> QED
        BY <3>2, <3>3, <4>1 DEF Ready
    <3>5. CASE Queue(s) = Queue(p)
      <4>1. Side(s) = "writer" <=> Side(p) # "writer"
        BY <3>2, <3>5 DEF Parties, Side, Queue
      <4>2. level[Queue(p)] \in Int /\ count[p] \in Nat /\ count[s] \in Nat
        BY <1>t, Masks DEF QueueTyped
      <4>3. level'[Queue(p)] = IF Side(p) = "writer" THEN level[Queue(p)] + count[p]
                                                     ELSE level[Queue(p)] - count[p]
        BY <1>3, <1>t, Masks DEF Move, QueueTyped
      <4> QED
        BY <3>2, <3>3, <3>5, <4>1, <4>2, <4>3, BlockingAssumption DEF Ready
    <3> QED
      BY <3>4, <3>5
  <2> QED
    BY <2>1 DEF FoundInv
<1>4. ASSUME NEW p \in Parties, Notify(p) PROVE FoundInv'
  BY <1>4, <1>t, FoundKept DEF Notify, Goto, QueueTyped
<1>5. ASSUME NEW p \in Parties, WakeReturns(p) PROVE FoundInv'
  BY <1>5, <1>t, FoundKept DEF WakeReturns, Returns, Leaves, Goto, QueueTyped
<1>6. ASSUME NEW p \in Parties, LastAttempt(p) PROVE FoundInv'
  BY <1>6, <1>t, FoundKept DEF LastAttempt, Returns, Leaves, Goto, QueueTyped
<1>7. ASSUME NEW p \in Parties, Wait(p) PROVE FoundInv'
  BY <1>7, <1>t, FoundKept DEF Wait, Goto, queue, QueueTyped
<1>8. ASSUME NEW p \in Parties, WaitFinds(p) PROVE FoundInv'
  BY <1>8, <1>t, FoundKept DEF WaitFinds, Goto, queue, QueueTyped
<1>9. ASSUME NEW p \in Parties, WaitTimedOut(p) PROVE FoundInv'
  BY <1>9, <1>t, FoundKept DEF WaitTimedOut, Returns, Leaves, Goto, QueueTyped
<1>10. ASSUME UNCHANGED <<queue, pc>> PROVE FoundInv'
  BY <1>10, <1>t, FoundKept DEF queue
<1>11. ASSUME NEW p \in Parties, Expire(p) PROVE FoundInv'
  BY <1>11, <1>t, FoundKept DEF Expire
<1>12. ASSUME NEW p \in Parties, Die(p) PROVE FoundInv'
  BY <1>12, <1>t, FoundKept DEF Die, Leaves, Goto, QueueTyped
<1> QED
  BY <1>u, <1>1, <1>2, <1>3, <1>4, <1>5, <1>6, <1>7, <1>8, <1>9, <1>10, <1>11, <1>12,
     BlockingAssumption DEF Next, Calling, Steps, Clock, Kernel
LEMMA MovedNext == QueueInv /\ [Next]_vars => MovedInv'
<1> SUFFICES ASSUME QueueInv, [Next]_vars PROVE MovedInv'
  OBVIOUS
<1>t. QueueTyped /\ MovedInv
  BY DEF QueueInv
<1> USE DEF Trying, Places
<1>u. CASE UNCHANGED vars
  BY <1>u, <1>t DEF vars, queue, MovedInv
<1>1. ASSUME NEW p \in Parties, NEW n, CallRefused(p, n) PROVE MovedInv'
  BY <1>1, <1>t DEF CallRefused, Returns, Leaves, Goto, QueueTyped, MovedInv
<1>2. ASSUME NEW p \in Parties, NEW n, NEW timed, Call(p, n, timed) PROVE MovedInv'
  BY <1>2, <1>t DEF Call, Goto, QueueTyped, MovedInv
<1>3. ASSUME NEW p \in Parties, Move(p) PROVE MovedInv'
  BY <1>3, <1>t DEF Move, Returns, Leaves, Goto, QueueTyped, MovedInv
<1>4. ASSUME NEW p \in Parties, Notify(p) PROVE MovedInv'
  BY <1>4, <1>t DEF Notify, Goto, QueueTyped, MovedInv
<1>5. ASSUME NEW p \in Parties, WakeReturns(p) PROVE MovedInv'
  BY <1>5, <1>t DEF WakeReturns, Returns, Leaves, Goto, QueueTyped, MovedInv
<1>6. ASSUME NEW p \in Parties, LastAttempt(p) PROVE MovedInv'
  BY <1>6, <1>t DEF LastAttempt, Returns, Leaves, Goto, QueueTyped, MovedInv
<1>7. ASSUME NEW p \in Parties, Wait(p) PROVE MovedInv'
  BY <1>7, <1>t DEF Wait, Goto, queue, QueueTyped, MovedInv
<1>8. ASSUME NEW p \in Parties, WaitFinds(p) PROVE MovedInv'
  BY <1>8, <1>t DEF WaitFinds, Goto, queue, QueueTyped, MovedInv
<1>9. ASSUME NEW p \in Parties, WaitTimedOut(p) PROVE MovedInv'
  BY <1>9, <1>t DEF WaitTimedOut, Returns, Leaves, Goto, QueueTyped, MovedInv
<1>10. ASSUME UNCHANGED <<queue, pc>> PROVE MovedInv'
  BY <1>10, <1>t DEF queue, MovedInv
<1>11. ASSUME NEW p \in Parties, Expire(p) PROVE MovedInv'
  BY <1>11, <1>t DEF Expire, MovedInv
<1>12. ASSUME NEW p \in Parties, Die(p) PROVE MovedInv'
  BY <1>12, <1>t DEF Die, Leaves, Goto, QueueTyped, MovedInv
<1> QED
  BY <1>u, <1>1, <1>2, <1>3, <1>4, <1>5, <1>6, <1>7, <1>8, <1>9, <1>10, <1>11, <1>12,
     BlockingAssumption DEF Next, Calling, Steps, Clock, Kernel

-----------------------------------------------------------------------------
\* The theorems.

LEMMA QueueInit == Init => QueueInv
<1> SUFFICES ASSUME Init PROVE QueueInv
  OBVIOUS
<1>1. QueueTyped
  BY BlockingAssumption DEF Init, QueueTyped, Places
<1>2. FP!Init
  BY DEF Init, EF!Init, FP!Init, EF!NoCall, FP!NoCall
<1>3. FP!FlagInv
  BY <1>2, FP!TypeInit, FP!SleepInit, FP!WakeInit, BlockingAssumption DEF FP!FlagInv
<1>4. CallInv
  BY DEF Init, EF!Init, CallInv
<1>5. FoundInv /\ MovedInv
  BY DEF Init, FoundInv, MovedInv, Trying
<1> QED
  BY <1>1, <1>3, <1>4, <1>5 DEF QueueInv

\* The inductive invariant holds in every state: writeBlocking, readBlocking,
\* wake and wait keep it in whatever order their steps interleave.
THEOREM QueueInvariant == Spec => []QueueInv
<1>1. QueueInv /\ [Next]_vars => QueueInv'
  BY QueueTypedNext, FlagNext, CallNext, FoundNext, MovedNext DEF QueueInv
<1> QED
  BY <1>1, QueueInit, PTL DEF Spec

\* Every variable keeps its range: no call takes the level below zero or above
\* the capacity, and wait() answers only with a timeout or a bit asked for.
THEOREM BlockingTypeCorrect == Spec => []TypeOK
<1>1. QueueInv => TypeOK
  BY SameTypes DEF QueueInv, QueueTyped, CallInv, FP!FlagInv, TypeOK
<1> QED
  BY <1>1, QueueInvariant, PTL

\* writeBlocking and readBlocking answer true exactly when they moved messages.
THEOREM AnswersAreTruthful == Spec => []ResultsAreTruthful
<1>1. QueueInv => ResultsAreTruthful
  BY DEF QueueInv, MovedInv, ResultsAreTruthful
<1> QED
  BY <1>1, QueueInvariant, PTL

\* No party of a queue ever sleeps on a notification that is set and that
\* nobody is about to deliver: EventFlag's guarantee holds for these callers.
THEOREM BlockedCallsLoseNoWake == Spec => []EF!NoLostWake
<1>1. QueueInv => EF!NoLostWake
  BY DEF QueueInv, FP!FlagInv, FP!NoLostWake, EF!NoLostWake
<1> QED
  BY <1>1, QueueInvariant, PTL
-----------------------------------------------------------------------------
\* No notification of the queue itself is lost.

\* No two parties wait for the same bit, as with the default masks FMQ_NOT_FULL
\* and FMQ_NOT_EMPTY of a queue that has its EventFlag to itself.
OwnBits ==
    \A p, other \in Parties : p # other => WaitMask(p) \cap WaitMask(other) = {}

\* What keeps the notification of s alive.
Notified(s) ==
    \/ pc[s] = "waiting" /\ at[s] = "out"
    \/ word \cap WaitMask(s) # {}
    \/ pc[Peer(s)] = "notifying"
    \/ s \in owed

LEMMA PendingByParty ==
    PendingInv <=> \A s \in Parties : pc[s] \in Trying /\ Ready(s, count[s]) => Notified(s)
  BY DEF PendingInv, Notified

\* A step that moves no counter and takes no notification away, and before which
\* whoever tries is trying already.
LEMMA PendingKept ==
    ASSUME PendingInv, UNCHANGED level,
           \A s \in Parties : pc'[s] \in Trying /\ Ready(s, count'[s]) =>
               /\ pc[s] \in Trying /\ count'[s] = count[s]
               /\ Notified(s) => Notified(s)'
    PROVE  PendingInv'
<1>1. \A s \in Parties : pc[s] \in Trying /\ Ready(s, count[s]) => Notified(s)
  BY PendingByParty
<1>2. \A s \in Parties : Ready(s, count[s])' <=> Ready(s, count'[s])
  BY DEF Ready
<1>3. \A s \in Parties : pc'[s] \in Trying /\ Ready(s, count[s])' => Notified(s)'
  BY <1>1, <1>2
<1> QED
  BY <1>3 DEF PendingInv, Notified, WaitMask

LEMMA PendingNext ==
    ASSUME OwnBits, QueueInv, PendingInv, [Next]_vars
    PROVE  PendingInv'
<1>t. QueueTyped /\ CallInv /\ FP!TypeOK
  BY DEF QueueInv, FP!FlagInv
<1>m. \A s \in Parties : WaitMask(s)' = WaitMask(s)
  BY DEF WaitMask
<1> USE DEF Trying, Places
<1>u. CASE UNCHANGED vars
  BY <1>u, <1>m, PendingKept DEF vars, queue, flag, Notified
<1>1. ASSUME NEW p \in Parties, NEW n, CallRefused(p, n) PROVE PendingInv'
  BY <1>1, <1>t, <1>m, PendingKept
     DEF CallRefused, Returns, Leaves, Goto, flag, QueueTyped, Notified
<1>2. ASSUME NEW p \in Parties, NEW n, NEW timed, Call(p, n, timed) PROVE PendingInv'
  BY <1>2, <1>t, <1>m, PendingKept DEF Call, Goto, flag, QueueTyped, Notified
<1>3. ASSUME NEW p \in Parties, Move(p) PROVE PendingInv'
  <2> SUFFICES ASSUME NEW s \in Parties, pc'[s] \in Trying, Ready(s, count[s])'
               PROVE  Notified(s)'
    BY DEF PendingInv, Notified, WaitMask
  <2>1. s # p /\ pc[s] \in Trying /\ count'[s] = count[s]
    BY <1>3, <1>t DEF Move, Returns, Leaves, Goto, QueueTyped
  <2>2. UNCHANGED <<at, word>> /\ (s \in owed => s \in owed')
    BY <1>3, <2>1 DEF Move, Returns, flag
  <2>3. CASE Queue(s) # Queue(p)
    <3>1. Ready(s, count[s])
      BY <1>3, <1>t, <2>1, <2>3, Masks DEF Move, QueueTyped, Ready
    <3>2. Peer(s) # p
      BY <2>3, Masks
    <3>3. pc'[s] = pc[s] /\ pc'[Peer(s)] = pc[Peer(s)]
      BY <1>3, <1>t, <2>1, <3>2, Masks DEF Move, Returns, Leaves, Goto, QueueTyped
    <3> QED
      BY <2>1, <2>2, <3>1, <3>3, <1>m DEF PendingInv, Notified
  <2>4. CASE Queue(s) = Queue(p)
    <3>1. Peer(s) = p
      BY <2>1, <2>4 DEF Parties, Peer, Side, Queue
    <3>2. WakeMask(p) # {}
      BY <2>1, <3>1, <1>t, Masks DEF WakeMask, CallInv
    <3>3. pc'[p] = "notifying"
      BY <1>3, <1>t, <3>2 DEF Move, Goto, QueueTyped
    <3> QED
      BY <3>1, <3>3 DEF Notified
  <2> QED
    BY <2>3, <2>4
<1>4. ASSUME NEW p \in Parties, Notify(p) PROVE PendingInv'
  <2>1. word' = word \cup WakeMask(p) /\ pc' = [pc EXCEPT ![p] = "waking"]
        /\ owed' = owed \ {Peer(p)} /\ UNCHANGED <<level, count>>
    BY <1>4 DEF Notify, Goto, EF!WakeDeferred, EF!WakePosts
  <2>2. \A s \in Parties \ {p} : at'[s] = at[s]
    BY <1>4, <1>t DEF Notify, EF!WakeDeferred, EF!WakePosts, EF!Returns, EF!Starts,
                      FP!TypeOK
  <2>3. ASSUME NEW s \in Parties, pc'[s] \in Trying, Notified(s) PROVE Notified(s)'
    <3>1. s # p /\ pc'[s] = pc[s]
      BY <2>1, <2>3, <1>t DEF QueueTyped
    <3>2. CASE s = Peer(p)
      <4>1. pc[s] # "idle" /\ WakeMask(p) = WaitMask(s)
        BY <2>3, <3>1, <3>2 DEF WakeMask
      <4> QED
        BY <4>1, <2>1, <1>t, <1>m DEF CallInv, Notified
    <3>3. CASE s # Peer(p)
      <4>1. Peer(s) # p
        BY <3>3, Masks
      <4>2. pc'[Peer(s)] = pc[Peer(s)]
        BY <4>1, <2>1, <1>t, Masks DEF QueueTyped
      <4> QED
        BY <2>1, <2>2, <2>3, <3>1, <3>3, <4>2, <1>m DEF Notified
    <3> QED
      BY <3>2, <3>3
  <2> QED
    BY <2>1, <2>3, <1>t, PendingKept DEF QueueTyped
<1>5. ASSUME NEW p \in Parties, WakeReturns(p) PROVE PendingInv'
  BY <1>5, <1>t, <1>m, PendingKept
     DEF WakeReturns, Returns, Leaves, Forgets, Goto, QueueTyped, Notified
<1>6. ASSUME NEW p \in Parties, LastAttempt(p) PROVE PendingInv'
  <2>1. pc[p] = "looping" /\ UNCHANGED <<level, at, word>>
        /\ \E place \in {"moving", "idle"} : pc' = [pc EXCEPT ![p] = place]
    BY <1>6 DEF LastAttempt, Returns, Leaves, Goto, flag
  <2>2. \A s \in Parties \ {p} : count'[s] = count[s] /\ (s \in owed => s \in owed')
    BY <1>6, <1>t DEF LastAttempt, Returns, Leaves, QueueTyped
  <2>3. ASSUME NEW s \in Parties, pc'[s] \in Trying, Notified(s)
        PROVE  s # p /\ pc'[s] = pc[s] /\ Notified(s)'
    BY <2>1, <2>2, <2>3, <1>t, <1>m, Masks DEF Notified, QueueTyped
  <2>4. \A s \in Parties : pc'[s] \in Trying => s # p /\ pc'[s] = pc[s]
    BY <2>1, <1>t DEF QueueTyped
  <2> QED
    BY <2>1, <2>2, <2>3, <2>4, PendingKept
<1>7. ASSUME NEW p \in Parties, Wait(p) PROVE PendingInv'
  BY <1>7, <1>t, <1>m, PendingKept
     DEF Wait, EF!WaitStarts, EF!Starts, Goto, queue, QueueTyped, FP!TypeOK, Notified
<1>8. ASSUME NEW p \in Parties, WaitFinds(p) PROVE PendingInv'
  BY <1>8, <1>t, <1>m, PendingKept
     DEF WaitFinds, Forgets, Goto, queue, QueueTyped, Notified
<1>9. ASSUME NEW p \in Parties, WaitTimedOut(p) PROVE PendingInv'
  BY <1>9, <1>t, <1>m, PendingKept
     DEF WaitTimedOut, Returns, Leaves, Forgets, Goto, QueueTyped, Notified
<1>10. ASSUME NEW p \in Parties, Library(p), UNCHANGED <<queue, pc>> PROVE PendingInv'
  <2>1. OthersOnlyWoken(p) /\ Proceeds(p) /\ ClearsOwn(p)
    BY <1>10, <1>t, LibraryEffect
  <2>2. ASSUME NEW s \in Parties, pc[s] \in Trying, Notified(s) PROVE Notified(s)'
    <3>1. CASE word' = word
      <4>1. at[s] = "out" => at'[s] = "out"
        BY <2>1 DEF OthersOnlyWoken, Proceeds
      <4> QED
        BY <1>10, <2>2, <3>1, <4>1, <1>m DEF Notified, queue
    <3>2. CASE at[p] # "posted" /\ at'[p] = "out" /\ word' = word \ call[p].mask
      <4>1. pc[p] = "waiting" /\ call[p].mask = WaitMask(p)
        BY <2>1, <3>2, <1>t DEF Proceeds, CallInv
      <4>2. CASE s = p
        BY <1>10, <3>2, <4>1, <4>2 DEF Notified
      <4>3. CASE s # p
        <5>1. word' \cap WaitMask(s) = word \cap WaitMask(s)
          BY <3>2, <4>1, <4>3, OwnBits DEF OwnBits
        <5>2. at[s] = "out" => at'[s] = "out"
          BY <2>1, <4>3 DEF OthersOnlyWoken
        <5> QED
          BY <1>10, <2>2, <5>1, <5>2, <1>m DEF Notified, queue
      <4> QED
        BY <4>2, <4>3
    <3> QED
      BY <2>1, <3>1, <3>2 DEF ClearsOwn
  <2> QED
    BY <1>10, <2>2, PendingKept DEF queue
<1>11. ASSUME NEW p \in Parties, Expire(p) PROVE PendingInv'
  BY <1>11, <1>m, PendingKept DEF Expire, Notified
<1>12. ASSUME NEW p \in Parties, Die(p) PROVE PendingInv'
  <2>1. pc' = [pc EXCEPT ![p] = "idle"] /\ UNCHANGED <<level, word>>
        /\ count' = [count EXCEPT ![p] = 0]
        /\ \A s \in Parties \ {p} : at'[s] = at[s]
    BY <1>12, <1>t DEF Die, Leaves, Goto, Forgets, EF!Die, EF!Returns, FP!TypeOK
  <2>2. owed' = (owed \ {p}) \cup
                 {peer \in {Peer(p)} : pc[p] = "notifying" /\ pc[peer] # "idle"}
    BY <1>12 DEF Die
  <2>3. ASSUME NEW s \in Parties, pc'[s] \in Trying, Notified(s) PROVE Notified(s)'
    <3>1. s # p /\ pc'[s] = pc[s]
      BY <2>1, <2>3, <1>t DEF QueueTyped
    <3>2. CASE pc[Peer(s)] = "notifying" /\ Peer(s) = p
      BY <2>2, <2>3, <3>1, <3>2, Masks DEF Notified
    <3>3. CASE ~(pc[Peer(s)] = "notifying" /\ Peer(s) = p)
      BY <2>1, <2>2, <2>3, <3>1, <3>3, <1>t, <1>m, Masks DEF Notified, QueueTyped
    <3> QED
      BY <3>2, <3>3
  <2> QED
    BY <2>1, <2>3, <1>t, PendingKept DEF QueueTyped
<1> QED
  BY <1>u, <1>1, <1>2, <1>3, <1>4, <1>5, <1>6, <1>7, <1>8, <1>9, <1>10, <1>11, <1>12,
     BlockingAssumption DEF Next, Calling, Steps, Clock, Kernel, Library

\* When nobody else waits for its bits, a blocked call whose room or data is
\* there has its notification set, taken, or about to be set, unless its peer
\* was killed between the commit and the wake.
THEOREM NotificationsArePending ==
    ASSUME OwnBits
    PROVE  Spec => []NotificationPending
<1>1. Init => PendingInv
  BY DEF Init, PendingInv, Trying
<1>2. QueueInv /\ PendingInv /\ [Next]_vars => PendingInv'
  BY PendingNext
<1>3. PendingInv => NotificationPending
  BY DEF PendingInv, NotificationPending, Trying
<1> QED
  BY <1>1, <1>2, <1>3, QueueInvariant, PTL DEF Spec
=============================================================================
