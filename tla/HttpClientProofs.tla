-------------------------- MODULE HttpClientProofs --------------------------
(* Proofs about HttpClient, for any number of concurrent calls, any rate and *)
(* capacity, and any number of attempts.                                     *)
EXTENDS RateWindow, TLAPS

(* What the bucket has to give is a natural number up to its capacity, and   *)
(* all there is of a full one.                                               *)
LEMMA AvailableBounds ==
  ASSUME TypeOK
  PROVE  Available \in 0 .. Capacity
  BY BucketAssumption DEF TypeOK, Available

(* A full bucket, and no call made.                                          *)
LEMMA IInvInit == Init => IInv
  BY BucketAssumption
  DEF Init, IInv, TypeOK, PcStates, Ended, AttemptsAreExact, SentSoFar

(* Each step keeps the types and the tie between attempts and calls.         *)
LEMMA IInvStep == IInv /\ [Next]_vars => IInv'
<1> SUFFICES ASSUME IInv, [Next]_vars PROVE IInv'
  OBVIOUS
<1> USE BucketAssumption, AvailableBounds
    DEF IInv, TypeOK, PcStates, Ended, Move, bucketVars, requestVars
<1>1. ASSUME Tick PROVE IInv'
  <2>1. TypeOK'
    BY <1>1 DEF Tick
  <2> QED
    BY <1>1, <2>1 DEF Tick, AttemptsAreExact, SentSoFar
<1>2. ASSUME NEW r \in Requests, Begin(r) PROVE IInv'
  <2>1. TypeOK'
    BY <1>2 DEF Begin
  <2> QED
    BY <1>2, <2>1 DEF Begin, AttemptsAreExact, SentSoFar
<1>3. ASSUME NEW r \in Requests, TakeToken(r) PROVE IInv'
  <2>1. TypeOK'
    BY <1>3 DEF TakeToken
  <2>2. sent[r] + 1 = attempt[r] /\ attempt[r] <= MaxAttempts
    BY <1>3 DEF TakeToken, SentSoFar
  <2> QED
    BY <1>3, <2>1, <2>2 DEF TakeToken, AttemptsAreExact, SentSoFar
<1>4. ASSUME NEW r \in Requests, Sleep(r) PROVE IInv'
  <2>1. TypeOK'
    BY <1>4 DEF Sleep
  <2> QED
    BY <1>4, <2>1 DEF Sleep, AttemptsAreExact, SentSoFar
<1>5. ASSUME NEW r \in Requests, Settle(r) PROVE IInv'
  <2>1. TypeOK'
    BY <1>5 DEF Settle
  <2> QED
    BY <1>5, <2>1 DEF Settle, AttemptsAreExact, SentSoFar
<1>6. ASSUME NEW r \in Requests, Failed(r) PROVE IInv'
  <2>1. TypeOK'
    BY <1>6 DEF Failed
  <2> QED
    BY <1>6, <2>1 DEF Failed, AttemptsAreExact, SentSoFar
<1>7. ASSUME NEW r \in Requests, Retry(r) PROVE IInv'
  <2>1. attempt[r] < MaxAttempts
    BY <1>7 DEF Retry, SentSoFar
  <2>2. TypeOK'
    BY <1>7, <2>1 DEF Retry
  <2> QED
    BY <1>7, <2>1, <2>2 DEF Retry, AttemptsAreExact, SentSoFar
<1>8. ASSUME NEW r \in Requests, Cancel(r) PROVE IInv'
  <2>1. TypeOK'
    BY <1>8 DEF Cancel
  <2> QED
    BY <1>8, <2>1 DEF Cancel, AttemptsAreExact, SentSoFar
<1>9. CASE UNCHANGED vars
  BY <1>9 DEF vars, AttemptsAreExact, SentSoFar
<1> QED
  BY <1>1, <1>2, <1>3, <1>4, <1>5, <1>6, <1>7, <1>8, <1>9 DEF Next, Step

(* The inductive invariant holds in every reachable state.                   *)
THEOREM IInvHolds == Spec => []IInv
  BY IInvInit, IInvStep, PTL DEF Spec

(* The bucket never holds less than nothing or more than its capacity.       *)
THEOREM TypeCorrect == Spec => []TypeOK
<1>1. IInv => TypeOK
  BY DEF IInv
<1> QED
  BY <1>1, IInvHolds, PTL

(* A call goes out at most max_attempts times, and exactly that often before *)
(* it gives up.                                                              *)
THEOREM RetriesAreExact == Spec => []AttemptsAreExact
<1>1. IInv => AttemptsAreExact
  BY DEF IInv
<1> QED
  BY <1>1, IInvHolds, PTL

----------------------------------------------------------------------------
(* The bucket conforms to the meter.                                         *)

(* A full bucket is a meter at zero.                                         *)
LEMMA MeterInit == Init => Meter!Init
  BY BucketAssumption DEF Init, Meter!Init, Available

(* Taking a token raises the meter by its cost, a tick lowers it by one, and *)
(* nothing else moves it: moving _updated forward changes nothing because    *)
(* the refill is added in the same step.                                     *)
LEMMA MeterStep == TypeOK /\ [Next]_vars => [Meter!Next]_(Meter!meterVars)
<1> SUFFICES ASSUME TypeOK, [Next]_vars PROVE [Meter!Next]_(Meter!meterVars)
  OBVIOUS
<1> USE BucketAssumption, AvailableBounds DEF TypeOK, bucketVars, requestVars
<1>1. ASSUME NEW r \in Requests, TakeToken(r) PROVE Meter!Send(r)
  <2>1. Available' = Available - Cost
    BY <1>1 DEF TakeToken, Available
  <2> QED
    BY <1>1, <2>1 DEF TakeToken, Meter!Send
<1>2. ASSUME Tick PROVE Meter!Drain
  <2>1. Available' = IF Available < Capacity THEN Available + 1 ELSE Available
    BY <1>2 DEF Tick, Available
  <2> QED
    BY <1>2, <2>1 DEF Tick, Meter!Drain
<1>3. ASSUME NEW r \in Requests, Sleep(r) PROVE UNCHANGED Meter!meterVars
  <2>1. Available' = Available
    BY <1>3 DEF Sleep, Available
  <2> QED
    BY <1>3, <2>1 DEF Sleep, Meter!meterVars
<1>4. ASSUME NEW r \in Requests,
             Begin(r) \/ Settle(r) \/ Failed(r) \/ Retry(r) \/ Cancel(r)
      PROVE  UNCHANGED Meter!meterVars
  BY <1>4 DEF Begin, Settle, Failed, Retry, Cancel, Meter!meterVars, Available
<1>5. CASE UNCHANGED vars
  BY <1>5 DEF vars, Meter!meterVars, Available
<1> QED
  BY <1>1, <1>2, <1>3, <1>4, <1>5 DEF Next, Step, Meter!Next

(* Whatever the calls do, what goes out conforms to the rate in every window *)
(* of time.                                                                  *)
THEOREM BucketImplementsMeter == Spec => RateLimited
<1>1. IInv => TypeOK
  BY DEF IInv
<1> QED
  BY <1>1, IInvHolds, MeterInit, MeterStep, PTL DEF Spec, RateLimited, Meter!Spec

----------------------------------------------------------------------------
(* Nobody oversleeps.                                                        *)

(* What a sleeping call still waits for is at most what its token still      *)
(* lacks: while anyone sleeps in acquire there is no token to be had.        *)
NoTokenIdles == \A r \in Requests : left[r] > 0 => Available + left[r] <= Cost

(* A call sleeps for what one token lacks; after that the bucket fills as    *)
(* fast as the sleep runs out, and a token that is taken only delays it.     *)
LEMMA NoTokenIdlesStep ==
  ASSUME TypeOK, TypeOK', NoTokenIdles, [Next]_vars
  PROVE  NoTokenIdles'
<1> USE BucketAssumption, AvailableBounds DEF TypeOK, NoTokenIdles
<1>1. ASSUME NEW r \in Requests, TakeToken(r) PROVE NoTokenIdles'
  <2>1. Available' = Available - Cost
    BY <1>1 DEF TakeToken, Available
  <2> QED
    BY <1>1, <2>1 DEF TakeToken
<1>2. ASSUME NEW r \in Requests, Sleep(r) PROVE NoTokenIdles'
  <2>1. Available' = Available
    BY <1>2 DEF Sleep, Available
  <2> QED
    BY <1>2, <2>1 DEF Sleep
<1>3. ASSUME Tick PROVE NoTokenIdles'
  <2>1. Available' \in Nat /\ Available' <= Available + 1
    BY <1>3 DEF Tick, Available
  <2>2. ASSUME NEW r \in Requests, left'[r] > 0 PROVE left'[r] = left[r] - 1 /\ left[r] > 0
    BY <1>3, <2>2 DEF Tick
  <2>3. ASSUME NEW r \in Requests, left'[r] > 0 PROVE Available' + left'[r] <= Cost
    <3>1. left[r] \in Nat /\ Available \in Nat /\ Available + left[r] <= Cost
      BY <2>2, <2>3
    <3> QED
      BY <2>1, <2>2, <2>3, <3>1
  <2> QED
    BY <2>3
<1>4. ASSUME NEW r \in Requests,
             Begin(r) \/ Settle(r) \/ Failed(r) \/ Retry(r) \/ Cancel(r)
      PROVE  NoTokenIdles'
  <2>1. Available' = Available
    BY <1>4 DEF Begin, Settle, Failed, Retry, Cancel, bucketVars, Available
  <2> QED
    BY <1>4, <2>1 DEF Begin, Settle, Failed, Retry, Cancel
<1>5. CASE UNCHANGED vars
  BY <1>5 DEF vars, bucketVars, requestVars, Available
<1> QED
  BY <1>1, <1>2, <1>3, <1>4, <1>5 DEF Next, Step

(* The pacing is work-conserving: the sleep in acquire, computed once and    *)
(* without the lock, never outlasts the refill.                              *)
THEOREM NobodyOversleeps == Spec => []NoTokenIdles
<1>1. Init => NoTokenIdles
  BY DEF Init, NoTokenIdles
<1>2. IInv => TypeOK
  BY DEF IInv
<1>3. TypeOK /\ TypeOK' /\ NoTokenIdles /\ [Next]_vars => NoTokenIdles'
  BY NoTokenIdlesStep
<1> QED
  BY <1>1, <1>2, <1>3, IInvHolds, PTL DEF Spec

----------------------------------------------------------------------------
(* The window.                                                               *)

(* Watching changes nothing: what is watched is HttpClient.                  *)
THEOREM WindowOnlyWatches == WindowSpec => Spec
<1>1. WindowInit => Init
  BY DEF WindowInit
<1>2. [WindowNext]_<<vars, windowVars>> => [Next]_vars
  BY DEF WindowNext, Open, CountedCall, CountedTick, Uncounted, Next, Step
<1> QED
  BY <1>1, <1>2, PTL DEF WindowSpec, Spec

(* A call takes from the bucket what it adds to the calls, a tick puts into  *)
(* it no more than it adds to the ticks.                                     *)
LEMMA WindowStep ==
  ASSUME TypeOK, TypeOK', WindowSoFar, [WindowNext]_<<vars, windowVars>>
  PROVE  WindowSoFar'
<1> USE BucketAssumption, AvailableBounds DEF windowVars
<1>0. /\ Available \in Nat /\ Available <= Capacity /\ Cost \in Nat /\ Capacity \in Nat
      /\ opened \in BOOLEAN /\ calls \in Nat /\ ticks \in Nat /\ Cost * calls \in Nat
      /\ Cost * (calls + 1) = Cost * calls + Cost
      /\ ~opened => calls = 0 /\ ticks = 0
      /\ Cost * calls + Available <= Capacity + ticks
  BY DEF WindowSoFar
<1>1. CASE Open
  <2>1. Available' = Available
    BY <1>1 DEF Open, vars, bucketVars, Available
  <2> QED
    BY <1>0, <1>1, <2>1 DEF Open, WindowSoFar
<1>2. CASE CountedTick
  <2>1. Available' \in Nat /\ Available' <= Capacity /\ Available' <= Available + 1
    BY <1>2 DEF CountedTick, Tick, TypeOK, Available
  <2>2. calls' = calls /\ opened' = opened /\ ticks' = IF opened THEN ticks + 1 ELSE ticks
    BY <1>2 DEF CountedTick, Count
  <2>3. Cost * calls' = Cost * calls
    BY <2>2
  <2>4. CASE opened
    <3>1. Cost * calls + Available' <= Capacity + ticks'
      <4>1. ticks' = ticks + 1
        BY <2>2, <2>4
      <4>2. \A p, a, b, c, t \in Nat : p + a <= c + t /\ b <= a + 1 => p + b <= c + (t + 1)
        OBVIOUS
      <4> QED
        BY <1>0, <2>1, <4>1, <4>2
    <3> QED
      BY <1>0, <2>2, <2>3, <2>4, <3>1 DEF WindowSoFar
  <2>5. CASE ~opened
    <3>1. Cost * calls = 0
      BY <1>0, <2>5
    <3>2. Cost * calls + Available' <= Capacity + ticks'
      <4>1. ticks' = 0
        BY <1>0, <2>2, <2>5
      <4>2. \A b, c \in Nat : b <= c => 0 + b <= c + 0
        OBVIOUS
      <4> QED
        BY <1>0, <2>1, <3>1, <4>1, <4>2
    <3> QED
      BY <1>0, <2>2, <2>3, <2>5, <3>2 DEF WindowSoFar
  <2> QED
    BY <1>0, <2>4, <2>5
<1>3. ASSUME NEW r \in Requests, CountedCall(r) PROVE WindowSoFar'
  <2>1. Available' = Available - Cost
    BY <1>3 DEF CountedCall, TakeToken, TypeOK, Available
  <2>2. ticks' = ticks /\ opened' = opened /\ calls' = IF opened THEN calls + 1 ELSE calls
    BY <1>3 DEF CountedCall, Count
  <2>3. CASE opened
    <3>1. Cost * calls' = Cost * calls + Cost
      BY <1>0, <2>2, <2>3
    <3> QED
      BY <1>0, <2>1, <2>2, <2>3, <3>1 DEF WindowSoFar
  <2>4. CASE ~opened
    BY <1>0, <2>1, <2>2, <2>4 DEF WindowSoFar
  <2> QED
    BY <1>0, <2>3, <2>4
<1>4. ASSUME NEW r \in Requests, Uncounted(r) PROVE WindowSoFar'
  <2>1. Available' = Available
    <3>1. CASE Sleep(r)
      BY <3>1 DEF Sleep, TypeOK, Available
    <3>2. CASE ~Sleep(r)
      BY <1>4, <3>2
      DEF Uncounted, Begin, Settle, Failed, Retry, Cancel, bucketVars, Available
    <3> QED
      BY <3>1, <3>2
  <2> QED
    BY <1>0, <1>4, <2>1 DEF Uncounted, WindowSoFar
<1>5. CASE UNCHANGED <<vars, windowVars>>
  <2>1. Available' = Available
    BY <1>5 DEF vars, bucketVars, Available
  <2> QED
    BY <1>0, <1>5, <2>1 DEF WindowSoFar
<1> QED
  BY <1>1, <1>2, <1>3, <1>4, <1>5 DEF WindowNext

(* What the bucket is for: in any window of time at most capacity + rate *   *)
(* its length calls go out, whoever makes them and however they are retried, *)
(* cancelled or woken.                                                       *)
THEOREM EveryWindowConforms == WindowSpec => []WindowConforms
<1>1. WindowInit => WindowSoFar
  <2> SUFFICES ASSUME WindowInit PROVE WindowSoFar
    OBVIOUS
  <2>1. Available = Capacity /\ Capacity \in Nat /\ Cost * 0 = 0
    BY BucketAssumption DEF WindowInit, Init, Available
  <2>2. opened = FALSE /\ calls = 0 /\ ticks = 0
    BY DEF WindowInit
  <2>3. Cost * calls + Available <= Capacity + ticks
    BY <2>1, <2>2
  <2> QED
    BY <2>2, <2>3 DEF WindowSoFar
<1>2. IInv => TypeOK
  BY DEF IInv
<1>3. TypeOK /\ TypeOK' /\ WindowSoFar /\ [WindowNext]_<<vars, windowVars>> => WindowSoFar'
  BY WindowStep
<1>4. TypeOK /\ WindowSoFar => WindowConforms
  <2> SUFFICES ASSUME TypeOK, WindowSoFar PROVE WindowConforms
    OBVIOUS
  <2>1. Available \in Nat /\ Cost * calls \in Nat /\ Capacity + ticks \in Nat
    BY BucketAssumption, AvailableBounds DEF WindowSoFar
  <2> QED
    BY <2>1 DEF WindowSoFar, WindowConforms
<1> QED
  BY <1>1, <1>2, <1>3, <1>4, IInvHolds, WindowOnlyWatches, PTL DEF WindowSpec
=============================================================================
