----------------------------- MODULE HttpClient -----------------------------
(* BaseClient.get_json and post_json with the token bucket they share: any   *)
(* number of concurrent requests, each of which is paced and retried.        *)
(*                                                                           *)
(* Source: src/src/palisade/clients/base.py.                                 *)
(*                                                                           *)
(* Time runs in ticks of 1 / (rate * Cost) seconds: a tick refills one unit, *)
(* a token is Cost units, and Capacity is the bucket's capacity in units.    *)
(* The clock is kept relative to now: `elapsed` is now - _updated, and       *)
(* left[r] is how much of its asyncio.sleep request r has before it.         *)
(* acquire does not await while it has the lock, so that its locked section  *)
(* is one step, and the lock itself is never seen taken.                     *)

EXTENDS Naturals

CONSTANTS Requests,      \* calls of get_json or post_json
          Cost,          \* ticks that refill one token
          Capacity,      \* capacity of the bucket, in ticks
          MaxAttempts    \* BaseClient's max_attempts

(* Both clients have rate = capacity = 10; a bucket below one token would    *)
(* never serve anyone.                                                       *)
ASSUME BucketAssumption ==
  /\ Cost \in Nat \ {0} /\ Capacity \in Nat /\ Cost <= Capacity
  /\ MaxAttempts \in Nat \ {0}

VARIABLES
  tokens,    \* _tokens, in ticks
  elapsed,   \* now - _updated; more than Capacity makes no difference
  left,      \* left[r]: ticks that r still sleeps in acquire
  pc,        \* pc[r]: where request r is
  attempt,   \* attempt[r]: tenacity's attempt number
  sent,      \* history: how often r has gone out
  clock      \* history: flips with every tick

bucketVars == <<tokens, elapsed>>
requestVars == <<left, pc, attempt, sent>>
vars == <<bucketVars, requestVars, clock>>

Ended == {"returned", "refused", "gaveUp", "cancelled"}
PcStates == {"idle", "acquiring", "onWire", "backoff"} \cup Ended

Init ==
  /\ tokens = Capacity /\ elapsed = 0
  /\ left = [r \in Requests |-> 0]
  /\ pc = [r \in Requests |-> "idle"]
  /\ attempt = [r \in Requests |-> 0]
  /\ sent = [r \in Requests |-> 0]
  /\ clock = 0

Move(r, to) == pc' = [pc EXCEPT ![r] = to]

(* request starts its first attempt.                                         *)
Begin(r) ==
  /\ pc[r] = "idle"
  /\ Move(r, "acquiring")
  /\ attempt' = [attempt EXCEPT ![r] = 1]
  /\ UNCHANGED <<bucketVars, left, sent, clock>>

----------------------------------------------------------------------------
(* TokenBucket                                                              *)

\* Variant of Available: what an idle bucket saves up is not capped.
AvailableUncapped == tokens + elapsed

(* _available(now).                                                          *)
Available == IF tokens + elapsed < Capacity THEN tokens + elapsed ELSE Capacity

(* One pass of acquire's loop finds a token, and the request goes out.       *)
TakeToken(r) ==
  /\ pc[r] = "acquiring" /\ left[r] = 0
  /\ Available >= Cost
  /\ tokens' = Available - Cost
  /\ elapsed' = 0
  /\ Move(r, "onWire")
  /\ sent' = [sent EXCEPT ![r] = @ + 1]
  /\ UNCHANGED <<left, attempt, clock>>

\* Variant of Sleep: _updated is moved, and the refill is not added.
SleepLosesRefill(r) ==
  /\ pc[r] = "acquiring" /\ left[r] = 0
  /\ Available < Cost
  /\ elapsed' = 0
  /\ left' = [left EXCEPT ![r] = Cost - Available]
  /\ UNCHANGED <<tokens, pc, attempt, sent, clock>>

(* It finds none, and sleeps for as long as one takes to refill, without the *)
(* lock: another request may take that token first.                          *)
Sleep(r) ==
  /\ pc[r] = "acquiring" /\ left[r] = 0
  /\ Available < Cost
  /\ tokens' = Available
  /\ elapsed' = 0
  /\ left' = [left EXCEPT ![r] = Cost - Available]
  /\ UNCHANGED <<pc, attempt, sent, clock>>

(* Time passes.                                                              *)
Tick ==
  /\ elapsed' = IF elapsed < Capacity THEN elapsed + 1 ELSE elapsed
  /\ left' = [r \in Requests |-> IF left[r] > 0 THEN left[r] - 1 ELSE 0]
  /\ clock' = 1 - clock
  /\ UNCHANGED <<tokens, pc, attempt, sent>>

----------------------------------------------------------------------------
(* request's retry loop                                                     *)

(* An answer that is neither 429 nor 5xx: its JSON is returned, or, for      *)
(* another 4xx or an exception that is not retried, the call raises.         *)
Settle(r) ==
  /\ pc[r] = "onWire"
  /\ Move(r, "returned") \/ Move(r, "refused")
  /\ UNCHANGED <<bucketVars, left, attempt, sent, clock>>

\* Variant of Failed: max_attempts is taken for a number of retries.
FailedOneMoreTime(r) ==
  /\ pc[r] = "onWire"
  /\ Move(r, IF attempt[r] <= MaxAttempts THEN "backoff" ELSE "gaveUp")
  /\ UNCHANGED <<bucketVars, left, attempt, sent, clock>>

(* A 429, a 5xx or a TransportError, timeouts included: tenacity waits       *)
(* before the next attempt or, after the last, raises that error again.      *)
Failed(r) ==
  /\ pc[r] = "onWire"
  /\ Move(r, IF attempt[r] < MaxAttempts THEN "backoff" ELSE "gaveUp")
  /\ UNCHANGED <<bucketVars, left, attempt, sent, clock>>

\* Variant of Retry: a token is taken for the first attempt only.
RetryUnpaid(r) ==
  /\ pc[r] = "backoff"
  /\ Move(r, "onWire")
  /\ attempt' = [attempt EXCEPT ![r] = @ + 1]
  /\ sent' = [sent EXCEPT ![r] = @ + 1]
  /\ UNCHANGED <<bucketVars, left, clock>>

(* The exponential wait is over, after some time that its jitter decides.    *)
Retry(r) ==
  /\ pc[r] = "backoff"
  /\ Move(r, "acquiring")
  /\ attempt' = [attempt EXCEPT ![r] = @ + 1]
  /\ UNCHANGED <<bucketVars, left, sent, clock>>

(* The task is cancelled at an await: its scan failed, and the loop ends.    *)
Cancel(r) ==
  /\ pc[r] \in {"acquiring", "onWire", "backoff"}
  /\ Move(r, "cancelled")
  /\ left' = [left EXCEPT ![r] = 0]
  /\ UNCHANGED <<bucketVars, attempt, sent, clock>>

(* The steps that come about without anyone's decision.                      *)
Step(r) == TakeToken(r) \/ Sleep(r) \/ Settle(r) \/ Failed(r) \/ Retry(r)

Next == Tick \/ \E r \in Requests : Begin(r) \/ Step(r) \/ Cancel(r)

Spec == Init /\ [][Next]_vars

(* The event loop runs every ready task, the call's timeout is an answer,    *)
(* and time passes.                                                          *)
FairSpec == Spec /\ WF_vars(Tick) /\ \A r \in Requests : WF_vars(Step(r))

----------------------------------------------------------------------------

TypeOK ==
  /\ tokens \in 0 .. Capacity
  /\ elapsed \in 0 .. Capacity
  /\ left \in [Requests -> 0 .. Cost]
  /\ pc \in [Requests -> PcStates]
  /\ attempt \in [Requests -> 0 .. MaxAttempts]
  /\ sent \in [Requests -> Nat]
  /\ clock \in {0, 1}

(* A request gives up exactly after max_attempts failed attempts, and never  *)
(* goes out more often than that, however its attempts and its waits in the  *)
(* bucket are interleaved with those of other requests.                      *)
AttemptsAreExact ==
  \A r \in Requests :
    /\ sent[r] <= MaxAttempts
    /\ pc[r] = "gaveUp" => sent[r] = MaxAttempts
    /\ pc[r] = "backoff" => sent[r] < MaxAttempts

(* What goes out, retries and cancelled calls included, conforms to the rate *)
(* in every window of time.                                                  *)
Meter == INSTANCE RateMeter WITH level <- Capacity - Available
RateLimited == Meter!Spec

(* Nobody starves: although waiters do not queue for the bucket, a call that *)
(* was made returns or raises.                                               *)
RequestEnds == \A r \in Requests : pc[r] # "idle" ~> pc[r] \in Ended

----------------------------------------------------------------------------
(* What makes AttemptsAreExact inductive: attempts and calls go together.    *)
SentSoFar ==
  \A r \in Requests :
    /\ pc[r] = "idle" => sent[r] = 0 /\ attempt[r] = 0
    /\ pc[r] = "acquiring" => sent[r] + 1 = attempt[r]
    /\ pc[r] \in {"onWire", "backoff", "gaveUp"} => sent[r] = attempt[r]
    /\ pc[r] = "backoff" => attempt[r] < MaxAttempts
    /\ sent[r] <= attempt[r]

IInv == TypeOK /\ AttemptsAreExact /\ SentSoFar
=============================================================================
