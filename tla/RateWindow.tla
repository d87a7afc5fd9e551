----------------------------- MODULE RateWindow -----------------------------
(* HttpClient watched through a window of time, which opens at an instant    *)
(* nobody chose: how many calls went out since then, and how many ticks went *)
(* by.  The two counters and the window are history: they take no part in    *)
(* what the calls and the bucket do.                                         *)
EXTENDS HttpClient

VARIABLES
  opened,    \* has the window been opened?
  calls,     \* calls that went out since
  ticks      \* ticks since

windowVars == <<opened, calls, ticks>>

WindowInit == Init /\ opened = FALSE /\ calls = 0 /\ ticks = 0

(* The window opens between two steps.                                       *)
Open ==
  /\ ~opened
  /\ opened' = TRUE
  /\ UNCHANGED <<vars, calls, ticks>>

Count(n) == IF opened THEN n + 1 ELSE n

(* A request goes out.                                                       *)
CountedCall(r) == TakeToken(r) /\ calls' = Count(calls) /\ UNCHANGED <<opened, ticks>>

(* A tick of the clock.                                                      *)
CountedTick == Tick /\ ticks' = Count(ticks) /\ UNCHANGED <<opened, calls>>

(* What else the calls do goes by uncounted.                                 *)
Uncounted(r) ==
  /\ Begin(r) \/ Sleep(r) \/ Settle(r) \/ Failed(r) \/ Retry(r) \/ Cancel(r)
  /\ UNCHANGED windowVars

WindowNext ==
  \/ Open \/ CountedTick
  \/ \E r \in Requests : CountedCall(r) \/ Uncounted(r)

WindowSpec == WindowInit /\ [][WindowNext]_<<vars, windowVars>>

----------------------------------------------------------------------------

(* In a window of any length no more calls go out, retries included, than a  *)
(* full bucket has tokens and its ticks refill.                              *)
WindowConforms == Cost * calls <= Capacity + ticks

(* What makes it inductive: what went out was in the bucket when the window  *)
(* opened, or came in since; the rest is still there.                        *)
WindowSoFar ==
  /\ opened \in BOOLEAN /\ calls \in Nat /\ ticks \in Nat
  /\ ~opened => calls = 0 /\ ticks = 0
  /\ Cost * calls + Available <= Capacity + ticks
=============================================================================
