----------------------------- MODULE RateMeter -----------------------------
(* What a rate limiter promises: a meter that fills by Cost with every       *)
(* request, drains by 1 with every tick and never exceeds Capacity.  Hence,  *)
(* in any window of L ticks, Cost * requests <= Capacity + L.                *)

EXTENDS Naturals

CONSTANTS Requests, Cost, Capacity

VARIABLES
  level,   \* what the meter shows
  sent,    \* sent[r]: how often request r has gone out
  clock    \* a bit that flips with every tick, so that ticks are visible

meterVars == <<level, sent, clock>>

Init ==
  /\ level = 0
  /\ sent = [r \in Requests |-> 0]
  /\ clock = 0

Send(r) ==
  /\ level + Cost <= Capacity
  /\ level' = level + Cost
  /\ sent' = [sent EXCEPT ![r] = @ + 1]
  /\ UNCHANGED clock

Drain ==
  /\ clock' = 1 - clock
  /\ level' = IF level > 0 THEN level - 1 ELSE 0
  /\ UNCHANGED sent

Next == Drain \/ \E r \in Requests : Send(r)

Spec == Init /\ [][Next]_meterVars
=============================================================================
