---------------------------- MODULE DeliveryQueue ----------------------------
(***************************************************************************)
(* What the transactional outbox promises a producer, with no worker, no   *)
(* lock and no clock: an event published with a business change is run at  *)
(* most MaxAttempts times, is never run again once a run has succeeded,    *)
(* and is settled as sent or dead according to what its runs returned.     *)
(* Outbox.tla is shown to implement this module.                           *)
(***************************************************************************)
EXTENDS Naturals

CONSTANTS Event,        \* the events producers publish
          Unknown,      \* the events no handler knows
          MaxAttempts   \* runs an event may have

VARIABLES fate,         \* [Event -> Fate]
          runs,         \* [Event -> 0..MaxAttempts], handler runs so far
          ok            \* [Event -> BOOLEAN], some run returned nil

vars == <<fate, runs, ok>>

Fate == {"absent", "open", "sent", "dead", "gone"}

Init == /\ fate = [e \in Event |-> "absent"]
        /\ runs = [e \in Event |-> 0]
        /\ ok = [e \in Event |-> FALSE]

Publish(e) == /\ fate[e] = "absent"
              /\ fate' = [fate EXCEPT ![e] = "open"]
              /\ UNCHANGED <<runs, ok>>

(* A run is one attempt; only an event no run of which has succeeded is    *)
(* run, and an unknown event never succeeds.                               *)
Attempt(e) == /\ fate[e] = "open"
              /\ ~ok[e]
              /\ runs[e] < MaxAttempts
              /\ runs' = [runs EXCEPT ![e] = @ + 1]
              /\ \/ /\ e \notin Unknown
                    /\ ok' = [ok EXCEPT ![e] = TRUE]
                 \/ UNCHANGED ok
              /\ UNCHANGED fate

SettleSent(e) == /\ fate[e] = "open"
                 /\ ok[e]
                 /\ fate' = [fate EXCEPT ![e] = "sent"]
                 /\ UNCHANGED <<runs, ok>>

(* A known event is given up only after every attempt was spent on a run.  *)
SettleDead(e) == /\ fate[e] = "open"
                 /\ ~ok[e]
                 /\ runs[e] = MaxAttempts \/ (e \in Unknown /\ runs[e] > 0)
                 /\ fate' = [fate EXCEPT ![e] = "dead"]
                 /\ UNCHANGED <<runs, ok>>

Forget(e) == /\ fate[e] \in {"sent", "dead"}
             /\ fate' = [fate EXCEPT ![e] = "gone"]
             /\ UNCHANGED <<runs, ok>>

Next == \E e \in Event : \/ Publish(e)
                         \/ Attempt(e)
                         \/ SettleSent(e)
                         \/ SettleDead(e)
                         \/ Forget(e)

Spec == Init /\ [][Next]_vars
=============================================================================
