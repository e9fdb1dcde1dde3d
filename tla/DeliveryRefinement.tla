-------------------------- MODULE DeliveryRefinement --------------------------
(***************************************************************************)
(* Redelivery implements DeliveryPromise.  Of a delivery's payload the     *)
(* mapping keeps the positions of the events that are handed to the use    *)
(* case, of the loop variable which of them are behind it, and of the      *)
(* clocks only which attempts a token refresh held beyond a limit.         *)
(***************************************************************************)
EXTENDS Redelivery

(* The positions of the events of a payload that are for the bot. *)
ForBot == [p \in Payloads |-> IF PayloadStatus(p) # 200 THEN {}
                             ELSE {i \in DOMAIN p.events : Accepted(p.events[i])}]

Meant(d) == IF web[d].pc = "idle" THEN {} ELSE ForBot[web[d].payload]

Handling(d) == IF web[d].pc = "task" THEN web[d].next ELSE 0

Over(d) == {i \in Meant(d) : i < web[d].next}

Todo == [d \in Deliveries |-> Meant(d)]
InHand == [d \in Deliveries |-> Handling(d)]
Finished == [d \in Deliveries |-> Over(d)]
Open == [d \in Deliveries |-> Running(d)]

Delivery == INSTANCE DeliveryPromise WITH
  Patiences <- WriteTimeouts,
  patience <- writeTimeout,
  heard <- line,
  todo <- Todo,
  handling <- InHand,
  handled <- Finished,
  delayed <- stalled,
  open <- Open,
  said <- replied

(***************************************************************************)
(* Whatever Internal, Google and LINE do, and wherever processes end, the  *)
(* webhook keeps the promise of DeliveryPromise.                           *)
(***************************************************************************)
KeepsDelivering == Delivery!Spec

=============================================================================
