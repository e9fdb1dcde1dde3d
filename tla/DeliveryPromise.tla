--------------------------- MODULE DeliveryPromise ---------------------------
(***************************************************************************)
(* What LINE and the authors of messages may rely on, without payloads,    *)
(* use case, contexts or clocks: an attempt on a batch works off what is   *)
(* meant for the bot in order, each event to its end and said at most one  *)
(* thing about, and is acknowledged after the last.  It fails only when it *)
(* is refused, when the process ends, when its events are so many that     *)
(* their time limits add up to the patience of the connection, or when one *)
(* of them was held beyond its limit.  LINE repeats a batch as it was, and *)
(* only after a vain attempt.                                              *)
(***************************************************************************)
EXTENDS Integers, FiniteSets

CONSTANTS
  Batches, MaxAttempts, MaxEvents,
  Limit,      \* how long one event may take
  Patiences   \* how long a connection may be written to; 0 is for ever

Attempts == Batches \X (1..MaxAttempts)

VARIABLES
  patience,
  heard,     \* what LINE heard of an attempt
  todo,      \* the positions of the events that are meant for the bot
  handling,  \* the position of the event under way, or 0
  handled,   \* the positions of the events worked off
  delayed,   \* the attempts an event was held in beyond its limit
  open,      \* somebody is at work
  said       \* what the author of an event was told

vars == <<patience, heard, todo, handling, handled, delayed, open, said>>

Init ==
  /\ patience \in Patiences
  /\ heard = [d \in Attempts |-> "unsent"]
  /\ todo = [d \in Attempts |-> {}]
  /\ handling = [d \in Attempts |-> 0]
  /\ handled = [d \in Attempts |-> {}]
  /\ delayed = {}
  /\ open = [d \in Attempts |-> FALSE]
  /\ said = [s \in Attempts \X (1..MaxEvents) |-> "none"]

-----------------------------------------------------------------------------
(* LINE. *)

Before(d) == <<d[1], d[2] - 1>>

(* An attempt is made when the one before was in vain, with the same events. *)
Due(d, positions) ==
  /\ heard[d] = "unsent"
  /\ d[2] > 1 => /\ heard[Before(d)] \in {"failed", "gaveup"}
                 /\ positions = todo[Before(d)]

Refuse(d) ==
  /\ Due(d, {})
  /\ heard' = [heard EXCEPT ![d] = "failed"]
  /\ UNCHANGED <<patience, todo, handling, handled, delayed, open, said>>

Post(d, positions) ==
  /\ Due(d, positions)
  /\ heard' = [heard EXCEPT ![d] = "waiting"]
  /\ todo' = [todo EXCEPT ![d] = positions]
  /\ open' = [open EXCEPT ![d] = TRUE]
  /\ UNCHANGED <<patience, handling, handled, delayed, said>>

GiveUp(d) ==
  /\ heard[d] = "waiting"
  /\ heard' = [heard EXCEPT ![d] = "gaveup"]
  /\ UNCHANGED <<patience, todo, handling, handled, delayed, open, said>>

-----------------------------------------------------------------------------
(* The server. *)

Take(d, i) ==
  /\ open[d] /\ handling[d] = 0
  /\ i \in todo[d]
  /\ handled[d] = {j \in todo[d] : j < i}
  /\ handling' = [handling EXCEPT ![d] = i]
  /\ UNCHANGED <<patience, heard, todo, handled, delayed, open, said>>

(* The event is over; its author has been told at most one thing. *)
Finish(d, words) ==
  /\ open[d] /\ handling[d] # 0
  /\ said[<<d, handling[d]>>] = "none"
  /\ said' = [said EXCEPT ![<<d, handling[d]>>] = words]
  /\ handled' = [handled EXCEPT ![d] = @ \cup {handling[d]}]
  /\ handling' = [handling EXCEPT ![d] = 0]
  /\ UNCHANGED <<patience, heard, todo, delayed, open>>

Close(d, answer) ==
  /\ open[d] /\ handling[d] = 0 /\ handled[d] = todo[d]
  /\ open' = [open EXCEPT ![d] = FALSE]
  /\ heard' = [heard EXCEPT ![d] = IF @ = "waiting" THEN answer ELSE @]
  /\ UNCHANGED <<patience, todo, handling, handled, delayed, said>>

(* Somebody behind the server keeps events longer than it is asked to. *)
Hold(attempts) ==
  /\ \A d \in attempts : open[d] /\ handling[d] # 0
  /\ delayed' = delayed \cup attempts
  /\ UNCHANGED <<patience, heard, todo, handling, handled, open, said>>

(* The connection may have been given up by the time of the answer. *)
TooLate(d) ==
  /\ patience # 0
  /\ Cardinality(todo[d]) * Limit >= patience \/ d \in delayed

Acknowledge(d) == Close(d, "acked")

LoseAnswer(d) == TooLate(d) /\ Close(d, "failed")

(* Every attempt under way is broken off where it is. *)
Stop ==
  /\ \E d \in Attempts : open[d]
  /\ open' = [d \in Attempts |-> FALSE]
  /\ heard' = [d \in Attempts |->
                 IF open[d] /\ heard[d] = "waiting" THEN "failed" ELSE heard[d]]
  /\ UNCHANGED <<patience, todo, handling, handled, delayed, said>>

Next ==
  \/ \E d \in Attempts :
       \/ Refuse(d) \/ GiveUp(d) \/ Acknowledge(d) \/ LoseAnswer(d)
       \/ \E positions \in SUBSET (1..MaxEvents) : Post(d, positions)
       \/ \E i \in 1..MaxEvents : Take(d, i)
       \/ \E words \in {"none", "result", "error"} : Finish(d, words)
  \/ \E attempts \in SUBSET Attempts : Hold(attempts)
  \/ Stop

Spec == Init /\ [][Next]_vars

=============================================================================
