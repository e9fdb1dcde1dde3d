----------------------------- MODULE MCRedelivery -----------------------------
(***************************************************************************)
(* One batch, posted up to twice, of one or two events that change the     *)
(* title of one calendar event.  Which operation it is does not matter     *)
(* here, and an update has no id to choose.                                *)
(***************************************************************************)
EXTENDS DeliveryRefinement, TLC

CONSTANTS b1

MCText == {"", "A", "B", "e1", "t1", "t2"}
MCInstants == 1..2
MCTrim == [s \in MCText |-> s]
MCParse == [s \in MCText |-> CASE s = "t1" -> 1 [] s = "t2" -> 2 [] OTHER -> BadTime]
MCLocal == <<"t1", "t2">>

MCEventIds == {"e1"}
MCInitialCalendars == 
  {[id \in MCEventIds |-> [summary |-> "B", location |-> "", start |-> 1, end |-> 2,
                           allDay |-> FALSE]]}

MCExtractions ==
  {[taskType |-> "calendar", operation |-> "update", eventId |-> "e1", summary |-> "A",
    startAt |-> "", endAt |-> "", queryStartAt |-> "", queryEndAt |-> "", location |-> ""]}

MCRunes == {"@", "x", " "}
MCSpace == {" "}
MCUserIds == {"bot", "friend"}

Ask == [type |-> "message", messageType |-> "text", userId |-> "friend",
        text |-> <<"@", "x">>, mentionees |-> <<[userId |-> "bot", index |-> 0, length |-> 1]>>,
        replyToken |-> "token"]
Other == [Ask EXCEPT !.type = "join"]

Signed(events) == [readable |-> TRUE, signed |-> TRUE, json |-> TRUE, events |-> events]

NoToken == [Ask EXCEPT !.replyToken = ""]

MCPayloads == {Signed(<<Ask, NoToken>>), Signed(<<Other>>), Signed(<<Ask>>),
               [Signed(<<Ask>>) EXCEPT !.signed = FALSE]}

MCBatches == {b1}
MCDeliveries == MCBatches \X (1..MaxAttempts)
MCRequests == Deliveries \X (1..MaxEvents)
NoCalls == {}

MCRepeated == {Signed(<<Ask>>), [Signed(<<Ask>>) EXCEPT !.signed = FALSE]}
MCWriteTimeouts == 0..2

(* Longer than one event may take, shorter than two: 45 seconds, with ticks of 15. *)
OneEventFits == {3}

(* A calendar that works, or none: the other two configurations fail likewise. *)
MCInit ==
  /\ RedeliveryInit
  /\ config \in {[configured |-> b, zoneOK |-> b] : b \in BOOLEAN}

MCSpec == MCInit /\ [][RedeliveryNext]_redeliveryVars /\ RedeliveryFairness

=============================================================================
