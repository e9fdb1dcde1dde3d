----------------------------- MODULE MCGatekeeper -----------------------------
(***************************************************************************)
(* A delivery of up to two events beside a REST call, over a calendar that *)
(* holds one event and has room for two more.                              *)
(***************************************************************************)
EXTENDS Gatekeeper, TLC

CONSTANTS d1, c1

MCText == {"", "A", "e1", "e2", "e3", "t1", "t2", "t3"}
MCInstants == 1..3
MCTrim == [s \in MCText |-> s]
MCParse == [s \in MCText |-> CASE s = "t1" -> 1 [] s = "t2" -> 2 [] s = "t3" -> 3
                               [] OTHER -> BadTime]
MCLocal == <<"t1", "t2", "t3">>

MCEventIds == {"e1", "e2", "e3"}
MCInitialCalendars ==
  {"e1" :> [summary |-> "A", location |-> "", start |-> 1, end |-> 2, allDay |-> FALSE]
     @@ "e2" :> Absent @@ "e3" :> Absent}

Nothing ==
  [taskType |-> "calendar", operation |-> "", eventId |-> "", summary |-> "",
   startAt |-> "", endAt |-> "", queryStartAt |-> "", queryEndAt |-> "", location |-> ""]

(* A create, a delete and an extraction that is incomplete. *)
MCExtractions ==
  {[Nothing EXCEPT !.operation = "create", !.summary = "A", !.startAt = "t2", !.endAt = "t3"],
   [Nothing EXCEPT !.operation = "delete", !.eventId = "e1"],
   [Nothing EXCEPT !.operation = "create", !.summary = "A", !.startAt = "t2"]}

-----------------------------------------------------------------------------
MCRunes == {"@", "b", "x", " "}
MCSpace == {" "}
MCUserIds == {"bot", "friend"}

Mention(u, i, n) == [userId |-> u, index |-> i, length |-> n]

Message(text, mentionees) ==
  [type |-> "message", messageType |-> "text", userId |-> "friend", text |-> text,
   mentionees |-> mentionees, replyToken |-> "token"]

(* "@b x": the bot is asked x. *)
AskBot == Message(<<"@", "b", " ", "x">>, <<Mention("bot", 0, 2)>>)
(* "@b " says nothing besides the mention, "@b x" may be for a friend. *)
OnlyBot == Message(<<"@", "b", " ">>, <<Mention("bot", 0, 2)>>)
AskFriend == Message(<<"@", "b", " ", "x">>, <<Mention("friend", 0, 2)>>)
Join == [AskBot EXCEPT !.type = "join"]
Sticker == [AskBot EXCEPT !.messageType = "sticker"]
FromBot == [AskBot EXCEPT !.userId = "bot"]
NoToken == [AskBot EXCEPT !.replyToken = ""]

Signed(events) == [readable |-> TRUE, signed |-> TRUE, json |-> TRUE, events |-> events]

(* The payloads that are told apart by one check each. *)
MCPayloads ==
  {Signed(<<AskBot, NoToken>>), Signed(<<AskFriend, AskBot>>), Signed(<<Sticker, OnlyBot>>),
   Signed(<<FromBot>>), Signed(<<Join>>), Signed(<<>>),
   [Signed(<<AskBot>>) EXCEPT !.signed = FALSE], [Signed(<<AskBot>>) EXCEPT !.json = FALSE],
   [Signed(<<AskBot>>) EXCEPT !.readable = FALSE]}

MCBodies == {[valid |-> v, text |-> t] : v \in BOOLEAN, t \in {<<"x">>, <<" ">>}}

MCDeliveries == {d1}
MCRestCalls == {c1}
NoCalls == {}
NoDeliveries == {}
MCRequests == (Deliveries \X (1..MaxEvents)) \cup RestCalls

=============================================================================
