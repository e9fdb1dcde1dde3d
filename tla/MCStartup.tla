------------------------------ MODULE MCStartup ------------------------------
(***************************************************************************)
(* Environments that differ from a good one in the values of LINE, of the  *)
(* calendar, or of Internal and the server, each group in every            *)
(* combination of missing, blank, padded, unreadable and good values.      *)
(***************************************************************************)
EXTENDS Startup

CONSTANTS Bad

MCValues == {"", " ", ":8083", ":80", "80", "localhost:9091", "linebot-app", "Asia/Taipei",
             "app", "true", "false", "on", "5", "9", "-9", "5m", "-1s", "cal", "c.json",
             "t.json", "secret", "secret ", "token", "token ", "bot", "bot ", "ip1", "ip2 ",
             "ip2", "2026"}

MCTrim == [v \in MCValues |->
             CASE v = " " -> "" [] v = "secret " -> "secret" [] v = "token " -> "token"
               [] v = "bot " -> "bot" [] v = "ip2 " -> "ip2" [] OTHER -> v]
MCColon == [v \in MCValues |-> IF v = "80" THEN ":80" ELSE ":8083"]
MCInt == [v \in MCValues |->
            CASE v = "5" -> 5 [] v = "9" -> 9 [] v = "-9" -> -9 [] v = "80" -> 80
              [] v = "2026" -> 2026 [] OTHER -> Bad]
MCBool == [v \in MCValues |-> CASE v = "true" -> TRUE [] v = "false" -> FALSE [] OTHER -> Bad]
MCDuration == [v \in MCValues |-> CASE v = "5m" -> 300 [] v = "-1s" -> -1 [] OTHER -> Bad]

MCIssued == [secret |-> "secret", token |-> "token", botUserId |-> "bot"]

Good == [addr |-> "", port |-> "80", grpcAddr |-> "", grpcInsecure |-> "", appId |-> "app",
         builderId |-> "5", calendarEnabled |-> "true", calendarId |-> "cal",
         timeZone |-> "", credentialsFile |-> "c.json", tokenFile |-> "t.json",
         writeTimeout |-> "5m", channelSecret |-> "secret", accessToken |-> "token",
         botUserId |-> "bot"]

LineEnvironments ==
  {[Good EXCEPT !.channelSecret = s, !.accessToken = t, !.botUserId = u] :
     s \in {"", "secret", "secret "}, t \in {"", " ", "token", "token ", "app"},
     u \in {"", "bot", "bot "}}

CalendarEnvironments ==
  {[Good EXCEPT !.calendarEnabled = e, !.calendarId = i, !.credentialsFile = c,
                !.tokenFile = t] :
     e \in {"", "true", "false", "on"}, i \in {"", " ", "cal"}, c \in {"", "c.json"},
     t \in {" ", "t.json"}}

InternalEnvironments ==
  {[Good EXCEPT !.appId = a, !.builderId = b, !.grpcInsecure = i, !.writeTimeout = w] :
     a \in {"", "app"}, b \in {"", "5", "9", "-9", "on"}, i \in {"", "false"},
     w \in {"", "-1s", "80"}}

MCEnvironments == LineEnvironments \cup CalendarEnvironments \cup InternalEnvironments

MCHeaders ==
  {[forwarded |-> f, realIp |-> r, remoteAddr |-> "ip1"] :
     f \in {<<"">>, <<"ip2 ", "ip1">>, <<"", "ip1">>}, r \in {"", "ip2"}}

MCAsks == {[referenceTime |-> r, timeZone |-> z] : r \in {"", "2026"}, z \in {"", "Asia/Taipei"}}

=============================================================================
