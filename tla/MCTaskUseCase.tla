---------------------------- MODULE MCTaskUseCase ----------------------------
(***************************************************************************)
(* A small calendar for TLC: eight moments, two events that exist, two ids *)
(* that may still be given, and a handful of extractions chosen to meet    *)
(* every validation, every boundary of the overlap and padded texts.       *)
(***************************************************************************)
EXTENDS TaskRefinement, TLC

Moments == <<"t1", "t2", "t3", "t4", "t5", "t6", "t7", "t8">>

MCInstants == 1..8
MCText == {"", " ", "A", " A ", "B", "P", "Q", "e1", " e1 ", "e2", "e3", "e4", " t4 "}
            \cup {Moments[i] : i \in MCInstants}
MCTrim ==
  [s \in MCText |-> CASE s = " " -> ""
                      [] s = " A " -> "A"
                      [] s = " e1 " -> "e1"
                      [] s = " t4 " -> "t4"
                      [] OTHER -> s]
MCParse ==
  [s \in MCText |-> IF \E i \in MCInstants : Moments[i] = s
                    THEN CHOOSE i \in MCInstants : Moments[i] = s
                    ELSE BadTime]
MCLocal == [i \in MCInstants |-> Moments[i]]
MCEventIds == {"e1", "e2", "e3", "e4"}

-----------------------------------------------------------------------------
Event(title, place, from, to, day) ==
  [summary |-> title, location |-> place, start |-> from, end |-> to, allDay |-> day]

(* A timed event beside an all-day event, then an all-day event alone. *)
MCInitialCalendars ==
  {"e1" :> Event("A", "P", 2, 4, FALSE) @@ "e2" :> Event("B", "", 2, 4, TRUE)
     @@ "e3" :> Absent @@ "e4" :> Absent,
   "e1" :> Event(" A ", " ", 3, 5, TRUE) @@ "e2" :> Gone
     @@ "e3" :> Absent @@ "e4" :> Absent}

Said(op, id, title, from, to, place) ==
  [taskType |-> "calendar", operation |-> op, eventId |-> id, summary |-> title,
   startAt |-> IF op = "create" THEN from ELSE "",
   endAt |-> IF op = "create" THEN to ELSE "",
   queryStartAt |-> IF op = "query" THEN from ELSE "",
   queryEndAt |-> IF op = "query" THEN to ELSE "", location |-> place]

Good ==
  {Said("create", "", " A ", "t4", "t5", " "),
   Said("query", "", "", "t4", "t5", ""),
   Said("query", "", "", "t1", "t2", ""),
   Said("delete", "e1", "", "", "", ""),
   Said("update", "e1", "B", "", "", "Q"),
   Said("update", "e2", " A ", "", "", " ")}

Bad ==
  {Said("create", "", "A", "t5", "t4", "P"),
   Said("create", "", " ", "t4", "t5", "P"),
   Said("create", "", "A", " t4 ", "t5", ""),
   Said("query", "", "", "t8", "t1", ""),
   Said("delete", " e1 ", "", "", "", ""),
   Said("move", "e1", "A", "t4", "t5", ""),
   [Said("delete", "e1", "", "", "", "") EXCEPT !.taskType = "todo"]}

MCExtractions == Good \cup Bad

=============================================================================
