--------------------------- MODULE CalendarService ---------------------------
(***************************************************************************)
(* The pure part of the task and calendar packages: which extraction is    *)
(* accepted, which error refuses it, what Google is asked for, and how     *)
(* Google's events become the events of a reply.                           *)
(***************************************************************************)
EXTENDS GoText, FiniteSets

CONSTANT
  Window     \* the margin of a listing, 30 days in the code

ASSUME WindowAssumption == Window \in Nat \ {0}

SupportedTaskTypes == {"calendar"}
Operations == {"create", "query", "delete", "update"}

(***************************************************************************)
(* What Internal extracts from a message.  The missingFields it also       *)
(* returns are logged and never read.                                      *)
(***************************************************************************)
Extraction ==
  [taskType : STRING, operation : STRING, eventId : Text, summary : Text,
   startAt : Text, endAt : Text, queryStartAt : Text, queryEndAt : Text,
   location : Text]

(***************************************************************************)
(* An event as Google holds it.  A timed event has a start and an end; an  *)
(* all-day event has the midnight that starts it and the midnight after.   *)
(***************************************************************************)
GoogleEvent ==
  {e \in [summary : Text, location : Text, start : Instants, end : Instants,
          allDay : BOOLEAN] : /\ e.start <= e.end
                              /\ e.allDay => e.end - 1 \in Instants}

(* An event as the program reports it, in calendar.Event and TaskEvent. *)
TaskEvent ==
  [eventId : Text, summary : Text, startAt : Text, endAt : Text, location : Text]

-----------------------------------------------------------------------------
(* Validation of an extraction. *)

Required ==
  [create |-> {"summary", "startAt", "endAt"},
   query  |-> {"queryStartAt", "queryEndAt"},
   delete |-> {"eventId"},
   update |-> {"eventId", "summary"}]

(* Mutant: strings.TrimSpace is forgotten. *)
IncompleteUntrimmed(x) == \E f \in Required[x.operation] : x[f] = ""

Incomplete(x) == \E f \in Required[x.operation] : Blank(x[f])

(* The texts the Google client parses before it calls Google. *)
Times(x) == CASE x.operation = "create" -> {x.startAt, x.endAt}
              [] x.operation = "query" -> {x.queryStartAt, x.queryEndAt}
              [] OTHER -> {}

(* parseCalendarDateTime needs the zone and takes the text as it is. *)
Unparseable(zoneOK, x) == \E s \in Times(x) : ~zoneOK \/ ~IsTime(s)

FailureCode ==
  [create |-> "GOOGLE_CALENDAR_CREATE_FAILED",
   query  |-> "GOOGLE_CALENDAR_QUERY_FAILED",
   delete |-> "GOOGLE_CALENDAR_DELETE_FAILED",
   update |-> "GOOGLE_CALENDAR_UPDATE_FAILED"]

(***************************************************************************)
(* The error that ends a request before Google is called, in the order the *)
(* code looks for it; "ok" when the call is made.                          *)
(***************************************************************************)
Refusal(config, x) ==
  IF x.taskType \notin SupportedTaskTypes THEN "TASK_TYPE_UNSUPPORTED"
  ELSE IF x.operation \notin Operations THEN "OPERATION_UNSUPPORTED"
  ELSE IF ~config.configured THEN "GOOGLE_CALENDAR_NOT_CONFIGURED"
  ELSE IF Incomplete(x) THEN "INTERNAL_EXTRACTION_INCOMPLETE"
  ELSE IF Unparseable(config.zoneOK, x) THEN FailureCode[x.operation]
  ELSE "ok"

ErrorCodes ==
  {"INTERNAL_GRPC_ERROR", "TASK_TYPE_UNSUPPORTED", "OPERATION_UNSUPPORTED",
   "GOOGLE_CALENDAR_NOT_CONFIGURED", "INTERNAL_EXTRACTION_INCOMPLETE",
   "CALENDAR_REPLY_FORMAT_FAILED"} \cup {FailureCode[op] : op \in Operations}

(* The codes no request can end with once Google was called. *)
EarlyCodes ==
  {"INTERNAL_GRPC_ERROR", "TASK_TYPE_UNSUPPORTED", "OPERATION_UNSUPPORTED",
   "GOOGLE_CALENDAR_NOT_CONFIGURED", "INTERNAL_EXTRACTION_INCOMPLETE"}

-----------------------------------------------------------------------------
(* What Google is asked to write. *)

InsertedEvent(x) ==
  [summary |-> x.summary, location |-> x.location, start |-> Parse[x.startAt],
   end |-> Parse[x.endAt], allDay |-> FALSE]

(* Mutant: the location is always part of the patch. *)
PatchedWithLocation(e, x) == [e EXCEPT !.summary = x.summary, !.location = x.location]

(* A blank location is left out of the patch and so stays as it was. *)
PatchedEvent(e, x) ==
  [e EXCEPT !.summary = x.summary,
            !.location = IF Blank(x.location) THEN @ ELSE x.location]

(* Mutant: the candidates are listed in the asked range itself. *)
InAskedRange(e, x) ==
  e.end > Parse[x.queryStartAt] /\ e.start < Parse[x.queryEndAt]

(* timeMin bounds the end of an event, timeMax its start, both exclusive. *)
InWindow(e, x) ==
  /\ e.end > Parse[x.queryStartAt] - Window
  /\ e.start < Parse[x.queryEndAt] + Window

(* Google refuses a listing whose window is empty. *)
WindowOK(x) == Parse[x.queryStartAt] - Window < Parse[x.queryEndAt] + Window

-----------------------------------------------------------------------------
(* From Google's events to the events of a reply. *)

(* Mutant: the second is taken off every end. *)
EndInstantAlwaysBefore(e) == e.end - 1

(* The exclusive end of an all-day event becomes the second before it. *)
EndInstant(e) == IF e.allDay THEN e.end - 1 ELSE e.end

(***************************************************************************)
(* How an answer of Google's gives the two times of an event: both, one    *)
(* side missing (nil, or both its fields blank: the time becomes ""), or a *)
(* text that does not parse, which fails the mapping.                      *)
(***************************************************************************)
Forms == {"given", "noStart", "noEnd", "garbled"}

MapEvent(id, e, form) ==
  [eventId |-> id, summary |-> Trim[e.summary],
   startAt |-> IF form = "noStart" THEN "" ELSE Local[e.start],
   endAt |-> IF form = "noEnd" THEN "" ELSE Local[EndInstant(e)],
   location |-> Trim[e.location]]

Formattable(te) ==
  /\ ParseInLocation(te.startAt) # BadTime
  /\ ParseInLocation(te.endAt) # BadTime

(* Mutant: an event that ended before the range still overlaps it. *)
OverlapsOpen(te, x) ==
  ParseInLocation(te.startAt) <= ParseInLocation(x.queryEndAt)

Overlaps(te, x) ==
  /\ ParseInLocation(te.startAt) <= ParseInLocation(x.queryEndAt)
  /\ ParseInLocation(te.endAt) >= ParseInLocation(x.queryStartAt)

(***************************************************************************)
(* The end of an operation whose call Google answered with items, a set of *)
(* records [id, event], each in the form forms gives it.                   *)
(***************************************************************************)
Mapped(items, forms) == {MapEvent(i.id, i.event, forms[i]) : i \in items}

(* Mapping an event needs the zone and times that parse. *)
MappingFails(config, x, items, forms) ==
  \/ ~config.zoneOK /\ x.operation # "delete"
  \/ \E i \in items : forms[i] = "garbled"

(* A query parses every candidate to filter it. *)
FilterFails(x, items, forms) ==
  x.operation = "query" /\ \E te \in Mapped(items, forms) : ~Formattable(te)

Kept(x, items, forms) ==
  {te \in Mapped(items, forms) : x.operation = "query" => Overlaps(te, x)}

ReplyWith(kept) ==
  IF \E te \in kept : ~Formattable(te)
  THEN [code |-> "CALENDAR_REPLY_FORMAT_FAILED", events |-> {}]
  ELSE [code |-> "ok", events |-> kept]

(* Mutant: the candidates of a query are reported unfiltered. *)
ReplyUnfiltered(config, x, items, forms) ==
  IF MappingFails(config, x, items, forms)
  THEN [code |-> FailureCode[x.operation], events |-> {}]
  ELSE ReplyWith(Mapped(items, forms))

(* Mutant: the error of the filter goes up as it is, without a code. *)
ReplyUnwrapped(config, x, items, forms) ==
  IF MappingFails(config, x, items, forms)
  THEN [code |-> FailureCode[x.operation], events |-> {}]
  ELSE IF FilterFails(x, items, forms) THEN [code |-> "", events |-> {}]
  ELSE ReplyWith(Kept(x, items, forms))

Reply(config, x, items, forms) ==
  IF MappingFails(config, x, items, forms) \/ FilterFails(x, items, forms)
  THEN [code |-> FailureCode[x.operation], events |-> {}]
  ELSE ReplyWith(Kept(x, items, forms))

=============================================================================
