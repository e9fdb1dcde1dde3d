----------------------------- MODULE TaskUseCase -----------------------------
(***************************************************************************)
(* task.UseCase.CreateFromText and everything below it: the call to        *)
(* Internal, the validations, the call to Google Calendar and the answer.  *)
(* Requests run concurrently, each in the goroutine of its HTTP handler,   *)
(* and share nothing in the program: what they share is the calendar.      *)
(*                                                                         *)
(* A call to Google is sent in one step and takes effect, if it ever does, *)
(* in a later step of Google's own.  The request may by then have given up *)
(* on it: its context ended or the connection broke.                       *)
(***************************************************************************)
EXTENDS CalendarService

CONSTANTS
  Requests,          \* the requests, each one call of CreateFromText
  Extractions,       \* what Internal may answer
  EventIds,          \* the ids Google gives: a bound on the events ever created
  InitialCalendars,  \* the calendars a run may start from
  PageSize,          \* how many events Google puts on one page of a listing
  Absent,            \* an id Google has not given yet
  Gone,              \* the id of a deleted event
  NoExtraction       \* nothing extracted yet

ASSUME TaskAssumption ==
  /\ Extractions \subseteq Extraction
  /\ EventIds \subseteq Text
  /\ \A id \in EventIds : Trim[id] = id /\ id # ""
  /\ InitialCalendars \subseteq [EventIds -> GoogleEvent \cup {Absent, Gone}]
  /\ PageSize \in Nat \ {0}
  /\ Absent \notin GoogleEvent /\ Gone \notin GoogleEvent /\ Absent # Gone
  /\ NoExtraction \notin Extraction

VARIABLES
  config,     \* what app.New configured: never changes
  calendar,   \* the Google calendar: an event, Absent or Gone for every id
  pc,         \* where the goroutine of a request is
  ctxDone,    \* whether the context of a request has ended
  asked,      \* what Internal extracted for a request
  call,       \* the request's one call to Google
  response,   \* the events in Google's answer to that call
  result      \* what CreateFromText returned

vars == <<config, calendar, pc, ctxDone, asked, call, response, result>>

Configs == [configured : BOOLEAN, zoneOK : BOOLEAN]
Item == [id : EventIds, event : GoogleEvent]
Result == [code : ErrorCodes \cup {"none", "ok"}, events : SUBSET TaskEvent]

NoResult == [code |-> "none", events |-> {}]
Failure(code) == [code |-> code, events |-> {}]

TypeOK ==
  /\ config \in Configs
  /\ calendar \in [EventIds -> GoogleEvent \cup {Absent, Gone}]
  /\ pc \in [Requests -> {"idle", "consult", "token", "provider", "done"}]
  /\ ctxDone \in [Requests -> BOOLEAN]
  /\ asked \in [Requests -> Extractions \cup {NoExtraction}]
  /\ call \in [Requests -> {"none", "sent", "applied", "refused"}]
  /\ response \in [Requests -> SUBSET Item]
  /\ result \in [Requests -> Result]

Init ==
  /\ config \in Configs
  /\ calendar \in InitialCalendars
  /\ pc = [r \in Requests |-> "idle"]
  /\ ctxDone = [r \in Requests |-> FALSE]
  /\ asked = [r \in Requests |-> NoExtraction]
  /\ call = [r \in Requests |-> "none"]
  /\ response = [r \in Requests |-> {}]
  /\ result = [r \in Requests |-> NoResult]

-----------------------------------------------------------------------------
(* The request's goroutine. *)

(* CreateFromText is entered and Internal is consulted. *)
Start(r) ==
  /\ pc[r] = "idle"
  /\ pc' = [pc EXCEPT ![r] = "consult"]
  /\ UNCHANGED <<config, calendar, ctxDone, asked, call, response, result>>

Return(r, res) ==
  /\ pc' = [pc EXCEPT ![r] = "done"]
  /\ result' = [result EXCEPT ![r] = res]

(* The gRPC call fails, for a reason of Internal's or because ctx ended. *)
ConsultFails(r) ==
  /\ pc[r] = "consult"
  /\ Return(r, Failure("INTERNAL_GRPC_ERROR"))
  /\ UNCHANGED <<config, calendar, ctxDone, asked, call, response>>

(* Internal answers x and a validation refuses it. *)
AnswerRejected(r, x) ==
  /\ pc[r] = "consult"
  /\ Refusal(config, x) # "ok"
  /\ asked' = [asked EXCEPT ![r] = x]
  /\ Return(r, Failure(Refusal(config, x)))
  /\ UNCHANGED <<config, calendar, ctxDone, call, response>>

(* The answer is good and the Google client asks for an access token. *)
AnswerAccepted(r, x) ==
  /\ pc[r] = "consult"
  /\ Refusal(config, x) = "ok"
  /\ asked' = [asked EXCEPT ![r] = x]
  /\ pc' = [pc EXCEPT ![r] = "token"]
  /\ UNCHANGED <<config, calendar, ctxDone, call, response, result>>

(* The token is still good or was refreshed: the call to Google goes out. *)
TokenUsed(r) ==
  /\ pc[r] = "token"
  /\ ~ctxDone[r]
  /\ pc' = [pc EXCEPT ![r] = "provider"]
  /\ call' = [call EXCEPT ![r] = "sent"]
  /\ UNCHANGED <<config, calendar, ctxDone, asked, response, result>>

(***************************************************************************)
(* The refresh failed, or it took until ctx had ended: nothing is sent.    *)
(* The token source was made with context.Background, so that the end of   *)
(* ctx does not end a refresh.                                             *)
(***************************************************************************)
TokenUseless(r) ==
  /\ pc[r] = "token"
  /\ Return(r, Failure(FailureCode[asked[r].operation]))
  /\ UNCHANGED <<config, calendar, ctxDone, asked, call, response>>

(* Mutant: an error of Google's passes for an answer. *)
ProviderAnswersAnyway(r) ==
  /\ pc[r] = "provider"
  /\ call[r] \in {"applied", "refused"}
  /\ \E forms \in [response[r] -> Forms] :
       Return(r, Reply(config, asked[r], response[r], forms))
  /\ UNCHANGED <<config, calendar, ctxDone, asked, call, response>>

(* Google's answer arrives, however its times are given; it is mapped, filtered
   and formatted. *)
ProviderAnswers(r) ==
  /\ pc[r] = "provider"
  /\ call[r] = "applied"
  /\ \E forms \in [response[r] -> Forms] :
       Return(r, Reply(config, asked[r], response[r], forms))
  /\ UNCHANGED <<config, calendar, ctxDone, asked, call, response>>

(* Mutant: the call is made without ctx and waits for Google. *)
ProviderFailsWhenRefused(r) ==
  /\ pc[r] = "provider"
  /\ call[r] = "refused"
  /\ Return(r, Failure(FailureCode[asked[r].operation]))
  /\ UNCHANGED <<config, calendar, ctxDone, asked, call, response>>

(***************************************************************************)
(* The call returns an error: Google refused it, its answer was lost, or   *)
(* ctx ended first.  The program cannot tell whether it took effect.       *)
(***************************************************************************)
ProviderFails(r) ==
  /\ pc[r] = "provider"
  /\ Return(r, Failure(FailureCode[asked[r].operation]))
  /\ UNCHANGED <<config, calendar, ctxDone, asked, call, response>>

(* The 30 seconds of a LINE event pass, or a REST client goes away. *)
ContextDone(r) ==
  /\ pc[r] # "idle"
  /\ ~ctxDone[r]
  /\ ctxDone' = [ctxDone EXCEPT ![r] = TRUE]
  /\ UNCHANGED <<config, calendar, pc, asked, call, response, result>>

-----------------------------------------------------------------------------
(***************************************************************************)
(* Google Calendar, as far as the program can see it.  A call that was     *)
(* sent is applied or refused at any later time, or never.                 *)
(***************************************************************************)
Live(cal) == {id \in EventIds : cal[id] \notin {Absent, Gone}}

Item1(id, e) == [id |-> id, event |-> e]

Applied(r, items) ==
  /\ call' = [call EXCEPT ![r] = "applied"]
  /\ response' = [response EXCEPT ![r] = items]
  /\ UNCHANGED <<config, pc, ctxDone, asked, result>>

Sent(r, op) == call[r] = "sent" /\ asked[r].operation = op

InsertApplied(r, id) ==
  LET e == InsertedEvent(asked[r])
  IN /\ Sent(r, "create")
     /\ calendar[id] = Absent
     /\ e.start <= e.end
     /\ calendar' = [calendar EXCEPT ![id] = e]
     /\ Applied(r, {Item1(id, e)})

DeleteApplied(r, id) ==
  /\ Sent(r, "delete")
  /\ id = asked[r].eventId
  /\ id \in Live(calendar)
  /\ calendar' = [calendar EXCEPT ![id] = Gone]
  /\ Applied(r, {})

PatchApplied(r, id) ==
  LET e == PatchedEvent(calendar[id], asked[r])
  IN /\ Sent(r, "update")
     /\ id = asked[r].eventId
     /\ id \in Live(calendar)
     /\ calendar' = [calendar EXCEPT ![id] = e]
     /\ Applied(r, {Item1(id, e)})

Candidates(x) == {id \in Live(calendar) : InWindow(calendar[id], x)}

(* A page is the earliest candidates; the code asks for the first page only. *)
FirstPage(ids, all) ==
  /\ ids \subseteq all
  /\ \A i \in ids, j \in all \ ids : calendar[i].start <= calendar[j].start
  /\ \/ ids = all /\ Cardinality(all) <= PageSize
     \/ Cardinality(ids) = PageSize

ListServed(r, ids) ==
  /\ Sent(r, "query")
  /\ WindowOK(asked[r])
  /\ FirstPage(ids, Candidates(asked[r]))
  /\ Applied(r, {Item1(id, calendar[id]) : id \in ids})
  /\ UNCHANGED calendar

(* Unknown or deleted id, empty time range, quota, credentials, ... *)
GoogleRefuses(r) ==
  /\ call[r] = "sent"
  /\ call' = [call EXCEPT ![r] = "refused"]
  /\ UNCHANGED <<config, calendar, pc, ctxDone, asked, response, result>>

-----------------------------------------------------------------------------
Goroutine(r) ==
  \/ ConsultFails(r)
  \/ \E x \in Extractions : AnswerRejected(r, x) \/ AnswerAccepted(r, x)
  \/ TokenUsed(r)
  \/ TokenUseless(r)
  \/ ProviderAnswers(r)
  \/ ProviderFails(r)

Google(r) ==
  \/ \E id \in EventIds : \/ InsertApplied(r, id)
                          \/ DeleteApplied(r, id)
                          \/ PatchApplied(r, id)
  \/ \E ids \in SUBSET EventIds : ListServed(r, ids)
  \/ GoogleRefuses(r)

(* Everything was answered and nothing is under way: the server may idle. *)
Quiescent ==
  /\ \A r \in Requests : pc[r] = "done" /\ call[r] # "sent" /\ ctxDone[r]
  /\ UNCHANGED vars

Next ==
  \/ \E r \in Requests : Start(r) \/ Goroutine(r) \/ ContextDone(r) \/ Google(r)
  \/ Quiescent

Spec == Init /\ [][Next]_vars

(***************************************************************************)
(* The 30-second timer of a LINE event fires, and once ctx has ended the   *)
(* gRPC client and the HTTP client return.  Nothing is assumed of Internal *)
(* or of Google's calendar.                                                *)
(***************************************************************************)
CtxReturns(r) == ctxDone[r] /\ (ConsultFails(r) \/ ProviderFails(r))

FairSpec ==
  /\ Spec
  /\ \A r \in Requests : WF_vars(ContextDone(r)) /\ WF_vars(CtxReturns(r))

(* Google's token endpoint answers, which no deadline of the code enforces. *)
TokenReturns(r) == TokenUsed(r) \/ TokenUseless(r)

TokenFairSpec == FairSpec /\ \A r \in Requests : WF_vars(TokenReturns(r))

-----------------------------------------------------------------------------
(* Properties. *)

(***************************************************************************)
(* Google is called only for an extraction that is complete, of a known    *)
(* kind and, where it has times, readable; and a request told it was       *)
(* refused, or that Internal failed, has not touched the calendar and      *)
(* never will, however late its call could be served.                      *)
(***************************************************************************)
OnlyAdmissibleCalls ==
  \A r \in Requests :
    /\ result[r].code \in EarlyCodes => call[r] = "none"
    /\ call[r] # "none" =>
         /\ config.configured
         /\ asked[r].operation \in Operations
         /\ \A f \in Required[asked[r].operation] : Trim[asked[r][f]] # ""
         /\ \A s \in Times(asked[r]) : config.zoneOK /\ Parse[s] # BadTime

(***************************************************************************)
(* What the user is told is what Google was asked to do: a request told    *)
(* "ok" was applied; a create reports the asked title and times, an update *)
(* the asked title under the asked id.                                     *)
(***************************************************************************)
ReportsWhatWasAsked ==
  \A r \in Requests : result[r].code = "ok" =>
    /\ call[r] = "applied"
    /\ asked[r].operation = "create" =>
         \E te \in result[r].events :
           /\ result[r].events = {te}
           /\ te.summary = Trim[asked[r].summary]
           /\ ParseInLocation(te.startAt) = Parse[asked[r].startAt]
           /\ ParseInLocation(te.endAt) = Parse[asked[r].endAt]
    /\ asked[r].operation = "update" =>
         \E te \in result[r].events :
           /\ result[r].events = {te}
           /\ te.eventId = asked[r].eventId
           /\ te.summary = Trim[asked[r].summary]

(***************************************************************************)
(* Two requests that were told an event was created were told of two       *)
(* events, and a request that was told its event was deleted can rely on   *)
(* the event being gone whatever other requests did since.                 *)
(***************************************************************************)
ReportsStayTrue ==
  \A r \in Requests : result[r].code = "ok" =>
    /\ asked[r].operation = "delete" =>
         asked[r].eventId \in EventIds /\ calendar[asked[r].eventId] = Gone
    /\ asked[r].operation = "create" =>
         \A q \in Requests \ {r} :
           result[q].code = "ok" /\ asked[q].operation = "create" =>
             \A te \in result[r].events, ue \in result[q].events :
               te.eventId # ue.eventId

(***************************************************************************)
(* A query reports no event outside the asked range, all-day events by     *)
(* their last second included.                                             *)
(***************************************************************************)
QueryReportsOverlap ==
  \A r \in Requests :
    result[r].code = "ok" /\ asked[r].operation = "query" =>
      \A te \in result[r].events :
        \E i \in response[r] :
          /\ te.eventId = i.id
          /\ i.event.start <= Parse[asked[r].queryEndAt]
          /\ EndInstant(i.event) >= Parse[asked[r].queryStartAt]

(***************************************************************************)
(* Whoever is told that the reply could not be formatted asked for a write *)
(* and Google has made it: the event is there, or was since deleted, with  *)
(* the asked title.  A query never ends so, its filter has parsed the same *)
(* times before.                                                           *)
(***************************************************************************)
FormatFailureMeansWritten ==
  \A r \in Requests : result[r].code = "CALENDAR_REPLY_FORMAT_FAILED" =>
    /\ asked[r].operation \in {"create", "update"}
    /\ \E i \in response[r] : /\ calendar[i.id] # Absent
                              /\ i.event.summary = asked[r].summary

(***************************************************************************)
(* What one step may do to one event: an event keeps its times for life,   *)
(* its place changes only to another place, a deleted id never comes back. *)
(***************************************************************************)
Evolves(old, new) ==
  \/ new = old
  \/ old = Absent /\ new # Gone
  \/ /\ old \notin {Absent, Gone}
     /\ \/ new = Gone
        \/ /\ new # Absent
           /\ new.start = old.start /\ new.end = old.end
           /\ new.allDay = old.allDay
           /\ new.location # old.location => ~Blank(new.location)

(* No update moves an event in time or erases its place (BDD, TDD). *)
EventsKeepTheirTimes ==
  [][\A id \in EventIds : Evolves(calendar[id], calendar'[id])]_vars

(***************************************************************************)
(* When Google serves a listing, what will be reported, if its answer      *)
(* arrives with its times given, is every live event that overlaps the     *)
(* asked range.                                                            *)
(***************************************************************************)
Overlapping(x) ==
  {id \in Live(calendar) : /\ calendar[id].start <= Parse[x.queryEndAt]
                           /\ EndInstant(calendar[id]) >= Parse[x.queryStartAt]}

(* The candidates of every listing under way fit on the one page asked for. *)
ListingsFit ==
  \A r \in Requests : Sent(r, "query") =>
    /\ IsFiniteSet(Candidates(asked[r]))
    /\ Cardinality(Candidates(asked[r])) <= PageSize

GivenReply(c, x, items) == Reply(c, x, items, [i \in items |-> "given"])

ListsAllOverlapping ==
  [][\A r \in Requests :
       Sent(r, "query") /\ call'[r] = "applied" =>
         {te.eventId : te \in GivenReply(config, asked[r], response'[r]).events}
           = Overlapping(asked[r])]_vars

(* A request that was started is answered, whatever Internal and the calendar do. *)
EveryRequestReturns ==
  \A r \in Requests : (pc[r] = "consult") ~> (pc[r] = "done")

=============================================================================
