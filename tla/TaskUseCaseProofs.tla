-------------------------- MODULE TaskUseCaseProofs --------------------------
(***************************************************************************)
(* What holds of TaskUseCase for any number of requests, any texts and     *)
(* moments, any extractions of Internal's and any calendar.                *)
(***************************************************************************)
EXTENDS TaskUseCase, TLAPS

(***************************************************************************)
(* A moment written by the Google client and read by the calendar service  *)
(* is that moment, although the service trims the text it reads.           *)
(***************************************************************************)
LEMMA LocalRoundTrip ==
  ASSUME NEW i \in Instants
  PROVE  /\ Local[i] \in Text
         /\ ParseInLocation(Local[i]) = i
         /\ ParseInLocation(Local[i]) # BadTime
<1>1. Local[i] \in Text /\ Parse[Local[i]] = i
  BY LocalAssumption
<1>2. i # BadTime
  BY ParseAssumption
<1>3. Trim[Local[i]] = Local[i]
  BY <1>1, <1>2, ParseAssumption
<1> QED
  BY <1>1, <1>2, <1>3 DEF ParseInLocation

(* The end of an event that is reported is a moment. *)
LEMMA EndIsInstant ==
  ASSUME NEW e \in GoogleEvent
  PROVE  EndInstant(e) \in Instants
BY DEF GoogleEvent, EndInstant

(* An event becomes an event of a reply; with its times given it formats. *)
LEMMA MapEventFormats ==
  ASSUME NEW id \in EventIds, NEW e \in GoogleEvent, NEW form
  PROVE  /\ MapEvent(id, e, form) \in TaskEvent
         /\ Formattable(MapEvent(id, e, "given"))
<1>1. e.start \in Instants /\ e.summary \in Text /\ e.location \in Text
  BY DEF GoogleEvent
<1>2. EndInstant(e) \in Instants
  BY EndIsInstant
<1>3. Trim[e.summary] \in Text /\ Trim[e.location] \in Text /\ id \in Text /\ "" \in Text
  BY <1>1, TrimAssumption, TaskAssumption
<1>4. /\ Local[e.start] \in Text /\ ParseInLocation(Local[e.start]) # BadTime
      /\ Local[EndInstant(e)] \in Text
      /\ ParseInLocation(Local[EndInstant(e)]) # BadTime
  BY <1>1, <1>2, LocalRoundTrip
<1> QED
  BY <1>3, <1>4 DEF MapEvent, TaskEvent, Formattable

(* An event that formats was given with both its times. *)
LEMMA FormattableIsGiven ==
  ASSUME NEW id, NEW e, NEW form \in Forms \ {"garbled"},
         Formattable(MapEvent(id, e, form))
  PROVE  form = "given"
<1>1. ParseInLocation("") = BadTime
  BY TrimAssumption, ParseAssumption DEF ParseInLocation
<1> QED
  BY <1>1 DEF Forms, MapEvent, Formattable

(***************************************************************************)
(* An operation whose call was served ends "ok", with the failure of its   *)
(* own operation, or because its reply could not be formatted.             *)
(***************************************************************************)
LEMMA ReplyResult ==
  ASSUME NEW c \in Configs, NEW x \in Extraction, x.operation \in Operations,
         NEW items \in SUBSET Item, NEW forms \in [items -> Forms]
  PROVE  /\ Reply(c, x, items, forms) \in Result
         /\ Reply(c, x, items, forms).code
              \in {"ok", FailureCode[x.operation], "CALENDAR_REPLY_FORMAT_FAILED"}
<1> DEFINE kept == Kept(x, items, forms)
<1>1. \A te \in Mapped(items, forms) : te \in TaskEvent
  BY MapEventFormats DEF Item, Mapped
<1>2. kept \in SUBSET TaskEvent
  BY <1>1 DEF Kept
<1>3. \/ Reply(c, x, items, forms) = [code |-> FailureCode[x.operation], events |-> {}]
      \/ Reply(c, x, items, forms)
           = [code |-> "CALENDAR_REPLY_FORMAT_FAILED", events |-> {}]
      \/ Reply(c, x, items, forms) = [code |-> "ok", events |-> kept]
  BY DEF Reply, ReplyWith
<1>4. FailureCode[x.operation] \in ErrorCodes /\ "CALENDAR_REPLY_FORMAT_FAILED" \in ErrorCodes
  BY DEF ErrorCodes
<1> HIDE DEF kept
<1> QED
  BY <1>2, <1>3, <1>4 DEF Result

(* The events of items whose times are all given. *)
LEMMA GivenMapped ==
  ASSUME NEW items
  PROVE  Mapped(items, [i \in items |-> "given"])
           = {MapEvent(i.id, i.event, "given") : i \in items}
BY DEF Mapped

(* The end of an operation whose answer gives all its times. *)
LEMMA GivenReplyIs ==
  ASSUME NEW c \in Configs, NEW x \in Extraction, NEW items \in SUBSET Item
  PROVE  GivenReply(c, x, items) =
           IF ~c.zoneOK /\ x.operation # "delete"
           THEN [code |-> FailureCode[x.operation], events |-> {}]
           ELSE [code |-> "ok",
                 events |-> {te \in {MapEvent(i.id, i.event, "given") : i \in items} :
                               x.operation = "query" => Overlaps(te, x)}]
<1> DEFINE given == [i \in items |-> "given"]
           mapped == {MapEvent(i.id, i.event, "given") : i \in items}
<1>1. Mapped(items, given) = mapped
  BY GivenMapped
<1>2. \A te \in mapped : Formattable(te)
  BY MapEventFormats DEF Item
<1>3. MappingFails(c, x, items, given) <=> ~c.zoneOK /\ x.operation # "delete"
  BY DEF MappingFails
<1>4. ~FilterFails(x, items, given)
  BY <1>1, <1>2 DEF FilterFails
<1>5. Kept(x, items, given) = {te \in mapped : x.operation = "query" => Overlaps(te, x)}
  BY <1>1 DEF Kept
<1>6. ReplyWith(Kept(x, items, given)) = [code |-> "ok", events |-> Kept(x, items, given)]
  BY <1>2, <1>5 DEF ReplyWith
<1> HIDE DEF given, mapped
<1>7. GivenReply(c, x, items) = Reply(c, x, items, given)
  BY DEF GivenReply, given
<1> QED
  BY <1>3, <1>4, <1>5, <1>6, <1>7 DEF Reply, mapped

(* A reply that is "ok" is built of events whose times were all given. *)
LEMMA OkIsGiven ==
  ASSUME NEW c \in Configs, NEW x \in Extraction, x.operation \in Operations,
         NEW items \in SUBSET Item, NEW forms \in [items -> Forms],
         Reply(c, x, items, forms).code = "ok"
  PROVE  Reply(c, x, items, forms) = GivenReply(c, x, items)
<1>1. FailureCode[x.operation] # "ok"
  BY DEF FailureCode, Operations
<1>2. /\ ~MappingFails(c, x, items, forms) /\ ~FilterFails(x, items, forms)
      /\ ReplyWith(Kept(x, items, forms)).code = "ok"
  BY <1>1 DEF Reply
<1>3. \A te \in Kept(x, items, forms) : Formattable(te)
  BY <1>2 DEF ReplyWith
<1>4. \A te \in Mapped(items, forms) : Formattable(te)
  <2>1. CASE x.operation = "query"
    BY <1>2, <2>1 DEF FilterFails
  <2>2. CASE x.operation # "query"
    BY <1>3, <2>2 DEF Kept
  <2> QED
    BY <2>1, <2>2
<1>5. \A i \in items : forms[i] = "given"
  <2> SUFFICES ASSUME NEW i \in items
               PROVE  forms[i] = "given"
    OBVIOUS
  <2>1. forms[i] \in Forms \ {"garbled"}
    BY <1>2 DEF MappingFails
  <2>2. Formattable(MapEvent(i.id, i.event, forms[i]))
    BY <1>4 DEF Mapped
  <2> QED
    BY <2>1, <2>2, FormattableIsGiven
<1>6. forms = [i \in items |-> "given"]
  BY <1>5
<1> QED
  BY <1>6 DEF GivenReply

(* Only the reply of a create or an update can fail to format. *)
LEMMA FormatFailureIsWrite ==
  ASSUME NEW c \in Configs, NEW x \in Extraction, x.operation \in Operations,
         NEW items, NEW forms, x.operation = "delete" => items = {},
         Reply(c, x, items, forms).code = "CALENDAR_REPLY_FORMAT_FAILED"
  PROVE  x.operation \in {"create", "update"}
<1>1. FailureCode[x.operation] # "CALENDAR_REPLY_FORMAT_FAILED"
  BY DEF FailureCode, Operations
<1>2. /\ ~FilterFails(x, items, forms)
      /\ ReplyWith(Kept(x, items, forms)).code = "CALENDAR_REPLY_FORMAT_FAILED"
  BY <1>1 DEF Reply
<1>3. PICK te \in Mapped(items, forms) : ~Formattable(te)
  BY <1>2 DEF ReplyWith, Kept
<1>4. x.operation # "query" /\ items # {}
  BY <1>2, <1>3 DEF FilterFails, Mapped
<1> QED
  BY <1>4 DEF Operations

(* A refusal is "ok" or an error code. *)
LEMMA RefusalIsCode ==
  ASSUME NEW c \in Configs, NEW x \in Extraction
  PROVE  /\ Refusal(c, x) \in ErrorCodes \cup {"ok"}
         /\ Refusal(c, x) # "none"
         /\ Refusal(c, x) # "CALENDAR_REPLY_FORMAT_FAILED"
BY DEF Refusal, ErrorCodes, FailureCode, Operations

(* What the validations let through. *)
LEMMA AdmissibleExtraction ==
  ASSUME NEW c \in Configs, NEW x \in Extraction, Refusal(c, x) = "ok"
  PROVE  /\ c.configured
         /\ x.operation \in Operations
         /\ \A f \in Required[x.operation] : Trim[x[f]] # ""
         /\ \A s \in Times(x) : c.zoneOK /\ Parse[s] # BadTime
<1>1. x.operation \in Operations /\ c.configured /\ ~Incomplete(x)
  BY DEF Refusal
<1>2. FailureCode[x.operation] # "ok"
  BY <1>1 DEF FailureCode, Operations
<1>3. ~Unparseable(c.zoneOK, x)
  BY <1>1, <1>2 DEF Refusal
<1> QED
  BY <1>1, <1>3 DEF Incomplete, Blank, Unparseable, IsTime

(* What an admissible create inserts is an event. *)
LEMMA InsertedIsEvent ==
  ASSUME NEW c \in Configs, NEW x \in Extraction, Refusal(c, x) = "ok",
         x.operation = "create", InsertedEvent(x).start <= InsertedEvent(x).end
  PROVE  InsertedEvent(x) \in GoogleEvent
<1>1. Parse[x.startAt] # BadTime /\ Parse[x.endAt] # BadTime
  BY AdmissibleExtraction DEF Times
<1>2. x.startAt \in Text /\ x.endAt \in Text /\ x.summary \in Text /\ x.location \in Text
  BY DEF Extraction
<1>3. Parse[x.startAt] \in Instants /\ Parse[x.endAt] \in Instants
  BY <1>1, <1>2, ParseAssumption
<1> QED
  BY <1>2, <1>3 DEF InsertedEvent, GoogleEvent

(* What a patch leaves is an event with the times it had. *)
LEMMA PatchedIsEvent ==
  ASSUME NEW e \in GoogleEvent, NEW x \in Extraction
  PROVE  /\ PatchedEvent(e, x) \in GoogleEvent
         /\ PatchedEvent(e, x).start = e.start
         /\ PatchedEvent(e, x).end = e.end
         /\ PatchedEvent(e, x).allDay = e.allDay
         /\ PatchedEvent(e, x).summary = x.summary
         /\ PatchedEvent(e, x).location # e.location =>
              ~Blank(PatchedEvent(e, x).location)
BY DEF PatchedEvent, GoogleEvent, Extraction

-----------------------------------------------------------------------------
(* The validations of r are behind it. *)
Admitted(r) == pc[r] = "token" \/ call[r] # "none"

(***************************************************************************)
(* The inductive invariant.  Stages ties the four things a request keeps   *)
(* to the stage its goroutine is at; it is what TypeOK lacks to be able to *)
(* say what a late effect or a late answer finds.                          *)
(***************************************************************************)
Stages ==
  \A r \in Requests :
    /\ pc[r] \in {"idle", "consult"} =>
         asked[r] = NoExtraction /\ call[r] = "none" /\ result[r] = NoResult
    /\ pc[r] = "token" => call[r] = "none" /\ result[r] = NoResult
    /\ pc[r] = "provider" => call[r] # "none" /\ result[r] = NoResult
    /\ pc[r] = "done" => result[r].code # "none"
    /\ call[r] # "applied" => response[r] = {}
    /\ call[r] = "none" => result[r].code \notin {"ok", "CALENDAR_REPLY_FORMAT_FAILED"}
    /\ Admitted(r) =>
         /\ asked[r] \in Extractions
         /\ Refusal(config, asked[r]) = "ok"
    /\ call[r] # "none" =>
         /\ pc[r] \in {"provider", "done"}
         /\ result[r].code \in {"none", "ok", FailureCode[asked[r].operation],
                                "CALENDAR_REPLY_FORMAT_FAILED"}

IndInv == TypeOK /\ Stages

USE DEF Configs, NoResult, Failure, Admitted

(* The program starts in the invariant. *)
LEMMA InitInv == Init => IndInv
<1> SUFFICES ASSUME Init PROVE IndInv
  OBVIOUS
<1>1. TypeOK
  BY TaskAssumption DEF Init, TypeOK, Result
<1>2. Stages
  BY DEF Init, Stages
<1> QED
  BY <1>1, <1>2 DEF IndInv

(* What is known of a request whose validations are behind it. *)
LEMMA SentFacts ==
  ASSUME IndInv, NEW r \in Requests, Admitted(r)
  PROVE  /\ asked[r] \in Extraction
         /\ Refusal(config, asked[r]) = "ok"
         /\ config \in Configs
         /\ asked[r].operation \in Operations
<1>1. asked[r] \in Extraction /\ Refusal(config, asked[r]) = "ok" /\ config \in Configs
  BY TaskAssumption DEF IndInv, Stages, TypeOK
<1> QED
  BY <1>1, AdmissibleExtraction

(* A live id holds an event. *)
LEMMA LiveIsEvent ==
  ASSUME TypeOK, NEW id \in EventIds, id \in Live(calendar)
  PROVE  calendar[id] \in GoogleEvent
BY DEF TypeOK, Live

(* A failure code is an error code of its own, and no early one. *)
LEMMA FailureCodes ==
  ASSUME NEW op \in Operations
  PROVE  /\ FailureCode[op] \in ErrorCodes
         /\ FailureCode[op] \notin EarlyCodes
         /\ FailureCode[op] \notin {"none", "ok", "CALENDAR_REPLY_FORMAT_FAILED"}
BY DEF FailureCode, Operations, ErrorCodes, EarlyCodes

(* A step of Google's that serves a call of r with items. *)
LEMMA AppliedInv ==
  ASSUME IndInv, NEW r \in Requests, call[r] = "sent",
         NEW items \in SUBSET Item, Applied(r, items),
         calendar' \in [EventIds -> GoogleEvent \cup {Absent, Gone}]
  PROVE  IndInv'
<1>1. TypeOK'
  BY DEF IndInv, TypeOK, Applied
<1>2. Stages'
  BY DEF IndInv, TypeOK, Stages, Applied
<1> QED
  BY <1>1, <1>2 DEF IndInv

(* An insertion takes a new id for a well-formed event. *)
LEMMA InsertInv ==
  ASSUME IndInv, NEW r \in Requests, NEW id \in EventIds, InsertApplied(r, id)
  PROVE  IndInv'
<1> DEFINE e == InsertedEvent(asked[r])
<1>1. call[r] = "sent" /\ asked[r].operation = "create" /\ e.start <= e.end
  BY DEF InsertApplied, Sent
<1>2. e \in GoogleEvent
  BY <1>1, SentFacts, InsertedIsEvent
<1>3. {Item1(id, e)} \in SUBSET Item
  BY <1>2 DEF Item, Item1
<1>4. calendar' \in [EventIds -> GoogleEvent \cup {Absent, Gone}]
  BY <1>2 DEF InsertApplied, IndInv, TypeOK
<1>5. Applied(r, {Item1(id, e)})
  BY DEF InsertApplied
<1> QED
  BY <1>1, <1>3, <1>4, <1>5, AppliedInv

(* A deletion leaves the id marked. *)
LEMMA DeleteInv ==
  ASSUME IndInv, NEW r \in Requests, NEW id \in EventIds, DeleteApplied(r, id)
  PROVE  IndInv'
<1>1. call[r] = "sent" /\ Applied(r, {})
  BY DEF DeleteApplied, Sent
<1>2. calendar' \in [EventIds -> GoogleEvent \cup {Absent, Gone}]
  BY DEF DeleteApplied, IndInv, TypeOK
<1> QED
  BY <1>1, <1>2, AppliedInv

(* A patch leaves a well-formed event. *)
LEMMA PatchInv ==
  ASSUME IndInv, NEW r \in Requests, NEW id \in EventIds, PatchApplied(r, id)
  PROVE  IndInv'
<1> DEFINE e == PatchedEvent(calendar[id], asked[r])
<1>1. call[r] = "sent" /\ id \in Live(calendar) /\ Applied(r, {Item1(id, e)})
  BY DEF PatchApplied, Sent
<1>2. calendar[id] \in GoogleEvent
  BY <1>1, LiveIsEvent DEF IndInv
<1>3. e \in GoogleEvent
  BY <1>1, <1>2, SentFacts, PatchedIsEvent
<1>4. {Item1(id, e)} \in SUBSET Item
  BY <1>3 DEF Item, Item1
<1>5. calendar' \in [EventIds -> GoogleEvent \cup {Absent, Gone}]
  BY <1>3 DEF PatchApplied, IndInv, TypeOK
<1> QED
  BY <1>1, <1>4, <1>5, AppliedInv

(* A listing answers with well-formed items. *)
LEMMA ListInv ==
  ASSUME IndInv, NEW r \in Requests, NEW ids \in SUBSET EventIds, ListServed(r, ids)
  PROVE  IndInv'
<1> DEFINE items == {Item1(id, calendar[id]) : id \in ids}
<1>1. call[r] = "sent" /\ Applied(r, items) /\ UNCHANGED calendar
  BY DEF ListServed, Sent
<1>2. \A id \in ids : id \in Live(calendar)
  BY DEF ListServed, FirstPage, Candidates
<1>3. \A id \in ids : Item1(id, calendar[id]) \in Item
  BY <1>2, LiveIsEvent DEF IndInv, Item, Item1
<1>4. items \in SUBSET Item
  BY <1>3
<1>5. calendar' \in [EventIds -> GoogleEvent \cup {Absent, Gone}]
  BY <1>1 DEF IndInv, TypeOK
<1> QED
  BY <1>1, <1>4, <1>5, AppliedInv

(* The goroutine's own steps. *)
LEMMA GoroutineInv ==
  ASSUME IndInv, NEW r \in Requests, Start(r) \/ Goroutine(r)
  PROVE  IndInv'
<1> USE DEF IndInv, TypeOK, Stages
<1>1. CASE Start(r)
  BY <1>1 DEF Start
<1>2. CASE ConsultFails(r)
  <2>1. Failure("INTERNAL_GRPC_ERROR") \in Result
    BY DEF Result, ErrorCodes
  <2> QED
    BY <1>2, <2>1 DEF ConsultFails, Return
<1>3. ASSUME NEW x \in Extractions, AnswerRejected(r, x)
      PROVE  IndInv'
  <2>1. /\ x \in Extraction
        /\ Refusal(config, x) \in ErrorCodes \cup {"ok"}
        /\ Refusal(config, x) \notin {"none", "CALENDAR_REPLY_FORMAT_FAILED"}
    BY TaskAssumption, RefusalIsCode
  <2>2. Failure(Refusal(config, x)) \in Result
    BY <2>1 DEF Result
  <2> QED
    BY <1>3, <2>1, <2>2 DEF AnswerRejected, Return
<1>4. ASSUME NEW x \in Extractions, AnswerAccepted(r, x)
      PROVE  IndInv'
  BY <1>4 DEF AnswerAccepted
<1>5. CASE TokenUsed(r)
  BY <1>5 DEF TokenUsed
<1>6. CASE TokenUseless(r)
  <2>1. Admitted(r)
    BY <1>6 DEF TokenUseless
  <2>2. /\ Failure(FailureCode[asked[r].operation]) \in Result
        /\ FailureCode[asked[r].operation]
             \notin {"none", "ok", "CALENDAR_REPLY_FORMAT_FAILED"}
    BY <2>1, SentFacts, FailureCodes DEF Result
  <2> QED
    BY <1>6, <2>2 DEF TokenUseless, Return
<1>7. CASE ProviderAnswers(r)
  <2>1. call[r] # "none"
    BY <1>7 DEF ProviderAnswers
  <2>2. PICK forms \in [response[r] -> Forms] :
          Return(r, Reply(config, asked[r], response[r], forms))
    BY <1>7 DEF ProviderAnswers
  <2> DEFINE rep == Reply(config, asked[r], response[r], forms)
  <2>3. /\ rep \in Result
        /\ rep.code \in {"ok", FailureCode[asked[r].operation],
                         "CALENDAR_REPLY_FORMAT_FAILED"}
        /\ FailureCode[asked[r].operation] # "none"
    BY <2>1, SentFacts, ReplyResult, FailureCodes
  <2>4. Return(r, rep)
    BY <2>2
  <2> HIDE DEF rep
  <2> QED
    BY <1>7, <2>3, <2>4 DEF ProviderAnswers, Return
<1>8. CASE ProviderFails(r)
  <2>1. call[r] # "none"
    BY <1>8 DEF ProviderFails
  <2>2. /\ Failure(FailureCode[asked[r].operation]) \in Result
        /\ FailureCode[asked[r].operation] # "none"
    BY <2>1, SentFacts, FailureCodes DEF Result
  <2> QED
    BY <1>8, <2>2 DEF ProviderFails, Return
<1> QED
  BY <1>1, <1>2, <1>3, <1>4, <1>5, <1>6, <1>7, <1>8 DEF Goroutine

(* Every step keeps the invariant. *)
LEMMA StepInv == IndInv /\ [Next]_vars => IndInv'
<1> SUFFICES ASSUME IndInv, [Next]_vars
             PROVE  IndInv'
  OBVIOUS
<1>1. ASSUME NEW r \in Requests, Start(r) \/ Goroutine(r)
      PROVE  IndInv'
  BY <1>1, GoroutineInv
<1>2. ASSUME NEW r \in Requests, ContextDone(r)
      PROVE  IndInv'
  BY <1>2 DEF ContextDone, IndInv, TypeOK, Stages
<1>3. ASSUME NEW r \in Requests, Google(r)
      PROVE  IndInv'
  <2>1. CASE GoogleRefuses(r)
    BY <2>1 DEF GoogleRefuses, IndInv, TypeOK, Stages
  <2> QED
    BY <1>3, <2>1, InsertInv, DeleteInv, PatchInv, ListInv DEF Google
<1>4. CASE UNCHANGED vars
  BY <1>4 DEF vars, IndInv, TypeOK, Stages
<1> QED
  BY <1>1, <1>2, <1>3, <1>4 DEF Next, Quiescent

(* IndInv holds in every reachable state. *)
THEOREM Invariance == Spec => []IndInv
BY InitInv, StepInv, PTL DEF Spec

(***************************************************************************)
(* Every variable keeps its type: in particular every reply is built of    *)
(* well-formed events and every error of a known code.                     *)
(***************************************************************************)
THEOREM TypeCorrect == Spec => []TypeOK
BY Invariance, PTL DEF IndInv

-----------------------------------------------------------------------------
(* Safety that follows from the inductive invariant. *)

(***************************************************************************)
(* No incomplete, unsupported or unreadable extraction ever reaches        *)
(* Google, and a request that was refused never changes the calendar.      *)
(***************************************************************************)
THEOREM AdmissibleCalls == Spec => []OnlyAdmissibleCalls
<1>1. IndInv => OnlyAdmissibleCalls
  <2> SUFFICES ASSUME IndInv, NEW r \in Requests, call[r] # "none"
               PROVE  /\ result[r].code \notin EarlyCodes
                      /\ config.configured
                      /\ asked[r].operation \in Operations
                      /\ \A f \in Required[asked[r].operation] : Trim[asked[r][f]] # ""
                      /\ \A s \in Times(asked[r]) : config.zoneOK /\ Parse[s] # BadTime
    BY DEF OnlyAdmissibleCalls
  <2>1. /\ asked[r] \in Extraction /\ Refusal(config, asked[r]) = "ok"
        /\ config \in Configs /\ asked[r].operation \in Operations
    BY SentFacts
  <2>2. result[r].code \in {"none", "ok", FailureCode[asked[r].operation],
                            "CALENDAR_REPLY_FORMAT_FAILED"}
    BY DEF IndInv, Stages
  <2>3. result[r].code \notin EarlyCodes
    BY <2>1, <2>2, FailureCodes DEF EarlyCodes
  <2> QED
    BY <2>1, <2>3, AdmissibleExtraction
<1> QED
  BY <1>1, Invariance, PTL

-----------------------------------------------------------------------------
(* What a step does to the events. *)

(* Every step lets every event only evolve. *)
LEMMA StepEvolves ==
  ASSUME IndInv, [Next]_vars
  PROVE  \A id \in EventIds : Evolves(calendar[id], calendar'[id])
<1> SUFFICES ASSUME NEW id \in EventIds
             PROVE  Evolves(calendar[id], calendar'[id])
  OBVIOUS
<1>0. TypeOK
  BY DEF IndInv
<1>1. ASSUME calendar' = calendar
      PROVE  Evolves(calendar[id], calendar'[id])
  BY <1>1 DEF Evolves
<1>2. ASSUME NEW r \in Requests, NEW i \in EventIds, InsertApplied(r, i)
      PROVE  Evolves(calendar[id], calendar'[id])
  <2>1. InsertedEvent(asked[r]) \in GoogleEvent
    BY <1>2, SentFacts, InsertedIsEvent DEF InsertApplied, Sent
  <2>2. InsertedEvent(asked[r]) # Gone
    BY <2>1, TaskAssumption
  <2> QED
    BY <1>0, <1>2, <2>2 DEF InsertApplied, Evolves, TypeOK
<1>3. ASSUME NEW r \in Requests, NEW i \in EventIds, DeleteApplied(r, i)
      PROVE  Evolves(calendar[id], calendar'[id])
  BY <1>0, <1>3 DEF DeleteApplied, Live, Evolves, TypeOK
<1>4. ASSUME NEW r \in Requests, NEW i \in EventIds, PatchApplied(r, i)
      PROVE  Evolves(calendar[id], calendar'[id])
  <2> DEFINE e == PatchedEvent(calendar[i], asked[r])
  <2>1. call[r] = "sent" /\ i \in Live(calendar) /\ calendar' = [calendar EXCEPT ![i] = e]
    BY <1>4 DEF PatchApplied, Sent
  <2>2. calendar[i] \in GoogleEvent
    BY <1>0, <2>1, LiveIsEvent
  <2>3. /\ e \in GoogleEvent
        /\ e.start = calendar[i].start /\ e.end = calendar[i].end
        /\ e.allDay = calendar[i].allDay
        /\ e.location # calendar[i].location => ~Blank(e.location)
    BY <2>1, <2>2, SentFacts, PatchedIsEvent
  <2>4. e # Absent /\ calendar[i] \notin {Absent, Gone}
    BY <2>1, <2>3, TaskAssumption DEF Live
  <2>5. Evolves(calendar[i], e)
    BY <2>3, <2>4 DEF Evolves
  <2>6. calendar'[id] = IF id = i THEN e ELSE calendar[id]
    BY <1>0, <2>1 DEF TypeOK
  <2>7. Evolves(calendar[id], calendar[id])
    BY DEF Evolves
  <2> QED
    BY <2>5, <2>6, <2>7
<1>5. ASSUME NEW r \in Requests, Start(r) \/ Goroutine(r) \/ ContextDone(r)
      PROVE  calendar' = calendar
  BY <1>5 DEF Start, Goroutine, ContextDone, ConsultFails, AnswerRejected,
              AnswerAccepted, TokenUsed, TokenUseless, ProviderAnswers, ProviderFails
<1>6. ASSUME NEW r \in Requests,
             GoogleRefuses(r) \/ \E ids \in SUBSET EventIds : ListServed(r, ids)
      PROVE  calendar' = calendar
  BY <1>6 DEF GoogleRefuses, ListServed
<1>7. ASSUME UNCHANGED vars
      PROVE  calendar' = calendar
  BY <1>7 DEF vars
<1> QED
  BY <1>1, <1>2, <1>3, <1>4, <1>5, <1>6, <1>7 DEF Next, Google, Quiescent

(***************************************************************************)
(* In every step of every run an event keeps its times, its place is never *)
(* erased and a deleted event stays deleted.                               *)
(***************************************************************************)
THEOREM TimesKept == Spec => EventsKeepTheirTimes
<1>1. IndInv /\ [Next]_vars =>
        [\A id \in EventIds : Evolves(calendar[id], calendar'[id])]_vars
  BY StepEvolves
<1> QED
  BY <1>1, Invariance, PTL DEF Spec, EventsKeepTheirTimes

-----------------------------------------------------------------------------
(***************************************************************************)
(* What the answer to a served call says, and what the calendar keeps of   *)
(* it: a created event's id is taken for good, a deleted one is gone for   *)
(* good.  Inductive together with IndInv.                                  *)
(***************************************************************************)
Served(r) ==
  /\ asked[r].operation = "create" =>
       \E id \in EventIds : /\ response[r] = {Item1(id, InsertedEvent(asked[r]))}
                            /\ InsertedEvent(asked[r]) \in GoogleEvent
                            /\ calendar[id] # Absent
  /\ asked[r].operation = "update" =>
       \E e \in GoogleEvent : /\ response[r] = {Item1(asked[r].eventId, e)}
                              /\ asked[r].eventId \in EventIds
                              /\ calendar[asked[r].eventId] # Absent
                              /\ e.summary = asked[r].summary
  /\ asked[r].operation = "delete" =>
       /\ asked[r].eventId \in EventIds /\ calendar[asked[r].eventId] = Gone
       /\ response[r] = {}

Told(r) ==
  /\ result[r].code = "ok" =>
       /\ call[r] = "applied"
       /\ result[r] = GivenReply(config, asked[r], response[r])
  /\ result[r].code = "CALENDAR_REPLY_FORMAT_FAILED" =>
       call[r] = "applied" /\ asked[r].operation \in {"create", "update"}

Created(r) == call[r] = "applied" /\ asked[r].operation = "create"

(* No two requests are given the same new id. *)
OwnIds ==
  \A r, q \in Requests : r # q /\ Created(r) /\ Created(q) =>
    \A i \in response[r], j \in response[q] : i.id # j.id

ServedInv ==
  /\ \A r \in Requests : (call[r] = "applied" => Served(r)) /\ Told(r)
  /\ OwnIds

(* Nothing is served at the start. *)
LEMMA InitServed == Init => ServedInv
BY DEF Init, ServedInv, Told, OwnIds, Created

(* What Google served stays served while other requests go on. *)
LEMMA ServedStays ==
  ASSUME IndInv, [Next]_vars, NEW r \in Requests, call[r] = "applied", Served(r),
         call'[r] = "applied", asked'[r] = asked[r], response'[r] = response[r]
  PROVE  Served(r)'
<1>1. \A id \in EventIds : Evolves(calendar[id], calendar'[id])
  BY StepEvolves
<1>2. \A id \in EventIds : calendar[id] # Absent => calendar'[id] # Absent
  BY <1>1, TaskAssumption DEF Evolves
<1>3. \A id \in EventIds : calendar[id] = Gone => calendar'[id] = Gone
  BY <1>1, TaskAssumption DEF Evolves
<1> QED
  BY <1>2, <1>3 DEF Served, InsertedEvent

(* The step in which Google serves a call establishes what it says. *)
LEMMA ServedNow ==
  ASSUME IndInv, NEW r \in Requests, Google(r), call'[r] = "applied"
  PROVE  Served(r)'
<1>0. TypeOK /\ call[r] # "none"
  BY DEF IndInv, Google, GoogleRefuses, InsertApplied, DeleteApplied, PatchApplied,
         ListServed, Sent
<1>1. ASSUME NEW id \in EventIds, InsertApplied(r, id)
      PROVE  Served(r)'
  <2> DEFINE e == InsertedEvent(asked[r])
  <2>1. /\ asked[r].operation = "create" /\ e.start <= e.end /\ asked' = asked
        /\ response' = [response EXCEPT ![r] = {Item1(id, e)}]
        /\ calendar' = [calendar EXCEPT ![id] = e]
    BY <1>1 DEF InsertApplied, Sent, Applied
  <2>2. e \in GoogleEvent
    BY <1>0, <2>1, SentFacts, InsertedIsEvent
  <2>3. calendar'[id] # Absent
    BY <1>0, <2>1, <2>2, TaskAssumption DEF TypeOK
  <2>4. response'[r] = {Item1(id, e)}
    BY <1>0, <2>1 DEF TypeOK
  <2> QED
    BY <2>1, <2>2, <2>3, <2>4 DEF Served, InsertedEvent
<1>2. ASSUME NEW id \in EventIds, DeleteApplied(r, id)
      PROVE  Served(r)'
  BY <1>0, <1>2 DEF DeleteApplied, Sent, Applied, Served, TypeOK
<1>3. ASSUME NEW id \in EventIds, PatchApplied(r, id)
      PROVE  Served(r)'
  <2> DEFINE e == PatchedEvent(calendar[id], asked[r])
  <2>1. /\ asked[r].operation = "update" /\ asked' = asked /\ id = asked[r].eventId
        /\ id \in Live(calendar)
        /\ response' = [response EXCEPT ![r] = {Item1(id, e)}]
        /\ calendar' = [calendar EXCEPT ![id] = e]
    BY <1>3 DEF PatchApplied, Sent, Applied
  <2>2. e \in GoogleEvent /\ e.summary = asked[r].summary
    BY <1>0, <2>1, LiveIsEvent, SentFacts, PatchedIsEvent
  <2>3. response'[r] = {Item1(id, e)}
    BY <1>0, <2>1 DEF TypeOK
  <2>4. calendar'[id] # Absent
    BY <1>0, <2>1, <2>2, TaskAssumption DEF TypeOK
  <2> QED
    BY <2>1, <2>2, <2>3, <2>4 DEF Served
<1>4. ASSUME NEW ids \in SUBSET EventIds, ListServed(r, ids)
      PROVE  Served(r)'
  BY <1>4 DEF ListServed, Sent, Applied, Served
<1>5. ~GoogleRefuses(r)
  BY <1>0 DEF GoogleRefuses, TypeOK
<1> QED
  BY <1>1, <1>2, <1>3, <1>4, <1>5 DEF Google

(* A step of r's goroutine; it says "ok" only with Google's answer. *)
LEMMA ToldByGoroutine ==
  ASSUME IndInv, NEW r \in Requests, Goroutine(r), Told(r),
         call[r] = "applied" => Served(r)
  PROVE  Told(r)'
<1> USE DEF Told, IndInv, TypeOK, Return
<1>1. CASE ConsultFails(r)
  BY <1>1 DEF ConsultFails
<1>2. ASSUME NEW x \in Extractions, AnswerRejected(r, x)
      PROVE  Told(r)'
  <2>1. Refusal(config, x) # "CALENDAR_REPLY_FORMAT_FAILED"
    BY TaskAssumption, RefusalIsCode
  <2> QED
    BY <1>2, <2>1 DEF AnswerRejected
<1>3. ASSUME NEW x \in Extractions, AnswerAccepted(r, x)
      PROVE  Told(r)'
  BY <1>3 DEF AnswerAccepted, Stages
<1>4. CASE TokenUsed(r)
  BY <1>4 DEF TokenUsed, Stages
<1>5. CASE TokenUseless(r)
  <2>1. FailureCode[asked[r].operation] \notin {"ok", "CALENDAR_REPLY_FORMAT_FAILED"}
    BY <1>5, SentFacts, FailureCodes DEF TokenUseless
  <2> QED
    BY <1>5, <2>1 DEF TokenUseless
<1>6. CASE ProviderAnswers(r)
  <2>1. PICK forms \in [response[r] -> Forms] :
          Return(r, Reply(config, asked[r], response[r], forms))
    BY <1>6 DEF ProviderAnswers
  <2> DEFINE rep == Reply(config, asked[r], response[r], forms)
  <2>2. /\ result'[r] = rep /\ call[r] = "applied" /\ call' = call
        /\ asked' = asked /\ response' = response /\ config' = config
    BY <1>6, <2>1 DEF ProviderAnswers
  <2>3. /\ asked[r] \in Extraction /\ config \in Configs
        /\ asked[r].operation \in Operations /\ response[r] \in SUBSET Item
    BY <2>2, SentFacts
  <2>4. asked[r].operation = "delete" => response[r] = {}
    BY <2>2 DEF Served
  <2>5. rep.code = "ok" => rep = GivenReply(config, asked[r], response[r])
    BY <2>3, OkIsGiven
  <2>6. rep.code = "CALENDAR_REPLY_FORMAT_FAILED" =>
          asked[r].operation \in {"create", "update"}
    BY <2>3, <2>4, FormatFailureIsWrite
  <2> HIDE DEF rep
  <2> QED
    BY <2>2, <2>5, <2>6 DEF GivenReply
<1>7. CASE ProviderFails(r)
  <2>1. FailureCode[asked[r].operation] \notin {"ok", "CALENDAR_REPLY_FORMAT_FAILED"}
    BY <1>7, SentFacts, FailureCodes DEF ProviderFails, Stages
  <2> QED
    BY <1>7, <2>1 DEF ProviderFails
<1> QED
  BY <1>1, <1>2, <1>3, <1>4, <1>5, <1>6, <1>7 DEF Goroutine

(* A step leaves what it does not name of another request as it was. *)
Unmoved(q) ==
  /\ call'[q] = call[q] /\ asked'[q] = asked[q]
  /\ response'[q] = response[q] /\ result'[q] = result[q]

(* One request's step moves no other request. *)
LEMMA OthersUnmoved ==
  ASSUME IndInv, NEW r \in Requests, NEW q \in Requests \ {r},
         Start(r) \/ Goroutine(r) \/ ContextDone(r) \/ Google(r)
  PROVE  Unmoved(q) /\ config' = config
<1> USE DEF IndInv, TypeOK, Unmoved
<1>1. CASE Start(r) \/ ContextDone(r)
  BY <1>1 DEF Start, ContextDone
<1>2. CASE Goroutine(r)
  BY <1>2 DEF Goroutine, ConsultFails, AnswerRejected, AnswerAccepted,
              TokenUsed, TokenUseless, ProviderAnswers, ProviderFails, Return
<1>3. CASE Google(r)
  BY <1>3 DEF Google, InsertApplied, DeleteApplied, PatchApplied, ListServed,
              GoogleRefuses, Applied
<1> QED
  BY <1>1, <1>2, <1>3

(* Nothing but Google's own step makes a call applied. *)
LEMMA OwnStep ==
  ASSUME IndInv, NEW r \in Requests,
         Start(r) \/ Goroutine(r) \/ ContextDone(r) \/ GoogleRefuses(r),
         call'[r] = "applied"
  PROVE  /\ call[r] = "applied" /\ asked'[r] = asked[r]
         /\ response'[r] = response[r]
<1> USE DEF IndInv, TypeOK
<1>1. CASE Start(r) \/ ContextDone(r) \/ GoogleRefuses(r)
  BY <1>1 DEF Start, ContextDone, GoogleRefuses
<1>2. CASE Goroutine(r)
  BY <1>2 DEF Goroutine, ConsultFails, AnswerRejected, AnswerAccepted,
              TokenUsed, TokenUseless, ProviderAnswers, ProviderFails, Return, Stages
<1> QED
  BY <1>1, <1>2

(* Every step of a request, or of Google for it, keeps ServedInv. *)
LEMMA ServedStep ==
  ASSUME IndInv, ServedInv, NEW r \in Requests,
         Start(r) \/ Goroutine(r) \/ ContextDone(r) \/ Google(r)
  PROVE  ServedInv'
<1>0. [Next]_vars
  BY DEF Next
<1>1. \A q \in Requests : call'[q] = "applied" => Served(q)'
  <2> SUFFICES ASSUME NEW q \in Requests, call'[q] = "applied"
               PROVE  Served(q)'
    OBVIOUS
  <2>1. CASE q # r
    BY <1>0, <2>1, OthersUnmoved, ServedStays DEF ServedInv, Unmoved
  <2>2. CASE q = r /\ Google(r)
    BY <2>2, ServedNow
  <2>3. CASE q = r /\ ~Google(r)
    BY <1>0, <2>3, OwnStep, ServedStays DEF ServedInv
  <2> QED
    BY <2>1, <2>2, <2>3
<1>2. \A q \in Requests : Told(q)'
  <2> SUFFICES ASSUME NEW q \in Requests
               PROVE  Told(q)'
    OBVIOUS
  <2>1. CASE q # r
    BY <2>1, OthersUnmoved DEF ServedInv, Told, Unmoved
  <2>2. CASE q = r /\ Goroutine(r)
    BY <2>2, ToldByGoroutine DEF ServedInv
  <2>3. CASE q = r /\ (Start(r) \/ ContextDone(r))
    BY <2>3 DEF Start, ContextDone, ServedInv, Told
  <2>4. CASE q = r /\ Google(r)
    <3>1. call[r] = "sent" /\ result' = result
      BY <2>4 DEF Google, InsertApplied, DeleteApplied, PatchApplied, ListServed,
                  GoogleRefuses, Applied, Sent
    <3> QED
      BY <2>4, <3>1 DEF ServedInv, Told
  <2> QED
    BY <2>1, <2>2, <2>3, <2>4
<1>3. ASSUME NEW id \in EventIds, InsertApplied(r, id)
      PROVE  \A q \in Requests \ {r} : Created(q) =>
               \A i \in response[q] : i.id # id
  <2> SUFFICES ASSUME NEW q \in Requests \ {r}, Created(q)
               PROVE  \A i \in response[q] : i.id # id
    OBVIOUS
  <2>1. PICK k \in EventIds : /\ response[q] = {Item1(k, InsertedEvent(asked[q]))}
                              /\ calendar[k] # Absent
    BY DEF ServedInv, Served, Created
  <2>2. calendar[id] = Absent
    BY <1>3 DEF InsertApplied
  <2> QED
    BY <2>1, <2>2 DEF Item1
<1>4. OwnIds'
  <2> SUFFICES ASSUME NEW p \in Requests, NEW q \in Requests, p # q,
                      Created(p)', Created(q)'
               PROVE  \A i \in response'[p], j \in response'[q] : i.id # j.id
    BY DEF OwnIds
  <2>1. \A s \in Requests \ {r} : Created(s)' => Created(s) /\ response'[s] = response[s]
    BY OthersUnmoved DEF Created, Unmoved
  <2>2. CASE \E id \in EventIds : InsertApplied(r, id)
    <3>1. PICK id \in EventIds : InsertApplied(r, id)
      BY <2>2
    <3>2. response'[r] = {Item1(id, InsertedEvent(asked[r]))}
      BY <3>1 DEF InsertApplied, Applied, IndInv, TypeOK
    <3>3. \A i \in response'[r] : i.id = id
      BY <3>2 DEF Item1
    <3> QED
      BY <1>3, <2>1, <3>1, <3>3 DEF ServedInv, OwnIds
  <2>3. CASE ~ \E id \in EventIds : InsertApplied(r, id)
    <3>1. Created(r)' => Created(r) /\ response'[r] = response[r]
      <4>1. CASE Google(r)
        BY <2>3, <4>1 DEF Google, DeleteApplied, PatchApplied, ListServed,
                          GoogleRefuses, Applied, Sent, Created, IndInv, TypeOK
      <4>2. CASE ~Google(r)
        BY <4>2, OwnStep DEF Created
      <4> QED
        BY <4>1, <4>2
    <3> QED
      BY <2>1, <3>1 DEF ServedInv, OwnIds
  <2> QED
    BY <2>2, <2>3
<1> QED
  BY <1>1, <1>2, <1>4 DEF ServedInv

(* What Google served stays served, in every reachable state. *)
THEOREM ServedInvariance == Spec => [](IndInv /\ ServedInv)
<1>1. IndInv /\ ServedInv /\ [Next]_vars => ServedInv'
  <2> SUFFICES ASSUME IndInv, ServedInv, [Next]_vars
               PROVE  ServedInv'
    OBVIOUS
  <2>1. CASE UNCHANGED vars
    BY <2>1 DEF vars, ServedInv, Served, Told, OwnIds, Created, InsertedEvent
  <2> QED
    BY <2>1, ServedStep DEF Next, Quiescent
<1> QED
  BY <1>1, InitServed, Invariance, PTL DEF Spec

-----------------------------------------------------------------------------
(* A create or an update answered "ok" reports exactly the served event. *)
LEMMA ReplyOfOne ==
  ASSUME NEW c \in Configs, NEW x \in Extraction, NEW id \in EventIds,
         NEW e \in GoogleEvent, x.operation \in {"create", "update"},
         GivenReply(c, x, {Item1(id, e)}).code = "ok"
  PROVE  GivenReply(c, x, {Item1(id, e)}).events = {MapEvent(id, e, "given")}
<1>1. FailureCode[x.operation] # "ok"
  BY FailureCodes DEF Operations
<1>2. {MapEvent(i.id, i.event, "given") : i \in {Item1(id, e)}} = {MapEvent(id, e, "given")}
  BY DEF Item1
<1>3. {Item1(id, e)} \in SUBSET Item
  BY DEF Item, Item1
<1> QED
  BY <1>1, <1>2, <1>3, GivenReplyIs

(***************************************************************************)
(* What a user is told with "ok" is what Google was asked to do.           *)
(***************************************************************************)
THEOREM TruthfulReports == Spec => []ReportsWhatWasAsked
<1>1. IndInv /\ ServedInv => ReportsWhatWasAsked
  <2> SUFFICES ASSUME IndInv, ServedInv, NEW r \in Requests, result[r].code = "ok"
               PROVE  /\ call[r] = "applied"
                      /\ asked[r].operation = "create" =>
                           \E te \in result[r].events :
                             /\ result[r].events = {te}
                             /\ te.summary = Trim[asked[r].summary]
                             /\ ParseInLocation(te.startAt) = Parse[asked[r].startAt]
                             /\ ParseInLocation(te.endAt) = Parse[asked[r].endAt]
                      /\ asked[r].operation = "update" =>
                           \E te \in result[r].events :
                             /\ result[r].events = {te}
                             /\ te.eventId = asked[r].eventId
                             /\ te.summary = Trim[asked[r].summary]
    BY DEF ReportsWhatWasAsked
  <2>1. /\ call[r] = "applied" /\ Served(r)
        /\ result[r] = GivenReply(config, asked[r], response[r])
    BY DEF ServedInv, Told
  <2>2. asked[r] \in Extraction /\ config \in Configs
    BY <2>1, SentFacts
  <2>3. ASSUME asked[r].operation = "create"
        PROVE  \E te \in result[r].events :
                 /\ result[r].events = {te}
                 /\ te.summary = Trim[asked[r].summary]
                 /\ ParseInLocation(te.startAt) = Parse[asked[r].startAt]
                 /\ ParseInLocation(te.endAt) = Parse[asked[r].endAt]
    <3> DEFINE e == InsertedEvent(asked[r])
    <3>1. PICK id \in EventIds : response[r] = {Item1(id, e)} /\ e \in GoogleEvent
      BY <2>1, <2>3 DEF Served
    <3>2. result[r].events = {MapEvent(id, e, "given")}
      BY <2>1, <2>2, <2>3, <3>1, ReplyOfOne
    <3>3. EndInstant(e) = e.end /\ e.start \in Instants /\ e.end \in Instants
      BY <3>1 DEF InsertedEvent, EndInstant, GoogleEvent
    <3>4. /\ ParseInLocation(MapEvent(id, e, "given").startAt) = e.start
          /\ ParseInLocation(MapEvent(id, e, "given").endAt) = e.end
          /\ MapEvent(id, e, "given").summary = Trim[e.summary]
      BY <3>3, LocalRoundTrip DEF MapEvent
    <3> QED
      BY <3>2, <3>4 DEF InsertedEvent
  <2>4. ASSUME asked[r].operation = "update"
        PROVE  \E te \in result[r].events :
                 /\ result[r].events = {te}
                 /\ te.eventId = asked[r].eventId
                 /\ te.summary = Trim[asked[r].summary]
    <3>1. PICK e \in GoogleEvent : /\ response[r] = {Item1(asked[r].eventId, e)}
                                   /\ asked[r].eventId \in EventIds
                                   /\ e.summary = asked[r].summary
      BY <2>1, <2>4 DEF Served
    <3>2. result[r].events = {MapEvent(asked[r].eventId, e, "given")}
      BY <2>1, <2>2, <2>4, <3>1, ReplyOfOne
    <3> QED
      BY <3>1, <3>2 DEF MapEvent
  <2> QED
    BY <2>1, <2>3, <2>4
<1> QED
  BY <1>1, ServedInvariance, PTL

(***************************************************************************)
(* Two creates are never reported with one id, and an event reported as    *)
(* deleted stays deleted.                                                  *)
(***************************************************************************)
THEOREM LastingReports == Spec => []ReportsStayTrue
<1>1. IndInv /\ ServedInv => ReportsStayTrue
  <2> SUFFICES ASSUME IndInv, ServedInv, NEW r \in Requests, result[r].code = "ok"
               PROVE  /\ asked[r].operation = "delete" =>
                           asked[r].eventId \in EventIds /\ calendar[asked[r].eventId] = Gone
                      /\ asked[r].operation = "create" =>
                           \A q \in Requests \ {r} :
                             result[q].code = "ok" /\ asked[q].operation = "create" =>
                               \A te \in result[r].events, ue \in result[q].events :
                                 te.eventId # ue.eventId
    BY DEF ReportsStayTrue
  <2>1. call[r] = "applied" /\ Served(r)
    BY DEF ServedInv, Told
  <2>2. ASSUME NEW q \in Requests, result[q].code = "ok", asked[q].operation = "create"
        PROVE  /\ Created(q)
               /\ \A te \in result[q].events : \E i \in response[q] : te.eventId = i.id
    <3> DEFINE e == InsertedEvent(asked[q])
    <3>1. /\ call[q] = "applied" /\ Served(q)
          /\ result[q] = GivenReply(config, asked[q], response[q])
      BY <2>2 DEF ServedInv, Told
    <3>2. PICK id \in EventIds : response[q] = {Item1(id, e)} /\ e \in GoogleEvent
      BY <2>2, <3>1 DEF Served
    <3>3. result[q].events = {MapEvent(id, e, "given")}
      BY <2>2, <3>1, <3>2, SentFacts, ReplyOfOne
    <3>4. MapEvent(id, e, "given").eventId = Item1(id, e).id
      BY DEF MapEvent, Item1
    <3> HIDE DEF e
    <3> QED
      BY <2>2, <3>1, <3>2, <3>3, <3>4 DEF Created
  <2> QED
    BY <2>1, <2>2 DEF Served, ServedInv, OwnIds
<1> QED
  BY <1>1, ServedInvariance, PTL

(***************************************************************************)
(* A reply that could not be formatted hides a write that was made, and a  *)
(* query never ends so.                                                    *)
(***************************************************************************)
THEOREM FormatFailures == Spec => []FormatFailureMeansWritten
<1>1. IndInv /\ ServedInv => FormatFailureMeansWritten
  <2> SUFFICES ASSUME IndInv, ServedInv, NEW r \in Requests,
                      result[r].code = "CALENDAR_REPLY_FORMAT_FAILED"
               PROVE  /\ asked[r].operation \in {"create", "update"}
                      /\ \E i \in response[r] : /\ calendar[i.id] # Absent
                                                /\ i.event.summary = asked[r].summary
    BY DEF FormatFailureMeansWritten
  <2>1. asked[r].operation \in {"create", "update"} /\ Served(r)
    BY DEF ServedInv, Told
  <2>2. \E id \in EventIds, e \in GoogleEvent :
          /\ response[r] = {Item1(id, e)}
          /\ calendar[id] # Absent /\ e.summary = asked[r].summary
    <3>1. CASE asked[r].operation = "create"
      <4>1. InsertedEvent(asked[r]).summary = asked[r].summary
        BY DEF InsertedEvent
      <4> QED
        BY <2>1, <3>1, <4>1 DEF Served
    <3>2. CASE asked[r].operation = "update"
      BY <2>1, <3>2 DEF Served
    <3> QED
      BY <2>1, <3>1, <3>2
  <2>3. PICK id \in EventIds, e \in GoogleEvent :
          /\ response[r] = {Item1(id, e)}
          /\ calendar[id] # Absent /\ e.summary = asked[r].summary
    BY <2>2
  <2>4. Item1(id, e).id = id /\ Item1(id, e).event = e /\ Item1(id, e) \in response[r]
    BY <2>3 DEF Item1
  <2> QED
    BY <2>1, <2>3, <2>4
<1> QED
  BY <1>1, ServedInvariance, PTL

-----------------------------------------------------------------------------
(* The events of a reply that is "ok". *)
LEMMA ReplyEvents ==
  ASSUME NEW c \in Configs, NEW x \in Extraction, x.operation \in Operations,
         NEW items \in SUBSET Item, GivenReply(c, x, items).code = "ok"
  PROVE  GivenReply(c, x, items).events =
           {te \in {MapEvent(i.id, i.event, "given") : i \in items} :
              x.operation = "query" => Overlaps(te, x)}
<1>1. FailureCode[x.operation] # "ok"
  BY FailureCodes
<1> QED
  BY <1>1, GivenReplyIs

(* The times of a mapped event, read back. *)
LEMMA MappedTimes ==
  ASSUME NEW id, NEW e \in GoogleEvent
  PROVE  /\ ParseInLocation(MapEvent(id, e, "given").startAt) = e.start
         /\ ParseInLocation(MapEvent(id, e, "given").endAt) = EndInstant(e)
<1>1. e.start \in Instants /\ EndInstant(e) \in Instants
  BY EndIsInstant DEF GoogleEvent
<1> QED
  BY <1>1, LocalRoundTrip DEF MapEvent

(* The filter on texts is the overlap of moments, bounds included. *)
LEMMA OverlapMeaning ==
  ASSUME NEW c \in Configs, NEW x \in Extraction, Refusal(c, x) = "ok",
         x.operation = "query", NEW id, NEW e \in GoogleEvent
  PROVE  Overlaps(MapEvent(id, e, "given"), x)
           <=> /\ e.start <= Parse[x.queryEndAt]
               /\ EndInstant(e) >= Parse[x.queryStartAt]
<1>1. Parse[x.queryStartAt] # BadTime /\ Parse[x.queryEndAt] # BadTime
  BY AdmissibleExtraction DEF Times
<1>2. x.queryStartAt \in Text /\ x.queryEndAt \in Text
  BY DEF Extraction
<1>3. Trim[x.queryStartAt] = x.queryStartAt /\ Trim[x.queryEndAt] = x.queryEndAt
  BY <1>1, <1>2, ParseAssumption
<1>4. /\ ParseInLocation(x.queryStartAt) = Parse[x.queryStartAt]
      /\ ParseInLocation(x.queryEndAt) = Parse[x.queryEndAt]
  BY <1>3 DEF ParseInLocation
<1> QED
  BY <1>4, MappedTimes DEF Overlaps

(***************************************************************************)
(* A query reports only events that touch the asked range.                 *)
(***************************************************************************)
THEOREM QueriesInRange == Spec => []QueryReportsOverlap
<1>1. IndInv /\ ServedInv => QueryReportsOverlap
  <2> SUFFICES ASSUME IndInv, ServedInv, NEW r \in Requests, result[r].code = "ok",
                      asked[r].operation = "query", NEW te \in result[r].events
               PROVE  \E i \in response[r] :
                        /\ te.eventId = i.id
                        /\ i.event.start <= Parse[asked[r].queryEndAt]
                        /\ EndInstant(i.event) >= Parse[asked[r].queryStartAt]
    BY DEF QueryReportsOverlap
  <2>1. call[r] = "applied" /\ result[r] = GivenReply(config, asked[r], response[r])
    BY DEF ServedInv, Told
  <2>2. /\ asked[r] \in Extraction /\ config \in Configs
        /\ Refusal(config, asked[r]) = "ok" /\ asked[r].operation \in Operations
    BY <2>1, SentFacts
  <2>3. response[r] \in SUBSET Item
    BY DEF IndInv, TypeOK
  <2>4. /\ te \in {MapEvent(i.id, i.event, "given") : i \in response[r]}
        /\ Overlaps(te, asked[r])
    BY <2>1, <2>2, <2>3, ReplyEvents
  <2>5. PICK i \in response[r] : te = MapEvent(i.id, i.event, "given")
    BY <2>4
  <2>6. i.event \in GoogleEvent /\ te.eventId = i.id
    BY <2>3, <2>5 DEF Item, MapEvent
  <2> QED
    BY <2>2, <2>4, <2>5, <2>6, OverlapMeaning
<1> QED
  BY <1>1, ServedInvariance, PTL

=============================================================================
