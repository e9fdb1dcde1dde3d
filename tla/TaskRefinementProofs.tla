------------------------- MODULE TaskRefinementProofs -------------------------
(***************************************************************************)
(* TaskUseCase implements CalendarPromise, for every value of the          *)
(* constants, in every behavior whose listings fit on the page asked for.  *)
(***************************************************************************)
EXTENDS TaskRefinement, TaskUseCaseProofs, FiniteSetTheorems

USE DEF Configs, NoResult, Failure, Admitted

(* The reader's and the writer's view of one event agree. *)
LEMMA ShownIsSeen ==
  ASSUME NEW i \in Item
  PROVE  Shown(MapEvent(i.id, i.event, "given")) = Seen(i)
<1>1. i.event \in GoogleEvent
  BY DEF Item
<1> QED
  BY <1>1, MappedTimes DEF Shown, Seen, MapEvent

(* What an "ok" reply shows is what Google's answer let the request see. *)
LEMMA ReplyShowsSeen ==
  ASSUME NEW c \in Configs, NEW x \in Extraction, Refusal(c, x) = "ok",
         NEW items \in SUBSET Item, GivenReply(c, x, items).code = "ok"
  PROVE  {Shown(te) : te \in GivenReply(c, x, items).events}
           = SeenOf(x, items)
<1>1. GivenReply(c, x, items).events =
        {te \in {MapEvent(i.id, i.event, "given") : i \in items} :
           x.operation = "query" => Overlaps(te, x)}
  BY AdmissibleExtraction, ReplyEvents
<1>2. \A i \in items : /\ Shown(MapEvent(i.id, i.event, "given")) = Seen(i)
                       /\ (x.operation = "query" => Overlaps(MapEvent(i.id, i.event, "given"), x))
                            <=> Asked(x, i.event)
  BY ShownIsSeen, OverlapMeaning DEF Asked, Item
<1> QED
  BY <1>1, <1>2 DEF SeenOf

(***************************************************************************)
(* The mapped state of a request no step touches.                          *)
(***************************************************************************)
SameFor(q) ==
  /\ AskOf(q)' = AskOf(q) /\ ActedFor(q)' = ActedFor(q) /\ SeenFor(q)' = SeenFor(q)
  /\ ToldTo(q)' = ToldTo(q) /\ ShownTo(q)' = ShownTo(q)

(* Unmoved requests look the same to the promise. *)
LEMMA SameForUnmoved ==
  ASSUME NEW q \in Requests, Unmoved(q), pc'[q] = pc[q]
  PROVE  SameFor(q)
BY DEF SameFor, Unmoved, AskOf, ActedFor, SeenFor, ToldTo, ShownTo

(* A step of one request is invisible in the others. *)
LEMMA OthersSame ==
  ASSUME IndInv, NEW r \in Requests,
         Start(r) \/ Goroutine(r) \/ ContextDone(r) \/ Google(r)
  PROVE  \A q \in Requests \ {r} : SameFor(q)
<1> SUFFICES ASSUME NEW q \in Requests \ {r}
             PROVE  SameFor(q)
  OBVIOUS
<1> USE DEF IndInv, TypeOK
<1>1. Unmoved(q)
  BY OthersUnmoved
<1>2. pc'[q] = pc[q]
  <2>1. CASE Start(r) \/ ContextDone(r)
    BY <2>1 DEF Start, ContextDone
  <2>2. CASE Goroutine(r)
    BY <2>2 DEF Goroutine, ConsultFails, AnswerRejected, AnswerAccepted,
                TokenUsed, TokenUseless, ProviderAnswers, ProviderFails, Return
  <2>3. CASE Google(r)
    BY <2>3 DEF Google, InsertApplied, DeleteApplied, PatchApplied, ListServed,
                GoogleRefuses, Applied
  <2> QED
    BY <2>1, <2>2, <2>3
<1> QED
  BY <1>1, <1>2, SameForUnmoved

-----------------------------------------------------------------------------
(* The initial states map to initial states. *)
LEMMA InitPromise == Init => Promise!Init
<1> SUFFICES ASSUME Init PROVE Promise!Init
  OBVIOUS
<1>1. \A r \in Requests : /\ AskOf(r) = NoExtraction /\ ActedFor(r) = FALSE
                          /\ SeenFor(r) = {} /\ ToldTo(r) = "nothing"
                          /\ ShownTo(r) = {}
  BY DEF Init, AskOf, ActedFor, SeenFor, SeenOf, ToldTo, ShownTo
<1>2. Book(calendar) \in {Book(cal) : cal \in InitialCalendars}
  BY DEF Init
<1> QED
  BY <1>1, <1>2 DEF Promise!Init

(* Steps the promise does not see. *)
LEMMA Unseen ==
  ASSUME \A r \in Requests : SameFor(r), calendar' = calendar
  PROVE  UNCHANGED Promise!vars
BY DEF SameFor, Promise!vars, Book

(* A return with an error. *)
LEMMA ErrorTold ==
  ASSUME IndInv, NEW r \in Requests, NEW code, code # "ok",
         pc[r] # "done", Return(r, Failure(code)), result[r] = NoResult,
         call' = call, response' = response, calendar' = calendar,
         call[r] # "none" => asked'[r] = asked[r],
         \A q \in Requests \ {r} : SameFor(q)
  PROVE  Promise!TellError(r)
<1>1. /\ ToldTo(r) = "nothing" /\ ToldTo(r)' = "error" /\ ShownTo(r)' = ShownTo(r)
  BY DEF IndInv, TypeOK, Return, ToldTo, ShownTo
<1>2. AskOf(r)' = AskOf(r) /\ ActedFor(r)' = ActedFor(r)
  BY DEF AskOf, ActedFor
<1>3. SeenFor(r)' = SeenFor(r)
  <2>1. CASE call[r] = "none"
    BY <2>1 DEF IndInv, Stages, SeenFor, SeenOf
  <2>2. CASE call[r] # "none"
    BY <2>2 DEF SeenFor
  <2> QED
    BY <2>1, <2>2
<1>4. Book(calendar)' = Book(calendar)
  BY DEF Book
<1> QED
  BY <1>1, <1>2, <1>3, <1>4 DEF SameFor, Promise!TellError

(* An extraction that is sent is one that can be asked. *)
LEMMA SentIsMeant ==
  ASSUME NEW c \in Configs, NEW x \in Extractions, Refusal(c, x) = "ok"
  PROVE  Meaning(x) \in MeantAsks
<1>1. x \in Extraction
  BY TaskAssumption
<1>2. /\ x.taskType \in SupportedTaskTypes /\ x.operation \in Operations
      /\ ~Incomplete(x)
  BY DEF Refusal
<1>3. \A s \in Times(x) : Parse[s] # BadTime
  BY <1>1, AdmissibleExtraction
<1>4. Refusal(AllConfigured, x) = "ok"
  BY <1>2, <1>3 DEF Refusal, AllConfigured, Unparseable, IsTime
<1> QED
  BY <1>4 DEF MeantAsks

(* A step of a goroutine maps to hearing, telling or nothing. *)
LEMMA GoroutinePromise ==
  ASSUME IndInv, ServedInv, NEW r \in Requests, Goroutine(r)
  PROVE  [Promise!Next]_(Promise!vars)
<1>0. \A q \in Requests \ {r} : SameFor(q)
  BY OthersSame
<1> SUFFICES \/ Promise!Hear(r) \/ Promise!TellOk(r) \/ Promise!TellError(r)
             \/ UNCHANGED Promise!vars
  BY DEF Promise!Next
<1>1. CASE ConsultFails(r)
  <2>1. Promise!TellError(r)
    BY <1>0, <1>1, ErrorTold DEF ConsultFails, IndInv, Stages
  <2> QED
    BY <2>1
<1>2. ASSUME NEW x \in Extractions, AnswerRejected(r, x)
      PROVE  Promise!TellError(r)
  BY <1>0, <1>2, ErrorTold DEF AnswerRejected, IndInv, Stages
<1>3. ASSUME NEW x \in Extractions, AnswerAccepted(r, x)
      PROVE  UNCHANGED Promise!vars
  <2>1. AskOf(r)' = AskOf(r) /\ ToldTo(r)' = ToldTo(r) /\ ShownTo(r)' = ShownTo(r)
    BY <1>3 DEF AnswerAccepted, IndInv, TypeOK, Stages, AskOf, ToldTo, ShownTo
  <2>2. ActedFor(r)' = ActedFor(r) /\ SeenFor(r)' = SeenFor(r)
    BY <1>3 DEF AnswerAccepted, IndInv, TypeOK, Stages, ActedFor, SeenFor, SeenOf
  <2>3. Book(calendar)' = Book(calendar)
    BY <1>3 DEF AnswerAccepted, Book
  <2> QED
    BY <1>0, <2>1, <2>2, <2>3 DEF SameFor, Promise!vars
<1>4. CASE TokenUseless(r)
  <2>1. FailureCode[asked[r].operation] # "ok"
    BY <1>4, SentFacts, FailureCodes DEF TokenUseless
  <2>2. Promise!TellError(r)
    BY <1>0, <1>4, <2>1, ErrorTold DEF TokenUseless, IndInv, Stages
  <2> QED
    BY <2>2
<1>5. CASE TokenUsed(r)
  <2> DEFINE x == asked[r]
  <2>1. x \in Extractions /\ Meaning(x) \in MeantAsks
    BY <1>5, SentIsMeant DEF TokenUsed, IndInv, TypeOK, Stages
  <2>2. AskOf(r) = NoExtraction /\ AskOf(r)' = Meaning(x)
    BY <1>5 DEF TokenUsed, IndInv, TypeOK, Stages, AskOf, Meaning
  <2>3. ToldTo(r) = "nothing" /\ ToldTo(r)' = "nothing" /\ ShownTo(r)' = ShownTo(r)
    BY <1>5 DEF TokenUsed, IndInv, TypeOK, ToldTo, ShownTo
  <2>4. ActedFor(r)' = ActedFor(r) /\ SeenFor(r)' = SeenFor(r)
    BY <1>5 DEF TokenUsed, IndInv, TypeOK, Stages, ActedFor, SeenFor, SeenOf
  <2>5. Book(calendar)' = Book(calendar)
    BY <1>5 DEF TokenUsed, Book
  <2>6. \E a \in MeantAsks : [q \in Requests |-> AskOf(q)]'
                               = [[q \in Requests |-> AskOf(q)] EXCEPT ![r] = a]
    BY <1>0, <2>1, <2>2 DEF SameFor
  <2>7. Promise!Hear(r)
    BY <1>0, <2>2, <2>3, <2>4, <2>5, <2>6 DEF SameFor, Promise!Hear
  <2> QED
    BY <2>7
<1>7. CASE ProviderAnswers(r)
  <2>0. PICK forms \in [response[r] -> Forms] :
          Return(r, Reply(config, asked[r], response[r], forms))
    BY <1>7 DEF ProviderAnswers
  <2> DEFINE rep == Reply(config, asked[r], response[r], forms)
  <2>1. /\ asked[r] \in Extraction /\ Refusal(config, asked[r]) = "ok"
        /\ config \in Configs /\ asked[r].operation \in Operations
        /\ response[r] \in SUBSET Item /\ result[r] = NoResult
    BY <1>7, SentFacts DEF ProviderAnswers, IndInv, TypeOK, Stages
  <2>2. CASE rep.code = "ok"
    <3>1. /\ ToldTo(r) = "nothing" /\ ToldTo(r)' = "ok"
          /\ ActedFor(r) /\ ActedFor(r)' = ActedFor(r)
          /\ AskOf(r)' = AskOf(r) /\ SeenFor(r)' = SeenFor(r)
      BY <1>7, <2>0, <2>2 DEF ProviderAnswers, Return, IndInv, TypeOK, ToldTo, ActedFor,
                        AskOf, SeenFor, Meaning
    <3>2. result'[r] = rep
      BY <2>0 DEF Return, IndInv, TypeOK
    <3>3a. rep = GivenReply(config, asked[r], response[r])
      BY <2>1, <2>2, OkIsGiven
    <3>3. ShownTo(r)' = SeenFor(r)
      BY <2>1, <2>2, <3>2, <3>3a, ReplyShowsSeen DEF ShownTo, SeenFor, Shown
    <3>4. Book(calendar)' = Book(calendar)
      BY <1>7 DEF ProviderAnswers, Book
    <3>5. Promise!TellOk(r)
      BY <1>0, <3>1, <3>3, <3>4 DEF SameFor, Promise!TellOk
    <3> QED
      BY <3>5
  <2>3. CASE rep.code # "ok"
    <3>1. rep = Failure(rep.code)
      BY <2>3 DEF Reply, ReplyWith
    <3>2. Promise!TellError(r)
      BY <1>0, <1>7, <2>0, <2>1, <2>3, <3>1, ErrorTold DEF ProviderAnswers
    <3> QED
      BY <3>2
  <2> QED
    BY <2>2, <2>3
<1>8. CASE ProviderFails(r)
  <2>1. FailureCode[asked[r].operation] # "ok"
    BY <1>8, SentFacts, FailureCodes DEF ProviderFails, IndInv, Stages
  <2>2. Promise!TellError(r)
    BY <1>0, <1>8, <2>1, ErrorTold DEF ProviderFails, IndInv, Stages
  <2> QED
    BY <2>2
<1> QED
  BY <1>1, <1>2, <1>3, <1>4, <1>5, <1>7, <1>8 DEF Goroutine

-----------------------------------------------------------------------------
(* An event of Google's is an entry of the promised book, and no marker. *)
LEMMA EntryIsNoMarker ==
  ASSUME NEW e \in GoogleEvent
  PROVE  Entry(e) \notin {Absent, Gone}
<1>1. e.summary \in Text /\ e.location \in Text /\ e.start \in Instants
  BY DEF GoogleEvent
<1>2. EndInstant(e) \in Instants
  BY EndIsInstant
<1>3. Entry(e) \in [title : Text, place : Text, from : Instants, until : Instants]
  BY <1>1, <1>2, TrimAssumption DEF Entry
<1> QED
  BY <1>3, RefinementAssumption

(* The book has an entry where the calendar has a live event. *)
LEMMA BookOfLive ==
  ASSUME TypeOK, NEW id \in EventIds
  PROVE  /\ Book(calendar)[id] \notin {Absent, Gone} <=> id \in Live(calendar)
         /\ id \in Live(calendar) => Book(calendar)[id] = Entry(calendar[id])
         /\ Book(calendar)[id] = Absent <=> calendar[id] = Absent
<1>1. CASE id \in Live(calendar)
  BY <1>1, LiveIsEvent, EntryIsNoMarker DEF Live, Book
<1>2. CASE id \notin Live(calendar)
  BY <1>2 DEF Live, Book
<1> QED
  BY <1>1, <1>2

(* Writing one event is writing one entry. *)
LEMMA BookWrites ==
  ASSUME TypeOK, NEW id \in EventIds, NEW e \in GoogleEvent,
         calendar' = [calendar EXCEPT ![id] = e]
  PROVE  Book(calendar)' = [Book(calendar) EXCEPT ![id] = Entry(e)]
<1>1. e \notin {Absent, Gone}
  BY TaskAssumption
<1> QED
  BY <1>1 DEF TypeOK, Book, Entry, EndInstant

(* The part of the mapped state that every served call changes alike. *)
LEMMA ServedMapped ==
  ASSUME IndInv, NEW r \in Requests, call[r] = "sent", NEW items, Applied(r, items),
         \A q \in Requests \ {r} : SameFor(q)
  PROVE  /\ AskOf(r) = Meaning(asked[r]) /\ AskOf(r)' = AskOf(r)
         /\ ActedFor(r) = FALSE
         /\ [q \in Requests |-> AskOf(q)]' = [q \in Requests |-> AskOf(q)]
         /\ [q \in Requests |-> ToldTo(q)]' = [q \in Requests |-> ToldTo(q)]
         /\ [q \in Requests |-> ShownTo(q)]' = [q \in Requests |-> ShownTo(q)]
         /\ [q \in Requests |-> ActedFor(q)]'
              = [[q \in Requests |-> ActedFor(q)] EXCEPT ![r] = TRUE]
         /\ [q \in Requests |-> SeenFor(q)]'
              = [[q \in Requests |-> SeenFor(q)] EXCEPT ![r] =
                  SeenOf(asked[r], items)]
<1>1. /\ call'[r] = "applied" /\ response'[r] = items
      /\ asked' = asked /\ pc' = pc /\ result' = result
  BY DEF Applied, IndInv, TypeOK
<1>2. /\ AskOf(r) = Meaning(asked[r]) /\ AskOf(r)' = AskOf(r)
      /\ ToldTo(r)' = ToldTo(r) /\ ShownTo(r)' = ShownTo(r)
      /\ ActedFor(r) = FALSE /\ ActedFor(r)' = TRUE
  BY <1>1 DEF AskOf, ToldTo, ShownTo, ActedFor, Meaning
<1>3. SeenFor(r)' = SeenOf(asked[r], items)
  BY <1>1 DEF SeenFor, SeenOf, Asked, Seen, EndInstant
<1> QED
  BY <1>2, <1>3 DEF SameFor

(* An item of an answer is the view of its entry. *)
LEMMA SeenIsView ==
  ASSUME NEW id, NEW e
  PROVE  Seen(Item1(id, e)) = Promise!View(id, Entry(e))
BY DEF Seen, Item1, Promise!View, Entry

(* A write lets its request see the one entry it wrote. *)
LEMMA SeenOne ==
  ASSUME NEW x, x.operation # "query", NEW id, NEW e
  PROVE  SeenOf(x, {Item1(id, e)})
           = {Promise!View(id, Entry(e))}
<1>1. {j \in {Item1(id, e)} : Asked(x, j.event)} = {Item1(id, e)}
  BY DEF Asked
<1>2. Seen(Item1(id, e)) = Promise!View(id, Entry(e))
  BY SeenIsView
<1> QED
  BY <1>1, <1>2 DEF SeenOf

(* The promised part of a served call, besides the book. *)
LEMMA ServedActs ==
  ASSUME IndInv, NEW r \in Requests, call[r] = "sent", NEW items, Applied(r, items),
         \A q \in Requests \ {r} : SameFor(q),
         NEW op, op = asked[r].operation
  PROVE  /\ Promise!May(r, op)
         /\ Promise!Act(r, SeenOf(asked[r], items))
         /\ [q \in Requests |-> AskOf(q)][r] = Meaning(asked[r])
<1>1. Meaning(asked[r]).op = op /\ Meaning(asked[r]) # NoExtraction
  BY SentIsMeant, RefinementAssumption DEF Meaning, IndInv, Stages, TypeOK
<1>2. AskOf(r) = Meaning(asked[r]) /\ ActedFor(r) = FALSE
  BY ServedMapped
<1>3. Promise!May(r, op)
  BY <1>1, <1>2 DEF Promise!May
<1>4. Promise!Act(r, SeenOf(asked[r], items))
  BY ServedMapped DEF Promise!Act
<1> QED
  BY <1>2, <1>3, <1>4

(* An insertion enters the event that was asked. *)
LEMMA InsertPromise ==
  ASSUME IndInv, NEW r \in Requests, NEW id \in EventIds, InsertApplied(r, id),
         \A q \in Requests \ {r} : SameFor(q)
  PROVE  Promise!Enter(r, id)
<1> DEFINE e == InsertedEvent(asked[r])
<1>1. /\ call[r] = "sent" /\ asked[r].operation = "create" /\ calendar[id] = Absent
      /\ e.start <= e.end /\ calendar' = [calendar EXCEPT ![id] = e]
      /\ Applied(r, {Item1(id, e)})
  BY DEF InsertApplied, Sent
<1>2. e \in GoogleEvent
  BY <1>1, SentFacts, InsertedIsEvent
<1>3. Book(calendar)' = [Book(calendar) EXCEPT ![id] = Entry(e)]
  BY <1>1, <1>2, BookWrites DEF IndInv
<1>4. Entry(e) = [title |-> Meaning(asked[r]).title, place |-> Meaning(asked[r]).place,
                  from |-> Meaning(asked[r]).from, until |-> Meaning(asked[r]).until]
  BY <1>1 DEF Entry, Meaning, InsertedEvent, EndInstant
<1>5. Book(calendar)[id] = Absent
  BY <1>1, BookOfLive DEF IndInv
<1>6. /\ Promise!May(r, "create")
      /\ Promise!Act(r, {Promise!View(id, Entry(e))})
      /\ [q \in Requests |-> AskOf(q)][r] = Meaning(asked[r])
  <2>1. SeenOf(asked[r], {Item1(id, e)})
          = {Promise!View(id, Entry(e))}
    BY <1>1, SeenOne
  <2>2. /\ Promise!May(r, "create")
        /\ Promise!Act(r, SeenOf(asked[r], {Item1(id, e)}))
        /\ [q \in Requests |-> AskOf(q)][r] = Meaning(asked[r])
    BY <1>1, ServedActs
  <2> QED
    BY <2>1, <2>2
<1> HIDE DEF e
<1> QED
  BY <1>3, <1>4, <1>5, <1>6 DEF Promise!Enter

(* A deletion removes the entry that was asked. *)
LEMMA DeletePromise ==
  ASSUME IndInv, NEW r \in Requests, NEW id \in EventIds, DeleteApplied(r, id),
         \A q \in Requests \ {r} : SameFor(q)
  PROVE  Promise!Remove(r)
<1>1. /\ call[r] = "sent" /\ asked[r].operation = "delete" /\ id = asked[r].eventId
      /\ id \in Live(calendar) /\ calendar' = [calendar EXCEPT ![id] = Gone]
      /\ Applied(r, {})
  BY DEF DeleteApplied, Sent
<1>2. Book(calendar)' = [Book(calendar) EXCEPT ![id] = Gone]
  BY <1>1 DEF IndInv, TypeOK, Book, Entry, EndInstant
<1>3. id \in Promise!Entries
  BY <1>1, BookOfLive DEF IndInv, Promise!Entries
<1>4. SeenOf(asked[r], {}) = {}
  BY DEF SeenOf
<1>5. /\ Promise!May(r, "delete") /\ Promise!Act(r, {})
      /\ [q \in Requests |-> AskOf(q)][r] = Meaning(asked[r])
  BY <1>1, <1>4, ServedActs
<1>6. Meaning(asked[r]).id = id
  BY <1>1 DEF Meaning
<1> QED
  BY <1>2, <1>3, <1>5, <1>6 DEF Promise!Remove

(* A patch renames the entry that was asked and keeps its times. *)
LEMMA PatchPromise ==
  ASSUME IndInv, NEW r \in Requests, NEW id \in EventIds, PatchApplied(r, id),
         \A q \in Requests \ {r} : SameFor(q)
  PROVE  Promise!Rename(r)
<1> DEFINE e == PatchedEvent(calendar[id], asked[r])
           ask == Meaning(asked[r])
           old == Book(calendar)[id]
<1>1. /\ call[r] = "sent" /\ asked[r].operation = "update" /\ id = asked[r].eventId
      /\ id \in Live(calendar) /\ calendar' = [calendar EXCEPT ![id] = e]
      /\ Applied(r, {Item1(id, e)})
  BY DEF PatchApplied, Sent
<1>2. calendar[id] \in GoogleEvent /\ asked[r] \in Extraction
  BY <1>1, LiveIsEvent, SentFacts DEF IndInv
<1>3. e \in GoogleEvent
  BY <1>2, PatchedIsEvent
<1>4. Book(calendar)' = [Book(calendar) EXCEPT ![id] = Entry(e)]
  BY <1>1, <1>3, BookWrites DEF IndInv
<1>5. old = Entry(calendar[id]) /\ id \in Promise!Entries
  BY <1>1, BookOfLive DEF IndInv, Promise!Entries
<1>6. Entry(e) = [title |-> ask.title,
                  place |-> IF ask.place = "" THEN old.place ELSE ask.place,
                  from |-> old.from, until |-> old.until]
  <2>1. /\ e.start = calendar[id].start /\ e.end = calendar[id].end
        /\ e.allDay = calendar[id].allDay /\ e.summary = asked[r].summary
    BY <1>2, PatchedIsEvent
  <2>2. e.location = IF Blank(asked[r].location) THEN calendar[id].location
                     ELSE asked[r].location
    BY <1>2 DEF PatchedEvent, GoogleEvent
  <2>3. EndInstant(e) = EndInstant(calendar[id])
    BY <2>1 DEF EndInstant
  <2>4. ask.title = Trim[asked[r].summary] /\ ask.place = Trim[asked[r].location]
    BY DEF Meaning
  <2>5. /\ old.place = Trim[calendar[id].location] /\ old.from = calendar[id].start
        /\ old.until = EndInstant(calendar[id])
    BY <1>5 DEF Entry
  <2> HIDE DEF e, ask, old
  <2>6. Trim[e.location] = IF ask.place = "" THEN old.place ELSE ask.place
    BY <2>2, <2>4, <2>5 DEF Blank
  <2> QED
    BY <2>1, <2>3, <2>4, <2>5, <2>6 DEF Entry
<1>7. /\ Promise!May(r, "update")
      /\ Promise!Act(r, {Promise!View(id, Entry(e))})
      /\ [q \in Requests |-> AskOf(q)][r] = ask
  <2>1. SeenOf(asked[r], {Item1(id, e)})
          = {Promise!View(id, Entry(e))}
    BY <1>1, SeenOne
  <2>2. /\ Promise!May(r, "update")
        /\ Promise!Act(r, SeenOf(asked[r], {Item1(id, e)}))
        /\ [q \in Requests |-> AskOf(q)][r] = Meaning(asked[r])
    BY <1>1, ServedActs
  <2> QED
    BY <2>1, <2>2
<1>8. ask.id = id
  BY <1>1 DEF Meaning
<1> HIDE DEF e, ask
<1> QED
  BY <1>4, <1>5, <1>6, <1>7, <1>8 DEF Promise!Rename

(* A page that holds everything is the whole listing. *)
LEMMA WholePage ==
  ASSUME NEW all, IsFiniteSet(all), Cardinality(all) <= PageSize,
         NEW ids, FirstPage(ids, all)
  PROVE  ids = all
<1>1. CASE ids = all
  BY <1>1
<1>2. CASE ids \subseteq all /\ Cardinality(ids) = PageSize
  <2>1. IsFiniteSet(ids) /\ Cardinality(ids) <= Cardinality(all)
    BY <1>2, FS_Subset
  <2>2. Cardinality(ids) = Cardinality(all)
    BY <1>2, <2>1, FS_CardinalityType
  <2> QED
    BY <1>2, <2>2, FS_Subset
<1> QED
  BY <1>1, <1>2 DEF FirstPage

(* Every event that touches the asked range is in the wider listing. *)
LEMMA OverlapInWindow ==
  ASSUME NEW x \in Extraction, NEW e \in GoogleEvent,
         Parse[x.queryStartAt] \in Int, Parse[x.queryEndAt] \in Int,
         e.start <= Parse[x.queryEndAt], EndInstant(e) >= Parse[x.queryStartAt]
  PROVE  InWindow(e, x)
<1>1. e.start \in Int /\ e.end \in Int
  BY ParseAssumption DEF GoogleEvent
<1>2. e.end >= EndInstant(e) /\ EndInstant(e) \in Int
  BY <1>1 DEF EndInstant
<1> QED
  BY <1>1, <1>2, WindowAssumption DEF InWindow

(* The times of an entry. *)
LEMMA EntryTimes ==
  ASSUME NEW e
  PROVE  Entry(e).from = e.start /\ Entry(e).until = EndInstant(e)
BY DEF Entry

(* A listing, filtered, is a look at all that touches the range. *)
LEMMA ListPromise ==
  ASSUME ListingsFit,
         IndInv, NEW r \in Requests, NEW ids \in SUBSET EventIds, ListServed(r, ids),
         \A q \in Requests \ {r} : SameFor(q)
  PROVE  Promise!Look(r)
<1> DEFINE x == asked[r]
           items == {Item1(id, calendar[id]) : id \in ids}
           touched == {i \in Promise!Entries :
                         /\ Book(calendar)[i].from <= Meaning(x).until
                         /\ Book(calendar)[i].until >= Meaning(x).from}
<1>1. /\ call[r] = "sent" /\ x.operation = "query" /\ calendar' = calendar
      /\ Applied(r, items) /\ FirstPage(ids, Candidates(x))
  BY DEF ListServed, Sent
<1>2. x \in Extraction /\ Refusal(config, x) = "ok" /\ config \in Configs
  BY <1>1, SentFacts
<1>3. Parse[x.queryStartAt] \in Int /\ Parse[x.queryEndAt] \in Int
  <2>1. Parse[x.queryStartAt] # BadTime /\ Parse[x.queryEndAt] # BadTime
    BY <1>1, <1>2, AdmissibleExtraction DEF Times
  <2>2. x.queryStartAt \in Text /\ x.queryEndAt \in Text
    BY <1>2 DEF Extraction
  <2> QED
    BY <2>1, <2>2, ParseAssumption
<1>4. ids = Candidates(x)
  BY <1>1, WholePage DEF ListingsFit, Sent
<1>5. Meaning(x).from = Parse[x.queryStartAt] /\ Meaning(x).until = Parse[x.queryEndAt]
  BY <1>1 DEF Meaning
<1>6. \A id \in EventIds : id \in Promise!Entries <=> id \in Live(calendar)
  BY BookOfLive DEF IndInv, Promise!Entries
<1>7. \A id \in Live(calendar) :
        /\ calendar[id] \in GoogleEvent
        /\ Book(calendar)[id] = Entry(calendar[id])
  BY LiveIsEvent, BookOfLive DEF IndInv, Live
<1>8. \A id \in EventIds : id \in touched <=> id \in ids /\ Asked(x, calendar[id])
  <2> SUFFICES ASSUME NEW id \in EventIds
               PROVE  id \in touched <=> id \in ids /\ Asked(x, calendar[id])
    OBVIOUS
  <2>1. CASE id \in Live(calendar)
    <3>1. id \in touched <=> Asked(x, calendar[id])
      <4>1. /\ Book(calendar)[id].from = calendar[id].start
            /\ Book(calendar)[id].until = EndInstant(calendar[id])
        <5>1. Book(calendar)[id] = Entry(calendar[id])
          BY <1>7, <2>1
        <5> QED
          BY <5>1, EntryTimes
      <4>2. id \in touched <=> /\ calendar[id].start <= Parse[x.queryEndAt]
                               /\ EndInstant(calendar[id]) >= Parse[x.queryStartAt]
        BY <1>5, <1>6, <2>1, <4>1
      <4> QED
        BY <1>1, <4>2 DEF Asked
    <3>2. Asked(x, calendar[id]) => InWindow(calendar[id], x)
      BY <1>1, <1>2, <1>3, <1>7, <2>1, OverlapInWindow DEF Asked
    <3> QED
      BY <1>4, <2>1, <3>1, <3>2 DEF Candidates
  <2>2. CASE id \notin Live(calendar)
    BY <1>4, <1>6, <2>2 DEF Candidates
  <2> QED
    BY <2>1, <2>2
<1>9. touched = {id \in ids : Asked(x, calendar[id])}
  BY <1>8 DEF Promise!Entries
<1>10. SeenOf(x, items) = {Promise!View(id, Book(calendar)[id]) : id \in touched}
  <2>1. \A id \in ids : Seen(Item1(id, calendar[id])) = Promise!View(id, Book(calendar)[id])
    <3>1. \A id \in ids : Book(calendar)[id] = Entry(calendar[id])
      BY <1>4, <1>7 DEF Candidates
    <3> QED
      BY <3>1, SeenIsView
  <2>2. \A id \in ids : Item1(id, calendar[id]).event = calendar[id]
    BY DEF Item1
  <2>3. {j \in items : Asked(x, j.event)}
          = {Item1(id, calendar[id]) : id \in {k \in ids : Asked(x, calendar[k])}}
    BY <2>2
  <2>4. SeenOf(x, items)
          = {Seen(Item1(id, calendar[id])) : id \in {k \in ids : Asked(x, calendar[k])}}
    BY <2>3 DEF SeenOf
  <2>5. SeenOf(x, items) = {Seen(Item1(id, calendar[id])) : id \in touched}
    BY <1>9, <2>4
  <2>6. \A id \in touched : Seen(Item1(id, calendar[id])) = Promise!View(id, Book(calendar)[id])
    BY <1>9, <2>1
  <2> HIDE DEF touched, items
  <2> QED
    BY <2>5, <2>6
<1>11. /\ Promise!May(r, "query") /\ Promise!Act(r, SeenOf(x, items))
       /\ [q \in Requests |-> AskOf(q)][r] = Meaning(x)
  BY <1>1, ServedActs
<1>12. UNCHANGED Book(calendar)
  BY <1>1 DEF Book
<1> QED
  BY <1>10, <1>11, <1>12 DEF Promise!Look

-----------------------------------------------------------------------------
(* Every step maps to a step of the promise or to a stutter. *)
LEMMA StepPromise ==
  ASSUME ListingsFit,
         IndInv, ServedInv, [Next]_vars
  PROVE  [Promise!Next]_(Promise!vars)
<1>1. ASSUME NEW r \in Requests, Goroutine(r)
      PROVE  [Promise!Next]_(Promise!vars)
  BY <1>1, GoroutinePromise
<1>2. ASSUME NEW r \in Requests, Start(r) \/ ContextDone(r) \/ GoogleRefuses(r)
      PROVE  UNCHANGED Promise!vars
  <2>1. \A q \in Requests \ {r} : SameFor(q)
    BY <1>2, OthersSame DEF Google
  <2>2. SameFor(r) /\ calendar' = calendar
    BY <1>2 DEF Start, ContextDone, GoogleRefuses, IndInv, TypeOK, Stages,
                SameFor, AskOf, ActedFor, SeenFor, ToldTo, ShownTo
  <2> QED
    BY <2>1, <2>2, Unseen
<1>3. ASSUME NEW r \in Requests, Google(r), ~GoogleRefuses(r)
      PROVE  Promise!Next
  <2>1. \A q \in Requests \ {r} : SameFor(q)
    BY <1>3, OthersSame
  <2> QED
    BY <1>3, <2>1, InsertPromise, DeletePromise, PatchPromise, ListPromise
       DEF Google, Promise!Next
<1>4. CASE UNCHANGED vars
  BY <1>4 DEF vars, Promise!vars, Book, AskOf, ActedFor, SeenFor, ToldTo, ShownTo
<1> QED
  BY <1>1, <1>2, <1>3, <1>4 DEF Next, Quiescent

(***************************************************************************)
(* The backend implements the promise: at most one effect per request, the *)
(* effect that was asked, told truthfully, with complete query results,    *)
(* whatever Internal and Google do and however requests interleave, as     *)
(* long as the candidates of each listing fit on its page.                 *)
(***************************************************************************)
THEOREM Implements == Spec /\ []ListingsFit => KeepsPromise
<1>1. ListingsFit /\ IndInv /\ ServedInv /\ [Next]_vars => [Promise!Next]_(Promise!vars)
  BY StepPromise
<1> QED
  BY <1>1, InitPromise, ServedInvariance, PTL DEF Spec, KeepsPromise, Promise!Spec

-----------------------------------------------------------------------------
(* Complete listings. *)

(* A query whose answer gives all its times does not fail after the call. *)
LEMMA QueryReplyOk ==
  ASSUME NEW c \in Configs, NEW x \in Extraction, Refusal(c, x) = "ok",
         x.operation = "query", NEW items \in SUBSET Item
  PROVE  GivenReply(c, x, items).code = "ok"
<1>1. c.zoneOK
  BY AdmissibleExtraction DEF Times
<1> QED
  BY <1>1, GivenReplyIs

(* The ids a reply reports are those of the items that overlap the range. *)
LEMMA ReportedIds ==
  ASSUME NEW c \in Configs, NEW x \in Extraction, Refusal(c, x) = "ok",
         x.operation = "query", NEW items \in SUBSET Item
  PROVE  {te.eventId : te \in GivenReply(c, x, items).events}
           = {i.id : i \in {j \in items : Asked(x, j.event)}}
<1>1. GivenReply(c, x, items).events =
        {te \in {MapEvent(i.id, i.event, "given") : i \in items} : Overlaps(te, x)}
  <2>1. GivenReply(c, x, items).code = "ok" /\ x.operation \in Operations
    BY QueryReplyOk, AdmissibleExtraction
  <2>2. GivenReply(c, x, items).events =
          {te \in {MapEvent(i.id, i.event, "given") : i \in items} :
             x.operation = "query" => Overlaps(te, x)}
    BY <2>1, ReplyEvents
  <2> QED
    BY <2>2
<1>2. \A i \in items : /\ MapEvent(i.id, i.event, "given").eventId = i.id
                       /\ Overlaps(MapEvent(i.id, i.event, "given"), x) <=> Asked(x, i.event)
  BY OverlapMeaning DEF MapEvent, Asked, Item
<1> QED
  BY <1>1, <1>2

(* A listing that fits on its page reports all that overlaps. *)
LEMMA ListReportsAll ==
  ASSUME ListingsFit,
         IndInv, NEW r \in Requests, NEW ids \in SUBSET EventIds, ListServed(r, ids)
  PROVE  {te.eventId : te \in GivenReply(config, asked[r], response'[r]).events}
           = Overlapping(asked[r])
<1> DEFINE x == asked[r]
           items == {Item1(id, calendar[id]) : id \in ids}
<1>1. /\ call[r] = "sent" /\ x.operation = "query"
      /\ Applied(r, items) /\ FirstPage(ids, Candidates(x))
  BY DEF ListServed, Sent
<1>2. x \in Extraction /\ Refusal(config, x) = "ok" /\ config \in Configs
  BY <1>1, SentFacts
<1>3. ids = Candidates(x)
  BY <1>1, WholePage DEF ListingsFit, Sent
<1>4. \A id \in Live(calendar) : calendar[id] \in GoogleEvent
  BY LiveIsEvent DEF IndInv, Live
<1>5. response'[r] = items
  BY <1>1 DEF Applied, IndInv, TypeOK
<1>6. items \in SUBSET Item
  BY <1>3, <1>4 DEF Candidates, Live, Item, Item1
<1>7. {te.eventId : te \in GivenReply(config, x, items).events}
        = {i.id : i \in {j \in items : Asked(x, j.event)}}
  <2> HIDE DEF items, x
  <2> QED
    BY <1>1, <1>2, <1>6, ReportedIds
<1>8. \A id \in ids : Item1(id, calendar[id]).id = id /\ Item1(id, calendar[id]).event = calendar[id]
  BY DEF Item1
<1>9. {i.id : i \in {j \in items : Asked(x, j.event)}} = {id \in ids : Asked(x, calendar[id])}
  BY <1>8
<1>10. \A id \in Live(calendar) : Asked(x, calendar[id]) => id \in ids
  <2> SUFFICES ASSUME NEW id \in Live(calendar), Asked(x, calendar[id])
               PROVE  InWindow(calendar[id], x)
    BY <1>3 DEF Candidates
  <2>1. Parse[x.queryStartAt] # BadTime /\ Parse[x.queryEndAt] # BadTime
    BY <1>1, <1>2, AdmissibleExtraction DEF Times
  <2>2. x.queryStartAt \in Text /\ x.queryEndAt \in Text
    BY <1>2 DEF Extraction
  <2>3. Parse[x.queryStartAt] \in Int /\ Parse[x.queryEndAt] \in Int
    BY <2>1, <2>2, ParseAssumption
  <2> QED
    BY <1>1, <1>2, <1>4, <2>3, OverlapInWindow DEF Asked
<1>11. {id \in ids : Asked(x, calendar[id])} = Overlapping(x)
  <2>1. \A id \in Live(calendar) : id \in Overlapping(x) <=> Asked(x, calendar[id])
    BY <1>1 DEF Overlapping, Asked
  <2>2. ids \subseteq Live(calendar) /\ Overlapping(x) \subseteq Live(calendar)
    BY <1>3 DEF Candidates, Overlapping
  <2> HIDE DEF x
  <2> QED
    BY <1>10, <2>1, <2>2
<1> HIDE DEF x, items
<1> QED
  BY <1>5, <1>7, <1>9, <1>11 DEF x

(* Only a served listing turns the sent call of a query into an applied one. *)
LEMMA QueryApplied ==
  ASSUME IndInv, [Next]_vars, NEW r \in Requests, Sent(r, "query"), call'[r] = "applied"
  PROVE  \E ids \in SUBSET EventIds : ListServed(r, ids)
<1>1. call[r] = "sent" /\ asked[r].operation = "query"
  BY DEF Sent
<1>2. PICK q \in Requests : Start(q) \/ Goroutine(q) \/ ContextDone(q) \/ Google(q)
  BY <1>1 DEF Next, Quiescent, vars
<1>3. q = r
  <2>1. CASE q # r
    BY <1>1, <1>2, <2>1, OthersUnmoved DEF Unmoved
  <2> QED
    BY <2>1
<1>4. Google(r) /\ ~GoogleRefuses(r)
  <2>1. CASE Start(r) \/ Goroutine(r) \/ ContextDone(r) \/ GoogleRefuses(r)
    BY <1>1, <2>1, OwnStep
  <2> QED
    BY <1>2, <1>3, <2>1
<1> QED
  BY <1>1, <1>4 DEF Google, InsertApplied, DeleteApplied, PatchApplied, Sent

(***************************************************************************)
(* A served listing, filtered, reports every live event that overlaps the  *)
(* asked range and nothing else, provided its candidates fit on a page.    *)
(***************************************************************************)
THEOREM CompleteListings == Spec /\ []ListingsFit => ListsAllOverlapping
<1>1. ListingsFit /\ IndInv /\ [Next]_vars =>
        [\A r \in Requests :
           Sent(r, "query") /\ call'[r] = "applied" =>
             {te.eventId : te \in GivenReply(config, asked[r], response'[r]).events}
               = Overlapping(asked[r])]_vars
  BY QueryApplied, ListReportsAll
<1> QED
  BY <1>1, Invariance, PTL DEF Spec, ListsAllOverlapping

=============================================================================
