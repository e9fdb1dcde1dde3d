---------------------------- MODULE TaskRefinement ----------------------------
(***************************************************************************)
(* TaskUseCase implements CalendarPromise.  The mapping reads every text   *)
(* as people mean it: a title and a place without their surrounding space, *)
(* a time as the moment it names, an all-day event until its last second.  *)
(***************************************************************************)
EXTENDS TaskUseCase

Entry(e) ==
  [title |-> Trim[e.summary], place |-> Trim[e.location],
   from |-> e.start, until |-> EndInstant(e)]

Book(cal) == [id \in EventIds |-> IF cal[id] \in {Absent, Gone} THEN cal[id]
                                  ELSE Entry(cal[id])]

Meaning(x) ==
  [op |-> x.operation, id |-> x.eventId, title |-> Trim[x.summary],
   place |-> Trim[x.location],
   from |-> Parse[IF x.operation = "query" THEN x.queryStartAt ELSE x.startAt],
   until |-> Parse[IF x.operation = "query" THEN x.queryEndAt ELSE x.endAt]]

AllConfigured == [configured |-> TRUE, zoneOK |-> TRUE]

(* What an admissible extraction can ask. *)
MeantAsks == {Meaning(x) : x \in {y \in Extractions : Refusal(AllConfigured, y) = "ok"}}

(* The three markers are no values they could be taken for. *)
ASSUME RefinementAssumption ==
  /\ NoExtraction \notin MeantAsks
  /\ {Absent, Gone} \cap [title : Text, place : Text, from : Instants,
                         until : Instants] = {}

(* An item of Google's answer, as people see it. *)
Seen(i) ==
  [id |-> i.id, title |-> Trim[i.event.summary], place |-> Trim[i.event.location],
   from |-> i.event.start, until |-> EndInstant(i.event)]

(* Google answers a query with a wider window than was asked. *)
Asked(x, e) ==
  x.operation = "query" => /\ e.start <= Parse[x.queryEndAt]
                           /\ EndInstant(e) >= Parse[x.queryStartAt]

(* A reported event, its times read back as moments. *)
Shown(te) ==
  [id |-> te.eventId, title |-> te.summary, place |-> te.location,
   from |-> ParseInLocation(te.startAt), until |-> ParseInLocation(te.endAt)]

AskOf(r) == IF call[r] = "none" THEN NoExtraction ELSE Meaning(asked[r])

ActedFor(r) == call[r] = "applied"

SeenOf(x, items) == {Seen(i) : i \in {j \in items : Asked(x, j.event)}}

SeenFor(r) == SeenOf(asked[r], response[r])

ToldTo(r) == IF pc[r] # "done" THEN "nothing"
             ELSE IF result[r].code = "ok" THEN "ok" ELSE "error"

ShownTo(r) == {Shown(te) : te \in result[r].events}

Promise == INSTANCE CalendarPromise WITH
  Books <- {Book(cal) : cal \in InitialCalendars},
  Asks <- MeantAsks,
  NoAsk <- NoExtraction,
  book <- Book(calendar),
  ask <- [r \in Requests |-> AskOf(r)],
  acted <- [r \in Requests |-> ActedFor(r)],
  seen <- [r \in Requests |-> SeenFor(r)],
  told <- [r \in Requests |-> ToldTo(r)],
  shown <- [r \in Requests |-> ShownTo(r)]

(***************************************************************************)
(* Whatever the interleaving of requests, late effects, lost answers and   *)
(* ended contexts, the backend keeps the promise of CalendarPromise.       *)
(***************************************************************************)
KeepsPromise == Promise!Spec

=============================================================================
