--------------------------- MODULE GatekeeperProofs ---------------------------
(***************************************************************************)
(* Theorems about the two handlers.  The handlers leave the task use case  *)
(* as it is, so what is proved of it holds for requests that come through  *)
(* them; the rest follows from where a delivery is in its loop.            *)
(***************************************************************************)
EXTENDS Gatekeeper, TaskUseCaseProofs

(***************************************************************************)
(* Where a delivery can be.  Busy is 1 while an event is under way; the    *)
(* counters never run ahead of the loop.                                   *)
(***************************************************************************)
Busy(d) == IF web[d].pc = "task" THEN 1 ELSE 0
Events(d) == web[d].payload.events

WebPlaces == {"idle", "loop", "task", "answered"}
WebPayloads == Payloads \cup {NoPayload}
WebStatuses == {0, 200, 400, 401}

WebRecord ==
  [pc : WebPlaces, payload : WebPayloads, next : Nat, processed : Nat,
   success : Nat, error : Nat, status : WebStatuses]

Counting(d) ==
  /\ web[d].next >= 1
  /\ web[d].next + Busy(d) <= Len(Events(d)) + 1
  /\ web[d].processed = web[d].success + web[d].error + Busy(d)
  /\ web[d].processed < web[d].next + Busy(d)

Screening(d) ==
  /\ web[d].pc = "idle" => web[d].next = 1
  /\ web[d].pc \in {"loop", "task"} => PayloadStatus(web[d].payload) = 200
  /\ web[d].status # 0 => web[d].pc = "answered"
  /\ web[d].status = 200 =>
       PayloadStatus(web[d].payload) = 200 /\ web[d].next = Len(Events(d)) + 1
  /\ web[d].status \in {400, 401} => PayloadStatus(web[d].payload) # 200
  /\ web[d].pc = "answered" => web[d].status # 0

Place(d) == Counting(d) /\ Screening(d)

Places ==
  /\ web \in [Deliveries -> WebRecord]
  /\ \A d \in Deliveries : Place(d)

(* The members of the sets a delivery's fields range over. *)
LEMMA WebNames ==
  /\ "idle" \in WebPlaces /\ "loop" \in WebPlaces
  /\ "task" \in WebPlaces /\ "answered" \in WebPlaces
  /\ 0 \in WebStatuses /\ 200 \in WebStatuses
  /\ \A p \in Payloads : p \in WebPayloads /\ PayloadStatus(p) \in WebStatuses
BY DEF WebPlaces, WebPayloads, WebStatuses, PayloadStatus

(* The deliveries other than d stay where they are. *)
OthersStay(d) == \A c \in Deliveries \ {d} : web'[c] = web[c]

(* Changing fields of one delivery within their sets. *)
LEMMA WebUpdates ==
  ASSUME web \in [Deliveries -> WebRecord], NEW d \in Deliveries,
         NEW q \in WebPlaces, NEW p \in WebPayloads, NEW s \in WebStatuses
  PROVE  /\ [web EXCEPT ![d].pc = q, ![d].payload = p] \in [Deliveries -> WebRecord]
         /\ [web EXCEPT ![d].pc = q, ![d].payload = p, ![d].status = s]
              \in [Deliveries -> WebRecord]
<1>1. [web EXCEPT ![d].pc = q, ![d].payload = p] \in [Deliveries -> WebRecord]
  BY DEF WebRecord
<1>2. [web EXCEPT ![d].pc = q, ![d].payload = p, ![d].status = s]
        \in [Deliveries -> WebRecord]
  BY DEF WebRecord
<1> QED
  BY <1>1, <1>2

(* Changing the place and the status only. *)
LEMMA WebClosing ==
  ASSUME web \in [Deliveries -> WebRecord], NEW d \in Deliveries,
         NEW q \in WebPlaces, NEW s \in WebStatuses
  PROVE  [web EXCEPT ![d].pc = q, ![d].status = s] \in [Deliveries -> WebRecord]
BY DEF WebRecord

(***************************************************************************)
(* What each step of the webhook handler makes of the delivery's record:   *)
(* one lemma for each form of step, so the rest need not open records.     *)
(***************************************************************************)

(* A refused delivery. *)
LEMMA RefuseFields ==
  ASSUME web \in [Deliveries -> WebRecord], NEW d \in Deliveries, NEW p \in Payloads,
         RefusePayload(d, p)
  PROVE  /\ web' \in [Deliveries -> WebRecord] /\ OthersStay(d)
         /\ web'[d].pc = "answered" /\ web'[d].payload = p
         /\ web'[d].status = PayloadStatus(p) /\ web'[d].next = web[d].next
         /\ web'[d].processed = web[d].processed
         /\ web'[d].success = web[d].success /\ web'[d].error = web[d].error
<1>1. [web EXCEPT ![d].pc = "answered", ![d].payload = p,
                   ![d].status = PayloadStatus(p)] \in [Deliveries -> WebRecord]
  BY WebNames, WebUpdates, Zenon
<1> QED
  BY <1>1 DEF RefusePayload, WebRecord, OthersStay

(* An accepted delivery. *)
LEMMA AcceptFields ==
  ASSUME web \in [Deliveries -> WebRecord], NEW d \in Deliveries, NEW p \in Payloads,
         AcceptPayload(d, p)
  PROVE  /\ web' \in [Deliveries -> WebRecord] /\ OthersStay(d)
         /\ web'[d].pc = "loop" /\ web'[d].payload = p
         /\ web'[d].status = web[d].status /\ web'[d].next = web[d].next
         /\ web'[d].processed = web[d].processed
         /\ web'[d].success = web[d].success /\ web'[d].error = web[d].error
<1>1. [web EXCEPT ![d].pc = "loop", ![d].payload = p] \in [Deliveries -> WebRecord]
  BY WebNames, WebUpdates, Zenon
<1> QED
  BY <1>1 DEF AcceptPayload, WebRecord, OthersStay

(* An event passed over. *)
LEMMA SkipFields ==
  ASSUME web \in [Deliveries -> WebRecord], NEW d \in Deliveries, SkipEvent(d)
  PROVE  /\ web' \in [Deliveries -> WebRecord] /\ OthersStay(d)
         /\ web'[d].pc = web[d].pc /\ web'[d].payload = web[d].payload
         /\ web'[d].status = web[d].status /\ web'[d].next = web[d].next + 1
         /\ web'[d].processed = web[d].processed
         /\ web'[d].success = web[d].success /\ web'[d].error = web[d].error
BY DEF SkipEvent, WebRecord, OthersStay

(* An event handed on. *)
LEMMA DispatchFields ==
  ASSUME web \in [Deliveries -> WebRecord], NEW d \in Deliveries, DispatchEvent(d)
  PROVE  /\ web' \in [Deliveries -> WebRecord] /\ OthersStay(d)
         /\ web'[d].pc = "task" /\ web'[d].payload = web[d].payload
         /\ web'[d].status = web[d].status /\ web'[d].next = web[d].next
         /\ web'[d].processed = web[d].processed + 1
         /\ web'[d].success = web[d].success /\ web'[d].error = web[d].error
BY WebNames DEF DispatchEvent, WebRecord, OthersStay

(* The acknowledgement. *)
LEMMA AcknowledgeFields ==
  ASSUME web \in [Deliveries -> WebRecord], NEW d \in Deliveries, Acknowledge(d)
  PROVE  /\ web' \in [Deliveries -> WebRecord] /\ OthersStay(d)
         /\ web'[d].pc = "answered" /\ web'[d].payload = web[d].payload
         /\ web'[d].status = 200 /\ web'[d].next = web[d].next
         /\ web'[d].processed = web[d].processed
         /\ web'[d].success = web[d].success /\ web'[d].error = web[d].error
<1>1. [web EXCEPT ![d].pc = "answered", ![d].status = 200]
        \in [Deliveries -> WebRecord]
  BY WebNames, WebClosing, Zenon
<1> QED
  BY <1>1 DEF Acknowledge, WebRecord, OthersStay

(* The end of an event. *)
LEMMA NextEventFields ==
  ASSUME web \in [Deliveries -> WebRecord], NEW d \in Deliveries,
         NEW sent \in BOOLEAN, NextEvent(d, sent)
  PROVE  /\ web' \in [Deliveries -> WebRecord] /\ OthersStay(d)
         /\ web'[d].pc = "loop" /\ web'[d].next = web[d].next + 1
         /\ web'[d].payload = web[d].payload /\ web'[d].status = web[d].status
         /\ web'[d].processed = web[d].processed
         /\ web'[d].success =
              web[d].success + (IF Succeeded(d) /\ sent THEN 1 ELSE 0)
         /\ web'[d].error =
              web[d].error + (IF Succeeded(d) /\ sent THEN 0 ELSE 1)
<1>1. Succeeded(d) \in BOOLEAN
  BY DEF Succeeded
<1> QED
  BY <1>1, WebNames DEF NextEvent, WebRecord, OthersStay

USE DEF Busy, Events, Place, Counting, Screening

(* A payload, NoPayload included, has a list of at most MaxEvents events. *)
LEMMA PayloadShape ==
  ASSUME NEW p \in WebPayloads
  PROVE  /\ Len(p.events) \in Nat /\ Len(p.events) <= MaxEvents
         /\ MaxEvents \in Nat
<1>1. CASE p = NoPayload
  BY <1>1, GatekeeperAssumption DEF NoPayload
<1>2. CASE p \in Payloads
  <2>1. p.events \in Seq(LineEvent)
    BY <1>2, GatekeeperAssumption DEF Payload
  <2> QED
    BY <1>2, <2>1, GatekeeperAssumption
<1> QED
  BY <1>1, <1>2 DEF WebPayloads

(* The list of a delivery is finite and not longer than MaxEvents. *)
LEMMA EventsShape ==
  ASSUME web \in [Deliveries -> WebRecord], NEW d \in Deliveries
  PROVE  /\ Len(Events(d)) \in Nat /\ Len(Events(d)) <= MaxEvents
         /\ MaxEvents \in Nat
<1>1. web[d].payload \in WebPayloads
  BY DEF WebRecord
<1> QED
  BY <1>1, PayloadShape

(* No delivery has been received at the start. *)
LEMMA InitPlaces == GateInit => Places
<1> SUFFICES ASSUME GateInit PROVE Places
  OBVIOUS
<1>1. Idle \in WebRecord
  BY WebNames DEF Idle, WebRecord, WebPayloads
<1>2. \A d \in Deliveries : web[d] = Idle
  BY DEF GateInit
<1>3. Len(NoPayload.events) = 0
  BY DEF NoPayload
<1> QED
  BY <1>1, <1>2, <1>3 DEF Places, GateInit, Idle

(* A step that moves one delivery, to a sound place. *)
LEMMA OnePlace ==
  ASSUME Places, NEW d \in Deliveries, web' \in [Deliveries -> WebRecord],
         OthersStay(d), Place(d)'
  PROVE  Places'
<1>1. \A c \in Deliveries \ {d} : Place(c)'
  BY DEF Places, OthersStay
<1> QED
  BY <1>1 DEF Places

(* The fields of a delivery. *)
LEMMA Fields ==
  ASSUME web \in [Deliveries -> WebRecord], NEW d \in Deliveries
  PROVE  /\ web[d].pc \in {"idle", "loop", "task", "answered"}
         /\ web[d].payload \in WebPayloads
         /\ web[d].next \in Nat /\ web[d].processed \in Nat
         /\ web[d].success \in Nat /\ web[d].error \in Nat
         /\ web[d].status \in {0, 200, 400, 401}
BY DEF WebRecord, WebPlaces, WebStatuses

(* A delivery is refused. *)
LEMMA RefusePlaces ==
  ASSUME Places, NEW d \in Deliveries, NEW p \in Payloads, RefusePayload(d, p)
  PROVE  Places' /\ OthersStay(d)
<1>1. PayloadStatus(p) \in {400, 401} /\ Len(p.events) \in Nat
  BY WebNames, PayloadShape DEF PayloadStatus, RefusePayload
<1>2. Counting(d) /\ Screening(d) /\ web[d].pc = "idle"
  BY DEF RefusePayload, Places
<1>3. Counting(d)'
  BY <1>1, <1>2, Fields, RefuseFields DEF Places
<1>4. Screening(d)'
  BY <1>1, RefuseFields DEF Places
<1> QED
  BY <1>3, <1>4, RefuseFields, OnePlace DEF Places

(* A delivery is accepted. *)
LEMMA AcceptPlaces ==
  ASSUME Places, NEW d \in Deliveries, NEW p \in Payloads, AcceptPayload(d, p)
  PROVE  Places' /\ OthersStay(d)
<1>1. PayloadStatus(p) = 200 /\ Len(p.events) \in Nat
  BY WebNames, PayloadShape DEF AcceptPayload
<1>2. Counting(d) /\ Screening(d) /\ web[d].pc = "idle"
  BY DEF AcceptPayload, Places
<1>3. /\ web[d].next = 1 /\ web[d].status = 0
      /\ web[d].processed \in Nat /\ web[d].success \in Nat /\ web[d].error \in Nat
  BY <1>2, Fields DEF Places
<1>4. /\ web'[d].pc = "loop" /\ web'[d].next = 1
      /\ web'[d].payload = p /\ web'[d].status = 0
      /\ web'[d].processed = web[d].processed
      /\ web'[d].success = web[d].success /\ web'[d].error = web[d].error
  BY <1>3, AcceptFields DEF Places
<1>5. Counting(d)'
  <2>1. web[d].processed = 0 /\ web[d].success = 0 /\ web[d].error = 0
    BY <1>2, <1>3
  <2>2. Busy(d)' = 0 /\ Len(Events(d)') \in Nat
    BY <1>1, <1>4
  <2> HIDE DEF Busy, Events
  <2> QED
    BY <1>4, <2>1, <2>2
<1>6. Screening(d)'
  <2>1. /\ web'[d].pc \notin {"idle", "answered"}
        /\ web'[d].status \notin {200, 400, 401}
    BY <1>4
  <2>2. PayloadStatus(web'[d].payload) = 200
    BY <1>1, <1>4, Zenon
  <2> QED
    BY <1>4, <2>1, <2>2, Zenon
<1> QED
  BY <1>5, <1>6, AcceptFields, OnePlace DEF Places

(* The end of an event that was under way. *)
LEMMA NextEventPlaces ==
  ASSUME Places, NEW d \in Deliveries, NEW sent \in BOOLEAN, web[d].pc = "task",
         NextEvent(d, sent)
  PROVE  Places'
<1>1. Counting(d) /\ Screening(d) /\ web[d].status = 0 /\ Len(Events(d)) \in Nat
  BY Fields, EventsShape DEF Places
<1>2. /\ web[d].next \in Nat /\ web[d].success \in Nat /\ web[d].error \in Nat
      /\ web[d].processed \in Nat
  BY Fields DEF Places
<1>3. /\ web'[d].pc = "loop" /\ web'[d].next = web[d].next + 1
      /\ web'[d].payload = web[d].payload /\ web'[d].status = 0
      /\ web'[d].processed = web[d].processed
      /\ web'[d].success + web'[d].error = web[d].success + web[d].error + 1
  BY <1>1, <1>2, NextEventFields DEF Places
<1>4. Counting(d)'
  BY <1>1, <1>2, <1>3
<1>5. Screening(d)'
  BY <1>1, <1>3
<1> QED
  BY <1>4, <1>5, NextEventFields, OnePlace DEF Places

(* An event is passed over. *)
LEMMA SkipPlaces ==
  ASSUME Places, NEW d \in Deliveries, SkipEvent(d)
  PROVE  Places'
<1>1. Counting(d) /\ Screening(d) /\ InLoop(d) /\ Len(Events(d)) \in Nat
  BY EventsShape DEF Places, SkipEvent
<1>2. web[d].next \in Nat /\ web[d].status = 0
  BY <1>1, Fields DEF Places, InLoop
<1>3. /\ web'[d].pc = "loop" /\ web'[d].next = web[d].next + 1
      /\ web'[d].payload = web[d].payload /\ web'[d].status = 0
      /\ web'[d].processed = web[d].processed
      /\ web'[d].success = web[d].success /\ web'[d].error = web[d].error
  BY <1>1, <1>2, SkipFields DEF Places, InLoop
<1>4. Counting(d)'
  BY <1>1, <1>2, <1>3, Fields DEF InLoop, Places
<1>5. Screening(d)'
  BY <1>1, <1>3 DEF InLoop
<1> QED
  BY <1>4, <1>5, SkipFields, OnePlace DEF Places

(* An event is handed to the task use case. *)
LEMMA DispatchPlaces ==
  ASSUME Places, NEW d \in Deliveries, DispatchEvent(d)
  PROVE  Places'
<1>1. Counting(d) /\ Screening(d) /\ InLoop(d) /\ Len(Events(d)) \in Nat
  BY EventsShape DEF Places, DispatchEvent
<1>2. /\ web[d].next \in Nat /\ web[d].success \in Nat /\ web[d].error \in Nat
      /\ web[d].processed \in Nat /\ web[d].status = 0
  BY <1>1, Fields DEF Places, InLoop
<1>3. /\ web'[d].pc = "task" /\ web'[d].next = web[d].next
      /\ web'[d].payload = web[d].payload /\ web'[d].status = 0
      /\ web'[d].processed = web[d].processed + 1
      /\ web'[d].success = web[d].success /\ web'[d].error = web[d].error
  BY <1>1, <1>2, DispatchFields DEF Places
<1>4. /\ web[d].processed = web[d].success + web[d].error
      /\ web[d].processed < web[d].next /\ web[d].next >= 1
      /\ web[d].next <= Len(Events(d))
  BY <1>1, <1>2 DEF InLoop
<1>5. Counting(d)'
  BY <1>1, <1>2, <1>3, <1>4
<1>6. Screening(d)'
  BY <1>1, <1>3 DEF InLoop
<1> QED
  BY <1>5, <1>6, DispatchFields, OnePlace DEF Places

(* A delivery is acknowledged when its events are exhausted. *)
LEMMA AcknowledgePlaces ==
  ASSUME Places, NEW d \in Deliveries, Acknowledge(d)
  PROVE  Places'
<1>1. /\ Counting(d) /\ Screening(d) /\ Len(Events(d)) \in Nat
      /\ web[d].pc = "loop" /\ web[d].next > Len(Events(d))
  BY EventsShape DEF Places, Acknowledge
<1>2. /\ web[d].next \in Nat /\ web[d].success \in Nat /\ web[d].error \in Nat
      /\ web[d].processed \in Nat
  BY Fields DEF Places
<1>3. /\ web'[d].pc = "answered" /\ web'[d].next = web[d].next
      /\ web'[d].payload = web[d].payload /\ web'[d].status = 200
      /\ web'[d].processed = web[d].processed
      /\ web'[d].success = web[d].success /\ web'[d].error = web[d].error
  BY <1>1, <1>2, AcknowledgeFields DEF Places
<1>4. web[d].next = Len(Events(d)) + 1 /\ PayloadStatus(web[d].payload) = 200
  <2>1. PayloadStatus(web[d].payload) = 200
    BY <1>1, Zenon
  <2>2. Busy(d) = 0 /\ web[d].next + Busy(d) <= Len(Events(d)) + 1
    BY <1>1
  <2> HIDE DEF Busy, Events, Counting, Screening
  <2> QED
    BY <1>1, <1>2, <2>1, <2>2
<1>5. Counting(d)'
  BY <1>1, <1>2, <1>3
<1>6. Screening(d)'
  <2>1. /\ web'[d].pc \notin {"idle", "loop", "task"}
        /\ web'[d].status \notin {0, 400, 401}
    BY <1>3
  <2>2. PayloadStatus(web'[d].payload) = 200 /\ web'[d].next = Len(Events(d)') + 1
    BY <1>3, <1>4, Zenon
  <2> QED
    BY <1>3, <2>1, <2>2, SMTT(20)
<1> QED
  BY <1>5, <1>6, AcknowledgeFields, OnePlace DEF Places

(* Steps that leave the deliveries alone. *)
LEMMA SamePlaces == Places /\ web' = web => Places'
BY DEF Places

(* Every step keeps every delivery in a sound place. *)
LEMMA StepPlaces == Places /\ [GateNext]_allVars => Places'
<1> SUFFICES ASSUME Places, [GateNext]_allVars PROVE Places'
  OBVIOUS
<1>1. ASSUME NEW d \in Deliveries, NEW p \in Payloads,
             RefusePayload(d, p) \/ AcceptPayload(d, p)
      PROVE  Places'
  BY <1>1, RefusePlaces, AcceptPlaces
<1>2. ASSUME NEW d \in Deliveries, WebStep(d) PROVE Places'
  <2>1. CASE ReplyAccepted(d)
    BY <2>1, NextEventPlaces DEF ReplyAccepted, TaskReturned
  <2>2. CASE ReplyAnswerLost(d) \/ ReplyFails(d)
    BY <2>2, NextEventPlaces DEF ReplyAnswerLost, ReplyFails, TaskReturned
  <2> QED
    BY <1>2, <2>1, <2>2, SkipPlaces, DispatchPlaces, AcknowledgePlaces DEF WebStep
<1>3. ASSUME NEW r \in RestCalls,
             \/ \E b \in Bodies : RestRefuse(r, b) \/ RestStart(r, b)
             \/ RestRespond(r)
      PROVE  Places'
  BY <1>3, SamePlaces DEF RestRefuse, RestStart, RestRespond, gateVars
<1>4. ASSUME NEW r \in Requests, Below(r) PROVE Places'
  BY <1>4, SamePlaces DEF Below, gateVars
<1>5. CASE UNCHANGED allVars
  BY <1>5, SamePlaces DEF allVars, gateVars
<1> QED
  BY <1>1, <1>2, <1>3, <1>4, <1>5 DEF GateNext, GateQuiescent

(* A delivery is always in a sound place. *)
THEOREM PlacesInvariance == GateSpec => []Places
BY InitPlaces, StepPlaces, PTL DEF GateSpec

-----------------------------------------------------------------------------
(* The handlers drive the task use case as any caller does. *)

(* Whatever the handlers do is a step of the task use case, or none. *)
LEMMA TaskStep == Places /\ [GateNext]_allVars => [Next]_vars
<1> SUFFICES ASSUME Places, [GateNext]_allVars PROVE [Next]_vars
  OBVIOUS
<1>1. ASSUME NEW d \in Deliveries, NEW p \in Payloads,
             RefusePayload(d, p) \/ AcceptPayload(d, p)
      PROVE  UNCHANGED vars
  BY <1>1 DEF RefusePayload, AcceptPayload
<1>2. ASSUME NEW d \in Deliveries, WebStep(d) PROVE [Next]_vars
  <2>1. CASE DispatchEvent(d)
    <3>1. /\ web[d].next \in Nat /\ web[d].next >= 1
          /\ web[d].next <= Len(Events(d))
      BY <2>1, Fields DEF Places, DispatchEvent, InLoop
    <3>2. web[d].next \in 1..MaxEvents
      BY <3>1, EventsShape DEF Places
    <3>3. Slot(d) \in Requests
      BY <3>2, GatekeeperAssumption DEF Slot, Slots
    <3> QED
      BY <2>1, <3>3 DEF DispatchEvent, Next
  <2>2. CASE ~DispatchEvent(d)
    BY <1>2, <2>2 DEF WebStep, SkipEvent, ReplyAccepted, ReplyAnswerLost, ReplyFails,
                      NextEvent, Acknowledge
  <2> QED
    BY <2>1, <2>2
<1>3. ASSUME NEW r \in RestCalls,
             \/ \E b \in Bodies : RestRefuse(r, b) \/ RestStart(r, b)
             \/ RestRespond(r)
      PROVE  [Next]_vars
  <2>1. r \in Requests
    BY GatekeeperAssumption
  <2> QED
    BY <1>3, <2>1 DEF RestRefuse, RestStart, RestRespond, Next
<1>4. ASSUME NEW r \in Requests, Below(r) PROVE [Next]_vars
  BY <1>4 DEF Below, Next
<1>5. CASE UNCHANGED allVars
  BY <1>5 DEF allVars
<1> QED
  BY <1>1, <1>2, <1>3, <1>4, <1>5 DEF GateNext, GateQuiescent, allVars

(***************************************************************************)
(* The handlers implement the task use case's own specification: whatever  *)
(* is proved of it for any caller holds behind them.                       *)
(***************************************************************************)
THEOREM GateImplementsTask == GateSpec => Spec
<1>1. GateInit => Init
  BY DEF GateInit
<1> QED
  BY <1>1, TaskStep, PlacesInvariance, PTL DEF GateSpec, Spec

(* In particular the invariants of the task use case hold behind them. *)
LEMMA TaskInvariants == GateSpec => [](Places /\ IndInv /\ ServedInv)
BY PlacesInvariance, GateImplementsTask, ServedInvariance, PTL

-----------------------------------------------------------------------------
(***************************************************************************)
(* What ties the handlers to the requests they started.                    *)
(***************************************************************************)
Begun(d, i) == pc[<<d, i>>] # "idle" =>
  /\ web[d].pc # "idle" /\ PayloadStatus(web[d].payload) = 200
  /\ i <= Len(Events(d)) /\ Accepted(Events(d)[i])
  /\ i <= web[d].next
  /\ i = web[d].next => web[d].pc = "task"
  /\ i < web[d].next => pc[<<d, i>>] = "done"

Said(d, i) == replied[<<d, i>>] # "none" =>
  /\ i < web[d].next
  /\ pc[<<d, i>>] = "done"
  /\ replied[<<d, i>>] = "result" <=> result[<<d, i>>].code = "ok"

Answered(r) == rest[r] # 0 =>
  \/ rest[r] = 400 /\ pc[r] = "idle"
  \/ pc[r] = "done" /\ rest[r] = StatusOf(result[r].code)

LoopInv ==
  /\ replied \in [Slots -> {"none", "result", "error"}]
  /\ rest \in [RestCalls -> {0, 200, 400, 500}]
  /\ \A d \in Deliveries, i \in 1..MaxEvents : Begun(d, i) /\ Said(d, i)
  /\ \A r \in RestCalls : Answered(r)

(* The slots are requests and no REST calls. *)
LEMMA SlotFacts ==
  /\ \A d \in Deliveries, i \in 1..MaxEvents : <<d, i>> \in Slots
  /\ \A s \in Slots : s \in Requests /\ s \notin RestCalls
  /\ \A r \in RestCalls : r \in Requests
BY GatekeeperAssumption DEF Slots

(* What goes on below neither starts a request nor reopens one. *)
LEMMA BelowKeeps ==
  ASSUME IndInv, NEW r \in Requests, Below(r), NEW q \in Requests
  PROVE  /\ pc'[q] = "idle" <=> pc[q] = "idle"
         /\ pc[q] = "done" => pc'[q] = "done" /\ result'[q] = result[q]
<1> USE DEF IndInv, TypeOK
<1>1. CASE ContextDone(r) \/ Google(r)
  BY <1>1 DEF ContextDone, Google, InsertApplied, DeleteApplied, PatchApplied,
              ListServed, GoogleRefuses, Applied
<1>2. CASE Goroutine(r)
  BY <1>2 DEF Goroutine, ConsultFails, AnswerRejected, AnswerAccepted,
              TokenUsed, TokenUseless, ProviderAnswers, ProviderFails, Return
<1> QED
  BY <1>1, <1>2 DEF Below

(* Nothing was begun, said or answered at the start. *)
LEMMA InitLoop == GateInit => LoopInv
BY SlotFacts DEF GateInit, Init, LoopInv, Begun, Said, Answered

(* An event slot that a step leaves alone keeps what ties it. *)
LEMMA SlotStays ==
  ASSUME NEW d, NEW i, Begun(d, i), Said(d, i), web'[d] = web[d],
         pc'[<<d, i>>] = pc[<<d, i>>], result'[<<d, i>>] = result[<<d, i>>],
         replied'[<<d, i>>] = replied[<<d, i>>]
  PROVE  Begun(d, i)' /\ Said(d, i)'
BY DEF Begun, Said

(* Steps of the loop that touch no request. *)
LEMMA QuietLoop ==
  ASSUME Places, LoopInv, NEW d \in Deliveries,
         \/ \E p \in Payloads : RefusePayload(d, p) \/ AcceptPayload(d, p)
         \/ SkipEvent(d) \/ Acknowledge(d)
  PROVE  LoopInv'
<1>0. OthersStay(d)
  BY RefuseFields, AcceptFields, SkipFields, AcknowledgeFields DEF Places
<1>1. UNCHANGED <<vars, replied, rest>> /\ OthersStay(d)
  BY <1>0 DEF RefusePayload, AcceptPayload, SkipEvent, Acknowledge
<1>2. ASSUME NEW i \in 1..MaxEvents PROVE Begun(d, i)' /\ Said(d, i)'
  <2>1. Begun(d, i) /\ Said(d, i) /\ web[d].next \in Nat
    BY Fields DEF LoopInv, Places
  <2>2. CASE \E p \in Payloads : RefusePayload(d, p) \/ AcceptPayload(d, p)
    <3>1. web[d].pc = "idle"
      BY <2>2 DEF RefusePayload, AcceptPayload
    <3>2. pc[<<d, i>>] = "idle" /\ replied[<<d, i>>] = "none"
      BY <2>1, <3>1 DEF Begun, Said
    <3> QED
      BY <1>1, <3>2 DEF Begun, Said, vars
  <2>3. CASE SkipEvent(d)
    <3>1. /\ web[d].pc = "loop" /\ web'[d].pc = "loop"
          /\ web'[d].payload = web[d].payload /\ web'[d].next = web[d].next + 1
      BY <2>3, SkipFields DEF Places, SkipEvent, InLoop
    <3> QED
      BY <1>1, <2>1, <3>1 DEF Begun, Said, vars
  <2>4. CASE Acknowledge(d)
    <3>1. web[d].pc = "loop"
      BY <2>4 DEF Acknowledge
    <3>2. /\ web'[d].pc = "answered"
          /\ web'[d].payload = web[d].payload /\ web'[d].next = web[d].next
      BY <2>4, AcknowledgeFields DEF Places
    <3> QED
      BY <1>1, <2>1, <3>1, <3>2 DEF Begun, Said, vars
  <2> QED
    BY <2>2, <2>3, <2>4
<1>3. ASSUME NEW c \in Deliveries \ {d}, NEW i \in 1..MaxEvents
      PROVE  Begun(c, i)' /\ Said(c, i)'
  BY <1>1, SlotStays DEF LoopInv, OthersStay, vars
<1> QED
  BY <1>1, <1>2, <1>3 DEF LoopInv, Answered, vars

(* The current event is handed to the task use case. *)
LEMMA DispatchLoop ==
  ASSUME Places, IndInv, LoopInv, NEW d \in Deliveries, DispatchEvent(d)
  PROVE  LoopInv'
<1>1. /\ web[d].pc = "loop" /\ web[d].next <= Len(Events(d)) /\ web[d].next \in Nat
      /\ Accepted(Events(d)[web[d].next]) /\ PayloadStatus(web[d].payload) = 200
      /\ web[d].next >= 1
  BY Fields DEF DispatchEvent, InLoop, Current, Places
<1>2. /\ OthersStay(d) /\ web'[d].pc = "task"
      /\ web'[d].payload = web[d].payload /\ web'[d].next = web[d].next
  BY DispatchFields DEF Places
<1>3. /\ pc' = [pc EXCEPT ![<<d, web[d].next>>] = "consult"]
      /\ pc \in [Requests -> {"idle", "consult", "token", "provider", "done"}]
      /\ pc[<<d, web[d].next>>] = "idle"
      /\ UNCHANGED <<result, replied, rest>>
  BY DEF DispatchEvent, Start, Slot, IndInv, TypeOK
<1>4. ASSUME NEW i \in 1..MaxEvents PROVE Begun(d, i)' /\ Said(d, i)'
  <2>1. Begun(d, i) /\ Said(d, i) /\ <<d, i>> \in Requests
    BY SlotFacts DEF LoopInv
  <2>2. CASE i = web[d].next
    BY <1>1, <1>2, <1>3, <2>1, <2>2 DEF Begun, Said
  <2>3. CASE i # web[d].next
    <3>1. pc'[<<d, i>>] = pc[<<d, i>>]
      BY <1>3, <2>1, <2>3
    <3> QED
      BY <1>1, <1>2, <1>3, <2>1, <2>3, <3>1 DEF Begun, Said
  <2> QED
    BY <2>2, <2>3
<1>5. ASSUME NEW c \in Deliveries \ {d}, NEW i \in 1..MaxEvents
      PROVE  Begun(c, i)' /\ Said(c, i)'
  <2>1. Begun(c, i) /\ Said(c, i) /\ <<c, i>> \in Requests
    BY SlotFacts DEF LoopInv
  <2>2. pc'[<<c, i>>] = pc[<<c, i>>]
    BY <1>3, <2>1
  <2> QED
    BY <1>2, <1>3, <2>1, <2>2, SlotStays DEF OthersStay
<1>6. ASSUME NEW r \in RestCalls PROVE Answered(r)'
  <2>1. Answered(r) /\ r \in Requests /\ r \notin Slots
    BY SlotFacts DEF LoopInv
  <2>2. web[d].next \in 1..MaxEvents
    BY <1>1, EventsShape DEF Places
  <2>3. r # <<d, web[d].next>>
    BY <2>1, <2>2, SlotFacts
  <2> QED
    BY <1>3, <2>1, <2>3 DEF Answered
<1> QED
  BY <1>3, <1>4, <1>5, <1>6 DEF LoopInv

(***************************************************************************)
(* The end of an event: its author was told what its request returned, or  *)
(* was told nothing.                                                       *)
(***************************************************************************)
LEMMA NextEventLoop ==
  ASSUME Places, IndInv, LoopInv, NEW d \in Deliveries,
         ReplyAccepted(d) \/ ReplyAnswerLost(d) \/ ReplyFails(d)
  PROVE  LoopInv'
<1>1. /\ web[d].pc = "task" /\ pc[<<d, web[d].next>>] = "done"
      /\ UNCHANGED <<vars, rest>>
      /\ AuthorTold(d) \/ UNCHANGED replied
  BY DEF ReplyAccepted, ReplyAnswerLost, ReplyFails, TaskReturned, NextEvent, Slot
<1>2. /\ OthersStay(d) /\ web'[d].pc = "loop"
      /\ web'[d].payload = web[d].payload /\ web'[d].next = web[d].next + 1
  <2>1. \E sent \in BOOLEAN : NextEvent(d, sent)
    BY DEF ReplyAccepted, ReplyAnswerLost, ReplyFails
  <2> QED
    BY <2>1, NextEventFields DEF Places
<1>3. web[d].next \in Nat /\ web[d].next \in 1..MaxEvents
  BY <1>1, Fields, EventsShape DEF Places
<1>4. /\ replied' \in [Slots -> {"none", "result", "error"}]
      /\ \A s \in Slots : s # <<d, web[d].next>> => replied'[s] = replied[s]
      /\ \/ replied'[<<d, web[d].next>>] = replied[<<d, web[d].next>>]
         \/ replied'[<<d, web[d].next>>] =
              IF result[<<d, web[d].next>>].code = "ok" THEN "result" ELSE "error"
  BY <1>1, <1>3, SlotFacts DEF LoopInv, AuthorTold, Slot, Succeeded
<1>5. ASSUME NEW i \in 1..MaxEvents PROVE Begun(d, i)' /\ Said(d, i)'
  <2>1. Begun(d, i) /\ Said(d, i) /\ <<d, i>> \in Slots
    BY SlotFacts DEF LoopInv
  <2>2. CASE i = web[d].next
    BY <1>1, <1>2, <1>3, <1>4, <2>1, <2>2 DEF Begun, Said, vars
  <2>3. CASE i # web[d].next
    <3>1. replied'[<<d, i>>] = replied[<<d, i>>]
      BY <1>4, <2>1, <2>3
    <3> QED
      BY <1>1, <1>2, <1>3, <2>1, <2>3, <3>1 DEF Begun, Said, vars
  <2> QED
    BY <2>2, <2>3
<1>6. ASSUME NEW c \in Deliveries \ {d}, NEW i \in 1..MaxEvents
      PROVE  Begun(c, i)' /\ Said(c, i)'
  <2>1. Begun(c, i) /\ Said(c, i) /\ <<c, i>> \in Slots
    BY SlotFacts DEF LoopInv
  <2>2. replied'[<<c, i>>] = replied[<<c, i>>]
    BY <1>4, <2>1
  <2> QED
    BY <1>1, <1>2, <2>1, <2>2, SlotStays DEF OthersStay, vars
<1> QED
  BY <1>1, <1>4, <1>5, <1>6 DEF LoopInv, Answered, vars

(* The REST handler's own steps. *)
LEMMA RestLoop ==
  ASSUME Places, IndInv, LoopInv, NEW r \in RestCalls,
         \/ \E b \in Bodies : RestRefuse(r, b) \/ RestStart(r, b)
         \/ RestRespond(r)
  PROVE  LoopInv'
<1>1. /\ web' = web /\ replied' = replied /\ result' = result
      /\ r \in Requests /\ r \notin Slots
      /\ pc \in [Requests -> {"idle", "consult", "token", "provider", "done"}]
  BY SlotFacts DEF RestRefuse, RestStart, RestRespond, Start, gateVars, vars, IndInv, TypeOK
<1>2. \A q \in Requests \ {r} : pc'[q] = pc[q]
  BY <1>1 DEF RestRefuse, RestStart, RestRespond, Start, vars
<1>3. /\ rest' \in [RestCalls -> {0, 200, 400, 500}]
      /\ \A q \in RestCalls \ {r} : rest'[q] = rest[q]
  <2>1. CASE \E b \in Bodies : RestRefuse(r, b) \/ RestStart(r, b)
    BY <2>1 DEF LoopInv, RestRefuse, RestStart, gateVars
  <2>2. CASE RestRespond(r)
    <3>1. StatusOf(result[r].code) \in {0, 200, 400, 500}
      BY DEF StatusOf
    <3> QED
      BY <2>2, <3>1 DEF LoopInv, RestRespond
  <2> QED
    BY <2>1, <2>2
<1>4. Answered(r)'
  BY <1>1 DEF LoopInv, Answered, RestRefuse, RestStart, RestRespond, Start, gateVars, vars
<1>5. ASSUME NEW q \in RestCalls \ {r} PROVE Answered(q)'
  <2>1. Answered(q) /\ q \in Requests \ {r}
    BY SlotFacts DEF LoopInv
  <2> QED
    BY <1>1, <1>2, <1>3, <2>1 DEF Answered
<1>6. ASSUME NEW c \in Deliveries, NEW i \in 1..MaxEvents
      PROVE  Begun(c, i)' /\ Said(c, i)'
  <2>1. Begun(c, i) /\ Said(c, i) /\ <<c, i>> \in Requests \ {r}
    BY <1>1, SlotFacts DEF LoopInv
  <2> QED
    BY <1>1, <1>2, <2>1, SlotStays
<1> QED
  BY <1>1, <1>3, <1>4, <1>5, <1>6 DEF LoopInv

(* Steps below the handlers. *)
LEMMA BelowLoop ==
  ASSUME Places, IndInv, LoopInv, NEW r \in Requests, Below(r)
  PROVE  LoopInv'
<1>1. web' = web /\ replied' = replied /\ rest' = rest
  BY DEF Below, gateVars
<1>2. ASSUME NEW c \in Deliveries, NEW i \in 1..MaxEvents
      PROVE  Begun(c, i)' /\ Said(c, i)'
  <2>1. Begun(c, i) /\ Said(c, i) /\ <<c, i>> \in Requests
    BY SlotFacts DEF LoopInv
  <2> QED
    BY <1>1, <2>1, BelowKeeps DEF Begun, Said
<1>3. ASSUME NEW q \in RestCalls PROVE Answered(q)'
  <2>1. Answered(q) /\ q \in Requests
    BY SlotFacts DEF LoopInv
  <2> QED
    BY <1>1, <2>1, BelowKeeps DEF Answered
<1> QED
  BY <1>1, <1>2, <1>3 DEF LoopInv

(* Every step keeps what ties the handlers to their requests. *)
LEMMA StepLoop == Places /\ IndInv /\ LoopInv /\ [GateNext]_allVars => LoopInv'
<1> SUFFICES ASSUME Places, IndInv, LoopInv, [GateNext]_allVars PROVE LoopInv'
  OBVIOUS
<1>1. ASSUME NEW d \in Deliveries, NEW p \in Payloads,
             RefusePayload(d, p) \/ AcceptPayload(d, p)
      PROVE  LoopInv'
  BY <1>1, QuietLoop
<1>2. ASSUME NEW d \in Deliveries, WebStep(d) PROVE LoopInv'
  BY <1>2, QuietLoop, DispatchLoop, NextEventLoop DEF WebStep
<1>3. ASSUME NEW r \in RestCalls,
             \/ \E b \in Bodies : RestRefuse(r, b) \/ RestStart(r, b)
             \/ RestRespond(r)
      PROVE  LoopInv'
  BY <1>3, RestLoop
<1>4. ASSUME NEW r \in Requests, Below(r) PROVE LoopInv'
  BY <1>4, BelowLoop
<1>5. CASE UNCHANGED allVars
  BY <1>5 DEF allVars, gateVars, vars, LoopInv, Begun, Said, Answered
<1> QED
  BY <1>1, <1>2, <1>3, <1>4, <1>5 DEF GateNext, GateQuiescent

(* The inductive invariant of the gatekeeper. *)
GateInv == Places /\ LoopInv /\ IndInv /\ ServedInv

(* It holds in every reachable state. *)
THEOREM GateInvariance == GateSpec => []GateInv
BY TaskInvariants, InitLoop, StepLoop, PTL DEF GateSpec, GateInv

-----------------------------------------------------------------------------
(* What it gives. *)

(***************************************************************************)
(* Every variable keeps its type: the counters of a delivery never exceed  *)
(* the length of its list, nor its place in the loop.                      *)
(***************************************************************************)
THEOREM GateTypes == GateSpec => []GateTypeOK
<1>1. GateInv => GateTypeOK
  <2> SUFFICES ASSUME GateInv PROVE GateTypeOK
    OBVIOUS
  <2> DEFINE R == [pc : {"idle", "loop", "task", "answered"},
                   payload : Payloads \cup {NoPayload},
                   next : 1..MaxEvents + 1, processed : 0..MaxEvents,
                   success : 0..MaxEvents, error : 0..MaxEvents,
                   status : {0, 200, 400, 401}]
  <2>1. ASSUME NEW d \in Deliveries PROVE web[d] \in R
    <3>1. web[d] \in WebRecord /\ Counting(d)
      BY DEF GateInv, Places
    <3>2. Len(Events(d)) \in Nat /\ Len(Events(d)) <= MaxEvents /\ MaxEvents \in Nat
      BY EventsShape DEF GateInv, Places
    <3>3. /\ web[d].next \in Nat /\ web[d].processed \in Nat
          /\ web[d].success \in Nat /\ web[d].error \in Nat
      BY <3>1 DEF WebRecord
    <3>4. /\ web[d].next >= 1 /\ web[d].next <= Len(Events(d)) + 1
          /\ web[d].processed <= Len(Events(d))
          /\ web[d].success + web[d].error <= web[d].processed
      <4>1. Busy(d) \in {0, 1}
        OBVIOUS
      <4>2. /\ web[d].next >= 1 /\ web[d].next + Busy(d) <= Len(Events(d)) + 1
            /\ web[d].processed = web[d].success + web[d].error + Busy(d)
            /\ web[d].processed < web[d].next + Busy(d)
        BY <3>1
      <4> DEFINE n == Len(Events(d))
                 b == Busy(d)
      <4> HIDE DEF Busy, Events, Counting, n, b
      <4>3. n \in Nat /\ b \in {0, 1}
        BY <3>2, <4>1 DEF n, b
      <4>4. web[d].next + b <= n + 1 /\ web[d].processed < web[d].next + b
            /\ web[d].processed = web[d].success + web[d].error + b
        BY <4>2 DEF n, b
      <4>5. web[d].next <= n + 1 /\ web[d].processed <= n
            /\ web[d].success + web[d].error <= web[d].processed
        BY <3>3, <4>3, <4>4
      <4> QED
        BY <4>2, <4>5 DEF n
    <3>5. /\ web[d].next \in 1..MaxEvents + 1 /\ web[d].processed \in 0..MaxEvents
          /\ web[d].success \in 0..MaxEvents /\ web[d].error \in 0..MaxEvents
      <4> DEFINE n == Len(Events(d))
      <4>1. /\ n \in Nat /\ n <= MaxEvents /\ web[d].next <= n + 1
            /\ web[d].processed <= n
        BY <3>2, <3>4
      <4> HIDE DEF n
      <4>2. MaxEvents \in Nat
        BY GatekeeperAssumption
      <4>3. web[d].next \in 1..MaxEvents + 1
        BY <3>3, <3>4, <4>1, <4>2
      <4>4. web[d].processed \in 0..MaxEvents
        BY <3>3, <4>1, <4>2
      <4>5. web[d].success \in 0..MaxEvents /\ web[d].error \in 0..MaxEvents
        BY <3>3, <3>4, <4>2, <4>4
      <4> QED
        BY <4>3, <4>4, <4>5
    <3> QED
      BY <3>1, <3>5 DEF WebRecord, WebPlaces, WebPayloads, WebStatuses
  <2>2. web \in [Deliveries -> R]
    BY <2>1 DEF GateInv, Places
  <2> QED
    BY <2>2 DEF GateInv, LoopInv, IndInv, GateTypeOK
<1> QED
  BY <1>1, GateInvariance, PTL

(***************************************************************************)
(* A delivery's events are taken in order, one at a time.                  *)
(***************************************************************************)
THEOREM OrderedEvents == GateSpec => []EventsInOrder
<1>1. GateInv => EventsInOrder
  <2> SUFFICES ASSUME GateInv, NEW d \in Deliveries, NEW i \in 1..MaxEvents,
                      NEW j \in 1..MaxEvents, i < j, pc[<<d, j>>] # "idle"
               PROVE  /\ web[d].next >= j
                      /\ pc[<<d, i>>] \in {"idle", "done"}
                      /\ call[<<d, i>>] = "sent" => /\ result[<<d, i>>].code # "ok"
                                                    /\ replied[<<d, i>>] # "result"
    BY DEF EventsInOrder
  <2>1. /\ Begun(d, i) /\ Begun(d, j) /\ Said(d, i) /\ web[d].next \in Nat
        /\ <<d, i>> \in Requests
    BY Fields, SlotFacts DEF GateInv, LoopInv, Places
  <2>2. j <= web[d].next /\ i < web[d].next
    BY <2>1, GatekeeperAssumption DEF Begun
  <2>3. result[<<d, i>>].code = "ok" => call[<<d, i>>] = "applied"
    BY <2>1 DEF GateInv, ServedInv, Told
  <2> QED
    BY <2>1, <2>2, <2>3 DEF Begun, Said
<1> QED
  BY <1>1, GateInvariance, PTL

(***************************************************************************)
(* What LINE's users are told is true, and told once.                      *)
(***************************************************************************)
THEOREM TrueReplies == GateSpec => []RepliesAreTrue
<1>1. GateInv => RepliesAreTrue
  <2> SUFFICES ASSUME GateInv, NEW d \in Deliveries, NEW i \in 1..MaxEvents
               PROVE  /\ replied[<<d, i>>] = "result" =>
                           result[<<d, i>>].code = "ok" /\ call[<<d, i>>] = "applied"
                      /\ replied[<<d, i>>] = "error" => result[<<d, i>>].code \in ErrorCodes
                      /\ replied[<<d, i>>] # "none" => web[d].next > i
    BY DEF RepliesAreTrue, Slots
  <2>1. Said(d, i) /\ <<d, i>> \in Requests
    BY SlotFacts DEF GateInv, LoopInv
  <2>2. result[<<d, i>>].code = "ok" => call[<<d, i>>] = "applied"
    BY <2>1 DEF GateInv, ServedInv, Told
  <2>3. /\ result[<<d, i>>].code \in ErrorCodes \cup {"none", "ok"}
        /\ pc[<<d, i>>] = "done" => result[<<d, i>>].code # "none"
    BY <2>1 DEF GateInv, IndInv, TypeOK, Stages, Result
  <2> QED
    <3>1. replied[<<d, i>>] # "none" => web[d].next > i
      <4>1. web[d].next \in Int
        BY Fields DEF GateInv, Places
      <4> QED
        BY <2>1, <4>1 DEF Said
    <3> QED
      BY <2>1, <2>2, <2>3, <3>1 DEF Said
<1> QED
  BY <1>1, GateInvariance, PTL

(***************************************************************************)
(* No unsigned delivery and no event but a mention of the bot acts.        *)
(***************************************************************************)
THEOREM MentionsAct == GateSpec => []OnlyMentionsAct
<1>1. GateInv => OnlyMentionsAct
  <2> SUFFICES ASSUME GateInv, NEW d \in Deliveries, NEW i \in 1..MaxEvents,
                      pc[<<d, i>>] # "idle"
               PROVE  /\ web[d].payload.signed /\ web[d].payload.json
                      /\ Events(d)[i].type = "message"
                      /\ Events(d)[i].messageType = "text"
                      /\ \E m \in DOMAIN Events(d)[i].mentionees :
                           Events(d)[i].mentionees[m].userId = BotUserID
    BY DEF OnlyMentionsAct
  <2>1. PayloadStatus(web[d].payload) = 200 /\ Accepted(Events(d)[i])
    BY DEF GateInv, LoopInv, Begun
  <2>2. web[d].payload.signed /\ web[d].payload.json
    BY <2>1 DEF PayloadStatus
  <2>3. BotMentions(Events(d)[i].mentionees) # {}
    BY <2>1 DEF Accepted
  <2> QED
    BY <2>1, <2>2, <2>3 DEF Accepted, BotMentions
<1> QED
  BY <1>1, GateInvariance, PTL

(***************************************************************************)
(* A refusal by the gatekeeper, or one blamed on the client, is clean.     *)
(***************************************************************************)
THEOREM CleanRefusals == GateSpec => []ClientErrorsAreClean
<1>1. GateInv => ClientErrorsAreClean
  <2> SUFFICES ASSUME GateInv PROVE ClientErrorsAreClean
    OBVIOUS
  <2>1. ASSUME NEW r \in RestCalls, rest[r] = 400 PROVE call[r] = "none"
    <3>1. Answered(r) /\ r \in Requests
      BY SlotFacts DEF GateInv, LoopInv
    <3>2. CASE pc[r] = "idle"
      BY <3>1, <3>2 DEF GateInv, IndInv, Stages
    <3>3. CASE pc[r] = "done" /\ StatusOf(result[r].code) = 400
      <4>1. result[r].code \in EarlyCodes
        BY <3>3 DEF StatusOf, EarlyCodes
      <4>2. SUFFICES ASSUME call[r] # "none" PROVE FALSE
        OBVIOUS
      <4>3. asked[r].operation \in Operations
        BY <3>1, <4>2, SentFacts DEF GateInv, Admitted
      <4>4. result[r].code \in {"none", "ok", FailureCode[asked[r].operation],
                                "CALENDAR_REPLY_FORMAT_FAILED"}
        BY <3>1, <4>2 DEF GateInv, IndInv, Stages
      <4> QED
        BY <4>1, <4>3, <4>4, FailureCodes DEF EarlyCodes
    <3> QED
      BY <2>1, <3>1, <3>2, <3>3 DEF Answered
  <2>2. ASSUME NEW d \in Deliveries, NEW i \in 1..MaxEvents,
               web[d].status \in {400, 401}
        PROVE  pc[<<d, i>>] = "idle"
    BY <2>2 DEF GateInv, LoopInv, Begun, Places
  <2> QED
    BY <2>1, <2>2 DEF ClientErrorsAreClean
<1> QED
  BY <1>1, GateInvariance, PTL

(***************************************************************************)
(* A REST client told 200 asked for something that was done.               *)
(***************************************************************************)
THEOREM RestSuccesses == GateSpec => []RestSuccessIsDone
<1>1. GateInv => RestSuccessIsDone
  <2> SUFFICES ASSUME GateInv, NEW r \in RestCalls, rest[r] = 200
               PROVE  call[r] = "applied"
    BY DEF RestSuccessIsDone
  <2>1. Answered(r) /\ r \in Requests
    BY SlotFacts DEF GateInv, LoopInv
  <2>2. result[r].code = "ok"
    BY <2>1 DEF Answered, StatusOf
  <2> QED
    BY <2>1, <2>2 DEF GateInv, ServedInv, Told
<1> QED
  BY <1>1, GateInvariance, PTL

=============================================================================
