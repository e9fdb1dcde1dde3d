------------------------------ MODULE Gatekeeper ------------------------------
(***************************************************************************)
(* The gatekeeper package: the LINE webhook handler, which works through   *)
(* the events of one delivery in order, and the REST handler.  Both hand   *)
(* their texts to TaskUseCase, whose requests here are the events of the   *)
(* deliveries, <<d, i>>, and the REST calls.  Deliveries and REST calls    *)
(* are served concurrently, each in a goroutine of net/http.               *)
(***************************************************************************)
EXTENDS TaskUseCase, MentionText

CONSTANTS
  Deliveries,  \* the webhook requests LINE posts
  MaxEvents,   \* the longest list of events in one delivery
  Payloads,    \* what a delivery can be: [readable, signed, json, events]
  RestCalls,   \* the POST /api/tasks requests
  Bodies       \* what a REST call can be: [valid, text]

Slots == Deliveries \X (1..MaxEvents)

(* LINE's mentions end where they say: at or behind their start, at an int. *)
LineMentionee ==
  {m \in Mentionee : m.length >= 0 /\ m.index + m.length <= MaxInt}

LineEvent ==
  [type : STRING, messageType : STRING, userId : UserIds, text : Seq(Runes),
   mentionees : Seq(LineMentionee), replyToken : STRING]

Payload ==
  [readable : BOOLEAN, signed : BOOLEAN, json : BOOLEAN, events : Seq(LineEvent)]

ASSUME GatekeeperAssumption ==
  /\ MaxEvents \in Nat \ {0}
  /\ Requests = Slots \cup RestCalls
  /\ Slots \cap RestCalls = {}
  /\ Payloads \subseteq Payload
  /\ \A p \in Payloads : Len(p.events) <= MaxEvents
  /\ Bodies \subseteq [valid : BOOLEAN, text : Seq(Runes)]

VARIABLES
  web,      \* the goroutine of a delivery: its place in the loop, its counters
  replied,  \* what the LINE platform accepted as the reply to an event
  rest      \* the status a REST call was answered with, 0 before

gateVars == <<web, replied, rest>>
allVars == <<vars, gateVars>>

NoPayload == [readable |-> FALSE, signed |-> FALSE, json |-> FALSE, events |-> <<>>]

Idle == [pc |-> "idle", payload |-> NoPayload, next |-> 1, processed |-> 0,
         success |-> 0, error |-> 0, status |-> 0]

GateTypeOK ==
  /\ TypeOK
  /\ web \in [Deliveries -> [pc : {"idle", "loop", "task", "answered"},
                             payload : Payloads \cup {NoPayload},
                             next : 1..MaxEvents + 1, processed : 0..MaxEvents,
                             success : 0..MaxEvents, error : 0..MaxEvents,
                             status : {0, 200, 400, 401}]]
  /\ replied \in [Slots -> {"none", "result", "error"}]
  /\ rest \in [RestCalls -> {0, 200, 400, 500}]

GateInit ==
  /\ Init
  /\ web = [d \in Deliveries |-> Idle]
  /\ replied = [s \in Slots |-> "none"]
  /\ rest = [r \in RestCalls |-> 0]

-----------------------------------------------------------------------------
(* The webhook handler. *)

(* Mutant: a bad signature is answered as forbidden. *)
PayloadStatusForbidden(p) ==
  IF ~p.readable THEN 400 ELSE IF ~p.signed THEN 403 ELSE IF ~p.json THEN 400 ELSE 200

(* The checks ServeHTTP makes on the whole request, in its order. *)
PayloadStatus(p) ==
  IF ~p.readable THEN 400 ELSE IF ~p.signed THEN 401 ELSE IF ~p.json THEN 400 ELSE 200

RefusePayload(d, p) ==
  /\ web[d].pc = "idle"
  /\ PayloadStatus(p) # 200
  /\ web' = [web EXCEPT ![d].pc = "answered", ![d].payload = p,
                        ![d].status = PayloadStatus(p)]
  /\ UNCHANGED <<vars, replied, rest>>

AcceptPayload(d, p) ==
  /\ web[d].pc = "idle"
  /\ PayloadStatus(p) = 200
  /\ web' = [web EXCEPT ![d].pc = "loop", ![d].payload = p]
  /\ UNCHANGED <<vars, replied, rest>>

(* Mutant: the type of the message is not looked at. *)
AcceptedOfAnyType(e) ==
  /\ e.type = "message"
  /\ BotMentions(e.mentionees) # {}
  /\ CleanedText(e.text, e.mentionees) # <<>>

(* A text message that mentions the bot and says something besides. *)
Accepted(e) ==
  /\ e.type = "message"
  /\ e.messageType = "text"
  /\ BotMentions(e.mentionees) # {}
  /\ CleanedText(e.text, e.mentionees) # <<>>

Current(d) == web[d].payload.events[web[d].next]
Slot(d) == <<d, web[d].next>>

InLoop(d) == web[d].pc = "loop" /\ web[d].next <= Len(web[d].payload.events)

SkipEvent(d) ==
  /\ InLoop(d)
  /\ ~Accepted(Current(d))
  /\ web' = [web EXCEPT ![d].next = @ + 1]
  /\ UNCHANGED <<vars, replied, rest>>

(* A 30-second context is made and the task use case is called. *)
DispatchEvent(d) ==
  /\ InLoop(d)
  /\ Accepted(Current(d))
  /\ Start(Slot(d))
  /\ web' = [web EXCEPT ![d].pc = "task", ![d].processed = @ + 1]
  /\ UNCHANGED <<replied, rest>>

(* Mutant: the use case runs in the background. *)
TaskNotAwaited(d) == web[d].pc = "task"

(* The use case has returned: what it said goes out under the same context. *)
TaskReturned(d) == web[d].pc = "task" /\ pc[Slot(d)] = "done"

Succeeded(d) == result[Slot(d)].code = "ok"

(* ReplyText sends nothing with a blank token or after the context's end. *)
CanReply(d) == Current(d).replyToken # "" /\ ~ctxDone[Slot(d)]

AuthorTold(d) == replied' = [replied EXCEPT ![Slot(d)] =
                          IF Succeeded(d) THEN "result" ELSE "error"]

(* Mutant: a success is counted before its reply is sent. *)
NextEventUnsent(d, sent) ==
  /\ web' = [web EXCEPT ![d].pc = "loop", ![d].next = @ + 1,
                        ![d].success = IF Succeeded(d) THEN @ + 1 ELSE @,
                        ![d].error = IF Succeeded(d) THEN @ ELSE @ + 1]
  /\ UNCHANGED <<vars, rest>>

(* A failed use case counts as an error, whatever becomes of its reply. *)
NextEvent(d, sent) ==
  /\ web' = [web EXCEPT ![d].pc = "loop", ![d].next = @ + 1,
                        ![d].success = IF Succeeded(d) /\ sent THEN @ + 1 ELSE @,
                        ![d].error = IF Succeeded(d) /\ sent THEN @ ELSE @ + 1]
  /\ UNCHANGED <<vars, rest>>

ReplyAccepted(d) == TaskReturned(d) /\ CanReply(d) /\ AuthorTold(d) /\ NextEvent(d, TRUE)

(* Mutant: a reply whose answer does not arrive is sent again. *)
ReplyAgainWhenLost(d) ==
  TaskReturned(d) /\ CanReply(d) /\ AuthorTold(d) /\ UNCHANGED <<vars, web, rest>>

(* LINE accepts the reply and its answer does not arrive. *)
ReplyAnswerLost(d) == TaskReturned(d) /\ CanReply(d) /\ AuthorTold(d) /\ NextEvent(d, FALSE)

(* Mutant: a reply that cannot be sent is waited for. *)
ReplyFailsWhenSent(d) ==
  TaskReturned(d) /\ CanReply(d) /\ NextEvent(d, FALSE) /\ UNCHANGED replied

(* Not sent, not delivered, or refused by LINE. *)
ReplyFails(d) == TaskReturned(d) /\ NextEvent(d, FALSE) /\ UNCHANGED replied

(* Mutant: a delivery with an event that failed is answered as failed. *)
AcknowledgeFailed(d) ==
  /\ web[d].pc = "loop"
  /\ web[d].next > Len(web[d].payload.events)
  /\ web' = [web EXCEPT ![d].pc = "answered",
                        ![d].status = IF web[d].error > 0 THEN 500 ELSE 200]
  /\ UNCHANGED <<vars, replied, rest>>

(* Every event was looked at: the delivery is acknowledged with 200. *)
Acknowledge(d) ==
  /\ web[d].pc = "loop"
  /\ web[d].next > Len(web[d].payload.events)
  /\ web' = [web EXCEPT ![d].pc = "answered", ![d].status = 200]
  /\ UNCHANGED <<vars, replied, rest>>

WebStep(d) ==
  \/ SkipEvent(d)
  \/ DispatchEvent(d)
  \/ ReplyAccepted(d)
  \/ ReplyAnswerLost(d)
  \/ ReplyFails(d)
  \/ Acknowledge(d)

-----------------------------------------------------------------------------
(* The REST handler; its context is the connection's and has no deadline. *)

BodyOK(b) == b.valid /\ TrimSpace(b.text) # <<>>

RestRefuse(r, b) ==
  /\ pc[r] = "idle" /\ rest[r] = 0
  /\ ~BodyOK(b)
  /\ rest' = [rest EXCEPT ![r] = 400]
  /\ UNCHANGED <<vars, web, replied>>

RestStart(r, b) ==
  /\ rest[r] = 0
  /\ BodyOK(b)
  /\ Start(r)
  /\ UNCHANGED gateVars

(* Mutant: every error below the gatekeeper is blamed on the client. *)
StatusBlamesClient(code) ==
  IF code = "ok" THEN 200 ELSE IF code = "INTERNAL_GRPC_ERROR" THEN 500 ELSE 400

(* The HTTP status an outcome carries. *)
StatusOf(code) ==
  IF code = "ok" THEN 200
  ELSE IF code \in {"TASK_TYPE_UNSUPPORTED", "OPERATION_UNSUPPORTED",
                    "INTERNAL_EXTRACTION_INCOMPLETE"} THEN 400
  ELSE 500

(* Mutant: the error of the use case is dropped. *)
RestRespondAlwaysOk(r) ==
  /\ pc[r] = "done" /\ rest[r] = 0
  /\ rest' = [rest EXCEPT ![r] = 200]
  /\ UNCHANGED <<vars, web, replied>>

RestRespond(r) ==
  /\ pc[r] = "done" /\ rest[r] = 0
  /\ rest' = [rest EXCEPT ![r] = StatusOf(result[r].code)]
  /\ UNCHANGED <<vars, web, replied>>

-----------------------------------------------------------------------------
Below(r) ==
  /\ Goroutine(r) \/ ContextDone(r) \/ Google(r)
  /\ UNCHANGED gateVars

GateQuiescent ==
  /\ \A d \in Deliveries : web[d].pc = "answered"
  /\ \A r \in RestCalls : rest[r] # 0
  /\ \A r \in Requests : call[r] # "sent" /\ (pc[r] # "idle" => ctxDone[r])
  /\ UNCHANGED allVars

GateNext ==
  \/ \E d \in Deliveries :
       \/ \E p \in Payloads : RefusePayload(d, p) \/ AcceptPayload(d, p)
       \/ WebStep(d)
  \/ \E r \in RestCalls :
       \/ \E b \in Bodies : RestRefuse(r, b) \/ RestStart(r, b)
       \/ RestRespond(r)
  \/ \E r \in Requests : Below(r)
  \/ GateQuiescent

GateSpec == GateInit /\ [][GateNext]_allVars

(***************************************************************************)
(* The handlers' goroutines are scheduled, a reply ends within the 20      *)
(* seconds of its HTTP client, and the clients below return when their     *)
(* context ends.  The context of a LINE event ends after 30 seconds; that  *)
(* of a REST call ends when its client leaves, which it need not do.       *)
(***************************************************************************)
GateFairSpec ==
  /\ GateSpec
  /\ \A d \in Deliveries : WF_allVars(WebStep(d))
  /\ \A r \in RestCalls : WF_allVars(RestRespond(r))
  /\ \A s \in Slots : WF_allVars(ContextDone(s) /\ UNCHANGED gateVars)
  /\ \A r \in Requests : WF_allVars(CtxReturns(r) /\ UNCHANGED gateVars)

(* Google's token endpoint answers, which no deadline of the code enforces. *)
GateTokenFairSpec ==
  /\ GateFairSpec
  /\ \A r \in Requests : WF_allVars(TokenReturns(r) /\ UNCHANGED gateVars)

-----------------------------------------------------------------------------
(* Properties. *)

(***************************************************************************)
(* The counters in the acknowledgement are true: every accepted event was  *)
(* processed and is counted once as a success or as an error, and a        *)
(* success is an event whose author was told the result.                   *)
(***************************************************************************)
CountersAreTrue ==
  \A d \in Deliveries :
    LET w == web[d]
        events == w.payload.events
        upTo == IF w.pc = "task" THEN w.next ELSE w.next - 1
    IN w.status \notin {400, 401} =>
         /\ w.processed = Cardinality({i \in 1..upTo : Accepted(events[i])})
         /\ w.processed = w.success + w.error + (IF w.pc = "task" THEN 1 ELSE 0)
         /\ w.success <= Cardinality({i \in 1..upTo : replied[<<d, i>>] = "result"})
         /\ w.status = 200 => upTo = Len(events)

(***************************************************************************)
(* The events of a delivery are taken one at a time and in order: when one *)
(* is under way, every earlier one has been answered, and an earlier call  *)
(* that could still take effect belongs to an event told as failed.        *)
(***************************************************************************)
EventsInOrder ==
  \A d \in Deliveries : \A i, j \in 1..MaxEvents :
    i < j /\ pc[<<d, j>>] # "idle" =>
      /\ web[d].next >= j
      /\ pc[<<d, i>>] \in {"idle", "done"}
      /\ call[<<d, i>>] = "sent" => /\ result[<<d, i>>].code # "ok"
                                    /\ replied[<<d, i>>] # "result"

(***************************************************************************)
(* Whoever is told a result through LINE is told of an effect that Google  *)
(* applied, and an error is told only of a request that ended in one.  The *)
(* loop is past an event whose author was told something, so that no       *)
(* second reply to it follows, sent because the answer to the first one    *)
(* was lost.                                                               *)
(***************************************************************************)
RepliesAreTrue ==
  \A s \in Slots :
    /\ replied[s] = "result" => result[s].code = "ok" /\ call[s] = "applied"
    /\ replied[s] = "error" => result[s].code \in ErrorCodes
    /\ replied[s] # "none" => web[s[1]].next > s[2]

(***************************************************************************)
(* Only a signed delivery's text message that mentions the bot ever        *)
(* reaches Internal or the calendar.                                       *)
(***************************************************************************)
OnlyMentionsAct ==
  \A d \in Deliveries, i \in 1..MaxEvents :
    pc[<<d, i>>] # "idle" =>
      /\ web[d].payload.signed /\ web[d].payload.json
      /\ LET e == web[d].payload.events[i]
         IN /\ e.type = "message" /\ e.messageType = "text"
            /\ \E m \in DOMAIN e.mentionees : e.mentionees[m].userId = BotUserID

(***************************************************************************)
(* A REST client that is told its request was bad, and a delivery that is  *)
(* refused, never change the calendar, not even later.                     *)
(***************************************************************************)
ClientErrorsAreClean ==
  /\ \A r \in RestCalls : rest[r] = 400 => call[r] = "none"
  /\ \A d \in Deliveries, i \in 1..MaxEvents :
       web[d].status \in {400, 401} => pc[<<d, i>>] = "idle"

(* A REST client told 200 asked for something that was done. *)
RestSuccessIsDone ==
  \A r \in RestCalls : rest[r] = 200 => call[r] = "applied"

(* Every accepted delivery is acknowledged with 200, whatever fails below. *)
EveryDeliveryAnswered ==
  \A d \in Deliveries : (web[d].pc = "loop") ~> (web[d].status = 200)

(* A REST call is answered too when Internal is slow (plan_detail: 30 seconds). *)
EveryRestCallAnswered ==
  \A r \in RestCalls : (pc[r] = "consult") ~> (rest[r] # 0)

(* A message the bot itself sent is ignored (plan_detail). *)
OwnMessagesIgnored ==
  \A d \in Deliveries, i \in 1..MaxEvents :
    pc[<<d, i>>] # "idle" => web[d].payload.events[i].userId # BotUserID

=============================================================================
