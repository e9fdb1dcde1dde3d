----------------------------- MODULE Redelivery -----------------------------
(***************************************************************************)
(* The webhook against the clock and across crashes.  LINE posts a batch   *)
(* of events and posts it again when it does not hear a 200; the server    *)
(* keeps no record of what it did, so that an attempt on a batch is just   *)
(* another delivery to Gatekeeper.  What is added here is LINE's side of   *)
(* the connection, the time a delivery takes against the write timeout of  *)
(* the server, and the end of the process at any moment.                   *)
(*                                                                         *)
(* A tick is a part of the 30 seconds of an event.  Only waiting takes     *)
(* time: for Internal, for Google, for LINE to take a reply, and, with no  *)
(* limit of the code's, for an access token.                               *)
(***************************************************************************)
EXTENDS Gatekeeper

CONSTANTS
  Batches,       \* the bodies LINE has to deliver
  MaxAttempts,   \* a bound: how often LINE posts one of them
  Repeated,      \* a bound: the payloads LINE posts more than once
  Limit,         \* lineEventProcessingTimeout, in ticks
  WriteTimeouts, \* what the server may be configured with, in ticks; 0 is none
  MaxAge         \* a bound: a delivery this old is past every write timeout

ASSUME RedeliveryAssumption ==
  /\ MaxAttempts \in Nat \ {0}
  /\ Deliveries = Batches \X (1..MaxAttempts)
  /\ Limit \in Nat \ {0}
  /\ Repeated \subseteq Payloads
  /\ WriteTimeouts \subseteq Nat
  /\ MaxAge \in Nat /\ \A t \in WriteTimeouts : t < MaxAge

VARIABLES
  writeTimeout,  \* what main configured: never changes
  line,          \* what LINE knows of an attempt
  age,           \* the ticks since the header of the attempt's request was read
  spent,         \* the ticks since the context of the event under way was made
  stalled,       \* the attempts a token refresh held after a context's end
  killed         \* the attempts under way when their process ended

lineVars == <<writeTimeout, line, age, spent, stalled, killed>>
redeliveryVars == <<allVars, lineVars>>

RedeliveryTypeOK ==
  /\ GateTypeOK
  /\ writeTimeout \in WriteTimeouts
  /\ line \in [Deliveries -> {"unsent", "waiting", "acked", "failed", "gaveup"}]
  /\ age \in [Deliveries -> 0..MaxAge]
  /\ spent \in [Deliveries -> 0..Limit]
  /\ stalled \subseteq Deliveries
  /\ killed \subseteq Deliveries

RedeliveryInit ==
  /\ GateInit
  /\ writeTimeout \in WriteTimeouts
  /\ line = [d \in Deliveries |-> "unsent"]
  /\ age = [d \in Deliveries |-> 0]
  /\ spent = [d \in Deliveries |-> 0]
  /\ stalled = {}
  /\ killed = {}

(* A handler is in its loop and its process is alive. *)
Running(d) == web[d].pc \in {"loop", "task"} /\ d \notin killed

Previous(d) == <<d[1], d[2] - 1>>

-----------------------------------------------------------------------------
(* LINE. *)

(* A batch is posted again, as it was, when the last attempt was in vain. *)
Due(d, p) ==
  /\ line[d] = "unsent"
  /\ d[2] > 1 => /\ line[Previous(d)] \in {"failed", "gaveup"}
                 /\ p = web[Previous(d)].payload
                 /\ p \in Repeated

PostRefused(d, p) ==
  /\ Due(d, p)
  /\ RefusePayload(d, p)
  /\ line' = [line EXCEPT ![d] = "failed"]
  /\ UNCHANGED <<writeTimeout, age, spent, stalled, killed>>

PostAccepted(d, p) ==
  /\ Due(d, p)
  /\ AcceptPayload(d, p)
  /\ line' = [line EXCEPT ![d] = "waiting"]
  /\ UNCHANGED <<writeTimeout, age, spent, stalled, killed>>

(* LINE's own timeout, or the network: the handler does not notice. *)
LineGivesUp(d) ==
  /\ line[d] = "waiting"
  /\ line' = [line EXCEPT ![d] = "gaveup"]
  /\ UNCHANGED <<allVars, writeTimeout, age, spent, stalled, killed>>

-----------------------------------------------------------------------------
(* The handler. *)

(* context.WithTimeout: the 30 seconds of the event begin. *)
Dispatch(d) ==
  /\ Running(d)
  /\ DispatchEvent(d)
  /\ spent' = [spent EXCEPT ![d] = 0]
  /\ UNCHANGED <<writeTimeout, line, age, stalled, killed>>

Proceed(d) ==
  /\ Running(d)
  /\ SkipEvent(d) \/ ReplyAccepted(d) \/ ReplyAnswerLost(d) \/ ReplyFails(d)
  /\ UNCHANGED lineVars

Heard(d, answer) ==
  line' = [line EXCEPT ![d] = IF @ = "waiting" THEN answer ELSE @]

(* Mutant: the delivery is acknowledged before its events are looked at. *)
AnswerFirst(d) ==
  /\ Running(d) /\ web[d].pc = "loop"
  /\ Heard(d, "acked")
  /\ UNCHANGED <<allVars, writeTimeout, age, spent, stalled, killed>>

(***************************************************************************)
(* The answer is written when the handler returns.  The deadline for it    *)
(* was set when the header was read: after it the write fails, and LINE    *)
(* sees the connection close.  At the deadline either may happen.          *)
(***************************************************************************)
AnswerArrives(d) ==
  /\ Running(d) /\ Acknowledge(d)
  /\ writeTimeout = 0 \/ age[d] <= writeTimeout
  /\ Heard(d, "acked")
  /\ UNCHANGED <<writeTimeout, age, spent, stalled, killed>>

(* Mutant: an event that failed makes the answer a 500. *)
AnswerTooLateOrFailed(d) ==
  /\ Running(d) /\ Acknowledge(d)
  /\ (writeTimeout # 0 /\ age[d] >= writeTimeout) \/ web[d].error > 0
  /\ Heard(d, "failed")
  /\ UNCHANGED <<writeTimeout, age, spent, stalled, killed>>

AnswerTooLate(d) ==
  /\ Running(d) /\ Acknowledge(d)
  /\ writeTimeout # 0 /\ age[d] >= writeTimeout
  /\ Heard(d, "failed")
  /\ UNCHANGED <<writeTimeout, age, spent, stalled, killed>>

HandlerStep(d) == Dispatch(d) \/ Proceed(d) \/ AnswerArrives(d) \/ AnswerTooLate(d)

(* The goroutine is inside the use case for the event under way. *)
InTask(d) == Running(d) /\ web[d].pc = "task"

(* Mutant: each call of an event gets 30 seconds of its own. *)
UseCaseStepRenewed(d) ==
  /\ InTask(d)
  /\ Goroutine(Slot(d))
  /\ spent' = [spent EXCEPT ![d] = 0]
  /\ UNCHANGED <<gateVars, writeTimeout, line, age, stalled, killed>>

UseCaseStep(d) ==
  /\ InTask(d)
  /\ Goroutine(Slot(d))
  /\ UNCHANGED <<gateVars, lineVars>>

(* Mutant: the context is made without a timeout. *)
TimerMissing(d) == FALSE

(* The timer of the context. *)
TimerFires(d) ==
  /\ InTask(d) /\ spent[d] = Limit
  /\ ContextDone(Slot(d))
  /\ UNCHANGED <<gateVars, lineVars>>

GoogleStep(s) == Google(s) /\ UNCHANGED <<gateVars, lineVars>>

(* A refresh of the access token has not heard that the context ended. *)
Stuck(d) == InTask(d) /\ pc[Slot(d)] = "token" /\ ctxDone[Slot(d)]

Waiting(d) == InTask(d) /\ (spent[d] < Limit \/ Stuck(d))

TimePasses ==
  /\ \E d \in Deliveries : Running(d)
  /\ \A d \in Deliveries : Running(d) => Waiting(d)
  /\ age' = [d \in Deliveries |-> IF Running(d) /\ age[d] < MaxAge THEN age[d] + 1 ELSE age[d]]
  /\ spent' = [d \in Deliveries |->
                 IF Running(d) /\ spent[d] < Limit THEN spent[d] + 1 ELSE spent[d]]
  /\ stalled' = stalled \cup {d \in Deliveries : Running(d) /\ spent[d] = Limit}
  /\ UNCHANGED <<allVars, writeTimeout, killed>>

(* Mutant: the connection is cut when the write timeout has passed. *)
TickCuts ==
  /\ TimePasses
  /\ line' = [d \in Deliveries |->
                IF line[d] = "waiting" /\ age[d] = writeTimeout THEN "failed" ELSE line[d]]

(***************************************************************************)
(* Time passes while every handler waits for somebody.  The calls, the     *)
(* reply among them, return when the context ends; only a token refresh,   *)
(* whose client was made with context.Background, can hold an event for    *)
(* longer, and nothing limits for how long.                                *)
(***************************************************************************)
Tick == TimePasses /\ UNCHANGED line

(***************************************************************************)
(* The process ends: a crash, or the signal of a stop, for which main has  *)
(* no handler.  Nothing is left of what its goroutines were doing; a new   *)
(* process answers the next attempt.  Calls already sent go on.            *)
(***************************************************************************)
Crash ==
  /\ \E d \in Deliveries : Running(d)
  /\ killed' = killed \cup {d \in Deliveries : Running(d)}
  /\ line' = [d \in Deliveries |->
                IF Running(d) /\ line[d] = "waiting" THEN "failed" ELSE line[d]]
  /\ UNCHANGED <<allVars, writeTimeout, age, spent, stalled>>

RedeliveryQuiescent ==
  /\ \A d \in Deliveries : ~Running(d) /\ line[d] # "waiting"
  /\ \A s \in Slots : call[s] # "sent"
  /\ UNCHANGED redeliveryVars

RedeliveryNext ==
  \/ \E d \in Deliveries :
       \/ \E p \in Payloads : PostRefused(d, p) \/ PostAccepted(d, p)
       \/ LineGivesUp(d) \/ HandlerStep(d) \/ UseCaseStep(d) \/ TimerFires(d)
  \/ \E s \in Slots : GoogleStep(s)
  \/ Tick
  \/ Crash
  \/ RedeliveryQuiescent

RedeliverySpec == RedeliveryInit /\ [][RedeliveryNext]_redeliveryVars

(***************************************************************************)
(* Handlers are scheduled, time passes, the timer of a context fires and   *)
(* what was called under it then returns.  A refresh of the access token   *)
(* is taken to end at some time, which Google and not the code sees to.    *)
(* Nothing is assumed of LINE.                                             *)
(***************************************************************************)
RedeliveryFairness ==
  /\ WF_redeliveryVars(Tick)
  /\ \A d \in Deliveries :
       /\ WF_redeliveryVars(HandlerStep(d))
       /\ WF_redeliveryVars(TimerFires(d))
       /\ WF_redeliveryVars(UseCaseStep(d) /\ ctxDone[Slot(d)])

RedeliveryFairSpec == RedeliverySpec /\ RedeliveryFairness

-----------------------------------------------------------------------------
(* Properties. *)

(* The events of a delivery that are handed to the use case. *)
Workload(d) ==
  Cardinality({i \in DOMAIN web[d].payload.events : Accepted(web[d].payload.events[i])})

(* Every event of the delivery may take its full time before the deadline. *)
Fits(d) == writeTimeout = 0 \/ Workload(d) * Limit < writeTimeout

(* There is a deadline, and a token refresh held the delivery against it. *)
HeldUp(d) == writeTimeout # 0 /\ d \in stalled

Earlier(c, d) == c[1] = d[1] /\ c[2] < d[2]

(***************************************************************************)
(* One event is carried to Google by two attempts only when LINE itself    *)
(* lost patience, the process ended in between, the delivery is so long    *)
(* that its events can outlast the write timeout, or a token refresh kept  *)
(* one of them beyond its 30 seconds: never because an event failed, was   *)
(* slow within them or could not be replied to.                            *)
(***************************************************************************)
DuplicatesExplained ==
  \A c, d \in Deliveries : \A i \in 1..MaxEvents :
    Earlier(c, d) /\ call[<<c, i>>] # "none" /\ call[<<d, i>>] # "none" =>
      line[c] = "gaveup" \/ c \in killed \/ ~Fits(c) \/ HeldUp(c)

(***************************************************************************)
(* When LINE has heard the 200, every event meant for the bot was worked   *)
(* off to its end in that very attempt, and no further attempt repeats it. *)
(***************************************************************************)
AckedMeansHandled ==
  \A d \in Deliveries : line[d] = "acked" =>
    /\ web[d].processed = Workload(d)
    /\ web[d].success + web[d].error = web[d].processed
    /\ \A i \in 1..MaxEvents : pc[<<d, i>>] \in {"idle", "done"}
    /\ \A e \in Deliveries : Earlier(d, e) => web[e].pc = "idle"

(***************************************************************************)
(* A delivery takes no longer than the time limits of the events handed    *)
(* over so far, their replies included, unless a token refresh outlived    *)
(* the context of one: nothing else in the loop can.                       *)
(***************************************************************************)
LoopTimeBounded ==
  \A d \in Deliveries \ stalled : age[d] <= web[d].processed * Limit

(***************************************************************************)
(* Two attempts on one batch run side by side, and so out of order, only   *)
(* when LINE gave up on a handler that was still at work.                  *)
(***************************************************************************)
OverlapOnlyWhenGivenUp ==
  \A c, d \in Deliveries :
    Earlier(c, d) /\ Running(c) /\ line[d] # "unsent" => line[c] = "gaveup"

(***************************************************************************)
(* A signed and readable delivery whose events fit into the write timeout  *)
(* is acknowledged, as long as its process lives, LINE waits and no token  *)
(* refresh keeps an event beyond its context.                              *)
(***************************************************************************)
AcknowledgedWhenItFits ==
  \A d \in Deliveries :
    line[d] = "failed" /\ Fits(d) =>
      web[d].status \in {400, 401} \/ d \in killed \/ HeldUp(d)

(* LINE does not wait for ever: each attempt is answered or breaks off. *)
AttemptsSettle ==
  \A d \in Deliveries : (line[d] = "waiting") ~> (line[d] # "waiting")

(***************************************************************************)
(* A signed and readable delivery is always acknowledged, as long as the   *)
(* process lives (line_handler.go) and each event keeps to its 30 seconds. *)
(***************************************************************************)
AlwaysAcknowledged ==
  \A d \in Deliveries :
    line[d] = "failed" => web[d].status \in {400, 401} \/ d \in killed \/ HeldUp(d)

=============================================================================
