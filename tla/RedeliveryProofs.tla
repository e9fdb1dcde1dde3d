--------------------------- MODULE RedeliveryProofs ---------------------------
(***************************************************************************)
(* Redelivery, slow deliveries and stopped processes change nothing of     *)
(* what was proved of the handlers; and what they do to LINE's view of a   *)
(* delivery is bounded by the clock and by the chain of its attempts.      *)
(***************************************************************************)
EXTENDS DeliveryRefinement, GatekeeperCountersProofs, TaskRefinementProofs

-----------------------------------------------------------------------------
(* The handlers under redelivery are the handlers. *)

(* The slot of an event under way is one of the slots. *)
LEMMA UnderWay ==
  ASSUME Places, NEW d \in Deliveries, web[d].pc = "task"
  PROVE  Slot(d) \in Requests
<1>1. /\ web[d].next \in Nat /\ web[d].next >= 1 /\ web[d].next + 1 <= Len(Events(d)) + 1
  BY Fields DEF Places, Place, Counting, Busy
<1>2. Len(Events(d)) \in Nat /\ Len(Events(d)) <= MaxEvents /\ MaxEvents \in Nat
  BY EventsShape DEF Places
<1> HIDE DEF Events
<1>3. web[d].next \in 1..MaxEvents
  BY <1>1, <1>2
<1> QED
  BY <1>3, SlotFacts DEF Slot

(* Whatever happens here is a step of the handlers, or none. *)
LEMMA GateStep == Places /\ [RedeliveryNext]_redeliveryVars => [GateNext]_allVars
<1> SUFFICES ASSUME Places, [RedeliveryNext]_redeliveryVars PROVE [GateNext]_allVars
  OBVIOUS
<1>1. ASSUME NEW d \in Deliveries, NEW p \in Payloads, PostRefused(d, p) \/ PostAccepted(d, p)
      PROVE  GateNext
  BY <1>1 DEF PostRefused, PostAccepted, GateNext
<1>2. ASSUME NEW d \in Deliveries, LineGivesUp(d) PROVE UNCHANGED allVars
  BY <1>2 DEF LineGivesUp
<1>3. ASSUME NEW d \in Deliveries, HandlerStep(d) PROVE GateNext
  <2>1. WebStep(d)
    BY <1>3 DEF HandlerStep, Dispatch, Proceed, AnswerArrives, AnswerTooLate, WebStep
  <2> QED
    BY <2>1 DEF GateNext
<1>4. ASSUME NEW d \in Deliveries, UseCaseStep(d) \/ TimerFires(d) PROVE GateNext
  <2>1. Slot(d) \in Requests
    BY <1>4, UnderWay DEF UseCaseStep, TimerFires, InTask
  <2>2. Below(Slot(d))
    BY <1>4 DEF UseCaseStep, TimerFires, Below
  <2> QED
    BY <2>1, <2>2 DEF GateNext
<1>5. ASSUME NEW s \in Slots, GoogleStep(s) PROVE GateNext
  <2>1. s \in Requests /\ Below(s)
    BY <1>5, SlotFacts DEF GoogleStep, Below
  <2> QED
    BY <2>1 DEF GateNext
<1>6. CASE Tick \/ Crash \/ RedeliveryQuiescent \/ UNCHANGED redeliveryVars
  BY <1>6 DEF Tick, TimePasses, Crash, RedeliveryQuiescent, redeliveryVars
<1> QED
  BY <1>1, <1>2, <1>3, <1>4, <1>5, <1>6 DEF RedeliveryNext

(***************************************************************************)
(* What was proved of the handlers holds when processes end at any moment  *)
(* and LINE posts a batch again: no theorem about Gatekeeper, and so none  *)
(* about TaskUseCase, needs a process that lives for ever.                 *)
(***************************************************************************)
THEOREM RedeliveryImplementsGate == RedeliverySpec => GateSpec
<1>1. RedeliveryInit => GateInit
  BY DEF RedeliveryInit
<1> QED
  BY <1>1, InitPlaces, StepPlaces, GateStep, PTL DEF RedeliverySpec, GateSpec

-----------------------------------------------------------------------------
(* The invariant. *)

LineTypes ==
  /\ writeTimeout \in WriteTimeouts
  /\ line \in [Deliveries -> {"unsent", "waiting", "acked", "failed", "gaveup"}]
  /\ age \in [Deliveries -> 0..MaxAge]
  /\ spent \in [Deliveries -> 0..Limit]
  /\ stalled \subseteq Deliveries
  /\ killed \subseteq Deliveries

AtWork(d) == web[d].pc \in {"loop", "task"}

(* What LINE knows of an attempt is true. *)
Knows(d) ==
  /\ line[d] = "unsent" <=> web[d].pc = "idle"
  /\ d \in killed => AtWork(d) /\ line[d] # "waiting"
  /\ line[d] = "waiting" => AtWork(d)
  /\ line[d] = "acked" => web[d].status = 200
  /\ line[d] = "failed" =>
       \/ d \in killed
       \/ web[d].pc = "answered" /\ PayloadStatus(web[d].payload) # 200
       \/ /\ web[d].pc = "answered" /\ web[d].status = 200
          /\ writeTimeout # 0 /\ age[d] >= writeTimeout

(* An attempt was made because every earlier one was in vain. *)
Vain(c) == line[c] \in {"failed", "gaveup"}
Chain == \A c, d \in Deliveries : Earlier(c, d) /\ line[d] # "unsent" => Vain(c)

(* The time an event under way has left belongs to its delivery's budget, *)
(* which only a token refresh can overdraw.                               *)
Left(d) == IF web[d].pc = "task" THEN Limit - spent[d] ELSE 0
Clock(d) == d \notin stalled => age[d] + Left(d) <= web[d].processed * Limit

RedeliveryInv ==
  /\ LineTypes
  /\ \A d \in Deliveries : Knows(d) /\ Clock(d)
  /\ Chain

-----------------------------------------------------------------------------
(* How the parts of the invariant survive a step. *)

(* An attempt whose record, clock and fate a step leaves alone. *)
LEMMA KnowsStays ==
  ASSUME Places, LineTypes, NEW d \in Deliveries, Knows(d), web'[d] = web[d],
         line'[d] = line[d], age'[d] \in Nat, age'[d] >= age[d],
         writeTimeout' = writeTimeout, d \in killed' <=> d \in killed
  PROVE  Knows(d)'
<1>1. writeTimeout \in Nat /\ age[d] \in Nat
  BY RedeliveryAssumption DEF LineTypes
<1>2. writeTimeout # 0 /\ age[d] >= writeTimeout => age'[d] >= writeTimeout
  BY <1>1
<1> QED
  BY <1>2 DEF Knows, AtWork

(* An attempt that goes on with its loop. *)
LEMMA KnowsAtWork ==
  ASSUME Places, Places', NEW d \in Deliveries, Knows(d), Running(d), AtWork(d)',
         line'[d] = line[d], killed' = killed
  PROVE  Knows(d)'
<1>1. AtWork(d) /\ web[d].status = 0 /\ d \notin killed
  <2>1. AtWork(d) /\ d \notin killed
    BY DEF Running, AtWork
  <2> QED
    BY <2>1, Fields DEF AtWork, Places, Place, Screening
<1>2. line[d] \notin {"unsent", "acked"} /\ web'[d].pc \notin {"idle", "answered"}
  BY <1>1 DEF Knows, AtWork
<1>3. line[d] # "failed"
  BY <1>1 DEF Knows, AtWork
<1> QED
  BY <1>1, <1>2, <1>3 DEF Knows

(* The chain of attempts, when none is begun and what was in vain stays so. *)
LEMMA ChainStays ==
  ASSUME Chain, \A c \in Deliveries : /\ line'[c] = "unsent" <=> line[c] = "unsent"
                                      /\ Vain(c) => line'[c] = line[c]
  PROVE  Chain'
BY DEF Chain, Vain, Earlier

(* A delivery whose counters and clock a step leaves alone. *)
LEMMA ClockStays ==
  ASSUME NEW d, Clock(d), web'[d].pc = web[d].pc, web'[d].processed = web[d].processed,
         age'[d] = age[d], spent'[d] = spent[d], stalled' = stalled
  PROVE  Clock(d)'
BY DEF Clock, Left

(* The budget of one more event. *)
LEMMA OneMore ==
  ASSUME NEW p \in Nat
  PROVE  /\ p * Limit \in Nat /\ (p + 1) * Limit = p * Limit + Limit
         /\ \A q \in Nat : p <= q => p * Limit <= q * Limit
<1>1. Limit \in Nat
  BY RedeliveryAssumption
<1> QED
  BY <1>1

(* The fields the clock of a delivery reads. *)
LEMMA ClockFields ==
  ASSUME Places, LineTypes, NEW d \in Deliveries
  PROVE  /\ age[d] \in Nat /\ spent[d] \in 0..Limit /\ Limit \in Nat \ {0}
         /\ web[d].processed \in Nat /\ web[d].processed * Limit \in Nat
         /\ writeTimeout \in Nat
BY RedeliveryAssumption, Fields, OneMore DEF Places, LineTypes

-----------------------------------------------------------------------------
(* The steps. *)

(* Nothing was posted at the start. *)
LEMMA InitRedelivery == RedeliveryInit => RedeliveryInv
<1> SUFFICES ASSUME RedeliveryInit PROVE RedeliveryInv
  OBVIOUS
<1>1. Limit \in Nat /\ 0 \in 0..Limit /\ 0 \in 0..MaxAge
  BY RedeliveryAssumption
<1>2. LineTypes
  BY <1>1 DEF RedeliveryInit, LineTypes
<1>3. ASSUME NEW d \in Deliveries PROVE Knows(d) /\ Clock(d)
  <2>1. web[d] = Idle
    BY DEF RedeliveryInit, GateInit
  <2>2. web[d].pc = "idle" /\ web[d].processed = 0
    BY <2>1 DEF Idle
  <2>3. line[d] = "unsent" /\ age[d] = 0 /\ d \notin killed
    BY DEF RedeliveryInit
  <2>4. Knows(d)
    BY <2>2, <2>3 DEF Knows
  <2>5. Clock(d)
    BY <1>1, <2>2, <2>3 DEF Clock, Left
  <2> QED
    BY <2>4, <2>5
<1>4. Chain
  BY DEF RedeliveryInit, Chain
<1> QED
  BY <1>2, <1>3, <1>4 DEF RedeliveryInv

(* A batch is posted, for the first time or again. *)
LEMMA PostStep ==
  ASSUME Places, Places', RedeliveryInv, NEW d \in Deliveries, NEW p \in Payloads,
         PostRefused(d, p) \/ PostAccepted(d, p)
  PROVE  RedeliveryInv'
<1> DEFINE heard == IF PayloadStatus(p) = 200 THEN "waiting" ELSE "failed"
<1>1. /\ line' = [line EXCEPT ![d] = heard] /\ Due(d, p) /\ web[d].pc = "idle"
      /\ UNCHANGED <<writeTimeout, age, spent, stalled, killed>>
  BY DEF PostRefused, PostAccepted, RefusePayload, AcceptPayload
<1>2. OthersStay(d) /\ web'[d].processed = web[d].processed /\ web'[d].payload = p
  BY RefuseFields, AcceptFields DEF PostRefused, PostAccepted, Places
<1>3. web'[d].pc = IF PayloadStatus(p) = 200 THEN "loop" ELSE "answered"
  <2>1. CASE RefusePayload(d, p)
    <3>1. PayloadStatus(p) # 200
      BY <2>1 DEF RefusePayload
    <3>2. web'[d].pc = "answered"
      BY <2>1, RefuseFields DEF Places
    <3> QED
      BY <3>1, <3>2
  <2>2. CASE AcceptPayload(d, p)
    <3>1. PayloadStatus(p) = 200
      BY <2>2 DEF AcceptPayload
    <3>2. web'[d].pc = "loop"
      BY <2>2, AcceptFields DEF Places
    <3> QED
      BY <3>1, <3>2
  <2> QED
    BY <2>1, <2>2 DEF PostRefused, PostAccepted
<1>4. heard \in {"waiting", "failed"}
  OBVIOUS
<1>5. LineTypes'
  BY <1>1, <1>4 DEF RedeliveryInv, LineTypes
<1>6. ASSUME NEW c \in Deliveries PROVE Knows(c)' /\ Clock(c)'
  <2>1. CASE c = d
    <3>1. Knows(d)'
      <4>1. d \notin killed' /\ line'[d] = heard
        BY <1>1 DEF RedeliveryInv, LineTypes, Knows, AtWork
      <4> QED
        BY <1>2, <1>3, <4>1 DEF Knows, AtWork
    <3>2. Clock(d)'
      BY <1>1, <1>2, <1>3 DEF RedeliveryInv, Clock, Left
    <3> QED
      BY <2>1, <3>1, <3>2
  <2>2. CASE c # d
    <3>1. web'[c] = web[c] /\ line'[c] = line[c] /\ age'[c] = age[c] /\ spent'[c] = spent[c]
      BY <1>1, <1>2, <2>2 DEF OthersStay, RedeliveryInv, LineTypes
    <3>2. age[c] \in Nat /\ age[c] >= age[c]
      BY DEF RedeliveryInv, LineTypes
    <3> QED
      BY <1>1, <3>1, <3>2, KnowsStays, ClockStays DEF RedeliveryInv
  <2> QED
    BY <2>1, <2>2
<1>7. Chain'
  <2> SUFFICES ASSUME NEW b \in Deliveries, NEW c \in Deliveries, Earlier(b, c),
                      line'[c] # "unsent"
               PROVE  line'[b] \in {"failed", "gaveup"}
    BY DEF Chain, Vain, Earlier
  <2>1. line[d] = "unsent" /\ line \in [Deliveries -> {"unsent", "waiting", "acked",
                                                      "failed", "gaveup"}]
    BY <1>1 DEF Due, RedeliveryInv, LineTypes
  <2>2. CASE c # d
    <3>1. Vain(b)
      BY <1>1, <2>1, <2>2 DEF RedeliveryInv, Chain
    <3>2. b # d
      BY <2>1, <3>1 DEF Vain
    <3> QED
      BY <1>1, <2>1, <3>1, <3>2 DEF Vain
  <2>3. CASE c = d
    <3>1. /\ d[2] \in Nat /\ d[2] >= 1 /\ b[2] \in Nat /\ b[2] >= 1
          /\ b[1] = d[1] /\ b[2] < d[2] /\ d \in Batches \X (1..MaxAttempts)
          /\ b = <<b[1], b[2]>>
      BY <2>3, RedeliveryAssumption DEF Earlier
    <3>2. d[2] > 1 /\ Previous(d) \in Deliveries
      BY <3>1, RedeliveryAssumption DEF Previous
    <3>3. Vain(Previous(d))
      BY <1>1, <3>2 DEF Due, Vain
    <3>4. b = Previous(d) \/ Earlier(b, Previous(d))
      BY <3>1 DEF Previous, Earlier
    <3>5. Vain(b)
      BY <3>2, <3>3, <3>4 DEF RedeliveryInv, Chain, Vain
    <3>6. b # d
      BY <3>1
    <3> QED
      BY <1>1, <2>1, <3>5, <3>6 DEF Vain
  <2> QED
    BY <2>2, <2>3
<1> QED
  BY <1>5, <1>6, <1>7 DEF RedeliveryInv

(* A step that moves one delivery on within its loop. *)
LEMMA OneMoves ==
  ASSUME Places, Places', RedeliveryInv, NEW d \in Deliveries, Running(d), OthersStay(d),
         AtWork(d)', Clock(d)', LineTypes',
         UNCHANGED <<writeTimeout, line, age, stalled, killed>>,
         \A c \in Deliveries \ {d} : spent'[c] = spent[c]
  PROVE  RedeliveryInv'
<1>1. ASSUME NEW c \in Deliveries PROVE Knows(c)' /\ Clock(c)'
  <2>1. CASE c = d
    BY <2>1, KnowsAtWork DEF RedeliveryInv
  <2>2. CASE c # d
    <3>1. web'[c] = web[c] /\ spent'[c] = spent[c]
      BY <2>2 DEF OthersStay
    <3>2. age[c] \in Nat /\ age[c] >= age[c]
      BY DEF RedeliveryInv, LineTypes
    <3> QED
      BY <3>1, <3>2, KnowsStays, ClockStays DEF RedeliveryInv
  <2> QED
    BY <2>1, <2>2
<1>2. Chain'
  BY ChainStays DEF RedeliveryInv
<1> QED
  BY <1>1, <1>2 DEF RedeliveryInv

(* An event is handed over: its 30 seconds are added to the budget. *)
LEMMA DispatchStep ==
  ASSUME Places, Places', RedeliveryInv, NEW d \in Deliveries, Dispatch(d)
  PROVE  RedeliveryInv'
<1>1. /\ Running(d) /\ DispatchEvent(d) /\ spent' = [spent EXCEPT ![d] = 0]
      /\ UNCHANGED <<writeTimeout, line, age, stalled, killed>>
  BY DEF Dispatch
<1>2. /\ OthersStay(d) /\ web'[d].pc = "task"
      /\ web'[d].processed = web[d].processed + 1
  BY <1>1, DispatchFields DEF Places
<1>3. LineTypes /\ Clock(d)
  BY DEF RedeliveryInv
<1>4. LineTypes' /\ spent'[d] = 0
  <2>1. 0 \in 0..Limit
    BY RedeliveryAssumption
  <2> QED
    BY <1>1, <1>3, <2>1 DEF LineTypes
<1>5. Clock(d)'
  <2>1. d \notin stalled => age[d] + 0 <= web[d].processed * Limit
    BY <1>1, <1>3 DEF Clock, Left, DispatchEvent, InLoop
  <2>2. (web[d].processed + 1) * Limit = web[d].processed * Limit + Limit
    BY <1>3, ClockFields, OneMore
  <2>3. d \notin stalled => age[d] + (Limit - 0) <= (web[d].processed + 1) * Limit
    BY <1>3, <2>1, <2>2, ClockFields
  <2> QED
    BY <1>1, <1>2, <1>4, <2>3 DEF Clock, Left
<1>6. \A c \in Deliveries \ {d} : spent'[c] = spent[c]
  BY <1>1, <1>3 DEF LineTypes
<1> QED
  BY <1>1, <1>2, <1>4, <1>5, <1>6, OneMoves DEF AtWork

(* An event is passed over, or is over: what it has left is not used. *)
LEMMA ProceedStep ==
  ASSUME Places, Places', RedeliveryInv, NEW d \in Deliveries, Proceed(d)
  PROVE  RedeliveryInv'
<1>1. Running(d) /\ UNCHANGED <<writeTimeout, line, age, spent, stalled, killed>>
  BY DEF Proceed, lineVars
<1>2. OthersStay(d) /\ web'[d].pc = "loop" /\ web'[d].processed = web[d].processed
  <2>1. CASE SkipEvent(d)
    BY <2>1, SkipFields DEF SkipEvent, InLoop, Places
  <2>2. CASE ~SkipEvent(d)
    <3>1. PICK sent \in BOOLEAN : NextEvent(d, sent)
      BY <2>2 DEF Proceed, ReplyAccepted, ReplyAnswerLost, ReplyFails
    <3> QED
      BY <3>1, NextEventFields DEF Places
  <2> QED
    BY <2>1, <2>2
<1>3. LineTypes /\ Clock(d)
  BY DEF RedeliveryInv
<1>4. LineTypes'
  BY <1>1, <1>3 DEF LineTypes
<1>5. Clock(d)'
  <2>1. Left(d) \in Nat
    BY <1>3, ClockFields DEF Left
  <2>2. d \notin stalled => age[d] + 0 <= web[d].processed * Limit
    BY <1>3, <2>1, ClockFields DEF Clock
  <2> QED
    BY <1>1, <1>2, <2>2 DEF Clock, Left
<1> QED
  BY <1>1, <1>2, <1>4, <1>5, OneMoves DEF AtWork

(* The answer is written, and LINE hears it or sees the connection close. *)
LEMMA AnswerStep ==
  ASSUME Places, Places', RedeliveryInv, NEW d \in Deliveries,
         AnswerArrives(d) \/ AnswerTooLate(d)
  PROVE  RedeliveryInv'
<1>1. /\ Running(d) /\ Acknowledge(d) /\ UNCHANGED <<writeTimeout, age, spent, stalled, killed>>
      /\ \/ Heard(d, "acked")
         \/ Heard(d, "failed") /\ writeTimeout # 0 /\ age[d] >= writeTimeout
  BY DEF AnswerArrives, AnswerTooLate
<1>2. /\ OthersStay(d) /\ web'[d].pc = "answered" /\ web'[d].status = 200
      /\ web'[d].processed = web[d].processed
  BY <1>1, AcknowledgeFields DEF Places
<1>3. LineTypes /\ Clock(d) /\ Knows(d) /\ web[d].pc = "loop" /\ d \notin killed
  BY <1>1 DEF RedeliveryInv, Acknowledge, Running
<1>4. LineTypes'
  BY <1>1, <1>3 DEF LineTypes, Heard
<1>5. /\ line'[d] \in {"acked", "failed", "gaveup"}
      /\ line'[d] = "failed" => writeTimeout # 0 /\ age[d] >= writeTimeout
      /\ \A c \in Deliveries \ {d} : line'[c] = line[c]
      /\ Vain(d) => line'[d] = line[d]
      /\ line[d] # "unsent"
  <2>1. line[d] \in {"waiting", "gaveup"}
    <3>1. web[d].status # 200
      BY <1>3, Fields DEF Places, Place, Screening
    <3>2. line[d] \notin {"unsent", "acked", "failed"}
      BY <1>3, <3>1 DEF Knows
    <3>3. line[d] \in {"unsent", "waiting", "acked", "failed", "gaveup"}
      BY <1>3 DEF LineTypes
    <3> QED
      BY <3>2, <3>3
  <2> QED
    BY <1>1, <1>3, <2>1 DEF Heard, LineTypes, Vain
<1>6. ASSUME NEW c \in Deliveries PROVE Knows(c)' /\ Clock(c)'
  <2>1. CASE c = d
    <3>1. Knows(d)'
      BY <1>1, <1>2, <1>3, <1>5 DEF Knows, AtWork
    <3>2. Clock(d)'
      BY <1>1, <1>2, <1>3 DEF Clock, Left
    <3> QED
      BY <2>1, <3>1, <3>2
  <2>2. CASE c # d
    <3>1. web'[c] = web[c] /\ line'[c] = line[c]
      BY <1>2, <1>5, <2>2 DEF OthersStay
    <3>2. age[c] \in Nat /\ age[c] >= age[c]
      BY DEF RedeliveryInv, LineTypes
    <3> QED
      BY <1>1, <3>1, <3>2, KnowsStays, ClockStays DEF RedeliveryInv
  <2> QED
    BY <2>1, <2>2
<1>7. Chain'
  BY <1>5, ChainStays DEF RedeliveryInv, Vain
<1> QED
  BY <1>4, <1>6, <1>7 DEF RedeliveryInv

(* LINE gives up, or the processes end: only what LINE knows changes. *)
LEMMA BreakStep ==
  ASSUME Places, Places', RedeliveryInv, Crash \/ \E d \in Deliveries : LineGivesUp(d)
  PROVE  RedeliveryInv'
<1>1. UNCHANGED <<web, writeTimeout, age, spent, stalled>>
  BY DEF Crash, LineGivesUp, allVars, gateVars
<1>2. LineTypes'
  BY DEF Crash, LineGivesUp, RedeliveryInv, LineTypes
<1>3. /\ \A c \in Deliveries : \/ line'[c] = line[c]
                               \/ line[c] = "waiting" /\ line'[c] = "gaveup"
                               \/ line[c] = "waiting" /\ line'[c] = "failed" /\ c \in killed'
      /\ \A c \in Deliveries : c \in killed => c \in killed'
      /\ \A c \in Deliveries : c \in killed' /\ c \notin killed =>
                                 AtWork(c) /\ line'[c] # "waiting"
  <2>1. CASE Crash
    BY <2>1 DEF Crash, Running, AtWork, RedeliveryInv, LineTypes
  <2>2. CASE \E d \in Deliveries : LineGivesUp(d)
    BY <2>2 DEF LineGivesUp, RedeliveryInv, LineTypes
  <2> QED
    BY <2>1, <2>2
<1>4. ASSUME NEW c \in Deliveries PROVE Knows(c)' /\ Clock(c)'
  <2>1. Clock(c)'
    BY <1>1, ClockStays DEF RedeliveryInv
  <2>2. Knows(c)'
    BY <1>1, <1>3 DEF RedeliveryInv, Knows, AtWork
  <2> QED
    BY <2>1, <2>2
<1>5. Chain'
  BY <1>3, ChainStays DEF RedeliveryInv, Vain
<1> QED
  BY <1>2, <1>4, <1>5 DEF RedeliveryInv

(* A tick goes to the age of a delivery and off what its event has left; *)
(* one that finds nothing left is a token refresh's.                     *)
LEMMA TickStep ==
  ASSUME Places, Places', RedeliveryInv, Tick
  PROVE  RedeliveryInv'
<1>1. UNCHANGED <<web, writeTimeout, line, killed>>
  BY DEF Tick, TimePasses, allVars, gateVars
<1>0. ASSUME NEW c \in Deliveries
      PROVE  /\ age'[c] = IF Running(c) /\ age[c] < MaxAge THEN age[c] + 1 ELSE age[c]
             /\ spent'[c] = IF Running(c) /\ spent[c] < Limit THEN spent[c] + 1 ELSE spent[c]
             /\ c \in stalled' <=> c \in stalled \/ (Running(c) /\ spent[c] = Limit)
             /\ Running(c) \in BOOLEAN
  BY DEF Tick, TimePasses, Running
<1>2. ASSUME NEW c \in Deliveries
      PROVE  /\ Running(c) => web[c].pc = "task"
             /\ age'[c] = age[c] \/ (Running(c) /\ age'[c] = age[c] + 1)
             /\ Running(c) /\ c \notin stalled' => spent[c] < Limit /\ spent'[c] = spent[c] + 1
             /\ ~Running(c) => spent'[c] = spent[c]
             /\ c \in stalled => c \in stalled'
             /\ age[c] \in Nat /\ spent[c] \in 0..Limit /\ Limit \in Nat \ {0}
             /\ web[c].processed * Limit \in Nat
  <2>1. /\ age[c] \in Nat /\ spent[c] \in 0..Limit /\ Limit \in Nat \ {0}
        /\ web[c].processed * Limit \in Nat
    BY ClockFields DEF RedeliveryInv
  <2>2. Running(c) => web[c].pc = "task"
    BY DEF Tick, TimePasses, Waiting, InTask
  <2>3. spent[c] < Limit \/ spent[c] = Limit
    BY <2>1
  <2>4. Running(c) /\ c \notin stalled' => spent[c] < Limit /\ spent'[c] = spent[c] + 1
    BY <1>0, <2>3
  <2>5. /\ age'[c] = age[c] \/ (Running(c) /\ age'[c] = age[c] + 1)
        /\ ~Running(c) => spent'[c] = spent[c]
        /\ c \in stalled => c \in stalled'
    BY <1>0
  <2> QED
    BY <2>1, <2>2, <2>4, <2>5
<1>3. LineTypes'
  <2>1. ASSUME NEW c \in Deliveries PROVE age'[c] \in 0..MaxAge /\ spent'[c] \in 0..Limit
    <3>1. age[c] \in 0..MaxAge /\ spent[c] \in 0..Limit /\ MaxAge \in Nat /\ Limit \in Nat
      BY RedeliveryAssumption DEF RedeliveryInv, LineTypes
    <3>2. age'[c] = age[c] \/ (age[c] < MaxAge /\ age'[c] = age[c] + 1)
      BY <1>0
    <3>3. spent'[c] = spent[c] \/ (spent[c] < Limit /\ spent'[c] = spent[c] + 1)
      BY <1>0
    <3> QED
      BY <3>1, <3>2, <3>3
  <2>2. /\ DOMAIN age' = Deliveries /\ DOMAIN spent' = Deliveries
        /\ age' = [c \in Deliveries |-> age'[c]] /\ spent' = [c \in Deliveries |-> spent'[c]]
        /\ stalled' \subseteq Deliveries
    BY DEF Tick, TimePasses, RedeliveryInv, LineTypes
  <2> QED
    BY <1>1, <2>1, <2>2 DEF RedeliveryInv, LineTypes
<1>4. ASSUME NEW c \in Deliveries PROVE Knows(c)' /\ Clock(c)'
  <2>1. age'[c] \in Nat /\ age'[c] >= age[c]
    BY <1>2
  <2>2. Knows(c)'
    BY <1>1, <2>1, KnowsStays DEF RedeliveryInv
  <2>3. Clock(c) /\ Clock(c)'
    <3>1. Clock(c)
      BY DEF RedeliveryInv
    <3>2. CASE Running(c) /\ c \notin stalled'
      <4>1. age[c] + (Limit - spent[c]) <= web[c].processed * Limit
        BY <1>2, <3>1, <3>2 DEF Clock, Left
      <4>2. age'[c] + (Limit - (spent[c] + 1)) <= web[c].processed * Limit
        BY <1>2, <4>1
      <4> QED
        BY <1>1, <1>2, <3>1, <3>2, <4>2 DEF Clock, Left
    <3>3. CASE ~Running(c)
      BY <1>1, <1>2, <3>1, <3>3 DEF Clock, Left
    <3>4. CASE c \in stalled'
      BY <3>1, <3>4 DEF Clock
    <3> QED
      BY <3>1, <3>2, <3>3, <3>4
  <2> QED
    BY <2>2, <2>3
<1>5. Chain'
  BY <1>1, ChainStays DEF RedeliveryInv
<1> QED
  BY <1>3, <1>4, <1>5 DEF RedeliveryInv

(* Steps below the handlers: nothing here changes. *)
LEMMA StillStep ==
  ASSUME RedeliveryInv, UNCHANGED <<web, lineVars>>
  PROVE  RedeliveryInv'
<1>1. UNCHANGED <<web, writeTimeout, line, age, spent, stalled, killed>>
  BY DEF lineVars
<1>2. ASSUME NEW c \in Deliveries PROVE Knows(c)' /\ Clock(c)'
  BY <1>1 DEF RedeliveryInv, Knows, Clock, Left, AtWork
<1> QED
  BY <1>1, <1>2 DEF RedeliveryInv, LineTypes, Chain, Vain

(* Every step keeps the invariant. *)
LEMMA StepRedelivery ==
  Places /\ Places' /\ RedeliveryInv /\ [RedeliveryNext]_redeliveryVars => RedeliveryInv'
<1> SUFFICES ASSUME Places, Places', RedeliveryInv, [RedeliveryNext]_redeliveryVars
             PROVE  RedeliveryInv'
  OBVIOUS
<1>1. ASSUME NEW d \in Deliveries, HandlerStep(d) PROVE RedeliveryInv'
  BY <1>1, DispatchStep, ProceedStep, AnswerStep DEF HandlerStep
<1>2. ASSUME NEW d \in Deliveries, UseCaseStep(d) \/ TimerFires(d) PROVE RedeliveryInv'
  BY <1>2, StillStep DEF UseCaseStep, TimerFires, gateVars
<1>3. ASSUME NEW s \in Slots, GoogleStep(s) PROVE RedeliveryInv'
  BY <1>3, StillStep DEF GoogleStep, gateVars
<1>4. CASE RedeliveryQuiescent \/ UNCHANGED redeliveryVars
  BY <1>4, StillStep DEF RedeliveryQuiescent, redeliveryVars, allVars, gateVars
<1> QED
  BY <1>1, <1>2, <1>3, <1>4, PostStep, BreakStep, TickStep DEF RedeliveryNext

(* It holds in every reachable state, with what is known of the handlers. *)
LEMMA AllInvariants == RedeliverySpec => [](RedeliveryInv /\ GateInv /\ Tallies)
<1>1. RedeliverySpec => [](GateInv /\ Tallies)
  BY RedeliveryImplementsGate, GateInvariance, InitTallies, StepTallies, PTL DEF GateSpec
<1>2. RedeliverySpec => [](GateInv /\ RedeliveryInv)
  <2>1. GateInv => Places
    BY DEF GateInv
  <2> QED
    BY <1>1, <2>1, InitRedelivery, StepRedelivery, PTL DEF RedeliverySpec
<1> QED
  BY <1>1, <1>2, PTL

-----------------------------------------------------------------------------
(* What it gives. *)

(***************************************************************************)
(* The variables of the handlers, of LINE's side and the clocks keep their *)
(* types: a delivery is answered 200, 400 or 401 whatever its events meet. *)
(***************************************************************************)
THEOREM RedeliveryTypes == RedeliverySpec => []RedeliveryTypeOK
<1>1. RedeliveryInv /\ GateInv /\ GateTypeOK => RedeliveryTypeOK
  <2> SUFFICES ASSUME RedeliveryInv, GateInv, GateTypeOK PROVE RedeliveryTypeOK
    OBVIOUS
  <2> QED
    BY DEF RedeliveryInv, LineTypes, RedeliveryTypeOK
<1> QED
  BY <1>1, AllInvariants, RedeliveryImplementsGate, GateTypes, PTL

(***************************************************************************)
(* A delivery takes no longer than its events' time limits together, the   *)
(* replies included, for lists of any length and any limit; nothing but a  *)
(* token refresh that outlives a context makes an exception.               *)
(***************************************************************************)
THEOREM BoundedLoops == RedeliverySpec => []LoopTimeBounded
<1>1. RedeliveryInv /\ GateInv => LoopTimeBounded
  <2> SUFFICES ASSUME RedeliveryInv, GateInv, NEW d \in Deliveries \ stalled
               PROVE  age[d] <= web[d].processed * Limit
    BY DEF LoopTimeBounded
  <2>1. /\ age[d] \in Nat /\ Left(d) \in Nat /\ web[d].processed * Limit \in Nat
        /\ age[d] + Left(d) <= web[d].processed * Limit
    BY ClockFields DEF Left, RedeliveryInv, GateInv, Clock
  <2> QED
    BY <2>1
<1> QED
  BY <1>1, AllInvariants, PTL

(* The attempts after one that was not in vain were never made. *)
LEMMA NoneAfter ==
  ASSUME RedeliveryInv, NEW c \in Deliveries, NEW d \in Deliveries, Earlier(c, d),
         web[d].pc # "idle"
  PROVE  Vain(c)
<1>1. line[d] # "unsent"
  BY DEF RedeliveryInv, Knows
<1> QED
  BY <1>1 DEF RedeliveryInv, Chain

(* At the end of the list, what was counted is the workload. *)
LEMMA WorkedOff ==
  ASSUME GateInv, Tallies, NEW d \in Deliveries, Busy(d) = 0,
         web[d].next = Len(Events(d)) + 1, web[d].status \notin {400, 401}
  PROVE  web[d].processed = Workload(d)
<1>1. Len(Events(d)) \in Nat /\ web[d].payload \in WebPayloads
  BY Fields, EventsShape DEF GateInv, Places
<1>2. DOMAIN Events(d) = 1..Len(Events(d))
  <2>1. web[d].payload = NoPayload \/ web[d].payload \in Payload
    BY <1>1, GatekeeperAssumption DEF WebPayloads
  <2>2. Events(d) = <<>> \/ Events(d) \in Seq(LineEvent)
    BY <2>1 DEF NoPayload, Payload, Events
  <2> QED
    BY <2>2
<1>3. Last(d) = Len(Events(d))
  BY <1>1 DEF Last
<1>4. web[d].processed = Cardinality(AcceptedTo(Events(d), Last(d)))
  BY DEF Tallies, Tally
<1>5. Workload(d) = Cardinality(AcceptedTo(Events(d), Len(Events(d))))
  BY <1>2 DEF Workload, AcceptedTo, Events
<1>6. Workload(d) = Cardinality(AcceptedTo(Events(d), Last(d)))
  BY <1>3, <1>5
<1> QED
  BY <1>4, <1>6, Zenon

(* What an acknowledged delivery has counted is its workload. *)
LEMMA CountedAll ==
  ASSUME GateInv, Tallies, NEW d \in Deliveries, web[d].status = 200
  PROVE  /\ web[d].processed = Workload(d)
         /\ web[d].processed = web[d].success + web[d].error
         /\ web[d].pc = "answered"
<1>1. /\ web[d].pc = "answered" /\ web[d].next = Len(Events(d)) + 1
      /\ web[d].processed = web[d].success + web[d].error + Busy(d)
  BY DEF GateInv, Places, Place, Screening, Counting
<1>2. web[d].success \in Nat /\ web[d].error \in Nat
  BY Fields DEF GateInv, Places
<1>3. Busy(d) = 0
  BY <1>1 DEF Busy
<1> QED
  BY <1>1, <1>2, <1>3, WorkedOff

(***************************************************************************)
(* An event is carried to Google by two attempts only when LINE gave up,   *)
(* the process ended, the delivery can outlast the write timeout, or a     *)
(* token refresh held it.                                                  *)
(***************************************************************************)
THEOREM ExplainedDuplicates == RedeliverySpec => []DuplicatesExplained
<1>1. RedeliveryInv /\ GateInv /\ Tallies => DuplicatesExplained
  <2> SUFFICES ASSUME RedeliveryInv, GateInv, Tallies,
                      NEW c \in Deliveries, NEW d \in Deliveries, NEW i \in 1..MaxEvents,
                      Earlier(c, d), call[<<c, i>>] # "none", call[<<d, i>>] # "none",
                      c \notin killed, Fits(c), ~HeldUp(c)
               PROVE  line[c] = "gaveup"
    BY DEF DuplicatesExplained
  <2>1. \A e \in Deliveries : call[<<e, i>>] # "none" =>
          web[e].pc # "idle" /\ PayloadStatus(web[e].payload) = 200
    <3> SUFFICES ASSUME NEW e \in Deliveries, call[<<e, i>>] # "none"
                 PROVE  web[e].pc # "idle" /\ PayloadStatus(web[e].payload) = 200
      OBVIOUS
    <3>1. pc[<<e, i>>] # "idle"
      BY SlotFacts DEF GateInv, IndInv, Stages
    <3> QED
      BY <3>1 DEF GateInv, LoopInv, Begun
  <2>2. Vain(c) /\ Knows(c) /\ PayloadStatus(web[c].payload) = 200
    BY <2>1, NoneAfter DEF RedeliveryInv
  <2>3. CASE line[c] = "failed"
    <3>1. web[c].status = 200 /\ writeTimeout # 0 /\ age[c] >= writeTimeout
      BY <2>2, <2>3 DEF Knows
    <3>2. web[c].processed = Workload(c)
      BY <3>1, CountedAll
    <3>3. /\ age[c] \in Nat /\ Left(c) \in Nat /\ web[c].processed * Limit \in Nat
          /\ age[c] + Left(c) <= web[c].processed * Limit /\ writeTimeout \in Nat
      BY <3>1, ClockFields DEF HeldUp, Left, RedeliveryInv, GateInv, Clock
    <3>4. web[c].processed * Limit < writeTimeout
      BY <3>1, <3>2 DEF Fits
    <3> QED
      BY <3>1, <3>3, <3>4
  <2> QED
    BY <2>2, <2>3 DEF Vain
<1> QED
  BY <1>1, AllInvariants, PTL

(***************************************************************************)
(* What LINE heard acknowledged was worked off, and is never repeated.     *)
(***************************************************************************)
THEOREM HandledWhenAcked == RedeliverySpec => []AckedMeansHandled
<1>1. RedeliveryInv /\ GateInv /\ Tallies => AckedMeansHandled
  <2> SUFFICES ASSUME RedeliveryInv, GateInv, Tallies,
                      NEW d \in Deliveries, line[d] = "acked"
               PROVE  /\ web[d].processed = Workload(d)
                      /\ web[d].success + web[d].error = web[d].processed
                      /\ \A i \in 1..MaxEvents : pc[<<d, i>>] \in {"idle", "done"}
                      /\ \A e \in Deliveries : Earlier(d, e) => web[e].pc = "idle"
    BY DEF AckedMeansHandled
  <2>1. web[d].status = 200
    BY DEF RedeliveryInv, Knows
  <2>2. /\ web[d].processed = Workload(d)
        /\ web[d].processed = web[d].success + web[d].error
        /\ web[d].pc = "answered"
    BY <2>1, CountedAll
  <2>3. ASSUME NEW i \in 1..MaxEvents PROVE pc[<<d, i>>] \in {"idle", "done"}
    <3>1. Begun(d, i) /\ web[d].next \in Nat /\ i \in Nat
      BY Fields, GatekeeperAssumption DEF GateInv, LoopInv, Places
    <3>2. pc[<<d, i>>] # "idle" => i <= web[d].next /\ i # web[d].next
      BY <2>2, <3>1 DEF Begun
    <3>3. i <= web[d].next /\ i # web[d].next => i < web[d].next
      BY <3>1
    <3> QED
      BY <3>1, <3>2, <3>3 DEF Begun
  <2>4. ASSUME NEW e \in Deliveries, Earlier(d, e) PROVE web[e].pc = "idle"
    BY <2>4, NoneAfter DEF Vain
  <2> QED
    BY <2>2, <2>3, <2>4
<1> QED
  BY <1>1, AllInvariants, PTL

(***************************************************************************)
(* Attempts run side by side only behind LINE's back.                      *)
(***************************************************************************)
THEOREM OverlapsGivenUp == RedeliverySpec => []OverlapOnlyWhenGivenUp
<1>1. RedeliveryInv => OverlapOnlyWhenGivenUp
  <2> SUFFICES ASSUME RedeliveryInv, NEW c \in Deliveries, NEW d \in Deliveries,
                      Earlier(c, d), Running(c), line[d] # "unsent"
               PROVE  line[c] = "gaveup"
    BY DEF OverlapOnlyWhenGivenUp
  <2>1. Vain(c) /\ Knows(c)
    BY DEF RedeliveryInv, Chain
  <2>2. c \notin killed /\ web[c].pc # "answered"
    BY DEF Running
  <2> QED
    BY <2>1, <2>2 DEF Vain, Knows
<1> QED
  BY <1>1, AllInvariants, PTL

(***************************************************************************)
(* A delivery that can be worked off within the write timeout is heard of, *)
(* unless it was refused, its process ended or a token refresh held it.    *)
(***************************************************************************)
THEOREM FittingAcknowledged == RedeliverySpec => []AcknowledgedWhenItFits
<1>1. RedeliveryInv /\ GateInv /\ Tallies => AcknowledgedWhenItFits
  <2> SUFFICES ASSUME RedeliveryInv, GateInv, Tallies, NEW d \in Deliveries,
                      line[d] = "failed", Fits(d), d \notin killed, ~HeldUp(d)
               PROVE  web[d].status \in {400, 401}
    BY DEF AcknowledgedWhenItFits
  <2>1. Knows(d) /\ web[d].status \in {0, 200, 400, 401}
    BY Fields DEF RedeliveryInv, GateInv, Places
  <2>2. CASE web[d].pc = "answered" /\ PayloadStatus(web[d].payload) # 200
    BY <2>1, <2>2 DEF GateInv, Places, Place, Screening
  <2>3. CASE web[d].status = 200 /\ writeTimeout # 0 /\ age[d] >= writeTimeout
    <3>1. web[d].processed = Workload(d)
      BY <2>3, CountedAll
    <3>2. /\ age[d] \in Nat /\ Left(d) \in Nat /\ web[d].processed * Limit \in Nat
          /\ age[d] + Left(d) <= web[d].processed * Limit /\ writeTimeout \in Nat
      BY <2>3, ClockFields DEF HeldUp, Left, RedeliveryInv, GateInv, Clock
    <3>3. web[d].processed * Limit < writeTimeout
      BY <2>3, <3>1 DEF Fits
    <3> QED
      BY <2>3, <3>2, <3>3
  <2> QED
    BY <2>1, <2>2, <2>3 DEF Knows
<1> QED
  BY <1>1, AllInvariants, PTL

-----------------------------------------------------------------------------
(* Redelivery implements DeliveryPromise. *)

(* What is for the bot in a payload that is accepted. *)
LEMMA ForBotFacts ==
  ASSUME NEW p \in Payloads
  PROVE  /\ ForBot[p] \subseteq 1..MaxEvents
         /\ PayloadStatus(p) # 200 => ForBot[p] = {}
         /\ PayloadStatus(p) = 200 =>
              ForBot[p] = {i \in DOMAIN p.events : Accepted(p.events[i])}
         /\ DOMAIN p.events = 1..Len(p.events)
<1>1. /\ p.events \in Seq(LineEvent) /\ Len(p.events) <= MaxEvents
      /\ MaxEvents \in Nat
  BY GatekeeperAssumption DEF Payload
<1>2. DOMAIN p.events = 1..Len(p.events) /\ Len(p.events) \in Nat
  BY <1>1
<1>3. ForBot[p] = IF PayloadStatus(p) # 200 THEN {}
                  ELSE {i \in DOMAIN p.events : Accepted(p.events[i])}
  BY DEF ForBot
<1>4. ForBot[p] \subseteq 1..Len(p.events)
  BY <1>2, <1>3
<1>5. 1..Len(p.events) \subseteq 1..MaxEvents
  BY <1>1, <1>2
<1> QED
  BY <1>2, <1>3, <1>4, <1>5

(* What is for the bot in a delivery at work. *)
LEMMA MeantAtWork ==
  ASSUME Places, NEW d \in Deliveries, AtWork(d)
  PROVE  /\ Meant(d) = {i \in DOMAIN Events(d) : Accepted(Events(d)[i])}
         /\ DOMAIN Events(d) = 1..Len(Events(d))
         /\ Meant(d) \subseteq 1..MaxEvents
         /\ Cardinality(Meant(d)) = Workload(d)
<1>1. PayloadStatus(web[d].payload) = 200 /\ web[d].pc # "idle"
  BY DEF Places, Place, Screening, AtWork
<1>2. web[d].payload # NoPayload
  BY <1>1 DEF NoPayload, PayloadStatus
<1>3. web[d].payload \in Payloads
  BY <1>2, Fields DEF Places, WebPayloads
<1>4. Meant(d) = ForBot[web[d].payload]
  BY <1>1 DEF Meant
<1>5. Meant(d) = {i \in DOMAIN web[d].payload.events : Accepted(web[d].payload.events[i])}
  BY <1>1, <1>3, <1>4, ForBotFacts
<1>6. Cardinality(Meant(d)) = Workload(d)
  BY <1>5 DEF Workload
<1>7. /\ ForBot[web[d].payload] \subseteq 1..MaxEvents
      /\ DOMAIN web[d].payload.events = 1..Len(web[d].payload.events)
  BY <1>3, ForBotFacts
<1> QED
  BY <1>4, <1>5, <1>6, <1>7, Zenon DEF Events

(* A delivery whose record stays looks the same to LINE's view. *)
LEMMA SameView ==
  ASSUME NEW d, web'[d] = web[d]
  PROVE  Meant(d)' = Meant(d) /\ Handling(d)' = Handling(d) /\ Over(d)' = Over(d)
BY DEF Meant, Handling, Over

(* A step of one delivery changes the mapped variables there only. *)
LEMMA OneView ==
  ASSUME NEW d \in Deliveries, OthersStay(d), killed' = killed
  PROVE  /\ Todo' = [Todo EXCEPT ![d] = Meant(d)']
         /\ InHand' = [InHand EXCEPT ![d] = Handling(d)']
         /\ Finished' = [Finished EXCEPT ![d] = Over(d)']
         /\ Open' = [Open EXCEPT ![d] = Running(d)']
<1>1. ASSUME NEW c \in Deliveries \ {d}
      PROVE  /\ Meant(c)' = Meant(c) /\ Handling(c)' = Handling(c) /\ Over(c)' = Over(c)
             /\ Running(c)' = Running(c)
  <2>1. web'[c] = web[c]
    BY DEF OthersStay
  <2> QED
    BY <2>1, SameView DEF Running
<1>2. Todo' = [Todo EXCEPT ![d] = Meant(d)']
  BY <1>1 DEF Todo
<1>3. InHand' = [InHand EXCEPT ![d] = Handling(d)']
  BY <1>1 DEF InHand
<1>4. Finished' = [Finished EXCEPT ![d] = Over(d)']
  BY <1>1 DEF Finished
<1>5. Open' = [Open EXCEPT ![d] = Running(d)']
  BY <1>1 DEF Open
<1> QED
  BY <1>2, <1>3, <1>4, <1>5

(* A step that leaves the records alone. *)
LEMMA NoView ==
  ASSUME web' = web
  PROVE  /\ Todo' = Todo /\ InHand' = InHand /\ Finished' = Finished
         /\ killed' = killed => Open' = Open
BY DEF Todo, InHand, Finished, Open, Meant, Handling, Over, Running

(* The values of the mapped variables. *)
LEMMA ViewOf ==
  ASSUME NEW d \in Deliveries
  PROVE  /\ Todo[d] = Meant(d) /\ InHand[d] = Handling(d)
         /\ Finished[d] = Over(d) /\ Open[d] = Running(d)
BY DEF Todo, InHand, Finished, Open

(* Attempts are deliveries. *)
LEMMA AttemptsAre == Delivery!Attempts = Deliveries
BY RedeliveryAssumption DEF Delivery!Attempts

(* At the start nothing was posted. *)
LEMMA InitDelivery == RedeliveryInit => Delivery!Init
<1> SUFFICES ASSUME RedeliveryInit PROVE Delivery!Init
  OBVIOUS
<1>1. \A d \in Deliveries : web[d] = Idle /\ Idle.pc = "idle"
  BY DEF RedeliveryInit, GateInit, Idle
<1>2. \A d \in Deliveries : Meant(d) = {} /\ Handling(d) = 0 /\ Over(d) = {} /\ ~Running(d)
  BY <1>1 DEF Meant, Handling, Over, Running
<1>3. /\ Todo = [d \in Deliveries |-> {}] /\ InHand = [d \in Deliveries |-> 0]
      /\ Finished = [d \in Deliveries |-> {}]
  BY <1>2 DEF Todo, InHand, Finished
<1>5. Open = [d \in Deliveries |-> FALSE]
  <2>1. \A d \in Deliveries : Running(d) = FALSE
    BY <1>2 DEF Running
  <2> QED
    BY <2>1, Zenon DEF Open
<1>4. replied = [s \in Delivery!Attempts \X (1..MaxEvents) |-> "none"]
  BY AttemptsAre DEF RedeliveryInit, GateInit, Slots
<1> QED
  BY <1>3, <1>4, <1>5, AttemptsAre DEF RedeliveryInit, Delivery!Init

(* LINE posts what is due: again only what was in vain, as it was. *)
LEMMA DueMapped ==
  ASSUME Places, RedeliveryInv, NEW d \in Deliveries, NEW p \in Payloads, Due(d, p)
  PROVE  Delivery!Due(d, ForBot[p])
<1>1. line[d] = "unsent" /\ Delivery!Before(d) = Previous(d)
  BY DEF Due, Previous, Delivery!Before
<1>2. ASSUME d[2] > 1
      PROVE  line[Previous(d)] \in {"failed", "gaveup"} /\ ForBot[p] = Todo[Previous(d)]
  <2>1. Previous(d) \in Deliveries
    <3>1. d[1] \in Batches /\ d[2] \in 1..MaxAttempts /\ MaxAttempts \in Nat
      BY RedeliveryAssumption
    <3>2. d[2] - 1 \in 1..MaxAttempts
      BY <1>2, <3>1
    <3> QED
      BY <3>1, <3>2, RedeliveryAssumption DEF Previous
  <2>2. line[Previous(d)] \in {"failed", "gaveup"} /\ p = web[Previous(d)].payload
    BY <1>2 DEF Due
  <2>3. web[Previous(d)].pc # "idle"
    BY <2>1, <2>2 DEF RedeliveryInv, Knows
  <2>4. Todo[Previous(d)] = ForBot[p]
    BY <2>1, <2>2, <2>3, ViewOf DEF Meant
  <2> QED
    BY <2>2, <2>4
<1> QED
  BY <1>1, <1>2 DEF Delivery!Due

(* A delivery nobody has seen is empty in the mapping. *)
LEMMA IdleView ==
  ASSUME Places, RedeliveryInv, NEW d \in Deliveries, web[d].pc = "idle"
  PROVE  /\ Meant(d) = {} /\ Handling(d) = 0 /\ Over(d) = {} /\ ~Running(d)
         /\ web[d].next = 1 /\ d \notin killed
<1>1. d \notin killed
  BY DEF RedeliveryInv, Knows, AtWork
<1>2. web[d].next = 1
  BY DEF Places, Place, Screening
<1> QED
  BY <1>1, <1>2 DEF Meant, Handling, Over, Running

(* A batch is refused: nothing of it is for the bot. *)
LEMMA RefusedDelivers ==
  ASSUME Places, RedeliveryInv, NEW d \in Deliveries, NEW p \in Payloads,
         PostRefused(d, p)
  PROVE  Delivery!Refuse(d)
<1>1. /\ Due(d, p) /\ RefusePayload(d, p) /\ line' = [line EXCEPT ![d] = "failed"]
      /\ UNCHANGED <<writeTimeout, stalled, killed, replied>>
  BY DEF PostRefused, RefusePayload
<1>2. /\ OthersStay(d) /\ web'[d].pc = "answered" /\ web'[d].payload = p
      /\ web[d].pc = "idle" /\ PayloadStatus(p) # 200
  <2>1. web[d].pc = "idle" /\ PayloadStatus(p) # 200
    BY <1>1 DEF RefusePayload
  <2> QED
    BY <1>1, <2>1, RefuseFields DEF Places
<1>3. Meant(d) = {} /\ Handling(d) = 0 /\ Over(d) = {} /\ Running(d) = FALSE
  BY <1>2, IdleView
<1>4. ForBot[p] = {}
  BY <1>2, ForBotFacts
<1>5. Meant(d)' = {} /\ Handling(d)' = 0 /\ Running(d)' = FALSE
  BY <1>2, <1>4 DEF Meant, Handling, Running
<1>6. Over(d)' = {}
  BY <1>5 DEF Over
<1>7. /\ Todo' = [Todo EXCEPT ![d] = Todo[d]] /\ InHand' = [InHand EXCEPT ![d] = InHand[d]]
      /\ Finished' = [Finished EXCEPT ![d] = Finished[d]]
      /\ Open' = [Open EXCEPT ![d] = Open[d]]
  <2>1. /\ Todo' = [Todo EXCEPT ![d] = Meant(d)']
        /\ InHand' = [InHand EXCEPT ![d] = Handling(d)']
        /\ Finished' = [Finished EXCEPT ![d] = Over(d)']
        /\ Open' = [Open EXCEPT ![d] = Running(d)']
    BY <1>1, <1>2, OneView
  <2>2. /\ Todo[d] = Meant(d) /\ InHand[d] = Handling(d)
        /\ Finished[d] = Over(d) /\ Open[d] = Running(d)
    BY ViewOf
  <2> QED
    BY <1>1, <1>2, <1>3, <1>5, <1>6, <2>1, <2>2, Zenon
<1>8. Todo' = Todo /\ InHand' = InHand /\ Finished' = Finished /\ Open' = Open
  BY <1>7 DEF Todo, InHand, Finished, Open
<1>9. Delivery!Due(d, {})
  BY <1>1, <1>4, DueMapped
<1> QED
  BY <1>1, <1>8, <1>9 DEF Delivery!Refuse

(* A batch is accepted: what is for the bot is to be done. *)
LEMMA AcceptedDelivers ==
  ASSUME Places, RedeliveryInv, NEW d \in Deliveries, NEW p \in Payloads,
         PostAccepted(d, p)
  PROVE  \E positions \in SUBSET (1..MaxEvents) : Delivery!Post(d, positions)
<1>1. /\ Due(d, p) /\ AcceptPayload(d, p) /\ line' = [line EXCEPT ![d] = "waiting"]
      /\ UNCHANGED <<writeTimeout, stalled, killed, replied>>
  BY DEF PostAccepted, AcceptPayload
<1>2. /\ OthersStay(d) /\ web'[d].pc = "loop" /\ web'[d].payload = p
      /\ web'[d].next = web[d].next /\ web[d].pc = "idle"
  <2>1. web[d].pc = "idle"
    BY <1>1 DEF AcceptPayload
  <2> QED
    BY <1>1, <2>1, AcceptFields DEF Places
<1>3. /\ Handling(d) = 0 /\ Over(d) = {} /\ web[d].next = 1 /\ d \notin killed
  BY <1>2, IdleView
<1>4. ForBot[p] \subseteq 1..MaxEvents /\ MaxEvents \in Nat
  BY ForBotFacts, GatekeeperAssumption
<1>5. Meant(d)' = ForBot[p] /\ Handling(d)' = 0 /\ Running(d)' = TRUE
  BY <1>1, <1>2, <1>3 DEF Meant, Handling, Running
<1>6. Over(d)' = {}
  <2>1. \A i \in ForBot[p] : ~(i < 1)
    BY <1>4
  <2> QED
    BY <1>2, <1>3, <1>5, <2>1 DEF Over
<1>7. /\ Todo' = [Todo EXCEPT ![d] = ForBot[p]]
      /\ InHand' = [InHand EXCEPT ![d] = InHand[d]]
      /\ Finished' = [Finished EXCEPT ![d] = Finished[d]]
      /\ Open' = [Open EXCEPT ![d] = TRUE]
  <2>1. /\ Todo' = [Todo EXCEPT ![d] = Meant(d)']
        /\ InHand' = [InHand EXCEPT ![d] = Handling(d)']
        /\ Finished' = [Finished EXCEPT ![d] = Over(d)']
        /\ Open' = [Open EXCEPT ![d] = Running(d)']
    BY <1>1, <1>2, OneView
  <2>2. /\ Todo[d] = Meant(d) /\ InHand[d] = Handling(d)
        /\ Finished[d] = Over(d) /\ Open[d] = Running(d)
    BY ViewOf
  <2> QED
    BY <1>1, <1>2, <1>3, <1>5, <1>6, <2>1, <2>2, Zenon
<1>8. InHand' = InHand /\ Finished' = Finished
  BY <1>7 DEF InHand, Finished
<1>9. Delivery!Due(d, ForBot[p])
  BY <1>1, DueMapped
<1>10. Delivery!Post(d, ForBot[p])
  BY <1>1, <1>7, <1>8, <1>9 DEF Delivery!Post
<1> QED
  BY <1>4, <1>10

(* An event is handed over: the next of those that are for the bot. *)
LEMMA DispatchDelivers ==
  ASSUME Places, NEW d \in Deliveries, Dispatch(d)
  PROVE  \E i \in 1..MaxEvents : Delivery!Take(d, i)
<1> DEFINE i == web[d].next
<1>1. /\ Running(d) /\ DispatchEvent(d)
      /\ UNCHANGED <<writeTimeout, line, stalled, killed, replied>>
  BY DEF Dispatch, DispatchEvent
<1>2. /\ OthersStay(d) /\ web'[d].pc = "task" /\ web'[d].payload = web[d].payload
      /\ web'[d].next = i
  BY <1>1, DispatchFields DEF Places
<1>3. /\ web[d].pc = "loop" /\ i <= Len(Events(d)) /\ Accepted(Events(d)[i])
      /\ i \in Nat /\ i >= 1
  BY <1>1, Fields DEF DispatchEvent, InLoop, Current, Events, Places, Place, Counting
<1>4. i \in Meant(d) /\ Meant(d) \subseteq 1..MaxEvents
  BY <1>3, MeantAtWork DEF AtWork
<1>5. Meant(d)' = Meant(d) /\ Handling(d)' = i /\ Handling(d) = 0
  BY <1>2, <1>3 DEF Meant, Handling
<1>6. Over(d)' = Over(d) /\ Running(d)' = TRUE /\ Running(d) = TRUE
  BY <1>1, <1>2, <1>5 DEF Over, Running
<1>7. /\ Todo' = [Todo EXCEPT ![d] = Todo[d]] /\ InHand' = [InHand EXCEPT ![d] = i]
      /\ Finished' = [Finished EXCEPT ![d] = Finished[d]]
      /\ Open' = [Open EXCEPT ![d] = Open[d]]
  <2>1. /\ Todo' = [Todo EXCEPT ![d] = Meant(d)']
        /\ InHand' = [InHand EXCEPT ![d] = Handling(d)']
        /\ Finished' = [Finished EXCEPT ![d] = Over(d)']
        /\ Open' = [Open EXCEPT ![d] = Running(d)']
    BY <1>1, <1>2, OneView
  <2>2. /\ Todo[d] = Meant(d) /\ InHand[d] = Handling(d)
        /\ Finished[d] = Over(d) /\ Open[d] = Running(d)
    BY ViewOf
  <2> QED
    BY <1>1, <1>2, <1>5, <1>6, <2>1, <2>2, Zenon
<1>8. Todo' = Todo /\ Finished' = Finished /\ Open' = Open
  BY <1>7 DEF Todo, Finished, Open
<1>9. /\ Open[d] /\ InHand[d] = 0 /\ i \in Todo[d]
      /\ Finished[d] = {j \in Todo[d] : j < i}
  BY <1>1, <1>4, <1>5, ViewOf DEF Over
<1>10. Delivery!Take(d, i)
  BY <1>1, <1>7, <1>8, <1>9 DEF Delivery!Take
<1> QED
  BY <1>4, <1>10

(* An event that is not for the bot is passed over: nobody notices. *)
LEMMA SkipDelivers ==
  ASSUME Places, NEW d \in Deliveries, Running(d), SkipEvent(d), UNCHANGED lineVars
  PROVE  UNCHANGED Delivery!vars
<1> DEFINE i == web[d].next
<1>1. UNCHANGED <<writeTimeout, line, stalled, killed, replied>>
  BY DEF SkipEvent, lineVars
<1>2. /\ OthersStay(d) /\ web'[d].pc = web[d].pc /\ web'[d].payload = web[d].payload
      /\ web'[d].next = i + 1
  BY SkipFields DEF Places
<1>3. web[d].pc = "loop" /\ ~Accepted(Events(d)[i]) /\ i \in Nat
  BY Fields DEF SkipEvent, InLoop, Current, Events, Places
<1>4. i \notin Meant(d) /\ \A j \in Meant(d) : j \in Nat
  <2>1. /\ Meant(d) = {j \in DOMAIN Events(d) : Accepted(Events(d)[j])}
        /\ Meant(d) \subseteq 1..MaxEvents /\ MaxEvents \in Nat
    BY <1>3, MeantAtWork, GatekeeperAssumption DEF AtWork
  <2> QED
    BY <1>3, <2>1
<1>5. Meant(d)' = Meant(d) /\ Handling(d)' = 0 /\ Handling(d) = 0
  BY <1>2, <1>3 DEF Meant, Handling
<1>6. Over(d)' = Over(d) /\ Running(d)' = Running(d)
  <2>1. \A j \in Meant(d) : j < i + 1 <=> j < i
    BY <1>3, <1>4
  <2>2. {j \in Meant(d) : j < i + 1} = {j \in Meant(d) : j < i}
    BY <2>1
  <2> QED
    BY <1>1, <1>2, <1>5, <2>2 DEF Over, Running
<1>7. /\ Todo' = [Todo EXCEPT ![d] = Todo[d]]
      /\ InHand' = [InHand EXCEPT ![d] = InHand[d]]
      /\ Finished' = [Finished EXCEPT ![d] = Finished[d]]
      /\ Open' = [Open EXCEPT ![d] = Open[d]]
  <2>1. /\ Todo' = [Todo EXCEPT ![d] = Meant(d)']
        /\ InHand' = [InHand EXCEPT ![d] = Handling(d)']
        /\ Finished' = [Finished EXCEPT ![d] = Over(d)']
        /\ Open' = [Open EXCEPT ![d] = Running(d)']
    BY <1>1, <1>2, OneView
  <2>2. /\ Todo[d] = Meant(d) /\ InHand[d] = Handling(d)
        /\ Finished[d] = Over(d) /\ Open[d] = Running(d)
    BY ViewOf
  <2> QED
    BY <1>1, <1>2, <1>5, <1>6, <2>1, <2>2, Zenon
<1>8. Todo' = Todo /\ InHand' = InHand /\ Finished' = Finished /\ Open' = Open
  BY <1>7 DEF Todo, InHand, Finished, Open
<1> QED
  BY <1>1, <1>8 DEF Delivery!vars

(* An event is over, and at most one thing was said about it. *)
LEMMA ReplyDelivers ==
  ASSUME Places, LoopInv, NEW d \in Deliveries, Running(d), UNCHANGED lineVars,
         ReplyAccepted(d) \/ ReplyAnswerLost(d) \/ ReplyFails(d)
  PROVE  \E words \in {"none", "result", "error"} : Delivery!Finish(d, words)
<1> DEFINE i == web[d].next
<1>1. /\ web[d].pc = "task" /\ pc[<<d, i>>] = "done"
      /\ UNCHANGED <<writeTimeout, line, stalled, killed>>
      /\ AuthorTold(d) \/ UNCHANGED replied
  BY DEF ReplyAccepted, ReplyAnswerLost, ReplyFails, TaskReturned, Slot, lineVars
<1>2. /\ OthersStay(d) /\ web'[d].pc = "loop"
      /\ web'[d].payload = web[d].payload /\ web'[d].next = i + 1
  <2>1. \E sent \in BOOLEAN : NextEvent(d, sent)
    BY DEF ReplyAccepted, ReplyAnswerLost, ReplyFails
  <2> QED
    BY <2>1, NextEventFields DEF Places
<1>3. /\ i \in 1..MaxEvents /\ i \in Nat /\ i # 0
      /\ <<d, i>> \in Slots /\ replied \in [Slots -> {"none", "result", "error"}]
  <2>1. i \in 1..MaxEvents /\ i \in Nat /\ i # 0
    BY <1>1, Fields, EventsShape DEF Places, Place, Counting, Busy
  <2> QED
    BY <2>1, SlotFacts DEF LoopInv
<1>4. replied[<<d, i>>] = "none" /\ Accepted(Events(d)[i]) /\ i <= Len(Events(d))
  <2>1. Begun(d, i) /\ Said(d, i)
    BY <1>3 DEF LoopInv
  <2> QED
    BY <1>1, <1>3, <2>1 DEF Begun, Said
<1>5. /\ i \in Meant(d) /\ \A j \in Meant(d) : j \in Nat
  <2>1. /\ Meant(d) = {j \in DOMAIN Events(d) : Accepted(Events(d)[j])}
        /\ DOMAIN Events(d) = 1..Len(Events(d)) /\ Len(Events(d)) \in Nat
        /\ Meant(d) \subseteq 1..MaxEvents /\ MaxEvents \in Nat
    BY <1>1, MeantAtWork, EventsShape, GatekeeperAssumption DEF AtWork, Places
  <2>2. i \in 1..Len(Events(d))
    BY <1>3, <1>4, <2>1
  <2> QED
    BY <1>4, <2>1, <2>2
<1>6. Meant(d)' = Meant(d) /\ Handling(d)' = 0 /\ Handling(d) = i
  BY <1>1, <1>2 DEF Meant, Handling
<1>7. Over(d)' = Over(d) \cup {i} /\ Running(d)' = TRUE /\ Running(d) = TRUE
  <2>1. \A j \in Meant(d) : j < i + 1 <=> (j < i \/ j = i)
    BY <1>3, <1>5
  <2>2. {j \in Meant(d) : j < i + 1} = {j \in Meant(d) : j < i} \cup {i}
    BY <1>5, <2>1
  <2> QED
    BY <1>1, <1>2, <1>6, <2>2 DEF Over, Running
<1>8. /\ Todo' = [Todo EXCEPT ![d] = Todo[d]] /\ InHand' = [InHand EXCEPT ![d] = 0]
      /\ Finished' = [Finished EXCEPT ![d] = Finished[d] \cup {i}]
      /\ Open' = [Open EXCEPT ![d] = Open[d]]
  <2>1. /\ Todo' = [Todo EXCEPT ![d] = Meant(d)']
        /\ InHand' = [InHand EXCEPT ![d] = Handling(d)']
        /\ Finished' = [Finished EXCEPT ![d] = Over(d)']
        /\ Open' = [Open EXCEPT ![d] = Running(d)']
    BY <1>1, <1>2, OneView
  <2>2. /\ Todo[d] = Meant(d) /\ InHand[d] = Handling(d)
        /\ Finished[d] = Over(d) /\ Open[d] = Running(d)
    BY ViewOf
  <2> QED
    BY <1>1, <1>2, <1>6, <1>7, <2>1, <2>2, Zenon
<1>9. Todo' = Todo /\ Open' = Open
  BY <1>8 DEF Todo, Open
<1>10. PICK words \in {"none", "result", "error"} :
         replied' = [replied EXCEPT ![<<d, i>>] = words]
  <2>1. CASE AuthorTold(d)
    BY <2>1 DEF AuthorTold, Slot
  <2>2. CASE UNCHANGED replied
    <3>1. replied' = [replied EXCEPT ![<<d, i>>] = "none"]
      BY <1>3, <1>4, <2>2
    <3> QED
      BY <3>1
  <2> QED
    BY <1>1, <2>1, <2>2
<1>11. Open[d] /\ InHand[d] = i
  BY <1>6, ViewOf
<1>12. Delivery!Finish(d, words)
  BY <1>1, <1>3, <1>4, <1>8, <1>9, <1>10, <1>11 DEF Delivery!Finish
<1> QED
  BY <1>12

(* DeliveryPromise counts as Redelivery does. *)
LEMMA SameCardinality == \A S : Delivery!Cardinality(S) = Cardinality(S)
BY DEF Delivery!Cardinality, Cardinality

(***************************************************************************)
(* The answer is written after the last event; it can be too late only     *)
(* when the limits of the events add up to the write timeout, or when an   *)
(* event was held beyond its own, whatever the clocks were that showed it. *)
(***************************************************************************)
LEMMA AnswerDelivers ==
  ASSUME GateInv, Tallies, RedeliveryInv, NEW d \in Deliveries,
         AnswerArrives(d) \/ AnswerTooLate(d)
  PROVE  Delivery!Acknowledge(d) \/ Delivery!LoseAnswer(d)
<1>1. /\ Running(d) /\ Acknowledge(d) /\ UNCHANGED <<writeTimeout, stalled, killed, replied>>
      /\ \/ Heard(d, "acked")
         \/ Heard(d, "failed") /\ writeTimeout # 0 /\ age[d] >= writeTimeout
  BY DEF AnswerArrives, AnswerTooLate, Acknowledge
<1>2. /\ OthersStay(d) /\ web'[d].pc = "answered" /\ web'[d].payload = web[d].payload
      /\ web'[d].next = web[d].next
  BY <1>1, AcknowledgeFields DEF GateInv, Places
<1>3. /\ Places /\ web[d].pc = "loop" /\ web[d].next > Len(Events(d))
      /\ AtWork(d) /\ Busy(d) = 0 /\ web[d].status = 0
  <2>1. Places /\ web[d].pc = "loop" /\ web[d].next > Len(Events(d))
    BY <1>1 DEF GateInv, Acknowledge, Events
  <2>2. web[d].status = 0
    BY <2>1, Fields DEF Places, Place, Screening
  <2> QED
    BY <2>1, <2>2 DEF AtWork, Busy
<1>4. /\ web[d].next \in Nat /\ Len(Events(d)) \in Nat
      /\ web[d].next + Busy(d) <= Len(Events(d)) + 1
  BY <1>3, Fields, EventsShape DEF Places, Place, Counting
<1>5. web[d].next = Len(Events(d)) + 1
  BY <1>3, <1>4
<1>6. Over(d) = Meant(d)
  <2>1. Meant(d) \subseteq 1..Len(Events(d))
    BY <1>3, MeantAtWork
  <2>2. \A i \in Meant(d) : i < web[d].next
    BY <1>4, <1>5, <2>1
  <2> QED
    BY <2>2 DEF Over
<1>7. /\ Meant(d)' = Meant(d) /\ Handling(d)' = 0 /\ Handling(d) = 0
      /\ Running(d)' = FALSE
  BY <1>2, <1>3 DEF Meant, Handling, Running
<1>8. Over(d)' = Over(d)
  BY <1>2, <1>7 DEF Over
<1>9. /\ Todo' = [Todo EXCEPT ![d] = Todo[d]] /\ InHand' = [InHand EXCEPT ![d] = InHand[d]]
      /\ Finished' = [Finished EXCEPT ![d] = Finished[d]]
      /\ Open' = [Open EXCEPT ![d] = FALSE]
  <2>1. /\ Todo' = [Todo EXCEPT ![d] = Meant(d)']
        /\ InHand' = [InHand EXCEPT ![d] = Handling(d)']
        /\ Finished' = [Finished EXCEPT ![d] = Over(d)']
        /\ Open' = [Open EXCEPT ![d] = Running(d)']
    BY <1>1, <1>2, OneView
  <2>2. /\ Todo[d] = Meant(d) /\ InHand[d] = Handling(d)
        /\ Finished[d] = Over(d) /\ Open[d] = Running(d)
    BY ViewOf
  <2> QED
    BY <1>1, <1>2, <1>7, <1>8, <2>1, <2>2, Zenon
<1>10. Todo' = Todo /\ InHand' = InHand /\ Finished' = Finished
  BY <1>9 DEF Todo, InHand, Finished
<1>11. Open[d] /\ InHand[d] = 0 /\ Finished[d] = Todo[d]
  BY <1>1, <1>6, <1>7, ViewOf
<1>12. CASE Heard(d, "acked")
  BY <1>1, <1>9, <1>10, <1>11, <1>12 DEF Heard, Delivery!Acknowledge, Delivery!Close
<1>13. CASE Heard(d, "failed") /\ writeTimeout # 0 /\ age[d] >= writeTimeout
  <2>1. Cardinality(Todo[d]) = web[d].processed
    BY <1>3, <1>5, WorkedOff, MeantAtWork, ViewOf
  <2>2. /\ age[d] \in Nat /\ Left(d) \in Nat /\ web[d].processed * Limit \in Nat
        /\ d \notin stalled => age[d] + Left(d) <= web[d].processed * Limit
        /\ writeTimeout \in Nat
    BY <1>3, ClockFields DEF Left, RedeliveryInv, Clock
  <2>3. d \notin stalled => web[d].processed * Limit >= writeTimeout
    BY <1>13, <2>2
  <2>4. d \notin stalled => Cardinality(Todo[d]) * Limit >= writeTimeout
    BY <2>1, <2>3, Zenon
  <2>5. Delivery!TooLate(d)
    BY <1>13, <2>4, SameCardinality DEF Delivery!TooLate
  <2>6. Delivery!Close(d, "failed")
    BY <1>1, <1>9, <1>10, <1>11, <1>13 DEF Heard, Delivery!Close
  <2> QED
    BY <2>5, <2>6 DEF Delivery!LoseAnswer
<1> QED
  BY <1>1, <1>12, <1>13

(* LINE hangs up. *)
LEMMA GiveUpDelivers ==
  ASSUME NEW d \in Deliveries, LineGivesUp(d)
  PROVE  Delivery!GiveUp(d)
<1>1. /\ line[d] = "waiting" /\ line' = [line EXCEPT ![d] = "gaveup"]
      /\ UNCHANGED <<web, replied, writeTimeout, stalled, killed>>
  BY DEF LineGivesUp, allVars, gateVars
<1> QED
  BY <1>1, NoView DEF Delivery!GiveUp

(* The process ends: every handler with it. *)
LEMMA CrashDelivers ==
  ASSUME Crash
  PROVE  Delivery!Stop
<1>1. /\ \E d \in Deliveries : Running(d)
      /\ killed' = killed \cup {d \in Deliveries : Running(d)}
      /\ line' = [d \in Deliveries |->
                    IF Running(d) /\ line[d] = "waiting" THEN "failed" ELSE line[d]]
      /\ UNCHANGED <<web, replied, writeTimeout, stalled>>
  BY DEF Crash, allVars, gateVars
<1>2. \A d \in Deliveries : Running(d)' = FALSE
  BY <1>1 DEF Running
<1>3. Open' = [d \in Deliveries |-> FALSE]
  BY <1>2, Zenon DEF Open
<1>4. \A d \in Deliveries : Open[d] = Running(d)
  BY ViewOf
<1>5. line' = [d \in Deliveries |->
                 IF Open[d] /\ line[d] = "waiting" THEN "failed" ELSE line[d]]
  BY <1>1, <1>4
<1> QED
  BY <1>1, <1>3, <1>4, <1>5, NoView, AttemptsAre DEF Delivery!Stop

(* Time passes: nobody notices but of an event that is held. *)
LEMMA TickDelivers ==
  ASSUME Places, Tick
  PROVE  Delivery!Hold({d \in Deliveries : Running(d) /\ spent[d] = Limit})
<1> DEFINE held == {d \in Deliveries : Running(d) /\ spent[d] = Limit}
<1>1. /\ stalled' = stalled \cup held
      /\ UNCHANGED <<web, replied, writeTimeout, line, killed>>
  BY DEF Tick, TimePasses, allVars, gateVars
<1>2. ASSUME NEW d \in held PROVE Open[d] /\ InHand[d] # 0
  <2>1. d \in Deliveries /\ Running(d) /\ web[d].pc = "task"
    BY DEF Tick, TimePasses, Waiting, InTask
  <2>2. web[d].next # 0
    <3>1. web[d].next \in Nat /\ web[d].next >= 1
      BY <2>1, Fields DEF Places, Place, Counting
    <3> QED
      BY <3>1
  <2> QED
    BY <2>1, <2>2, ViewOf DEF Handling
<1> HIDE DEF held
<1> QED
  BY <1>1, <1>2, NoView DEF Delivery!Hold, held

(* Every step is a step of the promise or none. *)
LEMMA StepDelivery ==
  GateInv /\ Tallies /\ RedeliveryInv /\ [RedeliveryNext]_redeliveryVars
    => [Delivery!Next]_(Delivery!vars)
<1> SUFFICES ASSUME GateInv, Tallies, RedeliveryInv, [RedeliveryNext]_redeliveryVars
             PROVE  Delivery!Next \/ UNCHANGED Delivery!vars
  OBVIOUS
<1>1. Places /\ LoopInv
  BY DEF GateInv
<1>2. ASSUME NEW d \in Deliveries, NEW p \in Payloads, PostRefused(d, p)
      PROVE  Delivery!Next
  BY <1>1, <1>2, RefusedDelivers, AttemptsAre DEF Delivery!Next
<1>3. ASSUME NEW d \in Deliveries, NEW p \in Payloads, PostAccepted(d, p)
      PROVE  Delivery!Next
  BY <1>1, <1>3, AcceptedDelivers, AttemptsAre DEF Delivery!Next
<1>4. ASSUME NEW d \in Deliveries, LineGivesUp(d) PROVE Delivery!Next
  BY <1>4, GiveUpDelivers, AttemptsAre DEF Delivery!Next
<1>5. ASSUME NEW d \in Deliveries, Dispatch(d) PROVE Delivery!Next
  BY <1>1, <1>5, DispatchDelivers, AttemptsAre DEF Delivery!Next
<1>6. ASSUME NEW d \in Deliveries, Proceed(d)
      PROVE  Delivery!Next \/ UNCHANGED Delivery!vars
  <2>1. Running(d) /\ UNCHANGED lineVars
    BY <1>6 DEF Proceed
  <2>2. CASE SkipEvent(d)
    BY <1>1, <2>1, <2>2, SkipDelivers
  <2>3. CASE ReplyAccepted(d) \/ ReplyAnswerLost(d) \/ ReplyFails(d)
    <3>1. \E words \in {"none", "result", "error"} : Delivery!Finish(d, words)
      BY <1>1, <2>1, <2>3, ReplyDelivers
    <3> QED
      BY <3>1, AttemptsAre DEF Delivery!Next
  <2> QED
    BY <1>6, <2>2, <2>3 DEF Proceed
<1>7. ASSUME NEW d \in Deliveries, AnswerArrives(d) \/ AnswerTooLate(d)
      PROVE  Delivery!Next
  <2>1. Delivery!Acknowledge(d) \/ Delivery!LoseAnswer(d)
    BY <1>7, AnswerDelivers
  <2> QED
    BY <2>1, AttemptsAre DEF Delivery!Next
<1>8. CASE Crash
  BY <1>8, CrashDelivers DEF Delivery!Next
<1>9. ASSUME UNCHANGED <<web, replied, writeTimeout, line, stalled, killed>>
      PROVE  UNCHANGED Delivery!vars
  BY <1>9, NoView DEF Delivery!vars
<1>10. ASSUME NEW d \in Deliveries, UseCaseStep(d) \/ TimerFires(d)
       PROVE  UNCHANGED Delivery!vars
  BY <1>9, <1>10 DEF UseCaseStep, TimerFires, gateVars, lineVars
<1>11. ASSUME NEW s \in Slots, GoogleStep(s) PROVE UNCHANGED Delivery!vars
  BY <1>9, <1>11 DEF GoogleStep, gateVars, lineVars
<1>12. CASE Tick
  <2>1. \E attempts \in SUBSET Deliveries : Delivery!Hold(attempts)
    BY <1>1, <1>12, TickDelivers
  <2> QED
    BY <2>1, AttemptsAre DEF Delivery!Next
<1>13. CASE RedeliveryQuiescent \/ UNCHANGED redeliveryVars
  BY <1>9, <1>13 DEF RedeliveryQuiescent, redeliveryVars, allVars, gateVars, lineVars
<1> QED
  BY <1>2, <1>3, <1>4, <1>5, <1>6, <1>7, <1>8, <1>10, <1>11, <1>12, <1>13
  DEF RedeliveryNext, HandlerStep

(***************************************************************************)
(* The webhook keeps the promise: in order, each event once per attempt    *)
(* and said at most one thing about, acknowledged after the last; an       *)
(* attempt fails only refused, stopped, with too many events, or with one  *)
(* that a token refresh held.  No clock is left in the promise: what is    *)
(* known of age and spent makes the last clause true.                      *)
(***************************************************************************)
THEOREM ImplementsDelivery == RedeliverySpec => KeepsDelivering
<1> QED
  BY InitDelivery, StepDelivery, AllInvariants, PTL
  DEF RedeliverySpec, KeepsDelivering, Delivery!Spec

-----------------------------------------------------------------------------
(* The promise to the authors, end to end. *)

(***************************************************************************)
(* CalendarPromise, which was proved of the task use case alone, holds for *)
(* everybody who writes through LINE or REST, as long as every listing     *)
(* Google is asked for fits on one page ...                                *)
(***************************************************************************)
THEOREM PromiseThroughHandlers ==
  GateSpec /\ []ListingsFit => KeepsPromise /\ ListsAllOverlapping
<1> QED
  BY Implements, CompleteListings, GateImplementsTask, PTL

(***************************************************************************)
(* ... and across redeliveries, slow answers and stopped processes: each   *)
(* attempt on an event acts at most once, as asked, and is told truly.     *)
(***************************************************************************)
THEOREM PromiseAcrossStops ==
  RedeliverySpec /\ []ListingsFit => KeepsPromise /\ ListsAllOverlapping
<1> QED
  BY PromiseThroughHandlers, RedeliveryImplementsGate, PTL

=============================================================================
