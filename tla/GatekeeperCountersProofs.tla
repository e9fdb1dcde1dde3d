----------------------- MODULE GatekeeperCountersProofs -----------------------
(***************************************************************************)
(* The counters of a delivery are true.  The acknowledgement of a webhook  *)
(* and its log line are made of them, so each must agree with what was     *)
(* accepted of the list and with what the authors of its events were told. *)
(***************************************************************************)
EXTENDS GatekeeperProofs, FiniteSetTheorems

(* The accepted ones, and those told a result, of the first n events. *)
AcceptedTo(events, n) == {i \in 1..n : Accepted(events[i])}
ResultsTo(said, d, n) == {i \in 1..n : said[<<d, i>>] = "result"}

(* The last event that was started or passed over. *)
Last(d) == web[d].next - 1 + Busy(d)

Tally(d) ==
  web[d].status \notin {400, 401} =>
    /\ web[d].processed = Cardinality(AcceptedTo(Events(d), Last(d)))
    /\ web[d].success <= Cardinality(ResultsTo(replied, d, Last(d)))

Tallies == \A d \in Deliveries : Tally(d)

USE DEF Busy, Events, Counting

-----------------------------------------------------------------------------
(* Counting the accepted events, one event further. *)
LEMMA AcceptedCount ==
  ASSUME NEW events, NEW n \in Nat
  PROVE  /\ Cardinality(AcceptedTo(events, 0)) = 0
         /\ Cardinality(AcceptedTo(events, n)) \in Nat
         /\ Cardinality(AcceptedTo(events, n + 1)) =
              Cardinality(AcceptedTo(events, n)) + (IF Accepted(events[n + 1]) THEN 1 ELSE 0)
<1>1. AcceptedTo(events, 0) = {}
  BY DEF AcceptedTo
<1>2. IsFiniteSet(1..n) /\ AcceptedTo(events, n) \in SUBSET (1..n)
  BY FS_Interval DEF AcceptedTo
<1>3. IsFiniteSet(AcceptedTo(events, n)) /\ Cardinality(AcceptedTo(events, n)) \in Nat
  BY <1>2, FS_Subset, FS_CardinalityType
<1>4. n + 1 \notin AcceptedTo(events, n)
  BY <1>2
<1>5. 1..n + 1 = (1..n) \cup {n + 1}
  OBVIOUS
<1>6. AcceptedTo(events, n + 1) = IF Accepted(events[n + 1])
                                  THEN AcceptedTo(events, n) \cup {n + 1}
                                  ELSE AcceptedTo(events, n)
  BY <1>5 DEF AcceptedTo
<1>7. Cardinality(AcceptedTo(events, n) \cup {n + 1})
        = Cardinality(AcceptedTo(events, n)) + 1
  BY <1>3, <1>4, FS_AddElement
<1> QED
  BY <1>1, <1>3, <1>6, <1>7, FS_EmptySet

(* What was told is never untold: the count only grows. *)
LEMMA ToldCount ==
  ASSUME NEW f, NEW g, NEW d, NEW n \in Nat, NEW m \in Nat, n <= m,
         \A i \in 1..n : f[<<d, i>>] = "result" => g[<<d, i>>] = "result"
  PROVE  /\ Cardinality(ResultsTo(f, d, n)) \in Nat
         /\ Cardinality(ResultsTo(g, d, m)) \in Nat
         /\ Cardinality(ResultsTo(f, d, n)) <= Cardinality(ResultsTo(g, d, m))
         /\ \A k \in 1..n :
              f[<<d, k>>] # "result" /\ g[<<d, k>>] = "result" =>
                Cardinality(ResultsTo(f, d, n)) + 1 <= Cardinality(ResultsTo(g, d, m))
<1> DEFINE F == ResultsTo(f, d, n)
           G == ResultsTo(g, d, m)
<1>1. F \in SUBSET G /\ G \in SUBSET (1..m)
  BY DEF ResultsTo
<1>2. IsFiniteSet(1..m)
  BY FS_Interval
<1>3. IsFiniteSet(G) /\ Cardinality(G) \in Nat
  BY <1>1, <1>2, FS_Subset, FS_CardinalityType
<1>4. IsFiniteSet(F) /\ Cardinality(F) \in Nat /\ Cardinality(F) <= Cardinality(G)
  BY <1>1, <1>3, FS_Subset, FS_CardinalityType
<1>5. ASSUME NEW k \in 1..n, f[<<d, k>>] # "result", g[<<d, k>>] = "result"
      PROVE  Cardinality(F) + 1 <= Cardinality(G)
  <2>1. k \notin F /\ F \cup {k} \in SUBSET G
    BY <1>1, <1>5 DEF ResultsTo
  <2> HIDE DEF F, G
  <2>2. Cardinality(F \cup {k}) <= Cardinality(G)
    BY <1>3, <2>1, FS_Subset
  <2>3. Cardinality(F \cup {k}) = Cardinality(F) + 1
    BY <1>4, <2>1, FS_AddElement
  <2> QED
    BY <2>2, <2>3
<1> QED
  BY <1>3, <1>4, <1>5

-----------------------------------------------------------------------------
(* Nothing was counted at the start. *)
LEMMA InitTallies == GateInit => Tallies
<1> SUFFICES ASSUME GateInit, NEW d \in Deliveries PROVE Tally(d)
  BY DEF Tallies
<1>1. web[d] = Idle
  BY DEF GateInit
<1>2. /\ Last(d) = 0 /\ web[d].processed = 0 /\ web[d].success = 0
  BY <1>1 DEF Idle, Last
<1>3. Cardinality(AcceptedTo(Events(d), 0)) = 0
  BY AcceptedCount
<1>4. Cardinality(ResultsTo(replied, d, 0)) \in Nat
  BY ToldCount
<1> HIDE DEF Events
<1> QED
  BY <1>2, <1>3, <1>4 DEF Tally

(* A delivery whose record a step leaves alone, and nothing of which is untold. *)
LEMMA TallyStays ==
  ASSUME web \in [Deliveries -> WebRecord], NEW d \in Deliveries, Counting(d), Tally(d),
         web'[d] = web[d],
         \A i \in 1..MaxEvents : replied'[<<d, i>>] = replied[<<d, i>>]
  PROVE  Tally(d)'
<1>1. Last(d)' = Last(d) /\ Last(d) \in Nat /\ Last(d) <= MaxEvents
  <2>1. Last(d)' = Last(d)
    BY DEF Last
  <2>2. /\ web[d].next \in Nat /\ Busy(d) \in {0, 1} /\ web[d].next >= 1
        /\ web[d].next + Busy(d) <= Len(Events(d)) + 1
    BY Fields
  <2>3. Len(Events(d)) \in Nat /\ Len(Events(d)) <= MaxEvents /\ MaxEvents \in Nat
    BY EventsShape, GatekeeperAssumption
  <2> HIDE DEF Busy, Events, Counting
  <2> QED
    BY <2>1, <2>2, <2>3 DEF Last
<1>2. Cardinality(ResultsTo(replied, d, Last(d))) <= Cardinality(ResultsTo(replied', d, Last(d)))
  <2>1. \A i \in 1..Last(d) :
          replied[<<d, i>>] = "result" => replied'[<<d, i>>] = "result"
    BY <1>1, GatekeeperAssumption
  <2> DEFINE n == Last(d)
  <2>2. n \in Nat /\ n <= n
    BY <1>1
  <2> HIDE DEF n
  <2> QED
    BY <2>1, <2>2, ToldCount DEF n
<1>3. /\ Cardinality(ResultsTo(replied, d, Last(d))) \in Nat
      /\ Cardinality(ResultsTo(replied', d, Last(d))) \in Nat
  <2>1. \A f, n : n \in Nat => Cardinality(ResultsTo(f, d, n)) \in Nat
    BY ToldCount
  <2> QED
    BY <1>1, <2>1, Zenon
<1>4. web[d].success \in Nat
  BY Fields
<1> QED
  BY <1>1, <1>2, <1>3, <1>4 DEF Tally

(* A delivery is refused, and its counters say nothing, or accepted.       *)
LEMMA PayloadTally ==
  ASSUME GateInv, NEW d \in Deliveries, NEW p \in Payloads,
         RefusePayload(d, p) \/ AcceptPayload(d, p)
  PROVE  Tally(d)'
<1>1. CASE RefusePayload(d, p)
  <2>1. web'[d].status = PayloadStatus(p)
    BY <1>1, RefuseFields DEF GateInv, Places
  <2>2. PayloadStatus(p) \in {400, 401}
    <3>1. PayloadStatus(p) # 200
      BY <1>1 DEF RefusePayload
    <3> QED
      BY <3>1 DEF PayloadStatus
  <2>3. web'[d].status \in {400, 401}
    BY <2>1, <2>2
  <2> QED
    BY <2>3, Zenon DEF Tally
<1>2. CASE AcceptPayload(d, p)
  <2>1. /\ web[d].next = 1 /\ web[d].pc = "idle" /\ Counting(d)
        /\ web[d].success \in Nat /\ web[d].error \in Nat
    BY <1>2, Fields DEF AcceptPayload, GateInv, Places, Place, Screening
  <2>2. web[d].processed = 0 /\ web[d].success = 0
    BY <2>1
  <2>3. /\ web'[d].next = 1 /\ web'[d].pc = "loop"
        /\ web'[d].processed = 0 /\ web'[d].success = 0
    BY <1>2, <2>1, <2>2, AcceptFields DEF GateInv, Places
  <2>4. Last(d)' = 0
    BY <2>3 DEF Last
  <2>5. Cardinality(AcceptedTo(Events(d)', 0)) = 0
    BY AcceptedCount
  <2>6. Cardinality(ResultsTo(replied', d, 0)) = 0
    BY FS_EmptySet DEF ResultsTo
  <2> HIDE DEF Events
  <2> QED
    BY <2>3, <2>4, <2>5, <2>6 DEF Tally
<1> QED
  BY <1>1, <1>2

(* The next event is passed over, or handed to the task use case. *)
LEMMA NextTally ==
  ASSUME GateInv, NEW d \in Deliveries, Tally(d), SkipEvent(d) \/ DispatchEvent(d)
  PROVE  Tally(d)'
<1> DEFINE n == web[d].next - 1
           e == Events(d)
<1>1. /\ web[d].pc = "loop" /\ web[d].status = 0 /\ web[d].next \in Nat
      /\ web[d].next >= 1 /\ web[d].processed \in Nat /\ web[d].success \in Nat
      /\ replied' = replied
  BY Fields DEF SkipEvent, DispatchEvent, InLoop, GateInv, Places, Place, Screening
<1>2. Last(d) = n /\ n \in Nat /\ n + 1 = web[d].next
  BY <1>1 DEF Last
<1>3. /\ Last(d)' = n + 1 /\ Events(d)' = e /\ web'[d].status = 0
      /\ web'[d].success = web[d].success
      /\ web'[d].processed =
           web[d].processed + (IF Accepted(e[web[d].next]) THEN 1 ELSE 0)
  <2>1. CASE SkipEvent(d)
    <3>1. ~Accepted(e[web[d].next])
      BY <2>1 DEF SkipEvent, Current
    <3>2. /\ web'[d].pc = web[d].pc /\ web'[d].payload = web[d].payload
          /\ web'[d].status = web[d].status /\ web'[d].next = web[d].next + 1
          /\ web'[d].processed = web[d].processed
          /\ web'[d].success = web[d].success
      BY <2>1, SkipFields DEF GateInv, Places
    <3> QED
      BY <1>1, <3>1, <3>2 DEF Last
  <2>2. CASE DispatchEvent(d)
    <3>1. Accepted(e[web[d].next])
      BY <2>2 DEF DispatchEvent, Current
    <3>2. /\ web'[d].pc = "task" /\ web'[d].payload = web[d].payload
          /\ web'[d].status = web[d].status /\ web'[d].next = web[d].next
          /\ web'[d].processed = web[d].processed + 1
          /\ web'[d].success = web[d].success
      BY <2>2, DispatchFields DEF GateInv, Places
    <3> QED
      BY <1>1, <3>1, <3>2 DEF Last
  <2> QED
    BY <2>1, <2>2
<1>4. /\ web[d].processed = Cardinality(AcceptedTo(e, n))
      /\ web[d].success <= Cardinality(ResultsTo(replied, d, n))
  BY <1>1, <1>2 DEF Tally
<1> HIDE DEF n, e
<1>5. Cardinality(AcceptedTo(e, n + 1)) =
        Cardinality(AcceptedTo(e, n)) + (IF Accepted(e[n + 1]) THEN 1 ELSE 0)
  BY <1>2, AcceptedCount
<1>6. /\ Cardinality(ResultsTo(replied, d, n)) <= Cardinality(ResultsTo(replied, d, n + 1))
      /\ Cardinality(ResultsTo(replied, d, n)) \in Nat
      /\ Cardinality(ResultsTo(replied, d, n + 1)) \in Nat
  <2>1. n + 1 \in Nat /\ n <= n + 1
    BY <1>2
  <2>2. \A i \in 1..n : replied[<<d, i>>] = "result" => replied[<<d, i>>] = "result"
    OBVIOUS
  <2> QED
    BY <1>2, <2>1, <2>2, ToldCount
<1>7. web'[d].processed = Cardinality(AcceptedTo(e, n + 1))
  BY <1>2, <1>3, <1>4, <1>5
<1>8. web'[d].success <= Cardinality(ResultsTo(replied, d, n + 1))
  BY <1>1, <1>3, <1>4, <1>6
<1> HIDE DEF Events
<1> QED
  BY <1>1, <1>3, <1>7, <1>8 DEF Tally

(* An event is over: a success is counted only where a result was told. *)
LEMMA OverTally ==
  ASSUME GateInv, NEW d \in Deliveries, Tally(d),
         ReplyAccepted(d) \/ ReplyAnswerLost(d) \/ ReplyFails(d)
  PROVE  Tally(d)'
<1> DEFINE n == web[d].next
           e == Events(d)
<1>1. /\ web[d].pc = "task" /\ web[d].status = 0 /\ n \in Nat /\ n \in 1..MaxEvents
      /\ web[d].success \in Nat
  <2>1. web[d].pc = "task"
    BY DEF ReplyAccepted, ReplyAnswerLost, ReplyFails, TaskReturned
  <2>2. Counting(d) /\ Screening(d)
    BY DEF GateInv, Places, Place
  <2>3. n \in Nat /\ web[d].success \in Nat
    BY Fields DEF GateInv, Places
  <2>4. Len(e) \in Nat /\ Len(e) <= MaxEvents /\ MaxEvents \in Nat
    BY EventsShape DEF GateInv, Places
  <2> HIDE DEF n, e
  <2>5. n >= 1 /\ n + 1 <= Len(e) + 1
    BY <2>1, <2>2 DEF n, e
  <2>6. n \in 1..MaxEvents
    BY <2>3, <2>4, <2>5
  <2> QED
    BY <2>1, <2>2, <2>3, <2>6 DEF Screening
<1>2. /\ replied[<<d, n>>] = "none" /\ <<d, n>> \in Slots
      /\ replied \in [Slots -> {"none", "result", "error"}]
      /\ \A i \in 1..n : <<d, i>> \in Slots
  BY <1>1, SlotFacts, GatekeeperAssumption DEF GateInv, LoopInv, Said
<1>3. \E sent \in BOOLEAN :
        /\ NextEvent(d, sent)
        /\ sent => AuthorTold(d)
        /\ AuthorTold(d) \/ UNCHANGED replied
  BY DEF ReplyAccepted, ReplyAnswerLost, ReplyFails
<1>4. PICK sent \in BOOLEAN :
        /\ NextEvent(d, sent)
        /\ sent => AuthorTold(d)
        /\ AuthorTold(d) \/ UNCHANGED replied
  BY <1>3
<1>5. /\ Last(d) = n /\ Last(d)' = n /\ Events(d)' = e /\ web'[d].status = 0
      /\ web'[d].processed = web[d].processed
      /\ web'[d].success = web[d].success + (IF Succeeded(d) /\ sent THEN 1 ELSE 0)
  <2>1. /\ web'[d].pc = "loop" /\ web'[d].next = n + 1
        /\ web'[d].payload = web[d].payload /\ web'[d].status = web[d].status
        /\ web'[d].processed = web[d].processed
        /\ web'[d].success = web[d].success + (IF Succeeded(d) /\ sent THEN 1 ELSE 0)
    BY <1>4, NextEventFields DEF GateInv, Places
  <2> QED
    BY <1>1, <2>1 DEF Last
<1>6. /\ web[d].processed = Cardinality(AcceptedTo(e, n))
      /\ web[d].success <= Cardinality(ResultsTo(replied, d, n))
  BY <1>1, <1>5 DEF Tally
<1>7. /\ \A i \in 1..n : replied[<<d, i>>] = "result" => replied'[<<d, i>>] = "result"
      /\ Succeeded(d) /\ sent => replied'[<<d, n>>] = "result"
  BY <1>1, <1>2, <1>4 DEF AuthorTold, Slot
<1> HIDE DEF n, e
<1>8. /\ Cardinality(ResultsTo(replied, d, n)) \in Nat
      /\ Cardinality(ResultsTo(replied', d, n)) \in Nat
      /\ Cardinality(ResultsTo(replied, d, n)) <= Cardinality(ResultsTo(replied', d, n))
      /\ Succeeded(d) /\ sent =>
           Cardinality(ResultsTo(replied, d, n)) + 1 <= Cardinality(ResultsTo(replied', d, n))
  <2>1. n <= n /\ n \in 1..n
    BY <1>1
  <2> QED
    BY <1>1, <1>2, <1>7, <2>1, ToldCount
<1>9. web'[d].success <= Cardinality(ResultsTo(replied', d, n))
  BY <1>1, <1>5, <1>6, <1>8
<1> HIDE DEF Events
<1> QED
  BY <1>5, <1>6, <1>9 DEF Tally

(* The acknowledgement sends the counters as they are. *)
LEMMA AcknowledgeTally ==
  ASSUME GateInv, NEW d \in Deliveries, Tally(d), Acknowledge(d)
  PROVE  Tally(d)'
<1>1. web[d].pc = "loop" /\ replied' = replied /\ web[d].status = 0
  BY DEF Acknowledge, GateInv, Places, Place, Screening
<1>2. /\ web'[d].pc = "answered" /\ web'[d].payload = web[d].payload
      /\ web'[d].next = web[d].next /\ web'[d].processed = web[d].processed
      /\ web'[d].success = web[d].success
  BY AcknowledgeFields DEF GateInv, Places
<1>3. Last(d)' = Last(d) /\ Events(d)' = Events(d)
  BY <1>1, <1>2 DEF Last
<1> HIDE DEF Events
<1> QED
  BY <1>1, <1>2, <1>3 DEF Tally

-----------------------------------------------------------------------------
(* Every step keeps the tally of every delivery. *)
LEMMA StepTallies == GateInv /\ Tallies /\ [GateNext]_allVars => Tallies'
<1> SUFFICES ASSUME GateInv, Tallies, [GateNext]_allVars PROVE Tallies'
  OBVIOUS
<1>1. ASSUME NEW d \in Deliveries, Tally(d)', OthersStay(d),
             \A s \in Slots : s[1] # d => replied'[s] = replied[s]
      PROVE  Tallies'
  <2>1. ASSUME NEW c \in Deliveries \ {d} PROVE Tally(c)'
    <3>1. \A i \in 1..MaxEvents : replied'[<<c, i>>] = replied[<<c, i>>]
      BY <1>1, SlotFacts
    <3>2. web'[c] = web[c] /\ Counting(c) /\ Tally(c)
      BY <1>1 DEF OthersStay, GateInv, Places, Place, Tallies
    <3> QED
      BY <3>1, <3>2, TallyStays DEF GateInv, Places
  <2> QED
    BY <1>1, <2>1 DEF Tallies
<1>2. ASSUME NEW d \in Deliveries, NEW p \in Payloads,
             RefusePayload(d, p) \/ AcceptPayload(d, p)
      PROVE  Tallies'
  <2>1. OthersStay(d)
    BY <1>2, RefuseFields, AcceptFields DEF GateInv, Places
  <2>2. replied' = replied
    BY <1>2 DEF RefusePayload, AcceptPayload
  <2> QED
    BY <1>1, <1>2, <2>1, <2>2, PayloadTally
<1>3. ASSUME NEW d \in Deliveries, SkipEvent(d) \/ DispatchEvent(d) \/ Acknowledge(d)
      PROVE  Tallies'
  <2>1. OthersStay(d)
    BY <1>3, SkipFields, DispatchFields, AcknowledgeFields DEF GateInv, Places
  <2>2. replied' = replied
    BY <1>3 DEF SkipEvent, DispatchEvent, Acknowledge
  <2>3. Tally(d)'
    BY <1>3, NextTally, AcknowledgeTally DEF Tallies
  <2> QED
    BY <1>1, <2>1, <2>2, <2>3
<1>4. ASSUME NEW d \in Deliveries,
             ReplyAccepted(d) \/ ReplyAnswerLost(d) \/ ReplyFails(d)
      PROVE  Tallies'
  <2>1. OthersStay(d)
    <3>1. \E sent \in BOOLEAN : NextEvent(d, sent)
      BY <1>4 DEF ReplyAccepted, ReplyAnswerLost, ReplyFails
    <3> QED
      BY <3>1, NextEventFields DEF GateInv, Places
  <2>2. AuthorTold(d) \/ replied' = replied
    BY <1>4 DEF ReplyAccepted, ReplyAnswerLost, ReplyFails
  <2>3. \A s \in Slots : s[1] # d => replied'[s] = replied[s]
    BY <2>2 DEF AuthorTold, Slot, GateInv, LoopInv
  <2>4. Tally(d)'
    BY <1>4, OverTally DEF Tallies
  <2> QED
    BY <1>1, <2>1, <2>3, <2>4
<1>5. ASSUME web' = web, replied' = replied PROVE Tallies'
  BY <1>5, TallyStays DEF Tallies, GateInv, Places, Place
<1>6. ASSUME NEW r \in RestCalls,
             \/ \E b \in Bodies : RestRefuse(r, b) \/ RestStart(r, b)
             \/ RestRespond(r)
      PROVE  Tallies'
  BY <1>5, <1>6 DEF RestRefuse, RestStart, RestRespond, gateVars
<1>7. ASSUME NEW r \in Requests, Below(r) PROVE Tallies'
  BY <1>5, <1>7 DEF Below, gateVars
<1>8. CASE UNCHANGED allVars
  BY <1>5, <1>8 DEF allVars, gateVars
<1> QED
  BY <1>2, <1>3, <1>4, <1>6, <1>7, <1>8 DEF GateNext, WebStep, GateQuiescent

(***************************************************************************)
(* The counters of every delivery are true, whatever failed.               *)
(***************************************************************************)
THEOREM TrueCounters == GateSpec => []CountersAreTrue
<1>1. GateInv /\ Tallies => CountersAreTrue
  <2> DEFINE n(d) == IF web[d].pc = "task" THEN web[d].next ELSE web[d].next - 1
  <2> SUFFICES ASSUME GateInv, Tallies, NEW d \in Deliveries,
                      web[d].status \notin {400, 401}
               PROVE  /\ web[d].processed =
                           Cardinality({i \in 1..n(d) : Accepted(web[d].payload.events[i])})
                      /\ web[d].processed = web[d].success + web[d].error
                                              + (IF web[d].pc = "task" THEN 1 ELSE 0)
                      /\ web[d].success <=
                           Cardinality({i \in 1..n(d) : replied[<<d, i>>] = "result"})
                      /\ web[d].status = 200 => n(d) = Len(web[d].payload.events)
    BY DEF CountersAreTrue
  <2>1. Tally(d) /\ Counting(d) /\ Screening(d)
    BY DEF Tallies, GateInv, Places, Place
  <2>2. web[d].next \in Nat /\ Len(Events(d)) \in Nat
    BY Fields, EventsShape DEF GateInv, Places
  <2>3. Last(d) = n(d)
    BY <2>2 DEF Last
  <2>4. web[d].status = 200 => n(d) = Len(Events(d))
    BY <2>1, <2>2 DEF Screening
  <2> QED
    BY <2>1, <2>3, <2>4 DEF Tally, AcceptedTo, ResultsTo
<1> QED
  BY <1>1, InitTallies, StepTallies, GateInvariance, PTL DEF GateSpec

=============================================================================
