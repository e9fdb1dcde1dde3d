--------------------------- MODULE OAuthFlowProofs ---------------------------
(***************************************************************************)
(* Theorems about the sign-in command, for any number of callbacks, codes  *)
(* and runs.                                                               *)
(***************************************************************************)
EXTENDS OAuthRefinement, FiniteSetTheorems, TLAPS

(* What the main goroutine holds at each place. *)
Holding ==
  /\ main \in {"start", "select"} => held = "nothing" /\ took = "nothing"
  /\ main \in {"exchange", "write", "encode", "saved"} => held \in OwnCodes
  /\ main \in {"returning", "draining"} => held \in OwnCodes \cup {"error"}
  /\ held \in OwnCodes => took = "codeCh"

(* A message is on its own channel. *)
Sorted == \A ch \in Channels : chan[ch] # <<>> => ChannelOf(Head(chan[ch])) = ch

(* Every message that was handed over on a channel is still there or was taken. *)
Answered(ch) == {c \in Callbacks : cb[c] = "answered" /\ ChannelOf(msg[c]) = ch}
FromServe(ch) == IF ch = "errCh" /\ serve = "reported" THEN 1 ELSE 0
Taken(ch) == IF took = ch THEN 1 ELSE 0
Account(ch) ==
  Cardinality(Answered(ch)) + FromServe(ch) = Len(chan[ch]) + Taken(ch)
Accounted == \A ch \in Channels : Account(ch)

FlowInv == FlowTypeOK /\ Holding /\ Sorted /\ Accounted

-----------------------------------------------------------------------------
(* What can be on a channel. *)
Messages == OwnCodes \cup {"error"}
Contents == {<<>>} \cup {<<m>> : m \in Messages}

(* Channels of capacity one: what room, a send and a receive are.          *)
LEMMA OneMessage ==
  /\ \A m : Append(<<>>, m) = <<m>> /\ Head(<<m>>) = m /\ Tail(<<m>>) = <<>>
            /\ <<m>> # <<>> /\ Len(<<m>>) = 1
  /\ Len(<<>>) = 0
OBVIOUS

(* The type of the channels, with the names above. *)
LEMMA ChannelType ==
  ASSUME FlowTypeOK, NEW ch \in Channels
  PROVE  /\ chan \in [Channels -> Contents] /\ chan[ch] \in Contents
         /\ Room(ch) <=> chan[ch] = <<>>
         /\ ~Room(ch) => \E m \in Messages : chan[ch] = <<m>>
         /\ ~Room(ch) => Len(chan[ch]) = 1
<1>1. chan \in [Channels -> Contents]
  BY DEF FlowTypeOK, Contents, Messages
<1>2. chan[ch] \in Contents
  BY <1>1
<1>3. CASE chan[ch] = <<>>
  BY <1>1, <1>2, <1>3, OneMessage DEF Room
<1>4. CASE \E m \in Messages : chan[ch] = <<m>>
  <2>1. PICK m \in Messages : chan[ch] = <<m>>
    BY <1>4
  <2>2. Len(chan[ch]) = 1 /\ chan[ch] # <<>>
    BY <2>1, OneMessage
  <2> QED
    BY <1>1, <1>2, <1>4, <2>2 DEF Room
<1> QED
  BY <1>2, <1>3, <1>4 DEF Contents

(* The values the places and the messages range over are not mixed up.     *)
LEMMA Names ==
  /\ "nothing" \notin OwnCodes /\ "error" \notin OwnCodes
  /\ "down" \notin OwnCodes /\ "refused" \notin OwnCodes
  /\ Broken \cap OwnCodes = {} /\ OldToken \notin OwnCodes
  /\ NoCode \notin OwnCodes
  /\ \A q \in Queries : Handed(q) \in Messages
  /\ \A m \in Messages : ChannelOf(m) \in Channels
  /\ \A m \in Messages : ChannelOf(m) = "codeCh" => m \in OwnCodes
BY OAuthAssumption DEF Broken, Queries, Handed, Messages, ChannelOf, Channels

-----------------------------------------------------------------------------
(* The start of the first run, and of any other. *)
IsFresh ==
  /\ main = Fresh.main /\ serve = Fresh.serve /\ took = Fresh.took /\ held = Fresh.held
  /\ cb = Fresh.cb /\ msg = Fresh.msg /\ chan = Fresh.chan

(* The invariant holds there. *)
LEMMA FreshFlow == IsFresh => Holding /\ Sorted /\ Accounted
<1> SUFFICES ASSUME IsFresh PROVE Holding /\ Sorted /\ Accounted
  OBVIOUS
<1> USE DEF IsFresh
<1>1. Holding
  BY Names DEF Fresh, Holding
<1>2. Sorted
  BY DEF Fresh, Sorted
<1>3. ASSUME NEW ch \in Channels PROVE Account(ch)
  <2>1. Answered(ch) = {}
    BY DEF Fresh, Answered
  <2>2. FromServe(ch) = 0 /\ Taken(ch) = 0 /\ chan[ch] = <<>>
    BY DEF Fresh, FromServe, Taken, Channels
  <2> QED
    BY <2>1, <2>2, FS_EmptySet, OneMessage DEF Account
<1> QED
  BY <1>1, <1>2, <1>3 DEF Accounted

(* An account that a step leaves alone. *)
LEMMA SameAccount ==
  ASSUME NEW ch \in Channels, Account(ch),
         chan'[ch] = chan[ch], Taken(ch)' = Taken(ch), FromServe(ch)' = FromServe(ch),
         \A c \in Callbacks :
           (cb[c] = "answered" /\ ChannelOf(msg[c]) = ch)
             <=> (cb'[c] = "answered" /\ ChannelOf(msg'[c]) = ch)
  PROVE  Account(ch)'
<1>1. Answered(ch)' = Answered(ch)
  BY DEF Answered
<1> QED
  BY <1>1 DEF Account

(* A step that touches neither channels nor handlers, and takes no message. *)
LEMMA QuietStep ==
  ASSUME Accounted, Sorted, UNCHANGED <<cb, msg, chan>>,
         \A ch \in Channels : FromServe(ch)' = FromServe(ch) /\ Taken(ch)' = Taken(ch)
  PROVE  Accounted' /\ Sorted'
<1>1. ASSUME NEW ch \in Channels PROVE Account(ch)'
  BY SameAccount DEF Accounted
<1> QED
  BY <1>1 DEF Accounted, Sorted

-----------------------------------------------------------------------------
(* One action after the other.  Those of the main goroutine between the    *)
(* select and the end, and those of the server, are quiet.                 *)
LEMMA QuietActions ==
  ASSUME FlowInv,
         Begin \/ Exchange \/ ClosePort \/ Drained \/ OpenFile \/ Encode \/ Kill \/ TimeOut
           \/ AcceptFails \/ ServerStarts \/ ServerRefuses \/ ServerStops
  PROVE  FlowInv'
<1> USE DEF FlowInv
<1>1. FlowTypeOK'
  BY Names DEF FlowTypeOK, Holding, Begin, Exchange, ClosePort, Drained, OpenFile, Encode, Kill,
     TimeOut, AcceptFails, ServerStarts, ServerRefuses, ServerStops, flow, Places, Ended,
     Running, Broken, Whole, Channels
<1>2. Holding'
  BY Names DEF Holding, Begin, Exchange, ClosePort, Drained, OpenFile, Encode, Kill,
     TimeOut, AcceptFails, ServerStarts, ServerRefuses, ServerStops, flow
<1>3. UNCHANGED <<cb, msg, chan>>
  BY DEF Begin, Exchange, ClosePort, Drained, OpenFile, Encode, Kill, TimeOut, AcceptFails,
     ServerStarts, ServerRefuses, ServerStops, flow
<1>4. took' = took \/ (took = "nothing" /\ took' = "timer")
  BY DEF Begin, Exchange, ClosePort, Drained, OpenFile, Encode, Kill, TimeOut, AcceptFails,
     ServerStarts, ServerRefuses, ServerStops, flow, Holding
<1>5. serve' = serve \/ (serve = "serving" /\ serve' \in {"closed", "failing"})
  BY DEF Begin, Exchange, ClosePort, Drained, OpenFile, Encode, Kill, TimeOut, AcceptFails,
     ServerStarts, ServerRefuses, ServerStops, flow
<1>6. \A ch \in Channels : FromServe(ch)' = FromServe(ch) /\ Taken(ch)' = Taken(ch)
  BY <1>4, <1>5 DEF FromServe, Taken, Channels
<1> QED
  BY <1>1, <1>2, <1>3, <1>6, QuietStep

(* A handler connects, receives or is given up: nothing is handed over.    *)
LEMMA HandlerActions ==
  ASSUME FlowInv, NEW c \in Callbacks,
         Connect(c) \/ CloseSilent(c) \/ \E q \in Queries : Receive(c, q)
  PROVE  FlowInv'
<1> USE DEF FlowInv
<1>1. FlowTypeOK' /\ Holding' /\ Sorted'
  <2>1. CASE Connect(c) \/ CloseSilent(c)
    BY <2>1 DEF Connect, CloseSilent, FlowTypeOK, Holding, Sorted
  <2>2. CASE \E q \in Queries : Receive(c, q)
    BY <2>2, Names DEF Receive, FlowTypeOK, Holding, Sorted, Messages
  <2> QED
    BY <2>1, <2>2
<1>2. /\ \A d \in Callbacks :
           \/ cb'[d] = cb[d] /\ msg'[d] = msg[d]
           \/ cb[d] # "answered" /\ cb'[d] # "answered"
      /\ chan' = chan /\ took' = took /\ serve' = serve
  BY DEF Connect, CloseSilent, Receive, FlowTypeOK
<1>3. ASSUME NEW ch \in Channels PROVE Account(ch)'
  BY <1>2, SameAccount DEF Accounted, Taken, FromServe
<1> QED
  BY <1>1, <1>3 DEF Accounted

(* A handler hands its message over. *)
LEMMA SendAction ==
  ASSUME FlowInv, NEW c \in Callbacks, SendResult(c)
  PROVE  FlowInv'
<1> USE DEF FlowInv
<1> DEFINE own == ChannelOf(msg[c])
<1>1. msg[c] \in Messages /\ own \in Channels /\ cb[c] = "sending"
  BY Names DEF FlowTypeOK, Messages, SendResult
<1>2. chan[own] = <<>> /\ chan \in [Channels -> Contents]
  BY <1>1, ChannelType DEF SendResult
<1>3. /\ chan' = [chan EXCEPT ![own] = <<msg[c]>>]
      /\ cb' = [cb EXCEPT ![c] = "answered"]
      /\ UNCHANGED <<main, serve, msg, took, held, runs, file, api>>
  BY <1>1, <1>2, OneMessage DEF SendResult
<1>4. FlowTypeOK'
  <2>1. <<msg[c]>> \in Contents
    BY <1>1 DEF Contents
  <2>2. chan' \in [Channels -> Contents]
    BY <1>2, <1>3, <2>1
  <2> QED
    BY <1>3, <2>2 DEF FlowTypeOK, Contents, Messages
<1>5. Holding'
  BY <1>3 DEF Holding
<1>6. Sorted'
  BY <1>2, <1>3, OneMessage DEF Sorted
<1>7. ASSUME NEW ch \in Channels PROVE Account(ch)'
  <2>1. CASE ch = own
    <3>1. Answered(ch)' = Answered(ch) \cup {c} /\ c \notin Answered(ch)
      BY <1>1, <1>3, <2>1 DEF Answered, FlowTypeOK
    <3>2. IsFiniteSet(Answered(ch))
      BY OAuthAssumption, FS_Subset DEF Answered
    <3>3. Cardinality(Answered(ch)') = Cardinality(Answered(ch)) + 1
      BY <3>1, <3>2, FS_AddElement
    <3>4. Len(chan[ch]) = 0 /\ Len(chan'[ch]) = 1
      BY <1>2, <1>3, <2>1, OneMessage
    <3>5. FromServe(ch)' = FromServe(ch) /\ Taken(ch)' = Taken(ch)
      BY <1>3 DEF FromServe, Taken
    <3>6. Cardinality(Answered(ch)) \in Nat /\ FromServe(ch) \in Nat /\ Taken(ch) \in Nat
      BY <3>2, FS_CardinalityType DEF FromServe, Taken
    <3> QED
      BY <3>3, <3>4, <3>5, <3>6 DEF Accounted, Account
  <2>2. CASE ch # own
    BY <1>2, <1>3, <2>2, SameAccount DEF Accounted, FromServe, Taken, FlowTypeOK
  <2> QED
    BY <2>1, <2>2
<1> QED
  BY <1>4, <1>5, <1>6, <1>7 DEF Accounted

(* The goroutine of Serve reports that accepting failed. *)
LEMMA ReportAction ==
  ASSUME FlowInv, ReportServeError
  PROVE  FlowInv'
<1> USE DEF FlowInv
<1>1. /\ chan["errCh"] = <<>> /\ chan \in [Channels -> Contents] /\ "errCh" \in Channels
      /\ "error" \in Messages
  BY ChannelType DEF ReportServeError, Channels, Messages
<1>2. /\ chan' = [chan EXCEPT !["errCh"] = <<"error">>] /\ serve = "failing"
      /\ serve' = "reported" /\ UNCHANGED <<main, cb, msg, took, held, runs, file, api>>
  BY <1>1, OneMessage DEF ReportServeError
<1>3. FlowTypeOK'
  <2>1. chan' \in [Channels -> Contents]
    BY <1>1, <1>2 DEF Contents
  <2> QED
    BY <1>2, <2>1 DEF FlowTypeOK, Contents, Messages
<1>4. Holding'
  BY <1>2 DEF Holding
<1>5. Sorted'
  BY <1>1, <1>2, OneMessage DEF Sorted, ChannelOf
<1>6. ASSUME NEW ch \in Channels PROVE Account(ch)'
  <2>1. CASE ch = "errCh"
    <3>1. Answered(ch)' = Answered(ch) /\ Taken(ch)' = Taken(ch)
      BY <1>2 DEF Answered, Taken
    <3>2. FromServe(ch) = 0 /\ FromServe(ch)' = 1
      BY <1>2, <2>1 DEF FromServe
    <3>3. Len(chan[ch]) = 0 /\ Len(chan'[ch]) = 1
      BY <1>1, <1>2, <2>1, OneMessage
    <3>4. Cardinality(Answered(ch)) \in Nat /\ Taken(ch) \in Nat
      <4>1. IsFiniteSet(Answered(ch))
        BY OAuthAssumption, FS_Subset DEF Answered
      <4> QED
        BY <4>1, FS_CardinalityType DEF Taken
    <3> QED
      BY <3>1, <3>2, <3>3, <3>4 DEF Accounted, Account
  <2>2. CASE ch # "errCh"
    BY <1>1, <1>2, <2>2, SameAccount DEF Accounted, FromServe, Taken
  <2> QED
    BY <2>1, <2>2
<1> QED
  BY <1>3, <1>4, <1>5, <1>6 DEF Accounted

(* The select takes the message of a channel. *)
LEMMA TakeAction ==
  ASSUME FlowInv, TakeCode \/ TakeError
  PROVE  FlowInv'
<1> USE DEF FlowInv
<1>1. PICK own \in Channels :
        /\ own = (IF TakeCode THEN "codeCh" ELSE "errCh") /\ chan[own] # <<>>
        /\ chan' = [chan EXCEPT ![own] = Tail(@)] /\ took' = own
        /\ UNCHANGED <<serve, cb, msg, runs, file, api>>
  BY DEF TakeCode, TakeError, Channels
<1>2. PICK m \in Messages : chan[own] = <<m>>
  BY <1>1, ChannelType
<1>3. chan' = [chan EXCEPT ![own] = <<>>] /\ chan \in [Channels -> Contents]
  BY <1>1, <1>2, ChannelType, OneMessage
<1>4. main = "select" /\ took = "nothing" /\ held = "nothing"
  BY DEF TakeCode, TakeError, Holding
<1>5. \/ main' = "exchange" /\ own = "codeCh" /\ held' = m /\ m \in OwnCodes
      \/ main' = "returning" /\ own = "errCh" /\ held' = "error"
  <2>1. CASE TakeCode
    <3>1. own = "codeCh" /\ main' = "exchange" /\ held' = Head(chan[own])
      BY <1>1, <2>1 DEF TakeCode
    <3>2. held' = m /\ ChannelOf(m) = own
      BY <1>2, <3>1, OneMessage DEF Sorted
    <3> QED
      BY <3>1, <3>2, Names
  <2>2. CASE ~TakeCode
    BY <1>1, <2>2 DEF TakeError
  <2> QED
    BY <2>1, <2>2
<1>6. FlowTypeOK'
  <2>1. chan' \in [Channels -> Contents]
    BY <1>3 DEF Contents
  <2> QED
    BY <1>1, <1>5, <2>1 DEF FlowTypeOK, Contents, Messages, Places, Ended, Channels
<1>7. Holding'
  BY <1>1, <1>5, Names DEF Holding
<1>8. Sorted'
  BY <1>3 DEF Sorted
<1>9. ASSUME NEW ch \in Channels PROVE Account(ch)'
  <2>1. Answered(ch)' = Answered(ch) /\ FromServe(ch)' = FromServe(ch)
    BY <1>1 DEF Answered, FromServe
  <2>2. Taken(ch) = 0 /\ Taken(ch)' = IF ch = own THEN 1 ELSE 0
    BY <1>1, <1>4 DEF Taken, Channels
  <2>3. Len(chan[ch]) \in Nat /\ Len(chan'[ch]) = IF ch = own THEN 0 ELSE Len(chan[ch])
    BY <1>2, <1>3, OneMessage DEF Contents
  <2>4. ch = own => Len(chan[ch]) = 1
    BY <1>2, OneMessage
  <2>5. Cardinality(Answered(ch)) \in Nat /\ FromServe(ch) \in Nat
    <3>1. IsFiniteSet(Answered(ch))
      BY OAuthAssumption, FS_Subset DEF Answered
    <3> QED
      BY <3>1, FS_CardinalityType DEF FromServe
  <2>6. Cardinality(Answered(ch)) + FromServe(ch) = Len(chan[ch])
    BY <2>2, <2>3 DEF Accounted, Account
  <2>7. Len(chan'[ch]) + Taken(ch)' = Len(chan[ch])
    <3>1. CASE ch = own
      BY <2>2, <2>3, <2>4, <3>1
    <3>2. CASE ch # own
      BY <2>2, <2>3, <3>2
    <3> QED
      BY <3>1, <3>2
  <2> QED
    BY <2>1, <2>6, <2>7 DEF Account
<1> QED
  BY <1>6, <1>7, <1>8, <1>9 DEF Accounted

(* The command is run again. *)
LEMMA AgainAction ==
  ASSUME FlowInv, RunAgain
  PROVE  FlowInv'
<1>1. IsFresh'
  BY DEF RunAgain, IsFresh, Fresh
<1>2. (Holding /\ Sorted /\ Accounted)'
  BY <1>1, FreshFlow, PTL
<1>3. FlowTypeOK'
  BY DEF FlowInv, RunAgain, FlowTypeOK, Fresh, Places, Channels
<1> QED
  BY <1>2, <1>3 DEF FlowInv

-----------------------------------------------------------------------------
(* FlowInv is inductive. *)
LEMMA FlowInvariance == Spec => []FlowInv
<1>1. Init => FlowInv
  <2> SUFFICES ASSUME Init PROVE FlowInv
    OBVIOUS
  <2>1. FlowTypeOK
    BY DEF Init, Fresh, FlowTypeOK, Places, Broken, Channels
  <2> QED
    BY <2>1, FreshFlow DEF Init, IsFresh, FlowInv
<1>2. FlowInv /\ [Next]_vars => FlowInv'
  <2> SUFFICES ASSUME FlowInv, [Next]_vars PROVE FlowInv'
    OBVIOUS
  <2>1. CASE MainStep
    BY <2>1, QuietActions, TakeAction DEF MainStep
  <2>2. ASSUME NEW c \in Callbacks, Handler(c) PROVE FlowInv'
    BY <2>2, HandlerActions, SendAction DEF Handler
  <2>3. CASE UNCHANGED vars
    <3>1. FlowTypeOK' /\ Holding' /\ Sorted'
      BY <2>3 DEF vars, flow, FlowInv, FlowTypeOK, Holding, Sorted
    <3>2. ASSUME NEW ch \in Channels PROVE Account(ch)'
      BY <2>3, SameAccount DEF vars, flow, FlowInv, Accounted, Taken, FromServe
    <3> QED
      BY <3>1, <3>2 DEF FlowInv, Accounted
  <2> QED
    BY <2>1, <2>2, <2>3, QuietActions, ReportAction, AgainAction DEF Next
<1> QED
  BY <1>1, <1>2, PTL DEF Spec

(* Every variable of the command, the file and the server keeps to its     *)
(* type, a channel to its one place.                                       *)
THEOREM FlowTypes == Spec => []FlowTypeOK
<1>1. FlowInv => FlowTypeOK
  BY DEF FlowInv
<1> QED
  BY <1>1, FlowInvariance, PTL

(* The file and a started server only ever have tokens of the user's own   *)
(* sign-ins, and a server never runs with a broken one.                    *)
THEOREM OwnTokens == Spec => []TokensAreOwn
<1>1. FlowInv => TokensAreOwn
  BY DEF FlowInv, FlowTypeOK, TokensAreOwn, Whole
<1> QED
  BY <1>1, FlowInvariance, PTL

(* Nothing but a granted token costs the old one. *)
THEOREM OldTokenKept == Spec => FileKeptUntilGranted
<1>1. FlowInv /\ [Next]_vars => (file' # file => held \in OwnCodes /\ took = "codeCh")
  <2> SUFFICES ASSUME FlowInv, [Next]_vars, file' # file
               PROVE  held \in OwnCodes /\ took = "codeCh"
    OBVIOUS
  <2>1. main \in {"write", "encode"}
    BY DEF Next, MainStep, Handler, Begin, Connect, Receive, SendResult, CloseSilent, AcceptFails,
       ReportServeError, TakeCode, TakeError, TimeOut, Exchange, ClosePort, Drained,
       OpenFile, Encode, Kill, RunAgain, ServerStarts, ServerRefuses, ServerStops, vars, flow
  <2> QED
    BY <2>1 DEF FlowInv, Holding
<1> QED
  BY <1>1, FlowInvariance, PTL DEF Spec, FileKeptUntilGranted

(* A handler is only ever stuck behind enough others: every message that   *)
(* fills its channel or was taken from it has a sender of its own.         *)
THEOREM CrowdedWedges == Spec => []WedgedOnlyWhenCrowded
<1>1. FlowInv => WedgedOnlyWhenCrowded
  <2> SUFFICES ASSUME FlowInv, NEW c \in Callbacks, Wedged(c)
               PROVE  LET ch == ChannelOf(msg[c]) IN
                      Cardinality(Senders(ch)) + FromServe(ch) >= 2 + Taken(ch)
    BY DEF WedgedOnlyWhenCrowded, FromServe, Taken
  <2> DEFINE ch == ChannelOf(msg[c])
  <2>1. ch \in Channels /\ cb[c] = "sending" /\ ~Room(ch)
    BY Names DEF Wedged, FlowInv, FlowTypeOK, Messages
  <2>2. Len(chan[ch]) = 1
    BY <2>1, ChannelType DEF FlowInv
  <2>3. Cardinality(Answered(ch)) + FromServe(ch) = 1 + Taken(ch)
    BY <2>1, <2>2 DEF FlowInv, Accounted, Account
  <2>4. /\ c \notin Answered(ch) /\ Answered(ch) \cup {c} \in SUBSET Senders(ch)
        /\ Senders(ch) \in SUBSET Callbacks
    BY <2>1 DEF Answered, Senders
  <2> HIDE DEF ch
  <2>5. IsFiniteSet(Senders(ch)) /\ Cardinality(Senders(ch)) \in Nat
    BY <2>4, OAuthAssumption, FS_Subset, FS_CardinalityType
  <2>6. IsFiniteSet(Answered(ch)) /\ Cardinality(Answered(ch)) \in Nat
    BY <2>4, <2>5, FS_Subset, FS_CardinalityType
  <2>7. Cardinality(Answered(ch) \cup {c}) = Cardinality(Answered(ch)) + 1
    BY <2>4, <2>6, FS_AddElement
  <2>8. Cardinality(Answered(ch) \cup {c}) <= Cardinality(Senders(ch))
    BY <2>4, <2>5, FS_Subset
  <2>9. FromServe(ch) \in Nat /\ Taken(ch) \in Nat
    BY DEF FromServe, Taken
  <2> QED
    BY <2>3, <2>5, <2>6, <2>7, <2>8, <2>9 DEF ch
<1> QED
  BY <1>1, FlowInvariance, PTL
-----------------------------------------------------------------------------
(* The refinement of SignInPromise.  While the token is being written the  *)
(* file is empty: the opening has emptied it and nobody else writes it, so *)
(* what a command killed then leaves behind is empty or a part.            *)
Emptied == main = "encode" => file = "empty"

(* No other step than OpenFile leads to the writing, none but the writing  *)
(* touches the file there. *)
LEMMA EmptiedStep == Emptied /\ [Next]_vars => Emptied'
BY DEF Emptied, Next, MainStep, Handler, Begin, Connect, Receive, SendResult, CloseSilent,
   AcceptFails, ReportServeError, TakeCode, TakeError, TimeOut, Exchange, ClosePort, Drained,
   OpenFile, Encode, Kill, RunAgain, Fresh, ServerStarts, ServerRefuses, ServerStops, vars, flow,
   Ended

(* So the file is empty whenever the token is about to be written.         *)
LEMMA EmptiedInvariance == Spec => []Emptied
<1>1. Init => Emptied
  BY DEF Init, Fresh, Emptied
<1> QED
  BY <1>1, EmptiedStep, PTL DEF Spec

(* Initial states map to initial states. *)
LEMMA InitSignIn == Init => SignIn!Init
BY DEF Init, Fresh, SignIn!Init, Phase, Granted

(* The steps of the main goroutine. *)
LEMMA MainSignIn ==
  ASSUME FlowInv, Emptied, MainStep \/ Kill \/ RunAgain
  PROVE  [SignIn!Next]_(SignIn!promised)
<1> USE DEF FlowInv, Holding
<1>1. "error" \notin OwnCodes /\ "nothing" \notin OwnCodes
  BY Names
<1>2. CASE Begin \/ TakeCode \/ TimeOut \/ TakeError
  <2>1. \/ UNCHANGED SignIn!promised
        \/ SignIn!GiveUp
    BY <1>2 DEF Begin, TakeCode, TimeOut, TakeError, Phase, Granted, SignIn!promised, SignIn!GiveUp
  <2> QED
    BY <2>1 DEF SignIn!Next
<1>3. CASE Exchange
  <2>1. held \in OwnCodes
    BY <1>3 DEF Exchange
  <2>2. SignIn!Grant \/ SignIn!GiveUp
    BY <1>1, <1>3, <2>1 DEF Exchange, Phase, Granted, SignIn!Grant, SignIn!GiveUp
  <2> QED
    BY <2>2 DEF SignIn!Next
<1>4. CASE ClosePort \/ Drained
  <2>1. UNCHANGED SignIn!promised
    BY <1>1, <1>4 DEF ClosePort, Drained, Phase, Granted, SignIn!promised
  <2> QED
    BY <2>1
<1>5. CASE OpenFile
  <2>1. SignIn!Empty \/ SignIn!GiveUp
    BY <1>1, <1>5 DEF OpenFile, Phase, Granted, SignIn!Empty, SignIn!GiveUp
  <2> QED
    BY <2>1 DEF SignIn!Next
<1>6. CASE Encode
  <2>1. SignIn!Save \/ SignIn!BreakOff
    BY <1>1, <1>6 DEF Encode, Phase, Granted, SignIn!Save, SignIn!BreakOff
  <2> QED
    BY <2>1 DEF SignIn!Next
<1>7. CASE Kill
  <2>1. CASE main = "encode"
    <3>1. SignIn!BreakOff
      BY <1>7, <2>1 DEF Kill, Emptied, Phase, Granted, SignIn!BreakOff
    <3> QED
      BY <3>1 DEF SignIn!Next
  <2>2. CASE main # "encode"
    <3>1. SignIn!GiveUp \/ UNCHANGED SignIn!promised
      BY <1>7, <2>2 DEF Kill, Ended, Phase, Granted, SignIn!GiveUp, SignIn!promised
    <3> QED
      BY <3>1 DEF SignIn!Next
  <2> QED
    BY <2>1, <2>2
<1>8. CASE RunAgain
  <2>1. SignIn!TryAgain
    BY <1>8 DEF RunAgain, Fresh, Ended, Phase, Granted, SignIn!TryAgain
  <2> QED
    BY <2>1 DEF SignIn!Next
<1> QED
  BY <1>2, <1>3, <1>4, <1>5, <1>6, <1>7, <1>8 DEF MainStep

(* Those of the callbacks and of Serve are no steps of the promise. *)
LEMMA HandlerSignIn ==
  ASSUME AcceptFails \/ ReportServeError \/ \E c \in Callbacks : Handler(c)
  PROVE  UNCHANGED SignIn!promised
<1>1. UNCHANGED <<main, held, file, api, runs>>
  BY DEF AcceptFails, ReportServeError, Handler, Connect, Receive, SendResult, CloseSilent
<1> QED
  BY <1>1 DEF SignIn!promised, Phase, Granted

(* The server's starts and stops are the promise's own. *)
LEMMA ServerSignIn ==
  ASSUME ServerStarts \/ ServerRefuses \/ ServerStops
  PROVE  SignIn!Next
<1>1. UNCHANGED <<Phase, Granted, runs>> /\ UNCHANGED file
  BY DEF ServerStarts, ServerRefuses, ServerStops, flow, Phase, Granted
<1>2. SignIn!Serve \/ SignIn!Decline \/ SignIn!GoDown
  BY <1>1 DEF ServerStarts, ServerRefuses, ServerStops, Whole, Broken, SignIn!Broken,
     SignIn!Serve, SignIn!Decline, SignIn!GoDown
<1> QED
  BY <1>2 DEF SignIn!Next

(* However callbacks, timer, shutdown and kills interleave, the command    *)
(* does to the token file what a sequential sign-in does: it empties it    *)
(* once with a granted token in hand and then writes that token, and the   *)
(* API server runs with the token that was in the file when it started.    *)
THEOREM ImplementsSignIn == Spec => KeepsSignInPromise
<1>1. FlowInv /\ Emptied /\ [Next]_vars => [SignIn!Next]_(SignIn!promised)
  <2>1. CASE UNCHANGED vars
    BY <2>1 DEF vars, flow, SignIn!promised, Phase, Granted
  <2> QED
    BY <2>1, MainSignIn, HandlerSignIn, ServerSignIn DEF Next
<1> QED
  BY <1>1, InitSignIn, FlowInvariance, EmptiedInvariance, PTL
     DEF Spec, KeepsSignInPromise, SignIn!Spec
=============================================================================
