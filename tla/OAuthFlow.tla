------------------------------ MODULE OAuthFlow ------------------------------
(***************************************************************************)
(* The command cmd/googleauth, run by hand to sign in to Google, and the   *)
(* token file it leaves for the API server.  The command waits on a local  *)
(* port for the browser to come back with a code: every callback has a     *)
(* goroutine that hands a code or an error over one of two channels of     *)
(* capacity one, and the main goroutine selects among the channels and a   *)
(* timer, exchanges the code, shuts the port down and writes the file.     *)
(*                                                                         *)
(* The token granted for a code is named by the code.  A read of the file  *)
(* is one step: a read that overlaps a write is left out.                  *)
(***************************************************************************)
EXTENDS Integers, Sequences, FiniteSets

CONSTANTS
  Callbacks,  \* connections a browser may make to the local port
  Codes,      \* authorization codes
  OwnCodes,   \* those Google issued for the sign-in of the command
  NoCode,     \* a callback without a code
  OldToken,   \* a token an earlier sign-in left in the file
  MaxRuns     \* bound: how often the command is run

Broken == {"missing", "empty", "partial"}

ASSUME OAuthAssumption ==
  /\ OwnCodes \subseteq Codes /\ NoCode \notin Codes /\ OldToken \notin Codes
  /\ Codes \cap ({"nothing", "error", "down", "refused"} \cup Broken) = {}
  /\ IsFiniteSet(Callbacks) /\ MaxRuns \in Nat

VARIABLES
  main,   \* where the main goroutine is
  serve,  \* the goroutine in server.Serve
  cb,     \* where each connection and its handler are
  msg,    \* what each handler hands over: a code or "error"
  chan,   \* the contents of the two channels
  took,   \* what the select took: a channel or the timer
  held,   \* the code, then the token, or "error"
  file,   \* the token file
  api,    \* the API server: "down", "refused", or the token it runs with
  runs    \* how often the command was run

flow == <<main, serve, cb, msg, chan, took, held, runs>>
vars == <<flow, file, api>>

-----------------------------------------------------------------------------
Channels == {"codeCh", "errCh"}
Ended == {"saved", "failed", "killed"}
Places == {"start", "select", "exchange", "returning", "draining", "write", "encode"} \cup Ended

(* The answers of a browser: the state is the command's own or is not. The *)
(* state is random, so with the right one come only codes of this sign-in, *)
(* or none when the user declined.                                         *)
Queries == {q \in [state : BOOLEAN, code : Codes \cup {NoCode}] :
              q.state => q.code \in OwnCodes \cup {NoCode}}

(* Mutant: the handler does not compare the state. *)
HandedUnchecked(q) == IF q.code # NoCode THEN q.code ELSE "error"

(* What the handler of a callback hands over. *)
Handed(q) == IF q.state /\ q.code # NoCode THEN q.code ELSE "error"

ChannelOf(m) == IF m = "error" THEN "errCh" ELSE "codeCh"

(* Mutant: the channels have no buffer. *)
RoomUnbuffered(ch) == main = "select" /\ Len(chan[ch]) < 1

Room(ch) == Len(chan[ch]) < 1

Fresh ==
  [main |-> "start", serve |-> "serving", took |-> "nothing", held |-> "nothing",
   cb |-> [c \in Callbacks |-> "away"], msg |-> [c \in Callbacks |-> "error"],
   chan |-> [ch \in Channels |-> <<>>]]

Init ==
  /\ main = Fresh.main /\ serve = Fresh.serve /\ took = Fresh.took /\ held = Fresh.held
  /\ cb = Fresh.cb /\ msg = Fresh.msg /\ chan = Fresh.chan
  /\ runs = 1 /\ file \in {"missing", OldToken} /\ api = "down"

-----------------------------------------------------------------------------
(* The command is started; its options or credentials may not be usable.   *)
Begin ==
  /\ main = "start"
  /\ main' \in {"select", "failed"}
  /\ UNCHANGED <<serve, cb, msg, chan, took, held, runs, file, api>>

Running == main \in Places \ (Ended \cup {"start"})

(* The port accepts connections until Shutdown closes it or accepting fails. *)
Connect(c) ==
  /\ Running /\ serve = "serving" /\ cb[c] = "away"
  /\ cb' = [cb EXCEPT ![c] = "connected"]
  /\ UNCHANGED <<main, serve, msg, chan, took, held, runs, file, api>>

(* The callback arrives on a connection, which may be while Shutdown waits. *)
Receive(c, q) ==
  /\ Running /\ cb[c] = "connected"
  /\ cb' = [cb EXCEPT ![c] = "sending"]
  /\ msg' = [msg EXCEPT ![c] = Handed(q)]
  /\ UNCHANGED <<main, serve, chan, took, held, runs, file, api>>

(* The handler sends; only when it returns does the browser see its answer. *)
SendResult(c) ==
  LET ch == ChannelOf(msg[c]) IN
  /\ Running /\ cb[c] = "sending" /\ Room(ch)
  /\ chan' = [chan EXCEPT ![ch] = Append(@, msg[c])]
  /\ cb' = [cb EXCEPT ![c] = "answered"]
  /\ UNCHANGED <<main, serve, msg, took, held, runs, file, api>>

(* Shutdown closes a connection on which nothing came for five seconds. *)
CloseSilent(c) ==
  /\ main = "draining" /\ cb[c] = "connected"
  /\ cb' = [cb EXCEPT ![c] = "closed"]
  /\ UNCHANGED <<main, serve, msg, chan, took, held, runs, file, api>>

(* Accepting fails, and the goroutine of Serve reports it. *)
AcceptFails ==
  /\ Running /\ serve = "serving"
  /\ serve' = "failing"
  /\ UNCHANGED <<main, cb, msg, chan, took, held, runs, file, api>>

ReportServeError ==
  /\ Running /\ serve = "failing" /\ Room("errCh")
  /\ serve' = "reported"
  /\ chan' = [chan EXCEPT !["errCh"] = Append(@, "error")]
  /\ UNCHANGED <<main, cb, msg, took, held, runs, file, api>>

-----------------------------------------------------------------------------
(* The select: any of its cases that is ready. *)
TakeCode ==
  /\ main = "select" /\ chan["codeCh"] # <<>>
  /\ main' = "exchange" /\ took' = "codeCh" /\ held' = Head(chan["codeCh"])
  /\ chan' = [chan EXCEPT !["codeCh"] = Tail(@)]
  /\ UNCHANGED <<serve, cb, msg, runs, file, api>>

TakeError ==
  /\ main = "select" /\ chan["errCh"] # <<>>
  /\ main' = "returning" /\ took' = "errCh" /\ held' = "error"
  /\ chan' = [chan EXCEPT !["errCh"] = Tail(@)]
  /\ UNCHANGED <<serve, cb, msg, runs, file, api>>

(* Mutant: no timer. *)
NoTimeOut == FALSE

TimeOut ==
  /\ main = "select"
  /\ main' = "returning" /\ took' = "timer" /\ held' = "error"
  /\ UNCHANGED <<serve, cb, msg, chan, runs, file, api>>

(* Google grants a token for the code, or the exchange fails or times out. *)
Exchange ==
  /\ main = "exchange"
  /\ main' = "returning" /\ held' \in {held, "error"}
  /\ UNCHANGED <<serve, cb, msg, chan, took, runs, file, api>>

(* The deferred Shutdown closes the port, then waits for the connections. *)
ClosePort ==
  /\ main = "returning"
  /\ main' = "draining"
  /\ serve' = IF serve = "serving" THEN "closed" ELSE serve
  /\ UNCHANGED <<cb, msg, chan, took, held, runs, file, api>>

(* Mutant: the error of the flow is not looked at. *)
DrainedUnchecked ==
  /\ main = "draining" /\ \A c \in Callbacks : cb[c] \notin {"connected", "sending"}
  /\ main' = "write"
  /\ UNCHANGED <<serve, cb, msg, chan, took, held, runs, file, api>>

Drained ==
  /\ main = "draining" /\ \A c \in Callbacks : cb[c] \notin {"connected", "sending"}
  /\ main' = IF held = "error" THEN "failed" ELSE "write"
  /\ UNCHANGED <<serve, cb, msg, chan, took, held, runs, file, api>>

(* Mutant: the file is opened without being emptied. *)
OpenFileAsItIs ==
  /\ main = "write"
  /\ main' \in {"encode", "failed"}
  /\ UNCHANGED <<serve, cb, msg, chan, took, held, runs, file, api>>

(* The file is opened, which empties it, or cannot be. *)
OpenFile ==
  /\ main = "write"
  /\ \/ main' = "encode" /\ file' = "empty"
     \/ main' = "failed" /\ file' = file
  /\ UNCHANGED <<serve, cb, msg, chan, took, held, runs, api>>

(* The token is written, or a part of it before the write fails. *)
Encode ==
  /\ main = "encode"
  /\ \/ main' = "saved" /\ file' = held
     \/ main' = "failed" /\ file' \in {"empty", "partial"}
  /\ UNCHANGED <<serve, cb, msg, chan, took, held, runs, api>>

(* The process stops at any point, in the middle of the write too. *)
Kill ==
  /\ main \notin Ended
  /\ main' = "killed"
  /\ file' \in {file} \cup (IF main = "encode" THEN {"partial"} ELSE {})
  /\ UNCHANGED <<serve, cb, msg, chan, took, held, runs, api>>

(* The user runs the command again: nothing but the file is left. *)
RunAgain ==
  /\ main \in Ended /\ runs < MaxRuns
  /\ main' = Fresh.main /\ serve' = Fresh.serve /\ took' = Fresh.took /\ held' = Fresh.held
  /\ cb' = Fresh.cb /\ msg' = Fresh.msg /\ chan' = Fresh.chan
  /\ runs' = runs + 1 /\ UNCHANGED <<file, api>>

-----------------------------------------------------------------------------
(* Mutant: a file that does not decode is taken for a token. *)
WholeUndecoded(f) == f # "missing"

Whole(f) == f \notin Broken

(* The API server starts with the calendar enabled: it needs a token.      *)
ServerStarts ==
  /\ api \in {"down", "refused"} /\ Whole(file)
  /\ api' = file
  /\ UNCHANGED <<flow, file>>

(* It exits when the file, or another option, is of no use. *)
ServerRefuses ==
  /\ api = "down"
  /\ api' = "refused"
  /\ UNCHANGED <<flow, file>>

ServerStops ==
  /\ api # "down"
  /\ api' = "down"
  /\ UNCHANGED <<flow, file>>

-----------------------------------------------------------------------------
MainStep ==
  \/ Begin \/ TakeCode \/ TakeError \/ TimeOut \/ Exchange
  \/ ClosePort \/ Drained \/ OpenFile \/ Encode

Handler(c) ==
  \/ Connect(c) \/ SendResult(c) \/ CloseSilent(c)
  \/ \E q \in Queries : Receive(c, q)

Next ==
  \/ MainStep \/ Kill \/ RunAgain
  \/ \E c \in Callbacks : Handler(c)
  \/ AcceptFails \/ ReportServeError
  \/ ServerStarts \/ ServerRefuses \/ ServerStops

Spec == Init /\ [][Next]_vars

(* The goroutines are scheduled, the timer fires, the exchange has its own *)
(* deadline, and Shutdown gives up silent connections.                     *)
FairSpec ==
  /\ Spec
  /\ WF_vars(MainStep)
  /\ \A c \in Callbacks : WF_vars(SendResult(c)) /\ WF_vars(CloseSilent(c))

-----------------------------------------------------------------------------
(* Every variable keeps to its type, a channel to its capacity.            *)
FlowTypeOK ==
  /\ main \in Places
  /\ serve \in {"serving", "closed", "failing", "reported"}
  /\ cb \in [Callbacks -> {"away", "connected", "sending", "answered", "closed"}]
  /\ msg \in [Callbacks -> OwnCodes \cup {"error"}]
  /\ chan \in [Channels -> {<<>>} \cup {<<m>> : m \in OwnCodes \cup {"error"}}]
  /\ took \in {"nothing", "timer"} \cup Channels
  /\ held \in OwnCodes \cup {"nothing", "error"}
  /\ file \in Broken \cup {OldToken} \cup OwnCodes
  /\ api \in {"down", "refused", OldToken} \cup OwnCodes
  /\ runs \in Nat

(* Whatever comes to the port, also with a state that is not the command's *)
(* own, the file never holds and the server never runs with a token that   *)
(* is not of the user's own sign-ins; and a server never runs with what is *)
(* left of a write that broke off.  The way is from a handler over a       *)
(* channel, the exchange and the file to another process.                  *)
TokensAreOwn ==
  /\ Whole(file) => file \in OwnCodes \cup {OldToken}
  /\ api \notin {"down", "refused"} => api \in OwnCodes \cup {OldToken}

(* The file is changed only with a token in hand that replaces it: a sign-in *)
(* that timed out, was refused or got an error does not cost the old token.  *)
FileKeptUntilGranted ==
  [][file' # file => held \in OwnCodes /\ took = "codeCh"]_vars

(* The handlers that have handed something over, or want to, on a channel. *)
Senders(ch) == {c \in Callbacks : cb[c] \in {"sending", "answered"} /\ ChannelOf(msg[c]) = ch}

(* A handler that will never return, and Shutdown with it: nobody receives *)
(* any more and the channel is full.                                       *)
Wedged(c) ==
  main = "draining" /\ cb[c] = "sending" /\ ~Room(ChannelOf(msg[c]))

(* The deferred Shutdown has no deadline, and one handler that is stuck on *)
(* its channel stops the command for good, with its token in hand.  That   *)
(* takes a second message beyond the one that was taken: two when nothing  *)
(* of that channel was taken, three when the code or the error came of it. *)
WedgedOnlyWhenCrowded ==
  \A c \in Callbacks : Wedged(c) =>
    LET ch == ChannelOf(msg[c]) IN
    Cardinality(Senders(ch)) + (IF ch = "errCh" /\ serve = "reported" THEN 1 ELSE 0)
      >= 2 + (IF took = ch THEN 1 ELSE 0)

(* The command comes to an end by itself, whatever the browser and Google  *)
(* do, unless a handler is wedged.                                         *)
EndsUnlessWedged ==
  main = "select" ~> (main \in Ended \/ \E c \in Callbacks : Wedged(c))
=============================================================================
