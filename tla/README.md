# LineBot backend: specification, model checking and proofs

The backend takes a sentence written by a person, over a REST endpoint or over
a LINE webhook, has it interpreted by a gRPC service ("Internal"), carries out
one operation on a Google Calendar and reports the outcome. It keeps nothing of
its own: the calendar is the only state that outlives a request. What makes it
hard is therefore not a data structure but the calls: each request makes up to
three remote calls in a row under a context that may end at any moment, several
requests run at once over one calendar, and a call that was given up may still
take effect.

## Inventory

| component | state | operations | correct when |
|---|---|---|---|
| `internal/task` use case | none shared; a goroutine per request | `CreateFromText`: consult, two validations, dispatch to create / query / delete / update | only admissible requests reach the calendar; the report is what happened |
| `internal/calendar` use case and service | none | validation, overlap filter, formatting, error codes | a query reports what overlaps, nothing else; a reply that cannot be formatted is that of a write already made |
| Google Calendar client (`internal/infra`) | the OAuth token source | insert, list, delete, patch, mapping to local text | an update keeps times and place; all-day ends are right |
| LINE webhook handler (`internal/gatekeeper`) | three counters per delivery | signature, JSON, filters, mention clean-up, 30 s context, reply, acknowledgement | events in order, each counted once, always acknowledged |
| REST handler (`internal/gatekeeper`, `internal/infra/http.go`) | none | body checks, call, status | a 400 means nothing was done, a 200 means it was |
| LINE messaging client | none | `ReplyText` | never tells a result that is not one |
| Internal gRPC client | a connection | `NewService`, `LineTaskConsult`, `Close` | an error or an answer, passed on unread; a consultation carries what was configured |
| configuration and wiring (`internal/infra/config.go`, `internal/app`) | fixed at start | `LoadConfigFromEnv`, `New` | what the start accepts serves every request that follows |
| OAuth helper (`cmd/googleauth`) | two channels, a server, a file | callback, exchange, write the token | ends unless a handler is stuck; the old token goes only for a granted one |
| API server (`cmd/api`) | the listener, its write timeout | start, serve, stop | never starts with a broken token file; a stop costs no more than an explained duplicate |
| generated stubs, deployment files | none | - | - |

Interaction: the two handlers call the gatekeeper use case, which calls the task
use case, which calls Internal and then the calendar use case, which calls the
Google client; the LINE handler then calls the LINE client. All calls are
synchronous, in the goroutine of the HTTP handler. The only shared states are
the calendar and the token source. Apart from them stands the sign-in command,
which meets the server only in the token file it leaves: goroutines and channels
in one process, a crash in the middle of a write, a reader in another process.

Hard behaviours: concurrent updates and deletes of one event; effects applied
after the request gave up; answers lost after the effect; a context that ends
between two calls, so that not even the error can be replied; inclusive and
exclusive ends of intervals; texts trimmed by one layer and taken as they are by
the next; a refresh of the access token that ignores the deadline; a delivery that
LINE posts again because the process stopped, because LINE lost patience or because
the answer came after the write timeout; settings that one check accepts and a later
one looks at differently. The list with
its lines is in `PROJECT.json` under `hazards`.

## Modules

```
GoText                text and local time, as far as the program tells them apart
 └ CalendarService    validation, what Google is asked to write, mapping, overlap
    └ TaskUseCase     requests, the token, Google Calendar, interleaved
       ├ TaskRefinement        implements CalendarPromise (INSTANCE)
       ├ TaskUseCaseProofs     invariants proved
       │  └ TaskRefinementProofs   the refinement proved, and that listings are complete
       └ Gatekeeper (with MentionText)   webhook and REST above TaskUseCase
          ├ GatekeeperProofs   invariants of the handlers proved
          │  └ GatekeeperCountersProofs   the counters proved
          └ Redelivery         LINE's redeliveries, the clock, stops of the process
             └ DeliveryRefinement   implements DeliveryPromise (INSTANCE)
                └ RedeliveryProofs   its safety and both refinements proved; above
                                     TaskRefinementProofs too, so end to end
MentionText            the clean-up of a message, over runes
 └ MentionCleaning     one message on its way through the handler
    └ MentionTextProofs    the clean-up proved
OAuthFlow              the sign-in command, the token file, the server's start
 └ OAuthRefinement     implements SignInPromise (INSTANCE)
    └ OAuthFlowProofs  its safety properties and the refinement proved
Startup                configuration, wiring, and what a request meets of them
 └ StartupProofs       its invariants proved
MCTaskUseCase, MCGatekeeper, MCMentionText, MCRedelivery, MCOAuthFlow, MCStartup
                       small instances for TLC
```

**GoText.** A Go string is an opaque value; the program can only ask
`strings.TrimSpace` and `time.ParseInLocation` about it, so those two, and
`Time.Format`, are constants with assumptions (`TrimAssumption`,
`ParseAssumption`, `LocalAssumption`).

**CalendarService.** The pure code of `internal/task/service.go`,
`internal/calendar/service.go` and the Google client: `Refusal` is the order of
the checks that end a request before Google is called, `InsertedEvent` and
`PatchedEvent` what is written, `InWindow` the listing's 30-day margin,
`MapEvent` and `EndInstant` the way back to local text, `Overlaps` the filter,
`Reply` the end of an operation. An answer of Google's gives the times of an event in
one of four `Forms`, the branches of `eventDateTimeToLocalString`: both times; no start
or no end (nil, or nothing in it), which becomes an empty text and fails later, in the
filter (`FilterFails`) or the formatting (`ReplyWith`); a text that does not parse,
which fails the mapping at once (`MappingFails`). `ProviderAnswers` takes any of them
for each event. A result holds the set of its events: the
sorting and the wording of the reply are left out.

**TaskUseCase.** `pc[r]` is the place of a request's goroutine: `idle`,
`consult` (waiting for Internal), `token` (waiting for an access token),
`provider` (waiting for Google), `done`. `ConsultFails`, `AnswerRejected`,
`AnswerAccepted`, `TokenUsed`, `TokenUseless`, `ProviderAnswers`,
`ProviderFails` are its steps; each stands for everything the code does between
two remote calls. `ContextDone` may happen at any moment. Google is a party of
its own: `InsertApplied`, `DeleteApplied`, `PatchApplied`, `ListServed` take a
call that was sent and apply it at any later time, also after `ProviderFails`;
`GoogleRefuses` refuses it. `ProviderFails` is possible whether or not the call
was applied, which covers timeouts, broken connections and lost answers.

**CalendarPromise** is what a user may rely on, without any of that: a request
that is heard does at most one thing to the calendar, atomically, exactly the
thing asked; who is told "ok" is told what was seen at that moment; who is told
"error" is promised nothing. **TaskRefinement** gives the mapping: texts by
their trimmed form, times by the moment they name, an all-day event by its last
second. A request is heard when its call is sent, acts when Google applies it.

**MentionText** is `findBotMention` and `removeMentionText` over sequences of
runes. The index and the length of a mention are any ints, and their sum wraps
(`EndIndex`). The code checks the index against both ends of the text, and cuts the end
off at the text's; of an end before the index it knows nothing: such a mention gives the
runes in between a second time, or, when the end is negative, a slice that panics
(`Panic`). **MentionCleaning** sends one message through them and says what must be left
of it: `KeepsTheRest` asks for an order-preserving origin of every rune of the result
in the text (`Origins`), outside the bot's first mention, with only surrounding space
left out, unless the mention goes `Backwards`; `PanicsOnlyBackwards` says that no other
mention panics.

**Gatekeeper** adds the two handlers. The requests of `TaskUseCase` are the
slots `<<delivery, index>>` and the REST calls. A delivery is `idle`, in its
`loop`, waiting for the use case (`task`) or `answered`; `next` is the loop
variable and `processed`, `success`, `error` are the code's counters. After the
use case has returned there are three outcomes of the reply: `ReplyAccepted`,
`ReplyAnswerLost` (LINE has it, the handler does not know), `ReplyFails`.

**OAuthFlow** is `cmd/googleauth`. `main` is the place of the main goroutine, from
`start` over the `select` and the `exchange` to the deferred `Shutdown`
(`returning` until the port is closed, `draining` while it waits for handlers)
and `writeToken` (`write` opens and so empties the file, `encode` writes it).
`cb[c]` is a connection and its handler: the send on the channel is a step of its
own, which needs `Room`, and only after it is the browser answered. `serve` is
the goroutine of `server.Serve`. `took` is what the select took, `held` the code,
then its token (named alike), or the error. `Kill` stops the process anywhere,
`RunAgain` starts it afresh with the file as it was left, and the API server
reads that file whenever it starts. Not modelled: a read that overlaps a write.

**SignInPromise** is the same without callbacks, goroutines, channels or a timer: a run
waits, is granted a token or gives up, empties the file once it has one, and saves that
token or breaks off; a server serves with what it found in the file. The mapping of
**OAuthRefinement** needs `main` and `held` only: a run with an error in hand is over,
although its handlers may keep it from ending.

**Redelivery** puts the webhook of `Gatekeeper` under a clock and into a process that
may end. The server keeps no record of what it did, so an attempt on a batch is just
another delivery: `Deliveries` is `Batches \X (1..MaxAttempts)`. `line[d]` is what
LINE knows of an attempt: it is `waiting`, has heard a 200 (`acked`), an error or a
closed connection (`failed`), or has hung up (`gaveup`), which the handler, working on
`context.Background()`, does not notice. `PostAccepted` and `PostRefused` post a batch,
again only after a vain attempt. `Tick` lets time pass while every handler waits, within
the context of its event or, `Stuck` in a refresh of the access token, beyond it: the
client that refreshes was made with `context.Background()`, so nothing in the code ends
it. `stalled` remembers the attempts that were held that way, and each property about
time or acknowledgements names them (`HeldUp`). `age` counts from the header of the request, from which `net/http` sets the write
deadline; `spent` counts from the event's context, whose `TimerFires` at `Limit`
(30 seconds). `AnswerArrives` and `AnswerTooLate` are the write of the
acknowledgement before and after the deadline (at the deadline either may happen);
`WriteJSON` ignores the error. `Crash` ends the process with all its handlers
(`main` handles no signal), while `GoogleStep` goes on. The other steps are those of
`Gatekeeper` and `TaskUseCase` themselves.

**DeliveryPromise** is what LINE and the authors of messages may rely on, without
payloads, use case, contexts or clocks: an attempt takes the events meant for the bot
in order, one at a time, tells each author at most one thing, and is acknowledged after
the last; it fails only when it is refused, when the process stops, when its events
are so many that their limits add up to the patience of the connection, or when it was
`delayed` by something without a limit (`Hold`); LINE repeats what it sent, and only
after a vain attempt. **DeliveryRefinement** maps to it: of a
payload the positions of the accepted events (`ForBot`), of the loop variable which of
them are behind it (`Over`), of the clocks nothing but who is `stalled`. That for all
others the bound of a clock is enough is what the refinement has to show.

**Startup** is `LoadConfigFromEnv`, `New` and `main`: `place` is how far `main` has
come, `env` what the operator set, `config` what was made of it. `Dial`,
`OpenCalendar` and `BuildRoutes` are the three parts of `New`, `DialFails` and
`RefuseCalendar` its refusals, `Listen` and `ListenFails` the server's. The
credentials and the token file may change at any moment (`FilesChange`), and the
process may stop and start with another environment (`Stop`, `Start`).
`DeliveryMisses`, `DeliveryActs` and `RestCalled` are requests, seen only for what
they meet of the wiring: the route, the secret, the bot's id, the second check of the
calendar (`EnsureProviderConfigured`), the access token (`Reply`), and what goes to
Internal (`InternalCommand`, `LineTaskConsult` with the conversion of the builder id
to an int32). What becomes of a request is `Gatekeeper`'s business.

## Runs

| run | shows | bound, and why it is enough |
|---|---|---|
| `task` | the invariants and action properties of TaskUseCase, that it implements CalendarPromise, and that every request with a deadline returns | two requests (every property relates at most two), four ids (two exist, two can be given), eight moments; 13 extractions, each there for one check or one boundary: padded texts, inverted ranges, a range that touches an event's end, an all-day event's last second, unknown kinds; each answered event in each of the four forms; two initial calendars, four configurations; the window is 1 instead of 30 days; no symmetry, as liveness is checked |
| `gatekeeper` | the invariants of both handlers over the whole stack | one delivery of up to two events beside one REST call: two slots and a call are enough for an earlier event's late effect to meet a later event and a REST call; 9 payloads, one for each check |
| `gatekeeper_liveness` | accepted deliveries are acknowledged | one delivery |
| `mention_text` | the clean-up loses, moves and adds no rune outside the mention but surrounding space, and panics only on a mention that ends before the text or beyond an int | texts of up to three runes (a mention sign, a letter, a space); one mention with every index and length of an int, which is -5 to 4 (`MaxInt`), so that an end is in, at and behind the text, negative, and wraps; two mentions of two users at every index and length up to 3 |
| `oauth` | the sign-in command: the invariants, the action property, that it implements SignInPromise, and that it ends | three callbacks, the least that can wedge a command that already took a code; one code of its own and one of another's; two runs, so that a second one meets what the first left of the file |
| `redelivery` | the invariants about duplicates, acknowledgements (heard only for what was handled, and always when the events fit the write timeout and no token refresh holds one up), time and overlaps, that the webhook implements DeliveryPromise, and that every attempt settles | one batch of one or two events, posted at most twice (every property relates one attempt or two of one batch; batches meet only in the calendar, which `gatekeeper` covers); a tick is the whole time of an event and write timeouts are none, 1 and 2 ticks, so that a delivery fits, just fits or does not; a delivery ages up to 3 ticks (`MaxAge`), past every timeout and past the limits of all its events, which is all that the properties tell apart; a second attempt repeats a payload of one event or a refused one; the one extraction is an update |
| `startup` | what New let pass is enough later, LINE's values work, a consultation carries what was configured | 151 environments: the values of LINE, of the calendar, and of Internal and the server each in every combination of missing, blank, padded, unreadable and good; an int32 is 4 bits wide, with builder ids inside and outside; six ways a client is named |
| `redelivery_slow` | violated: a readable delivery is not acknowledged although its process lives and no token refresh held it up | two events of two ticks, a write timeout of three, ages up to five: the relation of eleven events of 30 seconds to the default of 5 minutes |
| `paging` | violated: a listing of more than one page loses events | a page of one event |
| `rest_deadline` | violated: a REST call has no deadline | one call |
| `token_refresh` | violated: the 30 s deadline does not reach a token refresh | one delivery |
| `own_messages` | violated: the bot's own messages are not ignored | as `gatekeeper` |

`MCMentionText` turns deadlock checking off: one step cleans one message and
nothing follows. Everywhere else a state without a step is an error; `Quiescent`
and `GateQuiescent` say when the server has nothing left to do.

`EndsUnlessWedged` and `WedgedOnlyWhenCrowded` together bound a weakness that no
document speaks of and that is therefore no finding: `Shutdown` has no deadline, so
a page reloaded twice while the code is exchanged leaves a handler stuck on
`codeCh`, and the command hangs with the granted token unsaved
(`cmd/googleauth/main.go:87`, `:96`). TLC reaches such states in the run `oauth`; the
invariant says that nothing less brings them about.

The five violated runs are findings, each against a sentence of the documentation
or a comment (see `findings`): `paging`, `token_refresh` and `redelivery_slow` are
bugs, the other two are differences between the deployment plan and the code. Two more
differences were met and are not runs: `TDD.md:127` says an update changes the
title only while the code, as `BDD.md:55` says, also writes a location that is
given; and `BDD.md:36` asks for concise error texts while the gRPC error reaches
the user in full (`internal/infra/errors.go:83`).

## Fairness

* `ContextDone` of a slot is fair: `context.WithTimeout(..., 30s)` fires. For a
  REST call it is not: its context ends when the client leaves. In
  `TaskUseCase` alone (`FairSpec`) every request has a deadline.
* `CtxReturns`: once the context has ended, the gRPC client and `net/http`
  return an error. Internal and the calendar need not ever answer.
* `TokenReturns` is an assumption about Google's token endpoint that the code
  does not enforce. It is kept apart (`TokenFairSpec`, `GateTokenFairSpec`), the
  passing liveness runs name it, and `token_refresh` shows what happens without.
* `WebStep`, `RestRespond`: the goroutine of a handler is scheduled; a reply
  ends because the LINE client has a timeout of 20 seconds.
* `Redelivery` (`RedeliveryFairSpec`): handlers are scheduled, time passes, a
  context's timer fires and what was called under it then returns. A refresh of the
  access token is taken to end at some time after that, however late, which Google and
  not the code sees to, as above; only `AttemptsSettle` rests on it. Nothing is assumed of LINE: it may wait for ever, and
  `AttemptsSettle` says that it need not.
* `Startup` states no fairness and has no liveness property: nothing obliges a
  process to be started or a request to come.
* `OAuthFlow`: the goroutines of the command run, its 5-minute timer fires, the
  exchange ends by its 30-second context, and `net/http`'s `Shutdown` closes a
  connection on which no request came. No browser need ever come.

## Proofs

For every number of requests, events, texts and moments that meet the named
assumptions.

* `TaskUseCaseProofs`: `IndInv` is `TypeOK` and `Stages`; `TypeOK` alone does
  not say what a late effect or a late answer finds, `Stages` ties the call, the
  extraction and the result of a request to its place. From it: `TypeCorrect`,
  `AdmissibleCalls`, `TimesKept`. `ServedInv` adds what
  Google served for each call and that a success was told from it, with the ids
  of created events all distinct; from it `TruthfulReports`, `LastingReports`,
  `QueriesInRange` and `FormatFailures`: a query's filter parses the times that the
  formatting parses again, so only a write, already made, can end in a failed format.
* `TaskRefinementProofs`: `Implements`, that `Spec` implements `KeepsPromise`,
  provided the candidates of every listing under way, those of its window, fit on one
  page (`[]ListingsFit`). The proviso is the bug the run `paging`
  shows. Each action maps to one step of the promise or to a stutter.
  `CompleteListings` is, under the same proviso, `ListsAllOverlapping`: the listing's
  window, a margin wider than what was asked, loses no event that overlaps it.
* `MentionTextProofs`: `AuthorsTextKept` is `KeepsTheRest` for texts and lists of
  mentions of any length, and ints of any width. The code joins what is before the mention to what is behind
  it and trims that, twice. `CutOut` gives each rune of the joined text its origin,
  `TrimSpaceTrims` shows that trimming keeps the interval between the least and the
  greatest position that is no space (both exist: `LeastExists`, by the order of the
  numbers, not by induction over a text), `TrimSpaceTwice` that trimming again changes
  nothing, `TrimmedPart` that origins compose, and `CleanedKeeps` puts them together.
  `PassedOverWhenEmpty`: nothing is left, and the handler passes the event over,
  exactly when the author wrote only space besides the mention (one that does not go
  backwards). `PanicsExplained` is `PanicsOnlyBackwards`.
* `GatekeeperProofs`: the handlers drive `TaskUseCase` as any caller does
  (`GateImplementsTask`), so that all of the above holds for requests that come
  through them. Two invariants are the handlers' own: `Places` says where a
  delivery can be (its index against its list, its counters against its index,
  its status against the screening of its payload) and is needed first, to know
  that the slot an event is handed to is a request; `LoopInv` ties that place to
  the requests of the slots: a started one is accepted, not ahead of the loop,
  finished if behind it, and what was told of it is what it returned; likewise
  for REST calls. With `IndInv` and `ServedInv` they make `GateInv`
  (`GateInvariance`), from which `GateTypes`, `OrderedEvents`, `TrueReplies`,
  `MentionsAct`, `CleanRefusals` and `RestSuccesses` follow.
* `GatekeeperCountersProofs`: `TrueCounters`. `Tally` counts the accepted
  events, and those whose authors were told a result, up to the loop's place;
  `AcceptedCount` and `ToldCount` say how those cardinalities change by one event.

* `OAuthFlowProofs`: `FlowInv` adds to the types what `main` holds at each place,
  that a message is on its own channel, and `Accounted`: on each channel, the
  handlers that were answered, and the report of `Serve`, are as many as the
  messages that lie there or were taken. From it `FlowTypes`, `OwnTokens`,
  `OldTokenKept` and `CrowdedWedges`, for any finite number of callbacks.
  `ImplementsSignIn`, that `Spec` implements `SignInPromise`, needs one invariant more,
  `Emptied`: the file is empty while the token is about to be written, so that a stop
  there leaves nothing but an empty or a partial file. Steps of the callbacks and of
  `Serve` are stutters; a step of the main goroutine that turns to an error gives up.

* `RedeliveryProofs`: `RedeliveryImplementsGate` first: each step of `Redelivery` is
  a step of `GateSpec` or a stutter, so that everything proved of `Gatekeeper` and
  `TaskUseCase` holds across stops and redeliveries. `RedeliveryInv` adds what LINE
  knows against the handler's place (`Knows`: who heard a 200 was answered, who heard
  a failure was refused, killed, or too late), the clock (`Clock`: the age of a
  delivery that was not `stalled` is at most the limits of its finished events and the
  time spent on the current one; only a stuck refresh is ever `stalled`) and the attempts on a batch (`Chain`: a later attempt has the earlier
  one's payload, and there is none after a 200). From it `RedeliveryTypes`,
  `BoundedLoops`, `ExplainedDuplicates`, `HandledWhenAcked`, `OverlapsGivenUp`, for
  any number of batches, attempts and events and any limit and timeouts.
  `FittingAcknowledged` (`AcknowledgedWhenItFits`) is `Knows` and `Clock` together: an
  answer is too late only when the limits of the events add up to the write timeout or a
  refresh stalled the delivery.
  `ImplementsDelivery`, that `RedeliverySpec` implements `DeliveryPromise`, uses them
  once more, for the guard of the promise's `LoseAnswer`; `WorkedOff` says that at
  the end of the list the handler's counter is the number of accepted events,
  `MeantAtWork` that this is the number of positions in the promise's `todo`.
  `PromiseThroughHandlers` and `PromiseAcrossStops` join the layers, as
  `RedeliverySpec` implements `GateSpec` and that implements `Spec`: `CalendarPromise`
  and `ListsAllOverlapping` hold for everybody who writes through LINE or REST, also
  when LINE repeats a delivery, an answer is late or the process ends (each attempt
  being a request of its own), under the proviso `[]ListingsFit` and no other.
* `StartupProofs`: `StartupInv` adds `Wired`, what is known at each place of `main`
  (the provider is there if the calendar is on, the client is made of the configured
  token, the webhook is routed if nothing is missing), and `Told`, that what the last
  request was told holds of the environment it met. From it `StartupTypes`,
  `CompleteServing`, `IssuedServe` and `ConfiguredConsults`, for every environment and
  every width of an int32; `Int32Range` is the arithmetic of the conversion.

`Places`, `LoopInv`, `IndInv` and `ServedInv` are inductive together; TLC finds
no violation of them on the instance of `gatekeeper` either.

Every safety property of a passing run is stated by a theorem. Only model-checked is
liveness (`EveryRequestReturns`, `EveryDeliveryAnswered`, `AttemptsSettle`,
`EndsUnlessWedged`): proofs under fairness need `ENABLED`, which is out of the
prover's reach. What `Implements` and its corollaries assume of the page, the run `paging` shows to be
needed.

## What is assumed of the outside

* Google never gives an id twice and refuses to patch or delete an event that
  is gone; it refuses an insertion that ends before it starts and a listing
  whose window is empty; `timeMin` bounds ends and `timeMax` starts, both
  exclusive; nobody else writes to the calendar while the properties are read. An answer
  may give an event's times, leave one out or spell it so that it does not parse; that
  an event given whole is the event as it is stored is assumed.
* Internal may answer anything: any operation, any texts. Its `missingFields`
  are not modelled because the code never reads them.
* LINE posts a batch again only after an attempt it did not hear a 200 of, with the
  same events, and may stop at any time (`Redelivery`; in `Gatekeeper` each delivery
  comes once). That a reply token is good for one reply is not used.
* The mentions LINE sends have lengths that are not negative and end within an int
  (`LineMentionee` in `Gatekeeper`), so that the clean-up does not panic there;
  `MentionCleaning` makes no such assumption and says what happens without.
* The token endpoint may take any time for an access token. In the safety properties
  and theorems nothing is assumed of it; what it can spoil they name (`HeldUp`,
  `stalled`).
* A process that ends leaves calls that were sent to Google: they may still be served.
* The access token LINE issued has no space around it, and none of the issued values
  is empty. Google's constructor is taken to fail on a file that cannot be read or
  parsed, and on nothing else.
* `LocalAssumption`: local text read back is the same moment. It holds in a zone
  without clock changes, as the default `Asia/Taipei`; in another zone it fails
  in one hour a year, which is listed as a hazard.
* An access token for Internal's gRPC endpoint on Cloud Run comes from the
  host's metadata server and is part of the consultation.

## Not modelled

* The order of a query's events and the lines of its reply text
  (`FormatEventsReply`): a result is the set of its events. The order is decided by
  a sort on start times of texts that were proved to parse, and nothing later depends
  on it; the wording of messages likewise.
* Clock changes (`LocalAssumption`): every property of the overlap would have to be
  stated twice, with and without the repeated hour, and the code makes no difference.
* The read timeout: a body that does not arrive is a delivery that is not `readable`.
* What replies say after a redelivery: LINE accepts one reply for a token, so the
  second attempt's reply fails, which `ReplyFails` covers without saying why.
* The generated stubs but for the request of the one call the program makes (they are
  accessors, and calls that the program never makes, present twice), deployment
  files and log lines.
