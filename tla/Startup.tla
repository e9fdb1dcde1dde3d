------------------------------- MODULE Startup -------------------------------
(***************************************************************************)
(* From the environment to a serving process: LoadConfigFromEnv, the       *)
(* wiring of the application in New, main, and what of it a request meets  *)
(* later: the routes, the secret, the access token, the bot's id, the      *)
(* calendar provider, and what a consultation of Internal carries.  The    *)
(* process may end at any moment and be started with another environment.  *)
(*                                                                         *)
(* A value of a variable is opaque; "" is an unset variable as well as an  *)
(* empty one, as for os.Getenv.                                            *)
(***************************************************************************)
EXTENDS Integers, Sequences

CONSTANTS
  Values,        \* the strings that occur in the environment and in headers
  Trim,          \* strings.TrimSpace
  Colon,         \* ":" put before a port
  AsInt,         \* strconv.Atoi
  AsBool,        \* strconv.ParseBool
  AsDuration,    \* time.ParseDuration, in seconds
  Unparseable,   \* what the three answer besides
  Half,          \* 2^31: an int32 is in -Half .. Half - 1
  Environments,  \* what an operator may set
  Issued,        \* what LINE issued for the channel: [secret, token, botUserId]
  Headers,       \* what names a client: [forwarded, realIp, remoteAddr]
  Asks           \* the optional fields of a REST body: [referenceTime, timeZone]

Environment ==
  [addr : Values, port : Values, grpcAddr : Values, grpcInsecure : Values,
   appId : Values, builderId : Values, calendarEnabled : Values,
   calendarId : Values, timeZone : Values, credentialsFile : Values,
   tokenFile : Values, writeTimeout : Values, channelSecret : Values,
   accessToken : Values, botUserId : Values]

(* The optional fields of the body of POST /api/tasks. *)
CreateTaskRequest == [referenceTime : Values, timeZone : Values]

ASSUME StartupAssumption ==
  /\ {"", ":8083", "localhost:9091", "linebot-app", "Asia/Taipei"} \subseteq Values
  /\ Trim \in [Values -> Values] /\ Trim[""] = ""
  /\ Colon \in [Values -> Values]
  /\ AsInt \in [Values -> Int \cup {Unparseable}]
  /\ AsBool \in [Values -> BOOLEAN \cup {Unparseable}]
  /\ AsDuration \in [Values -> Int \cup {Unparseable}]
  /\ Half \in Nat /\ Half > 4
  /\ Environments \subseteq Environment
  /\ Issued \in [secret : Values \ {""}, token : Values \ {""}, botUserId : Values \ {""}]
  /\ Trim[Issued.token] = Issued.token
  /\ Headers \subseteq [forwarded : Seq(Values) \ {<<>>}, realIp : Values, remoteAddr : Values]
  /\ Asks \subseteq CreateTaskRequest

-----------------------------------------------------------------------------
(* The configuration. *)

GetEnvWithDefault(value, default) == IF value = "" THEN default ELSE value

(* getEnvInt, getEnvBool, getEnvDuration: what cannot be read is not there. *)
ReadOrDefault(value, as, default) ==
  IF value = "" \/ as[value] = Unparseable THEN default ELSE as[value]

PortAddr(port, fallback) == IF port = "" THEN fallback ELSE Colon[port]

Config ==
  [addr : Values, grpcAddr : Values, grpcInsecure : BOOLEAN, appId : Values,
   builderId : Int, calendarEnabled : BOOLEAN, calendarId : Values,
   timeZone : Values, credentialsFile : Values, tokenFile : Values,
   writeTimeout : Int, channelSecret : Values, accessToken : Values,
   botUserId : Values]

LoadConfigFromEnv(e) ==
  [addr            |-> GetEnvWithDefault(e.addr, PortAddr(e.port, ":8083")),
   grpcAddr        |-> GetEnvWithDefault(e.grpcAddr, "localhost:9091"),
   grpcInsecure    |-> ReadOrDefault(e.grpcInsecure, AsBool, TRUE),
   appId           |-> GetEnvWithDefault(e.appId, "linebot-app"),
   builderId       |-> ReadOrDefault(e.builderId, AsInt, 4),
   calendarEnabled |-> ReadOrDefault(e.calendarEnabled, AsBool, FALSE),
   calendarId      |-> e.calendarId,
   timeZone        |-> GetEnvWithDefault(e.timeZone, "Asia/Taipei"),
   credentialsFile |-> e.credentialsFile,
   tokenFile       |-> e.tokenFile,
   writeTimeout    |-> ReadOrDefault(e.writeTimeout, AsDuration, 300),
   channelSecret   |-> e.channelSecret,
   accessToken     |-> e.accessToken,
   botUserId       |-> e.botUserId]

-----------------------------------------------------------------------------
VARIABLES
  place,        \* how far main has come
  env,          \* the environment the process was started with
  config,       \* cfg
  files,        \* which files can be read and parsed at this moment
  internal,     \* the connection to Internal
  provider,     \* googleCalendarProvider: nil, or made
  replyClient,  \* lineReplyClient: nil, or made with a trimmed token
  webhook,      \* POST /api/line/webhook is routed
  deadline,     \* the write timeout net/http keeps, 0 for none
  last          \* the request answered last

startupVars == <<place, env, config, files, internal, provider, replyClient,
                 webhook, deadline, last>>
wiring == <<env, config, internal, provider, replyClient, webhook, deadline>>

NoClient == [made |-> FALSE, token |-> ""]

ConsultRequest ==
  [appId : Values, builderId : -Half .. Half - 1, referenceTime : Values,
   timeZone : Values, clientIp : Values]

NoConsult == [appId |-> "", builderId |-> 0, referenceTime |-> "", timeZone |-> "",
              clientIp |-> ""]

NoRequest == [from |-> "none", secret |-> "", user |-> "", status |-> 0,
              consult |-> NoConsult, calendar |-> "none", reply |-> "none"]

Answer ==
  [from : {"none", "line", "rest"}, secret : Values, user : Values,
   status : {0, 200, 401, 404}, consult : ConsultRequest,
   calendar : {"none", "called", "GOOGLE_CALENDAR_NOT_CONFIGURED"},
   reply : {"none", "LINE_REPLY_NOT_CONFIGURED", "unsent", "refused", "sent"}]

StartupTypeOK ==
  /\ place \in {"off", "loaded", "dialled", "ready", "built", "serving", "exited"}
  /\ env \in Environments
  /\ config \in Config
  /\ files \subseteq Values
  /\ internal \in {"none", "open", "closed"}
  /\ provider \in BOOLEAN
  /\ replyClient \in [made : BOOLEAN, token : Values]
  /\ webhook \in BOOLEAN
  /\ deadline \in Nat
  /\ last \in Answer

StartupInit ==
  /\ place = "off"
  /\ env \in Environments
  /\ config = LoadConfigFromEnv(env)
  /\ files \in SUBSET {env.credentialsFile, env.tokenFile}
  /\ internal = "none" /\ provider = FALSE /\ replyClient = NoClient
  /\ webhook = FALSE /\ deadline = 0
  /\ last = NoRequest

-----------------------------------------------------------------------------
(* main and New. *)

Start(e) ==
  /\ place \in {"off", "exited"}
  /\ place' = "loaded" /\ env' = e /\ config' = LoadConfigFromEnv(e)
  /\ internal' = "none" /\ provider' = FALSE /\ replyClient' = NoClient
  /\ webhook' = FALSE /\ deadline' = 0 /\ last' = NoRequest
  /\ UNCHANGED files

(* grpc.NewClient only parses the address: Internal need not be there. *)
Dial ==
  /\ place = "loaded"
  /\ place' = "dialled" /\ internal' = "open"
  /\ UNCHANGED <<env, config, files, provider, replyClient, webhook, deadline, last>>

(* A bad address, or no identity to take an OIDC token from. *)
DialFails ==
  /\ place = "loaded"
  /\ place' = "exited"
  /\ UNCHANGED <<wiring, files, last>>

(* Mutant: the calendar id is not trimmed before it is looked at. *)
CalendarOpensUntrimmed ==
  /\ config.calendarId # ""
  /\ \A f \in {config.credentialsFile, config.tokenFile} : Trim[f] # "" /\ f \in files

(* The checks of NewGoogleCalendarClient, which contacts nobody. *)
CalendarOpens ==
  /\ Trim[config.calendarId] # ""
  /\ \A f \in {config.credentialsFile, config.tokenFile} : Trim[f] # "" /\ f \in files

OpenCalendar ==
  /\ place = "dialled"
  /\ config.calendarEnabled => CalendarOpens
  /\ place' = "ready" /\ provider' = config.calendarEnabled
  /\ UNCHANGED <<env, config, files, internal, replyClient, webhook, deadline, last>>

RefuseCalendar ==
  /\ place = "dialled"
  /\ config.calendarEnabled /\ ~CalendarOpens
  /\ place' = "exited" /\ internal' = "closed"
  /\ UNCHANGED <<env, config, files, provider, replyClient, webhook, deadline, last>>

(* Mutant: the header carries the access token as it stands. *)
NewLineMessagingClientUntrimmed(token) == [made |-> TRUE, token |-> token]

NewLineMessagingClient(token) == [made |-> TRUE, token |-> Trim[token]]

ReplyClient ==
  IF config.accessToken = "" THEN NoClient ELSE NewLineMessagingClient(config.accessToken)

(* The webhook is routed when none of its three values is missing. *)
BuildRoutes ==
  /\ place = "ready"
  /\ place' = "built"
  /\ replyClient' = ReplyClient
  /\ webhook' = (/\ config.channelSecret # "" /\ config.accessToken # ""
                 /\ config.botUserId # "")
  /\ UNCHANGED <<env, config, files, internal, provider, deadline, last>>

(* net/http takes a negative timeout for none. *)
Listen ==
  /\ place = "built"
  /\ place' = "serving"
  /\ deadline' = IF config.writeTimeout > 0 THEN config.writeTimeout ELSE 0
  /\ UNCHANGED <<env, config, files, internal, provider, replyClient, webhook, last>>

(* The address is taken or malformed: log.Fatalf, no deferred call runs. *)
ListenFails ==
  /\ place \in {"built", "serving"}
  /\ place' = "exited"
  /\ UNCHANGED <<wiring, files, last>>

(* A signal or a crash. *)
Stop ==
  /\ place \notin {"off", "exited"}
  /\ place' = "off"
  /\ UNCHANGED <<wiring, files, last>>

(* Files appear, break and disappear beside the process. *)
FilesChange ==
  /\ files' \in SUBSET {env.credentialsFile, env.tokenFile}
  /\ UNCHANGED <<wiring, place, last>>

-----------------------------------------------------------------------------
(* Requests. *)

(* "" without a comma is no header; else the first entry counts, trimmed. *)
ResolveClientIP(h) ==
  IF h.forwarded # <<"">> THEN Trim[Head(h.forwarded)]
  ELSE IF h.realIp # "" THEN Trim[h.realIp]
  ELSE h.remoteAddr

(* The conversion of an int to an int32. *)
Int32(n) == ((n + Half) % (2 * Half)) - Half

(* What a handler hands down: CreateTaskCommand, less the text. *)
CreateTaskCommand == [referenceTime : Values, timeZone : Values, clientIp : Values]

RestCommand(ask, h) ==
  [referenceTime |-> ask.referenceTime, timeZone |-> ask.timeZone,
   clientIp |-> ResolveClientIP(h)]

(* Mutant: a message from LINE is read in the zone of the calendar. *)
LineCommandInConfiguredZone(h) ==
  [referenceTime |-> "", timeZone |-> config.timeZone, clientIp |-> ResolveClientIP(h)]

(* Internal's own time and zone apply to a message from LINE. *)
LineCommand(h) ==
  [referenceTime |-> "", timeZone |-> "", clientIp |-> ResolveClientIP(h)]

(* What the task use case makes of it. *)
LineTaskConsultCommand ==
  [appId : Values, builderId : Int, referenceTime : Values, timeZone : Values,
   clientIp : Values]

InternalCommand(command) ==
  [appId |-> config.appId, builderId |-> config.builderId,
   referenceTime |-> command.referenceTime, timeZone |-> command.timeZone,
   clientIp |-> command.clientIp]

(* What the gRPC client sends. *)
LineTaskConsult(command) ==
  [InternalCommand(command) EXCEPT !.builderId = Int32(@)]

EnsureProviderConfigured ==
  config.calendarEnabled /\ provider /\ Trim[config.calendarId] # ""

(* What comes of a calendar task that Internal extracted in full. *)
Calendar == IF EnsureProviderConfigured THEN "called" ELSE "GOOGLE_CALENDAR_NOT_CONFIGURED"

(* LINE takes the reply of a client that has the token of the channel. *)
Reply ==
  IF ~replyClient.made THEN "LINE_REPLY_NOT_CONFIGURED"
  ELSE IF replyClient.token = "" THEN "unsent"
  ELSE IF replyClient.token # Issued.token THEN "refused"
  ELSE "sent"

(* Mutant: a bad signature is answered with 403. *)
DeliveryMissesForbidden(secret, user) ==
  /\ place = "serving"
  /\ \/ ~webhook
     \/ secret # config.channelSecret
     \/ user # config.botUserId
  /\ last' = [NoRequest EXCEPT !.from = "line", !.secret = secret, !.user = user,
                !.status = IF ~webhook THEN 404
                           ELSE IF secret # config.channelSecret THEN 403 ELSE 200]
  /\ UNCHANGED <<place, files, wiring>>

(* A delivery, signed with a secret, of a message that mentions a user. *)
DeliveryMisses(secret, user) ==
  /\ place = "serving"
  /\ \/ ~webhook
     \/ secret # config.channelSecret
     \/ user # config.botUserId
  /\ last' = [NoRequest EXCEPT !.from = "line", !.secret = secret, !.user = user,
                !.status = IF ~webhook THEN 404
                           ELSE IF secret # config.channelSecret THEN 401 ELSE 200]
  /\ UNCHANGED <<place, files, wiring>>

DeliveryActs(secret, user, h) ==
  /\ place = "serving"
  /\ webhook
  /\ secret = config.channelSecret
  /\ user = config.botUserId
  /\ last' = [from |-> "line", secret |-> secret, user |-> user, status |-> 200,
              consult |-> LineTaskConsult(LineCommand(h)), calendar |-> Calendar,
              reply |-> Reply]
  /\ UNCHANGED <<place, files, wiring>>

(* A REST call; its status is Gatekeeper's business. *)
RestCalled(ask, h) ==
  /\ place = "serving"
  /\ last' = [NoRequest EXCEPT !.from = "rest", !.consult = LineTaskConsult(RestCommand(ask, h)),
                               !.calendar = Calendar]
  /\ UNCHANGED <<place, files, wiring>>

-----------------------------------------------------------------------------
StartupNext ==
  \/ \E e \in Environments : Start(e)
  \/ Dial \/ DialFails
  \/ OpenCalendar \/ RefuseCalendar
  \/ BuildRoutes
  \/ Listen \/ ListenFails
  \/ Stop
  \/ FilesChange
  \/ \E s \in {Issued.secret, config.channelSecret}, u \in {Issued.botUserId, config.botUserId} :
       \/ DeliveryMisses(s, u)
       \/ \E h \in Headers : DeliveryActs(s, u, h)
  \/ \E a \in Asks, h \in Headers : RestCalled(a, h)

StartupSpec == StartupInit /\ [][StartupNext]_startupVars

-----------------------------------------------------------------------------
(* Properties. *)

(***************************************************************************)
(* What New let pass is enough for every request that reaches it later: a  *)
(* calendar that is switched on never turns out not to be configured, and  *)
(* a routed webhook always has a client to reply with.  The later checks   *)
(* (ensureProviderConfigured, the nil test of reply) look at other things  *)
(* than New did, and must still never fire.                                *)
(***************************************************************************)
ServingIsComplete ==
  /\ place = "serving" =>
       /\ internal = "open"
       /\ config.calendarEnabled => EnsureProviderConfigured
       /\ webhook => replyClient.made
  /\ last.reply # "LINE_REPLY_NOT_CONFIGURED"
  /\ last.calendar = "GOOGLE_CALENDAR_NOT_CONFIGURED" => ~config.calendarEnabled

(***************************************************************************)
(* Of a message that LINE signed with the secret it issued:                *)
(*   - with another secret in the environment it is not acted on, whoever  *)
(*     it mentions;                                                        *)
(*   - with another bot id in the environment it is not acted on when it   *)
(*     mentions the bot (one that mentions the user of that other id is);  *)
(*   - with the values LINE issued, the access token perhaps with space    *)
(*     around it, a mention of the bot is acted on and its reply accepted. *)
(***************************************************************************)
IssuedValuesServe ==
  last.from = "line" /\ last.secret = Issued.secret =>
    LET ofBot == last.user = Issued.botUserId
        ours == env.channelSecret = Issued.secret /\ env.botUserId = Issued.botUserId
        notActedOn == last.consult = NoConsult /\ last.calendar = "none" /\ last.reply = "none"
    IN /\ env.channelSecret # Issued.secret => notActedOn
       /\ ofBot /\ env.botUserId # Issued.botUserId => notActedOn
       /\ ofBot /\ ours /\ Trim[env.accessToken] = Issued.token =>
            last.consult # NoConsult /\ last.reply = "sent"

(***************************************************************************)
(* A consultation carries the operator's values, or the defaults where     *)
(* they are missing or unreadable.  A builder id is sent as written when   *)
(* it is an int32.  Only a REST client chooses a time or a zone.           *)
(***************************************************************************)
ConsultsAsConfigured ==
  last.consult # NoConsult =>
    LET c == last.consult
        id == IF env.builderId = "" \/ AsInt[env.builderId] = Unparseable
              THEN 4 ELSE AsInt[env.builderId]
    IN /\ c.appId = IF env.appId = "" THEN "linebot-app" ELSE env.appId
       /\ id \in -Half .. Half - 1 => c.builderId = id
       /\ last.from = "line" => c.referenceTime = "" /\ c.timeZone = ""

=============================================================================
