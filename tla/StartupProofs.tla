---------------------------- MODULE StartupProofs ----------------------------
(***************************************************************************)
(* Theorems about the start: for every environment, and files that change  *)
(* beside the process, what New let pass serves the requests that follow.  *)
(***************************************************************************)
EXTENDS Startup, TLAPS

(* What is known at each place main has come to. *)
Wired ==
  /\ config = LoadConfigFromEnv(env)
  /\ place \in {"dialled", "ready", "built", "serving"} => internal = "open"
  /\ place \in {"ready", "built", "serving"} =>
       /\ provider = config.calendarEnabled
       /\ config.calendarEnabled => Trim[config.calendarId] # ""
  /\ place \in {"built", "serving"} =>
       /\ replyClient = ReplyClient
       /\ webhook <=> (/\ config.channelSecret # "" /\ config.accessToken # ""
                       /\ config.botUserId # "")

(* What was told of the last request holds of the environment it met. *)
Told ==
  /\ last.reply # "LINE_REPLY_NOT_CONFIGURED"
  /\ last.calendar = "GOOGLE_CALENDAR_NOT_CONFIGURED" => ~config.calendarEnabled
  /\ IssuedValuesServe
  /\ ConsultsAsConfigured

StartupInv == StartupTypeOK /\ Wired /\ Told

USE DEF GetEnvWithDefault, ReadOrDefault

-----------------------------------------------------------------------------
(* Reading the environment. *)

(* The environment of a process is one of strings. *)
LEMMA EnvFields ==
  ASSUME NEW e \in Environments
  PROVE  /\ e.addr \in Values /\ e.port \in Values /\ e.grpcAddr \in Values
         /\ e.grpcInsecure \in Values /\ e.appId \in Values /\ e.builderId \in Values
         /\ e.calendarEnabled \in Values /\ e.calendarId \in Values
         /\ e.timeZone \in Values /\ e.credentialsFile \in Values
         /\ e.tokenFile \in Values /\ e.writeTimeout \in Values
         /\ e.channelSecret \in Values /\ e.accessToken \in Values
         /\ e.botUserId \in Values
<1>1. e \in Environment
  BY StartupAssumption
<1> QED
  BY <1>1 DEF Environment

(* What is read has the type of its field, whatever was written. *)
LEMMA Readings ==
  ASSUME NEW v \in Values
  PROVE  /\ \A d \in Int : ReadOrDefault(v, AsInt, d) \in Int
         /\ \A d \in Int : ReadOrDefault(v, AsDuration, d) \in Int
         /\ \A d \in BOOLEAN : ReadOrDefault(v, AsBool, d) \in BOOLEAN
<1>1. /\ AsInt[v] \in Int \cup {Unparseable} /\ AsDuration[v] \in Int \cup {Unparseable}
      /\ AsBool[v] \in BOOLEAN \cup {Unparseable}
  BY StartupAssumption
<1> QED
  BY <1>1

(* Every environment makes a configuration. *)
LEMMA ConfigTyped ==
  ASSUME NEW e \in Environments
  PROVE  LoadConfigFromEnv(e) \in Config
<1>1. /\ \A d \in Values : /\ GetEnvWithDefault(e.grpcAddr, d) \in Values
                           /\ GetEnvWithDefault(e.appId, d) \in Values
                           /\ GetEnvWithDefault(e.timeZone, d) \in Values
                           /\ GetEnvWithDefault(e.addr, d) \in Values
                           /\ PortAddr(e.port, d) \in Values
  BY EnvFields, StartupAssumption DEF PortAddr
<1>2. /\ ReadOrDefault(e.builderId, AsInt, 4) \in Int
      /\ ReadOrDefault(e.writeTimeout, AsDuration, 300) \in Int
      /\ ReadOrDefault(e.grpcInsecure, AsBool, TRUE) \in BOOLEAN
      /\ ReadOrDefault(e.calendarEnabled, AsBool, FALSE) \in BOOLEAN
  <2> HIDE DEF ReadOrDefault, GetEnvWithDefault
  <2>1. /\ e.builderId \in Values /\ e.writeTimeout \in Values
        /\ e.grpcInsecure \in Values /\ e.calendarEnabled \in Values
    BY EnvFields
  <2>2. 4 \in Int /\ 300 \in Int
    OBVIOUS
  <2>3. /\ \A d \in Int : ReadOrDefault(e.builderId, AsInt, d) \in Int
        /\ \A d \in Int : ReadOrDefault(e.writeTimeout, AsDuration, d) \in Int
    BY <2>1, Readings, Zenon
  <2>4. /\ ReadOrDefault(e.grpcInsecure, AsBool, TRUE) \in BOOLEAN
        /\ ReadOrDefault(e.calendarEnabled, AsBool, FALSE) \in BOOLEAN
    BY <2>1, Readings, Zenon
  <2>5. /\ ReadOrDefault(e.builderId, AsInt, 4) \in Int
        /\ ReadOrDefault(e.writeTimeout, AsDuration, 300) \in Int
    BY <2>2, <2>3
  <2> QED
    BY <2>4, <2>5
<1>3. {":8083", "localhost:9091", "linebot-app", "Asia/Taipei"} \subseteq Values
  BY StartupAssumption
<1> HIDE DEF GetEnvWithDefault, ReadOrDefault
<1>4. /\ GetEnvWithDefault(e.addr, PortAddr(e.port, ":8083")) \in Values
      /\ GetEnvWithDefault(e.grpcAddr, "localhost:9091") \in Values
      /\ GetEnvWithDefault(e.appId, "linebot-app") \in Values
      /\ GetEnvWithDefault(e.timeZone, "Asia/Taipei") \in Values
  BY <1>1, <1>3, Zenon
<1>5. /\ e.calendarId \in Values /\ e.credentialsFile \in Values /\ e.tokenFile \in Values
      /\ e.channelSecret \in Values /\ e.accessToken \in Values /\ e.botUserId \in Values
  BY EnvFields
<1> QED
  BY <1>2, <1>4, <1>5 DEF LoadConfigFromEnv, Config

(* The fields a later proof looks at, as they were set. *)
LEMMA ConfigSet ==
  ASSUME NEW e
  PROVE  /\ LoadConfigFromEnv(e).channelSecret = e.channelSecret
         /\ LoadConfigFromEnv(e).accessToken = e.accessToken
         /\ LoadConfigFromEnv(e).botUserId = e.botUserId
         /\ LoadConfigFromEnv(e).appId = GetEnvWithDefault(e.appId, "linebot-app")
         /\ LoadConfigFromEnv(e).builderId = ReadOrDefault(e.builderId, AsInt, 4)
BY DEF LoadConfigFromEnv

(* The conversion to an int32 stays in its range and keeps what is in it. *)
LEMMA Int32Range ==
  ASSUME NEW n \in Int
  PROVE  /\ Int32(n) \in -Half .. Half - 1
         /\ n \in -Half .. Half - 1 => Int32(n) = n
<1> DEFINE w == 2 * Half
           m == n + Half
<1>0. Half \in Nat /\ Half > 4
  BY StartupAssumption
<1>1. w \in Nat /\ w > 0 /\ m \in Int /\ Half \in Nat /\ w = 2 * Half
  BY <1>0
<1> HIDE DEF w, m
<1>2. m % w \in 0 .. w - 1
  BY <1>1
<1>3. m \in 0 .. w - 1 => m % w = m
  BY <1>1
<1>4. Int32(n) = (m % w) - Half
  BY DEF Int32, w, m
<1>5. m = n + Half
  BY DEF m
<1> QED
  BY <1>1, <1>2, <1>3, <1>4, <1>5

(* What a client is known by is a string. *)
LEMMA ClientTyped ==
  ASSUME NEW h \in Headers
  PROVE  ResolveClientIP(h) \in Values
<1>1. h.forwarded \in Seq(Values) \ {<<>>} /\ h.realIp \in Values /\ h.remoteAddr \in Values
  BY StartupAssumption
<1>2. \A v \in Values : Trim[v] \in Values
  BY StartupAssumption
<1>3. Head(h.forwarded) \in Values
  BY <1>1
<1> QED
  BY <1>1, <1>2, <1>3, Zenon DEF ResolveClientIP

(* Both handlers make a command. *)
LEMMA CommandTyped ==
  ASSUME NEW h \in Headers
  PROVE  /\ LineCommand(h) \in CreateTaskCommand
         /\ \A a \in Asks : RestCommand(a, h) \in CreateTaskCommand
<1>1. "" \in Values /\ \A a \in Asks : a.referenceTime \in Values /\ a.timeZone \in Values
  BY StartupAssumption DEF CreateTaskRequest
<1> QED
  BY <1>1, ClientTyped DEF LineCommand, RestCommand, CreateTaskCommand

(* The use case carries it on with what is configured. *)
LEMMA InternalTyped ==
  ASSUME StartupTypeOK, NEW m \in CreateTaskCommand
  PROVE  /\ InternalCommand(m) \in LineTaskConsultCommand
         /\ InternalCommand(m).appId = config.appId
         /\ InternalCommand(m).builderId = config.builderId
<1>1. config.appId \in Values /\ config.builderId \in Int
  BY DEF StartupTypeOK, Config
<1> QED
  BY <1>1 DEF InternalCommand, LineTaskConsultCommand, CreateTaskCommand

(* A consultation has the type of its message. *)
LEMMA ConsultTyped ==
  ASSUME StartupTypeOK, NEW m \in CreateTaskCommand
  PROVE  /\ LineTaskConsult(m) \in ConsultRequest
         /\ LineTaskConsult(m).appId = config.appId
         /\ LineTaskConsult(m).builderId = Int32(config.builderId)
         /\ LineTaskConsult(m).referenceTime = m.referenceTime
         /\ LineTaskConsult(m).timeZone = m.timeZone
<1> DEFINE b == Int32(config.builderId)
           Range32 == -Half .. Half - 1
<1>1. config.appId \in Values /\ config.builderId \in Int
  BY DEF StartupTypeOK, Config
<1>2. b \in Range32
  BY <1>1, Int32Range
<1>3. LineTaskConsult(m) = [InternalCommand(m) EXCEPT !.builderId = b]
  BY DEF LineTaskConsult, InternalCommand
<1> HIDE DEF b, Range32
<1>4. LineTaskConsult(m) =
        [appId |-> config.appId, builderId |-> b, referenceTime |-> m.referenceTime,
         timeZone |-> m.timeZone, clientIp |-> m.clientIp]
  BY <1>3 DEF InternalCommand
<1>5. LineTaskConsult(m) \in [appId : Values, builderId : Range32, referenceTime : Values,
                              timeZone : Values, clientIp : Values]
  BY <1>1, <1>2, <1>4 DEF CreateTaskCommand
<1>6. LineTaskConsult(m) \in ConsultRequest
  BY <1>5 DEF ConsultRequest, Range32
<1> QED
  BY <1>4, <1>6 DEF b

(* No request yet, and none answered, is an answer. *)
LEMMA NoneTyped == NoRequest \in Answer /\ NoConsult \in ConsultRequest
<1>1. "" \in Values
  BY StartupAssumption
<1>0. 0 \in -Half .. Half - 1
  <2>1. Half \in Nat /\ Half > 4
    BY StartupAssumption
  <2> QED
    BY <2>1
<1>2. NoConsult \in ConsultRequest
  <2> DEFINE Range32 == -Half .. Half - 1
  <2>1. 0 \in Range32
    BY <1>0
  <2> HIDE DEF Range32
  <2>2. NoConsult \in [appId : Values, builderId : Range32, referenceTime : Values,
                      timeZone : Values, clientIp : Values]
    BY <1>1, <2>1 DEF NoConsult
  <2> QED
    BY <2>2 DEF ConsultRequest, Range32
<1> QED
  BY <1>1, <1>2 DEF NoRequest, Answer

(* LINE issued something, and the token without space around it. *)
LEMMA IssuedFacts ==
  /\ Issued.secret # "" /\ Issued.token # "" /\ Issued.botUserId # ""
  /\ Trim[""] = ""
  /\ \A v \in Values : Trim[v] \in Values
BY StartupAssumption

-----------------------------------------------------------------------------
(* The initial states, and the steps that answer no request. *)

(* Nothing is told before the first request. *)
LEMMA NothingTold ==
  ASSUME last = NoRequest
  PROVE  Told
BY DEF NoRequest, Told, IssuedValuesServe, ConsultsAsConfigured

LEMMA StartupInitInv == StartupInit => StartupInv
<1> SUFFICES ASSUME StartupInit
             PROVE  StartupInv
  OBVIOUS
<1>1. config \in Config
  BY ConfigTyped DEF StartupInit
<1>2. files \subseteq Values
  BY EnvFields DEF StartupInit
<1>3. last \in Answer /\ last = NoRequest
  BY NoneTyped DEF StartupInit
<1>4. replyClient \in [made : BOOLEAN, token : Values]
  BY StartupAssumption DEF StartupInit, NoClient
<1>5. StartupTypeOK
  BY <1>1, <1>2, <1>3, <1>4 DEF StartupInit, StartupTypeOK
<1>6. Wired
  BY DEF StartupInit, Wired
<1> QED
  BY <1>3, <1>5, <1>6, NothingTold DEF StartupInv

(* A start forgets everything of the process before. *)
LEMMA StartStep ==
  ASSUME StartupInv, NEW e \in Environments, Start(e)
  PROVE  StartupInv'
<1>1. config' \in Config
  BY ConfigTyped DEF Start
<1>2. last' \in Answer /\ last' = NoRequest
  BY NoneTyped DEF Start
<1>3. replyClient' \in [made : BOOLEAN, token : Values]
  BY StartupAssumption DEF Start, NoClient
<1>4. StartupTypeOK'
  BY <1>1, <1>2, <1>3 DEF StartupInv, StartupTypeOK, Start
<1>5. Wired'
  BY DEF Start, Wired
<1>6. Told'
  BY <1>2 DEF NoRequest, Told, IssuedValuesServe, ConsultsAsConfigured
<1> QED
  BY <1>4, <1>5, <1>6 DEF StartupInv

(* What was told stays true while environment and configuration stand. *)
LEMMA ToldStands ==
  ASSUME Told, UNCHANGED <<env, config, last>>
  PROVE  Told'
BY DEF Told, IssuedValuesServe, ConsultsAsConfigured

LEMMA DialStep ==
  ASSUME StartupInv, Dial \/ DialFails
  PROVE  StartupInv'
<1> USE DEF StartupInv
<1>1. UNCHANGED <<env, config, last>>
  BY DEF Dial, DialFails, wiring
<1>2. StartupTypeOK'
  BY DEF StartupTypeOK, Dial, DialFails, wiring
<1>3. Wired'
  BY DEF Wired, Dial, DialFails, wiring
<1> QED
  BY <1>1, <1>2, <1>3, ToldStands

(* A calendar that is switched on is there, or New fails. *)
LEMMA CalendarStep ==
  ASSUME StartupInv, OpenCalendar \/ RefuseCalendar
  PROVE  StartupInv'
<1> USE DEF StartupInv
<1>1. UNCHANGED <<env, config, last>>
  BY DEF OpenCalendar, RefuseCalendar
<1>2. StartupTypeOK'
  <2>1. config.calendarEnabled \in BOOLEAN
    BY DEF StartupTypeOK, Config
  <2> QED
    BY <2>1 DEF StartupTypeOK, OpenCalendar, RefuseCalendar
<1>3. Wired'
  BY DEF Wired, OpenCalendar, RefuseCalendar, CalendarOpens
<1> QED
  BY <1>1, <1>2, <1>3, ToldStands

(* The client is made of the access token that was configured. *)
LEMMA RoutesStep ==
  ASSUME StartupInv, BuildRoutes
  PROVE  StartupInv'
<1> USE DEF StartupInv
<1>1. UNCHANGED <<env, config, last>>
  BY DEF BuildRoutes
<1>2. ReplyClient \in [made : BOOLEAN, token : Values]
  <2>1. config.accessToken \in Values /\ "" \in Values
    BY StartupAssumption DEF StartupTypeOK, Config
  <2> QED
    BY <2>1, IssuedFacts DEF ReplyClient, NoClient, NewLineMessagingClient
<1>3. StartupTypeOK'
  BY <1>2 DEF StartupTypeOK, BuildRoutes
<1>4. ReplyClient' = ReplyClient
  BY <1>1 DEF ReplyClient, NewLineMessagingClient, NoClient
<1>5. Wired'
  BY <1>4 DEF Wired, BuildRoutes
<1> QED
  BY <1>1, <1>3, <1>5, ToldStands

LEMMA ListenStep ==
  ASSUME StartupInv, Listen \/ ListenFails \/ Stop \/ FilesChange
  PROVE  StartupInv'
<1> USE DEF StartupInv
<1>1. UNCHANGED <<env, config, internal, provider, replyClient, webhook, last>>
  BY DEF Listen, ListenFails, Stop, FilesChange, wiring
<1>2. files' \subseteq Values
  <2>1. env \in Environments
    BY DEF StartupTypeOK
  <2> QED
    BY <2>1, EnvFields DEF StartupTypeOK, Listen, ListenFails, Stop, FilesChange
<1>3. deadline' \in Nat
  <2>1. config.writeTimeout \in Int
    BY DEF StartupTypeOK, Config
  <2> QED
    BY <2>1 DEF StartupTypeOK, Listen, ListenFails, Stop, FilesChange, wiring
<1>4. /\ place' \in {place, "serving", "exited", "off"}
      /\ place' = "serving" => place \in {"built", "serving"}
  BY DEF Listen, ListenFails, Stop, FilesChange
<1>5. place' \in {"dialled", "ready", "built"} => place' = place
  BY <1>4
<1>6. StartupTypeOK'
  BY <1>1, <1>2, <1>3, <1>4 DEF StartupTypeOK
<1>7. ReplyClient' = ReplyClient /\ LoadConfigFromEnv(env)' = LoadConfigFromEnv(env)
  BY <1>1 DEF ReplyClient, NewLineMessagingClient, LoadConfigFromEnv
<1>8. Wired'
  BY <1>1, <1>4, <1>5, <1>7 DEF Wired
<1> QED
  BY <1>1, <1>6, <1>8, ToldStands

-----------------------------------------------------------------------------
(* The steps that answer a request. *)

(* A request leaves the wiring as it is. *)
LEMMA WiringStands ==
  ASSUME StartupInv, last' \in Answer, UNCHANGED <<place, files, wiring>>
  PROVE  StartupTypeOK' /\ Wired'
<1> USE DEF StartupInv, wiring
<1>1. StartupTypeOK'
  BY DEF StartupTypeOK
<1>2. ReplyClient' = ReplyClient /\ LoadConfigFromEnv(env)' = LoadConfigFromEnv(env)
  BY DEF ReplyClient, NewLineMessagingClient, LoadConfigFromEnv
<1>3. Wired'
  BY <1>2 DEF Wired
<1> QED
  BY <1>1, <1>3

(* What a serving process knows of its values. *)
LEMMA Serving ==
  ASSUME StartupInv, place = "serving"
  PROVE  /\ config.channelSecret = env.channelSecret
         /\ config.accessToken = env.accessToken
         /\ config.botUserId = env.botUserId
         /\ config.appId = GetEnvWithDefault(env.appId, "linebot-app")
         /\ config.builderId = ReadOrDefault(env.builderId, AsInt, 4)
         /\ webhook => replyClient.made /\ replyClient.token = Trim[env.accessToken]
         /\ webhook <=> (/\ env.channelSecret # "" /\ env.accessToken # ""
                         /\ env.botUserId # "")
<1>1. config = LoadConfigFromEnv(env)
  BY DEF StartupInv, Wired
<1>2. /\ config.channelSecret = env.channelSecret /\ config.accessToken = env.accessToken
      /\ config.botUserId = env.botUserId
      /\ config.appId = GetEnvWithDefault(env.appId, "linebot-app")
      /\ config.builderId = ReadOrDefault(env.builderId, AsInt, 4)
  BY <1>1, ConfigSet
<1>3. /\ replyClient = ReplyClient
      /\ webhook <=> (/\ config.channelSecret # "" /\ config.accessToken # ""
                      /\ config.botUserId # "")
  BY DEF StartupInv, Wired
<1>4. ASSUME webhook
      PROVE  replyClient.made /\ replyClient.token = Trim[env.accessToken]
  <2>1. config.accessToken # ""
    BY <1>3, <1>4
  <2>2. replyClient = [made |-> TRUE, token |-> Trim[config.accessToken]]
    BY <1>3, <2>1 DEF ReplyClient, NewLineMessagingClient
  <2> QED
    BY <1>2, <2>2
<1> QED
  BY <1>2, <1>3, <1>4

(* The calendar is called whenever it is switched on. *)
LEMMA CalendarCalled ==
  ASSUME StartupInv, place = "serving"
  PROVE  /\ Calendar = "GOOGLE_CALENDAR_NOT_CONFIGURED" => ~config.calendarEnabled
         /\ Calendar \in {"called", "GOOGLE_CALENDAR_NOT_CONFIGURED"}
BY DEF StartupInv, Wired, Calendar, EnsureProviderConfigured

(* What a request carries is what was configured. *)
LEMMA Carried ==
  ASSUME StartupInv, place = "serving", NEW m \in CreateTaskCommand
  PROVE  LET c == LineTaskConsult(m)
             id == IF env.builderId = "" \/ AsInt[env.builderId] = Unparseable
                   THEN 4 ELSE AsInt[env.builderId]
         IN /\ c.appId = IF env.appId = "" THEN "linebot-app" ELSE env.appId
            /\ id \in -Half .. Half - 1 => c.builderId = id
            /\ c.referenceTime = m.referenceTime
            /\ c.timeZone = m.timeZone
<1> DEFINE c == LineTaskConsult(m)
           id == IF env.builderId = "" \/ AsInt[env.builderId] = Unparseable
                 THEN 4 ELSE AsInt[env.builderId]
<1>1. /\ c.appId = config.appId /\ c.builderId = Int32(config.builderId)
      /\ c.referenceTime = m.referenceTime /\ c.timeZone = m.timeZone
  BY ConsultTyped DEF StartupInv
<1>2. config.builderId = id /\ config.builderId \in Int
  <2>1. config.builderId \in Int
    BY DEF StartupInv, StartupTypeOK, Config
  <2> QED
    BY <2>1, Serving
<1>3. config.appId = IF env.appId = "" THEN "linebot-app" ELSE env.appId
  BY Serving
<1>4. id \in -Half .. Half - 1 => Int32(config.builderId) = id
  BY <1>2, Int32Range
<1> HIDE DEF c, id
<1>5. /\ c.appId = IF env.appId = "" THEN "linebot-app" ELSE env.appId
      /\ id \in -Half .. Half - 1 => c.builderId = id
      /\ c.referenceTime = m.referenceTime
      /\ c.timeZone = m.timeZone
  BY <1>1, <1>3, <1>4
<1> QED
  BY <1>5 DEF c, id

LEMMA MissesStep ==
  ASSUME StartupInv, NEW s \in Values, NEW u \in Values, DeliveryMisses(s, u)
  PROVE  StartupInv'
<1> DEFINE st == IF ~webhook THEN 404 ELSE IF s # config.channelSecret THEN 401 ELSE 200
<1>1. st \in {0, 200, 401, 404}
  OBVIOUS
<1>2. /\ last' = [NoRequest EXCEPT !.from = "line", !.secret = s, !.user = u, !.status = st]
      /\ UNCHANGED <<place, files, wiring>> /\ place = "serving"
  BY DEF DeliveryMisses
<1>3. ~webhook \/ s # config.channelSecret \/ u # config.botUserId
  BY DEF DeliveryMisses
<1> HIDE DEF st
<1>4. last' = [from |-> "line", secret |-> s, user |-> u, status |-> st,
               consult |-> NoConsult, calendar |-> "none", reply |-> "none"]
  BY <1>2 DEF NoRequest
<1>5. last' \in Answer
  BY <1>1, <1>4, NoneTyped DEF Answer
<1>6. StartupTypeOK' /\ Wired'
  BY <1>2, <1>5, WiringStands
<1>7. env' = env
  BY <1>2 DEF wiring
<1>8. IssuedValuesServe'
  <2>1. ASSUME s = Issued.secret, u = Issued.botUserId,
               env.channelSecret = Issued.secret, env.botUserId = Issued.botUserId,
               Trim[env.accessToken] = Issued.token
        PROVE  FALSE
    <3>1. env.channelSecret # "" /\ env.accessToken # "" /\ env.botUserId # ""
      BY <2>1, IssuedFacts
    <3>2. webhook /\ s = config.channelSecret /\ u = config.botUserId
      BY <1>2, <2>1, <3>1, Serving
    <3> QED
      BY <1>3, <3>2
  <2>2. /\ last'.consult = NoConsult /\ last'.calendar = "none" /\ last'.reply = "none"
        /\ last'.secret = s /\ last'.user = u
    BY <1>4
  <2> QED
    BY <1>7, <2>1, <2>2 DEF IssuedValuesServe
<1>9. ConsultsAsConfigured'
  <2>1. last'.consult = NoConsult
    BY <1>4
  <2> QED
    BY <2>1 DEF ConsultsAsConfigured
<1>10. last'.reply # "LINE_REPLY_NOT_CONFIGURED"
       /\ last'.calendar # "GOOGLE_CALENDAR_NOT_CONFIGURED"
  BY <1>4
<1> QED
  BY <1>6, <1>8, <1>9, <1>10 DEF StartupInv, Told

LEMMA ActsStep ==
  ASSUME StartupInv, NEW s \in Values, NEW u \in Values, NEW h \in Headers,
         DeliveryActs(s, u, h)
  PROVE  StartupInv'
<1> DEFINE c == LineTaskConsult(LineCommand(h))
<1>1. /\ last' = [from |-> "line", secret |-> s, user |-> u, status |-> 200,
                  consult |-> c, calendar |-> Calendar, reply |-> Reply]
      /\ UNCHANGED <<place, files, wiring>> /\ place = "serving"
      /\ webhook /\ s = config.channelSecret /\ u = config.botUserId
  BY DEF DeliveryActs
<1>2. /\ LineCommand(h) \in CreateTaskCommand
      /\ LineCommand(h).referenceTime = "" /\ LineCommand(h).timeZone = ""
  BY CommandTyped DEF LineCommand
<1>3. c \in ConsultRequest
  BY <1>2, ConsultTyped DEF StartupInv
<1>4. LET id == IF env.builderId = "" \/ AsInt[env.builderId] = Unparseable
                THEN 4 ELSE AsInt[env.builderId]
      IN /\ c.appId = IF env.appId = "" THEN "linebot-app" ELSE env.appId
         /\ id \in -Half .. Half - 1 => c.builderId = id
         /\ c.referenceTime = "" /\ c.timeZone = ""
  BY <1>1, <1>2, Carried
<1> HIDE DEF c
<1>5. /\ config.channelSecret = env.channelSecret
      /\ config.botUserId = env.botUserId
      /\ replyClient.made /\ replyClient.token = Trim[env.accessToken]
  BY <1>1, Serving
<1>6. Reply \in {"LINE_REPLY_NOT_CONFIGURED", "unsent", "refused", "sent"}
      /\ Reply # "LINE_REPLY_NOT_CONFIGURED"
  BY <1>5 DEF Reply
<1>7. last' \in Answer
  BY <1>1, <1>3, <1>6, CalendarCalled DEF Answer
<1>8. StartupTypeOK' /\ Wired'
  BY <1>1, <1>7, WiringStands
<1>9. env' = env /\ config' = config
  BY <1>1 DEF wiring
<1>10. IssuedValuesServe'
  <2>1. ASSUME Trim[env.accessToken] = Issued.token
        PROVE  Reply = "sent"
    BY <1>5, <2>1, IssuedFacts DEF Reply
  <2>2. /\ last'.secret = env.channelSecret /\ last'.user = env.botUserId
        /\ last'.reply = Reply /\ last'.consult = c
    BY <1>1, <1>5
  <2>3. c # NoConsult
    <3>1. c.appId = IF env.appId = "" THEN "linebot-app" ELSE env.appId
      BY <1>4
    <3>2. c.appId # ""
      BY <3>1
    <3>3. NoConsult.appId = ""
      BY DEF NoConsult
    <3> QED
      BY <3>2, <3>3
  <2> QED
    BY <1>9, <2>1, <2>2, <2>3 DEF IssuedValuesServe
<1>11. ConsultsAsConfigured'
  <2>1. last'.consult = c /\ last'.from = "line"
    BY <1>1
  <2> QED
    BY <1>4, <1>9, <2>1 DEF ConsultsAsConfigured
<1>12. /\ last'.reply # "LINE_REPLY_NOT_CONFIGURED"
       /\ last'.calendar = "GOOGLE_CALENDAR_NOT_CONFIGURED" => ~config'.calendarEnabled
  BY <1>1, <1>6, <1>9, CalendarCalled
<1> QED
  BY <1>8, <1>10, <1>11, <1>12 DEF StartupInv, Told

LEMMA RestStep ==
  ASSUME StartupInv, NEW a \in Asks, NEW h \in Headers, RestCalled(a, h)
  PROVE  StartupInv'
<1> DEFINE c == LineTaskConsult(RestCommand(a, h))
<1>1. /\ last' = [NoRequest EXCEPT !.from = "rest", !.consult = c, !.calendar = Calendar]
      /\ UNCHANGED <<place, files, wiring>> /\ place = "serving"
  BY DEF RestCalled
<1>2. RestCommand(a, h) \in CreateTaskCommand
  BY CommandTyped
<1>3. c \in ConsultRequest
  BY <1>2, ConsultTyped DEF StartupInv
<1>4. LET id == IF env.builderId = "" \/ AsInt[env.builderId] = Unparseable
                THEN 4 ELSE AsInt[env.builderId]
      IN /\ c.appId = IF env.appId = "" THEN "linebot-app" ELSE env.appId
         /\ id \in -Half .. Half - 1 => c.builderId = id
  BY <1>1, <1>2, Carried
<1> HIDE DEF c
<1>5. last' = [from |-> "rest", secret |-> "", user |-> "", status |-> 0,
               consult |-> c, calendar |-> Calendar, reply |-> "none"]
  BY <1>1 DEF NoRequest
<1>6. last' \in Answer
  <2>1. Calendar \in {"called", "GOOGLE_CALENDAR_NOT_CONFIGURED"}
    BY <1>1, CalendarCalled
  <2>2. "" \in Values
    BY StartupAssumption
  <2> QED
    BY <1>3, <1>5, <2>1, <2>2 DEF Answer
<1>7. StartupTypeOK' /\ Wired'
  BY <1>1, <1>6, WiringStands
<1>8. env' = env /\ config' = config
  BY <1>1 DEF wiring
<1>9. last'.consult = c /\ last'.from = "rest"
  BY <1>5
<1>10. IssuedValuesServe'
  BY <1>9 DEF IssuedValuesServe
<1>11. ConsultsAsConfigured'
  BY <1>4, <1>8, <1>9 DEF ConsultsAsConfigured
<1>12. /\ last'.reply # "LINE_REPLY_NOT_CONFIGURED"
       /\ last'.calendar = "GOOGLE_CALENDAR_NOT_CONFIGURED" => ~config'.calendarEnabled
  <2>1. last'.calendar = Calendar /\ last'.reply = "none"
    BY <1>5
  <2> QED
    BY <1>1, <1>8, <2>1, CalendarCalled
<1> QED
  BY <1>7, <1>10, <1>11, <1>12 DEF StartupInv, Told

-----------------------------------------------------------------------------
(* Every step, and the theorems. *)

LEMMA StartupStep ==
  ASSUME StartupInv, [StartupNext]_startupVars
  PROVE  StartupInv'
<1>1. CASE \E e \in Environments : Start(e)
  BY <1>1, StartStep
<1>2. CASE Dial \/ DialFails
  BY <1>2, DialStep
<1>3. CASE OpenCalendar \/ RefuseCalendar
  BY <1>3, CalendarStep
<1>4. CASE BuildRoutes
  BY <1>4, RoutesStep
<1>5. CASE Listen \/ ListenFails \/ Stop \/ FilesChange
  BY <1>5, ListenStep
<1>6. CASE \E s \in {Issued.secret, config.channelSecret},
              u \in {Issued.botUserId, config.botUserId} :
             \/ DeliveryMisses(s, u)
             \/ \E h \in Headers : DeliveryActs(s, u, h)
  <2>1. /\ {Issued.secret, config.channelSecret} \subseteq Values
        /\ {Issued.botUserId, config.botUserId} \subseteq Values
    <3>1. Issued.secret \in Values /\ Issued.botUserId \in Values
      BY StartupAssumption
    <3>2. config.channelSecret \in Values /\ config.botUserId \in Values
      BY DEF StartupInv, StartupTypeOK, Config
    <3> QED
      BY <3>1, <3>2
  <2>2. PICK s \in Values, u \in Values :
               \/ DeliveryMisses(s, u)
               \/ \E h \in Headers : DeliveryActs(s, u, h)
    BY <1>6, <2>1
  <2> QED
    BY <2>2, MissesStep, ActsStep
<1>7. CASE \E a \in Asks, h \in Headers : RestCalled(a, h)
  BY <1>7, RestStep
<1>8. CASE UNCHANGED startupVars
  <2>0. last' = last /\ UNCHANGED <<place, files, wiring>>
    BY <1>8 DEF startupVars, wiring
  <2>1. StartupTypeOK' /\ Wired'
    BY <2>0, WiringStands DEF StartupInv, StartupTypeOK
  <2> QED
    BY <2>0, <2>1, ToldStands DEF wiring, StartupInv
<1> QED
  BY <1>1, <1>2, <1>3, <1>4, <1>5, <1>6, <1>7, <1>8 DEF StartupNext

(* The inductive invariant holds of every run of every environment. *)
THEOREM StartupInvariant == StartupSpec => []StartupInv
<1>1. StartupInv /\ [StartupNext]_startupVars => StartupInv'
  BY StartupStep
<1> QED
  BY <1>1, StartupInitInv, PTL DEF StartupSpec

(* The state keeps its types: the builder id of a consultation stays an    *)
(* int32, a deadline is never negative.                                    *)
THEOREM StartupTypes == StartupSpec => []StartupTypeOK
<1>1. StartupInv => StartupTypeOK
  BY DEF StartupInv
<1> QED
  BY <1>1, StartupInvariant, PTL

(* What New let pass is enough for every request: a calendar that is       *)
(* switched on is configured, a routed webhook can reply.                  *)
THEOREM CompleteServing == StartupSpec => []ServingIsComplete
<1>1. ASSUME StartupInv
      PROVE  ServingIsComplete
  <2>1. ASSUME place = "serving"
        PROVE  /\ internal = "open"
               /\ config.calendarEnabled => EnsureProviderConfigured
               /\ webhook => replyClient.made
    <3>1. internal = "open" /\ (config.calendarEnabled => EnsureProviderConfigured)
      BY <1>1, <2>1 DEF StartupInv, Wired, EnsureProviderConfigured
    <3> QED
      BY <1>1, <2>1, <3>1, Serving
  <2> QED
    BY <1>1, <2>1 DEF StartupInv, Told, ServingIsComplete
<1> QED
  BY <1>1, StartupInvariant, PTL

(* With the values LINE issued a mention of the bot is acted on and        *)
(* answered; with another secret nothing LINE signs is acted on, and with  *)
(* another bot id no mention of the bot is.                                *)
THEOREM IssuedServe == StartupSpec => []IssuedValuesServe
<1>1. StartupInv => IssuedValuesServe
  BY DEF StartupInv, Told
<1> QED
  BY <1>1, StartupInvariant, PTL

(* A consultation carries the operator's values or the defaults, and only  *)
(* a REST client chooses a time or a zone.                                 *)
THEOREM ConfiguredConsults == StartupSpec => []ConsultsAsConfigured
<1>1. StartupInv => ConsultsAsConfigured
  BY DEF StartupInv, Told
<1> QED
  BY <1>1, StartupInvariant, PTL

=============================================================================
