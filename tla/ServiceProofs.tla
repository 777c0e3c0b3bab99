------------------------------ MODULE ServiceProofs ------------------------------
(****************************************************************************)
(* Theorems about Startup and Exchange, for every set of environments,      *)
(* requests and answers and every size of a machine word.                   *)
(****************************************************************************)
EXTENDS Exchange, WellFoundedInduction, TLAPS

----------------------------------------------------------------------------
\* What the checks of from_lookup guarantee.

\* A number that passes Positive is in range, as is the default in its place.
LEMMA PositiveWord ==
  ASSUME NEW raw, IsValue(raw), IsWord(raw), raw # Number(0),
         NEW default \in 1 .. WordMax
  PROVE  ParseWord(raw, default) \in 1 .. WordMax
BY ConfigAssumption DEF IsValue, IsWord, ParseWord, Number, Unset, Text, Url, Address

\* An accepted environment gives the program limits it can work with and an upstream
\* that the policy allows.
LEMMA AcceptedConfig ==
  ASSUME NEW e, IsEnvironment(e), Accepts(e)
  PROVE  /\ Loaded(e).log_channel_capacity \in 1 .. WordMax
         /\ Loaded(e).max_request_bytes \in 1 .. WordMax
         /\ UrlAllowed(e.upstream_url, ParseBool(e.allow_plaintext))
<1>1. DOMAIN Checks(e) = 1 .. 9
  BY DEF Checks
<1>2. \A i \in 1 .. 9 : Checks(e)[i][2]
  BY <1>1 DEF Accepts, Failing
<1>3. Checks(e)[4][2] /\ Checks(e)[5][2] /\ Checks(e)[7][2]
  BY <1>2
<1>4. UrlAllowed(e.upstream_url, ParseBool(e.allow_plaintext))
  BY <1>3 DEF Checks
<1>5. /\ IsWord(e.log_channel_capacity) /\ e.log_channel_capacity # Number(0)
      /\ IsWord(e.max_request_bytes) /\ e.max_request_bytes # Number(0)
  BY <1>3 DEF Checks, Positive
<1>6. IsValue(e.log_channel_capacity) /\ IsValue(e.max_request_bytes)
  BY DEF IsEnvironment, Names
<1>7. DefaultCapacity \in 1 .. WordMax /\ DefaultLimit \in 1 .. WordMax
  BY ConfigAssumption DEF DefaultCapacity, DefaultLimit
<1>8. /\ ParseWord(e.log_channel_capacity, DefaultCapacity) \in 1 .. WordMax
      /\ ParseWord(e.max_request_bytes, DefaultLimit) \in 1 .. WordMax
  BY <1>5, <1>6, <1>7, PositiveWord
<1>. QED
  BY <1>4, <1>8 DEF Loaded

\* The upstream of an accepted environment keeps its scheme and its host.
LEMMA AcceptedUpstream ==
  ASSUME NEW e, IsEnvironment(e), Accepts(e)
  PROVE  LET url == Loaded(e).upstream_url
         IN  /\ url.host \notin BannedHosts
             /\ \/ url.scheme = "https"
                \/ url.host \in LoopbackHosts
                \/ e.allow_plaintext \in {Text(t) : t \in TrueTexts}
<1>. DEFINE raw == e.upstream_url
            url == TrimTrailingSlash(raw)
<1>1. UrlAllowed(raw, ParseBool(e.allow_plaintext))
  BY AcceptedConfig
<1>2. IsValue(raw) /\ IsValue(e.allow_plaintext)
  BY DEF IsEnvironment, Names
<1>3. raw = Url(raw.scheme, raw.host, raw.slashes)
  BY <1>1, <1>2 DEF UrlAllowed, IsValue
<1>4. url.scheme = raw.scheme /\ url.host = raw.host
  BY <1>3 DEF TrimTrailingSlash, Url
<1>5. ParseBool(e.allow_plaintext) => e.allow_plaintext \in {Text(t) : t \in TrueTexts}
  BY <1>2 DEF ParseBool, IsValue
<1>. QED
  BY <1>1, <1>4, <1>5 DEF UrlAllowed, Loaded

----------------------------------------------------------------------------
\* Starting.

Opened == IF found = "absent" THEN "empty" ELSE found

\* What each place of main() has behind it: the checks, the warning, the channel, and
\* what opening the log does to it.
StartInv ==
  /\ IsEnvironment(env)
  /\ step \in Steps
  /\ step \notin {"loading", "ended"} => Accepts(env) /\ warned = config.capture_content
  /\ step \in {"building", "binding", "serving"} =>
       config.log_channel_capacity <= MaxPermits
  /\ step \in {"loading", "opening"} => log = found
  /\ step \in {"building", "binding"} => log = Opened
  /\ step = "serving" => (found = "records" => log = "records")
  /\ FailedStartHarmless

\* The operator's repairs leave an environment.
LEMMA StartAgainEnvironment ==
  ASSUME IsEnvironment(env), StartAgain
  PROVE  IsEnvironment(env')
<1>1. PICK named : env' = [name \in DOMAIN env |->
                             IF name \in named THEN Repair(name) ELSE env[name]]
  BY DEF StartAgain
<1>2. \A name : IsValue(Repair(name))
  BY DEF IsValue, Repair, Url, Unset
<1>. QED
  BY <1>1, <1>2 DEF IsEnvironment

\* The start keeps its invariant.
LEMMA MainStepKeeps ==
  ASSUME StartInv, MainNext
  PROVE  StartInv'
<1>. USE DEF StartInv, FailedStartHarmless, Steps, Opened, config
<1>1. CASE RejectConfig
  BY <1>1 DEF RejectConfig, Exit
<1>2. CASE LoadConfig
  BY <1>2 DEF LoadConfig, Reach
<1>3. CASE Panic
  BY <1>3 DEF Panic, Exit
<1>4. CASE OpenLog
  BY <1>4 DEF OpenLog, OpenAppending, Reach
<1>5. CASE OpenFails
  BY <1>5 DEF OpenFails, Exit
<1>6. CASE BuildClient
  BY <1>6 DEF BuildClient, Reach
<1>7. CASE BuildFails
  BY <1>7 DEF BuildFails, Exit
<1>8. CASE Bind
  BY <1>8 DEF Bind, Reach
<1>9. CASE BindFails
  BY <1>9 DEF BindFails, Exit
<1>10. CASE ServerEnds
  BY <1>10 DEF ServerEnds, Exit
<1>11. CASE StartAgain
  <2>1. IsEnvironment(env')
    BY <1>11, StartAgainEnvironment
  <2>2. step' = "loading" /\ found' = log /\ log' = log
    BY <1>11 DEF StartAgain
  <2>. QED
    BY <2>1, <2>2
<1>. QED
  BY <1>1, <1>2, <1>3, <1>4, <1>5, <1>6, <1>7, <1>8, <1>9, <1>10, <1>11 DEF MainNext

\* The invariant of the start holds in every state of the service.
THEOREM StartInvariant == Spec => []StartInv
<1>1. Init => StartInv
  BY StartupAssumption
     DEF Init, StartInit, StartInv, Steps, FailedStartHarmless
<1>2. StartInv /\ [Next]_vars => StartInv'
  <2>1. ASSUME StartInv, MainNext PROVE StartInv'
    BY <2>1, MainStepKeeps
  <2>2. ASSUME StartInv, Record PROVE StartInv'
    BY <2>2 DEF Record, StartInv, FailedStartHarmless, Steps, config
  <2>3. ASSUME StartInv, UNCHANGED startVars PROVE StartInv'
    BY <2>3 DEF startVars, StartInv, FailedStartHarmless, Opened, config
  <2>. QED
    BY <2>1, <2>2, <2>3 DEF Next, vars
<1>. QED
  BY <1>1, <1>2, PTL DEF Spec

\* However often the proxy is started and however each start ends, main() costs the log
\* no record, and a start that fails before the log is open does not touch it.
THEOREM StartHarmless == Spec => []FailedStartHarmless
<1>1. StartInv => FailedStartHarmless
  BY DEF StartInv
<1>. QED
  BY <1>1, StartInvariant, PTL

\* A serving process has passed every check, and the capacity main() did not check.
THEOREM Serves == Spec => []ServesSafely
<1>1. StartInv => ServesSafely
  <2>. SUFFICES ASSUME StartInv, step = "serving" PROVE ServesSafely
    BY DEF ServesSafely
  <2>1. IsEnvironment(env) /\ Accepts(env)
    BY DEF StartInv
  <2>2. config.log_channel_capacity \in 1 .. MaxPermits
    BY <2>1, AcceptedConfig, ConfigAssumption DEF StartInv, config, DefaultCapacity
  <2>3. config.max_request_bytes \in 1 .. WordMax
    BY <2>1, AcceptedConfig DEF config
  <2>4. warned <=> config.capture_content
    BY DEF StartInv
  <2>. QED
    BY <2>1, <2>2, <2>3, <2>4, AcceptedUpstream DEF ServesSafely, config
<1>. QED
  BY <1>1, StartInvariant, PTL

----------------------------------------------------------------------------
\* The operator.

LEMMA OneOfNine ==
  \A i \in 1 .. 9 : i \in {1, 2, 3, 4, 5, 6, 7, 8, 9}
OBVIOUS

LEMMA CheckNames ==
  ASSUME NEW e
  PROVE  /\ Checks(e)[1][1] = "listen"
         /\ Checks(e)[2][1] = "upstream_url"
         /\ Checks(e)[3][1] = "allow_plaintext"
         /\ Checks(e)[4][1] = "upstream_url"
         /\ Checks(e)[5][1] = "log_channel_capacity"
         /\ Checks(e)[6][1] = "capture_content"
         /\ Checks(e)[7][1] = "max_request_bytes"
         /\ Checks(e)[8][1] = "connect_timeout"
         /\ Checks(e)[9][1] = "read_timeout"
BY DEF Checks, Positive

LEMMA ChecksName ==
  ASSUME NEW e, NEW i \in 1 .. 9
  PROVE  Checks(e)[i][1] \in Names
BY OneOfNine, CheckNames DEF Names

\* There is a first among the checks that fail.
LEMMA FirstOfNine ==
  ASSUME NEW F, F \subseteq 1 .. 9, F # {}
  PROVE  Min(F) \in F
<1>1. \E x \in F : \A y \in F : x <= y
  <2>1. F \subseteq Nat
    OBVIOUS
  <2>2. PICK x \in F : \A y \in F : ~(<<y, x>> \in OpToRel(<, Nat))
    BY <2>1, NatLessThanWellFounded, WFMin
  <2>3. \A y \in F : ~(y < x)
    BY <2>1, <2>2 DEF OpToRel
  <2>. QED
    BY <2>1, <2>3
<1>. QED
  BY <1>1 DEF Min

\* A rejected environment has a check that fails and is named by the error.
LEMMA ComplaintFails ==
  ASSUME NEW e, ~Accepts(e)
  PROVE  \E i \in 1 .. 9 : ~Checks(e)[i][2] /\ Complaint(e) = Checks(e)[i][1]
<1>1. DOMAIN Checks(e) = 1 .. 9
  BY DEF Checks
<1>2. Failing(e) \subseteq 1 .. 9 /\ Failing(e) # {}
  BY <1>1 DEF Failing, Accepts
<1>3. Min(Failing(e)) \in Failing(e)
  BY <1>2, FirstOfNine
<1>. QED
  BY <1>1, <1>3 DEF Failing, Complaint

\* No check names a variable that has been put right.
LEMMA RepairedPasses ==
  ASSUME NEW e, NEW i \in 1 .. 9, LET name == Checks(e)[i][1] IN e[name] = Repair(name)
  PROVE  Checks(e)[i][2]
<1>1. Unset.is = "unset" /\ Text("").is = "text" /\ Number(0).is = "number"
  BY DEF Unset, Text, Number
<1>2. IsBool(Unset) /\ IsWord(Unset) /\ Unset # Number(0)
  BY <1>1 DEF IsBool, IsWord
<1>3. LET url == Url("https", "api", 0)
      IN  url \notin {Unset, Text("")} /\ \A plain : UrlAllowed(url, plain)
  <2> DEFINE url == Url("https", "api", 0)
  <2>1. url.is = "url" /\ url.scheme = "https" /\ url.host = "api"
    BY DEF Url
  <2> HIDE DEF url
  <2>2. url # Unset /\ url # Text("")
    BY <1>1, <2>1
  <2>3. \A plain : UrlAllowed(url, plain)
    BY <2>1 DEF UrlAllowed, BannedHosts
  <2>. QED
    BY <2>2, <2>3 DEF url
<1>4. \A name : Repair(name) = IF name = "upstream_url" THEN Url("https", "api", 0)
                               ELSE Unset
  BY DEF Repair
<1>5. i \in {2, 4} => Checks(e)[i][2]
  <2>1. i \in {2, 4} => e.upstream_url = Url("https", "api", 0)
    BY <1>4, CheckNames
  <2>2. CASE i = 2
    BY <1>3, <2>1, <2>2 DEF Checks
  <2>3. CASE i = 4
    BY <1>3, <2>1, <2>3 DEF Checks
  <2>. QED
    BY <2>2, <2>3
<1>6. i = 1 => Checks(e)[i][2]
  <2>1. i = 1 => e.listen = Unset
    BY <1>4, CheckNames
  <2>2. Checks(e)[1][2] <=> e.listen \in {Unset, Address}
    BY DEF Checks
  <2>. QED
    BY <2>1, <2>2
<1>7. i = 3 => Checks(e)[i][2]
  <2>1. i = 3 => e.allow_plaintext = Unset
    BY <1>4, CheckNames
  <2>. QED
    BY <1>2, <2>1 DEF Checks
<1>8. i = 5 => Checks(e)[i][2]
  <2>1. i = 5 => e.log_channel_capacity = Unset
    BY <1>4, CheckNames
  <2>2. Checks(e)[5][2] <=>
          IsWord(e.log_channel_capacity) /\ e.log_channel_capacity # Number(0)
    BY DEF Checks, Positive
  <2>. QED
    BY <1>2, <2>1, <2>2
<1>9. i = 6 => Checks(e)[i][2]
  <2>1. i = 6 => e.capture_content = Unset
    BY <1>4, CheckNames
  <2>. QED
    BY <1>2, <2>1 DEF Checks
<1>10. i = 7 => Checks(e)[i][2]
  <2>1. i = 7 => e.max_request_bytes = Unset
    BY <1>4, CheckNames
  <2>2. Checks(e)[7][2] <=> IsWord(e.max_request_bytes) /\ e.max_request_bytes # Number(0)
    BY DEF Checks, Positive
  <2>. QED
    BY <1>2, <2>1, <2>2
<1>11. i = 8 => Checks(e)[i][2]
  <2>1. i = 8 => e.connect_timeout = Unset
    BY <1>4, CheckNames
  <2>. QED
    BY <1>2, <2>1 DEF Checks
<1>12. i = 9 => Checks(e)[i][2]
  <2>1. i = 9 => e.read_timeout = Unset
    BY <1>4, CheckNames
  <2>. QED
    BY <1>2, <2>1 DEF Checks
<1>. QED
  BY <1>5, <1>6, <1>7, <1>8, <1>9, <1>10, <1>11, <1>12, OneOfNine

\* What the operator has been told to put right he has put right, and only a rejected
\* environment ends a start with the code of one.
ToldInv ==
  /\ told \subseteq Names
  /\ \A name \in told : env[name] = Repair(name)
  /\ step = "ended" /\ exit = 2 => ~Accepts(env)

\* The operator acts on what he is told.
LEMMA StartAgainTold ==
  ASSUME StartInv, ToldInv, StartAgain
  PROVE  ToldInv'
<1>1. PICK named :
        /\ named = CASE exit = 2 -> {Complaint(env)}
                    [] exit = 101 -> {"log_channel_capacity"}
                    [] OTHER -> {}
        /\ env' = [name \in DOMAIN env |->
                      IF name \in named THEN Repair(name) ELSE env[name]]
        /\ told' = told \union named
        /\ step = "ended" /\ step' = "loading"
  BY DEF StartAgain
<1>2. exit = 2 => Complaint(env) \in Names
  BY <1>1, ComplaintFails, ChecksName DEF ToldInv
<1>3. named \subseteq Names
  BY <1>1, <1>2 DEF Names
<1>4. DOMAIN env = Names
  BY DEF StartInv, IsEnvironment
<1>. QED
  BY <1>1, <1>3, <1>4 DEF ToldInv

\* The types of the start and what was told hold in every state of the service.
THEOREM ToldInvariant == Spec => [](StartTypeOK /\ ToldInv)
<1> DEFINE Inv == StartTypeOK /\ ToldInv
<1>1. Init => Inv
  BY StartupAssumption DEF Init, StartInit, StartTypeOK, Steps, ToldInv
<1>2. StartInv /\ StartInv' /\ Inv /\ [Next]_vars => Inv'
  <2> SUFFICES ASSUME StartInv, StartInv', StartTypeOK, ToldInv, [Next]_vars PROVE Inv'
    OBVIOUS
  <2>1. IsEnvironment(env) /\ IsEnvironment(env')
    BY DEF StartInv
  <2>2. CASE StartAgain
    <3>1. ToldInv'
      BY <2>2, StartAgainTold
    <3>. QED
      BY <2>1, <2>2, <3>1 DEF StartAgain, StartTypeOK, Steps, ToldInv
  <2>3. CASE LoadConfig
    <3>1. config.capture_content \in BOOLEAN
      BY DEF config, Loaded, ParseBool
    <3>. QED
      BY <2>1, <2>3, <3>1 DEF LoadConfig, Reach, StartTypeOK, Steps, ToldInv
  <2>4. CASE RejectConfig
    BY <2>1, <2>4 DEF RejectConfig, Exit, StartTypeOK, Steps, ToldInv
  <2>5. CASE Panic \/ OpenFails \/ BuildFails \/ BindFails \/ ServerEnds
    BY <2>1, <2>5 DEF Panic, OpenFails, BuildFails, BindFails, ServerEnds, Exit,
       StartTypeOK, Steps, ToldInv
  <2>6. CASE OpenLog \/ BuildClient \/ Bind
    BY <2>1, <2>6 DEF OpenLog, OpenAppending, BuildClient, Bind, Reach, StartTypeOK,
       Steps, ToldInv
  <2>7. CASE Record
    BY <2>1, <2>7 DEF Record, StartTypeOK, ToldInv
  <2>8. CASE UNCHANGED startVars
    BY <2>1, <2>8 DEF startVars, StartTypeOK, ToldInv
  <2>. QED
    BY <2>2, <2>3, <2>4, <2>5, <2>6, <2>7, <2>8 DEF Next, MainNext, vars
<1>. QED
  BY <1>1, <1>2, StartInvariant, PTL DEF Spec

\* Whatever the environment, an operator who follows the errors gets each variable named
\* at most once.
THEOREM RepairsLast == Spec => []ToldOnce
<1>1. ToldInv => ToldOnce
  BY ComplaintFails, RepairedPasses DEF ToldInv, ToldOnce
<1>. QED
  BY <1>1, ToldInvariant, PTL

----------------------------------------------------------------------------
\* Exchanges.

\* What the client has of a streamed or buffered answer whose text so far is `text`.
Passed(headers, text) ==
  [by |-> "upstream", status |-> answer.status, headers |-> headers, text |-> text]

HeadersOfStream == WithStreamHygiene(Forwardable(answer.headers))

Own(status) ==
  got = [by |-> "proxy", status |-> status, headers |-> NoHeaders, text |-> ""]

\* The ways in which an exchange ends.
Refused ==
  /\ record = None /\ sent = None
  /\ \/ Own(413) /\ arrived > config.max_request_bytes
     \/ /\ \E status \in {200, 400, 404, 405} : Own(status)
        /\ arrived <= config.max_request_bytes

Failed == Own(502) /\ record = Failure /\ arrived <= config.max_request_bytes

AnsweredWhole ==
  /\ got = Passed(Forwardable(answer.headers), answer.body.text)
  /\ record = TraceOf(answer.body, Forwardable(answer.headers), answer.status, FALSE)
  /\ ~IsSse(answer.headers)
  /\ answer \in Answers

AnsweredAsStream ==
  /\ \E body :
       /\ got = Passed(HeadersOfStream, body.text)
       /\ record = TraceOf(body, Forwardable(answer.headers), answer.status, TRUE)
  /\ IsSse(answer.headers)
  /\ answer \in Answers

\* What each phase has behind it.
ExchangeInv ==
  /\ phase \in {"idle", "reading", "dialing", "waiting", "buffering", "streaming", "over"}
  /\ phase # "idle" => step = "serving"
  /\ arrived \in Nat
  /\ phase = "idle" => arrived = 0
  /\ phase \in {"idle", "reading", "dialing"} => sent = None
  /\ phase \in {"idle", "reading", "dialing", "waiting", "buffering"} => got = None
  /\ phase \notin {"idle", "over"} => arrived <= config.max_request_bytes
  /\ phase # "over" => record = None
  /\ phase = "buffering" => answer \in Answers /\ ~IsSse(answer.headers)
  /\ phase = "streaming" =>
       answer \in Answers /\ IsSse(answer.headers) /\ got = Passed(HeadersOfStream, "")
  /\ sent # None => sent.headers = Forwardable(req.headers)
  /\ phase = "over" => Refused \/ Failed \/ AnsweredWhole \/ AnsweredAsStream

\* Filtering keeps the header that tells a stream.
LEMMA SseSurvives == \A headers : IsSse(Forwardable(headers)) <=> IsSse(headers)
BY DEF IsSse, Forwardable, Restrict, HOP_BY_HOP

\* The limit of a serving process.
LEMMA ServingLimit ==
  ASSUME StartInv, step = "serving"
  PROVE  config.max_request_bytes \in Nat \ {0}
<1>1. config.max_request_bytes \in 1 .. WordMax
  BY AcceptedConfig DEF StartInv, config
<1>. QED
  BY <1>1, ConfigAssumption

\* An end stays what it is while neither the exchange nor the environment changes.
LEMMA EndStays ==
  ASSUME UNCHANGED <<exchangeVars, env>>
  PROVE  /\ Refused' <=> Refused
         /\ Failed' <=> Failed
         /\ AnsweredWhole' <=> AnsweredWhole
         /\ AnsweredAsStream' <=> AnsweredAsStream
         /\ HeadersOfStream' = HeadersOfStream
BY DEF exchangeVars, Refused, Failed, AnsweredWhole, AnsweredAsStream, HeadersOfStream,
       Own, Passed, Failure, TraceOf, TokensSeen, config

\* An answer of the proxy's own ends the exchange.
LEMMA OwnEnds ==
  ASSUME NEW status, Reply(status), Refused' \/ Failed',
         step' = "serving", arrived' \in Nat,
         sent' # None => sent'.headers = Forwardable(req'.headers)
  PROVE  ExchangeInv'
BY DEF Reply, ExchangeInv

\* Each step of an exchange keeps its invariant.
LEMMA ExchangeStepKeeps ==
  ASSUME StartInv, ExchangeInv, ExchangeNext, UNCHANGED startVars
  PROVE  ExchangeInv'
<1>. env' = env /\ step' = step
  BY DEF startVars
<1>1. ASSUME NEW request \in Requests, Arrive(request) PROVE ExchangeInv'
  <2>1. config.max_request_bytes \in Nat \ {0}
    BY <1>1, ServingLimit DEF Arrive
  <2>2. CASE Routed(request)
    BY <1>1, <2>1, <2>2 DEF Arrive, ExchangeInv, config
  <2>3. CASE ~Routed(request)
    <3>1. RouterAnswer(request) \in {200, 404, 405}
      BY DEF RouterAnswer
    <3>2. PICK status \in {200, 404, 405} : Reply(status)
      BY <1>1, <2>3, <3>1 DEF Arrive
    <3>3. /\ arrived' = 0 /\ record' = None /\ sent' = None
          /\ config' = config
      BY <1>1 DEF Arrive, ExchangeInv, config
    <3>4. Own(status)'
      BY <3>2 DEF Reply, Own
    <3>5. Refused'
      BY <2>1, <3>2, <3>3, <3>4 DEF Refused
    <3>. QED
      BY <1>1, <3>2, <3>3, <3>5, OwnEnds DEF Arrive
  <2>. QED
    BY <2>2, <2>3
<1>2. ASSUME NEW size \in FrameSizes, ReadPiece(size) PROVE ExchangeInv'
  <2>1. config.max_request_bytes \in Nat \ {0} /\ size \in Nat /\ arrived \in Nat
    BY <1>2, ServingLimit, ExchangeAssumption DEF ReadPiece, ExchangeInv
  <2>2. CASE Fits(size)
    BY <1>2, <2>1, <2>2 DEF ReadPiece, Fits, ExchangeInv, config
  <2>3. CASE ~Fits(size)
    <3>1. /\ Reply(413)
          /\ arrived' = arrived + size
          /\ UNCHANGED <<req, sent, answer, record>>
      BY <1>2, <2>3 DEF ReadPiece
    <3>2. /\ record' = None /\ sent' = None
          /\ config' = config /\ step' = "serving"
      BY <1>2, <3>1 DEF ReadPiece, ExchangeInv, config
    <3>3. arrived' > config'.max_request_bytes
      BY <2>1, <2>3, <3>1, <3>2 DEF Fits
    <3>4. Own(413)'
      BY <3>1 DEF Reply, Own
    <3>5. Refused'
      BY <3>2, <3>3, <3>4 DEF Refused
    <3>. QED
      BY <2>1, <3>1, <3>2, <3>5, OwnEnds
  <2>. QED
    BY <2>2, <2>3
<1>3. CASE BodyBreaks
  <2>1. Refused'
    BY ZenonT(30), <1>3 DEF BodyBreaks, Reply, ExchangeInv, Refused, Own, config
  <2>. QED
    BY <1>3, <2>1 DEF BodyBreaks, Reply, ExchangeInv
<1>4. CASE BodyEnds
  BY <1>4 DEF BodyEnds, ExchangeInv, config
<1>5. CASE Send
  BY <1>5 DEF Send, ExchangeInv, config
<1>6. CASE UpstreamFails
  <2>1. Failed'
    BY <1>6 DEF UpstreamFails, Reply, ExchangeInv, Failed, Own, Failure, TraceOf,
                TokensSeen, config
  <2>. QED
    BY <1>6, <2>1 DEF UpstreamFails, Reply, ExchangeInv
<1>7. ASSUME NEW upstream \in Answers, UpstreamAnswers(upstream) PROVE ExchangeInv'
  <2>1. CASE IsSse(upstream.headers)
    <3>1. got' = Passed(HeadersOfStream, "")'
      BY <1>7, <2>1, SseSurvives DEF UpstreamAnswers, Passed, HeadersOfStream
    <3>. QED
      BY <1>7, <2>1, <3>1, SseSurvives DEF UpstreamAnswers, ExchangeInv, config
  <2>2. CASE ~IsSse(upstream.headers)
    BY <1>7, <2>2, SseSurvives DEF UpstreamAnswers, ExchangeInv, config
  <2>. QED
    BY <2>1, <2>2
<1>8. CASE Buffered
  <2>1. AnsweredWhole'
    BY <1>8 DEF Buffered, ExchangeInv, AnsweredWhole, Passed, TraceOf, TokensSeen, config
  <2>. QED
    BY <1>8, <2>1 DEF Buffered, ExchangeInv
<1>9. ASSUME NEW whole \in BOOLEAN, Streamed(whole) PROVE ExchangeInv'
  <2>. DEFINE body == IF whole THEN answer.body
                      ELSE [answer.body EXCEPT !.text = "cut off"]
  <2>0. PICK b : b = body
    OBVIOUS
  <2>. HIDE DEF body
  <2>1. /\ got' = [Passed(HeadersOfStream, "") EXCEPT !.text = b.text]
        /\ record' = TraceOf(b, Forwardable(answer.headers), answer.status, TRUE)
        /\ answer' = answer /\ req' = req
    BY <1>9, <2>0 DEF Streamed, ExchangeInv, body
  <2>2. got' = Passed(HeadersOfStream, b.text)'
    BY <2>1 DEF Passed, HeadersOfStream
  <2>3. record' = TraceOf(b, Forwardable(answer.headers), answer.status, TRUE)'
    BY <2>1 DEF TraceOf, TokensSeen, config
  <2>4. AnsweredAsStream'
    BY <1>9, <2>1, <2>2, <2>3 DEF Streamed, ExchangeInv, AnsweredAsStream
  <2>. QED
    BY <1>9, <2>4 DEF Streamed, ExchangeInv
<1>10. CASE Finish
  BY <1>10 DEF Finish, ExchangeInv
<1>. QED
  BY <1>1, <1>2, <1>3, <1>4, <1>5, <1>6, <1>7, <1>8, <1>9, <1>10 DEF ExchangeNext

\* The invariant of the exchanges holds in every state of the service.
THEOREM ExchangeInvariant == Spec => []ExchangeInv
<1>1. Init => ExchangeInv
  BY DEF Init, Idle, ExchangeInv
<1>2. StartInv /\ ExchangeInv /\ [Next]_vars => ExchangeInv'
  <2>1. ASSUME ExchangeInv, phase = "idle", UNCHANGED exchangeVars PROVE ExchangeInv'
    BY <2>1 DEF ExchangeInv, exchangeVars
  <2>2. ASSUME ExchangeInv, UNCHANGED <<exchangeVars, env, step>> PROVE ExchangeInv'
    BY <2>2, EndStays DEF ExchangeInv, exchangeVars, config, Passed
  <2>3. Record => UNCHANGED <<env, step>>
    BY DEF Record
  <2>4. UNCHANGED vars => UNCHANGED <<exchangeVars, env, step>>
    BY DEF vars, startVars
  <2>. QED
    BY <2>1, <2>2, <2>3, <2>4, ExchangeStepKeeps DEF Next
<1>. QED
  BY <1>1, <1>2, StartInvariant, PTL DEF Spec

----------------------------------------------------------------------------
\* What the ends of an exchange have in common.

\* The upstream is dialled for a body within the limit, and for no other.
THEOREM LimitHolds == Spec => []LimitExact
<1>1. StartInv /\ ExchangeInv => LimitExact
  <2>. SUFFICES ASSUME StartInv, ExchangeInv PROVE LimitExact
    OBVIOUS
  <2>1. arrived \in Nat /\ (phase # "idle" => config.max_request_bytes \in Nat)
    BY ServingLimit DEF ExchangeInv
  <2>2. phase \notin {"idle", "over"} => ~TooLarge
    <3>. SUFFICES ASSUME phase \notin {"idle", "over"} PROVE ~TooLarge
      OBVIOUS
    <3>1. arrived <= config.max_request_bytes
      BY DEF ExchangeInv
    <3>. QED
      BY <2>1, <3>1 DEF TooLarge
  <2>3. CASE phase \notin {"over", "streaming"}
    <3>1. got = None
      BY <2>3 DEF ExchangeInv
    <3>. QED
      BY <2>2, <3>1 DEF LimitExact
  <2>4. CASE phase = "streaming"
    <3>1. got = Passed(HeadersOfStream, "")
      BY <2>4 DEF ExchangeInv
    <3>. QED
      BY <2>2, <2>4, <3>1 DEF LimitExact, Passed
  <2>5. CASE phase = "over" /\ Refused
    <3>1. PICK status \in {200, 400, 404, 405, 413} :
            Own(status) /\ (status = 413 <=> TooLarge)
      BY <2>1, <2>5 DEF Refused, TooLarge
    <3>2. got = [by |-> "proxy", status |-> status, headers |-> NoHeaders, text |-> ""]
      BY <3>1 DEF Own
    <3>3. record = None /\ sent = None
      BY <2>5 DEF Refused
    <3>. QED
      BY <2>5, <3>1, <3>2, <3>3 DEF LimitExact
  <2>6. CASE phase = "over" /\ Failed
    <3>1. got = [by |-> "proxy", status |-> 502, headers |-> NoHeaders, text |-> ""]
      BY <2>6 DEF Failed, Own
    <3>2. ~TooLarge
      BY <2>1, <2>6 DEF Failed, TooLarge
    <3>3. got.status = 502
      BY <3>1
    <3>. QED
      BY <2>6, <3>2, <3>3 DEF LimitExact
  <2>7. CASE phase = "over" /\ (AnsweredWhole \/ AnsweredAsStream)
    <3>1. PICK headers, text : got = Passed(headers, text)
      BY <2>7 DEF AnsweredWhole, AnsweredAsStream
    <3>. QED
      BY <2>7, <3>1 DEF LimitExact, Passed
  <2>. QED
    BY <2>3, <2>4, <2>5, <2>6, <2>7 DEF ExchangeInv
<1>. QED
  BY <1>1, StartInvariant, ExchangeInvariant, PTL

\* Filtering carries all that is not for one hop.
LEMMA FilterCarries == \A headers : Carried(headers, Forwardable(headers))
BY DEF Carried, Forwardable, Restrict

\* So it does with what is set for a stream on top.
LEMMA StreamCarries ==
  \A headers :
    Carried(WithStreamHygiene(headers), WithStreamHygiene(Forwardable(headers)))
<1>. TAKE headers
<1>. DEFINE from == WithStreamHygiene(headers)
            to == WithStreamHygiene(Forwardable(headers))
            set == {"x-accel-buffering", "cache-control"}
<1>1. set \intersect HOP_BY_HOP = {}
  BY DEF HOP_BY_HOP
<1>2. /\ DOMAIN from = DOMAIN headers \union set
      /\ DOMAIN to = (DOMAIN headers \ HOP_BY_HOP) \union set
  BY DEF WithStreamHygiene, Forwardable, Restrict
<1>3. \A name \in DOMAIN to : to[name] = from[name]
  BY DEF WithStreamHygiene, Forwardable, Restrict
<1>. HIDE DEF from, to, set
<1>4. Carried(from, to)
  BY <1>1, <1>2, <1>3 DEF Carried
<1>. QED
  BY <1>4 DEF from, to

\* Headers cross the proxy whole in both directions, whatever they are.
THEOREM HeadersCross == Spec => []WireHeaders
<1>1. ExchangeInv => WireHeaders
  <2>. SUFFICES ASSUME ExchangeInv PROVE WireHeaders
    OBVIOUS
  <2>1. sent # None => Carried(req.headers, sent.headers)
    BY FilterCarries DEF ExchangeInv
  <2>2. ASSUME got # None, got.by = "upstream"
        PROVE  \/ /\ IsSse(answer.headers)
                  /\ got.headers = HeadersOfStream
               \/ /\ ~IsSse(answer.headers)
                  /\ got.headers = Forwardable(answer.headers)
    <3>1. phase = "streaming" \/ Refused \/ Failed \/ AnsweredWhole \/ AnsweredAsStream
      BY <2>2 DEF ExchangeInv
    <3>2. CASE phase = "streaming"
      <4>1. got = Passed(HeadersOfStream, "") /\ IsSse(answer.headers)
        BY <3>2 DEF ExchangeInv
      <4>. QED
        BY <4>1 DEF Passed
    <3>3. CASE Refused \/ Failed
      <4>1. PICK status : Own(status)
        BY <3>3 DEF Refused, Failed
      <4>. QED
        BY <2>2, <4>1 DEF Own
    <3>4. CASE AnsweredWhole
      BY <3>4 DEF AnsweredWhole, Passed
    <3>5. CASE AnsweredAsStream
      <4>1. PICK text : got = Passed(HeadersOfStream, text)
        BY <3>5 DEF AnsweredAsStream
      <4>. QED
        BY <3>5, <4>1 DEF AnsweredAsStream, Passed
    <3>. QED
      BY <3>1, <3>2, <3>3, <3>4, <3>5
  <2>. QED
    BY <2>1, <2>2, FilterCarries, StreamCarries DEF WireHeaders, HeadersOfStream
<1>. QED
  BY <1>1, ExchangeInvariant, PTL

\* A record comes from a failure, a buffered answer or a stream.
LEMMA RecordKnown ==
  ASSUME ExchangeInv, record # None
  PROVE  phase = "over" /\ (Failed \/ AnsweredWhole \/ AnsweredAsStream)
BY DEF ExchangeInv, Refused

\* Every variable of the service holds what its declaration says, a record what its Rust
\* type allows: no count of tokens and no model that is not one.
THEOREM ServiceTyped == Spec => []TypeOK
<1> DEFINE Kept == req \in Requests \union {None} /\ answer \in Answers \union {None}
<1>1. Init => Kept
  BY DEF Init, Idle
<1>2. Kept /\ [Next]_vars => Kept'
  <2> SUFFICES ASSUME Kept, [Next]_vars PROVE Kept'
    OBVIOUS
  <2>1. ASSUME NEW request \in Requests, Arrive(request) PROVE Kept'
    BY <2>1 DEF Arrive
  <2>2. ASSUME NEW size \in FrameSizes, ReadPiece(size) PROVE Kept'
    BY <2>2 DEF ReadPiece
  <2>3. ASSUME NEW upstream \in Answers, UpstreamAnswers(upstream) PROVE Kept'
    BY <2>3 DEF UpstreamAnswers
  <2>4. ASSUME NEW whole \in BOOLEAN, Streamed(whole) PROVE Kept'
    BY <2>4 DEF Streamed
  <2>5. CASE BodyBreaks \/ BodyEnds \/ Send \/ UpstreamFails \/ Buffered \/ Finish
    BY <2>5 DEF BodyBreaks, BodyEnds, Send, UpstreamFails, Buffered, Finish
  <2>6. CASE UNCHANGED exchangeVars
    BY <2>6 DEF exchangeVars
  <2>. QED
    BY <2>1, <2>2, <2>3, <2>4, <2>5, <2>6 DEF Next, ExchangeNext, vars
<1>3. StartTypeOK /\ ExchangeInv /\ Kept => TypeOK
  <2> SUFFICES ASSUME StartTypeOK, ExchangeInv, Kept PROVE TypeOK
    OBVIOUS
  <2>1. \A body : ModelOf(body) # Odd
    BY ExchangeAssumption DEF ModelOf
  <2>2. ASSUME record # None
        PROVE  /\ record.model # Odd
               /\ record.status \in {0} \union 100 .. 999
               /\ record.tokens # None =>
                    {record.tokens.input_tokens, record.tokens.output_tokens,
                     record.tokens.total_tokens} \subseteq Tokens
    <3>1. CASE Failed
      BY <2>1, <3>1 DEF Failed, Failure, TraceOf, TokensSeen, TokensOf, NoBody
    <3>2. CASE AnsweredWhole
      <4>1. /\ record.model = ModelOf(req.body) /\ record.status = answer.status
            /\ record.tokens = TokensOf(answer.body) /\ answer \in Answers
        BY <3>2 DEF AnsweredWhole, TraceOf, TokensSeen
      <4>2. answer.status \in 100 .. 999
        BY <4>1, ExchangeAssumption
      <4>3. TokensOf(answer.body) # None =>
              {TokensOf(answer.body).input_tokens, TokensOf(answer.body).output_tokens,
               TokensOf(answer.body).total_tokens} \subseteq Tokens
        BY <4>1, ExchangeAssumption DEF TokensOf, Count, Tokens
      <4>. QED
        BY <2>1, <4>1, <4>2, <4>3
    <3>3. CASE AnsweredAsStream
      <4>1. PICK body :
              record = TraceOf(body, Forwardable(answer.headers), answer.status, TRUE)
        BY <3>3 DEF AnsweredAsStream
      <4>2. answer.status \in 100 .. 999
        BY <3>3, ExchangeAssumption DEF AnsweredAsStream
      <4>. QED
        BY <2>1, <4>1, <4>2 DEF TraceOf, TokensSeen
    <3>. QED
      BY <2>2, <3>1, <3>2, <3>3, RecordKnown
  <2>. QED
    BY ZenonT(30), <2>2 DEF ExchangeInv, TypeOK
<1>. QED
  BY <1>1, <1>2, <1>3, ToldInvariant, ExchangeInvariant, PTL DEF Spec

\* A record says of the upstream what the upstream did.
THEOREM RecordTrue == Spec => []RecordCovers
<1>1. ExchangeInv => RecordCovers
  <2>. SUFFICES ASSUME ExchangeInv, record # None PROVE RecordCovers
    BY DEF RecordCovers
  <2>1. CASE Failed
    BY <2>1 DEF Failed, Failure, Own, TraceOf, TokensSeen, TokensOf, NoBody, NoHeaders,
                Scrub, Lossy, RecordCovers
  <2>2. \A headers : DOMAIN Scrub(Forwardable(headers)) = DOMAIN headers \ HOP_BY_HOP
    BY DEF Scrub, Forwardable, Restrict
  <2>3. CASE AnsweredWhole
    BY <2>2, <2>3 DEF AnsweredWhole, Passed, TraceOf, RecordCovers
  <2>4. CASE AnsweredAsStream
    <3>1. PICK body :
            /\ got = Passed(HeadersOfStream, body.text)
            /\ record = TraceOf(body, Forwardable(answer.headers), answer.status, TRUE)
      BY <2>4 DEF AnsweredAsStream
    <3>2. IsSse(answer.headers)
      BY <2>4 DEF AnsweredAsStream
    <3>. QED
      BY <2>2, <3>1, <3>2 DEF Passed, TraceOf, RecordCovers
  <2>. QED
    BY <2>1, <2>3, <2>4, RecordKnown
<1>. QED
  BY <1>1, ExchangeInvariant, PTL

\* The switch for content takes the bodies and leaves the model and the tokens.
THEOREM ContentGated == Spec => []MetadataKept
<1>1. ExchangeInv => MetadataKept
  <2>. SUFFICES ASSUME ExchangeInv, record # None PROVE MetadataKept
    BY DEF MetadataKept
  <2>1. CASE Failed
    BY <2>1 DEF Failed, Failure, Own, TraceOf, ModelOf, MetadataKept
  <2>2. CASE AnsweredWhole
    BY <2>2 DEF AnsweredWhole, Passed, TraceOf, TokensSeen, ModelOf, MetadataKept
  <2>3. CASE AnsweredAsStream
    <3>1. PICK body :
            record = TraceOf(body, Forwardable(answer.headers), answer.status, TRUE)
      BY <2>3 DEF AnsweredAsStream
    <3>. QED
      BY <3>1 DEF TraceOf, ModelOf, MetadataKept
  <2>. QED
    BY <2>1, <2>2, <2>3, RecordKnown
<1>. QED
  BY <1>1, ExchangeInvariant, PTL

\* A header value that survives scrubbing came under a name that is not scrubbed.
LEMMA ScrubKeepsOpen ==
  ASSUME NEW headers,
         NEW v \in ValuesUnder(Scrub(Forwardable(headers)),
                               DOMAIN Scrub(Forwardable(headers))),
         v \notin {"[REDACTED]", "[non-utf8]"}
  PROVE  v \in ValuesUnder(headers, DOMAIN headers \ SCRUBBED_HEADER_NAMES)
<1>. DEFINE kept == Scrub(Forwardable(headers))
<1>1. PICK name \in DOMAIN kept : v \in Range(kept[name])
  BY DEF ValuesUnder
<1>2. PICK i \in DOMAIN kept[name] : v = kept[name][i]
  BY <1>1 DEF Range
<1>3. name \in DOMAIN headers \ HOP_BY_HOP
  BY DEF Scrub, Forwardable, Restrict
<1>4. DOMAIN kept[name] = DOMAIN headers[name]
  BY <1>3 DEF Scrub, Forwardable, Restrict
<1>5. name \notin SCRUBBED_HEADER_NAMES /\ v = headers[name][i]
  BY <1>2, <1>3, <1>4 DEF Scrub, Forwardable, Restrict
<1>6. v \in Range(headers[name])
  BY <1>2, <1>4, <1>5 DEF Range
<1>. QED
  BY <1>3, <1>5, <1>6 DEF ValuesUnder

\* No value that came under a scrubbed name only is in the headers of a record.
THEOREM SecretsOut == Spec => []SecretsStayOut
<1>1. ExchangeInv => SecretsStayOut
  <2>. SUFFICES ASSUME ExchangeInv, record # None PROVE SecretsStayOut
    BY DEF SecretsStayOut
  <2>. DEFINE came == {req.headers} \union
                        (IF answer = None THEN {} ELSE {answer.headers})
              open == (UNION {DOMAIN headers : headers \in came}) \ SCRUBBED_HEADER_NAMES
              fields == {record.request_headers, record.response_headers}
  <2>1. \A field \in fields :
          \/ field = NoHeaders
          \/ \E headers \in came : field = Scrub(Forwardable(headers))
    <3>1. CASE Failed
      <4>1. Scrub(NoHeaders) = NoHeaders
        BY DEF Scrub, NoHeaders
      <4>. QED
        BY <3>1, <4>1 DEF Failed, Failure, TraceOf
    <3>2. CASE AnsweredWhole
      BY ZenonT(30), <3>2, ExchangeAssumption DEF AnsweredWhole, TraceOf
    <3>3. CASE AnsweredAsStream
      <4>1. PICK body :
              record = TraceOf(body, Forwardable(answer.headers), answer.status, TRUE)
        BY <3>3 DEF AnsweredAsStream
      <4>2. answer # None
        BY <3>3, ExchangeAssumption DEF AnsweredAsStream
      <4>. QED
        BY <4>1, <4>2 DEF TraceOf
    <3>. QED
      BY <3>1, <3>2, <3>3, RecordKnown
  <2>2. ASSUME NEW field \in fields, NEW v \in ValuesUnder(field, DOMAIN field),
               v \notin {"[REDACTED]", "[non-utf8]"}
        PROVE  v \in UNION {ValuesUnder(headers, open) : headers \in came}
    <3>1. field # NoHeaders
      BY <2>2 DEF ValuesUnder, NoHeaders
    <3>2. PICK source \in came : field = Scrub(Forwardable(source))
      BY <2>1, <2>2, <3>1
    <3>3. v \in ValuesUnder(source, DOMAIN source \ SCRUBBED_HEADER_NAMES)
      BY <2>2, <3>2, ScrubKeepsOpen
    <3>4. PICK name \in DOMAIN source \ SCRUBBED_HEADER_NAMES :
            v \in Range(source[name])
      BY <3>3 DEF ValuesUnder
    <3>5. name \in open
      <4>1. name \in DOMAIN source /\ name \notin SCRUBBED_HEADER_NAMES
        BY <3>4
      <4>. HIDE DEF came
      <4>2. DOMAIN source \in {DOMAIN h : h \in came}
        BY <3>2
      <4>3. name \in UNION {DOMAIN h : h \in came}
        BY <4>1, <4>2
      <4>. QED
        BY <4>1, <4>3
    <3>6. v \in ValuesUnder(source, open)
      BY <3>4, <3>5 DEF ValuesUnder
    <3>. QED
      BY <3>6
  <2>. QED
    BY <2>2 DEF SecretsStayOut
<1>. QED
  BY <1>1, ExchangeInvariant, PTL
================================================================================
