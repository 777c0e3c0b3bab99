-------------------------------- MODULE Exchange --------------------------------
(****************************************************************************)
(* What one exchange carries (server.rs, proxy.rs): the route a request     *)
(* takes, the size limit on its body, the headers that cross the proxy in   *)
(* either direction, and the content of the trace record.  It composes with *)
(* Startup, whose configuration it obeys; exchanges run one at a time, as   *)
(* nothing here is shared between them.  When a client leaves, and how a    *)
(* stream is relayed chunk by chunk, is the subject of Proxy and            *)
(* StreamRelay.                                                             *)
(*                                                                          *)
(* A header map is a function from names to the sequences of their values;  *)
(* scrub_headers' joined text is left as that sequence.  What reqwest and   *)
(* hyper add to a message, and the identifiers, times and provider of a     *)
(* record, are left out.                                                    *)
(*                                                                          *)
(* A "Variant" is a faulty form of the definition that follows it; no       *)
(* specification uses it.                                                   *)
(****************************************************************************)
EXTENDS Startup, Functions

CONSTANTS
  None,             \* Option::None
  Odd,              \* a JSON value that is not of the type looked for
  Opaque,           \* a header value that HeaderValue::to_str refuses
  Requests,         \* [method, path, headers, body: [text, model]]
  FrameSizes,       \* sizes of the pieces a request body arrives in
  Answers           \* [status, headers, body: [text, usage]]

ASSUME ExchangeAssumption ==
  /\ FrameSizes \subseteq Nat \ {0}
  /\ None \notin Requests \union Answers
  /\ None # Odd
  /\ \A upstream \in Answers :
       /\ upstream.status \in 100 .. 999
       /\ LET usage == upstream.body.usage
          IN  usage # None => {usage.prompt, usage.completion, usage.total} \subseteq
                                Nat \union {None, Odd}

VARIABLES
  phase,            \* where forward() is
  req,              \* the request
  arrived,          \* bytes of its body the proxy has been given
  sent,             \* what the upstream received
  answer,           \* what the upstream answered
  got,              \* what the client got
  record            \* the trace submitted

exchangeVars == <<phase, req, arrived, sent, answer, got, record>>
vars == <<startVars, exchangeVars>>

Idle ==
  /\ phase = "idle"
  /\ arrived = 0
  /\ req = None
  /\ sent = None
  /\ answer = None
  /\ got = None
  /\ record = None

Init == StartInit /\ Idle

----------------------------------------------------------------------------
\* Headers.

NoHeaders == [name \in {} |-> <<>>]

HOP_BY_HOP == {"connection", "keep-alive", "proxy-authenticate", "proxy-authorization",
               "proxy-connection", "te", "trailers", "transfer-encoding", "upgrade",
               "host", "content-length"}

SCRUBBED_HEADER_NAMES == {"authorization", "x-api-key", "api-key",
                          "proxy-authorization", "cookie", "set-cookie"}

\* Variant: insert instead of append, so the last value of a name is what is left.
ForwardLast(headers) ==
  [name \in DOMAIN headers \ HOP_BY_HOP |-> <<headers[name][Len(headers[name])]>>]

\* forwardable_request_headers, forwardable_response_headers
Forwardable(headers) == Restrict(headers, DOMAIN headers \ HOP_BY_HOP)

\* Variant: only the first value of a name is replaced.
ScrubFirst(headers) ==
  [name \in DOMAIN headers |->
     IF name \in SCRUBBED_HEADER_NAMES
     THEN [headers[name] EXCEPT ![1] = "[REDACTED]"]
     ELSE headers[name]]

\* scrub_headers
Scrub(headers) ==
  [name \in DOMAIN headers |->
     [i \in DOMAIN headers[name] |->
        CASE name \in SCRUBBED_HEADER_NAMES -> "[REDACTED]"
          [] headers[name][i] = Opaque -> "[non-utf8]"
          [] OTHER -> headers[name][i]]]

\* is_sse_response: the first value counts, without its parameters and capitals.
StreamTypes == {"text/event-stream", "Text/Event-Stream; charset=utf-8"}

IsSse(headers) ==
  "content-type" \in DOMAIN headers /\ headers["content-type"][1] \in StreamTypes

\* forward_streaming sets two headers, whatever the upstream's were.
WithStreamHygiene(headers) ==
  [name \in DOMAIN headers \union {"x-accel-buffering", "cache-control"} |->
     CASE name = "x-accel-buffering" -> <<"no">>
       [] name = "cache-control" -> <<"no-transform, no-cache">>
       [] OTHER -> headers[name]]

----------------------------------------------------------------------------
\* The trace record.

\* Variant: whatever the member "model" holds.
ModelAny(body) == body.model

\* extract_model; a body without JSON has no model.
ModelOf(body) == IF body.model = Odd THEN None ELSE body.model

Count(value) == IF value = Odd THEN None ELSE value

\* extract_token_usage; a `usage` that is not an object has no counts in it.
TokensOf(body) ==
  IF body.usage = None THEN None
  ELSE [input_tokens |-> Count(body.usage.prompt),
        output_tokens |-> Count(body.usage.completion),
        total_tokens |-> Count(body.usage.total)]

\* String::from_utf8_lossy
Lossy(text) == IF text = "bytes" THEN "replacement characters" ELSE text

\* Variant: the tokens are read from the output that goes into the record.
TokensLeft(body, streamed) ==
  IF streamed \/ ~config.capture_content THEN None ELSE TokensOf(body)

TokensSeen(body, streamed) == IF streamed THEN None ELSE TokensOf(body)

\* emit_trace: content and headers are kept only if the operator asked for them.
TraceOf(body, headers, status, streamed) ==
  LET Kept(content, otherwise) == IF config.capture_content THEN content ELSE otherwise
  IN  [model |-> ModelOf(req.body),
       tokens |-> TokensSeen(body, streamed),
       input |-> Kept(Lossy(req.body.text), ""),
       output |-> Kept(Lossy(body.text), ""),
       request_headers |-> Kept(Scrub(Forwardable(req.headers)), NoHeaders),
       response_headers |-> Kept(Scrub(headers), NoHeaders),
       status |-> status,
       streamed |-> streamed]

NoBody == [text |-> "", usage |-> None]

\* Variant: the status the client is given goes into the record.
FailureAsAnswered == TraceOf(NoBody, NoHeaders, 502, FALSE)

\* emit_trace_failure
Failure == TraceOf(NoBody, NoHeaders, 0, FALSE)

----------------------------------------------------------------------------
\* The exchange.

\* An answer of the proxy's own; its headers and text are left out.
Reply(status) ==
  /\ got' = [by |-> "proxy", status |-> status, headers |-> NoHeaders, text |-> ""]
  /\ phase' = "over"

\* The router answers by itself, except for a POST to PROXY_PATH; `get` takes HEAD too.
RouterAnswer(request) ==
  CASE request.path = "/v1/chat/completions" -> 405
    [] request.path = "/healthz" ->
         IF request.method \in {"GET", "HEAD"} THEN 200 ELSE 405
    [] OTHER -> 404

Routed(request) == request.path = "/v1/chat/completions" /\ request.method = "POST"

Arrive(request) ==
  /\ step = "serving"
  /\ phase = "idle"
  /\ req' = request
  /\ IF Routed(request)
     THEN phase' = "reading" /\ got' = None
     ELSE Reply(RouterAnswer(request))
  /\ UNCHANGED <<arrived, sent, answer, record>>

\* Variant: each piece is compared with the whole limit.
PieceFits(size) == size <= config.max_request_bytes

\* Limited: what has arrived and this piece are within the limit.
Fits(size) == size <= config.max_request_bytes - arrived

ReadPiece(size) ==
  /\ phase = "reading"
  /\ arrived' = arrived + size
  /\ IF Fits(size) THEN UNCHANGED <<phase, got>> ELSE Reply(413)
  /\ UNCHANGED <<req, sent, answer, record>>

BodyBreaks ==
  /\ phase = "reading"
  /\ Reply(400)
  /\ UNCHANGED <<req, arrived, sent, answer, record>>

BodyEnds ==
  /\ phase = "reading"
  /\ phase' = "dialing"
  /\ UNCHANGED <<req, arrived, sent, answer, got, record>>

\* The upstream receives the request.
Send ==
  /\ phase = "dialing"
  /\ phase' = "waiting"
  /\ sent' = [url |-> config.upstream_url, headers |-> Forwardable(req.headers),
              body |-> req.body]
  /\ UNCHANGED <<req, arrived, answer, got, record>>

\* No connection, or no answer; or the body of a buffered answer breaks off.
UpstreamFails ==
  /\ phase \in {"dialing", "waiting", "buffering"}
  /\ Reply(502)
  /\ record' = Failure
  /\ UNCHANGED <<req, arrived, sent, answer>>

\* The head of the answer decides; a stream's goes to the client at once.
UpstreamAnswers(upstream) ==
  LET headers == Forwardable(upstream.headers)
  IN  /\ phase = "waiting"
      /\ answer' = upstream
      /\ IF IsSse(headers)
         THEN /\ phase' = "streaming"
              /\ got' = [by |-> "upstream", status |-> upstream.status,
                         headers |-> WithStreamHygiene(headers), text |-> ""]
         ELSE phase' = "buffering" /\ UNCHANGED got
      /\ UNCHANGED <<req, arrived, sent, record>>

\* forward_buffered
Buffered ==
  /\ phase = "buffering"
  /\ phase' = "over"
  /\ record' = TraceOf(answer.body, Forwardable(answer.headers), answer.status, FALSE)
  /\ got' = [by |-> "upstream", status |-> answer.status,
             headers |-> Forwardable(answer.headers), text |-> answer.body.text]
  /\ UNCHANGED <<req, arrived, sent, answer>>

\* The relay has come to the end of the stream, or to where it breaks off.
Streamed(whole) ==
  LET body == IF whole THEN answer.body ELSE [answer.body EXCEPT !.text = "cut off"]
  IN  /\ phase = "streaming"
      /\ phase' = "over"
      /\ record' = TraceOf(body, Forwardable(answer.headers), answer.status, TRUE)
      /\ got' = [got EXCEPT !.text = body.text]
      /\ UNCHANGED <<req, arrived, sent, answer>>

Finish ==
  /\ phase = "over"
  /\ phase' = "idle"
  /\ arrived' = 0
  /\ req' = None
  /\ sent' = None
  /\ answer' = None
  /\ got' = None
  /\ record' = None

ExchangeNext ==
  \/ \E request \in Requests : Arrive(request)
  \/ \E size \in FrameSizes : ReadPiece(size)
  \/ BodyBreaks \/ BodyEnds
  \/ Send \/ UpstreamFails
  \/ \E upstream \in Answers : UpstreamAnswers(upstream)
  \/ Buffered \/ \E whole \in BOOLEAN : Streamed(whole)
  \/ Finish

\* main() moves on between exchanges; the writer may get to a record it was given.
Next ==
  \/ phase = "idle" /\ MainNext /\ UNCHANGED exchangeVars
  \/ record # None /\ Record /\ UNCHANGED exchangeVars
  \/ ExchangeNext /\ UNCHANGED startVars

Spec == Init /\ [][Next]_vars

----------------------------------------------------------------------------
\* Properties.

Tokens == Nat \union {None}

\* Every variable holds what its declaration says, a record what its Rust type allows.
TypeOK ==
  /\ StartTypeOK
  /\ phase \in {"idle", "reading", "dialing", "waiting", "buffering", "streaming", "over"}
  /\ req \in Requests \union {None}
  /\ arrived \in Nat
  /\ answer \in Answers \union {None}
  /\ record # None =>
       /\ record.model # Odd
       /\ record.status \in {0} \union 100 .. 999
       /\ record.tokens # None =>
            {record.tokens.input_tokens, record.tokens.output_tokens,
             record.tokens.total_tokens} \subseteq Tokens

TooLarge == arrived > config.max_request_bytes

\* The upstream is dialled for a body of exactly the limit and not for one byte more,
\* however the body is cut into pieces; 413 goes to none that is within the limit, and
\* whoever is refused is not dialled for and leaves no record.
LimitExact ==
  /\ phase \in {"dialing", "waiting", "buffering", "streaming"} => ~TooLarge
  /\ got # None /\ got.by = "proxy" =>
       /\ got.status = 413 <=> TooLarge
       /\ got.status # 502 => sent = None /\ record = None

\* `to` has all that `from` had to pass on: no header that is for one hop only, and of
\* every other all values in their order.
Carried(from, to) ==
  \A name \in DOMAIN from \union DOMAIN to :
    IF name \in HOP_BY_HOP THEN name \notin DOMAIN to
    ELSE /\ name \in DOMAIN from \intersect DOMAIN to
         /\ to[name] = from[name]

\* Headers with several values cross the proxy whole, in both directions; a stream's
\* answer differs in the two headers the proxy sets, and only in those.
WireHeaders ==
  /\ sent # None => Carried(req.headers, sent.headers)
  /\ got # None /\ got.by = "upstream" =>
       Carried(IF IsSse(answer.headers) THEN WithStreamHygiene(answer.headers)
               ELSE answer.headers, got.headers)

ValuesUnder(headers, names) ==
  UNION {Range(headers[name]) : name \in names \intersect DOMAIN headers}

\* No value that came under a scrubbed name, from either side, is in a record's headers,
\* unless the same value also came under a name that is not scrubbed.
SecretsStayOut ==
  record # None =>
    LET came == {req.headers} \union (IF answer = None THEN {} ELSE {answer.headers})
        Came(names) == UNION {ValuesUnder(headers, names) : headers \in came}
        open == (UNION {DOMAIN headers : headers \in came}) \ SCRUBBED_HEADER_NAMES
        kept == UNION {ValuesUnder(headers, DOMAIN headers) :
                         headers \in {record.request_headers, record.response_headers}}
        placeholders == {"[REDACTED]", "[non-utf8]"}
    IN  (kept \ placeholders) \intersect Came(SCRUBBED_HEADER_NAMES) \subseteq Came(open)

\* A record tells of the upstream, not of what the proxy made of it: its status and, if
\* kept, its headers and its text, as the client got it; and nothing of these, status 0,
\* when the client was told 502.
RecordCovers ==
  phase = "over" /\ record # None =>
    IF got.by = "proxy"
    THEN /\ record.status = 0 /\ record.output = "" /\ record.tokens = None
         /\ DOMAIN record.response_headers = {} /\ ~record.streamed
    ELSE /\ record.status = answer.status
         /\ record.streamed <=> IsSse(answer.headers)
         /\ config.capture_content =>
              /\ DOMAIN record.response_headers = DOMAIN answer.headers \ HOP_BY_HOP
              /\ record.output = Lossy(got.text)

\* The switch for content takes the texts and not what was derived from them: without it
\* a record holds no body, but still the model and, of an answer that is not a stream,
\* the tokens.  config.rs also counts the scrubbed headers as metadata, which emit_trace
\* leaves out with the content; the property says nothing of them.
MetadataKept ==
  phase = "over" /\ record # None =>
    /\ ~config.capture_content => record.input = "" /\ record.output = ""
    /\ req.body.model # Odd => record.model = req.body.model
    /\ got.by = "upstream" /\ ~record.streamed => record.tokens = TokensOf(answer.body)
================================================================================
