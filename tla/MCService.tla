-------------------------------- MODULE MCService --------------------------------
(****************************************************************************)
(* Instances for Exchange and Startup.                                      *)
(****************************************************************************)
EXTENDS Exchange, TLC

\* One machine word is scaled down to what TLC's integers hold.
WordMaxDef == 2000000000
MaxPermitsDef == 268435456

----------------------------------------------------------------------------
\* Environments: any upstream, and at most two other variables set.

Good == Url("https", "api", 0)

Upstreams ==
  {Unset, Text(""), Text("not a url"), Url("ftp", "api", 0), Url("https", "", 0),
   Good, Url("https", "api", 2), Url("http", "api", 1), Url("http", "127.*", 1),
   Url("https", "metadata.azure.com", 0), Url("http", "169.254.169.254", 0)}

Settings ==
  [listen |-> {Address, Text("nowhere")},
   allow_plaintext |-> {Text("on"), Text("no"), Text("maybe")},
   log_channel_capacity |->
     {Number(0), Number(1), Number(MaxPermitsDef), Number(MaxPermitsDef + 1),
      Number(WordMaxDef + 1), Text("")},
   capture_content |-> {Text("1"), Text(""), Text("maybe")},
   max_request_bytes |-> {Number(0), Number(3), Text("10M")},
   connect_timeout |-> {Number(0), Text("soon")},
   read_timeout |-> {Number(WordMaxDef + 1)}]

EnvsDef ==
  {[name \in DOMAIN Settings \union {"upstream_url"} |->
      IF name = "upstream_url" THEN upstream
      ELSE IF name = first THEN v
      ELSE IF name = second THEN w
      ELSE Unset] :
     upstream \in Upstreams, <<first, v, second, w>> \in
       UNION {{<<a, x, b, y>> : x \in Settings[a], y \in Settings[b] \union {Unset}} :
              <<a, b>> \in (DOMAIN Settings) \X (DOMAIN Settings)}}

\* Exchanges are looked at under these: a limit of three bytes, content kept or not.
ExchangeEnvs ==
  {e \in EnvsDef : /\ e.upstream_url = Good
                   /\ e.max_request_bytes = Number(3)
                   /\ e.capture_content \in {Unset, Text("1")}
                   /\ {e[name] : name \in DOMAIN e \ {"upstream_url", "max_request_bytes",
                                                       "capture_content"}} = {Unset}}

Explored == phase = "idle" \/ (env \in ExchangeEnvs /\ told = {})

----------------------------------------------------------------------------
\* Messages.

Body(text, model) == [text |-> text, model |-> model]

Full ==
  [authorization |-> <<"key">>, cookie |-> <<"cookie 1", "cookie 2">>,
   accept |-> <<"text", Opaque>>, connection |-> <<"close">>]
   @@ [name \in {"proxy-authorization"} |-> <<"proxy key">>]

RequestsDef ==
  {[method |-> m, path |-> p, headers |-> NoHeaders, body |-> Body("", None)] :
     m \in {"GET", "HEAD", "POST"}, p \in {"/v1/chat/completions", "/healthz", "/other"}}
  \union
  {[method |-> "POST", path |-> "/v1/chat/completions", headers |-> Full, body |-> b] :
     b \in {Body("prompt", "model"), Body("prompt", Odd), Body("bytes", None)}}

Type(values) == [name \in {"content-type"} |-> values]

Cookies == [name \in {"set-cookie", "transfer-encoding", "cache-control"} |->
              CASE name = "set-cookie" -> <<"session 1", "session 2">>
                [] name = "transfer-encoding" -> <<"chunked">>
                [] OTHER -> <<"private", "max-age=1">>]

AnswersDef ==
  {[status |-> s, headers |-> h @@ Cookies, body |-> [text |-> t, usage |-> u]] :
     s \in {200, 502},
     h \in {NoHeaders, Type(<<"application/json", "text/event-stream">>),
            Type(<<"Text/Event-Stream; charset=utf-8">>), Type(<<Opaque>>)},
     t \in {"completion", "bytes"},
     u \in {None, [prompt |-> 1, completion |-> 2, total |-> 3],
            [prompt |-> 1, completion |-> Odd, total |-> None]}}
================================================================================
