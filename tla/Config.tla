--------------------------------- MODULE Config ---------------------------------
(****************************************************************************)
(* How the proxy reads its settings from the environment: from_lookup and   *)
(* validate_upstream_url in config.rs.  A variable is unset, a text, a      *)
(* number, an address or a URL.  Texts are given without the white space    *)
(* and the capitals the code ignores, and a URL by what Url::parse finds in *)
(* it and by the slashes it ends with.  LOG_PATH may be anything.           *)
(*                                                                          *)
(* A "Variant" is a faulty form of the definition that follows it; no       *)
(* specification uses it.                                                   *)
(****************************************************************************)
EXTENDS Naturals, Sequences, FiniteSetsExt

CONSTANTS
  WordMax,          \* the largest usize and the largest u64
  MaxPermits        \* the largest capacity mpsc::channel takes

DefaultCapacity == 1024
DefaultLimit == 10 * 1024 * 1024

ASSUME ConfigAssumption ==
  /\ WordMax \in Nat
  /\ MaxPermits \in DefaultCapacity .. WordMax
  /\ DefaultLimit <= WordMax

Unset == [is |-> "unset"]
Text(t) == [is |-> "text", text |-> t]
Number(n) == [is |-> "number", number |-> n]
Address == [is |-> "address"]
Url(scheme, host, slashes) ==
  [is |-> "url", scheme |-> scheme, host |-> host, slashes |-> slashes]

IsValue(value) ==
  CASE value.is = "text" -> value = Text(value.text)
    [] value.is = "number" -> value.number \in Nat /\ value = Number(value.number)
    [] value.is = "url" ->
         value.slashes \in Nat /\ value = Url(value.scheme, value.host, value.slashes)
    [] OTHER -> value \in {Unset, Address}

Names == {"listen", "upstream_url", "allow_plaintext", "log_channel_capacity",
          "capture_content", "max_request_bytes", "connect_timeout", "read_timeout"}

IsEnvironment(env) == DOMAIN env = Names /\ \A name \in Names : IsValue(env[name])

----------------------------------------------------------------------------
\* One variable.

TrueTexts == {"1", "true", "yes", "on"}
FalseTexts == {"0", "false", "no", "off", ""}

IsBool(raw) ==
  raw = Unset \/ (raw.is = "text" /\ raw.text \in TrueTexts \union FalseTexts)

\* parse_bool_env; both switches are off by default.
ParseBool(raw) == raw.is = "text" /\ raw.text \in TrueTexts

\* A usize or u64, or the default.
IsWord(raw) == raw = Unset \/ (raw.is = "number" /\ raw.number <= WordMax)

ParseWord(raw, default) == IF raw = Unset THEN default ELSE raw.number

BannedHosts == {"169.254.169.254", "metadata.google.internal", "metadata.azure.com",
                "metadata.azure.internal"}

\* "127.*" stands for any other host that starts with "127.".
LoopbackHosts == {"localhost", "127.0.0.1", "[::1]", "::1", "127.*"}

\* Variant: the switch for plaintext turns the whole host policy off.
UrlAllowedOrPlain(url, plain) ==
  /\ url.is = "url"
  /\ url.scheme \in {"http", "https"}
  /\ \/ plain
     \/ url.host \notin BannedHosts /\ (url.scheme = "http" => url.host \in LoopbackHosts)

\* validate_upstream_url
UrlAllowed(url, plain) ==
  /\ url.is = "url"
  /\ url.scheme \in {"http", "https"}
  /\ url.host \notin {""} \union BannedHosts
  /\ url.scheme = "http" => url.host \in LoopbackHosts \/ plain

\* One slash at the end of the URL is taken off.
TrimTrailingSlash(url) == [url EXCEPT !.slashes = IF @ > 0 THEN @ - 1 ELSE 0]

----------------------------------------------------------------------------
\* from_lookup: checks in their order, each with the variable its error names.

\* Variant: every limit complains about the capacity.
PositiveCopied(name, raw) == <<"log_channel_capacity", IsWord(raw) /\ raw # Number(0)>>

\* The capacity and the size limit must not be zero.
Positive(name, raw) == <<name, IsWord(raw) /\ raw # Number(0)>>

\* The URL is looked at twice: it must be there, and later it must be allowed.
Checks(env) ==
  << <<"listen", env.listen \in {Unset, Address}>>,
     <<"upstream_url", env.upstream_url \notin {Unset, Text("")}>>,
     <<"allow_plaintext", IsBool(env.allow_plaintext)>>,
     <<"upstream_url", UrlAllowed(env.upstream_url, ParseBool(env.allow_plaintext))>>,
     Positive("log_channel_capacity", env.log_channel_capacity),
     <<"capture_content", IsBool(env.capture_content)>>,
     Positive("max_request_bytes", env.max_request_bytes),
     <<"connect_timeout", IsWord(env.connect_timeout)>>,
     <<"read_timeout", IsWord(env.read_timeout)>> >>

Failing(env) == {i \in DOMAIN Checks(env) : ~Checks(env)[i][2]}

\* The first check that fails returns its error.
Complaint(env) == Checks(env)[Min(Failing(env))][1]

Accepts(env) == Failing(env) = {}

\* What the rest of the program gets.
Loaded(env) ==
  [upstream_url |-> TrimTrailingSlash(env.upstream_url),
   log_channel_capacity |-> ParseWord(env.log_channel_capacity, DefaultCapacity),
   capture_content |-> ParseBool(env.capture_content),
   max_request_bytes |-> ParseWord(env.max_request_bytes, DefaultLimit),
   connect_timeout |-> ParseWord(env.connect_timeout, 10),
   read_timeout |-> ParseWord(env.read_timeout, 600)]
================================================================================
