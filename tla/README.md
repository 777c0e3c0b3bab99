# A TLA+ model of the Replayable L4 proxy

The repository is a monorepo whose one working program is `crates/replayable-proxy`
(Rust, tokio, axum): an HTTP proxy that forwards `POST /v1/chat/completions` to an LLM
upstream and writes one `AgentTrace` record per request to a JSONL file. Everything
else (Python, TypeScript and Go packages, the web UI) is a versioned placeholder.
This directory models the proxy, checks the models with TLC and proves the main
results with TLAPS. Paths below are relative to `crates/replayable-proxy/`.

## 1. Inventory

| Component | Source | State | Operations | What makes it correct |
|---|---|---|---|---|
| Trace pipeline | `src/trace.rs` | bounded channel, `dropped` counter, `since_flush`, flush deadline, `BufWriter`, file | `spawn_pipeline`, `TraceWriter::clone/submit`, `writer_loop`, `write_one`, three flushes | no accepted record lost, repeated or reordered without a fault; flushed in time; ends exactly when all writers are gone; bounded loss in a crash |
| Request forwarding | `src/proxy.rs` | one handler per request, the shared `AppState` | `forward`, `forward_buffered`, `emit_trace`, header filters | one trace per dialled request that is not cancelled, before a buffered answer; none for refused ones |
| Streaming relay | `src/proxy.rs` | spawned task, `aggregated`, chunk channel of 64, response body | `forward_streaming`, `ReceiverStream` | gapless relay, back-pressure, truncated streams look truncated, a trace for every stream |
| Process life cycle | `src/main.rs`, `src/shutdown.rs` | the step of `main`, the server future, main's writer, the writer task | load, open, build, bind, serve, signal, drain, drop writer, wait 30 s, exit code | a failed start harms nothing; shutdown ends; a clean exit has every trace on disk |
| Router and probe | `src/server.rs` | none | routes, `/healthz`, 404 | only a POST to the proxy's path is dialled or traced |
| Configuration | `src/config.rs` | none (pure) | `from_lookup`, `validate_upstream_url` | accepts only values the rest can run with; upstream policy; errors that name the variable to put right |
| Python, TypeScript, Go, UI, infra, docs | `python/`, `ts/`, `go/`, `ui/`, `infra/`, `docs/`, `research/` | - | - | placeholders, container files and prose; not modelled |

Interactions. `main` spawns the writer task and keeps one `TraceWriter`; the router's
`AppState` holds a second; each running handler shares that state, and a relay task
owns a clone of it after its handler has returned. Handlers and relays call
`submit`, which never waits. The writer task ends when every owner is gone. The
server's graceful shutdown waits for connections, not for relay tasks.

What is hard to test here: producers, receive loop and flush timer interleave; tokio's
`File` reports a failed write at the next operation only; cancellation drops a handler
at any `await`; relay tasks outlive the connections the server waits for; a client's
departure is noticed late; a write can be cut anywhere in a line, and the loop or the
next process goes on from there; the checks of the configuration hang together.
`PROJECT.json` lists each hazard at its line with the property that watches it.

## 2. Modules

    TraceLog            what the pipeline promises (abstract specification)
      ^ implemented by
    TracePipeline       trace.rs, with faults     <- MCTracePipeline, TracePipelineProofs
      ^ used by (INSTANCE)
    Proxy               main.rs, forward()        <- MCProxy, ProxyProofs, ExitProofs

    StreamedBody        what a streamed response promises (abstract specification)
      ^ implemented by
    StreamRelay         forward_streaming(): one stream  <- StreamRelayProofs

    TraceLog
      ^ implemented by
    JsonlWriter         write_one(), BufWriter, File  <- JsonlWriterProofs,
                                                     JsonlLinesProofs, JsonlLogProofs

    Config              config.rs, as operators
      ^ extended by
    Startup             main() up to the server, and the next start
      ^ extended by
    Exchange            routes, limit, headers, records   <- MCService, ServiceProofs

### TraceLog and TracePipeline

`TraceLog` knows three things: how many records were accepted, which are pending, and
the log. Pending records move to the end of the log in order; with faults, some may
vanish. `LiveSpec` adds that, without losses, they all arrive.

`TracePipeline` follows the code. A record is the number of its acceptance.

| State | In the code |
|---|---|
| `handles` | owners of a `TraceWriter` whose sender is live |
| `queue` | the mpsc channel |
| `accepted`, `dropped`, `refused` | submissions that returned `Ok`, `Full` (the `dropped` counter), `Closed` |
| `pc`, `hand` | where `writer_loop` stands; the record `write_one` works on |
| `sinceFlush`, `due` | `since_flush`; whether `deadline` has passed |
| `buf` | records in the `BufWriter` or in the write tokio's `File` has in flight |
| `file` | records whose line is in the file |
| `incidents` | which faults have happened (bookkeeping for the properties) |

`RecvTrace`, `RecvClosed` and `Tick` are the arms of the biased `select!` (so `Tick`
needs an empty channel); a submission between the poll of `recv` and that of the timer
is the same as one just after the tick. `WriteOne` includes the batch test, `Flush` the
reset of the counter and of the deadline, `FlushFails` the reset that happens all the
same. `Spill` is the `BufWriter` passing full buffers on. `WriteFails` and `FlushFails`
lose what an earlier background write carried, because that is what the reported error
is about. `DrainTimesOut` is the end of `main` after 30 s; `Crash` and `Restart` are a
kill and a new process on the same file.

### JsonlWriter

The same log, one level down: where every byte of a line is. The JSON of a record is a
sequence of pieces, its newline one more.

| State | In the code |
|---|---|
| `size`, `taken` | the records accepted, by their length; how many have left the channel |
| `pc` | the `write_all` or flush in which `writer_loop` waits |
| `todo` | what the running `write_all` has still to write |
| `bw` | the `BufWriter` |
| `op` | the one write tokio's `File` has in flight on its blocking thread |
| `disk` | the file |
| `failed` | that write failed, and nobody has been told |
| `faults` | how many faults there were (bookkeeping) |

The actions of the `BufWriter` and the `File` are external code, modelled from how
`write_one` and `writer_loop` use it: what does not fit is kept back until the buffer is
empty (`PushBuffer`), a write as large as the buffer goes past it (`WritePastBuffer`), a
flush waits for the disk (`FlushEnds`), and a failed write is reported by the next
operation (`Fails`). `Skip` is what the loop does with such a report: it drops the rest
of the record and goes on with the next one, on the same line. `Down` is the end of the
task, by a kill or because `main` gave up waiting; in the second case the write in flight
still completes.

`JsonlWriter` implements `TraceLog` by itself. Its log is what a reader finds line by
line (`Readable`), and pending is what may still become readable. `TracePipeline` is not
its abstraction: there `file` holds the records whose bytes were all written, whether or
not a line before them was cut short. When the loop flushes is `TracePipeline`'s matter;
here a flush may come between any two records.

### Config, Startup and Exchange

`Config` gives `from_lookup` as a list of checks in the order of the code, each with the
variable its error names (`Checks`, `Complaint`), the upstream policy (`UrlAllowed`) and
the result (`Loaded`). A variable is unset, a text, a number, an address or a URL.

`Startup` is `main` before the server runs. `step` is how far it is; each failure ends it
with its exit code, and a capacity that `mpsc::channel` refuses with a panic (101), before
the log is opened. `log` is the file as the starts see it, `found` what it was when the
process began. The operator starts the proxy again after putting right the variable an
error named (`Repair`); `told` is what has been named so far.

`Exchange` extends `Startup` with what happens while the process serves. `phase` is where
`forward` is; `sent`, `answer` and `got` are the request the upstream received, what it
answered, and what the client was given (`by` whom), `record` the trace submitted. A
header map is a function from names to sequences of values, `Forwardable` and `Scrub` the
two filters, `TraceOf` the record `emit_trace` makes. Exchanges share no data, so they run
one at a time, and `main` moves only between them; the interleavings are `Proxy`'s.

### Proxy

`Proxy` instantiates `TracePipeline` on its own variables. Each request moves through
`phase` (reading, dialing, buffering, returning, answered / streaming, closed), and a
streamed one also through `relay`. A step that takes, uses or drops a writer conjoins
the pipeline's `Clone`, `Submit` or `DropHandle`. A request stands for the owner of its
writer: first its handler, then its relay. `main` moves from serving to closing (signal),
stopped (`server.await` returned), waiting (writer dropped) and exited. `Drained` is what
`server.await` waits for: a connection without a request under way is closed. `Reject`
covers the 405, 413 and 400 answers, which differ in nothing the properties see.

### StreamedBody and StreamRelay

`StreamedBody` knows what was read from the upstream, what the client has, how the
response and the upstream's body end, and the trace: chunks go from one to the next in
turn, a response ends properly only with the whole of a body that has ended, and one
trace holds all that was read.

`StreamRelay` is one stream. The task copies a chunk (`aggregated`), sends it
(`channel`, bounded), and after the loop closes the channel and submits; the server
polls, the client receives until it leaves, the server notices later and drops the body
with what is still queued. Item 0 in the channel is the `Err` of a failed upstream (`IsChunk`).
`received` is what the server wrote while the client was there; the last of it may still
be lost on the way, which only shortens what the client has. `overrun` counts chunks
read after the body was dropped. In `Proxy` a stream is this, seen from outside.

Definitions called "Variant" in the modules are deliberately faulty forms of the
definition that follows them. No specification uses them; each breaks one property when
it replaces its correct form, which shows that the property can fail.

## 3. Runs

| Run | Result | Question |
|---|---|---|
| `pipeline_healthy` | passes | Without faults: is every accepted record written, even the last of a quiet period (`Durable`), does the writer end (`ShutdownCompletes`) with everything in the file (`CleanExitKeepsAll`), as `TraceLog!LiveSpec` demands? |
| `pipeline_faults` | passes | With write errors, kills, restarts and the drain deadline: are order, uniqueness and append-only kept, is loss bounded (`LossBound`), is `TraceLog!Spec` implemented? |
| `pipeline_stranded` | violated | Is a buffered record flushed within an interval? Not after a flush that reported an earlier error. |
| `stream_relay` | passes | Is the relay gapless, bounded, honest about truncation, always traced, and does it keep the promise of `StreamedBody`? |
| `stream_disconnect` | violated | Does the partial trace of a stream that stopped on a failed send hold only what the client received? Not the chunk whose send failed. |
| `proxy` | passes | Who owns writers (`WritersAccounted`), which trace goes with which answer (`RecordMatchesReply`), what does a clean exit guarantee (`CleanExitAccounts`), does every request give its writer back whoever leaves (`WritersReleased`), is every stream traced (`StreamsTraced`), does shutdown end (`ShutdownEnds`)? |
| `proxy_trickle` | violated | Does shutdown end when an upstream keeps streaming? |
| `proxy_giveup` | violated | Is every in-flight trace written before the exit? |
| `proxy_status` | violated | Does status 0 mean that there was no response? |
| `jsonl` | passes | With failing writes, kills and the deadline anywhere in a line: are lines whole while nothing fails (`LinesIntact`), does a fault spoil at most two (`DamageBounded`), is no byte doubled or displaced (`PiecesInOrder`), is the file as a reader sees it the log of `TraceLog`? |
| `jsonl_glued` | violated | Is every record on a line of its own? Not after a flush that reported a write cut in the middle of a line. |
| `service` | passes | Starts: is nobody told twice of one variable (`ToldOnce`), does a failed start leave the log alone (`FailedStartHarmless`), are the settings of a serving process sound (`ServesSafely`)? Exchanges: is the limit exact (`LimitExact`), do headers cross whole (`WireHeaders`), does a record say what happened (`RecordCovers`) and keep no secret (`SecretsStayOut`), no body unasked, but the model and the tokens (`MetadataKept`)? |

The violated runs check sentences of the repository's docs and tests; `PROJECT.json`,
"findings", quotes them.

Bounds. Pipeline: capacity 2 and batch 2 with 5 submissions and two owners let the
channel overflow twice, batches complete, an interval flush meet a partial batch, and a
restart follow a loss. Stream: channel 2 and 6 chunks let the task block, run ahead
fully, and be lost in the middle. Proxy: two requests and capacity 1 let one request's
trace push out the other's, with one buffered and one streamed; `MaxSubmits` is above
what two requests can submit. Counters are bounded by the guards on `MaxSubmits` and
`MaxChunks` only.

JsonlWriter: a `BufWriter` of 2 and writes of at most 3 pieces, with records of 1, 2 and 4:
records share the buffer, fill it exactly, go past it, and are cut by the `File`. Three
records and three faults let a fault hit the line that an earlier one spoiled, and let
two starts follow a kill. The 2 in `DamageBounded` is needed: with 1 the run fails. With
three records the bound says something for one fault only; for more it is the theorem
`DamageIsBounded` that speaks. `jsonl_glued` has two records and one fault, so that the
error can only be reported by the flush after the first.

Service: any of 11 upstreams with at most two other variables set, each to good and bad
values, at the boundaries 0, 1, the most permits, one more, and one more than a word
(`WordMax`, scaled down to TLC's integers). Two wrong variables beside the upstream are
enough for an error to hide another. Exchanges are explored from a first start
(`Explored`) with a limit of 3 bytes and pieces of 1 to 3, so that bodies end below, at and
above the limit, with content kept and not kept. Nothing in an exchange depends on how
the settings came about.

Fairness. `TracePipeline`: the runtime keeps polling a task that can move, and timers
fire. `StreamRelay` and `Proxy`: in addition reads from the upstream come back (the
connect and read timeouts see to that), and a client goes on reading or is found gone;
nothing in the code forces a silent client to leave, so this is an assumption about
clients. `Trickling` names the upstreams that never end; it is empty except in
`proxy_trickle`. No fairness is assumed of clients' departures, of faults or of the
signal.

## 4. Proofs

`TracePipelineProofs` holds for every capacity, batch size, set of owners, number of
submissions and set of faults (`PipelineAssumption`).

1. `TypeCorrect`: `TypeOK`.
2. `WriterInvariant`: `WriterInv` is inductive. It is needed because the bounds are not:
   `LossBound` depends on `since_flush` counting what the buffer holds, and that on
   where the loop is. `LossBounded` and `NoRefusal` follow.
3. `Refinement`: each pipeline step maps to `Accept`, `Persist`, `Lose` or a stutter
   (lemma `Simulation`, over lemmas about cutting sequences). `AppendOnly` follows from it.
4. `OrderKept`: records stay increasing when runs of them are cut out.
5. `KeepsAll`: no incident, no loss, because `Accept` and `Persist` preserve
   `log \o pending`; `CleanExit` follows with the invariant.

`ProxyProofs` holds for every set of requests (`ProxyAssumption`).

1. `ProxyTypeCorrect`: `TypeOK`, together with `accepted \in Nat`, which the numbers of
   the traces depend on.
2. `TracesMatchReplies`: `RecordMatchesReply` needs `ExchangeInv` beside it, which says
   which handler and relay states occur together: a relay exists only after its
   handler has answered, and nobody answers while it still waits.
3. `WritersKnown`: `WritersAccounted`, from the same invariant; otherwise a handler that
   returns could take away the writer of its relay.

`ExitProofs` puts the two together, under `ProxyAssumption` alone.

1. `RunsPipeline`: each step of the proxy takes one step of `TracePipeline` or none, which
   is how `Proxy` is written, so the theorems of `TracePipelineProofs` are cited as facts
   about the proxy (`PipelineFactsHold`).
2. `ExitInvariant`: `ExitInv` counts every trace that did not get into the channel, once,
   and says that the writer ends before `main` or is given up by it.
3. `ExitAccounts`: `CleanExitAccounts` from it, from what a finished writer has left in the
   file, and from `WritersAccounted`: a writer that has ended had no owner left, so no
   relay can still be running.

`StreamRelayProofs` holds for every capacity of the chunk channel and every number of
chunks (`StreamAssumption`).

1. `RelayInvariant`: `RelayInv` joins `TaskInv` (where the task is tells how the upstream
   ended and what it holds), `BodyInv` (while the body is read, what the server has taken,
   the channel and the task continue each other, up to the error at the end) and
   `ClientInv`. None of the properties is inductive alone: that a complete response is
   whole needs the error to be the last item in the channel, and that needs to know where
   the task goes after it.
2. `RelayGapless` follows because sequences that count on from each other make a counting
   sequence (`NumberedConcat`); `PrefixSeen`, `CompleteIsWhole`, `ReadAhead`,
   `StopsReading` and `TraceCovers` are read off the invariant.
3. `BodyRefinement`: each step of task, server and client maps to a step of
   `StreamedBody` or a stutter. The client sees the end when it leaves or when the server
   ends the response, whichever is first (`Ending`). That a trace is submitted only when
   nobody reads on needs `LoopEnded`: past its loop the task has seen the upstream end, or
   the response has been cut.

`JsonlWriterProofs` holds for every size of records, `BufWriter` and writes, and any
faults (`JsonlAssumption`).

1. `BytesInvariant`: `BytesInv` reads the pieces in the file, the `File`, the `BufWriter`
   and the running `write_all` as one sequence (`Stream`). It is `Sound`: in order, each
   piece once, and of no record after `taken`. `PiecesInOrder` alone is not inductive: the
   next record comes after everything else only because of that bound.
2. A step moves pieces from one place to the next, which leaves the stream as it is
   (`WholeAppend`, `WholePush`, `WholePast`, `WholeDisk`), appends the next record or a
   newline (`SoundNext`, `WholeNewline`), or loses a run of pieces (`SoundCut`,
   `WholeCut`).
3. `BytesTyped` and `PiecesOrdered` are read off the invariant.

`JsonlLinesProofs` holds under the same assumption. `Text` is the file and what is on its
way to it, the end of the running record included.

1. What `FlattenSeq` computes is not proved by the library's induction, which no installed
   prover can use, but from the least member that would be wrong (`LeastOf`). `FlattenNext`,
   one sequence more, is what the other proofs cite.
2. `LinesStayIntact`: `LinesIntact` is not inductive, because what a failed write took is
   missing before anybody is told; `IntactInv` adds that nothing has failed.
3. `DamageIsBounded`: `DamageInv` counts the lines of `Text` that do not hold exactly one
   record, the open one included. A write that fails damages one line where its pieces are
   missing and a second where the loop drops the rest of the record it works on. That comes
   later, so until the report the bound has one more to its credit. The good lines end
   with distinct records that are readable (an injection), which gives `DamageBounded`.

`JsonlLogProofs` shows that `JsonlWriter` implements `TraceLog` (`Refinement`), again for
every size and any faults.

1. The log and the pending records of the mapping are the sets `InFile` and `Pending`,
   listed in ascending order; a set has one such list (`ListsOnce`), so a step of the log is
   a change of two sets: `ListsAppend`, `ListsFirst` and `ListsLoss` for a record accepted,
   moved and a run lost.
2. In a sound text the JSON of a record is whole in one place at most (`PlaceOnce`), and
   places come in the order of the records (`PlaceOrder`). So when the file grows by one
   piece (`PieceWritten`, `NewlineWritten`), at most one record becomes readable, the first
   that is pending, and those that no longer can are one run.
3. `LogInv` adds two things to `BytesInv`. `Unbroken`: no newline comes between the pieces
   of a record, otherwise what is lost between two halves could make a record whole that
   was taken for lost. `Clean`: before the first fault every JSON is a line of its own, so
   without faults nothing is lost.
4. `Simulation`: `Accept` is the log's `Accept`; bytes that reach the file persist one
   record, lose one run, or change nothing; and so for pieces that vanish (`CutLoses`).

`ServiceProofs` holds for every set of environments, requests, answers and sizes
(`ConfigAssumption`, `StartupAssumption`, `ExchangeAssumption`).

1. `StartInvariant`: `StartInv` says what a process past each step has behind it: the
   checks, the warning, a capacity the channel takes, and what opening did to the log.
   `FailedStartHarmless` alone is not inductive, since it speaks of processes that have
   ended; `StartHarmless` and `Serves` follow, the latter by what an accepted
   environment contains (`AcceptedConfig`, `AcceptedUpstream`).
2. `ToldInvariant`: what the operator was told he has put right, and a start that ends
   with the code of a configuration error had an environment with a failing check.
   `RepairsLast` (`ToldOnce`) follows: the error names the variable of a failing check
   (`ComplaintFails`), and no check of a repaired variable fails (`RepairedPasses`).
3. `ExchangeInvariant`: `ExchangeInv` says what each phase has behind it, and that an
   exchange ends in one of four ways (`Refused`, `Failed`, `AnsweredWhole`,
   `AnsweredAsStream`), each with its answer and its record. The limit enters while
   pieces arrive: before the end `arrived` is within it.
4. `LimitHolds`, `HeadersCross`, `RecordTrue`, `ContentGated`, `SecretsOut` and
   `ServiceTyped` follow from it case by case, with lemmas about the header filters
   (`FilterCarries`, `StreamCarries`, `ScrubKeepsOpen`).

Only model-checked: liveness (`Durable`, `ShutdownCompletes`, `EveryStreamTraced`,
`StreamsTraced`, `WritersReleased`, `ShutdownEnds`, the fair part of
`ImplementsLiveTraceLog`), which TLAPS cannot prove. Every other property of a passing
run is a theorem.

## 5. Not modelled

- Of a record: identifiers, times, latency and provider. Of messages: what reqwest and
  hyper add to them, redirects that reqwest follows, the text in which `scrub_headers`
  joins several values, the wording of errors. The answer "failed to build response"
  (500) is never given: status and headers come from a response that was parsed.
- What the timeouts do, in particular a timeout of zero, which the configuration
  accepts: the effect is reqwest's. `LISTEN` and `LOG_PATH` beyond success and failure.
- In `Proxy`, the exit with code 6 when the server returns an error (`main.rs:101-104`;
  `Startup` has it, in `ServerEnds`), which skips the drain, and the branch for a writer
  task that panicked.
- Logging, and the dropped total in the log line.
- Memory: `aggregated` and the number of relays are unbounded in the code.
- HTTP/2 and connection reuse, which are seen only as separate requests.
- The other packages, the tests and the benchmark (section 1).

Four sentences of the docs that the code does not bear out, on points too small for a run
of their own: `README.md:15` ("everything else returns a JSON 404"; a wrong method on a
known path gets axum's 405, see `RouterAnswer`); `src/config.rs:30-35` (records without
content still carry "scrubbed headers"; `emit_trace` writes none, see `TraceOf`,
and `MetadataKept` says nothing of them);
`src/proxy.rs:59` ("no trailing slash"; one slash is taken off, see `TrimTrailingSlash`);
`src/trace.rs:60` (provider is a host name; it keeps the port).

## 6. Plan

Done: `TraceLog`, `TracePipeline`, `StreamedBody`, `StreamRelay`, `Proxy`, `JsonlWriter`,
`Config`, `Startup` and `Exchange` with their runs; the proofs of the pipeline, of the
bytes, lines and records of its file, of the proxy, the relay and the service. Next: the
relay as `Proxy` sees it (relaying, emitting, done; streaming, closed), as an abstraction
of `StreamedBody`.
