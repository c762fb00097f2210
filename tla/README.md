# A verification of Parliant in TLA+

Parliant is a local daemon that captures one PipeWire source, has it
transcribed, keeps a bounded transcript in memory, detects questions in it,
has answers suggested by a provider and shows them in an overlay.  It is a
program of threads: at a meeting's peak some ten of them pass audio, text,
updates and cancellations to each other through bounded and unbounded channels,
locks and flags.  This directory models that program.  TLC checks the models on
small instances, and TLAPS proves for all what makes it safe: every invariant and
every action property the runs check, and that store, answers and engine implement
their abstract specifications.  Liveness is checked by TLC alone.

Every definition is a translation of code under `src/crates` or `src/apps`;
`PROJECT.json` ("map") names the lines of each.

## The system

| Component | State | Operations | Talks to |
|---|---|---|---|
| parliant-core | none | audio frames, timestamps | all |
| parliant-audio | stream state, frame sequence, bounded frame channel, drop counters, token | the PipeWire callbacks, watcher, cancel | daemon (frames, events) |
| parliant-transcribe | audio queue, attempts, times of the last final, event channel | push_audio, recv_event_timeout, cancel; run_worker | daemon, provider |
| parliant-context | segments, byte counter, duplicate memory, session | start, stop, reset, ingest_final; recent, search, get_segment | runtime, mcp |
| parliant-detect | pending question, recent wordings, last trigger | process_finalized, manual_trigger, reset | runtime |
| parliant-orchestrator | active answer, provider threads, cancelled flags | begin, poll, cancel; the context assembler's build | runtime, provider |
| parliant-runtime | the four above, start times, statistics | handle_transcription, poll_answer, dismiss, shutdown | daemon |
| parliant-ipc | snapshot, clients and their queues, action queue, the socket file | bind, stop, publish, accept, handle_client, recv_action_timeout | daemon, overlays |
| parliant-overlay | connection, read-ahead buffer, two bounded queues, the copy it renders | connect, receive, send, reconnect; tick, click | ipc |
| parliant-daemon | pipeline, observer and main thread; consumer and printer of the capture command | run_meeting, run_pipeline, run_capture | all |
| parliant-mcp | whether a client is still served | serve_lines, handle_json: five read-only tools | store |
| parliant-remote-mcp | lifecycle, connection queue, workers | start, revoke, stop, handle_connection | mcp |

What makes each of them correct, and hard:

- **Capture.**  It must end when it is cancelled although its loop runs in C
  callbacks, account for every frame although it may never wait, and report why
  it ended although stream, token and loop change under different hands.
- **Transcription.**  One worker lives through several connections; what it says
  about its health, its times and its budget must survive a reconnect.
- **Store.**  Three sequences with bounds of their own (segments, ids in order,
  ids as a set) and a running byte counter must agree after any eviction.
- **Detector.**  A question may be spoken in several segments; memory, cooldown
  and the joining of segments interact.
- **Answers.**  A new question supersedes the old one, whose thread still runs.
- **Overlay server.**  Publishers, an accept thread and two threads per client
  share two locks and two kinds of queue.
- **Prompt and tools.**  Both read a store that forgets: what they return has to
  be found, to fit its bound, and to stay true while sessions come and go.
- **Socket and overlay.**  Daemons start, stop and crash on one path; the overlay
  reads ahead, drops what its queue cannot hold, and reconnects.
- **Bridge.**  A token is revoked and the bridge stopped while requests wait, or
  are half read, in a pool of workers that hand a mutex to each other.
- **Daemon.**  Everything may fail or end at any moment; the threads must find
  each other, and the user must be told.

`PROJECT.json` ("hazards") lists the places where this can go wrong, each with
its line and the properties that watch it.

## Modules

| Module | Models | Extends or instantiates |
|---|---|---|
| `TranscriptWindow` | what a meeting store promises: a window at the end of all accepted finals | |
| `MeetingStore` | `MeetingState` of parliant-context | instantiates `TranscriptWindow` |
| `TextSizes` | the two lengths of a text, in bytes and in characters | extends `MeetingStore` |
| `MeetingTools` | `McpService`: `handle_json`, `serve_lines` | extends `TextSizes` |
| `ContextAssembler` | `ContextAssembler::build`, `push_bounded`, `search_terms`: operators on the state of the store | extends `TextSizes` |
| `QuestionDetector` | `QuestionDetector` with the heuristic classifier | |
| `AnswerStream` | what the coordinator promises the pipeline: one answer at a time, told in order, ended once | |
| `AnswerCoordinator` | `AnswerCoordinator`, `run_request`, `send_if_active` | instantiates `AnswerStream` |
| `OverlaySnapshot` | `OverlaySnapshot` and `apply_daemon_event`, operators only | |
| `RuntimeEngine` | `RuntimeEngine` | extends the coordinator, instantiates store, detector and snapshot |
| `OverlayIpc` | `IpcServer`, `handle_client`: publishers, threads of a connection, eviction | extends `OverlaySnapshot` |
| `OverlayApplication` | the socket file over several daemons, `IpcClient`, the overlay's worker and user interface | |
| `TranscriptionWorker` | `ChannelSession`, `run_worker`, `run_connection` | |
| `AudioCapture` | `run_pipewire_capture`, `BoundedFrameSender`, the token | |
| `CaptureCommand` | `run_capture`: the capture subcommand | extends `AudioCapture` |
| `MeetingDaemon` | `run_meeting` from the capture on, `run_pipeline`, the capture observer | extends `TranscriptionWorker`, instantiates `AudioCapture`, `OverlaySnapshot` |
| `RemoteRequest` | `read_http_request`, the checks of `route_request`: operators only | |
| `RemoteBridge` | `RemoteMcpBridge`: accept thread, workers, `revoke`, `stop`, `handle_connection` | extends `RemoteRequest` |
| `MeetingStoreProofs`, `QuestionDetectorProofs`, `RemoteBridgeProofs` | theorems about the module of that name | each extends it |
| `MeetingToolsProofs` | theorems about `MeetingTools` and `ContextAssembler` | extends both, and `MeetingStoreProofs` |
| `OverlayProofs` | theorems about `OverlayIpc` and `OverlayApplication` | extends both |
| `RuntimeEngineProofs` | theorems about `AnswerCoordinator` and `RuntimeEngine` | extends `RuntimeEngine`, instantiates the proofs of store and detector |
| `AudioCaptureProofs` | theorems about `AudioCapture` and `CaptureCommand` | extends `CaptureCommand` |
| `MeetingDaemonProofs` | theorems about `TranscriptionWorker` and `MeetingDaemon` | extends `MeetingDaemon` |

`MC*` modules give the constants that a `.cfg` cannot express; each `.cfg` is one
question put to TLC.

Operators named `..._Fault` are not part of any specification.  Each is a
definition with one plausible mistake in it (a dropped guard, a wrong end of a
queue, a missing reset); put in the place of the real one it makes TLC find the
property it was written for violated.  `PROJECT.json` ("mutants") pairs them.

### How state and actions correspond to the code

A method that runs under one lock, or on data of one thread, is one action.
Where threads meet, an action ends where the other thread can get in: between
the two locks of `publish`, between the check and the send of `send_if_active`,
between the snapshot and the registration of a client, before and after every
blocking read, write or join.  A program counter per thread (`worker`,
`capture`, `pipeline`, `main`, `reader`, `writer`) says where it stands; the
comment above the actions of a thread lists its values.

Two levels describe the way to the overlay.  `OverlayIpc` has the server's threads
and queues for one connection at a time; `OverlayApplication` has the life of
connections and daemons, and lets an event reach the socket when it is published.
What the first shows can go wrong between two threads is not repeated in the second.

Data is abstracted to what the properties tell apart:

- a text is an element of `Texts` or `Fragments` with a length, or with the
  answers the heuristics give for it (`Openers`, `Marked`, `Trailing`, `ToUser`,
  `ToGroup`, `Wording`); joined questions are sequences of fragments, and
  `IsCandidate`, `Confidence`, `IsComplete` and `Normalize` are computed on them
  as the code does on strings;
- an audio frame is its sequence number, its timestamp is the same number;
- an answer is the sequence of numbers of its deltas, cut at `MaxAnswer`;
- a message of a provider is its kind; what a time-out measures is a step
  (`Elapse`) that may come at any moment;
- what a daemon shows is, for `OverlayApplication`, the number of events it has
  published: a snapshot brings any copy to that number, an event only one step;
- a piece of a response is its length, a piece of a prompt the text it quotes and its
  length; a text has one length in characters (`TextChars`) and one in bytes
  (`TextLen`), because prompt and tools count the former, the store and the bound on
  responses the latter; what of a response does not depend on a text (field names, ids, the
  label of a speaker) is a constant number of bytes;
- a request to the bridge is the length of its head and body, how much of it is
  sent, and the checks it fails;
- error texts are left out, who reported an error is kept.

External code is modelled by what `src` sees of it: PipeWire moves its stream
along `Follows`, runs callbacks in the loop only, and may or may not run
`state_changed` from within `disconnect` (`DisconnectEvents`); a provider sends anything or nothing;
the kernel buffer of a socket is a queue of `WireCap` messages.

`saturating_add` on 64-bit counters is plain addition, the models being far from
the limit; `saturating_sub` is kept where it decides something.

Three error paths of the code lead nowhere in the models because they need a
panic first: poisoned locks, a pipeline that panics, and a context assembler
that finds the store's lock poisoned.

## What TLC checks

The runs take some twelve minutes one after the other, with two workers.  History variables
(`accepted`, `emitted`, `log`, `taken`, `sent`, `late`, ...) record what happened
and decide nothing.  A run with a liveness property uses the fair
specification (`FairSpec`, `FairEngineSpec`, `FairAppSpec`, `FairDaemonSpec`); its safety
properties are checked on the same states.

| Run (cfg) | Bounds | What it shows |
|---|---|---|
| `store` (`MCMeetingStore`) | 5 provider ids, texts of 1, 3 and 7 bytes and of 1, 2 and 4 characters, 4 segments, 6 bytes, 2 sessions of up to 6 segments; limits 0, 1, 2, 9 of at most 3 results; prompts of 12 characters from 3 questions and 3 lists of sources | the store's invariants, minimal eviction, refinement of `TranscriptWindow`; ids told to clients, size of responses; earlier context and the cut of the prompt, in each of 24,000 states |
| `detector` (`MCQuestionDetector`) | 6 fragments, 6 segments, memory 1, cooldown 1, one manual trigger | no repeat within the memory, nothing remembered that was not asked, attribution |
| `answers` (`MCAnswerCoordinator`) | 2 questions, 2 deltas each | nothing stale, refinement of `AnswerStream`, the coordinator is never stuck with a dead session; cancelled threads return |
| `runtime` (`MCRuntimeEngine`) | 3 transcription events, finals of 3 kinds from 2 provider ids, 2 questions, 1 delta each | overlay and coordinator agree; every question shown resolves; steps are steps of the components |
| `overlay` (`MCOverlayIpc`) | 2 publishers, 1 client, queue 2, 3 events of 4 kinds, 2 actions | the client applies what the server queued; no gap in its actions; a connection the client left is wound up |
| `overlay_app` (`MCOverlayApplication`) | 2 daemons, queues 2 and 1, 2 events, 1 click | a daemon alone on its path is reachable; what is rendered was one state of one daemon; the overlay catches up |
| `transcription` (`MCTranscriptionWorker`) | queue 2, 1 reconnect, 3 frames, 2 messages, a final's start and end each given or not | health, times within a connection, a cancelled worker returns |
| `capture` (`MCCaptureCommand`) | channel 2, 7 callbacks, a signal | frames accounted for, summary and exit code, the three threads end |
| `meeting` (`MCMeetingDaemon`) | channel and queue 1, 4 callbacks, 1 signal or overlay action | what was published last when the daemon exits, and why it exits; the shutdown completes |
| `remote` (`MCRemoteBridge`) | 2 workers, 2 connections, queue 1, reads of at most 3 of 2 + 1 bytes, 5 requests | revocation, every answer deserved, every queued connection answered, stop returns |

Why these bounds are enough: the queues are small so that full, empty and one
in between all occur, and the numbers of messages exceed them, so that what is
refused, evicted or overwritten is followed by more.  Two questions make one
superseded and one current, two connections make one old and one new, and no
code looks further back than that.  Four callbacks are the least with which a
frame reaches the pipeline (paused, streaming, format, buffer).  The store runs
with a duplicate memory equal to its bound on segments, the least for which
`NoDuplicateRetained` is claimed, and with five ids for four places; of these four
two are recent for the prompt, so that two can be earlier, and its terms may have
up to three hits, so that recent ones crowd out earlier ones.  Provider ids are
only compared with each other, and no liveness is checked there, so that run
declares them symmetric.  Two daemons make one that leaves a file behind and one
that finds it, or two that share the path; a queue of two updates and two events
overflow it together with the connected flag and the snapshot.  A request of three
bytes is read at once, byte by byte, or with a byte that follows it.

Most invariants relate the present to the whole past through a history variable
(`NoStaleUpdate`, `StreamRebuildsSnapshot`, `ActionsWithoutGap`, `FinalsTile`,
`FramesAccountedFor`, `SourcesAreConsecutive`, `RevocationHolds`); they are the
ones a unit test can hardly state.

Each module states its type invariant, `TypeOK`, next to its properties.  Where
a theorem needs it, it is part of the invariant that is proved; no run spends
its time on it.

`CHECK_DEADLOCK FALSE` stands in every run of a system that really ends: all
threads returned, or all bounded inputs used up.  The store never ends: sessions go
on, also when its clients have gone.

### Fairness

`Spec`, `EngineSpec` and the like assume nothing.  `FairSpec` and its like add weak
fairness, to
steps the program or time owes:

| Module | Weakly fair | Why |
|---|---|---|
| `AnswerCoordinator` | `Elapse`, `Poll`, `Worker(q)` of each answer | clocks move; the pipeline polls in every round; the blocking HTTP client has a deadline |
| `RuntimeEngine` | the same through `PollAnswer` and `Concurrently` | |
| `OverlayIpc` | `PublishFanout`, `TakeAction`, the steps of each handler and writer, `ClientReceives` | threads run; the pipeline takes actions; an overlay that is connected reads what it is sent |
| `TranscriptionWorker` | `Tick`; and `Start`, `LoopTop`, `AfterFailure`, `Backoff` together | 25 ms tick, bounded sleep |
| `CaptureCommand` | the capture outside its loop, its watcher, consumer, printer and main thread | each waits for the others or for a channel they close |
| `OverlayApplication` | the overlay's two threads (`Overlay`, `SendAction`; `Tick`), `Greets`, `Proceed(d)` of each daemon | reads and sleeps have deadlines, the accept thread polls; a start or stop that has begun ends |
| `MeetingDaemon` | pipeline, observer, main thread, and of the capture its watcher and what is outside its loop | the pipeline waits at most 10 ms, the others for these threads |
| `RemoteBridge` | accepting, `AcceptStops`, each `Worker(w)`, the steps of `stop` once it is called | every read and write has a deadline of 3 s and a request a bounded size; the mutex is held for at most 100 ms |

Nothing is owed by PipeWire, by the user, by a daemon that would have to start, stop or publish, by the transcription provider while
the worker connects, sends (a frame, or the pong for a ping) or closes, or by a client that would have to connect,
send or leave.  `ClosingEnds` is about a client that has left; that overlays
read is assumed so that its writer is not held up before it notices.

## Where code and documents part

Two disagreements are runs that TLC ends with a counterexample; `PROJECT.json`
("findings") quotes the documents.

| Run | What happens |
|---|---|
| `MCOverlayTorn` | an event published between the copy of the snapshot and the registration of a client reaches it neither way |
| `MCOverlayEvicted` | an evicted client stays connected and is never told |

More were met while modelling and follow from the models, without a run of
their own:

- An exhausted reconnect budget ends the daemon, with exit code 0
  (`PushRefused`, `GiveUp`, `NoEvent`; main.rs 388 and 419), where
  docs/ARCHITECTURE.md:253 has the session and the overlay kept alive.
  `SuccessIsExplained` says what does hold: the daemon has published that it is degraded.
- A capture that fails in its setup sends no event (`SetUp`), so the overlay is
  never shown the source error docs/ARCHITECTURE.md:252 asks for.
- After a stop by the user the pipeline drops the frame receiver before the main
  loop has ended; a frame of those 20 ms is reported as an error of the capture
  backend (`TrySend`, `ObservedEvent`).
- A target that is lost before the stream was ever streaming ends nothing and is
  reported to nobody (`StateChanged`), where docs/M1_PIPEWIRE_CAPTURE.md:10 says
  the loss is surfaced.
- Times of finals the adapter makes up restart at zero with a new connection
  (`Connect`), where `MonotonicTimestamp` is measured "from the start of the
  current capture session".
- An accept thread that meets an error returns; the lifecycle of the bridge goes
  on saying listening (`AcceptGivesUp`).  A `revoke` after `stop` moves it from
  stopped back to revoked (`RevokeStores`).

- The overlay's client polls its socket for the next event, while the end of a
  burst it has read ahead already waits in its buffer (`Receive`): the last
  events of a burst are not shown until the daemon sends another
  (`HeldBack` in `OverlayCatchesUp`).
- An update that finds the queue to the user interface full is dropped and not
  made up for (`Report`): the overlay goes on showing a state that is stale, or
  mixed, until the next snapshot, that is, until it reconnects.
- An action that is clicked while the overlay is not connected is kept and sent
  to the next daemon: a Stop meant for one reaches another (`SendAction`).
- A daemon removes the path of its socket when it starts and twice when it ends,
  whoever has bound it meanwhile (`Prepare`, `RemovePath`, `Exit`): of two daemons
  that overlap, one becomes unreachable.
- The default of eight segments, long or full of characters that JSON escapes,
  may exceed the bound on responses; then `handle_json` fails and `serve_lines`
  ends, without an answer to the client (`ServeLine`).  `Fits` says of how many
  segments that cannot happen.
- A reset restarts ids at 1 under the same session number: what an id names is
  settled only by the status *active* together with the number (`IdsResolve`).
- `build` asks the store for three hits of a term and takes the recent ones out
  afterwards: earlier segments are not found behind three newer ones
  (`EarlierContextHolds`), where the prompt is meant to have relevant earlier
  transcript.  A prompt that is too long loses its sources first, and of the recent
  segments the newest (`PromptIsCutOnce`).
- `stop` of the overlay server joins its accept thread only; the writers of the clients
  are detached, and the process may exit before they have written that the daemon
  does not listen any more.  A client that was evicted or torn is never sent it.  The
  overlay then renders *disconnected · retrying · listening* until it has another
  snapshot.  So `EndIsPublished` is about the server's snapshot, and no property says
  what an overlay renders at the end.
- Bytes behind the body of a request to the bridge are refused if the same read
  brought them, and never seen otherwise (`Verdict`); and as every read has three
  seconds of its own, a slow client may hold a worker for long.

Two properties that hold are narrower than their names, on purpose.
`StreamRebuildsSnapshot` says that what a registered client has and what is on
its way to it rebuild the server's snapshot, but for clients in `torn`: those whose greeting
overlapped a publish, and those that were registered while two publishers
overlapped, whose events the snapshot and the clients may have taken in
different orders.  `HealthTellsTheTruth` allows the health shown during a backoff to
be the one before the outage.

## What is proved

Everything is proved for every value of the constants the named assumptions admit.
Those are what `validate`, the clamps and the types of the code ensure
(`StoreConfig`, `TextSizesConfig`, `DetectorConfig`, `ToolsConfig`, `AssemblerConfig`, `AnswerBound`,
`IpcConfig`, `BridgeConfig`, `RequestLimits`, `AppConfig`, `CaptureConfig`,
`WorkerConfig`), or say of a bound of
the model that it is a number (`ModelBounds`, `CoordinatorBounds`).  `ResponseConfig`
says that one segment fits into a response, as 64 KiB hold two copies of 2000
characters of at most 7 bytes each (`MaxCharBytes`; the longest a character becomes
when JSON escapes it twice), provided the ids and speakers beside it are short.
`EngineConfig` is
those of the engine's components; `DaemonConfig` is those of capture and session, and
that the two batches of the pipeline are not empty.

Where a module extends the one of a component, `Spec` is the component's and the
composition has a name of its own: `EngineSpec` for the engine, `DaemonSpec` for the
meeting, `CommandSpec` for the capture command, `ToolsSpec` for the store with
clients of the tools.  `AppSpec` is the overlay application's, which shares a proof
module with `OverlayIpc`.  So the theorems of `Spec` in
`RuntimeEngineProofs` and `MeetingDaemonProofs` are about the coordinator alone and the
session alone; those of `ContextAssembler`, operators on the store, are about the
store's.

| Module | Theorem | States |
|---|---|---|
| `MeetingStoreProofs` | `Invariance`, `TypeCorrect` | the inductive invariant `IInv`, and its part `TypeOK` |
| | `ContiguousIds` | `IdsAreContiguous` |
| | `MemoryBounds` | `BoundsHold` |
| | `DuplicateMemoryInSync`, `MemoryFollowsSegments` | `SeenInSync`, `SeenMatchesSegments` |
| | `RetainedOnce` | `NoDuplicateRetained` |
| | `LeastEviction` | `EvictionIsMinimal` |
| | `StoreIsAWindow` | `ImplementsWindow` |
| `MeetingToolsProofs` | `ToolsOnlyRead` | clients leave the store a behaviour of its own specification |
| | `HeldIdsResolve` | `IdsResolve` |
| | `SmallCallsSucceed` | `SmallCallsAreAnswered` |
| | `EarlierIsFound` | `EarlierContextHolds` |
| | `PromptIsPrefix` | `PromptIsCutOnce` |
| `QuestionDetectorProofs` | `RemembersWhatItAsked` | `MemoryIsRecentEvents` |
| | `NoRepeats` | `NoRepeatWithinMemory` |
| | `AttributionIsExact` | `SourcesAreConsecutive` |
| `RuntimeEngineProofs` | `UpdatesAreCurrent` | `NoStaleUpdate` |
| | `SessionIsNeverClosed` | `NeverClosed` |
| | `AnswersAreWhole` | `DoneMeansComplete`, which `ImplementsStream` contains |
| | `AnswersAreAStream` | `ImplementsStream` |
| | `ComponentsAreUsed` | `UsesComponents` |
| | `EngineKeepsStore`, `EngineAsksOnce`, `EngineAnswersAreWhole` | the invariants of store, detector and coordinator, of the engine |
| | `EngineAnswersAreAStream` | `ImplementsStream`, of the engine |
| | `ShowsTheAnswer` | `AnswerFitsQuestion` |
| | `GeneratesWhatIsShown` | `ActiveIsShown` |
| | `StopsAreExplained` | `NoSilentStop` |
| `OverlayProofs` | `TypeCorrect` | `TypeOK` of the server |
| | `StreamIsWhole` | `StreamRebuildsSnapshot` |
| | `ActionsAreAPrefix` | `ActionsWithoutGap` |
| | `AloneKeepsPath` | `AloneIsReachable` |
| | `ShowsOneState` | `ShownIsOneState` |
| `RemoteBridgeProofs` | `RevocationIsImmediate` | `RevocationHolds` |
| | `AnswersAreDeserved` | `AnswerFitsRequest` |
| `AudioCaptureProofs` | `NoFrameIsLost` | `FramesAccountedFor` |
| | `CauseIsTold` | `StopTellsCause` |
| | `ExitIsTrue` | `ExitTellsOutcome` |
| `MeetingDaemonProofs` | `SessionTellsTheTruth` | `HealthTellsTheTruth` |
| | `FinalsTileTheirConnection` | `FinalsTile` |
| | `CaptureInTheDaemon` | the meeting implements `AudioCapture` |
| | `EndIsPublishedLast` | `EndIsPublished` |
| | `ExitIsExplained` | `SuccessIsExplained` |

### The meeting store

The invariants follow from `Invariance`, that the conjunction `IInv` of the first
five is inductive.  None of the five is inductive alone.  The counter is the weight of
the segments after an eviction only if it was before; the queue of ids is free
of repeats only if the set that is asked mirrors it; and `NoDuplicateRetained`,
which matters most, is not a matter of the segments at all: a retained segment
is found in the duplicate memory because both are ends of the same sequence of
accepted finals (`SeenMatchesSegments`), so two retained copies would be two
equal ids in a queue without repeats.

The step that carries the weight is `AcceptPreserves`.  It rests on
`RememberEffect` (what `remember_provider_id` does to set and queue) and
`AcceptEffect` (what `enforce_bounds` leaves).  The loop of `enforce_bounds` is the
least number of segments whose removal satisfies both bounds; that such a number exists is the
lemma `EvictionsProperties`, that the least exists is `LeastElement`, from the
library's theorem that `<` on the naturals is well-founded.  The weight of a
sequence is a recursive function, `PrefixBytes`; that the function exists is
proved by induction over sets (`SetInduction`, `SumExists`, `PrefixBytesSums`),
because the library's induction theorems take an operator as parameter and
cannot be instantiated by the provers at hand.

The two action properties rest on the same two lemmas.  `LeastEviction` adds that
the number of segments `enforce_bounds` removes is the least that satisfies the
bounds (`AcceptEvictsLeast`), so that one segment more would have broken one.
`StoreIsAWindow` maps the retained segments to a function on their ids: every
operation restarts the window, slides its beginning and appends one final, or
leaves it alone.

### The tools and the prompt

Both read the store, and what they return is a function of its state: with `IInv`,
most of it is about operators.  `recent` and `search` select a subsequence of the
segments (`Subsequence`, a recursive function; that it exists, and which positions
it keeps, is `SubsequenceProperties`).  As ids are unique and ascend, a search
returns no segment twice, and one with the query that is missing has as many newer
ones as the search may return (`SearchProperties`).

`HeldIdsResolve` adds to `IInv` what a client holds (`HeldInv`): the id it was told is
below the next one the store gives out, as long as the session runs that it was told
in.  Without this a new segment could take the id; with it, ids only grow until a
session starts or is reset, and both are seen in the status.  `SmallCallsSucceed` bounds
the sum over the segments of a response (`ResponseBytesBound`), each of which is cut
by characters and so bounded in bytes (`ShownBytesBound`).

The assembler's loops have an invariant each.  `Listed` is what holds of the list
after some of the terms: older segments with one of them, none twice, and none left
out but for a full list or for newer hits of its term; a break out of the inner loop
comes only with a full list (`AddHitsLists`).  `CutOnce` relates what is written of a
prompt to its pieces: all so far, or a full prompt of which only the last piece was
cut.  `Written`, the length of a prompt, is computed anew from its pieces at each of
the many small writes; that it adds up is `WrittenSums`.

### The detector

The set that the duplicate check asks is the memory of the newest questions
(`MemoryIsRecentEvents`) only as long as no wording is in the queue twice: the one
that leaves would take the other's mark with it.  That no wording is in it twice
is `NoRepeatWithinMemory`, so the two are proved together (`MemoryInv`).  The
steps rest on what the last `n` elements of a sequence are after an append
(`LastOfProperties`).  Attribution rests on where the pending question ends, at
the segment processed last (`PendingFollows`), and on events being older than
it (`EventsPrecede`).  Nothing is assumed of the heuristics: which fragments open
a question, and what their wording is, are constants.

### The answers

Neither invariant of the coordinator stands alone (`AnswerInv`).  An update is
current because the log ends with the stream of the active answer
(`ActiveStreams`), which an entry for a closed session would break; and the session
is not closed because the flag of the active answer is not set (`FlagInv`), so that
its thread leaves its loop only by sending a final event (`WorkerSendsTheEnd`),
which stays the last of the channel until poll takes it and the answer with it.

`AnswersAreWhole` needs more (`DeliveryInv`): of the active answer, what poll has
delivered and the deltas in the channel are together what its thread has read,
in order; an answer reported as done is no longer active, its thread has
returned, and it was delivered all that was read.  The last holds because the thread
sends *done* behind its last delta, and poll takes one message at a time.

`AnswersAreAStream` maps the coordinator to `AnswerStream`, which knows of no threads:
a question's standing is read off the active answer and the log, what was told is
what poll delivered.  A step of a provider thread is a piece said, or none; a begin
drops the answer before it; a poll tells a piece, finishes or fails
(`AskRefines`, `TellRefines`, `EndRefines`).  That the piece is the next one, and
that *done* comes when nothing is missing, is `DeliveryInv`; that a standing never
changes again needs in addition that an answer reported as failed has ended, and is
not reported as done too (`FailedInv`).  The engine's steps are the coordinator's,
so it implements the stream as well (`EngineAnswersAreAStream`).

### The engine

`RuntimeEngineProofs` holds the proofs of the coordinator and instantiates those of store
and detector.  `ComponentsStep` shows that each step of the engine is a step of each component, or
leaves it alone; it needs to know that they are in step (`InStep`): that the detector
has processed every segment the store numbered, and that the next question id is
the next answer's.  `ComponentsAreUsed` is this, and with it the steps proved of a
component alone carry its invariants over to the engine.

What is on screen (`ScreenInv`) relates the coordinator to the overlay's snapshot, which
only events reach.  `PollEffect` lists what one poll may do; a delta is
appended to the question it belongs to, cut as the overlay cuts it (`CutGrows`:
cutting after every append is cutting once), and each way an answer can end leaves it
complete or marks the screen (`EndKeepsScreen`).

### The overlay server

`StreamRebuildsSnapshot` says that folding `Apply` over what is on the socket and in the
queue turns what the client shows into the server's snapshot.  The fold is a
recursive function (`Replay`); that it exists, and that it composes at both ends
(`ReplayAppend`, `ReplayHead`), is proved with the trace of the fold and
induction over sets.  Then each step is a matter of where one event goes: from
the snapshot into all queues (`PublishFanoutKeepsStream`), from a queue to the
wire, from the wire to the client.  A client that has not registered yet needs
to be known to have the greeting alone in its queue and no publisher half way (`StreamInv`).
The actions of a client are numbered; those in the channel follow the last one
taken, those unread follow these up to the last one sent, as long as there is a
reader (`Consecutive`).

### The socket and the overlay

`AloneIsReachable` is not inductive: that a daemon finds the path free when it
binds, and that nobody removes it later, holds because no other is alive, and that
has to be known from `overlapped`, which is set on both sides when two meet.

Nor is `ShownIsOneState`.  What the overlay has read ahead and what is in the socket
is one numbered stream of one daemon (`NumberedFrom`): a snapshot only in front,
every event one step after the one before, up to the version of the daemon; and
what the user interface will show when it has emptied its queue is the state
before the stream's first, unless an update was dropped.  The queue may hold
several states, that of an earlier connection too; `ShownIsOneState` is about
the end of it.

### The bridge

That no late request is served follows from where the workers are: one that
stands behind the check of the token deals with a connection that was not late
(`RevocationInv`).  That an answer fits its request follows from what a worker
knows about it (`AnswerInv`, `Knows`): how many bytes it has read, that what it
has read so far was neither too long nor complete, and which checks it has passed.
`RefusalStatus` says what the first check that fails, a minimum over the list of
checks, has for a status.

### The capture

`NoFrameIsLost` is an account (`FrameInv`): the numbers of the frames that are
received or queued ascend up to the last number given out, and the four counters
add up, where a refusal is counted by an event.  `CauseIsTold` says that the
events and the state of the stream keep step, since a stream that has failed or
been lost stays so, and that nothing is told after the end (`CauseInv`).  Both are
about `AudioCapture`, in which the rest of the program may set the token, take
frames and drop their receiver at any moment; so they hold in the capture command
and in the meeting.

`ExitIsTrue` carries both over to the command (`CommandStepsCapture`) and adds the
order in which its threads wait for each other (`ThreadsInv`): the consumer
outlives the senders of frames, the printer the capture, and main both, so that
the summary is read when no counter moves any more.  That exit code 0 means the user
asked for the end, and not that a reason was overlooked, is `QuitInv`: the loop
is quit by a signal, or by a stream that has failed or gone and stays so.

### The transcription session

`HealthTellsTheTruth` reads a log of everything that was ever reported.  It is almost
inductive: what is missing is that a worker closes a connection it was not cancelled
for only when nobody holds the session, that a worker which has not started has
reported nothing, and that the reconnect budget is not overdrawn (`HealthInv`).  A step
either leaves log and last report alone (`SilentKeepsHealth`), reports a new
state (`ReportKeepsHealth`), adds something that is no report (`OtherKeepsHealth`), or
reports the last failure and the degraded state in one step (`LastFailureKeepsHealth`).

A provider may give a start without an end, an end without a start, both or neither
(`GivenTimes`); `FinalsTile` is about each of the two that is missing.  It needs to know what the worker's `last_final_end` is: the end of the last
final in the log that came on this connection, or 0 if none did.  That it starts from
0 with a new connection is right only because no final bears the number of a
connection that has not been made; and that a final ends no later than the audio
handed over needs the same of the queue of audio and of the last frame sent
(`TimesInv`).  As the finals are told apart by their place in the log, a step that adds
none leaves all of this alone (`QuietKeepsTimes`).

### The meeting

Every step of the meeting is a step of the capture or leaves it alone
(`CapturePart`), and so for the session (`SessionPart`): `CaptureInTheDaemon` is the
first, and by it `NoFrameIsLost` and `CauseIsTold` hold in the meeting.

`EndIsPublishedLast` rests on what each of the joins of the main thread has brought
about (`EndInv`): an observer that has ended saw a capture that had returned, and
such a capture sends nothing more; the pipeline has returned before the observer is
joined; so nobody is left to publish over the main thread's last event.  The theorem is about
the server's snapshot: the writers of the clients are not waited for.

`ExitIsExplained` has to find who set the token (`CauseInv`).  Whoever does so was asked
by the user, by a signal or by an action, has published that it is degraded first, or is the
capture itself, when its loop has ended; and the loop is quit by the token, or
by a stream that has failed or gone, stays so, and makes the capture return another
reason.  An action of the user reaches the pipeline over a queue (`ActionsInv`), and what
was published degraded stays so, since the daemon publishes nothing that takes it back
(`ExplainedStays`).

### What is only model-checked

Liveness, which is out of the prover's reach: `CancelledWorkersReturn`,
`QuestionResolves`, `ClosingEnds`, `CancelledWorkerReturns`, `CommandExits`,
`ShutdownCompletes`, `OverlayCatchesUp`, `QueuedAreAnswered` and `StopCompletes`.  So
are the two runs that end with a counterexample.

Recursion over data is proved about where its length is bounded by a sequence at
hand, by induction over sets (`SetInduction`, `Recursion`); the models use no
recursive operator, only functions.

## What is not modelled

- the words the question heuristics look for, and the resampling and copying of
  audio (`copy_chunk`): pure functions of strings and samples, loops over the data
  of one call, which the repository's tests cover;
- the framing of messages between daemon and overlay, the check of the peer's user
  and the permissions of the socket: either passes or ends the connection, as a
  client that leaves does;
- an error of accept in the overlay server, which ends its accept thread: an
  error of the operating system on a listening socket;
- parsing of HTTP, JSON and server-sent events beyond the kind of the result;
- `parliant-core`, plain data; the provider, the replay fixture and the
  deterministic session of the tests;
- the list of degraded sources that goes with a request, and the engine's event for
  it: no part of the program adds a source to the engine, so the list is empty;
- start-up before the capture: a failure there returns before any thread runs;
- a manual trigger in the meeting: `manual_trigger` is modelled in the detector,
  but nothing in the daemon calls it.

## Plan

Done, in this order: the store with its abstraction, detector, answers, engine,
overlay server, transcription, capture, daemon, bridge, and the theorems of the
store; then the meeting tools, the context assembler, the overlay application with
the life of the socket, the requests of the bridge, the capture command, and the
theorems about refinement, eviction, socket path, bridge, capture and answers;
then the theorems about detector, engine, overlay server, what the overlay
shows, the capture command, the transcription session and the meeting; then those
about the tools and the prompt, and the answers as an abstract stream.

What would come next:

1. An abstract daemon (listening, degraded, ended) that `MeetingDaemon`
   implements.
2. A composition of `OverlayIpc` and `OverlayApplication`, once the state space of
   the first allows a reconnect.
