# vfront in TLA+

vfront is a front end for LLM inference engines: it serves the OpenAI HTTP API
(Responses, Chat Completions, Completions, Embeddings, Files, Batches), keeps
what it has to keep in an LMDB database that several processes share, and runs
background work in a job runner. This directory holds TLA+ modules for the parts
of it in which processes, coroutines, crashes or the order of events matter, TLC
configurations that model-check them on small instances, and theorems about
them with proofs TLAPS checks.

Paths below are relative to `src/vfront/`; `F/` stands for `frontend/`.

- [Inventory](#inventory): the components, their state and how they interact
- [Modules](#modules): what is modelled, and how it corresponds to the code
- [Runs](#runs): what TLC checks, the bounds, the fairness
- [Disagreements](#disagreements): where the code does not do what it says
- [Proofs](#proofs): what holds for every value of the constants
- [Limits](#limits): what is only model-checked, what is not modelled
- [Plan](#plan): what comes next

## Inventory

### How it is deployed

`modes/` starts one of three things: a *frontend* (the API; engines are remote),
an *engine* worker, or both in one tree of processes (*embedded*). The API may be
served by several worker processes (Granian). With managed transport the embedded
mode also starts one engine worker process per runtime model, reached over a Unix
socket. The job runner is either part of
the API process (*local*: embedded with one worker) or a process of its own that
the API process starts and terminates (*private runner*,
`F/service/jobs/process_manager.py`). All of them open the same LMDB
environment.

Everything is asyncio. A coroutine keeps its process's event loop from one real
`await` to the next. The store's methods are `async`, but what they await is an
uncontended `asyncio.Lock`: the transactions run on the event loop itself (the
comment at `F/service/store/lmdb.py:377`, "called via asyncio.to_thread", is not
what the code does). So inside one process a sequence of store calls is not
interrupted by another coroutine, while other processes do get in between, and a
crash may fall between any two. The models take their atomicity from this.

### Components

| Component | State | Operations | Talks to |
|---|---|---|---|
| Store (`F/service/store/lmdb.py`) | per namespace a data database, an expiry index `__exp__` sorted by minute, an expiry meta `__expmeta__`; the list of namespaces | set, get, delete, list, page, `mutate` (a function inside a write transaction), cleanup loop | everybody who persists |
| Jobs: execution store, leases (`F/service/jobs/store.py`, `lease.py`) | one execution record and one lease per job | create, request cancellation, mark running/completed/failed/cancelled; claim, heartbeat, release, expiry | the store |
| Job runner (`F/service/jobs/runner.py`) | asyncio tasks, a wakeup event, a stop flag | poll, heartbeat, claim, run, cancel, shut down | execution store, leases, the background use case |
| Background responses (`F/usecases/responses_creation.py`, `responses_background.py`, `responses_admin.py`, `F/service/persistence/response_store.py`) | response record, input items, context, run spec | create, run, cancel, delete | store, job store, runner, engine client |
| Streaming (`adapter/response_streaming.py`, `adapter/assistant_output.py`, `F/usecases/responses_streaming_*.py`) | per request: open output item, indices, sequence number, text kept back, what was stored | one event after another; store the response at its end; tool loop | engine client, store, MCP |
| Files (`F/service/file_storage/main.py`, `F/api/v1/files.py`) | contents in a directory; metadata, an index by time and one per purpose in the store | upload, read, delete, list, index backfill, cleanup loop | store, file system |
| Batches (`F/usecases/batches.py`, `F/api/v1/batches.py`) | batch object, progress, output and error files | create, process, cancel, expire | store, files, runner, engine client |
| Indexed objects, chat store (`F/api/v1/helper/indexed_store.py`, `F/service/persistence/chat_store.py`) | object and index entry | save, delete, list | store |
| Tool loop, MCP (`F/usecases/*_agentic.py`, `F/service/mcp/*`) | messages so far, rounds, pending tool calls | discover, call, feed back | engine client, MCP servers |
| Conversations (`adapter/response.py`, `F/usecases/responses_request_preparation.py`, `F/service/persistence/response_store.py`) | the stored context of each response | continue, truncate, store, delete | store, engine client |
| Chat and text streams (`adapter/streaming.py`, `F/usecases/chat_completion_*.py`) | per choice: text so far, what was told, its kind, counts | one delivery after another; close the choices | engine client |
| Engine service (`engine/service/*`, `engine/worker/*`) | engines, their runtimes, LoRA adapters by name and number, generations in flight | start and stop engines, load and unload adapters, generate | the inference engine |
| Engine routing, worker processes (`F/service/engine/*`, `F/service/capabilities/*`, `shared/engine/*`) | child processes and their sockets, clients per backend, cached health | start, take over, stop; resolve, check, generate | engine workers |
| Request preparation, adapters, validation, middleware, configuration | none | conversion and checks | – |

`PROJECT.json` lists all thirty with their files and what becomes of each.

### What is hard

- **Two records for one thing.** A background job is a response record, a spec, an
  execution record and a lease, each written by its own transaction, by API
  handlers and runners in different processes.
- **Check, then act.** `_update_execution` reads and writes in two transactions;
  a claim looks at the execution, then takes the lease, then writes the
  execution; the cancel handler saves what it saw before.
- **Crashes** between any two of these, restarts, and leases that run out while
  their owner still works.
- **asyncio cancellation**, which may meet a task before its first step, in its
  first await, or after its outcome was written.
- **Secondary indices** (expiry, creation time, purpose) next to the data they
  index, and cleanup loops in every worker.
- **Rounds.** A tool loop carries a conversation, a budget, pending calls and what
  was told already from one generation to the next, in four variants of the code.
- **Child processes** behind sockets that outlive whoever started them, and answers
  about them that are cached.
- **Streams of events** whose kinds may come in many orders, counted by hand, and
  a response that must be stored before the client hears that it is complete.
- **Liveness**: a created job settles, a shutdown ends, garbage is collected.

`PROJECT.json` lists each hazard at its line, with the properties that cover it
or the reason why none does.

## Modules

    JobLifecycle                 one job, abstractly
        ^ refined by
    JobRecords  <-  ResponseJobs  <-  JobProperties  <-  MCResponseJobs
                                            ^-  ResponseJobsProofs

    TtlStore                     a map with expiries
        ^ refined by
    LmdbStore  <-  MCLmdbStore, StoreProofs

    FileStorage  <-  MCFileStorage, FileStorageProofs     (over the store as TtlStore has it)
    IndexedStore <-  MCIndexedStore, StoreProofs          (likewise)

    JobRecords   <-  BatchJobs  <-  MCBatchJobs, BatchJobsProofs

    ResponseStream  <-  MCResponseStream, ResponseStreamProofs     one request, each side of it
    ToolLoop, ChatStream  <-  MCToolLoop, MCChatStream, RequestProofs
    Conversation    <-  MCConversation, RequestProofs

    EngineWorkers  <-  MCEngineWorkers, EngineWorkersProofs        the processes behind it
    EngineService  <-  MCEngineService, EngineServiceProofs

`BatchJobs` and `ResponseJobs` share the records and mutations of `JobRecords`, as
the two halves of the runner share one store and one lease service. The four
modules of a request meet at what one hands the next: `ToolLoop` decides which
generations there are and what joins the conversation, `Conversation` what the
first is sent and what is kept, `ResponseStream` and `ChatStream` how one
generation is told.

Operators whose comment begins with "Mutant:" (and the group so marked in
`JobRecords`) are not part of the specifications. Each is a bug the code could
have had, of the form of the operator after it; `PROJECT.json` pairs it with the
property that notices when it takes that operator's place.

### Background responses: JobRecords, ResponseJobs, JobProperties, JobLifecycle

`JobRecords` has the execution record (status, cancellation flag, owner) and the
lease (owner, live or not), and as operators the mutations the store runs inside
one transaction: `RequestCancel`, `Claimable`, `HeldByOther`, `Claimed`,
`Renewed`, `Released`. Timestamps are abstracted to whether the lease is live.

`ResponseJobs` has the processes. The variables `record`, `spec`, `exec`, `lease`
are the database; `proc[r]` is what runner process `r` does at the moment, `task`
where each of its asyncio tasks is suspended (`new`, `init`: waiting for the
engine client, `gen`: generating), `hit` the tasks `cancel()` was called on;
`hnd` the API handlers. One value of `Runners` is one incarnation: `owner_id` is a
fresh uuid in each, unless `runner_id` is configured (`runner.py:78`); incarnations
that share a configured one are not covered.

| Code | Actions |
|---|---|
| `create_background_response_use_case` | `Create`, `PutSpec`, `PutExec` |
| `cancel_response_use_case`, `JobRunnerService.request_cancel` | `Cancel`, `LoadResponse`, `SaveResponse`, `DropSpec`, `Answer` |
| `delete_response_use_case`, `delete_response_state` | `Delete`, `DeleteCheck`, `DeleteRecord`, `DeleteSpec`, `DeleteExec`, `DeleteLease` |
| `_run_loop`, `_heartbeat_and_prune` | `Wake`, `Look`, `Renew` |
| `_claim_pending`, `_claim_response` | `List`, `Check`, `EndClaims`, `ClaimLease`, `ClaimGet`, `ClaimPut` |
| `_run_response`, `background_generate_response_use_case` | `Begin`, `InitFails`, `Initialized`, `MarkInProgress`, `Generated`, `DropUnstarted`, `Cancelled`, `Peek`, `Save`, `GetExec`, `PutOutcome`, `DropJobSpec`, `Free` |
| `destroy`, `_release_owned_work` | `Stop`, `ReleaseList`, `ReleaseNext`, `Stopped` |
| environment | `Start`, `Crash`, `WorkerCrash`, `Expire` |

A step is one store transaction. In local mode (`Local`) a handler occupies the
runner's process (`proc[r].pc = "api"`) until it is done, otherwise it runs in an
API worker and interleaves with the runner. `proc[r].pc = "idle"` says that the
event loop may resume any coroutine.

The response record stands for the three entries `store_response_state` writes
(response, input items, context). "completed" stands for "incomplete" as well.

`JobLifecycle` is what this should amount to for a reader of the job store: a job
is submitted once, has one worker at a time and only while it is running, settles
once, and is deleted only when settled. `JobProperties!Lifecycle` maps the records
and tasks of all processes onto it.

### The store: LmdbStore, TtlStore

`TtlStore` is what callers of `StoreService` may rely on: a map whose entries
disappear the second they expire. `LmdbStore` has what is in the database: the
entries with their expiry, the index of (minute, key) pairs, the meta entry that
says where a key is indexed, the registered namespaces; and `sweep`, where each
process's `cleanup_expired` is. A write or deletion is one transaction
(`_txn_put`, `_txn_delete`, also behind `StoreMutation`); a cleanup is one
transaction per namespace with the time read once at its start, under a budget
(`StartSweep`, `SweepNext`, `SweepFails`). Values are opaque. Time does not go
backwards.

### Files: FileStorage

`content` is the directory, `meta`, `byTime`, `byPurpose` are the store's
namespaces, all as sets of files; a file is the rank of its index key
`<created_at>:<id>`. The store is used as `TtlStore` describes it. Every store
call and file operation is a step of its own, since requests and cleanup loops in
several workers interleave. `Upload` to `StorePurpose` are
`upload_stream` and `_store_metadata`, `Delete` to `Unlink` are `delete`, `List`
to `Answered` are `list_files` with the backfill (`_ensure_indices`), cursor
(`_resolve_after_index_key`) and batches of `list_page`; `ListDir` to
`EndCleanup` are `_cleanup_expired`. The history variables `uploaded`, `unwanted`,
`born` and the field `there` only serve the properties. Who takes part (which
handlers and cleanup loops, on how many files, with which faults) is the variable
`cast`, chosen in `Init` from the constant `Casts` and never changed, so that one
run answers the questions about listings and the one about garbage.

### Streamed responses: ResponseStream

`generate_response_stream_events` as a machine. A chunk of the engine says what
it adds: reasoning or not, which text, and what the tool parser made of it. The
action `Receive` takes a chunk; `Reason`, `Update`, `CloseReasoning`,
`ToolCallDelta`, `NoMoreCalls`, `ContentDelta`, `TextDelta` are the parts of the
loop's body in the order in which it runs them; `FinishSemantic`, `FinishText`,
`FinishRaises` the end. Each puts the events it yields into `queue`; `Pass` hands
one on the way `stream_direct_response` and `stream_response_with_persistence`
do, storing the response first if the event ends it. `StoreFails`, `Fail`,
`FailFails`, `NotStarted`, `EngineFails`, `Disconnect` are what can go wrong. The
model is of requests with `store: true`; without it nothing is stored, and the
events are the same. Texts are counted in chunks, reasoning and arguments are not
counted.

Three modes: the request has no tools, the model has no tool parser (text that
looks like a tool call is then kept back until the end), or there is a parser. What
the engine's parsers may return is `Possible`, the one definition that
does not translate code of this repository: reasoning comes first, and the tool
parser answers every chunk once it has let text through. The constants `Quirks`
and `Mentions` take these assumptions back; see
[Disagreements](#beyond-the-configurations).

### Batches: BatchJobs

The database is `batch` (the object clients read: status, counts, output and error
file), `spec`, `exec`, `lease` and `files`. `proc[p].todo` lists the store calls a
process still makes before it really waits, one step each; a task is suspended
while its input is read (`content`), its requests run (`gather`) or a result is
uploaded (`upOut`, `upErr`). A program such as `Finish`, `Failure`, `Cancellation`
or `GiveUp` is the list of store calls of a piece of code, in its order.

| Code | Actions |
|---|---|
| `create_batch` (API and use case) | `Create`, `PutSpec`, `Enqueue` |
| `cancel_batch`, `request_cancel` | `Cancel`, `Flag`, `Read`, `Write`, `Tell` |
| `_heartbeat_and_prune`, `_claim_pending`, `_claim_batch` | `Wake`, `Look`, `Renew`, `List`, `Check`, `Claim`, `Spawn` |
| `_run_batch`, `process_batch_use_case` | `Begin`, `GetSpec`, `Content`, `LineDone`, `Gathered`, `Uploaded`, `Fails`, `Cancelled`, `DropUnstarted`, `Await` |
| store calls on the way | `Read`, `Write`, `GetExec`, `PutExec`, `DropSpec`, `Release` |
| `destroy`, `_release_owned_work` | `Stop`, `ReleaseOwned`, `ListOwned`, `Down` |
| environment | `Start`, `Crash`, `WorkerCrash`, `Expire` |

`deploy` is chosen in `Init`: whether handlers run in the runner's process,
whether somebody cancels, and which faults there are.

### Stored chat completions: IndexedStore

A completion is an object, an index entry and its messages, each with an expiry of
its own. `Store`, `Update`, `PutObject`, `PutIndex`, `GetMessages`, `PutMessages`
are `store_chat_completion` and the update route, `Delete`, `Drop` the delete route in its
order, `List`, `Keys`, `Backfill`, `Fill`, `Cursor`, `Page`, `Get`, `Return` the
listing of `indexed_store.py` with its backfill; `Age`, `Expire`, `Crash` are the
environment. Batches are stored and listed by the same helper.

### The tool loop: ToolLoop

One request with MCP tools, in four variants: response, streamed response, chat
completion, streamed chat completion. `Connect` connects the servers in turn (a
failing one is left out), `Route` chooses between the loop and a direct
generation, `PrepareResponse` and `PrepareChat` refuse what the code refuses.
`ResponseRound`, `StreamRound`, `ChatRound`, `ChatStreamRound` are what each loop
does with an output, `RunCall` executes one call, `ResponseRoundOver` and
`ChatRoundOver` end a round, `LastRound` is the generation after the rounds ran out,
`Fails` an exception anywhere, `Shutdown` the end of the request. An output is its
calls and the form in which they can be seen (by the engine's parser, by a reader
of the text, by both, or by neither), because the four loops look in different
places.

### Conversations: Conversation

Up to three responses that continue one another. `Ask`, `ReadPrevious`,
`ReadContext` are the preparation of a request (previous response, then its
context, then instructions, input and truncation: `Converse`, `Truncate`),
`Enqueue` the background form, `Respond` and `RespondFails` the generation,
`StoreResponse`, `StoreContext`, `StoreItems` the three transactions of
`store_response_state`, `DeleteResponse` and `DeleteContext` a deletion. `shared`
says whether there are several API workers; with one, nothing comes between two
store calls. `said` is the conversation as a client remembers it.

### Chunks of chat and text completions: ChatStream

`Open` tells the roles, `Deliver` takes one delivery of the engine for one of the
choices and tells what is new of it: of text once the choice has a kind, which
blank text does not give it (`NextKind`), of a parsed call the text beside it.
`Exhausted` is the end of the engine's stream, which need not have ended, or begun,
every choice. `CloseChoice` (`CloseRefused`, `CloseCollected`) closes the choices in
order, `SkipUnseen` passes one a round has no state of, `Usage` and `Done` end the
stream, `EngineError` and `Disconnect` may end it anywhere, `LeaveEarly` among the
role chunks. Three forms: a streamed chat completion, a round of the streamed tool
loop, a text completion. Text is words, markup and blanks.

### Worker processes and routing: EngineWorkers

The parent: `Start`, `TakeOver`, `Spawn`, `WorkerReady`, `WorkerExited`,
`StartupTimeout`, `Interrupt`, `Shutdown`, `StopWorker`, `AllStopped`, `Crash`, which are
`ManagedEngineProcessManager` and `run_embedded`. The workers: `Bind`, `Loaded`, `Die`. A
request: `Resolve` (model to backend to client), `HealthAnswer` with the identity check,
`Generate`, `Unreachable`; `Probe` is the readiness probe, `Expire` the end of a
cached health. Which socket and backend each model has is chosen in `Init`, all
combinations of them.

### One engine process: EngineService

`Start` boots the engines in order, `Shutdown` stops them although some may fail
to; `Load`, `EngineAdd`, `Register` are a load before, during and after its
`await` of the engine, `Unload`, `EngineRemove`, `Unregister` an unload, `Generate`,
`EngineRun`, `EndRun` a generation that names an adapter. The engine is external:
it knows adapters by number, loads one it lacks, keeps one it has, and may drop
one (`Evict`).

## Runs

`tlc -config X.cfg M` with the module that `PROJECT.json` names. Each run takes from
seconds to two minutes.

| Run | Question | Instance |
|---|---|---|
| `LocalCancelDelete` | Runner in the API process: do creations, cancellations, deletions, failures and graceful restarts leave the four records consistent, is the one-job lifecycle kept, does every shutdown end? | 2 jobs, 2 handlers, 1 restart, engine failures |
| `TwoRunners` | Can two runners work on one job, is a completion recorded that was not stored, does every job settle? | 1 job, 3 incarnations of which 2 at once, graceful stops, engine failures, crashes of runners and API workers |
| `Store` | Do index, meta and entries agree, are cleanups invisible, is the store a map with expiries? | 2 namespaces, 2 keys, 2 processes, budget 1, a minute of 2 s, 4 s |
| `Files` | Are listings ordered, complete and right about `has_more` while files come, go and expire? Is what failed uploads and dead workers leave removed? | two casts: a writer and a lister on 3 files of 2 purposes, pages of 1, batches of 1; two writers and a cleanup loop on 2 files |
| `Stream` | Do the events follow the protocol, is the response the one they told of, is it stored before the client is told? | up to 5 chunks of 10 kinds in 3 modes, all failures |
| `Batches` | Does a batch end once, agree with its execution, account for every request? | 1 batch of 2 requests, 2 runner incarnations, 2 API workers, 3 deployments |
| `Tools` | In all four loops: do limits hold, are results read, calls run once and accounted for in what is stored and told? | 2 servers that may not connect, 2 rounds and the last generation, 2 calls an output, budgets 0 to 2 or none |
| `Turns` | Is the engine sent what was said, are calls followed by their results, is as little as possible truncated? | 3 turns of 3 kinds, a context of 9 messages less 3, one worker or several |
| `Chunks` | Is every text and call told once, each choice finished once, the sentinel last? | 2 choices of 4 pieces together (words, markup, blanks), all forms, in every order |
| `Workers` | Are workers stopped, reachable, and asked for their own model only? | 2 models with all 16 layouts of 2 sockets and 2 backends, 4 worker processes, 1 request, 1 killed parent, 1 worker that dies |
| `Indexed` | Do stored completions stay listed, and are listings complete? | 3 completions, 1 older than the index, 2 processes, pages of 1 |
| `Engine` | Have adapters numbers of their own, do generations run with theirs, does a shutdown leave nothing? | 2 models, 2 adapters of 2 paths, 2 calls at once, 2 numbers |

**Properties.** Where several invariants of a run say one thing to its reader they
are one property, the conjunction of named parts, each with its own comment in the
module.

- Jobs. `RecordsAgree` (`SettledRecordsAgree`, `ClaimableHasSpec`) relates response,
  execution and spec once nobody works on a job; `CompletedIsStored` likewise;
  `CancelAnswerHolds` relates what a client was told to what it may see later;
  `DeletedLeavesNothing` is about a deletion that raced a runner; `OneWorker` and
  `WorkersHoldLeases` are mutual exclusion; `ImplementsLifecycle` is the
  refinement; `JobsSettle` and `ShutdownEnds` are liveness.
- Store. `IndexAgrees`; `CleanupsAreInvisible`, an action property (no step that
  moves a sweep changes what a caller sees); `ImplementsTtl`.
- Files. `PageIsRight` is about a whole listing, from its first store call to the
  answer; `ListableUntilDeleted`; `OrphansGo`.
- Responses. `EventsInTurn`: numbers count, one item is open at a time, output
  indices are in order, every event is about the open item. `ContentAsTold`: output
  and texts of the response are those the events told. `ToldIsStored`.
- Batches. `BatchToldTruly` (`SettledAgree`, `CompletedIsWhole`,
  `CancelAnswerHolds`); `EndIsFinal`, an action property; `BatchesEnd`.
- Tools. `LimitsKept` (`BudgetKept`, `RoundsKept`, `SerialKept`); `CallsAnswered`
  (`ResultsAreRead`, `RunOnce`, `ContextAnswered`, `RunIsAnswered`); `ToldIsAnswer`.
- Conversations. `TurnsContinue` (`NothingForgotten`, `InstructionsOnce`);
  `CallsMatched` (`ResultsFollowCalls`, `ServerCallsAnswered`,
  `ItemsTellConversation`); `TruncationIsLeast`, the greedy truncation against its
  definition.
- Chunks. `StreamEndsOnce` (`FinishOnce`, `DoneIsLast`, `UsageIsTrue`);
  `ContentDelivered` (`TextDelivered`, `MarkupHidden`); `CallsTold`.
- Workers. `OwnedAreStopped`; `RightWorkerServes` (`OwnWorkerReachable`,
  `ServedByItsModel`, `LimitKnown`); `TransitionsEnd`.
- Completions. `StoredIsWhole` (`StoredIsListed`, `MessagesKept`); `ListedRight`
  (`ListedInOrder`, `ListedAll`).
- Engine. `NumbersDiffer`, `RunsItsAdapter`, `ShutdownLeavesNothing`.

The type invariant of a module is a property of its own or the first conjunct of
one of these.

**Bounds.** Two jobs are enough for the runner's list of candidates, its
`max_parallel_jobs` and the release of several jobs at shutdown to matter; no
action relates three. An interleaving bug needs two handlers or runners; a crash
needs a second incarnation to find what was left, and two live runners plus a
third show a takeover while a former owner still acts. The store needs two keys
for the order within the index and a budget below their number, two namespaces for
a sweep that is interrupted between them, two processes for a write in between,
and a clock that passes two minute boundaries; the other constant, the length of
a minute, only scales. Listings need three files, or completions, for a page, its
successor and one to skip; pages and batches of one reach every boundary. The
cleanup loop is checked without a lister: it removes contents and looks at
metadata, a listing looks at neither contents nor the directory. Five chunks are
reasoning, text, two calls and one more to return to something earlier.

Two lines of a batch are one that answers and one that fails. Two rounds of tools
are one after which there is another and one after which there is none; two calls in an output
are the least that parallel calls, a mixed round or a budget that ends within
a round need, and two servers that one may be missing. Three turns let one
continue the first, the second, or one that was deleted, and nine messages are
truncated in the third at the latest. Three pieces are a word before markup or
markup that is complete and goes on; two choices are all orders of closing. Two
models with all layouts of sockets and backends share everything, something or
nothing; four worker processes are one each for two parents, and a
parent is started again only while enough are unused for it. A completion is
changed once by an update (from its first value) and deleted once. Two numbers
are enough for one to be freed and given again while the other is in use; what
the engine held is forgotten at shutdown, since nothing reads it then.

**Fairness** is stated only where a liveness property is checked.
`ResponseJobs!Fairness` and `BatchJobs!Fairness`: asyncio resumes every ready
coroutine (weak fairness on steps of a process that has begun, strong on `Wake` and
on `Resume` or `TaskStep`, which other coroutines disable while they hold the event
loop: its ready queue is FIFO, so none is passed over for ever); engine calls and
uploads return or fail; leases that are not renewed run out; somebody starts
another runner when too few are up. That last assumption is about the operator's
service manager: vfront does not restart a private runner that died. Nothing is
assumed of clients, shutdowns and crashes. `LmdbStore!StoreFairness`: time passes and
cleanup loops run, and the transaction for a namespace does not fail every time.
`FileStorage!Fairness`: cleanup loops run; requests may hang for ever, since
garbage is collected whether or not they go on. `EngineWorkers!FairSpec`: a parent
that is starting or stopping goes on, since it waits with timeouts only; the
workers may hang for ever.

`CHECK_DEADLOCK FALSE` is set where the system may rightly come to rest: all
incarnations used up, all files deleted, a stream or a request at its end.

**Further configurations** are kept beside the runs. `PrivateRunner.cfg`
(`MCResponseJobs`) passes: a private runner that crashes, stalls past its lease and
is restarted, two jobs of which one is `store: false`; `ClaimableHasSpec`,
`CompletedIsStored`, `ImplementsLifecycle`, `JobsSettle`. The others are the
counterexamples of the next section.

## Disagreements

Seven properties state what the documentation, a comment or a name in the code
says, and the code does not keep them. Each has a configuration with which TLC shows
how, as small as that takes.

- `tlc -config LocalCancelLost.cfg MCResponseJobs`, `CancelSettles`. `request_cancel`
  calls `task.cancel()`. If the task has not taken its first step, asyncio never
  enters the coroutine, so neither its `except` nor its `finally` runs. The
  execution stays "running" with `cancel_requested`, and a flagged execution is
  not claimable: the response stays "cancelling" for ever
  (`F/service/jobs/runner.py:130`, `:312`).
- `tlc -config OutcomeOverwritten.cfg MCResponseJobs`, `OutcomeIsFinal`. The claim
  writes "running" without looking again (`runner.py:332`): a job cancelled between
  check and claim, and already answered as cancelled, starts to run.
- `tlc -config EngineInitFails.cfg MCResponseJobs`, `FailedIsStored`. A job whose
  engine client cannot be initialized fails; its stored response stays "queued"
  (`F/usecases/responses_background.py:57`).
- `tlc -config StoreLeak.cfg MCLmdbStore`, `ExpiredArePurged`. A cleanup drops the
  index entries of the minute it runs in whether or not their entries have
  expired; those are never purged (`F/service/store/lmdb.py:527`). Reads hide
  them, so nobody notices but the disk.
- `tlc -config UploadLost.cfg MCFileStorage`, `StoredHasContent`. A cleanup that runs
  while a file is uploaded takes the missing metadata for an expired file and
  unlinks the content (`F/service/file_storage/main.py:457`).
- `tlc -config TurnLost.cfg MCConversation`, `TurnsAreRemembered`. A response is
  stored as completed before its context is, in another transaction; a
  continuation that reads in between, or after a crash in between, is sent the
  previous output without the turns before it
  (`F/service/persistence/response_store.py:75`).
- `tlc -config ToolsUnread.cfg MCToolLoop`, `McpCallsAreRun`. The streamed tool loop
  looks for calls in the text only; with a tool parser in the engine the text has
  none, so calls of MCP tools are neither run nor answered
  (`F/usecases/responses_streaming_agentic.py:119`).

### Beyond the configurations

What follows was met while the modules were written or with other values of the
constants; it has no configuration of its own. Where a property had to be worded
so as to leave one of these out, its comment or this list says so.

**Jobs**, with a private runner: the cancel handler may save "cancelling" over the
"completed" that the runner stored meanwhile (`responses_admin.py:119`), so
`SettledRecordsAgree` needs local mode. A job flagged while `_release_owned_work`
is at work is put back into the queue with its flag, where nobody claims it
(`runner.py:141`, `:169`); a crash of the runner leaves a flagged job the same
way (`runner.py:312`). So `CancelSettles` fails with "stop" or "crash" too, and
`JobsSettle` is checked without cancellations. With two runners a job may go from
"completed" back to "running" (`runner.py:332`), so there `ClaimableHasSpec` and
`ImplementsLifecycle` fail. With "stall", a runner whose event loop was held up
for longer than the lease goes on beside the one that took over, because the
answer of the heartbeat is ignored (`runner.py:234`); that is why `TwoRunners`
and the theorem behind it exclude it. The private runner has no handler for
SIGTERM, so the `terminate()` of the process that started it acts as a crash; a
graceful stop comes only from its own lifespan. A crash of the API worker between
the transactions of a creation leaves a response queued for ever
(`responses_creation.py:80`). `StoreMutation.set` without a retention removes the
expiry an entry had (`lmdb.py:62`).

**Files.** The backfill of a listing reads a file's metadata and writes it back; a
deletion in between is undone, and the file is listed without content
(`file_storage/main.py:391-410`). A cursor whose file was deleted ends the listing
with `has_more: false`.

**Batches.** With a private runner the cancel handler stores what it read, so a
batch completed meanwhile is "cancelling" again and its output file unnamed
(`F/api/v1/batches.py:248`). A crash between storing "completed" and marking the
execution opens the batch again: it goes back to "in_progress", runs once more
and uploads another output. A rerun without failures keeps the error file of the
run before. A crash during creation leaves a batch "validating" for ever
(`F/usecases/batches.py:142`). Lines with one `custom_id` share a target
(`batches.py:64`). A stop or cancel during the upload of the error file leaves an
output file no batch names.

**Tool loop.** The streamed loop does not read `max_tool_calls`. What it builds
its answer from is the parser's last delta, so a message or calls before it may be
lost (`responses_streaming_agentic.py:259`). Calls in the text of a final output
make the conversion of the response raise after the tools ran
(`adapter/response.py:601-610`). If a round leaves calls to the client, the calls
executed before are not in the response although they were told, and indices
differ; a mixed round runs the MCP calls without telling them. The last generation
is "without tools" by its comment (`F/service/mcp/executor.py:356`), but tools are
offered, and MCP calls in it are shown "completed" and never run. In a chat
completion the client's calls of a mixed round are lost. The streamed chat loop
runs tools in one round more than the limit and ends without a generation that
reads their results; every round has an id and a finish chunk of its own. Qualified
names of tools may collide (`F/service/mcp/client.py:88`), and the MCP session is
used without being entered.

**Conversations.** What truncation drops is dropped for all later turns; it may
drop the latest user input, and the call a result belongs to
(`adapter/response.py:186`). Replayed `function_call` items become empty user
messages (`:378-402`). A system message with a list as content raises when there
are tools (`:351`). With several workers the two reads of a continuation race with
storing and deleting.

**Chunks.** Deliveries with parsed call deltas are not counted in the usage
(`adapter/streaming.py:256`). With a parser, markup after leading words is told as
content (`:285`). A stream may raise for one choice after texts of others were told
(`:319`). A round of the tool loop ends "tool_calls" with no chunk that tells the
calls (`:541`), the ids told differ from those executed (`:538`, `:590`), and it
has no event for an error. Blanks a choice begins with are lost from a chat and a
round if they are delivered by themselves: they give the choice no kind
(`adapter/assistant_output.py:65`), so they are not told, and at the end only a choice
that told nothing gets its whole text (`:86`); the answer of the same request without
streaming has them. `ContentDelivered` excepts exactly these. If the engine's stream
is over before it ended a choice, a chat and a round finish that choice with no
reason, and a text completion tells the sentinel without a finish for it
(`adapter/streaming.py:646`); of a choice never delivered a round says nothing. `Due` names
the choices that are finished.

**Worker processes.** An interrupt during the wait for a worker leaves it running
and unregistered (`F/service/engine/process_manager.py:103`). Workers of a killed
parent are taken over and then never stopped, or, if still loading, get a second
worker beside them whose socket they may take later. Managed transport accepts two
models on one backend (`F/service/engine/settings.py:54` checks remote only) and
names that become one socket (`shared/engine/managed.py:61`): chat requests are
then refused by the identity check, embeddings are computed by the wrong model
(`F/api/v1/embeddings.py:29`), which is why `ServedByItsModel` is about chat. All
embedding requests use the ids `embd-0`, … (`:41`).

**Stored completions.** The backfill runs only if the index is empty, so a crash in
the middle of it, or a completion stored first, leaves the older ones unlisted for
ever (`F/api/v1/helper/indexed_store.py`). An update that races a delete brings a
completion back without messages; messages that expire during an update are lost.

**Engine.** The number of an adapter is chosen before the engine is awaited, so two
overlapping loads share one (`engine/service/lora_manager.py:76`). The number of an
unloaded adapter is given again while a queued generation may still make the
engine load the old weights under it; a later adapter then runs with those.
Adapters from the settings reach the engine when first used, so unloading one before
is refused. A load answered while an unload of its name is under way is undone. A
failing start leaves earlier engines running. `vfront engine` without
`--runtime-model` boots every configured model, its routes serve only the first.

**Streams**, constant `Quirks`. With "holding", the tool parser keeps a chunk back
after it has let content through (parsers of tool calls in bare JSON do so with
an opening brace). The loop then takes the path for plain text: a second message
is opened at the stale output index 0, and as tool calls follow it is never
closed and not part of the response (`response_streaming.py:714`, `:835`);
`EventsInTurn` and `ContentAsTold` fail. With "late", reasoning after text gets
deltas for an item already closed, or is opened at a stale index (`:528`). With
`Mentions`, a request whose instructions contain the words "response.completed"
has its `response.created` event taken for the final one by a substring search
(`F/api/v1/responses.py:153`); the response is stored as "in_progress" and never
again. Two small things hold even without: if storing the final response fails,
its event is withheld and one sequence number is skipped (`NumbersCount` says
so), and blank text before the first other text is in the final text of a
message but in none of its deltas (`TextAsTold` says so). A client that
disconnects leaves nothing stored, although it was told the response's id.

## Proofs

TLAPS checks them for every value of the constants.

**`ResponseJobsProofs`** proves `Typing` (type correctness, with the auxiliary
`StepsFit`: a process in the middle of a job's store calls knows the job), and,
assuming that no lease runs out under a working runner (`"stall" \notin Faults`)
and that nobody deletes responses, `LeaseHeld` (`WorkersHoldLeases`) and
`Exclusion` (`OneWorker`): however many runners, jobs and handlers, and whatever
crashes, no two runners have a task for the same job.

`OneWorker` is not inductive: a state with two runners about to work on a job
satisfies it. What makes it so is that a worker holds the job's lease and the
lease is live, for then two workers would be two owners. The invariant is

    LeaseInv == TypeOK /\ StepsFit /\ NobodyDeletes /\ MarkersHaveTasks /\ WorkersHoldLeases

`WorkersHoldLeases` counts a runner as working from the moment the claim got the
lease. It survives `Expire` because of the first assumption, the other runners'
claims because `HeldByOther` refuses them, their releases because only an owner's
lease goes, and `DeleteLease` by the second assumption: deletion removes the lease
last, whoever holds it by then. `MarkersHaveTasks` is needed where a task resumes
after its engine client was initialized. TLC checks the same two properties in
`TwoRunners`. There is one lemma per group of actions for types and one
for exclusion; the lemmas at the start give the types of the helper operators
(`Continue`, `Goto`, `Settle`, `Yield`, ...).

The second part of `ResponseJobsProofs` is about the four records of a job. It proves
`RecordsAgreeLocally` (`RecordsAgree`), `CancelHolds` (`CancelAnswerHolds`),
`DeletionIsWhole` (`DeletedLeavesNothing`) and `Refinement` (`ImplementsLifecycle`,
all of `JobLifecycle!Spec` for every job, which has no fairness) for any number of
jobs, handlers and restarts in local mode,

    LocalMode == Local /\ MaxUp = 1 /\ Faults \subseteq {"stop", "engine"}

which is what `LocalCancelDelete` runs: handlers and runner share a process that is
restarted but not killed. Where they are processes of their own `CancelAnswerHolds`
fails, in the race `OutcomeOverwritten` shows. The invariant `LocalInv` says who may be at work: at most one runner is up (`OneUp`), a handler
amid its calls has that runner to itself (`Hosted`), a runner's program counter, its
tasks and the job it is about agree (`Runs`, `EngagedRuns`), and for each job the
records match the point its runner (`JobFits`) or its handler (`HandlerFits`) has
come to. The four properties are read off it. The refinement maps the write of the
execution in creation to `Submit`, in the claim to `Claim`, in the outcome to
`Settle`, `Requeue` or `CancelIdle`, by the outcome written; the cancel of a queued
job to `CancelIdle`; giving an unfinished job up, and dropping a task before it
began, to `Abandon`; the deletion of the execution to `Delete`; and everything else
to a stutter.

`CompletedAfterStored` (`CompletedIsStored`) holds for any number of runners and API
workers, all of which may crash at any point, where clients only create responses
and no lease runs out under a working runner (`OnlyCreations`, as in `TwoRunners`).
The invariant adds to `LeaseInv` that whoever is about to write the outcome
"completed" finds the response stored so (`WritersFit`), and that nobody is at work
on a job whose execution is completed (`EngagedOpen`): an outcome is written from a
copy read before, and exclusion keeps that copy true.

**`BatchJobsProofs`** proves `Wholeness` (`CompletedIsWhole`), `ToldTruly`
(`BatchToldTruly`) and `EndStays` (`EndIsFinal`) for all sets of batches, runners,
workers and deployments and any number of requests.

`Wholeness` assumes nothing: whatever runners crash, stop and run one batch at once.
Its invariant, `WholeInv`, follows the counts and file names of a batch from the task
that has them in its hands, over the lists of store calls it is about to make, into
the stored object (`Wrapping`, `TaskWhole`); an object read and stored again by a
handler or another runner is whole because every stored one is.

The other two are about deployments with one runner at a time, which is not killed
where it shares a process with the handlers,

    OneRunner == MaxUp = 1 /\ \A d \in Deployments : d.local => "crash" \notin d.faults

which is what `Batches.cfg` runs. With two runners TLC finds that one
checks a queued batch, the other runs, completes and releases it, and the first then claims
it, finds no spec and stores it as failed; a crash in local mode loses the cancel a
client was told of. Neither property is inductive: both say how
`batch` and `exec` relate, which different store calls write, and between the calls they do
not agree. `RunInv` says what holds at each point of each program: every batch is
at rest (`New`, `Live` or `Over`: its object, execution, spec, task and answer fit
together) but the one the runner is at, for which `Point` has a condition for each
program and each call that may be next (`Storing`, about to store an outcome;
`Stored`, the outcome is in both records; `Owned` and `GivingUp`, in a shutdown;
`Free`, about to be claimed). What is left of a program is described by the call it
begins with, and what is left after it (`IsFailure`, `IsMark`, `IsWrite`,
`IsFinish`, ...), so that a step of a program leads from one point to the next. In a
deployment with workers nothing is known of the moment between two of their calls but
that the batch is not queued yet (`Creating`, lemma `WorkerMoves`), which is why the
runner does not meet it. There is one lemma per action. `ToldTruly` then holds because a batch at a
point of a program is not `Quiet`, and `EndStays` because each point before a write either
has an open batch or holds the copy that is stored.

**`StoreProofs`** is about the store itself and the completions kept in it. For
`LmdbStore` it proves `EntriesTyping`, `IndexSound` (`IndexAgrees`),
`Invisibility` (`CleanupsAreInvisible`) and `Refinement` (`ImplementsTtl`, the
whole of `Ttl!Spec`, which has no fairness), for all namespaces, keys, processes, retentions, budgets
and lengths of a minute. The invariant is

    EntriesInv == StoreTypeOK /\ SweepsLookBack /\ IndexAgrees

`IndexAgrees` is inductive next to the types because every write finds the old
index entry through meta. `SweepsLookBack`, a sweep's time has passed, is what
makes cleanups invisible: what had expired when the sweep began has expired
now, although other processes wrote since. For the refinement, `Put`, `DeleteEntry`
and `Tick` map to the abstract put, deletion and tick (what `Put` writes is not yet
expired, lemma `ExpiryIsLater`), everything else to a stutter.

For `IndexedStore` it proves `Wholeness` (`StoredIsWhole`) and `RightListing`
(`ListedRight`) for all processes, completions, page sizes and batches. `Whole`
generalizes the first property to the middle of operations: an object without its
index entry or messages has a process that is about to write them or to delete the
object. `Listings` is as for files, with a filter and a cursor that may be gone;
that each listing reads the index batch by batch in order rests on the same kind of
ranking.

**`FileStorageProofs`** proves `Typing`, `Listability` (`ListableUntilDeleted`) and
`RightPage` (`PageIsRight`) for all files, writers, listers, cleanup loops, page
sizes and scan batches. `FilesOfRequests` says that a file belongs to one upload and
is deleted only after it, and that what the backfill of the indices writes it found;
from that an uploaded file keeps both entries. `Listings` follows a listing through
its store calls: what it has found is in order and past its cursor, and what was
listable all along is in the page, in the batch at hand, or behind the point the scan
has come to. `FirstOf`, the n first of a set, chooses for each place the file with so many
before it; that there is one, and nothing is left out before the last, is lemma
`FirstOfIsFirst`, which rests on that rank being a bijection.

**`EngineWorkersProofs`** proves `StoppedLeavesNone` (`OwnedAreStopped`) and
`RightWorker` (`RightWorkerServes`) for every list of distinct routes, however models
share sockets and backends. `Accounted`: a worker that runs is waited for, owned, or
left behind by a killed parent. `Undisturbed`: as long as nobody was left behind, the
socket of an owned worker that lives leads to it, and only the worker waited for may
not be ready; it is what fails once an orphan still listens. `HealthKnown` and
`CheckedLeads` carry that over what the client has cached, from the answer of
the health check to the request that relies on it. `Endpoint`, the socket a backend's
client talks to, is the first route's with that backend (lemma `EndpointIsSocket`, by the
well-foundedness of the naturals).

**`EngineServiceProofs`** proves `Numbering` (`NumbersDiffer`), `RightAdapter`
(`RunsItsAdapter`) and `CleanShutdown` (`ShutdownLeavesNothing`) for all models,
adapters, paths, concurrent calls and faults. The properties make an exception of the
numbers that loads under way at once were given, and of those given up while still
used: the code lets both happen. `NumbersApart`: any other number is registered, or
being loaded, once at most. `HeldIsKnown`: what the engine holds under it is
registered, or its load has been answered and is about to be. `PathsAgree`: everybody who uses it means the same path; that is what
makes a generation that waits for the engine run with its adapter.

**`ResponseStreamProofs`** proves, for streams of any length over any chunks, and
for every point at which a stream may fail or its client may leave:

- `Storing` (`ToldIsStored`), if the request's own text cannot be taken for a final
  event (`Mentions = FALSE`). The invariant `EndStored`: an event that ends the
  stream is its last, whoever was sent it finds it stored, and before the generator
  has ended there is none.
- `Protocol` (`EventsInTurn`) and `Content` (`ContentAsTold`), if reasoning comes
  before the answer and the tool parser gives up text only (`Quirks = {}`). These
  are the values in `Stream.cfg`; what happens otherwise is described under "Beyond
  the configurations".

`Numbering` holds at any time and says how far the generator's counter is ahead of
what was sent. For the rest the invariant relates the generator's variables to the
events so far: `Tells(s, extra, open, length, done)` says that the sequence s follows
the protocol and has told of the items `done`, in their places, and that item `open`
is open with `length` tokens. `AliveFits` states it of the variables of the generator
at work, with the parser's modes (`ChunkFits`), the items (`ItemsFit`) and the counts of
text (`TextCounted`). The text of a message may lose the blanks it begins with, and
how many is known at the end only; so `AliveFits` has it for every number `extra` of
blanks, and the end picks the one. A step yields several events at once;
`Leads(es, extra, p, q)` says that es takes what was told from p to q; it is proved
once each for opening an item, going on with it and closing it, and composes (`BothLead`).

**`RequestProofs`** is about the requests that generate: which generations a request
is, how its chunks are told, and what it takes from earlier requests and leaves to later ones.
For `ToolLoop` it proves `LoopLimits` (`LimitsKept`), `LoopAnswers` (`CallsAnswered`)
and `LoopTells` (`ToldIsAnswer`), in all four loops, for any servers and tools, limits and budgets and
any number of calls in an output. The invariant is

    LoopInv == Types /\ Phases /\ Executed /\ Conversed /\ ToldSoFar /\ Concluded

`Phases` bounds the rounds at each point of each loop. `Executed`: what was run and what is still to run was
asked, stands in the order of rounds and of calls within them, which is why nothing
runs twice, and fits the budget together. `Conversed`: every call of the conversation has its result, is
to be run, or is the client's. A round splits the calls of an output with `Among`, which picks
members of a sequence by rank; lemma `FreshParts` says that it picks all of them, in
order and each once, for the rank is a bijection.

For `ChatStream` it proves `ChunksEndOnce` (`StreamEndsOnce`), `ChunksDeliver`
(`ContentDelivered`) and `ChunksTellCalls` (`CallsTold`), for any number of choices
and texts of any length, delivered in any order by an engine that may stop anywhere.
`ContentDelivered` compares by `AllButBlanks`: what was told is the text without some
blanks it begins with, and none are missing where nothing else follows. `ChunkInv` has for each choice
`Answered`: it is over exactly if a finish was told of it; while it is not, the kind
its text was taken for says what has been told of it and what is kept back, and that
is kept whole (`Unfinished`); and the reason it was finished with fits what was told (`ConcludedWith`).
`ChunkEnds` has the order: after the finish of a choice nothing but the usage,
after the end of the stream nothing. `Counted` makes the usage the sum of the texts'
lengths. What a sequence of chunks says of a choice is a recursive function; that it
exists, is unique and takes concatenation to concatenation (`ContentAddsUp`,
`AddsAgree`, `ContentConcat`) is shown without induction, by the least index at which
it would fail.

For `Conversation` it proves `NothingSaidIsLost` (`TurnsContinue`),
`CallsGoWithResults` (`CallsMatched`) and `NoMoreIsDropped` (`TruncationIsLeast`), for
any number of turns, kinds of request and answer, and any room. The invariant is

    TurnsInv == Typed /\ OneMidway /\
                \A t \in Turns : Placed(t) /\ Lone(t) /\ Stored(t) /\ Asked(t) /\ Least(t)

`Stored` has what the properties leave unsaid and the next turn needs: a conversation
kept for it holds no instructions, makes every call the output has pending, and,
unless it was truncated, has its results in place and (with one worker) is what was
said (`Kept`). `Lone` and `OneMidway` say why one worker suffices for that: a response
that is being continued is neither half stored nor half deleted. `Asked` is the
conversation the engine is sent and `Least` the truncated one. TLC checked the
invariant on the run's instance before it was proved. A step is proved to keep the
part of its own turn (`AskStep` to `ReadContextStep`); lemma `TurnsKeep` has the other
turns, from what such a step leaves of its own turn for them (`Goodwill`, `Apart`).

The selections (`ForContinuation`, `SystemOf`, `OthersOf`, `ItemsOf`, `HistoryOf`) are
concatenations over a sequence, and most lemmas say what they return for every
sequence. This needs no induction schema either: a set of sequences that has the
empty one and with each its extensions by one element is all of them, by the least
length at which it would fail, and each lemma defines the set it is about.

**What is assumed.** All assumptions on constants are the named `ASSUME`s of the
modules; TLC evaluates them in every run. Beside the shapes of the constants
they say:

- `EngineServiceAssumption`: a process serves at least one model, finitely many, and
  one adapter is configured under a number
  (`runtime_factory.py:68-85`, `settings.py:98-107`).
- `EngineWorkersAssumption`: there is a route (`modes/validation.py` refuses to start
  without) and no runtime model has two (`runtime_routes` of the routing settings
  lists each once), and workers are finitely many, which is a bound of the model.
- `ToolLoopAssumption`: each server offers a set of tools, and limits and budgets are
  natural numbers (`mcp/executor.py` reads them from settings and requests that
  demand as much).
- `ChatStreamAssumption`: the choices are numbered 1 to n (the API requires `n >= 1`).
- `TurnsAssumption`: turns are numbered from 1 without a gap, the room and the reserve
  are natural numbers, and requests and answers are of the kinds the model has (a
  bound of the model: the four kinds of answer are those of `Answers`).
- `IndexedStoreAssumption`: a page has room for one at least (the API accepts 1 to
  100), at least one entry is read at once (the code reads 50 or more), and
  completions are finitely many.

## Limits

Model-checked only:

- all liveness (`JobsSettle`, `ShutdownEnds`, `OrphansGo`, `BatchesEnd`,
  `TransitionsEnd`), since it rests on `ENABLED`, which the prover does not handle;
- the record invariants of jobs and the lifecycle where the runner is a process of
  its own (`PrivateRunner`), and exclusion where responses are deleted;
- batches run by several runners at once, beyond `CompletedIsWhole`.

Left out of the modelled parts:

- Jobs: attempt counters and timestamps, which nobody reads to decide anything;
  waiting for a private runner to end and killing it after a timeout; the order in
  which candidates are claimed (newest first, `runner.py:279`), so that an old job
  might starve under a steady supply of new ones; that a listing of executions reads
  them one at a time, since each is used by itself and, to claim it, read again.
- Batches: which target a request goes to; the health of a backend that a batch asks
  for once and keeps for all its requests (`F/service/engine/client_initializer.py:102`);
  sums of usage, and an error in them after the last answer (`F/usecases/batches.py:221`),
  which ends the batch as the failures of the model do; the texts of the result files;
  their deletion and retention.
- Store: the per-process cache of registered namespaces (registrations are never
  taken back); a clock that is set back; a crash of the operating system, which
  `sync=False` exposes to loss; reads, beyond what they return (`Visible`).
- Files: reading content; that a file may not be deleted while a batch refers to it;
  retentions so short that they end during a request; what lies between a write that
  fails and the removal of its content, which are one step (`WriteFails`). An upload
  of bytes does not remove it; what is left is then what a crash leaves.
- Stored completions: paging through the messages of one of them, which only reads.
- Streams: output that is rewritten rather than extended (the parsers are given
  the whole text every time); several choices of a response, which the API does not
  offer; the code for tool calls found in the text afterwards
  (`response_streaming.py:863-874`, `:996-1005`), which cannot be reached, since
  that text is only recognized if the request has tools, and then line 858 raises.
- Tool loop and conversations: arguments, results and texts; what an MCP server does
  with a call; timeouts of calls, which end like any other failed call, with a
  result; the order of messages within a kept conversation beyond what the
  properties read.
- Chunks: log probabilities, reasoning, ids.
- Workers and engines: the encoding of the calls between them, authorisation, and
  the tokenizer cache; what sleeping or restarting engines by hand would do, since the
  code has no such operation; what lies between the stops of two engines of a process
  (`Shutdown` is one step). Three rare endings of workers, each of which can leave one
  running or give it a second one beside it: an interrupt during a shutdown, which by then has
  forgotten the workers it has not stopped (`F/service/engine/process_manager.py:65`, `:73`
  catches exceptions only); a killed worker that does not end within five seconds
  (`:204`, logged and forgotten); a ready worker that does not answer a probe within its
  second (`:220`), which counts as not ready.

### Not modelled

Middleware (errors and logs are formatted, nothing is kept), configuration
(declarations; the settings that matter are constants of the modules), backend
identity (a digest of the configuration). Of other components the parts that only
convert data are left out, as `PROJECT.json` says for each: sampling parameters,
wire formats, content parts, infill templates, checks of request fields.

## Plan

Done so far: every module above. What is left, in this order:

1. Proofs. Exclusion in the presence of deletions, and for batches with several
   runners.
2. Composition. `ToolLoop` with `ResponseStream`, so that sequence numbers and
   indices run on across rounds; `IndexedStore` with the expiry of `TtlStore`;
   `EngineWorkers` with the runner that waits for an engine.
3. Pure algorithms against reference definitions: pagination of input items,
   splitting of reasoning and answer, the targets of a batch's requests.
