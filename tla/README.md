# A verification of nyquest

nyquest is an HTTP client facade: an application talks to one small API, and a
backend carries the requests out with the client library of the platform. The
facade has no concurrency of its own. The backends do: each of them joins a
Rust caller (a future on some executor, or a blocked thread) to callbacks that a
C, Windows, Apple or Rust library makes on threads of its own. What can go wrong
is what these two sides do to their shared state between two locks, what they
leave to the next request, and what they make of a body piece by piece. That is
what this directory models.

The TLA+ modules are translated from the source; the lines of every definition are
in `PROJECT.json` ("map"). Paths below leave out `src/backends/` and a backend's own `src/`:
`curl/async/loop.rs` is `src/backends/curl/src/async/loop.rs`.

## 1. Inventory

| Part | State it keeps | Operations | What is hard |
|---|---|---|---|
| curl, async loop (`curl/async.rs`, `async/loop.rs`, `shared.rs`, `set.rs`, `handler.rs`) | per client a manager behind an async mutex; per loop thread a task queue reached by `Weak`, a slab of easy handles; per request `SharedRequestStates` with an `AtomicWaker` | `request`, `start_request`, `wait_for_response`, `poll_bytes`, drop of a `RequestHandle` or client; `run_loop`: construct, query, unpause, drop, shutdown, perform, messages, end | the thread ends while requests are submitted; slab keys are reused; lost wake-ups; a failing loop |
| curl, async upload (`async/read_task.rs`) | per stream a buffer and a request `Ready/Read/Seek/Fail/Eof` | curl's read and seek callbacks; the future's poll of the streams; `UnpauseSendHandle` | pause against unpause, rewind against read, a failing part |
| curl, blocking (`blocking.rs`, `blocking/multi_easy.rs`) | a slot with one pooled multi handle; its easy handle and callback state | `request`, `read`, `bytes`, drop | several threads and one slot; leftovers of the last request; a message read before a count |
| curl, easy handle (`request.rs`, `curl_ng/easy/`) | libcurl's options, the header list and mime it points to, the error buffer | layers' init, `populate_request`, reset | an option that survives a reset; a pointer to freed memory; a setopt that fails half-way |
| curl, header state (`state.rs`) | status, header lines, `header_finished` | header and write callbacks | which blank line ends the headers |
| curl, share (`curl_ng/easy/share.rs`) | an array of mutexes, and a guard slot for each | lock and unlock callbacks | two calls share a guard; two kinds share a mutex |
| winhttp, async (`winhttp/async/`, `handle/request.rs`) | `RequestContext` (state, error, waker, buffer, range) behind a mutex, and a raw `Arc` held by WinHTTP | `request`, streamed upload, `poll_consume_data`, status callbacks | check-then-register, buffer and context lifetime, partial writes |
| winhttp, blocking; URL, multipart, session | handles, `StreamWriter` | session and request options, URL concatenation, body preparation, chunked writes, reads within a limit | chunk framing across parts and buffers; an option that fails; a limit |
| nsurlsession, data task (`nsurlsession/datatask/`, `async.rs`, `blocking.rs`, `response.rs`) | response, `completed`, error, buffer and limit, each with its own lock or atomic; a waker | `request`, `bytes`, `read`, drop; delegate methods | order of the stores, nested `suspend`, waking the right thread |
| nsurlsession, body stream (`stream/ns_stream.rs`, `stream/writer.rs`, `multipart.rs`) | a buffer shared by an `NSInputStream` subclass and the writer | `read:maxLength:`, run-loop events, `poll_progress` | `try_lock` that fails; events against writes |
| winrt, request bodies (`winrt/async/stream_content.rs`, `blocking/stream_content.rs`) | a collection of read tasks, a rewind flag, a position | `ReadAsync`, `SetCompleted`, `GetResults`, `Cancel`, `Seek`, the future's poll | a handler registered as the task completes; a partial read that is continued |
| winrt, requests (`timer.rs`, `timer_ext.rs`, `response_size_limiter.rs`, `response.rs`) | the time left, a thread pool timer, a limit flag, a reader | send, `bytes`, `read` | the timer against the operation, the limit against the end |
| reqwest (`reqwest/`) | a channel and a stream task; a runtime of its own for callers outside tokio; a read buffer | `request`, streamed bodies, `read`, `bytes` | a connection that outlives its future; who drives the managed runtime; an end that is not one |
| messages (`*/request.rs`, `nsurlsession/client.rs`) | - | from a `Request` to a method and header lines | a header given twice; a default that is overridden |
| nyquest-interface | a `OnceLock` with the backend | `register_backend`, erased clients | - |
| facade (`src/` of the repository), presets, tests, examples | none | builders and forwarding | - |

The facade calls a backend through the interface crate's erased clients. A
backend's client creates a request; the response object that comes back keeps
the backend's per-request state alive until it is dropped. Nothing is persisted,
so there is no crash recovery across processes; a thread that ends is the only
restart.

What makes each part correct:

* **every request**: its future becomes ready, or its call returns; a read is
  answered; the body given to the caller is the body received, and an end without
  an error is the end; a dropped response frees what the library holds for it;
* **every upload**: the server has a beginning of the body at all times, in order,
  and takes it for whole only when it is (`ByteStream`);
* **curl**: an easy handle is in exactly one place; a slab key always means the
  request that was given it; a success is not turned into an error; a pooled handle
  has one owner and nothing of its last request;
* **winhttp**: the callback finds its context; no buffer is freed or moved under an
  operation; one operation at a time; what is sent is what client and request say;
* **nsurlsession**: a limit is a limit, a failed task never yields a body, one
  resume undoes one suspend;
* **winrt**: a read's handler is invoked once; the time-out is the caller's.

The hazards of the code, each at its line with the properties that watch it, are
the list "hazards" of `PROJECT.json`.

## 2. Modules

| Module | Models | An action is |
|---|---|---|
| `ByteStream` | what a body transfer promises: the abstract specification of all uploads | bytes arriving, the end, a failure, a rewind |
| `CurlLoop` | the async curl client: request futures, successive loop threads, queue, slab, curl's transfers | one critical section of `SharedRequestStates.state` or of the task queue, or a step between two awaits |
| `CurlUpload` | the stream protocol of one async curl request with several body parts | one critical section of the shared state: a read callback, a seek, one poll of all streams |
| `CurlBlocking` | threads that share a blocking curl client | an access to the slot, or one round of `poll_until` on a handle its thread owns |
| `CurlEasy` | one easy handle through creation, requests and resets | one `curl_easy_setopt`, which may fail |
| `CurlHeader` | the header state of one response | one header line, body callback or look of the caller |
| `CurlShare` | the lock and unlock callbacks of several threads | one acquisition or release of a mutex or slot |
| `WinHttpAsync` | one async WinHTTP request | one critical section of `RequestContext.inner` with the WinHTTP call after it |
| `WinHttpBlocking` | one blocking WinHTTP request, and the code both clients share | one WinHTTP call, or one step of `StreamWriter` |
| `NsDataTask` | one data task, async or blocking | one access to a shared field of the delegate |
| `NsStream` | one streamed body, its `InputStream` and writer | one access to the shared buffer, one run-loop event, one poll |
| `WinrtUpload`, `WinrtBlockingUpload` | the streams given to `HttpClient` | one locked step of a read task; one call on the stream |
| `WinrtRequest` | a request's operations, timer, limit and reader | one call, one callback of Windows, one tick |
| `ReqwestUpload` | a streamed body: stream task, channel, hyper's polls; or blocking reads | one poll of the task or of the body |
| `ReqwestBlocking` | threads that share a blocking client and its managed runtime, and how a response is read | one call, one frame, one step of a read |
| `RequestMessage` | method and headers of a request in each of the five backends | populating one request |

`Uploads` (which extends `CurlUpload`), `Exchanges` (`WinHttpAsync`) and `CurlParts`
(`CurlBlocking`) put modules that share no state side by side: a variable `part` says
which one a behaviour is about, the others keep their initial state. Their
properties are those of the parts, so that one run asks one question of every
backend (are bodies uploaded; are requests answered), and one proof answers it. They
declare the parts' constants and what the code lets them be (`UploadsAssumption`,
`ExchangesAssumption`, `CurlPartsAssumption`). `MCUploads`, `MCExchanges`,
`MCCurlBlocking` and `MCCurlLoop` give the constants values for TLC; the `MCInit` of
the first two only picks one of the initial states for the parts that stand still.

How state corresponds to code:

* `CurlLoop`. `mgr` is `LoopManager.inner`, `cm[r]` the `LoopManagerShared` a
  request cloned, `queue[l]` the deque with the batch that `run_loop` swapped out
  in front (`inBatch[l]`), `slab[l]` the slab. `pc[r]` names the await point of the
  request future, `result`/`resId`/`header`/`buf` are the fields of
  `SharedRequestStates`, `easy[r]` and `handle[r]` say who owns the
  easy handle and the `RequestHandle`: the ghost of Rust ownership, moved where
  the code moves the value. `parked[r]` is "the task sleeps and the AtomicWaker has
  its waker". A loop thread that ends is replaced by the next number in `Loops`.
  `start_request` also replaces the manager of a living thread that it could not wake
  (`loop.rs:194-197`, `SubmitRefused`); `refused` remembers those threads.
* `CurlUpload`. `req`, `buf` are the fields of `SharedStreamState`; a byte is its
  position in the stream and `Junk` a byte that `Vec::resize` made up; `owes[s]`
  says the caller's stream returned `Pending` and must wake the task.
* `CurlBlocking`. `slot`, `lock`, `poisoned` are the slot's mutex; `mine[t]` is the
  handle in a thread's guard; `header[h]` and `body[h]` remember whose bytes the
  callback state of a handle holds, so that a leftover shows; `told` says that the caller
  has been given the error of its transfer; `easy` is the set of handles whose one-place
  set still holds the easy handle.
* `CurlEasy`. `script` is what is left of the calls of the current phase, in the
  order of the code; `opts` what each option is set to and for which request;
  `owned` the list and mime the layers keep alive for the pointers in `opts`.
* `CurlHeader`. A response is a sequence of blocks, any of them; `Foreseen` are the blocks
  that `push_header_data` expects another one after.
* `CurlShare`. `main` and `slotLock` are the holders of the two mutexes of a kind,
  `slot` whose guard waits in the slot.
* `WinHttpAsync`. `st`, `err`, `waker`, `buffer`, `range` are the fields of the
  context; `half` is true between the two critical sections of `poll_for_state`;
  `client` and `raw` are the two owners of the context, `op` the operation WinHTTP
  has in flight, `handle` the request handle up to HANDLE_CLOSING.
* `WinHttpBlocking`. A body is a sequence of tokens; a chunk's size line is one of
  them. `calls` are the WinHTTP calls still to make, `wire` is the body at the server,
  which `Unchunked` takes apart as a server does. A read is given the whole spare
  capacity of the buffer, whatever room the limit leaves, and may bring nothing.
* `NsDataTask`. `response`, `completed`, `received`, `buffer`, `limited` are
  `DataTaskIvarsShared`; `cb` is a delegate method between two of its stores;
  `aw`/`ready` are the AtomicWaker and its task, `registered`/`token` the thread in
  the BlockingWaker and the unpark tokens; `suspended` counts suspensions.
* `NsStream`. `pipe` is `stream_buffer`, `locked` the writer's lock on it, which a
  read only tries; `events` are the blocks on the run loop.
* `WinrtUpload`. `task[s]` is the read task of a stream with its status and handler,
  `todo` what a poll that holds the collection's lock has still to visit. Handlers are
  invoked with the task's lock held, as in the code: one that asks the operation for its
  status or results before it returns is in `stuck` for good.
* `WinrtRequest`. `timer.cancelled` and `exceeded` are the flags the callbacks
  leave for the caller; `remaining` is what `Timer` hands on to the next operation.
  `whole` is the length that `assert_size` compares: that of the body, or of the string
  `text()` decodes from it.
* `ReqwestUpload`. `chan` is the channel of one buffer, `waiter` the waker that
  hyper's first poll wakes; `future` says whether the request future is alive.
* `ReqwestBlocking`. `home` is the runtime that drives a response's connection;
  the managed one runs only while a thread is in `block_on`. `fault` is the connection
  that was lost between two frames, or the time that is over.

Definitions named "Variant of X" in a module's comments are plausible wrong
versions of X. No behaviour of a specification uses them: each property is known
to be violated when X is replaced by one of them.

What is external, and modelled from how the code uses it: libcurl (when it pauses,
restarts and finishes a transfer, which data it locks), WinHTTP's callbacks,
Windows.Web.Http's stack and thread pool, Foundation's session queue and run loop,
hyper's and tokio's tasks, and the caller's own streams. These definitions allow
what the libraries' interfaces allow the backend to see.

## 3. The abstract upload

`ByteStream` has a body, what the receiver has of it, and a state. The receiver
has a prefix at all times, is told of the end only with the whole, and starts
from nothing after a rewind. Each upload is shown to implement it, by a refinement
mapping (`Transfer == INSTANCE ByteStream WITH ...`) and the property below; the last
column says what shows it, besides the runs.

| Upload | Mapping of `received` and `state` | Property | Proof |
|---|---|---|---|
| curl, every stream of a request | `sent[s]`; open while sending, ended when sent | `CurlUpload!BodyIsUploaded` | `UploadIsAByteStream` |
| reqwest, async and blocking | what hyper has sent; an end after the future has gone counts as a failure | `ReqwestUpload!BodyIsSent` | `ReqwestUploadsAreByteStreams` |
| WinRT, async, every stream | what the stack has sent since it last rewound | `WinrtUpload!BodyIsUploaded` | `WinrtUploadsAreByteStreams` |
| WinRT, blocking | the same | `WinrtBlockingUpload!BodyIsUploaded` | `WinrtUploadsAreByteStreams` |
| NSURLSession | what Foundation has read, of the whole form | `NsStream!BodyIsUploaded` | `NsUploadsAreByteStreams` |

WinHTTP's uploads have counts instead of bytes (async) or are checked once the
response is asked for (blocking, `ServerReadsTheBody`).

## 4. Runs

Passing runs:

| Run | Bounds | Asks |
|---|---|---|
| `curl_safety` | 2 requests, 2 loop threads, 2 keys, responses without a body, every failure flag but `WakeupMayFail` on | ownership of keys, handles and outcomes under every interleaving of two requests with the end, failure and replacement of a thread, dead or alive (5.0 M states) |
| `curl_live` | 1 request, 2 threads, 2 write callbacks, cancellation, wake-ups that may fail, late unpauses that are refused | futures and reads are answered, released handles freed, threads end |
| `uploads` | curl: 3 streams of 3 bytes, two seekable, reads of up to 2, 2 rewinds, early responses; reqwest: sized and unsized bodies, inside and outside tokio and blocking; NSURLSession: plain bodies and forms, async and blocking; WinRT: 3 bytes, buffers of 2, 2 rewinds | each upload implements `ByteStream`; a failed stream is left alone; a WinRT handler is invoked once; no upload or read is forgotten |
| `exchanges` | WinHTTP async: 3 chunks of 3 bytes, 4 bytes of response; WinHTTP blocking: ten bodies, chunks and lengths past `U32Max`; WinRT: time-outs and limits on both sides of the body, decoded texts shorter and longer than it; NSURLSession: both clients, limit below the body, a blocking reader that moves to another thread and back; reqwest: 2 threads inside and outside a runtime, 2 requests over one pool, connections that are lost and times that run out; messages: five backends, five methods, bodies and headers (0.5 M states) | the library's buffers and contexts live long enough; servers get the body; what is read is whole or an error; callers are answered; method and headers are sent |
| `blocking_pool` | 2 threads, 3 requests, 2 pieces of body, limit 1, reads after an error; an easy handle for 2 requests of 9 kinds with any setopt failing; 2 threads in nested sections; up to two blocks, foreseen or not, before a final one (1.3 M states) | pooling, reset, limit and ends of bodies; nothing of a request outlives it; sections exclude; a header block is complete |

Runs that find a disagreement between the code and what the repository says of
it (each with a finding in `PROJECT.json`):

| Run | What happens |
|---|---|
| `curl_hang` | `curl_multi_poll` or `_perform` fails while a request that has succeeded has its QueryHandleResponse task queued: the task is dropped, the request is told nothing and pends for ever (`loop.rs:465`, `loop.rs:138`) |
| `upload_rewind` | a rewind while bytes are buffered or a read is under way sends stale or zero bytes (`read_task.rs:247`) |
| `curl_connect` | a proxy answers CONNECT with "200 OK": the reason is not the one `RequestState` knows, and the caller is given the proxy's header for the response's (`curl/state.rs:15`, `state.rs:32`) |
| `winhttp_lost` | an error between the two critical sections of `poll_for_state` is lost to the poll that follows (`state_fut.rs:33`) |
| `ns_lost` | the response arrives between the async future's check and its registration, and the task is suspended (`nsurlsession/async.rs:121`) |
| `ns_large` | `bytes()` sees `completed` before the error is stored and returns a truncated body (`ivars.rs:34`) |
| `reqwest_cut` | outside tokio a request whose future is gone closes the body's channel, which is taken for the body's end (`reqwest/async.rs:110`) |

Disagreements that the model shows and that have no run of their own; the property named
excepts each of them, and TLC finds it when the exception is taken away:

* an unpause that its reader sent before the transfer completed is worked off after it:
  curl refuses it and the error replaces the published success (`loop.rs:420-426`,
  `SuccessIsKept`);
* curl's backend names the methods DELETE and PATCH, and GET with a body, in lower case,
  and posts the fields of a PUT (`curl/request.rs:99-104`, `HeadersAreSent`);
* a request made inside a runtime may get a pooled connection of reqwest's managed
  runtime, which nobody drives, and wait for ever (`reqwest/blocking.rs:119`, `CallsReturn`);
* a blocking response of NSURLSession that is read on its creator's thread, on another one,
  and on its creator's again: the creator is parked and the other thread unparked
  (`blocking/waker.rs:25`, `CallsReturn`);
* a WinRT completion handler that uses its operation before it returns waits for the lock
  that its invocation holds (`winrt/async/stream_content.rs:270`, `:385`, `:399`,
  `ReadCompletes`).

Why the bounds are enough. The curl loop needs two requests for a key to be
reused or a thread to be replaced under someone (both may find one thread ending),
and two threads for a stale manager. Two keys leave one free for reuse. Bodies make the
two requests too many to enumerate, so `curl_safety` has none and `curl_live` has two
write callbacks: the first finds a reader waiting or not, the second a paused or running
transfer. A third thread adds no step that the second does
not have: a request that has lost a thread begins again with the next. Three body
parts give a first, middle and last part; three bytes with reads of two give a full
and a short read. WinHTTP chunks of three bytes can be written in one, two or three
calls. A blocking NSURLSession response that moves twice is back on the thread that made
it. In reqwest the second request is the one that finds a pooled connection, of either
runtime. Blocking curl with three requests lets a handle be used, pooled, and be used
again while another thread has a second one; an easy handle's second request is
where a leftover shows. WinRT's clock goes past the longest time-out. What one
stream or byte more could do is, where a proof exists, settled by it (section 6).

In every module the system may stop for good once its requests are over, so
deadlock is not checked; a request that hangs is caught by the liveness properties.

Model bounds that are not in the code: `Loops`, `Ids`, `MaxChunks` (CurlLoop),
`MaxRead`, `MaxRewinds` (CurlUpload, WinrtUpload), `MaxRequests` (CurlBlocking),
`MaxUses` (CurlEasy), `MaxRounds` (CurlShare), `NChunks`, `ChunkSize`, `BodyLen`
(WinHttpAsync), `MaxBuf`, `MaxMoves` (NsDataTask), `MaxRead` (NsStream,
ReqwestUpload), `BufMax`, `MaxTime` (WinrtRequest), `BufLen`, `MaxCalls`
(ReqwestBlocking); in WinHttpBlocking `U32Max` and `ChunkBufferSize` are small
numbers. With all loop threads used up a request waits in `OutOfLoops`, which
`RequestResolves` excuses.

Flags. `RewindAnywhere` is FALSE in `uploads`: curl then restarts only between
reads. The code does not guarantee it, which is what `upload_rewind` shows.
`MayRereadEnd` is FALSE in all runs: a caller that reads again after the end of a
body would pend (`loop.rs:109`). `MayCancel`, `MayFail`, `MayRefuse`, `LoopMayFail`,
`InfoMayFail`, `LateUnpauseFails` switch failures of the environment. A
`curl_multi_wakeup` that fails has two flags: `RefusalMayFail` for the one whose error
`start_request` looks at, `WakeupMayFail` for those that `dispatch_task` ignores. The first
is on in both runs, the second only in `curl_live`: whom a wake-up reaches decides when a
task is seen, not what it does. In `curl_live` `LoopMayFail` is FALSE, for the reason
`curl_hang` shows. `SyncHandlers` of WinrtUpload lets a handler use its operation while it is
invoked.

What the properties except, because the code is so, besides the list above:

* `InProgressOnCurrentLoop`: a thread that was replaced alive because it could not be woken.
  A wake-up that always fails makes `start_request` replace the thread without end, which
  is `OutOfLoops` here;
* `SuccessIsKept`: a request's own query whose response cannot be made;
* `ReleasedIsFreed`: a request that is cancelled while its easy handle or its query is with
  the loop thread (`starting`, `wait2`): it is freed with the thread at the latest;
* `HeadersAreSent`: a content-type header beside a body, which every backend treats in a way
  of its own, WinRT's content headers, the framing headers of a streamed body, and names
  that are given twice: NSURLSession keeps the last value of a header, reqwest the first of
  a default;
* `HeaderIsComplete`: blocks before the final one that `push_header_data` does not foresee.
  It knows 100, the redirects and the reason "connection established"; any other 1xx,
  another answer to CONNECT, or a 417 after which libcurl repeats the request, ends the
  header (`curl_connect` shows it for one of them);
* `EndIsComplete`: the read after the one that returned the error of a failed transfer finds
  nothing running and returns Ok(0) (`multi_easy.rs:93-99`);
* `BodyIsRead`: a body with an empty data frame, which reqwest's reader takes for its end,
  and what is read after the error of a lost connection was returned;
* `CallsReturn`: the first round of a blocking NSURLSession read on another thread, which
  checks before it registers (`nsurlsession/blocking.rs:32-37`);
* `ReadCompletes`: a partial WinRT read that another stream's wake-up has to continue;
* `ServerReadsTheBody`: a form, or parts without a stream, of 4 GiB and more, whose length
  blocking WinHTTP's `RequestHandle::send` cuts to 32 bits (`prepare_body` cuts only a body
  of bytes into pieces).

## 5. Fairness

* a woken task is polled by its executor, a thread that can run does: weak fairness
  of the future's and the loop thread's steps, one condition per request and thread;
* `curl_multi_poll` returns when it was woken or a socket is ready (`PromptReturn`);
  `PatientSpec` adds its 120 s timeout, which ends idle threads and finds the tasks whose
  wake-up failed, and a caller that closes a response it has no read pending on. Nothing makes a caller start,
  cancel or read on;
* a server answers and finishes; a stream that returned Pending wakes its task, and
  does not stay pending for ever (strong fairness of a poll that gets an answer);
* WinHTTP completes each operation, with success or an error;
* NSURLSession serves a task that is not suspended, and finishes a delegate method;
  a run loop runs its blocks;
* time passes and the thread pool's timer fires: `WinrtRequest!CallReturns` needs no
  more, an operation may never end;
* in reqwest each thread's call goes on while its steps are enabled (weak fairness of them
  with the frames they wait for): a connection task of the managed runtime is enabled only
  while some thread is in `block_on`.

The fairness of a wake-up that is lost is never assumed: a task is polled only when
the model has recorded that somebody woke it.

## 6. Proofs

Each proof is for every value of the constants: any number of requests, threads,
streams and keys, bodies of any length, either value of every flag, from the
named assumptions on the constants. Everywhere the property is not inductive and
a strengthened invariant is proved first.

**`CurlLoop`**, in two modules.

* `CurlLoopProofs!TypeCorrect`: `Spec => []TypeOK`. One lemma for each action; the
  queue lemmas (`AppendTask`, `TailTask`, `HeadTask`) say what pushing and taking do.
* `CurlLoopInvariant!InvariantHolds`: `Spec => []IndInv`. That a queued DropHandle
  names the right key depends on who owned the handle when it was pushed, on the
  order of the tasks, and on what a future may own at its await point. `IndInv`
  adds `SlabConsistent` (slab, owner and published key agree), `HandleConsistent` (a
  live handle stands for the easy handle under the same key), `FutureConsistent`
  (what is owned at each point), `TaskConsistent` (what a queued task says),
  `TaskOrder` (Construct, Query and Drop at most once, Drop last), `ManagersStarted`.
  From it: `KeysAreCurrent` (with its three parts) and, for callers that do not read
  past the end (`~MayRereadEnd`), `NoTransferLost`.
* The second half of `CurlLoopInvariant` adds that an easy handle that waits in a queue has its
  task there (`WaitingQueued`), that a live thread a request holds is the client's
  (`OneLiveLoop`), that a transfer in progress is in the slab of a thread that is not
  ending (`ProgressInSlab`) and that a success is of a finished transfer
  (`SuccessFinished`). From it: `EasyHasOneOwner`; `ProgressOnCurrentLoop`, for the threads
  that no `start_request` has taken for gone alive; and `SuccessKept`, where the exceptions
  for a query and an unpause are those of the very request, because the key in a queued
  task still finds the easy handle of the request that queued it. Every property of
  `curl_safety` is thus proved.
* The last part proves that no wake-up is lost, which is the safety half of
  `RequestResolves` and `ReadResolves`. `SleepersAreAwaited`: whenever a future or a
  read sleeps, its easy handle or its query is queued with a live thread, or its
  transfer runs, has its unpause queued or its message published in this round. The
  strengthening says of each request that its transfer is not over before it is told
  (`TransferRuns`), that a query is queued or answered (`QueryIsAnswered`), that a read
  of a paused transfer has asked for more (`ReadIsAsked`) and that nobody sleeps for what
  has happened (`SleepIsDue`). The one exception, in the statement, is a success
  published before an ending thread dropped the query, or over the error of a failed
  one: the future then sleeps for good (`curl_hang`, section 4). `PollersAreWoken`: a thread in `curl_multi_poll` with
  tasks in its queue has a wake-up pending (`BatchOf`: tasks that are not of the batch
  being drained came with one), for any callers, if no wake-up fails whose error is ignored
  (`~WakeupMayFail`).

**`CurlUpload`**: `UploadsProofs!UploadIsAByteStream` is the refinement itself,
`Spec => BodyIsUploaded`, under `~RewindAnywhere`. The invariant is one predicate on
each stream, `Fits(r, b, p, x)`: while no callback waits, the buffer `b` holds the
bytes between curl's share `x` and the stream's position `p`; while a read is under
way `p` is where curl is; a pending seek finds both empty. A buffer that is being
read into says nothing, which is why a rewind must not meet one. Each step of a
stream is then a `Deliver`, `End`, `Fail`, `Abandon` or `Rewind` of `ByteStream`, or a
stutter. `FailedStreamsAreLeft` gives the `unreachable!()` of `poll_execute_one`.

**The other backends' uploads**, in the rest of `UploadsProofs`, from `UploadsAssumption`: bodies have
lengths, buffers some size, and a body of NSURLSession that is not a form is one part.

* `WinrtUploadsAreByteStreams` is the refinement for every stream of both clients. The
  stream is ahead of the stack by exactly the read that the stack is to receive
  (`ReadFollows`, `StreamFollows`), unless it is to be rewound: then neither has a byte.
  A failed read says nothing, and the stack does not go on after it. A read that is done
  without a byte has met the end. For the tasks of the async client,
  `TaskIsSettled` says what the collection, the status and the handler are together,
  which also gives `WinrtAnswersOnce`.
* `ReqwestUploadsAreByteStreams` covers the three ways a body is streamed. `BytesAreKept`:
  until the body is over, the bytes sent, on their way (in the channel or with the
  thread) and left in the stream are the body. `EndsAreWhole`: wherever an empty buffer,
  a closed channel or a finished task stands for the end, nothing is left.
* `NsUploadsAreByteStreams`: what Foundation has read, the pipe and the range the writer
  has taken follow each other in the body, and the parts that are left are laid over
  the rest of it (`FormIsKept`, `Laid`); an end that is written, or read, is at the end
  (`NothingIsTheEnd`). That the parts of a form are its bytes in order is shown over
  the fold of `generate_multipart_body` (`PartsAreMade`, `BodyIsLaid`).

**`CurlBlocking`**: `CurlBlockingProofs!InvariantHolds`. That a thread sees only its
own response depends on what the slot and every unused handle hold, and that a
body is whole on how the pieces divide between caller and buffer, so `IndInv` adds
`LockConsistent` (the mutex is held exactly in the two critical sections),
`OwnersConsistent` (when a thread has a handle), `PoolConsistent` (a pooled or unused
handle is clean) and `TransfersConsistent` (given plus buffered is what curl
passed on; a thread that polls has been told if its transfer failed). From it: `TypeCorrect`, `OneOwner`,
`ResponsesAreOwn`, `EndsAreComplete`, `SlotReady`.

**The other parts of curl's blocking client**, in `CurlPartsProofs`, from
`CurlPartsAssumption`: no thread is called `NoThread`, sections nest kinds that libcurl
locks, and a response has a block at least, of whatever status.

* `SectionsExclude`, for any nesting of the kinds. What makes it hold is that a guard in a
  slot is the mutex holder's (`GuardIsHolders`), so that whoever gets the mutex finds the
  slot empty (`StoreFindsRoom`), and that a thread is never inside two kinds of one
  mutex (`MutexesDiffer`), so that its unlock frees no other section of its own.
* `HandlesAreFresh`. What a phase has still to call, applied to what is set now, gives the
  options a new handle would have (`ScriptIsRight`), whichever call fails; the
  lists of calls are shown to set every option that another request may have set
  (`LayersDecide`, `ResetIsMade`). The invariant is with `PointersAreAlive`, hence
  `PointersStayAlive`.
* `HeadersAreComplete`. The final block's fields so far are the last lines of the buffer
  (`FieldsAreKept`), and the header is not over before that block is if those before it were
  foreseen (`OverAtTheEnd`).

**The other backends' requests**, in `ExchangesProofs` and, for WinHTTP, `WinHttpProofs`, from
`ExchangesAssumption`: lengths, limits and times are natural numbers, and "none" is not one;
a header is a record of a name and a value, a body is one of the four kinds or none,
made of parts (bytes and a form of one), and a content type is a header about the content.

* WinHTTP, blocking: `WinHttpIsExact` (there is room for one byte more than the limit, and
  what a full buffer leaves out is still to come: `RoomIsLeft`; the values found
  are the first ones: `ValuesAreFound`).
* WinHTTP, blocking: `WinHttpServerReadsTheBody`, for any parts and buffer, reads and short
  writes of any size. A body is prepared as parts that stand for what was meant
  (`PreparedIsMeant`): the fold of `generate_multipart_body` yields the fields in order
  (`FormIsMeant`), and the pieces of a long body are the body (`PiecesAreTheBody`).
  `WritingInv` then says that what was written, what is about to be, and what is left
  make up the body. For chunks "what was written" is what the server reads of it whatever
  follows (`HasRead`), which a chunk extends (`HasReadChunk`) and the last chunk closes
  (`HasReadAll`); that `decorate_buffer_for_chunked_encoding` makes a chunk out of a
  buffer, whatever was behind the data, is `DecoratedIsChunk`. The theorem has a
  hypothesis, `BodiesFit`: no body that is sent in one piece is longer than 32 bits tell.
  `RequestHandle::send` leaves that to its caller ("Caller should ensure this fits in
  u32", `handle/request.rs:94`), and `prepare_body` sees to it for bytes, but not for
  forms and parts without a stream (section 4).
* WinRT: `WinrtKeepsTheTimeout` and `WinrtIsHonest`, from one invariant: the time left, the
  timer's due time and the clock add up, an operation is the one its call started,
  and every byte loaded is with the caller, in the reader or in the load that has just
  finished.
* NSURLSession: `TaskIsSuspendedOnce` and `TaskBytesAreHonest`. Every byte is in the network,
  the buffer or with the caller unless the limit or a cancellation took it, and a
  task completes when none is left or with an error. A body that the limit or a
  cancellation cut off is excused: the run `ns_large` shows that it may be returned.
* reqwest: `ReqwestReadsTheBody`. The frames that the connection has not passed on are the last
  of the body, and what was passed on is counted in four places (`FramesAreCounted`). A
  connection may be lost and the time run out between any two of them; the end is passed
  on behind the last frame only, or behind an error that was returned.

* every backend: `MessageHeadersAreSent`. That the method is kept is a case for each of
  curl's options (`MethodIsKept`). What is sent is a list of headers taken at some
  places of another (`At`), and the lines of one name in it (`Named`) distribute over
  concatenation. Dropping the places of other names, or all but the last or first of
  a name, leaves what the property says of that name; one lemma for each backend
  (`CurlLines`, `WinHttpLines`, `NsLines`, `WinrtLines`, `ReqwestLines`) puts these together.

Sums over a body, the headers at a list of places, options after a list of calls, the
parts of a form and a server's reading of chunks are recursive functions or folds. What
they compute for every input is proved from their defining equation, by the least
counterexample: a set of natural numbers that is not empty has a least element
(`SequenceLemmas!LeastExists`, from the library's theorems on well-founded relations), and
what holds for the empty sequence and is kept by appending holds for all
(`SeqInduction`, about a set of sequences), which take the place of the induction theorems
that no prover here can instantiate.

**`WinHttpAsync`**: `WinHttpProofs!InvariantHolds`. `HandleUse` and `JobFirst` say who
may use the handle and that the thread pool's job comes first, `OperationFits` that
the operation in flight, the context's state and the caller's place agree,
`UploadAccount` and `ResponseAccount` count both bodies. From it: `CallbacksHaveContext`,
`BuffersAreStable` (an action property with `OneOperation`), `BothBodiesAreWhole`: all
safety properties the runs check of it. `SleepersAreAwaited` and `ContextsAreReleased` are
the safety halves of its liveness: who sleeps has registered a waker and the operation
that ends the sleep is in flight (`WaitsForOperation`, `WakerIsSet`), but for the error
that comes between the two locks of `poll_for_state` (`winhttp_lost`, section 4); and after the
end no handle is left open that nobody will close (`HandleIsLeft`).

Every invariant and every refinement that the passing runs check is thus proved. Only
model-checked is all liveness (`UploadsEnd`, `ReadCompletes`, `CallsReturn` and the liveness
of `CurlLoop` and `WinHttpAsync`), as the prover has no rule for it under fairness, nor
for ENABLED. Of the last two the safety half is proved, as said above: what a sleeper
waits for is always on its way; that it arrives is what fairness adds.

## 7. Not modelled

`PROJECT.json` has a component entry for each part with the reason. In short:

* the registry and erased clients of nyquest-interface, the facade's builders, the
  presets, tests and examples: no state to interleave;
* FFI declarations, conversions of strings, buffers, URIs and errors, and error texts;
* NSURLSession's configuration, proxies and certificate challenge, the redirect
  counter of its data task, and boundary generation;
* what WinHTTP's session handle is opened with (user agent, proxy, bypass list) and the
  values of its options;
* the wasm client of the reqwest backend, its text decoding and reads into an empty buffer;
* `into_owned` of a blocking curl handle, which only moves it;
* the executor that polls an asynchronous NSURLSession upload: `UploadsEnd` speaks of the
  blocking ones only;
* a failing `curl_multi_add_handle` in the async loop, which panics the thread on
  purpose;
* the read and seek callbacks of a blocking curl request, which call the caller's
  stream directly.

## 8. What could follow

A request specification that `CurlLoop`, `WinHttpAsync` and `NsDataTask` refine, as
`ByteStream` is for bodies; the request future of `CurlLoop` composed with the streams of `CurlUpload`.
