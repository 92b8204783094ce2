# TLA+ models of feedbus (Python client)

This directory holds TLA+ models of the Python client library in
`src/python3/src/feedbus/`, with the TLC configurations that check them.

## The system

The feedbus client talks to a feed-bus server over one TCP connection.
Its parts are:

| Part | Source | What it does |
|---|---|---|
| Binary stream codec | `io.py` | `DataInputStream` / `DataOutputStream`: Java-style big-endian primitives over asyncio `StreamReader` / `StreamWriter` (`struct.pack`, `readexactly`, UTF-8 strings with a 2-byte length prefix). |
| Message model and wire codec | `messages.py` | Six message types (`MessageType`), `make_*` constructors building dicts, `write_message` (tag, then fields, then `drain()`) and `read_message`. |
| Protocol engine | `client.py` | `Client.start()` runs the receive loop: it races a `token.wait()` task against a `read_message` task with `asyncio.wait(FIRST_COMPLETED)`, deserializes data messages and puts them on an `asyncio.Queue`. `stop()` sets the token. `read()` takes from the queue. `publish`, `send` and the add/remove requests write one message each. |
| Payload serializer | `types.py`, `json_serializer.py` | Converts application values to bytes and back. |
| Demos and tests | `demos/`, `tests/` | Example programs and codec tests. |

They interact like this. The application's tasks call `publish` and the
other writers, which go through `write_message` into the byte stream. The
server's bytes come back through `read_message` inside the `start()` loop.
Decoded data reaches the application through the queue and `read()`.
Everything runs on one asyncio event loop. Interleaving happens only at
`await` points that really suspend: `asyncio.wait`, `readexactly` when
bytes are missing, `Queue.get` on an empty queue, and `Event.wait`.

## Modules

| Module | Models | State |
|---|---|---|
| `DataStream` | `io.py` | None (pure operators). Writers map a value to the bytes written, or to `err` when `struct.pack` raises (`Pack` carries each format's range; `BigEndian`, `Signed`, `Unsigned` are struct's conversions). Readers map (bytes, position) to `ok` / `short` (readexactly would wait) / `error`. UTF-8 encode and strict decode are byte exact (`DecodeUtf8` is RECURSIVE). |
| `Messages` | `messages.py` | None. `WriteOrder` / `ReadOrder` give each branch's fields in order. `write_message` folds the field writers and stops at the first raise, keeping the bytes already written. `read_message` parses one frame, with `Error` for a tag outside 0..5. |
| `Wire` | one direction of the connection: the client's writers and the peer's `read_message` loop | `wire` (bytes in flight), `sent`, `received`, `reader`, `writes`. `WriteMessage(m)` is one `publish`/`send`/request call. `ReadMessage` is one loop iteration of the reader. |
| `Codec` | the `io.py` primitives used together | `written`: the writer calls made on one stream. `Write(c)` is one writer call; `ReadBack` reads the stream back with the matching readers. |
| `Client` | `client.py` `start`/`stop`/`read` and the asyncio machinery they use | See below. |
| `ReceiveChannel` | what the receive side promises (abstract) | `arrived`, `eof`, `reset`, `stopped`, `loop`, `queued`, `delivered`; actions `Arrive`, `Close`, `Reset`, `Stop`, `Receive`, `Exit`, `Fail`, `Deliver`. No asyncio. |
| `Outbound` | `client.py` 80-119 called by several tasks at once, `write_message`'s writes and `drain()` (`io.py` 139-140) | See below. |
| `Connection` | one `Client` from `connect()`: the receive side and the outbound calls on one transport | The variables of `Client` and `Outbound`, with `Outbound`'s `readerExc` being `Client`'s `rexc`. See below. |
| `Subscriber` | `demos/subscriber.py`, `demos/subscriber2.py`: the application loop over the client's receive side | The variables of `ReceiveChannel`, plus `rtask`/`rmsg` (read_task), `ctask`/`cline`/`lines` (console_task), `dpc` (main_async), `later`, `printed`. See below. |
| `MCClient`, `MCWire`, `MCCodec`, `MCOutbound`, `MCConnection`, `MCSubscriber` | model values and small sets for TLC | |

### Client: state and actions

The event loop is a FIFO `ready` queue of callbacks. These are task steps,
plus the `_on_completion` callbacks that `asyncio.wait` adds to each awaited
task. One action runs one callback atomically up to the next suspending
await.

The tasks are model values: `Main` (start), `Tok` (token_wait_task), `App`
(the application's `read()` loop), and the read tasks `1..NFrames+1`. A new
read task is created at `client.py:61` on every loop iteration.

| Variable | Code |
|---|---|
| `kind[f]` | what frame f carries: data, ctrl (a non-data message), junk (the serializer raises), or bad (tag outside 0..5). |
| `arrived`, `eof` | the bytes fed into the `StreamReader`. Each frame arrives in 2 segments, so it can be partly received. |
| `rexc` | the `StreamReader` holds the connection's exception (`set_exception`). |
| `taken`, `rwaiter`, `rpc`, `rfr` | per read task: the bytes it has consumed, whether it is parked on `StreamReader._waiter`, its pc and its frame. |
| `mainPc`, `rd`, `waitOn`, `waitGen`, `waiterSet` | `start()`'s pc, the current `read_message_task`, the set `asyncio.wait` is waiting on, and its waiter future. `waitGen` makes completion callbacks from an earlier wait do nothing, as `_on_completion` on a done waiter does. |
| `tokPc`, `token` | `token_wait_task` and the `Event`. |
| `queue`, `consumed`, `getter` | the `asyncio.Queue`, what `read()` returned, and the parked getter future. |
| `fullAtStop`, `flightAtStop` | history: the frames fully, or only partly, received when `stop()` was called while the loop waited. |

Actions:

- `Start`: creates the tasks at lines 47-48 and evaluates the while test at line 50.
- `OnCompletion`, `Resumed`: `asyncio.wait` returns.
- `ReadDone`, `ReadRaised`, `DeserializeRaised`, `FrameQueued`, `StopObserved`: the branches of the done loop, lines 58-66. `FrameQueued` and `DeserializeRaised` create the next read task first, as line 61 does.
- `ReadMessage(r)`: one resumption of read task r. It consumes the buffered segments, then either finishes, raises, or parks on the reader. Once `rexc` is set, `readexactly` raises before it looks at the buffer.
- `TokenWait`: `token.wait()` completes.
- `Read`: `read()` runs.
- `Stop`: `stop()` runs.
- `FeedData`, `FeedEof`: the environment (the server).
- `ConnectionLost`: the socket failed and `connection_lost(exc)` ran. It sets the reader's exception and wakes the parked read task. It may follow an EOF, because the transport stays open for writing after one.

### Client refines ReceiveChannel

`Client.tla` ends with the refinement mapping:

- the abstract `loop` is `"running"` while `start()` has not returned;
- `queued` is everything put on `self._queue` (`consumed \o queue`);
- `delivered` is what `read()` returned;
- `stopped` is the token;
- `reset` is the reader's exception.

The abstract `Receive` step queues the next frame only when it is whole and decodable. If `stop()` was already called, the loop ends in the same step. That is the code's real promise, and it is weaker than spec 8 (see the findings). `Fail` is allowed only on a bad tag (after its first segment), on a rejected payload (once it is whole), at the end of the stream, or after the connection failed, even with whole frames still buffered. The abstract spec is weakly fair on `Receive`, `Exit`, `Fail` and `Deliver`.

### Outbound: state and actions

| Variable | Code |
|---|---|
| `pc[c]` | where task c's current outbound call is: idle, `"yield"` (drain's `sleep(0)` on a closing transport), `"waiting"` (parked on a drain waiter), `"ok"` or `"raised"`. |
| `calls`, `accepted` | calls made, and whether the transport took the last call's frame. |
| `buffer`, `onWire` | the transport's write buffer and what the socket sent. |
| `paused` | `FlowControlMixin._paused`: set by `_maybe_pause_protocol` above `HighWater` frames, cleared at `LowWater`. |
| `transportLost`, `lostPending`, `connLost`, `readerExc` | the transport's `_conn_lost` (writes dropped), `connection_lost(exc)` scheduled, the protocol's `_connection_lost`, and the reader's exception. |

Actions:

- `Call(c)`: one outbound call. `write_message` puts the whole frame in the buffer with synchronous writes (`Written`), then runs `drain()`.
- `Resume(c)`: drain continues after its yield.
- `Send`: `_write_ready`; resuming writing wakes every waiter.
- `SocketError`: `_force_close`.
- `ConnectionLost`: the scheduled `connection_lost(exc)`.

`LegacyDrain` selects the drain-waiter semantics. Before Python 3.10 there is one waiter and an assertion; from 3.10 on there is a deque. The repository does not pin a Python version, so both builds are checked.

### Connection: the two halves on one transport

`connect()` (`client.py` 39-42) builds one `StreamReader` and one
`StreamWriter` on a single transport. `Connection` instantiates `Client`
as `Recv` and `Outbound` as `Send`. `Outbound`'s `readerExc` is replaced
by `Client`'s `rexc`, because `drain()` raises the exception the reader
holds. The actions are:

- `RecvDispatch`: one receive-side callback.
- `RecvEnv`: `stop()`, or data or EOF arriving while the transport still reads.
- `Caller(c)`: an outbound call or its resumption in `drain()`.
- `Transmit`: the socket writes.
- `SocketError`: a read or a write fails, and `_force_close` runs.
- `ConnectionLost`: one step of both halves. `connection_lost(exc)` fails the drain waiters and sets the reader's exception, which wakes the parked read task.

### Subscriber: the demo programs

`Subscriber` puts the demos' `main_async` loop on top of `ReceiveChannel`.
It uses the abstract channel rather than `Client`, because run
`client_refines_channel` shows that `Client` implements it. The channel's
`Deliver` step is replaced by the demo's read_task, which takes one message
at a time. Neither demo calls `stop()`. `console`, chosen in `Init` from `Programs`, selects the program:
FALSE is `subscriber.py`, TRUE is `subscriber2.py` with its console task.

- `ClientLoop`, `Server`: the channel's `Receive`/`Fail` (start_task), and `Arrive`/`Close`/`Reset`.
- `ReadGet`: read_task's `Queue.get` returns the oldest message.
- `ConsoleInput`: `ainput` returns a line: empty, invalid, a request, or EOF.
- `Wake`: `asyncio.wait` returns with `DoneTasks`, and the for loop handles them in set order. A done start_task only prints in `subscriber.py`, and has no branch in `subscriber2.py`. So once `start()` has ended, every wait returns at once.
- `HandleConsole`: the console branch. EOF raises out of `main_async` (`dpc = "crashed"`). A request awaits the subscription call (`dpc = "call"`).
- `CallDone`: the awaited call returns or raises into the bare `except`. The next console_task is created, and a read_task left in the same done set (`later`) is printed.

## Runs

| Run | Config | Expect | What it shows |
|---|---|---|---|
| client_receive | `MCClient.cfg` | pass | 3 frames of any of the 4 kinds, arbitrary arrival and EOF, `stop()` at any point. Checks `TypeOK`, `Delivery` (the frames `read()` returns are frames 1, 2, ... in order, each once), `StopEndsLoop` (after `stop()`, `start()` returns or fails) and `ArrivedFrameRead` (every fully arrived frame is read unless stopped or failed). The connection may also fail at any point. 359,462 states. |
| client_stop_buffered | `MCClient_StopKeepsReceived.cfg` | violation | Spec 8: frames fully received at `stop()` are queued. Violated: the loop handles one completed read and exits, and the next frame is read by the orphaned task from line 61 and dropped. |
| client_stop_inflight | `MCClient_InFlightFinished.cfg` | violation | Spec 5: the message in flight at `stop()` is finished. Violated: `start()` returns on the token while the read task holds half a frame. |
| client_refines_channel | `MCClient_Refinement.cfg` | pass | `ChannelSpec`: the detailed model implements `ReceiveChannel`, liveness included, over the same 359,462 states. |
| outbound_concurrent | `MCOutbound.cfg` | pass | 3 tasks, 2 calls each, pause above 1 buffered frame, resume when empty (Python 3.10+). Checks `TypeOK` (which includes the bound: at most `HighWater` + one frame per task buffered), `ErrorsReported` (a call that returns normally had its frame taken by the transport), `OnlyTransportErrors` (a call raises only after the connection failed) and `CallsComplete` (no call stays in `drain()`). 11,336 states. |
| outbound_legacy_drain | `MCOutbound_Legacy.cfg` | violation | Python 3.7-3.9: task 1 is parked in `drain()` on a paused transport, task 2 writes its frame and its `drain()` fails the single-waiter assertion, with the connection healthy. |
| connection_failure | `MCConnection.cfg` | pass | `FailureSurfaces`: 2 data frames, 2 tasks with one call each (pause above 1 buffered frame). Once the socket fails, the receive loop ends and no outbound call stays in `drain()`. 109,993 states. |
| subscriber_demo | `MCSubscriber.cfg` | pass | Both demos (`Programs = {FALSE, TRUE}`), 2 frames of any kind and, for `subscriber2.py`, 2 console lines of any kind. `MessagesAccounted`: what `read()` returned is exactly what was printed, plus the message a done read_task holds, also across a subscription call awaited inside the for loop. `EveryMessagePrinted`: every queued message is printed, including after `start()` ended, unless stdin EOF ends `subscriber2.py`. 24,732 states. |
| codec_primitives | `MCCodec.cfg` | pass | `StreamLaw`: any two writes (boolean, byte, unsigned byte, short, unsigned short, int, long, char, ASCII utf), with values at each format's range ends and, for the formats narrower than TLC's 32-bit integers (byte, unsigned byte, short, unsigned short, char), one past them, are read back equal in order and consume the stream exactly. 1,561 states. |
| wire_ascii | `MCWire.cfg` | pass | Every message of all 6 types over ASCII strings (`""`, `"L"`, `"LS"`) and payloads `b""`, `b"{}"`. Two writes. Checks `TypeOK`, `RoundTrip` (the peer reads exactly a prefix of what was sent and never fails) and `NoStall` (while a sent frame is unread, the buffered bytes hold a whole frame). 156,409 states. |
| wire_multibyte | `MCWire_Multibyte.cfg` | violation | `write_utf` prefixes `len(val)` characters (io.py:129). The string "é" is written as `<<0,1,195,169>>` and the reader fails. |
| wire_oversize | `MCWire_Huge.cfg` | violation | A string over 65535 characters (`Huge`) or a payload of 2^31 bytes or more (`HugeData`) makes `write_message` raise after the tag is written. The leftover bytes combine into a notification nobody sent. Spec 7(c) says usage errors write nothing. |

Each property of a passing run has a mutant in `PROJECT.json`: a plausible
bug in the mapped definition, which TLC must catch. The mutants are:

- `FrameQueuedStaleTask`: re-processes the old read task.
- `FrameQueuedNoWake`: `put` does not wake the getter.
- `StopFlagOnly`: `stop()` sets the flag without waking the waiter.
- `ReadMessageShortRead`: a read task finishes on a partial frame.
- `WriteOrderSwapped`, `ReadOrderNoClientId`: field order bugs.
- `WriteFieldLongLength`: an off-by-one payload length.
- `FrameQueuedSwallowsError`: a rejected payload is queued raw.
- `CallNoDrain`: a call skips `drain()`.
- `DrainNoYield`: drain does not yield to `connection_lost`.
- `DrainHelperSingleWaiter`: the legacy single waiter.
- `DrainHelperParksUnpaused`: parks although not paused.
- `SignedNoBorrow`: an off-by-one two's complement.
- `WakeStaleTask`: the demo prints but does not replace read_task.
- `WakeStartFirst`: the demo stops serving read_task once start_task is done.
- `ReadMessageIgnoresExc`: `readexactly` ignores the stored exception and waits for more bytes.

### Bounds

- Client: `NFrames = 3` is enough for a frame before, during and after `stop()`, together with an orphaned reader. With 2 frames, the stop races already appear (the violation runs use 2 data frames for short traces). All 4 frame kinds cover every branch of the done loop and of `read_message`'s outcome.
- Outbound: 3 tasks let two be parked in `drain()` while a third writes. `HighWater` 1 and `LowWater` 0 make one extra frame pause the transport. Two calls per task let a task call again after a failure, against a lost transport.
- Codec: two writes put every reader both at the start of the stream and after every other primitive, so a width mismatch shows.
- Connection: 2 frames and 2 single-call tasks. The socket can then fail while the read task is parked, running or done. It can also fail while a call is parked on a paused transport, because both frames fit in the buffer.
- Subscriber: 2 frames let a message be queued before the loop fails and read after it. 2 console lines let a line and a message be done in the same wait, and a line follow a request.
- Wire: two writes are the fewest that show framing: a second frame after the first, including after a failed write. The string set includes the empty string (a zero length prefix) and a 2-character string. The payload set includes the empty payload.

### Fairness

`Client` assumes weak fairness of `Dispatch`, the running of the ready queue. The asyncio loop runs every ready callback in FIFO order while the program runs, so a ready callback is eventually run. `Stop`, `FeedData`, `FeedEof` and `ConnectionLost` are the application and the network, and they have no fairness. The server may never send, and the application may never stop.

`Outbound` is weakly fair on each task's `Resume` and on `ConnectionLost`, because the event loop runs ready tasks and callbacks. It is also weakly fair on `Send`: the feedbus server keeps reading its socket, so a buffer with bytes is eventually written. The socket need not fail, and tasks need not call again.

`Connection` takes the fairness of both halves. Its `ConnectionLost` is one callback of the shared event loop.

`Subscriber` is weakly fair on the receive loop, read_task, main_async's wake-up and the awaited subscription call. The last rests on `Outbound`'s `CallsComplete`. Each of these actions stays enabled until it is taken. The server, the network and the user have no fairness.

`Wire` checks only invariants. `NoStall` states the progress claim as "the reader is never waiting while a whole sent frame is buffered".

## Findings

1. `client.py:50/61`: `stop()` loses frames that were already received (run client_stop_buffered).
2. `client.py:61`: `stop()` abandons a half-read frame to an orphan task (run client_stop_inflight).
3. `io.py:129`: the UTF-8 length prefix counts characters, not bytes (run wire_multibyte).
4. `messages.py:115`: a usage error (string or payload too long) leaves a partial frame on the connection (run wire_oversize).
5. `io.py:140`: with no lock around write-plus-drain, concurrent outbound calls on Python 3.7-3.9 fail with `AssertionError` (run outbound_legacy_drain).

## Not modelled, and the plan for later work

- `connect()`'s name resolution and refused connections: pure I/O that raises before a `Client` exists. `write_float`/`write_double` and their readers: IEEE-754 conversion is out of TLC's reach.
- JSON conversion: abstracted as "decodes or raises". Tests. `publisher.py` is a single outbound call, which is `Outbound`'s `Call`. The demos' printing and prompts are left out.
- Strings holding a lone surrogate: `DataStream.write_utf` models that `val.encode` raises after the length prefix was written (io.py:129-131), leaving a prefix with no body on the stream, like the partial frames of finding 4. No run writes such a string. `Codec`'s `StreamLaw` is stated for the strings the code can encode.
- `write_char`/`read_char` are modelled as `io.py` primitives, though nothing in the repository calls them.
- `start()` called twice, or after `stop()`. Spec 6 allows exactly one receive loop and makes Stopped terminal, so there is no claim to check. It is listed as a hazard.

Planned next:

1. Compose `Wire`'s byte stream into `Client`'s reader in place of the abstract frame kinds.
