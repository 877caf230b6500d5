# dwnx: a verification development

dwnx is a C library that speaks QMux: QUIC streams, flow control and transport
parameters over one reliable, ordered byte stream (TLS over TCP). The library
does no I/O. An application hands it the bytes it has received
(`dwnx_conn_read`), asks it for bytes to send (`dwnx_conn_write_record`,
`dwnx_conn_writev_stream`, ...), and is called back for what arrives. A
connection object is used by one thread; what is hard is the order in which
calls, callbacks, frames of the peer and records that run out of room follow
each other, and what two such objects, and the event loops around them, achieve
together.

This directory holds TLA+ modules for the library's state and for the example
applications, TLC configurations that check them on small instances, and
proofs, checked by TLAPS, of the properties that were within reach for every
instance. Paths below are relative to `src/`.

## 1. Inventory

| Component | State it keeps | Operations | Modelled in |
|---|---|---|---|
| Reading frames, `lib/dwnx_conn.c` 658-2369 | offsets and limits received, open streams, ids ever opened, payload still missing | `dwnx_conn_read` and a `conn_recv_*` handler per frame | `ConnRead`, `Qmux`, `Session`, `RecordReader` |
| Writing records, `lib/dwnx_conn.c` 2670-3227 | record under construction, what was announced, which stream has something to say | `dwnx_conn_write_vmsg` and the calls built on it | `ConnWrite`, `Qmux`, `CtrlLoop`, `WriteCalls`, `RecordWriter` |
| Streams and flow control, `lib/dwnx_conn.c`, `lib/dwnx_strm.c` | per stream: flags, offsets, limits, place in the queue; both connection windows; stream limits | open, shut down, close, extend | `Conn`, `ConnWrite`, `Qmux`, `QmuxPair`, `CreditFlow` |
| Lifecycle, `lib/dwnx_conn.c` 3276-3368 | time of the last record, timeouts of both ends, CONNECTION_CLOSE | idle expiry, `dwnx_conn_write_connection_close` | `Idle` |
| Handshake and early data, `lib/dwnx_conn.c` 658-723, 3370-3526 | parameters seen and sent, remembered parameters | receive, set, validate, reject | `Session`, `TransportParams` |
| Datagrams, `lib/dwnx_conn.c` | none beyond the record | read, write | `RecordReader`, `RecordWriter`, `FrameCodec` |
| Record reader, `lib/dwnx_record_reader.c`, `lib/dwnx_conn.c` 1277-2369 | bytes left in the record, the field being read | `dwnx_conn_read` cut at any byte | `RecordReader` |
| Record encoder, `lib/dwnx_qre.c` | room left in the buffer | start, encode a frame, finish | `RecordWriter` |
| Codecs, `lib/dwnx_frame.c`, `lib/dwnx_transport_params.c`, `lib/dwnx_conv.c` | none | encode, decode | `Varint`, `FrameCodec`, `TransportParams` |
| Stream id tracker and gaps, `lib/dwnx_idtr.c`, `lib/dwnx_gaptr.c`, `lib/dwnx_range.c` | the ranges not yet seen | open an id; push, look up, drop | `Gaptr` |
| Skip list, `lib/dwnx_ksl.c` | a B+ tree of ranges | insert, remove, remove by hint, lower bound, change a key | `Ksl` |
| Glitch rate limiter, `lib/dwnx_ratelim.c` | tokens, a carry, a timestamp | drain | `Ratelim`, `TokenBucket` |
| Priority queue, `lib/dwnx_pq.c` | heap array, an index in each entry | push, pop, remove | `Pq` |
| Hash map, `lib/dwnx_map.c` | keys, values and probe lengths | insert, find, remove, clear, resize | `HashMap` |
| Object pools, `lib/dwnx_balloc.c`, `lib/dwnx_objalloc.c`, `lib/dwnx_opl.c` | blocks of memory, released objects | get, release, clear | `Pool` |
| Example client and server, hq codec, `examples/` | streams with data to send, blocked bytes, watchers, a timer | callbacks, read and write loops, early data and its rejection | `HqApp`, `Idle` |
| http3 codec, utilities, vendored parser, errors, settings, logging, tests | | | no, see section 5 |

**How they interact.** The connection owns everything. A stream lives in the
hash map from the moment either side opens it until both sides are shut and no
RESET_STREAM waits; the id tracker remembers ids of the peer afterwards, in gaps
kept in the skip list, whose blocks come from an object pool. A stream with
something to tell the peer sits in the priority queue by its embedded entry;
`dwnx_conn_write_ctrl_frames` takes streams from the top until the queue is
empty or the record is full. Frames that a correct but slow peer could send in
vain (for a stream that is gone, a repeated STOP_SENDING, a ping) are charged to
the glitch limiter. Callbacks (`recv_stream_data`, `stream_close`,
`extend_max_stream_data`, ...) tell the application, which keeps its own objects
and its own queue of streams, and may call back into the library.

**What is hard.** Records that run out of room between any two frames, and the
next record that must go on from there; payload that arrives in pieces while
the application shuts the stream down; FIN, RESET_STREAM and STOP_SENDING
crossing each other in both directions; limits that cross the end of their
stream; windows as unsigned differences; callbacks in the middle of a loop over
a heap or a queue; early data that is sent under remembered limits and then
accepted under others, or rejected with streams open; two ends that must agree
on a timeout either may not have. `PROJECT.json` lists each hazard at its line
with the properties that cover it, or why none does.

## 2. Modules

| Module | What it is |
|---|---|
| `Conn` | The connection as a record `c`, frames, creation and closing of streams, credit. Pure operators, each named for its C function. |
| `ConnRead` | Per frame, `RecvXError(c, f)`: the first check that fails, in the code's order; `RecvX(c, f)`: the connection afterwards. `Recv` dispatches. |
| `ConnWrite` | Opening and shutting down; the control frames that wait, their order, and the connection after those that fit were written; stream data. |
| `Qmux` | `VARIABLES conn, wire`. One action per call of the library. With `Ends = {0, 1}` a client and a server exchange batches of frames; with one endpoint the peer is arbitrary and sends any frame of `PeerFrames`. Types and the invariants of one endpoint. |
| `QmuxPair` | The properties of two endpoints together, fairness, liveness. |
| `CreditFlow` | Abstract: flow control of one direction as four numbers, limit, known, sent, got; implemented by a pair (`ToClient` and `ToServer` of `QmuxPair`). |
| `Session` | `QmuxPair` from the first call on: transport parameters first and once, early data, its acceptance and rejection. |
| `HqApp` | `Session` with the example client and server on top: application objects, queues of streams, event loops, sockets that block. |
| `Idle` | Two ends with idle timeouts, timers, a clock, records and CONNECTION_CLOSE. |
| `CtrlLoop` | `dwnx_conn_write_ctrl_frames` statement by statement with a program counter, and the callback in its middle. |
| `WriteCalls` | `Qmux` with what the caller sees: the returned value, `*pdatalen`, the callback. |
| `Varint`, `TransportParams`, `FrameCodec` | Encoders and decoders as functions on sequences of bytes, and actions that put frames or parameters into a buffer and take them out. |
| `RecordWriter` | `dwnx_conn_write_vmsg` in bytes, with the record encoder: buffers of any size, records kept open, streams and datagrams offered. |
| `RecordReader` | The bytes below a frame: the loop of `dwnx_conn_read` over records, varints and fields cut anywhere, and a reference parser that sees the whole input. |
| `Codec` | The three together: what the record writer makes is what the reader finds, and decoders of whole payloads agree with the reader. |
| `Gaptr`, `Ratelim`, `Pq`, `HashMap`, `Ksl`, `Pool` | The data structures, each with its operations as actions and a history variable of what callers did. |
| `TokenBucket` | Abstract: an ideal bucket without rounding, implemented by `Ratelim`. |
| `Parts` | Twelve parts side by side, one in use in a behaviour, so that one run checks them all. |
| `MCQmux`, `MCPair`, `MCSession`, `MCHqApp`, `MCParts`, `MCWriter`, `MCCtrlLoop`, `MCWriteCalls` | Values of the constants for TLC. `MCPair` holds two instances of `QmuxPair` for liveness, one of which a behaviour is of. |
| `QmuxProofs`, `QmuxLifeProofs` | Theorems about `Qmux` and their proofs: types and windows; the life of a stream. |
| `TieProofs`, `LinkProofs` | One development, the second extending the first, about `QmuxPair`: sums and limits along a wire, what ties two connections, and that every call keeps it; the theorems. |
| `SessionProofs` | Theorems about `Session`: what is known at each point of the handshake, the connections as they will be, the accounts; on top of `LinkProofs`. |
| `LoopProofs` | The theorem about `CtrlLoop` and its proof. |
| `WriterProofs` | Theorems about `RecordWriter` and their proofs: sizes of frames, then the writer. |
| `PartsProofs` | Theorems about `Idle`, `Gaptr`, `Ratelim`, `Pool` and `Pq` and their proofs. |

### How state and actions correspond to the code

A connection `c` of `Conn`:

| Field | In the code |
|---|---|
| `live`, `strm[s]` | keys of `conn->strms`; the `dwnx_strm`. A stream not in `live` has the value of a new one, so a freed object leaves no trace in the state. |
| `strmq` | `conn->tx.strmq`; its order is by stream id, since `cycle` is never anything but 0. |
| `idtr` | `conn->bidi.idtr` and `conn->uni.idtr` |
| `next` | `tx.{bidi,uni}.next_stream_id` |
| `txStreams`, `rxStreams`, `rxUnsentStreams` | `tx.{bidi,uni}.max_streams`, `rx.{bidi,uni}.max_streams`, `rx.{bidi,uni}.unsent_max_streams` |
| `txOff`, `txMax`, `txBlocked` | `tx.offset`, `tx.max_offset`, `tx.last_blocked_offset` |
| `rxOff`, `rxMax`, `rxUnsent` | `rx.offset`, `rx.max_offset`, `rx.unsent_max_offset` |
| `ping`, `pong`, `glitch` | `rx.ping.last_seq`, `rx.ping.last_resp_seq`; tokens of `glitch_rlim` |
| `rd` | the STREAM frame whose payload is arriving |
| `qre` | the record under construction, kept across calls by DWNX_WRITE_STREAM_FLAG_MORE |
| `err` | the error that ended `dwnx_conn_read`; afterwards the application closes the connection and nothing is modelled |

Actions of `Qmux`: `ReadStream`, `ReadResetStream`, `ReadStopSending`,
`ReadLimit`, `ReadBlocked`, `ReadPing` are `dwnx_conn_read` on one frame (a
handler and its early returns); `ReadStreamData` is any part of a payload that
is still missing; `Open`, `Shutdown*`, `Extend*` are calls that write nothing;
`WriteRecord`, `WriteStream`, `WriteBlockedStream` are the paths through
`dwnx_conn_write_vmsg`; `Refill` is time passing for the glitch limiter.

Two abstractions carry the weight. *Bytes are numbers*: a STREAM frame has an
offset and a length. *Room in a record is a choice*: `WriteCtrlFrames(c, out)`
is the connection after the frames `out` were written, for every `out` that is a
front of the frames waiting (`FrontsOf`), that is, for every place at which
DWNX_ERR_NOBUF can strike. `CtrlLoop` justifies the second: its part of the run
`parts` checks that the loop, statement by statement and stopped anywhere,
produces exactly such an `out`, in that order, and that connection. Bytes are
`RecordWriter`'s, which in turn takes the frames that wait as a queue.

Batches on `wire` are sets because their frames are ordered by `Before`; a
reader takes the foremost. A batch is not cut by transport: since a reader may
stop after every frame, cuts at frame borders are covered; cuts inside a
payload are `ReadStreamData`; cuts inside other fields change nothing but the
reader, as `RecordReader` shows.

`Session` adds `flags` (DWNX_CONN_FLAG_*), `early` (the parameters of an earlier
connection), `tls` (what the server did with early data) and `told` (the client
knows). The transport parameters are a frame that may only be the first.
`SetEarlyParams`, `Answer` and `Told` are the calls around the TLS handshake;
the handshake itself, and when bytes can pass before it is over, are external.

`HqApp` adds `app[e]`: `open` for `streams_`, `left` and `got` for what is still
to be sent and was parsed, `sendq`, `wev` and `blocked` for the socket, `phase`
for where the event loop is. A callback maps the pair of connection and
application to the pair after it, so that `Recv` of a frame, the callbacks it
makes and the calls they make are one step, as in the code. `sendq_` holds
pointers in the code and ids here; `stale` are the ids whose object is gone.
SSL_write takes all of a record or nothing (partial writes are not enabled in
the examples). The client's exit (`should_exit`) is not modelled: its streams
just stay closed.

*A rejection with requests in the queue.* `Client::early_data_rejected` deletes
all streams, while the codec's `early_data_rejected` does nothing: pointers stay
in `sendq_` if it was not empty (the connection window was used up, or the
socket was full). `Dangling` names this state. TLC reaches it; what the program
does next is undefined, and the properties of `HqApp` say nothing of such
behaviours. Everything else they say holds of all the others.

`Idle` looks at time only: records are parameters, data or a close. It keeps the
timer of `update_timer` (set again after a write, fed when due) apart from the
expiry of the library. The clock moves on only when no timer is due. A client's
timeout is its own and what it hears from this connection's server; remembered
parameters do not include it. The library writes no record when it times out,
neither example calls `dwnx_conn_write_connection_close`, and after that call it
is the application's duty not to write again; a close sent as the very first
record makes the peer fail with a protocol error, which ends it too.

`RecordReader` has the state of `conn->rx` as a record `r` (`state`, `left` for
`record_left`, `vird`, `field` for `field_left`, `buf`) and one action, `Read(s)`,
for a call on the bytes `s`. The two dozen states of the switch that read a varint
differ in which field comes next; here that is a table, `Form`, of the fields of
each frame type, and the handlers are an output `out` of frames and payload
bytes. Failures of handlers are `ConnRead`'s. A field that lies whole in the
input is handed on from there without a buffer; both ways hand on the same
bytes, and the model takes one.

`Ksl` keeps blocks by id, as pointers, with the keys and links that the code
keeps, stale ones included: after a removal the key over a block may be greater
than the greatest below it. Keys are integers; the ranges of one gap list are
disjoint and compare as where they begin. `dwnx_ksl_update_key` only raises a
key, within its neighbours, as its one caller does.

## 3. Runs

Passing:

| Run | Instance | What it shows |
|---|---|---|
| `peer_bidi` | one endpoint in either role, one bidirectional stream, every frame with offsets up to 2; records cut anywhere and kept open; 1.8M states | `TypeOK`, `CreditOK` (no window is overrun), `QueueOK` (what must be told is queued, what is queued exists), `NoZombie` (closed at the last step), `PayloadOK` (the stream of an arriving payload stays) |
| `peer_streams` | four unidirectional streams, limits 1 to 2, records cut anywhere; 159k states | `StreamLimitOK` (no stream beyond a limit), `NoReopen` (closed for good) |
| `pair` | client and server on a bidirectional stream, the connection window tight toward the client and the stream's toward the server, the stream opened once the limit on streams is raised; two batches in flight, records cut anywhere; 265k states | `NoConnectionError` (they never fail each other), `BytesConserved`, `LimitsAgree`, and `FlowControl`: both directions implement `CreditFlow` |
| `live` | client and server with fairness; on a stream that both close, and with windows of 4 | `StopEndsReading`, `BothSidesFreed`, `CreditIsTold` |
| `session` | client and server from the first call, with five sets of remembered limits, a stream of each direction; 708k states | `NobodyFails`, `EarlyCredit`, `EarlyAgreement`, and `RejectionForgets` of the step of a rejection |
| `app` | three requests over two streams at a time, windows of one byte, sockets that fill up, early data taken or rejected; 201k states | `SendqValid`, `NothingForgotten`, `SleepsDone`, `NobodyAsserts`, and that all requests are answered, `AllAnswered` |
| `parts` | twelve parts, 1.8M states | see below |

The parts of `parts`, each from its own initial states:

| Part | Property | Meaning |
|---|---|---|
| gaptr | `GapsExact` | the gaps, the lookup and the first gap are what was pushed |
| ratelim | `ExactBucket` | implements `TokenBucket`, and nothing overflows |
| pq, map | `PqExact`, `MapExact` | heap order, indices in entries, probes and deletions |
| ksl | `KslExact` | searches, iterators, links and balance after every call |
| pool | `PoolExact` | no object overlaps another, a block header or the end of its block; released objects are used first |
| loop | `LoopIsOneStep` | what `ConnWrite` does in one step is what the loop does |
| reader | `CutsDoNotMatter`, `NeverPastRecord` | what is handed on is what a parser of the whole input finds; no field reaches into the next record |
| reader, frames | `DecodersAgree` | the decoders of whole payloads and the reader take the same bytes |
| params | `ParamsExact` | what is announced is heard, and what is accepted can be kept for early data |
| frames | `FramesExact` | a buffer is its frames; a frame cut short is refused |
| writer | `RecordFilled`, `ZeroMeansNothing`, `RecordsAreRead` | a record never overruns, a STREAM frame takes all that fits, 0 means nothing to send, and the reader finds in the record what was put in |
| idle | `IdleTimesOut`, `TimeoutsAgree` | nobody times out before the smallest promised timeout, or is left in silence for longer, and both ends have the same timeout up to a millisecond |

Violations, where the code and its documentation disagree, or a caller of it fails:

| Run | Property | What happens |
|---|---|---|
| `ctrl_reentrant` | `ResetQueued` | `stream_stop_sending` is called for the stream on top of the queue. If the application shuts down a stream with a smaller id there, that stream gets on top, and the turn ends by popping it. Its RESET_STREAM is not written until something else queues the stream. The comment on `conn_reset_stream` says that the frame is added to the transmission queue. |
| `calls_more` | `WriteMoreAccepts` | With the connection window used up and stream window left, `dwnx_conn_writev_stream` returns DWNX_ERR_WRITE_MORE and leaves `*pdatalen` at -1. `dwnx.h` says the number of bytes accepted is stored, and the example client asserts that it is not negative. |
| `calls_stop` | `StopCalledOnce` | `stream_stop_sending` runs before its frame is encoded; without room the next record calls it again. `dwnx.h` says at most once per stream. |
| `write_zero` | `ZeroAtDefaultSize` | A datagram whose frame is as long as a record may be, or a byte shorter, is accepted but never fits in a buffer of DWNX_DEFAULT_MAX_RECORD_SIZE, the size `dwnx.h` asks for, because the record's own length of two bytes comes on top. The call returns 0, "nothing to send", each time. With two bytes more (`ZeroMeansNothing`) it does not happen. |
| `app_stop` | `SendqValid` | The server refuses a request whose rest is still queued in the client, and shuts the stream down. The client's codec does not take a closed stream out of `sendq_` (the server's does), so that the pointer is to a deleted object when `write_record` comes to it. The other instance, `app`, has a window that lets every request leave whole before the answer, which is why it passes. |

Two smaller observations have no run. `dwnx_gaptr_drop_first_gap` on the last gap
leaves the empty list, which stands for nothing pushed, against
`dwnx_gaptr.h:92`; nothing in the library calls it. The MAX_STREAMS callback
precedes a frame that may not fit, like STOP_SENDING's.

### Bounds, and why they are enough

*Streams.* The handlers treat a stream by its direction and by who opened it.
One stream of each class meets every branch of every handler; streams interact
only through the queue, the connection window and the stream limits.
`peer_streams`, `loop` and `app` have several in the queue, and with two of each
side the limit is reached, raised and reached again.

*Offsets* (`MaxVarint` = 2). Windows of one byte are filled, extended to two,
and saturate at the largest varint; a frame fits exactly, is one too long, or
starts at the wrong offset. Payload of two bytes arrives whole or in two parts.
In `pair` a call writes a byte at most and closes its record, so that no
STREAM_DATA_BLOCKED is sent; two endpoints send it in `session` and `app`, where a
writer reports in the same record what its window holds back, and `peer_bidi` has
longer writes and records kept open against any peer. The server of `pair` starts with no stream for
the client and raises that limit by one; further raises are in `peer_streams`, and
the theorems on pairs have no bounds.
For liveness of credit windows are 4, so that an extension can stay below the
threshold of a quarter window and a later one pass it.

*Glitches.* A burst of 0 or 1 makes the limiter end the connection against an
arbitrary peer. In the pairs the burst is 2 or 4, which the bounds cannot
exhaust: how much legal traffic can be in flight depends on the applications.

*Wire.* One or two batches: an endpoint can write again before its peer has
read, and both directions cross. `WireCap` stops writers, not readers.

*Calls* names the calls applications make in a run, so that a run pays only for
those its question is about; between them the runs use all of them.

*Session.* Remembered limits equal to those announced now, lower in each kind,
and higher; the higher ones are the server's breach, which `EarlyCredit` covers
and `NobodyFails` leaves out. Every record has room; running out of room is
`Qmux`'s.

*Applications.* Three requests of two bytes with two streams at a time make the
client wait for MAX_STREAMS; windows of one and two bytes make requests and
responses stop on both levels; one request is malformed, and responses are a
file, an empty file, and one after which reading stops. Two bytes fit in a
record. `SSL_write` may find the socket full at any record, and the client's may
also ask for the server's answer first while early data is out
(SSL_ERROR_WANT_READ, which turns the write watcher off); when a limit on early
data makes it do so is left open, and a server, which has its keys when it writes,
is not made to.

*Bytes.* `Base` = 32 stands for 64: a varint of one byte says up to 31, one of
two up to 4095, one of four the rest; a record holds up to 4094 bytes for the
code's 16382. The form of a varint does not depend on the base. Types and ids
of eight bytes are shortened to two, since which length a type has only adds to a
sum. Values lie at 0, at both sides of each length, and at the extremes of their
type; parameters are varied two at a time. Buffers are too small for a record,
just large enough, of the size at which a length takes a byte more, and of full
size. The reader is fed all inputs of five bytes over twelve byte values, which
contain every kind of field, records of one to five bytes, and cuts at any byte.

*Data structures.* Gaps: all ranges below 8 on a line of 10. Limiter: 5-bit
integers with rates and bursts at both ends, four ticks a second, a clock of 12.
Heap: eight entries, the smallest heap in which an entry that fills a hole may
have to move up. Map: six keys whose four-bit hashes collide at every size and
wrap around the end of the table, which doubles twice. Skip list: degree 2 for
16, so that nine keys make three levels, and every split, shift and merge
happens. Pool: objects of the alignment, less and more; blocks of one or two,
up to three blocks, at every alignment of the memory that the allocator may
return.

*Time.* Timeouts of 2 to 4 on a clock that runs for five ticks, with a
millisecond of two, and a largest time of 15 that is nearly reached: only the
server has a timeout, or both, either the smaller. A timeout below a millisecond
is assumed away: the wire tells it as none. Left out is an end whose record waits
for the socket: a client without a timeout of its own that learns the server's
has no timer then, until the socket takes the record.

`CHECK_DEADLOCK FALSE` is set throughout: a failed connection stops, and a clock
or the number of calls ends.

### Fairness

`LiveSpec` assumes, per endpoint, weak fairness of `ReadStep` (the application
reads what its socket has) and of `WriteRecord` (it writes when it may). That is
the contract of an event loop: the example client and server arm a read watcher
throughout and call the write function after every event. Nothing is assumed of
opening, sending, shutting down and extending; those belong to the application,
and the liveness properties start from their having happened. In these runs
records have room for what waits; with records that never have room nothing
could be told.

`AppSpec` assumes that TLS completes its handshake, and that libev serves a
descriptor that is ready: `[]<>(~Ready(e) \/ Dangling) \/ []<><<LoopStep(e)>>_appVars`.
That is weak fairness of the loop with `Ready`, which names the watchers that are
armed and the sockets that have input or room, in the place of ENABLED: a loop
that sleeps with its watcher off is not helped by it, which is the point.

## 4. Proofs

`QmuxProofs` proves for all sets of stream ids, all transport parameters, all
bounds and every peer whose frames the decoder can produce:

* `TypeCorrect == Spec => []TypeOK`: every field keeps its type; in particular no
  offset or limit leaves the range of a varint.
* `CreditNeverOverrun == Spec => []CreditOK`: offsets never pass limits, announced
  limits never pass granted ones, so the unsigned differences of
  `conn_fc_credits`, `conn_max_data_violated` and
  `strm_should_send_max_stream_data` never wrap, for connection and streams.

Assumptions are those of the modules: stream ids are a finite set of naturals,
the bounds are naturals, transport parameters are within their types, the
endpoints are roles, and `PeerFrames` is a subset of `PeerFrame`. TLC evaluates
them in every run.

*The argument.* `CreditOK` speaks of live streams and is not inductive. A frame
may bring a stream into being with the value `strm[s]` already has, and an offset
grows only within a window whose type is known. The inductive invariant is

    CreditInv == TypeOK /\ \A e \in Ends : ConnCredit(conn[e])

where `ConnCredit` is `CreditOK` for all streams, live or not; it holds of those
that are not because a freed stream has the value of a new one. `Good(c)` is the
invariant of one connection. Each operator of `Conn`, `ConnRead` and `ConnWrite`
has a lemma that it preserves `Good`; lemmas on frames and batches type the wire;
each action of `Qmux` then follows from the lemmas of the operators it uses, and
`NextKeepsInv` has one step per action.

`QmuxLifeProofs` proves, under the same assumptions, what a stream goes through:

* `QueueHoldsPending == Spec => []QueueOK`: a stream with something to tell the
  peer is queued, wherever a record ran out of room, and what is queued exists.
* `FreedInTime == Spec => []NoZombie`: no call leaves a stream in the map with
  both sides shut and nothing to send.
* `PayloadHasStream == Spec => []PayloadOK`: the stream of a payload that arrives
  in pieces is there for each, whatever the application calls in between.
* `LimitsRespected == Spec => []StreamLimitOK`: the map and the id tracker hold
  only streams that the limits allowed.
* `NeverReopened == Spec => NoReopen`: a stream that left the map stays out.

*The argument.* The four invariants are inductive together, on top of
`CreditInv`, but for one fact: that the next local id of a direction has that
direction and the local role (`NextLocal`); without it opening a stream could
put a new object over a live one. They need each other. A stream may be closed
while it is queued because closing takes it out of the queue; it may be closed
while payload arrives for another only because `PayloadOK` says its own read
side would be open; a stream that is popped has nothing more to ask because its
frames were written, unless it is freed, and it is freed exactly when its last
word was the RESET_STREAM (`PoppedQuiet`, `TurnCloses`). In the middle of a call
a stream may have both sides shut, so the invariant of one connection,
`SoundBut(c, Z)`, excuses a set of streams, and `CloseSound` discharges it.
`Kept(c, d)` relates the connection before and after a call, is transitive, and
gives `NoReopen`. `TouchSound` is the lemma most operators come down to: only one
stream differs, and it is queued if it asks for something.

`TieProofs` and `LinkProofs` prove of two
endpoints, a client and a server (`Ends = Role`), for all sets of streams, all
transport parameters and all bounds, and so for any number of batches in flight:

* `OnlyGlitchesFail == Spec => []OnlyGlitches`: if an endpoint ever fails, then
  because its glitch limiter ran dry.
* `NobodyRefuses`: as long as none has, `NoConnectionError`. The condition is not
  removable: legal frames for streams that were closed meanwhile are charged to
  the limiter (`lib/dwnx_conn.c` 1006, a hazard that no property covers).
* `NothingLost == Spec => []BytesConserved` and `LimitsFollow == Spec =>
  []LimitsAgree`: the accounts of both sides agree up to what is on its way.
* `FlowImplemented == Spec => FlowControl`: in both directions, flow control of
  the connection is `CreditFlow`, step by step.

*The argument.* That a frame is accepted depends on what it carries, so an
invariant about sums is not inductive. `Tied(c, p, u, v)` relates two connections
and the batches u on the way from p to c, and v on the way back, followed by the
record under construction. For each stream and direction (`DataTo`,
`CreditTo`) and for the connection (`FlowTo`) it says:

* every STREAM, RESET_STREAM and STREAM_DATA_BLOCKED frame starts where its
  reader will be when it has read what is ahead of it, within the limit that the
  reader enforces; after the last one of a stream comes none;
* limits on the wire rise from the one that the sender of data works with to the
  one that its peer enforces, and end at it (`Announced`, `Latest`);
* a stream that one side has finished is one whose end the other has read, or
  will (`Finished`, `EndRead`); frames are only about streams that their reader
  may know of.

A freed stream has lost its record, so what is left of it is that it was used and
is gone (`Gone`). Every call of the library either writes (`Sends`: the batch it
adds continues the connection it left), or reads (`Reads`: it takes over what the
frame says), or does neither (`Quiet`); two lemmas carry `Tied` over a step of
each kind, and one lemma per operator shows which kind it is. It is then shown
for each handler that the checks that could refuse the frame pass, from `Tied`.
The sums of `BytesIn` are recursive functions; facts about all their values come
from well-founded induction on the natural numbers (`SetInduction`), applied to a
set, since induction rules with an operator for a parameter cannot be used.
`LinkProofs` puts it together: `PairInv == LifeInv /\ Linked`, with `LifeInv` from
`QmuxLifeProofs` and `Linked` for `Tied` of both ends.

`SessionProofs` proves of a client and a server that start without each other's
limits (`Ends = Role`), for all sets of streams, transport parameters, sets of
remembered parameters and bounds, and in every order of early data, the answer to
it and the exchange of parameters:

* `CreditOfEarlyData == SessionSpec => []EarlyCredit`: no side sends more than
  the limits it works with.
* `RejectionStartsAgain == SessionSpec => RejectionForgets`: a rejection leaves
  the client's connection as a new one, field by field.
* `EarlyDataNeverFails == SessionSpec => []NobodyFails`: with a server that
  announces no less than it did before, neither fails the other. The condition
  is that of the program: the client fails a server that breaks its promise.
* `EarlyAccountsAgree == SessionSpec => []EarlyAgreement`: both sides count the
  same bytes, and come to work with the limits that the other announced. It needs
  no condition on what was remembered.

*The argument.* Four invariants, one on top of the other.

* `StartInv` says where each endpoint is in the handshake. `Own`: one that has
  not read its peer's parameters has read nothing and works with the remembered
  limits or with none, so that only a client with remembered limits has streams;
  a server in this state is as it was made. `Way`: the parameters are the first
  frame of the first record, and the frames behind them (`Flow`) are those that
  calls of `Session` write (`PlainFrame`). `Silent`: such a server has said
  nothing more. This is why `Discard` need not reset what early calls cannot
  touch (`DiscardFresh`): the rest of the connection still has its first value.
* `SessionInv` adds `Agreed` when nothing was promised that is not kept. While
  limits are unknown the ties of `TieProofs` do not hold, a sender works with
  less than its peer enforces. They do hold between the connections that the two
  will be: `Lift(c, m, n)` is c with the limits it is going to be told, and
  `View(e)` that of the endpoint e. Each call commutes with `Lift` (`LiftOpen`,
  `LiftCtrl`, `LiftData` and others), as a call within smaller limits is a call
  within larger ones (`Below`). Two things do not commute and are shown apart: a
  stream opened under the remembered parameters gets its window from them, which
  `Lift` replaces, and a stream may report itself blocked that is not so under
  the larger limits, which its reader accepts as the position is the same
  (`ReportLifted`). Reading the parameters is then a step that changes nothing
  in the view (`ParamsTaken`), and every other frame is read as in `LinkProofs`.
* `CountInv` says that the accounts agree (`Both`), which needs no limits: a step
  `Counts` the bytes of what it writes or reads, or `Holds` them. It does not
  rest on `Agreed`, and so covers a server that announces less than it promised
  up to the moment at which the client gives up.
* `PromiseKept`: a client that has read the parameters and did not fail was
  promised no more. With it `LimitsAgree` follows from `Agreed` for any server.

A rejection does not preserve the ties, it replaces them: the client's connection
is new, the server's is still new, nothing is on its way but the parameters.

`LoopProofs` proves, where the callback calls nothing (`~Reentrant`) and the peer
sends frames (`PeerFrames \subseteq PeerFrame`), for any streams, parameters and
number of calls and records:

* `LoopDoesOneStep`: `LoopSpec => []LoopIsOneStep`. The loop of
  `dwnx_conn_write_ctrl_frames`, stopped by whichever frame does not fit, leaves
  the connection as the one step `WriteCtrlFrames` of `ConnWrite` does, and what
  it wrote is a front of what waited, in order, all of it when it ran to its end.
  This is what lets every other module treat the function as one step.

*The argument.* `LoopIsOneStep` speaks of the end and is not inductive. `LoopInv`
compares the connection, at each statement, with the one that the record was
started with. The order of `ConnWrite` gives every frame a place: before, in or
after the queue, and in it the stream and one of five kinds. `SaidUpTo` is what
lies before a place, and what is in the record (`InOrder`). `Limits` says that a
limit is recorded as sent exactly when its frame is there. `Midway` says the rest:
the streams that left the queue precede those still in it and are as at the end
of their turns (`Finished`), the one whose turn it is as after the statements
executed (`Turned`), the others untouched. `TurnOver`, `TurnCut` and `TurnNotYet` show that the
statements of a turn are what `WriteCtrlFrames` says of a stream with the frames
written, which is not obvious at the two places where a turn may end early, a
reset that closes the stream and a frame that does not fit: `StepByStreams` puts
the streams together, and the blocked offset of the connection, which any of
several streams may report. The hypothesis on the callback is needed: the run
`ctrl_reentrant` shows a reset that is lost when it shuts its stream down.

`WriterProofs` proves for all transport parameters, every queue of control
frames, buffers of any size, and any data and datagrams offered in any order:

* `RecordsAreFilled == WriterSpec => []RecordFilled`: no record is longer than
  its buffer or than two bytes of length can say, and a STREAM frame takes as
  much as there is room for.
* `ZeroIsTheEnd == WriterSpec => []ZeroMeansNothing`: with a buffer as large as a
  record can be, 0 is returned only when nothing waits and nothing was turned down.

*The argument.* A record is not overrun because what is tested against the room
left is what is written later: `Announces` says that of an encoder, and is shown
of each by induction over its fields (`Totals`, `Joined`; the induction is
`SetInduction`, applied to the set of counts for which the fact holds). That 0 is
the end needs the inductive invariant `WriterInv`: a record that is open between
two calls is not empty (`Between`), so one that ends empty was begun by this
call, and has all its room (`Fresh`). In a whole buffer that is enough for
whatever comes first: no control frame is longer than 32 bytes (`ControlFits`), a
STREAM frame header leaves room for data (`StreamRoom`), and a datagram longer
than a record is refused. Three of the assumptions are about the code:
`Base >= 4`, where the code has 64, the distinct types of frames, and that
what waits are frames which `dwnx_conn_write_ctrl_frames` can write
(`ControlFrame`). `StreamRoom` is where it is not obvious: the length of the
length depends on the data that is let in, and at the border between one byte and
two the code takes a byte less than there is room for only when one more would
need two.

`PartsProofs` proves for all timeouts, clocks and runs of any length:

* `SilenceEnds == IdleSpec => []IdleTimesOut`.
* `EndsAgreeOnIdle == IdleSpec => []TimeoutsAgree`.

*The argument.* `IdleInv` says of each end that what it knows of the other's
timeout is what the wire could say of it, that activity was noted, that a
running timer has not been missed (`Waiting`) and, between events, that it is
set for the expiry or fires at once (`Timed`). `update_timer` establishes `Timed`
from `Waiting`, which is why it is enough to call it after the writes; in the
middle of `readcb` only `Waiting` holds, after any number of records.

`PartsProofs` also proves that for a line of any length and whatever was pushed

* `GapsAlwaysExact == GapSpec => []GapsExact`: the gaps are the complement of
  what was pushed, and all three lookups answer from them what they should.

*The argument.* `GapInv`: the gaps are apart, not empty, and the complement of
what was pushed. Apart, not only disjoint: the lookup takes the first gap whose
end is beyond the offset, and is right because no other begins before it.

For objects of any length and any number of them to a block, any alignment, and
any order of requests, releases and clearing:

* `PoolAlwaysExact == PoolSpec => []PoolExact`: each object is aligned and within
  its block, shares no byte with another, and is lent or released, once.

*The argument.* `PoolInv`: what is left of a block is a whole number of objects,
so that a block is full when the next object does not fit, and its next object
begins where all others of the block have ended. `HeaderLen + Alignment - 1` more
than the objects need is what `BlockView` shows to be enough, wherever `malloc`
puts the block.

For any set of entries with any keys, equal ones included, and any order of
pushes, pops and removals:

* `QueueAlwaysExact == PqSpec => []PqExact`: the array of the priority queue
  holds what was pushed and is not taken out, each entry knows its index, and
  the one on top is a least one. This is what lets `Conn` have a set with a
  least element for `tx.strmq`.

*The argument.* `PqInv`: the array is a heap, and the entry at each index has
that index. In the middle of a call the heap has one entry out of order, which
may be before the one above it (`HeapBut`) or after those below it (`HeapAbove`);
in both, the entries below it are not before the one above it (`Skips`), which
is what makes a swap right. The loops of `bubble_up` and `bubble_down` are
functions of the number of turns: each turn moves the entry strictly up or down
until it stops, so the number of entries bounds the number of turns (`UpLoop`,
`DownLoop`). `RemovedIs` has the case that is easy to get wrong: the last entry,
put into a hole in the middle, is one of `HeapAbove` if the removed entry was
before it and one of `HeapBut` if not.

`PartsProofs` also proves for every width of the integers, every resolution of the
clock, and every burst, rate and sequence of times:

* `ExactForAll == RateSpec => ExactBucket`: the limiter implements the ideal
  bucket of `TokenBucket`, with `tokens * Seconds + carry` for its level.
* `RatelimTypes == RateSpec => []RatelimTypeOK`: no value leaves its width.

*The argument.* The invariant `RateInv` adds to the types that a full bucket
carries no fraction, `carry > 0 => tokens < burst`: with it a level in fractions
is below the burst exactly when the tokens are, and `UpdatedExact` shows that the
three ways through `ratelim_update` (no time has passed, a partial gain, a full
bucket) are the one line of the ideal bucket. The test against overflow is where
it is not obvious: it is proved that when `rate * d + carry` would not fit, the
bucket is full anyway, since a full bucket fits.

*Only model-checked.* `HashMap`, `Ksl`, `Codec`, `RecordReader` and `HqApp`
are written with recursive operators, as their C is with loops over data, and are
out of the prover's reach: `MapExact`, `KslExact`, `DecodersAgree`,
`RecordsAreRead`, `CutsDoNotMatter`, `NeverPastRecord` and all properties of the
run `app`. `ParamsExact` and `FramesExact` are checked over lists of values: they
relate an encoder to a decoder that walks over the bytes; that both encoders write
as many bytes as they announce is proved in `WriterProofs`. Liveness (the run
`live`, `AllAnswered`) rests on fairness, of which the prover knows nothing. What a
callback that calls the library does to the loop of `CtrlLoop` is shown by the run
`ctrl_reentrant`.

## 5. Not modelled

* Failing callbacks and failing allocation: both end the connection.
* The http3 codec of the examples: glue to nghttp3, whose source is not here.
* TLS itself, HTTP parsing, files and command lines of the examples, and the
  client's exit.
* Errors and settings (tables, defaults), logging and formatting (text that
  nothing reads back), tests and fuzzers (read for what they expect), the
  vendored HTTP parser.
* Callbacks that call back at places other than `stream_stop_sending` and those
  of the examples, and the build that allocates every object by itself.

## 6. Plan

In order of importance:

1. `Session` with records that run out of room and with a record open at the
   rejection, once the library says what the caller must do there.
2. Callbacks that open streams from `extend_max_stream_data` while the map is
   walked (`dwnx_map_each`), as a loop with a program counter like `CtrlLoop`.
