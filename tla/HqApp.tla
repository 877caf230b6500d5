-------------------------------- MODULE HqApp --------------------------------
(***************************************************************************)
(* The example client and server with the hq codec, on top of the library: *)
(* the client opens a stream per request, the server answers on it, and    *)
(* both write from a queue of streams, sendq, in an event loop that is     *)
(* woken by the socket (examples/client.cc, server.cc, hq_*_codec.cc).     *)
(*                                                                         *)
(* An application is a record a.  Callbacks map a pair x of connection and *)
(* application, x.c and x.a, to the pair after them; an action is a        *)
(* read, a record written, or a wakeup.                                    *)
(***************************************************************************)
EXTENDS Session

CONSTANTS
  NStreams,    \* config.nstreams
  ReqLen,      \* length of a request
  Responses,   \* bound: the answers of the server: length, and whether reading stops
  Malformed,   \* bound: streams whose request the server's parser refuses
  Answers,     \* bound: what the server may do with early data
  RecordCap    \* bytes of stream data in a record

VARIABLE app     \* app[e]: Client or Handler, with its codec

appVars == <<conn, wire, flags, early, tls, told, app>>

NewApp ==
  [open    |-> {},                          \* streams_
   left    |-> [s \in StreamIds |-> 0],     \* size of reqbuf, or of resp_data
   got     |-> [s \in StreamIds |-> 0],     \* bytes that http_parser has taken
   eos     |-> {},                          \* requests that are complete
   sendq   |-> {},                          \* ids of the streams in sendq_
   stale   |-> {},                          \* those that have been deleted
   done    |-> 0,                           \* nstreams_done_
   closed  |-> 0,                           \* nstreams_closed_
   phase   |-> "idle",
   wev     |-> FALSE,
   blocked |-> << >>,                       \* tx_.blocked.data
   failed  |-> FALSE]                       \* an assertion, or a deleted stream is used

First(S) == CHOOSE s \in S : \A t \in S : s <= t

-----------------------------------------------------------------------------
(* Streams                                                                 *)

\* streams_.erase
Delete(a, S) == [a EXCEPT !.open = @ \ S, !.stale = @ \cup (S \cap a.sendq)]

Unqueue(a, S) == [a EXCEPT !.sendq = @ \ S, !.stale = @ \ S]

\* stream_close, of the client
ClientStreamClose(x, S) ==
  [x EXCEPT !.a = [Delete(@, S) EXCEPT !.closed = @ + Cardinality(S \cap x.a.open)]]

\* stream_close, of the server: the codec takes the stream out of the queue,
\* and the client may open another.
ServerStreamClose(x, S) ==
  [c |-> ExtendMaxStreams(x.c, "bidi", Cardinality(S)), a |-> Delete(Unqueue(x.a, S), S)]

OnStreamClose(x, S) ==
  IF x.c.role = 0 THEN ClientStreamClose(x, S) ELSE ServerStreamClose(x, S)

CloseIfShut(x, s) ==
  IF ShouldCloseStream(x.c.strm[s])
    THEN OnStreamClose([x EXCEPT !.c = CloseStream(@, s)], {s}) ELSE x

OnStreamOpen(x, S) ==
  [x EXCEPT !.a.open = @ \cup S, !.a.eos = @ \ S,
            !.a.left = [s \in StreamIds |-> IF s \in S THEN 0 ELSE @[s]],
            !.a.got = [s \in StreamIds |-> IF s \in S THEN 0 ELSE @[s]]]

SubmitRequest(a, s) ==
  [a EXCEPT !.done = @ + 1, !.open = @ \cup {s}, !.left[s] = ReqLen, !.sendq = @ \cup {s}]

\* on_extend_max_streams: open streams and submit requests while the limit allows.
RECURSIVE OnExtendMaxStreams(_, _)
OnExtendMaxStreams(x, p) ==
  IF x.a.done = NStreams \/ ~StreamsLeft(x.c, "bidi") THEN x
  ELSE OnExtendMaxStreams(
         [c |-> OpenUnder(x.c, "bidi", p), a |-> SubmitRequest(x.a, x.c.next["bidi"])], p)

\* Mutant: a stream that was blocked is not queued again.
NotQueuedAgain(x, S) == x

\* extend_max_stream_data, for the streams of S
OnExtendMaxStreamData(x, S) ==
  [x EXCEPT !.a.sendq = @ \cup {s \in S \cap x.a.open : x.a.left[s] > 0}]

-----------------------------------------------------------------------------
(* Requests and responses                                                  *)

\* start_response with a file, or with a status after which nothing is read.
StartResponse(x, s, r) ==
  [c |-> IF r.stop THEN ShutdownStreamRead(x.c, s) ELSE x.c,
   a |-> [x.a EXCEPT !.eos = @ \cup {s}, !.left[s] = r.len, !.sendq = @ \cup {s}]]

\* http_parser_execute on n bytes.
Parse(x, s, n, r) ==
  LET y == [x EXCEPT !.a.got[s] = @ + n] IN
  IF s \in Malformed THEN [x EXCEPT !.c = ShutdownStream(@, s)]
  ELSE IF y.a.got[s] = ReqLen THEN StartResponse(y, s, r) ELSE y

Extend(x, s, n) ==
  [x EXCEPT !.c = ExtendMaxOffset(ExtendMaxStreamOffset(@, s, n), n)]

\* recv_stream_data, of the server: once the request is complete its data is
\* ignored.
ServerRecvStreamData(x, s, n, r) ==
  IF s \notin x.a.open THEN x
  ELSE IF s \in x.a.eos \/ n = 0 THEN Extend(x, s, n)
  ELSE Extend(Parse(x, s, n, r), s, n)

\* recv_stream_data, of the client
ClientRecvStreamData(x, s, n) == IF s \in x.a.open THEN Extend(x, s, n) ELSE x

OnRecvStreamData(x, s, n, r) ==
  IF x.c.role = 0 THEN ClientRecvStreamData(x, s, n) ELSE ServerRecvStreamData(x, s, n, r)

-----------------------------------------------------------------------------
(* Reading                                                                 *)

Pair(e) == [c |-> conn[e], a |-> app[e]]

\* The client was told of the rejection with requests in its queue, which
\* points to deleted streams from then on: what follows is undefined.
Dangling == "REJECTED" \in flags[0] /\ app[0].stale # {}

Alive(e) == Running(e) /\ ~Dangling

\* The loop of read_data; ReadDone ends it.
Reading(e) == app[e].phase \in {"idle", "read"} /\ Alive(e) /\ CanReceive(e)

GoOn(e, x) ==
  /\ conn' = [conn EXCEPT ![e] = x.c]
  /\ app' = [app EXCEPT ![e] = [x.a EXCEPT !.phase = "read"]]

\* The callbacks of conn_recv_transport_params: streams of early data that may
\* send more, then new streams.
Widened(e, c) ==
  {s \in c.live : c.strm[s].txMax > conn[e].strm[s].txMax /\ "SHUT_WR" \notin c.strm[s].flags}

WithParams(e, c) == OnExtendMaxStreamData([c |-> c, a |-> app[e]], Widened(e, c))

AfterRecvParams(e, c) ==
  IF e = 0 /\ c.err = "NONE" THEN OnExtendMaxStreams(WithParams(e, c), Params[Peer(e)])
  ELSE WithParams(e, c)

GetParams(e) ==
  /\ Reading(e) /\ "SEEN" \notin flags[e] /\ wire[e] # << >>
  /\ GoOn(e, AfterRecvParams(e, IF Head(wire[e]) = {ParamsFr}
                                  THEN RecvTransportParams(e, conn[e])
                                  ELSE Fail(conn[e], "PROTO")))
  /\ flags' = [flags EXCEPT ![e] = @ \cup {"SEEN"}]
  /\ wire' = [wire EXCEPT ![e] = Tail(@)]
  /\ UNCHANGED <<early, tls, told>>

\* extend_max_stream_data, once a MAX_STREAM_DATA frame was taken
GetMaxStreamData(x, s) ==
  IF s \in x.c.live /\ "SHUT_WR" \notin x.c.strm[s].flags THEN OnExtendMaxStreamData(x, {s}) ELSE x

\* extend_max_local_streams_bidi, which only the client sets
GetMaxStreams(x, dir) ==
  IF dir = "bidi" /\ x.c.role = 0 THEN OnExtendMaxStreams(x, Params[1]) ELSE x

\* The end of a stream without payload is a call of recv_stream_data too.
GetEnd(x, f, r) ==
  IF f.t = "STREAM" /\ f.len = 0 /\ f.fin THEN OnRecvStreamData(x, f.id, 0, r) ELSE x

GetClosed(x, S) == IF S = {} THEN x ELSE OnStreamClose(x, S)

GetCredit(x, f) ==
  IF f.t = "MAX_STREAM_DATA" THEN GetMaxStreamData(x, f.id)
  ELSE IF f.t = "MAX_STREAMS" THEN GetMaxStreams(x, f.dir)
  ELSE x

\* The callbacks of a frame f that made connection c of x.c.
OnFrame(x, c, f, r) ==
  LET opened == x.c.idtr \ c.idtr IN
  GetCredit(GetClosed(GetEnd(OnStreamOpen(x, opened), f, r), (c.live \cup opened) \ x.c.live), f)

AfterRecv(e, c, f, r) ==
  IF c.err = "NONE" THEN OnFrame([c |-> c, a |-> app[e]], conn[e], f, r)
  ELSE [c |-> c, a |-> app[e]]

GetFrame(e) ==
  /\ Reading(e) /\ "SEEN" \in flags[e]
  /\ conn[e].rd = Idle
  /\ \E f \in Incoming(e), r \in Responses :
       /\ GoOn(e, AfterRecv(e, Recv(conn[e], f), f, r))
       /\ wire' = [wire EXCEPT ![e] = After(@, f)]
  /\ UNCHANGED <<flags, early, tls, told>>

\* conn_recv_stream_data: payload is handed to the application, or given back
\* when reading was stopped; then FIN counts.
TakePayload(x, s, n, r) ==
  IF "STOP_SENDING" \in x.c.strm[s].flags THEN [x EXCEPT !.c = ExtendMaxOffset(@, n)]
  ELSE OnRecvStreamData(x, s, n, r)

EndPayload(x, s) == CloseIfShut([x EXCEPT !.c = SetFlags(@, s, {"SHUT_RD"})], s)

GetData(e) ==
  LET rd == conn[e].rd IN
  /\ Reading(e)
  /\ \E n \in 1..rd.left, r \in Responses :
       LET x == TakePayload([Pair(e) EXCEPT !.c.rd = Rest(@, n)], rd.id, n, r) IN
       GoOn(e, IF rd.fin /\ n = rd.left THEN EndPayload(x, rd.id) ELSE x)
  /\ UNCHANGED <<wire, flags, early, tls, told>>

-----------------------------------------------------------------------------
(* Writing                                                                 *)

\* The control frames, when the record is started; streams whose RESET_STREAM
\* is among them are closed.
StartedWith(x, c) == GetClosed([x EXCEPT !.c = c], x.c.live \ c.live)

StartRecord(x) == IF x.c.qre.started THEN x ELSE StartedWith(x, WithCtrl(x.c))

DataIn(c) == BytesIn(c.qre.frames, StreamIds)

\* Mutant: a stream that has sent everything stays in the queue.
WrittenKeeps(x, s, w) == [x EXCEPT !.a.left[s] = @ - w]

\* write_stream_data_offset
Written(x, s, w) ==
  LET a == [x.a EXCEPT !.left[s] = @ - w] IN
  [x EXCEPT !.a = IF a.left[s] = 0 THEN Unqueue(a, {First(a.sendq)}) ELSE a]

\* Mutant: the connection window is not asked for.
HasTurnAnyway(x) == x.a.sendq # {}

\* A stream is offered to the library while the connection has credit.
HasTurn(x) == x.a.sendq # {} /\ x.c.txOff < x.c.txMax

\* DWNX_ERR_STREAM_DATA_BLOCKED reports what is exhausted.
Blocked(x, s) == [x EXCEPT !.c = ReportBlocked(@, s, BlockedReports(@, s))]

\* dwnx_conn_write_stream takes w of the len bytes of stream s.
TakeData(x, s, len, w) == [Written(x, s, w) EXCEPT !.c = WriteData(x.c, s, len, w, TRUE)]

\* The last byte is written with FIN, which may close the stream.
TakeLast(x, s, len) ==
  LET y == TakeData(x, s, len, len) IN GetClosed(y, {s} \ y.c.live)

\* write_record, up to its last call: the stream is skipped (SHUT_WR,
\* STREAM_DATA_BLOCKED), or it has written and there is room (WRITE_MORE), or
\* the record is full.
RECURSIVE WriteRecordLoop(_)
WriteRecordLoop(x) ==
  LET Dropped(y, s) == [y EXCEPT !.a = Unqueue(@, {s})]
      OnBlocked(y, s) ==
        IF y.c.strm[s].txOff = y.c.strm[s].txMax THEN WriteRecordLoop(Dropped(Blocked(y, s), s))
        ELSE [Blocked(y, s) EXCEPT !.a.failed = TRUE]
      Put(y, s, len, credits, w) ==
        IF credits = 0 /\ len > 0 THEN OnBlocked(y, s)
        ELSE IF w = 0 /\ len > 0 THEN y
        ELSE IF w = len THEN WriteRecordLoop(TakeLast(y, s, len))
        ELSE IF w = credits THEN WriteRecordLoop(Blocked(TakeData(y, s, len, w), s))
        ELSE TakeData(y, s, len, w)
      Fit(y, s, len, credits) == Put(y, s, len, credits, Lesser(credits, RecordCap - DataIn(y.c)))
      Offer(y, s, len) == Fit(y, s, len, Lesser(len, FcCredits(y.c, s)))
      Turn(s) ==
        IF s \in x.a.stale THEN [x EXCEPT !.a.failed = TRUE]
        ELSE IF "SHUT_WR" \in x.c.strm[s].flags THEN WriteRecordLoop(Dropped(x, s))
        ELSE LET y == StartRecord(x) IN Offer(y, s, y.a.left[s])
  IN  IF HasTurn(x) THEN Turn(First(x.a.sendq)) ELSE StartRecord(x)

WithMaxStreams(x) == [x EXCEPT !.c = WriteMaxStreams(@, MaxStreamsFrames(@))]

\* The record that e writes now, MAX_STREAMS frames last; empty when there is
\* nothing to say.
NextRecord(e) == WithMaxStreams(WriteRecordLoop(Pair(e)))

\* Mutant: the requests that were submitted are still counted.
ForgetKeepsCount(a) == [Delete(a, a.open) EXCEPT !.blocked = << >>, !.wev = TRUE]

\* Client::early_data_rejected: the streams are deleted and requests start
\* again from the first; the codec is told and does nothing.
Forget(a) ==
  [Delete(a, a.open) EXCEPT !.done = 0, !.blocked = << >>, !.wev = TRUE]

Rejected ==
  /\ conn' = [conn EXCEPT ![0] = Discard(@)]
  /\ flags' = [flags EXCEPT ![0] = (@ \ {"EARLY_SET", "SENT"}) \cup {"REJECTED"}]
  /\ wire' = [wire EXCEPT ![1] = << >>]
  /\ told' = TRUE

RejectionDue(e) == e = 0 /\ tls = "rejected" /\ ~told /\ "EARLY_SET" \in flags[0]

\* Mutant: nobody waits for the socket.
SendLaterUnwatched(a, record) == [a EXCEPT !.phase = "idle", !.blocked = record]

\* on_send_blocked; start_wev
SendLater(a, record) == [a EXCEPT !.phase = "idle", !.wev = TRUE, !.blocked = record]

\* stop_wev: the read that completes the handshake goes on to write.
SendAfterRead(a, record) == [a EXCEPT !.phase = "idle", !.wev = FALSE, !.blocked = record]

\* SSL_write takes a record whole; or leaves it to be sent when the socket can
\* take it (SSL_ERROR_WANT_WRITE); or, with as much early data out as the
\* server allows, when its answer has been read (SSL_ERROR_WANT_READ).
SocketFull(e) == Len(wire[Peer(e)]) >= WireCap
WantsRead(e) == e = 0 /\ ~told /\ ~RejectionDue(e)

\* There is nothing to write; or TLS takes the record; or it has to wait.
SendRecord(e, c, a, record) ==
  /\ conn' = [conn EXCEPT ![e] = FinishRecord(c)]
  /\ flags' = [flags EXCEPT ![e] = @ \cup {"SENT"}]
  /\ UNCHANGED told
  /\ \/ /\ record = << >>
        /\ app' = [app EXCEPT ![e] = [a EXCEPT !.phase = "idle"]] /\ UNCHANGED wire
     \/ /\ record # << >> /\ ~SocketFull(e)
        /\ app' = [app EXCEPT ![e] = a]
        /\ wire' = [wire EXCEPT ![Peer(e)] = @ \o record]
     \/ /\ record # << >> /\ SocketFull(e)
        /\ app' = [app EXCEPT ![e] = SendLater(a, record)] /\ UNCHANGED wire
     \/ /\ record # << >> /\ WantsRead(e)
        /\ app' = [app EXCEPT ![e] = SendAfterRead(a, record)] /\ UNCHANGED wire

\* TLS says that early data was rejected.
RejectRecord(a) ==
  /\ app' = [app EXCEPT ![0] = [Forget(a) EXCEPT !.phase = "idle"]]
  /\ Rejected

HandleRecord(e, x, record) ==
  IF record # << >> /\ RejectionDue(e) THEN RejectRecord(x.a)
  ELSE SendRecord(e, x.c, [x.a EXCEPT !.wev = FALSE], record)

\* One turn of write_streams.
WriteRecordTurn(e) ==
  /\ app[e].phase = "write" /\ app[e].blocked = << >> /\ Alive(e) /\ CanSend(e)
  /\ \E x \in {NextRecord(e)} : HandleRecord(e, x, ParamsFirst(e, x.c.qre.frames))
  /\ UNCHANGED <<early, tls>>

\* send_blocked_packet
SendBlocked(e) ==
  /\ app[e].phase = "write" /\ app[e].blocked # << >>
  /\ UNCHANGED <<early, tls>>
  /\ \/ /\ ~SocketFull(e) /\ ~RejectionDue(e)
        /\ wire' = [wire EXCEPT ![Peer(e)] = @ \o app[e].blocked]
        /\ app' = [app EXCEPT ![e].blocked = << >>]
        /\ UNCHANGED <<conn, flags, told>>
     \/ RejectionDue(e) /\ RejectRecord(app[e])

\* on_write after a read finds the socket still full, or TLS still without the
\* answer.
StillBlocked(e) ==
  /\ app[e].phase = "write" /\ app[e].blocked # << >>
  /\ \/ SocketFull(e) /\ app' = [app EXCEPT ![e] = SendLater(@, @.blocked)]
     \/ WantsRead(e) /\ app' = [app EXCEPT ![e] = SendAfterRead(@, @.blocked)]
  /\ UNCHANGED <<conn, wire, flags, early, tls, told>>

\* readcb goes on to on_write when the socket has no more to read.
ReadDone(e) ==
  /\ app[e].phase = "read"
  /\ app' = [app EXCEPT ![e].phase = "write"]
  /\ UNCHANGED <<conn, wire, flags, early, tls, told>>

\* writecb: the socket is writable.
Writable(e) ==
  /\ app[e].phase = "idle" /\ app[e].wev /\ Alive(e) /\ CanSend(e)
  /\ app[e].blocked # << >> => ~SocketFull(e)
  /\ app' = [app EXCEPT ![e].phase = "write"]
  /\ UNCHANGED <<conn, wire, flags, early, tls, told>>

-----------------------------------------------------------------------------
(* TLS                                                                     *)

\* The server completes the handshake: rev_ is fed, and on_write comes after it.
AppAnswer ==
  /\ tls = "hello"
  /\ tls' \in IF "EARLY_SET" \in flags[0] THEN Answers ELSE {"rejected"}
  /\ app' = [app EXCEPT ![1].phase = "write"]
  /\ UNCHANGED <<conn, wire, flags, early, told>>

\* SSL_do_handshake or SSL_read of the client completes the handshake.
AppTold ==
  /\ tls # "hello" /\ ~told /\ app[0].phase = "idle"
  /\ UNCHANGED <<early, tls>>
  /\ \/ /\ RejectionDue(0)
        /\ app' = [app EXCEPT ![0] = [Forget(@) EXCEPT !.phase = "read"]]
        /\ Rejected
     \/ /\ ~RejectionDue(0)
        /\ app' = [app EXCEPT ![0].phase = "read"]
        /\ told' = TRUE
        /\ UNCHANGED <<conn, wire, flags>>

-----------------------------------------------------------------------------

\* load_transport_params: what save_transport_params wrote in an earlier run
LoadTransportParams(c) == WithLimits(c, early)

\* The client has no ticket, or opens the streams that it remembers are allowed
\* and is told by tls_handshake to write them (make_stream_early).
MakeStreamEarly == OnExtendMaxStreams([c |-> LoadTransportParams(Fresh(0)), a |-> NewApp], early)

AppInit ==
  /\ wire = [e \in Ends |-> << >>]
  /\ early \in Remembered
  /\ tls = "hello" /\ told = FALSE
  /\ \/ /\ conn = [e \in Ends |-> Fresh(e)]
        /\ app = [e \in Ends |-> NewApp]
        /\ flags = [e \in Ends |-> {}]
     \/ /\ conn = [e \in Ends |-> IF e = 0 THEN MakeStreamEarly.c ELSE Fresh(1)]
        /\ app = [e \in Ends |-> IF e = 0 THEN [MakeStreamEarly.a EXCEPT !.phase = "write"] ELSE NewApp]
        /\ flags = [e \in Ends |-> IF e = 0 THEN {"EARLY_SET"} ELSE {}]

LoopStep(e) ==
  \/ GetParams(e) \/ GetFrame(e) \/ GetData(e) \/ ReadDone(e)
  \/ WriteRecordTurn(e) \/ SendBlocked(e) \/ StillBlocked(e) \/ Writable(e)

AppNext == AppAnswer \/ AppTold \/ \E e \in Ends : LoopStep(e)

\* A read or a write of e is under way, or its descriptor is ready.
HasInput(e) ==
  /\ Running(e) /\ CanReceive(e)
  /\ wire[e] # << >> \/ conn[e].rd # Idle

Ready(e) ==
  \/ app[e].phase # "idle"
  \/ HasInput(e)
  \/ app[e].wev /\ Running(e) /\ CanSend(e) /\ (app[e].blocked # << >> => ~SocketFull(e))

\* libev serves every descriptor that is ready, and TLS completes its handshake.
\* For LoopStep this is weak fairness with Ready in the place of ENABLED.
AppSpec ==
  /\ AppInit /\ [][AppNext]_appVars
  /\ WF_appVars(AppAnswer) /\ WF_appVars(AppTold)
  /\ \A e \in Ends : []<>(~Ready(e) \/ Dangling) \/ []<><<LoopStep(e)>>_appVars

-----------------------------------------------------------------------------
(* Properties                                                              *)

\* The queue of a codec points to streams that exist: no close, whichever side
\* ends the stream, leaves a pointer behind (sendq_, streams_, on_stream_close).
\* Rejected early data does, see Dangling.
SendqValid == Dangling \/ \A e \in Ends : app[e].stale = {}

\* A stream that has left the queue with data unsent comes back when its window
\* is raised: while its window is open it is in the queue (extend_max_stream_data,
\* DWNX_ERR_STREAM_DATA_BLOCKED in write_record).
NothingForgotten ==
  \A e \in Ends : \A s \in app[e].open \cap conn[e].live :
    /\ app[e].left[s] > 0 /\ "SHUT_WR" \notin conn[e].strm[s].flags
    /\ conn[e].strm[s].txOff < conn[e].strm[s].txMax
    => s \in app[e].sendq

\* The client waits for the answer to its early data before it can send more.
AwaitsAnswer(e) == e = 0 /\ ~told /\ app[e].blocked # << >>

\* When an endpoint waits without asking to be woken for writing, it has said
\* all that it can say: no control frame waits, no stream that has credit, and
\* no record that the socket did not take; but for early data, which the answer
\* of the server lets through or makes void (write_data, start_wev, stop_wev).
SleepsDone ==
  \A e \in Ends :
    /\ app[e].phase = "idle" /\ ~app[e].wev /\ CanSend(e) /\ Running(e)
    /\ ~AwaitsAnswer(e)
    =>
      /\ "SENT" \in flags[e] /\ app[e].blocked = << >>
      /\ CtrlFrames(conn[e]) = {} /\ ~HasTurn(Pair(e))

\* Neither an assertion of a codec nor an error of the library ends the
\* connection, and no codec uses a stream that was deleted.
NobodyAsserts == \A e \in Ends : Running(e) /\ ~app[e].failed

\* Every request is answered, those that were sent as early data and rejected
\* included: the client's streams all close (Client::on_stream_close, should_exit).
AllAnswered == <>[](Dangling \/ app[0].closed = NStreams)
=============================================================================
