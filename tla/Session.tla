------------------------------- MODULE Session -------------------------------
(***************************************************************************)
(* From the first call to the exchange of transport parameters: the two    *)
(* endpoints of QmuxPair start without knowing each other's limits.  The   *)
(* transport parameters are the first frame that each sends.  A client     *)
(* that remembers the server's parameters of an earlier connection works   *)
(* with them and sends early data until TLS tells whether the server took  *)
(* it (dwnx_conn_set_0rtt_remote_transport_params,                         *)
(* dwnx_conn_tls_early_data_rejected).                                     *)
(*                                                                         *)
(* Every record has room for what is offered and is complete before TLS is *)
(* called again, as the programmers' guide asks for.  The size of          *)
(* datagrams, one of the seven remembered limits, limits no stream and is  *)
(* left out.                                                               *)
(***************************************************************************)
EXTENDS QmuxPair

CONSTANT Remembered  \* the server's parameters in earlier connections

ASSUME RememberedAssumption == Remembered \subseteq ParamsType

VARIABLES
  flags,   \* flags[e]: DWNX_CONN_FLAG_*
  early,   \* the parameters the client remembers
  tls,     \* what the server did with early data: "hello" while undecided
  told     \* the client's TLS stack has seen the server's answer

sessionVars == <<conn, wire, flags, early, tls, told>>

ConnFlag == {"SEEN", "SENT", "EARLY_SET", "REJECTED"}

ParamsFr == [t |-> "QX_TRANSPORT_PARAMETERS"]

-----------------------------------------------------------------------------
(* The connection before and after transport parameters                    *)

NoStreams == [d \in Direction |-> 0]

\* conn_new: the peer's limits are zero until it announces them.
Fresh(r) == [NewConn(r) EXCEPT !.txMax = 0, !.txStreams = NoStreams]

SessionInit ==
  /\ conn = [e \in Ends |-> Fresh(e)]
  /\ wire = [e \in Ends |-> << >>]
  /\ flags = [e \in Ends |-> {}]
  /\ early \in Remembered
  /\ tls = "hello"
  /\ told = FALSE

WithLimits(c, p) == [c EXCEPT !.txMax = p.maxData, !.txStreams = p.streams]

\* The window of a stream that the client opens under parameters p.
StreamWindow(p, s) == IF BidiStream(s) THEN p.bidiRemote ELSE p.uniData

\* Mutant: only bidirectional streams are raised.
RaisedBidi(c, p) ==
  [c EXCEPT !.strm = [s \in StreamIds |->
     IF s \in c.live /\ BidiStream(s) /\ c.strm[s].txMax < StreamWindow(p, s)
       THEN [c.strm[s] EXCEPT !.txMax = StreamWindow(p, s)] ELSE c.strm[s]]]

\* set_max_stream_offset for every stream: those of early data get the window
\* that the server announces now.
Raised(c, p) ==
  [c EXCEPT !.strm = [s \in StreamIds |->
     IF s \in c.live /\ c.strm[s].txMax < StreamWindow(p, s)
       THEN [c.strm[s] EXCEPT !.txMax = StreamWindow(p, s)] ELSE c.strm[s]]]

\* Mutant: the limit on the connection is not compared.
KeepsPromiseOfStreams(p, q) ==
  /\ p.bidiLocal <= q.bidiLocal
  /\ p.bidiRemote <= q.bidiRemote /\ p.uniData <= q.uniData
  /\ \A d \in Direction : p.streams[d] <= q.streams[d]

\* No limit of q is below what was remembered of p.
KeepsPromise(p, q) ==
  /\ p.maxData <= q.maxData /\ p.bidiLocal <= q.bidiLocal
  /\ p.bidiRemote <= q.bidiRemote /\ p.uniData <= q.uniData
  /\ \A d \in Direction : p.streams[d] <= q.streams[d]

\* conn_recv_transport_params, when they decode.
RecvTransportParams(e, c) ==
  LET p == Params[Peer(e)] IN
  IF "EARLY_SET" \in flags[e] /\ ~KeepsPromise(early, p) THEN Fail(c, "PROTO")
  ELSE IF e = 0 THEN Raised(WithLimits(c, p), p) ELSE WithLimits(c, p)

\* Mutant: stream ids are not given back.
DiscardKeepsIds(c) ==
  [c EXCEPT !.live = {}, !.strmq = {}, !.strm = NewConn(c.role).strm,
            !.txStreams = NoStreams, !.txOff = 0, !.txMax = 0, !.txBlocked = NoBlocked,
            !.rxUnsent = Params[c.role].maxData, !.rxMax = Params[c.role].maxData,
            !.rxUnsentStreams = Params[c.role].streams, !.rxStreams = Params[c.role].streams]

\* dwnx_conn_discard_early_data_state
Discard(c) ==
  [c EXCEPT !.live = {}, !.strmq = {}, !.strm = NewConn(c.role).strm,
            !.txStreams = NoStreams, !.txOff = 0, !.txMax = 0, !.txBlocked = NoBlocked,
            !.rxUnsent = Params[c.role].maxData, !.rxMax = Params[c.role].maxData,
            !.rxUnsentStreams = Params[c.role].streams, !.rxStreams = Params[c.role].streams,
            !.next = [d \in Direction |-> FirstStreamId(c.role, d)]]

-----------------------------------------------------------------------------
(* TLS, as the calls of the library see it                                 *)

\* The client loads a ticket and the parameters stored with it.
SetEarlyParams ==
  /\ tls = "hello" /\ flags[0] = {}
  /\ conn' = [conn EXCEPT ![0] = WithLimits(@, early)]
  /\ flags' = [flags EXCEPT ![0] = @ \cup {"EARLY_SET"}]
  /\ UNCHANGED <<wire, early, tls, told>>

\* The server answers.  It cannot take early data of a client without ticket.
Answer ==
  /\ tls = "hello"
  /\ tls' \in {"rejected"} \cup {a \in {"accepted"} : "EARLY_SET" \in flags[0]}
  /\ UNCHANGED <<conn, wire, flags, early, told>>

\* The client completes the handshake.  If its early data was rejected the
\* server has skipped it.
Told ==
  /\ tls # "hello" /\ ~told
  /\ told' = TRUE
  /\ IF tls = "rejected"
       THEN /\ conn' = [conn EXCEPT ![0] = Discard(@)]
            /\ flags' = [flags EXCEPT ![0] = (@ \ {"EARLY_SET", "SENT"}) \cup {"REJECTED"}]
            /\ wire' = [wire EXCEPT ![1] = << >>]
       ELSE UNCHANGED <<conn, wire, flags>>
  /\ UNCHANGED <<early, tls>>

\* Application data can be written, and read, through TLS.
CanSend(e) == IF e = 0 THEN told \/ "EARLY_SET" \in flags[0] ELSE tls # "hello"

CanReceive(e) == told \/ (e = 1 /\ tls = "accepted")

-----------------------------------------------------------------------------
(* dwnx_conn_read                                                          *)

\* Transport parameters come first, and once.
ReadFirst(e) ==
  /\ Running(e) /\ CanReceive(e)
  /\ wire[e] # << >>
  /\ "SEEN" \notin flags[e] \/ Head(wire[e]) = {ParamsFr}
  /\ conn' = [conn EXCEPT ![e] =
       IF "SEEN" \notin flags[e] /\ Head(wire[e]) = {ParamsFr}
         THEN RecvTransportParams(e, @) ELSE Fail(@, "PROTO")]
  /\ flags' = [flags EXCEPT ![e] = @ \cup {"SEEN"}]
  /\ wire' = [wire EXCEPT ![e] = Tail(@)]
  /\ UNCHANGED <<early, tls, told>>

\* Any other frame, and the payload of a STREAM frame.
ReadNext(e) ==
  /\ CanReceive(e) /\ "SEEN" \in flags[e]
  /\ ReadStep(e)
  /\ UNCHANGED <<flags, early, tls, told>>

-----------------------------------------------------------------------------
(* Calls that write nothing                                                *)

\* dwnx_conn_open_bidi_stream and open_uni_stream; create_stream takes the
\* window from the parameters p that are known of the server.
OpenUnder(c, d, p) ==
  LET s == c.next[d] IN [OpenStream(c, d) EXCEPT !.strm[s].txMax = StreamWindow(p, s)]

RemoteParams(e) == IF "SEEN" \in flags[e] THEN Params[Peer(e)] ELSE early

OpenLocal(e, d) ==
  /\ Running(e) /\ conn[e].next[d] \in StreamIds /\ StreamsLeft(conn[e], d)
  /\ conn' = [conn EXCEPT ![e] = OpenUnder(@, d, RemoteParams(e))]
  /\ UNCHANGED <<wire, flags, early, tls, told>>

\* Shutting down streams and extending windows.  Bound: by the client, until it
\* is told; what such calls do later does not depend on how the session began.
EarlyCall(e) ==
  /\ e = 0 /\ ~told
  /\ \/ \E s \in StreamIds : ShutdownWrite(e, s)
     \/ \E n \in 1..MaxExtend : ExtendConn(e, n)
     \/ \E d \in Direction : ExtendStreams(e, d)
  /\ UNCHANGED <<flags, early, tls, told>>

-----------------------------------------------------------------------------
(* dwnx_conn_write_vmsg                                                    *)

\* Mutant: transport parameters are written at the end of the record.
ParamsLast(e, frames) ==
  IF "SENT" \in flags[e] THEN frames ELSE frames \o <<{ParamsFr}>>

\* The first record begins with the transport parameters.
ParamsFirst(e, frames) ==
  IF "SENT" \in flags[e] THEN frames ELSE <<{ParamsFr}>> \o frames

MayStart(e) == CanStartWrite(e) /\ CanSend(e)

\* The record in c is finished and handed to TLS.
Transmit(e, c) ==
  /\ conn' = [conn EXCEPT ![e] = FinishRecord(c)]
  /\ wire' = [wire EXCEPT ![Peer(e)] = @ \o ParamsFirst(e, c.qre.frames)]
  /\ flags' = [flags EXCEPT ![e] = @ \cup {"SENT"}]
  /\ UNCHANGED <<early, tls, told>>

WithCtrl(c) == WriteCtrlFrames(c, CtrlFrames(c))

WriteControl(e) == MayStart(e) /\ Transmit(e, WithCtrl(conn[e]))

\* As much data as flow control allows; what it does not is reported.
WithData(c, s, len, fin) ==
  LET w == Lesser(len, FcCredits(c, s))
      d == WriteData(c, s, len, w, fin)
  IN  IF w = len THEN d
      ELSE IF w = 0 THEN ReportBlocked(c, s, BlockedReports(c, s))
      ELSE ReportBlocked(d, s, BlockedReports(d, s))

WriteLocal(e, s, len, fin) ==
  /\ MayStart(e) /\ MayWrite(conn[e], s, len, fin)
  /\ Transmit(e, WithData(WithCtrl(conn[e]), s, len, fin))

-----------------------------------------------------------------------------

SessionNext ==
  \/ SetEarlyParams \/ Answer \/ Told
  \/ \E e \in Ends :
       \/ ReadFirst(e) \/ ReadNext(e)
       \/ \E d \in Direction : OpenLocal(e, d)
       \/ EarlyCall(e)
       \/ WriteControl(e)
       \/ \E s \in StreamIds, len \in 0..MaxWrite, fin \in BOOLEAN : WriteLocal(e, s, len, fin)

SessionSpec == SessionInit /\ [][SessionNext]_sessionVars

-----------------------------------------------------------------------------
(* Properties                                                              *)

\* The server announces no less than what the client remembers.
Promised == KeepsPromise(early, Params[1])

\* A server that announces no less than it did before and a client fail each
\* other in no interleaving of early data, its rejection and the handshake:
\* the parameters come first and once, and every frame is within limits that
\* its sender may work with (conn_recv_transport_params, dwnx_conn_write_vmsg).
NobodyFails == Promised => NoConnectionError

\* Neither endpoint sends more than the limits it works with allow, also when
\* the limits of early data give way to those of the server
\* (tx.offset against tx.max_offset; conn_fc_credits).
EarlyCredit ==
  \A e \in Ends : conn[e].err = "NONE" =>
    /\ conn[e].txOff <= conn[e].txMax
    /\ \A s \in conn[e].live : conn[e].strm[s].txOff <= conn[e].strm[s].txMax
    /\ \A d \in Direction : conn[e].next[d] <= 4 * conn[e].txStreams[d] + FirstStreamId(e, d)

\* Bytes of early data are counted by both sides or by neither, and each side
\* comes to work with the limits that the other announced, on streams that
\* were opened before as well as after that (QmuxPair!BytesConserved,
\* QmuxPair!LimitsAgree; set_max_stream_offset, dwnx_conn_discard_early_data_state).
EarlyAgreement ==
  NoConnectionError =>
    /\ BytesConserved
    /\ (\A e \in Ends : "SEEN" \in flags[e]) => LimitsAgree

\* Rejection leaves nothing behind: the connection is as after
\* dwnx_conn_client_new, and transport parameters are due again
\* (dwnx_conn_discard_early_data_state resets field by field).
RejectionForgets ==
  [][told' /\ ~told /\ tls = "rejected" =>
       conn'[0] = Fresh(0) /\ flags'[0] = {"REJECTED"}]_sessionVars
=============================================================================
