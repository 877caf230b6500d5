-------------------------------- MODULE Qmux --------------------------------
(***************************************************************************)
(* QMux endpoints at work.  Ends = {0, 1} composes a client and a server   *)
(* over a reliable byte stream: wire[e] holds the frames that endpoint e   *)
(* has yet to read, in batches whose frames come in the order Before of    *)
(* ConnWrite.  When Ends has a single member, that endpoint faces an       *)
(* arbitrary peer, which sends any frame of PeerFrames.                    *)
(*                                                                         *)
(* Each endpoint is single threaded: one action is one call of the         *)
(* library by its application, from dwnx.h.  dwnx_conn_read is cut where   *)
(* its input may be cut: after a frame, or inside the payload of a STREAM  *)
(* frame.                                                                  *)
(***************************************************************************)
EXTENDS ConnRead, ConnWrite

CONSTANTS
  Ends,        \* the endpoints that run the library
  PeerFrames,  \* bound: the frames an arbitrary peer sends
  WireCap,     \* bound: an endpoint writes while fewer batches are in flight
  MaxWrite,    \* bound: most bytes offered in one call
  MaxExtend,   \* bound: largest single window extension
  Calls        \* bound: what applications do, a subset of AllCalls

ASSUME EndsAssumption == Ends \subseteq Role
ASSUME BoundsAssumption == WireCap \in Nat /\ MaxWrite \in Nat /\ MaxExtend \in Nat

\* "more": a record stays open for another call; "split": records of any
\* capacity (otherwise every record has room for all that is offered); the
\* others are calls of dwnx.h.
AllCalls == {"more", "split", "shutdown", "shutdown_read", "shutdown_write",
             "extend_stream", "extend_conn", "extend_streams"}

ASSUME CallsAssumption == Calls \subseteq AllCalls
ASSUME PeerFramesAssumption == PeerFrames \subseteq PeerFrame

VARIABLES
  conn,    \* conn[e]: the dwnx_conn of endpoint e
  wire     \* wire[e]: frames on their way to endpoint e

vars == <<conn, wire>>

Peer(e) == 1 - e

Init ==
  /\ conn = [e \in Ends |-> NewConn(e)]
  /\ wire = [e \in Ends |-> << >>]

\* A connection that has failed is only closed.
Running(e) == conn[e].err = "NONE"

-----------------------------------------------------------------------------
(* dwnx_conn_read                                                          *)

\* The first of the frames of a batch.
Foremost(F) == {f \in F : \A g \in F \ {f} : ~Before(g, f)}

Incoming(e) ==
  IF Peer(e) \notin Ends THEN PeerFrames
  ELSE IF wire[e] = << >> THEN {} ELSE Foremost(Head(wire[e]))

\* The wire after its first frame f has been read.
After(w, f) ==
  IF Head(w) = {f} THEN Tail(w) ELSE [w EXCEPT ![1] = @ \ {f}]

\* The next frame is read, unless payload of the last one is missing.
Read(e, type) ==
  /\ Running(e)
  /\ conn[e].rd = Idle
  /\ \E f \in Incoming(e) :
       /\ f.t \in type
       /\ conn' = [conn EXCEPT ![e] = Recv(@, f)]
       /\ wire' = IF Peer(e) \in Ends THEN [wire EXCEPT ![e] = After(@, f)] ELSE wire

ReadStream(e)      == Read(e, {"STREAM"})
ReadResetStream(e) == Read(e, {"RESET_STREAM"})
ReadStopSending(e) == Read(e, {"STOP_SENDING"})
ReadLimit(e)       == Read(e, {"MAX_DATA", "MAX_STREAM_DATA", "MAX_STREAMS"})
ReadBlocked(e) ==
  Read(e, {"DATA_BLOCKED", "STREAM_DATA_BLOCKED", "STREAMS_BLOCKED"})
ReadPing(e)        == Read(e, {"QX_PING_REQUEST", "QX_PING_RESPONSE"})

ReadStreamData(e) ==
  /\ Running(e)
  /\ \E n \in 1..conn[e].rd.left :
       conn' = [conn EXCEPT ![e] = RecvStreamData(@, n)]
  /\ UNCHANGED wire

\* Time passes: the glitch rate limiter gains a token.
Refill(e) ==
  /\ Running(e) /\ conn[e].glitch < GlitchBurst
  /\ conn' = [conn EXCEPT ![e].glitch = @ + 1]
  /\ UNCHANGED wire

-----------------------------------------------------------------------------
(* Calls that write nothing                                                *)

Open(e, d) ==
  /\ Running(e)
  /\ conn[e].next[d] \in StreamIds
  /\ StreamsLeft(conn[e], d)
  /\ conn' = [conn EXCEPT ![e] = OpenStream(@, d)]
  /\ UNCHANGED wire

Shutdown(e, s) ==
  /\ Running(e) /\ "shutdown" \in Calls
  /\ conn' = [conn EXCEPT ![e] = ShutdownStream(@, s)]
  /\ UNCHANGED wire

ShutdownRead(e, s) ==
  /\ Running(e) /\ "shutdown_read" \in Calls
  /\ CanRead(conn[e], s)
  /\ conn' = [conn EXCEPT ![e] = ShutdownStreamRead(@, s)]
  /\ UNCHANGED wire

ShutdownWrite(e, s) ==
  /\ Running(e) /\ "shutdown_write" \in Calls
  /\ CanWrite(conn[e], s)
  /\ conn' = [conn EXCEPT ![e] = ShutdownStreamWrite(@, s)]
  /\ UNCHANGED wire

ExtendStream(e, s, n) ==
  /\ Running(e) /\ "extend_stream" \in Calls
  /\ CanRead(conn[e], s)
  /\ conn' = [conn EXCEPT ![e] = ExtendMaxStreamOffset(@, s, n)]
  /\ UNCHANGED wire

ExtendConn(e, n) ==
  /\ Running(e) /\ "extend_conn" \in Calls
  /\ conn' = [conn EXCEPT ![e] = ExtendMaxOffset(@, n)]
  /\ UNCHANGED wire

ExtendStreams(e, d) ==
  /\ Running(e) /\ "extend_streams" \in Calls
  /\ conn' = [conn EXCEPT ![e] = ExtendMaxStreams(@, d, 1)]
  /\ UNCHANGED wire

-----------------------------------------------------------------------------
(* dwnx_conn_write_vmsg                                                    *)

CanStartWrite(e) ==
  /\ Running(e)
  /\ Peer(e) \in Ends => Len(wire[Peer(e)]) < WireCap

\* The prefixes of a set of waiting frames that the record may have room for.
Fits(F) == IF "split" \in Calls THEN FrontsOf(F) ELSE {F}

\* The control frames that fit in a new record; none are written when a record
\* is already under construction.
CtrlFits(c) == IF c.qre.started THEN {{}} ELSE Fits(CtrlFrames(c))

Started(c, out) == IF c.qre.started THEN c ELSE WriteCtrlFrames(c, out)

\* The control frames all fitted: the caller's data gets its turn.
ReachesData(c, out) == c.qre.started \/ out = CtrlFrames(c)

\* write_max_streams is tried again before the record is closed; it fits
\* nothing when a MAX_STREAMS frame is what did not fit before.
LastFits(c, out) ==
  IF ~c.qre.started /\ CtrlFrames(c) \ MaxStreamsFrames(c) \subseteq out THEN {{}}
  ELSE Fits(MaxStreamsFrames(c))

KeepOpen(e, c) ==
  /\ "more" \in Calls
  /\ conn' = [conn EXCEPT ![e] = c]
  /\ UNCHANGED wire

Finish(e, c, out) ==
  LET d == WriteMaxStreams(c, out) IN
  /\ conn' = [conn EXCEPT ![e] = FinishRecord(d)]
  /\ wire' = IF Peer(e) \in Ends
               THEN [wire EXCEPT ![Peer(e)] = @ \o d.qre.frames] ELSE wire

\* dwnx_conn_write_record, or a write_stream whose data does not fit.
WriteRecord(e) ==
  /\ CanStartWrite(e)
  /\ \E out \in CtrlFits(conn[e]) : \E last \in LastFits(conn[e], out) :
       Finish(e, Started(conn[e], out), last)

\* Stream data that flow control lets through, in whole or in part, and that
\* fits in the record in whole or in part; then either there is room left
\* (DWNX_ERR_WRITE_MORE) or the record is complete.
WriteStream(e, s, len, fin) ==
  /\ CanStartWrite(e)
  /\ MayWrite(conn[e], s, len, fin)
  /\ \E out \in CtrlFits(conn[e]) :
       LET c == Started(conn[e], out)
           credits == Lesser(len, FcCredits(c, s))
       IN
       /\ ReachesData(conn[e], out)
       /\ \E w \in IF "split" \in Calls THEN 0..credits ELSE {credits} :
            /\ w = 0 => len = 0
            /\ LET d == WriteData(c, s, len, w, fin) IN
               IF credits = len
                 THEN KeepOpen(e, d) \/ Finish(e, d, {})
                 ELSE \E reports \in Fits(BlockedReports(d, s)) :
                        LET b == ReportBlocked(d, s, reports) IN
                        KeepOpen(e, b) \/ Finish(e, b, {})

\* Flow control lets nothing through: the record stays open, with
\* DWNX_ERR_STREAM_DATA_BLOCKED, or DWNX_ERR_WRITE_MORE when it is the
\* connection that is blocked, or is complete when it has no room left.
WriteBlockedStream(e, s, len) ==
  /\ CanStartWrite(e)
  /\ MayWrite(conn[e], s, len, FALSE)
  /\ len > 0
  /\ \E out \in CtrlFits(conn[e]) :
       LET c == Started(conn[e], out) IN
       /\ ReachesData(conn[e], out)
       /\ FcCredits(c, s) = 0
       /\ \E reports \in Fits(BlockedReports(c, s)) :
            LET d == ReportBlocked(c, s, reports) IN
            \/ KeepOpen(e, d)
            \/ c.strm[s].txOff < c.strm[s].txMax /\ Finish(e, d, {})

-----------------------------------------------------------------------------

ReadStep(e) ==
  \/ ReadStream(e) \/ ReadStreamData(e) \/ ReadResetStream(e)
  \/ ReadStopSending(e) \/ ReadLimit(e) \/ ReadBlocked(e) \/ ReadPing(e)

WriteStep(e) ==
  \/ WriteRecord(e)
  \/ \E s \in StreamIds :
       \/ \E len \in 0..MaxWrite, fin \in BOOLEAN : WriteStream(e, s, len, fin)
       \/ \E len \in 1..MaxWrite : WriteBlockedStream(e, s, len)

AppStep(e) ==
  \/ \E d \in Direction : Open(e, d) \/ ExtendStreams(e, d)
  \/ \E s \in StreamIds :
       \/ Shutdown(e, s) \/ ShutdownRead(e, s) \/ ShutdownWrite(e, s)
       \/ \E n \in 1..MaxExtend : ExtendStream(e, s, n)
  \/ \E n \in 1..MaxExtend : ExtendConn(e, n)

Next == \E e \in Ends : ReadStep(e) \/ WriteStep(e) \/ AppStep(e) \/ Refill(e)

Spec == Init /\ [][Next]_vars

-----------------------------------------------------------------------------
(* Types                                                                   *)

\* Every field keeps its type; in particular no offset or limit leaves the
\* range of a QUIC varint, whatever the peer sends (lib/dwnx_conn.c).
TypeOK ==
  /\ conn \in [Ends -> ConnType]
  /\ wire \in [Ends -> Seq(SUBSET Frame)]

-----------------------------------------------------------------------------
(* Safety of one endpoint, whatever its peer sends                         *)

\* No window is overrun: the subtractions of conn_fc_credits,
\* conn_max_data_violated and strm_should_send_max_stream_data never wrap,
\* and the assertions offset == max_offset of the blocked reports hold.
WithinCredit(c) ==
  /\ c.txOff <= c.txMax
  /\ c.rxOff <= c.rxMax /\ c.rxMax <= c.rxUnsent
  /\ \A s \in c.live : LET x == c.strm[s] IN
       /\ x.txOff <= x.txMax
       /\ x.rxLast <= x.rxMax /\ x.rxMax <= x.rxUnsent

CreditOK == \A e \in Ends : WithinCredit(conn[e])

\* A stream with something to tell the peer is in the transmission queue, so
\* the next record picks it up, even after a record ran out of room in the
\* middle of the queue (DWNX_ERR_NOBUF in dwnx_conn_write_ctrl_frames); and
\* the queue holds no stream that was freed.
Pending(c, s) ==
  \/ c.strm[s].flags \cap {"SEND_RESET_STREAM", "SEND_STOP_SENDING",
                           "SEND_STREAM_DATA_BLOCKED"} # {}
  \/ NeedsCredit(c, s)

QueueComplete(c) ==
  /\ c.strmq \subseteq c.live
  /\ \A s \in c.live : Pending(c, s) => s \in c.strmq

QueueOK == \A e \in Ends : QueueComplete(conn[e])

\* A stream is freed by the call that finishes its second side, never later:
\* no stream stays in the map with both sides shut and nothing to send
\* (dwnx_conn_close_stream_if_shut_rdwr).
NoZombie ==
  \A e \in Ends : \A s \in conn[e].live : ~ShouldCloseStream(conn[e].strm[s])

\* While the payload of a STREAM frame is arriving, its stream exists and its
\* read side is open, whatever the application does in between: the
\* assert(strm) of dwnx_conn_read.
PayloadOpen(c) ==
  c.rd # Idle => /\ c.rd.id \in c.live
                 /\ "SHUT_RD" \notin c.strm[c.rd.id].flags
                 /\ c.rd.left <= c.strm[c.rd.id].rxLast

PayloadOK == \A e \in Ends : PayloadOpen(conn[e])

\* The streams in the map are those that the limits allowed either side to
\* open (dwnx_conn_open_bidi_stream, the STREAM_LIMIT checks of the handlers).
Used(c, s) == IF LocalStream(c, s) THEN s < c.next[Dir(s)] ELSE s \in c.idtr

WithinStreamLimits(c) ==
  /\ \A s \in c.idtr : OrdStreamId(s) <= c.rxStreams[Dir(s)]
  /\ \A s \in c.live : Used(c, s)
  /\ \A d \in Direction : /\ OrdStreamId(c.next[d]) <= c.txStreams[d] + 1
                          /\ c.rxStreams[d] <= c.rxUnsentStreams[d]

StreamLimitOK == \A e \in Ends : WithinStreamLimits(conn[e])

\* A stream that was closed is never opened again: late frames do not
\* resurrect it (dwnx_idtr_open), and local ids are not reused.
NoReopen ==
  [][\A e \in Ends : \A s \in StreamIds \ conn[e].live :
       Used(conn[e], s) => s \notin conn'[e].live]_vars
=============================================================================
