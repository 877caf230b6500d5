------------------------------ MODULE ConnRead ------------------------------
(***************************************************************************)
(* What dwnx_conn_read does with each frame of lib/dwnx_conn.c.  A handler *)
(* XError(c, f) is the error code of the first check that fails ("NONE"    *)
(* when none does) and RecvX(c, f) the connection after the frame.  After  *)
(* an error the application must close the connection: only err is set.    *)
(***************************************************************************)
EXTENDS Conn

\* Mutant: one stream too many is let through.
StreamIdErrorOffByOne(c, s, side) ==
  LET exists == IF side = "recv" THEN CanRead(c, s) ELSE CanWrite(c, s) IN
  IF ~exists THEN "STREAM_STATE"
  ELSE IF LocalStream(c, s)
    THEN IF c.next[Dir(s)] <= s THEN "STREAM_STATE" ELSE "NONE"
    ELSE IF c.rxStreams[Dir(s)] + 1 < OrdStreamId(s) THEN "STREAM_LIMIT" ELSE "NONE"

\* The checks on a stream id that the handlers share: the side the frame is
\* about ("recv": what the peer sends on the stream, "send": what the local
\* endpoint sends on it) must exist, a local stream must have been opened,
\* and a remote one must be within the advertised stream limit.
StreamIdError(c, s, side) ==
  LET exists == IF side = "recv" THEN CanRead(c, s) ELSE CanWrite(c, s) IN
  IF ~exists THEN "STREAM_STATE"
  ELSE IF LocalStream(c, s)
    THEN IF c.next[Dir(s)] <= s THEN "STREAM_STATE" ELSE "NONE"
    ELSE IF c.rxStreams[Dir(s)] < OrdStreamId(s) THEN "STREAM_LIMIT" ELSE "NONE"

-----------------------------------------------------------------------------
(* STREAM                                                                  *)

RecvStreamError(c, f) ==
  LET idError == StreamIdError(c, f.id, "recv")
      x == FindOrOpen(c, f.id).strm[f.id]
      end == f.off + f.len
  IN
  IF idError # "NONE" THEN idError
  ELSE IF MaxVarint - f.len < f.off THEN "FLOW_CONTROL"
  ELSE IF Closed(c, f.id) THEN "PROTO"
  ELSE IF "SHUT_RD" \in x.flags \/ x.rxLast # f.off THEN "PROTO"
  ELSE IF x.rxMax < end \/ c.rxMax - c.rxOff < f.len THEN "FLOW_CONTROL"
  ELSE "NONE"

\* Mutant: bytes that will be discarded are not charged to the connection.
RecvStreamUncharged(c, f) ==
  LET b == FindOrOpen(c, f.id)
      d == [b EXCEPT
              !.rxOff = IF "STOP_SENDING" \in b.strm[f.id].flags THEN @ ELSE @ + f.len,
              !.strm[f.id].rxLast = f.off + f.len,
              !.rd = IF f.len = 0 THEN Idle
                     ELSE [id |-> f.id, left |-> f.len, fin |-> f.fin]]
  IN
  IF f.len = 0 /\ f.fin
    THEN CloseStreamIfShutRdWr(SetFlags(d, f.id, {"SHUT_RD"}), f.id)
    ELSE d

\* The header of a STREAM frame: its length is charged to both windows at
\* once; the payload then arrives in pieces (RecvStreamData).  The error
\* test is the caller's (Recv).
RecvStream(c, f) ==
  LET d == [FindOrOpen(c, f.id) EXCEPT
              !.rxOff = @ + f.len,
              !.strm[f.id].rxLast = f.off + f.len,
              !.rd = IF f.len = 0 THEN Idle
                     ELSE [id |-> f.id, left |-> f.len, fin |-> f.fin]]
  IN
  IF f.len = 0 /\ f.fin
    THEN CloseStreamIfShutRdWr(SetFlags(d, f.id, {"SHUT_RD"}), f.id)
    ELSE d

Rest(rd, n) == IF n = rd.left THEN Idle ELSE [rd EXCEPT !.left = @ - n]

\* Mutant: the payload is charged a second time when it arrives.
RecvStreamDataTwice(c, n) ==
  LET s == c.rd.id
      d == [c EXCEPT !.rd = Rest(@, n), !.rxOff = @ + n]
  IN
  IF c.rd.fin /\ n = c.rd.left
    THEN CloseStreamIfShutRdWr(SetFlags(d, s, {"SHUT_RD"}), s) ELSE d

\* The next n bytes of the payload.  They reach the application, or, after
\* shutdown_stream_read, are returned to the connection window.
RecvStreamData(c, n) ==
  LET s == c.rd.id
      fin == c.rd.fin /\ n = c.rd.left
      d == [c EXCEPT !.rd = Rest(@, n)]
      e == IF "STOP_SENDING" \in c.strm[s].flags THEN ExtendMaxOffset(d, n) ELSE d
  IN
  IF fin THEN CloseStreamIfShutRdWr(SetFlags(e, s, {"SHUT_RD"}), s) ELSE e

-----------------------------------------------------------------------------
(* RESET_STREAM and STOP_SENDING                                           *)

RecvResetStreamError(c, f) ==
  LET idError == StreamIdError(c, f.id, "recv")
      x == FindOrOpen(c, f.id).strm[f.id]
  IN
  IF idError # "NONE" THEN idError
  ELSE IF Closed(c, f.id) THEN "PROTO"
  ELSE IF "SHUT_RD" \in x.flags THEN "PROTO"
  ELSE IF x.rxLast # f.size THEN "FINAL_SIZE"
  ELSE "NONE"

\* Mutant: the stream is not closed when both sides are shut.
RecvResetStreamLeaky(c, f) ==
  SetFlags(FindOrOpen(c, f.id), f.id, {"SHUT_RD", "RESET_STREAM_RECVED"})

RecvResetStream(c, f) ==
  CloseStreamIfShutRdWr(
    SetFlags(FindOrOpen(c, f.id), f.id, {"SHUT_RD", "RESET_STREAM_RECVED"}), f.id)

RecvStopSendingError(c, f) == StreamIdError(c, f.id, "send")

\* Mutant: the write side is shut without a RESET_STREAM.
RecvStopSendingSilent(c, f) ==
  LET d == FindOrOpen(c, f.id) IN
  IF Closed(c, f.id) \/ "STOP_SENDING_RECVED" \in d.strm[f.id].flags
    THEN DrainGlitch(c)
    ELSE SetFlags(d, f.id, {"SHUT_WR", "STOP_SENDING_RECVED"})

RecvStopSending(c, f) ==
  LET d == FindOrOpen(c, f.id)
      F == d.strm[f.id].flags
      e == IF "SHUT_WR" \in F THEN d ELSE ScheduleReset(d, f.id)
  IN
  IF Closed(c, f.id) \/ "STOP_SENDING_RECVED" \in F THEN DrainGlitch(c)
  ELSE SetFlags(e, f.id, {"SHUT_WR", "STOP_SENDING_RECVED"})

-----------------------------------------------------------------------------
(* Limits                                                                  *)

RecvMaxDataError(c, f) == IF c.txMax >= f.max THEN "PROTO" ELSE "NONE"

RecvMaxData(c, f) == [c EXCEPT !.txMax = f.max]

\* Mutant: a limit for a stream that is gone is an error.
RecvMaxStreamDataErrorStrict(c, f) ==
  LET idError == StreamIdError(c, f.id, "send")
      x == FindOrOpen(c, f.id).strm[f.id]
  IN
  IF idError # "NONE" THEN idError
  ELSE IF Closed(c, f.id) \/ x.txMax >= f.max THEN "PROTO"
  ELSE "NONE"

RecvMaxStreamDataError(c, f) ==
  LET idError == StreamIdError(c, f.id, "send")
      x == FindOrOpen(c, f.id).strm[f.id]
  IN
  IF idError # "NONE" THEN idError
  ELSE IF ~Closed(c, f.id) /\ x.txMax >= f.max THEN "PROTO"
  ELSE "NONE"

\* A limit for a stream that is gone or that sends no more costs a glitch.
RecvMaxStreamData(c, f) ==
  LET d == [FindOrOpen(c, f.id) EXCEPT !.strm[f.id].txMax = f.max] IN
  IF Closed(c, f.id) THEN DrainGlitch(c)
  ELSE IF "SHUT_WR" \in d.strm[f.id].flags THEN DrainGlitch(d)
  ELSE d

RecvMaxStreamsError(c, f) ==
  IF f.max > MaxStreams THEN "FRAME_ENCODING"
  ELSE IF c.txStreams[f.dir] >= f.max THEN "PROTO"
  ELSE "NONE"

RecvMaxStreams(c, f) == [c EXCEPT !.txStreams[f.dir] = f.max]

-----------------------------------------------------------------------------
(* Blocked reports and pings: the reports change nothing                   *)

RecvDataBlockedError(c, f) == IF f.max > c.rxMax THEN "FLOW_CONTROL" ELSE "NONE"

RecvStreamsBlockedError(c, f) ==
  IF f.max > c.rxStreams[f.dir] THEN "STREAM_LIMIT" ELSE "NONE"

RecvStreamDataBlockedError(c, f) ==
  LET idError == StreamIdError(c, f.id, "recv")
      x == c.strm[f.id]
  IN
  IF idError # "NONE" THEN idError
  ELSE IF Closed(c, f.id) THEN "PROTO"
  ELSE IF f.id \notin c.live
    THEN IF f.max # 0 THEN "PROTO" ELSE "NONE"
    ELSE IF "SHUT_RD" \in x.flags \/ x.rxLast # f.max THEN "PROTO" ELSE "NONE"

\* The library sends no requests (tx.ping.last_seq stays -1).
RecvPingError(c, f) ==
  IF f.t = "QX_PING_RESPONSE" \/ c.ping >= f.seq THEN "PROTO" ELSE "NONE"

RecvPing(c, f) ==
  LET d == DrainGlitch(c) IN
  IF d.err # "NONE" THEN d ELSE [d EXCEPT !.ping = f.seq]

-----------------------------------------------------------------------------
(* Dispatch on the frame type                                              *)

RecvError(c, f) ==
  CASE f.t = "STREAM"              -> RecvStreamError(c, f)
    [] f.t = "RESET_STREAM"        -> RecvResetStreamError(c, f)
    [] f.t = "STOP_SENDING"        -> RecvStopSendingError(c, f)
    [] f.t = "MAX_DATA"            -> RecvMaxDataError(c, f)
    [] f.t = "MAX_STREAM_DATA"     -> RecvMaxStreamDataError(c, f)
    [] f.t = "MAX_STREAMS"         -> RecvMaxStreamsError(c, f)
    [] f.t = "DATA_BLOCKED"        -> RecvDataBlockedError(c, f)
    [] f.t = "STREAM_DATA_BLOCKED" -> RecvStreamDataBlockedError(c, f)
    [] f.t = "STREAMS_BLOCKED"     -> RecvStreamsBlockedError(c, f)
    [] f.t \in {"QX_PING_REQUEST", "QX_PING_RESPONSE"} -> RecvPingError(c, f)

RecvAccepted(c, f) ==
  CASE f.t = "STREAM"           -> RecvStream(c, f)
    [] f.t = "RESET_STREAM"     -> RecvResetStream(c, f)
    [] f.t = "STOP_SENDING"     -> RecvStopSending(c, f)
    [] f.t = "MAX_DATA"         -> RecvMaxData(c, f)
    [] f.t = "MAX_STREAM_DATA"  -> RecvMaxStreamData(c, f)
    [] f.t = "MAX_STREAMS"      -> RecvMaxStreams(c, f)
    [] f.t = "QX_PING_REQUEST"  -> RecvPing(c, f)
    [] f.t \in {"DATA_BLOCKED", "STREAM_DATA_BLOCKED", "STREAMS_BLOCKED"} -> c

Recv(c, f) ==
  LET e == RecvError(c, f) IN
  IF e = "NONE" THEN RecvAccepted(c, f) ELSE Fail(c, e)

=============================================================================
