----------------------------- MODULE ConnWrite ------------------------------
(***************************************************************************)
(* The writing half of lib/dwnx_conn.c: the calls of the application that  *)
(* open and shut down streams, and dwnx_conn_write_vmsg, which builds a    *)
(* record out of control frames and stream data.                           *)
(*                                                                         *)
(* The buffer has room for some of the frames that wait to be written: a   *)
(* writer emits them in order and stops at the first that does not fit     *)
(* (DWNX_ERR_NOBUF).  Which one that is, is a parameter of the operators:  *)
(* out, the set of frames written, is a prefix of those waiting.           *)
(***************************************************************************)
EXTENDS Conn

-----------------------------------------------------------------------------
(* Opening and shutting down streams                                       *)

StreamsLeft(c, d) == c.txStreams[d] >= OrdStreamId(c.next[d])

OpenStream(c, d) ==
  [CreateStream(c, c.next[d]) EXCEPT !.next[d] = @ + 4]

ShutdownStreamWrite(c, s) ==
  IF s \notin c.live \/ "SHUT_WR" \in c.strm[s].flags THEN c
  ELSE ScheduleReset(SetFlags(c, s, {"SHUT_WR"}), s)

\* Mutant: the read side is shut at once.
ShutdownStreamReadNow(c, s) ==
  IF s \notin c.live \/ c.strm[s].flags \cap {"STOP_SENDING", "SHUT_RD"} # {} THEN c
  ELSE ScheduleStopSending(SetFlags(c, s, {"STOP_SENDING", "SHUT_RD"}), s)

ShutdownStreamRead(c, s) ==
  IF s \notin c.live \/ c.strm[s].flags \cap {"STOP_SENDING", "SHUT_RD"} # {} THEN c
  ELSE ScheduleStopSending(SetFlags(c, s, {"STOP_SENDING"}), s)

ShutdownStream(c, s) ==
  LET d == IF CanRead(c, s) THEN ShutdownStreamRead(c, s) ELSE c IN
  IF CanWrite(c, s) THEN ShutdownStreamWrite(d, s) ELSE d

-----------------------------------------------------------------------------
(* The control frames waiting to be written                                *)

MaxDataFrames(c) ==
  {MaxDataFr(v) : v \in IF ShouldSendMaxData(c) THEN {c.rxUnsent} ELSE {}}

PongFrames(c) == {PongFr(seq) : seq \in IF c.ping > c.pong THEN {c.ping} ELSE {}}

MaxStreamsFrames(c) ==
  {MaxStreamsFr(d, c.rxUnsentStreams[d]) :
     d \in {d \in Direction : c.rxUnsentStreams[d] > c.rxStreams[d]}}

\* The connection, or the stream, is at its limit and has not said so.
DataBlockedFrames(c, s) ==
  {DataBlockedFr(s, v) :
     v \in IF c.txOff >= c.txMax /\ c.txOff # c.txBlocked THEN {c.txOff} ELSE {}}

StreamDataBlockedFrames(c, s) ==
  LET x == c.strm[s] IN
  {StreamDataBlockedFr(s, v) :
     v \in IF x.txOff >= x.txMax /\ x.txOff # x.txBlocked THEN {x.txOff} ELSE {}}

\* What one stream writes on its turn in the loop over the queue.
ResetFrames(c, s) ==
  {ResetStreamFr(s, v) :
     v \in IF "SEND_RESET_STREAM" \in c.strm[s].flags THEN {c.strm[s].txOff} ELSE {}}

StopFrames(c, s) ==
  IF "SEND_STOP_SENDING" \in c.strm[s].flags /\ "SHUT_RD" \notin c.strm[s].flags
    THEN {StopSendingFr(s)} ELSE {}

NeedsCredit(c, s) == /\ c.strm[s].flags \cap {"SHUT_RD", "STOP_SENDING"} = {}
                     /\ ShouldSendMaxStreamData(c, s)

CreditFrames(c, s) ==
  IF NeedsCredit(c, s) THEN {MaxStreamDataFr(s, c.strm[s].rxUnsent)} ELSE {}

\* The streams that must report that they are blocked; the first of them
\* reports for the connection too.
Reporting(c) == {s \in c.strmq : /\ "SEND_STREAM_DATA_BLOCKED" \in c.strm[s].flags
                                 /\ "SHUT_WR" \notin c.strm[s].flags}

BlockedFrames(c, s) ==
  {f \in DataBlockedFrames(c, s) :
     s \in Reporting(c) /\ \A t \in Reporting(c) : s <= t}
  \cup {f \in StreamDataBlockedFrames(c, s) : s \in Reporting(c)}

\* Mutant: the stream is not closed when its RESET_STREAM is written.
ClosesOnResetNever(c, s) == FALSE

\* The stream is closed as soon as its RESET_STREAM is written.
ClosesOnReset(c, s) ==
  {"SEND_RESET_STREAM", "SHUT_RD", "SHUT_WR"} \subseteq c.strm[s].flags

StreamFrames(c, s) ==
  ResetFrames(c, s)
  \cup IF ClosesOnReset(c, s) THEN {}
       ELSE StopFrames(c, s) \cup CreditFrames(c, s) \cup BlockedFrames(c, s)

HeadFrames(c) == MaxDataFrames(c) \cup PongFrames(c)

QueueFrames(c) == UNION {StreamFrames(c, s) : s \in c.strmq}

CtrlFrames(c) == HeadFrames(c) \cup QueueFrames(c) \cup MaxStreamsFrames(c)

\* The order in which they are written.  The queue is a heap ordered by
\* (cycle, stream_id), and cycle is always 0.
Place(f) ==
  CASE f.t = "MAX_DATA"            -> <<0, 0, 0>>
    [] f.t = "QX_PING_RESPONSE"    -> <<0, 0, 1>>
    [] f.t = "RESET_STREAM"        -> <<1, f.id, 0>>
    [] f.t = "STOP_SENDING"        -> <<1, f.id, 1>>
    [] f.t = "MAX_STREAM_DATA"     -> <<1, f.id, 2>>
    [] f.t = "DATA_BLOCKED"        -> <<1, f.id, 3>>
    [] f.t = "STREAM_DATA_BLOCKED" -> <<1, f.id, 4>>
    [] f.t = "MAX_STREAMS"         -> <<2, IF f.dir = "bidi" THEN 0 ELSE 1, 0>>

Before(f, g) ==
  LET p == Place(f)  q == Place(g) IN
  \/ p[1] < q[1]
  \/ p[1] = q[1] /\ p[2] < q[2]
  \/ p[1] = q[1] /\ p[2] = q[2] /\ p[3] < q[3]

\* The sets of frames that a buffer may have room for: the first ones.
FrontsOf(F) == {F} \cup {{g \in F : Before(g, f)} : f \in F}

\* The frames of F, which are in the order Before, are added to the record.
Batch(frames, F) == IF F = {} THEN frames ELSE Append(frames, F)

-----------------------------------------------------------------------------
(* dwnx_conn_write_ctrl_frames, when out is what fits                      *)

\* The loop over the queue comes to stream s.
Reached(c, s, out) ==
  /\ HeadFrames(c) \subseteq out
  /\ \A t \in c.strmq : t < s => StreamFrames(c, t) \subseteq out

\* Mutant: a stream leaves the queue when its turn begins.
PoppedEarly(c, out) == {s \in c.strmq : Reached(c, s, out)}

\* The streams that leave the queue: all they had to say was written.
Popped(c, out) == {s \in c.strmq : Reached(c, s, out) /\ StreamFrames(c, s) \subseteq out}

\* The flags of stream s that its turn clears.  SEND_STOP_SENDING is cleared
\* also when the frame became pointless.
Cleared(c, s, out) ==
  {F \in {"SEND_RESET_STREAM"} : ResetFrames(c, s) \subseteq out /\ Reached(c, s, out)}
  \cup {F \in {"SEND_STOP_SENDING"} : /\ ResetFrames(c, s) \cup StopFrames(c, s) \subseteq out
                                       /\ Reached(c, s, out)}
  \cup {F \in {"SEND_STREAM_DATA_BLOCKED"} : s \in Popped(c, out)}

\* Mutant: the limit is recorded whether or not it was sent.
AfterTurnUnsent(c, s, out) ==
  LET x == c.strm[s] IN
  [x EXCEPT !.flags = @ \ Cleared(c, s, out), !.rxMax = x.rxUnsent,
            !.txBlocked = IF StreamDataBlockedFrames(c, s) \cap out # {}
                            THEN x.txOff ELSE @]

\* Stream s after its turn: a limit and a blocked offset are recorded if sent.
AfterTurn(c, s, out) ==
  LET x == c.strm[s] IN
  [x EXCEPT !.flags = @ \ Cleared(c, s, out),
            !.rxMax = IF CreditFrames(c, s) \cap out # {} THEN x.rxUnsent ELSE @,
            !.txBlocked = IF StreamDataBlockedFrames(c, s) \cap out # {}
                            THEN x.txOff ELSE @]

WriteCtrlFrames(c, out) ==
  LET Freed == {s \in Popped(c, out) : ClosesOnReset(c, s)} IN
  [c EXCEPT
     !.live  = @ \ Freed,
     !.strmq = @ \ Popped(c, out),
     !.strm  = [s \in StreamIds |->
                  IF s \in Freed THEN NewStrm(c.role, s)
                  ELSE IF s \in c.strmq THEN AfterTurn(c, s, out) ELSE c.strm[s]],
     !.rxMax = IF MaxDataFrames(c) \cap out # {} THEN c.rxUnsent ELSE @,
     !.pong  = IF PongFrames(c) \cap out # {} THEN c.ping ELSE @,
     !.txBlocked = IF \E s \in c.strmq : DataBlockedFrames(c, s) \cap out # {}
                     THEN c.txOff ELSE @,
     !.rxStreams = [d \in Direction |->
                      IF MaxStreamsFr(d, c.rxUnsentStreams[d]) \in out
                        THEN c.rxUnsentStreams[d] ELSE c.rxStreams[d]],
     !.qre = [started |-> TRUE, frames |-> Batch(<< >>, out)]]

\* dwnx_conn_write_max_streams, when out is what fits.
WriteMaxStreams(c, out) ==
  [c EXCEPT !.rxStreams = [d \in Direction |->
                             IF MaxStreamsFr(d, c.rxUnsentStreams[d]) \in out
                               THEN c.rxUnsentStreams[d] ELSE c.rxStreams[d]],
            !.qre.frames = Batch(@, out)]

-----------------------------------------------------------------------------
(* Stream data                                                             *)

\* Stream s could not send all it was given: of the frames that say so those
\* of out fit; a report that does not fit is queued.
BlockedReports(c, s) == DataBlockedFrames(c, s) \cup StreamDataBlockedFrames(c, s)

ReportBlocked(c, s, out) ==
  LET d == [c EXCEPT
              !.txBlocked = IF DataBlockedFrames(c, s) \cap out # {} THEN c.txOff ELSE @,
              !.strm[s].txBlocked = IF StreamDataBlockedFrames(c, s) \cap out # {}
                                      THEN c.strm[s].txOff ELSE @,
              !.qre.frames = Batch(@, out)]
  IN  IF out = BlockedReports(c, s) THEN d
      ELSE PushIfNot(SetFlags(d, s, {"SEND_STREAM_DATA_BLOCKED"}), s)

\* What dwnx_conn_writev_stream requires of the stream and the data.
MayWrite(c, s, len, fin) ==
  /\ s \in c.live
  /\ "SHUT_WR" \notin c.strm[s].flags
  /\ len > 0 \/ fin \/ "ANY_SENT" \notin c.strm[s].flags
  /\ len <= MaxVarint - c.strm[s].txOff /\ len <= MaxVarint - c.txOff

Sent(x, w) == [x EXCEPT !.txOff = @ + w, !.flags = @ \cup {"ANY_SENT"}]

\* A STREAM frame with w of the len bytes the application offers, where flow
\* control allows w.
WriteData(c, s, len, w, fin) ==
  LET last == fin /\ w = len
      d == [c EXCEPT
              !.txOff = @ + w,
              !.strm[s] = Sent(@, w),
              !.qre.frames = Append(@, {StreamFr(s, c.strm[s].txOff, w, last)})]
  IN  IF last THEN CloseStreamIfShutRdWr(SetFlags(d, s, {"SHUT_WR"}), s) ELSE d

\* dwnx_qre_final: the record is complete.
FinishRecord(c) == [c EXCEPT !.qre = [started |-> FALSE, frames |-> << >>]]

=============================================================================
