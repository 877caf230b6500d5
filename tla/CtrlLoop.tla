------------------------------ MODULE CtrlLoop ------------------------------
(***************************************************************************)
(* dwnx_conn_write_ctrl_frames one statement at a time: the loop over the  *)
(* transmission queue, each frame that may not fit (DWNX_ERR_NOBUF), and   *)
(* the stream_stop_sending callback in its middle, from which the          *)
(* application may call the library again.  It shows that the single step  *)
(* WriteCtrlFrames of ConnWrite is what the loop does, and what a callback *)
(* can do to the loop.                                                     *)
(***************************************************************************)
EXTENDS ConnRead, ConnWrite

CONSTANTS
  PeerFrames,   \* bound: frames received before a record is written
  MaxCalls,     \* bound: calls and frames between which records are written
  Reentrant     \* the callback may call dwnx_conn_shutdown_stream

VARIABLES
  c,        \* the connection
  start,    \* the connection when the record was started
  pc,       \* the statement that comes next
  cur,      \* strm: the stream whose turn it is
  calls     \* how many calls and frames there have been

loopVars == <<c, start, pc, cur, calls>>

LoopInit ==
  /\ c = NewConn(0)
  /\ start = c /\ pc = "idle" /\ cur = 0 /\ calls = 0

-----------------------------------------------------------------------------
(* Between records: calls that leave something to be written               *)

ReadFrame(f) == c.rd = Idle /\ c' = Recv(c, f) /\ c'.err = "NONE"

OpenNext(d) == c.next[d] \in StreamIds /\ StreamsLeft(c, d) /\ c' = OpenStream(c, d)

Block(s) == /\ s \in c.live /\ "SHUT_WR" \notin c.strm[s].flags
            /\ FcCredits(c, s) = 0 /\ BlockedReports(c, s) # {}
            /\ c' = ReportBlocked(c, s, {})

Prepare ==
  /\ pc = "idle" /\ calls < MaxCalls /\ calls' = calls + 1
  /\ \/ \E f \in PeerFrames : ReadFrame(f)
     \/ \E d \in Direction : OpenNext(d) \/ c' = ExtendMaxStreams(c, d, 1)
     \/ \E s \in StreamIds :
          \/ Block(s) \/ c' = ShutdownStream(c, s)
          \/ CanRead(c, s) /\ c' = ShutdownStreamRead(c, s)
          \/ CanRead(c, s) /\ c' = ExtendMaxStreamOffset(c, s, 1)
     \/ c' = ExtendMaxOffset(c, 1)
  /\ UNCHANGED <<start, pc, cur>>

StartRecord ==
  /\ pc = "idle"
  /\ c' = [c EXCEPT !.qre = [started |-> TRUE, frames |-> << >>]]
  /\ start' = c /\ pc' = "max_data" /\ UNCHANGED <<cur, calls>>

-----------------------------------------------------------------------------
(* The function                                                            *)

\* At statement here, one of the frames of F (at most one) is encoded and d is
\* the connection after it, or it does not fit; without a frame nothing is done.
EncodeIfFits(here, F, d, there) ==
  /\ pc = here
  /\ \/ F = {} /\ c' = c /\ pc' = there
     \/ \E f \in F : c' = [d EXCEPT !.qre.frames = Append(@, {f})] /\ pc' = there
     \/ F # {} /\ c' = c /\ pc' = "nobuf"
  /\ UNCHANGED <<start, cur, calls>>

\* Mutant: the limit that was written is not kept.
EncodeMaxDataAgain == EncodeIfFits("max_data", MaxDataFrames(c), c, "pong")

EncodeMaxData ==
  EncodeIfFits("max_data", MaxDataFrames(c), [c EXCEPT !.rxMax = c.rxUnsent], "pong")

EncodePong == EncodeIfFits("pong", PongFrames(c), [c EXCEPT !.pong = c.ping], "top")

Top ==
  /\ pc = "top"
  /\ IF c.strmq = {} THEN pc' = "bidi" /\ UNCHANGED cur
     ELSE /\ pc' = "reset"
          /\ cur' \in c.strmq /\ \A s \in c.strmq : cur' <= s
  /\ UNCHANGED <<c, start, calls>>

Unset(flag) == [c EXCEPT !.strm[cur].flags = @ \ {flag}]

EncodeReset ==
  LET d == Unset("SEND_RESET_STREAM")
      closing == ResetFrames(c, cur) # {} /\ ShouldCloseStream(d.strm[cur])
  IN  EncodeIfFits("reset", ResetFrames(c, cur),
             IF closing THEN CloseStream(d, cur) ELSE d,
             IF closing THEN "top" ELSE "stop")

\* The application is told before the frame is encoded.
CallStopSending ==
  /\ pc = "stop"
  /\ pc' = "stop_frame"
  /\ \/ c' = c
     \/ Reentrant /\ StopFrames(c, cur) # {} /\ \E s \in c.live : c' = ShutdownStream(c, s)
  /\ UNCHANGED <<start, cur, calls>>

EncodeStop ==
  EncodeIfFits("stop_frame", StopFrames(c, cur), c, "stop_done")

StopDone ==
  /\ pc = "stop_done"
  /\ c' = Unset("SEND_STOP_SENDING")
  /\ pc' = "credit" /\ UNCHANGED <<start, cur, calls>>

EncodeCredit ==
  EncodeIfFits("credit", CreditFrames(c, cur),
         [c EXCEPT !.strm[cur].rxMax = c.strm[cur].rxUnsent], "data_blocked")

MustReport == cur \in Reporting(c)

EncodeDataBlocked ==
  EncodeIfFits("data_blocked", {f \in DataBlockedFrames(c, cur) : MustReport},
         [c EXCEPT !.txBlocked = c.txOff], "stream_data_blocked")

EncodeStreamDataBlocked ==
  EncodeIfFits("stream_data_blocked", {f \in StreamDataBlockedFrames(c, cur) : MustReport},
         [c EXCEPT !.strm[cur].txBlocked = c.strm[cur].txOff], "pop")

\* dwnx_conn_tx_strmq_pop takes the top of the queue, whichever it is now.
PopTop ==
  LET d == Unset("SEND_STREAM_DATA_BLOCKED") IN
  /\ pc = "pop"
  /\ \E top \in c.strmq :
       /\ \A s \in c.strmq : top <= s
       /\ c' = [d EXCEPT !.strmq = @ \ {top}]
  /\ pc' = "top" /\ UNCHANGED <<start, cur, calls>>

EncodeMaxStreams(here, d, there) ==
  EncodeIfFits(here, {f \in MaxStreamsFrames(c) : f.dir = d},
         [c EXCEPT !.rxStreams[d] = c.rxUnsentStreams[d]], there)

\* The record is finished and the next may be started.
ReturnRecord ==
  /\ pc \in {"done", "nobuf"}
  /\ c' = FinishRecord(c)
  /\ start' = c' /\ pc' = "idle" /\ cur' = 0 /\ UNCHANGED calls

LoopNext ==
  \/ Prepare \/ StartRecord
  \/ EncodeMaxData \/ EncodePong \/ Top \/ EncodeReset \/ CallStopSending
  \/ EncodeStop \/ StopDone \/ EncodeCredit \/ EncodeDataBlocked
  \/ EncodeStreamDataBlocked \/ PopTop
  \/ EncodeMaxStreams("bidi", "bidi", "uni") \/ EncodeMaxStreams("uni", "uni", "done")
  \/ ReturnRecord

LoopSpec == LoopInit /\ [][LoopNext]_loopVars

-----------------------------------------------------------------------------

FramesWritten == {c.qre.frames[i] : i \in DOMAIN c.qre.frames}

\* The loop, wherever it runs out of room, does what WriteCtrlFrames does in
\* one step with the frames that fitted, and writes them in the same order
\* (dwnx_conn_write_ctrl_frames).
SingleStep ==
  LET out == UNION FramesWritten IN
  pc \in {"done", "nobuf"} =>
    /\ [c EXCEPT !.qre.frames = << >>]
         = [WriteCtrlFrames(start, out) EXCEPT !.qre.frames = << >>]
    /\ \A i, j \in DOMAIN c.qre.frames :
         i < j => \A f \in c.qre.frames[i], g \in c.qre.frames[j] : Before(f, g)

\* What fitted is the front of what was waiting, all of it unless a frame did
\* not fit.
WritesFront ==
  /\ pc \in {"done", "nobuf"} => UNION FramesWritten \in FrontsOf(CtrlFrames(start))
  /\ pc = "done" => UNION FramesWritten = CtrlFrames(start)

\* What ConnWrite does in one step with the frames that fitted is what the loop
\* does, wherever it runs out of room (dwnx_conn_write_ctrl_frames).
LoopIsOneStep == SingleStep /\ WritesFront

\* "conn_reset_stream adds RESET_STREAM frame to the transmission queue"
\* (lib/dwnx_conn.c:587): until the frame is written the stream is queued.
ResetQueued ==
  \A s \in c.live : "SEND_RESET_STREAM" \in c.strm[s].flags => s \in c.strmq
=============================================================================
