----------------------------- MODULE WriteCalls -----------------------------
(***************************************************************************)
(* What the application sees of dwnx_conn_writev_stream: the value it      *)
(* returns, *pdatalen, and the callbacks it makes.  Every step is a step   *)
(* of Qmux; the variables of this module record what the caller saw.       *)
(***************************************************************************)
EXTENDS Qmux

VARIABLES
  ret,        \* what the last call returned; "none": it was not a write
  pdatalen,   \* *pdatalen after it
  stops       \* stops[e][s]: how often stream_stop_sending was called (0..2)

seen == <<ret, pdatalen, stops>>

SeenInit ==
  /\ Init
  /\ ret = "none" /\ pdatalen = -1
  /\ stops = [e \in Ends |-> [s \in StreamIds |-> 0]]

See(e, result, accepted, S) ==
  /\ ret' = result /\ pdatalen' = accepted
  /\ stops' = [stops EXCEPT ![e] =
                 [s \in StreamIds |-> IF s \in S THEN Lesser(@[s] + 1, 2) ELSE @[s]]]

\* What a call returns that completes the record: 0 when it is empty.
Final(e) == IF wire'[Peer(e)] = wire[Peer(e)] THEN "nothing" ELSE "record"

\* The streams for which the writer of a new record has STOP_SENDING to write.
Stopping(e) == {s \in conn[e].strmq : ~conn[e].qre.started /\ StopFrames(conn[e], s) # {}}

\* stream_stop_sending is called just before the frame is encoded: for the
\* frames that were written, and for the first that had no room.
CalledStops(e) ==
  {s \in Stopping(e) : \A f \in CtrlFrames(conn'[e]) : ~Before(f, StopSendingFr(s))}

SeeRecord(e) == WriteRecord(e) /\ See(e, Final(e), -1, CalledStops(e))

SeeStream(e, s, len, fin) ==
  /\ WriteStream(e, s, len, fin)
  /\ \E w \in 0..len :
       /\ conn'[e].txOff = conn[e].txOff + w
       /\ See(e, IF conn'[e].qre.started THEN "WRITE_MORE" ELSE "record", w, Stopping(e))

\* The stream is blocked (DWNX_ERR_STREAM_DATA_BLOCKED), or the connection is:
\* then dwnx_conn_write_stream_frame returns 0 before it sets *pdatalen.
SeeBlocked(e, s, len) ==
  /\ WriteBlockedStream(e, s, len)
  /\ See(e, IF ~conn'[e].qre.started THEN Final(e)
            ELSE IF conn[e].strm[s].txOff = conn[e].strm[s].txMax
              THEN "STREAM_DATA_BLOCKED" ELSE "WRITE_MORE",
         -1, Stopping(e))

SeeOther(e) ==
  /\ ReadStep(e) \/ AppStep(e) \/ Refill(e)
  /\ See(e, "none", -1, {})

SeenNext ==
  \E e \in Ends :
    \/ SeeRecord(e) \/ SeeOther(e)
    \/ \E s \in StreamIds :
         \/ \E len \in 0..MaxWrite, fin \in BOOLEAN : SeeStream(e, s, len, fin)
         \/ \E len \in 1..MaxWrite : SeeBlocked(e, s, len)

SeenSpec == SeenInit /\ [][SeenNext]_<<vars, seen>>

-----------------------------------------------------------------------------

\* "The number of data encoded in STREAM frame is stored in |*pdatalen| if it
\* is not NULL and this function succeeds, or it returns
\* DWNX_ERR_WRITE_MORE" (lib/includes/dwnx/dwnx.h:1412), which the client of
\* examples/hq_client_proto_codec.cc:158 asserts.
WriteMoreAccepts == ret = "WRITE_MORE" => pdatalen >= 0

\* "This function is called at most once per stream"
\* (lib/includes/dwnx/dwnx.h:880, dwnx_stream_stop_sending).
StopCalledOnce == \A e \in Ends, s \in StreamIds : stops[e][s] <= 1
=============================================================================
