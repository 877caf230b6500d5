------------------------------- MODULE MCPair -------------------------------
(* Two endpoints of QmuxPair whose applications keep reading and writing,   *)
(* on different streams with different limits, as one instance for TLC:     *)
(* which of them a behaviour is of is chosen at the start.                  *)
EXTENDS Integers

VARIABLES inst, conn, wire

Limits(data, stream) ==
  [r \in {0, 1} |->
     [maxData |-> data, bidiLocal |-> stream, bidiRemote |-> stream, uniData |-> stream,
      streams |-> [d \in {"bidi", "uni"} |-> 1]]]

\* Streams have windows of one byte; the connection window is not the limit.
SmallParams == Limits(2, 1)

\* Windows large enough for a limit to be raised before it is reached: a limit
\* is sent when more than a quarter of the window has been given back.
WideParams == Limits(4, 4)

\* A bidirectional stream that both may close, for liveness.
Close == INSTANCE QmuxPair
  WITH StreamIds <- {0}, MaxVarint <- 2, MaxStreams <- 1, GlitchBurst <- 4,
       Params <- SmallParams, Ends <- {0, 1}, PeerFrames <- {}, WireCap <- 1,
       MaxWrite <- 2, MaxExtend <- 1, Calls <- {"shutdown_read", "shutdown_write"}

\* A unidirectional stream and windows of which a part is given back.
Credit == INSTANCE QmuxPair
  WITH StreamIds <- {2}, MaxVarint <- 6, MaxStreams <- 1, GlitchBurst <- 4,
       Params <- WideParams, Ends <- {0, 1}, PeerFrames <- {}, WireCap <- 1,
       MaxWrite <- 4, MaxExtend <- 1,
       Calls <- {"shutdown_write", "extend_stream", "extend_conn"}

pairVars == <<inst, conn, wire>>

Init ==
  /\ inst \in {"close", "credit"}
  /\ CASE inst = "close"  -> Close!Init
       [] inst = "credit" -> Credit!Init

Next ==
  /\ UNCHANGED inst
  /\ \/ inst = "close"  /\ Close!Next
     \/ inst = "credit" /\ Credit!Next

Spec == Init /\ [][Next]_pairVars

-----------------------------------------------------------------------------
(* Progress                                                                *)

\* Applications keep reading what arrives and writing records; opening
\* streams, sending data, shutting down and extending limits are up to them.
ReadStep(e) ==
  /\ UNCHANGED inst
  /\ \/ inst = "close"  /\ Close!ReadStep(e)
     \/ inst = "credit" /\ Credit!ReadStep(e)

WriteRecord(e) ==
  /\ UNCHANGED inst
  /\ \/ inst = "close"  /\ Close!WriteRecord(e)
     \/ inst = "credit" /\ Credit!WriteRecord(e)

Fairness == \A e \in {0, 1} : WF_pairVars(ReadStep(e)) /\ WF_pairVars(WriteRecord(e))

LiveSpec == Spec /\ Fairness

\* A side that stops reading does not wait forever: its peer answers
\* STOP_SENDING with RESET_STREAM, or had already sent a FIN or a RESET_STREAM
\* (conn_recv_stop_sending), also when the frames cross.
StopEndsReading ==
  \A e \in {0, 1} :
    inst = "close" /\ Close!Has(e, 0, "STOP_SENDING") ~> Close!ReadSideOver(e, 0)

\* A stream that is finished in both directions is freed by both endpoints:
\* neither keeps the object because it still waits for something
\* (dwnx_conn_close_stream_if_shut_rdwr).
BothSidesFreed ==
  \A e \in {0, 1} :
    inst = "close" /\ Close!Has(e, 0, "SHUT_WR") /\ Close!Has(1 - e, 0, "SHUT_WR")
      ~> 0 \notin conn[e].live /\ 0 \notin conn[1 - e].live

\* Once enough of a window has been given back the peer hears of it: the
\* quarter-window thresholds of strm_should_send_max_stream_data and
\* conn_should_send_max_data delay an announcement but never lose it.
CreditIsTold ==
  \A e \in {0, 1} :
    /\ inst = "credit" /\ Credit!ShouldSendMaxData(conn[e]) ~> ~Credit!ShouldSendMaxData(conn[e])
    /\ inst = "credit" /\ ~Credit!Credited(e, 2) ~> Credit!Credited(e, 2)
=============================================================================
