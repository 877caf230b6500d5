-------------------------------- MODULE Idle --------------------------------
(***************************************************************************)
(* The end of a connection: the idle timeout (dwnx_conn_get_idle_expiry,   *)
(* dwnx_conn_handle_expiry), CONNECTION_CLOSE, and the timer with which    *)
(* the example client and server wait for it, on both sides of the wire.   *)
(* The clock and the timers are external; a timer that is due fires before *)
(* time goes on.                                                           *)
(***************************************************************************)
EXTENDS Integers, Sequences, FiniteSets

CONSTANTS
  MaxTimestamp,     \* UINT64_MAX
  NsPerMs,          \* DWNX_MILLISECONDS
  IdleChoices,      \* the timeouts of both ends, max_idle_timeout
  StartTimes,       \* when a connection begins
  MaxIdleTime,      \* bound: how long it is watched
  MaxIdleRecords    \* bound: records each end writes

\* A timeout of less than a millisecond would be told to the peer as none.
ASSUME IdleAssumption ==
  /\ MaxTimestamp \in Nat /\ NsPerMs \in Nat \ {0}
  /\ StartTimes \subseteq 0..(MaxTimestamp - 1)
  /\ \A c \in IdleChoices : \A f \in {"client", "server"} :
       c[f] \in Nat /\ (c[f] = 0 \/ c[f] >= NsPerMs)

VARIABLES
  now,      \* the time
  ends,     \* each end: connection, timer and what is to be sent
  wires     \* the records on the way to each end

idleVars == <<now, ends, wires>>

Peers == {"client", "server"}
Opposite(p) == CHOOSE q \in Peers : q # p
Never == 0

\* The timeout that the peer is told, in whole milliseconds.
Told(timeout) == timeout - (timeout % NsPerMs)

NewEnd(choice, p, t) ==
  [local |-> choice[p], remote |-> 0,
   idleTs |-> t, state |-> "open", heard |-> FALSE, sent |-> 0, held |-> << >>, wev |-> FALSE,
   timer |-> Never, period |-> 0, fed |-> FALSE,
   over |-> "no", last |-> t, idleFor |-> 0]

-----------------------------------------------------------------------------
(* The connection                                                          *)

\* Mutant: no timeout of the peer is the smallest.
SmallerTimeoutOnly(x) == IF x.local # 0 /\ x.local < x.remote THEN x.local ELSE x.remote

SmallerTimeout(x) ==
  IF x.remote = 0 \/ (x.local # 0 /\ x.local < x.remote) THEN x.local ELSE x.remote

IdleExpiry(x) ==
  LET timeout == SmallerTimeout(x) IN
  IF timeout = 0 \/ x.idleTs > MaxTimestamp - timeout THEN MaxTimestamp ELSE x.idleTs + timeout

\* A record was read to its end, or written.
Busy(x) == [x EXCEPT !.idleTs = now, !.last = now]

\* Everything stops with the connection, and what it had is gone.
Stop(x, why) ==
  [x EXCEPT !.over = why, !.idleFor = IF why = "idle" THEN now - x.last ELSE 0,
            !.timer = Never, !.period = 0, !.fed = FALSE, !.wev = FALSE, !.held = << >>,
            !.idleTs = 0, !.last = 0, !.state = "open", !.sent = 0]

\* The record rec arrives at p; a record before transport parameters is refused.
HearRecord(p, x, rec) ==
  IF x.over # "no" THEN x
  ELSE IF x.state = "closing" \/ rec = "close" \/ (rec = "data" /\ ~x.heard) THEN Stop(x, "closed")
  ELSE IF rec = "data" THEN Busy(x)
  ELSE Busy([x EXCEPT !.heard = TRUE, !.remote = Told(ends[Opposite(p)].local)])

-----------------------------------------------------------------------------
(* The application                                                         *)

\* Mutant: a timer that is running is left alone.
UpdateTimerOnce(x) ==
  LET expiry == IdleExpiry(x) IN
  IF expiry <= now THEN [x EXCEPT !.fed = TRUE]
  ELSE IF x.timer # Never THEN x ELSE [x EXCEPT !.timer = expiry, !.period = expiry - now]

UpdateTimer(x) ==
  LET expiry == IdleExpiry(x) IN
  IF expiry <= now THEN [x EXCEPT !.fed = TRUE]
  ELSE [x EXCEPT !.timer = expiry, !.period = expiry - now]

\* What write_data may do: what was held is still held, and nothing else is done;
\* or it is sent, and a record or none follows, which may be held in its turn.
\* Transport parameters are always there to be written first.
WriteDataOf(p, x) ==
  LET next == IF x.sent = 0 THEN "params" ELSE "data"
      idle == [x EXCEPT !.wev = FALSE, !.held = << >>]
      wrote == Busy([idle EXCEPT !.sent = @ + 1])
      mayWrite == x.state = "open" /\ x.sent < MaxIdleRecords[p]
  IN
  {[end |-> [x EXCEPT !.wev = b], out |-> << >>] : b \in {v \in BOOLEAN : x.held # << >>}}
  \cup {[end |-> UpdateTimer(idle), out |-> x.held] : n \in {v \in {0} : x.sent > 0 \/ ~mayWrite}}
  \cup {[end |-> UpdateTimer(wrote), out |-> Append(x.held, next)] : n \in {v \in {1} : mayWrite}}
  \cup {[end |-> UpdateTimer([wrote EXCEPT !.held = <<next>>, !.wev = b]), out |-> x.held] :
           b \in {v \in BOOLEAN : mayWrite}}

\* Nothing is on its way to an end that is over, or what is is not read.
Carry(e, w) == [p \in Peers |-> IF e[p].over = "no" THEN w[p] ELSE << >>]

\* End p is now x, has the records rest left to read, and has sent out.
Moves(p, x, rest, out) ==
  LET e == [ends EXCEPT ![p] = x] IN
  /\ ends' = e
  /\ wires' = Carry(e, [wires EXCEPT ![p] = rest, ![Opposite(p)] = @ \o out])

\* writecb; the application may have something to write at any time, but while
\* a record waits for the peer it is not called.
Writable(p) ==
  /\ ends[p].over = "no" /\ (ends[p].wev \/ ends[p].held = << >>)
  /\ \E w \in WriteDataOf(p, ends[p]) : Moves(p, w.end, wires[p], w.out)
  /\ UNCHANGED now

\* End p when it has read n of the records that have arrived.
AfterReading(p, n) ==
  LET after[k \in 0..n] ==
        IF k = 0 THEN ends[p] ELSE HearRecord(p, after[k - 1], wires[p][k])
  IN  after[n]

\* readcb: what has arrived is read until SSL_read wants to read, or to write.
Readable(p) ==
  /\ ends[p].over = "no"
  /\ \E n \in 1..Len(wires[p]) :
       LET x == AfterReading(p, n)
           rest == SubSeq(wires[p], n + 1, Len(wires[p]))
       IN
       \/ x.over # "no" /\ Moves(p, x, rest, << >>)
       \/ /\ x.over = "no"
          /\ \E y \in {UpdateTimer(x), [x EXCEPT !.wev = x.held # << >>]} : \E w \in WriteDataOf(p, y) :
               Moves(p, w.end, rest, w.out)
  /\ UNCHANGED now

\* The peer has closed the socket.
SocketClosed(p) ==
  /\ ends[p].over = "no" /\ wires[p] = << >> /\ ends[Opposite(p)].over # "no"
  /\ Moves(p, Stop(ends[p], "closed"), << >>, << >>)
  /\ UNCHANGED now

\* dwnx_ccerr_set_liberr
CcerrType(liberr) == IF liberr = "IDLE_CLOSE" THEN "IDLE_CLOSE" ELSE "TRANSPORT"

\* The record that says why the connection ends: none when it was idle.
CloseRecord(type) == IF type = "IDLE_CLOSE" THEN << >> ELSE <<"close">>

\* dwnx_conn_handle_expiry
HandleExpiry(x) == IF IdleExpiry(x) <= now THEN "IDLE_CLOSE" ELSE "NONE"

\* timeoutcb: a timer that fires repeats itself.
TimerFires(p) ==
  LET x == ends[p]  liberr == HandleExpiry(x) IN
  /\ x.fed \/ (x.timer = now /\ x.timer # Never)
  /\ IF liberr # "NONE" THEN Moves(p, Stop(x, "idle"), wires[p], CloseRecord(CcerrType(liberr)))
     ELSE Moves(p, [x EXCEPT !.wev = x.held # << >>, !.fed = FALSE,
                             !.timer = IF @ = now THEN now + x.period ELSE @],
                wires[p], << >>)
  /\ UNCHANGED now

\* dwnx_conn_write_connection_close, with a record of its own.
WriteConnectionClose(p) ==
  /\ ends[p].over = "no" /\ ends[p].state = "open" /\ ends[p].held = << >>
  /\ \E type \in {"TRANSPORT", "APPLICATION"} :
       Moves(p, [ends[p] EXCEPT !.state = "closing"], wires[p], CloseRecord(type))
  /\ UNCHANGED now

Tick(start) ==
  /\ now < start + MaxIdleTime /\ now + 1 < MaxTimestamp
  /\ \E p \in Peers : ends[p].over = "no"
  /\ \A p \in Peers : ~ends[p].fed /\ (ends[p].timer = Never \/ ends[p].timer > now)
  /\ now' = now + 1
  /\ UNCHANGED <<ends, wires>>

IdleInit ==
  /\ now \in StartTimes
  /\ \E c \in IdleChoices :
       ends = [p \in Peers |->
                 IF p = "server" THEN UpdateTimer(NewEnd(c, p, now)) ELSE NewEnd(c, p, now)]
  /\ wires = [p \in Peers |-> << >>]

IdleNext ==
  \/ \E p \in Peers : \/ Writable(p) \/ Readable(p) \/ SocketClosed(p)
                      \/ TimerFires(p) \/ WriteConnectionClose(p)
  \/ \E t \in StartTimes : t <= now /\ Tick(t)

IdleSpec == IdleInit /\ [][IdleNext]_idleVars

-----------------------------------------------------------------------------

\* The timeouts that end p knows of, its own and the other's as it was told.
Promised(p) ==
  {ends[p].local, IF ends[p].heard THEN Told(ends[Opposite(p)].local) ELSE 0} \ {0}

\* An end times out only when it has neither read nor written a record for the
\* smallest timeout that an end has promised, and never without one; and unless
\* a record waits for the socket it is not left alone for longer than that,
\* though the timer is only set again when something happens
\* (dwnx_conn_get_idle_expiry, update_timer, timeoutcb).
IdleTimesOut ==
  \A p \in Peers :
    /\ ends[p].over = "idle" => \E t \in Promised(p) : ends[p].idleFor >= t
    /\ \A t \in Promised(p) :
         ends[p].over = "no" /\ ends[p].held = << >> /\ ends[p].timer # Never
           => now - ends[p].last <= t \/ ends[p].fed

\* Once each has heard the other, both ends have no timeout, or timeouts less
\* than a millisecond apart, what the wire cannot say
\* (dwnx_conn_get_idle_expiry, dwnx_transport_params_encode).
TimeoutsAgree ==
  LET a == SmallerTimeout(ends["client"])  b == SmallerTimeout(ends["server"]) IN
  (\A p \in Peers : ends[p].heard) => /\ a = 0 <=> b = 0
                                      /\ a - b \in (1 - NsPerMs)..(NsPerMs - 1)
=============================================================================
