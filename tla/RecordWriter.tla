---------------------------- MODULE RecordWriter ----------------------------
(***************************************************************************)
(* dwnx_conn_write_vmsg in bytes: a record is begun in the caller's buffer *)
(* with room left for its length, transport parameters and control frames  *)
(* are put first, then what the caller offers, and the length last (lib/   *)
(* dwnx_qre.c).  The control frames that wait are a queue here, ConnWrite  *)
(* says which they are; the data offered is what flow control allows.      *)
(***************************************************************************)
EXTENDS FrameCodec

CONSTANTS
  LocalParams,       \* local transport parameters
  MaxDatagramFrameSize,  \* remote max_datagram_frame_size
  StreamId,          \* the stream that is written
  FirstOffset,       \* where it is when the writer is looked at
  Waiting,           \* bound: the control frames that may wait at first
  WaitingMax,        \* bound: the MAX_STREAMS frames that may
  DestLens,          \* bound: the sizes of the callers' buffers
  WriteLens,         \* bound: how many bytes are offered
  MaxRecords,        \* bound: the records that are finished
  MaxData            \* bound: the STREAM and DATAGRAM frames

\* The frames that dwnx_conn_write_ctrl_frames writes.
ControlTypes ==
  MaxTypes \cup BlockedTypes \cup {T.RESET_STREAM, T.STOP_SENDING, T.PING_RESPONSE}
ControlFrame(fr) ==
  /\ fr.type \in ControlTypes /\ fr = PlainFr(fr.type, fr.ints)
  /\ fr.ints \in Seq(Nat) /\ Len(fr.ints) <= 3

ASSUME RecordWriterAssumption ==
  /\ Base >= 4      \* no control frame is longer than a record
  /\ \A q \in Waiting \cup WaitingMax :
       q \in Seq({q[i] : i \in DOMAIN q}) /\ \A i \in DOMAIN q : ControlFrame(q[i])
  /\ LocalParams \in [Field -> Nat] /\ MaxDatagramFrameSize \in Nat
  /\ StreamId \in Nat /\ FirstOffset \in Nat /\ MaxRecords \in Nat /\ MaxData \in Nat
  /\ DestLens \subseteq Nat /\ WriteLens \subseteq Nat

VARIABLES
  w,       \* the writer
  out,     \* the records it has given to its callers
  call     \* the last call: its destlen, what it offered, what it returned

writerVars == <<w, out, call>>

RecordLenSize == 2

\* Fields of the writer: the record that is made (conn->tx.qre); whether the
\* transport parameters were sent; the control frames and the MAX_STREAMS
\* frames that wait; the stream's tx.offset and SHUT_WR; the frames written,
\* and how many of them are in finished records.
NewWriter(ctrl, max) ==
  [qre |-> [started |-> FALSE, cap |-> 0, bytes |-> << >>],
   sent |-> FALSE, ctrl |-> ctrl, max |-> max, off |-> FirstOffset, shut |-> FALSE,
   log |-> << >>, final |-> 0]

NoCall == [destlen |-> 0, offered |-> "nothing", accepted |-> FALSE, ret |-> "none"]

WriterInit ==
  /\ \E c \in Waiting, m \in WaitingMax : w = NewWriter(c, m)
  /\ out = << >> /\ call = NoCall

Lower(a, b) == IF a < b THEN a ELSE b

-----------------------------------------------------------------------------
(* lib/dwnx_qre.c                                                          *)

\* dwnx_qre_start
Started(x, destlen) ==
  [x EXCEPT !.qre = [started |-> TRUE, cap |-> Lower(destlen, RecordLenSize + DefaultMaxRecordSize),
                     bytes |-> << >>]]

\* dwnx_qre_left
Left(x) == x.qre.cap - RecordLenSize - Len(x.qre.bytes)

\* Mutant: a length of two bytes is not paid for.
StreamMaxDatalenUnpaid(left, id, off, len) ==
  LET n == 1 + PutLen(id) + (IF off # 0 THEN PutLen(off) ELSE 0) IN
  IF left <= n THEN -1 ELSE Lower(len, left - n - 1)

\* dwnx_qre_stream_max_datalen: how much of len bytes a STREAM frame can hold;
\* a length below Limit1 has one byte, a longer one two.
StreamMaxDatalen(left, id, off, len) ==
  LET n == 1 + PutLen(id) + (IF off # 0 THEN PutLen(off) ELSE 0)
      room2 == left - n
  IN
  IF left <= n THEN -1
  ELSE IF room2 > 2 + (Limit1 - 1) /\ len > Limit1 - 1
    THEN Lower(Lower(len, Limit2 - 1), room2 - 2)
  ELSE Lower(Lower(len, Limit1 - 1), room2 - 1)

\* dwnx_qre_encode_frame
Fits(x, fr) == EncodeFrame(fr).len <= Left(x)
AddEncoded(x, fr, e) == [x EXCEPT !.qre.bytes = @ \o e.bytes, !.log = Append(@, fr)]
Add(x, fr) == AddEncoded(x, fr, EncodeFrame(fr))

\* dwnx_qre_final: nothing is written when there is no frame.
Record(x) == PutW(Len(x.qre.bytes), RecordLenSize) \o x.qre.bytes

-----------------------------------------------------------------------------
(* dwnx_conn_write_vmsg                                                    *)

\* The first n frames of a queue, es being all of them encoded.
AddFirst(x, queue, es, n) ==
  [x |-> [x EXCEPT !.qre.bytes = @ \o Joined([i \in 1..n |-> es[i].bytes]),
                   !.log = @ \o SubSeq(queue, 1, n)],
   rest |-> SubSeq(queue, n + 1, Len(queue))]

\* How many come before the first that does not fit, with the sums of their lengths.
HowMany(left, sums) == Max({n \in DOMAIN sums : sums[n] <= left})

\* The frames of a queue, until one does not fit.
AddEncodedQueue(x, queue, es) ==
  AddFirst(x, queue, es, HowMany(Left(x), Totals([i \in DOMAIN es |-> es[i].len])))
AddQueue(x, queue) ==
  AddEncodedQueue(x, queue, [i \in DOMAIN queue |-> EncodeFrame(queue[i])])

MaxWritten(d) == [d.x EXCEPT !.max = d.rest]
WriteMax(x) == MaxWritten(AddQueue(x, x.max))

\* Mutant: the control frames are forgotten.
WriteCtrlNone(x) == WriteMax(x)

CtrlWritten(d) ==
  LET y == [d.x EXCEPT !.ctrl = d.rest] IN IF d.rest # << >> THEN y ELSE WriteMax(y)
WriteCtrl(x) == CtrlWritten(AddQueue(x, x.ctrl))

ParamsFr == PlainFr(T.PARAMS, LocalParams)

\* Mutant: parameters that found no room count as sent.
BeginSent(x, destlen) ==
  LET y == Started(x, destlen) IN
  IF x.qre.started THEN [ok |-> TRUE, x |-> x]
  ELSE [ok |-> TRUE,
        x |-> WriteCtrl(IF x.sent \/ ~Fits(y, ParamsFr) THEN [y EXCEPT !.sent = TRUE]
                        ELSE [Add(y, ParamsFr) EXCEPT !.sent = TRUE])]

\* A record is begun unless one is open: transport parameters first, once.
\* Without room for them nothing is begun.
Begin(x, destlen) ==
  LET y == Started(x, destlen) IN
  IF x.qre.started THEN [ok |-> TRUE, x |-> x]
  ELSE IF x.sent \/ Fits(y, ParamsFr)
    THEN [ok |-> TRUE,
          x |-> WriteCtrl(IF x.sent THEN y ELSE [Add(y, ParamsFr) EXCEPT !.sent = TRUE])]
  ELSE [ok |-> FALSE, x |-> x]

\* The control frames of the new record left nothing that did not fit.
Roomy(x, y) == x.qre.started \/ (y.ctrl = << >> /\ y.max = << >>)

\* The record ends; ret is 0 when it is empty.
FinishWith(y, destlen, offered, accepted) ==
  /\ w' = [y EXCEPT !.qre.started = FALSE, !.final = Len(y.log)]
  /\ out' = IF y.qre.bytes = << >> THEN out ELSE Append(out, Record(y))
  /\ call' = [destlen |-> destlen, offered |-> offered, accepted |-> accepted,
              ret |-> IF y.qre.bytes = << >> THEN "0" ELSE "record"]
Finish(x, destlen, offered, accepted) == FinishWith(WriteMax(x), destlen, offered, accepted)

\* The call gives up, or asks for more: the record, if one is open, stays so.
Return(x, destlen, offered, accepted, ret) ==
  /\ w' = x /\ UNCHANGED out
  /\ call' = [destlen |-> destlen, offered |-> offered, accepted |-> accepted, ret |-> ret]

\* A frame was put: more may follow if there is room.
Accepted(x, destlen, offered) ==
  IF Left(x) > 0 THEN Return(x, destlen, offered, TRUE, "WRITE_MORE")
  ELSE Finish(x, destlen, offered, TRUE)

\* While a record is open callers come back with the buffer it was begun in.
Ready(destlen) ==
  /\ destlen > RecordLenSize /\ Len(out) < MaxRecords
  /\ Len(SelectSeq(w.log, LAMBDA fr : fr.type \in {T.STREAM, T.DATAGRAM_LEN})) <= MaxData
  /\ w.qre.started => Lower(destlen, RecordLenSize + DefaultMaxRecordSize) = w.qre.cap

\* dwnx_conn_write_record
RecordAfter(b, destlen) ==
  IF b.ok THEN Finish(b.x, destlen, "nothing", FALSE)
  ELSE Return(w, destlen, "nothing", FALSE, "NOBUF")

WriteRecord(destlen) == Ready(destlen) /\ RecordAfter(Begin(w, destlen), destlen)

\* The len bytes of the stream from offset off.
Piece(off, len) == [i \in 1..len |-> (off + i) % Byte]

\* dwnx_conn_write_stream with len bytes that flow control allows: b is what
\* Begin did, n how many there is room for.
StreamAfter(b, n, destlen, len, fin) ==
  LET last == fin /\ n = len
      fr == StreamDataFr(StreamId, w.off, last, Piece(w.off, n))
  IN
  IF ~b.ok THEN Return(w, destlen, "stream", FALSE, "NOBUF")
  ELSE IF ~Roomy(w, b.x) \/ n = -1 \/ (n = 0 /\ len # 0)
    THEN Finish(b.x, destlen, "stream", FALSE)
  ELSE Accepted([Add(b.x, fr) EXCEPT !.off = @ + n, !.shut = last], destlen, "stream")

StreamBegun(b, destlen, len, fin) ==
  StreamAfter(b, StreamMaxDatalen(Left(b.x), StreamId, w.off, len), destlen, len, fin)

WriteStream(destlen, len, fin) ==
  /\ Ready(destlen) /\ ~w.shut
  /\ len = 0 /\ ~fin => \A i \in DOMAIN w.log : w.log[i].type # T.STREAM
  /\ StreamBegun(Begin(w, destlen), destlen, len, fin)

\* dwnx_conn_write_datagram; a datagram that no record or no peer takes is
\* refused (DWNX_ERR_INVALID_STATE, DWNX_ERR_INVALID_ARGUMENT).
DatagramAfter(b, destlen, fr, e) ==
  /\ e.len <= Lower(MaxDatagramFrameSize, DefaultMaxRecordSize)
  /\ IF ~b.ok THEN Return(w, destlen, "datagram", FALSE, "NOBUF")
     ELSE IF ~Roomy(w, b.x) \/ e.len > Left(b.x) THEN Finish(b.x, destlen, "datagram", FALSE)
     ELSE Accepted(AddEncoded(b.x, fr, e), destlen, "datagram")

WriteDatagram(destlen, len) ==
  LET fr == FrameOf(T.DATAGRAM_LEN, << >>, FALSE, Piece(0, len)) IN
  /\ Ready(destlen)
  /\ MaxDatagramFrameSize # 0
  /\ DatagramAfter(Begin(w, destlen), destlen, fr, EncodeFrame(fr))

WriterNext ==
  \E destlen \in DestLens :
    \/ WriteRecord(destlen)
    \/ \E len \in WriteLens : \/ \E fin \in BOOLEAN : WriteStream(destlen, len, fin)
                              \/ WriteDatagram(destlen, len)

WriterSpec == WriterInit /\ [][WriterNext]_writerVars

-----------------------------------------------------------------------------

\* What is put into a record stays within the buffer it was begun in and within
\* what its length of two bytes can say (dwnx_unreachable of
\* dwnx_conn_write_stream_frame, assert(n < 16384) of dwnx_put_uvarintw).
RecordFits ==
  /\ w.qre.started => Left(w) >= 0
  /\ \A i \in DOMAIN out : Len(out[i]) <= RecordLenSize + DefaultMaxRecordSize

\* A STREAM frame holds as much as there is room for: of len bytes offered, one
\* more than it takes would not fit (dwnx_qre_stream_max_datalen).
TakesAllThatFits ==
  w.qre.started =>
    \A len \in WriteLens :
      LET Size(n) == EncodeFrame(StreamDataFr(StreamId, w.off, FALSE, Piece(0, n))).len
          n == StreamMaxDatalen(Left(w), StreamId, w.off, len)
      IN  IF n = -1 THEN Size(0) > Left(w)
          ELSE /\ n <= len /\ Size(n) <= Left(w)
               /\ n < len => Size(n + 1) > Left(w)

\* A record is filled to its end and not beyond (dwnx_qre_encode_frame,
\* dwnx_qre_stream_max_datalen).
RecordFilled == RecordFits /\ TakesAllThatFits

\* In a buffer as large as a record can be, 0 means that nothing waits and
\* nothing that was offered was turned down.
NothingToSend(least) ==
  call.ret = "0" /\ call.destlen >= least =>
    w.ctrl = << >> /\ w.max = << >> /\ (call.offered # "nothing" => call.accepted)

ZeroMeansNothing == NothingToSend(RecordLenSize + DefaultMaxRecordSize)

\* The same of the size that the header asks for: "|destlen| should be at least
\* DWNX_DEFAULT_MAX_RECORD_SIZE" and "If the function returns 0, it means that
\* there is nothing to send" (lib/includes/dwnx/dwnx.h:1530 and 1562,
\* dwnx_conn_writev_datagram).
ZeroAtDefaultSize == NothingToSend(DefaultMaxRecordSize)
=============================================================================
