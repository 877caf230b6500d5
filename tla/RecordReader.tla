---------------------------- MODULE RecordReader ----------------------------
(***************************************************************************)
(* The byte level of dwnx_conn_read: records, varints and fields, any of   *)
(* which may be cut by the end of one call's input and go on in the next.  *)
(* The states of the switch that read a varint are one state here: the     *)
(* fields a frame has are a table, Form.  What a frame does is left to     *)
(* ConnRead; here it is what the reader hands on.                          *)
(***************************************************************************)
EXTENDS Varint

CONSTANTS
  Form,          \* Form[t]: the fields of frame type t, a sequence of FieldKind
  ParamsFrame,   \* DWNX_FRAME_QX_TRANSPORT_PARAMETERS
  CloseFrames,   \* DWNX_FRAME_CONNECTION_CLOSE and _APP
  Datagrams,     \* DWNX_FRAME_DATAGRAM and _LEN
  MaxRecord,     \* local max_record_size
  MaxDatagram,   \* local max_datagram_frame_size
  Bytes,         \* bound: the bytes of the input
  MaxInput       \* bound: its length

\* "int": a varint; "data": a length and as many bytes, handed on as they
\* arrive; "rest": the rest of the record, likewise; "buf": a length and as
\* many bytes, handed on together.
FieldKind == {"int", "data", "rest", "buf"}

ASSUME RecordReaderAssumption ==
  /\ MaxRecord \in Nat /\ MaxDatagram \in Nat /\ MaxInput \in Nat
  /\ Form \in [DOMAIN Form -> Seq(FieldKind)]
  /\ Bytes \subseteq 0..(Byte - 1)

VARIABLES
  r,        \* conn->rx
  fed,      \* all that was read
  known     \* the transport parameters had been seen before

readerVars == <<r, fed, known>>

NoVarint == [left |-> 0, vlen |-> 0, acc |-> 0]

\* Fields of the reader: state; record_left; the varint; the frame with its
\* fields still to come and the integers so far; field_left; buf; out is what
\* was handed on.
Start(seen) ==
  [state |-> "size", left |-> 0, vird |-> NoVarint, type |-> 0, typelen |-> 0,
   form |-> << >>, ints |-> << >>, field |-> 0, buf |-> << >>, seen |-> seen,
   out |-> << >>, err |-> "NONE"]

ReaderInit == known \in BOOLEAN /\ r = Start(known) /\ fed = << >>

\* What is handed on: a frame, a byte of its payload, the end of a payload, an
\* error or the end of the connection.
Item(kind, v) == [kind |-> kind, v |-> v]
BytesOf(s) == [i \in DOMAIN s |-> Item("byte", <<s[i]>>)]
End == Item("end", << >>)

Least(a, b) == IF a < b THEN a ELSE b
Upto(s, n) == SubSeq(s, 1, n)
From(s, n) == SubSeq(s, n + 1, Len(s))

-----------------------------------------------------------------------------
(* dwnx_varint_reader_read and the helpers of dwnx_record_reader.c         *)

\* As much of the varint as s holds: how far it gets (left, vlen, acc) and how
\* many bytes it takes.
ReadVarint(v, s) ==
  LET vlen == IF v.left = 0 THEN VarintLen(s[1]) ELSE v.vlen
      need == IF v.left = 0 THEN vlen ELSE v.left
      n == Least(need, Len(s))
  IN
  [nread |-> n,
   vird |-> [left |-> need - n, vlen |-> vlen,
             acc |-> IF v.left = 0 THEN Value(0, Upto(Unmarked(s), n))
                     ELSE Value(v.acc, Upto(s, n))]]

\* Mutant: a field takes bytes of the next record.
AvailAll(x, n) == n

Avail(x, n) == Least(n, x.left)

Failed(x, e) == [x EXCEPT !.err = e]

NextFrame(x) ==
  [x EXCEPT !.state = IF x.left = 0 THEN "size" ELSE "type",
            !.form = << >>, !.ints = << >>, !.typelen = 0, !.field = 0, !.buf = << >>]

Emit(x, items) == [x EXCEPT !.out = @ \o items]

FrameItem(x) == Item("frame", <<x.type>> \o x.ints)

-----------------------------------------------------------------------------
(* The fields of a frame                                                   *)

\* A payload of n bytes begins.
StartData(x, n) ==
  IF n = 0 THEN NextFrame(Emit(x, <<FrameItem(x), End>>))
  ELSE [Emit(x, <<FrameItem(x)>>) EXCEPT !.state = "payload", !.field = n]

\* Mutant: a field may begin where the record ends.
EnterAnyway(x) ==
  IF x.form = << >> THEN NextFrame(Emit(x, <<FrameItem(x)>>))
  ELSE IF Head(x.form) = "rest" THEN StartData(x, x.left)
  ELSE [x EXCEPT !.state = Head(x.form)]

\* The next field, if there is one; it may not begin where the record ends.
Enter(x) ==
  IF x.form = << >> THEN NextFrame(Emit(x, <<FrameItem(x)>>))
  ELSE IF Head(x.form) = "rest" THEN StartData(x, x.left)
  ELSE IF x.left = 0 THEN Failed(x, "FRAME_ENCODING")
  ELSE [x EXCEPT !.state = Head(x.form)]

\* The whole of a field that is handed on together; after a CONNECTION_CLOSE
\* nothing more is read.
HaveBytes(x, s) ==
  LET d == Emit(x, <<FrameItem(x)>> \o BytesOf(s)) IN
  IF x.type \in CloseFrames THEN [d EXCEPT !.state = "draining"] ELSE NextFrame(d)

DatagramError(x) ==
  /\ x.type \in Datagrams
  /\ IF x.form = <<"rest">> THEN MaxDatagram = 0 \/ MaxDatagram < x.typelen + x.left
                            ELSE MaxDatagram <= x.typelen

HaveType(x, t) ==
  LET d == [x EXCEPT !.type = t, !.form = Form[t], !.seen = TRUE] IN
  IF x.seen = (t = ParamsFrame) THEN Failed(x, "PROTO")
  ELSE IF t \notin DOMAIN Form THEN Failed(x, "FRAME_ENCODING")
  ELSE IF Form[t] = << >> THEN NextFrame(d)
  ELSE IF DatagramError(d) THEN Failed(x, "PROTO")
  ELSE Enter(d)

HaveSize(x, n) ==
  IF n > MaxRecord \/ n = 0 THEN Failed(x, "FRAME_ENCODING")
  ELSE [x EXCEPT !.left = n, !.state = "type"]

\* The varint of the current state is n, and vlen bytes long.
HaveVarint(x, n, vlen) ==
  LET d == [x EXCEPT !.form = Tail(@)] IN
  CASE x.state = "size" -> HaveSize(x, n)
    [] x.state = "type" -> HaveType([x EXCEPT !.typelen = vlen], n)
    [] x.state = "int"  -> Enter([d EXCEPT !.ints = Append(@, n)])
    [] x.state = "data" /\ x.type \in Datagrams /\ x.typelen + vlen + n > MaxDatagram ->
         Failed(x, "PROTO")
    [] x.state \in {"data", "buf"} /\ n > x.left -> Failed(x, "FRAME_ENCODING")
    [] x.state = "data" -> StartData(d, n)
    [] x.state = "buf"  -> [d EXCEPT !.state = "buffer", !.field = n]

-----------------------------------------------------------------------------
(* The loop of dwnx_conn_read over the bytes s                             *)

RECURSIVE Loop(_, _)

\* A varint, in whole or in part; a record must not end inside it.
ReadField(x, s) ==
  LET n == IF x.state = "size" THEN Len(s) ELSE Avail(x, Len(s))
      v == ReadVarint(x.vird, Upto(s, n))
      d == [x EXCEPT !.left = IF x.state = "size" THEN 0 ELSE @ - v.nread]
  IN
  IF v.vird.left = 0
    THEN Loop(HaveVarint([d EXCEPT !.vird = NoVarint], v.vird.acc, v.vird.vlen), From(s, v.nread))
  ELSE IF x.state # "size" /\ n = x.left THEN Failed(x, "FRAME_ENCODING")
  ELSE [d EXCEPT !.vird = v.vird]

ReadPayload(x, s) ==
  LET n == Least(x.field, Avail(x, Len(s)))
      d == [Emit(x, BytesOf(Upto(s, n))) EXCEPT !.left = @ - n, !.field = @ - n]
  IN Loop(IF d.field = 0 THEN NextFrame(Emit(d, <<End>>)) ELSE d, From(s, n))

\* A field that is whole in s is handed on from there, otherwise buffered.
ReadBuffer(x, s) ==
  LET n == Least(x.field, Avail(x, Len(s)))
      d == [x EXCEPT !.left = @ - n, !.field = @ - n, !.buf = @ \o Upto(s, n)]
  IN Loop(IF d.field = 0 THEN HaveBytes(d, d.buf) ELSE d, From(s, n))

Loop(x, s) ==
  CASE x.err # "NONE" \/ x.state = "draining" -> x
    [] x.state = "buffer" /\ x.field = 0 -> ReadBuffer(x, s)
    [] OTHER -> IF s = << >> THEN x
                ELSE IF x.state = "payload" THEN ReadPayload(x, s)
                ELSE IF x.state = "buffer" THEN ReadBuffer(x, s)
                ELSE ReadField(x, s)

-----------------------------------------------------------------------------

\* dwnx_conn_read on the bytes s, the next of the input.
Read(s) ==
  /\ r.err = "NONE" /\ r.state # "draining"
  /\ r' = Loop(r, s)
  /\ fed' = fed \o s /\ UNCHANGED known

ReaderNext ==
  \E n \in 1..(MaxInput - Len(fed)) : \E s \in [1..n -> Bytes] : Read(s)

ReaderSpec == ReaderInit /\ [][ReaderNext]_readerVars

-----------------------------------------------------------------------------
(* The reference: a parser that sees all the input, by positions           *)

RECURSIVE Records(_, _, _), Frames(_, _, _, _), Fields(_, _, _, _)

Refused(e) == <<Item(e, << >>)>>

\* The varint at position i of s, in a record that ends before position e.
IntAt(s, i, e) ==
  LET next == IF i > Len(s) THEN i ELSE i + VarintLen(s[i]) IN
  IF i > Len(s) \/ (next <= e /\ next > Len(s) + 1) THEN [st |-> "cut"]
  ELSE IF next > e THEN [st |-> IF Len(s) >= e - 1 THEN "bad" ELSE "cut"]
  ELSE [st |-> "ok", next |-> next, val |-> Value(0, Unmarked(SubSeq(s, i, next - 1)))]

Records(s, i, seen) ==
  LET n == IntAt(s, i, Len(s) + 9) IN
  IF n.st = "cut" THEN << >>
  ELSE IF n.val \notin 1..MaxRecord THEN Refused("FRAME_ENCODING")
  ELSE Frames(s, n.next, n.next + n.val, seen)

Frames(s, i, e, seen) ==
  LET t == IntAt(s, i, e) IN
  IF i = e THEN Records(s, i, seen)
  ELSE IF t.st = "cut" THEN << >>
  ELSE IF t.st = "bad" THEN Refused("FRAME_ENCODING")
  ELSE IF seen = (t.val = ParamsFrame) THEN Refused("PROTO")
  ELSE IF t.val \notin DOMAIN Form THEN Refused("FRAME_ENCODING")
  ELSE IF Form[t.val] = << >> THEN Frames(s, t.next, e, TRUE)
  ELSE IF /\ t.val \in Datagrams
          /\ MaxDatagram < IF Form[t.val] = <<"rest">> THEN e - i ELSE 1 + t.next - i
    THEN Refused("PROTO")
  ELSE Fields(s, t.next, e, [start |-> i, v |-> <<t.val>>, form |-> Form[t.val]])

\* The n bytes of a payload from position i.
Payload(s, i, e, n, v) ==
  <<Item("frame", v)>> \o BytesOf(SubSeq(s, i, Least(Len(s), i + n - 1)))
    \o IF i + n > Len(s) + 1 THEN << >> ELSE <<End>> \o Frames(s, i + n, e, TRUE)

Buffer(s, i, e, n, v) ==
  IF i + n > Len(s) + 1 THEN << >>
  ELSE <<Item("frame", v)>> \o BytesOf(SubSeq(s, i, i + n - 1))
         \o IF v[1] \in CloseFrames THEN << >> ELSE Frames(s, i + n, e, TRUE)

\* The fields of frame f from position i.
Fields(s, i, e, f) ==
  LET x == IntAt(s, i, e) IN
  IF f.form = << >> THEN <<Item("frame", f.v)>> \o Frames(s, i, e, TRUE)
  ELSE IF f.form = <<"rest">> THEN Payload(s, i, e, e - i, f.v)
  ELSE IF i = e \/ x.st = "bad" THEN Refused("FRAME_ENCODING")
  ELSE IF x.st = "cut" THEN << >>
  ELSE IF Head(f.form) = "int"
    THEN Fields(s, x.next, e, [f EXCEPT !.v = Append(@, x.val), !.form = Tail(@)])
  ELSE IF f.v[1] \in Datagrams /\ x.next + x.val - f.start > MaxDatagram THEN Refused("PROTO")
  ELSE IF x.val > e - x.next THEN Refused("FRAME_ENCODING")
  ELSE IF Head(f.form) = "data" THEN Payload(s, x.next, e, x.val, f.v)
  ELSE Buffer(s, x.next, e, x.val, f.v)

-----------------------------------------------------------------------------

\* However the input is cut into calls, what the reader hands on is what a
\* parser of the whole input finds: no frame is lost, doubled, or put together
\* across the end of a record, and an input is refused at the same place
\* (dwnx_conn_read, dwnx_varint_reader_read).
CutsDoNotMatter ==
  LET failed == IF r.err = "NONE" THEN << >> ELSE Refused(r.err) IN
  r.out \o failed = Records(fed, 1, known)

\* Between calls the reader is never at a field that the record has no byte
\* for: the next byte belongs to the field or begins a record.  It is what
\* assert(begin != end) of dwnx_varint_reader_read, reached with
\* dwnx_record_reader_avail, relies on.
NeverPastRecord ==
  r.err = "NONE" /\ r.state # "draining" =>
    /\ r.state = "size" <=> r.left = 0
    /\ r.field <= r.left
    /\ r.state \in {"payload", "buffer"} <=> r.field > 0
    /\ r.vird.left > 0 => r.state = "size" \/ r.left > 0
=============================================================================
