----------------------------- MODULE FrameCodec -----------------------------
(***************************************************************************)
(* lib/dwnx_frame.c: frames to bytes and back.  A frame is its type, the   *)
(* integers in the order in which they are sent, a FIN flag and bytes; the *)
(* code has a structure of its own for each type.  The encoder is what     *)
(* records are made with; the decoder sees a whole record and is what the  *)
(* tests use in place of dwnx_conn_read.                                   *)
(***************************************************************************)
EXTENDS TransportParams

CONSTANTS
  FrameType,     \* FrameType[n]: DWNX_FRAME_<n>
  SomeFrames,    \* bound: the frames that are encoded
  MaxFrames,     \* bound: how many into one buffer
  BufferSizes    \* bound: the sizes of the buffer

T == FrameType

FinBit == 1
LenBit == 2
OffBit == 4
StreamTypes == T.STREAM..(T.STREAM + 7)
MaxTypes == {T.MAX_DATA, T.MAX_STREAM_DATA, T.MAX_STREAMS_BIDI, T.MAX_STREAMS_UNI}
BlockedTypes ==
  {T.DATA_BLOCKED, T.STREAM_DATA_BLOCKED, T.STREAMS_BLOCKED_BIDI, T.STREAMS_BLOCKED_UNI}
QxTypes == {T.PARAMS, T.PING_REQUEST, T.PING_RESPONSE}

FrameName ==
  {"PADDING", "PARAMS", "RESET_STREAM", "STOP_SENDING", "STREAM", "MAX_DATA", "MAX_STREAM_DATA",
   "MAX_STREAMS_BIDI", "MAX_STREAMS_UNI", "DATA_BLOCKED", "STREAM_DATA_BLOCKED",
   "STREAMS_BLOCKED_BIDI", "STREAMS_BLOCKED_UNI", "DATAGRAM", "DATAGRAM_LEN",
   "CONNECTION_CLOSE", "CONNECTION_CLOSE_APP", "PING_REQUEST", "PING_RESPONSE"}

ASSUME FrameCodecAssumption ==
  /\ T \in [FrameName -> Nat] /\ \A m, n \in FrameName : T[m] = T[n] => m = n
  /\ T.PADDING = 0 /\ T.STREAM % 8 = 0
  /\ \A n \in DOMAIN T : T[n] \in StreamTypes => n = "STREAM"
  /\ \A n \in DOMAIN T : (T[n] \in QxTypes \/ T[n] + 7 < Limit1 \/ n # "STREAM")
  /\ MaxFrames \in Nat /\ BufferSizes \subseteq Nat

VARIABLES
  room,     \* dwnx_buf_left
  bytes,    \* what is in the buffer, from pos to last
  put,      \* the frames that were encoded into it
  got       \* the frames that were decoded

frameVars == <<room, bytes, put, got>>

FrameOf(t, ints, fin, data) == [type |-> t, ints |-> ints, fin |-> fin, data |-> data]
PlainFr(t, ints) == FrameOf(t, ints, FALSE, << >>)
StreamDataFr(id, off, fin, data) == FrameOf(T.STREAM, <<id, off>>, fin, data)

-----------------------------------------------------------------------------
(* dwnx_frame_encode: len is computed before anything is written            *)

Encoding(len, s) == [len |-> len, bytes |-> s]

IntsLen(ints) == Total([i \in DOMAIN ints |-> PutLen(ints[i])])
PutInts(ints) == Joined([i \in DOMAIN ints |-> Put(ints[i])])

\* A type of one byte and integers.
EncodeInts(fr) == Encoding(1 + IntsLen(fr.ints), <<fr.type>> \o PutInts(fr.ints))

\* RESET_STREAM and STOP_SENDING; MAX_DATA, MAX_STREAM_DATA and MAX_STREAMS; the
\* frames that say which limit blocks.
EncodeStreamError(fr) == EncodeInts(fr)
EncodeMax(fr) == EncodeInts(fr)
EncodeBlocked(fr) == EncodeInts(fr)

EncodePing(fr) == Encoding(PutLen(fr.type) + IntsLen(fr.ints), Put(fr.type) \o PutInts(fr.ints))

\* A run of PADDING frames.
EncodePadding(fr) == Encoding(Len(fr.data), [i \in DOMAIN fr.data |-> 0])

\* ints is the parameters.
EncodeParamsOf(fr, n) ==
  Encoding(PutLen(fr.type) + PutLen(n) + n, Put(fr.type) \o Put(n) \o ParamsEncode(fr.ints))
EncodeParams(fr) == EncodeParamsOf(fr, ParamsLen(fr.ints))

\* The length field is always there, the offset unless it is 0.
StreamFlags(fr) ==
  LenBit + (IF fr.fin THEN FinBit ELSE 0) + (IF fr.ints[2] # 0 THEN OffBit ELSE 0)

\* Mutant: the length counts an offset of 0.
EncodeStreamOffset(fr) ==
  LET n == Len(fr.data) IN
  Encoding(1 + IntsLen(fr.ints) + PutLen(n) + n,
           <<T.STREAM + StreamFlags(fr)>>
             \o PutInts(IF fr.ints[2] # 0 THEN fr.ints ELSE <<fr.ints[1]>>) \o Put(n) \o fr.data)

EncodeStream(fr) ==
  LET ints == IF fr.ints[2] # 0 THEN fr.ints ELSE <<fr.ints[1]>>
      n == Len(fr.data)
  IN  Encoding(1 + IntsLen(ints) + PutLen(n) + n,
               <<T.STREAM + StreamFlags(fr)>> \o PutInts(ints) \o Put(n) \o fr.data)

\* ints is the error code and, in CONNECTION_CLOSE, the type of a frame.
EncodeClose(fr) ==
  LET n == Len(fr.data) IN
  Encoding(1 + IntsLen(fr.ints) + PutLen(n) + n,
           <<fr.type>> \o PutInts(fr.ints) \o Put(n) \o fr.data)

\* DATAGRAM has no length field; DATAGRAM_LEN has.
EncodeDatagram(fr) ==
  LET size == IF fr.type = T.DATAGRAM_LEN THEN <<Len(fr.data)>> ELSE << >> IN
  Encoding(1 + Len(fr.data) + IntsLen(size), <<fr.type>> \o PutInts(size) \o fr.data)

EncodeFrame(fr) ==
  CASE fr.type = T.PARAMS -> EncodeParams(fr)
    [] fr.type \in {T.PING_REQUEST, T.PING_RESPONSE} -> EncodePing(fr)
    [] fr.type = T.PADDING -> EncodePadding(fr)
    [] fr.type \in {T.RESET_STREAM, T.STOP_SENDING} -> EncodeStreamError(fr)
    [] fr.type = T.STREAM -> EncodeStream(fr)
    [] fr.type \in {T.CONNECTION_CLOSE, T.CONNECTION_CLOSE_APP} -> EncodeClose(fr)
    [] fr.type \in {T.DATAGRAM, T.DATAGRAM_LEN} -> EncodeDatagram(fr)
    [] fr.type \in MaxTypes -> EncodeMax(fr)
    [] fr.type \in BlockedTypes -> EncodeBlocked(fr)

-----------------------------------------------------------------------------
(* dwnx_frd_decode on the bytes s of a whole record, or what is left of it  *)

Bad == [ok |-> FALSE]
Good(n, fr) == [ok |-> TRUE, n |-> n, fr |-> fr]

\* Mutant: only the first byte of a varint need be there.
SkimShort(s, i, k) ==
  LET step(d, j) ==
        LET n == VarintLen(s[d.p]) IN
        IF ~d.ok \/ Len(s) < d.len THEN [d EXCEPT !.ok = FALSE]
        ELSE [ok |-> TRUE, len |-> d.len + n - 1, p |-> d.p + n,
              v |-> Append(d.v, Value(0, Unmarked(SubSeq(s, d.p, Min({Len(s), d.p + n - 1})))))]
  IN  FoldLeft(step, [ok |-> Len(s) >= i - 1 + k, len |-> i - 1 + k, p |-> i, v |-> << >>],
               [j \in 1..k |-> j])

\* k varints from position i: len grows from one byte for each as their
\* lengths are seen, and the input must hold len bytes each time.
Skim(s, i, k) ==
  LET step(d, j) ==
        LET n == VarintLen(s[d.p]) IN
        IF ~d.ok \/ Len(s) < d.len + n - 1 THEN [d EXCEPT !.ok = FALSE]
        ELSE [ok |-> TRUE, len |-> d.len + n - 1, p |-> d.p + n,
              v |-> Append(d.v, Value(0, Unmarked(SubSeq(s, d.p, d.p + n - 1))))]
  IN  FoldLeft(step, [ok |-> Len(s) >= i - 1 + k, len |-> i - 1 + k, p |-> i, v |-> << >>],
               [j \in 1..k |-> j])

\* k varints and nothing else after the type.
DecodeInts(s, k) ==
  LET d == Skim(s, 2, k) IN IF d.ok THEN Good(d.len, PlainFr(s[1], d.v)) ELSE Bad

DecodeStreamError(s) == DecodeInts(s, IF s[1] = T.RESET_STREAM THEN 3 ELSE 2)

DecodeMax(s) == DecodeInts(s, IF s[1] = T.MAX_STREAM_DATA THEN 2 ELSE 1)

DecodeBlocked(s) == DecodeInts(s, IF s[1] = T.STREAM_DATA_BLOCKED THEN 2 ELSE 1)

\* The first byte that is not PADDING ends the run.
DecodePadding(s) ==
  LET n == Max({i \in 1..Len(s) : \A j \in 1..i : s[j] = T.PADDING}) IN
  Good(n, FrameOf(T.PADDING, << >>, FALSE, SubSeq(s, 1, n)))

DecodePing(s) ==
  LET d == Skim(s, 1, 2) IN
  IF d.ok THEN Good(d.len, PlainFr(d.v[1], <<d.v[2]>>)) ELSE Bad

\* The bytes that k - 1 varints and a length announce: the frame ends within the
\* input.
AnnouncedBy(s, d, k) ==
  IF ~d.ok \/ (d.ok /\ Len(s) - d.len < d.v[k]) THEN Bad
  ELSE [ok |-> TRUE, len |-> d.len + d.v[k], v |-> SubSeq(d.v, 1, k - 1),
        data |-> SubSeq(s, d.p, d.p + d.v[k] - 1)]

Announced(s, i, k) == AnnouncedBy(s, Skim(s, i, k), k)

ParamsFrameOf(d, q) ==
  IF d.ok /\ q.ok THEN Good(d.len, PlainFr(d.v[1], q.p)) ELSE Bad
ParamsIn(d) == ParamsFrameOf(d, ParamsDecode(d.data))
DecodeParams(s) == ParamsIn(Announced(s, 1, 2))

\* Flag Bit of a STREAM frame's type.
Has(type, bit) == ((type - T.STREAM) \div bit) % 2 = 1

StreamIn(s, d) ==
  IF ~d.ok THEN Bad
  ELSE Good(d.len, StreamDataFr(d.v[1], IF Has(s[1], OffBit) THEN d.v[2] ELSE 0,
                                Has(s[1], FinBit), d.data))

\* Without a length the data goes on to the end.
ToTheEnd(s, h) == [ok |-> h.ok, len |-> Len(s), v |-> h.v, data |-> SubSeq(s, h.p, Len(s))]

DecodeStream(s) ==
  LET k == IF Has(s[1], OffBit) THEN 2 ELSE 1 IN
  StreamIn(s, IF Has(s[1], LenBit) THEN Announced(s, 2, k + 1) ELSE ToTheEnd(s, Skim(s, 2, k)))

DecodeClose(s) ==
  LET k == IF s[1] = T.CONNECTION_CLOSE THEN 2 ELSE 1
      d == Announced(s, 2, k + 1)
  IN  IF d.ok THEN Good(d.len, FrameOf(s[1], d.v, FALSE, d.data)) ELSE Bad

DecodeDatagram(s) ==
  LET d == Announced(s, 2, 1) IN
  IF s[1] = T.DATAGRAM THEN Good(Len(s), FrameOf(s[1], << >>, FALSE, Tail(s)))
  ELSE IF d.ok THEN Good(d.len, FrameOf(s[1], << >>, FALSE, d.data)) ELSE Bad

\* The first byte is the type, unless it is none of these: then the type is a
\* varint.
DecodeFrame(s) ==
  IF s = << >> THEN Bad
  ELSE
    CASE s[1] = T.PADDING -> DecodePadding(s)
      [] s[1] \in {T.RESET_STREAM, T.STOP_SENDING} -> DecodeStreamError(s)
      [] s[1] \in MaxTypes -> DecodeMax(s)
      [] s[1] \in BlockedTypes -> DecodeBlocked(s)
      [] s[1] \in {T.CONNECTION_CLOSE, T.CONNECTION_CLOSE_APP} -> DecodeClose(s)
      [] s[1] \in {T.DATAGRAM, T.DATAGRAM_LEN} -> DecodeDatagram(s)
      [] s[1] \in StreamTypes -> DecodeStream(s)
      [] OTHER ->
           LET long == Skim(s, 1, 1) IN
           IF ~long.ok THEN Bad
           ELSE IF long.v[1] = T.PARAMS THEN DecodeParams(s)
           ELSE IF long.v[1] \in QxTypes THEN DecodePing(s)
           ELSE Bad

-----------------------------------------------------------------------------
(* dwnx_frame_encode_buf and dwnx_frd_decode_buf                            *)

FrameInit ==
  room \in BufferSizes /\ bytes = << >> /\ put = << >> /\ got = << >>

\* DWNX_ERR_NOBUF leaves the buffer as it is.
EncodedAs(fr, e) ==
  /\ e.len <= room
  /\ room' = room - e.len
  /\ bytes' = bytes \o e.bytes
  /\ put' = Append(put, fr)

EncodeBuf(fr) ==
  /\ got = << >> /\ Len(put) < MaxFrames
  /\ EncodedAs(fr, EncodeFrame(fr))
  /\ UNCHANGED got

DecodedAs(d) ==
  /\ d.ok
  /\ bytes' = SubSeq(bytes, d.n + 1, Len(bytes))
  /\ got' = Append(got, d.fr)

DecodeBuf ==
  /\ put # << >>
  /\ DecodedAs(DecodeFrame(bytes))
  /\ UNCHANGED <<room, put>>

FrameNext == (\E fr \in SomeFrames : EncodeBuf(fr)) \/ DecodeBuf

-----------------------------------------------------------------------------

\* What a decoder makes of frame fr: only the idle timeout loses something.
Carried(fr) ==
  IF fr.type # T.PARAMS THEN fr
  ELSE [fr EXCEPT !.ints.idle = (@ \div Milliseconds) * Milliseconds]

\* Runs of padding are one frame, and a DATAGRAM without a length takes all
\* that follows it.
Endless(fr) == fr.type \in {T.PADDING, T.DATAGRAM}

\* Frames come out of a buffer as they were put into it: each encoder writes
\* the bytes that its length, computed before, made room for, and the decoder
\* finds where the frame ends (assert((size_t)(p - out) == len) of the
\* encoders, assert((size_t)(p - payload) == len) of the decoders).
FramesRoundTrip ==
  (\A i \in DOMAIN put : Endless(put[i]) => i = Len(put)) =>
    /\ got # << >> =>
         /\ Len(got) <= Len(put)
         /\ \A i \in DOMAIN got : got[i] = Carried(put[i])
         /\ bytes = << >> <=> got = [i \in DOMAIN put |-> Carried(put[i])]
    /\ got = << >> =>
         Len(bytes) = Total([i \in DOMAIN put |-> EncodeFrame(put[i]).len])

\* A frame that was cut short is refused, wherever it was cut: no decoder
\* takes a part for the whole, or reads what is not there.
CutFrameRefused ==
  put # << >> /\ got = << >> /\ Len(put) = 1 /\ ~Endless(put[1]) =>
    \A n \in 0..(Len(bytes) - 1) : ~DecodeFrame(SubSeq(bytes, 1, n)).ok
=============================================================================
