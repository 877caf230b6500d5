------------------------------- MODULE Codec --------------------------------
(***************************************************************************)
(* What turns frames into bytes and bytes into frames, held against each   *)
(* other: what the writer of records writes is what the reader of records  *)
(* reads, and the two decoders find the same frames in the same bytes.     *)
(***************************************************************************)
EXTENDS RecordReader, RecordWriter

\* What the record reader hands on for frame fr, with the bytes s that stand for
\* it: the type as it was sent, integers, and what the frame carries; of a
\* field whose bytes are handed on together no end is told.
Items(fr, s) ==
  LET type == IF fr.type = T.STREAM THEN s[1] ELSE fr.type
      ints == IF fr.type = T.STREAM /\ ~Has(s[1], OffBit) THEN <<fr.ints[1]>> ELSE fr.ints
      body == BytesOf(fr.data)
  IN
  IF fr.type = T.PADDING THEN << >>
  ELSE IF fr.type = T.PARAMS THEN <<Item("frame", <<type>>)>> \o BytesOf(ParamsEncode(fr.ints))
  ELSE <<Item("frame", <<type>> \o ints)>> \o body
         \o IF fr.type \in {T.STREAM, T.DATAGRAM, T.DATAGRAM_LEN} THEN <<End>> ELSE << >>

\* The reader of a peer that takes records of the default size.
Peer == INSTANCE RecordReader WITH MaxRecord <- DefaultMaxRecordSize,
                                   MaxDatagram <- MaxDatagramFrameSize

\* The peer reads from the records, in order, the frames that were written into
\* them: transport parameters first and once, nothing lost at the end of a
\* record, and no byte of a stream twice (dwnx_conn_write_vmsg, dwnx_conn_read).
RecordsAreRead ==
  LET sent == [i \in 1..w.final |-> w.log[i]]
      Stream(log) == SelectSeq(log, LAMBDA fr : fr.type = T.STREAM)
      Reads(x) ==
        /\ x.err = "NONE" /\ x.state = "size"
        /\ x.out = FlattenSeq([i \in DOMAIN sent |-> Items(sent[i], EncodeFrame(sent[i]).bytes)])
  IN
  /\ Reads(Peer!Loop(Peer!Start(FALSE), FlattenSeq(out)))
  /\ FirstOffset + FoldLeft(LAMBDA n, fr : n + Len(fr.data), 0, Stream(w.log)) = w.off

\* The frames that dwnx_frd_decode finds in the bytes s of a record, as items.
\* Of the frame d that starts s, own are the bytes.
FrdFrame(s, d, own) ==
  IF d.fr.type = T.PARAMS
    THEN <<Item("frame", <<T.PARAMS>>)>> \o BytesOf(SubSeq(s, d.n - Skim(s, 1, 2).v[2] + 1, d.n))
    ELSE Items(d.fr, own)

RECURSIVE FrdItems(_)
FrdItems(s) ==
  LET FromFrame(d) ==
        IF ~d.ok THEN [ok |-> FALSE, items |-> << >>]
        ELSE LET rest == FrdItems(SubSeq(s, d.n + 1, Len(s))) IN
             [rest EXCEPT !.items = FrdFrame(s, d, SubSeq(s, 1, d.n)) \o @]
  IN  IF s = << >> THEN [ok |-> TRUE, items |-> << >>] ELSE FromFrame(DecodeFrame(s))

\* The two decoders of the library agree: when the bytes of a record decode as
\* frames, dwnx_conn_read hands on these frames, unless it refuses them for
\* what they are (DWNX_ERR_PROTO) or the connection was closed.
DecodersAgree ==
  LET size == VarintLen(fed[1])
      Agree(frd) == frd.ok => r.err = "NONE" /\ r.out = frd.items
      OfRecord(body) ==
        /\ body # << >> /\ Len(body) <= MaxRecord
        /\ Value(0, Unmarked(SubSeq(fed, 1, size))) = Len(body)
        => Agree(FrdItems(body))
  IN
  /\ fed # << >> /\ Len(fed) >= size /\ r.err # "PROTO" /\ r.state # "draining"
  => OfRecord(SubSeq(fed, size + 1, Len(fed)))
=============================================================================
