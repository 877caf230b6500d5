-------------------------- MODULE TransportParams ---------------------------
(***************************************************************************)
(* lib/dwnx_transport_params.c: transport parameters as pairs of an id and *)
(* a value with its length.  A parameter that has its default value is not *)
(* written; the idle timeout is kept in nanoseconds and sent in            *)
(* milliseconds.                                                           *)
(***************************************************************************)
EXTENDS Varint, FiniteSetsExt

CONSTANTS
  Id,             \* Id[f]: DWNX_TRANSPORT_PARAM_* of field f
  Prohibited,     \* the ids a peer must not send
  Milliseconds,   \* DWNX_MILLISECONDS
  UINT64_MAX,         \* UINT64_MAX
  MaxStreamsParam,  \* DWNX_MAX_STREAMS
  ParamValues,    \* bound: the values of the fields that are encoded
  ParamBytes,     \* bound: the bytes that are decoded
  MaxParamBytes   \* bound: how many

\* The fields in the order in which dwnx_transport_params_encode writes them.
Order == <<"bidiLocal", "bidiRemote", "uni", "data", "streamsBidi", "streamsUni",
           "idle", "recordSize", "datagram">>
Field == ToSet(Order)

ASSUME ParamsCodecAssumption ==
  /\ Id \in [Field -> Nat] /\ \A f, g \in Field : Id[f] = Id[g] => f = g
  /\ \A f \in Field : Id[f] \notin Prohibited
  /\ Milliseconds \in Nat \ {0} /\ UINT64_MAX \in Nat /\ MaxStreamsParam \in Nat
  /\ ParamBytes \subseteq 0..(Byte - 1) /\ MaxParamBytes \in Nat

VARIABLES
  params,   \* what was encoded last
  pbytes    \* what is decoded

paramVars == <<params, pbytes>>

DefaultMaxRecordSize == Limit2 - 2

\* dwnx_transport_params_default
Default == [f \in Field |-> IF f = "recordSize" THEN DefaultMaxRecordSize ELSE 0]

-----------------------------------------------------------------------------
(* dwnx_transport_params_encode                                            *)

\* What is sent for field f: milliseconds for the idle timeout.
SentValue(p, f) == IF f = "idle" THEN p[f] \div Milliseconds ELSE p[f]

Written(p, f) == p[f] # Default[f]

VarintParamLen(id, v) == PutLen(id) + PutLen(PutLen(v)) + PutLen(v)

WriteVarintParam(id, v) == Put(id) \o Put(PutLen(v)) \o Put(v)

ParamsLen(p) ==
  Total([i \in DOMAIN Order |->
           LET f == Order[i] IN
           IF Written(p, f) THEN VarintParamLen(Id[f], SentValue(p, f)) ELSE 0])

ParamsEncode(p) ==
  Joined([i \in DOMAIN Order |->
            LET f == Order[i] IN
            IF Written(p, f) THEN WriteVarintParam(Id[f], SentValue(p, f)) ELSE << >>])

-----------------------------------------------------------------------------
(* dwnx_transport_params_decode, a loop over the bytes s; i is the position *)
(* of the next and d what was decoded so far                                *)

Malformed == [ok |-> FALSE]
Decoded(i, v) == [ok |-> TRUE, next |-> i, val |-> v]

DecodeVarint(s, i) ==
  IF i > Len(s) \/ Len(s) - i + 1 < VarintLen(s[i]) THEN Malformed
  ELSE LET n == VarintLen(s[i]) IN Decoded(i + n, Value(0, Unmarked(SubSeq(s, i, i + n - 1))))

\* Mutant: the length of a value need not be that of its varint.
DecodeAnyLength(s, i) ==
  LET n == DecodeVarint(s, i) IN
  IF ~n.ok \/ n.next > Len(s) \/ Len(s) - n.next + 1 < n.val THEN Malformed
  ELSE LET v == DecodeVarint(s, n.next) IN
       IF v.ok THEN Decoded(n.next + n.val, v.val) ELSE Malformed

\* decode_varint_param: the length of a value must be that of its varint.
DecodeVarintParam(s, i) ==
  LET n == DecodeVarint(s, i) IN
  IF \/ ~n.ok \/ n.next > Len(s) \/ Len(s) - n.next + 1 < n.val
     \/ VarintLen(s[n.next]) # n.val
    THEN Malformed
  ELSE DecodeVarint(s, n.next)

\* An unknown parameter is skipped.
SkipParam(s, i) ==
  LET n == DecodeVarint(s, i) IN
  IF ~n.ok \/ Len(s) - n.next + 1 < n.val THEN Malformed ELSE Decoded(n.next + n.val, 0)

\* Mutant: the product is not limited.
UnlimitedField(f, v) == IF f = "idle" THEN (v * Milliseconds) % (UINT64_MAX + 1) ELSE v

\* The value that field f gets; the idle timeout is cut to what 64 bits hold.
FieldValue(f, v) ==
  IF f # "idle" THEN v
  ELSE IF v > UINT64_MAX \div Milliseconds THEN (UINT64_MAX \div Milliseconds) * Milliseconds
  ELSE v * Milliseconds

TooManyStreams(f, v) == f \in {"streamsBidi", "streamsUni"} /\ v > MaxStreamsParam

FieldsOf(id) == {f \in Field : id.ok /\ Id[f] = id.val}

\* One turn of the loop: id was decoded, F holds the field it names, if any.
DecodeNamed(d, id, F) ==
  LET f == CHOOSE x \in F : TRUE
      Keep(v) == IF ~v.ok \/ (F # {} /\ TooManyStreams(f, v.val)) THEN [d EXCEPT !.ok = FALSE]
                 ELSE [d EXCEPT !.i = v.next,
                                !.p = IF F = {} THEN @ ELSE [@ EXCEPT ![f] = FieldValue(f, v.val)]]
  IN
  IF ~id.ok \/ (F = {} /\ id.val \in Prohibited) THEN [d EXCEPT !.ok = FALSE]
  ELSE Keep(IF F # {} THEN DecodeVarintParam(d.s, id.next) ELSE SkipParam(d.s, id.next))

DecodeId(d, id) == DecodeNamed(d, id, FieldsOf(id))
DecodeParam(d) == DecodeId(d, DecodeVarint(d.s, d.i))

\* A turn needs two bytes or more; a byte that is left over is malformed.
AfterParams(s, end) == [ok |-> end.ok /\ end.i = Len(s) + 1, p |-> end.p]

ParamsDecode(s) ==
  AfterParams(s, FoldLeft(
    LAMBDA d, turn : IF d.ok /\ Len(s) - d.i + 1 >= 2 THEN DecodeParam(d) ELSE d,
    [s |-> s, i |-> 1, p |-> Default, ok |-> TRUE], [turn \in 1..Len(s) |-> turn]))

-----------------------------------------------------------------------------
(* What a client keeps for early data of another connection                *)

\* dwnx_conn_encode_0rtt_transport_params: p are the server's, and the timeout
\* is kept by the server only.
KeptForEarlyData(server, p) ==
  [f \in Field |-> IF f = "recordSize" \/ (f = "idle" /\ ~server) THEN Default[f] ELSE p[f]]

\* dwnx_conn_set_0rtt_remote_transport_params
EarlyParams(p) == [f \in Field |-> IF f \in {"recordSize", "idle"} THEN Default[f] ELSE p[f]]

\* dwnx_conn_validate_early_transport_params: q are announced now.
ValidEarly(early, q) == \A f \in Field \ {"recordSize", "idle"} : early[f] <= q[f]

\* What is worked with after p was kept and loaded again.
Remember(server, p) == EarlyParams(ParamsDecode(ParamsEncode(KeptForEarlyData(server, p))).p)

-----------------------------------------------------------------------------

ParamsInit == params = Default /\ pbytes = << >>

Encode ==
  /\ pbytes = << >>
  /\ \E p \in ParamValues : params' = p /\ pbytes' = ParamsEncode(p)

\* One more byte from the peer.
Receive ==
  /\ params = Default /\ Len(pbytes) < MaxParamBytes
  /\ \E b \in ParamBytes : pbytes' = Append(pbytes, b)
  /\ UNCHANGED params

ParamsNext == Encode \/ Receive

-----------------------------------------------------------------------------

\* The length that dwnx_transport_params_encode announces, which the length of
\* the frame is made of, is what it writes, and what it writes is decoded to
\* the parameters, the idle timeout cut to milliseconds.
ParamsRoundTrip ==
  LET FromTo(s, d) ==
        pbytes = s => /\ Len(pbytes) = ParamsLen(params)
                      /\ d = [ok |-> TRUE,
                               p |-> [params EXCEPT !.idle = (@ \div Milliseconds) * Milliseconds]]
  IN  FromTo(ParamsEncode(params), ParamsDecode(pbytes))

\* Whatever is accepted from a peer can be kept and given back: it is encoded
\* again to something that decodes to the same parameters and is not longer than
\* what was received; and a server that announces the same again is not refused
\* when an end kept it for early data, one that announces less is
\* (dwnx_conn_encode_0rtt_transport_params,
\* dwnx_conn_validate_early_transport_params).
AcceptedIsKept ==
  LET EarlyOK(d, early) ==
        /\ ValidEarly(early, d.p)
        /\ \A f \in Field \ {"recordSize", "idle"} :
             d.p[f] > 0 => ~ValidEarly(early, [d.p EXCEPT ![f] = @ - 1])
      Again(d, s) == ParamsDecode(s) = d /\ Len(s) <= Len(pbytes)
      Accepted(d) ==
        d.ok => /\ Again(d, ParamsEncode(d.p))
                /\ \A f \in Field : d.p[f] <= UINT64_MAX
                /\ \A server \in BOOLEAN : EarlyOK(d, Remember(server, d.p))
  IN  Accepted(ParamsDecode(pbytes))
=============================================================================
