------------------------------ MODULE QmuxPair ------------------------------
(***************************************************************************)
(* What two endpoints of the library achieve together: nothing is lost and *)
(* the limits each works with were announced by the other.  MCPair adds    *)
(* what they achieve when the applications keep reading and writing.       *)
(***************************************************************************)
EXTENDS Qmux

-----------------------------------------------------------------------------
(* Safety of two endpoints                                                 *)

\* Two endpoints that run the library never fail each other: no interleaving
\* of shutdowns, resets, credits and records makes one refuse what the other
\* legitimately sent (the error returns of the conn_recv_* handlers).
NoConnectionError == \A e \in Ends : conn[e].err = "NONE"

\* Frames written by the peer of e that e has not read, oldest first.
Unread(e) == wire[e] \o conn[Peer(e)].qre.frames

\* The bytes that the STREAM frame of a batch carries if it is for a stream of
\* S; a batch has no more than one.
BytesOf(F, S) ==
  LET data == {f \in F : f.t = "STREAM" /\ f.id \in S} IN
  IF data = {} THEN 0 ELSE (CHOOSE f \in data : TRUE).len

\* Those that the first n batches carry, for each n, and those of all.
BytesUpTo(batches, S) ==
  LET sum[n \in 0..Len(batches)] ==
        IF n = 0 THEN 0 ELSE sum[n - 1] + BytesOf(batches[n], S)
  IN  sum

BytesIn(batches, S) == BytesUpTo(batches, S)[Len(batches)]

\* Every byte that one side counts as sent is on its way or counted as
\* received by the other, on each stream and on the connection as a whole:
\* streams that close on one side only, or payload that is discarded, do not
\* make the two accounts drift apart (tx.offset, rx.offset, rx.last_offset).
BytesConserved ==
  NoConnectionError =>
    \A e \in Ends : LET c == conn[e]  p == conn[Peer(e)] IN
      /\ p.txOff = c.rxOff + BytesIn(Unread(e), StreamIds)
      /\ \A s \in c.live \cap p.live :
           p.strm[s].txOff = c.strm[s].rxLast + BytesIn(Unread(e), {s})

\* A sender never works with a limit that its peer has not announced: the
\* limits of the sender trail those of the receiver, and are equal to them
\* when no frame is on its way (rx.max_offset against the peer's
\* tx.max_offset, rx.{bidi,uni}.max_streams against tx.{bidi,uni}.max_streams).
LimitsAgree ==
  NoConnectionError =>
    \A e \in Ends : LET c == conn[e]  p == conn[Peer(e)] IN
      /\ p.txMax <= c.rxMax
      /\ \A d \in Direction : p.txStreams[d] <= c.rxStreams[d]
      /\ \A s \in c.live \cap p.live : p.strm[s].txMax <= c.strm[s].rxMax
      /\ conn[e].qre.frames = << >> /\ wire[Peer(e)] = << >> =>
           /\ p.txMax = c.rxMax
           /\ \A d \in Direction : p.txStreams[d] = c.rxStreams[d]
           /\ \A s \in c.live \cap p.live :
                p.strm[s].txMax = c.strm[s].rxMax

\* Flow control of the connection toward either endpoint, as CreditFlow sees it.
ToClient == INSTANCE CreditFlow
  WITH Window <- Params[0].maxData, limit <- conn[0].rxMax, known <- conn[1].txMax,
       sent <- conn[1].txOff, got <- conn[0].rxOff

ToServer == INSTANCE CreditFlow
  WITH Window <- Params[1].maxData, limit <- conn[1].rxMax, known <- conn[0].txMax,
       sent <- conn[0].txOff, got <- conn[1].rxOff

\* The accounts that the two connections keep implement CreditFlow in both
\* directions (rx.max_offset, tx.max_offset, tx.offset and rx.offset of
\* dwnx_conn).
FlowControl == ToClient!Spec /\ ToServer!Spec

-----------------------------------------------------------------------------
(* Progress                                                                *)

Has(e, s, flag) == s \in conn[e].live /\ flag \in conn[e].strm[s].flags

ReadSideOver(e, s) == s \notin conn[e].live \/ Has(e, s, "SHUT_RD")

\* The stream is freed, or the window of its reader is not about to be announced.
Credited(e, s) == s \notin conn[e].live \/ ~NeedsCredit(conn[e], s)
=============================================================================
