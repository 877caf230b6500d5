----------------------------- MODULE CreditFlow -----------------------------
(***************************************************************************)
(* What flow control promises, for one direction of a connection or of a   *)
(* stream: the receiver announces a limit, the sender learns of it later,  *)
(* and sends no more than it knows it may; the receiver gets what is sent, *)
(* later.  Only numbers of bytes are left of the messages.                 *)
(***************************************************************************)
EXTENDS Naturals

CONSTANT Window      \* the limit both sides start from, a number

VARIABLES
  limit,    \* what the receiver allows
  known,    \* what the sender knows it may send
  sent,     \* how much it has sent
  got       \* how much of that has arrived

vars == <<limit, known, sent, got>>

Init == limit = Window /\ known = Window /\ sent = 0 /\ got = 0

Grant   == limit' > limit /\ UNCHANGED <<known, sent, got>>
Learn   == known < known' /\ known' <= limit /\ UNCHANGED <<limit, sent, got>>
Send    == sent < sent' /\ sent' <= known /\ UNCHANGED <<limit, known, got>>
Receive == got < got' /\ got' <= sent /\ UNCHANGED <<limit, known, sent>>

Next == Grant \/ Learn \/ Send \/ Receive

Spec == Init /\ [][Next]_vars

Ordered == got <= sent /\ sent <= known /\ known <= limit
=============================================================================
