--------------------------- MODULE SecureChannel ---------------------------
(***************************************************************************)
(* What a pair of connected Sv2Transport objects promises to the code that *)
(* uses them: two FIFO channels, one per direction.  A side can send once  *)
(* its handshake is over.  What it receives is what the peer sent, in      *)
(* order, nothing left out and nothing twice, until it refuses the stream; *)
(* after that it receives nothing any more.  The initiator's handshake is  *)
(* over only after the responder's, and only when the certificate that the *)
(* responder presented is one the initiator trusts.                        *)
(***************************************************************************)
EXTENDS Naturals, Sequences

CONSTANT Messages      \* what can be sent

VARIABLES
  trusted,             \* the responder's certificate is valid
  open,                \* side -> its handshake is complete
  sent,                \* side -> the messages it sent
  delivered,           \* side -> the messages it received
  refused              \* side -> it refused the stream of its peer

vars == <<trusted, open, sent, delivered, refused>>

Sides == {"initiator", "responder"}
Peer(p) == IF p = "initiator" THEN "responder" ELSE "initiator"

Init ==
  /\ trusted \in BOOLEAN
  /\ open = [p \in Sides |-> FALSE]
  /\ sent = [p \in Sides |-> <<>>]
  /\ delivered = [p \in Sides |-> <<>>]
  /\ refused = [p \in Sides |-> FALSE]

Open(p) ==
  /\ ~open[p]
  /\ p = "initiator" => trusted /\ open["responder"]
  /\ open' = [open EXCEPT ![p] = TRUE]
  /\ UNCHANGED <<trusted, sent, delivered, refused>>

Send(p, m) ==
  /\ open[p]
  /\ sent' = [sent EXCEPT ![p] = Append(@, m)]
  /\ UNCHANGED <<trusted, open, delivered, refused>>

Deliver(p) ==
  /\ open[p]
  /\ ~refused[p]
  /\ Len(delivered[p]) < Len(sent[Peer(p)])
  /\ delivered' = [delivered EXCEPT ![p] = Append(@, sent[Peer(p)][Len(@) + 1])]
  /\ UNCHANGED <<trusted, open, sent, refused>>

Refuse(p) ==
  /\ ~refused[p]
  /\ refused' = [refused EXCEPT ![p] = TRUE]
  /\ UNCHANGED <<trusted, open, sent, delivered>>

Next ==
  \E p \in Sides :
    \/ Open(p)
    \/ \E m \in Messages : Send(p, m)
    \/ Deliver(p)
    \/ Refuse(p)

Spec == Init /\ [][Next]_vars
=============================================================================
