--------------------------- MODULE ClientService ---------------------------
(***************************************************************************)
(* What the template provider and the connection manager may rely on about *)
(* a client: the life of its entry in m_sv2_clients, and what is queued    *)
(* for it.  Sv2Connman, which has the details, and Sv2TemplateProvider,    *)
(* which has just as much of them as its threads can see, both implement   *)
(* it.                                                                     *)
(***************************************************************************)
EXTENDS Naturals, Sequences

CONSTANTS
  Clients,
  WorkMsgs            \* the messages that bring a client a template or its prevhash

VARIABLES
  state,          \* client -> "absent", "ready" or "gone"
  flagged,        \* clients that are to be disconnected
  out             \* client -> all that was ever queued for it

vars == <<state, flagged, out>>

Init ==
  /\ state = [c \in Clients |-> "absent"]
  /\ flagged = [c \in Clients |-> FALSE]
  /\ out = [c \in Clients |-> <<>>]

\* The client asked for templates.
Admit(c) ==
  /\ state[c] = "absent" /\ ~flagged[c]
  /\ state' = [state EXCEPT ![c] = "ready"]
  /\ UNCHANGED <<flagged, out>>

\* Messages are added at the end of the queue, work only once it was asked for; and
\* the client may be flagged for good.
Serve(c) ==
  /\ state[c] # "gone"
  /\ \A d \in Clients \ {c} : flagged'[d] = flagged[d] /\ out'[d] = out[d]
  /\ flagged[c] => flagged'[c]
  /\ Len(out[c]) <= Len(out'[c]) /\ SubSeq(out'[c], 1, Len(out[c])) = out[c]
  /\ \A i \in (Len(out[c]) + 1)..Len(out'[c]) : out'[c][i] \in WorkMsgs => state[c] = "ready"
  /\ UNCHANGED state

\* Clients that are flagged are removed.
Remove(gone) ==
  /\ \A c \in gone : flagged[c]
  /\ state' = [c \in Clients |-> IF c \in gone THEN "gone" ELSE state[c]]
  /\ UNCHANGED <<flagged, out>>

Next == (\E c \in Clients : Admit(c) \/ Serve(c)) \/ (\E gone \in SUBSET Clients : Remove(gone))

Spec == Init /\ [][Next]_vars
=============================================================================
