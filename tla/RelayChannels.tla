---------------------------- MODULE RelayChannels ----------------------------
(***************************************************************************)
(* What a proxied connection promises its two peers, without buffers,      *)
(* batches or transports: each direction is a reliable FIFO.  The items a  *)
(* peer is handed are, in order and without loss or repetition, the ones   *)
(* that the messages of the other peer produce, merged with the answers to *)
(* its own messages, and every item carries exactly the descriptors of the *)
(* message it stands for.  ProxyLoop implements this specification.        *)
(***************************************************************************)
EXTENDS Integers, Sequences, SequencesExt

CONSTANTS
  Messages,         \* Messages[d]: the messages a peer may send in direction d
  Outputs(_, _, _), \* Outputs(d, k, m): the item that m, k-th message of d, puts in d, if any
  Answers(_, _, _)  \* Answers(d, k, m): the item it puts in the other direction, if any

VARIABLES
  sent,   \* sent[d]: the messages the source of d has sent
  got,    \* got[d]: the items handed to the target of d
  open    \* the connection is up

chanVars == <<sent, got, open>>

Dirs == {"c2h", "h2c"}

Init ==
  /\ sent = [d \in Dirs |-> <<>>]
  /\ got = [d \in Dirs |-> <<>>]
  /\ open = TRUE

\* What the k-th message of d puts in direction e.
Produced(d, k, e) ==
  IF d = e THEN Outputs(d, k, sent[d][k]) ELSE Answers(d, k, sent[d][k])

Send(d, m) ==
  /\ sent' = [sent EXCEPT ![d] = Append(@, m)]
  /\ UNCHANGED <<got, open>>

\* The next item of one source: it comes once, after all that the source's earlier messages
\* put in this direction.
Deliver(e) ==
  /\ open
  /\ \E d \in Dirs : \E k \in 1..Len(sent[d]) : \E item \in Produced(d, k, e) :
       /\ item \notin Range(got[e])
       /\ \A j \in 1..(k - 1) : Produced(d, j, e) \subseteq Range(got[e])
       /\ got' = [got EXCEPT ![e] = Append(@, item)]
  /\ UNCHANGED <<sent, open>>

Close ==
  /\ open' = FALSE
  /\ UNCHANGED <<sent, got>>

Next ==
  \/ \E d \in Dirs : Deliver(d) \/ \E m \in Messages[d] : Send(d, m)
  \/ Close

Spec == Init /\ [][Next]_chanVars
==============================================================================
