--------------------------- MODULE MessageStream ---------------------------
(***************************************************************************)
(* What a connection promises its handler, with no bytes and no buffers:   *)
(* the messages the client sent arrive one at a time, whole, unchanged, in *)
(* order and without gaps, until the connection closes.                    *)
(***************************************************************************)
EXTENDS Naturals, Sequences

CONSTANT Message

VARIABLES
  sent,      \* the messages of the client, in order
  received,  \* the messages the handler got, in order
  closed     \* no further message will be handed over

vars == <<sent, received, closed>>

Init ==
  /\ sent = <<>>
  /\ received = <<>>
  /\ closed = FALSE

\* The client sends one more message.
Send ==
  /\ sent' \in Seq(Message)
  /\ Len(sent') = Len(sent) + 1
  /\ \A i \in 1 .. Len(sent) : sent'[i] = sent[i]
  /\ UNCHANGED <<received, closed>>

\* The handler gets the next message that was sent.
Receive ==
  /\ ~closed
  /\ Len(received) < Len(sent)
  /\ received' = Append(received, sent[Len(received) + 1])
  /\ UNCHANGED <<sent, closed>>

\* The connection closes, at any time, for good.
Close ==
  /\ closed' = TRUE
  /\ UNCHANGED <<sent, received>>

Next ==
  \/ Send
  \/ Receive
  \/ Close

Spec == Init /\ [][Next]_vars
=============================================================================
