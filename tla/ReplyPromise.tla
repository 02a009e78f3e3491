---------------------------- MODULE ReplyPromise ----------------------------
(***************************************************************************)
(* What a kmip.Server promises each client, with no pooled responses, no   *)
(* encoder, no mux and no other connections: a request gets one reply that *)
(* answers it item for item, or the connection ends.                       *)
(***************************************************************************)
EXTENDS Naturals, Sequences

CONSTANTS Conns, Requests, None

VARIABLES
  phase,  \* of each connection: "idle", "busy" or "dead"
  asked,  \* its last request, None before the first
  reply   \* the messages sent in reply to it

vars == <<phase, asked, reply>>

\* The request is one that the server takes to its handlers.
Accepted(r) == r.wellFormed /\ r.sameMajor

\* A reply of n items is within the client's Maximum Response Size.
Fits(r, n) == r.limit > 0 => n <= r.limit

\* The items answer those of the request one by one.
Correlated(items, r) ==
  /\ Len(items) = Len(r.items)
  /\ \A i \in 1 .. Len(r.items) : items[i].op = r.items[i].op /\ items[i].uid = r.items[i].uid

\* A request that is accepted and whose reply fits gets exactly one message,
\* with its correlation value, an item for each of its items and the right
\* count.  Any other request gets at most one message.
Answers(rep, r) ==
  /\ Len(rep) <= 1
  /\ Accepted(r) /\ Fits(r, Len(r.items)) =>
       /\ Len(rep) = 1
       /\ rep[1].ccv = r.ccv
       /\ rep[1].count = Len(r.items)
       /\ Correlated(rep[1].items, r)

Init ==
  /\ phase = [c \in Conns |-> "idle"]
  /\ asked = [c \in Conns |-> None]
  /\ reply = [c \in Conns |-> <<>>]

Ask(c) ==
  /\ phase[c] = "idle"
  /\ phase' = [phase EXCEPT ![c] = "busy"]
  /\ \E r \in Requests : asked' = [asked EXCEPT ![c] = r]
  /\ reply' = [reply EXCEPT ![c] = <<>>]

Reply(c) ==
  /\ phase[c] = "busy"
  /\ phase' = [phase EXCEPT ![c] = "idle"]
  /\ reply' = [reply EXCEPT ![c] = reply'[c]]
  /\ Answers(reply'[c], asked[c])
  /\ UNCHANGED asked

\* The connection ends without a reply: a panic or a client that went away.
End(c) ==
  /\ phase[c] = "busy"
  /\ phase' = [phase EXCEPT ![c] = "dead"]
  /\ UNCHANGED <<asked, reply>>

\* A new connection takes the place of one that ended.
Connect(c) ==
  /\ phase[c] = "dead"
  /\ phase' = [phase EXCEPT ![c] = "idle"]
  /\ asked' = [asked EXCEPT ![c] = None]
  /\ UNCHANGED reply

Next == \E c \in Conns : Ask(c) \/ Reply(c) \/ End(c) \/ Connect(c)

Spec == Init /\ [][Next]_vars
=============================================================================
