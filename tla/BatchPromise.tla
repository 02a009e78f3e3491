---------------------------- MODULE BatchPromise ----------------------------
(***************************************************************************)
(* What an OperationMux promises each request, whatever other requests are *)
(* handled at the same time: its items are answered one after the other,   *)
(* each answer carries the operation and the ID of the item it answers,    *)
(* and a reply is complete.                                                *)
(***************************************************************************)
EXTENDS Naturals, Sequences

CONSTANTS Conns, Batches

VARIABLES
  phase,    \* of each connection: "idle", "busy" or "dead"
  asked,    \* its batch
  answers   \* the answers so far

vars == <<phase, asked, answers>>

Init ==
  /\ phase = [c \in Conns |-> "idle"]
  /\ asked = [c \in Conns |-> <<>>]
  /\ answers = [c \in Conns |-> <<>>]

Ask(c) ==
  /\ phase[c] = "idle"
  /\ phase' = [phase EXCEPT ![c] = "busy"]
  /\ \E b \in Batches : asked' = [asked EXCEPT ![c] = b]
  /\ answers' = [answers EXCEPT ![c] = <<>>]

Answer(c) ==
  /\ phase[c] = "busy"
  /\ Len(answers[c]) < Len(asked[c])
  /\ Len(answers'[c]) = Len(answers[c]) + 1
  /\ LET n == Len(answers'[c])
         a == answers'[c][n]
     IN  /\ answers' = [answers EXCEPT ![c] = Append(@, a)]
         /\ a.op = asked[c][n].op /\ a.uid = asked[c][n].uid
  /\ UNCHANGED <<phase, asked>>

Reply(c) ==
  /\ phase[c] = "busy"
  /\ Len(answers[c]) = Len(asked[c])
  /\ phase' = [phase EXCEPT ![c] = "idle"]
  /\ UNCHANGED <<asked, answers>>

End(c) ==
  /\ phase[c] = "busy"
  /\ phase' = [phase EXCEPT ![c] = "dead"]
  /\ UNCHANGED <<asked, answers>>

\* A new connection.
Connect(c) ==
  /\ phase[c] = "dead"
  /\ phase' = [phase EXCEPT ![c] = "idle"]
  /\ UNCHANGED <<asked, answers>>

Next == \E c \in Conns : Ask(c) \/ Answer(c) \/ Reply(c) \/ End(c) \/ Connect(c)

Spec == Init /\ [][Next]_vars
=============================================================================
