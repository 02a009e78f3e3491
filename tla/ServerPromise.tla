--------------------------- MODULE ServerPromise ---------------------------
(***************************************************************************)
(* What a Server promises its users, with no mutex, no flag and no map: a  *)
(* set of Serve calls accepting connections, until a Close or Shutdown     *)
(* returns.  From then on nobody accepts, but a connection that was        *)
(* accepted is still handed over and served to its end.                    *)
(***************************************************************************)

CONSTANTS Calls, Conns

VARIABLES
  accepting,  \* the Serve calls that can accept a connection
  closed,     \* a Close or Shutdown has returned
  conn        \* per connection: how far it got

vars == <<accepting, closed, conn>>

Init ==
  /\ accepting = {}
  /\ closed = FALSE
  /\ conn = [c \in Conns |-> "dialing"]

\* A Serve call begins to accept.
Start(s) ==
  /\ ~closed
  /\ accepting' = accepting \cup {s}
  /\ UNCHANGED <<closed, conn>>

\* A Serve call stops accepting: its listener failed or was closed.
Stop(s) ==
  /\ accepting' = accepting \ {s}
  /\ UNCHANGED <<closed, conn>>

\* The first Close or Shutdown returns.
Close ==
  /\ accepting = {}
  /\ closed' = TRUE
  /\ UNCHANGED <<accepting, conn>>

Accept(c) ==
  /\ accepting # {}
  /\ conn[c] = "dialing"
  /\ conn' = [conn EXCEPT ![c] = "accepted"]
  /\ UNCHANGED <<accepting, closed>>

HandOver(c) ==
  /\ conn[c] = "accepted"
  /\ conn' = [conn EXCEPT ![c] = "serving"]
  /\ UNCHANGED <<accepting, closed>>

End(c) ==
  /\ conn[c] = "serving"
  /\ conn' = [conn EXCEPT ![c] = "ended"]
  /\ UNCHANGED <<accepting, closed>>

Next ==
  \/ \E s \in Calls : Start(s) \/ Stop(s)
  \/ Close
  \/ \E c \in Conns : Accept(c) \/ HandOver(c) \/ End(c)

Spec == Init /\ [][Next]_vars
=============================================================================
