-------------------------- MODULE ServerLifecycle --------------------------
(***************************************************************************)
(* The life of a kmip.Server (requests.go): any number of Serve calls,     *)
(* each with its own listener and accept loop, any number of Close or      *)
(* Shutdown calls, and the connections the accept loops hand over to       *)
(* their goroutines.  Everything runs concurrently; the only               *)
(* synchronisation is the mutex srv.mu and the atomic flag inShutdown.     *)
(*                                                                         *)
(* A step is what one goroutine does between two points where another one  *)
(* can observe it: taking or releasing srv.mu, the load and the store of   *)
(* inShutdown, one Listener.Close, one return of Accept.                   *)
(***************************************************************************)
EXTENDS Naturals

CONSTANTS
  Calls,         \* calls of Serve, each with a listener of its own
  Closers,       \* calls of Close or Shutdown
  Conns,         \* connections that clients may open
  NoOne,         \* srv.mu is not held
  NoConn,        \* no connection is waiting to be handed over
  InitialDelay,  \* first backoff after a timed-out Accept: 5 milliseconds
  MaxDelay       \* longest backoff: 1 second

ASSUME ActorsAssumption == /\ Calls \cap Closers = {}
                           /\ NoOne \notin Calls \cup Closers
                           /\ NoConn \notin Conns

ASSUME DelayAssumption == /\ InitialDelay \in Nat \ {0}
                          /\ MaxDelay \in Nat
                          /\ InitialDelay <= MaxDelay

VARIABLES
  inShutdown,  \* srv.inShutdown # 0
  mu,          \* the goroutine that holds srv.mu, or NoOne
  listeners,   \* srv.listeners: the Serve calls whose listener is tracked
  open,        \* the Serve calls whose net.Listener has not been closed
  closeErr,    \* per Serve call: onceCloseListener.closeErr
  closes,      \* per Serve call: Close calls that reached its net.Listener
  pc,          \* where each Serve, Close or Shutdown call is
  acceptErr,   \* per Serve call: the error of its last failed Accept
  tempDelay,   \* per Serve call: the backoff, in milliseconds
  result,      \* per call: the error it returns, "none" while undecided
  rw,          \* per Serve call: the connection Accept has just returned
  connState,   \* per connection: how far it got
  lateCall     \* history: Serve calls made after inShutdown was stored

vars == <<inShutdown, mu, listeners, open, closeErr, closes, pc, acceptErr,
          tempDelay, result, rw, connState, lateCall>>

listenerVars == <<listeners, open, closeErr, closes>>
loopVars     == <<acceptErr, tempDelay, rw, connState>>

CallPc == {"uncalled", "trackLock", "trackCheck", "trackAdd", "accept",
           "spawn", "failed", "sleep", "untrack", "untrackLocked", "close",
           "returned"}
CloserPc == {"uncalled", "lock", "closing", "returned"}
AcceptErrors == {"none", "timeout", "permanent", "closed"}
Results == {"none", "nil", "ErrServerClosed", "acceptErr", "closeErr"}
ConnStates == {"dialing", "accepted", "serving", "ended"}

TypeOK ==
  /\ inShutdown \in BOOLEAN
  /\ mu \in Calls \cup Closers \cup {NoOne}
  /\ listeners \subseteq Calls
  /\ open \subseteq Calls
  /\ closeErr \in [Calls -> BOOLEAN]
  /\ closes \in [Calls -> Nat]
  /\ pc \in [Calls \cup Closers -> CallPc \cup CloserPc]
  /\ \A s \in Calls : pc[s] \in CallPc
  /\ \A k \in Closers : pc[k] \in CloserPc
  /\ acceptErr \in [Calls -> AcceptErrors]
  /\ tempDelay \in [Calls -> 0 .. MaxDelay]
  /\ result \in [Calls \cup Closers -> Results]
  /\ rw \in [Calls -> Conns \cup {NoConn}]
  /\ connState \in [Conns -> ConnStates]
  /\ lateCall \subseteq Calls

Init ==
  /\ inShutdown = FALSE
  /\ mu = NoOne
  /\ listeners = {}
  /\ open = Calls
  /\ closeErr = [s \in Calls |-> FALSE]
  /\ closes = [s \in Calls |-> 0]
  /\ pc = [p \in Calls \cup Closers |-> "uncalled"]
  /\ acceptErr = [s \in Calls |-> "none"]
  /\ tempDelay = [s \in Calls |-> 0]
  /\ result = [p \in Calls \cup Closers |-> "none"]
  /\ rw = [s \in Calls |-> NoConn]
  /\ connState = [c \in Conns |-> "dialing"]
  /\ lateCall = {}

Goto(p, from, to) == pc[p] = from /\ pc' = [pc EXCEPT ![p] = to]

----------------------------------------------------------------------------
(***************************************************************************)
(* srv.mu and the listener wrapper.                                        *)
(***************************************************************************)

Lock(p) == mu = NoOne /\ mu' = p

Unlock(p) == mu = p /\ mu' = NoOne

\* onceCloseListener.Close: the first call closes the net.Listener and keeps
\* its error, later ones return the kept error.
OnceClose(s) ==
  IF s \in open
  THEN /\ open' = open \ {s}
       /\ closes' = [closes EXCEPT ![s] = @ + 1]
       /\ \E failed \in BOOLEAN : closeErr' = [closeErr EXCEPT ![s] = failed]
  ELSE UNCHANGED <<open, closes, closeErr>>

----------------------------------------------------------------------------
(***************************************************************************)
(* Serve.                                                                  *)
(***************************************************************************)

\* A goroutine calls Serve; the listener is wrapped.
CallServe(s) ==
  /\ Goto(s, "uncalled", "trackLock")
  /\ lateCall' = IF inShutdown THEN lateCall \cup {s} ELSE lateCall
  /\ UNCHANGED <<inShutdown, mu, result, listenerVars, loopVars>>

\* trackListener(&l, true): srv.mu.Lock().
TrackLock(s) ==
  /\ Goto(s, "trackLock", "trackCheck")
  /\ Lock(s)
  /\ UNCHANGED <<inShutdown, result, lateCall, listenerVars, loopVars>>

\* Variant: trackListener does not look at the flag.
TrackCheckIgnoresFlag(s) ==
  /\ Goto(s, "trackCheck", "trackAdd")
  /\ UNCHANGED <<inShutdown, mu, result, lateCall, listenerVars, loopVars>>

\* Variant: the refusal returns with srv.mu locked.
TrackCheckKeepsMutex(s) ==
  /\ \/ /\ inShutdown
        /\ Goto(s, "trackCheck", "close")
        /\ result' = [result EXCEPT ![s] = "ErrServerClosed"]
     \/ /\ ~inShutdown
        /\ Goto(s, "trackCheck", "trackAdd")
        /\ UNCHANGED result
  /\ UNCHANGED <<inShutdown, mu, lateCall, listenerVars, loopVars>>

\* trackListener(&l, true): the load of inShutdown.  When it is set the mutex
\* is released and Serve returns ErrServerClosed, closing l on the way.
TrackCheck(s) ==
  /\ \/ /\ inShutdown
        /\ Goto(s, "trackCheck", "close")
        /\ Unlock(s)
        /\ result' = [result EXCEPT ![s] = "ErrServerClosed"]
     \/ /\ ~inShutdown
        /\ Goto(s, "trackCheck", "trackAdd")
        /\ UNCHANGED <<mu, result>>
  /\ UNCHANGED <<inShutdown, lateCall, listenerVars, loopVars>>

\* trackListener(&l, true): the listener joins the map; srv.mu.Unlock().
TrackAdd(s) ==
  /\ Goto(s, "trackAdd", "accept")
  /\ listeners' = listeners \cup {s}
  /\ Unlock(s)
  /\ UNCHANGED <<inShutdown, open, closeErr, closes, result, lateCall, loopVars>>

\* l.Accept() returns a connection.
AcceptConn(s) ==
  /\ Goto(s, "accept", "spawn")
  /\ s \in open
  /\ \E c \in Conns :
       /\ connState[c] = "dialing"
       /\ connState' = [connState EXCEPT ![c] = "accepted"]
       /\ rw' = [rw EXCEPT ![s] = c]
  /\ UNCHANGED <<inShutdown, mu, acceptErr, tempDelay, result, lateCall,
                 listenerVars>>

\* l.Accept() fails: on an open listener with a net.Error whose Timeout() is
\* true or with any other error, on a closed one with net.ErrClosed.
AcceptFails(s) ==
  /\ Goto(s, "accept", "failed")
  /\ \E e \in AcceptErrors \ {"none"} :
       /\ (e = "closed") <=> (s \notin open)
       /\ acceptErr' = [acceptErr EXCEPT ![s] = e]
  /\ UNCHANGED <<inShutdown, mu, tempDelay, rw, connState, result, lateCall,
                 listenerVars>>

\* Variant: Serve drops a connection accepted during the shutdown.
SpawnUnlessShutdown(s) ==
  /\ Goto(s, "spawn", "accept")
  /\ connState' = IF inShutdown THEN connState
                  ELSE [connState EXCEPT ![rw[s]] = "serving"]
  /\ rw' = [rw EXCEPT ![s] = NoConn]
  /\ tempDelay' = [tempDelay EXCEPT ![s] = 0]
  /\ UNCHANGED <<inShutdown, mu, acceptErr, result, lateCall, listenerVars>>

\* tempDelay = 0; go c.serve(ctx).
Spawn(s) ==
  /\ Goto(s, "spawn", "accept")
  /\ connState' = [connState EXCEPT ![rw[s]] = "serving"]
  /\ rw' = [rw EXCEPT ![s] = NoConn]
  /\ tempDelay' = [tempDelay EXCEPT ![s] = 0]
  /\ UNCHANGED <<inShutdown, mu, acceptErr, result, lateCall, listenerVars>>

\* The backoff that follows a delay of d.
NextDelay(d) ==
  LET doubled == IF d = 0 THEN InitialDelay ELSE 2 * d
  IN  IF doubled > MaxDelay THEN MaxDelay ELSE doubled

\* What Serve does with a failed Accept: the load of inShutdown decides first.
HandleAcceptError(s) ==
  /\ \/ /\ inShutdown
        /\ Goto(s, "failed", "untrack")
        /\ result' = [result EXCEPT ![s] = "ErrServerClosed"]
        /\ UNCHANGED tempDelay
     \/ /\ ~inShutdown
        /\ acceptErr[s] = "timeout"
        /\ Goto(s, "failed", "sleep")
        /\ tempDelay' = [tempDelay EXCEPT ![s] = NextDelay(@)]
        /\ UNCHANGED result
     \/ /\ ~inShutdown
        /\ acceptErr[s] # "timeout"
        /\ Goto(s, "failed", "untrack")
        /\ result' = [result EXCEPT ![s] = "acceptErr"]
        /\ UNCHANGED tempDelay
  /\ UNCHANGED <<inShutdown, mu, acceptErr, rw, connState, lateCall, listenerVars>>

\* time.Sleep(tempDelay) is over.
Wake(s) ==
  /\ Goto(s, "sleep", "accept")
  /\ UNCHANGED <<inShutdown, mu, result, lateCall, listenerVars, loopVars>>

\* Deferred trackListener(&l, false): srv.mu.Lock().
UntrackLock(s) ==
  /\ Goto(s, "untrack", "untrackLocked")
  /\ Lock(s)
  /\ UNCHANGED <<inShutdown, result, lateCall, listenerVars, loopVars>>

\* Deferred trackListener(&l, false): the map entry goes; srv.mu.Unlock().
Untrack(s) ==
  /\ Goto(s, "untrackLocked", "close")
  /\ listeners' = listeners \ {s}
  /\ Unlock(s)
  /\ UNCHANGED <<inShutdown, open, closeErr, closes, result, lateCall, loopVars>>

\* Deferred l.Close(), the last thing Serve does.
DeferredClose(s) ==
  /\ Goto(s, "close", "returned")
  /\ OnceClose(s)
  /\ UNCHANGED <<inShutdown, mu, listeners, result, lateCall, loopVars>>

----------------------------------------------------------------------------
(***************************************************************************)
(* Close and Shutdown.  Both store the flag, take the mutex, close every   *)
(* tracked listener and return the first error; neither looks at the       *)
(* connections.                                                            *)
(***************************************************************************)

\* atomic.StoreInt32(&srv.inShutdown, 1), before the mutex is taken.
CallClose(k) ==
  /\ Goto(k, "uncalled", "lock")
  /\ inShutdown' = TRUE
  /\ UNCHANGED <<mu, result, lateCall, listenerVars, loopVars>>

\* srv.mu.Lock().
CloseLock(k) ==
  /\ Goto(k, "lock", "closing")
  /\ Lock(k)
  /\ result' = [result EXCEPT ![k] = "nil"]
  /\ UNCHANGED <<inShutdown, lateCall, listenerVars, loopVars>>

\* Variant: the listener leaves the map but is not closed.
CloseOneListenerOnlyDeletes(k) ==
  /\ pc[k] = "closing"
  /\ mu = k
  /\ \E s \in listeners : listeners' = listeners \ {s}
  /\ UNCHANGED <<inShutdown, mu, pc, result, open, closes, closeErr, lateCall, loopVars>>

\* One iteration of closeListenersLocked, in the map's arbitrary order.
CloseOneListener(k) ==
  /\ pc[k] = "closing"
  /\ mu = k
  /\ \E s \in listeners :
       /\ OnceClose(s)
       /\ listeners' = listeners \ {s}
       /\ result' = IF closeErr'[s] /\ result[k] = "nil"
                    THEN [result EXCEPT ![k] = "closeErr"]
                    ELSE result
  /\ UNCHANGED <<inShutdown, mu, pc, lateCall, loopVars>>

\* Variant: the loop is left before the map is empty.
CloseReturnEarly(k) ==
  /\ Goto(k, "closing", "returned")
  /\ Unlock(k)
  /\ UNCHANGED <<inShutdown, result, lateCall, listenerVars, loopVars>>

\* The map is empty: srv.mu.Unlock() and return.
CloseReturn(k) ==
  /\ listeners = {}
  /\ Goto(k, "closing", "returned")
  /\ Unlock(k)
  /\ UNCHANGED <<inShutdown, result, lateCall, listenerVars, loopVars>>

----------------------------------------------------------------------------
\* c.serve returns or panics; its deferred function closes the connection.
\* The Connection module opens this step up.
ConnEnds(c) ==
  /\ connState[c] = "serving"
  /\ connState' = [connState EXCEPT ![c] = "ended"]
  /\ UNCHANGED <<inShutdown, mu, pc, result, lateCall, acceptErr, tempDelay, rw,
                 listenerVars>>

ServeStep(s) ==
  \/ CallServe(s)
  \/ TrackLock(s)
  \/ TrackCheck(s)
  \/ TrackAdd(s)
  \/ AcceptConn(s)
  \/ AcceptFails(s)
  \/ Spawn(s)
  \/ HandleAcceptError(s)
  \/ Wake(s)
  \/ UntrackLock(s)
  \/ Untrack(s)
  \/ DeferredClose(s)

CloserStep(k) ==
  \/ CallClose(k)
  \/ CloseLock(k)
  \/ CloseOneListener(k)
  \/ CloseReturn(k)

Next ==
  \/ \E s \in Calls : ServeStep(s)
  \/ \E k \in Closers : CloserStep(k)
  \/ \E c \in Conns : ConnEnds(c)

Spec == Init /\ [][Next]_vars

(***************************************************************************)
(* Fairness.  A goroutine that can run is eventually scheduled, a sleeping *)
(* one wakes up, and Accept on a closed listener returns.  Nothing makes a *)
(* client dial, an open listener fail, or anybody call Serve or Close, and *)
(* a connection may be served for ever.  Weak fairness is enough for the   *)
(* mutex because every call takes it at most twice.                        *)
(***************************************************************************)

AcceptReturnsOnceClosed(s) == s \notin open /\ AcceptFails(s)

Fairness ==
  /\ \A s \in Calls :
       /\ WF_vars(TrackLock(s))
       /\ WF_vars(TrackCheck(s))
       /\ WF_vars(TrackAdd(s))
       /\ WF_vars(AcceptReturnsOnceClosed(s))
       /\ WF_vars(Spawn(s))
       /\ WF_vars(HandleAcceptError(s))
       /\ WF_vars(Wake(s))
       /\ WF_vars(UntrackLock(s))
       /\ WF_vars(Untrack(s))
       /\ WF_vars(DeferredClose(s))
  /\ \A k \in Closers :
       /\ WF_vars(CloseLock(k))
       /\ WF_vars(CloseOneListener(k))
       /\ WF_vars(CloseReturn(k))

FairSpec == Spec /\ Fairness

----------------------------------------------------------------------------
(***************************************************************************)
(* Properties.                                                             *)
(***************************************************************************)

\* A Serve call is inside its accept loop.
Loop == {"accept", "spawn", "failed", "sleep"}

\* Some Close or Shutdown has returned to its caller.
Closed == \E k \in Closers : pc[k] = "returned"

\* Once a Close or Shutdown has returned, no listener is tracked and every
\* Serve call still in its accept loop runs on a closed listener: no listener
\* slips into the map behind the back of closeListenersLocked, although the
\* flag is stored outside the mutex.
QuietOnceClosed ==
  Closed => /\ listeners = {}
            /\ \A s \in Calls : pc[s] \in Loop => s \notin open

\* Serve never returns the "use of closed network connection" error that
\* Close and Shutdown provoke in Accept: when they are the cause, the flag is
\* already set and Serve returns ErrServerClosed.
ClosedListenerIsMasked ==
  \A s \in Calls : result[s] = "acceptErr" => acceptErr[s] # "closed"

\* A Serve call made after Shutdown or Close was called never accepts
\* anything: it returns ErrServerClosed ("future calls to methods such as
\* Serve will return ErrServerClosed").
LateServeIsRefused ==
  \A s \in lateCall :
    /\ pc[s] \in {"trackLock", "trackCheck", "close", "returned"}
    /\ pc[s] = "returned" => result[s] = "ErrServerClosed"

\* Whoever gets there first, the net.Listener of a Serve call is closed at
\* most once, and when Serve has returned it is closed, untracked, and the
\* error is not nil ("Serve always returns a non-nil error and closes l").
ListenerClosedOnce ==
  \A s \in Calls :
    /\ closes[s] <= 1
    /\ pc[s] = "returned" => /\ closes[s] = 1
                             /\ s \notin open \cup listeners
                             /\ result[s] \in {"ErrServerClosed", "acceptErr"}

\* A listener that failed to close under Close or Shutdown is reported by one
\* of those calls, whatever the order of the map and however many listeners
\* closed cleanly after it.
CloseErrorReported ==
  \A s \in Calls : closeErr[s] /\ pc[s] # "returned" =>
    \E k \in Closers : result[k] = "closeErr"

\* No connection is accepted once a Close or Shutdown has returned.
NoAcceptOnceClosed ==
  [][Closed => \A c \in Conns : connState[c] = "dialing" => connState'[c] = "dialing"]_vars

\* The backoff of an accept loop only shrinks when a connection was accepted.
BackoffNeverShrinks ==
  [][\A s \in Calls : tempDelay'[s] < tempDelay[s] => pc[s] = "spawn"]_vars

\* Once Close or Shutdown has been called, every Serve call returns.
ServeReturnsAfterShutdown ==
  \A s \in Calls : inShutdown /\ pc[s] # "uncalled" ~> pc[s] = "returned"

\* Close and Shutdown return, however many Serve calls contend for the mutex.
CloseReturns ==
  \A k \in Closers : pc[k] = "lock" ~> pc[k] = "returned"

\* A connection that Accept returned is always handed to a goroutine, even
\* when the server is shut down in between.
AcceptedIsServed ==
  \A c \in Conns : connState[c] = "accepted" ~> connState[c] = "serving"

\* The Serve calls that can still get a connection out of Accept.
Accepting == {s \in Calls : pc[s] \in Loop /\ s \in open}

Promise == INSTANCE ServerPromise
             WITH accepting <- Accepting, closed <- Closed, conn <- connState

\* The mutex, the flag and the map implement the promise of ServerPromise.
KeepsPromise == Promise!Spec

----------------------------------------------------------------------------
(***************************************************************************)
(* The inductive invariant behind the safety properties, in named parts.   *)
(***************************************************************************)

Tracking == Loop \cup {"untrack", "untrackLocked"}

\* srv.mu is held by exactly the goroutine that is between Lock and Unlock.
MutexInv ==
  /\ \A s \in Calls : pc[s] \in {"trackCheck", "trackAdd", "untrackLocked"} <=> mu = s
  /\ \A k \in Closers : pc[k] = "closing" <=> mu = k

\* The flag is stored before a Close or Shutdown does anything else, so a
\* Serve call about to add its listener keeps every one of them waiting.
FlagInv ==
  /\ \A k \in Closers : pc[k] # "uncalled" => inShutdown
  /\ \A s \in Calls : pc[s] = "trackAdd" =>
       \A k \in Closers : pc[k] \in {"uncalled", "lock"}

\* A listener is open until it is closed under Close or Shutdown, which also
\* takes it out of the map, or by its own Serve call on the way out.
ListenerInv ==
  /\ \A s \in listeners : pc[s] \in Tracking /\ s \in open
  /\ \A s \in Calls :
       /\ pc[s] \in {"uncalled", "trackLock", "trackCheck", "trackAdd"} => s \in open
       /\ pc[s] \in Tracking /\ s \in open => s \in listeners
       /\ s \notin open /\ pc[s] # "returned" => inShutdown
       /\ pc[s] = "returned" => s \notin open
       /\ closes[s] = IF s \in open THEN 0 ELSE 1
       /\ closeErr[s] => s \notin open
  /\ Closed => listeners = {}

\* The errors Serve, Close and Shutdown are about to return.
ResultInv ==
  /\ \A s \in Calls :
       /\ pc[s] = "failed" /\ acceptErr[s] = "closed" => inShutdown
       /\ IF pc[s] \in {"untrack", "untrackLocked", "close", "returned"}
          THEN \/ result[s] = "ErrServerClosed"
               \/ result[s] = "acceptErr" /\ acceptErr[s] # "closed"
          ELSE result[s] = "none"
  /\ \A k \in Closers : IF pc[k] \in {"uncalled", "lock"}
                         THEN result[k] = "none"
                         ELSE result[k] \in {"nil", "closeErr"}
  /\ CloseErrorReported

\* A late Serve call finds the flag set.
LateInv ==
  \A s \in lateCall :
    /\ inShutdown
    /\ pc[s] \in {"trackLock", "trackCheck", "close", "returned"}
    /\ pc[s] \in {"close", "returned"} => result[s] = "ErrServerClosed"

\* A connection on its way from Accept to its goroutine belongs to one loop.
HandOverInv ==
  /\ \A s \in Calls : pc[s] = "spawn" => rw[s] \in Conns /\ connState[rw[s]] = "accepted"
  /\ \A s, t \in Calls : pc[s] = "spawn" /\ pc[t] = "spawn" /\ rw[s] = rw[t] => s = t

IInv ==
  /\ TypeOK
  /\ MutexInv
  /\ FlagInv
  /\ ListenerInv
  /\ ResultInv
  /\ LateInv
  /\ HandOverInv

----------------------------------------------------------------------------
(***************************************************************************)
(* What the documentation of Close and Shutdown says, and the code does    *)
(* not do.                                                                 *)
(***************************************************************************)

\* Shutdown's comment: "then closing all idle connections, and then waiting
\* indefinitely for connections to return to idle and then shut down".
ShutdownWaitsForConns ==
  Closed => \A c \in Conns : connState[c] # "serving"
=============================================================================
