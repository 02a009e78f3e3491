---------------------- MODULE ServerLifecycleProofs ----------------------
(***************************************************************************)
(* Proofs about ServerLifecycle, for any number of Serve calls, of Close   *)
(* and Shutdown calls and of connections.                                  *)
(***************************************************************************)
EXTENDS ServerLifecycle, TLAPS

\* The provers have a minute for every leaf that asks for no other.
USE SMTT(60), ZenonT(60)

USE DEF CallPc, CloserPc, AcceptErrors, Results, ConnStates, Loop, Tracking,
        listenerVars, loopVars, Goto, Lock, Unlock

\* NextDelay, the backoff of Serve, stays between 0 and the ceiling.
LEMMA NextDelayType == \A d \in 0 .. MaxDelay : NextDelay(d) \in 0 .. MaxDelay
  BY DelayAssumption DEF NextDelay

\* Initially nothing is tracked, held or returned.
LEMMA InitInv == Init => IInv
  <1> SUFFICES ASSUME Init PROVE IInv
    OBVIOUS
  <1> USE ActorsAssumption, DelayAssumption DEF Init
  <1>1. TypeOK
    <2>1. pc \in [Calls \cup Closers -> CallPc \cup CloserPc]
          /\ (\A s \in Calls : pc[s] \in CallPc) /\ (\A k \in Closers : pc[k] \in CloserPc)
      OBVIOUS
    <2>2. tempDelay \in [Calls -> 0 .. MaxDelay] /\ closes \in [Calls -> Nat]
      OBVIOUS
    <2>3. /\ closeErr \in [Calls -> BOOLEAN]
          /\ acceptErr \in [Calls -> AcceptErrors]
          /\ result \in [Calls \cup Closers -> Results]
          /\ rw \in [Calls -> Conns \cup {NoConn}]
          /\ connState \in [Conns -> ConnStates]
      OBVIOUS
    <2> QED BY <2>1, <2>2, <2>3, Zenon DEF TypeOK
  <1>2. MutexInv /\ FlagInv /\ LateInv /\ HandOverInv
    BY DEF MutexInv, FlagInv, LateInv, HandOverInv
  <1>3. ListenerInv
    BY DEF ListenerInv, Closed
  <1>4. ResultInv
    BY DEF ResultInv, CloseErrorReported
  <1> QED BY <1>1, <1>2, <1>3, <1>4 DEF IInv

\* Every step of Serve, Close, Shutdown or a connection preserves IInv.
LEMMA NextInv == IInv /\ [Next]_vars => IInv'
  <1> SUFFICES ASSUME IInv, [Next]_vars PROVE IInv'
    OBVIOUS
  <1> USE ActorsAssumption, DelayAssumption DEF IInv
  <1>1. ASSUME NEW s \in Calls, CallServe(s) PROVE IInv'
    <2>1. TypeOK'
      BY <1>1 DEF CallServe, TypeOK
    <2>2. MutexInv'
      BY <1>1 DEF CallServe, MutexInv, TypeOK
    <2>3. FlagInv'
      BY <1>1 DEF CallServe, FlagInv, MutexInv, TypeOK
    <2>4. ListenerInv'
      BY <1>1 DEF CallServe, ListenerInv, FlagInv, MutexInv, Closed, TypeOK
    <2>5. ResultInv'
      BY <1>1 DEF CallServe, ResultInv, ListenerInv, CloseErrorReported, TypeOK
    <2>6. LateInv'
      BY <1>1 DEF CallServe, LateInv, ResultInv, TypeOK
    <2>7. HandOverInv'
      BY <1>1 DEF CallServe, HandOverInv, TypeOK
    <2> QED BY <2>1, <2>2, <2>3, <2>4, <2>5, <2>6, <2>7
  <1>2. ASSUME NEW s \in Calls, TrackLock(s) PROVE IInv'
    <2>1. TypeOK'
      BY <1>2 DEF TrackLock, TypeOK
    <2>2. MutexInv'
      BY <1>2 DEF TrackLock, MutexInv, TypeOK
    <2>3. FlagInv'
      BY <1>2 DEF TrackLock, FlagInv, MutexInv, TypeOK
    <2>4. ListenerInv'
      BY <1>2 DEF TrackLock, ListenerInv, FlagInv, MutexInv, Closed, TypeOK
    <2>5. ResultInv'
      BY <1>2 DEF TrackLock, ResultInv, ListenerInv, CloseErrorReported, TypeOK
    <2>6. LateInv'
      BY <1>2 DEF TrackLock, LateInv, ResultInv, TypeOK
    <2>7. HandOverInv'
      BY <1>2 DEF TrackLock, HandOverInv, TypeOK
    <2> QED BY <2>1, <2>2, <2>3, <2>4, <2>5, <2>6, <2>7
  <1>3. ASSUME NEW s \in Calls, TrackCheck(s) PROVE IInv'
    <2>1. TypeOK'
      BY <1>3 DEF TrackCheck, TypeOK
    <2>2. MutexInv'
      BY <1>3 DEF TrackCheck, MutexInv, TypeOK
    <2>3. FlagInv'
      BY <1>3 DEF TrackCheck, FlagInv, MutexInv, TypeOK
    <2>4. ListenerInv'
      BY <1>3 DEF TrackCheck, ListenerInv, FlagInv, MutexInv, Closed, TypeOK
    <2>5. ResultInv'
      BY <1>3 DEF TrackCheck, ResultInv, ListenerInv, CloseErrorReported, TypeOK
    <2>6. LateInv'
      BY <1>3 DEF TrackCheck, LateInv, ResultInv, TypeOK
    <2>7. HandOverInv'
      BY <1>3 DEF TrackCheck, HandOverInv, TypeOK
    <2> QED BY <2>1, <2>2, <2>3, <2>4, <2>5, <2>6, <2>7
  <1>4. ASSUME NEW s \in Calls, TrackAdd(s) PROVE IInv'
    <2>1. TypeOK'
      BY <1>4 DEF TrackAdd, TypeOK
    <2>2. MutexInv'
      BY <1>4 DEF TrackAdd, MutexInv, TypeOK
    <2>3. FlagInv'
      BY <1>4 DEF TrackAdd, FlagInv, MutexInv, TypeOK
    <2>4. ListenerInv'
      BY <1>4 DEF TrackAdd, ListenerInv, FlagInv, MutexInv, Closed, TypeOK
    <2>5. ResultInv'
      BY <1>4 DEF TrackAdd, ResultInv, ListenerInv, CloseErrorReported, TypeOK
    <2>6. LateInv'
      BY <1>4 DEF TrackAdd, LateInv, ResultInv, TypeOK
    <2>7. HandOverInv'
      BY <1>4 DEF TrackAdd, HandOverInv, TypeOK
    <2> QED BY <2>1, <2>2, <2>3, <2>4, <2>5, <2>6, <2>7
  <1>5. ASSUME NEW s \in Calls, AcceptConn(s) PROVE IInv'
    <2>1. TypeOK'
      BY <1>5 DEF AcceptConn, TypeOK
    <2>2. MutexInv'
      BY <1>5 DEF AcceptConn, MutexInv, TypeOK
    <2>3. FlagInv'
      BY <1>5 DEF AcceptConn, FlagInv, MutexInv, TypeOK
    <2>4. ListenerInv'
      BY <1>5 DEF AcceptConn, ListenerInv, FlagInv, MutexInv, Closed, TypeOK
    <2>5. ResultInv'
      BY <1>5 DEF AcceptConn, ResultInv, ListenerInv, CloseErrorReported, TypeOK
    <2>6. LateInv'
      BY <1>5 DEF AcceptConn, LateInv, ResultInv, TypeOK
    <2>7. HandOverInv'
      BY <1>5 DEF AcceptConn, HandOverInv, TypeOK
    <2> QED BY <2>1, <2>2, <2>3, <2>4, <2>5, <2>6, <2>7
  <1>6. ASSUME NEW s \in Calls, AcceptFails(s) PROVE IInv'
    <2>1. TypeOK'
      BY <1>6 DEF AcceptFails, TypeOK
    <2>2. MutexInv'
      BY <1>6 DEF AcceptFails, MutexInv, TypeOK
    <2>3. FlagInv'
      BY <1>6 DEF AcceptFails, FlagInv, MutexInv, TypeOK
    <2>4. ListenerInv'
      BY <1>6 DEF AcceptFails, ListenerInv, FlagInv, MutexInv, Closed, TypeOK
    <2>5. ResultInv'
      BY <1>6 DEF AcceptFails, ResultInv, ListenerInv, CloseErrorReported, TypeOK
    <2>6. LateInv'
      BY <1>6 DEF AcceptFails, LateInv, ResultInv, TypeOK
    <2>7. HandOverInv'
      BY <1>6 DEF AcceptFails, HandOverInv, TypeOK
    <2> QED BY <2>1, <2>2, <2>3, <2>4, <2>5, <2>6, <2>7
  <1>7. ASSUME NEW s \in Calls, Spawn(s) PROVE IInv'
    <2>1. TypeOK'
      BY <1>7 DEF Spawn, TypeOK, HandOverInv
    <2>2. MutexInv'
      BY <1>7 DEF Spawn, MutexInv, TypeOK
    <2>3. FlagInv'
      BY <1>7 DEF Spawn, FlagInv, MutexInv, TypeOK
    <2>4. ListenerInv'
      BY <1>7 DEF Spawn, ListenerInv, FlagInv, MutexInv, Closed, TypeOK
    <2>5. ResultInv'
      BY <1>7 DEF Spawn, ResultInv, ListenerInv, CloseErrorReported, TypeOK
    <2>6. LateInv'
      BY <1>7 DEF Spawn, LateInv, ResultInv, TypeOK
    <2>7. HandOverInv'
      BY <1>7 DEF Spawn, HandOverInv, TypeOK
    <2> QED BY <2>1, <2>2, <2>3, <2>4, <2>5, <2>6, <2>7
  <1>8. ASSUME NEW s \in Calls, HandleAcceptError(s) PROVE IInv'
    <2>1. TypeOK'
      BY NextDelayType, <1>8 DEF HandleAcceptError, TypeOK
    <2>2. MutexInv'
      BY <1>8 DEF HandleAcceptError, MutexInv, TypeOK
    <2>3. FlagInv'
      BY <1>8 DEF HandleAcceptError, FlagInv, MutexInv, TypeOK
    <2>4. ListenerInv'
      BY <1>8 DEF HandleAcceptError, ListenerInv, FlagInv, MutexInv, Closed, TypeOK
    <2>5. ResultInv'
      BY <1>8 DEF HandleAcceptError, ResultInv, ListenerInv, CloseErrorReported, TypeOK
    <2>6. LateInv'
      BY <1>8 DEF HandleAcceptError, LateInv, ResultInv, TypeOK
    <2>7. HandOverInv'
      BY <1>8 DEF HandleAcceptError, HandOverInv, TypeOK
    <2> QED BY <2>1, <2>2, <2>3, <2>4, <2>5, <2>6, <2>7
  <1>9. ASSUME NEW s \in Calls, Wake(s) PROVE IInv'
    <2>1. TypeOK'
      BY <1>9 DEF Wake, TypeOK
    <2>2. MutexInv'
      BY <1>9 DEF Wake, MutexInv, TypeOK
    <2>3. FlagInv'
      BY <1>9 DEF Wake, FlagInv, MutexInv, TypeOK
    <2>4. ListenerInv'
      BY <1>9 DEF Wake, ListenerInv, FlagInv, MutexInv, Closed, TypeOK
    <2>5. ResultInv'
      BY <1>9 DEF Wake, ResultInv, ListenerInv, CloseErrorReported, TypeOK
    <2>6. LateInv'
      BY <1>9 DEF Wake, LateInv, ResultInv, TypeOK
    <2>7. HandOverInv'
      BY <1>9 DEF Wake, HandOverInv, TypeOK
    <2> QED BY <2>1, <2>2, <2>3, <2>4, <2>5, <2>6, <2>7
  <1>10. ASSUME NEW s \in Calls, UntrackLock(s) PROVE IInv'
    <2>1. TypeOK'
      BY <1>10 DEF UntrackLock, TypeOK
    <2>2. MutexInv'
      BY <1>10 DEF UntrackLock, MutexInv, TypeOK
    <2>3. FlagInv'
      BY <1>10 DEF UntrackLock, FlagInv, MutexInv, TypeOK
    <2>4. ListenerInv'
      BY <1>10 DEF UntrackLock, ListenerInv, FlagInv, MutexInv, Closed, TypeOK
    <2>5. ResultInv'
      BY <1>10 DEF UntrackLock, ResultInv, ListenerInv, CloseErrorReported, TypeOK
    <2>6. LateInv'
      BY <1>10 DEF UntrackLock, LateInv, ResultInv, TypeOK
    <2>7. HandOverInv'
      BY <1>10 DEF UntrackLock, HandOverInv, TypeOK
    <2> QED BY <2>1, <2>2, <2>3, <2>4, <2>5, <2>6, <2>7
  <1>11. ASSUME NEW s \in Calls, Untrack(s) PROVE IInv'
    <2>1. TypeOK'
      BY <1>11 DEF Untrack, TypeOK
    <2>2. MutexInv'
      BY <1>11 DEF Untrack, MutexInv, TypeOK
    <2>3. FlagInv'
      BY <1>11 DEF Untrack, FlagInv, MutexInv, TypeOK
    <2>4. ListenerInv'
      BY <1>11 DEF Untrack, ListenerInv, FlagInv, MutexInv, Closed, TypeOK
    <2>5. ResultInv'
      BY <1>11 DEF Untrack, ResultInv, ListenerInv, CloseErrorReported, TypeOK
    <2>6. LateInv'
      BY <1>11 DEF Untrack, LateInv, ResultInv, TypeOK
    <2>7. HandOverInv'
      BY <1>11 DEF Untrack, HandOverInv, TypeOK
    <2> QED BY <2>1, <2>2, <2>3, <2>4, <2>5, <2>6, <2>7
  <1>12. ASSUME NEW s \in Calls, DeferredClose(s) PROVE IInv'
    <2>1. TypeOK'
      BY <1>12 DEF DeferredClose, OnceClose, TypeOK
    <2>2. MutexInv'
      BY <1>12 DEF DeferredClose, OnceClose, MutexInv, TypeOK
    <2>3. FlagInv'
      BY <1>12 DEF DeferredClose, OnceClose, FlagInv, MutexInv, TypeOK
    <2>4. ListenerInv'
      BY <1>12 DEF DeferredClose, OnceClose, ListenerInv, FlagInv, MutexInv, Closed, TypeOK
    <2>5. ResultInv'
      BY <1>12 DEF DeferredClose, OnceClose, ResultInv, ListenerInv, CloseErrorReported, TypeOK
    <2>6. LateInv'
      BY <1>12 DEF DeferredClose, OnceClose, LateInv, ResultInv, TypeOK
    <2>7. HandOverInv'
      BY <1>12 DEF DeferredClose, OnceClose, HandOverInv, TypeOK
    <2> QED BY <2>1, <2>2, <2>3, <2>4, <2>5, <2>6, <2>7
  <1>13. ASSUME NEW k \in Closers, CallClose(k) PROVE IInv'
    <2>1. TypeOK'
      BY <1>13 DEF CallClose, TypeOK
    <2>2. MutexInv'
      BY <1>13 DEF CallClose, MutexInv, TypeOK
    <2>3. FlagInv'
      BY <1>13 DEF CallClose, FlagInv, MutexInv, TypeOK
    <2>4. ListenerInv'
      BY <1>13 DEF CallClose, ListenerInv, FlagInv, MutexInv, Closed, TypeOK
    <2>5. ResultInv'
      BY <1>13 DEF CallClose, ResultInv, ListenerInv, CloseErrorReported, TypeOK
    <2>6. LateInv'
      BY <1>13 DEF CallClose, LateInv, ResultInv, TypeOK
    <2>7. HandOverInv'
      BY <1>13 DEF CallClose, HandOverInv, TypeOK
    <2> QED BY <2>1, <2>2, <2>3, <2>4, <2>5, <2>6, <2>7
  <1>14. ASSUME NEW k \in Closers, CloseLock(k) PROVE IInv'
    <2>1. TypeOK'
      BY <1>14 DEF CloseLock, TypeOK
    <2>2. MutexInv'
      BY <1>14 DEF CloseLock, MutexInv, TypeOK
    <2>3. FlagInv'
      BY <1>14 DEF CloseLock, FlagInv, MutexInv, TypeOK
    <2>4. ListenerInv'
      BY <1>14 DEF CloseLock, ListenerInv, FlagInv, MutexInv, Closed, TypeOK
    <2>5. ResultInv'
      BY <1>14 DEF CloseLock, ResultInv, ListenerInv, CloseErrorReported, TypeOK
    <2>6. LateInv'
      BY <1>14 DEF CloseLock, LateInv, ResultInv, TypeOK
    <2>7. HandOverInv'
      BY <1>14 DEF CloseLock, HandOverInv, TypeOK
    <2> QED BY <2>1, <2>2, <2>3, <2>4, <2>5, <2>6, <2>7
  <1>15. ASSUME NEW k \in Closers, CloseOneListener(k) PROVE IInv'
    <2>1. TypeOK'
      BY <1>15 DEF CloseOneListener, OnceClose, TypeOK
    <2>2. MutexInv'
      BY <1>15 DEF CloseOneListener, OnceClose, MutexInv, TypeOK
    <2>3. FlagInv'
      BY <1>15 DEF CloseOneListener, OnceClose, FlagInv, MutexInv, TypeOK
    <2>4. ListenerInv'
      BY <1>15 DEF CloseOneListener, OnceClose, ListenerInv, FlagInv, MutexInv, Closed, TypeOK
    <2>5. ResultInv'
      BY <1>15 DEF CloseOneListener, OnceClose, ResultInv, ListenerInv, CloseErrorReported, TypeOK
    <2>6. LateInv'
      BY <1>15 DEF CloseOneListener, OnceClose, LateInv, ResultInv, TypeOK
    <2>7. HandOverInv'
      BY <1>15 DEF CloseOneListener, OnceClose, HandOverInv, TypeOK
    <2> QED BY <2>1, <2>2, <2>3, <2>4, <2>5, <2>6, <2>7
  <1>16. ASSUME NEW k \in Closers, CloseReturn(k) PROVE IInv'
    <2>1. TypeOK'
      BY <1>16 DEF CloseReturn, TypeOK
    <2>2. MutexInv'
      BY <1>16 DEF CloseReturn, MutexInv, TypeOK
    <2>3. FlagInv'
      BY <1>16 DEF CloseReturn, FlagInv, MutexInv, TypeOK
    <2>4. ListenerInv'
      BY <1>16 DEF CloseReturn, ListenerInv, FlagInv, MutexInv, Closed, TypeOK
    <2>5. ResultInv'
      BY <1>16 DEF CloseReturn, ResultInv, ListenerInv, CloseErrorReported, TypeOK
    <2>6. LateInv'
      BY <1>16 DEF CloseReturn, LateInv, ResultInv, TypeOK
    <2>7. HandOverInv'
      BY <1>16 DEF CloseReturn, HandOverInv, TypeOK
    <2> QED BY <2>1, <2>2, <2>3, <2>4, <2>5, <2>6, <2>7
  <1>17. ASSUME NEW c \in Conns, ConnEnds(c) PROVE IInv'
    <2>1. TypeOK'
      BY <1>17 DEF ConnEnds, TypeOK
    <2>2. MutexInv'
      BY <1>17 DEF ConnEnds, MutexInv, TypeOK
    <2>3. FlagInv'
      BY <1>17 DEF ConnEnds, FlagInv, MutexInv, TypeOK
    <2>4. ListenerInv'
      BY <1>17 DEF ConnEnds, ListenerInv, FlagInv, MutexInv, Closed, TypeOK
    <2>5. ResultInv'
      BY <1>17 DEF ConnEnds, ResultInv, ListenerInv, CloseErrorReported, TypeOK
    <2>6. LateInv'
      BY <1>17 DEF ConnEnds, LateInv, ResultInv, TypeOK
    <2>7. HandOverInv'
      BY <1>17 DEF ConnEnds, HandOverInv, TypeOK
    <2> QED BY <2>1, <2>2, <2>3, <2>4, <2>5, <2>6, <2>7
  <1>18. CASE UNCHANGED vars
    BY <1>18 DEF vars, TypeOK, MutexInv, FlagInv, ListenerInv, ResultInv, LateInv,
      HandOverInv, CloseErrorReported, Closed
  <1> QED
    BY <1>1, <1>2, <1>3, <1>4, <1>5, <1>6, <1>7, <1>8, <1>9, <1>10, <1>11, <1>12, <1>13, <1>14, <1>15, <1>16, <1>17, <1>18 DEF Next, ServeStep, CloserStep

\* TypeOK and the whole inductive invariant hold in every reachable state.
THEOREM Invariance == Spec => []IInv
  BY InitInv, NextInv, PTL DEF Spec

\* Every variable keeps its type: in particular the backoff of Serve never
\* leaves 0 .. MaxDelay.
THEOREM TypeCorrect == Spec => []TypeOK
  <1>1. IInv => TypeOK
    BY DEF IInv
  <1> QED BY <1>1, Invariance, PTL

\* Once a Close or Shutdown has returned, no listener is tracked and no accept
\* loop runs on an open listener.
THEOREM Quiet == Spec => []QuietOnceClosed
  <1>1. IInv => QuietOnceClosed
    BY DEF IInv, TypeOK, ListenerInv, QuietOnceClosed
  <1> QED BY <1>1, Invariance, PTL

\* Serve never lets the error of a listener closed under it through.
THEOREM Masked == Spec => []ClosedListenerIsMasked
  <1>1. IInv => ClosedListenerIsMasked
    BY DEF IInv, ResultInv, ClosedListenerIsMasked
  <1> QED BY <1>1, Invariance, PTL

\* A Serve call made after Close or Shutdown returns ErrServerClosed and
\* never reaches its accept loop.
THEOREM LateRefused == Spec => []LateServeIsRefused
  <1>1. IInv => LateServeIsRefused
    BY DEF IInv, LateInv, LateServeIsRefused
  <1> QED BY <1>1, Invariance, PTL

\* The net.Listener of a Serve call is closed at most once, and exactly once
\* by the time Serve returns its non-nil error.
THEOREM ClosedOnce == Spec => []ListenerClosedOnce
  <1>1. IInv => ListenerClosedOnce
    <2> SUFFICES ASSUME IInv, NEW s \in Calls
                 PROVE  /\ closes[s] <= 1
                        /\ pc[s] = "returned" =>
                             /\ closes[s] = 1
                             /\ s \notin open \cup listeners
                             /\ result[s] \in {"ErrServerClosed", "acceptErr"}
      BY Zenon DEF ListenerClosedOnce
    <2>1. closes[s] = IF s \in open THEN 0 ELSE 1
      BY DEF IInv, ListenerInv
    <2>2. pc[s] = "returned" => s \notin open /\ s \notin listeners
      BY DEF IInv, ListenerInv
    <2>3. pc[s] = "returned" => result[s] \in {"ErrServerClosed", "acceptErr"}
      BY DEF IInv, ResultInv
    <2> QED BY <2>1, <2>2, <2>3
  <1> QED BY <1>1, Invariance, PTL

\* No error of a listener closed by Close or Shutdown is lost.
THEOREM ErrorReported == Spec => []CloseErrorReported
  <1>1. IInv => CloseErrorReported
    BY DEF IInv, ResultInv
  <1> QED BY <1>1, Invariance, PTL

\* No connection is accepted once a Close or Shutdown has returned.
THEOREM NoLateAccept == Spec => NoAcceptOnceClosed
  <1> DEFINE A == Closed => \A c \in Conns : connState[c] = "dialing" => connState'[c] = "dialing"
  <1>1. IInv /\ [Next]_vars => [A]_vars
    <2> SUFFICES ASSUME IInv, Next, Closed,
                        NEW c \in Conns, connState[c] = "dialing"
                 PROVE  connState'[c] = "dialing"
      OBVIOUS
    <2>1. \/ connState' = connState
          \/ \E s \in Calls : AcceptConn(s)
          \/ \E s \in Calls : Spawn(s)
          \/ \E d \in Conns : ConnEnds(d)
      <3>1. ASSUME NEW s \in Calls, ServeStep(s), ~AcceptConn(s), ~Spawn(s)
            PROVE  connState' = connState
        BY <3>1 DEF ServeStep, CallServe, TrackLock, TrackCheck, TrackAdd, AcceptFails,
                    HandleAcceptError, Wake, UntrackLock, Untrack, DeferredClose
      <3>2. ASSUME NEW k \in Closers, CloserStep(k) PROVE connState' = connState
        BY <3>2 DEF CloserStep, CallClose, CloseLock, CloseOneListener, CloseReturn
      <3> QED BY <3>1, <3>2 DEF Next
    <2>2. ASSUME NEW s \in Calls, AcceptConn(s) PROVE FALSE
      BY <2>2, ZenonT(60) DEF AcceptConn, IInv, ListenerInv
    <2>3. ASSUME NEW s \in Calls, Spawn(s) PROVE connState'[c] = "dialing"
      BY <2>3 DEF Spawn, IInv, HandOverInv, TypeOK
    <2>4. ASSUME NEW d \in Conns, ConnEnds(d) PROVE connState'[c] = "dialing"
      BY <2>4 DEF ConnEnds, IInv, TypeOK
    <2> QED BY <2>1, <2>2, <2>3, <2>4
  <1> QED BY <1>1, Invariance, PTL DEF Spec, NoAcceptOnceClosed

\* NextDelay never answers a delay with a shorter one.
LEMMA NextDelayGrows == \A d \in 0 .. MaxDelay : d <= NextDelay(d)
  BY DelayAssumption DEF NextDelay

\* The backoff of an accept loop only shrinks when it accepted a connection.
THEOREM BackoffGrows == Spec => BackoffNeverShrinks
  <1> DEFINE A == \A s \in Calls : tempDelay'[s] < tempDelay[s] => pc[s] = "spawn"
  <1>1. IInv /\ [Next]_vars => [A]_vars
    <2> SUFFICES ASSUME IInv, Next, NEW t \in Calls, pc[t] # "spawn"
                 PROVE  ~(tempDelay'[t] < tempDelay[t])
      OBVIOUS
    <2> USE DEF IInv, TypeOK
    <2>1. tempDelay' = tempDelay => ~(tempDelay'[t] < tempDelay[t])
      OBVIOUS
    <2>2. ASSUME NEW s \in Calls, Spawn(s) PROVE tempDelay'[t] = tempDelay[t]
      BY <2>2 DEF Spawn
    <2>3. ASSUME NEW s \in Calls, HandleAcceptError(s)
          PROVE  ~(tempDelay'[t] < tempDelay[t])
      BY <2>3, NextDelayGrows, NextDelayType DEF HandleAcceptError
    <2>4. ASSUME NEW s \in Calls, ServeStep(s), ~Spawn(s), ~HandleAcceptError(s)
          PROVE  tempDelay' = tempDelay
      BY <2>4 DEF ServeStep, CallServe, TrackLock, TrackCheck, TrackAdd, AcceptConn,
                  AcceptFails, Wake, UntrackLock, Untrack, DeferredClose
    <2>5. ASSUME NEW k \in Closers, CloserStep(k) PROVE tempDelay' = tempDelay
      BY <2>5 DEF CloserStep, CallClose, CloseLock, CloseOneListener, CloseReturn
    <2>6. ASSUME NEW c \in Conns, ConnEnds(c) PROVE tempDelay' = tempDelay
      BY <2>6 DEF ConnEnds
    <2>7. tempDelay'[t] = tempDelay[t] => ~(tempDelay'[t] < tempDelay[t])
      OBVIOUS
    <2> QED BY <2>1, <2>2, <2>3, <2>4, <2>5, <2>6, <2>7 DEF Next
  <1> QED BY <1>1, Invariance, PTL DEF Spec, BackoffNeverShrinks

----------------------------------------------------------------------------
(***************************************************************************)
(* Refinement: the server implements ServerPromise.                        *)
(***************************************************************************)

\* Each step of the server is a step of ServerPromise or leaves it alone.
LEMMA StepRefines == IInv /\ IInv' /\ [Next]_vars => [Promise!Next]_(Promise!vars)
  <1> SUFFICES ASSUME IInv, IInv', [Next]_vars PROVE [Promise!Next]_(Promise!vars)
    OBVIOUS
  <1> USE DEF Promise!Next, Promise!vars, Accepting, Closed, IInv, TypeOK
  <1>1. ASSUME NEW s \in Calls, CallServe(s) PROVE UNCHANGED Promise!vars
    <2>1. Accepting' = Accepting
      BY ActorsAssumption, <1>1 DEF CallServe
    <2>2. Closed' = Closed
      BY ActorsAssumption, <1>1 DEF CallServe
    <2> QED BY <2>1, <2>2, <1>1 DEF CallServe
  <1>2. ASSUME NEW s \in Calls, TrackLock(s) PROVE UNCHANGED Promise!vars
    <2>1. Accepting' = Accepting
      BY ActorsAssumption, <1>2 DEF TrackLock
    <2>2. Closed' = Closed
      BY ActorsAssumption, <1>2 DEF TrackLock
    <2> QED BY <2>1, <2>2, <1>2 DEF TrackLock
  <1>3. ASSUME NEW s \in Calls, TrackCheck(s) PROVE UNCHANGED Promise!vars
    <2>1. Accepting' = Accepting
      BY ActorsAssumption, <1>3 DEF TrackCheck
    <2>2. Closed' = Closed
      BY ActorsAssumption, <1>3 DEF TrackCheck
    <2> QED BY <2>1, <2>2, <1>3 DEF TrackCheck
  <1>4. ASSUME NEW s \in Calls, AcceptFails(s) PROVE UNCHANGED Promise!vars
    <2>1. Accepting' = Accepting
      BY ActorsAssumption, <1>4 DEF AcceptFails
    <2>2. Closed' = Closed
      BY ActorsAssumption, <1>4 DEF AcceptFails
    <2> QED BY <2>1, <2>2, <1>4 DEF AcceptFails
  <1>5. ASSUME NEW s \in Calls, Wake(s) PROVE UNCHANGED Promise!vars
    <2>1. Accepting' = Accepting
      BY ActorsAssumption, <1>5 DEF Wake
    <2>2. Closed' = Closed
      BY ActorsAssumption, <1>5 DEF Wake
    <2> QED BY <2>1, <2>2, <1>5 DEF Wake
  <1>6. ASSUME NEW s \in Calls, UntrackLock(s) PROVE UNCHANGED Promise!vars
    <2>1. Accepting' = Accepting
      BY ActorsAssumption, <1>6 DEF UntrackLock
    <2>2. Closed' = Closed
      BY ActorsAssumption, <1>6 DEF UntrackLock
    <2> QED BY <2>1, <2>2, <1>6 DEF UntrackLock
  <1>7. ASSUME NEW s \in Calls, Untrack(s) PROVE UNCHANGED Promise!vars
    <2>1. Accepting' = Accepting
      BY ActorsAssumption, <1>7, ZenonT(60) DEF Untrack
    <2>2. Closed' = Closed
      BY ActorsAssumption, <1>7 DEF Untrack
    <2> QED BY <2>1, <2>2, <1>7 DEF Untrack
  <1>8. ASSUME NEW s \in Calls, DeferredClose(s) PROVE UNCHANGED Promise!vars
    <2>1. Accepting' = Accepting
      BY ActorsAssumption, <1>8 DEF DeferredClose, OnceClose
    <2>2. Closed' = Closed
      BY ActorsAssumption, <1>8 DEF DeferredClose, OnceClose
    <2> QED BY <2>1, <2>2, <1>8 DEF DeferredClose, OnceClose
  <1>9. ASSUME NEW k \in Closers, CallClose(k) PROVE UNCHANGED Promise!vars
    <2>1. Accepting' = Accepting
      BY ActorsAssumption, <1>9 DEF CallClose
    <2>2. Closed' = Closed
      BY ActorsAssumption, <1>9 DEF CallClose
    <2> QED BY <2>1, <2>2, <1>9, ZenonT(60) DEF CallClose
  <1>10. ASSUME NEW k \in Closers, CloseLock(k) PROVE UNCHANGED Promise!vars
    <2>1. Accepting' = Accepting
      BY ActorsAssumption, <1>10 DEF CloseLock
    <2>2. Closed' = Closed
      BY ActorsAssumption, <1>10 DEF CloseLock
    <2> QED BY <2>1, <2>2, <1>10 DEF CloseLock
  <1>11. ASSUME NEW s \in Calls, TrackAdd(s) PROVE Promise!Start(s)
    BY ActorsAssumption, <1>11 DEF TrackAdd, Promise!Start, ListenerInv, FlagInv
  <1>12. ASSUME NEW s \in Calls, AcceptConn(s) PROVE \E c \in Conns : Promise!Accept(c)
    <2>1. PICK c \in Conns : /\ connState[c] = "dialing"
                             /\ connState' = [connState EXCEPT ![c] = "accepted"]
      BY <1>12, ZenonT(60) DEF AcceptConn
    <2>2. s \in Accepting
      BY <1>12, ZenonT(60) DEF AcceptConn
    <2>3. Accepting' = Accepting /\ Closed' = Closed
      BY ActorsAssumption, <1>12 DEF AcceptConn
    <2> QED BY <2>1, <2>2, <2>3, Zenon DEF Promise!Accept
  <1>13. ASSUME NEW s \in Calls, Spawn(s) PROVE Promise!HandOver(rw[s])
    BY ActorsAssumption, <1>13 DEF Spawn, Promise!HandOver, HandOverInv
  <1>14. ASSUME NEW s \in Calls, HandleAcceptError(s)
         PROVE  Promise!Stop(s) \/ UNCHANGED Promise!vars
    <2>1. Closed' = Closed /\ connState' = connState /\ open' = open
      BY ActorsAssumption, <1>14 DEF HandleAcceptError
    <2>2. CASE pc' = [pc EXCEPT ![s] = "sleep"]
      BY <1>14, <2>1, <2>2 DEF HandleAcceptError
    <2>3. CASE pc' = [pc EXCEPT ![s] = "untrack"]
      BY <1>14, <2>1, <2>3, ZenonT(60) DEF HandleAcceptError, Promise!Stop
    <2> QED BY <1>14, <2>2, <2>3, ZenonT(60) DEF HandleAcceptError
  <1>15. ASSUME NEW k \in Closers, CloseOneListener(k) PROVE \E s \in Calls : Promise!Stop(s)
    BY ActorsAssumption, <1>15 DEF CloseOneListener, Promise!Stop, OnceClose, ListenerInv
  <1>16. ASSUME NEW k \in Closers, CloseReturn(k) PROVE Promise!Close
    BY ActorsAssumption, <1>16 DEF CloseReturn, Promise!Close, ListenerInv
  <1>17. ASSUME NEW c \in Conns, ConnEnds(c) PROVE Promise!End(c)
    BY ActorsAssumption, <1>17 DEF ConnEnds, Promise!End
  <1>18. CASE UNCHANGED vars
    BY <1>18, ZenonT(60) DEF vars
  <1> QED
    BY <1>1, <1>2, <1>3, <1>4, <1>5, <1>6, <1>7, <1>8, <1>9, <1>10, <1>11, <1>12, <1>13, <1>14, <1>15, <1>16, <1>17, <1>18, ZenonT(60) DEF Next, ServeStep, CloserStep, Spawn, HandOverInv

\* Serve, Close and Shutdown together keep the promise of ServerPromise.
THEOREM Refinement == Spec => KeepsPromise
  <1>1. Init => Promise!Init
    BY DEF Init, Promise!Init, Accepting, Closed
  <1> QED
    BY <1>1, StepRefines, Invariance, PTL DEF Spec, KeepsPromise, Promise!Spec
=============================================================================
