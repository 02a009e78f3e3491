----------------------- MODULE RequestHandlingProofs -----------------------
(***************************************************************************)
(* Proofs about RequestHandling, for any number of connections, Responses, *)
(* operations and requests, with and without LogTraffic.                   *)
(***************************************************************************)
EXTENDS RequestHandling, TLAPS

\* The provers have a minute for every leaf that asks for no other.
USE SMTT(60), ZenonT(60)

USE DEF connVars, respVars, Holding, Goto, Die, Message

\* The invariant holds before the first request: the pool is empty and no
\* connection has a Response.
LEMMA InitInv == Init => IInv
<1> SUFFICES ASSUME Init PROVE IInv
  OBVIOUS
<1>1. EmptyMessage \in Msg
  BY DEF EmptyMessage, Msg
<1>2. TypeOK
  <2>1. body \in [Objs -> Msg]
    BY <1>1 DEF Init
  <2>2. /\ hpc \in [Conns -> {"idle", "new", "handle", "items", "write", "release", "flush", "dead"}]
        /\ turn \in [Conns -> 0 .. MaxTurns]
        /\ done \in [Conns -> Nat]
    BY RequestsAssumption DEF Init
  <2>3. /\ req \in [Conns -> Requests \cup {None}]
        /\ resp \in [Conns -> Objs \cup {None}]
        /\ disallow \in [Conns -> BOOLEAN]
        /\ left \in [Objs -> BOOLEAN]
        /\ pool \subseteq Objs /\ handlers \subseteq Ops
        /\ known \in [Conns -> SUBSET Ops]
    BY DEF Init
  <2>4. /\ wbuf \in [Conns -> Seq(Msg \cup {Partial})]
        /\ sent \in [Conns -> Seq(Msg \cup {Partial})]
        /\ buf \in [Objs -> Seq(Msg \cup {Partial})]
    <3>1. <<>> \in Seq(Msg \cup {Partial})
      OBVIOUS
    <3> QED
      BY <3>1 DEF Init
  <2> QED
    BY <2>1, <2>2, <2>3, <2>4 DEF TypeOK
<1>3. PoolExclusive /\ PooledIsClean
  BY DEF Init, PoolExclusive, PooledIsClean
<1>4. ASSUME NEW c \in Conns PROVE ConnInv(c)
  BY NoneAssumption DEF Init, ConnInv, StageOK, CleanOK, BodyOK, ReplyOK, SupportOK
<1> QED
  BY <1>2, <1>3, <1>4 DEF IInv

\* A connection that does not move and whose Response nobody touches keeps its
\* part of the invariant, while handlers may be registered.
LEMMA ConnStable ==
  ASSUME NEW d \in Conns, ConnInv(d), handlers \subseteq handlers',
         hpc'[d] = hpc[d], req'[d] = req[d], done'[d] = done[d], resp'[d] = resp[d],
         wbuf'[d] = wbuf[d], sent'[d] = sent[d], known'[d] = known[d],
         resp[d] \in Objs => /\ body'[resp[d]] = body[resp[d]]
                             /\ buf'[resp[d]] = buf[resp[d]]
                             /\ left'[resp[d]] = left[resp[d]]
  PROVE  ConnInv(d)'
<1> USE DEF ConnInv
<1>1. StageOK(d)' /\ CleanOK(d)'
  BY DEF StageOK, CleanOK
<1>2. hpc[d] \in Holding => resp[d] \in Objs
  BY DEF StageOK
<1>3. BodyOK(d)'
  BY <1>2 DEF BodyOK
<1>4. ReplyOK(d)'
  BY DEF ReplyOK
<1>5. SupportOK(d)'
  BY <1>2 DEF SupportOK
<1> QED
  BY <1>1, <1>3, <1>4, <1>5

\* A step of connection c that changes at most the Response o, which no other
\* connection uses, keeps the invariant of every other connection.
LEMMA Others ==
  ASSUME IInv, NEW c \in Conns, NEW o, handlers' = handlers,
         \A d \in Conns \ {c} :
           /\ hpc'[d] = hpc[d] /\ req'[d] = req[d] /\ done'[d] = done[d] /\ resp'[d] = resp[d]
           /\ wbuf'[d] = wbuf[d] /\ sent'[d] = sent[d] /\ known'[d] = known[d]
           /\ resp[d] # o,
         \A p \in Objs \ {o} : body'[p] = body[p] /\ buf'[p] = buf[p] /\ left'[p] = left[p]
  PROVE  \A d \in Conns \ {c} : ConnInv(d)'
<1> SUFFICES ASSUME NEW d \in Conns \ {c} PROVE ConnInv(d)'
  OBVIOUS
<1>1. ConnInv(d)
  BY DEF IInv
<1>2. resp[d] \in Objs => /\ body'[resp[d]] = body[resp[d]]
                          /\ buf'[resp[d]] = buf[resp[d]]
                          /\ left'[resp[d]] = left[resp[d]]
  OBVIOUS
<1> QED
  BY <1>1, <1>2, ConnStable

\* The Response a connection uses is its own.
LEMMA Owner ==
  ASSUME IInv, NEW c \in Conns, hpc[c] \in Holding
  PROVE  /\ resp[c] \in Objs /\ resp[c] # None /\ resp[c] \notin pool
         /\ \A d \in Conns \ {c} : resp[d] # resp[c]
         /\ req[c] \in Requests /\ ~left[resp[c]]
BY NoneAssumption DEF IInv, ConnInv, StageOK, CleanOK, PoolExclusive

\* Giving connection c the Response that it has, or none, keeps Responses apart.
LEMMA StillExclusive ==
  ASSUME IInv, NEW c \in Conns, pool' = pool,
         resp' = resp \/ resp' = [resp EXCEPT ![c] = None]
  PROVE  PoolExclusive'
<1>1. resp \in [Conns -> Objs \cup {None}] /\ PoolExclusive
  BY DEF IInv, TypeOK
<1>2. \A d \in Conns : resp'[d] = resp[d] \/ resp'[d] = None
  BY <1>1
<1> QED
  BY <1>1, <1>2 DEF PoolExclusive

\* A connection that dies or has just been accepted satisfies the invariant.
LEMMA DeadInv ==
  ASSUME NEW c \in Conns, hpc'[c] = "dead", resp'[c] = None, known'[c] \subseteq handlers'
  PROVE  ConnInv(c)'
BY NoneAssumption DEF ConnInv, StageOK, CleanOK, BodyOK, ReplyOK, SupportOK

\* conn.readRequest keeps the invariant.
LEMMA ReadRequestInv ==
  ASSUME IInv, NEW c \in Conns, ReadRequest(c)
  PROVE  IInv'
<1> USE DEF ReadRequest
<1>1. TypeOK'
  <2>1. TypeOK
    BY DEF IInv
  <2>2. turn' \in [Conns -> 0 .. MaxTurns]
    BY <2>1, RequestsAssumption DEF TypeOK
  <2>3. <<>> \in Seq(Msg \cup {Partial})
    OBVIOUS
  <2>4. sent' \in [Conns -> Seq(Msg \cup {Partial})]
    BY <2>1, <2>3 DEF TypeOK
  <2> QED
    BY <2>1, <2>2, <2>4 DEF TypeOK
<1>2. PoolExclusive'
  BY StillExclusive
<1>3. PooledIsClean'
  BY DEF IInv, PooledIsClean
<1>4. \A d \in Conns \ {c} : ConnInv(d)'
  <2>1. ConnInv(c) /\ hpc[c] = "idle" /\ TypeOK
    BY DEF IInv
  <2>2. resp[c] = None
    BY <2>1 DEF ConnInv, StageOK, TypeOK
  <2> SUFFICES ASSUME NEW d \in Conns \ {c} PROVE ConnInv(d)'
    OBVIOUS
  <2>3. ConnInv(d)
    BY DEF IInv
  <2> QED
    BY <2>1, <2>3, ConnStable DEF TypeOK
<1>5. ConnInv(c)'
  <2>1. ConnInv(c) /\ TypeOK
    BY DEF IInv
  <2>2. hpc'[c] = "new" /\ done'[c] = 0 /\ req'[c] \in Requests /\ resp'[c] \notin Objs /\ known'[c] = handlers /\ handlers' = handlers
    BY <2>1 DEF TypeOK, ConnInv, StageOK
  <2> QED
    BY <2>2 DEF ConnInv, StageOK, CleanOK, BodyOK, ReplyOK, SupportOK
<1> QED
  BY <1>1, <1>2, <1>3, <1>4, <1>5 DEF IInv

\* Server.Serve starting conn.serve for a new connection keeps the invariant.
LEMMA AcceptInv ==
  ASSUME IInv, NEW c \in Conns, Accept(c)
  PROVE  IInv'
<1> USE DEF Accept
<1>1. TypeOK'
  <2>1. TypeOK
    BY DEF IInv
  <2>2. turn' \in [Conns -> 0 .. MaxTurns]
    BY <2>1, RequestsAssumption DEF TypeOK
  <2> QED
    BY <2>1, <2>2 DEF TypeOK
<1>2. PoolExclusive' /\ PooledIsClean'
  BY StillExclusive DEF IInv, PooledIsClean
<1>3. ASSUME NEW d \in Conns \ {c} PROVE ConnInv(d)'
  <2>1. ConnInv(d) /\ TypeOK
    BY DEF IInv
  <2> QED
    BY <2>1, ConnStable DEF TypeOK
<1>4. ConnInv(c)'
  <2>1. ConnInv(c) /\ TypeOK
    BY DEF IInv
  <2>2. hpc'[c] = "idle" /\ req'[c] = None /\ resp'[c] \notin Objs /\ known'[c] \subseteq handlers'
    BY <2>1 DEF TypeOK, ConnInv, StageOK, SupportOK
  <2> QED
    BY <2>2 DEF ConnInv, StageOK, CleanOK, BodyOK, ReplyOK, SupportOK
<1> QED
  BY <1>1, <1>2, <1>3, <1>4 DEF IInv

\* writer.Flush keeps the invariant: the client gets what was written.
LEMMA FlushInv ==
  ASSUME IInv, NEW c \in Conns, Flush(c)
  PROVE  IInv'
<1> USE DEF Flush
<1>0. TypeOK /\ ConnInv(c) /\ <<>> \in Seq(Msg \cup {Partial})
  BY DEF IInv
<1>1. TypeOK'
  <2>1. sent' \in [Conns -> Seq(Msg \cup {Partial})] /\ wbuf' \in [Conns -> Seq(Msg \cup {Partial})]
    <3>1. wbuf' = [wbuf EXCEPT ![c] = <<>>]
      OBVIOUS
    <3>2. sent' = [sent EXCEPT ![c] = wbuf[c]] \/ sent' = sent
      OBVIOUS
    <3> DEFINE S == Seq(Msg \cup {Partial})
    <3>3. wbuf \in [Conns -> S] /\ sent \in [Conns -> S] /\ <<>> \in S
      BY <1>0 DEF TypeOK
    <3> HIDE DEF S
    <3>4. sent' \in [Conns -> S] /\ wbuf' \in [Conns -> S]
      BY <3>1, <3>2, <3>3
    <3> QED
      BY <3>4 DEF S
  <2>2. resp' \in [Conns -> Objs \cup {None}]
    BY <1>0, Zenon DEF TypeOK
  <2>3. hpc' \in [Conns -> {"idle", "new", "handle", "items", "write", "release", "flush", "dead"}]
    BY <1>0, Zenon DEF TypeOK
  <2> QED
    BY <1>0, <2>1, <2>2, <2>3 DEF TypeOK
<1>2. PoolExclusive' /\ PooledIsClean'
  BY StillExclusive DEF IInv, PooledIsClean
<1>3. ASSUME NEW d \in Conns \ {c} PROVE ConnInv(d)'
  <2>1. ConnInv(d)
    BY DEF IInv
  <2> QED
    BY <1>0, <2>1, ConnStable DEF TypeOK
<1>4. ConnInv(c)'
  <2>1. known'[c] \subseteq handlers' /\ resp[c] = None
    BY <1>0 DEF ConnInv, SupportOK, StageOK, TypeOK
  <2>2. CASE hpc'[c] = "dead"
    BY <1>0, <2>1, <2>2, DeadInv DEF TypeOK
  <2>3. CASE hpc'[c] # "dead"
    <3>1. hpc'[c] = "idle" /\ sent'[c] = wbuf[c] /\ resp'[c] = None /\ req'[c] = req[c]
      BY <1>0, <2>1, <2>3 DEF TypeOK
    <3>2. Promise!Answers(sent'[c], req'[c])
      BY <1>0, <3>1 DEF ConnInv, ReplyOK
    <3> QED
      BY <2>1, <3>1, <3>2, NoneAssumption DEF ConnInv, StageOK, CleanOK, BodyOK, ReplyOK, SupportOK
  <2> QED
    BY <2>2, <2>3
<1> QED
  BY <1>1, <1>2, <1>3, <1>4 DEF IInv

\* newResponse keeps the invariant: a Response from the pool leaves it, is
\* emptied and has a clean Encoder; a new one is nobody else's.
LEMMA NewResponseInv ==
  ASSUME IInv, NEW c \in Conns, NewResponse(c)
  PROVE  IInv'
<1>0. TypeOK /\ ConnInv(c) /\ hpc[c] = "new" /\ PoolExclusive /\ PooledIsClean
  BY DEF IInv, NewResponse
<1>1. PICK o \in Objs :
        /\ \/ o \in pool /\ pool' = pool \ {o} /\ UNCHANGED left
           \/ /\ o \notin pool \cup Held
              /\ left' = [left EXCEPT ![o] = FALSE]
              /\ UNCHANGED pool
        /\ resp' = [resp EXCEPT ![c] = o]
        /\ body' = [body EXCEPT ![o] = EmptyMessage]
        /\ buf' = [buf EXCEPT ![o] = <<>>]
  BY Zenon DEF NewResponse
<1>2. hpc' = [hpc EXCEPT ![c] = "handle"] /\ UNCHANGED <<turn, req, disallow, done, wbuf, sent, handlers, known>>
  BY DEF NewResponse
<1>3. EmptyMessage \in Msg /\ <<>> \in Seq(Msg \cup {Partial})
  BY DEF EmptyMessage, Msg
<1>4. TypeOK'
  BY <1>0, <1>1, <1>2, <1>3, Zenon DEF TypeOK
<1>5. \A d \in Conns \ {c} : resp[d] # o
  <2>1. CASE o \in pool
    BY <1>0, <2>1, NoneAssumption DEF PoolExclusive
  <2>2. CASE o \notin pool
    BY <1>1, <2>2 DEF Held
  <2> QED
    BY <2>1, <2>2, Zenon
<1>6. o \notin pool' /\ pool' \subseteq pool
  BY <1>1
<1>7. ~left'[o] /\ \A p \in Objs \ {o} : left'[p] = left[p]
  BY <1>0, <1>1 DEF TypeOK, PooledIsClean
<1>8. /\ resp'[c] = o
      /\ \A d \in Conns \ {c} : resp'[d] = resp[d]
  BY <1>0, <1>1 DEF TypeOK
<1>9. PoolExclusive'
  BY <1>0, <1>5, <1>6, <1>8 DEF PoolExclusive
<1>10. PooledIsClean'
  BY <1>0, <1>6, <1>7, Zenon DEF PooledIsClean, TypeOK
<1>11. \A d \in Conns \ {c} : ConnInv(d)'
  <2>1. \A p \in Objs \ {o} : body'[p] = body[p] /\ buf'[p] = buf[p]
    BY <1>0, <1>1 DEF TypeOK
  <2> QED
    <3>1. /\ \A d \in Conns \ {c} :
               /\ hpc'[d] = hpc[d] /\ req'[d] = req[d] /\ done'[d] = done[d] /\ resp'[d] = resp[d]
               /\ wbuf'[d] = wbuf[d] /\ sent'[d] = sent[d] /\ known'[d] = known[d]
               /\ resp[d] # o
          /\ handlers' = handlers
      BY <1>0, <1>2, <1>5, <1>8 DEF TypeOK
    <3>2. \A p \in Objs \ {o} : body'[p] = body[p] /\ buf'[p] = buf[p] /\ left'[p] = left[p]
      BY <1>7, <2>1
    <3> QED
      BY <3>1, <3>2, Others, ZenonT(60)
<1>12. ConnInv(c)'
  <2>1. hpc'[c] = "handle" /\ body'[o] = EmptyMessage /\ buf'[o] = <<>>
    BY <1>0, <1>1, <1>2 DEF TypeOK
  <2>2. req'[c] \in Requests /\ known'[c] \subseteq handlers'
    BY <1>0, <1>2, ZenonT(60) DEF ConnInv, StageOK, SupportOK
  <2>3. done'[c] = 0
    BY <1>0, <1>2 DEF ConnInv, BodyOK
  <2>4. StageOK(c)' /\ CleanOK(c)' /\ ReplyOK(c)'
    BY <1>7, <1>8, <2>1, <2>2 DEF StageOK, CleanOK, ReplyOK
  <2>5. BodyOK(c)'
    BY <1>8, <2>1, <2>3 DEF BodyOK
  <2>6. SupportOK(c)'
    BY <1>8, <2>1, <2>2 DEF SupportOK, EmptyMessage
  <2> QED
    BY <2>4, <2>5, <2>6 DEF ConnInv
<1> QED
  BY <1>4, <1>9, <1>10, <1>11, <1>12 DEF IInv

\* errorResponse: no item of an error for the whole message says that an
\* operation is not supported.
LEMMA ErrorItemsResult ==
  /\ \A i \in 1 .. Len(ErrorItems("TooLarge")) : ErrorItems("TooLarge")[i].result # "NotSupported"
  /\ \A i \in 1 .. Len(ErrorItems("InvalidMessage")) : ErrorItems("InvalidMessage")[i].result # "NotSupported"
BY DEF ErrorItems

\* handleRequest keeps the invariant up to HandleMessage: a request that is
\* refused is not a normal one, the others start with no items.
LEMMA HandleRequestInv ==
  ASSUME IInv, NEW c \in Conns, HandleRequest(c)
  PROVE  IInv'
<1> DEFINE o == resp[c]
           r == req[c]
<1>0. TypeOK /\ ConnInv(c) /\ hpc[c] = "handle" /\ PoolExclusive /\ PooledIsClean
  BY DEF IInv, HandleRequest
<1>1. /\ o \in Objs /\ o # None /\ o \notin pool
      /\ \A d \in Conns \ {c} : resp[d] # o
      /\ r \in Requests /\ ~left[o]
  BY <1>0, Owner
<1>2. body[o] = EmptyMessage /\ buf[o] = <<>> /\ done[c] = 0
  BY <1>0 DEF ConnInv, BodyOK
<1>3. UNCHANGED <<turn, req, done, resp, wbuf, sent, pool, buf, left, handlers, known>>
  BY DEF HandleRequest
<1>4. r \in Request /\ r.ccv \in Values /\ r.items \in Seq(ReqItem) /\ r.sameMinor \in BOOLEAN
  BY <1>1, RequestsAssumption DEF Request
<1>5. ErrorItems("InvalidMessage") \in Seq(Item)
  BY DEF ErrorItems, Item, Result
<1>6. \/ /\ ~Promise!Accepted(r)
         /\ \E v \in Values \cup {None} :
              body' = [body EXCEPT ![o] = [ccv |-> v, count |-> 0, items |-> ErrorItems("InvalidMessage")]]
         /\ hpc' = [hpc EXCEPT ![c] = "write"]
         /\ UNCHANGED disallow
      \/ /\ Promise!Accepted(r)
         /\ body' = [body EXCEPT ![o] = [ccv |-> r.ccv, count |-> 0, items |-> <<>>]]
         /\ hpc' = [hpc EXCEPT ![c] = "items"]
         /\ disallow' = [disallow EXCEPT ![c] = r.sameMinor]
  <2>0. body[o].ccv = None /\ body[o].items = <<>> /\ Len(body[o].items) = 0
    BY <1>2 DEF EmptyMessage
  <2>1. CASE ~r.wellFormed
    BY <2>0, <2>1, Zenon DEF HandleRequest, Promise!Accepted
  <2>2. CASE r.wellFormed /\ ~r.sameMajor
    BY <1>4, <2>0, <2>2 DEF HandleRequest, Promise!Accepted
  <2>3. CASE r.wellFormed /\ r.sameMajor
    BY <2>0, <2>3 DEF HandleRequest, Promise!Accepted
  <2> QED
    BY <2>1, <2>2, <2>3, Zenon
<1>7. PICK m \in Msg : body' = [body EXCEPT ![o] = m] /\ m = body'[o]
  <2>1. \A v \in Values \cup {None} : [ccv |-> v, count |-> 0, items |-> ErrorItems("InvalidMessage")] \in Msg
    BY <1>5 DEF Msg
  <2>2. [ccv |-> r.ccv, count |-> 0, items |-> <<>>] \in Msg
    BY <1>4 DEF Msg
  <2>3. \E m \in Msg : body' = [body EXCEPT ![o] = m]
    BY <1>6, <2>1, <2>2, Zenon
  <2> QED
    BY <1>0, <1>1, <2>3, Zenon DEF TypeOK
<1>8. TypeOK'
  <2>1. body' \in [Objs -> Msg]
    BY <1>0, <1>7, Zenon DEF TypeOK
  <2>2. disallow' \in [Conns -> BOOLEAN]
    BY <1>0, <1>4, <1>6, Zenon DEF TypeOK
  <2>3. hpc' \in [Conns -> {"idle", "new", "handle", "items", "write", "release", "flush", "dead"}]
    BY <1>0, <1>6, Zenon DEF TypeOK
  <2> QED
    BY <1>0, <1>3, <2>1, <2>2, <2>3 DEF TypeOK
<1>9. PoolExclusive' /\ PooledIsClean'
  BY <1>0, <1>3, ZenonT(60) DEF PoolExclusive, PooledIsClean
<1>10. \A d \in Conns \ {c} : ConnInv(d)'
  <2>1. \A p \in Objs \ {o} : body'[p] = body[p] /\ buf'[p] = buf[p] /\ left'[p] = left[p]
    BY <1>0, <1>3, <1>7 DEF TypeOK
  <2>2. \A d \in Conns \ {c} : hpc'[d] = hpc[d]
    BY <1>0, <1>6, ZenonT(60) DEF TypeOK
  <2> QED
    BY <1>1, <1>3, <2>1, <2>2, Others
<1>11. ConnInv(c)'
  <2>0. /\ hpc'[c] \in {"write", "items"} /\ resp'[c] = o /\ req'[c] = r
        /\ known'[c] \subseteq handlers' /\ ~left'[o]
    BY <1>0, <1>1, <1>3, <1>6, ZenonT(60) DEF TypeOK, ConnInv, SupportOK
  <2>1. StageOK(c)' /\ CleanOK(c)' /\ ReplyOK(c)'
    BY <1>1, <2>0 DEF StageOK, CleanOK, ReplyOK
  <2>2. CASE ~Promise!Accepted(r)
    <3>0. PICK v \in Values \cup {None} :
            /\ body' = [body EXCEPT ![o] = [ccv |-> v, count |-> 0, items |-> ErrorItems("InvalidMessage")]]
            /\ hpc' = [hpc EXCEPT ![c] = "write"]
      BY <1>6, <2>2, Zenon
    <3>1. hpc'[c] = "write" /\ body'[o].items = ErrorItems("InvalidMessage")
      BY <1>0, <1>1, <3>0, Zenon DEF TypeOK
    <3>2. BodyOK(c)'
      <4>1. Len(buf'[o]) <= 1
        BY <1>2, <1>3
      <4> QED
        BY <1>3, <2>0, <2>2, <3>1, <4>1, Zenon DEF BodyOK, Normal
    <3>3. SupportOK(c)'
      BY <2>0, <3>1, ErrorItemsResult, ZenonT(60) DEF SupportOK
    <3> QED
      BY <2>1, <3>2, <3>3 DEF ConnInv
  <2>3. CASE Promise!Accepted(r)
    <3>1. /\ hpc'[c] = "items"
          /\ body'[o] = [ccv |-> r.ccv, count |-> 0, items |-> <<>>]
      BY <1>0, <1>1, <1>6, <2>3, ZenonT(60) DEF TypeOK
    <3>2. Len(r.items) \in Nat
      BY <1>4
    <3>3. AnsweredTo(body'[o], r, 0)
      BY <3>1, <3>2 DEF AnsweredTo
    <3>4. BodyOK(c)'
      BY <1>2, <1>3, <2>0, <2>3, <3>1, <3>3 DEF BodyOK
    <3>5. SupportOK(c)'
      BY <2>0, <3>1 DEF SupportOK
    <3> QED
      BY <2>1, <3>4, <3>5 DEF ConnInv
  <2> QED
    BY <2>2, <2>3, Zenon
<1> QED
  BY <1>8, <1>9, <1>10, <1>11 DEF IInv

\* A panic keeps the invariant: the connection is dead, its Response is nobody's
\* and will not be pooled, whatever its Encoder holds.
LEMMA PanicInv ==
  ASSUME IInv, TypeOK', NEW c \in Conns, hpc[c] \in Holding, Die(c),
         UNCHANGED <<req, sent, pool, handlers, known>>,
         \A d \in Conns \ {c} : done'[d] = done[d],
         \A p \in Objs \ {resp[c]} : body'[p] = body[p] /\ buf'[p] = buf[p] /\ left'[p] = left[p]
  PROVE  IInv'
<1>0. TypeOK /\ ConnInv(c) /\ PooledIsClean
  BY DEF IInv
<1>1. resp[c] \in Objs /\ resp[c] \notin pool /\ \A d \in Conns \ {c} : resp[d] # resp[c]
  BY Owner
<1>2. PoolExclusive'
  BY StillExclusive, Zenon
<1>3. PooledIsClean'
  BY <1>0, <1>1 DEF PooledIsClean, TypeOK
<1>4. /\ hpc'[c] = "dead" /\ resp'[c] = None
      /\ \A d \in Conns \ {c} : hpc'[d] = hpc[d] /\ resp'[d] = resp[d] /\ wbuf'[d] = wbuf[d]
  BY <1>0 DEF TypeOK
<1>5. \A d \in Conns \ {c} : ConnInv(d)'
  <2>1. \A d \in Conns \ {c} :
          /\ hpc'[d] = hpc[d] /\ req'[d] = req[d] /\ done'[d] = done[d] /\ resp'[d] = resp[d]
          /\ wbuf'[d] = wbuf[d] /\ sent'[d] = sent[d] /\ known'[d] = known[d]
          /\ resp[d] # resp[c]
    BY <1>1, <1>4, ZenonT(60)
  <2>2. handlers' = handlers
    BY ZenonT(60)
  <2> QED
    BY <2>1, <2>2, Others, ZenonT(60)
<1>6. ConnInv(c)'
  <2>1. known'[c] \subseteq handlers'
    BY <1>0 DEF ConnInv, SupportOK
  <2> QED
    BY <1>4, <2>1, DeadInv
<1> QED
  BY <1>2, <1>3, <1>5, <1>6, ZenonT(60) DEF IInv

\* Appending the answer to the current item keeps the invariant.
LEMMA AppendItemInv ==
  ASSUME IInv, NEW c \in Conns, hpc[c] = "items", done[c] < Len(req[c].items),
         NEW result \in Result, AppendItem(c, result),
         result = "NotSupported" => req[c].items[done[c] + 1].op \notin handlers,
         disallow' \in [Conns -> BOOLEAN],
         UNCHANGED <<turn, req, sent, pool, buf, left, handlers, known>>
  PROVE  IInv'
<1> DEFINE o  == resp[c]
           r  == req[c]
           n  == done[c]
           it == r.items[n + 1]
           x  == [op |-> it.op, uid |-> it.uid, result |-> result]
<1>0. TypeOK /\ ConnInv(c) /\ PoolExclusive /\ PooledIsClean
  BY DEF IInv
<1>1. /\ o \in Objs /\ \A d \in Conns \ {c} : resp[d] # o
      /\ r \in Requests /\ ~left[o]
  BY Owner
<1>2. r.items \in Seq(ReqItem) /\ n \in Nat /\ Len(r.items) \in Nat /\ n + 1 \in 1 .. Len(r.items)
  BY <1>0, <1>1, RequestsAssumption DEF Request, TypeOK
<1>3. it \in ReqItem /\ x \in Item
  <2>1. it \in ReqItem
    BY <1>2
  <2>2. it.op \in Ops /\ it.uid \in Values
    BY <2>1 DEF ReqItem
  <2> HIDE DEF it
  <2> QED
    BY <2>1, <2>2 DEF Item
<1>4. body[o] \in Msg /\ body[o].items \in Seq(Item)
  BY <1>0, <1>1, ZenonT(60) DEF TypeOK, Msg
<1>5. /\ Promise!Accepted(r) /\ buf[o] = <<>> /\ body[o].ccv = r.ccv
      /\ AnsweredTo(body[o], r, n)
  BY <1>0, ZenonT(60) DEF ConnInv, BodyOK
<1>6. body' = [body EXCEPT ![o] = [body[o] EXCEPT !.items = Append(body[o].items, x)]]
  BY <1>0 DEF AppendItem, TypeOK
<1>7. /\ body'[o] \in Msg /\ body'[o].ccv = r.ccv
      /\ body'[o].items = Append(body[o].items, x)
  <2>1. Append(body[o].items, x) \in Seq(Item)
    BY <1>3, <1>4
  <2>2. body'[o] = [body[o] EXCEPT !.items = Append(body[o].items, x)]
    BY <1>0, <1>1, <1>6 DEF TypeOK
  <2> QED
    BY <1>4, <1>5, <2>1, <2>2, Zenon DEF Msg
<1>8. /\ Len(body'[o].items) = n + 1
      /\ \A i \in 1 .. n : body'[o].items[i] = body[o].items[i]
      /\ body'[o].items[n + 1] = x
  <2> DEFINE s == body[o].items
  <2>1. s \in Seq(Item) /\ Len(s) = n /\ n \in Nat /\ x \in Item /\ body'[o].items = Append(s, x)
    BY <1>2, <1>3, <1>4, <1>5, <1>7, Zenon DEF AnsweredTo
  <2> HIDE DEF s, x, n
  <2>2. /\ Len(Append(s, x)) = n + 1
        /\ \A i \in 1 .. n : Append(s, x)[i] = s[i]
        /\ Append(s, x)[n + 1] = x
    BY <2>1
  <2> QED
    BY <2>1, <2>2, ZenonT(60) DEF s
<1>9. done' = [done EXCEPT ![c] = n + 1] /\ UNCHANGED <<hpc, resp, wbuf>>
  BY DEF AppendItem
<1>10. \A p \in Objs \ {o} : body'[p] = body[p]
  BY <1>0, <1>6 DEF TypeOK
<1>11. TypeOK'
  <2>1. body' \in [Objs -> Msg]
    BY <1>0, <1>6, <1>7, Zenon DEF TypeOK
  <2>2. done' \in [Conns -> Nat]
    BY <1>0, <1>2, <1>9 DEF TypeOK
  <2> QED
    BY <1>0, <1>9, <2>1, <2>2, ZenonT(60) DEF TypeOK
<1>12. PoolExclusive' /\ PooledIsClean'
  BY <1>0, <1>9 DEF PoolExclusive, PooledIsClean
<1>13. \A d \in Conns \ {c} : ConnInv(d)'
  <2>1. \A d \in Conns \ {c} : done'[d] = done[d]
    BY <1>0, <1>9, ZenonT(60) DEF TypeOK
  <2> QED
    BY <1>1, <1>9, <1>10, <2>1, Others, ZenonT(60)
<1>14. ConnInv(c)'
  <2>1. StageOK(c)' /\ CleanOK(c)' /\ ReplyOK(c)'
    BY <1>0, <1>9, ZenonT(60) DEF ConnInv, StageOK, CleanOK, ReplyOK
  <2>2. AnsweredTo(body'[o], r, n + 1)
    <3>1. x.op = r.items[n + 1].op /\ x.uid = r.items[n + 1].uid
      BY ZenonT(60)
    <3>2. n + 1 <= Len(r.items) /\ n \in Nat
      BY <1>2
    <3>3. \A i \in 1 .. n : body[o].items[i].op = r.items[i].op /\ body[o].items[i].uid = r.items[i].uid
      BY <1>5, ZenonT(60) DEF AnsweredTo
    <3> HIDE DEF o, r, n, x
    <3>4. ASSUME NEW i \in 1 .. n + 1
          PROVE  body'[o].items[i].op = r.items[i].op /\ body'[o].items[i].uid = r.items[i].uid
      <4>1. i = n + 1 \/ i \in 1 .. n
        BY <3>2
      <4> QED
        BY <1>8, <3>1, <3>3, <4>1, ZenonT(60)
    <3> QED
      BY <1>8, <3>2, <3>4, ZenonT(60) DEF AnsweredTo
  <2>3. done'[c] = n + 1
    BY <1>0, <1>9, ZenonT(60) DEF TypeOK
  <2>4. BodyOK(c)'
    BY <1>5, <1>7, <1>9, <2>2, <2>3, Zenon DEF BodyOK
  <2>5. SupportOK(c)'
    <3>1. known[c] \subseteq handlers
      BY <1>0, ZenonT(60) DEF ConnInv, SupportOK
    <3>2. ASSUME NEW i \in 1 .. n + 1, body'[o].items[i].result = "NotSupported"
          PROVE  body'[o].items[i].op \notin known[c]
      <4>1. CASE i = n + 1
        BY <1>8, <3>1, <3>2, <4>1
      <4>2. CASE i # n + 1
        <5>1. i \in 1 .. n /\ Len(body[o].items) = n
          BY <1>2, <1>5, <4>2 DEF AnsweredTo
        <5> QED
          BY <1>0, <1>8, <3>2, <5>1, Zenon DEF ConnInv, SupportOK
      <4> QED
        BY <4>1, <4>2, ZenonT(60)
    <3> QED
      BY <1>8, <1>9, <3>1, <3>2, Zenon DEF SupportOK
  <2> QED
    BY <2>1, <2>4, <2>5, ZenonT(60) DEF ConnInv
<1> QED
  BY <1>11, <1>12, <1>13, <1>14, ZenonT(60) DEF IInv

\* Handling a batch item keeps the invariant.
LEMMA HandleItemInv ==
  ASSUME IInv, NEW c \in Conns, HandleItem(c)
  PROVE  IInv'
<1>0. TypeOK /\ hpc[c] = "items" /\ done[c] < Len(req[c].items)
  BY DEF IInv, HandleItem
<1>1. UNCHANGED <<turn, req, sent, pool, buf, left, handlers, known>>
  BY ZenonT(60) DEF HandleItem
<1>2. disallow' \in [Conns -> BOOLEAN]
  BY <1>0, Zenon DEF HandleItem, TypeOK
<1>3. \/ \E result \in Result :
           /\ AppendItem(c, result)
           /\ result = "NotSupported" => req[c].items[done[c] + 1].op \notin handlers
      \/ Die(c) /\ UNCHANGED <<body, done>>
  BY ZenonT(60) DEF HandleItem, Result
<1>4. CASE Die(c) /\ UNCHANGED <<body, done>>
  <2>1. <<>> \in Seq(Msg \cup {Partial})
    OBVIOUS
  <2>2. TypeOK'
    BY <1>0, <1>1, <1>2, <1>4, <2>1 DEF TypeOK
  <2> QED
    BY <1>0, <1>1, <1>4, <2>2, PanicInv, Zenon
<1> QED
  BY <1>0, <1>1, <1>2, <1>3, <1>4, AppendItemInv, ZenonT(60)

\* handleRequest after HandleMessage keeps the invariant: a normal request has
\* its complete answer in the buffer and in the Response.
LEMMA FinishMessageInv ==
  ASSUME IInv, NEW c \in Conns, FinishMessage(c)
  PROVE  IInv'
<1> DEFINE o == resp[c]
           r == req[c]
           s == body[o].items
           m == Message(body[o].ccv, Len(s), s)
<1>0. /\ TypeOK /\ ConnInv(c) /\ PoolExclusive /\ PooledIsClean
      /\ hpc[c] = "items" /\ done[c] = Len(r.items)
  BY DEF IInv, FinishMessage
<1>1. /\ o \in Objs /\ o \notin pool /\ \A d \in Conns \ {c} : resp[d] # o
      /\ r \in Requests /\ ~left[o]
  BY <1>0, Owner
<1>2. /\ r.items \in Seq(ReqItem) /\ Len(r.items) \in Nat /\ r.limit \in Nat
  BY <1>1, RequestsAssumption DEF Request
<1>3. body[o] \in Msg /\ body[o].ccv \in Values \cup {None} /\ s \in Seq(Item) /\ Len(s) \in Nat
  BY <1>0, <1>1 DEF TypeOK, Msg
<1>4. m \in Msg /\ <<m>> \in Seq(Msg \cup {Partial}) /\ <<>> \in Seq(Msg \cup {Partial})
  <2>1. m \in Msg
    BY <1>3 DEF Msg
  <2> HIDE DEF m
  <2> QED
    BY <2>1
<1>5. body[o].ccv = r.ccv /\ AnsweredTo(body[o], r, Len(r.items))
  BY <1>0 DEF ConnInv, BodyOK
<1>6. Complete(m, r)
  BY <1>5, ZenonT(60) DEF Complete, AnsweredTo
<1>7. UNCHANGED <<turn, req, disallow, done, sent, pool, handlers, known>>
  BY DEF FinishMessage
<1>8. CASE Encodable(m)
  <2> DEFINE b == IF TooLarge(c, m) THEN Message(m.ccv, m.count, ErrorItems("TooLarge")) ELSE m
  <2>1. /\ body' = [body EXCEPT ![o] = b]
        /\ buf' = [buf EXCEPT ![o] = <<m>>]
        /\ left' = [left EXCEPT ![o] = FALSE]
        /\ hpc' = [hpc EXCEPT ![c] = "write"]
        /\ UNCHANGED <<resp, wbuf>>
    BY <1>1, <1>8, ZenonT(60) DEF FinishMessage, Encoded
  <2>2. b \in Msg
    <3>1. ErrorItems("TooLarge") \in Seq(Item)
      BY DEF ErrorItems, Item, Result
    <3>2. Message(m.ccv, m.count, ErrorItems("TooLarge")) \in Msg
      BY <1>3, <3>1, ZenonT(60) DEF Msg
    <3> QED
      BY <1>4, <3>2, Zenon
  <2> HIDE DEF m, b
  <2>3. TypeOK'
    BY <1>0, <1>4, <1>7, <2>1, <2>2, Zenon DEF TypeOK
  <2>4. body'[o] = b /\ buf'[o] = <<m>> /\ ~left'[o] /\ hpc'[c] = "write" /\ resp'[c] = o
    BY <1>0, <1>1, <2>1 DEF TypeOK
  <2>5. PoolExclusive' /\ PooledIsClean'
    BY <1>0, <1>1, <1>7, <2>1 DEF PoolExclusive, PooledIsClean, TypeOK
  <2>6. \A d \in Conns \ {c} : ConnInv(d)'
    <3>1. \A p \in Objs \ {o} : body'[p] = body[p] /\ buf'[p] = buf[p] /\ left'[p] = left[p]
      BY <1>0, <2>1 DEF TypeOK
    <3>2. \A d \in Conns \ {c} : hpc'[d] = hpc[d]
      BY <1>0, <2>1 DEF TypeOK
    <3>3. \A d \in Conns \ {c} :
            /\ hpc'[d] = hpc[d] /\ req'[d] = req[d] /\ done'[d] = done[d] /\ resp'[d] = resp[d]
            /\ wbuf'[d] = wbuf[d] /\ sent'[d] = sent[d] /\ known'[d] = known[d]
            /\ resp[d] # o
      BY <1>1, <1>7, <2>1, <3>2, ZenonT(60)
    <3>4. handlers' = handlers
      BY <1>7
    <3> HIDE DEF o
    <3> QED
      BY <3>1, <3>3, <3>4, Others
  <2>7. ConnInv(c)'
    <3>1. StageOK(c)' /\ CleanOK(c)' /\ ReplyOK(c)'
      BY <1>1, <1>7, <2>4, ZenonT(60) DEF StageOK, CleanOK, ReplyOK
    <3>2. Normal(r) => b = m
      BY <1>2, <1>6 DEF Normal, Promise!Fits, TooLarge, Complete, AnsweredTo, b
    <3>3. BodyOK(c)'
      <4>1. Len(<<m>>) <= 1
        OBVIOUS
      <4>2. Len(buf'[o]) <= 1 /\ (Normal(r) => buf'[o] = <<body'[o]>> /\ Complete(body'[o], r))
        BY <1>6, <2>4, <3>2, <4>1, ZenonT(60)
      <4> QED
        BY <1>7, <2>4, <4>2, Zenon DEF BodyOK
    <3>4. SupportOK(c)'
      <4>1. known'[c] \subseteq handlers'
        BY <1>0, <1>7, Zenon DEF ConnInv, SupportOK
      <4>2. b.items = ErrorItems("TooLarge") \/ b.items = s
        BY ZenonT(60) DEF b, m
      <4>3. CASE b.items = s
        BY <1>0, <1>7, <2>4, <4>1, <4>3, ZenonT(60) DEF ConnInv, SupportOK
      <4>4. CASE b.items = ErrorItems("TooLarge")
        BY <2>4, <4>1, <4>4, ErrorItemsResult, Zenon DEF SupportOK
      <4> QED
        BY <4>2, <4>3, <4>4, ZenonT(60)
    <3> QED
      BY <3>1, <3>3, <3>4 DEF ConnInv
  <2> QED
    BY <2>3, <2>5, <2>6, <2>7 DEF IInv
<1>9. CASE ~Encodable(m)
  <2>1. /\ body' = [body EXCEPT ![o] = m]
        /\ buf' = [buf EXCEPT ![o] = <<>>]
        /\ left' = [left EXCEPT ![o] = TRUE]
        /\ Die(c)
    BY <1>9, ZenonT(60) DEF FinishMessage
  <2> HIDE DEF m
  <2>2. TypeOK'
    BY <1>0, <1>4, <1>7, <2>1, Zenon DEF TypeOK
  <2>3. \A p \in Objs \ {o} : body'[p] = body[p] /\ buf'[p] = buf[p] /\ left'[p] = left[p]
    BY <1>0, <2>1 DEF TypeOK
  <2> QED
    BY <1>0, <1>7, <2>1, <2>2, <2>3, PanicInv, Zenon
<1> QED
  BY <1>8, <1>9

\* A complete message is an answer.
LEMMA CompleteAnswers ==
  ASSUME NEW m, NEW r, Normal(r) => Complete(m, r)
  PROVE  Promise!Answers(<<m>>, r)
<1>1. Len(<<m>>) = 1 /\ <<m>>[1] = m
  OBVIOUS
<1> QED
  BY <1>1 DEF Normal, Complete, AnsweredTo, Promise!Answers, Promise!Correlated

\* Writing the reply keeps the invariant, with and without LogTraffic.
LEMMA WriteReplyInv ==
  ASSUME IInv, NEW c \in Conns, WriteReply(c)
  PROVE  IInv'
<1> DEFINE o == resp[c]
           r == req[c]
           S == Seq(Msg \cup {Partial})
<1>0. /\ TypeOK /\ ConnInv(c) /\ PoolExclusive /\ PooledIsClean /\ hpc[c] = "write"
  BY ZenonT(60) DEF IInv, WriteReply
<1>1. /\ o \in Objs /\ o \notin pool /\ \A d \in Conns \ {c} : resp[d] # o
      /\ r \in Requests /\ ~left[o]
  BY <1>0, Owner
<1>2. /\ Len(buf[o]) <= 1
      /\ Normal(r) => buf[o] = <<body[o]>> /\ Complete(body[o], r)
  BY <1>0, ZenonT(60) DEF ConnInv, BodyOK
<1>3. UNCHANGED <<turn, req, disallow, done, sent, pool, body, handlers, known>>
  BY ZenonT(60) DEF WriteReply
<1>4. buf[o] \in S /\ <<body[o]>> \in S /\ <<>> \in S /\ wbuf \in [Conns -> S] /\ buf \in [Objs -> S]
  BY <1>0, <1>1, SMTT(20) DEF TypeOK
<1>5. CASE Die(c) /\ UNCHANGED <<buf, left>>
  <2>1. TypeOK'
    <3> HIDE DEF S
    <3>1. wbuf' \in [Conns -> S]
      BY <1>4, <1>5
    <3>2. wbuf' \in [Conns -> Seq(Msg \cup {Partial})]
      BY <3>1 DEF S
    <3> QED
      BY <1>0, <1>3, <1>5, <3>2 DEF TypeOK
  <2> QED
    BY <1>0, <1>3, <1>5, <2>1, PanicInv, Zenon
<1>6. CASE ~(Die(c) /\ UNCHANGED <<buf, left>>)
  <2>1. PICK w \in S, b \in S :
          /\ w = <<body[o]>> \/ w = buf[o]
          /\ wbuf' = [wbuf EXCEPT ![c] = w]
          /\ buf' = [buf EXCEPT ![o] = b]
          /\ left' = [left EXCEPT ![o] = FALSE] \/ left' = left
          /\ hpc' = [hpc EXCEPT ![c] = "release"]
          /\ UNCHANGED resp
    <3>1. Encoded(o, body[o]) = <<body[o]>>
      BY <1>1 DEF Encoded
    <3>2. CASE LogTraffic
      BY <1>4, <1>6, <3>1, <3>2, Zenon DEF WriteReply
    <3>3. CASE ~LogTraffic
      BY <1>4, <1>6, <3>3, Zenon DEF WriteReply
    <3> QED
      BY <3>2, <3>3, Zenon
  <2>2. Promise!Answers(w, r)
    <3>1. CASE w = <<body[o]>>
      BY <1>2, <3>1, CompleteAnswers, ZenonT(60)
    <3>2. CASE w = buf[o] /\ Normal(r)
      BY <1>2, <3>2, CompleteAnswers, Zenon
    <3>3. CASE w = buf[o] /\ ~Normal(r)
      BY <1>2, <3>3, ZenonT(60) DEF Normal, Promise!Answers
    <3> QED
      BY <2>1, <3>1, <3>2, <3>3, ZenonT(60)
  <2>3. TypeOK'
    <3> HIDE DEF S
    <3>1. wbuf' \in [Conns -> S] /\ buf' \in [Objs -> S]
      BY <1>4, <2>1, Zenon
    <3>2. wbuf' \in [Conns -> Seq(Msg \cup {Partial})] /\ buf' \in [Objs -> Seq(Msg \cup {Partial})]
      BY <3>1 DEF S
    <3>3. left' \in [Objs -> BOOLEAN] /\ hpc' \in [Conns -> {"idle", "new", "handle", "items", "write", "release", "flush", "dead"}]
      BY <1>0, <2>1, Zenon DEF TypeOK
    <3> QED
      BY <1>0, <1>3, <2>1, <3>2, <3>3 DEF TypeOK
  <2>4. \A p \in Objs : left'[p] => left[p]
    BY <1>0, <1>1, <2>1, Zenon DEF TypeOK
  <2>5. PoolExclusive' /\ PooledIsClean'
    BY <1>0, <1>3, <2>1, <2>4 DEF PoolExclusive, PooledIsClean, TypeOK
  <2>6. \A d \in Conns \ {c} : ConnInv(d)'
    <3>1. \A p \in Objs \ {o} : body'[p] = body[p] /\ buf'[p] = buf[p] /\ left'[p] = left[p]
      BY <1>0, <1>3, <2>1, ZenonT(60) DEF TypeOK
    <3>2. \A d \in Conns \ {c} : hpc'[d] = hpc[d] /\ wbuf'[d] = wbuf[d]
      BY <1>0, <2>1 DEF TypeOK
    <3>3. \A d \in Conns \ {c} :
            /\ hpc'[d] = hpc[d] /\ req'[d] = req[d] /\ done'[d] = done[d] /\ resp'[d] = resp[d]
            /\ wbuf'[d] = wbuf[d] /\ sent'[d] = sent[d] /\ known'[d] = known[d]
            /\ resp[d] # o
      BY <1>1, <1>3, <2>1, <3>2, ZenonT(60)
    <3>4. handlers' = handlers
      BY <1>3
    <3> HIDE DEF o
    <3> QED
      BY <3>1, <3>3, <3>4, Others, Zenon
  <2>7. ConnInv(c)'
    <3>1. hpc'[c] = "release" /\ wbuf'[c] = w /\ resp'[c] = o /\ ~left'[o]
      BY <1>0, <1>1, <2>1, <2>4 DEF TypeOK
    <3>2. StageOK(c)' /\ CleanOK(c)' /\ ReplyOK(c)' /\ BodyOK(c)'
      BY <1>1, <1>3, <2>2, <3>1, Zenon DEF StageOK, CleanOK, ReplyOK, BodyOK
    <3>3. SupportOK(c)'
      BY <1>0, <1>3, <3>1, Zenon DEF ConnInv, SupportOK
    <3> QED
      BY <3>2, <3>3 DEF ConnInv
  <2> QED
    BY <2>3, <2>5, <2>6, <2>7 DEF IInv
<1> QED
  BY <1>5, <1>6

\* releaseResponse keeps the invariant: what goes into the pool is clean and no
\* longer in use.
LEMMA ReleaseInv ==
  ASSUME IInv, NEW c \in Conns, Release(c)
  PROVE  IInv'
<1> DEFINE o == resp[c]
<1>0. /\ TypeOK /\ ConnInv(c) /\ PoolExclusive /\ PooledIsClean /\ hpc[c] = "release"
  BY SMTT(20) DEF IInv, Release
<1>1. /\ o \in Objs /\ o # None /\ \A d \in Conns \ {c} : resp[d] # o
      /\ req[c] \in Requests /\ ~left[o]
  BY <1>0, Owner
<1>2. /\ pool' = pool \cup {o}
      /\ resp' = [resp EXCEPT ![c] = None]
      /\ hpc' = [hpc EXCEPT ![c] = "flush"]
      /\ UNCHANGED <<turn, req, disallow, done, wbuf, sent, handlers, known, body, buf, left>>
  BY DEF Release
<1>3. TypeOK'
  BY <1>0, <1>1, <1>2, ZenonT(60) DEF TypeOK
<1>4. /\ resp'[c] = None /\ hpc'[c] = "flush"
      /\ \A d \in Conns \ {c} : resp'[d] = resp[d] /\ hpc'[d] = hpc[d]
  BY <1>0, <1>2 DEF TypeOK
<1>5. PoolExclusive'
  BY <1>0, <1>1, <1>2, <1>4 DEF PoolExclusive
<1>6. PooledIsClean'
  BY <1>0, <1>1, <1>2, ZenonT(60) DEF PooledIsClean
<1>7. ASSUME NEW d \in Conns \ {c} PROVE ConnInv(d)'
  <2>1. ConnInv(d)
    BY DEF IInv
  <2> QED
    BY <1>2, <1>4, <2>1, ConnStable, ZenonT(60)
<1>8. ConnInv(c)'
  BY <1>0, <1>1, <1>2, <1>4, NoneAssumption, Zenon DEF ConnInv, StageOK, CleanOK, BodyOK, ReplyOK, SupportOK
<1> QED
  BY <1>3, <1>5, <1>6, <1>7, <1>8 DEF IInv

\* Dropping a Response from the pool and registering a handler keep the
\* invariant.
LEMMA OutsideInv ==
  ASSUME IInv, \/ \E o \in Objs : PoolDrop(o)
               \/ \E op \in Ops : Handle(op)
  PROVE  IInv'
<1>1. /\ UNCHANGED <<hpc, turn, req, disallow, done, wbuf, sent, known, resp, body, buf, left>>
      /\ pool' \subseteq pool
      /\ handlers \subseteq handlers' /\ handlers' \subseteq handlers \cup Ops
  BY DEF PoolDrop, Handle
<1>2. TypeOK'
  BY <1>1 DEF IInv, TypeOK
<1>3. PoolExclusive' /\ PooledIsClean'
  BY <1>1, Zenon DEF IInv, PoolExclusive, PooledIsClean
<1>4. ASSUME NEW d \in Conns PROVE ConnInv(d)'
  <2>1. ConnInv(d)
    BY DEF IInv
  <2> QED
    BY <1>1, <2>1, ConnStable, ZenonT(60)
<1> QED
  BY <1>2, <1>3, <1>4 DEF IInv

\* Every step keeps the invariant.
LEMMA NextInv == IInv /\ [Next]_vars => IInv'
<1> SUFFICES ASSUME IInv, [Next]_vars PROVE IInv'
  OBVIOUS
<1>1. ASSUME NEW c \in Conns, ReadRequest(c) \/ Accept(c) \/ ServeStep(c) PROVE IInv'
  BY <1>1, ReadRequestInv, AcceptInv, NewResponseInv, HandleRequestInv, HandleItemInv,
     FinishMessageInv, WriteReplyInv, ReleaseInv, FlushInv DEF ServeStep
<1>2. CASE (\E o \in Objs : PoolDrop(o)) \/ (\E op \in Ops : Handle(op))
  BY <1>2, OutsideInv
<1>3. CASE UNCHANGED vars
  <2>1. /\ UNCHANGED <<hpc, turn, req, disallow, done, wbuf, sent, known, resp, body, buf, left>>
        /\ pool' = pool /\ handlers' = handlers
    BY <1>3 DEF vars
  <2>2. TypeOK' /\ PoolExclusive' /\ PooledIsClean'
    BY <2>1 DEF IInv, TypeOK, PoolExclusive, PooledIsClean
  <2>3. ASSUME NEW d \in Conns PROVE ConnInv(d)'
    <3>1. ConnInv(d)
      BY DEF IInv
    <3> QED
      BY <2>1, <3>1, ConnStable, Zenon
  <2> QED
    BY <2>2, <2>3 DEF IInv
<1> QED
  BY <1>1, <1>2, <1>3 DEF Next

\* The invariant holds in every state of a server.
THEOREM Invariance == Spec => []IInv
BY InitInv, NextInv, PTL DEF Spec

\* The pool, the buffers and the handlers keep their types.
THEOREM TypeCorrect == Spec => []TypeOK
<1>1. IInv => TypeOK
  BY DEF IInv
<1> QED
  BY <1>1, Invariance, PTL

\* newResponse and releaseResponse never share a Response between connections.
THEOREM Exclusive == Spec => []PoolExclusive
<1>1. IInv => PoolExclusive
  BY DEF IInv
<1> QED
  BY <1>1, Invariance, PTL

\* No Response with a partial encoding is ever pooled.
THEOREM Clean == Spec => []PooledIsClean
<1>1. IInv => PooledIsClean
  BY DEF IInv
<1> QED
  BY <1>1, Invariance, PTL

\* Every reply a client has received answers its own last request.
THEOREM Matching == Spec => []ReplyMatches
<1>1. IInv => ReplyMatches
  BY DEF IInv, ConnInv, ReplyOK, ReplyMatches
<1> QED
  BY <1>1, Invariance, PTL

\* No operation that had a handler when the request was read is refused.
THEOREM Supported == Spec => []SupportedIsHandled
<1>1. IInv => SupportedIsHandled
  <2> SUFFICES ASSUME IInv, NEW c \in Conns, resp[c] # None,
                      NEW i \in 1 .. Len(body[resp[c]].items),
                      body[resp[c]].items[i].result = "NotSupported"
               PROVE  body[resp[c]].items[i].op \notin known[c]
    BY DEF SupportedIsHandled
  <2>1. ConnInv(c) /\ resp[c] \in Objs
    BY ZenonT(60) DEF IInv, TypeOK
  <2> QED
    BY <2>1, Zenon DEF ConnInv, StageOK, SupportOK
<1> QED
  BY <1>1, Invariance, PTL

\* A step of another connection, of the mux or of the garbage collector leaves
\* the Response of a connection alone, and a step of its own shows.
LEMMA StepIsolated ==
  ASSUME IInv, Next, NEW c \in Conns, resp[c] # None, hpc'[c] = hpc[c], done'[c] = done[c]
  PROVE  body'[resp[c]] = body[resp[c]] /\ buf'[resp[c]] = buf[resp[c]]
<1>0. TypeOK /\ ConnInv(c) /\ resp[c] \in Objs /\ PoolExclusive
  BY Zenon DEF IInv, TypeOK
<1>1. hpc \in [Conns -> {"idle", "new", "handle", "items", "write", "release", "flush", "dead"}]
  BY <1>0, Zenon DEF TypeOK
<1>2. body \in [Objs -> Msg] /\ buf \in [Objs -> Seq(Msg \cup {Partial})] /\ done \in [Conns -> Nat]
  BY <1>0, ZenonT(60) DEF TypeOK
<1>3. \A d \in Conns \ {c} : resp[d] # resp[c]
  BY <1>0, ZenonT(60) DEF PoolExclusive
<1>4. ASSUME NEW d \in Conns, ReadRequest(d) \/ Accept(d) \/ Release(d) \/ Flush(d)
      PROVE  UNCHANGED <<body, buf>>
  BY <1>4, ZenonT(60) DEF ReadRequest, Accept, Release, Flush
<1>5. ASSUME NEW d \in Conns, NewResponse(d)
      PROVE  body'[resp[c]] = body[resp[c]] /\ buf'[resp[c]] = buf[resp[c]]
  <2>1. PICK o \in Objs :
          /\ o \in pool \/ o \notin pool \cup Held
          /\ body' = [body EXCEPT ![o] = EmptyMessage] /\ buf' = [buf EXCEPT ![o] = <<>>]
    BY <1>5, Zenon DEF NewResponse
  <2>2. o # resp[c]
    BY <1>0, <2>1, ZenonT(60) DEF PoolExclusive, Held
  <2> QED
    BY <1>0, <1>2, <2>1, <2>2, SMTT(20)
<1>6. ASSUME NEW d \in Conns, HandleRequest(d)
      PROVE  body'[resp[c]] = body[resp[c]] /\ buf'[resp[c]] = buf[resp[c]]
  <2>1. hpc[d] = "handle" /\ hpc'[d] # "handle"
    BY <1>1, <1>6 DEF HandleRequest
  <2>2. d # c
    BY <2>1
  <2>3. \E m : body' = [body EXCEPT ![resp[d]] = m]
    BY <1>6 DEF HandleRequest
  <2> QED
    BY <1>0, <1>2, <1>3, <1>6, <2>2, <2>3, ZenonT(60) DEF HandleRequest
<1>7. ASSUME NEW d \in Conns, HandleItem(d)
      PROVE  body'[resp[c]] = body[resp[c]] /\ buf'[resp[c]] = buf[resp[c]]
  <2>1. UNCHANGED buf
    BY <1>7, ZenonT(60) DEF HandleItem
  <2>2. CASE UNCHANGED body
    BY <2>1, <2>2, ZenonT(60)
  <2>3. CASE \E result : AppendItem(d, result)
    <3>1. done'[d] = done[d] + 1
      BY <1>2, <2>3 DEF AppendItem
    <3>2. d # c
      BY <1>2, <3>1
    <3>3. \E m : body' = [body EXCEPT ![resp[d]] = m]
      BY <2>3, Zenon DEF AppendItem
    <3> QED
      BY <1>0, <1>2, <1>3, <2>1, <3>2, <3>3, ZenonT(60)
  <2> QED
    BY <1>7, <2>2, <2>3, ZenonT(60) DEF HandleItem
<1>8. ASSUME NEW d \in Conns, FinishMessage(d) \/ WriteReply(d)
      PROVE  body'[resp[c]] = body[resp[c]] /\ buf'[resp[c]] = buf[resp[c]]
  <2>1. hpc'[d] # hpc[d]
    BY <1>1, <1>8, ZenonT(60) DEF FinishMessage, WriteReply
  <2>2. d # c
    BY <2>1
  <2>3. /\ UNCHANGED body \/ \E m : body' = [body EXCEPT ![resp[d]] = m]
        /\ UNCHANGED buf \/ \E b : buf' = [buf EXCEPT ![resp[d]] = b]
    BY <1>8, Zenon DEF FinishMessage, WriteReply
  <2> QED
    BY <1>0, <1>2, <1>3, <2>2, <2>3
<1>9. CASE (\E o \in Objs : PoolDrop(o)) \/ (\E op \in Ops : Handle(op))
  BY <1>9, Zenon DEF PoolDrop, Handle
<1> QED
  BY <1>4, <1>5, <1>6, <1>7, <1>8, <1>9, Zenon DEF Next, ServeStep

\* Nobody changes the Response of a connection that does not move.
THEOREM Isolated == Spec => Isolation
<1>1. IInv /\ [Next]_vars =>
        [\A c \in Conns : resp[c] # None /\ hpc'[c] = hpc[c] /\ done'[c] = done[c] =>
           /\ body'[resp[c]] = body[resp[c]]
           /\ buf'[resp[c]] = buf[resp[c]]]_vars
  BY StepIsolated, ZenonT(60)
<1> QED
  BY <1>1, Invariance, PTL DEF Spec, Isolation

\* Within the handling of a request nothing shows to the client.
LEMMA BusyMove ==
  ASSUME TypeOK, NEW c \in Conns, NEW l, hpc' = [hpc EXCEPT ![c] = l],
         hpc[c] \notin {"idle", "dead"}, l \notin {"idle", "dead"}, UNCHANGED <<req, sent>>
  PROVE  UNCHANGED Promise!vars
<1>1. \A d \in Conns : Phase(hpc'[d]) = Phase(hpc[d])
  BY DEF TypeOK, Phase
<1>2. [d \in Conns |-> Phase(hpc[d])]' = [d \in Conns |-> Phase(hpc[d])]
  BY <1>1
<1> QED
  BY <1>2 DEF Promise!vars

\* Moving a connection changes its phase and no other.
LEMMA PhaseMove ==
  ASSUME TypeOK, NEW c \in Conns, NEW l, hpc' = [hpc EXCEPT ![c] = l]
  PROVE  [d \in Conns |-> Phase(hpc[d])]' = [[d \in Conns |-> Phase(hpc[d])] EXCEPT ![c] = Phase(l)]
<1>1. \A d \in Conns : hpc'[d] = IF d = c THEN l ELSE hpc[d]
  BY DEF TypeOK
<1>2. \A d \in Conns : Phase(hpc'[d]) = IF d = c THEN Phase(l) ELSE Phase(hpc[d])
  BY <1>1
<1>3. [d \in Conns |-> Phase(hpc'[d])] = [[d \in Conns |-> Phase(hpc[d])] EXCEPT ![c] = Phase(l)]
  BY <1>2, Zenon
<1> QED
  BY <1>3

\* A panic ends the connection.
LEMMA EndMove ==
  ASSUME TypeOK, NEW c \in Conns, hpc[c] \notin {"idle", "dead"},
         hpc' = [hpc EXCEPT ![c] = "dead"], UNCHANGED <<req, sent>>
  PROVE  Promise!Next
<1>1. Phase("dead") = "dead" /\ Phase(hpc[c]) = "busy"
  BY DEF Phase
<1>2. Promise!End(c)
  BY <1>1, PhaseMove, Zenon DEF Promise!End
<1> QED
  BY <1>2 DEF Promise!Next

\* Every step of RequestHandling is a step of ReplyPromise or changes nothing
\* a client can see.
LEMMA StepRefines == IInv /\ [Next]_vars => [Promise!Next]_(Promise!vars)
<1> SUFFICES ASSUME IInv, [Next]_vars PROVE Promise!Next \/ UNCHANGED Promise!vars
  OBVIOUS
<1>0. TypeOK
  BY DEF IInv
<1>1. ASSUME NEW c \in Conns, ReadRequest(c) PROVE Promise!Next
  <2>1. Phase("new") = "busy" /\ Phase(hpc[c]) = "idle"
    BY <1>1 DEF ReadRequest, Phase
  <2>2. hpc' = [hpc EXCEPT ![c] = "new"]
    BY <1>1 DEF ReadRequest
  <2>3. /\ \E r \in Requests : req' = [req EXCEPT ![c] = r]
        /\ sent' = [sent EXCEPT ![c] = <<>>]
    BY <1>1, Zenon DEF ReadRequest
  <2>4. [d \in Conns |-> Phase(hpc[d])]' = [[d \in Conns |-> Phase(hpc[d])] EXCEPT ![c] = "busy"]
    BY <1>0, <2>1, <2>2, PhaseMove, Zenon
  <2>5. Promise!Ask(c)
    BY <2>1, <2>3, <2>4, Zenon DEF Promise!Ask
  <2> QED
    BY <2>5 DEF Promise!Next
<1>2. ASSUME NEW c \in Conns, Accept(c) PROVE Promise!Next
  <2>1. Phase("idle") = "idle" /\ Phase(hpc[c]) = "dead"
    BY <1>2 DEF Accept, Phase
  <2>2. hpc' = [hpc EXCEPT ![c] = "idle"]
    BY <1>2 DEF Accept
  <2>3. Promise!Connect(c)
    BY <1>0, <1>2, <2>1, <2>2, PhaseMove, Zenon DEF Accept, Promise!Connect
  <2> QED
    BY <2>3 DEF Promise!Next
<1>3. ASSUME NEW c \in Conns, Flush(c) PROVE Promise!Next
  <2>1. CASE hpc' = [hpc EXCEPT ![c] = "dead"] /\ UNCHANGED sent
    BY <1>0, <1>3, <2>1, EndMove, Zenon DEF Flush
  <2>2. CASE /\ sent' = [sent EXCEPT ![c] = wbuf[c]]
             /\ hpc' = [hpc EXCEPT ![c] = "idle"]
    <3>1. Phase("idle") = "idle" /\ Phase(hpc[c]) = "busy"
      BY <1>3, ZenonT(60) DEF Flush, Phase
    <3>2. sent'[c] = wbuf[c] /\ UNCHANGED req
      BY <1>0, <1>3, <2>2, ZenonT(60) DEF TypeOK, Flush
    <3>3. Promise!Answers(wbuf[c], req[c])
      BY <1>3, Zenon DEF Flush, IInv, ConnInv, ReplyOK
    <3>4. Promise!Reply(c)
      BY <1>0, <2>2, <3>1, <3>2, <3>3, PhaseMove, Zenon DEF Promise!Reply
    <3> QED
      BY <3>4 DEF Promise!Next
  <2> QED
    BY <1>3, <2>1, <2>2, ZenonT(60) DEF Flush
<1>4. ASSUME NEW c \in Conns, NewResponse(c) \/ HandleRequest(c) \/ Release(c) PROVE UNCHANGED Promise!vars
  <2>1. /\ hpc[c] \notin {"idle", "dead"} /\ UNCHANGED <<req, sent>>
        /\ \E l \in {"handle", "write", "items", "flush"} : hpc' = [hpc EXCEPT ![c] = l]
    BY <1>4, ZenonT(60) DEF NewResponse, HandleRequest, Release
  <2> QED
    BY <1>0, <2>1, BusyMove, Zenon
<1>5. ASSUME NEW c \in Conns, HandleItem(c) \/ FinishMessage(c) \/ WriteReply(c)
      PROVE  Promise!Next \/ UNCHANGED Promise!vars
  <2>1. /\ hpc[c] \notin {"idle", "dead"} /\ UNCHANGED <<req, sent>>
        /\ UNCHANGED hpc \/ \E l \in {"write", "release", "dead"} : hpc' = [hpc EXCEPT ![c] = l]
    BY <1>5, Zenon DEF HandleItem, AppendItem, FinishMessage, WriteReply
  <2>2. CASE UNCHANGED hpc
    BY <2>1, <2>2 DEF Promise!vars
  <2>3. CASE hpc' = [hpc EXCEPT ![c] = "dead"]
    BY <1>0, <2>1, <2>3, EndMove, Zenon
  <2> QED
    BY <1>0, <2>1, <2>2, <2>3, BusyMove
<1>6. CASE (\E o \in Objs : PoolDrop(o)) \/ (\E op \in Ops : Handle(op)) \/ UNCHANGED vars
  BY <1>6, ZenonT(60) DEF PoolDrop, Handle, vars, Promise!vars
<1> QED
  BY <1>1, <1>2, <1>3, <1>4, <1>5, <1>6 DEF Next, ServeStep

\* The server implements ReplyPromise: the pool, the Encoders and the other
\* connections are invisible to each client.
THEOREM Refinement == Spec => KeepsPromise
<1>1. Init => Promise!Init
  BY DEF Init, Promise!Init, Phase
<1> QED
  BY <1>1, StepRefines, Invariance, PTL DEF Spec, KeepsPromise, Promise!Spec
=============================================================================
