----------------------------- MODULE BatchProofs ----------------------------
(***************************************************************************)
(* Proofs about Batch, for any number of connections, any batches and any  *)
(* callbacks: the mux keeps its promise (BatchPromise), what it tells a    *)
(* client is true, an item without an identifier acts on the object of the *)
(* batch's last item that has set one, DiscoverVersions answers what both  *)
(* sides support, and the getters of TemplateAttribute find what Append    *)
(* has entered.                                                            *)
(*                                                                         *)
(* All rest on Inv: a ResponseBatchItem that is being filled in belongs    *)
(* to one connection, and there are as many answers as items before the    *)
(* current one.                                                            *)
(***************************************************************************)
EXTENDS Batch, Arithmetic, TLAPS

\* The provers have a minute for every leaf that asks for no other.
USE SMTT(60), ZenonT(60)

\* What a ResponseBatchItem can hold.
Answer == [op : Ops \cup {""}, uid : Nat, result : {"", "ok", "failed"},
           versions : {<<>>} \cup {Common(v) : v \in Seq(Nat)}]

Labels == {"idle", "item", "create", "stamp", "append", "dead"}
Active == Labels \ {"idle", "dead"}

Types ==
  /\ bpc \in [Conns -> Labels]
  /\ batch \in [Conns -> Seq(Item)]
  /\ pos \in [Conns -> Nat]
  /\ ptr \in [Conns -> Addrs \cup {None}]
  /\ heap \in [Addrs -> Answer]
  /\ out \in [Conns -> Seq(Answer)]

\* The item of connection c is its own, and complete before it is copied.
Owned(c) ==
  /\ \A d \in Conns : d # c /\ ptr[c] # None => ptr[d] # ptr[c]
  /\ bpc[c] \in {"stamp", "append"} => ptr[c] \in Addrs
  /\ bpc[c] = "append" => heap[ptr[c]].op = Cur(c).op /\ heap[ptr[c]].uid = Cur(c).uid

\* The answers are those to the items before the current one.
Counted(c) ==
  /\ bpc[c] \in Active => pos[c] \in 1 .. Len(batch[c]) + 1 /\ Len(out[c]) = pos[c] - 1
  /\ bpc[c] \in {"create", "stamp", "append"} => pos[c] \in DOMAIN batch[c]

Inv == Types /\ \A c \in Conns : Owned(c) /\ Counted(c)

----------------------------------------------------------------------------
(***************************************************************************)
(* What the pieces of the handlers do.                                     *)
(***************************************************************************)

\* One step of the handlers, as far as Inv is concerned: nothing but the place
\* of the connection changes, or its item is allocated, or it panics.
Waits(c)   == bpc[c] = "item" /\ pos[c] \in DOMAIN batch[c]
Replies(c) == \E r \in {"ok", "failed"}, vs \in {<<>>} \cup {Common(v) : v \in Seq(Nat)} : Return(c, r, vs)
Begins(c)  == Goto(c, "create") /\ UNCHANGED <<ptr, heap>>

Step(c) ==
  /\ Waits(c) \/ bpc[c] = "create"
  /\ Replies(c) \/ Panic(c) \/ Begins(c)
  /\ UNCHANGED <<batch, pos, out>>

Stays == UNCHANGED <<bpc, batch, pos, ptr, heap, out>>

\* An error is answered or a panic.
LEMMA FailSteps ==
  ASSUME NEW c \in Conns, NEW r \in BOOLEAN, Fail(c, r)
  PROVE  Replies(c) \/ Panic(c)
BY DEF Fail, Replies

\* So is the error of a callback.
LEMMA CallbackFailsSteps ==
  ASSUME NEW c \in Conns, CallbackFails(c)
  PROVE  Replies(c) \/ Panic(c)
BY FailSteps DEF CallbackFails

\* Identify answers or panics.
LEMMA IdentifySteps ==
  ASSUME NEW c \in Conns, Identify(c)
  PROVE  Replies(c) \/ Panic(c)
BY CallbackFailsSteps DEF Identify, Replies

\* PassOn is a step.
LEMMA PassOnSteps ==
  ASSUME NEW c \in Conns, NEW op, PassOn(c, op)
  PROVE  Step(c)
<1>1. Replies(c) \/ Panic(c)
  BY CallbackFailsSteps DEF PassOn, Replies
<1> QED
  BY <1>1 DEF PassOn, Step, Waits, Ready, Frame

\* Every action of a handler is such a step or touches nothing of it.
LEMMA HandleSteps ==
  ASSUME Types, NEW c \in Conns, Handle(c)
  PROVE  Step(c) \/ (bpc[c] = "create" /\ Stays)
<1>1. CASE NotSupported(c)
  BY <1>1 DEF NotSupported, Step, Waits, Replies, Ready, Frame
<1>2. CASE DecodeFails(c)
  <2>1. Replies(c) \/ Panic(c)
    BY <1>2, FailSteps, Zenon DEF DecodeFails
  <2> QED
    BY <1>2, <2>1 DEF DecodeFails, Step, Waits, Ready, Frame
<1>3. CASE HandleGet(c) \/ HandleDestroy(c) \/ HandleActivate(c) \/ HandleDestroy20(c)
           \/ HandleLocate(c) \/ HandleQuery(c) \/ HandleRevoke(c) \/ HandleSetAttribute(c)
  BY <1>3, PassOnSteps
     DEF HandleGet, HandleDestroy, HandleActivate, HandleDestroy20, HandleLocate, HandleQuery,
         HandleRevoke, HandleSetAttribute
<1>4. CASE HandleGet20(c)
  <2>1. Replies(c) \/ Panic(c)
    BY <1>4, IdentifySteps DEF HandleGet20
  <2> QED
    BY <1>4, <2>1 DEF HandleGet20, Step, Waits, Ready, Frame
<1>5. CASE HandleRegister(c)
  <2>1. Replies(c) \/ Panic(c)
    BY <1>5, IdentifySteps, FailSteps, Zenon DEF HandleRegister
  <2> QED
    BY <1>5, <2>1 DEF HandleRegister, Step, Waits, Ready, Frame
<1>6. CASE HandleDiscoverVersions(c)
  <2>1. pos[c] \in DOMAIN batch[c] /\ bpc[c] = "item"
    BY <1>6 DEF HandleDiscoverVersions, Ready
  <2>2. Cur(c) \in Item
    BY <2>1 DEF Types, Cur
  <2>3. (IF Cur(c).payload = "none" THEN <<>> ELSE Cur(c).versions) \in Seq(Nat)
    BY <2>2 DEF Item
  <2>4. Replies(c)
    BY <1>6, <2>3, Zenon DEF HandleDiscoverVersions, Replies
  <2> QED
    BY <1>6, <2>1, <2>4 DEF HandleDiscoverVersions, Step, Waits, Frame
<1>7. CASE HandleCustom(c)
  <2>1. Replies(c) \/ Panic(c)
    BY <1>7, CallbackFailsSteps DEF HandleCustom, Replies
  <2> QED
    BY <1>7, <2>1 DEF HandleCustom, Step, Waits, Ready, Frame
<1>8. CASE HandleCreate(c)
  <2>1. Replies(c) \/ Panic(c) \/ Begins(c)
    BY <1>8, CallbackFailsSteps DEF HandleCreate, Begins
  <2> QED
    BY <1>8, <2>1 DEF HandleCreate, Step, Waits, Ready, Frame
<1>9. CASE AppendAttribute(c)
  BY <1>9 DEF AppendAttribute, Stays
<1>10. CASE ReturnCreate(c)
  <2>1. Replies(c) \/ Panic(c)
    BY <1>10, FailSteps, Zenon DEF ReturnCreate, Replies
  <2> QED
    BY <1>10, <2>1 DEF ReturnCreate, Step, Frame
<1> QED
  BY <1>1, <1>2, <1>3, <1>4, <1>5, <1>6, <1>7, <1>8, <1>9, <1>10 DEF Handle

----------------------------------------------------------------------------
(***************************************************************************)
(* Inv is inductive.                                                       *)
(***************************************************************************)

\* A new Request satisfies it.
LEMMA InitInv == Init => Inv
<1> SUFFICES ASSUME Init PROVE Inv
  OBVIOUS
<1>1. NewItem \in Answer
  BY DEF NewItem, Answer
<1>2. Types
  BY <1>1 DEF Init, Types, Labels
<1> QED
  BY <1>2 DEF Init, Inv, Owned, Counted, Active, Labels

\* Allocating an item.
LEMMA RepliesInv ==
  ASSUME Inv, NEW c \in Conns, Waits(c) \/ bpc[c] = "create", Replies(c), UNCHANGED <<batch, pos, out>>
  PROVE  Inv'
<1>1. PICK r \in {"ok", "failed"}, vs \in {<<>>} \cup {Common(v) : v \in Seq(Nat)} : Return(c, r, vs)
  BY DEF Replies
<1> DEFINE it == [op |-> "", uid |-> 0, result |-> r, versions |-> vs]
<1>2. it \in Answer
  BY Zenon DEF Answer
<1> HIDE DEF it
<1>3. PICK a \in Addrs \ {ptr[d] : d \in Conns} :
        heap' = [heap EXCEPT ![a] = it] /\ ptr' = [ptr EXCEPT ![c] = a]
        /\ bpc' = [bpc EXCEPT ![c] = "stamp"]
  BY <1>1, Zenon DEF Return, Goto, it
<1>4. Types'
  BY <1>2, <1>3 DEF Inv, Types, Labels
<1>5. pos[c] \in DOMAIN batch[c]
  BY DEF Inv, Counted, Waits
<1>6. ASSUME NEW d \in Conns PROVE Owned(d)' /\ Counted(d)'
  <2>1. Owned(d) /\ Counted(d) /\ ptr[d] # a
    BY <1>3 DEF Inv
  <2>2. CASE d = c
    <3>1. bpc'[c] = "stamp" /\ ptr'[c] = a
      BY <1>3 DEF Inv, Types
    <3>2. \A e \in Conns : e # c => ptr'[e] # a
      BY <1>3 DEF Inv, Types
    <3>3. bpc[c] \in Active
      BY DEF Waits, Active, Labels
    <3> QED
      BY <2>1, <2>2, <3>1, <3>2, <3>3, <1>5 DEF Owned, Counted, Active, Labels
  <2>3. CASE d # c
    <3>1. bpc'[d] = bpc[d] /\ ptr'[d] = ptr[d] /\ ptr'[c] = a
      BY <1>3, <2>3 DEF Inv, Types
    <3>2. \A e \in Conns : e # c => ptr'[e] = ptr[e]
      BY <1>3 DEF Inv, Types
    <3>3. ptr[d] \in Addrs => heap'[ptr[d]] = heap[ptr[d]]
      BY <1>3, <2>1 DEF Inv, Types
    <3> QED
      BY <2>1, <2>3, <3>1, <3>2, <3>3 DEF Owned, Counted, Cur
  <2> QED
    BY <2>2, <2>3
<1> QED
  BY <1>4, <1>6 DEF Inv

\* A panic.
LEMMA PanicInv ==
  ASSUME Inv, NEW c \in Conns, Panic(c), UNCHANGED <<batch, pos, out>>
  PROVE  Inv'
<1>1. bpc' = [bpc EXCEPT ![c] = "dead"] /\ ptr' = [ptr EXCEPT ![c] = None]
  BY DEF Panic, Drop, Goto
<1>2. NewItem \in Answer
  BY DEF NewItem, Answer
<1>3. heap' \in [Addrs -> Answer]
        /\ \A a \in Addrs : (\E d \in Conns \ {c} : ptr[d] = a) => heap'[a] = heap[a]
  BY <1>2 DEF Panic, Drop, Inv, Types
<1>4. Types'
  BY <1>1, <1>3 DEF Inv, Types, Labels
<1>5. ASSUME NEW d \in Conns PROVE Owned(d)' /\ Counted(d)'
  <2>1. Owned(d) /\ Counted(d)
    BY DEF Inv
  <2>2. CASE d = c
    <3>1. bpc'[c] = "dead" /\ ptr'[c] = None
      BY <1>1 DEF Inv, Types
    <3> QED
      BY <2>2, <3>1 DEF Owned, Counted, Active
  <2>3. CASE d # c
    <3>1. bpc'[d] = bpc[d] /\ ptr'[d] = ptr[d] /\ ptr'[c] = None
      BY <1>1, <2>3 DEF Inv, Types
    <3>2. \A e \in Conns : e # c => ptr'[e] = ptr[e]
      BY <1>1 DEF Inv, Types
    <3>3. ptr[d] \in Addrs => heap'[ptr[d]] = heap[ptr[d]]
      BY <1>3, <2>3
    <3> QED
      BY <2>1, <2>3, <3>1, <3>2, <3>3 DEF Owned, Counted, Cur
  <2> QED
    BY <2>2, <2>3
<1> QED
  BY <1>4, <1>5 DEF Inv

\* A step that only moves one connection between places without an item, the
\* heap and the answers of the others untouched.
LEMMA MoveInv ==
  ASSUME Inv, NEW c \in Conns, NEW l \in Labels \ {"append"}, bpc' = [bpc EXCEPT ![c] = l],
         Types', UNCHANGED <<ptr, heap>>, Counted(c)', l = "stamp" => ptr[c] \in Addrs,
         \A d \in Conns : d # c => batch'[d] = batch[d] /\ pos'[d] = pos[d] /\ out'[d] = out[d]
  PROVE  Inv'
<1>1. ASSUME NEW d \in Conns PROVE Owned(d)' /\ Counted(d)'
  <2>1. Owned(d) /\ Counted(d)
    BY DEF Inv
  <2>2. CASE d = c
    BY <2>1, <2>2 DEF Owned, Inv, Types
  <2>3. CASE d # c
    <3>1. bpc'[d] = bpc[d]
      BY <2>3 DEF Inv, Types
    <3> QED
      BY <2>1, <2>3, <3>1 DEF Owned, Counted, Cur
  <2> QED
    BY <2>2, <2>3
<1> QED
  BY <1>1 DEF Inv

\* Reading a batch.
LEMMA ReadBatchInv == ASSUME Inv, NEW c \in Conns, ReadBatch(c) PROVE Inv'
<1>1. PICK b \in Batches : batch' = [batch EXCEPT ![c] = b]
  BY Zenon DEF ReadBatch
<1>2. b \in Seq(Item)
  BY BatchAssumption
<1>3. bpc' = [bpc EXCEPT ![c] = "item"] /\ pos' = [pos EXCEPT ![c] = 1] /\ out' = [out EXCEPT ![c] = <<>>]
        /\ UNCHANGED <<ptr, heap>>
  BY DEF ReadBatch, Goto
<1>4. Types'
  BY <1>1, <1>2, <1>3 DEF Inv, Types, Labels
<1>5. bpc'[c] = "item" /\ pos'[c] = 1 /\ out'[c] = <<>> /\ batch'[c] \in Seq(Item)
  BY <1>1, <1>2, <1>3 DEF Inv, Types
<1>6. Counted(c)'
  BY <1>5 DEF Counted
<1>7. \A d \in Conns : d # c => batch'[d] = batch[d] /\ pos'[d] = pos[d] /\ out'[d] = out[d]
  BY <1>1, <1>3 DEF Inv, Types
<1>8. "item" \in Labels \ {"append"}
  BY DEF Labels
<1> QED
  BY <1>3, <1>4, <1>6, <1>7, <1>8, MoveInv, Zenon

\* Sending the reply, or a new connection.
LEMMA IdleInv ==
  ASSUME Inv, NEW c \in Conns, Reply(c) \/ Connect(c)
  PROVE  Inv'
<1>1. bpc' = [bpc EXCEPT ![c] = "idle"] /\ UNCHANGED <<batch, pos, ptr, heap, out>>
  BY DEF Reply, Connect, Goto
<1>2. Types'
  BY <1>1 DEF Inv, Types, Labels
<1>3. Counted(c)'
  BY <1>1 DEF Inv, Types, Counted, Active
<1>4. "idle" \in Labels \ {"append"}
  BY DEF Labels
<1> QED
  BY <1>1, <1>2, <1>3, <1>4, MoveInv, Zenon

\* Writing the operation and the ID.
LEMMA StampInv == ASSUME Inv, NEW c \in Conns, Stamp(c) PROVE Inv'
<1>1. bpc' = [bpc EXCEPT ![c] = "append"] /\ UNCHANGED <<batch, pos, ptr, out>>
  BY DEF Stamp, Goto
<1>2. bpc[c] = "stamp" /\ ptr[c] \in Addrs /\ pos[c] \in DOMAIN batch[c]
  BY DEF Stamp, Inv, Owned, Counted
<1>3. Cur(c) \in Item
  BY <1>2 DEF Inv, Types, Cur
<1>4. Cur(c).op \in Ops /\ Cur(c).uid \in Nat
  BY <1>3 DEF Item
<1>5. heap[ptr[c]] \in Answer
  BY <1>2 DEF Inv, Types
<1>6. heap' = [heap EXCEPT ![ptr[c]] = [@ EXCEPT !.op = Cur(c).op, !.uid = Cur(c).uid]]
  BY <1>2, <1>5, Zenon DEF Stamp, Inv, Types, Answer
<1>7. heap'[ptr[c]] \in Answer /\ heap'[ptr[c]].op = Cur(c).op /\ heap'[ptr[c]].uid = Cur(c).uid
  BY <1>2, <1>4, <1>5, <1>6, Zenon DEF Inv, Types, Answer
<1>8. \A a \in Addrs : a # ptr[c] => heap'[a] = heap[a]
  BY <1>6 DEF Inv, Types
<1>9. heap' \in [Addrs -> Answer]
  BY <1>6, <1>7, <1>8, Zenon DEF Inv, Types
<1>10. Types'
  BY <1>1, <1>9 DEF Inv, Types, Labels
<1>11. ASSUME NEW d \in Conns PROVE Owned(d)' /\ Counted(d)'
  <2>1. Owned(d) /\ Counted(d) /\ Owned(c)
    BY DEF Inv
  <2>2. CASE d = c
    <3>1. bpc'[c] = "append" /\ ptr'[c] = ptr[c] /\ Cur(c)' = Cur(c)
      BY <1>1 DEF Inv, Types, Cur
    <3> QED
      BY <1>1, <1>2, <1>7, <2>1, <2>2, <3>1 DEF Owned, Counted, Active, Labels
  <2>3. CASE d # c
    <3>1. bpc'[d] = bpc[d]
      BY <1>1, <2>3 DEF Inv, Types
    <3>2. ptr[d] # ptr[c]
      BY <1>2, <2>1, <2>3, BatchAssumption DEF Owned
    <3>3. ptr[d] \in Addrs => heap'[ptr[d]] = heap[ptr[d]]
      BY <1>8, <3>2
    <3> QED
      BY <1>1, <2>1, <2>3, <3>1, <3>3 DEF Owned, Counted, Cur
  <2> QED
    BY <2>2, <2>3
<1> QED
  BY <1>10, <1>11 DEF Inv

\* Appending a copy of the item.
LEMMA AppendItemInv == ASSUME Inv, NEW c \in Conns, AppendItem(c) PROVE Inv'
<1>1. bpc' = [bpc EXCEPT ![c] = "item"] /\ ptr' = [ptr EXCEPT ![c] = None]
        /\ pos' = [pos EXCEPT ![c] = @ + 1] /\ UNCHANGED batch
        /\ out' = [out EXCEPT ![c] = Append(@, heap[ptr[c]])]
  BY DEF AppendItem, Drop, Goto
<1>2. bpc[c] = "append" /\ ptr[c] \in Addrs /\ pos[c] \in DOMAIN batch[c] /\ Len(out[c]) = pos[c] - 1
  BY DEF AppendItem, Inv, Owned, Counted, Active, Labels
<1>3. NewItem \in Answer
  BY DEF NewItem, Answer
<1>4. heap' \in [Addrs -> Answer]
        /\ \A a \in Addrs : (\E d \in Conns \ {c} : ptr[d] = a) => heap'[a] = heap[a]
  BY <1>3 DEF AppendItem, Drop, Inv, Types
<1>5. out'[c] \in Seq(Answer) /\ Len(out'[c]) = pos[c]
  <2>1. heap[ptr[c]] \in Answer /\ out[c] \in Seq(Answer) /\ out'[c] = Append(out[c], heap[ptr[c]])
    BY <1>1, <1>2 DEF Inv, Types
  <2>2. pos[c] \in Nat
    BY DEF Inv, Types
  <2> QED
    BY <1>2, <2>1, <2>2
<1>6. Types'
  BY <1>1, <1>4, <1>5 DEF Inv, Types, Labels
<1>7. ASSUME NEW d \in Conns PROVE Owned(d)' /\ Counted(d)'
  <2>1. Owned(d) /\ Counted(d)
    BY DEF Inv
  <2>2. CASE d = c
    <3>1. bpc'[c] = "item" /\ ptr'[c] = None /\ pos'[c] = pos[c] + 1
      BY <1>1 DEF Inv, Types
    <3>2. pos[c] \in 1 .. Len(batch[c])
      BY <1>2 DEF Inv, Types
    <3>3. batch[c] \in Seq(Item)
      BY DEF Inv, Types
    <3>4. pos'[c] \in 1 .. Len(batch'[c]) + 1 /\ Len(out'[c]) = pos'[c] - 1
      BY <1>1, <1>5, <3>1, <3>2, <3>3
    <3> QED
      BY <2>2, <3>1, <3>4, ZenonT(60) DEF Owned, Counted
  <2>3. CASE d # c
    <3>1. bpc'[d] = bpc[d] /\ ptr'[d] = ptr[d] /\ ptr'[c] = None /\ pos'[d] = pos[d] /\ out'[d] = out[d]
      BY <1>1, <2>3 DEF Inv, Types
    <3>2. \A e \in Conns : e # c => ptr'[e] = ptr[e]
      BY <1>1 DEF Inv, Types
    <3>3. ptr[d] \in Addrs => heap'[ptr[d]] = heap[ptr[d]]
      BY <1>4, <2>3
    <3> QED
      BY <1>1, <2>1, <2>3, <3>1, <3>2, <3>3, ZenonT(60) DEF Owned, Counted, Cur
  <2> QED
    BY <2>2, <2>3
<1> QED
  BY <1>6, <1>7 DEF Inv

\* Every step keeps it.
LEMMA NextInv == Inv /\ [Next]_vars => Inv'
<1> SUFFICES ASSUME Inv, [Next]_vars PROVE Inv'
  OBVIOUS
<1>1. CASE UNCHANGED vars
  BY <1>1, ZenonT(60) DEF vars, Inv, Types, Owned, Counted, Cur
<1>2. ASSUME NEW c \in Conns, Handle(c) PROVE Inv'
  <2>1. Step(c) \/ Stays
    BY <1>2, HandleSteps DEF Inv
  <2>2. CASE Stays
    BY <2>2, ZenonT(60) DEF Stays, Inv, Types, Owned, Counted, Cur
  <2>3. CASE Step(c)
    <3>1. (Waits(c) \/ bpc[c] = "create") /\ UNCHANGED <<batch, pos, out>>
      BY <2>3 DEF Step
    <3>2. CASE Replies(c)
      BY <3>1, <3>2, RepliesInv
    <3>3. CASE Panic(c)
      BY <3>1, <3>3, PanicInv
    <3>4. CASE Begins(c)
      <4>1. bpc' = [bpc EXCEPT ![c] = "create"] /\ UNCHANGED <<ptr, heap>>
        BY <3>4 DEF Begins, Goto
      <4>2. Types'
        BY <3>1, <4>1 DEF Inv, Types, Labels
      <4>3. Counted(c) /\ bpc[c] \in Active /\ pos[c] \in DOMAIN batch[c]
        BY <3>1 DEF Inv, Counted, Waits, Active, Labels
      <4>4. Counted(c)'
        BY <3>1, <4>1, <4>3 DEF Counted, Active, Labels
      <4>5. "create" \in Labels \ {"append"}
        BY DEF Labels
      <4> QED
        BY <3>1, <4>1, <4>2, <4>4, <4>5, MoveInv, Zenon
    <3> QED
      BY <2>3, <3>2, <3>3, <3>4 DEF Step
  <2> QED
    BY <2>1, <2>2, <2>3
<1> QED
  BY <1>1, <1>2, ReadBatchInv, StampInv, AppendItemInv, IdleInv DEF Next

\* A ResponseBatchItem that is being filled in belongs to one connection, carries
\* the operation and ID of the current item before it is copied, and there is
\* one answer for each item before the current one.
THEOREM BatchInvariant == Spec => []Inv
BY InitInv, NextInv, PTL DEF Spec

----------------------------------------------------------------------------
(***************************************************************************)
(* Batch implements BatchPromise.                                          *)
(***************************************************************************)

\* A connection that moves from one place to another changes its phase, and no
\* other.
LEMMA PhaseMoves ==
  ASSUME Types, NEW c \in Conns, NEW l \in Labels, bpc' = [bpc EXCEPT ![c] = l]
  PROVE  [d \in Conns |-> Phase(bpc[d])]' = [[d \in Conns |-> Phase(bpc[d])] EXCEPT ![c] = Phase(l)]
BY Zenon DEF Types, Phase

\* If its phase is the same, so are all.
LEMMA PhaseStays ==
  ASSUME Types, NEW c \in Conns, NEW l \in Labels, bpc' = [bpc EXCEPT ![c] = l], Phase(l) = Phase(bpc[c])
  PROVE  [d \in Conns |-> Phase(bpc[d])]' = [d \in Conns |-> Phase(bpc[d])]
<1>1. \A d \in Conns : Phase(bpc[d])' = Phase(bpc[d])
  BY DEF Types, Phase
<1> QED
  BY <1>1

\* Every step is one of BatchPromise or a stutter.
LEMMA NextImplements == Inv /\ [Next]_vars => [Promise!Next]_(Promise!vars)
<1> SUFFICES ASSUME Inv, [Next]_vars PROVE [Promise!Next]_(Promise!vars)
  OBVIOUS
<1> DEFINE ph == [d \in Conns |-> Phase(bpc[d])]
<1>0. Types
  BY DEF Inv
<1>1. CASE UNCHANGED vars
  BY <1>1 DEF vars, Promise!vars
<1>2. ASSUME NEW c \in Conns, Panic(c), bpc[c] \in Active, UNCHANGED <<batch, out>> PROVE Promise!End(c)
  <2>1. bpc' = [bpc EXCEPT ![c] = "dead"]
    BY <1>2 DEF Panic, Goto
  <2>2. ph' = [ph EXCEPT ![c] = Phase("dead")]
    BY <1>0, <2>1, PhaseMoves, Zenon DEF Labels
  <2>3. Phase("dead") = "dead" /\ ph[c] = "busy"
    BY <1>2 DEF Phase, Active, Labels
  <2> QED
    BY <1>2, <2>2, <2>3, Zenon DEF Promise!End
<1>3. ASSUME NEW c \in Conns, NEW l \in Active, bpc[c] \in Active, Goto(c, l), UNCHANGED <<batch, out>>
      PROVE  UNCHANGED Promise!vars
  <2>1. Phase(l) = Phase(bpc[c]) /\ l \in Labels
    BY <1>3 DEF Phase, Active, Labels
  <2>2. ph' = ph
    BY <1>0, <1>3, <2>1, PhaseStays DEF Goto
  <2> QED
    BY <1>3, <2>2 DEF Promise!vars
<1>4. ASSUME NEW c \in Conns, Handle(c) PROVE [Promise!Next]_(Promise!vars)
  <2>1. CASE Stays
    BY <2>1 DEF Stays, Promise!vars
  <2>2. CASE Step(c)
    <3>1. bpc[c] \in Active /\ UNCHANGED <<batch, out>>
      BY <2>2 DEF Step, Waits, Active, Labels
    <3>2. CASE Panic(c)
      BY <1>2, <3>1, <3>2 DEF Promise!Next
    <3>3. CASE Replies(c)
      <4>1. Goto(c, "stamp") /\ "stamp" \in Active
        BY <3>3, Zenon DEF Replies, Return, Active, Labels
      <4> QED
        BY <1>3, <3>1, <4>1
    <3>4. CASE Begins(c)
      <4>1. Goto(c, "create") /\ "create" \in Active
        BY <3>4 DEF Begins, Active, Labels
      <4> QED
        BY <1>3, <3>1, <4>1
    <3> QED
      BY <2>2, <3>2, <3>3, <3>4 DEF Step
  <2> QED
    BY <1>0, <1>4, <2>1, <2>2, HandleSteps
<1>5. ASSUME NEW c \in Conns, Stamp(c) PROVE [Promise!Next]_(Promise!vars)
  <2>1. Goto(c, "append") /\ "append" \in Active /\ bpc[c] \in Active /\ UNCHANGED <<batch, out>>
    BY <1>5 DEF Stamp, Active, Labels
  <2> QED
    BY <1>3, <2>1
<1>6. ASSUME NEW c \in Conns, ReadBatch(c) PROVE Promise!Ask(c)
  <2>1. bpc' = [bpc EXCEPT ![c] = "item"] /\ bpc[c] = "idle"
    BY <1>6 DEF ReadBatch, Goto
  <2>2. ph' = [ph EXCEPT ![c] = Phase("item")]
    BY <1>0, <2>1, PhaseMoves, Zenon DEF Labels
  <2>3. Phase("item") = "busy" /\ ph[c] = "idle"
    BY <2>1 DEF Phase
  <2>4. (\E b \in Batches : batch' = [batch EXCEPT ![c] = b]) /\ out' = [out EXCEPT ![c] = <<>>]
    BY <1>6, Zenon DEF ReadBatch
  <2> QED
    BY <2>2, <2>3, <2>4, Zenon DEF Promise!Ask
<1>7. ASSUME NEW c \in Conns, AppendItem(c) PROVE Promise!Answer(c)
  <2>1. bpc' = [bpc EXCEPT ![c] = "item"] /\ bpc[c] = "append" /\ UNCHANGED batch
          /\ out' = [out EXCEPT ![c] = Append(@, heap[ptr[c]])]
    BY <1>7 DEF AppendItem, Goto
  <2>2. ph' = ph
    BY <1>0, <2>1, PhaseStays DEF Phase, Labels
  <2>3. ph[c] = "busy"
    BY <2>1 DEF Phase
  <2>4. Owned(c) /\ Counted(c)
    BY DEF Inv
  <2>5. heap[ptr[c]].op = batch[c][pos[c]].op /\ heap[ptr[c]].uid = batch[c][pos[c]].uid
    BY <2>1, <2>4 DEF Owned, Cur
  <2>6. Len(out[c]) = pos[c] - 1 /\ pos[c] \in 1 .. Len(batch[c]) /\ batch[c] \in Seq(Item)
    BY <1>0, <2>1, <2>4 DEF Counted, Active, Labels, Types
  <2>7. out[c] \in Seq(Answer) /\ heap[ptr[c]] \in Answer /\ out'[c] = Append(out[c], heap[ptr[c]])
    BY <1>0, <2>1, <2>4 DEF Types, Owned
  <2>8. Len(out'[c]) = Len(out[c]) + 1 /\ Len(out'[c]) = pos[c] /\ out'[c][Len(out'[c])] = heap[ptr[c]]
          /\ Len(out[c]) < Len(batch[c])
    BY <2>6, <2>7
  <2> QED
    BY <2>1, <2>2, <2>3, <2>5, <2>8, Zenon DEF Promise!Answer
<1>8. ASSUME NEW c \in Conns, Reply(c) PROVE Promise!Reply(c)
  <2>1. bpc' = [bpc EXCEPT ![c] = "idle"] /\ bpc[c] = "item" /\ UNCHANGED <<batch, out>>
          /\ pos[c] = Len(batch[c]) + 1
    BY <1>8 DEF Reply, Goto
  <2>2. ph' = [ph EXCEPT ![c] = Phase("idle")]
    BY <1>0, <2>1, PhaseMoves, Zenon DEF Labels
  <2>3. Phase("idle") = "idle" /\ ph[c] = "busy"
    BY <2>1 DEF Phase
  <2>4. Len(out[c]) = pos[c] - 1 /\ batch[c] \in Seq(Item)
    BY <2>1, Zenon DEF Inv, Counted, Active, Labels, Types
  <2>5. Len(out[c]) = Len(batch[c])
    BY <2>1, <2>4
  <2> QED
    BY <2>1, <2>2, <2>3, <2>5, Zenon DEF Promise!Reply
<1>9. ASSUME NEW c \in Conns, Connect(c) PROVE Promise!Connect(c)
  <2>1. bpc' = [bpc EXCEPT ![c] = "idle"] /\ bpc[c] = "dead" /\ UNCHANGED <<batch, out>>
    BY <1>9 DEF Connect, Goto
  <2>2. ph' = [ph EXCEPT ![c] = Phase("idle")]
    BY <1>0, <2>1, PhaseMoves, Zenon DEF Labels
  <2>3. Phase("idle") = "idle" /\ ph[c] = "dead"
    BY <2>1 DEF Phase
  <2> QED
    BY <2>1, <2>2, <2>3, Zenon DEF Promise!Connect
<1> QED
  BY <1>1, <1>4, <1>5, <1>6, <1>7, <1>8, <1>9 DEF Next, Promise!Next

\* Whatever other requests an OperationMux handles at the same time, the items
\* of a request are answered one after the other, each with its own operation
\* and ID, and its reply is complete.
THEOREM BatchKeepsPromise == Spec => KeepsPromise
<1>1. Init => Promise!Init
  BY DEF Init, Promise!Init, Phase
<1> QED
  BY <1>1, NextImplements, BatchInvariant, PTL DEF Spec, KeepsPromise, Promise!Spec

----------------------------------------------------------------------------
(***************************************************************************)
(* What a client is told is true.                                          *)
(***************************************************************************)

IDs   == {None} \cup (Conns \X Nat \X Nat)
Entry == [op : Ops, pos : Nat, id : IDs]

LogTypes ==
  /\ turn \in [Conns -> Nat]
  /\ placeholder \in [Conns -> IDs]
  /\ log \in [Conns -> Seq(Entry)]

\* What was done for item i, and whether the result r tells.
Done(c, i)     == {k \in DOMAIN log[c] : log[c][k].pos = i}
Tells(c, i, r) ==
  \/ r = "ok" /\ \E k \in Done(c, i) : Done(c, i) = {k}
  \/ r = "failed" /\ (Done(c, i) = {} \/ batch[c][i].op = "Create")

\* Nothing was done yet for the current item, until its answer is there, which
\* tells what was done.
Current(c) ==
  /\ bpc[c] \in {"item", "create"} => \A k \in DOMAIN log[c] : log[c][k].pos < pos[c]
  /\ bpc[c] = "create" => Cur(c).op = "Create"
  /\ bpc[c] \in {"stamp", "append"} =>
        /\ \A k \in DOMAIN log[c] : log[c][k].pos <= pos[c]
        /\ Tells(c, pos[c], heap[ptr[c]].result)

Told(c) == \A i \in DOMAIN out[c] : Tells(c, i, out[c][i].result)

TInv == LogTypes /\ \A c \in Conns : Current(c) /\ Told(c)

\* The steps of the handlers, as far as TInv is concerned.
Logs(c)       == \E id \in IDs : Did(c, id)
Returns(c, r) == \E vs : Return(c, r, vs)

Acts(c) ==
  \/ UNCHANGED log /\ Returns(c, "failed")
  \/ Logs(c) /\ Returns(c, "ok")
  \/ Logs(c) /\ Cur(c).op = "Create" /\ Returns(c, "failed")
  \/ (UNCHANGED log \/ Logs(c)) /\ Panic(c)
  \/ UNCHANGED log /\ Cur(c).op = "Create" /\ Begins(c)

\* An error is answered with a failure.
LEMMA FailActs ==
  ASSUME NEW c \in Conns, NEW r \in BOOLEAN, Fail(c, r)
  PROVE  Returns(c, "failed") \/ Panic(c)
BY DEF Fail, Returns

\* So is the error of a callback.
LEMMA CallbackFailsActs ==
  ASSUME NEW c \in Conns, CallbackFails(c)
  PROVE  Returns(c, "failed") \/ Panic(c)
BY FailActs DEF CallbackFails

\* The identifier of the current item is one.
LEMMA IDType == ASSUME Inv, TInv, NEW c \in Conns PROVE ID(c) \in IDs /\ None \in IDs /\ placeholder[c] \in IDs
BY DEF ID, IDs, Inv, Types, TInv, LogTypes

\* Identify acts.
LEMMA IdentifyActs ==
  ASSUME Inv, TInv, NEW c \in Conns, Identify(c)
  PROVE  Acts(c) /\ placeholder' \in [Conns -> IDs]
<1>1. placeholder' \in [Conns -> IDs]
  BY IDType DEF Identify, SetPlaceholder, TInv, LogTypes
<1>2. CASE CallbackFails(c) /\ UNCHANGED log
  BY <1>1, <1>2, CallbackFailsActs DEF Acts
<1>3. CASE Did(c, ID(c)) /\ Return(c, "ok", <<>>)
  BY <1>1, <1>3, IDType DEF Acts, Logs, Returns
<1>4. CASE Did(c, ID(c)) /\ Panic(c)
  BY <1>1, <1>4, IDType DEF Acts, Logs
<1> QED
  BY <1>1, <1>2, <1>3, <1>4 DEF Identify

\* PassOn acts.
LEMMA PassOnActs ==
  ASSUME Inv, TInv, NEW c \in Conns, NEW op, PassOn(c, op)
  PROVE  Acts(c) /\ UNCHANGED placeholder
<1>1. CASE CallbackFails(c) /\ UNCHANGED log
  BY <1>1, CallbackFailsActs DEF Acts, PassOn
<1>2. CASE Did(c, None) /\ Return(c, "ok", <<>>)
  BY <1>2, IDType DEF Acts, Logs, Returns, PassOn
<1> QED
  BY <1>1, <1>2 DEF PassOn

\* So does every action of a handler.
LEMMA HandleActs ==
  ASSUME Inv, TInv, NEW c \in Conns, Handle(c)
  PROVE  /\ Acts(c) \/ (Stays /\ UNCHANGED log)
         /\ placeholder' \in [Conns -> IDs] /\ UNCHANGED turn
<1>0. placeholder \in [Conns -> IDs]
  BY DEF TInv, LogTypes
<1>1. CASE NotSupported(c)
  BY <1>0, <1>1 DEF NotSupported, Acts, Returns, Frame
<1>2. CASE DecodeFails(c)
  BY <1>0, <1>2, FailActs, Zenon DEF DecodeFails, Acts, Frame
<1>3. CASE HandleGet(c) \/ HandleDestroy(c) \/ HandleActivate(c) \/ HandleDestroy20(c)
           \/ HandleLocate(c) \/ HandleQuery(c) \/ HandleRevoke(c) \/ HandleSetAttribute(c)
  <2>1. PICK op : PassOn(c, op)
    BY <1>3
       DEF HandleGet, HandleDestroy, HandleActivate, HandleDestroy20, HandleLocate, HandleQuery,
           HandleRevoke, HandleSetAttribute
  <2>2. UNCHANGED turn
    BY <2>1 DEF PassOn, Frame
  <2> QED
    BY <1>0, <2>1, <2>2, PassOnActs
<1>4. CASE HandleGet20(c)
  BY <1>4, IdentifyActs DEF HandleGet20, Frame
<1>5. CASE HandleRegister(c)
  <2>1. CASE Fail(c, TRUE) /\ UNCHANGED <<placeholder, log>>
    BY <1>0, <1>5, <2>1, FailActs, ZenonT(60) DEF HandleRegister, Acts, Frame
  <2>2. CASE Identify(c)
    BY <1>5, <2>2, IdentifyActs DEF HandleRegister, Frame
  <2> QED
    BY <1>5, <2>1, <2>2, Zenon DEF HandleRegister
<1>6. CASE HandleDiscoverVersions(c)
  BY <1>0, <1>6, IDType, ZenonT(60) DEF HandleDiscoverVersions, Acts, Logs, Returns, Frame
<1>7. CASE HandleCustom(c)
  <2>1. placeholder' \in [Conns -> IDs] /\ UNCHANGED turn
    BY <1>0, <1>7 DEF HandleCustom, Frame
  <2>2. CASE CallbackFails(c) /\ UNCHANGED log
    BY <2>1, <2>2, CallbackFailsActs DEF Acts
  <2>3. CASE Did(c, placeholder[c]) /\ Return(c, "ok", <<>>)
    BY <2>1, <2>3, IDType DEF Acts, Logs, Returns
  <2>4. CASE Panic(c) /\ UNCHANGED log
    BY <2>1, <2>4 DEF Acts
  <2> QED
    BY <1>7, <2>2, <2>3, <2>4 DEF HandleCustom
<1>8. CASE HandleCreate(c)
  <2>1. Cur(c).op = "Create" /\ UNCHANGED <<log, placeholder, turn>>
    BY <1>8, ZenonT(60) DEF HandleCreate, Ready, Frame
  <2>2. CallbackFails(c) \/ Begins(c)
    BY <1>8 DEF HandleCreate, Begins
  <2> QED
    BY <1>0, <2>1, <2>2, CallbackFailsActs DEF Acts
<1>9. CASE AppendAttribute(c)
  BY <1>0, <1>9 DEF AppendAttribute, Stays
<1>10. CASE ReturnCreate(c)
  <2>1. Logs(c) /\ UNCHANGED turn
    BY <1>10, IDType, ZenonT(60) DEF ReturnCreate, Logs, Frame
  <2>2. Cur(c).op = "Create"
    BY <1>10, ZenonT(60) DEF ReturnCreate, TInv, Current
  <2>3. placeholder' \in [Conns -> IDs]
    BY <1>0, <1>10, IDType, Zenon DEF ReturnCreate, SetPlaceholder
  <2>4. Panic(c) \/ Returns(c, "ok") \/ Returns(c, "failed")
    BY <1>10, FailActs, Zenon DEF ReturnCreate, Returns
  <2> QED
    BY <2>1, <2>2, <2>3, <2>4 DEF Acts
<1> QED
  BY <1>1, <1>2, <1>3, <1>4, <1>5, <1>6, <1>7, <1>8, <1>9, <1>10 DEF Handle

\* What Did adds to the log.
LEMMA DidDone ==
  ASSUME Inv, TInv, NEW c \in Conns, Logs(c), pos[c] \in DOMAIN batch[c]
  PROVE  /\ log' \in [Conns -> Seq(Entry)]
         /\ \A d \in Conns : d # c => log'[d] = log[d]
         /\ \A i : i # pos[c] => {k \in DOMAIN log'[c] : log'[c][k].pos = i} = Done(c, i)
         /\ \A k \in DOMAIN log'[c] : \/ k \in DOMAIN log[c] /\ log'[c][k] = log[c][k]
                                      \/ k = Len(log[c]) + 1 /\ log'[c][k].pos = pos[c]
         /\ Len(log[c]) + 1 \in DOMAIN log'[c] /\ log'[c][Len(log[c]) + 1].pos = pos[c]
<1>1. Cur(c) \in Item /\ pos[c] \in Nat
  BY DEF Inv, Types, Cur
<1>2. Cur(c).op \in Ops
  BY <1>1 DEF Item
<1>3. PICK e \in Entry : e.pos = pos[c] /\ log' = [log EXCEPT ![c] = Append(@, e)]
  <2>1. PICK id \in IDs : Did(c, id)
    BY DEF Logs
  <2> DEFINE e == [op |-> Cur(c).op, pos |-> pos[c], id |-> id]
  <2>2. e \in Entry
    BY <1>1, <1>2 DEF Entry
  <2> QED
    BY <2>1, <2>2, Zenon DEF Did
<1>4. log[c] \in Seq(Entry) /\ log \in [Conns -> Seq(Entry)]
  BY DEF TInv, LogTypes
<1>5. log'[c] = Append(log[c], e) /\ Append(log[c], e) \in Seq(Entry)
  BY <1>3, <1>4
<1>6. \A k \in DOMAIN log'[c] : \/ k \in DOMAIN log[c] /\ log'[c][k] = log[c][k]
                                \/ k = Len(log[c]) + 1 /\ log'[c][k] = e
  BY <1>4, <1>5
<1>7. Len(log[c]) + 1 \in DOMAIN log'[c] /\ log'[c][Len(log[c]) + 1] = e
        /\ \A k \in DOMAIN log[c] : k \in DOMAIN log'[c] /\ log'[c][k] = log[c][k]
  BY <1>4, <1>5
<1>8. ASSUME NEW i, i # pos[c] PROVE {k \in DOMAIN log'[c] : log'[c][k].pos = i} = Done(c, i)
  BY <1>3, <1>6, <1>7, <1>8, Zenon DEF Done
<1> QED
  BY <1>3, <1>4, <1>5, <1>6, <1>7, <1>8, ZenonT(60)

\* What is told does not depend on what does not change.
LEMMA TellsSame ==
  ASSUME NEW c \in Conns, NEW i, NEW r, Tells(c, i, r), batch'[c][i] = batch[c][i], Done(c, i)' = Done(c, i)
  PROVE  Tells(c, i, r)'
BY DEF Tells

\* Nothing changes for the connections that do not step.
LEMMA OthersTold ==
  ASSUME Inv, TInv, NEW d \in Conns, bpc'[d] = bpc[d], batch'[d] = batch[d], pos'[d] = pos[d],
         ptr'[d] = ptr[d], out'[d] = out[d], log'[d] = log[d], ptr[d] \in Addrs => heap'[ptr[d]] = heap[ptr[d]]
  PROVE  Current(d)' /\ Told(d)'
<1>1. Current(d) /\ Told(d) /\ Owned(d)
  BY ZenonT(60) DEF Inv, TInv
<1>2. \A i : Done(d, i)' = Done(d, i)
  BY DEF Done
<1>3. \A i, r : Tells(d, i, r)' <=> Tells(d, i, r)
  BY <1>2, ZenonT(60) DEF Tells
<1>4. Told(d)'
  BY <1>1, <1>3, ZenonT(60) DEF Told
<1>5. bpc[d] \in {"stamp", "append"} => heap'[ptr'[d]] = heap[ptr[d]]
  BY <1>1, ZenonT(60) DEF Owned
<1>6. Current(d)'
  BY <1>1, <1>3, <1>5, ZenonT(60) DEF Current, Cur
<1> QED
  BY <1>4, <1>6

\* The answers that are there stay true while the log grows.
LEMMA ToldStays ==
  ASSUME Inv, TInv, NEW c \in Conns, UNCHANGED <<batch, out>>, UNCHANGED log \/ Logs(c),
         pos[c] \in DOMAIN batch[c], bpc[c] \in Active
  PROVE  Told(c)' /\ log' \in [Conns -> Seq(Entry)] /\ \A d \in Conns : d # c => log'[d] = log[d]
<1>1. CASE UNCHANGED log
  BY <1>1 DEF Told, Tells, Done, TInv, LogTypes
<1>2. CASE Logs(c)
  <2>1. ASSUME NEW i \in DOMAIN out[c] PROVE i # pos[c]
    <3>1. Len(out[c]) = pos[c] - 1 /\ out[c] \in Seq(Answer) /\ pos[c] \in Nat
      BY DEF Inv, Counted, Types
    <3> QED
      BY <3>1
  <2>2. ASSUME NEW i \in DOMAIN out[c] PROVE Done(c, i)' = Done(c, i)
    <3>1. {k \in DOMAIN log'[c] : log'[c][k].pos = i} = Done(c, i)
      BY <1>2, <2>1, DidDone, ZenonT(60)
    <3> QED
      BY <3>1, ZenonT(60) DEF Done
  <2>3. Told(c)
    BY DEF TInv
  <2>4. Told(c)'
    BY <2>2, <2>3, TellsSame, ZenonT(60) DEF Told
  <2> QED
    BY <1>2, <2>4, DidDone, ZenonT(60)
<1> QED
  BY <1>1, <1>2, ZenonT(60)

\* An action of a handler keeps TInv.
LEMMA HandleTInv == ASSUME Inv, TInv, NEW c \in Conns, Handle(c) PROVE TInv'
<1>1. placeholder' \in [Conns -> IDs] /\ UNCHANGED turn /\ (Acts(c) \/ (Stays /\ UNCHANGED log))
  BY HandleActs
<1>2. CASE Stays /\ UNCHANGED log
  <2>1. LogTypes'
    BY <1>1, <1>2 DEF TInv, LogTypes
  <2>2. ASSUME NEW d \in Conns PROVE Current(d)' /\ Told(d)'
    BY <1>2, OthersTold DEF Stays
  <2> QED
    BY <2>1, <2>2 DEF TInv
<1>3. CASE Step(c) /\ Acts(c)
  <2>1. UNCHANGED <<batch, pos, out>> /\ (Waits(c) \/ bpc[c] = "create")
    BY <1>3 DEF Step
  <2>2. pos[c] \in DOMAIN batch[c] /\ bpc[c] \in Active /\ bpc[c] \in {"item", "create"}
    BY <2>1, ZenonT(60) DEF Waits, Inv, Counted, Active, Labels
  <2>3. UNCHANGED log \/ Logs(c)
    BY <1>3 DEF Acts
  <2>4. Told(c)' /\ log' \in [Conns -> Seq(Entry)] /\ \A d \in Conns : d # c => log'[d] = log[d]
    BY <2>1, <2>2, <2>3, ToldStays, ZenonT(60)
  <2>5. LogTypes'
    BY <1>1, <2>4 DEF TInv, LogTypes
  <2>6. \A k \in DOMAIN log[c] : log[c][k].pos < pos[c]
    BY <2>2, ZenonT(60) DEF TInv, Current
  <2>7. ASSUME NEW d \in Conns, d # c PROVE Current(d)' /\ Told(d)'
    <3>1. bpc'[d] = bpc[d] /\ ptr'[d] = ptr[d]
      BY <1>3, <2>7, ZenonT(60) DEF Acts, Returns, Return, Panic, Drop, Begins, Goto, Inv, Types
    <3>2. ptr[d] \in Addrs => heap'[ptr[d]] = heap[ptr[d]]
      BY <1>3, <2>7, ZenonT(60) DEF Acts, Returns, Return, Panic, Drop, Begins, Inv, Types
    <3> QED
      BY <2>1, <2>4, <2>7, <3>1, <3>2, OthersTold, ZenonT(60)
  <2>8. Current(c)'
    <3>1. CASE Panic(c)
      <4>1. bpc'[c] = "dead"
        BY <3>1 DEF Panic, Goto, Inv, Types
      <4> QED
        BY <4>1 DEF Current
    <3>2. CASE UNCHANGED log /\ Cur(c).op = "Create" /\ Begins(c)
      <4>1. bpc'[c] = "create" /\ Cur(c)' = Cur(c)
        BY <2>1, <3>2, ZenonT(60) DEF Begins, Goto, Inv, Types, Cur
      <4> QED
        BY <2>1, <2>6, <3>2, <4>1, ZenonT(60) DEF Current
    <3>3. ASSUME NEW r \in {"ok", "failed"}, Returns(c, r),
                 r = "ok" => Logs(c), r = "failed" => UNCHANGED log \/ (Logs(c) /\ Cur(c).op = "Create")
          PROVE  Current(c)'
      <4>1. bpc'[c] = "stamp" /\ heap'[ptr'[c]].result = r
        <5>0. PICK vs : Return(c, r, vs)
          BY <3>3 DEF Returns
        <5>1. PICK a \in Addrs :
                /\ heap' = [heap EXCEPT ![a] = [op |-> "", uid |-> 0, result |-> r, versions |-> vs]]
                /\ ptr' = [ptr EXCEPT ![c] = a] /\ bpc' = [bpc EXCEPT ![c] = "stamp"]
          BY <5>0, ZenonT(60) DEF Return, Goto
        <5>2. ptr'[c] = a /\ bpc'[c] = "stamp"
          BY <5>1, ZenonT(60) DEF Inv, Types
        <5>3. heap'[a].result = r
          BY <5>1, ZenonT(60) DEF Inv, Types
        <5> QED
          BY <5>2, <5>3
      <4>2. CASE UNCHANGED log /\ r = "failed"
        <5>1. pos[c] \in Nat /\ \A k \in DOMAIN log[c] : log[c][k].pos \in Nat
          <6>1. log[c] \in Seq(Entry) /\ pos[c] \in Nat
            BY DEF Inv, Types, TInv, LogTypes
          <6>2. \A k \in DOMAIN log[c] : log[c][k] \in Entry
            BY <6>1
          <6> QED
            BY <6>1, <6>2 DEF Entry
        <5>2. \A k \in DOMAIN log'[c] : log'[c][k].pos <= pos'[c] /\ log'[c][k].pos # pos'[c]
          BY <2>1, <2>6, <4>2, <5>1
        <5>3. Done(c, pos[c])' = {}
          BY <5>2 DEF Done
        <5> QED
          BY <4>1, <4>2, <5>2, <5>3, ZenonT(60) DEF Current, Tells
      <4>3. CASE Logs(c)
        <5>1. \A k \in DOMAIN log'[c] : k = Len(log[c]) + 1 \/ log'[c][k].pos < pos[c]
          BY <2>2, <2>6, <4>3, DidDone, ZenonT(60)
        <5>2. Len(log[c]) + 1 \in DOMAIN log'[c] /\ log'[c][Len(log[c]) + 1].pos = pos[c]
          BY <2>2, <4>3, DidDone
        <5>3. \A k \in DOMAIN log'[c] : log'[c][k].pos \in Nat
          <6>1. log'[c] \in Seq(Entry)
            BY <2>4
          <6>2. \A k \in DOMAIN log'[c] : log'[c][k] \in Entry
            BY <6>1
          <6> QED
            BY <6>2 DEF Entry
        <5>4. pos[c] \in Nat
          BY DEF Inv, Types
        <5>5. \A k \in DOMAIN log'[c] : log'[c][k].pos <= pos[c]
          BY <5>1, <5>2, <5>4, <5>3
        <5>6. Done(c, pos[c])' = {Len(log[c]) + 1}
          BY <2>1, <5>1, <5>2, <5>3, <5>4 DEF Done
        <5>7. r = "ok" \/ batch'[c][pos'[c]].op = "Create" \/ UNCHANGED log
          BY <2>1, <3>3 DEF Cur
        <5>8. log' # log
          <6>1. log' = log => log[c][Len(log[c]) + 1].pos < pos[c]
            BY <2>6, <5>2
          <6> QED
            BY <5>2, <5>4, <6>1
        <5>9. Tells(c, pos[c], r)'
          BY <5>6, <5>7, <5>8 DEF Tells
        <5> QED
          BY <2>1, <4>1, <5>5, <5>9 DEF Current
      <4> QED
        BY <3>3, <4>2, <4>3
    <3> QED
      BY <1>3, <3>1, <3>2, <3>3 DEF Acts
  <2> QED
    BY <2>4, <2>5, <2>7, <2>8 DEF TInv
<1>4. CASE bpc[c] = "create" /\ Stays /\ Acts(c)
  <2>1. bpc'[c] = "create"
    BY <1>4 DEF Stays
  <2>2. ~Panic(c) /\ ~Returns(c, "ok") /\ ~Returns(c, "failed")
    BY <2>1, Zenon DEF Panic, Returns, Return, Goto, Inv, Types
  <2> QED
    BY <1>2, <1>4, <2>2 DEF Acts
<1> QED
  BY <1>1, <1>2, <1>3, <1>4, HandleSteps DEF Inv

\* Writing the operation and the ID does not touch the result.
LEMMA StampTInv == ASSUME Inv, TInv, NEW c \in Conns, Stamp(c) PROVE TInv'
<1>1. bpc' = [bpc EXCEPT ![c] = "append"] /\ UNCHANGED <<turn, batch, pos, placeholder, ptr, out, log>>
  BY DEF Stamp, Goto
<1>2. ptr[c] \in Addrs /\ bpc[c] = "stamp"
  BY DEF Stamp, Inv, Owned
<1>3. heap'[ptr[c]].result = heap[ptr[c]].result
  <2>1. heap[ptr[c]] \in Answer
    BY <1>2 DEF Inv, Types
  <2>2. heap'[ptr[c]] = [heap[ptr[c]] EXCEPT !.op = Cur(c).op, !.uid = Cur(c).uid]
    BY <1>2, <2>1, Zenon DEF Stamp, Inv, Types, Answer
  <2> QED
    BY <2>1, <2>2, Zenon DEF Answer
<1>4. LogTypes'
  BY <1>1 DEF TInv, LogTypes
<1>5. ASSUME NEW d \in Conns, d # c PROVE Current(d)' /\ Told(d)'
  <2>1. bpc'[d] = bpc[d]
    BY <1>1, <1>5 DEF Inv, Types
  <2>2. ptr[d] # ptr[c]
    BY <1>2, <1>5, BatchAssumption, ZenonT(60) DEF Inv, Owned
  <2>3. ptr[d] \in Addrs => heap'[ptr[d]] = heap[ptr[d]]
    BY <1>2, <2>2 DEF Stamp, Inv, Types
  <2> QED
    BY <1>1, <2>1, <2>3, OthersTold
<1>6. \A i, r : Tells(c, i, r)' <=> Tells(c, i, r)
  BY <1>1 DEF Tells, Done
<1>7. Told(c)'
  BY <1>1, <1>6 DEF TInv, Told
<1>8. Current(c)'
  <2>1. bpc'[c] = "append"
    BY <1>1 DEF Inv, Types
  <2> QED
    BY <1>1, <1>2, <1>3, <1>6, <2>1, ZenonT(60) DEF TInv, Current
<1> QED
  BY <1>4, <1>5, <1>7, <1>8 DEF TInv

\* The copy tells what the item told.
LEMMA AppendItemTInv == ASSUME Inv, TInv, NEW c \in Conns, AppendItem(c) PROVE TInv'
<1>1. bpc' = [bpc EXCEPT ![c] = "item"] /\ ptr' = [ptr EXCEPT ![c] = None]
        /\ pos' = [pos EXCEPT ![c] = @ + 1] /\ UNCHANGED <<batch, turn, placeholder, log>>
        /\ out' = [out EXCEPT ![c] = Append(@, heap[ptr[c]])]
  BY DEF AppendItem, Drop, Goto
<1>2. bpc[c] = "append" /\ ptr[c] \in Addrs /\ Len(out[c]) = pos[c] - 1 /\ pos[c] \in Nat
  BY ZenonT(60) DEF AppendItem, Inv, Owned, Counted, Active, Labels, Types
<1>3. LogTypes'
  BY <1>1 DEF TInv, LogTypes
<1>4. ASSUME NEW d \in Conns, d # c PROVE Current(d)' /\ Told(d)'
  <2>1. bpc'[d] = bpc[d] /\ ptr'[d] = ptr[d] /\ pos'[d] = pos[d] /\ out'[d] = out[d]
    BY <1>1, <1>4 DEF Inv, Types
  <2>2. ptr[d] \in Addrs => heap'[ptr[d]] = heap[ptr[d]]
    BY <1>4 DEF AppendItem, Drop, Inv, Types
  <2> QED
    BY <1>1, <2>1, <2>2, OthersTold, ZenonT(60)
<1>5. \A i, r : Tells(c, i, r)' <=> Tells(c, i, r)
  BY <1>1, ZenonT(60) DEF Tells, Done
<1>6. Told(c)'
  <2>1. out'[c] = Append(out[c], heap[ptr[c]]) /\ out[c] \in Seq(Answer) /\ heap[ptr[c]] \in Answer
    BY <1>1, <1>2 DEF Inv, Types
  <2>2. \A i \in DOMAIN out'[c] : \/ i \in DOMAIN out[c] /\ out'[c][i] = out[c][i]
                                  \/ i = pos[c] /\ out'[c][i] = heap[ptr[c]]
    BY <1>2, <2>1
  <2>3. Tells(c, pos[c], heap[ptr[c]].result) /\ Told(c)
    BY <1>2, ZenonT(60) DEF TInv, Current
  <2> QED
    BY <1>5, <2>2, <2>3, ZenonT(60) DEF Told
<1>7. Current(c)'
  <2>1. bpc'[c] = "item" /\ pos'[c] = pos[c] + 1
    BY <1>1 DEF Inv, Types
  <2>2. \A k \in DOMAIN log[c] : log[c][k].pos <= pos[c]
    BY <1>2, ZenonT(60) DEF TInv, Current
  <2>3. \A k \in DOMAIN log[c] : log[c][k].pos \in Nat
    <3>1. log[c] \in Seq(Entry)
      BY DEF TInv, LogTypes
    <3>2. \A k \in DOMAIN log[c] : log[c][k] \in Entry
      BY <3>1
    <3> QED
      BY <3>2, ZenonT(60) DEF Entry
  <2>4. \A k \in DOMAIN log[c] : log[c][k].pos < pos[c] + 1
    BY <1>2, <2>2, <2>3
  <2> QED
    BY <1>1, <2>1, <2>4, ZenonT(60) DEF Current
<1> QED
  BY <1>3, <1>4, <1>6, <1>7 DEF TInv

\* Reading a batch, sending the reply and a new connection.
LEMMA ConnectionTInv ==
  ASSUME Inv, TInv, NEW c \in Conns, ReadBatch(c) \/ Reply(c) \/ Connect(c)
  PROVE  TInv'
<1>1. UNCHANGED <<ptr, heap>> /\ \A d \in Conns : d # c =>
        bpc'[d] = bpc[d] /\ batch'[d] = batch[d] /\ pos'[d] = pos[d] /\ out'[d] = out[d] /\ log'[d] = log[d]
  BY ZenonT(60) DEF ReadBatch, Reply, Connect, Goto, Inv, Types, TInv, LogTypes
<1>2. \A d \in Conns : d # c => Current(d)' /\ Told(d)'
  BY <1>1, OthersTold, Zenon
<1>3. CASE ReadBatch(c)
  <2>1. bpc'[c] = "item" /\ log'[c] = <<>> /\ out'[c] = <<>>
    BY <1>3, ZenonT(60) DEF ReadBatch, Goto, Inv, Types, TInv, LogTypes
  <2>2. Current(c)' /\ Told(c)'
    BY <2>1 DEF Current, Told
  <2>3. turn[c] \in Nat /\ None \in IDs
    BY DEF TInv, LogTypes, IDs
  <2>4. LogTypes'
    BY <1>3, <2>3 DEF ReadBatch, SetPlaceholder, TInv, LogTypes
  <2> QED
    BY <1>2, <2>2, <2>4 DEF TInv
<1>4. CASE Reply(c) \/ Connect(c)
  <2>1. bpc'[c] = "idle" /\ UNCHANGED <<batch, out, log, placeholder>>
    BY <1>4, ZenonT(60) DEF Reply, Connect, Goto, Inv, Types
  <2>2. turn' \in [Conns -> Nat]
    <3>1. turn' = turn \/ turn' = [turn EXCEPT ![c] = @ + 1]
      BY <1>4, ZenonT(60) DEF Reply, Connect
    <3>2. turn \in [Conns -> Nat] /\ turn[c] + 1 \in Nat
      BY DEF TInv, LogTypes
    <3> QED
      BY <3>1, <3>2
  <2>3. Current(c)'
    BY <2>1, ZenonT(60) DEF Current
  <2>4. \A i, r : Tells(c, i, r)' <=> Tells(c, i, r)
    BY <2>1, ZenonT(60) DEF Tells, Done
  <2>5. Told(c)'
    <3>1. Told(c)
      BY DEF TInv
    <3> QED
      BY <2>1, <2>4, <3>1, Zenon DEF Told
  <2> QED
    BY <1>2, <2>1, <2>2, <2>3, <2>5 DEF TInv, LogTypes
<1> QED
  BY <1>3, <1>4

\* TInv holds throughout.
LEMMA ToldInvariant == Spec => []TInv
<1>1. Init => TInv
  BY DEF Init, TInv, LogTypes, IDs, Current, Told
<1>2. Inv /\ TInv /\ [Next]_vars => TInv'
  <2> SUFFICES ASSUME Inv, TInv, [Next]_vars PROVE TInv'
    OBVIOUS
  <2>1. CASE UNCHANGED vars
    <3>1. LogTypes'
      BY <2>1 DEF vars, TInv, LogTypes
    <3>2. \A d \in Conns : Current(d)' /\ Told(d)'
      BY <2>1, OthersTold, ZenonT(60) DEF vars
    <3> QED
      BY <3>1, <3>2 DEF TInv
  <2> QED
    BY <2>1, HandleTInv, StampTInv, AppendItemTInv, ConnectionTInv DEF Next
<1> QED
  BY <1>1, <1>2, BatchInvariant, PTL DEF Spec

\* What an item that is answered with success asks for was done once, and what
\* one that is answered with a failure asks for was not done, but for a Create
\* whose response has something else than a string for the Unique Identifier.
THEOREM BatchAnswersAreTrue == Spec => []AnswersAreTrue
<1>1. TInv => AnswersAreTrue
  BY ZenonT(60) DEF TInv, Told, Tells, Done, AnswersAreTrue
<1> QED
  BY <1>1, ToldInvariant, PTL

----------------------------------------------------------------------------
(***************************************************************************)
(* The ID placeholder.                                                     *)
(***************************************************************************)

\* What was read from the placeholder is what the log says.
Used(c) ==
  /\ \A k \in DOMAIN log[c] : log[c][k].pos > 0
  /\ \A i \in DOMAIN log[c] : log[c][i].op = "Custom" =>
       /\ LeftBy(log[c], out[c], i - 1, log[c][i].id)
       /\ \A k \in 1 .. i - 1 : log[c][k].pos \in DOMAIN out[c]

\* So is what it holds, the answer that is being filled in included.
Holds(c) ==
  /\ bpc[c] \in {"item", "create"} => LeftBy(log[c], out[c], Len(log[c]), placeholder[c])
  /\ bpc[c] \in {"stamp", "append"} =>
       LeftBy(log[c], Append(out[c], heap[ptr[c]]), Len(log[c]), placeholder[c])

PInv == \A c \in Conns : Used(c) /\ Holds(c)

\* What was left only depends on the entries so far and on their answers.
LEMMA LeftSame ==
  ASSUME NEW l, NEW o, NEW l2, NEW o2, NEW n, NEW id, LeftBy(l, o, n, id),
         \A k \in 1 .. n : l2[k] = l[k] /\ o2[l[k].pos].result = o[l[k].pos].result
  PROVE  LeftBy(l2, o2, n, id)
<1>1. SetBy(l2, n) = SetBy(l, n)
  BY Zenon DEF SetBy
<1>2. \A k \in SetBy(l, n) : k \in 1 .. n
  BY Zenon DEF SetBy
<1> QED
  BY <1>1, <1>2, Zenon DEF LeftBy

\* An entry of another operation leaves it.
LEMMA LeftSkips ==
  ASSUME NEW l, NEW o, NEW n \in Nat, NEW id, LeftBy(l, o, n, id),
         l[n + 1].op \notin {"Create", "Register", "Get20"}
  PROVE  LeftBy(l, o, n + 1, id)
<1>1. 1 .. n + 1 = (1 .. n) \cup {n + 1}
  OBVIOUS
<1>2. SetBy(l, n + 1) = SetBy(l, n)
  BY <1>1, Zenon DEF SetBy
<1> QED
  BY <1>2, Zenon DEF LeftBy

\* One of Create, Register and Get sets it.
LEMMA LeftSets ==
  ASSUME NEW l, NEW o, NEW n \in Nat, l[n + 1].op \in {"Create", "Register", "Get20"}
  PROVE  LeftBy(l, o, n + 1, IF o[l[n + 1].pos].result = "ok" THEN l[n + 1].id ELSE None)
<1>1. n + 1 \in SetBy(l, n + 1) /\ \A j \in SetBy(l, n + 1) : j <= n + 1
  BY DEF SetBy
<1> QED
  BY <1>1, Zenon DEF LeftBy

\* The steps of the handlers, as far as the placeholder is concerned.
Keeps(c) ==
  /\ UNCHANGED placeholder
  /\ \/ UNCHANGED log /\ (Returns(c, "failed") \/ Panic(c) \/ Begins(c))
     \/ Logs(c) /\ Panic(c) /\ Cur(c).op # "Custom"
     \/ Logs(c) /\ Returns(c, "ok") /\ Cur(c).op \notin {"Create", "Register", "Get20", "Custom"}
     \/ Did(c, placeholder[c]) /\ Returns(c, "ok") /\ Cur(c).op = "Custom"

Sets(c) ==
  /\ Cur(c).op \in {"Create", "Register", "Get20"}
  /\ Did(c, ID(c))
  /\ \/ Returns(c, "ok") /\ SetPlaceholder(c, ID(c))
     \/ Returns(c, "failed") /\ SetPlaceholder(c, None)
     \/ Panic(c) /\ SetPlaceholder(c, None)

\* Register and Get of 2.0 set it or keep it.
LEMMA IdentifyPlaces ==
  ASSUME Inv, TInv, NEW c \in Conns, Identify(c), Cur(c).op \in {"Register", "Get20"}
  PROVE  Keeps(c) \/ Sets(c)
<1>1. CASE CallbackFails(c) /\ UNCHANGED <<placeholder, log>>
  BY <1>1, CallbackFailsActs, Zenon DEF Keeps
<1>2. CASE Did(c, ID(c)) /\ SetPlaceholder(c, ID(c)) /\ Return(c, "ok", <<>>)
  BY <1>2, Zenon DEF Sets, Returns
<1>3. CASE Did(c, ID(c)) /\ Panic(c) /\ UNCHANGED placeholder
  BY <1>3, IDType, Zenon DEF Keeps, Logs
<1> QED
  BY <1>1, <1>2, <1>3, Zenon DEF Identify

\* The handlers that pass on a payload keep it.
LEMMA PassOnPlaces ==
  ASSUME Inv, TInv, NEW c \in Conns, NEW op \in Ops \ {"Create", "Register", "Get20", "Custom"}, PassOn(c, op)
  PROVE  Keeps(c)
<1>1. Cur(c).op = op /\ UNCHANGED placeholder
  BY Zenon DEF PassOn, Ready
<1>2. CASE CallbackFails(c) /\ UNCHANGED log
  BY <1>1, <1>2, CallbackFailsActs, Zenon DEF Keeps
<1>3. CASE Did(c, None) /\ Return(c, "ok", <<>>)
  BY <1>1, <1>3, IDType, Zenon DEF Keeps, Logs, Returns
<1> QED
  BY <1>2, <1>3, Zenon DEF PassOn

\* So for every action of a handler.
LEMMA HandlePlaces ==
  ASSUME Inv, TInv, NEW c \in Conns, Handle(c)
  PROVE  Keeps(c) \/ Sets(c) \/ (Stays /\ UNCHANGED <<log, placeholder>>)
<1>1. CASE NotSupported(c)
  BY <1>1, Zenon DEF NotSupported, Keeps, Returns
<1>2. CASE DecodeFails(c)
  BY <1>2, FailActs, Zenon DEF DecodeFails, Keeps
<1>3. CASE HandleGet(c) \/ HandleDestroy(c) \/ HandleActivate(c) \/ HandleDestroy20(c)
           \/ HandleLocate(c) \/ HandleQuery(c) \/ HandleRevoke(c) \/ HandleSetAttribute(c)
  <2>1. PICK op \in Ops \ {"Create", "Register", "Get20", "Custom"} : PassOn(c, op)
    BY <1>3
       DEF HandleGet, HandleDestroy, HandleActivate, HandleDestroy20, HandleLocate, HandleQuery,
           HandleRevoke, HandleSetAttribute, Ops
  <2> QED
    BY <2>1, PassOnPlaces, Zenon
<1>4. CASE HandleGet20(c)
  <2>1. Cur(c).op = "Get20" /\ Identify(c)
    BY <1>4, Zenon DEF HandleGet20, Ready
  <2> QED
    BY <2>1, IdentifyPlaces, Zenon
<1>5. CASE HandleRegister(c)
  <2>1. CASE Fail(c, TRUE) /\ UNCHANGED <<placeholder, log>>
    BY <2>1, FailActs, Zenon DEF Keeps
  <2>2. CASE Identify(c)
    <3>1. Cur(c).op = "Register"
      BY <1>5, Zenon DEF HandleRegister, Ready
    <3> QED
      BY <2>2, <3>1, IdentifyPlaces, Zenon
  <2> QED
    BY <1>5, <2>1, <2>2, Zenon DEF HandleRegister
<1>6. CASE HandleDiscoverVersions(c)
  <2>1. Cur(c).op = "DiscoverVersions"
    BY <1>6, Zenon DEF HandleDiscoverVersions, Ready
  <2>2. Cur(c).op \notin {"Create", "Register", "Get20", "Custom"}
    BY <2>1
  <2> QED
    BY <1>6, <2>2, IDType, Zenon DEF HandleDiscoverVersions, Keeps, Logs, Returns
<1>7. CASE HandleCustom(c)
  <2>1. Cur(c).op = "Custom" /\ UNCHANGED placeholder
    BY <1>7, Zenon DEF HandleCustom, Ready
  <2>2. CASE CallbackFails(c) /\ UNCHANGED log
    BY <2>1, <2>2, CallbackFailsActs, Zenon DEF Keeps
  <2>3. CASE Did(c, placeholder[c]) /\ Return(c, "ok", <<>>)
    BY <2>1, <2>3, Zenon DEF Keeps, Returns
  <2>4. CASE Panic(c) /\ UNCHANGED log
    BY <2>1, <2>4, Zenon DEF Keeps
  <2> QED
    BY <1>7, <2>2, <2>3, <2>4, Zenon DEF HandleCustom
<1>8. CASE HandleCreate(c)
  <2>1. UNCHANGED <<log, placeholder>>
    BY <1>8, Zenon DEF HandleCreate
  <2>2. CallbackFails(c) \/ Begins(c)
    BY <1>8, Zenon DEF HandleCreate, Begins
  <2> QED
    BY <2>1, <2>2, CallbackFailsActs, Zenon DEF Keeps
<1>9. CASE AppendAttribute(c)
  BY <1>9, Zenon DEF AppendAttribute, Stays
<1>10. CASE ReturnCreate(c)
  <2>1. Cur(c).op = "Create"
    BY <1>10, Zenon DEF ReturnCreate, TInv, Current
  <2>2. Cur(c).op # "Custom"
    BY <2>1
  <2>3. Did(c, ID(c)) /\ Logs(c)
    BY <1>10, IDType, Zenon DEF ReturnCreate, Logs
  <2>4. CASE Panic(c) /\ UNCHANGED placeholder
    BY <2>2, <2>3, <2>4, Zenon DEF Keeps
  <2>5. CASE SetPlaceholder(c, ID(c)) /\ Return(c, "ok", <<>>)
    BY <2>1, <2>3, <2>5, Zenon DEF Sets, Returns
  <2>6. CASE SetPlaceholder(c, None) /\ Fail(c, FALSE)
    BY <2>1, <2>3, <2>6, FailActs, Zenon DEF Sets
  <2> QED
    BY <1>10, <2>4, <2>5, <2>6, Zenon DEF ReturnCreate
<1> QED
  BY <1>1, <1>2, <1>3, <1>4, <1>5, <1>6, <1>7, <1>8, <1>9, <1>10, ZenonT(60) DEF Handle

\* What Did appends.
LEMMA DidLog ==
  ASSUME Inv, TInv, NEW c \in Conns, NEW id \in IDs, Did(c, id), pos[c] \in DOMAIN batch[c]
  PROVE  /\ log'[c] \in Seq(Entry) /\ Len(log'[c]) = Len(log[c]) + 1
         /\ \A k \in 1 .. Len(log[c]) : log'[c][k] = log[c][k]
         /\ log'[c][Len(log[c]) + 1] = [op |-> Cur(c).op, pos |-> pos[c], id |-> id]
<1> DEFINE e == [op |-> Cur(c).op, pos |-> pos[c], id |-> id]
<1>1. Cur(c) \in Item /\ pos[c] \in Nat
  BY DEF Inv, Types, Cur
<1>2. e \in Entry
  BY <1>1 DEF Entry, Item
<1>3. log[c] \in Seq(Entry) /\ log'[c] = Append(log[c], e)
  BY ZenonT(60) DEF TInv, LogTypes, Did
<1> HIDE DEF e
<1>4. /\ log'[c] \in Seq(Entry) /\ Len(log'[c]) = Len(log[c]) + 1
      /\ \A k \in 1 .. Len(log[c]) : log'[c][k] = log[c][k]
      /\ log'[c][Len(log[c]) + 1] = e
  BY <1>2, <1>3
<1> QED
  BY <1>4, Zenon DEF e

\* Nothing changes for the connections that do not step.
LEMMA OthersOwn ==
  ASSUME Inv, PInv, NEW d \in Conns, bpc'[d] = bpc[d], ptr'[d] = ptr[d], out'[d] = out[d], log'[d] = log[d],
         placeholder'[d] = placeholder[d], ptr[d] \in Addrs => heap'[ptr[d]] = heap[ptr[d]]
  PROVE  Used(d)' /\ Holds(d)'
<1>1. Used(d) /\ Holds(d) /\ Owned(d)
  BY Zenon DEF Inv, PInv
<1>2. bpc[d] \in {"stamp", "append"} => heap'[ptr'[d]] = heap[ptr[d]]
  BY <1>1, Zenon DEF Owned
<1> QED
  BY <1>1, <1>2, Zenon DEF Used, Holds

\* What Return leaves in the item.
LEMMA ReturnsResult ==
  ASSUME Inv, NEW c \in Conns, NEW r, Returns(c, r)
  PROVE  bpc'[c] = "stamp" /\ heap'[ptr'[c]].result = r
<1>1. PICK vs : Return(c, r, vs)
  BY Zenon DEF Returns
<1>2. PICK a \in Addrs :
        /\ heap' = [heap EXCEPT ![a] = [op |-> "", uid |-> 0, result |-> r, versions |-> vs]]
        /\ ptr' = [ptr EXCEPT ![c] = a] /\ bpc' = [bpc EXCEPT ![c] = "stamp"]
  BY <1>1, Zenon DEF Return, Goto
<1>3. ptr'[c] = a /\ bpc'[c] = "stamp"
  BY <1>2, Zenon DEF Inv, Types
<1>4. heap'[a].result = r
  BY <1>2, Zenon DEF Inv, Types
<1> QED
  BY <1>3, <1>4, Zenon

\* The answers after the current one.
LEMMA AppendedAnswer ==
  ASSUME Inv, NEW c \in Conns, bpc[c] \in Active, NEW a
  PROVE  /\ Append(out[c], a)[pos[c]] = a
         /\ \A p \in DOMAIN out[c] : Append(out[c], a)[p] = out[c][p]
<1>1. Len(out[c]) = pos[c] - 1 /\ out[c] \in Seq(Answer) /\ pos[c] \in Nat
  BY Zenon DEF Inv, Counted, Types
<1>2. pos[c] = Len(out[c]) + 1
  BY <1>1
<1>3. out[c] \in Seq(Answer \cup {a}) /\ a \in Answer \cup {a}
  BY <1>1
<1> QED
  BY <1>2, <1>3

\* Did adds an entry whose identifier is that of the placeholder.
LEMMA DidUsed ==
  ASSUME Inv, TInv, PInv, NEW c \in Conns, NEW id \in IDs, Did(c, id), pos[c] \in DOMAIN batch[c],
         bpc[c] \in {"item", "create"}, UNCHANGED out, Cur(c).op = "Custom" => id = placeholder[c]
  PROVE  Used(c)'
<1> DEFINE n == Len(log[c])
<1>1. /\ log'[c] \in Seq(Entry) /\ Len(log'[c]) = n + 1
      /\ \A k \in 1 .. n : log'[c][k] = log[c][k]
      /\ log'[c][n + 1] = [op |-> Cur(c).op, pos |-> pos[c], id |-> id]
  BY DidLog, ZenonT(60)
<1>2. log[c] \in Seq(Entry) /\ n \in Nat /\ DOMAIN log[c] = 1 .. n /\ DOMAIN log'[c] = 1 .. n + 1
  BY <1>1 DEF TInv, LogTypes
<1>3. Used(c) /\ LeftBy(log[c], out[c], n, placeholder[c])
  BY Zenon DEF PInv, Holds
<1>4. /\ pos[c] \in Nat /\ pos[c] > 0 /\ out[c] \in Seq(Answer) /\ Len(out[c]) = pos[c] - 1
      /\ \A k \in 1 .. n : log[c][k].pos < pos[c]
  <2>1. /\ pos[c] \in Nat /\ out[c] \in Seq(Answer) /\ batch[c] \in Seq(Item) /\ Len(out[c]) = pos[c] - 1
    BY ZenonT(60) DEF Inv, Types, Counted, Active, Labels
  <2>2. pos[c] > 0
    BY <2>1
  <2> QED
    BY <1>2, <2>1, <2>2, Zenon DEF TInv, Current
<1>5. \A k \in 1 .. n : log[c][k].pos \in Nat /\ log[c][k].pos > 0
  <2>1. \A k \in 1 .. n : log[c][k] \in Entry
    BY <1>2
  <2> QED
    BY <1>2, <1>3, <2>1, Zenon DEF Entry, Used
<1>6. \A k \in 1 .. n : log[c][k].pos \in DOMAIN out[c]
  BY <1>4, <1>5
<1>7. \A k \in DOMAIN log'[c] : log'[c][k].pos > 0
  <2>1. \A k \in 1 .. n + 1 : k \in 1 .. n \/ k = n + 1
    BY <1>2
  <2>2. log'[c][n + 1].pos = pos[c]
    BY <1>1
  <2> QED
    BY <1>1, <1>2, <1>4, <1>5, <2>1, <2>2, ZenonT(60)
<1>8. ASSUME NEW i \in DOMAIN log'[c], log'[c][i].op = "Custom"
      PROVE  /\ LeftBy(log'[c], out'[c], i - 1, log'[c][i].id)
             /\ \A k \in 1 .. i - 1 : log'[c][k].pos \in DOMAIN out'[c]
  <2>1. i \in 1 .. n \/ i = n + 1
    BY <1>2
  <2>2. \A k \in 1 .. i - 1 : k \in 1 .. n
    BY <1>2, <2>1
  <2>3. \A k \in 1 .. i - 1 : log'[c][k] = log[c][k] /\ out'[c][log[c][k].pos] = out[c][log[c][k].pos]
    BY <1>1, <2>2, ZenonT(60)
  <2>4. LeftBy(log[c], out[c], i - 1, log'[c][i].id)
    <3>1. CASE i \in 1 .. n
      BY <1>1, <1>2, <1>3, <1>8, <3>1, Zenon DEF Used
    <3>2. CASE i = n + 1
      <4>1. i - 1 = n
        BY <1>2, <3>2
      <4>2. log'[c][i].id = placeholder[c]
        BY <1>1, <1>8, <3>2
      <4> QED
        BY <1>3, <4>1, <4>2, Zenon
    <3> QED
      BY <2>1, <3>1, <3>2
  <2>5. LeftBy(log'[c], out'[c], i - 1, log'[c][i].id)
    <3> DEFINE l  == log[c]
               l2 == log'[c]
    <3>1. LeftBy(l, out[c], i - 1, l2[i].id)
            /\ \A k \in 1 .. i - 1 : l2[k] = l[k] /\ out'[c][l[k].pos].result = out[c][l[k].pos].result
      BY <2>3, <2>4, ZenonT(60)
    <3> HIDE DEF l, l2
    <3>2. LeftBy(l2, out'[c], i - 1, l2[i].id)
      BY <3>1, LeftSame
    <3> QED
      BY <3>2, Zenon DEF l2
  <2> QED
    BY <1>6, <2>2, <2>3, <2>5, Zenon
<1> QED
  BY <1>7, <1>8, Zenon DEF Used

\* The entries of the log of a connection that waits or creates are answered.
LEMMA EntriesAnswered ==
  ASSUME Inv, TInv, PInv, NEW c \in Conns, bpc[c] \in {"item", "create"}
  PROVE  \A k \in 1 .. Len(log[c]) : log[c][k].pos \in DOMAIN out[c]
<1>1. log[c] \in Seq(Entry) /\ out[c] \in Seq(Answer) /\ pos[c] \in Nat /\ Len(out[c]) = pos[c] - 1
  BY Zenon DEF TInv, LogTypes, Inv, Types, Counted, Active, Labels
<1>2. \A k \in 1 .. Len(log[c]) : k \in DOMAIN log[c] /\ log[c][k] \in Entry
  BY <1>1
<1>3. \A k \in 1 .. Len(log[c]) : log[c][k].pos \in Nat /\ log[c][k].pos > 0 /\ log[c][k].pos < pos[c]
  BY <1>2, ZenonT(60) DEF TInv, Current, PInv, Used, Entry
<1> QED
  BY <1>1, <1>3

\* A handler that keeps the placeholder, or sets it, keeps PInv.
LEMMA HandleHolds ==
  ASSUME Inv, TInv, PInv, NEW c \in Conns, bpc[c] \in {"item", "create"}, pos[c] \in DOMAIN batch[c],
         Keeps(c) \/ Sets(c), UNCHANGED <<batch, pos, out>>
  PROVE  Used(c)' /\ Holds(c)'
<1> DEFINE n == Len(log[c])
           a == heap'[ptr'[c]]
<1>1. log[c] \in Seq(Entry) /\ n \in Nat /\ placeholder \in [Conns -> IDs] /\ Used(c)
        /\ LeftBy(log[c], out[c], n, placeholder[c])
  BY DEF TInv, LogTypes, PInv, Holds
<1>2. \A k \in 1 .. n : log[c][k].pos \in DOMAIN out[c]
  BY EntriesAnswered, Zenon
<1>3. \A k \in 1 .. n : Append(out[c], a)[log[c][k].pos] = out[c][log[c][k].pos]
  <2>1. \A p \in DOMAIN out[c] : Append(out[c], a)[p] = out[c][p]
    BY AppendedAnswer, ZenonT(60) DEF Active, Labels
  <2> HIDE DEF a
  <2> QED
    BY <1>2, <2>1, Zenon
<1>4. Append(out[c], a)[pos[c]] = a
  BY AppendedAnswer, Zenon DEF Active, Labels
<1> HIDE DEF a
<1>5. ASSUME UNCHANGED <<log, placeholder>>, Returns(c, "failed") \/ Panic(c) \/ Begins(c)
      PROVE  Used(c)' /\ Holds(c)'
  <2>1. Used(c)'
    BY <1>1, <1>5, Zenon DEF Used
  <2>2. LeftBy(log[c], Append(out[c], a), n, placeholder[c])
    BY <1>1, <1>3, LeftSame, ZenonT(60)
  <2>3. LeftBy(log'[c], out'[c], Len(log'[c]), placeholder'[c])
          /\ LeftBy(log'[c], Append(out'[c], a), Len(log'[c]), placeholder'[c])
    BY <1>1, <1>5, <2>2, Zenon
  <2> QED
    BY <2>1, <2>3, Zenon DEF Holds, a
<1>6. ASSUME NEW id \in IDs, Did(c, id)
      PROVE  /\ Len(log'[c]) = n + 1
             /\ log'[c][n + 1].op = Cur(c).op /\ log'[c][n + 1].pos = pos[c] /\ log'[c][n + 1].id = id
             /\ LeftBy(log'[c], Append(out[c], a), n, placeholder[c])
  <2>1. /\ Len(log'[c]) = n + 1
        /\ \A k \in 1 .. n : log'[c][k] = log[c][k]
        /\ log'[c][n + 1] = [op |-> Cur(c).op, pos |-> pos[c], id |-> id]
    BY <1>6, DidLog, ZenonT(60)
  <2>2. LeftBy(log'[c], Append(out[c], a), n, placeholder[c])
    <3>1. \A k \in 1 .. n : /\ log'[c][k] = log[c][k]
                            /\ Append(out[c], a)[log[c][k].pos] = out[c][log[c][k].pos]
      BY <1>3, <2>1, ZenonT(60)
    <3>2. LeftBy(log[c], out[c], n, placeholder[c])
      BY <1>1
    <3> DEFINE l  == log[c]
               l2 == log'[c]
               o2 == Append(out[c], a)
    <3>3. LeftBy(l, out[c], n, placeholder[c]) /\ \A k \in 1 .. n : l2[k] = l[k] /\ o2[l[k].pos] = out[c][l[k].pos]
      BY <3>1, <3>2, ZenonT(60)
    <3> HIDE DEF l, l2, o2, n
    <3>4. LeftBy(l2, o2, n, placeholder[c])
      BY <3>3, LeftSame
    <3> QED
      BY <3>4 DEF l2, o2, n
  <2> QED
    BY <2>1, <2>2
<1>7. ASSUME Panic(c) PROVE Holds(c)'
  <2>1. bpc'[c] = "dead"
    BY <1>7, ZenonT(60) DEF Panic, Goto, Inv, Types
  <2> QED
    BY <2>1 DEF Holds
<1>8. ASSUME NEW r, Returns(c, r), LeftBy(log'[c], Append(out[c], a), Len(log'[c]), placeholder'[c]) PROVE Holds(c)'
  <2>1. bpc'[c] = "stamp"
    BY <1>8, ReturnsResult, Zenon
  <2> QED
    BY <1>8, <2>1 DEF Holds, a
<1>9. CASE Keeps(c)
  <2>1. CASE Logs(c) /\ Panic(c) /\ Cur(c).op # "Custom"
    BY <1>7, <2>1, DidUsed, ZenonT(60) DEF Logs
  <2>2. CASE /\ Logs(c) /\ Returns(c, "ok") /\ UNCHANGED placeholder
             /\ Cur(c).op \notin {"Create", "Register", "Get20", "Custom"}
    <3>1. PICK id \in IDs : Did(c, id)
      BY <2>2, Zenon DEF Logs
    <3>2. Used(c)'
      BY <2>2, <3>1, DidUsed, Zenon
    <3>3. LeftBy(log'[c], Append(out[c], a), n + 1, placeholder[c])
      BY <1>1, <1>6, <2>2, <3>1, LeftSkips, Zenon
    <3>4. Holds(c)'
      BY <1>6, <1>8, <2>2, <3>1, <3>3, ZenonT(60)
    <3> QED
      BY <3>2, <3>4
  <2>3. CASE Did(c, placeholder[c]) /\ Returns(c, "ok") /\ Cur(c).op = "Custom" /\ UNCHANGED placeholder
    <3>1. placeholder[c] \in IDs /\ Cur(c).op \notin {"Create", "Register", "Get20"}
      BY <1>1, <2>3
    <3>2. Used(c)'
      BY <2>3, <3>1, DidUsed, Zenon
    <3>3. LeftBy(log'[c], Append(out[c], a), n + 1, placeholder[c])
      BY <1>1, <1>6, <2>3, <3>1, LeftSkips, Zenon
    <3>4. Holds(c)'
      BY <1>6, <1>8, <2>3, <3>1, <3>3, ZenonT(60)
    <3> QED
      BY <3>2, <3>4
  <2> QED
    BY <1>5, <1>9, <2>1, <2>2, <2>3, Zenon DEF Keeps
<1>10. CASE Sets(c)
  <2>1. Did(c, ID(c)) /\ ID(c) \in IDs /\ Cur(c).op \in {"Create", "Register", "Get20"}
    BY <1>10, IDType, Zenon DEF Sets
  <2>2. Used(c)'
    <3>1. Cur(c).op # "Custom"
      BY <2>1
    <3> QED
      BY <2>1, <3>1, DidUsed, ZenonT(60)
  <2>3. LeftBy(log'[c], Append(out[c], a), n + 1, IF a.result = "ok" THEN ID(c) ELSE None)
    <3>1. LeftBy(log'[c], Append(out[c], a), n + 1,
             IF Append(out[c], a)[log'[c][n + 1].pos].result = "ok" THEN log'[c][n + 1].id ELSE None)
      BY <1>1, <1>6, <2>1, LeftSets, Zenon
    <3> QED
      BY <1>4, <1>6, <2>1, <3>1, Zenon
  <2>4. ASSUME NEW r \in {"ok", "failed"}, Returns(c, r), SetPlaceholder(c, IF r = "ok" THEN ID(c) ELSE None)
        PROVE  Holds(c)'
    <3>1. placeholder'[c] = IF r = "ok" THEN ID(c) ELSE None
      BY <1>1, <2>4, Zenon DEF SetPlaceholder
    <3>2. a.result = r
      BY <2>4, ReturnsResult, Zenon DEF a
    <3> QED
      BY <1>6, <1>8, <2>1, <2>3, <2>4, <3>1, <3>2, ZenonT(60)
  <2> QED
    BY <1>7, <1>10, <2>2, <2>4 DEF Sets
<1> QED
  BY <1>9, <1>10

\* An action of a handler keeps PInv.
LEMMA HandlePInv == ASSUME Inv, TInv, PInv, NEW c \in Conns, Handle(c) PROVE PInv'
<1>1. CASE Stays /\ UNCHANGED <<log, placeholder>>
  BY <1>1, OthersOwn, Zenon DEF Stays, PInv
<1>2. CASE Step(c) /\ (Keeps(c) \/ Sets(c))
  <2>1. UNCHANGED <<batch, pos, out>> /\ bpc[c] \in {"item", "create"} /\ pos[c] \in DOMAIN batch[c]
    BY <1>2, Zenon DEF Step, Waits, Inv, Counted
  <2>2. Used(c)' /\ Holds(c)'
    BY <1>2, <2>1, HandleHolds, Zenon
  <2>3. ASSUME NEW d \in Conns, d # c PROVE Used(d)' /\ Holds(d)'
    <3>1. bpc'[d] = bpc[d] /\ ptr'[d] = ptr[d]
      BY <1>2, <2>3, Zenon DEF Step, Replies, Return, Panic, Drop, Begins, Goto, Inv, Types
    <3>2. ptr[d] \in Addrs => heap'[ptr[d]] = heap[ptr[d]]
      BY <1>2, <2>3, Zenon DEF Step, Replies, Return, Panic, Drop, Begins, Inv, Types
    <3>3. log'[d] = log[d] /\ placeholder'[d] = placeholder[d]
      BY <1>2, <2>3, Zenon DEF Keeps, Sets, Logs, Did, SetPlaceholder, TInv, LogTypes
    <3> QED
      BY <2>1, <3>1, <3>2, <3>3, OthersOwn, Zenon
  <2> QED
    BY <2>2, <2>3, Zenon DEF PInv
<1>3. CASE bpc[c] = "create" /\ Stays /\ (Keeps(c) \/ Sets(c))
  <2>1. bpc'[c] = "create"
    BY <1>3 DEF Stays
  <2>2. ~Panic(c) /\ ~Returns(c, "ok") /\ ~Returns(c, "failed")
    BY <2>1, Zenon DEF Panic, Returns, Return, Goto, Inv, Types
  <2> QED
    BY <1>1, <1>3, <2>2, Zenon DEF Keeps, Sets
<1> QED
  BY <1>1, <1>2, <1>3, HandlePlaces, HandleSteps, Zenon DEF Inv

\* So does writing the operation and the ID,
LEMMA StampPInv == ASSUME Inv, TInv, PInv, NEW c \in Conns, Stamp(c) PROVE PInv'
<1>1. bpc' = [bpc EXCEPT ![c] = "append"] /\ UNCHANGED <<turn, batch, pos, placeholder, ptr, out, log>>
  BY Zenon DEF Stamp, Goto
<1>2. ptr[c] \in Addrs /\ bpc[c] = "stamp" /\ bpc'[c] = "append"
  BY <1>1, Zenon DEF Stamp, Inv, Owned, Types
<1>3. heap'[ptr[c]].result = heap[ptr[c]].result
  <2>1. heap[ptr[c]] \in Answer
    BY <1>2 DEF Inv, Types
  <2>2. heap'[ptr[c]] = [heap[ptr[c]] EXCEPT !.op = Cur(c).op, !.uid = Cur(c).uid]
    BY <1>2, <2>1, Zenon DEF Stamp, Inv, Types, Answer
  <2> QED
    BY <2>1, <2>2, Zenon DEF Answer
<1>4. ASSUME NEW d \in Conns, d # c PROVE Used(d)' /\ Holds(d)'
  <2>1. bpc'[d] = bpc[d]
    BY <1>1, <1>4, Zenon DEF Inv, Types
  <2>2. ptr[d] # ptr[c]
    BY <1>2, <1>4, BatchAssumption, Zenon DEF Inv, Owned
  <2>3. ptr[d] \in Addrs => heap'[ptr[d]] = heap[ptr[d]]
    BY <1>2, <2>2, Zenon DEF Stamp, Inv, Types
  <2> QED
    BY <1>1, <2>1, <2>3, OthersOwn, Zenon
<1>5. Used(c)'
  BY <1>1, Zenon DEF PInv, Used
<1>6. Holds(c)'
  <2> DEFINE l  == log[c]
             n  == Len(log[c])
             o  == Append(out[c], heap[ptr[c]])
             o2 == Append(out[c], heap'[ptr[c]])
  <2>1. LeftBy(l, o, n, placeholder[c])
    BY <1>2, Zenon DEF PInv, Holds
  <2>2. ASSUME NEW k \in 1 .. n PROVE o2[l[k].pos].result = o[l[k].pos].result
    <3>1. l \in Seq(Entry) /\ out[c] \in Seq(Answer) /\ pos[c] \in Nat /\ Len(out[c]) = pos[c] - 1
      BY <1>2, Zenon DEF TInv, LogTypes, Inv, Types, Counted, Active, Labels
    <3>2. k \in DOMAIN l /\ l[k] \in Entry
      BY <3>1
    <3>3. l[k].pos \in Nat /\ l[k].pos > 0 /\ l[k].pos <= pos[c]
      BY <1>2, <3>2, Zenon DEF TInv, Current, PInv, Used, Entry
    <3>4. l[k].pos \in DOMAIN out[c] \/ l[k].pos = pos[c]
      BY <3>1, <3>3
    <3>5. /\ o[pos[c]] = heap[ptr[c]] /\ o2[pos[c]] = heap'[ptr[c]]
          /\ \A p \in DOMAIN out[c] : o[p] = out[c][p] /\ o2[p] = out[c][p]
      <4>0. bpc[c] \in Active
        BY <1>2 DEF Active, Labels
      <4>1. /\ o[pos[c]] = heap[ptr[c]] /\ \A p \in DOMAIN out[c] : o[p] = out[c][p]
        BY <4>0, AppendedAnswer, ZenonT(60)
      <4>2. /\ o2[pos[c]] = heap'[ptr[c]] /\ \A p \in DOMAIN out[c] : o2[p] = out[c][p]
        BY <4>0, AppendedAnswer, ZenonT(60)
      <4> QED
        BY <4>1, <4>2, Zenon
    <3> QED
      BY <1>3, <3>4, <3>5, Zenon
  <2> HIDE DEF l, n, o, o2
  <2>3. LeftBy(l, o2, n, placeholder[c])
    BY <2>1, <2>2, LeftSame
  <2> QED
    BY <1>1, <1>2, <2>3, Zenon DEF Holds, l, n, o2
<1> QED
  BY <1>4, <1>5, <1>6, Zenon DEF PInv

\* appending the copy,
LEMMA AppendItemPInv == ASSUME Inv, TInv, PInv, NEW c \in Conns, AppendItem(c) PROVE PInv'
<1>1. bpc' = [bpc EXCEPT ![c] = "item"] /\ ptr' = [ptr EXCEPT ![c] = None]
        /\ pos' = [pos EXCEPT ![c] = @ + 1] /\ UNCHANGED <<batch, turn, placeholder, log>>
        /\ out' = [out EXCEPT ![c] = Append(@, heap[ptr[c]])]
  BY Zenon DEF AppendItem, Drop, Goto
<1>2. bpc[c] = "append" /\ bpc'[c] = "item" /\ out'[c] = Append(out[c], heap[ptr[c]])
  BY <1>1, Zenon DEF AppendItem, Inv, Types
<1>3. ASSUME NEW d \in Conns, d # c PROVE Used(d)' /\ Holds(d)'
  <2>1. bpc'[d] = bpc[d] /\ ptr'[d] = ptr[d] /\ out'[d] = out[d]
    BY <1>1, <1>3, Zenon DEF Inv, Types
  <2>2. ptr[d] \in Addrs => heap'[ptr[d]] = heap[ptr[d]]
    BY <1>3, Zenon DEF AppendItem, Drop, Inv, Types
  <2> QED
    BY <1>1, <2>1, <2>2, OthersOwn, Zenon
<1>4. Holds(c)'
  BY <1>1, <1>2, ZenonT(60) DEF PInv, Holds
<1>5. \A p \in DOMAIN out[c] : out'[c][p] = out[c][p] /\ p \in DOMAIN out'[c]
  <2>1. out[c] \in Seq(Answer) /\ heap[ptr[c]] \in Answer
    BY <1>2 DEF Inv, Types, Owned
  <2> QED
    BY <1>2, <2>1
<1>6. ASSUME NEW i \in DOMAIN log[c], log[c][i].op = "Custom"
      PROVE  /\ LeftBy(log[c], out'[c], i - 1, log[c][i].id)
             /\ \A k \in 1 .. i - 1 : log[c][k].pos \in DOMAIN out'[c]
  <2> DEFINE l  == log[c]
             o  == out[c]
             o2 == out'[c]
  <2>1. LeftBy(l, o, i - 1, l[i].id) /\ \A k \in 1 .. i - 1 : l[k].pos \in DOMAIN o
    BY <1>6, Zenon DEF PInv, Used
  <2>2. \A k \in 1 .. i - 1 : o2[l[k].pos].result = o[l[k].pos].result /\ l[k].pos \in DOMAIN o2
    BY <1>5, <2>1, ZenonT(60)
  <2> HIDE DEF l, o, o2
  <2>3. LeftBy(l, o2, i - 1, l[i].id)
    BY <2>1, <2>2, LeftSame
  <2> QED
    BY <2>2, <2>3, Zenon DEF l, o2
<1>7. Used(c)'
  BY <1>1, <1>6, Zenon DEF PInv, Used
<1> QED
  BY <1>3, <1>4, <1>7, Zenon DEF PInv

\* and what the connection does.
LEMMA ConnectionPInv ==
  ASSUME Inv, TInv, PInv, NEW c \in Conns, ReadBatch(c) \/ Reply(c) \/ Connect(c)
  PROVE  PInv'
<1>1. UNCHANGED <<ptr, heap>> /\ \A d \in Conns : d # c =>
        bpc'[d] = bpc[d] /\ placeholder'[d] = placeholder[d] /\ out'[d] = out[d] /\ log'[d] = log[d]
  BY ZenonT(60) DEF ReadBatch, Reply, Connect, SetPlaceholder, Goto, Inv, Types, TInv, LogTypes
<1>2. \A d \in Conns : d # c => Used(d)' /\ Holds(d)'
  BY <1>1, OthersOwn, Zenon
<1>3. CASE ReadBatch(c)
  <2>1. bpc'[c] = "item" /\ log'[c] = <<>> /\ placeholder'[c] = None
    BY <1>3, Zenon DEF ReadBatch, SetPlaceholder, Goto, Inv, Types, TInv, LogTypes
  <2>2. LeftBy(log'[c], out'[c], Len(log'[c]), placeholder'[c])
    BY <2>1 DEF LeftBy, SetBy
  <2>3. Used(c)' /\ Holds(c)'
    BY <2>1, <2>2 DEF Used, Holds
  <2> QED
    BY <1>2, <2>3, Zenon DEF PInv
<1>4. CASE Reply(c) \/ Connect(c)
  <2>1. bpc'[c] = "idle" /\ UNCHANGED <<out, log>>
    BY <1>4, Zenon DEF Reply, Connect, Goto, Inv, Types
  <2>2. Used(c)'
    BY <2>1, Zenon DEF PInv, Used
  <2>3. Holds(c)'
    BY <2>1, Zenon DEF Holds
  <2> QED
    BY <1>2, <2>2, <2>3, Zenon DEF PInv
<1> QED
  BY <1>3, <1>4

\* What a later item of a batch does with the ID placeholder, it does to the
\* object that the last Create, Register or Get of the same batch returned,
\* whatever the other requests do and whatever the callbacks return.
THEOREM BatchActsOnOwnObject == Spec => []ActsOnOwnObject
<1>1. Init => PInv
  <2> SUFFICES ASSUME Init, NEW c \in Conns PROVE Used(c) /\ Holds(c)
    BY Zenon DEF PInv
  <2>1. log[c] = <<>> /\ bpc[c] = "idle"
    BY DEF Init
  <2> QED
    BY <2>1 DEF Used, Holds
<1>2. Inv /\ TInv /\ PInv /\ [Next]_vars => PInv'
  <2> SUFFICES ASSUME Inv, TInv, PInv, [Next]_vars PROVE PInv'
    OBVIOUS
  <2>1. CASE UNCHANGED vars
    BY <2>1, OthersOwn, Zenon DEF vars, PInv
  <2> QED
    BY <2>1, HandlePInv, StampPInv, AppendItemPInv, ConnectionPInv, Zenon DEF Next
<1>3. PInv => ActsOnOwnObject
  BY Zenon DEF PInv, Used, ActsOnOwnObject
<1> QED
  BY <1>1, <1>2, <1>3, BatchInvariant, ToldInvariant, PTL DEF Spec

----------------------------------------------------------------------------
(***************************************************************************)
(* The loops that keep some of the elements of a list.                     *)
(***************************************************************************)

\* f is what the loop of Kept holds after each element.
KeptRun(f, X, s, S) ==
  /\ f \in [0 .. Len(s) -> Seq(X)]
  /\ f[0] = <<>>
  /\ \A n \in 1 .. Len(s) : f[n] = IF s[n] \in S THEN Append(f[n - 1], s[n]) ELSE f[n - 1]
  /\ Kept(s, S) = f[Len(s)]

\* The loop runs.
LEMMA KeptLoop ==
  ASSUME NEW X, NEW s \in Seq(X), NEW S
  PROVE  \E f : KeptRun(f, X, s, S)
<1> DEFINE N == Len(s)
           T == Seq(X)
           Next1(n, x) == IF s[n] \in S THEN Append(x, s[n]) ELSE x
           step == [p \in (1 .. N) \X T |-> Next1(p[1], p[2])]
           Is(g) == g = [n \in 0 .. N |-> IF n = 0 THEN <<>> ELSE Next1(n, g[n - 1])]
           h == CHOOSE g : Is(g)
<1>1. N \in Nat /\ <<>> \in T /\ \A n \in 1 .. N, x \in T : Next1(n, x) \in T
  OBVIOUS
<1>2. Kept(s, S) = h[N]
  BY DEF Kept
<1> HIDE DEF N, T, Next1
<1>3. step \in [(1 .. N) \X T -> T] /\ \A n \in 1 .. N, x \in T : step[<<n, x>>] = Next1(n, x)
  BY <1>1
<1> HIDE DEF step
<1>4. PICK f \in [0 .. N -> T] : f[0] = <<>> /\ \A n \in 1 .. N : f[n] = step[<<n, f[n - 1]>>]
  <2>1. \E f : IsLoop(f, N, T, <<>>, step)
    BY <1>1, <1>3, LoopExists, Zenon
  <2> QED
    BY <2>1, Zenon DEF IsLoop
<1>5. \A n \in 0 .. N : n = 0 \/ (n \in 1 .. N /\ n - 1 \in 0 .. N /\ n # 0)
  BY <1>1
<1>6. \A n \in 0 .. N : f[n] = IF n = 0 THEN <<>> ELSE Next1(n, f[n - 1])
  BY <1>3, <1>4, <1>5, ZenonT(60)
<1>7. Is(f)
  BY <1>4, <1>6
<1>8. Is(h)
  BY <1>7, Zenon
<1> HIDE DEF h
<1>9. \A n \in 0 .. N : h[n] = IF n = 0 THEN <<>> ELSE Next1(n, h[n - 1])
  BY <1>8, Zenon
<1>10. h[0] = <<>> /\ \A n \in 1 .. N : h[n] = Next1(n, h[n - 1])
  <2>1. 0 \in 0 .. N /\ \A n \in 1 .. N : n \in 0 .. N /\ n # 0
    BY <1>1
  <2> QED
    BY <1>9, <2>1, Zenon
<1>11. \A n \in 0 .. N : h[n] \in T
  <2> DEFINE G == {n \in 0 .. N : h[n] \in T}
  <2>1. 0 \in G
    BY <1>1, <1>10
  <2>2. ASSUME NEW n \in 0 .. N - 1, n \in G PROVE n + 1 \in G
    <3>1. n + 1 \in 1 .. N /\ n + 1 \in 0 .. N /\ n + 1 - 1 = n
      BY <1>1
    <3>2. h[n + 1] = Next1(n + 1, h[n])
      BY <1>10, <3>1
    <3> QED
      BY <1>1, <2>2, <3>1, <3>2
  <2> HIDE DEF G
  <2>3. \A n \in 0 .. N : n \in G
    BY <1>1, <2>1, <2>2, SetInduction, Zenon
  <2> QED
    BY <2>3 DEF G
<1>12. h = [n \in 0 .. N |-> h[n]]
  BY <1>8
<1>13. h \in [0 .. N -> T]
  BY <1>11, <1>12
<1> QED
  BY <1>2, <1>10, <1>13, Zenon DEF KeptRun, N, T, Next1

\* r is what the loop keeps of the first n elements of s: only members of S, all
\* of them, in the order of s, the first one first.
KeptOf(r, s, S, n) ==
  /\ \A k \in DOMAIN r : r[k] \in S /\ \E i \in 1 .. n : r[k] = s[i]
  /\ \A i \in 1 .. n : s[i] \in S => \E k \in DOMAIN r : r[k] = s[i]
  /\ \A k, m \in DOMAIN r : k < m => \E i, j \in 1 .. n : i < j /\ r[k] = s[i] /\ r[m] = s[j]
  /\ \A i \in 1 .. n : s[i] \in S /\ (\A j \in 1 .. i - 1 : s[j] \notin S) => r # <<>> /\ r[1] = s[i]
  /\ (\A i \in 1 .. n : s[i] \notin S) => r = <<>>

\* One step of the loop.
LEMMA KeptStep ==
  ASSUME NEW X, NEW s \in Seq(X), NEW S, NEW n \in 0 .. Len(s) - 1, NEW r \in Seq(X), KeptOf(r, s, S, n)
  PROVE  KeptOf(IF s[n + 1] \in S THEN Append(r, s[n + 1]) ELSE r, s, S, n + 1)
<1> DEFINE x == s[n + 1]
           q == Append(r, x)
<1>0. n \in Nat /\ x \in X /\ n + 1 \in 1 .. n + 1 /\ \A i \in 1 .. n + 1 : i \in 1 .. n \/ i = n + 1
  OBVIOUS
<1>1. \A i \in 1 .. n : i \in 1 .. n + 1 /\ i < n + 1
  BY <1>0
<1>2. \A k \in DOMAIN r : r[k] \in S /\ \E i \in 1 .. n : r[k] = s[i]
  BY Zenon DEF KeptOf
<1>3. \A i \in 1 .. n : s[i] \in S => \E k \in DOMAIN r : r[k] = s[i]
  BY Zenon DEF KeptOf
<1>4. \A k, m \in DOMAIN r : k < m => \E i, j \in 1 .. n : i < j /\ r[k] = s[i] /\ r[m] = s[j]
  BY Zenon DEF KeptOf
<1>5. \A i \in 1 .. n : s[i] \in S /\ (\A j \in 1 .. i - 1 : s[j] \notin S) => r # <<>> /\ r[1] = s[i]
  BY Zenon DEF KeptOf
<1>6. (\A i \in 1 .. n : s[i] \notin S) => r = <<>>
  BY Zenon DEF KeptOf
<1>7. CASE x \in S
  <2>1. /\ Len(r) \in Nat /\ DOMAIN q = 1 .. Len(r) + 1 /\ DOMAIN r = 1 .. Len(r) /\ q # <<>>
        /\ q[Len(r) + 1] = x /\ \A k \in DOMAIN r : q[k] = r[k]
    BY <1>0
  <2> HIDE DEF q
  <2>2. \A k \in DOMAIN q : k \in DOMAIN r \/ (k = Len(r) + 1 /\ q[k] = x)
    BY <2>1
  <2>3. \A k \in DOMAIN r : k \in DOMAIN q /\ k < Len(r) + 1 /\ q[k] = r[k]
    BY <2>1
  <2>4. Len(r) + 1 \in DOMAIN q /\ \A m \in DOMAIN r : ~(Len(r) + 1 < m)
    BY <2>1
  <2> HIDE DEF x
  <2>5. \A k \in DOMAIN q : q[k] \in S /\ \E i \in 1 .. n + 1 : q[k] = s[i]
    <3>1. \A k \in DOMAIN r : q[k] \in S /\ \E i \in 1 .. n + 1 : q[k] = s[i]
      BY <1>1, <1>2, <2>3, Zenon
    <3>2. x = s[n + 1]
      BY DEF x
    <3> QED
      BY <1>0, <1>7, <2>2, <3>1, <3>2, Zenon
  <2>6. \A i \in 1 .. n + 1 : s[i] \in S => \E k \in DOMAIN q : q[k] = s[i]
    <3>1. \A i \in 1 .. n : s[i] \in S => \E k \in DOMAIN q : q[k] = s[i]
      BY <1>3, <2>3, Zenon
    <3>2. s[n + 1] = x /\ q[Len(r) + 1] = x
      BY <2>1 DEF x
    <3> QED
      BY <1>0, <2>4, <3>1, <3>2, Zenon
  <2>7. ASSUME NEW k \in DOMAIN q, NEW m \in DOMAIN q, k < m
        PROVE  \E i, j \in 1 .. n + 1 : i < j /\ q[k] = s[i] /\ q[m] = s[j]
    <3>1. k \in DOMAIN r
      <4>1. SUFFICES ASSUME k = Len(r) + 1 PROVE FALSE
        BY <2>2, Zenon
      <4> QED
        BY <2>1, <2>7, <4>1
    <3>2. CASE m \in DOMAIN r
      <4>1. PICK i \in 1 .. n, j \in 1 .. n : i < j /\ r[k] = s[i] /\ r[m] = s[j]
        BY <1>4, <2>7, <3>1, <3>2, Zenon
      <4> QED
        BY <1>1, <2>3, <3>1, <3>2, <4>1, Zenon
    <3>3. CASE m = Len(r) + 1 /\ q[m] = x
      <4>1. PICK i \in 1 .. n : r[k] = s[i]
        BY <1>2, <3>1, Zenon
      <4>2. i < n + 1 /\ i \in 1 .. n + 1 /\ q[k] = s[i] /\ q[m] = s[n + 1]
        BY <1>1, <2>3, <3>1, <3>3, <4>1, Zenon DEF x
      <4> QED
        BY <1>0, <4>2, Zenon
    <3> QED
      BY <2>2, <3>2, <3>3
  <2>8. ASSUME NEW i \in 1 .. n + 1, s[i] \in S, \A j \in 1 .. i - 1 : s[j] \notin S PROVE q[1] = s[i]
    <3>1. CASE i \in 1 .. n
      <4>1. r # <<>> /\ r[1] = s[i]
        BY <1>5, <2>8, <3>1, Zenon
      <4>2. 1 \in DOMAIN r
        BY <4>1
      <4> QED
        BY <2>3, <4>1, <4>2, Zenon
    <3>2. CASE i = n + 1
      <4>1. \A j \in 1 .. n : s[j] \notin S
        BY <1>0, <2>8, <3>2
      <4>2. r = <<>>
        BY <1>6, <4>1, Zenon
      <4>3. Len(r) + 1 = 1
        BY <4>2
      <4> QED
        BY <2>1, <3>2, <4>3, Zenon DEF x
    <3> QED
      BY <1>0, <3>1, <3>2, Zenon
  <2>9. ~\A i \in 1 .. n + 1 : s[i] \notin S
    BY <1>0, <1>7, Zenon DEF x
  <2>10. KeptOf(q, s, S, n + 1)
    BY <2>1, <2>5, <2>6, <2>7, <2>8, <2>9, Zenon DEF KeptOf
  <2> QED
    BY <1>7, <2>10, Zenon DEF x, q
<1>8. CASE x \notin S
  <2>1. \A i \in 1 .. n + 1 : s[i] \in S => i \in 1 .. n
    BY <1>0, <1>8, Zenon
  <2>2. KeptOf(r, s, S, n + 1)
    <3>1. \A k \in DOMAIN r : r[k] \in S /\ \E i \in 1 .. n + 1 : r[k] = s[i]
      BY <1>1, <1>2, Zenon
    <3>2. \A i \in 1 .. n + 1 : s[i] \in S => \E k \in DOMAIN r : r[k] = s[i]
      BY <1>3, <2>1, Zenon
    <3>3. \A k, m \in DOMAIN r : k < m => \E i, j \in 1 .. n + 1 : i < j /\ r[k] = s[i] /\ r[m] = s[j]
      BY <1>1, <1>4, ZenonT(60)
    <3>4. \A i \in 1 .. n + 1 : s[i] \in S /\ (\A j \in 1 .. i - 1 : s[j] \notin S) => r # <<>> /\ r[1] = s[i]
      BY <1>5, <2>1, Zenon
    <3>5. (\A i \in 1 .. n + 1 : s[i] \notin S) => r = <<>>
      BY <1>1, <1>6, Zenon
    <3> QED
      BY <3>1, <3>2, <3>3, <3>4, <3>5, Zenon DEF KeptOf
  <2> QED
    BY <1>8, <2>2, Zenon
<1> QED
  BY <1>7, <1>8

\* What Kept returns.
LEMMA KeptIs ==
  ASSUME NEW X, NEW s \in Seq(X), NEW S
  PROVE  Kept(s, S) \in Seq(X) /\ KeptOf(Kept(s, S), s, S, Len(s))
<1>1. PICK f \in [0 .. Len(s) -> Seq(X)] :
        /\ f[0] = <<>>
        /\ \A n \in 1 .. Len(s) : f[n] = IF s[n] \in S THEN Append(f[n - 1], s[n]) ELSE f[n - 1]
        /\ Kept(s, S) = f[Len(s)]
  <2>1. \E f : KeptRun(f, X, s, S)
    BY KeptLoop, Zenon
  <2> QED
    BY <2>1, Zenon DEF KeptRun
<1> DEFINE G == {n \in 0 .. Len(s) : KeptOf(f[n], s, S, n)}
<1>2. Len(s) \in Nat /\ 0 \in 0 .. Len(s) /\ Len(s) \in 0 .. Len(s)
  OBVIOUS
<1>3. 0 \in G
  <2>1. KeptOf(<<>>, s, S, 0)
    BY DEF KeptOf
  <2> QED
    BY <1>1, <1>2, <2>1, Zenon
<1>4. ASSUME NEW n \in 0 .. Len(s) - 1, n \in G PROVE n + 1 \in G
  <2>1. n \in 0 .. Len(s) /\ n + 1 \in 1 .. Len(s) /\ n + 1 \in 0 .. Len(s) /\ n + 1 - 1 = n
    BY <1>2
  <2>2. f[n] \in Seq(X) /\ KeptOf(f[n], s, S, n)
    BY <1>4, <2>1
  <2>3. f[n + 1] = IF s[n + 1] \in S THEN Append(f[n], s[n + 1]) ELSE f[n]
    BY <1>1, <2>1
  <2>4. KeptOf(IF s[n + 1] \in S THEN Append(f[n], s[n + 1]) ELSE f[n], s, S, n + 1)
    BY <2>2, KeptStep, Zenon
  <2>5. KeptOf(f[n + 1], s, S, n + 1)
    BY <2>3, <2>4, Zenon
  <2> QED
    BY <2>1, <2>5, Zenon
<1> HIDE DEF G
<1>5. \A n \in 0 .. Len(s) : n \in G
  BY <1>2, <1>3, <1>4, SetInduction, Zenon
<1> QED
  BY <1>1, <1>2, <1>5, Zenon DEF G

----------------------------------------------------------------------------
(***************************************************************************)
(* DiscoverVersions.                                                       *)
(***************************************************************************)

\* The answer a to item b, if b is a DiscoverVersions, has the versions that
\* both sides support.
Offered(b) == Common(IF b.payload = "none" THEN <<>> ELSE b.versions)
Offers(b, a) == b.op = "DiscoverVersions" /\ a.result = "ok" => a.versions = Offered(b)

Fits(c) ==
  /\ \A i \in DOMAIN out[c] : Offers(batch[c][i], out[c][i])
  /\ bpc[c] \in {"stamp", "append"} => Offers(Cur(c), heap[ptr[c]])

VInv == \A c \in Conns : Fits(c)

\* The steps of the handlers, as far as the versions are concerned.
Discovers(c) ==
  \/ Returns(c, "failed") \/ Panic(c) \/ Begins(c)
  \/ Returns(c, "ok") /\ Cur(c).op # "DiscoverVersions"
  \/ Return(c, "ok", Offered(Cur(c)))

\* Every action of a handler is one.
LEMMA HandleDiscovers ==
  ASSUME Inv, TInv, NEW c \in Conns, Handle(c)
  PROVE  Discovers(c) \/ Stays
<1>1. CASE NotSupported(c)
  BY <1>1, Zenon DEF NotSupported, Discovers, Returns
<1>2. CASE DecodeFails(c)
  BY <1>2, FailActs, Zenon DEF DecodeFails, Discovers
<1>3. CASE HandleGet(c) \/ HandleDestroy(c) \/ HandleActivate(c) \/ HandleDestroy20(c)
           \/ HandleLocate(c) \/ HandleQuery(c) \/ HandleRevoke(c) \/ HandleSetAttribute(c)
  <2>1. PICK op \in Ops \ {"DiscoverVersions"} : PassOn(c, op)
    BY <1>3
       DEF HandleGet, HandleDestroy, HandleActivate, HandleDestroy20, HandleLocate, HandleQuery,
           HandleRevoke, HandleSetAttribute, Ops
  <2>2. Cur(c).op # "DiscoverVersions"
    BY <2>1, Zenon DEF PassOn, Ready
  <2> QED
    BY <2>1, <2>2, CallbackFailsActs, Zenon DEF PassOn, Discovers, Returns
<1>4. CASE HandleGet20(c) \/ HandleRegister(c)
  <2>1. Fail(c, TRUE) \/ Identify(c)
    BY <1>4, Zenon DEF HandleGet20, HandleRegister
  <2>2. Cur(c).op \in {"Get20", "Register"}
    BY <1>4, Zenon DEF HandleGet20, HandleRegister, Ready
  <2>3. Cur(c).op # "DiscoverVersions"
    BY <2>2
  <2> QED
    BY <2>1, <2>3, FailActs, CallbackFailsActs, Zenon DEF Identify, Discovers, Returns
<1>5. CASE HandleDiscoverVersions(c)
  BY <1>5, Zenon DEF HandleDiscoverVersions, Discovers, Offered
<1>6. CASE HandleCustom(c)
  <2>1. Cur(c).op = "Custom"
    BY <1>6, Zenon DEF HandleCustom, Ready
  <2>2. Cur(c).op # "DiscoverVersions"
    BY <2>1
  <2> QED
    BY <1>6, <2>2, CallbackFailsActs, Zenon DEF HandleCustom, Discovers, Returns
<1>7. CASE HandleCreate(c)
  BY <1>7, CallbackFailsActs, Zenon DEF HandleCreate, Discovers, Begins
<1>8. CASE AppendAttribute(c)
  BY <1>8, Zenon DEF AppendAttribute, Stays
<1>9. CASE ReturnCreate(c)
  <2>1. Cur(c).op = "Create"
    BY <1>9, Zenon DEF ReturnCreate, TInv, Current
  <2>2. Cur(c).op # "DiscoverVersions"
    BY <2>1
  <2> QED
    BY <1>9, <2>2, FailActs, Zenon DEF ReturnCreate, Discovers, Returns
<1> QED
  BY <1>1, <1>2, <1>3, <1>4, <1>5, <1>6, <1>7, <1>8, <1>9, ZenonT(60) DEF Handle

\* Nothing changes for the connections that do not step.
LEMMA OthersFit ==
  ASSUME Inv, VInv, NEW d \in Conns, bpc'[d] = bpc[d], batch'[d] = batch[d], pos'[d] = pos[d], ptr'[d] = ptr[d],
         out'[d] = out[d], ptr[d] \in Addrs => heap'[ptr[d]] = heap[ptr[d]]
  PROVE  Fits(d)'
<1>1. Fits(d) /\ Owned(d)
  BY Zenon DEF Inv, VInv
<1>2. bpc[d] \in {"stamp", "append"} => heap'[ptr'[d]] = heap[ptr[d]] /\ Cur(d)' = Cur(d)
  BY <1>1, Zenon DEF Owned, Cur
<1> QED
  BY <1>1, <1>2, Zenon DEF Fits, Offers

\* An action of a handler keeps VInv.
LEMMA HandleVInv == ASSUME Inv, TInv, VInv, NEW c \in Conns, Handle(c) PROVE VInv'
<1>1. CASE Stays
  BY <1>1, OthersFit, Zenon DEF Stays, VInv
<1>2. CASE Step(c) /\ Discovers(c)
  <2>1. UNCHANGED <<batch, pos, out>> /\ bpc[c] \in {"item", "create"} /\ Cur(c)' = Cur(c)
    BY <1>2, Zenon DEF Step, Waits, Cur
  <2>2. ASSUME NEW d \in Conns, d # c PROVE Fits(d)'
    <3>1. bpc'[d] = bpc[d] /\ ptr'[d] = ptr[d]
      BY <1>2, <2>2, Zenon DEF Step, Replies, Return, Panic, Drop, Begins, Goto, Inv, Types
    <3>2. ptr[d] \in Addrs => heap'[ptr[d]] = heap[ptr[d]]
      BY <1>2, <2>2, Zenon DEF Step, Replies, Return, Panic, Drop, Begins, Inv, Types
    <3> QED
      BY <2>1, <3>1, <3>2, OthersFit, Zenon
  <2>3. \A i \in DOMAIN out'[c] : Offers(batch'[c][i], out'[c][i])
    BY <2>1, Zenon DEF VInv, Fits
  <2>4. bpc'[c] \in {"stamp", "append"} => Offers(Cur(c), heap'[ptr'[c]])
    <3>1. CASE Panic(c) \/ Begins(c)
      <4>1. bpc'[c] \in {"dead", "create"}
        BY <3>1, Zenon DEF Panic, Begins, Goto, Inv, Types
      <4> QED
        BY <4>1
    <3>2. CASE Returns(c, "failed")
      <4>1. heap'[ptr'[c]].result # "ok"
        BY <3>2, ReturnsResult
      <4> QED
        BY <4>1, Zenon DEF Offers
    <3>3. CASE Cur(c).op # "DiscoverVersions"
      BY <3>3, Zenon DEF Offers
    <3>4. CASE Return(c, "ok", Offered(Cur(c)))
      <4> DEFINE vs == Offered(Cur(c))
      <4>1. PICK a \in Addrs :
              /\ heap' = [heap EXCEPT ![a] = [op |-> "", uid |-> 0, result |-> "ok", versions |-> vs]]
              /\ ptr' = [ptr EXCEPT ![c] = a]
        BY <3>4, Zenon DEF Return
      <4> HIDE DEF vs
      <4>2. ptr'[c] = a /\ heap'[a].versions = vs
        BY <4>1, Zenon DEF Inv, Types
      <4> QED
        BY <4>2, Zenon DEF Offers, vs
    <3> QED
      BY <1>2, <3>1, <3>2, <3>3, <3>4, ZenonT(60) DEF Discovers
  <2>5. Fits(c)'
    BY <2>1, <2>3, <2>4, Zenon DEF Fits
  <2> QED
    BY <2>2, <2>5, Zenon DEF VInv
<1> QED
  BY <1>1, <1>2, HandleDiscovers, HandleSteps, Zenon DEF Inv

\* So does writing the operation and the ID,
LEMMA StampVInv == ASSUME Inv, VInv, NEW c \in Conns, Stamp(c) PROVE VInv'
<1>1. bpc' = [bpc EXCEPT ![c] = "append"] /\ UNCHANGED <<batch, pos, ptr, out>>
  BY Zenon DEF Stamp, Goto
<1>2. ptr[c] \in Addrs /\ bpc[c] = "stamp"
  BY Zenon DEF Stamp, Inv, Owned
<1>3. heap'[ptr[c]].result = heap[ptr[c]].result /\ heap'[ptr[c]].versions = heap[ptr[c]].versions
  <2>1. heap[ptr[c]] \in Answer
    BY <1>2 DEF Inv, Types
  <2>2. heap'[ptr[c]] = [heap[ptr[c]] EXCEPT !.op = Cur(c).op, !.uid = Cur(c).uid]
    BY <1>2, <2>1, Zenon DEF Stamp, Inv, Types, Answer
  <2> QED
    BY <2>1, <2>2, Zenon DEF Answer
<1>4. ASSUME NEW d \in Conns, d # c PROVE Fits(d)'
  <2>1. bpc'[d] = bpc[d]
    BY <1>1, <1>4, Zenon DEF Inv, Types
  <2>2. ptr[d] # ptr[c]
    BY <1>2, <1>4, BatchAssumption, Zenon DEF Inv, Owned
  <2>3. ptr[d] \in Addrs => heap'[ptr[d]] = heap[ptr[d]]
    BY <1>2, <2>2, Zenon DEF Stamp, Inv, Types
  <2> QED
    BY <1>1, <2>1, <2>3, OthersFit, Zenon
<1>5. Fits(c)'
  <2>1. Offers(Cur(c), heap[ptr[c]]) /\ \A i \in DOMAIN out[c] : Offers(batch[c][i], out[c][i])
    BY <1>2, Zenon DEF VInv, Fits
  <2>2. Cur(c)' = Cur(c)
    BY <1>1, Zenon DEF Cur
  <2> QED
    BY <1>1, <1>3, <2>1, <2>2, Zenon DEF Fits, Offers
<1> QED
  BY <1>4, <1>5, Zenon DEF VInv

\* appending the copy,
LEMMA AppendItemVInv == ASSUME Inv, VInv, NEW c \in Conns, AppendItem(c) PROVE VInv'
<1>1. bpc' = [bpc EXCEPT ![c] = "item"] /\ ptr' = [ptr EXCEPT ![c] = None]
        /\ pos' = [pos EXCEPT ![c] = @ + 1] /\ UNCHANGED batch
        /\ out' = [out EXCEPT ![c] = Append(@, heap[ptr[c]])]
  BY Zenon DEF AppendItem, Drop, Goto
<1>2. bpc[c] = "append" /\ ptr[c] \in Addrs /\ Len(out[c]) = pos[c] - 1 /\ pos[c] \in Nat
  BY Zenon DEF AppendItem, Inv, Owned, Counted, Active, Labels, Types
<1>3. ASSUME NEW d \in Conns, d # c PROVE Fits(d)'
  <2>1. bpc'[d] = bpc[d] /\ ptr'[d] = ptr[d] /\ pos'[d] = pos[d] /\ out'[d] = out[d]
    BY <1>1, <1>3, Zenon DEF Inv, Types
  <2>2. ptr[d] \in Addrs => heap'[ptr[d]] = heap[ptr[d]]
    BY <1>3, Zenon DEF AppendItem, Drop, Inv, Types
  <2> QED
    BY <1>1, <2>1, <2>2, OthersFit, Zenon
<1>4. Fits(c)'
  <2>1. out'[c] = Append(out[c], heap[ptr[c]]) /\ out[c] \in Seq(Answer) /\ heap[ptr[c]] \in Answer
          /\ bpc'[c] = "item"
    BY <1>1, <1>2, ZenonT(60) DEF Inv, Types
  <2>2. \A i \in DOMAIN out'[c] : \/ i \in DOMAIN out[c] /\ out'[c][i] = out[c][i]
                                  \/ i = pos[c] /\ out'[c][i] = heap[ptr[c]]
    BY <1>2, <2>1
  <2>3. Offers(batch[c][pos[c]], heap[ptr[c]]) /\ \A i \in DOMAIN out[c] : Offers(batch[c][i], out[c][i])
    BY <1>2, Zenon DEF VInv, Fits, Cur
  <2>4. \A i \in DOMAIN out'[c] : Offers(batch'[c][i], out'[c][i])
    BY <1>1, <2>2, <2>3, Zenon
  <2>5. bpc'[c] \notin {"stamp", "append"}
    BY <2>1
  <2> QED
    BY <2>4, <2>5, Zenon DEF Fits
<1> QED
  BY <1>3, <1>4, Zenon DEF VInv

\* and what the connection does.
LEMMA ConnectionVInv ==
  ASSUME Inv, VInv, NEW c \in Conns, ReadBatch(c) \/ Reply(c) \/ Connect(c)
  PROVE  VInv'
<1>1. UNCHANGED <<ptr, heap>> /\ \A d \in Conns : d # c =>
        bpc'[d] = bpc[d] /\ batch'[d] = batch[d] /\ pos'[d] = pos[d] /\ out'[d] = out[d]
  BY Zenon DEF ReadBatch, Reply, Connect, Goto, Inv, Types
<1>2. \A d \in Conns : d # c => Fits(d)'
  BY <1>1, OthersFit, Zenon
<1>3. bpc'[c] \in {"item", "idle"}
  BY Zenon DEF ReadBatch, Reply, Connect, Goto, Inv, Types
<1>4. \A i \in DOMAIN out'[c] : Offers(batch'[c][i], out'[c][i])
  <2>1. CASE ReadBatch(c)
    <3>1. out'[c] = <<>>
      BY <2>1, Zenon DEF ReadBatch, Inv, Types
    <3> QED
      BY <3>1
  <2>2. CASE Reply(c) \/ Connect(c)
    BY <2>2, ZenonT(60) DEF Reply, Connect, VInv, Fits
  <2> QED
    BY <2>1, <2>2
<1>5. Fits(c)'
  BY <1>3, <1>4 DEF Fits
<1> QED
  BY <1>2, <1>5, Zenon DEF VInv

\* What DiscoverVersionsHandler computes: the versions of both sides, all of
\* them, in the order of the server.
LEMMA CommonIs == ASSUME NEW asked PROVE InCommon(asked, Common(asked))
<1>1. Supported \in Seq(Nat) /\ DOMAIN Supported = 1 .. Len(Supported)
  BY BatchAssumption
<1>2. CASE asked = <<>>
  <2>1. Common(asked) = Supported
    BY <1>2, Zenon DEF Common
  <2> QED
    BY <1>2, <2>1, Zenon DEF InCommon, Takes
<1>3. CASE asked # <<>>
  <2> DEFINE got == Kept(Supported, Elements(asked))
  <2>1. Common(asked) = got
    BY <1>3, Zenon DEF Common
  <2>2. KeptOf(got, Supported, Elements(asked), Len(Supported))
    BY <1>1, KeptIs, Zenon
  <2>3. \A v : v \in Elements(asked) <=> Takes(asked, v)
    BY <1>3, Zenon DEF Elements, Takes
  <2> HIDE DEF got
  <2>4. \A k \in DOMAIN got : Takes(asked, got[k])
    BY <2>2, <2>3, Zenon DEF KeptOf
  <2>5. \A k \in DOMAIN Supported : Takes(asked, Supported[k]) => \E n \in DOMAIN got : got[n] = Supported[k]
    <3>1. \A k \in 1 .. Len(Supported) : Supported[k] \in Elements(asked) => \E n \in DOMAIN got : got[n] = Supported[k]
      BY <2>2, Zenon DEF KeptOf
    <3> QED
      BY <1>1, <2>3, <3>1, Zenon
  <2>6. \A n, o \in DOMAIN got : n < o =>
          \E k, l \in DOMAIN Supported : k < l /\ got[n] = Supported[k] /\ got[o] = Supported[l]
    <3>1. \A n, o \in DOMAIN got : n < o =>
            \E k, l \in 1 .. Len(Supported) : k < l /\ got[n] = Supported[k] /\ got[o] = Supported[l]
      BY <2>2, Zenon DEF KeptOf
    <3> QED
      BY <1>1, <3>1
  <2>7. InCommon(asked, got)
    BY <2>4, <2>5, <2>6, Zenon DEF InCommon
  <2> QED
    BY <2>1, <2>7, Zenon
<1> QED
  BY <1>2, <1>3, Zenon

\* The versions that DiscoverVersions answers with are supported by both sides,
\* none that is supported by both is missing, and they come in the order in which
\* the server prefers them.
THEOREM BatchVersionsCommon == Spec => []VersionsCommon
<1>1. Init => VInv
  <2> SUFFICES ASSUME Init, NEW c \in Conns PROVE Fits(c)
    BY Zenon DEF VInv
  <2>1. out[c] = <<>> /\ bpc[c] = "idle"
    BY DEF Init
  <2> QED
    BY <2>1 DEF Fits
<1>2. Inv /\ TInv /\ VInv /\ [Next]_vars => VInv'
  <2> SUFFICES ASSUME Inv, TInv, VInv, [Next]_vars PROVE VInv'
    OBVIOUS
  <2>1. CASE UNCHANGED vars
    BY <2>1, OthersFit, Zenon DEF vars, VInv
  <2> QED
    BY <2>1, HandleVInv, StampVInv, AppendItemVInv, ConnectionVInv, ZenonT(60) DEF Next
<1>3. VInv => VersionsCommon
  <2> SUFFICES ASSUME VInv, NEW c \in Conns, NEW i \in DOMAIN out[c],
                      batch[c][i].op = "DiscoverVersions", batch[c][i].payload = "ok", out[c][i].result = "ok"
               PROVE  InCommon(batch[c][i].versions, out[c][i].versions)
    BY Zenon DEF VersionsCommon
  <2>1. out[c][i].versions = Common(batch[c][i].versions)
    <3>1. batch[c][i].payload # "none"
      OBVIOUS
    <3> QED
      BY <3>1, Zenon DEF VInv, Fits, Offers, Offered
  <2> QED
    BY <2>1, CommonIs, Zenon
<1> QED
  BY <1>1, <1>2, <1>3, BatchInvariant, ToldInvariant, PTL DEF Spec
=============================================================================
