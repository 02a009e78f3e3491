-------------------------------- MODULE Batch -------------------------------
(***************************************************************************)
(* The batch items of requests, handled by an OperationMux (requests.go)   *)
(* with the ItemHandlers of the library (op_*.go, kmip20/op_*.go) and one  *)
(* of the user's own, on several connections.  The items of a batch share  *)
(* the ID placeholder of their Request.                                    *)
(*                                                                         *)
(* The callbacks of the handlers are the user's: they return a response,   *)
(* nil or an error.  Create builds a TemplateAttribute (base_objects.go)   *)
(* for its response.  How messages come in and go out is the subject of    *)
(* RequestHandling.                                                        *)
(***************************************************************************)
EXTENDS Naturals, Sequences

CONSTANTS
  Conns,           \* connections, each with a Request
  Addrs,           \* where a ResponseBatchItem can be allocated
  Batches,         \* the batches clients send
  ObjectTypes,     \* object types that RegisterHandler recognizes
  Supported,       \* SupportedVersions of the DiscoverVersionsHandler
  Tags,            \* tags of attributes, TagUniqueIdentifier among them
  TagUniqueIdentifier,
  String,          \* the normalized name of each tag, Tag.String
  CanonicalName,   \* the canonical name of each tag
  None,            \* no value
  MaxTurns,        \* bound: batches and reconnects of a connection
  MaxAttributes    \* bound: attributes in a response

\* The operations with a handler in the library, one with a handler of the
\* user's, and one without a handler.
Ops == {"Create", "Register", "Get", "Destroy", "DiscoverVersions", "Activate20", "Destroy20", "Get20",
        "Locate20", "Query20", "Revoke20", "SetAttribute20", "Custom", "Unknown"}

\* A payload may be missing or impossible to decode.
Item == [op : Ops, uid : Nat, payload : {"ok", "bad", "none"},
         type : ObjectTypes \cup {None}, objects : SUBSET ObjectTypes, versions : Seq(Nat)]

ASSUME BatchAssumption ==
  /\ Batches \subseteq Seq(Item)
  /\ Supported \in Seq(Nat)
  /\ None \notin Addrs
  /\ MaxTurns \in Nat

VARIABLES
  setup,        \* SkipValidation of the RegisterHandler; whether the mux has an
                \* ErrorHandler, which then answers every error
  bpc,          \* where each connection is
  turn,         \* batches read and reconnects, for the bound
  batch,        \* Message.BatchItem of the Request
  pos,          \* the index of CurrentItem
  placeholder,  \* IDPlaceholder of the Request
  tmpl,         \* the TemplateAttribute that Create returns: <<>> if nil, else a list in a tuple
  ptr,          \* respItem
  heap,         \* the ResponseBatchItems
  out,          \* BatchItem of the Response
  log           \* what the callbacks did for the batch

vars == <<setup, bpc, turn, batch, pos, placeholder, tmpl, ptr, heap, out, log>>

Cur(c) == batch[c][pos[c]]

\* The Unique Identifier that a callback returns for the current item.
ID(c) == <<c, turn[c], pos[c]>>

Goto(c, l) == bpc' = [bpc EXCEPT ![c] = l]

----------------------------------------------------------------------------
(***************************************************************************)
(* TemplateAttribute.                                                      *)
(***************************************************************************)

\* The loop of Get returns at the first attribute of the name.
Get(t, s) ==
  LET I == {i \in DOMAIN t : t[i].name = s}
  IN  IF I = {} THEN None ELSE t[CHOOSE i \in I : \A j \in I : i <= j].value

GetTag(t, tag) == Get(t, String[tag])

NewAttributeFromTag(tag, idx, v) == [name |-> CanonicalName[tag], index |-> idx, value |-> v]

----------------------------------------------------------------------------
(***************************************************************************)
(* OperationMux.                                                           *)
(***************************************************************************)

NewItem == [op |-> "", uid |-> 0, result |-> "", versions |-> <<>>]

\* Connection c lets go of its item; what nobody points to is garbage.
Drop(c) ==
  /\ ptr' = [ptr EXCEPT ![c] = None]
  /\ heap' = [a \in Addrs |-> IF \E d \in Conns \ {c} : ptr[d] = a THEN heap[a] ELSE NewItem]

\* The loss of everything that was not sent: conn.serve recovers the panic and
\* closes the connection.
Panic(c) == Goto(c, "dead") /\ Drop(c)

\* Variant: one that is in use.
ReturnShared(c, result, versions) ==
  \E a \in Addrs :
    /\ heap' = [heap EXCEPT ![a] = [op |-> "", uid |-> 0, result |-> result, versions |-> versions]]
    /\ ptr' = [ptr EXCEPT ![c] = a]
    /\ Goto(c, "stamp")

\* A handler returns a new ResponseBatchItem.
Return(c, result, versions) ==
  \E a \in Addrs \ {ptr[d] : d \in Conns} :
    /\ heap' = [heap EXCEPT ![a] = [op |-> "", uid |-> 0, result |-> result, versions |-> versions]]
    /\ ptr' = [ptr EXCEPT ![c] = a]
    /\ Goto(c, "stamp")

\* bi after an error: DefaultErrorHandler only knows errors with a ResultReason.
Fail(c, reason) ==
  \/ (reason \/ setup.errorHandler) /\ Return(c, "failed", <<>>)
  \/ ~reason /\ ~setup.errorHandler /\ Panic(c)

\* The error of a callback.
CallbackFails(c) == \E reason \in BOOLEAN : Fail(c, reason)

\* The callback has done its work.
Did(c, id) == log' = [log EXCEPT ![c] = Append(@, [op |-> Cur(c).op, pos |-> pos[c], id |-> id])]

Ready(c, op) == bpc[c] = "item" /\ pos[c] \in DOMAIN batch[c] /\ Cur(c).op = op

Frame == UNCHANGED <<setup, turn, batch, pos, out>>

\* bi without a handler.
NotSupported(c) ==
  /\ Ready(c, "Unknown")
  /\ Return(c, "failed", <<>>)
  /\ UNCHANGED <<placeholder, tmpl, log>> /\ Frame

\* DecodePayload returns an error, which has no ResultReason.
DecodeFails(c) ==
  /\ \E op \in Ops \ {"Unknown", "Custom"} : Ready(c, op)
  /\ Cur(c).payload = "bad"
  /\ Fail(c, FALSE)
  /\ UNCHANGED <<placeholder, tmpl, log>> /\ Frame

----------------------------------------------------------------------------
(***************************************************************************)
(* The handlers.                                                           *)
(***************************************************************************)

\* Most handlers only pass on the payload that their callback returns.
PassOn(c, op) ==
  /\ Ready(c, op) /\ Cur(c).payload # "bad"
  /\ \/ CallbackFails(c) /\ UNCHANGED log
     \/ Did(c, None) /\ Return(c, "ok", <<>>)
  /\ UNCHANGED <<placeholder, tmpl>> /\ Frame

HandleGet(c)          == PassOn(c, "Get")
HandleDestroy(c)      == PassOn(c, "Destroy")
HandleActivate(c)     == PassOn(c, "Activate20")
HandleDestroy20(c)    == PassOn(c, "Destroy20")
HandleLocate(c)       == PassOn(c, "Locate20")
HandleQuery(c)        == PassOn(c, "Query20")
HandleRevoke(c)       == PassOn(c, "Revoke20")
HandleSetAttribute(c) == PassOn(c, "SetAttribute20")

\* Variant: the placeholder stays.
SetNothing(c, id) == UNCHANGED placeholder

\* req.IDPlaceholder = respPayload.UniqueIdentifier
SetPlaceholder(c, id) == placeholder' = [placeholder EXCEPT ![c] = id]

\* The rest of RegisterHandler and of GetHandler of 2.0; a response that is nil
\* is a panic.
Identify(c) ==
  \/ CallbackFails(c) /\ UNCHANGED <<placeholder, log>>
  \/ Did(c, ID(c)) /\ SetPlaceholder(c, ID(c)) /\ Return(c, "ok", <<>>)
  \/ Did(c, ID(c)) /\ Panic(c) /\ UNCHANGED placeholder

HandleGet20(c) ==
  /\ Ready(c, "Get20") /\ Cur(c).payload # "bad"
  /\ Identify(c)
  /\ UNCHANGED tmpl /\ Frame

\* The payload of an item that has none is empty.
Given(c) == IF Cur(c).payload = "none" THEN [type |-> None, objects |-> {}]
            ELSE [type |-> Cur(c).type, objects |-> Cur(c).objects]

\* Variant: RegisterFunc is called first.
RegisterFirst(c) ==
  /\ Ready(c, "Register") /\ Cur(c).payload # "bad"
  /\ \/ /\ ~setup.skipValidation /\ Given(c).type \notin Given(c).objects
        /\ Did(c, ID(c)) /\ Fail(c, TRUE)
        /\ UNCHANGED placeholder
     \/ /\ setup.skipValidation \/ Given(c).type \in Given(c).objects
        /\ Identify(c)
  /\ UNCHANGED tmpl /\ Frame

\* RegisterHandler: the type must be known and its object present.
HandleRegister(c) ==
  /\ Ready(c, "Register") /\ Cur(c).payload # "bad"
  /\ \/ /\ ~setup.skipValidation /\ Given(c).type \notin Given(c).objects
        /\ Fail(c, TRUE)
        /\ UNCHANGED <<placeholder, log>>
     \/ /\ setup.skipValidation \/ Given(c).type \in Given(c).objects
        /\ Identify(c)
  /\ UNCHANGED tmpl /\ Frame

\* A loop over s that appends what is in S to its result.
Kept(s, S) ==
  LET kept[n \in 0 .. Len(s)] ==
        IF n = 0 THEN <<>> ELSE IF s[n] \in S THEN Append(kept[n - 1], s[n]) ELSE kept[n - 1]
  IN  kept[Len(s)]

Elements(s) == {s[i] : i \in DOMAIN s}

\* Variant: in the order of the client.
CommonClientOrder(versions) ==
  IF versions = <<>> THEN Supported
  ELSE Kept(versions, Elements(Supported))

\* The loops of DiscoverVersionsHandler.
Common(versions) == IF versions = <<>> THEN Supported ELSE Kept(Supported, Elements(versions))

HandleDiscoverVersions(c) ==
  /\ Ready(c, "DiscoverVersions") /\ Cur(c).payload # "bad"
  /\ Did(c, None)
  /\ Return(c, "ok", Common(IF Cur(c).payload = "none" THEN <<>> ELSE Cur(c).versions))
  /\ UNCHANGED <<placeholder, tmpl>> /\ Frame

\* A handler of the user's that works on the object in the placeholder.
HandleCustom(c) ==
  /\ Ready(c, "Custom")
  /\ \/ CallbackFails(c) /\ UNCHANGED log
     \/ Did(c, placeholder[c]) /\ Return(c, "ok", <<>>)
     \/ Panic(c) /\ UNCHANGED log
  /\ UNCHANGED <<placeholder, tmpl>> /\ Frame

\* CreateHandler calls its callback, which may fail, or starts the
\* TemplateAttribute of its response, or does without.
HandleCreate(c) ==
  /\ Ready(c, "Create") /\ Cur(c).payload # "bad"
  /\ \/ CallbackFails(c) /\ UNCHANGED tmpl
     \/ /\ Goto(c, "create")
        /\ \E t \in {<<>>, <<<<>>>>} : tmpl' = [tmpl EXCEPT ![c] = t]
        /\ UNCHANGED <<ptr, heap>>
  /\ UNCHANGED <<placeholder, log>> /\ Frame

\* Append, in the callback, with the Unique Identifier or some other value; or
\* an Attribute under the normalized name.
AppendAttribute(c) ==
  /\ bpc[c] = "create" /\ tmpl[c] # <<>> /\ Len(tmpl[c][1]) < MaxAttributes
  /\ \E tag \in Tags, v \in {ID(c), <<>>} :
       \E a \in {NewAttributeFromTag(tag, 0, v), [name |-> String[tag], index |-> 1, value |-> v]} :
         tmpl' = [tmpl EXCEPT ![c] = <<Append(@[1], a)>>]
  /\ UNCHANGED <<setup, bpc, turn, batch, pos, placeholder, ptr, heap, out, log>>

\* The attribute that CreateHandler looks for.
IDAttribute(c) == IF tmpl[c] = <<>> THEN None ELSE GetTag(tmpl[c][1], TagUniqueIdentifier)

\* CreateHandler after its callback.  Without the attribute it panics; a value
\* that is no string empties the placeholder.
ReturnCreate(c) ==
  /\ bpc[c] = "create"
  /\ Did(c, ID(c))
  /\ \/ IDAttribute(c) = None /\ Panic(c) /\ UNCHANGED placeholder
     \/ IDAttribute(c) = ID(c) /\ SetPlaceholder(c, ID(c)) /\ Return(c, "ok", <<>>)
     \/ IDAttribute(c) = <<>> /\ SetPlaceholder(c, None) /\ Fail(c, FALSE)
  /\ tmpl' = [tmpl EXCEPT ![c] = <<>>]
  /\ Frame

----------------------------------------------------------------------------
(***************************************************************************)
(* HandleMessage and the connection.                                       *)
(***************************************************************************)

\* conn.readRequest and HandleMessage: a new Request.
ReadBatch(c) ==
  /\ bpc[c] = "idle" /\ turn[c] < MaxTurns
  /\ Goto(c, "item")
  /\ turn' = [turn EXCEPT ![c] = @ + 1]
  /\ \E b \in Batches : batch' = [batch EXCEPT ![c] = b]
  /\ pos' = [pos EXCEPT ![c] = 1]
  /\ SetPlaceholder(c, None)
  /\ out' = [out EXCEPT ![c] = <<>>]
  /\ log' = [log EXCEPT ![c] = <<>>]
  /\ UNCHANGED <<setup, tmpl, ptr, heap>>

\* The operation and the ID are written into the item that bi returned,
Stamp(c) ==
  /\ bpc[c] = "stamp"
  /\ heap' = [heap EXCEPT ![ptr[c]].op = Cur(c).op, ![ptr[c]].uid = Cur(c).uid]
  /\ Goto(c, "append")
  /\ UNCHANGED <<setup, turn, batch, pos, placeholder, tmpl, ptr, out, log>>

\* and a copy of the item is appended.
AppendItem(c) ==
  /\ bpc[c] = "append"
  /\ out' = [out EXCEPT ![c] = Append(@, heap[ptr[c]])]
  /\ Drop(c)
  /\ pos' = [pos EXCEPT ![c] = @ + 1]
  /\ Goto(c, "item")
  /\ UNCHANGED <<setup, turn, batch, placeholder, tmpl, log>>

\* The end of the loop: the reply goes out.
Reply(c) ==
  /\ bpc[c] = "item" /\ pos[c] = Len(batch[c]) + 1
  /\ Goto(c, "idle")
  /\ UNCHANGED <<setup, turn, batch, pos, placeholder, tmpl, ptr, heap, out, log>>

\* A new connection.
Connect(c) ==
  /\ bpc[c] = "dead" /\ turn[c] < MaxTurns
  /\ Goto(c, "idle")
  /\ turn' = [turn EXCEPT ![c] = @ + 1]
  /\ UNCHANGED <<setup, batch, pos, placeholder, tmpl, ptr, heap, out, log>>

Init ==
  /\ setup \in [skipValidation : BOOLEAN, errorHandler : BOOLEAN]
  /\ bpc = [c \in Conns |-> "idle"]
  /\ turn = [c \in Conns |-> 0]
  /\ batch = [c \in Conns |-> <<>>]
  /\ pos = [c \in Conns |-> 1]
  /\ placeholder = [c \in Conns |-> None]
  /\ tmpl = [c \in Conns |-> <<>>]
  /\ ptr = [c \in Conns |-> None]
  /\ heap = [a \in Addrs |-> NewItem]
  /\ out = [c \in Conns |-> <<>>]
  /\ log = [c \in Conns |-> <<>>]

Handle(c) ==
  \/ NotSupported(c) \/ DecodeFails(c)
  \/ HandleGet(c) \/ HandleDestroy(c) \/ HandleActivate(c) \/ HandleDestroy20(c)
  \/ HandleLocate(c) \/ HandleQuery(c) \/ HandleRevoke(c) \/ HandleSetAttribute(c)
  \/ HandleGet20(c) \/ HandleRegister(c)
  \/ HandleDiscoverVersions(c) \/ HandleCustom(c)
  \/ HandleCreate(c) \/ AppendAttribute(c) \/ ReturnCreate(c)

Next ==
  \E c \in Conns :
    ReadBatch(c) \/ Handle(c) \/ Stamp(c) \/ AppendItem(c) \/ Reply(c) \/ Connect(c)

Spec == Init /\ [][Next]_vars

----------------------------------------------------------------------------
(***************************************************************************)
(* Properties.                                                             *)
(***************************************************************************)

\* The Requests being handled at the same time do not disturb each other: see
\* BatchPromise.
Phase(l) == IF l \in {"idle", "dead"} THEN l ELSE "busy"
Promise == INSTANCE BatchPromise
             WITH phase <- [c \in Conns |-> Phase(bpc[c])], asked <- batch, answers <- out
KeepsPromise == Promise!Spec

\* The first n entries of a log that set the placeholder.
SetBy(l, n) == {k \in 1 .. n : l[k].op \in {"Create", "Register", "Get20"}}

\* id is what the last of them left there, the answers being o.
LeftBy(l, o, n, id) ==
  \/ SetBy(l, n) = {} /\ id = None
  \/ \E k \in SetBy(l, n) :
       /\ \A j \in SetBy(l, n) : j <= k
       /\ id = IF o[l[k].pos].result = "ok" THEN l[k].id ELSE None

\* What a later item of the batch does with the ID placeholder, it does to the
\* object that the last Create, Register or Get of the same batch returned, and
\* to none if there was no such item: the placeholder is not shared with other
\* requests and does not outlive its own.  A Create whose answer is a failure
\* leaves no identifier.
ActsOnOwnObject ==
  \A c \in Conns : \A i \in DOMAIN log[c] :
    log[c][i].op = "Custom" => LeftBy(log[c], out[c], i - 1, log[c][i].id)

\* What an item that is answered with success asks for was done once, and what
\* one that is answered with a failure asks for was not done.  The exception is
\* a Create whose response has something else than a string for the Unique
\* Identifier: the object exists and the client is told that it failed.
AnswersAreTrue ==
  \A c \in Conns : \A i \in DOMAIN out[c] :
    LET done == {k \in DOMAIN log[c] : log[c][k].pos = i}
    IN  \/ out[c][i].result = "ok" /\ \E k \in done : done = {k}
        \/ out[c][i].result = "failed" /\ (done = {} \/ batch[c][i].op = "Create")

\* A client that asks for no version takes any.
Takes(asked, v) == asked = <<>> \/ \E k \in DOMAIN asked : asked[k] = v

InCommon(asked, got) ==
  /\ \A k \in DOMAIN got : Takes(asked, got[k])
  /\ \A k \in DOMAIN Supported : Takes(asked, Supported[k]) => \E n \in DOMAIN got : got[n] = Supported[k]
  /\ \A n, o \in DOMAIN got : n < o =>
       \E k, l \in DOMAIN Supported : k < l /\ got[n] = Supported[k] /\ got[o] = Supported[l]

\* The versions that DiscoverVersions answers with are supported by both sides,
\* none that is supported by both is missing, and they come in the order in which
\* the server prefers them.
VersionsCommon ==
  \A c \in Conns : \A i \in DOMAIN out[c] :
    batch[c][i].op = "DiscoverVersions" /\ batch[c][i].payload = "ok" /\ out[c][i].result = "ok" =>
      InCommon(batch[c][i].versions, out[c][i].versions)

\* What the comment on Create says, op_create.go:27: "The server SHALL copy the
\* Unique Identifier returned by this operation into the ID Placeholder
\* variable".
CreateSetsPlaceholder ==
  \A c \in Conns :
    log[c] # <<>> /\ log[c][Len(log[c])].op = "Create" => placeholder[c] = log[c][Len(log[c])].id
=============================================================================
