------------------------------- MODULE MCBatch ------------------------------
(***************************************************************************)
(* Batch with two connections.  The tag Name has one name, the tag Unique  *)
(* Identifier has two.                                                     *)
(***************************************************************************)
EXTENDS Batch, TLC

MCTags == {"Name", "UniqueIdentifier"}
MCString == [t \in MCTags |-> t]
MCCanonicalName == [t \in MCTags |-> IF t = "Name" THEN "Name" ELSE "Unique Identifier"]
MCSupported == <<14, 13, 12>>
MCObjectTypes == {"SymmetricKey", "Certificate"}

Symmetry == Permutations(Conns) \cup Permutations(Addrs)

Full(op, uid, payload, type, objects, versions) ==
  [op |-> op, uid |-> uid, payload |-> payload, type |-> type, objects |-> objects, versions |-> versions]
Simple(op, uid) == Full(op, uid, "ok", None, {}, <<>>)
Register(uid, type, objects) == Full("Register", uid, "ok", type, objects, <<>>)
Discover(uid, payload, versions) == Full("DiscoverVersions", uid, payload, None, {}, versions)

MCBatches ==
  { <<>>,
    <<Simple("Custom", 1), Simple("Get", 2)>>,
    <<Register(1, "SymmetricKey", MCObjectTypes), Simple("Create", 2), Simple("Custom", 3)>>,
    <<Simple("Get20", 1), Register(2, "Certificate", {"SymmetricKey"}), Simple("Custom", 1)>>,
    <<Full("Register", 2, "none", None, {}, <<>>), Full("Destroy", 1, "bad", None, {}, <<>>)>>,
    <<Simple("Unknown", 1), Register(3, None, {})>>,
    <<Discover(1, "ok", <<12, 11, 13>>), Discover(2, "ok", <<>>)>>,
    <<Discover(2, "none", <<>>), Discover(1, "ok", <<11>>)>> }
  \cup {<<Simple(op, 1)>> : op \in {"Locate20", "Activate20", "Query20", "Revoke20", "SetAttribute20", "Destroy20"}}
=============================================================================
