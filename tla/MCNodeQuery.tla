---------------------------- MODULE MCNodeQuery -----------------------------
(***************************************************************************)
(* One reader and every kind of read, against writes and the lifecycle.    *)
(***************************************************************************)
EXTENDS NodeQuery, TLC

CONSTANTS v0, v1

Store(op, scope, parent, keys) ==
  [api |-> "store", op |-> op, scope |-> scope, parent |-> parent, keys |-> keys]

View(op, keys) ==
  [api |-> "view", op |-> op, scope |-> "session", parent |-> keys, keys |-> keys]

Meta == [api |-> "meta", op |-> "Get", scope |-> "base", parent |-> {0}, keys |-> {0}]

\* Every read of the store, the discovery of a generation and a view's reads.
ReaderRequests ==
  [r \in Readers |->
    {Store("List", "base", {1, 2}, {1, 2}),
     Store("List", "session", {1, 2}, {2}), Store("Contains", "snap", {1}, {1}),
     Meta, View("Get", {1}), View("List", {1, 2})}]

SomeWrites ==
  {[scope |-> "base", key |-> 1, value |-> v1], [scope |-> "base", key |-> 1, value |-> None],
   [scope |-> "session", key |-> 2, value |-> v1]}

\* One value does not decode until a write replaces or deletes it.
FirstContents == {1 :> Malformed @@ 2 :> v0}
=============================================================================
