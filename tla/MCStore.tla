------------------------------ MODULE MCStore -------------------------------
(* A legacy file whose second user may already be there, and an old account. *)
EXTENDS Store

User(n) == [nickname |-> n, password |-> "p"]
MCLegacy == <<User("ann"), User("bob")>>
MCOld == {[id |-> FirstUser, nickname |-> "bob", password |-> "p", password_version |-> 0]}
MCScopes == { [user |-> 1001, group |-> 2002, together |-> FALSE],
              [user |-> 1001, group |-> 2000, together |-> TRUE],
              [user |-> 1000, group |-> 2001, together |-> TRUE] }
=============================================================================
