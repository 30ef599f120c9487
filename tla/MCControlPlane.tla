--------------------------- MODULE MCControlPlane ---------------------------
(***************************************************************************)
(* An instance of ControlPlane for TLC: one run of the CLI with any        *)
(* command, one that adds or switches off, one that adds or deletes.       *)
(***************************************************************************)
EXTENDS ControlPlane

CONSTANTS sha, c1, c2, c3, u1, u2, chat, r1

MCCalls  == {c1, c2, c3}
MCHashes == {<<sha, k>> : k \in InternalKeys}
MCHash   == [k \in InternalKeys |-> <<sha, k>>]

Add == [op |-> "add", route |-> chat, real |-> r1]
Del == [op |-> "del", uuid |-> u1]

MCScript ==
    [c \in MCCalls |->
        CASE c = c1 -> Commands
          [] c = c2 -> {Add, [op |-> "debug", on |-> FALSE]}
          [] OTHER  -> {Add, Del}]
=============================================================================
