----------------------------- MODULE MCKeyStore -----------------------------
(***************************************************************************)
(* An instance of ControlPlane for TLC about the key store: runs of        *)
(* `key add` for the same credential, another one, or the same on another  *)
(* route, and two runs that may delete a key, with as many keys as can be  *)
(* added.  Digests are pairs, so that the injection is visible.            *)
(***************************************************************************)
EXTENDS ControlPlane, TLC

CONSTANTS sha, c1, c2, c3, c4, u1, u2, u3, i1, i2, i3, chat, embed, r1, r2

MCCalls        == {c1, c2, c3, c4}
MCUUIDs        == {u1, u2, u3}
MCInternalKeys == {i1, i2, i3}
MCHashes       == {<<sha, k>> : k \in MCInternalKeys}
MCHash         == [k \in MCInternalKeys |-> <<sha, k>>]

Add(route, real) == [op |-> "add", route |-> route, real |-> real]
Del              == [op |-> "del", uuid |-> u1]

MCScript ==
    [c \in MCCalls |->
        CASE c = c1 -> {Add(chat, r1)}
          [] c = c2 -> {Add(chat, r1), Add(chat, r2), Add(embed, r1)}
          [] c = c3 -> {Add(chat, r1), Del}
          [] OTHER  -> {Del}]

Symmetry == Permutations({u2, u3}) \cup Permutations(MCInternalKeys)
=============================================================================
