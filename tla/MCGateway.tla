----------------------------- MODULE MCGateway -----------------------------
(***************************************************************************)
(* Instances of Gateway for TLC: requests 1 and 2 present key k1, request  *)
(* 3 presents k2, and request 2 is streamed; it alone may go to route code *)
(* instead of chat.  Chat has the quota of the instance, code has none;    *)
(* days 1 and 2 are in the first month, day 3 is in the second.  Request r *)
(* costs r tokens: small limits are met by some sets of requests and       *)
(* overrun by others.                                                      *)
(***************************************************************************)
EXTENDS Gateway, TLC

CONSTANTS k1, k2, chat, code, jan, feb, sha,
          lastRequest, lastDay, streamRoute, mode, dailyLimit, monthlyLimit

MCRecords == 1 .. lastRequest
MCKeys    == {k1, k2}
MCDays    == 1 .. lastDay
MCMonths  == {jan, feb}
MCMonthOf == [d \in MCDays |-> IF d < 3 THEN jan ELSE feb]

MCUsage ==
    [r \in MCRecords |->
        [key |-> IF r = 3 THEN k2 ELSE k1, route |-> IF r = 2 THEN streamRoute ELSE chat,
         prompt |-> 1, completion |-> r - 1]]

MCEstimate  == [r \in MCRecords |-> 1]
MCStreaming == {2}
MCHashes    == {<<sha, k>> : k \in MCKeys}
MCHash      == [k \in MCKeys |-> <<sha, k>>]

MCQuota ==
    [p \in Routes |->
        [mode    |-> mode,
         daily   |-> IF p = chat THEN dailyLimit ELSE 0,
         monthly |-> IF p = chat THEN monthlyLimit ELSE 0]]

(* UUIDs and upstream credentials are only ever compared for equality. *)
Symmetry == Permutations(UUIDs) \cup Permutations(RealKeys)
=============================================================================
