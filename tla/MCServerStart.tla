--------------------------- MODULE MCServerStart ---------------------------
(***************************************************************************)
(* An instance of ServerStart for TLC: two processes, each of which writes *)
(* certificates or serves, the servers with different configuration files; *)
(* an edit of one of them, to a version of another plan that is not valid. *)
(***************************************************************************)
EXTENDS ServerStart

MCVersions  == {"old", "new"}
MCValid     == {"old"}
MCPlanOf    == [v \in MCVersions |-> IF v = "old" THEN "p1" ELSE "p2"]
MCFirstApml == [f \in Paths |-> "old"]

MCScript ==
    [p \in Procs |-> {[gen |-> TRUE, path |-> Default],
                      [gen |-> FALSE, path |-> IF p = CHOOSE q \in Procs : TRUE
                                               THEN Default ELSE "other"]}]
=============================================================================
