-------------------------- MODULE MCRequestRewrite --------------------------
(***************************************************************************)
(* An instance of RequestRewrite for TLC.  The documents are a good one    *)
(* and variations on it: every streaming block over empty and non-empty    *)
(* fields, every quota over small limits, defects of metadata, names and   *)
(* references, blocks that are given twice, are null or do not decode.     *)
(***************************************************************************)
EXTENDS RequestRewrite, TLC

MCRoutePaths   == {"/a", "/b"}
MCIdentifiers  == {"claude", "openai", "pool", "None"}
MCPlanVersions == {"v1"}
MCHeaderNames  == {Cred, "X-Api-Key", "Accept-Encoding", "Content-Type", "X-Trace", "X-Forwarded-For"}

StreamUsage == <<"stream_options", "include_usage">>
Tier        == <<"tier">>

Event(chunk, path) == [chunk |-> chunk, in |-> path, out |-> path]

Split == [mode |-> "split", in |-> "", out |-> "", options |-> EmptyMap,
          input |-> Event("start", "in"), output |-> Event("delta", "out")]

LastMode == [mode |-> "last", in |-> "in", out |-> "out", input |-> None, output |-> None,
             options |-> (StreamUsage :> "true") @@ (Tier :> "batch")
                         @@ (<<"stream_options", "detail">> :> "low")]

OneShot == [in |-> "in", out |-> "out"]

Claude == [host |-> [scheme |-> "", name |-> "claude"], prefix |-> "X-Api-Key",
           usage |-> OneShot, streaming |-> Split]
OpenAI == [host |-> [scheme |-> "http", name |-> "openai"], prefix |-> "",
           usage |-> OneShot, streaming |-> LastMode]

Pool == [mode |-> "shared", daily |-> 2, monthly |-> 0]

Entry(k, v) == <<[key |-> k, val |-> v]>>

Metadata(base, plan) ==
    Entry("title", "t") \o Entry("baseUri", base) \o Entry("version", "1")
    \o Entry("plan_version", plan)

Doc(claude, openai, pool, a, b) ==
    Metadata("https", "v1")
    \o Entry("quotas", "pool" :> pool)
    \o Entry("providers", ("claude" :> claude) @@ ("openai" :> openai))
    \o Entry("/a", a) \o Entry("/b", b)

RouteA == [provider |-> "claude", quota |-> ""]
RouteB == [provider |-> "openai", quota |-> "pool"]

Good == Doc(Claude, OpenAI, Pool, RouteA, RouteB)

Events    == {None} \cup {Event(c, p) : c \in {"", "start"}, p \in {"", "in"}}
Streaming == {None} \cup [mode : {"split", "last", "first"}, in : {"", "in"}, out : {"", "out"},
                          input : Events, output : Events, options : {EmptyMap}]

MCDocuments ==
    {Malformed, Good}
    \cup {Doc([Claude EXCEPT !.streaming = s], OpenAI, Pool, RouteA, RouteB) : s \in Streaming}
    \cup {Doc(Claude, [OpenAI EXCEPT !.usage = u], Pool, RouteA, RouteB) :
             u \in {None} \cup [in : {"", "in"}, out : {"", "out"}]}
    \cup {Doc(Claude, [OpenAI EXCEPT !.host = h, !.prefix = p], Pool, RouteA, RouteB) :
             h \in {None, Malformed, OpenAI.host, Claude.host}, p \in {"", "X-Api-Key", AuthPrefix}}
    \cup {Doc(Claude, OpenAI, q, RouteA, RouteB) :
             q \in [mode : {"", "shared", "per_key"}, daily : {-1, 0, 2}, monthly : {-1, 0, 3}]}
    \cup {Doc(Claude, OpenAI, Pool, a, RouteB) :
             a \in {Malformed} \cup [provider : {"", "other", "openai"}, quota : {"", "other", "pool"}]}
    \cup {Metadata("", "v1") \o Good, Good \o Metadata("http", "v1"), Good \o Metadata("", "v1"),
          Good \o Metadata("https", "-"), SubSeq(Good, 1, 6), Entry("comment", "c") \o Good,
          Good \o Entry("quotas", "1st" :> Pool), Good \o Entry("providers", "1st" :> OpenAI),
          Good \o Entry("quotas", "other" :> Pool), Good \o Entry("providers", Malformed),
          Good \o Entry("quotas", "None" :> Pool),
          Good \o Entry("quotas", "None" :> Pool) \o Entry("/a", [RouteA EXCEPT !.quota = "None"]),
          Doc([Claude EXCEPT !.prefix = "Accept-Encoding"], OpenAI, Pool, RouteA, RouteB),
          Doc([Claude EXCEPT !.prefix = "Content-Type"], OpenAI, Pool, RouteA, RouteB),
          Doc(Claude, [OpenAI EXCEPT !.streaming.options =
                          (Tier :> "batch") @@ (<<"tier", "level">> :> "low")], Pool, RouteA, RouteB),
          Good \o Entry("quotas", None), Good \o Entry("/a", [RouteA EXCEPT !.quota = "pool"])}

MCKeyTable == [k \in {"ka", "kb"} |-> [route |-> IF k = "ka" THEN "/a" ELSE "/b", real |-> "real"]]

NoHeaders == [h \in Headers |-> <<>>]

Bearer(k) == <<<<"Bearer", k>>>>

MCHeaders ==
    {[NoHeaders EXCEPT ![Cred] = Bearer("kb"), !["Accept-Encoding"] = <<<<"gzip">>>>,
                       !["Content-Type"] = <<<<"text/plain">>>>,
                       !["X-Trace"] = <<<<"1">>, <<"2">>>>, !["X-Forwarded-For"] = <<<<"ip">>>>],
     [NoHeaders EXCEPT !["X-Api-Key"] = <<<<"ka">>>>, ![Cred] = Bearer("own"),
                       !["Accept-Encoding"] = <<<<"ka">>>>, !["Content-Type"] = <<<<"ka">>>>],
     [NoHeaders EXCEPT !["X-Api-Key"] = <<<<"kb">>, <<"ka">>>>, ![Cred] = Bearer("ka")],
     [NoHeaders EXCEPT ![Cred] = <<<<"kb">>>>]}

MCBodies ==
    {None,
     (<<"model">> :> "m"),
     (<<"stream">> :> "false") @@ (Tier :> "fast"),
     (<<"stream">> :> "true") @@ (<<"model">> :> "m") @@ (StreamUsage :> "false")
        @@ (<<"stream_options", "mine">> :> "x"),
     (<<"stream">> :> "true") @@ (<<"stream_options">> :> "null") @@ (Tier :> "fast")}

MCClients ==
    {[route |-> r, path |-> "/v1", headers |-> h, body |-> b, cut |-> c] :
        r \in MCRoutePaths, h \in MCHeaders, b \in MCBodies, c \in BOOLEAN} \
    {[route |-> r, path |-> "/v1", headers |-> h, body |-> None, cut |-> TRUE] :
        r \in MCRoutePaths, h \in MCHeaders}
=============================================================================
