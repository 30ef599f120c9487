--------------------------- MODULE RequestRewrite ---------------------------
(***************************************************************************)
(* One request on its way through the proxy (internal/proxy/proxy.go)      *)
(* under one configuration: the document is parsed and validated, the      *)
(* routes are set up, the key is taken from the header the provider wants, *)
(* the quota is checked, headers and body are rewritten, and the answer is *)
(* metered as the configuration says.  Requests share nothing but the      *)
(* configuration here; Gateway and UsageBackend model what they do share.  *)
(*                                                                         *)
(* A header holds a sequence of values and a value a sequence of words.  A *)
(* JSON body is a function from paths, of one or two steps, to leaves.     *)
(***************************************************************************)
EXTENDS ApmlConfig

CONSTANTS
    Headers,     \* the header names that clients send or providers ask for
    Documents,   \* configuration files
    Clients,     \* requests: route, path, headers, body, cut (reading it fails)
    KeyTable     \* the key store: internal key -> [route, real]

Cred == "Authorization"

(* Removed by httputil.ReverseProxy before Rewrite, the hop-by-hop headers *)
(* likewise.                                                               *)
Stripped == {"X-Forwarded-For"}

(* Written by Rewrite, over what is there, when it has read a body.        *)
BodyHeaders == {"Content-Type", "Accept-Encoding"}

(* A prefix of the form "authorization: ..." is handled as no prefix by    *)
(* authInterceptor, and is no header name.                                 *)
AuthPrefix == "authorization:"

ASSUME HeadersAssumption ==
    /\ {Cred} \cup BodyHeaders \cup Stripped \subseteq Headers
    /\ Headers \cap {"", AuthPrefix} = {}

ASSUME ClientsAssumption ==
    \A r \in Clients :
        /\ r.path # "" /\ r.cut \in BOOLEAN
        /\ DOMAIN r.headers = Headers
        /\ \A h \in Headers : r.headers[h] \in Seq(ToSet(r.headers[h]))
        /\ r.cut => r.body # None

ASSUME KeyTableAssumption ==
    /\ None \notin DOMAIN KeyTable
    /\ \A k \in DOMAIN KeyTable :
          KeyTable[k] = [route |-> KeyTable[k].route, real |-> KeyTable[k].real]

(* The types of types.go, for a document that is accepted. *)
Typed(c) ==
    /\ \A n \in DOMAIN c.quotas : c.quotas[n].daily \in Int /\ c.quotas[n].monthly \in Int
    /\ \A n \in DOMAIN c.providers : c.providers[n].prefix \in Headers \cup {"", AuthPrefix}

ASSUME DocumentsAssumption == \A doc \in Documents : Parse(doc) # None => Typed(Parse(doc))

VARIABLES
    config,    \* the configuration in force
    stage,     \* where the request is
    client,    \* the request as the client sent it
    record,    \* the internal key presented and what it stands for
    body,      \* the request body in memory
    out,       \* the outgoing request: headers, target, path, and the body
               \* whose length it announces
    todo,      \* the request options not yet merged
    streaming, \* c.Get("streaming")
    checked,   \* history: what the quota check did with each window
    damage     \* history: a body that was cut is in memory as if it were whole

vars == <<config, stage, client, record, body, out, todo, streaming, checked, damage>>

Windows == {"daily", "monthly"}

Init ==
    /\ stage = "start"
    /\ config = None /\ client = None /\ record = None /\ body = None /\ out = None
    /\ todo = {} /\ streaming = FALSE /\ damage = FALSE
    /\ checked = [w \in Windows |-> None]

-----------------------------------------------------------------------------
(* buildTargetURL: a host with a scheme is taken as it is, a bare one gets *)
(* the scheme of the base URI, https if it has none.                       *)
TargetURL(base, host) ==
    IF host.scheme # "" THEN host
    ELSE [host EXCEPT !.scheme = IF base = "http" THEN "http" ELSE "https"]

(* loadConfig and setupRoutes: an error ends the process. *)
Load(doc) ==
    /\ stage = "start"
    /\ \/ /\ Parse(doc) = None
          /\ stage' = "exit" /\ UNCHANGED config
       \/ /\ Parse(doc) # None
          /\ config' = Parse(doc)
          /\ stage' = IF \E p \in DOMAIN config'.routes :
                            config'.providers[config'.routes[p].provider].host = Malformed
                      THEN "exit" ELSE "ready"
    /\ UNCHANGED <<client, record, body, out, todo, streaming, checked, damage>>

Arrive(r) ==
    /\ stage = "ready"
    /\ r.route \in DOMAIN config.routes
    /\ client' = r
    /\ body' = r.body
    /\ stage' = "auth"
    /\ UNCHANGED <<config, record, out, todo, streaming, checked, damage>>

Route    == config.routes[client.route]
Provider == config.providers[Route.provider]
Custom   == Provider.prefix \notin {"", AuthPrefix}

(* The local key in the request, None if the header is missing or is not   *)
(* of the expected form; GetHeader returns the first value.                *)
Presented ==
    LET values == client.headers[IF Custom THEN Provider.prefix ELSE Cred]
    IN  IF values = <<>> THEN None
        ELSE IF Custom /\ Len(values[1]) = 1 THEN values[1][1]
        ELSE IF ~Custom /\ Len(values[1]) = 2 /\ values[1][1] = "Bearer" THEN values[1][2]
        ELSE None

(* authInterceptor up to the quota. *)
Authenticate ==
    /\ stage = "auth"
    /\ IF Presented \in DOMAIN KeyTable /\ KeyTable[Presented].route = client.route
       THEN /\ record' = [local |-> Presented, real |-> KeyTable[Presented].real]
            /\ stage' = IF Route.quota = "" THEN "rewrite" ELSE "quota"
       ELSE UNCHANGED record /\ stage' = "refused"
    /\ UNCHANGED <<config, client, body, out, todo, streaming, checked, damage>>

(* What is in memory of a body that is read: some of its fields where the  *)
(* reading fails halfway, and an empty body where there is none.           *)
Read(json, cut) ==
    IF json = None THEN {EmptyMap}
    ELSE IF cut THEN {[f \in kept |-> json[f]] : kept \in SUBSET DOMAIN json}
    ELSE {json}

(* A body is a JSON object, and so is what is in memory of it. *)
ASSUME BodiesAssumption ==
    \A r \in Clients :
        /\ r.body # None => r.body = [f \in DOMAIN r.body |-> r.body[f]]
        /\ None \notin Read(r.body, r.cut)

(* The quota branch of authInterceptor: the body is read, its read error   *)
(* ignored.                                                                *)
ReadForQuota ==
    /\ stage = "quota"
    /\ body' \in Read(body, client.cut)
    /\ damage' = client.cut
    /\ stage' = "daily"
    /\ UNCHANGED <<config, client, record, out, todo, streaming, checked>>

(* Mutant: a daily limit that is kept lets the request through at once. *)
QuotaCheckDailyDecides(w) ==
    /\ stage = w
    /\ LET quota   == QuotaOf(config, client.route)
           scope   == IF quota.mode = "shared" THEN "shared" ELSE "per_key"
           Saw(is) == checked' = [checked EXCEPT ![w] = [scope |-> scope, is |-> is]]
           next    == IF w = "daily" THEN "monthly" ELSE "rewrite"
       IN  \/ quota[w] <= 0 /\ stage' = next /\ UNCHANGED checked
           \/ quota[w] > 0 /\ stage' = "rewrite" /\ Saw("within")
           \/ quota[w] > 0 /\ stage' = "denied" /\ Saw("exceeded")
           \/ quota[w] > 0 /\ stage' = "rewrite" /\ Saw("failed")
    /\ UNCHANGED <<config, client, record, body, out, todo, streaming, damage>>

(* One window of QuotaCheck, the daily one first.  What is used of it may  *)
(* be whatever it is (Gateway computes it), and the query for it may fail: *)
(* then the request is let through, whatever has not been checked yet.     *)
QuotaCheck(w) ==
    /\ stage = w
    /\ LET quota   == QuotaOf(config, client.route)
           scope   == IF quota.mode = "shared" THEN "shared" ELSE "per_key"
           Saw(is) == checked' = [checked EXCEPT ![w] = [scope |-> scope, is |-> is]]
           next    == IF w = "daily" THEN "monthly" ELSE "rewrite"
       IN  \/ quota[w] <= 0 /\ stage' = next /\ UNCHANGED checked
           \/ quota[w] > 0 /\ stage' = next /\ Saw("within")
           \/ quota[w] > 0 /\ stage' = "denied" /\ Saw("exceeded")
           \/ quota[w] > 0 /\ stage' = "rewrite" /\ Saw("failed")
    /\ UNCHANGED <<config, client, record, body, out, todo, streaming, damage>>

-----------------------------------------------------------------------------
Cloned(h) == IF h \in Stripped THEN <<>> ELSE client.headers[h]

CredentialSet(hs) ==
    IF Provider.prefix # "" THEN [hs EXCEPT ![Provider.prefix] = <<<<record.real>>>>]
    ELSE [hs EXCEPT ![Cred] = <<<<"Bearer", record.real>>>>]

(* The header loop of Rewrite: the outgoing request is a copy already, so  *)
(* a value that is passed on is there twice.                               *)
HeadersCopied ==
    [h \in Headers \cup {AuthPrefix} |->
        IF h = AuthPrefix THEN <<>>
        ELSE IF h \in {Cred, Provider.prefix} THEN Cloned(h)
        ELSE Cloned(h) \o client.headers[h]]

Truthy(json) == <<"stream">> \in DOMAIN json /\ json[<<"stream">>] \in {"true", "1"}

(* The body can be read to its end: it is in memory, or the client sends   *)
(* all of it.                                                              *)
Readable == ~client.cut \/ Route.quota # ""

(* Rewrite up to the options: headers, target and, if there is a body that *)
(* can be read, whether it asks for a stream.  Without, the outgoing       *)
(* request is done and keeps the client's body, whose error the transport  *)
(* meets again.                                                            *)
Rewrite ==
    /\ stage = "rewrite"
    /\ out' = [headers |-> CredentialSet(HeadersCopied),
               target  |-> TargetURL(config.baseUri, Provider.host),
               path    |-> client.path,
               length  |-> client.body]
    /\ streaming' = (body # None /\ Readable /\ Truthy(body))
    /\ todo' = IF streaming' /\ Provider.streaming # None
               THEN DOMAIN Provider.streaming.options ELSE {}
    /\ damage' = (client.cut /\ Readable)
    /\ stage' = IF body # None /\ Readable THEN "merge" ELSE "send"
    /\ UNCHANGED <<config, client, record, body, checked>>

(* sjson.SetBytes: containers and leaves in the way are replaced. *)
InTheWay(p, q) == IsPrefix(p, q) \/ IsPrefix(q, p)

SetPath(json, p, leaf) ==
    [q \in {p} \cup {q \in DOMAIN json : ~InTheWay(p, q)} |-> IF q = p THEN leaf ELSE json[q]]

(* Mutant: an option replaces the whole field it is part of. *)
MergeWholeField(p) ==
    /\ stage = "merge" /\ p \in todo
    /\ body' = SetPath([q \in {q \in DOMAIN body : q[1] # p[1]} |-> body[q]], p,
                       Provider.streaming.options[p])
    /\ todo' = todo \ {p}
    /\ UNCHANGED <<config, stage, client, record, out, streaming, checked, damage>>

(* executeMergeOptionsInline: one option after another, in the order in    *)
(* which Go happens to iterate over the maps.                              *)
Merge(p) ==
    /\ stage = "merge" /\ p \in todo
    /\ body' = SetPath(body, p, Provider.streaming.options[p])
    /\ todo' = todo \ {p}
    /\ UNCHANGED <<config, stage, client, record, out, streaming, checked, damage>>

(* The headers that go with a body in memory: whatever the client sent, it *)
(* is JSON, and the answer is not to be compressed.                        *)
WithBody(hs) ==
    [h \in DOMAIN hs |-> CASE h = "Content-Type"    -> <<<<"application/json">>>>
                          [] h = "Accept-Encoding" -> <<>>
                          [] OTHER                 -> hs[h]]

(* The end of Rewrite: the body and what goes with it.  Content-Length and *)
(* Host are set as headers too, which the transport does not look at.      *)
SetBody ==
    /\ stage = "merge" /\ todo = {}
    /\ out' = [out EXCEPT !.headers = WithBody(@), !.length = body]
    /\ stage' = "send"
    /\ UNCHANGED <<config, client, record, body, todo, streaming, checked, damage>>

(* The transport: it refuses an invalid header name, a body that cannot be *)
(* read ends the request, and the upstream may be out of reach (502).      *)
Send ==
    /\ stage = "send"
    /\ \/ stage' = "failed"
       \/ /\ out.headers[AuthPrefix] = <<>> /\ (client.cut => Readable)
          /\ stage' = "sent"
    /\ UNCHANGED <<config, client, record, body, out, todo, streaming, checked, damage>>

(* What the parsers of an answer make of the configuration: a missing      *)
(* usage block is a nil pointer; without a path, or a block for streams,   *)
(* nothing is counted.                                                     *)
ParseStandardJSON(u) ==
    IF u = None THEN "panic" ELSE IF u.in # "" /\ u.out # "" THEN "metered" ELSE "blind"

ParseStreamReader(s) ==
    IF /\ s # None
       /\ \/ s.mode = "last" /\ s.in # "" /\ s.out # ""
          \/ /\ s.mode = "split" /\ s.input # None /\ s.output # None
             /\ s.input.chunk # "" /\ s.input.in # ""
             /\ s.output.chunk # "" /\ s.output.out # ""
    THEN "metered" ELSE "blind"

(* ModifyResponse with status 200. *)
Answer ==
    /\ stage = "sent"
    /\ stage' = IF streaming THEN ParseStreamReader(Provider.streaming)
                             ELSE ParseStandardJSON(Provider.usage)
    /\ UNCHANGED <<config, client, record, body, out, todo, streaming, checked, damage>>

Next ==
    \/ \E doc \in Documents : Load(doc)
    \/ \E r \in Clients : Arrive(r)
    \/ Authenticate
    \/ ReadForQuota
    \/ \E w \in Windows : QuotaCheck(w)
    \/ Rewrite
    \/ \E p \in todo : Merge(p)
    \/ SetBody
    \/ Send
    \/ Answer

Spec == Init /\ [][Next]_vars

-----------------------------------------------------------------------------
Forwarded == stage \in {"sent", "metered", "blind", "panic"}

(* What validate lets through, the consumers can work with: a request of a *)
(* configured route finds its provider (else handleReverseProxy panics), a *)
(* forwarded request is metered with the paths of both counts, one-shot or *)
(* streamed, and no parser meets a block that is not there.                *)
ValidConfigMeters ==
    /\ stage \notin {"start", "exit"} =>
          \A p \in DOMAIN config.routes : config.routes[p].provider \in DOMAIN config.providers
    /\ stage \notin {"blind", "panic"}

(* What `route list` and `quota list` say is what is enforced: a denial    *)
(* comes from a limit that is shown as applied to the route and was        *)
(* exceeded in the scope of the mode shown; and a request is forwarded on  *)
(* a route only after each limit shown was compared with in that scope and *)
(* found kept, and no other was, but for the one way around it, the        *)
(* database that fails: then the failed window, and the monthly one after  *)
(* a failed daily one, have not been compared.  A quota of the name "None" *)
(* is shown for the routes without a quota too.                            *)
Shown ==
    {q \in ListQuotas(config) : \E r \in ListRoutes(config) :
        r.uri = client.route /\ r.quota = q.name}

EnforcedAsListed ==
    /\ stage = "denied" =>
          \E q \in Shown, w \in Windows :
              /\ q.status = "APPLIED" /\ q[w] # 0
              /\ checked[w] = [scope |-> q.mode, is |-> "exceeded"]
    /\ Forwarded =>
          \A q \in Shown, w \in Windows : (q.name = "None" => Route.quota # "") =>
              LET Saw(v, is) == checked[v] = [scope |-> q.mode, is |-> is]
              IN  IF q[w] = 0 THEN checked[w] = None
                  ELSE \/ Saw(w, "within") \/ Saw(w, "failed")
                       \/ w = "monthly" /\ Saw("daily", "failed") /\ checked[w] = None

(* The proxy has a body in memory, if an empty one, when it rewrites a     *)
(* request.                                                                *)
Rewritten == client.body # None \/ Route.quota # ""

(* The upstream gets the credential of the record that the presented key   *)
(* stands for on this route, once, in the header it expects (unless that   *)
(* is one that Rewrite writes to afterwards).                              *)
CredentialReplaced ==
    LET k == IF Custom THEN client.headers[Provider.prefix] ELSE client.headers[Cred]
    IN  /\ ~(Rewritten /\ Provider.prefix \in BodyHeaders) =>
              out.headers[IF Custom THEN Provider.prefix ELSE Cred] =
              <<IF Custom THEN <<record.real>> ELSE <<"Bearer", record.real>>>>
        /\ k # <<>> /\ Last(k[1]) \in DOMAIN KeyTable
        /\ KeyTable[Last(k[1])] = [route |-> client.route, real |-> record.real]

(* The other headers: all values of each and no others, but for those that *)
(* Rewrite sets with a body.  Where the key has a header of its own, the   *)
(* client's Authorization is one of them and reaches the upstream: the     *)
(* loop of Rewrite does not add it, but the outgoing request is a copy,    *)
(* which has it already.                                                   *)
OthersKept ==
    /\ \A h \in Headers \ ({Provider.prefix} \cup (IF Custom THEN {} ELSE {Cred})
                           \cup (IF Rewritten THEN BodyHeaders ELSE {})) :
          ToSet(out.headers[h]) = ToSet(client.headers[h])
    /\ Rewritten => /\ out.headers["Content-Type"] = <<<<"application/json">>>>
                    /\ out.headers["Accept-Encoding"] = <<>>

(* The options are the leaves of one YAML map: one is in the way of        *)
(* another only if a key has a dot, which sjson takes for two steps.  Then *)
(* the result depends on the order of the merge.                           *)
Independent(options) == \A p, q \in DOMAIN options : p # q => ~InTheWay(p, q)

(* A body with the options of a streamed request: what they set, and the   *)
(* client's other fields.                                                  *)
Merged(json, options) ==
    [q \in DOMAIN options \cup {q \in DOMAIN json : \A p \in DOMAIN options : ~InTheWay(p, q)}
        |-> IF q \in DOMAIN options THEN options[q] ELSE json[q]]

(* A request is forwarded as the client meant it: with the real credential *)
(* in place of its key; with its other headers, of which a body in memory  *)
(* overrides the type, with JSON, and the leave to compress the answer,    *)
(* which the parsers could not read then; with its body, to which a stream *)
(* adds the provider's options, if these are independent, whatever the     *)
(* order of the merge; and with the length of what is sent.  A body of     *)
(* which a part is missing is passed on as if it were whole only where the *)
(* quota check has read it.                                                *)
ForwardedAsMeant ==
    Forwarded =>
        /\ CredentialReplaced
        /\ OthersKept
        /\ ~damage /\ (streaming => Independent(Provider.streaming.options)) =>
              body \in IF streaming THEN {Merged(client.body, Provider.streaming.options)}
                       ELSE {client.body} \cup Read(client.body, FALSE)
        /\ out.length = body
        /\ damage => Route.quota # ""
=============================================================================
