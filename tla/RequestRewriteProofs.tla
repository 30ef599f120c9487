------------------------ MODULE RequestRewriteProofs ------------------------
(***************************************************************************)
(* Proofs about the request path, for any set of configuration documents,  *)
(* clients, header names and keys.  What the decoder makes of a document   *)
(* enters through Valid, which Parse has checked, and through the types of *)
(* types.go (DocumentsAssumption).                                         *)
(***************************************************************************)
EXTENDS RequestRewrite, TLAPS

(* What QuotaCheck has made of a window: its limit is kept, or there is    *)
(* none, or the query for what is used of it has failed.                   *)
Quota      == QuotaOf(config, client.route)
Scope      == IF Quota.mode = "shared" THEN "shared" ELSE "per_key"
Saw(w, is) == checked[w] = [scope |-> Scope, is |-> is]
Kept(w)    == IF Quota[w] > 0 THEN Saw(w, "within") ELSE checked[w] = None
Failed(w)  == Quota[w] > 0 /\ Saw(w, "failed")

(* Some of the options of a stream. *)
Only(options, done) == [p \in done |-> options[p]]

(* The header of the request that carries the key. *)
KeyHeader == IF Custom THEN Provider.prefix ELSE Cred

Sending == stage \in {"merge", "send", "sent", "failed", "metered"}

(* Every stage there is: no parser goes blind or panics. *)
StageInv ==
    stage \in {"start", "exit", "ready", "auth", "refused", "quota", "daily", "monthly",
               "denied", "rewrite", "merge", "send", "sent", "failed", "metered"}

(* The configuration in force was validated. *)
ConfigInv == stage \notin {"start", "exit"} => Valid(config) /\ Typed(config)

(* A request in progress is one of a configured route. *)
ClientInv ==
    stage \notin {"start", "exit", "ready"} =>
        client \in Clients /\ client.route \in DOMAIN config.routes

(* Past authentication, the record is the one of the presented key. *)
KeyInv ==
    stage \in {"quota", "daily", "monthly", "denied", "rewrite"} \/ Sending =>
        /\ Presented \in DOMAIN KeyTable
        /\ KeyTable[Presented] = [route |-> client.route, real |-> record.real]

(* What has been checked of the quota of the route, and what denies.       *)
QuotaInv ==
    /\ stage \in {"start", "exit", "ready", "auth", "quota", "daily"} =>
          checked = [w \in Windows |-> None]
    /\ DOMAIN checked = Windows
    /\ stage \in {"quota", "daily", "monthly", "denied"} => Route.quota # ""
    /\ stage = "monthly" => Kept("daily") /\ checked["monthly"] = None
    /\ stage = "denied" => \E w \in Windows : Quota[w] > 0 /\ Saw(w, "exceeded")
    /\ (stage = "rewrite" \/ Sending) /\ Route.quota # "" =>
          \/ Kept("daily") /\ (Kept("monthly") \/ Failed("monthly"))
          \/ Failed("daily") /\ checked["monthly"] = None

(* The body in memory before the outgoing request is built. *)
BodyInv ==
    /\ stage \in {"auth", "quota"} => body = client.body
    /\ stage \in {"daily", "monthly", "rewrite"} =>
          IF Route.quota = "" THEN body = client.body ELSE body \in Read(client.body, client.cut)

(* The headers and the length of the outgoing request, before and after    *)
(* what goes with the body is set.                                         *)
OutInv ==
    /\ DOMAIN out = {"headers", "target", "path", "length"}
    /\ out.headers = IF stage # "merge" /\ Rewritten /\ Readable
                     THEN WithBody(CredentialSet(HeadersCopied))
                     ELSE CredentialSet(HeadersCopied)
    /\ stage # "merge" => out.length = body

(* The body of the outgoing request: the options that are not to do any    *)
(* more have been merged.                                                  *)
MergeInv ==
    LET options == Provider.streaming.options
    IN  /\ damage = (client.cut /\ Readable)
        /\ streaming \in BOOLEAN
        /\ todo \subseteq (IF streaming THEN DOMAIN options ELSE {})
        /\ stage # "merge" => todo = {}
        /\ stage = "merge" => Rewritten /\ Readable
        /\ ~client.cut =>
              IF streaming
              THEN Independent(options) =>
                      body = Merged(client.body, Only(options, DOMAIN options \ todo))
              ELSE body \in {client.body} \cup Read(client.body, FALSE)

SendInv ==
    /\ Sending => OutInv /\ MergeInv
    /\ stage \in {"sent", "metered"} =>
          out.headers[AuthPrefix] = <<>> /\ (client.cut => Readable)

PathInv ==
    StageInv /\ ConfigInv /\ ClientInv /\ KeyInv /\ QuotaInv /\ BodyInv /\ SendInv

-----------------------------------------------------------------------------
(* What is accepted is valid and typed. *)
LEMMA Accepted ==
    ASSUME NEW doc \in Documents, Parse(doc) # None
    PROVE  Valid(Parse(doc)) /\ Typed(Parse(doc))
  BY DocumentsAssumption DEF Parse

(* What the invariant of the configuration says of a request's route. *)
LEMMA RouteFacts ==
    ASSUME Valid(config), Typed(config), client \in Clients,
           client.route \in DOMAIN config.routes
    PROVE  /\ UsageValid(Provider.usage) /\ StreamingValid(Provider.streaming)
           /\ Provider.prefix \in Headers \cup {"", AuthPrefix}
           /\ Route.quota # "" => /\ Route.quota \in DOMAIN config.quotas
                                 /\ QuotaOf(config, client.route) = config.quotas[Route.quota]
                                 /\ QuotaValid(Route.quota, config.quotas[Route.quota])
                                 /\ config.quotas[Route.quota].daily \in Int
                                 /\ config.quotas[Route.quota].monthly \in Int
  <1>1. RouteValid(config, Route) /\ Route.provider \in DOMAIN config.providers
    BY DEF Valid, RouteValid, Route
  <1>2. ProviderValid(Route.provider, Provider)
    BY <1>1 DEF Valid, Provider
  <1>3. Provider.prefix \in Headers \cup {"", AuthPrefix}
    BY <1>1 DEF Typed, Provider
  <1>4. Route.quota # "" => /\ Route.quota \in DOMAIN config.quotas
                            /\ QuotaOf(config, client.route) = config.quotas[Route.quota]
                            /\ QuotaValid(Route.quota, config.quotas[Route.quota])
                            /\ config.quotas[Route.quota].daily \in Int
                            /\ config.quotas[Route.quota].monthly \in Int
    BY <1>1 DEF RouteValid, QuotaOf, Route, Valid, Typed
  <1>. QED
    BY <1>2, <1>3, <1>4 DEF ProviderValid

(* A value that is there twice, or was removed and added again, is there. *)
LEMMA Doubled ==
    ASSUME NEW S, NEW s \in Seq(S)
    PROVE  ToSet(s \o s) = ToSet(s) /\ ToSet(<<>> \o s) = ToSet(s)
  <1>1. <<>> \o s = s
    OBVIOUS
  <1>2. /\ DOMAIN (s \o s) = 1 .. (Len(s) + Len(s)) /\ DOMAIN s = 1 .. Len(s)
        /\ Len(s) \in Nat
        /\ \A i \in 1 .. (Len(s) + Len(s)) :
              (s \o s)[i] = IF i <= Len(s) THEN s[i] ELSE s[i - Len(s)]
    OBVIOUS
  <1>3. ASSUME NEW x \in ToSet(s \o s) PROVE x \in ToSet(s)
    <2>1. PICK i \in 1 .. (Len(s) + Len(s)) : x = (s \o s)[i]
      BY <1>2, <1>3 DEF ToSet
    <2>. QED
      BY <1>2, <2>1 DEF ToSet
  <1>4. ASSUME NEW x \in ToSet(s) PROVE x \in ToSet(s \o s)
    <2>1. PICK i \in 1 .. Len(s) : x = s[i]
      BY <1>2, <1>4 DEF ToSet
    <2>2. i \in DOMAIN (s \o s) /\ (s \o s)[i] = x
      BY <1>2, <2>1
    <2>. QED
      BY <2>2 DEF ToSet
  <1>. QED
    BY <1>1, <1>3, <1>4

(* One more option merged, whatever was merged before, where none is in    *)
(* the way of another.                                                     *)
LEMMA OneMore ==
    ASSUME NEW json, NEW options, NEW done, done \subseteq DOMAIN options,
           NEW p \in DOMAIN options, p \notin done,
           Independent(options)
    PROVE  SetPath(Merged(json, Only(options, done)), p, options[p]) =
              Merged(json, Only(options, done \cup {p}))
  <1>. DEFINE before == Merged(json, Only(options, done))
              kept(D) == {q \in DOMAIN json : \A d \in D : ~InTheWay(d, q)}
              set     == {p} \cup {q \in DOMAIN before : ~InTheWay(p, q)}
              more    == done \cup {p}
  <1>1. /\ DOMAIN before = done \cup kept(done)
        /\ \A q \in done : before[q] = options[q]
        /\ \A q \in kept(done) \ done : before[q] = json[q]
    BY DEF Merged, Only
  <1>. HIDE DEF before
  <1>2. Merged(json, Only(options, more)) =
          [q \in more \cup kept(more) |-> IF q \in more THEN options[q] ELSE json[q]]
    BY DEF Merged, Only
  <1>3. set = more \cup kept(more)
    BY <1>1 DEF Independent
  <1>4. \A q \in set : (IF q = p THEN options[p] ELSE before[q]) =
                       (IF q \in more THEN options[q] ELSE json[q])
    BY <1>1
  <1>5. SetPath(before, p, options[p]) =
          [q \in set |-> IF q = p THEN options[p] ELSE before[q]]
    BY DEF SetPath
  <1>. HIDE DEF set, kept, more
  <1>6. SetPath(before, p, options[p]) = Merged(json, Only(options, more))
    BY <1>2, <1>3, <1>4, <1>5
  <1>. QED
    BY <1>6 DEF before, more

(* Before the first option and after the last one. *)
LEMMA FirstAndLast ==
    ASSUME NEW json, NEW options
    PROVE  /\ json = [f \in DOMAIN json |-> json[f]] => Merged(json, Only(options, {})) = json
           /\ Merged(json, Only(options, DOMAIN options)) = Merged(json, options)
  <1>1. Merged(json, Only(options, {})) = [f \in DOMAIN json |-> json[f]]
    BY DEF Merged, Only
  <1>2. DOMAIN Only(options, DOMAIN options) = DOMAIN options
    BY DEF Only
  <1>3. \A p \in DOMAIN options : Only(options, DOMAIN options)[p] = options[p]
    BY DEF Only
  <1>4. Merged(json, Only(options, DOMAIN options)) = Merged(json, options)
    BY <1>2, <1>3 DEF Merged
  <1>. QED
    BY <1>1, <1>4

-----------------------------------------------------------------------------
(* What is read off the configuration and the request stays. *)
LEMMA Same ==
    ASSUME UNCHANGED <<config, client>>
    PROVE  /\ Route' = Route /\ Provider' = Provider /\ (Custom' <=> Custom)
           /\ Presented' = Presented /\ KeyHeader' = KeyHeader
           /\ (Readable' <=> Readable) /\ (Rewritten' <=> Rewritten)
           /\ Quota' = Quota /\ Scope' = Scope
  <1>1. Route' = Route /\ Quota' = Quota
    BY DEF Route, Quota, QuotaOf
  <1>2. Provider' = Provider /\ Scope' = Scope
    BY <1>1 DEF Provider, Scope
  <1>3. (Custom' <=> Custom) /\ (Readable' <=> Readable) /\ (Rewritten' <=> Rewritten)
    BY <1>1, <1>2 DEF Custom, Readable, Rewritten
  <1>. QED
    BY <1>1, <1>2, <1>3 DEF Presented, KeyHeader

(* The headers that Rewrite makes of a request stay too. *)
LEMMA SameHeaders ==
    ASSUME UNCHANGED <<config, client, record>>
    PROVE  CredentialSet(HeadersCopied)' = CredentialSet(HeadersCopied)
  <1>1. Provider' = Provider
    BY Same
  <1>2. HeadersCopied' = HeadersCopied
    BY <1>1 DEF HeadersCopied, Cloned
  <1>. QED
    BY <1>1, <1>2 DEF CredentialSet

(* What has been checked of the quota stays known. *)
LEMMA QuotaKept ==
    ASSUME QuotaInv, UNCHANGED <<config, client, checked>>,
           stage = "rewrite" \/ Sending, Sending'
    PROVE  QuotaInv'
  <1>1. stage' \notin {"start", "exit", "ready", "auth", "quota", "daily", "monthly", "denied"}
    BY DEF Sending
  <1>. QED
    BY <1>1, Same DEF QuotaInv, Kept, Failed, Saw

(* There is no configuration and no request at the start. *)
LEMMA PathInit == Init => PathInv
  BY DEF Init, PathInv, StageInv, ConfigInv, ClientInv, KeyInv, QuotaInv, BodyInv, SendInv, Sending

LEMMA LoadInv ==
    ASSUME PathInv, NEW doc \in Documents, Load(doc)
    PROVE  PathInv'
  <1>1. /\ stage' = "exit" \/ (stage' = "ready" /\ Parse(doc) # None /\ config' = Parse(doc))
        /\ stage = "start" /\ UNCHANGED checked
    BY DEF Load
  <1>2. ConfigInv'
    BY <1>1, Accepted DEF ConfigInv
  <1>. QED
    BY <1>1, <1>2 DEF PathInv, StageInv, ClientInv, KeyInv, QuotaInv, BodyInv, SendInv, Sending

LEMMA ArriveInv ==
    ASSUME PathInv, NEW r \in Clients, Arrive(r)
    PROVE  PathInv'
  <1>1. /\ stage = "ready" /\ stage' = "auth" /\ client' = r /\ body' = r.body
        /\ r.route \in DOMAIN config.routes /\ config' = config /\ UNCHANGED checked
    BY DEF Arrive
  <1>. QED
    BY <1>1 DEF PathInv, StageInv, ConfigInv, ClientInv, KeyInv, QuotaInv, BodyInv, SendInv, Sending

LEMMA AuthenticateInv ==
    ASSUME PathInv, Authenticate
    PROVE  PathInv'
  <1>1. /\ stage = "auth" /\ UNCHANGED <<config, client, body, checked>> /\ body = client.body
    BY DEF Authenticate, PathInv, BodyInv
  <1>2. ConfigInv' /\ ClientInv'
    BY <1>1 DEF PathInv, ConfigInv, ClientInv
  <1>3. CASE Presented \in DOMAIN KeyTable /\ KeyTable[Presented].route = client.route
    <2>1. /\ record' = [local |-> Presented, real |-> KeyTable[Presented].real]
          /\ Route.quota = "" => stage' = "rewrite"
          /\ Route.quota # "" => stage' = "quota"
      BY <1>3 DEF Authenticate
    <2>2. KeyInv'
      BY <1>1, <1>3, <2>1, Same, KeyTableAssumption DEF KeyInv
    <2>3. QuotaInv' /\ BodyInv'
      BY <1>1, <2>1, Same DEF PathInv, QuotaInv, BodyInv, Sending
    <2>. QED
      BY <1>2, <2>1, <2>2, <2>3 DEF PathInv, StageInv, SendInv, Sending
  <1>4. CASE ~(Presented \in DOMAIN KeyTable /\ KeyTable[Presented].route = client.route)
    <2>1. stage' = "refused"
      BY <1>4 DEF Authenticate
    <2>. QED
      BY <1>1, <1>2, <2>1 DEF PathInv, StageInv, KeyInv, QuotaInv, BodyInv, SendInv, Sending
  <1>. QED
    BY <1>3, <1>4

LEMMA ReadForQuotaInv ==
    ASSUME PathInv, ReadForQuota
    PROVE  PathInv'
  <1>1. /\ stage = "quota" /\ stage' = "daily" /\ UNCHANGED <<config, client, record, checked>>
        /\ body' \in Read(body, client.cut) /\ body = client.body
        /\ Route.quota # ""
    BY DEF ReadForQuota, PathInv, BodyInv, QuotaInv
  <1>2. ConfigInv' /\ ClientInv' /\ KeyInv'
    BY <1>1, Same DEF PathInv, ConfigInv, ClientInv, KeyInv
  <1>3. QuotaInv'
    BY <1>1, Same DEF PathInv, QuotaInv, Sending
  <1>4. BodyInv'
    BY <1>1, Same DEF BodyInv
  <1>. QED
    BY <1>1, <1>2, <1>3, <1>4 DEF PathInv, StageInv, SendInv, Sending

(* One window of QuotaCheck: the limits before it were kept, and what it   *)
(* makes of its own decides where the request goes.                        *)
LEMMA QuotaCheckInv ==
    ASSUME PathInv, NEW w \in Windows, QuotaCheck(w)
    PROVE  PathInv'
  <1>1. /\ stage = w /\ w \in {"daily", "monthly"}
        /\ UNCHANGED <<config, client, record, body>>
        /\ Route.quota # "" /\ QuotaInv /\ DOMAIN checked = Windows
    BY DEF QuotaCheck, PathInv, QuotaInv, Windows
  <1>. DEFINE next   == IF w = "daily" THEN "monthly" ELSE "rewrite"
              see(is) == checked' = [checked EXCEPT ![w] = [scope |-> Scope, is |-> is]]
  <1>2. \/ ~(Quota[w] > 0) /\ stage' = next /\ UNCHANGED checked
        \/ Quota[w] > 0 /\ stage' = next /\ see("within")
        \/ Quota[w] > 0 /\ stage' = "denied" /\ see("exceeded")
        \/ Quota[w] > 0 /\ stage' = "rewrite" /\ see("failed")
    <2>1. Quota[w] \in Int
      BY <1>1, RouteFacts DEF PathInv, ConfigInv, ClientInv, Quota, Windows
    <2>. QED
      BY <2>1 DEF QuotaCheck, Quota, Scope
  <1>3. Quota' = Quota /\ Scope' = Scope /\ Route' = Route
    BY <1>1, Same
  <1>4. \A v \in Windows \ {w} : checked'[v] = checked[v]
    BY <1>1, <1>2
  <1>5. DOMAIN checked' = Windows
    BY <1>1, <1>2
  <1>6. \/ Kept(w)' /\ stage' = next
        \/ (Quota[w] > 0 /\ Saw(w, "exceeded"))' /\ stage' = "denied"
        \/ Failed(w)' /\ stage' = "rewrite"
    <2>1. w = "daily" \/ w = "monthly" => checked[w] = None
      BY <1>1 DEF QuotaInv, Windows
    <2>2. w \in DOMAIN checked
      BY <1>1
    <2>3. CASE ~(Quota[w] > 0) /\ stage' = next /\ UNCHANGED checked
      BY <1>1, <1>3, <2>1, <2>3 DEF Kept
    <2>4. CASE Quota[w] > 0 /\ stage' = next /\ see("within")
      BY <1>3, <2>2, <2>4 DEF Kept, Saw
    <2>5. CASE Quota[w] > 0 /\ stage' = "denied" /\ see("exceeded")
      BY <1>3, <2>2, <2>5 DEF Saw
    <2>6. CASE Quota[w] > 0 /\ stage' = "rewrite" /\ see("failed")
      BY <1>3, <2>2, <2>6 DEF Failed, Saw
    <2>. QED
      BY <1>2, <2>3, <2>4, <2>5, <2>6
  <1>7. QuotaInv'
    <2>1. CASE w = "daily"
      <3>1. checked["monthly"] = None /\ checked'["monthly"] = None
        BY <1>1, <1>4, <2>1 DEF QuotaInv, Windows
      <3>. QED
        BY <1>1, <1>3, <1>5, <1>6, <2>1, <3>1 DEF QuotaInv, Sending
    <2>2. CASE w = "monthly"
      <3>1. Kept("daily")'
        BY <1>1, <1>3, <1>4, <2>2 DEF QuotaInv, Windows, Kept, Saw
      <3>. QED
        BY <1>1, <1>3, <1>5, <1>6, <2>2, <3>1 DEF QuotaInv, Sending
    <2>. QED
      BY <1>1, <2>1, <2>2
  <1>8. stage' \in {"monthly", "rewrite", "denied"}
    BY <1>2
  <1>9. ConfigInv' /\ ClientInv' /\ KeyInv' /\ BodyInv'
    BY <1>1, <1>8, Same DEF PathInv, ConfigInv, ClientInv, KeyInv, BodyInv, Sending
  <1>. QED
    BY <1>7, <1>8, <1>9 DEF PathInv, StageInv, SendInv, Sending

(* The headers that Rewrite builds: the real credential, and all that the  *)
(* client has sent in the others.                                          *)
LEMMA HeadersBuilt ==
    ASSUME Provider.prefix \in Headers \cup {"", AuthPrefix}, client \in Clients,
           NEW hs, hs = CredentialSet(HeadersCopied)
    PROVE  /\ DOMAIN hs = Headers \cup {AuthPrefix}
           /\ Provider.prefix = AuthPrefix => hs[AuthPrefix] # <<>>
           /\ Provider.prefix # AuthPrefix =>
                 hs[KeyHeader] = <<IF Custom THEN <<record.real>> ELSE <<"Bearer", record.real>>>>
           /\ \A h \in Headers \ {KeyHeader, Provider.prefix} :
                 ToSet(hs[h]) = ToSet(client.headers[h])
  <1>1. /\ Cred \in Headers /\ "" \notin Headers /\ AuthPrefix \notin Headers
        /\ AuthPrefix # "" /\ Cred \notin Stripped
    BY HeadersAssumption DEF AuthPrefix, Stripped, Cred
  <1>2. /\ DOMAIN HeadersCopied = Headers \cup {AuthPrefix}
        /\ \A h \in Headers \ {Cred, Provider.prefix} :
              HeadersCopied[h] = Cloned(h) \o client.headers[h]
        /\ HeadersCopied[Cred] = client.headers[Cred]
    BY <1>1 DEF HeadersCopied, Cloned
  <1>3. \A h \in Headers \ {Provider.prefix} : ToSet(HeadersCopied[h]) = ToSet(client.headers[h])
    <2>. SUFFICES ASSUME NEW h \in Headers \ {Provider.prefix}, h # Cred
                  PROVE  ToSet(Cloned(h) \o client.headers[h]) = ToSet(client.headers[h])
      BY <1>2
    <2>1. client.headers[h] \in Seq(ToSet(client.headers[h]))
      BY ClientsAssumption
    <2>. QED
      BY <2>1, Doubled DEF Cloned
  <1>. HIDE DEF HeadersCopied, Cloned
  <1>4. CASE Provider.prefix = ""
    <2>1. hs = [HeadersCopied EXCEPT ![Cred] = <<<<"Bearer", record.real>>>>]
      BY <1>4 DEF CredentialSet
    <2>2. ~Custom /\ KeyHeader = Cred
      BY <1>4 DEF Custom, KeyHeader
    <2>. QED
      BY <1>1, <1>2, <1>3, <1>4, <2>1, <2>2
  <1>5. CASE Provider.prefix # ""
    <2>1. hs = [HeadersCopied EXCEPT ![Provider.prefix] = <<<<record.real>>>>]
      BY <1>5 DEF CredentialSet
    <2>2. Provider.prefix # AuthPrefix => Custom /\ KeyHeader = Provider.prefix
      BY <1>5 DEF Custom, KeyHeader
    <2>3. <<<<record.real>>>> # <<>>
      OBVIOUS
    <2>4. hs[Provider.prefix] = <<<<record.real>>>>
      BY <1>2, <1>5, <2>1
    <2>5. \A h \in Headers \ {Provider.prefix} : ToSet(hs[h]) = ToSet(client.headers[h])
      BY <1>2, <1>3, <2>1
    <2>. QED
      BY <1>2, <2>1, <2>2, <2>3, <2>4, <2>5
  <1>. QED
    BY <1>4, <1>5

(* What is in memory when the outgoing request is built. *)
LEMMA InMemory ==
    ASSUME PathInv, stage = "rewrite"
    PROVE  /\ body # None <=> Rewritten
           /\ ~client.cut /\ client.body # None => body = client.body
           /\ ~client.cut => body \in {client.body} \cup Read(client.body, FALSE)
           /\ client.body = None /\ body # None => ~Truthy(body)
           /\ ~(body # None /\ Readable) => body = client.body
  <1>1. client \in Clients /\ client.cut \in BOOLEAN
    BY ClientsAssumption DEF PathInv, ClientInv
  <1>2. IF Route.quota = "" THEN body = client.body ELSE body \in Read(client.body, client.cut)
    BY DEF PathInv, BodyInv
  <1>3. None \notin Read(client.body, client.cut)
    BY <1>1, BodiesAssumption
  <1>4. ~Truthy(EmptyMap)
    BY DEF Truthy, EmptyMap
  <1>5. body # None <=> Rewritten
    BY <1>2, <1>3 DEF Rewritten
  <1>6. ~(body # None /\ Readable) => body = client.body
    BY <1>2, <1>3 DEF Readable
  <1>. QED
    BY <1>1, <1>2, <1>3, <1>4, <1>5, <1>6 DEF Read

LEMMA RewriteInv ==
    ASSUME PathInv, Rewrite
    PROVE  PathInv'
  <1>. DEFINE hs      == CredentialSet(HeadersCopied)
              options == Provider.streaming.options
              read    == body # None /\ Readable
  <1>1. /\ stage = "rewrite" /\ stage' = IF read THEN "merge" ELSE "send"
        /\ UNCHANGED <<config, client, record, body, checked>>
        /\ client \in Clients /\ client.route \in DOMAIN config.routes
        /\ Valid(config) /\ Typed(config)
    BY DEF Rewrite, PathInv, ClientInv, ConfigInv
  <1>2. /\ DOMAIN out' = {"headers", "target", "path", "length"}
        /\ out'.headers = hs /\ out'.length = client.body
        /\ streaming' = (read /\ Truthy(body))
        /\ damage' = (client.cut /\ Readable)
        /\ todo' = IF streaming' /\ Provider.streaming # None THEN DOMAIN options ELSE {}
    BY DEF Rewrite
  <1>3. StreamingValid(Provider.streaming)
    BY <1>1, RouteFacts
  <1>4. /\ read <=> Rewritten /\ Readable
        /\ ~client.cut /\ client.body # None => body = client.body
        /\ ~client.cut => body \in {client.body} \cup Read(client.body, FALSE)
        /\ client.body = None /\ body # None => ~Truthy(body)
        /\ ~read => body = client.body
    BY <1>1, InMemory
  <1>5. OutInv'
    BY <1>1, <1>2, <1>4, Same, SameHeaders DEF OutInv
  <1>6. MergeInv'
    <2>1. Provider.streaming # None
      BY <1>3 DEF StreamingValid
    <2>2. ASSUME ~client.cut, streaming'
          PROVE  body = Merged(client.body, Only(options, DOMAIN options \ todo'))
      <3>1. client.body # None /\ body = client.body /\ todo' = DOMAIN options
        BY <1>2, <1>4, <2>1, <2>2
      <3>2. client.body = [f \in DOMAIN client.body |-> client.body[f]]
        BY <1>1, <3>1, BodiesAssumption
      <3>3. DOMAIN options \ todo' = {}
        BY <3>1
      <3>. QED
        BY <3>1, <3>2, <3>3, FirstAndLast
    <2>3. streaming' \in BOOLEAN /\ todo' \subseteq (IF streaming' THEN DOMAIN options ELSE {})
      BY <1>2
    <2>4. Provider' = Provider /\ (Readable' <=> Readable) /\ (Rewritten' <=> Rewritten)
      BY <1>1, Same
    <2>5. stage' # "merge" => ~read /\ todo' = {}
      BY <1>1, <1>2
    <2>6. stage' = "merge" => Rewritten /\ Readable
      BY <1>1, <1>4
    <2>. HIDE DEF options, read
    <2>. QED
      BY <1>1, <1>2, <1>4, <2>2, <2>3, <2>4, <2>5, <2>6 DEF MergeInv, options
  <1>7. Sending'
    BY <1>1 DEF Sending
  <1>8. ConfigInv' /\ ClientInv' /\ KeyInv' /\ QuotaInv'
    BY <1>1, <1>7, Same, QuotaKept DEF PathInv, ConfigInv, ClientInv, KeyInv
  <1>. QED
    BY <1>1, <1>5, <1>6, <1>8 DEF PathInv, StageInv, BodyInv, SendInv, Sending

(* An option is merged, and nothing else that is in the body is touched. *)
LEMMA MergeStep ==
    ASSUME PathInv, NEW p \in todo, Merge(p)
    PROVE  PathInv'
  <1>. DEFINE options == Provider.streaming.options
  <1>1. /\ stage = "merge" /\ stage' = "merge" /\ todo' = todo \ {p}
        /\ body' = SetPath(body, p, options[p])
        /\ UNCHANGED <<config, client, record, out, streaming, checked, damage>>
        /\ client \in Clients /\ client.route \in DOMAIN config.routes
        /\ Valid(config) /\ Typed(config) /\ OutInv /\ MergeInv
    BY DEF Merge, PathInv, ClientInv, ConfigInv, SendInv, Sending
  <1>2. streaming /\ todo \subseteq DOMAIN options
    BY <1>1 DEF MergeInv
  <1>3. ~client.cut /\ Independent(options) =>
           body' = Merged(client.body, Only(options, DOMAIN options \ todo'))
    <2>. SUFFICES ASSUME ~client.cut, Independent(options)
                  PROVE  body' = Merged(client.body, Only(options, DOMAIN options \ todo'))
      OBVIOUS
    <2>. DEFINE done == DOMAIN options \ todo
    <2>1. body = Merged(client.body, Only(options, done))
      BY <1>1, <1>2 DEF MergeInv
    <2>2. done \subseteq DOMAIN options /\ p \in DOMAIN options /\ p \notin done
      BY <1>2
    <2>3. DOMAIN options \ todo' = done \cup {p}
      BY <1>1, <1>2
    <2>. HIDE DEF done, options
    <2>. QED
      BY <1>1, <2>1, <2>2, <2>3, OneMore
  <1>4. MergeInv'
    BY <1>1, <1>2, <1>3, Same DEF MergeInv
  <1>5. OutInv'
    BY <1>1, Same, SameHeaders DEF OutInv
  <1>6. ConfigInv' /\ ClientInv' /\ KeyInv'
    BY <1>1, Same DEF PathInv, ConfigInv, ClientInv, KeyInv, Sending
  <1>7. QuotaInv'
    BY <1>1, QuotaKept DEF PathInv, Sending
  <1>. QED
    BY <1>1, <1>4, <1>5, <1>6, <1>7 DEF PathInv, StageInv, BodyInv, SendInv, Sending

(* The end of Rewrite sets what goes with the body. *)
LEMMA SetBodyInv ==
    ASSUME PathInv, SetBody
    PROVE  PathInv'
  <1>1. /\ stage = "merge" /\ stage' = "send" /\ todo = {}
        /\ out' = [out EXCEPT !.headers = WithBody(@), !.length = body]
        /\ UNCHANGED <<config, client, record, body, todo, streaming, checked, damage>>
        /\ OutInv /\ MergeInv
    BY DEF SetBody, PathInv, SendInv, Sending
  <1>2. /\ DOMAIN out' = {"headers", "target", "path", "length"}
        /\ out'.headers = WithBody(CredentialSet(HeadersCopied)) /\ out'.length = body
    BY <1>1 DEF OutInv
  <1>3. Rewritten /\ Readable
    BY <1>1 DEF MergeInv
  <1>4. WithBody(CredentialSet(HeadersCopied))' = WithBody(CredentialSet(HeadersCopied))
    BY <1>1, SameHeaders DEF WithBody
  <1>5. OutInv'
    BY <1>1, <1>2, <1>3, <1>4, Same DEF OutInv
  <1>6. MergeInv'
    BY <1>1, <1>3, Same DEF MergeInv
  <1>7. ConfigInv' /\ ClientInv' /\ KeyInv' /\ QuotaInv'
    BY <1>1, Same, QuotaKept DEF PathInv, ConfigInv, ClientInv, KeyInv, Sending
  <1>. QED
    BY <1>1, <1>5, <1>6, <1>7 DEF PathInv, StageInv, BodyInv, SendInv, Sending

(* A step after the request is built changes the stage alone. *)
LEMMA StageOnly ==
    ASSUME PathInv, Sending, stage # "merge", stage' \in {"failed", "sent", "metered"},
           UNCHANGED <<config, client, record, body, out, todo, streaming, checked, damage>>,
           stage' # "failed" => out.headers[AuthPrefix] = <<>> /\ (client.cut => Readable)
    PROVE  PathInv'
  <1>1. OutInv' /\ MergeInv'
    <2>1. OutInv /\ MergeInv
      BY DEF PathInv, SendInv
    <2>2. WithBody(CredentialSet(HeadersCopied))' = WithBody(CredentialSet(HeadersCopied))
      BY SameHeaders DEF WithBody
    <2>3. OutInv'
      BY <2>1, <2>2, Same, SameHeaders DEF OutInv
    <2>. QED
      BY <2>1, <2>3, Same DEF MergeInv
  <1>2. Sending'
    BY DEF Sending
  <1>3. ConfigInv' /\ ClientInv' /\ KeyInv' /\ QuotaInv'
    BY <1>2, Same, QuotaKept DEF PathInv, ConfigInv, ClientInv, KeyInv, Sending
  <1>4. SendInv'
    BY <1>1, Same DEF SendInv, Sending
  <1>. QED
    BY <1>3, <1>4 DEF PathInv, StageInv, BodyInv

(* A validated configuration leaves no parser without its paths. *)
LEMMA AnswerInv ==
    ASSUME PathInv, Answer
    PROVE  PathInv'
  <1>1. /\ stage = "sent" /\ Sending
        /\ UNCHANGED <<config, client, record, body, out, todo, streaming, checked, damage>>
        /\ out.headers[AuthPrefix] = <<>> /\ (client.cut => Readable)
    BY DEF Answer, PathInv, SendInv, Sending
  <1>2. UsageValid(Provider.usage) /\ StreamingValid(Provider.streaming)
    BY <1>1, RouteFacts DEF PathInv, ConfigInv, ClientInv
  <1>3. stage' = "metered"
    BY <1>2 DEF Answer, UsageValid, StreamingValid, ParseStandardJSON, ParseStreamReader
  <1>. QED
    BY <1>1, <1>3, StageOnly

LEMMA PathInvariant == Spec => []PathInv
  <1>1. PathInv /\ [Next]_vars => PathInv'
    <2>. SUFFICES ASSUME PathInv, [Next]_vars PROVE PathInv'
      OBVIOUS
    <2>1. CASE Send
      <3>1. /\ stage = "send" /\ Sending /\ stage' \in {"failed", "sent"}
            /\ UNCHANGED <<config, client, record, body, out, todo, streaming, checked, damage>>
            /\ stage' # "failed" => out.headers[AuthPrefix] = <<>> /\ (client.cut => Readable)
        BY <2>1 DEF Send, Sending
      <3>. QED
        BY <3>1, StageOnly
    <2>2. CASE UNCHANGED vars
      <3>1. UNCHANGED <<config, client, record, stage, body, out, todo, streaming, checked, damage>>
        BY <2>2 DEF vars
      <3>2. WithBody(CredentialSet(HeadersCopied))' = WithBody(CredentialSet(HeadersCopied))
        BY <3>1, SameHeaders DEF WithBody
      <3>3. OutInv' = OutInv /\ MergeInv' = MergeInv
        BY <3>1, <3>2, Same, SameHeaders DEF OutInv, MergeInv
      <3>4. QuotaInv'
        BY <3>1, Same DEF PathInv, QuotaInv, Sending, Kept, Failed, Saw
      <3>. QED
        BY <3>1, <3>3, <3>4, Same DEF PathInv, StageInv, ConfigInv, ClientInv, KeyInv,
           BodyInv, SendInv, Sending
    <2>. QED
      BY <2>1, <2>2, LoadInv, ArriveInv, AuthenticateInv, ReadForQuotaInv, QuotaCheckInv,
         RewriteInv, MergeStep, SetBodyInv, AnswerInv DEF Next
  <1>. QED
    BY <1>1, PathInit, PTL DEF Spec

-----------------------------------------------------------------------------
(* What validate accepts, the request path and the parsers can work with.  *)
THEOREM AcceptedIsMeterable == Spec => []ValidConfigMeters
  <1>1. PathInv => ValidConfigMeters
    BY DEF PathInv, StageInv, ConfigInv, Valid, RouteValid, ValidConfigMeters
  <1>. QED
    BY <1>1, PathInvariant, PTL

(* What the listings show of a route is what authInterceptor enforces: a   *)
(* denial has a listed limit that was exceeded, and a forwarded request    *)
(* kept the listed limits, as far as QuotaCheck could query them.          *)
THEOREM ListingsAreEnforced == Spec => []EnforcedAsListed
  <1>1. ASSUME PathInv, stage = "denied"
        PROVE  \E q \in Shown, w \in Windows :
                  /\ q.status = "APPLIED" /\ q[w] # 0
                  /\ checked[w] = [scope |-> q.mode, is |-> "exceeded"]
    <2>. DEFINE n == Route.quota
                q == [name |-> n, daily |-> config.quotas[n].daily,
                      monthly |-> config.quotas[n].monthly,
                      mode |-> IF Limited(config.quotas[n]) THEN config.quotas[n].mode
                               ELSE "unlimited",
                      status |-> IF \E p \in DOMAIN config.routes : config.routes[p].quota = n
                                 THEN "APPLIED" ELSE "IDLE"]
                r == [uri |-> client.route, provider |-> Route.provider,
                      quota |-> IF Route.quota = "" THEN "None" ELSE Route.quota]
    <2>1. /\ n # "" /\ client.route \in DOMAIN config.routes
          /\ n \in DOMAIN config.quotas /\ Quota = config.quotas[n]
          /\ QuotaValid(n, config.quotas[n])
          /\ config.quotas[n].daily \in Int /\ config.quotas[n].monthly \in Int
      BY <1>1, RouteFacts DEF PathInv, ConfigInv, ClientInv, QuotaInv, Quota
    <2>2. q \in ListQuotas(config)
      BY <2>1 DEF ListQuotas
    <2>3. r \in ListRoutes(config)
      BY <2>1 DEF ListRoutes, Route
    <2>4. r.uri = client.route /\ r.quota = q.name
      BY <2>1
    <2>5. q \in Shown
      BY <2>2, <2>3, <2>4 DEF Shown
    <2>6. PICK w \in Windows : Quota[w] > 0 /\ Saw(w, "exceeded")
      BY <1>1 DEF PathInv, QuotaInv
    <2>7. /\ Quota[w] # 0 /\ q[w] = Quota[w]
          /\ Quota.daily # 0 \/ Quota.monthly # 0
      <3>1. CASE w = "daily"
        <4>1. Quota.daily > 0 /\ Quota.daily \in Int
          BY <2>1, <2>6, <3>1
        <4>2. Quota.daily # 0
          BY <4>1
        <4>3. q.daily = Quota.daily
          BY <2>1
        <4>. HIDE DEF q
        <4>. QED
          BY <3>1, <4>2, <4>3
      <3>2. CASE w = "monthly"
        <4>1. Quota.monthly > 0 /\ Quota.monthly \in Int
          BY <2>1, <2>6, <3>2
        <4>2. Quota.monthly # 0
          BY <4>1
        <4>3. q.monthly = Quota.monthly
          BY <2>1
        <4>. HIDE DEF q
        <4>. QED
          BY <3>2, <4>2, <4>3
      <3>. QED
        BY <3>1, <3>2 DEF Windows
    <2>8. Limited(config.quotas[n]) /\ config.quotas[n].mode \in {"per_key", "shared"}
      BY <2>1, <2>7 DEF Limited, QuotaValid
    <2>9. \E p \in DOMAIN config.routes : config.routes[p].quota = n
      BY <2>1 DEF Route
    <2>10. q.status = "APPLIED" /\ q.mode = Scope
      BY <2>1, <2>8, <2>9 DEF Scope
    <2>11. q[w] # 0
      BY <2>7
    <2>. HIDE DEF q
    <2>. QED
      BY <2>5, <2>6, <2>10, <2>11 DEF Saw
  <1>2. ASSUME PathInv, Forwarded, NEW q \in Shown, NEW w \in Windows,
               q.name = "None" => Route.quota # ""
        PROVE  LET Seen(v, is) == checked[v] = [scope |-> q.mode, is |-> is]
               IN  IF q[w] = 0 THEN checked[w] = None
                   ELSE \/ Seen(w, "within") \/ Seen(w, "failed")
                        \/ w = "monthly" /\ Seen("daily", "failed") /\ checked[w] = None
    <2>1. /\ Sending /\ Valid(config) /\ Typed(config) /\ client \in Clients
          /\ client.route \in DOMAIN config.routes
      BY <1>2 DEF Forwarded, PathInv, StageInv, ConfigInv, ClientInv, Sending
    <2>2. PICK n \in DOMAIN config.quotas :
             /\ q.name = n /\ q.daily = config.quotas[n].daily
             /\ q.monthly = config.quotas[n].monthly
             /\ Limited(config.quotas[n]) => q.mode = config.quotas[n].mode
             /\ ~Limited(config.quotas[n]) => q.mode = "unlimited"
      BY DEF Shown, ListQuotas
    <2>3. PICK r \in ListRoutes(config) : r.uri = client.route /\ r.quota = q.name
      BY DEF Shown
    <2>4. Route.quota # "" /\ Route.quota = n
      <3>1. PICK p \in DOMAIN config.routes :
               r = [uri |-> p, provider |-> config.routes[p].provider,
                    quota |-> IF config.routes[p].quota = "" THEN "None"
                              ELSE config.routes[p].quota]
        BY Zenon DEF ListRoutes
      <3>2. /\ r.uri = p
            /\ config.routes[p].quota = "" => r.quota = "None"
            /\ config.routes[p].quota # "" => r.quota = config.routes[p].quota
        BY <3>1
      <3>. QED
        BY <1>2, <2>2, <2>3, <3>2 DEF Route
    <2>5. /\ Quota = config.quotas[n] /\ QuotaValid(n, config.quotas[n])
          /\ Quota.daily \in Int /\ Quota.monthly \in Int
      BY <2>1, <2>4, RouteFacts DEF Quota
    <2>6. q.daily = Quota.daily /\ q.monthly = Quota.monthly /\ q.daily >= 0 /\ q.monthly >= 0
      BY <2>2, <2>5 DEF QuotaValid
    <2>7. /\ q["daily"] = 0 <=> ~(Quota["daily"] > 0)
          /\ q["monthly"] = 0 <=> ~(Quota["monthly"] > 0)
      BY <2>5, <2>6
    <2>8. Quota["daily"] > 0 \/ Quota["monthly"] > 0 => q.mode = Scope
      <3>. SUFFICES ASSUME Quota["daily"] > 0 \/ Quota["monthly"] > 0 PROVE q.mode = Scope
        OBVIOUS
      <3>1. Limited(config.quotas[n])
        BY <2>5 DEF Limited
      <3>2. q.mode = Quota.mode /\ Quota.mode \in {"per_key", "shared"}
        BY <2>2, <2>5, <3>1 DEF QuotaValid
      <3>. QED
        BY <3>2 DEF Scope
    <2>9. \/ Kept("daily") /\ (Kept("monthly") \/ Failed("monthly"))
          \/ Failed("daily") /\ checked["monthly"] = None
      BY <1>2, <2>1, <2>4 DEF PathInv, QuotaInv
    <2>10. w = "daily" \/ w = "monthly"
      BY DEF Windows
    <2>. QED
      BY <2>7, <2>8, <2>9, <2>10 DEF Kept, Failed, Saw
  <1>3. PathInv => EnforcedAsListed
    BY <1>1, <1>2 DEF EnforcedAsListed
  <1>. QED
    BY <1>3, PathInvariant, PTL

(* A forwarded request carries the real credential in place of the local   *)
(* key, its other headers as OthersKept has it, and the client's body,     *)
(* with all options of a stream, if they are independent, merged into it   *)
(* in whatever order, and its length (Rewrite).                            *)
THEOREM ForwardingIsFaithful == Spec => []ForwardedAsMeant
  <1>1. ASSUME PathInv, Forwarded
        PROVE  /\ CredentialReplaced
               /\ OthersKept
               /\ ~damage /\ (streaming => Independent(Provider.streaming.options)) =>
                     body \in IF streaming THEN {Merged(client.body, Provider.streaming.options)}
                              ELSE {client.body} \cup Read(client.body, FALSE)
               /\ out.length = body
               /\ damage => Route.quota # ""
    <2>1. /\ stage \in {"sent", "metered"} /\ OutInv /\ MergeInv
          /\ out.headers[AuthPrefix] = <<>> /\ (client.cut => Readable)
          /\ Presented \in DOMAIN KeyTable
          /\ KeyTable[Presented] = [route |-> client.route, real |-> record.real]
          /\ client \in Clients /\ client.cut \in BOOLEAN
          /\ Valid(config) /\ Typed(config) /\ client.route \in DOMAIN config.routes
      BY <1>1, ClientsAssumption
         DEF Forwarded, PathInv, StageInv, SendInv, Sending, KeyInv, ClientInv, ConfigInv
    <2>2. Readable /\ todo = {} /\ out.length = body
      BY <2>1 DEF Readable, OutInv, MergeInv
    <2>. DEFINE hs == CredentialSet(HeadersCopied)
    <2>3. out.headers = IF Rewritten THEN WithBody(hs) ELSE hs
      BY <2>1, <2>2 DEF OutInv
    <2>4. Provider.prefix \in Headers \cup {"", AuthPrefix}
      BY <2>1, RouteFacts
    <2>5. /\ DOMAIN hs = Headers \cup {AuthPrefix}
          /\ Provider.prefix = AuthPrefix => hs[AuthPrefix] # <<>>
          /\ Provider.prefix # AuthPrefix =>
                hs[KeyHeader] = <<IF Custom THEN <<record.real>> ELSE <<"Bearer", record.real>>>>
          /\ \A h \in Headers \ {KeyHeader, Provider.prefix} :
                ToSet(hs[h]) = ToSet(client.headers[h])
      BY <2>1, <2>4, HeadersBuilt
    <2>6. /\ BodyHeaders \subseteq Headers /\ Cred \in Headers /\ Cred \notin BodyHeaders
          /\ AuthPrefix \notin BodyHeaders /\ AuthPrefix \notin Headers /\ "" \notin Headers
      BY HeadersAssumption DEF BodyHeaders, Cred, AuthPrefix
    <2>. HIDE DEF hs
    <2>7. /\ \A h \in DOMAIN hs \ BodyHeaders : out.headers[h] = hs[h]
          /\ ~Rewritten => out.headers = hs
          /\ Rewritten => /\ out.headers["Content-Type"] = <<<<"application/json">>>>
                          /\ out.headers["Accept-Encoding"] = <<>>
      BY <2>3, <2>5, <2>6 DEF WithBody, BodyHeaders
    <2>8. Provider.prefix # AuthPrefix
      BY <2>1, <2>5, <2>6, <2>7
    <2>9. KeyHeader \in Headers /\ KeyHeader = IF Custom THEN Provider.prefix ELSE Cred
      BY <2>4, <2>6 DEF KeyHeader, Custom
    <2>10. CredentialReplaced
      <3>. DEFINE k == client.headers[KeyHeader]
      <3>1. k # <<>> /\ Last(k[1]) = Presented
        BY <2>1, KeyTableAssumption DEF Presented, KeyHeader, Last
      <3>2. ~(Rewritten /\ Provider.prefix \in BodyHeaders) =>
              out.headers[KeyHeader] =
                 <<IF Custom THEN <<record.real>> ELSE <<"Bearer", record.real>>>>
        BY <2>5, <2>6, <2>7, <2>8, <2>9
      <3>. QED
        BY <2>1, <2>9, <3>1, <3>2 DEF CredentialReplaced
    <2>11. OthersKept
      <3>1. ASSUME NEW h \in Headers, h # Provider.prefix, Custom \/ h # Cred,
                   ~Rewritten \/ h \notin BodyHeaders
            PROVE  ToSet(out.headers[h]) = ToSet(client.headers[h])
        <4>1. h \in Headers \ {KeyHeader, Provider.prefix} /\ h \in DOMAIN hs
          BY <2>5, <2>9, <3>1
        <4>2. out.headers[h] = hs[h]
          BY <2>7, <3>1, <4>1
        <4>. QED
          BY <2>5, <4>1, <4>2
      <3>. QED
        BY <2>7, <3>1 DEF OthersKept
    <2>12. ASSUME ~damage, streaming => Independent(Provider.streaming.options)
           PROVE  body \in IF streaming THEN {Merged(client.body, Provider.streaming.options)}
                           ELSE {client.body} \cup Read(client.body, FALSE)
      <3>. DEFINE options == Provider.streaming.options
      <3>1. ~client.cut
        BY <2>1, <2>2, <2>12 DEF MergeInv
      <3>2. streaming => body = Merged(client.body, Only(options, DOMAIN options \ {}))
        BY <2>1, <2>2, <2>12, <3>1 DEF MergeInv
      <3>3. streaming => body = Merged(client.body, options)
        BY <3>2, FirstAndLast
      <3>4. ~streaming => body \in {client.body} \cup Read(client.body, FALSE)
        BY <2>1, <3>1 DEF MergeInv
      <3>. QED
        BY <3>3, <3>4
    <2>13. damage => Route.quota # ""
      BY <2>1 DEF MergeInv, Readable
    <2>. QED
      BY <2>2, <2>10, <2>11, <2>12, <2>13
  <1>2. PathInv => ForwardedAsMeant
    BY <1>1 DEF ForwardedAsMeant
  <1>. QED
    BY <1>2, PathInvariant, PTL
=============================================================================
