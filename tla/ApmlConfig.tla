----------------------------- MODULE ApmlConfig -----------------------------
(***************************************************************************)
(* The APML configuration (internal/apml): how a document becomes a        *)
(* configuration, which configurations are accepted, and what the admin    *)
(* listings say about one (grpc/handler.go).  Only operators: the          *)
(* configuration is read once, at start.                                   *)
(*                                                                         *)
(* A document is a sequence of top-level entries.  A text is "" or not;    *)
(* names and plan versions that match their patterns are given as sets.    *)
(***************************************************************************)
EXTENDS Integers, SequencesExt

CONSTANTS
    RoutePaths,    \* top-level keys that start with "/"
    Identifiers,   \* names that match alphaNameRegex
    PlanVersions,  \* texts that match planVersionRegex
    Malformed,     \* a value that does not decode
    None           \* a block that is not there (nil)

(* types.go.  A host is a record of its scheme, "" if it has none, and its *)
(* name; option paths have one or two steps.                               *)
NoQuota == [mode |-> "", daily |-> 0, monthly |-> 0]

EmptyMap == [x \in {} |-> x]

EmptyConfig ==
    [title |-> "", baseUri |-> "", version |-> "", plan_version |-> "",
     quotas |-> EmptyMap, providers |-> EmptyMap, routes |-> EmptyMap]

Texts  == {"title", "baseUri", "version", "plan_version"}
Blocks == {"quotas", "providers"}

(* One turn of the loop of UnmarshalYAML: a later entry overwrites an      *)
(* earlier one, blocks are decoded into the maps that are there already (a *)
(* null empties them) and unknown keys are passed over.                    *)
SetEntry(cfg, e) ==
    CASE e.key \in RoutePaths -> [cfg EXCEPT !.routes = (e.key :> e.val) @@ @]
      [] e.key \in Texts      -> [cfg EXCEPT ![e.key] = e.val]
      [] e.key \in Blocks     -> [cfg EXCEPT ![e.key] = IF e.val = None THEN EmptyMap
                                                        ELSE e.val @@ @]
      [] OTHER                -> cfg

Decodes(doc) ==
    \A i \in DOMAIN doc : doc[i].key \in RoutePaths \cup Blocks => doc[i].val # Malformed

UnmarshalYAML(doc) == FoldLeft(SetEntry, EmptyConfig, doc)

-----------------------------------------------------------------------------
(* validate, part by part. *)
MetadataValid(c) ==
    /\ c.title # "" /\ c.baseUri # "" /\ c.version # ""
    /\ c.plan_version \in PlanVersions
    /\ c.routes # EmptyMap

Limited(q) == ~(q.daily = 0 /\ q.monthly = 0)

QuotaValid(name, q) ==
    /\ name \in Identifiers
    /\ q.daily >= 0 /\ q.monthly >= 0
    /\ Limited(q) => q.mode \in {"per_key", "shared"}

UsageValid(u) == u # None /\ u.in # "" /\ u.out # ""

StreamingValid(s) ==
    /\ s # None
    /\ \/ /\ s.mode = "last"
          /\ s.in # "" /\ s.out # ""
          /\ s.input = None /\ s.output = None
       \/ /\ s.mode = "split"
          /\ s.input # None /\ s.output # None
          /\ s.input.chunk # "" /\ s.input.in # ""
          /\ s.output.chunk # "" /\ s.output.out # ""
          /\ s.in = "" /\ s.out = ""

(* Mutant: only the block for one-shot answers is looked at. *)
ProviderValidOneShot(name, p) == name \in Identifiers /\ p.host # None /\ UsageValid(p.usage)

ProviderValid(name, p) ==
    /\ name \in Identifiers
    /\ p.host # None
    /\ UsageValid(p.usage)
    /\ StreamingValid(p.streaming)

(* An empty provider name is no name of a provider. *)
RouteValid(c, r) ==
    /\ r.provider # "" /\ r.provider \in DOMAIN c.providers
    /\ r.quota # "" => r.quota \in DOMAIN c.quotas

Valid(c) ==
    /\ MetadataValid(c)
    /\ \A n \in DOMAIN c.quotas : QuotaValid(n, c.quotas[n])
    /\ \A n \in DOMAIN c.providers : ProviderValid(n, c.providers[n])
    /\ \A p \in DOMAIN c.routes : RouteValid(c, c.routes[p])

(* Parse: the configuration of a document, or an error. *)
Parse(doc) ==
    IF doc # Malformed /\ Decodes(doc) /\ Valid(UnmarshalYAML(doc))
    THEN UnmarshalYAML(doc) ELSE None

-----------------------------------------------------------------------------
(* A quota lookup of Go's maps: the zero value where there is nothing. *)
QuotaOf(c, path) ==
    LET name == c.routes[path].quota
    IN  IF name \in DOMAIN c.quotas THEN c.quotas[name] ELSE NoQuota

(* ListRoutes and ListQuotas. *)
ListRoutes(c) ==
    {[uri |-> p, provider |-> c.routes[p].provider,
      quota |-> IF c.routes[p].quota = "" THEN "None" ELSE c.routes[p].quota] :
        p \in DOMAIN c.routes}

ListQuotas(c) ==
    {[name |-> n, daily |-> c.quotas[n].daily, monthly |-> c.quotas[n].monthly,
      mode   |-> IF Limited(c.quotas[n]) THEN c.quotas[n].mode ELSE "unlimited",
      status |-> IF \E p \in DOMAIN c.routes : c.routes[p].quota = n
                 THEN "APPLIED" ELSE "IDLE"] : n \in DOMAIN c.quotas}
=============================================================================
