------------------------------ MODULE KeyStore ------------------------------
(***************************************************************************)
(* The in-memory credential store (internal/keystore/store.go): one set of *)
(* records under two indexes, by UUID for the administrator and by the     *)
(* hash of the internal key for every proxied request.  Each method holds  *)
(* the store's lock from start to end, so each is one step of the handler  *)
(* or request that calls it: ControlPlane and Gateway take these steps.    *)
(* Aliases are not modelled: nothing is decided by them.                   *)
(***************************************************************************)
EXTENDS FiniteSets

CONSTANTS
    UUIDs,         \* what uuid.NewRandom can return
    InternalKeys,  \* "sk-local-" and 16 random bytes
    RealKeys,      \* upstream credentials
    Routes,        \* route paths
    Hashes,        \* SHA-256 digests
    Hash           \* hashInternalKey

VARIABLES
    keys,    \* s.keys: UUID -> record, a partial function
    byHash,  \* s.byHash: hash -> record, a partial function
    issued   \* history: every record ever stored

KeyRecord == [uuid: UUIDs, route: Routes, real: RealKeys,
              internal: InternalKeys, hash: Hashes]

(* s[k] = v and delete(s, k) on a Go map. *)
Put(map, k, v) == [x \in DOMAIN map \cup {k} |-> IF x = k THEN v ELSE map[x]]
Remove(map, k) == [x \in DOMAIN map \ {k} |-> map[x]]
EmptyMap       == [x \in {} |-> x]

Init ==
    /\ keys = EmptyMap
    /\ byHash = EmptyMap
    /\ issued = {}

(* ListKeys: a copy of every record. *)
ListKeys == {keys[u] : u \in DOMAIN keys}

(* GetKeyByInternal: one look-up by hash. *)
Found(k)            == Hash[k] \in DOMAIN byHash
GetKeyByInternal(k) == byHash[Hash[k]]

(* Mutant: the scan compares the credential with the internal keys. *)
DuplicateByInternal(route, real) == \E x \in ListKeys : x.route = route /\ x.internal = real

(* The duplicate scan of AddKey. *)
Duplicate(route, real) == \E x \in ListKeys : x.route = route /\ x.real = real

(* Random identifiers: 122 and 128 random bits never repeat. *)
FreshId(id)  == \A x \in issued : x.uuid # id
FreshKey(ik) == \A x \in issued : x.internal # ik

NewRecord(route, real, id, ik) ==
    [uuid |-> id, route |-> route, real |-> real, internal |-> ik, hash |-> Hash[ik]]

AddKey(route, real, id, ik) ==
    /\ ~Duplicate(route, real)
    /\ FreshId(id)
    /\ FreshKey(ik)
    /\ LET record == NewRecord(route, real, id, ik)
       IN  /\ keys' = Put(keys, record.uuid, record)
           /\ byHash' = Put(byHash, record.hash, record)
           /\ issued' = issued \cup {record}

(* Mutants: only the administrator's index is updated; only the index of   *)
(* the proxy is.                                                           *)
DeleteKeyLeavesHash(uid) ==
    /\ uid \in DOMAIN keys
    /\ keys' = Remove(keys, uid)
    /\ UNCHANGED <<byHash, issued>>

DeleteKeyLeavesUuid(uid) ==
    /\ uid \in DOMAIN keys
    /\ byHash' = Remove(byHash, keys[uid].hash)
    /\ UNCHANGED <<keys, issued>>

DeleteKey(uid) ==
    /\ uid \in DOMAIN keys
    /\ keys' = Remove(keys, uid)
    /\ byHash' = Remove(byHash, keys[uid].hash)
    /\ UNCHANGED issued

-----------------------------------------------------------------------------
TypeOK ==
    /\ DOMAIN keys \subseteq UUIDs
    /\ \A u \in DOMAIN keys : keys[u] \in KeyRecord
    /\ DOMAIN byHash \subseteq Hashes
    /\ \A h \in DOMAIN byHash : byHash[h] \in KeyRecord
    /\ issued \subseteq KeyRecord

(* The two indexes hold the same records: what AddKey and DeleteKey do to  *)
(* one they do to the other, so that the administrator's list is exactly   *)
(* what the proxy accepts.                                                 *)
IndexAgreement ==
    /\ \A u \in DOMAIN keys :
          /\ keys[u].uuid = u
          /\ Found(keys[u].internal)
          /\ GetKeyByInternal(keys[u].internal) = keys[u]
    /\ \A h \in DOMAIN byHash :
          /\ byHash[h].hash = h
          /\ byHash[h].uuid \in DOMAIN keys
          /\ keys[byHash[h].uuid] = byHash[h]

(* An upstream credential is registered at most once per route at a time:  *)
(* the duplicate scan of AddKey.                                           *)
NoDuplicateCredential ==
    \A x, y \in ListKeys : x.route = y.route /\ x.real = y.real => x = y

(* An internal key always resolves to the record it was issued with, and   *)
(* once that record is deleted it never resolves again, whatever is added  *)
(* later (DeleteKey, GetKeyByInternal).                                    *)
RevokedStaysRevoked ==
    \A x \in issued :
        /\ Found(x.internal) => GetKeyByInternal(x.internal) = x
        /\ x.uuid \notin DOMAIN keys => ~Found(x.internal)
=============================================================================
