------------------------- MODULE ControlPlaneProofs -------------------------
(***************************************************************************)
(* Proofs about the control plane and the key store that its handlers      *)
(* change, for any number of commands, keys, routes and restarts, and any  *)
(* script, from the assumption that SHA-256 does not collide on the        *)
(* internal keys in use (DigestAssumption).                                *)
(***************************************************************************)
EXTENDS ControlPlane, TLAPS

USE DEF store, process

(* What is stored was issued; what was issued carries the hash of its own  *)
(* internal key, and neither its UUID nor its internal key comes again.    *)
Issued ==
    /\ Store!ListKeys \subseteq issued
    /\ \A x \in issued : x.hash = Hash[x.internal]
    /\ \A x, y \in issued : x.uuid = y.uuid \/ x.internal = y.internal => x = y

StoreInv == Store!TypeOK /\ Store!IndexAgreement /\ Store!NoDuplicateCredential /\ Issued

(* A new record enters both indexes, under a UUID and a hash that no other *)
(* record has.                                                             *)
LEMMA AddKeyInv ==
    ASSUME StoreInv, NEW route \in Routes, NEW real \in RealKeys, NEW id \in UUIDs,
           NEW ik \in InternalKeys, Store!AddKey(route, real, id, ik)
    PROVE  StoreInv'
  <1>. DEFINE rec == Store!NewRecord(route, real, id, ik)
  <1>1. /\ rec \in Store!KeyRecord /\ rec.uuid = id /\ rec.internal = ik /\ rec.hash = Hash[ik]
        /\ rec.route = route /\ rec.real = real
    BY DigestAssumption DEF Store!NewRecord, Store!KeyRecord
  <1>2. /\ keys' = Store!Put(keys, id, rec) /\ byHash' = Store!Put(byHash, Hash[ik], rec)
        /\ issued' = issued \cup {rec}
        /\ \A x \in issued : x.uuid # id /\ x.internal # ik
        /\ ~Store!Duplicate(route, real)
    BY <1>1 DEF Store!AddKey, Store!FreshId, Store!FreshKey
  <1>. HIDE DEF rec
  <1>3. \A u \in DOMAIN keys : /\ keys[u] \in issued /\ keys[u] \in Store!KeyRecord
                               /\ keys[u].uuid = u /\ u # id
                               /\ keys[u].hash = Hash[keys[u].internal]
    BY <1>2 DEF StoreInv, Issued, Store!ListKeys, Store!TypeOK, Store!IndexAgreement
  <1>4. \A h \in DOMAIN byHash : /\ byHash[h].uuid \in DOMAIN keys
                                 /\ keys[byHash[h].uuid] = byHash[h]
                                 /\ byHash[h].hash = h /\ h # Hash[ik]
    <2>. SUFFICES ASSUME NEW h \in DOMAIN byHash PROVE h # Hash[ik]
      BY DEF StoreInv, Store!IndexAgreement
    <2>1. /\ byHash[h].uuid \in DOMAIN keys /\ keys[byHash[h].uuid] = byHash[h]
          /\ byHash[h].hash = h
      BY DEF StoreInv, Store!IndexAgreement
    <2>2. byHash[h] \in issued /\ byHash[h].internal \in InternalKeys /\ h = Hash[byHash[h].internal]
      BY <1>3, <2>1 DEF Store!KeyRecord
    <2>. QED
      BY <1>2, <2>2, DigestAssumption
  <1>5. /\ DOMAIN keys' = DOMAIN keys \cup {id} /\ keys'[id] = rec
        /\ \A u \in DOMAIN keys : keys'[u] = keys[u]
    BY <1>2, <1>3 DEF Store!Put
  <1>6. /\ DOMAIN byHash' = DOMAIN byHash \cup {Hash[ik]} /\ byHash'[Hash[ik]] = rec
        /\ \A h \in DOMAIN byHash : byHash'[h] = byHash[h]
    BY <1>2, <1>4 DEF Store!Put
  <1>7. Store!TypeOK'
    BY <1>1, <1>2, <1>5, <1>6, DigestAssumption DEF StoreInv, Store!TypeOK
  <1>8. Store!IndexAgreement'
    <2>1. ASSUME NEW u \in DOMAIN keys'
          PROVE  /\ keys'[u].uuid = u
                 /\ Hash[keys'[u].internal] \in DOMAIN byHash'
                 /\ byHash'[Hash[keys'[u].internal]] = keys'[u]
      <3>1. CASE u = id
        BY <1>1, <1>5, <1>6, <3>1
      <3>2. CASE u \in DOMAIN keys
        BY <1>5, <1>6, <3>2 DEF StoreInv, Store!IndexAgreement, Store!Found, Store!GetKeyByInternal
      <3>. QED
        BY <1>5, <3>1, <3>2
    <2>2. ASSUME NEW h \in DOMAIN byHash'
          PROVE  /\ byHash'[h].hash = h
                 /\ byHash'[h].uuid \in DOMAIN keys'
                 /\ keys'[byHash'[h].uuid] = byHash'[h]
      BY <1>1, <1>4, <1>5, <1>6
    <2>. QED
      BY <2>1, <2>2 DEF Store!IndexAgreement, Store!Found, Store!GetKeyByInternal
  <1>9. Store!ListKeys' = Store!ListKeys \cup {rec}
    BY <1>5 DEF Store!ListKeys
  <1>10. Store!NoDuplicateCredential'
    BY <1>1, <1>2, <1>9 DEF StoreInv, Store!NoDuplicateCredential, Store!Duplicate
  <1>11. Issued'
    BY <1>1, <1>2, <1>9 DEF StoreInv, Issued
  <1>. QED
    BY <1>7, <1>8, <1>10, <1>11 DEF StoreInv

(* A deleted record leaves both indexes, and no other record does. *)
LEMMA DeleteKeyInv ==
    ASSUME StoreInv, NEW uid \in UUIDs, Store!DeleteKey(uid)
    PROVE  StoreInv'
  <1>. DEFINE hash == keys[uid].hash
  <1>1. /\ uid \in DOMAIN keys /\ issued' = issued
        /\ keys' = Store!Remove(keys, uid) /\ byHash' = Store!Remove(byHash, hash)
    BY DEF Store!DeleteKey
  <1>2. /\ DOMAIN keys' = DOMAIN keys \ {uid}
        /\ \A u \in DOMAIN keys' : keys'[u] = keys[u]
        /\ DOMAIN byHash' = DOMAIN byHash \ {hash}
        /\ \A h \in DOMAIN byHash' : byHash'[h] = byHash[h]
    BY <1>1 DEF Store!Remove
  <1>3. Store!TypeOK'
    BY <1>1, <1>2 DEF StoreInv, Store!TypeOK
  <1>4. \A u \in DOMAIN keys : keys[u] \in issued /\ keys[u].hash = Hash[keys[u].internal]
    BY DEF StoreInv, Issued, Store!ListKeys
  <1>5. ASSUME NEW u \in DOMAIN keys'
        PROVE  /\ keys'[u].uuid = u
               /\ Hash[keys'[u].internal] \in DOMAIN byHash'
               /\ byHash'[Hash[keys'[u].internal]] = keys'[u]
    <2>1. u \in DOMAIN keys /\ u # uid /\ keys'[u] = keys[u]
      BY <1>2
    <2>2. /\ keys[u].uuid = u /\ keys[uid].uuid = uid
          /\ Hash[keys[u].internal] \in DOMAIN byHash
          /\ byHash[Hash[keys[u].internal]] = keys[u]
          /\ byHash[Hash[keys[uid].internal]] = keys[uid]
      BY <1>1, <2>1 DEF StoreInv, Store!IndexAgreement, Store!Found, Store!GetKeyByInternal
    <2>3. Hash[keys[u].internal] # hash
      BY <1>1, <1>4, <2>1, <2>2
    <2>. QED
      BY <1>2, <2>1, <2>2, <2>3
  <1>6. ASSUME NEW h \in DOMAIN byHash'
        PROVE  /\ byHash'[h].hash = h
               /\ byHash'[h].uuid \in DOMAIN keys'
               /\ keys'[byHash'[h].uuid] = byHash'[h]
    <2>1. h \in DOMAIN byHash /\ h # hash /\ byHash'[h] = byHash[h]
      BY <1>2
    <2>2. /\ byHash[h].hash = h /\ byHash[h].uuid \in DOMAIN keys
          /\ keys[byHash[h].uuid] = byHash[h]
      BY <2>1 DEF StoreInv, Store!IndexAgreement
    <2>. QED
      BY <1>2, <2>1, <2>2
  <1>7. Store!IndexAgreement'
    BY <1>5, <1>6 DEF Store!IndexAgreement, Store!Found, Store!GetKeyByInternal
  <1>8. Store!ListKeys' \subseteq Store!ListKeys
    BY <1>2 DEF Store!ListKeys
  <1>9. Store!NoDuplicateCredential' /\ Issued'
    BY <1>1, <1>8 DEF StoreInv, Store!NoDuplicateCredential, Issued
  <1>. QED
    BY <1>3, <1>7, <1>9 DEF StoreInv

-----------------------------------------------------------------------------
(* A process that ends leaves an empty store behind. *)
LEMMA StoreEmptied ==
    ASSUME StoreInv, keys' = Store!EmptyMap, byHash' = Store!EmptyMap, issued' = issued
    PROVE  StoreInv'
  BY DEF StoreInv, Store!EmptyMap, Store!TypeOK, Store!KeyRecord,
         Store!IndexAgreement, Store!NoDuplicateCredential, Issued,
         Store!ListKeys, Store!Found, Store!GetKeyByInternal

(* A step that leaves the store alone. *)
LEMMA StoreUntouched == StoreInv /\ UNCHANGED store => StoreInv'
  BY DEF StoreInv, Store!TypeOK, Store!KeyRecord,
         Store!IndexAgreement, Store!NoDuplicateCredential, Issued,
         Store!ListKeys, Store!Found, Store!GetKeyByInternal

(* What the invariant of the store says about the operators used here: a   *)
(* stored record is the one its internal key resolves to.                  *)
LEMMA StoreFacts ==
    ASSUME StoreInv
    PROVE  /\ Store!TypeOK
           /\ \A u \in DOMAIN keys :
                 /\ keys[u] \in issued /\ keys[u].uuid = u
                 /\ Store!Found(keys[u].internal)
                 /\ Store!GetKeyByInternal(keys[u].internal) = keys[u]
           /\ \A h \in DOMAIN byHash :
                 /\ byHash[h].uuid \in DOMAIN keys /\ byHash[h].hash = h
                 /\ keys[byHash[h].uuid] = byHash[h]
  BY DEF StoreInv, Store!TypeOK, Store!KeyRecord, Store!IndexAgreement,
         Issued, Store!ListKeys, Store!Found, Store!GetKeyByInternal

-----------------------------------------------------------------------------
(* Types, with what makes them inductive: a run of the CLI that has not    *)
(* begun has no handler, and a process that lives was not the last one.    *)
TypeInv ==
    /\ TypeOK
    /\ DOMAIN command = Calls /\ DOMAIN reply = Calls
    /\ \A c \in Calls : client[c] = "idle" => handler[c] = "none"
    /\ server # "down" => boot <= MaxRestarts

(* The replies of earlier processes carry their number. *)
BootInv ==
    /\ server = "down" => \A c \in Calls : handler[c] = "replied" => reply[c].boot < boot
    /\ \A c \in Calls : handler[c] = "replied" => reply[c].boot <= boot

(* What a command shows was issued, and it is stored as long as the        *)
(* process lives and no deletion of it has succeeded; the key that         *)
(* `key add` shows is the one that was asked for.                          *)
ShownInv ==
    /\ \A c \in Calls : handler[c] = "replied" =>
          /\ reply[c].shows \subseteq issued
          /\ reply[c].boot = boot =>
                \A x \in reply[c].shows : x \in Store!ListKeys \/ Deleted(x.uuid)
    /\ \A c \in Granted("add") : \E x \in reply[c].shows :
          /\ x.route = command[c].route /\ x.real = command[c].real

(* A deleted UUID was issued once, so that no later key gets it. *)
DeletedInv ==
    /\ \A c \in Granted("del") : \E x \in issued : x.uuid = command[c].uuid
    /\ DeletedForGood

(* A switch that nobody has interfered with is still as it was set. *)
DebugInv ==
    /\ \A c \in Calls : handler[c] = "switched" =>
          command[c].op = "debug" /\ (c \in overtaken \/ debug = command[c].on)
    /\ DebugReplyExplained

ControlInv ==
    TypeInv /\ StoreInv /\ BootInv /\ ShownInv /\ DeletedInv /\ DebugInv /\ RetryMakesNoSecondKey

(* Nothing is stored, asked or answered at the start. *)
LEMMA ControlInit == Init => ControlInv
  <1>. SUFFICES ASSUME Init PROVE ControlInv
    OBVIOUS
  <1>1. StoreInv
    BY DEF Init, Store!Init, Store!EmptyMap, StoreInv, Store!TypeOK,
           Store!IndexAgreement, Store!NoDuplicateCredential, Issued, Store!ListKeys
  <1>2. TypeInv
    <2>1. Store!TypeOK
      BY <1>1, StoreFacts
    <2>2. boot \in 0 .. MaxRestarts + 1 /\ boot <= MaxRestarts
      BY RestartAssumption DEF Init
    <2>. QED
      BY <2>1, <2>2 DEF Init, TypeInv, TypeOK, Pending
  <1>3. \A op : Replied(op) = {} /\ Granted(op) = {}
    BY DEF Init, Replied, Granted
  <1>4. BootInv /\ DebugInv /\ RetryMakesNoSecondKey
    BY <1>3 DEF Init, BootInv, DebugInv, DebugReplyExplained, RetryMakesNoSecondKey
  <1>5. ShownInv /\ DeletedInv
    BY <1>3 DEF Init, ShownInv, DeletedInv, DeletedForGood
  <1>. QED
    BY <1>1, <1>2, <1>4, <1>5 DEF ControlInv

(* A step between the handlers: it stores, deletes and answers nothing,    *)
(* and the calls that have an answer or have switched keep their command.  *)
LEMMA ControlFrame ==
    ASSUME ControlInv, UNCHANGED <<store, debug, boot, reply, overtaken>>,
           server' = "down" => server = "down",
           \A c \in Calls : /\ handler'[c] = "replied" <=> handler[c] = "replied"
                            /\ handler'[c] = "switched" => handler[c] = "switched"
                            /\ handler[c] \in {"replied", "switched"} => command'[c] = command[c]
    PROVE  StoreInv' /\ BootInv' /\ ShownInv' /\ DeletedInv' /\ DebugInv' /\ RetryMakesNoSecondKey'
  <1>1. StoreInv'
    BY StoreUntouched DEF ControlInv
  <1>2. /\ \A op : Replied(op)' = Replied(op) /\ Granted(op)' = Granted(op)
        /\ \A op : \A c \in Replied(op) : c \in Calls /\ command'[c] = command[c]
        /\ \A op : \A c \in Granted(op) : c \in Calls /\ command'[c] = command[c]
    BY DEF Replied, Granted
  <1>3. \A u : Deleted(u)' <=> Deleted(u)
    BY <1>2 DEF Deleted
  <1>4. BootInv'
    BY DEF ControlInv, BootInv
  <1>5. ShownInv'
    BY <1>2, <1>3 DEF ControlInv, ShownInv, Store!ListKeys
  <1>6. DeletedInv'
    BY <1>2 DEF ControlInv, DeletedInv, DeletedForGood
  <1>7. DebugInv'
    BY <1>2 DEF ControlInv, DebugInv, DebugReplyExplained
  <1>8. RetryMakesNoSecondKey'
    BY <1>2, <1>3 DEF ControlInv, RetryMakesNoSecondKey
  <1>. QED
    BY <1>1, <1>4, <1>5, <1>6, <1>7, <1>8

(* What an answer changes: one more call is answered, and granted if the   *)
(* answer says so; no deletion is forgotten.                               *)
LEMMA ReplyFacts ==
    ASSUME TypeInv, NEW c \in Calls, c \in Pending, NEW ok \in BOOLEAN, NEW shows, NEW on,
           Reply(c, ok, shows, on), UNCHANGED <<command, boot>>
    PROVE  /\ handler'[c] = "replied" /\ reply'[c].boot = boot /\ reply'[c].ok = ok
           /\ reply'[c].shows = shows /\ reply'[c].on = on
           /\ \A d \in Calls \ {c} : handler'[d] = handler[d] /\ reply'[d] = reply[d]
           /\ \A op : Replied(op)' = IF command[c].op = op THEN Replied(op) \cup {c}
                                                         ELSE Replied(op)
           /\ \A op : Granted(op)' = IF ok /\ command[c].op = op THEN Granted(op) \cup {c}
                                                                ELSE Granted(op)
           /\ \A op : c \notin Replied(op) /\ c \notin Granted(op)
           /\ \A u : Deleted(u) => Deleted(u)'
  <1>1. handler \in [Calls -> {"none", "running", "switched", "replied", "lost"}] /\ DOMAIN reply = Calls
    BY DEF TypeInv, TypeOK
  <1>2. /\ handler'[c] = "replied"
        /\ reply'[c] = [boot |-> boot, ok |-> ok, shows |-> shows, on |-> on]
        /\ \A d \in Calls \ {c} : handler'[d] = handler[d] /\ reply'[d] = reply[d]
    BY <1>1 DEF Reply
  <1>3. handler[c] # "replied"
    BY DEF Pending
  <1>4. \A op : /\ c \notin Replied(op) /\ c \notin Granted(op)
               /\ Replied(op)' = IF command[c].op = op THEN Replied(op) \cup {c} ELSE Replied(op)
    BY <1>2, <1>3 DEF Replied, Granted
  <1>5. \A op : Granted(op)' = IF ok /\ command[c].op = op THEN Granted(op) \cup {c}
                                                         ELSE Granted(op)
    BY <1>2, <1>4 DEF Replied, Granted
  <1>6. \A u : Deleted(u) => Deleted(u)'
    BY <1>5 DEF Deleted
  <1>. QED
    BY <1>2, <1>4, <1>5, <1>6

-----------------------------------------------------------------------------
(* What a handler may leave behind in the key store. *)
LEMMA StoreNext == StoreInv' => Store!TypeOK'
  BY DEF StoreInv, Store!TypeOK, Store!KeyRecord

(* Answers are well formed. *)
LEMMA TypeReply ==
    ASSUME TypeInv, NEW c \in Calls, c \in Pending, NEW ok \in BOOLEAN,
           NEW shows \in SUBSET Store!KeyRecord, NEW on \in BOOLEAN,
           Reply(c, ok, shows, on), Store!TypeOK', debug' \in BOOLEAN, overtaken' \subseteq Calls,
           UNCHANGED <<server, boot, command, client>>
    PROVE  TypeInv'
  <1>1. [boot |-> boot, ok |-> ok, shows |-> shows, on |-> on] \in Replies
    BY DEF Replies, TypeInv, TypeOK
  <1>2. /\ handler' = [handler EXCEPT ![c] = "replied"]
        /\ \E x \in Replies : reply' = [reply EXCEPT ![c] = x]
    BY <1>1 DEF Reply
  <1>3. c \in Pending' => FALSE
    BY <1>2 DEF TypeInv, TypeOK, Pending
  <1>4. \A d \in Calls : /\ d # c => handler'[d] = handler[d] /\ reply'[d] = reply[d]
                         /\ d \in Pending' => d \in Pending
                         /\ IF handler'[d] = "replied" THEN reply'[d] \in Replies ELSE reply'[d] = None
    BY <1>2 DEF TypeInv, TypeOK, Pending
  <1>5. handler'[c] = "replied" /\ client[c] # "idle"
    BY <1>2 DEF TypeInv, TypeOK, Pending
  <1>6. /\ handler' \in [Calls -> {"none", "running", "switched", "replied", "lost"}]
        /\ DOMAIN reply' = Calls
    BY <1>2 DEF TypeInv, TypeOK
  <1>. QED
    BY <1>4, <1>5, <1>6 DEF TypeInv, TypeOK

(* The command of a call is one of the commands. *)
LEMMA CommandType ==
    ASSUME TypeInv, NEW c \in Calls, NEW op, Running(c, op)
    PROVE  /\ c \in Pending /\ client[c] # "idle" /\ handler[c] = "running"
           /\ command[c].op = op
           /\ op = "del" => command[c].uuid \in UUIDs
           /\ op = "debug" => command[c].on \in BOOLEAN
  <1>1. handler[c] = "running" /\ command[c].op = op /\ c \in Pending
    BY DEF Running, Pending
  <1>2. client[c] # "idle" /\ command[c] \in Commands
    BY <1>1 DEF TypeInv, TypeOK
  <1>. QED
    BY <1>1, <1>2 DEF Commands

-----------------------------------------------------------------------------
(* The steps of the CLI and of main that leave the handlers alone. *)
LEMMA OtherStep ==
    ASSUME ControlInv,
           \/ \E c \in Calls : \/ \E cmd \in Script[c] : Invoke(c, cmd)
                               \/ TimeOut(c) \/ ConnectionLost(c) \/ Receive(c)
           \/ Signal \/ Boot \/ UNCHANGED vars
    PROVE  ControlInv'
  <1>. USE DEF ControlInv, TypeInv, TypeOK, Pending
  <1>1. Store!TypeOK' /\ StoreInv'
    <2>1. UNCHANGED store
      BY DEF Invoke, TimeOut, ConnectionLost, Receive, Signal, Boot, vars
    <2>. QED
      BY <2>1, StoreUntouched, StoreNext
  <1>2. ASSUME NEW c \in Calls, NEW cmd \in Script[c], Invoke(c, cmd) PROVE ControlInv'
    <2>1. cmd \in Commands /\ handler[c] = "none" /\ client[c] = "idle"
      BY <1>2, ScriptAssumption DEF Invoke
    <2>2. /\ command' = [command EXCEPT ![c] = cmd]
          /\ UNCHANGED <<store, debug, process, reply, overtaken>>
          /\ \/ /\ server = "up" /\ client' = [client EXCEPT ![c] = "waiting"]
                /\ handler' = [handler EXCEPT ![c] = "running"]
             \/ client' = [client EXCEPT ![c] = "failed"] /\ UNCHANGED handler
      BY <1>2 DEF Invoke
    <2>3. TypeInv'
      BY <1>1, <2>1, <2>2
    <2>4. \A d \in Calls : /\ handler'[d] = "replied" <=> handler[d] = "replied"
                           /\ handler'[d] = "switched" => handler[d] = "switched"
                           /\ handler[d] \in {"replied", "switched"} => command'[d] = command[d]
      BY <2>1, <2>2
    <2>. QED
      BY <2>2, <2>3, <2>4, ControlFrame
  <1>3. ASSUME NEW c \in Calls, TimeOut(c) \/ ConnectionLost(c) \/ Receive(c) PROVE ControlInv'
    <2>1. /\ UNCHANGED <<store, debug, process, command, handler, reply, overtaken>>
          /\ client[c] = "waiting"
          /\ \E how \in {"ok", "failed"} : client' = [client EXCEPT ![c] = how]
      BY <1>3 DEF TimeOut, ConnectionLost, Receive
    <2>2. TypeInv'
      BY <1>1, <2>1
    <2>. QED
      BY <2>1, <2>2, ControlFrame
  <1>4. CASE Signal
    <2>1. /\ UNCHANGED <<store, debug, boot, command, client, handler, reply, overtaken>>
          /\ server = "up" /\ server' = "stopping"
      BY <1>4 DEF Signal
    <2>2. TypeInv'
      BY <1>1, <2>1
    <2>. QED
      BY <2>1, <2>2, ControlFrame
  <1>5. CASE Boot
    <2>1. /\ UNCHANGED <<store, debug, boot, command, client, handler, reply, overtaken>>
          /\ boot <= MaxRestarts /\ server' = "up"
      BY <1>5 DEF Boot
    <2>2. TypeInv'
      BY <1>1, <2>1
    <2>. QED
      BY <2>1, <2>2, ControlFrame
  <1>6. CASE UNCHANGED vars
    <2>1. TypeInv'
      BY <1>1, <1>6 DEF vars
    <2>. QED
      BY <1>6, <2>1, ControlFrame DEF vars
  <1>. QED
    BY <1>2, <1>3, <1>4, <1>5, <1>6

(* The end of the process, orderly or not: the store is empty, and every   *)
(* answer is now one of an earlier process.                                *)
LEMMA GoneStep ==
    ASSUME ControlInv, Exit \/ Crash
    PROVE  ControlInv'
  <1>. USE DEF ControlInv
  <1>1. /\ server # "down" /\ server' = "down" /\ boot' = boot + 1
        /\ keys' = Store!EmptyMap /\ byHash' = Store!EmptyMap
        /\ UNCHANGED <<issued, command, client, reply, overtaken>> /\ debug' = FALSE
    BY DEF Exit, Crash, ProcessGone
  <1>2. \A c \in Calls : /\ handler'[c] = IF c \in Pending THEN "lost" ELSE handler[c]
                         /\ c \notin Pending'
    BY DEF Exit, Crash, Pending, TypeInv, TypeOK
  <1>3. handler' \in [Calls -> {"none", "running", "switched", "replied", "lost"}]
    BY DEF Exit, Crash, TypeInv, TypeOK
  <1>4. StoreInv' /\ Store!TypeOK'
    BY <1>1, StoreEmptied, StoreNext
  <1>5. boot \in Nat /\ boot' \in 0 .. MaxRestarts + 1
    BY <1>1, RestartAssumption DEF TypeInv, TypeOK
  <1>6. /\ \A op : Replied(op)' = Replied(op) /\ Granted(op)' = Granted(op)
        /\ \A op : \A c \in Replied(op) : c \in Calls /\ handler[c] = "replied"
        /\ \A op : \A c \in Granted(op) : c \in Calls
    BY <1>1, <1>2 DEF Replied, Granted, Pending
  <1>7. \A u : Deleted(u)' <=> Deleted(u)
    BY <1>1, <1>6 DEF Deleted
  <1>8. TypeInv'
    BY <1>1, <1>2, <1>3, <1>4, <1>5 DEF TypeInv, TypeOK, Pending
  <1>9. \A c \in Calls : handler'[c] = "replied" =>
            handler[c] = "replied" /\ reply[c].boot <= boot /\ reply[c].boot \in Nat
    BY <1>2 DEF BootInv, TypeInv, TypeOK, Replies
  <1>10. BootInv'
    BY <1>1, <1>5, <1>9 DEF BootInv
  <1>11. ShownInv'
    BY <1>1, <1>5, <1>6, <1>9 DEF ShownInv
  <1>12. DeletedInv'
    BY <1>1, <1>6 DEF DeletedInv, DeletedForGood, Store!EmptyMap
  <1>13. DebugInv'
    BY <1>1, <1>2, <1>6 DEF DebugInv, DebugReplyExplained, Pending
  <1>14. RetryMakesNoSecondKey'
    BY <1>1, <1>6, <1>7 DEF RetryMakesNoSecondKey
  <1>. QED
    BY <1>4, <1>8, <1>10, <1>11, <1>12, <1>13, <1>14

(* The first half of ConfigureDebug. *)
LEMMA SwitchStep ==
    ASSUME ControlInv, NEW c \in Calls, SwitchDebug(c)
    PROVE  ControlInv'
  <1>. USE DEF ControlInv
  <1>1. /\ Running(c, "debug") /\ handler' = [handler EXCEPT ![c] = "switched"]
        /\ debug' = command[c].on /\ UNCHANGED <<store, process, command, client, reply>>
        /\ overtaken' = overtaken \cup {d \in Calls : handler[d] = "switched"}
    BY DEF SwitchDebug
  <1>2. /\ c \in Pending /\ client[c] # "idle" /\ handler[c] = "running"
        /\ command[c].op = "debug" /\ command[c].on \in BOOLEAN
    BY <1>1, CommandType
  <1>3. \A d \in Calls : handler'[d] = IF d = c THEN "switched" ELSE handler[d]
    BY <1>1 DEF TypeInv, TypeOK
  <1>4. StoreInv' /\ Store!TypeOK'
    BY <1>1, StoreUntouched, StoreNext
  <1>5. TypeInv'
    <2>1. handler' \in [Calls -> {"none", "running", "switched", "replied", "lost"}]
      BY <1>1 DEF TypeInv, TypeOK
    <2>2. server # "down"
      BY <1>2 DEF TypeInv, TypeOK
    <2>. QED
      BY <1>1, <1>2, <1>3, <1>4, <2>1, <2>2 DEF TypeInv, TypeOK, Pending
  <1>6. /\ \A op : Replied(op)' = Replied(op) /\ Granted(op)' = Granted(op)
        /\ \A op : \A d \in Replied(op) : d \in Calls
        /\ \A op : \A d \in Granted(op) : d \in Calls
    BY <1>1, <1>2, <1>3 DEF Replied, Granted
  <1>7. \A u : Deleted(u)' <=> Deleted(u)
    BY <1>1, <1>6 DEF Deleted
  <1>8. BootInv'
    BY <1>1, <1>2, <1>3 DEF BootInv
  <1>9. ShownInv'
    BY <1>1, <1>2, <1>3, <1>6, <1>7 DEF ShownInv, Store!ListKeys
  <1>10. DeletedInv'
    BY <1>1, <1>6 DEF DeletedInv, DeletedForGood
  <1>11. DebugInv'
    <2>1. \A d \in Calls : handler'[d] = "switched" =>
             command'[d].op = "debug" /\ (d \in overtaken' \/ debug' = command'[d].on)
      BY <1>1, <1>2, <1>3 DEF DebugInv
    <2>. QED
      BY <1>1, <1>6, <2>1 DEF DebugInv, DebugReplyExplained
  <1>12. RetryMakesNoSecondKey'
    BY <1>1, <1>6, <1>7 DEF RetryMakesNoSecondKey
  <1>. QED
    BY <1>4, <1>5, <1>8, <1>9, <1>10, <1>11, <1>12

-----------------------------------------------------------------------------
(* Every answer is one of the present process, and an answer to a debug    *)
(* command that nobody interfered with says what was asked for.            *)
LEMMA AnswerBasics ==
    ASSUME ControlInv, NEW c \in Calls, c \in Pending, NEW ok \in BOOLEAN, NEW shows, NEW on,
           Reply(c, ok, shows, on), UNCHANGED <<debug, server, boot, command, overtaken>>,
           command[c].op = "debug" => c \in overtaken \/ on = command[c].on
    PROVE  BootInv' /\ DebugInv'
  <1>1. /\ handler'[c] = "replied" /\ reply'[c].boot = boot /\ reply'[c].on = on
        /\ \A d \in Calls \ {c} : handler'[d] = handler[d] /\ reply'[d] = reply[d]
        /\ \A op : Replied(op)' = IF command[c].op = op THEN Replied(op) \cup {c} ELSE Replied(op)
    BY ReplyFacts DEF ControlInv
  <1>2. server # "down" /\ boot \in Nat
    BY DEF ControlInv, TypeInv, TypeOK
  <1>3. BootInv'
    BY <1>1, <1>2 DEF ControlInv, BootInv
  <1>4. ASSUME NEW d \in Calls, handler'[d] = "switched"
        PROVE  command'[d].op = "debug" /\ (d \in overtaken' \/ debug' = command'[d].on)
    BY <1>1, <1>4 DEF ControlInv, DebugInv
  <1>5. ASSUME NEW d \in Replied("debug")', d \notin overtaken
        PROVE  reply'[d].on = command'[d].on
    <2>1. CASE d = c
      BY <1>1, <1>5, <2>1 DEF Replied
    <2>2. CASE d # c
      <3>1. d \in Replied("debug") /\ d \in Calls
        BY <1>1, <1>5, <2>2 DEF Replied
      <3>. QED
        BY <1>1, <1>5, <2>2, <3>1 DEF ControlInv, DebugInv, DebugReplyExplained
    <2>. QED
      BY <2>1, <2>2
  <1>6. DebugReplyExplained'
    BY <1>5 DEF DebugReplyExplained
  <1>7. DebugInv'
    BY <1>4, <1>6 DEF DebugInv
  <1>. QED
    BY <1>3, <1>7

(* An answer that grants no change: a refusal, a list, the debug switch.   *)
LEMMA QuietAnswer ==
    ASSUME ControlInv, NEW c \in Calls, c \in Pending, NEW ok \in BOOLEAN,
           NEW shows \in SUBSET Store!ListKeys, NEW on \in BOOLEAN,
           ok => command[c].op \notin {"add", "del"},
           Reply(c, ok, shows, on),
           UNCHANGED <<store, debug, process, command, client, overtaken>>,
           command[c].op = "debug" => c \in overtaken \/ on = command[c].on
    PROVE  ControlInv'
  <1>. USE DEF ControlInv
  <1>1. /\ reply'[c].boot = boot /\ reply'[c].shows = shows
        /\ \A d \in Calls \ {c} : handler'[d] = handler[d] /\ reply'[d] = reply[d]
        /\ Granted("add")' = Granted("add") /\ Granted("del")' = Granted("del")
        /\ \A u : Deleted(u) => Deleted(u)'
        /\ \A op : c \notin Granted(op)
    BY ReplyFacts
  <1>2. StoreInv' /\ Store!TypeOK' /\ Store!ListKeys' = Store!ListKeys
    BY StoreUntouched, StoreNext DEF Store!ListKeys
  <1>3. shows \subseteq issued /\ shows \subseteq Store!KeyRecord
    BY StoreFacts DEF Store!ListKeys, Store!TypeOK
  <1>4. TypeInv'
    BY <1>2, <1>3, TypeReply DEF TypeInv, TypeOK
  <1>5. BootInv' /\ DebugInv'
    BY AnswerBasics
  <1>6. \A op : Granted(op) \subseteq Calls
    BY DEF Granted, Replied
  <1>7. ShownInv'
    BY <1>1, <1>2, <1>3, <1>6 DEF ShownInv
  <1>8. DeletedInv'
    BY <1>1 DEF DeletedInv, DeletedForGood
  <1>9. RetryMakesNoSecondKey'
    BY <1>1, <1>6 DEF RetryMakesNoSecondKey
  <1>. QED
    BY <1>2, <1>4, <1>5, <1>7, <1>8, <1>9

(* `key add` is granted.  The duplicate scan makes sure that the key an    *)
(* earlier command was granted for the same credential is no longer there, *)
(* so a deletion of it has succeeded.                                      *)
LEMMA GrantAdd ==
    ASSUME ControlInv, NEW c \in Calls, Running(c, "add"), command[c].route \in Routes,
           command[c].real # Blank, NEW id \in UUIDs, NEW ik \in InternalKeys,
           Store!AddKey(command[c].route, command[c].real, id, ik),
           Reply(c, TRUE, {Store!NewRecord(command[c].route, command[c].real, id, ik)}, FALSE),
           UNCHANGED <<debug, process, command, client, overtaken>>
    PROVE  ControlInv'
  <1>. USE DEF ControlInv
  <1>. DEFINE route == command[c].route
              real  == command[c].real
              rec   == Store!NewRecord(route, real, id, ik)
  <1>1. c \in Pending /\ client[c] # "idle" /\ command[c].op = "add"
    BY CommandType
  <1>2. real \in RealKeys
    <2>1. command[c] \in Commands
      BY <1>1 DEF TypeInv, TypeOK
    <2>. QED
      BY <1>1, <2>1 DEF Commands
  <1>3. /\ rec \in Store!KeyRecord /\ rec.uuid = id /\ rec.route = route /\ rec.real = real
    BY <1>2, DigestAssumption DEF Store!NewRecord, Store!KeyRecord
  <1>4. /\ keys' = Store!Put(keys, id, rec) /\ issued' = issued \cup {rec}
        /\ byHash' = Store!Put(byHash, rec.hash, rec)
        /\ \A x \in issued : x.uuid # id
        /\ ~Store!Duplicate(route, real)
    BY <1>3 DEF Store!AddKey, Store!FreshId
  <1>5. StoreInv' /\ Store!TypeOK'
    BY <1>2, AddKeyInv, StoreNext
  <1>. HIDE DEF rec
  <1>6. /\ Store!ListKeys' = Store!ListKeys \cup {rec}
        /\ DOMAIN keys' = DOMAIN keys \cup {id}
        /\ \A h \in DOMAIN byHash' : byHash'[h] = rec \/ (h \in DOMAIN byHash /\ byHash'[h] = byHash[h])
    <2>1. id \notin DOMAIN keys
      BY <1>4, StoreFacts
    <2>. QED
      BY <1>4, <2>1 DEF Store!ListKeys, Store!Put
  <1>7. /\ reply'[c].boot = boot /\ reply'[c].shows = {rec}
        /\ \A d \in Calls \ {c} : handler'[d] = handler[d] /\ reply'[d] = reply[d]
        /\ Granted("add")' = Granted("add") \cup {c} /\ Granted("del")' = Granted("del")
        /\ \A u : Deleted(u) => Deleted(u)'
        /\ \A op : c \notin Granted(op)
    BY <1>1, ReplyFacts DEF rec
  <1>8. TypeInv'
    BY <1>1, <1>3, <1>5, TypeReply DEF rec, TypeInv, TypeOK
  <1>9. BootInv' /\ DebugInv'
    BY <1>1, AnswerBasics DEF rec
  <1>10. \A op : Granted(op) \subseteq Calls /\ \A d \in Granted(op) : handler[d] = "replied"
    BY DEF Granted, Replied
  <1>11. ShownInv'
    BY <1>3, <1>4, <1>6, <1>7, <1>10 DEF ShownInv
  <1>12. DeletedInv'
    <2>1. \A d \in Granted("del") : command[d].uuid # id
      BY <1>4 DEF DeletedInv
    <2>2. \A d \in Granted("del")' : \E x \in issued' : x.uuid = command'[d].uuid
      BY <1>4, <1>7 DEF DeletedInv
    <2>3. DeletedForGood'
      BY <1>3, <1>6, <1>7, <2>1 DEF DeletedInv, DeletedForGood
    <2>. QED
      BY <2>2, <2>3 DEF DeletedInv
  <1>13. ASSUME NEW d \in Granted("add"), reply[d].boot = boot, command[d] = command[c]
         PROVE  \E x \in reply[d].shows : Deleted(x.uuid)'
    <2>1. PICK x \in reply[d].shows : x.route = route /\ x.real = real
      BY <1>13 DEF ShownInv
    <2>2. x \notin Store!ListKeys
      BY <1>4, <2>1 DEF Store!Duplicate
    <2>3. Deleted(x.uuid)
      BY <1>10, <1>13, <2>1, <2>2 DEF ShownInv
    <2>. QED
      BY <1>7, <2>1, <2>3
  <1>14. RetryMakesNoSecondKey'
    <2>. SUFFICES ASSUME NEW d \in Granted("add")', NEW e \in Granted("add")', d # e,
                         reply'[d].boot = reply'[e].boot, command'[d] = command'[e]
                  PROVE  \E x \in reply'[d].shows \cup reply'[e].shows : Deleted(x.uuid)'
      BY DEF RetryMakesNoSecondKey
    <2>1. CASE d = c
      BY <1>7, <1>10, <1>13, <2>1
    <2>2. CASE e = c
      BY <1>7, <1>10, <1>13, <2>2
    <2>3. CASE d # c /\ e # c
      <3>1. /\ d \in Granted("add") /\ e \in Granted("add")
            /\ reply'[d] = reply[d] /\ reply'[e] = reply[e]
        BY <1>7, <1>10, <2>3
      <3>. QED
        BY <1>7, <3>1 DEF RetryMakesNoSecondKey
    <2>. QED
      BY <2>1, <2>2, <2>3
  <1>. QED
    BY <1>5, <1>8, <1>9, <1>11, <1>12, <1>14

(* `key del` is granted: the key was there, so no earlier deletion of it   *)
(* has succeeded, and now it is in neither index.                          *)
LEMMA GrantDelete ==
    ASSUME ControlInv, NEW c \in Calls, Running(c, "del"),
           Store!DeleteKey(command[c].uuid), Reply(c, TRUE, {}, FALSE),
           UNCHANGED <<debug, process, command, client, overtaken>>
    PROVE  ControlInv'
  <1>. USE DEF ControlInv
  <1>. DEFINE uid == command[c].uuid
  <1>1. c \in Pending /\ client[c] # "idle" /\ command[c].op = "del" /\ uid \in UUIDs
    BY CommandType
  <1>2. /\ uid \in DOMAIN keys /\ keys' = Store!Remove(keys, uid)
        /\ byHash' = Store!Remove(byHash, keys[uid].hash) /\ issued' = issued
    BY DEF Store!DeleteKey
  <1>3. StoreInv' /\ Store!TypeOK'
    BY <1>1, DeleteKeyInv, StoreNext
  <1>4. /\ keys[uid] \in issued /\ keys[uid].uuid = uid
        /\ \A h \in DOMAIN byHash : byHash[h].uuid = uid => h = keys[uid].hash
    BY <1>2, StoreFacts
  <1>5. /\ DOMAIN keys' = DOMAIN keys \ {uid}
        /\ \A x \in Store!ListKeys : x = keys[uid] \/ x \in Store!ListKeys'
        /\ \A h \in DOMAIN byHash' : h \in DOMAIN byHash /\ h # keys[uid].hash /\ byHash'[h] = byHash[h]
    BY <1>2 DEF Store!ListKeys, Store!Remove
  <1>6. /\ reply'[c].boot = boot /\ reply'[c].shows = {}
        /\ \A d \in Calls \ {c} : handler'[d] = handler[d] /\ reply'[d] = reply[d]
        /\ Granted("add")' = Granted("add") /\ Granted("del")' = Granted("del") \cup {c}
        /\ \A u : Deleted(u) => Deleted(u)'
        /\ \A op : c \notin Granted(op)
    BY <1>1, ReplyFacts
  <1>7. Deleted(uid)'
    BY <1>6 DEF Deleted
  <1>8. TypeInv'
    BY <1>1, <1>3, TypeReply DEF TypeInv, TypeOK
  <1>9. BootInv' /\ DebugInv'
    BY <1>1, AnswerBasics
  <1>10. \A op : Granted(op) \subseteq Calls
    BY DEF Granted, Replied
  <1>11. ShownInv'
    BY <1>2, <1>4, <1>5, <1>6, <1>7, <1>10 DEF ShownInv
  <1>12. DeletedInv'
    <2>1. \A d \in Granted("del") : command[d].uuid # uid
      BY <1>2 DEF DeletedInv, DeletedForGood
    <2>2. \A d \in Granted("del")' : \E x \in issued' : x.uuid = command'[d].uuid
      BY <1>2, <1>4, <1>6 DEF DeletedInv
    <2>3. DeletedForGood'
      BY <1>4, <1>5, <1>6, <2>1 DEF DeletedInv, DeletedForGood
    <2>. QED
      BY <2>2, <2>3 DEF DeletedInv
  <1>13. RetryMakesNoSecondKey'
    BY <1>6, <1>10 DEF RetryMakesNoSecondKey
  <1>. QED
    BY <1>3, <1>8, <1>9, <1>11, <1>12, <1>13

(* Every step of a handler. *)
LEMMA HandlerStep ==
    ASSUME ControlInv, NEW c \in Calls, Handle(c)
    PROVE  ControlInv'
  <1>1. CASE AddKey(c)
    <2>1. Running(c, "add") /\ UNCHANGED <<debug, process, command, client, overtaken>>
      BY <1>1 DEF AddKey
    <2>2. c \in Pending /\ command[c].op = "add"
      BY <2>1, CommandType DEF ControlInv
    <2>3. CASE Reply(c, FALSE, {}, FALSE) /\ UNCHANGED store
      BY <2>1, <2>2, <2>3, QuietAnswer
    <2>4. ASSUME command[c].route \in Routes, command[c].real # Blank,
                 NEW id \in UUIDs, NEW ik \in InternalKeys,
                 Store!AddKey(command[c].route, command[c].real, id, ik),
                 Reply(c, TRUE, {Store!NewRecord(command[c].route, command[c].real, id, ik)}, FALSE)
          PROVE  ControlInv'
      BY <2>1, <2>4, GrantAdd
    <2>. QED
      BY <1>1, <2>3, <2>4 DEF AddKey
  <1>2. CASE DeleteKey(c)
    <2>1. Running(c, "del") /\ UNCHANGED <<debug, process, command, client, overtaken>>
      BY <1>2 DEF DeleteKey
    <2>2. c \in Pending /\ command[c].op = "del"
      BY <2>1, CommandType DEF ControlInv
    <2>3. CASE Reply(c, FALSE, {}, FALSE) /\ UNCHANGED store
      BY <2>1, <2>2, <2>3, QuietAnswer
    <2>4. CASE Store!DeleteKey(command[c].uuid) /\ Reply(c, TRUE, {}, FALSE)
      BY <2>1, <2>4, GrantDelete
    <2>. QED
      BY <1>2, <2>3, <2>4 DEF DeleteKey
  <1>3. CASE ListKeys(c)
    <2>1. /\ Running(c, "list") /\ Reply(c, TRUE, Store!ListKeys, FALSE)
          /\ UNCHANGED <<store, debug, process, command, client, overtaken>>
      BY <1>3 DEF ListKeys
    <2>2. c \in Pending /\ command[c].op = "list"
      BY <2>1, CommandType DEF ControlInv
    <2>. QED
      BY <2>1, <2>2, QuietAnswer
  <1>4. CASE SwitchDebug(c)
    BY <1>4, SwitchStep
  <1>5. CASE ReportDebug(c)
    <2>1. /\ handler[c] = "switched" /\ Reply(c, TRUE, {}, debug) /\ c \in Pending
          /\ UNCHANGED <<store, debug, process, command, client, overtaken>>
      BY <1>5 DEF ReportDebug, Pending
    <2>2. command[c].op = "debug" /\ (c \in overtaken \/ debug = command[c].on) /\ debug \in BOOLEAN
      BY <2>1 DEF ControlInv, DebugInv, TypeInv, TypeOK
    <2>. QED
      BY <2>1, <2>2, QuietAnswer
  <1>. QED
    BY <1>1, <1>2, <1>3, <1>4, <1>5 DEF Handle

(* The invariant holds throughout. *)
LEMMA ControlInvariant == Spec => []ControlInv
  <1>1. ControlInv /\ [Next]_vars => ControlInv'
    BY OtherStep, GoneStep, HandlerStep DEF Next
  <1>. QED
    BY <1>1, ControlInit, PTL DEF Spec

-----------------------------------------------------------------------------
(* A key that a command has shown works until a deletion of it succeeds or *)
(* the process ends, for any number of commands whose handlers overlap,    *)
(* whose clients have given up, or whose answers arrive late (AddKey,      *)
(* ListKeys, DeleteKey of the handler).                                    *)
THEOREM ShownKeysWork == Spec => []ShownKeyWorks
  <1>1. ControlInv => ShownKeyWorks
    <2>. SUFFICES ASSUME ControlInv, NEW c \in Calls, handler[c] = "replied",
                         reply[c].boot = boot, NEW x \in reply[c].shows, ~Deleted(x.uuid)
                  PROVE  Store!Found(x.internal) /\ Store!GetKeyByInternal(x.internal) = x
      BY DEF ShownKeyWorks
    <2>1. x \in Store!ListKeys
      BY DEF ControlInv, ShownInv
    <2>. QED
      BY <2>1, StoreFacts DEF ControlInv, Store!ListKeys
  <1>. QED
    BY <1>1, ControlInvariant, PTL

(* A deletion that succeeded is the only one of its UUID and is final, in  *)
(* this process and in later ones (DeleteKey of the handler).              *)
THEOREM DeletionsAreFinal == Spec => []DeletedForGood
  <1>1. ControlInv => DeletedForGood
    BY DEF ControlInv, DeletedInv
  <1>. QED
    BY <1>1, ControlInvariant, PTL

(* Two `key add` commands for one credential and route are never both      *)
(* granted by one process without a deletion in between: a retry after the *)
(* three seconds of the CLI makes no second key (AddKey).                  *)
THEOREM RetriesAreSafe == Spec => []RetryMakesNoSecondKey
  <1>1. ControlInv => RetryMakesNoSecondKey
    BY DEF ControlInv
  <1>. QED
    BY <1>1, ControlInvariant, PTL

(* The answer to a debug command contradicts the command only if another   *)
(* one switched in the middle of it (ConfigureDebug).                      *)
THEOREM DebugExplained == Spec => []DebugReplyExplained
  <1>1. ControlInv => DebugReplyExplained
    BY DEF ControlInv, DebugInv
  <1>. QED
    BY <1>1, ControlInvariant, PTL

(* The control plane is well typed, and no handler outlives its process.   *)
THEOREM TypeCorrect == Spec => []TypeOK
  <1>1. ControlInv => TypeOK
    BY DEF ControlInv, TypeInv
  <1>. QED
    BY <1>1, ControlInvariant, PTL

(* The index by UUID and the index by hash always hold the same records:   *)
(* AddKey and DeleteKey change both, and a process that ends loses both.   *)
THEOREM IndexesAgree == Spec => []IndexAgreement
  <1>1. ControlInv => IndexAgreement
    BY DEF ControlInv, StoreInv, IndexAgreement
  <1>. QED
    BY <1>1, ControlInvariant, PTL

(* No upstream credential is registered twice on a route at a time: the    *)
(* duplicate scan of AddKey, whatever handlers run between two of them.    *)
THEOREM CredentialsAreUnique == Spec => []NoDuplicateCredential
  <1>1. ControlInv => NoDuplicateCredential
    BY DEF ControlInv, StoreInv, NoDuplicateCredential
  <1>. QED
    BY <1>1, ControlInvariant, PTL

(* A deleted key never resolves again, in no later process either, and a   *)
(* key that resolves resolves to the record it was issued with             *)
(* (GetKeyByInternal).                                                     *)
THEOREM Revocation == Spec => []RevokedStaysRevoked
  <1>1. StoreInv => RevokedStaysRevoked
    <2>. SUFFICES ASSUME StoreInv, NEW x \in issued, Store!Found(x.internal)
                  PROVE  Store!GetKeyByInternal(x.internal) = x /\ x.uuid \in DOMAIN keys
      BY DEF RevokedStaysRevoked, Store!RevokedStaysRevoked
    <2>. DEFINE h == Hash[x.internal]
    <2>1. /\ h \in DOMAIN byHash /\ byHash[h].hash = h
          /\ byHash[h].uuid \in DOMAIN keys /\ keys[byHash[h].uuid] = byHash[h]
      BY DEF StoreInv, Store!IndexAgreement, Store!Found
    <2>2. byHash[h] \in issued /\ byHash[h].hash = Hash[byHash[h].internal]
      BY <2>1 DEF StoreInv, Issued, Store!ListKeys
    <2>3. x.internal \in InternalKeys /\ byHash[h].internal \in InternalKeys
      BY <2>2 DEF StoreInv, Store!TypeOK, Store!KeyRecord
    <2>4. byHash[h].internal = x.internal
      BY <2>1, <2>2, <2>3, DigestAssumption
    <2>5. byHash[h] = x
      BY <2>2, <2>4 DEF StoreInv, Issued
    <2>. QED
      BY <2>1, <2>5 DEF Store!GetKeyByInternal
  <1>2. ControlInv => StoreInv
    BY DEF ControlInv
  <1>. QED
    BY <1>1, <1>2, ControlInvariant, PTL
=============================================================================
