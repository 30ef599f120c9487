---------------------------- MODULE ControlPlane ----------------------------
(***************************************************************************)
(* The control plane: CLI commands (cmd/cli/main.go) that call the         *)
(* AdminHandler (grpc/handler.go) of the gateway process, whose key store  *)
(* and debug switch it changes.  A command is one run of the CLI: it sends *)
(* one RPC, waits for the reply and ends.  `key add` gives up after three  *)
(* seconds, the other commands wait as long as the connection lasts; the   *)
(* handler never looks at the context of its call, so a call that nobody   *)
(* waits for any more is carried out all the same.                         *)
(*                                                                         *)
(* The key store lives in the process: a restart empties it.  GracefulStop *)
(* refuses new calls and waits for the handlers that are running.          *)
(***************************************************************************)
EXTENDS Naturals, FiniteSets

CONSTANTS
    Calls,      \* runs of the CLI
    Routes,     \* the routes of the configuration
    NoRoute,    \* a route that is not configured
    RealKeys,   \* upstream credentials
    Blank,      \* an empty credential
    UUIDs, InternalKeys, Hashes, Hash,   \* the key store
    MaxRestarts,  \* bound: how often the process is started again
    Script,     \* bound: the commands that each run of the CLI may be given
    None        \* a value that is not there

ASSUME NamesAssumption   == NoRoute \notin Routes /\ Blank \notin RealKeys
ASSUME RestartAssumption == MaxRestarts \in Nat

(* No two internal keys collide under SHA-256. *)
ASSUME DigestAssumption ==
    /\ Hash \in [InternalKeys -> Hashes]
    /\ \A k, l \in InternalKeys : Hash[k] = Hash[l] => k = l

VARIABLES
    keys, byHash, issued,   \* the key store
    debug,     \* logx.debugEnabled
    server,    \* the gateway process: up, stopping or down
    boot,      \* how many processes there have been before this one
    command,   \* what each run of the CLI was asked to do
    client,    \* how far it has got, and how it ended
    handler,   \* the handler's goroutine of each call
    reply,     \* what the handler returned
    overtaken  \* history: debug commands another one interfered with

Store == INSTANCE KeyStore

store   == <<keys, byHash, issued>>
process == <<server, boot>>
vars    == <<store, debug, process, command, client, handler, reply, overtaken>>

Commands ==
    [op: {"add"}, route: Routes \cup {NoRoute}, real: RealKeys \cup {Blank}]
        \cup [op: {"del"}, uuid: UUIDs]
        \cup [op: {"list"}]
        \cup [op: {"debug"}, on: BOOLEAN]

ASSUME ScriptAssumption == Script \in [Calls -> SUBSET Commands]

(* A reply: in which process it was made, success or error, the keys it    *)
(* shows, and the state of the debug switch.                               *)
Replies == [boot: Nat, ok: BOOLEAN, shows: SUBSET Store!KeyRecord, on: BOOLEAN]

Init ==
    /\ Store!Init
    /\ debug = FALSE
    /\ server = "up"
    /\ boot = 0
    /\ command = [c \in Calls |-> None]
    /\ client = [c \in Calls |-> "idle"]
    /\ handler = [c \in Calls |-> "none"]
    /\ reply = [c \in Calls |-> None]
    /\ overtaken = {}

-----------------------------------------------------------------------------
(* The CLI starts and sends its RPC; with no server to take it, it fails.  *)
Invoke(c, cmd) ==
    /\ client[c] = "idle"
    /\ command' = [command EXCEPT ![c] = cmd]
    /\ IF server = "up"
       THEN /\ client' = [client EXCEPT ![c] = "waiting"]
            /\ handler' = [handler EXCEPT ![c] = "running"]
       ELSE /\ client' = [client EXCEPT ![c] = "failed"]
            /\ UNCHANGED handler
    /\ UNCHANGED <<store, debug, process, reply, overtaken>>

(* The deadline of handleKeyAdd; the handler runs on. *)
TimeOut(c) ==
    /\ client[c] = "waiting"
    /\ command[c].op = "add"
    /\ client' = [client EXCEPT ![c] = "failed"]
    /\ UNCHANGED <<store, debug, process, command, handler, reply, overtaken>>

(* The connection breaks, on its own or with the process. *)
ConnectionLost(c) ==
    /\ client[c] = "waiting"
    /\ client' = [client EXCEPT ![c] = "failed"]
    /\ UNCHANGED <<store, debug, process, command, handler, reply, overtaken>>

(* The reply arrives: `key del` of an unknown UUID is an error too. *)
Receive(c) ==
    /\ client[c] = "waiting"
    /\ handler[c] = "replied"
    /\ client' = [client EXCEPT ![c] = IF reply[c].ok THEN "ok" ELSE "failed"]
    /\ UNCHANGED <<store, debug, process, command, handler, reply, overtaken>>

(* The handler of call c returns. *)
Reply(c, ok, shows, on) ==
    /\ handler' = [handler EXCEPT ![c] = "replied"]
    /\ reply' = [reply EXCEPT ![c] = [boot |-> boot, ok |-> ok, shows |-> shows, on |-> on]]

Running(c, op) == handler[c] = "running" /\ command[c].op = op

(* Mutant: a refused credential is logged and never answered. *)
AddKeySilently(c) ==
    /\ Running(c, "add")
    /\ \E id \in UUIDs, ik \in InternalKeys :
          /\ Store!AddKey(command[c].route, command[c].real, id, ik)
          /\ Reply(c, TRUE, {Store!NewRecord(command[c].route, command[c].real, id, ik)}, FALSE)
    /\ UNCHANGED <<debug, process, command, client, overtaken>>

(* An unknown route, a blank credential and a duplicate are refused, and   *)
(* anything else may be too, if there are no random bytes for its UUID or  *)
(* its key: nothing is stored then.                                        *)
AddKey(c) ==
    /\ Running(c, "add")
    /\ LET route == command[c].route
           real  == command[c].real
       IN  \/ /\ Reply(c, FALSE, {}, FALSE)
              /\ UNCHANGED store
           \/ /\ route \in Routes
              /\ real # Blank
              /\ \E id \in UUIDs, ik \in InternalKeys :
                    /\ Store!AddKey(route, real, id, ik)
                    /\ Reply(c, TRUE, {Store!NewRecord(route, real, id, ik)}, FALSE)
    /\ UNCHANGED <<debug, process, command, client, overtaken>>

(* Mutants: the handler of an unknown UUID never returns; a deletion       *)
(* always reports success.                                                 *)
DeleteKeySilently(c) ==
    /\ Running(c, "del")
    /\ Store!DeleteKey(command[c].uuid)
    /\ Reply(c, TRUE, {}, FALSE)
    /\ UNCHANGED <<debug, process, command, client, overtaken>>

DeleteKeyAlwaysOk(c) ==
    /\ Running(c, "del")
    /\ LET uid == command[c].uuid
       IN  /\ \/ Store!DeleteKey(uid)
              \/ uid \notin DOMAIN keys /\ UNCHANGED store
           /\ Reply(c, TRUE, {}, FALSE)
    /\ UNCHANGED <<debug, process, command, client, overtaken>>

DeleteKey(c) ==
    /\ Running(c, "del")
    /\ LET uid == command[c].uuid
       IN  \/ /\ Store!DeleteKey(uid)
              /\ Reply(c, TRUE, {}, FALSE)
           \/ /\ uid \notin DOMAIN keys
              /\ Reply(c, FALSE, {}, FALSE)
              /\ UNCHANGED store
    /\ UNCHANGED <<debug, process, command, client, overtaken>>

(* Mutant: the list is made from every record ever stored. *)
ListAllKeys(c) ==
    /\ Running(c, "list")
    /\ Reply(c, TRUE, issued, FALSE)
    /\ UNCHANGED <<store, debug, process, command, client, overtaken>>

ListKeys(c) ==
    /\ Running(c, "list")
    /\ Reply(c, TRUE, Store!ListKeys, FALSE)
    /\ UNCHANGED <<store, debug, process, command, client, overtaken>>

(* Mutant: the switch is only ever turned on. *)
EnableDebug(c) ==
    /\ Running(c, "debug")
    /\ debug' = (debug \/ command[c].on)
    /\ handler' = [handler EXCEPT ![c] = "switched"]
    /\ overtaken' = overtaken \cup {d \in Calls : handler[d] = "switched"}
    /\ UNCHANGED <<store, process, command, client, reply>>

(* ConfigureDebug stores the flag, then loads it for the reply. *)
SwitchDebug(c) ==
    /\ Running(c, "debug")
    /\ debug' = command[c].on
    /\ handler' = [handler EXCEPT ![c] = "switched"]
    /\ overtaken' = overtaken \cup {d \in Calls : handler[d] = "switched"}
    /\ UNCHANGED <<store, process, command, client, reply>>

ReportDebug(c) ==
    /\ handler[c] = "switched"
    /\ Reply(c, TRUE, {}, debug)
    /\ UNCHANGED <<store, debug, process, command, client, overtaken>>

Pending == {c \in Calls : handler[c] \in {"running", "switched"}}

(* SIGINT or SIGTERM: waitForShutdown calls GracefulStop. *)
Signal ==
    /\ server = "up"
    /\ server' = "stopping"
    /\ UNCHANGED <<store, debug, boot, command, client, handler, reply, overtaken>>

(* The process ends, and with it its handlers, the keys and the switch.    *)
ProcessGone ==
    /\ server' = "down"
    /\ boot' = boot + 1
    /\ keys' = Store!EmptyMap
    /\ byHash' = Store!EmptyMap
    /\ debug' = FALSE
    /\ UNCHANGED <<issued, command, client, reply, overtaken>>

(* GracefulStop has returned and main returns. *)
Exit ==
    /\ server = "stopping"
    /\ Pending = {}
    /\ ProcessGone
    /\ UNCHANGED handler

(* fatalf, or the process is killed. *)
Crash ==
    /\ server # "down"
    /\ ProcessGone
    /\ handler' = [c \in Calls |-> IF c \in Pending THEN "lost" ELSE handler[c]]

Boot ==
    /\ server = "down"
    /\ boot <= MaxRestarts
    /\ server' = "up"
    /\ UNCHANGED <<store, debug, boot, command, client, handler, reply, overtaken>>

Handle(c) == AddKey(c) \/ DeleteKey(c) \/ ListKeys(c) \/ SwitchDebug(c) \/ ReportDebug(c)

Next ==
    \/ \E c \in Calls :
          \/ \E cmd \in Script[c] : Invoke(c, cmd)
          \/ TimeOut(c)
          \/ ConnectionLost(c)
          \/ Receive(c)
          \/ Handle(c)
    \/ Signal
    \/ Exit
    \/ Crash
    \/ Boot

(* The Go scheduler runs the handlers and main; gRPC delivers a reply or   *)
(* reports that the call is lost.                                          *)
Fairness ==
    /\ \A c \in Calls : WF_vars(Handle(c))
    /\ \A c \in Calls : WF_vars(Receive(c) \/ (handler[c] = "lost" /\ ConnectionLost(c)))
    /\ WF_vars(Exit)

Spec     == Init /\ [][Next]_vars
FairSpec == Spec /\ Fairness

-----------------------------------------------------------------------------
TypeOK ==
    /\ Store!TypeOK
    /\ debug \in BOOLEAN
    /\ server \in {"up", "stopping", "down"}
    /\ boot \in 0 .. MaxRestarts + 1
    /\ client \in [Calls -> {"idle", "waiting", "ok", "failed"}]
    /\ handler \in [Calls -> {"none", "running", "switched", "replied", "lost"}]
    /\ overtaken \subseteq Calls
    /\ \A c \in Calls :
          /\ IF client[c] = "idle" THEN command[c] = None ELSE command[c] \in Commands
          /\ IF handler[c] = "replied" THEN reply[c] \in Replies ELSE reply[c] = None
          /\ c \in Pending => server # "down"

Replied(op)  == {c \in Calls : handler[c] = "replied" /\ command[c].op = op}
Granted(op)  == {c \in Replied(op) : reply[c].ok}
Deleted(uid) == \E d \in Granted("del") : command[d].uuid = uid

(* A key that a command has shown, generated by `key add` or listed by     *)
(* `key list`, authenticates requests with the credential it was shown     *)
(* for, until a deletion of it succeeds or the process ends; a reply that  *)
(* arrives late, after other commands were carried out, included.          *)
ShownKeyWorks ==
    \A c \in Calls :
        handler[c] = "replied" /\ reply[c].boot = boot =>
            \A x \in reply[c].shows :
                \/ Store!Found(x.internal) /\ Store!GetKeyByInternal(x.internal) = x
                \/ Deleted(x.uuid)

(* A deletion that was reported to have succeeded is the only one of its   *)
(* UUID, and the key does not come back, not even in a later process.      *)
DeletedForGood ==
    \A c \in Granted("del") :
        /\ \A d \in Granted("del") : command[d].uuid = command[c].uuid => d = c
        /\ command[c].uuid \notin DOMAIN keys
        /\ \A h \in DOMAIN byHash : byHash[h].uuid # command[c].uuid

(* A retry after a time-out makes no second key: of two `key add` commands *)
(* for the same credential and route that one process granted, one key has *)
(* been deleted.                                                           *)
RetryMakesNoSecondKey ==
    \A c, d \in Granted("add") :
        /\ c # d
        /\ reply[c].boot = reply[d].boot
        /\ command[c] = command[d]
        => \E x \in reply[c].shows \cup reply[d].shows : Deleted(x.uuid)

(* What the key store promises its two users, the administrator and the    *)
(* proxy, kept by handlers that run concurrently, whether anybody waits    *)
(* for them or not, and across restarts.  Both indexes hold the same       *)
(* records (AddKey, DeleteKey):                                            *)
IndexAgreement == Store!IndexAgreement

(* no credential is registered twice on a route (the scan of AddKey):      *)
NoDuplicateCredential == Store!NoDuplicateCredential

(* no deleted key resolves again (DeleteKey, GetKeyByInternal).            *)
RevokedStaysRevoked == Store!RevokedStaysRevoked

(* The reply to `debug on` or `debug off` contradicts the request only if  *)
(* another command switched between the store and the load of its handler. *)
DebugReplyExplained ==
    \A c \in Replied("debug") \ overtaken : reply[c].on = command[c].on

(* Every command ends: its handler answers, or the call is lost.           *)
EveryCommandEnds == \A c \in Calls : client[c] = "waiting" ~> client[c] # "waiting"

(* GracefulStop waits for the handlers without a time limit and returns.   *)
ShutdownCompletes == server = "stopping" ~> server = "down"
=============================================================================
