---------------------------- MODULE ServerStart ----------------------------
(***************************************************************************)
(* The life of the server process (cmd/server/main.go) and of the files it *)
(* shares with other processes in the data directory: the certificate and  *)
(* its key, which `-gen-cert` writes (internal/tls/cert.go) and the proxy  *)
(* loads, the configuration file, which is read twice, and its backups.    *)
(* Several processes may run over one directory, and any of them may be    *)
(* killed at any point.                                                    *)
(***************************************************************************)
EXTENDS Integers, FiniteSets

CONSTANTS
    Procs,      \* places for processes that run at the same time
    Paths,      \* configuration files: the default one and those given with -f
    Default,    \* the configuration file in the data directory
    Versions,   \* contents of a configuration file
    Valid,      \* the versions that Parse accepts
    PlanOf,     \* buildPlanName of a version
    FirstApml,  \* the contents of the configuration files at the beginning
    Own,        \* a pair the operator has put there
    Absent, Empty, Broken, None,
    Script,     \* bound: how a process at each place may be started
    MaxStarts,  \* bound: processes started
    MaxEdits    \* bound: edits of configuration files

ASSUME StartAssumption ==
    /\ Default \in Paths /\ Valid \subseteq Versions
    /\ FirstApml \in [Paths -> Versions]
    /\ Script \in [Procs -> SUBSET [gen : BOOLEAN, path : Paths]]
    /\ MaxStarts \in Nat /\ MaxEdits \in Nat

(* The marks are no pairs, and None is no configuration and no end.        *)
ASSUME MarkAssumption ==
    /\ ({Own} \cup 1 .. MaxStarts) \cap {Absent, Empty, Broken, None} = {}
    /\ None \notin Valid \cup {"ok", "error", "failed", "killed"}

VARIABLES
    crt, key,   \* ai.local.crt and ai.local.key
    apml,       \* the configuration files
    copies,     \* the copies of configurations and the plans they are filed under
    proc,       \* the processes
    starts, edits, \* how many have been started and edited
    good,       \* history: the pair last put there whole and by one writer alone
    shared      \* history: the writers of now were not alone all the time

vars == <<crt, key, apml, copies, proc, starts, edits, good, shared>>

TlsFiles  == <<crt, key, good, shared>>
ApmlFiles == <<apml, copies, edits>>

(* A process: where main and its three goroutines are, the configuration,  *)
(* the database, the worker; what the proxy has read of the certificate    *)
(* and the backup of the configuration; how it ended.  calm, edited and up *)
(* are history.                                                            *)
NoProc ==
    [pc |-> "off", id |-> 0, gen |-> FALSE, path |-> Default, cfg |-> None, db |-> FALSE,
     worker |-> "off", grpc |-> "off", proxy |-> "off", backup |-> "off", crt |-> None,
     content |-> None, code |-> None, calm |-> None, edited |-> FALSE, up |-> FALSE]

Init ==
    /\ crt \in {Absent, Own} /\ key \in {Absent, Own}
    /\ good = IF crt = Own /\ key = Own THEN Own ELSE None
    /\ apml = FirstApml
    /\ copies = {}
    /\ proc = [p \in Procs |-> NoProc]
    /\ starts = 0 /\ edits = 0 /\ shared = FALSE

Idle(p) == proc[p].pc \in {"off", "ended"}

(* p goes on at another place, with other fields changed by the caller. *)
Goto(p, pc) == proc' = [proc EXCEPT ![p].pc = pc]

(* The end of a process; of its goroutines and its memory nothing is left. *)
End(p, status) ==
    proc' = [proc EXCEPT ![p] = [NoProc EXCEPT !.pc = "ended", !.code = status, !.gen = proc[p].gen,
                                               !.worker = proc[p].worker, !.up = proc[p].up]]

Fatal(p) == End(p, "error")

Start(p, flags) ==
    /\ Idle(p) /\ starts < MaxStarts
    /\ starts' = starts + 1
    /\ proc' = [proc EXCEPT ![p] = [NoProc EXCEPT !.pc = "begin", !.id = starts + 1,
                                                  !.gen = flags.gen, !.path = flags.path]]
    /\ UNCHANGED <<TlsFiles, ApmlFiles>>

(* main up to the branch on -gen-cert: the directory, the configuration    *)
(* and the log, each of which may fail.                                    *)
LoadConfig(p) ==
    /\ proc[p].pc = "begin"
    /\ \/ Fatal(p)
       \/ /\ apml[proc[p].path] \in Valid
          /\ proc' = [proc EXCEPT ![p].pc = IF proc[p].gen THEN "gen" ELSE "cert",
                                  ![p].cfg = apml[proc[p].path]]
    /\ UNCHANGED <<TlsFiles, ApmlFiles, starts>>

-----------------------------------------------------------------------------
(* GenerateSelfSignedCert. *)
Writing(p) == proc[p].pc \in {"crt", "crt written", "key"}

Others(p) == Procs \ {p}

(* What a file holds after p has written to it: its own pair, unless       *)
(* another process has the file open or has written since p truncated it.  *)
Written(p, file, pc) ==
    IF file = Empty /\ \A q \in Others(p) : proc[q].pc # pc
    THEN {proc[p].id} ELSE {proc[p].id, Broken}

(* The pair is made in memory, which may fail, and the certificate's file  *)
(* is truncated.                                                           *)
OpenCrt(p) ==
    /\ proc[p].pc = "gen"
    /\ \/ Fatal(p) /\ UNCHANGED TlsFiles
       \/ /\ Goto(p, "crt")
          /\ crt' = Empty /\ UNCHANGED key
          /\ good' = None
          /\ shared' = \E q \in Others(p) : Writing(q)
    /\ UNCHANGED <<ApmlFiles, starts>>

WriteCrt(p) ==
    /\ proc[p].pc = "crt"
    /\ Goto(p, "crt written")
    /\ crt' \in Written(p, crt, "crt")
    /\ UNCHANGED <<key, good, shared, ApmlFiles, starts>>

(* Mutant: a key that is there is kept. *)
OpenKeyIfAbsent(p) ==
    /\ proc[p].pc = "crt written"
    /\ \/ Fatal(p) /\ UNCHANGED key
       \/ Goto(p, "key") /\ key' = IF key = Absent THEN Empty ELSE key
    /\ UNCHANGED <<crt, good, shared, ApmlFiles, starts>>

OpenKey(p) ==
    /\ proc[p].pc = "crt written"
    /\ \/ Fatal(p) /\ UNCHANGED key
       \/ Goto(p, "key") /\ key' = Empty
    /\ UNCHANGED <<crt, good, shared, ApmlFiles, starts>>

WriteKey(p) ==
    /\ proc[p].pc = "key"
    /\ End(p, "ok")
    /\ key' \in Written(p, key, "key")
    /\ good' = IF shared THEN None ELSE proc[p].id
    /\ UNCHANGED <<crt, shared, ApmlFiles, starts>>

(* A process is killed, or a write fails, which ends it too; the file it   *)
(* is writing may have been written in part.  A signal before Notify kills.*)
Kill(p) ==
    /\ ~Idle(p)
    /\ End(p, IF Writing(p) THEN "error" ELSE "killed")
    /\ crt' \in IF proc[p].pc = "crt" THEN {crt, Broken} ELSE {crt}
    /\ key' \in IF proc[p].pc = "key" THEN {key, Broken} ELSE {key}
    /\ UNCHANGED <<good, shared, ApmlFiles, starts>>

-----------------------------------------------------------------------------
(* The start of a server. *)
CertExists(p) ==
    /\ proc[p].pc = "cert"
    /\ IF Absent \notin {crt, key} THEN Goto(p, "db") ELSE Fatal(p)
    /\ UNCHANGED <<TlsFiles, ApmlFiles, starts>>

InitDatabase(p) ==
    /\ proc[p].pc = "db"
    /\ \/ Fatal(p)
       \/ proc' = [proc EXCEPT ![p].pc = "services", ![p].db = TRUE]
    /\ UNCHANGED <<TlsFiles, ApmlFiles, starts>>

(* initServices: the stores and the worker. *)
StartWorker(p) ==
    /\ proc[p].pc = "services"
    /\ proc' = [proc EXCEPT ![p].pc = "grpc", ![p].worker = "running"]
    /\ UNCHANGED <<TlsFiles, ApmlFiles, starts>>

(* grpc.NewServer: the certificate of the control plane is made in memory, *)
(* any step of which may fail.                                             *)
NewGrpcServer(p) ==
    /\ proc[p].pc = "grpc"
    /\ Fatal(p) \/ Goto(p, "proxy")
    /\ UNCHANGED <<TlsFiles, ApmlFiles, starts>>

(* NewProxyServer, which may refuse a host, and the three go statements. *)
NewProxyServer(p) ==
    /\ proc[p].pc = "proxy"
    /\ \/ Fatal(p)
       \/ proc' = [proc EXCEPT ![p].pc = "started", ![p].grpc = "start",
                               ![p].proxy = "start", ![p].backup = "start"]
    /\ UNCHANGED <<TlsFiles, ApmlFiles, starts>>

(* waitForShutdown. *)
Notify(p) ==
    /\ proc[p].pc = "started"
    /\ Goto(p, "waiting")
    /\ UNCHANGED <<TlsFiles, ApmlFiles, starts>>

Up(p) == proc[p].pc = "waiting" /\ proc[p].grpc = "serving" /\ proc[p].proxy = "serving"

Signal(p) ==
    /\ proc[p].pc = "waiting"
    /\ proc' = [proc EXCEPT ![p].pc = "stopping", ![p].up = Up(p)]
    /\ UNCHANGED <<TlsFiles, ApmlFiles, starts>>

(* GracefulStop: Serve returns nil if it is running; it will return an     *)
(* error if it is called later.                                            *)
StopGrpc(p) ==
    /\ proc[p].pc = "stopping"
    /\ proc' = [proc EXCEPT ![p].pc = "deferred",
                            ![p].grpc = IF @ = "serving" THEN "stopped" ELSE @]
    /\ UNCHANGED <<TlsFiles, ApmlFiles, starts>>

(* Mutant: the deferred calls in the other order. *)
RunDeferredReversed(p) ==
    /\ proc[p].pc = "deferred"
    /\ IF proc[p].db THEN proc' = [proc EXCEPT ![p].db = FALSE]
       ELSE proc' = [proc EXCEPT ![p] = [NoProc EXCEPT !.pc = "ended", !.code = "ok",
                                                       !.worker = "stopped"]]
    /\ UNCHANGED <<TlsFiles, ApmlFiles, starts>>

(* main returns: UsageBackend.Stop, then db.Close. *)
RunDeferred(p) ==
    /\ proc[p].pc = "deferred"
    /\ IF proc[p].worker = "running" THEN proc' = [proc EXCEPT ![p].worker = "stopped"]
       ELSE End(p, "ok")
    /\ UNCHANGED <<TlsFiles, ApmlFiles, starts>>

-----------------------------------------------------------------------------
(* The goroutines; they end with the process. *)
Listening(q) == ~Idle(q) /\ proc[q].grpc \in {"bound", "serving"}
ProxyBound(q) == ~Idle(q) /\ proc[q].proxy \in {"bound", "crt read", "serving"}

GrpcListen(p) ==
    /\ ~Idle(p) /\ proc[p].grpc = "start"
    /\ \/ Fatal(p)
       \/ /\ \A q \in Others(p) : ~Listening(q)
          /\ proc' = [proc EXCEPT ![p].grpc = "bound"]
    /\ UNCHANGED <<TlsFiles, ApmlFiles, starts>>

GrpcServe(p) ==
    /\ ~Idle(p) /\ proc[p].grpc = "bound"
    /\ IF proc[p].pc = "deferred" THEN Fatal(p)
       ELSE proc' = [proc EXCEPT ![p].grpc = "serving"]
    /\ UNCHANGED <<TlsFiles, ApmlFiles, starts>>

(* RunTLS: the listener, then the two files, one after the other. *)
ProxyListen(p) ==
    /\ ~Idle(p) /\ proc[p].proxy = "start"
    /\ \/ Fatal(p)
       \/ /\ \A q \in Others(p) : ~ProxyBound(q)
          /\ proc' = [proc EXCEPT ![p].proxy = "bound"]
    /\ UNCHANGED <<TlsFiles, ApmlFiles, starts>>

ReadCrt(p) ==
    /\ ~Idle(p) /\ proc[p].proxy = "bound"
    /\ proc' = [proc EXCEPT ![p].proxy = "crt read", ![p].crt = crt, ![p].calm = good]
    /\ UNCHANGED <<TlsFiles, ApmlFiles, starts>>

Pair(c, k) == c = k /\ c \notin {Absent, Empty, Broken}

(* Mutant: the error of RunTLS is not looked at. *)
ReadKeyUnchecked(p) ==
    /\ ~Idle(p) /\ proc[p].proxy = "crt read"
    /\ proc' = [proc EXCEPT ![p].proxy = IF Pair(proc[p].crt, key) THEN "serving" ELSE "off"]
    /\ UNCHANGED <<TlsFiles, ApmlFiles, starts>>

ReadKey(p) ==
    /\ ~Idle(p) /\ proc[p].proxy = "crt read"
    /\ IF Pair(proc[p].crt, key)
       THEN proc' = [proc EXCEPT ![p].proxy = "serving", ![p].crt = None, ![p].calm = None]
       ELSE Fatal(p)
    /\ UNCHANGED <<TlsFiles, ApmlFiles, starts>>

(* A service that is up fails later, with its listener: Serve or RunTLS    *)
(* returns an error, which is fatal.                                       *)
ServiceFails(p) ==
    /\ ~Idle(p) /\ "serving" \in {proc[p].grpc, proc[p].proxy}
    /\ End(p, "failed")
    /\ UNCHANGED <<TlsFiles, ApmlFiles, starts>>

(* Mutant: the backup is taken of the default file. *)
BackupReadDefault(p) ==
    /\ ~Idle(p) /\ proc[p].backup = "start"
    /\ \/ proc' = [proc EXCEPT ![p].backup = "done"]
       \/ proc' = [proc EXCEPT ![p].backup = "read", ![p].content = apml[Default]]
    /\ UNCHANGED <<TlsFiles, ApmlFiles, starts>>

(* backupAPMLConfiguration: the file is read again, which may fail. *)
BackupRead(p) ==
    /\ ~Idle(p) /\ proc[p].backup = "start"
    /\ \/ proc' = [proc EXCEPT ![p].backup = "done"]
       \/ proc' = [proc EXCEPT ![p].backup = "read", ![p].content = apml[proc[p].path]]
    /\ UNCHANGED <<TlsFiles, ApmlFiles, starts>>

(* The snapshot and the archive are written, under the name of the plan    *)
(* that was loaded; any of the two may fail.                               *)
BackupWrite(p) ==
    /\ ~Idle(p) /\ proc[p].backup = "read"
    /\ proc' = [proc EXCEPT ![p].backup = "done", ![p].content = None, ![p].edited = FALSE]
    /\ LET copy == [plan |-> PlanOf[proc[p].cfg], content |-> proc[p].content,
                    edited |-> proc[p].edited]
       IN  copies' \in {copies, copies \cup {copy}}
    /\ UNCHANGED <<TlsFiles, apml, edits, starts>>

-----------------------------------------------------------------------------
(* The operator edits a configuration file. *)
Edit(f, v) ==
    /\ edits < MaxEdits /\ v # apml[f]
    /\ edits' = edits + 1
    /\ apml' = [apml EXCEPT ![f] = v]
    /\ proc' = [p \in Procs |->
          IF /\ ~Idle(p) /\ proc[p].path = f
             /\ proc[p].cfg # None /\ proc[p].backup \in {"off", "start"}
          THEN [proc[p] EXCEPT !.edited = TRUE] ELSE proc[p]]
    /\ UNCHANGED <<TlsFiles, copies, starts>>

MainStep(p) ==
    \/ LoadConfig(p)
    \/ OpenCrt(p) \/ WriteCrt(p) \/ OpenKey(p) \/ WriteKey(p)
    \/ CertExists(p) \/ InitDatabase(p) \/ StartWorker(p)
    \/ NewGrpcServer(p) \/ NewProxyServer(p) \/ Notify(p)
    \/ StopGrpc(p) \/ RunDeferred(p)

GrpcStep(p)   == GrpcListen(p) \/ GrpcServe(p)
ProxyStep(p)  == ProxyListen(p) \/ ReadCrt(p) \/ ReadKey(p)
BackupStep(p) == BackupRead(p) \/ BackupWrite(p)

Next ==
    \/ \E p \in Procs :
          \/ \E flags \in Script[p] : Start(p, flags)
          \/ MainStep(p) \/ GrpcStep(p) \/ ProxyStep(p) \/ BackupStep(p)
          \/ ServiceFails(p) \/ Signal(p) \/ Kill(p)
    \/ \E f \in Paths, v \in Versions : Edit(f, v)

Spec == Init /\ [][Next]_vars

(* The Go scheduler runs every goroutine that can run. *)
Fairness ==
    \A p \in Procs : WF_vars(MainStep(p)) /\ WF_vars(GrpcStep(p)) /\ WF_vars(ProxyStep(p))

FairSpec == Spec /\ Fairness

-----------------------------------------------------------------------------
(* The certificate and the key belong together from the end of a           *)
(* generation that nobody disturbed until the next one begins; and a proxy *)
(* that has read the certificate of such a pair will not refuse the key,   *)
(* unless a generation has begun in the meantime.                          *)
PairIntact ==
    /\ good # None => crt = good /\ key = good
    /\ \A p \in Procs :
          proc[p].proxy = "crt read" /\ proc[p].calm = good /\ good # None
             => Pair(proc[p].crt, key)

(* The worker never runs on a closed database; a server that ends with     *)
(* status 0 has drained the worker; and the shutdown of one that was up    *)
(* makes none of its services fail ("error"), such as a Serve that comes   *)
(* after GracefulStop: only one that fails by itself ("failed") or a kill  *)
(* can cut the shutdown short.                                             *)
StopsInOrder ==
    \A p \in Procs :
        /\ proc[p].worker = "running" /\ ~Idle(p) => proc[p].db
        /\ proc[p].code = "ok" => proc[p].gen \/ proc[p].worker = "stopped"
        /\ proc[p].up => proc[p].code # "error"

(* A copy of the configuration is filed under the name of its own plan,    *)
(* unless the file was edited between its two reads.                       *)
BackupFaithful ==
    \A b \in copies : b.edited \/ b.plan = PlanOf[b.content]

(* No process is stuck on the way: one that is started ends or has both    *)
(* its services up, and one that is told to stop, at whatever point of its *)
(* start, ends.                                                            *)
EveryStartSettles == \A p \in Procs : []<>(Idle(p) \/ Up(p))
=============================================================================
