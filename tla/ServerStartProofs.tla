-------------------------- MODULE ServerStartProofs --------------------------
(***************************************************************************)
(* Proofs about the life of the server process, for any number of          *)
(* processes over one data directory, any configuration files and edits,   *)
(* and any script.                                                         *)
(***************************************************************************)
EXTENDS ServerStart, TLAPS

USE DEF TlsFiles, ApmlFiles

(* What is in a file of the pair, and what identifies a pair.              *)
Pairs    == {Own} \cup 1 .. MaxStarts
Contents == Pairs \cup {Absent, Empty, Broken}

Generating == {"gen", "crt", "crt written", "key"}
Opening    == {"cert", "db"}
Serving    == {"grpc", "proxy", "started", "waiting", "stopping"}
Places     == {"off", "begin", "services", "deferred", "ended"}
                 \cup Generating \cup Opening \cup Serving

Process ==
    [pc: Places,
     id: 0 .. MaxStarts, gen: BOOLEAN, path: Paths, cfg: Versions \cup {None}, db: BOOLEAN,
     worker: {"off", "running", "stopped"}, grpc: {"off", "start", "bound", "serving", "stopped"},
     proxy: {"off", "start", "bound", "crt read", "serving"},
     backup: {"off", "start", "read", "done"}, crt: Contents \cup {None}, content: Versions \cup {None},
     code: {"ok", "error", "failed", "killed", None}, calm: Pairs \cup {None},
     edited: BOOLEAN, up: BOOLEAN]

TypeOK ==
    /\ crt \in Contents /\ key \in Contents
    /\ apml \in [Paths -> Versions]
    /\ proc \in [Procs -> Process]
    /\ starts \in 0 .. MaxStarts
    /\ good \in Pairs \cup {None} /\ shared \in BOOLEAN

(* A process has a number of its own. *)
Numbered(x) == x.pc \notin {"off", "ended"} => x.id \in 1 .. MaxStarts

(* One process: when it has a database and a worker, with what it may end, *)
(* and that a server that was up has nothing left that can fail.           *)
InOrder(x) ==
    /\ x.pc \notin {"off", "ended"} => x.code = None
    /\ x.pc \in Generating => x.gen
    /\ x.pc \in {"begin"} \cup Generating \cup Opening => x.worker = "off"
    /\ x.pc = "services" => x.worker = "off" /\ x.db
    /\ x.pc \in Serving => x.worker = "running" /\ x.db
    /\ x.pc = "deferred" => x.worker # "off" /\ x.db
    /\ x.code = "ok" => x.gen \/ x.worker = "stopped"
    /\ x.up => /\ x.code # "error"
               /\ \/ x.pc = "ended"
                  \/ /\ x.pc \in {"stopping", "deferred"} /\ x.proxy = "serving"
                     /\ x.grpc \in {"serving", "stopped"}

(* What a process knows of its configuration file, unless it was edited;   *)
(* the backup starts with the services.                                    *)
Copying(x, files) ==
    /\ x.pc \in {"off", "begin", "ended"} => x.cfg = None
    /\ x.pc \notin {"started", "waiting", "stopping", "deferred"} => x.backup = "off"
    /\ x.pc \notin {"off", "begin", "ended"} => x.cfg \in Valid
    /\ x.cfg # None /\ x.backup \in {"off", "start"} /\ ~x.edited => x.cfg = files[x.path]
    /\ x.backup = "read" /\ ~x.edited => x.content = x.cfg

(* A certificate read while a whole pair was there is of that pair.        *)
ReadCalm(x) == x.proxy = "crt read" /\ x.calm # None => x.crt = x.calm

Fine(x, files) ==
    x \in Process /\ Numbered(x) /\ InOrder(x) /\ Copying(x, files) /\ ReadCalm(x)

ProcInv == \A p \in Procs : Fine(proc[p], apml)

(* The files, by how far the one that writes them has come: while it has   *)
(* been alone, they hold what it has written; and a whole pair is there    *)
(* only when nobody writes.                                                *)
PairInv ==
    /\ good # None => crt = good /\ key = good /\ \A p \in Procs : ~Writing(p)
    /\ ~shared => \A p \in Procs : Writing(p) =>
          /\ \A q \in Others(p) : ~Writing(q)
          /\ proc[p].pc = "crt" => crt = Empty
          /\ proc[p].pc \in {"crt written", "key"} => crt = proc[p].id
          /\ proc[p].pc = "key" => key = Empty

ServerInv == TypeOK /\ ProcInv /\ PairInv /\ BackupFaithful

-----------------------------------------------------------------------------
(* What a step of process p keeps in order: every process, and every       *)
(* record but that of p.                                                   *)
Kept(p) == /\ proc' \in [Procs -> Process] /\ ProcInv'
           /\ \A q \in Procs \ {p} : proc'[q] = proc[q]

(* The places a process can be at. *)
LEMMA PlaceNames ==
    {"off", "begin", "gen", "crt", "crt written", "key", "cert", "db", "services", "grpc", "proxy",
     "started", "waiting", "stopping", "deferred", "ended"} \subseteq Places
  BY DEF Places, Generating, Opening, Serving

(* A place where no process is has one that is off. *)
LEMMA NoProcess == NoProc \in Process
  <1>1. 0 \in 0 .. MaxStarts /\ Default \in Paths
    BY StartAssumption
  <1>. QED
    BY <1>1, PlaceNames DEF NoProc, Process

(* y differs from x in the changed fields at most.                         *)
Same(x, y, changed) ==
    /\ "pc" \in changed \/ y.pc = x.pc
    /\ "id" \in changed \/ y.id = x.id
    /\ "gen" \in changed \/ y.gen = x.gen
    /\ "path" \in changed \/ y.path = x.path
    /\ "cfg" \in changed \/ y.cfg = x.cfg
    /\ "db" \in changed \/ y.db = x.db
    /\ "worker" \in changed \/ y.worker = x.worker
    /\ "grpc" \in changed \/ y.grpc = x.grpc
    /\ "proxy" \in changed \/ y.proxy = x.proxy
    /\ "backup" \in changed \/ y.backup = x.backup
    /\ "crt" \in changed \/ y.crt = x.crt
    /\ "content" \in changed \/ y.content = x.content
    /\ "code" \in changed \/ y.code = x.code
    /\ "calm" \in changed \/ y.calm = x.calm
    /\ "edited" \in changed \/ y.edited = x.edited
    /\ "up" \in changed \/ y.up = x.up

(* The order of a process does not depend on its files. *)
LEMMA SameOrder ==
    ASSUME NEW x, NEW y, InOrder(x),
           Same(x, y, {"id", "path", "cfg", "backup", "crt", "content", "calm", "edited"})
    PROVE  InOrder(y)
  <1>1. /\ y.pc = x.pc /\ y.gen = x.gen /\ y.db = x.db /\ y.worker = x.worker /\ y.grpc = x.grpc
        /\ y.proxy = x.proxy /\ y.code = x.code /\ y.up = x.up
    BY DEF Same
  <1>. QED
    BY <1>1 DEF InOrder

(* A process that takes a step changes its own record only.                *)
LEMMA OneStep ==
    ASSUME TypeOK, ProcInv, NEW p \in Procs, NEW y \in Process, proc' = [proc EXCEPT ![p] = y],
           Numbered(y), InOrder(y), Copying(y, apml), ReadCalm(y), apml' = apml
    PROVE  Kept(p) /\ proc'[p] = y
  BY DEF TypeOK, ProcInv, Fine, Kept

(* What ends is in order, if it may end with its status. *)
LEMMA EndFine ==
    ASSUME NEW x, NEW files, Fine(x, files), NEW status \in {"ok", "error", "failed", "killed"},
           status = "ok" => x.gen \/ x.worker = "stopped",
           status = "error" => ~x.up
    PROVE  Fine([NoProc EXCEPT !.pc = "ended", !.code = status, !.gen = x.gen,
                               !.worker = x.worker, !.up = x.up], files)
  <1>. DEFINE y == [NoProc EXCEPT !.pc = "ended", !.code = status, !.gen = x.gen,
                                  !.worker = x.worker, !.up = x.up]
  <1>1. NoProc \in Process
    BY NoProcess
  <1>2. x.gen \in BOOLEAN /\ x.worker \in {"off", "running", "stopped"} /\ x.up \in BOOLEAN
    BY DEF Fine, Process
  <1>3. y \in Process
    BY <1>1, <1>2, PlaceNames, Zenon DEF Process
  <1>4. /\ NoProc.proxy = "off" /\ NoProc.backup = "off" /\ NoProc.cfg = None
    BY DEF NoProc
  <1>5. /\ y.pc = "ended" /\ y.code = status /\ y.gen = x.gen /\ y.worker = x.worker /\ y.up = x.up
        /\ y.proxy = "off" /\ y.backup = "off" /\ y.cfg = None
    BY <1>1, <1>4 DEF Process
  <1>. HIDE DEF y
  <1>6. InOrder(y)
    BY <1>2, <1>5 DEF InOrder, Generating, Opening, Serving
  <1>7. Copying(y, files) /\ ReadCalm(y) /\ Numbered(y)
    BY <1>5 DEF Copying, ReadCalm, Numbered
  <1>. QED
    BY <1>3, <1>6, <1>7 DEF Fine, y

(* Every process can be ended by an error, unless it was up. *)
LEMMA EndKeeps ==
    ASSUME TypeOK, ProcInv, NEW p \in Procs, NEW status \in {"ok", "error", "failed", "killed"},
           End(p, status), apml' = apml,
           status = "ok" => proc[p].gen \/ proc[p].worker = "stopped",
           status = "error" => ~proc[p].up
    PROVE  Kept(p) /\ proc'[p].pc = "ended"
  <1>. DEFINE y == [NoProc EXCEPT !.pc = "ended", !.code = status, !.gen = proc[p].gen,
                                  !.worker = proc[p].worker, !.up = proc[p].up]
  <1>1. proc' = [proc EXCEPT ![p] = y] /\ y.pc = "ended"
    BY DEF End, NoProc
  <1>2. Fine(y, apml)
    BY EndFine DEF ProcInv
  <1>. HIDE DEF y
  <1>. QED
    BY <1>1, <1>2, OneStep DEF Fine

(* A configuration that is loaded is valid, and is what the file holds. *)
LEMMA LoadConfigKeeps ==
    ASSUME TypeOK, ProcInv, NEW p \in Procs, LoadConfig(p), ~Fatal(p)
    PROVE  Kept(p) /\ proc'[p].pc = (IF proc[p].gen THEN "gen" ELSE "cert") /\ proc'[p].id = proc[p].id
  <1>. DEFINE x == proc[p]
              y == [x EXCEPT !.pc = IF x.gen THEN "gen" ELSE "cert", !.cfg = apml[x.path]]
  <1>1. Fine(x, apml) /\ x \in Process /\ apml' = apml /\ x.pc = "begin" /\ apml[x.path] \in Valid
    BY DEF LoadConfig, ProcInv, Fine
  <1>2. proc' = [proc EXCEPT ![p] = y]
    BY <1>1 DEF LoadConfig, TypeOK
  <1>3. y \in Process
    BY <1>1, StartAssumption, MarkAssumption, PlaceNames, Zenon DEF Process
  <1>4. /\ Same(x, y, {"pc", "cfg"})
        /\ y.pc = (IF x.gen THEN "gen" ELSE "cert") /\ y.cfg = apml[x.path]
    BY <1>1, Zenon DEF Process, Same
  <1>. HIDE DEF x, y
  <1>5. InOrder(y)
    BY <1>1, <1>4 DEF Fine, Same, InOrder, Generating, Opening, Serving
  <1>6. Numbered(y) /\ Copying(y, apml) /\ ReadCalm(y)
    BY <1>1, <1>4, StartAssumption, MarkAssumption DEF Fine, Same, Numbered, Copying, ReadCalm
  <1>. QED
    BY <1>1, <1>2, <1>3, <1>4, <1>5, <1>6, OneStep DEF x, Same

(* Generating a pair is the work of a process started for it. *)
LEMMA OpenCrtKeeps ==
    ASSUME TypeOK, ProcInv, NEW p \in Procs, OpenCrt(p), ~Fatal(p)
    PROVE  Kept(p) /\ proc'[p].pc = "crt" /\ proc'[p].id = proc[p].id
  <1>. DEFINE x == proc[p]
              y == [x EXCEPT !.pc = "crt"]
  <1>1. Fine(x, apml) /\ x \in Process /\ apml' = apml /\ x.pc = "gen"
    BY DEF OpenCrt, Goto, ProcInv, Fine
  <1>2. proc' = [proc EXCEPT ![p] = y]
    BY <1>1 DEF OpenCrt, Goto, TypeOK
  <1>3. y \in Process
    BY <1>1, PlaceNames, Zenon DEF Process
  <1>4. /\ Same(x, y, {"pc"})
        /\ y.pc = "crt"
    BY <1>1, Zenon DEF Process, Same
  <1>. HIDE DEF x, y
  <1>5. InOrder(y)
    BY <1>1, <1>4 DEF Fine, Same, InOrder, Generating, Opening, Serving
  <1>6. Numbered(y) /\ Copying(y, apml) /\ ReadCalm(y)
    BY <1>1, <1>4 DEF Fine, Same, Numbered, Copying, ReadCalm
  <1>. QED
    BY <1>1, <1>2, <1>3, <1>4, <1>5, <1>6, OneStep DEF x, Same

(* The same for the file of the certificate ... *)
LEMMA WriteCrtKeeps ==
    ASSUME TypeOK, ProcInv, NEW p \in Procs, WriteCrt(p)
    PROVE  Kept(p) /\ proc'[p].pc = "crt written" /\ proc'[p].id = proc[p].id
  <1>. DEFINE x == proc[p]
              y == [x EXCEPT !.pc = "crt written"]
  <1>1. Fine(x, apml) /\ x \in Process /\ apml' = apml /\ x.pc = "crt"
    BY DEF WriteCrt, Goto, ProcInv, Fine
  <1>2. proc' = [proc EXCEPT ![p] = y]
    BY <1>1 DEF WriteCrt, Goto, TypeOK
  <1>3. y \in Process
    BY <1>1, PlaceNames, Zenon DEF Process
  <1>4. /\ Same(x, y, {"pc"})
        /\ y.pc = "crt written"
    BY <1>1, Zenon DEF Process, Same
  <1>. HIDE DEF x, y
  <1>5. InOrder(y)
    BY <1>1, <1>4 DEF Fine, Same, InOrder, Generating, Opening, Serving
  <1>6. Numbered(y) /\ Copying(y, apml) /\ ReadCalm(y)
    BY <1>1, <1>4 DEF Fine, Same, Numbered, Copying, ReadCalm
  <1>. QED
    BY <1>1, <1>2, <1>3, <1>4, <1>5, <1>6, OneStep DEF x, Same

(* ... and for the one of the key. *)
LEMMA OpenKeyKeeps ==
    ASSUME TypeOK, ProcInv, NEW p \in Procs, OpenKey(p), ~Fatal(p)
    PROVE  Kept(p) /\ proc'[p].pc = "key" /\ proc'[p].id = proc[p].id
  <1>. DEFINE x == proc[p]
              y == [x EXCEPT !.pc = "key"]
  <1>1. Fine(x, apml) /\ x \in Process /\ apml' = apml /\ x.pc = "crt written"
    BY DEF OpenKey, Goto, ProcInv, Fine
  <1>2. proc' = [proc EXCEPT ![p] = y]
    BY <1>1 DEF OpenKey, Goto, TypeOK
  <1>3. y \in Process
    BY <1>1, PlaceNames, Zenon DEF Process
  <1>4. /\ Same(x, y, {"pc"})
        /\ y.pc = "key"
    BY <1>1, Zenon DEF Process, Same
  <1>. HIDE DEF x, y
  <1>5. InOrder(y)
    BY <1>1, <1>4 DEF Fine, Same, InOrder, Generating, Opening, Serving
  <1>6. Numbered(y) /\ Copying(y, apml) /\ ReadCalm(y)
    BY <1>1, <1>4 DEF Fine, Same, Numbered, Copying, ReadCalm
  <1>. QED
    BY <1>1, <1>2, <1>3, <1>4, <1>5, <1>6, OneStep DEF x, Same

(* A server starts with the files there. *)
LEMMA CertExistsKeeps ==
    ASSUME TypeOK, ProcInv, NEW p \in Procs, CertExists(p), ~Fatal(p)
    PROVE  Kept(p) /\ proc'[p].pc = "db" /\ proc'[p].id = proc[p].id
  <1>. DEFINE x == proc[p]
              y == [x EXCEPT !.pc = "db"]
  <1>1. Fine(x, apml) /\ x \in Process /\ apml' = apml /\ x.pc = "cert"
    BY DEF CertExists, Goto, ProcInv, Fine
  <1>2. proc' = [proc EXCEPT ![p] = y]
    BY <1>1 DEF CertExists, Goto, TypeOK
  <1>3. y \in Process
    BY <1>1, PlaceNames, Zenon DEF Process
  <1>4. /\ Same(x, y, {"pc"})
        /\ y.pc = "db"
    BY <1>1, Zenon DEF Process, Same
  <1>. HIDE DEF x, y
  <1>5. InOrder(y)
    BY <1>1, <1>4 DEF Fine, Same, InOrder, Generating, Opening, Serving
  <1>6. Numbered(y) /\ Copying(y, apml) /\ ReadCalm(y)
    BY <1>1, <1>4 DEF Fine, Same, Numbered, Copying, ReadCalm
  <1>. QED
    BY <1>1, <1>2, <1>3, <1>4, <1>5, <1>6, OneStep DEF x, Same

(* Its database is open from here on. *)
LEMMA InitDatabaseKeeps ==
    ASSUME TypeOK, ProcInv, NEW p \in Procs, InitDatabase(p), ~Fatal(p)
    PROVE  Kept(p) /\ proc'[p].pc = "services" /\ proc'[p].id = proc[p].id
  <1>. DEFINE x == proc[p]
              y == [x EXCEPT !.pc = "services", !.db = TRUE]
  <1>1. Fine(x, apml) /\ x \in Process /\ apml' = apml /\ x.pc = "db"
    BY DEF InitDatabase, ProcInv, Fine
  <1>2. proc' = [proc EXCEPT ![p] = y]
    BY <1>1 DEF InitDatabase, TypeOK
  <1>3. y \in Process
    BY <1>1, PlaceNames, Zenon DEF Process
  <1>4. /\ Same(x, y, {"pc", "db"})
        /\ y.pc = "services" /\ y.db = TRUE
    BY <1>1, Zenon DEF Process, Same
  <1>. HIDE DEF x, y
  <1>5. InOrder(y)
    BY <1>1, <1>4 DEF Fine, Same, InOrder, Generating, Opening, Serving
  <1>6. Numbered(y) /\ Copying(y, apml) /\ ReadCalm(y)
    BY <1>1, <1>4 DEF Fine, Same, Numbered, Copying, ReadCalm
  <1>. QED
    BY <1>1, <1>2, <1>3, <1>4, <1>5, <1>6, OneStep DEF x, Same

(* The worker starts on an open database. *)
LEMMA StartWorkerKeeps ==
    ASSUME TypeOK, ProcInv, NEW p \in Procs, StartWorker(p)
    PROVE  Kept(p) /\ proc'[p].pc = "grpc" /\ proc'[p].id = proc[p].id
  <1>. DEFINE x == proc[p]
              y == [x EXCEPT !.pc = "grpc", !.worker = "running"]
  <1>1. Fine(x, apml) /\ x \in Process /\ apml' = apml /\ x.pc = "services"
    BY DEF StartWorker, ProcInv, Fine
  <1>2. proc' = [proc EXCEPT ![p] = y]
    BY <1>1 DEF StartWorker, TypeOK
  <1>3. y \in Process
    BY <1>1, PlaceNames, Zenon DEF Process
  <1>4. /\ Same(x, y, {"pc", "worker"})
        /\ y.pc = "grpc" /\ y.worker = "running"
    BY <1>1, Zenon DEF Process, Same
  <1>. HIDE DEF x, y
  <1>5. InOrder(y)
    BY <1>1, <1>4 DEF Fine, Same, InOrder, Generating, Opening, Serving
  <1>6. Numbered(y) /\ Copying(y, apml) /\ ReadCalm(y)
    BY <1>1, <1>4 DEF Fine, Same, Numbered, Copying, ReadCalm
  <1>. QED
    BY <1>1, <1>2, <1>3, <1>4, <1>5, <1>6, OneStep DEF x, Same

(* The servers are made, ... *)
LEMMA NewGrpcServerKeeps ==
    ASSUME TypeOK, ProcInv, NEW p \in Procs, NewGrpcServer(p), ~Fatal(p)
    PROVE  Kept(p) /\ proc'[p].pc = "proxy" /\ proc'[p].id = proc[p].id
  <1>. DEFINE x == proc[p]
              y == [x EXCEPT !.pc = "proxy"]
  <1>1. Fine(x, apml) /\ x \in Process /\ apml' = apml /\ x.pc = "grpc"
    BY DEF NewGrpcServer, Goto, ProcInv, Fine
  <1>2. proc' = [proc EXCEPT ![p] = y]
    BY <1>1 DEF NewGrpcServer, Goto, TypeOK
  <1>3. y \in Process
    BY <1>1, PlaceNames, Zenon DEF Process
  <1>4. /\ Same(x, y, {"pc"})
        /\ y.pc = "proxy"
    BY <1>1, Zenon DEF Process, Same
  <1>. HIDE DEF x, y
  <1>5. InOrder(y)
    BY <1>1, <1>4 DEF Fine, Same, InOrder, Generating, Opening, Serving
  <1>6. Numbered(y) /\ Copying(y, apml) /\ ReadCalm(y)
    BY <1>1, <1>4 DEF Fine, Same, Numbered, Copying, ReadCalm
  <1>. QED
    BY <1>1, <1>2, <1>3, <1>4, <1>5, <1>6, OneStep DEF x, Same

(* ... and started together with the backup. *)
LEMMA NewProxyServerKeeps ==
    ASSUME TypeOK, ProcInv, NEW p \in Procs, NewProxyServer(p), ~Fatal(p)
    PROVE  Kept(p) /\ proc'[p].pc = "started" /\ proc'[p].id = proc[p].id
  <1>. DEFINE x == proc[p]
              y == [x EXCEPT !.pc = "started", !.grpc = "start", !.proxy = "start", !.backup = "start"]
  <1>1. Fine(x, apml) /\ x \in Process /\ apml' = apml /\ x.pc = "proxy"
    BY DEF NewProxyServer, ProcInv, Fine
  <1>2. proc' = [proc EXCEPT ![p] = y]
    BY <1>1 DEF NewProxyServer, TypeOK
  <1>3. y \in Process
    BY <1>1, PlaceNames, Zenon DEF Process
  <1>4. /\ Same(x, y, {"pc", "grpc", "proxy", "backup"})
        /\ y.pc = "started" /\ y.grpc = "start" /\ y.proxy = "start" /\ y.backup = "start"
    BY <1>1, Zenon DEF Process, Same
  <1>. HIDE DEF x, y
  <1>5. InOrder(y)
    BY <1>1, <1>4 DEF Fine, Same, InOrder, Generating, Opening, Serving
  <1>6. Numbered(y) /\ Copying(y, apml) /\ ReadCalm(y)
    BY <1>1, <1>4 DEF Fine, Same, Numbered, Copying, ReadCalm
  <1>. QED
    BY <1>1, <1>2, <1>3, <1>4, <1>5, <1>6, OneStep DEF x, Same

(* From here on a signal does not kill. *)
LEMMA NotifyKeeps ==
    ASSUME TypeOK, ProcInv, NEW p \in Procs, Notify(p)
    PROVE  Kept(p) /\ proc'[p].pc = "waiting" /\ proc'[p].id = proc[p].id
  <1>. DEFINE x == proc[p]
              y == [x EXCEPT !.pc = "waiting"]
  <1>1. Fine(x, apml) /\ x \in Process /\ apml' = apml /\ x.pc = "started"
    BY DEF Notify, Goto, ProcInv, Fine
  <1>2. proc' = [proc EXCEPT ![p] = y]
    BY <1>1 DEF Notify, Goto, TypeOK
  <1>3. y \in Process
    BY <1>1, PlaceNames, Zenon DEF Process
  <1>4. /\ Same(x, y, {"pc"})
        /\ y.pc = "waiting"
    BY <1>1, Zenon DEF Process, Same
  <1>. HIDE DEF x, y
  <1>5. InOrder(y)
    BY <1>1, <1>4 DEF Fine, Same, InOrder, Generating, Opening, Serving
  <1>6. Numbered(y) /\ Copying(y, apml) /\ ReadCalm(y)
    BY <1>1, <1>4 DEF Fine, Same, Numbered, Copying, ReadCalm
  <1>. QED
    BY <1>1, <1>2, <1>3, <1>4, <1>5, <1>6, OneStep DEF x, Same

(* A server that is up when the signal comes is past its own failures. *)
LEMMA SignalKeeps ==
    ASSUME TypeOK, ProcInv, NEW p \in Procs, Signal(p)
    PROVE  Kept(p) /\ proc'[p].pc = "stopping" /\ proc'[p].id = proc[p].id
  <1>. DEFINE x == proc[p]
              u == x.grpc = "serving" /\ x.proxy = "serving"
              y == [x EXCEPT !.pc = "stopping", !.up = u]
  <1>1. Fine(x, apml) /\ x \in Process /\ apml' = apml /\ x.pc = "waiting"
    BY DEF Signal, Up, ProcInv, Fine
  <1>2. proc' = [proc EXCEPT ![p] = y]
    BY <1>1 DEF Signal, Up, TypeOK
  <1>3. u \in BOOLEAN /\ (u => x.grpc = "serving" /\ x.proxy = "serving")
    OBVIOUS
  <1>. HIDE DEF u
  <1>4. y \in Process
    BY <1>1, <1>3, PlaceNames, Zenon DEF Process
  <1>5. Same(x, y, {"pc", "up"}) /\ y.pc = "stopping" /\ y.up = u
    BY <1>1, Zenon DEF Process, Same
  <1>. HIDE DEF x, y
  <1>6. InOrder(y)
    BY <1>1, <1>3, <1>5, MarkAssumption DEF Fine, Same, InOrder, Generating, Opening, Serving
  <1>7. Numbered(y) /\ Copying(y, apml) /\ ReadCalm(y)
    BY <1>1, <1>5 DEF Fine, Same, Numbered, Copying, ReadCalm
  <1>. QED
    BY <1>1, <1>2, <1>4, <1>5, <1>6, <1>7, OneStep DEF x, Same

(* GracefulStop leaves no failure behind. *)
LEMMA StopGrpcKeeps ==
    ASSUME TypeOK, ProcInv, NEW p \in Procs, StopGrpc(p)
    PROVE  Kept(p) /\ proc'[p].pc = "deferred" /\ proc'[p].id = proc[p].id
  <1>. DEFINE x == proc[p]
              g == IF x.grpc = "serving" THEN "stopped" ELSE x.grpc
              y == [x EXCEPT !.pc = "deferred", !.grpc = g]
  <1>1. Fine(x, apml) /\ x \in Process /\ apml' = apml /\ x.pc = "stopping"
    BY DEF StopGrpc, ProcInv, Fine
  <1>2. /\ g \in {"off", "start", "bound", "serving", "stopped"}
        /\ x.grpc \in {"serving", "stopped"} => g = "stopped"
    BY <1>1 DEF Process
  <1>. HIDE DEF g
  <1>3. proc' = [proc EXCEPT ![p] = y]
    BY <1>1 DEF StopGrpc, TypeOK, g
  <1>4. y \in Process
    BY <1>1, <1>2, PlaceNames, Zenon DEF Process
  <1>5. /\ Same(x, y, {"pc", "grpc"})
        /\ y.pc = "deferred" /\ y.grpc = g
    BY <1>1 DEF Same, Process
  <1>. HIDE DEF x, y
  <1>6. InOrder(y)
    BY <1>1, <1>2, <1>5 DEF Fine, Same, InOrder, Generating, Opening, Serving
  <1>7. Numbered(y) /\ Copying(y, apml) /\ ReadCalm(y)
    BY <1>1, <1>5 DEF Fine, Same, Numbered, Copying, ReadCalm
  <1>. QED
    BY <1>1, <1>3, <1>4, <1>5, <1>6, <1>7, OneStep DEF x, Same

(* The worker is drained before the process can end with status 0. *)
LEMMA StopWorkerKeeps ==
    ASSUME TypeOK, ProcInv, NEW p \in Procs, RunDeferred(p), proc[p].worker = "running"
    PROVE  Kept(p) /\ proc'[p].pc = "deferred" /\ proc'[p].id = proc[p].id
  <1>. DEFINE x == proc[p]
              y == [x EXCEPT !.worker = "stopped"]
  <1>1. Fine(x, apml) /\ x \in Process /\ apml' = apml /\ x.pc = "deferred" /\ x.worker = "running"
    BY DEF RunDeferred, ProcInv, Fine
  <1>2. proc' = [proc EXCEPT ![p] = y]
    BY <1>1 DEF RunDeferred, TypeOK
  <1>3. y \in Process
    BY <1>1, Zenon DEF Process
  <1>4. /\ Same(x, y, {"worker"})
        /\ y.worker = "stopped"
    BY <1>1, Zenon DEF Process, Same
  <1>. HIDE DEF x, y
  <1>5. InOrder(y)
    BY <1>1, <1>4 DEF Fine, Same, InOrder, Generating, Opening, Serving
  <1>6. Numbered(y) /\ Copying(y, apml) /\ ReadCalm(y)
    BY <1>1, <1>4 DEF Fine, Same, Numbered, Copying, ReadCalm
  <1>. QED
    BY <1>1, <1>2, <1>3, <1>4, <1>5, <1>6, OneStep DEF x, Same

(* The goroutines leave main where it is: the control plane listens ... *)
LEMMA GrpcListenKeeps ==
    ASSUME TypeOK, ProcInv, NEW p \in Procs, GrpcListen(p), ~Fatal(p)
    PROVE  Kept(p) /\ proc'[p].pc = proc[p].pc /\ proc'[p].id = proc[p].id
  <1>. DEFINE x == proc[p]
              y == [x EXCEPT !.grpc = "bound"]
  <1>1. /\ Fine(x, apml) /\ x \in Process /\ apml' = apml
        /\ x.pc \notin {"off", "ended"} /\ x.grpc = "start"
    BY DEF GrpcListen, Idle, ProcInv, Fine
  <1>2. proc' = [proc EXCEPT ![p] = y]
    BY <1>1 DEF GrpcListen, Idle, TypeOK
  <1>3. y \in Process
    BY <1>1, Zenon DEF Process
  <1>4. /\ Same(x, y, {"grpc"})
        /\ y.grpc = "bound"
    BY <1>1, Zenon DEF Process, Same
  <1>. HIDE DEF x, y
  <1>5. InOrder(y)
    BY <1>1, <1>4 DEF Fine, Same, InOrder, Generating, Opening, Serving
  <1>6. Numbered(y) /\ Copying(y, apml) /\ ReadCalm(y)
    BY <1>1, <1>4 DEF Fine, Same, Numbered, Copying, ReadCalm
  <1>. QED
    BY <1>1, <1>2, <1>3, <1>4, <1>5, <1>6, OneStep DEF x, Same

(* ... and serves, ... *)
LEMMA GrpcServeKeeps ==
    ASSUME TypeOK, ProcInv, NEW p \in Procs, GrpcServe(p), ~Fatal(p)
    PROVE  Kept(p) /\ proc'[p].pc = proc[p].pc /\ proc'[p].id = proc[p].id
  <1>. DEFINE x == proc[p]
              y == [x EXCEPT !.grpc = "serving"]
  <1>1. /\ Fine(x, apml) /\ x \in Process /\ apml' = apml
        /\ x.pc \notin {"off", "ended"} /\ x.grpc = "bound" /\ x.pc # "deferred"
    BY DEF GrpcServe, Idle, ProcInv, Fine
  <1>2. proc' = [proc EXCEPT ![p] = y]
    BY <1>1 DEF GrpcServe, Idle, TypeOK
  <1>3. y \in Process
    BY <1>1, Zenon DEF Process
  <1>4. /\ Same(x, y, {"grpc"})
        /\ y.grpc = "serving"
    BY <1>1, Zenon DEF Process, Same
  <1>. HIDE DEF x, y
  <1>5. InOrder(y)
    BY <1>1, <1>4 DEF Fine, Same, InOrder, Generating, Opening, Serving
  <1>6. Numbered(y) /\ Copying(y, apml) /\ ReadCalm(y)
    BY <1>1, <1>4 DEF Fine, Same, Numbered, Copying, ReadCalm
  <1>. QED
    BY <1>1, <1>2, <1>3, <1>4, <1>5, <1>6, OneStep DEF x, Same

(* ... the proxy listens, ... *)
LEMMA ProxyListenKeeps ==
    ASSUME TypeOK, ProcInv, NEW p \in Procs, ProxyListen(p), ~Fatal(p)
    PROVE  Kept(p) /\ proc'[p].pc = proc[p].pc /\ proc'[p].id = proc[p].id
  <1>. DEFINE x == proc[p]
              y == [x EXCEPT !.proxy = "bound"]
  <1>1. /\ Fine(x, apml) /\ x \in Process /\ apml' = apml
        /\ x.pc \notin {"off", "ended"} /\ x.proxy = "start"
    BY DEF ProxyListen, Idle, ProcInv, Fine
  <1>2. proc' = [proc EXCEPT ![p] = y]
    BY <1>1 DEF ProxyListen, Idle, TypeOK
  <1>3. y \in Process
    BY <1>1, Zenon DEF Process
  <1>4. /\ Same(x, y, {"proxy"})
        /\ y.proxy = "bound"
    BY <1>1, Zenon DEF Process, Same
  <1>. HIDE DEF x, y
  <1>5. InOrder(y)
    BY <1>1, <1>4 DEF Fine, Same, InOrder, Generating, Opening, Serving
  <1>6. Numbered(y) /\ Copying(y, apml) /\ ReadCalm(y)
    BY <1>1, <1>4 DEF Fine, Same, Numbered, Copying, ReadCalm
  <1>. QED
    BY <1>1, <1>2, <1>3, <1>4, <1>5, <1>6, OneStep DEF x, Same

(* ... reads a certificate, that of the pair if a whole one is there, ... *)
LEMMA ReadCrtKeeps ==
    ASSUME TypeOK, ProcInv, NEW p \in Procs, ReadCrt(p), PairInv
    PROVE  Kept(p) /\ proc'[p].pc = proc[p].pc /\ proc'[p].id = proc[p].id
  <1>. DEFINE x == proc[p]
              y == [x EXCEPT !.proxy = "crt read", !.crt = crt, !.calm = good]
  <1>1. /\ Fine(x, apml) /\ x \in Process /\ apml' = apml /\ x.pc \notin {"off", "ended"}
        /\ x.proxy = "bound" /\ (good # None => crt = good)
        /\ crt \in Contents \cup {None} /\ good \in Pairs \cup {None}
    BY DEF PairInv, TypeOK, ReadCrt, Idle, ProcInv, Fine
  <1>2. proc' = [proc EXCEPT ![p] = y]
    BY <1>1 DEF ReadCrt, Idle, TypeOK
  <1>3. y \in Process
    BY <1>1, Zenon DEF Process
  <1>4. /\ Same(x, y, {"proxy", "crt", "calm"})
        /\ y.proxy = "crt read" /\ y.crt = crt /\ y.calm = good
    BY <1>1, Zenon DEF Process, Same
  <1>. HIDE DEF x, y
  <1>5. InOrder(y)
    BY <1>1, <1>4 DEF Fine, Same, InOrder, Generating, Opening, Serving
  <1>6. Numbered(y) /\ Copying(y, apml) /\ ReadCalm(y)
    BY <1>1, <1>4 DEF Fine, Same, Numbered, Copying, ReadCalm
  <1>. QED
    BY <1>1, <1>2, <1>3, <1>4, <1>5, <1>6, OneStep DEF x, Same

(* ... and serves with the pair it has read; ... *)
LEMMA ReadKeyKeeps ==
    ASSUME TypeOK, ProcInv, NEW p \in Procs, ReadKey(p), ~Fatal(p)
    PROVE  Kept(p) /\ proc'[p].pc = proc[p].pc /\ proc'[p].id = proc[p].id
  <1>. DEFINE x == proc[p]
              y == [x EXCEPT !.proxy = "serving", !.crt = None, !.calm = None]
  <1>1. /\ Fine(x, apml) /\ x \in Process /\ apml' = apml
        /\ x.pc \notin {"off", "ended"} /\ x.proxy = "crt read"
    BY DEF ReadKey, Idle, ProcInv, Fine
  <1>2. proc' = [proc EXCEPT ![p] = y]
    BY <1>1 DEF ReadKey, Idle, TypeOK
  <1>3. y \in Process
    BY <1>1, Zenon DEF Process
  <1>4. /\ Same(x, y, {"proxy", "crt", "calm"})
        /\ y.proxy = "serving" /\ y.crt = None /\ y.calm = None
    BY <1>1, Zenon DEF Process, Same
  <1>. HIDE DEF x, y
  <1>5. InOrder(y)
    BY <1>1, <1>4 DEF Fine, Same, InOrder, Generating, Opening, Serving
  <1>6. Numbered(y) /\ Copying(y, apml) /\ ReadCalm(y)
    BY <1>1, <1>4 DEF Fine, Same, Numbered, Copying, ReadCalm
  <1>. QED
    BY <1>1, <1>2, <1>3, <1>4, <1>5, <1>6, OneStep DEF x, Same

(* ... the backup gives up, ... *)
LEMMA BackupGiveUpKeeps ==
    ASSUME TypeOK, ProcInv, NEW p \in Procs, BackupRead(p),
           proc' = [proc EXCEPT ![p].backup = "done"]
    PROVE  Kept(p) /\ proc'[p].pc = proc[p].pc /\ proc'[p].id = proc[p].id
  <1>. DEFINE x == proc[p]
              y == [x EXCEPT !.backup = "done"]
  <1>1. /\ Fine(x, apml) /\ x \in Process /\ apml' = apml
        /\ x.pc \notin {"off", "ended"} /\ x.backup = "start"
    BY DEF BackupRead, Idle, ProcInv, Fine
  <1>2. proc' = [proc EXCEPT ![p] = y]
    BY <1>1 DEF BackupRead, Idle, TypeOK
  <1>3. y \in Process
    BY <1>1, Zenon DEF Process
  <1>4. /\ Same(x, y, {"backup"})
        /\ y.backup = "done"
    BY <1>1, Zenon DEF Process, Same
  <1>. HIDE DEF x, y
  <1>5. InOrder(y)
    BY <1>1, <1>4, SameOrder DEF Fine, Same
  <1>6. Numbered(y) /\ Copying(y, apml) /\ ReadCalm(y)
    BY <1>1, <1>4 DEF Fine, Same, Numbered, Copying, ReadCalm
  <1>. QED
    BY <1>1, <1>2, <1>3, <1>4, <1>5, <1>6, OneStep DEF x, Same

(* ... reads what was loaded unless it was edited, ... *)
LEMMA BackupReadKeeps ==
    ASSUME TypeOK, ProcInv, NEW p \in Procs, BackupRead(p),
           proc' = [proc EXCEPT ![p].backup = "read", ![p].content = apml[proc[p].path]]
    PROVE  Kept(p) /\ proc'[p].pc = proc[p].pc /\ proc'[p].id = proc[p].id
  <1>. DEFINE x == proc[p]
              y == [x EXCEPT !.backup = "read", !.content = apml[x.path]]
  <1>1. /\ Fine(x, apml) /\ x \in Process /\ apml' = apml /\ x.pc \notin {"off", "ended"}
        /\ x.backup = "start" /\ apml[x.path] \in Versions /\ x.cfg # None
    <2>1. x.pc \notin {"off", "ended"} /\ x.backup = "start" /\ apml' = apml
      BY DEF BackupRead, Idle
    <2>2. Fine(x, apml) /\ x \in Process
      BY DEF ProcInv, Fine
    <2>3. apml[x.path] \in Versions
      BY <2>2 DEF TypeOK, Process
    <2>4. x.cfg # None
      BY <2>1, <2>2, MarkAssumption DEF Fine, Copying
    <2>. QED
      BY <2>1, <2>2, <2>3, <2>4
  <1>2. proc' = [proc EXCEPT ![p] = y]
    BY <1>1 DEF BackupRead, Idle, TypeOK
  <1>3. y \in Process
    <2>. DEFINE content == apml[x.path]
    <2>1. content \in Versions
      BY <1>1
    <2>. HIDE DEF content
    <2>. QED
      BY <1>1, <2>1, Zenon DEF Process
  <1>4. /\ Same(x, y, {"backup", "content"})
        /\ y.backup = "read" /\ y.content = apml[x.path]
    BY <1>1, Zenon DEF Process, Same
  <1>. HIDE DEF x, y
  <1>5. InOrder(y)
    BY <1>1, <1>4, SameOrder DEF Fine, Same
  <1>6. Numbered(y) /\ Copying(y, apml) /\ ReadCalm(y)
    BY <1>1, <1>4 DEF Fine, Same, Numbered, Copying, ReadCalm
  <1>. QED
    BY <1>1, <1>2, <1>3, <1>4, <1>5, <1>6, OneStep DEF x, Same

(* ... and is done. *)
LEMMA BackupWriteKeeps ==
    ASSUME TypeOK, ProcInv, NEW p \in Procs, BackupWrite(p)
    PROVE  Kept(p) /\ proc'[p].pc = proc[p].pc /\ proc'[p].id = proc[p].id
  <1>. DEFINE x == proc[p]
              y == [x EXCEPT !.backup = "done", !.content = None, !.edited = FALSE]
  <1>1. /\ Fine(x, apml) /\ x \in Process /\ apml' = apml
        /\ x.pc \notin {"off", "ended"} /\ x.backup = "read"
    BY DEF BackupWrite, Idle, ProcInv, Fine
  <1>2. proc' = [proc EXCEPT ![p] = y]
    BY <1>1 DEF BackupWrite, Idle, TypeOK
  <1>3. y \in Process
    BY <1>1, Zenon DEF Process
  <1>4. /\ Same(x, y, {"backup", "content", "edited"})
        /\ y.backup = "done" /\ y.content = None /\ y.edited = FALSE
    BY <1>1, Zenon DEF Process, Same
  <1>. HIDE DEF x, y
  <1>5. InOrder(y)
    BY <1>1, <1>4, SameOrder DEF Fine, Same
  <1>6. Numbered(y) /\ Copying(y, apml) /\ ReadCalm(y)
    BY <1>1, <1>4 DEF Fine, Same, Numbered, Copying, ReadCalm
  <1>. QED
    BY <1>1, <1>2, <1>3, <1>4, <1>5, <1>6, OneStep DEF x, Same

(* A process starts in order, with a number of its own. *)
LEMMA StartKeeps ==
    ASSUME TypeOK, ProcInv, NEW p \in Procs, NEW flags \in Script[p], Start(p, flags)
    PROVE  Kept(p) /\ proc'[p].pc = "begin" /\ starts' \in 0 .. MaxStarts
  <1>. DEFINE y == [NoProc EXCEPT !.pc = "begin", !.id = starts + 1,
                                  !.gen = flags.gen, !.path = flags.path]
  <1>1. flags.gen \in BOOLEAN /\ flags.path \in Paths
    BY StartAssumption
  <1>2. starts + 1 \in 1 .. MaxStarts /\ starts + 1 \in 0 .. MaxStarts
    BY StartAssumption DEF Start, TypeOK
  <1>3. NoProc \in Process
    BY NoProcess
  <1>4. y \in Process
    BY <1>1, <1>2, <1>3, PlaceNames, Zenon DEF Process
  <1>5. /\ NoProc.code = None /\ NoProc.worker = "off" /\ ~NoProc.up /\ NoProc.cfg = None
        /\ NoProc.backup = "off" /\ NoProc.proxy = "off"
    BY DEF NoProc
  <1>6. /\ y.pc = "begin" /\ y.id = starts + 1 /\ y.code = None /\ y.worker = "off" /\ ~y.up
        /\ y.cfg = None /\ y.backup = "off" /\ y.proxy = "off"
    BY <1>3, <1>5 DEF Process
  <1>7. proc' = [proc EXCEPT ![p] = y] /\ starts' = starts + 1 /\ apml' = apml
    BY DEF Start
  <1>. HIDE DEF y
  <1>8. Numbered(y) /\ InOrder(y) /\ Copying(y, apml) /\ ReadCalm(y)
    BY <1>2, <1>6, MarkAssumption
    DEF Numbered, InOrder, Copying, ReadCalm, Generating, Opening, Serving
  <1>. QED
    BY <1>2, <1>4, <1>6, <1>7, <1>8, OneStep

(* An edit is seen by every process that has loaded the file and has not   *)
(* yet read it again.                                                      *)
LEMMA EditKeeps ==
    ASSUME TypeOK, ProcInv, NEW f \in Paths, NEW v \in Versions, Edit(f, v)
    PROVE  /\ proc' \in [Procs -> Process] /\ ProcInv'
           /\ \A q \in Procs : proc'[q].pc = proc[q].pc /\ proc'[q].id = proc[q].id
  <1>. SUFFICES ASSUME NEW q \in Procs
                PROVE  /\ Fine(proc'[q], apml')
                       /\ proc'[q].pc = proc[q].pc /\ proc'[q].id = proc[q].id
    BY DEF ProcInv, Fine, Edit
  <1>. DEFINE x == proc[q]
              y == [x EXCEPT !.edited = TRUE]
  <1>1. Fine(x, apml) /\ apml \in [Paths -> Versions] /\ apml' = [apml EXCEPT ![f] = v]
        /\ x \in Process
    BY DEF ProcInv, TypeOK, Edit, Fine
  <1>2. y \in Process /\ y.edited /\ Same(x, y, {"edited"})
    BY <1>1, Zenon DEF Process, Same
  <1>3. \/ proc'[q] = y
        \/ /\ proc'[q] = x
           /\ x.pc \in {"off", "ended"} \/ x.path # f \/ x.cfg = None \/ x.backup \notin {"off", "start"}
    BY DEF Edit, Idle
  <1>4. x.path \in Paths
    BY <1>1 DEF Process
  <1>. HIDE DEF x, y
  <1>5. CASE proc'[q] = y
    <2>1. InOrder(y)
      BY <1>1, <1>2, SameOrder DEF Fine, Same
    <2>2. Numbered(y) /\ ReadCalm(y) /\ Copying(y, apml')
      BY <1>1, <1>2 DEF Fine, Same, Numbered, Copying, ReadCalm
    <2>. QED
      BY <1>2, <1>5, <2>1, <2>2 DEF Fine, Same, x
  <1>6. CASE /\ proc'[q] = x
             /\ x.pc \in {"off", "ended"} \/ x.path # f \/ x.cfg = None \/ x.backup \notin {"off", "start"}
    <2>1. Copying(x, apml')
      BY <1>1, <1>4, <1>6 DEF Fine, Copying
    <2>. QED
      BY <1>1, <1>6, <2>1 DEF Fine, x
  <1>. QED
    BY <1>3, <1>5, <1>6

-----------------------------------------------------------------------------
(* A step after which every writer of the pair is where it was.            *)
Quiet == /\ proc' \in [Procs -> Process] /\ ProcInv'
         /\ \A q \in Procs : Writing(q)' => proc'[q].pc = proc[q].pc /\ proc'[q].id = proc[q].id

(* A process that is not writing afterwards has not moved a writer.        *)
LEMMA QuietStep ==
    ASSUME NEW p \in Procs, Kept(p),
           \/ proc'[p].pc \notin {"crt", "crt written", "key"}
           \/ proc'[p].pc = proc[p].pc /\ proc'[p].id = proc[p].id
    PROVE  Quiet
  BY DEF Kept, Quiet, Writing

(* What holds of the pair is not touched by quiet steps.                   *)
LEMMA QuietPair ==
    ASSUME PairInv, Quiet, UNCHANGED TlsFiles
    PROVE  PairInv'
  BY DEF PairInv, Quiet, Writing, Others

(* The steps that leave the pair alone keep every process in order: a      *)
(* fatal error meets no server that was up when the signal came.           *)
LEMMA QuietSteps ==
    ASSUME TypeOK, ProcInv, PairInv, NEW p \in Procs,
           \/ LoadConfig(p) \/ CertExists(p) \/ InitDatabase(p) \/ StartWorker(p)
           \/ NewGrpcServer(p) \/ NewProxyServer(p) \/ Notify(p) \/ StopGrpc(p) \/ RunDeferred(p)
           \/ GrpcStep(p) \/ ProxyStep(p) \/ BackupStep(p) \/ ServiceFails(p) \/ Signal(p)
    PROVE  Quiet
  <1>1. InOrder(proc[p])
    BY DEF ProcInv, Fine
  <1>2. ASSUME Fatal(p), ~proc[p].up, apml' = apml
        PROVE  Quiet
    BY <1>2, EndKeeps, QuietStep DEF Fatal
  <1>3. CASE LoadConfig(p)
    <2>1. apml' = apml /\ ~proc[p].up
      BY <1>1, <1>3 DEF LoadConfig, InOrder
    <2>. QED
      BY <1>2, <1>3, <2>1, LoadConfigKeeps, QuietStep
  <1>4. CASE CertExists(p)
    <2>1. apml' = apml /\ ~proc[p].up
      BY <1>1, <1>4 DEF CertExists, InOrder
    <2>. QED
      BY <1>2, <1>4, <2>1, CertExistsKeeps, QuietStep
  <1>5. CASE InitDatabase(p)
    <2>1. apml' = apml /\ ~proc[p].up
      BY <1>1, <1>5 DEF InitDatabase, InOrder
    <2>. QED
      BY <1>2, <1>5, <2>1, InitDatabaseKeeps, QuietStep
  <1>6. CASE StartWorker(p)
    BY <1>6, StartWorkerKeeps, QuietStep
  <1>7. CASE NewGrpcServer(p)
    <2>1. apml' = apml /\ ~proc[p].up
      BY <1>1, <1>7 DEF NewGrpcServer, InOrder
    <2>. QED
      BY <1>2, <1>7, <2>1, NewGrpcServerKeeps, QuietStep
  <1>8. CASE NewProxyServer(p)
    <2>1. apml' = apml /\ ~proc[p].up
      BY <1>1, <1>8 DEF NewProxyServer, InOrder
    <2>. QED
      BY <1>2, <1>8, <2>1, NewProxyServerKeeps, QuietStep
  <1>9. CASE Notify(p)
    BY <1>9, NotifyKeeps, QuietStep
  <1>10. CASE StopGrpc(p)
    BY <1>10, StopGrpcKeeps, QuietStep
  <1>11. CASE RunDeferred(p)
    <2>1. CASE proc[p].worker = "running"
      BY <1>11, <2>1, StopWorkerKeeps, QuietStep
    <2>2. CASE proc[p].worker # "running"
      <3>1. proc[p].worker = "stopped" /\ apml' = apml /\ End(p, "ok")
        BY <1>1, <1>11, <2>2 DEF RunDeferred, InOrder, ProcInv, Fine, Process
      <3>. QED
        BY <3>1, EndKeeps, QuietStep
    <2>. QED
      BY <2>1, <2>2
  <1>12. CASE GrpcListen(p)
    <2>1. apml' = apml /\ ~proc[p].up
      BY <1>1, <1>12 DEF GrpcListen, InOrder, Idle
    <2>. QED
      BY <1>2, <1>12, <2>1, GrpcListenKeeps, QuietStep
  <1>13. CASE GrpcServe(p)
    <2>1. apml' = apml /\ ~proc[p].up
      BY <1>1, <1>13 DEF GrpcServe, InOrder, Idle
    <2>. QED
      BY <1>2, <1>13, <2>1, GrpcServeKeeps, QuietStep
  <1>14. CASE ProxyListen(p)
    <2>1. apml' = apml /\ ~proc[p].up
      BY <1>1, <1>14 DEF ProxyListen, InOrder, Idle
    <2>. QED
      BY <1>2, <1>14, <2>1, ProxyListenKeeps, QuietStep
  <1>15. CASE ReadCrt(p)
    BY <1>15, ReadCrtKeeps, QuietStep
  <1>16. CASE ReadKey(p)
    <2>1. apml' = apml /\ ~proc[p].up
      BY <1>1, <1>16 DEF ReadKey, InOrder, Idle
    <2>. QED
      BY <1>2, <1>16, <2>1, ReadKeyKeeps, QuietStep
  <1>17. CASE BackupRead(p)
    <2>1. CASE proc' = [proc EXCEPT ![p].backup = "done"]
      BY <1>17, <2>1, BackupGiveUpKeeps, QuietStep
    <2>2. CASE proc' = [proc EXCEPT ![p].backup = "read", ![p].content = apml[proc[p].path]]
      BY <1>17, <2>2, BackupReadKeeps, QuietStep
    <2>. QED
      BY <1>17, <2>1, <2>2 DEF BackupRead
  <1>18. CASE BackupWrite(p)
    BY <1>18, BackupWriteKeeps, QuietStep
  <1>19. CASE Signal(p)
    BY <1>19, SignalKeeps, QuietStep
  <1>20. CASE ServiceFails(p)
    BY <1>20, EndKeeps, QuietStep DEF ServiceFails
  <1>. QED
    BY <1>3, <1>4, <1>5, <1>6, <1>7, <1>8, <1>9, <1>10, <1>11, <1>12, <1>13, <1>14, <1>15,
       <1>16, <1>17, <1>18, <1>19, <1>20 DEF GrpcStep, ProxyStep, BackupStep

-----------------------------------------------------------------------------
(* A process that goes on has not ended. *)
LEMMA NoEnd ==
    ASSUME TypeOK, NEW p \in Procs, NEW pc, pc # "ended", proc' = [proc EXCEPT ![p].pc = pc]
    PROVE  ~Fatal(p)
  <1>1. proc'[p].pc = pc
    <2>1. \A x \in Process : \A v : [x EXCEPT !.pc = v].pc = v
      BY Zenon DEF Process
    <2>. QED
      BY <2>1 DEF TypeOK
  <1>2. Fatal(p) => proc'[p].pc = "ended"
    <2>. DEFINE y == [NoProc EXCEPT !.pc = "ended", !.code = "error", !.gen = proc[p].gen,
                                    !.worker = proc[p].worker, !.up = proc[p].up]
    <2>1. Fatal(p) => proc'[p] = y
      BY DEF Fatal, End, TypeOK
    <2>2. y.pc = "ended"
      BY DEF NoProc
    <2>. QED
      BY <2>1, <2>2
  <1>. QED
    BY <1>1, <1>2

(* A process that begins to write takes the pair away, and knows whether   *)
(* it is alone.                                                            *)
LEMMA OpenCrtPair ==
    ASSUME TypeOK, ProcInv, PairInv, NEW p \in Procs, OpenCrt(p)
    PROVE  TypeOK' /\ ProcInv' /\ PairInv'
  <1>1. apml' = apml /\ starts' = starts /\ ~proc[p].up
    BY DEF OpenCrt, ProcInv, Fine, InOrder
  <1>2. CASE Fatal(p) /\ UNCHANGED TlsFiles
    <2>1. Quiet
      BY <1>1, <1>2, EndKeeps, QuietStep DEF Fatal
    <2>. QED
      BY <1>1, <1>2, <2>1, QuietPair DEF Quiet, TypeOK
  <1>3. CASE ~(Fatal(p) /\ UNCHANGED TlsFiles)
    <2>1. /\ proc' = [proc EXCEPT ![p].pc = "crt"] /\ crt' = Empty /\ key' = key /\ good' = None
          /\ shared' = \E q \in Others(p) : Writing(q)
      BY <1>3 DEF OpenCrt, Goto
    <2>2. Kept(p) /\ proc'[p].pc = "crt"
      BY <2>1, OpenCrtKeeps, NoEnd
    <2>3. PairInv'
      BY <2>1, <2>2 DEF PairInv, Kept, Writing, Others
    <2>. QED
      BY <1>1, <2>1, <2>2, <2>3 DEF Kept, TypeOK, Contents
  <1>. QED
    BY <1>2, <1>3

(* One that has been alone since it truncated the file writes the whole    *)
(* certificate.                                                            *)
LEMMA WriteCrtPair ==
    ASSUME TypeOK, ProcInv, PairInv, NEW p \in Procs, WriteCrt(p)
    PROVE  TypeOK' /\ ProcInv' /\ PairInv'
  <1>1. /\ proc[p].pc = "crt" /\ Writing(p) /\ crt' \in Written(p, crt, "crt")
        /\ UNCHANGED <<key, good, shared, apml, starts>>
    BY DEF WriteCrt, Writing
  <1>2. Kept(p) /\ proc'[p].pc = "crt written" /\ proc'[p].id = proc[p].id
    BY WriteCrtKeeps
  <1>3. good = None
    BY <1>1 DEF PairInv
  <1>4. ~shared => crt' = proc[p].id /\ \A q \in Others(p) : ~Writing(q)
    BY <1>1 DEF PairInv, Written, Writing
  <1>5. PairInv'
    BY <1>1, <1>2, <1>3, <1>4 DEF PairInv, Kept, Writing, Others
  <1>6. crt' \in Contents
    BY <1>1 DEF Written, Contents, Pairs, ProcInv, Fine, Numbered
  <1>. QED
    BY <1>1, <1>2, <1>5, <1>6 DEF Kept, TypeOK

(* The certificate it has written stays while it turns to the key ...      *)
LEMMA OpenKeyPair ==
    ASSUME TypeOK, ProcInv, PairInv, NEW p \in Procs, OpenKey(p)
    PROVE  TypeOK' /\ ProcInv' /\ PairInv'
  <1>1. /\ proc[p].pc = "crt written" /\ Writing(p) /\ ~proc[p].up
        /\ UNCHANGED <<crt, good, shared, apml, starts>>
    BY DEF OpenKey, Writing, ProcInv, Fine, InOrder
  <1>2. CASE Fatal(p) /\ UNCHANGED key
    <2>1. Quiet
      BY <1>1, <1>2, EndKeeps, QuietStep DEF Fatal
    <2>. QED
      BY <1>1, <1>2, <2>1, QuietPair DEF Quiet, TypeOK
  <1>3. CASE ~(Fatal(p) /\ UNCHANGED key)
    <2>1. proc' = [proc EXCEPT ![p].pc = "key"] /\ key' = Empty
      BY <1>3 DEF OpenKey, Goto
    <2>2. Kept(p) /\ proc'[p].pc = "key" /\ proc'[p].id = proc[p].id
      BY <2>1, OpenKeyKeeps, NoEnd
    <2>3. good = None /\ (~shared => crt = proc[p].id /\ \A q \in Others(p) : ~Writing(q))
      BY <1>1 DEF PairInv
    <2>4. PairInv'
      BY <1>1, <2>1, <2>2, <2>3 DEF PairInv, Kept, Writing, Others
    <2>. QED
      BY <1>1, <2>1, <2>2, <2>4 DEF Kept, TypeOK, Contents
  <1>. QED
    BY <1>2, <1>3

(* ... and with the key the pair is whole.                                 *)
LEMMA WriteKeyPair ==
    ASSUME TypeOK, ProcInv, PairInv, NEW p \in Procs, WriteKey(p)
    PROVE  TypeOK' /\ ProcInv' /\ PairInv'
  <1>1. /\ proc[p].pc = "key" /\ Writing(p) /\ key' \in Written(p, key, "key")
        /\ good' = (IF shared THEN None ELSE proc[p].id) /\ End(p, "ok")
        /\ UNCHANGED <<crt, shared, apml, starts>>
    BY DEF WriteKey, Writing
  <1>2. proc[p].gen /\ proc[p].id \in 1 .. MaxStarts
    BY <1>1 DEF ProcInv, Fine, InOrder, Numbered, Generating
  <1>3. Kept(p) /\ proc'[p].pc = "ended"
    BY <1>1, <1>2, EndKeeps
  <1>4. ~shared => crt = proc[p].id /\ key' = proc[p].id /\ \A q \in Others(p) : ~Writing(q)
    BY <1>1 DEF PairInv, Written, Writing
  <1>5. PairInv'
    BY <1>1, <1>3, <1>4 DEF PairInv, Kept, Writing, Others
  <1>6. key' \in Contents /\ good' \in Pairs \cup {None}
    BY <1>1, <1>2 DEF Written, Contents, Pairs
  <1>. QED
    BY <1>1, <1>3, <1>5, <1>6 DEF Kept, TypeOK

(* A process that is killed while it writes leaves no pair behind, and one *)
(* that does not write leaves the pair as it is.                           *)
LEMMA KillPair ==
    ASSUME TypeOK, ProcInv, PairInv, NEW p \in Procs, Kill(p)
    PROVE  TypeOK' /\ ProcInv' /\ PairInv'
  <1>1. /\ UNCHANGED <<good, shared, apml, starts>>
        /\ crt' \in {crt, Broken} /\ key' \in {key, Broken}
        /\ ~Writing(p) => crt' = crt /\ key' = key
    BY DEF Kill, Writing
  <1>2. Kept(p) /\ proc'[p].pc = "ended"
    <2>1. CASE Writing(p)
      <3>1. ~proc[p].up /\ End(p, "error")
        BY <2>1 DEF Writing, Kill, ProcInv, Fine, InOrder
      <3>. QED
        BY <1>1, <3>1, EndKeeps
    <2>2. CASE ~Writing(p)
      <3>1. End(p, "killed")
        BY <2>2 DEF Kill
      <3>. QED
        BY <1>1, <3>1, EndKeeps
    <2>. QED
      BY <2>1, <2>2
  <1>3. PairInv'
    <2>1. CASE Writing(p)
      <3>1. good = None /\ (~shared => \A q \in Others(p) : ~Writing(q))
        BY <2>1 DEF PairInv
      <3>. QED
        BY <1>1, <1>2, <3>1 DEF PairInv, Kept, Writing, Others
    <2>2. CASE ~Writing(p)
      BY <1>1, <1>2, <2>2, QuietStep, QuietPair
    <2>. QED
      BY <2>1, <2>2
  <1>4. crt' \in Contents /\ key' \in Contents
    BY <1>1 DEF TypeOK, Contents
  <1>. QED
    BY <1>1, <1>2, <1>3, <1>4 DEF Kept, TypeOK

-----------------------------------------------------------------------------
(* ServerInv holds before the first process is started. *)
LEMMA ServerInvInit == Init => ServerInv
  <1>. SUFFICES ASSUME Init PROVE ServerInv
    OBVIOUS
  <1>1. NoProc \in Process
    BY NoProcess
  <1>2. NoProc.pc = "off" /\ ~NoProc.up /\ NoProc.code = None
        /\ NoProc.cfg = None /\ NoProc.backup = "off" /\ NoProc.proxy = "off"
    BY DEF NoProc
  <1>3. Fine(NoProc, apml)
    BY <1>1, <1>2, MarkAssumption
    DEF Fine, Numbered, InOrder, Copying, ReadCalm, Generating, Opening, Serving
  <1>4. \A p \in Procs : proc[p] = NoProc /\ ~Writing(p)
    BY <1>2 DEF Init, Writing
  <1>5. TypeOK
    <2>1. crt \in Contents /\ key \in Contents /\ good \in Pairs \cup {None}
      BY DEF Init, Contents, Pairs
    <2>2. proc \in [Procs -> Process] /\ apml \in [Paths -> Versions]
      BY <1>1, StartAssumption DEF Init
    <2>3. starts \in 0 .. MaxStarts
      BY StartAssumption DEF Init
    <2>4. shared \in BOOLEAN
      BY DEF Init
    <2>. QED
      BY <2>1, <2>2, <2>3, <2>4 DEF TypeOK
  <1>6. ProcInv
    BY <1>3, <1>4 DEF ProcInv
  <1>7. PairInv
    BY <1>4 DEF Init, PairInv
  <1>. QED
    BY <1>5, <1>6, <1>7 DEF Init, ServerInv, BackupFaithful

(* A copy that was not read after an edit is of the plan that was loaded.  *)
LEMMA BackupsStayFaithful ==
    ASSUME ProcInv, BackupFaithful, NEW p \in Procs, BackupWrite(p)
    PROVE  BackupFaithful'
  <1>. DEFINE x == proc[p]
              copy == [plan |-> PlanOf[x.cfg], content |-> x.content, edited |-> x.edited]
  <1>1. x.backup = "read" /\ copies' \subseteq copies \cup {copy}
    BY DEF BackupWrite
  <1>2. x.edited \/ x.content = x.cfg
    BY <1>1 DEF ProcInv, Fine, Copying
  <1>3. copy.edited = x.edited /\ copy.plan = PlanOf[x.cfg] /\ copy.content = x.content
    OBVIOUS
  <1>4. copy.edited \/ copy.plan = PlanOf[copy.content]
    BY <1>2, <1>3
  <1>. HIDE DEF copy
  <1>. QED
    BY <1>1, <1>4 DEF BackupFaithful

(* ServerInv is inductive: each step, of whichever process, keeps it.      *)
LEMMA ServerInvNext == ServerInv /\ [Next]_vars => ServerInv'
  <1>. SUFFICES ASSUME ServerInv, [Next]_vars
                PROVE  ServerInv'
    OBVIOUS
  <1>. USE DEF ServerInv
  <1>1. ASSUME NEW p \in Procs, NEW flags \in Script[p], Start(p, flags)
        PROVE  ServerInv'
    <2>1. Quiet /\ starts' \in 0 .. MaxStarts
      BY <1>1, StartKeeps, QuietStep
    <2>2. UNCHANGED TlsFiles /\ apml' = apml /\ copies' = copies
      BY <1>1 DEF Start
    <2>. QED
      BY <2>1, <2>2, QuietPair DEF Quiet, TypeOK, BackupFaithful
  <1>2. ASSUME NEW p \in Procs,
               \/ OpenCrt(p) \/ WriteCrt(p) \/ OpenKey(p) \/ WriteKey(p) \/ Kill(p)
        PROVE  ServerInv'
    <2>1. copies' = copies
      BY <1>2 DEF OpenCrt, WriteCrt, OpenKey, WriteKey, Kill
    <2>2. TypeOK' /\ ProcInv' /\ PairInv'
      BY <1>2, OpenCrtPair, WriteCrtPair, OpenKeyPair, WriteKeyPair, KillPair
    <2>. QED
      BY <2>1, <2>2 DEF BackupFaithful
  <1>3. ASSUME NEW p \in Procs,
               \/ LoadConfig(p) \/ CertExists(p) \/ InitDatabase(p) \/ StartWorker(p)
               \/ NewGrpcServer(p) \/ NewProxyServer(p) \/ Notify(p) \/ StopGrpc(p) \/ RunDeferred(p)
               \/ GrpcStep(p) \/ ProxyStep(p) \/ BackupStep(p) \/ ServiceFails(p) \/ Signal(p)
        PROVE  ServerInv'
    <2>1. Quiet
      BY <1>3, QuietSteps
    <2>2. UNCHANGED TlsFiles /\ apml' = apml /\ starts' = starts
      BY <1>3 DEF LoadConfig, CertExists, InitDatabase, StartWorker, NewGrpcServer, NewProxyServer,
                  Notify, StopGrpc, RunDeferred, GrpcStep, GrpcListen, GrpcServe, ProxyStep,
                  ProxyListen, ReadCrt, ReadKey, BackupStep, BackupRead, BackupWrite,
                  ServiceFails, Signal
    <2>3. copies' = copies \/ BackupWrite(p)
      BY <1>3 DEF LoadConfig, CertExists, InitDatabase, StartWorker, NewGrpcServer, NewProxyServer,
                  Notify, StopGrpc, RunDeferred, GrpcStep, GrpcListen, GrpcServe, ProxyStep,
                  ProxyListen, ReadCrt, ReadKey, BackupStep, BackupRead, ServiceFails, Signal
    <2>4. BackupFaithful'
      BY <2>3, BackupsStayFaithful DEF BackupFaithful
    <2>. QED
      BY <2>1, <2>2, <2>4, QuietPair DEF Quiet, TypeOK
  <1>4. ASSUME NEW f \in Paths, NEW v \in Versions, Edit(f, v)
        PROVE  ServerInv'
    <2>1. Quiet
      BY <1>4, EditKeeps DEF Quiet
    <2>2. UNCHANGED TlsFiles /\ copies' = copies /\ starts' = starts /\ apml' \in [Paths -> Versions]
      BY <1>4 DEF Edit, TypeOK
    <2>. QED
      BY <2>1, <2>2, QuietPair DEF Quiet, TypeOK, BackupFaithful
  <1>5. CASE UNCHANGED vars
    BY <1>5 DEF vars, TypeOK, ProcInv, PairInv, Writing, Others, BackupFaithful
  <1>. QED
    BY <1>1, <1>2, <1>3, <1>4, <1>5 DEF Next, MainStep

(* ServerInv is an invariant of the server's life. *)
LEMMA ServerInvHolds == Spec => []ServerInv
  BY ServerInvInit, ServerInvNext, PTL DEF Spec

(* A generation that nobody disturbed leaves a certificate and a key that  *)
(* belong together until the next one begins, whatever is killed in the    *)
(* meantime, and a proxy that has read the certificate of such a pair      *)
(* finds the key of it: the two files of GenerateSelfSignedCert and the    *)
(* two reads of RunTLS.                                                    *)
THEOREM PairsStayIntact == Spec => []PairIntact
  <1>1. ServerInv => PairIntact
    <2>. SUFFICES ASSUME ServerInv PROVE PairIntact
      OBVIOUS
    <2>1. good # None => crt = good /\ key = good
      BY DEF ServerInv, PairInv
    <2>2. good # None => good \notin {Absent, Empty, Broken}
      BY MarkAssumption DEF ServerInv, TypeOK, Pairs
    <2>3. \A p \in Procs : ReadCalm(proc[p])
      BY DEF ServerInv, ProcInv, Fine
    <2>. QED
      BY <2>1, <2>2, <2>3 DEF PairIntact, ReadCalm, Pair
  <1>. QED
    BY <1>1, ServerInvHolds, PTL

(* The order of main's deferred calls and of waitForShutdown: the worker   *)
(* runs on an open database, status 0 means that it was drained, and the   *)
(* shutdown of a server that was up makes none of its services fail.       *)
THEOREM StopsAreOrderly == Spec => []StopsInOrder
  <1>1. ServerInv => StopsInOrder
    <2>. SUFFICES ASSUME ServerInv, NEW p \in Procs
                  PROVE  /\ proc[p].worker = "running" /\ ~Idle(p) => proc[p].db
                         /\ proc[p].code = "ok" => proc[p].gen \/ proc[p].worker = "stopped"
                         /\ proc[p].up => proc[p].code # "error"
      BY DEF StopsInOrder
    <2>1. InOrder(proc[p]) /\ proc[p] \in Process
      BY DEF ServerInv, ProcInv, Fine
    <2>2. proc[p].pc \in Places
      BY <2>1 DEF Process
    <2>. QED
      BY <2>1, <2>2 DEF InOrder, Idle, Places, Generating, Opening, Serving
  <1>. QED
    BY <1>1, ServerInvHolds, PTL

(* backupAPMLConfiguration files a copy under the name of its own plan,    *)
(* unless the file was edited between the two reads of it.                 *)
THEOREM BackupsAreFaithful == Spec => []BackupFaithful
  BY ServerInvHolds, PTL DEF ServerInv
=============================================================================
