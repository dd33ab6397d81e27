------------------------------ MODULE Launcher ------------------------------
(***************************************************************************)
(* How model_server processes are started, found, reused and stopped: by   *)
(* run.sh, one launch per call, by scripts/start_model_server.sh and its   *)
(* systemd unit, and by signals.  All of them share a socket file and, but *)
(* for the scripts, a pid file.                                            *)
(*                                                                         *)
(* The modes "off" and "external" of run.sh touch none of this and are in  *)
(* ModelAccess.  Process identifiers are not used again.                   *)
(***************************************************************************)
EXTENDS Naturals, FiniteSets

CONSTANTS Launches,  \* terminals that call run.sh or start_ros_node.sh (a bound)
          Servers,   \* process identifiers of model_server
          Configs    \* see LauncherAssumption

NoFile == "no file"
Nobody == "nobody"

\* overlap: launches run at the same time; scripts: servers come from
\* start_model_server.sh too; modes: "node" is start_ros_node.sh; limit: how many
\* servers are started (a bound).
ASSUME LauncherAssumption ==
  /\ NoFile \notin Servers /\ Nobody \notin Launches
  /\ Configs \subseteq
       [ overlap : BOOLEAN, scripts : BOOLEAN,
         modes : SUBSET {"auto", "reuse", "reload", "node"}, limit : Nat ]

VARIABLES
  cfg,      \* the configuration
  pc,       \* where each launch is
  mode,     \* MODEL_SERVER_MODE of each launch
  found,    \* its OLD_PID, ZOMBIES or SERVER_PID
  socket,   \* the socket file: the server that made it
  pidfile,  \* the server named by the pid file
  server,   \* "unused", "loading", "binding", "listening", "stopping" or "gone"
  group,    \* the launch in whose process group a server is
  begun,    \* history: the servers and the files when a launch began
  meets     \* history: the server of the socket when a launch reached its node

files == <<socket, pidfile>>
vars == <<cfg, pc, mode, found, files, server, group, begun, meets>>

NotBegun ==
  [alive |-> {}, gone |-> {}, socket |-> NoFile, pidfile |-> NoFile]

Init ==
  /\ cfg \in Configs
  /\ pc = [l \in Launches |-> "idle"]
  /\ mode = [l \in Launches |-> "auto"]
  /\ found = [l \in Launches |-> {}]
  /\ socket = NoFile /\ pidfile = NoFile
  /\ server = [p \in Servers |-> "unused"]
  /\ group = [p \in Servers |-> Nobody]
  /\ begun = [l \in Launches |-> NotBegun]
  /\ meets = [l \in Launches |-> NoFile]

Unused == { p \in Servers : server[p] = "unused" }
MayStart(p) == p \in Unused /\ Cardinality(Servers \ Unused) < cfg.limit

Alive == { p \in Servers : server[p] \notin {"unused", "gone"} }

\* kill -0 also finds the dead child of a node that runs: the node took the
\* place of the shell that started the server, and never waits for it.
Exists(p) ==
  p \in Alive \/ (server[p] = "gone" /\ group[p] \in Launches /\ pc[group[p]] = "node")

\* SIGTERM ends a server that has no handler yet; the handler shuts down the
\* loop that serves.
Terminated(state) ==
  IF state \in {"loading", "binding"} THEN "gone"
  ELSE IF state = "listening" THEN "stopping" ELSE state

Terminate(S) ==
  server' = [p \in Servers |-> IF p \in S THEN Terminated(server[p]) ELSE server[p]]

-----------------------------------------------------------------------------
(* One launch, between the operations on what it shares.                   *)

Go(l, place) == pc' = [pc EXCEPT ![l] = place]

FirstPlace(m) ==
  [auto |-> "test", reuse |-> "test", reload |-> "reload_test", node |-> "wait"][m]

Quiet == \A l \in Launches : pc[l] = "idle"

\* The script or its node is gone; its servers are in nobody's terminal.
End(l) ==
  /\ Go(l, "idle")
  /\ mode' = [mode EXCEPT ![l] = "auto"]
  /\ found' = [found EXCEPT ![l] = {}]
  /\ group' = [p \in Servers |-> IF group[p] = l THEN Nobody ELSE group[p]]
  /\ begun' = [begun EXCEPT ![l] = NotBegun]
  /\ meets' = [meets EXCEPT ![l] = NoFile]

Begin(l) ==
  /\ pc[l] = "idle" /\ (cfg.overlap \/ Quiet)
  /\ \E m \in cfg.modes :
       /\ mode' = [mode EXCEPT ![l] = m]
       /\ Go(l, FirstPlace(m))
  /\ begun' = [begun EXCEPT ![l] =
                 [ alive |-> Alive, gone |-> { p \in Servers : server[p] = "gone" },
                   socket |-> socket, pidfile |-> pidfile ]]
  /\ UNCHANGED <<cfg, found, files, server, group, meets>>

\* [ -f "$PID_FILE" ]
TestPidFile(l) ==
  /\ \/ pc[l] = "reload_test" /\ Go(l, IF pidfile = NoFile THEN "reload_sweep" ELSE "reload_read")
     \/ pc[l] = "test" /\ Go(l, IF pidfile = NoFile THEN "sweep" ELSE "read")
  /\ UNCHANGED <<cfg, mode, found, files, server, group, begun, meets>>

\* Mutant: the script goes on with what it read.
ReadAnyPidFile(l) ==
  /\ pc[l] \in {"reload_read", "read"}
  /\ Go(l, IF pc[l] = "read" THEN "judge" ELSE "reload_stop")
  /\ found' = [found EXCEPT ![l] = {pidfile}]
  /\ UNCHANGED <<cfg, mode, files, server, group, begun, meets>>

\* cat "$PID_FILE"; set -e ends the script if another launch removed it.
ReadPidFile(l) ==
  /\ pc[l] \in {"reload_read", "read"}
  /\ IF pidfile = NoFile
     THEN End(l)
     ELSE /\ Go(l, IF pc[l] = "read" THEN "judge" ELSE "reload_stop")
          /\ found' = [found EXCEPT ![l] = {pidfile}]
          /\ UNCHANGED <<mode, group, begun, meets>>
  /\ UNCHANGED <<cfg, files, server>>

\* kill of the process of the pid file, if it is alive, or of all that pgrep found.
Kill(l) ==
  /\ \/ pc[l] = "reload_stop" /\ Go(l, "reload_sweep")
     \/ pc[l] = "reload_kill" /\ Go(l, "reload_clean")
     \/ pc[l] = "kill" /\ Go(l, "start")
  /\ Terminate(found[l])
  /\ UNCHANGED <<cfg, mode, found, files, group, begun, meets>>

\* pgrep -f vlm_live.model_server, whoever started them.
ReloadSweep(l) ==
  /\ pc[l] = "reload_sweep"
  /\ Go(l, "reload_kill")
  /\ found' = [found EXCEPT ![l] = Alive]
  /\ UNCHANGED <<cfg, mode, files, server, group, begun, meets>>

\* Mutant: the socket file stays.
CleanPidFile(l) ==
  /\ \/ pc[l] = "reload_clean" /\ Go(l, "test")
     \/ pc[l] = "clean" /\ Go(l, "sweep")
  /\ pidfile' = NoFile
  /\ UNCHANGED <<cfg, mode, found, socket, server, group, begun, meets>>

Clean(l) ==
  /\ \/ pc[l] = "reload_clean" /\ Go(l, "test")
     \/ pc[l] = "clean" /\ Go(l, "sweep")
  /\ socket' = NoFile /\ pidfile' = NoFile
  /\ UNCHANGED <<cfg, mode, found, server, group, begun, meets>>

\* Mutant: the process is not looked for.
JudgeDead(l) ==
  /\ pc[l] = "judge"
  /\ Go(l, "clean")
  /\ UNCHANGED <<cfg, mode, found, files, server, group, begun, meets>>

\* The server of the pid file is dead, alive without a socket, or taken for good.
Judge(l) ==
  /\ pc[l] = "judge"
  /\ \A p \in found[l] :
       Go(l, IF ~Exists(p) THEN "clean" ELSE IF socket = NoFile THEN "stop" ELSE "sweep")
  /\ UNCHANGED <<cfg, mode, found, files, server, group, begun, meets>>

StopStale(l) ==
  /\ pc[l] = "stop"
  /\ Go(l, "sweep")
  /\ Terminate(found[l])
  /\ pidfile' = NoFile
  /\ UNCHANGED <<cfg, mode, found, socket, group, begun, meets>>

\* Mutant: only servers of the pid file are stopped.
SweepNothing(l) ==
  /\ pc[l] = "sweep"
  /\ Go(l, "start")
  /\ UNCHANGED <<cfg, mode, found, files, server, group, begun, meets>>

\* Without a socket, reuse gives up and the other modes look for leftovers.
Sweep(l) ==
  /\ pc[l] = "sweep"
  /\ \/ /\ socket # NoFile /\ Go(l, "start")
        /\ UNCHANGED <<mode, found, group, begun, meets>>
     \/ /\ socket = NoFile /\ mode[l] = "reuse" /\ End(l)
     \/ /\ socket = NoFile /\ mode[l] # "reuse" /\ Go(l, "kill")
        /\ found' = [found EXCEPT ![l] = Alive]
        /\ UNCHANGED <<mode, group, begun, meets>>
  /\ UNCHANGED <<cfg, files, server>>

\* A background process of a script stays in the script's process group.
Start(l) ==
  /\ pc[l] = "start"
  /\ \/ /\ socket # NoFile /\ Go(l, "wait")
        /\ UNCHANGED <<found, server, group>>
     \/ /\ socket = NoFile /\ Go(l, "write")
        /\ \E p \in Servers :
             /\ MayStart(p)
             /\ server' = [server EXCEPT ![p] = "loading"]
             /\ group' = [group EXCEPT ![p] = l]
             /\ found' = [found EXCEPT ![l] = {p}]
  /\ UNCHANGED <<cfg, mode, files, begun, meets>>

WritePidFile(l) ==
  /\ pc[l] = "write"
  /\ Go(l, "wait")
  /\ \E p \in found[l] : pidfile' = p
  /\ UNCHANGED <<cfg, mode, found, socket, server, group, begun, meets>>

\* The socket is there within three minutes, and the node takes over ...
Ready(l) ==
  /\ pc[l] = "wait" /\ socket # NoFile
  /\ Go(l, "node")
  /\ found' = [found EXCEPT ![l] = {}]
  /\ meets' = [meets EXCEPT ![l] = socket]
  /\ UNCHANGED <<cfg, mode, files, server, group, begun>>

\* ... or not; the server is left as it is.
GiveUp(l) ==
  /\ pc[l] = "wait" /\ socket = NoFile
  /\ End(l)
  /\ UNCHANGED <<cfg, files, server>>

\* SIGINT goes to the whole process group.  The shell starts a background
\* process with SIGINT ignored, but the handler that the server installs once it
\* has loaded the model takes it.
CtrlC(l) ==
  /\ pc[l] # "idle"
  /\ End(l)
  /\ server' = [p \in Servers |->
                  IF group[p] = l /\ server[p] = "listening" THEN "stopping" ELSE server[p]]
  /\ UNCHANGED <<cfg, files>>

NodeEnds(l) ==
  /\ pc[l] = "node"
  /\ End(l)
  /\ UNCHANGED <<cfg, files, server>>

-----------------------------------------------------------------------------
(* One server.                                                             *)

Becomes(p, state) == server' = [server EXCEPT ![p] = state]

\* start_model_server.sh, in a process group of its own.
StartByScript(p) ==
  /\ cfg.scripts /\ (cfg.overlap \/ Quiet)
  /\ MayStart(p)
  /\ Becomes(p, "loading")
  /\ UNCHANGED <<cfg, pc, mode, found, files, group, begun, meets>>

RemoveStaleSocket(p) ==
  /\ server[p] = "loading"
  /\ Becomes(p, "binding")
  /\ socket' = NoFile
  /\ UNCHANGED <<cfg, pc, mode, found, pidfile, group, begun, meets>>

\* bind fails if another server was faster.
Bind(p) ==
  /\ server[p] = "binding"
  /\ IF socket = NoFile
     THEN Becomes(p, "listening") /\ socket' = p
     ELSE Becomes(p, "gone") /\ UNCHANGED socket
  /\ UNCHANGED <<cfg, pc, mode, found, pidfile, group, begun, meets>>

\* kill or systemctl stop.
Signal(p) ==
  /\ server[p] \in {"loading", "binding", "listening"}
  /\ Terminate({p})
  /\ UNCHANGED <<cfg, pc, mode, found, files, group, begun, meets>>

\* The end of a shutdown, or of a server that cannot load or crashes.
\* server_close leaves the socket file where it is.
Exit(p) ==
  /\ p \in Alive
  /\ Becomes(p, "gone")
  /\ UNCHANGED <<cfg, pc, mode, found, files, group, begun, meets>>

-----------------------------------------------------------------------------

LaunchStep(l) ==
  \/ TestPidFile(l) \/ ReadPidFile(l) \/ Kill(l) \/ ReloadSweep(l) \/ Clean(l)
  \/ Judge(l) \/ StopStale(l) \/ Sweep(l) \/ Start(l) \/ WritePidFile(l)
  \/ Ready(l) \/ GiveUp(l)

ServerStep(p) == RemoveStaleSocket(p) \/ Bind(p) \/ Exit(p)

Next ==
  \/ \E l \in Launches : Begin(l) \/ LaunchStep(l) \/ CtrlC(l) \/ NodeEnds(l)
  \/ \E p \in Servers : StartByScript(p) \/ ServerStep(p) \/ Signal(p)

Spec == Init /\ [][Next]_vars

=============================================================================
