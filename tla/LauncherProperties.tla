------------------------- MODULE LauncherProperties -------------------------
(***************************************************************************)
(* What a launch may count on.                                             *)
(***************************************************************************)
EXTENDS Launcher

Places ==
  { "idle", "reload_test", "reload_read", "reload_stop", "reload_sweep", "reload_kill",
    "reload_clean", "test", "read", "judge", "stop", "clean", "sweep", "kill", "start",
    "write", "wait", "node" }
States == { "unused", "loading", "binding", "listening", "stopping", "gone" }
Files  == Servers \cup {NoFile}

\* Every launch is at one of its places and knows servers only; a launch that
\* judges the pid file's server or writes the pid file has exactly one.
TypeOK ==
  /\ cfg \in Configs
  /\ pc \in [Launches -> Places]
  /\ mode \in [Launches -> {"auto", "reuse", "reload", "node"}]
  /\ found \in [Launches -> SUBSET Servers]
  /\ socket \in Files /\ pidfile \in Files
  /\ server \in [Servers -> States]
  /\ group \in [Servers -> Launches \cup {Nobody}]
  /\ begun \in [Launches -> [ alive : SUBSET Servers, gone : SUBSET Servers,
                           socket : Files, pidfile : Files ]]
  /\ meets \in [Launches -> Files]
  /\ \A l \in Launches :
       pc[l] \in {"judge", "stop", "write"} => \E p \in Servers : found[l] = {p}

\* --reload-model ends in a node whose server was started after the launch
\* began, whoever else starts, stops or launches servers meanwhile
\* (README.md:49; run.sh:170-188).
ReloadedModelIsFresh ==
  \A l \in Launches :
    mode[l] = "reload" /\ meets[l] # NoFile => meets[l] \notin begun[l].alive \cup begun[l].gone

\* Where run.sh alone starts servers, and launches do not overlap, a launch loads
\* the model only when no other server loads it or serves it, although a launch
\* may have been interrupted before it wrote the pid file: two copies do not fit
\* the GPU (run.sh:190-230).
StartsAlone ==
  [][ ~cfg.overlap /\ ~cfg.scripts =>
        \A l \in Launches : pc[l] = "start" /\ pc'[l] = "write" =>
          \A p \in Servers : server[p] \notin {"loading", "binding", "listening"} ]_vars

\* There, a launch of run.sh that finds a pid file does not give its node the
\* socket file of a server that was dead when the launch began, although no server
\* removes its file when it ends (run.sh:190-204; model_server.py:163-167).
NodeMeetsLiveServer ==
  ~cfg.overlap /\ ~cfg.scripts =>
    \A l \in Launches :
      mode[l] # "node" /\ meets[l] # NoFile /\ begun[l].pidfile # NoFile =>
        meets[l] \notin begun[l].gone

\* There, a launch that finds a server which serves keeps it, unless that server
\* ends meanwhile or the launch is to reload (README.md:47-48; run.sh:190-261).
LiveServerIsReused ==
  ~cfg.overlap /\ ~cfg.scripts =>
    \A l \in Launches :
      LET known == begun[l].socket
      IN  /\ mode[l] # "reload" /\ meets[l] # NoFile
          /\ known # NoFile
          => meets[l] = known \/ server[known] = "gone"

\* README.md:15, 43 and run.sh:263: Ctrl+C stops the ROS node only; the model
\* server and the model stay.
DocCtrlCSparesServer ==
  [][\A l \in Launches : pc[l] = "node" /\ CtrlC(l) => server' = server]_vars

\* It holds of a server that was there when the launch began: Ctrl+C reaches only
\* what this call of run.sh started itself (run.sh:214-224).
ReusedServerIsSpared ==
  [][\A l \in Launches : CtrlC(l) => \A p \in begun[l].alive : server'[p] = server[p]]_vars

=============================================================================
