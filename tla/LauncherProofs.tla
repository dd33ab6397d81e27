--------------------------- MODULE LauncherProofs ---------------------------
(***************************************************************************)
(* Proofs, for any launches, servers and configurations, that the types of *)
(* Launcher hold, that a reload never ends with an old server, and what    *)
(* launches of run.sh that do not overlap may count on.                    *)
(***************************************************************************)
EXTENDS LauncherProperties, TLAPS

Modes == {"auto", "reuse", "reload", "node"}

LEMMA TerminatedType ==
  ASSUME NEW S, server \in [Servers -> States], Terminate(S)
  PROVE  server' \in [Servers -> States]
BY DEF Terminate, Terminated, States

LEMMA BegunType ==
  NotBegun \in [alive : SUBSET Servers, gone : SUBSET Servers, socket : Files, pidfile : Files]
BY DEF NotBegun, Files

\* A launch that ends leaves the types as they are.
LEMMA EndType ==
  ASSUME TypeOK, NEW l \in Launches, End(l), server' \in [Servers -> States],
         UNCHANGED <<cfg, files>>
  PROVE  TypeOK'
<1>1. /\ pc' \in [Launches -> Places]
      /\ mode' \in [Launches -> Modes]
      /\ found' \in [Launches -> SUBSET Servers]
      /\ group' \in [Servers -> Launches \cup {Nobody}]
      /\ meets' \in [Launches -> Files]
  BY DEF End, Go, TypeOK, Places, Modes, Files
<1>2. begun' \in [Launches -> [alive : SUBSET Servers, gone : SUBSET Servers,
                                socket : Files, pidfile : Files]]
  BY BegunType DEF End, TypeOK
<1>3. \A m \in Launches : pc'[m] \in {"judge", "stop", "write"} => \E p \in Servers : found'[m] = {p}
  BY DEF End, Go, TypeOK
<1>4. QED
  BY <1>1, <1>2, <1>3 DEF TypeOK, files, Modes

LEMMA InitType == Init => TypeOK
<1> SUFFICES ASSUME Init PROVE TypeOK
  OBVIOUS
<1>1. begun \in [Launches -> [alive : SUBSET Servers, gone : SUBSET Servers,
                               socket : Files, pidfile : Files]]
  BY BegunType DEF Init
<1>2. QED
  BY <1>1 DEF Init, TypeOK, Places, States, Files

LEMMA StepType == TypeOK /\ [Next]_vars => TypeOK'
<1> SUFFICES ASSUME TypeOK, [Next]_vars PROVE TypeOK'
  OBVIOUS
<1> USE DEF files
<1>1. ASSUME NEW l \in Launches, Begin(l)
      PROVE  TypeOK'
  <2>1. PICK m \in cfg.modes : mode' = [mode EXCEPT ![l] = m] /\ Go(l, FirstPlace(m))
    BY <1>1 DEF Begin
  <2>2. m \in Modes
    BY <2>1, LauncherAssumption DEF TypeOK, Modes
  <2>3. mode' \in [Launches -> Modes] /\ FirstPlace(m) \in {"test", "reload_test", "wait"}
    BY <2>1, <2>2 DEF TypeOK, Modes, FirstPlace
  <2>4. pc' \in [Launches -> Places] /\ pc'[l] \notin {"judge", "stop", "write"}
        /\ \A k \in Launches \ {l} : pc'[k] = pc[k]
    BY <2>1, <2>3 DEF Go, TypeOK, Places
  <2>5. begun' \in [Launches -> [alive : SUBSET Servers, gone : SUBSET Servers,
                                  socket : Files, pidfile : Files]]
    BY <1>1 DEF Begin, TypeOK, Alive
  <2>6. UNCHANGED <<cfg, found, files, server, group, meets>>
    BY <1>1 DEF Begin
  <2>7. \A k \in Launches : pc'[k] \in {"judge", "stop", "write"} => \E p \in Servers : found'[k] = {p}
    BY <2>4, <2>6 DEF TypeOK
  <2>8. QED
    BY <2>3, <2>4, <2>5, <2>6, <2>7 DEF TypeOK, Modes
<1>2. ASSUME NEW l \in Launches, TestPidFile(l)
      PROVE  TypeOK'
  BY <1>2 DEF TestPidFile, Go, TypeOK, Places
<1>3. ASSUME NEW l \in Launches, ReadPidFile(l)
      PROVE  TypeOK'
  <2>1. CASE pidfile = NoFile
    BY <1>3, <2>1, EndType DEF ReadPidFile, TypeOK
  <2>2. CASE pidfile # NoFile
    <3>1. /\ pidfile \in Servers
          /\ found' = [found EXCEPT ![l] = {pidfile}]
          /\ UNCHANGED <<mode, group, begun, meets, cfg, files, server>>
          /\ pc' = [pc EXCEPT ![l] = "judge"] \/ pc' = [pc EXCEPT ![l] = "reload_stop"]
      BY <1>3, <2>2 DEF ReadPidFile, Go, TypeOK, Files
    <3>2. pc' \in [Launches -> Places] /\ found' \in [Launches -> SUBSET Servers]
      BY <3>1 DEF TypeOK, Places
    <3>3. \A k \in Launches : pc'[k] \in {"judge", "stop", "write"} => \E p \in Servers : found'[k] = {p}
      BY <3>1 DEF TypeOK
    <3>4. QED
      BY <3>1, <3>2, <3>3 DEF TypeOK
  <2>3. QED
    BY <2>1, <2>2
<1>4. ASSUME NEW l \in Launches, Kill(l)
      PROVE  TypeOK'
  <2>1. server' \in [Servers -> States]
    BY <1>4, TerminatedType DEF Kill, TypeOK
  <2>2. QED
    BY <1>4, <2>1 DEF Kill, Go, TypeOK, Places
<1>5. ASSUME NEW l \in Launches, ReloadSweep(l)
      PROVE  TypeOK'
  BY <1>5 DEF ReloadSweep, Go, TypeOK, Places, Alive
<1>6. ASSUME NEW l \in Launches, Clean(l)
      PROVE  TypeOK'
  BY <1>6 DEF Clean, Go, TypeOK, Places, Files
<1>7. ASSUME NEW l \in Launches, Judge(l)
      PROVE  TypeOK'
  <2>1. PICK p \in Servers : found[l] = {p}
    BY <1>7 DEF Judge, TypeOK
  <2>2. \E place \in {"clean", "stop", "sweep"} : Go(l, place)
    BY <1>7, <2>1 DEF Judge
  <2>3. QED
    BY <1>7, <2>1, <2>2 DEF Judge, Go, TypeOK, Places
<1>8. ASSUME NEW l \in Launches, StopStale(l)
      PROVE  TypeOK'
  <2>1. server' \in [Servers -> States]
    BY <1>8, TerminatedType DEF StopStale, TypeOK
  <2>2. QED
    BY <1>8, <2>1 DEF StopStale, Go, TypeOK, Places, Files
<1>9. ASSUME NEW l \in Launches, Sweep(l)
      PROVE  TypeOK'
  <2>1. CASE End(l)
    BY <1>9, <2>1, EndType DEF Sweep, TypeOK
  <2>2. CASE Go(l, "start") /\ UNCHANGED <<mode, found, group, begun, meets>>
    BY <1>9, <2>2 DEF Sweep, Go, TypeOK, Places
  <2>3. CASE Go(l, "kill") /\ found' = [found EXCEPT ![l] = Alive] /\ UNCHANGED <<mode, group, begun, meets>>
    BY <1>9, <2>3 DEF Sweep, Go, TypeOK, Places, Alive
  <2>4. QED
    BY <1>9, <2>1, <2>2, <2>3 DEF Sweep
<1>10. ASSUME NEW l \in Launches, Start(l)
       PROVE  TypeOK'
  <2>1. CASE Go(l, "wait") /\ UNCHANGED <<found, server, group>>
    BY <1>10, <2>1 DEF Start, Go, TypeOK, Places
  <2>2. ASSUME Go(l, "write"),
               NEW p \in Servers,
               server' = [server EXCEPT ![p] = "loading"],
               group' = [group EXCEPT ![p] = l],
               found' = [found EXCEPT ![l] = {p}]
        PROVE  TypeOK'
    <3>1. /\ UNCHANGED <<cfg, mode, files, begun, meets>>
          /\ pc' = [pc EXCEPT ![l] = "write"]
      BY <1>10, <2>2 DEF Start, Go
    <3>2. /\ pc' \in [Launches -> Places]
          /\ server' \in [Servers -> States]
          /\ group' \in [Servers -> Launches \cup {Nobody}]
          /\ found' \in [Launches -> SUBSET Servers]
      BY <2>2, <3>1 DEF TypeOK, Places, States
    <3>3. \A k \in Launches : pc'[k] \in {"judge", "stop", "write"} => \E q \in Servers : found'[k] = {q}
      <4>1. pc'[l] = "write" /\ found'[l] = {p}
        BY <2>2, <3>1 DEF TypeOK
      <4>2. \A k \in Launches \ {l} : pc'[k] = pc[k] /\ found'[k] = found[k]
        BY <2>2, <3>1 DEF TypeOK
      <4>3. QED
        BY <4>1, <4>2 DEF TypeOK
    <3>4. QED
      BY <3>1, <3>2, <3>3 DEF TypeOK
  <2>3. QED
    BY <1>10, <2>1, <2>2 DEF Start
<1>11. ASSUME NEW l \in Launches, WritePidFile(l)
       PROVE  TypeOK'
  <2>1. PICK p \in found[l] : pidfile' = p
    BY <1>11 DEF WritePidFile
  <2>2. p \in Servers
    BY <2>1 DEF TypeOK
  <2>3. QED
    BY <1>11, <2>1, <2>2 DEF WritePidFile, Go, TypeOK, Places, Files
<1>12. ASSUME NEW l \in Launches, Ready(l)
       PROVE  TypeOK'
  BY <1>12 DEF Ready, Go, TypeOK, Places
<1>13. ASSUME NEW l \in Launches, GiveUp(l) \/ NodeEnds(l)
       PROVE  TypeOK'
  BY <1>13, EndType DEF GiveUp, NodeEnds, TypeOK
<1>14. ASSUME NEW l \in Launches, CtrlC(l)
       PROVE  TypeOK'
  <2>1. server' \in [Servers -> States]
    BY <1>14 DEF CtrlC, TypeOK, States
  <2>2. QED
    BY <1>14, <2>1, EndType DEF CtrlC
<1>15. ASSUME NEW p \in Servers,
              StartByScript(p) \/ RemoveStaleSocket(p) \/ Bind(p) \/ Exit(p)
       PROVE  TypeOK'
  BY <1>15 DEF StartByScript, RemoveStaleSocket, Bind, Exit, Becomes, TypeOK, States, Files
<1>16. ASSUME NEW p \in Servers, Signal(p)
       PROVE  TypeOK'
  <2>1. server' \in [Servers -> States]
    BY <1>16, TerminatedType DEF Signal, TypeOK
  <2>2. QED
    BY <1>16, <2>1 DEF Signal, TypeOK
<1>17. CASE UNCHANGED vars
  BY <1>17 DEF vars, TypeOK
<1>18. QED
  BY <1>1, <1>2, <1>3, <1>4, <1>5, <1>6, <1>7, <1>8, <1>9, <1>10, <1>11, <1>12, <1>13,
     <1>14, <1>15, <1>16, <1>17
  DEF Next, LaunchStep, ServerStep

\* Every launch is at one of its places and knows servers only (run.sh:142-273).
THEOREM TypeCorrect == Spec => []TypeOK
BY InitType, StepType, PTL DEF Spec

-----------------------------------------------------------------------------
(* A reload: the servers that were there when it began are stopped, can    *)
(* never make a socket file again, and lose the one they have.             *)

Old(l) == begun[l].alive \cup begun[l].gone

Reloaded ==
  { "test", "read", "judge", "stop", "clean", "sweep", "kill", "start", "write",
    "wait", "node" }

ReloadOK(l) ==
  mode[l] = "reload" =>
    /\ \A p \in Old(l) : server[p] # "unused"
    /\ pc[l] = "reload_kill" => \A p \in Old(l) : p \in found[l] \/ server[p] = "gone"
    /\ pc[l] \in Reloaded \cup {"reload_clean"} =>
         \A p \in Old(l) : server[p] \in {"stopping", "gone"}
    /\ pc[l] \in Reloaded => socket \notin Old(l)
    /\ meets[l] \notin Old(l)

ReloadInv == \A l \in Launches : ReloadOK(l)

\* What a launch met is known only at its node.
MeetsInv == \A l \in Launches : meets[l] # NoFile => pc[l] = "node"

\* What no step does to a server: one that was started is not new again, and one
\* that stops or has ended makes no socket file.
ServersGoOn ==
  \A p \in Servers :
    /\ server[p] # "unused" => server'[p] # "unused"
    /\ server[p] \in {"stopping", "gone"} => server'[p] \in {"stopping", "gone"}
    /\ server[p] = "gone" => server'[p] = "gone"

SocketsAreNew ==
  \/ socket' \in {socket, NoFile}
  \/ \E p \in Servers : server[p] = "binding" /\ socket' = p

LEMMA ServersOnly ==
  ASSUME TypeOK, [Next]_vars
  PROVE  ServersGoOn /\ SocketsAreNew
<1> USE DEF files
<1>a. ASSUME UNCHANGED <<server, socket>>
      PROVE  ServersGoOn /\ SocketsAreNew
  BY <1>a DEF ServersGoOn, SocketsAreNew
<1>b. ASSUME NEW S, Terminate(S), UNCHANGED socket
      PROVE  ServersGoOn /\ SocketsAreNew
  BY <1>b DEF Terminate, Terminated, ServersGoOn, SocketsAreNew
<1>c. ASSUME NEW q \in Unused, server' = [server EXCEPT ![q] = "loading"], UNCHANGED socket
      PROVE  ServersGoOn /\ SocketsAreNew
  BY <1>c DEF TypeOK, Unused, ServersGoOn, SocketsAreNew
<1>1. ASSUME NEW l \in Launches, Kill(l) \/ StopStale(l)
      PROVE  ServersGoOn /\ SocketsAreNew
  BY <1>1, <1>b DEF Kill, StopStale
<1>2. ASSUME NEW l \in Launches, Clean(l)
      PROVE  ServersGoOn /\ SocketsAreNew
  BY <1>2 DEF Clean, ServersGoOn, SocketsAreNew
<1>3. ASSUME NEW l \in Launches,
             \/ Begin(l) \/ TestPidFile(l) \/ ReadPidFile(l) \/ ReloadSweep(l) \/ Judge(l)
             \/ Sweep(l) \/ WritePidFile(l) \/ Ready(l) \/ GiveUp(l) \/ NodeEnds(l)
      PROVE  ServersGoOn /\ SocketsAreNew
  <2>1. UNCHANGED <<server, socket>>
    BY <1>3 DEF Begin, TestPidFile, ReadPidFile, ReloadSweep, Judge, Sweep, WritePidFile,
                Ready, GiveUp, NodeEnds
  <2>2. QED
    BY <2>1, <1>a
<1>4. ASSUME NEW l \in Launches, Start(l)
      PROVE  ServersGoOn /\ SocketsAreNew
  BY <1>4, <1>a, <1>c DEF Start, MayStart
<1>5. ASSUME NEW l \in Launches, CtrlC(l)
      PROVE  ServersGoOn /\ SocketsAreNew
  BY <1>5 DEF CtrlC, ServersGoOn, SocketsAreNew
<1>6. ASSUME NEW p \in Servers, StartByScript(p)
      PROVE  ServersGoOn /\ SocketsAreNew
  BY <1>6, <1>c DEF StartByScript, MayStart, Becomes
<1>7. ASSUME NEW p \in Servers, RemoveStaleSocket(p) \/ Bind(p) \/ Exit(p)
      PROVE  ServersGoOn /\ SocketsAreNew
  <2>1. SocketsAreNew
    BY <1>7 DEF RemoveStaleSocket, Bind, Exit, SocketsAreNew
  <2>2. \/ server' = [server EXCEPT ![p] = "gone"]
        \/ /\ server[p] \in {"loading", "binding"}
           /\ \E state \in {"binding", "listening"} : server' = [server EXCEPT ![p] = state]
    BY <1>7 DEF RemoveStaleSocket, Bind, Exit, Becomes
  <2>3. ServersGoOn
    BY <2>2 DEF TypeOK, ServersGoOn
  <2>4. QED
    BY <2>1, <2>3
<1>8. ASSUME NEW p \in Servers, Signal(p)
      PROVE  ServersGoOn /\ SocketsAreNew
  BY <1>8, <1>b DEF Signal
<1>9. CASE UNCHANGED vars
  BY <1>9, <1>a DEF vars
<1>10. QED
  BY <1>1, <1>2, <1>3, <1>4, <1>5, <1>6, <1>7, <1>8, <1>9 DEF Next, LaunchStep, ServerStep

LEMMA StepMeets == TypeOK /\ MeetsInv /\ [Next]_vars => MeetsInv'
<1> SUFFICES ASSUME TypeOK, MeetsInv, [Next]_vars PROVE MeetsInv'
  OBVIOUS
<1> USE DEF files
<1>1. ASSUME UNCHANGED <<pc, meets>>
      PROVE  MeetsInv'
  BY <1>1 DEF MeetsInv
<1>2. ASSUME NEW l \in Launches, End(l)
      PROVE  MeetsInv'
  BY <1>2 DEF End, Go, TypeOK, MeetsInv
<1>3. ASSUME NEW l \in Launches, pc[l] # "node", UNCHANGED meets, NEW place, Go(l, place)
      PROVE  MeetsInv'
  BY <1>3 DEF Go, TypeOK, MeetsInv
<1>4. ASSUME NEW l \in Launches, Begin(l)
      PROVE  MeetsInv'
  BY <1>4, <1>3 DEF Begin
<1>5. ASSUME NEW l \in Launches,
             TestPidFile(l) \/ Kill(l) \/ ReloadSweep(l) \/ Clean(l) \/ StopStale(l) \/ WritePidFile(l)
      PROVE  MeetsInv'
  BY <1>5, <1>3 DEF TestPidFile, Kill, ReloadSweep, Clean, StopStale, WritePidFile
<1>6. ASSUME NEW l \in Launches, ReadPidFile(l) \/ Sweep(l)
      PROVE  MeetsInv'
  BY <1>6, <1>2, <1>3 DEF ReadPidFile, Sweep
<1>7. ASSUME NEW l \in Launches, Judge(l)
      PROVE  MeetsInv'
  <2>1. PICK p \in Servers : found[l] = {p}
    BY <1>7 DEF Judge, TypeOK
  <2>2. QED
    BY <1>7, <2>1, <1>3 DEF Judge
<1>8. ASSUME NEW l \in Launches, Start(l)
      PROVE  MeetsInv'
  BY <1>8, <1>3 DEF Start
<1>9. ASSUME NEW l \in Launches, Ready(l)
      PROVE  MeetsInv'
  BY <1>9 DEF Ready, Go, TypeOK, MeetsInv
<1>10. ASSUME NEW l \in Launches, GiveUp(l) \/ CtrlC(l) \/ NodeEnds(l)
       PROVE  MeetsInv'
  BY <1>10, <1>2 DEF GiveUp, CtrlC, NodeEnds
<1>11. ASSUME NEW p \in Servers, StartByScript(p) \/ ServerStep(p) \/ Signal(p)
       PROVE  MeetsInv'
  BY <1>11, <1>1 DEF StartByScript, ServerStep, RemoveStaleSocket, Bind, Exit, Signal
<1>12. CASE UNCHANGED vars
  BY <1>12, <1>1 DEF vars
<1>13. QED
  BY <1>4, <1>5, <1>6, <1>7, <1>8, <1>9, <1>10, <1>11, <1>12 DEF Next, LaunchStep

\* A launch that does not move: what the others do to its servers and to the
\* socket disturbs nothing.
LEMMA Others ==
  ASSUME TypeOK, ReloadInv, [Next]_vars, NEW l \in Launches,
         mode'[l] = mode[l], begun'[l] = begun[l],
         found'[l] = found[l] \/ pc'[l] # "reload_kill",
         pc'[l] = pc[l] \/ (pc[l] \in Reloaded /\ pc'[l] \in Reloaded)
                      \/ (pc[l] \notin Reloaded /\ pc'[l] \in {"reload_read", "reload_stop", "reload_sweep"}),
         meets'[l] = meets[l] \/ (meets'[l] = socket /\ pc[l] \in Reloaded)
  PROVE  ReloadOK(l)'
<1>1. ServersGoOn /\ SocketsAreNew
  BY ServersOnly
<1>2. Old(l)' = Old(l) /\ Old(l) \subseteq Servers /\ NoFile \notin Old(l)
  BY LauncherAssumption DEF Old, TypeOK
<1>3. ReloadOK(l)
  BY DEF ReloadInv
<1>4. ASSUME mode[l] = "reload"
      PROVE  /\ \A p \in Old(l) : server'[p] # "unused"
             /\ pc'[l] = "reload_kill" => \A p \in Old(l) : p \in found[l] \/ server'[p] = "gone"
             /\ meets'[l] \notin Old(l)
  BY <1>1, <1>2, <1>3, <1>4 DEF ReloadOK, ServersGoOn, Reloaded
<1>5. ASSUME mode[l] = "reload", pc'[l] \in Reloaded \cup {"reload_clean"}
      PROVE  \A p \in Old(l) : server[p] \in {"stopping", "gone"} /\ server'[p] \in {"stopping", "gone"}
  BY <1>1, <1>2, <1>3, <1>5 DEF ReloadOK, ServersGoOn, Reloaded
<1>6. ASSUME mode[l] = "reload", pc'[l] \in Reloaded
      PROVE  socket' \notin Old(l)
  <2>1. socket \notin Old(l)
    BY <1>3, <1>6 DEF ReloadOK, Reloaded
  <2>2. QED
    BY <1>1, <1>2, <1>5, <1>6, <2>1 DEF SocketsAreNew
<1>7. QED
  BY <1>2, <1>4, <1>5, <1>6 DEF ReloadOK

LEMMA StepReload == TypeOK /\ ReloadInv /\ MeetsInv /\ [Next]_vars => ReloadInv'
<1> SUFFICES ASSUME TypeOK, ReloadInv, MeetsInv, [Next]_vars,
                    NEW k \in Launches
             PROVE  ReloadOK(k)'
  BY DEF ReloadInv
<1> USE DEF files
<1>0. ServersGoOn /\ SocketsAreNew /\ ReloadOK(k)
  BY ServersOnly DEF ReloadInv
<1>a. ASSUME mode'[k] = mode[k], begun'[k] = begun[k], found'[k] = found[k],
             pc'[k] = pc[k], meets'[k] = meets[k]
      PROVE  ReloadOK(k)'
  BY <1>a, Others
<1>b. ASSUME mode'[k] # "reload"
      PROVE  ReloadOK(k)'
  BY <1>b DEF ReloadOK
<1>c. ASSUME NEW l \in Launches, End(l)
      PROVE  ReloadOK(k)'
  <2>1. CASE l = k
    <3>1. mode'[k] = "auto"
      BY <1>c, <2>1 DEF End, TypeOK
    <3>2. QED
      BY <3>1, <1>b
  <2>2. CASE l # k
    BY <1>c, <2>2, <1>a DEF End, Go, TypeOK
  <2>3. QED
    BY <2>1, <2>2
<1>d. ASSUME NEW l \in Launches, NEW place, Go(l, place), UNCHANGED <<mode, begun, meets>>,
             found' = found \/ \E S : found' = [found EXCEPT ![l] = S],
             \/ pc[l] \in Reloaded /\ place \in Reloaded
             \/ /\ pc[l] \notin Reloaded
                /\ place \in {"reload_read", "reload_stop", "reload_sweep"}
      PROVE  ReloadOK(k)'
  <2>1. CASE l = k
    <3>1. pc'[k] = place
      BY <1>d, <2>1 DEF Go, TypeOK
    <3>2. QED
      BY <1>d, <2>1, <3>1, Others DEF Reloaded
  <2>2. CASE l # k
    <3>1. pc'[k] = pc[k] /\ found'[k] = found[k]
      BY <1>d, <2>2 DEF Go, TypeOK
    <3>2. QED
      BY <1>d, <3>1, <1>a
  <2>3. QED
    BY <2>1, <2>2
<1>1. ASSUME NEW l \in Launches, Begin(l)
      PROVE  ReloadOK(k)'
  <2>1. CASE l = k
    <3>1. PICK m \in cfg.modes : mode' = [mode EXCEPT ![k] = m] /\ Go(k, FirstPlace(m))
      BY <1>1, <2>1 DEF Begin
    <3>2. ASSUME m = "reload"
          PROVE  ReloadOK(k)'
      <4>1. pc'[k] = "reload_test"
        BY <3>1, <3>2 DEF Go, FirstPlace, TypeOK
      <4>2. meets'[k] = NoFile /\ UNCHANGED server
        BY <1>1, <2>1 DEF Begin, MeetsInv
      <4>3. /\ begun'[k].alive = Alive
            /\ begun'[k].gone = { p \in Servers : server[p] = "gone" }
        BY <1>1, <2>1 DEF Begin, TypeOK
      <4>4. \A p \in Old(k)' : p \in Servers /\ server'[p] # "unused"
        BY <4>2, <4>3 DEF Old, Alive
      <4>5. NoFile \notin Old(k)'
        BY <4>4, LauncherAssumption
      <4>6. QED
        BY <4>1, <4>2, <4>4, <4>5 DEF ReloadOK, Reloaded
    <3>3. mode'[k] = m
      BY <3>1 DEF TypeOK
    <3>4. QED
      BY <3>2, <3>3, <1>b
  <2>2. CASE l # k
    BY <1>1, <2>2, <1>a DEF Begin, Go, TypeOK
  <2>3. QED
    BY <2>1, <2>2
<1>2. ASSUME NEW l \in Launches, TestPidFile(l) \/ WritePidFile(l) \/ StopStale(l)
      PROVE  ReloadOK(k)'
  BY <1>2, <1>d DEF TestPidFile, WritePidFile, StopStale, Reloaded
<1>3. ASSUME NEW l \in Launches, ReadPidFile(l) \/ Sweep(l)
      PROVE  ReloadOK(k)'
  BY <1>3, <1>c, <1>d DEF ReadPidFile, Sweep, Reloaded
<1>4. ASSUME NEW l \in Launches, Kill(l)
      PROVE  ReloadOK(k)'
  <2>1. CASE pc[l] = "reload_kill" /\ l = k
    <3>1. pc'[k] = "reload_clean" /\ UNCHANGED <<mode, begun, meets>> /\ Terminate(found[k])
      BY <1>4, <2>1 DEF Kill, Go, TypeOK
    <3>2. Old(k)' = Old(k) /\ Old(k) \subseteq Servers
      BY <3>1 DEF Old, TypeOK
    <3>3. ASSUME mode[k] = "reload"
          PROVE  \A p \in Old(k) : server'[p] \in {"stopping", "gone"}
      BY <1>0, <2>1, <3>1, <3>2, <3>3 DEF ReloadOK, Terminate, Terminated, TypeOK, States
    <3>4. QED
      BY <1>0, <3>1, <3>2, <3>3 DEF ReloadOK, Reloaded
  <2>2. CASE pc[l] = "reload_kill" /\ l # k
    BY <1>4, <2>2, <1>a DEF Kill, Go, TypeOK
  <2>3. CASE pc[l] # "reload_kill"
    BY <1>4, <2>3, <1>d DEF Kill, Reloaded
  <2>4. QED
    BY <2>1, <2>2, <2>3
<1>5. ASSUME NEW l \in Launches, ReloadSweep(l)
      PROVE  ReloadOK(k)'
  <2>1. CASE l = k
    <3>1. /\ pc[k] = "reload_sweep" /\ pc'[k] = "reload_kill" /\ found'[k] = Alive
          /\ UNCHANGED <<mode, begun, meets, server>>
      BY <1>5, <2>1 DEF ReloadSweep, Go, TypeOK
    <3>2. Old(k)' = Old(k) /\ Old(k) \subseteq Servers
      BY <3>1 DEF Old, TypeOK
    <3>3. QED
      BY <1>0, <3>1, <3>2 DEF ReloadOK, Reloaded, Alive
  <2>2. CASE l # k
    BY <1>5, <2>2, <1>a DEF ReloadSweep, Go, TypeOK
  <2>3. QED
    BY <2>1, <2>2
<1>6. ASSUME NEW l \in Launches, Clean(l)
      PROVE  ReloadOK(k)'
  <2>1. CASE pc[l] = "reload_clean" /\ l = k
    <3>1. pc'[k] = "test" /\ socket' = NoFile /\ UNCHANGED <<mode, begun, meets, server>>
      BY <1>6, <2>1 DEF Clean, Go, TypeOK
    <3>2. Old(k)' = Old(k) /\ Old(k) \subseteq Servers /\ NoFile \notin Old(k)
      BY <3>1, LauncherAssumption DEF Old, TypeOK
    <3>3. QED
      BY <1>0, <2>1, <3>1, <3>2 DEF ReloadOK, Reloaded
  <2>2. CASE pc[l] = "reload_clean" /\ l # k
    BY <1>6, <2>2, <1>a DEF Clean, Go, TypeOK
  <2>3. CASE pc[l] # "reload_clean"
    BY <1>6, <2>3, <1>d DEF Clean, Reloaded
  <2>4. QED
    BY <2>1, <2>2, <2>3
<1>7. ASSUME NEW l \in Launches, Judge(l)
      PROVE  ReloadOK(k)'
  <2>1. PICK p \in Servers : found[l] = {p}
    BY <1>7 DEF Judge, TypeOK
  <2>2. PICK place \in {"clean", "stop", "sweep"} : Go(l, place)
    BY <1>7, <2>1 DEF Judge
  <2>3. QED
    BY <1>7, <2>2, <1>d DEF Judge, Reloaded
<1>8. ASSUME NEW l \in Launches, Start(l)
      PROVE  ReloadOK(k)'
  <2>1. UNCHANGED <<mode, begun, meets>> /\ pc[l] \in Reloaded
    BY <1>8 DEF Start, Reloaded
  <2>2. CASE Go(l, "wait") /\ found' = found
    BY <2>1, <2>2, <1>d DEF Reloaded
  <2>3. ASSUME Go(l, "write"), NEW p \in Servers, found' = [found EXCEPT ![l] = {p}]
        PROVE  ReloadOK(k)'
    BY <2>1, <2>3, <1>d DEF Reloaded
  <2>4. QED
    BY <1>8, <2>2, <2>3 DEF Start
<1>9. ASSUME NEW l \in Launches, Ready(l)
      PROVE  ReloadOK(k)'
  <2>1. CASE l = k
    <3>1. /\ pc[k] = "wait" /\ pc'[k] = "node" /\ meets'[k] = socket
          /\ UNCHANGED <<mode, begun>>
      BY <1>9, <2>1 DEF Ready, Go, TypeOK
    <3>2. QED
      BY <3>1, Others DEF Reloaded
  <2>2. CASE l # k
    BY <1>9, <2>2, <1>a DEF Ready, Go, TypeOK
  <2>3. QED
    BY <2>1, <2>2
<1>10. ASSUME NEW l \in Launches, GiveUp(l) \/ CtrlC(l) \/ NodeEnds(l)
       PROVE  ReloadOK(k)'
  BY <1>10, <1>c DEF GiveUp, CtrlC, NodeEnds
<1>11. ASSUME NEW p \in Servers, StartByScript(p) \/ ServerStep(p) \/ Signal(p)
       PROVE  ReloadOK(k)'
  BY <1>11, <1>a DEF StartByScript, ServerStep, RemoveStaleSocket, Bind, Exit, Signal
<1>12. CASE UNCHANGED vars
  BY <1>12, <1>a DEF vars
<1>13. QED
  BY <1>1, <1>2, <1>3, <1>4, <1>5, <1>6, <1>7, <1>8, <1>9, <1>10, <1>11, <1>12
  DEF Next, LaunchStep

LEMMA ReloadAlways == Spec => [](ReloadInv /\ MeetsInv)
<1>1. Init => ReloadInv /\ MeetsInv
  BY DEF Init, ReloadInv, ReloadOK, MeetsInv
<1>2. QED
  BY <1>1, InitType, StepType, StepMeets, StepReload, PTL DEF Spec

\* A reload ends with a server that was started after it began, however the
\* launches interleave and whoever else starts and stops servers
\* (run.sh:170-188).
THEOREM ReloadedModelIsFreshHolds == Spec => []ReloadedModelIsFresh
<1>1. ReloadInv /\ MeetsInv => ReloadedModelIsFresh
  BY DEF ReloadInv, ReloadOK, MeetsInv, ReloadedModelIsFresh, Old
<1>2. QED
  BY <1>1, ReloadAlways, PTL

-----------------------------------------------------------------------------
(* Launches of run.sh one after another.                                   *)

Alone == ~cfg.overlap /\ ~cfg.scripts

Active(p) == server[p] \in {"loading", "binding", "listening"}

OneLaunch == \A k, l \in Launches : pc[k] # "idle" /\ pc[l] # "idle" => k = l

\* One server at most may have a model or the socket.
OneServer ==
  /\ \A p, q \in Servers : Active(p) /\ Active(q) => p = q
  /\ \A p \in Servers : server[p] \in {"loading", "binding"} => socket = NoFile

\* A pid file, if there is one, names the server that there is.
PidFileTells ==
  pidfile # NoFile =>
    /\ server[pidfile] # "unused"
    /\ socket \in {NoFile, pidfile}
    /\ \A p \in Servers : Active(p) => p = pidfile

Reloading ==
  { "reload_test", "reload_read", "reload_stop", "reload_sweep", "reload_kill", "reload_clean" }

\* What a launch has found out.
PlaceOK(l) ==
  /\ pc[l] \in Reloading => mode[l] = "reload"
  /\ pc[l] = "judge" => pidfile # NoFile /\ found[l] = {pidfile}
  /\ pc[l] = "sweep" => pidfile = NoFile \/ socket # NoFile
  /\ pc[l] = "kill" => pidfile = NoFile /\ \A p \in Servers : Active(p) => p \in found[l]
  /\ pc[l] = "start" => socket # NoFile \/ (pidfile = NoFile /\ \A p \in Servers : ~Active(p))
  /\ pc[l] = "write" =>
       /\ pidfile = NoFile /\ socket \in {NoFile} \cup found[l]
       /\ \A p \in found[l] : server[p] # "unused"
       /\ \A p \in Servers : Active(p) => p \in found[l]

\* From where it has judged the server of the pid file, the socket is of no server
\* that was dead.
MeetOK(l) ==
  mode[l] \in {"auto", "reuse"} /\ begun[l].pidfile # NoFile =>
    /\ \A p \in begun[l].gone : server[p] = "gone"
    /\ pc[l] \in {"test", "read"} => pidfile # NoFile
    /\ pc[l] \in {"stop", "sweep", "kill", "start", "write", "wait", "node"} =>
         socket \notin begun[l].gone
    /\ meets[l] \notin begun[l].gone

\* A server that was there is kept or has ended.
ReuseOK(l) ==
  mode[l] # "reload" /\ begun[l].socket # NoFile =>
    \/ server[begun[l].socket] = "gone"
    \/ /\ socket = begun[l].socket /\ meets[l] \in {NoFile, begun[l].socket}
       /\ pc[l] \notin {"clean", "stop", "kill", "write"}

IdleOK(l) == pc[l] = "idle" => begun[l] = NotBegun /\ meets[l] = NoFile

LaunchOK(l) == IdleOK(l) /\ PlaceOK(l) /\ MeetOK(l) /\ ReuseOK(l)

AloneInv ==
  Alone => OneLaunch /\ OneServer /\ PidFileTells /\ \A l \in Launches : LaunchOK(l)

\* No server becomes active: the two files tell what they told.
Fewer == \A p \in Servers : Active(p)' => server'[p] = server[p]

LEMMA FilesTell ==
  ASSUME TypeOK, OneServer, PidFileTells, Fewer, ServersGoOn,
         socket' \in {socket, NoFile}, pidfile' \in {pidfile, NoFile}
  PROVE  OneServer' /\ PidFileTells'
<1>1. \A p \in Servers : Active(p)' => Active(p) /\ server'[p] = server[p]
  BY DEF Fewer, Active
<1>2. OneServer'
  BY <1>1 DEF OneServer, Active
<1>3. PidFileTells'
  <2>1. pidfile' # NoFile => pidfile' \in Servers /\ pidfile' = pidfile
    BY DEF TypeOK, Files
  <2>2. QED
    BY <1>1, <2>1 DEF PidFileTells, ServersGoOn
<1>4. QED
  BY <1>2, <1>3

LEMMA TerminateFewer ==
  ASSUME TypeOK, NEW S, Terminate(S)
  PROVE  Fewer /\ \A p \in S \cap Servers : ~Active(p)'
BY DEF Terminate, Terminated, Fewer, Active, TypeOK, States

\* A launch that is idle counts on nothing.
LEMMA IdleLaunch ==
  ASSUME NEW k \in Launches, pc'[k] = "idle", begun'[k] = NotBegun, meets'[k] = NoFile
  PROVE  LaunchOK(k)'
BY DEF LaunchOK, IdleOK, PlaceOK, MeetOK, ReuseOK, NotBegun, Reloading

\* A launch that does not move counts on what it counted on.
LEMMA LaunchStays ==
  ASSUME TypeOK, NEW k \in Launches, LaunchOK(k), ServersGoOn,
         \A p \in Servers : Active(p)' => Active(p), pc'[k] = pc[k],
         mode'[k] = mode[k], found'[k] = found[k],
         begun'[k] = begun[k], meets'[k] = meets[k], UNCHANGED files
  PROVE  LaunchOK(k)'
<1>1. /\ begun[k].gone \subseteq Servers /\ begun[k].socket \in Servers \cup {NoFile}
      /\ found[k] \subseteq Servers /\ UNCHANGED <<socket, pidfile>>
  BY DEF TypeOK, Files, files
<1>2. IdleOK(k)' /\ PlaceOK(k)'
  BY <1>1 DEF LaunchOK, IdleOK, PlaceOK, ServersGoOn
<1>3. MeetOK(k)' /\ ReuseOK(k)'
  BY <1>1 DEF LaunchOK, MeetOK, ReuseOK, ServersGoOn
<1>4. QED
  BY <1>2, <1>3 DEF LaunchOK

\* A step of the one launch.
LEMMA LaunchMoves ==
  ASSUME TypeOK, OneLaunch, \A k \in Launches : LaunchOK(k), NEW l \in Launches, NEW place,
         pc[l] # "idle" \/ Quiet, Go(l, place),
         \A k \in Launches \ {l} : begun'[k] = begun[k] /\ meets'[k] = meets[k],
         LaunchOK(l)'
  PROVE  OneLaunch' /\ \A k \in Launches : LaunchOK(k)'
<1>1. \A k \in Launches \ {l} : pc[k] = "idle" /\ pc'[k] = "idle"
  BY DEF OneLaunch, Quiet, Go, TypeOK
<1>2. OneLaunch'
  BY <1>1 DEF OneLaunch
<1>3. ASSUME NEW k \in Launches \ {l} PROVE LaunchOK(k)'
  <2>1. begun[k] = NotBegun /\ meets[k] = NoFile
    BY <1>1 DEF LaunchOK, IdleOK
  <2>2. QED
    BY <1>1, <2>1, IdleLaunch
<1>4. QED
  BY <1>2, <1>3

LEMMA LaunchEnds ==
  ASSUME TypeOK, OneLaunch, \A k \in Launches : LaunchOK(k), NEW l \in Launches,
         pc[l] # "idle", End(l)
  PROVE  OneLaunch' /\ \A k \in Launches : LaunchOK(k)'
<1>1. pc'[l] = "idle" /\ begun'[l] = NotBegun /\ meets'[l] = NoFile /\ Go(l, "idle")
  BY DEF End, Go, TypeOK
<1>2. \A k \in Launches \ {l} : begun'[k] = begun[k] /\ meets'[k] = meets[k]
  BY DEF End, TypeOK
<1>3. LaunchOK(l)'
  BY <1>1, IdleLaunch
<1>4. QED
  BY <1>1, <1>2, <1>3, LaunchMoves

\* Each step of a launch that leaves the servers as they are.
LEMMA QuietMove ==
  ASSUME TypeOK, OneLaunch, OneServer, PidFileTells, \A k \in Launches : LaunchOK(k),
         NEW l \in Launches, NEW place, pc[l] # "idle" \/ Quiet, Go(l, place),
         \A k \in Launches \ {l} : begun'[k] = begun[k] /\ meets'[k] = meets[k],
         UNCHANGED server, socket' \in {socket, NoFile}, pidfile' \in {pidfile, NoFile},
         LaunchOK(l)'
  PROVE  OneLaunch' /\ OneServer' /\ PidFileTells' /\ \A k \in Launches : LaunchOK(k)'
<1>1. Fewer /\ ServersGoOn
  BY DEF Fewer, ServersGoOn
<1>2. QED
  BY <1>1, FilesTell, LaunchMoves

\* One launch at a time, and one server at most that has a model or the socket.
LEMMA StepAlone == TypeOK /\ AloneInv /\ [Next]_vars => AloneInv'
<1> SUFFICES ASSUME TypeOK, AloneInv, [Next]_vars, Alone'
             PROVE  OneLaunch' /\ OneServer' /\ PidFileTells' /\ \A k \in Launches : LaunchOK(k)'
  BY DEF AloneInv
<1> USE DEF files
<1> DEFINE Goal == OneLaunch' /\ OneServer' /\ PidFileTells' /\ \A k \in Launches : LaunchOK(k)'
<1>0. UNCHANGED cfg
  BY DEF Next, vars, Begin, LaunchStep, CtrlC, NodeEnds, StartByScript, ServerStep, Signal,
         TestPidFile, ReadPidFile, Kill, ReloadSweep, Clean, Judge, StopStale, Sweep, Start,
         WritePidFile, Ready, GiveUp, RemoveStaleSocket, Bind, Exit
<1>a. Alone /\ OneLaunch /\ OneServer /\ PidFileTells /\ \A k \in Launches : LaunchOK(k)
  BY <1>0 DEF AloneInv, Alone
<1>b. ServersGoOn
  BY ServersOnly
<1>c. /\ NoFile \notin Servers
      /\ \A k \in Launches : begun[k].gone \subseteq Servers /\ found[k] \subseteq Servers
                             /\ begun[k].socket \in Servers \cup {NoFile}
  BY LauncherAssumption DEF TypeOK, Files
<1>1. ASSUME NEW l \in Launches, Begin(l)
      PROVE  Goal
  <2>1. PICK m \in cfg.modes : mode' = [mode EXCEPT ![l] = m] /\ Go(l, FirstPlace(m))
    BY <1>1 DEF Begin
  <2>2. m \in Modes
    BY <2>1, LauncherAssumption DEF TypeOK, Modes
  <2>3. /\ pc[l] = "idle" /\ Quiet /\ UNCHANGED <<found, socket, pidfile, server, meets>>
        /\ begun' = [begun EXCEPT ![l] =
                       [alive |-> Alive, gone |-> { p \in Servers : server[p] = "gone" },
                        socket |-> socket, pidfile |-> pidfile]]
    BY <1>1, <1>a DEF Begin, Alone
  <2>4. /\ mode'[l] = m /\ pc'[l] = FirstPlace(m) /\ meets'[l] = NoFile
        /\ begun'[l].gone = { p \in Servers : server[p] = "gone" }
        /\ begun'[l].socket = socket /\ begun'[l].pidfile = pidfile
        /\ \A k \in Launches \ {l} : begun'[k] = begun[k]
    BY <2>1, <2>3, <1>a DEF Go, TypeOK, LaunchOK, IdleOK
  <2>5. \/ pc'[l] = "test" /\ mode'[l] \in {"auto", "reuse"}
        \/ pc'[l] = "reload_test" /\ mode'[l] = "reload"
        \/ pc'[l] = "wait" /\ mode'[l] = "node"
    BY <2>2, <2>4 DEF FirstPlace, Modes
  <2>6. IdleOK(l)' /\ PlaceOK(l)'
    BY <2>5 DEF IdleOK, PlaceOK, Reloading
  <2>7. MeetOK(l)' /\ ReuseOK(l)'
    BY <2>3, <2>4, <2>5, <1>c DEF MeetOK, ReuseOK
  <2>8. QED
    BY <1>a, <2>1, <2>3, <2>4, <2>6, <2>7, QuietMove DEF LaunchOK
<1>2. ASSUME NEW l \in Launches, TestPidFile(l)
      PROVE  Goal
  <2>1. PICK place : Go(l, place) /\ place = pc'[l]
    BY <1>2 DEF TestPidFile, Go, TypeOK
  <2>2. /\ UNCHANGED <<mode, found, socket, pidfile, server, begun, meets>>
        /\ \/ pc[l] = "reload_test" /\ pc'[l] \in {"reload_sweep", "reload_read"}
           \/ pc[l] = "test" /\ pc'[l] = "read" /\ pidfile # NoFile
           \/ pc[l] = "test" /\ pc'[l] = "sweep" /\ pidfile = NoFile
    BY <1>2 DEF TestPidFile, Go, TypeOK
  <2>3. LaunchOK(l)
    BY <1>a
  <2>4. IdleOK(l)' /\ PlaceOK(l)'
    BY <2>2, <2>3 DEF LaunchOK, IdleOK, PlaceOK, Reloading
  <2>5. MeetOK(l)' /\ ReuseOK(l)'
    BY <2>2, <2>3 DEF LaunchOK, MeetOK, ReuseOK, PlaceOK, Reloading
  <2>6. QED
    BY <1>a, <2>1, <2>2, <2>4, <2>5, QuietMove DEF LaunchOK
<1>3. ASSUME NEW l \in Launches, ReadPidFile(l)
      PROVE  Goal
  <2>1. CASE pidfile = NoFile
    BY <1>3, <2>1, <1>a, <1>b, LaunchEnds, FilesTell DEF ReadPidFile, Fewer
  <2>2. CASE pidfile # NoFile
    <3>1. PICK place : Go(l, place) /\ place = pc'[l]
      BY <1>3, <2>2 DEF ReadPidFile, Go, TypeOK
    <3>2. /\ UNCHANGED <<mode, socket, pidfile, server, begun, meets>>
          /\ found'[l] = {pidfile}
          /\ \/ pc[l] = "reload_read" /\ pc'[l] = "reload_stop"
             \/ pc[l] = "read" /\ pc'[l] = "judge"
      BY <1>3, <2>2 DEF ReadPidFile, Go, TypeOK
    <3>3. LaunchOK(l)
      BY <1>a
    <3>4. IdleOK(l)' /\ PlaceOK(l)'
      BY <2>2, <3>2, <3>3 DEF LaunchOK, IdleOK, PlaceOK, Reloading
    <3>5. MeetOK(l)' /\ ReuseOK(l)'
      BY <3>2, <3>3 DEF LaunchOK, MeetOK, ReuseOK
    <3>6. QED
      BY <1>a, <3>1, <3>2, <3>4, <3>5, QuietMove DEF LaunchOK
  <2>3. QED
    BY <2>1, <2>2
<1>4. ASSUME NEW l \in Launches, Kill(l)
      PROVE  Goal
  <2>1. PICK place : Go(l, place) /\ place = pc'[l]
    BY <1>4 DEF Kill, Go, TypeOK
  <2>2. /\ UNCHANGED <<mode, found, socket, pidfile, begun, meets>>
        /\ Terminate(found[l])
        /\ \/ pc[l] \in {"reload_stop", "reload_kill"} /\ pc'[l] \in {"reload_sweep", "reload_clean"}
           \/ pc[l] = "kill" /\ pc'[l] = "start"
    BY <1>4 DEF Kill, Go, TypeOK
  <2>3. Fewer /\ \A p \in found[l] : ~Active(p)'
    BY <2>2, <1>c, TerminateFewer
  <2>4. LaunchOK(l)
    BY <1>a
  <2>5. IdleOK(l)' /\ PlaceOK(l)'
    <3>1. \A p \in Servers : Active(p)' => Active(p)
      BY <2>3 DEF Fewer, Active
    <3>2. QED
      BY <2>2, <2>3, <2>4, <3>1 DEF LaunchOK, IdleOK, PlaceOK, Reloading
  <2>6. MeetOK(l)' /\ ReuseOK(l)'
    BY <2>2, <2>4, <1>b, <1>c DEF LaunchOK, PlaceOK, Reloading, MeetOK, ReuseOK, ServersGoOn
  <2>7. QED
    BY <1>a, <1>b, <2>1, <2>2, <2>3, <2>5, <2>6, FilesTell, LaunchMoves DEF LaunchOK, Reloading
<1>5. ASSUME NEW l \in Launches, ReloadSweep(l)
      PROVE  Goal
  <2>1. /\ Go(l, "reload_kill") /\ pc[l] = "reload_sweep" /\ pc'[l] = "reload_kill"
        /\ UNCHANGED <<mode, socket, pidfile, server, begun, meets>>
    BY <1>5 DEF ReloadSweep, Go, TypeOK
  <2>2. LaunchOK(l)
    BY <1>a
  <2>3. LaunchOK(l)'
    BY <2>1, <2>2 DEF LaunchOK, IdleOK, PlaceOK, Reloading, MeetOK, ReuseOK
  <2>4. QED
    BY <1>a, <2>1, <2>3, QuietMove
<1>6. ASSUME NEW l \in Launches, Clean(l)
      PROVE  Goal
  <2>1. PICK place : Go(l, place) /\ place = pc'[l]
    BY <1>6 DEF Clean, Go, TypeOK
  <2>2. /\ UNCHANGED <<mode, found, server, begun, meets>>
        /\ socket' = NoFile /\ pidfile' = NoFile
        /\ \/ pc[l] = "reload_clean" /\ pc'[l] = "test"
           \/ pc[l] = "clean" /\ pc'[l] = "sweep"
    BY <1>6 DEF Clean, Go, TypeOK
  <2>3. LaunchOK(l)
    BY <1>a
  <2>4. IdleOK(l)' /\ PlaceOK(l)'
    BY <2>2, <2>3 DEF LaunchOK, IdleOK, PlaceOK, Reloading
  <2>5. MeetOK(l)' /\ ReuseOK(l)'
    BY <2>2, <2>3, <1>c DEF LaunchOK, PlaceOK, Reloading, MeetOK, ReuseOK
  <2>6. QED
    BY <1>a, <2>1, <2>2, <2>4, <2>5, QuietMove DEF LaunchOK
<1>7. ASSUME NEW l \in Launches, Judge(l)
      PROVE  Goal
  <2>1. LaunchOK(l) /\ pc[l] = "judge" /\ pidfile # NoFile /\ found[l] = {pidfile}
        /\ pidfile \in Servers
    BY <1>7, <1>a DEF Judge, LaunchOK, PlaceOK, TypeOK, Files
  <2>2. PICK place : Go(l, place) /\ place = pc'[l]
    BY <1>7, <2>1 DEF Judge, Go, TypeOK
  <2>3. /\ UNCHANGED <<mode, found, socket, pidfile, server, begun, meets>>
        /\ \/ pc'[l] = "clean" /\ ~Exists(pidfile)
           \/ pc'[l] = "stop" /\ socket = NoFile
           \/ pc'[l] = "sweep" /\ Exists(pidfile) /\ socket # NoFile
    BY <1>7, <2>1 DEF Judge, Go, TypeOK
  <2>4. ~Exists(pidfile) => server[pidfile] = "gone"
    BY <1>a, <2>1 DEF Exists, Alive, PidFileTells
  <2>5. Exists(pidfile) => server[pidfile] # "gone"
    BY <1>a, <2>1 DEF Exists, Alive, OneLaunch
  <2>6. IdleOK(l)' /\ PlaceOK(l)'
    BY <2>1, <2>3 DEF IdleOK, PlaceOK, Reloading
  <2>7. MeetOK(l)' /\ ReuseOK(l)'
    <3>1. socket \in {NoFile, pidfile}
      BY <1>a, <2>1 DEF PidFileTells
    <3>2. QED
      BY <2>1, <2>3, <2>4, <2>5, <3>1, <1>c DEF LaunchOK, MeetOK, ReuseOK
  <2>8. QED
    BY <1>a, <2>1, <2>2, <2>3, <2>6, <2>7, QuietMove DEF LaunchOK
<1>8. ASSUME NEW l \in Launches, StopStale(l)
      PROVE  Goal
  <2>1. /\ Go(l, "sweep") /\ pc[l] = "stop" /\ pc'[l] = "sweep" /\ Terminate(found[l])
        /\ UNCHANGED <<mode, found, socket, begun, meets>> /\ pidfile' = NoFile
    BY <1>8 DEF StopStale, Go, TypeOK
  <2>2. Fewer
    BY <2>1, TerminateFewer
  <2>3. LaunchOK(l)
    BY <1>a
  <2>4. IdleOK(l)' /\ PlaceOK(l)'
    BY <2>1 DEF IdleOK, PlaceOK, Reloading
  <2>5. MeetOK(l)' /\ ReuseOK(l)'
    BY <2>1, <2>3, <1>b, <1>c DEF LaunchOK, MeetOK, ReuseOK, ServersGoOn
  <2>6. QED
    BY <1>a, <1>b, <2>1, <2>2, <2>4, <2>5, FilesTell, LaunchMoves DEF LaunchOK
<1>9. ASSUME NEW l \in Launches, Sweep(l)
      PROVE  Goal
  <2>1. LaunchOK(l) /\ pc[l] = "sweep" /\ UNCHANGED <<socket, pidfile, server>>
    BY <1>9, <1>a DEF Sweep
  <2>2. CASE End(l)
    BY <2>1, <2>2, <1>a, <1>b, LaunchEnds, FilesTell DEF Fewer
  <2>3. CASE socket # NoFile /\ Go(l, "start") /\ UNCHANGED <<mode, found, begun, meets>>
    <3>1. pc'[l] = "start"
      BY <2>3 DEF Go, TypeOK
    <3>2. LaunchOK(l)'
      BY <2>1, <2>3, <3>1 DEF LaunchOK, IdleOK, PlaceOK, Reloading, MeetOK, ReuseOK
    <3>3. QED
      BY <1>a, <2>1, <2>3, <3>2, QuietMove
  <2>4. CASE socket = NoFile /\ Go(l, "kill") /\ found' = [found EXCEPT ![l] = Alive]
             /\ UNCHANGED <<mode, begun, meets>>
    <3>1. pc'[l] = "kill" /\ found'[l] = Alive /\ pidfile = NoFile
      BY <2>1, <2>4 DEF Go, TypeOK, LaunchOK, PlaceOK
    <3>2. \A p \in Servers : Active(p)' => p \in found'[l]
      BY <2>1, <3>1 DEF Active, Alive
    <3>3. IdleOK(l)' /\ PlaceOK(l)'
      BY <2>1, <3>1, <3>2 DEF IdleOK, PlaceOK, Reloading
    <3>4. MeetOK(l)' /\ ReuseOK(l)'
      BY <2>1, <2>4, <3>1 DEF LaunchOK, MeetOK, ReuseOK
    <3>5. QED
      BY <1>a, <2>1, <2>4, <3>3, <3>4, QuietMove DEF LaunchOK
  <2>5. QED
    BY <1>9, <2>2, <2>3, <2>4 DEF Sweep
<1>10. ASSUME NEW l \in Launches, Start(l)
       PROVE  Goal
  <2>1. LaunchOK(l) /\ pc[l] = "start" /\ UNCHANGED <<mode, socket, pidfile, begun, meets>>
    BY <1>10, <1>a DEF Start
  <2>2. CASE socket # NoFile /\ Go(l, "wait") /\ UNCHANGED <<found, server>>
    <3>1. pc'[l] = "wait"
      BY <2>2 DEF Go, TypeOK
    <3>2. LaunchOK(l)'
      BY <2>1, <2>2, <3>1 DEF LaunchOK, IdleOK, PlaceOK, Reloading, MeetOK, ReuseOK
    <3>3. QED
      BY <1>a, <2>1, <2>2, <3>2, QuietMove
  <2>3. ASSUME socket = NoFile, Go(l, "write"), NEW p \in Unused,
               server' = [server EXCEPT ![p] = "loading"],
               found' = [found EXCEPT ![l] = {p}]
        PROVE  Goal
    <3>1. pc'[l] = "write" /\ found'[l] = {p} /\ p \in Servers
      BY <2>3 DEF Go, TypeOK, Unused
    <3>2. pidfile = NoFile /\ \A q \in Servers : ~Active(q)
      BY <2>1, <2>3 DEF LaunchOK, PlaceOK
    <3>3. server'[p] = "loading" /\ \A q \in Servers : Active(q)' => q = p
      BY <2>3, <3>1, <3>2 DEF Active, TypeOK
    <3>4. OneServer' /\ PidFileTells'
      BY <2>1, <2>3, <3>2, <3>3 DEF OneServer, PidFileTells
    <3>5. IdleOK(l)' /\ PlaceOK(l)'
      BY <2>1, <2>3, <3>1, <3>2, <3>3 DEF IdleOK, PlaceOK, Reloading
    <3>6. MeetOK(l)' /\ ReuseOK(l)'
      BY <2>1, <2>3, <3>1, <1>b, <1>c DEF LaunchOK, MeetOK, ReuseOK, ServersGoOn
    <3>7. QED
      BY <1>a, <2>1, <2>3, <3>4, <3>5, <3>6, LaunchMoves DEF LaunchOK
  <2>4. QED
    BY <1>10, <2>2, <2>3 DEF Start, MayStart
<1>11. ASSUME NEW l \in Launches, WritePidFile(l)
       PROVE  Goal
  <2>1. LaunchOK(l) /\ Go(l, "wait") /\ pc[l] = "write" /\ pc'[l] = "wait"
        /\ UNCHANGED <<mode, found, socket, server, begun, meets>>
    BY <1>11, <1>a DEF WritePidFile, Go, TypeOK
  <2>2. PICK p \in Servers : found[l] = {p} /\ pidfile' = p
    BY <1>11, <2>1 DEF WritePidFile, TypeOK
  <2>3. OneServer' /\ PidFileTells'
    BY <1>a, <2>1, <2>2 DEF LaunchOK, PlaceOK, OneServer, PidFileTells, Active
  <2>4. LaunchOK(l)'
    BY <2>1 DEF LaunchOK, IdleOK, PlaceOK, Reloading, MeetOK, ReuseOK
  <2>5. QED
    BY <1>a, <2>1, <2>3, <2>4, LaunchMoves
<1>12. ASSUME NEW l \in Launches, Ready(l)
       PROVE  Goal
  <2>1. /\ LaunchOK(l) /\ Go(l, "node") /\ pc[l] = "wait" /\ pc'[l] = "node"
        /\ socket # NoFile /\ meets'[l] = socket
        /\ \A k \in Launches \ {l} : meets'[k] = meets[k]
        /\ UNCHANGED <<mode, socket, pidfile, server, begun>>
    BY <1>12, <1>a DEF Ready, Go, TypeOK
  <2>2. LaunchOK(l)'
    BY <2>1 DEF LaunchOK, IdleOK, PlaceOK, Reloading, MeetOK, ReuseOK
  <2>3. QED
    BY <1>a, <2>1, <2>2, QuietMove
<1>13. ASSUME NEW l \in Launches, GiveUp(l) \/ CtrlC(l) \/ NodeEnds(l)
       PROVE  Goal
  <2>1. pc[l] # "idle" /\ End(l) /\ UNCHANGED <<socket, pidfile>>
    BY <1>13 DEF GiveUp, CtrlC, NodeEnds
  <2>2. Fewer
    BY <1>13 DEF GiveUp, CtrlC, NodeEnds, Fewer, Active, TypeOK
  <2>3. QED
    BY <2>1, <2>2, <1>a, <1>b, LaunchEnds, FilesTell
<1>d. ASSUME UNCHANGED <<pc, mode, found, socket, pidfile, begun, meets>>,
             \A q \in Servers : Active(q)' => Active(q)
      PROVE  OneLaunch' /\ \A k \in Launches : LaunchOK(k)'
  BY <1>d, <1>a, <1>b, LaunchStays DEF OneLaunch
<1>14. ASSUME NEW p \in Servers, Exit(p) \/ Signal(p)
       PROVE  Goal
  <2>1. UNCHANGED <<pc, mode, found, socket, pidfile, begun, meets>>
    BY <1>14 DEF Exit, Signal
  <2>2. Fewer
    BY <1>14, TerminateFewer DEF Exit, Signal, Becomes, Fewer, Active, TypeOK
  <2>3. \A q \in Servers : Active(q)' => Active(q)
    BY <2>2 DEF Fewer, Active
  <2>4. QED
    BY <2>1, <2>2, <2>3, <1>a, <1>b, <1>d, FilesTell
<1>15. ASSUME NEW p \in Servers, StartByScript(p)
       PROVE  Goal
  BY <1>15, <1>a DEF StartByScript, Alone
<1>16. ASSUME NEW p \in Servers, RemoveStaleSocket(p)
       PROVE  Goal
  <2>1. server[p] = "loading" /\ server' = [server EXCEPT ![p] = "binding"] /\ socket = NoFile
    BY <1>16, <1>a DEF RemoveStaleSocket, Becomes, OneServer
  <2>2. UNCHANGED <<pc, mode, found, socket, pidfile, begun, meets>>
    BY <1>16, <2>1 DEF RemoveStaleSocket
  <2>3. \A q \in Servers : Active(q)' => Active(q)
    BY <2>1 DEF Active, TypeOK
  <2>4. OneServer' /\ PidFileTells'
    BY <1>a, <1>b, <2>1, <2>2, <2>3 DEF OneServer, PidFileTells, ServersGoOn, TypeOK, Files
  <2>5. QED
    BY <2>2, <2>3, <2>4, <1>d
<1>17. ASSUME NEW p \in Servers, Bind(p)
       PROVE  Goal
  <2>1. server[p] = "binding" /\ socket = NoFile /\ socket' = p
        /\ server' = [server EXCEPT ![p] = "listening"]
        /\ UNCHANGED <<pc, mode, found, pidfile, begun, meets>>
    BY <1>17, <1>a DEF Bind, Becomes, OneServer
  <2>2. \A q \in Servers : Active(q) => q = p
    BY <1>a, <2>1 DEF OneServer, Active
  <2>3. Active(p) /\ \A q \in Servers : (Active(q)' => q = p) /\ server'[q] \notin {"loading", "binding"}
    BY <2>1, <2>2 DEF Active, TypeOK
  <2>4. OneServer' /\ PidFileTells'
    BY <1>a, <1>b, <2>1, <2>3 DEF OneServer, PidFileTells, ServersGoOn, TypeOK, Files
  <2>5. ASSUME NEW k \in Launches PROVE LaunchOK(k)'
    <3>1. LaunchOK(k)
      BY <1>a
    <3>2. IdleOK(k)' /\ PlaceOK(k)'
      BY <1>b, <1>c, <2>1, <2>3, <3>1 DEF LaunchOK, IdleOK, PlaceOK, ServersGoOn
    <3>3. MeetOK(k)' /\ ReuseOK(k)'
      BY <1>b, <1>c, <2>1, <3>1 DEF LaunchOK, MeetOK, ReuseOK, ServersGoOn
    <3>4. QED
      BY <3>2, <3>3 DEF LaunchOK
  <2>6. OneLaunch'
    BY <1>a, <2>1 DEF OneLaunch
  <2>7. QED
    BY <2>4, <2>5, <2>6
<1>18. CASE UNCHANGED vars
  <2>1. UNCHANGED <<pc, mode, found, socket, pidfile, server, begun, meets>>
    BY <1>18 DEF vars
  <2>2. Fewer /\ \A q \in Servers : Active(q)' => Active(q)
    BY <2>1 DEF Fewer, Active
  <2>3. QED
    BY <2>1, <2>2, <1>a, <1>b, <1>d, FilesTell
<1>19. QED
  BY <1>1, <1>2, <1>3, <1>4, <1>5, <1>6, <1>7, <1>8, <1>9, <1>10, <1>11, <1>12, <1>13,
     <1>14, <1>15, <1>16, <1>17, <1>18
  DEF Next, LaunchStep, ServerStep

LEMMA AloneAlways == Spec => []AloneInv
<1>1. Init => AloneInv
  <2> SUFFICES ASSUME Init
               PROVE  OneLaunch /\ OneServer /\ PidFileTells /\ \A l \in Launches : LaunchOK(l)
    BY DEF AloneInv
  <2>1. OneLaunch /\ OneServer /\ PidFileTells
    BY DEF Init, OneLaunch, OneServer, PidFileTells, Active
  <2>2. \A l \in Launches : LaunchOK(l)
    BY DEF Init, LaunchOK, IdleOK, PlaceOK, Reloading, MeetOK, ReuseOK, NotBegun
  <2>3. QED
    BY <2>1, <2>2
<1>2. QED
  BY <1>1, InitType, StepType, StepAlone, PTL DEF Spec

\* Only Start takes a launch from its place to the writing of the pid file.
LEMMA OnlyStartWrites ==
  ASSUME TypeOK, [Next]_vars, NEW l \in Launches, pc[l] = "start", pc'[l] = "write"
  PROVE  Start(l)
<1> USE DEF Go, TypeOK
<1>1. ASSUME NEW k \in Launches, Begin(k)
      PROVE  Start(l)
  <2>1. k # l /\ pc'[l] = pc[l]
    BY <1>1 DEF Begin
  <2>2. QED
    BY <2>1
<1>2. ASSUME NEW k \in Launches, LaunchStep(k) \/ CtrlC(k) \/ NodeEnds(k)
      PROVE  Start(l)
  <2>1. CASE k = l
    <3>1. ~CtrlC(l) /\ ~NodeEnds(l) /\ ~ReadPidFile(l) /\ ~Sweep(l) /\ ~GiveUp(l)
      BY <1>2 DEF CtrlC, NodeEnds, End, ReadPidFile, Sweep, GiveUp
    <3>2. QED
      BY <1>2, <2>1, <3>1 DEF LaunchStep, TestPidFile, Kill, ReloadSweep, Clean, Judge,
                              StopStale, WritePidFile, Ready
  <2>2. CASE k # l
    <3>1. \E place : Go(k, place)
      <4>1. ASSUME Judge(k) PROVE \E place : Go(k, place)
        <5>1. PICK p \in Servers : found[k] = {p}
          BY <4>1 DEF Judge
        <5>2. QED
          BY <4>1, <5>1 DEF Judge
      <4>2. QED
        BY <1>2, <4>1 DEF LaunchStep, CtrlC, NodeEnds, End, TestPidFile, ReadPidFile, Kill,
                  ReloadSweep, Clean, StopStale, Sweep, Start, WritePidFile, Ready, GiveUp
    <3>2. pc'[l] = pc[l]
      BY <2>2, <3>1
    <3>3. QED
      BY <3>2
  <2>3. QED
    BY <2>1, <2>2
<1>3. ASSUME UNCHANGED pc
      PROVE  Start(l)
  BY <1>3
<1>4. QED
  BY <1>1, <1>2, <1>3
  DEF Next, vars, StartByScript, ServerStep, RemoveStaleSocket, Bind, Exit, Signal

\* Launches of run.sh one after another load the model only when no server has
\* it, however they were interrupted (run.sh:190-230).
THEOREM StartsAloneHolds == Spec => StartsAlone
<1>1. ASSUME TypeOK, AloneInv, [Next]_vars, Alone, NEW l \in Launches,
             pc[l] = "start", pc'[l] = "write"
      PROVE  \A p \in Servers : ~Active(p)
  <2>1. PlaceOK(l)
    BY <1>1 DEF AloneInv, LaunchOK
  <2>2. Start(l)
    BY <1>1, OnlyStartWrites
  <2>3. socket = NoFile
    BY <1>1, <2>2 DEF Start, Go, TypeOK
  <2>4. QED
    BY <1>1, <2>1, <2>3 DEF PlaceOK
<1>2. TypeOK /\ AloneInv /\ [Next]_vars =>
        (Alone => \A l \in Launches : pc[l] = "start" /\ pc'[l] = "write" =>
           \A p \in Servers : server[p] \notin {"loading", "binding", "listening"})
  BY <1>1 DEF Active
<1>3. QED
  BY <1>2, AloneAlways, TypeCorrect, PTL DEF Spec, StartsAlone, Alone

\* The socket that a launch of run.sh meets is of no server that was dead when
\* the launch found a pid file: it has judged the pid file's server, or a reload
\* has cleaned up (run.sh:170-204).
THEOREM NodeMeetsLiveServerHolds == Spec => []NodeMeetsLiveServer
<1>1. ASSUME TypeOK, AloneInv, ReloadInv, Alone, NEW l \in Launches, mode[l] # "node",
             begun[l].pidfile # NoFile
      PROVE  meets[l] \notin begun[l].gone
  <2>1. CASE mode[l] = "reload"
    BY <1>1, <2>1 DEF ReloadInv, ReloadOK, Old
  <2>2. CASE mode[l] \in {"auto", "reuse"}
    BY <1>1, <2>2 DEF AloneInv, LaunchOK, MeetOK
  <2>3. QED
    BY <1>1, <2>1, <2>2 DEF TypeOK
<1>2. TypeOK /\ AloneInv /\ ReloadInv => NodeMeetsLiveServer
  BY <1>1 DEF NodeMeetsLiveServer, Alone
<1>3. QED
  BY <1>2, ReloadAlways, AloneAlways, TypeCorrect, PTL

\* A launch that finds a server's socket keeps that server for its node, or the
\* server has ended (README.md:47-48; run.sh:190-261).
THEOREM LiveServerIsReusedHolds == Spec => []LiveServerIsReused
<1>1. AloneInv => LiveServerIsReused
  BY DEF AloneInv, Alone, LaunchOK, ReuseOK, LiveServerIsReused
<1>2. QED
  BY <1>1, AloneAlways, PTL

-----------------------------------------------------------------------------
(* Ctrl+C.  A launch's process group holds only servers that were new when *)
(* it began, and none when it is idle.                                     *)

GroupOK(l) ==
  /\ \A p \in Servers : group[p] = l => pc[l] # "idle" /\ p \notin begun[l].alive
  /\ \A p \in begun[l].alive : server[p] # "unused"

GroupInv == \A l \in Launches : GroupOK(l)

LEMMA StepGroup == TypeOK /\ GroupInv /\ [Next]_vars => GroupInv'
<1> SUFFICES ASSUME TypeOK, GroupInv, [Next]_vars, NEW l \in Launches
             PROVE  GroupOK(l)'
  BY DEF GroupInv
<1> USE DEF files
<1>g. GroupOK(l) /\ ServersGoOn /\ begun[l].alive \subseteq Servers
  BY ServersOnly DEF GroupInv, TypeOK
<1>a. ASSUME UNCHANGED <<group, begun>>, pc[l] # "idle" => pc'[l] # "idle"
      PROVE  GroupOK(l)'
  BY <1>a, <1>g DEF GroupOK, ServersGoOn
<1>b. ASSUME NEW k \in Launches, End(k)
      PROVE  GroupOK(l)'
  <2>1. CASE k = l
    <3>1. \A p \in Servers : group'[p] # l
      BY <1>b, <2>1, LauncherAssumption DEF End, TypeOK
    <3>2. begun'[l].alive = {}
      BY <1>b, <2>1 DEF End, TypeOK, NotBegun
    <3>3. QED
      BY <3>1, <3>2 DEF GroupOK
  <2>2. CASE k # l
    <3>1. \A p \in Servers : group'[p] = l => group[p] = l
      BY <1>b, <2>2, LauncherAssumption DEF End, TypeOK
    <3>2. begun'[l] = begun[l] /\ pc'[l] = pc[l]
      BY <1>b, <2>2 DEF End, Go, TypeOK
    <3>3. QED
      BY <1>g, <3>1, <3>2 DEF GroupOK, ServersGoOn
  <2>3. QED
    BY <2>1, <2>2
<1>c. ASSUME NEW k \in Launches, NEW place \in Places \ {"idle"}, Go(k, place),
             UNCHANGED <<group, begun>>
      PROVE  GroupOK(l)'
  BY <1>c, <1>a DEF Go, TypeOK
<1>1. ASSUME NEW k \in Launches, Begin(k)
      PROVE  GroupOK(l)'
  <2>1. pc[k] = "idle" /\ UNCHANGED <<group, server>>
        /\ begun' = [begun EXCEPT ![k] =
             [alive |-> Alive, gone |-> {p \in Servers : server[p] = "gone"},
              socket |-> socket, pidfile |-> pidfile]]
        /\ \A j \in Launches \ {k} : pc'[j] = pc[j]
    BY <1>1 DEF Begin, Go, TypeOK
  <2>2. CASE k = l
    <3>1. \A p \in Servers : group'[p] # l
      BY <1>g, <2>1, <2>2 DEF GroupOK
    <3>2. begun'[l].alive = Alive
      BY <2>1, <2>2 DEF TypeOK
    <3>3. QED
      BY <2>1, <3>1, <3>2 DEF GroupOK, Alive
  <2>3. CASE k # l
    <3>1. begun'[l] = begun[l] /\ pc'[l] = pc[l]
      BY <2>1, <2>3 DEF TypeOK
    <3>2. QED
      BY <1>g, <2>1, <3>1 DEF GroupOK
  <2>4. QED
    BY <2>2, <2>3
<1>2. ASSUME NEW k \in Launches,
             \/ TestPidFile(k) \/ Kill(k) \/ ReloadSweep(k) \/ Clean(k) \/ StopStale(k)
             \/ WritePidFile(k) \/ Ready(k)
      PROVE  GroupOK(l)'
  <2>1. UNCHANGED <<group, begun>> /\ \E place \in Places \ {"idle"} : Go(k, place)
    BY <1>2 DEF TestPidFile, Kill, ReloadSweep, Clean, StopStale, WritePidFile, Ready, Places
  <2>2. QED
    BY <2>1, <1>c
<1>3. ASSUME NEW k \in Launches, ReadPidFile(k)
      PROVE  GroupOK(l)'
  BY <1>3, <1>b, <1>c DEF ReadPidFile, Places
<1>4. ASSUME NEW k \in Launches, Judge(k)
      PROVE  GroupOK(l)'
  <2>1. PICK p \in Servers : found[k] = {p}
    BY <1>4 DEF Judge, TypeOK
  <2>2. UNCHANGED <<group, begun>> /\ \E place \in {"clean", "stop", "sweep"} : Go(k, place)
    BY <1>4, <2>1 DEF Judge
  <2>3. QED
    BY <2>2, <1>c DEF Places
<1>5. ASSUME NEW k \in Launches, Sweep(k)
      PROVE  GroupOK(l)'
  BY <1>5, <1>b, <1>c DEF Sweep, Places
<1>6. ASSUME NEW k \in Launches, Start(k)
      PROVE  GroupOK(l)'
  <2>1. CASE Go(k, "wait") /\ UNCHANGED group
    BY <1>6, <2>1, <1>c DEF Start, Places
  <2>2. ASSUME Go(k, "write"), NEW p \in Unused, group' = [group EXCEPT ![p] = k]
        PROVE  GroupOK(l)'
    <3>1. begun' = begun /\ pc'[l] \in {pc[l], "write"} /\ p \notin begun[l].alive
      BY <1>6, <1>g, <2>2 DEF Start, Go, TypeOK, GroupOK, Unused
    <3>2. \A q \in Servers : group'[q] = l => group[q] = l \/ (q = p /\ pc'[l] = "write")
      BY <2>2 DEF Go, TypeOK
    <3>3. QED
      BY <1>g, <3>1, <3>2 DEF GroupOK, ServersGoOn
  <2>3. QED
    BY <1>6, <2>1, <2>2 DEF Start, MayStart
<1>7. ASSUME NEW k \in Launches, GiveUp(k) \/ CtrlC(k) \/ NodeEnds(k)
      PROVE  GroupOK(l)'
  BY <1>7, <1>b DEF GiveUp, CtrlC, NodeEnds
<1>8. ASSUME NEW p \in Servers, StartByScript(p) \/ ServerStep(p) \/ Signal(p)
      PROVE  GroupOK(l)'
  <2>1. UNCHANGED <<group, begun, pc>>
    BY <1>8 DEF StartByScript, ServerStep, RemoveStaleSocket, Bind, Exit, Signal
  <2>2. QED
    BY <2>1, <1>a
<1>9. CASE UNCHANGED vars
  BY <1>9, <1>a DEF vars
<1>10. QED
  BY <1>1, <1>2, <1>3, <1>4, <1>5, <1>6, <1>7, <1>8, <1>9 DEF Next, LaunchStep

\* Ctrl+C on a launch leaves every server alone that was there when the launch
\* began (README.md:43; run.sh:214-224).
THEOREM ReusedServerIsSparedHolds == Spec => ReusedServerIsSpared
<1>1. Init => GroupInv
  BY LauncherAssumption DEF Init, GroupInv, GroupOK, NotBegun
<1>2. ASSUME TypeOK, GroupInv, NEW l \in Launches, CtrlC(l), NEW p \in begun[l].alive
      PROVE  server'[p] = server[p]
  <2>1. p \in Servers /\ group[p] # l
    BY <1>2 DEF TypeOK, GroupInv, GroupOK
  <2>2. QED
    BY <1>2, <2>1 DEF CtrlC
<1>3. TypeOK /\ GroupInv =>
        \A l \in Launches : CtrlC(l) => \A p \in begun[l].alive : server'[p] = server[p]
  BY <1>2
<1>4. QED
  BY <1>1, <1>3, StepGroup, TypeCorrect, PTL DEF Spec, ReusedServerIsSpared

=============================================================================
