----------------------------- MODULE DaemonLife -----------------------------
(***************************************************************************)
(* Daemon processes of one user: how they start, serve, stop and die       *)
(* (internal/session/daemon.go, daemon_startlock.go, daemon_diagnose.go),  *)
(* the clients that start them (cmd/tuios/daemon_start.go) and the         *)
(* kill-server commands that stop them (cmd/tuios/session_commands.go).    *)
(*                                                                         *)
(* They meet only in the file system: the start lock, which the kernel     *)
(* drops when its holder dies, the socket path, the pid file and the saved *)
(* states.  Every system call is a step of its own.  What sessions hold is *)
(* a set of edits: an edit is a thing done to a session, which its daemon  *)
(* has or has not, and which the session's file has or has not.            *)
(***************************************************************************)
EXTENDS Integers, FiniteSets

CONSTANTS
  Daemons,     \* daemon processes; each is started at most once
  Killers,     \* runs of 'tuios kill-server'; each runs once
  Sessions,    \* the sessions a user has, whichever daemon serves them
  None,        \* no daemon
  MaxEdits,    \* bound: edits made to each session
  MaxDeaths    \* bound: daemons that die by SIGKILL or the like

ASSUME DaemonLifeAssumption ==
  /\ {MaxEdits, MaxDeaths} \subseteq Nat
  /\ None \notin Daemons

VARIABLES
  stage,     \* daemon -> how far it is between its start and its end
  state,     \* daemon -> the edits its sessions have
  startLock, \* holder of the flock on <socket>.lock
  socket,    \* the daemon that bound what is at the socket path
  pidFile,   \* the daemon named by the pid file
  disk,      \* the edits in the sessions' files
  killer,    \* kill-server -> how far it is
  target,    \* kill-server -> the daemon it signalled
  client,    \* daemon -> what the client that spawned it made of it
  edits,     \* the edits made so far
  lost,      \* history: edits that died unsaved with their daemon
  deaths     \* daemons that died

vars == <<stage, state, startLock, socket, pidFile, disk, killer, target,
          client, edits, lost, deaths>>

(* Stages, in the order a daemon goes through them.                        *)
Binding   == {"locked", "stale", "binding", "bound"}
Accepting == {"listening", "restoring", "serving", "stopping"}
Up        == {"serving", "stopping", "draining", "saving"}
Ending    == {"saved", "pidless", "unlinked"}
Gone      == {"refused", "dead", "exited"}
Alive(d)  == stage[d] \notin Gone \cup {"none"}
Holding   == Binding \cup Accepting \cup Up \cup Ending

Stages == {"none", "starting"} \cup Holding \cup Gone

(* isDaemonRunningAt: a dial is answered by whoever listens on the inode   *)
(* the path names.                                                         *)
Reachable == socket # None /\ stage[socket] \in Accepting

To(d, s) == stage' = [stage EXCEPT ![d] = s]

Edits     == [session : Sessions, nr : 1..MaxEdits]
Files     == <<socket, pidFile, disk>>
Clients   == <<killer, target, client>>
Histories == <<edits, lost, deaths>>

-----------------------------------------------------------------------------
(* A daemon starts.                                                        *)

(* A client that found nothing listening spawns 'tuios daemon'.            *)
Spawn(d) ==
  /\ stage[d] = "none" /\ ~Reachable
  /\ To(d, "starting")
  /\ client' = [client EXCEPT ![d] = "waiting"]
  /\ UNCHANGED <<state, startLock, Files, killer, target, Histories>>

\* Mutant: the start lock shared instead of exclusive.
AcquireStartLockShared(d) ==
  /\ stage[d] = "starting"
  /\ startLock' = d /\ To(d, "locked")
  /\ UNCHANGED <<state, Files, Clients, Histories>>

AcquireStartLock(d) ==
  /\ stage[d] = "starting"
  /\ IF startLock = None
     THEN startLock' = d /\ To(d, "locked")
     ELSE startLock' = startLock /\ To(d, "refused")
  /\ UNCHANGED <<state, Files, Clients, Histories>>

(* Start gave up before it had a listener: the lock goes back.             *)
Refuse(d) == To(d, "refused") /\ startLock' = None

(* Stat, then dial: nothing there, a daemon that answers, or a leftover.   *)
ProbeSocket(d) ==
  /\ stage[d] = "locked"
  /\ \/ socket = None /\ To(d, "binding") /\ UNCHANGED startLock
     \/ Reachable /\ Refuse(d)
     \/ socket # None /\ ~Reachable /\ To(d, "stale") /\ UNCHANGED startLock
  /\ UNCHANGED <<state, Files, Clients, Histories>>

(* Removing what somebody else removed since is an error.                  *)
RemoveStale(d) ==
  /\ stage[d] = "stale"
  /\ IF socket = None
     THEN Refuse(d) /\ UNCHANGED socket
     ELSE To(d, "binding") /\ socket' = None /\ UNCHANGED startLock
  /\ UNCHANGED <<state, pidFile, disk, Clients, Histories>>

(* net.Listen is a bind, which fails on a path that exists, and a listen.  *)
Bind(d) ==
  /\ stage[d] = "binding"
  /\ IF socket = None
     THEN To(d, "bound") /\ socket' = d /\ UNCHANGED startLock
     ELSE Refuse(d) /\ UNCHANGED socket
  /\ UNCHANGED <<state, pidFile, disk, Clients, Histories>>

Listen(d) ==
  /\ stage[d] = "bound"
  /\ To(d, "listening")
  /\ UNCHANGED <<state, startLock, Files, Clients, Histories>>

(* chmod of the path fails if it is gone: the process returns, and with it *)
(* goes the lock.                                                          *)
WritePidFile(d) ==
  /\ stage[d] = "listening"
  /\ IF socket = None
     THEN Refuse(d) /\ UNCHANGED pidFile
     ELSE To(d, "restoring") /\ pidFile' = d /\ UNCHANGED startLock
  /\ UNCHANGED <<state, socket, disk, Clients, Histories>>

(* Signals are handled and clients accepted once the saved sessions live.  *)
RestoreAllSessions(d) ==
  /\ stage[d] = "restoring"
  /\ To(d, "serving")
  /\ state' = [state EXCEPT ![d] = disk]
  /\ UNCHANGED <<startLock, Files, Clients, Histories>>

-----------------------------------------------------------------------------
(* It serves, and is stopped.                                              *)

(* Handlers of connected clients run on until shutdown has waited for them. *)
Edit(d) ==
  /\ stage[d] \in {"serving", "stopping", "draining"}
  /\ \E e \in Edits \ edits :
       /\ \A n \in 1..(e.nr - 1) : [session |-> e.session, nr |-> n] \in edits
       /\ edits' = edits \cup {e}
       /\ state' = [state EXCEPT ![d] = @ \cup {e}]
  /\ UNCHANGED <<stage, startLock, Files, Clients, lost, deaths>>

(* A session is saved, by its saver or as it is stopped: what this daemon  *)
(* has of it replaces what its file held, whoever wrote that.  The write   *)
(* of the copy and its renaming are steps of Resurrection.                 *)
SaveSession(d) ==
  /\ stage[d] \in Up
  /\ \E s \in Sessions :
       disk' = {e \in disk : e.session # s} \cup {e \in state[d] : e.session = s}
  /\ UNCHANGED <<stage, state, startLock, socket, pidFile, Clients, Histories>>

(* SIGTERM or SIGINT from anyone, or the last session of an exit-when-empty *)
(* daemon killed: the context is cancelled.                                *)
Cancel(d) ==
  /\ stage[d] = "serving"
  /\ To(d, "stopping")
  /\ UNCHANGED <<state, startLock, Files, Clients, Histories>>

\* Mutant: the listener unlinks its socket as it closes, net.Listen's default.
CloseListenerUnlinking(d) ==
  /\ stage[d] = "stopping"
  /\ To(d, "draining") /\ socket' = None
  /\ UNCHANGED <<state, startLock, pidFile, disk, Clients, Histories>>

\* Mutant: the start lock is given back as the listener is closed, before the saves.
CloseListenerUnlocking(d) ==
  /\ stage[d] = "stopping"
  /\ To(d, "draining") /\ startLock' = None
  /\ UNCHANGED <<state, Files, Clients, Histories>>

CloseListener(d) ==
  /\ stage[d] = "stopping"
  /\ To(d, "draining")
  /\ UNCHANGED <<state, startLock, Files, Clients, Histories>>

(* The wait for handlers; assumed to end inside its five seconds.          *)
Drain(d) ==
  /\ stage[d] = "draining"
  /\ To(d, "saving")
  /\ UNCHANGED <<state, startLock, Files, Clients, Histories>>

\* Mutant: shutdown goes on while sessions are still being stopped.
StopSessionsUnwaited(d) ==
  /\ stage[d] = "saving"
  /\ To(d, "saved")
  /\ UNCHANGED <<state, startLock, Files, Clients, Histories>>

(* Manager.Shutdown returns once every session has been saved.             *)
StopSessions(d) ==
  /\ stage[d] = "saving" /\ state[d] \subseteq disk
  /\ To(d, "saved")
  /\ UNCHANGED <<state, startLock, Files, Clients, Histories>>

RemovePidFile(d) ==
  /\ stage[d] = "saved"
  /\ To(d, "pidless") /\ pidFile' = None
  /\ UNCHANGED <<state, startLock, socket, disk, Clients, Histories>>

RemoveSocket(d) ==
  /\ stage[d] = "pidless"
  /\ To(d, "unlinked") /\ socket' = None
  /\ UNCHANGED <<state, startLock, pidFile, disk, Clients, Histories>>

ReleaseStartLock(d) ==
  /\ stage[d] = "unlinked"
  /\ To(d, "exited") /\ startLock' = None
  /\ UNCHANGED <<state, Files, Clients, Histories>>

(* A dead process: the kernel drops the lock, the files stay as they are.  *)
Dies(d) ==
  /\ To(d, "dead")
  /\ startLock' = IF startLock = d THEN None ELSE startLock
  /\ lost' = lost \cup (state[d] \ disk)
  /\ deaths' = deaths + 1

Crash(d) ==
  /\ Alive(d) /\ deaths < MaxDeaths
  /\ Dies(d)
  /\ UNCHANGED <<state, Files, Clients, edits>>

-----------------------------------------------------------------------------
(* The client that spawned it polls until something answers.               *)

\* Mutant: the client waits for its own child to answer.
ClientSeesItsOwn(d) ==
  /\ client[d] = "waiting" /\ Reachable /\ socket = d
  /\ client' = [client EXCEPT ![d] = "up"]
  /\ UNCHANGED <<stage, state, startLock, Files, killer, target, Histories>>

ClientSees(d) ==
  /\ client[d] = "waiting" /\ Reachable
  /\ client' = [client EXCEPT ![d] = "up"]
  /\ UNCHANGED <<stage, state, startLock, Files, killer, target, Histories>>

(* Its child is gone and a second has passed, or five have.  A bind is     *)
(* assumed to take less than the second left for it.                       *)
ClientGivesUp(d) ==
  /\ client[d] = "waiting" /\ ~Reachable
  /\ \A e \in Daemons : stage[e] \notin Binding
  /\ stage[d] # "starting"
  /\ client' = [client EXCEPT ![d] = "failed"]
  /\ UNCHANGED <<stage, state, startLock, Files, killer, target, Histories>>

-----------------------------------------------------------------------------
(* kill-server.                                                            *)

Kill(k, s) == killer' = [killer EXCEPT ![k] = s]

(* probeDaemonSocket: a stat, then a dial.                                 *)
StatSocket(k) ==
  /\ killer[k] = "idle"
  /\ Kill(k, IF socket = None THEN "absent" ELSE "dialling")
  /\ UNCHANGED <<stage, state, startLock, Files, target, client, Histories>>

DialSocket(k) ==
  /\ killer[k] = "dialling"
  /\ Kill(k, IF Reachable THEN "running" ELSE "stale")
  /\ UNCHANGED <<stage, state, startLock, Files, target, client, Histories>>

(* A SIGTERM before handleSignals runs kills; after the first it is lost.  *)
Signalled(d) ==
  \/ /\ stage[d] = "serving" /\ To(d, "stopping")
     /\ UNCHANGED <<startLock, lost, deaths>>
  \/ /\ stage[d] = "restoring" /\ Dies(d)
  \/ /\ stage[d] \notin {"serving", "restoring"}
     /\ UNCHANGED <<stage, startLock, lost, deaths>>

KillDaemonProcess(k) ==
  /\ killer[k] = "running"
  /\ IF pidFile # None /\ Alive(pidFile)
     THEN /\ Kill(k, "waiting") /\ target' = [target EXCEPT ![k] = pidFile]
          /\ Signalled(pidFile)
     ELSE /\ Kill(k, "unknown")
          /\ UNCHANGED <<stage, startLock, lost, deaths, target>>
  /\ UNCHANGED <<state, Files, client, edits>>

ClearStaleSocket(k) ==
  /\ killer[k] = "stale"
  /\ Kill(k, "cleared") /\ socket' = None
  /\ UNCHANGED <<stage, state, startLock, pidFile, disk, target, client, Histories>>

(* WaitForDaemonShutdown polls for the path to be gone, for ten seconds.   *)
DaemonStopped(k) ==
  /\ killer[k] = "waiting" /\ socket = None
  /\ Kill(k, "saved")
  /\ UNCHANGED <<stage, state, startLock, Files, target, client, Histories>>

TimedOut(k) ==
  /\ killer[k] = "waiting" /\ socket # None
  /\ Kill(k, "timedout")
  /\ UNCHANGED <<stage, state, startLock, Files, target, client, Histories>>

-----------------------------------------------------------------------------
Init ==
  /\ stage = [d \in Daemons |-> "none"] /\ state = [d \in Daemons |-> {}]
  /\ startLock = None /\ socket = None /\ pidFile = None
  /\ disk = {} /\ edits = {} /\ lost = {} /\ deaths = 0
  /\ killer = [k \in Killers |-> "idle"] /\ target = [k \in Killers |-> None]
  /\ client = [d \in Daemons |-> "idle"]

Starts(d) ==
  \/ AcquireStartLock(d) \/ ProbeSocket(d) \/ RemoveStale(d) \/ Bind(d)
  \/ Listen(d) \/ WritePidFile(d) \/ RestoreAllSessions(d)

Stops(d) ==
  \/ CloseListener(d) \/ Drain(d) \/ StopSessions(d)
  \/ RemovePidFile(d) \/ RemoveSocket(d) \/ ReleaseStartLock(d)

KillServer(k) ==
  \/ StatSocket(k) \/ DialSocket(k) \/ KillDaemonProcess(k)
  \/ ClearStaleSocket(k) \/ DaemonStopped(k) \/ TimedOut(k)

Next ==
  \/ \E d \in Daemons :
       \/ Spawn(d) \/ Starts(d) \/ Edit(d) \/ SaveSession(d) \/ Cancel(d)
       \/ Stops(d) \/ Crash(d) \/ ClientSees(d) \/ ClientGivesUp(d)
  \/ \E k \in Killers : KillServer(k)

(* A process that can take its next step takes it; nothing has to be       *)
(* spawned, edited, stopped or killed.                                     *)
Fairness ==
  \A d \in Daemons : /\ WF_vars(Starts(d)) /\ WF_vars(Stops(d))
                     /\ WF_vars(SaveSession(d) /\ stage[d] = "saving")
                     /\ WF_vars(ClientSees(d) \/ ClientGivesUp(d))

Spec == Init /\ [][Next]_vars /\ Fairness

-----------------------------------------------------------------------------
MaybeDaemon == Daemons \cup {None}

TypeOK ==
  /\ stage \in [Daemons -> Stages]
  /\ state \in [Daemons -> SUBSET edits]
  /\ startLock \in MaybeDaemon /\ socket \in MaybeDaemon /\ pidFile \in MaybeDaemon
  /\ disk \subseteq edits /\ lost \subseteq edits
  /\ edits \subseteq Edits /\ deaths \in Nat
  /\ killer \in [Killers -> {"idle", "absent", "dialling", "running", "stale", "unknown",
                             "waiting", "cleared", "saved", "timedout"}]
  /\ target \in [Killers -> MaybeDaemon]
  /\ client \in [Daemons -> {"idle", "waiting", "up", "failed"}]

(* Whoever starts and whoever dies, two daemons never hold sessions at     *)
(* once: a shell, a saved state and the socket belong to one daemon        *)
(* (Start, daemon.go, holds the start lock for the daemon's life).         *)
OneServer ==
  \A d, e \in Daemons : stage[d] \in Up /\ stage[e] \in Up \cup Accepting => d = e

(* A daemon that serves has every edit ever made, by itself or by those    *)
(* before it, that did not die unsaved with its daemon: no restore reads   *)
(* what an earlier daemon is still writing (shutdown and Start, daemon.go).*)
ServesEverything ==
  \A d \in Daemons : stage[d] \in Up => edits \subseteq state[d] \cup lost

(* An edit once saved is in every later file of its session, though every  *)
(* save replaces a whole file: "the old one's final write" never "lands on *)
(* top of the new one's" (session_commands.go:982-984), because no daemon  *)
(* writes without the start lock, or has read less than the files hold.    *)
SavedStays == [][disk \subseteq disk']_vars

(* When kill-server says the daemon stopped and its sessions were saved,   *)
(* they were, unless the daemon was killed harder (awaitDaemonShutdown).   *)
SavedMeansSaved ==
  \A k \in Killers : killer[k] = "saved" =>
    stage[target[k]] = "dead" \/ (state[target[k]] \subseteq disk /\ ~ stage[target[k]] \in Up)

(* No kill-server has taken a socket for a leftover and removed it.        *)
NoneCleared == \A k \in Killers : killer[k] # "cleared"

(* A daemon that listens is at the socket path, where clients look for it, *)
(* as long as no kill-server has removed one.                              *)
AtTheirPath ==
  \A d \in Daemons : stage[d] \in Accepting \cup {"bound", "draining", "saving"} => socket = d
ListensWhereClientsLook == NoneCleared => AtTheirPath

(* A client that was told no daemon could be started was told so because   *)
(* a daemon stopped or died: clients racing to start one all get it.       *)
NoNeedlessFailure ==
  NoneCleared => \A d \in Daemons : client[d] = "failed" =>
    \E e \in Daemons : stage[e] \in Up \cup Ending \cup {"exited", "dead"} /\ stage[e] # "serving"

(* Every client that starts a daemon is answered, and one whose daemon is  *)
(* never stopped and never dies is answered that it is up.                 *)
StartersAnswered ==
  /\ \A d \in Daemons : client[d] = "waiting" ~> client[d] \in {"up", "failed"}
  /\ []NoNeedlessFailure

(* When kill-server has returned a new daemon can be started: it does not  *)
(* find the start lock still held by the daemon that was stopped           *)
(* (docs/cli-reference.adoc, "safe: no race").                             *)
StartableAfterKill ==
  [][\A d \in Daemons : AcquireStartLock(d) /\ stage'[d] = "refused" =>
       \A k \in Killers : killer[k] = "saved" => startLock # target[k]]_vars
=============================================================================
