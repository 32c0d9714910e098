-------------------------- MODULE DaemonLifeProofs --------------------------
(***************************************************************************)
(* Proofs about DaemonLife, for any number of daemons, of kill-servers, of *)
(* edits and of deaths.                                                    *)
(*                                                                         *)
(* The argument: the start lock is held by exactly the daemon that is      *)
(* between taking it and giving it back (LockIsTheHolders), so whatever a  *)
(* daemon does to the saved states it does alone; what no daemon holds in  *)
(* memory is on disk or died with its daemon (EditsAreKept); and a daemon  *)
(* that may write has read all that is on disk (HoldsTheDisk), so that the *)
(* files it replaces lose nothing.  For kill-server: the pid file names a  *)
(* daemon between its writing of it and its removal, so the one signalled  *)
(* is one that will save before it exits (KillsWellAimed).                 *)
(***************************************************************************)
EXTENDS DaemonLife, TLAPS

LockIsTheHolders == \A d \in Daemons : startLock = d <=> stage[d] \in Holding

(* Before its restore a daemon has no edits; after its final saves all of  *)
(* them are on disk.                                                       *)
EditsBetween ==
  \A d \in Daemons :
    /\ stage[d] \in {"none", "starting", "listening", "restoring", "refused"} \cup Binding
         => state[d] = {}
    /\ stage[d] \in Ending => state[d] \subseteq disk

EditsAreKept ==
  /\ ServesEverything
  /\ (\A d \in Daemons : stage[d] \notin Up) => edits \subseteq disk \cup lost

HoldsTheDisk == \A d \in Daemons : stage[d] \in Up => disk \subseteq state[d]

IInv == TypeOK /\ LockIsTheHolders /\ EditsBetween /\ EditsAreKept /\ HoldsTheDisk

-----------------------------------------------------------------------------
LEMMA InitHolds == Init => IInv
  BY DaemonLifeAssumption
  DEF Init, IInv, TypeOK, LockIsTheHolders, EditsBetween, EditsAreKept, ServesEverything,
      HoldsTheDisk, MaybeDaemon, Stages, Holding, Binding, Accepting, Up, Ending, Gone

(* A death: what the daemon alone held becomes lost, and if it served then *)
(* nothing serves.                                                         *)
LEMMA DiesHolds ==
  ASSUME IInv, NEW d \in Daemons, Alive(d), Dies(d), UNCHANGED <<state, Files, edits>>,
         killer' \in [Killers -> {"idle", "absent", "dialling", "running", "stale", "unknown",
                                  "waiting", "cleared", "saved", "timedout"}],
         target' \in [Killers -> MaybeDaemon],
         client' \in [Daemons -> {"idle", "waiting", "up", "failed"}]
  PROVE  IInv'
<1>1. /\ TypeOK /\ LockIsTheHolders /\ EditsBetween /\ EditsAreKept /\ HoldsTheDisk
      /\ UNCHANGED <<state, socket, pidFile, disk, edits>>
      /\ stage' = [stage EXCEPT ![d] = "dead"] /\ deaths' = deaths + 1
      /\ lost' = lost \cup (state[d] \ disk)
  BY DEF IInv, Dies, To, Files
<1>2. TypeOK'
  <2>1. stage' \in [Daemons -> Stages]
    BY <1>1 DEF TypeOK, Stages, Gone
  <2>2. startLock' \in MaybeDaemon
    BY <1>1 DEF TypeOK, MaybeDaemon, Dies
  <2>3. lost' \subseteq edits'
    BY <1>1 DEF TypeOK
  <2> QED
    BY <1>1, <2>1, <2>2, <2>3 DEF TypeOK, MaybeDaemon
<1>3. LockIsTheHolders'
  BY <1>1, DaemonLifeAssumption
  DEF TypeOK, Dies, LockIsTheHolders, Holding, Binding, Accepting, Up, Ending
<1>4. EditsBetween'
  BY <1>1 DEF TypeOK, EditsBetween, Binding, Ending
<1>5. \A e \in Daemons : stage'[e] \in Up => stage[e] \in Up /\ e # d
  BY <1>1 DEF TypeOK, Up
<1>6. CASE stage[d] \in Up
  <2>1. \A e \in Daemons : stage'[e] \notin Up
    BY <1>1, <1>5, <1>6 DEF LockIsTheHolders, Holding
  <2>2. edits \subseteq disk \cup lost'
    BY <1>1, <1>6 DEF EditsAreKept, ServesEverything
  <2> QED
    BY <1>1, <1>2, <1>3, <1>4, <2>1, <2>2
    DEF IInv, EditsAreKept, ServesEverything, HoldsTheDisk
<1>7. CASE stage[d] \notin Up
  <2>1. state[d] \subseteq disk
    BY <1>1, <1>7 DEF Alive, TypeOK, Stages, Holding, Accepting, Up, Gone, EditsBetween
  <2>2. lost' = lost
    BY <1>1, <2>1
  <2>3. \A e \in Daemons : stage'[e] \in Up <=> stage[e] \in Up
    BY <1>1, <1>5, <1>7 DEF TypeOK
  <2> QED
    BY <1>1, <1>2, <1>3, <1>4, <2>2, <2>3
    DEF IInv, EditsAreKept, ServesEverything, HoldsTheDisk
<1> QED
  BY <1>6, <1>7

(* A signal stops the daemon, kills it before its handler runs, or is lost. *)
LEMMA KillHolds == ASSUME IInv, NEW k \in Killers, KillDaemonProcess(k) PROVE IInv'
<1>1. CASE pidFile # None /\ Alive(pidFile)
  <2>1. /\ pidFile \in Daemons /\ Signalled(pidFile)
        /\ UNCHANGED <<state, Files, client, edits>>
        /\ killer' \in [Killers -> {"idle", "absent", "dialling", "running", "stale", "unknown",
                                   "waiting", "cleared", "saved", "timedout"}]
        /\ target' \in [Killers -> MaybeDaemon]
        /\ client' \in [Daemons -> {"idle", "waiting", "up", "failed"}]
    BY <1>1 DEF KillDaemonProcess, Kill, IInv, TypeOK, MaybeDaemon
  <2>2. CASE Dies(pidFile)
    BY <1>1, <2>1, <2>2, DiesHolds
  <2>3. CASE ~Dies(pidFile)
    <3>1. /\ \/ stage[pidFile] = "serving" /\ stage' = [stage EXCEPT ![pidFile] = "stopping"]
             \/ stage' = stage
          /\ UNCHANGED <<startLock, lost, deaths, state, socket, pidFile, disk, client, edits>>
      BY <2>1, <2>3 DEF Signalled, To, Files
    <3> QED
      BY <2>1, <3>1
      DEF IInv, TypeOK, LockIsTheHolders, EditsBetween, EditsAreKept, ServesEverything, HoldsTheDisk,
          MaybeDaemon, Stages, Holding, Binding, Accepting, Up, Ending, Gone
  <2> QED
    BY <2>2, <2>3
<1>2. CASE ~(pidFile # None /\ Alive(pidFile))
  BY <1>2
  DEF KillDaemonProcess, Kill, IInv, TypeOK, LockIsTheHolders, EditsBetween, EditsAreKept,
      ServesEverything, HoldsTheDisk, MaybeDaemon, Files
<1> QED
  BY <1>1, <1>2

(* What a client or a kill-server does but for its signal.                 *)
LEMMA ClientStepHolds ==
  ASSUME IInv, UNCHANGED <<stage, state, startLock, pidFile, disk, Histories>>,
         socket' \in MaybeDaemon,
         killer' \in [Killers -> {"idle", "absent", "dialling", "running", "stale", "unknown",
                                  "waiting", "cleared", "saved", "timedout"}],
         target' \in [Killers -> MaybeDaemon],
         client' \in [Daemons -> {"idle", "waiting", "up", "failed"}]
  PROVE  IInv'
<1>1. TypeOK'
  BY DEF IInv, TypeOK, Histories
<1>2. LockIsTheHolders' /\ EditsBetween'
  BY DEF IInv, LockIsTheHolders, EditsBetween
<1>3. EditsAreKept' /\ HoldsTheDisk'
  BY DEF IInv, EditsAreKept, ServesEverything, HoldsTheDisk, Histories
<1> QED
  BY <1>1, <1>2, <1>3 DEF IInv

(* Holding the lock, a daemon reads what is on disk.                       *)
LEMMA RestoreHolds == ASSUME IInv, NEW d \in Daemons, RestoreAllSessions(d) PROVE IInv'
<1>1. /\ TypeOK /\ LockIsTheHolders /\ EditsBetween /\ EditsAreKept /\ HoldsTheDisk
      /\ stage[d] = "restoring" /\ stage' = [stage EXCEPT ![d] = "serving"]
      /\ state' = [state EXCEPT ![d] = disk]
      /\ UNCHANGED <<startLock, socket, pidFile, disk, killer, target, client, edits, lost, deaths>>
  BY DEF IInv, RestoreAllSessions, To, Files, Clients, Histories
<1>2. TypeOK'
  BY <1>1 DEF TypeOK, Stages, Holding, Accepting, Up
<1>3. \A e \in Daemons : stage[e] \notin Up
  BY <1>1 DEF LockIsTheHolders, Holding, Up, Accepting, Binding, Ending
<1>4. LockIsTheHolders'
  BY <1>1 DEF TypeOK, LockIsTheHolders, Holding, Binding, Accepting, Up, Ending
<1>5. EditsBetween'
  BY <1>1 DEF TypeOK, EditsBetween, Binding, Ending
<1>6. EditsAreKept' /\ HoldsTheDisk'
  BY <1>1, <1>3 DEF TypeOK, EditsAreKept, ServesEverything, HoldsTheDisk, Up
<1> QED
  BY <1>2, <1>4, <1>5, <1>6 DEF IInv

(* A save replaces a file by what the daemon has of its session, which is  *)
(* all that was in it.                                                     *)
LEMMA SaveGrows ==
  ASSUME IInv, NEW d \in Daemons, SaveSession(d)
  PROVE  /\ disk \subseteq disk' /\ disk' \subseteq disk \cup state[d] /\ disk' \subseteq edits
         /\ UNCHANGED <<stage, state, startLock, socket, pidFile, Clients, Histories>>
         /\ stage[d] \in Up
<1>1. PICK s \in Sessions :
        disk' = {e \in disk : e.session # s} \cup {e \in state[d] : e.session = s}
  BY DEF SaveSession
<1>2. disk \subseteq state[d] /\ state[d] \subseteq edits /\ disk \subseteq edits
  BY DEF SaveSession, IInv, HoldsTheDisk, TypeOK
<1> QED
  BY <1>1, <1>2 DEF SaveSession

LEMMA SaveHolds == ASSUME IInv, NEW d \in Daemons, SaveSession(d) PROVE IInv'
<1>1. /\ disk \subseteq disk' /\ disk' \subseteq disk \cup state[d] /\ disk' \subseteq edits
      /\ UNCHANGED <<stage, state, startLock, socket, pidFile, Clients, Histories>>
      /\ stage[d] \in Up
  BY SaveGrows
<1>2. TypeOK' /\ LockIsTheHolders'
  BY <1>1 DEF IInv, TypeOK, LockIsTheHolders, Clients, Histories
<1>3. EditsBetween' /\ EditsAreKept'
  BY <1>1 DEF IInv, EditsBetween, EditsAreKept, ServesEverything, Histories
<1>4. \A e \in Daemons : stage[e] \in Up => e = d
  BY <1>1 DEF IInv, LockIsTheHolders, Holding
<1>5. HoldsTheDisk'
  BY <1>1, <1>4 DEF IInv, HoldsTheDisk
<1> QED
  BY <1>2, <1>3, <1>5 DEF IInv

LEMMA StepHolds == ASSUME IInv, [Next]_vars PROVE IInv'
<1> USE DaemonLifeAssumption
    DEF IInv, TypeOK, LockIsTheHolders, EditsBetween, EditsAreKept, ServesEverything, HoldsTheDisk,
        MaybeDaemon, Stages, Holding, Binding, Accepting, Up, Ending, Gone, To, Files, Clients, Histories
<1>1. ASSUME NEW d \in Daemons, Spawn(d) PROVE IInv'
  BY <1>1 DEF Spawn
<1>2. ASSUME NEW d \in Daemons, AcquireStartLock(d) PROVE IInv'
  BY <1>2 DEF AcquireStartLock
<1>3. ASSUME NEW d \in Daemons, ProbeSocket(d) PROVE IInv'
  BY <1>3 DEF ProbeSocket, Refuse
<1>4. ASSUME NEW d \in Daemons, RemoveStale(d) PROVE IInv'
  BY <1>4 DEF RemoveStale, Refuse
<1>5. ASSUME NEW d \in Daemons, Bind(d) PROVE IInv'
  BY <1>5 DEF Bind, Refuse
<1>6. ASSUME NEW d \in Daemons, Listen(d) PROVE IInv'
  BY <1>6 DEF Listen
<1>7. ASSUME NEW d \in Daemons, WritePidFile(d) PROVE IInv'
  BY <1>7 DEF WritePidFile, Refuse
<1>8. ASSUME NEW d \in Daemons, RestoreAllSessions(d) PROVE IInv'
  BY <1>8, RestoreHolds
<1>9. ASSUME NEW d \in Daemons, Edit(d) PROVE IInv'
  BY <1>9 DEF Edit
<1>10. ASSUME NEW d \in Daemons, SaveSession(d) PROVE IInv'
  BY <1>10, SaveHolds
<1>11. ASSUME NEW d \in Daemons, Cancel(d) PROVE IInv'
  BY <1>11 DEF Cancel
<1>12. ASSUME NEW d \in Daemons, Stops(d) PROVE IInv'
  <2>1. CASE CloseListener(d)
    BY <2>1 DEF CloseListener
  <2>2. CASE Drain(d)
    BY <2>2 DEF Drain
  <2>3. CASE StopSessions(d)
    BY <2>3 DEF StopSessions
  <2>4. CASE RemovePidFile(d)
    BY <2>4 DEF RemovePidFile
  <2>5. CASE RemoveSocket(d)
    BY <2>5 DEF RemoveSocket
  <2>6. CASE ReleaseStartLock(d)
    BY <2>6 DEF ReleaseStartLock
  <2> QED
    BY <1>12, <2>1, <2>2, <2>3, <2>4, <2>5, <2>6 DEF Stops
<1>13. ASSUME NEW d \in Daemons, Crash(d) PROVE IInv'
  BY <1>13, DiesHolds DEF Crash
<1>14. ASSUME NEW d \in Daemons, ClientSees(d) \/ ClientGivesUp(d) PROVE IInv'
  <2> HIDE DEF LockIsTheHolders, EditsBetween, EditsAreKept, HoldsTheDisk
  <2> QED
    BY <1>14, ClientStepHolds DEF ClientSees, ClientGivesUp
<1>15. ASSUME NEW k \in Killers, KillDaemonProcess(k) PROVE IInv'
  BY <1>15, KillHolds
<1>16. ASSUME NEW k \in Killers, KillServer(k), ~KillDaemonProcess(k) PROVE IInv'
  <2> HIDE DEF LockIsTheHolders, EditsBetween, EditsAreKept, HoldsTheDisk
  <2>1. CASE StatSocket(k)
    BY <2>1, ClientStepHolds DEF StatSocket, Kill
  <2>2. CASE DialSocket(k)
    BY <2>2, ClientStepHolds DEF DialSocket, Kill
  <2>3. CASE ClearStaleSocket(k)
    BY <2>3, ClientStepHolds DEF ClearStaleSocket, Kill
  <2>4. CASE DaemonStopped(k) \/ TimedOut(k)
    BY <2>4, ClientStepHolds DEF DaemonStopped, TimedOut, Kill
  <2> QED
    BY <1>16, <2>1, <2>2, <2>3, <2>4 DEF KillServer
<1>17. CASE UNCHANGED vars
  BY <1>17 DEF vars
<1> QED
  BY <1>1, <1>2, <1>3, <1>4, <1>5, <1>6, <1>7, <1>8, <1>9, <1>10, <1>11, <1>12, <1>13, <1>14,
     <1>15, <1>16, <1>17 DEF Next, Starts, KillServer

-----------------------------------------------------------------------------
(* What is shown.                                                          *)

THEOREM Invariance == Spec => []IInv
<1>1. IInv /\ [Next]_vars => IInv'
  BY StepHolds
<1> QED
  BY InitHolds, <1>1, PTL DEF Spec

(* Types: what every other proof here starts from.                         *)
THEOREM TypesHold == Spec => []TypeOK
<1>1. IInv => TypeOK
  BY DEF IInv
<1> QED
  BY Invariance, <1>1, PTL

(* The start lock keeps two daemons from ever holding sessions at once,    *)
(* whoever starts, crashes, is killed or loses its socket                  *)
(* (Daemon.Start and acquireStartLock).                                    *)
THEOREM OneServerHolds == Spec => []OneServer
<1>1. IInv => OneServer
  BY DEF IInv, LockIsTheHolders, OneServer, Holding
<1> QED
  BY Invariance, <1>1, PTL

(* A daemon that serves has every edit that did not die unsaved            *)
(* (Daemon.shutdown, restoreAllSessions).                                  *)
THEOREM EverythingServed == Spec => []ServesEverything
<1>1. IInv => ServesEverything
  BY DEF IInv, EditsAreKept
<1> QED
  BY Invariance, <1>1, PTL

(* What has been saved once is in every later file of its session, through *)
(* any number of starts, stops and crashes, though every save replaces a   *)
(* whole file: no daemon writes that has not read all that is there        *)
(* (acquireStartLock, SaveSessionForResurrection).                         *)
THEOREM SavedStaysHolds == Spec => SavedStays
<1>1. ASSUME IInv, [Next]_vars
      PROVE  [disk \subseteq disk']_vars
  <2>1. ASSUME NEW d \in Daemons, SaveSession(d)
        PROVE  disk \subseteq disk'
    BY <1>1, <2>1, SaveGrows
  <2>2. CASE \A d \in Daemons : ~SaveSession(d)
    BY <1>1, <2>2
    DEF Next, Starts, Stops, KillServer, Spawn, AcquireStartLock, ProbeSocket, RemoveStale, Bind,
        Listen, WritePidFile, RestoreAllSessions, Edit, Cancel, CloseListener, Drain,
        StopSessions, RemovePidFile, RemoveSocket, ReleaseStartLock, Crash, ClientSees,
        ClientGivesUp, StatSocket, DialSocket, KillDaemonProcess, ClearStaleSocket, DaemonStopped,
        TimedOut, Files, vars
  <2> QED
    BY <2>1, <2>2
<1>2. IInv /\ [Next]_vars => [disk \subseteq disk']_vars
  BY <1>1
<1> QED
  BY Invariance, <1>2, PTL DEF Spec, SavedStays

-----------------------------------------------------------------------------
(* Where no kill-server cleared it, the socket is its binder's until it unlinks it. *)

Bound == {"bound", "draining", "saving", "saved", "pidless"} \cup Accepting
SocketIsItsOwners ==
  NoneCleared => \A d \in Daemons : stage[d] \in Bound => socket = d

LEMMA SocketStays ==
  ASSUME IInv, SocketIsItsOwners, [Next]_vars
  PROVE  SocketIsItsOwners'
<1> DEFINE Owned == \A d \in Daemons : stage[d] \in Bound => socket = d
<1>1. /\ stage \in [Daemons -> Stages]
      /\ \A d, e \in Daemons : stage[d] \in Holding /\ stage[e] \in Holding => d = e
      /\ Bound \subseteq Holding /\ Binding \subseteq Holding /\ Up \subseteq Holding
  BY DEF IInv, TypeOK, LockIsTheHolders, Holding, Bound, Binding, Accepting, Up, Ending
<1>2. ASSUME NEW d \in Daemons, RemoveStale(d) \/ Bind(d) \/ RemoveSocket(d)
      PROVE  Owned'
  <2>1. \A e \in Daemons : e # d => stage[e] \notin Bound /\ stage'[e] = stage[e]
    BY <1>1, <1>2 DEF RemoveStale, Bind, RemoveSocket, Refuse, To, Holding, Binding, Ending
  <2>2. stage'[d] \in Bound => socket' = d
    BY <1>1, <1>2
    DEF RemoveStale, Bind, RemoveSocket, Refuse, To, Bound, Accepting
  <2> QED
    BY <2>1, <2>2
<1>3. ASSUME NEW d \in Daemons, ~(RemoveStale(d) \/ Bind(d) \/ RemoveSocket(d)), Owned,
             \/ Spawn(d) \/ Starts(d) \/ Edit(d) \/ SaveSession(d) \/ Cancel(d)
             \/ Stops(d) \/ Crash(d) \/ ClientSees(d) \/ ClientGivesUp(d)
      PROVE  Owned'
  <2>1. socket' = socket
    BY <1>3
    DEF Spawn, Starts, AcquireStartLock, ProbeSocket, Listen, WritePidFile, RestoreAllSessions,
        Edit,
        SaveSession, Cancel, Stops, CloseListener, Drain, StopSessions, RemovePidFile,
        ReleaseStartLock, Crash, ClientSees, ClientGivesUp, Files
  <2>2. \A e \in Daemons : stage'[e] \in Bound => stage[e] \in Bound
    BY <1>1, <1>3
    DEF Spawn, Starts, AcquireStartLock, ProbeSocket, Refuse, Listen, WritePidFile,
        RestoreAllSessions, Edit, SaveSession, Cancel, Stops, CloseListener, Drain, StopSessions,
        RemovePidFile, ReleaseStartLock, Crash, Dies, ClientSees, ClientGivesUp, To, Bound, Accepting
  <2> QED
    BY <1>3, <2>1, <2>2
<1>4. ASSUME NEW d \in Daemons,
             \/ Spawn(d) \/ Starts(d) \/ Edit(d) \/ SaveSession(d) \/ Cancel(d)
             \/ Stops(d) \/ Crash(d) \/ ClientSees(d) \/ ClientGivesUp(d)
      PROVE  killer' = killer
  BY <1>4
  DEF Spawn, Starts, AcquireStartLock, ProbeSocket, Listen, WritePidFile, RestoreAllSessions,
      Edit, SaveSession, Cancel, Stops, CloseListener, Drain, StopSessions, RemovePidFile,
      RemoveSocket, RemoveStale, Bind, ReleaseStartLock, Crash, ClientSees, ClientGivesUp,
      Files, Clients, Refuse
<1>5. ASSUME NEW k \in Killers, KillServer(k), NoneCleared'
      PROVE  NoneCleared /\ (Owned => Owned')
  <2>1. /\ killer \in [Killers -> {killer[j] : j \in Killers}]
        /\ killer' = [killer EXCEPT ![k] = killer'[k]]
        /\ killer[k] # "cleared"
    BY <1>5
    DEF KillServer, StatSocket, DialSocket, KillDaemonProcess, ClearStaleSocket, DaemonStopped,
        TimedOut, Kill, IInv, TypeOK
  <2>2. NoneCleared
    BY <1>5, <2>1 DEF NoneCleared
  <2>3. ~ClearStaleSocket(k)
    BY <1>5, <2>1 DEF NoneCleared, ClearStaleSocket, Kill
  <2>4. socket' = socket
    BY <1>5, <2>3
    DEF KillServer, StatSocket, DialSocket, KillDaemonProcess, DaemonStopped, TimedOut, Files
  <2>5. \A e \in Daemons : stage'[e] \in Bound => stage[e] \in Bound
    BY <1>1, <1>5, <2>3
    DEF KillServer, StatSocket, DialSocket, KillDaemonProcess, Signalled, Dies, To, DaemonStopped,
        TimedOut, Bound, Accepting
  <2> QED
    BY <2>2, <2>4, <2>5
<1>6. CASE UNCHANGED vars
  BY <1>6 DEF vars, SocketIsItsOwners, NoneCleared, Bound
<1> QED
  BY <1>2, <1>3, <1>4, <1>5, <1>6 DEF Next, SocketIsItsOwners, NoneCleared

(* Starting, stopping and dying, in any number, never leave a daemon       *)
(* listening where no client looks: only kill-server's clearing of a       *)
(* leftover can (RemoveStale under the lock, Daemon.Start).                *)
THEOREM ListensHolds == Spec => []ListensWhereClientsLook
<1>1. Init => SocketIsItsOwners
  BY DEF Init, SocketIsItsOwners, Bound, Accepting
<1>2. IInv /\ SocketIsItsOwners /\ [Next]_vars => SocketIsItsOwners'
  BY SocketStays
<1>3. SocketIsItsOwners => ListensWhereClientsLook
  BY DEF SocketIsItsOwners, ListensWhereClientsLook, AtTheirPath, Bound
<1> QED
  BY Invariance, <1>1, <1>2, <1>3, PTL DEF Spec

-----------------------------------------------------------------------------
(* What a kill-server waits for.  The pid file names a daemon that is      *)
(* between writing it and removing it, or died in between; so a daemon it  *)
(* has signalled is on its way out, and its socket goes after its last     *)
(* save.                                                                   *)

PidHeld == {"restoring", "serving", "stopping", "draining", "saving", "saved", "dead"}
After   == {"unlinked", "exited", "dead"}
Leaving == {"stopping", "draining", "saving", "saved", "pidless"} \cup After

(* The pid file and the last save of each daemon.                          *)
PidNames ==
  \A d \in Daemons : /\ pidFile = d => stage[d] \in PidHeld
                     /\ stage[d] = "exited" => state[d] \subseteq disk

(* What a kill-server that has signalled a daemon knows of it.             *)
AimedAt ==
  \A k \in Killers :
    /\ killer[k] = "waiting" => (target[k] \in Daemons /\ stage[target[k]] \in Leaving)
    /\ killer[k] = "saved" => (target[k] \in Daemons /\ stage[target[k]] \in After)

KillsWellAimed == PidNames /\ (NoneCleared => AimedAt)

(* No daemon comes back from where it was going, and what it saved stays.  *)
LEMMA AimStays ==
  ASSUME KillsWellAimed, UNCHANGED <<killer, target>>,
         \A d \in Daemons :
           /\ stage[d] \in Leaving => stage'[d] \in Leaving
           /\ stage[d] \in After => stage'[d] \in After
           /\ pidFile' = d => stage'[d] \in PidHeld
           /\ stage'[d] = "exited" => state'[d] \subseteq disk'
  PROVE  KillsWellAimed'
<1>1. PidNames'
  BY DEF PidNames
<1>2. ASSUME NoneCleared'
      PROVE  AimedAt'
  <2>1. AimedAt
    BY <1>2 DEF KillsWellAimed, NoneCleared
  <2>2. ASSUME NEW k \in Killers
        PROVE  /\ killer'[k] = "waiting" => (target'[k] \in Daemons /\ stage'[target'[k]] \in Leaving)
               /\ killer'[k] = "saved" => (target'[k] \in Daemons /\ stage'[target'[k]] \in After)
    <3>1. killer'[k] = killer[k] /\ target'[k] = target[k]
      OBVIOUS
    <3> QED
      BY <2>1, <3>1 DEF AimedAt
  <2> QED
    BY <2>2 DEF AimedAt
<1> QED
  BY <1>1, <1>2 DEF KillsWellAimed

LEMMA StartsAims ==
  ASSUME IInv, KillsWellAimed, NEW d \in Daemons, Spawn(d) \/ Starts(d)
  PROVE  KillsWellAimed'
<1>1. UNCHANGED <<killer, target, disk>>
  BY DEF Spawn, Starts, AcquireStartLock, ProbeSocket, RemoveStale, Bind, Listen, WritePidFile,
         RestoreAllSessions, Files, Clients
<1>2. /\ stage[d] \in {"none", "starting", "restoring", "listening"} \cup Binding
      /\ stage' = [stage EXCEPT ![d] = stage'[d]]
      /\ stage'[d] # "exited"
  BY DEF IInv, TypeOK, Binding, To, Refuse, Spawn, Starts, AcquireStartLock, ProbeSocket, RemoveStale,
         Bind, Listen, WritePidFile, RestoreAllSessions
<1>3. \/ pidFile' = d /\ stage'[d] = "restoring"
      \/ pidFile' = pidFile /\ (stage[d] = "restoring" => stage'[d] = "serving")
  BY DEF IInv, TypeOK, To, Refuse, Spawn, Starts, AcquireStartLock, ProbeSocket, RemoveStale,
         Bind, Listen, WritePidFile, RestoreAllSessions, Files
<1>4. \A e \in Daemons : e # d => state'[e] = state[e]
  BY DEF IInv, TypeOK, Spawn, Starts, AcquireStartLock, ProbeSocket, RemoveStale,
         Bind, Listen, WritePidFile, RestoreAllSessions, Files
<1>5. ASSUME NEW e \in Daemons
      PROVE  /\ stage[e] \in Leaving => stage'[e] \in Leaving
             /\ stage[e] \in After => stage'[e] \in After
             /\ pidFile' = e => stage'[e] \in PidHeld
             /\ stage'[e] = "exited" => state'[e] \subseteq disk'
  <2>1. CASE e # d
    <3>1. stage'[e] = stage[e]
      BY <1>2, <2>1 DEF IInv, TypeOK
    <3>2. pidFile' = e => pidFile = e
      BY <1>3, <2>1
    <3>3. state'[e] = state[e]
      BY <1>4, <2>1
    <3> QED
      BY <1>1, <3>1, <3>2, <3>3 DEF KillsWellAimed, PidNames
  <2>2. CASE e = d
    <3>1. stage[d] \notin Leaving /\ stage[d] \notin After
      BY <1>2 DEF Leaving, After, Binding
    <3>2. pidFile' = d => stage'[d] \in PidHeld
      BY <1>2, <1>3 DEF KillsWellAimed, PidNames, PidHeld, Binding
    <3> QED
      BY <1>2, <2>2, <3>1, <3>2
  <2> QED
    BY <2>1, <2>2
<1> QED
  BY <1>1, <1>5, AimStays

LEMMA StopsAims ==
  ASSUME IInv, KillsWellAimed, NEW d \in Daemons, Cancel(d) \/ Stops(d)
  PROVE  KillsWellAimed'
<1>1. UNCHANGED <<killer, target, disk, state>>
  BY DEF Cancel, Stops, CloseListener, Drain, StopSessions, RemovePidFile, RemoveSocket,
         ReleaseStartLock, Files, Clients
<1>2. /\ stage' = [stage EXCEPT ![d] = stage'[d]]
      /\ stage[d] = "serving" \/ stage[d] \in Leaving
      /\ stage'[d] \in Leaving /\ (stage[d] \in After => stage'[d] \in After)
      /\ stage'[d] = "exited" => stage[d] = "unlinked"
  BY DEF IInv, TypeOK, To, Leaving, After, Cancel, Stops, CloseListener, Drain, StopSessions, RemovePidFile,
         RemoveSocket, ReleaseStartLock
<1>3. /\ pidFile' \in {pidFile, None}
      /\ (stage[d] \in PidHeld /\ pidFile' # None) => stage'[d] \in PidHeld
  BY DEF IInv, TypeOK, To, PidHeld, Cancel, Stops, CloseListener, Drain, StopSessions, RemovePidFile,
         RemoveSocket, ReleaseStartLock, Files
<1>4. stage[d] = "unlinked" => state[d] \subseteq disk
  BY DEF IInv, EditsBetween, Ending
<1>5. ASSUME NEW e \in Daemons
      PROVE  /\ stage[e] \in Leaving => stage'[e] \in Leaving
             /\ stage[e] \in After => stage'[e] \in After
             /\ pidFile' = e => stage'[e] \in PidHeld
             /\ stage'[e] = "exited" => state'[e] \subseteq disk'
  <2>1. CASE e # d
    <3>1. stage'[e] = stage[e] /\ state'[e] = state[e] /\ disk' = disk
      BY <1>1, <1>2, <2>1 DEF IInv, TypeOK
    <3>2. pidFile' = e => pidFile = e
      BY <1>3, DaemonLifeAssumption
    <3> QED
      BY <3>1, <3>2 DEF KillsWellAimed, PidNames
  <2>2. CASE e = d
    <3>1. stage[d] \in Leaving => stage'[d] \in Leaving
      BY <1>2
    <3>2. pidFile' = d => stage'[d] \in PidHeld
      BY <1>3, DaemonLifeAssumption DEF KillsWellAimed, PidNames
    <3>3. stage'[d] = "exited" => state'[d] \subseteq disk'
      BY <1>1, <1>2, <1>4
    <3> QED
      BY <1>2, <2>2, <3>1, <3>2, <3>3
  <2> QED
    BY <2>1, <2>2
<1> QED
  BY <1>1, <1>5, AimStays

LEMMA WorksAims ==
  ASSUME IInv, KillsWellAimed, NEW d \in Daemons,
         Edit(d) \/ SaveSession(d) \/ Crash(d) \/ ClientSees(d) \/ ClientGivesUp(d)
  PROVE  KillsWellAimed'
<1>1. /\ UNCHANGED <<killer, target, pidFile>>
      /\ disk \subseteq disk'
  BY SaveGrows DEF Edit, SaveSession, Crash, ClientSees, ClientGivesUp, Files, Clients
<1>2. \/ stage' = stage
      \/ /\ stage' = [stage EXCEPT ![d] = "dead"]
         /\ Alive(d) /\ state' = state
  BY DEF Edit, SaveSession, Crash, Dies, To, ClientSees, ClientGivesUp
<1>3. \A e \in Daemons : state'[e] = state[e] \/ stage[e] \in Up
  BY DEF IInv, TypeOK, Edit, SaveSession, Crash, ClientSees, ClientGivesUp, Up
<1>4. ASSUME NEW e \in Daemons
      PROVE  /\ stage[e] \in Leaving => stage'[e] \in Leaving
             /\ stage[e] \in After => stage'[e] \in After
             /\ pidFile' = e => stage'[e] \in PidHeld
             /\ stage'[e] = "exited" => state'[e] \subseteq disk'
  <2>1. CASE stage'[e] = stage[e]
    BY <1>1, <1>3, <2>1 DEF KillsWellAimed, PidNames, Up
  <2>2. CASE stage'[e] = "dead"
    BY <2>2 DEF Leaving, After, PidHeld
  <2> QED
    BY <1>2, <2>1, <2>2 DEF IInv, TypeOK
<1> QED
  BY <1>1, <1>4, AimStays

(* A kill-server takes its aim at the daemon of the pid file, and is done  *)
(* when the socket is gone: with that daemon's, that daemon's saves were.  *)
LEMMA KillsAim ==
  ASSUME IInv, SocketIsItsOwners, KillsWellAimed, NEW k \in Killers, KillServer(k)
  PROVE  KillsWellAimed'
<1>1. UNCHANGED <<state, disk, pidFile>>
  BY DEF KillServer, StatSocket, DialSocket, KillDaemonProcess, ClearStaleSocket, DaemonStopped,
         TimedOut, Files
<1>2. /\ killer \in [Killers -> {killer[j] : j \in Killers}] /\ target \in [Killers -> MaybeDaemon]
      /\ killer' = [killer EXCEPT ![k] = killer'[k]] /\ target' = [target EXCEPT ![k] = target'[k]]
      /\ killer[k] # "cleared" /\ killer[k] # "saved"
  BY DEF IInv, TypeOK, KillServer, StatSocket, DialSocket, KillDaemonProcess, ClearStaleSocket,
         DaemonStopped, TimedOut, Kill
<1>3. NoneCleared' => NoneCleared
  BY <1>2 DEF NoneCleared
<1>4. /\ \A d \in Daemons : stage'[d] # stage[d] =>
             stage[d] \in {"serving", "restoring"} /\ stage'[d] \in {"stopping", "dead"}
      /\ killer'[k] = "waiting" => /\ target'[k] = pidFile /\ pidFile # None /\ Alive(pidFile)
                                   /\ Signalled(pidFile)
      /\ killer'[k] = "saved" => /\ target' = target /\ socket = None /\ killer[k] = "waiting"
                                 /\ stage' = stage
  BY DEF IInv, TypeOK, KillServer, StatSocket, DialSocket, KillDaemonProcess, ClearStaleSocket,
         DaemonStopped, TimedOut, Kill, Signalled, Dies, To, Alive
<1>5. ASSUME NEW d \in Daemons
      PROVE  /\ pidFile' = d => stage'[d] \in PidHeld
             /\ stage'[d] = "exited" => state'[d] \subseteq disk'
             /\ stage[d] \in Leaving => stage'[d] \in Leaving
             /\ stage[d] \in After => stage'[d] \in After
  BY <1>1, <1>4 DEF KillsWellAimed, PidNames, PidHeld, Leaving, After
<1>6. ASSUME NEW j \in Killers, NoneCleared', killer'[j] = "waiting"
      PROVE  target'[j] \in Daemons /\ stage'[target'[j]] \in Leaving
  <2>1. CASE j # k
    <3>1. killer[j] = "waiting" /\ target'[j] = target[j]
      BY <1>2, <1>6, <2>1
    <3> QED
      BY <1>3, <1>5, <1>6, <3>1 DEF KillsWellAimed, AimedAt
  <2>2. CASE j = k
    <3>1. target'[k] = pidFile /\ pidFile \in Daemons /\ Alive(pidFile) /\ Signalled(pidFile)
      BY <1>4, <1>6, <2>2 DEF IInv, TypeOK, MaybeDaemon
    <3>2. stage[pidFile] \in PidHeld
      BY <3>1 DEF KillsWellAimed, PidNames
    <3>3. stage'[pidFile] \in Leaving
      BY <3>1, <3>2 DEF IInv, TypeOK, Signalled, Dies, To, Alive, PidHeld, Leaving, After, Gone
    <3> QED
      BY <2>2, <3>1, <3>3
  <2> QED
    BY <2>1, <2>2
<1>7. ASSUME NEW j \in Killers, NoneCleared', killer'[j] = "saved"
      PROVE  target'[j] \in Daemons /\ stage'[target'[j]] \in After
  <2>1. CASE j # k
    <3>1. killer[j] = "saved" /\ target'[j] = target[j]
      BY <1>2, <1>7, <2>1
    <3> QED
      BY <1>3, <1>5, <1>7, <3>1 DEF KillsWellAimed, AimedAt
  <2>2. CASE j = k
    <3>1. /\ target' = target /\ socket = None /\ stage' = stage
          /\ target[k] \in Daemons /\ stage[target[k]] \in Leaving
      BY <1>3, <1>4, <1>7, <2>2 DEF KillsWellAimed, AimedAt
    <3>2. stage[target[k]] \notin Bound
      BY <1>3, <1>7, <3>1, DaemonLifeAssumption DEF SocketIsItsOwners
    <3> QED
      BY <2>2, <3>1, <3>2 DEF Leaving, Bound, Accepting
  <2> QED
    BY <2>1, <2>2
<1> QED
  BY <1>5, <1>6, <1>7 DEF KillsWellAimed, PidNames, AimedAt

LEMMA AimHolds == Spec => []KillsWellAimed
<1>1. Init => KillsWellAimed /\ SocketIsItsOwners
  BY DaemonLifeAssumption
  DEF Init, KillsWellAimed, PidNames, AimedAt, SocketIsItsOwners, Bound, Accepting
<1>2. IInv /\ SocketIsItsOwners /\ [Next]_vars => SocketIsItsOwners'
  BY SocketStays
<1>3. IInv /\ SocketIsItsOwners /\ KillsWellAimed /\ [Next]_vars => KillsWellAimed'
  <2>1. KillsWellAimed /\ UNCHANGED vars => KillsWellAimed'
    BY DEF vars, KillsWellAimed, PidNames, AimedAt, NoneCleared
  <2> QED
    BY <2>1, StartsAims, StopsAims, WorksAims, KillsAim DEF Next
<1> QED
  BY Invariance, <1>1, <1>2, <1>3, PTL DEF Spec

(* A kill-server that says the daemon stopped and its sessions were saved  *)
(* is right, as long as no other one has cleared a socket meanwhile: in    *)
(* particular if it is the only one (awaitDaemonShutdown).                 *)
THEOREM SavedMeansSavedHolds == Spec => [](NoneCleared => SavedMeansSaved)
<1>1. IInv /\ KillsWellAimed /\ NoneCleared => SavedMeansSaved
  <2> SUFFICES ASSUME IInv, KillsWellAimed, NoneCleared, NEW k \in Killers, killer[k] = "saved",
                      stage[target[k]] # "dead"
               PROVE  state[target[k]] \subseteq disk /\ stage[target[k]] \notin Up
    BY DEF SavedMeansSaved
  <2>1. target[k] \in Daemons /\ stage[target[k]] \in {"unlinked", "exited"}
    BY DEF KillsWellAimed, AimedAt, After
  <2> QED
    BY <2>1 DEF IInv, EditsBetween, KillsWellAimed, PidNames, Ending, Up
<1> QED
  BY Invariance, AimHolds, <1>1, PTL

(* The same of a kill-server nobody else runs beside.                      *)
THEOREM OnlyKillSaves ==
  ASSUME \A k, l \in Killers : k = l
  PROVE  Spec => []SavedMeansSaved
<1>1. (NoneCleared => SavedMeansSaved) => SavedMeansSaved
  BY DEF NoneCleared, SavedMeansSaved
<1> QED
  BY SavedMeansSavedHolds, <1>1, PTL

-----------------------------------------------------------------------------
(* Clients that race to start a daemon.  Until something stops or dies the *)
(* only daemons turned away are those that found the lock held, and whoever *)
(* holds it goes on to listen where the clients look.                      *)

Undisturbed ==
  \A e \in Daemons :
    stage[e] \in {"none", "starting", "refused", "listening", "restoring", "serving"} \cup Binding

(* What the probe found is still so when it is acted on: the path belongs  *)
(* to the holder of the lock.                                              *)
PathAsProbed ==
  \A d \in Daemons : /\ stage[d] = "stale" => socket # None
                     /\ stage[d] = "binding" => socket = None

StartersServed ==
  /\ \A d \in Daemons : client[d] = "waiting" => stage[d] # "none"
  /\ NoneCleared =>
       /\ PathAsProbed
       /\ Undisturbed => \A d \in Daemons : /\ client[d] # "failed"
                                            /\ stage[d] = "refused" => startLock # None

LEMMA ClearedStays ==
  ASSUME IInv, [Next]_vars, NoneCleared'
  PROVE  NoneCleared
<1>1. ASSUME NEW d \in Daemons,
             \/ Spawn(d) \/ Starts(d) \/ Edit(d) \/ SaveSession(d) \/ Cancel(d)
             \/ Stops(d) \/ Crash(d) \/ ClientSees(d) \/ ClientGivesUp(d)
      PROVE  killer' = killer
  BY <1>1
  DEF Spawn, Starts, AcquireStartLock, ProbeSocket, Listen, WritePidFile, RestoreAllSessions,
      Edit, SaveSession, Cancel, Stops, CloseListener, Drain, StopSessions, RemovePidFile,
      RemoveSocket, RemoveStale, Bind, ReleaseStartLock, Crash, ClientSees, ClientGivesUp, Clients
<1>2. ASSUME NEW k \in Killers, KillServer(k)
      PROVE  killer[k] # "cleared" /\ \A j \in Killers : j # k => killer'[j] = killer[j]
  BY <1>2
  DEF KillServer, StatSocket, DialSocket, KillDaemonProcess, ClearStaleSocket, DaemonStopped,
      TimedOut, Kill, IInv, TypeOK
<1> QED
  BY <1>1, <1>2 DEF Next, NoneCleared, vars

(* The steps under the lock that touch the path, and those that turn a     *)
(* daemon away.                                                            *)
LEMMA NobodyRefused ==
  ASSUME IInv, SocketIsItsOwners, PathAsProbed, NoneCleared, NEW d \in Daemons,
         ProbeSocket(d) \/ RemoveStale(d) \/ Bind(d) \/ WritePidFile(d)
  PROVE  ~Refuse(d) /\ UNCHANGED startLock /\ PathAsProbed'
<1>1. /\ stage \in [Daemons -> Stages] /\ socket \in Daemons \cup {None} /\ stage[d] \in Holding
      /\ \A e \in Daemons : stage[e] \in Holding => e = d
      /\ Accepting \subseteq Holding /\ Binding \subseteq Holding
  BY DEF IInv, TypeOK, MaybeDaemon, LockIsTheHolders, Holding, Binding, Accepting,
         ProbeSocket, RemoveStale, Bind, WritePidFile
<1>2. CASE ProbeSocket(d)
  <2>1. ~Reachable
    <3> SUFFICES ASSUME Reachable PROVE FALSE
      OBVIOUS
    <3>1. socket = d
      BY <1>1 DEF Reachable
    <3> QED
      BY <1>2, <3>1 DEF Reachable, ProbeSocket, Accepting
  <2>2. /\ UNCHANGED <<startLock, socket>>
        /\ \/ socket = None /\ stage' = [stage EXCEPT ![d] = "binding"]
           \/ socket # None /\ stage' = [stage EXCEPT ![d] = "stale"]
    BY <1>2, <2>1 DEF ProbeSocket, To, Files
  <2>3. \A e \in Daemons : e # d => stage'[e] \notin Binding
    BY <1>1, <2>2
  <2> QED
    BY <1>1, <2>2, <2>3 DEF Refuse, To, PathAsProbed, Binding
<1>3. CASE RemoveStale(d)
  <2>1. /\ stage' = [stage EXCEPT ![d] = "binding"] /\ socket' = None /\ UNCHANGED startLock
    BY <1>3 DEF RemoveStale, PathAsProbed, To
  <2>2. \A e \in Daemons : e # d => stage'[e] \notin Binding
    BY <1>1, <2>1
  <2> QED
    BY <1>1, <2>1, <2>2 DEF Refuse, To, PathAsProbed, Binding
<1>4. CASE Bind(d)
  <2>1. /\ stage' = [stage EXCEPT ![d] = "bound"] /\ socket' = d /\ UNCHANGED startLock
    BY <1>4 DEF Bind, PathAsProbed, To
  <2>2. \A e \in Daemons : e # d => stage'[e] \notin Binding
    BY <1>1, <2>1
  <2> QED
    BY <1>1, <2>1, <2>2 DEF Refuse, To, PathAsProbed, Binding
<1>5. CASE WritePidFile(d)
  <2>1. socket = d /\ socket # None
    BY <1>5, DaemonLifeAssumption
    DEF WritePidFile, SocketIsItsOwners, Bound, Accepting
  <2>2. stage' = [stage EXCEPT ![d] = "restoring"] /\ UNCHANGED <<startLock, socket>>
    BY <1>5, <2>1 DEF WritePidFile, To
  <2>3. \A e \in Daemons : stage'[e] \notin Binding
    BY <1>1, <2>2, <1>5 DEF WritePidFile, Binding
  <2> QED
    BY <1>1, <2>2, <2>3 DEF Refuse, To, PathAsProbed, Binding
<1> QED
  BY <1>2, <1>3, <1>4, <1>5

(* Every other step of a daemon or a kill-server leaves the path as it was *)
(* probed.                                                                 *)
LEMMA PathStays ==
  ASSUME IInv, SocketIsItsOwners, PathAsProbed, NoneCleared, NoneCleared', [Next]_vars
  PROVE  PathAsProbed'
<1>1. /\ stage \in [Daemons -> Stages]
      /\ \A d, e \in Daemons : stage[d] \in Holding /\ stage[e] \in Holding => d = e
  BY DEF IInv, TypeOK, LockIsTheHolders
<1>2. ASSUME NEW d \in Daemons, RemoveSocket(d)
      PROVE  PathAsProbed'
  <2>1. stage[d] \in Holding /\ stage' = [stage EXCEPT ![d] = "unlinked"]
    BY <1>2 DEF RemoveSocket, To, Holding, Ending
  <2>2. \A e \in Daemons : stage'[e] \notin Binding
    BY <1>1, <2>1 DEF Holding, Binding
  <2> QED
    BY <2>2 DEF PathAsProbed, Binding
<1>3. ASSUME socket' = socket,
             \A e \in Daemons : stage'[e] \in {"stale", "binding"} => stage'[e] = stage[e]
      PROVE  PathAsProbed'
  BY <1>3 DEF PathAsProbed
<1>4. ASSUME NEW d \in Daemons,
             \/ Spawn(d) \/ AcquireStartLock(d) \/ Listen(d) \/ RestoreAllSessions(d)
             \/ Edit(d) \/ SaveSession(d) \/ Cancel(d)
             \/ CloseListener(d) \/ Drain(d) \/ StopSessions(d) \/ RemovePidFile(d)
             \/ ReleaseStartLock(d) \/ Crash(d) \/ ClientSees(d) \/ ClientGivesUp(d)
      PROVE  PathAsProbed'
  <2>1. /\ socket' = socket
        /\ \A e \in Daemons : stage'[e] \in {"stale", "binding"} => stage'[e] = stage[e]
    BY <1>1, <1>4
    DEF Spawn, AcquireStartLock, Listen, RestoreAllSessions, Edit, SaveSession, Cancel,
        CloseListener, Drain, StopSessions, RemovePidFile, ReleaseStartLock, Crash, Dies,
        ClientSees, ClientGivesUp, To, Files
  <2> QED
    BY <1>3, <2>1
<1>5. ASSUME NEW k \in Killers, KillServer(k)
      PROVE  PathAsProbed'
  <2>1. ~ClearStaleSocket(k)
    BY DEF NoneCleared, ClearStaleSocket, Kill, IInv, TypeOK
  <2>2. /\ socket' = socket
        /\ \A e \in Daemons : stage'[e] \in {"stale", "binding"} => stage'[e] = stage[e]
    BY <1>1, <1>5, <2>1
    DEF KillServer, StatSocket, DialSocket, KillDaemonProcess, Signalled, Dies, To, DaemonStopped,
        TimedOut, Files
  <2> QED
    BY <1>3, <2>2
<1>6. CASE UNCHANGED vars
  BY <1>6 DEF vars, PathAsProbed
<1> QED
  BY <1>2, <1>4, <1>5, <1>6, NobodyRefused DEF Next, Starts, Stops

(* A client gives up only where something has stopped or died: a daemon    *)
(* turned away left another that listens.                                  *)
LEMMA GivesUpDisturbed ==
  ASSUME IInv, SocketIsItsOwners, StartersServed, NoneCleared, NEW d \in Daemons, ClientGivesUp(d)
  PROVE  ~Undisturbed
<1> SUFFICES ASSUME Undisturbed PROVE FALSE
  OBVIOUS
<1>1. PICK e \in Daemons : stage[e] \in {"listening", "restoring", "serving"}
  <2>1. stage[d] \in {"refused", "listening", "restoring", "serving"}
    BY DEF ClientGivesUp, StartersServed, Undisturbed
  <2>2. CASE stage[d] = "refused"
    <3>1. startLock \in Daemons /\ stage[startLock] \in Holding
      BY <2>2 DEF StartersServed, IInv, TypeOK, MaybeDaemon, LockIsTheHolders
    <3>2. stage[startLock] \notin Binding
      BY <3>1 DEF ClientGivesUp
    <3> QED
      BY <3>1, <3>2 DEF Undisturbed, Holding, Binding, Accepting, Up, Ending
  <2> QED
    BY <2>1, <2>2
<1>2. socket = e /\ e # None
  BY <1>1, DaemonLifeAssumption DEF SocketIsItsOwners, Bound, Accepting
<1> QED
  BY <1>1, <1>2 DEF ClientGivesUp, Reachable, Accepting

(* What has stopped or died stays so, and the lock of an undisturbed start *)
(* is not given back.                                                      *)
LEMMA LockIsKept ==
  ASSUME IInv, SocketIsItsOwners, PathAsProbed, NoneCleared, NoneCleared', [Next]_vars, Undisturbed'
  PROVE  /\ Undisturbed
         /\ startLock # None => startLock' # None
         /\ \A e \in Daemons : stage'[e] = "refused" => stage[e] = "refused" \/ startLock # None
<1>1. /\ stage \in [Daemons -> Stages]
      /\ "dead" \in Gone /\ "exited" \in Gone
  BY DEF IInv, TypeOK, Gone
<1> DEFINE Goal == /\ Undisturbed
                   /\ startLock # None => startLock' # None
                   /\ \A e \in Daemons : stage'[e] = "refused" =>
                        stage[e] = "refused" \/ startLock # None
<1>2. ASSUME NEW d \in Daemons, ProbeSocket(d) \/ RemoveStale(d) \/ Bind(d) \/ WritePidFile(d)
      PROVE  Goal
  <2>1. ~Refuse(d) /\ UNCHANGED startLock
    BY <1>2, NobodyRefused
  <2>2. \E at : stage' = [stage EXCEPT ![d] = at] /\ at # "refused"
    BY <1>2, <2>1 DEF ProbeSocket, RemoveStale, Bind, WritePidFile, Refuse, To
  <2>3. stage[d] \in Binding \cup {"listening"}
    BY <1>2 DEF ProbeSocket, RemoveStale, Bind, WritePidFile, Binding
  <2>4. Undisturbed
    BY <1>1, <2>2, <2>3 DEF Undisturbed
  <2> QED
    BY <1>1, <2>1, <2>2, <2>4
<1>3. ASSUME NEW d \in Daemons, AcquireStartLock(d)
      PROVE  Goal
  <2>1. Undisturbed
    BY <1>1, <1>3 DEF AcquireStartLock, To, Undisturbed
  <2>2. startLock # None => startLock' # None
    BY <1>3 DEF AcquireStartLock
  <2>3. \A e \in Daemons : stage'[e] = "refused" => stage[e] = "refused" \/ startLock # None
    BY <1>1, <1>3 DEF AcquireStartLock, To
  <2> QED
    BY <2>1, <2>2, <2>3
<1>4. ASSUME NEW d \in Daemons,
             \/ Spawn(d) \/ Listen(d) \/ RestoreAllSessions(d) \/ Edit(d) \/ SaveSession(d)
             \/ ClientSees(d) \/ ClientGivesUp(d)
      PROVE  Goal
  <2>1. /\ startLock' = startLock
        /\ \/ stage' = stage
           \/ stage[d] = "none" /\ stage' = [stage EXCEPT ![d] = "starting"]
           \/ stage[d] = "bound" /\ stage' = [stage EXCEPT ![d] = "listening"]
           \/ stage[d] = "restoring" /\ stage' = [stage EXCEPT ![d] = "serving"]
    BY <1>4
    DEF Spawn, Listen, RestoreAllSessions, Edit, SaveSession, ClientSees, ClientGivesUp, To
  <2>2. Undisturbed
    BY <1>1, <2>1 DEF Undisturbed, Binding
  <2>3. \A e \in Daemons : stage'[e] = "refused" => stage[e] = "refused"
    BY <1>1, <2>1
  <2> QED
    BY <2>1, <2>2, <2>3
<1>5. ASSUME NEW d \in Daemons, NEW at \in {"stopping", "dead"} \cup Up \cup Ending \cup {"exited"},
             stage' = [stage EXCEPT ![d] = at], at # "serving"
      PROVE  FALSE
  BY <1>1, <1>5 DEF Undisturbed, Binding, Up, Ending
<1>6. ASSUME NEW d \in Daemons, Cancel(d) \/ Stops(d) \/ Crash(d)
      PROVE  FALSE
  BY <1>5, <1>6
  DEF Cancel, Stops, CloseListener, Drain, StopSessions, RemovePidFile, RemoveSocket,
      ReleaseStartLock, Crash, Dies, To, Up, Ending
<1>7. ASSUME NEW k \in Killers, KillServer(k)
      PROVE  Goal
  <2>1. CASE UNCHANGED <<stage, startLock>>
    BY <2>1 DEF Undisturbed
  <2>2. CASE ~UNCHANGED <<stage, startLock>>
    <3>1. pidFile \in Daemons /\ KillDaemonProcess(k)
      BY <1>7, <2>2
      DEF KillServer, StatSocket, DialSocket, KillDaemonProcess, ClearStaleSocket, DaemonStopped,
          TimedOut, IInv, TypeOK, MaybeDaemon
    <3>2. \/ stage' = [stage EXCEPT ![pidFile] = "stopping"]
          \/ stage' = [stage EXCEPT ![pidFile] = "dead"]
      BY <2>2, <3>1 DEF KillDaemonProcess, Signalled, Dies, To
    <3> QED
      BY <1>5, <3>1, <3>2
  <2> QED
    BY <2>1, <2>2
<1>8. CASE UNCHANGED vars
  BY <1>8 DEF vars, Undisturbed
<1> QED
  BY <1>2, <1>3, <1>4, <1>6, <1>7, <1>8 DEF Next, Starts

LEMMA StartersStay ==
  ASSUME IInv, SocketIsItsOwners, StartersServed, [Next]_vars
  PROVE  StartersServed'
<1>1. ASSUME NEW d \in Daemons, client'[d] = "waiting"
      PROVE  stage'[d] # "none"
  <2>1. \A e \in Daemons : stage'[e] = "none" => stage[e] = "none"
    BY DEF IInv, TypeOK, Next, Spawn, Starts, AcquireStartLock, ProbeSocket, Refuse, Listen,
           WritePidFile, RestoreAllSessions, RemoveStale, Bind, Edit, SaveSession, Cancel, Stops,
           CloseListener, Drain, StopSessions, RemovePidFile, RemoveSocket, ReleaseStartLock, Crash,
           Dies, ClientSees, ClientGivesUp, KillServer, StatSocket, DialSocket, KillDaemonProcess,
           Signalled, ClearStaleSocket, DaemonStopped, TimedOut, To, vars
  <2>2. CASE client[d] = "waiting"
    BY <2>1, <2>2 DEF StartersServed
  <2>3. CASE client[d] # "waiting"
    <3>1. PICK e \in Daemons : Spawn(e)
      BY <1>1, <2>3
      DEF IInv, TypeOK, Next, Starts, AcquireStartLock, ProbeSocket, Listen, WritePidFile,
          RestoreAllSessions, RemoveStale, Bind, Edit, SaveSession, Cancel, Stops, CloseListener,
          Drain, StopSessions, RemovePidFile, RemoveSocket, ReleaseStartLock, Crash, ClientSees,
          ClientGivesUp, KillServer, StatSocket, DialSocket, KillDaemonProcess, ClearStaleSocket,
          DaemonStopped, TimedOut, Clients, vars
    <3> QED
      BY <1>1, <2>3, <3>1 DEF Spawn, To, IInv, TypeOK
  <2> QED
    BY <2>2, <2>3
<1>2. CASE ~NoneCleared'
  BY <1>1, <1>2 DEF StartersServed
<1>3. CASE NoneCleared'
  <2>1. NoneCleared
    BY <1>3, ClearedStays
  <2>2. PathAsProbed /\ PathAsProbed'
    BY <1>3, <2>1, PathStays DEF StartersServed
  <2>3. ASSUME Undisturbed', NEW d \in Daemons
        PROVE  client'[d] # "failed" /\ (stage'[d] = "refused" => startLock' # None)
    <3>1. /\ Undisturbed
          /\ startLock # None => startLock' # None
          /\ stage'[d] = "refused" => stage[d] = "refused" \/ startLock # None
      BY <1>3, <2>1, <2>2, <2>3, LockIsKept
    <3>2. \A e \in Daemons : ~ClientGivesUp(e)
      BY <2>1, <3>1, GivesUpDisturbed
    <3>3. client'[d] = "failed" => client[d] = "failed"
      BY <3>2
      DEF IInv, TypeOK, Next, Spawn, Starts, AcquireStartLock, ProbeSocket, Listen, WritePidFile,
          RestoreAllSessions, RemoveStale, Bind, Edit, SaveSession, Cancel, Stops, CloseListener,
          Drain, StopSessions, RemovePidFile, RemoveSocket, ReleaseStartLock, Crash, ClientSees,
          KillServer, StatSocket, DialSocket, KillDaemonProcess, ClearStaleSocket,
          DaemonStopped, TimedOut, Clients, vars
    <3> QED
      BY <2>1, <3>1, <3>3 DEF StartersServed
  <2> QED
    BY <1>1, <2>2, <2>3 DEF StartersServed
<1> QED
  BY <1>2, <1>3

(* Clients that race to start a daemon all get one: a client is told that  *)
(* none could be started only where a daemon has stopped or died, as long  *)
(* as no kill-server has cleared a socket (startDaemonBackground).         *)
THEOREM NoNeedlessFailureHolds == Spec => []NoNeedlessFailure
<1>1. Init => SocketIsItsOwners /\ StartersServed
  BY DEF Init, SocketIsItsOwners, Bound, Accepting, StartersServed, PathAsProbed
<1>2. IInv /\ SocketIsItsOwners /\ [Next]_vars => SocketIsItsOwners'
  BY SocketStays
<1>3. IInv /\ SocketIsItsOwners /\ StartersServed /\ [Next]_vars => StartersServed'
  BY StartersStay
<1>4. IInv /\ StartersServed => NoNeedlessFailure
  <2> SUFFICES ASSUME IInv, StartersServed, NoneCleared, NEW d \in Daemons, client[d] = "failed"
               PROVE  \E e \in Daemons :
                        stage[e] \in Up \cup Ending \cup {"exited", "dead"} /\ stage[e] # "serving"
    BY DEF NoNeedlessFailure
  <2>1. ~Undisturbed
    BY DEF StartersServed
  <2> QED
    BY <2>1
    DEF Undisturbed, IInv, TypeOK, Stages, Holding, Binding, Accepting, Up, Ending, Gone
<1> QED
  BY Invariance, <1>1, <1>2, <1>3, <1>4, PTL DEF Spec
=============================================================================
