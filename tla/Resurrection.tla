---------------------------- MODULE Resurrection ----------------------------
(***************************************************************************)
(* The sessions of a daemon and their saved states: the registry           *)
(* (internal/session/manager.go), each session's saver and final save      *)
(* (resurrection.go, session.go) and the restore at the next start or on   *)
(* demand (daemon_resurrect.go).                                           *)
(*                                                                         *)
(* A session writes <name>.json.tmp and renames it to <name>.json.  Two    *)
(* goroutines do so: its saver, and its Stop for the final save.  Opening  *)
(* with O_TRUNC, writing and renaming are three steps, and a crash may     *)
(* come between any two of them.                                           *)
(***************************************************************************)
EXTENDS Integers

CONSTANTS
  Names,           \* session names
  Slots,           \* sessions of one daemon; a slot is reused once its session ended
  None,            \* no file, no name, no state
  Torn,            \* a file that was cut short
  Bad,             \* a file damaged from outside, or of a newer version
  Unusable,        \* a file nobody may read, or with a name no session can have
  MaxStamp,        \* bound: sessions created and changes made, in all
  MaxStarts,       \* bound: daemons started
  MaxFaults,       \* bound: failing writes and damaged files
  Restores,        \* how daemons are started; FALSE: 'tuios daemon --no-restore'
  Reuse            \* a name may be taken again while its kill is under way

ASSUME ResurrectionAssumption ==
  /\ None \notin Names
  /\ {MaxStamp, MaxStarts, MaxFaults} \subseteq Nat
  /\ Restores \subseteq BOOLEAN /\ Reuse \in BOOLEAN

(* What a session holds, or a whole file: the session it goes back to, its *)
(* last change (0: none yet), and whether it has windows to bring back.    *)
Contents == [line : 1..MaxStamp, ver : 0..MaxStamp, open : BOOLEAN]
Files    == Contents \cup {None, Torn, Bad, Unusable}

ASSUME FilesAssumption ==
  /\ None # Torn /\ None # Bad /\ Torn # Bad /\ Unusable \notin {None, Torn, Bad}
  /\ \A f \in {None, Torn, Bad, Unusable} : f \notin Contents

(* The goroutines of a session that save it.                               *)
Writers == {"saver", "final"}

VARIABLES
  daemon,    \* "down", "restoring", "up", "stopping"
  pending,   \* names whose file the restore has still to look at
  phase,     \* slot -> "free", "live", or how far its Stop is
  fate,      \* slot -> why it stops: "kill" or "shutdown"
  name,      \* slot -> its session's name
  content,   \* slot -> what its session holds
  filling,   \* slot -> the saved state a restore has still to put into it
  dirty,     \* slot -> stateDirty
  failed,    \* slot -> its last save failed
  pc,        \* slot -> writer -> how far it is with a save
  buf,       \* slot -> writer -> the state it took
  tmp,       \* name -> <name>.json.tmp
  disk,      \* name -> <name>.json
  clock,     \* stamps given out
  starts,    \* daemons started
  faults,    \* writes failed and files damaged
  killed     \* history: names killed and not used since

vars == <<daemon, pending, phase, fate, name, content, filling, dirty, failed,
          pc, buf, tmp, disk, clock, starts, faults, killed>>

Sessions == <<phase, fate, name, content, filling, dirty, failed>>
Saves    == <<pc, buf>>
Disk     == <<tmp, disk>>
Daemon   == <<daemon, pending, starts>>
Counts   == <<clock, faults>>

Named(n)  == {s \in Slots : phase[s] # "free" /\ name[s] = n}
Live(n)   == {s \in Named(n) : phase[s] = "live"}
Killing(n) == {s \in Named(n) : phase[s] # "live" /\ fate[s] = "kill"}
Restoring == {s \in Slots : filling[s] # None}

Init ==
  /\ daemon = "down" /\ pending = {}
  /\ phase = [s \in Slots |-> "free"] /\ fate = [s \in Slots |-> "kill"]
  /\ name = [s \in Slots |-> None]
  /\ content = [s \in Slots |-> None]
  /\ filling = [s \in Slots |-> None]
  /\ dirty = [s \in Slots |-> FALSE] /\ failed = [s \in Slots |-> FALSE]
  /\ pc = [s \in Slots |-> [w \in Writers |-> "idle"]]
  /\ buf = [s \in Slots |-> [w \in Writers |-> None]]
  /\ tmp = [n \in Names |-> None] /\ disk = [n \in Names |-> None]
  /\ clock = 0 /\ starts = 0 /\ faults = 0 /\ killed = {}

-----------------------------------------------------------------------------
(* The registry.                                                           *)

(* NewSession, registered; its saver starts clean.                         *)
Register(s, n, c, toFill) ==
  /\ phase[s] = "free" /\ Live(n) = {}
  /\ Reuse \/ Killing(n) = {}
  /\ phase' = [phase EXCEPT ![s] = "live"]
  /\ name' = [name EXCEPT ![s] = n]
  /\ content' = [content EXCEPT ![s] = c]
  /\ filling' = [filling EXCEPT ![s] = toFill]
  /\ dirty' = [dirty EXCEPT ![s] = FALSE]
  /\ failed' = [failed EXCEPT ![s] = FALSE]
  /\ killed' = killed \ {n}
  /\ UNCHANGED fate

(* The user's name for it, or GenerateSessionName's: the lowest session-N   *)
(* that is not live.                                                       *)
Create(s, n) ==
  /\ daemon = "up" /\ clock < MaxStamp
  /\ Register(s, n, [line |-> clock + 1, ver |-> 0, open |-> FALSE], None)
  /\ clock' = clock + 1
  /\ UNCHANGED <<Daemon, Saves, Disk, faults>>

(* UpdateState and mutateState: windows open, change, and close.           *)
Mutate(s) ==
  /\ daemon = "up" /\ phase[s] = "live" /\ clock < MaxStamp
  /\ \E o \in BOOLEAN :
       content' = [content EXCEPT ![s] = [@ EXCEPT !.ver = clock + 1, !.open = o]]
  /\ dirty' = [dirty EXCEPT ![s] = TRUE]
  /\ clock' = clock + 1
  /\ UNCHANGED <<Daemon, phase, fate, name, filling, failed, Saves, Disk,
                 faults, killed>>

\* Mutant: the saved state removed as the session leaves the registry, before
\* its Stop has saved it a last time.
KillRemovingFirst(s) ==
  /\ daemon = "up" /\ phase[s] = "live" /\ filling[s] = None
  /\ phase' = [phase EXCEPT ![s] = "stopping"]
  /\ fate' = [fate EXCEPT ![s] = "shutdown"]
  /\ disk' = [disk EXCEPT ![name[s]] = None]
  /\ killed' = killed \cup {name[s]}
  /\ UNCHANGED <<Daemon, name, content, filling, dirty, failed, Saves, tmp, Counts>>

(* DeleteSession takes it off the registry, then stops it.                 *)
Kill(s) ==
  /\ daemon = "up" /\ phase[s] = "live" /\ filling[s] = None
  /\ phase' = [phase EXCEPT ![s] = "stopping"]
  /\ fate' = [fate EXCEPT ![s] = "kill"]
  /\ UNCHANGED <<Daemon, name, content, filling, dirty, failed, Saves, Disk,
                 Counts, killed>>

(* Manager.Shutdown takes all of them off the registry and stops them one  *)
(* by one, once the handlers are done.                                     *)
Shutdown ==
  /\ daemon = "up" /\ Restoring = {} /\ \A n \in Names : Killing(n) = {}
  /\ daemon' = "stopping"
  /\ phase' = [s \in Slots |-> IF phase[s] = "live" THEN "queued" ELSE phase[s]]
  /\ fate' = [s \in Slots |-> IF phase[s] = "live" THEN "shutdown" ELSE fate[s]]
  /\ UNCHANGED <<pending, starts, name, content, filling, dirty, failed, Saves,
                 Disk, Counts, killed>>

NextInQueue(s) ==
  /\ phase[s] = "queued"
  /\ \A t \in Slots : phase[t] \in {"free", "queued"}
  /\ phase' = [phase EXCEPT ![s] = "stopping"]
  /\ UNCHANGED <<Daemon, fate, name, content, filling, dirty, failed, Saves,
                 Disk, Counts, killed>>

-----------------------------------------------------------------------------
(* One save, of either writer.                                             *)

At(s, w, where) == pc' = [pc EXCEPT ![s][w] = where]

(* A tick of the saver: changed since the last one, or 30 seconds later.   *)
(* A stopping session's saver may take a tick before it sees it should end.*)
Tick(s, due) ==
  /\ phase[s] \in {"live", "queued", "stopping"} /\ pc[s]["saver"] = "idle"
  /\ dirty[s] \/ (due /\ filling[s] = None)
  /\ dirty' = [dirty EXCEPT ![s] = FALSE]
  /\ At(s, "saver", "taken")
  /\ UNCHANGED <<Daemon, phase, fate, name, content, filling, failed, buf,
                 Disk, Counts, killed>>

\* Mutant: the interval counts only for a session that changed.
TickWhenChanged(s) == Tick(s, FALSE)

TickWhenDue(s) == Tick(s, TRUE)

\* Mutant: Stop holds the state lock while it waits for the saver, which needs
\* it to read the state.
ReadStateLockedOut(s, w) ==
  /\ pc[s][w] = "taken" /\ (w = "saver" => phase[s] # "stopping")
  /\ buf' = [buf EXCEPT ![s][w] = content[s]]
  /\ At(s, w, "read")
  /\ UNCHANGED <<Daemon, Sessions, Disk, Counts, killed>>

(* ResurrectionState, under the state lock.                                *)
ReadState(s, w) ==
  /\ pc[s][w] = "taken"
  /\ buf' = [buf EXCEPT ![s][w] = content[s]]
  /\ At(s, w, "read")
  /\ UNCHANGED <<Daemon, Sessions, Disk, Counts, killed>>

(* WriteFile opens with O_TRUNC ...                                        *)
OpenTmp(s, w) ==
  /\ pc[s][w] = "read"
  /\ tmp' = [tmp EXCEPT ![name[s]] = Torn]
  /\ At(s, w, "open")
  /\ UNCHANGED <<Daemon, Sessions, buf, disk, Counts, killed>>

(* ... and writes.  Another writer of the name may have written the file   *)
(* meanwhile, or renamed it away under this one's descriptor.              *)
WriteTmp(s, w) ==
  LET n == name[s] IN
  /\ pc[s][w] = "open"
  /\ \/ tmp[n] = Torn /\ tmp' = [tmp EXCEPT ![n] = buf[s][w]] /\ UNCHANGED disk
     \/ /\ tmp[n] \in Contents
        /\ \E c \in {buf[s][w], Torn} : tmp' = [tmp EXCEPT ![n] = c]
        /\ UNCHANGED disk
     \/ /\ tmp[n] = None
        /\ \E c \in {disk[n], buf[s][w], Torn} : disk' = [disk EXCEPT ![n] = c]
        /\ UNCHANGED tmp
  /\ At(s, w, "written")
  /\ UNCHANGED <<Daemon, Sessions, buf, Counts, killed>>

(* A save is over; after the final one, Stop is.                           *)
Saved(s, w, fails) ==
  /\ failed' = [failed EXCEPT ![s] = fails]
  /\ At(s, w, "idle") /\ buf' = [buf EXCEPT ![s][w] = None]
  /\ phase' = IF w = "final" THEN [phase EXCEPT ![s] = "stopped"] ELSE phase
  /\ UNCHANGED <<Daemon, fate, name, content, filling, clock, killed>>

Renames(s, w) ==
  LET n == name[s] IN
  /\ pc[s][w] = "written"
  /\ IF tmp[n] = None
     THEN UNCHANGED Disk /\ Saved(s, w, TRUE)
     ELSE /\ disk' = [disk EXCEPT ![n] = tmp[n]]
          /\ tmp' = [tmp EXCEPT ![n] = None]
          /\ Saved(s, w, FALSE)
  /\ UNCHANGED faults

\* Mutant: the session marked clean when its save is done.
RenameTmpThenClean(s, w) == Renames(s, w) /\ dirty' = [dirty EXCEPT ![s] = FALSE]

RenameTmp(s, w) == Renames(s, w) /\ UNCHANGED dirty

(* No directory, no space, no rename: the error is logged.  A failed       *)
(* rename takes the tmp file along, a failed write leaves it.              *)
SaveFails(s, w) ==
  /\ pc[s][w] \in {"read", "open", "written"} /\ faults < MaxFaults
  /\ faults' = faults + 1
  /\ tmp' = IF pc[s][w] = "written" THEN [tmp EXCEPT ![name[s]] = None] ELSE tmp
  /\ Saved(s, w, TRUE)
  /\ UNCHANGED <<dirty, disk>>

-----------------------------------------------------------------------------
(* Session.Stop.                                                           *)

\* Mutant: the saver told to stop and not waited for.
StopSaverUnwaited(s) ==
  /\ phase[s] = "stopping"
  /\ phase' = [phase EXCEPT ![s] = "final"]
  /\ At(s, "final", "taken")
  /\ UNCHANGED <<Daemon, fate, name, content, filling, dirty, failed, buf,
                 Disk, Counts, killed>>

\* Mutant: no final save for a session that is not marked dirty.
StopSaverSkipsClean(s) ==
  /\ phase[s] = "stopping" /\ pc[s]["saver"] = "idle"
  /\ IF dirty[s]
     THEN phase' = [phase EXCEPT ![s] = "final"] /\ At(s, "final", "taken")
     ELSE phase' = [phase EXCEPT ![s] = "stopped"] /\ UNCHANGED pc
  /\ UNCHANGED <<Daemon, fate, name, content, filling, dirty, failed, buf,
                 Disk, Counts, killed>>

(* The saver has returned; the final save begins.                          *)
StopSaver(s) ==
  /\ phase[s] = "stopping" /\ pc[s]["saver"] = "idle"
  /\ phase' = [phase EXCEPT ![s] = "final"]
  /\ At(s, "final", "taken")
  /\ UNCHANGED <<Daemon, fate, name, content, filling, dirty, failed, buf,
                 Disk, Counts, killed>>

(* The session has ended; a killed one takes its file along.               *)
Ended(s) ==
  /\ phase[s] = "stopped"
  /\ phase' = [phase EXCEPT ![s] = "free"]
  /\ fate' = [fate EXCEPT ![s] = "kill"]
  /\ name' = [name EXCEPT ![s] = None]
  /\ content' = [content EXCEPT ![s] = None]
  /\ dirty' = [dirty EXCEPT ![s] = FALSE]
  /\ failed' = [failed EXCEPT ![s] = FALSE]
  /\ IF fate[s] = "kill"
     THEN /\ disk' = [disk EXCEPT ![name[s]] = None]
          /\ killed' = IF Live(name[s]) = {} THEN killed \cup {name[s]} ELSE killed
     ELSE UNCHANGED <<disk, killed>>
  /\ UNCHANGED <<Daemon, filling, Saves, tmp, Counts>>

-----------------------------------------------------------------------------
(* A daemon ends and the next one starts.                                  *)

Free ==
  /\ phase' = [s \in Slots |-> "free"] /\ fate' = [s \in Slots |-> "kill"]
  /\ name' = [s \in Slots |-> None] /\ content' = [s \in Slots |-> None]
  /\ filling' = [s \in Slots |-> None]
  /\ dirty' = [s \in Slots |-> FALSE] /\ failed' = [s \in Slots |-> FALSE]
  /\ pc' = [s \in Slots |-> [w \in Writers |-> "idle"]]
  /\ buf' = [s \in Slots |-> [w \in Writers |-> None]]

Exit ==
  /\ daemon = "stopping" /\ \A s \in Slots : phase[s] = "free"
  /\ daemon' = "down"
  /\ UNCHANGED <<pending, starts, Sessions, Saves, Disk, Counts, killed>>

(* SIGKILL, or SIGTERM before signals are handled.                         *)
Crash ==
  /\ daemon # "down"
  /\ daemon' = "down" /\ pending' = {} /\ Free
  /\ UNCHANGED <<starts, Disk, Counts, killed>>

(* Something outside the program spoils a file.                            *)
Damage(n) ==
  /\ daemon = "down" /\ disk[n] \in Contents /\ faults < MaxFaults
  /\ \E f \in {Bad, Unusable} : disk' = [disk EXCEPT ![n] = f]
  /\ faults' = faults + 1
  /\ UNCHANGED <<Daemon, Sessions, Saves, tmp, clock, killed>>

(* CleanResurrectionDir, then the files there are.                         *)
Start(restore) ==
  /\ daemon = "down" /\ starts < MaxStarts /\ starts' = starts + 1
  /\ tmp' = [n \in Names |-> None]
  /\ daemon' = "restoring"
  /\ pending' = IF restore THEN {n \in Names : disk[n] # None} ELSE {}
  /\ UNCHANGED <<Sessions, Saves, disk, Counts, killed>>

(* A file that cannot be made sense of goes to the archive, one with       *)
(* nothing to bring back is removed.                                       *)
Discard(n) ==
  /\ daemon = "restoring" /\ n \in pending /\ Restoring = {}
  /\ disk[n] # Unusable
  /\ disk[n] \in Contents => ~disk[n].open
  /\ disk' = [disk EXCEPT ![n] = None]
  /\ pending' = pending \ {n}
  /\ UNCHANGED <<daemon, starts, Sessions, Saves, tmp, Counts, killed>>

(* Any other file that cannot be loaded or restored is logged, and stays:  *)
(* the loop goes on to the next.                                           *)
RestoreRefused(n) ==
  /\ daemon = "restoring" /\ n \in pending /\ Restoring = {}
  /\ disk[n] = Unusable
  /\ pending' = pending \ {n}
  /\ UNCHANGED <<daemon, starts, Sessions, Saves, Disk, Counts, killed>>

(* restoreSession: a session is created, then takes over the saved state.  *)
RestoreInto(s, n) ==
  /\ disk[n] \in Contents /\ disk[n].open
  /\ Register(s, n, [disk[n] EXCEPT !.ver = 0, !.open = FALSE], disk[n])
  /\ UNCHANGED <<daemon, starts, Saves, Disk, Counts>>

Restore(s, n) ==
  /\ daemon = "restoring" /\ n \in pending /\ Restoring = {}
  /\ pending' = pending \ {n}
  /\ RestoreInto(s, n)

(* handleResurrect: a file that makes no sense goes to the archive, one    *)
(* that is empty or unusable stays and is refused.                         *)
Resurrect(s, n) ==
  /\ daemon = "up" /\ Live(n) = {}
  /\ UNCHANGED pending
  /\ \/ RestoreInto(s, n)
     \/ /\ disk[n] \in {Torn, Bad}
        /\ disk' = [disk EXCEPT ![n] = None]
        /\ UNCHANGED <<daemon, starts, Sessions, Saves, tmp, Counts, killed>>

(* UpdateState with the saved state, less the windows whose shell did not  *)
(* start, and MarkRestored.                                                *)
FillSession(s) ==
  /\ filling[s] # None
  /\ \/ content' = [content EXCEPT ![s] = filling[s]] /\ UNCHANGED clock
     \/ /\ clock < MaxStamp /\ clock' = clock + 1
        /\ \E o \in BOOLEAN : content' =
             [content EXCEPT ![s] = [filling[s] EXCEPT !.ver = clock + 1, !.open = o]]
  /\ filling' = [filling EXCEPT ![s] = None]
  /\ dirty' = [dirty EXCEPT ![s] = TRUE]
  /\ UNCHANGED <<Daemon, phase, fate, name, failed, Saves, Disk, faults, killed>>

\* Mutant: clients are accepted while the restore goes on.
ServeEarly ==
  /\ daemon = "restoring"
  /\ daemon' = "up"
  /\ UNCHANGED <<pending, starts, Sessions, Saves, Disk, Counts, killed>>

(* Signals are handled and clients accepted.                               *)
Serve ==
  /\ daemon = "restoring" /\ pending = {} /\ Restoring = {}
  /\ daemon' = "up"
  /\ UNCHANGED <<pending, starts, Sessions, Saves, Disk, Counts, killed>>

-----------------------------------------------------------------------------
Next ==
  \/ \E s \in Slots, n \in Names : Create(s, n) \/ Restore(s, n) \/ Resurrect(s, n)
  \/ \E s \in Slots :
       \/ Mutate(s) \/ Kill(s) \/ NextInQueue(s) \/ StopSaver(s) \/ Ended(s)
       \/ FillSession(s) \/ TickWhenDue(s)
  \/ \E s \in Slots, w \in Writers :
       ReadState(s, w) \/ OpenTmp(s, w) \/ WriteTmp(s, w) \/ RenameTmp(s, w) \/ SaveFails(s, w)
  \/ \E n \in Names : Damage(n) \/ Discard(n) \/ RestoreRefused(n)
  \/ \E restore \in Restores : Start(restore)
  \/ Shutdown \/ Exit \/ Crash \/ Serve

(* Goroutines run, system calls return, tickers tick.  Clients, signals,   *)
(* crashes and starts come as they please.  A saver told to stop chooses   *)
(* at random between that and a tick that is ready too, so not every time  *)
(* the tick: strong fairness.                                              *)
Fairness ==
  /\ \A s \in Slots :
       /\ WF_vars(TickWhenDue(s)) /\ SF_vars(StopSaver(s)) /\ WF_vars(FillSession(s))
       /\ WF_vars(NextInQueue(s) \/ Ended(s))
  /\ \A s \in Slots : \A w \in Writers :
       WF_vars(ReadState(s, w) \/ OpenTmp(s, w) \/ WriteTmp(s, w) \/ RenameTmp(s, w))
  /\ WF_vars(\/ Exit \/ Serve
             \/ \E n \in Names :
                  Discard(n) \/ RestoreRefused(n) \/ \E s \in Slots : Restore(s, n))

Spec     == Init /\ [][Next]_vars
FairSpec == Spec /\ Fairness

-----------------------------------------------------------------------------
(* Every variable keeps its type.                                          *)
TypeOK ==
  /\ daemon \in {"down", "restoring", "up", "stopping"}
  /\ pending \subseteq Names /\ killed \subseteq Names
  /\ phase \in [Slots -> {"free", "live", "queued", "stopping", "final", "stopped"}]
  /\ fate \in [Slots -> {"kill", "shutdown"}]
  /\ name \in [Slots -> Names \cup {None}]
  /\ content \in [Slots -> Contents \cup {None}]
  /\ filling \in [Slots -> Contents \cup {None}]
  /\ dirty \in [Slots -> BOOLEAN] /\ failed \in [Slots -> BOOLEAN]
  /\ pc \in [Slots -> [Writers -> {"idle", "taken", "read", "open", "written"}]]
  /\ buf \in [Slots -> [Writers -> Contents \cup {None}]]
  /\ tmp \in [Names -> Contents \cup {None, Torn}]
  /\ disk \in [Names -> Files]
  /\ clock \in 0..MaxStamp /\ starts \in 0..MaxStarts /\ faults \in 0..MaxFaults

(* A saved state is never half a state, whenever the daemon dies and       *)
(* however saver and final save meet: they share one tmp file, which is    *)
(* why Stop waits for the saver (StartPeriodicSave's stop function).       *)
SavedIsWhole == \A n \in Names : disk[n] # Torn

(* The state a session's saver or final save has taken and not yet put in  *)
(* place, None if neither has one.                                         *)
Taken(s) ==
  LET Has(w) == pc[s][w] \in {"read", "open", "written"}
  IN  IF Has("final") THEN buf[s]["final"] ELSE IF Has("saver") THEN buf[s]["saver"] ELSE None

Store == INSTANCE SavedStates WITH
  owner <- [s \in Slots |-> IF phase[s] = "free" THEN None ELSE name[s]],
  held  <- [s \in Slots |-> IF phase[s] = "free" THEN None ELSE content[s]],
  taken <- [s \in Slots |-> Taken(s)],
  saved <- disk,
  Spoilt <- {Bad, Unusable}

(* Opening, writing and renaming, by two writers of one tmp file and with  *)
(* a crash between any two steps, come to one step that replaces a saved   *)
(* state by what its session held at one moment; nothing else but a kill,  *)
(* the restore or damage from outside touches what is saved.               *)
SavesAreAtomic == Store!Spec

(* A session with nothing marked dirty, no save under way and its last     *)
(* save not failed has its last change on disk: no change falls between    *)
(* the swap of the mark and the reading of the state.                      *)
Quiet(s) ==
  /\ phase[s] = "live" /\ content[s].ver # 0
  /\ ~dirty[s] /\ ~failed[s] /\ pc[s]["saver"] = "idle"

QuietMeansSaved == \A s \in Slots : Quiet(s) => disk[name[s]] = content[s]

(* A session that was stopped is on disk as it last was, unless its final  *)
(* save failed; a kill removes that file only now.                         *)
StoppedIsSaved ==
  \A s \in Slots : phase[s] = "stopped" /\ ~failed[s] => disk[name[s]] = content[s]

(* A session killed for good has no saved state that a later start could   *)
(* bring it back from (DeleteSession: the file goes after the final save). *)
KilledStaysKilled == \A n \in killed : disk[n] = None

(* A saved state that can be brought back gives way only to a later one of *)
(* the same session, or to its kill.                                       *)
SavedLeftAlone ==
  [][\A n \in Names :
       \/ disk[n] \notin Contents \/ disk'[n] \in {disk[n], Bad, Unusable}
       \/ ~disk[n].open \/ Killing(n) # {}
       \/ disk'[n] \in Contents /\ disk'[n].line = disk[n].line]_vars

(* What changed in a session stays changed: no restore puts an older state *)
(* over it.                                                                *)
ChangesStay ==
  [][\A s \in Slots :
       phase[s] = "live" /\ phase'[s] = "live" => content'[s].ver >= content[s].ver]_vars

(* Restores and saves of a session meet without losing what is newer, on   *)
(* disk and in the live session: the daemon restores before it listens and *)
(* starts no saver for a session that is still to be filled.               *)
RestoreKeeps == SavedLeftAlone /\ ChangesStay

(* The last change of a session that lives on reaches the disk, failed     *)
(* saves or not: the interval saves what the mark no longer asks for.      *)
EventuallySaved ==
  \A s \in Slots :
    phase[s] = "live" /\ content[s].ver # 0
      ~> phase[s] # "live" \/ disk[name[s]] = content[s]

(* A start comes to an end, whatever files it meets, and so does a         *)
(* shutdown, whatever its sessions' savers are at: each Stop waits for its *)
(* saver, and each session for the Stop of the one before.                 *)
ComesUpAndGoesDown ==
  /\ daemon = "restoring" ~> daemon # "restoring"
  /\ daemon = "stopping" ~> daemon # "stopping"
=============================================================================
