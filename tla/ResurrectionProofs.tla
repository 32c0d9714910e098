------------------------- MODULE ResurrectionProofs -------------------------
(***************************************************************************)
(* Proofs about Resurrection, for any names, slots, bounds and ways to     *)
(* start, as long as no name is taken again while its kill is under way    *)
(* (run ResurrectionReuse shows what happens if one is).                   *)
(*                                                                         *)
(* The argument: a name belongs to one session at a time (NamesApart), and *)
(* of its two writers one is under way at a time (WritersInTurn), so the   *)
(* tmp file is what that writer made it (TmpFollows) and what it took is   *)
(* what the session holds, or the session is marked dirty (BufFollows).    *)
(* For restoring: what a session or a writer at work holds of a line is    *)
(* what is on disk, and a session still being filled has had no change of  *)
(* its own (Brought).                                                      *)
(***************************************************************************)
EXTENDS Resurrection, TLAPS

Saving == {"read", "open", "written"}

NamesApart ==
  \A s, t \in Slots :
    phase[s] # "free" /\ phase[t] # "free" /\ name[s] = name[t] => s = t

Held ==
  \A s \in Slots :
    /\ phase[s] # "free" => name[s] \in Names /\ content[s] \in Contents
    /\ filling[s] # None => phase[s] = "live"

(* A shutdown and a session stopped by one go together; a daemon that is   *)
(* down has no session; what a restore waits for has none yet.             *)
Lifetimes ==
  /\ \A s \in Slots :
       /\ phase[s] \notin {"free", "live"} => fate[s] = "kill" \/ daemon = "stopping"
       /\ daemon = "down" => phase[s] = "free"
       /\ phase[s] # "free" => name[s] \notin pending
  /\ daemon # "restoring" => pending = {}

WritersInTurn ==
  \A s \in Slots :
    /\ pc[s]["saver"] # "idle" => phase[s] \in {"live", "queued", "stopping"}
    /\ pc[s]["final"] # "idle" => phase[s] = "final"

TmpFollows ==
  \A s \in Slots, w \in Writers :
    /\ pc[s][w] \in Saving => buf[s][w] \in Contents
    /\ pc[s][w] = "open" => tmp[name[s]] = Torn
    /\ pc[s][w] = "written" => tmp[name[s]] = buf[s][w]

BufFollows ==
  \A s \in Slots :
    /\ pc[s]["saver"] \in Saving /\ ~dirty[s] => buf[s]["saver"] = content[s]
    /\ pc[s]["final"] \in Saving => buf[s]["final"] = content[s]

KilledAreGone == \A n \in killed, s \in Slots : phase[s] # "free" => name[s] # n

Registry == Held /\ NamesApart /\ Lifetimes /\ WritersInTurn /\ KilledAreGone
OnDisk   == SavedIsWhole /\ QuietMeansSaved /\ StoppedIsSaved /\ KilledStaysKilled

IInv == TypeOK /\ Registry /\ TmpFollows /\ BufFollows /\ OnDisk

-----------------------------------------------------------------------------
LEMMA InitHolds == Init => IInv
<1> SUFFICES ASSUME Init PROVE IInv
  OBVIOUS
<1> USE ResurrectionAssumption, FilesAssumption DEF Init
<1>1. TypeOK
  BY DEF TypeOK, Files, Writers
<1>2. Registry
  BY DEF Registry, Held, NamesApart, Lifetimes, WritersInTurn, KilledAreGone, Writers
<1>3. TmpFollows /\ BufFollows
  BY DEF TmpFollows, BufFollows, Writers, Saving
<1>4. OnDisk
  BY DEF OnDisk, SavedIsWhole, QuietMeansSaved, StoppedIsSaved, Quiet, KilledStaysKilled
<1> QED
  BY <1>1, <1>2, <1>3, <1>4 DEF IInv

(* A change keeps what a session goes back to.                             *)
LEMMA ChangedContents ==
  ASSUME NEW c \in Contents, NEW v \in 0..MaxStamp, NEW o \in BOOLEAN
  PROVE  /\ [c EXCEPT !.ver = v, !.open = o] \in Contents
         /\ [c EXCEPT !.ver = v, !.open = o].ver = v
  BY DEF Contents

(* A slot nobody uses has no writer under way.                             *)
LEMMA FreeIsIdle ==
  ASSUME Registry, NEW s \in Slots, phase[s] = "free", NEW w \in Writers
  PROVE  pc[s][w] = "idle"
  BY DEF Registry, WritersInTurn, Writers

(* Two saves under way are of two names.                                   *)
LEMMA OneWriterPerName ==
  ASSUME IInv, NEW s \in Slots, NEW t \in Slots, NEW v \in Writers, NEW w \in Writers,
         pc[s][v] # "idle", pc[t][w] # "idle", name[s] = name[t]
  PROVE  s = t /\ v = w
  BY DEF IInv, Registry, NamesApart, WritersInTurn, Writers

(* A session enters the registry, created or restored.                     *)
LEMMA RegisterHolds ==
  ASSUME ~Reuse, IInv, NEW s \in Slots, NEW n \in Names, NEW c \in Contents, c.ver = 0,
         NEW toFill \in Contents \cup {None}, Register(s, n, c, toFill),
         daemon \in {"restoring", "up"}, pending' \subseteq pending, n \notin pending',
         clock' \in 0..MaxStamp, UNCHANGED <<daemon, starts, Saves, Disk, faults>>
  PROVE  IInv'
<1> USE ResurrectionAssumption, FilesAssumption DEF IInv, Saves, Disk
<1>1. /\ phase[s] = "free" /\ Named(n) = {} /\ UNCHANGED fate
      /\ phase' = [phase EXCEPT ![s] = "live"] /\ name' = [name EXCEPT ![s] = n]
      /\ content' = [content EXCEPT ![s] = c] /\ filling' = [filling EXCEPT ![s] = toFill]
      /\ dirty' = [dirty EXCEPT ![s] = FALSE] /\ failed' = [failed EXCEPT ![s] = FALSE]
      /\ killed' = killed \ {n}
  BY DEF Register, Live, Killing, Named, Registry, Lifetimes
<1>2. TypeOK'
  BY <1>1 DEF TypeOK
<1>3. \A t \in Slots : phase[t] # "free" => name[t] # n
  BY <1>1 DEF Named
<1>4. Registry'
  BY <1>1, <1>3
  DEF TypeOK, Registry, Held, NamesApart, Lifetimes, WritersInTurn, KilledAreGone
<1>5. \A w \in Writers : pc[s][w] = "idle"
  BY <1>1, FreeIsIdle
<1>6. TmpFollows' /\ BufFollows'
  BY <1>1, <1>5 DEF TmpFollows, BufFollows, Saving, Writers
<1>7. OnDisk'
  BY <1>1
  DEF TypeOK, OnDisk, SavedIsWhole, QuietMeansSaved, StoppedIsSaved, Quiet, KilledStaysKilled
<1> QED
  BY <1>2, <1>4, <1>6, <1>7

LEMMA CreateHolds ==
  ASSUME ~Reuse, IInv, NEW s \in Slots, NEW n \in Names, Create(s, n) PROVE IInv'
<1>1. [line |-> clock + 1, ver |-> 0, open |-> FALSE] \in Contents /\ clock' \in 0..MaxStamp
  BY ResurrectionAssumption DEF Create, IInv, TypeOK, Contents
<1>2. n \notin pending' /\ pending' \subseteq pending
  BY DEF Create, Daemon, IInv, Registry, Lifetimes
<1> QED
  BY <1>1, <1>2, RegisterHolds DEF Create, Daemon

LEMMA MutateHolds ==
  ASSUME ~Reuse, IInv, NEW s \in Slots, Mutate(s) PROVE IInv'
<1> USE ResurrectionAssumption, FilesAssumption
    DEF IInv, Mutate, Sessions, Saves, Disk, Daemon, Counts
<1>0. PICK o \in BOOLEAN :
        content' = [content EXCEPT ![s] = [content[s] EXCEPT !.ver = clock + 1, !.open = o]]
  OBVIOUS
<1>a. content[s] \in Contents /\ clock + 1 \in 0..MaxStamp
  BY DEF TypeOK, Registry, Held
<1>b. /\ content'[s] \in Contents
      /\ content' = [content EXCEPT ![s] = content'[s]]
  BY <1>0, <1>a, ChangedContents DEF TypeOK
<1>1. TypeOK'
  <2>1. content' \in [Slots -> Contents \cup {None}]
    BY <1>b DEF TypeOK
  <2> QED
    BY <1>a, <2>1 DEF TypeOK
<1>2. Registry'
  <2>1. content'[s] \in Contents /\ \A t \in Slots : t # s => content'[t] = content[t]
    BY <1>b DEF TypeOK
  <2> QED
    BY <2>1 DEF Registry, Held, NamesApart, Lifetimes, WritersInTurn, KilledAreGone
<1>3. TmpFollows'
  BY DEF TmpFollows
<1>4. BufFollows'
  BY DEF TypeOK, BufFollows, Registry, WritersInTurn, Saving
<1>5. OnDisk'
  BY DEF TypeOK, OnDisk, SavedIsWhole, QuietMeansSaved, StoppedIsSaved, Quiet, KilledStaysKilled
<1> QED
  BY <1>1, <1>2, <1>3, <1>4, <1>5

LEMMA KillHolds ==
  ASSUME ~Reuse, IInv, NEW s \in Slots, Kill(s) PROVE IInv'
<1> USE ResurrectionAssumption, FilesAssumption
    DEF IInv, Kill, Sessions, Saves, Disk, Daemon, Counts
<1>1. TypeOK'
  BY DEF TypeOK
<1>2. Registry'
  BY DEF TypeOK, Registry, Held, NamesApart, Lifetimes, WritersInTurn, KilledAreGone
<1>3. TmpFollows'
  BY DEF TmpFollows
<1>4. BufFollows'
  BY DEF BufFollows
<1>5. OnDisk'
  BY DEF OnDisk, SavedIsWhole, QuietMeansSaved, StoppedIsSaved, Quiet, KilledStaysKilled
<1> QED
  BY <1>1, <1>2, <1>3, <1>4, <1>5

LEMMA ShutdownHolds ==
  ASSUME ~Reuse, IInv, Shutdown PROVE IInv'
<1> USE ResurrectionAssumption, FilesAssumption
    DEF IInv, Shutdown, Sessions, Saves, Disk, Daemon, Counts
<1>1. TypeOK'
  BY DEF TypeOK
<1>2. Registry'
  BY DEF Registry, Held, NamesApart, Lifetimes, WritersInTurn, KilledAreGone, Restoring
<1>3. TmpFollows'
  BY DEF TmpFollows
<1>4. BufFollows'
  BY DEF BufFollows
<1>5. OnDisk'
  BY DEF OnDisk, SavedIsWhole, QuietMeansSaved, StoppedIsSaved, Quiet, KilledStaysKilled
<1> QED
  BY <1>1, <1>2, <1>3, <1>4, <1>5

LEMMA NextInQueueHolds ==
  ASSUME ~Reuse, IInv, NEW s \in Slots, NextInQueue(s) PROVE IInv'
<1> USE ResurrectionAssumption, FilesAssumption
    DEF IInv, NextInQueue, Sessions, Saves, Disk, Daemon, Counts
<1>1. TypeOK'
  BY DEF TypeOK
<1>2. Registry'
  BY DEF Registry, Held, NamesApart, Lifetimes, WritersInTurn, KilledAreGone
<1>3. TmpFollows'
  BY DEF TmpFollows
<1>4. BufFollows'
  BY DEF BufFollows
<1>5. OnDisk'
  BY DEF OnDisk, SavedIsWhole, QuietMeansSaved, StoppedIsSaved, Quiet, KilledStaysKilled
<1> QED
  BY <1>1, <1>2, <1>3, <1>4, <1>5

LEMMA TickWhenDueHolds ==
  ASSUME ~Reuse, IInv, NEW s \in Slots, TickWhenDue(s) PROVE IInv'
<1> USE ResurrectionAssumption, FilesAssumption
    DEF IInv, TickWhenDue, Tick, At, Sessions, Saves, Disk, Daemon, Counts
<1>1. TypeOK'
  BY DEF TypeOK
<1>2. Registry'
  BY DEF Registry, Held, NamesApart, Lifetimes, WritersInTurn, KilledAreGone
<1>3. TmpFollows'
  BY DEF TmpFollows, Saving
<1>4. BufFollows'
  BY DEF BufFollows, Saving
<1>5. OnDisk'
  BY DEF TypeOK, OnDisk, SavedIsWhole, QuietMeansSaved, StoppedIsSaved, Quiet, KilledStaysKilled,
         Writers
<1> QED
  BY <1>1, <1>2, <1>3, <1>4, <1>5

LEMMA ReadStateHolds ==
  ASSUME IInv, NEW s \in Slots, NEW w \in Writers, ReadState(s, w) PROVE IInv'
<1> USE ResurrectionAssumption, FilesAssumption
    DEF IInv, ReadState, At, Sessions, Saves, Disk, Daemon, Counts
<1>1. TypeOK'
  BY DEF TypeOK
<1>2. Registry'
  BY DEF Registry, Held, NamesApart, Lifetimes, WritersInTurn, KilledAreGone
<1>3. TmpFollows'
  <2>1. content[s] \in Contents
    BY DEF Registry, Held, WritersInTurn, Writers
  <2>2. \A t \in Slots, v \in Writers :
          ~(t = s /\ v = w) => pc'[t][v] = pc[t][v] /\ buf'[t][v] = buf[t][v]
    BY DEF TypeOK
  <2>3. pc'[s][w] = "read" /\ buf'[s][w] = content[s]
    BY DEF TypeOK
  <2> QED
    BY <2>1, <2>2, <2>3 DEF TmpFollows, Saving
<1>4. BufFollows'
  BY DEF TypeOK, BufFollows
<1>5. OnDisk'
  BY DEF OnDisk, SavedIsWhole, QuietMeansSaved, StoppedIsSaved, Quiet, KilledStaysKilled
<1> QED
  BY <1>1, <1>2, <1>3, <1>4, <1>5

LEMMA OpenTmpHolds ==
  ASSUME IInv, NEW s \in Slots, NEW w \in Writers, OpenTmp(s, w) PROVE IInv'
<1> USE ResurrectionAssumption, FilesAssumption
    DEF IInv, OpenTmp, At, Sessions, Saves, Disk, Daemon, Counts
<1>1. TypeOK'
  BY DEF TypeOK
<1>2. Registry'
  BY DEF Registry, Held, NamesApart, Lifetimes, WritersInTurn, KilledAreGone
<1>3. TmpFollows'
  <2>1. name[s] \in Names /\ buf[s][w] \in Contents
    BY DEF Registry, Held, WritersInTurn, Writers, TmpFollows, Saving
  <2>2. \A t \in Slots, v \in Writers : ~(t = s /\ v = w) =>
          /\ pc'[t][v] = pc[t][v] /\ buf'[t][v] = buf[t][v]
          /\ pc[t][v] # "idle" => name[t] # name[s] /\ tmp'[name[t]] = tmp[name[t]]
    BY <2>1, OneWriterPerName
  <2>3. pc'[s][w] = "open" /\ tmp'[name[s]] = Torn
    BY <2>1 DEF TypeOK
  <2> QED
    BY <2>1, <2>2, <2>3 DEF TmpFollows, Saving
<1>4. BufFollows'
  BY DEF BufFollows, Saving
<1>5. OnDisk'
  BY DEF OnDisk, SavedIsWhole, QuietMeansSaved, StoppedIsSaved, Quiet, KilledStaysKilled
<1> QED
  BY <1>1, <1>2, <1>3, <1>4, <1>5

LEMMA WriteTmpHolds ==
  ASSUME IInv, NEW s \in Slots, NEW w \in Writers, WriteTmp(s, w) PROVE IInv'
<1> USE ResurrectionAssumption, FilesAssumption
    DEF IInv, WriteTmp, At, Sessions, Saves, Disk, Daemon, Counts
<1>0. /\ name[s] \in Names /\ buf[s][w] \in Contents
      /\ tmp' = [tmp EXCEPT ![name[s]] = buf[s][w]] /\ disk' = disk
  BY DEF Registry, Held, WritersInTurn, Writers, TmpFollows, Saving
<1>1. TypeOK'
  BY <1>0 DEF TypeOK
<1>2. Registry'
  BY DEF Registry, Held, NamesApart, Lifetimes, WritersInTurn, KilledAreGone
<1>3. TmpFollows'
  <2>2. \A t \in Slots, v \in Writers : ~(t = s /\ v = w) =>
          /\ pc'[t][v] = pc[t][v] /\ buf'[t][v] = buf[t][v]
          /\ pc[t][v] # "idle" => name[t] # name[s] /\ tmp'[name[t]] = tmp[name[t]]
    BY <1>0, OneWriterPerName
  <2>3. pc'[s][w] = "written" /\ tmp'[name[s]] = buf[s][w] /\ buf' = buf
    BY <1>0 DEF TypeOK
  <2> QED
    BY <1>0, <2>2, <2>3 DEF TmpFollows, Saving
<1>4. BufFollows'
  BY DEF BufFollows, Saving
<1>5. OnDisk'
  BY DEF OnDisk, SavedIsWhole, QuietMeansSaved, StoppedIsSaved, Quiet, KilledStaysKilled, TmpFollows
<1> QED
  BY <1>1, <1>2, <1>3, <1>4, <1>5

LEMMA RenameTmpHolds ==
  ASSUME IInv, NEW s \in Slots, NEW w \in Writers, RenameTmp(s, w) PROVE IInv'
<1> USE ResurrectionAssumption, FilesAssumption DEF IInv
<1>0. /\ name[s] \in Names /\ tmp[name[s]] = buf[s][w] /\ buf[s][w] \in Contents
      /\ phase[s] \in {"live", "queued", "stopping", "final"} /\ pc[s][w] = "written"
      /\ w = "final" <=> phase[s] = "final"
  BY DEF RenameTmp, Renames, Registry, Held, WritersInTurn, Writers, TmpFollows, Saving
<1>a. /\ disk' = [disk EXCEPT ![name[s]] = buf[s][w]]
      /\ tmp' = [tmp EXCEPT ![name[s]] = None]
      /\ failed' = [failed EXCEPT ![s] = FALSE]
      /\ pc' = [pc EXCEPT ![s][w] = "idle"] /\ buf' = [buf EXCEPT ![s][w] = None]
      /\ phase' = IF w = "final" THEN [phase EXCEPT ![s] = "stopped"] ELSE phase
      /\ UNCHANGED <<daemon, pending, starts, fate, name, content, filling, clock,
                     killed, dirty, faults>>
  BY <1>0 DEF RenameTmp, Renames, Saved, At, Daemon
<1>1. TypeOK'
  <2>1. disk' \in [Names -> Files] /\ tmp' \in [Names -> Contents \cup {None, Torn}]
    BY <1>0, <1>a DEF TypeOK, Files
  <2>2. /\ pc' \in [Slots -> [Writers -> {"idle", "taken", "read", "open", "written"}]]
        /\ buf' \in [Slots -> [Writers -> Contents \cup {None}]]
    BY <1>a DEF TypeOK
  <2>3. /\ phase' \in [Slots -> {"free", "live", "queued", "stopping", "final", "stopped"}]
        /\ failed' \in [Slots -> BOOLEAN]
    BY <1>a DEF TypeOK
  <2> QED
    BY <1>a, <2>1, <2>2, <2>3 DEF TypeOK
<1>b. \A t \in Slots, v \in Writers : ~(t = s /\ v = w) =>
        /\ pc'[t][v] = pc[t][v] /\ buf'[t][v] = buf[t][v]
        /\ pc[t][v] # "idle" => name[t] # name[s] /\ tmp'[name[t]] = tmp[name[t]]
  BY <1>0, <1>a, OneWriterPerName
<1>c. pc'[s][w] = "idle" /\ \A t \in Slots : t # s => phase'[t] = phase[t]
  BY <1>a DEF TypeOK
<1>d. phase'[s] = IF w = "final" THEN "stopped" ELSE phase[s]
  BY <1>a DEF TypeOK
<1>2. Registry'
  <2>1. WritersInTurn'
    BY <1>0, <1>a, <1>b, <1>c, <1>d DEF Registry, WritersInTurn, Writers
  <2> QED
    BY <1>0, <1>a, <1>c, <1>d, <2>1
    DEF Registry, Held, NamesApart, Lifetimes, KilledAreGone
<1>3. TmpFollows'
  BY <1>a, <1>b, <1>c DEF TmpFollows, Saving
<1>4. BufFollows'
  BY <1>a, <1>b, <1>c DEF BufFollows, Saving, Writers
<1>5. OnDisk'
  <2>1. SavedIsWhole' /\ KilledStaysKilled'
    BY <1>0, <1>a
    DEF TypeOK, OnDisk, SavedIsWhole, KilledStaysKilled, Registry, KilledAreGone
  <2>2. ASSUME NEW t \in Slots, t # s, phase[t] # "free" PROVE disk'[name[t]] = disk[name[t]]
    BY <1>0, <1>a, <2>2 DEF Registry, NamesApart
  <2>3. ASSUME NEW t \in Slots, t # s
        PROVE  /\ Quiet(t)' => disk'[name'[t]] = content'[t]
               /\ phase'[t] = "stopped" /\ ~failed'[t] => disk'[name'[t]] = content'[t]
    <3>1. /\ failed'[t] = failed[t] /\ phase'[t] = phase[t] /\ name' = name
          /\ pc'[t]["saver"] = pc[t]["saver"] /\ dirty' = dirty /\ content' = content
      BY <1>a, <1>b, <1>c, <2>3 DEF TypeOK, Writers
    <3> QED
      BY <2>2, <2>3, <3>1 DEF OnDisk, QuietMeansSaved, StoppedIsSaved, Quiet
  <2>4. disk'[name[s]] = buf[s][w]
    BY <1>0, <1>a DEF TypeOK
  <2>5. Quiet(s)' => buf[s][w] = content[s]
    BY <1>0, <1>a, <1>d DEF Quiet, BufFollows, Saving, Writers
  <2>6. phase'[s] = "stopped" => buf[s][w] = content[s]
    BY <1>0, <1>d DEF BufFollows, Saving, Writers
  <2> QED
    BY <1>a, <2>1, <2>3, <2>4, <2>5, <2>6 DEF OnDisk, QuietMeansSaved, StoppedIsSaved
<1> QED
  BY <1>1, <1>2, <1>3, <1>4, <1>5

LEMMA SaveFailsHolds ==
  ASSUME IInv, NEW s \in Slots, NEW w \in Writers, SaveFails(s, w) PROVE IInv'
<1> USE ResurrectionAssumption, FilesAssumption
    DEF IInv, SaveFails, Saved, At, Sessions, Saves, Disk, Daemon, Counts
<1>1. TypeOK'
  <2>1. name[s] \in Names
    BY DEF Registry, Held, WritersInTurn, Writers
  <2>2. tmp' \in [Names -> Contents \cup {None, Torn}] /\ faults' \in 0..MaxFaults
    BY <2>1 DEF TypeOK
  <2>3. /\ pc' \in [Slots -> [Writers -> {"idle", "taken", "read", "open", "written"}]]
        /\ buf' \in [Slots -> [Writers -> Contents \cup {None}]]
    BY DEF TypeOK
  <2>4. /\ phase' \in [Slots -> {"free", "live", "queued", "stopping", "final", "stopped"}]
        /\ failed' \in [Slots -> BOOLEAN]
    BY DEF TypeOK
  <2> QED
    BY <2>2, <2>3, <2>4 DEF TypeOK
<1>2. Registry'
  BY DEF TypeOK, Registry, Held, NamesApart, Lifetimes, WritersInTurn, KilledAreGone
<1>3. TmpFollows'
  <2> SUFFICES ASSUME NEW t \in Slots, NEW v \in Writers, pc'[t][v] \in Saving
               PROVE  /\ buf'[t][v] \in Contents
                      /\ pc'[t][v] = "open" => tmp'[name[t]] = Torn
                      /\ pc'[t][v] = "written" => tmp'[name[t]] = buf'[t][v]
    BY DEF TmpFollows, Saving
  <2>1. ~(t = s /\ v = w) /\ pc'[t][v] = pc[t][v] /\ buf'[t][v] = buf[t][v]
    BY DEF TypeOK, Saving
  <2>2. name[t] # name[s]
    BY <2>1, OneWriterPerName DEF Saving
  <2>3. tmp'[name[t]] = tmp[name[t]]
    BY <2>2
  <2> HIDE DEF SaveFails
  <2> QED
    BY <2>1, <2>3 DEF TmpFollows
<1>4. BufFollows'
  BY DEF TypeOK, BufFollows, Saving
<1>5. OnDisk'
  BY DEF TypeOK, OnDisk, SavedIsWhole, QuietMeansSaved, StoppedIsSaved, Quiet, KilledStaysKilled
<1> QED
  BY <1>1, <1>2, <1>3, <1>4, <1>5

LEMMA StopSaverHolds ==
  ASSUME ~Reuse, IInv, NEW s \in Slots, StopSaver(s) PROVE IInv'
<1> USE ResurrectionAssumption, FilesAssumption
    DEF IInv, StopSaver, At, Sessions, Saves, Disk, Daemon, Counts
<1>1. TypeOK'
  BY DEF TypeOK
<1>2. Registry'
  BY DEF TypeOK, Registry, Held, NamesApart, Lifetimes, WritersInTurn, KilledAreGone
<1>3. TmpFollows'
  BY DEF TmpFollows, Saving
<1>4. BufFollows'
  BY DEF BufFollows, Saving
<1>5. OnDisk'
  BY DEF OnDisk, SavedIsWhole, QuietMeansSaved, StoppedIsSaved, Quiet, KilledStaysKilled
<1> QED
  BY <1>1, <1>2, <1>3, <1>4, <1>5

LEMMA EndedHolds ==
  ASSUME ~Reuse, IInv, NEW s \in Slots, Ended(s) PROVE IInv'
<1> USE ResurrectionAssumption, FilesAssumption
<1> DEFINE m == name[s]
<1>1. /\ TypeOK /\ Held /\ NamesApart /\ Lifetimes /\ WritersInTurn /\ KilledAreGone
      /\ TmpFollows /\ BufFollows /\ OnDisk
  BY DEF IInv, Registry
<1>2. /\ phase[s] = "stopped" /\ m \in Names
      /\ phase' = [phase EXCEPT ![s] = "free"] /\ fate' = [fate EXCEPT ![s] = "kill"]
      /\ name' = [name EXCEPT ![s] = None] /\ content' = [content EXCEPT ![s] = None]
      /\ dirty' = [dirty EXCEPT ![s] = FALSE] /\ failed' = [failed EXCEPT ![s] = FALSE]
      /\ UNCHANGED <<daemon, pending, starts, filling, pc, buf, tmp, clock, faults>>
  BY <1>1 DEF Ended, Held, Daemon, Saves, Counts
<1>3. /\ disk' \in [Names -> Files] /\ killed' \subseteq Names
      /\ \A n \in Names : n # m => disk'[n] = disk[n]
      /\ \A n \in Names : disk'[n] \in {None, disk[n]}
      /\ killed' \subseteq killed \cup {m}
      /\ m \in killed' => m \in killed \/ disk'[m] = None
  <2>1. disk \in [Names -> Files] /\ killed \subseteq Names /\ None \in Files
    BY <1>1 DEF TypeOK, Files
  <2>2. CASE fate[s] = "kill"
    <3>1. disk' = [disk EXCEPT ![m] = None]
      BY <2>2 DEF Ended
    <3>2. killed' = killed \/ killed' = killed \cup {m}
      BY <2>2 DEF Ended
    <3> QED
      BY <1>2, <2>1, <3>1, <3>2
  <2>3. CASE fate[s] # "kill"
    <3>1. disk' = disk /\ killed' = killed
      BY <2>3 DEF Ended
    <3> QED
      BY <2>1, <3>1
  <2> QED
    BY <2>2, <2>3
<1>4. TypeOK'
  BY <1>1, <1>2, <1>3 DEF TypeOK
<1>5. /\ phase'[s] = "free"
      /\ \A t \in Slots : t # s =>
           /\ phase'[t] = phase[t] /\ name'[t] = name[t] /\ content'[t] = content[t]
           /\ fate'[t] = fate[t] /\ dirty'[t] = dirty[t] /\ failed'[t] = failed[t]
  BY <1>1, <1>2 DEF TypeOK
<1>6. \A t \in Slots : phase'[t] # "free" => /\ t # s /\ phase[t] # "free"
                                             /\ name[t] \in Names /\ name[t] # m
  BY <1>1, <1>2, <1>5 DEF Held, NamesApart
<1>7. pc[s]["saver"] = "idle" /\ pc[s]["final"] = "idle"
  BY <1>1, <1>2 DEF WritersInTurn
<1>8. Registry'
  <2>1. Held'
    BY <1>1, <1>2, <1>5 DEF Held
  <2>2. NamesApart'
    BY <1>1, <1>5, <1>6 DEF NamesApart
  <2>3. Lifetimes'
    BY <1>1, <1>2, <1>5 DEF Lifetimes
  <2>4. WritersInTurn'
    BY <1>1, <1>2, <1>5, <1>7 DEF WritersInTurn
  <2>5. KilledAreGone'
    BY <1>1, <1>3, <1>5, <1>6 DEF KilledAreGone
  <2> QED
    BY <2>1, <2>2, <2>3, <2>4, <2>5 DEF Registry
<1>9. TmpFollows'
  BY <1>1, <1>2, <1>5, <1>7 DEF TmpFollows, Saving, Writers
<1>10. BufFollows'
  BY <1>1, <1>2, <1>5, <1>7 DEF BufFollows, Saving
<1>11. OnDisk'
  <2>1. SavedIsWhole'
    BY <1>1, <1>3 DEF OnDisk, SavedIsWhole
  <2>2. KilledStaysKilled'
    BY <1>1, <1>3 DEF OnDisk, KilledStaysKilled, TypeOK
  <2>3. \A t \in Slots : phase'[t] # "free" => disk'[name'[t]] = disk[name[t]]
    BY <1>3, <1>5, <1>6
  <2>4. QuietMeansSaved'
    BY <1>1, <1>2, <1>5, <1>6, <2>3 DEF OnDisk, QuietMeansSaved, Quiet
  <2>5. StoppedIsSaved'
    BY <1>1, <1>5, <1>6, <2>3 DEF OnDisk, StoppedIsSaved
  <2> QED
    BY <2>1, <2>2, <2>4, <2>5 DEF OnDisk
<1> QED
  BY <1>4, <1>8, <1>9, <1>10, <1>11 DEF IInv

LEMMA ExitHolds ==
  ASSUME ~Reuse, IInv, Exit PROVE IInv'
<1> USE ResurrectionAssumption, FilesAssumption
    DEF IInv, Exit, Sessions, Saves, Disk, Daemon, Counts
<1>1. TypeOK'
  BY DEF TypeOK
<1>2. Registry'
  BY DEF Registry, Held, NamesApart, Lifetimes, WritersInTurn, KilledAreGone
<1>3. TmpFollows'
  BY DEF TmpFollows
<1>4. BufFollows'
  BY DEF BufFollows
<1>5. OnDisk'
  BY DEF OnDisk, SavedIsWhole, QuietMeansSaved, StoppedIsSaved, Quiet, KilledStaysKilled
<1> QED
  BY <1>1, <1>2, <1>3, <1>4, <1>5

LEMMA CrashHolds ==
  ASSUME ~Reuse, IInv, Crash PROVE IInv'
<1> USE ResurrectionAssumption, FilesAssumption
    DEF IInv, Crash, Free, Sessions, Saves, Disk, Daemon, Counts
<1>1. TypeOK'
  BY DEF TypeOK
<1>2. Registry'
  BY DEF Registry, Held, NamesApart, Lifetimes, WritersInTurn, KilledAreGone, Writers
<1>3. TmpFollows'
  BY DEF TmpFollows, Saving
<1>4. BufFollows'
  BY DEF BufFollows, Writers
<1>5. OnDisk'
  BY DEF OnDisk, SavedIsWhole, QuietMeansSaved, StoppedIsSaved, Quiet, KilledStaysKilled
<1> QED
  BY <1>1, <1>2, <1>3, <1>4, <1>5

LEMMA DamageHolds ==
  ASSUME ~Reuse, IInv, NEW n \in Names, Damage(n) PROVE IInv'
<1> USE ResurrectionAssumption, FilesAssumption
    DEF IInv, Damage, Sessions, Saves, Disk, Daemon, Counts
<1>1. TypeOK'
  BY DEF TypeOK, Files
<1>2. Registry'
  BY DEF Registry, Held, NamesApart, Lifetimes, WritersInTurn, KilledAreGone
<1>3. TmpFollows'
  BY DEF TmpFollows
<1>4. BufFollows'
  BY DEF BufFollows
<1>5. OnDisk'
  BY DEF OnDisk, SavedIsWhole, QuietMeansSaved, StoppedIsSaved, Quiet, KilledStaysKilled,
         Registry, Lifetimes
<1> QED
  BY <1>1, <1>2, <1>3, <1>4, <1>5

LEMMA StartHolds ==
  ASSUME ~Reuse, IInv, NEW restore \in Restores, Start(restore) PROVE IInv'
<1> USE ResurrectionAssumption, FilesAssumption
    DEF IInv, Start, Sessions, Saves, Disk, Daemon, Counts
<1>1. TypeOK'
  BY DEF TypeOK
<1>2. Registry'
  BY DEF Registry, Held, NamesApart, Lifetimes, WritersInTurn, KilledAreGone
<1>3. TmpFollows'
  BY FreeIsIdle DEF TmpFollows, Registry, Lifetimes
<1>4. BufFollows'
  BY DEF BufFollows
<1>5. OnDisk'
  BY DEF OnDisk, SavedIsWhole, QuietMeansSaved, StoppedIsSaved, Quiet, KilledStaysKilled
<1> QED
  BY <1>1, <1>2, <1>3, <1>4, <1>5

LEMMA DiscardHolds ==
  ASSUME ~Reuse, IInv, NEW n \in Names, Discard(n) PROVE IInv'
<1> USE ResurrectionAssumption, FilesAssumption
    DEF IInv, Discard, Sessions, Saves, Disk, Daemon, Counts
<1>1. TypeOK'
  BY DEF TypeOK, Files
<1>2. Registry'
  BY DEF Registry, Held, NamesApart, Lifetimes, WritersInTurn, KilledAreGone
<1>3. TmpFollows'
  BY DEF TmpFollows
<1>4. BufFollows'
  BY DEF BufFollows
<1>5. OnDisk'
  BY DEF OnDisk, SavedIsWhole, QuietMeansSaved, StoppedIsSaved, Quiet, KilledStaysKilled,
         Registry, Lifetimes
<1> QED
  BY <1>1, <1>2, <1>3, <1>4, <1>5

LEMMA RestoreRefusedHolds ==
  ASSUME ~Reuse, IInv, NEW n \in Names, RestoreRefused(n) PROVE IInv'
<1> USE DEF IInv, RestoreRefused, Sessions, Saves, Disk, Daemon, Counts
<1>1. TypeOK'
  BY DEF TypeOK
<1>2. Registry'
  BY DEF Registry, Held, NamesApart, Lifetimes, WritersInTurn, KilledAreGone
<1>3. TmpFollows' /\ BufFollows'
  BY DEF TmpFollows, BufFollows
<1>4. OnDisk'
  BY DEF OnDisk, SavedIsWhole, QuietMeansSaved, StoppedIsSaved, Quiet, KilledStaysKilled
<1> QED
  BY <1>1, <1>2, <1>3, <1>4

LEMMA RestoreIntoHolds ==
  ASSUME ~Reuse, IInv, NEW s \in Slots, NEW n \in Names, RestoreInto(s, n),
         daemon \in {"restoring", "up"}, pending' \subseteq pending, n \notin pending'
  PROVE  IInv'
<1>1. disk[n] \in Contents
  BY DEF RestoreInto
<1>2. /\ [disk[n] EXCEPT !.ver = 0, !.open = FALSE] \in Contents
      /\ [disk[n] EXCEPT !.ver = 0, !.open = FALSE].ver = 0
  <2>1. 0 \in 0..MaxStamp /\ FALSE \in BOOLEAN
    BY ResurrectionAssumption
  <2> QED
    BY <1>1, <2>1, ChangedContents
<1>3. clock' \in 0..MaxStamp
  BY DEF RestoreInto, Counts, IInv, TypeOK
<1> QED
  BY <1>1, <1>2, <1>3, RegisterHolds DEF RestoreInto, Counts

LEMMA RestoreHolds ==
  ASSUME ~Reuse, IInv, NEW s \in Slots, NEW n \in Names, Restore(s, n) PROVE IInv'
  BY RestoreIntoHolds DEF Restore

LEMMA ResurrectHolds ==
  ASSUME ~Reuse, IInv, NEW s \in Slots, NEW n \in Names, Resurrect(s, n) PROVE IInv'
<1>1. CASE RestoreInto(s, n)
  BY <1>1, RestoreIntoHolds DEF Resurrect, IInv, Registry, Lifetimes
<1>2. CASE ~RestoreInto(s, n)
  <2> USE FilesAssumption DEF IInv
  <2>1. /\ disk[n] \in {Torn, Bad} /\ disk' = [disk EXCEPT ![n] = None]
        /\ UNCHANGED <<daemon, pending, starts, phase, fate, name, content, filling, dirty, failed,
                       pc, buf, tmp, clock, faults, killed>>
    BY <1>2 DEF Resurrect, Sessions, Saves, Counts
  <2>2. TypeOK'
    BY <2>1 DEF TypeOK, Files
  <2>3. Registry' /\ TmpFollows' /\ BufFollows'
    BY <2>1 DEF Registry, Held, NamesApart, Lifetimes, WritersInTurn, KilledAreGone,
                TmpFollows, BufFollows
  <2>4. \A m \in Names : disk[m] \notin {Torn, Bad} => disk'[m] = disk[m]
    BY <2>1 DEF TypeOK
  <2>5. SavedIsWhole' /\ KilledStaysKilled'
    BY <2>1 DEF OnDisk, SavedIsWhole, KilledStaysKilled
  <2>6. \A t \in Slots : phase[t] # "free" => name[t] \in Names /\ content[t] \notin {Torn, Bad}
    BY DEF Registry, Held
  <2>7. QuietMeansSaved' /\ StoppedIsSaved'
    BY <2>1, <2>4, <2>6 DEF OnDisk, QuietMeansSaved, StoppedIsSaved, Quiet
  <2> QED
    BY <2>2, <2>3, <2>5, <2>7 DEF OnDisk
<1> QED
  BY <1>1, <1>2

LEMMA FillSessionHolds ==
  ASSUME IInv, NEW s \in Slots, FillSession(s) PROVE IInv'
<1> USE ResurrectionAssumption, FilesAssumption DEF IInv
<1>1. filling[s] \in Contents /\ phase[s] = "live"
  BY DEF FillSession, TypeOK, Registry, Held
<1>2. /\ content' = [content EXCEPT ![s] = content'[s]] /\ content'[s] \in Contents
      /\ clock' \in 0..MaxStamp
  <2>1. CASE content' = [content EXCEPT ![s] = filling[s]] /\ UNCHANGED clock
    BY <1>1, <2>1 DEF TypeOK
  <2>2. CASE ~(content' = [content EXCEPT ![s] = filling[s]] /\ UNCHANGED clock)
    <3>0. /\ clock < MaxStamp /\ clock' = clock + 1
          /\ \E o \in BOOLEAN : content' =
               [content EXCEPT ![s] = [filling[s] EXCEPT !.ver = clock + 1, !.open = o]]
      BY <2>2, Zenon DEF FillSession
    <3>1. clock + 1 \in 0..MaxStamp
      BY <3>0 DEF TypeOK
    <3>2. PICK o \in BOOLEAN :
            content' = [content EXCEPT ![s] = [filling[s] EXCEPT !.ver = clock + 1, !.open = o]]
      BY <3>0
    <3> QED
      BY <1>1, <3>0, <3>1, <3>2, ChangedContents DEF TypeOK
  <2> QED
    BY <2>1, <2>2
<1>3. /\ filling' = [filling EXCEPT ![s] = None] /\ dirty' = [dirty EXCEPT ![s] = TRUE]
      /\ UNCHANGED <<daemon, pending, starts, phase, fate, name, failed, pc, buf, tmp, disk,
                     faults, killed>>
  BY DEF FillSession, Daemon, Saves, Disk
<1>4. TypeOK'
  BY <1>2, <1>3 DEF TypeOK
<1>5. \A t \in Slots : t # s => content'[t] = content[t] /\ dirty'[t] = dirty[t]
  BY <1>2, <1>3 DEF TypeOK
<1>6. dirty'[s] /\ filling'[s] = None /\ \A t \in Slots : t # s => filling'[t] = filling[t]
  BY <1>3 DEF TypeOK
<1>7. Registry'
  BY <1>1, <1>2, <1>3, <1>5, <1>6
  DEF Registry, Held, NamesApart, Lifetimes, WritersInTurn, KilledAreGone
<1>8. TmpFollows'
  BY <1>3 DEF TmpFollows
<1>9. BufFollows'
  BY <1>1, <1>3, <1>5, <1>6 DEF BufFollows, Registry, WritersInTurn, Saving
<1>10. OnDisk'
  BY <1>1, <1>3, <1>5, <1>6
  DEF OnDisk, SavedIsWhole, QuietMeansSaved, StoppedIsSaved, Quiet, KilledStaysKilled
<1> QED
  BY <1>4, <1>7, <1>8, <1>9, <1>10

LEMMA ServeHolds ==
  ASSUME ~Reuse, IInv, Serve PROVE IInv'
<1> USE ResurrectionAssumption, FilesAssumption
    DEF IInv, Serve, Sessions, Saves, Disk, Daemon, Counts
<1>1. TypeOK'
  BY DEF TypeOK
<1>2. Registry'
  BY DEF Registry, Held, NamesApart, Lifetimes, WritersInTurn, KilledAreGone
<1>3. TmpFollows'
  BY DEF TmpFollows
<1>4. BufFollows'
  BY DEF BufFollows
<1>5. OnDisk'
  BY DEF OnDisk, SavedIsWhole, QuietMeansSaved, StoppedIsSaved, Quiet, KilledStaysKilled
<1> QED
  BY <1>1, <1>2, <1>3, <1>4, <1>5

LEMMA StepHolds == ASSUME ~Reuse, IInv, [Next]_vars PROVE IInv'
<1>1. CASE UNCHANGED vars
  BY <1>1
  DEF vars, IInv, TypeOK, Registry, Held, NamesApart, Lifetimes, WritersInTurn, KilledAreGone,
      TmpFollows, BufFollows, OnDisk, SavedIsWhole, QuietMeansSaved, StoppedIsSaved, Quiet,
      KilledStaysKilled
<1>2. CASE Next
  <2>1. CASE \E s \in Slots, n \in Names : Create(s, n) \/ Restore(s, n) \/ Resurrect(s, n)
    BY <2>1, CreateHolds, RestoreHolds, ResurrectHolds
  <2>2. CASE \E s \in Slots : \/ Mutate(s) \/ Kill(s) \/ NextInQueue(s) \/ StopSaver(s)
                              \/ Ended(s) \/ FillSession(s) \/ TickWhenDue(s)
    BY <2>2, MutateHolds, KillHolds, NextInQueueHolds, StopSaverHolds, EndedHolds,
       FillSessionHolds, TickWhenDueHolds
  <2>3. CASE \E s \in Slots, w \in Writers : \/ ReadState(s, w) \/ OpenTmp(s, w)
                                             \/ WriteTmp(s, w) \/ RenameTmp(s, w)
                                             \/ SaveFails(s, w)
    BY <2>3, ReadStateHolds, OpenTmpHolds, WriteTmpHolds, RenameTmpHolds, SaveFailsHolds
  <2>4. CASE \/ \E n \in Names : Damage(n) \/ Discard(n) \/ RestoreRefused(n)
             \/ \E restore \in Restores : Start(restore)
             \/ Shutdown \/ Exit \/ Crash \/ Serve
    BY <2>4, DamageHolds, DiscardHolds, RestoreRefusedHolds, StartHolds, ShutdownHolds, ExitHolds,
       CrashHolds, ServeHolds
  <2> QED
    BY <1>2, <2>1, <2>2, <2>3, <2>4 DEF Next
<1> QED
  BY <1>1, <1>2

LEMMA Invariance == ~Reuse => (Spec => []IInv)
<1>1. CASE ~Reuse
  <2>1. IInv /\ [Next]_vars => IInv'
    BY <1>1, StepHolds
  <2> QED
    BY <2>1, InitHolds, PTL DEF Spec
<1> QED
  BY <1>1

-----------------------------------------------------------------------------
(* Type correctness.                                                       *)
THEOREM TypesHold == ~Reuse => (Spec => []TypeOK)
<1>1. IInv => TypeOK
  BY DEF IInv
<1> QED
  BY <1>1, Invariance, PTL

(* No crash and no meeting of the writers leaves half a state under        *)
(* <name>.json.                                                            *)
THEOREM SavedIsWholeHolds == ~Reuse => (Spec => []SavedIsWhole)
<1>1. IInv => SavedIsWhole
  BY DEF IInv, OnDisk
<1> QED
  BY <1>1, Invariance, PTL

(* The mark is swapped before the state is read, and set after every       *)
(* change: a session at rest is on disk as it is.                          *)
THEOREM QuietMeansSavedHolds == ~Reuse => (Spec => []QuietMeansSaved)
<1>1. IInv => QuietMeansSaved
  BY DEF IInv, OnDisk
<1> QED
  BY <1>1, Invariance, PTL

(* Stop saves what the session last was.                                   *)
THEOREM StoppedIsSavedHolds == ~Reuse => (Spec => []StoppedIsSaved)
<1>1. IInv => StoppedIsSaved
  BY DEF IInv, OnDisk
<1> QED
  BY <1>1, Invariance, PTL

(* A session that was killed leaves nothing to bring it back from.         *)
THEOREM KilledStaysKilledHolds == ~Reuse => (Spec => []KilledStaysKilled)
<1>1. IInv => KilledStaysKilled
  BY DEF IInv, OnDisk
<1> QED
  BY <1>1, Invariance, PTL

-----------------------------------------------------------------------------
(* What a restore brings back.  A session is what its saved state says it  *)
(* is, and so is everything on its way to or from the disk; while the      *)
(* daemon serves, whatever can be brought back has been, so that no new    *)
(* session takes a name with a saved state; and nobody changes a session   *)
(* before it is filled.                                                    *)

Restorable(n) == disk[n] \in Contents /\ disk[n].open

LinesFollow ==
  \A s \in Slots : phase[s] # "free" =>
    /\ content[s].ver <= clock
    /\ \A w \in Writers : pc[s][w] \in Saving =>
         buf[s][w].line = content[s].line /\ buf[s][w].ver <= clock
    /\ Restorable(name[s]) => disk[name[s]].line = content[s].line

FilledFirst ==
  \A s \in Slots : filling[s] # None =>
    /\ daemon = "restoring" /\ content[s].ver = 0
    /\ filling[s].line = content[s].line /\ filling[s].ver <= clock

AllBrought ==
  \A n \in Names :
    /\ disk[n] \in Contents => disk[n].ver <= clock
    /\ Restorable(n) /\ daemon \in {"restoring", "up"} => n \in pending \/ Named(n) # {}

Brought == LinesFollow /\ FilledFirst /\ AllBrought

(* A step that neither touches what sessions hold nor the saved states.    *)
LEMMA BroughtStays ==
  ASSUME Brought, UNCHANGED <<name, content, filling, disk, clock>>,
         \A s \in Slots : phase'[s] = "free" <=> phase[s] = "free",
         \A s \in Slots, w \in Writers :
           pc'[s][w] \in Saving => pc[s][w] \in Saving /\ buf'[s][w] = buf[s][w],
         Restoring = {} \/ daemon' = daemon,
         daemon' \in {"restoring", "up"} => daemon \in {"restoring", "up"} /\ pending' = pending
  PROVE  Brought'
<1>1. LinesFollow'
  BY DEF Brought, LinesFollow, Restorable
<1>2. FilledFirst'
  BY DEF Brought, FilledFirst, Restoring
<1>3. AllBrought'
  BY DEF Brought, AllBrought, Restorable, Named
<1> QED
  BY <1>1, <1>2, <1>3 DEF Brought

(* Saves on their way, and sessions on theirs to an end.                   *)
LEMMA BroughtUndisturbed ==
  ASSUME IInv, Brought, NEW s \in Slots, NEW w \in Writers,
         \/ Kill(s) \/ NextInQueue(s) \/ StopSaver(s) \/ TickWhenDue(s)
         \/ OpenTmp(s, w) \/ WriteTmp(s, w) \/ SaveFails(s, w)
  PROVE  Brought'
<1>1. UNCHANGED <<daemon, pending, name, content, filling, clock>>
  BY DEF Kill, NextInQueue, StopSaver, TickWhenDue, Tick, OpenTmp, WriteTmp, SaveFails, Saved,
         Sessions, Daemon, Counts
<1>2. disk' = disk
  BY FilesAssumption
  DEF IInv, TmpFollows, Saving, Kill, NextInQueue, StopSaver, TickWhenDue, Tick, OpenTmp, WriteTmp,
      SaveFails, Disk
<1>3. \A t \in Slots : phase'[t] = "free" <=> phase[t] = "free"
  BY DEF IInv, TypeOK, Registry, WritersInTurn, Kill, NextInQueue, StopSaver, TickWhenDue, Tick, OpenTmp,
         WriteTmp, SaveFails, Saved, Sessions
<1>4. ASSUME NEW t \in Slots, NEW v \in Writers, pc'[t][v] \in Saving
      PROVE  pc[t][v] \in Saving /\ buf'[t][v] = buf[t][v]
  <2>1. \/ pc' = pc /\ buf' = buf
        \/ pc' = [pc EXCEPT ![s]["saver"] = "taken"] /\ buf' = buf
        \/ pc' = [pc EXCEPT ![s]["final"] = "taken"] /\ buf' = buf
        \/ pc[s][w] \in Saving /\ pc' = [pc EXCEPT ![s][w] = "open"] /\ buf' = buf
        \/ pc[s][w] \in Saving /\ pc' = [pc EXCEPT ![s][w] = "written"] /\ buf' = buf
        \/ pc' = [pc EXCEPT ![s][w] = "idle"] /\ buf' = [buf EXCEPT ![s][w] = None]
    BY DEF Kill, NextInQueue, StopSaver, TickWhenDue, Tick, OpenTmp, WriteTmp, SaveFails, Saved, At,
           Saves, Saving
  <2> QED
    BY <1>4, <2>1 DEF IInv, TypeOK, Saving
<1> QED
  BY <1>1, <1>2, <1>3, <1>4, BroughtStays

LEMMA BroughtAcross ==
  ASSUME IInv, Brought, Shutdown \/ Exit \/ Serve
  PROVE  Brought'
<1>1. UNCHANGED <<name, content, filling, disk, clock, pc, buf>>
  BY DEF Shutdown, Exit, Serve, Sessions, Saves, Disk, Counts
<1>2. \A t \in Slots : phase'[t] = "free" <=> phase[t] = "free"
  BY DEF Shutdown, Exit, Serve, Sessions
<1>3. Restoring = {}
  BY DEF Shutdown, Exit, Serve, IInv, Registry, Held, Restoring
<1>4. daemon' \in {"restoring", "up"} => daemon \in {"restoring", "up"} /\ pending' = pending
  BY DEF Shutdown, Exit, Serve
<1> QED
  BY <1>1, <1>2, <1>3, <1>4, BroughtStays

(* A session created has a name nothing can be brought back under; one     *)
(* restored is what it is restored from.                                   *)
LEMMA BroughtRegister ==
  ASSUME ~Reuse, IInv, Brought, NEW s \in Slots, NEW n \in Names, NEW c \in Contents, c.ver = 0,
         NEW toFill \in Contents \cup {None}, Register(s, n, c, toFill),
         clock' \in Nat, clock <= clock', UNCHANGED <<daemon, Saves, disk>>,
         pending' \in {pending, pending \ {n}}, daemon \in {"restoring", "up"},
         Restorable(n) => disk[n].line = c.line,
         toFill # None => /\ daemon = "restoring" /\ toFill.line = c.line /\ toFill.ver <= clock
  PROVE  Brought'
<1>1. /\ phase[s] = "free" /\ phase' = [phase EXCEPT ![s] = "live"] /\ name' = [name EXCEPT ![s] = n]
      /\ content' = [content EXCEPT ![s] = c] /\ filling' = [filling EXCEPT ![s] = toFill]
  BY DEF Register
<1>2. /\ phase'[s] = "live" /\ name'[s] = n /\ content'[s] = c /\ filling'[s] = toFill
      /\ \A t \in Slots : t # s => /\ phase'[t] = phase[t] /\ name'[t] = name[t]
                                   /\ content'[t] = content[t] /\ filling'[t] = filling[t]
  BY <1>1 DEF IInv, TypeOK
<1>3. clock \in Nat
  BY ResurrectionAssumption DEF IInv, TypeOK
<1>4. \A w \in Writers : pc[s][w] = "idle"
  BY <1>1, FreeIsIdle DEF IInv
<1>5. LinesFollow'
  <2> SUFFICES ASSUME NEW t \in Slots, phase'[t] # "free"
               PROVE  /\ content'[t].ver <= clock'
                      /\ \A w \in Writers : pc'[t][w] \in Saving =>
                           buf'[t][w].line = content'[t].line /\ buf'[t][w].ver <= clock'
                      /\ Restorable(name[t])' => disk'[name'[t]].line = content'[t].line
    BY DEF LinesFollow
  <2>1. CASE t = s
    BY <1>2, <1>3, <1>4, <2>1 DEF Saves, Saving, Restorable
  <2>2. CASE t # s
    <3>1. /\ content[t] \in Contents /\ \A w \in Writers : pc[t][w] \in Saving => buf[t][w] \in Contents
      BY <1>2, <2>2 DEF IInv, Registry, Held, TmpFollows
    <3>2. \A d \in Contents : d.ver <= clock => d.ver <= clock'
      BY <1>3 DEF Contents
    <3>3. content'[t] = content[t] /\ name'[t] = name[t] /\ UNCHANGED <<pc, buf, disk>>
      BY <1>2, <2>2 DEF Saves
    <3>4. content[t].ver <= clock'
      BY <1>2, <2>2, <3>1, <3>2 DEF Brought, LinesFollow
    <3>5. \A w \in Writers : pc[t][w] \in Saving =>
            buf[t][w].line = content[t].line /\ buf[t][w].ver <= clock'
      BY <1>2, <2>2, <3>1, <3>2 DEF Brought, LinesFollow
    <3>6. Restorable(name[t]) => disk[name[t]].line = content[t].line
      BY <1>2, <2>2 DEF Brought, LinesFollow
    <3> QED
      BY <3>3, <3>4, <3>5, <3>6 DEF Restorable
  <2> QED
    BY <2>1, <2>2
<1>6. FilledFirst'
  <2>1. \A d \in Contents : d.ver <= clock => d.ver <= clock'
    BY <1>3 DEF Contents
  <2> QED
    BY <1>2, <2>1 DEF IInv, TypeOK, Brought, FilledFirst
<1>7. AllBrought'
  <2>1. \A d \in Contents : d.ver <= clock => d.ver <= clock'
    BY <1>3 DEF Contents
  <2>2. Named(n)' # {}
    BY <1>2 DEF Named
  <2>3. \A m \in Names : Named(m) # {} => Named(m)' # {}
    BY <1>1, <1>2 DEF Named
  <2> QED
    BY <2>1, <2>2, <2>3 DEF Brought, AllBrought, Restorable
<1> QED
  BY <1>5, <1>6, <1>7 DEF Brought

(* While the daemon serves, a name nobody holds has nothing to bring back. *)
LEMMA NothingLeft ==
  ASSUME IInv, Brought, daemon = "up", NEW n \in Names, Live(n) = {}, Killing(n) = {}
  PROVE  ~Restorable(n)
<1>1. Named(n) = {}
  BY DEF Live, Killing, Named, IInv, TypeOK, Registry, Lifetimes
<1>2. pending = {}
  BY DEF IInv, Registry, Lifetimes
<1> QED
  BY <1>1, <1>2 DEF Brought, AllBrought

LEMMA BroughtCreate ==
  ASSUME ~Reuse, IInv, Brought, NEW s \in Slots, NEW n \in Names, Create(s, n)
  PROVE  Brought'
<1>1. /\ daemon = "up" /\ clock' = clock + 1
      /\ Register(s, n, [line |-> clock + 1, ver |-> 0, open |-> FALSE], None)
      /\ UNCHANGED <<daemon, pending, Saves, disk>>
  BY DEF Create, Daemon, Disk
<1>2. clock \in Nat /\ clock' \in Nat /\ clock <= clock'
  BY <1>1, ResurrectionAssumption DEF IInv, TypeOK
<1>3. [line |-> clock + 1, ver |-> 0, open |-> FALSE] \in Contents
  BY ResurrectionAssumption DEF Create, IInv, TypeOK, Contents
<1>4. ~Restorable(n)
  BY <1>1, NothingLeft DEF Register
<1> QED
  BY <1>1, <1>2, <1>3, <1>4, BroughtRegister

LEMMA BroughtRestore ==
  ASSUME ~Reuse, IInv, Brought, NEW s \in Slots, NEW n \in Names, Restore(s, n)
  PROVE  Brought'
<1>1. /\ daemon = "restoring" /\ pending' = pending \ {n} /\ disk[n] \in Contents
      /\ Register(s, n, [disk[n] EXCEPT !.ver = 0, !.open = FALSE], disk[n])
      /\ UNCHANGED <<daemon, Saves, disk, clock>>
  BY DEF Restore, RestoreInto, Disk, Counts
<1>2. clock \in Nat /\ clock <= clock
  BY ResurrectionAssumption DEF IInv, TypeOK
<1>3. /\ [disk[n] EXCEPT !.ver = 0, !.open = FALSE] \in Contents
      /\ [disk[n] EXCEPT !.ver = 0, !.open = FALSE].ver = 0
      /\ [disk[n] EXCEPT !.ver = 0, !.open = FALSE].line = disk[n].line
  <2>1. 0 \in 0..MaxStamp /\ FALSE \in BOOLEAN
    BY ResurrectionAssumption
  <2>2. [disk[n] EXCEPT !.ver = 0, !.open = FALSE].line = disk[n].line
    BY <1>1 DEF Contents
  <2> QED
    BY <1>1, <2>1, <2>2, ChangedContents
<1>4. disk[n].ver <= clock
  BY <1>1 DEF Brought, AllBrought
<1> QED
  BY <1>1, <1>2, <1>3, <1>4, BroughtRegister

(* Nothing is left for a client to ask for but what cannot be read.        *)
LEMMA BroughtResurrect ==
  ASSUME ~Reuse, IInv, Brought, NEW s \in Slots, NEW n \in Names, Resurrect(s, n)
  PROVE  Brought' /\ UNCHANGED content /\ disk[n] \in {Torn, Bad} /\ disk' = [disk EXCEPT ![n] = None]
<1>1. ~RestoreInto(s, n)
  BY NothingLeft DEF Resurrect, RestoreInto, Register, Restorable
<1>2. /\ disk[n] \in {Torn, Bad} /\ disk' = [disk EXCEPT ![n] = None]
      /\ UNCHANGED <<daemon, pending, phase, name, content, filling, pc, buf, clock>>
  BY <1>1 DEF Resurrect, Sessions, Saves, Counts
<1>3. \A m \in Names : disk'[m] \in Contents => disk[m] \in Contents /\ disk'[m] = disk[m]
  BY <1>2, FilesAssumption DEF IInv, TypeOK
<1>4. \A t \in Slots : phase[t] # "free" => name[t] \in Names
  BY DEF IInv, Registry, Held
<1>5. LinesFollow' /\ FilledFirst' /\ AllBrought'
  BY <1>2, <1>3, <1>4 DEF Brought, LinesFollow, FilledFirst, AllBrought, Restorable, Named
<1> QED
  BY <1>2, <1>5 DEF Brought

(* A change, of a session that has been filled.                            *)
LEMMA BroughtChange ==
  ASSUME IInv, Brought, NEW s \in Slots, content[s] \in Contents, content'[s] \in Contents,
         content' = [content EXCEPT ![s] = content'[s]], content'[s].line = content[s].line,
         content'[s].ver <= clock', clock' \in Nat, clock <= clock',
         UNCHANGED <<daemon, pending, phase, name, pc, buf, disk>>,
         filling' = [filling EXCEPT ![s] = None]
  PROVE  Brought'
<1>1. \A t \in Slots : t # s => content'[t] = content[t] /\ filling'[t] = filling[t]
  BY DEF IInv, TypeOK
<1>2. filling'[s] = None
  BY DEF IInv, TypeOK
<1>3. clock \in Nat
  BY ResurrectionAssumption DEF IInv, TypeOK
<1>4. \A d \in Contents : d.ver <= clock => d.ver <= clock'
  BY <1>3 DEF Contents
<1>5. LinesFollow'
  <2>1. \A t \in Slots : phase[t] # "free" => content[t] \in Contents
    BY DEF IInv, Registry, Held
  <2>2. \A t \in Slots, w \in Writers : pc[t][w] \in Saving => buf[t][w] \in Contents
    BY DEF IInv, TmpFollows
  <2>3. \A t \in Slots : /\ content'[t].line = content[t].line
                         /\ phase[t] # "free" => content'[t].ver <= clock'
    BY <1>1, <1>4, <2>1 DEF Brought, LinesFollow
  <2> QED
    BY <1>4, <2>2, <2>3 DEF Brought, LinesFollow, Restorable
<1>6. FilledFirst'
  BY <1>1, <1>2, <1>4 DEF IInv, TypeOK, Brought, FilledFirst
<1>7. AllBrought'
  BY <1>4 DEF Brought, AllBrought, Restorable, Named
<1> QED
  BY <1>5, <1>6, <1>7 DEF Brought

LEMMA BroughtMutate ==
  ASSUME IInv, Brought, NEW s \in Slots, Mutate(s)
  PROVE  Brought' /\ content'[s].ver >= content[s].ver
<1>1. PICK o \in BOOLEAN :
        content' = [content EXCEPT ![s] = [content[s] EXCEPT !.ver = clock + 1, !.open = o]]
  BY DEF Mutate
<1>2. /\ daemon = "up" /\ phase[s] = "live" /\ clock < MaxStamp /\ clock' = clock + 1
      /\ UNCHANGED <<daemon, pending, phase, name, pc, buf, disk, filling>>
  BY DEF Mutate, Daemon, Saves, Disk
<1>3. content[s] \in Contents /\ clock \in Nat /\ clock + 1 \in 0..MaxStamp
  BY <1>2, ResurrectionAssumption DEF IInv, TypeOK, Registry, Held
<1>4. /\ content'[s] \in Contents /\ content'[s].ver = clock + 1
      /\ content'[s].line = content[s].line
      /\ content' = [content EXCEPT ![s] = content'[s]]
  <2>1. content'[s] = [content[s] EXCEPT !.ver = clock + 1, !.open = o]
    BY <1>1 DEF IInv, TypeOK
  <2>2. content'[s] \in Contents
    BY <1>3, <2>1 DEF Contents
  <2>3. content'[s].ver = clock + 1 /\ content'[s].line = content[s].line
    BY <1>3, <2>1 DEF Contents
  <2> QED
    BY <1>1, <2>1, <2>2, <2>3
<1>5. filling[s] = None
  BY <1>2 DEF Brought, FilledFirst
<1>6. filling' = [filling EXCEPT ![s] = None]
  BY <1>2, <1>5 DEF IInv, TypeOK
<1>7. content[s].ver <= clock /\ content[s].ver \in Nat
  BY <1>2, <1>3 DEF Brought, LinesFollow, Contents
<1>8. clock' \in Nat /\ clock <= clock' /\ content'[s].ver <= clock'
  BY <1>2, <1>3, <1>4
<1>9. Brought'
  BY <1>2, <1>3, <1>4, <1>6, <1>8, BroughtChange
<1> QED
  BY <1>3, <1>4, <1>7, <1>9

LEMMA BroughtFill ==
  ASSUME IInv, Brought, NEW s \in Slots, FillSession(s)
  PROVE  Brought' /\ content'[s].ver >= content[s].ver
<1>1. /\ filling[s] \in Contents /\ phase[s] = "live" /\ content[s] \in Contents /\ clock \in Nat
      /\ content[s].ver = 0 /\ filling[s].line = content[s].line /\ filling[s].ver <= clock
  <2>1. filling[s] # None
    BY DEF FillSession
  <2>2. filling[s] \in Contents /\ clock \in Nat
    BY <2>1, ResurrectionAssumption DEF IInv, TypeOK
  <2>3. phase[s] = "live" /\ content[s] \in Contents
    BY <2>1 DEF IInv, Registry, Held
  <2> QED
    BY <2>1, <2>2, <2>3 DEF Brought, FilledFirst
<1>2. /\ content'[s] \in Contents /\ content'[s].ver <= clock'
      /\ content'[s].line = content[s].line
      /\ content' = [content EXCEPT ![s] = content'[s]]
      /\ clock' \in Nat /\ clock <= clock'
  <2>1. CASE content' = [content EXCEPT ![s] = filling[s]] /\ UNCHANGED clock
    BY <1>1, <2>1 DEF IInv, TypeOK
  <2>2. CASE ~(content' = [content EXCEPT ![s] = filling[s]] /\ UNCHANGED clock)
    <3>1. /\ clock < MaxStamp /\ clock' = clock + 1
          /\ \E o \in BOOLEAN : content' =
               [content EXCEPT ![s] = [filling[s] EXCEPT !.ver = clock + 1, !.open = o]]
      BY <2>2, Zenon DEF FillSession
    <3>2. PICK o \in BOOLEAN :
            content' = [content EXCEPT ![s] = [filling[s] EXCEPT !.ver = clock + 1, !.open = o]]
      BY <3>1
    <3>3. clock + 1 \in 0..MaxStamp
      BY <1>1, <3>1, ResurrectionAssumption
    <3>4. content'[s] = [filling[s] EXCEPT !.ver = clock + 1, !.open = o]
      BY <3>2 DEF IInv, TypeOK
    <3>5. filling[s] \in Contents
      BY <1>1
    <3>6. /\ content'[s] \in Contents /\ content'[s].ver = clock + 1
          /\ content'[s].line = filling[s].line
      BY <3>3, <3>4, <3>5 DEF Contents
    <3>7. clock' \in Nat /\ clock <= clock' /\ clock + 1 <= clock'
      BY <1>1, <3>1
    <3>8. content' = [content EXCEPT ![s] = content'[s]]
      BY <3>2, <3>4
    <3>9. content'[s] \in Contents /\ content'[s].ver <= clock'
      BY <3>6, <3>7
    <3> QED
      BY <1>1, <3>6, <3>7, <3>8, <3>9
  <2> QED
    BY <2>1, <2>2
<1>3. /\ filling' = [filling EXCEPT ![s] = None]
      /\ UNCHANGED <<daemon, pending, phase, name, pc, buf, disk>>
  BY DEF FillSession, Daemon, Saves, Disk
<1>4. Brought'
  BY <1>1, <1>2, <1>3, BroughtChange
<1> QED
  BY <1>1, <1>2, <1>4 DEF Contents

LEMMA BroughtRead ==
  ASSUME IInv, Brought, NEW s \in Slots, NEW w \in Writers, ReadState(s, w)
  PROVE  Brought'
<1>1. /\ buf' = [buf EXCEPT ![s][w] = content[s]] /\ pc' = [pc EXCEPT ![s][w] = "read"]
      /\ UNCHANGED <<daemon, pending, phase, name, content, filling, disk, clock>>
  BY DEF ReadState, At, Daemon, Sessions, Disk, Counts
<1>2. \A t \in Slots, v \in Writers :
        IF t = s /\ v = w THEN buf'[t][v] = content[t]
                          ELSE buf'[t][v] = buf[t][v] /\ pc'[t][v] = pc[t][v]
  BY <1>1 DEF IInv, TypeOK
<1>3. LinesFollow'
  BY <1>1, <1>2 DEF Brought, LinesFollow, Restorable
<1>4. FilledFirst' /\ AllBrought'
  BY <1>1 DEF Brought, FilledFirst, AllBrought, Restorable, Named
<1> QED
  BY <1>3, <1>4 DEF Brought

(* A save puts in place what its session was a while ago.                  *)
LEMMA BroughtRename ==
  ASSUME IInv, Brought, NEW s \in Slots, NEW w \in Writers, RenameTmp(s, w)
  PROVE  /\ Brought' /\ UNCHANGED content
         /\ disk' = [disk EXCEPT ![name[s]] = disk'[name[s]]]
         /\ disk'[name[s]] \in Contents /\ disk'[name[s]].line = content[s].line
<1>1. /\ name[s] \in Names /\ tmp[name[s]] = buf[s][w] /\ buf[s][w] \in Contents
      /\ phase[s] \notin {"free", "stopped"} /\ pc[s][w] = "written"
  BY DEF IInv, RenameTmp, Renames, Registry, Held, WritersInTurn, Writers, TmpFollows, Saving
<1>2. /\ disk' = [disk EXCEPT ![name[s]] = buf[s][w]]
      /\ pc' = [pc EXCEPT ![s][w] = "idle"] /\ buf' = [buf EXCEPT ![s][w] = None]
      /\ phase' = IF w = "final" THEN [phase EXCEPT ![s] = "stopped"] ELSE phase
      /\ UNCHANGED <<daemon, pending, name, content, filling, clock>>
  BY <1>1, FilesAssumption DEF RenameTmp, Renames, Saved, At, Daemon
<1>3. disk'[name[s]] = buf[s][w] /\ \A m \in Names : m # name[s] => disk'[m] = disk[m]
  BY <1>1, <1>2 DEF IInv, TypeOK
<1>4. buf[s][w].line = content[s].line /\ buf[s][w].ver <= clock
  BY <1>1 DEF Brought, LinesFollow, Saving
<1>5. \A t \in Slots : phase'[t] = "free" <=> phase[t] = "free"
  BY <1>1, <1>2 DEF IInv, TypeOK
<1>6. \A t \in Slots, v \in Writers :
        pc'[t][v] \in Saving => pc[t][v] \in Saving /\ buf'[t][v] = buf[t][v]
  BY <1>2 DEF IInv, TypeOK, Saving
<1>7. \A t \in Slots : phase[t] # "free" => name[t] \in Names /\ (name[t] = name[s] => t = s)
  BY <1>1 DEF IInv, Registry, Held, NamesApart
<1>8. LinesFollow'
  BY <1>2, <1>3, <1>4, <1>5, <1>6, <1>7 DEF Brought, LinesFollow, Restorable
<1>9. FilledFirst'
  BY <1>2 DEF Brought, FilledFirst
<1>10. AllBrought'
  <2>1. Named(name[s])' # {}
    BY <1>1, <1>2, <1>5 DEF Named
  <2>2. \A m \in Names : Named(m) # {} => Named(m)' # {}
    BY <1>2, <1>5 DEF Named
  <2> QED
    BY <1>2, <1>3, <1>4, <2>1, <2>2 DEF Brought, AllBrought, Restorable
<1> QED
  BY <1>1, <1>2, <1>3, <1>4, <1>8, <1>9, <1>10 DEF Brought

LEMMA BroughtEnded ==
  ASSUME IInv, Brought, NEW s \in Slots, Ended(s)
  PROVE  Brought'
<1>1. /\ phase[s] = "stopped" /\ phase' = [phase EXCEPT ![s] = "free"]
      /\ name' = [name EXCEPT ![s] = None] /\ content' = [content EXCEPT ![s] = None]
      /\ fate[s] = "kill" => disk' = [disk EXCEPT ![name[s]] = None]
      /\ fate[s] # "kill" => disk' = disk
      /\ UNCHANGED <<daemon, pending, filling, pc, buf, clock>>
  BY DEF Ended, Daemon, Saves, Counts
<1>2. phase'[s] = "free" /\ \A t \in Slots : t # s =>
        phase'[t] = phase[t] /\ name'[t] = name[t] /\ content'[t] = content[t]
  BY <1>1 DEF IInv, TypeOK
<1>3. name[s] \in Names
  BY <1>1 DEF IInv, Registry, Held
<1>4. \A m \in Names : disk'[m] \in Contents =>
        disk'[m] = disk[m] /\ (m = name[s] => fate[s] # "kill")
  BY <1>1, <1>3, FilesAssumption DEF IInv, TypeOK
<1>5. \A t \in Slots : phase[t] # "free" => name[t] \in Names
  BY DEF IInv, Registry, Held
<1>6. fate[s] # "kill" => daemon = "stopping"
  BY <1>1 DEF IInv, Registry, Lifetimes
<1>7. LinesFollow'
  BY <1>1, <1>2, <1>4, <1>5 DEF Brought, LinesFollow, Restorable
<1>8. FilledFirst'
  <2>1. filling[s] = None
    BY <1>1 DEF IInv, Registry, Held
  <2> QED
    BY <1>1, <1>2, <2>1 DEF Brought, FilledFirst
<1>9. AllBrought'
  <2>1. \A m \in Names : m # name[s] /\ Named(m) # {} => Named(m)' # {}
    BY <1>1, <1>2 DEF Named
  <2> QED
    BY <1>1, <1>4, <1>6, <2>1 DEF Brought, AllBrought, Restorable
<1> QED
  BY <1>7, <1>8, <1>9 DEF Brought

LEMMA BroughtCrash ==
  ASSUME Brought, Crash
  PROVE  Brought'
<1>1. LinesFollow'
  BY DEF Crash, Free, LinesFollow
<1>2. FilledFirst'
  BY DEF Crash, Free, FilledFirst
<1>3. AllBrought'
  BY DEF Crash, Free, Disk, Counts, Brought, AllBrought, Restorable
<1> QED
  BY <1>1, <1>2, <1>3 DEF Brought

(* A start brings back everything that can be.                             *)
LEMMA BroughtStart ==
  ASSUME IInv, Brought, Start(TRUE)
  PROVE  Brought'
<1>1. /\ daemon = "down" /\ daemon' = "restoring" /\ pending' = {n \in Names : disk[n] # None}
      /\ UNCHANGED <<phase, name, content, filling, pc, buf, disk, clock>>
  BY DEF Start, Sessions, Saves, Counts
<1>2. \A s \in Slots : phase[s] = "free" /\ filling[s] = None
  BY <1>1 DEF IInv, Registry, Lifetimes, Held
<1>3. LinesFollow' /\ FilledFirst'
  BY <1>1, <1>2 DEF LinesFollow, FilledFirst
<1>4. AllBrought'
  BY <1>1, FilesAssumption DEF Brought, AllBrought, Restorable
<1> QED
  BY <1>3, <1>4 DEF Brought

(* What goes, is spoilt or is refused cannot be brought back, or there is  *)
(* nobody to.                                                              *)
LEMMA BroughtGone ==
  ASSUME IInv, Brought, NEW n \in Names, Damage(n) \/ Discard(n) \/ RestoreRefused(n)
  PROVE  Brought'
<1>1. /\ disk' = [disk EXCEPT ![n] = disk'[n]] /\ disk'[n] \in {None, Bad, Unusable}
      /\ pending' \subseteq pending /\ pending \subseteq pending' \cup {n}
      /\ UNCHANGED <<daemon, phase, name, content, filling, pc, buf, clock>>
  BY DEF Damage, Discard, RestoreRefused, Daemon, Sessions, Saves, Disk, Counts, IInv, TypeOK
<1>2. \A m \in Names : disk'[m] \in Contents => m # n /\ disk'[m] = disk[m]
  BY <1>1, FilesAssumption DEF IInv, TypeOK
<1>3. \A t \in Slots : phase[t] # "free" => name[t] \in Names
  BY DEF IInv, Registry, Held
<1>4. LinesFollow'
  BY <1>1, <1>2, <1>3 DEF Brought, LinesFollow, Restorable
<1>5. FilledFirst'
  BY <1>1 DEF Brought, FilledFirst
<1>6. AllBrought'
  BY <1>1, <1>2 DEF Brought, AllBrought, Restorable, Named
<1> QED
  BY <1>4, <1>5, <1>6 DEF Brought

LEMMA BroughtHolds ==
  ASSUME ~Reuse, Restores \subseteq {TRUE}, IInv, Brought, [Next]_vars
  PROVE  Brought'
<1>1. CASE UNCHANGED vars
  BY <1>1, BroughtStays DEF vars
<1>2. CASE Next
  <2>1. CASE \E s \in Slots, n \in Names : Create(s, n) \/ Restore(s, n) \/ Resurrect(s, n)
    BY <2>1, BroughtCreate, BroughtRestore, BroughtResurrect
  <2>2. CASE \E s \in Slots : \/ Mutate(s) \/ Kill(s) \/ NextInQueue(s) \/ StopSaver(s)
                              \/ Ended(s) \/ FillSession(s) \/ TickWhenDue(s)
    <3>1. "saver" \in Writers
      BY DEF Writers
    <3> QED
      BY <2>2, <3>1, BroughtMutate, BroughtUndisturbed, BroughtEnded, BroughtFill
  <2>3. CASE \E s \in Slots, w \in Writers : \/ ReadState(s, w) \/ OpenTmp(s, w)
                                             \/ WriteTmp(s, w) \/ RenameTmp(s, w)
                                             \/ SaveFails(s, w)
    BY <2>3, BroughtRead, BroughtUndisturbed, BroughtRename
  <2>4. CASE \E n \in Names : Damage(n) \/ Discard(n) \/ RestoreRefused(n)
    BY <2>4, BroughtGone
  <2>5. CASE \E restore \in Restores : Start(restore)
    BY <2>5, BroughtStart
  <2>6. CASE Shutdown \/ Exit \/ Crash \/ Serve
    BY <2>6, BroughtAcross, BroughtCrash
  <2> QED
    BY <1>2, <2>1, <2>2, <2>3, <2>4, <2>5, <2>6 DEF Next
<1> QED
  BY <1>1, <1>2

(* One step and the saved states: only a save or a removal touches one     *)
(* that can be brought back, and the save is of the session it is of.      *)
LEMMA SavedLeft ==
  ASSUME ~Reuse, IInv, Brought, Next, NEW n \in Names, Restorable(n),
         disk'[n] \notin {disk[n], Bad, Unusable}, Killing(n) = {}
  PROVE  disk'[n] \in Contents /\ disk'[n].line = disk[n].line
<1>1. disk[n] \in Contents /\ disk[n].open /\ disk[n] \notin {None, Torn, Bad}
  BY FilesAssumption DEF Restorable
<1>2. CASE \E s \in Slots, w \in Writers : RenameTmp(s, w)
  <2>1. PICK s \in Slots, w \in Writers : RenameTmp(s, w)
    BY <1>2
  <2>2. /\ disk' = [disk EXCEPT ![name[s]] = disk'[name[s]]]
        /\ disk'[name[s]] \in Contents /\ disk'[name[s]].line = content[s].line
    BY <2>1, BroughtRename
  <2>3. name[s] = n
    BY <2>2 DEF IInv, TypeOK
  <2>4. phase[s] # "free"
    BY <2>1 DEF IInv, RenameTmp, Renames, Registry, WritersInTurn, Writers
  <2> QED
    BY <2>2, <2>3, <2>4 DEF Brought, LinesFollow
<1>3. CASE \E s \in Slots : Ended(s)
  <2>1. PICK s \in Slots : Ended(s)
    BY <1>3
  <2>2. fate[s] = "kill" /\ phase[s] = "stopped" /\ name[s] = n
    BY <2>1 DEF Ended, IInv, TypeOK
  <2> QED
    BY <2>2 DEF Killing, Named
<1>4. CASE \E s \in Slots, m \in Names : Resurrect(s, m)
  BY <1>1, <1>4, BroughtResurrect DEF IInv, TypeOK
<1>5. CASE \E m \in Names : Damage(m) \/ Discard(m)
  BY <1>1, <1>5 DEF Damage, Discard, IInv, TypeOK
<1>6. CASE \E s \in Slots, w \in Writers : WriteTmp(s, w)
  <2>1. PICK s \in Slots, w \in Writers : WriteTmp(s, w)
    BY <1>6
  <2>2. disk' = disk
    BY <2>1, FilesAssumption DEF IInv, TmpFollows, WriteTmp
  <2> QED
    BY <2>2
<1>7. CASE UNCHANGED disk
  BY <1>7
<1> QED
  BY <1>2, <1>3, <1>4, <1>5, <1>6, <1>7
  DEF Next, Create, Restore, RestoreInto, Mutate, Kill, NextInQueue, StopSaver, FillSession, TickWhenDue,
      Tick, ReadState, OpenTmp, SaveFails, RestoreRefused, Start, Shutdown, Exit, Crash, Serve, Disk

LEMMA SessionsKept ==
  ASSUME ~Reuse, IInv, Brought, Next, NEW s \in Slots, phase[s] = "live", phase'[s] = "live"
  PROVE  content'[s].ver >= content[s].ver
<1>1. content[s].ver \in Nat
  BY DEF IInv, Registry, Held, Contents
<1>2. CASE Mutate(s) \/ FillSession(s)
  BY <1>2, BroughtMutate, BroughtFill
<1>3. CASE content'[s] = content[s]
  BY <1>1, <1>3
<1>4. CASE \E t \in Slots, n \in Names : Create(t, n) \/ Restore(t, n)
  <2>1. PICK t \in Slots, n \in Names, c \in Contents, f \in Contents \cup {None} : Register(t, n, c, f)
    <3>1. ASSUME NEW t \in Slots, NEW n \in Names, Create(t, n)
          PROVE  \E c \in Contents : Register(t, n, c, None)
      <4>1. [line |-> clock + 1, ver |-> 0, open |-> FALSE] \in Contents
        BY <3>1, ResurrectionAssumption DEF Create, IInv, TypeOK, Contents
      <4> QED
        BY <3>1, <4>1 DEF Create
    <3>2. ASSUME NEW t \in Slots, NEW n \in Names, Restore(t, n)
          PROVE  \E c \in Contents : Register(t, n, c, disk[n])
      <4>1. [disk[n] EXCEPT !.ver = 0, !.open = FALSE] \in Contents
        <5>1. 0 \in 0..MaxStamp /\ FALSE \in BOOLEAN /\ disk[n] \in Contents
          BY <3>2, ResurrectionAssumption DEF Restore, RestoreInto
        <5> QED
          BY <5>1, ChangedContents
      <4> QED
        BY <3>2, <4>1 DEF Restore, RestoreInto
    <3>3. ASSUME NEW n \in Names, NEW t \in Slots, Restore(t, n)
          PROVE  disk[n] \in Contents
      BY <3>3 DEF Restore, RestoreInto
    <3> QED
      BY <1>4, <3>1, <3>2, <3>3
  <2>2. content' = [content EXCEPT ![t] = c] /\ t # s
    BY <2>1 DEF Register
  <2> QED
    BY <1>3, <2>2 DEF IInv, TypeOK
<1>5. CASE \E t \in Slots, n \in Names : Resurrect(t, n)
  BY <1>3, <1>5, BroughtResurrect
<1>6. CASE \E t \in Slots : t # s /\ (Mutate(t) \/ FillSession(t))
  BY <1>3, <1>6 DEF Mutate, FillSession, IInv, TypeOK
<1>7. CASE \E t \in Slots : Ended(t)
  BY <1>3, <1>7 DEF Ended, IInv, TypeOK
<1>8. CASE Crash
  BY <1>8 DEF Crash, Free
<1>9. CASE UNCHANGED content
  BY <1>3, <1>9
<1>10. ASSUME NEW t \in Slots,
               \/ Kill(t) \/ NextInQueue(t) \/ StopSaver(t) \/ TickWhenDue(t)
               \/ \E w \in Writers : ReadState(t, w) \/ OpenTmp(t, w) \/ WriteTmp(t, w)
       PROVE  UNCHANGED content
  BY <1>10 DEF Kill, NextInQueue, StopSaver, TickWhenDue, Tick, ReadState, OpenTmp, WriteTmp, Sessions
<1>11. ASSUME NEW t \in Slots, NEW w \in Writers, RenameTmp(t, w) \/ SaveFails(t, w)
       PROVE  UNCHANGED content
  BY <1>11 DEF RenameTmp, Renames, SaveFails, Saved, Sessions
<1>12. ASSUME \/ \E n \in Names : Damage(n) \/ Discard(n) \/ RestoreRefused(n)
              \/ \E restore \in Restores : Start(restore)
              \/ Shutdown \/ Exit \/ Serve
       PROVE  UNCHANGED content
  BY <1>12 DEF Damage, Discard, RestoreRefused, Start, Shutdown, Exit, Serve, Sessions
<1> QED
  BY <1>2, <1>4, <1>5, <1>6, <1>7, <1>8, <1>9, <1>10, <1>11, <1>12 DEF Next

LEMMA BroughtInvariance == ~Reuse /\ Restores \subseteq {TRUE} => (Spec => []Brought)
<1>1. CASE ~Reuse /\ Restores \subseteq {TRUE}
  <2>1. Init => Brought
    BY FilesAssumption
    DEF Init, Brought, LinesFollow, FilledFirst, AllBrought, Restorable
  <2>2. IInv /\ Brought /\ [Next]_vars => Brought'
    BY <1>1, BroughtHolds
  <2> QED
    BY <1>1, <2>1, <2>2, Invariance, PTL DEF Spec
<1> QED
  BY <1>1

(* Restores and saves keep what is newer, on disk and in the session, in a *)
(* daemon that restores what it finds: it does so before it listens, and   *)
(* nobody changes or saves a session before it is filled.                  *)
THEOREM RestoreKeepsHolds == ~Reuse /\ Restores \subseteq {TRUE} => (Spec => RestoreKeeps)
<1>1. CASE ~Reuse /\ Restores \subseteq {TRUE}
  <2>1. IInv /\ Brought /\ [Next]_vars =>
          [\A n \in Names :
             \/ disk[n] \notin Contents \/ disk'[n] \in {disk[n], Bad, Unusable}
             \/ ~disk[n].open \/ Killing(n) # {}
             \/ disk'[n] \in Contents /\ disk'[n].line = disk[n].line]_vars
    BY <1>1, SavedLeft DEF Restorable
  <2>2. IInv /\ Brought /\ [Next]_vars =>
          [\A s \in Slots :
             phase[s] = "live" /\ phase'[s] = "live" => content'[s].ver >= content[s].ver]_vars
    BY <1>1, SessionsKept
  <2> QED
    BY <1>1, <2>1, <2>2, Invariance, BroughtInvariance, PTL
    DEF Spec, RestoreKeeps, SavedLeftAlone, ChangesStay
<1> QED
  BY <1>1

-----------------------------------------------------------------------------
(* The saved states are SavedStates': what a slot is, holds and has taken, *)
(* and what is saved.                                                      *)

Owner(s) == IF phase[s] = "free" THEN None ELSE name[s]
Holds(s) == IF phase[s] = "free" THEN None ELSE content[s]

(* A restored session is filled with what is its own.                      *)
FillsItsOwn == \A s \in Slots : filling[s] # None => filling[s].line = content[s].line

LEMMA FillsItsOwnHolds == ASSUME IInv, FillsItsOwn, [Next]_vars PROVE FillsItsOwn'
<1>1. CASE UNCHANGED <<content, filling>>
  BY <1>1 DEF FillsItsOwn
<1>2. ASSUME NEW s \in Slots, NEW n \in Names, RestoreInto(s, n)
      PROVE  FillsItsOwn'
  <2> DEFINE c == [disk[n] EXCEPT !.ver = 0, !.open = FALSE]
  <2>1. c.line = disk[n].line
    BY <1>2 DEF RestoreInto, Contents
  <2>2. content' = [content EXCEPT ![s] = c] /\ filling' = [filling EXCEPT ![s] = disk[n]]
    BY <1>2 DEF RestoreInto, Register
  <2> HIDE DEF c
  <2> QED
    BY <2>1, <2>2 DEF FillsItsOwn, IInv, TypeOK
<1>3. ASSUME NEW s \in Slots, NEW n \in Names, Create(s, n)
      PROVE  FillsItsOwn'
  BY <1>3 DEF Create, Register, FillsItsOwn, IInv, TypeOK
<1>4. ASSUME NEW s \in Slots, Mutate(s)
      PROVE  FillsItsOwn'
  <2>1. PICK o \in BOOLEAN :
          content' = [content EXCEPT ![s] = [content[s] EXCEPT !.ver = clock + 1, !.open = o]]
    BY <1>4 DEF Mutate
  <2>2. content[s] \in Contents
    BY <1>4 DEF Mutate, IInv, Registry, Held
  <2>3. [content[s] EXCEPT !.ver = clock + 1, !.open = o].line = content[s].line
    BY <2>2 DEF Contents
  <2>4. filling' = filling
    BY <1>4 DEF Mutate
  <2> QED
    BY <2>1, <2>3, <2>4 DEF FillsItsOwn, IInv, TypeOK
<1>5. ASSUME NEW s \in Slots, FillSession(s)
      PROVE  FillsItsOwn'
  <2>1. /\ filling' = [filling EXCEPT ![s] = None]
        /\ \A t \in Slots : t # s => content'[t] = content[t]
    BY <1>5 DEF FillSession, IInv, TypeOK
  <2> QED
    BY <2>1 DEF FillsItsOwn, IInv, TypeOK
<1>6. ASSUME NEW s \in Slots, Ended(s)
      PROVE  FillsItsOwn'
  <2>1. filling' = filling /\ filling[s] = None /\ content' = [content EXCEPT ![s] = None]
    BY <1>6 DEF Ended, IInv, Registry, Held
  <2> QED
    BY <2>1 DEF FillsItsOwn, IInv, TypeOK
<1>7. CASE Crash
  BY <1>7 DEF Crash, Free, FillsItsOwn
<1>8. ASSUME NEW s \in Slots, Kill(s) \/ NextInQueue(s) \/ StopSaver(s) \/ TickWhenDue(s)
      PROVE  UNCHANGED <<content, filling>>
  BY <1>8 DEF Kill, NextInQueue, StopSaver, TickWhenDue, Tick
<1>9. ASSUME NEW s \in Slots, NEW w \in Writers,
             \/ ReadState(s, w) \/ OpenTmp(s, w) \/ WriteTmp(s, w) \/ RenameTmp(s, w)
             \/ SaveFails(s, w)
      PROVE  UNCHANGED <<content, filling>>
  BY <1>9 DEF ReadState, OpenTmp, WriteTmp, RenameTmp, Renames, SaveFails, Saved, Sessions
<1>10. ASSUME NEW n \in Names, Damage(n) \/ Discard(n) \/ RestoreRefused(n)
       PROVE  UNCHANGED <<content, filling>>
  BY <1>10 DEF Damage, Discard, RestoreRefused, Sessions
<1>11. CASE (\E restore \in Restores : Start(restore)) \/ Shutdown \/ Exit \/ Serve
  BY <1>1, <1>11 DEF Start, Shutdown, Exit, Serve, Sessions
<1>12. ASSUME NEW s \in Slots, NEW n \in Names, Restore(s, n) \/ Resurrect(s, n)
       PROVE  FillsItsOwn'
  BY <1>1, <1>2, <1>12 DEF Restore, Resurrect, Sessions
<1> QED
  BY <1>1, <1>3, <1>4, <1>5, <1>6, <1>7, <1>8, <1>9, <1>10, <1>11, <1>12 DEF Next, vars

(* What a session has taken is what its one writer at work has taken.      *)
LEMMA SaverIsAlone ==
  ASSUME IInv, NEW s \in Slots
  PROVE  /\ phase[s] = "free" => Taken(s) = None
         /\ pc[s]["saver"] # "idle" => pc[s]["final"] = "idle"
         /\ \A w \in Writers : pc[s][w] \in Saving => Taken(s) = buf[s][w] /\ Taken(s) # None
         /\ \A w \in Writers : pc[s][w] = "taken" => Taken(s) = None
         /\ (\A w \in Writers : pc[s][w] \notin Saving) => Taken(s) = None
<1>1. pc[s]["saver"] # "idle" => pc[s]["final"] = "idle"
  BY DEF IInv, Registry, WritersInTurn
<1>2. \A w \in Writers : pc[s][w] # "idle" => phase[s] # "free"
  BY DEF IInv, Registry, WritersInTurn, Writers
<1>3. \A w \in Writers : pc[s][w] \in Saving => buf[s][w] # None
  BY FilesAssumption DEF IInv, TmpFollows
<1> QED
  BY <1>1, <1>2, <1>3 DEF Taken, Writers, Saving

(* A step that is not seen.                                                *)
LEMMA StoreSame ==
  ASSUME \A s \in Slots : Owner(s)' = Owner(s) /\ Holds(s)' = Holds(s) /\ Taken(s)' = Taken(s),
         disk' = disk
  PROVE  UNCHANGED Store!vars
  BY DEF Owner, Holds, Store!vars

LEMMA StoreBegins ==
  ASSUME NEW s \in Slots, NEW n \in Names, NEW c \in Contents, c.ver = 0, Owner(s) = None,
         \A t \in Slots : Owner(t) # n, disk' = disk,
         Owner(s)' = n, Holds(s)' = c,
         \A t \in Slots : Taken(t)' = Taken(t)
                          /\ (t # s => Owner(t)' = Owner(t) /\ Holds(t)' = Holds(t))
  PROVE  Store!Next
<1>1. Store!Begin(s, n)
  BY DEF Store!Begin, Store!Unused, Owner, Holds
<1> QED
  BY <1>1 DEF Store!Next

LEMMA StoreChanges ==
  ASSUME NEW s \in Slots, NEW c \in Contents, c.line = Holds(s).line, Owner(s) # None,
         disk' = disk, Holds(s)' = c,
         \A t \in Slots : /\ Taken(t)' = Taken(t) /\ Owner(t)' = Owner(t)
                          /\ t # s => Holds(t)' = Holds(t)
  PROVE  Store!Next
<1>1. Store!Change(s)
  BY DEF Store!Change, Owner, Holds
<1> QED
  BY <1>1 DEF Store!Next

LEMMA StoreTakes ==
  ASSUME NEW s \in Slots, Owner(s) # None, Taken(s) = None, Taken(s)' = Holds(s), disk' = disk,
         \A t \in Slots : /\ Holds(t)' = Holds(t) /\ Owner(t)' = Owner(t)
                          /\ t # s => Taken(t)' = Taken(t)
  PROVE  Store!Next
<1>1. Store!Take(s)
  BY DEF Store!Take, Owner, Holds
<1> QED
  BY <1>1 DEF Store!Next

(* What was taken is put in place, or given up.                            *)
LEMMA StorePuts ==
  ASSUME NEW s \in Slots, Taken(s) # None, Taken(s)' = None,
         disk' = disk \/ disk' = [disk EXCEPT ![Owner(s)] = Taken(s)],
         \A t \in Slots : /\ Holds(t)' = Holds(t) /\ Owner(t)' = Owner(t)
                          /\ t # s => Taken(t)' = Taken(t)
  PROVE  Store!Next
<1>1. Store!Put(s) \/ Store!GiveUp(s)
  BY DEF Store!Put, Store!GiveUp, Owner, Holds
<1> QED
  BY <1>1 DEF Store!Next

LEMMA StoreEnds ==
  ASSUME NEW s \in Slots, Owner(s) # None, Taken(s) = None, Owner(s)' = None, Holds(s)' = None,
         disk' = disk \/ disk' = [disk EXCEPT ![Owner(s)] = None],
         \A t \in Slots : Taken(t)' = Taken(t)
                          /\ (t # s => Owner(t)' = Owner(t) /\ Holds(t)' = Holds(t))
  PROVE  Store!Next
<1>1. Store!End(s)
  BY DEF Store!End, Owner, Holds
<1> QED
  BY <1>1 DEF Store!Next

LEMMA StoreCrashes ==
  ASSUME \A t \in Slots : Owner(t)' = None /\ Holds(t)' = None /\ Taken(t)' = None, disk' = disk
  PROVE  Store!Next
<1>1. Store!Crash
  BY DEF Store!Crash, Store!NoOne, Owner, Holds
<1> QED
  BY <1>1 DEF Store!Next

LEMMA StoreLoses ==
  ASSUME NEW n \in Names,
         \/ /\ disk[n] \in {Bad, Unusable} \/ \A t \in Slots : Owner(t) # n
            /\ disk' = [disk EXCEPT ![n] = None]
         \/ /\ disk[n] # None /\ \A t \in Slots : Owner(t) = None
            /\ \E f \in {Bad, Unusable} : disk' = [disk EXCEPT ![n] = f],
         \A t \in Slots : Holds(t)' = Holds(t) /\ Owner(t)' = Owner(t) /\ Taken(t)' = Taken(t)
  PROVE  Store!Next
<1>1. Store!Drop(n) \/ Store!Spoil(n)
  BY DEF Store!Drop, Store!Spoil, Store!Unused, Store!NoOne, Owner, Holds
<1> QED
  BY <1>1 DEF Store!Next

(* A session enters the registry under a name nobody has.                  *)
LEMMA RegisterBegins ==
  ASSUME ~Reuse, IInv, NEW s \in Slots, NEW n \in Names, NEW c \in Contents, c.ver = 0,
         NEW toFill, Register(s, n, c, toFill), daemon \in {"restoring", "up"},
         UNCHANGED <<pc, buf, disk>>
  PROVE  Store!Next
<1>1. phase[s] = "free" /\ \A t \in Slots : phase[t] # "free" => name[t] # n
  BY DEF Register, Live, Killing, Named, IInv, Registry, Lifetimes
<1>2. /\ phase' = [phase EXCEPT ![s] = "live"] /\ name' = [name EXCEPT ![s] = n]
      /\ content' = [content EXCEPT ![s] = c]
  BY DEF Register
<1>3. n # None
  BY ResurrectionAssumption
<1>4. Owner(s) = None /\ \A t \in Slots : Owner(t) # n
  BY <1>1, <1>3 DEF Owner
<1>5. Owner(s)' = n /\ Holds(s)' = c
  BY <1>2 DEF Owner, Holds, IInv, TypeOK
<1>6. \A t \in Slots : t # s => Owner(t)' = Owner(t) /\ Holds(t)' = Holds(t)
  BY <1>2 DEF Owner, Holds, IInv, TypeOK
<1>7. \A t \in Slots : Taken(t)' = Taken(t)
  BY DEF Taken
<1> QED
  BY <1>4, <1>5, <1>6, <1>7, StoreBegins

LEMMA CreateBegins ==
  ASSUME ~Reuse, IInv, NEW s \in Slots, NEW n \in Names, Create(s, n) PROVE Store!Next
<1>1. [line |-> clock + 1, ver |-> 0, open |-> FALSE] \in Contents
  BY ResurrectionAssumption DEF Create, IInv, TypeOK, Contents
<1> QED
  BY <1>1, RegisterBegins DEF Create, Saves, Disk

LEMMA RestoreBegins ==
  ASSUME ~Reuse, IInv, NEW s \in Slots, NEW n \in Names, RestoreInto(s, n),
         daemon \in {"restoring", "up"}
  PROVE  Store!Next
<1>1. disk[n] \in Contents /\ 0 \in 0..MaxStamp /\ FALSE \in BOOLEAN
  BY ResurrectionAssumption DEF RestoreInto
<1>2. /\ [disk[n] EXCEPT !.ver = 0, !.open = FALSE] \in Contents
      /\ [disk[n] EXCEPT !.ver = 0, !.open = FALSE].ver = 0
  BY <1>1, ChangedContents
<1> QED
  BY <1>2, RegisterBegins DEF RestoreInto, Saves, Disk

LEMMA ResurrectStored ==
  ASSUME ~Reuse, IInv, NEW s \in Slots, NEW n \in Names, Resurrect(s, n) PROVE Store!Next
<1>1. CASE RestoreInto(s, n)
  BY <1>1, RestoreBegins DEF Resurrect
<1>2. CASE /\ disk[n] \in {Torn, Bad} /\ disk' = [disk EXCEPT ![n] = None]
           /\ UNCHANGED <<phase, name, content, pc, buf>>
  <2>1. disk[n] = Bad
    BY <1>2 DEF IInv, OnDisk, SavedIsWhole
  <2>2. \A t \in Slots : Holds(t)' = Holds(t) /\ Owner(t)' = Owner(t) /\ Taken(t)' = Taken(t)
    BY <1>2 DEF Holds, Owner, Taken
  <2> QED
    BY <1>2, <2>1, <2>2, StoreLoses
<1> QED
  BY <1>1, <1>2 DEF Resurrect, Sessions, Saves

(* A session changes, or takes over what it is restored to.                *)
LEMMA ChangeStored ==
  ASSUME IInv, FillsItsOwn, NEW s \in Slots, Mutate(s) \/ FillSession(s) PROVE Store!Next
<1>1. phase[s] # "free" /\ name[s] \in Names /\ content[s] \in Contents
  BY DEF Mutate, FillSession, IInv, Registry, Held
<1>2. UNCHANGED <<phase, name, pc, buf, disk>>
  BY DEF Mutate, FillSession, Saves, Disk
<1>3. PICK c \in Contents : c.line = content[s].line /\ content' = [content EXCEPT ![s] = c]
  <2>1. ASSUME NEW d \in Contents, NEW o \in BOOLEAN, clock < MaxStamp
        PROVE  /\ [d EXCEPT !.ver = clock + 1, !.open = o] \in Contents
               /\ [d EXCEPT !.ver = clock + 1, !.open = o].line = d.line
    <3>1. clock + 1 \in 0..MaxStamp
      BY <2>1, ResurrectionAssumption DEF IInv, TypeOK
    <3>2. [d EXCEPT !.ver = clock + 1, !.open = o].line = d.line
      BY DEF Contents
    <3> QED
      BY <3>1, <3>2, ChangedContents
  <2>2. CASE Mutate(s)
    BY <1>1, <2>1, <2>2 DEF Mutate
  <2>3. CASE FillSession(s)
    <3>1. filling[s] \in Contents /\ filling[s].line = content[s].line
      BY <2>3 DEF FillSession, FillsItsOwn, IInv, TypeOK
    <3> QED
      BY <2>1, <2>3, <3>1 DEF FillSession
  <2> QED
    BY <2>2, <2>3
<1>4. Holds(s) = content[s] /\ Owner(s) # None /\ Holds(s)' = c
  BY <1>1, <1>2, <1>3, ResurrectionAssumption DEF Holds, Owner, IInv, TypeOK
<1>5. \A t \in Slots : Taken(t)' = Taken(t) /\ Owner(t)' = Owner(t)
  BY <1>2 DEF Taken, Owner
<1>6. \A t \in Slots : t # s => Holds(t)' = Holds(t)
  BY <1>2, <1>3 DEF Holds, IInv, TypeOK
<1> QED
  BY <1>2, <1>3, <1>4, <1>5, <1>6, StoreChanges

(* The steps of a save nobody sees, and those of a session on its way out. *)
LEMMA StoreUndisturbed ==
  ASSUME IInv, NEW s \in Slots, NEW w \in Writers,
         \/ Kill(s) \/ NextInQueue(s) \/ StopSaver(s) \/ TickWhenDue(s)
         \/ OpenTmp(s, w) \/ WriteTmp(s, w)
  PROVE  UNCHANGED Store!vars
<1>1. UNCHANGED <<name, content, buf>>
  BY DEF Kill, NextInQueue, StopSaver, TickWhenDue, Tick, OpenTmp, WriteTmp, Sessions, Saves
<1>2. disk' = disk
  BY FilesAssumption
  DEF IInv, TmpFollows, Saving, Kill, NextInQueue, StopSaver, TickWhenDue, Tick, OpenTmp, WriteTmp,
      Disk
<1>3. \A t \in Slots : phase'[t] = "free" <=> phase[t] = "free"
  BY DEF IInv, TypeOK, Registry, WritersInTurn, Kill, NextInQueue, StopSaver, TickWhenDue, Tick,
         OpenTmp, WriteTmp, Sessions
<1>4. \A t \in Slots, v \in Writers : pc'[t][v] \in Saving <=> pc[t][v] \in Saving
  <2>1. \/ pc' = pc
        \/ pc[s]["saver"] = "idle" /\ pc' = [pc EXCEPT ![s]["saver"] = "taken"]
        \/ pc[s]["final"] = "idle" /\ pc' = [pc EXCEPT ![s]["final"] = "taken"]
        \/ pc[s][w] \in Saving /\ pc' = [pc EXCEPT ![s][w] = "open"]
        \/ pc[s][w] \in Saving /\ pc' = [pc EXCEPT ![s][w] = "written"]
    <3>1. CASE StopSaver(s)
      <4>1. pc[s]["final"] = "idle"
        BY <3>1 DEF StopSaver, IInv, Registry, WritersInTurn
      <4> QED
        BY <3>1, <4>1 DEF StopSaver, At
    <3>2. CASE OpenTmp(s, w) \/ WriteTmp(s, w)
      BY <3>2 DEF OpenTmp, WriteTmp, At, Saving
    <3>3. CASE Kill(s) \/ NextInQueue(s) \/ TickWhenDue(s)
      BY <3>3 DEF Kill, NextInQueue, TickWhenDue, Tick, At, Saves
    <3> QED
      BY <3>1, <3>2, <3>3
  <2>2. ASSUME NEW x \in Writers, NEW at, pc' = [pc EXCEPT ![s][x] = at],
               at \in Saving <=> pc[s][x] \in Saving
        PROVE  \A t \in Slots, v \in Writers : pc'[t][v] \in Saving <=> pc[t][v] \in Saving
    <3>1. /\ pc'[s][x] = at
          /\ \A t \in Slots, v \in Writers : ~(t = s /\ v = x) => pc'[t][v] = pc[t][v]
      BY <2>2 DEF IInv, TypeOK
    <3> QED
      BY <2>2, <3>1
  <2>3. /\ {"open", "written"} \subseteq Saving /\ "taken" \notin Saving /\ "idle" \notin Saving
        /\ "saver" \in Writers /\ "final" \in Writers
    BY DEF Saving, Writers
  <2> QED
    BY <2>1, <2>2, <2>3
<1>5. \A t \in Slots : Taken(t)' = Taken(t)
  BY <1>1, <1>4 DEF Taken, Saving, Writers
<1>6. \A t \in Slots : Owner(t)' = Owner(t) /\ Holds(t)' = Holds(t)
  BY <1>1, <1>3 DEF Owner, Holds
<1> QED
  BY <1>2, <1>5, <1>6, StoreSame

(* A writer takes the state.                                               *)
LEMMA ReadTakes ==
  ASSUME IInv, NEW s \in Slots, NEW w \in Writers, ReadState(s, w) PROVE Store!Next
<1>1. /\ UNCHANGED <<phase, name, content, disk>>
      /\ pc[s][w] = "taken" /\ pc' = [pc EXCEPT ![s][w] = "read"]
      /\ buf' = [buf EXCEPT ![s][w] = content[s]]
  BY DEF ReadState, At, Sessions, Disk
<1>2. phase[s] # "free" /\ name[s] \in Names /\ Taken(s) = None
  BY <1>1, SaverIsAlone DEF IInv, Registry, Held, WritersInTurn, Writers
<1>3. Owner(s) # None /\ Holds(s) = content[s]
  BY <1>2, ResurrectionAssumption DEF Owner, Holds
<1>4. \A v \in Writers : v # w => pc'[s][v] = "idle"
  BY <1>1, SaverIsAlone DEF Writers, IInv, TypeOK
<1>5. pc'[s][w] = "read" /\ buf'[s][w] = content[s]
  BY <1>1 DEF IInv, TypeOK
<1>6. Taken(s)' = content[s]
  BY <1>4, <1>5 DEF Taken, Writers
<1>7. \A t \in Slots : t # s => Taken(t)' = Taken(t)
  BY <1>1 DEF Taken, IInv, TypeOK
<1>8. \A t \in Slots : Owner(t)' = Owner(t) /\ Holds(t)' = Holds(t)
  BY <1>1 DEF Owner, Holds
<1> QED
  BY <1>1, <1>2, <1>3, <1>6, <1>7, <1>8, StoreTakes

(* The rename puts in place what its writer took; a failed save gives up.  *)
LEMMA SaveEnds ==
  ASSUME IInv, NEW s \in Slots, NEW w \in Writers, RenameTmp(s, w) \/ SaveFails(s, w)
  PROVE  Store!Next
<1>1. /\ pc[s][w] \in Saving /\ pc' = [pc EXCEPT ![s][w] = "idle"]
      /\ buf' = [buf EXCEPT ![s][w] = None]
      /\ phase' = IF w = "final" THEN [phase EXCEPT ![s] = "stopped"] ELSE phase
      /\ UNCHANGED <<name, content>>
  BY DEF RenameTmp, Renames, SaveFails, Saved, At, Saving
<1>2. phase[s] # "free" /\ Owner(s) = name[s]
  BY <1>1 DEF IInv, Registry, WritersInTurn, Writers, Saving, Owner
<1>3. Taken(s) = buf[s][w] /\ Taken(s) # None
  BY <1>1, SaverIsAlone
<1>4. disk' = disk \/ disk' = [disk EXCEPT ![Owner(s)] = Taken(s)]
  <2>1. CASE SaveFails(s, w)
    BY <2>1 DEF SaveFails
  <2>2. CASE RenameTmp(s, w)
    <3>1. tmp[name[s]] = buf[s][w]
      BY <2>2 DEF RenameTmp, Renames, IInv, TmpFollows
    <3> QED
      BY <1>2, <1>3, <2>2, <3>1 DEF RenameTmp, Renames, Disk
  <2> QED
    BY <2>1, <2>2
<1>5. \A v \in Writers : pc'[s][v] = "idle"
  <2>1. pc'[s][w] = "idle" /\ \A v \in Writers : v # w => pc'[s][v] = pc[s][v]
    BY <1>1 DEF IInv, TypeOK
  <2>2. \A v \in Writers : v # w => pc[s][v] = "idle"
    BY <1>1, SaverIsAlone DEF Writers, Saving
  <2> QED
    BY <2>1, <2>2
<1>6. Taken(s)' = None
  BY <1>5 DEF Taken, Writers
<1>7. \A t \in Slots : t # s => Taken(t)' = Taken(t)
  BY <1>1 DEF Taken, IInv, TypeOK
<1>8. \A t \in Slots : phase'[t] = "free" <=> phase[t] = "free"
  BY <1>1, <1>2 DEF IInv, TypeOK
<1>9. \A t \in Slots : Owner(t)' = Owner(t) /\ Holds(t)' = Holds(t)
  BY <1>1, <1>8 DEF Owner, Holds
<1> QED
  BY <1>3, <1>4, <1>6, <1>7, <1>9, StorePuts

LEMMA EndedStored ==
  ASSUME IInv, NEW s \in Slots, Ended(s) PROVE Store!Next
<1>1. /\ phase[s] = "stopped" /\ phase' = [phase EXCEPT ![s] = "free"]
      /\ name' = [name EXCEPT ![s] = None] /\ content' = [content EXCEPT ![s] = None]
      /\ UNCHANGED <<pc, buf>>
  BY DEF Ended, Saves
<1>2. name[s] \in Names /\ Owner(s) = name[s] /\ Owner(s) # None
  BY <1>1, ResurrectionAssumption DEF Owner, IInv, Registry, Held
<1>3. Taken(s) = None /\ \A t \in Slots : Taken(t)' = Taken(t)
  BY <1>1 DEF Taken, IInv, Registry, WritersInTurn
<1>4. Owner(s)' = None /\ Holds(s)' = None
  BY <1>1 DEF Owner, Holds, IInv, TypeOK
<1>5. disk' = disk \/ disk' = [disk EXCEPT ![Owner(s)] = None]
  BY <1>2 DEF Ended
<1>6. \A t \in Slots : t # s => Owner(t)' = Owner(t) /\ Holds(t)' = Holds(t)
  BY <1>1 DEF Owner, Holds, IInv, TypeOK
<1> QED
  BY <1>2, <1>3, <1>4, <1>5, <1>6, StoreEnds

(* Files spoilt while the daemon is down, or put away by its restore.      *)
LEMMA LossStored ==
  ASSUME IInv, NEW n \in Names, Damage(n) \/ Discard(n) PROVE Store!Next
<1>1. \A t \in Slots : Owner(t)' = Owner(t) /\ Holds(t)' = Holds(t) /\ Taken(t)' = Taken(t)
  BY DEF Damage, Discard, Sessions, Saves, Owner, Holds, Taken
<1>2. CASE Damage(n)
  <2>1. \A t \in Slots : Owner(t) = None
    BY <1>2 DEF Damage, Owner, IInv, Registry, Lifetimes
  <2>2. disk[n] # None /\ \E f \in {Bad, Unusable} : disk' = [disk EXCEPT ![n] = f]
    BY <1>2, FilesAssumption DEF Damage
  <2> QED
    BY <1>1, <2>1, <2>2, StoreLoses
<1>3. CASE Discard(n)
  <2>1. \A t \in Slots : Owner(t) # n
    BY <1>3, ResurrectionAssumption DEF Discard, Owner, IInv, Registry, Lifetimes
  <2>2. disk' = [disk EXCEPT ![n] = None]
    BY <1>3 DEF Discard
  <2> QED
    BY <1>1, <2>1, <2>2, StoreLoses
<1> QED
  BY <1>2, <1>3

LEMMA DaemonStored ==
  ASSUME IInv, \/ \E restore \in Restores : Start(restore)
               \/ \E n \in Names : RestoreRefused(n)
               \/ Shutdown \/ Exit \/ Serve
  PROVE  UNCHANGED Store!vars
<1>1. UNCHANGED <<name, content, pc, buf, disk>>
  BY DEF Start, RestoreRefused, Shutdown, Exit, Serve, Sessions, Saves, Disk
<1>2. \A t \in Slots : phase'[t] = "free" <=> phase[t] = "free"
  BY DEF Start, RestoreRefused, Shutdown, Exit, Serve, Sessions
<1>3. \A t \in Slots : Owner(t)' = Owner(t) /\ Holds(t)' = Holds(t) /\ Taken(t)' = Taken(t)
  BY <1>1, <1>2 DEF Owner, Holds, Taken
<1> QED
  BY <1>1, <1>3, StoreSame

LEMMA CrashStored ==
  ASSUME IInv, Crash PROVE Store!Next
<1>1. \A t \in Slots : Owner(t)' = None /\ Holds(t)' = None /\ Taken(t)' = None
  BY DEF Crash, Free, Owner, Holds, Taken, Writers
<1> QED
  BY <1>1, StoreCrashes DEF Crash, Disk

LEMMA EveryStepStored ==
  ASSUME ~Reuse, IInv, FillsItsOwn, [Next]_vars PROVE [Store!Next]_Store!vars
<1>1. CASE UNCHANGED vars
  <2>1. \A t \in Slots : Owner(t)' = Owner(t) /\ Holds(t)' = Holds(t) /\ Taken(t)' = Taken(t)
    BY <1>1 DEF vars, Owner, Holds, Taken
  <2> QED
    BY <1>1, <2>1, StoreSame DEF vars
<1>2. CASE Next
  <2>1. CASE \E s \in Slots, n \in Names : Create(s, n) \/ Restore(s, n) \/ Resurrect(s, n)
    BY <2>1, CreateBegins, RestoreBegins, ResurrectStored DEF Restore
  <2>2. CASE \E s \in Slots : Mutate(s) \/ FillSession(s) \/ Ended(s)
    BY <2>2, ChangeStored, EndedStored
  <2>3. CASE \E s \in Slots : Kill(s) \/ NextInQueue(s) \/ StopSaver(s) \/ TickWhenDue(s)
    <3>1. "saver" \in Writers
      BY DEF Writers
    <3> QED
      BY <2>3, <3>1, StoreUndisturbed
  <2>4. CASE \E s \in Slots, w \in Writers : \/ ReadState(s, w) \/ OpenTmp(s, w)
                                             \/ WriteTmp(s, w) \/ RenameTmp(s, w)
                                             \/ SaveFails(s, w)
    BY <2>4, ReadTakes, StoreUndisturbed, SaveEnds
  <2>5. CASE \E n \in Names : Damage(n) \/ Discard(n)
    BY <2>5, LossStored
  <2>6. CASE \/ \E restore \in Restores : Start(restore)
             \/ \E n \in Names : RestoreRefused(n)
             \/ Shutdown \/ Exit \/ Crash \/ Serve
    BY <2>6, DaemonStored, CrashStored
  <2> QED
    BY <1>2, <2>1, <2>2, <2>3, <2>4, <2>5, <2>6 DEF Next
<1> QED
  BY <1>1, <1>2

(* SaveSessionForResurrection, run by a saver and by Stop, and cut short   *)
(* by a crash anywhere, comes to a saved state replaced as a whole by what *)
(* its session held at one moment: every step is one of SavedStates', or   *)
(* is not seen.                                                            *)
THEOREM SavesAreAtomicHolds == ~Reuse => (Spec => SavesAreAtomic)
<1>1. CASE ~Reuse
  <2>1. Init => Store!Init /\ FillsItsOwn
    <3> SUFFICES ASSUME Init PROVE Store!Init /\ FillsItsOwn
      OBVIOUS
    <3>1. \A s \in Slots : Owner(s) = None /\ Holds(s) = None /\ Taken(s) = None
      BY DEF Init, Owner, Holds, Taken, Writers
    <3> QED
      BY <3>1 DEF Init, FillsItsOwn, Store!Init, Store!NoOne, Owner, Holds
  <2>2. IInv /\ FillsItsOwn /\ [Next]_vars => FillsItsOwn'
    BY FillsItsOwnHolds
  <2>3. IInv /\ FillsItsOwn /\ [Next]_vars => [Store!Next]_Store!vars
    BY <1>1, EveryStepStored
  <2> QED
    BY <1>1, <2>1, <2>2, <2>3, Invariance, PTL DEF Spec, SavesAreAtomic, Store!Spec
<1> QED
  BY <1>1
=============================================================================
