------------------------- MODULE SessionSyncProofs -------------------------
(***************************************************************************)
(* For every number of clients and windows: the types of SessionSync, that *)
(* no client push brings a closed window back or loses an open one, that   *)
(* what the daemon owns moves only with the version, that a focus names an *)
(* open window where no client moves one, and that peers under tiling who  *)
(* neither come nor go settle on the daemon's windows, all placed.         *)
(*                                                                         *)
(* The argument is that a snapshot under way - published, sent, held by a  *)
(* client, or pushed - never has a later version than the session, and one *)
(* of the session's version has its windows and their names (IInv).  On it *)
(* rest AllHomed, that every such snapshot has its own focus at home, and  *)
(* Settling, that a client without the session's windows has something     *)
(* under way that will bring it a sync with them.                          *)
(***************************************************************************)
EXTENDS SessionSync, TLAPS

MaybeWindow == Windows \cup {NoWindow}
SeenWindow  == [ws : Workspaces, min : BOOLEAN, name : Names \cup {NoName}]

----------------------------------------------------------------------------
(* Types of the operators.                                                 *)
LEMMA PerWindowMember ==
  ASSUME NEW S, NEW f
  PROVE  f \in PerWindow(S) <=> DOMAIN f \subseteq Windows /\ f \in [DOMAIN f -> S]
BY DEF PerWindow

LEMMA PerWindowIntro ==
  ASSUME NEW S, NEW D, D \subseteq Windows, NEW f \in [D -> S]
  PROVE  f \in PerWindow(S)
BY DEF PerWindow

LEMMA SnapshotFields ==
  ASSUME NEW s \in Snapshot
  PROVE  /\ s.ver \in Nat /\ s.restored \in BOOLEAN /\ s.label \in Names \cup {NoName}
         /\ DOMAIN s.wins \subseteq Windows /\ s.wins \in [DOMAIN s.wins -> WindowState]
         /\ s.focus \in MaybeWindow /\ s.current \in Workspaces
         /\ s.recall \in [Workspaces -> MaybeWindow]
<1>1. s.wins \in PerWindow(WindowState)
  BY DEF Snapshot
<1>2. DOMAIN s.wins \subseteq Windows /\ s.wins \in [DOMAIN s.wins -> WindowState]
  BY <1>1, PerWindowMember
<1> QED
  BY <1>2 DEF Snapshot, MaybeWindow

(* A snapshot with some of its fields replaced is a snapshot.              *)
LEMMA SnapshotWith ==
  ASSUME NEW s \in Snapshot,
         NEW D, D \subseteq Windows, NEW wins \in [D -> WindowState],
         NEW focus \in MaybeWindow, NEW current \in Workspaces,
         NEW recall \in [Workspaces -> MaybeWindow],
         NEW label \in Names \cup {NoName}, NEW restored \in BOOLEAN, NEW ver \in Nat
  PROVE  [s EXCEPT !.wins = wins, !.focus = focus, !.current = current, !.recall = recall,
                   !.label = label, !.restored = restored, !.ver = ver] \in Snapshot
<1>1. wins \in PerWindow(WindowState)
  BY PerWindowIntro
<1> QED
  BY <1>1 DEF Snapshot, MaybeWindow

LEMMA SnapshotWindows ==
  ASSUME NEW s \in Snapshot, NEW D, D \subseteq Windows, NEW wins \in [D -> WindowState]
  PROVE  [s EXCEPT !.wins = wins] \in Snapshot
<1>1. wins \in PerWindow(WindowState)
  BY PerWindowIntro
<1> QED
  BY <1>1 DEF Snapshot

(* The picture pic holds what the events told so far say of snapshot s.    *)
Follows(pic, s) ==
  /\ pic.wins = Seen(s).wins
  /\ pic.current = s.current
  /\ s.focus # NoWindow => pic.focus = s.focus

LEMMA FollowsIsPictureFollows == PictureFollows <=> Follows(picture, state)
BY DEF PictureFollows, Follows

(* Windows are created visible, on the session's workspace: that is what a *)
(* consumer assumes of a window whose creation it is told of.              *)
LEMMA ToldFollows ==
  ASSUME NEW pic \in Picture, NEW before \in Snapshot, NEW after \in Snapshot,
         Follows(pic, before),
         \A w \in DOMAIN after.wins \ DOMAIN before.wins :
           after.wins[w].ws = before.current /\ after.wins[w].min = FALSE
  PROVE  Told(pic, before, after) \in Picture /\ Follows(Told(pic, before, after), after)
<1> DEFINE told == Told(pic, before, after)
<1>1. /\ DOMAIN before.wins \subseteq Windows /\ before.wins \in [DOMAIN before.wins -> WindowState]
      /\ DOMAIN after.wins \subseteq Windows /\ after.wins \in [DOMAIN after.wins -> WindowState]
      /\ after.focus \in MaybeWindow /\ after.current \in Workspaces
  BY SnapshotFields
<1>2. /\ pic.focus \in MaybeWindow
      /\ pic.wins = [w \in DOMAIN before.wins |->
                       [ws |-> before.wins[w].ws, min |-> before.wins[w].min,
                        name |-> before.wins[w].name]]
      /\ pic.current = before.current
      /\ before.focus # NoWindow => pic.focus = before.focus
  BY DEF Picture, MaybeWindow, Follows, Seen
<1>3. DOMAIN told.wins = DOMAIN after.wins
  BY <1>2 DEF Told
<1>4. ASSUME NEW w \in DOMAIN after.wins
      PROVE  told.wins[w] = [ws |-> after.wins[w].ws, min |-> after.wins[w].min,
                             name |-> after.wins[w].name]
  <2>1. CASE w \notin DOMAIN before.wins
    BY <2>1, <1>2, <1>3 DEF Told
  <2>2. CASE w \in DOMAIN before.wins
    BY <2>2, <1>2, <1>3 DEF Told, ToldChange
  <2> QED
    BY <2>1, <2>2
<1>5. told.wins = Seen(after).wins
  <2>1. told.wins = [w \in DOMAIN told.wins |-> told.wins[w]]
    BY DEF Told
  <2> QED
    BY <2>1, <1>3, <1>4 DEF Seen
<1>6. told.wins \in PerWindow(SeenWindow)
  <2>1. told.wins \in [DOMAIN after.wins -> SeenWindow]
    BY <1>5, <1>1 DEF Seen, SeenWindow, WindowState
  <2> QED
    BY <2>1, <1>1, PerWindowIntro
<1>7. told.current = after.current /\ told.focus \in MaybeWindow
      /\ (after.focus # NoWindow => told.focus = after.focus)
  BY <1>1, <1>2 DEF Told, ToldChange
<1>8. told \in Picture
  BY <1>1, <1>6, <1>7 DEF Told, Picture, SeenWindow, MaybeWindow
<1> QED
  BY <1>5, <1>7, <1>8 DEF Follows

----------------------------------------------------------------------------
(* The invariant.                                                          *)
Named(s) == [w \in DOMAIN s.wins |-> s.wins[w].name]

(* Snapshot x was taken from a session whose state is now s, or from a     *)
(* client's copy of it: if nothing the daemon owns has changed since, it   *)
(* has the session's windows under their names.                            *)
HistoryOf(s, x) ==
  /\ 1 <= x.ver /\ x.ver <= s.ver
  /\ x.ver = s.ver => Named(x) = Named(s)

(* What BuildSessionState leaves out of a push.                            *)
Bare(x) ==
  /\ x.label = NoName
  /\ \A w \in DOMAIN x.wins : x.wins[w].agent = NoAgent

UnderWay ==
  /\ \A x \in publishing : HistoryOf(state, x)
  /\ \A c \in Clients :
       /\ HistoryOf(state, view[c])
       /\ \A x \in inbox[c] : HistoryOf(state, x)
       /\ \A i \in 1..Len(up[c]) : HistoryOf(state, up[c][i]) /\ Bare(up[c][i])

IInv == TypeOK /\ 1 <= state.ver /\ WindowsAreTheDaemons /\ PictureFollows /\ UnderWay

LEMMA StartIsSnapshot == StartState \in Snapshot
<1> DEFINE wins == [w \in {v \in Windows : v = 1} |->
                      [ws |-> 1, min |-> FALSE, name |-> NoName, agent |-> NoAgent, placed |-> TRUE]]
<1>1. wins \in PerWindow(WindowState)
  <2>1. wins \in [{v \in Windows : v = 1} -> WindowState]
    BY SessionSyncAssumption DEF WindowState
  <2> QED
    BY <2>1, PerWindowIntro
<1>2. MaxWin # 0 => 1 \in Windows
  BY SessionSyncAssumption DEF Windows
<1>3. StartState.focus \in MaybeWindow /\ StartState.recall \in [Workspaces -> MaybeWindow]
  BY <1>2 DEF StartState, MaybeWindow
<1> QED
  BY <1>1, <1>3, SessionSyncAssumption DEF StartState, Snapshot, MaybeWindow

LEMMA StartIsSeen == Seen(StartState) \in Picture
<1>1. /\ DOMAIN StartState.wins \subseteq Windows
      /\ StartState.wins \in [DOMAIN StartState.wins -> WindowState]
      /\ StartState.focus \in MaybeWindow /\ StartState.current \in Workspaces
  BY StartIsSnapshot, SnapshotFields
<1>2. Seen(StartState).wins \in [DOMAIN StartState.wins -> SeenWindow]
  BY <1>1 DEF Seen, SeenWindow, WindowState
<1>3. Seen(StartState).wins \in PerWindow(SeenWindow)
  BY <1>1, <1>2, PerWindowIntro
<1> QED
  BY <1>1, <1>3 DEF Seen, Picture, SeenWindow, MaybeWindow

LEMMA InitHolds == Init => IInv
<1> SUFFICES ASSUME Init PROVE IInv
  OBVIOUS
<1>1. StartState \in Snapshot /\ Seen(StartState) \in Picture
  BY StartIsSnapshot, StartIsSeen
<1>2. TypeOK
  <2>1. life \in [Windows -> {"none", "spawned", "open", "closing", "closed"}]
    BY DEF Init
  <2>2. phase \in [Clients -> {"out", "joining", "replying", "in", "leaving"}]
    BY DEF Init
  <2>3. up \in [Clients -> Seq(Snapshot)] /\ inbox \in [Clients -> SUBSET Snapshot]
    BY DEF Init
  <2> QED
    BY <1>1, <2>1, <2>2, <2>3 DEF Init, TypeOK
<1>3. StartState.ver = 1 /\ DOMAIN StartState.wins = {v \in Windows : v = 1}
  BY DEF StartState
<1>4. WindowsAreTheDaemons
  BY <1>3 DEF Init, WindowsAreTheDaemons
<1>5. PictureFollows
  BY DEF Init, PictureFollows, Seen
<1>6. UnderWay
  BY <1>3 DEF Init, UnderWay, HistoryOf
<1> QED
  BY <1>2, <1>3, <1>4, <1>5, <1>6 DEF IInv, Init

----------------------------------------------------------------------------
(* Daemon-side mutations.                                                  *)
(* A mutation puts every snapshot under way into the past.                 *)
LEMMA MutateKeeps ==
  ASSUME IInv, NEW verb, NEW after \in Snapshot, Mutate(verb, after),
         \A w \in DOMAIN after.wins \ DOMAIN state.wins :
           after.wins[w].ws = state.current /\ after.wins[w].min = FALSE,
         life' \in [Windows -> {"none", "spawned", "open", "closing", "closed"}],
         DOMAIN after.wins = {w \in Windows : life'[w] = "open"},
         headless' \in BOOLEAN,
         UNCHANGED <<pushedVersion, clientVars, edits>>
  PROVE  IInv'
<1>1. state \in Snapshot /\ picture \in Picture /\ publishing \subseteq Snapshot
  BY DEF IInv, TypeOK
<1>2. state.ver \in Nat
  BY <1>1, SnapshotFields
<1>3. state' = [after EXCEPT !.ver = state.ver + 1]
  BY DEF Mutate
<1>4. state' \in Snapshot /\ state'.ver = state.ver + 1
      /\ state'.wins = after.wins /\ state'.current = after.current
  BY <1>2, <1>3 DEF Snapshot
<1>5. publishing' = publishing \cup {state'} /\ picture' = Told(picture, state, state')
  BY DEF Mutate
<1>6. picture' \in Picture /\ Follows(picture', state')
  <2>1. Follows(picture, state)
    BY FollowsIsPictureFollows DEF IInv
  <2> QED
    BY <1>1, <1>4, <1>5, <2>1, ToldFollows
<1>7. TypeOK'
  BY <1>1, <1>4, <1>5, <1>6 DEF IInv, TypeOK, clientVars
<1>8. WindowsAreTheDaemons'
  BY <1>4 DEF WindowsAreTheDaemons
<1>9. PictureFollows'
  BY <1>6 DEF PictureFollows, Follows
<1>10. ASSUME NEW x, HistoryOf(state, x), x.ver \in Nat
       PROVE  HistoryOf(state', x)
  BY <1>2, <1>4, <1>10 DEF HistoryOf
<1>11. HistoryOf(state', state')
  BY <1>2, <1>4 DEF HistoryOf, IInv
<1>12. UnderWay'
  <2>1. \A x \in publishing' : HistoryOf(state', x)
    BY <1>1, <1>5, <1>10, <1>11, SnapshotFields DEF IInv, UnderWay
  <2>2. ASSUME NEW c \in Clients
        PROVE  /\ HistoryOf(state', view[c])
               /\ \A x \in inbox[c] : HistoryOf(state', x)
               /\ \A i \in 1..Len(up[c]) : HistoryOf(state', up[c][i]) /\ Bare(up[c][i])
    <3>1. view[c] \in Snapshot /\ inbox[c] \subseteq Snapshot /\ up[c] \in Seq(Snapshot)
      BY DEF IInv, TypeOK
    <3>2. \A i \in 1..Len(up[c]) : up[c][i] \in Snapshot
      BY <3>1
    <3> QED
      BY <3>1, <3>2, <1>10, SnapshotFields DEF IInv, UnderWay
  <2> QED
    BY <2>1, <2>2 DEF UnderWay, clientVars
<1> QED
  BY <1>2, <1>4, <1>7, <1>8, <1>9, <1>12 DEF IInv

Lives == {"none", "spawned", "open", "closing", "closed"}

LEMMA Facts ==
  ASSUME IInv
  PROVE  /\ state \in Snapshot /\ life \in [Windows -> Lives]
         /\ state.ver \in Nat
         /\ DOMAIN state.wins \subseteq Windows /\ state.wins \in [DOMAIN state.wins -> WindowState]
         /\ DOMAIN state.wins = {w \in Windows : life[w] = "open"}
         /\ state.focus \in MaybeWindow /\ state.current \in Workspaces
         /\ state.recall \in [Workspaces -> MaybeWindow]
         /\ headless \in BOOLEAN
<1>1. state \in Snapshot /\ life \in [Windows -> Lives] /\ headless \in BOOLEAN
  BY DEF IInv, TypeOK, Lives
<1>2. DOMAIN state.wins = {w \in Windows : life[w] = "open"}
  BY DEF IInv, WindowsAreTheDaemons
<1> QED
  BY <1>1, <1>2, SnapshotFields

(* Mutations that leave the window set alone.                              *)
LEMMA MutateInPlace ==
  ASSUME IInv, NEW verb, NEW after \in Snapshot, Mutate(verb, after),
         DOMAIN after.wins = DOMAIN state.wins,
         Owned \/ HeadlessOnly,
         UNCHANGED <<life, pushedVersion, clientVars, edits>>
  PROVE  IInv'
<1>1. headless' \in BOOLEAN
  BY Facts DEF Owned, HeadlessOnly
<1>2. /\ life' \in [Windows -> Lives]
      /\ DOMAIN after.wins = {w \in Windows : life'[w] = "open"}
  BY Facts
<1> QED
  BY <1>1, <1>2, MutateKeeps DEF Lives

LEMMA RegisterKeeps ==
  ASSUME IInv, NEW w \in Windows, RegisterDaemonWindow(w)
  PROVE  IInv'
<1> DEFINE wins  == [v \in DOMAIN state.wins \cup {w} |->
                       IF v = w
                       THEN [ws |-> state.current, min |-> FALSE, name |-> NoName,
                             agent |-> NoAgent, placed |-> FALSE]
                       ELSE state.wins[v]]
           after == [state EXCEPT !.wins = wins, !.focus = w, !.recall[state.current] = w]
<1>1. wins \in PerWindow(WindowState)
  <2>1. wins \in [DOMAIN state.wins \cup {w} -> WindowState]
    BY Facts DEF WindowState
  <2>2. DOMAIN state.wins \cup {w} \subseteq Windows
    BY Facts
  <2> QED
    BY <2>1, <2>2, PerWindowIntro
<1>2. after \in Snapshot
  BY <1>1, Facts DEF Snapshot, MaybeWindow
<1>3. Mutate("new", after) /\ life[w] = "spawned" /\ life' = [life EXCEPT ![w] = "open"]
      /\ Owned /\ UNCHANGED <<pushedVersion, clientVars, edits>>
  BY DEF RegisterDaemonWindow
<1>4. after.wins = wins
  BY Facts DEF Snapshot
<1>5. DOMAIN after.wins = {v \in Windows : life'[v] = "open"} /\ life' \in [Windows -> Lives]
  BY <1>3, <1>4, Facts DEF Lives
<1>6. \A v \in DOMAIN after.wins \ DOMAIN state.wins :
        after.wins[v].ws = state.current /\ after.wins[v].min = FALSE
  BY <1>4
<1>7. headless' \in BOOLEAN
  BY <1>3, Facts DEF Owned
<1> HIDE DEF after
<1> QED
  BY <1>2, <1>3, <1>5, <1>6, <1>7, MutateKeeps DEF Lives

LEMMA RecallAfterCloseType ==
  ASSUME IInv, NEW rest, NEW ws, NEW w, NEW focus \in MaybeWindow
  PROVE  RecallAfterClose(rest, ws, w, focus) \in [Workspaces -> MaybeWindow]
BY Facts DEF RecallAfterClose, MaybeWindow

LEMMA CloseKeeps ==
  ASSUME IInv, NEW w \in Windows, CloseDaemonWindow(w)
  PROVE  IInv'
<1> DEFINE rest == Without(state.wins, w)
           ws   == state.wins[w].ws
           after(f) == [state EXCEPT !.wins = rest, !.focus = f,
                                     !.recall = RecallAfterClose(rest, ws, w, f)]
<1>1. w \in DOMAIN state.wins
      /\ (\E f \in IF state.focus = w THEN OneOf(Visible(rest, ws)) ELSE {state.focus} :
            Mutate("close", after(f)))
      /\ life' = [life EXCEPT ![w] = "closing"]
      /\ Owned /\ UNCHANGED <<pushedVersion, clientVars, edits>>
  BY DEF CloseDaemonWindow
<1>2. rest \in PerWindow(WindowState) /\ DOMAIN rest = DOMAIN state.wins \ {w}
  <2>1. rest \in [DOMAIN state.wins \ {w} -> WindowState]
    BY Facts DEF Without
  <2>2. DOMAIN state.wins \ {w} \subseteq Windows
    BY Facts
  <2> QED
    BY <2>1, <2>2, PerWindowIntro
<1>3. PICK f \in IF state.focus = w THEN OneOf(Visible(rest, ws)) ELSE {state.focus} :
        Mutate("close", after(f))
  BY <1>1
<1>4. f \in MaybeWindow
  BY <1>2, Facts DEF OneOf, Visible, MaybeWindow
<1>5. RecallAfterClose(rest, ws, w, f) \in [Workspaces -> MaybeWindow]
  BY <1>4, RecallAfterCloseType
<1> HIDE DEF rest
<1>6. after(f) \in Snapshot /\ after(f).wins = rest
  BY <1>2, <1>4, <1>5, Facts DEF Snapshot, MaybeWindow
<1>7. DOMAIN after(f).wins = {v \in Windows : life'[v] = "open"} /\ life' \in [Windows -> Lives]
  BY <1>1, <1>2, <1>6, Facts DEF Lives
<1>8. DOMAIN after(f).wins \ DOMAIN state.wins = {}
  BY <1>2, <1>6
<1>9. headless' \in BOOLEAN
  BY <1>1, Facts DEF Owned
<1> HIDE DEF after
<1> QED
  BY <1>1, <1>3, <1>6, <1>7, <1>8, <1>9, MutateKeeps DEF Lives

(* One window replaced, and the rest of the snapshot as it was.            *)
LEMMA WindowReplaced ==
  ASSUME IInv, NEW w \in DOMAIN state.wins, NEW r \in WindowState
  PROVE  /\ [state EXCEPT !.wins[w] = r] \in Snapshot
         /\ DOMAIN [state EXCEPT !.wins[w] = r].wins = DOMAIN state.wins
<1> DEFINE wins == [state.wins EXCEPT ![w] = r]
<1>1. wins \in [DOMAIN state.wins -> WindowState]
  BY Facts
<1>2. wins \in PerWindow(WindowState)
  BY <1>1, Facts, PerWindowIntro
<1>3. [state EXCEPT !.wins[w] = r] = [state EXCEPT !.wins = wins]
  BY Facts DEF Snapshot
<1> HIDE DEF wins
<1> QED
  BY <1>1, <1>2, <1>3, Facts DEF Snapshot

LEMMA RenameKeeps ==
  ASSUME IInv, NEW w \in Windows, NEW n \in Names \cup {NoName}, RenameDaemonWindow(w, n)
  PROVE  IInv'
<1> DEFINE r == [state.wins[w] EXCEPT !.name = n]
<1>1. w \in DOMAIN state.wins /\ Mutate("rename", [state EXCEPT !.wins[w].name = n])
      /\ Owned /\ UNCHANGED <<life, pushedVersion, clientVars, edits>>
  BY DEF RenameDaemonWindow
<1>2. r \in WindowState
  BY <1>1, Facts DEF WindowState
<1>3. [state EXCEPT !.wins[w].name = n] = [state EXCEPT !.wins[w] = r]
  OBVIOUS
<1> HIDE DEF r
<1> QED
  BY <1>1, <1>2, <1>3, WindowReplaced, MutateInPlace

LEMMA AgentKeeps ==
  ASSUME IInv, NEW w \in Windows, NEW a \in AgentStates \cup {NoAgent}, ApplyAgentReport(w, a)
  PROVE  IInv'
<1> DEFINE r == [state.wins[w] EXCEPT !.agent = a]
<1>1. w \in DOMAIN state.wins /\ Mutate("agent", [state EXCEPT !.wins[w].agent = a])
      /\ Owned /\ UNCHANGED <<life, pushedVersion, clientVars, edits>>
  BY DEF ApplyAgentReport
<1>2. r \in WindowState
  BY <1>1, Facts DEF WindowState
<1>3. [state EXCEPT !.wins[w].agent = a] = [state EXCEPT !.wins[w] = r]
  OBVIOUS
<1> HIDE DEF r
<1> QED
  BY <1>1, <1>2, <1>3, WindowReplaced, MutateInPlace

LEMMA MinimizedKeeps ==
  ASSUME IInv, NEW w \in Windows, NEW b \in BOOLEAN, SetDaemonWindowMinimized(w, b)
  PROVE  IInv'
<1> DEFINE r == [state.wins[w] EXCEPT !.min = b]
<1>1. w \in DOMAIN state.wins /\ Mutate("minimize", [state EXCEPT !.wins[w].min = b])
      /\ HeadlessOnly /\ UNCHANGED <<life, pushedVersion, clientVars, edits>>
  BY DEF SetDaemonWindowMinimized
<1>2. r \in WindowState
  BY <1>1, Facts DEF WindowState
<1>3. [state EXCEPT !.wins[w].min = b] = [state EXCEPT !.wins[w] = r]
  OBVIOUS
<1> HIDE DEF r
<1> QED
  BY <1>1, <1>2, <1>3, WindowReplaced, MutateInPlace

LEMMA MoveKeeps ==
  ASSUME IInv, NEW w \in Windows, NEW ws \in Workspaces, MoveDaemonWindowToWorkspace(w, ws)
  PROVE  IInv'
<1> DEFINE r     == [state.wins[w] EXCEPT !.ws = ws]
           moved == [state EXCEPT !.wins[w] = r]
           old   == state.wins[w].ws
           recall == [state.recall EXCEPT ![old] = IF @ = w THEN NoWindow ELSE @]
           after == [state EXCEPT !.wins[w].ws = ws, !.recall[old] = IF @ = w THEN NoWindow ELSE @]
<1>1. w \in DOMAIN state.wins /\ Mutate("move", after)
      /\ HeadlessOnly /\ UNCHANGED <<life, pushedVersion, clientVars, edits>>
  BY DEF MoveDaemonWindowToWorkspace
<1>2. r \in WindowState
  BY <1>1, Facts DEF WindowState
<1>3. recall \in [Workspaces -> MaybeWindow]
  BY Facts DEF MaybeWindow
<1>4. after = [moved EXCEPT !.recall = recall]
  BY Facts DEF Snapshot
<1>5. moved \in Snapshot /\ DOMAIN moved.wins = DOMAIN state.wins
  BY <1>1, <1>2, WindowReplaced
<1> HIDE DEF moved, recall
<1>6. after \in Snapshot /\ DOMAIN after.wins = DOMAIN state.wins
  BY <1>3, <1>4, <1>5 DEF Snapshot, MaybeWindow
<1> HIDE DEF after
<1> QED
  BY <1>1, <1>6, MutateInPlace

LEMMA LabelKeeps ==
  ASSUME IInv, NEW n \in Names \cup {NoName}, SetDisplayName(n)
  PROVE  IInv'
<1> DEFINE after == [state EXCEPT !.label = n]
<1>1. after \in Snapshot /\ DOMAIN after.wins = DOMAIN state.wins
  BY Facts DEF Snapshot
<1>2. Mutate("label", after) /\ Owned /\ UNCHANGED <<life, pushedVersion, clientVars, edits>>
  BY DEF SetDisplayName
<1> HIDE DEF after
<1> QED
  BY <1>1, <1>2, MutateInPlace

LEMMA FocusKeeps ==
  ASSUME IInv, NEW w \in Windows, FocusDaemonWindow(w)
  PROVE  IInv'
<1> DEFINE ws    == state.wins[w].ws
           after == [state EXCEPT !.focus = w, !.current = ws, !.recall[ws] = w]
<1>1. w \in DOMAIN state.wins /\ Mutate("focus", after)
      /\ HeadlessOnly /\ UNCHANGED <<life, pushedVersion, clientVars, edits>>
  BY DEF FocusDaemonWindow
<1>2. ws \in Workspaces /\ w \in MaybeWindow
  BY <1>1, Facts DEF WindowState, MaybeWindow
<1>3. [state.recall EXCEPT ![ws] = w] \in [Workspaces -> MaybeWindow]
  BY <1>2, Facts
<1>4. after \in Snapshot /\ DOMAIN after.wins = DOMAIN state.wins
  BY <1>2, <1>3, Facts DEF Snapshot, MaybeWindow
<1> HIDE DEF after
<1> QED
  BY <1>1, <1>4, MutateInPlace

LEMMA CycleKeeps ==
  ASSUME IInv, NEW w \in Windows, CycleDaemonFocus(w)
  PROVE  IInv'
<1> DEFINE after == [state EXCEPT !.focus = w, !.recall[state.current] = w]
<1>1. Mutate("cycle", after) /\ HeadlessOnly
      /\ UNCHANGED <<life, pushedVersion, clientVars, edits>>
  BY DEF CycleDaemonFocus
<1>2. w \in MaybeWindow
  BY DEF MaybeWindow
<1>3. [state.recall EXCEPT ![state.current] = w] \in [Workspaces -> MaybeWindow]
  BY <1>2, Facts
<1>4. after \in Snapshot /\ DOMAIN after.wins = DOMAIN state.wins
  BY <1>2, <1>3, Facts DEF Snapshot, MaybeWindow
<1> HIDE DEF after
<1> QED
  BY <1>1, <1>4, MutateInPlace

LEMMA SwitchKeeps ==
  ASSUME IInv, NEW ws \in Workspaces, SwitchDaemonWorkspace(ws)
  PROVE  IInv'
<1> DEFINE focus == IF state.recall[ws] # NoWindow THEN state.recall[ws] ELSE state.focus
           after == [state EXCEPT !.current = ws,
                        !.focus = IF state.recall[ws] # NoWindow THEN state.recall[ws] ELSE @]
<1>1. Mutate("switch", after) /\ HeadlessOnly
      /\ UNCHANGED <<life, pushedVersion, clientVars, edits>>
  BY DEF SwitchDaemonWorkspace
<1>2. focus \in MaybeWindow
  BY Facts
<1>3. after \in Snapshot /\ DOMAIN after.wins = DOMAIN state.wins
  BY <1>2, Facts DEF Snapshot, MaybeWindow
<1> HIDE DEF after
<1> QED
  BY <1>1, <1>3, MutateInPlace

----------------------------------------------------------------------------
(* Steps that change neither the session's state nor what the events said. *)
LEMMA StateUndisturbed ==
  ASSUME IInv, UNCHANGED <<state, picture>>,
         life' \in [Windows -> Lives],
         \A w \in Windows : life'[w] = "open" <=> life[w] = "open",
         publishing' \subseteq publishing,
         pushedVersion' \in Nat, edits' \in Nat, headless' \in BOOLEAN,
         phase' \in [Clients -> {"out", "joining", "replying", "in", "leaving"}],
         merging' \in [Clients -> {"idle", "accepted", "reconciled"}],
         view' \in [Clients -> Snapshot],
         inbox' \in [Clients -> SUBSET Snapshot],
         up' \in [Clients -> Seq(Snapshot)],
         \A c \in Clients :
           /\ HistoryOf(state, view'[c])
           /\ \A x \in inbox'[c] : HistoryOf(state, x)
           /\ \A i \in 1..Len(up'[c]) : HistoryOf(state, up'[c][i]) /\ Bare(up'[c][i])
  PROVE  IInv'
<1>1. TypeOK'
  BY DEF IInv, TypeOK, Lives
<1>2. WindowsAreTheDaemons'
  BY DEF IInv, WindowsAreTheDaemons
<1>3. PictureFollows'
  BY DEF IInv, PictureFollows
<1>4. UnderWay'
  BY DEF IInv, UnderWay
<1> QED
  BY <1>1, <1>2, <1>3, <1>4 DEF IInv

LEMMA ClientFacts ==
  ASSUME IInv
  PROVE  /\ view \in [Clients -> Snapshot] /\ inbox \in [Clients -> SUBSET Snapshot]
         /\ up \in [Clients -> Seq(Snapshot)] /\ publishing \subseteq Snapshot
         /\ phase \in [Clients -> {"out", "joining", "replying", "in", "leaving"}]
         /\ merging \in [Clients -> {"idle", "accepted", "reconciled"}]
         /\ pushedVersion \in Nat /\ edits \in Nat
         /\ \A x \in publishing : HistoryOf(state, x)
         /\ \A c \in Clients :
              /\ HistoryOf(state, view[c])
              /\ \A x \in inbox[c] : HistoryOf(state, x)
              /\ \A i \in 1..Len(up[c]) : HistoryOf(state, up[c][i]) /\ Bare(up[c][i])
BY DEF IInv, TypeOK, UnderWay

LEMMA HistoryOfItself ==
  ASSUME IInv PROVE HistoryOf(state, state)
BY Facts DEF HistoryOf, IInv

LEMMA CreatePTYKeeps ==
  ASSUME IInv, NEW w \in Windows, CreatePTY(w) PROVE IInv'
<1>1. life' \in [Windows -> Lives] /\ \A v \in Windows : life'[v] = "open" <=> life[v] = "open"
  BY Facts DEF CreatePTY, Lives
<1>2. UNCHANGED <<state, picture, publishing, pushedVersion, edits, headless, phase, merging,
                  view, inbox, up>>
  BY DEF CreatePTY, clientVars
<1> QED
  BY <1>1, <1>2, Facts, ClientFacts, StateUndisturbed

LEMMA ClosePTYKeeps ==
  ASSUME IInv, NEW w \in Windows, ClosePTY(w) PROVE IInv'
<1>1. life' \in [Windows -> Lives] /\ \A v \in Windows : life'[v] = "open" <=> life[v] = "open"
  BY Facts DEF ClosePTY, Lives
<1>2. UNCHANGED <<state, picture, publishing, pushedVersion, edits, headless, phase, merging,
                  view, inbox, up>>
  BY DEF ClosePTY, clientVars
<1> QED
  BY <1>1, <1>2, Facts, ClientFacts, StateUndisturbed

LEMMA FindNoClientKeeps ==
  ASSUME IInv, FindNoClient PROVE IInv'
<1>1. UNCHANGED <<state, picture, life, publishing, pushedVersion, edits, phase, merging,
                  view, inbox, up>> /\ headless' \in BOOLEAN
  BY DEF FindNoClient, clientVars, daemonVars
<1> QED
  BY <1>1, Facts, ClientFacts, StateUndisturbed

(* A state sync taken from the session's past is sent, or some are dropped. *)
LEMMA SentKeeps ==
  ASSUME IInv, NEW sent \in Snapshot, HistoryOf(state, sent),
         inbox' \in [Clients -> SUBSET Snapshot],
         \A c \in Clients : inbox'[c] \subseteq inbox[c] \cup {sent},
         UNCHANGED <<state, picture, life, up, view, headless, edits>>,
         publishing' \subseteq publishing, pushedVersion' \in Nat,
         phase' \in [Clients -> {"out", "joining", "replying", "in", "leaving"}],
         merging' \in [Clients -> {"idle", "accepted", "reconciled"}]
  PROVE  IInv'
<1>1. \A c \in Clients : \A x \in inbox'[c] : HistoryOf(state, x)
  BY ClientFacts
<1> QED
  BY <1>1, Facts, ClientFacts, StateUndisturbed

LEMMA PublishKeeps ==
  ASSUME IInv, NEW snap \in publishing, PublishState(snap) PROVE IInv'
<1>1. snap \in Snapshot /\ HistoryOf(state, snap) /\ snap.ver \in Nat
  BY ClientFacts, SnapshotFields
<1>2. UNCHANGED <<state, life, picture, phase, merging, up, view, headless, edits>>
      /\ publishing' \subseteq publishing
  BY DEF PublishState
<1>3. /\ inbox' \in [Clients -> SUBSET Snapshot]
      /\ \A c \in Clients : inbox'[c] \subseteq inbox[c] \cup {snap}
      /\ pushedVersion' \in Nat
  <2>1. CASE UNCHANGED <<pushedVersion, inbox>>
    BY <2>1, ClientFacts
  <2>2. CASE pushedVersion' = snap.ver /\ inbox' = Broadcast(inbox, snap, {})
    BY <2>2, <1>1, ClientFacts DEF Broadcast
  <2> QED
    BY <2>1, <2>2 DEF PublishState
<1> QED
  BY <1>1, <1>2, <1>3, ClientFacts, SentKeeps

LEMMA ReplyMergedKeeps ==
  ASSUME IInv, NEW c \in Clients, ReplyMerged(c) PROVE IInv'
<1> DEFINE answered == IF merging[c] = "reconciled"
                       THEN [inbox EXCEPT ![c] = @ \cup {state}] ELSE inbox
<1>1. /\ inbox' = IF Cardinality(Attached) > 1 THEN Broadcast(answered, state, {c}) ELSE answered
      /\ merging' = [merging EXCEPT ![c] = "idle"]
      /\ UNCHANGED <<state, life, picture, publishing, pushedVersion, phase, up, view, headless, edits>>
  BY DEF ReplyMerged, daemonVars
<1>2. answered \in [Clients -> SUBSET Snapshot]
      /\ \A d \in Clients : answered[d] \subseteq inbox[d] \cup {state}
  BY Facts, ClientFacts
<1>3. Broadcast(answered, state, {c}) \in [Clients -> SUBSET Snapshot]
      /\ \A d \in Clients : Broadcast(answered, state, {c})[d] \subseteq inbox[d] \cup {state}
  BY <1>2, Facts DEF Broadcast
<1>4. inbox' \in [Clients -> SUBSET Snapshot]
      /\ \A d \in Clients : inbox'[d] \subseteq inbox[d] \cup {state}
  BY <1>1, <1>2, <1>3
<1>5. HistoryOf(state, state)
  BY HistoryOfItself
<1>6. merging' \in [Clients -> {"idle", "accepted", "reconciled"}]
  BY <1>1, ClientFacts
<1> QED
  BY <1>1, <1>4, <1>5, <1>6, Facts, ClientFacts, SentKeeps

LEMMA AttachReplyKeeps ==
  ASSUME IInv, NEW c \in Clients, AttachReply(c) PROVE IInv'
<1>1. /\ inbox' \in [Clients -> SUBSET Snapshot]
      /\ \A d \in Clients : inbox'[d] \subseteq inbox[d] \cup {state}
      /\ phase' \in [Clients -> {"out", "joining", "replying", "in", "leaving"}]
  BY ClientFacts DEF AttachReply
<1>2. UNCHANGED <<state, life, picture, publishing, pushedVersion, merging, up, view, headless, edits>>
  BY DEF AttachReply, daemonVars
<1> QED
  BY <1>1, <1>2, HistoryOfItself, Facts, ClientFacts, SentKeeps

LEMMA HandleDetachKeeps ==
  ASSUME IInv, NEW c \in Clients, HandleDetach(c) PROVE IInv'
<1>1. /\ inbox' \in [Clients -> SUBSET Snapshot]
      /\ \A d \in Clients : inbox'[d] \subseteq inbox[d] \cup {state}
      /\ phase' \in [Clients -> {"out", "joining", "replying", "in", "leaving"}]
  BY ClientFacts DEF HandleDetach
<1>2. UNCHANGED <<state, life, picture, publishing, pushedVersion, merging, up, view, headless, edits>>
  BY DEF HandleDetach, daemonVars
<1> QED
  BY <1>1, <1>2, HistoryOfItself, Facts, ClientFacts, SentKeeps

LEMMA LeaveKeeps ==
  ASSUME IInv, NEW c \in Clients, Leave(c) PROVE IInv'
<1>1. PICK n \in 0..Len(up[c]) : up' = [up EXCEPT ![c] = SubSeq(@, 1, n)]
  BY DEF Leave
<1>2. up[c] \in Seq(Snapshot)
  BY ClientFacts
<1>3. /\ SubSeq(up[c], 1, n) \in Seq(Snapshot) /\ Len(SubSeq(up[c], 1, n)) = n
      /\ \A i \in 1..n : SubSeq(up[c], 1, n)[i] = up[c][i]
  BY <1>1, <1>2
<1>4. up' \in [Clients -> Seq(Snapshot)]
  BY <1>1, <1>3, ClientFacts
<1>5. \A d \in Clients : \A i \in 1..Len(up'[d]) : HistoryOf(state, up'[d][i]) /\ Bare(up'[d][i])
  BY <1>1, <1>2, <1>3, ClientFacts
<1>6. UNCHANGED <<state, life, picture, publishing, pushedVersion, merging, inbox, view, headless, edits>>
      /\ phase' \in [Clients -> {"out", "joining", "replying", "in", "leaving"}]
  BY ClientFacts DEF Leave, daemonVars
<1> QED
  BY <1>4, <1>5, <1>6, Facts, ClientFacts, StateUndisturbed

----------------------------------------------------------------------------
(* A client's copy changes and is pushed, or not.                          *)
LEMMA HeldType ==
  ASSUME NEW s \in Snapshot, NEW w \in MaybeWindow
  PROVE  Held(s, w) \in MaybeWindow
BY DEF Held, MaybeWindow

LEMMA AdoptedKeeps ==
  ASSUME NEW s \in Snapshot
  PROVE  /\ Adopted(s) \in Snapshot
         /\ Adopted(s).ver = s.ver /\ Named(Adopted(s)) = Named(s)
<1> DEFINE wins   == [w \in DOMAIN s.wins |-> [s.wins[w] EXCEPT !.placed = TRUE]]
           recall == [ws \in Workspaces |-> Held(s, s.recall[ws])]
<1>1. wins \in [DOMAIN s.wins -> WindowState]
  <2>1. ASSUME NEW o \in WindowState PROVE [o EXCEPT !.placed = TRUE] \in WindowState
    BY DEF WindowState
  <2>2. \A w \in DOMAIN s.wins : s.wins[w] \in WindowState
    BY SnapshotFields
  <2> QED
    BY <2>1, <2>2
<1>2. wins \in PerWindow(WindowState)
  BY <1>1, SnapshotFields, PerWindowIntro
<1>3. Held(s, s.focus) \in MaybeWindow /\ recall \in [Workspaces -> MaybeWindow]
  BY SnapshotFields, HeldType
<1>4. \A w \in DOMAIN s.wins : wins[w].name = s.wins[w].name
  BY SnapshotFields DEF WindowState
<1> HIDE DEF wins, recall
<1>5. Adopted(s) = [s EXCEPT !.wins = wins, !.focus = Held(s, @), !.recall = recall]
  BY DEF Adopted, wins, recall
<1>6. Adopted(s) \in Snapshot /\ Adopted(s).ver = s.ver /\ Adopted(s).wins = wins
  BY <1>2, <1>3, <1>5 DEF Snapshot, MaybeWindow
<1> QED
  BY <1>1, <1>4, <1>6 DEF Named

LEMMA PushedKeeps ==
  ASSUME NEW v \in Snapshot
  PROVE  /\ Pushed(v) \in Snapshot /\ Bare(Pushed(v))
         /\ Pushed(v).ver = v.ver /\ Named(Pushed(v)) = Named(v)
<1> DEFINE wins == [w \in DOMAIN v.wins |-> [v.wins[w] EXCEPT !.agent = NoAgent]]
<1>1. wins \in [DOMAIN v.wins -> WindowState]
  BY SnapshotFields DEF WindowState
<1>2. wins \in PerWindow(WindowState)
  BY <1>1, SnapshotFields, PerWindowIntro
<1>3. \A w \in DOMAIN v.wins : wins[w].name = v.wins[w].name /\ wins[w].agent = NoAgent
  BY SnapshotFields DEF WindowState
<1> HIDE DEF wins
<1>4. Pushed(v) = [v EXCEPT !.wins = wins, !.label = NoName, !.restored = FALSE]
  BY DEF Pushed, wins
<1>5. Pushed(v) \in Snapshot /\ Pushed(v).ver = v.ver /\ Pushed(v).wins = wins
      /\ Pushed(v).label = NoName
  BY <1>2, <1>4 DEF Snapshot
<1> QED
  BY <1>1, <1>3, <1>5 DEF Named, Bare

LEMMA SameWindows ==
  ASSUME NEW s \in Snapshot, NEW x \in Snapshot, NEW y \in Snapshot, HistoryOf(s, x),
         y.ver = x.ver, Named(y) = Named(x)
  PROVE  HistoryOf(s, y)
BY DEF HistoryOf

LEMMA ClientStep ==
  ASSUME IInv, NEW c \in Clients, NEW v \in Snapshot, HistoryOf(state, v),
         view' = [view EXCEPT ![c] = v],
         up' = up \/ up' = [up EXCEPT ![c] = Append(@, Pushed(v))],
         inbox' \in [Clients -> SUBSET Snapshot],
         \A d \in Clients : inbox'[d] \subseteq inbox[d],
         phase' \in [Clients -> {"out", "joining", "replying", "in", "leaving"}],
         edits' \in Nat,
         UNCHANGED <<state, picture, life, publishing, pushedVersion, headless, merging>>
  PROVE  IInv'
<1>1. Pushed(v) \in Snapshot /\ HistoryOf(state, Pushed(v)) /\ Bare(Pushed(v))
  BY PushedKeeps, SameWindows, Facts
<1>2. view' \in [Clients -> Snapshot] /\ \A d \in Clients : HistoryOf(state, view'[d])
  BY ClientFacts
<1>3. \A d \in Clients : \A x \in inbox'[d] : HistoryOf(state, x)
  BY ClientFacts
<1>4. /\ up' \in [Clients -> Seq(Snapshot)]
      /\ \A d \in Clients : \A i \in 1..Len(up'[d]) : HistoryOf(state, up'[d][i]) /\ Bare(up'[d][i])
  <2>1. CASE up' = up
    BY <2>1, ClientFacts
  <2>2. CASE up' = [up EXCEPT ![c] = Append(@, Pushed(v))]
    <3>1. up[c] \in Seq(Snapshot)
      BY ClientFacts
    <3>2. /\ Append(up[c], Pushed(v)) \in Seq(Snapshot)
          /\ Len(Append(up[c], Pushed(v))) = Len(up[c]) + 1
          /\ \A i \in 1..(Len(up[c]) + 1) :
               Append(up[c], Pushed(v))[i] = IF i <= Len(up[c]) THEN up[c][i] ELSE Pushed(v)
      BY <1>1, <3>1
    <3>3. up' \in [Clients -> Seq(Snapshot)]
      BY <2>2, <3>2, ClientFacts
    <3>4. ASSUME NEW i \in 1..Len(up'[c])
          PROVE  HistoryOf(state, up'[c][i]) /\ Bare(up'[c][i])
      <4>1. up'[c] = Append(up[c], Pushed(v))
        BY <2>2, ClientFacts
      <4>2. CASE i <= Len(up[c])
        BY <3>1, <3>2, <4>1, <4>2, ClientFacts
      <4>3. CASE ~(i <= Len(up[c]))
        BY <1>1, <3>1, <3>2, <4>1, <4>3
      <4> QED
        BY <4>2, <4>3
    <3>5. \A d \in Clients : d # c => up'[d] = up[d]
      BY <2>2, ClientFacts
    <3> QED
      BY <3>3, <3>4, <3>5, ClientFacts
  <2> QED
    BY <2>1, <2>2
<1> QED
  BY <1>2, <1>3, <1>4, Facts, ClientFacts, StateUndisturbed

LEMMA ApplyStateSyncKeeps ==
  ASSUME IInv, NEW c \in Clients, NEW s \in inbox[c], ApplyStateSync(c, s)
  PROVE  IInv'
<1> DEFINE v == Adopted(s)
<1>1. s \in Snapshot /\ HistoryOf(state, s)
  BY ClientFacts
<1>2. v \in Snapshot /\ HistoryOf(state, v)
  BY <1>1, AdoptedKeeps, SameWindows, Facts
<1>3. /\ view' = [view EXCEPT ![c] = v]
      /\ up' = up \/ up' = [up EXCEPT ![c] = Append(@, Pushed(v))]
      /\ UNCHANGED <<state, picture, life, publishing, pushedVersion, headless, merging, phase, edits>>
  BY DEF ApplyStateSync, daemonVars
<1>4. inbox' \in [Clients -> SUBSET Snapshot] /\ \A d \in Clients : inbox'[d] \subseteq inbox[d]
  BY ClientFacts DEF ApplyStateSync
<1> HIDE DEF v
<1> QED
  BY <1>2, <1>3, <1>4, ClientFacts, ClientStep

LEMMA AttachStateKeeps ==
  ASSUME IInv, NEW c \in Clients, AttachState(c)
  PROVE  IInv'
<1>1. Adopted(state) \in Snapshot /\ HistoryOf(state, Adopted(state))
  BY AdoptedKeeps, SameWindows, HistoryOfItself, Facts
<1>2. PICK f \in IF Adopted(state).focus = NoWindow
                 THEN OneOf(Visible(state.wins, state.current)) ELSE {state.focus} :
        view' = [view EXCEPT ![c] = [Adopted(state) EXCEPT !.focus = f]]
  BY DEF AttachState
<1>3. f \in MaybeWindow
  BY <1>2, Facts DEF OneOf, Visible, MaybeWindow
<1> DEFINE v == [Adopted(state) EXCEPT !.focus = f]
<1>4. v \in Snapshot /\ v.ver = Adopted(state).ver /\ Named(v) = Named(Adopted(state))
  BY <1>1, <1>3 DEF Snapshot, MaybeWindow, Named
<1>5. HistoryOf(state, v)
  BY <1>1, <1>4, SameWindows, Facts
<1>6. /\ view' = [view EXCEPT ![c] = v] /\ up' = up
      /\ phase' \in [Clients -> {"out", "joining", "replying", "in", "leaving"}]
      /\ UNCHANGED <<state, picture, life, publishing, pushedVersion, headless, merging, inbox, edits>>
  BY <1>2, ClientFacts DEF AttachState, daemonVars
<1> HIDE DEF v
<1> QED
  BY <1>4, <1>5, <1>6, ClientFacts, ClientStep

(* An edit moves windows and the focus, and changes no name.               *)
LEMMA EditKeeps ==
  ASSUME IInv, NEW c \in Clients, NEW kind, NEW after \in Snapshot, Edit(c, kind, after),
         after.ver = view[c].ver, Named(after) = Named(view[c])
  PROVE  IInv'
<1>1. view[c] \in Snapshot /\ HistoryOf(state, view[c])
  BY ClientFacts
<1>2. HistoryOf(state, after)
  BY <1>1, SameWindows, Facts
<1>3. /\ view' = [view EXCEPT ![c] = after]
      /\ up' = [up EXCEPT ![c] = Append(@, Pushed(after))]
      /\ edits' \in Nat
      /\ UNCHANGED <<state, picture, life, publishing, pushedVersion, headless, merging, phase, inbox>>
  BY ClientFacts DEF Edit, daemonVars
<1> QED
  BY <1>2, <1>3, ClientFacts, ClientStep

LEMMA RememberingType ==
  ASSUME NEW v \in Snapshot
  PROVE  Remembering(v) \in [Workspaces -> MaybeWindow]
BY SnapshotFields DEF Remembering

LEMMA FocusedKeeps ==
  ASSUME NEW v \in Snapshot, NEW w \in DOMAIN v.wins
  PROVE  /\ Focused(v, w) \in Snapshot
         /\ Focused(v, w).ver = v.ver /\ Focused(v, w).wins = v.wins
<1> DEFINE ws     == v.wins[w].ws
           old    == IF ws # v.current THEN Remembering(v) ELSE v.recall
           recall == IF w # v.focus THEN [old EXCEPT ![ws] = w] ELSE old
<1>1. w \in MaybeWindow /\ ws \in Workspaces
  BY SnapshotFields DEF WindowState, MaybeWindow
<1>2. recall \in [Workspaces -> MaybeWindow]
  BY <1>1, RememberingType, SnapshotFields
<1> HIDE DEF recall
<1>3. Focused(v, w) = [v EXCEPT !.current = v.wins[w].ws, !.focus = w, !.recall = recall]
  BY DEF Focused, recall
<1> QED
  BY <1>1, <1>2, <1>3 DEF Snapshot, MaybeWindow

LEMMA RefocusedKeeps ==
  ASSUME NEW v \in Snapshot, NEW after \in Refocused(v)
  PROVE  after \in Snapshot /\ after.ver = v.ver /\ after.wins = v.wins
<1>1. CASE Visible(v.wins, v.current) = {}
  BY <1>1 DEF Refocused, Snapshot
<1>2. CASE Visible(v.wins, v.current) # {}
  <2>1. PICK w \in Visible(v.wins, v.current) : after = Focused(v, w)
    BY <1>2 DEF Refocused
  <2>2. w \in DOMAIN v.wins
    BY DEF Visible
  <2> QED
    BY <2>1, <2>2, FocusedKeeps
<1> QED
  BY <1>1, <1>2

(* One window of a client's copy replaced, under its name.                 *)
LEMMA ViewWindowReplaced ==
  ASSUME NEW v \in Snapshot, NEW w \in DOMAIN v.wins, NEW r \in WindowState,
         r.name = v.wins[w].name
  PROVE  /\ [v EXCEPT !.wins[w] = r] \in Snapshot
         /\ [v EXCEPT !.wins[w] = r].ver = v.ver
         /\ DOMAIN [v EXCEPT !.wins[w] = r].wins = DOMAIN v.wins
         /\ Named([v EXCEPT !.wins[w] = r]) = Named(v)
<1> DEFINE wins == [v.wins EXCEPT ![w] = r]
           y    == [v EXCEPT !.wins[w] = r]
<1>1. wins \in [DOMAIN v.wins -> WindowState]
  BY SnapshotFields
<1>2. wins \in PerWindow(WindowState)
  BY <1>1, SnapshotFields, PerWindowIntro
<1>3. \A u \in DOMAIN v.wins : wins[u].name = v.wins[u].name
  BY SnapshotFields
<1> HIDE DEF wins
<1>4. y = [v EXCEPT !.wins = wins]
  BY SnapshotFields DEF Snapshot, wins
<1>5. y \in Snapshot /\ y.ver = v.ver /\ y.wins = wins
  BY <1>2, <1>4 DEF Snapshot
<1> QED
  BY <1>1, <1>3, <1>5 DEF Named

LEMMA NamedByWindows ==
  ASSUME NEW x, NEW y, x.wins = y.wins
  PROVE  Named(x) = Named(y)
BY DEF Named

LEMMA FocusWindowKeeps ==
  ASSUME IInv, NEW c \in Clients, NEW w \in Windows, FocusWindow(c, w)
  PROVE  IInv'
<1>1. view[c] \in Snapshot
  BY ClientFacts
<1>2. w \in DOMAIN view[c].wins /\ Edit(c, "focus", Focused(view[c], w))
  BY DEF FocusWindow
<1>3. Focused(view[c], w) \in Snapshot /\ Focused(view[c], w).ver = view[c].ver
      /\ Named(Focused(view[c], w)) = Named(view[c])
  BY <1>1, <1>2, FocusedKeeps, NamedByWindows
<1> QED
  BY <1>2, <1>3, EditKeeps

LEMMA SwitchToWorkspaceKeeps ==
  ASSUME IInv, NEW c \in Clients, NEW ws \in Workspaces, SwitchToWorkspace(c, ws)
  PROVE  IInv'
<1> DEFINE v == [view[c] EXCEPT !.current = ws, !.recall = Remembering(view[c])]
<1>1. view[c] \in Snapshot
  BY ClientFacts
<1>2. Remembering(view[c]) \in [Workspaces -> MaybeWindow]
  BY <1>1, RememberingType
<1>3. v \in Snapshot /\ v.ver = view[c].ver /\ v.wins = view[c].wins
  BY <1>1, <1>2 DEF Snapshot, MaybeWindow
<1>4. \/ v.recall[ws] \in Visible(v.wins, ws)
         /\ Edit(c, "switch", [v EXCEPT !.focus = v.recall[ws]])
      \/ \E after \in Refocused(v) : Edit(c, "switch", after)
  BY DEF SwitchToWorkspace
<1> HIDE DEF v
<1>5. CASE v.recall[ws] \in Visible(v.wins, ws)
           /\ Edit(c, "switch", [v EXCEPT !.focus = v.recall[ws]])
  <2> DEFINE after == [v EXCEPT !.focus = v.recall[ws]]
  <2>1. v.recall[ws] \in MaybeWindow
    BY <1>3, SnapshotFields
  <2>2. after \in Snapshot /\ after.ver = view[c].ver /\ after.wins = view[c].wins
    BY <1>3, <2>1 DEF Snapshot, MaybeWindow
  <2>3. Named(after) = Named(view[c])
    BY <2>2, NamedByWindows
  <2>4. Edit(c, "switch", after)
    BY <1>5
  <2> HIDE DEF after
  <2> QED
    BY <2>2, <2>3, <2>4, EditKeeps
<1>6. CASE \E after \in Refocused(v) : Edit(c, "switch", after)
  <2>1. PICK after \in Refocused(v) : Edit(c, "switch", after)
    BY <1>6
  <2>2. after \in Snapshot /\ after.ver = view[c].ver /\ after.wins = view[c].wins
    BY <1>3, <2>1, RefocusedKeeps
  <2> QED
    BY <2>1, <2>2, NamedByWindows, EditKeeps
<1> QED
  BY <1>4, <1>5, <1>6

(* The window is changed, then the focus may leave it.                     *)
LEMMA ReplacedAndRefocused ==
  ASSUME IInv, NEW c \in Clients, NEW w \in DOMAIN view[c].wins, NEW r \in WindowState,
         r.name = view[c].wins[w].name, NEW kind, NEW v, v = [view[c] EXCEPT !.wins[w] = r],
         NEW after \in Refocused(v) \cup {v}, Edit(c, kind, after)
  PROVE  IInv'
<1>1. view[c] \in Snapshot
  BY ClientFacts
<1>2. v \in Snapshot /\ v.ver = view[c].ver /\ Named(v) = Named(view[c])
  BY <1>1, ViewWindowReplaced
<1>3. after \in Snapshot /\ after.ver = v.ver /\ after.wins = v.wins
  BY <1>2, RefocusedKeeps
<1>4. Named(after) = Named(view[c])
  BY <1>2, <1>3, NamedByWindows
<1> QED
  BY <1>2, <1>3, <1>4, EditKeeps

LEMMA MoveWindowKeeps ==
  ASSUME IInv, NEW c \in Clients, NEW w \in Windows, NEW ws \in Workspaces,
         MoveWindowToWorkspace(c, w, ws)
  PROVE  IInv'
<1> DEFINE v == [view[c] EXCEPT !.wins[w].ws = ws]
           r == [view[c].wins[w] EXCEPT !.ws = ws]
<1>1. w \in DOMAIN view[c].wins
      /\ \E after \in IF w = v.focus THEN Refocused(v) ELSE {v} : Edit(c, "move", after)
  BY DEF MoveWindowToWorkspace
<1>2. PICK after \in Refocused(v) \cup {v} : Edit(c, "move", after)
  BY <1>1
<1>3. view[c].wins[w] \in WindowState
  BY <1>1, ClientFacts, SnapshotFields
<1>4. r \in WindowState /\ r.name = view[c].wins[w].name
  BY <1>3 DEF WindowState
<1>5. v = [view[c] EXCEPT !.wins[w] = r]
  OBVIOUS
<1> HIDE DEF v, r
<1> QED
  BY <1>1, <1>2, <1>4, <1>5, ReplacedAndRefocused

LEMMA MinimizeWindowKeeps ==
  ASSUME IInv, NEW c \in Clients, NEW w \in Windows, MinimizeWindow(c, w)
  PROVE  IInv'
<1> DEFINE v == [view[c] EXCEPT !.wins[w].min = TRUE]
           r == [view[c].wins[w] EXCEPT !.min = TRUE]
<1>1. w \in DOMAIN view[c].wins
      /\ \E after \in IF w = v.focus THEN Refocused(v) ELSE {v} : Edit(c, "minimize", after)
  BY DEF MinimizeWindow
<1>2. PICK after \in Refocused(v) \cup {v} : Edit(c, "minimize", after)
  BY <1>1
<1>3. view[c].wins[w] \in WindowState
  BY <1>1, ClientFacts, SnapshotFields
<1>4. r \in WindowState /\ r.name = view[c].wins[w].name
  BY <1>3 DEF WindowState
<1>5. v = [view[c] EXCEPT !.wins[w] = r]
  OBVIOUS
<1> HIDE DEF v, r
<1> QED
  BY <1>1, <1>2, <1>4, <1>5, ReplacedAndRefocused

LEMMA RestoreWindowKeeps ==
  ASSUME IInv, NEW c \in Clients, NEW w \in Windows, RestoreWindow(c, w)
  PROVE  IInv'
<1> DEFINE v == [view[c] EXCEPT !.wins[w].min = FALSE]
           r == [view[c].wins[w] EXCEPT !.min = FALSE]
<1>1. w \in DOMAIN view[c].wins /\ Edit(c, "minimize", Focused(v, w))
  BY DEF RestoreWindow
<1>2. view[c] \in Snapshot /\ view[c].wins[w] \in WindowState
  BY <1>1, ClientFacts, SnapshotFields
<1>3. r \in WindowState /\ r.name = view[c].wins[w].name
  BY <1>2 DEF WindowState
<1>4. v = [view[c] EXCEPT !.wins[w] = r]
  OBVIOUS
<1> HIDE DEF v, r
<1>5. v \in Snapshot /\ v.ver = view[c].ver /\ Named(v) = Named(view[c])
      /\ DOMAIN v.wins = DOMAIN view[c].wins
  BY <1>1, <1>2, <1>3, <1>4, ViewWindowReplaced
<1>6. Focused(v, w) \in Snapshot /\ Focused(v, w).ver = v.ver /\ Focused(v, w).wins = v.wins
  BY <1>1, <1>5, FocusedKeeps
<1>7. Named(Focused(v, w)) = Named(view[c])
  BY <1>5, <1>6, NamedByWindows
<1> QED
  BY <1>1, <1>5, <1>6, <1>7, EditKeeps

----------------------------------------------------------------------------
(* A push arriving.                                                        *)
(* reconcileStale: the windows the push does not have are open, so they    *)
(* have a live PTY and stay.                                               *)
LEMMA ReconciledKeeps ==
  ASSUME IInv, NEW p \in Snapshot, Bare(p)
  PROVE  /\ Reconciled(p) \in Snapshot
         /\ Named(Reconciled(p)) = Named(state)
         /\ Reconciled(p).label = NoName
         /\ \A w \in DOMAIN state.wins :
              Reconciled(p).wins[w].agent \in {NoAgent, state.wins[w].agent}
<1> DEFINE wins == [w \in Surviving(p) |->
                      IF w \in DOMAIN p.wins THEN OwnedFromState(w, p.wins[w]) ELSE state.wins[w]]
<1>1. Surviving(p) = DOMAIN state.wins
  <2>1. \A w \in DOMAIN state.wins : HasLivePTY(w)
    BY Facts DEF HasLivePTY
  <2> QED
    BY <2>1 DEF Surviving
<1>2. /\ DOMAIN p.wins \subseteq Windows /\ p.wins \in [DOMAIN p.wins -> WindowState]
  BY SnapshotFields
<1>3. ASSUME NEW w \in DOMAIN state.wins
      PROVE  /\ wins[w] \in WindowState
             /\ wins[w].name = state.wins[w].name
             /\ wins[w].agent \in {NoAgent, state.wins[w].agent}
  <2>1. state.wins[w] \in WindowState
    BY Facts
  <2>2. CASE w \in DOMAIN p.wins
    BY <1>1, <1>2, <2>1, <2>2 DEF OwnedFromState, WindowState, Bare
  <2>3. CASE w \notin DOMAIN p.wins
    BY <1>1, <2>1, <2>3
  <2> QED
    BY <2>2, <2>3
<1>4. wins \in [DOMAIN state.wins -> WindowState]
  BY <1>1, <1>3
<1>5. wins \in PerWindow(WindowState)
  BY <1>4, Facts, PerWindowIntro
<1> HIDE DEF wins
<1>6. Reconciled(p) = [p EXCEPT !.wins = wins, !.focus = state.focus, !.current = state.current,
                                !.recall = state.recall]
  BY DEF Reconciled, wins
<1>7. Reconciled(p) \in Snapshot /\ Reconciled(p).wins = wins /\ Reconciled(p).label = p.label
  BY <1>5, <1>6, Facts DEF Snapshot, MaybeWindow
<1> QED
  BY <1>3, <1>4, <1>7 DEF Named, Bare

(* retainDaemonExclusive: what no client sends comes from the state.       *)
LEMMA RetainedKeeps ==
  ASSUME IInv, NEW p \in Snapshot, Named(p) = Named(state), p.label = NoName,
         \A w \in DOMAIN state.wins : p.wins[w].agent \in {NoAgent, state.wins[w].agent}
  PROVE  /\ Retained(p) \in Snapshot
         /\ Named(Retained(p)) = Named(state)
         /\ \A w \in DOMAIN state.wins : Retained(p).wins[w].agent = state.wins[w].agent
         /\ Retained(p).label = state.label /\ Retained(p).restored = state.restored
<1> DEFINE wins == [w \in DOMAIN p.wins |->
                      IF w \in DOMAIN state.wins /\ p.wins[w].agent = NoAgent
                      THEN [p.wins[w] EXCEPT !.agent = state.wins[w].agent]
                      ELSE p.wins[w]]
<1>1. /\ DOMAIN p.wins = DOMAIN state.wins
      /\ \A w \in DOMAIN state.wins : p.wins[w].name = state.wins[w].name
  <2>1. DOMAIN Named(p) = DOMAIN p.wins /\ DOMAIN Named(state) = DOMAIN state.wins
    BY DEF Named
  <2>2. \A w \in DOMAIN p.wins : Named(p)[w] = p.wins[w].name
    BY DEF Named
  <2>3. \A w \in DOMAIN state.wins : Named(state)[w] = state.wins[w].name
    BY DEF Named
  <2> QED
    BY <2>1, <2>2, <2>3
<1>2. p.wins \in [DOMAIN p.wins -> WindowState]
  BY SnapshotFields
<1>3. ASSUME NEW w \in DOMAIN state.wins
      PROVE  /\ wins[w] \in WindowState
             /\ wins[w].name = state.wins[w].name /\ wins[w].agent = state.wins[w].agent
  <2>1. state.wins[w] \in WindowState /\ p.wins[w] \in WindowState
    BY <1>1, <1>2, Facts
  <2> QED
    BY <1>1, <2>1 DEF WindowState
<1>4. wins \in [DOMAIN state.wins -> WindowState]
  BY <1>1, <1>3
<1>5. wins \in PerWindow(WindowState)
  BY <1>4, Facts, PerWindowIntro
<1> HIDE DEF wins
<1>6. Retained(p) = [p EXCEPT !.label = IF @ = NoName THEN state.label ELSE @,
                              !.restored = state.restored, !.wins = wins]
  BY DEF Retained, wins
<1>7. state.label \in Names \cup {NoName} /\ state.restored \in BOOLEAN
  BY Facts, SnapshotFields
<1>8. /\ Retained(p) \in Snapshot /\ Retained(p).wins = wins
      /\ Retained(p).label = state.label /\ Retained(p).restored = state.restored
  BY <1>5, <1>6, <1>7 DEF Snapshot
<1> QED
  BY <1>3, <1>4, <1>8 DEF Named

(* The state after a push: the daemon's part of it is what it was.         *)
LEMMA UpdateStateEffect ==
  ASSUME IInv, NEW c \in Clients, UpdateState(c)
  PROVE  /\ state' \in Snapshot /\ state'.ver = state.ver
         /\ Named(state') = Named(state)
         /\ \A w \in DOMAIN state.wins : state'.wins[w].agent = state.wins[w].agent
         /\ state'.label = state.label /\ state'.restored = state.restored
         /\ \/ state' = state /\ picture' = picture
            \/ picture' = Told(picture, state, state')
<1>1. CASE UNCHANGED <<state, picture, merging>>
  BY <1>1, Facts
<1>2. CASE c \in Writers
  <2> DEFINE p      == Head(up[c])
             merged == IF Behind(p) THEN Retained(Reconciled(p)) ELSE Retained(p)
  <2>1. up[c] # <<>> /\ state' = [merged EXCEPT !.ver = state.ver]
        /\ picture' = Told(picture, state, state')
    BY <1>2 DEF UpdateState
  <2>2. up[c] \in Seq(Snapshot) /\ 1 \in 1..Len(up[c]) /\ p = up[c][1]
    BY <2>1, ClientFacts
  <2>3. p \in Snapshot /\ HistoryOf(state, p) /\ Bare(p)
    BY <2>2, ClientFacts
  <2> HIDE DEF p
  <2>4. /\ merged \in Snapshot
        /\ Named(merged) = Named(state)
        /\ \A w \in DOMAIN state.wins : merged.wins[w].agent = state.wins[w].agent
        /\ merged.label = state.label /\ merged.restored = state.restored
    <3>1. CASE Behind(p)
      BY <2>3, <3>1, ReconciledKeeps, RetainedKeeps
    <3>2. CASE ~Behind(p)
      <4>1. p.ver \in Nat
        BY <2>3, SnapshotFields
      <4>2. Named(p) = Named(state)
        BY <2>3, <3>2, <4>1, Facts DEF Behind, HistoryOf
      <4>3. DOMAIN p.wins = DOMAIN state.wins
        <5>1. DOMAIN Named(p) = DOMAIN p.wins /\ DOMAIN Named(state) = DOMAIN state.wins
          BY DEF Named
        <5> QED
          BY <4>2, <5>1
      <4> QED
        BY <2>3, <3>2, <4>2, <4>3, RetainedKeeps DEF Bare
    <3> QED
      BY <3>1, <3>2
  <2> HIDE DEF merged
  <2>5. state' \in Snapshot /\ state'.ver = state.ver /\ state'.wins = merged.wins
        /\ state'.label = merged.label /\ state'.restored = merged.restored
    BY <2>1, <2>4, Facts DEF Snapshot
  <2>6. Named(state') = Named(merged)
    BY <2>5 DEF Named
  <2> QED
    BY <2>1, <2>4, <2>5, <2>6
<1> QED
  BY <1>1, <1>2 DEF UpdateState

LEMMA NamedWindows ==
  ASSUME NEW x, NEW y, Named(x) = Named(y)
  PROVE  DOMAIN x.wins = DOMAIN y.wins
<1>1. DOMAIN Named(x) = DOMAIN x.wins /\ DOMAIN Named(y) = DOMAIN y.wins
  BY DEF Named
<1> QED
  BY <1>1

LEMMA UpdateStateKeeps ==
  ASSUME IInv, NEW c \in Clients, UpdateState(c)
  PROVE  IInv'
<1>1. /\ state' \in Snapshot /\ state'.ver = state.ver
      /\ Named(state') = Named(state) /\ DOMAIN state'.wins = DOMAIN state.wins
  BY UpdateStateEffect, NamedWindows
<1>2. picture' \in Picture /\ Follows(picture', state')
  <2>1. picture \in Picture /\ Follows(picture, state)
    BY FollowsIsPictureFollows DEF IInv, TypeOK
  <2>2. CASE state' = state /\ picture' = picture
    BY <2>1, <2>2
  <2>3. CASE picture' = Told(picture, state, state')
    BY <1>1, <2>1, <2>3, Facts, ToldFollows
  <2> QED
    BY <2>2, <2>3, UpdateStateEffect
<1>3. /\ UNCHANGED <<life, publishing, pushedVersion, phase, inbox, view, headless, edits>>
      /\ merging' \in [Clients -> {"idle", "accepted", "reconciled"}]
      /\ up[c] # <<>> /\ up' = [up EXCEPT ![c] = Tail(@)]
  BY ClientFacts DEF UpdateState
<1>4. /\ up' \in [Clients -> Seq(Snapshot)]
      /\ \A d \in Clients : \A i \in 1..Len(up'[d]) : HistoryOf(state, up'[d][i]) /\ Bare(up'[d][i])
  <2>1. up[c] \in Seq(Snapshot) /\ up[c] # <<>>
    BY <1>3, ClientFacts
  <2>2. /\ Tail(up[c]) \in Seq(Snapshot) /\ Len(Tail(up[c])) = Len(up[c]) - 1
        /\ \A i \in 1..Len(Tail(up[c])) : Tail(up[c])[i] = up[c][i + 1] /\ i + 1 \in 1..Len(up[c])
    BY <2>1
  <2>3. up'[c] = Tail(up[c]) /\ \A d \in Clients : d # c => up'[d] = up[d]
    BY <1>3, ClientFacts
  <2>4. up' \in [Clients -> Seq(Snapshot)]
    BY <1>3, <2>2, ClientFacts
  <2>5. \A i \in 1..Len(up'[c]) : HistoryOf(state, up'[c][i]) /\ Bare(up'[c][i])
    BY <2>2, <2>3, ClientFacts
  <2> QED
    BY <2>3, <2>4, <2>5, ClientFacts
<1>5. ASSUME NEW x, HistoryOf(state, x)
      PROVE  HistoryOf(state', x)
  BY <1>1, <1>5 DEF HistoryOf
<1>6. TypeOK'
  BY <1>1, <1>2, <1>3, <1>4, Facts, ClientFacts DEF TypeOK, Lives
<1>7. WindowsAreTheDaemons'
  BY <1>1, <1>3, Facts DEF WindowsAreTheDaemons
<1>8. PictureFollows'
  BY <1>2 DEF PictureFollows, Follows
<1>9. UnderWay'
  BY <1>3, <1>4, <1>5, ClientFacts DEF UnderWay
<1> QED
  BY <1>1, <1>6, <1>7, <1>8, <1>9 DEF IInv

LEMMA HandleAttachKeeps ==
  ASSUME IInv, NEW c \in Clients, HandleAttach(c)
  PROVE  IInv'
<1>1. /\ state' = IF state.restored
                  THEN [state EXCEPT !.restored = FALSE, !.ver = @ + 1] ELSE state
      /\ UNCHANGED <<life, publishing, pushedVersion, picture, merging, inbox, up, view, headless, edits>>
      /\ phase' \in [Clients -> {"out", "joining", "replying", "in", "leaving"}]
  BY ClientFacts DEF HandleAttach
<1>2. /\ state' \in Snapshot /\ state'.wins = state.wins
      /\ state'.current = state.current /\ state'.focus = state.focus
      /\ state'.ver = state.ver \/ state'.ver = state.ver + 1
  <2>1. CASE state.restored
    <3>1. state' = [state EXCEPT !.restored = FALSE, !.ver = state.ver + 1]
      BY <1>1, <2>1
    <3>2. state.ver + 1 \in Nat
      BY Facts
    <3> QED
      BY <3>1, <3>2, Facts DEF Snapshot
  <2>2. CASE ~state.restored
    BY <1>1, <2>2, Facts
  <2> QED
    BY <2>1, <2>2
<1>3. TypeOK'
  BY <1>1, <1>2 DEF IInv, TypeOK
<1>4. WindowsAreTheDaemons'
  BY <1>1, <1>2 DEF IInv, WindowsAreTheDaemons
<1>5. PictureFollows'
  BY <1>1, <1>2 DEF IInv, PictureFollows, Seen
<1>6. Named(state') = Named(state)
  BY <1>2, NamedByWindows
<1>7. ASSUME NEW x \in Snapshot, HistoryOf(state, x)
      PROVE  HistoryOf(state', x)
  BY <1>2, <1>6, <1>7, Facts, SnapshotFields DEF HistoryOf
<1>8. UnderWay'
  <2>1. \A x \in publishing : HistoryOf(state', x)
    BY <1>7, ClientFacts
  <2>2. ASSUME NEW d \in Clients
        PROVE  /\ HistoryOf(state', view[d])
               /\ \A x \in inbox[d] : HistoryOf(state', x)
               /\ \A i \in 1..Len(up[d]) : HistoryOf(state', up[d][i]) /\ Bare(up[d][i])
    <3>1. \A i \in 1..Len(up[d]) : up[d][i] \in Snapshot
      BY ClientFacts
    <3> QED
      BY <3>1, <1>7, ClientFacts
  <2> QED
    BY <1>1, <2>1, <2>2 DEF UnderWay
<1> QED
  BY <1>2, <1>3, <1>4, <1>5, <1>8, Facts DEF IInv

----------------------------------------------------------------------------
LEMMA NextKeeps == IInv /\ [Next]_vars => IInv'
<1> SUFFICES ASSUME IInv, [Next]_vars PROVE IInv'
  OBVIOUS
<1>1. CASE UNCHANGED vars
  <2>1. UNCHANGED <<state, picture, life, publishing, pushedVersion, headless, edits, phase,
                    merging, inbox, up, view>>
    BY <1>1 DEF vars, daemonVars, clientVars
  <2> QED
    BY <2>1, Facts, ClientFacts, StateUndisturbed
<1>2. CASE Verb
  BY <1>2, CreatePTYKeeps, RegisterKeeps, CloseKeeps, ClosePTYKeeps, FocusKeeps, CycleKeeps,
     RenameKeeps, AgentKeeps, MoveKeeps, MinimizedKeeps, LabelKeeps, SwitchKeeps,
     FindNoClientKeeps DEF Verb
<1>3. CASE Deliver
  BY <1>3, PublishKeeps, UpdateStateKeeps, ReplyMergedKeeps, ApplyStateSyncKeeps,
     AttachStateKeeps, AttachReplyKeeps, HandleDetachKeeps DEF Deliver
<1>4. CASE User
  BY <1>4, HandleAttachKeeps, LeaveKeeps, FocusWindowKeeps, MinimizeWindowKeeps,
     RestoreWindowKeeps, MoveWindowKeeps, SwitchToWorkspaceKeeps DEF User
<1> QED
  BY <1>1, <1>2, <1>3, <1>4 DEF Next

(* Every behaviour keeps the invariant.                                    *)
THEOREM Invariance == Spec => []IInv
<1>1. Init => IInv
  BY InitHolds
<1>2. IInv /\ [Next]_vars => IInv'
  BY NextKeeps
<1> QED
  BY <1>1, <1>2, PTL DEF Spec

(* The variables keep their types (session.go, daemon_handlers.go and      *)
(* internal/app/session.go).                                               *)
THEOREM TypesHold == Spec => []TypeOK
<1>1. IInv => TypeOK
  BY DEF IInv
<1> QED
  BY <1>1, Invariance, PTL

(* For every number of clients and windows, the session has the windows    *)
(* the daemon opened and has not closed: UpdateState and reconcileStale    *)
(* bring none back and lose none.                                          *)
THEOREM WindowsHold == Spec => []WindowsAreTheDaemons
<1>1. IInv => WindowsAreTheDaemons
  BY DEF IInv
<1> QED
  BY <1>1, Invariance, PTL

(* For every number of clients and windows, the events diffLifecycle       *)
(* derives rebuild what the session holds.                                 *)
THEOREM PictureHolds == Spec => []PictureFollows
<1>1. IInv => PictureFollows
  BY DEF IInv
<1> QED
  BY <1>1, Invariance, PTL

LEMMA SameOwned ==
  ASSUME NEW x, NEW y, Named(x) = Named(y),
         \A w \in DOMAIN y.wins : x.wins[w].agent = y.wins[w].agent,
         x.label = y.label, x.restored = y.restored
  PROVE  DaemonOwned(x) = DaemonOwned(y)
<1>1. DOMAIN x.wins = DOMAIN y.wins
  BY NamedWindows
<1>2. \A w \in DOMAIN y.wins : x.wins[w].name = y.wins[w].name
  <2>1. \A w \in DOMAIN x.wins : Named(x)[w] = x.wins[w].name
    BY DEF Named
  <2>2. \A w \in DOMAIN y.wins : Named(y)[w] = y.wins[w].name
    BY DEF Named
  <2> QED
    BY <1>1, <2>1, <2>2
<1> QED
  BY <1>1, <1>2 DEF DaemonOwned

(* The daemon's own steps raise the version and publish, or leave the      *)
(* state and what is published alone.                                      *)
LEMMA VerbEffect ==
  ASSUME IInv, Verb
  PROVE  /\ UNCHANGED <<pushedVersion, clientVars>>
         /\ \/ UNCHANGED <<state, publishing>>
            \/ state'.ver = state.ver + 1 /\ publishing' = publishing \cup {state'}
<1> USE Facts DEF Snapshot, Mutate
<1> DEFINE Moved == /\ state'.ver = state.ver + 1 /\ publishing' = publishing \cup {state'}
                    /\ UNCHANGED <<pushedVersion, clientVars>>
<1>1. ASSUME NEW w \in Windows, RegisterDaemonWindow(w)
      PROVE  Moved
  BY <1>1 DEF RegisterDaemonWindow
<1>2. ASSUME NEW w \in Windows, CloseDaemonWindow(w)
      PROVE  Moved
  BY <1>2 DEF CloseDaemonWindow
<1>3. ASSUME NEW w \in Windows, FocusDaemonWindow(w) \/ CycleDaemonFocus(w)
      PROVE  Moved
  BY <1>3 DEF FocusDaemonWindow, CycleDaemonFocus
<1>4. ASSUME NEW w \in Windows, NEW n \in Names \cup {NoName}, RenameDaemonWindow(w, n)
      PROVE  Moved
  BY <1>4 DEF RenameDaemonWindow
<1>5. ASSUME NEW w \in Windows, NEW a \in AgentStates \cup {NoAgent}, ApplyAgentReport(w, a)
      PROVE  Moved
  BY <1>5 DEF ApplyAgentReport
<1>6. ASSUME NEW w \in Windows, NEW ws \in Workspaces, MoveDaemonWindowToWorkspace(w, ws)
      PROVE  Moved
  BY <1>6 DEF MoveDaemonWindowToWorkspace
<1>7. ASSUME NEW w \in Windows, NEW b \in BOOLEAN, SetDaemonWindowMinimized(w, b)
      PROVE  Moved
  BY <1>7 DEF SetDaemonWindowMinimized
<1>8. ASSUME NEW n \in Names \cup {NoName}, SetDisplayName(n)
      PROVE  Moved
  BY <1>8 DEF SetDisplayName
<1>9. ASSUME NEW ws \in Workspaces, SwitchDaemonWorkspace(ws)
      PROVE  Moved
  BY <1>9 DEF SwitchDaemonWorkspace
<1>10. ASSUME \/ FindNoClient
              \/ \E w \in Windows : CreatePTY(w) \/ ClosePTY(w)
       PROVE  UNCHANGED <<state, publishing, pushedVersion, clientVars>>
  BY <1>10 DEF CreatePTY, ClosePTY, FindNoClient, daemonVars
<1> HIDE DEF Moved
<1>11. Moved \/ UNCHANGED <<state, publishing, pushedVersion, clientVars>>
  BY <1>1, <1>2, <1>3, <1>4, <1>5, <1>6, <1>7, <1>8, <1>9, <1>10 DEF Verb
<1> QED
  BY <1>11 DEF Moved

(* No client sync writes what the daemon owns: a step that does not move   *)
(* the version leaves the window set, the names, the agent states, the     *)
(* label and the restored mark (UpdateState, retainDaemonExclusive).       *)
THEOREM OwnedHolds == Spec => OwnedMovesWithVersion
<1>1. ASSUME IInv, [Next]_vars
      PROVE  [state'.ver = state.ver => DaemonOwned(state') = DaemonOwned(state)]_vars
  <2> SUFFICES ASSUME state'.ver = state.ver, state' # state
               PROVE  DaemonOwned(state') = DaemonOwned(state)
    OBVIOUS
  <2>1. CASE Verb
    BY <1>1, <2>1, VerbEffect, Facts
  <2>2. CASE \E c \in Clients : UpdateState(c)
    BY <1>1, <2>2, UpdateStateEffect, SameOwned
  <2>3. CASE \E c \in Clients : HandleAttach(c)
    <3>1. state' = [state EXCEPT !.restored = FALSE, !.ver = @ + 1]
      BY <2>3 DEF HandleAttach
    <3>2. state'.ver = state.ver + 1
      BY <1>1, <3>1, Facts DEF Snapshot
    <3> QED
      BY <1>1, <3>2, Facts
  <2>4. ~UNCHANGED vars
    BY DEF vars, daemonVars
  <2>5. CASE Deliver /\ ~\E c \in Clients : UpdateState(c)
    <3>1. (\E snap \in publishing : PublishState(snap)) => state' = state
      BY DEF PublishState
    <3>2. \A c \in Clients : \A s \in inbox[c] : ApplyStateSync(c, s) => state' = state
      BY DEF ApplyStateSync, daemonVars
    <3>3. \A c \in Clients :
            ReplyMerged(c) \/ AttachState(c) \/ AttachReply(c) \/ HandleDetach(c) => state' = state
      BY DEF ReplyMerged, AttachState, AttachReply, HandleDetach, daemonVars
    <3> QED
      BY <2>5, <3>1, <3>2, <3>3 DEF Deliver
  <2>6. CASE User /\ ~\E c \in Clients : HandleAttach(c)
    <3>1. \A c \in Clients : \A kind, after : Edit(c, kind, after) => state' = state
      BY DEF Edit, daemonVars
    <3>2. \A c \in Clients, w \in Windows :
            FocusWindow(c, w) \/ MinimizeWindow(c, w) \/ RestoreWindow(c, w) => state' = state
      BY <3>1 DEF FocusWindow, MinimizeWindow, RestoreWindow
    <3>3. \A c \in Clients, w \in Windows, ws \in Workspaces :
            MoveWindowToWorkspace(c, w, ws) => state' = state
      BY <3>1 DEF MoveWindowToWorkspace
    <3>4. \A c \in Clients, ws \in Workspaces : SwitchToWorkspace(c, ws) => state' = state
      BY <3>1 DEF SwitchToWorkspace
    <3>5. \A c \in Clients : Leave(c) => state' = state
      BY DEF Leave, daemonVars
    <3> QED
      BY <2>6, <3>2, <3>3, <3>4, <3>5 DEF User
  <2> QED
    BY <1>1, <2>1, <2>2, <2>3, <2>4, <2>5, <2>6 DEF Next
<1> QED
  BY <1>1, Invariance, PTL DEF Spec, OwnedMovesWithVersion

----------------------------------------------------------------------------
(* What steps leave alone of a snapshot, and of the snapshots under way.   *)
(* The windows of y are those of x, as far as placing them goes.           *)
SameSet(x, y) ==
  /\ DOMAIN y.wins = DOMAIN x.wins
  /\ \A w \in DOMAIN x.wins : y.wins[w].placed = x.wins[w].placed

(* The pushes of a client that the daemon has not read.                    *)
Waiting(c) == {up[c][i] : i \in 1..Len(up[c])}

LEMMA WaitingFacts ==
  ASSUME IInv, NEW c \in Clients, NEW x \in Waiting(c)
  PROVE  x \in Snapshot /\ HistoryOf(state, x)
BY ClientFacts DEF Waiting

LEMMA WaitingMore ==
  ASSUME IInv, NEW c \in Clients, NEW q \in Snapshot, up' = [up EXCEPT ![c] = Append(@, q)]
  PROVE  /\ Waiting(c)' = Waiting(c) \cup {q}
         /\ \A d \in Clients \ {c} : Waiting(d)' = Waiting(d)
<1>1. up[c] \in Seq(Snapshot)
  BY ClientFacts
<1>2. up'[c] = Append(up[c], q) /\ \A d \in Clients \ {c} : up'[d] = up[d]
  BY ClientFacts
<1>3. /\ Len(up[c]) \in Nat /\ Len(up'[c]) = Len(up[c]) + 1
      /\ \A i \in 1..Len(up[c]) : up'[c][i] = up[c][i]
      /\ up'[c][Len(up[c]) + 1] = q
  BY <1>1, <1>2
<1>4. 1..Len(up'[c]) = 1..Len(up[c]) \cup {Len(up[c]) + 1}
  BY <1>3
<1>5. Waiting(c)' = {up'[c][i] : i \in 1..Len(up'[c])}
  BY DEF Waiting
<1>6. Waiting(c)' = Waiting(c) \cup {q}
  BY <1>3, <1>4, <1>5 DEF Waiting
<1> QED
  BY <1>2, <1>6 DEF Waiting

LEMMA WaitingRead ==
  ASSUME IInv, NEW c \in Clients, up[c] # <<>>, up' = [up EXCEPT ![c] = Tail(@)]
  PROVE  /\ Waiting(c) = Waiting(c)' \cup {Head(up[c])}
         /\ \A d \in Clients \ {c} : Waiting(d)' = Waiting(d)
<1>1. up[c] \in Seq(Snapshot)
  BY ClientFacts
<1>2. up'[c] = Tail(up[c]) /\ \A d \in Clients \ {c} : up'[d] = up[d]
  BY ClientFacts
<1>3. /\ Len(up[c]) \in Nat /\ Len(up[c]) >= 1 /\ Len(up'[c]) = Len(up[c]) - 1
      /\ \A i \in 1..Len(up'[c]) : up'[c][i] = up[c][i + 1] /\ i + 1 \in 1..Len(up[c])
      /\ Head(up[c]) = up[c][1]
  <2>1. Len(up[c]) \in Nat /\ Len(up[c]) >= 1 /\ Head(up[c]) = up[c][1]
    BY <1>1
  <2>2. /\ Len(Tail(up[c])) = Len(up[c]) - 1
        /\ \A i \in 1..Len(Tail(up[c])) : Tail(up[c])[i] = up[c][i + 1] /\ i + 1 \in 1..Len(up[c])
    BY <1>1
  <2> QED
    BY <1>2, <2>1, <2>2
<1>4. Waiting(c)' = {up'[c][i] : i \in 1..Len(up'[c])}
  BY DEF Waiting
<1>5. Waiting(c)' \cup {Head(up[c])} \subseteq Waiting(c)
  BY <1>3, <1>4 DEF Waiting
<1>6. ASSUME NEW i \in 1..Len(up[c])
      PROVE  up[c][i] \in Waiting(c)' \cup {Head(up[c])}
  <2>1. CASE i = 1
    BY <2>1, <1>3
  <2>2. CASE i # 1
    <3>1. i - 1 \in 1..Len(up'[c]) /\ (i - 1) + 1 = i
      BY <2>2, <1>3
    <3>2. up'[c][i - 1] = up[c][i]
      BY <3>1, <1>3
    <3> QED
      BY <3>1, <3>2, <1>4
  <2> QED
    BY <2>1, <2>2
<1>7. Waiting(c) = Waiting(c)' \cup {Head(up[c])}
  BY <1>5, <1>6 DEF Waiting
<1> QED
  BY <1>2, <1>7 DEF Waiting

LEMMA WaitingCut ==
  ASSUME IInv, NEW c \in Clients, Leave(c), NEW d \in Clients
  PROVE  Waiting(d)' \subseteq Waiting(d)
<1>1. PICK n \in 0..Len(up[c]) : up' = [up EXCEPT ![c] = SubSeq(@, 1, n)]
  BY DEF Leave
<1>2. up[c] \in Seq(Snapshot)
  BY ClientFacts
<1>3. /\ Len(SubSeq(up[c], 1, n)) = n /\ n \in Nat /\ Len(up[c]) \in Nat /\ n <= Len(up[c])
      /\ \A i \in 1..n : SubSeq(up[c], 1, n)[i] = up[c][i]
  BY <1>1, <1>2
<1>4. CASE d = c
  BY <1>1, <1>3, <1>4, ClientFacts DEF Waiting
<1>5. CASE d # c
  BY <1>1, <1>5, ClientFacts DEF Waiting
<1> QED
  BY <1>4, <1>5

(* The focus and what each workspace remembers name windows of x, and a    *)
(* workspace remembers one of its own.                                     *)
Homed(x) ==
  /\ x.focus \in DOMAIN x.wins \cup {NoWindow}
  /\ \A ws \in Workspaces : x.recall[ws] # NoWindow =>
       x.recall[ws] \in DOMAIN x.wins /\ x.wins[x.recall[ws]].ws = ws

LEMMA NoWindowIsNone == NoWindow \notin Windows
BY SessionSyncAssumption DEF NoWindow, Windows

LEMMA HomedAlike ==
  ASSUME NEW x, NEW y, Homed(x), DOMAIN y.wins = DOMAIN x.wins,
         \A w \in DOMAIN x.wins : y.wins[w].ws = x.wins[w].ws,
         y.focus = x.focus, y.recall = x.recall
  PROVE  Homed(y)
BY DEF Homed

LEMMA AdoptedShape ==
  ASSUME NEW s \in Snapshot
  PROVE  /\ DOMAIN Adopted(s).wins = DOMAIN s.wins
         /\ \A w \in DOMAIN s.wins : /\ Adopted(s).wins[w].placed
                                     /\ Adopted(s).wins[w].ws = s.wins[w].ws
         /\ Adopted(s).focus = Held(s, s.focus)
         /\ \A ws \in Workspaces : Adopted(s).recall[ws] = Held(s, s.recall[ws])
<1>1. \A w \in DOMAIN s.wins : s.wins[w] \in WindowState
  BY SnapshotFields
<1>2. Adopted(s).wins = [w \in DOMAIN s.wins |-> [s.wins[w] EXCEPT !.placed = TRUE]]
      /\ Adopted(s).focus = Held(s, s.focus)
      /\ Adopted(s).recall = [ws \in Workspaces |-> Held(s, s.recall[ws])]
  BY DEF Adopted, Snapshot
<1> QED
  BY <1>1, <1>2 DEF WindowState

LEMMA AdoptedHomed ==
  ASSUME NEW s \in Snapshot, Homed(s)
  PROVE  Homed(Adopted(s))
BY AdoptedShape DEF Homed, Held

LEMMA PushedShape ==
  ASSUME NEW v \in Snapshot
  PROVE  /\ SameSet(v, Pushed(v)) /\ (Homed(v) => Homed(Pushed(v)))
         /\ \A w \in DOMAIN v.wins : Pushed(v).wins[w].ws = v.wins[w].ws
<1>1. \A w \in DOMAIN v.wins : v.wins[w] \in WindowState
  BY SnapshotFields
<1>2. /\ Pushed(v).wins = [w \in DOMAIN v.wins |-> [v.wins[w] EXCEPT !.agent = NoAgent]]
      /\ Pushed(v).focus = v.focus /\ Pushed(v).recall = v.recall
  BY DEF Pushed, Snapshot
<1>3. /\ DOMAIN Pushed(v).wins = DOMAIN v.wins
      /\ \A w \in DOMAIN v.wins : /\ Pushed(v).wins[w].ws = v.wins[w].ws
                                  /\ Pushed(v).wins[w].placed = v.wins[w].placed
  BY <1>1, <1>2 DEF WindowState
<1> QED
  BY <1>2, <1>3, HomedAlike DEF SameSet

LEMMA FocusedShape ==
  ASSUME NEW v \in Snapshot, NEW w \in DOMAIN v.wins
  PROVE  Focused(v, w).wins = v.wins /\ (Homed(v) => Homed(Focused(v, w)))
<1> DEFINE ws     == v.wins[w].ws
           old    == IF ws # v.current THEN Remembering(v) ELSE v.recall
           recall == IF w # v.focus THEN [old EXCEPT ![ws] = w] ELSE old
<1>1. ws \in Workspaces /\ v.recall \in [Workspaces -> MaybeWindow] /\ v.current \in Workspaces
  BY SnapshotFields DEF WindowState
<1>2. Remembering(v) \in [Workspaces -> MaybeWindow] /\ old \in [Workspaces -> MaybeWindow]
  BY <1>1, RememberingType
<1>3. Focused(v, w).wins = v.wins /\ Focused(v, w).focus = w /\ Focused(v, w).recall = recall
  BY DEF Focused, Snapshot
<1>4. ASSUME Homed(v), NEW k \in Workspaces, recall[k] # NoWindow
      PROVE  recall[k] \in DOMAIN v.wins /\ v.wins[recall[k]].ws = k
  <2>1. Remembering(v)[k] # NoWindow =>
          Remembering(v)[k] \in DOMAIN v.wins /\ v.wins[Remembering(v)[k]].ws = k
    BY <1>1, <1>4 DEF Remembering, Homed
  <2>2. old[k] # NoWindow => old[k] \in DOMAIN v.wins /\ v.wins[old[k]].ws = k
    BY <1>4, <2>1 DEF Homed
  <2> HIDE DEF old
  <2>3. CASE recall[k] = old[k]
    BY <1>4, <2>2, <2>3
  <2>4. CASE recall[k] # old[k]
    BY <1>1, <1>2, <2>4
  <2> QED
    BY <2>3, <2>4
<1> HIDE DEF recall
<1> QED
  BY <1>3, <1>4 DEF Homed

LEMMA RefocusedShape ==
  ASSUME NEW v \in Snapshot, NEW after \in Refocused(v)
  PROVE  after.wins = v.wins /\ (Homed(v) => Homed(after))
<1>1. CASE Visible(v.wins, v.current) = {}
  <2>1. after = [v EXCEPT !.focus = NoWindow]
    BY <1>1 DEF Refocused
  <2>2. after.wins = v.wins /\ after.focus = NoWindow /\ after.recall = v.recall
    BY <2>1 DEF Snapshot
  <2> QED
    BY <2>2 DEF Homed
<1>2. CASE Visible(v.wins, v.current) # {}
  <2>1. PICK w \in Visible(v.wins, v.current) : after = Focused(v, w)
    BY <1>2 DEF Refocused
  <2>2. w \in DOMAIN v.wins
    BY DEF Visible
  <2> QED
    BY <2>1, <2>2, FocusedShape
<1> QED
  BY <1>1, <1>2

(* A user's edit keeps the windows of the client's copy, and but for the   *)
(* move of a window keeps its focus and its remembered focus at home.      *)
UserEdit(c) ==
  \/ \E w \in Windows :
       \/ FocusWindow(c, w) \/ MinimizeWindow(c, w) \/ RestoreWindow(c, w)
       \/ \E ws \in Workspaces : MoveWindowToWorkspace(c, w, ws)
  \/ \E ws \in Workspaces : SwitchToWorkspace(c, ws)

(* Copy y is x after an edit of this kind.                                 *)
Edited(kind, x, y) ==
  /\ y \in Snapshot /\ y.ver = x.ver /\ Named(y) = Named(x) /\ SameSet(x, y)
  /\ kind # "move" /\ Homed(x) => Homed(y)

LEMMA WindowEdited ==
  ASSUME NEW v \in Snapshot, NEW w \in DOMAIN v.wins, NEW r \in WindowState,
         r.name = v.wins[w].name, r.placed = v.wins[w].placed
  PROVE  /\ [v EXCEPT !.wins[w] = r] \in Snapshot
         /\ [v EXCEPT !.wins[w] = r].ver = v.ver
         /\ Named([v EXCEPT !.wins[w] = r]) = Named(v)
         /\ SameSet(v, [v EXCEPT !.wins[w] = r])
         /\ r.ws = v.wins[w].ws /\ Homed(v) => Homed([v EXCEPT !.wins[w] = r])
<1> DEFINE y == [v EXCEPT !.wins[w] = r]
<1>1. /\ DOMAIN y.wins = DOMAIN v.wins
      /\ \A u \in DOMAIN v.wins : y.wins[u] = IF u = w THEN r ELSE v.wins[u]
      /\ y.focus = v.focus /\ y.recall = v.recall
  BY SnapshotFields DEF Snapshot
<1>2. SameSet(v, y)
  BY <1>1 DEF SameSet
<1>3. r.ws = v.wins[w].ws /\ Homed(v) => Homed(y)
  <2> SUFFICES ASSUME r.ws = v.wins[w].ws, Homed(v) PROVE Homed(y)
    OBVIOUS
  <2>1. \A u \in DOMAIN v.wins : y.wins[u].ws = v.wins[u].ws
    BY <1>1
  <2> HIDE DEF y
  <2> QED
    BY <1>1, <2>1, HomedAlike
<1> QED
  BY <1>2, <1>3, ViewWindowReplaced

LEMMA EditedOn ==
  ASSUME NEW kind, NEW x, NEW v \in Snapshot, NEW y,
         v.ver = x.ver, Named(v) = Named(x), SameSet(x, v), kind # "move" /\ Homed(x) => Homed(v),
         y \in Snapshot, y.ver = v.ver, y.wins = v.wins, Homed(v) => Homed(y)
  PROVE  Edited(kind, x, y)
<1>1. Named(y) = Named(x) /\ SameSet(x, y)
  BY NamedByWindows DEF SameSet
<1> QED
  BY <1>1 DEF Edited

LEMMA UserEdited ==
  ASSUME IInv, NEW c \in Clients, UserEdit(c)
  PROVE  \E kind, after : Edit(c, kind, after) /\ Edited(kind, view[c], after)
<1> DEFINE x == view[c]
<1>1. x \in Snapshot /\ \A w \in DOMAIN x.wins : x.wins[w] \in WindowState
  BY ClientFacts, SnapshotFields
<1>2. SameSet(x, x)
  BY DEF SameSet
<1>3. ASSUME NEW w \in Windows, FocusWindow(c, w)
      PROVE  \E kind, after : Edit(c, kind, after) /\ Edited(kind, x, after)
  <2>1. w \in DOMAIN x.wins /\ Edit(c, "focus", Focused(x, w))
    BY <1>3 DEF FocusWindow
  <2>2. /\ Focused(x, w) \in Snapshot /\ Focused(x, w).ver = x.ver /\ Focused(x, w).wins = x.wins
        /\ (Homed(x) => Homed(Focused(x, w)))
    BY <1>1, <2>1, FocusedKeeps, FocusedShape
  <2>3. Edited("focus", x, Focused(x, w))
    BY <1>1, <1>2, <2>2, EditedOn
  <2> QED
    BY <2>1, <2>3
<1>4. ASSUME NEW kind, NEW w \in DOMAIN x.wins, NEW r \in WindowState,
             r.name = x.wins[w].name, r.placed = x.wins[w].placed,
             kind # "move" => r.ws = x.wins[w].ws,
             NEW v, v = [x EXCEPT !.wins[w] = r],
             NEW after \in Refocused(v) \cup {v} \cup {Focused(v, w)}
      PROVE  Edited(kind, x, after)
  <2>1. /\ v \in Snapshot /\ v.ver = x.ver /\ Named(v) = Named(x) /\ SameSet(x, v)
        /\ (kind # "move" /\ Homed(x) => Homed(v))
    BY <1>1, <1>4, WindowEdited
  <2>2. w \in DOMAIN v.wins
    BY <2>1 DEF SameSet
  <2>3. after \in Snapshot /\ after.ver = v.ver /\ after.wins = v.wins /\ (Homed(v) => Homed(after))
    <3>1. CASE after \in Refocused(v)
      BY <2>1, <3>1, RefocusedKeeps, RefocusedShape
    <3>2. CASE after = v
      BY <2>1, <3>2
    <3>3. CASE after = Focused(v, w)
      BY <2>1, <2>2, <3>3, FocusedKeeps, FocusedShape
    <3> QED
      BY <3>1, <3>2, <3>3
  <2> QED
    BY <2>1, <2>3, EditedOn
<1>5. ASSUME NEW w \in Windows, MinimizeWindow(c, w)
      PROVE  \E kind, after : Edit(c, kind, after) /\ Edited(kind, x, after)
  <2> DEFINE r == [x.wins[w] EXCEPT !.min = TRUE]
             v == [x EXCEPT !.wins[w].min = TRUE]
  <2>1. w \in DOMAIN x.wins /\ x.wins[w] \in WindowState
    BY <1>1, <1>5 DEF MinimizeWindow
  <2>2. r \in WindowState /\ r.name = x.wins[w].name /\ r.placed = x.wins[w].placed
        /\ r.ws = x.wins[w].ws
    BY <2>1 DEF WindowState
  <2>3. v = [x EXCEPT !.wins[w] = r]
    OBVIOUS
  <2>4. PICK after \in Refocused(v) \cup {v} : Edit(c, "minimize", after)
    BY <1>5 DEF MinimizeWindow
  <2> HIDE DEF v, r
  <2>5. Edited("minimize", x, after)
    BY <1>4, <2>1, <2>2, <2>3, <2>4
  <2> QED
    BY <2>4, <2>5
<1>6. ASSUME NEW w \in Windows, RestoreWindow(c, w)
      PROVE  \E kind, after : Edit(c, kind, after) /\ Edited(kind, x, after)
  <2> DEFINE r == [x.wins[w] EXCEPT !.min = FALSE]
             v == [x EXCEPT !.wins[w].min = FALSE]
  <2>1. w \in DOMAIN x.wins /\ x.wins[w] \in WindowState
    BY <1>1, <1>6 DEF RestoreWindow
  <2>2. r \in WindowState /\ r.name = x.wins[w].name /\ r.placed = x.wins[w].placed
        /\ r.ws = x.wins[w].ws
    BY <2>1 DEF WindowState
  <2>3. v = [x EXCEPT !.wins[w] = r]
    OBVIOUS
  <2>4. Edit(c, "minimize", Focused(v, w))
    BY <1>6 DEF RestoreWindow
  <2> HIDE DEF v, r
  <2>5. Edited("minimize", x, Focused(v, w))
    BY <1>4, <2>1, <2>2, <2>3
  <2> QED
    BY <2>4, <2>5
<1>7. ASSUME NEW w \in Windows, NEW ws \in Workspaces, MoveWindowToWorkspace(c, w, ws)
      PROVE  \E kind, after : Edit(c, kind, after) /\ Edited(kind, x, after)
  <2> DEFINE r == [x.wins[w] EXCEPT !.ws = ws]
             v == [x EXCEPT !.wins[w].ws = ws]
  <2>1. w \in DOMAIN x.wins /\ x.wins[w] \in WindowState
    BY <1>1, <1>7 DEF MoveWindowToWorkspace
  <2>2. r \in WindowState /\ r.name = x.wins[w].name /\ r.placed = x.wins[w].placed
    BY <2>1 DEF WindowState
  <2>3. v = [x EXCEPT !.wins[w] = r]
    OBVIOUS
  <2>4. PICK after \in Refocused(v) \cup {v} : Edit(c, "move", after)
    BY <1>7 DEF MoveWindowToWorkspace
  <2> HIDE DEF v, r
  <2>5. Edited("move", x, after)
    BY <1>4, <2>1, <2>2, <2>3, <2>4
  <2> QED
    BY <2>4, <2>5
<1>8. ASSUME NEW ws \in Workspaces, SwitchToWorkspace(c, ws)
      PROVE  \E kind, after : Edit(c, kind, after) /\ Edited(kind, x, after)
  <2> DEFINE v  == [x EXCEPT !.current = ws, !.recall = Remembering(x)]
             to == [v EXCEPT !.focus = v.recall[ws]]
  <2>1. Remembering(x) \in [Workspaces -> MaybeWindow]
    BY <1>1, RememberingType
  <2>2. v \in Snapshot /\ v.ver = x.ver /\ v.wins = x.wins
    BY <1>1, <2>1 DEF Snapshot, MaybeWindow
  <2>3. Homed(x) => Homed(v)
    <3>1. v.focus = x.focus /\ v.recall = Remembering(x) /\ x.recall \in [Workspaces -> MaybeWindow]
          /\ x.current \in Workspaces
      BY <1>1, SnapshotFields DEF Snapshot
    <3> HIDE DEF v
    <3> QED
      BY <2>2, <3>1 DEF Homed, Remembering
  <2>4. Named(v) = Named(x) /\ SameSet(x, v)
    BY <2>2, NamedByWindows DEF SameSet
  <2>5. \/ v.recall[ws] \in Visible(v.wins, ws) /\ Edit(c, "switch", to)
        \/ \E after \in Refocused(v) : Edit(c, "switch", after)
    BY <1>8 DEF SwitchToWorkspace
  <2> HIDE DEF v
  <2>6. CASE v.recall[ws] \in Visible(v.wins, ws) /\ Edit(c, "switch", to)
    <3>1. v.recall[ws] \in DOMAIN v.wins /\ v.recall[ws] \in MaybeWindow
      BY <2>2, <2>6, SnapshotFields DEF Visible
    <3>2. to \in Snapshot /\ to.ver = v.ver /\ to.wins = v.wins /\ to.focus = v.recall[ws]
          /\ to.recall = v.recall
      BY <2>2, <3>1 DEF Snapshot, MaybeWindow
    <3> HIDE DEF to
    <3>3. Homed(v) => Homed(to)
      BY <3>1, <3>2 DEF Homed
    <3>4. Edited("switch", x, to)
      BY <2>2, <2>3, <2>4, <3>2, <3>3, EditedOn
    <3> QED
      BY <2>6, <3>4
  <2>7. CASE \E after \in Refocused(v) : Edit(c, "switch", after)
    <3>1. PICK after \in Refocused(v) : Edit(c, "switch", after)
      BY <2>7
    <3>2. after \in Snapshot /\ after.ver = v.ver /\ after.wins = v.wins
          /\ (Homed(v) => Homed(after))
      BY <2>2, <3>1, RefocusedKeeps, RefocusedShape
    <3>3. Edited("switch", x, after)
      BY <2>2, <2>3, <2>4, <3>2, EditedOn
    <3> QED
      BY <3>1, <3>3
  <2> QED
    BY <2>5, <2>6, <2>7
<1> HIDE DEF x
<1>9. \E kind, after : Edit(c, kind, after) /\ Edited(kind, x, after)
  BY <1>3, <1>5, <1>6, <1>7, <1>8 DEF UserEdit
<1> QED
  BY <1>9 DEF x

----------------------------------------------------------------------------
(* Every focus is at home.                                                 *)
AllHomed ==
  /\ Homed(state) /\ \A x \in publishing : Homed(x)
  /\ \A c \in Clients :
       /\ Homed(view[c]) /\ \A x \in inbox[c] \cup Waiting(c) : Homed(x)

LEMMA MutateHomed ==
  ASSUME IInv, AllHomed, Homed(state'), publishing' = publishing \cup {state'},
         UNCHANGED clientVars
  PROVE  AllHomed'
BY DEF AllHomed, clientVars, Waiting

LEMMA RegisterHomed ==
  ASSUME IInv, AllHomed, NEW w \in Windows, RegisterDaemonWindow(w)
  PROVE  AllHomed'
<1>1. /\ state'.wins = [v \in DOMAIN state.wins \cup {w} |->
                          IF v = w
                          THEN [ws |-> state.current, min |-> FALSE, name |-> NoName,
                                agent |-> NoAgent, placed |-> FALSE]
                          ELSE state.wins[v]]
      /\ state'.focus = w /\ state'.recall = [state.recall EXCEPT ![state.current] = w]
      /\ publishing' = publishing \cup {state'} /\ UNCHANGED clientVars
  BY Facts DEF RegisterDaemonWindow, Mutate, Snapshot
<1>2. w \notin DOMAIN state.wins
  BY Facts DEF RegisterDaemonWindow
<1>3. ASSUME NEW ws \in Workspaces, state'.recall[ws] # NoWindow
      PROVE  state'.recall[ws] \in DOMAIN state'.wins /\ state'.wins[state'.recall[ws]].ws = ws
  <2>1. CASE ws = state.current
    BY <1>1, <2>1, Facts
  <2>2. CASE ws # state.current
    <3>1. state'.recall[ws] = state.recall[ws]
      BY <1>1, <2>2, Facts
    <3>2. state.recall[ws] \in DOMAIN state.wins /\ state.wins[state.recall[ws]].ws = ws
      BY <1>3, <3>1 DEF AllHomed, Homed
    <3> QED
      BY <1>1, <1>2, <3>1, <3>2
  <2> QED
    BY <2>1, <2>2
<1>4. Homed(state')
  BY <1>1, <1>3 DEF Homed
<1> QED
  BY <1>1, <1>4, MutateHomed

LEMMA CloseHomed ==
  ASSUME IInv, AllHomed, NEW w \in Windows, CloseDaemonWindow(w)
  PROVE  AllHomed'
<1> DEFINE rest == Without(state.wins, w)
           home == state.wins[w].ws
<1>1. PICK f \in IF state.focus = w THEN OneOf(Visible(rest, home)) ELSE {state.focus} :
        Mutate("close", [state EXCEPT !.wins = rest, !.focus = f,
                                      !.recall = RecallAfterClose(rest, home, w, f)])
  BY DEF CloseDaemonWindow
<1>2. DOMAIN rest = DOMAIN state.wins \ {w} /\ \A v \in DOMAIN rest : rest[v] = state.wins[v]
  BY DEF Without
<1>3. w \in DOMAIN state.wins /\ home \in Workspaces /\ UNCHANGED clientVars
  BY Facts DEF CloseDaemonWindow, WindowState
<1> HIDE DEF rest
<1>4. /\ state'.wins = rest /\ state'.focus = f
      /\ state'.recall = RecallAfterClose(rest, home, w, f)
      /\ publishing' = publishing \cup {state'}
  BY <1>1, Facts DEF Mutate, Snapshot
<1>5. f \in DOMAIN rest \cup {NoWindow}
  <2>1. CASE state.focus = w
    BY <1>1, <2>1 DEF OneOf, Visible
  <2>2. CASE state.focus # w
    BY <1>1, <1>2, <2>2 DEF AllHomed, Homed
  <2> QED
    BY <2>1, <2>2
<1>6. ASSUME NEW ws \in Workspaces, state'.recall[ws] # NoWindow
      PROVE  state'.recall[ws] \in DOMAIN rest /\ rest[state'.recall[ws]].ws = ws
  <2>1. state.recall[ws] # NoWindow =>
          state.recall[ws] \in DOMAIN state.wins /\ state.wins[state.recall[ws]].ws = ws
    BY DEF AllHomed, Homed
  <2>2. CASE state'.recall[ws] = state.recall[ws] /\ state.recall[ws] # w
    BY <1>2, <1>6, <2>1, <2>2
  <2>3. CASE ws = home /\ state'.recall[ws] # state.recall[ws]
    BY <1>3, <1>4, <1>6, <2>3, Facts DEF RecallAfterClose
  <2>4. state'.recall[ws] # state.recall[ws] => ws = home
    BY <1>3, <1>4, Facts DEF RecallAfterClose
  <2>5. state.recall[ws] = w => ws = home /\ state'.recall[ws] # w
    <3> SUFFICES ASSUME state.recall[ws] = w PROVE ws = home /\ state'.recall[ws] # w
      OBVIOUS
    <3>1. w # NoWindow
      BY NoWindowIsNone
    <3>2. ws = home
      BY <2>1, <3>1
    <3>3. state'.recall[ws] = IF f \in DOMAIN rest /\ rest[f].ws = ws THEN f ELSE NoWindow
      BY <1>4, <3>2, Facts DEF RecallAfterClose
    <3> QED
      BY <1>2, <3>1, <3>2, <3>3
  <2> QED
    BY <2>2, <2>3, <2>4, <2>5
<1>7. Homed(state')
  BY <1>4, <1>5, <1>6 DEF Homed
<1> QED
  BY <1>3, <1>4, <1>7, MutateHomed

(* The other verbs keep the window set.                                    *)
LEMMA VerbHomed ==
  ASSUME IInv, AllHomed, Verb
  PROVE  AllHomed'
<1> USE Facts DEF Snapshot, Mutate
<1>1. ASSUME NEW w \in Windows, FocusDaemonWindow(w)
      PROVE  AllHomed'
  <2> DEFINE home == state.wins[w].ws
  <2>1. /\ w \in DOMAIN state.wins /\ home \in Workspaces
        /\ state'.wins = state.wins /\ state'.focus = w
        /\ state'.recall = [state.recall EXCEPT ![home] = w]
        /\ publishing' = publishing \cup {state'} /\ UNCHANGED clientVars
    BY <1>1 DEF FocusDaemonWindow, WindowState
  <2>2. Homed(state')
    BY <2>1 DEF Homed, AllHomed
  <2> QED
    BY <2>1, <2>2, MutateHomed
<1>2. ASSUME NEW w \in Windows, CycleDaemonFocus(w)
      PROVE  AllHomed'
  <2>1. /\ w \in DOMAIN state.wins /\ state.wins[w].ws = state.current
        /\ state'.wins = state.wins /\ state'.focus = w
        /\ state'.recall = [state.recall EXCEPT ![state.current] = w]
        /\ publishing' = publishing \cup {state'} /\ UNCHANGED clientVars
    BY <1>2 DEF CycleDaemonFocus
  <2>2. Homed(state')
    BY <2>1 DEF Homed, AllHomed
  <2> QED
    BY <2>1, <2>2, MutateHomed
<1>3. ASSUME NEW w \in DOMAIN state.wins, NEW r, r.ws = state.wins[w].ws,
             state' = [state EXCEPT !.wins[w] = r, !.ver = state.ver + 1],
             publishing' = publishing \cup {state'}, UNCHANGED clientVars
      PROVE  AllHomed'
  <2>1. /\ DOMAIN state'.wins = DOMAIN state.wins
        /\ \A v \in DOMAIN state.wins : state'.wins[v].ws = state.wins[v].ws
        /\ state'.focus = state.focus /\ state'.recall = state.recall
    BY <1>3
  <2>2. Homed(state')
    BY <2>1, HomedAlike DEF AllHomed
  <2> QED
    BY <1>3, <2>2, MutateHomed
<1>4. ASSUME NEW w \in Windows, NEW n \in Names \cup {NoName}, RenameDaemonWindow(w, n)
      PROVE  AllHomed'
  <2>1. /\ w \in DOMAIN state.wins /\ [state.wins[w] EXCEPT !.name = n].ws = state.wins[w].ws
        /\ state' = [state EXCEPT !.wins[w] = [state.wins[w] EXCEPT !.name = n], !.ver = state.ver + 1]
        /\ publishing' = publishing \cup {state'} /\ UNCHANGED clientVars
    BY <1>4 DEF RenameDaemonWindow, WindowState
  <2> QED
    BY <2>1, <1>3
<1>5. ASSUME NEW w \in Windows, NEW a \in AgentStates \cup {NoAgent}, ApplyAgentReport(w, a)
      PROVE  AllHomed'
  <2>1. /\ w \in DOMAIN state.wins /\ [state.wins[w] EXCEPT !.agent = a].ws = state.wins[w].ws
        /\ state' = [state EXCEPT !.wins[w] = [state.wins[w] EXCEPT !.agent = a], !.ver = state.ver + 1]
        /\ publishing' = publishing \cup {state'} /\ UNCHANGED clientVars
    BY <1>5 DEF ApplyAgentReport, WindowState
  <2> QED
    BY <2>1, <1>3
<1>6. ASSUME NEW w \in Windows, NEW b \in BOOLEAN, SetDaemonWindowMinimized(w, b)
      PROVE  AllHomed'
  <2>1. /\ w \in DOMAIN state.wins /\ [state.wins[w] EXCEPT !.min = b].ws = state.wins[w].ws
        /\ state' = [state EXCEPT !.wins[w] = [state.wins[w] EXCEPT !.min = b], !.ver = state.ver + 1]
        /\ publishing' = publishing \cup {state'} /\ UNCHANGED clientVars
    BY <1>6 DEF SetDaemonWindowMinimized, WindowState
  <2> QED
    BY <2>1, <1>3
<1>7. ASSUME NEW w \in Windows, NEW ws \in Workspaces, MoveDaemonWindowToWorkspace(w, ws)
      PROVE  AllHomed'
  <2> DEFINE old == state.wins[w].ws
  <2>1. /\ w \in DOMAIN state.wins /\ old \in Workspaces
        /\ state'.wins = [state.wins EXCEPT ![w].ws = ws] /\ state'.focus = state.focus
        /\ state'.recall = [state.recall EXCEPT ![old] = IF @ = w THEN NoWindow ELSE @]
        /\ publishing' = publishing \cup {state'} /\ UNCHANGED clientVars
    BY <1>7 DEF MoveDaemonWindowToWorkspace, WindowState
  <2>2. ASSUME NEW k \in Workspaces, state'.recall[k] # NoWindow
        PROVE  state'.recall[k] \in DOMAIN state.wins /\ state'.wins[state'.recall[k]].ws = k
    <3>1. state'.recall[k] = state.recall[k]
      BY <2>1, <2>2
    <3>2. state.recall[k] \in DOMAIN state.wins /\ state.wins[state.recall[k]].ws = k
      BY <2>2, <3>1 DEF AllHomed, Homed
    <3>3. state.recall[k] # w
      BY <2>1, <2>2, <3>1, <3>2
    <3> QED
      BY <2>1, <3>1, <3>2, <3>3
  <2>3. Homed(state')
    BY <2>1, <2>2 DEF Homed, AllHomed
  <2> QED
    BY <2>1, <2>3, MutateHomed
<1>8. ASSUME NEW n \in Names \cup {NoName}, SetDisplayName(n)
      PROVE  AllHomed'
  <2>1. /\ state'.wins = state.wins /\ state'.focus = state.focus /\ state'.recall = state.recall
        /\ publishing' = publishing \cup {state'} /\ UNCHANGED clientVars
    BY <1>8 DEF SetDisplayName
  <2>2. Homed(state')
    BY <2>1, HomedAlike DEF AllHomed
  <2> QED
    BY <2>1, <2>2, MutateHomed
<1>9. ASSUME NEW ws \in Workspaces, SwitchDaemonWorkspace(ws)
      PROVE  AllHomed'
  <2>1. /\ state'.wins = state.wins /\ state'.recall = state.recall
        /\ state'.focus \in {state.focus, state.recall[ws]}
        /\ publishing' = publishing \cup {state'} /\ UNCHANGED clientVars
    BY <1>9 DEF SwitchDaemonWorkspace
  <2>2. Homed(state')
    BY <2>1 DEF Homed, AllHomed
  <2> QED
    BY <2>1, <2>2, MutateHomed
<1>10. ASSUME NEW w \in Windows, CreatePTY(w) \/ ClosePTY(w) \/ FindNoClient
      PROVE  AllHomed'
  BY <1>10 DEF CreatePTY, ClosePTY, FindNoClient, daemonVars, clientVars, AllHomed, Waiting
<1>11. ASSUME FindNoClient
      PROVE  AllHomed'
  BY <1>11 DEF FindNoClient, daemonVars, clientVars, AllHomed, Waiting
<1> QED
  BY <1>1, <1>2, <1>4, <1>5, <1>6, <1>7, <1>8, <1>9, <1>10, <1>11, RegisterHomed, CloseHomed
     DEF Verb

(* What a push makes of the windows, their places and the focus: a push    *)
(* that is behind answers where its windows go and nothing else.           *)
LEMMA MergedShape ==
  ASSUME IInv, NEW c \in Writers, UpdateState(c)
  PROVE  /\ Head(up[c]) \in Snapshot /\ Head(up[c]) \in Waiting(c)
         /\ DOMAIN state'.wins = DOMAIN state.wins
         /\ \A w \in DOMAIN state.wins :
              state'.wins[w].placed = IF w \in DOMAIN Head(up[c]).wins
                                      THEN Head(up[c]).wins[w].placed
                                      ELSE state.wins[w].placed
         /\ Homed(state) /\ Homed(Head(up[c])) => Homed(state')
         /\ merging' = [merging EXCEPT ![c] = IF Head(up[c]).ver < state.ver
                                              THEN "reconciled" ELSE "accepted"]
<1> DEFINE p == Head(up[c])
           q == Reconciled(p)
           merged == IF Behind(p) THEN Retained(q) ELSE Retained(p)
<1>1. up[c] # <<>> /\ c \in Clients /\ state' = [merged EXCEPT !.ver = state.ver]
      /\ merging' = [merging EXCEPT ![c] = IF Behind(p) THEN "reconciled" ELSE "accepted"]
  BY SessionSyncAssumption DEF UpdateState
<1>2. p = up[c][1] /\ 1 \in 1..Len(up[c])
  BY <1>1, ClientFacts
<1>3. p \in Waiting(c) /\ p \in Snapshot /\ HistoryOf(state, p) /\ Bare(p) /\ p.ver \in Nat
  <2>1. p \in Waiting(c)
    BY <1>2 DEF Waiting
  <2> HIDE DEF p
  <2>2. p \in Snapshot /\ HistoryOf(state, p) /\ Bare(p)
    BY <1>1, <1>2, ClientFacts
  <2> QED
    BY <2>1, <2>2, SnapshotFields
<1>4. DOMAIN state'.wins = DOMAIN state.wins
  BY <1>1, UpdateStateEffect, NamedWindows
<1> HIDE DEF p
<1>5. Behind(p) <=> p.ver < state.ver
  BY <1>3, Facts DEF Behind, HistoryOf
<1>6. ASSUME NEW x \in Snapshot
      PROVE  /\ DOMAIN Retained(x).wins = DOMAIN x.wins
             /\ \A w \in DOMAIN x.wins : /\ Retained(x).wins[w].ws = x.wins[w].ws
                                         /\ Retained(x).wins[w].placed = x.wins[w].placed
             /\ Retained(x).focus = x.focus /\ Retained(x).recall = x.recall
             /\ DOMAIN Retained(x) = DOMAIN x
  <2>1. \A w \in DOMAIN x.wins : x.wins[w] \in WindowState
    BY SnapshotFields
  <2>2. /\ Retained(x).wins = [w \in DOMAIN x.wins |->
                                 IF w \in DOMAIN state.wins /\ x.wins[w].agent = NoAgent
                                 THEN [x.wins[w] EXCEPT !.agent = state.wins[w].agent]
                                 ELSE x.wins[w]]
        /\ Retained(x).focus = x.focus /\ Retained(x).recall = x.recall
        /\ DOMAIN Retained(x) = DOMAIN x
    BY DEF Retained, Snapshot
  <2> QED
    BY <2>1, <2>2 DEF WindowState
<1>7. /\ q \in Snapshot /\ DOMAIN q.wins = DOMAIN state.wins
      /\ \A w \in DOMAIN state.wins :
           /\ q.wins[w].ws = state.wins[w].ws
           /\ q.wins[w].placed = IF w \in DOMAIN p.wins THEN p.wins[w].placed ELSE state.wins[w].placed
      /\ q.focus = state.focus /\ q.recall = state.recall
  <2>1. q \in Snapshot /\ DOMAIN q.wins = DOMAIN state.wins
    BY <1>3, ReconciledKeeps, NamedWindows
  <2>2. \A w \in DOMAIN p.wins : p.wins[w] \in WindowState
    BY <1>3, SnapshotFields
  <2>3. /\ q.wins = [w \in Surviving(p) |->
                       IF w \in DOMAIN p.wins THEN OwnedFromState(w, p.wins[w]) ELSE state.wins[w]]
        /\ q.focus = state.focus /\ q.recall = state.recall
    BY <1>3 DEF Reconciled, Snapshot
  <2>4. Surviving(p) = DOMAIN state.wins
    BY <2>1, <2>3
  <2> HIDE DEF q
  <2>5. ASSUME NEW w \in DOMAIN state.wins
        PROVE  /\ q.wins[w].ws = state.wins[w].ws
               /\ q.wins[w].placed = IF w \in DOMAIN p.wins THEN p.wins[w].placed ELSE state.wins[w].placed
    <3>1. CASE w \in DOMAIN p.wins
      BY <3>1, <2>2, <2>3, <2>4 DEF OwnedFromState, WindowState
    <3>2. CASE w \notin DOMAIN p.wins
      BY <3>2, <2>3, <2>4
    <3> QED
      BY <3>1, <3>2
  <2> QED
    BY <2>1, <2>3, <2>5
<1> HIDE DEF q
<1>8. CASE Behind(p)
  <2>1. /\ state'.wins = Retained(q).wins /\ state'.focus = Retained(q).focus
        /\ state'.recall = Retained(q).recall
    BY <1>1, <1>6, <1>7, <1>8
  <2>2. /\ \A w \in DOMAIN state.wins :
             /\ state'.wins[w].ws = state.wins[w].ws
             /\ state'.wins[w].placed = IF w \in DOMAIN p.wins THEN p.wins[w].placed ELSE state.wins[w].placed
        /\ state'.focus = state.focus /\ state'.recall = state.recall
    BY <2>1, <1>6, <1>7
  <2>3. Homed(state) => Homed(state')
    BY <2>2, <1>4, HomedAlike
  <2> QED
    BY <1>1, <1>3, <1>4, <1>5, <1>8, <2>2, <2>3 DEF p
<1>9. CASE ~Behind(p)
  <2>1. p.ver = state.ver
    BY <1>3, <1>5, <1>9, Facts DEF HistoryOf
  <2>2. DOMAIN p.wins = DOMAIN state.wins
    BY <1>3, <2>1, NamedWindows DEF HistoryOf
  <2>3. /\ state'.wins = Retained(p).wins /\ state'.focus = Retained(p).focus
        /\ state'.recall = Retained(p).recall
    BY <1>1, <1>6, <1>3, <1>9 DEF Snapshot
  <2>4. /\ \A w \in DOMAIN p.wins :
             /\ state'.wins[w].ws = p.wins[w].ws /\ state'.wins[w].placed = p.wins[w].placed
        /\ state'.focus = p.focus /\ state'.recall = p.recall
    BY <2>3, <1>3, <1>6
  <2>5. Homed(p) => Homed(state')
    BY <2>2, <2>4, <1>4, HomedAlike
  <2> QED
    BY <1>1, <1>3, <1>4, <1>5, <1>9, <2>2, <2>4, <2>5 DEF p
<1> QED
  BY <1>8, <1>9

(* A step that adds to what is under way only snapshots with their focus   *)
(* at home.                                                                *)
LEMMA SentHomed ==
  ASSUME AllHomed, Homed(state'), publishing' \subseteq publishing,
         \A d \in Clients :
           /\ view'[d] = view[d] \/ Homed(view'[d])
           /\ \A x \in inbox'[d] : x \in inbox[d] \/ Homed(x)
           /\ \A x \in Waiting(d)' : x \in Waiting(d) \/ Homed(x)
  PROVE  AllHomed'
BY DEF AllHomed

LEMMA DeliverHomed ==
  ASSUME IInv, AllHomed, Deliver
  PROVE  AllHomed'
<1>1. ASSUME NEW snap \in publishing, PublishState(snap)
      PROVE  AllHomed'
  <2>1. Homed(snap) /\ Homed(state) /\ snap \in Snapshot
    BY ClientFacts DEF AllHomed
  <2>2. /\ UNCHANGED <<state, view, up>> /\ publishing' \subseteq publishing
        /\ \A d \in Clients : inbox'[d] \subseteq inbox[d] \cup {snap}
    BY <1>1, ClientFacts DEF PublishState, Broadcast
  <2> QED
    BY <2>1, <2>2, SentHomed DEF Waiting
<1>2. ASSUME NEW c \in Clients, UpdateState(c)
      PROVE  AllHomed'
  <2>1. UNCHANGED <<publishing, inbox, view>> /\ up[c] # <<>> /\ up' = [up EXCEPT ![c] = Tail(@)]
    BY <1>2 DEF UpdateState
  <2>2. \A d \in Clients : Waiting(d)' \subseteq Waiting(d)
    BY <2>1, WaitingRead
  <2>3. Homed(state')
    <3>1. CASE c \in Writers
      BY <1>2, <3>1, MergedShape DEF AllHomed
    <3>2. CASE c \notin Writers
      BY <1>2, <3>2 DEF UpdateState, AllHomed
    <3> QED
      BY <3>1, <3>2
  <2> QED
    BY <2>1, <2>2, <2>3, SentHomed
<1>3. ASSUME NEW c \in Clients, ReplyMerged(c)
      PROVE  AllHomed'
  <2>1. UNCHANGED <<state, publishing, view, up>>
    BY <1>3 DEF ReplyMerged, daemonVars
  <2>2. \A d \in Clients : inbox'[d] \subseteq inbox[d] \cup {state}
    BY <1>3, ClientFacts DEF ReplyMerged, Broadcast
  <2> QED
    BY <2>1, <2>2, SentHomed DEF Waiting, AllHomed
<1>4. ASSUME NEW c \in Clients, NEW s \in inbox[c], ApplyStateSync(c, s)
      PROVE  AllHomed'
  <2>1. s \in Snapshot /\ Homed(s)
    BY ClientFacts DEF AllHomed
  <2>2. /\ Adopted(s) \in Snapshot /\ Homed(Adopted(s))
        /\ Pushed(Adopted(s)) \in Snapshot /\ Homed(Pushed(Adopted(s)))
    BY <2>1, AdoptedKeeps, AdoptedHomed, PushedKeeps, PushedShape
  <2>3. /\ UNCHANGED <<state, publishing>> /\ view' = [view EXCEPT ![c] = Adopted(s)]
        /\ \A d \in Clients : inbox'[d] \subseteq inbox[d]
        /\ up' = up \/ up' = [up EXCEPT ![c] = Append(@, Pushed(Adopted(s)))]
    BY <1>4, ClientFacts DEF ApplyStateSync, daemonVars
  <2>4. \A d \in Clients : Waiting(d)' \subseteq Waiting(d) \cup {Pushed(Adopted(s))}
    <3>1. up' = up => \A d \in Clients : Waiting(d)' = Waiting(d)
      BY DEF Waiting
    <3> QED
      BY <2>2, <2>3, <3>1, WaitingMore
  <2>5. \A d \in Clients : view'[d] = view[d] \/ view'[d] = Adopted(s)
    BY <2>3, ClientFacts
  <2> QED
    BY <2>2, <2>3, <2>4, <2>5, SentHomed DEF AllHomed
<1>5. ASSUME NEW c \in Clients, AttachState(c)
      PROVE  AllHomed'
  <2>1. PICK f \in IF Adopted(state).focus = NoWindow
                   THEN OneOf(Visible(state.wins, state.current)) ELSE {state.focus} :
          view' = [view EXCEPT ![c] = [Adopted(state) EXCEPT !.focus = f]]
    BY <1>5 DEF AttachState
  <2>2. Homed(state) /\ Homed(Adopted(state)) /\ Adopted(state) \in Snapshot
        /\ DOMAIN Adopted(state).wins = DOMAIN state.wins
    BY Facts, AdoptedHomed, AdoptedKeeps, AdoptedShape DEF AllHomed
  <2>3. f \in DOMAIN state.wins \cup {NoWindow}
    BY <2>1, <2>2 DEF OneOf, Visible, Homed
  <2> DEFINE v == [Adopted(state) EXCEPT !.focus = f]
  <2>4. v.wins = Adopted(state).wins /\ v.focus = f /\ v.recall = Adopted(state).recall
    BY <2>2 DEF Snapshot
  <2>5. view' = [view EXCEPT ![c] = v]
    BY <2>1
  <2> HIDE DEF v
  <2>6. Homed(v)
    BY <2>2, <2>3, <2>4 DEF Homed
  <2>7. \A d \in Clients : view'[d] = view[d] \/ view'[d] = v
    BY <2>5, ClientFacts
  <2>8. UNCHANGED <<state, publishing, inbox, up>>
    BY <1>5 DEF AttachState, daemonVars
  <2> QED
    BY <2>2, <2>6, <2>7, <2>8, SentHomed DEF Waiting
<1>6. ASSUME NEW c \in Clients, AttachReply(c) \/ HandleDetach(c)
      PROVE  AllHomed'
  <2>1. UNCHANGED <<state, publishing, view, up>> /\ \A d \in Clients : inbox'[d] \subseteq inbox[d]
    BY <1>6, ClientFacts DEF AttachReply, HandleDetach, daemonVars
  <2> QED
    BY <2>1, SentHomed DEF Waiting, AllHomed
<1> QED
  BY <1>1, <1>2, <1>3, <1>4, <1>5, <1>6 DEF Deliver

(* A moved window stays the remembered one of the workspace it left: the   *)
(* one edit that takes a focus from home.                                  *)
LEMMA UserHomed ==
  ASSUME IInv, AllHomed, "move" \notin Edits, User
  PROVE  AllHomed'
<1>1. ASSUME NEW c \in Clients, UserEdit(c)
      PROVE  AllHomed'
  <2>1. PICK kind, after : Edit(c, kind, after) /\ Edited(kind, view[c], after)
    BY <1>1, UserEdited
  <2>2. kind # "move" /\ UNCHANGED <<state, publishing, inbox>>
        /\ view' = [view EXCEPT ![c] = after] /\ up' = [up EXCEPT ![c] = Append(@, Pushed(after))]
    BY <2>1 DEF Edit, daemonVars
  <2>3. after \in Snapshot /\ Homed(after) /\ Pushed(after) \in Snapshot /\ Homed(Pushed(after))
    BY <2>1, <2>2, PushedKeeps, PushedShape DEF Edited, AllHomed
  <2>4. \A d \in Clients : Waiting(d)' \subseteq Waiting(d) \cup {Pushed(after)}
    BY <2>2, <2>3, WaitingMore
  <2>5. \A d \in Clients : view'[d] = view[d] \/ view'[d] = after
    BY <2>2, ClientFacts
  <2> QED
    BY <2>2, <2>3, <2>4, <2>5, SentHomed DEF AllHomed
<1>2. ASSUME NEW c \in Clients, HandleAttach(c)
      PROVE  AllHomed'
  <2>1. /\ state'.wins = state.wins /\ state'.focus = state.focus /\ state'.recall = state.recall
        /\ UNCHANGED <<publishing, view, inbox, up>>
    BY <1>2, Facts DEF HandleAttach, Snapshot
  <2>2. Homed(state')
    BY <2>1, HomedAlike DEF AllHomed
  <2> QED
    BY <2>1, <2>2, SentHomed DEF Waiting
<1>3. ASSUME NEW c \in Clients, Leave(c)
      PROVE  AllHomed'
  <2>1. UNCHANGED <<state, publishing, view, inbox>>
    BY <1>3 DEF Leave, daemonVars
  <2> QED
    BY <1>3, <2>1, WaitingCut, SentHomed DEF AllHomed
<1> QED
  BY <1>1, <1>2, <1>3 DEF User, UserEdit

(* For every number of clients and windows, where no client moves a        *)
(* window: the focus and what the workspaces remember name windows the     *)
(* session has (CloseDaemonWindow, moveDaemonWindow, reconcileStale).      *)
THEOREM FocusHolds == "move" \notin Edits => (Spec => []FocusIsOpen)
<1> SUFFICES ASSUME "move" \notin Edits PROVE Spec => []FocusIsOpen
  OBVIOUS
<1>1. Init => AllHomed
  <2> SUFFICES ASSUME Init PROVE AllHomed
    OBVIOUS
  <2>1. Homed(StartState)
    BY SessionSyncAssumption DEF StartState, Homed, Windows, NoWindow
  <2> QED
    BY <2>1 DEF Init, AllHomed, Waiting
<1>2. ASSUME IInv, AllHomed, [Next]_vars
      PROVE  AllHomed'
  <2>1. CASE UNCHANGED vars
    BY <1>2, <2>1 DEF vars, daemonVars, clientVars, AllHomed, Waiting
  <2> QED
    BY <1>2, <2>1, VerbHomed, DeliverHomed, UserHomed DEF Next
<1>3. AllHomed => FocusIsOpen
  BY DEF AllHomed, Homed, FocusIsOpen
<1> QED
  BY <1>1, <1>2, <1>3, Invariance, PTL DEF Spec

----------------------------------------------------------------------------
(* Peers settle.  A mutation that has not been delivered is that of the    *)
(* session's version: it is not overtaken.                                 *)
Latest == \E x \in publishing : x.ver = state.ver

Deliveries ==
  /\ \A x, y \in publishing : x.ver = y.ver => x = y
  /\ pushedVersion <= state.ver
  /\ Latest => pushedVersion < state.ver

(* Client c has the session's windows, or something is under way that will *)
(* bring it a sync with them: the latest mutation, such a sync, a push of  *)
(* its own that is behind, or the answer to one.                           *)
Answering(c) ==
  \/ DOMAIN view[c].wins = DOMAIN state.wins
  \/ Latest \/ merging[c] = "reconciled"
  \/ \E s \in inbox[c] : DOMAIN s.wins = DOMAIN state.wins
  \/ \E x \in Waiting(c) : x.ver < state.ver

AllPlaced(x) == \A w \in DOMAIN x.wins : x.wins[w].placed

(* Snapshot x asks where window w goes.                                    *)
Asked(x, w) == w \in DOMAIN x.wins /\ ~x.wins[w].placed

(* The question is on its way to client c, or a push with the window back. *)
Asking(c, w) ==
  \/ \E x \in publishing : x.ver = state.ver /\ Asked(x, w)
  \/ \E s \in inbox[c] : Asked(s, w)
  \/ \E x \in Waiting(c) : w \in DOMAIN x.wins

Settling ==
  /\ \A c \in Clients : phase[c] = "in"
  /\ Deliveries
  /\ \A c \in Clients : AllPlaced(view[c]) /\ \A x \in Waiting(c) : AllPlaced(x)
  /\ \A c \in Writers : Answering(c) /\ \A w \in Windows : Asked(state, w) => Asking(c, w)

(* A mutation is yet to be told to everyone.                               *)
LEMMA VerbSettling ==
  ASSUME IInv, Settling, Verb
  PROVE  Settling'
<1>1. UNCHANGED <<pushedVersion, phase, merging, inbox, up, view>>
  BY VerbEffect DEF clientVars
<1>2. CASE UNCHANGED <<state, publishing>>
  BY <1>1, <1>2 DEF Settling, Deliveries, Latest, Answering, Asking, Waiting
<1>3. CASE state'.ver = state.ver + 1 /\ publishing' = publishing \cup {state'}
  <2>1. state'.ver \in Nat /\ state.ver < state'.ver
        /\ \A x \in publishing : x.ver \in Nat /\ x.ver < state'.ver
    BY <1>3, Facts, ClientFacts, SnapshotFields DEF HistoryOf
  <2>2. pushedVersion \in Nat /\ pushedVersion <= state.ver
    BY ClientFacts DEF Settling, Deliveries
  <2>3. Latest'
    BY <1>3 DEF Latest
  <2>4. Deliveries'
    <3>1. \A x, y \in publishing' : x.ver = y.ver => x = y
      BY <1>3, <2>1 DEF Settling, Deliveries
    <3> QED
      BY <1>1, <2>1, <2>2, <3>1, Facts DEF Deliveries
  <2>5. \A c \in Writers : Answering(c)'
    BY <2>3 DEF Answering
  <2>6. \A c \in Writers, w \in Windows : Asked(state, w)' => Asking(c, w)'
    BY <1>3 DEF Asking, Asked
  <2> QED
    BY <1>1, <2>4, <2>5, <2>6 DEF Settling, Waiting
<1> QED
  BY <1>2, <1>3, VerbEffect

LEMMA SameVersionSameWindows ==
  ASSUME IInv, NEW x \in Snapshot, HistoryOf(state, x)
  PROVE  x.ver < state.ver \/ DOMAIN x.wins = DOMAIN state.wins
<1>1. x.ver \in Nat /\ x.ver <= state.ver
  BY SnapshotFields DEF HistoryOf
<1>2. CASE x.ver = state.ver
  BY <1>2, NamedWindows DEF HistoryOf
<1> QED
  BY <1>1, <1>2, Facts

(* The latest mutation is never dropped as stale.                          *)
LEMMA PublishSettling ==
  ASSUME IInv, Settling, NEW snap \in publishing, PublishState(snap)
  PROVE  Settling'
<1>1. /\ snap \in Snapshot /\ HistoryOf(state, snap) /\ snap.ver \in Nat /\ snap.ver <= state.ver
      /\ pushedVersion \in Nat /\ state.ver \in Nat
  BY Facts, ClientFacts, SnapshotFields DEF HistoryOf
<1>2. UNCHANGED <<state, phase, merging, up, view>> /\ publishing' = publishing \ {snap}
  BY DEF PublishState
<1>3. CASE StaleDelivery(snap)
  <2>1. UNCHANGED <<pushedVersion, inbox>>
    BY <1>3 DEF PublishState
  <2>2. snap.ver # state.ver
    BY <1>1, <1>3 DEF StaleDelivery, Settling, Deliveries, Latest
  <2>3. Latest' <=> Latest
    BY <1>2, <2>2 DEF Latest
  <2>4. Deliveries'
    BY <1>2, <2>1, <2>3 DEF Settling, Deliveries
  <2>5. \A c \in Writers : Answering(c)'
    BY <1>2, <2>1, <2>3 DEF Settling, Answering, Waiting
  <2>6. \A c \in Writers, w \in Windows : Asked(state, w)' => Asking(c, w)'
    BY <1>2, <2>1, <2>2 DEF Settling, Asking, Waiting
  <2> QED
    BY <1>2, <2>4, <2>5, <2>6 DEF Settling, Waiting
<1>4. CASE ~StaleDelivery(snap)
  <2>1. pushedVersion' = snap.ver
    BY <1>4 DEF PublishState
  <2>2. \A c \in Clients : inbox'[c] = inbox[c] \cup {snap}
    BY <1>4, ClientFacts DEF PublishState, Broadcast, Attached, Settling
  <2>3. \A x \in publishing : x.ver = state.ver => x = snap \/ x \in publishing'
    BY <1>2
  <2>4. Deliveries'
    <3>1. Latest' => snap.ver # state.ver
      BY <1>2 DEF Latest, Settling, Deliveries
    <3> QED
      BY <1>1, <1>2, <2>1, <3>1 DEF Settling, Deliveries
  <2>5. ASSUME NEW c \in Writers
        PROVE  Answering(c)'
    <3>1. c \in Clients /\ Answering(c)
      BY SessionSyncAssumption DEF Settling
    <3>2. CASE Latest
      <4>1. PICK x \in publishing : x.ver = state.ver
        BY <3>2 DEF Latest
      <4>2. CASE x = snap
        BY <1>1, <1>2, <2>2, <3>1, <4>1, <4>2, SameVersionSameWindows DEF Answering
      <4>3. CASE x # snap
        BY <1>2, <4>1, <4>3 DEF Answering, Latest
      <4> QED
        BY <4>2, <4>3
    <3>3. CASE ~Latest
      BY <1>2, <2>2, <3>1, <3>3 DEF Answering, Waiting
    <3> QED
      BY <3>2, <3>3
  <2>6. ASSUME NEW c \in Writers, NEW w \in Windows, Asked(state, w)
        PROVE  Asking(c, w)'
    <3>1. c \in Clients /\ Asking(c, w)
      BY <2>6, SessionSyncAssumption DEF Settling
    <3> QED
      BY <1>2, <2>2, <2>3, <3>1 DEF Asking, Waiting
  <2> QED
    BY <1>2, <2>4, <2>5, <2>6 DEF Settling, Waiting
<1> QED
  BY <1>3, <1>4

(* A push that is behind is answered; one that is not has the windows; and *)
(* either says where its windows go.                                       *)
LEMMA UpdateStateSettling ==
  ASSUME IInv, Settling, NEW b \in Clients, UpdateState(b)
  PROVE  Settling'
<1>1. UNCHANGED <<publishing, pushedVersion, phase, inbox, view>> /\ up[b] # <<>>
      /\ up' = [up EXCEPT ![b] = Tail(@)]
  BY DEF UpdateState
<1>2. state'.ver = state.ver /\ DOMAIN state'.wins = DOMAIN state.wins
  BY UpdateStateEffect, NamedWindows
<1>3. /\ Waiting(b) = Waiting(b)' \cup {Head(up[b])}
      /\ \A d \in Clients \ {b} : Waiting(d)' = Waiting(d)
  BY <1>1, WaitingRead
<1>4. Deliveries' /\ (Latest' <=> Latest)
  BY <1>1, <1>2 DEF Settling, Deliveries, Latest
<1>5. \A c \in Clients : AllPlaced(view[c])' /\ \A x \in Waiting(c)' : AllPlaced(x)
  BY <1>1, <1>3 DEF Settling
<1>6. CASE b \in Writers
  <2> DEFINE p == Head(up[b])
  <2>1. /\ p \in Waiting(b)
        /\ \A w \in DOMAIN state.wins :
             state'.wins[w].placed = IF w \in DOMAIN p.wins THEN p.wins[w].placed ELSE state.wins[w].placed
        /\ merging' = [merging EXCEPT ![b] = IF p.ver < state.ver THEN "reconciled" ELSE "accepted"]
        /\ merging[b] = "idle"
    BY <1>6, MergedShape DEF UpdateState
  <2>2. AllPlaced(p)
    BY <2>1 DEF Settling
  <2>3. /\ merging'[b] = IF p.ver < state.ver THEN "reconciled" ELSE "accepted"
        /\ \A d \in Clients \ {b} : merging'[d] = merging[d]
    <3> HIDE DEF p
    <3>1. merging \in [Clients -> {"idle", "accepted", "reconciled"}]
      BY ClientFacts
    <3> QED
      BY <2>1, <3>1
  <2> HIDE DEF p
  <2>4. ASSUME NEW c \in Writers
        PROVE  Answering(c)'
    <3>1. c \in Clients /\ Answering(c)
      BY SessionSyncAssumption DEF Settling
    <3>2. CASE c # b
      <4>1. Waiting(c)' = Waiting(c) /\ merging'[c] = merging[c]
        BY <1>3, <2>3, <3>1, <3>2
      <4> QED
        BY <1>1, <1>2, <1>4, <3>1, <4>1 DEF Answering
    <3>3. CASE c = b
      <4>1. CASE p.ver < state.ver
        BY <2>3, <3>3, <4>1 DEF Answering
      <4>2. CASE ~(p.ver < state.ver)
        BY <1>1, <1>2, <1>3, <1>4, <2>1, <3>1, <3>3, <4>2 DEF Answering, p
      <4> QED
        BY <4>1, <4>2
    <3> QED
      BY <3>2, <3>3
  <2>5. ASSUME NEW c \in Writers, NEW w \in Windows, Asked(state, w)'
        PROVE  Asking(c, w)'
    <3>1. w \in DOMAIN state.wins /\ ~state'.wins[w].placed
      BY <1>2, <2>5 DEF Asked
    <3>2. w \notin DOMAIN p.wins /\ Asked(state, w)
      BY <2>1, <2>2, <3>1 DEF Asked, AllPlaced
    <3>3. c \in Clients /\ Asking(c, w)
      BY <3>2, SessionSyncAssumption DEF Settling
    <3>4. (\E x \in Waiting(c) : w \in DOMAIN x.wins) => \E x \in Waiting(c)' : w \in DOMAIN x.wins
      BY <1>3, <3>2, <3>3 DEF p
    <3> QED
      BY <1>1, <1>2, <3>3, <3>4 DEF Asking
  <2> QED
    BY <1>1, <1>4, <1>5, <2>4, <2>5 DEF Settling
<1>7. CASE b \notin Writers
  <2>1. UNCHANGED <<state, merging>>
    BY <1>7 DEF UpdateState
  <2>2. \A c \in Writers : c \in Clients /\ c # b
    BY <1>7, SessionSyncAssumption
  <2>3. \A c \in Writers : Answering(c)'
    BY <1>1, <1>3, <1>4, <2>1, <2>2 DEF Settling, Answering
  <2>4. \A c \in Writers, w \in Windows : Asked(state, w)' => Asking(c, w)'
    BY <1>1, <1>3, <2>1, <2>2 DEF Settling, Asking
  <2> QED
    BY <1>1, <1>4, <1>5, <2>3, <2>4 DEF Settling
<1> QED
  BY <1>6, <1>7

LEMMA ReplySettling ==
  ASSUME IInv, Settling, NEW b \in Clients, ReplyMerged(b)
  PROVE  Settling'
<1>1. UNCHANGED <<state, publishing, pushedVersion, phase, view, up>>
      /\ merging' = [merging EXCEPT ![b] = "idle"]
  BY DEF ReplyMerged, daemonVars
<1>2. \A c \in Clients : inbox[c] \subseteq inbox'[c]
  BY ClientFacts DEF ReplyMerged, Broadcast
<1>3. merging[b] = "reconciled" => state \in inbox'[b]
  BY ClientFacts DEF ReplyMerged, Broadcast
<1>4. Deliveries' /\ (Latest' <=> Latest)
  BY <1>1 DEF Settling, Deliveries, Latest
<1>5. ASSUME NEW c \in Writers
      PROVE  Answering(c)'
  <2>1. c \in Clients /\ Answering(c)
    BY SessionSyncAssumption DEF Settling
  <2>2. merging'[c] = merging[c] \/ c = b
    BY <1>1, <2>1, ClientFacts
  <2>3. CASE c = b /\ merging[b] = "reconciled"
    BY <1>1, <1>3, <2>3 DEF Answering
  <2>4. CASE ~(c = b /\ merging[b] = "reconciled")
    BY <1>1, <1>2, <1>4, <2>1, <2>2, <2>4 DEF Answering, Waiting
  <2> QED
    BY <2>3, <2>4
<1>6. ASSUME NEW c \in Writers, NEW w \in Windows, Asked(state, w)
      PROVE  Asking(c, w)'
  <2>1. c \in Clients /\ Asking(c, w)
    BY <1>6, SessionSyncAssumption DEF Settling
  <2> QED
    BY <1>1, <1>2, <2>1 DEF Asking, Waiting
<1> QED
  BY <1>1, <1>4, <1>5, <1>6 DEF Settling, Waiting

(* Under tiling a sync with another set of windows than the client had is  *)
(* pushed back, with the version it came with.                             *)
LEMMA ApplySettling ==
  ASSUME Tiling, IInv, Settling, NEW b \in Clients, NEW s \in inbox[b], ApplyStateSync(b, s)
  PROVE  Settling'
<1> DEFINE q == Pushed(Adopted(s))
           asked == \E w \in DOMAIN s.wins : ~s.wins[w].placed
           absorbed == DOMAIN s.wins # DOMAIN view[b].wins
<1>1. s \in Snapshot /\ HistoryOf(state, s)
  BY ClientFacts
<1>2. /\ UNCHANGED <<state, publishing, pushedVersion, phase, merging>>
      /\ inbox' = [inbox EXCEPT ![b] = @ \ {s}] /\ view' = [view EXCEPT ![b] = Adopted(s)]
      /\ up' = IF asked \/ absorbed THEN [up EXCEPT ![b] = Append(@, q)] ELSE up
  BY DEF ApplyStateSync, daemonVars
<1>3. /\ q \in Snapshot /\ q.ver = s.ver /\ DOMAIN q.wins = DOMAIN s.wins
      /\ DOMAIN Adopted(s).wins = DOMAIN s.wins
      /\ AllPlaced(Adopted(s)) /\ AllPlaced(q)
  <2>1. Adopted(s) \in Snapshot /\ Adopted(s).ver = s.ver /\ DOMAIN Adopted(s).wins = DOMAIN s.wins
        /\ AllPlaced(Adopted(s))
    BY <1>1, AdoptedKeeps, AdoptedShape DEF AllPlaced
  <2> QED
    BY <2>1, PushedKeeps, PushedShape DEF SameSet, AllPlaced
<1> HIDE DEF q
<1>4. /\ asked \/ absorbed => Waiting(b)' = Waiting(b) \cup {q}
      /\ ~(asked \/ absorbed) => Waiting(b)' = Waiting(b)
      /\ \A d \in Clients \ {b} : Waiting(d)' = Waiting(d)
  <2>1. CASE asked \/ absorbed
    BY <1>2, <1>3, <2>1, WaitingMore
  <2>2. CASE ~(asked \/ absorbed)
    BY <1>2, <2>2 DEF Waiting
  <2> QED
    BY <2>1, <2>2
<1>5. /\ inbox'[b] = inbox[b] \ {s} /\ view'[b] = Adopted(s)
      /\ \A d \in Clients \ {b} : inbox'[d] = inbox[d] /\ view'[d] = view[d]
  BY <1>2, ClientFacts
<1>6. Deliveries' /\ (Latest' <=> Latest)
  BY <1>2 DEF Settling, Deliveries, Latest
<1>7. ASSUME NEW c \in Clients
      PROVE  AllPlaced(view'[c]) /\ \A x \in Waiting(c)' : AllPlaced(x)
  <2>1. CASE c = b
    BY <1>3, <1>4, <1>5, <2>1 DEF Settling
  <2>2. CASE c # b
    BY <1>4, <1>5, <2>2 DEF Settling
  <2> QED
    BY <2>1, <2>2
<1>8. ASSUME NEW c \in Writers
      PROVE  Answering(c)'
  <2>1. c \in Clients /\ Answering(c)
    BY SessionSyncAssumption DEF Settling
  <2>2. CASE c # b
    BY <1>2, <1>4, <1>5, <1>6, <2>1, <2>2 DEF Answering
  <2>3. CASE c = b /\ DOMAIN s.wins = DOMAIN state.wins
    BY <1>2, <1>3, <1>5, <2>3 DEF Answering
  <2>4. CASE c = b /\ DOMAIN s.wins # DOMAIN state.wins
    <3>1. CASE absorbed
      <4>1. q \in Waiting(b)' /\ q.ver < state.ver
        BY <1>1, <1>3, <1>4, <2>4, <3>1, SameVersionSameWindows
      <4> QED
        BY <1>2, <2>4, <4>1 DEF Answering
    <3>2. CASE ~absorbed
      <4>1. Waiting(b) \subseteq Waiting(b)' /\ DOMAIN view[b].wins # DOMAIN state.wins
        BY <1>4, <2>4, <3>2
      <4> HIDE DEF asked, absorbed
      <4> QED
        BY <1>2, <1>5, <1>6, <2>1, <2>4, <4>1 DEF Answering
    <3> QED
      BY <3>1, <3>2
  <2> QED
    BY <2>2, <2>3, <2>4
<1>9. ASSUME NEW c \in Writers, NEW w \in Windows, Asked(state, w)
      PROVE  Asking(c, w)'
  <2>1. c \in Clients /\ Asking(c, w)
    BY <1>9, SessionSyncAssumption DEF Settling
  <2>2. CASE c # b
    BY <1>2, <1>4, <1>5, <2>1, <2>2 DEF Asking
  <2>3. CASE c = b /\ Asked(s, w)
    <3>1. q \in Waiting(b)' /\ w \in DOMAIN q.wins
      BY <1>3, <1>4, <2>3 DEF Asked
    <3> QED
      BY <2>3, <3>1 DEF Asking
  <2>4. CASE c = b /\ ~Asked(s, w)
    <3>1. Waiting(b) \subseteq Waiting(b)'
      BY <1>4
    <3> HIDE DEF asked, absorbed
    <3> QED
      BY <1>2, <1>5, <2>1, <2>4, <3>1 DEF Asking
  <2> QED
    BY <2>2, <2>3, <2>4
<1> HIDE DEF asked, absorbed
<1>10. \A c \in Writers : Answering(c)' /\ \A w \in Windows : Asked(state', w) => Asking(c, w)'
  BY <1>2, <1>8, <1>9
<1> QED
  BY <1>2, <1>6, <1>7, <1>10 DEF Settling

(* An edit changes neither the client's windows nor their places.          *)
LEMMA EditSettling ==
  ASSUME IInv, Settling, NEW b \in Clients, UserEdit(b)
  PROVE  Settling'
<1>1. PICK kind, after : Edit(b, kind, after) /\ Edited(kind, view[b], after)
  BY UserEdited
<1>2. /\ UNCHANGED <<state, publishing, pushedVersion, phase, merging, inbox>>
      /\ view' = [view EXCEPT ![b] = after] /\ up' = [up EXCEPT ![b] = Append(@, Pushed(after))]
  BY <1>1 DEF Edit, daemonVars
<1>3. after \in Snapshot /\ SameSet(view[b], after)
  BY <1>1 DEF Edited
<1>4. /\ AllPlaced(after) /\ AllPlaced(Pushed(after)) /\ Pushed(after) \in Snapshot
      /\ DOMAIN after.wins = DOMAIN view[b].wins
  <2>1. AllPlaced(after) /\ DOMAIN after.wins = DOMAIN view[b].wins
    BY <1>3 DEF SameSet, AllPlaced, Settling
  <2> QED
    BY <1>3, <2>1, PushedKeeps, PushedShape DEF SameSet, AllPlaced
<1>5. /\ Waiting(b)' = Waiting(b) \cup {Pushed(after)}
      /\ \A d \in Clients \ {b} : Waiting(d)' = Waiting(d)
  BY <1>2, <1>4, WaitingMore
<1>6. /\ view'[b] = after /\ \A d \in Clients \ {b} : view'[d] = view[d]
  BY <1>2, ClientFacts
<1>7. \A d \in Clients : Waiting(d) \subseteq Waiting(d)' /\ DOMAIN view'[d].wins = DOMAIN view[d].wins
  BY <1>4, <1>5, <1>6
<1>8. Deliveries' /\ (Latest' <=> Latest)
  BY <1>2 DEF Settling, Deliveries, Latest
<1>9. \A c \in Clients : AllPlaced(view'[c]) /\ \A x \in Waiting(c)' : AllPlaced(x)
  BY <1>4, <1>5, <1>6 DEF Settling
<1>10. ASSUME NEW c \in Writers
       PROVE  Answering(c)' /\ \A w \in Windows : Asked(state', w) => Asking(c, w)'
  <2>1. c \in Clients /\ Answering(c) /\ \A w \in Windows : Asked(state, w) => Asking(c, w)
    BY SessionSyncAssumption DEF Settling
  <2>2. Waiting(c) \subseteq Waiting(c)' /\ DOMAIN view'[c].wins = DOMAIN view[c].wins
    BY <1>7, <2>1
  <2>3. Answering(c)'
    BY <1>2, <1>8, <2>1, <2>2 DEF Answering
  <2>4. \A w \in Windows : Asking(c, w) => Asking(c, w)'
    BY <1>2, <2>2 DEF Asking
  <2> QED
    BY <1>2, <2>1, <2>3, <2>4
<1> QED
  BY <1>2, <1>8, <1>9, <1>10 DEF Settling

(* For every number of clients and windows, where the clients tile and     *)
(* neither come nor go: once nothing is under way, each that may write     *)
(* shows the windows the daemon has, and every window has been placed      *)
(* (adoptSyncedWindows, handleUpdateState, publishState).                  *)
THEOREM PeersSettleHolds ==
  Tiling /\ AttachedAtStart = Clients /\ "leave" \notin Edits => (Spec => []PeersSettle)
<1> SUFFICES ASSUME Tiling, AttachedAtStart = Clients, "leave" \notin Edits
             PROVE  Spec => []PeersSettle
  OBVIOUS
<1>1. Init => Settling
  <2> SUFFICES ASSUME Init PROVE Settling
    OBVIOUS
  <2>1. \A c \in Clients : /\ phase[c] = "in" /\ view[c] = state /\ Waiting(c) = {}
    BY DEF Init, Waiting
  <2>2. AllPlaced(state)
    BY DEF Init, StartState, AllPlaced
  <2>3. Deliveries
    BY DEF Init, Deliveries, Latest, StartState
  <2>4. \A c \in Writers : Answering(c)
    BY <2>1, SessionSyncAssumption DEF Answering
  <2>5. \A w \in Windows : ~Asked(state, w)
    BY <2>2 DEF Asked, AllPlaced
  <2> QED
    BY <2>1, <2>2, <2>3, <2>4, <2>5 DEF Settling
<1>2. ASSUME IInv, Settling, [Next]_vars
      PROVE  Settling'
  <2>1. CASE UNCHANGED vars
    BY <1>2, <2>1 DEF vars, daemonVars, clientVars, Settling, Deliveries, Latest, Answering,
       Asking, Waiting
  <2>2. \A c \in Clients : ~(HandleAttach(c) \/ AttachState(c) \/ AttachReply(c) \/ HandleDetach(c))
    BY <1>2 DEF Settling, HandleAttach, AttachState, AttachReply, HandleDetach
  <2>3. \A c \in Clients : ~Leave(c)
    BY DEF Leave
  <2>4. CASE Deliver
    BY <1>2, <2>2, <2>4, PublishSettling, UpdateStateSettling, ReplySettling, ApplySettling
       DEF Deliver
  <2>5. CASE User
    BY <1>2, <2>2, <2>3, <2>5, EditSettling DEF User, UserEdit
  <2> QED
    BY <1>2, <2>1, <2>4, <2>5, VerbSettling DEF Next
<1>3. IInv /\ Settling => PeersSettle
  <2> SUFFICES ASSUME IInv, Settling, Quiet PROVE PeersSettle
    BY DEF PeersSettle, WindowSetsConverge, PlacementAnswered
  <2>1. publishing = {} /\ \A c \in Clients : inbox[c] = {} /\ Waiting(c) = {} /\ merging[c] = "idle"
    BY DEF Quiet, Waiting
  <2>2. \A c \in Writers : c \in Clients /\ Answering(c)
    BY SessionSyncAssumption DEF Settling
  <2>3. \A c \in Writers : DOMAIN view[c].wins = DOMAIN state.wins
    BY <2>1, <2>2 DEF Answering, Latest
  <2>4. ASSUME NEW c \in Writers, NEW w \in DOMAIN state.wins
        PROVE  state.wins[w].placed
    <3>1. ~Asking(c, w) /\ w \in Windows
      BY <2>1, <2>2, Facts DEF Asking
    <3> QED
      BY <3>1 DEF Settling, Asked
  <2> QED
    BY <2>3, <2>4 DEF PeersSettle, WindowSetsConverge, PlacementAnswered
<1> QED
  BY <1>1, <1>2, <1>3, Invariance, PTL DEF Spec
=============================================================================
