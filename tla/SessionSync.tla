---------------------------- MODULE SessionSync ----------------------------
(***************************************************************************)
(* The state of one session, written by two parties: the daemon            *)
(* (internal/session: session.go, session_ops.go, state_merge.go,          *)
(* daemon_handlers.go) and the TUI clients attached to it (internal/app:   *)
(* session.go, workspace.go, os_minimize.go).                              *)
(*                                                                         *)
(* A snapshot is a SessionState: what the daemon alone owns (which windows *)
(* exist, their names and agent states, the session's label), what both    *)
(* write (workspaces, minimized, focus), and whether a client has placed   *)
(* each window.  Geometry, z-order and the order of windows in the slice   *)
(* are left out: the repairs that take the first window of a workspace     *)
(* take any.                                                               *)
(*                                                                         *)
(* A state sync travels in a goroutine of its own on the daemon            *)
(* (broadcastToSession) and in another on the client (OnStateSync), so the *)
(* syncs a client has yet to apply are a set, taken in any order.  The     *)
(* pushes of a client are read by its connection in the order sent.        *)
(***************************************************************************)
EXTENDS Integers, Sequences, FiniteSets

CONSTANTS
  Clients,        \* TUI client connections
  Writers,        \* those not attached read-only
  MaxWin,         \* bound: windows ever created
  Workspaces,     \* workspace numbers
  Names,          \* names a window or the session may be given
  AgentStates,    \* agent states a report may set
  Tiling,         \* AutoTiling, on every workspace
  AttachedAtStart,\* clients attached when the behaviour starts
  StartRestored,  \* the session was rebuilt from saved state
  Verbs,          \* bound: the daemon-side operations that are used
  Edits,          \* bound: the edits clients make
  MaxVersion,     \* bound: daemon-side mutations
  MaxEdits        \* bound: edits made by clients

NoWindow == 0
NoName   == "unnamed"
NoAgent  == "no agent"

ASSUME SessionSyncAssumption ==
  /\ Writers \subseteq Clients /\ AttachedAtStart \subseteq Clients
  /\ MaxWin \in Nat /\ MaxVersion \in Nat /\ MaxEdits \in Nat
  /\ 1 \in Workspaces /\ Workspaces \subseteq Nat
  /\ NoName \notin Names /\ NoAgent \notin AgentStates
  /\ Tiling \in BOOLEAN /\ StartRestored \in BOOLEAN

Windows == 1..MaxWin

WindowState ==
  [ws : Workspaces, min : BOOLEAN, name : Names \cup {NoName},
   agent : AgentStates \cup {NoAgent}, placed : BOOLEAN]

(* Functions from some of the windows to values of S.                      *)
PerWindow(S) == UNION {[D -> S] : D \in SUBSET Windows}

Snapshot ==
  [ver : Nat, restored : BOOLEAN, label : Names \cup {NoName},
   wins : PerWindow(WindowState),
   focus : Windows \cup {NoWindow}, current : Workspaces,
   recall : [Workspaces -> Windows \cup {NoWindow}]]

(* What a consumer of the event stream knows of the session.               *)
Picture ==
  [wins : PerWindow([ws : Workspaces, min : BOOLEAN, name : Names \cup {NoName}]),
   focus : Windows \cup {NoWindow}, current : Workspaces]

VARIABLES
  state,         \* Session.state: the canonical snapshot
  life,          \* window -> none, spawned, open, closing or closed: its PTY's life
  publishing,    \* snapshots taken by mutations that have not delivered them yet
  pushedVersion, \* Session.pushedVersion
  headless,      \* a command found no client and is about to run on the daemon
  phase,         \* client -> out, joining, replying, in or leaving
  merging,       \* client -> its connection is in handleUpdateState: idle, accepted, reconciled
  inbox,         \* client -> state syncs sent to it and not applied
  up,            \* client -> its pushes, as snapshots, in the order sent
  view,          \* client -> its own copy of the session
  picture,       \* what the events told so far say
  edits          \* bound: edits made

daemonVars == <<state, life, publishing, pushedVersion, picture>>
clientVars == <<phase, merging, inbox, up, view>>
vars == <<daemonVars, clientVars, headless, edits>>

Attached == {c \in Clients : phase[c] # "out"}

Visible(wins, ws) == {w \in DOMAIN wins : wins[w].ws = ws /\ ~wins[w].min}

(* One of S, or nothing when S is empty.                                   *)
OneOf(S) == IF S = {} THEN {NoWindow} ELSE S

----------------------------------------------------------------------------
(* Events: the difference between two snapshots, folded into the picture.  *)
\* Mutant: a change raises no event.
UntoldChange(before, after, told) == told

(* A field of the picture after an event that is raised by a change only.  *)
ToldChange(before, after, told) == IF after # before THEN after ELSE told

(* Closes, creates, the changes of the windows that stay, the workspace    *)
(* switch and the focus.  A created window's event names no workspace: a   *)
(* consumer puts it where the session is.  Losing the focus is not told.   *)
Told(pic, before, after) ==
  [wins |->
     [w \in (DOMAIN pic.wins \ (DOMAIN before.wins \ DOMAIN after.wins))
              \cup (DOMAIN after.wins \ DOMAIN before.wins) |->
        IF w \notin DOMAIN before.wins
        THEN [ws |-> pic.current, min |-> FALSE, name |-> after.wins[w].name]
        ELSE [ws   |-> ToldChange(before.wins[w].ws, after.wins[w].ws, pic.wins[w].ws),
              min  |-> ToldChange(before.wins[w].min, after.wins[w].min, pic.wins[w].min),
              name |-> ToldChange(before.wins[w].name, after.wins[w].name, pic.wins[w].name)]],
   current |-> ToldChange(before.current, after.current, pic.current),
   focus   |-> IF after.focus = NoWindow THEN pic.focus
               ELSE ToldChange(before.focus, after.focus, pic.focus)]

----------------------------------------------------------------------------
(* Daemon-side mutations.                                                  *)
(* mutateStateLocked: the version goes up, the events of the difference go *)
(* out and a snapshot is taken, all under stateMu; publishState delivers   *)
(* the snapshot later, without the lock.                                   *)
Mutate(verb, after) ==
  /\ verb \in Verbs
  /\ state.ver < MaxVersion
  /\ state' = [after EXCEPT !.ver = state.ver + 1]
  /\ publishing' = publishing \cup {state'}
  /\ picture' = Told(picture, state, state')

(* Verbs that are the daemon's whether or not a client is attached.        *)
Owned == headless' = headless

(* The others run here only after a check that found no client.            *)
HeadlessOnly == headless /\ headless' = FALSE

FindNoClient ==
  /\ Attached = {} /\ ~headless
  /\ headless' = TRUE
  /\ UNCHANGED <<daemonVars, clientVars, edits>>

(* CreatePTY, then registerDaemonWindow: the shell runs before the window  *)
(* is in the state.  Window ids are new uuids.                             *)
CreatePTY(w) ==
  /\ "new" \in Verbs
  /\ life[w] = "none" /\ \A v \in Windows : v < w => life[v] # "none"
  /\ life' = [life EXCEPT ![w] = "spawned"]
  /\ UNCHANGED <<state, publishing, pushedVersion, picture, clientVars, headless, edits>>

RegisterDaemonWindow(w) ==
  /\ life[w] = "spawned"
  /\ Mutate("new",
       [state EXCEPT
          !.wins = [v \in DOMAIN state.wins \cup {w} |->
                      IF v = w
                      THEN [ws |-> state.current, min |-> FALSE, name |-> NoName,
                            agent |-> NoAgent, placed |-> FALSE]
                      ELSE state.wins[v]],
          !.focus = w, !.recall[state.current] = w])
  /\ life' = [life EXCEPT ![w] = "open"]
  /\ Owned
  /\ UNCHANGED <<pushedVersion, clientVars, edits>>

Without(wins, w) == [v \in DOMAIN wins \ {w} |-> wins[v]]

\* Mutant: the workspace that remembers the window is not repaired.
RecallAfterCloseKept(rest, ws, w, focus) == state.recall

(* The workspace's remembered focus after window w left it.                *)
RecallAfterClose(rest, ws, w, focus) ==
  IF state.recall[ws] # w THEN state.recall
  ELSE [state.recall EXCEPT ![ws] =
          IF focus \in DOMAIN rest /\ rest[focus].ws = ws THEN focus ELSE NoWindow]

CloseDaemonWindow(w) ==
  /\ w \in DOMAIN state.wins
  /\ LET rest == Without(state.wins, w)
         ws   == state.wins[w].ws
     IN  \E f \in IF state.focus = w THEN OneOf(Visible(rest, ws)) ELSE {state.focus} :
           Mutate("close", [state EXCEPT !.wins = rest, !.focus = f,
                                         !.recall = RecallAfterClose(rest, ws, w, f)])
  /\ life' = [life EXCEPT ![w] = "closing"]
  /\ Owned
  /\ UNCHANGED <<pushedVersion, clientVars, edits>>

(* The PTY goes after the window, outside the state lock.                  *)
ClosePTY(w) ==
  /\ life[w] = "closing"
  /\ life' = [life EXCEPT ![w] = "closed"]
  /\ UNCHANGED <<state, publishing, pushedVersion, picture, clientVars, headless, edits>>

RenameDaemonWindow(w, n) ==
  /\ w \in DOMAIN state.wins
  /\ Mutate("rename", [state EXCEPT !.wins[w].name = n])
  /\ Owned
  /\ UNCHANGED <<life, pushedVersion, clientVars, edits>>

SetDisplayName(n) ==
  /\ Mutate("label", [state EXCEPT !.label = n])
  /\ Owned
  /\ UNCHANGED <<life, pushedVersion, clientVars, edits>>

(* Which report wins is not modelled here.                                 *)
ApplyAgentReport(w, a) ==
  /\ w \in DOMAIN state.wins
  /\ Mutate("agent", [state EXCEPT !.wins[w].agent = a])
  /\ Owned
  /\ UNCHANGED <<life, pushedVersion, clientVars, edits>>

FocusDaemonWindow(w) ==
  /\ w \in DOMAIN state.wins
  /\ LET ws == state.wins[w].ws
     IN  Mutate("focus", [state EXCEPT !.focus = w, !.current = ws, !.recall[ws] = w])
  /\ HeadlessOnly
  /\ UNCHANGED <<life, pushedVersion, clientVars, edits>>

(* The next or previous window of the workspace, minimized or not.         *)
CycleDaemonFocus(w) ==
  /\ w \in DOMAIN state.wins /\ state.wins[w].ws = state.current
  /\ w = state.focus => \A v \in DOMAIN state.wins \ {w} : state.wins[v].ws # state.current
  /\ Mutate("cycle", [state EXCEPT !.focus = w, !.recall[state.current] = w])
  /\ HeadlessOnly
  /\ UNCHANGED <<life, pushedVersion, clientVars, edits>>

MoveDaemonWindowToWorkspace(w, ws) ==
  /\ w \in DOMAIN state.wins
  /\ LET old == state.wins[w].ws
     IN  Mutate("move", [state EXCEPT !.wins[w].ws = ws,
                           !.recall[old] = IF @ = w THEN NoWindow ELSE @])
  /\ HeadlessOnly
  /\ UNCHANGED <<life, pushedVersion, clientVars, edits>>

SwitchDaemonWorkspace(ws) ==
  /\ Mutate("switch", [state EXCEPT !.current = ws,
                         !.focus = IF state.recall[ws] # NoWindow THEN state.recall[ws] ELSE @])
  /\ HeadlessOnly
  /\ UNCHANGED <<life, pushedVersion, clientVars, edits>>

SetDaemonWindowMinimized(w, b) ==
  /\ w \in DOMAIN state.wins
  /\ Mutate("minimize", [state EXCEPT !.wins[w].min = b])
  /\ HeadlessOnly
  /\ UNCHANGED <<life, pushedVersion, clientVars, edits>>

(* broadcastStateSync to the TUI clients of the session but one.           *)
Broadcast(box, snap, but) ==
  [c \in Clients |-> IF c \in Attached \ but THEN box[c] \cup {snap} ELSE box[c]]

StaleDelivery(snap) == snap.ver <= pushedVersion

(* publishState, under pushMu: never an older snapshot after a newer one.  *)
PublishState(snap) ==
  /\ publishing' = publishing \ {snap}
  /\ IF StaleDelivery(snap)
     THEN UNCHANGED <<pushedVersion, inbox>>
     ELSE /\ pushedVersion' = snap.ver
          /\ inbox' = Broadcast(inbox, snap, {})
  /\ UNCHANGED <<state, life, picture, phase, merging, up, view, headless, edits>>

----------------------------------------------------------------------------
(* A push arriving.                                                        *)
HasLivePTY(w) == life[w] \in {"spawned", "open", "closing"}

(* The windows of a stale push that exist, and those it is missing: a      *)
(* missing window whose PTY is gone was closed, any other is newer.        *)
Surviving(p) ==
  (DOMAIN p.wins \cap DOMAIN state.wins)
    \cup {w \in DOMAIN state.wins \ DOMAIN p.wins : HasLivePTY(w)}

\* Mutant: the client's name for it is kept.
OwnedFromStateButName(w, mine) ==
  [mine EXCEPT !.ws = state.wins[w].ws, !.min = state.wins[w].min]

OwnedFromState(w, mine) ==
  [mine EXCEPT !.name = state.wins[w].name, !.ws = state.wins[w].ws, !.min = state.wins[w].min]

(* reconcileStale: the push was built before a mutation its client has not *)
(* seen, so what the daemon owns is taken from the canonical state.        *)
Reconciled(p) ==
  [p EXCEPT
     !.wins = [w \in Surviving(p) |->
                 IF w \in DOMAIN p.wins THEN OwnedFromState(w, p.wins[w]) ELSE state.wins[w]],
     !.focus = state.focus, !.current = state.current, !.recall = state.recall]

\* Mutant: whether a window is placed is the daemon's to say.
RetainedUnplaced(p) ==
  [p EXCEPT
     !.label = IF @ = NoName THEN state.label ELSE @,
     !.restored = state.restored,
     !.wins = [w \in DOMAIN p.wins |->
                 IF w \in DOMAIN state.wins
                 THEN [p.wins[w] EXCEPT !.agent = state.wins[w].agent, !.placed = state.wins[w].placed]
                 ELSE p.wins[w]]]

(* retainDaemonExclusive: what no client sends is carried over.            *)
Retained(p) ==
  [p EXCEPT
     !.label = IF @ = NoName THEN state.label ELSE @,
     !.restored = state.restored,
     !.wins = [w \in DOMAIN p.wins |->
                 IF w \in DOMAIN state.wins /\ p.wins[w].agent = NoAgent
                 THEN [p.wins[w] EXCEPT !.agent = state.wins[w].agent]
                 ELSE p.wins[w]]]

\* Mutant: a push one mutation behind passes for current.
BehindOffByOne(p) == p.ver # 0 /\ p.ver + 1 < state.ver

Behind(p) == p.ver # 0 /\ p.ver < state.ver

(* UpdateState, under stateMu.  The version is carried forward unchanged.  *)
UpdateState(c) ==
  /\ up[c] # <<>> /\ merging[c] = "idle" /\ phase[c] \in {"in", "leaving"}
  /\ up' = [up EXCEPT ![c] = Tail(@)]
  /\ IF c \notin Writers
     THEN UNCHANGED <<state, picture, merging>>
     ELSE LET p      == Head(up[c])
              merged == IF Behind(p) THEN Retained(Reconciled(p)) ELSE Retained(p)
          IN  /\ state' = [merged EXCEPT !.ver = state.ver]
              /\ picture' = Told(picture, state, state')
              /\ merging' = [merging EXCEPT ![c] = IF Behind(p) THEN "reconciled" ELSE "accepted"]
  /\ UNCHANGED <<life, publishing, pushedVersion, phase, inbox, view, headless, edits>>

\* Mutant: only the other clients are sent the merged state.
ReplyMergedPeersOnly(c) ==
  /\ merging[c] # "idle"
  /\ inbox' = IF Cardinality(Attached) > 1 THEN Broadcast(inbox, state, {c}) ELSE inbox
  /\ merging' = [merging EXCEPT ![c] = "idle"]
  /\ UNCHANGED <<daemonVars, phase, up, view, headless, edits>>

(* The rest of handleUpdateState: the state is read again, sent back to a  *)
(* client that was reconciled and broadcast to the others.                 *)
ReplyMerged(c) ==
  /\ merging[c] # "idle"
  /\ LET answered == IF merging[c] = "reconciled"
                     THEN [inbox EXCEPT ![c] = @ \cup {state}] ELSE inbox
     IN  inbox' = IF Cardinality(Attached) > 1
                  THEN Broadcast(answered, state, {c}) ELSE answered
  /\ merging' = [merging EXCEPT ![c] = "idle"]
  /\ UNCHANGED <<daemonVars, phase, up, view, headless, edits>>

----------------------------------------------------------------------------
(* Attach and detach.                                                      *)
(* A client's copy once it has taken snapshot s: every window is placed by *)
(* it, and a remembered focus on a window it does not hold is dropped.     *)
Held(s, w) == IF w \in DOMAIN s.wins THEN w ELSE NoWindow

Adopted(s) ==
  [s EXCEPT !.wins   = [w \in DOMAIN s.wins |-> [s.wins[w] EXCEPT !.placed = TRUE]],
            !.focus  = Held(s, @),
            !.recall = [ws \in Workspaces |-> Held(s, s.recall[ws])]]

(* BuildSessionState: what a push says.  Agent states, the label and the   *)
(* restored mark are never sent.                                           *)
Pushed(v) ==
  [v EXCEPT !.wins  = [w \in DOMAIN v.wins |-> [v.wins[w] EXCEPT !.agent = NoAgent]],
            !.label = NoName, !.restored = FALSE]

(* handleAttach records the session on the connection first, then clears   *)
(* the restored mark: a mutation nobody is sent.                           *)
HandleAttach(c) ==
  /\ phase[c] = "out"
  /\ phase' = [phase EXCEPT ![c] = "joining"]
  /\ state' = IF state.restored
              THEN [state EXCEPT !.restored = FALSE, !.ver = @ + 1] ELSE state
  /\ UNCHANGED <<life, publishing, pushedVersion, picture, merging, inbox, up, view, headless, edits>>

(* The state the reply will carry, with the focus the client falls back to *)
(* when it names no window.                                                *)
AttachState(c) ==
  /\ phase[c] = "joining"
  /\ phase' = [phase EXCEPT ![c] = "replying"]
  /\ \E f \in IF Adopted(state).focus = NoWindow
              THEN OneOf(Visible(state.wins, state.current)) ELSE {state.focus} :
       view' = [view EXCEPT ![c] = [Adopted(state) EXCEPT !.focus = f]]
  /\ UNCHANGED <<daemonVars, merging, inbox, up, headless, edits>>

(* MsgAttached is written: the client has skipped the syncs written ahead  *)
(* of it and keeps those that follow.                                      *)
AttachReply(c) ==
  /\ phase[c] = "replying"
  /\ phase' = [phase EXCEPT ![c] = "in"]
  /\ \E late \in SUBSET inbox[c] : inbox' = [inbox EXCEPT ![c] = late]
  /\ UNCHANGED <<daemonVars, merging, up, view, headless, edits>>

(* A client that leaves may take the last of its pushes with it.           *)
Leave(c) ==
  /\ "leave" \in Edits
  /\ phase[c] = "in"
  /\ phase' = [phase EXCEPT ![c] = "leaving"]
  /\ \E n \in 0..Len(up[c]) : up' = [up EXCEPT ![c] = SubSeq(@, 1, n)]
  /\ UNCHANGED <<daemonVars, merging, inbox, view, headless, edits>>

HandleDetach(c) ==
  /\ phase[c] = "leaving" /\ up[c] = <<>> /\ merging[c] = "idle"
  /\ phase' = [phase EXCEPT ![c] = "out"]
  /\ inbox' = [inbox EXCEPT ![c] = {}]
  /\ UNCHANGED <<daemonVars, merging, up, view, headless, edits>>

----------------------------------------------------------------------------
(* The client.                                                             *)
(* ApplyStateSync: the client's copy becomes the sync's, whatever its      *)
(* version.  Placing a window, or a window set the tiling has to absorb,   *)
(* is pushed back.                                                         *)
ApplyStateSync(c, s) ==
  /\ phase[c] = "in"
  /\ inbox' = [inbox EXCEPT ![c] = @ \ {s}]
  /\ view' = [view EXCEPT ![c] = Adopted(s)]
  /\ LET placed == \E w \in DOMAIN s.wins : ~s.wins[w].placed
         absorbed == Tiling /\ DOMAIN s.wins # DOMAIN view[c].wins
     IN  up' = IF placed \/ absorbed
               THEN [up EXCEPT ![c] = Append(@, Pushed(Adopted(s)))] ELSE up
  /\ UNCHANGED <<daemonVars, phase, merging, headless, edits>>

(* An edit changes the client's copy and pushes it.                        *)
Edit(c, kind, after) ==
  /\ kind \in Edits
  /\ phase[c] = "in" /\ edits < MaxEdits
  /\ after # view[c]
  /\ edits' = edits + 1
  /\ view' = [view EXCEPT ![c] = after]
  /\ up' = [up EXCEPT ![c] = Append(@, Pushed(after))]
  /\ UNCHANGED <<daemonVars, phase, merging, inbox, headless>>

(* The workspace being left remembers its focus.                           *)
Remembering(v) ==
  IF v.focus \in DOMAIN v.wins /\ v.wins[v.focus].ws = v.current
  THEN [v.recall EXCEPT ![v.current] = v.focus] ELSE v.recall

Focused(v, w) ==
  LET ws  == v.wins[w].ws
      old == IF ws # v.current THEN Remembering(v) ELSE v.recall
  IN  [v EXCEPT !.current = ws, !.focus = w,
                !.recall = IF w # v.focus THEN [old EXCEPT ![ws] = w] ELSE old]

(* Focus goes to some visible window of the current workspace, or nowhere. *)
Refocused(v) ==
  IF Visible(v.wins, v.current) = {} THEN {[v EXCEPT !.focus = NoWindow]}
  ELSE {Focused(v, w) : w \in Visible(v.wins, v.current)}

FocusWindow(c, w) ==
  w \in DOMAIN view[c].wins /\ Edit(c, "focus", Focused(view[c], w))

SwitchToWorkspace(c, ws) ==
  /\ ws # view[c].current
  /\ LET v == [view[c] EXCEPT !.current = ws, !.recall = Remembering(view[c])]
     IN  IF v.recall[ws] \in Visible(v.wins, ws)
         THEN Edit(c, "switch", [v EXCEPT !.focus = v.recall[ws]])
         ELSE \E after \in Refocused(v) : Edit(c, "switch", after)

(* The workspace left behind keeps the moved window as its remembered one  *)
(* when nothing else takes the focus there.                                *)
MoveWindowToWorkspace(c, w, ws) ==
  /\ w \in DOMAIN view[c].wins /\ ws # view[c].wins[w].ws
  /\ LET v == [view[c] EXCEPT !.wins[w].ws = ws]
     IN  \E after \in IF w = v.focus THEN Refocused(v) ELSE {v} : Edit(c, "move", after)

MinimizeWindow(c, w) ==
  /\ w \in DOMAIN view[c].wins /\ ~view[c].wins[w].min
  /\ LET v == [view[c] EXCEPT !.wins[w].min = TRUE]
     IN  \E after \in IF w = v.focus THEN Refocused(v) ELSE {v} : Edit(c, "minimize", after)

RestoreWindow(c, w) ==
  /\ w \in DOMAIN view[c].wins /\ view[c].wins[w].min
  /\ Edit(c, "minimize", Focused([view[c] EXCEPT !.wins[w].min = FALSE], w))

----------------------------------------------------------------------------
(* A session with one window, that every client attached at the start has. *)
StartState ==
  [ver |-> 1, restored |-> StartRestored, label |-> NoName,
   wins |-> [w \in {v \in Windows : v = 1} |->
               [ws |-> 1, min |-> FALSE, name |-> NoName, agent |-> NoAgent, placed |-> TRUE]],
   focus |-> IF MaxWin = 0 THEN NoWindow ELSE 1,
   current |-> 1,
   recall |-> [ws \in Workspaces |-> IF ws = 1 /\ MaxWin # 0 THEN 1 ELSE NoWindow]]

Seen(s) ==
  [wins |-> [w \in DOMAIN s.wins |->
               [ws |-> s.wins[w].ws, min |-> s.wins[w].min, name |-> s.wins[w].name]],
   focus |-> s.focus, current |-> s.current]

Init ==
  /\ state = StartState
  /\ life = [w \in Windows |-> IF w = 1 THEN "open" ELSE "none"]
  /\ publishing = {} /\ pushedVersion = 1
  /\ headless = FALSE /\ edits = 0
  /\ phase = [c \in Clients |-> IF c \in AttachedAtStart THEN "in" ELSE "out"]
  /\ merging = [c \in Clients |-> "idle"]
  /\ inbox = [c \in Clients |-> {}]
  /\ up = [c \in Clients |-> <<>>]
  /\ view = [c \in Clients |-> StartState]
  /\ picture = Seen(StartState)

Verb ==
  \/ \E w \in Windows :
       \/ CreatePTY(w) \/ RegisterDaemonWindow(w) \/ CloseDaemonWindow(w) \/ ClosePTY(w)
       \/ FocusDaemonWindow(w) \/ CycleDaemonFocus(w)
       \/ \E n \in Names \cup {NoName} : RenameDaemonWindow(w, n)
       \/ \E a \in AgentStates \cup {NoAgent} : ApplyAgentReport(w, a)
       \/ \E ws \in Workspaces : MoveDaemonWindowToWorkspace(w, ws)
       \/ \E b \in BOOLEAN : SetDaemonWindowMinimized(w, b)
  \/ \E n \in Names \cup {NoName} : SetDisplayName(n)
  \/ \E ws \in Workspaces : SwitchDaemonWorkspace(ws)
  \/ FindNoClient

Deliver ==
  \/ \E snap \in publishing : PublishState(snap)
  \/ \E c \in Clients :
       \/ UpdateState(c) \/ ReplyMerged(c)
       \/ \E s \in inbox[c] : ApplyStateSync(c, s)
       \/ AttachState(c) \/ AttachReply(c) \/ HandleDetach(c)

User ==
  \E c \in Clients :
    \/ HandleAttach(c) \/ Leave(c)
    \/ \E w \in Windows :
         \/ FocusWindow(c, w) \/ MinimizeWindow(c, w) \/ RestoreWindow(c, w)
         \/ \E ws \in Workspaces : MoveWindowToWorkspace(c, w, ws)
    \/ \E ws \in Workspaces : SwitchToWorkspace(c, ws)

Next == Verb \/ Deliver \/ User

Spec == Init /\ [][Next]_vars

(* Goroutines that have something to deliver run; nobody has to type.      *)
FairSpec == Spec /\ WF_vars(Deliver) /\ WF_vars(\E w \in Windows : ClosePTY(w))

----------------------------------------------------------------------------
(* The types of the variables.                                             *)
TypeOK ==
  /\ state \in Snapshot /\ publishing \subseteq Snapshot
  /\ life \in [Windows -> {"none", "spawned", "open", "closing", "closed"}]
  /\ pushedVersion \in Nat /\ edits \in Nat /\ headless \in BOOLEAN
  /\ phase \in [Clients -> {"out", "joining", "replying", "in", "leaving"}]
  /\ merging \in [Clients -> {"idle", "accepted", "reconciled"}]
  /\ view \in [Clients -> Snapshot] /\ picture \in Picture
  /\ inbox \in [Clients -> SUBSET Snapshot] /\ up \in [Clients -> Seq(Snapshot)]

(* The windows of the session are those the daemon opened and has not      *)
(* closed: no push, however late and from whatever version, brings a       *)
(* closed window back or loses one (UpdateState, reconcileStale).          *)
WindowsAreTheDaemons == DOMAIN state.wins = {w \in Windows : life[w] = "open"}

(* What the daemon alone owns.                                             *)
DaemonOwned(s) ==
  [wins  |-> [w \in DOMAIN s.wins |-> <<s.wins[w].name, s.wins[w].agent>>],
   label |-> s.label, restored |-> s.restored]

(* The version moves with everything the daemon owns: a step that leaves   *)
(* the version leaves the window set, the names, the agent states, the     *)
(* label and the restored mark as they were, so no client sync writes      *)
(* them (UpdateState carries the version forward).                         *)
OwnedMovesWithVersion ==
  [][state'.ver = state.ver => DaemonOwned(state') = DaemonOwned(state)]_vars

(* A consumer that folds the events into a picture holds the session's     *)
(* windows, their workspaces, names and minimized marks, its workspace and *)
(* its focus, whichever route the change took (diffLifecycle).             *)
PictureFollows ==
  /\ picture.wins = Seen(state).wins
  /\ picture.current = state.current
  /\ state.focus # NoWindow => picture.focus = state.focus

(* The focus, and the focus each workspace will get back, name windows the *)
(* session has (CloseDaemonWindow's repairs, the focus reconcileStale and  *)
(* ApplyStateSync take over).                                              *)
FocusIsOpen ==
  /\ state.focus \in DOMAIN state.wins \cup {NoWindow}
  /\ \A ws \in Workspaces : state.recall[ws] \in DOMAIN state.wins \cup {NoWindow}

(* state_events.go: a focus change is only reported for a window that      *)
(* still exists.                                                           *)
FocusEventsNameWindows ==
  [][state'.focus # state.focus /\ state'.focus # NoWindow => state'.focus \in DOMAIN state'.wins]_vars

(* Nothing is under way.                                                   *)
Quiet ==
  /\ publishing = {} /\ ~headless
  /\ \A w \in Windows : life[w] \notin {"spawned", "closing"}
  /\ \A c \in Clients : /\ inbox[c] = {} /\ up[c] = <<>> /\ merging[c] = "idle"
                        /\ phase[c] \in {"out", "in"}

(* Syncs are applied in any order, an older one after a newer too, yet     *)
(* when nothing is under way a client under tiling shows the windows the   *)
(* daemon has: absorbing a changed set pushes it back, and a stale push is *)
(* answered (adoptSyncedWindows, handleUpdateState).                       *)
WindowSetsConverge ==
  Quiet => \A c \in Writers : phase[c] = "in" => DOMAIN view[c].wins = DOMAIN state.wins

(* When nothing is under way and a client that may write is attached, the  *)
(* daemon's question where a new window goes has been answered, even by a  *)
(* push that was reconciled (placeUnplacedWindows).                        *)
PlacementAnswered ==
  Quiet /\ (\E c \in Writers : phase[c] = "in")
    => \A w \in DOMAIN state.wins : state.wins[w].placed

(* Between peers nothing is left open once nothing is under way.           *)
PeersSettle == WindowSetsConverge /\ PlacementAnswered

(* Clients that push what they were just sent do not keep each other       *)
(* pushing: once the mutations and edits stop, so does the traffic.        *)
TrafficEnds == <>[](\A c \in Clients : inbox[c] = {} /\ up[c] = <<>>)

(* daemon_handlers.go: a client whose push was reconciled is sent the      *)
(* merged state so that it converges.                                      *)
ClientConverges ==
  Quiet => \A c \in Writers : phase[c] = "in" => Seen(view[c]) = Seen(state)

(* daemon_handlers.go: peers get the merged state so that every client     *)
(* converges on the same view.                                             *)
PeersConverge ==
  Quiet => \A c, d \in Writers : phase[c] = "in" /\ phase[d] = "in" => Seen(view[c]) = Seen(view[d])

(* session.go: a publisher that lost the race is dropped rather than       *)
(* letting a client see the daemon go backwards.                           *)
NeverBackwards ==
  [][\A c \in Clients : phase[c] = "in" /\ phase'[c] = "in" => view'[c].ver >= view[c].ver]_vars

(* tuiclient.go: the attach reply carries the whole state, so nothing the  *)
(* syncs skipped ahead of it said is lost.                                 *)
SkippedSyncsAreInTheReply ==
  Quiet => \A c \in Clients : phase[c] = "in" => view[c].ver = state.ver
=============================================================================
