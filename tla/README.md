# tuios: a TLA+ verification project

tuios is a terminal multiplexer. A daemon owns shells, sessions and windows; TUI
clients attach to a session, render it and edit it; a command line talks to the
daemon. The parts that are hard to get right are the ones several goroutines,
connections or processes write at once: the byte stream of a pane, the state of
a session, the daemon's own start and stop, and what is saved of it. This
directory models those parts in TLA+, model-checks them with TLC on small
instances and proves the central invariants with TLAPS for every instance.

All paths are relative to the repository. Everything is translated from the code;
docs and comments are quoted only as claims to check.

## 1. Inventory

| Component | State it keeps | Operations | Talks to |
|---|---|---|---|
| PTY output stream (`internal/session/session.go`, `daemon_stream.go`) | output ring, resize marks, stream position, subscribers and their channels, queue of the daemon's emulator | read, resize, subscribe, unsubscribe, stream, close | guest process, clients, emulator |
| Session state (`session.go`, `session_ops.go`, `state_merge.go`, `state_events.go`, `daemon_handlers.go`, `internal/app/session.go`) | canonical `SessionState` with a version, every client's copy, syncs and pushes under way | daemon verbs, client edits, merge, reconcile, broadcast, attach, detach, lifecycle events | clients, event hub, saver |
| Daemon lifecycle (`daemon.go`, `daemon_startlock.go`, `daemon_diagnose.go`, `cmd/tuios/daemon_start.go`, `session_commands.go`) | start lock, socket path, pid file, saved states | start, serve, stop, die, kill-server, start by a client | other daemons and commands, through the file system only |
| Session registry and resurrection (`manager.go`, `resurrection.go`, `daemon_resurrect.go`) | live sessions by name, dirty marks, `<name>.json` and its tmp file | create, kill, shutdown, periodic save, final save, restore, resurrect | disk, session state |
| Event hub and wait-for (`daemon_events.go`, `verb_subscribe.go`) | bounded queue and drop counter per subscriber, sequence number | publish, subscribe, stream, wait | JSON clients |
| Command routing (`daemon_command.go`, `daemon.go`) | `pendingRequests` by id | forward to a TUI, take its result, time out, expire, purge | TUI and CLI connections |
| Size negotiation (`daemon_size.go`) | each client's size, the session's size | recompute the minimum, broadcast | clients, panes |
| Agent state (`agent_state.go`, `agent_source.go`, `agent_hold.go`, `agent_screen.go`, `agent_detect.go`, `agent_osc.go`) | a window's state with the claim behind it, the blocker on loan, the held quieter state and its timer | report, progress, screen look, detect, stall, hold, settle | session state |
| Session switch in a client (`tuiclient.go`, `cmd/tuios/session_commands.go`) | handlers, pending attach | attach, detach, switch | daemon |
| Layouts (`internal/layout`) | BSP tree, scrolling strip | insert, remove, resize | client |
| The rest: TUI rendering and input, terminal emulator, scrollback browser, hooks, harness recognition, tapes, pools, classroom logins, SSH and web front ends, protocol codecs, CLI, configuration, autostart, sound and themes | | | |

What is hard in each, and so what its properties are about:

- *Stream.* `Subscribe` copies its catch-up from the ring between the append of a
  chunk and its broadcast; resizes are points in the stream; channels overflow;
  the emulator runs behind; the goroutine of an old subscription ends while a new
  one begins. Correct: every subscriber gets each byte once, in order, at the
  width it was written for, and the pane on screen is subscribed.
- *Session state.* Two parties write one snapshot; messages on both directions
  are as old as they like and syncs are unordered. Correct: what the daemon owns
  is not written by a push, windows neither come back nor get lost, events add up
  to the state, the clients end up with the daemon's windows, and they stop.
- *Lifecycle.* Nothing is shared but files; each system call may be the last one.
  Correct: one server at a time, no saved edit lost or read half, every client
  that starts a daemon is answered.
- *Registry and saves.* Two goroutines write one file by open, write and rename;
  a kill, a final save, a crash and a restore come between. Correct: saved states
  are whole, current once quiet, gone after a kill, and otherwise left alone.
- *Events, routing, sizes, agents, switching.* Full queues and lost tails, results
  before their request is registered or after its timeout, read-compute-write in
  separate lock scopes, a timer racing reports, a sync applied to the wrong session.

`PROJECT.json` lists each hazard at its line under "hazards", with the properties
that cover it or the reason why none does yet.

## 2. Plan

| # | Modules | Composes | Status |
|---|---|---|---|
| 1 | PtyStream, PtyStreamProofs | ring + subscribers + emulator queue + client view | done |
| 2 | SessionSync, SessionSyncProofs | daemon state + clients + events | done |
| 3 | DaemonLife, DaemonLifeProofs | daemons + start lock + kill-server + starting clients | done |
| 4 | Resurrection, implementing SavedStates, ResurrectionProofs | registry + savers + disk + restore | done |
| 5 | EventHub, EventHubProofs | publishers + hub + streamers + verb loop + wait-for | done |
| 6 | CommandRouting, implementing AnswerOnce, CommandRoutingProofs | requesters + pending table + TUIs | done |
| 7 | AgentState, AgentStateProofs | sources + screen looks + holds + timer | done |
| 8 | SizeNegotiation, SizeNegotiationProofs | clients' sizes + session size + what is drawn | done |
| 9 | SessionSwitch | SessionSync's client over two sessions | not started |

Abstract specifications: AnswerOnce, a request carried out and answered at most once, is
implemented by CommandRouting (`Answered`); SavedStates, a saved state replaced whole by what
its session held at one moment, by Resurrection (`SavesAreAtomic`). Worth stating next: a
reliable byte stream for PtyStream's subscription.

Proofs, in order of worth: the emulator's order and the replays, the seam, the view, the
daemon-owned state, one server, whole and current saved states, what an event stream and a
wait-for are told, reading back after a command, the refinement of AnswerOnce, the stall
monitor's idle, what a kill-server reports, what a restore keeps, focus and settling of peers,
the session's size, the refinement of SavedStates: all of these are proved.

## 3. Modules

### PtyStream

One pane. Bytes are numbered; a chunk is an interval of numbers, so duplicates, gaps
and wrong widths are arithmetic. `stage` is the holder of `streamMu` and how far it
has got: `AppendToBuffer` (or `MarkResize`), `Broadcast`, `QueueForEmulator` are the
three critical sections of `readOutput` and `Resize`, and any other goroutine may run
between them. `RingAfter` is `appendToBuffer`'s half shifts, `Pruned` the pruning of
resize marks, `CatchUp` what `Subscribe` queues: from `ReplayStart` on, behind the size of
the mark `MarkAt` it, cut at every mark behind that. A client is its connection goroutine
(`handler`: a request in progress, one at a time), its subscriptions by generation
(`chan`, `streamer`), the daemon's bookkeeping (`entry`, `ptyResume`) and its view.
Actions per request: `ShowPane` (state request, restore), `HandleSubscribePTY`,
`Subscribe`, `HidePane`, `Unsubscribe`, `AnnounceSize`, `MarkResize`, `ResizeTty`,
`Disconnect`; per streamer: `StreamItem`, `StreamEnd`, `StreamForget`; `GuestExit` and
`ClosePTY` end the pane. `laid`, `handed` and `lost` are history.

A `ShowPane` whose state request fails leaves the screen and names no position
(`primed = 0`): what such a pane shows is not promised. A shown pane's client queues what it is
handed, and drops an item when that queue is full (`StreamItem`, `Overrun`): the queue itself is
not modelled, it may be full at any time, and `Missed` excuses what the pane lacks from then on
until it is shown again.

Left out: what a byte means, the resync escape itself (a flag `clear`), batching (it
only joins consecutive items), a channel's 16384 entries (SubCap).
`Hasty = FALSE` restricts a run to panes that are shown again only when their last
streamer has returned: what happens otherwise is `PtyStreamKilledByOld.cfg`.

### SessionSync

One session. A `Snapshot` has what the daemon alone owns (window set, names, agent
states, label, restored mark), what both write (workspace, minimized, focus, remembered
focus) and whether each window is placed. `Mutate` is `mutateStateLocked`: version up,
events of the difference raised, snapshot taken; `PublishState` delivers it later under
`pushMu`. Verbs that are the daemon's own run at any time; the others only after a check
that found no client (`FindNoClient`, then the verb: the gap is in the model).
`UpdateState` is the merge of a push (`Reconciled`, `Retained`, `Behind`), `ReplyMerged`
the second half of the handler, which reads the state again. Attach is three steps
(`HandleAttach`, `AttachState`, `AttachReply`) because broadcasts land between them.
The client's edits are `FocusWindow`, `SwitchToWorkspace`, `MoveWindowToWorkspace`,
`MinimizeWindow`, `RestoreWindow`, and `ApplyStateSync` takes a sync and pushes back what
it placed or absorbed. `Told` folds lifecycle events into a listener's `picture`.

A state sync passes through a goroutine on each side, so a client's inbox is a set taken
in any order; two equal syncs under way count as one, which loses nothing because applying a
sync depends only on its content. Pushes of one connection are a sequence.
`Verbs` and `Edits` name the operations a run allows. Geometry, z-order, slice order
(repairs that take the first window take any), options, and a client's failure to build a
window from a sync are left out.

### DaemonLife

Every daemon process is a stage between spawn and exit, one system call per step:
`AcquireStartLock`, `ProbeSocket`, `RemoveStale`, `Bind`, `Listen`, `WritePidFile`,
`RestoreAllSessions`, then `Edit` and `SaveSession`, then `Cancel`, `CloseListener`,
`Drain`, `StopSessions`, `RemovePidFile`, `RemoveSocket`, `ReleaseStartLock`; `Crash` at
any point, with the kernel dropping the flock. `ClientSees` and `ClientGivesUp` are the
loop of `startDaemonBackground`; `StatSocket` to `TimedOut` are `kill-server`, whose
SIGTERM kills a daemon that does not handle signals yet. Sessions are sets of edits;
`SaveSession` replaces the file of one session by what this daemon has of it, so a daemon
that had read less, or wrote late, would take edits off the disk.

Assumed: handlers end inside the five seconds of shutdown; a bind takes less than the
second `startDaemonBackground` leaves for it; pids are not reused; the final save of a
stop does not fail (Resurrection has failing saves). The in-process daemon of
the SSH and web servers is the same code without the client.

### Resurrection and SavedStates

The registry of one daemon and its saved states, over daemon starts. A slot is a session
from `Register` to `Ended`. Two writers, `saver` and `final`, each save by `ReadState`,
`OpenTmp` (O_TRUNC), `WriteTmp`, `RenameTmp`, or `SaveFails`, through one
`<name>.json.tmp`; what they do to each other's open file is in `WriteTmp`. `Tick` swaps the
dirty mark; `StopSaver` is the wait of `StartPeriodicSave`'s stop function; `Kill`,
`Shutdown`/`NextInQueue`, `Ended` are `DeleteSession` and `Manager.Shutdown`. `Start`,
`Discard`, `Restore`, `FillSession`, `Serve` are the restore, `Resurrect` the one on demand,
`RestoreRefused` logs a file that cannot be brought back, leaves it and goes on to the next.
`Damage` is somebody else's file: one found damaged (`Bad`), or one that may not be read or
bears a name no session can have (`Unusable`). A `Contents` is a session line, the stamp of
its last change and whether it has windows.

Abstracted: a name is drawn and created in one step; loading and creating in
`resurrect` are one step; a name is not reused while its kill is under way unless `Reuse`;
no interval tick falls inside a restore (30 seconds); shutdown finds no kill or restore
under way (they are handlers it waits for); a classroom session's file is one with nothing
to bring back, one of a newer version is damaged; a change made through a handler that still
holds a session already taken off the registry is left out.

SavedStates is the promise of "write to temp file then rename for atomicity"
(`resurrection.go:218`). It knows no tmp file, writers or daemon: a session begins, changes, has
its state taken, put in place or given up, and ends; a crash leaves what is saved as it is. `Store`
maps to it: a slot's name and content while it is in use, what its one writer at work has taken
(`Taken`), and the disk.

### EventHub

The daemon's events and the two verbs over them. `Publish` is one call of `publish`: it takes
a sequence number and offers the event to each matching subscription under the hub's lock,
into a queue of `QueueCap`; a full one has its drop counted in `CountDrop`, a step of its own
because the counter is atomic and outside the queue. Publishers are the pane's reader, the
goroutine waiting for its shell, the verb that closes a window and the one that creates a
session (`ReadOutput`, `MonitorExit`, `CloseWindow`, `CreateSession`). One JSON connection
opens subscriptions in turn: `VerbSubscribe` replaces the previous one, `StartPendingStream`
starts the streamer when the ack is on the wire, `VerbUnsubscribe` and `ConnEnds` stop it; a
streamer is `Take`, `WriteEvent` or `WriteFails`, `StreamStops`, `LeaveHub`, and between any
two the verb loop may run. A wait-for is `WaitSubscribe`, `WaitLook`, `WaitWake`, the
`Backstop` ticker of window-output, `Deadline` and `WaitReleases`.

Abstracted: a filter is an event type; an output event says whether the text waited for is on
the screen; every streamer and waiter has a connection that is read.

### CommandRouting and AnswerOnce

A control request comes over the binary protocol, whose handler sends it to a TUI, enters it
in `pendingRequests` and returns (`Forward`, `Track`), or over the verb protocol, whose
handler enters its result channel first and then sends and waits (`Route`, `Forward`,
`Heard`, `RouteTimesOut`). Requests the daemon owns are `RunHere`. The TUI is one event loop:
`Run` for a command or an option, `Begin`, `Step`, `Finish` for keys and scripts, which others
may come between, `TypeLiteral`, `Fail`; what it sends back, state pushes and results, keeps
its order (`TakeState`, `TakeResult`). `TUIDies` and `DropTUI` are its end, `GiveUp` the
requester's, `Forget` the purge of the table.

`state` is what the daemon can be asked for, `local` what only the TUI's model has. AnswerOnce
is the promise to whoever asks: carried out at most once, answered at most once, no success
for what was not done. `Answered` maps `asked`, `done` and `answer` to the requests made, the
history `carried`, and what requesters were told.

### AgentState

One window. The state and the claim behind it (source, harness, a blocker's prior claim on
loan) are `win`; the threads that set it are a caller (`Report`), the pane's reader with the
progress its emulator has parked, its probe and its look at the screen, the look after the
pane has gone quiet (`SettleLooks`), the detector (`Detect`), the stall monitor (`StallTick`,
`Demote`) and the timer of a held quieter state (`TimerStep`). A change is one locked step
and rests on what was read before it: `ScanStep` finds and applies what it found in two, the
reader takes a progress report in up to four.

Time is three facts about the last stamp, `wrote`, `stood` and `silent`, and `HoldDue`.
Assumed: a look at the screen is shorter than the settle delay and the blocker's grace; the
settle delay and the stall window are longer than the emulator's lag; one settle look runs at
a time. The states done and errored are folded into idle and needs_input, which they
rank with. Removed windows, hooks and the rules of a harness are left out.

### SizeNegotiation

The clients of one session. Each connection's handler is a sequence of steps with other
handlers between them, one per lock scope of the code: an attach records the size, counts the
clients, works out the smallest, sets the session and, if there are others, recalculates
(`Attach`, `AttachCounts`, `AttachFits`, `AttachResizes`); `HandleResize` and `NotifyLeft`
lead to the same recalculation (`Recalculate`, `Compare`, `SetSize`, `Tell`). What is told is
in no order (a goroutine each in the daemon and in the client), before the attach reply it is
skipped (`SkipBroadcast`), and the first size event of a restored client puts its own size in
(`FirstSize`); a client of a session without windows restores nothing (`NothingToRestore`)
and draws at its terminal's size until it is told another. `Shown` is the width a client
draws at.

Width and height are treated alike by the code and one stands for both; a client attaches
once; the size in the reply's saved state is overwritten at the first size event and left
out; the scan for the smallest is one step (a size that changes during it is recalculated by
whoever changes it). `crossed` and `muddled` are history: they say whether handlers,
or changes, have overlapped.

## 4. Runs

All counters are bounded in the guards (`Max...` constants). `CHECK_DEADLOCK FALSE`
everywhere: a bounded behaviour ends when its bounds are used up, and a daemon that has
exited stays so.

| Run | Bounds, and why they are enough | Shows |
|---|---|---|
| PtyStreamShown | 1 client that may vanish, 2 subscriptions, ring of 2 bytes, channel of 3, emulator queue of 1, 3 bytes in chunks of up to 2, a resize: marks rolled past, catch-ups cut at them, full queues | SeamExact, LaidAsRead, ViewExact; PaneCatchesUp, LostClientsUnsubscribed under fairness |
| SessionSyncHeadless | 2 windows, 2 workspaces, all headless verbs, one client that attaches, edits twice and leaves: a push left behind meets headless verbs | PictureFollows, FocusIsOpen, WindowsAreTheDaemons, OwnedMovesWithVersion |
| SessionSyncPeers | 2 tiling clients, windows opened and closed, an edit | PeersSettle; TrafficEnds under fairness |
| DaemonLifeKilled | 3 daemons, a kill-server, a session (each has a file of its own), an edit, a death: one dying, one refused, one taking over | OneServer, ServesEverything, SavedMeansSaved, ListensWhereClientsLook, SavedStays; StartersAnswered under fairness |
| ResurrectionBoth | 2 names, 2 sessions, 3 stamps, 2 starts with or without restore, a fault | QuietMeansSaved, StoppedIsSaved, KilledStaysKilled, the refinement SavesAreAtomic (which includes SavedIsWhole) |
| ResurrectionAuto | 1 session, 4 stamps, 3 starts with restore, 2 faults | RestoreKeeps; EventuallySaved, ComesUpAndGoesDown under fairness |
| CommandRouting | 2 requests of every kind over either protocol, 1 TUI that may quit: two key sequences share the flags of one TUI | ReadBackSees, AnimationsComeBack, the refinement Answered; RequestsEnd under fairness |
| EventHubStreams | 2 subscriptions on one connection, queues of 2, 4 events: one written, two waiting, one dropped; a second subscribe at every step of the first | StreamWhole, LinesInTurn; StreamsSettle under fairness |
| EventHubWaits | a wait of each kind, all event types, a queue of 1, 5 events | MatchedIsTrue; WaitsMatch under fairness |
| AgentState | 2 chunks, a report, an agent, progress that says idle: a prompt painted and taken away under a fresh claim | NoIdleOverPrompt; LoanReturned, BlockerSeen, HoldsSettle, AgentLeaves under fairness |
| SizeNegotiation | 2 clients, 3 sizes, a placeholder, a resize | SmallestAfterAll, NoOneClamped |

Conjunctions: LaidAsRead is the emulator following the stream and every replay being cut at
resizes; PeersSettle that the clients' window sets converge and every placement is answered;
StartersAnswered includes that no client is told of a failure nobody caused; RestoreKeeps that
saved states are otherwise left alone and that changes are not undone; RequestsEnd
that a waiting verb has not missed its result; StreamWhole that every event is accounted for
and in order.

FocusIsOpen is checked with headless verbs and client switches and focus; with clients
that move windows it fails (`SessionSyncDangling.cfg`, below). PeersSettle is about
tiling clients: the push with which tiling absorbs a changed window set is what repairs
an old sync applied late. NoOneClamped is about changes made one at a time, and
SmallestAfterAll about the last handler having run alone: with two at once the older minimum
can be set last, and is repaired by the next.

The type invariants (`TypeOK`) are stated for each module and proved where section 6 says so; no
run spends its time on them.

Each property has a mutant in `PROJECT.json`: a definition changed the way a bug would
change it (a dropped check against the catch-up, a shift forgotten, a push one version behind
taken for current, a lock taken shared, a result sent ahead of the state, ...), for which the
same run fails. The mutated definitions stand above the originals in the modules.

### Fairness

- *PtyStream:* weak fairness of the pane's reader inside its critical sections, vtWriter,
  handlers inside a request, streamers: goroutines that are runnable run. Nothing is
  assumed of guests and clients.
- *SessionSync:* weak fairness of delivering what is under way, none of typing.
- *DaemonLife:* weak fairness of the steps of a process that has begun to start, stop or
  wait; none of spawning, killing, dying or unforced saving.
- *Resurrection:* weak fairness of saver steps, tickers, restore and shutdown; strong
  fairness of `StopSaver`, because Go's `select` chooses at random between the stop
  channel and a tick that is ready too, so a saver cannot take the tick for ever.

- *EventHub:* weak fairness of acks and drop counts; strong fairness of publishers, streamers
  and waiters, which contend for the hub's lock; none of output, subscribing or deadlines.
- *CommandRouting:* weak fairness of handlers, the TUI's loop and the daemon's reader; of
  timeouts only where nobody else is going to answer.
- *AgentState:* weak fairness of threads and timers, strong fairness of the looks and ticks
  that reports may disable; time passes when nobody stamps the state. None of agents,
  callers or output.
- *SizeNegotiation:* none; its properties are safety.

## 5. Disagreements

One run is kept as a violation and quoted in `PROJECT.json`: `ResurrectionFresh`, SavedLeftAlone
with `--no-restore`. The new session is named session-0 whether or not a saved session-0
exists, and replaces it.

Further configurations are kept beside them, each for `tlc -config <name>.cfg <module>`;
each checks one claim of a comment or doc, stated at the end of its module, and fails:

| Configuration | Claim | What happens |
|---|---|---|
| PtyStreamKilledByOld | daemon_stream.go:14-17, a re-subscribe is not disturbed by an earlier one's exit | the old streamer's deferred `Unsubscribe` removes the new subscription; the pane stays dark |
| PtyStreamGap | session.go:2538-2539, a dropped client resumes from the gap | the next chunk taken moves its position past the gap |
| PtyStreamResizeStamp | session.go:1501-1502, a resize does not move the position | it is broadcast at 0 and stored as reached |
| PtyStreamStaleSize | session.go:1618-1622, the size is stated on every subscribe | the size in the emulator's queue is neither stated nor broadcast |
| PtyStreamSizes | session.go:1688, Resize changes PTY and emulator | two resizes cross and leave them at different sizes |
| SessionSyncReconcile | daemon_handlers.go:584-587, the answer makes the client converge | an old answer undoes a newer accepted edit on screen |
| SessionSyncCrossed | daemon_handlers.go:597-598, all clients converge | merged states of one version overtake each other |
| SessionSyncBackwards | session.go:445-449, never backwards | order is lost after the sink |
| SessionSyncAttach | tuiclient.go:1393-1394, nothing skipped is lost | a mutation between reading and writing the reply is |
| SessionSyncDangling | state_events.go:143-144, focus events name windows | a remembered focus outlives a window moved by a client |
| DaemonLifeTwoKills | daemon_diagnose.go:131-133, the unlink makes kill-server's report a guarantee | a second kill-server takes the socket of a daemon that has closed its listener for stale and removes it; the first reports everything saved too early |
| DaemonLifeLock | cli-reference.adoc:390-396, a daemon can start once kill-server returned | the start lock is released after the socket is removed |
| DaemonLifeCleared | daemon_startlock.go:29-33, no live socket is unlinked by a prober | kill-server unlinks without the lock |
| ResurrectionDemand | a restore puts nothing older over a change | a window opened during `tuios resurrect` is overwritten when the session is filled |
| ResurrectionReuse, ResurrectionTorn | (`Reuse = TRUE`) a saved state is current and whole | a name taken again while its kill is under way shares file and tmp file with the old session, whose removal comes last |
| SizeNegotiationAttach | session_commands.go:125, renders at the smallest client's size | a client larger than the session overwrites the size it was given at its first size event, the session does not change and nobody is told; and peers of a smaller one are not told either, since the attach sets the size before `notifyClientJoined` compares it (daemon_handlers.go:115-119, against the comment at line 117) |

Claims stated at the end of a module and found false by adding them to its configuration:

| Module, definition | Claim | What happens |
|---|---|---|
| CommandRouting, RequestersHear | daemon_command.go:112, tracked so that the result can be routed back | the request is sent first: a result that is there before the entry reaches nobody |
| CommandRouting, ScriptReadBackSees | update.go:1738-1745, state is pushed before the result | some script commands change the model and push nothing |
| CommandRouting, LiteralReported | update.go:1708, the result is sent after all keys | literal text has no result |
| CommandRouting, SuppressedWhileWorking | os_tape_executor.go:1153, animations are off during remote keys | the first request to finish turns them on for the rest |
| EventHub, DropsTold | protocol.adoc:765, the connection learns it fell behind | a gap is told ahead of a later event, if one comes |
| EventHub, QuietAfterUnsubscribe | protocol.adoc:777, unsubscribe closes the stream | an event already taken is still written |
| AgentState, ClearedStaysCleared | agent_hold.go:166, no hold is left behind to be published | a hold outlives the detector's clearing and marks a pane without an agent |
| AgentState, ProgressHeard | daemon.go:278, progress is read back with the bytes that carried it | the emulator gets the chunk after the event: the last progress waits for more output |
| AgentState, ReversalCancels | agent_hold.go:46, a reversal finds the hold and cancels it | one that reads the state before the hold is published and looks for it after finds neither |

By reading only: `EnsureFocusedVisible` (`internal/layout/scrolling.go`) says it scrolls only
when a column is completely off-screen and scrolls whenever one is not fully visible;
`GetNextSplitDirection` (`bsp.go:1024`) says it mirrors `determineAutoSplit` and ignores
schemes and aspect.

## 6. Proofs

Every theorem holds for all values of the constants that meet the module's assumption,
so for any number of clients, windows, names, daemons and any bounds. The invariants the runs check
are not inductive; each proof module defines the strengthening.

- **PtyStreamProofs.** `TypesHold`, `LaidAsReadHolds`, `SeamExactHolds`, and `ViewExactHolds`
  for `~Hasty`. They argue about *runs*: sequences of items whose chunks come in the stream's
  order (`Ordered`), continue each other (`Joined`) and lie at the size they were read at
  (`Fits`), from one position and size to another (`EndPos`, `EndWidth`). A run can be joined by
  an item, lose its first item, or be cut, and lemmas say what each does.
  `StreamInv` is `TypeOK` with: the ring's bytes are the stream's last (`RingOK`); resize marks
  lie in stream order (`MarksOK`); every byte the ring may still hold was read at the size of the
  newest mark in front of it (`MarksTell`, which survives pruning because the newest mark the ring
  has rolled past is kept); and what the stream has sent and the emulator has not had
  is a run from the emulator's position and size to the stream's (`PipeOK`). From the marks it
  follows that a catch-up is a run, whatever position it resumes at; `CatchUp` lays
  segments end to end with `FlattenSeq`, which the proof unfolds one segment at a time,
  its induction stated on sets of numbers as a least counterexample. `SeamInv` adds that the item
  in the stage is the last one appended and that no subscriber is recorded past the end of the
  stream: the first makes the chunk due to a subscriber start where its
  catch-up ended, the second makes `sent` decide whether it is due. `ViewInv` follows one
  client: it has one streamer at work at a time, and none while it asks to subscribe (`AtWork`);
  what it is about to be handed comes behind what it was handed (`HandedBelow`); and for a pane
  on screen that was restored at a position, its channel runs from what the screen shows to
  what was handed, with holes only if something was dropped at its channel or by the client (`ViewRun`).
  `~Hasty` is needed: shown again sooner, a pane is fed by the streamer of its last
  showing, and TLC finds bytes painted twice with one client and one chunk.
- **SessionSyncProofs.** `TypesHold`, `WindowsHold`, `PictureHolds`, `OwnedHolds`, `FocusHolds`,
  `PeersSettleHolds`.
  `IInv` adds `UnderWay`: every snapshot under way, in any inbox, push or view, is of a
  version the state has had, and one of the state's own version has its windows under
  their names (`HistoryOf`); pushes carry no label and no agent state (`Bare`). This is
  why a push of the current version may be taken as it is and an older one must be
  reconciled. `ToldFollows` is the
  event argument: events of a difference, folded in, give the new state. `FocusHolds` is for
  clients that do not move windows (`"move" \notin Edits`): `AllHomed` says that every snapshot
  under way has its focus, and what its workspaces remember, among its own windows; a client's
  move leaves the old workspace remembering the window, which is SessionSyncDangling.
  `PeersSettleHolds` is for clients that tile and neither come nor go: `Settling` says that a
  writer without the daemon's windows has something under way that will bring it a sync with
  them - the latest mutation, the sync, a push that is behind, or the second half of its
  answer - and that a window still to be placed is on its way to be placed or back. At an attach
  a skipped sync breaks the chain (SessionSyncAttach).
- **DaemonLifeProofs.** `TypesHold`, `OneServerHolds`, `EverythingServed`,
  `SavedStaysHolds`, and `ListensHolds`, until a kill-server removes a socket. `IInv`: the start lock is
  held by exactly the daemon between locking and releasing (`LockIsTheHolders`), a daemon
  has no edits before its restore and all of them on disk after its final saves
  (`EditsBetween`), every edit is on disk or lost while nobody serves (`EditsAreKept`), and
  a daemon that may write has read all that is on disk (`HoldsTheDisk`), which is why the
  files it replaces lose nothing (`SavedStaysHolds`). `SavedMeansSavedHolds`: what a kill-server
  reports as stopped and saved is on disk, as long as none has removed a socket it took
  for a dead one (`NoneCleared`); `OnlyKillSaves` needs no such condition when there is one
  kill-server. `KillsWellAimed` is the invariant behind both: the pid file names a daemon
  between its writing and its removal of it, a daemon that was signalled is on its way out,
  and when its kill-server has seen it gone it has saved. DaemonLifeTwoKills shows why the
  condition is there.
  `NoNeedlessFailureHolds` is the safety half of StartersAnswered, under the same
  condition: what a daemon's probe found at the path is still so when it acts on it
  (`PathAsProbed`, because every other step that touches the path needs the start lock), and
  while nothing has stopped or died only daemons that found the lock held are turned away, so
  whoever holds it goes on to listen (`StartersServed`).
- **ResurrectionProofs.** `TypesHold`, `SavedIsWholeHolds`, `QuietMeansSavedHolds`,
  `StoppedIsSavedHolds`, `KilledStaysKilledHolds`, `SavesAreAtomicHolds`, each for `~Reuse`. `IInv`: a name has
  at most one session (`NamesApart`), which has at most one writer at work
  (`WritersInTurn`), so the tmp file is what that writer has put there (`TmpFollows`),
  what it read is the session's state unless the session is dirty again (`BufFollows`), and
  a quiet or stopped session's state is on disk (`OnDisk`). The refinement of SavedStates takes each
  step to a step of it: a register to `Begin`, the reading of the state to `Take`, the rename to
  `Put` because of `TmpFollows`, opening and writing to nothing; what a session is filled with
  is of its own line (`FillsItsOwn`). `RestoreKeepsHolds` is for daemons
  that restore at every start and `~Reuse`: `Brought` says that a session, a writer and the saved
  state of a name agree on its lines (`LinesFollow`), that a session being filled has had no
  change yet (`FilledFirst`), and that a saved state of a running daemon is in a session or
  awaits one (`AllBrought`). ResurrectionFresh and ResurrectionDemand show what happens without
  a restore at the start, or with one on demand; ResurrectionReuse is why `~Reuse` is there.
- **CommandRoutingProofs.** `TypesHold`, `ReadBackSeesHolds`, `AnimationsComeBackHold`,
  `WaitersHearHolds`, and `AnsweredHolds`, the refinement of AnswerOnce. `IInv`: a
  request's handler and the TUI's work on it only go forward (`Stages`), so at most one
  result for it is ever under way (`Results`); the table names whom that result is for
  until it is taken (`Entries`); a success under way, in a channel or told is of something
  carried out (`Truths`, `Sent`); and the state a command made is in the daemon or ahead of
  its success in the same queue (`StateFirst`), which is what lets a requester read back.

- **EventHubProofs.** `TypesHold`, `StreamWholeHolds`, `MatchedIsTrueHolds`,
  `LinesInTurnHolds`. `IInv`: what was offered to a subscription adds up at every step, also
  while a full queue's drop is found and not yet counted (`Tally`, `Whole`); what waits is
  younger than what is in hand, which is younger than what was written (`Order`); one
  streamer writes, and none while an ack is owed (`ConnOK`); an exit is known before its
  event is raised (`WaitOK`).
- **AgentStateProofs.** `TypesHold`, `LoanIsWholeHolds`, and `NoIdleOverPromptHolds` where
  no caller names `stall` as its source (one that does may set any state). `IInv` has
  `Looked`: while the pane is stalled the emulator has nothing queued, so what the stall
  monitor saw of the prompt and the harness is still so when it writes.

- **SizeNegotiationProofs.** `TypesHold`, `SmallestAfterAllHolds`, `NoOneClampedHolds`, without
  further conditions. `Alone`: while no handler has begun beside another, the one at work
  holds the smallest size from its scan on, and the session has that size where the handler
  has nothing left to do; one that begins with all others idle regains this from whatever
  crossing handlers left behind. `InTurn`: while changes come one at a time, the one busy
  client goes through its stages (`Stage`), every message under way carries the smallest
  terminal's size, and a client draws at its terminal's, has heard of that size, has room for
  the session's while nobody is coming in, or has a message or a handler about to send one
  (`Hears`).

Every safety property of a passing run is stated by a theorem, some under the
conditions named above. What stays with TLC is what the provers cannot
reach: liveness under fairness (PaneCatchesUp, LostClientsUnsubscribed, TrafficEnds,
the answer that StartersAnswered promises, EventuallySaved, ComesUpAndGoesDown, RequestsEnd, StreamsSettle, WaitsMatch,
LoanReturned, BlockerSeen, HoldsSettle, AgentLeaves) and anything with ENABLED.

## 7. Not modelled

- *Session switching* (`SwitchToSession`): detach and attach over one connection, blocking the
  TUI's event loop. A sync of the old session that is already in a goroutine is
  applied to the new one: nothing in the message names its session.
- *The five seconds of shutdown* (`daemon.go:475`): handlers are assumed to end within it.
- *Exit when empty* (`daemon_handlers.go:303`): the count is looked at, the reply sent, the daemon
  cancelled; a session created in between goes with it, saved by its final save.
- *A shell's exit* is told only to clients subscribed to its pane (`daemon_stream.go:94`).
- *A name taken again while its kill is under way* is in Resurrection, off in the passing runs
  (`Reuse`): see section 5.
- *Layouts* are pure geometry over trees and strips, computed by one goroutine.
- *Verbs* that neither route nor change windows (captures, lists, options read back) and the
  decoding of requests.
- Rendering, input, the terminal emulator, themes, sound, the scripting language, harness
  rules, hooks, tapes, codecs and configuration are data or presentation: no property above
  depends on them, and they are nine tenths of the code, which is why the mapped share is
  small. Logins through PAM, SSH and HTTP are libraries and other processes around the
  daemon modelled here.
