------------------------------ MODULE EventHub ------------------------------
(***************************************************************************)
(* The daemon's event hub and the two verbs on top of it: subscribe, which *)
(* turns a JSON connection into an event stream, and wait-for, which       *)
(* blocks until a condition holds (internal/session/daemon_events.go,      *)
(* verb_subscribe.go, verb_protocol.go).                                   *)
(*                                                                         *)
(* Events come from a pane's reader ("output"), from the thread waiting    *)
(* for its shell ("exit"), from a verb that closes its window ("closed")   *)
(* and from one that creates a session ("created").  The hub offers one to *)
(* each subscription in turn under its lock, into a bounded queue; a full  *)
(* queue has it dropped and counted, and the streamer tells the count as a *)
(* gap.                                                                    *)
(***************************************************************************)
EXTENDS Integers, Sequences, FiniteSets

CONSTANTS
  Streams,    \* subscriptions one connection opens, one after another
  Waits,      \* wait-for requests, each on a connection of its own
  Types,      \* types of event raised, each by a thread of its own
  None,
  QueueCap,   \* capacity of a subscription's queue
  MaxSeq      \* bound: events raised

Conds == {"session-exists", "window-exit", "window-output"}

ASSUME EventHubAssumption ==
  /\ None \notin Streams \cup Waits
  /\ Types \subseteq {"output", "exit", "closed", "created"}
  /\ Streams \cap Waits = {}
  /\ QueueCap \in Nat \ {0} /\ MaxSeq \in Nat

Subs == Streams \cup Waits

VARIABLES
  seq,        \* the hub's sequence number
  subs,       \* subscriptions in the hub
  uncounted,  \* subscriptions found full whose drop is not counted yet
  queue,      \* subscription -> sequence numbers waiting for it
  dropped,    \* subscription -> drops to tell of
  stopped,    \* subscriptions told to stop
  due,        \* history: subscription -> events offered to it, taken or not
  verb,       \* the connection's verb loop
  eventSub,   \* the connection's subscription
  pendingStream, \* the one whose streamer starts once its ack is written
  streaming,
  done,       \* the connection is closed
  turn,       \* whose ack was written last
  streamer,   \* stream -> its streamer
  hand,       \* stream -> the event its streamer has taken
  wrote,      \* stream -> events it wrote, drops it told of and the last event
  happened,   \* what is so: types of event and, with "output", on screen
  raised,     \* events on their way to the hub
  cond,       \* wait -> what for
  waiter      \* wait -> how far it is

vars == <<seq, subs, uncounted, queue, dropped, stopped, due, verb, eventSub,
          pendingStream, streaming, done, turn, streamer, hand, wrote, happened,
          raised, cond, waiter>>

Hub     == <<seq, subs, uncounted, due>>
Queues  == <<queue, dropped>>
Conn    == <<verb, eventSub, pendingStream, streaming, done, turn>>
Output  == <<streamer, hand, wrote>>
Pane    == <<happened, raised>>
Waiting == <<cond, waiter>>

Unlocked == uncounted = {}

Flag(b) == IF b THEN 1 ELSE 0

Init ==
  /\ seq = 0 /\ subs = {} /\ uncounted = {} /\ stopped = {}
  /\ queue = [s \in Subs |-> <<>>]
  /\ dropped = [s \in Subs |-> 0] /\ due = [s \in Subs |-> 0]
  /\ verb = "ready" /\ eventSub = None /\ pendingStream = None
  /\ streaming = FALSE /\ done = FALSE /\ turn = None
  /\ streamer = [s \in Streams |-> "none"] /\ hand = [s \in Streams |-> 0]
  /\ wrote = [s \in Streams |-> [events |-> 0, told |-> 0, last |-> 0]]
  /\ happened = {} /\ raised = {}
  /\ cond \in [Waits -> Conds] /\ waiter = [w \in Waits |-> "idle"]

-----------------------------------------------------------------------------
(* What there is to tell of.                                               *)

MayRaise(type) == type \in Types \ raised /\ seq + Cardinality(raised) < MaxSeq

Raise(type, now) ==
  /\ raised' = raised \cup {type} /\ happened' = now
  /\ UNCHANGED <<Hub, Queues, stopped, Conn, Output, Waiting>>

(* A chunk is queued for the emulator before its event is raised: it may   *)
(* hold the text waited for, which stays once on screen.  A pane may have  *)
(* output to read after its shell has exited.                              *)
ReadOutput ==
  /\ MayRaise("output")
  /\ \E now \in {happened, happened \cup {"output"}} : Raise("output", now)

VtWriter ==
  /\ "output" \in happened /\ "screen" \notin happened
  /\ happened' = happened \cup {"screen"}
  /\ UNCHANGED <<Hub, Queues, stopped, Conn, Output, raised, Waiting>>

(* The shell has exited, by itself or killed with its window.              *)
MonitorExit ==
  /\ MayRaise("exit") /\ "exit" \notin happened
  /\ Raise("exit", happened \cup {"exit"})

(* The window leaves the state, which raises the event; its PTY is closed  *)
(* after that.                                                             *)
CloseWindow ==
  /\ MayRaise("closed") /\ "closed" \notin happened
  /\ Raise("closed", happened \cup {"closed"})

(* A session is in the registry before its hook raises the event.          *)
CreateSession ==
  /\ MayRaise("created") /\ "created" \notin happened
  /\ Raise("created", happened \cup {"created"})

-----------------------------------------------------------------------------
(* The hub.                                                                *)

Wanted(c) == CASE c = "window-exit"    -> {"exit", "closed"}
               [] c = "window-output"  -> {"output"}
               [] c = "session-exists" -> {"created"}

(* filter.match: a stream asks for everything.                             *)
Matches(type) == {s \in subs : s \in Waits => type \in Wanted(cond[s])}
Full(s)       == Len(queue[s]) = QueueCap

PublishTo(type, q) ==
  /\ Unlocked /\ type \in raised
  /\ raised' = raised \ {type}
  /\ seq' = seq + 1
  /\ due' = [s \in Subs |-> due[s] + Flag(s \in Matches(type))]
  /\ queue' = [s \in Subs |-> IF s \in Matches(type) THEN q[s] ELSE queue[s]]
  /\ UNCHANGED <<subs, dropped, stopped, Conn, Output, happened, Waiting>>

\* Mutant: a full queue gives up its oldest.
PublishEvicting(type) ==
  /\ PublishTo(type, [s \in Subs |-> Append(IF Full(s) THEN Tail(queue[s]) ELSE queue[s], seq + 1)])
  /\ UNCHANGED uncounted

(* Stamped and offered to each, under the lock, which it keeps until it    *)
(* has counted the drops.  Delivery never blocks.                          *)
Publish(type) ==
  /\ PublishTo(type, [s \in Subs |-> IF Full(s) THEN queue[s] ELSE Append(queue[s], seq + 1)])
  /\ uncounted' = {s \in Matches(type) : Full(s)}

CountDrop(s) ==
  /\ s \in uncounted /\ uncounted' = uncounted \ {s}
  /\ dropped' = [dropped EXCEPT ![s] = @ + 1]
  /\ UNCHANGED <<seq, subs, due, queue, stopped, Conn, Output, Pane, Waiting>>

Subscribe(s) ==
  /\ Unlocked /\ subs' = subs \cup {s}
  /\ UNCHANGED <<seq, uncounted, due>>

Unsubscribe(s) ==
  /\ Unlocked /\ subs' = subs \ {s} /\ stopped' = stopped \cup {s}
  /\ UNCHANGED <<seq, uncounted, due>>

-----------------------------------------------------------------------------
(* The connection's verb loop, a verb at a time.                           *)

Fresh(s) == streamer[s] = "none" /\ s \notin subs \cup stopped

(* Refused while streaming.                                                *)
VerbSubscribe(s) ==
  /\ verb = "ready" /\ ~done /\ ~streaming /\ Fresh(s)
  /\ Subscribe(s)
  /\ verb' = "acking"
  /\ eventSub' = s /\ pendingStream' = s /\ streaming' = TRUE
  /\ UNCHANGED <<Queues, stopped, done, turn, Output, Pane, Waiting>>

(* The ack is written before its streamer starts.                          *)
StartPendingStream ==
  /\ verb = "acking" /\ verb' = "ready"
  /\ turn' = pendingStream /\ pendingStream' = None
  /\ streamer' = [streamer EXCEPT ![pendingStream] = "running"]
  /\ UNCHANGED <<Hub, Queues, stopped, eventSub, streaming, done, hand, wrote, Pane, Waiting>>

AckFails ==
  /\ verb = "acking" /\ verb' = "failed"
  /\ UNCHANGED <<Hub, Queues, stopped, eventSub, pendingStream, streaming, done, turn, Output, Pane, Waiting>>

\* Mutant: unsubscribe lets the next subscribe in itself.
VerbUnsubscribeClearing ==
  /\ verb = "ready" /\ ~done /\ eventSub # None
  /\ stopped' = stopped \cup {eventSub}
  /\ eventSub' = None /\ streaming' = FALSE
  /\ UNCHANGED <<Hub, Queues, verb, pendingStream, done, turn, Output, Pane, Waiting>>

(* Its streamer does the rest.                                             *)
VerbUnsubscribe ==
  /\ verb = "ready" /\ ~done /\ eventSub # None
  /\ stopped' = stopped \cup {eventSub}
  /\ UNCHANGED <<Hub, Queues, Conn, Output, Pane, Waiting>>

\* Mutant: a subscription left to its streamer.
ConnEndsLeaving ==
  /\ verb \in {"ready", "failed"} /\ verb' = "gone"
  /\ done' = TRUE
  /\ eventSub' = None
  /\ UNCHANGED <<Hub, stopped, Queues, pendingStream, streaming, turn, Output, Pane, Waiting>>

(* The peer has left, a write failed, or a streamer dropped the connection. *)
ConnEnds ==
  /\ verb \in {"ready", "failed"} /\ verb' = "gone"
  /\ done' = TRUE
  /\ eventSub' = None
  /\ IF eventSub = None THEN UNCHANGED <<Hub, stopped>> ELSE Unsubscribe(eventSub)
  /\ UNCHANGED <<Queues, pendingStream, streaming, turn, Output, Pane, Waiting>>

-----------------------------------------------------------------------------
(* The streamer of a subscription.                                         *)

StreamerAt(s, stage) == streamer' = [streamer EXCEPT ![s] = stage]

Take(s) ==
  /\ streamer[s] = "running" /\ queue[s] # <<>>
  /\ hand' = [hand EXCEPT ![s] = Head(queue[s])]
  /\ queue' = [queue EXCEPT ![s] = Tail(@)]
  /\ StreamerAt(s, "writing")
  /\ UNCHANGED <<Hub, dropped, stopped, Conn, wrote, Pane, Waiting>>

Writes(s) == wrote' = [wrote EXCEPT ![s] =
                         [events |-> @.events + 1, told |-> @.told + dropped[s], last |-> hand[s]]]

\* Mutant: the count is told and kept.
WriteEventKeeping(s) ==
  /\ streamer[s] = "writing" /\ StreamerAt(s, "running")
  /\ Writes(s)
  /\ hand' = [hand EXCEPT ![s] = 0]
  /\ UNCHANGED <<Hub, Queues, stopped, Conn, Pane, Waiting>>

(* What was dropped by now is told ahead of the event.                     *)
WriteEvent(s) ==
  /\ streamer[s] = "writing" /\ StreamerAt(s, "running")
  /\ dropped' = [dropped EXCEPT ![s] = 0]
  /\ Writes(s)
  /\ hand' = [hand EXCEPT ![s] = 0]
  /\ UNCHANGED <<Hub, queue, stopped, Conn, Pane, Waiting>>

(* The connection's stream is cleared, then the hub's.                     *)
Leaves(s) ==
  /\ StreamerAt(s, "leaving")
  /\ IF eventSub = s
     THEN eventSub' = None /\ streaming' = FALSE
     ELSE UNCHANGED <<eventSub, streaming>>
  /\ UNCHANGED <<Hub, Queues, stopped, verb, pendingStream, turn, hand, wrote, Pane, Waiting>>

(* A write that fails, or takes ten seconds, drops the connection.         *)
WriteFails(s) ==
  /\ streamer[s] = "writing" /\ Leaves(s)
  /\ done' = TRUE

StreamStops(s) ==
  /\ streamer[s] = "running" /\ (done \/ s \in stopped) /\ Leaves(s)
  /\ UNCHANGED done

LeaveHub(s) ==
  /\ streamer[s] = "leaving" /\ StreamerAt(s, "over")
  /\ Unsubscribe(s)
  /\ UNCHANGED <<Queues, Conn, hand, wrote, Pane, Waiting>>

-----------------------------------------------------------------------------
(* wait-for.                                                               *)

WaiterAt(w, stage) == waiter' = [waiter EXCEPT ![w] = stage]

Holds(w) == CASE cond[w] = "window-exit"    -> "exit" \in happened
              [] cond[w] = "window-output"  -> "screen" \in happened
              [] cond[w] = "session-exists" -> "created" \in happened

WaitSubscribe(w) ==
  /\ waiter[w] = "idle"
  /\ Subscribe(w) /\ WaiterAt(w, "subscribed")
  /\ UNCHANGED <<Queues, stopped, Conn, Output, Pane, cond>>

\* Mutant: nothing looked at before waiting.
WaitLookSkipped(w) ==
  /\ waiter[w] = "subscribed" /\ WaiterAt(w, "waiting")
  /\ UNCHANGED <<Hub, Queues, stopped, Conn, Output, Pane, cond>>

WaitLook(w) ==
  /\ waiter[w] = "subscribed"
  /\ WaiterAt(w, IF Holds(w) THEN "matched" ELSE "waiting")
  /\ UNCHANGED <<Hub, Queues, stopped, Conn, Output, Pane, cond>>

\* Mutant: any event taken at its word.
WaitWakeTrusting(w) ==
  /\ waiter[w] = "waiting" /\ queue[w] # <<>>
  /\ queue' = [queue EXCEPT ![w] = Tail(@)]
  /\ WaiterAt(w, "matched")
  /\ UNCHANGED <<Hub, dropped, stopped, Conn, Output, Pane, cond>>

(* An exit or close is taken at its word, the rest is looked at.           *)
WaitWake(w) ==
  /\ waiter[w] = "waiting" /\ queue[w] # <<>>
  /\ queue' = [queue EXCEPT ![w] = Tail(@)]
  /\ WaiterAt(w, IF cond[w] = "window-exit" \/ Holds(w) THEN "matched" ELSE "waiting")
  /\ UNCHANGED <<Hub, dropped, stopped, Conn, Output, Pane, cond>>

(* The ticker behind window-output.                                        *)
Backstop(w) ==
  /\ waiter[w] = "waiting" /\ cond[w] = "window-output" /\ Holds(w)
  /\ WaiterAt(w, "matched")
  /\ UNCHANGED <<Hub, Queues, stopped, Conn, Output, Pane, cond>>

Deadline(w) ==
  /\ waiter[w] = "waiting" /\ WaiterAt(w, "timedout")
  /\ UNCHANGED <<Hub, Queues, stopped, Conn, Output, Pane, cond>>

WaitReleases(w) ==
  /\ waiter[w] \in {"matched", "timedout"} /\ w \in subs
  /\ Unsubscribe(w)
  /\ UNCHANGED <<Queues, Conn, Output, Pane, Waiting>>

-----------------------------------------------------------------------------
Counts == \E s \in Subs : CountDrop(s)

StreamStep(s) == Take(s) \/ WriteEvent(s) \/ StreamStops(s) \/ LeaveHub(s)

Acks == StartPendingStream \/ AckFails

WaitStep(w) == WaitLook(w) \/ WaitWake(w) \/ Backstop(w) \/ WaitReleases(w)

Next ==
  \/ ReadOutput \/ VtWriter \/ MonitorExit \/ CloseWindow \/ CreateSession
  \/ \E type \in Types : Publish(type)
  \/ Counts
  \/ Acks \/ VerbUnsubscribe \/ ConnEnds
  \/ \E s \in Streams : VerbSubscribe(s) \/ StreamStep(s) \/ WriteFails(s)
  \/ \E w \in Waits : WaitSubscribe(w) \/ WaitStep(w) \/ Deadline(w)

(* Threads, the streamer and the waiters run, whoever else takes the hub's *)
(* lock; a connection that was closed is noticed.  Nothing has to be       *)
(* output, asked for, or to time out.                                      *)
Fairness ==
  /\ WF_vars(Counts) /\ WF_vars(Acks)
  /\ SF_vars(\E type \in Types : Publish(type))
  /\ SF_vars(ConnEnds /\ (done \/ verb = "failed"))
  /\ \A s \in Streams : SF_vars(StreamStep(s))
  /\ \A w \in Waits : SF_vars(WaitStep(w))

Spec     == Init /\ [][Next]_vars
FairSpec == Spec /\ Fairness

-----------------------------------------------------------------------------
(* Every variable keeps its type.                                          *)
TypeOK ==
  /\ seq \in 0..MaxSeq /\ subs \subseteq Subs
  /\ uncounted \subseteq subs /\ stopped \subseteq Subs
  /\ queue \in [Subs -> Seq(1..MaxSeq)] /\ \A s \in Subs : Len(queue[s]) <= QueueCap
  /\ dropped \in [Subs -> 0..MaxSeq] /\ due \in [Subs -> 0..MaxSeq]
  /\ verb \in {"ready", "acking", "failed", "gone"}
  /\ {eventSub, pendingStream, turn} \subseteq Streams \cup {None}
  /\ streaming \in BOOLEAN /\ done \in BOOLEAN
  /\ streamer \in [Streams -> {"none", "running", "writing", "leaving", "over"}]
  /\ hand \in [Streams -> 0..MaxSeq]
  /\ wrote \in [Streams -> [events : 0..MaxSeq, told : 0..MaxSeq, last : 0..MaxSeq]]
  /\ happened \subseteq Types \cup {"screen"} /\ raised \subseteq Types
  /\ cond \in [Waits -> Conds]
  /\ waiter \in [Waits -> {"idle", "subscribed", "waiting", "matched", "timedout"}]

Writing(s) == streamer[s] \in {"running", "writing"}

(* Nothing a stream asked for is lost without a word: every event offered  *)
(* to it is written, waiting, in its streamer's hands, or counted among    *)
(* the drops it was or will be told of (publish, streamEvents).            *)
Accounted ==
  \A s \in Streams : Writing(s) =>
    due[s] = wrote[s].events + wrote[s].told + dropped[s] + Len(queue[s])
             + Flag(hand[s] # 0) + Flag(s \in uncounted)

(* The events of a stream are written in the order they were published,    *)
(* each once.                                                              *)
Ahead(s) == (IF hand[s] = 0 THEN <<>> ELSE <<hand[s]>>) \o queue[s]

InOrder ==
  \A s \in Streams :
    \A i, j \in DOMAIN Ahead(s) : /\ wrote[s].last < Ahead(s)[i]
                                  /\ i < j => Ahead(s)[i] < Ahead(s)[j]

(* What a stream asked for reaches it whole: in order, and with every gap  *)
(* accounted for.                                                          *)
StreamWhole == Accounted /\ InOrder

(* What is written for a stream comes after its ack and before the ack of  *)
(* the next one: a client that sends one verb at a time knows whose lines  *)
(* it reads (startPendingStream; streaming is the streamer's to clear).    *)
LinesInTurn == [][\A s \in Streams : wrote'[s] # wrote[s] => turn = s]_vars

(* A wait matches what has come true.  A window closed counts as exited:   *)
(* its shell is killed next.                                               *)
MatchedIsTrue ==
  \A w \in Waits : waiter[w] = "matched" =>
    Holds(w) \/ (cond[w] = "window-exit" /\ "closed" \in happened)

(* A stream comes to rest: what waits in its queue is written and the drops *)
(* behind it are told unless the stream ends, and when it is told to stop,  *)
(* or its connection is done, at whatever step it is, the hub lets go of it *)
(* (verb_subscribe.go:114-146, daemon.go:595).                             *)
StreamsSettle ==
  \A s \in Streams :
    /\ (queue[s] # <<>> /\ Writing(s)) ~> (queue[s] = <<>> \/ ~Writing(s))
    /\ (dropped[s] > 0 /\ queue[s] # <<>> /\ Writing(s)) ~> (dropped[s] = 0 \/ ~Writing(s))
    /\ (s \in subs /\ (done \/ s \in stopped)) ~> (s \notin subs)

(* A wait ends when what it waits for is so, without its deadline's help:  *)
(* also when it came true before it looked, while it looked, or ahead of   *)
(* the last event, and when events were dropped.  Its subscription goes    *)
(* with its answer.                                                        *)
WaitsMatch ==
  \A w \in Waits :
    /\ (waiter[w] = "waiting" /\ Holds(w)) ~> (waiter[w] \in {"matched", "timedout"})
    /\ (waiter[w] \in {"matched", "timedout"}) ~> (w \notin subs)

-----------------------------------------------------------------------------
(* What a reader of the documentation may take it to say, and the code     *)
(* does not do.                                                            *)

(* protocol.adoc:765, "so the connection learns it fell behind": a drop    *)
(* counted after its queue was drained is told with the next event, if one *)
(* comes.                                                                  *)
DropsTold == \A s \in Streams : (Writing(s) /\ dropped[s] > 0) ~> (dropped[s] = 0 \/ ~Writing(s))

(* protocol.adoc:777, unsubscribe closes the event stream: an event that   *)
(* was taken, or is picked before the stop, is still written.              *)
QuietAfterUnsubscribe == [][\A s \in Streams : s \in stopped => wrote'[s] = wrote[s]]_vars
=============================================================================
