----------------------------- MODULE PtyStream -----------------------------
(***************************************************************************)
(* One pane's output stream inside the tuios daemon                        *)
(* (internal/session/session.go, daemon_stream.go, daemon_handlers.go) and *)
(* the client emulators it feeds (internal/app/session.go).                *)
(*                                                                         *)
(* The guest's bytes are numbered 1, 2, ...; a chunk is the interval of    *)
(* byte numbers (lo, hi], never its text.  A size is a point in the stream *)
(* between two bytes.  readOutput and Resize put chunks and sizes into the *)
(* stream in three steps under streamMu; a subscriber takes its catch-up   *)
(* from the ring under subscribersMu and may do so between those steps.    *)
(***************************************************************************)
EXTENDS Integers, Sequences, FiniteSets, SequencesExt

CONSTANTS
  Clients,     \* connections of attached TUI clients
  Sizes,       \* pane sizes a client may announce
  InitSize,    \* the size the pane is created at
  RingCap,     \* len(outputBuffer)
  SubCap,      \* capacity of a subscriber's channel
  VtCap,       \* capacity of vtWriteChan
  MaxChunk,    \* bound: bytes in one read
  MaxSeq,      \* bound: bytes the guest ever writes
  MaxResizes,  \* bound: resizes announced by clients
  MaxGen,      \* bound: subscriptions made per client
  MayFail,     \* a state request may fail, the pane is then subscribed blind
  MayDrop,     \* a connection may be lost
  Hasty        \* a pane may be shown again while its last streamer still runs

ASSUME PtyStreamAssumption ==
  /\ InitSize \in Sizes
  /\ Sizes \subseteq Nat \ {0}
  /\ RingCap \in Nat /\ RingCap >= 2
  /\ {SubCap, VtCap, MaxChunk, MaxGen} \subseteq Nat \ {0}
  /\ {MaxSeq, MaxResizes} \subseteq Nat
  /\ {MayFail, MayDrop, Hasty} \subseteq BOOLEAN

Gens == 1..MaxGen

VARIABLES
  outputSeq,   \* stream position: bytes appended so far
  outputPos,   \* bytes held by the ring
  resizeMarks, \* sequence of [seq, w]
  stage,       \* the holder of streamMu: how far its item has got
  vtWriteChan, \* items queued for the emulator
  emu,         \* the daemon's emulator: [w, seq]
  life,        \* running, eof (the guest ended) or closed
  size,        \* [announced, tty, resizes]: PTY.width, the kernel's winsize, how many
  subscribers, \* client -> generation of its subscription, 0 for none
  sent,        \* client -> ptySubscriber.sent of that subscription
  chan,        \* client -> generation -> items in that subscription's channel
  streamer,    \* client -> generation -> state of its streamPTYOutput
  entry,       \* client -> is the pane in ptySubscriptions
  ptyResume,   \* client -> position recorded at its last unsubscribe
  handler,     \* client -> [at, arg]: where its connection goroutine is in a request
  pane,        \* client -> hidden or shown in that client, or the client is gone
  view,        \* client -> what its emulator holds
  laid,        \* history: byte -> the size in force when it entered the stream
  handed,      \* history: client -> position its channel has really been handed
  lost         \* history: client -> first byte dropped at its channel, 0 for none

ptyVars  == <<outputSeq, outputPos, resizeMarks, stage, vtWriteChan, emu, laid, life>>
subVars  == <<subscribers, sent, chan, streamer, handed, lost>>
connVars == <<entry, ptyResume, handler, pane, view>>
vars == <<ptyVars, size, subVars, connVars>>

----------------------------------------------------------------------------
(* Items of the stream.                                                    *)
Chunk(lo, hi)   == [kind |-> "data", lo |-> lo, hi |-> hi, clear |-> FALSE, w |-> 0]
Cleared(lo, hi) == [kind |-> "data", lo |-> lo, hi |-> hi, clear |-> TRUE, w |-> 0]
Resized(w)      == [kind |-> "size", lo |-> 0, hi |-> 0, clear |-> FALSE, w |-> w]

Item ==
  [kind : {"data"}, lo : Nat, hi : Nat, clear : BOOLEAN, w : {0}]
    \cup [kind : {"size"}, lo : {0}, hi : {0}, clear : {FALSE}, w : Sizes]

\* streamMu is not held; the item means nothing
Free == [at |-> "free", item |-> Resized(InitSize)]

(* The size the next byte will be laid out at: streamMu orders it.         *)
StreamSize == IF resizeMarks = <<>> THEN InitSize ELSE Last(resizeMarks).w

----------------------------------------------------------------------------
(* The ring.  bufStart is the position in front of its oldest byte.        *)
BufStart == outputSeq - outputPos

Half == RingCap \div 2

(* Half-shifts until n bytes fit, or the ring is empty.                    *)
Shifted(pos, n) ==
  CHOOSE p \in 0..pos :
    /\ p = 0 \/ (pos - p) % Half = 0
    /\ RingCap - p >= n
    /\ \A q \in 0..pos :
         /\ q = 0 \/ (pos - q) % Half = 0
         /\ RingCap - q >= n
         => q <= p

RingAfter(pos, n) == IF n >= RingCap THEN RingCap ELSE Shifted(pos, n) + n

\* Mutant: the newest rolled mark is pruned with the others.
PrunedAll(marks, bufStart) == SelectSeq(marks, LAMBDA m : m.seq > bufStart)

(* Marks the ring has rolled past go, except the newest of them.           *)
Pruned(marks, bufStart) ==
  LET rolled == {i \in DOMAIN marks : i > 1 /\ marks[i].seq <= bufStart}
  IN  IF rolled = {} THEN marks ELSE SubSeq(marks, Max(rolled), Len(marks))

(* The byte a replay for a resume position begins behind, and the newest   *)
(* mark at or before a position, 0 if there is none.                       *)
ReplayStart(fromSeq) ==
  IF fromSeq <= BufStart THEN BufStart
  ELSE IF fromSeq < outputSeq THEN fromSeq ELSE outputSeq

MarkAt(pos) ==
  LET before == {i \in DOMAIN resizeMarks : resizeMarks[i].seq <= pos}
  IN  IF before = {} THEN 0 ELSE Max(before)

(* What Subscribe puts on a new channel: nothing if the resume position is *)
(* the end of the ring, otherwise the held bytes from there on, cut at     *)
(* every resize mark behind it (marks lie in stream order), after the size *)
(* they begin at; the first piece clears the screen if the ring has rolled *)
(* past the resume position.                                               *)
CatchUp(fromSeq) ==
  LET rolled  == fromSeq > 0 /\ fromSeq < BufStart
      from    == ReplayStart(fromSeq)
      k       == MarkAt(from)
      cuts    == Len(resizeMarks) - k
      End(i)  == IF i = 0 THEN from
                 ELSE IF i <= cuts THEN resizeMarks[k + i].seq ELSE outputSeq
      Piece(i) == IF i = 1 /\ rolled THEN <<Cleared(End(0), End(1))>>
                  ELSE IF End(i - 1) = End(i) THEN <<>>
                  ELSE <<Chunk(End(i - 1), End(i))>>
      Size(i) == IF k + i = 0 THEN <<>> ELSE <<Resized(resizeMarks[k + i].w)>>
  IN  IF from = outputSeq THEN <<>>
      ELSE FlattenSeq([i \in 1..(cuts + 1) |-> Size(i - 1) \o Piece(i)])

(* What a client's emulator holds, as the properties see it: the last byte *)
(* applied, its size, the position of the snapshot it was restored to when *)
(* it was last shown (0 for none), whether its screen shows bytes twice or *)
(* misses some, and whether the client's own queue has dropped an item     *)
(* since then.                                                             *)
Snapshot(seq, w) ==
  [pos |-> seq, w |-> w, primed |-> seq, painted |-> TRUE,
   dup |-> FALSE, gap |-> FALSE, overrun |-> FALSE]

(* A send that finds the channel full is dropped.                          *)
Offer(q, items) ==
  IF Len(q) + Len(items) <= SubCap THEN q \o items
  ELSE q \o SubSeq(items, 1, SubCap - Len(q))

(* The number of the first byte a sequence of items carries, 0 for none.   *)
FirstByte(q) ==
  LET data == {i \in DOMAIN q : q[i].kind = "data"}
  IN  IF data = {} THEN 0 ELSE q[Min(data)].lo + 1

----------------------------------------------------------------------------
Init ==
  /\ outputSeq = 0 /\ outputPos = 0
  /\ resizeMarks = <<>>
  /\ stage = Free
  /\ vtWriteChan = <<>>
  /\ emu = [w |-> InitSize, seq |-> 0]
  /\ life = "running"
  /\ size = [announced |-> InitSize, tty |-> InitSize, resizes |-> 0]
  /\ subscribers = [c \in Clients |-> 0]
  /\ sent = [c \in Clients |-> 0]
  /\ chan = [c \in Clients |-> [g \in Gens |-> <<>>]]
  /\ streamer = [c \in Clients |-> [g \in Gens |-> "none"]]
  /\ entry = [c \in Clients |-> FALSE]
  /\ ptyResume = [c \in Clients |-> 0]
  /\ handler = [c \in Clients |-> [at |-> "idle", arg |-> 0]]
  /\ pane = [c \in Clients |-> "hidden"]
  /\ view = [c \in Clients |-> [Snapshot(0, InitSize) EXCEPT !.painted = FALSE]]
  /\ laid = <<>>
  /\ handed = [c \in Clients |-> 0]
  /\ lost = [c \in Clients |-> 0]

----------------------------------------------------------------------------
(* readOutput and Resize: one item through the stream, under streamMu.     *)

(* readOutput takes streamMu and appends a chunk of n bytes to the ring.   *)
AppendToBuffer(n) ==
  /\ life = "running" /\ stage.at = "free"
  /\ outputSeq + n <= MaxSeq
  /\ outputSeq' = outputSeq + n
  /\ outputPos' = RingAfter(outputPos, n)
  /\ resizeMarks' = Pruned(resizeMarks, outputSeq + n - RingCap)
  /\ laid' = laid \o [i \in 1..n |-> StreamSize]
  /\ stage' = [at |-> "appended", item |-> Chunk(outputSeq, outputSeq + n)]
  /\ UNCHANGED <<vtWriteChan, emu, life, size, subVars, connVars>>

(* Resize records the announced size at once, outside streamMu.            *)
AnnounceSize(c, w) ==
  /\ handler[c].at = "idle" /\ pane[c] # "gone"
  /\ size.resizes < MaxResizes
  /\ size' = [size EXCEPT !.announced = w, !.resizes = @ + 1]
  /\ handler' = [handler EXCEPT ![c] = [at |-> "announced", arg |-> w]]
  /\ UNCHANGED <<ptyVars, subVars, entry, ptyResume, pane, view>>

(* Resize takes streamMu and marks the ring, unless the stream has ended.  *)
MarkResize(c) ==
  /\ handler[c].at = "announced" /\ stage.at = "free"
  /\ IF life = "running"
     THEN /\ resizeMarks' = Append(resizeMarks, [seq |-> outputSeq, w |-> handler[c].arg])
          /\ stage' = [at |-> "appended", item |-> Resized(handler[c].arg)]
          /\ handler' = [handler EXCEPT ![c].at = "instream"]
     ELSE /\ handler' = [handler EXCEPT ![c].at = "queued"]
          /\ UNCHANGED <<resizeMarks, stage>>
  /\ UNCHANGED <<outputSeq, outputPos, vtWriteChan, emu, life, laid, size, subVars,
                 entry, ptyResume, pane, view>>

(* The position a broadcast item is stamped with: a resize passes 0.       *)
StampOf(item) == IF item.kind = "data" THEN item.hi ELSE 0

\* Mutants: no check against the catch-up; and off by one.
ReceiversAll(item) == {c \in Clients : subscribers[c] # 0}
ReceiversPast(item) ==
  {c \in Clients : subscribers[c] # 0 /\ (item.kind = "size" \/ sent[c] + 1 < StampOf(item))}

(* The subscribers broadcast sends to: all that have not had the item.     *)
Receivers(item) ==
  {c \in Clients : /\ subscribers[c] # 0
                   /\ item.kind = "size" \/ sent[c] < StampOf(item)}

(* broadcast hands the item to every subscriber whose channel has room.    *)
Broadcast ==
  LET item == stage.item
      to   == Receivers(item)
      took == {c \in to : Len(chan[c][subscribers[c]]) < SubCap}
      Put(c) == [chan[c] EXCEPT ![subscribers[c]] = Append(@, item)]
  IN
  /\ stage.at = "appended"
  /\ stage' = [stage EXCEPT !.at = "broadcast"]
  /\ chan' = [c \in Clients |-> IF c \in took THEN Put(c) ELSE chan[c]]
  /\ sent' = [c \in Clients |-> IF c \in took THEN StampOf(item) ELSE sent[c]]
  /\ handed' = [c \in Clients |-> IF c \in took /\ item.kind = "data" THEN item.hi
                                  ELSE handed[c]]
  /\ lost' = [c \in Clients |->
       IF lost[c] = 0 /\ c \in to \ took /\ item.kind = "data" THEN item.lo + 1 ELSE lost[c]]
  /\ UNCHANGED <<outputSeq, outputPos, resizeMarks, vtWriteChan, emu, life, laid, size,
                 subscribers, streamer, connVars>>

(* The send on vtWriteChan blocks while it is full, or gives up once the   *)
(* pane is closed; either way streamMu is released.                        *)
QueueForEmulator ==
  /\ stage.at = "broadcast"
  /\ \/ /\ Len(vtWriteChan) < VtCap
        /\ vtWriteChan' = Append(vtWriteChan, stage.item)
     \/ life = "closed" /\ UNCHANGED vtWriteChan
  /\ stage' = Free
  /\ handler' = [c \in Clients |-> IF handler[c].at = "instream"
                                   THEN [handler[c] EXCEPT !.at = "queued"] ELSE handler[c]]
  /\ UNCHANGED <<outputSeq, outputPos, resizeMarks, emu, life, laid, size, subVars,
                 entry, ptyResume, pane, view>>

(* Last, Resize gives the real PTY its size.                               *)
ResizeTty(c) ==
  /\ handler[c].at = "queued"
  /\ size' = [size EXCEPT !.tty = handler[c].arg]
  /\ handler' = [handler EXCEPT ![c] = [at |-> "idle", arg |-> 0]]
  /\ UNCHANGED <<ptyVars, subVars, entry, ptyResume, pane, view>>

(* vtWriter applies the next item to the daemon's emulator.                *)
VtWrite ==
  /\ vtWriteChan # <<>>
  /\ vtWriteChan' = Tail(vtWriteChan)
  /\ emu' = LET item == Head(vtWriteChan)
            IN IF item.kind = "size" THEN [emu EXCEPT !.w = item.w]
               ELSE [emu EXCEPT !.seq = item.hi]
  /\ UNCHANGED <<outputSeq, outputPos, resizeMarks, stage, life, laid, size, subVars, connVars>>

(* The guest ends: readOutput returns and marks the stream ended.          *)
GuestExit ==
  /\ life = "running" /\ stage.at = "free"
  /\ life' = "eof"
  /\ UNCHANGED <<outputSeq, outputPos, resizeMarks, stage, vtWriteChan, emu, laid, size,
                 subVars, connVars>>

(* Close ends every subscription.                                          *)
ClosePTY ==
  /\ life # "closed"
  /\ life' = "closed"
  /\ subscribers' = [c \in Clients |-> 0]
  /\ UNCHANGED <<outputSeq, outputPos, resizeMarks, stage, vtWriteChan, emu, laid, size,
                 sent, chan, streamer, handed, lost, connVars>>

----------------------------------------------------------------------------
(* The client: a pane is primed from a snapshot and then subscribed, in    *)
(* that order; hiding it unsubscribes.  One connection's requests are      *)
(* handled one at a time, in the order sent.                               *)

(* What the client's emulator holds after applying one item.               *)
Applied(v, item) ==
  IF item.kind = "size" THEN [v EXCEPT !.w = item.w]
  ELSE [v EXCEPT
         !.pos = item.hi,
         !.painted = TRUE,
         !.dup = (v.dup /\ ~item.clear) \/ (~item.clear /\ item.lo < v.pos),
         !.gap = (v.gap /\ ~item.clear) \/ (~item.clear /\ v.painted /\ item.lo > v.pos)]

(* WriteOutputAsync and ResizeFromStream drop what finds the queue full.    *)
Overrun(v) == [v EXCEPT !.overrun = TRUE]

Finished(c, g) == streamer[c][g] \in {"none", "done"}

(* primePaneFromDaemon: the state request is answered with the emulator's  *)
(* screen and its position; if it fails the pane keeps what it had and     *)
(* names no position.                                                      *)
ShowPane(c) ==
  /\ pane[c] = "hidden" /\ handler[c].at = "idle"
  /\ Hasty \/ \A g \in Gens : Finished(c, g)
  /\ \E g \in Gens : streamer[c][g] = "none"
  /\ pane' = [pane EXCEPT ![c] = "shown"]
  /\ \/ /\ life # "closed"
        /\ view' = [view EXCEPT ![c] = Snapshot(emu.seq, emu.w)]
        /\ handler' = [handler EXCEPT ![c] = [at |-> "subscribe", arg |-> emu.seq]]
     \/ /\ MayFail \/ life = "closed"
        /\ handler' = [handler EXCEPT ![c] = [at |-> "subscribe", arg |-> 0]]
        /\ view' = [view EXCEPT ![c].primed = 0]
  /\ UNCHANGED <<ptyVars, size, subVars, entry, ptyResume>>

\* Mutant: the recorded position beats the one the client names.
HandleSubscribePTYRecorded(c) ==
  /\ handler[c].at = "subscribe" /\ life # "closed" /\ ~entry[c]
  /\ entry' = [entry EXCEPT ![c] = TRUE]
  /\ handler' = [handler EXCEPT ![c] =
       [at |-> "subscribing",
        arg |-> IF ptyResume[c] > 0 THEN ptyResume[c] ELSE handler[c].arg]]
  /\ UNCHANGED <<ptyVars, size, subVars, ptyResume, pane, view>>

(* handleSubscribePTY up to the unlock of cs.mu: refused if the PTY is     *)
(* gone or already subscribed; a position the client names beats the one   *)
(* recorded here.                                                          *)
HandleSubscribePTY(c) ==
  /\ handler[c].at = "subscribe"
  /\ IF life = "closed" \/ entry[c]
     THEN /\ handler' = [handler EXCEPT ![c] = [at |-> "idle", arg |-> 0]]
          /\ UNCHANGED entry
     ELSE /\ entry' = [entry EXCEPT ![c] = TRUE]
          /\ handler' = [handler EXCEPT ![c] =
               [at |-> "subscribing",
                arg |-> IF handler[c].arg > 0 THEN handler[c].arg ELSE ptyResume[c]]]
  /\ UNCHANGED <<ptyVars, size, subVars, ptyResume, pane, view>>

(* PTY.Subscribe and the streaming goroutine it is handed to.  An existing *)
(* subscription's channel is returned as it is.                            *)
Subscribe(c) ==
  /\ handler[c].at = "subscribing"
  /\ \E g \in Gens :
       /\ streamer[c][g] = "none"
       /\ \A h \in Gens : streamer[c][h] = "none" => g <= h
       /\ LET replay == CatchUp(handler[c].arg)
              queue  == Offer(<<>>, replay)
          IN  /\ subscribers' = [subscribers EXCEPT ![c] = g]
              /\ chan' = [chan EXCEPT ![c][g] = Offer(queue, <<Resized(emu.w)>>)]
              /\ sent' = [sent EXCEPT ![c] = outputSeq]
              /\ handed' = [handed EXCEPT ![c] = outputSeq]
              /\ lost' = [lost EXCEPT ![c] = FirstByte(SubSeq(replay, SubCap + 1, Len(replay)))]
       /\ streamer' = [streamer EXCEPT ![c][g] = "running"]
  /\ subscribers[c] = 0
  /\ handler' = [handler EXCEPT ![c] = [at |-> "idle", arg |-> 0]]
  /\ UNCHANGED <<ptyVars, size, entry, ptyResume, pane, view>>

(* The client hides the pane; handleUnsubscribePTY drops the entry first.  *)
HidePane(c) ==
  /\ pane[c] = "shown" /\ handler[c].at = "idle"
  /\ pane' = [pane EXCEPT ![c] = "hidden"]
  /\ entry' = [entry EXCEPT ![c] = FALSE]
  /\ handler' = [handler EXCEPT ![c] = [at |-> "unsubscribing", arg |-> 0]]
  /\ view' = [view EXCEPT ![c].overrun = FALSE]
  /\ UNCHANGED <<ptyVars, size, subVars, ptyResume>>

(* PTY.Unsubscribe closes the channel and says where it had got to: 0 when *)
(* there is no subscription.  A closed PTY is no longer looked up.         *)
Unsubscribe(c) ==
  /\ handler[c].at = "unsubscribing"
  /\ subscribers' = [subscribers EXCEPT ![c] = 0]
  /\ ptyResume' = IF life = "closed" THEN ptyResume
                  ELSE [ptyResume EXCEPT ![c] = IF subscribers[c] = 0 THEN 0 ELSE sent[c]]
  /\ handler' = [handler EXCEPT ![c] = [at |-> "idle", arg |-> 0]]
  /\ UNCHANGED <<ptyVars, size, sent, chan, streamer, handed, lost, entry, pane, view>>

(* The connection is lost: requests in progress end with it, and its       *)
(* cleanup unsubscribes what is still entered.                             *)
Disconnect(c) ==
  /\ MayDrop /\ pane[c] # "gone" /\ handler[c].at = "idle"
  /\ pane' = [pane EXCEPT ![c] = "gone"]
  /\ subscribers' = [subscribers EXCEPT ![c] = IF entry[c] /\ life # "closed" THEN 0 ELSE @]
  /\ UNCHANGED <<ptyVars, size, sent, chan, streamer, handed, lost, entry, ptyResume,
                 handler, view>>

----------------------------------------------------------------------------
(* streamPTYOutput, one goroutine per subscription.                        *)

(* One item goes to the client; batching only joins consecutive items.     *)
(* The client applies it if the pane is shown (hiding removed its handler) *)
(* and its own queue has room.                                             *)
StreamItem(c, g) ==
  /\ streamer[c][g] = "running" /\ chan[c][g] # <<>> /\ pane[c] # "gone"
  /\ chan' = [chan EXCEPT ![c][g] = Tail(@)]
  /\ IF pane[c] = "shown"
     THEN \/ view' = [view EXCEPT ![c] = Applied(@, Head(chan[c][g]))]
          \/ view' = [view EXCEPT ![c] = Overrun(@)]
     ELSE UNCHANGED view
  /\ UNCHANGED <<ptyVars, size, subscribers, sent, streamer, handed, lost, entry,
                 ptyResume, handler, pane>>

\* Mutant: cs.done not watched.
StreamEndUnwatched(c, g) ==
  /\ streamer[c][g] = "running"
  /\ subscribers[c] # g /\ chan[c][g] = <<>>
  /\ streamer' = [streamer EXCEPT ![c][g] = "ending"]
  /\ subscribers' = [subscribers EXCEPT ![c] = 0]
  /\ UNCHANGED <<ptyVars, size, sent, chan, handed, lost, connVars>>

(* It returns when its channel is closed and drained, or the connection is *)
(* gone; its deferred call then unsubscribes the client from the PTY.      *)
StreamEnd(c, g) ==
  /\ streamer[c][g] = "running"
  /\ \/ subscribers[c] # g /\ chan[c][g] = <<>>
     \/ pane[c] = "gone"
  /\ streamer' = [streamer EXCEPT ![c][g] = "ending"]
  /\ subscribers' = [subscribers EXCEPT ![c] = 0]
  /\ UNCHANGED <<ptyVars, size, sent, chan, handed, lost, connVars>>

(* ... and deletes the pane's entry.                                       *)
StreamForget(c, g) ==
  /\ streamer[c][g] = "ending"
  /\ streamer' = [streamer EXCEPT ![c][g] = "done"]
  /\ chan' = [chan EXCEPT ![c][g] = <<>>]
  /\ entry' = [entry EXCEPT ![c] = FALSE]
  /\ UNCHANGED <<ptyVars, size, subscribers, sent, handed, lost, ptyResume, handler,
                 pane, view>>

----------------------------------------------------------------------------
Stream ==
  \/ \E n \in 1..MaxChunk : AppendToBuffer(n)
  \/ Broadcast \/ QueueForEmulator \/ VtWrite \/ GuestExit \/ ClosePTY

Connection(c) ==
  \/ \E w \in Sizes : AnnounceSize(c, w)
  \/ MarkResize(c) \/ ResizeTty(c)
  \/ ShowPane(c) \/ HandleSubscribePTY(c) \/ Subscribe(c)
  \/ HidePane(c) \/ Unsubscribe(c) \/ Disconnect(c)

Streaming(c) == \E g \in Gens : StreamItem(c, g) \/ StreamEnd(c, g) \/ StreamForget(c, g)

Next == Stream \/ \E c \in Clients : Connection(c) \/ Streaming(c)

Spec == Init /\ [][Next]_vars

(* Goroutines that can run do: the holder of streamMu, vtWriter, a         *)
(* connection's handler inside a request and the streamers, each of which  *)
(* has one step to take at a time.  Clients and the guest owe nothing.     *)
Fairness ==
  /\ WF_vars(Broadcast \/ QueueForEmulator) /\ WF_vars(VtWrite)
  /\ \A c \in Clients :
       /\ WF_vars(\/ MarkResize(c) \/ ResizeTty(c)
                  \/ HandleSubscribePTY(c) \/ Subscribe(c) \/ Unsubscribe(c))
       /\ \A g \in Gens : WF_vars(StreamItem(c, g) \/ StreamEnd(c, g) \/ StreamForget(c, g))

FairSpec == Spec /\ Fairness

----------------------------------------------------------------------------
(* Properties.                                                             *)

\* The variables have the types the code gives them.
TypeOK ==
  /\ outputSeq \in Nat /\ outputPos \in 0..RingCap
  /\ resizeMarks \in Seq([seq : Nat, w : Sizes])
  /\ stage \in [at : {"free", "appended", "broadcast"}, item : Item]
  /\ vtWriteChan \in Seq(Item)
  /\ emu \in [w : Sizes, seq : Nat]
  /\ life \in {"running", "eof", "closed"}
  /\ size \in [announced : Sizes, tty : Sizes, resizes : Nat]
  /\ subscribers \in [Clients -> 0..MaxGen]
  /\ sent \in [Clients -> Nat]
  /\ chan \in [Clients -> [Gens -> Seq(Item)]]
  /\ streamer \in [Clients -> [Gens -> {"none", "running", "ending", "done"}]]
  /\ entry \in [Clients -> BOOLEAN]
  /\ ptyResume \in [Clients -> Nat]
  /\ handler \in [Clients ->
       [at : {"announced", "instream", "queued"}, arg : Sizes]
         \cup [at : {"idle", "subscribe", "subscribing", "unsubscribing"}, arg : Nat]]
  /\ pane \in [Clients -> {"hidden", "shown", "gone"}]
  /\ view \in [Clients -> [pos : Nat, w : Sizes, primed : Nat, painted : BOOLEAN,
                           dup : BOOLEAN, gap : BOOLEAN, overrun : BOOLEAN]]
  /\ laid \in Seq(Sizes)
  /\ handed \in [Clients -> Nat]
  /\ lost \in [Clients -> Nat]

\* The seam between catch-up and broadcast: a live subscription that lost no
\* chunk has been handed exactly the bytes up to the stream position, or is
\* about to be handed the one chunk readOutput has appended and not broadcast.
SeamExact ==
  \A c \in Clients : subscribers[c] # 0 /\ lost[c] = 0 =>
    LET due == stage.at = "appended" /\ stage.item.kind = "data" /\ c \in Receivers(stage.item)
    IN  handed[c] = IF due THEN stage.item.lo ELSE outputSeq

(* The newest item of a kind in front of the i-th of q, 0 if there is none; *)
(* the size in force and the position reached there, from those q starts at. *)
Latest(q, i, kind) ==
  LET js == {j \in 1..(i - 1) : q[j].kind = kind} IN IF js = {} THEN 0 ELSE Max(js)

WidthAt(q, i, w) == LET j == Latest(q, i, "size") IN IF j = 0 THEN w ELSE q[j].w
PosAt(q, i, pos) == LET j == Latest(q, i, "data") IN IF j = 0 THEN pos ELSE q[j].hi

\* An item is laid out as it was read: each of its bytes at the size the stream
\* had at that byte.
LaidAt(item, w) == \A b \in (item.lo + 1)..item.hi : laid[b] = w

\* The emulator lays out every byte at the size the stream had at that byte, so a
\* snapshot's cells and the position it claims agree, and no byte reaches the
\* emulator twice or not at all.
EmulatorFollowsStream ==
  \A i \in DOMAIN vtWriteChan : vtWriteChan[i].kind = "data" =>
    /\ vtWriteChan[i].lo = PosAt(vtWriteChan, i, emu.seq)
    /\ LaidAt(vtWriteChan[i], WidthAt(vtWriteChan, i, emu.w))

\* The catch-up is laid out as the daemon laid it out: every byte Subscribe would
\* now replay comes behind the size that was in force when it was read, whichever
\* position the client resumes at; and it runs on from that position byte by byte,
\* unless it begins by clearing the screen or the client names no position.
ReplayLaidAsRead ==
  \A from \in 0..outputSeq :
    LET q == CatchUp(from)
    IN  \A i \in DOMAIN q : q[i].kind = "data" =>
          /\ LaidAt(q[i], WidthAt(q, i, InitSize))
          /\ \/ q[i].lo = PosAt(q, i, IF from = 0 THEN BufStart ELSE from)
             \/ q[i].clear

\* The daemon's emulator and every replay lay out each byte at the width it was
\* read at, so that a snapshot, the catch-up behind it and the live stream agree.
LaidAsRead == EmulatorFollowsStream /\ ReplayLaidAsRead

(* Something meant for the pane on screen was dropped, at its channel or in *)
(* the client's own queue.                                                 *)
Missed(c) == lost[c] # 0 \/ view[c].overrun

\* A pane restored from a snapshot at a position above 0 paints no byte twice and
\* misses none unless its channel or the client's own queue overflowed.
ViewExact ==
  \A c \in Clients : pane[c] = "shown" /\ view[c].primed > 0 =>
    /\ ~view[c].dup
    /\ view[c].gap => Missed(c)

\* Once a request to subscribe has been handled, the pane on screen has a live
\* subscription for as long as the PTY lives.
ShownIsSubscribed ==
  \A c \in Clients :
    pane[c] = "shown" /\ life # "closed" /\ handler[c].at \notin {"subscribe", "subscribing"}
    => subscribers[c] # 0

\* A pane restored from such a snapshot comes to show every byte the guest wrote
\* while it stays on screen, unless its channel or the client's own queue overflowed
\* or the PTY was closed.
PaneCatchesUp ==
  \A c \in Clients : \A n \in 1..MaxSeq :
    outputSeq >= n /\ pane[c] = "shown" /\ view[c].primed > 0
      ~> view[c].pos >= n \/ pane[c] # "shown" \/ Missed(c) \/ life = "closed"

\* Every subscription of a lost connection is given up, so no PTY keeps
\* broadcasting into a channel nobody reads.
LostClientsUnsubscribed ==
  \A c \in Clients : pane[c] = "gone" ~> subscribers[c] = 0

----------------------------------------------------------------------------
(* What the code's comments say, and TLC refutes.                          *)

\* "A resize carries no bytes and so does not move the stream position."
ResizeKeepsPosition ==
  \A c \in Clients : subscribers[c] # 0 /\ lost[c] = 0 => sent[c] = handed[c]

\* "Only a chunk that was taken counts as reached: a client dropped here resumes
\* from the gap rather than past it."
ResumesFromGap == \A c \in Clients : subscribers[c] # 0 /\ lost[c] # 0 => sent[c] < lost[c]

\* Nothing is on its way to the emulator, to a channel or inside a request.
Quiet ==
  /\ stage.at = "free" /\ vtWriteChan = <<>>
  /\ \A c \in Clients : /\ handler[c].at = "idle"
                        /\ \A g \in Gens : chan[c][g] = <<>>

\* The size the emulator is at is stated on every subscribe, so a quiet pane is
\* never left "at whatever width the client last heard about".
SizeStatedOnSubscribe ==
  Quiet => \A c \in Clients :
    pane[c] = "shown" /\ subscribers[c] # 0 /\ ~Missed(c) => view[c].w = emu.w

\* "Resize changes the PTY and terminal emulator size": in a quiet pane the
\* announced size, the kernel's and the emulator's are one.
SizesAgree == Quiet /\ life = "running" => size.announced = emu.w /\ size.tty = emu.w

============================================================================
