--------------------------- MODULE SizeNegotiation ---------------------------
(***************************************************************************)
(* How the clients of one session agree on a size (internal/session/       *)
(* daemon_size.go, the attach, resize and detach handlers, and the sizes   *)
(* app/update.go renders at).  The session is to be as large as its        *)
(* smallest client.  Each connection has its own handler loop in the       *)
(* daemon; a handler records its client's size, works out the smallest,    *)
(* compares it with the session's, sets it and sends it out, and lets      *)
(* others in between any two of these.  What is sent travels through one   *)
(* goroutine per message on both sides and arrives in any order.           *)
(*                                                                         *)
(* Width and height are compared and carried alike: one of them stands for *)
(* both.  A client attaches once; what is left of it when it goes is       *)
(* dropped with its connection.                                            *)
(***************************************************************************)
EXTENDS Integers, Sequences, FiniteSets, SequencesExt, FiniteSetsExt

CONSTANTS
  Clients,
  Sizes,      \* the widths a terminal can have
  InitSize,   \* the session's size before anybody attaches
  Placeholder,\* the size the command line attaches with, whatever its terminal
  MaxResizes  \* bound: times terminals change size

ASSUME SizeNegotiationAssumption ==
  /\ Sizes \subseteq Nat \ {0} /\ {InitSize, Placeholder} \subseteq Sizes
  /\ MaxResizes \in Nat

VARIABLES
  session,    \* the session's size
  attached,   \* clients registered with the session
  width,      \* client -> the size the daemon has of it, 0 for none
  handler,    \* client -> its connection's handler
  up,         \* client -> requests on their way to the daemon
  inflight,   \* client -> MsgSessionResize on their way to it, in no order
  reply,      \* client -> the size its attach was answered with, 0 for none
  ui,         \* client -> "out", "attaching", "restored" or "bare" before its
              \* first size event, "on" after it, or "gone"
  term,       \* client -> its terminal's size
  eff,        \* client -> EffectiveWidth
  resizes,
  crossed,    \* history: a handler began while another was at work, and none
              \* has begun alone since
  muddled     \* history: a client changed something before the change before
              \* it had settled

vars == <<session, attached, width, handler, up, inflight, reply, ui, term, eff,
          resizes, crossed, muddled>>
clientVars == <<ui, term, eff, resizes, muddled>>

Idle == [at |-> "idle", size |-> 0, reply |-> 0, peers |-> FALSE]

Requests == [kind : {"attach", "resize", "detach"}, size : Sizes \cup {0}]
Handlers == [at : {"idle", "join", "fit", "resize", "left", "calc", "compare", "set",
                   "tell", "answer"},
             size : Sizes \cup {0}, reply : Sizes \cup {0}, peers : BOOLEAN]

TypeOK ==
  /\ session \in Sizes /\ attached \subseteq Clients
  /\ width \in [Clients -> Sizes \cup {0}] /\ handler \in [Clients -> Handlers]
  /\ up \in [Clients -> Seq(Requests)] /\ inflight \in [Clients -> Seq(Sizes)]
  /\ reply \in [Clients -> Sizes \cup {0}]
  /\ ui \in [Clients -> {"out", "attaching", "restored", "bare", "on", "gone"}]
  /\ term \in [Clients -> Sizes] /\ eff \in [Clients -> Sizes \cup {0}]
  /\ resizes \in 0..MaxResizes /\ {crossed, muddled} \subseteq BOOLEAN

Init ==
  /\ session = InitSize /\ attached = {}
  /\ width = [c \in Clients |-> 0] /\ handler = [c \in Clients |-> Idle]
  /\ up = [c \in Clients |-> <<>>] /\ inflight = [c \in Clients |-> <<>>]
  /\ reply = [c \in Clients |-> 0] /\ ui = [c \in Clients |-> "out"]
  /\ term \in [Clients -> Sizes] /\ eff = [c \in Clients |-> 0]
  /\ resizes = 0 /\ crossed = FALSE /\ muddled = FALSE

(* calculateEffectiveSize.  It holds clientsMu throughout and each client's
   lock in turn; a size that changes during the scan is as good as one that
   changes before or after it, since the handler that changes it looks again. *)
Known == {width[c] : c \in attached} \ {0}
Smallest == IF Known = {} THEN 0 ELSE Min(Known)

At(c, place) == handler[c].at = place
Goes(c, place) ==
  handler' = [handler EXCEPT ![c] = IF place = "idle" THEN Idle ELSE [@ EXCEPT !.at = place]]
AllIdle == \A c \in Clients : At(c, "idle")

(* A handler whose client's size or place in the session changes: the history *)
(* of who was at work meanwhile.                                              *)
Begins(c) == /\ At(c, "idle")
             /\ crossed' = ~AllIdle

-----------------------------------------------------------------------------
(* The daemon. *)

Takes(c, kind) ==
  /\ up[c] # <<>> /\ Head(up[c]).kind = kind
  /\ up' = [up EXCEPT ![c] = Tail(@)]

(* handleAttach: the size is recorded, the clients are counted, the size the
   attach is answered with is worked out and the session set to it, and if
   there are others notifyClientJoined looks once more.  The notice of the join
   itself carries nothing a client acts on. *)
Attach(c) ==
  /\ Begins(c) /\ Takes(c, "attach")
  /\ attached' = attached \cup {c}
  /\ width' = [width EXCEPT ![c] = Head(up[c]).size]
  /\ Goes(c, "join")
  /\ UNCHANGED <<session, inflight, reply, clientVars>>

AttachCounts(c) ==
  /\ At(c, "join")
  /\ handler' = [handler EXCEPT ![c].at = "fit", ![c].peers = attached # {c}]
  /\ UNCHANGED <<session, attached, width, up, inflight, reply, crossed, clientVars>>

AttachFits(c) ==
  /\ At(c, "fit")
  /\ handler' = [handler EXCEPT ![c].at = "resize", ![c].size = Smallest,
                                ![c].reply = Smallest]
  /\ UNCHANGED <<session, attached, width, up, inflight, reply, crossed, clientVars>>

AttachResizes(c) ==
  /\ At(c, "resize")
  /\ session' = handler[c].size
  /\ Goes(c, IF handler[c].peers THEN "calc" ELSE "answer")
  /\ UNCHANGED <<attached, width, up, inflight, reply, crossed, clientVars>>

(* handleResize of the client's own terminal. *)
HandleResize(c) ==
  /\ Begins(c) /\ Takes(c, "resize")
  /\ width' = [width EXCEPT ![c] = Head(up[c]).size]
  /\ Goes(c, "calc")
  /\ UNCHANGED <<session, attached, inflight, reply, clientVars>>

(* handleDetach, or the end of the connection: either way out of the session,
   and the rest are counted by notifyClientLeft. *)
Leaves(c) ==
  /\ attached' = attached \ {c}
  /\ width' = [width EXCEPT ![c] = 0]
  /\ inflight' = [inflight EXCEPT ![c] = <<>>]
  /\ Goes(c, "left")

Detach(c) ==
  /\ Begins(c) /\ Takes(c, "detach") /\ Leaves(c)
  /\ UNCHANGED <<session, reply, clientVars>>

(* The end of a connection that nobody is told of. *)
ConnectionLostSilently(c) ==
  /\ ui[c] = "gone" /\ c \in attached
  /\ Begins(c)
  /\ attached' = attached \ {c}
  /\ up' = [up EXCEPT ![c] = <<>>] /\ inflight' = [inflight EXCEPT ![c] = <<>>]
  /\ UNCHANGED <<session, width, handler, reply, clientVars>>

ConnectionLost(c) ==
  /\ ui[c] = "gone" /\ c \in attached
  /\ Begins(c) /\ Leaves(c)
  /\ up' = [up EXCEPT ![c] = <<>>]
  /\ UNCHANGED <<session, reply, clientVars>>

NotifyLeft(c) ==
  /\ At(c, "left")
  /\ Goes(c, IF attached = {} THEN "idle" ELSE "calc")
  /\ UNCHANGED <<session, attached, width, up, inflight, reply, crossed, clientVars>>

(* recalculateAndBroadcastSize: work the size out, compare it, set it, send it. *)
After(c) == IF handler[c].reply = 0 THEN "idle" ELSE "answer"

Recalculate(c) ==
  /\ At(c, "calc")
  /\ IF Smallest = 0 THEN Goes(c, After(c))
     ELSE handler' = [handler EXCEPT ![c].at = "compare", ![c].size = Smallest]
  /\ UNCHANGED <<session, attached, width, up, inflight, reply, crossed, clientVars>>

Compare(c) ==
  /\ At(c, "compare")
  /\ Goes(c, IF handler[c].size = session THEN After(c) ELSE "set")
  /\ UNCHANGED <<session, attached, width, up, inflight, reply, crossed, clientVars>>

SetSize(c) ==
  /\ At(c, "set")
  /\ session' = handler[c].size
  /\ Goes(c, "tell")
  /\ UNCHANGED <<attached, width, up, inflight, reply, crossed, clientVars>>

(* Everybody but the client whose handler it is, as other broadcasts go. *)
ToldByOthers(c) == attached \ {c}

(* broadcastToSession, to the client it began with as well. *)
ToldBy(c) == attached

Tell(c) ==
  /\ At(c, "tell")
  /\ inflight' = [d \in Clients |-> IF d \in ToldBy(c) THEN Append(inflight[d], handler[c].size)
                                                       ELSE inflight[d]]
  /\ Goes(c, After(c))
  /\ UNCHANGED <<session, attached, width, up, reply, crossed, clientVars>>

(* MsgAttached.  When the size found is the client's own, the reply's state keeps
   the size it was saved at, which the client replaces at its first size event. *)
Answer(c) ==
  /\ At(c, "answer")
  /\ reply' = [reply EXCEPT ![c] = handler[c].reply]
  /\ Goes(c, "idle")
  /\ UNCHANGED <<session, attached, width, up, inflight, crossed, clientVars>>

-----------------------------------------------------------------------------
(* The clients. *)

daemonVars == <<session, attached, width, handler, reply, crossed>>

Sends(c, kind, size) == up' = [up EXCEPT ![c] = Append(@, [kind |-> kind, size |-> size])]

(* Nothing is on its way and every client has its first size behind it. *)
Quiet == /\ AllIdle
         /\ \A c \in Clients : /\ up[c] = <<>> /\ inflight[c] = <<>>
                               /\ ui[c] \in {"out", "on", "gone"}
                               /\ ui[c] = "gone" => c \notin attached

Changes == muddled' = (muddled \/ ~Quiet)

(* AttachSession, from the command line or, with the viewport's size, the web. *)
Start(c) ==
  /\ ui[c] = "out"
  /\ \E size \in {Placeholder, term[c]} : Sends(c, "attach", size)
  /\ ui' = [ui EXCEPT ![c] = "attaching"]
  /\ Changes
  /\ UNCHANGED <<daemonVars, inflight, term, eff, resizes>>

(* recvAttachReply drops what comes before the reply. *)
SkipBroadcast(c) ==
  /\ ui[c] = "attaching"
  /\ \E i \in DOMAIN inflight[c] : inflight' = [inflight EXCEPT ![c] = RemoveAt(@, i)]
  /\ UNCHANGED <<daemonVars, up, clientVars>>

(* RestoreFromState takes the size from the reply. *)
Restore(c) ==
  /\ ui[c] = "attaching" /\ reply[c] # 0
  /\ eff' = [eff EXCEPT ![c] = reply[c]]
  /\ ui' = [ui EXCEPT ![c] = "restored"]
  /\ UNCHANGED <<daemonVars, up, inflight, term, resizes, muddled>>

(* A session without windows is not restored, and its size not taken. *)
NothingToRestore(c) ==
  /\ ui[c] = "attaching" /\ reply[c] # 0
  /\ ui' = [ui EXCEPT ![c] = "bare"]
  /\ UNCHANGED <<daemonVars, up, inflight, term, eff, resizes, muddled>>

(* The first WindowSizeMsg; after a restore it puts the terminal's own size in. *)
FirstSize(c) ==
  /\ ui[c] \in {"restored", "bare"}
  /\ Sends(c, "resize", term[c])
  /\ eff' = [eff EXCEPT ![c] = IF ui[c] = "restored" THEN term[c] ELSE @]
  /\ ui' = [ui EXCEPT ![c] = "on"]
  /\ UNCHANGED <<daemonVars, inflight, term, resizes, muddled>>

TerminalResizes(c) ==
  /\ ui[c] = "on" /\ resizes < MaxResizes
  /\ \E size \in Sizes \ {term[c]} :
       /\ term' = [term EXCEPT ![c] = size]
       /\ Sends(c, "resize", size)
  /\ resizes' = resizes + 1
  /\ Changes
  /\ UNCHANGED <<daemonVars, inflight, ui, eff>>

(* SessionResizeMsg: any of those on their way may be the next. *)
SessionResize(c) ==
  /\ ui[c] \in {"restored", "bare", "on"}
  /\ \E i \in DOMAIN inflight[c] :
       /\ eff' = [eff EXCEPT ![c] = inflight[c][i]]
       /\ inflight' = [inflight EXCEPT ![c] = RemoveAt(@, i)]
  /\ UNCHANGED <<daemonVars, up, ui, term, resizes, muddled>>

(* A client detaches, or is simply gone. *)
Quit(c) ==
  /\ ui[c] \in {"attaching", "restored", "bare", "on"}
  /\ Sends(c, "detach", 0) \/ UNCHANGED up
  /\ ui' = [ui EXCEPT ![c] = "gone"]
  /\ Changes
  /\ UNCHANGED <<daemonVars, inflight, term, eff, resizes>>

-----------------------------------------------------------------------------
Handling(c) ==
  \/ Attach(c) \/ AttachCounts(c) \/ AttachFits(c) \/ AttachResizes(c)
  \/ HandleResize(c) \/ Detach(c) \/ ConnectionLost(c) \/ NotifyLeft(c)
  \/ Recalculate(c) \/ Compare(c) \/ SetSize(c) \/ Tell(c) \/ Answer(c)

Client(c) ==
  \/ Start(c) \/ SkipBroadcast(c) \/ Restore(c) \/ NothingToRestore(c)
  \/ FirstSize(c) \/ TerminalResizes(c) \/ SessionResize(c) \/ Quit(c)

Symmetry == Permutations(Clients)

Next == \E c \in Clients : Handling(c) \/ Client(c)

Spec == Init /\ [][Next]_vars

-----------------------------------------------------------------------------
(* A handler that nobody else's overlapped leaves the session at the smallest
   of the sizes its clients last reported, whatever overlapping handlers before
   it had left behind: no size of a client that has gone, or has grown, stays
   on (daemon_size.go:95, daemon.go:620). *)
SmallestAfterAll ==
  AllIdle /\ ~crossed /\ attached # {} => session = Smallest

(* GetRenderWidth. *)
Shown(c) == IF eff[c] > 0 /\ eff[c] < term[c] THEN eff[c] ELSE term[c]
Here == {c \in Clients : ui[c] = "on"}
LeastTerminal == Min({term[c] : c \in Here})

(* As long as changes come one at a time, no client is left drawing smaller
   than the smallest terminal among them once a change has settled: those that
   shrank for a client hear of it when it leaves or grows (daemon_size.go:115,
   update.go:1510). *)
NoOneClamped ==
  Quiet /\ ~muddled => \A c \in Here : Shown(c) >= LeastTerminal

(* "renders at the smallest client's size" (cmd/tuios/session_commands.go:125).
   It does not: an attach sets the session's size before it announces the
   join, so the size is no news any more when it would be sent, and a client
   larger than the session puts its own size in at its first size event. *)
ShownAtSmallest ==
  Quiet /\ ~muddled => \A c \in Here : Shown(c) = LeastTerminal

=============================================================================
