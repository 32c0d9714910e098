--------------------------- MODULE CommandRouting ---------------------------
(***************************************************************************)
(* Control requests that the daemon carries out itself or routes to an     *)
(* attached client (a TUI), and the way the result takes back              *)
(* (internal/session/daemon_command.go, verb_handlers.go, the TUI's event  *)
(* loop in internal/app/update.go).                                        *)
(*                                                                         *)
(* A request comes over the binary protocol, whose handler forwards it,    *)
(* notes it in pendingRequests and returns, or over the JSON verb          *)
(* protocol, whose handler waits for the result.  The TUI runs it in its   *)
(* event loop, a key or a script command at a time, and sends its state    *)
(* and the result over one connection, which keeps their order.            *)
(***************************************************************************)
EXTENDS Naturals, Sequences

CONSTANTS
  Requests,        \* control requests, each of a requester of its own
  TUIs,            \* attached clients
  None,
  Made,            \* the kinds of request made
  Over,            \* the protocols they are made over
  MaxSteps         \* bound: keys of a sequence, commands of a script

Kinds == {"owned", "command", "script", "keys", "literal", "config"}
Vias  == {"binary", "json"}

ASSUME CommandRoutingAssumption ==
  /\ None \notin TUIs
  /\ Made \subseteq Kinds /\ Over \subseteq Vias
  /\ None \notin [kind : Kinds, via : Vias]
  /\ MaxSteps \in Nat

(* The verb protocol has no verb that routes a command or a script.        *)
Forms == {f \in [kind : Made, via : Over] :
            f.via = "json" => f.kind \in {"owned", "keys", "literal", "config"}}

VARIABLES
  form,       \* request -> what it asks for, None before it is made
  handler,    \* request -> how far its handler in the daemon is
  target,     \* request -> the TUI it was routed to
  pending,    \* request -> its entry in pendingRequests
  slot,       \* request -> what its resultCh holds
  answer,     \* request -> what its requester was told
  work,       \* request -> how far the TUI is with it
  left,       \* request -> keys or script commands still to run
  alive,      \* TUIs that run
  attached,   \* TUIs the daemon has as clients of the session
  suppressed, \* TUI -> AnimationsSuppressed
  local,      \* TUI -> requests whose effect only its own model has
  fromTUI,    \* TUI -> state pushes and results on their way to the daemon
  state,      \* requests whose effect the daemon's session state has
  carried     \* history: requests carried out

vars == <<form, handler, target, pending, slot, answer, work, left, alive,
          attached, suppressed, local, fromTUI, state, carried>>

Daemon    == <<handler, target, pending, slot, answer>>
Renderer  == <<work, left, suppressed, local, fromTUI>>
Clients   == <<alive, attached>>

Push(reqs)      == [type |-> "state", effects |-> reqs]
Result(r, ok)   == [type |-> "result", req |-> r, ok |-> ok]
Verdict(ok)     == IF ok THEN "ok" ELSE "failed"

Kind(r) == form[r].kind
Via(r)  == form[r].via

(* A set-option verb is told what was recorded, applied or not.            *)
Told(r, ok) == IF form[r] = [kind |-> "config", via |-> "json"] THEN "ok" ELSE Verdict(ok)

(* What the requester reads first is its answer.                           *)
Reply(r, a) == answer' = IF answer[r] = "none" THEN [answer EXCEPT ![r] = a] ELSE answer

Init ==
  /\ form = [r \in Requests |-> None]
  /\ handler = [r \in Requests |-> "idle"]
  /\ target = [r \in Requests |-> None]
  /\ pending = [r \in Requests |-> "none"]
  /\ slot = [r \in Requests |-> "none"]
  /\ answer = [r \in Requests |-> "none"]
  /\ work = [r \in Requests |-> "none"]
  /\ left = [r \in Requests |-> 0]
  /\ alive = TUIs /\ attached \in SUBSET TUIs
  /\ suppressed = [t \in TUIs |-> FALSE]
  /\ local = [t \in TUIs |-> {}]
  /\ fromTUI = [t \in TUIs |-> <<>>]
  /\ state = {} /\ carried = {}

-----------------------------------------------------------------------------
(* The daemon, up to the TUI.                                              *)

Ask(r, f) ==
  /\ form[r] = None
  /\ form' = [form EXCEPT ![r] = f]
  /\ handler' = [handler EXCEPT ![r] = "dispatch"]
  /\ UNCHANGED <<target, pending, slot, answer, Renderer, Clients, state, carried>>

To(r, stage) == handler' = [handler EXCEPT ![r] = stage]

(* No renderer to ask: appearance cannot be changed (an option can still   *)
(* be recorded), a script cannot run, everything else the daemon does.     *)
Refused(r) == Kind(r) = "script" \/ form[r] = [kind |-> "config", via |-> "binary"]

RunHere(r) ==
  /\ handler[r] = "dispatch" /\ (attached = {} \/ Kind(r) = "owned")
  /\ To(r, "done")
  /\ \/ /\ ~Refused(r)
        /\ state' = state \cup {r} /\ carried' = carried \cup {r}
        /\ Reply(r, "ok")
     \/ /\ form[r] # [kind |-> "config", via |-> "json"]
        /\ UNCHANGED <<state, carried>>
        /\ Reply(r, "failed")
  /\ UNCHANGED <<form, target, pending, slot, Renderer, Clients>>

(* findTUIClient takes any of them.  A verb enters its request before it   *)
(* sends it; set-option has recorded the option by then.                   *)
Route(r, t) ==
  /\ handler[r] = "dispatch" /\ t \in attached /\ Kind(r) # "owned"
  /\ To(r, "send")
  /\ target' = [target EXCEPT ![r] = t]
  /\ pending' = IF Via(r) = "json" THEN [pending EXCEPT ![r] = "channel"] ELSE pending
  /\ IF form[r] = [kind |-> "config", via |-> "json"]
     THEN state' = state \cup {r} /\ carried' = carried \cup {r}
     ELSE UNCHANGED <<state, carried>>
  /\ UNCHANGED <<form, slot, answer, Renderer, Clients>>

(* Written to the TUI, whose reader hands it to the event loop in a        *)
(* goroutine of its own; to a TUI that is gone the write may still work.   *)
Forward(r) ==
  /\ handler[r] = "send"
  /\ To(r, IF Via(r) = "json" THEN "wait" ELSE "track")
  /\ work' = [work EXCEPT ![r] = IF target[r] \in alive THEN "posted" ELSE "lost"]
  /\ UNCHANGED <<form, target, pending, slot, answer, left, suppressed, local,
                 fromTUI, Clients, state, carried>>

ForwardFails(r) ==
  /\ handler[r] = "send" /\ target[r] \notin alive
  /\ To(r, "done")
  /\ pending' = [pending EXCEPT ![r] = "none"]
  /\ Reply(r, Told(r, FALSE))
  /\ UNCHANGED <<form, target, slot, Renderer, Clients, state, carried>>

Track(r) ==
  /\ handler[r] = "track"
  /\ To(r, "done")
  /\ pending' = [pending EXCEPT ![r] = "requester"]
  /\ UNCHANGED <<form, target, slot, answer, Renderer, Clients, state, carried>>

-----------------------------------------------------------------------------
(* The TUI's event loop.                                                   *)

Sends(t, msgs) == fromTUI' = [fromTUI EXCEPT ![t] = @ \o msgs]
Works(r, stage) == work' = [work EXCEPT ![r] = stage]

(* The command failed, or there was nothing valid to run.                  *)
Fail(r) ==
  /\ work[r] = "posted"
  /\ Works(r, "done")
  /\ Sends(target[r], <<Result(r, FALSE)>>)
  /\ UNCHANGED <<form, Daemon, left, suppressed, local, Clients, state, carried>>

\* Mutant: the result sent ahead of the state.
RunResultFirst(r) ==
  LET t == target[r] IN
  /\ work[r] = "posted" /\ Kind(r) \in {"command", "config"}
  /\ Works(r, "done")
  /\ Sends(t, <<Result(r, TRUE), Push(local[t] \cup {r})>>)
  /\ local' = [local EXCEPT ![t] = {}]
  /\ carried' = carried \cup {r}
  /\ UNCHANGED <<form, Daemon, left, suppressed, Clients, state>>

(* One command or one setting: run, state pushed, result sent.             *)
Run(r) ==
  LET t == target[r] IN
  /\ work[r] = "posted" /\ Kind(r) \in {"command", "config"}
  /\ Works(r, "done")
  /\ Sends(t, <<Push(local[t] \cup {r}), Result(r, TRUE)>>)
  /\ local' = [local EXCEPT ![t] = {}]
  /\ carried' = carried \cup {r}
  /\ UNCHANGED <<form, Daemon, left, suppressed, Clients, state>>

(* Literal text goes to the pane; no result follows.                       *)
TypeLiteral(r) ==
  /\ work[r] = "posted" /\ Kind(r) = "literal"
  /\ Works(r, "quiet")
  /\ carried' = carried \cup {r}
  /\ UNCHANGED <<form, Daemon, left, suppressed, local, fromTUI, Clients, state>>

Begin(r) ==
  /\ work[r] = "posted" /\ Kind(r) \in {"keys", "script"}
  /\ Works(r, "working")
  /\ \E n \in 1..MaxSteps : left' = [left EXCEPT ![r] = n]
  /\ suppressed' = [suppressed EXCEPT ![target[r]] = TRUE]
  /\ UNCHANGED <<form, Daemon, local, fromTUI, Clients, state, carried>>

(* A key, or a script command: it changes nothing of the session, or       *)
(* changes it and pushes the state.  Of a script's commands some change    *)
(* it and push nothing.                                                    *)
Step(r) ==
  LET t == target[r] IN
  /\ work[r] = "working" /\ left[r] > 0
  /\ left' = [left EXCEPT ![r] = @ - 1]
  /\ carried' = IF left[r] = 1 THEN carried \cup {r} ELSE carried
  /\ \/ UNCHANGED <<local, fromTUI>>
     \/ Sends(t, <<Push(local[t] \cup {r})>>) /\ local' = [local EXCEPT ![t] = {}]
     \/ Kind(r) = "script" /\ local' = [local EXCEPT ![t] = @ \cup {r}] /\ UNCHANGED fromTUI
  /\ UNCHANGED <<form, Daemon, work, suppressed, Clients, state>>

\* Mutant: animations left off when the last key is done.
FinishSuppressed(r) ==
  /\ work[r] = "working" /\ left[r] = 0
  /\ Works(r, "done")
  /\ Sends(target[r], <<Result(r, TRUE)>>)
  /\ UNCHANGED <<form, Daemon, left, local, suppressed, Clients, state, carried>>

\* Mutant: an exit that sends no result.
FinishUnreported(r) ==
  /\ work[r] = "working" /\ left[r] = 0
  /\ Works(r, "done")
  /\ suppressed' = [suppressed EXCEPT ![target[r]] = FALSE]
  /\ UNCHANGED <<form, Daemon, left, local, fromTUI, Clients, state, carried>>

\* Mutant: the result sent while keys are left.
FinishEarly(r) ==
  /\ work[r] = "working"
  /\ Works(r, "done")
  /\ suppressed' = [suppressed EXCEPT ![target[r]] = FALSE]
  /\ Sends(target[r], <<Result(r, TRUE)>>)
  /\ UNCHANGED <<form, Daemon, left, local, Clients, state, carried>>

(* The last key or command is done; auto-tiling then lays the panes out    *)
(* afresh and nothing pushes that.                                         *)
Finish(r) ==
  LET t == target[r] IN
  /\ work[r] = "working" /\ left[r] = 0
  /\ Works(r, "done")
  /\ suppressed' = [suppressed EXCEPT ![t] = FALSE]
  /\ local' \in {local, [local EXCEPT ![t] = @ \cup {r}]}
  /\ Sends(t, <<Result(r, TRUE)>>)
  /\ UNCHANGED <<form, Daemon, left, Clients, state, carried>>

(* What it has written stays readable.                                     *)
TUIDies(t) ==
  /\ t \in alive /\ alive' = alive \ {t}
  /\ work' = [r \in Requests |->
                IF target[r] = t /\ work[r] \in {"posted", "working"} THEN "lost" ELSE work[r]]
  /\ suppressed' = [suppressed EXCEPT ![t] = FALSE]
  /\ local' = [local EXCEPT ![t] = {}]
  /\ UNCHANGED <<form, Daemon, left, fromTUI, attached, state, carried>>

-----------------------------------------------------------------------------
(* The daemon, from the TUI.                                               *)

Reads(t, type) ==
  /\ fromTUI[t] # <<>> /\ Head(fromTUI[t]).type = type
  /\ fromTUI' = [fromTUI EXCEPT ![t] = Tail(@)]

TakeState(t) ==
  /\ Reads(t, "state")
  /\ state' = state \cup Head(fromTUI[t]).effects
  /\ UNCHANGED <<form, Daemon, work, left, suppressed, local, Clients, carried>>

(* handleCommandResult: whoever the table names gets it, otherwise nobody. *)
TakeResult(t) ==
  LET m == Head(fromTUI[t])
      r == m.req IN
  /\ Reads(t, "result")
  /\ Works(r, "reported")
  /\ pending' = [pending EXCEPT ![r] = "none"]
  /\ slot' = IF pending[r] = "channel" THEN [slot EXCEPT ![r] = Verdict(m.ok)] ELSE slot
  /\ IF pending[r] = "requester" THEN Reply(r, Verdict(m.ok)) ELSE UNCHANGED answer
  /\ UNCHANGED <<form, handler, target, left, suppressed, local, Clients, state, carried>>

(* routeToTUISync returns.                                                 *)
Heard(r) ==
  /\ handler[r] = "wait" /\ slot[r] # "none"
  /\ To(r, "done")
  /\ Reply(r, Told(r, slot[r] = "ok"))
  /\ UNCHANGED <<form, target, pending, slot, Renderer, Clients, state, carried>>

RouteTimesOut(r) ==
  /\ handler[r] = "wait"
  /\ To(r, "done")
  /\ pending' = [pending EXCEPT ![r] = "none"]
  /\ Reply(r, Told(r, FALSE))
  /\ UNCHANGED <<form, target, slot, Renderer, Clients, state, carried>>

(* The requester waits 30 seconds, and may go before.                      *)
GiveUp(r) ==
  /\ form[r] # None /\ answer[r] = "none"
  /\ Reply(r, "gone")
  /\ UNCHANGED <<form, handler, target, pending, slot, Renderer, Clients, state, carried>>

(* Its connection is closed; or two minutes have gone by (cleanupLoop).    *)
Forget(r) ==
  /\ handler[r] = "done" /\ answer[r] # "none" /\ pending[r] = "requester"
  /\ pending' = [pending EXCEPT ![r] = "none"]
  /\ UNCHANGED <<form, handler, target, slot, answer, Renderer, Clients, state, carried>>

(* The end of the TUI's connection.                                        *)
DropTUI(t) ==
  /\ t \in attached \ alive /\ fromTUI[t] = <<>>
  /\ attached' = attached \ {t}
  /\ UNCHANGED <<form, Daemon, Renderer, alive, state, carried>>

-----------------------------------------------------------------------------
Handles(r) ==
  \/ RunHere(r) \/ Forward(r) \/ ForwardFails(r) \/ Track(r) \/ Heard(r) \/ Forget(r)
  \/ \E t \in TUIs : Route(r, t)

Executes(r) == Fail(r) \/ Run(r) \/ TypeLiteral(r) \/ Begin(r) \/ Step(r) \/ Finish(r)

Next ==
  \/ \E r \in Requests :
       \/ \E f \in Forms : Ask(r, f)
       \/ Handles(r) \/ Executes(r) \/ RouteTimesOut(r) \/ GiveUp(r)
  \/ \E t \in TUIs : TakeState(t) \/ TakeResult(t) \/ TUIDies(t) \/ DropTUI(t)

(* Nobody is going to answer it any more.                                  *)
Unanswerable(r) ==
  \/ work[r] \in {"lost", "quiet"}
  \/ work[r] = "reported" /\ slot[r] = "none"

(* Handlers, event loops and readers run.  Timers are only counted on      *)
(* where nothing else ends the wait.                                       *)
Fairness ==
  /\ \A r \in Requests :
       /\ WF_vars(Handles(r)) /\ WF_vars(Executes(r))
       /\ WF_vars(Unanswerable(r) /\ (RouteTimesOut(r) \/ GiveUp(r)))
  /\ \A t \in TUIs : WF_vars(TakeState(t) \/ TakeResult(t))

Spec     == Init /\ [][Next]_vars
FairSpec == Spec /\ Fairness

-----------------------------------------------------------------------------
Messages == {Push(s) : s \in SUBSET Requests} \cup {Result(r, ok) : r \in Requests, ok \in BOOLEAN}

(* Every variable keeps its type.                                          *)
TypeOK ==
  /\ form \in [Requests -> Forms \cup {None}]
  /\ handler \in [Requests -> {"idle", "dispatch", "send", "track", "wait", "done"}]
  /\ target \in [Requests -> TUIs \cup {None}]
  /\ pending \in [Requests -> {"none", "requester", "channel"}]
  /\ slot \in [Requests -> {"none", "ok", "failed"}]
  /\ answer \in [Requests -> {"none", "ok", "failed", "gone"}]
  /\ work \in [Requests -> {"none", "posted", "working", "quiet", "done", "reported", "lost"}]
  /\ left \in [Requests -> 0..MaxSteps]
  /\ alive \subseteq TUIs /\ attached \subseteq TUIs
  /\ suppressed \in [TUIs -> BOOLEAN]
  /\ local \in [TUIs -> SUBSET Requests]
  /\ fromTUI \in [TUIs -> Seq(Messages)]
  /\ state \subseteq Requests /\ carried \subseteq Requests

(* A verb that waits has not missed its result: it is entered in the table *)
(* before the TUI can answer (routeToTUISync).                             *)
WaitersHear ==
  \A r \in Requests : handler[r] = "wait" /\ work[r] = "reported" => slot[r] # "none"

(* Whoever is told that a command or keys were run can read the effect     *)
(* back from the daemon at once: the state is pushed before the result     *)
(* ("so a caller that reads back immediately after a successful command    *)
(* sees what it just did", internal/app/update.go).                        *)
ReadBackSees ==
  \A r \in Requests :
    answer[r] = "ok" /\ Kind(r) \in {"owned", "command"} => r \in state

(* Animations come back once no remote keys or script run in the TUI.      *)
AnimationsComeBack ==
  \A t \in TUIs :
    suppressed[t] => \E r \in Requests : target[r] = t /\ work[r] = "working"

(* No entry stays in pendingRequests, and what it pins with it; and a verb *)
(* routed to a TUI is answered without waiting for its timer while the TUI *)
(* lives and the request is one it reports on: it cannot miss its result.  *)
RequestsEnd ==
  /\ []WaitersHear
  /\ \A r \in Requests :
       /\ pending[r] # "none" ~> pending[r] = "none"
       /\ handler[r] = "wait" ~> answer[r] # "none" \/ Unanswerable(r)

(* A routed request is one that is carried out and answered at most once.  *)
Promise == INSTANCE AnswerOnce WITH
  asked <- {r \in Requests : form[r] # None}, done <- carried

Answered == Promise!Spec

-----------------------------------------------------------------------------
(* What comments in the code say and the code does not do.                 *)

(* daemon_command.go:112, "Track this request so we can route the result   *)
(* back to the original client": a result that is there first is lost.     *)
RequestersHear ==
  \A r \in Requests : work[r] = "reported" => answer[r] # "none" \/ slot[r] # "none"

(* update.go:1738-1745, a routed command pushes its state before its       *)
(* result: a tape script's commands do not.                                *)
ScriptReadBackSees ==
  \A r \in Requests : \A t \in TUIs : answer[r] = "ok" /\ Kind(r) = "script" => r \notin local[t]

(* update.go:1708, "result will be sent after all keys processed": for     *)
(* literal text it is not.                                                 *)
LiteralReported == \A r \in Requests : work[r] = "quiet" ~> work[r] = "reported"

(* os_tape_executor.go:1153, animations are disabled during remote key     *)
(* processing: until another request's last key.                           *)
SuppressedWhileWorking ==
  \A r \in Requests : work[r] = "working" => suppressed[target[r]]
=============================================================================
