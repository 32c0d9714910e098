----------------------------- MODULE AgentState -----------------------------
(***************************************************************************)
(* The agent state of one window (internal/session/agent_state.go,         *)
(* agent_source.go, agent_hold.go, agent_osc.go, agent_screen.go,          *)
(* agent_detect.go; the sink in daemon.go).                                *)
(*                                                                         *)
(* Six threads want to set it: a caller's report, the pane's reader (the   *)
(* progress sequences its emulator parked, the probe and a look at the     *)
(* screen), the look after the pane went quiet, the detector, the stall    *)
(* monitor and the timer of a held state.  Each change is one locked step; *)
(* what it rests on was read before.                                       *)
(*                                                                         *)
(* Time is three facts about the last stamp of the state: the pane wrote   *)
(* since, the grace of a blocker has passed, the stall window has passed.  *)
(* A look is taken to be shorter than the settle delay and the grace, and  *)
(* the settle delay and the stall window longer than the emulator's lag.   *)
(***************************************************************************)
EXTENDS Naturals

CONSTANTS
  None,
  Progress,   \* progress the pane may report
  Reported,   \* states a caller may report
  Named,      \* sources it may name
  MaxChunks,  \* bound: chunks the pane writes
  MaxReports, \* bound: reports by a caller
  MaxRuns     \* bound: agents started in the pane

ASSUME AgentStateAssumption ==
  /\ Progress \subseteq {"working", "needs_input", "idle"}
  /\ Reported \subseteq {"none", "working", "needs_input", "idle"}
  /\ Named \subseteq {"report", "osc", "screen", "stall"}
  /\ MaxChunks \in Nat /\ MaxReports \in Nat /\ MaxRuns \in Nat

States   == {"none", "working", "needs_input", "idle"}
Sources  == {"report", "osc", "screen", "detect", "stall"}
Scanners == {"reader", "settle", "stall"}

Rank(source) == CASE source = "report" -> 4
                  [] source = "osc"    -> 3
                  [] source = "screen" -> 2
                  [] source = "detect" -> 1
                  [] source = "stall"  -> 0

Loudness(state) == CASE state = "needs_input" -> 3
                     [] state = "working"     -> 2
                     [] state = "idle"        -> 1
                     [] state = "none"        -> 0

VARIABLES
  agent,    \* an agent is in the foreground
  chunks, reports, runs,
  win,      \* the window's state, whether a harness is named, and its claim
  wrote,    \* the pane has written since the state was stamped
  stood,    \* the grace has passed since
  silent,   \* neither was within the stall window
  prompt,   \* the emulator shows a prompt a rule of the harness matches
  queued,   \* the chunk on its way to the emulator
  parked,   \* progress it has parked for the reader
  reader,   \* the reader, between chunks or in the sink
  progress, \* what the reader is applying, and the state it found
  scan,     \* scanner -> its look at the screen
  armed,    \* the look after the pane goes quiet is due
  stall,    \* the stall monitor
  hold,     \* the quieter state held back
  timer,    \* its timer is armed
  settle    \* the timer's callback

vars == <<agent, chunks, reports, runs, win, wrote, stood, silent, prompt, queued, parked,
          reader, progress, scan, armed, stall, hold, timer, settle>>

Env    == <<agent, chunks, reports, runs>>
Stamps == <<win, wrote, stood, silent, scan>>
Screen == <<prompt, queued, parked>>
Reader == <<reader, progress>>
Holds  == <<hold, timer, settle>>

Init ==
  /\ agent = FALSE /\ chunks = 0 /\ reports = 0 /\ runs = 0
  /\ win = [state |-> "none", harness |-> FALSE, claim |-> None]
  /\ wrote = FALSE /\ stood = FALSE /\ silent = FALSE
  /\ prompt = FALSE /\ queued = None /\ parked = None
  /\ reader = "idle" /\ progress = None
  /\ scan = [k \in Scanners |-> "none"] /\ armed = FALSE /\ stall = "off"
  /\ hold = None /\ timer = FALSE /\ settle = "off"

-----------------------------------------------------------------------------
(* The window's claim.                                                     *)

Held    == win.claim # None
Owned   == Held /\ win.claim.auto
Blocker == Held /\ win.claim.prior # None

\* A look taken before a stamp no longer shows that the pane wrote after it.
Stamp(w) ==
  /\ win' = w
  /\ wrote' = FALSE /\ stood' = FALSE /\ silent' = FALSE

Aged(looks) == [k \in Scanners |-> IF looks[k] = "found" THEN "stale" ELSE looks[k]]

\* Mutant: the ranking alone.
OverridesNever(r) == FALSE

Overrides(r) ==
  /\ r.source = "screen" /\ r.state = "needs_input" /\ win.state # r.state
  /\ r.seen /\ stood

Yields(r) == Held /\ Rank(r.source) < Rank(win.claim.source)

Harness(r) == IF r.named \/ r.state = "none" THEN r.named ELSE win.harness

Displaced == [source |-> win.claim.source, state |-> win.state, harness |-> win.harness]

Prior(r) ==
  IF Yields(r) THEN Displaced
  ELSE IF Blocker /\ r.source = win.claim.source /\ r.state = win.state THEN win.claim.prior
  ELSE None

(* A weaker source is refused unless it sees a blocker on a stale claim;   *)
(* looks is what becomes of the looks under way.                           *)
ApplyAgentReport(r, looks) ==
  IF Yields(r) /\ ~Overrides(r)
  THEN scan' = looks /\ UNCHANGED <<win, wrote, stood, silent>>
  ELSE /\ Stamp([state |-> r.state, harness |-> Harness(r),
                 claim |-> [source |-> r.source, auto |-> Owned, prior |-> Prior(r)]])
       /\ scan' = Aged(looks)

(* The harness, its hook or a user, naming a source or none.               *)
Report ==
  /\ reports < MaxReports /\ reports' = reports + 1
  /\ \E state \in Reported, source \in Named, named \in BOOLEAN :
       /\ named => source = "report" /\ state # "none"
       /\ ApplyAgentReport([state |-> state, source |-> source, named |-> named, seen |-> FALSE], scan)
  /\ UNCHANGED <<agent, chunks, runs, Screen, Reader, armed, stall, Holds>>

-----------------------------------------------------------------------------
(* The pane.                                                               *)

AgentStarts ==
  /\ ~agent /\ runs < MaxRuns
  /\ agent' = TRUE /\ runs' = runs + 1
  /\ UNCHANGED <<chunks, reports, Stamps, Screen, Reader, armed, stall, Holds>>

AgentExits ==
  /\ agent /\ agent' = FALSE
  /\ UNCHANGED <<chunks, reports, runs, Stamps, Screen, Reader, armed, stall, Holds>>

(* What a chunk paints, and the progress it reports.  The emulator lags a  *)
(* chunk behind at most.                                                   *)
ReadOutput ==
  /\ reader = "idle" /\ chunks < MaxChunks /\ queued = None
  /\ \E paints \in IF agent THEN BOOLEAN ELSE {FALSE},
        says \in IF agent THEN Progress \cup {None} ELSE {None} :
       queued' = [prompt |-> paints, says |-> says]
  /\ chunks' = chunks + 1
  /\ wrote' = TRUE /\ silent' = FALSE
  /\ reader' = "event"
  /\ UNCHANGED <<agent, reports, runs, win, stood, prompt, parked, progress, scan, armed, stall, Holds>>

VtWriter ==
  /\ queued # None /\ queued' = None
  /\ prompt' = queued.prompt
  /\ parked' = IF queued.says = None THEN parked ELSE queued.says
  /\ UNCHANGED <<Env, Stamps, Reader, armed, stall, Holds>>

-----------------------------------------------------------------------------
(* The sink of an output event: progress, probe, look.                     *)

ReaderAt(stage) == reader' = stage

TakeProgress ==
  /\ reader = "event"
  /\ IF parked = None
     THEN ReaderAt("probe") /\ UNCHANGED progress
     ELSE ReaderAt("hold") /\ progress' = [state |-> parked, current |-> win.state]
  /\ parked' = None
  /\ UNCHANGED <<Env, Stamps, prompt, queued, armed, stall, Holds>>

Recorded(state) ==
  /\ hold' = [state |-> state, due |-> FALSE]
  /\ timer' = TRUE

Waits(state) == hold # None /\ hold.state = state

Quieter == Loudness(progress.state) < Loudness(progress.current)

(* A state no quieter than the one found is applied; a quieter one waits,  *)
(* and is applied when it comes again after its window.                    *)
HoldQuieterState ==
  /\ reader = "hold"
  /\ \/ /\ progress.state = progress.current
        /\ ReaderAt("probe") /\ hold' = None /\ UNCHANGED timer
     \/ /\ progress.state # progress.current /\ ~Quieter
        /\ ReaderAt("apply") /\ hold' = None /\ UNCHANGED timer
     \/ /\ Quieter /\ ~Waits(progress.state)
        /\ ReaderAt("probe") /\ Recorded(progress.state)
     \/ /\ Quieter /\ Waits(progress.state)
        /\ IF hold.due THEN ReaderAt("apply") /\ hold' = None ELSE ReaderAt("probe") /\ UNCHANGED hold
        /\ UNCHANGED timer
  /\ UNCHANGED <<Env, Stamps, Screen, progress, armed, stall, settle>>

ApplyProgress ==
  /\ reader = "apply" /\ ReaderAt("probe")
  /\ ApplyAgentReport([state |-> progress.state, source |-> "osc", named |-> FALSE, seen |-> FALSE], scan)
  /\ UNCHANGED <<Env, Screen, progress, armed, stall, Holds>>

Cleared == Stamp([state |-> "none", harness |-> FALSE, claim |-> None]) /\ scan' = Aged(scan)

(* reconcileAgentOnOutput; throttled, so any output may go without.        *)
Probe ==
  /\ reader = "probe" /\ ReaderAt("scan") /\ progress' = None
  /\ \/ UNCHANGED Stamps
     \/ Owned /\ ~agent /\ Cleared
     \/ /\ Owned /\ agent /\ win.state = "idle" /\ Rank(win.claim.source) <= Rank("detect")
        /\ Stamp([win EXCEPT !.state = "working", !.harness = TRUE, !.claim.source = "detect"])
        /\ scan' = Aged(scan)
  /\ UNCHANGED <<Env, Screen, armed, stall, Holds>>

NoLook == \A k \in Scanners : scan[k] = "none"

(* A look at the screen of a pane whose harness is named.                  *)
Seen == IF ~win.harness THEN "blind" ELSE IF ~prompt THEN "gone" ELSE IF wrote THEN "found" ELSE "stale"

Look(k) == scan[k] = "none" /\ scan' = [scan EXCEPT ![k] = Seen]

ReaderLooks ==
  /\ reader = "scan" /\ ReaderAt("looked")
  /\ \/ Look("reader") /\ ReaderAt("looked")
     \/ ReaderAt("looked") /\ UNCHANGED scan
  /\ UNCHANGED <<Env, win, wrote, stood, silent, Screen, progress, armed, stall, Holds>>

ArmScreenSettle ==
  /\ reader = "looked" /\ scan["reader"] = "none"
  /\ ReaderAt("idle") /\ armed' = TRUE
  /\ UNCHANGED <<Env, Stamps, Screen, progress, stall, Holds>>

(* The pane is quiet by then, and its emulator has caught up.              *)
SettleLooks ==
  /\ armed /\ reader = "idle" /\ queued = None /\ NoLook
  /\ armed' = FALSE
  /\ Look("settle")
  /\ UNCHANGED <<Env, win, wrote, stood, silent, Screen, Reader, stall, Holds>>

-----------------------------------------------------------------------------
(* What a look comes to.                                                   *)

Over(k) == [scan EXCEPT ![k] = "none"]

StallGoesOn(k, stage) == stall' = IF k = "stall" THEN stage ELSE stall

\* Mutant: a look that finds nothing changes nothing.
ReleaseNothing(k) ==
  /\ scan[k] \in {"gone", "blind"}
  /\ scan' = Over(k) /\ UNCHANGED <<win, wrote, stood, silent>>
  /\ StallGoesOn(k, "demote")
  /\ UNCHANGED <<Env, Screen, Reader, armed, Holds>>

(* No prompt: what a blocker displaced is given back.                      *)
Release(k) ==
  /\ scan[k] \in {"gone", "blind"}
  /\ IF scan[k] = "gone" /\ Blocker
     THEN LET p == win.claim.prior IN
          /\ Stamp([state |-> p.state, harness |-> p.harness,
                    claim |-> [source |-> p.source, auto |-> Owned, prior |-> None]])
          /\ scan' = Aged(Over(k))
     ELSE scan' = Over(k) /\ UNCHANGED <<win, wrote, stood, silent>>
  /\ StallGoesOn(k, "demote")
  /\ UNCHANGED <<Env, Screen, Reader, armed, Holds>>

(* A prompt, with when the pane last wrote, read after the screen was.  The *)
(* shipped rules say nothing but needs_input.                              *)
ReportPrompt(k) ==
  /\ scan[k] \in {"found", "stale"}
  /\ \E seen \in {scan[k] = "found", wrote} :
       ApplyAgentReport([state |-> "needs_input", source |-> "screen", named |-> TRUE, seen |-> seen], Over(k))
  /\ StallGoesOn(k, "off")
  /\ UNCHANGED <<Env, Screen, Reader, armed, Holds>>

-----------------------------------------------------------------------------
(* The monitors.                                                           *)

\* Mutant: only its own mark cleared.
DetectRanked ==
  /\ \/ /\ agent /\ ~Owned /\ win.state = "none"
        /\ Stamp([state |-> "working", harness |-> TRUE,
                  claim |-> [source |-> "detect", auto |-> TRUE, prior |-> None]])
        /\ scan' = Aged(scan)
     \/ ~agent /\ Owned /\ win.claim.source = "detect" /\ Cleared
  /\ UNCHANGED <<Env, Screen, Reader, armed, stall, Holds>>

(* An agent that appears in an unmarked pane, or has left one it owns.     *)
Detect ==
  /\ \/ /\ agent /\ ~Owned /\ win.state = "none"
        /\ Stamp([state |-> "working", harness |-> TRUE,
                  claim |-> [source |-> "detect", auto |-> TRUE, prior |-> None]])
        /\ scan' = Aged(scan)
     \/ ~agent /\ Owned /\ Cleared
  /\ UNCHANGED <<Env, Screen, Reader, armed, stall, Holds>>

Stalled == win.state = "working" /\ silent

\* Mutant: the clock alone.
StallTickBlind ==
  /\ stall = "off" /\ Stalled
  /\ stall' = "demote" /\ UNCHANGED scan
  /\ UNCHANGED <<Env, win, wrote, stood, silent, Screen, Reader, armed, Holds>>

(* A stalled pane is looked at before it is called idle.                   *)
StallTick ==
  /\ stall = "off" /\ Stalled
  /\ stall' = "looking" /\ Look("stall")
  /\ UNCHANGED <<Env, win, wrote, stood, silent, Screen, Reader, armed, Holds>>

Demote ==
  /\ stall = "demote" /\ stall' = "off"
  /\ IF Stalled
     THEN /\ Stamp([win EXCEPT !.state = "idle",
                               !.claim = [source |-> "stall", auto |-> Owned,
                                          prior |-> IF Held THEN win.claim.prior ELSE None]])
          /\ scan' = Aged(scan)
     ELSE UNCHANGED Stamps
  /\ UNCHANGED <<Env, Screen, Reader, armed, Holds>>

-----------------------------------------------------------------------------
(* The timer of a held state.                                              *)

\* Mutant: not armed anew.
FireOnce ==
  /\ timer /\ settle = "off" /\ timer' = FALSE
  /\ IF hold # None /\ hold.due
     THEN settle' = hold.state /\ hold' = None
     ELSE UNCHANGED <<settle, hold>>
  /\ UNCHANGED <<Env, Stamps, Screen, Reader, armed, stall>>

(* It leaves its field, takes out a state that is due and arms anew for    *)
(* one that is not.                                                        *)
Fire ==
  /\ timer /\ settle = "off"
  /\ IF hold # None /\ hold.due
     THEN settle' = hold.state /\ hold' = None /\ timer' = FALSE
     ELSE timer' = (hold # None) /\ UNCHANGED <<settle, hold>>
  /\ UNCHANGED <<Env, Stamps, Screen, Reader, armed, stall>>

(* Applied after the lock was dropped.                                     *)
PublishHeld ==
  /\ settle # "off" /\ settle' = "off"
  /\ ApplyAgentReport([state |-> settle, source |-> "osc", named |-> FALSE, seen |-> FALSE], scan)
  /\ timer' = (timer \/ hold # None)
  /\ UNCHANGED <<Env, Screen, Reader, armed, stall, hold>>

-----------------------------------------------------------------------------
(* Time passes.                                                            *)

HoldDue ==
  /\ hold # None /\ ~hold.due
  /\ hold' = [hold EXCEPT !.due = TRUE]
  /\ UNCHANGED <<Env, Stamps, Screen, Reader, armed, stall, timer, settle>>

Stand ==
  /\ Held /\ Rank(win.claim.source) > Rank("screen")
  /\ ~stood /\ NoLook
  /\ stood' = TRUE
  /\ UNCHANGED <<Env, win, wrote, silent, scan, Screen, Reader, armed, stall, Holds>>

Quiet == reader = "idle" /\ queued = None /\ ~armed /\ stall = "off" /\ NoLook

Silence ==
  /\ Quiet /\ win.state = "working" /\ ~silent
  /\ silent' = TRUE
  /\ UNCHANGED <<Env, win, wrote, stood, scan, Screen, Reader, armed, stall, Holds>>

-----------------------------------------------------------------------------
ReaderStep == TakeProgress \/ HoldQuieterState \/ ApplyProgress \/ Probe \/ ReaderLooks \/ ArmScreenSettle
ScanStep(k) == Release(k) \/ ReportPrompt(k)
TimerStep   == Fire \/ PublishHeld
Elapse      == HoldDue \/ Stand \/ Silence

Next ==
  \/ AgentStarts \/ AgentExits \/ ReadOutput \/ VtWriter \/ Report
  \/ ReaderStep \/ SettleLooks \/ \E k \in Scanners : ScanStep(k)
  \/ Detect \/ StallTick \/ Demote
  \/ TimerStep \/ Elapse

(* Threads run, timers fire and time passes.  Agents, callers and output   *)
(* owe nothing.                                                            *)
Fairness ==
  /\ WF_vars(VtWriter) /\ WF_vars(ReaderStep) /\ SF_vars(SettleLooks)
  /\ \A k \in Scanners : WF_vars(ScanStep(k))
  /\ WF_vars(Detect) /\ SF_vars(StallTick) /\ WF_vars(Demote)
  /\ WF_vars(TimerStep)
  /\ WF_vars(HoldDue) /\ SF_vars(Stand) /\ SF_vars(Silence)

Spec     == Init /\ [][Next]_vars
FairSpec == Spec /\ Fairness

-----------------------------------------------------------------------------
PriorClaim == [source : Sources, state : States, harness : BOOLEAN]

(* Every variable keeps its type; a held state wants no human, and has its *)
(* timer armed or about to be.                                             *)
TypeOK ==
  /\ agent \in BOOLEAN /\ chunks \in 0..MaxChunks /\ reports \in 0..MaxReports /\ runs \in 0..MaxRuns
  /\ win.state \in States /\ win.harness \in BOOLEAN
  /\ Held => win.claim \in [source : Sources, auto : BOOLEAN, prior : PriorClaim \cup {None}]
  /\ {wrote, stood, silent, prompt, armed, timer} \subseteq BOOLEAN
  /\ queued = None \/ queued \in [prompt : BOOLEAN, says : States \cup {None}]
  /\ parked \in States \cup {None}
  /\ reader \in {"idle", "event", "hold", "apply", "probe", "scan", "looked"}
  /\ progress = None \/ progress \in [state : States, current : States]
  /\ scan \in [Scanners -> {"none", "blind", "gone", "found", "stale"}]
  /\ stall \in {"off", "looking", "demote"}
  /\ hold = None \/ hold \in [state : {"working", "idle"}, due : BOOLEAN]
  /\ settle \in {"off", "working", "idle"}
  /\ hold # None => timer \/ settle # "off"

(* A blocker taken on loan can be given back: it is the screen's, on a     *)
(* pane whose harness is named so that looks go on, it says needs_input,   *)
(* and what it displaced outranked it and said something else.             *)
LoanIsWhole ==
  Blocker => LET p == win.claim.prior IN
    /\ win.state = "needs_input" /\ win.claim.source = "screen" /\ win.harness
    /\ Rank(p.source) > Rank("screen") /\ p.state # "needs_input"

(* The stall monitor never calls a pane idle that shows a prompt its       *)
(* harness has a rule for, whatever came between its look and its write.   *)
NoIdleOverPrompt ==
  [][Held' /\ win'.claim.source = "stall" /\ win'.state = "idle" /\ win.state = "working"
       => ~(prompt /\ win.harness)]_vars

(* A blocker is given back once its prompt is gone from the screen.        *)
LoanReturned == (Blocker /\ ~prompt) ~> (~Blocker \/ prompt)

(* A prompt painted over a working pane is reported, by the look after the *)
(* pane went quiet or, when the claim was too fresh then, by the stall     *)
(* monitor's; unless it goes or the state is set anew.                     *)
BlockerSeen ==
  (win.state = "working" /\ win.harness /\ prompt /\ wrote)
    ~> (win.state = "needs_input" \/ ~win.harness \/ ~prompt \/ ~wrote)

(* A held state is published or dropped: its timer is never left unarmed.  *)
HoldsSettle == hold # None ~> hold = None

(* A pane the detector marked is cleared when its agent is gone, whoever   *)
(* set its state in between.                                               *)
AgentLeaves == (Owned /\ ~agent) ~> (~Owned \/ agent)

-----------------------------------------------------------------------------
(* What the source says, and does not do.                                  *)

(* agent_hold.go:166, a hold is not left behind to be published later: one *)
(* outlives the detector's clearing of its pane and marks a pane without   *)
(* an agent idle, which nothing clears.                                    *)
ClearedStaysCleared == [][settle # "off" /\ settle' = "off" /\ ~Held /\ Held' => agent]_vars

(* daemon.go:278, progress the emulator parked "while writing these same   *)
(* bytes": the event of a chunk is raised before the emulator has it, and  *)
(* progress in the last chunk waits for another.                           *)
ProgressHeard == parked # None ~> parked = None

(* agent_hold.go:46, "the reversal finds the hold and cancels it": one     *)
(* that reads the state before the hold is swept and looks for the hold    *)
(* after finds neither, and the pane stays idle while it works.            *)
ReversalCancels ==
  [][reader = "hold" /\ reader' = "probe" /\ progress.state = "working" /\ win.state = "working"
       => settle # "idle"]_vars
=============================================================================
