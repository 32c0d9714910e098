-------------------------- MODULE AgentStateProofs --------------------------
(***************************************************************************)
(* Proofs about AgentState, for any progress, reports and bounds.          *)
(*                                                                         *)
(* The argument: only the screen takes a state on loan, and what takes the *)
(* state over carries the loan on or has none (LoanIsWhole, with the shape *)
(* of the claim, WinOK).  What the stall monitor saw stays so for as long  *)
(* as the pane is stalled: what would change the prompt or the harness     *)
(* ends the silence first (Looked).                                        *)
(***************************************************************************)
EXTENDS AgentState, TLAPS

Claims == [source : Sources, auto : BOOLEAN, prior : PriorClaim \cup {None}]
Looks  == [Scanners -> {"none", "blind", "gone", "found", "stale"}]

(* TypeOK in parts.  Progress on its way is what the pane may report.      *)
CountsOK == /\ agent \in BOOLEAN /\ chunks \in 0..MaxChunks
            /\ reports \in 0..MaxReports /\ runs \in 0..MaxRuns

WinOK == win \in [state : States, harness : BOOLEAN, claim : Claims \cup {None}]

FactsOK == /\ wrote \in BOOLEAN /\ stood \in BOOLEAN /\ silent \in BOOLEAN
           /\ prompt \in BOOLEAN /\ armed \in BOOLEAN

ThreadsOK ==
  /\ scan \in Looks /\ stall \in {"off", "looking", "demote"}
  /\ reader \in {"idle", "event", "hold", "apply", "probe", "scan", "looked"}

ProgressOK ==
  /\ queued = None \/ queued \in [prompt : BOOLEAN, says : Progress \cup {None}]
  /\ parked \in Progress \cup {None}
  /\ progress = None \/ progress \in [state : Progress, current : States]
  /\ reader \in {"hold", "apply"} => progress \in [state : Progress, current : States]

HoldOK ==
  /\ hold = None \/ hold \in [state : {"working", "idle"}, due : BOOLEAN]
  /\ timer \in BOOLEAN /\ settle \in {"off", "working", "idle"}
  /\ hold # None => timer \/ settle # "off"

Looked ==
  /\ silent => queued = None
  /\ scan["stall"] # "none" <=> stall = "looking"
  /\ silent /\ scan["stall"] = "gone" => ~prompt
  /\ silent /\ scan["stall"] = "blind" => ~win.harness
  /\ silent /\ stall = "demote" => ~(prompt /\ win.harness)

IInv == /\ CountsOK /\ WinOK /\ FactsOK /\ ThreadsOK /\ ProgressOK /\ HoldOK
        /\ LoanIsWhole /\ Looked

-----------------------------------------------------------------------------
LEMMA InitHolds == Init => IInv
<1> SUFFICES ASSUME Init PROVE IInv
  OBVIOUS
<1>1. ~Held /\ ~Owned /\ ~Blocker
  BY DEF Init, Held, Owned, Blocker
<1>2. CountsOK
  <2>1. 0 \in 0..MaxChunks /\ 0 \in 0..MaxReports /\ 0 \in 0..MaxRuns
    BY AgentStateAssumption
  <2> QED
    BY <2>1 DEF Init, CountsOK
<1>3. ProgressOK /\ LoanIsWhole /\ Looked
  BY <1>1 DEF Init, ProgressOK, LoanIsWhole, Looked, Scanners
<1>4. FactsOK /\ HoldOK
  BY DEF Init, FactsOK, HoldOK
<1>5. ThreadsOK
  BY DEF Init, ThreadsOK, Looks, Scanners
<1>6. WinOK
  BY DEF Init, WinOK, States
<1> QED
  BY <1>2, <1>3, <1>4, <1>5, <1>6 DEF IInv

LEMMA WinTyped ==
  ASSUME WinOK
  PROVE  /\ win.state \in States /\ win.harness \in BOOLEAN
         /\ Held => win.claim \in Claims
         /\ Owned \in BOOLEAN
         /\ Blocker => win.claim \in Claims /\ win.claim.prior \in PriorClaim
  BY DEF WinOK, Held, Owned, Blocker, Claims

LEMMA AgedTyped ==
  ASSUME NEW looks \in Looks
  PROVE  /\ Aged(looks) \in Looks
         /\ \A k \in Scanners : Aged(looks)[k] = "none" <=> looks[k] = "none"
  BY DEF Aged, Looks

Requested == [state : States, source : Sources, named : BOOLEAN, seen : BOOLEAN]

LEMMA Applied ==
  ASSUME IInv, NEW r \in Requested, NEW looks \in Looks, ApplyAgentReport(r, looks),
         r.source = "screen" /\ r.seen => r.named
  PROVE  /\ WinOK' /\ LoanIsWhole'
         /\ scan' \in Looks /\ wrote' \in BOOLEAN /\ stood' \in BOOLEAN /\ silent' \in BOOLEAN
         /\ \A k \in Scanners : scan'[k] = "none" <=> looks[k] = "none"
         /\ silent' => silent /\ win' = win /\ scan' = looks
<1>1. CASE Yields(r) /\ ~Overrides(r)
  BY <1>1 DEF IInv, ApplyAgentReport, FactsOK, WinOK, LoanIsWhole, Held, Blocker, Rank
<1>2. CASE ~(Yields(r) /\ ~Overrides(r))
  <2> DEFINE c == [source |-> r.source, auto |-> Owned, prior |-> Prior(r)]
             w == [state |-> r.state, harness |-> Harness(r), claim |-> c]
  <2>1. Stamp(w) /\ scan' = Aged(looks)
    BY <1>2 DEF ApplyAgentReport
  <2>2. Harness(r) \in BOOLEAN
    BY WinTyped DEF IInv, Harness, Requested
  <2>3. Prior(r) \in PriorClaim \cup {None}
    BY WinTyped DEF IInv, Prior, Displaced, Yields, Held, Claims, PriorClaim
  <2>4. w \in [state : States, harness : BOOLEAN, claim : Claims \cup {None}]
    <3>1. c \in Claims
      BY <2>3, WinTyped DEF Claims, Requested, IInv
    <3> QED
      BY <2>2, <3>1 DEF Requested
  <2>5. ASSUME Prior(r) # None
        PROVE  /\ r.state = "needs_input" /\ r.source = "screen" /\ Harness(r)
               /\ Rank(Prior(r).source) > Rank("screen") /\ Prior(r).state # "needs_input"
    <3>1. CASE Yields(r)
      <4>1. Overrides(r) /\ Prior(r) = Displaced
        BY <1>2, <3>1 DEF Prior
      <4>2. /\ r.source = "screen" /\ r.state = "needs_input" /\ win.state # "needs_input"
            /\ r.seen /\ r.named
        BY <4>1 DEF Overrides
      <4> QED
        BY <3>1, <4>1, <4>2, WinTyped DEF Yields, Displaced, Harness, Rank, IInv, Claims, Sources
    <3>2. CASE ~Yields(r)
      <4>1. Blocker /\ r.source = win.claim.source /\ r.state = win.state /\ Prior(r) = win.claim.prior
        BY <2>5, <3>2 DEF Prior
      <4> QED
        BY <4>1, WinTyped DEF IInv, LoanIsWhole, Harness
    <3> QED
      BY <3>1, <3>2
  <2>6. LoanIsWhole'
    <3>1. win' = w
      BY <2>1 DEF Stamp
    <3>2. win'.claim.prior = Prior(r) /\ win'.claim.source = r.source /\ win'.state = r.state
          /\ win'.harness = Harness(r)
      BY <3>1
    <3> QED
      BY <2>5, <3>2 DEF LoanIsWhole, Blocker
  <2>7. WinOK'
    BY <2>1, <2>4 DEF WinOK, Stamp
  <2> QED
    BY <2>1, <2>6, <2>7, AgedTyped DEF Stamp
<1> QED
  BY <1>1, <1>2

-----------------------------------------------------------------------------
LEMMA AgentStartsKeeps ==
  ASSUME IInv, AgentStarts
  PROVE  IInv'
<1> USE AgentStateAssumption DEF IInv, AgentStarts, Env, Stamps, Screen, Reader, Holds
<1>1. WinOK' /\ FactsOK' /\ ThreadsOK' /\ ProgressOK' /\ HoldOK' /\ LoanIsWhole' /\ Looked'
  BY DEF WinOK, FactsOK, ThreadsOK, ProgressOK, HoldOK, LoanIsWhole, Blocker, Held, Looked
<1>2. CountsOK'
  BY DEF CountsOK
<1> QED
  BY <1>1, <1>2

LEMMA AgentExitsKeeps ==
  ASSUME IInv, AgentExits
  PROVE  IInv'
<1> USE AgentStateAssumption DEF IInv, AgentExits, Env, Stamps, Screen, Reader, Holds
<1>1. WinOK' /\ FactsOK' /\ ThreadsOK' /\ ProgressOK' /\ HoldOK' /\ LoanIsWhole' /\ Looked'
  BY DEF WinOK, FactsOK, ThreadsOK, ProgressOK, HoldOK, LoanIsWhole, Blocker, Held, Looked
<1>2. CountsOK'
  BY DEF CountsOK
<1> QED
  BY <1>1, <1>2

LEMMA ReadOutputKeeps ==
  ASSUME IInv, ReadOutput
  PROVE  IInv'
<1> USE AgentStateAssumption DEF IInv, ReadOutput, Env, Stamps, Screen, Reader, Holds
<1>1. WinOK' /\ HoldOK' /\ LoanIsWhole'
  BY DEF WinOK, HoldOK, LoanIsWhole, Blocker, Held
<1>2. CountsOK'
  BY DEF CountsOK
<1>3. FactsOK'
  BY DEF FactsOK, ProgressOK
<1>4. ThreadsOK'
  BY DEF ThreadsOK, Looks, Scanners
<1>5. ProgressOK'
  <2>1. PICK paints \in BOOLEAN, says \in Progress \cup {None} :
          queued' = [prompt |-> paints, says |-> says]
    OBVIOUS
  <2> QED
    BY <2>1 DEF ProgressOK, ThreadsOK
<1>6. Looked'
  BY DEF Looked, ThreadsOK, FactsOK, WinOK, Looks, Scanners
<1> QED
  BY <1>1, <1>2, <1>3, <1>4, <1>5, <1>6

LEMMA VtWriterKeeps ==
  ASSUME IInv, VtWriter
  PROVE  IInv'
<1> USE AgentStateAssumption DEF IInv, VtWriter, Env, Stamps, Screen, Reader, Holds
<1>1. CountsOK' /\ WinOK' /\ ThreadsOK' /\ HoldOK' /\ LoanIsWhole'
  BY DEF CountsOK, WinOK, ThreadsOK, HoldOK, LoanIsWhole, Blocker, Held
<1>2. FactsOK'
  BY DEF FactsOK, ProgressOK
<1>3. ProgressOK'
  BY DEF ProgressOK, ThreadsOK, WinOK
<1>4. Looked'
  BY DEF Looked, ThreadsOK, FactsOK, WinOK, Looks, Scanners
<1> QED
  BY <1>1, <1>2, <1>3, <1>4

LEMMA TakeProgressKeeps ==
  ASSUME IInv, TakeProgress
  PROVE  IInv'
<1> USE AgentStateAssumption DEF IInv, TakeProgress, ReaderAt, Env, Stamps, Screen, Reader, Holds
<1>1. CountsOK' /\ WinOK' /\ FactsOK' /\ HoldOK' /\ LoanIsWhole' /\ Looked'
  BY DEF CountsOK, WinOK, FactsOK, HoldOK, LoanIsWhole, Blocker, Held, Looked
<1>2. ThreadsOK'
  BY DEF ThreadsOK, Looks, Scanners
<1>3. ProgressOK'
  BY DEF ProgressOK, ThreadsOK, WinOK
<1> QED
  BY <1>1, <1>2, <1>3

LEMMA HoldQuieterStateKeeps ==
  ASSUME IInv, HoldQuieterState
  PROVE  IInv'
<1> USE AgentStateAssumption DEF IInv, HoldQuieterState, ReaderAt, Recorded, Waits, Quieter,
        Loudness, Env, Stamps, Screen, Reader, Holds
<1>1. CountsOK' /\ WinOK' /\ FactsOK' /\ LoanIsWhole' /\ Looked'
  BY DEF CountsOK, WinOK, FactsOK, LoanIsWhole, Blocker, Held, Looked
<1>2. ThreadsOK'
  BY DEF ThreadsOK, Looks, Scanners
<1>3. ProgressOK'
  BY DEF ProgressOK, ThreadsOK, WinOK
<1>4. HoldOK'
  <2>1. progress.state \in {"working", "needs_input", "idle"} /\ progress.current \in States
    BY DEF ProgressOK
  <2>2. ASSUME Quieter PROVE progress.state \in {"working", "idle"}
    BY <2>1, <2>2 DEF States
  <2>3. CASE Recorded(progress.state) /\ Quieter
    BY <2>2, <2>3 DEF HoldOK
  <2>4. CASE hold' = None /\ timer' = timer
    BY <2>4 DEF HoldOK
  <2>5. CASE hold' = hold /\ timer' = timer
    BY <2>5 DEF HoldOK
  <2> QED
    BY <2>3, <2>4, <2>5
<1> QED
  BY <1>1, <1>2, <1>3, <1>4

LEMMA ReaderLooksKeeps ==
  ASSUME IInv, ReaderLooks
  PROVE  IInv'
<1> USE AgentStateAssumption DEF IInv, ReaderLooks, ReaderAt, Look, Seen, Env, Stamps, Screen,
        Reader, Holds
<1>1. CountsOK' /\ WinOK' /\ FactsOK' /\ HoldOK' /\ LoanIsWhole'
  BY DEF CountsOK, WinOK, FactsOK, HoldOK, LoanIsWhole, Blocker, Held
<1>2. ThreadsOK'
  BY DEF ThreadsOK, Looks, Scanners
<1>3. ProgressOK'
  BY DEF ProgressOK, ThreadsOK, WinOK
<1>4. Looked'
  BY DEF Looked, ThreadsOK, FactsOK, WinOK, Looks, Scanners
<1> QED
  BY <1>1, <1>2, <1>3, <1>4

LEMMA ArmScreenSettleKeeps ==
  ASSUME IInv, ArmScreenSettle
  PROVE  IInv'
<1> USE AgentStateAssumption DEF IInv, ArmScreenSettle, ReaderAt, Env, Stamps, Screen, Reader,
        Holds
<1>1. CountsOK' /\ WinOK' /\ HoldOK' /\ LoanIsWhole' /\ Looked'
  BY DEF CountsOK, WinOK, HoldOK, LoanIsWhole, Blocker, Held, Looked
<1>2. FactsOK'
  BY DEF FactsOK, ProgressOK
<1>3. ThreadsOK'
  BY DEF ThreadsOK, Looks, Scanners
<1>4. ProgressOK'
  BY DEF ProgressOK, ThreadsOK, WinOK
<1> QED
  BY <1>1, <1>2, <1>3, <1>4

LEMMA SettleLooksKeeps ==
  ASSUME IInv, SettleLooks
  PROVE  IInv'
<1> USE AgentStateAssumption DEF IInv, SettleLooks, Look, Seen, NoLook, Env, Stamps, Screen,
        Reader, Holds
<1>1. CountsOK' /\ WinOK' /\ ProgressOK' /\ HoldOK' /\ LoanIsWhole'
  BY DEF CountsOK, WinOK, ProgressOK, HoldOK, LoanIsWhole, Blocker, Held
<1>2. FactsOK'
  BY DEF FactsOK, ProgressOK
<1>3. ThreadsOK'
  BY DEF ThreadsOK, Looks, Scanners
<1>4. Looked'
  BY DEF Looked, ThreadsOK, FactsOK, WinOK, Looks, Scanners
<1> QED
  BY <1>1, <1>2, <1>3, <1>4

LEMMA StallTickKeeps ==
  ASSUME IInv, StallTick
  PROVE  IInv'
<1> USE AgentStateAssumption DEF IInv, StallTick, Stalled, Look, Seen, Env, Stamps, Screen,
        Reader, Holds
<1>1. CountsOK' /\ WinOK' /\ FactsOK' /\ ProgressOK' /\ HoldOK' /\ LoanIsWhole'
  BY DEF CountsOK, WinOK, FactsOK, ProgressOK, HoldOK, LoanIsWhole, Blocker, Held
<1>2. ThreadsOK'
  BY DEF ThreadsOK, Looks, Scanners
<1>3. Looked'
  BY DEF Looked, ThreadsOK, FactsOK, WinOK, Looks, Scanners
<1> QED
  BY <1>1, <1>2, <1>3

LEMMA FireKeeps ==
  ASSUME IInv, Fire
  PROVE  IInv'
<1> USE AgentStateAssumption DEF IInv, Fire, Env, Stamps, Screen, Reader, Holds
<1>1. CountsOK' /\ WinOK' /\ FactsOK' /\ ThreadsOK' /\ ProgressOK' /\ LoanIsWhole'
      /\ Looked'
  BY DEF CountsOK, WinOK, FactsOK, ThreadsOK, ProgressOK, LoanIsWhole, Blocker, Held, Looked
<1>2. HoldOK'
  BY DEF HoldOK, ProgressOK, WinOK, States
<1> QED
  BY <1>1, <1>2

LEMMA HoldDueKeeps ==
  ASSUME IInv, HoldDue
  PROVE  IInv'
<1> USE AgentStateAssumption DEF IInv, HoldDue, Env, Stamps, Screen, Reader, Holds
<1>1. CountsOK' /\ WinOK' /\ FactsOK' /\ ThreadsOK' /\ ProgressOK' /\ LoanIsWhole'
      /\ Looked'
  BY DEF CountsOK, WinOK, FactsOK, ThreadsOK, ProgressOK, LoanIsWhole, Blocker, Held, Looked
<1>2. HoldOK'
  BY DEF HoldOK, ProgressOK, WinOK, States
<1> QED
  BY <1>1, <1>2

LEMMA StandKeeps ==
  ASSUME IInv, Stand
  PROVE  IInv'
<1> USE AgentStateAssumption DEF IInv, Stand, Env, Stamps, Screen, Reader, Holds
<1>1. CountsOK' /\ WinOK' /\ ThreadsOK' /\ ProgressOK' /\ HoldOK' /\ LoanIsWhole'
      /\ Looked'
  BY DEF CountsOK, WinOK, ThreadsOK, ProgressOK, HoldOK, LoanIsWhole, Blocker, Held, Looked
<1>2. FactsOK'
  BY DEF FactsOK, ProgressOK
<1> QED
  BY <1>1, <1>2

LEMMA SilenceKeeps ==
  ASSUME IInv, Silence
  PROVE  IInv'
<1> USE AgentStateAssumption DEF IInv, Silence, Quiet, NoLook, Env, Stamps, Screen, Reader, Holds
<1>1. CountsOK' /\ WinOK' /\ ThreadsOK' /\ ProgressOK' /\ HoldOK' /\ LoanIsWhole'
  BY DEF CountsOK, WinOK, ThreadsOK, ProgressOK, HoldOK, LoanIsWhole, Blocker, Held
<1>2. FactsOK'
  BY DEF FactsOK, ProgressOK
<1>3. Looked'
  BY DEF Looked, ThreadsOK, FactsOK, WinOK, Looks, Scanners
<1> QED
  BY <1>1, <1>2, <1>3

-----------------------------------------------------------------------------
(* The steps that may set the state.                                       *)
LEMMA StateSet ==
  ASSUME IInv, NEW r \in Requested, NEW looks \in Looks, ApplyAgentReport(r, looks),
         r.source = "screen" /\ r.seen => r.named,
         prompt' = prompt, armed' = armed, queued' = queued,
         \/ looks["stall"] = scan["stall"] /\ stall' = stall
         \/ looks["stall"] = "none" /\ stall' = "off"
  PROVE  WinOK' /\ FactsOK' /\ scan' \in Looks /\ LoanIsWhole' /\ Looked'
<1>1. /\ WinOK' /\ LoanIsWhole' /\ scan' \in Looks
      /\ wrote' \in BOOLEAN /\ stood' \in BOOLEAN /\ silent' \in BOOLEAN
      /\ \A k \in Scanners : scan'[k] = "none" <=> looks[k] = "none"
      /\ silent' => silent /\ win' = win /\ scan' = looks
  BY Applied
<1>2. FactsOK'
  BY <1>1 DEF IInv, FactsOK
<1>3. Looked'
  BY <1>1 DEF IInv, Looked, Scanners
<1> QED
  BY <1>1, <1>2, <1>3

LEMMA Marked ==
  ASSUME IInv, NEW w \in [state : States, harness : BOOLEAN, claim : Claims \cup {None}],
         Stamp(w), w.claim = None \/ w.claim.prior = None, scan' = Aged(scan),
         prompt' = prompt, armed' = armed, queued' = queued, stall' \in {stall, "off"},
         stall = "looking" => stall' = stall
  PROVE  WinOK' /\ FactsOK' /\ scan' \in Looks /\ LoanIsWhole' /\ Looked'
<1>1. scan' \in Looks /\ \A k \in Scanners : scan'[k] = "none" <=> scan[k] = "none"
  BY AgedTyped DEF IInv, ThreadsOK
<1>2. WinOK' /\ ~Blocker'
  BY DEF Stamp, WinOK, Blocker, Held
<1>3. FactsOK' /\ ~silent'
  BY DEF Stamp, IInv, FactsOK
<1>4. LoanIsWhole' /\ Looked'
  BY <1>1, <1>2, <1>3 DEF LoanIsWhole, Looked, IInv, Scanners
<1> QED
  BY <1>1, <1>2, <1>3, <1>4

LEMMA ReportKeeps ==
  ASSUME IInv, Report
  PROVE  IInv'
<1> USE AgentStateAssumption DEF IInv, Report, Env, Screen, Reader, Holds
<1>1. PICK state \in Reported, source \in Named, named \in BOOLEAN :
         /\ named => source = "report" /\ state # "none"
         /\ ApplyAgentReport([state |-> state, source |-> source, named |-> named, seen |-> FALSE], scan)
  OBVIOUS
<1> DEFINE r == [state |-> state, source |-> source, named |-> named, seen |-> FALSE]
<1>2. r \in Requested /\ scan \in Looks
  BY DEF Requested, States, Sources, ThreadsOK
<1>3. WinOK' /\ FactsOK' /\ scan' \in Looks /\ LoanIsWhole' /\ Looked'
  BY <1>1, <1>2, StateSet
<1>4. CountsOK' /\ ThreadsOK' /\ ProgressOK' /\ HoldOK'
  BY <1>3 DEF CountsOK, ThreadsOK, ProgressOK, HoldOK
<1> QED
  BY <1>3, <1>4

LEMMA ApplyProgressKeeps ==
  ASSUME IInv, ApplyProgress
  PROVE  IInv'
<1> USE AgentStateAssumption DEF IInv, ApplyProgress, ReaderAt, Env, Screen, Holds
<1> DEFINE r == [state |-> progress.state, source |-> "osc", named |-> FALSE, seen |-> FALSE]
<1>1. r \in Requested /\ scan \in Looks
  BY DEF Requested, States, Sources, ThreadsOK, ProgressOK
<1>2. WinOK' /\ FactsOK' /\ scan' \in Looks /\ LoanIsWhole' /\ Looked'
  BY <1>1, StateSet
<1>3. CountsOK' /\ ThreadsOK' /\ ProgressOK' /\ HoldOK'
  BY <1>2 DEF CountsOK, ThreadsOK, ProgressOK, HoldOK
<1> QED
  BY <1>2, <1>3

LEMMA PublishHeldKeeps ==
  ASSUME IInv, PublishHeld
  PROVE  IInv'
<1> USE DEF IInv, PublishHeld, Env, Screen, Reader
<1> DEFINE r == [state |-> settle, source |-> "osc", named |-> FALSE, seen |-> FALSE]
<1>1. r \in Requested /\ scan \in Looks
  BY DEF Requested, States, Sources, ThreadsOK, HoldOK
<1>2. WinOK' /\ FactsOK' /\ scan' \in Looks /\ LoanIsWhole' /\ Looked'
  BY <1>1, StateSet
<1>3. CountsOK' /\ ThreadsOK' /\ ProgressOK'
  BY <1>2 DEF CountsOK, ThreadsOK, ProgressOK
<1>4. HoldOK'
  BY DEF HoldOK
<1> QED
  BY <1>2, <1>3, <1>4

LEMMA ReportPromptKeeps ==
  ASSUME IInv, NEW k \in Scanners, ReportPrompt(k)
  PROVE  IInv'
<1> USE DEF IInv, ReportPrompt, StallGoesOn, Env, Screen, Reader, Holds
<1>1. PICK seen \in {scan[k] = "found", wrote} :
         ApplyAgentReport([state |-> "needs_input", source |-> "screen", named |-> TRUE, seen |-> seen],
                          Over(k))
  OBVIOUS
<1> DEFINE r == [state |-> "needs_input", source |-> "screen", named |-> TRUE, seen |-> seen]
<1>2. r \in Requested /\ Over(k) \in Looks
  BY DEF Requested, States, Sources, ThreadsOK, FactsOK, Over, Looks
<1>3. \/ Over(k)["stall"] = scan["stall"] /\ stall' = stall
      \/ Over(k)["stall"] = "none" /\ stall' = "off"
  BY DEF Over, ThreadsOK, Looks, Scanners
<1>4. WinOK' /\ FactsOK' /\ scan' \in Looks /\ LoanIsWhole' /\ Looked'
  BY <1>1, <1>2, <1>3, StateSet
<1>5. CountsOK' /\ ThreadsOK' /\ ProgressOK' /\ HoldOK'
  BY <1>4 DEF CountsOK, ThreadsOK, ProgressOK, HoldOK
<1> QED
  BY <1>4, <1>5

LEMMA ReleaseKeeps ==
  ASSUME IInv, NEW k \in Scanners, Release(k)
  PROVE  IInv'
<1> USE DEF IInv, Release, StallGoesOn, Env, Screen, Reader, Holds
<1>1. /\ Over(k) \in Looks /\ Over(k)[k] = "none"
      /\ \A l \in Scanners \ {k} : Over(k)[l] = scan[l]
  BY DEF Over, ThreadsOK, Looks
<1>2. stall' = (IF k = "stall" THEN "demote" ELSE stall) /\ stall' \in {"off", "looking", "demote"}
  BY DEF ThreadsOK
<1>3. CASE scan[k] = "gone" /\ Blocker
  <2> DEFINE p == win.claim.prior
             w == [state |-> p.state, harness |-> p.harness,
                   claim |-> [source |-> p.source, auto |-> Owned, prior |-> None]]
  <2>1. Stamp(w) /\ scan' = Aged(Over(k))
    BY <1>3
  <2>2. w \in [state : States, harness : BOOLEAN, claim : Claims \cup {None}] /\ w.claim.prior = None
    BY <1>3, WinTyped DEF Claims, PriorClaim
  <2>3. scan' \in Looks /\ \A l \in Scanners : scan'[l] = "none" <=> Over(k)[l] = "none"
    BY <1>1, <2>1, AgedTyped
  <2>4. WinOK' /\ ~Blocker' /\ ~silent' /\ FactsOK'
    BY <2>1, <2>2 DEF Stamp, WinOK, Blocker, FactsOK
  <2>5. LoanIsWhole' /\ Looked'
    BY <1>1, <1>2, <2>3, <2>4 DEF LoanIsWhole, Looked, Scanners
  <2> QED
    BY <1>2, <2>3, <2>4, <2>5 DEF CountsOK, ThreadsOK, ProgressOK, HoldOK
<1>4. CASE ~(scan[k] = "gone" /\ Blocker)
  <2>1. scan' = Over(k) /\ UNCHANGED <<win, wrote, stood, silent>>
    BY <1>4
  <2>2. WinOK' /\ FactsOK' /\ LoanIsWhole'
    BY <2>1 DEF WinOK, FactsOK, LoanIsWhole, Blocker, Held
  <2>3. Looked'
    BY <1>1, <1>2, <2>1 DEF Looked, Scanners, FactsOK, WinOK
  <2> QED
    BY <1>1, <1>2, <2>1, <2>2, <2>3 DEF CountsOK, ThreadsOK, ProgressOK, HoldOK
<1> QED
  BY <1>3, <1>4

(* Nothing is left of the state.                                           *)
LEMMA ClearedKeeps ==
  ASSUME IInv, Cleared, prompt' = prompt, armed' = armed, queued' = queued, stall' = stall
  PROVE  WinOK' /\ FactsOK' /\ scan' \in Looks /\ LoanIsWhole' /\ Looked'
<1>1. [state |-> "none", harness |-> FALSE, claim |-> None]
        \in [state : States, harness : BOOLEAN, claim : Claims \cup {None}]
  BY DEF States
<1> QED
  BY <1>1, Marked DEF Cleared

LEMMA ProbeKeeps ==
  ASSUME IInv, Probe
  PROVE  IInv'
<1> USE DEF IInv, Probe, ReaderAt, Env, Screen, Holds
<1>1. WinOK' /\ FactsOK' /\ scan' \in Looks /\ LoanIsWhole' /\ Looked'
  <2>1. CASE UNCHANGED Stamps
    BY <2>1 DEF Stamps, WinOK, FactsOK, ThreadsOK, LoanIsWhole, Blocker, Held, Looked
  <2>2. CASE Cleared
    BY <2>2, ClearedKeeps
  <2>3. CASE /\ Owned /\ agent /\ win.state = "idle" /\ Rank(win.claim.source) <= Rank("detect")
             /\ Stamp([win EXCEPT !.state = "working", !.harness = TRUE, !.claim.source = "detect"])
             /\ scan' = Aged(scan)
    <3> DEFINE w == [win EXCEPT !.state = "working", !.harness = TRUE, !.claim.source = "detect"]
    <3>1. Held /\ ~Blocker /\ win.claim \in Claims /\ win.claim.prior = None
      BY <2>3, WinTyped DEF LoanIsWhole, Owned, Blocker
    <3>2. w.claim = [win.claim EXCEPT !.source = "detect"] /\ w.claim \in Claims /\ w.claim.prior = None
      BY <3>1 DEF WinOK, Claims, Sources
    <3>3. w \in [state : States, harness : BOOLEAN, claim : Claims \cup {None}]
      BY <3>2 DEF WinOK, States
    <3> QED
      BY <2>3, <3>2, <3>3, Marked
  <2> QED
    BY <2>1, <2>2, <2>3
<1>2. CountsOK' /\ ThreadsOK' /\ ProgressOK' /\ HoldOK'
  BY <1>1 DEF CountsOK, ThreadsOK, ProgressOK, HoldOK
<1> QED
  BY <1>1, <1>2

LEMMA DetectKeeps ==
  ASSUME IInv, Detect
  PROVE  IInv'
<1> USE DEF IInv, Detect, Env, Screen, Reader, Holds
<1>1. WinOK' /\ FactsOK' /\ scan' \in Looks /\ LoanIsWhole' /\ Looked'
  <2>1. CASE Cleared
    BY <2>1, ClearedKeeps
  <2>2. CASE /\ Stamp([state |-> "working", harness |-> TRUE,
                       claim |-> [source |-> "detect", auto |-> TRUE, prior |-> None]])
             /\ scan' = Aged(scan)
    <3> DEFINE w == [state |-> "working", harness |-> TRUE,
                     claim |-> [source |-> "detect", auto |-> TRUE, prior |-> None]]
    <3>1. w \in [state : States, harness : BOOLEAN, claim : Claims \cup {None}] /\ w.claim.prior = None
      BY DEF States, Claims, Sources
    <3> QED
      BY <2>2, <3>1, Marked
  <2> QED
    BY <2>1, <2>2
<1>2. CountsOK' /\ ThreadsOK' /\ ProgressOK' /\ HoldOK'
  BY <1>1 DEF CountsOK, ThreadsOK, ProgressOK, HoldOK
<1> QED
  BY <1>1, <1>2

LEMMA DemoteKeeps ==
  ASSUME IInv, Demote
  PROVE  IInv'
<1> USE DEF IInv, Demote, Env, Screen, Reader, Holds
<1>1. WinOK' /\ FactsOK' /\ scan' \in Looks /\ LoanIsWhole' /\ Looked'
  <2>1. CASE ~Stalled
    BY <2>1 DEF Stamps, WinOK, FactsOK, ThreadsOK, LoanIsWhole, Blocker, Held, Looked
  <2>2. CASE Stalled
    <3> DEFINE c == [source |-> "stall", auto |-> Owned, prior |-> IF Held THEN win.claim.prior ELSE None]
               w == [win EXCEPT !.state = "idle", !.claim = c]
    <3>1. ~Blocker /\ Owned \in BOOLEAN
      BY <2>2, WinTyped DEF LoanIsWhole, Stalled
    <3>2. c.prior = None
      BY <3>1 DEF Blocker
    <3>3. c \in Claims
      BY <3>1, <3>2 DEF Claims, Sources
    <3>4. w \in [state : States, harness : BOOLEAN, claim : Claims \cup {None}] /\ w.claim = c
      BY <3>3 DEF WinOK, States
    <3> QED
      BY <2>2, <3>2, <3>4, Marked
  <2> QED
    BY <2>1, <2>2
<1>2. CountsOK' /\ ThreadsOK' /\ ProgressOK' /\ HoldOK'
  BY <1>1 DEF CountsOK, ThreadsOK, ProgressOK, HoldOK
<1> QED
  BY <1>1, <1>2

-----------------------------------------------------------------------------
(* IInv is inductive, and what it shows.                                   *)
LEMMA StepKeepsIInv == IInv /\ [Next]_vars => IInv'
<1> SUFFICES ASSUME IInv, [Next]_vars
             PROVE  IInv'
  OBVIOUS
<1>1. CASE UNCHANGED vars
  BY <1>1 DEF vars, IInv, CountsOK, WinOK, FactsOK, ThreadsOK, ProgressOK, HoldOK, LoanIsWhole,
              Looked, Blocker, Held
<1>2. CASE AgentStarts \/ AgentExits \/ ReadOutput \/ VtWriter \/ Report
  BY <1>2, AgentStartsKeeps, AgentExitsKeeps, ReadOutputKeeps, VtWriterKeeps, ReportKeeps
<1>3. CASE ReaderStep \/ SettleLooks
  BY <1>3, TakeProgressKeeps, HoldQuieterStateKeeps, ApplyProgressKeeps, ProbeKeeps,
     ReaderLooksKeeps, ArmScreenSettleKeeps, SettleLooksKeeps DEF ReaderStep
<1>4. CASE \E k \in Scanners : ScanStep(k)
  BY <1>4, ReleaseKeeps, ReportPromptKeeps DEF ScanStep
<1>5. CASE Detect \/ StallTick \/ Demote
  BY <1>5, DetectKeeps, StallTickKeeps, DemoteKeeps
<1>6. CASE TimerStep \/ Elapse
  BY <1>6, FireKeeps, PublishHeldKeeps, HoldDueKeeps, StandKeeps, SilenceKeeps
        DEF TimerStep, Elapse
<1> QED
  BY <1>1, <1>2, <1>3, <1>4, <1>5, <1>6 DEF Next

THEOREM Invariance == Spec => []IInv
<1>1. Init => IInv
  BY InitHolds
<1>2. IInv /\ [Next]_vars => IInv'
  BY StepKeepsIInv
<1> QED
  BY <1>1, <1>2, PTL DEF Spec

(* Every variable keeps its type; a held state has its timer armed or      *)
(* about to be.                                                            *)
THEOREM TypesHold == Spec => []TypeOK
<1>1. IInv => TypeOK
  <2> SUFFICES ASSUME IInv PROVE TypeOK
    OBVIOUS
  <2>1. /\ win.state \in States /\ win.harness \in BOOLEAN
        /\ Held => win.claim \in [source : Sources, auto : BOOLEAN, prior : PriorClaim \cup {None}]
    BY WinTyped DEF IInv, Claims
  <2>2. /\ queued = None \/ queued \in [prompt : BOOLEAN, says : States \cup {None}]
        /\ parked \in States \cup {None}
        /\ progress = None \/ progress \in [state : States, current : States]
    <3>1. Progress \subseteq States
      BY AgentStateAssumption DEF States
    <3> QED
      BY <3>1 DEF IInv, ProgressOK
  <2>3. {wrote, stood, silent, prompt, armed, timer} \subseteq BOOLEAN
    BY DEF IInv, FactsOK, HoldOK
  <2> QED
    BY <2>1, <2>2, <2>3 DEF TypeOK, IInv, CountsOK, ThreadsOK, HoldOK, Looks
<1> QED
  BY <1>1, Invariance, PTL

(* A blocker taken on loan can be given back: it is the screen's, on a     *)
(* pane whose harness is named, and it displaced a stronger claim.         *)
THEOREM LoanIsWholeHolds == Spec => []LoanIsWhole
  BY Invariance, PTL DEF IInv

LEMMA OnlyDemoteCallsIdle ==
  ASSUME "stall" \notin Named, IInv, Next,
         Held', win'.claim.source = "stall", win'.state = "idle", win.state = "working"
  PROVE  Demote
<1>1. win' # win
  OBVIOUS
<1>2. ASSUME NEW r, NEW looks, ApplyAgentReport(r, looks) PROVE r.source = "stall"
  BY <1>1, <1>2 DEF ApplyAgentReport, Stamp
<1>3. ~Cleared
  BY DEF Cleared, Stamp, Held
<1>4. ~Blocker
  BY DEF IInv, LoanIsWhole
<1>5. ~Report
  <2> SUFFICES ASSUME Report PROVE FALSE
    OBVIOUS
  <2>1. PICK state \in Reported, source \in Named, named \in BOOLEAN :
          ApplyAgentReport([state |-> state, source |-> source, named |-> named, seen |-> FALSE], scan)
    BY DEF Report
  <2>2. source = "stall"
    BY <1>2, <2>1
  <2> QED
    BY <2>2
<1>6. ~ApplyProgress /\ ~PublishHeld /\ \A k \in Scanners : ~ReportPrompt(k)
  BY <1>2 DEF ApplyProgress, PublishHeld, ReportPrompt
<1>7. \A k \in Scanners : ~Release(k)
  BY <1>1, <1>4 DEF Release
<1>8. ~Probe /\ ~Detect
  BY <1>1, <1>3 DEF Probe, Detect, Stamp, Stamps
<1>9. ~(ReaderStep \/ TimerStep \/ \E k \in Scanners : ScanStep(k))
  BY <1>1, <1>6, <1>7, <1>8
  DEF ReaderStep, TimerStep, ScanStep, TakeProgress, HoldQuieterState, ReaderLooks, ArmScreenSettle,
      Fire, Stamps
<1>10. ~(AgentStarts \/ AgentExits \/ ReadOutput \/ VtWriter \/ SettleLooks \/ StallTick \/ Elapse)
  BY <1>1 DEF AgentStarts, AgentExits, ReadOutput, VtWriter, SettleLooks, StallTick, Elapse,
              HoldDue, Stand, Silence, Stamps
<1> QED
  BY <1>5, <1>8, <1>9, <1>10 DEF Next

(* No pane that shows a prompt its harness has a rule for is called idle   *)
(* by the stall monitor, whatever comes between its look and its write.  A *)
(* caller that names the monitor as its source could.                      *)
THEOREM NoIdleOverPromptHolds ==
  ASSUME "stall" \notin Named
  PROVE  Spec => NoIdleOverPrompt
<1> DEFINE Calls == Held' /\ win'.claim.source = "stall" /\ win'.state = "idle" /\ win.state = "working"
<1>1. IInv /\ [Next]_vars => [Calls => ~(prompt /\ win.harness)]_vars
  <2> SUFFICES ASSUME IInv, Next, Calls
               PROVE  ~(prompt /\ win.harness)
    OBVIOUS
  <2>1. Demote
    BY OnlyDemoteCallsIdle
  <2>2. silent /\ stall = "demote"
    BY <2>1 DEF Demote, Stalled, Stamps
  <2> QED
    BY <2>2 DEF IInv, Looked
<1> QED
  BY <1>1, Invariance, PTL DEF Spec, NoIdleOverPrompt
=============================================================================
