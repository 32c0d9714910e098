------------------------ MODULE CommandRoutingProofs ------------------------
(***************************************************************************)
(* Proofs about CommandRouting, for any requests, TUIs and lengths.        *)
(*                                                                         *)
(* The argument: a request is handled and worked on in stages that only go *)
(* forward (Stages), so one result is ever sent for it (Results), and the  *)
(* table names whom that result is for until it is taken (Entries).  A     *)
(* success in a queue, in a channel or told stands for something carried   *)
(* out (Truths, Sent), and the state of a command goes ahead of its        *)
(* success (StateFirst).                                                   *)
(***************************************************************************)
EXTENDS CommandRouting, TLAPS

Recorded(r) == form[r] = [kind |-> "config", via |-> "json"]

Stages ==
  \A r \in Requests :
    /\ handler[r] = "idle" <=> form[r] = None
    /\ handler[r] \in {"idle", "dispatch"} =>
         target[r] = None /\ pending[r] = "none" /\ slot[r] = "none" /\ r \notin carried
    /\ handler[r] \in {"idle", "dispatch", "send"} =>
         work[r] = "none" /\ answer[r] \in {"none", "gone"}
    /\ handler[r] = "idle" => answer[r] = "none"
    /\ handler[r] \in {"send", "track", "wait"} \/ work[r] # "none" =>
         target[r] \in TUIs /\ Kind(r) # "owned"
    /\ handler[r] = "wait" => Via(r) = "json"
    /\ work[r] = "working" => Kind(r) \in {"keys", "script"}

Entries ==
  \A r \in Requests :
    /\ pending[r] = "channel" => handler[r] \in {"send", "wait"} /\ slot[r] = "none"
    /\ pending[r] = "channel" \/ slot[r] # "none" => Via(r) = "json"
    /\ handler[r] = "wait" => pending[r] = "channel" \/ slot[r] # "none"
    /\ handler[r] = "send" /\ Via(r) = "json" => pending[r] = "channel"
    /\ pending[r] = "requester" => handler[r] = "done"

IsResult(t, i) == fromTUI[t][i].type = "result"
Of(t, i) == fromTUI[t][i].req

Results ==
  \A t \in TUIs : \A i \in 1..Len(fromTUI[t]) : IsResult(t, i) =>
    /\ work[Of(t, i)] = "done" /\ target[Of(t, i)] = t
    /\ \A j \in 1..Len(fromTUI[t]) : IsResult(t, j) /\ Of(t, j) = Of(t, i) => i = j

Truths ==
  \A r \in Requests :
    /\ slot[r] = "ok" \/ answer[r] = "ok" => r \in carried
    /\ Recorded(r) /\ handler[r] # "dispatch" => r \in carried
    /\ work[r] = "working" /\ left[r] = 0 => r \in carried

Sent ==
  \A t \in TUIs : \A i \in 1..Len(fromTUI[t]) :
    IsResult(t, i) /\ fromTUI[t][i].ok => Of(t, i) \in carried

StateFirst ==
  \A t \in TUIs : \A i \in 1..Len(fromTUI[t]) :
    IsResult(t, i) /\ fromTUI[t][i].ok /\ Kind(Of(t, i)) = "command" =>
      \/ Of(t, i) \in state
      \/ \E j \in 1..(i - 1) : /\ fromTUI[t][j].type = "state"
                               /\ Of(t, i) \in fromTUI[t][j].effects

IInv == /\ TypeOK /\ Stages /\ Entries /\ Results /\ Truths /\ Sent /\ StateFirst
        /\ WaitersHear /\ ReadBackSees /\ AnimationsComeBack

-----------------------------------------------------------------------------
(* What requests and messages are made of.                                 *)
LEMMA FormsKnown ==
  ASSUME NEW f \in Forms
  PROVE  /\ f.kind \in Kinds /\ f.via \in Vias /\ f # None /\ f = [kind |-> f.kind, via |-> f.via]
         /\ f.via = "json" => f.kind \notin {"command", "script"}
  BY CommandRoutingAssumption DEF Forms, Vias, Kinds

LEMMA ResultsKnown ==
  ASSUME TypeOK, NEW t \in TUIs, NEW i \in 1..Len(fromTUI[t])
  PROVE  /\ fromTUI[t][i] \in Messages
         /\ IsResult(t, i) => Of(t, i) \in Requests /\ fromTUI[t][i].ok \in BOOLEAN
         /\ fromTUI[t][i].type = "state" => fromTUI[t][i].effects \subseteq Requests
         /\ fromTUI[t][i].type \in {"state", "result"}
<1>1. fromTUI[t] \in Seq(Messages)
  BY DEF TypeOK
<1>2. fromTUI[t][i] \in Messages
  BY <1>1
<1> QED
  BY <1>2 DEF Messages, Push, Result, IsResult, Of

LEMMA PushKnown ==
  ASSUME NEW reqs \in SUBSET Requests
  PROVE  Push(reqs) \in Messages /\ Push(reqs).type = "state" /\ Push(reqs).effects = reqs
  BY DEF Messages, Push

LEMMA ResultKnown ==
  ASSUME NEW r \in Requests, NEW ok \in BOOLEAN
  PROVE  /\ Result(r, ok) \in Messages /\ Result(r, ok).type = "result"
         /\ Result(r, ok).req = r /\ Result(r, ok).ok = ok
  BY DEF Messages, Result

LEMMA OneMore ==
  ASSUME NEW S, NEW q \in Seq(S), NEW a \in S
  PROVE  /\ q \o <<a>> \in Seq(S) /\ Len(q \o <<a>>) = Len(q) + 1
         /\ (q \o <<a>>)[Len(q) + 1] = a
         /\ \A i \in 1..Len(q) : (q \o <<a>>)[i] = q[i]
  OBVIOUS

LEMMA TwoMore ==
  ASSUME NEW S, NEW q \in Seq(S), NEW a \in S, NEW b \in S
  PROVE  /\ q \o <<a, b>> \in Seq(S) /\ Len(q \o <<a, b>>) = Len(q) + 2
         /\ (q \o <<a, b>>)[Len(q) + 1] = a /\ (q \o <<a, b>>)[Len(q) + 2] = b
         /\ \A i \in 1..Len(q) : (q \o <<a, b>>)[i] = q[i]
  OBVIOUS

LEMMA OneLess ==
  ASSUME NEW S, NEW q \in Seq(S), q # <<>>
  PROVE  /\ Tail(q) \in Seq(S) /\ Len(Tail(q)) = Len(q) - 1 /\ Len(q) \in Nat \ {0}
         /\ Head(q) = q[1] /\ 1 \in 1..Len(q)
         /\ \A i \in 1..Len(Tail(q)) : i + 1 \in 1..Len(q) /\ Tail(q)[i] = q[i + 1]
  OBVIOUS

LEMMA ReplyKnown ==
  ASSUME answer \in [Requests -> {"none", "ok", "failed", "gone"}], NEW r \in Requests,
         NEW a \in {"ok", "failed", "gone"}, Reply(r, a)
  PROVE  answer' \in [Requests -> {"none", "ok", "failed", "gone"}]
BY DEF Reply

(* States stay ahead of the successes they go with: with the queues as     *)
(* they were, and with messages added at their ends.                       *)
LEMMA StateFirstStays ==
  ASSUME StateFirst, UNCHANGED <<form, fromTUI>>, state \subseteq state'
  PROVE  StateFirst'
BY DEF StateFirst, IsResult, Of, Kind

LEMMA SentStays ==
  ASSUME Results, Sent, UNCHANGED <<target, work, fromTUI>>, carried \subseteq carried'
  PROVE  Results' /\ Sent'
BY DEF Results, Sent, IsResult, Of

LEMMA StateFirstSent ==
  ASSUME StateFirst, \A u \in TUIs : Len(fromTUI[u]) \in Nat, UNCHANGED <<form, state>>,
         \A u \in TUIs : \A i \in 1..Len(fromTUI'[u]) :
           \/ i \in 1..Len(fromTUI[u]) /\ fromTUI'[u][i] = fromTUI[u][i]
           \/ /\ i > Len(fromTUI[u])
              /\ fromTUI'[u][i].type = "result" /\ fromTUI'[u][i].ok
                 /\ Kind(fromTUI'[u][i].req) = "command" =>
                   \E j \in 1..(i - 1) : /\ fromTUI'[u][j].type = "state"
                                         /\ fromTUI'[u][i].req \in fromTUI'[u][j].effects
  PROVE  StateFirst'
<1> SUFFICES ASSUME NEW u \in TUIs, NEW i \in 1..Len(fromTUI'[u]), fromTUI'[u][i].type = "result",
                    fromTUI'[u][i].ok, Kind(fromTUI'[u][i].req) = "command"
             PROVE  \/ fromTUI'[u][i].req \in state
                    \/ \E j \in 1..(i - 1) : /\ fromTUI'[u][j].type = "state"
                                             /\ fromTUI'[u][i].req \in fromTUI'[u][j].effects
  BY DEF StateFirst, IsResult, Of, Kind
<1>1. CASE i \in 1..Len(fromTUI[u]) /\ fromTUI'[u][i] = fromTUI[u][i]
  <2>1. \A j \in 1..(i - 1) : fromTUI'[u][j] = fromTUI[u][j]
    <3> SUFFICES ASSUME NEW j \in 1..(i - 1) PROVE fromTUI'[u][j] = fromTUI[u][j]
      OBVIOUS
    <3>1. j \in 1..Len(fromTUI'[u]) /\ ~(j > Len(fromTUI[u]))
      BY <1>1
    <3> QED
      BY <3>1
  <2>2. \/ fromTUI[u][i].req \in state
        \/ \E j \in 1..(i - 1) : /\ fromTUI[u][j].type = "state"
                                 /\ fromTUI[u][i].req \in fromTUI[u][j].effects
    BY <1>1 DEF StateFirst, IsResult, Of
  <2> QED
    BY <1>1, <2>1, <2>2
<1> QED
  BY <1>1

LEMMA InitHolds == Init => IInv
<1> SUFFICES ASSUME Init PROVE IInv
  OBVIOUS
<1>1. TypeOK
  BY CommandRoutingAssumption DEF Init, TypeOK
<1>2. /\ Stages /\ Entries /\ WaitersHear /\ ReadBackSees /\ AnimationsComeBack
      /\ \A r \in Requests : ~Recorded(r)
  BY CommandRoutingAssumption
  DEF Init, Stages, Entries, WaitersHear, ReadBackSees, AnimationsComeBack, Recorded, Kinds, Vias
<1>3. \A t \in TUIs : Len(fromTUI[t]) = 0
  BY DEF Init
<1>4. Results /\ Sent /\ StateFirst
  BY <1>3 DEF Results, Sent, StateFirst
<1>5. Truths
  BY <1>2 DEF Init, Truths
<1> QED
  BY <1>1, <1>2, <1>4, <1>5 DEF IInv

LEMMA AskKeeps ==
  ASSUME IInv, NEW r \in Requests, NEW f \in Forms, Ask(r, f)
  PROVE  IInv'
<1> USE FormsKnown, CommandRoutingAssumption DEF IInv, Ask, Kind, Via, Renderer, Clients
<1>1. Results' /\ Sent' /\ AnimationsComeBack'
  BY DEF Results, IsResult, Of, Sent, AnimationsComeBack
<1>2. TypeOK'
  BY DEF TypeOK
<1>3. Stages'
  BY DEF Stages, TypeOK
<1>4. Entries'
  BY DEF Entries, Stages, TypeOK
<1>5. Truths'
  BY DEF Truths, Recorded, Stages, TypeOK
<1>6. StateFirst'
  BY ResultsKnown DEF StateFirst, Results, Stages, IsResult, Of, TypeOK
<1>7. WaitersHear'
  BY DEF WaitersHear, Stages, Entries, TypeOK
<1>8. ReadBackSees'
  BY DEF ReadBackSees, Stages, Entries, Truths, TypeOK
<1> QED
  BY <1>1, <1>2, <1>3, <1>4, <1>5, <1>6, <1>7, <1>8

LEMMA RunHereKeeps ==
  ASSUME IInv, NEW r \in Requests, RunHere(r)
  PROVE  IInv'
<1> USE FormsKnown, CommandRoutingAssumption
        DEF IInv, RunHere, To, Refused, Reply, Renderer, Clients, Kind, Via
<1>1. Results' /\ AnimationsComeBack'
  BY DEF Results, IsResult, Of, AnimationsComeBack
<1>2. TypeOK'
  <2>1. state' \subseteq Requests /\ carried' \subseteq Requests
    BY DEF TypeOK
  <2>2. answer' \in [Requests -> {"none", "ok", "failed", "gone"}]
    <3>1. Reply(r, "ok") \/ Reply(r, "failed")
      OBVIOUS
    <3> HIDE DEF RunHere, Reply
    <3> QED
      BY <3>1, ReplyKnown DEF TypeOK
  <2>3. handler' \in [Requests -> {"idle", "dispatch", "send", "track", "wait", "done"}]
    BY DEF TypeOK
  <2>4. UNCHANGED <<form, target, pending, slot>> /\ UNCHANGED Renderer /\ UNCHANGED Clients
    OBVIOUS
  <2> HIDE DEF RunHere
  <2> QED
    BY <2>1, <2>2, <2>3, <2>4 DEF TypeOK
<1>3. Stages'
  BY DEF Stages, TypeOK
<1>4. Entries'
  BY DEF Entries, Stages, TypeOK
<1>5. Truths'
  BY DEF Truths, Recorded, Stages, TypeOK
<1>6. Sent'
  BY DEF Sent, IsResult, Of, Stages, TypeOK
<1>7. StateFirst'
  BY StateFirstStays
<1>8. WaitersHear'
  BY DEF WaitersHear, Stages, Entries, TypeOK
<1>9. ReadBackSees'
  BY DEF ReadBackSees, Stages, Entries, Truths, TypeOK
<1> QED
  BY <1>1, <1>2, <1>3, <1>4, <1>5, <1>6, <1>7, <1>8, <1>9

LEMMA RouteKeeps ==
  ASSUME IInv, NEW r \in Requests, NEW t \in TUIs, Route(r, t)
  PROVE  IInv'
<1> USE FormsKnown, CommandRoutingAssumption DEF IInv, Route, To, Renderer, Clients, Kind, Via
<1>1. TypeOK'
  BY DEF TypeOK
<1>2. Stages'
  BY DEF Stages, TypeOK
<1>3. Entries'
  BY DEF Entries, Stages, TypeOK
<1>4. Results'
  BY DEF Results, IsResult, Of, Stages, TypeOK
<1>5. Truths'
  BY DEF Truths, Recorded, Stages, TypeOK
<1>6. Sent'
  BY DEF Sent, IsResult, Of, Stages, TypeOK
<1>7. StateFirst'
  BY StateFirstStays
<1>8. WaitersHear'
  BY DEF WaitersHear, Stages, Entries, TypeOK
<1>9. ReadBackSees'
  BY DEF ReadBackSees, Stages, Entries, Truths, TypeOK
<1>10. AnimationsComeBack'
  BY DEF AnimationsComeBack, Stages, TypeOK
<1> QED
  BY <1>1, <1>2, <1>3, <1>4, <1>5, <1>6, <1>7, <1>8, <1>9, <1>10

LEMMA ForwardKeeps ==
  ASSUME IInv, NEW r \in Requests, Forward(r)
  PROVE  IInv'
<1> USE FormsKnown, CommandRoutingAssumption DEF IInv, Forward, To, Clients, Kind, Via
<1>1. Sent' /\ StateFirst' /\ ReadBackSees'
  BY DEF Sent, IsResult, Of, StateFirst, Kind, ReadBackSees
<1>2. TypeOK'
  BY DEF TypeOK
<1>3. Stages'
  BY DEF Stages, TypeOK
<1>4. Entries'
  BY DEF Entries, Stages, TypeOK
<1>5. Results'
  BY DEF Results, IsResult, Of, Stages, TypeOK
<1>6. Truths'
  BY DEF Truths, Recorded, Stages, TypeOK
<1>7. WaitersHear'
  BY DEF WaitersHear, Stages, Entries, TypeOK
<1>8. AnimationsComeBack'
  BY DEF AnimationsComeBack, Stages, TypeOK
<1> QED
  BY <1>1, <1>2, <1>3, <1>4, <1>5, <1>6, <1>7, <1>8

LEMMA ForwardFailsKeeps ==
  ASSUME IInv, NEW r \in Requests, ForwardFails(r)
  PROVE  IInv'
<1> USE FormsKnown, CommandRoutingAssumption
        DEF IInv, ForwardFails, To, Reply, Told, Verdict, Renderer, Clients, Kind, Via
<1>1. Results' /\ Sent' /\ StateFirst' /\ AnimationsComeBack'
  BY DEF Results, IsResult, Of, Sent, StateFirst, Kind, AnimationsComeBack
<1>2. TypeOK'
  BY DEF TypeOK
<1>3. Stages'
  BY DEF Stages, TypeOK
<1>4. Entries'
  BY DEF Entries, Stages, TypeOK
<1>5. Truths'
  BY DEF Truths, Recorded, Stages, TypeOK
<1>6. WaitersHear'
  BY DEF WaitersHear, Stages, Entries, TypeOK
<1>7. ReadBackSees'
  BY DEF ReadBackSees, Stages, Entries, Truths, TypeOK
<1> QED
  BY <1>1, <1>2, <1>3, <1>4, <1>5, <1>6, <1>7

LEMMA TrackKeeps ==
  ASSUME IInv, NEW r \in Requests, Track(r)
  PROVE  IInv'
<1> USE FormsKnown, CommandRoutingAssumption DEF IInv, Track, To, Renderer, Clients, Kind, Via
<1>1. Results' /\ Sent' /\ StateFirst' /\ ReadBackSees' /\ AnimationsComeBack'
  BY DEF Results, IsResult, Of, Sent, StateFirst, Kind, ReadBackSees, AnimationsComeBack
<1>2. TypeOK'
  BY DEF TypeOK
<1>3. Stages'
  BY DEF Stages, TypeOK
<1>4. Entries'
  BY DEF Entries, Stages, TypeOK
<1>5. Truths'
  BY DEF Truths, Recorded, Stages, TypeOK
<1>6. WaitersHear'
  BY DEF WaitersHear, Stages, Entries, TypeOK
<1> QED
  BY <1>1, <1>2, <1>3, <1>4, <1>5, <1>6

LEMMA HeardKeeps ==
  ASSUME IInv, NEW r \in Requests, Heard(r)
  PROVE  IInv'
<1> USE FormsKnown, CommandRoutingAssumption
        DEF IInv, Heard, To, Reply, Told, Verdict, Renderer, Clients, Kind, Via
<1>1. Results' /\ Sent' /\ StateFirst' /\ AnimationsComeBack'
  BY DEF Results, IsResult, Of, Sent, StateFirst, Kind, AnimationsComeBack
<1>2. TypeOK'
  BY DEF TypeOK
<1>3. Stages'
  BY DEF Stages, TypeOK
<1>4. Entries'
  BY DEF Entries, Stages, TypeOK
<1>5. Truths'
  BY DEF Truths, Recorded, Stages, TypeOK
<1>6. WaitersHear'
  BY DEF WaitersHear, Stages, Entries, TypeOK
<1>7. ReadBackSees'
  BY DEF ReadBackSees, Stages, Entries, Truths, TypeOK
<1> QED
  BY <1>1, <1>2, <1>3, <1>4, <1>5, <1>6, <1>7

LEMMA RouteTimesOutKeeps ==
  ASSUME IInv, NEW r \in Requests, RouteTimesOut(r)
  PROVE  IInv'
<1> USE FormsKnown, CommandRoutingAssumption
        DEF IInv, RouteTimesOut, To, Reply, Told, Verdict, Renderer, Clients, Kind, Via
<1>1. Results' /\ Sent' /\ StateFirst' /\ AnimationsComeBack'
  BY DEF Results, IsResult, Of, Sent, StateFirst, Kind, AnimationsComeBack
<1>2. TypeOK'
  BY DEF TypeOK
<1>3. Stages'
  BY DEF Stages, TypeOK
<1>4. Entries'
  BY DEF Entries, Stages, TypeOK
<1>5. Truths'
  BY DEF Truths, Recorded, Stages, TypeOK
<1>6. WaitersHear'
  BY DEF WaitersHear, Stages, Entries, TypeOK
<1>7. ReadBackSees'
  BY DEF ReadBackSees, Stages, Entries, Truths, TypeOK
<1> QED
  BY <1>1, <1>2, <1>3, <1>4, <1>5, <1>6, <1>7

LEMMA GiveUpKeeps ==
  ASSUME IInv, NEW r \in Requests, GiveUp(r)
  PROVE  IInv'
<1> USE FormsKnown, CommandRoutingAssumption DEF IInv, GiveUp, Reply, Renderer, Clients, Kind, Via
<1>1. Entries' /\ Results' /\ Sent' /\ StateFirst' /\ WaitersHear' /\ AnimationsComeBack'
  BY DEF Entries, Via, Results, IsResult, Of, Sent, StateFirst, Kind, WaitersHear,
        AnimationsComeBack
<1>2. TypeOK'
  BY DEF TypeOK
<1>3. Stages'
  BY DEF Stages, TypeOK
<1>4. Truths'
  BY DEF Truths, Recorded, Stages, TypeOK
<1>5. ReadBackSees'
  BY DEF ReadBackSees, Stages, Entries, Truths, TypeOK
<1> QED
  BY <1>1, <1>2, <1>3, <1>4, <1>5

LEMMA ForgetKeeps ==
  ASSUME IInv, NEW r \in Requests, Forget(r)
  PROVE  IInv'
<1> USE FormsKnown, CommandRoutingAssumption DEF IInv, Forget, Renderer, Clients, Kind, Via
<1>1. Results' /\ Truths' /\ Sent' /\ StateFirst' /\ WaitersHear' /\ ReadBackSees'
      /\ AnimationsComeBack'
  BY DEF Results, IsResult, Of, Truths, Recorded, Sent, StateFirst, Kind, WaitersHear,
        ReadBackSees, AnimationsComeBack
<1>2. TypeOK'
  BY DEF TypeOK
<1>3. Stages'
  BY DEF Stages, TypeOK
<1>4. Entries'
  BY DEF Entries, Stages, TypeOK
<1> QED
  BY <1>1, <1>2, <1>3, <1>4

LEMMA TypeLiteralKeeps ==
  ASSUME IInv, NEW r \in Requests, TypeLiteral(r)
  PROVE  IInv'
<1> USE FormsKnown, CommandRoutingAssumption
        DEF IInv, TypeLiteral, Works, Daemon, Clients, Kind, Via
<1>1. Entries' /\ StateFirst' /\ ReadBackSees'
  BY DEF Entries, Via, StateFirst, IsResult, Of, Kind, ReadBackSees
<1>2. TypeOK'
  BY DEF TypeOK
<1>3. Stages'
  BY DEF Stages, TypeOK
<1>4. Results'
  BY DEF Results, IsResult, Of, Stages, TypeOK
<1>5. Truths'
  BY DEF Truths, Recorded, Stages, TypeOK
<1>6. Sent'
  BY DEF Sent, IsResult, Of, Stages, TypeOK
<1>7. WaitersHear'
  BY DEF WaitersHear, Stages, Entries, TypeOK
<1>8. AnimationsComeBack'
  BY DEF AnimationsComeBack, Stages, TypeOK
<1> QED
  BY <1>1, <1>2, <1>3, <1>4, <1>5, <1>6, <1>7, <1>8

LEMMA BeginKeeps ==
  ASSUME IInv, NEW r \in Requests, Begin(r)
  PROVE  IInv'
<1> USE FormsKnown, CommandRoutingAssumption DEF IInv, Begin, Works, Daemon, Clients, Kind, Via
<1>1. Entries' /\ Sent' /\ StateFirst' /\ ReadBackSees'
  BY DEF Entries, Via, Sent, IsResult, Of, StateFirst, Kind, ReadBackSees
<1>2. TypeOK'
  <2>1. PICK n \in 1..MaxSteps : left' = [left EXCEPT ![r] = n]
    OBVIOUS
  <2>2. n \in 0..MaxSteps /\ left' \in [Requests -> 0..MaxSteps]
    BY <2>1 DEF TypeOK
  <2> QED
    BY <2>2 DEF TypeOK
<1>3. Stages'
  BY DEF Stages, TypeOK
<1>4. Results'
  BY DEF Results, IsResult, Of, Stages, TypeOK
<1>5. Truths'
  BY DEF Truths, Recorded, Stages, TypeOK
<1>6. WaitersHear'
  BY DEF WaitersHear, Stages, Entries, TypeOK
<1>7. AnimationsComeBack'
  BY DEF AnimationsComeBack, Stages, TypeOK
<1> QED
  BY <1>1, <1>2, <1>3, <1>4, <1>5, <1>6, <1>7

LEMMA TUIDiesKeeps ==
  ASSUME IInv, NEW t \in TUIs, TUIDies(t)
  PROVE  IInv'
<1> USE FormsKnown, CommandRoutingAssumption DEF IInv, TUIDies, Daemon, Kind, Via
<1>1. Entries' /\ Sent' /\ StateFirst' /\ ReadBackSees'
  BY DEF Entries, Via, Sent, IsResult, Of, StateFirst, Kind, ReadBackSees
<1>2. TypeOK'
  BY DEF TypeOK
<1>3. Stages'
  BY DEF Stages, TypeOK
<1>4. Results'
  BY ResultsKnown DEF Results, IsResult, Of, Stages, TypeOK
<1>5. Truths'
  BY DEF Truths, Recorded, Stages, TypeOK
<1>6. WaitersHear'
  BY DEF WaitersHear, Stages, Entries, TypeOK
<1>7. AnimationsComeBack'
  BY DEF AnimationsComeBack, Stages, TypeOK
<1> QED
  BY <1>1, <1>2, <1>3, <1>4, <1>5, <1>6, <1>7

LEMMA DropTUIKeeps ==
  ASSUME IInv, NEW t \in TUIs, DropTUI(t)
  PROVE  IInv'
<1> USE FormsKnown, CommandRoutingAssumption DEF IInv, DropTUI, Daemon, Renderer, Kind, Via
<1>1. Stages' /\ Entries' /\ Results' /\ Truths' /\ Sent' /\ StateFirst' /\ WaitersHear'
      /\ ReadBackSees' /\ AnimationsComeBack'
  BY DEF Stages, Kind, Via, Entries, Results, IsResult, Of, Truths, Recorded, Sent, StateFirst,
        WaitersHear, ReadBackSees, AnimationsComeBack
<1>2. TypeOK'
  BY DEF TypeOK
<1> QED
  BY <1>1, <1>2

-----------------------------------------------------------------------------
(* What is on its way from a TUI: one more result, one more state, one     *)
(* message less.                                                           *)
LEMMA ResultSent ==
  ASSUME IInv, NEW r \in Requests, NEW ok \in BOOLEAN,
         work[r] \in {"posted", "working"},
         fromTUI' = [fromTUI EXCEPT ![target[r]] = @ \o <<Result(r, ok)>>],
         work' = [work EXCEPT ![r] = "done"],
         carried \subseteq carried', ok => r \in carried' /\ Kind(r) # "command",
         UNCHANGED <<form, target, state>>
  PROVE  /\ fromTUI' \in [TUIs -> Seq(Messages)]
         /\ Results' /\ Sent' /\ StateFirst'
<1> DEFINE t == target[r]
           q == fromTUI[t]
<1>1. t \in TUIs /\ q \in Seq(Messages) /\ fromTUI \in [TUIs -> Seq(Messages)]
  BY DEF IInv, Stages, TypeOK
<1>2. /\ fromTUI'[t] = q \o <<Result(r, ok)>> /\ Len(fromTUI'[t]) = Len(q) + 1
      /\ fromTUI'[t][Len(q) + 1] = Result(r, ok) /\ fromTUI'[t] \in Seq(Messages)
      /\ \A i \in 1..Len(q) : fromTUI'[t][i] = fromTUI[t][i]
      /\ \A u \in TUIs \ {t} : fromTUI'[u] = fromTUI[u]
  BY <1>1, ResultKnown, OneMore
<1>3. fromTUI' \in [TUIs -> Seq(Messages)]
  BY <1>1, <1>2
<1>4. \A u \in TUIs : \A i \in 1..Len(fromTUI[u]) : IsResult(u, i) => Of(u, i) # r
  BY DEF IInv, Results
<1>5. Len(q) \in Nat /\ \A u \in TUIs : Len(fromTUI[u]) \in Nat
  BY <1>1
<1>6. \A u \in TUIs : \A i \in 1..Len(fromTUI'[u]) :
         \/ i \in 1..Len(fromTUI[u]) /\ fromTUI'[u][i] = fromTUI[u][i]
         \/ u = t /\ i = Len(q) + 1 /\ fromTUI'[u][i] = Result(r, ok)
  BY <1>2, <1>5
<1>7. Results'
  <2> SUFFICES ASSUME NEW u \in TUIs, NEW i \in 1..Len(fromTUI'[u]), fromTUI'[u][i].type = "result"
               PROVE  LET s == fromTUI'[u][i].req IN
                      /\ work'[s] = "done" /\ target'[s] = u
                      /\ \A j \in 1..Len(fromTUI'[u]) :
                           fromTUI'[u][j].type = "result" /\ fromTUI'[u][j].req = s => i = j
    BY DEF Results, IsResult, Of
  <2>1. CASE i \in 1..Len(fromTUI[u]) /\ fromTUI'[u][i] = fromTUI[u][i]
    <3>1. Of(u, i) # r /\ Of(u, i) \in Requests /\ work[Of(u, i)] = "done" /\ target[Of(u, i)] = u
      BY <2>1, <1>4, ResultsKnown DEF IInv, Results, IsResult
    <3>2. ASSUME NEW j \in 1..Len(fromTUI'[u]), fromTUI'[u][j].type = "result",
                 fromTUI'[u][j].req = Of(u, i)
          PROVE  i = j
      BY <2>1, <1>6, <3>1, <3>2, ResultKnown DEF IInv, Results, IsResult, Of
    <3> QED
      BY <2>1, <3>1, <3>2 DEF Of, IInv, TypeOK
  <2>2. CASE u = t /\ i = Len(q) + 1 /\ fromTUI'[u][i] = Result(r, ok)
    <3>1. fromTUI'[u][i].req = r
      BY <2>2, ResultKnown
    <3>2. work'[r] = "done" /\ target'[r] = u
      BY <2>2 DEF IInv, TypeOK
    <3>3. ASSUME NEW j \in 1..Len(fromTUI'[u]), fromTUI'[u][j].type = "result",
                 fromTUI'[u][j].req = r
          PROVE  i = j
      BY <2>2, <1>4, <1>6, <3>3 DEF IsResult, Of
    <3> QED
      BY <3>1, <3>2, <3>3
  <2> QED
    BY <1>6, <2>1, <2>2
<1>8. Sent'
  BY <1>6, ResultKnown DEF IInv, Sent, IsResult, Of
<1>9. StateFirst'
  <2>1. \A u \in TUIs : \A i \in 1..Len(fromTUI'[u]) :
           \/ i \in 1..Len(fromTUI[u]) /\ fromTUI'[u][i] = fromTUI[u][i]
           \/ /\ i > Len(fromTUI[u])
              /\ fromTUI'[u][i].ok => Kind(fromTUI'[u][i].req) # "command"
    BY <1>5, <1>6, ResultKnown
  <2> QED
    BY <1>5, <2>1, StateFirstSent DEF IInv
<1> QED
  BY <1>3, <1>7, <1>8, <1>9

LEMMA StateSent ==
  ASSUME IInv, NEW t \in TUIs, NEW reqs \in SUBSET Requests,
         fromTUI' = [fromTUI EXCEPT ![t] = @ \o <<Push(reqs)>>],
         carried \subseteq carried', UNCHANGED <<form, target, state, work>>
  PROVE  /\ fromTUI' \in [TUIs -> Seq(Messages)]
         /\ Results' /\ Sent' /\ StateFirst'
<1> DEFINE q == fromTUI[t]
<1>1. q \in Seq(Messages) /\ fromTUI \in [TUIs -> Seq(Messages)]
  BY DEF IInv, TypeOK
<1>2. /\ fromTUI'[t] = q \o <<Push(reqs)>> /\ Len(fromTUI'[t]) = Len(q) + 1
      /\ fromTUI'[t][Len(q) + 1] = Push(reqs) /\ fromTUI'[t] \in Seq(Messages)
      /\ \A i \in 1..Len(q) : fromTUI'[t][i] = fromTUI[t][i]
      /\ \A u \in TUIs \ {t} : fromTUI'[u] = fromTUI[u]
  BY <1>1, PushKnown, OneMore
<1>3. fromTUI' \in [TUIs -> Seq(Messages)]
  BY <1>1, <1>2
<1>4. Len(q) \in Nat /\ \A u \in TUIs : Len(fromTUI[u]) \in Nat
  BY <1>1
<1>5. \A u \in TUIs : \A i \in 1..Len(fromTUI'[u]) : fromTUI'[u][i].type = "result" =>
         /\ i \in 1..Len(fromTUI[u]) /\ fromTUI'[u][i] = fromTUI[u][i]
         /\ \A j \in 1..(i - 1) : fromTUI'[u][j] = fromTUI[u][j]
  <2> SUFFICES ASSUME NEW u \in TUIs, NEW i \in 1..Len(fromTUI'[u]), fromTUI'[u][i].type = "result"
               PROVE  /\ i \in 1..Len(fromTUI[u])
                      /\ \A j \in 1..i : fromTUI'[u][j] = fromTUI[u][j]
    BY <1>4
  <2>1. CASE u # t
    BY <2>1, <1>2, <1>4
  <2>2. CASE u = t
    <3>1. i # Len(q) + 1
      BY <2>2, <1>2, PushKnown
    <3> QED
      BY <2>2, <3>1, <1>2, <1>4
  <2> QED
    BY <2>1, <2>2
<1>6. Results'
  <2> SUFFICES ASSUME NEW u \in TUIs, NEW i \in 1..Len(fromTUI'[u]), fromTUI'[u][i].type = "result"
               PROVE  LET s == fromTUI'[u][i].req IN
                      /\ work'[s] = "done" /\ target'[s] = u
                      /\ \A j \in 1..Len(fromTUI'[u]) :
                           fromTUI'[u][j].type = "result" /\ fromTUI'[u][j].req = s => i = j
    BY DEF Results, IsResult, Of
  <2>1. i \in 1..Len(fromTUI[u]) /\ fromTUI'[u][i] = fromTUI[u][i]
    BY <1>5
  <2>2. ASSUME NEW j \in 1..Len(fromTUI'[u]), fromTUI'[u][j].type = "result",
               fromTUI'[u][j].req = fromTUI'[u][i].req
        PROVE  i = j
    <3>1. j \in 1..Len(fromTUI[u]) /\ fromTUI'[u][j] = fromTUI[u][j]
      BY <1>5, <2>2
    <3> QED
      BY <2>1, <2>2, <3>1 DEF IInv, Results, IsResult, Of
  <2> QED
    BY <2>1, <2>2 DEF IInv, Results, IsResult, Of
<1>7. Sent'
  BY <1>5 DEF IInv, Sent, IsResult, Of
<1>8. StateFirst'
  BY <1>5 DEF IInv, StateFirst, IsResult, Of, Kind
<1> QED
  BY <1>3, <1>6, <1>7, <1>8

LEMMA Received ==
  ASSUME IInv, NEW t \in TUIs, fromTUI[t] # <<>>,
         fromTUI' = [fromTUI EXCEPT ![t] = Tail(@)],
         state \subseteq state',
         Head(fromTUI[t]).type = "state" => Head(fromTUI[t]).effects \subseteq state' /\ work' = work,
         Head(fromTUI[t]).type = "result" => work' = [work EXCEPT ![Head(fromTUI[t]).req] = "reported"],
         UNCHANGED <<form, target, carried>>
  PROVE  /\ fromTUI' \in [TUIs -> Seq(Messages)]
         /\ Results' /\ Sent' /\ StateFirst'
<1> DEFINE q == fromTUI[t]
           m == Head(q)
<1>1. q \in Seq(Messages) /\ fromTUI \in [TUIs -> Seq(Messages)]
  BY DEF IInv, TypeOK
<1>2. /\ fromTUI'[t] = Tail(q) /\ Len(fromTUI'[t]) = Len(q) - 1 /\ Len(q) \in Nat \ {0}
      /\ fromTUI'[t] \in Seq(Messages) /\ m = q[1] /\ 1 \in 1..Len(q)
      /\ \A i \in 1..Len(fromTUI'[t]) : i + 1 \in 1..Len(q) /\ fromTUI'[t][i] = q[i + 1]
      /\ \A u \in TUIs \ {t} : fromTUI'[u] = fromTUI[u]
  BY <1>1, OneLess
<1>3. fromTUI' \in [TUIs -> Seq(Messages)]
  BY <1>1, <1>2
<1>4. m.type \in {"state", "result"} /\ (m.type = "result" => m.req \in Requests)
  BY <1>2, ResultsKnown DEF IInv, IsResult, Of
<1>5. \A u \in TUIs : \A i \in 1..Len(fromTUI'[u]) : \E k \in 1..Len(fromTUI[u]) :
        /\ fromTUI'[u][i] = fromTUI[u][k]
        /\ k = (IF u = t THEN i + 1 ELSE i)
  BY <1>2
<1>6. \A u \in TUIs : \A k \in 1..Len(fromTUI[u]) : IsResult(u, k) /\ (u # t \/ k # 1) =>
        work'[Of(u, k)] = "done"
  <2> SUFFICES ASSUME NEW u \in TUIs, NEW k \in 1..Len(fromTUI[u]), IsResult(u, k), u # t \/ k # 1
               PROVE  work'[Of(u, k)] = "done"
    OBVIOUS
  <2>1. work[Of(u, k)] = "done" /\ target[Of(u, k)] = u /\ Of(u, k) \in Requests
    BY ResultsKnown DEF IInv, Results
  <2>2. ASSUME m.type = "result" PROVE m.req # Of(u, k)
    BY <1>2, <2>1, <2>2 DEF IInv, Results, IsResult, Of
  <2> QED
    BY <1>4, <2>1, <2>2 DEF IInv, TypeOK
<1>7. Results'
  <2> SUFFICES ASSUME NEW u \in TUIs, NEW i \in 1..Len(fromTUI'[u]), fromTUI'[u][i].type = "result"
               PROVE  LET s == fromTUI'[u][i].req IN
                      /\ work'[s] = "done" /\ target'[s] = u
                      /\ \A j \in 1..Len(fromTUI'[u]) :
                           fromTUI'[u][j].type = "result" /\ fromTUI'[u][j].req = s => i = j
    BY DEF Results, IsResult, Of
  <2>1. PICK k \in 1..Len(fromTUI[u]) : fromTUI'[u][i] = fromTUI[u][k] /\ k = (IF u = t THEN i + 1 ELSE i)
    BY <1>5
  <2>2. i \in Nat \ {0} /\ IsResult(u, k)
    BY <2>1, <1>2 DEF IsResult
  <2>3. work'[Of(u, k)] = "done" /\ target[Of(u, k)] = u
    BY <1>6, <2>1, <2>2 DEF IInv, Results
  <2>4. ASSUME NEW j \in 1..Len(fromTUI'[u]), fromTUI'[u][j].type = "result",
               fromTUI'[u][j].req = Of(u, k)
        PROVE  i = j
    <3>1. PICK l \in 1..Len(fromTUI[u]) : /\ fromTUI'[u][j] = fromTUI[u][l]
                                          /\ l = (IF u = t THEN j + 1 ELSE j)
      BY <1>5
    <3>2. IsResult(u, l) /\ Of(u, l) = Of(u, k)
      BY <2>4, <3>1 DEF IsResult, Of
    <3>3. k = l
      BY <2>2, <3>2 DEF IInv, Results
    <3> QED
      BY <2>1, <3>1, <3>3
  <2> QED
    BY <2>1, <2>3, <2>4 DEF Of
<1>8. Sent'
  BY <1>5 DEF IInv, Sent, IsResult, Of
<1>9. StateFirst'
  <2> SUFFICES ASSUME NEW u \in TUIs, NEW i \in 1..Len(fromTUI'[u]), fromTUI'[u][i].type = "result",
                      fromTUI'[u][i].ok, form'[fromTUI'[u][i].req].kind = "command",
                      fromTUI'[u][i].req \notin state'
               PROVE  \E j \in 1..(i - 1) : /\ fromTUI'[u][j].type = "state"
                                            /\ fromTUI'[u][i].req \in fromTUI'[u][j].effects
    BY DEF StateFirst, IsResult, Of, Kind
  <2>1. PICK k \in 1..Len(fromTUI[u]) : fromTUI'[u][i] = fromTUI[u][k] /\ k = (IF u = t THEN i + 1 ELSE i)
    BY <1>5
  <2>2. PICK j \in 1..(k - 1) : fromTUI[u][j].type = "state" /\ Of(u, k) \in fromTUI[u][j].effects
    BY <2>1 DEF IInv, StateFirst, IsResult, Of, Kind
  <2>3. u # t \/ j # 1
    BY <1>2, <2>1, <2>2 DEF Of
  <2>4. CASE u # t
    BY <1>2, <2>1, <2>2, <2>4 DEF Of
  <2>5. CASE u = t
    <3>1. j - 1 \in 1..(i - 1) /\ j - 1 \in 1..Len(fromTUI'[u]) /\ fromTUI'[u][j - 1] = fromTUI[u][j]
      BY <1>2, <2>1, <2>2, <2>3, <2>5
    <3> QED
      BY <2>1, <2>2, <3>1 DEF Of
  <2> QED
    BY <2>4, <2>5
<1> QED
  BY <1>3, <1>7, <1>8, <1>9

(* A TUI sends the state, then the success of what made it.                *)
LEMMA BothSent ==
  ASSUME IInv, NEW r \in Requests, NEW reqs \in SUBSET Requests, r \in reqs,
         work[r] = "posted",
         fromTUI' = [fromTUI EXCEPT ![target[r]] = @ \o <<Push(reqs), Result(r, TRUE)>>],
         work' = [work EXCEPT ![r] = "done"],
         carried \subseteq carried', r \in carried',
         UNCHANGED <<form, target, state>>
  PROVE  /\ fromTUI' \in [TUIs -> Seq(Messages)]
         /\ Results' /\ Sent' /\ StateFirst'
<1> DEFINE t == target[r]
           q == fromTUI[t]
           p == Push(reqs)
           m == Result(r, TRUE)
<1>1. t \in TUIs /\ q \in Seq(Messages) /\ fromTUI \in [TUIs -> Seq(Messages)]
  BY DEF IInv, Stages, TypeOK
<1>2. /\ p \in Messages /\ p.type = "state" /\ p.effects = reqs
      /\ m \in Messages /\ m.type = "result" /\ m.req = r
  BY PushKnown, ResultKnown
<1> HIDE DEF p, m
<1>3. /\ fromTUI'[t] = q \o <<p, m>> /\ Len(fromTUI'[t]) = Len(q) + 2
      /\ fromTUI'[t][Len(q) + 1] = p /\ fromTUI'[t][Len(q) + 2] = m
      /\ fromTUI'[t] \in Seq(Messages)
      /\ \A i \in 1..Len(q) : fromTUI'[t][i] = fromTUI[t][i]
      /\ \A u \in TUIs \ {t} : fromTUI'[u] = fromTUI[u]
  <2>1. fromTUI' = [fromTUI EXCEPT ![t] = q \o <<p, m>>]
    BY DEF p, m
  <2>2. fromTUI'[t] = q \o <<p, m>> /\ \A u \in TUIs \ {t} : fromTUI'[u] = fromTUI[u]
    BY <1>1, <2>1
  <2> HIDE DEF q
  <2>3. /\ q \o <<p, m>> \in Seq(Messages) /\ Len(q \o <<p, m>>) = Len(q) + 2
        /\ (q \o <<p, m>>)[Len(q) + 1] = p /\ (q \o <<p, m>>)[Len(q) + 2] = m
        /\ \A i \in 1..Len(q) : (q \o <<p, m>>)[i] = q[i]
    BY <1>1, <1>2, TwoMore
  <2> QED
    BY <2>2, <2>3 DEF q
<1>4. fromTUI' \in [TUIs -> Seq(Messages)]
  <2>1. fromTUI' = [fromTUI EXCEPT ![t] = q \o <<p, m>>]
    BY DEF p, m
  <2> QED
    BY <1>1, <1>3, <2>1
<1>5. Len(q) \in Nat /\ \A u \in TUIs : Len(fromTUI[u]) \in Nat
  BY <1>1
<1>6. \A u \in TUIs : \A i \in 1..Len(fromTUI[u]) : IsResult(u, i) => Of(u, i) # r
  BY DEF IInv, Results
<1>7. \A u \in TUIs : \A i \in 1..Len(fromTUI'[u]) : fromTUI'[u][i].type = "result" =>
         \/ i \in 1..Len(fromTUI[u]) /\ fromTUI'[u][i] = fromTUI[u][i]
         \/ u = t /\ i = Len(q) + 2 /\ fromTUI'[u][i] = m
  <2> SUFFICES ASSUME NEW u \in TUIs, NEW i \in 1..Len(fromTUI'[u]), fromTUI'[u][i].type = "result",
                      u = t
               PROVE  \/ i \in 1..Len(q) /\ fromTUI'[u][i] = fromTUI[u][i]
                      \/ i = Len(q) + 2 /\ fromTUI'[u][i] = m
    BY <1>3, <1>5
  <2>1. i # Len(q) + 1
    BY <1>2, <1>3
  <2>2. i \in 1..Len(q) \/ i = Len(q) + 2
    BY <1>3, <1>5, <2>1
  <2> QED
    BY <1>3, <2>2
<1>8. Results'
  <2> SUFFICES ASSUME NEW u \in TUIs, NEW i \in 1..Len(fromTUI'[u]), fromTUI'[u][i].type = "result"
               PROVE  LET s == fromTUI'[u][i].req IN
                      /\ work'[s] = "done" /\ target'[s] = u
                      /\ \A j \in 1..Len(fromTUI'[u]) :
                           fromTUI'[u][j].type = "result" /\ fromTUI'[u][j].req = s => i = j
    BY DEF Results, IsResult, Of
  <2>1. CASE i \in 1..Len(fromTUI[u]) /\ fromTUI'[u][i] = fromTUI[u][i]
    <3>1. Of(u, i) # r /\ Of(u, i) \in Requests /\ work[Of(u, i)] = "done" /\ target[Of(u, i)] = u
      BY <2>1, <1>6, ResultsKnown DEF IInv, Results, IsResult
    <3>2. ASSUME NEW j \in 1..Len(fromTUI'[u]), fromTUI'[u][j].type = "result",
                 fromTUI'[u][j].req = Of(u, i)
          PROVE  i = j
      <4>1. j \in 1..Len(fromTUI[u]) /\ fromTUI'[u][j] = fromTUI[u][j]
        BY <1>2, <1>7, <3>1, <3>2
      <4> QED
        BY <2>1, <3>2, <4>1 DEF IInv, Results, IsResult, Of
    <3> QED
      BY <2>1, <3>1, <3>2 DEF Of, IInv, TypeOK
  <2>2. CASE u = t /\ i = Len(q) + 2 /\ fromTUI'[u][i] = m
    <3>1. fromTUI'[u][i].req = r
      BY <2>2, <1>2
    <3>2. work'[r] = "done" /\ target'[r] = u
      BY <2>2 DEF IInv, TypeOK
    <3>3. ASSUME NEW j \in 1..Len(fromTUI'[u]), fromTUI'[u][j].type = "result",
                 fromTUI'[u][j].req = r
          PROVE  i = j
      BY <2>2, <1>6, <1>7, <3>3 DEF IsResult, Of
    <3> QED
      BY <3>1, <3>2, <3>3
  <2> QED
    BY <1>7, <2>1, <2>2
<1>9. Sent'
  <2> SUFFICES ASSUME NEW u \in TUIs, NEW i \in 1..Len(fromTUI'[u]), fromTUI'[u][i].type = "result",
                      fromTUI'[u][i].ok
               PROVE  fromTUI'[u][i].req \in carried'
    BY DEF Sent, IsResult, Of
  <2>1. CASE i \in 1..Len(fromTUI[u]) /\ fromTUI'[u][i] = fromTUI[u][i]
    BY <2>1 DEF IInv, Sent, IsResult, Of
  <2>2. CASE fromTUI'[u][i] = m
    BY <2>2, <1>2
  <2> QED
    BY <1>7, <2>1, <2>2
<1>10. StateFirst'
  <2> SUFFICES ASSUME NEW u \in TUIs, NEW i \in 1..Len(fromTUI'[u])
               PROVE  \/ i \in 1..Len(fromTUI[u]) /\ fromTUI'[u][i] = fromTUI[u][i]
                      \/ /\ i > Len(fromTUI[u])
                         /\ fromTUI'[u][i].type = "result" =>
                              \E j \in 1..(i - 1) : /\ fromTUI'[u][j].type = "state"
                                                    /\ fromTUI'[u][i].req \in fromTUI'[u][j].effects
    BY <1>5, StateFirstSent DEF IInv
  <2>1. CASE i \in 1..Len(fromTUI[u])
    BY <1>3, <2>1
  <2>2. CASE i \notin 1..Len(fromTUI[u])
    <3>1. u = t /\ i \in {Len(q) + 1, Len(q) + 2}
      BY <1>3, <1>5, <2>2
    <3>2. i > Len(fromTUI[u])
      BY <1>5, <2>2
    <3>3. CASE i = Len(q) + 1
      BY <1>2, <1>3, <3>1, <3>2, <3>3
    <3>4. CASE i = Len(q) + 2
      <4>1. Len(q) + 1 \in 1..(i - 1)
        BY <1>5, <3>4
      <4>2. fromTUI'[u][Len(q) + 1] = p /\ fromTUI'[u][i] = m
        BY <1>3, <3>1, <3>4
      <4> QED
        BY <1>2, <3>2, <4>1, <4>2
    <3> QED
      BY <3>1, <3>3, <3>4
  <2> QED
    BY <2>1, <2>2
<1> QED
  BY <1>4, <1>8, <1>9, <1>10

-----------------------------------------------------------------------------
(* The actions that send or take a message.                                *)
LEMMA FailKeeps ==
  ASSUME IInv, NEW r \in Requests, Fail(r)
  PROVE  IInv'
<1> USE DEF Fail, Works, Sends, Daemon, Clients
<1>1. fromTUI' \in [TUIs -> Seq(Messages)] /\ Results' /\ Sent' /\ StateFirst'
  BY ResultSent
<1>2. TypeOK'
  BY <1>1 DEF IInv, TypeOK
<1>3. Stages' /\ Entries'
  BY DEF IInv, Stages, Entries, Kind, Via, TypeOK
<1>4. Truths'
  BY DEF IInv, Truths, Recorded, TypeOK
<1>5. WaitersHear' /\ ReadBackSees' /\ AnimationsComeBack'
  BY DEF IInv, WaitersHear, ReadBackSees, AnimationsComeBack, Kind, TypeOK
<1> QED
  BY <1>1, <1>2, <1>3, <1>4, <1>5 DEF IInv

LEMMA FinishKeeps ==
  ASSUME IInv, NEW r \in Requests, Finish(r)
  PROVE  IInv'
<1> USE DEF Finish, Works, Sends, Daemon, Clients
<1>1. fromTUI' \in [TUIs -> Seq(Messages)] /\ Results' /\ Sent' /\ StateFirst'
  <2>1. r \in carried /\ Kind(r) # "command"
    BY DEF IInv, Truths, Stages
  <2> QED
    BY <2>1, ResultSent
<1>2. target[r] \in TUIs
  BY DEF IInv, Stages
<1>3. TypeOK'
  <2>1. suppressed' \in [TUIs -> BOOLEAN]
    BY <1>2 DEF IInv, TypeOK
  <2>2. work' \in [Requests -> {"none", "posted", "working", "quiet", "done", "reported", "lost"}]
    BY DEF IInv, TypeOK
  <2>3. CASE local' = local
    BY <1>1, <2>1, <2>2, <2>3 DEF IInv, TypeOK
  <2>4. CASE local' = [local EXCEPT ![target[r]] = @ \cup {r}]
    <3>1. local \in [TUIs -> SUBSET Requests] /\ local[target[r]] \cup {r} \in SUBSET Requests
      BY <1>2 DEF IInv, TypeOK
    <3>2. local' \in [TUIs -> SUBSET Requests]
      BY <2>4, <3>1
    <3> QED
      BY <1>1, <2>1, <2>2, <3>2 DEF IInv, TypeOK
  <2> QED
    BY <2>3, <2>4
<1>4. Stages' /\ Entries'
  BY DEF IInv, Stages, Entries, Kind, Via, TypeOK
<1>5. Truths'
  BY DEF IInv, Truths, Recorded, TypeOK
<1>6. WaitersHear' /\ ReadBackSees'
  BY DEF IInv, WaitersHear, ReadBackSees, Kind, TypeOK
<1>7. AnimationsComeBack'
  BY DEF IInv, AnimationsComeBack, TypeOK
<1> QED
  BY <1>1, <1>3, <1>4, <1>5, <1>6, <1>7 DEF IInv

LEMMA RunKeeps ==
  ASSUME IInv, NEW r \in Requests, Run(r)
  PROVE  IInv'
<1> USE DEF Run, Works, Sends, Daemon, Clients
<1>1. target[r] \in TUIs /\ local[target[r]] \cup {r} \in SUBSET Requests
  BY DEF IInv, Stages, TypeOK
<1>2. fromTUI' \in [TUIs -> Seq(Messages)] /\ Results' /\ Sent' /\ StateFirst'
  BY <1>1, BothSent
<1>3. TypeOK'
  BY <1>1, <1>2 DEF IInv, TypeOK
<1>4. Stages' /\ Entries'
  BY DEF IInv, Stages, Entries, Kind, Via, TypeOK
<1>5. Truths'
  BY DEF IInv, Truths, Recorded, TypeOK
<1>6. WaitersHear' /\ ReadBackSees' /\ AnimationsComeBack'
  BY DEF IInv, WaitersHear, ReadBackSees, AnimationsComeBack, Kind, TypeOK
<1> QED
  BY <1>2, <1>3, <1>4, <1>5, <1>6 DEF IInv

LEMMA StepKeeps ==
  ASSUME IInv, NEW r \in Requests, Step(r)
  PROVE  IInv'
<1> USE DEF Step, Sends, Daemon, Clients
<1>1. target[r] \in TUIs /\ local[target[r]] \cup {r} \in SUBSET Requests
  BY DEF IInv, Stages, TypeOK
<1>2. fromTUI' \in [TUIs -> Seq(Messages)] /\ Results' /\ Sent' /\ StateFirst'
  <2>1. CASE fromTUI' = fromTUI
    <3>1. UNCHANGED <<form, target, work, state>> /\ carried \subseteq carried'
      OBVIOUS
    <3> HIDE DEF Step
    <3>2. fromTUI' \in [TUIs -> Seq(Messages)]
      BY <2>1 DEF IInv, TypeOK
    <3> QED
      BY <2>1, <3>1, <3>2, SentStays, StateFirstStays DEF IInv
  <2>2. CASE fromTUI' # fromTUI
    BY <2>2, <1>1, StateSent
  <2> QED
    BY <2>1, <2>2
<1>3. local' \in [TUIs -> SUBSET Requests]
  BY <1>1 DEF IInv, TypeOK
<1>4. left[r] - 1 \in 0..MaxSteps
  BY CommandRoutingAssumption DEF IInv, TypeOK
<1>5. TypeOK'
  BY <1>2, <1>3, <1>4 DEF IInv, TypeOK
<1>6. Stages' /\ Entries'
  BY DEF IInv, Stages, Entries, Kind, Via, TypeOK
<1>7. Truths'
  BY CommandRoutingAssumption DEF IInv, Truths, Recorded, TypeOK
<1>8. WaitersHear' /\ ReadBackSees' /\ AnimationsComeBack'
  BY DEF IInv, WaitersHear, ReadBackSees, AnimationsComeBack, Kind, TypeOK
<1> QED
  BY <1>2, <1>5, <1>6, <1>7, <1>8 DEF IInv

LEMMA TakeStateKeeps ==
  ASSUME IInv, NEW t \in TUIs, TakeState(t)
  PROVE  IInv'
<1> USE DEF TakeState, Reads, Daemon, Clients
<1>1. fromTUI' \in [TUIs -> Seq(Messages)] /\ Results' /\ Sent' /\ StateFirst'
  BY Received
<1>2. Head(fromTUI[t]).effects \subseteq Requests
  <2>1. fromTUI[t] \in Seq(Messages)
    BY DEF IInv, TypeOK
  <2> QED
    BY <2>1, OneLess, ResultsKnown DEF IInv
<1>3. TypeOK'
  BY <1>1, <1>2 DEF IInv, TypeOK
<1>4. Stages' /\ Entries' /\ Truths'
  BY DEF IInv, Stages, Entries, Truths, Recorded, Kind, Via
<1>5. WaitersHear' /\ ReadBackSees' /\ AnimationsComeBack'
  BY DEF IInv, WaitersHear, ReadBackSees, AnimationsComeBack, Kind
<1> QED
  BY <1>1, <1>3, <1>4, <1>5 DEF IInv

LEMMA TakeResultKeeps ==
  ASSUME IInv, NEW t \in TUIs, TakeResult(t)
  PROVE  IInv'
<1> DEFINE m == Head(fromTUI[t])
           r == m.req
<1> USE DEF TakeResult, Reads, Works, Reply, Verdict, Clients
<1>1. fromTUI' \in [TUIs -> Seq(Messages)] /\ Results' /\ Sent' /\ StateFirst'
  BY Received
<1>2. /\ r \in Requests /\ m.ok \in BOOLEAN /\ work[r] = "done"
      /\ m.ok => r \in carried
      /\ m.ok /\ Kind(r) = "command" => r \in state
  <2>1. fromTUI[t] \in Seq(Messages) /\ fromTUI[t] # <<>>
    BY DEF IInv, TypeOK
  <2>2. m = fromTUI[t][1] /\ 1 \in 1..Len(fromTUI[t])
    BY <2>1, OneLess
  <2>3. IsResult(t, 1) /\ Of(t, 1) = r
    BY <2>2 DEF IsResult, Of
  <2> QED
    BY <2>2, <2>3, ResultsKnown DEF IInv, Results, Sent, StateFirst
<1> HIDE DEF m
<1>3. /\ work' = [work EXCEPT ![r] = "reported"] /\ pending' = [pending EXCEPT ![r] = "none"]
      /\ slot' = IF pending[r] = "channel" THEN [slot EXCEPT ![r] = Verdict(m.ok)] ELSE slot
      /\ answer' = IF pending[r] = "requester" /\ answer[r] = "none"
                   THEN [answer EXCEPT ![r] = Verdict(m.ok)] ELSE answer
      /\ UNCHANGED <<form, handler, target, left, suppressed, local, alive, attached, state, carried>>
  BY DEF m
<1> HIDE DEF TakeResult, Reads, Works, Reply
<1>4. TypeOK'
  BY <1>1, <1>2, <1>3 DEF IInv, TypeOK
<1>5. Stages'
  BY <1>2, <1>3 DEF IInv, Stages, Kind, Via, TypeOK
<1>6. Entries'
  BY <1>2, <1>3 DEF IInv, Entries, Stages, Kind, Via, TypeOK
<1>7. Truths'
  BY <1>2, <1>3 DEF IInv, Truths, Recorded, TypeOK
<1>8. WaitersHear'
  BY <1>2, <1>3 DEF IInv, WaitersHear, Entries, TypeOK
<1>9. ReadBackSees'
  BY <1>2, <1>3 DEF IInv, ReadBackSees, Stages, Kind, TypeOK
<1>10. AnimationsComeBack'
  BY <1>2, <1>3 DEF IInv, AnimationsComeBack, TypeOK
<1> QED
  BY <1>1, <1>4, <1>5, <1>6, <1>7, <1>8, <1>9, <1>10 DEF IInv

-----------------------------------------------------------------------------
(* IInv is inductive.                                                      *)
LEMMA StepKeepsIInv == IInv /\ [Next]_vars => IInv'
<1> SUFFICES ASSUME IInv, [Next]_vars
             PROVE  IInv'
  OBVIOUS
<1>1. CASE UNCHANGED vars
  BY <1>1 DEF vars, IInv, TypeOK, Stages, Entries, Results, Truths, Sent, StateFirst,
              WaitersHear, ReadBackSees, AnimationsComeBack, Recorded, IsResult, Of, Kind, Via
<1>2. ASSUME NEW r \in Requests,
             \/ \E f \in Forms : Ask(r, f)
             \/ Handles(r) \/ Executes(r) \/ RouteTimesOut(r) \/ GiveUp(r)
      PROVE  IInv'
  <2>1. CASE \E f \in Forms : Ask(r, f)
    BY <2>1, AskKeeps
  <2>2. CASE Handles(r)
    BY <2>2, RunHereKeeps, ForwardKeeps, ForwardFailsKeeps, TrackKeeps, HeardKeeps, ForgetKeeps,
       RouteKeeps DEF Handles
  <2>3. CASE Executes(r)
    BY <2>3, FailKeeps, RunKeeps, TypeLiteralKeeps, BeginKeeps, StepKeeps, FinishKeeps
        DEF Executes
  <2>4. CASE RouteTimesOut(r)
    BY <2>4, RouteTimesOutKeeps
  <2>5. CASE GiveUp(r)
    BY <2>5, GiveUpKeeps
  <2> QED
    BY <1>2, <2>1, <2>2, <2>3, <2>4, <2>5
<1>3. ASSUME NEW t \in TUIs, TakeState(t) \/ TakeResult(t) \/ TUIDies(t) \/ DropTUI(t)
      PROVE  IInv'
  BY <1>3, TakeStateKeeps, TakeResultKeeps, TUIDiesKeeps, DropTUIKeeps
<1> QED
  BY <1>1, <1>2, <1>3 DEF Next

THEOREM Invariance == Spec => []IInv
<1>1. Init => IInv
  BY InitHolds
<1>2. IInv /\ [Next]_vars => IInv'
  BY StepKeepsIInv
<1> QED
  BY <1>1, <1>2, PTL DEF Spec

(* Every variable keeps its type.                                          *)
THEOREM TypesHold == Spec => []TypeOK
  BY Invariance, PTL DEF IInv

(* Whoever is told that a command was run can read its effect back from    *)
(* the daemon at once, whatever else is on its way from any TUI.           *)
THEOREM ReadBackSeesHolds == Spec => []ReadBackSees
  BY Invariance, PTL DEF IInv

(* A TUI has its animations off only while keys or a script run in it.     *)
THEOREM AnimationsComeBackHold == Spec => []AnimationsComeBack
  BY Invariance, PTL DEF IInv

(* A verb that still waits for a result the TUI has reported has it.       *)
THEOREM WaitersHearHolds == Spec => []WaitersHear
  BY Invariance, PTL DEF IInv

-----------------------------------------------------------------------------
(* The promise: every step is one of AnswerOnce's, or leaves what it       *)
(* speaks of alone.                                                        *)
Asked == {r \in Requests : form[r] # None}

LEMMA AnsweredAt ==
  ASSUME IInv, NEW r \in Requests, NEW a \in {"ok", "failed", "gone"},
         form[r] # None, a = "ok" => r \in carried,
         answer' = IF answer[r] = "none" THEN [answer EXCEPT ![r] = a] ELSE answer,
         UNCHANGED <<form, carried>>
  PROVE  [Promise!Next]_Promise!vars
<1>1. CASE answer[r] = "none"
  <2>1. Promise!Answer(r, a)
    BY <1>1 DEF Promise!Answer
  <2> QED
    BY <2>1 DEF Promise!Next
<1>2. CASE answer[r] # "none"
  BY <1>2 DEF Promise!vars
<1> QED
  BY <1>1, <1>2

LEMMA CarriedAt ==
  ASSUME IInv, NEW r \in Requests, form[r] # None, carried' \in {carried, carried \cup {r}},
         UNCHANGED <<form, answer>>
  PROVE  [Promise!Next]_Promise!vars
<1>1. CASE carried' = carried
  BY <1>1 DEF Promise!vars
<1>2. CASE carried' = carried \cup {r} /\ r \notin carried
  <2>1. Promise!CarryOut(r)
    BY <1>2 DEF Promise!CarryOut
  <2> QED
    BY <2>1 DEF Promise!Next
<1>3. CASE carried' = carried \cup {r} /\ r \in carried
  BY <1>3 DEF Promise!vars
<1> QED
  BY <1>1, <1>2, <1>3

LEMMA OnlyTheAsked ==
  ASSUME IInv, NEW r \in Requests, handler[r] # "idle" \/ work[r] # "none" \/ answer[r] # "none"
  PROVE  form[r] # None
  BY DEF IInv, Stages, TypeOK

LEMMA EveryStepPromised == IInv /\ [Next]_vars => [Promise!Next]_Promise!vars
<1> SUFFICES ASSUME IInv, [Next]_vars
             PROVE  [Promise!Next]_Promise!vars
  OBVIOUS
<1>1. CASE UNCHANGED <<form, carried, answer>>
  BY <1>1 DEF Promise!vars
<1>2. ASSUME NEW r \in Requests, NEW f \in Forms, Ask(r, f)
      PROVE  [Promise!Next]_Promise!vars
  <2>1. f # None /\ form[r] = None /\ form' = [form EXCEPT ![r] = f]
    BY <1>2, FormsKnown DEF Ask
  <2>2. Asked' = Asked \cup {r} /\ r \notin Asked
    BY <2>1 DEF Asked, IInv, TypeOK
  <2>3. Promise!Ask(r)
    BY <1>2, <2>2 DEF Promise!Ask, Asked, Ask
  <2> QED
    BY <2>3 DEF Promise!Next
<1>3. ASSUME NEW r \in Requests, RunHere(r)
      PROVE  [Promise!Next]_Promise!vars
  <2>1. form[r] # None /\ r \notin carried /\ form' = form
    BY <1>3 DEF RunHere, IInv, Stages
  <2>2. CASE carried' = carried \cup {r} /\ Reply(r, "ok") /\ answer[r] = "none"
    <3>1. Promise!Serve(r)
      BY <2>1, <2>2 DEF Promise!Serve, Reply
    <3> QED
      BY <3>1 DEF Promise!Next
  <2>3. CASE carried' = carried \cup {r} /\ Reply(r, "ok") /\ answer[r] # "none"
    BY <2>1, <2>3, CarriedAt DEF Reply
  <2>4. CASE carried' = carried /\ Reply(r, "failed")
    BY <2>1, <2>4, AnsweredAt DEF Reply
  <2> QED
    BY <1>3, <2>2, <2>3, <2>4 DEF RunHere
<1>4. ASSUME NEW r \in Requests, NEW t \in TUIs, Route(r, t)
      PROVE  [Promise!Next]_Promise!vars
  BY <1>4, OnlyTheAsked, CarriedAt DEF Route
<1>5. ASSUME NEW r \in Requests, ForwardFails(r) \/ RouteTimesOut(r)
      PROVE  [Promise!Next]_Promise!vars
  <2>1. form[r] # None /\ (Told(r, FALSE) = "ok" => r \in carried) /\ Told(r, FALSE) \in {"ok", "failed"}
    BY <1>5, OnlyTheAsked DEF ForwardFails, RouteTimesOut, Told, Verdict, Recorded, IInv, Truths
  <2> QED
    BY <1>5, <2>1, AnsweredAt DEF ForwardFails, RouteTimesOut, Reply
<1>6. ASSUME NEW r \in Requests, Heard(r)
      PROVE  [Promise!Next]_Promise!vars
  <2> DEFINE a == Told(r, slot[r] = "ok")
  <2>1. form[r] # None /\ (a = "ok" => r \in carried) /\ a \in {"ok", "failed"}
    BY <1>6, OnlyTheAsked DEF Heard, Told, Verdict, Recorded, IInv, Truths
  <2> QED
    BY <1>6, <2>1, AnsweredAt DEF Heard, Reply
<1>7. ASSUME NEW r \in Requests, GiveUp(r)
      PROVE  [Promise!Next]_Promise!vars
  BY <1>7, AnsweredAt DEF GiveUp, Reply
<1>8. ASSUME NEW r \in Requests, Run(r) \/ TypeLiteral(r) \/ Step(r)
      PROVE  [Promise!Next]_Promise!vars
  BY <1>8, OnlyTheAsked, CarriedAt DEF Run, TypeLiteral, Step, Daemon
<1>9. ASSUME NEW t \in TUIs, TakeResult(t)
      PROVE  [Promise!Next]_Promise!vars
  <2> DEFINE m == Head(fromTUI[t])
             r == m.req
  <2>1. /\ r \in Requests /\ m.ok \in BOOLEAN /\ work[r] = "done"
        /\ m.ok => r \in carried
    <3>1. fromTUI[t] \in Seq(Messages) /\ fromTUI[t] # <<>>
      BY <1>9 DEF IInv, TypeOK, TakeResult, Reads
    <3>2. m = fromTUI[t][1] /\ 1 \in 1..Len(fromTUI[t])
      BY <3>1, OneLess
    <3>3. IsResult(t, 1) /\ Of(t, 1) = r
      BY <1>9, <3>2 DEF IsResult, Of, TakeResult, Reads
    <3> QED
      BY <3>2, <3>3, ResultsKnown DEF IInv, Results, Sent
  <2>2. form[r] # None
    BY <2>1, OnlyTheAsked
  <2>3. CASE pending[r] = "requester"
    <3>1. answer' = IF answer[r] = "none" THEN [answer EXCEPT ![r] = Verdict(m.ok)] ELSE answer
      BY <1>9, <2>3 DEF TakeResult, Reply
    <3>2. Verdict(m.ok) \in {"ok", "failed"} /\ (Verdict(m.ok) = "ok" => r \in carried)
      BY <2>1 DEF Verdict
    <3>3. UNCHANGED <<form, carried>>
      BY <1>9 DEF TakeResult
    <3> HIDE DEF m
    <3> QED
      BY <2>1, <2>2, <3>1, <3>2, <3>3, AnsweredAt
  <2>4. CASE pending[r] # "requester"
    BY <1>1, <1>9, <2>4 DEF TakeResult
  <2> QED
    BY <2>3, <2>4
<1>10. CASE UNCHANGED vars
  BY <1>1, <1>10 DEF vars
<1>11. ASSUME NEW r \in Requests,
              Forward(r) \/ Track(r) \/ Forget(r) \/ Fail(r) \/ Begin(r) \/ Finish(r)
       PROVE  [Promise!Next]_Promise!vars
  BY <1>1, <1>11 DEF Forward, Track, Forget, Fail, Begin, Finish, Daemon
<1>12. ASSUME NEW t \in TUIs, TakeState(t) \/ TUIDies(t) \/ DropTUI(t)
       PROVE  [Promise!Next]_Promise!vars
  BY <1>1, <1>12 DEF TakeState, TUIDies, DropTUI, Daemon
<1> QED
  BY <1>2, <1>3, <1>4, <1>5, <1>6, <1>7, <1>8, <1>9, <1>10, <1>11, <1>12
  DEF Next, Handles, Executes

(* A routed request is carried out at most once, answered at most once,    *)
(* and told a success only of what was carried out.                        *)
THEOREM AnsweredHolds == Spec => Answered
<1>1. Init => Promise!Init
  BY DEF Init, Promise!Init
<1>2. IInv /\ [Next]_vars => [Promise!Next]_Promise!vars
  BY EveryStepPromised
<1> QED
  BY <1>1, <1>2, Invariance, PTL DEF Spec, Answered, Promise!Spec
=============================================================================
