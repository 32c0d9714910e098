--------------------------- MODULE EventHubProofs ---------------------------
(***************************************************************************)
(* Proofs about EventHub, for any subscriptions, waits, queue capacity and *)
(* number of events.                                                       *)
(*                                                                         *)
(* The argument: every event offered to a subscription is in one place     *)
(* (Tally, Whole), what lies in a queue is younger than what its streamer  *)
(* holds, which is younger than what it wrote (Order); one streamer writes *)
(* at a time and none while an ack is owed (ConnOK); and an event of an    *)
(* exit is raised after the exit (WaitOK).                                 *)
(***************************************************************************)
EXTENDS EventHub, FiniteSetTheorems, SequenceTheorems, TLAPS

SetsOK == /\ subs \subseteq Subs /\ uncounted \subseteq subs /\ stopped \subseteq Subs
          /\ happened \subseteq Types \cup {"screen"} /\ raised \subseteq Types

BoundOK == seq \in Nat /\ seq + Cardinality(raised) <= MaxSeq

QueueOK ==
  /\ queue \in [Subs -> Seq(Nat)]
  /\ \A s \in Subs : /\ Len(queue[s]) <= QueueCap
                     /\ \A i \in 1..Len(queue[s]) : queue[s][i] \in 1..seq

Tally ==
  /\ dropped \in [Subs -> Nat] /\ due \in [Subs -> Nat]
  /\ \A s \in Subs : dropped[s] + Len(queue[s]) + Flag(s \in uncounted) <= due[s] /\ due[s] <= seq

ConnOK ==
  /\ verb \in {"ready", "acking", "failed", "gone"}
  /\ eventSub \in Streams \cup {None} /\ pendingStream \in Streams \cup {None}
  /\ turn \in Streams \cup {None} /\ streaming \in BOOLEAN /\ done \in BOOLEAN
  /\ \A s \in Streams : Writing(s) => streaming /\ turn = s
  /\ verb = "acking" => /\ streaming /\ pendingStream \in Streams
                        /\ streamer[pendingStream] = "none"
                        /\ \A s \in Streams : ~Writing(s)

StreamOK ==
  /\ streamer \in [Streams -> {"none", "running", "writing", "leaving", "over"}]
  /\ hand \in [Streams -> Nat]
  /\ wrote \in [Streams -> [events : Nat, told : Nat, last : Nat]]
  /\ \A s \in Streams : /\ streamer[s] \in {"none", "running"} => hand[s] = 0
                        /\ streamer[s] = "writing" => hand[s] # 0

Whole ==
  \A s \in Streams :
    due[s] = wrote[s].events + wrote[s].told + dropped[s] + Len(queue[s])
             + Flag(hand[s] # 0) + Flag(s \in uncounted)

Order ==
  \A s \in Streams :
    /\ wrote[s].last <= seq /\ hand[s] <= seq
    /\ hand[s] # 0 => wrote[s].last < hand[s]
    /\ \A i \in 1..Len(queue[s]) :
         /\ wrote[s].last < queue[s][i] /\ hand[s] < queue[s][i]
         /\ \A j \in 1..Len(queue[s]) : i < j => queue[s][i] < queue[s][j]

ExitKnown == "exit" \in happened \/ "closed" \in happened

WaitOK ==
  /\ cond \in [Waits -> Conds]
  /\ waiter \in [Waits -> {"idle", "subscribed", "waiting", "matched", "timedout"}]
  /\ raised \cap {"exit", "closed"} # {} => ExitKnown
  /\ \A w \in Waits : cond[w] = "window-exit" /\ queue[w] # <<>> => ExitKnown

IInv == /\ SetsOK /\ BoundOK /\ QueueOK /\ Tally /\ ConnOK /\ StreamOK /\ Whole /\ Order
        /\ WaitOK /\ MatchedIsTrue

-----------------------------------------------------------------------------
LEMMA CardinalityOfRaised ==
  ASSUME SetsOK
  PROVE  /\ Cardinality(raised) \in Nat
         /\ \A type \in Types \ raised : Cardinality(raised \cup {type}) = Cardinality(raised) + 1
         /\ \A type \in raised : Cardinality(raised \ {type}) = Cardinality(raised) - 1
<1>1. IsFiniteSet({}) /\ IsFiniteSet({"output"}) /\ IsFiniteSet({"output", "exit"})
      /\ IsFiniteSet({"output", "exit", "closed"})
      /\ IsFiniteSet({"output", "exit", "closed", "created"})
  <2>1. IsFiniteSet({})
    BY FS_EmptySet
  <2>2. IsFiniteSet({} \cup {"output"}) /\ {} \cup {"output"} = {"output"}
    BY <2>1, FS_AddElement
  <2>3. IsFiniteSet({"output"} \cup {"exit"}) /\ {"output"} \cup {"exit"} = {"output", "exit"}
    BY <2>2, FS_AddElement
  <2>4. /\ IsFiniteSet({"output", "exit"} \cup {"closed"})
        /\ {"output", "exit"} \cup {"closed"} = {"output", "exit", "closed"}
    BY <2>3, FS_AddElement
  <2>5. /\ IsFiniteSet({"output", "exit", "closed"} \cup {"created"})
        /\ {"output", "exit", "closed"} \cup {"created"} = {"output", "exit", "closed", "created"}
    BY <2>4, FS_AddElement
  <2> QED
    BY <2>1, <2>2, <2>3, <2>4, <2>5
<1>2. IsFiniteSet(raised)
  BY <1>1, EventHubAssumption, FS_Subset DEF SetsOK
<1>3. Cardinality(raised) \in Nat
  BY <1>2, FS_CardinalityType
<1>4. \A type \in Types \ raised : Cardinality(raised \cup {type}) = Cardinality(raised) + 1
  BY <1>2, FS_AddElement
<1>5. \A type \in raised : Cardinality(raised \ {type}) = Cardinality(raised) - 1
  BY <1>2, FS_RemoveElement
<1> QED
  BY <1>3, <1>4, <1>5

(* What the accounting of a stream adds up.                                *)
LEMMA CountsAreNumbers ==
  ASSUME QueueOK, Tally, StreamOK, NEW u \in Streams
  PROVE  /\ u \in Subs /\ due[u] \in Nat /\ dropped[u] \in Nat /\ Len(queue[u]) \in Nat
         /\ wrote[u].events \in Nat /\ wrote[u].told \in Nat
         /\ Flag(hand[u] # 0) \in Nat /\ Flag(u \in uncounted) \in Nat
<1>1. u \in Subs /\ Flag(hand[u] # 0) \in Nat /\ Flag(u \in uncounted) \in Nat
  BY DEF Subs, Flag
<1>2. due[u] \in Nat /\ dropped[u] \in Nat
  BY <1>1 DEF Tally
<1>3. queue[u] \in Seq(Nat)
  BY <1>1 DEF QueueOK
<1>4. Len(queue[u]) \in Nat
  BY <1>3
<1>5. wrote[u].events \in Nat /\ wrote[u].told \in Nat
  BY DEF StreamOK
<1> QED
  BY <1>1, <1>2, <1>4, <1>5

(* Whatever leaves queues, counts and output alone leaves the accounting   *)
(* and the order alone.                                                    *)
LEMMA AccountsUndisturbed ==
  ASSUME QueueOK, Tally, Whole, Order, UNCHANGED <<seq, due, uncounted, queue, dropped, hand, wrote>>
  PROVE  QueueOK' /\ Tally' /\ Whole' /\ Order'
BY DEF QueueOK, Tally, Whole, Order

LEMMA ConnUndisturbed ==
  ASSUME ConnOK, StreamOK, UNCHANGED <<Conn, Output>>
  PROVE  ConnOK' /\ StreamOK'
BY DEF ConnOK, StreamOK, Conn, Output, Writing

LEMMA InitHolds == Init => IInv
<1> SUFFICES ASSUME Init PROVE IInv
  OBVIOUS
<1> USE EventHubAssumption DEF Init
<1>1. Cardinality(raised) = 0
  BY FS_EmptySet
<1>2. SetsOK /\ BoundOK
  BY <1>1 DEF SetsOK, BoundOK
<1>3. \A s \in Subs : queue[s] = <<>> /\ Len(queue[s]) = 0 /\ dropped[s] = 0 /\ due[s] = 0
  OBVIOUS
<1>4. QueueOK
  BY <1>3 DEF QueueOK
<1>5. Tally
  BY <1>3 DEF Tally, Flag
<1>6. ConnOK /\ StreamOK
  BY DEF ConnOK, StreamOK, Writing
<1>7. Whole /\ Order
  BY <1>3 DEF Whole, Order, Flag, Subs
<1>8. WaitOK /\ MatchedIsTrue
  BY <1>3 DEF WaitOK, MatchedIsTrue, Subs
<1> QED
  BY <1>2, <1>4, <1>5, <1>6, <1>7, <1>8 DEF IInv

LEMMA ReadOutputKeeps ==
  ASSUME IInv, ReadOutput
  PROVE  IInv'
<1> USE EventHubAssumption DEF IInv, ReadOutput, MayRaise, Raise, Hub, Queues, Conn, Output,
        Pane, Waiting
<1>1. QueueOK' /\ Tally' /\ ConnOK' /\ StreamOK' /\ Whole' /\ Order'
  BY AccountsUndisturbed, ConnUndisturbed
<1>2. SetsOK'
  BY DEF SetsOK, Subs
<1>3. BoundOK'
  BY CardinalityOfRaised DEF BoundOK
<1>4. WaitOK'
  BY DEF WaitOK, ExitKnown, SetsOK
<1>5. MatchedIsTrue'
  <2>1. happened \subseteq happened' /\ UNCHANGED <<cond, waiter>>
    OBVIOUS
  <2>2. ASSUME NEW w \in Waits, Holds(w) PROVE Holds(w)'
    BY <2>1, <2>2 DEF Holds, WaitOK, Conds
  <2>3. ASSUME NEW w \in Waits, waiter[w] = "matched"
        PROVE  Holds(w)' \/ (cond'[w] = "window-exit" /\ "closed" \in happened')
    BY <2>1, <2>2, <2>3 DEF MatchedIsTrue
  <2> QED
    BY <2>1, <2>3 DEF MatchedIsTrue
<1> QED
  BY <1>1, <1>2, <1>3, <1>4, <1>5

LEMMA VtWriterKeeps ==
  ASSUME IInv, VtWriter
  PROVE  IInv'
<1> USE EventHubAssumption DEF IInv, VtWriter, Hub, Queues, Conn, Output, Pane, Waiting
<1>1. BoundOK' /\ QueueOK' /\ Tally' /\ ConnOK' /\ StreamOK' /\ Whole' /\ Order'
  BY AccountsUndisturbed, ConnUndisturbed DEF BoundOK
<1>2. SetsOK'
  BY DEF SetsOK, Subs
<1>3. WaitOK'
  BY DEF WaitOK, ExitKnown, SetsOK
<1>4. MatchedIsTrue'
  BY DEF MatchedIsTrue, Holds, WaitOK, Conds
<1> QED
  BY <1>1, <1>2, <1>3, <1>4

LEMMA MonitorExitKeeps ==
  ASSUME IInv, MonitorExit
  PROVE  IInv'
<1> USE EventHubAssumption DEF IInv, MonitorExit, MayRaise, Raise, Hub, Queues, Conn, Output,
        Pane, Waiting
<1>1. QueueOK' /\ Tally' /\ ConnOK' /\ StreamOK' /\ Whole' /\ Order'
  BY AccountsUndisturbed, ConnUndisturbed
<1>2. SetsOK'
  BY DEF SetsOK, Subs
<1>3. BoundOK'
  BY CardinalityOfRaised DEF BoundOK
<1>4. WaitOK'
  BY DEF WaitOK, ExitKnown, SetsOK
<1>5. MatchedIsTrue'
  BY DEF MatchedIsTrue, Holds, WaitOK, Conds
<1> QED
  BY <1>1, <1>2, <1>3, <1>4, <1>5

LEMMA CloseWindowKeeps ==
  ASSUME IInv, CloseWindow
  PROVE  IInv'
<1> USE EventHubAssumption DEF IInv, CloseWindow, MayRaise, Raise, Hub, Queues, Conn, Output,
        Pane, Waiting
<1>1. QueueOK' /\ Tally' /\ ConnOK' /\ StreamOK' /\ Whole' /\ Order'
  BY AccountsUndisturbed, ConnUndisturbed
<1>2. SetsOK'
  BY DEF SetsOK, Subs
<1>3. BoundOK'
  BY CardinalityOfRaised DEF BoundOK
<1>4. WaitOK'
  BY DEF WaitOK, ExitKnown, SetsOK
<1>5. MatchedIsTrue'
  BY DEF MatchedIsTrue, Holds, WaitOK, Conds
<1> QED
  BY <1>1, <1>2, <1>3, <1>4, <1>5

LEMMA CreateSessionKeeps ==
  ASSUME IInv, CreateSession
  PROVE  IInv'
<1> USE EventHubAssumption DEF IInv, CreateSession, MayRaise, Raise, Hub, Queues, Conn, Output,
        Pane, Waiting
<1>1. QueueOK' /\ Tally' /\ ConnOK' /\ StreamOK' /\ Whole' /\ Order'
  BY AccountsUndisturbed, ConnUndisturbed
<1>2. SetsOK'
  BY DEF SetsOK, Subs
<1>3. BoundOK'
  BY CardinalityOfRaised DEF BoundOK
<1>4. WaitOK'
  BY DEF WaitOK, ExitKnown, SetsOK
<1>5. MatchedIsTrue'
  BY DEF MatchedIsTrue, Holds, WaitOK, Conds
<1> QED
  BY <1>1, <1>2, <1>3, <1>4, <1>5

LEMMA CountDropKeeps ==
  ASSUME IInv, NEW s \in Subs, CountDrop(s)
  PROVE  IInv'
<1> USE EventHubAssumption DEF IInv, CountDrop, Hub, Queues, Conn, Output, Pane, Waiting
<1>1. BoundOK' /\ QueueOK' /\ ConnOK' /\ StreamOK' /\ Order' /\ WaitOK' /\ MatchedIsTrue'
  BY DEF BoundOK, QueueOK, ConnOK, Writing, StreamOK, Order, WaitOK, ExitKnown, MatchedIsTrue,
        Holds
<1>2. SetsOK'
  BY DEF SetsOK, Subs
<1>3. Tally'
  BY DEF Tally, QueueOK, Flag, SetsOK
<1>4. Whole'
  <2> SUFFICES ASSUME NEW u \in Streams
               PROVE  due'[u] = wrote'[u].events + wrote'[u].told + dropped'[u] + Len(queue'[u])
                                + Flag(hand'[u] # 0) + Flag(u \in uncounted')
    BY DEF Whole
  <2>1. /\ u \in Subs /\ dropped[u] \in Nat /\ wrote[u].events \in Nat /\ wrote[u].told \in Nat
        /\ Len(queue[u]) \in Nat /\ Flag(hand[u] # 0) \in Nat
    BY CountsAreNumbers
  <2>2. due[u] = wrote[u].events + wrote[u].told + dropped[u] + Len(queue[u])
                 + Flag(hand[u] # 0) + Flag(u \in uncounted)
    BY DEF Whole
  <2>3. CASE u = s
    <3>1. /\ dropped'[u] = dropped[u] + 1 /\ Flag(u \in uncounted) = 1 /\ Flag(u \in uncounted') = 0
          /\ UNCHANGED <<due, wrote, queue, hand>>
      BY <2>1, <2>3 DEF Tally, Flag
    <3> DEFINE a == wrote[u].events + wrote[u].told
               d == dropped[u]
               b == Len(queue[u])
               f == Flag(hand[u] # 0)
    <3>2. a \in Nat /\ d \in Nat /\ b \in Nat /\ f \in Nat /\ due[u] = a + d + b + f + 1
      BY <2>1, <2>2, <3>1
    <3> HIDE DEF a, d, b, f, CountDrop
    <3>3. due[u] = a + (d + 1) + b + f + 0
      BY <3>2
    <3> QED
      BY <3>1, <3>3 DEF a, d, b, f
  <2>4. CASE u # s
    <3>1. dropped'[u] = dropped[u] /\ Flag(u \in uncounted') = Flag(u \in uncounted)
      BY <2>1, <2>4 DEF Tally, Flag
    <3> QED
      BY <2>1, <2>2, <3>1 DEF Flag
  <2> QED
    BY <2>3, <2>4
<1> QED
  BY <1>1, <1>2, <1>3, <1>4

LEMMA VerbSubscribeKeeps ==
  ASSUME IInv, NEW s \in Streams, VerbSubscribe(s)
  PROVE  IInv'
<1> USE EventHubAssumption DEF IInv, VerbSubscribe, Fresh, Subscribe, Unlocked, Hub, Queues,
        Conn, Output, Pane, Waiting
<1>1. BoundOK' /\ QueueOK' /\ Tally' /\ StreamOK' /\ Whole' /\ Order' /\ WaitOK'
      /\ MatchedIsTrue'
  BY AccountsUndisturbed DEF BoundOK, StreamOK, WaitOK, ExitKnown, MatchedIsTrue, Holds
<1>2. SetsOK'
  BY DEF SetsOK, Subs
<1>3. ConnOK'
  BY DEF ConnOK, Writing, StreamOK, SetsOK
<1> QED
  BY <1>1, <1>2, <1>3

LEMMA StartPendingStreamKeeps ==
  ASSUME IInv, StartPendingStream
  PROVE  IInv'
<1> USE EventHubAssumption DEF IInv, StartPendingStream, Hub, Queues, Conn, Output, Pane, Waiting
<1>1. SetsOK' /\ BoundOK' /\ QueueOK' /\ Tally' /\ Whole' /\ Order' /\ WaitOK'
      /\ MatchedIsTrue'
  BY AccountsUndisturbed DEF SetsOK, BoundOK, WaitOK, ExitKnown, MatchedIsTrue, Holds
<1>2. ConnOK'
  BY DEF ConnOK, Writing, StreamOK, SetsOK
<1>3. StreamOK'
  BY DEF StreamOK, ConnOK, Writing
<1> QED
  BY <1>1, <1>2, <1>3

LEMMA AckFailsKeeps ==
  ASSUME IInv, AckFails
  PROVE  IInv'
<1> USE EventHubAssumption DEF IInv, AckFails, Hub, Queues, Conn, Output, Pane, Waiting
<1>1. SetsOK' /\ BoundOK' /\ QueueOK' /\ Tally' /\ StreamOK' /\ Whole' /\ Order' /\ WaitOK'
      /\ MatchedIsTrue'
  BY AccountsUndisturbed DEF SetsOK, BoundOK, StreamOK, WaitOK, ExitKnown, MatchedIsTrue, Holds
<1>2. ConnOK'
  BY DEF ConnOK, Writing, StreamOK, SetsOK
<1> QED
  BY <1>1, <1>2

LEMMA VerbUnsubscribeKeeps ==
  ASSUME IInv, VerbUnsubscribe
  PROVE  IInv'
<1> USE EventHubAssumption DEF IInv, VerbUnsubscribe, Hub, Queues, Conn, Output, Pane, Waiting
<1>1. BoundOK' /\ QueueOK' /\ Tally' /\ ConnOK' /\ StreamOK' /\ Whole' /\ Order' /\ WaitOK'
      /\ MatchedIsTrue'
  BY AccountsUndisturbed, ConnUndisturbed DEF BoundOK, WaitOK, ExitKnown, MatchedIsTrue, Holds
<1>2. SetsOK'
  <2>1. eventSub \in Subs
    BY DEF ConnOK, Subs
  <2> QED
    BY <2>1 DEF SetsOK
<1> QED
  BY <1>1, <1>2

LEMMA ConnEndsKeeps ==
  ASSUME IInv, ConnEnds
  PROVE  IInv'
<1> USE EventHubAssumption DEF IInv, ConnEnds, Unsubscribe, Unlocked, Hub, Queues, Conn, Output,
        Pane, Waiting
<1>1. BoundOK' /\ QueueOK' /\ Tally' /\ StreamOK' /\ Whole' /\ Order' /\ WaitOK'
      /\ MatchedIsTrue'
  BY AccountsUndisturbed DEF BoundOK, StreamOK, WaitOK, ExitKnown, MatchedIsTrue, Holds
<1>2. SetsOK'
  <2>1. eventSub # None => eventSub \in Subs
    BY DEF ConnOK, Subs
  <2> QED
    BY <2>1 DEF SetsOK
<1>3. ConnOK'
  BY DEF ConnOK, Writing, StreamOK, SetsOK
<1> QED
  BY <1>1, <1>2, <1>3

LEMMA WriteEventKeeps ==
  ASSUME IInv, NEW s \in Streams, WriteEvent(s)
  PROVE  IInv'
<1> USE EventHubAssumption DEF IInv, WriteEvent, Writes, StreamerAt, Hub, Queues, Conn, Output,
        Pane, Waiting
<1>1. SetsOK' /\ BoundOK' /\ QueueOK' /\ WaitOK' /\ MatchedIsTrue'
  BY DEF SetsOK, BoundOK, QueueOK, WaitOK, ExitKnown, MatchedIsTrue, Holds
<1>2. Tally'
  <2>1. dropped \in [Subs -> Nat] /\ s \in Subs /\ queue \in [Subs -> Seq(Nat)]
    BY DEF Tally, Subs, QueueOK
  <2>2. /\ dropped' \in [Subs -> Nat] /\ UNCHANGED <<due, queue, uncounted, seq>>
        /\ \A u \in Subs : dropped'[u] <= dropped[u]
    BY <2>1
  <2>3. ASSUME NEW u \in Subs
        PROVE  dropped'[u] + Len(queue[u]) + Flag(u \in uncounted) <= due[u] /\ due[u] <= seq
    <3>1. /\ dropped[u] \in Nat /\ dropped'[u] \in Nat /\ dropped'[u] <= dropped[u]
          /\ Len(queue[u]) \in Nat /\ Flag(u \in uncounted) \in Nat /\ due[u] \in Nat
      BY <2>1, <2>2 DEF Flag, Tally
    <3>2. dropped[u] + Len(queue[u]) + Flag(u \in uncounted) <= due[u] /\ due[u] <= seq
      BY DEF Tally
    <3> QED
      BY <3>1, <3>2
  <2> QED
    BY <2>2, <2>3 DEF Tally
<1>3. ConnOK'
  BY DEF ConnOK, Writing, StreamOK, SetsOK
<1>4. StreamOK'
  <2>1. /\ wrote[s] \in [events : Nat, told : Nat, last : Nat] /\ dropped[s] \in Nat /\ hand[s] \in Nat
        /\ hand[s] # 0
    BY DEF StreamOK, Tally, Subs
  <2>2. [events |-> wrote[s].events + 1, told |-> wrote[s].told + dropped[s], last |-> hand[s]]
          \in [events : Nat, told : Nat, last : Nat]
    BY <2>1
  <2>3. wrote' \in [Streams -> [events : Nat, told : Nat, last : Nat]]
    BY <2>2 DEF StreamOK
  <2> QED
    BY <2>3 DEF StreamOK
<1>5. Whole'
  <2> SUFFICES ASSUME NEW u \in Streams
               PROVE  due[u] = wrote'[u].events + wrote'[u].told + dropped'[u] + Len(queue[u])
                               + Flag(hand'[u] # 0) + Flag(u \in uncounted)
    BY DEF Whole
  <2>1. /\ u \in Subs /\ dropped[u] \in Nat /\ wrote[u].events \in Nat /\ wrote[u].told \in Nat
        /\ Len(queue[u]) \in Nat /\ Flag(u \in uncounted) \in Nat
    BY CountsAreNumbers
  <2>2. due[u] = wrote[u].events + wrote[u].told + dropped[u] + Len(queue[u])
                 + Flag(hand[u] # 0) + Flag(u \in uncounted)
    BY DEF Whole
  <2>3. CASE u = s
    <3>1. wrote'[u].events = wrote[u].events + 1 /\ wrote'[u].told = wrote[u].told + dropped[u]
      BY <2>3 DEF StreamOK
    <3>2. dropped'[u] = 0 /\ Flag(hand[u] # 0) = 1 /\ Flag(hand'[u] # 0) = 0
      BY <2>1, <2>3 DEF StreamOK, Flag, Tally
    <3> DEFINE e == wrote[u].events
               t == wrote[u].told
               d == dropped[u]
               b == Len(queue[u])
               g == Flag(u \in uncounted)
    <3>3. e \in Nat /\ t \in Nat /\ d \in Nat /\ b \in Nat /\ g \in Nat /\ due[u] = e + t + d + b + 1 + g
      BY <2>1, <2>2, <3>2
    <3> HIDE DEF e, t, d, b, g, WriteEvent, Writes
    <3>4. due[u] = (e + 1) + (t + d) + 0 + b + 0 + g
      BY <3>3
    <3> QED
      BY <3>1, <3>2, <3>4 DEF e, t, d, b, g
  <2>4. CASE u # s
    <3>1. wrote'[u] = wrote[u] /\ dropped'[u] = dropped[u] /\ hand'[u] = hand[u]
      BY <2>1, <2>4 DEF StreamOK, Tally
    <3> QED
      BY <2>2, <3>1
  <2> QED
    BY <2>3, <2>4
<1>6. Order'
  <2> SUFFICES ASSUME NEW u \in Streams
               PROVE  /\ wrote'[u].last <= seq /\ hand'[u] <= seq
                      /\ hand'[u] # 0 => wrote'[u].last < hand'[u]
                      /\ \A i \in 1..Len(queue[u]) :
                           /\ wrote'[u].last < queue[u][i] /\ hand'[u] < queue[u][i]
                           /\ \A j \in 1..Len(queue[u]) : i < j => queue[u][i] < queue[u][j]
    BY DEF Order
  <2>1. CASE u = s
    <3>1. wrote'[u].last = hand[u] /\ hand'[u] = 0 /\ seq \in Nat
      BY <2>1 DEF StreamOK, BoundOK
    <3>2. \A i \in 1..Len(queue[u]) : queue[u][i] \in 1..seq
      BY DEF QueueOK, Subs
    <3> QED
      BY <3>1, <3>2 DEF Order
  <2>2. CASE u # s
    <3>1. wrote'[u] = wrote[u] /\ hand'[u] = hand[u]
      BY <2>2 DEF StreamOK
    <3> QED
      BY <3>1 DEF Order
  <2> QED
    BY <2>1, <2>2
<1> QED
  BY <1>1, <1>2, <1>3, <1>4, <1>5, <1>6

LEMMA WriteFailsKeeps ==
  ASSUME IInv, NEW s \in Streams, WriteFails(s)
  PROVE  IInv'
<1> USE EventHubAssumption DEF IInv, WriteFails, Leaves, StreamerAt, Hub, Queues, Conn, Output,
        Pane, Waiting
<1>1. SetsOK' /\ BoundOK' /\ QueueOK' /\ Tally' /\ Whole' /\ Order' /\ WaitOK'
      /\ MatchedIsTrue'
  BY AccountsUndisturbed DEF SetsOK, BoundOK, WaitOK, ExitKnown, MatchedIsTrue, Holds
<1>2. ConnOK'
  BY DEF ConnOK, Writing, StreamOK, SetsOK
<1>3. StreamOK'
  BY DEF StreamOK, ConnOK, Writing
<1> QED
  BY <1>1, <1>2, <1>3

LEMMA StreamStopsKeeps ==
  ASSUME IInv, NEW s \in Streams, StreamStops(s)
  PROVE  IInv'
<1> USE EventHubAssumption DEF IInv, StreamStops, Leaves, StreamerAt, Hub, Queues, Conn, Output,
        Pane, Waiting
<1>1. SetsOK' /\ BoundOK' /\ QueueOK' /\ Tally' /\ Whole' /\ Order' /\ WaitOK'
      /\ MatchedIsTrue'
  BY AccountsUndisturbed DEF SetsOK, BoundOK, WaitOK, ExitKnown, MatchedIsTrue, Holds
<1>2. ConnOK'
  BY DEF ConnOK, Writing, StreamOK, SetsOK
<1>3. StreamOK'
  BY DEF StreamOK, ConnOK, Writing
<1> QED
  BY <1>1, <1>2, <1>3

LEMMA LeaveHubKeeps ==
  ASSUME IInv, NEW s \in Streams, LeaveHub(s)
  PROVE  IInv'
<1> USE EventHubAssumption DEF IInv, LeaveHub, Unsubscribe, Unlocked, StreamerAt, Hub, Queues,
        Conn, Output, Pane, Waiting
<1>1. BoundOK' /\ QueueOK' /\ Tally' /\ Whole' /\ Order' /\ WaitOK' /\ MatchedIsTrue'
  BY AccountsUndisturbed DEF BoundOK, WaitOK, ExitKnown, MatchedIsTrue, Holds
<1>2. SetsOK'
  BY DEF SetsOK, Subs
<1>3. ConnOK'
  BY DEF ConnOK, Writing, StreamOK, SetsOK
<1>4. StreamOK'
  BY DEF StreamOK, ConnOK, Writing
<1> QED
  BY <1>1, <1>2, <1>3, <1>4

LEMMA WaitSubscribeKeeps ==
  ASSUME IInv, NEW w \in Waits, WaitSubscribe(w)
  PROVE  IInv'
<1> USE EventHubAssumption DEF IInv, WaitSubscribe, Subscribe, Unlocked, WaiterAt, Hub, Queues,
        Conn, Output, Pane, Waiting
<1>1. BoundOK' /\ QueueOK' /\ Tally' /\ ConnOK' /\ StreamOK' /\ Whole' /\ Order'
  BY AccountsUndisturbed, ConnUndisturbed DEF BoundOK
<1>2. SetsOK'
  BY DEF SetsOK, Subs
<1>3. WaitOK'
  BY DEF WaitOK, ExitKnown, SetsOK
<1>4. MatchedIsTrue'
  BY DEF MatchedIsTrue, Holds, WaitOK, Conds
<1> QED
  BY <1>1, <1>2, <1>3, <1>4

LEMMA WaitLookKeeps ==
  ASSUME IInv, NEW w \in Waits, WaitLook(w)
  PROVE  IInv'
<1> USE EventHubAssumption DEF IInv, WaitLook, WaiterAt, Hub, Queues, Conn, Output, Pane, Waiting
<1>1. SetsOK' /\ BoundOK' /\ QueueOK' /\ Tally' /\ ConnOK' /\ StreamOK' /\ Whole' /\ Order'
  BY AccountsUndisturbed, ConnUndisturbed DEF SetsOK, BoundOK
<1>2. WaitOK'
  BY DEF WaitOK, ExitKnown, SetsOK
<1>3. MatchedIsTrue'
  BY DEF MatchedIsTrue, Holds, WaitOK, Conds
<1> QED
  BY <1>1, <1>2, <1>3

LEMMA BackstopKeeps ==
  ASSUME IInv, NEW w \in Waits, Backstop(w)
  PROVE  IInv'
<1> USE EventHubAssumption DEF IInv, Backstop, WaiterAt, Hub, Queues, Conn, Output, Pane, Waiting
<1>1. SetsOK' /\ BoundOK' /\ QueueOK' /\ Tally' /\ ConnOK' /\ StreamOK' /\ Whole' /\ Order'
  BY AccountsUndisturbed, ConnUndisturbed DEF SetsOK, BoundOK
<1>2. WaitOK'
  BY DEF WaitOK, ExitKnown, SetsOK
<1>3. MatchedIsTrue'
  BY DEF MatchedIsTrue, Holds, WaitOK, Conds
<1> QED
  BY <1>1, <1>2, <1>3

LEMMA DeadlineKeeps ==
  ASSUME IInv, NEW w \in Waits, Deadline(w)
  PROVE  IInv'
<1> USE EventHubAssumption DEF IInv, Deadline, WaiterAt, Hub, Queues, Conn, Output, Pane, Waiting
<1>1. SetsOK' /\ BoundOK' /\ QueueOK' /\ Tally' /\ ConnOK' /\ StreamOK' /\ Whole' /\ Order'
  BY AccountsUndisturbed, ConnUndisturbed DEF SetsOK, BoundOK
<1>2. WaitOK'
  BY DEF WaitOK, ExitKnown, SetsOK
<1>3. MatchedIsTrue'
  BY DEF MatchedIsTrue, Holds, WaitOK, Conds
<1> QED
  BY <1>1, <1>2, <1>3

LEMMA WaitReleasesKeeps ==
  ASSUME IInv, NEW w \in Waits, WaitReleases(w)
  PROVE  IInv'
<1> USE EventHubAssumption DEF IInv, WaitReleases, Unsubscribe, Unlocked, Hub, Queues, Conn,
        Output, Pane, Waiting
<1>1. BoundOK' /\ QueueOK' /\ Tally' /\ ConnOK' /\ StreamOK' /\ Whole' /\ Order' /\ WaitOK'
      /\ MatchedIsTrue'
  BY AccountsUndisturbed, ConnUndisturbed DEF BoundOK, WaitOK, ExitKnown, MatchedIsTrue, Holds
<1>2. SetsOK'
  BY DEF SetsOK, Subs
<1> QED
  BY <1>1, <1>2

-----------------------------------------------------------------------------
(* What comes into a queue and out of it.                                  *)
LEMMA Appended ==
  ASSUME NEW q \in Seq(Nat), NEW n \in Nat
  PROVE  /\ Append(q, n) \in Seq(Nat) /\ Len(Append(q, n)) = Len(q) + 1
         /\ Append(q, n)[Len(q) + 1] = n /\ Append(q, n) # <<>>
         /\ \A i \in 1..Len(q) : Append(q, n)[i] = q[i]
  OBVIOUS

LEMMA Taken ==
  ASSUME NEW q \in Seq(Nat), q # <<>>
  PROVE  /\ Tail(q) \in Seq(Nat) /\ Len(Tail(q)) = Len(q) - 1 /\ Len(q) \in Nat \ {0}
         /\ Head(q) = q[1] /\ 1 \in 1..Len(q)
         /\ \A i \in 1..Len(Tail(q)) : i + 1 \in 1..Len(q) /\ Tail(q)[i] = q[i + 1]
  OBVIOUS

LEMMA PublishKeeps ==
  ASSUME IInv, NEW type \in Types, Publish(type)
  PROVE  IInv'
<1> USE EventHubAssumption DEF IInv
<1>1. /\ uncounted = {} /\ type \in raised /\ raised' = raised \ {type} /\ seq' = seq + 1
      /\ uncounted' = {s \in Matches(type) : Full(s)}
      /\ due' = [s \in Subs |-> due[s] + Flag(s \in Matches(type))]
      /\ UNCHANGED <<subs, dropped, stopped, happened, cond, waiter>> /\ UNCHANGED Conn /\ UNCHANGED Output
      /\ queue' = [s \in Subs |->
           IF s \in Matches(type) THEN IF Full(s) THEN queue[s] ELSE Append(queue[s], seq + 1)
           ELSE queue[s]]
  BY DEF Publish, PublishTo, Unlocked, Waiting
<1>2. Matches(type) \subseteq subs /\ subs \subseteq Subs /\ seq \in Nat
  BY DEF Matches, SetsOK, BoundOK
<1>3. ASSUME NEW s \in Subs
      PROVE  \/ /\ queue'[s] = queue[s] /\ due'[s] = due[s] + Flag(s \in uncounted')
             \/ /\ queue'[s] = Append(queue[s], seq + 1) /\ due'[s] = due[s] + 1 /\ s \notin uncounted'
                /\ Len(queue[s]) < QueueCap /\ s \in Matches(type)
  BY <1>1, <1>2 DEF Full, Flag, QueueOK, Tally
<1>4. \A s \in Subs : queue[s] \in Seq(Nat) /\ Len(queue[s]) \in Nat /\ due[s] \in Nat /\ dropped[s] \in Nat
  BY DEF QueueOK, Tally
<1>5. SetsOK'
  BY <1>1, <1>2 DEF SetsOK
<1>6. BoundOK'
  BY <1>1, CardinalityOfRaised DEF BoundOK
<1>7. QueueOK'
  <2>1. ASSUME NEW s \in Subs
        PROVE  /\ queue'[s] \in Seq(Nat) /\ Len(queue'[s]) <= QueueCap
               /\ \A i \in 1..Len(queue'[s]) : queue'[s][i] \in 1..seq'
    <3>1. CASE queue'[s] = queue[s]
      BY <1>1, <1>2, <3>1 DEF QueueOK
    <3>2. CASE queue'[s] = Append(queue[s], seq + 1) /\ Len(queue[s]) < QueueCap
      BY <1>1, <1>2, <1>4, <3>2, Appended DEF QueueOK
    <3> QED
      BY <1>3, <3>1, <3>2
  <2> QED
    BY <1>1, <2>1 DEF QueueOK
<1>8. Tally'
  <2>1. ASSUME NEW s \in Subs
        PROVE  /\ due'[s] \in Nat /\ due'[s] <= seq'
               /\ dropped'[s] + Len(queue'[s]) + Flag(s \in uncounted') <= due'[s]
    <3>1. dropped[s] + Len(queue[s]) <= due[s] /\ due[s] <= seq /\ dropped'[s] = dropped[s]
      BY <1>1, <1>4 DEF Tally, Flag
    <3>2. Len(queue[s]) \in Nat /\ dropped[s] \in Nat /\ due[s] \in Nat /\ seq \in Nat /\ seq' = seq + 1
      BY <1>1, <1>2, <1>4
    <3>3. CASE queue'[s] = queue[s] /\ due'[s] = due[s] + Flag(s \in uncounted')
      BY <3>1, <3>2, <3>3 DEF Flag
    <3>4. CASE queue'[s] = Append(queue[s], seq + 1) /\ due'[s] = due[s] + 1 /\ s \notin uncounted'
      <4>1. Len(queue'[s]) = Len(queue[s]) + 1 /\ Flag(s \in uncounted') = 0
        BY <1>2, <1>4, <3>4, Appended DEF Flag
      <4> QED
        BY <3>1, <3>2, <3>4, <4>1
    <3> QED
      BY <1>3, <3>3, <3>4
  <2> QED
    BY <1>1, <2>1 DEF Tally
<1>9. ConnOK' /\ StreamOK'
  BY <1>1 DEF ConnOK, StreamOK, Writing, Conn, Output
<1>10. Whole'
  <2> SUFFICES ASSUME NEW s \in Streams
               PROVE  due'[s] = wrote[s].events + wrote[s].told + dropped[s] + Len(queue'[s])
                                + Flag(hand[s] # 0) + Flag(s \in uncounted')
    BY <1>1 DEF Whole, Output
  <2>1. /\ s \in Subs /\ dropped[s] \in Nat /\ wrote[s].events \in Nat /\ wrote[s].told \in Nat
        /\ Len(queue[s]) \in Nat /\ Flag(hand[s] # 0) \in Nat
    BY CountsAreNumbers
  <2>2. due[s] = wrote[s].events + wrote[s].told + dropped[s] + Len(queue[s]) + Flag(hand[s] # 0)
    <3>1. Flag(s \in uncounted) = 0
      BY <1>1 DEF Flag
    <3>2. due[s] = wrote[s].events + wrote[s].told + dropped[s] + Len(queue[s])
                   + Flag(hand[s] # 0) + Flag(s \in uncounted)
      BY DEF Whole
    <3> HIDE DEF IInv
    <3> QED
      BY <2>1, <3>1, <3>2
  <2>3. CASE queue'[s] = queue[s] /\ due'[s] = due[s] + Flag(s \in uncounted')
    BY <2>1, <2>2, <2>3 DEF Flag
  <2>4. CASE queue'[s] = Append(queue[s], seq + 1) /\ due'[s] = due[s] + 1 /\ s \notin uncounted'
    <3>1. Len(queue'[s]) = Len(queue[s]) + 1 /\ Flag(s \in uncounted') = 0
      BY <1>2, <1>4, <2>1, <2>4, Appended DEF Flag
    <3> DEFINE a == wrote[s].events + wrote[s].told + dropped[s]
               b == Len(queue[s])
               f == Flag(hand[s] # 0)
    <3>2. a \in Nat /\ b \in Nat /\ f \in Nat /\ due[s] = a + b + f
      BY <2>1, <2>2
    <3> HIDE DEF a, b, f
    <3>3. due'[s] = a + (b + 1) + f + 0
      BY <2>4, <3>2
    <3> QED
      BY <3>1, <3>3 DEF a, b, f
  <2> QED
    BY <1>3, <2>1, <2>3, <2>4
<1>11. Order'
  <2> SUFFICES ASSUME NEW s \in Streams
               PROVE  /\ wrote[s].last <= seq' /\ hand[s] <= seq'
                      /\ hand[s] # 0 => wrote[s].last < hand[s]
                      /\ \A i \in 1..Len(queue'[s]) :
                           /\ wrote[s].last < queue'[s][i] /\ hand[s] < queue'[s][i]
                           /\ \A j \in 1..Len(queue'[s]) : i < j => queue'[s][i] < queue'[s][j]
    <3>1. wrote' = wrote /\ hand' = hand
      BY <1>1 DEF Output
    <3> QED
      BY <3>1 DEF Order
  <2>1. s \in Subs /\ wrote[s].last \in Nat /\ hand[s] \in Nat
    BY DEF Subs, StreamOK
  <2>2. wrote[s].last <= seq /\ hand[s] <= seq /\ (hand[s] # 0 => wrote[s].last < hand[s])
    BY DEF Order
  <2>3. CASE queue'[s] = queue[s]
    <3>1. wrote[s].last <= seq' /\ hand[s] <= seq'
      BY <1>1, <1>2, <2>1, <2>2
    <3> QED
      BY <2>2, <2>3, <3>1 DEF Order
  <2>4. CASE queue'[s] = Append(queue[s], seq + 1)
    <3>1. /\ Len(queue'[s]) = Len(queue[s]) + 1 /\ queue'[s][Len(queue[s]) + 1] = seq + 1
          /\ \A i \in 1..Len(queue[s]) : queue'[s][i] = queue[s][i] /\ queue[s][i] \in 1..seq
      BY <1>2, <1>4, <2>1, <2>4, Appended DEF QueueOK
    <3>2. \A i \in 1..Len(queue'[s]) : i \in 1..Len(queue[s]) \/ i = Len(queue[s]) + 1
      BY <1>4, <2>1, <3>1
    <3>3. \A i \in 1..Len(queue'[s]) : wrote[s].last < queue'[s][i] /\ hand[s] < queue'[s][i]
      BY <1>2, <2>1, <2>2, <3>1, <3>2 DEF Order
    <3>4. \A i, j \in 1..Len(queue'[s]) : i < j => queue'[s][i] < queue'[s][j]
      <4> SUFFICES ASSUME NEW i \in 1..Len(queue'[s]), NEW j \in 1..Len(queue'[s]), i < j
                   PROVE  queue'[s][i] < queue'[s][j]
        OBVIOUS
      <4>1. i \in 1..Len(queue[s])
        BY <1>4, <2>1, <3>1, <3>2
      <4>2. CASE j \in 1..Len(queue[s])
        BY <3>1, <4>1, <4>2 DEF Order
      <4>3. CASE j = Len(queue[s]) + 1
        BY <1>2, <3>1, <4>1, <4>3
      <4> QED
        BY <3>2, <4>2, <4>3
    <3> QED
      BY <1>1, <1>2, <2>1, <2>2, <3>3, <3>4
  <2> QED
    BY <1>3, <2>1, <2>3, <2>4
<1>12. WaitOK'
  <2>1. ASSUME NEW w \in Waits, cond[w] = "window-exit", queue'[w] # <<>>
        PROVE  ExitKnown
    <3>1. CASE queue'[w] = queue[w]
      BY <2>1, <3>1 DEF WaitOK
    <3>2. CASE w \in Matches(type)
      <4>1. type \in {"exit", "closed"}
        BY <2>1, <3>2 DEF Matches, Wanted
      <4> QED
        BY <1>1, <4>1 DEF WaitOK
    <3> QED
      BY <1>3, <3>1, <3>2 DEF Subs
  <2> QED
    BY <1>1, <2>1 DEF WaitOK, ExitKnown
<1>13. MatchedIsTrue'
  BY <1>1 DEF MatchedIsTrue, Holds
<1> QED
  BY <1>5, <1>6, <1>7, <1>8, <1>9, <1>10, <1>11, <1>12, <1>13

(* One less in a queue, the rest as it was.                                *)
LEMMA QueueTaken ==
  ASSUME IInv, NEW s \in Subs, queue[s] # <<>>, queue' = [queue EXCEPT ![s] = Tail(@)],
         UNCHANGED <<seq, uncounted, dropped, due>>
  PROVE  /\ QueueOK' /\ Tally' /\ Len(queue'[s]) = Len(queue[s]) - 1 /\ queue[s] \in Seq(Nat)
         /\ \A u \in Subs \ {s} : queue'[u] = queue[u]
<1>1. queue \in [Subs -> Seq(Nat)] /\ \A u \in Subs : Len(queue[u]) \in Nat
  BY DEF IInv, QueueOK
<1>2. /\ queue'[s] = Tail(queue[s]) /\ queue'[s] \in Seq(Nat) /\ Len(queue'[s]) = Len(queue[s]) - 1
      /\ \A u \in Subs \ {s} : queue'[u] = queue[u]
      /\ \A i \in 1..Len(queue'[s]) : i + 1 \in 1..Len(queue[s]) /\ queue'[s][i] = queue[s][i + 1]
  BY <1>1, Taken
<1>3. QueueOK'
  <2>1. queue' \in [Subs -> Seq(Nat)]
    BY <1>1, <1>2
  <2>2. ASSUME NEW u \in Subs
        PROVE  Len(queue'[u]) <= QueueCap /\ \A i \in 1..Len(queue'[u]) : queue'[u][i] \in 1..seq'
    <3>1. Len(queue[u]) <= QueueCap /\ \A i \in 1..Len(queue[u]) : queue[u][i] \in 1..seq
      BY DEF IInv, QueueOK
    <3>2. CASE u = s
      BY <1>1, <1>2, <3>1, <3>2, EventHubAssumption
    <3>3. CASE u # s
      BY <1>2, <3>1, <3>3
    <3> QED
      BY <3>2, <3>3
  <2> QED
    BY <2>1, <2>2 DEF QueueOK
<1>4. Tally'
  <2>1. ASSUME NEW u \in Subs
        PROVE  dropped[u] + Len(queue'[u]) + Flag(u \in uncounted) <= due[u] /\ due[u] <= seq
    <3>1. /\ dropped[u] + Len(queue[u]) + Flag(u \in uncounted) <= due[u] /\ due[u] <= seq
          /\ dropped[u] \in Nat /\ due[u] \in Nat /\ Flag(u \in uncounted) \in Nat
      BY DEF IInv, Tally, Flag
    <3>2. Len(queue'[u]) \in Nat /\ Len(queue'[u]) <= Len(queue[u])
      BY <1>1, <1>2
    <3> QED
      BY <1>1, <3>1, <3>2
  <2> QED
    BY <2>1 DEF IInv, Tally
<1> QED
  BY <1>1, <1>2, <1>3, <1>4

LEMMA TakeKeeps ==
  ASSUME IInv, NEW s \in Streams, Take(s)
  PROVE  IInv'
<1> USE EventHubAssumption DEF IInv, Take, StreamerAt, Hub, Conn, Pane, Waiting
<1>1. s \in Subs
  BY DEF Subs
<1>2. /\ QueueOK' /\ Tally' /\ Len(queue'[s]) = Len(queue[s]) - 1 /\ queue[s] \in Seq(Nat)
      /\ \A u \in Subs \ {s} : queue'[u] = queue[u]
  BY <1>1, QueueTaken
<1>3. /\ Head(queue[s]) = queue[s][1] /\ 1 \in 1..Len(queue[s]) /\ queue[s][1] \in 1..seq
      /\ queue'[s] = Tail(queue[s])
      /\ \A i \in 1..Len(queue'[s]) : i + 1 \in 1..Len(queue[s]) /\ queue'[s][i] = queue[s][i + 1]
  BY <1>1, <1>2, Taken DEF QueueOK
<1>4. /\ hand'[s] = queue[s][1] /\ hand'[s] \in Nat \ {0} /\ hand[s] = 0
      /\ \A u \in Streams \ {s} : hand'[u] = hand[u]
  BY <1>3 DEF StreamOK, BoundOK
<1>5. SetsOK' /\ BoundOK' /\ ConnOK'
  BY DEF SetsOK, BoundOK, ConnOK, Writing, StreamOK
<1>6. StreamOK'
  BY <1>4 DEF StreamOK
<1>7. Whole'
  <2> SUFFICES ASSUME NEW u \in Streams
               PROVE  due[u] = wrote[u].events + wrote[u].told + dropped[u] + Len(queue'[u])
                               + Flag(hand'[u] # 0) + Flag(u \in uncounted)
    BY DEF Whole
  <2>1. /\ u \in Subs /\ dropped[u] \in Nat /\ wrote[u].events \in Nat /\ wrote[u].told \in Nat
        /\ Len(queue[u]) \in Nat /\ Flag(u \in uncounted) \in Nat
    BY CountsAreNumbers
  <2>2. due[u] = wrote[u].events + wrote[u].told + dropped[u] + Len(queue[u])
                 + Flag(hand[u] # 0) + Flag(u \in uncounted)
    BY DEF Whole
  <2>3. CASE u = s
    <3>1. Flag(hand[u] # 0) = 0 /\ Flag(hand'[u] # 0) = 1 /\ Len(queue'[u]) = Len(queue[u]) - 1
      BY <1>2, <1>4, <2>3 DEF Flag
    <3> DEFINE a == wrote[u].events + wrote[u].told + dropped[u]
               b == Len(queue[u])
               g == Flag(u \in uncounted)
    <3>2. a \in Nat /\ b \in Nat /\ g \in Nat /\ due[u] = a + b + 0 + g
      BY <2>1, <2>2, <3>1
    <3> HIDE DEF a, b, g, Take
    <3>3. due[u] = a + (b - 1) + 1 + g
      BY <3>2
    <3> QED
      BY <3>1, <3>3 DEF a, b, g
  <2>4. CASE u # s
    BY <1>2, <1>4, <2>1, <2>2, <2>4
  <2> QED
    BY <2>3, <2>4
<1>8. Order'
  <2> SUFFICES ASSUME NEW u \in Streams
               PROVE  /\ wrote[u].last <= seq /\ hand'[u] <= seq
                      /\ hand'[u] # 0 => wrote[u].last < hand'[u]
                      /\ \A i \in 1..Len(queue'[u]) :
                           /\ wrote[u].last < queue'[u][i] /\ hand'[u] < queue'[u][i]
                           /\ \A j \in 1..Len(queue'[u]) : i < j => queue'[u][i] < queue'[u][j]
    BY DEF Order
  <2>1. CASE u = s
    <3>1. /\ wrote[u].last <= seq /\ hand'[u] <= seq /\ wrote[u].last < hand'[u]
      BY <1>3, <1>4, <2>1 DEF Order, BoundOK
    <3>2. ASSUME NEW i \in 1..Len(queue'[u])
          PROVE  /\ wrote[u].last < queue'[u][i] /\ hand'[u] < queue'[u][i]
                 /\ \A j \in 1..Len(queue'[u]) : i < j => queue'[u][i] < queue'[u][j]
      <4>1. i + 1 \in 1..Len(queue[u]) /\ queue'[u][i] = queue[u][i + 1] /\ 1 < i + 1
        BY <1>3, <2>1
      <4>2. wrote[u].last < queue'[u][i] /\ hand'[u] < queue'[u][i]
        BY <1>3, <1>4, <2>1, <4>1 DEF Order
      <4>3. ASSUME NEW j \in 1..Len(queue'[u]), i < j
            PROVE  queue'[u][i] < queue'[u][j]
        <5>1. j + 1 \in 1..Len(queue[u]) /\ queue'[u][j] = queue[u][j + 1] /\ i + 1 < j + 1
          BY <1>3, <2>1, <4>3
        <5> QED
          BY <4>1, <5>1 DEF Order
      <4> QED
        BY <4>2, <4>3
    <3> QED
      BY <3>1, <3>2
  <2>2. CASE u # s
    BY <1>2, <1>4, <2>2 DEF Order, Subs
  <2> QED
    BY <2>1, <2>2
<1>9. WaitOK'
  BY <1>2 DEF WaitOK, ExitKnown, Subs
<1>10. MatchedIsTrue'
  BY DEF MatchedIsTrue, Holds
<1> QED
  BY <1>2, <1>5, <1>6, <1>7, <1>8, <1>9, <1>10

LEMMA WaitWakeKeeps ==
  ASSUME IInv, NEW w \in Waits, WaitWake(w)
  PROVE  IInv'
<1> USE EventHubAssumption DEF IInv, WaitWake, WaiterAt, Hub, Conn, Output, Pane
<1>1. w \in Subs /\ w \notin Streams /\ Streams \subseteq Subs
  BY DEF Subs
<1>2. /\ QueueOK' /\ Tally' /\ queue[w] \in Seq(Nat)
      /\ \A u \in Subs \ {w} : queue'[u] = queue[u]
  BY <1>1, QueueTaken
<1>3. SetsOK' /\ BoundOK' /\ ConnOK' /\ StreamOK'
  BY DEF SetsOK, BoundOK, ConnOK, StreamOK, Writing
<1>4. \A s \in Streams : queue'[s] = queue[s]
  BY <1>1, <1>2
<1>5. Whole' /\ Order'
  BY <1>4 DEF Whole, Order
<1>6. WaitOK'
  BY <1>2 DEF WaitOK, ExitKnown, Subs
<1>7. MatchedIsTrue'
  BY DEF MatchedIsTrue, Holds, WaitOK, ExitKnown
<1> QED
  BY <1>2, <1>3, <1>5, <1>6, <1>7

-----------------------------------------------------------------------------
(* IInv is inductive, and what it shows.                                   *)
LEMMA StepKeepsIInv == IInv /\ [Next]_vars => IInv'
<1> SUFFICES ASSUME IInv, [Next]_vars
             PROVE  IInv'
  OBVIOUS
<1>1. CASE UNCHANGED vars
  <2>1. QueueOK' /\ Tally' /\ Whole' /\ Order' /\ ConnOK' /\ StreamOK'
    BY <1>1, AccountsUndisturbed, ConnUndisturbed DEF IInv, vars, Conn, Output
  <2>2. SetsOK' /\ BoundOK'
    BY <1>1 DEF IInv, vars, SetsOK, BoundOK
  <2>3. WaitOK' /\ MatchedIsTrue'
    BY <1>1 DEF IInv, vars, WaitOK, MatchedIsTrue, ExitKnown, Holds
  <2> QED
    BY <2>1, <2>2, <2>3 DEF IInv
<1>2. CASE ReadOutput \/ VtWriter \/ MonitorExit \/ CloseWindow \/ CreateSession
  BY <1>2, ReadOutputKeeps, VtWriterKeeps, MonitorExitKeeps, CloseWindowKeeps, CreateSessionKeeps
<1>3. CASE Counts \/ \E type \in Types : Publish(type)
  BY <1>3, CountDropKeeps, PublishKeeps DEF Counts
<1>4. CASE Acks \/ VerbUnsubscribe \/ ConnEnds
  BY <1>4, StartPendingStreamKeeps, AckFailsKeeps, VerbUnsubscribeKeeps, ConnEndsKeeps DEF Acks
<1>5. CASE \E s \in Streams : VerbSubscribe(s) \/ StreamStep(s) \/ WriteFails(s)
  BY <1>5, VerbSubscribeKeeps, TakeKeeps, WriteEventKeeps, StreamStopsKeeps, LeaveHubKeeps,
     WriteFailsKeeps DEF StreamStep
<1>6. CASE \E w \in Waits : WaitSubscribe(w) \/ WaitStep(w) \/ Deadline(w)
  BY <1>6, WaitSubscribeKeeps, WaitLookKeeps, WaitWakeKeeps, BackstopKeeps, WaitReleasesKeeps,
     DeadlineKeeps DEF WaitStep
<1> QED
  BY <1>1, <1>2, <1>3, <1>4, <1>5, <1>6 DEF Next

THEOREM Invariance == Spec => []IInv
<1>1. Init => IInv
  BY InitHolds
<1>2. IInv /\ [Next]_vars => IInv'
  BY StepKeepsIInv
<1> QED
  BY <1>1, <1>2, PTL DEF Spec

(* Every variable keeps its type; no count passes the number of events.    *)
THEOREM TypesHold == Spec => []TypeOK
<1>1. IInv => TypeOK
  <2> SUFFICES ASSUME IInv PROVE TypeOK
    OBVIOUS
  <2>1. seq \in Nat /\ seq <= MaxSeq /\ MaxSeq \in Nat
    BY CardinalityOfRaised, EventHubAssumption DEF IInv, BoundOK
  <2>2. /\ queue \in [Subs -> Seq(1..MaxSeq)] /\ \A s \in Subs : Len(queue[s]) <= QueueCap
    <3>1. ASSUME NEW s \in Subs PROVE queue[s] \in Seq(1..MaxSeq)
      <4>1. queue[s] \in Seq(Nat) /\ \A i \in 1..Len(queue[s]) : queue[s][i] \in 1..MaxSeq
        BY <2>1 DEF IInv, QueueOK
      <4>2. Len(queue[s]) \in Nat /\ queue[s] \in [1..Len(queue[s]) -> 1..MaxSeq]
        BY <4>1
      <4> QED
        BY <4>2, SeqDef
    <3> QED
      BY <3>1 DEF IInv, QueueOK
  <2>3. dropped \in [Subs -> 0..MaxSeq] /\ due \in [Subs -> 0..MaxSeq]
    <3>1. ASSUME NEW s \in Subs PROVE dropped[s] \in 0..MaxSeq /\ due[s] \in 0..MaxSeq
      <4>1. /\ dropped[s] \in Nat /\ due[s] \in Nat /\ Len(queue[s]) \in Nat /\ Flag(s \in uncounted) \in Nat
            /\ dropped[s] + Len(queue[s]) + Flag(s \in uncounted) <= due[s] /\ due[s] <= seq
        BY DEF IInv, Tally, QueueOK, Flag
      <4> QED
        BY <2>1, <4>1
    <3> QED
      BY <3>1 DEF IInv, Tally
  <2>4. /\ hand \in [Streams -> 0..MaxSeq]
        /\ wrote \in [Streams -> [events : 0..MaxSeq, told : 0..MaxSeq, last : 0..MaxSeq]]
    <3>1. ASSUME NEW s \in Streams
          PROVE  hand[s] \in 0..MaxSeq /\ wrote[s] \in [events : 0..MaxSeq, told : 0..MaxSeq, last : 0..MaxSeq]
      <4> DEFINE e == wrote[s].events
                 t == wrote[s].told
                 d == dropped[s]
                 b == Len(queue[s])
                 f == Flag(hand[s] # 0)
                 g == Flag(s \in uncounted)
      <4>1. /\ e \in Nat /\ t \in Nat /\ d \in Nat /\ b \in Nat /\ f \in Nat /\ g \in Nat
            /\ due[s] = e + t + d + b + f + g /\ due[s] \in 0..MaxSeq
        BY <2>3 DEF IInv, Tally, StreamOK, QueueOK, Whole, Flag, Subs
      <4>2. hand[s] \in 0..MaxSeq /\ wrote[s].last \in 0..MaxSeq
        BY <2>1 DEF IInv, Order, StreamOK
      <4> HIDE DEF e, t, d, b, f, g
      <4>3. e \in 0..MaxSeq /\ t \in 0..MaxSeq
        BY <2>1, <4>1
      <4>4. wrote[s] \in [events : Nat, told : Nat, last : Nat]
        BY DEF IInv, StreamOK
      <4> QED
        BY <4>2, <4>3, <4>4 DEF e, t
    <3> QED
      BY <3>1 DEF IInv, StreamOK
  <2>5. /\ verb \in {"ready", "acking", "failed", "gone"} /\ streaming \in BOOLEAN /\ done \in BOOLEAN
        /\ {eventSub, pendingStream, turn} \subseteq Streams \cup {None}
    BY DEF IInv, ConnOK
  <2> QED
    BY <2>1, <2>2, <2>3, <2>4, <2>5 DEF IInv, TypeOK, SetsOK, StreamOK, WaitOK
<1> QED
  BY <1>1, Invariance, PTL

(* What a stream asked for reaches it whole: in order, each event once,    *)
(* and every gap accounted for.                                            *)
THEOREM StreamWholeHolds == Spec => []StreamWhole
<1>1. IInv => StreamWhole
  <2> SUFFICES ASSUME IInv PROVE StreamWhole
    OBVIOUS
  <2>1. Accounted
    BY DEF IInv, Whole, Accounted
  <2>2. InOrder
    <3> SUFFICES ASSUME NEW s \in Streams, NEW i \in DOMAIN Ahead(s), NEW j \in DOMAIN Ahead(s)
                 PROVE  wrote[s].last < Ahead(s)[i] /\ (i < j => Ahead(s)[i] < Ahead(s)[j])
      BY DEF InOrder
    <3>1. queue[s] \in Seq(Nat) /\ hand[s] \in Nat
      BY DEF IInv, QueueOK, StreamOK, Subs
    <3>2. CASE hand[s] = 0
      <4>1. Ahead(s) = queue[s] /\ DOMAIN Ahead(s) = 1..Len(queue[s])
        BY <3>1, <3>2 DEF Ahead
      <4> QED
        BY <4>1 DEF IInv, Order
    <3>3. CASE hand[s] # 0
      <4>1. /\ DOMAIN Ahead(s) = 1..(Len(queue[s]) + 1) /\ Ahead(s)[1] = hand[s]
            /\ \A k \in 2..(Len(queue[s]) + 1) :
                 k - 1 \in 1..Len(queue[s]) /\ Ahead(s)[k] = queue[s][k - 1]
        BY <3>1, <3>3 DEF Ahead
      <4>2. /\ i = 1 \/ i \in 2..(Len(queue[s]) + 1)
            /\ i < j => j \in 2..(Len(queue[s]) + 1)
        BY <3>1, <4>1
      <4>3. wrote[s].last < Ahead(s)[i]
        BY <3>3, <4>1, <4>2 DEF IInv, Order
      <4>4. ASSUME i < j PROVE Ahead(s)[i] < Ahead(s)[j]
        <5>1. CASE i = 1
          BY <4>1, <4>2, <4>4, <5>1 DEF IInv, Order
        <5>2. CASE i \in 2..(Len(queue[s]) + 1)
          <6>1. i - 1 \in 1..Len(queue[s]) /\ j - 1 \in 1..Len(queue[s]) /\ i - 1 < j - 1
            <7>1. Len(queue[s]) \in Nat /\ i \in 2..(Len(queue[s]) + 1) /\ j \in 2..(Len(queue[s]) + 1)
              BY <3>1, <4>2, <4>4, <5>2
            <7> HIDE DEF IInv
            <7> QED
              BY <4>4, <7>1
          <6> QED
            BY <4>1, <4>2, <4>4, <5>2, <6>1 DEF IInv, Order
        <5> QED
          BY <4>2, <5>1, <5>2
      <4> QED
        BY <4>3, <4>4
    <3> QED
      BY <3>2, <3>3
  <2> QED
    BY <2>1, <2>2 DEF StreamWhole
<1> QED
  BY <1>1, Invariance, PTL

(* A wait matches what has come true.                                      *)
THEOREM MatchedIsTrueHolds == Spec => []MatchedIsTrue
  BY Invariance, PTL DEF IInv

(* What is written for a stream comes after its ack and before the ack of  *)
(* the next one.                                                           *)
THEOREM LinesInTurnHolds == Spec => LinesInTurn
<1>1. IInv /\ [Next]_vars => [\A s \in Streams : wrote'[s] # wrote[s] => turn = s]_vars
  <2> SUFFICES ASSUME IInv, Next, NEW s \in Streams, wrote'[s] # wrote[s]
               PROVE  turn = s
    OBVIOUS
  <2>1. PICK u \in Streams : WriteEvent(u)
    BY DEF Next, ReadOutput, VtWriter, MonitorExit, CloseWindow, CreateSession, MayRaise, Raise,
           Counts, CountDrop, Publish, PublishTo, Acks, StartPendingStream, AckFails, VerbUnsubscribe,
           ConnEnds, VerbSubscribe, StreamStep, Take, StreamStops, LeaveHub, WriteFails, Leaves,
           WaitStep, WaitSubscribe, WaitLook, WaitWake, Backstop, WaitReleases, Deadline, Output
  <2>2. u = s
    BY <2>1 DEF WriteEvent, Writes, IInv, StreamOK
  <2> QED
    BY <2>1, <2>2 DEF WriteEvent, IInv, ConnOK, Writing
<1> QED
  BY <1>1, Invariance, PTL DEF Spec, LinesInTurn
=============================================================================
