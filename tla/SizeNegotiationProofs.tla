------------------------ MODULE SizeNegotiationProofs ------------------------
(***************************************************************************)
(* For every number of clients, set of sizes and number of resizes: the    *)
(* types of SizeNegotiation, that a handler that works alone leaves the    *)
(* session at the smallest of its clients' sizes, and that nobody is left  *)
(* drawing smaller than the smallest terminal when changes come one at a   *)
(* time.                                                                   *)
(*                                                                         *)
(* Alone says what a handler at work knows of the size at each of its      *)
(* places, and that nobody else is at work; it is lost when a second one   *)
(* begins and regained by one that begins with all the others idle, from   *)
(* whatever the crossing ones left.  On it rests InTurn: the one client    *)
(* that is busy goes through its stages, what is sent is always the        *)
(* smallest terminal, and a client that has heard of nothing yet either    *)
(* has room for it or has a message, or a handler about to send one.       *)
(***************************************************************************)
EXTENDS SizeNegotiation, WellFoundedInduction, TLAPS

----------------------------------------------------------------------------
(* The smallest of a set of sizes.                                         *)
LEMMA MinOf ==
  ASSUME NEW S, S \subseteq Nat, S # {}
  PROVE  Min(S) \in S /\ \A y \in S : Min(S) <= y
<1>1. PICK x \in S : \A y \in S : ~ (<<y, x>> \in OpToRel(<, Nat))
  BY WFMin, NatLessThanWellFounded, Zenon
<1>2. \A y \in S : ~(y < x)
  BY <1>1, Zenon DEF OpToRel
<1>3. \A y \in S : x <= y
  BY <1>2
<1> QED
  BY <1>3 DEF Min

LEMMA MinIs ==
  ASSUME NEW S, S \subseteq Nat, NEW m \in S, \A y \in S : m <= y
  PROVE  Min(S) = m
<1>1. Min(S) \in S /\ Min(S) <= m /\ m <= Min(S)
  BY MinOf
<1>2. Min(S) \in Nat /\ m \in Nat
  BY <1>1
<1> QED
  BY <1>1, <1>2

(* One taken out of the list of messages that may arrive in any order.     *)
LEMMA RemoveAtShape ==
  ASSUME NEW S, NEW s \in Seq(S), NEW i \in 1..Len(s)
  PROVE  /\ RemoveAt(s, i) \in Seq(S) /\ Len(RemoveAt(s, i)) = Len(s) - 1
         /\ \A j \in 1..Len(RemoveAt(s, i)) :
              RemoveAt(s, i)[j] = IF j < i THEN s[j] ELSE s[j + 1]
<1> DEFINE before == SubSeq(s, 1, i - 1)
           after  == SubSeq(s, i + 1, Len(s))
<1>1. /\ before \in Seq(S) /\ Len(before) = i - 1
      /\ \A j \in 1..Len(before) : before[j] = s[j]
  OBVIOUS
<1>2. /\ after \in Seq(S) /\ Len(after) = Len(s) - i
      /\ \A j \in 1..Len(after) : after[j] = s[i + j]
  OBVIOUS
<1>3. RemoveAt(s, i) = before \o after
  BY DEF RemoveAt
<1> HIDE DEF before, after
<1>4. RemoveAt(s, i) \in Seq(S) /\ Len(RemoveAt(s, i)) = Len(s) - 1
  BY <1>1, <1>2, <1>3
<1>5. ASSUME NEW j \in 1..(Len(s) - 1)
      PROVE  RemoveAt(s, i)[j] = IF j < i THEN s[j] ELSE s[j + 1]
  <2>1. CASE j < i
    BY <1>1, <1>2, <1>3, <2>1
  <2>2. CASE ~(j < i)
    <3>1. j - (i - 1) \in 1..Len(after) /\ i + (j - (i - 1)) = j + 1
      BY <1>2, <2>2
    <3>2. after[j - (i - 1)] = s[j + 1]
      BY <1>2, <3>1
    <3>3. RemoveAt(s, i)[j] = after[j - (i - 1)]
      BY <1>1, <1>2, <1>3, <2>2
    <3> QED
      BY <2>2, <3>2, <3>3
  <2> QED
    BY <2>1, <2>2
<1> QED
  BY <1>4, <1>5

(* The sizes in a list of messages.                                        *)
Values(s) == {s[i] : i \in DOMAIN s}

LEMMA RemovedValues ==
  ASSUME NEW S, NEW s \in Seq(S), NEW i \in DOMAIN s
  PROVE  /\ RemoveAt(s, i) \in Seq(S) /\ s[i] \in S /\ s[i] \in Values(s)
         /\ Values(RemoveAt(s, i)) \subseteq Values(s)
<1>1. i \in 1..Len(s) /\ s[i] \in S
  OBVIOUS
<1>2. /\ RemoveAt(s, i) \in Seq(S) /\ Len(RemoveAt(s, i)) = Len(s) - 1
      /\ \A j \in 1..Len(RemoveAt(s, i)) :
           RemoveAt(s, i)[j] = IF j < i THEN s[j] ELSE s[j + 1]
  BY <1>1, RemoveAtShape
<1>3. \A j \in 1..(Len(s) - 1) : j \in DOMAIN s /\ j + 1 \in DOMAIN s
  OBVIOUS
<1>4. DOMAIN RemoveAt(s, i) = 1..(Len(s) - 1)
  BY <1>2
<1> QED
  BY <1>1, <1>2, <1>3, <1>4 DEF Values

LEMMA AppendedValues ==
  ASSUME NEW S, NEW s \in Seq(S), NEW x \in S
  PROVE  /\ Append(s, x) \in Seq(S) /\ Append(s, x) # <<>>
         /\ Values(Append(s, x)) = Values(s) \cup {x}
<1>1. /\ Append(s, x) \in Seq(S) /\ DOMAIN s = 1..Len(s) /\ Len(s) \in Nat
      /\ DOMAIN Append(s, x) = 1..(Len(s) + 1) /\ Append(s, x)[Len(s) + 1] = x
      /\ \A i \in 1..Len(s) : Append(s, x)[i] = s[i]
  OBVIOUS
<1>2. 1..(Len(s) + 1) = 1..Len(s) \cup {Len(s) + 1}
  BY <1>1
<1> QED
  BY <1>1, <1>2 DEF Values

LEMMA TailValues ==
  ASSUME NEW S, NEW s \in Seq(S), s # <<>>
  PROVE  /\ Tail(s) \in Seq(S) /\ Head(s) \in S /\ Head(s) \in Values(s)
         /\ Values(Tail(s)) \subseteq Values(s)
<1>1. /\ Tail(s) \in Seq(S) /\ Len(Tail(s)) = Len(s) - 1 /\ Len(s) \in Nat /\ Len(s) >= 1
      /\ \A i \in 1..Len(Tail(s)) : Tail(s)[i] = s[i + 1]
      /\ Head(s) = s[1] /\ Head(s) \in S /\ DOMAIN s = 1..Len(s) /\ DOMAIN Tail(s) = 1..Len(Tail(s))
  OBVIOUS
<1>2. \A i \in 1..Len(Tail(s)) : i + 1 \in 1..Len(s)
  BY <1>1
<1>3. 1 \in 1..Len(s)
  BY <1>1
<1> QED
  BY <1>1, <1>2, <1>3 DEF Values

-----------------------------------------------------------------------------
(* Everyone in the session has a size; so has what a client asks, and what a *)
(* handler has worked out.                                                   *)
AttachedSized == \A c \in attached : width[c] \in Sizes
AskedSized ==
  \A c \in Clients : \A r \in Values(up[c]) : r.kind # "detach" => r.size \in Sizes
WorkedOut(c) ==
  /\ At(c, "idle") => handler[c] = Idle
  /\ handler[c].at \in {"join", "fit"} => c \in attached
  /\ handler[c].at \in {"resize", "compare", "set", "tell"} => handler[c].size \in Sizes

Sound == AttachedSized /\ AskedSized /\ \A c \in Clients : WorkedOut(c)

LEMMA SmallestIs ==
  ASSUME TypeOK, AttachedSized
  PROVE  /\ Known = {width[c] : c \in attached} /\ Known \subseteq Nat \ {0}
         /\ attached = {} => Smallest = 0
         /\ attached # {} => /\ Smallest = Min(Known) /\ Smallest \in Sizes /\ Smallest # 0
                             /\ \A c \in attached : Smallest <= width[c]
         /\ Smallest \in Sizes \cup {0}
<1>1. Sizes \subseteq Nat \ {0} /\ 0 \notin Sizes
  BY SizeNegotiationAssumption DEF SizeNegotiationAssumption
<1>2. {width[c] : c \in attached} \subseteq Sizes
  BY DEF AttachedSized
<1>3. Known = {width[c] : c \in attached}
  BY <1>1, <1>2 DEF Known
<1>4. CASE attached = {}
  BY <1>1, <1>3, <1>4 DEF Smallest
<1>5. CASE attached # {}
  <2>1. Known # {} /\ Known \subseteq Nat
    BY <1>1, <1>2, <1>3, <1>5
  <2>2. Min(Known) \in Known /\ \A y \in Known : Min(Known) <= y
    BY <2>1, MinOf
  <2>3. Smallest = Min(Known)
    BY <2>1 DEF Smallest
  <2> QED
    BY <1>1, <1>2, <1>3, <1>5, <2>2, <2>3
<1> QED
  BY <1>1, <1>2, <1>3, <1>4, <1>5

(* A handler goes on to its next place, and no other one moves.            *)
Places == {"idle", "join", "fit", "resize", "left", "calc", "compare", "set", "tell", "answer"}

LEMMA GoesShape ==
  ASSUME TypeOK, NEW c \in Clients, NEW place \in Places, Goes(c, place)
  PROVE  /\ handler' \in [Clients -> Handlers] /\ handler'[c].at = place
         /\ \A d \in Clients \ {c} : handler'[d] = handler[d]
         /\ place = "idle" => handler'[c] = Idle
         /\ place # "idle" => /\ handler'[c].size = handler[c].size
                              /\ handler'[c].reply = handler[c].reply
                              /\ handler'[c].peers = handler[c].peers
<1>1. Idle \in Handlers /\ Idle.at = "idle"
  BY DEF Idle, Handlers
<1>2. handler \in [Clients -> Handlers]
  BY DEF TypeOK
<1>3. CASE place = "idle"
  BY <1>1, <1>2, <1>3 DEF Goes
<1>4. CASE place # "idle"
  <2>1. handler' = [handler EXCEPT ![c] = [handler[c] EXCEPT !.at = place]]
    BY <1>4 DEF Goes
  <2>2. [handler[c] EXCEPT !.at = place] \in Handlers
    BY <1>2 DEF Handlers, Places
  <2> QED
    BY <1>2, <1>4, <2>1, <2>2 DEF Handlers
<1> QED
  BY <1>3, <1>4

LEMMA AfterPlace ==
  ASSUME NEW c
  PROVE  /\ After(c) \in {"idle", "answer"} /\ After(c) \in Places
         /\ handler[c].reply = 0 => After(c) = "idle"
         /\ handler[c].reply # 0 => After(c) = "answer"
BY DEF After, Places

(* A request is taken, and one is sent.                                    *)
LEMMA TakesShape ==
  ASSUME TypeOK, AskedSized, NEW c \in Clients, NEW kind, Takes(c, kind)
  PROVE  /\ up' \in [Clients -> Seq(Requests)] /\ AskedSized'
         /\ Head(up[c]) \in Requests
         /\ kind # "detach" => Head(up[c]).size \in Sizes
         /\ \A d \in Clients \ {c} : up'[d] = up[d]
         /\ up'[c] = Tail(up[c])
<1>1. up \in [Clients -> Seq(Requests)] /\ up[c] \in Seq(Requests) /\ up[c] # <<>>
      /\ up' = [up EXCEPT ![c] = Tail(up[c])] /\ Head(up[c]).kind = kind
  BY DEF TypeOK, Takes
<1>2. /\ Tail(up[c]) \in Seq(Requests) /\ Head(up[c]) \in Requests
      /\ Head(up[c]) \in Values(up[c]) /\ Values(Tail(up[c])) \subseteq Values(up[c])
  BY <1>1, TailValues
<1>3. /\ up' \in [Clients -> Seq(Requests)] /\ up'[c] = Tail(up[c])
      /\ \A d \in Clients \ {c} : up'[d] = up[d]
  BY <1>1, <1>2
<1>4. AskedSized'
  <2> SUFFICES ASSUME NEW d \in Clients, NEW r \in Values(up'[d]), r.kind # "detach"
               PROVE  r.size \in Sizes
    BY DEF AskedSized, Values
  <2>1. r \in Values(up[d])
    BY <1>2, <1>3
  <2> QED
    BY <2>1 DEF AskedSized
<1> QED
  BY <1>1, <1>2, <1>3, <1>4 DEF AskedSized

LEMMA SendsShape ==
  ASSUME TypeOK, AskedSized, NEW c \in Clients, NEW kind \in {"attach", "resize", "detach"},
         NEW size \in Sizes \cup {0}, kind # "detach" => size \in Sizes, Sends(c, kind, size)
  PROVE  /\ up' \in [Clients -> Seq(Requests)] /\ AskedSized'
         /\ \A d \in Clients \ {c} : up'[d] = up[d]
         /\ up'[c] = Append(up[c], [kind |-> kind, size |-> size])
<1> DEFINE q == [kind |-> kind, size |-> size]
<1>1. up \in [Clients -> Seq(Requests)] /\ up[c] \in Seq(Requests) /\ q \in Requests
      /\ up' = [up EXCEPT ![c] = Append(up[c], q)]
  BY DEF TypeOK, Sends, Requests
<1>2. q.kind = kind /\ q.size = size
  OBVIOUS
<1> HIDE DEF q
<1>3. Append(up[c], q) \in Seq(Requests) /\ Values(Append(up[c], q)) = Values(up[c]) \cup {q}
  BY <1>1, AppendedValues
<1>4. /\ up' \in [Clients -> Seq(Requests)] /\ up'[c] = Append(up[c], q)
      /\ \A d \in Clients \ {c} : up'[d] = up[d]
  BY <1>1, <1>3
<1>5. AskedSized'
  <2> SUFFICES ASSUME NEW d \in Clients, NEW r \in Values(up'[d]), r.kind # "detach"
               PROVE  r.size \in Sizes
    BY DEF AskedSized, Values
  <2>1. CASE d = c
    <3>1. up'[d] = Append(up[c], q)
      BY <1>4, <2>1
    <3>2. r \in Values(up[c]) \cup {q}
      BY <1>3, <3>1
    <3> QED
      BY <1>2, <3>2 DEF AskedSized
  <2>2. CASE d # c
    BY <1>4, <2>2 DEF AskedSized
  <2> QED
    BY <2>1, <2>2
<1> QED
  BY <1>4, <1>5 DEF q

LEMMA ForgottenAsked ==
  ASSUME TypeOK, AskedSized, NEW c \in Clients, up' = [up EXCEPT ![c] = <<>>]
  PROVE  up' \in [Clients -> Seq(Requests)] /\ AskedSized'
<1>1. up \in [Clients -> Seq(Requests)] /\ <<>> \in Seq(Requests)
  BY DEF TypeOK
<1>2. up' \in [Clients -> Seq(Requests)] /\ up'[c] = <<>> /\ \A d \in Clients \ {c} : up'[d] = up[d]
  BY <1>1
<1>3. Values(<<>>) = {}
  BY DEF Values
<1>4. AskedSized'
  <2> SUFFICES ASSUME NEW d \in Clients, NEW r \in Values(up'[d]), r.kind # "detach"
               PROVE  r.size \in Sizes
    BY DEF AskedSized, Values
  <2>1. d # c
    BY <1>2, <1>3
  <2> QED
    BY <1>2, <2>1 DEF AskedSized
<1> QED
  BY <1>2, <1>4

-----------------------------------------------------------------------------
(* The facts above hold after every step.                                  *)
Basics == TypeOK /\ Sound

LEMMA BasicsGoes ==
  ASSUME Basics, NEW c \in Clients, NEW place \in Places, Goes(c, place),
         attached' = attached, width' = width,
         place \in {"join", "fit"} => c \in attached,
         place \in {"resize", "compare", "set", "tell"} => handler[c].size \in Sizes
  PROVE  handler' \in [Clients -> Handlers] /\ \A d \in Clients : WorkedOut(d)'
<1>1. /\ handler' \in [Clients -> Handlers] /\ handler'[c].at = place
      /\ \A d \in Clients \ {c} : handler'[d] = handler[d]
      /\ place = "idle" => handler'[c] = Idle
      /\ place # "idle" => handler'[c].size = handler[c].size
  BY GoesShape DEF Basics
<1>2. WorkedOut(c)'
  BY <1>1 DEF WorkedOut, At
<1>3. \A d \in Clients \ {c} : WorkedOut(d)'
  BY <1>1 DEF WorkedOut, At, Basics, Sound
<1> QED
  BY <1>1, <1>2, <1>3

LEMMA BasicsAttaching ==
  ASSUME Basics, NEW c \in Clients,
         Attach(c) \/ AttachCounts(c) \/ AttachFits(c) \/ AttachResizes(c)
  PROVE  Basics'
<1>0. TypeOK /\ Sound
  BY DEF Basics
<1>1. CASE Attach(c)
  <2>1. Takes(c, "attach") /\ Goes(c, "join")
    BY <1>1 DEF Attach
  <2>2. /\ up' \in [Clients -> Seq(Requests)] /\ AskedSized' /\ Head(up[c]).size \in Sizes
    BY <1>0, <2>1, TakesShape DEF Sound
  <2>3. /\ handler' \in [Clients -> Handlers] /\ handler'[c].at = "join"
        /\ \A d \in Clients \ {c} : handler'[d] = handler[d]
    BY <1>0, <2>1, GoesShape DEF Places
  <2>4. TypeOK'
    BY <1>0, <1>1, <2>2, <2>3 DEF TypeOK, Attach, Begins, AllIdle, clientVars
  <2>5. AttachedSized'
    BY <1>0, <1>1, <2>2 DEF TypeOK, Attach, Sound, AttachedSized
  <2>6. \A d \in Clients : WorkedOut(d)'
    BY <1>0, <1>1, <2>3 DEF Sound, WorkedOut, At, Attach
  <2> QED
    BY <2>2, <2>4, <2>5, <2>6 DEF Basics, Sound
<1>2. CASE AttachCounts(c)
  <2>1. /\ handler' \in [Clients -> Handlers] /\ handler'[c].at = "fit"
        /\ \A d \in Clients \ {c} : handler'[d] = handler[d]
    <3> DEFINE h == [handler[c] EXCEPT !.at = "fit", !.peers = attached # {c}]
    <3>1. handler \in [Clients -> Handlers] /\ handler' = [handler EXCEPT ![c] = h]
      BY <1>0, <1>2 DEF AttachCounts, TypeOK
    <3>2. h \in Handlers /\ h.at = "fit"
      BY <3>1 DEF Handlers
    <3> QED
      BY <3>1, <3>2
  <2>2. TypeOK'
    BY <1>0, <1>2, <2>1 DEF TypeOK, AttachCounts, clientVars
  <2>3. AttachedSized' /\ AskedSized'
    BY <1>0, <1>2 DEF AttachCounts, Sound, AttachedSized, AskedSized
  <2>4. \A d \in Clients : WorkedOut(d)'
    BY <1>0, <1>2, <2>1 DEF Sound, WorkedOut, At, AttachCounts
  <2> QED
    BY <2>2, <2>3, <2>4 DEF Basics, Sound
<1>3. CASE AttachFits(c)
  <2>1. c \in attached /\ Smallest \in Sizes
    BY <1>0, <1>3, SmallestIs DEF AttachFits, Sound, WorkedOut, At
  <2>2. /\ handler' \in [Clients -> Handlers] /\ handler'[c].at = "resize"
        /\ handler'[c].size = Smallest /\ handler'[c].reply = Smallest
        /\ \A d \in Clients \ {c} : handler'[d] = handler[d]
    <3> DEFINE h == [handler[c] EXCEPT !.at = "resize", !.size = Smallest, !.reply = Smallest]
    <3>1. handler \in [Clients -> Handlers] /\ handler' = [handler EXCEPT ![c] = h]
      BY <1>0, <1>3 DEF AttachFits, TypeOK
    <3>2. h \in Handlers /\ h.at = "resize" /\ h.size = Smallest /\ h.reply = Smallest
      BY <2>1, <3>1 DEF Handlers
    <3> QED
      BY <3>1, <3>2
  <2>3. TypeOK'
    BY <1>0, <1>3, <2>2 DEF TypeOK, AttachFits, clientVars
  <2>4. AttachedSized' /\ AskedSized'
    BY <1>0, <1>3 DEF AttachFits, Sound, AttachedSized, AskedSized
  <2>5. \A d \in Clients : WorkedOut(d)'
    BY <1>0, <1>3, <2>1, <2>2 DEF Sound, WorkedOut, At, AttachFits
  <2> QED
    BY <2>3, <2>4, <2>5 DEF Basics, Sound
<1>4. CASE AttachResizes(c)
  <2>1. PICK place \in {"calc", "answer"} : Goes(c, place)
    BY <1>4 DEF AttachResizes
  <2>2. handler' \in [Clients -> Handlers] /\ \A d \in Clients : WorkedOut(d)'
    BY <1>4, <2>1, BasicsGoes DEF Places, AttachResizes
  <2>3. handler[c].size \in Sizes
    BY <1>0, <1>4 DEF Sound, WorkedOut, At, AttachResizes
  <2>4. TypeOK'
    BY <1>0, <1>4, <2>2, <2>3 DEF TypeOK, AttachResizes, clientVars
  <2>5. AttachedSized' /\ AskedSized'
    BY <1>0, <1>4 DEF AttachResizes, Sound, AttachedSized, AskedSized
  <2> QED
    BY <2>2, <2>4, <2>5 DEF Basics, Sound
<1> QED
  BY <1>1, <1>2, <1>3, <1>4

LEMMA BasicsLeaving ==
  ASSUME Basics, NEW c \in Clients, Leaves(c)
  PROVE  /\ handler' \in [Clients -> Handlers] /\ attached' \subseteq Clients
         /\ width' \in [Clients -> Sizes \cup {0}] /\ inflight' \in [Clients -> Seq(Sizes)]
         /\ AttachedSized' /\ \A d \in Clients : WorkedOut(d)'
<1>0. TypeOK /\ Sound
  BY DEF Basics
<1>1. /\ handler' \in [Clients -> Handlers] /\ handler'[c].at = "left"
      /\ \A d \in Clients \ {c} : handler'[d] = handler[d]
  BY <1>0, GoesShape DEF Leaves, Places
<1>2. <<>> \in Seq(Sizes)
  OBVIOUS
<1>3. /\ attached' \subseteq Clients /\ width' \in [Clients -> Sizes \cup {0}]
      /\ inflight' \in [Clients -> Seq(Sizes)]
  BY <1>0, <1>2 DEF TypeOK, Leaves
<1>4. AttachedSized'
  BY <1>0 DEF TypeOK, Leaves, Sound, AttachedSized
<1>5. \A d \in Clients : WorkedOut(d)'
  BY <1>0, <1>1 DEF Sound, WorkedOut, At, Leaves
<1> QED
  BY <1>1, <1>3, <1>4, <1>5

LEMMA BasicsTakenOrLost ==
  ASSUME Basics, NEW c \in Clients, HandleResize(c) \/ Detach(c) \/ ConnectionLost(c)
  PROVE  Basics'
<1>0. TypeOK /\ Sound
  BY DEF Basics
<1>1. CASE HandleResize(c)
  <2>1. Takes(c, "resize") /\ Goes(c, "calc")
    BY <1>1 DEF HandleResize
  <2>2. /\ up' \in [Clients -> Seq(Requests)] /\ AskedSized' /\ Head(up[c]).size \in Sizes
    BY <1>0, <2>1, TakesShape DEF Sound
  <2>3. /\ handler' \in [Clients -> Handlers] /\ handler'[c].at = "calc"
        /\ \A d \in Clients \ {c} : handler'[d] = handler[d]
    BY <1>0, <2>1, GoesShape DEF Places
  <2>4. TypeOK'
    BY <1>0, <1>1, <2>2, <2>3 DEF TypeOK, HandleResize, Begins, AllIdle, clientVars
  <2>5. AttachedSized'
    BY <1>0, <1>1, <2>2 DEF TypeOK, HandleResize, Sound, AttachedSized
  <2>6. \A d \in Clients : WorkedOut(d)'
    BY <1>0, <1>1, <2>3 DEF Sound, WorkedOut, At, HandleResize
  <2> QED
    BY <2>2, <2>4, <2>5, <2>6 DEF Basics, Sound
<1>2. CASE Detach(c)
  <2>1. Takes(c, "detach") /\ Leaves(c)
    BY <1>2 DEF Detach
  <2>2. /\ up' \in [Clients -> Seq(Requests)] /\ AskedSized'
    BY <1>0, <2>1, TakesShape DEF Sound
  <2>3. /\ handler' \in [Clients -> Handlers] /\ attached' \subseteq Clients
        /\ width' \in [Clients -> Sizes \cup {0}] /\ inflight' \in [Clients -> Seq(Sizes)]
        /\ AttachedSized' /\ \A d \in Clients : WorkedOut(d)'
    BY <2>1, BasicsLeaving
  <2>4. TypeOK'
    BY <1>0, <1>2, <2>2, <2>3 DEF TypeOK, Detach, Begins, AllIdle, clientVars
  <2> QED
    BY <2>2, <2>3, <2>4 DEF Basics, Sound
<1>3. CASE ConnectionLost(c)
  <2>1. Leaves(c) /\ up' = [up EXCEPT ![c] = <<>>]
    BY <1>3 DEF ConnectionLost
  <2>2. up' \in [Clients -> Seq(Requests)] /\ AskedSized'
    BY <1>0, <2>1, ForgottenAsked DEF Sound
  <2>3. /\ handler' \in [Clients -> Handlers] /\ attached' \subseteq Clients
        /\ width' \in [Clients -> Sizes \cup {0}] /\ inflight' \in [Clients -> Seq(Sizes)]
        /\ AttachedSized' /\ \A d \in Clients : WorkedOut(d)'
    BY <2>1, BasicsLeaving
  <2>4. TypeOK'
    BY <1>0, <1>3, <2>2, <2>3 DEF TypeOK, ConnectionLost, Begins, AllIdle, clientVars
  <2> QED
    BY <2>2, <2>3, <2>4 DEF Basics, Sound
<1> QED
  BY <1>1, <1>2, <1>3

LEMMA BasicsRecalculating ==
  ASSUME Basics, NEW c \in Clients,
         NotifyLeft(c) \/ Recalculate(c) \/ Compare(c) \/ SetSize(c) \/ Tell(c) \/ Answer(c)
  PROVE  Basics'
<1>0. TypeOK /\ Sound
  BY DEF Basics
<1>1. CASE NotifyLeft(c)
  <2>1. PICK place \in {"idle", "calc"} : Goes(c, place)
    BY <1>1 DEF NotifyLeft
  <2>2. handler' \in [Clients -> Handlers] /\ \A d \in Clients : WorkedOut(d)'
    BY <1>1, <2>1, BasicsGoes DEF Places, NotifyLeft
  <2>3. TypeOK'
    BY <1>0, <1>1, <2>2 DEF TypeOK, NotifyLeft, clientVars
  <2>4. AttachedSized' /\ AskedSized'
    BY <1>0, <1>1 DEF NotifyLeft, Sound, AttachedSized, AskedSized
  <2> QED
    BY <2>2, <2>3, <2>4 DEF Basics, Sound
<1>2. CASE Recalculate(c)
  <2>1. TypeOK /\ AttachedSized /\ UNCHANGED <<attached, width>> /\ At(c, "calc")
    BY <1>0, <1>2 DEF Sound, Recalculate
  <2>2. handler' \in [Clients -> Handlers] /\ \A d \in Clients : WorkedOut(d)'
    <3>1. CASE Smallest = 0
      <4>1. Goes(c, After(c))
        BY <1>2, <3>1 DEF Recalculate
      <4> QED
        BY <2>1, <4>1, AfterPlace, BasicsGoes
    <3>2. CASE Smallest # 0
      <4> DEFINE h == [handler[c] EXCEPT !.at = "compare", !.size = Smallest]
      <4>1. handler \in [Clients -> Handlers] /\ handler' = [handler EXCEPT ![c] = h]
        BY <1>0, <1>2, <3>2 DEF Recalculate, TypeOK
      <4>2. Smallest \in Sizes
        BY <2>1, <3>2, SmallestIs
      <4>3. h \in Handlers /\ h.at = "compare" /\ h.size = Smallest
        BY <4>1, <4>2 DEF Handlers
      <4>4. /\ handler' \in [Clients -> Handlers] /\ handler'[c].at = "compare"
            /\ handler'[c].size \in Sizes /\ \A d \in Clients \ {c} : handler'[d] = handler[d]
        BY <4>1, <4>2, <4>3
      <4> QED
        BY <1>0, <2>1, <4>4 DEF Sound, WorkedOut, At
    <3> QED
      BY <3>1, <3>2
  <2>3. TypeOK'
    BY <1>0, <1>2, <2>2 DEF TypeOK, Recalculate, clientVars
  <2>4. AttachedSized' /\ AskedSized'
    BY <1>0, <1>2 DEF Recalculate, Sound, AttachedSized, AskedSized
  <2> QED
    BY <2>2, <2>3, <2>4 DEF Basics, Sound
<1>3. CASE Compare(c)
  <2>1. PICK place \in {"idle", "answer", "set"} : Goes(c, place)
    BY <1>3, AfterPlace DEF Compare
  <2>2. handler[c].size \in Sizes
    BY <1>0, <1>3 DEF Sound, WorkedOut, At, Compare
  <2>3. handler' \in [Clients -> Handlers] /\ \A d \in Clients : WorkedOut(d)'
    BY <1>3, <2>1, <2>2, BasicsGoes DEF Places, Compare
  <2>4. TypeOK'
    BY <1>0, <1>3, <2>3 DEF TypeOK, Compare, clientVars
  <2>5. AttachedSized' /\ AskedSized'
    BY <1>0, <1>3 DEF Compare, Sound, AttachedSized, AskedSized
  <2> QED
    BY <2>3, <2>4, <2>5 DEF Basics, Sound
<1>4. CASE SetSize(c)
  <2>1. handler[c].size \in Sizes
    BY <1>0, <1>4 DEF Sound, WorkedOut, At, SetSize
  <2>2. handler' \in [Clients -> Handlers] /\ \A d \in Clients : WorkedOut(d)'
    BY <1>4, <2>1, BasicsGoes DEF Places, SetSize
  <2>3. TypeOK'
    BY <1>0, <1>4, <2>1, <2>2 DEF TypeOK, SetSize, clientVars
  <2>4. AttachedSized' /\ AskedSized'
    BY <1>0, <1>4 DEF SetSize, Sound, AttachedSized, AskedSized
  <2> QED
    BY <2>2, <2>3, <2>4 DEF Basics, Sound
<1>5. CASE Tell(c)
  <2>1. Goes(c, After(c)) /\ UNCHANGED <<attached, width>>
    BY <1>5 DEF Tell
  <2>2. handler' \in [Clients -> Handlers] /\ \A d \in Clients : WorkedOut(d)'
    BY <2>1, AfterPlace, BasicsGoes
  <2>3. handler[c].size \in Sizes
    BY <1>0, <1>5 DEF Sound, WorkedOut, At, Tell
  <2>4. \A d \in Clients : inflight[d] \in Seq(Sizes) /\ Append(inflight[d], handler[c].size) \in Seq(Sizes)
    BY <1>0, <2>3, AppendedValues DEF TypeOK
  <2>5. inflight' \in [Clients -> Seq(Sizes)]
    BY <1>5, <2>4 DEF Tell
  <2>6. TypeOK'
    BY <1>0, <1>5, <2>2, <2>5 DEF TypeOK, Tell, clientVars
  <2>7. AttachedSized' /\ AskedSized'
    BY <1>0, <1>5 DEF Tell, Sound, AttachedSized, AskedSized
  <2> QED
    BY <2>2, <2>6, <2>7 DEF Basics, Sound
<1>6. CASE Answer(c)
  <2>1. handler' \in [Clients -> Handlers] /\ \A d \in Clients : WorkedOut(d)'
    BY <1>6, BasicsGoes DEF Places, Answer
  <2>2. handler[c].reply \in Sizes \cup {0}
    BY <1>0 DEF TypeOK, Handlers
  <2>3. TypeOK'
    BY <1>0, <1>6, <2>1, <2>2 DEF TypeOK, Answer, clientVars
  <2>4. AttachedSized' /\ AskedSized'
    BY <1>0, <1>6 DEF Answer, Sound, AttachedSized, AskedSized
  <2> QED
    BY <2>1, <2>3, <2>4 DEF Basics, Sound
<1> QED
  BY <1>1, <1>2, <1>3, <1>4, <1>5, <1>6

(* A client's step leaves the daemon alone.                                *)
LEMMA ClientKeeps ==
  ASSUME NEW c \in Clients, Client(c)
  PROVE  UNCHANGED daemonVars
BY DEF Client, Start, SkipBroadcast, Restore, NothingToRestore, FirstSize, TerminalResizes,
       SessionResize, Quit

LEMMA BasicsClient ==
  ASSUME Basics, NEW c \in Clients, Client(c)
  PROVE  Basics'
<1>0. TypeOK /\ Sound
  BY DEF Basics
<1>1. AttachedSized' /\ \A d \in Clients : WorkedOut(d)'
  BY <1>0, ClientKeeps DEF daemonVars, Sound, AttachedSized, WorkedOut, At
<1>2. UNCHANGED up => AskedSized'
  BY <1>0 DEF Sound, AskedSized
<1>3. /\ Sizes \subseteq Nat \ {0} /\ Placeholder \in Sizes /\ MaxResizes \in Nat
      /\ term[c] \in Sizes
  BY <1>0, SizeNegotiationAssumption DEF SizeNegotiationAssumption, TypeOK
<1>4. CASE Start(c)
  <2>1. PICK size \in {Placeholder, term[c]} : Sends(c, "attach", size)
    BY <1>4 DEF Start
  <2>2. up' \in [Clients -> Seq(Requests)] /\ AskedSized'
    BY <1>0, <1>3, <2>1, SendsShape DEF Sound
  <2>3. TypeOK'
    BY <1>0, <1>4, <2>2 DEF TypeOK, Start, Changes, Quiet, daemonVars
  <2> QED
    BY <1>1, <2>2, <2>3 DEF Basics, Sound
<1>5. CASE SkipBroadcast(c)
  <2>1. PICK i \in DOMAIN inflight[c] : inflight' = [inflight EXCEPT ![c] = RemoveAt(@, i)]
    BY <1>5 DEF SkipBroadcast
  <2>2. inflight[c] \in Seq(Sizes)
    BY <1>0 DEF TypeOK
  <2>3. RemoveAt(inflight[c], i) \in Seq(Sizes)
    BY <2>2, RemovedValues
  <2>4. inflight' \in [Clients -> Seq(Sizes)]
    BY <1>0, <2>1, <2>3 DEF TypeOK
  <2>5. TypeOK'
    BY <1>0, <1>5, <2>4 DEF TypeOK, SkipBroadcast, daemonVars, clientVars
  <2> QED
    BY <1>1, <1>2, <1>5, <2>5 DEF Basics, Sound, SkipBroadcast
<1>6. CASE Restore(c) \/ NothingToRestore(c)
  <2>1. TypeOK'
    BY <1>0, <1>6 DEF TypeOK, Restore, NothingToRestore, daemonVars
  <2> QED
    BY <1>1, <1>2, <1>6, <2>1 DEF Basics, Sound, Restore, NothingToRestore
<1>7. CASE FirstSize(c)
  <2>1. up' \in [Clients -> Seq(Requests)] /\ AskedSized'
    BY <1>0, <1>3, <1>7, SendsShape DEF Sound, FirstSize
  <2>2. TypeOK'
    BY <1>0, <1>3, <1>7, <2>1 DEF TypeOK, FirstSize, daemonVars
  <2> QED
    BY <1>1, <2>1, <2>2 DEF Basics, Sound
<1>8. CASE TerminalResizes(c)
  <2>1. PICK size \in Sizes \ {term[c]} :
             term' = [term EXCEPT ![c] = size] /\ Sends(c, "resize", size)
    BY <1>8 DEF TerminalResizes
  <2>2. up' \in [Clients -> Seq(Requests)] /\ AskedSized'
    BY <1>0, <2>1, SendsShape DEF Sound
  <2>3. resizes' \in 0..MaxResizes
    BY <1>0, <1>3, <1>8 DEF TypeOK, TerminalResizes
  <2>4. TypeOK'
    BY <1>0, <1>8, <2>1, <2>2, <2>3 DEF TypeOK, TerminalResizes, Changes, Quiet, daemonVars
  <2> QED
    BY <1>1, <2>2, <2>4 DEF Basics, Sound
<1>9. CASE SessionResize(c)
  <2>1. PICK i \in DOMAIN inflight[c] :
             /\ eff' = [eff EXCEPT ![c] = inflight[c][i]]
             /\ inflight' = [inflight EXCEPT ![c] = RemoveAt(@, i)]
    BY <1>9 DEF SessionResize
  <2>2. inflight[c] \in Seq(Sizes)
    BY <1>0 DEF TypeOK
  <2>3. RemoveAt(inflight[c], i) \in Seq(Sizes) /\ inflight[c][i] \in Sizes
    BY <2>2, RemovedValues
  <2>4. inflight' \in [Clients -> Seq(Sizes)] /\ eff' \in [Clients -> Sizes \cup {0}]
    BY <1>0, <2>1, <2>3 DEF TypeOK
  <2>5. TypeOK'
    BY <1>0, <1>9, <2>4 DEF TypeOK, SessionResize, daemonVars
  <2> QED
    BY <1>1, <1>2, <1>9, <2>5 DEF Basics, Sound, SessionResize
<1>10. CASE Quit(c)
  <2>1. up' \in [Clients -> Seq(Requests)] /\ AskedSized'
    <3>1. CASE Sends(c, "detach", 0)
      BY <1>0, <3>1, SendsShape DEF Sound
    <3>2. CASE UNCHANGED up
      BY <1>0, <1>2, <3>2 DEF TypeOK
    <3> QED
      BY <1>10, <3>1, <3>2 DEF Quit
  <2>2. TypeOK'
    BY <1>0, <1>10, <2>1 DEF TypeOK, Quit, Changes, Quiet, daemonVars
  <2> QED
    BY <1>1, <2>1, <2>2 DEF Basics, Sound
<1> QED
  BY <1>4, <1>5, <1>6, <1>7, <1>8, <1>9, <1>10 DEF Client

(* The types hold always, and with them that everyone in the session has a *)
(* size and every handler past its scan one to set.                        *)
THEOREM TypesHold == Spec => [](TypeOK /\ Sound)
<1>1. Init => Basics
  <2> SUFFICES ASSUME Init PROVE Basics
    OBVIOUS
  <2>1. Idle \in Handlers /\ InitSize \in Sizes /\ MaxResizes \in Nat
    BY SizeNegotiationAssumption DEF SizeNegotiationAssumption, Idle, Handlers
  <2>2. <<>> \in Seq(Requests) /\ <<>> \in Seq(Sizes) /\ Values(<<>>) = {}
    BY DEF Values
  <2>3. TypeOK
    <3>1. handler \in [Clients -> Handlers] /\ session \in Sizes /\ resizes \in 0..MaxResizes
      BY <2>1 DEF Init
    <3>2. up \in [Clients -> Seq(Requests)] /\ inflight \in [Clients -> Seq(Sizes)]
      BY <2>2 DEF Init
    <3> QED
      BY <3>1, <3>2 DEF Init, TypeOK
  <2>4. AttachedSized /\ AskedSized
    BY <2>2 DEF Init, AttachedSized, AskedSized
  <2>5. \A c \in Clients : WorkedOut(c)
    BY DEF Init, WorkedOut, At, Idle
  <2> QED
    BY <2>3, <2>4, <2>5 DEF Basics, Sound
<1>2. Basics /\ [Next]_vars => Basics'
  <2> SUFFICES ASSUME Basics, [Next]_vars PROVE Basics'
    OBVIOUS
  <2>1. CASE UNCHANGED vars
    BY <2>1 DEF vars, clientVars, Basics, TypeOK, Sound, AttachedSized, AskedSized, WorkedOut, At
  <2>2. CASE Next
    <3> PICK c \in Clients : Handling(c) \/ Client(c)
      BY <2>2 DEF Next
    <3> QED
      BY BasicsAttaching, BasicsTakenOrLost, BasicsRecalculating, BasicsClient DEF Handling
  <2> QED
    BY <2>1, <2>2
<1> QED
  BY <1>1, <1>2, PTL DEF Spec, Basics

-----------------------------------------------------------------------------
(* A handler that works alone: the size it has is the smallest, and where  *)
(* it has nothing left to do the session has it.                           *)
HasSmallest(c) ==
  /\ handler[c].at \in {"resize", "compare", "set", "tell"} => handler[c].size = Smallest
  /\ handler[c].at \in {"tell", "answer"} => session = Smallest
  /\ handler[c].at \in {"calc", "compare"} /\ handler[c].reply # 0 => session = Smallest
  /\ handler[c].at = "left" => handler[c].reply = 0

OneAtWork == \A c, d \in Clients : ~At(c, "idle") /\ ~At(d, "idle") => c = d

Alone ==
  /\ OneAtWork
  /\ AllIdle /\ attached # {} => session = Smallest
  /\ \A c \in Clients : HasSmallest(c)

LEMMA BeginsAlone ==
  ASSUME Basics, NEW c \in Clients, NEW place \in {"join", "calc", "left"},
         Begins(c), Goes(c, place), ~crossed'
  PROVE  Alone'
<1>1. AllIdle /\ \A d \in Clients : handler[d] = Idle
  BY DEF Begins, AllIdle, Basics, Sound, WorkedOut
<1>2. /\ handler'[c].at = place /\ handler'[c].reply = 0
      /\ \A d \in Clients \ {c} : handler'[d] = Idle
  BY <1>1, GoesShape DEF Basics, Places, Idle
<1>3. Idle.at = "idle"
  BY DEF Idle
<1>4. OneAtWork' /\ ~AllIdle'
  BY <1>2, <1>3 DEF OneAtWork, AllIdle, At
<1>5. \A d \in Clients : HasSmallest(d)'
  BY <1>2, <1>3 DEF HasSmallest
<1> QED
  BY <1>4, <1>5 DEF Alone

LEMMA SameSmallest ==
  ASSUME UNCHANGED <<attached, width>>
  PROVE  Smallest' = Smallest
BY DEF Smallest, Known

(* A step of the one handler at work.                                      *)
LEMMA WorksAlone ==
  ASSUME Alone, NEW c \in Clients, ~At(c, "idle"),
         \A d \in Clients \ {c} : handler'[d] = handler[d],
         HasSmallest(c)', At(c, "idle")' /\ attached' # {} => (session = Smallest)'
  PROVE  Alone'
<1>1. \A d \in Clients \ {c} : At(d, "idle")
  BY DEF Alone, OneAtWork
<1>2. \A d \in Clients \ {c} : handler'[d].at = "idle"
  BY <1>1 DEF At
<1>3. OneAtWork'
  BY <1>2 DEF OneAtWork, At
<1>4. AllIdle' => At(c, "idle")'
  BY DEF AllIdle
<1>5. \A d \in Clients : HasSmallest(d)'
  BY <1>2 DEF HasSmallest
<1> QED
  BY <1>3, <1>4, <1>5 DEF Alone

LEMMA AloneAttaching ==
  ASSUME Basics, Alone, NEW c \in Clients,
         AttachCounts(c) \/ AttachFits(c) \/ AttachResizes(c)
  PROVE  Alone'
<1>0. TypeOK /\ handler \in [Clients -> Handlers] /\ HasSmallest(c)
  BY DEF Basics, TypeOK, Alone
<1>1. Smallest' = Smallest
  BY SameSmallest DEF AttachCounts, AttachFits, AttachResizes
<1>2. CASE AttachCounts(c)
  <2>1. /\ handler'[c].at = "fit" /\ \A d \in Clients \ {c} : handler'[d] = handler[d]
    BY <1>0, <1>2 DEF AttachCounts, Handlers
  <2>2. ~At(c, "idle") /\ HasSmallest(c)' /\ ~At(c, "idle")'
    BY <1>2, <2>1 DEF AttachCounts, At, HasSmallest
  <2> QED
    BY <2>1, <2>2, WorksAlone
<1>3. CASE AttachFits(c)
  <2>1. /\ handler'[c].at = "resize" /\ handler'[c].size = Smallest
        /\ \A d \in Clients \ {c} : handler'[d] = handler[d]
    BY <1>0, <1>3 DEF AttachFits, Handlers
  <2>2. ~At(c, "idle") /\ HasSmallest(c)' /\ ~At(c, "idle")'
    BY <1>1, <1>3, <2>1 DEF AttachFits, At, HasSmallest
  <2> QED
    BY <2>1, <2>2, WorksAlone
<1>4. CASE AttachResizes(c)
  <2>1. PICK place \in {"calc", "answer"} : Goes(c, place)
    BY <1>4 DEF AttachResizes
  <2>2. /\ handler'[c].at = place /\ \A d \in Clients \ {c} : handler'[d] = handler[d]
    BY <1>0, <2>1, GoesShape DEF Places
  <2>3. session' = Smallest'
    BY <1>0, <1>1, <1>4 DEF AttachResizes, At, HasSmallest
  <2>4. ~At(c, "idle") /\ HasSmallest(c)' /\ ~At(c, "idle")'
    BY <1>4, <2>2, <2>3 DEF AttachResizes, At, HasSmallest
  <2> QED
    BY <2>2, <2>4, WorksAlone
<1> QED
  BY <1>2, <1>3, <1>4

LEMMA AloneRecalculating ==
  ASSUME Basics, Alone, NEW c \in Clients,
         NotifyLeft(c) \/ Recalculate(c) \/ Compare(c) \/ SetSize(c) \/ Tell(c) \/ Answer(c)
  PROVE  Alone'
<1>0. TypeOK /\ AttachedSized /\ handler \in [Clients -> Handlers] /\ HasSmallest(c)
  BY DEF Basics, TypeOK, Alone, Sound
<1>1. Smallest' = Smallest /\ attached' = attached
  BY SameSmallest DEF NotifyLeft, Recalculate, Compare, SetSize, Tell, Answer
<1>2. ~At(c, "idle")
  BY DEF NotifyLeft, Recalculate, Compare, SetSize, Tell, Answer, At
<1>3. CASE NotifyLeft(c)
  <2>1. PICK place \in {"idle", "calc"} : Goes(c, place) /\ (place = "idle" => attached = {})
    BY <1>3 DEF NotifyLeft
  <2>2. /\ handler'[c].at = place /\ \A d \in Clients \ {c} : handler'[d] = handler[d]
        /\ place # "idle" => handler'[c].reply = handler[c].reply
    BY <1>0, <2>1, GoesShape DEF Places
  <2>3. HasSmallest(c)' /\ (At(c, "idle")' => attached' = {})
    BY <1>0, <1>1, <1>3, <2>1, <2>2 DEF NotifyLeft, At, HasSmallest
  <2> QED
    BY <1>2, <2>2, <2>3, WorksAlone
<1>4. CASE Recalculate(c)
  <2>1. CASE Smallest = 0
    <3>1. Goes(c, After(c)) /\ attached' = {} /\ UNCHANGED session
      BY <1>0, <1>1, <1>4, <2>1, SmallestIs DEF Recalculate
    <3>2. /\ handler'[c].at = After(c) /\ \A d \in Clients \ {c} : handler'[d] = handler[d]
      BY <1>0, <3>1, AfterPlace, GoesShape
    <3>3. HasSmallest(c)'
      BY <1>0, <1>1, <1>4, <3>1, <3>2, AfterPlace DEF Recalculate, At, HasSmallest
    <3> QED
      BY <1>2, <3>1, <3>2, <3>3, WorksAlone
  <2>2. CASE Smallest # 0
    <3> DEFINE h == [handler[c] EXCEPT !.at = "compare", !.size = Smallest]
    <3>1. handler' = [handler EXCEPT ![c] = h] /\ UNCHANGED session
      BY <1>4, <2>2 DEF Recalculate
    <3>2. h.at = "compare" /\ h.size = Smallest /\ h.reply = handler[c].reply
      BY <1>0 DEF Handlers
    <3>3. handler'[c] = h /\ \A d \in Clients \ {c} : handler'[d] = handler[d]
      BY <1>0, <3>1
    <3> HIDE DEF h
    <3>4. HasSmallest(c)' /\ ~At(c, "idle")'
      BY <1>0, <1>1, <1>4, <3>1, <3>2, <3>3 DEF Recalculate, At, HasSmallest
    <3> QED
      BY <1>2, <3>3, <3>4, WorksAlone
  <2> QED
    BY <2>1, <2>2
<1>5. CASE Compare(c)
  <2>1. handler[c].size = Smallest /\ UNCHANGED session /\ At(c, "compare")
    BY <1>0, <1>5 DEF Compare, At, HasSmallest
  <2>2. CASE handler[c].size = session
    <3>1. Goes(c, After(c)) /\ session' = Smallest'
      BY <1>1, <1>5, <2>1, <2>2 DEF Compare
    <3>2. /\ handler'[c].at = After(c) /\ \A d \in Clients \ {c} : handler'[d] = handler[d]
      BY <1>0, <3>1, AfterPlace, GoesShape
    <3>3. HasSmallest(c)'
      BY <3>1, <3>2, AfterPlace DEF HasSmallest
    <3> QED
      BY <1>2, <3>1, <3>2, <3>3, WorksAlone
  <2>3. CASE handler[c].size # session
    <3>1. Goes(c, "set")
      BY <1>5, <2>3 DEF Compare
    <3>2. /\ handler'[c].at = "set" /\ handler'[c].size = handler[c].size
          /\ \A d \in Clients \ {c} : handler'[d] = handler[d]
      BY <1>0, <3>1, GoesShape DEF Places
    <3>3. HasSmallest(c)' /\ ~At(c, "idle")'
      BY <1>1, <2>1, <3>2 DEF At, HasSmallest
    <3> QED
      BY <1>2, <3>2, <3>3, WorksAlone
  <2> QED
    BY <2>2, <2>3
<1>6. CASE SetSize(c)
  <2>1. Goes(c, "tell") /\ handler[c].size = Smallest /\ session' = Smallest'
    BY <1>0, <1>1, <1>6 DEF SetSize, At, HasSmallest
  <2>2. /\ handler'[c].at = "tell" /\ handler'[c].size = handler[c].size
        /\ \A d \in Clients \ {c} : handler'[d] = handler[d]
    BY <1>0, <2>1, GoesShape DEF Places
  <2>3. HasSmallest(c)' /\ ~At(c, "idle")'
    BY <1>1, <2>1, <2>2 DEF At, HasSmallest
  <2> QED
    BY <1>2, <2>2, <2>3, WorksAlone
<1>7. CASE Tell(c)
  <2>1. Goes(c, After(c)) /\ session' = Smallest'
    BY <1>0, <1>1, <1>7 DEF Tell, At, HasSmallest
  <2>2. /\ handler'[c].at = After(c) /\ \A d \in Clients \ {c} : handler'[d] = handler[d]
    BY <1>0, <2>1, AfterPlace, GoesShape
  <2>3. HasSmallest(c)'
    BY <2>1, <2>2, AfterPlace DEF HasSmallest
  <2> QED
    BY <1>2, <2>1, <2>2, <2>3, WorksAlone
<1>8. CASE Answer(c)
  <2>1. Goes(c, "idle") /\ session' = Smallest'
    BY <1>0, <1>1, <1>8 DEF Answer, At, HasSmallest
  <2>2. /\ handler'[c].at = "idle" /\ \A d \in Clients \ {c} : handler'[d] = handler[d]
    BY <1>0, <2>1, GoesShape DEF Places
  <2>3. HasSmallest(c)'
    BY <2>1, <2>2 DEF HasSmallest
  <2> QED
    BY <1>2, <2>1, <2>2, <2>3, WorksAlone
<1> QED
  BY <1>3, <1>4, <1>5, <1>6, <1>7, <1>8

(* The inductive invariant of the handlers.                                *)
HandlersAlone == Basics /\ (~crossed => Alone)

LEMMA HandlersAloneHolds == Spec => []HandlersAlone
<1>1. Init => (~crossed => Alone)
  <2> SUFFICES ASSUME Init PROVE Alone
    OBVIOUS
  <2>1. Idle.at = "idle" /\ \A c \in Clients : handler[c] = Idle
    BY DEF Init, Idle
  <2> QED
    BY <2>1 DEF Init, Alone, OneAtWork, HasSmallest, At
<1>2. Basics /\ (~crossed => Alone) /\ [Next]_vars => (~crossed' => Alone')
  <2> SUFFICES ASSUME Basics, ~crossed => Alone, [Next]_vars, ~crossed' PROVE Alone'
    OBVIOUS
  <2>1. UNCHANGED daemonVars => Alone'
    <3> SUFFICES ASSUME UNCHANGED daemonVars PROVE Alone'
      OBVIOUS
    <3>1. UNCHANGED <<session, attached, handler>> /\ Smallest' = Smallest /\ Alone
      BY SameSmallest DEF daemonVars
    <3> QED
      BY <3>1 DEF Alone, OneAtWork, AllIdle, HasSmallest, At
  <2>2. CASE UNCHANGED vars
    BY <2>1, <2>2 DEF vars, daemonVars
  <2>3. CASE Next
    <3> PICK c \in Clients : Handling(c) \/ Client(c)
      BY <2>3 DEF Next
    <3>1. CASE Client(c)
      BY <2>1, <3>1, ClientKeeps
    <3>2. CASE Attach(c) \/ HandleResize(c) \/ Detach(c) \/ ConnectionLost(c)
      <4>1. PICK place \in {"join", "calc", "left"} : Begins(c) /\ Goes(c, place)
        BY <3>2 DEF Attach, HandleResize, Detach, ConnectionLost, Leaves
      <4> QED
        BY <4>1, BeginsAlone
    <3>3. CASE AttachCounts(c) \/ AttachFits(c) \/ AttachResizes(c)
      <4>1. UNCHANGED crossed
        BY <3>3 DEF AttachCounts, AttachFits, AttachResizes
      <4> QED
        BY <3>3, <4>1, AloneAttaching
    <3>4. CASE NotifyLeft(c) \/ Recalculate(c) \/ Compare(c) \/ SetSize(c) \/ Tell(c) \/ Answer(c)
      <4>1. UNCHANGED crossed
        BY <3>4 DEF NotifyLeft, Recalculate, Compare, SetSize, Tell, Answer
      <4> QED
        BY <3>4, <4>1, AloneRecalculating
    <3> QED
      BY <3>1, <3>2, <3>3, <3>4 DEF Handling
  <2> QED
    BY <2>2, <2>3
<1>3. Spec => []Basics
  BY TypesHold DEF Basics
<1> QED
  BY <1>1, <1>2, <1>3, PTL DEF Spec, HandlersAlone

(* A handler that nobody else's overlapped leaves the session at the       *)
(* smallest of the sizes its clients last reported (daemon_size.go:95).    *)
THEOREM SmallestAfterAllHolds == Spec => []SmallestAfterAll
<1>1. HandlersAlone => SmallestAfterAll
  BY DEF HandlersAlone, Alone, SmallestAfterAll
<1> QED
  BY <1>1, HandlersAloneHolds, PTL

-----------------------------------------------------------------------------
(* One change at a time.  Members are the clients in the session or on their *)
(* way into it, Floor the smallest of their terminals.                       *)
Members == {c \in Clients : ui[c] \in {"attaching", "restored", "bare", "on"}}
Floor   == Min({term[c] : c \in Members})

(* Something a client did has not settled.                                 *)
Busy(c) == \/ up[c] # <<>> \/ ~At(c, "idle")
           \/ ui[c] \in {"attaching", "restored", "bare"}
           \/ ui[c] = "gone" /\ c \in attached

Request(kind, size) == <<[kind |-> kind, size |-> size]>>

(* How far a client and its handler are with what the client last did: it  *)
(* attaches, takes in the reply, is at work, or has gone.                  *)
Outside(c) == up[c] = <<>> /\ At(c, "idle") /\ c \notin attached /\ reply[c] = 0
Asks(c) == /\ \E size \in Sizes : up[c] = Request("attach", size)
           /\ At(c, "idle") /\ c \notin attached /\ reply[c] = 0
Enters(c) ==
  /\ up[c] = <<>> /\ c \in attached
  /\ IF reply[c] # 0 THEN At(c, "idle")
     ELSE \/ handler[c].at \in {"join", "fit"}
          \/ handler[c].at \in {"resize", "calc", "compare", "answer"} /\ handler[c].reply # 0
Restored(c) == up[c] = <<>> /\ At(c, "idle") /\ c \in attached
Works(c) ==
  /\ c \in attached
  /\ \/ up[c] = Request("resize", term[c]) /\ At(c, "idle")
     \/ /\ up[c] = <<>> /\ width[c] = term[c] /\ handler[c].reply = 0
        /\ handler[c].at \in {"idle", "calc", "compare", "set", "tell"}
Lingers(c) == c \in attached /\ At(c, "idle") /\ up[c] \in {<<>>, Request("detach", 0)}
Leaving(c) ==
  /\ c \notin attached /\ up[c] = <<>> /\ handler[c].reply = 0
  /\ handler[c].at \in {"idle", "left", "calc", "compare", "set", "tell"}

Stage(c) ==
  \/ ui[c] = "out" /\ eff[c] = 0 /\ Outside(c)
  \/ ui[c] = "attaching" /\ eff[c] = 0 /\ inflight[c] = <<>> /\ (Asks(c) \/ Enters(c))
  \/ ui[c] = "restored" /\ inflight[c] = <<>> /\ Restored(c)
  \/ ui[c] = "bare" /\ eff[c] = 0 /\ inflight[c] = <<>> /\ Restored(c)
  \/ ui[c] = "on" /\ Works(c)
  \/ ui[c] = "gone" /\ (Lingers(c) \/ Leaving(c))

(* Client d has no size but its terminal's, has heard of one that everyone *)
(* has room for, or will.                                                  *)
Hears(d) ==
  \/ eff[d] = 0 \/ eff[d] >= Floor
  \/ eff[d] >= session /\ \A c \in Clients : ui[c] \notin {"attaching", "restored", "bare"}
  \/ inflight[d] # <<>>
  \/ \E b \in Clients : At(b, "tell")

OneBusy == \A c, d \in Clients : Busy(c) /\ Busy(d) => c = d
Told(d) == Hears(d) /\ Values(inflight[d]) \subseteq {Floor}

InTurn ==
  /\ ~crossed /\ OneBusy
  /\ \A c \in Clients : Stage(c)
  /\ \A d \in Clients : ui[d] = "on" => Told(d)

(* A list of one request: what it begins with, and what is left of it.     *)
LEMMA OneRequest ==
  ASSUME NEW kind, NEW size
  PROVE  /\ Request(kind, size) # <<>> /\ Head(Request(kind, size)).kind = kind
         /\ Head(Request(kind, size)).size = size /\ Tail(Request(kind, size)) = <<>>
         /\ Append(<<>>, [kind |-> kind, size |-> size]) = Request(kind, size)
BY DEF Request

(* What is true of a client stays so while nothing of it changes.          *)
Same(d) ==
  /\ ui'[d] = ui[d] /\ up'[d] = up[d] /\ handler'[d] = handler[d] /\ reply'[d] = reply[d]
  /\ inflight'[d] = inflight[d] /\ eff'[d] = eff[d] /\ term'[d] = term[d]
  /\ width'[d] = width[d] /\ (d \in attached' <=> d \in attached)

LEMMA SameStage ==
  ASSUME NEW d \in Clients, Same(d)
  PROVE  (Stage(d) => Stage(d)') /\ (Busy(d)' => Busy(d))
<1>1. /\ Outside(d) => Outside(d)'
      /\ Asks(d) => Asks(d)'
      /\ Enters(d) => Enters(d)'
      /\ Restored(d) => Restored(d)'
      /\ Works(d) => Works(d)'
      /\ Lingers(d) => Lingers(d)'
      /\ Leaving(d) => Leaving(d)'
  BY DEF Same, Outside, Asks, Enters, Restored, Works, Lingers, Leaving, At
<1>2. Stage(d) => Stage(d)'
  BY <1>1 DEF Stage, Same
<1>3. Busy(d)' => Busy(d)
  BY DEF Same, Busy, At
<1> QED
  BY <1>2, <1>3

LEMMA OwnStep ==
  ASSUME InTurn, NEW c \in Clients, \A d \in Clients \ {c} : Same(d) /\ ~Busy(d), Stage(c)'
  PROVE  OneBusy' /\ \A d \in Clients : Stage(d)'
<1>1. \A d \in Clients \ {c} : Stage(d)' /\ ~Busy(d)'
  BY SameStage DEF InTurn
<1> QED
  BY <1>1 DEF OneBusy

LEMMA HearsKept ==
  ASSUME NEW d \in Clients, Hears(d), Floor' = Floor, eff'[d] = eff[d], inflight'[d] = inflight[d],
         \/ \E c \in Clients : ui[c] \in {"attaching", "restored", "bare"}
         \/ session' = session /\ \A c \in Clients : ui'[c] \in {"attaching", "restored", "bare"} =>
                                                     ui[c] \in {"attaching", "restored", "bare"},
         \A b \in Clients : At(b, "tell") => At(b, "tell")'
  PROVE  Hears(d)'
BY DEF Hears

(* A step of the handler that is at work, other than to tell the clients.  *)
LEMMA HandlerInTurn ==
  ASSUME InTurn, NEW c \in Clients, Busy(c), UNCHANGED <<ui, term, eff>>, ~crossed',
         \A d \in Clients \ {c} : Same(d), Stage(c)',
         session' = session \/ ui[c] = "attaching",
         ~At(c, "tell"), ui[c] = "on" => inflight'[c] = inflight[c]
  PROVE  InTurn'
<1>1. \A d \in Clients \ {c} : ~Busy(d)
  BY DEF InTurn, OneBusy
<1>2. OneBusy' /\ \A d \in Clients : Stage(d)'
  BY <1>1, OwnStep
<1>3. Floor' = Floor
  BY DEF Floor, Members
<1>4. \A b \in Clients : At(b, "tell") => At(b, "tell")'
  BY DEF Same, At
<1>5. ASSUME NEW d \in Clients, ui'[d] = "on" PROVE Told(d)'
  <2>1. ui[d] = "on" /\ eff'[d] = eff[d] /\ inflight'[d] = inflight[d]
    BY <1>5 DEF Same
  <2>2. Hears(d) /\ Values(inflight[d]) \subseteq {Floor}
    BY <2>1 DEF InTurn, Told
  <2>3. Hears(d)'
    BY <1>3, <1>4, <2>1, <2>2, HearsKept
  <2>4. (Values(inflight[d]) \subseteq {Floor})'
    BY <1>3, <2>1, <2>2 DEF Values
  <2> QED
    BY <2>3, <2>4 DEF Told
<1> QED
  BY <1>2, <1>5 DEF InTurn

(* Where a handler is says what its client is at.                          *)
LEMMA PlaceSays ==
  ASSUME NEW c \in Clients, Stage(c)
  PROVE  /\ handler[c].at \in {"join", "fit", "resize", "answer"} =>
              /\ ui[c] = "attaching" /\ inflight[c] = <<>> /\ eff[c] = 0
              /\ Enters(c) /\ reply[c] = 0
         /\ handler[c].at = "left" => ui[c] = "gone" /\ Leaving(c)
         /\ handler[c].at \in {"set", "tell"} =>
              \/ ui[c] = "on" /\ Works(c)
              \/ ui[c] = "gone" /\ Leaving(c)
         /\ handler[c].at \in {"calc", "compare"} =>
              \/ /\ ui[c] = "attaching" /\ inflight[c] = <<>> /\ eff[c] = 0
                 /\ Enters(c) /\ reply[c] = 0 /\ handler[c].reply # 0
              \/ ui[c] = "on" /\ Works(c)
              \/ ui[c] = "gone" /\ Leaving(c)
<1>1. Outside(c) \/ Asks(c) \/ Restored(c) \/ Lingers(c) => handler[c].at = "idle"
  BY DEF Outside, Asks, Restored, Lingers, At
<1>2. Enters(c) => \/ handler[c].at = "idle"
                   \/ reply[c] = 0 /\ handler[c].at \in {"join", "fit"}
                   \/ /\ reply[c] = 0 /\ handler[c].reply # 0
                      /\ handler[c].at \in {"resize", "calc", "compare", "answer"}
  BY DEF Enters, At
<1>3. Works(c) => handler[c].at \in {"idle", "calc", "compare", "set", "tell"}
  BY DEF Works, At
<1>4. Leaving(c) => handler[c].at \in {"idle", "left", "calc", "compare", "set", "tell"}
  BY DEF Leaving
<1> QED
  BY <1>1, <1>2, <1>3, <1>4 DEF Stage

(* So does the request it takes.                                           *)
LEMMA RequestSays ==
  ASSUME NEW c \in Clients, Stage(c), NEW kind, Takes(c, kind)
  PROVE  /\ kind = "attach" =>
              ui[c] = "attaching" /\ inflight[c] = <<>> /\ eff[c] = 0 /\ Asks(c)
         /\ kind = "resize" => ui[c] = "on" /\ Works(c) /\ Head(up[c]).size = term[c]
         /\ kind = "detach" => ui[c] = "gone" /\ Lingers(c)
         /\ Tail(up[c]) = <<>>
<1>1. up[c] # <<>> /\ Head(up[c]).kind = kind
  BY DEF Takes
<1>2. CASE ui[c] = "attaching"
  <2>1. Asks(c) /\ inflight[c] = <<>> /\ eff[c] = 0
    BY <1>1, <1>2 DEF Stage, Enters
  <2>2. PICK size \in Sizes : up[c] = Request("attach", size)
    BY <2>1 DEF Asks
  <2> QED
    BY <1>1, <1>2, <2>1, <2>2, OneRequest
<1>3. CASE ui[c] = "on"
  <2>1. Works(c) /\ up[c] = Request("resize", term[c])
    BY <1>1, <1>3 DEF Stage, Works
  <2> QED
    BY <1>1, <1>3, <2>1, OneRequest
<1>4. CASE ui[c] = "gone"
  <2>1. Lingers(c) /\ up[c] = Request("detach", 0)
    BY <1>1, <1>4 DEF Stage, Lingers, Leaving
  <2> QED
    BY <1>1, <1>4, <2>1, OneRequest
<1> QED
  BY <1>1, <1>2, <1>3, <1>4 DEF Stage, Outside, Restored

-----------------------------------------------------------------------------
(* The handlers keep to their turn.                                        *)
LEMMA TakenInTurn ==
  ASSUME HandlersAlone, InTurn, NEW c \in Clients, NEW kind, NEW place \in {"join", "calc", "left"},
         Takes(c, kind) \/ (up' = [up EXCEPT ![c] = <<>>] /\ Busy(c)),
         Begins(c), Goes(c, place)
  PROVE  /\ Busy(c) /\ ~crossed' /\ ~At(c, "tell")
         /\ \A d \in Clients \ {c} : up'[d] = up[d] /\ handler'[d] = handler[d]
         /\ up'[c] = <<>> /\ handler'[c].at = place /\ handler'[c].reply = 0
<1>0. TypeOK /\ Basics /\ Stage(c)
  BY DEF HandlersAlone, Basics, InTurn
<1>1. Busy(c)
  BY DEF Takes, Busy
<1>2. AllIdle
  BY <1>1 DEF InTurn, OneBusy, Busy, AllIdle, Begins
<1>3. handler[c] = Idle /\ Idle.at = "idle" /\ Idle.reply = 0
  BY <1>0 DEF Begins, Basics, Sound, WorkedOut, Idle
<1>4. /\ handler'[c].at = place /\ handler'[c].reply = 0
      /\ \A d \in Clients \ {c} : handler'[d] = handler[d]
  BY <1>0, <1>3, GoesShape DEF Places
<1>5. up \in [Clients -> Seq(Requests)]
  BY <1>0 DEF TypeOK
<1>6. up'[c] = <<>> /\ \A d \in Clients \ {c} : up'[d] = up[d]
  <2>1. CASE Takes(c, kind)
    BY <1>0, <1>5, <2>1, RequestSays DEF Takes
  <2>2. CASE up' = [up EXCEPT ![c] = <<>>]
    BY <1>5, <2>2
  <2> QED
    BY <2>1, <2>2
<1> QED
  BY <1>1, <1>2, <1>3, <1>4, <1>6 DEF Begins, At

LEMMA AttachInTurn ==
  ASSUME HandlersAlone, InTurn, NEW c \in Clients, Attach(c)
  PROVE  InTurn'
<1>0. TypeOK /\ Stage(c)
  BY DEF HandlersAlone, Basics, InTurn
<1>1. Takes(c, "attach") /\ Begins(c) /\ Goes(c, "join")
  BY DEF Attach
<1>2. /\ Busy(c) /\ ~crossed' /\ ~At(c, "tell")
      /\ \A d \in Clients \ {c} : up'[d] = up[d] /\ handler'[d] = handler[d]
      /\ up'[c] = <<>> /\ handler'[c].at = "join"
  BY <1>1, TakenInTurn
<1>3. ui[c] = "attaching" /\ inflight[c] = <<>> /\ eff[c] = 0 /\ Asks(c)
  BY <1>0, <1>1, RequestSays
<1>4. \A d \in Clients \ {c} : Same(d)
  BY <1>0, <1>2 DEF Attach, Same, TypeOK, clientVars
<1>5. Stage(c)'
  BY <1>2, <1>3 DEF Attach, Stage, Asks, Enters, clientVars
<1> QED
  BY <1>2, <1>3, <1>4, <1>5, HandlerInTurn DEF Attach, clientVars

LEMMA ResizeInTurn ==
  ASSUME HandlersAlone, InTurn, NEW c \in Clients, HandleResize(c)
  PROVE  InTurn'
<1>0. TypeOK /\ Stage(c)
  BY DEF HandlersAlone, Basics, InTurn
<1>1. Takes(c, "resize") /\ Begins(c) /\ Goes(c, "calc")
  BY DEF HandleResize
<1>2. /\ Busy(c) /\ ~crossed' /\ ~At(c, "tell")
      /\ \A d \in Clients \ {c} : up'[d] = up[d] /\ handler'[d] = handler[d]
      /\ up'[c] = <<>> /\ handler'[c].at = "calc" /\ handler'[c].reply = 0
  BY <1>1, TakenInTurn
<1>3. ui[c] = "on" /\ Works(c) /\ Head(up[c]).size = term[c]
  BY <1>0, <1>1, RequestSays
<1>4. \A d \in Clients \ {c} : Same(d)
  BY <1>0, <1>2 DEF HandleResize, Same, TypeOK, clientVars
<1>5. width'[c] = term[c]
  BY <1>0, <1>3 DEF HandleResize, TypeOK
<1>6. Stage(c)'
  BY <1>2, <1>3, <1>5 DEF HandleResize, Stage, Works, clientVars
<1> QED
  BY <1>2, <1>4, <1>6, HandlerInTurn DEF HandleResize, clientVars

LEMMA GoneInTurn ==
  ASSUME HandlersAlone, InTurn, NEW c \in Clients, Detach(c) \/ ConnectionLost(c)
  PROVE  InTurn'
<1>0. TypeOK /\ Stage(c)
  BY DEF HandlersAlone, Basics, InTurn
<1>1. Begins(c) /\ Leaves(c) /\ Goes(c, "left") /\ UNCHANGED <<session, reply, clientVars>>
  BY DEF Detach, ConnectionLost, Leaves
<1>2. ui[c] = "gone"
  BY <1>0, RequestSays DEF Detach, ConnectionLost
<1>3. /\ Busy(c) /\ ~crossed' /\ ~At(c, "tell")
      /\ \A d \in Clients \ {c} : up'[d] = up[d] /\ handler'[d] = handler[d]
      /\ up'[c] = <<>> /\ handler'[c].at = "left" /\ handler'[c].reply = 0
  BY <1>1, TakenInTurn DEF Detach, ConnectionLost, Busy
<1>4. \A d \in Clients \ {c} : Same(d)
  BY <1>0, <1>1, <1>3 DEF Leaves, Same, TypeOK, clientVars
<1>5. Stage(c)'
  BY <1>1, <1>2, <1>3 DEF Leaves, Stage, Leaving, clientVars
<1> QED
  BY <1>1, <1>2, <1>3, <1>4, <1>5, HandlerInTurn DEF clientVars

(* A handler at work goes on: its client was busy, and no other one moves. *)
LEMMA WorkingSame ==
  ASSUME TypeOK, NEW c \in Clients, ~At(c, "idle"), UNCHANGED <<attached, width, up, inflight, clientVars>>,
         \A d \in Clients \ {c} : handler'[d] = handler[d] /\ reply'[d] = reply[d]
  PROVE  Busy(c) /\ \A d \in Clients \ {c} : Same(d)
BY DEF Busy, Same, clientVars

LEMMA AttachingInTurn ==
  ASSUME HandlersAlone, InTurn, NEW c \in Clients,
         AttachCounts(c) \/ AttachFits(c) \/ AttachResizes(c) \/ Answer(c)
  PROVE  InTurn'
<1>0. /\ TypeOK /\ AttachedSized /\ Stage(c)
      /\ handler \in [Clients -> Handlers] /\ reply \in [Clients -> Sizes \cup {0}]
  BY DEF HandlersAlone, Basics, Sound, InTurn, TypeOK
<1>1. /\ handler[c].at \in {"join", "fit", "resize", "answer"}
      /\ UNCHANGED <<attached, width, up, inflight, crossed, clientVars>>
  BY DEF AttachCounts, AttachFits, AttachResizes, Answer, At
<1>2. /\ ui[c] = "attaching" /\ inflight[c] = <<>> /\ eff[c] = 0
      /\ Enters(c) /\ reply[c] = 0
  BY <1>0, <1>1, PlaceSays
<1>3. ~At(c, "idle") /\ ~At(c, "tell") /\ ~crossed'
  BY <1>1 DEF At, InTurn
<1>4. /\ \A d \in Clients \ {c} : handler'[d] = handler[d] /\ reply'[d] = reply[d]
      /\ Enters(c)'
  <2>1. CASE AttachCounts(c)
    BY <1>0, <1>2, <2>1 DEF AttachCounts, Handlers, Enters, At
  <2>2. CASE AttachFits(c)
    <3>1. Smallest # 0
      BY <1>0, <1>2, SmallestIs DEF Enters
    <3>2. /\ handler'[c].at = "resize" /\ handler'[c].reply = Smallest
          /\ \A d \in Clients \ {c} : handler'[d] = handler[d]
      BY <1>0, <2>2 DEF AttachFits, Handlers
    <3> QED
      BY <1>2, <2>2, <3>1, <3>2 DEF AttachFits, Enters
  <2>3. CASE AttachResizes(c)
    <3>1. PICK place \in {"calc", "answer"} : Goes(c, place)
      BY <2>3 DEF AttachResizes
    <3>2. /\ handler'[c].at = place /\ handler'[c].reply = handler[c].reply
          /\ \A d \in Clients \ {c} : handler'[d] = handler[d]
      BY <1>0, <3>1, GoesShape DEF Places
    <3> QED
      BY <1>2, <2>3, <3>2 DEF AttachResizes, Enters, At
  <2>4. CASE Answer(c)
    <3>1. /\ handler'[c].at = "idle" /\ \A d \in Clients \ {c} : handler'[d] = handler[d]
      BY <1>0, <2>4, GoesShape DEF Answer, Places
    <3>2. reply'[c] # 0 /\ \A d \in Clients \ {c} : reply'[d] = reply[d]
      BY <1>0, <1>2, <2>4 DEF Answer, Enters, At
    <3> QED
      BY <1>2, <2>4, <3>1, <3>2 DEF Answer, Enters, At
  <2> QED
    BY <2>1, <2>2, <2>3, <2>4
<1>5. Busy(c) /\ \A d \in Clients \ {c} : Same(d)
  BY <1>0, <1>1, <1>3, <1>4, WorkingSame
<1>6. Stage(c)'
  BY <1>1, <1>2, <1>4 DEF Stage, clientVars
<1> QED
  BY <1>1, <1>2, <1>3, <1>5, <1>6, HandlerInTurn DEF clientVars

LEMMA LookingInTurn ==
  ASSUME HandlersAlone, InTurn, NEW c \in Clients, NotifyLeft(c) \/ Recalculate(c) \/ Compare(c)
  PROVE  InTurn'
<1>0. /\ TypeOK /\ AttachedSized /\ Stage(c) /\ handler \in [Clients -> Handlers]
      /\ Alone /\ HasSmallest(c)
  BY DEF HandlersAlone, Basics, Sound, InTurn, TypeOK, Alone
<1>1. /\ handler[c].at \in {"left", "calc", "compare"} /\ ~At(c, "idle") /\ ~At(c, "tell") /\ ~crossed'
      /\ UNCHANGED <<session, attached, width, up, inflight, reply, clientVars>>
  BY DEF NotifyLeft, Recalculate, Compare, At, InTurn
<1>2. \/ /\ ui[c] = "attaching" /\ inflight[c] = <<>> /\ eff[c] = 0
         /\ Enters(c) /\ reply[c] = 0 /\ handler[c].reply # 0
      \/ ui[c] = "on" /\ Works(c)
      \/ ui[c] = "gone" /\ Leaving(c)
  BY <1>0, <1>1, PlaceSays
<1>3. /\ \A d \in Clients \ {c} : handler'[d] = handler[d]
      /\ \/ handler'[c].reply = handler[c].reply /\ handler'[c].at \in {"calc", "compare"}
         \/ ui[c] # "attaching" /\ handler'[c].reply = 0 /\ handler'[c].at \in {"idle", "set"}
         \/ handler'[c].reply = handler[c].reply /\ handler[c].reply # 0 /\ handler'[c].at = "answer"
  <2>0. /\ ui[c] # "attaching" => handler[c].reply = 0
        /\ ui[c] = "attaching" => handler[c].reply # 0 /\ c \in attached
        /\ Idle.reply = 0
    BY <1>1, <1>2 DEF Works, Leaving, Enters, At, Idle
  <2>1. CASE NotifyLeft(c)
    <3>1. PICK place \in {"idle", "calc"} : Goes(c, place)
      BY <2>1 DEF NotifyLeft
    <3>2. ui[c] = "gone"
      BY <1>0, <2>1, PlaceSays DEF NotifyLeft, At
    <3> QED
      BY <1>0, <2>0, <3>1, <3>2, GoesShape DEF Places
  <2>2. CASE Recalculate(c) /\ Smallest = 0
    <3>1. ui[c] # "attaching" /\ After(c) = "idle" /\ Goes(c, "idle")
      BY <1>0, <2>0, <2>2, SmallestIs, AfterPlace DEF Recalculate
    <3> QED
      BY <1>0, <2>0, <3>1, GoesShape DEF Places
  <2>3. CASE Recalculate(c) /\ Smallest # 0
    <3> DEFINE h == [handler[c] EXCEPT !.at = "compare", !.size = Smallest]
    <3>1. handler' = [handler EXCEPT ![c] = h]
      BY <2>3 DEF Recalculate
    <3>2. h.at = "compare" /\ h.reply = handler[c].reply
      BY <1>0 DEF Handlers
    <3>3. handler'[c] = h /\ \A d \in Clients \ {c} : handler'[d] = handler[d]
      BY <1>0, <3>1
    <3> QED
      BY <3>2, <3>3
  <2>4. CASE Compare(c) /\ handler[c].size = session
    <3>1. Goes(c, After(c)) /\ (ui[c] # "attaching" => After(c) = "idle")
          /\ (ui[c] = "attaching" => After(c) = "answer")
      BY <2>0, <2>4, AfterPlace DEF Compare
    <3> QED
      BY <1>0, <2>0, <3>1, AfterPlace, GoesShape
  <2>5. CASE Compare(c) /\ handler[c].size # session
    <3>1. Goes(c, "set") /\ handler[c].reply = 0
      BY <1>0, <2>5 DEF Compare, HasSmallest, At
    <3> QED
      BY <1>0, <2>0, <3>1, GoesShape DEF Places
  <2> QED
    BY <2>1, <2>2, <2>3, <2>4, <2>5
<1>4. Busy(c) /\ \A d \in Clients \ {c} : Same(d)
  BY <1>0, <1>1, <1>3, WorkingSame
<1>5. Stage(c)'
  <2>1. CASE ui[c] = "attaching"
    BY <1>1, <1>2, <1>3, <2>1 DEF Stage, Enters, clientVars
  <2>2. CASE ui[c] = "on"
    BY <1>1, <1>2, <1>3, <2>2 DEF Stage, Works, At, clientVars
  <2>3. CASE ui[c] = "gone"
    BY <1>1, <1>2, <1>3, <2>3 DEF Stage, Leaving, clientVars
  <2> QED
    BY <1>2, <2>1, <2>2, <2>3
<1> QED
  BY <1>1, <1>4, <1>5, HandlerInTurn DEF clientVars

-----------------------------------------------------------------------------
(* A client that has settled is in the session with its terminal's size, or *)
(* not in it at all.                                                        *)
LEMMA AtRest ==
  ASSUME NEW d \in Clients, Stage(d), ~Busy(d)
  PROVE  /\ ui[d] \in {"out", "on", "gone"} /\ (d \in attached <=> ui[d] = "on")
         /\ ui[d] = "on" => width[d] = term[d]
         /\ ui[d] = "out" => Outside(d)
<1>1. /\ up[d] = <<>> /\ At(d, "idle") /\ ui[d] \notin {"attaching", "restored", "bare"}
      /\ ui[d] = "gone" => d \notin attached
  BY DEF Busy
<1>2. Works(d) => d \in attached /\ width[d] = term[d]
  BY <1>1, OneRequest DEF Works
<1> QED
  BY <1>1, <1>2 DEF Stage, Outside

(* The smallest terminal; when those in the session have their terminals'  *)
(* sizes, the session's size is to be that.                                *)
LEMMA FloorIs ==
  ASSUME TypeOK
  PROVE  /\ \A c \in Members : Floor <= term[c]
         /\ Members # {} => Floor \in Sizes
         /\ Members # {} => \E c \in Members : Floor = term[c]
<1> DEFINE T == {term[c] : c \in Members}
<1>1. T \subseteq Sizes /\ Sizes \subseteq Nat
  BY SizeNegotiationAssumption DEF SizeNegotiationAssumption, TypeOK, Members
<1>2. T # {} => Floor \in T /\ \A y \in T : Floor <= y
  BY <1>1, MinOf DEF Floor
<1>3. \A c \in Members : term[c] \in T
  OBVIOUS
<1>4. Members # {} => T # {}
  BY <1>3
<1> HIDE DEF T
<1>5. (\A c \in Members : Floor <= term[c]) /\ (Members # {} => Floor \in Sizes)
  BY <1>1, <1>2, <1>3, <1>4
<1> QED
  BY <1>2, <1>4, <1>5 DEF T

LEMMA SmallestIsFloor ==
  ASSUME TypeOK, AttachedSized, attached = Members, attached # {},
         \A d \in attached : width[d] = term[d]
  PROVE  Smallest = Floor
<1>1. Known = {width[c] : c \in attached} /\ Smallest = Min(Known)
  BY SmallestIs
<1>2. {width[c] : c \in attached} = {term[c] : c \in Members}
  OBVIOUS
<1> QED
  BY <1>1, <1>2 DEF Floor

LEMMA TellsFloor ==
  ASSUME HandlersAlone, InTurn, NEW c \in Clients, At(c, "tell")
  PROVE  /\ ui[c] \in {"on", "gone"} /\ \A d \in Clients \ {c} : ~Busy(d)
         /\ \A d \in Clients : d \in attached <=> ui[d] = "on"
         /\ attached # {} => handler[c].size = Floor
<1>0. TypeOK /\ AttachedSized /\ Alone /\ HasSmallest(c) /\ \A d \in Clients : Stage(d)
  BY DEF HandlersAlone, Basics, Sound, InTurn, Alone
<1>1. \A d \in Clients \ {c} : ~Busy(d)
  BY DEF InTurn, OneBusy, Busy, At
<1>2. \/ ui[c] = "on" /\ c \in attached /\ width[c] = term[c]
      \/ ui[c] = "gone" /\ c \notin attached
  BY <1>0, PlaceSays DEF At, Works, Leaving
<1>3. \A d \in Clients \ {c} : /\ ui[d] \in {"out", "on", "gone"} /\ (d \in attached <=> ui[d] = "on")
                               /\ ui[d] = "on" => width[d] = term[d]
  BY <1>0, <1>1, AtRest
<1>4. attached = Members
  BY <1>0, <1>2, <1>3 DEF Members, TypeOK
<1>5. \A d \in attached : width[d] = term[d]
  BY <1>0, <1>2, <1>3 DEF TypeOK
<1>6. attached # {} => Smallest = Floor
  BY <1>0, <1>4, <1>5, SmallestIsFloor
<1> QED
  BY <1>0, <1>1, <1>2, <1>3, <1>6 DEF HasSmallest, At

LEMMA SetInTurn ==
  ASSUME HandlersAlone, InTurn, NEW c \in Clients, SetSize(c)
  PROVE  InTurn'
<1>0. TypeOK /\ Stage(c) /\ ~crossed'
  BY DEF HandlersAlone, Basics, InTurn, SetSize
<1>1. /\ At(c, "set") /\ Goes(c, "tell")
      /\ UNCHANGED <<attached, width, up, inflight, reply, clientVars>>
  BY DEF SetSize
<1>2. (ui[c] = "on" /\ Works(c)) \/ (ui[c] = "gone" /\ Leaving(c))
  BY <1>0, <1>1, PlaceSays DEF At
<1>3. /\ handler'[c].at = "tell" /\ handler'[c].reply = handler[c].reply
      /\ \A d \in Clients \ {c} : handler'[d] = handler[d]
  BY <1>0, <1>1, GoesShape DEF Places
<1>4. Busy(c) /\ \A d \in Clients \ {c} : Same(d)
  BY <1>0, <1>1, <1>3, WorkingSame DEF At
<1>5. Stage(c)'
  <2>1. CASE ui[c] = "on"
    BY <1>1, <1>2, <1>3, <2>1 DEF Stage, Works, At, clientVars
  <2>2. CASE ui[c] = "gone"
    BY <1>1, <1>2, <1>3, <2>2 DEF Stage, Leaving, clientVars
  <2> QED
    BY <1>2, <2>1, <2>2
<1>6. OneBusy' /\ \A d \in Clients : Stage(d)'
  BY <1>4, <1>5, OwnStep DEF InTurn, OneBusy
<1>7. Floor' = Floor /\ ui' = ui /\ inflight' = inflight
  BY <1>1 DEF Floor, Members, clientVars
<1>8. ASSUME NEW d \in Clients, ui'[d] = "on" PROVE Told(d)'
  <2>1. Hears(d)'
    BY <1>3 DEF Hears, At
  <2>2. (Values(inflight[d]) \subseteq {Floor})'
    BY <1>7, <1>8 DEF InTurn, Told, Values
  <2> QED
    BY <2>1, <2>2 DEF Told
<1> QED
  BY <1>0, <1>6, <1>8 DEF InTurn

LEMMA TellInTurn ==
  ASSUME HandlersAlone, InTurn, NEW c \in Clients, Tell(c)
  PROVE  InTurn'
<1>0. TypeOK /\ Sound /\ Stage(c) /\ ~crossed'
  BY DEF HandlersAlone, Basics, InTurn, Tell
<1>1. /\ At(c, "tell") /\ Goes(c, After(c))
      /\ UNCHANGED <<session, attached, width, up, reply, clientVars>>
  BY DEF Tell
<1>2. /\ ui[c] \in {"on", "gone"} /\ \A d \in Clients \ {c} : ~Busy(d)
      /\ \A d \in Clients : d \in attached <=> ui[d] = "on"
      /\ attached # {} => handler[c].size = Floor
  BY <1>1, TellsFloor
<1>3. (ui[c] = "on" /\ Works(c)) \/ (ui[c] = "gone" /\ Leaving(c))
  BY <1>0, <1>1, PlaceSays DEF At
<1>4. After(c) = "idle"
  BY <1>1, <1>3, AfterPlace DEF Works, Leaving, At
<1>5. /\ handler'[c] = Idle /\ Idle.at = "idle" /\ Idle.reply = 0
      /\ \A d \in Clients \ {c} : handler'[d] = handler[d]
  BY <1>0, <1>1, <1>4, GoesShape DEF Places, Idle
<1>6. Stage(c)'
  <2>1. CASE ui[c] = "on"
    BY <1>1, <1>3, <1>5, <2>1 DEF Stage, Works, At, clientVars
  <2>2. CASE ui[c] = "gone"
    BY <1>1, <1>3, <1>5, <2>2 DEF Stage, Leaving, clientVars
  <2> QED
    BY <1>3, <2>1, <2>2
<1>7. ASSUME NEW d \in Clients \ {c} PROVE Stage(d)' /\ ~Busy(d)'
  <2>1. /\ ui[d] \in {"out", "on", "gone"} /\ Stage(d) /\ ~Busy(d)
    BY <1>2, AtRest DEF InTurn
  <2>2. ~Busy(d)'
    BY <1>1, <1>5, <2>1 DEF Busy, At, clientVars
  <2>3. (Outside(d) => Outside(d)') /\ (Works(d) => Works(d)') /\ (Lingers(d) => Lingers(d)')
        /\ (Leaving(d) => Leaving(d)')
    BY <1>1, <1>5 DEF Outside, Works, Lingers, Leaving, At, clientVars
  <2>4. Stage(d)'
    BY <1>1, <2>1, <2>3 DEF Stage, clientVars
  <2> QED
    BY <2>2, <2>4
<1>8. OneBusy' /\ \A d \in Clients : Stage(d)'
  BY <1>6, <1>7 DEF OneBusy
<1>9. Floor' = Floor /\ ui' = ui
  BY <1>1 DEF Floor, Members, clientVars
<1>10. ASSUME NEW d \in Clients, ui'[d] = "on" PROVE Told(d)'
  <2>1. d \in attached /\ handler[c].size = Floor /\ Values(inflight[d]) \subseteq {Floor}
    BY <1>2, <1>9, <1>10 DEF InTurn, Told
  <2>2. inflight'[d] = Append(inflight[d], handler[c].size)
    BY <1>0, <2>1 DEF Tell, ToldBy
  <2>3. inflight[d] \in Seq(Sizes) /\ handler[c].size \in Sizes
    BY <1>0, <1>1 DEF TypeOK, Sound, WorkedOut, At
  <2>4. inflight'[d] # <<>> /\ Values(inflight'[d]) = Values(inflight[d]) \cup {handler[c].size}
    BY <2>2, <2>3, AppendedValues
  <2>5. Hears(d)'
    BY <2>4 DEF Hears
  <2>6. (Values(inflight[d]) \subseteq {Floor})'
    BY <1>9, <2>1, <2>4 DEF Values
  <2> QED
    BY <2>5, <2>6 DEF Told
<1> QED
  BY <1>0, <1>8, <1>10 DEF InTurn

-----------------------------------------------------------------------------
(* The clients keep to theirs.                                             *)
LEMMA ClientInTurn ==
  ASSUME HandlersAlone, InTurn, NEW c \in Clients,
         SkipBroadcast(c) \/ Restore(c) \/ NothingToRestore(c) \/ FirstSize(c)
         \/ SessionResize(c)
  PROVE  InTurn'
<1>0. /\ TypeOK /\ Sound /\ Stage(c) /\ OneBusy /\ ~crossed'
      /\ UNCHANGED <<session, attached, width, handler, reply, term>>
  BY DEF HandlersAlone, Basics, InTurn, SkipBroadcast, Restore, NothingToRestore, FirstSize,
         SessionResize, daemonVars, clientVars
<1>1. /\ eff \in [Clients -> Sizes \cup {0}]
      /\ ui \in [Clients -> {"out", "attaching", "restored", "bare", "on", "gone"}]
      /\ up \in [Clients -> Seq(Requests)] /\ inflight \in [Clients -> Seq(Sizes)]
      /\ term[c] \in Sizes /\ Sizes \subseteq Nat
  BY <1>0, SizeNegotiationAssumption DEF SizeNegotiationAssumption, TypeOK
<1>2. ui[c] \in {"attaching", "restored", "bare"} => inflight[c] = <<>> /\ Busy(c)
  BY <1>0 DEF Stage, Busy
<1>3. CASE SkipBroadcast(c)
  BY <1>2, <1>3 DEF SkipBroadcast
<1>4. CASE Restore(c) \/ NothingToRestore(c) \/ FirstSize(c)
  <2>1. /\ ui[c] \in {"attaching", "restored", "bare"} /\ Busy(c) /\ inflight[c] = <<>>
        /\ \A d \in Clients \ {c} : ~Busy(d)
    BY <1>0, <1>2, <1>4 DEF Restore, NothingToRestore, FirstSize, OneBusy
  <2>2. inflight' = inflight
    BY <1>4 DEF Restore, NothingToRestore, FirstSize
  <2>3. /\ ui'[c] \in {"restored", "bare", "on"}
        /\ \A d \in Clients \ {c} : ui'[d] = ui[d] /\ eff'[d] = eff[d] /\ up'[d] = up[d]
    BY <1>1, <1>4 DEF Restore, NothingToRestore, FirstSize, Sends
  <2>4. \A d \in Clients \ {c} : Same(d)
    BY <1>0, <2>2, <2>3 DEF Same
  <2>5. Members' = Members /\ Floor' = Floor /\ c \in Members
    <3>1. Members' = Members /\ c \in Members
      BY <2>1, <2>3 DEF Members
    <3> QED
      BY <1>0, <3>1 DEF Floor
  <2>6. /\ Stage(c)'
        /\ ui'[c] = "on" => eff'[c] \in {0, term[c]}
    <3>1. CASE Restore(c)
      <4>1. ui'[c] = "restored" /\ Enters(c) /\ reply[c] # 0 /\ up' = up
        BY <1>0, <1>1, <3>1 DEF Restore, Stage, Asks
      <4> QED
        BY <1>0, <2>1, <2>2, <4>1 DEF Stage, Enters, Restored, At
    <3>2. CASE NothingToRestore(c)
      <4>1. /\ ui'[c] = "bare" /\ eff'[c] = 0
            /\ Enters(c) /\ reply[c] # 0 /\ up' = up
        BY <1>0, <1>1, <3>2 DEF NothingToRestore, Stage, Asks
      <4> QED
        BY <1>0, <2>1, <2>2, <4>1 DEF Stage, Enters, Restored, At
    <3>3. CASE FirstSize(c)
      <4>1. /\ Restored(c) /\ ui'[c] = "on" /\ eff'[c] \in {0, term[c]}
            /\ Sends(c, "resize", term[c])
        BY <1>0, <1>1, <3>3 DEF FirstSize, Stage
      <4>2. up'[c] = Request("resize", term[c])
        <5>1. up' = [up EXCEPT ![c] = Append(up[c], [kind |-> "resize", size |-> term[c]])]
          BY <4>1 DEF Sends
        <5>2. up'[c] = Append(<<>>, [kind |-> "resize", size |-> term[c]])
          BY <1>1, <4>1, <5>1 DEF Restored
        <5> QED
          BY <5>2, OneRequest
      <4> QED
        BY <1>0, <1>1, <4>1, <4>2 DEF Stage, Restored, Works, At
    <3> QED
      BY <1>4, <3>1, <3>2, <3>3
  <2>7. OneBusy' /\ \A d \in Clients : Stage(d)'
    BY <2>1, <2>4, <2>6, OwnStep
  <2>8. ASSUME NEW d \in Clients, ui'[d] = "on" PROVE Told(d)'
    <3>1. CASE d = c
      <4>1. eff'[c] = 0 \/ eff'[c] >= Floor'
        BY <1>0, <1>1, <2>5, <2>6, <2>8, <3>1, FloorIs
      <4>2. Values(inflight'[c]) = {}
        BY <2>1, <2>2 DEF Values
      <4> QED
        BY <3>1, <4>1, <4>2 DEF Told, Hears, Values
    <3>2. CASE d # c
      <4>1. ui[d] = "on" /\ eff'[d] = eff[d] /\ inflight'[d] = inflight[d]
        BY <2>2, <2>3, <2>8, <3>2
      <4>2. Hears(d) /\ Values(inflight[d]) \subseteq {Floor}
        BY <4>1 DEF InTurn, Told
      <4>3. \A b \in Clients : At(b, "tell") => At(b, "tell")'
        BY <1>0 DEF At
      <4>4. Hears(d)'
        BY <2>1, <2>5, <4>1, <4>2, <4>3, HearsKept
      <4>5. (Values(inflight[d]) \subseteq {Floor})'
        BY <2>5, <4>1, <4>2 DEF Values
      <4> QED
        BY <4>4, <4>5 DEF Told
    <3> QED
      BY <3>1, <3>2
  <2> QED
    BY <1>0, <2>7, <2>8 DEF InTurn
<1>5. CASE SessionResize(c)
  <2>1. PICK i \in DOMAIN inflight[c] :
             /\ eff' = [eff EXCEPT ![c] = inflight[c][i]]
             /\ inflight' = [inflight EXCEPT ![c] = RemoveAt(@, i)]
    BY <1>5 DEF SessionResize
  <2>2. ui[c] = "on" /\ Works(c) /\ UNCHANGED <<up, ui>>
    BY <1>0, <1>2, <1>5, <2>1 DEF SessionResize, Stage
  <2>3. /\ inflight[c][i] \in Sizes /\ inflight[c][i] \in Values(inflight[c])
        /\ Values(RemoveAt(inflight[c], i)) \subseteq Values(inflight[c])
    BY <1>1, RemovedValues
  <2>4. /\ eff'[c] = inflight[c][i] /\ inflight'[c] = RemoveAt(inflight[c], i)
        /\ \A d \in Clients \ {c} : eff'[d] = eff[d] /\ inflight'[d] = inflight[d]
    BY <1>1, <2>1
  <2>5. Floor' = Floor /\ Floor \in Nat
    <3>1. c \in Members
      BY <2>2 DEF Members
    <3> QED
      BY <1>0, <1>1, <2>2, <3>1, FloorIs DEF Floor, Members
  <2>6. eff'[c] = Floor /\ Values(inflight'[c]) \subseteq {Floor}
    BY <2>2, <2>3, <2>4 DEF InTurn, Told
  <2>7. \A d \in Clients \ {c} : Stage(d)' /\ (Busy(d)' => Busy(d))
    BY <1>0, <2>2, <2>4, SameStage DEF Same, InTurn
  <2>8. Stage(c)' /\ (Busy(c)' => Busy(c))
    <3>1. Works(c)'
      BY <1>0, <2>2, <2>3, <2>4 DEF Works, At
    <3>2. Busy(c)' => Busy(c)
      BY <1>0, <2>2 DEF Busy, At
    <3> QED
      BY <2>2, <3>1, <3>2 DEF Stage
  <2>9. OneBusy' /\ \A d \in Clients : Stage(d)'
    BY <1>0, <2>7, <2>8 DEF OneBusy
  <2>10. ASSUME NEW d \in Clients, ui'[d] = "on" PROVE Told(d)'
    <3>1. CASE d = c
      <4>1. eff'[c] >= Floor'
        BY <2>5, <2>6
      <4> QED
        BY <2>5, <2>6, <3>1, <4>1 DEF Told, Hears, Values
    <3>2. CASE d # c
      <4>1. ui[d] = "on" /\ eff'[d] = eff[d] /\ inflight'[d] = inflight[d]
        BY <2>2, <2>4, <2>10, <3>2
      <4>2. Hears(d) /\ Values(inflight[d]) \subseteq {Floor}
        BY <4>1 DEF InTurn, Told
      <4>3. Hears(d)'
        BY <1>0, <2>2, <2>5, <4>1, <4>2, HearsKept DEF At
      <4>4. (Values(inflight[d]) \subseteq {Floor})'
        BY <2>5, <4>1, <4>2 DEF Values
      <4> QED
        BY <4>3, <4>4 DEF Told
    <3> QED
      BY <3>1, <3>2
  <2> QED
    BY <1>0, <2>9, <2>10 DEF InTurn
<1> QED
  BY <1>3, <1>4, <1>5

(* When all is quiet those in the session are the clients drawing it, and  *)
(* they have room for the smallest of them, which is the session's size,   *)
(* or draw at their terminal's own.                                        *)
LEMMA QuietFacts ==
  ASSUME HandlersAlone, InTurn, Quiet
  PROVE  /\ \A d \in Clients : /\ ~Busy(d) /\ Stage(d) /\ At(d, "idle")
                               /\ up[d] = <<>> /\ inflight[d] = <<>>
                               /\ ui[d] \in {"out", "on", "gone"}
         /\ Members = Here
         /\ \A d \in Here : (eff[d] = 0 \/ eff[d] >= Floor) /\ session = Floor
<1>0. /\ TypeOK /\ AttachedSized /\ Alone
      /\ \A d \in Clients : Stage(d)
  BY DEF HandlersAlone, Basics, Sound, InTurn
<1>1. \A d \in Clients : /\ At(d, "idle") /\ up[d] = <<>> /\ inflight[d] = <<>>
                         /\ ui[d] \in {"out", "on", "gone"} /\ ~Busy(d)
  BY DEF Quiet, AllIdle, Busy
<1>2. \A d \in Clients : /\ d \in attached <=> ui[d] = "on"
                         /\ ui[d] = "on" => width[d] = term[d]
  BY <1>0, <1>1, AtRest
<1>3. Members = Here /\ attached = Members
  BY <1>0, <1>1, <1>2 DEF Members, Here, TypeOK
<1>4. attached # {} => session = Floor
  <2>1. attached # {} => session = Smallest
    BY <1>0, <1>1 DEF Alone, AllIdle
  <2>2. attached # {} => Smallest = Floor
    BY <1>0, <1>2, <1>3, SmallestIsFloor DEF Here
  <2> QED
    BY <2>1, <2>2
<1>5. ASSUME NEW d \in Here PROVE (eff[d] = 0 \/ eff[d] >= Floor) /\ session = Floor
  <2>1. d \in Clients /\ ui[d] = "on" /\ session = Floor
    BY <1>3, <1>4, <1>5 DEF Here
  <2>2. Hears(d)
    BY <2>1 DEF InTurn, Told
  <2>3. \A b \in Clients : ~At(b, "tell")
    BY <1>1 DEF At
  <2> QED
    BY <1>1, <1>2, <2>1, <2>2, <2>3 DEF Hears
<1> QED
  BY <1>0, <1>1, <1>3, <1>5

(* A change made when all was quiet.                                       *)
LEMMA ChangeInTurn ==
  ASSUME HandlersAlone, InTurn, Quiet, NEW c \in Clients,
         UNCHANGED <<session, crossed, inflight, eff>>,
         \A d \in Clients \ {c} : Same(d), Stage(c)',
         \A d \in Clients : ui'[d] = "on" =>
           \/ eff[d] = 0 \/ eff[d] >= Floor'
           \/ eff[d] >= session /\ \A b \in Clients : ui'[b] \notin {"attaching", "restored", "bare"}
  PROVE  InTurn'
<1>1. \A d \in Clients : ~Busy(d) /\ inflight[d] = <<>>
  BY QuietFacts
<1>2. OneBusy' /\ \A d \in Clients : Stage(d)'
  BY <1>1, OwnStep
<1>3. Values(<<>>) = {}
  BY DEF Values
<1>4. ASSUME NEW d \in Clients, ui'[d] = "on" PROVE Told(d)'
  <2>1. Hears(d)'
    BY <1>4 DEF Hears
  <2>2. Values(inflight'[d]) = {}
    BY <1>1, <1>3
  <2> QED
    BY <2>1, <2>2 DEF Told, Values
<1> QED
  BY <1>2, <1>4 DEF InTurn

LEMMA StartInTurn ==
  ASSUME HandlersAlone, InTurn, Quiet, NEW c \in Clients, Start(c)
  PROVE  InTurn'
<1>0. /\ TypeOK /\ Stage(c) /\ Sizes \subseteq Nat /\ Placeholder \in Sizes /\ term[c] \in Sizes
  BY SizeNegotiationAssumption DEF SizeNegotiationAssumption, HandlersAlone, Basics, InTurn, TypeOK
<1>1. PICK size \in Sizes : Sends(c, "attach", size)
  BY <1>0 DEF Start
<1>2. /\ ui[c] = "out" /\ ui' = [ui EXCEPT ![c] = "attaching"]
      /\ UNCHANGED <<session, attached, width, handler, reply, crossed, inflight, term, eff>>
  BY DEF Start, daemonVars
<1>3. /\ up' = [up EXCEPT ![c] = Append(up[c], [kind |-> "attach", size |-> size])]
      /\ up \in [Clients -> Seq(Requests)] /\ up[c] = <<>> /\ inflight[c] = <<>>
      /\ Members = Here
  BY <1>0, <1>1, QuietFacts DEF Sends, TypeOK
<1>4. /\ ui'[c] = "attaching" /\ up'[c] = Append(<<>>, [kind |-> "attach", size |-> size])
      /\ \A d \in Clients \ {c} : ui'[d] = ui[d] /\ up'[d] = up[d]
  BY <1>0, <1>2, <1>3 DEF TypeOK
<1>5. \A d \in Clients \ {c} : Same(d)
  BY <1>2, <1>4 DEF Same
<1>6. Outside(c) /\ eff[c] = 0 /\ up'[c] = Request("attach", size)
  BY <1>0, <1>2, <1>4, OneRequest DEF Stage
<1>7. Stage(c)'
  BY <1>2, <1>3, <1>4, <1>6 DEF Stage, Outside, Asks, At
<1>8. Members' = Members \cup {c}
  BY <1>4 DEF Members
<1>9. ASSUME NEW d \in Clients, ui'[d] = "on" PROVE eff[d] = 0 \/ eff[d] >= Floor'
  <2>1. /\ d \in Here /\ Members # {} /\ (eff[d] = 0 \/ eff[d] >= Floor)
        /\ eff[d] \in Sizes \cup {0} /\ Floor \in Sizes
    BY <1>0, <1>3, <1>4, <1>9, QuietFacts, FloorIs DEF Here, TypeOK
  <2>2. PICK m \in Members : Floor = term[m]
    BY <1>0, <2>1, FloorIs
  <2>3. Floor' <= term[m] /\ Floor' \in Nat
    <3> DEFINE T == {term[b] : b \in Members'}
    <3>0. Members' \subseteq Clients /\ m \in Members' /\ \A b \in Clients : term[b] \in Nat
      BY <1>0, <1>8, <2>2 DEF TypeOK, Members
    <3>1. T \subseteq Nat /\ term[m] \in T
      BY <3>0
    <3>2. Floor' = Min(T)
      BY <1>2 DEF Floor
    <3> QED
      BY <3>1, <3>2, MinOf
  <2>4. CASE eff[d] # 0
    <3>1. eff[d] \in Nat /\ Floor \in Nat /\ eff[d] >= Floor /\ Floor = term[m]
      BY <1>0, <2>1, <2>2, <2>4
    <3> QED
      BY <2>3, <3>1
  <2> QED
    BY <2>4
<1> QED
  BY <1>2, <1>5, <1>7, <1>9, ChangeInTurn

LEMMA TerminalInTurn ==
  ASSUME HandlersAlone, InTurn, Quiet, NEW c \in Clients, TerminalResizes(c)
  PROVE  InTurn'
<1>0. TypeOK /\ Stage(c)
  BY DEF HandlersAlone, Basics, InTurn
<1>1. PICK size \in Sizes : term' = [term EXCEPT ![c] = size] /\ Sends(c, "resize", size)
  BY DEF TerminalResizes
<1>2. /\ ui[c] = "on" /\ UNCHANGED <<session, attached, width, handler, reply, crossed, inflight, ui, eff>>
  BY DEF TerminalResizes, daemonVars
<1>3. /\ up' = [up EXCEPT ![c] = Append(up[c], [kind |-> "resize", size |-> size])]
      /\ up \in [Clients -> Seq(Requests)] /\ up[c] = <<>> /\ At(c, "idle")
  BY <1>0, <1>1, QuietFacts DEF Sends, TypeOK
<1>4. /\ term'[c] = size /\ up'[c] = Append(<<>>, [kind |-> "resize", size |-> size])
      /\ \A d \in Clients \ {c} : term'[d] = term[d] /\ up'[d] = up[d]
  BY <1>0, <1>1, <1>3 DEF TypeOK
<1>5. \A d \in Clients \ {c} : Same(d)
  BY <1>2, <1>4 DEF Same
<1>6. Works(c) /\ up'[c] = Request("resize", term'[c])
  BY <1>0, <1>2, <1>4, OneRequest DEF Stage
<1>7. Stage(c)'
  BY <1>2, <1>3, <1>6 DEF Stage, Works, At
<1>8. ASSUME NEW d \in Clients, ui'[d] = "on"
      PROVE  /\ eff[d] = 0 \/ eff[d] >= session
             /\ \A b \in Clients : ui'[b] \notin {"attaching", "restored", "bare"}
  BY <1>2, <1>8, QuietFacts DEF Here
<1> QED
  BY <1>2, <1>5, <1>7, <1>8, ChangeInTurn

LEMMA QuitInTurn ==
  ASSUME HandlersAlone, InTurn, Quiet, NEW c \in Clients, Quit(c)
  PROVE  InTurn'
<1>0. TypeOK /\ Stage(c)
  BY DEF HandlersAlone, Basics, InTurn
<1>1. /\ ui[c] = "on" /\ ui' = [ui EXCEPT ![c] = "gone"]
      /\ UNCHANGED <<session, attached, width, handler, reply, crossed, inflight, term, eff>>
  BY QuietFacts DEF Quit, daemonVars
<1>2. up \in [Clients -> Seq(Requests)] /\ up[c] = <<>> /\ At(c, "idle")
  BY <1>0, QuietFacts DEF TypeOK
<1>3. /\ up'[c] \in {<<>>, Request("detach", 0)}
      /\ \A d \in Clients \ {c} : up'[d] = up[d]
  <2>1. CASE Sends(c, "detach", 0)
    <3>1. up' = [up EXCEPT ![c] = Append(up[c], [kind |-> "detach", size |-> 0])]
      BY <2>1 DEF Sends
    <3>2. up'[c] = Append(<<>>, [kind |-> "detach", size |-> 0])
      BY <1>2, <3>1
    <3> QED
      BY <1>2, <3>1, <3>2, OneRequest
  <2>2. CASE UNCHANGED up
    BY <1>2, <2>2
  <2> QED
    BY <2>1, <2>2 DEF Quit
<1>4. ui'[c] = "gone" /\ \A d \in Clients \ {c} : ui'[d] = ui[d]
  BY <1>0, <1>1 DEF TypeOK
<1>5. \A d \in Clients \ {c} : Same(d)
  BY <1>1, <1>3, <1>4 DEF Same
<1>6. c \in attached
  BY <1>0, <1>1 DEF Stage, Works
<1>7. Stage(c)'
  BY <1>1, <1>2, <1>3, <1>4, <1>6 DEF Stage, Lingers, At
<1>8. ASSUME NEW d \in Clients, ui'[d] = "on"
      PROVE  /\ eff[d] = 0 \/ eff[d] >= session
             /\ \A b \in Clients : ui'[b] \notin {"attaching", "restored", "bare"}
  BY <1>4, <1>8, QuietFacts DEF Here
<1> QED
  BY <1>1, <1>5, <1>7, <1>8, ChangeInTurn

(* The inductive invariant: as long as changes come one at a time, they    *)
(* are dealt with one at a time, and everybody hears of what it left.      *)
Settled == ~muddled => InTurn

LEMMA SettledHolds == Spec => []Settled
<1>1. Init => Settled
  <2> SUFFICES ASSUME Init PROVE InTurn
    BY DEF Settled
  <2>1. Idle.at = "idle" /\ \A c \in Clients : Outside(c) /\ ui[c] = "out" /\ eff[c] = 0
    BY DEF Init, Outside, At, Idle
  <2>2. \A c \in Clients : Stage(c) /\ ~Busy(c)
    BY <2>1 DEF Stage, Busy, Outside
  <2> QED
    BY <2>1, <2>2 DEF InTurn, OneBusy, Init
<1>2. HandlersAlone /\ Settled /\ [Next]_vars => Settled'
  <2> SUFFICES ASSUME HandlersAlone, Settled, [Next]_vars, ~muddled' PROVE InTurn'
    BY DEF Settled
  <2>1. CASE UNCHANGED vars
    <3>1. UNCHANGED muddled /\ \A d \in Clients : Same(d)
      BY <2>1 DEF vars, Same
    <3>2. InTurn
      BY <3>1 DEF Settled
    <3> QED
      <4>1. OneBusy' /\ \A d \in Clients : Stage(d)'
        BY <3>1, <3>2, SameStage DEF InTurn, OneBusy
      <4>2. Floor' = Floor
        BY <2>1 DEF vars, Floor, Members
      <4>3. ASSUME NEW d \in Clients, ui'[d] = "on" PROVE Told(d)'
        <5>1. Hears(d) /\ Values(inflight[d]) \subseteq {Floor}
          BY <3>1, <3>2, <4>3 DEF InTurn, Told, Same
        <5>2. Hears(d)'
          BY <2>1, <4>2, <5>1, HearsKept DEF vars, At
        <5>3. (Values(inflight[d]) \subseteq {Floor})'
          BY <2>1, <4>2, <5>1 DEF vars, Values
        <5> QED
          BY <5>2, <5>3 DEF Told
      <4> QED
        BY <2>1, <3>2, <4>1, <4>3 DEF vars, InTurn
  <2>2. CASE Next
    <3> PICK c \in Clients : Handling(c) \/ Client(c)
      BY <2>2 DEF Next
    <3>1. CASE Handling(c)
      <4>1. UNCHANGED muddled
        BY <3>1 DEF Handling, clientVars, Attach, AttachCounts, AttachFits, AttachResizes, HandleResize,
                    Detach, ConnectionLost, NotifyLeft, Recalculate, Compare, SetSize, Tell, Answer
      <4>2. InTurn
        BY <4>1 DEF Settled
      <4> QED
        BY <3>1, <4>2, AttachInTurn, ResizeInTurn, GoneInTurn, AttachingInTurn, LookingInTurn,
           SetInTurn, TellInTurn DEF Handling
    <3>2. CASE SkipBroadcast(c) \/ Restore(c) \/ NothingToRestore(c) \/ FirstSize(c)
         \/ SessionResize(c)
      <4>1. UNCHANGED muddled
        BY <3>2 DEF SkipBroadcast, Restore, NothingToRestore, FirstSize, SessionResize, clientVars
      <4> QED
        BY <3>2, <4>1, ClientInTurn DEF Settled
    <3>3. CASE Start(c) \/ TerminalResizes(c) \/ Quit(c)
      <4>1. Quiet /\ ~muddled
        BY <3>3 DEF Start, TerminalResizes, Quit, Changes
      <4> QED
        BY <3>3, <4>1, StartInTurn, TerminalInTurn, QuitInTurn DEF Settled
    <3> QED
      BY <3>1, <3>2, <3>3 DEF Client
  <2> QED
    BY <2>1, <2>2
<1> QED
  BY <1>1, <1>2, HandlersAloneHolds, PTL DEF Spec

(* As long as changes come one at a time, no client is left drawing smaller *)
(* than the smallest terminal among them once a change has settled          *)
(* (daemon_size.go:115, update.go:1510).                                    *)
THEOREM NoOneClampedHolds == Spec => []NoOneClamped
<1>1. HandlersAlone /\ Settled => NoOneClamped
  <2> SUFFICES ASSUME HandlersAlone, Settled, Quiet, ~muddled, NEW c \in Here
               PROVE  Shown(c) >= LeastTerminal
    BY DEF NoOneClamped
  <2>1. InTurn /\ TypeOK
    BY DEF Settled, HandlersAlone, Basics
  <2>2. Members = Here /\ eff[c] \in Sizes \cup {0} /\ (eff[c] = 0 \/ eff[c] >= Floor)
    BY <2>1, QuietFacts DEF TypeOK, Here
  <2>3. LeastTerminal = Floor
    BY <2>2 DEF LeastTerminal, Floor
  <2>4. term[c] \in Sizes /\ Floor \in Sizes /\ Floor <= term[c] /\ Sizes \subseteq Nat
    BY <2>1, <2>2, FloorIs, SizeNegotiationAssumption DEF SizeNegotiationAssumption, TypeOK, Here
  <2> QED
    BY <2>2, <2>3, <2>4 DEF Shown
<1> QED
  BY <1>1, HandlersAloneHolds, SettledHolds, PTL

=============================================================================
