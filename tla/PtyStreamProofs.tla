-------------------------- MODULE PtyStreamProofs --------------------------
(***************************************************************************)
(* PtyStream for every number of clients and sizes, every ring and channel *)
(* capacity and every bound.  Three theorems are about what a pane shows:  *)
(* each byte is laid out at the size it was read at, in the emulator and   *)
(* in every replay (LaidAsReadHolds); catch-up and broadcast meet at a     *)
(* seam without a duplicate and without a hole (SeamExactHolds); and so    *)
(* a pane primed from a snapshot paints every byte once (ViewExactHolds).  *)
(*                                                                         *)
(* The argument is about runs: sequences of items that lead from one       *)
(* position and size of the stream to another.  A run can be joined by an  *)
(* item, left by its first item, or cut.  The pipeline to the emulator, a  *)
(* catch-up and a subscriber's channel are runs, and the invariants        *)
(* StreamInv, SeamInv and ViewInv say from where to where.                 *)
(***************************************************************************)
EXTENDS PtyStream, SequenceTheorems, WellFoundedInduction, TLAPS

-----------------------------------------------------------------------------
(* Extremes of sets of numbers, induction below a bound, and sequences of  *)
(* sequences laid end to end.                                              *)

LEMMA MinOf ==
  ASSUME NEW S, S \subseteq Nat, S # {}
  PROVE  Min(S) \in S /\ \A y \in S : Min(S) <= y
<1>1. PICK x \in S : \A y \in S : ~ (<<y, x>> \in OpToRel(<, Nat))
  BY WFMin, NatLessThanWellFounded, Zenon
<1>2. \A y \in S : ~(y < x)
  BY <1>1, Zenon DEF OpToRel
<1>3. \A y \in S : x <= y
  BY <1>2
<1> QED
  BY <1>3 DEF Min

LEMMA MaxOf ==
  ASSUME NEW n \in Nat, NEW S, S \subseteq 0..n, S # {}
  PROVE  Max(S) \in S /\ \A y \in S : y <= Max(S)
<1> DEFINE R == {n - x : x \in S}
<1>1. R \subseteq Nat /\ R # {}
  <2>1. \A x \in S : x \in 0..n /\ n - x \in Nat
    OBVIOUS
  <2> QED
    BY <2>1, Zenon
<1>2. Min(R) \in R /\ \A y \in R : Min(R) <= y
  BY <1>1, MinOf
<1>3. PICK m \in S : Min(R) = n - m
  BY <1>2
<1>4. \A y \in S : y <= m
  <2> TAKE y \in S
  <2>1. n - m <= n - y
    BY <1>2, <1>3
  <2>2. m \in 0..n /\ y \in 0..n
    OBVIOUS
  <2> HIDE DEF R
  <2> QED
    BY <2>1, <2>2
<1> HIDE DEF R
<1>5. \E x \in S : \A y \in S : x >= y
  BY <1>4
<1>6. Max(S) \in S /\ \A y \in S : Max(S) >= y
  BY <1>5, Zenon DEF Max
<1> QED
  BY <1>6

LEMMA UpTo ==
  ASSUME NEW N \in Nat, NEW S, 0 \in S, \A n \in 0..(N - 1) : n \in S => n + 1 \in S
  PROVE  0..N \subseteq S
<1> DEFINE Out == (0..N) \ S
<1> SUFFICES ASSUME Out # {} PROVE FALSE
  OBVIOUS
<1>1. Out \subseteq Nat
  OBVIOUS
<1>2. Min(Out) \in Out /\ \A y \in Out : Min(Out) <= y
  BY <1>1, MinOf
<1>3. PICK m \in Nat : m = Min(Out)
  BY <1>1, <1>2
<1>4. m \in Out /\ m # 0 /\ m - 1 \notin Out
  BY <1>2, <1>3
<1> QED
  BY <1>4

(* What FlattenSeq's recursive function computes, one sequence at a time.  *)
Flattens(f, n, seg) ==
  f = [i \in 1..n |-> IF i = 1 THEN seg[i] ELSE f[i - 1] \o seg[i]]

LEMMA FlattenExtends ==
  ASSUME NEW S, NEW N \in Nat \ {0}, NEW seg \in [1..N -> Seq(S)],
         NEW n \in 0..(N - 1), NEW f, Flattens(f, n, seg), \A i \in 1..n : f[i] \in Seq(S)
  PROVE  \E g : Flattens(g, n + 1, seg) /\ \A i \in 1..(n + 1) : g[i] \in Seq(S)
<1> DEFINE new == IF n = 0 THEN seg[1] ELSE f[n] \o seg[n + 1]
           g == [i \in 1..(n + 1) |-> IF i = n + 1 THEN new ELSE f[i]]
<1>1. seg[n + 1] \in Seq(S)
  OBVIOUS
<1>2. new \in Seq(S)
  <2>1. CASE n = 0
    BY <1>1, <2>1
  <2>2. CASE n # 0
    <3>1. f[n] \in Seq(S)
      BY <2>2
    <3>2. f[n] \o seg[n + 1] \in Seq(S)
      BY <1>1, <3>1
    <3> QED
      BY <2>2, <3>2
  <2> QED
    BY <2>1, <2>2
<1>3. \A i \in 1..(n + 1) : g[i] \in Seq(S)
  BY <1>2
<1>4. ASSUME NEW i \in 1..(n + 1)
      PROVE  g[i] = IF i = 1 THEN seg[i] ELSE g[i - 1] \o seg[i]
  <2>1. CASE i = n + 1
    <3>1. g[i] = new /\ (n # 0 => g[n] = f[n])
      BY <2>1
    <3> QED
      BY <2>1, <3>1
  <2>2. CASE i # n + 1
    <3>1. i \in 1..n /\ g[i] = f[i] /\ (i # 1 => g[i - 1] = f[i - 1])
      BY <2>2
    <3>2. f[i] = IF i = 1 THEN seg[i] ELSE f[i - 1] \o seg[i]
      BY <3>1 DEF Flattens
    <3> QED
      BY <3>1, <3>2
  <2> QED
    BY <2>1, <2>2
<1>5. g = [i \in 1..(n + 1) |-> g[i]]
  OBVIOUS
<1> HIDE DEF g, new
<1>6. Flattens(g, n + 1, seg)
  BY <1>4, <1>5 DEF Flattens
<1> QED
  BY <1>3, <1>6

LEMMA FlattenExists ==
  ASSUME NEW S, NEW N \in Nat \ {0}, NEW seg \in [1..N -> Seq(S)]
  PROVE  \E f : Flattens(f, N, seg)
<1> DEFINE Has(n) == \E f : Flattens(f, n, seg) /\ \A i \in 1..n : f[i] \in Seq(S)
           Ex == {n \in 0..N : Has(n)}
<1>1. Has(0)
  <2>1. Flattens([i \in 1..0 |-> <<>>], 0, seg)
    BY DEF Flattens
  <2>2. \A i \in 1..0 : [j \in 1..0 |-> <<>>][i] \in Seq(S)
    OBVIOUS
  <2> QED
    BY <2>1, <2>2
<1>2. ASSUME NEW n \in 0..(N - 1), Has(n)
      PROVE  Has(n + 1)
  BY <1>2, FlattenExtends
<1> HIDE DEF Has
<1>3. 0 \in Ex /\ \A n \in 0..(N - 1) : n \in Ex => n + 1 \in Ex
  BY <1>1, <1>2
<1> HIDE DEF Ex
<1>4. 0..N \subseteq Ex
  BY <1>3, UpTo
<1> USE DEF Ex
<1>5. Has(N)
  BY <1>4
<1> QED
  BY <1>5 DEF Has

LEMMA FlattenTyped ==
  ASSUME NEW S, NEW N \in Nat \ {0}, NEW seg \in [1..N -> Seq(S)],
         NEW f, Flattens(f, N, seg)
  PROVE  \A i \in 1..N : f[i] \in Seq(S)
<1>0. \A i \in 1..N : f[i] = IF i = 1 THEN seg[i] ELSE f[i - 1] \o seg[i]
  BY DEF Flattens
<1> DEFINE T == {n \in 0..N : n = 0 \/ f[n] \in Seq(S)}
<1>1. ASSUME NEW n \in 0..(N - 1), n \in T
      PROVE  n + 1 \in T
  <2>1. n + 1 \in 1..N /\ seg[n + 1] \in Seq(S)
    OBVIOUS
  <2>2. f[n + 1] = IF n + 1 = 1 THEN seg[n + 1] ELSE f[n] \o seg[n + 1]
    <3>1. (n + 1) - 1 = n
      OBVIOUS
    <3> HIDE DEF T
    <3> QED
      BY <1>0, <2>1, <3>1, Zenon
  <2>3. CASE n = 0
    BY <2>1, <2>2, <2>3
  <2>4. CASE n # 0
    <3>1. f[n] \in Seq(S)
      BY <1>1, <2>4
    <3>2. f[n] \o seg[n + 1] \in Seq(S)
      BY <2>1, <3>1
    <3>3. n + 1 \in 0..N /\ n + 1 # 1
      BY <2>4
    <3> QED
      BY <2>2, <3>2, <3>3
  <2> QED
    BY <2>3, <2>4
<1>2. 0 \in T
  OBVIOUS
<1> HIDE DEF T
<1>3. 0..N \subseteq T
  BY <1>1, <1>2, UpTo
<1> QED
  BY <1>3 DEF T

LEMMA FlattenSteps ==
  ASSUME NEW S, NEW N \in Nat \ {0}, NEW seg \in [1..N -> Seq(S)]
  PROVE  \E F \in [0..N -> Seq(S)] :
           /\ F[0] = <<>>
           /\ \A n \in 1..N : F[n] = F[n - 1] \o seg[n]
           /\ F[N] = FlattenSeq(seg)
<1> DEFINE f == CHOOSE g : Flattens(g, N, seg)
           F == [n \in 0..N |-> IF n = 0 THEN <<>> ELSE f[n]]
<1>1. Flattens(f, N, seg)
  BY FlattenExists, Zenon
<1>2. FlattenSeq(seg) = f[N]
  <2>1. Len(seg) = N
    OBVIOUS
  <2> QED
    BY <2>1 DEF FlattenSeq, Flattens
<1> HIDE DEF f
<1>3. \A i \in 1..N : f[i] \in Seq(S)
  BY <1>1, FlattenTyped
<1>4. F \in [0..N -> Seq(S)]
  BY <1>3
<1>5. ASSUME NEW n \in 1..N
      PROVE  F[n] = F[n - 1] \o seg[n]
  <2>1. F[n] = f[n] /\ (n # 1 => F[n - 1] = f[n - 1]) /\ (n = 1 => F[n - 1] = <<>>)
    OBVIOUS
  <2>2. <<>> \o seg[n] = seg[n]
    OBVIOUS
  <2>3. f[n] = IF n = 1 THEN seg[n] ELSE f[n - 1] \o seg[n]
    BY <1>1 DEF Flattens
  <2> HIDE DEF F
  <2> QED
    BY <2>1, <2>2, <2>3
<1>6. F[0] = <<>> /\ F[N] = FlattenSeq(seg)
  BY <1>2
<1> HIDE DEF F
<1> QED
  BY <1>4, <1>5, <1>6

-----------------------------------------------------------------------------
(* What is known in front of an item of a queue.                           *)

(* The newest item of a kind in front of the i-th.                         *)
LEMMA LatestIs ==
  ASSUME NEW q, NEW kind, NEW i \in Nat \ {0}
  PROVE  /\ Latest(q, i, kind) \in 0..(i - 1)
         /\ Latest(q, i, kind) # 0 => q[Latest(q, i, kind)].kind = kind
         /\ \A j \in 1..(i - 1) : q[j].kind = kind => j <= Latest(q, i, kind)
<1> DEFINE js == {j \in 1..(i - 1) : q[j].kind = kind}
<1>1. CASE js = {}
  <2>1. Latest(q, i, kind) = 0
    BY <1>1 DEF Latest
  <2> QED
    BY <1>1, <2>1
<1>2. CASE js # {}
  <2>1. js \subseteq 0..(i - 1) /\ i - 1 \in Nat
    OBVIOUS
  <2>2. Max(js) \in js /\ \A y \in js : y <= Max(js)
    BY <1>2, <2>1, MaxOf
  <2>3. Latest(q, i, kind) = Max(js)
    BY <1>2 DEF Latest
  <2> QED
    BY <2>2, <2>3
<1> QED
  BY <1>1, <1>2

LEMMA LatestUnique ==
  ASSUME NEW q, NEW kind, NEW i \in Nat \ {0}, NEW n \in 0..(i - 1),
         n # 0 => q[n].kind = kind,
         \A j \in 1..(i - 1) : q[j].kind = kind => j <= n
  PROVE  Latest(q, i, kind) = n
<1> DEFINE l == Latest(q, i, kind)
<1>1. /\ l \in 0..(i - 1)
      /\ l # 0 => q[l].kind = kind
      /\ \A j \in 1..(i - 1) : q[j].kind = kind => j <= l
  BY LatestIs
<1> HIDE DEF l
<1>2. l <= n
  BY <1>1
<1>3. n <= l
  BY <1>1
<1>4. l = n
  BY <1>1, <1>2, <1>3
<1> QED
  BY <1>4 DEF l

LEMMA LatestFirst ==
  ASSUME NEW q, NEW kind
  PROVE  Latest(q, 1, kind) = 0
BY LatestUnique

LEMMA LatestNext ==
  ASSUME NEW q, NEW kind, NEW i \in Nat \ {0}, NEW j \in Nat, j = i + 1
  PROVE  Latest(q, j, kind) = IF q[i].kind = kind THEN i ELSE Latest(q, i, kind)
<1> DEFINE l == Latest(q, i, kind)
<1>1. /\ l \in 0..(i - 1)
      /\ l # 0 => q[l].kind = kind
      /\ \A h \in 1..(i - 1) : q[h].kind = kind => h <= l
  BY LatestIs
<1> HIDE DEF l
<1>2. j \in Nat \ {0} /\ j - 1 = i
  OBVIOUS
<1>3. CASE q[i].kind = kind
  <2>1. i \in 0..(j - 1) /\ \A h \in 1..(j - 1) : q[h].kind = kind => h <= i
    BY <1>2
  <2>2. Latest(q, j, kind) = i
    BY <1>2, <1>3, <2>1, LatestUnique
  <2> QED
    BY <1>3, <2>2
<1>4. CASE q[i].kind # kind
  <2>1. l \in 0..(j - 1) /\ \A h \in 1..(j - 1) : q[h].kind = kind => h <= l
    BY <1>1, <1>2, <1>4
  <2>2. Latest(q, j, kind) = l
    BY <1>1, <1>2, <2>1, LatestUnique
  <2> QED
    BY <1>4, <2>2 DEF l
<1> QED
  BY <1>3, <1>4

LEMMA LatestSame ==
  ASSUME NEW q, NEW r, NEW kind, NEW i \in Nat \ {0},
         \A j \in 1..(i - 1) : q[j] = r[j]
  PROVE  Latest(q, i, kind) = Latest(r, i, kind)
<1>1. {j \in 1..(i - 1) : q[j].kind = kind} = {j \in 1..(i - 1) : r[j].kind = kind}
  OBVIOUS
<1> QED
  BY <1>1, Zenon DEF Latest

LEMMA LatestJoin ==
  ASSUME NEW r, NEW kind, NEW x, NEW n \in Nat \ {0}, r[n] = x
  PROVE  Latest(r, n + 1, kind) = IF x.kind = kind THEN n ELSE Latest(r, n, kind)
<1>1. n + 1 \in Nat
  OBVIOUS
<1>2. Latest(r, n + 1, kind) = IF r[n].kind = kind THEN n ELSE Latest(r, n, kind)
  BY <1>1, LatestNext
<1> QED
  BY <1>2

(* When an item joins a queue, what is known in front of every earlier one *)
(* stands.                                                                 *)
LEMMA JoinKeeps ==
  ASSUME NEW S, NEW q \in Seq(S), NEW x \in S, NEW i \in 1..(Len(q) + 1), NEW v
  PROVE  /\ PosAt(Append(q, x), i, v) = PosAt(q, i, v)
         /\ WidthAt(Append(q, x), i, v) = WidthAt(q, i, v)
<1> DEFINE r == Append(q, x)
<1>1. i \in Nat \ {0} /\ \A j \in 1..(i - 1) : r[j] = q[j]
  OBVIOUS
<1> HIDE DEF r
<1>2. ASSUME NEW kind
      PROVE  /\ Latest(r, i, kind) = Latest(q, i, kind)
             /\ Latest(q, i, kind) # 0 => r[Latest(q, i, kind)] = q[Latest(q, i, kind)]
  <2>1. Latest(r, i, kind) = Latest(q, i, kind)
    BY <1>1, LatestSame
  <2>2. Latest(q, i, kind) \in 0..(i - 1)
    BY <1>1, LatestIs
  <2> QED
    BY <1>1, <2>1, <2>2
<1>3. PosAt(r, i, v) = PosAt(q, i, v) /\ WidthAt(r, i, v) = WidthAt(q, i, v)
  BY <1>2 DEF PosAt, WidthAt
<1> QED
  BY <1>3 DEF r

LEMMA JoinEnds ==
  ASSUME NEW S, NEW q \in Seq(S), NEW x \in S, NEW v
  PROVE  /\ PosAt(Append(q, x), Len(q) + 2, v) =
              IF x.kind = "data" THEN x.hi ELSE PosAt(q, Len(q) + 1, v)
         /\ WidthAt(Append(q, x), Len(q) + 2, v) =
              IF x.kind = "size" THEN x.w ELSE WidthAt(q, Len(q) + 1, v)
<1> DEFINE r == Append(q, x)
           n == Len(q) + 1
<1>1. n \in Nat \ {0} /\ r[n] = x /\ n + 1 = Len(q) + 2
  OBVIOUS
<1>2. PosAt(r, n, v) = PosAt(q, n, v) /\ WidthAt(r, n, v) = WidthAt(q, n, v)
  BY JoinKeeps
<1> HIDE DEF r, n
<1>3. ASSUME NEW kind
      PROVE  Latest(r, n + 1, kind) = IF x.kind = kind THEN n ELSE Latest(r, n, kind)
  BY <1>1, LatestJoin
<1>4. n # 0
  BY <1>1
<1>5. /\ PosAt(r, n + 1, v) = IF x.kind = "data" THEN x.hi ELSE PosAt(r, n, v)
      /\ WidthAt(r, n + 1, v) = IF x.kind = "size" THEN x.w ELSE WidthAt(r, n, v)
  BY <1>1, <1>3, <1>4 DEF PosAt, WidthAt
<1> QED
  BY <1>1, <1>2, <1>5 DEF r, n

(* When the first item leaves, what it says becomes what the queue starts  *)
(* at.                                                                     *)
LEMMA LeaveKeeps ==
  ASSUME NEW S, NEW q \in Seq(S), q # <<>>, NEW i \in 1..Len(q), NEW v
  PROVE  /\ PosAt(Tail(q), i, IF Head(q).kind = "data" THEN Head(q).hi ELSE v)
              = PosAt(q, i + 1, v)
         /\ WidthAt(Tail(q), i, IF Head(q).kind = "size" THEN Head(q).w ELSE v)
              = WidthAt(q, i + 1, v)
<1> DEFINE t == Tail(q)
<1>1. i \in Nat \ {0} /\ i + 1 \in Nat \ {0} /\ Head(q) = q[1]
  OBVIOUS
<1>2. \A j \in 1..(i - 1) : t[j] = q[j + 1]
  OBVIOUS
<1> HIDE DEF t
<1>3. ASSUME NEW kind
      PROVE  LET l == Latest(q, i + 1, kind)
             IN  /\ l \in 0..i
                 /\ l # 0 => q[l].kind = kind
                 /\ l = 0 => q[1].kind # kind
                 /\ Latest(t, i, kind) = IF l = 0 THEN 0 ELSE l - 1
                 /\ l > 1 => t[l - 1] = q[l]
  <2> DEFINE l == Latest(q, i + 1, kind)
             n == IF l = 0 THEN 0 ELSE l - 1
  <2>1. /\ l \in 0..((i + 1) - 1)
        /\ l # 0 => q[l].kind = kind
        /\ \A j \in 1..((i + 1) - 1) : q[j].kind = kind => j <= l
    BY <1>1, LatestIs
  <2> HIDE DEF l
  <2>2. n \in 0..(i - 1)
    BY <2>1
  <2>3. n # 0 => t[n].kind = kind
    BY <1>2, <2>1
  <2>4. ASSUME NEW j \in 1..(i - 1), t[j].kind = kind
        PROVE  j <= n
    <3>1. q[j + 1].kind = kind /\ j + 1 \in 1..((i + 1) - 1)
      BY <1>2, <2>4
    <3>2. j + 1 <= l
      BY <2>1, <3>1
    <3> QED
      BY <2>1, <3>2
  <2> HIDE DEF n
  <2>5. Latest(t, i, kind) = n
    BY <1>1, <2>2, <2>3, <2>4, LatestUnique
  <2>6. l > 1 => t[l - 1] = q[l]
    BY <1>2, <2>1
  <2>7. l = 0 => q[1].kind # kind
    BY <2>1
  <2> QED
    BY <2>1, <2>5, <2>6, <2>7 DEF l, n
<1>4. PosAt(t, i, IF q[1].kind = "data" THEN q[1].hi ELSE v) = PosAt(q, i + 1, v)
  BY <1>3 DEF PosAt
<1>5. WidthAt(t, i, IF q[1].kind = "size" THEN q[1].w ELSE v) = WidthAt(q, i + 1, v)
  BY <1>3 DEF WidthAt
<1> QED
  BY <1>1, <1>4, <1>5 DEF t

-----------------------------------------------------------------------------
(* Runs.                                                                   *)

(* The fields of an item.                                                  *)
LEMMA ItemPlaces ==
  ASSUME NEW x \in Item
  PROVE  /\ x.lo \in Nat /\ x.hi \in Nat /\ x.kind \in {"data", "size"} /\ x.clear \in BOOLEAN
         /\ x.kind = "size" => x.w \in Sizes /\ x.clear = FALSE
<1>1. CASE x \in [kind : {"data"}, lo : Nat, hi : Nat, clear : BOOLEAN, w : {0}]
  BY <1>1
<1>2. CASE x \in [kind : {"size"}, lo : {0}, hi : {0}, clear : {FALSE}, w : Sizes]
  <2>1. x.kind = "size" /\ x.lo = 0 /\ x.hi = 0 /\ x.w \in Sizes
    BY <1>2
  <2>2. x.clear \in {FALSE}
    BY <1>2, Zenon
  <2>3. x.clear = FALSE
    BY <2>2, Zenon
  <2>4. x.clear \in BOOLEAN
    BY <2>3, Zenon
  <2> QED
    BY <2>1, <2>3, <2>4
<1> QED
  BY <1>1, <1>2 DEF Item

(* A run of items from a position and a size on: no item begins before the *)
(* one in front of it ended; none leaves a hole, unless it clears the      *)
(* screen; each is laid out as it was read; none ends past n.              *)
Ordered(q, pos) ==
  \A i \in DOMAIN q : q[i].kind = "data" =>
    PosAt(q, i, pos) <= q[i].lo /\ q[i].lo <= q[i].hi

Joined(q, pos) ==
  \A i \in DOMAIN q : q[i].kind = "data" => q[i].lo = PosAt(q, i, pos) \/ q[i].clear

Fits(q, w) == \A i \in DOMAIN q : q[i].kind = "data" => LaidAt(q[i], WidthAt(q, i, w))

Within(q, n) == \A i \in DOMAIN q : q[i].kind = "data" => q[i].hi <= n

EndPos(q, pos) == PosAt(q, Len(q) + 1, pos)
EndWidth(q, w) == WidthAt(q, Len(q) + 1, w)

LEMMA EmptyRun ==
  ASSUME NEW pos, NEW w, NEW n
  PROVE  /\ Ordered(<<>>, pos) /\ Joined(<<>>, pos) /\ Fits(<<>>, w) /\ Within(<<>>, n)
         /\ EndPos(<<>>, pos) = pos /\ EndWidth(<<>>, w) = w
<1>1. DOMAIN <<>> = {} /\ Len(<<>>) + 1 = 1
  OBVIOUS
<1>2. \A kind : Latest(<<>>, 1, kind) = 0
  BY LatestFirst
<1>3. EndPos(<<>>, pos) = pos /\ EndWidth(<<>>, w) = w
  BY <1>1, <1>2 DEF EndPos, EndWidth, PosAt, WidthAt
<1>4. Ordered(<<>>, pos) /\ Joined(<<>>, pos) /\ Fits(<<>>, w) /\ Within(<<>>, n)
  BY <1>1 DEF Ordered, Joined, Fits, Within
<1> QED
  BY <1>3, <1>4

LEMMA JoinRun ==
  ASSUME NEW q \in Seq(Item), NEW x \in Item, NEW pos, NEW w, NEW n
  PROVE  LET r == Append(q, x)
             d == x.kind = "data"
         IN  /\ r \in Seq(Item)
             /\ Ordered(q, pos) /\ (d => EndPos(q, pos) <= x.lo /\ x.lo <= x.hi) => Ordered(r, pos)
             /\ Joined(q, pos) /\ (d => x.lo = EndPos(q, pos) \/ x.clear) => Joined(r, pos)
             /\ Fits(q, w) /\ (d => LaidAt(x, EndWidth(q, w))) => Fits(r, w)
             /\ Within(q, n) /\ (d => x.hi <= n) => Within(r, n)
             /\ EndPos(r, pos) = IF d THEN x.hi ELSE EndPos(q, pos)
             /\ EndWidth(r, w) = IF x.kind = "size" THEN x.w ELSE EndWidth(q, w)
<1> DEFINE r == Append(q, x)
           l == Len(q) + 1
<1>1. /\ r \in Seq(Item) /\ DOMAIN r = 1..l /\ r[l] = x /\ Len(r) + 1 = Len(q) + 2
      /\ \A i \in 1..l : i # l => i \in DOMAIN q /\ r[i] = q[i]
      /\ l \in 1..l
  OBVIOUS
<1>2. ASSUME NEW i \in 1..l
      PROVE  PosAt(r, i, pos) = PosAt(q, i, pos) /\ WidthAt(r, i, w) = WidthAt(q, i, w)
  BY JoinKeeps
<1>3. /\ EndPos(r, pos) = IF x.kind = "data" THEN x.hi ELSE EndPos(q, pos)
      /\ EndWidth(r, w) = IF x.kind = "size" THEN x.w ELSE EndWidth(q, w)
  BY <1>1, JoinEnds DEF EndPos, EndWidth
<1>4. PosAt(r, l, pos) = EndPos(q, pos) /\ WidthAt(r, l, w) = EndWidth(q, w)
  BY <1>1, <1>2 DEF EndPos, EndWidth
<1> HIDE DEF r, l
<1>5. Ordered(q, pos) /\ (x.kind = "data" => EndPos(q, pos) <= x.lo /\ x.lo <= x.hi)
      => Ordered(r, pos)
  BY <1>1, <1>2, <1>4 DEF Ordered
<1>6. Joined(q, pos) /\ (x.kind = "data" => x.lo = EndPos(q, pos) \/ x.clear) => Joined(r, pos)
  BY <1>1, <1>2, <1>4 DEF Joined
<1>7. Fits(q, w) /\ (x.kind = "data" => LaidAt(x, EndWidth(q, w))) => Fits(r, w)
  BY <1>1, <1>2, <1>4 DEF Fits
<1>8. Within(q, n) /\ (x.kind = "data" => x.hi <= n) => Within(r, n)
  BY <1>1 DEF Within
<1> QED
  BY <1>1, <1>3, <1>5, <1>6, <1>7, <1>8 DEF r

LEMMA LeaveRun ==
  ASSUME NEW q \in Seq(Item), q # <<>>, NEW pos, NEW w, NEW n
  PROVE  LET x == Head(q)
             t == Tail(q)
             p == IF x.kind = "data" THEN x.hi ELSE pos
             v == IF x.kind = "size" THEN x.w ELSE w
         IN  /\ x \in Item /\ t \in Seq(Item)
             /\ Ordered(q, pos) => Ordered(t, p) /\ (x.kind = "data" => pos <= x.lo /\ x.lo <= x.hi)
             /\ Joined(q, pos) => Joined(t, p) /\ (x.kind = "data" => x.lo = pos \/ x.clear)
             /\ Fits(q, w) => Fits(t, v)
             /\ Within(q, n) => Within(t, n) /\ (x.kind = "data" => x.hi <= n)
             /\ EndPos(t, p) = EndPos(q, pos)
             /\ EndWidth(t, v) = EndWidth(q, w)
<1> DEFINE x == Head(q)
           t == Tail(q)
           p == IF x.kind = "data" THEN x.hi ELSE pos
           v == IF x.kind = "size" THEN x.w ELSE w
<1>1. /\ x \in Item /\ t \in Seq(Item) /\ x = q[1] /\ 1 \in DOMAIN q
      /\ Len(t) + 1 \in 1..Len(q) /\ (Len(t) + 1) + 1 = Len(q) + 1
      /\ \A i \in DOMAIN t : i \in 1..Len(q) /\ t[i] = q[i + 1] /\ i + 1 \in DOMAIN q
  OBVIOUS
<1>2. ASSUME NEW i \in 1..Len(q)
      PROVE  PosAt(t, i, p) = PosAt(q, i + 1, pos) /\ WidthAt(t, i, v) = WidthAt(q, i + 1, w)
  BY LeaveKeeps
<1>3. PosAt(q, 1, pos) = pos
  BY LatestFirst DEF PosAt
<1> HIDE DEF x, t, p, v
<1>4. EndPos(t, p) = EndPos(q, pos) /\ EndWidth(t, v) = EndWidth(q, w)
  BY <1>1, <1>2 DEF EndPos, EndWidth
<1>5. Ordered(q, pos) => Ordered(t, p) /\ (x.kind = "data" => pos <= x.lo /\ x.lo <= x.hi)
  BY <1>1, <1>2, <1>3 DEF Ordered
<1>6. Joined(q, pos) => Joined(t, p) /\ (x.kind = "data" => x.lo = pos \/ x.clear)
  BY <1>1, <1>2, <1>3 DEF Joined
<1>7. Fits(q, w) => Fits(t, v)
  BY <1>1, <1>2 DEF Fits
<1>8. Within(q, n) => Within(t, n) /\ (x.kind = "data" => x.hi <= n)
  BY <1>1 DEF Within
<1> QED
  BY <1>1, <1>4, <1>5, <1>6, <1>7, <1>8 DEF x, t, p, v

(* A full channel takes the first items of a run: they are a run, which    *)
(* ends where the whole one does if no chunk was left out.                 *)
LEMMA CutRun ==
  ASSUME NEW q \in Seq(Item), NEW k \in 0..Len(q), NEW pos \in Nat, NEW n \in Nat
  PROVE  LET r == SubSeq(q, 1, k)
         IN  /\ r \in Seq(Item) /\ Len(r) = k
             /\ Ordered(q, pos) => Ordered(r, pos)
             /\ Joined(q, pos) => Joined(r, pos)
             /\ Within(q, n) => Within(r, n)
             /\ Within(q, n) /\ pos <= n => EndPos(r, pos) <= n
             /\ (\A i \in (k + 1)..Len(q) : q[i].kind # "data") => EndPos(r, pos) = EndPos(q, pos)
<1> DEFINE r == SubSeq(q, 1, k)
<1>1. /\ r \in Seq(Item) /\ Len(r) = k /\ DOMAIN r = 1..k
      /\ \A i \in 1..k : i \in DOMAIN q /\ r[i] = q[i] /\ i \in Nat \ {0}
  OBVIOUS
<1> HIDE DEF r
<1>2. ASSUME NEW i \in 1..(k + 1)
      PROVE  PosAt(r, i, pos) = PosAt(q, i, pos)
  <2>1. i \in Nat \ {0} /\ \A j \in 1..(i - 1) : r[j] = q[j]
    BY <1>1
  <2> HIDE DEF r
  <2>2. Latest(r, i, "data") = Latest(q, i, "data")
    BY <2>1, LatestSame
  <2>3. Latest(r, i, "data") \in 0..(i - 1)
    BY <2>1, LatestIs
  <2>4. Latest(r, i, "data") # 0 => r[Latest(r, i, "data")] = q[Latest(r, i, "data")]
    BY <2>1, <2>2, <2>3
  <2> QED
    BY <2>2, <2>4 DEF PosAt
<1>3. Ordered(q, pos) => Ordered(r, pos)
  BY <1>1, <1>2 DEF Ordered
<1>4. Joined(q, pos) => Joined(r, pos)
  BY <1>1, <1>2 DEF Joined
<1>5. Within(q, n) => Within(r, n)
  BY <1>1 DEF Within
<1>6. ASSUME Within(q, n), pos <= n
      PROVE  EndPos(r, pos) <= n
  <2> DEFINE l == Latest(r, k + 1, "data")
  <2>1. k + 1 \in Nat \ {0}
    OBVIOUS
  <2>2. l \in 0..((k + 1) - 1) /\ (l # 0 => r[l].kind = "data")
    BY <2>1, LatestIs
  <2> HIDE DEF l
  <2>3. l # 0 => l \in DOMAIN r /\ r[l].kind = "data"
    BY <1>1, <2>2
  <2>4. l # 0 => r[l].hi <= n
    BY <1>5, <1>6, <2>3 DEF Within
  <2> QED
    BY <1>1, <1>6, <2>4 DEF EndPos, PosAt, l
<1>7. ASSUME \A i \in (k + 1)..Len(q) : q[i].kind # "data"
      PROVE  EndPos(r, pos) = EndPos(q, pos)
  <2> DEFINE l == Latest(q, k + 1, "data")
  <2>1. k + 1 \in Nat \ {0} /\ Len(q) + 1 \in Nat \ {0}
    OBVIOUS
  <2>2. /\ l \in 0..((k + 1) - 1) /\ (l # 0 => q[l].kind = "data")
        /\ \A j \in 1..((k + 1) - 1) : q[j].kind = "data" => j <= l
    BY <2>1, LatestIs
  <2> HIDE DEF l
  <2>3. \A j \in 1..((Len(q) + 1) - 1) : q[j].kind = "data" => j <= l
    BY <1>7, <2>2
  <2>4. l \in 0..((Len(q) + 1) - 1)
    BY <2>2
  <2>5. Latest(q, Len(q) + 1, "data") = l
    BY <2>1, <2>2, <2>3, <2>4, LatestUnique
  <2>6. EndPos(q, pos) = PosAt(q, k + 1, pos)
    BY <2>5 DEF EndPos, PosAt, l
  <2> QED
    BY <1>1, <1>2, <2>6 DEF EndPos
<1> QED
  BY <1>1, <1>3, <1>4, <1>5, <1>6, <1>7 DEF r

LEMMA EndPosIsPos ==
  ASSUME NEW q \in Seq(Item), NEW pos \in Nat
  PROVE  EndPos(q, pos) \in Nat
<1> DEFINE l == Latest(q, Len(q) + 1, "data")
<1>1. Len(q) + 1 \in Nat \ {0}
  OBVIOUS
<1>2. l \in 0..((Len(q) + 1) - 1)
  BY <1>1, LatestIs
<1> HIDE DEF l
<1>3. l # 0 => q[l] \in Item
  BY <1>2
<1>4. l # 0 => q[l].hi \in Nat
  BY <1>3, ItemPlaces
<1> QED
  BY <1>4 DEF EndPos, PosAt, l

(* A run that begins at a position also begins at any before it.           *)
LEMMA LowerRun ==
  ASSUME NEW q \in Seq(Item), NEW p \in Nat, NEW pos \in Nat, pos <= p, Ordered(q, p)
  PROVE  Ordered(q, pos) /\ EndPos(q, pos) <= EndPos(q, p)
<1>1. ASSUME NEW i \in Nat
      PROVE  \/ PosAt(q, i, pos) = PosAt(q, i, p)
             \/ PosAt(q, i, pos) = pos /\ PosAt(q, i, p) = p
  <2>1. CASE Latest(q, i, "data") = 0
    BY <2>1 DEF PosAt
  <2>2. CASE Latest(q, i, "data") # 0
    BY <2>2 DEF PosAt
  <2> QED
    BY <2>1, <2>2
<1>2. Ordered(q, pos)
  <2> SUFFICES ASSUME NEW i \in DOMAIN q, q[i].kind = "data"
               PROVE  PosAt(q, i, pos) <= q[i].lo /\ q[i].lo <= q[i].hi
    BY DEF Ordered
  <2>1. PosAt(q, i, p) <= q[i].lo /\ q[i].lo <= q[i].hi
    BY DEF Ordered
  <2>2. q[i] \in Item /\ i \in Nat
    OBVIOUS
  <2>3. q[i].lo \in Nat
    BY <2>2, ItemPlaces
  <2> QED
    BY <1>1, <2>1, <2>2, <2>3
<1>3. EndPos(q, pos) \in Nat /\ EndPos(q, p) \in Nat
  BY EndPosIsPos
<1> QED
  BY <1>1, <1>2, <1>3 DEF EndPos

(* An item taken away and not applied.                                     *)
LEMMA SkipRun ==
  ASSUME NEW q \in Seq(Item), q # <<>>, NEW pos \in Nat, Ordered(q, pos)
  PROVE  Ordered(Tail(q), pos) /\ EndPos(Tail(q), pos) <= EndPos(q, pos)
<1> DEFINE item == Head(q)
           p    == IF item.kind = "data" THEN item.hi ELSE pos
<1>1. item \in Item /\ Tail(q) \in Seq(Item)
  OBVIOUS
<1>2. item.lo \in Nat /\ item.hi \in Nat
  BY <1>1, ItemPlaces
<1>3. /\ Ordered(Tail(q), p) /\ (item.kind = "data" => pos <= item.lo /\ item.lo <= item.hi)
      /\ EndPos(Tail(q), p) = EndPos(q, pos)
  BY LeaveRun
<1>4. p \in Nat /\ pos <= p
  BY <1>2, <1>3
<1> HIDE DEF p
<1> QED
  BY <1>1, <1>3, <1>4, LowerRun

-----------------------------------------------------------------------------
(* The invariant of the stream.                                            *)

(* The ring holds the last bytes of the stream, and the newest of them.    *)
RingOK ==
  /\ outputPos <= outputSeq
  /\ outputSeq > 0 => outputPos > 0
  /\ Len(laid) = outputSeq

(* Resize marks lie in the stream, in order.                               *)
MarksOK ==
  /\ \A i \in DOMAIN resizeMarks : resizeMarks[i].seq <= outputSeq
  /\ \A i, j \in DOMAIN resizeMarks : i <= j => resizeMarks[i].seq <= resizeMarks[j].seq

(* The size from the k-th mark on, and at the stream's start.              *)
WidthFrom(k) == IF k = 0 THEN InitSize ELSE resizeMarks[k].w

(* The marks say what every byte the ring may still hold was laid out at.  *)
MarksTell ==
  \A b \in 1..outputSeq : b > outputSeq - RingCap => laid[b] = WidthFrom(MarkAt(b - 1))

(* What the stream has sent and the emulator has not yet had: it runs from *)
(* the emulator's position and size to the stream's.                       *)
Pipeline == IF stage.at = "free" THEN vtWriteChan ELSE Append(vtWriteChan, stage.item)

PipeOK ==
  /\ emu.seq <= outputSeq
  /\ Ordered(Pipeline, emu.seq) /\ Joined(Pipeline, emu.seq)
  /\ Fits(Pipeline, emu.w) /\ Within(Pipeline, outputSeq)
  /\ \A i \in DOMAIN Pipeline : ~Pipeline[i].clear
  /\ life # "closed" => /\ EndPos(Pipeline, emu.seq) = outputSeq
                        /\ EndWidth(Pipeline, emu.w) = StreamSize

(* The invariant of the stream.                                            *)
StreamInv == TypeOK /\ RingOK /\ MarksOK /\ MarksTell /\ PipeOK

-----------------------------------------------------------------------------
(* The ring and its marks.                                                 *)

(* appendToBuffer leaves no more than the ring holds, and the new bytes.   *)
LEMMA RingHolds ==
  ASSUME NEW pos \in 0..RingCap, NEW n \in Nat \ {0}
  PROVE  /\ RingAfter(pos, n) \in 1..RingCap
         /\ RingAfter(pos, n) <= pos + n
<1>0. RingCap \in Nat /\ RingCap >= 2
  BY PtyStreamAssumption
<1>1. CASE n >= RingCap
  BY <1>0, <1>1 DEF RingAfter
<1>2. CASE ~(n >= RingCap)
  <2> DEFINE Fit(p) == (p = 0 \/ (pos - p) % Half = 0) /\ RingCap - p >= n
             S == {p \in 0..pos : Fit(p)}
  <2>1. Fit(0)
    BY <1>0, <1>2
  <2> HIDE DEF Fit
  <2>2. S \subseteq 0..pos /\ S # {} /\ pos \in Nat
    BY <1>0, <2>1
  <2>3. Max(S) \in S /\ \A y \in S : y <= Max(S)
    BY <2>2, MaxOf
  <2>4. \E p \in 0..pos : Fit(p) /\ \A q \in 0..pos : Fit(q) => q <= p
    BY <2>3
  <2>5. Shifted(pos, n) \in 0..pos /\ Fit(Shifted(pos, n))
    <3> DEFINE Best(p) == Fit(p) /\ \A q \in 0..pos : Fit(q) => q <= p
    <3>1. Shifted(pos, n) = CHOOSE p \in 0..pos : Best(p)
      BY DEF Shifted, Fit
    <3> HIDE DEF Best
    <3>2. \E p \in 0..pos : Best(p)
      BY <2>4 DEF Best
    <3>3. Shifted(pos, n) \in 0..pos /\ Best(Shifted(pos, n))
      BY <3>1, <3>2, Zenon
    <3> QED
      BY <3>3 DEF Best
  <2>6. RingCap - Shifted(pos, n) >= n
    BY <2>5 DEF Fit
  <2>7. RingAfter(pos, n) = Shifted(pos, n) + n
    BY <1>2 DEF RingAfter
  <2> QED
    BY <1>0, <2>5, <2>6, <2>7
<1> QED
  BY <1>1, <1>2

Mark == [seq : Nat, w : Sizes]

LEMMA PrunedKeeps ==
  ASSUME NEW marks \in Seq(Mark), NEW bufStart \in Int
  PROVE  \E k \in Nat :
           /\ Pruned(marks, bufStart) \in Seq(Mark)
           /\ Len(Pruned(marks, bufStart)) = Len(marks) - k
           /\ \A i \in 1..(Len(marks) - k) : Pruned(marks, bufStart)[i] = marks[k + i]
           /\ k # 0 => k + 1 \in DOMAIN marks /\ marks[k + 1].seq <= bufStart
<1> DEFINE rolled == {i \in DOMAIN marks : i > 1 /\ marks[i].seq <= bufStart}
<1>1. CASE rolled = {}
  <2>1. Pruned(marks, bufStart) = marks
    BY <1>1 DEF Pruned
  <2>2. \A i \in 1..(Len(marks) - 0) : marks[i] = marks[0 + i]
    OBVIOUS
  <2>3. Len(marks) - 0 = Len(marks) /\ 0 \in Nat
    OBVIOUS
  <2> HIDE DEF rolled
  <2> QED
    BY <2>1, <2>2, <2>3
<1>2. CASE rolled # {}
  <2>1. rolled \subseteq 0..Len(marks) /\ Len(marks) \in Nat
    OBVIOUS
  <2>2. Max(rolled) \in rolled
    BY <1>2, <2>1, MaxOf
  <2> DEFINE m == Max(rolled)
  <2>3. Pruned(marks, bufStart) = SubSeq(marks, m, Len(marks))
    BY <1>2 DEF Pruned
  <2>4. m \in DOMAIN marks /\ m > 1 /\ marks[m].seq <= bufStart
    BY <2>2
  <2> HIDE DEF rolled, m
  <2>5. /\ SubSeq(marks, m, Len(marks)) \in Seq(Mark)
        /\ Len(SubSeq(marks, m, Len(marks))) = Len(marks) - (m - 1)
        /\ \A i \in 1..(Len(marks) - (m - 1)) : SubSeq(marks, m, Len(marks))[i] = marks[(m - 1) + i]
    BY <2>4
  <2>6. m - 1 \in Nat /\ (m - 1) + 1 = m
    BY <2>4
  <2> QED
    BY <2>3, <2>4, <2>5, <2>6
<1> QED
  BY <1>1, <1>2

LEMMA MarkAtIs ==
  ASSUME resizeMarks \in Seq(Mark), NEW pos
  PROVE  /\ MarkAt(pos) \in 0..Len(resizeMarks)
         /\ MarkAt(pos) # 0 => resizeMarks[MarkAt(pos)].seq <= pos
         /\ \A i \in DOMAIN resizeMarks : resizeMarks[i].seq <= pos => i <= MarkAt(pos)
<1> DEFINE before == {i \in DOMAIN resizeMarks : resizeMarks[i].seq <= pos}
<1>1. CASE before = {}
  <2>1. MarkAt(pos) = 0
    BY <1>1 DEF MarkAt
  <2> QED
    BY <1>1, <2>1
<1>2. CASE before # {}
  <2>1. before \subseteq 0..Len(resizeMarks) /\ Len(resizeMarks) \in Nat
    OBVIOUS
  <2>2. Max(before) \in before /\ \A y \in before : y <= Max(before)
    BY <1>2, <2>1, MaxOf
  <2>3. MarkAt(pos) = Max(before)
    BY <1>2 DEF MarkAt
  <2> QED
    BY <2>2, <2>3
<1> QED
  BY <1>1, <1>2

(* The types of what a catch-up is made of.                                *)
LEMMA ItemsAreItems ==
  /\ \A lo, hi \in Nat : Chunk(lo, hi) \in Item /\ Cleared(lo, hi) \in Item
  /\ \A w \in Sizes : Resized(w) \in Item
BY DEF Chunk, Cleared, Resized, Item

LEMMA BufStartIs ==
  ASSUME TypeOK, RingOK
  PROVE  /\ BufStart \in Nat /\ BufStart <= outputSeq /\ BufStart >= outputSeq - RingCap
         /\ outputSeq > 0 => BufStart < outputSeq
         /\ \A fromSeq \in Nat : /\ ReplayStart(fromSeq) \in BufStart..outputSeq
                                 /\ ReplayStart(fromSeq) \in Nat
BY PtyStreamAssumption DEF TypeOK, RingOK, BufStart, ReplayStart

LEMMA MarkTypes ==
  ASSUME resizeMarks \in Seq(Mark), NEW i \in DOMAIN resizeMarks
  PROVE  resizeMarks[i].seq \in Nat /\ resizeMarks[i].w \in Sizes
<1>1. resizeMarks[i] \in Mark
  OBVIOUS
<1> QED
  BY <1>1 DEF Mark

(* The bytes between two cuts are at the size of the mark in front of them. *)
LEMMA BetweenMarks ==
  ASSUME resizeMarks \in Seq(Mark), MarksOK, NEW m \in 0..Len(resizeMarks), NEW pos \in Nat,
         m # 0 => resizeMarks[m].seq <= pos,
         m < Len(resizeMarks) => pos < resizeMarks[m + 1].seq
  PROVE  MarkAt(pos) = m
<1>1. /\ MarkAt(pos) \in 0..Len(resizeMarks)
      /\ MarkAt(pos) # 0 => resizeMarks[MarkAt(pos)].seq <= pos
      /\ \A i \in DOMAIN resizeMarks : resizeMarks[i].seq <= pos => i <= MarkAt(pos)
  BY MarkAtIs
<1>2. m <= MarkAt(pos)
  BY <1>1
<1>3. ASSUME MarkAt(pos) > m
      PROVE  FALSE
  <2>1. m + 1 \in DOMAIN resizeMarks /\ MarkAt(pos) \in DOMAIN resizeMarks
    BY <1>1, <1>3
  <2>2. resizeMarks[m + 1].seq <= resizeMarks[MarkAt(pos)].seq
    BY <1>1, <1>3, <2>1 DEF MarksOK
  <2>3. resizeMarks[m + 1].seq \in Nat /\ resizeMarks[MarkAt(pos)].seq \in Nat
    BY <2>1, MarkTypes
  <2> QED
    BY <1>1, <1>3, <2>1, <2>2, <2>3
<1> QED
  BY <1>1, <1>2, <1>3

(* One more item, or none.                                                 *)
LEMMA Chained ==
  ASSUME NEW S, NEW a \in Seq(S), NEW b \in Seq(S), NEW c \in Seq(S)
  PROVE  a \o (b \o c) = (a \o b) \o c
OBVIOUS

LEMMA JoinMaybe ==
  ASSUME NEW r \in Seq(Item), NEW x
  PROVE  /\ r \o <<>> = r
         /\ x \in Item => r \o <<x>> = Append(r, x)
OBVIOUS

LEMMA CatchUpRuns ==
  ASSUME TypeOK, RingOK, MarksOK, MarksTell, NEW fromSeq \in Nat
  PROVE  LET q     == CatchUp(fromSeq)
             start == IF fromSeq = 0 THEN BufStart ELSE fromSeq
         IN  /\ q \in Seq(Item) /\ Within(q, outputSeq)
             /\ fromSeq <= outputSeq =>
                  /\ Ordered(q, start) /\ Joined(q, start) /\ Fits(q, InitSize)
                  /\ EndPos(q, start) = outputSeq
<1> DEFINE start  == IF fromSeq = 0 THEN BufStart ELSE fromSeq
           rolled == fromSeq > 0 /\ fromSeq < BufStart
           from   == ReplayStart(fromSeq)
           k      == MarkAt(from)
           cuts   == Len(resizeMarks) - k
           End(i) == IF i = 0 THEN from
                     ELSE IF i <= cuts THEN resizeMarks[k + i].seq ELSE outputSeq
           Piece(i) == IF i = 1 /\ rolled THEN <<Cleared(End(0), End(1))>>
                       ELSE IF End(i - 1) = End(i) THEN <<>>
                       ELSE <<Chunk(End(i - 1), End(i))>>
           Size(i) == IF k + i = 0 THEN <<>> ELSE <<Resized(resizeMarks[k + i].w)>>
           seg == [i \in 1..(cuts + 1) |-> Size(i - 1) \o Piece(i)]
<1>1. CatchUp(fromSeq) = IF from = outputSeq THEN <<>> ELSE FlattenSeq(seg)
  BY DEF CatchUp
<1>2. /\ BufStart \in Nat /\ outputSeq \in Nat /\ from \in Nat /\ InitSize \in Sizes
      /\ BufStart <= from /\ from <= outputSeq /\ BufStart >= outputSeq - RingCap
      /\ outputSeq > 0 => BufStart < outputSeq
  <2>1. outputSeq \in Nat /\ InitSize \in Sizes
    BY PtyStreamAssumption DEF TypeOK
  <2>2. BufStart \in Nat /\ from \in BufStart..outputSeq /\ from \in Nat
    BY BufStartIs
  <2>3. BufStart >= outputSeq - RingCap /\ (outputSeq > 0 => BufStart < outputSeq)
    BY BufStartIs
  <2> HIDE DEF from
  <2> QED
    BY <2>1, <2>2, <2>3
<1>3. CASE from = outputSeq
  <2>1. CatchUp(fromSeq) = <<>>
    BY <1>1, <1>3
  <2>2. fromSeq <= outputSeq => start = outputSeq
    BY <1>2, <1>3 DEF ReplayStart
  <2> QED
    BY <2>1, <2>2, EmptyRun
<1>4. CASE from # outputSeq
  <2>1. resizeMarks \in Seq(Mark)
    BY DEF TypeOK, Mark
  <2>2. /\ k \in 0..Len(resizeMarks) /\ cuts \in Nat /\ k + cuts = Len(resizeMarks)
        /\ k # 0 => resizeMarks[k].seq <= from
        /\ \A i \in DOMAIN resizeMarks : resizeMarks[i].seq <= from => i <= k
    BY <2>1, MarkAtIs
  <2>3. start \in Nat /\ start <= from /\ (start = from \/ rolled)
        /\ (rolled => fromSeq <= outputSeq)
    BY <1>2, <1>4 DEF ReplayStart
  <2> HIDE DEF start, rolled, from, k
  <2>4. \A i \in 1..cuts : /\ k + i \in DOMAIN resizeMarks
                           /\ resizeMarks[k + i].seq \in Nat /\ resizeMarks[k + i].w \in Sizes
                           /\ resizeMarks[k + i].seq > from
                           /\ resizeMarks[k + i].seq <= outputSeq
    <3> TAKE i \in 1..cuts
    <3>1. k + i \in DOMAIN resizeMarks
      BY <2>1, <2>2
    <3>3. resizeMarks[k + i].seq \in Nat /\ resizeMarks[k + i].w \in Sizes
      BY <2>1, <3>1, MarkTypes
    <3>4. ~(resizeMarks[k + i].seq <= from)
      BY <2>2, <3>1
    <3> QED
      BY <1>2, <3>1, <3>3, <3>4 DEF MarksOK
  <2>5. ASSUME NEW i \in 1..(cuts + 1)
        PROVE  /\ End(i - 1) \in Nat /\ End(i) \in Nat
               /\ from <= End(i - 1) /\ End(i - 1) <= End(i) /\ End(i) <= outputSeq
    <3>1. End(i) \in Nat /\ from <= End(i) /\ End(i) <= outputSeq
      <4>1. from \in Nat /\ from <= outputSeq /\ outputSeq \in Nat /\ i \in Nat \ {0}
        BY <1>2, <2>2
      <4>2. CASE i <= cuts
        <5>1. i \in 1..cuts /\ End(i) = resizeMarks[k + i].seq
          BY <2>2, <4>1, <4>2
        <5> QED
          BY <2>4, <4>1, <5>1
      <4>3. CASE ~(i <= cuts)
        BY <4>1, <4>3
      <4> QED
        BY <4>2, <4>3
    <3>2. CASE i = 1
      BY <1>2, <3>1, <3>2
    <3>3. CASE i # 1
      <4>1. i - 1 \in 1..cuts /\ End(i - 1) = resizeMarks[k + (i - 1)].seq
        BY <2>2, <3>3
      <4>2. CASE i <= cuts
        <5>1. /\ End(i) = resizeMarks[k + i].seq
              /\ k + i \in DOMAIN resizeMarks /\ k + (i - 1) \in DOMAIN resizeMarks
              /\ k + (i - 1) <= k + i
          BY <2>2, <2>4, <4>1, <4>2
        <5>2. resizeMarks[k + (i - 1)].seq <= resizeMarks[k + i].seq
          BY <5>1 DEF MarksOK
        <5>3. resizeMarks[k + (i - 1)].seq \in Nat /\ resizeMarks[k + (i - 1)].seq > from
          BY <2>4, <4>1
        <5> HIDE DEF End
        <5> QED
          BY <1>2, <3>1, <4>1, <5>1, <5>2, <5>3
      <4>3. CASE ~(i <= cuts)
        <5>1. End(i) = outputSeq
          BY <2>2, <4>3
        <5>2. /\ resizeMarks[k + (i - 1)].seq \in Nat
              /\ resizeMarks[k + (i - 1)].seq > from /\ resizeMarks[k + (i - 1)].seq <= outputSeq
          BY <2>4, <4>1
        <5> HIDE DEF End
        <5> QED
          BY <1>2, <3>1, <4>1, <5>1, <5>2
      <4> QED
        BY <4>2, <4>3
    <3> QED
      BY <3>2, <3>3
  <2>6. ASSUME NEW i \in 1..(cuts + 1), NEW b \in (End(i - 1) + 1)..End(i)
        PROVE  laid[b] = WidthFrom(k + (i - 1))
    <3>1. /\ End(i - 1) \in Nat /\ End(i) \in Nat /\ from <= End(i - 1) /\ End(i) <= outputSeq
      BY <2>5
    <3>2. i # 1 => End(i - 1) = resizeMarks[k + (i - 1)].seq
      BY <2>2
    <3>3. i <= cuts => End(i) = resizeMarks[k + i].seq
      BY <2>2
    <3>4. i = 1 => End(i - 1) = from
      OBVIOUS
    <3> HIDE DEF End
    <3> DEFINE m == k + (i - 1)
    <3>5. m \in 0..Len(resizeMarks) /\ (m < Len(resizeMarks) <=> i <= cuts) /\ m + 1 = k + i
      BY <2>2
    <3>6. b - 1 \in Nat /\ End(i - 1) <= b - 1 /\ b - 1 < End(i)
      BY <3>1
    <3>7. m # 0 => resizeMarks[m].seq <= b - 1
      <4>1. CASE i = 1
        <5>1. m = k
          BY <2>2, <4>1
        <5>2. k # 0 => resizeMarks[k].seq \in Nat
          BY <2>1, <2>2, MarkTypes
        <5> QED
          BY <1>2, <2>2, <3>4, <3>6, <4>1, <5>1, <5>2
      <4>2. CASE i # 1
        BY <3>2, <3>6, <4>2
      <4> QED
        BY <4>1, <4>2
    <3>8. m < Len(resizeMarks) => b - 1 < resizeMarks[m + 1].seq
      BY <3>3, <3>5, <3>6
    <3> HIDE DEF m
    <3>9. MarkAt(b - 1) = m
      BY <2>1, <3>5, <3>6, <3>7, <3>8, BetweenMarks
    <3>10. b \in 1..outputSeq /\ b > outputSeq - RingCap
      BY <1>2, <3>1, PtyStreamAssumption
    <3> QED
      BY <3>9, <3>10 DEF MarksTell, m
  <2>7. ASSUME NEW i \in 0..cuts
        PROVE  /\ Size(i) \in Seq(Item)
               /\ k + i # 0 => /\ Resized(resizeMarks[k + i].w) \in Item
                               /\ resizeMarks[k + i].w = WidthFrom(k + i)
    <3>1. k + i # 0 => resizeMarks[k + i].w \in Sizes
      BY <2>1, <2>2, MarkTypes
    <3>2. k + i # 0 => Resized(resizeMarks[k + i].w) \in Item
      BY <3>1, ItemsAreItems
    <3> QED
      BY <3>2 DEF WidthFrom
  <2>8. ASSUME NEW i \in 1..(cuts + 1)
        PROVE  Piece(i) \in Seq(Item) /\ seg[i] \in Seq(Item)
    <3>1. Chunk(End(i - 1), End(i)) \in Item
      BY <2>5, ItemsAreItems
    <3>2. i = 1 => Cleared(End(0), End(1)) \in Item
      BY <2>5, ItemsAreItems
    <3>3. i - 1 \in 0..cuts
      BY <2>2
    <3>4. Size(i - 1) \in Seq(Item)
      BY <2>7, <3>3
    <3> HIDE DEF End, Size
    <3>5. Piece(i) \in Seq(Item)
      BY <3>1, <3>2
    <3> HIDE DEF Piece
    <3> QED
      BY <3>4, <3>5
  <2>9. seg \in [1..(cuts + 1) -> Seq(Item)] /\ cuts + 1 \in Nat \ {0}
    <3>1. seg = [i \in 1..(cuts + 1) |-> seg[i]]
      OBVIOUS
    <3> HIDE DEF seg, Size, Piece, End
    <3>2. \A i \in 1..(cuts + 1) : seg[i] \in Seq(Item)
      BY <2>8
    <3> QED
      BY <2>2, <3>1, <3>2
  <2>10. PICK F \in [0..(cuts + 1) -> Seq(Item)] :
           /\ F[0] = <<>>
           /\ \A n \in 1..(cuts + 1) : F[n] = F[n - 1] \o seg[n]
           /\ F[cuts + 1] = FlattenSeq(seg)
    <3> HIDE DEF seg
    <3> QED
      BY <2>9, FlattenSteps
  <2> DEFINE Good(n) == /\ F[n] \in Seq(Item)
                        /\ Ordered(F[n], start) /\ Joined(F[n], start)
                        /\ Fits(F[n], InitSize) /\ Within(F[n], outputSeq)
                        /\ EndPos(F[n], start) = IF n = 0 THEN start ELSE End(n)
                        /\ EndWidth(F[n], InitSize) = IF n = 0 THEN InitSize
                                                      ELSE WidthFrom(k + (n - 1))
             All == {n \in 0..(cuts + 1) : Good(n)}
  <2>11. Good(0)
    <3> HIDE DEF End
    <3> QED
      BY <2>10, EmptyRun
  <2>12. ASSUME NEW n \in 0..cuts, Good(n)
         PROVE  Good(n + 1)
    <3> DEFINE i == n + 1
               r == F[n]
               rs == r \o Size(n)
               rsp == rs \o Piece(i)
    <3>1. i \in 1..(cuts + 1) /\ i - 1 = n /\ i \in Nat /\ k + n \in Nat /\ i # 0
      BY <2>2
    <3>2. /\ r \in Seq(Item) /\ Ordered(r, start) /\ Joined(r, start)
          /\ Fits(r, InitSize) /\ Within(r, outputSeq)
          /\ EndPos(r, start) = IF n = 0 THEN start ELSE End(n)
          /\ EndWidth(r, InitSize) = IF n = 0 THEN InitSize ELSE WidthFrom(k + (n - 1))
      BY <2>12
    <3>3. Size(n) \in Seq(Item) /\ Piece(i) \in Seq(Item)
      BY <2>7, <2>8, <3>1
    <3>4. F[i] = rsp
      <4>1. seg[i] = Size(n) \o Piece(i)
        BY <3>1
      <4> HIDE DEF seg, Size, Piece, i, r
      <4>2. F[i] = r \o (Size(n) \o Piece(i))
        BY <2>10, <3>1, <4>1 DEF r
      <4>3. PICK a \in Seq(Item), b \in Seq(Item), c \in Seq(Item) :
              a = r /\ b = Size(n) /\ c = Piece(i)
        BY <3>2, <3>3
      <4>4. a \o (b \o c) = (a \o b) \o c
        BY Chained
      <4> QED
        BY <4>2, <4>3, <4>4
    <3>5. /\ End(n) \in Nat /\ End(i) \in Nat /\ from <= End(n)
          /\ End(n) <= End(i) /\ End(i) <= outputSeq
      BY <2>5, <3>1
    <3>6. \A b \in (End(n) + 1)..End(i) : laid[b] = WidthFrom(k + n)
      BY <2>6, <3>1
    <3>7. End(0) = from
      OBVIOUS
    <3> HIDE DEF r, rs, rsp
    <3>8. /\ rs \in Seq(Item) /\ Ordered(rs, start) /\ Joined(rs, start)
          /\ Fits(rs, InitSize) /\ Within(rs, outputSeq)
          /\ EndPos(rs, start) = IF n = 0 THEN start ELSE End(n)
          /\ EndWidth(rs, InitSize) = WidthFrom(k + n)
      <4>1. CASE k + n = 0
        <5>1. Size(n) = <<>> /\ n = 0
          BY <2>2, <4>1
        <5> HIDE DEF End, Size
        <5>2. rs = r
          BY <3>2, <5>1, JoinMaybe DEF rs
        <5> QED
          BY <3>2, <4>1, <5>1, <5>2 DEF WidthFrom
      <4>2. CASE k + n # 0
        <5> DEFINE x == Resized(resizeMarks[k + n].w)
        <5>1. Size(n) = <<x>>
          BY <4>2
        <5>2. x \in Item /\ x.kind = "size" /\ x.w = WidthFrom(k + n)
          BY <2>7, <4>2 DEF Resized
        <5> HIDE DEF x, End, Size
        <5>3. rs = Append(r, x)
          BY <3>2, <5>1, <5>2, JoinMaybe DEF rs
        <5> QED
          BY <3>2, <5>2, <5>3, JoinRun
      <4> QED
        BY <4>1, <4>2
    <3>9. /\ rsp \in Seq(Item) /\ Ordered(rsp, start) /\ Joined(rsp, start)
          /\ Fits(rsp, InitSize) /\ Within(rsp, outputSeq)
          /\ EndPos(rsp, start) = End(i)
          /\ EndWidth(rsp, InitSize) = WidthFrom(k + n)
      <4>1. CASE i = 1 /\ rolled
        <5> DEFINE x == Cleared(End(n), End(i))
        <5>1. n = 0 /\ Piece(i) = <<x>>
          BY <3>1, <4>1
        <5>2. /\ x \in Item /\ x.kind = "data" /\ x.lo = End(n) /\ x.hi = End(i) /\ x.clear
          BY <3>5, ItemsAreItems DEF Cleared
        <5> HIDE DEF x, End, Piece
        <5>3. rsp = Append(rs, x)
          BY <3>8, <5>1, <5>2, JoinMaybe DEF rsp
        <5>4. EndPos(rs, start) <= x.lo
          BY <1>2, <2>3, <3>8, <3>5, <5>1, <5>2
        <5>5. LaidAt(x, EndWidth(rs, InitSize))
          BY <3>8, <3>6, <5>2 DEF LaidAt
        <5> QED
          BY <3>8, <3>5, <5>2, <5>3, <5>4, <5>5, JoinRun
      <4>2. CASE ~(i = 1 /\ rolled) /\ End(n) = End(i)
        <5>1. Piece(i) = <<>>
          BY <3>1, <4>2
        <5> HIDE DEF End, Piece
        <5>2. rsp = rs
          BY <3>8, <5>1, JoinMaybe DEF rsp
        <5>3. EndPos(rs, start) = End(i)
          BY <2>3, <3>1, <3>8, <3>7, <4>2
        <5> QED
          BY <3>8, <5>2, <5>3
      <4>3. CASE ~(i = 1 /\ rolled) /\ End(n) # End(i)
        <5> DEFINE x == Chunk(End(n), End(i))
        <5>1. Piece(i) = <<x>>
          BY <3>1, <4>3
        <5>2. /\ x \in Item /\ x.kind = "data" /\ x.lo = End(n) /\ x.hi = End(i)
          BY <3>5, ItemsAreItems DEF Chunk
        <5> HIDE DEF x, End, Piece
        <5>3. rsp = Append(rs, x)
          BY <3>8, <5>1, <5>2, JoinMaybe DEF rsp
        <5>4. EndPos(rs, start) = x.lo
          BY <2>3, <3>1, <3>8, <3>7, <4>3, <5>2
        <5>5. LaidAt(x, EndWidth(rs, InitSize))
          BY <3>8, <3>6, <5>2 DEF LaidAt
        <5> QED
          BY <3>8, <3>5, <5>2, <5>3, <5>4, <5>5, JoinRun
      <4> QED
        BY <4>1, <4>2, <4>3
    <3> HIDE DEF End, i
    <3>10. Good(i)
      BY <3>1, <3>4, <3>9
    <3> QED
      BY <3>10 DEF i
  <2> HIDE DEF Good
  <2>13. 0 \in All /\ \A n \in 0..((cuts + 1) - 1) : n \in All => n + 1 \in All
    BY <2>2, <2>11, <2>12
  <2> HIDE DEF All
  <2>14. 0..(cuts + 1) \subseteq All
    BY <2>9, <2>13, UpTo
  <2>15. Good(cuts + 1)
    BY <2>9, <2>14 DEF All
  <2>16. F[cuts + 1] = CatchUp(fromSeq)
    BY <1>1, <1>4, <2>10
  <2>17. End(cuts + 1) = outputSeq /\ cuts + 1 # 0
    BY <2>2
  <2> HIDE DEF End
  <2> QED
    BY <2>15, <2>16, <2>17 DEF Good, start
<1> QED
  BY <1>3, <1>4

-----------------------------------------------------------------------------
(* Types and initial states.                                               *)

LEMMA PutGen ==
  ASSUME NEW S, NEW f \in [Clients -> [Gens -> S]], NEW c \in Clients, NEW g \in Gens, NEW e \in S
  PROVE  /\ [f EXCEPT ![c][g] = e] \in [Clients -> [Gens -> S]]
         /\ [f EXCEPT ![c][g] = e][c][g] = e
         /\ \A d \in Clients, h \in Gens : d # c \/ h # g => [f EXCEPT ![c][g] = e][d][h] = f[d][h]
OBVIOUS

LEMMA PutClient ==
  ASSUME NEW S, NEW f \in [Clients -> S], NEW c \in Clients, NEW e \in S
  PROVE  /\ [f EXCEPT ![c] = e] \in [Clients -> S]
         /\ [f EXCEPT ![c] = e][c] = e
         /\ \A d \in Clients : d # c => [f EXCEPT ![c] = e][d] = f[d]
OBVIOUS

Busy == [at : {"announced", "instream", "queued"}, arg : Sizes]
Calm == [at : {"idle", "subscribe", "subscribing", "unsubscribing"}, arg : Nat]

View == [pos : Nat, w : Sizes, primed : Nat, painted : BOOLEAN,
         dup : BOOLEAN, gap : BOOLEAN, overrun : BOOLEAN]

(* The types, in two halves: what the stream changes, and the rest.        *)
StreamTypes ==
  /\ outputSeq \in Nat /\ outputPos \in 0..RingCap
  /\ resizeMarks \in Seq(Mark)
  /\ stage \in [at : {"free", "appended", "broadcast"}, item : Item]
  /\ vtWriteChan \in Seq(Item)
  /\ emu \in [w : Sizes, seq : Nat]
  /\ life \in {"running", "eof", "closed"}
  /\ laid \in Seq(Sizes)

ClientTypes ==
  /\ size \in [announced : Sizes, tty : Sizes, resizes : Nat]
  /\ subscribers \in [Clients -> 0..MaxGen]
  /\ sent \in [Clients -> Nat]
  /\ chan \in [Clients -> [Gens -> Seq(Item)]]
  /\ streamer \in [Clients -> [Gens -> {"none", "running", "ending", "done"}]]
  /\ entry \in [Clients -> BOOLEAN]
  /\ ptyResume \in [Clients -> Nat]
  /\ handler \in [Clients -> Busy \cup Calm]
  /\ pane \in [Clients -> {"hidden", "shown", "gone"}]
  /\ view \in [Clients -> View]
  /\ handed \in [Clients -> Nat]
  /\ lost \in [Clients -> Nat]

LEMMA TypesSplit == TypeOK <=> StreamTypes /\ ClientTypes
BY DEF TypeOK, StreamTypes, ClientTypes, Mark, Busy, Calm, View

LEMMA StreamSizeIsSize ==
  ASSUME StreamTypes
  PROVE  StreamSize \in Sizes /\ StreamSize = WidthFrom(Len(resizeMarks))
<1>1. CASE resizeMarks = <<>>
  BY <1>1, PtyStreamAssumption DEF StreamSize, WidthFrom
<1>2. CASE resizeMarks # <<>>
  <2>1. resizeMarks \in Seq(Mark) /\ Len(resizeMarks) \in DOMAIN resizeMarks /\ Len(resizeMarks) # 0
    BY <1>2 DEF StreamTypes
  <2>2. StreamSize = resizeMarks[Len(resizeMarks)].w
    BY <1>2 DEF StreamSize, Last
  <2>3. resizeMarks[Len(resizeMarks)].w \in Sizes
    BY <2>1, MarkTypes
  <2> QED
    BY <2>1, <2>2, <2>3 DEF WidthFrom
<1> QED
  BY <1>1, <1>2

LEMMA StreamInit == Init => StreamInv
<1> SUFFICES ASSUME Init PROVE StreamInv
  OBVIOUS
<1>1. /\ InitSize \in Sizes /\ Sizes \subseteq Nat \ {0} /\ RingCap \in Nat /\ MaxGen \in Nat \ {0}
  BY PtyStreamAssumption
<1>2. Free \in [at : {"free", "appended", "broadcast"}, item : Item]
  BY <1>1, ItemsAreItems DEF Free
<1>3. StreamTypes
  BY <1>1, <1>2 DEF StreamTypes, Init
<1>4. ClientTypes
  <2>1. [Snapshot(0, InitSize) EXCEPT !.painted = FALSE] \in View
    BY <1>1 DEF Snapshot, View
  <2>2. view \in [Clients -> View]
    BY <2>1 DEF Init
  <2>3. handler \in [Clients -> Busy \cup Calm]
    BY DEF Init, Calm
  <2>4. chan \in [Clients -> [Gens -> Seq(Item)]]
    <3>1. [g \in Gens |-> <<>>] \in [Gens -> Seq(Item)]
      OBVIOUS
    <3> QED
      BY <3>1 DEF Init
  <2>5. streamer \in [Clients -> [Gens -> {"none", "running", "ending", "done"}]]
    BY DEF Init
  <2>6. size \in [announced : Sizes, tty : Sizes, resizes : Nat]
    BY <1>1 DEF Init
  <2>7. /\ subscribers \in [Clients -> 0..MaxGen]
        /\ sent \in [Clients -> Nat] /\ ptyResume \in [Clients -> Nat]
        /\ handed \in [Clients -> Nat] /\ lost \in [Clients -> Nat]
    BY <1>1 DEF Init
  <2>8. entry \in [Clients -> BOOLEAN] /\ pane \in [Clients -> {"hidden", "shown", "gone"}]
    BY DEF Init
  <2> QED
    BY <2>2, <2>3, <2>4, <2>5, <2>6, <2>7, <2>8 DEF ClientTypes
<1>5. RingOK /\ MarksOK /\ MarksTell
  BY DEF Init, RingOK, MarksOK, MarksTell
<1>6. PipeOK
  <2>1. Pipeline = <<>>
    BY DEF Init, Pipeline, Free
  <2>2. DOMAIN Pipeline = {}
    BY <2>1
  <2>3. StreamSize = InitSize /\ emu.w = InitSize /\ emu.seq = 0 /\ outputSeq = 0
    BY DEF Init, StreamSize
  <2> QED
    BY <2>1, <2>2, <2>3, EmptyRun DEF PipeOK
<1> QED
  BY <1>3, <1>4, <1>5, <1>6, TypesSplit DEF StreamInv

LEMMA StreamFrame ==
  ASSUME StreamInv, ClientTypes', UNCHANGED ptyVars
  PROVE  StreamInv'
<1>1. StreamTypes'
  BY TypesSplit DEF StreamInv, StreamTypes, ptyVars
<1>2. RingOK' /\ MarksOK'
  BY DEF StreamInv, RingOK, MarksOK, ptyVars
<1>3. MarksTell'
  BY DEF StreamInv, MarksTell, MarkAt, WidthFrom, ptyVars
<1>4. PipeOK'
  BY DEF StreamInv, PipeOK, Pipeline, Fits, LaidAt, StreamSize, ptyVars
<1>5. TypeOK' <=> StreamTypes' /\ ClientTypes'
  BY DEF TypeOK, StreamTypes, ClientTypes, Mark, Busy, Calm, View
<1> QED
  BY <1>1, <1>2, <1>3, <1>4, <1>5 DEF StreamInv

-----------------------------------------------------------------------------
(* The steps of the stream.                                                *)

(* A queue whose last item is taken away again is a run of its own.        *)
LEMMA ShortRun ==
  ASSUME NEW q \in Seq(Item), NEW x \in Item, NEW pos, NEW w, NEW n
  PROVE  LET r == Append(q, x)
         IN  /\ Ordered(r, pos) => Ordered(q, pos)
             /\ Joined(r, pos) => Joined(q, pos)
             /\ Fits(r, w) => Fits(q, w)
             /\ Within(r, n) => Within(q, n)
             /\ (\A i \in DOMAIN r : ~r[i].clear) => \A i \in DOMAIN q : ~q[i].clear
<1> DEFINE r == Append(q, x)
<1>1. \A i \in DOMAIN q : i \in DOMAIN r /\ r[i] = q[i] /\ i \in 1..(Len(q) + 1)
  OBVIOUS
<1>2. ASSUME NEW i \in 1..(Len(q) + 1)
      PROVE  PosAt(r, i, pos) = PosAt(q, i, pos) /\ WidthAt(r, i, w) = WidthAt(q, i, w)
  BY JoinKeeps
<1> HIDE DEF r
<1>3. Ordered(r, pos) => Ordered(q, pos)
  BY <1>1, <1>2 DEF Ordered
<1>4. Joined(r, pos) => Joined(q, pos)
  BY <1>1, <1>2 DEF Joined
<1>5. Fits(r, w) => Fits(q, w)
  BY <1>1, <1>2 DEF Fits
<1>6. Within(r, n) => Within(q, n)
  BY <1>1 DEF Within
<1>7. (\A i \in DOMAIN r : ~r[i].clear) => \A i \in DOMAIN q : ~q[i].clear
  BY <1>1
<1> QED
  BY <1>3, <1>4, <1>5, <1>6, <1>7 DEF r

(* What the emulator's channel holds is the front of the pipeline.         *)
LEMMA QueueRuns ==
  ASSUME StreamTypes, PipeOK
  PROVE  /\ Pipeline \in Seq(Item)
         /\ Ordered(vtWriteChan, emu.seq) /\ Joined(vtWriteChan, emu.seq)
         /\ Fits(vtWriteChan, emu.w) /\ Within(vtWriteChan, outputSeq)
         /\ \A i \in DOMAIN vtWriteChan : ~vtWriteChan[i].clear
<1>1. vtWriteChan \in Seq(Item) /\ stage.item \in Item
  BY DEF StreamTypes
<1>2. CASE stage.at = "free"
  <2>1. Pipeline = vtWriteChan
    BY <1>2 DEF Pipeline
  <2> QED
    BY <1>1, <2>1 DEF PipeOK
<1>3. CASE stage.at # "free"
  <2>1. Pipeline = Append(vtWriteChan, stage.item)
    BY <1>3 DEF Pipeline
  <2>2. Append(vtWriteChan, stage.item) \in Seq(Item)
    BY <1>1
  <2> QED
    BY <1>1, <2>1, <2>2, ShortRun DEF PipeOK
<1> QED
  BY <1>2, <1>3

(* An item behind a run the next state still lays out as it was read.      *)
LEMMA JoinFits ==
  ASSUME NEW q \in Seq(Item), NEW x \in Item, NEW w \in Sizes, Fits(q, w)',
         x.kind = "data" => LaidAt(x, EndWidth(q, w))'
  PROVE  Fits(Append(q, x), w)'
<1> DEFINE r == Append(q, x)
           l == Len(q) + 1
<1>1. /\ DOMAIN r = 1..l /\ r[l] = x
      /\ \A i \in 1..l : i # l => i \in DOMAIN q /\ r[i] = q[i]
      /\ l \in 1..l
  OBVIOUS
<1>2. ASSUME NEW i \in 1..l
      PROVE  WidthAt(r, i, w) = WidthAt(q, i, w)
  BY JoinKeeps
<1>3. WidthAt(r, l, w) = EndWidth(q, w)
  BY <1>1, <1>2 DEF EndWidth
<1> HIDE DEF r, l
<1>4. Fits(r, w)'
  BY <1>1, <1>2, <1>3 DEF Fits, LaidAt
<1> QED
  BY <1>4 DEF r

(* Bytes that stay where they are keep a run laid out as it was read.      *)
LEMMA StillFits ==
  ASSUME NEW q \in Seq(Item), NEW w, NEW n \in Nat, Fits(q, w), Within(q, n),
         \A b \in 1..n : laid'[b] = laid[b]
  PROVE  Fits(q, w)'
<1>1. ASSUME NEW i \in DOMAIN q, q[i].kind = "data"
      PROVE  LaidAt(q[i], WidthAt(q, i, w))'
  <2>1. LaidAt(q[i], WidthAt(q, i, w)) /\ q[i].hi <= n /\ q[i] \in Item
    BY <1>1 DEF Fits, Within
  <2>2. q[i].lo \in Nat /\ q[i].hi \in Nat
    BY <2>1, ItemPlaces
  <2>3. (q[i].lo + 1)..q[i].hi \subseteq 1..n
    BY <2>1, <2>2
  <2> QED
    BY <2>1, <2>3 DEF LaidAt
<1> QED
  BY <1>1 DEF Fits

LEMMA WithinMore ==
  ASSUME NEW q \in Seq(Item), NEW n \in Nat, NEW m \in Nat, Within(q, n), n <= m
  PROVE  Within(q, m)
<1> SUFFICES ASSUME NEW i \in DOMAIN q, q[i].kind = "data" PROVE q[i].hi <= m
  BY DEF Within
<1>1. q[i].hi <= n /\ q[i] \in Item
  BY DEF Within
<1>2. q[i].hi \in Nat
  BY <1>1, ItemPlaces
<1> QED
  BY <1>1, <1>2

(* An item joins the pipeline.                                             *)
LEMMA PipeJoins ==
  ASSUME StreamTypes, PipeOK, stage.at = "free", life # "closed", NEW x \in Item,
         NEW n \in Nat, outputSeq <= n, outputSeq' = n,
         \A b \in 1..outputSeq : laid'[b] = laid[b],
         x.kind = "data" => /\ x.lo = outputSeq /\ x.hi = n /\ ~x.clear
                            /\ \A b \in (outputSeq + 1)..n : laid'[b] = StreamSize,
         x.kind # "data" => n = outputSeq /\ ~x.clear,
         stage' = [at |-> "appended", item |-> x],
         StreamSize' = IF x.kind = "size" THEN x.w ELSE StreamSize,
         UNCHANGED <<vtWriteChan, emu, life>>
  PROVE  PipeOK'
<1> PICK q, w, p, s : q = vtWriteChan /\ w = emu.w /\ p = emu.seq /\ s = outputSeq
  OBVIOUS
<1> DEFINE r == Append(q, x)
<1>1. Pipeline = q /\ Pipeline' = r
  BY DEF Pipeline
<1>2. /\ q \in Seq(Item) /\ p \in Nat /\ w \in Sizes /\ p <= s /\ s \in Nat
      /\ Ordered(q, p) /\ Joined(q, p) /\ Fits(q, w) /\ Within(q, s)
      /\ \A i \in DOMAIN q : ~q[i].clear
      /\ EndPos(q, p) = s /\ EndWidth(q, w) = StreamSize
  BY <1>1 DEF PipeOK, StreamTypes
<1>3. Within(q, n)
  BY <1>2, WithinMore
<1>4. x.kind = "data" => EndPos(q, p) <= x.lo /\ x.lo <= x.hi /\ x.hi <= n /\ x.lo = EndPos(q, p)
  BY <1>2
<1>5. /\ Ordered(r, p) /\ Joined(r, p) /\ Within(r, n)
      /\ EndPos(r, p) = IF x.kind = "data" THEN x.hi ELSE s
      /\ EndWidth(r, w) = IF x.kind = "size" THEN x.w ELSE StreamSize
  BY <1>2, <1>3, <1>4, JoinRun
<1>6. Fits(r, w)'
  <2>1. Fits(q, w)'
    BY <1>2, StillFits
  <2>2. x.kind = "data" => LaidAt(x, EndWidth(q, w))'
    BY <1>2 DEF LaidAt
  <2> QED
    BY <1>2, <2>1, <2>2, JoinFits
<1>7. \A i \in DOMAIN r : ~r[i].clear
  <2>1. \A i \in DOMAIN r : r[i] = x \/ (i \in DOMAIN q /\ r[i] = q[i])
    BY <1>2
  <2> QED
    BY <1>2, <2>1
<1> HIDE DEF r
<1>8. EndPos(r, p) = n
  BY <1>5
<1>9. /\ p <= n /\ emu'.seq = p /\ emu'.w = w
  BY <1>2
<1> QED
  BY <1>1, <1>5, <1>6, <1>7, <1>8, <1>9 DEF PipeOK, Fits, LaidAt

(* readOutput: the new bytes join the stream at the size of its newest     *)
(* mark, and the ring forgets no mark that still says what it holds.       *)
LEMMA AppendStep ==
  ASSUME StreamInv, NEW n \in 1..MaxChunk, AppendToBuffer(n)
  PROVE  StreamInv'
<1> DEFINE item == Chunk(outputSeq, outputSeq + n)
           seen == outputSeq + n - RingCap
<1>0. /\ StreamTypes /\ ClientTypes /\ RingOK /\ MarksOK /\ MarksTell /\ PipeOK
      /\ n \in Nat \ {0} /\ RingCap \in Nat
  BY PtyStreamAssumption, TypesSplit DEF StreamInv
<1>1. /\ life = "running" /\ stage.at = "free"
      /\ outputSeq' = outputSeq + n
      /\ outputPos' = RingAfter(outputPos, n)
      /\ resizeMarks' = Pruned(resizeMarks, seen)
      /\ laid' = laid \o [i \in 1..n |-> StreamSize]
      /\ stage' = [at |-> "appended", item |-> item]
      /\ UNCHANGED <<vtWriteChan, emu, life, size, subVars, connVars>>
  BY DEF AppendToBuffer
<1>2. /\ outputSeq \in Nat /\ outputPos \in 0..RingCap /\ resizeMarks \in Seq(Mark)
      /\ vtWriteChan \in Seq(Item) /\ emu \in [w : Sizes, seq : Nat] /\ laid \in Seq(Sizes)
      /\ Len(laid) = outputSeq
  BY <1>0 DEF StreamTypes, RingOK
<1>3. item \in Item /\ item.kind = "data" /\ item.lo = outputSeq /\ item.hi = outputSeq + n
      /\ item.clear = FALSE
  BY <1>0, <1>2, ItemsAreItems DEF Chunk
<1> HIDE DEF item
<1>4. StreamSize \in Sizes /\ StreamSize = WidthFrom(Len(resizeMarks))
  BY <1>0, StreamSizeIsSize
<1>5. /\ laid' \in Seq(Sizes) /\ Len(laid') = outputSeq + n
      /\ \A b \in 1..outputSeq : laid'[b] = laid[b]
      /\ \A b \in (outputSeq + 1)..(outputSeq + n) : laid'[b] = StreamSize
  <2> DEFINE w == StreamSize
             more == [i \in 1..n |-> w]
  <2>1. more \in Seq(Sizes) /\ Len(more) = n /\ \A i \in 1..n : more[i] = w
    BY <1>0, <1>4
  <2>2. laid' = laid \o more
    BY <1>1
  <2> HIDE DEF more, w
  <2>3. laid' \in Seq(Sizes) /\ Len(laid') = outputSeq + n
    <3>1. \A u, v \in Seq(Sizes) : u \o v \in Seq(Sizes) /\ Len(u \o v) = Len(u) + Len(v)
      OBVIOUS
    <3> QED
      BY <1>2, <2>1, <2>2, <3>1
  <2>4. \A b \in 1..(outputSeq + n) :
          laid'[b] = IF b <= outputSeq THEN laid[b] ELSE more[b - outputSeq]
    BY <1>2, <2>1, <2>2
  <2>5. \A b \in 1..outputSeq : laid'[b] = laid[b]
    BY <1>0, <1>2, <2>4
  <2>6. ASSUME NEW b \in (outputSeq + 1)..(outputSeq + n)
        PROVE  laid'[b] = w
    <3>1. b - outputSeq \in 1..n /\ b \in 1..(outputSeq + n) /\ ~(b <= outputSeq)
      BY <1>0, <1>2
    <3> QED
      BY <2>1, <2>4, <3>1
  <2> QED
    BY <2>3, <2>5, <2>6 DEF w
<1>6. PICK k \in Nat :
        /\ resizeMarks' \in Seq(Mark)
        /\ Len(resizeMarks') = Len(resizeMarks) - k
        /\ \A i \in 1..(Len(resizeMarks) - k) : resizeMarks'[i] = resizeMarks[k + i]
        /\ k # 0 => k + 1 \in DOMAIN resizeMarks /\ resizeMarks[k + 1].seq <= seen
  <2>1. seen \in Int
    BY <1>0, <1>2
  <2> HIDE DEF seen
  <2> QED
    BY <1>1, <1>2, <2>1, PrunedKeeps
<1>7. outputPos' \in 1..RingCap /\ outputPos' <= outputPos + n
  BY <1>0, <1>1, <1>2, RingHolds
<1>8. StreamTypes' /\ ClientTypes'
  <2>1. stage' \in [at : {"free", "appended", "broadcast"}, item : Item]
    BY <1>1, <1>3
  <2>2. ClientTypes'
    BY <1>0, <1>1 DEF ClientTypes, subVars, connVars
  <2>3. outputSeq' \in Nat /\ outputPos' \in 0..RingCap
    BY <1>0, <1>1, <1>2, <1>7
  <2>4. UNCHANGED <<vtWriteChan, emu, life>>
    BY <1>1
  <2> QED
    BY <1>0, <1>5, <1>6, <2>1, <2>2, <2>3, <2>4 DEF StreamTypes
<1>9. RingOK'
  BY <1>0, <1>1, <1>2, <1>5, <1>7 DEF RingOK
<1>10. /\ \A i \in DOMAIN resizeMarks : resizeMarks[i].seq \in Nat
       /\ \A i \in DOMAIN resizeMarks' : k + i \in DOMAIN resizeMarks
                                         /\ resizeMarks'[i] = resizeMarks[k + i]
  <2>1. \A i \in DOMAIN resizeMarks : resizeMarks[i].seq \in Nat
    BY <1>2, MarkTypes
  <2>2. DOMAIN resizeMarks' = 1..(Len(resizeMarks) - k) /\ Len(resizeMarks) \in Nat
        /\ DOMAIN resizeMarks = 1..Len(resizeMarks)
    BY <1>2, <1>6
  <2>3. \A i \in DOMAIN resizeMarks' : k + i \in DOMAIN resizeMarks
    BY <1>6, <2>2
  <2>4. \A i \in DOMAIN resizeMarks' : resizeMarks'[i] = resizeMarks[k + i]
    BY <1>6, <2>2
  <2> QED
    BY <2>1, <2>3, <2>4
<1>11. MarksOK'
  <2>1. \A i \in DOMAIN resizeMarks' : resizeMarks'[i].seq <= outputSeq'
    BY <1>0, <1>1, <1>2, <1>10 DEF MarksOK
  <2>2. ASSUME NEW i \in DOMAIN resizeMarks', NEW j \in DOMAIN resizeMarks', i <= j
        PROVE  resizeMarks'[i].seq <= resizeMarks'[j].seq
    <3>1. i \in Nat /\ j \in Nat /\ k + i <= k + j
      BY <1>6, <2>2
    <3> QED
      BY <1>0, <1>10, <3>1 DEF MarksOK
  <2> QED
    BY <2>1, <2>2 DEF MarksOK
<1>12. MarksTell'
  <2> SUFFICES ASSUME NEW b \in 1..outputSeq', b > outputSeq' - RingCap
               PROVE  laid'[b] = WidthFrom(MarkAt(b - 1))'
    BY DEF MarksTell
  <2>0. b \in 1..(outputSeq + n) /\ b > seen
    BY <1>0, <1>1, <1>2
  <2>1. b \in Nat /\ b - 1 \in Nat /\ seen \in Int
    BY <1>0, <1>2, <2>0
  <2> HIDE DEF seen
  <2> DEFINE m == MarkAt(b - 1)
  <2>2. /\ m \in 0..Len(resizeMarks)
        /\ m # 0 => resizeMarks[m].seq <= b - 1
        /\ \A i \in DOMAIN resizeMarks : resizeMarks[i].seq <= b - 1 => i <= m
    BY <1>2, MarkAtIs
  <2>3. laid'[b] = WidthFrom(m)
    <3>1. CASE b <= outputSeq
      BY <1>0, <1>2, <1>5, <2>0, <2>1, <3>1 DEF MarksTell, seen
    <3>2. CASE b > outputSeq
      <4>1. laid'[b] = StreamSize
        BY <1>2, <1>5, <2>0, <2>1, <3>2
      <4>2. \A i \in DOMAIN resizeMarks : resizeMarks[i].seq <= b - 1
        BY <1>0, <1>2, <1>10, <2>1, <3>2 DEF MarksOK
      <4> HIDE DEF m
      <4>3. /\ Len(resizeMarks) \in Nat
            /\ Len(resizeMarks) # 0 => Len(resizeMarks) \in DOMAIN resizeMarks
        BY <1>2
      <4>4. m = Len(resizeMarks)
        BY <2>2, <4>2, <4>3
      <4> QED
        BY <1>4, <4>1, <4>4
    <3> QED
      BY <1>2, <2>1, <3>1, <3>2
  <2> HIDE DEF m
  <2>4. CASE k = 0
    <3>1. resizeMarks' = resizeMarks
      BY <1>2, <1>6, <2>4
    <3> QED
      BY <2>3, <3>1 DEF MarkAt, WidthFrom, m
  <2>5. CASE k # 0
    <3> DEFINE before == {i \in DOMAIN resizeMarks' : resizeMarks'[i].seq <= b - 1}
               l == m - k
    <3>1. k + 1 \in DOMAIN resizeMarks /\ resizeMarks[k + 1].seq <= b - 1
      BY <1>6, <1>10, <2>0, <2>1, <2>5
    <3>2. m >= k + 1
      BY <2>2, <3>1
    <3>3. /\ l \in 1..Len(resizeMarks') /\ k + l = m /\ l # 0
          /\ DOMAIN resizeMarks' = 1..Len(resizeMarks')
      BY <1>2, <1>6, <2>2, <3>2
    <3>4. resizeMarks'[l] = resizeMarks[m]
      BY <1>10, <3>3
    <3>5. l \in before
      BY <2>2, <3>2, <3>3, <3>4
    <3>6. \A i \in before : i <= l
      BY <1>10, <2>2, <3>3
    <3>7. before \subseteq 0..Len(resizeMarks') /\ Len(resizeMarks') \in Nat
      BY <1>6
    <3>8. Max(before) \in before /\ \A y \in before : y <= Max(before)
      BY <3>5, <3>7, MaxOf
    <3>9. before # {} /\ MarkAt(b - 1)' = Max(before)
      BY <3>5 DEF MarkAt
    <3> HIDE DEF before, l
    <3>10. Max(before) = l
      <4>1. Max(before) \in Nat
        <5>1. Max(before) \in 0..Len(resizeMarks')
          BY <3>7, <3>8
        <5> QED
          BY <5>1
      <4>2. l \in Nat
        BY <3>3, <3>7
      <4>3. Max(before) <= l /\ l <= Max(before)
        BY <3>5, <3>6, <3>8
      <4> QED
        BY <4>1, <4>2, <4>3
    <3>11. WidthFrom(MarkAt(b - 1))' = resizeMarks'[l].w
      BY <3>3, <3>9, <3>10 DEF WidthFrom
    <3>12. m # 0
      BY <2>2, <3>2
    <3> QED
      BY <2>3, <3>4, <3>11, <3>12 DEF WidthFrom
  <2> QED
    BY <2>4, <2>5
<1>13. StreamSize' = StreamSize
  <2>1. CASE resizeMarks = <<>>
    <3>1. Len(resizeMarks) = 0 /\ Len(resizeMarks') \in Nat
      BY <1>6, <2>1
    <3>2. resizeMarks' = <<>>
      BY <1>6, <3>1
    <3> QED
      BY <2>1, <3>2 DEF StreamSize
  <2>2. CASE resizeMarks # <<>>
    <3> DEFINE l == Len(resizeMarks) - k
    <3>1. Len(resizeMarks) \in Nat \ {0} /\ (k # 0 => k + 1 <= Len(resizeMarks))
      BY <1>2, <1>6, <2>2
    <3>2. /\ l \in 1..(Len(resizeMarks) - k) /\ k + l = Len(resizeMarks)
          /\ Len(resizeMarks') = l /\ l # 0
      BY <1>6, <3>1
    <3> HIDE DEF l
    <3>3. resizeMarks'[l] = resizeMarks[Len(resizeMarks)]
      BY <1>6, <3>2
    <3>4. resizeMarks' # <<>>
      BY <3>2
    <3> QED
      BY <2>2, <3>2, <3>3, <3>4 DEF StreamSize, Last
  <2> QED
    BY <2>1, <2>2
<1>14. PipeOK'
  <2>1. item.kind # "size"
    BY <1>3
  <2>2. outputSeq + n \in Nat /\ outputSeq <= outputSeq + n
    BY <1>0, <1>2
  <2> QED
    BY <1>0, <1>1, <1>3, <1>5, <1>13, <2>1, <2>2, PipeJoins
<1> QED
  <2>1. TypeOK'
    BY <1>8 DEF TypeOK, StreamTypes, ClientTypes, Mark, Busy, Calm, View
  <2> QED
    BY <1>9, <1>11, <1>12, <1>14, <2>1 DEF StreamInv

(* Resize: the mark stands at the stream's end, behind every byte there is. *)
LEMMA ResizeStep ==
  ASSUME StreamInv, NEW c \in Clients, MarkResize(c)
  PROVE  StreamInv'
<1>0. /\ StreamTypes /\ ClientTypes /\ RingOK /\ MarksOK /\ MarksTell /\ PipeOK
  BY TypesSplit DEF StreamInv
<1>1. /\ handler \in [Clients -> Busy \cup Calm] /\ handler[c].at = "announced"
      /\ UNCHANGED <<outputSeq, outputPos, vtWriteChan, emu, life, laid, size, subVars,
                     entry, ptyResume, pane, view>>
  BY <1>0 DEF MarkResize, ClientTypes
<1>2. handler[c].arg \in Sizes /\ handler[c] \in Busy
  BY <1>1 DEF Busy, Calm
<1>3. ASSUME NEW a \in {"instream", "queued"}, handler' = [handler EXCEPT ![c].at = a]
      PROVE  ClientTypes'
  <2>1. [handler[c] EXCEPT !.at = a] \in Busy
    BY <1>2 DEF Busy
  <2>2. handler' \in [Clients -> Busy \cup Calm]
    BY <1>1, <1>3, <2>1
  <2> QED
    BY <1>0, <1>1, <2>2 DEF ClientTypes, subVars
<1>4. CASE life # "running"
  <2>1. ClientTypes'
    BY <1>3, <1>4 DEF MarkResize
  <2>2. UNCHANGED ptyVars
    BY <1>1, <1>4 DEF MarkResize, ptyVars
  <2> QED
    BY <2>1, <2>2, StreamFrame
<1>5. CASE life = "running"
  <2> DEFINE mark == [seq |-> outputSeq, w |-> handler[c].arg]
             item == Resized(handler[c].arg)
  <2>1. /\ stage.at = "free"
        /\ resizeMarks' = Append(resizeMarks, mark)
        /\ stage' = [at |-> "appended", item |-> item]
        /\ handler' = [handler EXCEPT ![c].at = "instream"]
    BY <1>5 DEF MarkResize
  <2>2. /\ outputSeq \in Nat /\ resizeMarks \in Seq(Mark) /\ Len(resizeMarks) \in Nat
        /\ RingCap \in Nat
    BY <1>0, PtyStreamAssumption DEF StreamTypes
  <2>3. /\ item \in Item /\ item.kind = "size" /\ item.w = handler[c].arg /\ item.clear = FALSE
    BY <1>2, ItemsAreItems DEF Resized
  <2>4. mark \in Mark /\ mark.seq = outputSeq /\ mark.w = handler[c].arg
    BY <1>2, <2>2 DEF Mark
  <2> HIDE DEF item, mark
  <2>5. /\ resizeMarks' \in Seq(Mark) /\ resizeMarks' # <<>>
        /\ DOMAIN resizeMarks' = 1..(Len(resizeMarks) + 1)
        /\ Len(resizeMarks') = Len(resizeMarks) + 1
        /\ \A i \in DOMAIN resizeMarks : resizeMarks'[i] = resizeMarks[i]
        /\ resizeMarks'[Len(resizeMarks) + 1] = mark
    BY <2>1, <2>2, <2>4
  <2>6. StreamTypes' /\ ClientTypes'
    <3>1. stage' \in [at : {"free", "appended", "broadcast"}, item : Item]
      BY <2>1, <2>3
    <3>2. ClientTypes'
      BY <1>3, <2>1
    <3> QED
      BY <1>0, <1>1, <2>5, <3>1, <3>2 DEF StreamTypes
  <2>7. RingOK'
    BY <1>0, <1>1 DEF RingOK
  <2>8. \A i \in DOMAIN resizeMarks' :
          \/ i \in DOMAIN resizeMarks /\ resizeMarks'[i] = resizeMarks[i] /\ i <= Len(resizeMarks)
          \/ i = Len(resizeMarks) + 1 /\ resizeMarks'[i].seq = outputSeq
    BY <2>2, <2>4, <2>5
  <2>9. MarksOK'
    <3>1. \A i \in DOMAIN resizeMarks' : resizeMarks'[i].seq <= outputSeq'
      BY <1>0, <1>1, <2>2, <2>8 DEF MarksOK
    <3>2. ASSUME NEW i \in DOMAIN resizeMarks', NEW j \in DOMAIN resizeMarks', i <= j
          PROVE  resizeMarks'[i].seq <= resizeMarks'[j].seq
      <4>1. CASE j = Len(resizeMarks) + 1
        BY <1>1, <2>2, <2>8, <3>1, <4>1
      <4>2. CASE j # Len(resizeMarks) + 1
        <5>1. j \in DOMAIN resizeMarks /\ j <= Len(resizeMarks) /\ resizeMarks'[j] = resizeMarks[j]
          BY <2>8, <4>2
        <5>2. i \in DOMAIN resizeMarks /\ resizeMarks'[i] = resizeMarks[i]
          BY <2>2, <2>8, <3>2, <5>1
        <5> QED
          BY <1>0, <3>2, <5>1, <5>2 DEF MarksOK
      <4> QED
        BY <4>1, <4>2
    <3> QED
      BY <3>1, <3>2 DEF MarksOK
  <2>10. MarksTell'
    <3> SUFFICES ASSUME NEW b \in 1..outputSeq, b > outputSeq - RingCap
                 PROVE  laid[b] = WidthFrom(MarkAt(b - 1))'
      BY <1>1 DEF MarksTell
    <3> DEFINE m == MarkAt(b - 1)
    <3>1. m \in 0..Len(resizeMarks) /\ laid[b] = WidthFrom(m)
      BY <1>0, <2>2, MarkAtIs DEF MarksTell
    <3>2. {i \in DOMAIN resizeMarks' : resizeMarks'[i].seq <= b - 1}
            = {i \in DOMAIN resizeMarks : resizeMarks[i].seq <= b - 1}
      <4>1. ~(outputSeq <= b - 1)
        BY <2>2
      <4>2. \A i \in DOMAIN resizeMarks :
              i \in DOMAIN resizeMarks' /\ resizeMarks'[i] = resizeMarks[i]
        BY <2>2, <2>5
      <4> QED
        BY <2>8, <4>1, <4>2
    <3>3. MarkAt(b - 1)' = m
      BY <3>2, Zenon DEF MarkAt
    <3> HIDE DEF m
    <3>4. m # 0 => m \in DOMAIN resizeMarks
      BY <2>2, <3>1
    <3> QED
      BY <2>5, <3>1, <3>3, <3>4 DEF WidthFrom
  <2>11. PipeOK'
    <3>1. StreamSize' = handler[c].arg
      BY <2>4, <2>5 DEF StreamSize, Last
    <3>2. StreamSize' = IF item.kind = "size" THEN item.w ELSE StreamSize
      BY <2>3, <3>1
    <3>3. item.kind # "data" /\ ~item.clear
      BY <2>3
    <3> QED
      BY <1>0, <1>1, <1>5, <2>1, <2>2, <2>3, <3>2, <3>3, PipeJoins
  <2>12. TypeOK'
    BY <2>6 DEF TypeOK, StreamTypes, ClientTypes, Mark, Busy, Calm, View
  <2> QED
    BY <2>7, <2>9, <2>10, <2>11, <2>12 DEF StreamInv
<1> QED
  BY <1>4, <1>5

(* The steps behind the ring move items along the pipeline.                *)
LEMMA PipeFrame ==
  ASSUME StreamInv, UNCHANGED <<outputSeq, outputPos, resizeMarks, laid>>,
         StreamTypes', ClientTypes', PipeOK'
  PROVE  StreamInv'
<1>1. RingOK' /\ MarksOK'
  BY DEF StreamInv, RingOK, MarksOK
<1>2. MarksTell'
  BY DEF StreamInv, MarksTell, MarkAt, WidthFrom
<1>3. TypeOK'
  BY DEF TypeOK, StreamTypes, ClientTypes, Mark, Busy, Calm, View
<1> QED
  BY <1>1, <1>2, <1>3 DEF StreamInv

LEMMA BroadcastStep ==
  ASSUME StreamInv, Broadcast
  PROVE  StreamInv'
<1> DEFINE item == stage.item
           to   == Receivers(item)
           took == {c \in to : Len(chan[c][subscribers[c]]) < SubCap}
           Put(c) == [chan[c] EXCEPT ![subscribers[c]] = Append(@, item)]
<1>0. StreamTypes /\ ClientTypes /\ PipeOK
  BY TypesSplit DEF StreamInv
<1>1. /\ stage.at = "appended"
      /\ stage' = [stage EXCEPT !.at = "broadcast"]
      /\ chan' = [c \in Clients |-> IF c \in took THEN Put(c) ELSE chan[c]]
      /\ sent' = [c \in Clients |-> IF c \in took THEN StampOf(item) ELSE sent[c]]
      /\ handed' = [c \in Clients |-> IF c \in took /\ item.kind = "data" THEN item.hi
                                      ELSE handed[c]]
      /\ lost' = [c \in Clients |->
           IF lost[c] = 0 /\ c \in to \ took /\ item.kind = "data" THEN item.lo + 1 ELSE lost[c]]
      /\ UNCHANGED <<outputSeq, outputPos, resizeMarks, vtWriteChan, emu, life, laid, size,
                     subscribers, streamer, connVars>>
  BY DEF Broadcast
<1>2. /\ stage \in [at : {"free", "appended", "broadcast"}, item : Item] /\ item \in Item
  BY <1>0 DEF StreamTypes
<1>3. item.lo \in Nat /\ item.hi \in Nat
  BY <1>2, ItemPlaces
<1> HIDE DEF item
<1>4. StampOf(item) \in Nat
  BY <1>3 DEF StampOf
<1>5. ASSUME NEW c \in Clients
      PROVE  Put(c) \in [Gens -> Seq(Item)]
  <2>1. chan[c] \in [Gens -> Seq(Item)]
    BY <1>0 DEF ClientTypes
  <2>2. \A g \in Gens : Append(chan[c][g], item) \in Seq(Item)
    BY <1>2, <2>1 DEF item
  <2> QED
    BY <2>1, <2>2
<1>6. ClientTypes'
  <2> HIDE DEF took, Put, to
  <2>1. chan' \in [Clients -> [Gens -> Seq(Item)]]
    BY <1>0, <1>1, <1>5 DEF ClientTypes
  <2>2. sent' \in [Clients -> Nat]
    BY <1>0, <1>1, <1>4 DEF ClientTypes
  <2>3. handed' \in [Clients -> Nat]
    BY <1>0, <1>1, <1>3 DEF ClientTypes
  <2>4. lost' \in [Clients -> Nat]
    BY <1>0, <1>1, <1>3 DEF ClientTypes
  <2> QED
    BY <1>0, <1>1, <2>1, <2>2, <2>3, <2>4 DEF ClientTypes, connVars
<1>7. stage'.at = "broadcast" /\ stage'.item = stage.item
      /\ stage' \in [at : {"free", "appended", "broadcast"}, item : Item]
  BY <1>1, <1>2
<1>8. StreamTypes'
  BY <1>0, <1>1, <1>7 DEF StreamTypes
<1>9. Pipeline' = Pipeline
  BY <1>1, <1>7 DEF Pipeline
<1>10. PipeOK'
  BY <1>0, <1>1, <1>9 DEF PipeOK, Fits, LaidAt, StreamSize
<1> QED
  BY <1>1, <1>6, <1>8, <1>10, PipeFrame

LEMMA QueueStep ==
  ASSUME StreamInv, QueueForEmulator
  PROVE  StreamInv'
<1>0. StreamTypes /\ ClientTypes /\ PipeOK
  BY TypesSplit DEF StreamInv
<1>1. /\ stage.at = "broadcast"
      /\ \/ vtWriteChan' = Append(vtWriteChan, stage.item)
         \/ life = "closed" /\ UNCHANGED vtWriteChan
      /\ stage' = Free
      /\ handler' = [c \in Clients |-> IF handler[c].at = "instream"
                                       THEN [handler[c] EXCEPT !.at = "queued"] ELSE handler[c]]
      /\ UNCHANGED <<outputSeq, outputPos, resizeMarks, emu, life, laid, size, subVars,
                     entry, ptyResume, pane, view>>
  BY DEF QueueForEmulator
<1>2. ClientTypes'
  <2>1. ASSUME NEW c \in Clients, handler[c].at = "instream"
        PROVE  [handler[c] EXCEPT !.at = "queued"] \in Busy
    <3>1. handler[c] \in Busy \cup Calm
      BY <1>0 DEF ClientTypes
    <3>2. handler[c] \in Busy
      BY <2>1, <3>1 DEF Calm
    <3> QED
      BY <3>2 DEF Busy
  <2>2. handler' \in [Clients -> Busy \cup Calm]
    BY <1>0, <1>1, <2>1 DEF ClientTypes
  <2> QED
    BY <1>0, <1>1, <2>2 DEF ClientTypes, subVars
<1>3. vtWriteChan \in Seq(Item) /\ stage.item \in Item
  BY <1>0 DEF StreamTypes
<1>4. stage'.at = "free" /\ stage' \in [at : {"free", "appended", "broadcast"}, item : Item]
  BY <1>1, PtyStreamAssumption, ItemsAreItems DEF Free
<1>5. vtWriteChan' \in Seq(Item)
  BY <1>1, <1>3
<1>6. StreamTypes'
  BY <1>0, <1>1, <1>4, <1>5 DEF StreamTypes
<1>7. PipeOK'
  <2>1. Pipeline' = vtWriteChan' /\ Pipeline = Append(vtWriteChan, stage.item)
    BY <1>1, <1>4 DEF Pipeline
  <2>2. CASE vtWriteChan' = Append(vtWriteChan, stage.item)
    <3>1. Pipeline' = Pipeline
      BY <2>1, <2>2
    <3> QED
      BY <1>0, <1>1, <3>1 DEF PipeOK, Fits, LaidAt, StreamSize
  <2>3. CASE life = "closed" /\ UNCHANGED vtWriteChan
    <3>1. Pipeline' = vtWriteChan
      BY <2>1, <2>3
    <3>2. /\ Ordered(vtWriteChan, emu.seq) /\ Joined(vtWriteChan, emu.seq)
          /\ Fits(vtWriteChan, emu.w) /\ Within(vtWriteChan, outputSeq)
          /\ \A i \in DOMAIN vtWriteChan : ~vtWriteChan[i].clear
      BY <1>0, QueueRuns
    <3> QED
      BY <1>0, <1>1, <2>3, <3>1, <3>2 DEF PipeOK, Fits, LaidAt
  <2> QED
    BY <1>1, <2>2, <2>3
<1> QED
  BY <1>1, <1>2, <1>6, <1>7, PipeFrame

LEMMA VtWriteStep ==
  ASSUME StreamInv, VtWrite
  PROVE  StreamInv'
<1> DEFINE item == Head(vtWriteChan)
<1>0. StreamTypes /\ ClientTypes /\ PipeOK
  BY TypesSplit DEF StreamInv
<1>1. /\ vtWriteChan # <<>>
      /\ vtWriteChan' = Tail(vtWriteChan)
      /\ emu' = IF item.kind = "size" THEN [emu EXCEPT !.w = item.w]
                ELSE [emu EXCEPT !.seq = item.hi]
      /\ UNCHANGED <<outputSeq, outputPos, resizeMarks, stage, life, laid, size, subVars, connVars>>
  BY DEF VtWrite
<1>2. /\ vtWriteChan \in Seq(Item) /\ stage.item \in Item /\ emu \in [w : Sizes, seq : Nat]
      /\ Pipeline \in Seq(Item)
  BY <1>0, QueueRuns DEF StreamTypes
<1>3. /\ Pipeline # <<>> /\ Head(Pipeline) = item /\ Pipeline' = Tail(Pipeline)
      /\ item \in Item
  <2>1. CASE stage.at = "free"
    BY <1>1, <1>2, <2>1 DEF Pipeline
  <2>2. CASE stage.at # "free"
    <3>1. /\ Append(vtWriteChan, stage.item) # <<>>
          /\ Head(Append(vtWriteChan, stage.item)) = item
          /\ Tail(Append(vtWriteChan, stage.item)) = Append(Tail(vtWriteChan), stage.item)
      BY <1>1, <1>2
    <3> QED
      BY <1>1, <1>2, <2>2, <3>1 DEF Pipeline
  <2> QED
    BY <2>1, <2>2
<1>4. /\ item.lo \in Nat /\ item.hi \in Nat /\ item.kind \in {"data", "size"}
      /\ item.kind = "size" => item.w \in Sizes
  BY <1>3, ItemPlaces
<1> HIDE DEF item
<1>5. ClientTypes'
  BY <1>0, <1>1 DEF ClientTypes, subVars, connVars
<1>6. /\ emu' \in [w : Sizes, seq : Nat]
      /\ emu'.seq = IF item.kind = "data" THEN item.hi ELSE emu.seq
      /\ emu'.w = IF item.kind = "size" THEN item.w ELSE emu.w
  BY <1>1, <1>2, <1>4
<1>7. vtWriteChan' \in Seq(Item)
  BY <1>1, <1>2
<1>8. StreamTypes'
  BY <1>0, <1>1, <1>6, <1>7 DEF StreamTypes
<1>9. PipeOK'
  <2> PICK q, p, w, p2, w2 : /\ q = Pipeline /\ p = emu.seq /\ w = emu.w
                             /\ p2 = emu'.seq /\ w2 = emu'.w
    OBVIOUS
  <2> DEFINE t == Tail(q)
  <2>1. /\ q \in Seq(Item) /\ q # <<>> /\ Head(q) = item
        /\ p2 = IF item.kind = "data" THEN item.hi ELSE p
        /\ w2 = IF item.kind = "size" THEN item.w ELSE w
    BY <1>2, <1>3, <1>6
  <2>2. /\ Ordered(q, p) /\ Joined(q, p) /\ Fits(q, w) /\ Within(q, outputSeq)
        /\ p <= outputSeq /\ \A i \in DOMAIN q : ~q[i].clear
        /\ life # "closed" => EndPos(q, p) = outputSeq /\ EndWidth(q, w) = StreamSize
    BY <1>0 DEF PipeOK
  <2>3. /\ t \in Seq(Item)
        /\ Ordered(t, p2) /\ Joined(t, p2) /\ Fits(t, w2) /\ Within(t, outputSeq)
        /\ item.kind = "data" => item.hi <= outputSeq
        /\ EndPos(t, p2) = EndPos(q, p) /\ EndWidth(t, w2) = EndWidth(q, w)
    BY <2>1, <2>2, LeaveRun
  <2>4. \A i \in DOMAIN t : ~t[i].clear
    <3>1. \A i \in DOMAIN t : i + 1 \in DOMAIN q /\ t[i] = q[i + 1]
      BY <2>1
    <3> QED
      BY <2>2, <3>1
  <2>5. p2 <= outputSeq
    BY <2>1, <2>2, <2>3
  <2>6. Pipeline' = t
    BY <1>3
  <2> HIDE DEF t
  <2> QED
    BY <1>1, <2>2, <2>3, <2>4, <2>5, <2>6 DEF PipeOK, Fits, LaidAt, StreamSize
<1> QED
  BY <1>1, <1>5, <1>8, <1>9, PipeFrame

(* The end of the guest, and of the pane.                                  *)
LEMMA EndStep ==
  ASSUME StreamInv, GuestExit \/ ClosePTY
  PROVE  StreamInv'
<1>0. StreamTypes /\ ClientTypes /\ PipeOK
  BY TypesSplit DEF StreamInv
<1>1. /\ UNCHANGED <<outputSeq, outputPos, resizeMarks, stage, vtWriteChan, emu, laid, size,
                     sent, chan, streamer, handed, lost, connVars>>
      /\ life' = "closed" \/ (life = "running" /\ life' = "eof")
  BY DEF GuestExit, ClosePTY, subVars
<1>2. StreamTypes'
  BY <1>0, <1>1 DEF StreamTypes
<1>3. ClientTypes'
  <2>1. subscribers' = subscribers \/ subscribers' = [c \in Clients |-> 0]
    BY DEF GuestExit, ClosePTY, subVars
  <2>2. subscribers' \in [Clients -> 0..MaxGen]
    <3>1. 0 \in 0..MaxGen
      BY PtyStreamAssumption
    <3> QED
      BY <1>0, <2>1, <3>1 DEF ClientTypes
  <2> QED
    BY <1>0, <1>1, <2>2 DEF ClientTypes, connVars
<1>4. PipeOK'
  <2>1. Pipeline' = Pipeline
    BY <1>1 DEF Pipeline
  <2> QED
    BY <1>0, <1>1, <2>1 DEF PipeOK, Fits, LaidAt, StreamSize
<1> QED
  BY <1>1, <1>2, <1>3, <1>4, PipeFrame

-----------------------------------------------------------------------------
(* The steps of the connections.                                           *)

(* A send that finds its channel full, and the first byte of what is lost. *)
LEMMA OfferIsItems ==
  ASSUME NEW q \in Seq(Item), NEW r \in Seq(Item), Len(q) <= SubCap
  PROVE  /\ Offer(q, r) \in Seq(Item)
         /\ Len(Offer(q, r)) <= SubCap
<1>0. SubCap \in Nat
  BY PtyStreamAssumption
<1>1. \A u, v \in Seq(Item) : u \o v \in Seq(Item) /\ Len(u \o v) = Len(u) + Len(v)
  OBVIOUS
<1>2. CASE Len(q) + Len(r) <= SubCap
  BY <1>0, <1>1, <1>2 DEF Offer
<1>3. CASE ~(Len(q) + Len(r) <= SubCap)
  <2> DEFINE s == SubSeq(r, 1, SubCap - Len(q))
  <2>1. s \in Seq(Item) /\ Len(s) = SubCap - Len(q)
    BY <1>0, <1>3
  <2>2. Offer(q, r) = q \o s
    BY <1>3 DEF Offer
  <2> HIDE DEF s
  <2>3. Len(q) \in Nat
    OBVIOUS
  <2>4. Len(q \o s) = SubCap /\ q \o s \in Seq(Item)
    <3>1. q \o s \in Seq(Item) /\ Len(q \o s) = Len(q) + Len(s)
      BY <1>1, <2>1
    <3>2. Len(q) + Len(s) = SubCap
      BY <1>0, <2>1, <2>3
    <3> QED
      BY <3>1, <3>2
  <2> QED
    BY <1>0, <2>2, <2>4
<1> QED
  BY <1>2, <1>3

LEMMA FirstByteIs ==
  ASSUME NEW q \in Seq(Item)
  PROVE  /\ FirstByte(q) \in Nat
         /\ FirstByte(q) = 0 <=> \A i \in DOMAIN q : q[i].kind # "data"
<1> DEFINE data == {i \in DOMAIN q : q[i].kind = "data"}
<1>1. CASE data = {}
  <2>1. FirstByte(q) = 0
    BY <1>1 DEF FirstByte
  <2> QED
    BY <1>1, <2>1
<1>2. CASE data # {}
  <2>1. data \subseteq Nat
    OBVIOUS
  <2>2. Min(data) \in data
    BY <1>2, <2>1, MinOf
  <2>3. FirstByte(q) = q[Min(data)].lo + 1
    BY <1>2 DEF FirstByte
  <2>4. Min(data) \in DOMAIN q /\ q[Min(data)].kind = "data"
    BY <2>2
  <2> HIDE DEF data
  <2>5. q[Min(data)] \in Item
    BY <2>4
  <2>6. q[Min(data)].lo \in Nat
    BY <2>5, ItemPlaces
  <2> QED
    BY <2>3, <2>4, <2>6
<1> QED
  BY <1>1, <1>2

(* A subscription's first items: the catch-up, cut at the channel's        *)
(* capacity, and the size the emulator is at if there is room.             *)
LEMMA FirstItems ==
  ASSUME StreamInv, NEW from \in Nat
  PROVE  LET replay == CatchUp(from)
         IN  /\ replay \in Seq(Item)
             /\ Offer(Offer(<<>>, replay), <<Resized(emu.w)>>) \in Seq(Item)
             /\ FirstByte(SubSeq(replay, SubCap + 1, Len(replay))) \in Nat
<1> DEFINE replay == CatchUp(from)
           stated == <<Resized(emu.w)>>
<1>0. StreamTypes /\ TypeOK /\ RingOK /\ MarksOK /\ MarksTell
  BY TypesSplit DEF StreamInv
<1>1. replay \in Seq(Item)
  BY <1>0, CatchUpRuns
<1>2. Resized(emu.w) \in Item
  BY <1>0, ItemsAreItems DEF StreamTypes
<1>3. stated \in Seq(Item)
  BY <1>2
<1> HIDE DEF replay, stated
<1>4. SubCap \in Nat /\ <<>> \in Seq(Item) /\ Len(<<>>) <= SubCap
  BY PtyStreamAssumption
<1>5. Offer(<<>>, replay) \in Seq(Item) /\ Len(Offer(<<>>, replay)) <= SubCap
  BY <1>1, <1>4, OfferIsItems
<1>6. Offer(Offer(<<>>, replay), stated) \in Seq(Item)
  BY <1>3, <1>5, OfferIsItems
<1>7. SubSeq(replay, SubCap + 1, Len(replay)) \in Seq(Item)
  BY <1>1, <1>4
<1>8. FirstByte(SubSeq(replay, SubCap + 1, Len(replay))) \in Nat
  BY <1>7, FirstByteIs
<1> QED
  BY <1>1, <1>6, <1>8 DEF replay, stated

(* The screen an emulator shows keeps its type.                            *)
LEMMA AppliedIsView ==
  ASSUME NEW v \in View, NEW item \in Item
  PROVE  Applied(v, item) \in View
<1>1. item.hi \in Nat /\ item.kind \in {"data", "size"} /\ (item.kind = "size" => item.w \in Sizes)
  BY ItemPlaces
<1>2. CASE item.kind = "size"
  BY <1>1, <1>2 DEF Applied, View
<1>3. CASE item.kind # "size"
  <2> DEFINE dup == (v.dup /\ ~item.clear) \/ (~item.clear /\ item.lo < v.pos)
             gap == (v.gap /\ ~item.clear) \/ (~item.clear /\ v.painted /\ item.lo > v.pos)
  <2>1. Applied(v, item) = [v EXCEPT !.pos = item.hi, !.painted = TRUE,
                                     !.dup = dup, !.gap = gap]
    BY <1>3 DEF Applied
  <2>2. dup \in BOOLEAN /\ gap \in BOOLEAN
    OBVIOUS
  <2> HIDE DEF dup, gap
  <2> QED
    BY <1>1, <2>1, <2>2 DEF View
<1> QED
  BY <1>2, <1>3

LEMMA OverrunIsView ==
  ASSUME NEW v \in View, NEW o \in BOOLEAN
  PROVE  /\ [v EXCEPT !.overrun = o] \in View
         /\ [v EXCEPT !.overrun = o].overrun = o
         /\ \A k \in {"pos", "primed", "painted", "dup", "gap"} : [v EXCEPT !.overrun = o][k] = v[k]
BY DEF View

(* What the connections and the streamers do leaves the stream alone.      *)
LEMMA SettleStep ==
  ASSUME StreamInv, NEW c \in Clients,
         \/ \E w \in Sizes : AnnounceSize(c, w)
         \/ ResizeTty(c) \/ HandleSubscribePTY(c) \/ HidePane(c) \/ Unsubscribe(c) \/ Disconnect(c)
  PROVE  StreamInv'
<1>0. ClientTypes /\ 0 \in 0..MaxGen
  BY TypesSplit, PtyStreamAssumption DEF StreamInv
<1>1. CASE \E w \in Sizes : AnnounceSize(c, w)
  <2> PICK w \in Sizes : AnnounceSize(c, w)
    BY <1>1
  <2>1. [at |-> "announced", arg |-> w] \in Busy \cup Calm
    BY DEF Busy
  <2>2. handler' \in [Clients -> Busy \cup Calm]
    BY <1>0, <2>1 DEF AnnounceSize, ClientTypes
  <2>3. size' \in [announced : Sizes, tty : Sizes, resizes : Nat]
    <3>1. size \in [announced : Sizes, tty : Sizes, resizes : Nat] /\ size.resizes + 1 \in Nat
      BY <1>0 DEF ClientTypes
    <3>2. size' = [size EXCEPT !.announced = w, !.resizes = size.resizes + 1]
      BY <3>1 DEF AnnounceSize
    <3> QED
      BY <3>1, <3>2
  <2>4. ClientTypes' /\ UNCHANGED ptyVars
    BY <1>0, <2>2, <2>3 DEF AnnounceSize, ClientTypes, subVars
  <2> QED
    BY <2>4, StreamFrame
<1>2. [at |-> "idle", arg |-> 0] \in Busy \cup Calm
  BY DEF Calm
<1>3. CASE ResizeTty(c)
  <2>1. handler[c].arg \in Sizes
    BY <1>0, <1>3 DEF ResizeTty, ClientTypes, Busy, Calm
  <2>2. size' \in [announced : Sizes, tty : Sizes, resizes : Nat]
    BY <1>0, <1>3, <2>1 DEF ResizeTty, ClientTypes
  <2>3. handler' \in [Clients -> Busy \cup Calm]
    BY <1>0, <1>2, <1>3 DEF ResizeTty, ClientTypes
  <2>4. ClientTypes' /\ UNCHANGED ptyVars
    BY <1>0, <1>3, <2>2, <2>3 DEF ResizeTty, ClientTypes, subVars
  <2> QED
    BY <2>4, StreamFrame
<1>4. CASE HandleSubscribePTY(c)
  <2>1. handler[c].arg \in Nat /\ ptyResume[c] \in Nat
    BY <1>0, <1>4 DEF HandleSubscribePTY, ClientTypes, Busy, Calm
  <2>2. [at |-> "subscribing", arg |-> IF handler[c].arg > 0 THEN handler[c].arg ELSE ptyResume[c]]
          \in Busy \cup Calm
    BY <2>1 DEF Calm
  <2>3. handler' \in [Clients -> Busy \cup Calm]
    BY <1>0, <1>2, <1>4, <2>2 DEF HandleSubscribePTY, ClientTypes
  <2>4. entry' \in [Clients -> BOOLEAN]
    BY <1>0, <1>4 DEF HandleSubscribePTY, ClientTypes
  <2>5. ClientTypes' /\ UNCHANGED ptyVars
    BY <1>0, <1>4, <2>3, <2>4 DEF HandleSubscribePTY, ClientTypes, subVars
  <2> QED
    BY <2>5, StreamFrame
<1>5. CASE HidePane(c)
  <2>1. [at |-> "unsubscribing", arg |-> 0] \in Busy \cup Calm
    BY DEF Calm
  <2>2. /\ handler' \in [Clients -> Busy \cup Calm] /\ entry' \in [Clients -> BOOLEAN]
        /\ pane' \in [Clients -> {"hidden", "shown", "gone"}]
    BY <1>0, <1>5, <2>1 DEF HidePane, ClientTypes
  <2>3. view' \in [Clients -> View]
    BY <1>0, <1>5, OverrunIsView DEF HidePane, ClientTypes
  <2>4. ClientTypes' /\ UNCHANGED ptyVars
    BY <1>0, <1>5, <2>2, <2>3 DEF HidePane, ClientTypes, subVars
  <2> QED
    BY <2>4, StreamFrame
<1>6. CASE Unsubscribe(c)
  <2>1. (IF subscribers[c] = 0 THEN 0 ELSE sent[c]) \in Nat
    BY <1>0 DEF ClientTypes
  <2>2. ptyResume' \in [Clients -> Nat]
    BY <1>0, <1>6, <2>1 DEF Unsubscribe, ClientTypes
  <2>3. handler' \in [Clients -> Busy \cup Calm] /\ subscribers' \in [Clients -> 0..MaxGen]
    BY <1>0, <1>2, <1>6 DEF Unsubscribe, ClientTypes
  <2>4. ClientTypes' /\ UNCHANGED ptyVars
    BY <1>0, <1>6, <2>2, <2>3 DEF Unsubscribe, ClientTypes
  <2> QED
    BY <2>4, StreamFrame
<1>7. CASE Disconnect(c)
  <2>1. /\ subscribers' \in [Clients -> 0..MaxGen]
        /\ pane' \in [Clients -> {"hidden", "shown", "gone"}]
    BY <1>0, <1>7 DEF Disconnect, ClientTypes
  <2>2. ClientTypes' /\ UNCHANGED ptyVars
    BY <1>0, <1>7, <2>1 DEF Disconnect, ClientTypes
  <2> QED
    BY <2>2, StreamFrame
<1> QED
  BY <1>1, <1>3, <1>4, <1>5, <1>6, <1>7

LEMMA ShowStep ==
  ASSUME StreamInv, NEW c \in Clients, ShowPane(c)
  PROVE  StreamInv'
<1>0. StreamTypes /\ ClientTypes /\ view[c] \in View
  BY TypesSplit DEF StreamInv, ClientTypes
<1>1. emu.seq \in Nat /\ emu.w \in Sizes
  BY <1>0 DEF StreamTypes
<1>2. Snapshot(emu.seq, emu.w) \in View
  BY <1>1 DEF Snapshot, View
<1>3. [view[c] EXCEPT !.primed = 0] \in View
  BY <1>0 DEF View
<1>4. /\ [at |-> "subscribe", arg |-> emu.seq] \in Busy \cup Calm
      /\ [at |-> "subscribe", arg |-> 0] \in Busy \cup Calm
  BY <1>1 DEF Calm
<1>5. view' \in [Clients -> View]
  <2>1. \/ view' = [view EXCEPT ![c] = Snapshot(emu.seq, emu.w)]
        \/ view' = [view EXCEPT ![c] = [view[c] EXCEPT !.primed = 0]]
    BY DEF ShowPane
  <2> QED
    BY <1>0, <1>2, <1>3, <2>1 DEF ClientTypes
<1>6. handler' \in [Clients -> Busy \cup Calm]
  BY <1>0, <1>4 DEF ShowPane, ClientTypes
<1>7. pane' \in [Clients -> {"hidden", "shown", "gone"}]
  BY <1>0 DEF ShowPane, ClientTypes
<1>8. ClientTypes' /\ UNCHANGED ptyVars
  BY <1>0, <1>5, <1>6, <1>7 DEF ShowPane, ClientTypes, subVars
<1> QED
  BY <1>8, StreamFrame

LEMMA SubscribeStep ==
  ASSUME StreamInv, NEW c \in Clients, Subscribe(c)
  PROVE  StreamInv'
<1>0. StreamTypes /\ ClientTypes
  BY TypesSplit DEF StreamInv
<1>1. PICK g \in Gens :
        LET replay == CatchUp(handler[c].arg)
            queue  == Offer(<<>>, replay)
        IN  /\ subscribers' = [subscribers EXCEPT ![c] = g]
            /\ chan' = [chan EXCEPT ![c][g] = Offer(queue, <<Resized(emu.w)>>)]
            /\ sent' = [sent EXCEPT ![c] = outputSeq]
            /\ handed' = [handed EXCEPT ![c] = outputSeq]
            /\ lost' = [lost EXCEPT ![c] = FirstByte(SubSeq(replay, SubCap + 1, Len(replay)))]
            /\ streamer' = [streamer EXCEPT ![c][g] = "running"]
  BY DEF Subscribe
<1>2. /\ handler[c].at = "subscribing"
      /\ handler' = [handler EXCEPT ![c] = [at |-> "idle", arg |-> 0]]
      /\ UNCHANGED <<ptyVars, size, entry, ptyResume, pane, view>>
  BY DEF Subscribe
<1>3. handler[c].arg \in Nat
  BY <1>0, <1>2 DEF ClientTypes, Busy, Calm
<1> DEFINE first == Offer(Offer(<<>>, CatchUp(handler[c].arg)), <<Resized(emu.w)>>)
           gone  == FirstByte(SubSeq(CatchUp(handler[c].arg), SubCap + 1,
                                     Len(CatchUp(handler[c].arg))))
<1>4. first \in Seq(Item) /\ gone \in Nat
  BY <1>3, FirstItems
<1>5. chan' = [chan EXCEPT ![c][g] = first] /\ lost' = [lost EXCEPT ![c] = gone]
  BY <1>1
<1> HIDE DEF first, gone
<1>6. chan' \in [Clients -> [Gens -> Seq(Item)]]
  BY <1>0, <1>4, <1>5, PutGen DEF ClientTypes
<1>7. streamer' \in [Clients -> [Gens -> {"none", "running", "ending", "done"}]]
  BY <1>0, <1>1 DEF ClientTypes
<1>8. /\ sent' \in [Clients -> Nat] /\ handed' \in [Clients -> Nat] /\ lost' \in [Clients -> Nat]
  <2>1. outputSeq \in Nat
    BY <1>0 DEF StreamTypes
  <2>2. /\ sent \in [Clients -> Nat] /\ handed \in [Clients -> Nat]
        /\ lost \in [Clients -> Nat]
    BY <1>0 DEF ClientTypes
  <2>3. /\ sent' = [sent EXCEPT ![c] = outputSeq] /\ handed' = [handed EXCEPT ![c] = outputSeq]
        /\ lost' = [lost EXCEPT ![c] = gone]
    BY <1>1, <1>5
  <2>4. sent' \in [Clients -> Nat] /\ handed' \in [Clients -> Nat]
    BY <2>1, <2>2, <2>3
  <2>5. lost' \in [Clients -> Nat]
    BY <1>4, <2>2, <2>3
  <2> QED
    BY <2>4, <2>5
<1>9. subscribers' \in [Clients -> 0..MaxGen]
  <2>1. g \in 0..MaxGen
    BY PtyStreamAssumption DEF Gens
  <2> QED
    BY <1>0, <1>1, <2>1 DEF ClientTypes
<1>10. handler' \in [Clients -> Busy \cup Calm]
  <2>1. [at |-> "idle", arg |-> 0] \in Busy \cup Calm
    BY DEF Calm
  <2> QED
    BY <1>0, <1>2, <2>1 DEF ClientTypes
<1>11. ClientTypes'
  BY <1>0, <1>2, <1>6, <1>7, <1>8, <1>9, <1>10 DEF ClientTypes
<1> QED
  BY <1>2, <1>11, StreamFrame

LEMMA StreamerStep ==
  ASSUME StreamInv, NEW c \in Clients, NEW g \in Gens,
         StreamItem(c, g) \/ StreamEnd(c, g) \/ StreamForget(c, g)
  PROVE  StreamInv'
<1>0. ClientTypes /\ 0 \in 0..MaxGen
  BY TypesSplit, PtyStreamAssumption DEF StreamInv
<1>1. CASE StreamItem(c, g)
  <2>1. /\ chan[c][g] # <<>> /\ chan[c][g] \in Seq(Item) /\ view[c] \in View
        /\ chan' = [chan EXCEPT ![c][g] = Tail(chan[c][g])]
    BY <1>0, <1>1 DEF StreamItem, ClientTypes
  <2>2. Head(chan[c][g]) \in Item /\ Tail(chan[c][g]) \in Seq(Item)
    BY <2>1
  <2>3. chan' \in [Clients -> [Gens -> Seq(Item)]]
    BY <1>0, <2>1, <2>2, PutGen DEF ClientTypes
  <2>4. Applied(view[c], Head(chan[c][g])) \in View
    BY <2>1, <2>2, AppliedIsView
  <2>5. view' \in [Clients -> View]
    <3>1. [view[c] EXCEPT !.overrun = TRUE] \in View
      BY <2>1, OverrunIsView
    <3>2. \/ view' = view
          \/ view' = [view EXCEPT ![c] = Applied(view[c], Head(chan[c][g]))]
          \/ view' = [view EXCEPT ![c] = [view[c] EXCEPT !.overrun = TRUE]]
      BY <1>1 DEF StreamItem, Overrun
    <3> QED
      BY <1>0, <2>4, <3>1, <3>2 DEF ClientTypes
  <2>6. ClientTypes' /\ UNCHANGED ptyVars
    BY <1>0, <1>1, <2>3, <2>5 DEF StreamItem, ClientTypes
  <2> QED
    BY <2>6, StreamFrame
<1>2. CASE StreamEnd(c, g)
  <2>1. streamer' \in [Clients -> [Gens -> {"none", "running", "ending", "done"}]]
    BY <1>0, <1>2 DEF StreamEnd, ClientTypes
  <2>2. subscribers' \in [Clients -> 0..MaxGen]
    BY <1>0, <1>2 DEF StreamEnd, ClientTypes
  <2>3. ClientTypes' /\ UNCHANGED ptyVars
    BY <1>0, <1>2, <2>1, <2>2 DEF StreamEnd, ClientTypes, connVars
  <2> QED
    BY <2>3, StreamFrame
<1>3. CASE StreamForget(c, g)
  <2>1. streamer' \in [Clients -> [Gens -> {"none", "running", "ending", "done"}]]
    BY <1>0, <1>3 DEF StreamForget, ClientTypes
  <2>2. entry' \in [Clients -> BOOLEAN]
    BY <1>0, <1>3 DEF StreamForget, ClientTypes
  <2>3. chan' \in [Clients -> [Gens -> Seq(Item)]]
    BY <1>0, <1>3, PutGen DEF StreamForget, ClientTypes
  <2>4. ClientTypes' /\ UNCHANGED ptyVars
    BY <1>0, <1>3, <2>1, <2>2, <2>3 DEF StreamForget, ClientTypes
  <2> QED
    BY <2>4, StreamFrame
<1> QED
  BY <1>1, <1>2, <1>3

LEMMA StreamNext ==
  ASSUME StreamInv, [Next]_vars
  PROVE  StreamInv'
<1>1. CASE UNCHANGED vars
  <2>1. UNCHANGED ptyVars
    BY <1>1 DEF vars
  <2>2. ClientTypes'
    BY <1>1, TypesSplit DEF StreamInv, ClientTypes, vars, subVars, connVars
  <2> QED
    BY <2>1, <2>2, StreamFrame
<1>2. CASE Stream
  BY <1>2, AppendStep, BroadcastStep, QueueStep, VtWriteStep, EndStep DEF Stream
<1>3. ASSUME NEW c \in Clients, Connection(c)
      PROVE  StreamInv'
  BY <1>3, SettleStep, ResizeStep, ShowStep, SubscribeStep DEF Connection
<1>4. ASSUME NEW c \in Clients, Streaming(c)
      PROVE  StreamInv'
  BY <1>4, StreamerStep DEF Streaming
<1> QED
  BY <1>1, <1>2, <1>3, <1>4 DEF Next

(* Every variable of the pane, its subscriptions and its connections keeps *)
(* its type: the ring never holds more than its capacity, and resize marks *)
(* and items are well formed whatever reads and resizes interleave.        *)
THEOREM TypesHold == Spec => []TypeOK
<1>1. StreamInv => TypeOK
  BY DEF StreamInv
<1> QED
  BY StreamInit, StreamNext, <1>1, PTL DEF Spec

(* vtWriter and Subscribe's replay lay out each byte at the size it was    *)
(* read at, wherever Resize put its marks and appendToBuffer pruned them;  *)
(* and each byte continues the one before it, without a repeat or a hole.  *)
THEOREM LaidAsReadHolds == Spec => []LaidAsRead
<1>1. StreamInv => LaidAsRead
  <2> SUFFICES ASSUME StreamInv PROVE LaidAsRead
    OBVIOUS
  <2>0. StreamTypes /\ TypeOK /\ RingOK /\ MarksOK /\ MarksTell /\ PipeOK
    BY TypesSplit DEF StreamInv
  <2>1. EmulatorFollowsStream
    <3>1. /\ Joined(vtWriteChan, emu.seq) /\ Fits(vtWriteChan, emu.w)
          /\ \A i \in DOMAIN vtWriteChan : ~vtWriteChan[i].clear
      BY <2>0, QueueRuns
    <3> QED
      BY <3>1 DEF EmulatorFollowsStream, Joined, Fits
  <2>2. ReplayLaidAsRead
    <3> SUFFICES ASSUME NEW from \in 0..outputSeq
                 PROVE  LET q == CatchUp(from)
                        IN  \A i \in DOMAIN q : q[i].kind = "data" =>
                              /\ LaidAt(q[i], WidthAt(q, i, InitSize))
                              /\ \/ q[i].lo = PosAt(q, i, IF from = 0 THEN BufStart ELSE from)
                                 \/ q[i].clear
      BY DEF ReplayLaidAsRead
    <3>1. from \in Nat /\ from <= outputSeq
      BY <2>0 DEF StreamTypes
    <3>2. /\ Joined(CatchUp(from), IF from = 0 THEN BufStart ELSE from)
          /\ Fits(CatchUp(from), InitSize)
      BY <2>0, <3>1, CatchUpRuns
    <3> QED
      BY <3>2 DEF Joined, Fits
  <2> QED
    BY <2>1, <2>2 DEF LaidAsRead
<1> QED
  BY StreamInit, StreamNext, <1>1, PTL DEF Spec

-----------------------------------------------------------------------------
(* The seam between catch-up and broadcast.                                *)

(* The part of the state the seam depends on, and its types.               *)
SeamTypes ==
  /\ outputSeq \in Nat
  /\ stage = [at |-> stage.at, item |-> stage.item]
  /\ stage.item.kind \in {"data", "size"}
  /\ stage.item.kind = "data" => stage.item.lo \in Nat /\ stage.item.hi \in Nat
  /\ subscribers \in [Clients -> 0..MaxGen]
  /\ sent \in [Clients -> Nat]
  /\ handed \in [Clients -> Nat]
  /\ DOMAIN lost = Clients

(* A chunk that is appended and not yet broadcast ends at the stream's end. *)
StageAtEnd ==
  stage.at = "appended" /\ stage.item.kind = "data" =>
    /\ stage.item.lo < stage.item.hi
    /\ stage.item.hi = outputSeq

(* No subscriber is credited with bytes the stream does not have.          *)
SentBounded == \A c \in Clients : sent[c] <= outputSeq

SeamInv == SeamTypes /\ StageAtEnd /\ SentBounded /\ SeamExact

LEMMA ChunkIsItem ==
  ASSUME NEW lo \in Nat, NEW hi \in Nat
  PROVE  /\ Chunk(lo, hi).kind = "data"
         /\ Chunk(lo, hi).lo = lo /\ Chunk(lo, hi).hi = hi
BY DEF Chunk

LEMMA ResizedIsItem ==
  ASSUME NEW w
  PROVE  Resized(w).kind = "size"
BY DEF Resized

LEMMA SeamInit == Init => SeamInv
<1> SUFFICES ASSUME Init PROVE SeamInv
  OBVIOUS
<1>1. Free.item.kind = "size" /\ Free = [at |-> Free.at, item |-> Free.item]
  BY ResizedIsItem DEF Free
<1>2. SeamTypes
  BY <1>1, PtyStreamAssumption DEF Init, SeamTypes
<1>3. StageAtEnd /\ SentBounded /\ SeamExact
  BY DEF Init, Free, StageAtEnd, SentBounded, SeamExact
<1> QED
  BY <1>2, <1>3 DEF SeamInv

(* The steps that leave every variable of the seam alone, or only end a    *)
(* subscription.                                                           *)
LEMMA SeamUndisturbed ==
  ASSUME SeamInv,
         UNCHANGED <<outputSeq, stage, sent, handed, lost>>,
         subscribers' \in [Clients -> 0..MaxGen],
         \A c \in Clients : subscribers'[c] \in {0, subscribers[c]}
  PROVE  SeamInv'
<1>1. SeamTypes' /\ StageAtEnd' /\ SentBounded'
  BY DEF SeamInv, SeamTypes, StageAtEnd, SentBounded
<1>2. SeamExact'
  <2> SUFFICES ASSUME NEW c \in Clients, subscribers'[c] # 0, lost[c] = 0
               PROVE  handed[c] = IF /\ stage.at = "appended"
                                     /\ stage.item.kind = "data"
                                     /\ c \in Receivers(stage.item)'
                                  THEN stage.item.lo ELSE outputSeq
    BY DEF SeamExact
  <2>1. c \in Receivers(stage.item)' <=> c \in Receivers(stage.item)
    BY DEF Receivers
  <2> QED
    BY <2>1 DEF SeamInv, SeamExact
<1> QED
  BY <1>1, <1>2 DEF SeamInv

(* readOutput: the new chunk is due to every subscriber, for none has been *)
(* credited with it.                                                       *)
LEMMA SeamAppend ==
  ASSUME SeamInv, NEW n \in 1..MaxChunk, AppendToBuffer(n)
  PROVE  SeamInv'
<1> DEFINE item == Chunk(outputSeq, outputSeq + n)
<1>1. /\ n \in Nat \ {0} /\ outputSeq \in Nat
      /\ stage.at = "free" /\ outputSeq' = outputSeq + n
      /\ stage' = [at |-> "appended", item |-> item]
      /\ UNCHANGED <<subscribers, sent, handed, lost>>
  BY PtyStreamAssumption DEF AppendToBuffer, subVars, SeamInv, SeamTypes
<1>2. item.kind = "data" /\ item.lo = outputSeq /\ item.hi = outputSeq + n
  BY <1>1, ChunkIsItem
<1> HIDE DEF item
<1>3. SeamTypes'
  BY <1>1, <1>2 DEF SeamInv, SeamTypes
<1>4. StageAtEnd' /\ SentBounded'
  BY <1>1, <1>2 DEF SeamInv, SeamTypes, StageAtEnd, SentBounded
<1>5. SeamExact'
  <2> SUFFICES ASSUME NEW c \in Clients, subscribers[c] # 0, lost[c] = 0
               PROVE  c \in Receivers(stage.item)' /\ handed[c] = outputSeq
    BY <1>1, <1>2 DEF SeamExact
  <2>1. handed[c] = outputSeq
    BY <1>1 DEF SeamInv, SeamExact
  <2>2. sent[c] < item.hi
    BY <1>1, <1>2 DEF SeamInv, SeamTypes, SentBounded
  <2> QED
    BY <1>1, <1>2, <2>1, <2>2 DEF Receivers, StampOf
<1> QED
  BY <1>3, <1>4, <1>5 DEF SeamInv

(* Resize: a size moves no position.                                       *)
LEMMA SeamResize ==
  ASSUME SeamInv, NEW c \in Clients, MarkResize(c)
  PROVE  SeamInv'
<1>1. CASE UNCHANGED stage
  BY <1>1, SeamUndisturbed DEF MarkResize, subVars, SeamInv, SeamTypes
<1>2. CASE stage' = [at |-> "appended", item |-> Resized(handler[c].arg)]
  <2>1. Resized(handler[c].arg).kind = "size"
    BY ResizedIsItem
  <2>2. stage.at = "free" /\ UNCHANGED <<outputSeq, subscribers, sent, handed, lost>>
    BY DEF MarkResize, subVars
  <2>3. SeamTypes' /\ StageAtEnd' /\ SentBounded'
    BY <1>2, <2>1, <2>2 DEF SeamInv, SeamTypes, StageAtEnd, SentBounded
  <2>4. SeamExact'
    BY <1>2, <2>1, <2>2 DEF SeamInv, SeamExact
  <2> QED
    BY <2>3, <2>4 DEF SeamInv
<1> QED
  BY <1>1, <1>2 DEF MarkResize

(* broadcast: whoever is due the chunk and has room now has it, whoever    *)
(* has no room has lost a byte, whoever was credited with it had it.       *)
LEMMA SeamBroadcast ==
  ASSUME SeamInv, Broadcast
  PROVE  SeamInv'
<1> DEFINE item == stage.item
           to   == Receivers(item)
           took == {c \in to : Len(chan[c][subscribers[c]]) < SubCap}
<1>1. /\ item.kind \in {"data", "size"}
      /\ item.kind = "data" => item.lo \in Nat /\ item.hi \in Nat
      /\ StampOf(item) \in Nat
  BY DEF SeamInv, SeamTypes, StampOf
<1>2. /\ stage.at = "appended" /\ stage'.at = "broadcast" /\ stage'.item = item
      /\ UNCHANGED <<outputSeq, subscribers>>
      /\ \A c \in Clients : sent'[c] = IF c \in took THEN StampOf(item) ELSE sent[c]
      /\ \A c \in Clients : handed'[c] = IF c \in took /\ item.kind = "data" THEN item.hi
                                         ELSE handed[c]
      /\ \A c \in Clients :
           lost'[c] = IF lost[c] = 0 /\ c \in to \ took /\ item.kind = "data"
                      THEN item.lo + 1 ELSE lost[c]
  BY DEF Broadcast, SeamInv, SeamTypes
<1>3. SeamTypes'
  <2>1. /\ sent' = [c \in Clients |-> IF c \in took THEN StampOf(item) ELSE sent[c]]
        /\ handed' = [c \in Clients |-> IF c \in took /\ item.kind = "data" THEN item.hi
                                        ELSE handed[c]]
        /\ DOMAIN lost' = Clients
        /\ stage' = [stage EXCEPT !.at = "broadcast"]
    BY DEF Broadcast
  <2> HIDE DEF took, item
  <2>2. sent' \in [Clients -> Nat] /\ handed' \in [Clients -> Nat]
    BY <1>1, <2>1 DEF SeamInv, SeamTypes
  <2> QED
    BY <1>2, <2>1, <2>2 DEF SeamInv, SeamTypes
<1>4. StageAtEnd' /\ SentBounded'
  <2>1. StampOf(item) <= outputSeq
    BY <1>2 DEF SeamInv, SeamTypes, StageAtEnd, StampOf
  <2> HIDE DEF took, item
  <2> QED
    BY <1>2, <2>1 DEF SeamInv, StageAtEnd, SentBounded
<1>5. SeamExact'
  <2> SUFFICES ASSUME NEW c \in Clients, subscribers[c] # 0, lost'[c] = 0
               PROVE  handed'[c] = outputSeq
    BY <1>2 DEF SeamExact
  <2>1. lost[c] = 0
    BY <1>1, <1>2
  <2>2. CASE item.kind = "data" /\ c \in to
    <3>1. c \in took
      BY <1>1, <1>2, <2>1, <2>2
    <3> QED
      BY <1>2, <2>2, <3>1 DEF SeamInv, StageAtEnd
  <2>3. CASE ~(item.kind = "data" /\ c \in to)
    <3>1. handed'[c] = handed[c]
      BY <1>2, <2>3
    <3> QED
      BY <2>1, <2>3, <3>1 DEF SeamInv, SeamExact
  <2> QED
    BY <2>2, <2>3
<1> QED
  BY <1>3, <1>4, <1>5 DEF SeamInv

(* vtWriter's queue is behind the seam.                                    *)
LEMMA SeamQueue ==
  ASSUME SeamInv, QueueForEmulator
  PROVE  SeamInv'
<1>1. /\ stage' = Free /\ UNCHANGED <<outputSeq, subscribers, sent, handed, lost>>
      /\ stage.at = "broadcast"
  BY DEF QueueForEmulator, subVars
<1>2. /\ Free.at = "free" /\ Free.item.kind = "size"
      /\ Free = [at |-> Free.at, item |-> Free.item]
  BY ResizedIsItem DEF Free
<1> QED
  BY <1>1, <1>2 DEF SeamInv, SeamTypes, StageAtEnd, SentBounded, SeamExact

(* Subscribe: the catch-up reaches the stream's end, and so does the       *)
(* credit, so a chunk appended but not yet broadcast is not due again.     *)
LEMMA SeamSubscribe ==
  ASSUME SeamInv, NEW c \in Clients, Subscribe(c)
  PROVE  SeamInv'
<1>1. /\ UNCHANGED <<outputSeq, stage>>
      /\ sent' = [sent EXCEPT ![c] = outputSeq]
      /\ handed' = [handed EXCEPT ![c] = outputSeq]
      /\ \E g \in Gens : subscribers' = [subscribers EXCEPT ![c] = g]
      /\ \E x : lost' = [lost EXCEPT ![c] = x]
  BY DEF Subscribe, ptyVars
<1>2. SeamTypes'
  BY <1>1, PtyStreamAssumption DEF SeamInv, SeamTypes, Gens
<1>3. StageAtEnd' /\ SentBounded'
  BY <1>1 DEF SeamInv, SeamTypes, StageAtEnd, SentBounded
<1>4. SeamExact'
  <2> SUFFICES ASSUME NEW d \in Clients, subscribers'[d] # 0, lost'[d] = 0
               PROVE  handed'[d] = IF /\ stage.at = "appended"
                                      /\ stage.item.kind = "data"
                                      /\ d \in Receivers(stage.item)'
                                   THEN stage.item.lo ELSE outputSeq
    BY <1>1 DEF SeamExact
  <2>1. CASE d = c
    <3>1. handed'[c] = outputSeq /\ sent'[c] = outputSeq
      BY <1>1 DEF SeamInv, SeamTypes
    <3>2. stage.at = "appended" /\ stage.item.kind = "data" => c \notin Receivers(stage.item)'
      BY <1>1, <3>1 DEF SeamInv, SeamTypes, StageAtEnd, Receivers, StampOf
    <3> QED
      BY <2>1, <3>1, <3>2
  <2>2. CASE d # c
    <3>1. /\ subscribers'[d] = subscribers[d] /\ sent'[d] = sent[d]
          /\ handed'[d] = handed[d] /\ lost'[d] = lost[d]
      BY <1>1, <2>2 DEF SeamInv, SeamTypes
    <3>2. d \in Receivers(stage.item)' <=> d \in Receivers(stage.item)
      BY <1>1, <3>1 DEF Receivers
    <3> QED
      BY <3>1, <3>2 DEF SeamInv, SeamExact
  <2> QED
    BY <2>1, <2>2
<1> QED
  BY <1>2, <1>3, <1>4 DEF SeamInv

(* Every step of the stream, of a connection and of a streamer.            *)
LEMMA SeamNext ==
  ASSUME SeamInv, [Next]_vars
  PROVE  SeamInv'
<1> USE DEF SeamInv, SeamTypes
<1>1. CASE UNCHANGED vars
  BY <1>1, SeamUndisturbed DEF vars, ptyVars, subVars
<1>2. CASE Stream
  <2>1. CASE \E n \in 1..MaxChunk : AppendToBuffer(n)
    BY <2>1, SeamAppend
  <2>2. CASE Broadcast \/ QueueForEmulator
    BY <2>2, SeamBroadcast, SeamQueue
  <2>3. CASE VtWrite \/ GuestExit
    BY <2>3, SeamUndisturbed DEF VtWrite, GuestExit, subVars
  <2>4. CASE ClosePTY
    BY <2>4, PtyStreamAssumption, SeamUndisturbed DEF ClosePTY
  <2> QED
    BY <1>2, <2>1, <2>2, <2>3, <2>4 DEF Stream
<1>3. ASSUME NEW c \in Clients, Connection(c)
      PROVE  SeamInv'
  <2>1. CASE MarkResize(c) \/ Subscribe(c)
    BY <2>1, SeamResize, SeamSubscribe
  <2>2. CASE (\E w \in Sizes : AnnounceSize(c, w)) \/ ResizeTty(c) \/ ShowPane(c)
    BY <2>2, SeamUndisturbed DEF AnnounceSize, ResizeTty, ShowPane, ptyVars, subVars
  <2>3. CASE HandleSubscribePTY(c)
    BY <2>3, SeamUndisturbed DEF HandleSubscribePTY, ptyVars, subVars
  <2>4. CASE HidePane(c)
    BY <2>4, SeamUndisturbed DEF HidePane, ptyVars, subVars
  <2>5. CASE Unsubscribe(c)
    BY <2>5, PtyStreamAssumption, SeamUndisturbed DEF Unsubscribe, ptyVars
  <2>6. CASE Disconnect(c)
    BY <2>6, PtyStreamAssumption, SeamUndisturbed DEF Disconnect, ptyVars
  <2> QED
    BY <1>3, <2>1, <2>2, <2>3, <2>4, <2>5, <2>6 DEF Connection
<1>4. ASSUME NEW c \in Clients, Streaming(c)
      PROVE  SeamInv'
  <2> PICK g \in Gens : StreamItem(c, g) \/ StreamEnd(c, g) \/ StreamForget(c, g)
    BY <1>4 DEF Streaming
  <2>1. CASE StreamItem(c, g) \/ StreamForget(c, g)
    BY <2>1, SeamUndisturbed DEF StreamItem, StreamForget, ptyVars
  <2>2. CASE StreamEnd(c, g)
    <3>1. UNCHANGED <<outputSeq, stage, sent, handed, lost>>
      BY <2>2 DEF StreamEnd, ptyVars
    <3>2. subscribers' = subscribers \/ subscribers' = [subscribers EXCEPT ![c] = 0]
      BY <2>2 DEF StreamEnd, ptyVars
    <3> HIDE DEF SeamInv
    <3>3. /\ subscribers' \in [Clients -> 0..MaxGen]
          /\ \A d \in Clients : subscribers'[d] \in {0, subscribers[d]}
      BY <3>2, PtyStreamAssumption DEF SeamInv, SeamTypes
    <3> QED
      BY <3>1, <3>3, SeamUndisturbed
  <2> QED
    BY <2>1, <2>2
<1> QED
  BY <1>1, <1>2, <1>3, <1>4 DEF Next

(* PTY.Subscribe and PTY.broadcast meet without a duplicate and without a  *)
(* hole: a subscriber that lost no chunk has been handed exactly the bytes *)
(* up to the stream position, whatever the number of clients and the size  *)
(* of the ring and of the channels.                                        *)
THEOREM SeamExactHolds == Spec => []SeamExact
<1>1. SeamInv => SeamExact
  BY DEF SeamInv
<1> QED
  BY SeamInit, SeamNext, <1>1, PTL DEF Spec

-----------------------------------------------------------------------------
(* What a primed pane shows.                                               *)

(* ~Hasty: a client has at most one streamer at work, none while it asks   *)
(* for a subscription, and a live subscription's is.                       *)
AtWork(c) ==
  /\ \A g, h \in Gens : ~Finished(c, g) /\ ~Finished(c, h) => g = h
  /\ handler[c].at \in {"subscribe", "subscribing"} => \A g \in Gens : Finished(c, g)
  /\ subscribers[c] # 0 => streamer[c][subscribers[c]] = "running"

(* No subscriber has been handed what it is about to be handed.            *)
HandedBelow(c) ==
  subscribers[c] # 0 =>
    /\ handed[c] <= outputSeq
    /\ stage.at = "appended" /\ stage.item.kind = "data" /\ c \in Receivers(stage.item)
       => handed[c] <= stage.item.lo

(* A pane primed from a snapshot: what is in its channel runs on from what *)
(* it shows to what its subscription has been handed.                      *)
ViewRun(c) ==
  pane[c] = "shown" /\ view[c].primed > 0 =>
    /\ ~view[c].dup /\ view[c].painted
    /\ view[c].gap => Missed(c)
    /\ handler[c].at \in {"subscribe", "subscribing"} =>
         /\ handler[c].arg = view[c].pos /\ view[c].pos \in 1..outputSeq /\ ~view[c].gap
    /\ \A g \in Gens : streamer[c][g] = "running" =>
         /\ Ordered(chan[c][g], view[c].pos)
         /\ ~Missed(c) => Joined(chan[c][g], view[c].pos)
         /\ subscribers[c] = g =>
              /\ EndPos(chan[c][g], view[c].pos) <= handed[c]
              /\ ~Missed(c) => EndPos(chan[c][g], view[c].pos) = handed[c]

ViewInv == \A c \in Clients : AtWork(c) /\ HandedBelow(c) /\ ViewRun(c)

LEMMA ViewInit == Init => ViewInv
<1> SUFFICES ASSUME Init, NEW c \in Clients PROVE AtWork(c) /\ HandedBelow(c) /\ ViewRun(c)
  BY DEF ViewInv
<1>1. /\ subscribers[c] = 0 /\ pane[c] = "hidden" /\ \A g \in Gens : streamer[c][g] = "none"
  BY DEF Init
<1> QED
  BY <1>1 DEF AtWork, HandedBelow, ViewRun, Finished

(* Steps that leave a client's screen, its channel and what it was handed  *)
(* as they are, or end a streamer, a subscription or the pane's showing.   *)
LEMMA ViewKeeps ==
  ASSUME NEW c \in Clients, AtWork(c), ViewRun(c), outputSeq \in Nat, outputSeq' \in Nat,
         outputSeq' >= outputSeq,
         handed'[c] = handed[c], lost'[c] = lost[c],
         pane'[c] = "shown" => pane[c] = "shown" /\ view'[c] = view[c],
         subscribers'[c] # 0 => /\ subscribers'[c] = subscribers[c]
                                /\ streamer'[c][subscribers[c]] = streamer[c][subscribers[c]],
         \A g \in Gens : /\ Finished(c, g) => Finished(c, g)'
                         /\ streamer'[c][g] = "running" =>
                              streamer[c][g] = "running" /\ chan'[c][g] = chan[c][g],
         handler'[c].at \in {"subscribe", "subscribing"} =>
           /\ handler[c].at \in {"subscribe", "subscribing"}
           /\ handler[c].arg \in Nat
           /\ handler[c].arg # 0 => handler'[c].arg = handler[c].arg
  PROVE  AtWork(c)' /\ ViewRun(c)'
<1>1. AtWork(c)'
  BY DEF AtWork
<1>2. ViewRun(c)'
  <2> SUFFICES ASSUME pane'[c] = "shown", view'[c].primed > 0
               PROVE  ViewRun(c)'
    BY DEF ViewRun
  <2> DEFINE v == view[c]
  <2>1. /\ ~v.dup /\ v.painted /\ (v.gap => Missed(c))
        /\ handler[c].at \in {"subscribe", "subscribing"} =>
             /\ handler[c].arg = v.pos /\ v.pos \in 1..outputSeq /\ ~v.gap
        /\ \A g \in Gens : streamer[c][g] = "running" =>
             /\ Ordered(chan[c][g], v.pos)
             /\ ~Missed(c) => Joined(chan[c][g], v.pos)
             /\ subscribers[c] = g =>
                  /\ EndPos(chan[c][g], v.pos) <= handed[c]
                  /\ ~Missed(c) => EndPos(chan[c][g], v.pos) = handed[c]
    BY DEF ViewRun
  <2>2. view'[c] = v /\ (Missed(c)' <=> Missed(c))
    BY DEF Missed
  <2> HIDE DEF v
  <2>3. handler'[c].at \in {"subscribe", "subscribing"} =>
          handler'[c].arg = v.pos /\ v.pos \in 1..outputSeq' /\ ~v.gap
    BY <2>1
  <2>4. ASSUME NEW g \in Gens, streamer'[c][g] = "running"
        PROVE  /\ Ordered(chan'[c][g], v.pos)
               /\ ~Missed(c)' => Joined(chan'[c][g], v.pos)
               /\ subscribers'[c] = g =>
                    /\ EndPos(chan'[c][g], v.pos) <= handed'[c]
                    /\ ~Missed(c)' => EndPos(chan'[c][g], v.pos) = handed'[c]
    <3>1. streamer[c][g] = "running" /\ chan'[c][g] = chan[c][g]
      BY <2>4
    <3>2. subscribers'[c] = g => subscribers[c] = g
      BY PtyStreamAssumption DEF Gens
    <3> QED
      BY <2>1, <2>2, <3>1, <3>2
  <2> QED
    BY <2>1, <2>2, <2>3, <2>4 DEF ViewRun
<1> QED
  BY <1>1, <1>2

LEMMA HandedKeeps ==
  ASSUME NEW c \in Clients, HandedBelow(c), UNCHANGED <<outputSeq, stage>>,
         handed'[c] = handed[c], sent'[c] = sent[c],
         subscribers'[c] # 0 => subscribers'[c] = subscribers[c]
  PROVE  HandedBelow(c)'
BY DEF HandedBelow, Receivers

(* What a client knows when nothing of it changes.                         *)
LEMMA ViewSame ==
  ASSUME StreamInv, NEW c \in Clients, AtWork(c), HandedBelow(c), ViewRun(c),
         outputSeq' \in Nat, outputSeq' >= outputSeq,
         view'[c] = view[c], handed'[c] = handed[c], lost'[c] = lost[c], pane'[c] = pane[c],
         subscribers'[c] = subscribers[c], streamer'[c] = streamer[c], chan'[c] = chan[c],
         \/ handler'[c] = handler[c]
         \/ handler'[c].at \notin {"subscribe", "subscribing"}
  PROVE  /\ AtWork(c)' /\ ViewRun(c)'
         /\ UNCHANGED <<outputSeq, stage>> /\ sent'[c] = sent[c] => HandedBelow(c)'
<1>1. outputSeq \in Nat /\ handler[c] \in Busy \cup Calm
  BY TypesSplit DEF StreamInv, StreamTypes, ClientTypes
<1>2. \A g \in Gens : /\ Finished(c, g) => Finished(c, g)'
                      /\ streamer'[c][g] = "running" =>
                           streamer[c][g] = "running" /\ chan'[c][g] = chan[c][g]
  BY DEF Finished
<1>3. handler'[c].at \in {"subscribe", "subscribing"} =>
        /\ handler[c].at \in {"subscribe", "subscribing"}
        /\ handler[c].arg \in Nat
        /\ handler[c].arg # 0 => handler'[c].arg = handler[c].arg
  BY <1>1 DEF Busy, Calm
<1>4. AtWork(c)' /\ ViewRun(c)'
  BY <1>1, <1>2, <1>3, ViewKeeps
<1> QED
  BY <1>4, HandedKeeps

LEMMA ViewAppend ==
  ASSUME StreamInv, SeamInv, ViewInv, NEW n \in 1..MaxChunk, AppendToBuffer(n)
  PROVE  ViewInv'
<1> SUFFICES ASSUME NEW c \in Clients PROVE (AtWork(c) /\ HandedBelow(c) /\ ViewRun(c))'
  BY DEF ViewInv
<1>1. AtWork(c) /\ HandedBelow(c) /\ ViewRun(c) /\ outputSeq \in Nat /\ n \in Nat
  BY TypesSplit, PtyStreamAssumption DEF ViewInv, StreamInv, StreamTypes
<1>2. /\ outputSeq' = outputSeq + n /\ stage'.item = Chunk(outputSeq, outputSeq + n)
      /\ UNCHANGED <<subscribers, sent, chan, streamer, handed, lost, handler, pane, view>>
  BY DEF AppendToBuffer, subVars, connVars
<1>3. AtWork(c)' /\ ViewRun(c)'
  BY <1>1, <1>2, ViewSame
<1>4. HandedBelow(c)'
  <2>1. Chunk(outputSeq, outputSeq + n).lo = outputSeq
    BY DEF Chunk
  <2>2. subscribers[c] # 0 => handed[c] <= outputSeq
    BY <1>1 DEF HandedBelow
  <2>3. handed[c] \in Nat
    BY DEF SeamInv, SeamTypes
  <2> QED
    BY <1>1, <1>2, <2>1, <2>2, <2>3 DEF HandedBelow
<1> QED
  BY <1>3, <1>4

(* Resize and vtWriter's queue: no chunk is due.                           *)
LEMMA ViewStage ==
  ASSUME StreamInv, SeamInv, ViewInv, QueueForEmulator \/ \E c \in Clients : MarkResize(c)
  PROVE  ViewInv'
<1> SUFFICES ASSUME NEW d \in Clients PROVE (AtWork(d) /\ HandedBelow(d) /\ ViewRun(d))'
  BY DEF ViewInv
<1>1. AtWork(d) /\ HandedBelow(d) /\ ViewRun(d) /\ outputSeq \in Nat
      /\ handler \in [Clients -> Busy \cup Calm]
  BY TypesSplit DEF ViewInv, StreamInv, StreamTypes, ClientTypes
<1>2. /\ UNCHANGED <<outputSeq, subscribers, sent, chan, streamer, handed, lost, pane, view>>
      /\ UNCHANGED stage \/ stage'.item.kind = "size"
  <2>1. Free.item.kind = "size" /\ \A w : Resized(w).kind = "size"
    BY ResizedIsItem DEF Free
  <2>2. CASE QueueForEmulator
    BY <2>1, <2>2 DEF QueueForEmulator, subVars
  <2>3. CASE \E c \in Clients : MarkResize(c)
    BY <2>1, <2>3 DEF MarkResize, subVars
  <2> QED
    BY <2>2, <2>3
<1>3. \/ handler'[d] = handler[d]
      \/ handler'[d].at \notin {"subscribe", "subscribing"}
  <2>1. CASE QueueForEmulator
    <3>1. CASE handler[d].at = "instream"
      <4>1. handler'[d] = [handler[d] EXCEPT !.at = "queued"] /\ handler[d] \in Busy
        BY <1>1, <2>1, <3>1 DEF QueueForEmulator, Calm
      <4> QED
        BY <4>1 DEF Busy
    <3>2. CASE handler[d].at # "instream"
      BY <2>1, <3>2 DEF QueueForEmulator
    <3> QED
      BY <3>1, <3>2
  <2>2. ASSUME NEW c \in Clients, MarkResize(c)
        PROVE  \/ handler'[d] = handler[d]
               \/ handler'[d].at \notin {"subscribe", "subscribing"}
    <3>1. CASE d # c
      BY <1>1, <2>2, <3>1 DEF MarkResize
    <3>2. CASE d = c
      <4>1. handler[c] \in Busy
        BY <1>1, <2>2 DEF MarkResize, Calm
      <4>2. \E a \in {"instream", "queued"} : handler'[c] = [handler[c] EXCEPT !.at = a]
        BY <1>1, <2>2 DEF MarkResize
      <4> QED
        BY <3>2, <4>1, <4>2 DEF Busy
    <3> QED
      BY <3>1, <3>2
  <2> QED
    BY <2>1, <2>2
<1>4. AtWork(d)' /\ ViewRun(d)' /\ (UNCHANGED stage => HandedBelow(d)')
  BY <1>1, <1>2, <1>3, ViewSame
<1>5. HandedBelow(d)'
  BY <1>1, <1>2, <1>4 DEF HandedBelow
<1> QED
  BY <1>4, <1>5

(* broadcast: the chunk begins where what the subscriber was handed ends,  *)
(* or behind it if a chunk was dropped.                                    *)
LEMMA ViewBroadcast ==
  ASSUME StreamInv, SeamInv, ViewInv, Broadcast
  PROVE  ViewInv'
<1> SUFFICES ASSUME NEW c \in Clients PROVE (AtWork(c) /\ HandedBelow(c) /\ ViewRun(c))'
  BY DEF ViewInv
<1> DEFINE item == stage.item
           to   == Receivers(item)
           took == {d \in to : Len(chan[d][subscribers[d]]) < SubCap}
           g    == subscribers[c]
<1>1. /\ AtWork(c) /\ HandedBelow(c) /\ ViewRun(c) /\ SeamExact
      /\ outputSeq \in Nat /\ subscribers[c] \in 0..MaxGen /\ item \in Item
      /\ handed[c] \in Nat /\ lost[c] \in Nat /\ MaxGen \in Nat
      /\ chan \in [Clients -> [Gens -> Seq(Item)]] /\ view[c] \in View
  BY TypesSplit, PtyStreamAssumption DEF ViewInv, StreamInv, SeamInv, StreamTypes, ClientTypes
<1>2. /\ stage.at = "appended" /\ stage'.at = "broadcast"
      /\ UNCHANGED <<outputSeq, subscribers, streamer, handler, pane, view>>
      /\ chan'[c] = IF c \in took THEN [chan[c] EXCEPT ![g] = Append(@, item)] ELSE chan[c]
      /\ handed'[c] = IF c \in took /\ item.kind = "data" THEN item.hi ELSE handed[c]
      /\ lost'[c] = IF lost[c] = 0 /\ c \in to \ took /\ item.kind = "data"
                    THEN item.lo + 1 ELSE lost[c]
  BY DEF Broadcast, connVars, StreamInv, TypeOK
<1>3. /\ item.lo \in Nat /\ item.hi \in Nat /\ item.kind \in {"data", "size"}
      /\ item.kind = "data" => item.lo <= item.hi /\ item.hi = outputSeq
  <2>1. item.lo \in Nat /\ item.hi \in Nat /\ item.kind \in {"data", "size"}
    BY <1>1, ItemPlaces
  <2>2. item.kind = "data" => item.lo < item.hi /\ item.hi = outputSeq
    BY <1>2 DEF SeamInv, StageAtEnd
  <2> HIDE DEF item
  <2> QED
    BY <2>1, <2>2
<1>4. /\ c \in took => c \in to /\ g # 0 /\ g \in Gens
      /\ c \in to => g # 0
  BY <1>1 DEF Receivers, Gens
<1>5. /\ g # 0 /\ item.kind = "data" /\ c \in to => handed[c] <= item.lo
      /\ g # 0 /\ item.kind = "data" /\ c \in to /\ lost[c] = 0 => handed[c] = item.lo
      /\ g # 0 => handed[c] <= outputSeq
  BY <1>1, <1>2 DEF HandedBelow, SeamExact
<1> HIDE DEF item, took, to
<1>6. AtWork(c)'
  BY <1>1, <1>2 DEF AtWork, Finished
<1>7. HandedBelow(c)'
  BY <1>1, <1>2, <1>3, <1>5 DEF HandedBelow
<1>8. ViewRun(c)'
  <2> DEFINE v == view[c]
  <2> SUFFICES ASSUME pane[c] = "shown", v.primed > 0
               PROVE  ViewRun(c)'
    BY <1>2 DEF ViewRun
  <2>1. /\ ~v.dup /\ v.painted /\ (v.gap => Missed(c)) /\ v.pos \in Nat
        /\ handler[c].at \in {"subscribe", "subscribing"} =>
             /\ handler[c].arg = v.pos /\ v.pos \in 1..outputSeq /\ ~v.gap
        /\ \A h \in Gens : streamer[c][h] = "running" =>
             /\ Ordered(chan[c][h], v.pos)
             /\ ~Missed(c) => Joined(chan[c][h], v.pos)
             /\ subscribers[c] = h =>
                  /\ EndPos(chan[c][h], v.pos) <= handed[c]
                  /\ ~Missed(c) => EndPos(chan[c][h], v.pos) = handed[c]
    BY <1>1 DEF ViewRun, View
  <2>2. view'[c] = v
    BY <1>2
  <2>3. ~Missed(c)' => /\ ~Missed(c) /\ lost[c] = 0
                       /\ c \in to /\ item.kind = "data" => c \in took
    BY <1>2, <1>3 DEF Missed
  <2> HIDE DEF v
  <2>4. v.gap => Missed(c)'
    BY <2>1, <2>3
  <2>5. ASSUME NEW h \in Gens, streamer[c][h] = "running"
        PROVE  /\ Ordered(chan'[c][h], v.pos)
               /\ ~Missed(c)' => Joined(chan'[c][h], v.pos)
               /\ g = h =>
                    /\ EndPos(chan'[c][h], v.pos) <= handed'[c]
                    /\ ~Missed(c)' => EndPos(chan'[c][h], v.pos) = handed'[c]
    <3>1. CASE c \in took
      <4>1. g \in Gens /\ streamer[c][g] = "running"
        BY <1>1, <1>4, <3>1 DEF AtWork
      <4>2. g = h
        BY <1>1, <2>5, <4>1 DEF AtWork, Finished
      <4> DEFINE q == chan[c][h]
      <4>3. q \in Seq(Item) /\ chan'[c][h] = Append(q, item) /\ chan'[c] \in [Gens -> Seq(Item)]
        <5>1. chan[c] \in [Gens -> Seq(Item)]
          BY <1>1
        <5> HIDE DEF g
        <5>2. chan'[c] = [chan[c] EXCEPT ![h] = Append(q, item)]
          BY <1>2, <3>1, <4>2
        <5> QED
          BY <1>1, <5>1, <5>2
      <4>4. /\ Ordered(q, v.pos) /\ (~Missed(c) => Joined(q, v.pos))
            /\ EndPos(q, v.pos) <= handed[c]
            /\ ~Missed(c) => EndPos(q, v.pos) = handed[c]
        BY <2>1, <2>5, <4>2
      <4>5. EndPos(q, v.pos) \in Nat
        BY <2>1, <4>3, EndPosIsPos
      <4> HIDE DEF q, g
      <4>6. /\ /\ Ordered(q, v.pos)
               /\ item.kind = "data" => EndPos(q, v.pos) <= item.lo /\ item.lo <= item.hi
               => Ordered(Append(q, item), v.pos)
            /\ Joined(q, v.pos) /\ (item.kind = "data" => item.lo = EndPos(q, v.pos) \/ item.clear)
               => Joined(Append(q, item), v.pos)
            /\ EndPos(Append(q, item), v.pos) =
                 IF item.kind = "data" THEN item.hi ELSE EndPos(q, v.pos)
        BY <1>1, <4>3, JoinRun DEF item
      <4>7. item.kind = "data" => EndPos(q, v.pos) <= item.lo /\ item.lo <= item.hi
        BY <1>1, <1>3, <1>4, <1>5, <3>1, <4>4, <4>5
      <4>8. ~Missed(c)' /\ item.kind = "data" => item.lo = EndPos(q, v.pos)
        BY <1>4, <1>5, <2>3, <3>1, <4>4
      <4>9. handed'[c] = IF item.kind = "data" THEN item.hi ELSE handed[c]
        BY <1>2, <3>1
      <4> QED
        BY <1>3, <2>3, <4>3, <4>4, <4>6, <4>7, <4>8, <4>9
    <3>2. CASE c \notin took
      <4>1. chan'[c][h] = chan[c][h] /\ handed'[c] = handed[c]
        BY <1>2, <3>2
      <4> QED
        BY <2>1, <2>3, <2>5, <4>1
    <3> QED
      BY <3>1, <3>2
  <2> QED
    BY <1>2, <2>1, <2>2, <2>4, <2>5 DEF ViewRun
<1> QED
  BY <1>6, <1>7, <1>8

(* Every other client, when a step is one client's.                        *)
LEMMA ViewOthers ==
  ASSUME StreamInv, ViewInv, NEW c \in Clients, NEW d \in Clients, d # c,
         UNCHANGED <<outputSeq, stage>>,
         view'[d] = view[d], handed'[d] = handed[d], lost'[d] = lost[d], pane'[d] = pane[d],
         subscribers'[d] = subscribers[d], streamer'[d] = streamer[d], chan'[d] = chan[d],
         sent'[d] = sent[d], handler'[d] = handler[d]
  PROVE  (AtWork(d) /\ HandedBelow(d) /\ ViewRun(d))'
<1>1. outputSeq \in Nat /\ outputSeq' \in Nat /\ outputSeq' >= outputSeq
  BY TypesSplit DEF StreamInv, StreamTypes
<1>2. AtWork(d) /\ HandedBelow(d) /\ ViewRun(d)
  BY DEF ViewInv
<1> QED
  BY <1>1, <1>2, ViewSame

(* A pane is primed when no streamer of its client is at work.             *)
LEMMA ViewShow ==
  ASSUME ~Hasty, StreamInv, ViewInv, NEW c \in Clients, ShowPane(c)
  PROVE  ViewInv'
<1>0. StreamTypes /\ ClientTypes /\ PipeOK /\ emu.seq \in Nat /\ outputSeq \in Nat
  BY TypesSplit DEF StreamInv, StreamTypes
<1>1. /\ \A g \in Gens : Finished(c, g)
      /\ UNCHANGED <<ptyVars, size, subVars, entry, ptyResume>>
      /\ \/ /\ view' = [view EXCEPT ![c] = Snapshot(emu.seq, emu.w)]
            /\ handler' = [handler EXCEPT ![c] = [at |-> "subscribe", arg |-> emu.seq]]
         \/ /\ handler' = [handler EXCEPT ![c] = [at |-> "subscribe", arg |-> 0]]
            /\ view' = [view EXCEPT ![c].primed = 0]
      /\ \A d \in Clients : d # c =>
           pane'[d] = pane[d] /\ view'[d] = view[d] /\ handler'[d] = handler[d]
  BY <1>0 DEF ShowPane, ClientTypes
<1>2. UNCHANGED <<outputSeq, stage, subscribers, sent, chan, streamer, handed, lost>>
  BY <1>1 DEF ptyVars, subVars
<1>3. ASSUME NEW d \in Clients, d # c
      PROVE  (AtWork(d) /\ HandedBelow(d) /\ ViewRun(d))'
  BY <1>1, <1>2, <1>3, ViewOthers
<1>4. AtWork(c)'
  BY <1>1, <1>2 DEF ViewInv, AtWork, Finished
<1>5. HandedBelow(c)'
  BY <1>2, HandedKeeps DEF ViewInv
<1>6. ViewRun(c)'
  <2>1. CASE view' = [view EXCEPT ![c].primed = 0]
    <3>1. view'[c].primed = 0
      BY <1>0, <2>1 DEF ClientTypes, View
    <3> QED
      BY <3>1 DEF ViewRun
  <2>2. CASE /\ view' = [view EXCEPT ![c] = Snapshot(emu.seq, emu.w)]
             /\ handler' = [handler EXCEPT ![c] = [at |-> "subscribe", arg |-> emu.seq]]
    <3>1. view'[c] = Snapshot(emu.seq, emu.w) /\ handler'[c].arg = emu.seq
      BY <1>0, <2>2 DEF ClientTypes
    <3>2. /\ ~view'[c].dup /\ view'[c].painted /\ ~view'[c].gap
          /\ view'[c].pos = emu.seq /\ view'[c].primed = emu.seq
      BY <3>1 DEF Snapshot
    <3>3. emu.seq <= outputSeq'
      BY <1>0, <1>2 DEF PipeOK
    <3>4. \A g \in Gens : streamer'[c][g] # "running"
      BY <1>1, <1>2 DEF Finished
    <3>5. emu.seq > 0 => emu.seq \in 1..outputSeq'
      BY <1>0, <1>2, <3>3
    <3> QED
      BY <3>1, <3>2, <3>4, <3>5 DEF ViewRun
  <2> QED
    BY <1>1, <2>1, <2>2
<1> QED
  BY <1>3, <1>4, <1>5, <1>6 DEF ViewInv

(* Subscribe: the catch-up runs on from what the pane shows.               *)
LEMMA CatchUpRunsOn ==
  ASSUME StreamInv, NEW pos \in 1..outputSeq
  PROVE  LET replay == CatchUp(pos)
             first  == Offer(Offer(<<>>, replay), <<Resized(emu.w)>>)
             gone   == FirstByte(SubSeq(replay, SubCap + 1, Len(replay)))
         IN  /\ first \in Seq(Item)
             /\ Ordered(first, pos) /\ Joined(first, pos)
             /\ EndPos(first, pos) <= outputSeq
             /\ gone = 0 => EndPos(first, pos) = outputSeq
<1> DEFINE replay == CatchUp(pos)
           k      == IF Len(replay) <= SubCap THEN Len(replay) ELSE SubCap
           cut    == SubSeq(replay, 1, k)
           size1  == Resized(emu.w)
           first  == Offer(Offer(<<>>, replay), <<size1>>)
           rest   == SubSeq(replay, SubCap + 1, Len(replay))
<1>0. /\ StreamTypes /\ TypeOK /\ RingOK /\ MarksOK /\ MarksTell
      /\ outputSeq \in Nat /\ pos \in Nat /\ pos # 0 /\ pos <= outputSeq
      /\ SubCap \in Nat
  BY TypesSplit, PtyStreamAssumption DEF StreamInv, StreamTypes
<1>1. /\ replay \in Seq(Item) /\ Within(replay, outputSeq)
      /\ Ordered(replay, pos) /\ Joined(replay, pos)
      /\ EndPos(replay, pos) = outputSeq
  BY <1>0, CatchUpRuns
<1>2. size1 \in Item /\ size1.kind = "size"
  BY <1>0, ItemsAreItems DEF StreamTypes, Resized
<1> HIDE DEF replay, size1
<1>3. k \in 0..Len(replay) /\ k <= SubCap
  BY <1>0, <1>1
<1>4. Offer(<<>>, replay) = cut
  <2>1. CASE Len(replay) <= SubCap
    <3>1. cut = replay /\ <<>> \o replay = replay
      BY <1>1, <2>1
    <3> QED
      BY <1>0, <1>1, <2>1, <3>1 DEF Offer
  <2>2. CASE ~(Len(replay) <= SubCap)
    <3>1. /\ Len(<<>>) = 0 /\ SubCap - 0 = SubCap /\ ~(0 + Len(replay) <= SubCap)
          /\ k = SubCap
      BY <1>0, <1>1, <2>2
    <3>2. Offer(<<>>, replay) = <<>> \o SubSeq(replay, 1, SubCap)
      BY <3>1 DEF Offer
    <3>3. cut \in Seq(Item)
      BY <1>1, <1>3
    <3> HIDE DEF k
    <3>4. <<>> \o cut = cut
      BY <3>3
    <3> QED
      BY <3>1, <3>2, <3>4
  <2> QED
    BY <2>1, <2>2
<1> HIDE DEF k
<1>5. /\ cut \in Seq(Item) /\ Len(cut) = k
      /\ Ordered(cut, pos) /\ Joined(cut, pos)
      /\ EndPos(cut, pos) <= outputSeq
      /\ (\A i \in (k + 1)..Len(replay) : replay[i].kind # "data") => EndPos(cut, pos) = outputSeq
  BY <1>0, <1>1, <1>3, CutRun
<1> HIDE DEF cut
<1>6. first = Append(cut, size1) \/ first = cut
  <2>1. CASE Len(cut) + 1 <= SubCap
    <3>1. Len(<<size1>>) = 1 /\ cut \o <<size1>> = Append(cut, size1)
      BY <1>2, <1>5
    <3> QED
      BY <1>4, <2>1, <3>1 DEF Offer
  <2>2. CASE ~(Len(cut) + 1 <= SubCap)
    <3>1. Len(<<size1>>) = 1 /\ SubCap - Len(cut) = 0 /\ SubSeq(<<size1>>, 1, 0) = <<>>
      BY <1>0, <1>3, <1>5, <2>2
    <3>2. cut \o <<>> = cut
      BY <1>5
    <3> QED
      BY <1>4, <2>2, <3>1, <3>2 DEF Offer
  <2> QED
    BY <2>1, <2>2
<1>7. /\ Append(cut, size1) \in Seq(Item)
      /\ Ordered(Append(cut, size1), pos) /\ Joined(Append(cut, size1), pos)
      /\ EndPos(Append(cut, size1), pos) = EndPos(cut, pos)
  BY <1>2, <1>5, JoinRun
<1>8. FirstByte(rest) = 0 => \A i \in (k + 1)..Len(replay) : replay[i].kind # "data"
  <2>1. rest \in Seq(Item)
    BY <1>0, <1>1
  <2>2. FirstByte(rest) = 0 => \A i \in DOMAIN rest : rest[i].kind # "data"
    BY <2>1, FirstByteIs
  <2>3. ASSUME NEW i \in (k + 1)..Len(replay)
        PROVE  \E j \in DOMAIN rest : rest[j] = replay[i]
    <3>1. k = SubCap /\ Len(replay) \in Nat
      BY <1>0, <1>1, <2>3 DEF k
    <3>2. i - SubCap \in DOMAIN rest /\ rest[i - SubCap] = replay[i]
      BY <1>0, <1>1, <2>3, <3>1
    <3> QED
      BY <3>2
  <2> HIDE DEF rest
  <2> QED
    BY <2>2, <2>3
<1> HIDE DEF first, rest
<1>9. /\ first \in Seq(Item) /\ Ordered(first, pos) /\ Joined(first, pos)
      /\ EndPos(first, pos) <= outputSeq
      /\ FirstByte(rest) = 0 => EndPos(first, pos) = outputSeq
  BY <1>5, <1>6, <1>7, <1>8
<1> QED
  BY <1>9 DEF first, rest, replay, size1

LEMMA ViewSubscribe ==
  ASSUME StreamInv, SeamInv, ViewInv, NEW c \in Clients, Subscribe(c)
  PROVE  ViewInv'
<1>0. StreamTypes /\ ClientTypes /\ outputSeq \in Nat
  BY TypesSplit DEF StreamInv, StreamTypes
<1> DEFINE arg   == handler[c].arg
           first == Offer(Offer(<<>>, CatchUp(arg)), <<Resized(emu.w)>>)
           gone  == FirstByte(SubSeq(CatchUp(arg), SubCap + 1, Len(CatchUp(arg))))
<1>1. PICK g \in Gens :
        /\ subscribers' = [subscribers EXCEPT ![c] = g]
        /\ chan' = [chan EXCEPT ![c][g] = first]
        /\ sent' = [sent EXCEPT ![c] = outputSeq]
        /\ handed' = [handed EXCEPT ![c] = outputSeq]
        /\ lost' = [lost EXCEPT ![c] = gone]
        /\ streamer' = [streamer EXCEPT ![c][g] = "running"]
  BY DEF Subscribe
<1>2. /\ handler[c].at = "subscribing"
      /\ handler' = [handler EXCEPT ![c] = [at |-> "idle", arg |-> 0]]
      /\ UNCHANGED <<ptyVars, size, entry, ptyResume, pane, view>>
  BY DEF Subscribe
<1>3. first \in Seq(Item) /\ arg \in Nat
  <2>1. arg \in Nat
    BY <1>0, <1>2 DEF ClientTypes, Busy, Calm
  <2> HIDE DEF arg
  <2> QED
    BY <2>1, FirstItems
<1>4. view[c].primed > 0 /\ pane[c] = "shown" => arg \in 1..outputSeq /\ arg = view[c].pos
                                                 /\ ~view[c].dup /\ view[c].painted /\ ~view[c].gap
  BY <1>2 DEF ViewInv, ViewRun
<1>5. arg \in 1..outputSeq =>
        /\ Ordered(first, arg) /\ Joined(first, arg)
        /\ EndPos(first, arg) <= outputSeq
        /\ gone = 0 => EndPos(first, arg) = outputSeq
  <2> HIDE DEF arg
  <2> QED
    BY CatchUpRunsOn
<1> HIDE DEF first, gone, arg
<1>6. /\ \A h \in Gens : Finished(c, h)
  BY <1>2 DEF ViewInv, AtWork
<1>7. /\ chan'[c][g] = first /\ streamer'[c][g] = "running"
      /\ \A h \in Gens : h # g => streamer'[c][h] = streamer[c][h]
      /\ subscribers'[c] = g /\ sent'[c] = outputSeq /\ handed'[c] = outputSeq /\ lost'[c] = gone
      /\ handler'[c].at = "idle" /\ view'[c] = view[c] /\ pane'[c] = pane[c]
      /\ outputSeq' = outputSeq /\ stage' = stage
  <2>1. /\ outputSeq' = outputSeq /\ stage' = stage
        /\ handler'[c].at = "idle" /\ view'[c] = view[c] /\ pane'[c] = pane[c]
    BY <1>0, <1>2 DEF ClientTypes, ptyVars
  <2>2. /\ subscribers'[c] = g /\ sent'[c] = outputSeq /\ handed'[c] = outputSeq /\ lost'[c] = gone
    BY <1>0, <1>1 DEF ClientTypes
  <2>3. chan'[c][g] = first
    BY <1>0, <1>1, <1>3, PutGen DEF ClientTypes
  <2>4. streamer'[c][g] = "running" /\ \A h \in Gens : h # g => streamer'[c][h] = streamer[c][h]
    BY <1>0, <1>1 DEF ClientTypes
  <2> QED
    BY <2>1, <2>2, <2>3, <2>4
<1>8. ASSUME NEW d \in Clients, d # c
      PROVE  (AtWork(d) /\ HandedBelow(d) /\ ViewRun(d))'
  <2>1. /\ subscribers'[d] = subscribers[d] /\ sent'[d] = sent[d] /\ handed'[d] = handed[d]
        /\ lost'[d] = lost[d] /\ handler'[d] = handler[d]
        /\ view'[d] = view[d] /\ pane'[d] = pane[d]
        /\ streamer'[d] = streamer[d] /\ chan'[d] = chan[d]
    BY <1>0, <1>1, <1>2, <1>8 DEF ClientTypes
  <2> QED
    BY <1>7, <1>8, <2>1, ViewOthers
<1>9. g # 0 /\ \A h \in Gens : h # g => Finished(c, h)'
  BY <1>6, <1>7 DEF Finished, Gens
<1>10. AtWork(c)'
  BY <1>6, <1>7, <1>9 DEF AtWork
<1>11. HandedBelow(c)'
  <2>1. stage.at = "appended" /\ stage.item.kind = "data" => stage.item.hi = outputSeq
    BY DEF SeamInv, StageAtEnd
  <2>2. stage.at = "appended" /\ stage.item.kind = "data" => c \notin Receivers(stage.item)'
    BY <1>0, <1>7, <2>1 DEF Receivers, StampOf
  <2> QED
    BY <1>0, <1>7, <2>2 DEF HandedBelow
<1>12. ViewRun(c)'
  <2> SUFFICES ASSUME pane[c] = "shown", view[c].primed > 0
               PROVE  ViewRun(c)'
    BY <1>7 DEF ViewRun
  <2> DEFINE v == view[c]
  <2>1. v.pos = arg /\ ~v.dup /\ v.painted /\ ~v.gap /\ view'[c] = v
    BY <1>4, <1>7
  <2>2. /\ Ordered(first, v.pos) /\ Joined(first, v.pos)
        /\ EndPos(first, v.pos) <= outputSeq
        /\ gone = 0 => EndPos(first, v.pos) = outputSeq
    BY <1>4, <1>5
  <2>3. \A h \in Gens : streamer'[c][h] = "running" => h = g
    BY <1>9 DEF Finished
  <2>4. ~Missed(c)' => gone = 0
    BY <1>7 DEF Missed
  <2> HIDE DEF v
  <2> QED
    BY <1>7, <2>1, <2>2, <2>3, <2>4 DEF ViewRun
<1> QED
  BY <1>8, <1>10, <1>11, <1>12 DEF ViewInv

(* streamPTYOutput sends what is first in the channel: it begins no        *)
(* earlier than what the pane shows ends, and exactly there if nothing was *)
(* lost.                                                                   *)
LEMMA ViewItem ==
  ASSUME StreamInv, ViewInv, NEW c \in Clients, NEW g \in Gens, StreamItem(c, g)
  PROVE  ViewInv'
<1> DEFINE q == chan[c][g]
           item == Head(q)
           v == view[c]
<1>0. StreamTypes /\ ClientTypes /\ outputSeq \in Nat
  BY TypesSplit DEF StreamInv, StreamTypes
<1>1. /\ streamer[c][g] = "running" /\ q # <<>>
      /\ chan' = [chan EXCEPT ![c][g] = Tail(q)]
      /\ \/ /\ pane[c] = "shown"
            /\ \/ view' = [view EXCEPT ![c] = Applied(v, item)]
               \/ view' = [view EXCEPT ![c] = [v EXCEPT !.overrun = TRUE]]
         \/ pane[c] # "shown" /\ view' = view
      /\ UNCHANGED <<ptyVars, size, subscribers, sent, streamer, handed, lost, entry,
                     ptyResume, handler, pane>>
  BY <1>0 DEF StreamItem, Overrun, ClientTypes
<1>2. /\ q \in Seq(Item) /\ item \in Item /\ Tail(q) \in Seq(Item) /\ v \in View
  BY <1>0, <1>1 DEF ClientTypes
<1>3. UNCHANGED <<outputSeq, stage, subscribers, sent, streamer, handed, lost, handler, pane>>
  BY <1>1 DEF ptyVars
<1>4. AtWork(c) /\ HandedBelow(c) /\ ViewRun(c)
  BY DEF ViewInv
<1>5. ASSUME NEW d \in Clients, d # c
      PROVE  (AtWork(d) /\ HandedBelow(d) /\ ViewRun(d))'
  <2>1. view'[d] = view[d] /\ chan'[d] = chan[d]
    BY <1>0, <1>1, <1>5 DEF ClientTypes
  <2> QED
    BY <1>3, <1>5, <2>1, ViewOthers
<1>6. chan'[c][g] = Tail(q)
  BY <1>0, <1>1, <1>2, PutGen DEF ClientTypes
<1> HIDE DEF item, q
<1>7. AtWork(c)' /\ HandedBelow(c)'
  BY <1>3, <1>4, HandedKeeps DEF AtWork, Finished
<1>8. ViewRun(c)'
  <2> SUFFICES ASSUME pane[c] = "shown", view'[c].primed > 0
               PROVE  ViewRun(c)'
    BY <1>3 DEF ViewRun
  <2>1. \/ view'[c] = Applied(v, item)
        \/ view'[c] = [v EXCEPT !.overrun = TRUE]
    BY <1>0, <1>1 DEF ClientTypes
  <2>2. v.primed > 0
    BY <1>2, <2>1, OverrunIsView DEF Applied, View
  <2>3. /\ ~v.dup /\ v.painted /\ (v.gap => Missed(c))
        /\ Ordered(q, v.pos) /\ (~Missed(c) => Joined(q, v.pos))
        /\ subscribers[c] = g => /\ EndPos(q, v.pos) <= handed[c]
                                 /\ ~Missed(c) => EndPos(q, v.pos) = handed[c]
    BY <1>1, <1>4, <2>2 DEF ViewRun, q
  <2>4. /\ handler[c].at \notin {"subscribe", "subscribing"}
        /\ \A h \in Gens : streamer[c][h] = "running" => h = g
    BY <1>1, <1>4 DEF AtWork, Finished
  <2>5. /\ item.lo \in Nat /\ item.hi \in Nat
        /\ item.kind \in {"data", "size"} /\ item.clear \in BOOLEAN
    BY <1>2, ItemPlaces
  <2>6. CASE view'[c] = Applied(v, item)
    <3> DEFINE p == IF item.kind = "data" THEN item.hi ELSE v.pos
    <3>1. v.pos \in Nat
      BY <1>2 DEF View
    <3>2. /\ Ordered(Tail(q), p) /\ (item.kind = "data" => v.pos <= item.lo /\ item.lo <= item.hi)
          /\ ~Missed(c) => /\ Joined(Tail(q), p)
                           /\ item.kind = "data" => item.lo = v.pos \/ item.clear
          /\ EndPos(Tail(q), p) = EndPos(q, v.pos)
      BY <1>1, <1>2, <2>3, LeaveRun DEF item
    <3>3. Missed(c)' <=> Missed(c)
      <4>1. Applied(v, item).overrun = v.overrun
        BY <1>2 DEF Applied, View
      <4> QED
        BY <1>3, <2>6, <4>1 DEF Missed
    <3>4. /\ view'[c].pos = p /\ ~view'[c].dup /\ view'[c].painted
          /\ view'[c].gap => Missed(c)
      <4>1. CASE item.kind = "size"
        BY <1>2, <2>3, <2>6, <4>1 DEF Applied, View
      <4>2. CASE item.kind = "data"
        <5> DEFINE dup == (v.dup /\ ~item.clear) \/ (~item.clear /\ item.lo < v.pos)
                   gap == (v.gap /\ ~item.clear) \/ (~item.clear /\ v.painted /\ item.lo > v.pos)
        <5>1. view'[c] = [v EXCEPT !.pos = item.hi, !.painted = TRUE, !.dup = dup, !.gap = gap]
          BY <2>6, <4>2 DEF Applied
        <5>2. ~dup
          BY <2>3, <2>5, <3>1, <3>2, <4>2
        <5>3. gap => Missed(c)
          BY <2>3, <2>5, <3>1, <3>2, <4>2
        <5> HIDE DEF dup, gap
        <5>4. /\ view'[c].pos = item.hi /\ view'[c].painted = TRUE
              /\ view'[c].dup = dup /\ view'[c].gap = gap
          BY <1>2, <5>1 DEF View
        <5> HIDE DEF v
        <5> QED
          BY <4>2, <5>2, <5>3, <5>4
      <4> QED
        BY <2>5, <4>1, <4>2
    <3> HIDE DEF p, v
    <3> QED
      BY <1>3, <1>6, <2>3, <2>4, <3>2, <3>3, <3>4 DEF ViewRun
  <2>7. CASE view'[c] = [v EXCEPT !.overrun = TRUE]
    <3>1. /\ view'[c].pos = v.pos /\ view'[c].dup = v.dup /\ view'[c].painted = v.painted
          /\ view'[c].overrun = TRUE /\ v.pos \in Nat
      BY <1>2, <2>7 DEF View
    <3>2. Missed(c)'
      BY <3>1 DEF Missed
    <3>3. /\ Ordered(Tail(q), v.pos) /\ EndPos(Tail(q), v.pos) <= EndPos(q, v.pos)
      BY <1>1, <1>2, <2>3, <3>1, SkipRun
    <3>4. subscribers[c] = g => EndPos(Tail(q), v.pos) <= handed[c]
      <4>1. EndPos(Tail(q), v.pos) \in Nat /\ EndPos(q, v.pos) \in Nat /\ handed[c] \in Nat
        BY <1>0, <1>2, <3>1, EndPosIsPos DEF ClientTypes
      <4> QED
        BY <2>3, <3>3, <4>1
    <3> HIDE DEF v
    <3> QED
      BY <1>3, <1>6, <2>3, <2>4, <3>1, <3>2, <3>3, <3>4 DEF ViewRun
  <2> QED
    BY <2>1, <2>6, <2>7
<1> QED
  BY <1>5, <1>7, <1>8 DEF ViewInv

(* Steps that end something of one client's, or of every client's.         *)
LEMMA ViewEnds ==
  ASSUME StreamInv, ViewInv, NEW d \in Clients, UNCHANGED <<outputSeq, stage>>,
         handed'[d] = handed[d], lost'[d] = lost[d], sent'[d] = sent[d],
         pane'[d] = "shown" => pane[d] = "shown" /\ view'[d] = view[d],
         subscribers'[d] # 0 => /\ subscribers'[d] = subscribers[d]
                                /\ streamer'[d][subscribers[d]] = streamer[d][subscribers[d]],
         \A g \in Gens : /\ Finished(d, g) => Finished(d, g)'
                         /\ streamer'[d][g] = "running" =>
                              streamer[d][g] = "running" /\ chan'[d][g] = chan[d][g],
         \/ handler'[d] = handler[d]
         \/ handler'[d].at \notin {"subscribe", "subscribing"}
         \/ /\ handler[d].at = "subscribe"
            /\ handler[d].arg # 0 => handler'[d].arg = handler[d].arg
  PROVE  (AtWork(d) /\ HandedBelow(d) /\ ViewRun(d))'
<1>1. outputSeq \in Nat /\ outputSeq' \in Nat /\ outputSeq' >= outputSeq
      /\ handler[d] \in Busy \cup Calm
  BY TypesSplit DEF StreamInv, StreamTypes, ClientTypes
<1>2. AtWork(d) /\ HandedBelow(d) /\ ViewRun(d)
  BY DEF ViewInv
<1>3. handler'[d].at \in {"subscribe", "subscribing"} =>
        /\ handler[d].at \in {"subscribe", "subscribing"}
        /\ handler[d].arg \in Nat
        /\ handler[d].arg # 0 => handler'[d].arg = handler[d].arg
  BY <1>1 DEF Busy, Calm
<1>4. AtWork(d)' /\ ViewRun(d)'
  BY <1>1, <1>2, <1>3, ViewKeeps
<1> QED
  BY <1>2, <1>4, HandedKeeps

LEMMA ViewRest ==
  ASSUME StreamInv, ViewInv, NEW c \in Clients,
         \/ \E w \in Sizes : AnnounceSize(c, w)
         \/ ResizeTty(c) \/ HandleSubscribePTY(c) \/ HidePane(c) \/ Unsubscribe(c) \/ Disconnect(c)
  PROVE  ViewInv'
<1> SUFFICES ASSUME NEW d \in Clients PROVE (AtWork(d) /\ HandedBelow(d) /\ ViewRun(d))'
  BY DEF ViewInv
<1>0. ClientTypes
  BY TypesSplit DEF StreamInv
<1>1. /\ UNCHANGED <<outputSeq, stage, handed, lost, sent, chan, streamer>>
      /\ \/ UNCHANGED subscribers
         \/ \E x \in {0, subscribers[c]} : subscribers' = [subscribers EXCEPT ![c] = x]
      /\ \/ UNCHANGED <<pane, view>>
         \/ /\ \E x \in {"hidden", "gone"} : pane' = [pane EXCEPT ![c] = x]
            /\ UNCHANGED view \/ view' = [view EXCEPT ![c].overrun = FALSE]
  <2>1. CASE \E w \in Sizes : AnnounceSize(c, w)
    BY <2>1 DEF AnnounceSize, ptyVars, subVars
  <2>2. CASE ResizeTty(c)
    BY <2>2 DEF ResizeTty, ptyVars, subVars
  <2>3. CASE HandleSubscribePTY(c)
    BY <2>3 DEF HandleSubscribePTY, ptyVars, subVars
  <2>4. CASE HidePane(c)
    BY <2>4 DEF HidePane, ptyVars, subVars
  <2>5. CASE Unsubscribe(c)
    BY <2>5 DEF Unsubscribe, ptyVars
  <2>6. CASE Disconnect(c)
    BY <2>6 DEF Disconnect, ptyVars
  <2> QED
    BY <2>1, <2>2, <2>3, <2>4, <2>5, <2>6
<1>2. \/ handler'[d] = handler[d]
      \/ handler'[d].at \notin {"subscribe", "subscribing"}
      \/ /\ handler[d].at = "subscribe"
         /\ handler[d].arg # 0 => handler'[d].arg = handler[d].arg
  <2>1. CASE HandleSubscribePTY(c)
    <3>1. CASE d # c
      BY <1>0, <2>1, <3>1 DEF HandleSubscribePTY, ClientTypes
    <3>2. CASE d = c
      <4>1. handler[c] \in Calm /\ handler[c].at = "subscribe"
        BY <1>0, <2>1 DEF HandleSubscribePTY, ClientTypes, Busy
      <4>2. handler[c].arg \in Nat
        BY <4>1 DEF Calm
      <4>3. \/ handler'[c] = [at |-> "idle", arg |-> 0]
            \/ handler'[c] = [at |-> "subscribing",
                              arg |-> IF handler[c].arg > 0 THEN handler[c].arg ELSE ptyResume[c]]
        BY <1>0, <2>1 DEF HandleSubscribePTY, ClientTypes
      <4> QED
        BY <3>2, <4>1, <4>2, <4>3
    <3> QED
      BY <3>1, <3>2
  <2>2. ASSUME \E x : /\ x.at \notin {"subscribe", "subscribing"}
                      /\ handler' = [handler EXCEPT ![c] = x]
        PROVE  handler'[d] = handler[d] \/ handler'[d].at \notin {"subscribe", "subscribing"}
    BY <1>0, <2>2 DEF ClientTypes
  <2>3. CASE \E w \in Sizes : AnnounceSize(c, w)
    <3>1. PICK w \in Sizes : handler' = [handler EXCEPT ![c] = [at |-> "announced", arg |-> w]]
      BY <2>3 DEF AnnounceSize
    <3>2. [at |-> "announced", arg |-> w].at \notin {"subscribe", "subscribing"}
      OBVIOUS
    <3> QED
      BY <2>2, <3>1, <3>2
  <2>4. CASE ResizeTty(c) \/ Unsubscribe(c)
    <3>1. handler' = [handler EXCEPT ![c] = [at |-> "idle", arg |-> 0]]
      BY <2>4 DEF ResizeTty, Unsubscribe
    <3>2. [at |-> "idle", arg |-> 0].at \notin {"subscribe", "subscribing"}
      OBVIOUS
    <3> QED
      BY <2>2, <3>1, <3>2
  <2>5. CASE HidePane(c)
    <3>1. handler' = [handler EXCEPT ![c] = [at |-> "unsubscribing", arg |-> 0]]
      BY <2>5 DEF HidePane
    <3>2. [at |-> "unsubscribing", arg |-> 0].at \notin {"subscribe", "subscribing"}
      OBVIOUS
    <3> QED
      BY <2>2, <3>1, <3>2
  <2>6. CASE Disconnect(c)
    BY <2>6 DEF Disconnect
  <2> QED
    BY <2>1, <2>3, <2>4, <2>5, <2>6
<1>3. subscribers'[d] # 0 => subscribers'[d] = subscribers[d]
  BY <1>0, <1>1 DEF ClientTypes
<1>4. pane'[d] = "shown" => pane[d] = "shown" /\ view'[d] = view[d]
  BY <1>0, <1>1 DEF ClientTypes
<1>5. \A g \in Gens : /\ Finished(d, g) => Finished(d, g)'
                      /\ streamer'[d][g] = "running" =>
                           streamer[d][g] = "running" /\ chan'[d][g] = chan[d][g]
  BY <1>1 DEF Finished
<1>6. UNCHANGED <<outputSeq, stage>> /\ streamer' = streamer
      /\ handed'[d] = handed[d] /\ lost'[d] = lost[d] /\ sent'[d] = sent[d]
  BY <1>1
<1> QED
  BY <1>2, <1>3, <1>4, <1>5, <1>6, ViewEnds

(* A streamer that ends takes its subscription with it.                    *)
LEMMA ViewStreamerEnds ==
  ASSUME StreamInv, ViewInv, NEW c \in Clients, NEW g \in Gens,
         StreamEnd(c, g) \/ StreamForget(c, g)
  PROVE  ViewInv'
<1> SUFFICES ASSUME NEW d \in Clients PROVE (AtWork(d) /\ HandedBelow(d) /\ ViewRun(d))'
  BY DEF ViewInv
<1>0. ClientTypes
  BY TypesSplit DEF StreamInv
<1>1. /\ UNCHANGED <<outputSeq, stage, view, handed, lost, sent, handler, pane>>
      /\ \/ /\ streamer[c][g] = "running"
            /\ streamer' = [streamer EXCEPT ![c][g] = "ending"]
            /\ subscribers' = [subscribers EXCEPT ![c] = 0] /\ UNCHANGED chan
         \/ /\ streamer[c][g] = "ending"
            /\ streamer' = [streamer EXCEPT ![c][g] = "done"]
            /\ chan' = [chan EXCEPT ![c][g] = <<>>] /\ UNCHANGED subscribers
  BY DEF StreamEnd, StreamForget, ptyVars, connVars
<1>2. \A h \in Gens : h # g \/ d # c => /\ streamer'[d][h] = streamer[d][h]
                                        /\ chan'[d][h] = chan[d][h]
  <2>1. streamer \in [Clients -> [Gens -> {"none", "running", "ending", "done"}]]
        /\ chan \in [Clients -> [Gens -> Seq(Item)]] /\ <<>> \in Seq(Item)
    BY <1>0 DEF ClientTypes
  <2>2. \A h \in Gens : h # g \/ d # c => streamer'[d][h] = streamer[d][h]
    BY <1>1, <2>1
  <2>3. \A h \in Gens : h # g \/ d # c => chan'[d][h] = chan[d][h]
    BY <1>1, <2>1
  <2> QED
    BY <2>2, <2>3
<1>3. /\ streamer'[c][g] \in {"ending", "done"}
      /\ streamer'[c][g] = "ending" => streamer[c][g] = "running"
  BY <1>0, <1>1 DEF ClientTypes
<1>4. \A h \in Gens : /\ Finished(d, h) => Finished(d, h)'
                      /\ streamer'[d][h] = "running" =>
                           streamer[d][h] = "running" /\ chan'[d][h] = chan[d][h]
  BY <1>2, <1>3 DEF Finished
<1>5. subscribers'[d] # 0 => /\ subscribers'[d] = subscribers[d]
                             /\ streamer'[d][subscribers[d]] = streamer[d][subscribers[d]]
  <2>1. subscribers[d] # 0 => subscribers[d] \in Gens /\ streamer[d][subscribers[d]] = "running"
    <3>1. subscribers[d] \in 0..MaxGen /\ MaxGen \in Nat
      BY <1>0, PtyStreamAssumption DEF ClientTypes
    <3>2. subscribers[d] # 0 => subscribers[d] \in Gens
      BY <3>1 DEF Gens
    <3>3. subscribers[d] # 0 => streamer[d][subscribers[d]] = "running"
      BY DEF ViewInv, AtWork
    <3> QED
      BY <3>2, <3>3
  <2>2. subscribers'[d] # 0 => subscribers'[d] = subscribers[d]
    BY <1>0, <1>1 DEF ClientTypes
  <2>3. subscribers'[d] # 0 => subscribers[d] # g \/ d # c
    BY <1>0, <1>1, <2>1, <2>2 DEF ClientTypes
  <2> QED
    BY <1>2, <2>1, <2>2, <2>3
<1>6. UNCHANGED <<outputSeq, stage>> /\ pane'[d] = pane[d] /\ handler'[d] = handler[d]
      /\ view'[d] = view[d] /\ handed'[d] = handed[d] /\ lost'[d] = lost[d] /\ sent'[d] = sent[d]
  BY <1>1
<1> QED
  BY <1>4, <1>5, <1>6, ViewEnds

LEMMA ViewNext ==
  ASSUME ~Hasty, StreamInv, SeamInv, ViewInv, [Next]_vars
  PROVE  ViewInv'
<1>1. CASE UNCHANGED vars \/ VtWrite \/ GuestExit \/ ClosePTY
  <2> SUFFICES ASSUME NEW d \in Clients PROVE (AtWork(d) /\ HandedBelow(d) /\ ViewRun(d))'
    BY DEF ViewInv
  <2>1. /\ UNCHANGED <<outputSeq, stage, view, handed, lost, sent, chan, streamer, handler, pane>>
        /\ UNCHANGED subscribers \/ subscribers' = [c \in Clients |-> 0]
    BY <1>1 DEF vars, VtWrite, GuestExit, ClosePTY, ptyVars, subVars, connVars
  <2>2. subscribers'[d] # 0 => subscribers'[d] = subscribers[d]
    BY <2>1
  <2>3. \A g \in Gens : /\ Finished(d, g) => Finished(d, g)'
                        /\ streamer'[d][g] = "running" =>
                             streamer[d][g] = "running" /\ chan'[d][g] = chan[d][g]
    BY <2>1 DEF Finished
  <2> QED
    BY <2>1, <2>2, <2>3, ViewEnds
<1>2. CASE Stream
  BY <1>1, <1>2, ViewAppend, ViewBroadcast, ViewStage DEF Stream
<1>3. ASSUME NEW c \in Clients, Connection(c)
      PROVE  ViewInv'
  BY <1>3, ViewRest, ViewStage, ViewShow, ViewSubscribe DEF Connection
<1>4. ASSUME NEW c \in Clients, Streaming(c)
      PROVE  ViewInv'
  BY <1>4, ViewItem, ViewStreamerEnds DEF Streaming
<1> QED
  BY <1>1, <1>2, <1>3, <1>4 DEF Next

(* A pane primed from a snapshot and subscribed behind it paints no byte   *)
(* twice, and misses none unless its channel overflowed, if it is shown    *)
(* again only when its last streamer has returned: shown sooner, it is fed *)
(* what streamPTYOutput of the showing before had still to write.          *)
THEOREM ViewExactHolds == ~Hasty => (Spec => []ViewExact)
<1> SUFFICES ASSUME ~Hasty PROVE Spec => []ViewExact
  OBVIOUS
<1>1. StreamInv /\ SeamInv /\ ViewInv /\ [Next]_vars => (StreamInv /\ SeamInv /\ ViewInv)'
  BY StreamNext, SeamNext, ViewNext
<1>2. ViewInv => ViewExact
  BY DEF ViewInv, ViewRun, ViewExact
<1> QED
  BY StreamInit, SeamInit, ViewInit, <1>1, <1>2, PTL DEF Spec

=============================================================================
