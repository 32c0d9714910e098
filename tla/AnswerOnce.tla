----------------------------- MODULE AnswerOnce -----------------------------
(***************************************************************************)
(* What a control request promises whoever makes it: it is carried out at  *)
(* most once, answered at most once, and a success is never claimed for    *)
(* what has not been done.  A failure claims nothing: a request given up   *)
(* for late may still be carried out.                                      *)
(***************************************************************************)
CONSTANT Requests

VARIABLES
  asked,   \* requests that were made
  done,    \* requests carried out
  answer   \* request -> "none", "ok", "failed", or "gone": the asker left

vars == <<asked, done, answer>>

Init == asked = {} /\ done = {} /\ answer = [r \in Requests |-> "none"]

Ask(r) ==
  /\ r \notin asked
  /\ asked' = asked \cup {r}
  /\ UNCHANGED <<done, answer>>

CarryOut(r) ==
  /\ r \in asked \ done
  /\ done' = done \cup {r}
  /\ UNCHANGED <<asked, answer>>

Answer(r, a) ==
  /\ r \in asked /\ answer[r] = "none"
  /\ a = "ok" => r \in done
  /\ answer' = [answer EXCEPT ![r] = a]
  /\ UNCHANGED <<asked, done>>

(* Carried out and answered at once, where nobody else is needed.          *)
Serve(r) ==
  /\ r \in asked \ done /\ answer[r] = "none"
  /\ done' = done \cup {r}
  /\ answer' = [answer EXCEPT ![r] = "ok"]
  /\ UNCHANGED asked

Next == \E r \in Requests :
  Ask(r) \/ CarryOut(r) \/ Serve(r) \/ \E a \in {"ok", "failed", "gone"} : Answer(r, a)

Spec == Init /\ [][Next]_vars
=============================================================================
