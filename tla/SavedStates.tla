---------------------------- MODULE SavedStates ----------------------------
(***************************************************************************)
(* What saving promises of the sessions of a daemon.  A name has one       *)
(* session at a time.  A session's state is taken at one moment and        *)
(* replaces what is saved under its name as a whole, or is given up; it    *)
(* is not taken again before that.  A crash takes every session and leaves *)
(* every saved state as it is; a saved state goes only when its session    *)
(* ends or while its name has none.                                        *)
(***************************************************************************)
CONSTANTS
  Slots, Names, Contents, None,
  Spoilt    \* what something outside makes of a saved state

VARIABLES
  owner,   \* slot -> the name of its session, None if it has none
  held,    \* slot -> what its session holds
  taken,   \* slot -> the state taken to be saved, None if there is none
  saved    \* name -> the saved state, None, or one spoilt from outside

vars == <<owner, held, taken, saved>>

NoOne == [s \in Slots |-> None]

Unused(n) == \A s \in Slots : owner[s] # n

Init == owner = NoOne /\ held = NoOne /\ taken = NoOne /\ saved = [n \in Names |-> None]

Begin(s, n) ==
  /\ owner[s] = None /\ Unused(n)
  /\ owner' = [owner EXCEPT ![s] = n]
  /\ \E c \in Contents : c.ver = 0 /\ held' = [held EXCEPT ![s] = c]
  /\ UNCHANGED <<taken, saved>>

Change(s) ==
  /\ owner[s] # None
  /\ \E c \in Contents : c.line = held[s].line /\ held' = [held EXCEPT ![s] = c]
  /\ UNCHANGED <<owner, taken, saved>>

Take(s) ==
  /\ owner[s] # None /\ taken[s] = None
  /\ taken' = [taken EXCEPT ![s] = held[s]]
  /\ UNCHANGED <<owner, held, saved>>

Put(s) ==
  /\ taken[s] # None
  /\ saved' = [saved EXCEPT ![owner[s]] = taken[s]]
  /\ taken' = [taken EXCEPT ![s] = None]
  /\ UNCHANGED <<owner, held>>

GiveUp(s) ==
  /\ taken[s] # None
  /\ taken' = [taken EXCEPT ![s] = None]
  /\ UNCHANGED <<owner, held, saved>>

(* A session that is killed takes its saved state along.                   *)
End(s) ==
  /\ owner[s] # None /\ taken[s] = None
  /\ owner' = [owner EXCEPT ![s] = None]
  /\ held' = [held EXCEPT ![s] = None]
  /\ saved' \in {saved, [saved EXCEPT ![owner[s]] = None]}
  /\ UNCHANGED taken

Crash == owner' = NoOne /\ held' = NoOne /\ taken' = NoOne /\ UNCHANGED saved

(* A saved state that is of no use, or spoilt, is put away.                *)
Drop(n) ==
  /\ saved[n] \in Spoilt \/ Unused(n)
  /\ saved' = [saved EXCEPT ![n] = None]
  /\ UNCHANGED <<owner, held, taken>>

Spoil(n) ==
  /\ saved[n] # None /\ owner = NoOne
  /\ \E f \in Spoilt : saved' = [saved EXCEPT ![n] = f]
  /\ UNCHANGED <<owner, held, taken>>

Next ==
  \/ \E s \in Slots :
       \/ \E n \in Names : Begin(s, n)
       \/ Change(s) \/ Take(s) \/ Put(s) \/ GiveUp(s) \/ End(s)
  \/ Crash
  \/ \E n \in Names : Drop(n) \/ Spoil(n)

Spec == Init /\ [][Next]_vars
=============================================================================
