------------------------------- MODULE Ratchet -------------------------------
(***************************************************************************)
(* What rekey promises for the keys of each session, seen from both ends:  *)
(* the server moves on by one ratchet at a time, only from where its       *)
(* client is, and the client follows each of these moves once or misses    *)
(* it, in which case the server moves no further.  Whatever was begun may  *)
(* come to nothing, and a session may end at any time; one that has ended  *)
(* is only stored again by a ratchet begun before.                         *)
(*                                                                         *)
(* Sessions are independent: a step of the system is at most one step of   *)
(* each, and several may end together.                                     *)
(***************************************************************************)
EXTENDS Integers

CONSTANT Sids

VARIABLES
  stored,   \* stored[s]: the epoch the server has keys of, or Gone
  held,     \* held[s]: the epoch of the client's keys
  phase     \* phase[s]: of the ratchet under way, "none", "begun" or "due"

vars == <<stored, held, phase>>

Gone == -1

Init ==
  /\ stored = [s \in Sids |-> Gone]
  /\ held = [s \in Sids |-> 0]
  /\ phase = [s \in Sids |-> "none"]

Becomes(s, k, h, ph) == stored'[s] = k /\ held'[s] = h /\ phase'[s] = ph

Open(s) ==
  /\ stored[s] = Gone /\ held[s] = 0 /\ phase[s] = "none"
  /\ Becomes(s, 0, 0, "none")

\* A ratchet starts from keys both sides have.
Begin(s) ==
  /\ phase[s] = "none" /\ stored[s] = held[s]
  /\ Becomes(s, stored[s], held[s], "begun")

\* The server is one ahead of its client now, which is due to follow.
Advance(s) ==
  /\ phase[s] = "begun" /\ stored[s] \in {Gone, held[s]}
  /\ Becomes(s, held[s] + 1, held[s], "due")

Follow(s) ==
  /\ phase[s] = "due" /\ stored[s] \in {Gone, held[s] + 1}
  /\ Becomes(s, stored[s], held[s] + 1, "none")

\* A ratchet fails before the server has moved, or its answer is lost after.
GiveUp(s) ==
  /\ phase[s] # "none"
  /\ Becomes(s, stored[s], held[s], "none")

\* The session ends, and with it perhaps the ratchet under way.
End(s) == \E ph \in {phase[s], "none"} : Becomes(s, Gone, held[s], ph)

Same(s) == Becomes(s, stored[s], held[s], phase[s])

Next ==
  \A s \in Sids :
    Open(s) \/ Begin(s) \/ Advance(s) \/ Follow(s) \/ GiveUp(s) \/ End(s) \/ Same(s)

Spec == Init /\ [][Next]_vars
=============================================================================
