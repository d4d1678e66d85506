---------------------------- MODULE CallContract ----------------------------
(***************************************************************************)
(* What a caller of the broker may rely on, with no pipe, lock or process  *)
(* in sight: the command of a call takes effect at most once, the value a  *)
(* call returns is the one that effect produced, and a call that reports a *)
(* failure has no effect afterwards.  Only a caller that cancelled its own *)
(* call may find the effect happening later.                               *)
(***************************************************************************)
CONSTANTS Calls, Answers, Unanswered

VARIABLES
  phase,   \* phase[c]: how far the caller of c sees it
  answer   \* answer[c]: what the command of c produced

vars == <<phase, answer>>

Phases == {"idle", "pending", "returned", "ended", "cancelled"}

Init ==
  /\ phase = [c \in Calls |-> "idle"]
  /\ answer = [c \in Calls |-> Unanswered]

Moves(c, from, to) ==
  /\ phase[c] = from
  /\ phase' = [phase EXCEPT ![c] = to]
  /\ UNCHANGED answer

Begin(c) == Moves(c, "idle", "pending")

\* Refused before it was looked at: the broker is closed.
Refuse(c) == Moves(c, "idle", "ended")

\* Some member of Answers; the set is only ever tested for membership.
Serve(c) ==
  /\ phase[c] \in {"pending", "cancelled"}
  /\ answer[c] = Unanswered
  /\ answer'[c] \in Answers
  /\ answer' = [answer EXCEPT ![c] = answer'[c]]
  /\ UNCHANGED phase

Return(c) == answer[c] # Unanswered /\ Moves(c, "pending", "returned")

Fail(c) == Moves(c, "pending", "ended")

Cancel(c) == Moves(c, "pending", "cancelled")

Next ==
  \E c \in Calls :
    Begin(c) \/ Refuse(c) \/ Serve(c) \/ Return(c) \/ Fail(c) \/ Cancel(c)

Spec == Init /\ [][Next]_vars
=============================================================================
