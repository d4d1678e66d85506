-------------------------- MODULE WorkerIpcContract --------------------------
(***************************************************************************)
(* The broker and its daemon (WorkerIpc) keep the contract of their        *)
(* callers (CallContract).                                                 *)
(***************************************************************************)
EXTENDS WorkerIpc

\* The frames that answer call c's own command: in a pipe, or consumed.
AnswersTo(c) ==
  {f \in {got[c]} \union
         UNION {{outbox[w][i] : i \in DOMAIN outbox[w]} : w \in Workers} :
     /\ f # NoFrame
     /\ method[c] # "none"
     /\ f.cmd = [call |-> c, action |-> ActionOf[method[c]]]}

PhaseOf(c) ==
  CASE pc[c] = "idle"  -> "idle"
    [] pc[c] # "idle" /\ pc[c] # "done" -> "pending"
    [] pc[c] = "done" /\ outcome[c] = "answered" -> "returned"
    [] pc[c] = "done" /\ outcome[c] = "cancelled" -> "cancelled"
    [] OTHER -> "ended"

AnswerOf(c) ==
  IF AnswersTo(c) = {} THEN NoFrame ELSE CHOOSE f \in AnswersTo(c) : TRUE

Contract ==
  INSTANCE CallContract WITH
    Answers <- Frame,
    Unanswered <- NoFrame,
    phase <- [c \in Calls |-> PhaseOf(c)],
    answer <- [c \in Calls |-> AnswerOf(c)]

\* Each call sees its command take effect at most once, gets the value that
\* effect produced, and never fails first and takes effect later.
KeepsContract == Contract!Spec
=============================================================================
