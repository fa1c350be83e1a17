----------------------------- MODULE RemoteCall -----------------------------
(***************************************************************************)
(* What the Lua shell promises its user: a line is answered before the     *)
(* next one is read; it is executed at most once, by the other thread, and *)
(* the answer is the outcome of that execution, or the reason why there is *)
(* none.  The promise ends when both threads have been in the interpreter  *)
(* at the same time.                                                       *)
(***************************************************************************)
EXTENDS Naturals

CONSTANTS Lines, Silent, Outcomes, Refusals

VARIABLES
  stage,        \* of the line: "none", "asked", "run"
  line,         \* the line asked last
  answer,       \* the last answer: <<outcome, line>>
  void          \* the promise has ended

vars == <<stage, line, answer, void>>

Nothing == <<Silent, 0>>

Init == stage = "none" /\ line = 0 /\ answer = Nothing /\ void = FALSE

Ask ==
  /\ stage = "none"
  /\ stage' = "asked"
  /\ line' = (line % Lines) + 1
  /\ UNCHANGED <<answer, void>>

Run ==
  /\ stage = "asked"
  /\ stage' = "run"
  /\ UNCHANGED <<line, answer, void>>

Answer ==
  /\ \/ stage = "run" /\ \E out \in Outcomes : answer' = <<out, line>>
     \/ stage = "asked" /\ \E out \in Refusals : answer' = <<out, line>>
  /\ stage' = "none"
  /\ UNCHANGED <<line, void>>

Restart == stage' = "none" /\ line' = 0 /\ answer' = Nothing /\ void' = FALSE

End == void' = TRUE

Next == (~ void /\ (Ask \/ Run \/ Answer)) \/ Restart \/ End

Spec == Init /\ [][Next]_vars
=============================================================================
