----------------------------- MODULE DropOldest -----------------------------
(***************************************************************************)
(* What the receive buffer of the console promises: a queue of at most N   *)
(* characters, delivered once and in order; when it is full the OLDEST     *)
(* character makes room for the new one.                                   *)
(***************************************************************************)
EXTENDS Naturals, Sequences

CONSTANTS N, Chars, NoChar

VARIABLES queue,    \* the characters received and not yet delivered
          ch        \* the last character delivered

Init == queue = <<>> /\ ch = NoChar

Room == IF Len(queue) = N THEN Tail(queue) ELSE queue

Arrive(c) ==
  /\ queue' = Append(Room, c)
  /\ UNCHANGED ch

Deliver ==
  /\ queue # <<>>
  /\ ch' = Head(queue)
  /\ queue' = Tail(queue)

Next == Deliver \/ \E c \in Chars : Arrive(c)

Spec == Init /\ [][Next]_<<queue, ch>>
=============================================================================
