-------------------------------- MODULE Calls --------------------------------
(***************************************************************************)
(* The telephone calls of Lua/gsm.c: what a Lua program asks for, the      *)
(* answers to that and the indications of the network, which come in any   *)
(* order and set the one g_call_status and the one g_uid_info.  gsm.hang   *)
(* does nothing when the status is IDLE_CALL, and otherwise ends the call  *)
(* g_uid_info names.                                                       *)
(***************************************************************************)
EXTENDS Naturals

CONSTANT Numbers        \* identifiers of calls

(* What is assumed of the constants.                                        *)
Constants == 0 \notin Numbers

Actions == {"dial", "accept", "end"}
Status == {"IDLE_CALL", "CALLING", "RECEIVINGCALL", "TALKING"}

VARIABLES
  call,         \* each call in the network
  g_call_status,
  g_uid_info,
  awaited,      \* actions the network has not answered: at most one of a kind
  crossed       \* history: two calls at a time, an action refused, or an
                \* answer that comes when its call is over

vars == <<call, g_call_status, g_uid_info, awaited, crossed>>

(* Indicated to this phone, and not yet ended.                             *)
Phases == {"calling", "ringing", "talking"}
InNetwork == {c \in Numbers : call[c] # "none"}
Active == {c \in Numbers : call[c] \in Phases}

Init ==
  /\ call = [c \in Numbers |-> "none"]
  /\ g_call_status = "IDLE_CALL"
  /\ g_uid_info = 0
  /\ awaited = {}
  /\ crossed = FALSE

Phase(c, place) == call' = [call EXCEPT ![c] = place]

(* A call begins, alone unless another one or an answer is still about.    *)
Begins(c, place) ==
  /\ call[c] = "none"
  /\ Phase(c, place)
  /\ crossed' = (crossed \/ InNetwork # {} \/ awaited # {})

-----------------------------------------------------------------------------
(* What the program calls.                                                 *)

GsmCall(c) ==
  /\ "dial" \notin awaited
  /\ Begins(c, "dialled")
  /\ awaited' = awaited \union {"dial"}
  /\ UNCHANGED <<g_call_status, g_uid_info>>

GsmAnswer ==
  /\ "accept" \notin awaited
  /\ awaited' = awaited \union {"accept"}
  /\ UNCHANGED <<call, g_call_status, g_uid_info, crossed>>

GsmHang ==
  /\ g_call_status # "IDLE_CALL"
  /\ "end" \notin awaited
  /\ awaited' = awaited \union {"end"}
  /\ UNCHANGED <<call, g_call_status, g_uid_info, crossed>>

-----------------------------------------------------------------------------
(* call_listener_func: the indications.                                    *)

MutantIndication(c, place, status) ==
  /\ Phase(c, place)
  /\ g_call_status' = status
  /\ UNCHANGED <<g_uid_info, awaited, crossed>>

Indication(c, place, status) ==
  /\ Phase(c, place)
  /\ g_call_status' = status
  /\ g_uid_info' = c
  /\ UNCHANGED <<awaited, crossed>>

Incoming(c) ==
  /\ Begins(c, "ringing")
  /\ g_call_status' = "RECEIVINGCALL"
  /\ g_uid_info' = c
  /\ UNCHANGED awaited

Outgoing(c)  == call[c] = "dialled" /\ Indication(c, "calling", "CALLING")
Connected(c) == call[c] \in {"calling", "ringing"}
                  /\ Indication(c, "talking", "TALKING")

CallEnded(c) ==
  /\ c \in Active
  /\ Phase(c, "none")
  /\ g_call_status' = "IDLE_CALL"
  /\ UNCHANGED <<g_uid_info, awaited, crossed>>

-----------------------------------------------------------------------------
(* call_voiceCall_callback: the answers.                                   *)

Answer(a, status) ==
  /\ a \in awaited
  /\ awaited' = awaited \ {a}
  /\ g_call_status' = status
  /\ UNCHANGED g_uid_info

Accepted(a) ==
  /\ a \in {"dial", "accept"}
  /\ Answer(a, IF a = "dial" THEN "CALLING" ELSE "TALKING")
  /\ crossed' = (crossed \/ InNetwork = {})
  /\ UNCHANGED call

(* A call that was dialled and refused does not begin.                     *)
Refused(a) ==
  /\ a \in {"dial", "accept"}
  /\ Answer(a, "IDLE_CALL")
  /\ crossed' = TRUE
  /\ call' = [c \in Numbers |->
                IF a = "dial" /\ call[c] = "dialled" THEN "none" ELSE call[c]]

(* The call g_uid_info names has ended, or the network could not end it:   *)
(* the code does not look.                                                 *)
EndAnswered ==
  /\ Answer("end", "IDLE_CALL")
  /\ \/ /\ call' = [c \in Numbers |->
                      IF c = g_uid_info /\ c \in Active THEN "none" ELSE call[c]]
        /\ crossed' = (crossed \/ g_uid_info \notin Active)
     \/ /\ crossed' = TRUE
        /\ UNCHANGED call

-----------------------------------------------------------------------------
Answers ==
  EndAnswered \/ \E a \in {"dial", "accept"} : Accepted(a) \/ Refused(a)

Next ==
  \/ \E c \in Numbers : GsmCall(c) \/ Incoming(c) \/ Outgoing(c)
                          \/ Connected(c) \/ CallEnded(c)
  \/ GsmAnswer \/ GsmHang \/ Answers

Spec == Init /\ [][Next]_vars

TypeOK ==
  /\ call \in [Numbers -> Phases \union {"none", "dialled"}]
  /\ g_call_status \in Status
  /\ g_uid_info \in Numbers \union {0}
  /\ awaited \subseteq Actions
  /\ crossed \in BOOLEAN

(* Safety, gsm.c: a call that goes on can be hung up: the status is not    *)
(* idle and the recorded identifier is its own, in whatever order answers  *)
(* and indications come, unless two calls cross, an action is refused or   *)
(* an answer comes late.                                                   *)
CanHangUp ==
  \A c \in Active :
    crossed \/ (g_call_status # "IDLE_CALL" /\ g_uid_info = c)
=============================================================================
