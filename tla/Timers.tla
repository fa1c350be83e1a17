------------------------------- MODULE Timers -------------------------------
(***************************************************************************)
(* The timers of Lua programs (Lua/timer.c) and the NTP client             *)
(* (Lua/sntp.c), which share the precise timers of the SDK.                *)
(*                                                                         *)
(* The SDK gives the identifier of a deleted timer to the next one that is *)
(* created.  A Lua timer keeps its identifier until its userdata is        *)
(* collected, and the collector deletes it, whoever has it by then; the    *)
(* NTP client keeps one identifier and one socket for all its requests.    *)
(* All callbacks run on the main thread, one after the other.              *)
(***************************************************************************)
EXTENDS Naturals

CONSTANTS
  Objects,      \* userdata a Lua program makes timers of
  Ids,          \* identifiers of the SDK's timers: bound, never exhausted
  Sockets,      \* UDP sockets: bound, never exhausted
  TimeOut       \* NTP_TIME_OUT, ticks (30 of 500 ms in the code)

NTP  == "ntp"
Free == "free"
None == "none"

(* What is assumed of the constants.                                        *)
Constants ==
  /\ {NTP, Free} \intersect Objects = {}
  /\ None \notin Ids \union Sockets
  /\ TimeOut \in Nat

VARIABLES
  owner,        \* whose each timer of the SDK is
  object,       \* userdata: "none", "held" by the program or "dropped"
  timer_id,     \* of a userdata
  ntp,          \* the static variables of sntp.c
  sockets,      \* open UDP sockets
  \* history
  overlapped,   \* an NTP request was made before the last one had ended
  strayed       \* a timer was deleted by another than its owner

vars == <<owner, object, timer_id, ntp, sockets, overlapped, strayed>>
lua  == <<object, timer_id>>

FreeIds == {i \in Ids : owner[i] = Free}

(* The client runs: it waits with a socket, or its timer still ticks.      *)
Running == sockets # {} \/ \E i \in Ids : owner[i] = NTP

(* What sntp_gettime stores.                                               *)
Request(id, socket, cb) ==
  [timer |-> id, udp |-> socket, set |-> FALSE, timeout |-> 0, cb |-> cb]

Init ==
  /\ owner = [i \in Ids |-> Free]
  /\ object = [o \in Objects |-> "none"]
  /\ timer_id = [o \in Objects |-> None]
  /\ ntp = Request(None, None, FALSE)
  /\ sockets = {}
  /\ overlapped = FALSE
  /\ strayed = FALSE

(* The timers left after `by` called vm_timer_delete_precise(id).          *)
Deleted(id) == [i \in Ids |-> IF i = id THEN Free ELSE owner[i]]

Strays(id, by) ==
  strayed' = (strayed \/ (id \in Ids /\ owner[id] \notin {by, Free}))

Delete(id, by) ==
  /\ owner' = Deleted(id)
  /\ Strays(id, by)

-----------------------------------------------------------------------------
(* Lua timers.                                                             *)

Create(o) ==
  /\ object[o] = "none"
  /\ \E id \in FreeIds :
       /\ owner' = [owner EXCEPT ![id] = o]
       /\ timer_id' = [timer_id EXCEPT ![o] = id]
  /\ object' = [object EXCEPT ![o] = "held"]
  /\ UNCHANGED <<ntp, sockets, overlapped, strayed>>

(* t:delete(), as often as the program likes.                              *)
TimerDelete(o) ==
  /\ object[o] = "held"
  /\ Delete(timer_id[o], o)
  /\ UNCHANGED <<lua, ntp, sockets, overlapped>>

Drop(o) ==
  /\ object[o] = "held"
  /\ object' = [object EXCEPT ![o] = "dropped"]
  /\ UNCHANGED <<owner, timer_id, ntp, sockets, overlapped, strayed>>

MutantTimerGC(o) ==
  /\ object[o] = "dropped"
  /\ object' = [object EXCEPT ![o] = "none"]
  /\ timer_id' = [timer_id EXCEPT ![o] = None]
  /\ UNCHANGED <<owner, ntp, sockets, overlapped, strayed>>

TimerGC(o) ==
  /\ object[o] = "dropped"
  /\ object' = [object EXCEPT ![o] = "none"]
  /\ timer_id' = [timer_id EXCEPT ![o] = None]
  /\ Delete(timer_id[o], o)
  /\ UNCHANGED <<ntp, sockets, overlapped>>

-----------------------------------------------------------------------------
(* The NTP client.                                                         *)

(* os.ntptime, with or without a function to call.                         *)
NtpTime(cb) ==
  /\ \E id \in FreeIds, s \in Sockets \ sockets :
       /\ ntp' = Request(id, s, cb)
       /\ owner' = [owner EXCEPT ![id] = NTP]
       /\ sockets' = sockets \union {s}
  /\ overlapped' = (overlapped \/ Running)
  /\ UNCHANGED <<lua, strayed>>

MutantTimedOut == ntp.timeout > TimeOut

TimedOut == ntp.timeout >= TimeOut

MutantNtpTick ==
  /\ \E i \in Ids : owner[i] = NTP
  /\ \/ /\ ~ntp.set /\ ~TimedOut
        /\ ntp' = [ntp EXCEPT !.timeout = @ + 1]
        /\ UNCHANGED <<owner, sockets, strayed>>
     \/ /\ ~ntp.set /\ TimedOut
        /\ ntp' = [ntp EXCEPT !.timeout = 0]
        /\ sockets' = sockets \ {ntp.udp}
        /\ UNCHANGED <<owner, strayed>>
     \/ /\ ntp.set
        /\ Delete(ntp.timer, NTP)
        /\ UNCHANGED <<ntp, sockets>>
  /\ UNCHANGED <<lua, overlapped>>

(* sntp_timer_callback: any timer of the client; all count for the last    *)
(* request, and it is the timer of that one which is deleted.              *)
NtpTick ==
  /\ \E i \in Ids : owner[i] = NTP
  /\ \/ /\ ~ntp.set /\ ~TimedOut
        /\ ntp' = [ntp EXCEPT !.timeout = @ + 1]
        /\ UNCHANGED <<owner, sockets, strayed>>
     \/ /\ ~ntp.set /\ TimedOut
        /\ ntp' = [ntp EXCEPT !.timeout = 0]
        /\ sockets' = sockets \ {ntp.udp}
        /\ Delete(ntp.timer, NTP)
     \/ /\ ntp.set
        /\ Delete(ntp.timer, NTP)
        /\ UNCHANGED <<ntp, sockets>>
  /\ UNCHANGED <<lua, overlapped>>

(* sntp_callback reads from the last socket, whichever has the event.      *)
Refused ==
  /\ sockets # {}
  /\ sockets' = sockets \ {ntp.udp}
  /\ UNCHANGED <<owner, lua, ntp, overlapped, strayed>>

MutantAnswered ==
  /\ ntp.udp \in sockets
  /\ Delete(ntp.timer, NTP)
  /\ ntp' = [ntp EXCEPT !.set = TRUE, !.cb = FALSE]
  /\ UNCHANGED <<lua, sockets, overlapped>>

Answered ==
  /\ ntp.udp \in sockets
  /\ Delete(ntp.timer, NTP)
  /\ ntp' = [ntp EXCEPT !.set = TRUE, !.cb = FALSE]
  /\ sockets' = sockets \ {ntp.udp}
  /\ UNCHANGED <<lua, overlapped>>

(* The function it calls asks for the time again: luaL_unref and vm_udp_   *)
(* close then take the function and the socket of the new request.         *)
AskedAgain ==
  /\ ntp.udp \in sockets /\ ntp.cb
  /\ \E id \in FreeIds \union {ntp.timer}, s \in Sockets \ sockets :
       /\ owner' = [Deleted(ntp.timer) EXCEPT ![id] = NTP]
       /\ ntp' = Request(id, s, FALSE)
  /\ Strays(ntp.timer, NTP)
  /\ overlapped' = TRUE
  /\ UNCHANGED <<lua, sockets>>

-----------------------------------------------------------------------------
Next ==
  \/ \E o \in Objects : Create(o) \/ TimerDelete(o) \/ Drop(o) \/ TimerGC(o)
  \/ \E cb \in BOOLEAN : NtpTime(cb)
  \/ NtpTick \/ Refused \/ Answered \/ AskedAgain

(* The SDK's timers keep ticking: the client needs nothing else to end.    *)
Fairness == WF_vars(NtpTick)

Spec == Init /\ [][Next]_vars /\ Fairness

TypeOK ==
  /\ owner \in [Ids -> Objects \union {NTP, Free}]
  /\ object \in [Objects -> {"none", "held", "dropped"}]
  /\ timer_id \in [Objects -> Ids \union {None}]
  /\ ntp \in [timer : Ids \union {None}, udp : Sockets \union {None},
              set : BOOLEAN, timeout : 0 .. TimeOut, cb : BOOLEAN]
  /\ sockets \subseteq Sockets
  /\ overlapped \in BOOLEAN /\ strayed \in BOOLEAN

(* Safety, timer.c: a timer never calls back with a userdata that has been *)
(* collected (__timer_callback reads it without a check), although the     *)
(* program may delete timers twice, or let one go while it runs, and the   *)
(* NTP client may delete timers that are not its own.                      *)
LiveCallbacks ==
  \A i \in Ids : owner[i] \in Objects => object[owner[i]] # "none"

(* Userdata whose timer is gone and which will delete it again.            *)
Stale(o) == object[o] # "none" /\ owner[timer_id[o]] # o

(* Action property, timer.c and sntp.c: nobody's timer is deleted by       *)
(* another as long as no program deletes a timer itself, which its         *)
(* collector will delete again, and NTP requests do not overlap.           *)
OwnTimers ==
  [][~strayed /\ strayed' => overlapped \/ \E o \in Objects : Stale(o)]_vars

(* Liveness, sntp.c: an NTP request ends, with socket and timer given      *)
(* back, whether the server answers, answers nothing or stays silent,      *)
(* unless a second one overlapped it or its timer was deleted by another.  *)
NtpEnds == Running ~> ~Running \/ overlapped \/ strayed
=============================================================================
