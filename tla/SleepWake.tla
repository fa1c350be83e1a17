----------------------------- MODULE SleepWake ------------------------------
(***************************************************************************)
(* The automatic shutdown of an idle board and its scheduled wake-up:      *)
(* wdg_timer_callback and _scheduled_startup of main.c, the os functions   *)
(* of loslib.c that steer them, and the counter no_activity_time, which    *)
(* retarget_getc advances each second on the shell thread.                 *)
(*                                                                         *)
(* The shell thread preempts the main thread anywhere, so what it does to  *)
(* the counter comes between any two statements of the callback; it waits  *)
(* while the main thread runs a chunk for it.  (_reset_wdg, which the      *)
(* callback calls first, is in module Watchdog.)                           *)
(*                                                                         *)
(* The real time clock counts seconds modulo Month, the period of a        *)
(* CHECK_DHMS alarm; Day is the period of a CHECK_HMS alarm.               *)
(***************************************************************************)
EXTENDS Integers

CONSTANTS
  Day, Month,   \* seconds in a day and in a month
  Limits,       \* values of max_no_activity_time, in seconds
  Limit0,       \* its initial value
  Intervals,    \* values of wakeup_interval, in seconds; os.wkupint
                \* takes any number of minutes, and 2^30 * 60 wraps to 0
  Interval0,    \* its initial value
  Delays        \* arguments of os.schedule(n), n > 0

ASSUME SleepAssumption ==
  /\ Day \in Nat \ {0} /\ Month \in Nat \ {0} /\ Month % Day = 0
  /\ Limits \subseteq Nat \ {0} /\ Limit0 \in Limits
  /\ \E m \in Limits : \A n \in Limits : n <= m
  /\ Intervals \subseteq Nat /\ Interval0 \in Intervals \ {0}
  /\ \A i \in Intervals : i > 0 => i <= Day /\ Month % i = 0
  /\ Delays \subseteq Nat \ {0}

VARIABLES
  power,                  \* "on", "asleep" (code 778), "off" (code 777)
  now,                    \* the real time clock
  usb,                    \* a USB cable is plugged in
  alarm,                  \* the scheduled startup
  no_activity_time,
  max_no_activity_time,
  wakeup_interval,
  shutdown_cb,            \* os.onshutdown has registered a function
  pc,                     \* where the main thread is (see Places)
  usb_stat, rtct,         \* locals of the callback, while they are live
  \* history, read by the properties only:
  idle,                   \* seconds since somebody last showed activity
  requested,              \* os.schedule(0) was the last word on it
  late,                   \* activity came after the last check
  slept                   \* seconds since the board went asleep

settings == <<max_no_activity_time, wakeup_interval, shutdown_cb>>
locals   == <<usb_stat, rtct>>
history  == <<idle, requested, late>>
vars     == <<power, now, usb, alarm, no_activity_time, settings, pc, locals,
              history, slept>>

(***************************************************************************)
(* loop      the event loop                                                *)
(* chunk     docall for the shell thread, which waits                      *)
(* event     the Lua callback of a timer or a device                       *)
(* callback  the Lua callback of os.onshutdown, within wdg_timer_callback  *)
(* clear, clock, alarm, down   its statements after the checks             *)
(***************************************************************************)
InLua    == {"chunk", "event", "callback"}
PastCheck == {"clear", "clock", "alarm", "down"}
Places   == {"loop"} \union InLua \union PastCheck

NoAlarm == [rule |-> "none", at |-> 0]
Alarms  == [rule : {"none", "HMS", "DHMS"}, at : 0 .. Month-1]

\* The counter is of interest up to the first second beyond every limit.
Cap == 1 + CHOOSE m \in Limits : \A n \in Limits : n <= m
Capped(n) == IF n < Cap THEN n ELSE Cap

\* What the processor forgets when it goes down.
ClearRam ==
  /\ no_activity_time' = 0 /\ shutdown_cb' = FALSE
  /\ pc' = "loop" /\ usb_stat' = FALSE /\ rtct' = 0
  /\ idle' = 0 /\ requested' = FALSE /\ late' = FALSE

Boot ==
  /\ power' = "on" /\ alarm' = NoAlarm /\ slept' = 0
  /\ max_no_activity_time' = Limit0 /\ wakeup_interval' = Interval0
  /\ ClearRam

Init ==
  /\ power = "on" /\ alarm = NoAlarm /\ slept = 0
  /\ now \in 0 .. Month-1 /\ usb \in BOOLEAN
  /\ max_no_activity_time = Limit0 /\ wakeup_interval = Interval0
  /\ no_activity_time = 0 /\ shutdown_cb = FALSE
  /\ pc = "loop" /\ usb_stat = FALSE /\ rtct = 0
  /\ idle = 0 /\ requested = FALSE /\ late = FALSE

-----------------------------------------------------------------------------
(* The outside world.                                                      *)

Rings == \/ alarm.rule = "HMS"  /\ now % Day = alarm.at % Day
         \/ alarm.rule = "DHMS" /\ now = alarm.at

\* The alarm of a board that is down goes off when the clock reaches it, not
\* when the board goes down in that very second.
Due == power # "on" /\ slept # 0 /\ Rings

\* A second passes.  retarget_getc counts it unless the shell waits.
Tick ==
  /\ ~Due
  /\ now' = (now + 1) % Month
  /\ IF power = "on"
     THEN /\ no_activity_time' = IF pc = "chunk" THEN no_activity_time
                                 ELSE Capped(no_activity_time + 1)
          /\ idle' = Capped(idle + 1)
          /\ UNCHANGED slept
     ELSE /\ slept' = IF slept <= Day THEN slept + 1 ELSE slept
          /\ UNCHANGED <<no_activity_time, idle>>
  /\ UNCHANGED <<power, usb, alarm, settings, pc, locals, requested, late>>

\* The scheduled startup.
Startup ==
  /\ Due
  /\ Boot
  /\ UNCHANGED <<now, usb>>

\* Somebody presses the power key, or any reset.
Restart ==
  /\ Boot
  /\ UNCHANGED <<now, usb>>

Plug ==
  /\ usb' = ~usb
  /\ UNCHANGED <<power, now, alarm, no_activity_time, settings, pc, locals,
                 history, slept>>

-----------------------------------------------------------------------------
(* Activity, and the os functions.                                         *)

Activity ==
  /\ no_activity_time' = 0
  /\ idle' = 0 /\ requested' = FALSE
  /\ late' = (pc \in PastCheck)

\* The shell thread takes a character in retarget_getc.
Character ==
  /\ power = "on" /\ pc # "chunk"
  /\ Activity
  /\ UNCHANGED <<power, now, usb, alarm, settings, pc, locals, slept>>

\* A chunk of the shell, or the callback of a device.
EnterLua ==
  /\ power = "on" /\ pc = "loop"
  /\ pc' \in {"chunk", "event"}
  /\ UNCHANGED <<power, now, usb, alarm, no_activity_time, settings, locals,
                 history, slept>>

Lua == power = "on" /\ pc \in InLua

LeaveLua ==
  /\ Lua /\ pc # "callback"
  /\ pc' = "loop"
  /\ UNCHANGED <<power, now, usb, alarm, no_activity_time, settings, locals,
                 history, slept>>

\* os.noacttime(n)
os_noact_time ==
  /\ Lua
  /\ \/ /\ max_no_activity_time' \in Limits
        /\ UNCHANGED <<no_activity_time, history>>
     \/ /\ Activity
        /\ UNCHANGED max_no_activity_time
  /\ UNCHANGED <<power, now, usb, alarm, wakeup_interval, shutdown_cb, pc,
                 locals, slept>>

\* os.wkupint(n)
os_wakeup_int ==
  /\ Lua
  /\ wakeup_interval' \in Intervals
  /\ UNCHANGED <<power, now, usb, alarm, no_activity_time,
                 max_no_activity_time, shutdown_cb, pc, locals, history, slept>>

\* os.onshutdown(f)
os_onshdwn_cb ==
  /\ Lua
  /\ shutdown_cb' = TRUE
  /\ UNCHANGED <<power, now, usb, alarm, no_activity_time,
                 max_no_activity_time, wakeup_interval, pc, locals, history,
                 slept>>

\* os.schedule(n): an alarm of its own, or, for n <= 0, a request to sleep.
os_scheduled_startup ==
  /\ Lua
  /\ \/ /\ \E n \in Delays :
             alarm' = [rule |-> "DHMS", at |-> (now + n) % Month]
        /\ UNCHANGED <<no_activity_time, requested>>
     \/ /\ no_activity_time' = max_no_activity_time + 1
        /\ requested' = TRUE
        /\ UNCHANGED alarm
  /\ UNCHANGED <<power, now, usb, settings, pc, locals, idle, late, slept>>

\* os.shutdown()
os_shutdown ==
  /\ Lua
  /\ power' = "off" /\ slept' = 0
  /\ ClearRam
  /\ UNCHANGED <<now, usb, alarm, max_no_activity_time, wakeup_interval>>

-----------------------------------------------------------------------------
(* wdg_timer_callback.                                                     *)

Expired == no_activity_time > max_no_activity_time

TimerCallback ==
  /\ power = "on" /\ pc = "loop" /\ Expired
  /\ pc' = IF wakeup_interval > 0 /\ shutdown_cb THEN "callback" ELSE "clear"
  /\ late' = FALSE
  /\ UNCHANGED <<power, now, usb, alarm, no_activity_time, settings, locals,
                 idle, requested, slept>>

\* The callback has returned: "Check again".
MutantUnchecked ==
  /\ power = "on" /\ pc = "callback"
  /\ pc' = "clear"
  /\ late' = FALSE
  /\ UNCHANGED <<power, now, usb, alarm, no_activity_time, settings, locals,
                 idle, requested, slept>>

CallbackReturns ==
  /\ power = "on" /\ pc = "callback"
  /\ pc' = IF Expired THEN "clear" ELSE "loop"
  /\ late' = FALSE
  /\ UNCHANGED <<power, now, usb, alarm, no_activity_time, settings, locals,
                 idle, requested, slept>>

\* no_activity_time = 0; without a wake-up interval, that is all.
ClearCounter ==
  /\ power = "on" /\ pc = "clear"
  /\ no_activity_time' = 0
  /\ pc' = IF wakeup_interval > 0 THEN "clock" ELSE "loop"
  /\ requested' = (requested /\ wakeup_interval > 0)
  /\ late' = (late /\ wakeup_interval > 0)
  /\ UNCHANGED <<power, now, usb, alarm, settings, locals, idle, slept>>

\* vm_usb_get_cable_status, and vm_time_get_unix_time of _scheduled_startup.
MutantCableInverted ==
  /\ power = "on" /\ pc = "clock"
  /\ usb_stat' = ~usb /\ rtct' = now
  /\ pc' = "alarm"
  /\ UNCHANGED <<power, now, usb, alarm, no_activity_time, settings, history,
                 slept>>

ReadClock ==
  /\ power = "on" /\ pc = "clock"
  /\ usb_stat' = usb /\ rtct' = now
  /\ pc' = "alarm"
  /\ UNCHANGED <<power, now, usb, alarm, no_activity_time, settings, history,
                 slept>>

\* The first multiple of the interval above the time read: both are a whole
\* number of minutes, the time once it is rounded.
MutantNextStart(t, interval) == (t \div interval) * interval + interval

NextStart(t, interval) == ((t \div interval) * interval + interval) % Month

\* vm_pwr_scheduled_startup
MutantNoAlarm ==
  /\ power = "on" /\ pc = "alarm"
  /\ rtct' = 0
  /\ pc' = "down"
  /\ UNCHANGED <<power, now, usb, alarm, no_activity_time, settings, usb_stat,
                 history, slept>>

SetAlarm ==
  /\ power = "on" /\ pc = "alarm"
  /\ alarm' = [rule |-> "HMS", at |-> NextStart(rtct, wakeup_interval)]
  /\ rtct' = 0
  /\ pc' = "down"
  /\ UNCHANGED <<power, now, usb, no_activity_time, settings, usb_stat,
                 history, slept>>

\* vm_pwr_shutdown(778), unless a cable was plugged in.
ShutDown ==
  /\ power = "on" /\ pc = "down" /\ ~usb_stat
  /\ power' = "asleep" /\ slept' = 0
  /\ ClearRam
  /\ UNCHANGED <<now, usb, alarm, max_no_activity_time, wakeup_interval>>

StayUp ==
  /\ power = "on" /\ pc = "down" /\ usb_stat
  /\ pc' = "loop" /\ usb_stat' = FALSE
  /\ requested' = FALSE /\ late' = FALSE
  /\ UNCHANGED <<power, now, usb, alarm, no_activity_time, settings, rtct,
                 idle, slept>>

-----------------------------------------------------------------------------
Timer == TimerCallback \/ ClearCounter \/ ReadClock \/ SetAlarm \/ ShutDown
           \/ StayUp

LuaStep == EnterLua \/ LeaveLua \/ os_noact_time \/ os_wakeup_int
             \/ os_onshdwn_cb \/ os_scheduled_startup \/ os_shutdown
             \/ CallbackReturns

Next == Tick \/ Startup \/ Restart \/ Plug \/ Character \/ LuaStep \/ Timer

(***************************************************************************)
(* Time passes, the main thread runs its own code, and the alarm starts a  *)
(* board that is down.  No Lua function is obliged to return.              *)
(***************************************************************************)
Spec ==
  /\ Init /\ [][Next]_vars
  /\ WF_vars(Tick) /\ WF_vars(Timer) /\ WF_vars(Startup)

-----------------------------------------------------------------------------
TypeOK ==
  /\ power \in {"on", "asleep", "off"} /\ now \in 0 .. Month-1
  /\ usb \in BOOLEAN /\ alarm \in Alarms
  /\ no_activity_time \in 0 .. Cap /\ max_no_activity_time \in Limits
  /\ wakeup_interval \in Intervals /\ shutdown_cb \in BOOLEAN
  /\ pc \in Places /\ usb_stat \in BOOLEAN /\ rtct \in 0 .. Month-1
  /\ idle \in 0 .. Cap /\ requested \in BOOLEAN /\ late \in BOOLEAN
  /\ slept \in 0 .. Day + 1

(***************************************************************************)
(* The board goes asleep only when it was idle for longer than the limit,  *)
(* or was told to; what a user or the os.onshutdown callback does in time  *)
(* prevents it.  Only activity after the last check can come too late.     *)
(***************************************************************************)
SleepsForAReason ==
  [][power = "on" /\ power' = "asleep" =>
       idle > max_no_activity_time \/ requested \/ late]_vars

(***************************************************************************)
(* A board that put itself to sleep starts again: it is never switched off *)
(* with no alarm, nor with the alarm of os.schedule only, and an alarm that*)
(* has passed when the power goes down rings the next day.                 *)
(***************************************************************************)
WakesUp == power = "asleep" ~> power = "on"

(***************************************************************************)
(* A board that is left alone, with its wake-up interval set and no cable, *)
(* goes asleep.                                                            *)
(***************************************************************************)
LeftAlone == power = "on" /\ idle = Cap /\ pc \notin InLua
               /\ wakeup_interval > 0 /\ ~usb

SleepsWhenIdle == []<>~LeftAlone

(***************************************************************************)
(* "regular wake up interval in seconds" (main.c): a sleeping board wakes  *)
(* within wakeup_interval.  It does not when the second of the alarm       *)
(* passes between the reading of the clock and the shutdown.               *)
(***************************************************************************)
RegularWakeup == power = "asleep" => slept <= wakeup_interval
=============================================================================
