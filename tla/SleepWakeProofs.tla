-------------------------- MODULE SleepWakeProofs --------------------------
(***************************************************************************)
(* Proofs about SleepWake, for every length of the day and the month, all  *)
(* limits, intervals and delays.                                           *)
(***************************************************************************)
EXTENDS SleepWake, TLAPS

LEMMA Constants ==
  /\ Day \in Nat /\ Month \in Nat /\ Month > 0
  /\ Limits \subseteq Nat /\ Limit0 \in Limits
  /\ Intervals \subseteq Nat /\ Interval0 \in Intervals
  /\ Delays \subseteq Nat
BY SleepAssumption

LEMMA CapAboveLimits == Cap \in Nat /\ \A n \in Limits : n < Cap
<1>1. \E m \in Limits : \A n \in Limits : n <= m
  BY SleepAssumption
<1>2. (CHOOSE m \in Limits : \A n \in Limits : n <= m) \in Limits
  BY <1>1
<1>3. \A n \in Limits : n <= CHOOSE m \in Limits : \A k \in Limits : k <= m
  BY <1>1
<1>4. \A n \in Limits : n \in Nat
  BY SleepAssumption
<1> QED
  BY <1>2, <1>3, <1>4 DEF Cap

LEMMA CappedCounts ==
  ASSUME NEW n \in Nat
  PROVE  /\ Capped(n) \in 0 .. Cap
         /\ Capped(n) <= n
         /\ \A m \in Nat : n <= m => Capped(n) <= Capped(m)
         /\ \A l \in Limits : n > l => Capped(n) > l
BY CapAboveLimits, SleepAssumption DEF Capped

(* A second is a second of the month.                                      *)
LEMMA ClockIsModular ==
  ASSUME NEW n \in Nat
  PROVE  n % Month \in 0 .. Month - 1
BY SleepAssumption

LEMMA NextStartIsTime ==
  ASSUME NEW t \in Nat, NEW i \in Intervals, i > 0
  PROVE  NextStart(t, i) \in 0 .. Month - 1
<1>1. i \in Nat /\ i > 0
  BY SleepAssumption
<1>2. t \div i \in Nat
  BY <1>1
<1> DEFINE q == t \div i
<1>3. q * i + i \in Nat
  <2> HIDE DEF q
  <2>1. q \in Nat
    BY <1>2 DEF q
  <2> QED
    BY <1>1, <2>1
<1> QED
  BY <1>3, ClockIsModular DEF NextStart

(* The counter runs ahead of the idle time only after a request to sleep.  *)
Counted == no_activity_time <= idle \/ requested

(* And not once it has been cleared.                                       *)
Cleared == pc \in {"clock", "alarm", "down"} => no_activity_time <= idle

(* Past the checks there is a reason to sleep, or it has come too late.    *)
Reason == pc \in PastCheck => idle > max_no_activity_time \/ requested \/ late

(* An alarm is computed only with an interval.                             *)
Scheduled == pc \in {"clock", "alarm", "down"} => wakeup_interval > 0

IInv == TypeOK /\ Counted /\ Cleared /\ Reason /\ Scheduled

LEMMA Numbers ==
  /\ 0 \in 0 .. Cap /\ 0 \in 0 .. Month - 1 /\ 0 \in 0 .. Day + 1
  /\ \A n \in Limits : n \in Nat /\ n + 1 \in 0 .. Cap
BY Constants, CapAboveLimits

(* A board that comes up or goes down has forgotten what the invariant     *)
(* speaks of.                                                              *)
LEMMA Forgotten ==
  ASSUME ClearRam
  PROVE  /\ no_activity_time' \in 0 .. Cap /\ shutdown_cb' \in BOOLEAN
         /\ pc' \in Places /\ usb_stat' \in BOOLEAN
         /\ rtct' \in 0 .. Month - 1 /\ idle' \in 0 .. Cap
         /\ requested' \in BOOLEAN /\ late' \in BOOLEAN
         /\ Counted' /\ Cleared' /\ Reason' /\ Scheduled'
<1>1. /\ no_activity_time' = 0 /\ idle' = 0 /\ rtct' = 0 /\ pc' = "loop"
      /\ shutdown_cb' = FALSE /\ usb_stat' = FALSE /\ requested' = FALSE
      /\ late' = FALSE
  BY DEF ClearRam
<1>2. /\ no_activity_time' \in 0 .. Cap /\ idle' \in 0 .. Cap
      /\ rtct' \in 0 .. Month - 1
  BY <1>1, Numbers
<1>3. /\ shutdown_cb' \in BOOLEAN /\ usb_stat' \in BOOLEAN
      /\ requested' \in BOOLEAN /\ late' \in BOOLEAN
  BY <1>1
<1>4. pc' \in Places
  BY <1>1 DEF Places
<1>5. Counted'
  BY <1>1 DEF Counted
<1>6. Cleared' /\ Reason' /\ Scheduled'
  BY <1>1 DEF Cleared, Reason, Scheduled, PastCheck
<1> QED
  BY <1>2, <1>3, <1>4, <1>5, <1>6

LEMMA BootStep ==
  ASSUME Boot, TypeOK, UNCHANGED <<now, usb>>
  PROVE  IInv'
<1>1. ClearRam
  BY DEF Boot
<1>2. power' \in {"on", "asleep", "off"} /\ now' \in 0 .. Month - 1
  BY DEF Boot, TypeOK
<1>3. usb' \in BOOLEAN
  BY DEF TypeOK
<1>4. alarm' \in Alarms
  BY Numbers DEF Boot, Alarms, NoAlarm
<1>5. /\ max_no_activity_time' \in Limits /\ wakeup_interval' \in Intervals
      /\ slept' \in 0 .. Day + 1
  BY Numbers, Constants DEF Boot
<1>6. TypeOK'
  BY <1>1, <1>2, <1>3, <1>4, <1>5, Forgotten DEF TypeOK
<1> QED
  BY <1>1, <1>6, Forgotten DEF IInv

(* Activity past the checks is late.                                       *)
LEMMA LateActivity ==
  ASSUME Activity
  PROVE  late' \in BOOLEAN /\ (pc \in PastCheck => late')
<1>1. late' = (pc \in PastCheck)
  BY DEF Activity
<1>2. CASE pc \in PastCheck
  BY <1>1, <1>2
<1>3. CASE pc \notin PastCheck
  BY <1>1, <1>3
<1> QED
  BY <1>2, <1>3

LEMMA Inductive == IInv /\ [Next]_vars => IInv'
<1> SUFFICES ASSUME IInv, [Next]_vars PROVE IInv'
  OBVIOUS
<1>0. /\ max_no_activity_time + 1 \in 0 .. Cap
      /\ max_no_activity_time \in Nat /\ idle \in Nat
      /\ no_activity_time \in Nat
  BY Constants, Numbers, CapAboveLimits DEF IInv, TypeOK
<1> USE <1>0, Numbers
    DEF IInv, TypeOK, Counted, Cleared, Reason, Scheduled, PastCheck, InLua,
        Places, settings, locals, history
<1>1. CASE Tick
  <2>1. /\ Capped(no_activity_time + 1) \in 0 .. Cap
        /\ Capped(idle + 1) \in 0 .. Cap
        /\ no_activity_time <= idle =>
             Capped(no_activity_time + 1) <= Capped(idle + 1)
        /\ idle > max_no_activity_time =>
             Capped(idle + 1) > max_no_activity_time
        /\ no_activity_time <= idle => no_activity_time <= Capped(idle + 1)
    BY CappedCounts, CapAboveLimits DEF Capped
  <2>2. now' \in 0 .. Month - 1
    <3>1. now + 1 \in Nat
      BY Constants
    <3> QED
      BY <1>1, <3>1, ClockIsModular DEF Tick
  <2>3. CASE power = "on"
    BY <1>1, <2>1, <2>2, <2>3 DEF Tick
  <2>4. CASE power # "on"
    <3>1. slept' \in 0 .. Day + 1
      BY <1>1, <2>4, Constants DEF Tick
    <3> QED
      BY <1>1, <2>2, <2>4, <3>1 DEF Tick
  <2> QED
    BY <2>3, <2>4
<1>2. CASE Startup \/ Restart
  BY <1>2, BootStep DEF Startup, Restart
<1>3. CASE Plug
  BY <1>3 DEF Plug
<1>4. CASE Character
  <2>1. Activity
    BY <1>4 DEF Character
  <2>2. late' \in BOOLEAN /\ (pc \in PastCheck => late')
    BY <2>1, LateActivity
  <2>3. requested' \in BOOLEAN /\ no_activity_time' = 0 /\ idle' = 0
    BY <2>1 DEF Activity
  <2>4. TypeOK'
    BY <1>4, <2>2, <2>3 DEF Character
  <2> QED
    BY <1>4, <2>2, <2>3, <2>4 DEF Character
<1>5. CASE EnterLua \/ LeaveLua
  BY <1>5 DEF EnterLua, LeaveLua, Lua
<1>6. CASE os_noact_time
  <2>1. pc \in InLua /\ pc' = pc
    BY <1>6 DEF os_noact_time, Lua
  <2>2. CASE Activity
    <3>1. late' \in BOOLEAN
      BY <2>2, LateActivity
    <3>2. requested' \in BOOLEAN /\ no_activity_time' = 0 /\ idle' = 0
      BY <2>2 DEF Activity
    <3>3. max_no_activity_time' \in Limits
      BY <1>6 DEF os_noact_time
    <3>4. TypeOK'
      BY <1>6, <3>1, <3>2, <3>3 DEF os_noact_time
    <3> QED
      BY <2>1, <3>2, <3>4
  <2>3. CASE max_no_activity_time' \in Limits
               /\ UNCHANGED <<no_activity_time, history>>
    BY <1>6, <2>1, <2>3 DEF os_noact_time
  <2> QED
    BY <1>6, <2>2, <2>3 DEF os_noact_time
<1>7. CASE os_wakeup_int \/ os_onshdwn_cb
  BY <1>7 DEF os_wakeup_int, os_onshdwn_cb, Lua
<1>8. CASE os_scheduled_startup
  <2>1. alarm' \in Alarms
    <3>1. \A n \in Delays : (now + n) % Month \in 0 .. Month - 1
      BY ClockIsModular, Constants
    <3> QED
      BY <1>8, <3>1 DEF os_scheduled_startup, Alarms
  <2>2. pc \in InLua /\ pc' = pc
    BY <1>8 DEF os_scheduled_startup, Lua
  <2>3. /\ no_activity_time' \in 0 .. Cap /\ requested' \in BOOLEAN
        /\ Counted'
    <3>1. CASE UNCHANGED <<no_activity_time, requested>>
      BY <1>8, <3>1 DEF os_scheduled_startup
    <3>2. CASE /\ no_activity_time' = max_no_activity_time + 1
               /\ requested' = TRUE
      BY <3>2
    <3> QED
      BY <1>8, <3>1, <3>2 DEF os_scheduled_startup
  <2>4. TypeOK'
    BY <1>8, <2>1, <2>3 DEF os_scheduled_startup
  <2> QED
    BY <2>2, <2>3, <2>4
<1>9. CASE os_shutdown
  <2>1. ClearRam
    BY <1>9 DEF os_shutdown
  <2>2. TypeOK'
    <3>1. /\ power' \in {"on", "asleep", "off"} /\ slept' \in 0 .. Day + 1
          /\ UNCHANGED <<now, usb, alarm, max_no_activity_time,
                         wakeup_interval>>
      BY <1>9 DEF os_shutdown
    <3> HIDE DEF Counted, Cleared, Reason, Scheduled
    <3> QED
      BY <2>1, <3>1, Forgotten
  <2> QED
    <3> HIDE DEF TypeOK, Counted, Cleared, Reason, Scheduled
    <3> QED
      BY <2>1, <2>2, Forgotten
<1>10. CASE TimerCallback
  <2>1. /\ pc' \in {"callback", "clear"}
        /\ idle > max_no_activity_time \/ requested
    BY <1>10 DEF TimerCallback, Expired
  <2>2. late' \in BOOLEAN
    BY <1>10 DEF TimerCallback
  <2>3. TypeOK'
    BY <1>10, <2>1, <2>2 DEF TimerCallback
  <2> QED
    BY <1>10, <2>1, <2>3 DEF TimerCallback
<1>11. CASE CallbackReturns
  <2>1. \/ pc' = "clear" /\ (idle > max_no_activity_time \/ requested)
        \/ pc' = "loop"
    BY <1>11 DEF CallbackReturns, Expired
  <2>2. late' \in BOOLEAN
    BY <1>11 DEF CallbackReturns
  <2>3. TypeOK'
    BY <1>11, <2>1, <2>2 DEF CallbackReturns
  <2> QED
    BY <1>11, <2>1, <2>3 DEF CallbackReturns
<1>12. CASE ClearCounter
  BY <1>12 DEF ClearCounter
<1>13. CASE ReadClock
  BY <1>13 DEF ReadClock
<1>14. CASE SetAlarm
  <2>1. alarm' \in Alarms
    BY <1>14, NextStartIsTime DEF SetAlarm, Alarms
  <2> QED
    BY <1>14, <2>1 DEF SetAlarm
<1>15. CASE ShutDown
  <2>1. ClearRam
    BY <1>15 DEF ShutDown
  <2>2. TypeOK'
    <3>1. /\ power' \in {"on", "asleep", "off"} /\ slept' \in 0 .. Day + 1
          /\ UNCHANGED <<now, usb, alarm, max_no_activity_time,
                         wakeup_interval>>
      BY <1>15 DEF ShutDown
    <3> HIDE DEF Counted, Cleared, Reason, Scheduled
    <3> QED
      BY <2>1, <3>1, Forgotten
  <2> QED
    <3> HIDE DEF TypeOK, Counted, Cleared, Reason, Scheduled
    <3> QED
      BY <2>1, <2>2, Forgotten
<1>16. CASE StayUp
  BY <1>16 DEF StayUp
<1>17. CASE UNCHANGED vars
  BY <1>17 DEF vars
<1> QED
  BY <1>1, <1>2, <1>3, <1>4, <1>5, <1>6, <1>7, <1>8, <1>9, <1>10, <1>11, <1>12,
     <1>13, <1>14, <1>15, <1>16, <1>17 DEF Next, LuaStep, Timer

LEMMA Invariant == Spec => []IInv
<1>1. ASSUME Init PROVE IInv
  <2>1. /\ no_activity_time \in 0 .. Cap /\ idle \in 0 .. Cap
        /\ rtct \in 0 .. Month - 1 /\ slept \in 0 .. Day + 1
        /\ max_no_activity_time \in Limits /\ wakeup_interval \in Intervals
    BY <1>1, Numbers, Constants DEF Init
  <2>2. alarm \in Alarms
    BY <1>1, Numbers DEF Init, Alarms, NoAlarm
  <2>3. /\ shutdown_cb \in BOOLEAN /\ usb_stat \in BOOLEAN
        /\ requested \in BOOLEAN /\ late \in BOOLEAN
    BY <1>1 DEF Init
  <2>4. TypeOK
    BY <1>1, <2>1, <2>2, <2>3 DEF Init, TypeOK, Places
  <2>5. Counted
    BY <1>1 DEF Init, Counted
  <2> QED
    BY <1>1, <2>4, <2>5 DEF Init, IInv, Cleared, Reason, Scheduled, PastCheck
<1> QED
  BY <1>1, Inductive, PTL DEF Spec

(* Every variable keeps its type.                                          *)
THEOREM TypeCorrect == Spec => []TypeOK
<1>1. IInv => TypeOK
  BY DEF IInv
<1> QED
  BY <1>1, Invariant, PTL

(* The board goes asleep only when it was idle for longer than its limit   *)
(* or was told to, or activity came after the last check.                  *)
THEOREM SleepHasAReason == Spec => SleepsForAReason
<1>1. IInv /\ [Next]_vars =>
        [power = "on" /\ power' = "asleep" =>
           idle > max_no_activity_time \/ requested \/ late]_vars
  <2> SUFFICES ASSUME IInv, Next, power = "on", power' = "asleep"
               PROVE  idle > max_no_activity_time \/ requested \/ late
    OBVIOUS
  <2>1. ShutDown
    BY DEF Next, Tick, Startup, Restart, Boot, Plug, Character, LuaStep,
       EnterLua, LeaveLua, os_noact_time, os_wakeup_int, os_onshdwn_cb,
       os_scheduled_startup, os_shutdown, CallbackReturns, Timer, TimerCallback,
       ClearCounter, ReadClock, SetAlarm, StayUp
  <2> QED
    BY <2>1 DEF ShutDown, IInv, Reason, PastCheck
<1> QED
  BY <1>1, Invariant, PTL DEF Spec, SleepsForAReason
-----------------------------------------------------------------------------
(* Remainders.                                                             *)
LEMMA Product ==
  ASSUME NEW a \in Nat, NEW b \in Nat
  PROVE  a * b \in Nat
OBVIOUS

(* Quotient and remainder are unique.                                      *)
LEMMA RemainderIs ==
  ASSUME NEW m \in Nat \ {0}, NEW a \in Nat, NEW q \in Int,
         NEW r \in 0 .. m - 1, a = m * q + r
  PROVE  a % m = r
<1> DEFINE p == a \div m
           s == a % m
<1>1. s \in 0 .. m - 1 /\ p \in Int /\ a = m * p + s
  OBVIOUS
<1> HIDE DEF p, s
<1>2. ~(p > q)
  <2> SUFFICES ASSUME p > q PROVE FALSE
    OBVIOUS
  <2>1. p - q - 1 \in Nat
    BY <1>1
  <2>2. m * (p - q - 1) \in Nat
    BY <2>1, Product
  <2>3. m * (p - q - 1) = m * p - m * q - m
    BY <1>1
  <2> QED
    BY <1>1, <2>2, <2>3
<1>3. ~(q > p)
  <2> SUFFICES ASSUME q > p PROVE FALSE
    OBVIOUS
  <2>1. q - p - 1 \in Nat
    BY <1>1
  <2>2. m * (q - p - 1) \in Nat
    BY <2>1, Product
  <2>3. m * (q - p - 1) = m * q - m * p - m
    BY <1>1
  <2> QED
    BY <1>1, <2>2, <2>3
<1>4. p = q
  BY <1>1, <1>2, <1>3
<1> QED
  BY <1>1, <1>4 DEF s

(* A multiple of the modulus more makes no difference.                     *)
LEMMA Periodic ==
  ASSUME NEW m \in Nat \ {0}, NEW a \in Nat, NEW k \in Int, a + m * k \in Nat
  PROVE  (a + m * k) % m = a % m
<1> DEFINE p == a \div m
           s == a % m
<1>1. s \in 0 .. m - 1 /\ p \in Int /\ a = m * p + s
  OBVIOUS
<1> HIDE DEF p, s
<1>2. a + m * k = m * (p + k) + s
  BY <1>1
<1>3. p + k \in Int
  BY <1>1
<1> DEFINE b == a + m * k
<1>4. b \in Nat /\ b = m * (p + k) + s
  BY <1>2
<1>5. b % m = s
  <2> HIDE DEF b
  <2> QED
    BY <1>1, <1>3, <1>4, RemainderIs
<1> QED
  BY <1>5 DEF s

(* The hour of a time of the month some seconds on.                        *)
LEMMA HourLater ==
  ASSUME NEW t \in 0 .. Month - 1, NEW k \in Nat
  PROVE  (((t + 1) % Month) + k) % Day = (t + k + 1) % Day
<1> DEFINE c == Month \div Day
<1>1. /\ Day \in Nat \ {0} /\ Month \in Nat \ {0} /\ c \in Int
      /\ Month = Day * c
  <2>1. /\ Month = Day * (Month \div Day) + (Month % Day)
        /\ Month \div Day \in Int
    BY SleepAssumption
  <2> QED
    BY <2>1, SleepAssumption
<1> HIDE DEF c
<1>2. CASE t + 1 < Month
  <2>1. t + 1 \in 0 .. Month - 1 /\ t + 1 \in Nat /\ t + 1 = Month * 0 + (t + 1)
    BY <1>1, <1>2
  <2>2. (t + 1) % Month = t + 1
    <3> DEFINE a == t + 1
    <3>1. a \in 0 .. Month - 1 /\ a \in Nat /\ a = Month * 0 + a
      BY <1>1, <2>1
    <3>2. a % Month = a
      <4> HIDE DEF a
      <4> QED
        BY <1>1, <3>1, RemainderIs
    <3> QED
      BY <3>2
  <2>3. t + 1 + k = t + k + 1
    BY <1>1
  <2> QED
    BY <2>2, <2>3
<1>3. CASE t + 1 = Month
  <2>1. (t + 1) % Month = 0
    <3>1. Month \in Nat /\ Month = Month * 1 + 0 /\ 0 \in 0 .. Month - 1
      BY <1>1
    <3>2. Month % Month = 0
      BY <1>1, <3>1, RemainderIs
    <3> QED
      BY <1>3, <3>2
  <2>2. t + k + 1 = k + Day * c /\ k + Day * c \in Nat
    BY <1>1, <1>3
  <2>3. (k + Day * c) % Day = k % Day
    BY <1>1, <2>2, Periodic
  <2> QED
    BY <2>1, <2>2, <2>3
<1> QED
  BY <1>1, <1>2, <1>3

(* Every hour comes within a day.                                          *)
LEMMA HourComes ==
  ASSUME NEW t \in Nat, NEW u \in Nat
  PROVE  \E d \in 1 .. Day : (t + d) % Day = u % Day
<1>0. Day \in Nat \ {0}
  BY SleepAssumption
<1> DEFINE p == t \div Day
           r == t % Day
           a == u % Day
<1>1. /\ r \in 0 .. Day - 1 /\ p \in Int /\ t = Day * p + r
      /\ a \in 0 .. Day - 1
  BY <1>0
<1> HIDE DEF p, r, a
<1>2. CASE a > r
  <2> DEFINE d == a - r
             b == t + d
  <2>1. d \in 1 .. Day /\ b \in Nat /\ b = Day * p + a
    BY <1>0, <1>1, <1>2
  <2>2. b % Day = a
    <3> HIDE DEF b
    <3> QED
      BY <1>0, <1>1, <2>1, RemainderIs
  <2> QED
    BY <2>1, <2>2 DEF a
<1>3. CASE a <= r
  <2> DEFINE d == a - r + Day
             b == t + d
  <2>1. d \in 1 .. Day /\ b \in Nat /\ b = Day * (p + 1) + a /\ p + 1 \in Int
    BY <1>0, <1>1, <1>3
  <2>2. b % Day = a
    <3> HIDE DEF b
    <3> QED
      BY <1>0, <1>1, <2>1, RemainderIs
  <2> QED
    BY <2>1, <2>2 DEF a
<1> QED
  BY <1>0, <1>1, <1>2, <1>3

-----------------------------------------------------------------------------
(***************************************************************************)
(* A board that went asleep by itself sleeps for a day at the most: the    *)
(* alarm of _scheduled_startup is compared with the hour only, so when it  *)
(* is missed (see RegularWakeup) it comes again the next day.              *)
(***************************************************************************)
WithinADay == power = "asleep" => slept <= Day

(* The callback that is about to shut down has set the alarm.              *)
Armed == pc = "down" => alarm.rule = "HMS"

(* A board asleep has d seconds of its day left when the alarm comes.      *)
AlarmAhead ==
  power = "asleep" =>
    /\ alarm.rule = "HMS"
    /\ \E d \in 0 .. Day :
         /\ slept + d <= Day
         /\ slept = 0 => d > 0
         /\ (now + d) % Day = alarm.at % Day

Woken == IInv /\ Armed /\ AlarmAhead

LEMMA SecondAsleep ==
  ASSUME IInv, AlarmAhead, Tick, power = "asleep"
  PROVE  AlarmAhead'
<1>1. /\ now \in 0 .. Month - 1 /\ slept \in 0 .. Day + 1
      /\ Day \in Nat \ {0} /\ Month \in Nat \ {0}
  BY SleepAssumption DEF IInv, TypeOK
<1>2. PICK d \in 0 .. Day : /\ slept + d <= Day
                            /\ slept = 0 => d > 0
                            /\ (now + d) % Day = alarm.at % Day
  BY DEF AlarmAhead
<1>3. /\ alarm.rule = "HMS" /\ ~Due /\ now' = (now + 1) % Month
      /\ UNCHANGED <<alarm, power>> /\ slept' = slept + 1
  BY <1>1, <1>2 DEF Tick, AlarmAhead
<1>4. d > 0
  <2> SUFFICES ASSUME d = 0 PROVE FALSE
    BY <1>1
  <2>1. slept # 0 /\ now + d = now
    BY <1>1, <1>2
  <2> QED
    BY <1>2, <1>3, <2>1 DEF Due, Rings
<1>5. d - 1 \in 0 .. Day /\ d - 1 \in Nat /\ slept' + (d - 1) <= Day /\ slept' # 0
  BY <1>1, <1>2, <1>3, <1>4
<1>6. (now' + (d - 1)) % Day = alarm'.at % Day
  <2>1. (((now + 1) % Month) + (d - 1)) % Day = (now + (d - 1) + 1) % Day
    BY <1>1, <1>5, HourLater
  <2>2. now + (d - 1) + 1 = now + d
    BY <1>1
  <2> QED
    BY <1>2, <1>3, <2>1, <2>2
<1> QED
  BY <1>3, <1>5, <1>6 DEF AlarmAhead

LEMMA GoesAsleep ==
  ASSUME IInv, Armed, ShutDown
  PROVE  AlarmAhead'
<1>1. /\ now \in Nat /\ alarm.at \in Nat /\ Day \in Nat
  BY SleepAssumption DEF IInv, TypeOK, Alarms
<1>2. PICK d \in 1 .. Day : (now + d) % Day = alarm.at % Day
  BY <1>1, HourComes
<1>3. d \in 0 .. Day /\ 0 + d <= Day /\ d > 0
  BY <1>1
<1>4. /\ alarm' = alarm /\ now' = now /\ slept' = 0 /\ alarm.rule = "HMS"
  BY DEF ShutDown, Armed
<1> QED
  BY <1>2, <1>3, <1>4 DEF AlarmAhead

LEMMA WokenInductive == Woken /\ [Next]_vars => Woken'
<1> SUFFICES ASSUME Woken, [Next]_vars PROVE Woken'
  OBVIOUS
<1>1. IInv'
  BY Inductive DEF Woken
<1>2. IInv /\ Armed /\ AlarmAhead
  BY DEF Woken
<1>3. Armed'
  BY <1>2 DEF Armed, Next, Tick, Startup, Restart, Boot, ClearRam, Plug, Character,
     LuaStep, EnterLua, LeaveLua, Lua, os_noact_time, os_wakeup_int,
     os_onshdwn_cb, os_scheduled_startup, os_shutdown, CallbackReturns, Timer,
     TimerCallback, ClearCounter, ReadClock, SetAlarm, ShutDown, StayUp, vars,
     InLua
<1>4. AlarmAhead'
  <2>1. CASE power' # "asleep"
    BY <2>1 DEF AlarmAhead
  <2>2. CASE power' = "asleep"
    <3>1. CASE power = "asleep"
      <4>1. \/ Tick
            \/ UNCHANGED <<power, alarm, now, slept>>
        BY <3>1, <2>2 DEF Next, Startup, Restart, Boot, Plug, Character,
           LuaStep, EnterLua, LeaveLua, Lua, os_noact_time, os_wakeup_int,
           os_onshdwn_cb, os_scheduled_startup, os_shutdown, CallbackReturns,
           Timer, TimerCallback, ClearCounter, ReadClock, SetAlarm, ShutDown,
           StayUp, vars
      <4>2. CASE Tick
        BY <1>2, <3>1, <4>2, SecondAsleep
      <4>3. CASE UNCHANGED <<power, alarm, now, slept>>
        BY <1>2, <4>3 DEF AlarmAhead
      <4> QED
        BY <4>1, <4>2, <4>3
    <3>2. CASE power # "asleep"
      <4>1. ShutDown
        BY <3>2, <2>2 DEF Next, Tick, Startup, Restart, Boot, Plug, Character,
           LuaStep, EnterLua, LeaveLua, Lua, os_noact_time, os_wakeup_int,
           os_onshdwn_cb, os_scheduled_startup, os_shutdown, CallbackReturns,
           Timer, TimerCallback, ClearCounter, ReadClock, SetAlarm,
           StayUp, vars
      <4> QED
        BY <1>2, <4>1, GoesAsleep
    <3> QED
      BY <3>1, <3>2
  <2> QED
    BY <2>1, <2>2
<1> QED
  BY <1>1, <1>3, <1>4 DEF Woken

(* A board that went asleep by itself sleeps for a day at the most.        *)
THEOREM SleepIsBounded == Spec => []WithinADay
<1>1. Init => Armed /\ AlarmAhead
  BY DEF Init, Armed, AlarmAhead
<1>2. Armed /\ AlarmAhead /\ IInv <=> Woken
  BY DEF Woken
<1>3. Woken => WithinADay
  <2> SUFFICES ASSUME Woken, power = "asleep" PROVE slept <= Day
    BY DEF WithinADay
  <2>1. PICK d \in 0 .. Day : slept + d <= Day
    BY DEF Woken, AlarmAhead
  <2> QED
    BY <2>1, SleepAssumption DEF Woken, IInv, TypeOK
<1> QED
  BY <1>1, <1>2, <1>3, Invariant, WokenInductive, PTL DEF Spec
=============================================================================
