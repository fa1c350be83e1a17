--------------------------- MODULE WatchdogProofs ---------------------------
(***************************************************************************)
(* Proofs about Watchdog.tla, for every period, threshold and limit that   *)
(* satisfies the two assumptions of that module.                           *)
(***************************************************************************)
EXTENDS Watchdog, TLAPS

(***************************************************************************)
(* Type correctness.                                                       *)
(***************************************************************************)
LEMMA PowerTypeOK ==
  ASSUME NEW where \in {"on", "wdt", "reboot"}, Power(where)
  PROVE  TypeOK'
  BY DEF Power, TypeOK, NoThread, BootPlaces, Threads, Places

LEMMA ThrowTypeOK ==
  ASSUME TypeOK, NEW t \in Threads, Throw(t),
         UNCHANGED <<board, sys_wdt_rst_count, do_wdt_reset, kicks>>
  PROVE  TypeOK'
  <1> USE ConstantsAssumption DEF TypeOK, Places
  <1>1. CASE ctx[t] = "pcall"
    BY <1>1 DEF Throw, Leave, Goto, clocks
  <1>2. CASE ctx[t] # "pcall"
    <2>1. PanicTime \in Nat
      BY ConstantsAssumption
    <2>2. pc' \in [Threads -> Places]
      BY <1>2 DEF Throw, Goto
    <2>3. held' \in [Threads -> Nat]
      BY <1>2 DEF Throw
    <2> QED BY <1>2, <2>1, <2>2, <2>3 DEF Throw, lua
  <1> QED BY <1>1, <1>2

LEMMA TickTypeOK == TypeOK /\ Tick => TypeOK'
  <1> SUFFICES ASSUME TypeOK, Tick PROVE TypeOK'
    OBVIOUS
  <1> USE ConstantsAssumption, LatencyAssumption DEF TypeOK
  <1>1. pend' \in Nat /\ held' \in [Threads -> Nat]
        /\ late' \in BOOLEAN /\ starved' \in BOOLEAN
    BY DEF Tick, Raise, RaiseRequest, Observe, NoThread
  <1>2. /\ hw' \in Nat /\ sys_wdt_time' \in Nat /\ sys_wdt_rst_time' \in Nat
        /\ silence' \in Nat /\ sys_wdt_rst_count' \in Nat
        /\ do_wdt_reset' \in {0, 1}
    BY DEF Tick, Raise, RaiseRequest
  <1>3. UNCHANGED <<board, kicks, pc, ctx, depth, wdg_reboot_cb>>
    BY DEF Tick, Raise, RaiseRequest, lua
  <1> QED BY <1>1, <1>2, <1>3

LEMMA ThreadTypeOK ==
  ASSUME TypeOK, NEW t \in Threads, Thread(t)
  PROVE  TypeOK'
  <1> USE ConstantsAssumption
  <1>1. ASSUME NEW how \in {"pcall", "call"}, EnterLua(t, how) PROVE TypeOK'
    BY <1>1 DEF EnterLua, Goto, clocks, TypeOK, Places
  <1>2. CASE Instruction(t)
    BY <1>2 DEF Instruction, Feed, Goto, lua, TypeOK, Places
  <1>3. ASSUME NEW kind \in {"lua", "c"}, SetRebootCallback(t, kind)
        PROVE  TypeOK'
    BY <1>3 DEF SetRebootCallback, clocks, TypeOK
  <1>4. CASE LuaError(t)
    BY <1>4, ThrowTypeOK DEF LuaError
  <1>5. CASE ReturnFromLua(t)
    <2>1. CASE depth[t] = Base(t) /\ Leave(t)
      BY <1>5, <2>1 DEF ReturnFromLua, Base, Power, Leave, Goto, clocks,
         TypeOK, Places, NoThread, BootPlaces, Threads
    <2>2. CASE Power("reboot")
      BY <2>2, PowerTypeOK
    <2> QED BY <1>5, <2>1, <2>2 DEF ReturnFromLua
  <1>6. CASE NoRequest(t)
    BY <1>6 DEF NoRequest, Caller, Goto, clocks, lua, TypeOK, Places
  <1>7. CASE TakeRequest(t)
    BY <1>7 DEF TakeRequest, Goto, clocks, lua, TypeOK, Places, Window
  <1>8. CASE RebootNow(t)
    BY <1>8, PowerTypeOK DEF RebootNow
  <1>9. CASE RebootThroughLua(t)
    <2>1. CASE depth[t] + 1 < MaxCCalls
      <3>1. CASE Throw(t)
        BY <1>9, <3>1, ThrowTypeOK DEF RebootThroughLua
      <3>2. CASE ~Throw(t)
        BY <1>9, <2>1, <3>2 DEF RebootThroughLua, Feed, TypeOK
      <3> QED BY <3>1, <3>2
    <2>2. CASE ~(depth[t] + 1 < MaxCCalls)
      BY <1>9, <2>2, ThrowTypeOK DEF RebootThroughLua
    <2> QED BY <2>1, <2>2
  <1>10. CASE Kick(t)
    BY <1>10 DEF Kick, Goto, lua, TypeOK, Places, Window
  <1>11. CASE ClearTime(t)
    BY <1>11 DEF ClearTime, Goto, lua, TypeOK, Places, Window
  <1>12. CASE ClearRequest(t)
    BY <1>12 DEF ClearRequest, Caller, Goto, lua, TypeOK, Places, Window
  <1> QED
    BY <1>1, <1>2, <1>3, <1>4, <1>5, <1>6, <1>7, <1>8, <1>9, <1>10, <1>11,
       <1>12 DEF Thread

\* Every variable keeps its type, so in particular do_wdt_reset is 0 or 1 and
\* the tick counters are never negative.
THEOREM TypeCorrect == Spec => []TypeOK
  <1>1. Init => TypeOK
    <2> SUFFICES ASSUME Init PROVE TypeOK
      OBVIOUS
    <2>1. pc \in [Threads -> Places]
      BY DEF Init, BootPlaces, Threads, Places
    <2>2. /\ ctx \in [Threads -> {"none", "pcall", "call"}]
          /\ depth \in [Threads -> Nat] /\ held \in [Threads -> Nat]
      BY DEF Init, NoThread
    <2> QED BY <2>1, <2>2 DEF Init, TypeOK
  <1>2. TypeOK /\ [Next]_vars => TypeOK'
    <2> SUFFICES ASSUME TypeOK, [Next]_vars PROVE TypeOK'
      OBVIOUS
    <2>1. CASE Tick
      BY <2>1, TickTypeOK
    <2>2. CASE WdtFire
      BY <2>2, PowerTypeOK DEF WdtFire
    <2>3. CASE Restart
      BY <2>3, PowerTypeOK DEF Restart
    <2>4. CASE CreateShell
      BY <2>4 DEF CreateShell, Goto, clocks, lua, TypeOK, Places
    <2>5. CASE ShellGetc
      BY <2>5 DEF ShellGetc, Feed, lua, TypeOK
    <2>6. CASE TimerCallback
      BY <2>6 DEF TimerCallback, Goto, clocks, lua, TypeOK, Places
    <2>7. ASSUME NEW t \in Threads, Thread(t) PROVE TypeOK'
      BY <2>7, ThreadTypeOK
    <2>8. CASE UNCHANGED vars
      BY <2>8 DEF vars, TypeOK
    <2> QED
      BY <2>1, <2>2, <2>3, <2>4, <2>5, <2>6, <2>7, <2>8 DEF Next, Time
  <1> QED BY <1>1, <1>2, PTL DEF Spec

-----------------------------------------------------------------------------
(***************************************************************************)
(* No spurious fire.  As long as every HISR call finds a recent sign of    *)
(* life and no thread is late, the two counters hw and sys_wdt_time stay   *)
(* within Latency of each other, so the request is raised in time, and the *)
(* age of the pending request accounts for the rest of hw.                 *)
(***************************************************************************)
OnTime == ~late => /\ pend <= Latency
                   /\ \A t \in Threads : held[t] <= Latency

Aligned == ~late => hw <= sys_wdt_time + Latency

WindowAge ==
  \A t \in Threads :
    /\ pc[t] = "cleartime" /\ ~late => hw <= held[t]
    /\ pc[t] = "clearreq" /\ ~late /\ ~starved => sys_wdt_time <= held[t]

RequestAge ==
  ~late /\ ~starved =>
    /\ do_wdt_reset = 0 => sys_wdt_time <= Rst
    /\ do_wdt_reset = 1 => hw <= Rst + Interval + Latency + pend

AgeInv == hw < Tmo /\ OnTime /\ Aligned /\ WindowAge /\ RequestAge

LEMMA PowerAgeInv ==
  ASSUME NEW where, Power(where)
  PROVE  AgeInv'
  BY ConstantsAssumption, LatencyAssumption
     DEF Power, AgeInv, OnTime, Aligned, WindowAge, RequestAge, NoThread,
         BootPlaces, Threads

\* Steps that move no clock and no request, and do not enter the window's
\* last two places.
LEMMA QuietAgeInv ==
  ASSUME AgeInv, UNCHANGED <<do_wdt_reset, hw, sys_wdt_time, pend, held,
                             starved, late>>,
         \A t \in Threads :
           pc'[t] \in {"cleartime", "clearreq"} => pc'[t] = pc[t]
  PROVE  AgeInv'
  BY DEF AgeInv, OnTime, Aligned, WindowAge, RequestAge

LEMMA ThrowAgeInv ==
  ASSUME TypeOK, AgeInv, NEW t \in Threads, Throw(t),
         UNCHANGED <<board, sys_wdt_rst_count, do_wdt_reset, kicks>>
  PROVE  AgeInv'
  <1>1. CASE ctx[t] = "pcall"
    BY <1>1, QuietAgeInv DEF Throw, Leave, Goto, clocks, TypeOK
  <1>2. CASE ctx[t] # "pcall"
    BY <1>2, ConstantsAssumption, LatencyAssumption
       DEF Throw, Goto, TypeOK, AgeInv, OnTime, Aligned, WindowAge, RequestAge
  <1> QED BY <1>1, <1>2

LEMMA TickAgeInv == TypeOK /\ AgeInv /\ Tick => AgeInv'
  <1> SUFFICES ASSUME TypeOK, AgeInv, Tick PROVE AgeInv'
    OBVIOUS
  <1> USE ConstantsAssumption, LatencyAssumption
  <1>1. /\ hw' = hw + Interval /\ sys_wdt_time' = sys_wdt_time + Interval
        /\ hw' < Tmo /\ pc' = pc /\ (late => late') /\ (starved => starved')
    BY DEF Tick, Raise, RaiseRequest, Observe
  <1>2. ASSUME ~late'
        PROVE  /\ pend' = IF do_wdt_reset = 1 THEN pend + Interval ELSE 0
               /\ pend' <= Latency
               /\ \A t \in Threads :
                    /\ held'[t] <= Latency
                    /\ pc[t] \in Window => held'[t] = held[t] + Interval
    <2> DEFINE p == IF do_wdt_reset = 1 THEN pend + Interval ELSE 0
               h == [t \in Threads |->
                       IF pc[t] \in Window THEN held[t] + Interval ELSE 0]
    <2>1. /\ late' = (late \/ p > Latency \/ \E t \in Threads : h[t] > Latency)
          /\ pend' = IF late' THEN 0 ELSE p
          /\ held' = IF late' THEN NoThread(0) ELSE h
      BY DEF Tick, Raise, RaiseRequest, Observe
    <2>2. p \in Nat /\ h \in [Threads -> Nat]
      BY DEF TypeOK
    <2> HIDE DEF p, h
    <2>3. ~(p > Latency) /\ \A t \in Threads : ~(h[t] > Latency)
      BY <1>2, <2>1, Zenon
    <2>4. p <= Latency /\ \A t \in Threads : h[t] <= Latency
      BY <2>2, <2>3
    <2>5. pend' = p /\ held' = h
      BY <1>2, <2>1
    <2> QED BY <2>4, <2>5 DEF p, h
  <1>3. OnTime'
    BY <1>2 DEF OnTime
  <1>4. Aligned'
    BY <1>1 DEF Aligned, AgeInv, TypeOK
  <1>5. WindowAge'
    BY <1>1, <1>2 DEF WindowAge, AgeInv, TypeOK, Window
  <1>6. RequestAge'
    <2> SUFFICES ASSUME ~late', ~starved' PROVE RequestAge'
      BY DEF RequestAge
    <2>1. sys_wdt_rst_time' < Rst
      BY DEF Tick, Raise, RaiseRequest, Observe
    <2>2. CASE do_wdt_reset = 1
      BY <1>1, <1>2, <2>2 DEF Tick, Raise, RaiseRequest, RequestAge, AgeInv, TypeOK
    <2>3. CASE do_wdt_reset = 0 /\ sys_wdt_time' > Rst
      BY <1>1, <1>2, <2>1, <2>3
         DEF Tick, Raise, RaiseRequest, RequestAge, Aligned, AgeInv, TypeOK
    <2>4. CASE do_wdt_reset = 0 /\ ~(sys_wdt_time' > Rst)
      BY <1>1, <2>4 DEF Tick, Raise, RaiseRequest, RequestAge, AgeInv, TypeOK
    <2> QED BY <2>2, <2>3, <2>4 DEF TypeOK
  <1> QED BY <1>1, <1>3, <1>4, <1>5, <1>6 DEF AgeInv

LEMMA ThreadAgeInv ==
  ASSUME TypeOK, AgeInv, NEW t \in Threads, Thread(t)
  PROVE  AgeInv'
  <1> USE ConstantsAssumption, LatencyAssumption
  <1>1. ASSUME NEW how \in {"pcall", "call"}, EnterLua(t, how) PROVE AgeInv'
    BY <1>1, QuietAgeInv DEF EnterLua, Goto, clocks, TypeOK
  <1>2. CASE Instruction(t)
    BY <1>2, QuietAgeInv DEF Instruction, Goto, TypeOK
  <1>3. ASSUME NEW kind \in {"lua", "c"}, SetRebootCallback(t, kind)
        PROVE  AgeInv'
    BY <1>3, QuietAgeInv DEF SetRebootCallback, clocks
  <1>4. CASE LuaError(t)
    BY <1>4, ThrowAgeInv DEF LuaError
  <1>5. CASE ReturnFromLua(t)
    <2>1. CASE depth[t] = Base(t) /\ Leave(t)
      <3>1. CASE Power("reboot")
        BY <3>1, PowerAgeInv
      <3>2. CASE ~Power("reboot")
        BY <1>5, <3>2, QuietAgeInv
           DEF ReturnFromLua, Leave, Goto, clocks, TypeOK
      <3> QED BY <3>1, <3>2
    <2>2. CASE Power("reboot")
      BY <2>2, PowerAgeInv
    <2> QED BY <1>5, <2>1, <2>2 DEF ReturnFromLua
  <1>6. CASE NoRequest(t)
    BY <1>6, QuietAgeInv DEF NoRequest, Caller, Goto, clocks, TypeOK
  <1>7. CASE TakeRequest(t)
    BY <1>7, QuietAgeInv DEF TakeRequest, Goto, clocks, TypeOK
  <1>8. CASE RebootNow(t)
    BY <1>8, PowerAgeInv DEF RebootNow
  <1>9. CASE RebootThroughLua(t)
    <2>1. CASE Throw(t)
      BY <1>9, <2>1, ThrowAgeInv DEF RebootThroughLua
    <2>2. CASE ~Throw(t)
      BY <1>9, <2>2, QuietAgeInv DEF RebootThroughLua
    <2> QED BY <2>1, <2>2
  <1>10. CASE Kick(t)
    BY <1>10 DEF Kick, Goto, TypeOK, AgeInv, OnTime, Aligned, WindowAge,
       RequestAge
  <1>11. CASE ClearTime(t)
    <2>1. /\ pc[t] = "cleartime" /\ pc' = [pc EXCEPT ![t] = "clearreq"]
          /\ sys_wdt_time' = 0
          /\ UNCHANGED <<hw, do_wdt_reset, pend, held, starved, late>>
      BY <1>11 DEF ClearTime, Goto
    <2>2. ~late => hw <= held[t] /\ held[t] <= Latency
      BY <2>1 DEF AgeInv, WindowAge, OnTime
    <2>3. OnTime' /\ Aligned'
      BY <2>1, <2>2 DEF AgeInv, OnTime, Aligned, TypeOK
    <2>4. WindowAge'
      BY <2>1 DEF AgeInv, WindowAge, TypeOK
    <2>5. RequestAge'
      BY <2>1 DEF AgeInv, RequestAge, TypeOK
    <2> QED BY <2>1, <2>3, <2>4, <2>5 DEF AgeInv
  <1>12. CASE ClearRequest(t)
    <2>1. /\ pc[t] = "clearreq" /\ pc' = [pc EXCEPT ![t] = Caller(t)]
          /\ do_wdt_reset' = 0 /\ pend' = 0
          /\ held' = [held EXCEPT ![t] = 0]
          /\ UNCHANGED <<hw, sys_wdt_time, starved, late>>
      BY <1>12 DEF ClearRequest, Goto
    <2>2. ~late /\ ~starved => sys_wdt_time <= held[t] /\ held[t] <= Latency
      BY <2>1 DEF AgeInv, WindowAge, OnTime
    <2>3. OnTime' /\ Aligned'
      BY <2>1 DEF AgeInv, OnTime, Aligned, TypeOK
    <2>4. WindowAge'
      BY <2>1 DEF AgeInv, WindowAge, TypeOK, Caller
    <2>5. RequestAge'
      BY <2>1, <2>2 DEF AgeInv, RequestAge, TypeOK
    <2> QED BY <2>1, <2>3, <2>4, <2>5 DEF AgeInv
  <1> QED
    BY <1>1, <1>2, <1>3, <1>4, <1>5, <1>6, <1>7, <1>8, <1>9, <1>10, <1>11,
       <1>12 DEF Thread

LEMMA AgeInvariant == Spec => []AgeInv
  <1>1. Init => AgeInv
    BY ConstantsAssumption, LatencyAssumption
       DEF Init, AgeInv, OnTime, Aligned, WindowAge, RequestAge, NoThread,
           BootPlaces, Threads
  <1>2. TypeOK /\ AgeInv /\ [Next]_vars => AgeInv'
    <2> SUFFICES ASSUME TypeOK, AgeInv, [Next]_vars PROVE AgeInv'
      OBVIOUS
    <2>1. CASE Tick
      BY <2>1, TickAgeInv
    <2>2. CASE WdtFire
      BY <2>2, PowerAgeInv DEF WdtFire
    <2>3. CASE Restart
      BY <2>3, PowerAgeInv DEF Restart
    <2>4. CASE CreateShell
      BY <2>4, QuietAgeInv DEF CreateShell, Goto, clocks, TypeOK
    <2>5. CASE ShellGetc
      BY <2>5, QuietAgeInv DEF ShellGetc
    <2>6. CASE TimerCallback
      BY <2>6, QuietAgeInv DEF TimerCallback, Goto, clocks, TypeOK
    <2>7. ASSUME NEW t \in Threads, Thread(t) PROVE AgeInv'
      BY <2>7, ThreadAgeInv
    <2>8. CASE UNCHANGED vars
      BY <2>8, QuietAgeInv DEF vars
    <2> QED
      BY <2>1, <2>2, <2>3, <2>4, <2>5, <2>6, <2>7, <2>8 DEF Next, Time
  <1> QED BY <1>1, <1>2, TypeCorrect, PTL DEF Spec

\* The hardware fires only on a system that was silent or late: the time main.c
\* leaves between the request and the hardware covers both threads' delays.
THEOREM HealthyNeverFires == Spec => []NoSpuriousFire
  <1>1. TypeOK /\ AgeInv => NoSpuriousFire
    <2> SUFFICES ASSUME TypeOK, AgeInv, ~starved, ~late
                 PROVE  hw + Interval < Tmo
      BY ConstantsAssumption, LatencyAssumption DEF NoSpuriousFire, TypeOK
    <2> USE ConstantsAssumption, LatencyAssumption
    <2>1. CASE do_wdt_reset = 0
      BY <2>1 DEF AgeInv, RequestAge, Aligned, TypeOK
    <2>2. CASE do_wdt_reset = 1
      BY <2>2 DEF AgeInv, RequestAge, OnTime, TypeOK
    <2> QED BY <2>1, <2>2 DEF TypeOK
  <1> QED BY <1>1, TypeCorrect, AgeInvariant, PTL

-----------------------------------------------------------------------------
(***************************************************************************)
(* The bound on a hang.  Once the last sign of life is older than Rst no   *)
(* new request is raised, so vm_wdt_reset can only be called by a thread   *)
(* that already holds the pending request or may still take it: each such  *)
(* thread is worth one more period of the hardware, its Credit.            *)
(***************************************************************************)
Credit(t) ==
  IF \/ pc[t] = "kick"
     \/ do_wdt_reset = 1 /\ pc[t] \notin {"cleartime", "clearreq"}
  THEN Tmo ELSE 0

SilenceInv ==
  /\ hw < Tmo
  /\ silence <= sys_wdt_rst_time
  /\ sys_wdt_rst_time >= Rst =>
       silence + Credit("main") + Credit("shell") < Rst + hw + 2 * Tmo

LEMMA PowerSilenceInv ==
  ASSUME NEW where, Power(where)
  PROVE  SilenceInv'
  BY ConstantsAssumption, LatencyAssumption DEF Power, SilenceInv

\* Steps that move no clock and create no credit.
LEMMA QuietSilenceInv ==
  ASSUME TypeOK, SilenceInv,
         UNCHANGED <<hw, sys_wdt_rst_time, silence>>,
         \A t \in Threads : Credit(t)' <= Credit(t)
  PROVE  SilenceInv'
  <1> USE ConstantsAssumption
  <1>1. \A t \in Threads : Credit(t) \in Nat /\ Credit(t)' \in Nat
    BY DEF Credit
  <1>2. "main" \in Threads /\ "shell" \in Threads
    BY DEF Threads
  <1> QED BY <1>1, <1>2 DEF SilenceInv, TypeOK

LEMMA FeedSilenceInv ==
  ASSUME SilenceInv, Feed, UNCHANGED hw
  PROVE  SilenceInv'
  BY ConstantsAssumption DEF SilenceInv, Feed

\* A silent state has at most two credits to spend.
LEMMA SilenceBound == TypeOK /\ SilenceInv => HangBound
  <1> SUFFICES ASSUME TypeOK, SilenceInv PROVE HangBound
    OBVIOUS
  <1> USE ConstantsAssumption DEF SilenceInv, TypeOK
  <1>1. CASE sys_wdt_rst_time < Rst
    BY <1>1 DEF HangBound
  <1>2. CASE sys_wdt_rst_time >= Rst
    <2>1. Credit("main") \in Nat /\ Credit("shell") \in Nat
      BY DEF Credit
    <2> QED BY <1>2, <2>1 DEF HangBound
  <1> QED BY <1>1, <1>2

LEMMA ThrowSilenceInv ==
  ASSUME TypeOK, SilenceInv, NEW t \in Threads, Throw(t),
         pc[t] \in {"lua", "test"},
         UNCHANGED <<board, sys_wdt_rst_count, do_wdt_reset, kicks>>
  PROVE  SilenceInv'
  <1> USE ConstantsAssumption
  <1>1. \A u \in Threads : Credit(u)' = Credit(u) /\ Credit(u) \in Nat
    BY DEF Throw, Leave, Goto, TypeOK, Credit
  <1>2. CASE ctx[t] = "pcall"
    BY <1>1, <1>2, QuietSilenceInv DEF Throw, clocks
  <1>3. CASE ctx[t] # "pcall"
    <2>1. /\ sys_wdt_rst_time' = PanicTime /\ silence' = silence /\ hw' = hw
          /\ Rst <= PanicTime
      BY <1>3 DEF Throw
    <2>2. silence < PanicTime
      BY SilenceBound DEF HangBound, TypeOK
    <2>3. "main" \in Threads /\ "shell" \in Threads
      BY DEF Threads
    <2>4. Credit("main") <= Tmo /\ Credit("shell") <= Tmo
      BY DEF Credit
    <2>5. silence + Credit("main") + Credit("shell") < Rst + hw + 2 * Tmo
      <3>1. CASE sys_wdt_rst_time >= Rst
        BY <3>1 DEF SilenceInv
      <3>2. CASE sys_wdt_rst_time < Rst
        BY <1>1, <2>3, <2>4, <3>2 DEF SilenceInv, TypeOK
      <3> QED BY <3>1, <3>2 DEF TypeOK
    <2> QED BY <1>1, <2>1, <2>2, <2>3, <2>5 DEF SilenceInv, TypeOK
  <1> QED BY <1>2, <1>3

LEMMA TickSilenceInv == TypeOK /\ SilenceInv /\ Tick => SilenceInv'
  <1> SUFFICES ASSUME TypeOK, SilenceInv, Tick PROVE SilenceInv'
    OBVIOUS
  <1> USE ConstantsAssumption DEF TypeOK
  <1>1. /\ hw' = hw + Interval /\ hw' < Tmo
        /\ silence' = silence + Interval
        /\ sys_wdt_rst_time' = sys_wdt_rst_time + Interval
    BY DEF Tick, Raise, RaiseRequest
  <1>2. CASE sys_wdt_rst_time' < Rst
    BY <1>1, <1>2 DEF SilenceInv
  <1>3. CASE ~(sys_wdt_rst_time' < Rst)
    <2>1. do_wdt_reset' = do_wdt_reset /\ pc' = pc
      BY <1>3 DEF Tick, Raise, RaiseRequest
    <2>2. Credit("main")' = Credit("main") /\ Credit("shell")' = Credit("shell")
      BY <2>1 DEF Credit
    <2>3. /\ Credit("main") \in Nat /\ Credit("shell") \in Nat
          /\ Credit("main") <= Tmo /\ Credit("shell") <= Tmo
      BY DEF Credit
    <2>4. CASE sys_wdt_rst_time >= Rst
      BY <1>1, <2>2, <2>3, <2>4 DEF SilenceInv
    <2>5. CASE sys_wdt_rst_time < Rst
      BY <1>1, <2>2, <2>3, <2>5 DEF SilenceInv
    <2> QED BY <2>4, <2>5
  <1> QED BY <1>2, <1>3

LEMMA ThreadSilenceInv ==
  ASSUME TypeOK, SilenceInv, NEW t \in Threads, Thread(t)
  PROVE  SilenceInv'
  <1> USE ConstantsAssumption
  <1>1. ASSUME NEW how \in {"pcall", "call"}, EnterLua(t, how)
        PROVE  SilenceInv'
    BY <1>1, QuietSilenceInv DEF EnterLua, Goto, clocks, TypeOK, Credit
  <1>2. CASE Instruction(t)
    BY <1>2, FeedSilenceInv DEF Instruction
  <1>3. ASSUME NEW kind \in {"lua", "c"}, SetRebootCallback(t, kind)
        PROVE  SilenceInv'
    BY <1>3, QuietSilenceInv DEF SetRebootCallback, clocks, TypeOK, Credit
  <1>4. CASE LuaError(t)
    BY <1>4, ThrowSilenceInv DEF LuaError
  <1>5. CASE ReturnFromLua(t)
    <2>1. CASE Power("reboot")
      BY <2>1, PowerSilenceInv
    <2>2. CASE ~Power("reboot")
      BY <1>5, <2>2, QuietSilenceInv
         DEF ReturnFromLua, Leave, Goto, clocks, TypeOK, Credit
    <2> QED BY <2>1, <2>2
  <1>6. CASE NoRequest(t)
    BY <1>6, QuietSilenceInv DEF NoRequest, Caller, Goto, clocks, TypeOK, Credit
  <1>7. CASE TakeRequest(t)
    <2>1. /\ pc[t] = "test" /\ do_wdt_reset = 1 /\ do_wdt_reset' = 1
          /\ pc' = [pc EXCEPT ![t] = "kick"]
          /\ UNCHANGED <<hw, sys_wdt_rst_time, silence>>
      BY <1>7 DEF TakeRequest, Goto, clocks, TypeOK
    <2>2. \A u \in Threads : Credit(u)' <= Credit(u)
      BY <2>1 DEF Credit, TypeOK
    <2> QED BY <2>1, <2>2, QuietSilenceInv
  <1>8. CASE RebootNow(t)
    BY <1>8, PowerSilenceInv DEF RebootNow
  <1>9. CASE RebootThroughLua(t)
    <2>1. CASE Throw(t)
      BY <1>9, <2>1, ThrowSilenceInv DEF RebootThroughLua, AtLimit
    <2>2. CASE ~Throw(t)
      BY <1>9, <2>2, FeedSilenceInv DEF RebootThroughLua
    <2> QED BY <2>1, <2>2
  <1>10. CASE Kick(t)
    <2>1. /\ pc[t] = "kick" /\ pc' = [pc EXCEPT ![t] = "cleartime"]
          /\ hw' = 0
          /\ UNCHANGED <<do_wdt_reset, sys_wdt_rst_time, silence>>
      BY <1>10 DEF Kick, Goto
    <2>2. /\ Credit(t) = Tmo /\ Credit(t)' = 0
          /\ \A u \in Threads \ {t} : Credit(u)' = Credit(u)
      BY <2>1 DEF Credit, TypeOK
    <2>3. \A u \in Threads : Credit(u) \in Nat
      BY DEF Credit
    <2>4. /\ hw < Tmo /\ 0 < Tmo /\ silence <= sys_wdt_rst_time
          /\ sys_wdt_rst_time >= Rst =>
               silence + Credit("main") + Credit("shell") < Rst + hw + 2 * Tmo
      BY LatencyAssumption DEF SilenceInv
    <2>5. CASE t = "main"
      <3>1. "shell" \in Threads \ {t}
        BY <2>5 DEF Threads
      <3> QED BY <2>1, <2>2, <2>3, <2>4, <2>5, <3>1 DEF SilenceInv, TypeOK
    <2>6. CASE t = "shell"
      <3>1. "main" \in Threads \ {t}
        BY <2>6 DEF Threads
      <3> QED BY <2>1, <2>2, <2>3, <2>4, <2>6, <3>1 DEF SilenceInv, TypeOK
    <2> QED BY <2>5, <2>6 DEF Threads
  <1>11. CASE ClearTime(t)
    BY <1>11, QuietSilenceInv DEF ClearTime, Goto, TypeOK, Credit
  <1>12. CASE ClearRequest(t)
    BY <1>12, QuietSilenceInv DEF ClearRequest, Caller, Goto, TypeOK, Credit
  <1> QED
    BY <1>1, <1>2, <1>3, <1>4, <1>5, <1>6, <1>7, <1>8, <1>9, <1>10, <1>11,
       <1>12 DEF Thread

LEMMA SilenceInvariant == Spec => []SilenceInv
  <1>1. Init => SilenceInv
    BY ConstantsAssumption, LatencyAssumption DEF Init, SilenceInv
  <1>2. TypeOK /\ SilenceInv /\ [Next]_vars => SilenceInv'
    <2> SUFFICES ASSUME TypeOK, SilenceInv, [Next]_vars PROVE SilenceInv'
      OBVIOUS
    <2>1. CASE Tick
      BY <2>1, TickSilenceInv
    <2>2. CASE WdtFire
      BY <2>2, PowerSilenceInv DEF WdtFire
    <2>3. CASE Restart
      BY <2>3, PowerSilenceInv DEF Restart
    <2>4. CASE CreateShell
      BY <2>4, QuietSilenceInv, ConstantsAssumption
         DEF CreateShell, Goto, clocks, TypeOK, Credit
    <2>5. CASE ShellGetc
      BY <2>5, FeedSilenceInv DEF ShellGetc
    <2>6. CASE TimerCallback
      BY <2>6, QuietSilenceInv, ConstantsAssumption
         DEF TimerCallback, Goto, clocks, TypeOK, Credit
    <2>7. ASSUME NEW t \in Threads, Thread(t) PROVE SilenceInv'
      BY <2>7, ThreadSilenceInv
    <2>8. CASE UNCHANGED vars
      BY <2>8, QuietSilenceInv, ConstantsAssumption DEF vars, Credit
    <2> QED
      BY <2>1, <2>2, <2>3, <2>4, <2>5, <2>6, <2>7, <2>8 DEF Next, Time
  <1> QED BY <1>1, <1>2, TypeCorrect, PTL DEF Spec

\* Whatever the two threads hold when everything stops feeding the watchdog,
\* the hardware fires within Rst + 3 * Tmo ticks of the last sign of life.
THEOREM HangIsBounded == Spec => []HangBound
  BY SilenceBound, SilenceInvariant, TypeCorrect, PTL

-----------------------------------------------------------------------------
(***************************************************************************)
(* The number of vm_wdt_reset calls.  A request within the limit is worth  *)
(* one call for each thread; a thread that has called it spends its share, *)
(* and the last two statements of _reset_wdg never give it back.           *)
(***************************************************************************)
Share(t) ==
  IF \/ pc[t] = "kick"
     \/ /\ do_wdt_reset = 1
        /\ sys_wdt_rst_count <= MaxResets
        /\ pc[t] \notin {"cleartime", "clearreq"}
  THEN 1 ELSE 0

Granted == IF sys_wdt_rst_count <= MaxResets THEN sys_wdt_rst_count
                                             ELSE MaxResets

KickInv == kicks + Share("main") + Share("shell") <= 2 * Granted

\* Steps that call nothing, raise nothing and give no thread a new share.
LEMMA QuietKickInv ==
  ASSUME TypeOK, KickInv, UNCHANGED <<kicks, sys_wdt_rst_count>>,
         \A t \in Threads : Share(t)' <= Share(t)
  PROVE  KickInv'
  <1> USE ConstantsAssumption
  <1>1. \A t \in Threads : Share(t) \in Nat /\ Share(t)' \in Nat
    BY DEF Share
  <1>2. "main" \in Threads /\ "shell" \in Threads
    BY DEF Threads
  <1>3. Granted' = Granted /\ Granted \in Nat
    BY DEF Granted, TypeOK
  <1> QED BY <1>1, <1>2, <1>3 DEF KickInv, TypeOK

LEMMA PowerKickInv ==
  ASSUME NEW where, Power(where)
  PROVE  KickInv'
  BY ConstantsAssumption
     DEF Power, KickInv, Share, Granted, BootPlaces, Threads

LEMMA ThrowKickInv ==
  ASSUME TypeOK, KickInv, NEW t \in Threads, Throw(t),
         pc[t] \in {"lua", "test"},
         UNCHANGED <<board, sys_wdt_rst_count, do_wdt_reset, kicks>>
  PROVE  KickInv'
  <1>1. \A u \in Threads : Share(u)' <= Share(u)
    BY DEF Throw, Leave, Goto, TypeOK, Share
  <1> QED BY <1>1, QuietKickInv

LEMMA TickKickInv == TypeOK /\ KickInv /\ Tick => KickInv'
  <1> SUFFICES ASSUME TypeOK, KickInv, Tick PROVE KickInv'
    OBVIOUS
  <1> USE ConstantsAssumption DEF TypeOK
  <1>1. pc' = pc /\ kicks' = kicks
    BY DEF Tick, Raise, RaiseRequest
  <1>2. CASE UNCHANGED <<do_wdt_reset, sys_wdt_rst_count>>
    BY <1>1, <1>2, QuietKickInv DEF Share
  <1>3. CASE /\ do_wdt_reset = 0 /\ do_wdt_reset' = 1
             /\ sys_wdt_rst_count' = sys_wdt_rst_count + 1
    <2>1. CASE sys_wdt_rst_count + 1 <= MaxResets
      <3>1. /\ Share("main")' <= Share("main") + 1
            /\ Share("shell")' <= Share("shell") + 1
        BY DEF Share
      <3>2. /\ Share("main") \in Nat /\ Share("main")' \in Nat
            /\ Share("shell") \in Nat /\ Share("shell")' \in Nat
        BY DEF Share
      <3> QED BY <1>1, <1>3, <2>1, <3>1, <3>2 DEF KickInv, Granted
    <2>2. CASE ~(sys_wdt_rst_count + 1 <= MaxResets)
      <3>1. /\ Share("main")' <= Share("main")
            /\ Share("shell")' <= Share("shell")
            /\ Granted' >= Granted
        BY <1>1, <1>3, <2>2 DEF Share, Granted
      <3>2. /\ Share("main") \in Nat /\ Share("main")' \in Nat
            /\ Share("shell") \in Nat /\ Share("shell")' \in Nat
            /\ Granted \in Nat /\ Granted' \in Nat
        BY <1>3 DEF Share, Granted
      <3> QED BY <1>1, <3>1, <3>2 DEF KickInv
    <2> QED BY <2>1, <2>2
  <1> QED BY <1>2, <1>3 DEF Tick, Raise, RaiseRequest

LEMMA ThreadKickInv ==
  ASSUME TypeOK, KickInv, NEW t \in Threads, Thread(t)
  PROVE  KickInv'
  <1>1. ASSUME NEW how \in {"pcall", "call"}, EnterLua(t, how) PROVE KickInv'
    BY <1>1, QuietKickInv DEF EnterLua, Goto, TypeOK, Share
  <1>2. CASE Instruction(t)
    BY <1>2, QuietKickInv DEF Instruction, Goto, TypeOK, Share
  <1>3. ASSUME NEW kind \in {"lua", "c"}, SetRebootCallback(t, kind)
        PROVE  KickInv'
    BY <1>3, QuietKickInv DEF SetRebootCallback, TypeOK, Share
  <1>4. CASE LuaError(t)
    BY <1>4, ThrowKickInv DEF LuaError
  <1>5. CASE ReturnFromLua(t)
    <2>1. CASE Power("reboot")
      BY <2>1, PowerKickInv
    <2>2. CASE ~Power("reboot")
      BY <1>5, <2>2, QuietKickInv DEF ReturnFromLua, Leave, Goto, TypeOK, Share
    <2> QED BY <2>1, <2>2
  <1>6. CASE NoRequest(t)
    BY <1>6, QuietKickInv DEF NoRequest, Caller, Goto, TypeOK, Share
  <1>7. CASE TakeRequest(t)
    <2>1. /\ pc[t] = "test" /\ do_wdt_reset = 1
          /\ sys_wdt_rst_count <= MaxResets
          /\ pc' = [pc EXCEPT ![t] = "kick"]
          /\ UNCHANGED <<do_wdt_reset, kicks, sys_wdt_rst_count>>
      BY <1>7 DEF TakeRequest, Goto, TypeOK
    <2>2. \A u \in Threads : Share(u)' <= Share(u)
      BY <2>1 DEF Share, TypeOK
    <2> QED BY <2>1, <2>2, QuietKickInv
  <1>8. CASE RebootNow(t)
    BY <1>8, PowerKickInv DEF RebootNow
  <1>9. CASE RebootThroughLua(t)
    <2>1. CASE Throw(t)
      BY <1>9, <2>1, ThrowKickInv DEF RebootThroughLua, AtLimit
    <2>2. CASE ~Throw(t)
      BY <1>9, <2>2, QuietKickInv DEF RebootThroughLua, TypeOK, Share
    <2> QED BY <2>1, <2>2
  <1>10. CASE Kick(t)
    <2>1. /\ pc[t] = "kick" /\ pc' = [pc EXCEPT ![t] = "cleartime"]
          /\ kicks' <= kicks + 1 /\ kicks' \in Nat
          /\ UNCHANGED <<do_wdt_reset, sys_wdt_rst_count>>
      BY <1>10, ConstantsAssumption DEF Kick, Goto, TypeOK
    <2>2. /\ Share(t) = 1 /\ Share(t)' = 0
          /\ \A u \in Threads \ {t} : Share(u)' = Share(u)
      BY <2>1 DEF Share, TypeOK
    <2>3. \A u \in Threads : Share(u) \in Nat
      BY DEF Share
    <2>4. Granted' = Granted /\ Granted \in Nat
      BY <2>1, ConstantsAssumption DEF Granted, TypeOK
    <2>5. CASE t = "main"
      <3>1. "shell" \in Threads \ {t}
        BY <2>5 DEF Threads
      <3> QED BY <2>1, <2>2, <2>3, <2>4, <2>5, <3>1 DEF KickInv, TypeOK
    <2>6. CASE t = "shell"
      <3>1. "main" \in Threads \ {t}
        BY <2>6 DEF Threads
      <3> QED BY <2>1, <2>2, <2>3, <2>4, <2>6, <3>1 DEF KickInv, TypeOK
    <2> QED BY <2>5, <2>6 DEF Threads
  <1>11. CASE ClearTime(t)
    BY <1>11, QuietKickInv DEF ClearTime, Goto, TypeOK, Share
  <1>12. CASE ClearRequest(t)
    BY <1>12, QuietKickInv DEF ClearRequest, Caller, Goto, TypeOK, Share
  <1> QED
    BY <1>1, <1>2, <1>3, <1>4, <1>5, <1>6, <1>7, <1>8, <1>9, <1>10, <1>11,
       <1>12 DEF Thread

\* vm_wdt_reset is called at most twice for each of the first MaxResets
\* requests, whatever the interleaving, and never after them.
THEOREM KicksAreBounded == Spec => []KickBound
  <1>1. Init => KickInv
    BY ConstantsAssumption
       DEF Init, KickInv, Share, Granted, BootPlaces, Threads
  <1>2. TypeOK /\ KickInv /\ [Next]_vars => KickInv'
    <2> SUFFICES ASSUME TypeOK, KickInv, [Next]_vars PROVE KickInv'
      OBVIOUS
    <2>1. CASE Tick
      BY <2>1, TickKickInv
    <2>2. CASE WdtFire
      BY <2>2, PowerKickInv DEF WdtFire
    <2>3. CASE Restart
      BY <2>3, PowerKickInv DEF Restart
    <2>4. CASE CreateShell
      BY <2>4, QuietKickInv DEF CreateShell, Goto, TypeOK, Share
    <2>5. CASE ShellGetc
      BY <2>5, QuietKickInv DEF ShellGetc, TypeOK, Share
    <2>6. CASE TimerCallback
      BY <2>6, QuietKickInv DEF TimerCallback, Goto, TypeOK, Share
    <2>7. ASSUME NEW t \in Threads, Thread(t) PROVE KickInv'
      BY <2>7, ThreadKickInv
    <2>8. CASE UNCHANGED vars
      BY <2>8, QuietKickInv DEF vars, Share
    <2> QED
      BY <2>1, <2>2, <2>3, <2>4, <2>5, <2>6, <2>7, <2>8 DEF Next, Time
  <1>3. TypeOK /\ KickInv => KickBound
    <2> SUFFICES ASSUME TypeOK, KickInv PROVE KickBound
      OBVIOUS
    <2>1. /\ Share("main") \in Nat /\ Share("shell") \in Nat
          /\ Granted \in Nat /\ Granted <= MaxResets
      BY ConstantsAssumption DEF Share, Granted, TypeOK
    <2> QED BY <2>1, ConstantsAssumption DEF KickInv, KickBound, TypeOK
  <1> QED BY <1>1, <1>2, <1>3, TypeCorrect, PTL DEF Spec
=============================================================================
