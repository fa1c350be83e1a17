------------------------------ MODULE Watchdog ------------------------------
(***************************************************************************)
(* The software side of the hardware watchdog of the Lua firmware.         *)
(*                                                                         *)
(* Three activities share six plain C ints without a lock:                 *)
(*   - the HISR timer sys_timer_callback (main.c), which counts ticks and  *)
(*     raises a request do_wdt_reset; it interrupts the threads and is     *)
(*     never interrupted by them, so one call of it is one step;           *)
(*   - the main thread: wdg_timer_callback, and the Lua code it runs;      *)
(*   - the shell thread: retarget_getc, and the Lua code it runs (the      *)
(*     "print" of the results in dotty, shell.c).                          *)
(* The Lua interpreter itself stores sys_wdt_rst_time and calls _reset_wdg *)
(* before EVERY virtual machine instruction (lvm.c), whichever thread it   *)
(* runs on, so _reset_wdg is modelled statement by statement per thread.   *)
(*                                                                         *)
(* Time is counted in ticks of the hardware; the HISR period is Interval.  *)
(***************************************************************************)
EXTENDS Integers

CONSTANTS
  Interval,     \* SYS_TIMER_INTERVAL: ticks between two HISR calls
  Rst,          \* sys_wdt_rst: age at which the watchdog is to be reset
  Tmo,          \* sys_wdt_tmo: age at which the hardware fires
  MaxResets,    \* MAX_WDT_RESET_COUNT
  MaxCCalls,    \* LUAI_MAXCCALLS: nested C calls the interpreter accepts
  PanicTime,    \* the value panic() (lauxlib.c) stores in both counters
  LuaThreads,   \* the threads that execute Lua byte code
  Latency       \* property parameter: ticks a request or a window may last

Threads == {"main", "shell"}

ASSUME ConstantsAssumption ==
  /\ Interval \in Nat \ {0} /\ Rst \in Nat /\ Tmo \in Nat
  /\ MaxResets \in Nat /\ MaxCCalls \in Nat \ {0, 1} /\ PanicTime \in Nat
  /\ Interval < Rst /\ Rst + 3 * Tmo < PanicTime
  /\ LuaThreads \subseteq Threads

\* What the two threads may take without the watchdog firing (see
\* NoSpuriousFire): with the values of main.c, Latency <= 1060 ticks (4.9 s).
ASSUME LatencyAssumption ==
  /\ Latency \in Nat
  /\ Latency <= Rst
  /\ Rst + 2 * Interval + 2 * Latency < Tmo

VARIABLES
  board,              \* "on", or how it went down: "wdt", "reboot"
  hw,                 \* ticks since the hardware watchdog was last reset
  sys_wdt_time,       \* ticks since the software last cleared it
  sys_wdt_rst_time,   \* ticks since a thread last showed it is alive
  sys_wdt_rst_count,  \* requests raised so far
  do_wdt_reset,       \* a request is pending (0 or 1)
  wdg_reboot_cb,      \* what os.onreboot registered: "none", "lua", "c"
  pc,                 \* where each thread is (see Places)
  ctx,                \* how it got into Lua: "none", "pcall", "call"
  depth,              \* nested luaV_execute activations of each thread
  \* history, read by the properties only:
  silence,            \* ticks since a thread last stored sys_wdt_rst_time = 0
  kicks,              \* calls of vm_wdt_reset since boot (up to the bound + 1)
  pend,               \* ticks the current request has been pending
  held,               \* ticks each thread has been between test and end
  starved,            \* some HISR call found no sign of life for Rst ticks
  late                \* a request or a window lasted more than Latency

clocks == <<hw, sys_wdt_time, sys_wdt_rst_time, silence, pend, held,
            starved, late>>
lua    == <<ctx, depth, wdg_reboot_cb>>
vars   == <<board, hw, sys_wdt_time, sys_wdt_rst_time, sys_wdt_rst_count,
            do_wdt_reset, wdg_reboot_cb, pc, ctx, depth, silence, kicks,
            pend, held, starved, late>>

(***************************************************************************)
(* unborn     the shell thread before VM_EVENT_CREATE has been handled     *)
(* out        event loop (main), retarget_getc or waiting (shell)          *)
(* lua        between two VM instructions, or inside a C function called   *)
(* test       at the head of _reset_wdg                                    *)
(* kick, cleartime, clearreq   at its last three statements                *)
(* dead       in the endless loop of _exit, after a panic                  *)
(***************************************************************************)
Window == {"kick", "cleartime", "clearreq"}
Places == {"unborn", "out", "lua", "test", "dead"} \union Window

NoThread(x) == [t \in Threads |-> x]
BootPlaces == [t \in Threads |-> IF t = "main" THEN "out" ELSE "unborn"]

\* vm_main: the HISR and the 100 ms timer are armed, then vm_wdt_start.
Init ==
  /\ board = "on"
  /\ hw = 0 /\ sys_wdt_time = 0 /\ sys_wdt_rst_time = 0
  /\ sys_wdt_rst_count = 0 /\ do_wdt_reset = 0
  /\ pc = BootPlaces /\ ctx = NoThread("none") /\ depth = NoThread(0)
  /\ wdg_reboot_cb = "none"
  /\ silence = 0 /\ kicks = 0 /\ pend = 0 /\ held = NoThread(0)
  /\ starved = FALSE /\ late = FALSE

\* Every exit of the application loses the C variables.
Power(where) ==
  /\ board' = where
  /\ hw' = 0 /\ sys_wdt_time' = 0 /\ sys_wdt_rst_time' = 0
  /\ sys_wdt_rst_count' = 0 /\ do_wdt_reset' = 0
  /\ pc' = BootPlaces /\ ctx' = NoThread("none") /\ depth' = NoThread(0)
  /\ wdg_reboot_cb' = "none"
  /\ silence' = 0 /\ kicks' = 0 /\ pend' = 0 /\ held' = NoThread(0)
  /\ starved' = FALSE /\ late' = FALSE

Restart == board # "on" /\ Power("on")

-----------------------------------------------------------------------------
(* Time: the hardware counter and the HISR timer callback.                 *)

\* The history of a tick.  Once late, the counters behind it are not needed.
Observe(alive) ==
  LET p == IF do_wdt_reset = 1 THEN pend + Interval ELSE 0
      h == [t \in Threads |->
              IF pc[t] \in Window THEN held[t] + Interval ELSE 0]
  IN  /\ late' = (late \/ p > Latency \/ \E t \in Threads : h[t] > Latency)
      /\ pend' = IF late' THEN 0 ELSE p
      /\ held' = IF late' THEN NoThread(0) ELSE h
      /\ starved' = (starved \/ ~alive)

\* Lua is alive and the watchdog has not been reset for Rst ticks.
MutantRaiseUnheard == do_wdt_reset = 0 /\ sys_wdt_time + Interval > Rst
MutantRaiseAtTmo ==
  /\ do_wdt_reset = 0
  /\ sys_wdt_rst_time + Interval < Rst
  /\ sys_wdt_time + Interval > Tmo

Raise ==
  /\ do_wdt_reset = 0
  /\ sys_wdt_rst_time + Interval < Rst
  /\ sys_wdt_time + Interval > Rst

MutantCountsRequests ==
  /\ sys_wdt_rst_count' = sys_wdt_rst_count + 1
  /\ do_wdt_reset' = sys_wdt_rst_count + 1
MutantUncounted ==
  /\ do_wdt_reset' = 1
  /\ UNCHANGED sys_wdt_rst_count

RaiseRequest ==
  /\ sys_wdt_rst_count' = sys_wdt_rst_count + 1
  /\ do_wdt_reset' = 1

Tick ==
  /\ board = "on"
  /\ hw + Interval < Tmo
  /\ hw' = hw + Interval
  /\ sys_wdt_rst_time' = sys_wdt_rst_time + Interval
  /\ sys_wdt_time' = sys_wdt_time + Interval
  /\ silence' = silence + Interval
  /\ IF Raise THEN RaiseRequest
              ELSE UNCHANGED <<do_wdt_reset, sys_wdt_rst_count>>
  /\ Observe(sys_wdt_rst_time' < Rst)
  /\ UNCHANGED <<board, kicks, pc, lua>>

\* The hardware fires Tmo ticks after the last vm_wdt_reset.
WdtFire ==
  /\ board = "on"
  /\ hw + Interval >= Tmo
  /\ Power("wdt")

-----------------------------------------------------------------------------
(* The two threads outside _reset_wdg.                                     *)

Goto(t, place) == pc' = [pc EXCEPT ![t] = place]

\* A thread shows it is alive.
Feed == sys_wdt_rst_time' = 0 /\ silence' = 0

\* handle_sysevt(VM_EVENT_CREATE): lua_setup ends with the shell thread.
CreateShell ==
  /\ board = "on" /\ pc["main"] = "out" /\ pc["shell"] = "unborn"
  /\ Goto("shell", "out")
  /\ UNCHANGED <<board, sys_wdt_rst_count, do_wdt_reset, kicks, clocks, lua>>

\* retarget_getc: after each second without a character, and after each
\* character.
ShellGetc ==
  /\ board = "on" /\ pc["shell"] = "out"
  /\ Feed
  /\ UNCHANGED <<board, hw, sys_wdt_time, sys_wdt_rst_count, do_wdt_reset, pc,
                 lua, kicks, pend, held, starved, late>>

\* wdg_timer_callback, every 100 ms when the main thread is in its event loop.
TimerCallback ==
  /\ board = "on" /\ pc["main"] = "out"
  /\ Goto("main", "test")
  /\ UNCHANGED <<board, sys_wdt_rst_count, do_wdt_reset, kicks, clocks, lua>>

\* A thread starts to execute Lua: docall and the print of the results are
\* lua_pcall, the callbacks of timers and devices are lua_call.
EnterLua(t, how) ==
  /\ board = "on" /\ pc[t] = "out" /\ t \in LuaThreads
  /\ t = "shell" => how = "pcall"
  /\ Goto(t, "lua")
  /\ ctx' = [ctx EXCEPT ![t] = how]
  /\ depth' = [depth EXCEPT ![t] = 1]
  /\ UNCHANGED <<board, sys_wdt_rst_count, do_wdt_reset, kicks,
                 wdg_reboot_cb, clocks>>

\* The head of luaV_execute's loop, and the two ends of retarget_waitchars.
Instruction(t) ==
  /\ board = "on" /\ pc[t] = "lua"
  /\ Feed
  /\ Goto(t, "test")
  /\ UNCHANGED <<board, hw, sys_wdt_time, sys_wdt_rst_count, do_wdt_reset,
                 lua, kicks, pend, held, starved, late>>

\* os.onreboot(f): f is a Lua function or a light (C) function.
SetRebootCallback(t, kind) ==
  /\ board = "on" /\ pc[t] = "lua"
  /\ wdg_reboot_cb' = kind
  /\ UNCHANGED <<board, sys_wdt_rst_count, do_wdt_reset, kicks, clocks, pc,
                 ctx, depth>>

\* Activations of luaV_execute below which _reset_wdg's callback runs.
Base(t) == IF ctx[t] = "none" THEN 0 ELSE 1

Leave(t) ==
  /\ Goto(t, "out")
  /\ ctx' = [ctx EXCEPT ![t] = "none"]
  /\ depth' = [depth EXCEPT ![t] = 0]

\* luaD_throw: to the pcall if there is one, else panic() and exit().
Throw(t) ==
  \/ /\ ctx[t] = "pcall"
     /\ Leave(t)
     /\ UNCHANGED <<wdg_reboot_cb, clocks>>
  \/ /\ ctx[t] # "pcall"
     /\ Goto(t, "dead")
     /\ sys_wdt_rst_time' = PanicTime
     /\ sys_wdt_time' = PanicTime
     /\ starved' = TRUE
     /\ held' = [held EXCEPT ![t] = 0]
     /\ UNCHANGED <<lua, hw, silence, pend, late>>

LuaError(t) ==
  /\ board = "on" /\ pc[t] = "lua"
  /\ Throw(t)
  /\ UNCHANGED <<board, sys_wdt_rst_count, do_wdt_reset, kicks>>

\* The function returns: to its caller, or, when it is the reboot callback,
\* into _reset_wdg, whose next statement is vm_pwr_reboot.
ReturnFromLua(t) ==
  /\ board = "on" /\ pc[t] = "lua"
  /\ \/ /\ depth[t] = Base(t)
        /\ Leave(t)
        /\ UNCHANGED <<board, sys_wdt_rst_count, do_wdt_reset, kicks,
                       wdg_reboot_cb, clocks>>
     \/ /\ depth[t] > Base(t)
        /\ Power("reboot")

-----------------------------------------------------------------------------
(* _reset_wdg, statement by statement.                                     *)

\* Where _reset_wdg returns to.
Caller(t) == IF depth[t] = 0 THEN "out" ELSE "lua"

NoRequest(t) ==
  /\ board = "on" /\ pc[t] = "test" /\ do_wdt_reset = 0
  /\ Goto(t, Caller(t))
  /\ UNCHANGED <<board, sys_wdt_rst_count, do_wdt_reset, kicks, clocks, lua>>

MutantTakeAny(t) ==
  /\ board = "on" /\ pc[t] = "test" /\ do_wdt_reset > 0
  /\ Goto(t, "kick")
  /\ UNCHANGED <<board, sys_wdt_rst_count, do_wdt_reset, kicks, clocks, lua>>

TakeRequest(t) ==
  /\ board = "on" /\ pc[t] = "test" /\ do_wdt_reset > 0
  /\ sys_wdt_rst_count <= MaxResets
  /\ Goto(t, "kick")
  /\ UNCHANGED <<board, sys_wdt_rst_count, do_wdt_reset, kicks, clocks, lua>>

AtLimit(t) ==
  /\ board = "on" /\ pc[t] = "test" /\ do_wdt_reset > 0
  /\ sys_wdt_rst_count > MaxResets

\* No callback, or one that is not byte code: then vm_pwr_reboot.
RebootNow(t) ==
  /\ AtLimit(t)
  /\ wdg_reboot_cb # "lua"
  /\ Power("reboot")

\* A callback in byte code: luaD_call counts one more C call, and the first
\* instruction of the callback is preceded by _reset_wdg again.
RebootThroughLua(t) ==
  /\ AtLimit(t)
  /\ wdg_reboot_cb = "lua"
  /\ \/ /\ depth[t] + 1 < MaxCCalls
        /\ depth' = [depth EXCEPT ![t] = @ + 1]
        /\ Feed
        /\ UNCHANGED <<pc, ctx, wdg_reboot_cb, hw, sys_wdt_time, pend, held,
                       starved, late>>
     \/ /\ depth[t] + 1 >= MaxCCalls   \* "C stack overflow"
        /\ Throw(t)
  /\ UNCHANGED <<board, sys_wdt_rst_count, do_wdt_reset, kicks>>

\* vm_wdt_reset(wdg_handle)
Kick(t) ==
  /\ board = "on" /\ pc[t] = "kick"
  /\ hw' = 0
  /\ kicks' = IF kicks > 2 * MaxResets THEN kicks ELSE kicks + 1
  /\ Goto(t, "cleartime")
  /\ UNCHANGED <<board, sys_wdt_time, sys_wdt_rst_time, sys_wdt_rst_count,
                 do_wdt_reset, lua, silence, pend, held, starved, late>>

\* sys_wdt_time = 0
ClearTime(t) ==
  /\ board = "on" /\ pc[t] = "cleartime"
  /\ sys_wdt_time' = 0
  /\ Goto(t, "clearreq")
  /\ UNCHANGED <<board, hw, sys_wdt_rst_time, sys_wdt_rst_count, do_wdt_reset,
                 lua, silence, kicks, pend, held, starved, late>>

\* do_wdt_reset = 0
ClearRequest(t) ==
  /\ board = "on" /\ pc[t] = "clearreq"
  /\ do_wdt_reset' = 0
  /\ Goto(t, Caller(t))
  /\ pend' = 0
  /\ held' = [held EXCEPT ![t] = 0]
  /\ UNCHANGED <<board, hw, sys_wdt_time, sys_wdt_rst_time, sys_wdt_rst_count,
                 lua, silence, kicks, starved, late>>

-----------------------------------------------------------------------------
Time == Tick \/ WdtFire \/ Restart

Thread(t) ==
  \/ \E how \in {"pcall", "call"} : EnterLua(t, how)
  \/ Instruction(t)
  \/ \E kind \in {"lua", "c"} : SetRebootCallback(t, kind)
  \/ LuaError(t)
  \/ ReturnFromLua(t)
  \/ NoRequest(t) \/ TakeRequest(t)
  \/ RebootNow(t) \/ RebootThroughLua(t)
  \/ Kick(t) \/ ClearTime(t) \/ ClearRequest(t)

Next ==
  \/ Time
  \/ CreateShell \/ ShellGetc \/ TimerCallback
  \/ \E t \in Threads : Thread(t)

\* Only time is fair: a thread may be blocked for ever at any point.
Spec == Init /\ [][Next]_vars /\ WF_vars(Time)

-----------------------------------------------------------------------------
TypeOK ==
  /\ board \in {"on", "wdt", "reboot"}
  /\ hw \in Nat /\ sys_wdt_time \in Nat /\ sys_wdt_rst_time \in Nat
  /\ sys_wdt_rst_count \in Nat /\ do_wdt_reset \in {0, 1}
  /\ wdg_reboot_cb \in {"none", "lua", "c"}
  /\ pc \in [Threads -> Places]
  /\ ctx \in [Threads -> {"none", "pcall", "call"}]
  /\ depth \in [Threads -> Nat]
  /\ silence \in Nat /\ kicks \in Nat /\ pend \in Nat
  /\ held \in [Threads -> Nat]
  /\ starved \in BOOLEAN /\ late \in BOOLEAN

(***************************************************************************)
(* A healthy system is never reset: when every HISR call of this boot saw  *)
(* a sign of life younger than Rst, and no request and no pass through     *)
(* _reset_wdg took more than Latency ticks, the hardware is not about to   *)
(* fire.  main.c leaves Tmo - Rst = 2167 ticks for everything that can     *)
(* come between the test and the last store, on two threads.               *)
(***************************************************************************)
NoSpuriousFire == hw + Interval >= Tmo => starved \/ late

(***************************************************************************)
(* A hung system is always reset: whatever stale state the two threads     *)
(* were preempted with, the hardware fires before the last sign of life is *)
(* Rst + 3 * Tmo ticks old (Tmo for the age of the counter and one more    *)
(* for each thread that still holds an old request).                       *)
(***************************************************************************)
HangBound == silence < Rst + 3 * Tmo

(***************************************************************************)
(* vm_wdt_reset is called at most once per thread and request, and never   *)
(* for a request beyond MaxResets: with Lua on both threads the 145        *)
(* requests of main.c allow 290 calls.                                     *)
(***************************************************************************)
KickBound == kicks <= 2 * MaxResets

(***************************************************************************)
(* The board goes down again and again, even if Lua feeds the watchdog for *)
(* ever: MAX_WDT_RESET_COUNT bounds the up time of a session.              *)
(***************************************************************************)
UptimeBounded == []<>(board # "on")

(***************************************************************************)
(* "If wdt is reset more then max reset count, we MUST REBOOT!" (main.c):  *)
(* a thread that finds a request beyond the limit stays in _reset_wdg      *)
(* until the board goes down.  It does not when the callback of            *)
(* os.onreboot is byte code: see RebootThroughLua.                         *)
(***************************************************************************)
MustReboot ==
  [][\A t \in Threads : AtLimit(t) /\ board' = "on" => pc'[t] = "test"]_vars
=============================================================================
