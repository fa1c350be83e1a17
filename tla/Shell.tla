-------------------------------- MODULE Shell --------------------------------
(***************************************************************************)
(* The Lua shell of Lua/shell.c and the event loop of Lua/main.c.          *)
(*                                                                         *)
(* The shell thread reads and compiles lines and prints results; the main  *)
(* thread executes the chunks, which it is sent by a message, and calls    *)
(* the Lua functions the devices call back.  Both work on one lua_State:   *)
(* one stack, one chain of pcalls (errorJmp).  There is no lock.  What     *)
(* keeps them apart is that the shell waits while its chunk runs; nothing  *)
(* does while it compiles or prints, or when a line arrives while a        *)
(* callback runs.  From then on (overlap) anything may be on the stack.    *)
(***************************************************************************)
EXTENDS Naturals, Sequences

CONSTANTS
  Lines,        \* lines are numbered 1 to Lines, again and again
  MaxMail       \* bound: messages in the queue of the main thread

ASSUME LinesAssumption == Lines \in Nat \ {0, 1} /\ MaxMail \in Nat \ {0}

Threads == {"shell", "main"}

VARIABLES
  pc,           \* where each thread is
  stack,        \* the Lua stack: what, and the line it comes from
  errorJmp,     \* whose lua_longjmp L->errorJmp is, or "none"
  previous,     \* what each thread saved of it when it entered its pcall
  base,         \* of docall: where the function is
  mail,         \* the queue of the main thread
  signal,       \* g_shell_signal is posted
  g_shell_result,
  status,       \* of dotty: what loadline or remote_docall returned
  \* history
  line,         \* the number of the last complete line
  ran,          \* that line, once its chunk has been called
  answer,       \* what the shell showed last
  overlap       \* both threads have been in the interpreter at once

vars == <<pc, stack, errorJmp, previous, base, mail, signal, g_shell_result,
          status, line, ran, answer, overlap>>
jumps == <<errorJmp, previous>>
call  == <<base, mail, signal, g_shell_result>>

(* The shell: at the head of its loop, in lua_readline for a first or for  *)
(* another line, in luaL_loadbuffer, before and after vm_thread_send_      *)
(* message, before report, in the pcall of print, gone.  The main thread:  *)
(* in its event loop, in the pcall of docall, in its forced collection, in *)
(* a callback, in a chunk or a callback that does not end.  Either: in the *)
(* loop of _exit, or in a lua_longjmp that is not its own.                 *)
ShellPlaces == {"loop", "read", "more", "compile", "send", "wait", "report",
                "print", "gone", "dead", "astray"}
MainPlaces == {"idle", "chunk", "collect", "callback", "endless", "hung",
               "dead", "astray"}

Outcomes == {"nothing", "value", "error", "nil"}
Refusals == {"syntax"}
Nothing == <<"none", 0>>
Values == ({"text", "chunk", "traceback", "callback", "junk", "none"}
             \union Outcomes \union Refusals) \X (0 .. Lines)

Protected == {"compile", "print", "chunk"}
InLua(t) == pc[t] \in Protected \union {"collect", "callback", "endless", "hung"}

Other(t) == IF t = "main" THEN "shell" ELSE "main"
Goto(t, place) == pc' = [pc EXCEPT ![t] = place]

(* A thread works on the lua_State, which the other may be using.          *)
Use(t) == overlap' = (overlap \/ InLua(Other(t)))

Put(s) == IF overlap' THEN stack' \in {<<>>, << <<"junk", 0>> >>}
                      ELSE stack' = s

Top == IF stack = <<>> THEN <<"junk", 0>> ELSE stack[Len(stack)]
Pop == SubSeq(stack, 1, Len(stack) - 1)

MutantLeave(t) == UNCHANGED jumps

(* luaD_rawrunprotected chains its lua_longjmp, and takes it off again.    *)
Enter(t) ==
  /\ previous' = [previous EXCEPT ![t] = errorJmp]
  /\ errorJmp' = t

Leave(t) ==
  /\ errorJmp' = previous[t]
  /\ UNCHANGED previous

Caught(t) == errorJmp = t /\ pc[t] \in Protected

(* luaD_throw, for an error that finds no pcall of its own thread.         *)
Escape(t) ==
  /\ Goto(t, IF errorJmp = "none" THEN "dead" ELSE "astray")
  /\ UNCHANGED <<stack, jumps, call, status, line, ran, answer>>

(* lua_setup: init.lua may leave the message of its error, or results.     *)
Init ==
  /\ pc = [t \in Threads |-> IF t = "main" THEN "idle" ELSE "loop"]
  /\ stack \in {<<>>, << <<"error", 0>> >>}
  /\ errorJmp = "none" /\ previous = [t \in Threads |-> "none"]
  /\ base = 0 /\ mail = <<>> /\ signal = FALSE
  /\ g_shell_result = "ok" /\ status = "ok"
  /\ line = 0 /\ ran = 0 /\ answer = Nothing /\ overlap = FALSE

Reboot ==
  /\ pc' = [t \in Threads |-> IF t = "main" THEN "idle" ELSE "loop"]
  /\ stack' \in {<<>>, << <<"error", 0>> >>}
  /\ errorJmp' = "none" /\ previous' = [t \in Threads |-> "none"]
  /\ base' = 0 /\ mail' = <<>> /\ signal' = FALSE
  /\ g_shell_result' = "ok" /\ status' = "ok"
  /\ line' = 0 /\ ran' = 0 /\ answer' = Nothing /\ overlap' = FALSE

-----------------------------------------------------------------------------
(* The shell thread.                                                       *)

(* The calls of dotty, loadline and pushline are not protected: a memory   *)
(* error, or one in a metamethod of the globals, finds no pcall.           *)
ShellError ==
  /\ pc["shell"] \in {"loop", "read", "more", "report"}
  /\ Use("shell")
  /\ Escape("shell")

MutantPrompt ==
  /\ pc["shell"] = "loop"
  /\ Use("shell")
  /\ Put(stack)
  /\ Goto("shell", "read")
  /\ UNCHANGED <<jumps, call, status, line, ran, answer>>

(* loadline, up to lua_readline in pushline.                               *)
Prompt ==
  /\ pc["shell"] = "loop"
  /\ Use("shell")
  /\ Put(<<>>)
  /\ Goto("shell", "read")
  /\ UNCHANGED <<jumps, call, status, line, ran, answer>>

(* A line is pushed, or joined to the one before.                          *)
Input ==
  /\ pc["shell"] \in {"read", "more"}
  /\ Use("shell")
  /\ Put(Append(IF pc["shell"] = "more" THEN Pop ELSE stack, <<"text", 0>>))
  /\ Enter("shell")
  /\ Goto("shell", "compile")
  /\ UNCHANGED <<call, status, line, ran, answer>>

(* The end of the input: dotty returns and shell_thread asks for a reboot. *)
EndOfInput ==
  /\ pc["shell"] \in {"read", "more"}
  /\ Use("shell")
  /\ Put(<<>>)
  /\ mail' = Append(mail, "quit")
  /\ Goto("shell", "gone")
  /\ UNCHANGED <<jumps, base, signal, g_shell_result, status, line, ran,
                 answer>>

(* luaL_loadbuffer returns: the line may go on; else it gives way to the   *)
(* chunk or to the message.                                                *)
Compiled(how) ==
  /\ pc["shell"] = "compile"
  /\ how = "chunk" \/ Caught("shell")
  /\ UNCHANGED <<call, answer, overlap>>
  /\ Leave("shell")
  /\ IF how = "partial"
       THEN Goto("shell", "more") /\ UNCHANGED <<stack, status, line, ran>>
       ELSE /\ line' = (line % Lines) + 1
            /\ ran' = 0
            /\ Put(Append(Tail(stack), <<how, line'>>))
            /\ status' = IF how = "chunk" THEN "ok" ELSE "fail"
            /\ Goto("shell", IF how = "chunk" THEN "send" ELSE "report")

MutantSend ==
  /\ pc["shell"] = "send"
  /\ mail' = Append(mail, "docall")
  /\ Goto("shell", "report")
  /\ status' = g_shell_result
  /\ UNCHANGED <<stack, jumps, base, signal, g_shell_result, line, ran,
                 answer, overlap>>

(* remote_docall *)
Send ==
  /\ pc["shell"] = "send"
  /\ mail' = Append(mail, "docall")
  /\ Goto("shell", "wait")
  /\ UNCHANGED <<stack, jumps, base, signal, g_shell_result, status, line,
                 ran, answer, overlap>>

MutantWake ==
  /\ pc["shell"] = "wait"
  /\ signal
  /\ status' = g_shell_result
  /\ Goto("shell", "report")
  /\ UNCHANGED <<stack, jumps, call, line, ran, answer, overlap>>

Wake ==
  /\ pc["shell"] = "wait"
  /\ signal
  /\ signal' = FALSE
  /\ status' = g_shell_result
  /\ Goto("shell", "report")
  /\ UNCHANGED <<stack, jumps, base, mail, g_shell_result, line, ran, answer,
                 overlap>>

(* report, and the call of print: what is shown is all that is there.      *)
Report ==
  /\ pc["shell"] = "report"
  /\ Use("shell")
  /\ UNCHANGED <<call, status, line, ran>>
  /\ IF status = "fail"
       THEN /\ answer' = Top
            /\ Put(IF Top[1] = "nil" THEN stack ELSE Pop)
            /\ Goto("shell", "loop")
            /\ UNCHANGED jumps
       ELSE IF stack = <<>>
         THEN /\ answer' = <<"nothing", line>>
              /\ Put(stack)
              /\ Goto("shell", "loop")
              /\ UNCHANGED jumps
         ELSE /\ answer' = IF Len(stack) = 1 THEN Top ELSE <<"junk", 0>>
              /\ Put(stack)
              /\ Enter("shell")
              /\ Goto("shell", "print")

(* print returns, or fails and leaves two messages.                        *)
Printed ==
  /\ pc["shell"] = "print"
  /\ UNCHANGED overlap
  /\ \/ Put(<<>>)
     \/ Caught("shell") /\ Put(<< <<"error", line>>, <<"error", line>> >>)
  /\ Leave("shell")
  /\ Goto("shell", "loop")
  /\ UNCHANGED <<call, status, line, ran, answer>>

-----------------------------------------------------------------------------
(* The main thread: handle_sysevt and the callbacks of the devices.        *)

DeviceEvent ==
  /\ Len(mail) < MaxMail
  /\ mail' = Append(mail, "event")
  /\ UNCHANGED <<pc, stack, jumps, base, signal, g_shell_result, status,
                 line, ran, answer, overlap>>

Receive(message) ==
  /\ pc["main"] = "idle"
  /\ mail # <<>> /\ Head(mail) = message
  /\ mail' = Tail(mail)

Quit ==
  /\ pc["main"] = "idle"
  /\ mail # <<>> /\ Head(mail) = "quit"
  /\ Reboot

(* shell_docall: the traceback function goes under what is on top.         *)
Docall ==
  /\ Receive("docall")
  /\ Use("main")
  /\ base' = Len(stack)
  /\ Put(Pop \o << <<"traceback", 0>>, Top>>)
  /\ ran' = IF Top[1] = "chunk" THEN Top[2] ELSE 0
  /\ Enter("main")
  /\ Goto("main", "chunk")
  /\ UNCHANGED <<signal, g_shell_result, status, line, answer>>

Removed(s, i) == SubSeq(s, 1, i - 1) \o SubSeq(s, i + 1, Len(s))

MutantReturned(s) == s

(* lua_remove(L, base), after the results or the error replaced the chunk. *)
Returned(s) == Removed(s, base)

(* The chunk returns or fails; after an error a collection is forced.      *)
ChunkEnds(out) ==
  /\ pc["main"] = "chunk"
  /\ UNCHANGED overlap
  /\ out \in {"error", "nil"} => Caught("main")
  /\ Put(Returned(Pop \o IF out = "nothing" THEN <<>>
                                          ELSE << <<out, Top[2]>> >>))
  /\ Leave("main")
  /\ IF out \in {"error", "nil"}
       THEN /\ Goto("main", "collect")
            /\ UNCHANGED <<signal, g_shell_result>>
       ELSE /\ g_shell_result' = "ok"
            /\ signal' = TRUE
            /\ Goto("main", "idle")
  /\ UNCHANGED <<base, mail, status, line, ran, answer>>

MutantCollected ==
  /\ pc["main"] = "collect"
  /\ g_shell_result' = "fail"
  /\ Goto("main", "idle")
  /\ UNCHANGED <<stack, jumps, base, mail, signal, status, line, ran, answer,
                 overlap>>

Collected ==
  /\ pc["main"] = "collect"
  /\ g_shell_result' = "fail"
  /\ signal' = TRUE
  /\ Goto("main", "idle")
  /\ UNCHANGED <<stack, jumps, base, mail, status, line, ran, answer,
                 overlap>>

(* A Lua function registered by the program is called with lua_call.       *)
Callback ==
  /\ Receive("event")
  /\ Use("main")
  /\ Put(Append(stack, <<"callback", 0>>))
  /\ Goto("main", "callback")
  /\ UNCHANGED <<jumps, base, signal, g_shell_result, status, line, ran,
                 answer>>

CallbackEnds ==
  /\ pc["main"] = "callback"
  /\ UNCHANGED overlap
  /\ Put(Pop)
  /\ Goto("main", "idle")
  /\ UNCHANGED <<jumps, call, status, line, ran, answer>>

(* An error in a callback, or in a finalizer of the forced collection, or  *)
(* one whose pcall has been unchained by the other thread.                 *)
Uncaught(t) ==
  /\ InLua(t) /\ pc[t] \notin {"endless", "hung"}
  /\ ~ Caught(t)
  /\ Escape(t)
  /\ UNCHANGED overlap

(* The virtual machine feeds the watchdog: nothing ends an endless chunk.  *)
Endless ==
  /\ \/ pc["main"] = "chunk" /\ Goto("main", "endless")
     \/ pc["main"] = "callback" /\ Goto("main", "hung")
  /\ UNCHANGED <<stack, jumps, call, status, line, ran, answer, overlap>>

(* panic() makes the hardware watchdog fire (module Watchdog).             *)
Reset == (\E t \in Threads : pc[t] = "dead") /\ Reboot

-----------------------------------------------------------------------------

ShellWork ==
  \/ Prompt \/ Send \/ Wake \/ Report \/ Printed
  \/ \E how \in {"chunk", "partial", "syntax"} : Compiled(how)

MainWork ==
  \/ Quit \/ Docall \/ Collected \/ Callback \/ CallbackEnds
  \/ \E out \in Outcomes : ChunkEnds(out)

Next ==
  \/ ShellWork \/ Input \/ EndOfInput \/ ShellError
  \/ MainWork \/ DeviceEvent \/ Endless
  \/ \E t \in Threads : Uncaught(t)
  \/ Reset

(* Both threads are scheduled, and the watchdog fires.                     *)
Spec ==
  /\ Init /\ [][Next]_vars
  /\ WF_vars(ShellWork) /\ WF_vars(MainWork) /\ WF_vars(Reset)

-----------------------------------------------------------------------------

Lost == overlap \/ \E t \in Threads : pc[t] \in {"dead", "astray"}

(* Each thread has places of its own, and one call is under way at most.   *)
TypeOK ==
  /\ pc \in [Threads -> ShellPlaces \union MainPlaces]
  /\ pc["shell"] \in ShellPlaces /\ pc["main"] \in MainPlaces
  /\ Len(stack) <= 3 /\ \A i \in 1 .. Len(stack) : stack[i] \in Values
  /\ errorJmp \in Threads \union {"none"}
  /\ previous \in [Threads -> Threads \union {"none"}]
  /\ base \in 0 .. 2
  /\ Len(mail) <= MaxMail + 1
  /\ \A i \in 1 .. Len(mail) : mail[i] \in {"event", "docall", "quit"}
  /\ signal \in BOOLEAN
  /\ g_shell_result \in {"ok", "fail"} /\ status \in {"ok", "fail"}
  /\ line \in 0 .. Lines /\ ran \in 0 .. Lines
  /\ answer \in Values /\ overlap \in BOOLEAN

Pending == {i \in 1 .. Len(mail) : mail[i] = "docall"}

(* While the shell waits, its call is in exactly one place: in the queue,  *)
(* on the main thread, or answered by the signal; else it is in none.      *)
Rendezvous ==
  ~ Lost =>
    IF pc["shell"] = "wait"
      THEN \/ /\ signal /\ Pending = {}
              /\ pc["main"] \notin {"chunk", "collect", "endless"}
           \/ /\ ~ signal /\ Pending # {}
              /\ \A i, j \in Pending : i = j
              /\ pc["main"] \notin {"chunk", "collect", "endless"}
           \/ /\ ~ signal /\ Pending = {}
              /\ pc["main"] \in {"chunk", "collect", "endless"}
      ELSE /\ ~ signal /\ Pending = {}
           /\ pc["main"] \notin {"chunk", "collect", "endless"}

(* Callbacks that come between the compilation of a line, its execution    *)
(* and its report leave nothing on the stack and take nothing from it.     *)
Balanced ==
  ~ Lost =>
    LET own == IF pc["main"] \in {"callback", "hung"} THEN Pop ELSE stack IN
      /\ pc["shell"] = "read" => own = <<>>
      /\ pc["shell"] \in {"more", "compile"} => own = << <<"text", 0>> >>
      /\ pc["shell"] = "send" => own = << <<"chunk", line>> >>
      /\ pc["shell"] = "report" =>
           \/ status = "ok" /\ own = <<>>
           \/ \E out \in Outcomes \union Refusals : own = << <<out, line>> >>

(* An error ends up in a pcall of the thread that raised it, or in panic,  *)
(* unless the threads have been in the interpreter at once.                *)
ErrorsStayHome ==
  ~ overlap => \A t \in Threads :
    /\ pc[t] # "astray"
    /\ errorJmp = t <=> pc[t] \in Protected \union {"endless"}

Abstract == INSTANCE RemoteCall WITH
  Silent <- "none",
  void <- Lost,
  stage <- IF pc["shell"] \in {"send", "wait", "report"}
             THEN IF ran = line THEN "run" ELSE "asked"
             ELSE "none"

(* Every line is answered with its own outcome.                            *)
IsRemoteCall == Abstract!Spec

Busy == pc["main"] \in {"endless", "hung", "astray"} \/ pc["shell"] = "astray"

(* What the shell asks for is done, unless the program does not end.       *)
Answered ==
  pc["shell"] \in {"wait", "gone"} ~> pc["shell"] \notin {"wait", "gone"} \/ Busy
=============================================================================
