----------------------------- MODULE ShellProofs -----------------------------
(***************************************************************************)
(* Proofs about Shell, for any number of lines and messages: until the two *)
(* threads meet in the interpreter, each line gets its own answer.         *)
(*                                                                         *)
(* What the properties say of the moments at which the shell acts is not   *)
(* inductive: it takes where its call is (Posted), who is in the           *)
(* interpreter and chained (Apart), how deep the stack is at every place,  *)
(* whatever has happened (Depth), and, until the threads have met, what is *)
(* on it (Work).                                                           *)
(***************************************************************************)
EXTENDS Shell, Integers, SequenceTheorems, TLAPS

Messages == {"event", "docall", "quit"}
Serving == {"chunk", "collect", "endless"}
Down == {"dead", "astray"}

Places ==
  /\ pc \in [Threads -> ShellPlaces \union MainPlaces]
  /\ pc["shell"] \in ShellPlaces /\ pc["main"] \in MainPlaces

Stacked == stack \in Seq(Values) /\ Len(stack) <= 3

Chained ==
  /\ errorJmp \in Threads \union {"none"}
  /\ previous \in [Threads -> Threads \union {"none"}]

Queued == mail \in Seq(Messages) /\ Len(mail) <= MaxMail + 1

Called ==
  /\ base \in 0 .. 2
  /\ signal \in BOOLEAN
  /\ g_shell_result \in {"ok", "fail"}

Shown ==
  /\ status \in {"ok", "fail"}
  /\ line \in 0 .. Lines /\ ran \in 0 .. Lines
  /\ answer \in Values

Noted == overlap \in BOOLEAN

Typed == Places /\ Stacked /\ Chained /\ Queued /\ Called /\ Shown /\ Noted

\* The call of a shell that waits is in the queue, on the main thread, or
\* answered; it is lost only with the main thread.
Mailed(i) == i \in 1 .. Len(mail) /\ mail[i] = "docall"

Posted ==
  /\ \A i : Mailed(i) =>
       /\ pc["shell"] = "wait" /\ ~ signal /\ pc["main"] \notin Serving
       /\ \A j : Mailed(j) => i = j
  /\ signal => pc["shell"] = "wait" /\ pc["main"] \notin Serving
  /\ pc["main"] \in Serving => pc["shell"] = "wait"
  /\ pc["shell"] = "wait" =>
       signal \/ (\E i : Mailed(i)) \/ pc["main"] \in Serving \union Down
  /\ pc["shell"] # "gone" /\ (\A i : ~ Mailed(i)) => Len(mail) <= MaxMail

\* Until they meet in the interpreter, the threads are there one at a time,
\* and whoever is in a pcall has nothing below it.
InPcall == Protected \union {"endless"}

Apart ==
  ~ overlap =>
    /\ \A t \in Threads :
         /\ pc[t] # "astray"
         /\ errorJmp = t <=> pc[t] \in InPcall
         /\ pc[t] \in InPcall => previous[t] = "none"
    /\ ~ (InLua("shell") /\ InLua("main"))

\* What is on the stack, besides what a callback has put there.
InCallback == pc["main"] \in {"callback", "hung"}
Holds(s) == stack = IF InCallback THEN Append(s, <<"callback", 0>>) ELSE s

Extra == IF pc["main"] \in {"callback", "hung", "dead"} THEN 1 ELSE 0

Depth ==
  /\ overlap => Len(stack) <= 1 \/ pc["shell"] \in Down
  /\ ~ overlap =>
       /\ Len(stack) <= 2 + Extra
       /\ pc["shell"] \in {"read", "gone"} => Len(stack) <= Extra
       /\ pc["shell"] \in {"more", "compile", "send", "report", "print"} =>
            Len(stack) <= 1 + Extra
       /\ pc["shell"] = "wait" /\ pc["main"] \notin {"chunk", "endless"} =>
            Len(stack) <= 1 + Extra
       /\ pc["shell"] \in {"more", "compile"} => Len(stack) >= 1
       /\ InCallback => Len(stack) >= 1
       /\ InCallback /\ pc["shell"] \in {"more", "compile"} => Len(stack) >= 2

Result(code) ==
  \/ code = "ok" /\ (Holds(<<>>) \/ Holds(<< <<"value", line>> >>))
  \/ code = "fail" /\ \E out \in {"error", "nil"} : Holds(<< <<out, line>> >>)

Work ==
  ~ Lost =>
    /\ pc["shell"] \in {"read", "gone"} => Holds(<<>>)
    /\ pc["shell"] \in {"more", "compile"} => Holds(<< <<"text", 0>> >>)
    /\ pc["shell"] = "send" => Holds(<< <<"chunk", line>> >>) /\ ran = 0
    /\ pc["shell"] = "wait" =>
         \/ /\ pc["main"] \in {"chunk", "endless"}
            /\ stack = << <<"traceback", 0>>, <<"chunk", line>> >>
            /\ base = 1 /\ ran = line
         \/ /\ pc["main"] = "collect" /\ ran = line
            /\ \E out \in {"error", "nil"} : stack = << <<out, line>> >>
         \/ /\ pc["main"] \notin Serving /\ signal /\ ran = line
            /\ Result(g_shell_result)
         \/ /\ pc["main"] \notin Serving /\ ~ signal /\ ran = 0
            /\ Holds(<< <<"chunk", line>> >>)
    /\ pc["shell"] = "report" =>
         \/ ran = line /\ Result(status)
         \/ ran = 0 /\ status = "fail" /\ Holds(<< <<"syntax", line>> >>)
    /\ pc["shell"] \in {"send", "wait", "report"} => line # 0

IInv == Typed /\ Posted /\ Apart /\ Depth /\ Work

-----------------------------------------------------------------------------
(* What the helpers of the actions do.                                     *)

LEMMA Constants == Lines \in Nat /\ Lines > 1 /\ MaxMail \in Nat /\ MaxMail > 0
BY LinesAssumption

\* Sequences of two elements at most.
LEMMA Pairs ==
  ASSUME NEW a, NEW b
  PROVE  /\ <<a>> \o <<b>> = <<a, b>> /\ <<a>> \o <<>> = <<a>>
         /\ Len(<<a, b>>) = 2 /\ <<a, b>>[2] = b
         /\ SubSeq(<<a, b>>, 1, 2 - 1) = <<a>>
         /\ SubSeq(<<a, b>>, 1, 1 - 1) \o SubSeq(<<a, b>>, 1 + 1, Len(<<a, b>>))
              = <<b>>
         /\ SubSeq(<<a>>, 1, 1 - 1) \o SubSeq(<<a>>, 1 + 1, Len(<<a>>)) = <<>>
<1> DEFINE two == <<a, b>>
<1>1. /\ <<a>> \in Seq({a, b}) /\ <<b>> \in Seq({a, b}) /\ two \in Seq({a, b})
      /\ Len(<<a>>) = 1 /\ Len(<<b>>) = 1 /\ Len(two) = 2
      /\ <<a>>[1] = a /\ <<b>>[1] = b /\ two[1] = a /\ two[2] = b
  OBVIOUS
<1>2. <<a>> \o <<b>> = two
  <2> DEFINE c == <<a>> \o <<b>>
  <2>1. c \in Seq({a, b}) /\ Len(c) = 2 /\ c[1] = a /\ c[2] = b
    BY <1>1, ConcatProperties
  <2> HIDE DEF c, two
  <2>2. c = two
    BY <1>1, <2>1, SeqEqual
  <2> QED
    BY <2>2 DEF c
<1>3. SubSeq(two, 1, 1) = <<a>> /\ SubSeq(two, 2, 2) = <<b>>
  <2> DEFINE c == SubSeq(two, 1, 1)
             d == SubSeq(two, 2, 2)
  <2> HIDE DEF two
  <2>1. c \in Seq({a, b}) /\ Len(c) = 1 /\ c[1] = a
    BY <1>1, SubSeqProperties
  <2>2. d \in Seq({a, b}) /\ Len(d) = 1 /\ d[1] = b
    BY <1>1, SubSeqProperties
  <2> HIDE DEF c, d
  <2>3. c = <<a>>
    BY <1>1, <2>1, SeqEqual
  <2>4. d = <<b>>
    BY <1>1, <2>2, SeqEqual
  <2> QED
    BY <2>3, <2>4 DEF c, d
<1>4. /\ SubSeq(two, 1, 0) = <<>> /\ SubSeq(<<a>>, 1, 0) = <<>>
      /\ SubSeq(<<a>>, 2, 1) = <<>>
  BY SubSeqEmpty
<1>5. <<a>> \o <<>> = <<a>> /\ <<>> \o <<b>> = <<b>> /\ <<>> \o <<>> = <<>>
  OBVIOUS
<1> HIDE DEF two
<1>6. 1 - 1 = 0 /\ 1 + 1 = 2 /\ 2 - 1 = 1
  OBVIOUS
<1>7. /\ <<a>> \o <<b>> = two /\ <<a>> \o <<>> = <<a>>
      /\ Len(two) = 2 /\ two[2] = b
      /\ SubSeq(two, 1, 2 - 1) = <<a>>
      /\ SubSeq(two, 1, 1 - 1) \o SubSeq(two, 1 + 1, Len(two)) = <<b>>
      /\ SubSeq(<<a>>, 1, 1 - 1) \o SubSeq(<<a>>, 1 + 1, Len(<<a>>)) = <<>>
  BY <1>1, <1>2, <1>3, <1>4, <1>5, <1>6
<1> QED
  BY <1>7 DEF two

LEMMA UseWorks ==
  ASSUME Noted, NEW t \in Threads, Use(t)
  PROVE  /\ Noted'
         /\ ~ overlap' => ~ overlap /\ ~ InLua(Other(t))
         /\ overlap => overlap'
<1>1. overlap' = (overlap \/ InLua(Other(t)))
  BY DEF Use
<1>2. CASE overlap \/ InLua(Other(t))
  <2>1. overlap' = TRUE
    BY <1>1, <1>2
  <2> QED
    BY <2>1, <1>2 DEF Noted
<1>3. CASE ~ (overlap \/ InLua(Other(t)))
  <2>1. overlap' = FALSE
    BY <1>1, <1>3
  <2> QED
    BY <2>1, <1>3 DEF Noted
<1> QED
  BY <1>2, <1>3

LEMMA PutWorks ==
  ASSUME NEW s, Put(s)
  PROVE  /\ overlap' => stack' \in Seq(Values) /\ Len(stack') <= 1
         /\ ~ overlap' => stack' = s
<1>1. CASE overlap'
  <2>1. stack' = <<>> \/ stack' = << <<"junk", 0>> >>
    BY <1>1 DEF Put
  <2>2. <<"junk", 0>> \in Values
    BY Constants DEF Values
  <2>3. << <<"junk", 0>> >> \in Seq(Values) /\ Len(<< <<"junk", 0>> >>) = 1
    BY <2>2
  <2>4. <<>> \in Seq(Values) /\ Len(<<>>) = 0
    BY EmptySeq
  <2>5. stack' \in Seq(Values) /\ Len(stack') <= 1
    <3>1. CASE stack' = <<>>
      BY <2>4, <3>1
    <3>2. CASE stack' = << <<"junk", 0>> >>
      BY <2>3, <3>2
    <3> QED
      BY <2>1, <3>1, <3>2
  <2> QED
    BY <1>1, <2>5
<1>2. CASE ~ overlap'
  BY <1>2 DEF Put
<1> QED
  BY <1>1, <1>2

LEMMA Stacks ==
  ASSUME NEW s, Put(s), ~ overlap' => s \in Seq(Values) /\ Len(s) <= 3
  PROVE  Stacked'
<1>1. CASE overlap'
  BY <1>1, PutWorks DEF Stacked
<1>2. CASE ~ overlap'
  BY <1>2, PutWorks DEF Stacked
<1> QED
  BY <1>1, <1>2

LEMMA Emptied ==
  ASSUME Put(<<>>)
  PROVE  /\ overlap' => stack' \in Seq(Values) /\ Len(stack') <= 1
         /\ ~ overlap' => stack' = <<>>
         /\ Stacked'
<1>1. <<>> \in Seq(Values) /\ Len(<<>>) <= 3
  BY EmptySeq
<1>2. Stacked'
  BY <1>1, Stacks
<1> QED
  BY <1>2, PutWorks

LEMMA GotoWorks ==
  ASSUME Places, NEW t \in Threads, NEW place, Goto(t, place),
         t = "shell" => place \in ShellPlaces,
         t = "main" => place \in MainPlaces
  PROVE  Places' /\ pc'[t] = place /\ pc'[Other(t)] = pc[Other(t)]
BY DEF Places, Goto, Threads, Other

LEMMA PopWorks ==
  ASSUME stack \in Seq(Values)
  PROVE  /\ Pop \in Seq(Values)
         /\ Len(Pop) = IF stack = <<>> THEN 0 ELSE Len(stack) - 1
         /\ Top \in Values
<1>1. Len(stack) \in Nat /\ \A i \in 1 .. Len(stack) : stack[i] \in Values
  OBVIOUS
<1>2. Len(stack) = 0 <=> stack = <<>>
  BY EmptySeq
<1>3. /\ Pop \in Seq(Values)
      /\ Len(Pop) = IF stack = <<>> THEN 0 ELSE Len(stack) - 1
  BY <1>1, <1>2, SubSeqProperties DEF Pop
<1>4. Top \in Values
  <2>1. <<"junk", 0>> \in Values
    BY Constants DEF Values
  <2>2. stack # <<>> => Len(stack) \in 1 .. Len(stack)
    BY <1>1, <1>2
  <2> QED
    BY <1>1, <2>1, <2>2 DEF Top
<1> QED
  BY <1>3, <1>4

\* Below what was put last.
LEMMA PopOfAppend ==
  ASSUME NEW S, NEW s \in Seq(S), NEW x \in S
  PROVE  /\ SubSeq(Append(s, x), 1, Len(Append(s, x)) - 1) = s
         /\ Append(s, x)[Len(Append(s, x))] = x
<1>1. /\ Append(s, x) \in Seq(S) /\ Len(Append(s, x)) = Len(s) + 1
      /\ \A i \in 1 .. Len(s) : Append(s, x)[i] = s[i]
      /\ Append(s, x)[Len(s) + 1] = x
  BY AppendProperties
<1>2. Len(s) \in Nat
  OBVIOUS
<1> DEFINE r == SubSeq(Append(s, x), 1, Len(s))
<1>3. \A i \in 1 .. Len(s) : Append(s, x)[i] \in S
  BY <1>1
<1>4. /\ r \in Seq(S) /\ Len(r) = Len(s)
      /\ \A i \in 1 .. Len(s) : r[i] = Append(s, x)[i]
  BY <1>1, <1>2, <1>3, SubSeqProperties
<1> HIDE DEF r
<1>5. r = s
  BY <1>1, <1>4, SeqEqual
<1> QED
  BY <1>1, <1>2, <1>5 DEF r

\* What the stack can consist of, below a callback.
LEMMA Contents ==
  ASSUME Shown
  PROVE  /\ <<>> \in Seq(Values) /\ << <<"text", 0>> >> \in Seq(Values)
         /\ \A out \in {"chunk", "syntax", "value", "error", "nil"} :
              << <<out, line>> >> \in Seq(Values)
<1>1. <<"text", 0>> \in Values
  BY Constants DEF Values
<1>2. \A out \in {"chunk", "syntax", "value", "error", "nil"} :
        <<out, line>> \in Values
  BY DEF Shown, Values, Outcomes, Refusals
<1> QED
  BY <1>1, <1>2, EmptySeq

LEMMA MailAppended ==
  ASSUME mail \in Seq(Messages), NEW m \in Messages, mail' = Append(mail, m)
  PROVE  /\ mail' \in Seq(Messages) /\ Len(mail') = Len(mail) + 1
         /\ \A i : Mailed(i)' <=>
                    Mailed(i) \/ (i = Len(mail) + 1 /\ m = "docall")
<1>1. /\ mail' \in Seq(Messages) /\ Len(mail') = Len(mail) + 1
      /\ \A i \in 1 .. Len(mail) : mail'[i] = mail[i]
      /\ mail'[Len(mail) + 1] = m
  BY AppendProperties
<1>2. Len(mail) \in Nat
  OBVIOUS
<1>3. \A i : Mailed(i)' <=> Mailed(i) \/ (i = Len(mail) + 1 /\ m = "docall")
  <2> SUFFICES ASSUME NEW i
               PROVE  Mailed(i)' <=>
                        Mailed(i) \/ (i = Len(mail) + 1 /\ m = "docall")
    OBVIOUS
  <2>1. i \in 1 .. Len(mail') <=> i \in 1 .. Len(mail) \/ i = Len(mail) + 1
    BY <1>1, <1>2
  <2>2. CASE i = Len(mail) + 1
    BY <1>1, <1>2, <2>1, <2>2 DEF Mailed
  <2>3. CASE i # Len(mail) + 1
    BY <1>1, <2>1, <2>3 DEF Mailed
  <2> QED
    BY <2>2, <2>3
<1> QED
  BY <1>1, <1>3

LEMMA MailTaken ==
  ASSUME mail \in Seq(Messages), mail # <<>>, mail' = Tail(mail)
  PROVE  /\ mail' \in Seq(Messages) /\ Len(mail') = Len(mail) - 1
         /\ \A i : Mailed(i)' <=> i \in Nat \ {0} /\ Mailed(i + 1)
         /\ Head(mail) = "docall" <=> Mailed(1)
<1>1. /\ mail' \in Seq(Messages) /\ Len(mail') = Len(mail) - 1
      /\ \A i \in 1 .. Len(mail') : mail'[i] = mail[i + 1]
  BY HeadTailProperties
<1>2. Len(mail) \in Nat /\ Len(mail) >= 1 /\ Head(mail) = mail[1]
  BY EmptySeq
<1>3. \A i : Mailed(i)' <=> i \in Nat \ {0} /\ Mailed(i + 1)
  <2> SUFFICES ASSUME NEW i
               PROVE  Mailed(i)' <=> i \in Nat \ {0} /\ Mailed(i + 1)
    OBVIOUS
  <2>1. CASE i \in Nat \ {0}
    <3>1. i \in 1 .. Len(mail') <=> i + 1 \in 1 .. Len(mail)
      BY <1>1, <1>2, <2>1
    <3> QED
      BY <1>1, <2>1, <3>1 DEF Mailed
  <2>2. CASE i \notin Nat \ {0}
    <3>1. i \notin 1 .. Len(mail')
      BY <1>1, <1>2, <2>2
    <3> QED
      BY <2>2, <3>1 DEF Mailed
  <2> QED
    BY <2>1, <2>2
<1> QED
  BY <1>1, <1>2, <1>3 DEF Mailed
LEMMA MailedKept ==
  ASSUME UNCHANGED mail
  PROVE  \A i : Mailed(i)' <=> Mailed(i)
BY DEF Mailed

\* A step that leaves a group of variables alone.
LEMMA Kept ==
  /\ UNCHANGED jumps /\ Chained => Chained'
  /\ UNCHANGED mail /\ Queued => Queued'
  /\ UNCHANGED <<base, signal, g_shell_result>> /\ Called => Called'
  /\ UNCHANGED <<status, line, ran, answer>> /\ Shown => Shown'
  /\ UNCHANGED stack /\ Stacked => Stacked'
  /\ UNCHANGED overlap /\ Noted => Noted'
BY DEF jumps, Chained, Queued, Called, Shown, Stacked, Noted

\* luaD_rawrunprotected and its return.
LEMMA EnterWorks ==
  ASSUME Chained, NEW t \in Threads, Enter(t)
  PROVE  /\ Chained' /\ errorJmp' = t /\ previous'[t] = errorJmp
         /\ previous'[Other(t)] = previous[Other(t)]
BY DEF Chained, Enter, Threads, Other

LEMMA LeaveWorks ==
  ASSUME Chained, NEW t \in Threads, Leave(t)
  PROVE  Chained' /\ errorJmp' = previous[t] /\ previous' = previous
BY DEF Chained, Leave, Threads

\* Steps that leave the queue and the signal alone.
LEMMA PostedKept ==
  ASSUME Posted, UNCHANGED <<mail, signal>>,
         pc'["shell"] = "wait" <=> pc["shell"] = "wait",
         pc'["shell"] = "gone" <=> pc["shell"] = "gone",
         pc'["main"] \in Serving <=> pc["main"] \in Serving,
         pc["main"] \in Down => pc'["main"] \in Down
  PROVE  Posted'
BY MailedKept DEF Posted

LEMMA Initially == Init => IInv
<1> SUFFICES ASSUME Init PROVE IInv
  OBVIOUS
<1> USE DEF Init
<1>1. /\ pc["main"] = "idle" /\ pc["shell"] = "loop"
      /\ \A t \in Threads : pc[t] \in {"idle", "loop"}
      /\ Places
  BY DEF Places, Threads, ShellPlaces, MainPlaces
<1>2. Stacked /\ Len(stack) <= 1
  <2>1. <<"error", 0>> \in Values
    BY Constants DEF Values, Outcomes
  <2>2. << <<"error", 0>> >> \in Seq(Values) /\ Len(<< <<"error", 0>> >>) = 1
    BY <2>1
  <2>3. <<>> \in Seq(Values) /\ Len(<<>>) = 0
    BY EmptySeq
  <2>4. CASE stack = <<>>
    BY <2>3, <2>4 DEF Stacked
  <2>5. CASE stack = << <<"error", 0>> >>
    BY <2>2, <2>5 DEF Stacked
  <2> QED
    BY <2>4, <2>5
<1>3. Chained
  BY DEF Chained, Threads
<1>4. Queued /\ (\A i : ~ Mailed(i)) /\ Len(mail) <= MaxMail
  <2>1. mail \in Seq(Messages) /\ Len(mail) = 0
    BY EmptySeq
  <2>2. Len(mail) <= MaxMail + 1 /\ Len(mail) <= MaxMail
    BY <2>1, Constants
  <2> QED
    BY <2>1, <2>2 DEF Queued, Mailed
<1>5. Called /\ Shown /\ Noted /\ ~ overlap
  <2>1. Nothing \in Values
    BY Constants DEF Values, Nothing
  <2>2. answer \in Values
    BY <2>1
  <2>3. line \in 0 .. Lines /\ ran \in 0 .. Lines
    BY Constants
  <2>4. signal \in BOOLEAN
    OBVIOUS
  <2>5. Called
    BY <2>4 DEF Called
  <2>6. Noted /\ ~ overlap
    BY DEF Noted
  <2> QED
    BY <2>2, <2>3, <2>5, <2>6 DEF Shown
<1>6. Typed
  BY <1>1, <1>2, <1>3, <1>4, <1>5 DEF Typed
<1>7. Posted
  BY <1>1, <1>4 DEF Posted, Serving
<1>8. Apart
  BY <1>1 DEF Apart, InPcall, InLua, Protected, Threads
<1>9. Depth
  BY <1>1, <1>2, <1>5 DEF Depth, Extra, InCallback
<1>10. Work
  BY <1>1 DEF Work
<1> QED
  BY <1>6, <1>7, <1>8, <1>9, <1>10 DEF IInv

\* A reboot starts again.
LEMMA RebootStep == Reboot => IInv'
<1>1. Reboot => Init'
  BY DEF Reboot, Init
<1>2. Init' => IInv'
  BY Initially, PTL
<1> QED
  BY <1>1, <1>2

-----------------------------------------------------------------------------

(* The shell thread.                                                       *)

LEMMA ShellErrorStep ==
  ASSUME IInv, ShellError
  PROVE  IInv'
<1> USE DEF IInv
<1>1. /\ Noted' /\ (overlap => overlap')
      /\ ~ overlap' => ~ overlap /\ ~ InLua("main")
  BY UseWorks DEF ShellError, Typed, Threads, Other
<1>2. Escape("shell") /\ pc["shell"] \in {"loop", "read", "more", "report"}
  BY DEF ShellError
<1>3. /\ UNCHANGED <<stack, jumps, call, status, line, ran, answer>>
      /\ Goto("shell", IF errorJmp = "none" THEN "dead" ELSE "astray")
  BY <1>2 DEF Escape
<1>4. /\ Places' /\ pc'["shell"] \in Down /\ pc'["main"] = pc["main"]
      /\ pc'["shell"] = IF errorJmp = "none" THEN "dead" ELSE "astray"
  BY <1>3, GotoWorks DEF Typed, Threads, Other, ShellPlaces, Down
<1>5. Typed'
  BY <1>1, <1>3, <1>4, Kept DEF Typed, call
<1>6. Posted'
  BY <1>2, <1>3, <1>4, PostedKept DEF call, Down
<1>7. Apart'
  <2> SUFFICES ASSUME ~ overlap' PROVE Apart'
    BY DEF Apart
  <2>1. errorJmp = "none"
    BY <1>1, <1>2 DEF Apart, Typed, Chained, Threads, InLua, Protected, InPcall
  <2>2. pc'["shell"] = "dead"
    BY <1>4, <2>1
  <2> QED
    BY <1>1, <1>2, <1>3, <1>4, <2>2
    DEF Apart, Threads, InLua, Protected, InPcall, jumps
<1>8. Depth'
  BY <1>1, <1>2, <1>3, <1>4 DEF Depth, Extra, InCallback, Down
<1>9. Work'
  BY <1>4 DEF Work, Lost, Threads, Down
<1> QED
  BY <1>5, <1>6, <1>7, <1>8, <1>9

LEMMA PromptStep ==
  ASSUME IInv, Prompt
  PROVE  IInv'
<1> USE DEF IInv
<1>1. /\ Noted' /\ (overlap => overlap')
      /\ ~ overlap' => ~ overlap /\ ~ InLua("main")
  BY UseWorks DEF Prompt, Typed, Threads, Other
<1>2. pc["shell"] = "loop" /\ UNCHANGED <<jumps, call, status, line, ran, answer>>
  BY DEF Prompt
<1>3. /\ overlap' => stack' \in Seq(Values) /\ Len(stack') <= 1
      /\ ~ overlap' => stack' = <<>>
      /\ Stacked'
  BY Emptied DEF Prompt
<1>4. Places' /\ pc'["shell"] = "read" /\ pc'["main"] = pc["main"]
  BY GotoWorks DEF Prompt, Typed, Threads, Other, ShellPlaces
<1>5. Typed'
  BY <1>1, <1>2, <1>3, <1>4, Kept DEF Typed, call
<1>6. Posted'
  BY <1>2, <1>4, PostedKept DEF call
<1>7. Apart'
  BY <1>1, <1>2, <1>4
  DEF Apart, Threads, InLua, Protected, InPcall, jumps
<1>8. Depth'
  BY <1>1, <1>2, <1>3, <1>4 DEF Depth, Extra, InCallback, InLua, Protected
<1>9. Work'
  BY <1>1, <1>2, <1>3, <1>4
  DEF Work, Lost, Threads, Holds, InCallback, InLua, Protected
<1> QED
  BY <1>5, <1>6, <1>7, <1>8, <1>9

LEMMA InputStep ==
  ASSUME IInv, Input
  PROVE  IInv'
<1> USE DEF IInv
<1> DEFINE s == Append(IF pc["shell"] = "more" THEN Pop ELSE stack,
                       <<"text", 0>>)
<1>1. /\ Noted' /\ (overlap => overlap')
      /\ ~ overlap' => ~ overlap /\ ~ InLua("main")
  BY UseWorks DEF Input, Typed, Threads, Other
<1>2. /\ pc["shell"] \in {"read", "more"} /\ Put(s)
      /\ UNCHANGED <<call, status, line, ran, answer>>
      /\ Enter("shell")
  BY DEF Input
<1>3. /\ overlap' => stack' \in Seq(Values) /\ Len(stack') <= 1
      /\ ~ overlap' => stack' = s
  BY <1>2, PutWorks
<1>4. Places' /\ pc'["shell"] = "compile" /\ pc'["main"] = pc["main"]
  BY GotoWorks DEF Input, Typed, Threads, Other, ShellPlaces
<1>5. /\ s \in Seq(Values)
      /\ Len(s) = IF pc["shell"] = "more" THEN Len(Pop) + 1 ELSE Len(stack) + 1
  <2>1. <<"text", 0>> \in Values
    BY Constants DEF Values
  <2>2. Pop \in Seq(Values) /\ stack \in Seq(Values)
    BY PopWorks DEF Typed, Stacked
  <2> QED
    BY <2>1, <2>2, AppendProperties
<1>6. ~ overlap' => Len(s) <= 1 + Extra /\ Len(s) >= 1
  <2>1. stack = <<>> => Len(stack) = 0
    BY EmptySeq
  <2> QED
    BY <1>1, <1>2, <1>5, <2>1, PopWorks
    DEF Depth, Typed, Stacked, Extra, InLua, InCallback, Protected
<1>7. \* the text of a line alone
      ~ overlap' /\ ~ Lost => s = << <<"text", 0>> >>
  <2> SUFFICES ASSUME ~ overlap', ~ Lost PROVE s = << <<"text", 0>> >>
    OBVIOUS
  <2>1. CASE pc["shell"] = "read"
    <3>1. stack = <<>>
      BY <1>1, <2>1 DEF Work, Holds, InCallback, InLua
    <3> QED
      BY <2>1, <3>1
  <2>2. CASE pc["shell"] = "more"
    <3>1. stack = << <<"text", 0>> >>
      BY <1>1, <2>2 DEF Work, Holds, InCallback, InLua
    <3>2. Pop = <<>>
      BY <3>1 DEF Pop
    <3> QED
      BY <2>2, <3>2
  <2> QED
    BY <1>2, <2>1, <2>2
<1> HIDE DEF s
<1>8. /\ Chained' /\ errorJmp' = "shell" /\ previous'["shell"] = errorJmp
      /\ previous'["main"] = previous["main"]
  BY <1>2, EnterWorks DEF Typed, Threads, Other
<1>9. Typed'
  <2>1. Stacked'
    BY <1>2, <1>5, <1>6, Stacks DEF Extra
  <2> QED
    BY <1>1, <1>2, <1>4, <1>8, <2>1, Kept DEF Typed, call
<1>10. Posted'
  BY <1>2, <1>4, PostedKept DEF call
<1>11. Apart'
  BY <1>1, <1>2, <1>4, <1>8
  DEF Apart, Typed, Chained, Threads, InLua, Protected, InPcall
<1>12. Depth'
  BY <1>1, <1>2, <1>3, <1>4, <1>5, <1>6
  DEF Depth, Extra, InCallback, InLua, Protected
<1>13. Work'
  BY <1>1, <1>2, <1>3, <1>4, <1>7
  DEF Work, Lost, Threads, Holds, InCallback, InLua, Protected
<1> QED
  BY <1>9, <1>10, <1>11, <1>12, <1>13

LEMMA EndOfInputStep ==
  ASSUME IInv, EndOfInput
  PROVE  IInv'
<1> USE DEF IInv
<1>1. /\ Noted' /\ (overlap => overlap')
      /\ ~ overlap' => ~ overlap /\ ~ InLua("main")
  BY UseWorks DEF EndOfInput, Typed, Threads, Other
<1>2. /\ pc["shell"] \in {"read", "more"} /\ mail' = Append(mail, "quit")
      /\ UNCHANGED <<jumps, base, signal, g_shell_result, status, line, ran,
                     answer>>
  BY DEF EndOfInput
<1>3. /\ overlap' => stack' \in Seq(Values) /\ Len(stack') <= 1
      /\ ~ overlap' => stack' = <<>>
      /\ Stacked'
  BY Emptied DEF EndOfInput
<1>4. Places' /\ pc'["shell"] = "gone" /\ pc'["main"] = pc["main"]
  BY GotoWorks DEF EndOfInput, Typed, Threads, Other, ShellPlaces
<1>5. /\ mail' \in Seq(Messages) /\ Len(mail') = Len(mail) + 1
      /\ \A i : Mailed(i)' <=> Mailed(i)
  BY <1>2, MailAppended DEF Typed, Queued, Messages
<1>6. /\ \A i : ~ Mailed(i)
      /\ Len(mail) <= MaxMail
  BY <1>2 DEF Posted
<1>7. Typed'
  <2>1. Len(mail) \in Nat
    BY DEF Typed, Queued
  <2>2. Queued'
    BY <1>5, <1>6, <2>1, Constants DEF Queued
  <2> QED
    BY <1>1, <1>2, <1>3, <1>4, <2>2, Kept DEF Typed
<1>8. Posted'
  BY <1>2, <1>4, <1>5, <1>6 DEF Posted
<1>9. Apart'
  BY <1>1, <1>2, <1>4
  DEF Apart, Threads, InLua, Protected, InPcall, jumps
<1>10. Depth'
  BY <1>1, <1>2, <1>3, <1>4 DEF Depth, Extra, InCallback, InLua, Protected
<1>11. Work'
  BY <1>1, <1>2, <1>3, <1>4
  DEF Work, Lost, Threads, Holds, InCallback, InLua, Protected
<1> QED
  BY <1>7, <1>8, <1>9, <1>10, <1>11

LEMMA CompiledStep ==
  ASSUME IInv, NEW how \in {"chunk", "partial", "syntax"}, Compiled(how)
  PROVE  IInv'
<1> USE DEF IInv
<1>1. /\ pc["shell"] = "compile"
      /\ UNCHANGED <<call, answer, overlap>>
      /\ Leave("shell")
  BY DEF Compiled
<1>2. /\ Chained' /\ errorJmp' = previous["shell"] /\ previous' = previous
  BY <1>1, LeaveWorks DEF Typed, Threads
<1>3. ~ overlap => ~ InLua("main")
  BY <1>1 DEF Apart, InLua, Protected, Threads
<1>4. CASE how = "partial"
  <2>1. /\ UNCHANGED <<stack, status, line, ran>>
        /\ Goto("shell", "more")
    BY <1>4 DEF Compiled
  <2>2. Places' /\ pc'["shell"] = "more" /\ pc'["main"] = pc["main"]
    BY <2>1, GotoWorks DEF Typed, Threads, Other, ShellPlaces
  <2>3. Typed'
    BY <1>1, <1>2, <2>1, <2>2, Kept DEF Typed, call
  <2>4. Posted'
    BY <1>1, <2>2, PostedKept DEF call
  <2>5. Apart'
    BY <1>1, <1>2, <1>3, <2>2
    DEF Apart, Typed, Chained, Threads, InLua, Protected, InPcall
  <2>6. Depth'
    BY <1>1, <2>1, <2>2 DEF Depth, Extra, InCallback, Down
  <2>7. Work'
    BY <1>1, <1>3, <2>1, <2>2
    DEF Work, Lost, Threads, Holds, InCallback, InLua
  <2> QED
    BY <2>3, <2>4, <2>5, <2>6, <2>7
<1>5. CASE how # "partial"
  <2> DEFINE s == Append(Tail(stack), <<how, line'>>)
             place == IF how = "chunk" THEN "send" ELSE "report"
  <2>1. /\ line' = (line % Lines) + 1 /\ ran' = 0 /\ Put(s)
        /\ status' = IF how = "chunk" THEN "ok" ELSE "fail"
        /\ Goto("shell", place)
    BY <1>5 DEF Compiled
  <2>2. line' \in 1 .. Lines
    <3>1. line \in Nat
      BY Constants DEF Typed, Shown
    <3> QED
      BY <2>1, <3>1, Constants
  <2>3. Places' /\ pc'["shell"] = place /\ pc'["main"] = pc["main"]
    BY <2>1, GotoWorks DEF Typed, Threads, Other, ShellPlaces
  <2>4. /\ overlap' => stack' \in Seq(Values) /\ Len(stack') <= 1
        /\ ~ overlap' => stack' = s
    BY <2>1, PutWorks
  <2>5. ~ overlap => s \in Seq(Values) /\ Len(s) = Len(stack)
    <3> SUFFICES ASSUME ~ overlap PROVE s \in Seq(Values) /\ Len(s) = Len(stack)
      OBVIOUS
    <3>1. stack \in Seq(Values) /\ Len(stack) >= 1
      BY <1>1 DEF Depth, Typed, Stacked
    <3>2. stack # <<>>
      BY <3>1, EmptySeq
    <3>3. Tail(stack) \in Seq(Values) /\ Len(Tail(stack)) = Len(stack) - 1
      BY <3>1, <3>2, HeadTailProperties
    <3>4. <<how, line'>> \in Values
      BY <1>5, <2>2, Constants DEF Values, Refusals
    <3>5. s \in Seq(Values) /\ Len(s) = Len(Tail(stack)) + 1
      BY <3>3, <3>4, AppendProperties
    <3>6. Len(stack) \in Nat
      BY <3>1
    <3> HIDE DEF s
    <3> QED
      BY <3>3, <3>5, <3>6
  <2>6. ~ overlap /\ ~ Lost => s = << <<how, line'>> >>
    <3>1. ~ overlap /\ ~ Lost => stack = << <<"text", 0>> >>
      BY <1>1, <1>3 DEF Work, Holds, InCallback, InLua
    <3>2. Tail(<< <<"text", 0>> >>) = <<>>
      OBVIOUS
    <3>3. Append(<<>>, <<how, line'>>) = << <<how, line'>> >>
      OBVIOUS
    <3> QED
      BY <3>1, <3>2, <3>3
  <2> HIDE DEF s
  <2>7. Typed'
    <3>1. Stacked'
      <4>1. ~ overlap' => s \in Seq(Values) /\ Len(s) <= 3
        BY <1>1, <1>3, <2>5 DEF Depth, Extra, InLua, Typed, Stacked
      <4> QED
        BY <2>1, <4>1, Stacks
    <3>2. Shown'
      BY <1>1, <2>1, <2>2, Constants DEF Typed, Shown
    <3> QED
      BY <1>1, <1>2, <2>3, <3>1, <3>2, Kept DEF Typed, call
  <2>8. Posted'
    BY <1>1, <2>3, PostedKept DEF call
  <2>9. Apart'
    BY <1>1, <1>2, <1>3, <2>3
    DEF Apart, Typed, Chained, Threads, InLua, Protected, InPcall
  <2>10. Depth'
    BY <1>1, <1>3, <2>3, <2>4, <2>5 DEF Depth, Extra, InCallback, InLua
  <2>11. Work'
    <3> SUFFICES ASSUME ~ Lost' PROVE Work'
      BY DEF Work
    <3>1. ~ Lost /\ ~ overlap
      BY <1>1, <2>3 DEF Lost, Threads
    <3>2. stack' = << <<how, line'>> >>
      BY <1>1, <2>4, <2>6, <3>1
    <3>3. ~ InCallback'
      BY <1>3, <2>3, <3>1 DEF InCallback, InLua
    <3>4. how \in {"chunk", "syntax"}
      BY <1>5
    <3> QED
      BY <2>1, <2>2, <2>3, <3>2, <3>3, <3>4 DEF Work, Holds
  <2> QED
    BY <2>7, <2>8, <2>9, <2>10, <2>11
<1> QED
  BY <1>4, <1>5

LEMMA SendStep ==
  ASSUME IInv, Send
  PROVE  IInv'
<1> USE DEF IInv
<1>1. /\ pc["shell"] = "send" /\ mail' = Append(mail, "docall")
      /\ UNCHANGED <<stack, jumps, base, signal, g_shell_result, status, line,
                     ran, answer, overlap>>
  BY DEF Send
<1>2. Places' /\ pc'["shell"] = "wait" /\ pc'["main"] = pc["main"]
  BY GotoWorks DEF Send, Typed, Threads, Other, ShellPlaces
<1>3. /\ mail' \in Seq(Messages) /\ Len(mail') = Len(mail) + 1
      /\ \A i : Mailed(i)' <=> Mailed(i) \/ i = Len(mail) + 1
  BY <1>1, MailAppended DEF Typed, Queued, Messages
<1>4. /\ \A i : ~ Mailed(i)
      /\ Len(mail) <= MaxMail /\ Len(mail) \in Nat
      /\ ~ signal /\ pc["main"] \notin Serving
  BY <1>1 DEF Posted, Typed, Queued
<1>5. Typed'
  <2>1. Queued'
    BY <1>3, <1>4, Constants DEF Queued
  <2> QED
    BY <1>1, <1>2, <2>1, Kept DEF Typed
<1>6. Posted'
  BY <1>1, <1>2, <1>3, <1>4 DEF Posted
<1>7. Apart'
  BY <1>1, <1>2 DEF Apart, Threads, InLua, Protected, InPcall, jumps
<1>8. Depth'
  BY <1>1, <1>2 DEF Depth, Extra, InCallback, Down
<1>9. Work'
  <2> SUFFICES ASSUME ~ Lost' PROVE Work'
    BY DEF Work
  <2>1. ~ Lost
    BY <1>1, <1>2 DEF Lost, Threads
  <2> QED
    BY <1>1, <1>2, <1>4, <2>1 DEF Work, Holds, InCallback
<1> QED
  BY <1>5, <1>6, <1>7, <1>8, <1>9

LEMMA WakeStep ==
  ASSUME IInv, Wake
  PROVE  IInv'
<1> USE DEF IInv
<1>1. /\ pc["shell"] = "wait" /\ signal = TRUE /\ signal' = FALSE
      /\ status' = g_shell_result
      /\ UNCHANGED <<stack, jumps, base, mail, g_shell_result, line, ran,
                     answer, overlap>>
  BY DEF Wake, Typed, Called
<1>2. Places' /\ pc'["shell"] = "report" /\ pc'["main"] = pc["main"]
  BY GotoWorks DEF Wake, Typed, Threads, Other, ShellPlaces
<1>3. (\A i : ~ Mailed(i)) /\ pc["main"] \notin Serving
  BY <1>1 DEF Posted
<1>4. Typed'
  <2>1. Called'
    BY <1>1 DEF Typed, Called
  <2>2. Shown'
    BY <1>1 DEF Typed, Called, Shown
  <2> QED
    BY <1>1, <1>2, <2>1, <2>2, Kept DEF Typed
<1>5. Posted'
  <2>1. \A i : ~ Mailed(i)'
    BY <1>1, <1>3, MailedKept
  <2> QED
    BY <1>1, <1>2, <1>3, <2>1 DEF Posted
<1>6. Apart'
  BY <1>1, <1>2 DEF Apart, Threads, InLua, Protected, InPcall, jumps
<1>7. Depth'
  BY <1>1, <1>2, <1>3 DEF Depth, Extra, InCallback, Down, Serving
<1>8. Work'
  <2> SUFFICES ASSUME ~ Lost' PROVE Work'
    BY DEF Work
  <2>1. ~ Lost
    BY <1>1, <1>2 DEF Lost, Threads
  <2>2. ran = line /\ Result(g_shell_result) /\ line # 0
    BY <1>1, <1>3, <2>1 DEF Work, Serving
  <2>3. Result(status)'
    BY <1>1, <1>2, <2>2 DEF Result, Holds, InCallback
  <2> QED
    BY <1>1, <1>2, <2>2, <2>3 DEF Work
<1> QED
  BY <1>4, <1>5, <1>6, <1>7, <1>8

LEMMA ReportStep ==
  ASSUME IInv, Report
  PROVE  IInv'
<1> USE DEF IInv
<1>1. /\ Noted' /\ (overlap => overlap')
      /\ ~ overlap' => ~ overlap /\ ~ InLua("main")
  BY UseWorks DEF Report, Typed, Threads, Other
<1>2. pc["shell"] = "report" /\ UNCHANGED <<call, status, line, ran>>
  BY DEF Report
<1>3. /\ Pop \in Seq(Values) /\ Top \in Values /\ stack \in Seq(Values)
      /\ Len(Pop) <= Len(stack)
  BY PopWorks DEF Typed, Stacked
<1>4. PICK s \in {stack, Pop} : Put(s)
  BY DEF Report
<1>5. /\ overlap' => stack' \in Seq(Values) /\ Len(stack') <= 1
      /\ ~ overlap' => stack' = s
  BY <1>4, PutWorks
<1>6. Stacked'
  <2>1. s \in Seq(Values) /\ Len(s) <= 3
    BY <1>3 DEF Typed, Stacked
  <2> QED
    BY <1>4, <2>1, Stacks
<1>7. Shown'
  <2>1. <<"nothing", line>> \in Values /\ <<"junk", 0>> \in Values
    BY Constants DEF Typed, Shown, Values, Outcomes
  <2>2. answer' \in Values
    BY <1>3, <2>1 DEF Report
  <2> QED
    BY <1>2, <2>2 DEF Typed, Shown
<1>8. \/ Goto("shell", "loop") /\ UNCHANGED jumps
      \/ Goto("shell", "print") /\ Enter("shell")
  BY DEF Report
<1>9. /\ Places' /\ pc'["main"] = pc["main"]
      /\ \/ pc'["shell"] = "loop" /\ UNCHANGED jumps
         \/ /\ pc'["shell"] = "print"
            /\ errorJmp' = "shell" /\ previous'["shell"] = errorJmp
            /\ previous'["main"] = previous["main"]
      /\ Chained'
  <2>1. CASE Goto("shell", "loop") /\ UNCHANGED jumps
    BY <2>1, GotoWorks, Kept DEF Typed, Threads, Other, ShellPlaces
  <2>2. CASE Goto("shell", "print") /\ Enter("shell")
    BY <2>2, GotoWorks, EnterWorks DEF Typed, Threads, Other, ShellPlaces
  <2> QED
    BY <1>8, <2>1, <2>2
<1>10. Typed'
  BY <1>1, <1>2, <1>6, <1>7, <1>9, Kept DEF Typed, call
<1>11. Posted'
  BY <1>2, <1>9, PostedKept DEF call
<1>12. Apart'
  BY <1>1, <1>2, <1>9
  DEF Apart, Typed, Chained, Threads, InLua, Protected, InPcall, jumps
<1>13. Depth'
  BY <1>1, <1>2, <1>3, <1>4, <1>5, <1>9
  DEF Depth, Extra, InCallback, InLua, Typed, Stacked
<1>14. Work'
  BY <1>9 DEF Work
<1> QED
  BY <1>10, <1>11, <1>12, <1>13, <1>14

LEMMA PrintedStep ==
  ASSUME IInv, Printed
  PROVE  IInv'
<1> USE DEF IInv
<1> DEFINE twice == << <<"error", line>>, <<"error", line>> >>
<1>1. /\ pc["shell"] = "print" /\ Leave("shell")
      /\ UNCHANGED <<call, status, line, ran, answer, overlap>>
      /\ Put(<<>>) \/ Put(twice)
  BY DEF Printed
<1>2. /\ Chained' /\ errorJmp' = previous["shell"] /\ previous' = previous
  BY <1>1, LeaveWorks DEF Typed, Threads
<1>3. Places' /\ pc'["shell"] = "loop" /\ pc'["main"] = pc["main"]
  BY GotoWorks DEF Printed, Typed, Threads, Other, ShellPlaces
<1>4. Stacked' /\ Len(stack') <= 2 /\ (overlap' => Len(stack') <= 1)
  <2>1. PICK s \in {<<>>, twice} : Put(s)
    BY <1>1
  <2>2. <<"error", line>> \in Values
    BY DEF Typed, Shown, Values, Outcomes
  <2>3. twice \in Seq(Values) /\ Len(twice) <= 2
    BY <2>2
  <2> HIDE DEF twice
  <2>4. s \in Seq(Values) /\ Len(s) <= 2
    <3>1. <<>> \in Seq(Values) /\ Len(<<>>) <= 2
      BY EmptySeq
    <3>2. CASE s = <<>>
      BY <3>1, <3>2, Zenon
    <3>3. CASE s = twice
      BY <2>3, <3>3, Zenon
    <3> QED
      BY <2>1, <3>2, <3>3
  <2>5. Len(s) <= 3
    BY <2>4
  <2>6. Stacked'
    BY <2>1, <2>4, <2>5, Stacks
  <2>7. CASE overlap'
    <3>1. Len(stack') <= 1
      BY <2>1, <2>7, PutWorks
    <3> QED
      BY <2>6, <3>1 DEF Stacked
  <2>8. CASE ~ overlap'
    BY <2>1, <2>4, <2>6, <2>8, PutWorks
  <2> QED
    BY <2>7, <2>8
<1>5. Typed'
  BY <1>1, <1>2, <1>3, <1>4, Kept DEF Typed, call
<1>6. Posted'
  BY <1>1, <1>3, PostedKept DEF call
<1>7. Apart'
  BY <1>1, <1>2, <1>3
  DEF Apart, Typed, Chained, Threads, InLua, Protected, InPcall
<1>8. Depth'
  <2>1. ~ overlap => ~ InCallback
    BY <1>1 DEF Apart, InLua, InCallback, Protected
  <2> QED
    BY <1>1, <1>3, <1>4, <2>1 DEF Depth, Extra, InCallback
<1>9. Work'
  BY <1>3 DEF Work
<1> QED
  BY <1>5, <1>6, <1>7, <1>8, <1>9

(* The main thread.                                                        *)

LEMMA DeviceEventStep ==
  ASSUME IInv, DeviceEvent
  PROVE  IInv'
<1> USE DEF IInv
<1>1. /\ Len(mail) < MaxMail /\ mail' = Append(mail, "event")
      /\ UNCHANGED <<pc, stack, jumps, base, signal, g_shell_result, status,
                     line, ran, answer, overlap>>
  BY DEF DeviceEvent
<1>2. /\ mail' \in Seq(Messages) /\ Len(mail') = Len(mail) + 1
      /\ \A i : Mailed(i)' <=> Mailed(i)
  BY <1>1, MailAppended DEF Typed, Queued, Messages
<1>3. Len(mail') <= MaxMail
  BY <1>1, <1>2, Constants DEF Typed, Queued
<1>4. Typed'
  <2>1. Queued'
    BY <1>2, <1>3, Constants DEF Queued
  <2>2. Places'
    BY <1>1 DEF Typed, Places
  <2> QED
    BY <1>1, <2>1, <2>2, Kept DEF Typed
<1>5. Posted'
  BY <1>1, <1>2, <1>3 DEF Posted
<1>6. Apart'
  BY <1>1 DEF Apart, Threads, InLua, jumps
<1>7. Depth'
  BY <1>1 DEF Depth, Extra, InCallback
<1>8. Work'
  BY <1>1 DEF Work, Lost, Result, Holds, InCallback
<1> QED
  BY <1>4, <1>5, <1>6, <1>7, <1>8

LEMMA ReceiveWorks ==
  ASSUME Queued, NEW m \in Messages, Receive(m)
  PROVE  /\ Queued' /\ Len(mail') = Len(mail) - 1 /\ Len(mail') <= MaxMail
         /\ \A i : Mailed(i)' <=> i \in Nat \ {0} /\ Mailed(i + 1)
         /\ m = "docall" <=> Mailed(1)
         /\ pc["main"] = "idle"
<1>1. mail # <<>> /\ mail' = Tail(mail) /\ Head(mail) = m /\ pc["main"] = "idle"
  BY DEF Receive
<1>2. /\ mail' \in Seq(Messages) /\ Len(mail') = Len(mail) - 1
      /\ \A i : Mailed(i)' <=> i \in Nat \ {0} /\ Mailed(i + 1)
      /\ Head(mail) = "docall" <=> Mailed(1)
  BY <1>1, MailTaken DEF Queued
<1>3. Len(mail) \in Nat /\ Len(mail) <= MaxMail + 1
  BY DEF Queued
<1>4. Len(mail') <= MaxMail /\ Len(mail') <= MaxMail + 1
  BY <1>2, <1>3, Constants
<1> QED
  BY <1>1, <1>2, <1>4 DEF Queued

LEMMA DocallStep ==
  ASSUME IInv, Docall
  PROVE  IInv'
<1> USE DEF IInv
<1> DEFINE s == Pop \o << <<"traceback", 0>>, Top>>
<1>1. /\ Receive("docall") /\ Use("main") /\ Put(s) /\ Enter("main")
      /\ base' = Len(stack) /\ ran' = IF Top[1] = "chunk" THEN Top[2] ELSE 0
      /\ UNCHANGED <<signal, g_shell_result, status, line, answer>>
  BY DEF Docall
<1>2. /\ Queued' /\ Len(mail') <= MaxMail
      /\ \A i : Mailed(i)' <=> i \in Nat \ {0} /\ Mailed(i + 1)
      /\ Mailed(1) /\ pc["main"] = "idle"
  BY <1>1, ReceiveWorks DEF Typed, Messages
<1>3. /\ pc["shell"] = "wait" /\ ~ signal
      /\ \A i : ~ Mailed(i)'
  <2>1. \A i : Mailed(i) => i = 1
    BY <1>2 DEF Posted
  <2>2. \A i \in Nat \ {0} : i + 1 # 1
    OBVIOUS
  <2> QED
    BY <1>2, <2>1, <2>2 DEF Posted
<1>4. Noted' /\ (~ overlap' => ~ overlap) /\ (overlap => overlap')
  BY <1>1, UseWorks DEF Typed, Threads
<1>5. Places' /\ pc'["main"] = "chunk" /\ pc'["shell"] = "wait"
  BY <1>3, GotoWorks DEF Docall, Typed, Threads, Other, MainPlaces
<1>6. Chained' /\ errorJmp' = "main" /\ previous'["main"] = errorJmp
        /\ previous'["shell"] = previous["shell"]
  BY <1>1, EnterWorks DEF Typed, Threads, Other
<1>7. Len(stack) \in Nat /\ Len(stack) <= 1
  BY <1>2, <1>3 DEF Depth, Extra, Down, Typed, Stacked
<1>8. Pop \in Seq(Values) /\ Len(Pop) = 0 /\ Top \in Values
  BY <1>7, PopWorks, EmptySeq DEF Typed, Stacked
<1>9. s \in Seq(Values) /\ Len(s) = 2
  <2>1. <<"traceback", 0>> \in Values
    BY Constants DEF Values
  <2> DEFINE two == << <<"traceback", 0>>, Top>>
  <2>2. two \in Seq(Values) /\ Len(two) = 2
    BY <1>8, <2>1
  <2> HIDE DEF two
  <2>3. Pop \o two \in Seq(Values) /\ Len(Pop \o two) = Len(Pop) + Len(two)
    BY <1>8, <2>2, ConcatProperties
  <2> QED
    BY <1>8, <2>2, <2>3 DEF two
<1>10. \* the chunk of the line
       ~ overlap' /\ ~ Lost =>
         /\ s = << <<"traceback", 0>>, <<"chunk", line>> >>
         /\ Top = <<"chunk", line>> /\ Len(stack) = 1
  <2> SUFFICES ASSUME ~ overlap', ~ Lost
               PROVE  /\ s = << <<"traceback", 0>>, <<"chunk", line>> >>
                      /\ Top = <<"chunk", line>> /\ Len(stack) = 1
    OBVIOUS
  <2>1. stack = << <<"chunk", line>> >>
    BY <1>2, <1>3 DEF Work, Holds, InCallback, Serving
  <2>2. Top = <<"chunk", line>> /\ Len(stack) = 1
    BY <2>1 DEF Top
  <2>3. Pop = <<>>
    BY <1>8, EmptySeq
  <2>4. <<>> \o << <<"traceback", 0>>, Top>> = << <<"traceback", 0>>, Top>>
    OBVIOUS
  <2> QED
    BY <2>2, <2>3, <2>4
<1> HIDE DEF s
<1>11. /\ overlap' => stack' \in Seq(Values) /\ Len(stack') <= 1
       /\ ~ overlap' => stack' = s
  BY <1>1, PutWorks
<1>12. Typed'
  <2>1. Stacked'
    <3>1. s \in Seq(Values) /\ Len(s) <= 3
      BY <1>9
    <3> QED
      BY <1>1, <3>1, Stacks
  <2>2. Called'
    <3>1. base' \in 0 .. 2
      BY <1>1, <1>7
    <3> QED
      BY <1>1, <3>1 DEF Typed, Called
  <2>3. Shown'
    <3>1. Top[2] \in 0 .. Lines
      BY <1>8 DEF Values
    <3>2. ran' \in 0 .. Lines
      BY <1>1, <3>1, Constants
    <3> QED
      BY <1>1, <3>2 DEF Typed, Shown
  <2> QED
    BY <1>2, <1>4, <1>5, <1>6, <2>1, <2>2, <2>3 DEF Typed
<1>13. Posted'
  <2>1. ~ signal'
    BY <1>1, <1>3
  <2> QED
    BY <1>2, <1>3, <1>5, <2>1 DEF Posted, Serving
<1>14. Apart'
  BY <1>2, <1>3, <1>4, <1>5, <1>6
  DEF Apart, Typed, Chained, Threads, InLua, Protected, InPcall
<1>15. Depth'
  <2>1. CASE overlap'
    BY <1>11, <2>1 DEF Depth
  <2>2. CASE ~ overlap'
    <3>1. Len(stack') = 2
      BY <1>9, <1>11, <2>2
    <3> QED
      BY <1>5, <2>2, <3>1 DEF Depth, Extra, InCallback
  <2> QED
    BY <2>1, <2>2
<1>16. Work'
  <2> SUFFICES ASSUME ~ Lost' PROVE Work'
    BY DEF Work
  <2>1. ~ Lost /\ ~ overlap'
    BY <1>2, <1>3, <1>4 DEF Lost, Threads
  <2>2. stack' = << <<"traceback", 0>>, <<"chunk", line>> >>
    BY <1>10, <1>11, <2>1
  <2>3. base' = 1 /\ line' = line
    BY <1>1, <1>10, <2>1
  <2>4. ran' = line
    BY <1>1, <1>10, <2>1
  <2>5. line # 0
    BY <1>3, <2>1 DEF Work
  <2> QED
    BY <1>5, <2>2, <2>3, <2>4, <2>5 DEF Work
<1> QED
  BY <1>12, <1>13, <1>14, <1>15, <1>16

LEMMA CallbackStep ==
  ASSUME IInv, Callback
  PROVE  IInv'
<1> USE DEF IInv
<1> DEFINE s == Append(stack, <<"callback", 0>>)
<1>1. /\ Receive("event") /\ Use("main") /\ Put(s)
      /\ UNCHANGED <<jumps, base, signal, g_shell_result, status, line, ran,
                     answer>>
  BY DEF Callback
<1>2. /\ Queued' /\ Len(mail') <= MaxMail
      /\ \A i : Mailed(i)' <=> i \in Nat \ {0} /\ Mailed(i + 1)
      /\ ~ Mailed(1) /\ pc["main"] = "idle"
  BY <1>1, ReceiveWorks DEF Typed, Messages
<1>3. /\ Noted' /\ (overlap => overlap')
      /\ ~ overlap' => ~ overlap /\ ~ InLua("shell")
  BY <1>1, UseWorks DEF Typed, Threads, Other
<1>4. Places' /\ pc'["main"] = "callback" /\ pc'["shell"] = pc["shell"]
  BY GotoWorks DEF Callback, Typed, Threads, Other, MainPlaces
<1>5. stack \in Seq(Values) /\ Len(stack) \in Nat
  BY DEF Typed, Stacked
<1>6. s \in Seq(Values) /\ Len(s) = Len(stack) + 1
  <2>1. <<"callback", 0>> \in Values
    BY Constants DEF Values
  <2> QED
    BY <1>5, <2>1, AppendProperties
<1> HIDE DEF s
<1>7. /\ overlap' => stack' \in Seq(Values) /\ Len(stack') <= 1
      /\ ~ overlap' => stack' = s
  BY <1>1, PutWorks
<1>8. ~ overlap' => Len(stack) <= 2
  BY <1>2, <1>3, <1>5 DEF Depth, Extra
<1>9. Typed'
  <2>1. Stacked'
    <3>1. ~ overlap' => s \in Seq(Values) /\ Len(s) <= 3
      BY <1>5, <1>6, <1>8
    <3> QED
      BY <1>1, <3>1, Stacks
  <2> QED
    BY <1>1, <1>2, <1>3, <1>4, <2>1, Kept DEF Typed
<1>10. Posted'
  <2>1. \A i, j \in Nat \ {0} : i + 1 = j + 1 => i = j
    OBVIOUS
  <2>2. \A i : Mailed(i)' => \A j : Mailed(j)' => i = j
    BY <1>2, <2>1 DEF Posted
  <2>3. (\E i : Mailed(i)) => \E i : Mailed(i)'
    <3> SUFFICES ASSUME NEW i, Mailed(i) PROVE \E j : Mailed(j)'
      OBVIOUS
    <3>1. i \in Nat /\ i > 1
      BY <1>2 DEF Mailed, Typed, Queued
    <3>2. i - 1 \in Nat \ {0} /\ (i - 1) + 1 = i
      BY <3>1
    <3>3. Mailed(i - 1)'
      BY <1>2, <3>2
    <3> QED
      BY <3>3
  <2>4. (\E i : Mailed(i)') => pc["shell"] = "wait" /\ ~ signal
    BY <1>2 DEF Posted
  <2>5. signal' = signal
    BY <1>1
  <2>6. pc["main"] \notin Serving \union Down /\ pc'["main"] \notin Serving
    BY <1>2, <1>4 DEF Serving, Down
  <2>7. signal' => pc'["shell"] = "wait"
    BY <1>4, <2>5 DEF Posted
  <2>8. pc'["shell"] = "wait" => signal' \/ \E i : Mailed(i)'
    BY <1>4, <2>3, <2>5, <2>6 DEF Posted
  <2> QED
    BY <1>2, <1>4, <2>2, <2>4, <2>5, <2>6, <2>7, <2>8 DEF Posted
<1>11. Apart'
  BY <1>1, <1>2, <1>3, <1>4
  DEF Apart, Threads, InLua, Protected, InPcall, jumps
<1>12. Depth'
  BY <1>2, <1>3, <1>4, <1>5, <1>6, <1>7 DEF Depth, Extra, InCallback
<1>13. Work'
  <2> SUFFICES ASSUME ~ Lost' PROVE Work'
    BY DEF Work
  <2>1. ~ Lost /\ ~ overlap'
    BY <1>2, <1>3, <1>4 DEF Lost, Threads
  <2>2. stack' = Append(stack, <<"callback", 0>>)
    BY <1>7, <2>1 DEF s
  <2>3. InCallback' /\ ~ InCallback
    BY <1>2, <1>4 DEF InCallback
  <2>4. pc'["main"] \notin Serving /\ pc["main"] \notin Serving
    BY <1>2, <1>4 DEF Serving
  <2> QED
    BY <1>1, <1>2, <1>4, <2>1, <2>2, <2>3, <2>4 DEF Work, Holds, Result, Serving
<1> QED
  BY <1>9, <1>10, <1>11, <1>12, <1>13

LEMMA ChunkEndsStep ==
  ASSUME IInv, NEW out \in Outcomes, ChunkEnds(out)
  PROVE  IInv'
<1> USE DEF IInv
<1> DEFINE results == IF out = "nothing" THEN <<>> ELSE << <<out, Top[2]>> >>
           s == Returned(Pop \o results)
           failed == out \in {"error", "nil"}
<1>1. /\ pc["main"] = "chunk" /\ Put(s) /\ Leave("main")
      /\ UNCHANGED <<base, mail, status, line, ran, answer, overlap>>
  BY DEF ChunkEnds
<1>2. /\ failed => Goto("main", "collect") /\ UNCHANGED <<signal, g_shell_result>>
      /\ ~ failed => /\ g_shell_result' = "ok" /\ signal' = TRUE
                     /\ Goto("main", "idle")
  BY DEF ChunkEnds
<1>3. Chained' /\ errorJmp' = previous["main"] /\ previous' = previous
  BY <1>1, LeaveWorks DEF Typed, Threads
<1>4. /\ Places' /\ pc'["main"] = IF failed THEN "collect" ELSE "idle"
      /\ pc'["shell"] = pc["shell"]
  BY <1>2, GotoWorks DEF Typed, Threads, Other, MainPlaces
<1>5. /\ pc["shell"] = "wait" /\ ~ signal
      /\ \A i : ~ Mailed(i)
      /\ Len(mail) <= MaxMail
  BY <1>1 DEF Posted, Serving
<1>6. ~ overlap => ~ Lost
  BY <1>1, <1>5 DEF Apart, Lost, Threads
<1>7. \* the result or the error alone
      ~ overlap =>
        /\ ran = line
        /\ s = IF out = "nothing" THEN <<>> ELSE << <<out, line>> >>
  <2> SUFFICES ASSUME ~ overlap
               PROVE  /\ ran = line
                      /\ s = IF out = "nothing" THEN <<>> ELSE << <<out, line>> >>
    OBVIOUS
  <2>1. /\ stack = << <<"traceback", 0>>, <<"chunk", line>> >>
        /\ base = 1 /\ ran = line
    BY <1>1, <1>5, <1>6 DEF Work, Serving
  <2>2. Pop = << <<"traceback", 0>> >> /\ Top = <<"chunk", line>>
    BY <2>1, Pairs DEF Pop, Top
  <2>3. CASE out = "nothing"
    <3>1. Pop \o results = << <<"traceback", 0>> >>
      BY <2>2, <2>3, Pairs
    <3> QED
      BY <2>1, <2>3, <3>1, Pairs DEF Returned, Removed
  <2>4. CASE out # "nothing"
    <3>1. Pop \o results = << <<"traceback", 0>>, <<out, line>> >>
      BY <2>2, <2>4, Pairs
    <3>2. s = Removed(<< <<"traceback", 0>>, <<out, line>> >>, 1)
      BY <2>1, <3>1 DEF Returned
    <3>3. Removed(<< <<"traceback", 0>>, <<out, line>> >>, 1) = << <<out, line>> >>
      BY Pairs DEF Removed
    <3> QED
      BY <2>1, <2>4, <3>2, <3>3
  <2> QED
    BY <2>3, <2>4
<1> HIDE DEF s
<1>8. ~ overlap => s \in Seq(Values) /\ Len(s) <= 1
  <2> SUFFICES ASSUME ~ overlap PROVE s \in Seq(Values) /\ Len(s) <= 1
    OBVIOUS
  <2>1. <<out, line>> \in Values
    BY DEF Typed, Shown, Values
  <2>2. /\ << <<out, line>> >> \in Seq(Values)
        /\ Len(<< <<out, line>> >>) = 1
    BY <2>1
  <2>3. <<>> \in Seq(Values) /\ Len(<<>>) <= 1
    BY EmptySeq
  <2>4. CASE s = <<>>
    BY <2>3, <2>4, Zenon
  <2>5. CASE s = << <<out, line>> >>
    BY <2>2, <2>5
  <2> QED
    BY <1>7, <2>4, <2>5
<1>9. /\ overlap => stack' \in Seq(Values) /\ Len(stack') <= 1
      /\ ~ overlap => stack' = s
  BY <1>1, PutWorks
<1>10. Len(stack') <= 1
  BY <1>8, <1>9
<1>11. Typed'
  <2>1. Stacked'
    <3>1. ~ overlap' => s \in Seq(Values) /\ Len(s) <= 3
      BY <1>1, <1>8
    <3> QED
      BY <1>1, <3>1, Stacks
  <2>2. Called'
    <3>1. CASE failed
      BY <1>1, <1>2, <3>1, Kept DEF Typed
    <3>2. CASE ~ failed
      <4>1. signal' \in BOOLEAN
        BY <1>2, <3>2
      <4> QED
        BY <1>1, <1>2, <3>2, <4>1 DEF Typed, Called
    <3> QED
      BY <3>1, <3>2
  <2> QED
    BY <1>1, <1>3, <1>4, <2>1, <2>2, Kept DEF Typed
<1>12. Posted'
  <2>1. \A i : ~ Mailed(i)'
    BY <1>1, <1>5, MailedKept
  <2>2. CASE failed
    BY <1>1, <1>2, <1>4, <1>5, <2>1, <2>2 DEF Posted, Serving
  <2>3. CASE ~ failed
    BY <1>1, <1>2, <1>4, <1>5, <2>1, <2>3 DEF Posted, Serving
  <2> QED
    BY <2>2, <2>3
<1>13. Apart'
  BY <1>1, <1>3, <1>4, <1>5
  DEF Apart, Typed, Chained, Threads, InLua, Protected, InPcall
<1>14. Depth'
  BY <1>4, <1>5, <1>10 DEF Depth, Extra, InCallback
<1>15. Work'
  <2> SUFFICES ASSUME ~ Lost' PROVE Work'
    BY DEF Work
  <2>1. ~ overlap /\ ~ Lost
    BY <1>1, <1>6 DEF Lost
  <2>2. line # 0
    BY <1>5, <2>1 DEF Work
  <2>3. CASE failed
    <3>1. stack' = << <<out, line>> >> /\ out \in {"error", "nil"}
      BY <1>7, <1>9, <2>1, <2>3
    <3> QED
      BY <1>1, <1>4, <1>5, <1>7, <2>1, <2>2, <2>3, <3>1 DEF Work
  <2>4. CASE ~ failed
    <3>1. stack' = <<>> \/ stack' = << <<"value", line>> >>
      BY <1>7, <1>9, <2>1, <2>4 DEF Outcomes
    <3>2. Result(g_shell_result)'
      BY <1>1, <1>2, <1>4, <2>4, <3>1 DEF Result, Holds, InCallback
    <3> QED
      BY <1>1, <1>2, <1>4, <1>5, <1>7, <2>1, <2>2, <2>4, <3>2
      DEF Work, Serving
  <2> QED
    BY <2>3, <2>4
<1> QED
  BY <1>11, <1>12, <1>13, <1>14, <1>15

LEMMA CollectedStep ==
  ASSUME IInv, Collected
  PROVE  IInv'
<1> USE DEF IInv
<1>1. /\ pc["main"] = "collect" /\ g_shell_result' = "fail" /\ signal' = TRUE
      /\ UNCHANGED <<stack, jumps, base, mail, status, line, ran, answer,
                     overlap>>
  BY DEF Collected
<1>2. Places' /\ pc'["main"] = "idle" /\ pc'["shell"] = pc["shell"]
  BY GotoWorks DEF Collected, Typed, Threads, Other, MainPlaces
<1>3. /\ pc["shell"] = "wait"
      /\ \A i : ~ Mailed(i)
      /\ Len(mail) <= MaxMail
  BY <1>1 DEF Posted, Serving
<1>4. Typed'
  <2>1. signal' \in BOOLEAN
    BY <1>1
  <2>2. Called'
    BY <1>1, <2>1 DEF Typed, Called
  <2> QED
    BY <1>1, <1>2, <2>2, Kept DEF Typed
<1>5. Posted'
  <2>1. \A i : ~ Mailed(i)'
    BY <1>1, <1>3, MailedKept
  <2> QED
    BY <1>1, <1>2, <1>3, <2>1 DEF Posted, Serving
<1>6. Apart'
  BY <1>1, <1>2 DEF Apart, Threads, InLua, Protected, InPcall, jumps
<1>7. Depth'
  BY <1>1, <1>2, <1>3 DEF Depth, Extra, InCallback, Down
<1>8. Work'
  <2> SUFFICES ASSUME ~ Lost' PROVE Work'
    BY DEF Work
  <2>1. ~ Lost
    BY <1>1, <1>2 DEF Lost, Threads
  <2>2. /\ ran = line /\ line # 0
        /\ \E out \in {"error", "nil"} : stack = << <<out, line>> >>
    BY <1>1, <1>3, <2>1 DEF Work, Serving
  <2>3. Result(g_shell_result)'
    BY <1>1, <1>2, <2>2 DEF Result, Holds, InCallback
  <2> QED
    BY <1>1, <1>2, <1>3, <2>2, <2>3 DEF Work, Serving
<1> QED
  BY <1>4, <1>5, <1>6, <1>7, <1>8

LEMMA CallbackEndsStep ==
  ASSUME IInv, CallbackEnds
  PROVE  IInv'
<1> USE DEF IInv
<1>1. /\ pc["main"] = "callback" /\ Put(Pop)
      /\ UNCHANGED <<jumps, call, status, line, ran, answer, overlap>>
  BY DEF CallbackEnds
<1>2. Places' /\ pc'["main"] = "idle" /\ pc'["shell"] = pc["shell"]
  BY GotoWorks DEF CallbackEnds, Typed, Threads, Other, MainPlaces
<1>3. stack \in Seq(Values) /\ Len(stack) \in Nat /\ Len(stack) <= 3
  BY DEF Typed, Stacked
<1>4. /\ Pop \in Seq(Values)
      /\ Len(Pop) = IF stack = <<>> THEN 0 ELSE Len(stack) - 1
  BY <1>3, PopWorks
<1>5. /\ overlap => stack' \in Seq(Values) /\ Len(stack') <= 1
      /\ ~ overlap => stack' = Pop
  BY <1>1, PutWorks
<1>6. ~ overlap => Len(stack) >= 1 /\ Len(Pop) = Len(stack) - 1
  BY <1>1, <1>3, <1>4, EmptySeq DEF Depth, InCallback
<1>7. Typed'
  <2>1. Stacked'
    <3>1. Len(Pop) <= 3
      BY <1>3, <1>4
    <3> QED
      BY <1>1, <1>4, <3>1, Stacks
  <2> QED
    BY <1>1, <1>2, <2>1, Kept DEF Typed, call
<1>8. Posted'
  BY <1>1, <1>2, PostedKept DEF call, Serving, Down
<1>9. Apart'
  BY <1>1, <1>2 DEF Apart, Threads, InLua, Protected, InPcall, jumps
<1>10. Depth'
  <2>1. CASE overlap
    BY <1>1, <1>5, <2>1 DEF Depth
  <2>2. CASE ~ overlap
    BY <1>1, <1>2, <1>3, <1>5, <1>6, <2>2 DEF Depth, Extra, InCallback
  <2> QED
    BY <2>1, <2>2
<1>11. Work'
  <2> SUFFICES ASSUME ~ Lost' PROVE Work'
    BY DEF Work
  <2>1. ~ Lost /\ ~ overlap
    BY <1>1, <1>2 DEF Lost, Threads
  <2>2. \A s \in Seq(Values) : Holds(s) => Holds(s)'
    <3> SUFFICES ASSUME NEW s \in Seq(Values), Holds(s) PROVE Holds(s)'
      OBVIOUS
    <3>1. stack = Append(s, <<"callback", 0>>)
      BY <1>1 DEF Holds, InCallback
    <3>2. <<"callback", 0>> \in Values
      BY Constants DEF Values
    <3>3. Pop = s
      BY <3>1, <3>2, PopOfAppend DEF Pop
    <3> QED
      BY <1>2, <1>5, <2>1, <3>3 DEF Holds, InCallback
  <2>3. /\ <<>> \in Seq(Values) /\ << <<"text", 0>> >> \in Seq(Values)
        /\ \A out \in {"chunk", "syntax", "value", "error", "nil"} :
             << <<out, line>> >> \in Seq(Values)
    BY Contents DEF Typed
  <2>4. Result(g_shell_result) => Result(g_shell_result)'
    BY <1>1, <2>2, <2>3 DEF Result, call
  <2>5. Result(status) => Result(status)'
    BY <1>1, <2>2, <2>3 DEF Result
  <2> QED
    BY <1>1, <1>2, <2>1, <2>2, <2>3, <2>4, <2>5 DEF Work, Serving, call
<1> QED
  BY <1>7, <1>8, <1>9, <1>10, <1>11

LEMMA EndlessStep ==
  ASSUME IInv, Endless
  PROVE  IInv'
<1> USE DEF IInv
<1>1. UNCHANGED <<stack, jumps, call, status, line, ran, answer, overlap>>
  BY DEF Endless
<1>2. /\ Places' /\ pc'["shell"] = pc["shell"]
      /\ \/ pc["main"] = "chunk" /\ pc'["main"] = "endless"
         \/ pc["main"] = "callback" /\ pc'["main"] = "hung"
  BY GotoWorks DEF Endless, Typed, Threads, Other, MainPlaces
<1>3. Typed'
  BY <1>1, <1>2, Kept DEF Typed, call
<1>4. Posted'
  BY <1>1, <1>2, PostedKept DEF call, Serving, Down
<1>5. Apart'
  BY <1>1, <1>2 DEF Apart, Threads, InLua, Protected, InPcall, jumps
<1>6. Depth'
  BY <1>1, <1>2 DEF Depth, Extra, InCallback
<1>7. Work'
  BY <1>1, <1>2 DEF Work, Lost, Threads, Result, Holds, InCallback, Serving, call
<1> QED
  BY <1>3, <1>4, <1>5, <1>6, <1>7

LEMMA UncaughtStep ==
  ASSUME IInv, NEW t \in Threads, Uncaught(t)
  PROVE  IInv'
<1> USE DEF IInv
<1>1. /\ InLua(t) /\ pc[t] \notin {"endless", "hung"} /\ ~ Caught(t)
      /\ Escape(t)
      /\ UNCHANGED overlap
  BY DEF Uncaught
<1>2. /\ UNCHANGED <<stack, jumps, call, status, line, ran, answer>>
      /\ Goto(t, IF errorJmp = "none" THEN "dead" ELSE "astray")
  BY <1>1 DEF Escape
<1>3. /\ Places' /\ pc'[Other(t)] = pc[Other(t)]
      /\ pc'[t] = IF errorJmp = "none" THEN "dead" ELSE "astray"
  BY <1>2, GotoWorks DEF Typed, Threads, ShellPlaces, MainPlaces
<1>4. pc'[t] \in Down
  BY <1>3 DEF Down
<1>5. Typed'
  BY <1>1, <1>2, <1>3, Kept DEF Typed, call
<1>6. Posted'
  <2>1. CASE t = "shell"
    BY <1>1, <1>2, <1>3, <1>4, <2>1, PostedKept
    DEF call, Other, InLua, Protected, Down
  <2>2. CASE t = "main"
    <3>1. pc'["shell"] = pc["shell"] /\ pc'["main"] \in Down
      BY <1>3, <1>4, <2>2 DEF Other
    <3>2. pc'["main"] \notin Serving
      BY <3>1 DEF Serving, Down
    <3>3. \A i : Mailed(i)' <=> Mailed(i)
      BY <1>2, MailedKept DEF call
    <3> QED
      BY <1>2, <3>1, <3>2, <3>3 DEF Posted, call
  <2> QED
    BY <2>1, <2>2 DEF Threads
<1>7. ~ overlap => /\ t = "main" /\ pc[t] \in {"collect", "callback"}
                   /\ pc'["main"] = "dead" /\ pc'["shell"] = pc["shell"]
  <2> SUFFICES ASSUME ~ overlap
               PROVE  /\ t = "main" /\ pc[t] \in {"collect", "callback"}
                      /\ pc'["main"] = "dead" /\ pc'["shell"] = pc["shell"]
    OBVIOUS
  <2>1. pc[t] \notin Protected
    BY <1>1 DEF Apart, Caught, InPcall
  <2>2. t = "main" /\ pc[t] \in {"collect", "callback"}
    BY <1>1, <2>1 DEF InLua, Typed, Places, Threads, ShellPlaces
  <2>3. errorJmp = "none"
    BY <1>1, <2>2 DEF Apart, Typed, Chained, Threads, InLua, Protected, InPcall
  <2> QED
    BY <1>3, <2>2, <2>3 DEF Other
<1>8. Apart'
  BY <1>1, <1>2, <1>7 DEF Apart, Threads, InLua, Protected, InPcall, jumps
<1>9. Depth'
  <2>1. CASE overlap
    <3>1. Len(stack) <= 1 \/ pc'["shell"] \in Down
      BY <1>3, <1>4, <2>1 DEF Depth, Threads, Other
    <3> QED
      BY <1>1, <1>2, <2>1, <3>1 DEF Depth
  <2>2. CASE ~ overlap
    <3>1. Len(stack) \in Nat
      BY DEF Typed, Stacked
    <3> QED
      BY <1>1, <1>2, <1>7, <2>2, <3>1 DEF Depth, Extra, InCallback
  <2> QED
    BY <2>1, <2>2
<1>10. Work'
  BY <1>4 DEF Work, Lost, Down
<1> QED
  BY <1>5, <1>6, <1>8, <1>9, <1>10

-----------------------------------------------------------------------------
LEMMA Step == IInv /\ [Next]_vars => IInv'
<1> SUFFICES ASSUME IInv, [Next]_vars PROVE IInv'
  OBVIOUS
<1>1. CASE UNCHANGED vars
  <2>1. UNCHANGED <<pc, stack, jumps, base, mail, signal, g_shell_result,
                    status, line, ran, answer, overlap>>
    BY <1>1 DEF vars, jumps
  <2>2. Typed'
    BY <2>1, Kept DEF IInv, Typed, Places
  <2>3. Posted'
    BY <2>1, PostedKept DEF IInv
  <2>4. Apart'
    BY <2>1 DEF IInv, Apart, InLua, jumps
  <2>5. Depth'
    BY <2>1 DEF IInv, Depth, Extra, InCallback
  <2>6. Work'
    BY <2>1 DEF IInv, Work, Lost, Result, Holds, InCallback
  <2> QED
    BY <2>2, <2>3, <2>4, <2>5, <2>6 DEF IInv
<1>2. CASE Next
  <2>1. CASE ShellWork
    BY <2>1, PromptStep, SendStep, WakeStep, ReportStep, PrintedStep, CompiledStep
    DEF ShellWork
  <2>2. CASE MainWork
    BY <2>2, RebootStep, DocallStep, CollectedStep, CallbackStep,
       CallbackEndsStep, ChunkEndsStep
    DEF MainWork, Quit
  <2>3. CASE Input \/ EndOfInput \/ ShellError
    BY <2>3, InputStep, EndOfInputStep, ShellErrorStep
  <2>4. CASE DeviceEvent \/ Endless
    BY <2>4, DeviceEventStep, EndlessStep
  <2>5. CASE \E t \in Threads : Uncaught(t)
    BY <2>5, UncaughtStep
  <2>6. CASE Reset
    BY <2>6, RebootStep DEF Reset
  <2> QED
    BY <1>2, <2>1, <2>2, <2>3, <2>4, <2>5, <2>6 DEF Next
<1> QED
  BY <1>1, <1>2

LEMMA Invariant == Spec => []IInv
  BY Initially, Step, PTL DEF Spec

(* Every variable keeps its type, and the stack its depth.                 *)
THEOREM TypeCorrect == Spec => []TypeOK
<1>1. IInv => TypeOK
  <2> SUFFICES ASSUME IInv PROVE TypeOK
    OBVIOUS
  <2>1. \A i \in 1 .. Len(stack) : stack[i] \in Values
    BY DEF IInv, Typed, Stacked
  <2>2. \A i \in 1 .. Len(mail) : mail[i] \in Messages
    BY DEF IInv, Typed, Queued
  <2> QED
    BY <2>1, <2>2 DEF IInv, Typed, Places, Stacked, Chained, Queued, Called,
                      Shown, Noted, Messages, TypeOK
<1> QED
  BY <1>1, Invariant, PTL

(* remote_docall: while the shell waits its call is in one place, and in   *)
(* none when it does not.                                                  *)
THEOREM NoCallIsLost == Spec => []Rendezvous
<1>1. IInv => Rendezvous
  <2> SUFFICES ASSUME IInv, ~ Lost PROVE Rendezvous
    BY DEF Rendezvous
  <2>1. \A i : i \in Pending <=> Mailed(i)
    BY DEF Pending, Mailed
  <2>2. pc["main"] \notin Down
    <3>1. "main" \in Threads
      BY DEF Threads
    <3> QED
      BY <3>1 DEF Lost, Down
  <2>3. CASE pc["shell"] = "wait"
    <3>1. CASE pc["main"] \in Serving
      BY <2>1, <2>3, <3>1 DEF IInv, Posted, Rendezvous, Serving
    <3>2. CASE pc["main"] \notin Serving
      <4>1. CASE signal
        BY <2>1, <2>3, <3>2, <4>1 DEF IInv, Posted, Rendezvous, Serving
      <4>2. CASE ~ signal
        <5>1. \E i : Mailed(i)
          BY <2>2, <2>3, <3>2, <4>2 DEF IInv, Posted
        <5>2. Pending # {} /\ \A i, j \in Pending : i = j
          BY <2>1, <5>1 DEF IInv, Posted
        <5> QED
          BY <2>3, <3>2, <4>2, <5>2 DEF Rendezvous, Serving
      <4> QED
        BY <4>1, <4>2
    <3> QED
      BY <3>1, <3>2
  <2>4. CASE pc["shell"] # "wait"
    BY <2>1, <2>4 DEF IInv, Posted, Rendezvous, Serving
  <2> QED
    BY <2>3, <2>4
<1> QED
  BY <1>1, Invariant, PTL

(* The stack below a callback is that of the shell.                        *)
THEOREM StackIsBalanced == Spec => []Balanced
<1>1. IInv => Balanced
  <2> SUFFICES ASSUME IInv, ~ Lost PROVE Balanced
    BY DEF Balanced
  <2> DEFINE own == IF pc["main"] \in {"callback", "hung"} THEN Pop ELSE stack
  <2>1. \A s \in Seq(Values) : Holds(s) => own = s
    <3> SUFFICES ASSUME NEW s \in Seq(Values), Holds(s) PROVE own = s
      OBVIOUS
    <3>1. <<"callback", 0>> \in Values
      BY Constants DEF Values
    <3>2. CASE InCallback
      <4>1. stack = Append(s, <<"callback", 0>>)
        BY <3>2 DEF Holds
      <4>2. Pop = s
        BY <3>1, <4>1, PopOfAppend DEF Pop
      <4> QED
        BY <3>2, <4>2 DEF InCallback
    <3>3. CASE ~ InCallback
      BY <3>3 DEF Holds, InCallback
    <3> QED
      BY <3>2, <3>3
  <2> HIDE DEF own
  <2>2. /\ <<>> \in Seq(Values) /\ << <<"text", 0>> >> \in Seq(Values)
        /\ \A out \in {"chunk", "syntax", "value", "error", "nil"} :
             << <<out, line>> >> \in Seq(Values)
    BY Contents DEF IInv, Typed
  <2>3. pc["shell"] = "report" =>
          \/ status = "ok" /\ own = <<>>
          \/ \E out \in Outcomes \union Refusals : own = << <<out, line>> >>
    BY <2>1, <2>2 DEF IInv, Work, Result, Outcomes, Refusals
  <2>4. /\ pc["shell"] = "read" => own = <<>>
        /\ pc["shell"] \in {"more", "compile"} => own = << <<"text", 0>> >>
        /\ pc["shell"] = "send" => own = << <<"chunk", line>> >>
    BY <2>1, <2>2 DEF IInv, Work
  <2> QED
    BY <2>3, <2>4 DEF Balanced, own
<1> QED
  BY <1>1, Invariant, PTL

(* luaD_throw: no error unwinds the C stack of the other thread.           *)
THEOREM ErrorsAreCaughtAtHome == Spec => []ErrorsStayHome
<1>1. IInv => ErrorsStayHome
  BY DEF IInv, Apart, ErrorsStayHome, InPcall
<1> QED
  BY <1>1, Invariant, PTL

-----------------------------------------------------------------------------
(* The shell implements RemoteCall.                                        *)

OnItsWay == pc["shell"] \in {"send", "wait", "report"}
Stage == IF OnItsWay THEN IF ran = line THEN "run" ELSE "asked" ELSE "none"

\* A step of which the user sees nothing.
LEMMA Unseen ==
  ASSUME ~ Lost, ~ Lost', UNCHANGED <<line, ran, answer>>,
         OnItsWay' <=> OnItsWay
  PROVE  UNCHANGED Abstract!vars
<1>1. Lost' = Lost
  BY DEF Lost
<1>2. UNCHANGED Stage
  BY DEF Stage
<1> QED
  BY <1>1, <1>2 DEF Abstract!vars, Stage, OnItsWay

LEMMA RebootRestarts == Reboot => Abstract!Restart
<1> SUFFICES ASSUME Reboot PROVE Abstract!Restart
  OBVIOUS
<1>1. /\ \A t \in Threads : pc'[t] \in {"idle", "loop"}
      /\ pc'["shell"] = "loop" /\ line' = 0 /\ answer' = Nothing
      /\ overlap' = FALSE
  BY DEF Reboot, Threads
<1>2. ~ Lost'
  BY <1>1 DEF Lost
<1>3. Lost' = FALSE
  BY <1>2 DEF Lost
<1> QED
  BY <1>1, <1>3 DEF Abstract!Restart, Abstract!Nothing, Nothing

LEMMA CompiledAsks ==
  ASSUME IInv, ~ Lost, ~ Lost',
         NEW how \in {"chunk", "partial", "syntax"}, Compiled(how)
  PROVE  Abstract!Ask \/ UNCHANGED Abstract!vars
<1>1. /\ pc["shell"] = "compile" /\ answer' = answer
      /\ "shell" \in DOMAIN pc
  BY DEF Compiled, IInv, Typed, Places, Threads
<1>2. CASE how = "partial"
  <2>1. pc'["shell"] = "more" /\ UNCHANGED <<line, ran>>
    BY <1>1, <1>2 DEF Compiled, Goto
  <2> QED
    BY <1>1, <2>1, Unseen DEF OnItsWay
<1>3. CASE how # "partial"
  <2>1. /\ pc'["shell"] \in {"send", "report"}
        /\ line' = (line % Lines) + 1 /\ ran' = 0
    BY <1>1, <1>3 DEF Compiled, Goto
  <2>2. line' # 0
    BY <2>1, Constants DEF IInv, Typed, Shown
  <2>3. Stage = "none" /\ Stage' = "asked"
    BY <1>1, <2>1, <2>2 DEF Stage, OnItsWay
  <2>4. Lost' = Lost
    BY DEF Lost
  <2> QED
    BY <1>1, <2>1, <2>3, <2>4 DEF Abstract!Ask, Stage, OnItsWay
<1> QED
  BY <1>2, <1>3

LEMMA DocallRuns ==
  ASSUME IInv, ~ Lost, ~ Lost', Docall
  PROVE  Abstract!Run
<1>1. /\ ran' = IF Top[1] = "chunk" THEN Top[2] ELSE 0
      /\ UNCHANGED <<line, answer>>
      /\ Goto("main", "chunk") /\ Receive("docall")
  BY DEF Docall
<1>2. Mailed(1) /\ pc["main"] = "idle"
  BY <1>1, ReceiveWorks DEF IInv, Typed, Messages
<1>3. pc["shell"] = "wait" /\ ~ signal
  BY <1>2 DEF IInv, Posted
<1>4. ran = 0 /\ line # 0 /\ stack = << <<"chunk", line>> >>
  BY <1>2, <1>3 DEF IInv, Work, Holds, InCallback, Serving
<1>5. Top = <<"chunk", line>>
  BY <1>4 DEF Top
<1>6. ran' = line
  BY <1>1, <1>5
<1>7. pc'["shell"] = "wait"
  BY <1>1, <1>3 DEF Goto, IInv, Typed, Places, Threads
<1>8. Stage = "asked" /\ Stage' = "run"
  BY <1>1, <1>3, <1>4, <1>6, <1>7 DEF Stage, OnItsWay
<1>9. Lost' = Lost
  BY DEF Lost
<1> QED
  BY <1>1, <1>8, <1>9 DEF Abstract!Run, Stage, OnItsWay

LEMMA ReportAnswers ==
  ASSUME IInv, ~ Lost, ~ Lost', Report
  PROVE  Abstract!Answer
<1>1. pc["shell"] = "report" /\ UNCHANGED <<status, line, ran>>
  BY DEF Report
<1>2. ~ InCallback
  <2>1. ~ overlap'
    BY DEF Lost
  <2> QED
    BY <2>1, UseWorks DEF Report, Threads, Other, InLua, InCallback,
                          IInv, Typed
<1>3. pc'["shell"] \in {"loop", "print"}
  BY DEF Report, Goto, IInv, Typed, Places, Threads
<1>4. /\ status = "fail" => answer' = Top
      /\ status # "fail" /\ stack = <<>> => answer' = <<"nothing", line>>
      /\ status # "fail" /\ stack # <<>> =>
           answer' = IF Len(stack) = 1 THEN Top ELSE <<"junk", 0>>
  BY DEF Report
<1>5. \A x : stack = <<x>> => Top = x /\ Len(stack) = 1 /\ stack # <<>>
  BY DEF Top
<1>6. \/ ran = line /\ \E out \in Outcomes : answer' = <<out, line>>
      \/ ran # line /\ answer' = <<"syntax", line>>
  <2>1. CASE ran = line /\ Result(status)
    <3>1. CASE status = "ok"
      <4>1. stack = <<>> \/ stack = << <<"value", line>> >>
        BY <1>2, <2>1, <3>1 DEF Result, Holds
      <4> QED
        BY <1>4, <1>5, <2>1, <3>1, <4>1 DEF Outcomes
    <3>2. CASE status = "fail"
      <4>1. PICK out \in {"error", "nil"} : stack = << <<out, line>> >>
        BY <1>2, <2>1, <3>2 DEF Result, Holds
      <4> QED
        BY <1>4, <1>5, <2>1, <3>2, <4>1 DEF Outcomes
    <3> QED
      BY <2>1, <3>1, <3>2 DEF Result
  <2>2. CASE ran = 0 /\ status = "fail" /\ Holds(<< <<"syntax", line>> >>)
    <3>1. stack = << <<"syntax", line>> >> /\ line # 0
      BY <1>1, <1>2, <2>2 DEF IInv, Work, Holds
    <3> QED
      BY <1>4, <1>5, <2>2, <3>1
  <2> QED
    BY <1>1, <2>1, <2>2 DEF IInv, Work
<1>7. Stage' = "none" /\ Stage = IF ran = line THEN "run" ELSE "asked"
  BY <1>1, <1>3 DEF Stage, OnItsWay
<1>8. Lost' = Lost
  BY DEF Lost
<1> QED
  BY <1>1, <1>6, <1>7, <1>8 DEF Abstract!Answer, Stage, OnItsWay, Refusals

(* Nothing but a reboot takes the threads apart again.                     *)
Lasts == (overlap => overlap')
           /\ \A t \in Threads : pc[t] \in Down => pc'[t] \in Down

LEMMA UseLasts ==
  ASSUME NEW t \in Threads, IInv, Use(t)
  PROVE  overlap => overlap'
BY UseWorks DEF IInv, Typed

LEMMA GotoLasts ==
  ASSUME NEW t \in Threads, NEW place, IInv, Goto(t, place), pc[t] \notin Down
  PROVE  \A u \in Threads : pc[u] \in Down => pc'[u] \in Down
BY DEF Goto, IInv, Typed, Places

LEMMA LossLasts ==
  ASSUME IInv, Next, ~ Reboot
  PROVE  Lasts
<1>1. "shell" \in Threads /\ "main" \in Threads
  BY DEF Threads
<1>2. CASE Prompt
  BY <1>1, <1>2, UseLasts, GotoLasts DEF Prompt, Lasts, Down
<1>3. CASE Input
  BY <1>1, <1>3, UseLasts, GotoLasts DEF Input, Lasts, Down
<1>4. CASE EndOfInput
  BY <1>1, <1>4, UseLasts, GotoLasts DEF EndOfInput, Lasts, Down
<1>5. CASE Report
  BY <1>1, <1>5, UseLasts, GotoLasts DEF Report, Lasts, Down
<1>6. CASE Docall
  BY <1>1, <1>6, UseLasts, GotoLasts DEF Docall, Receive, Lasts, Down
<1>7. CASE Callback
  BY <1>1, <1>7, UseLasts, GotoLasts DEF Callback, Receive, Lasts, Down
<1>8. CASE ShellError
  BY <1>1, <1>8, UseLasts, GotoLasts DEF ShellError, Escape, Lasts, Down
<1>9. CASE Send \/ Wake \/ Printed
  BY <1>1, <1>9, GotoLasts DEF Send, Wake, Printed, Lasts, Down
<1>10. ASSUME NEW how \in {"chunk", "partial", "syntax"}, Compiled(how)
       PROVE  Lasts
  BY <1>1, <1>10, GotoLasts DEF Compiled, Lasts, Down
<1>11. ASSUME NEW out \in Outcomes, ChunkEnds(out)
       PROVE  Lasts
  BY <1>1, <1>11, GotoLasts DEF ChunkEnds, Lasts, Down
<1>12. CASE Collected \/ CallbackEnds \/ Endless
  BY <1>1, <1>12, GotoLasts DEF Collected, CallbackEnds, Endless, Lasts, Down
<1>13. CASE DeviceEvent
  BY <1>13 DEF DeviceEvent, Lasts
<1>14. ASSUME NEW t \in Threads, Uncaught(t)
       PROVE  Lasts
  <2>1. pc[t] \notin Down
    BY <1>14 DEF Uncaught, InLua, Protected, Down
  <2> QED
    BY <1>14, <2>1, GotoLasts DEF Uncaught, Escape, Lasts
<1> QED
  BY <1>2, <1>3, <1>4, <1>5, <1>6, <1>7, <1>8, <1>9, <1>10, <1>11, <1>12,
     <1>13, <1>14
  DEF Next, ShellWork, MainWork, Quit, Reset

(* What the user does not see.                                             *)
LEMMA GotoUnseen ==
  ASSUME IInv, NEW t \in Threads, NEW place, Goto(t, place)
  PROVE  /\ t = "main" => pc'["shell"] = pc["shell"]
         /\ t = "shell" => pc'["shell"] = place
BY DEF Goto, IInv, Typed, Places, Threads

LEMMA MostIsUnseen ==
  ASSUME IInv,
         \/ Prompt \/ Input \/ EndOfInput \/ Send \/ Wake \/ Printed
         \/ Collected \/ Callback \/ CallbackEnds \/ Endless \/ DeviceEvent
         \/ \E out \in Outcomes : ChunkEnds(out)
  PROVE  UNCHANGED <<line, ran, answer>> /\ (OnItsWay' <=> OnItsWay)
<1>1. "shell" \in Threads /\ "main" \in Threads
  BY DEF Threads
<1>2. CASE Prompt \/ Input \/ EndOfInput
  BY <1>1, <1>2, GotoUnseen DEF Prompt, Input, EndOfInput, OnItsWay
<1>3. CASE Send \/ Wake \/ Printed
  BY <1>1, <1>3, GotoUnseen DEF Send, Wake, Printed, OnItsWay
<1>4. CASE Collected \/ Callback \/ CallbackEnds
  BY <1>1, <1>4, GotoUnseen DEF Collected, Callback, CallbackEnds, OnItsWay
<1>5. CASE Endless \/ DeviceEvent
  BY <1>1, <1>5, GotoUnseen DEF Endless, DeviceEvent, OnItsWay
<1>6. ASSUME NEW out \in Outcomes, ChunkEnds(out)
      PROVE  UNCHANGED <<line, ran, answer>> /\ (OnItsWay' <=> OnItsWay)
  BY <1>1, <1>6, GotoUnseen DEF ChunkEnds, OnItsWay
<1> QED
  BY <1>2, <1>3, <1>4, <1>5, <1>6

LEMMA StepRefines == IInv /\ [Next]_vars => [Abstract!Next]_(Abstract!vars)
<1> SUFFICES ASSUME IInv, [Next]_vars
             PROVE  Abstract!Next \/ UNCHANGED Abstract!vars
  OBVIOUS
<1>1. CASE Lost'
  <2>1. Lost' = TRUE
    BY <1>1 DEF Lost
  <2> QED
    BY <2>1 DEF Abstract!Next, Abstract!End
<1>2. CASE Reboot
  BY <1>2, RebootRestarts DEF Abstract!Next
<1>3. CASE ~ Lost' /\ UNCHANGED vars
  <2>1. ~ Lost /\ UNCHANGED <<line, ran, answer>> /\ (OnItsWay' <=> OnItsWay)
    BY <1>3 DEF vars, Lost, OnItsWay
  <2> QED
    BY <1>3, <2>1, Unseen
<1>4. CASE ~ Lost' /\ ~ Reboot /\ Next
  <2>1. ~ Lost
    <3>1. Lasts
      BY <1>4, LossLasts
    <3> QED
      BY <1>4, <3>1 DEF Lasts, Lost, Down
  <2>2. CASE \E how \in {"chunk", "partial", "syntax"} : Compiled(how)
    <3>1. Abstract!Ask \/ UNCHANGED Abstract!vars
      BY <1>4, <2>1, <2>2, CompiledAsks
    <3> QED
      BY <2>1, <3>1 DEF Abstract!Next
  <2>3. CASE Docall
    BY <1>4, <2>1, <2>3, DocallRuns DEF Abstract!Next
  <2>4. CASE Report
    BY <1>4, <2>1, <2>4, ReportAnswers DEF Abstract!Next
  <2>5. ~ ShellError /\ \A t \in Threads : ~ Uncaught(t)
    <3>1. pc \in [Threads -> ShellPlaces \union MainPlaces]
      BY DEF IInv, Typed, Places
    <3> QED
      BY <1>4, <3>1 DEF ShellError, Uncaught, Escape, Goto, Lost, Threads
  <2>6. CASE \/ Prompt \/ Input \/ EndOfInput \/ Send \/ Wake \/ Printed
             \/ Collected \/ Callback \/ CallbackEnds \/ Endless \/ DeviceEvent
             \/ \E out \in Outcomes : ChunkEnds(out)
    BY <1>4, <2>1, <2>6, MostIsUnseen, Unseen
  <2> QED
    BY <1>4, <2>2, <2>3, <2>4, <2>5, <2>6
    DEF Next, ShellWork, MainWork, Quit, Reset
<1> QED
  BY <1>1, <1>2, <1>3, <1>4

(* Until the threads meet in the interpreter, every line is executed once  *)
(* at most, and answered with its own outcome, before the next is read.    *)
THEOREM EachLineItsAnswer == Spec => IsRemoteCall
<1>1. Init => Abstract!Init
  <2> SUFFICES ASSUME Init PROVE Abstract!Init
    OBVIOUS
  <2>1. \A t \in Threads : pc[t] \in {"idle", "loop"} /\ pc["shell"] = "loop"
    BY DEF Init, Threads
  <2>2. Lost = FALSE
    BY <2>1 DEF Init, Lost, Threads
  <2> QED
    BY <2>1, <2>2 DEF Init, Abstract!Init, Abstract!Nothing, Nothing, Threads
<1> QED
  BY <1>1, Invariant, StepRefines, PTL DEF Spec, IsRemoteCall, Abstract!Spec

=============================================================================
