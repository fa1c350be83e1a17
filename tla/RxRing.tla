------------------------------- MODULE RxRing -------------------------------
(***************************************************************************)
(* The receive side of the console: retarget.c and the read event of bt.c. *)
(*                                                                         *)
(* The callbacks of the serial devices (and of Bluetooth SPP) push the     *)
(* bytes they read into a ring of N bytes under retarget_rx_mutex; the     *)
(* shell thread takes them one by one in retarget_getc, and waits for the  *)
(* signal, at most a second, when the ring is empty.  The signal is a      *)
(* latch: a wait consumes a post that came before it.                      *)
(*                                                                         *)
(* head and tail are free running unsigned counters: they wrap at Wrap     *)
(* (2^32) and are reduced modulo N (256) only to index the buffer.         *)
(***************************************************************************)
EXTENDS Naturals, Sequences

CONSTANTS
  N,         \* SERIAL_BUFFER_SIZE
  Wrap,      \* number of values of an unsigned int
  Devices,   \* the sources of console input: USB, UART 1, Bluetooth
  Chars,     \* the characters
  NoChar,    \* what the consumer holds before the first one
  MaxBatch,  \* the largest read of each device
  MaxIdle    \* bound on the seconds without input that are counted

ASSUME RingAssumption ==
  /\ N \in Nat \ {0} /\ Wrap \in Nat
  /\ Wrap > N + 1 /\ Wrap % N = 0
  /\ Devices \intersect {"free", "getc", "none"} = {}
  /\ NoChar \notin Chars
  /\ MaxBatch \in [Devices -> Nat \ {0}] /\ MaxIdle \in Nat

VARIABLES
  retarget_target,   \* the device that is the console, or "none"
  buffer,            \* retarget_rx_buffer
  head,              \* retarget_rx_buffer_head
  tail,              \* retarget_rx_buffer_tail
  signal,            \* retarget_rx_signal_id has a post nobody waited for
  mutex,             \* the holder of retarget_rx_mutex, or "free"
  data,              \* the bytes each callback has read and not yet pushed
  rxpc,              \* where each callback is: "idle", "lock", "test", "push"
  getcpc,            \* where retarget_getc is (see GetcPlaces)
  ch,                \* the last character it returned
  no_activity_time,  \* seconds without a character, as the code counts them
  seconds            \* history: waits that really lasted a second since then

ring == <<buffer, head, tail>>
rx   == <<data, rxpc>>
vars == <<retarget_target, buffer, head, tail, signal, mutex, data, rxpc,
          getcpc, ch, no_activity_time, seconds>>

(***************************************************************************)
(* idle     outside retarget_getc (the line editor, or the interpreter)    *)
(* lock     about to take the mutex for the first test                     *)
(* wait     in vm_signal_timed_wait, the mutex released                    *)
(* relock   awake, about to take the mutex again                           *)
(* take     holds the mutex, the ring not empty                            *)
(* clear    has released it, about to clear no_activity_time               *)
(***************************************************************************)
GetcPlaces == {"idle", "lock", "wait", "relock", "take", "clear"}

Targets == Devices \union {"none"}

Init ==
  /\ retarget_target \in Targets
  /\ buffer = [i \in 0 .. N-1 |-> NoChar]
  /\ head = 0 /\ tail = 0
  /\ signal = FALSE /\ mutex = "free"
  /\ data = [d \in Devices |-> <<>>]
  /\ rxpc = [d \in Devices |-> "idle"]
  /\ getcpc = "idle" /\ ch = NoChar
  /\ no_activity_time = 0 /\ seconds = 0

Empty == head = tail

\* Unsigned subtraction.
MutantDistance(x, y) == x + Wrap - y

Distance(x, y) == (x + Wrap - y) % Wrap

-----------------------------------------------------------------------------
(* The callbacks: __retarget_irq_handler, app_btspp_cb(READY_TO_READ).     *)

Batches(d) == UNION {[1 .. n -> Chars] : n \in 1 .. MaxBatch[d]}

RxGoto(d, place) == rxpc' = [rxpc EXCEPT ![d] = place]

\* A read that returned bytes.  What another device sends is dropped here;
\* the target is compared before the mutex is taken.
RxRead(d, batch) ==
  /\ rxpc[d] = "idle"
  /\ retarget_target = d
  /\ data' = [data EXCEPT ![d] = batch]
  /\ RxGoto(d, "lock")
  /\ UNCHANGED <<retarget_target, ring, signal, mutex, getcpc, ch,
                 no_activity_time, seconds>>

RxLock(d) ==
  /\ rxpc[d] = "lock" /\ mutex = "free"
  /\ mutex' = d
  /\ RxGoto(d, "test")
  /\ UNCHANGED <<retarget_target, ring, signal, data, getcpc, ch,
                 no_activity_time, seconds>>

\* The signal is posted before the first byte is in the ring.
MutantRxSignalFilled(d) ==
  /\ rxpc[d] = "test"
  /\ signal' = (signal \/ ~Empty)
  /\ RxGoto(d, "push")
  /\ UNCHANGED <<retarget_target, ring, mutex, data, getcpc, ch,
                 no_activity_time, seconds>>

RxSignal(d) ==
  /\ rxpc[d] = "test"
  /\ signal' = (signal \/ Empty)
  /\ RxGoto(d, "push")
  /\ UNCHANGED <<retarget_target, ring, mutex, data, getcpc, ch,
                 no_activity_time, seconds>>

\* The tail, once the head is at h: at most N behind it.
MutantTrimmed(h) == tail

Trimmed(h) == IF Distance(h, tail) > N THEN Distance(h, N) ELSE tail

\* One turn of the loop; a full ring loses its oldest byte.
RxPush(d) ==
  /\ rxpc[d] = "push" /\ data[d] # <<>>
  /\ buffer' = [buffer EXCEPT ![head % N] = Head(data[d])]
  /\ head' = (head + 1) % Wrap
  /\ tail' = Trimmed((head + 1) % Wrap)
  /\ data' = [data EXCEPT ![d] = Tail(@)]
  /\ UNCHANGED <<retarget_target, signal, mutex, rxpc, getcpc, ch,
                 no_activity_time, seconds>>

MutantRxKeepsMutex(d) ==
  /\ rxpc[d] = "push" /\ data[d] = <<>>
  /\ RxGoto(d, "idle")
  /\ UNCHANGED <<retarget_target, ring, signal, mutex, data, getcpc, ch,
                 no_activity_time, seconds>>

RxUnlock(d) ==
  /\ rxpc[d] = "push" /\ data[d] = <<>>
  /\ mutex' = "free"
  /\ RxGoto(d, "idle")
  /\ UNCHANGED <<retarget_target, ring, signal, data, getcpc, ch,
                 no_activity_time, seconds>>

\* os.retarget, and the end of a Bluetooth connection.
Retarget(t) ==
  /\ retarget_target' = t
  /\ UNCHANGED <<ring, signal, mutex, rx, getcpc, ch, no_activity_time,
                 seconds>>

-----------------------------------------------------------------------------
(* retarget_getc, on the shell thread.                                     *)

GetcCall ==
  /\ getcpc = "idle"
  /\ getcpc' = "lock"
  /\ UNCHANGED <<retarget_target, ring, signal, mutex, rx, ch,
                 no_activity_time, seconds>>

\* Lock, test the condition of the loop, and unlock to wait.
GetcEmpty ==
  /\ getcpc = "lock" /\ mutex = "free" /\ Empty
  /\ getcpc' = "wait"
  /\ UNCHANGED <<retarget_target, ring, signal, mutex, rx, ch,
                 no_activity_time, seconds>>

\* Lock and leave the loop, at its head or by its break.
GetcFound ==
  /\ getcpc \in {"lock", "relock"} /\ mutex = "free" /\ ~Empty
  /\ mutex' = "getc"
  /\ getcpc' = "take"
  /\ UNCHANGED <<retarget_target, ring, signal, rx, ch, no_activity_time,
                 seconds>>

\* vm_signal_timed_wait returns and clears the signal.
GetcSignalled ==
  /\ getcpc = "wait" /\ signal
  /\ signal' = FALSE
  /\ getcpc' = "relock"
  /\ UNCHANGED <<retarget_target, ring, mutex, rx, ch, no_activity_time,
                 seconds>>

GetcTimeout ==
  /\ getcpc = "wait" /\ ~signal /\ seconds < MaxIdle
  /\ seconds' = seconds + 1
  /\ getcpc' = "relock"
  /\ UNCHANGED <<retarget_target, ring, signal, mutex, rx, ch,
                 no_activity_time>>

\* Awake and still nothing: a second is counted, and the loop starts again
\* with the mutex held, so that its condition holds and it waits again.
GetcCount ==
  /\ getcpc = "relock" /\ mutex = "free" /\ Empty
  /\ no_activity_time' = no_activity_time + 1
  /\ getcpc' = "wait"
  /\ UNCHANGED <<retarget_target, ring, signal, mutex, rx, ch, seconds>>

GetcTake ==
  /\ getcpc = "take"
  /\ ch' = buffer[tail % N]
  /\ tail' = (tail + 1) % Wrap
  /\ mutex' = "free"
  /\ getcpc' = "clear"
  /\ UNCHANGED <<retarget_target, buffer, head, signal, rx,
                 no_activity_time, seconds>>

MutantGetcReturn ==
  /\ getcpc = "clear"
  /\ seconds' = 0
  /\ getcpc' = "idle"
  /\ UNCHANGED <<retarget_target, ring, signal, mutex, rx, ch,
                 no_activity_time>>

GetcReturn ==
  /\ getcpc = "clear"
  /\ no_activity_time' = 0 /\ seconds' = 0
  /\ getcpc' = "idle"
  /\ UNCHANGED <<retarget_target, ring, signal, mutex, rx, ch>>

-----------------------------------------------------------------------------
RxStep(d) == RxLock(d) \/ RxSignal(d) \/ RxPush(d) \/ RxUnlock(d)

GetcStep == GetcEmpty \/ GetcFound \/ GetcSignalled \/ GetcTimeout
              \/ GetcCount \/ GetcTake \/ GetcReturn

Next ==
  \/ \E d \in Devices : RxStep(d) \/ \E batch \in Batches(d) : RxRead(d, batch)
  \/ \E t \in Targets : Retarget(t)
  \/ GetcCall
  \/ GetcStep

(***************************************************************************)
(* Both threads run when they can, and the mutex is not kept for ever from *)
(* the shell thread, the one of higher priority.  Nothing obliges a device *)
(* to send.                                                                *)
(***************************************************************************)
Fairness ==
  /\ \A d \in Devices : WF_vars(RxStep(d))
  /\ SF_vars(GetcFound) /\ WF_vars(GetcStep)

Spec == Init /\ [][Next]_vars /\ Fairness

-----------------------------------------------------------------------------
TypeOK ==
  /\ retarget_target \in Targets
  /\ buffer \in [0 .. N-1 -> Chars \union {NoChar}]
  /\ head \in 0 .. Wrap-1 /\ tail \in 0 .. Wrap-1
  /\ signal \in BOOLEAN
  /\ mutex \in Devices \union {"free", "getc"}
  /\ data \in [Devices -> Seq(Chars)]
  /\ rxpc \in [Devices -> {"idle", "lock", "test", "push"}]
  /\ getcpc \in GetcPlaces
  /\ ch \in Chars \union {NoChar}
  /\ no_activity_time \in Nat /\ seconds \in Nat

(***************************************************************************)
(* No lost wake-up: the consumer never sleeps on a ring with bytes in it   *)
(* unless the post that will wake it is pending.  The callbacks post only  *)
(* for an EMPTY ring, and before they fill it.                             *)
(***************************************************************************)
NoLostWakeup == getcpc = "wait" /\ ~Empty => signal

(***************************************************************************)
(* The clock of the automatic shutdown is right to a second: a post left   *)
(* over from bytes that were taken without waiting makes one wait return   *)
(* at once, and is counted as a second, but at most once per character.    *)
(***************************************************************************)
IdleClock == no_activity_time <= seconds + 1

(***************************************************************************)
(* The ring is a DropOldest queue, over every wrap of the two counters.    *)
(***************************************************************************)
queue == [i \in 1 .. Distance(head, tail) |-> buffer[(tail + i - 1) % N]]

Abstract == INSTANCE DropOldest WITH queue <- queue, ch <- ch

IsDropOldest == Abstract!Spec

(***************************************************************************)
(* A byte in the ring is read, or pushed out by a newer one, as long as    *)
(* somebody calls retarget_getc.  The seconds are bounded here, so that a  *)
(* wait may also never time out: the post alone must end it.               *)
(***************************************************************************)
InputIsRead == getcpc \in {"lock", "wait"} /\ ~Empty ~> getcpc = "take"
=============================================================================
