------------------------------- MODULE Ymodem -------------------------------
(***************************************************************************)
(* A file transfer between two boards over a serial line: Ymodem_Transmit  *)
(* (os.ysend) at one end, Ymodem_Receive (os.yrecv) at the other, both     *)
(* of common/ymodem.c, and a line that loses and garbles what it carries.  *)
(*                                                                         *)
(* A symbol on the line is a control byte or a whole packet.  A packet     *)
(* that was damaged inside is "bad": its check sum does not match.  One    *)
(* that lost its first byte falls apart into bytes, which the receiver     *)
(* reads as if they were control bytes (see Shift).                        *)
(***************************************************************************)
EXTENDS Naturals, Sequences

CONSTANTS
  Blocks,      \* 1K blocks of the file
  SeqMod,      \* 256: the packet carries the low byte of its number
  MaxErrors,   \* MAX_ERRORS: errors in a row the receiver accepts
  HelloTries,  \* time-outs in a row the sender accepts at the start (45)
  AckTries,    \* time-outs in a row it accepts later (10)
  MaxFaults,   \* bound on the faults of the line
  MaxResends   \* bound on the resends that are counted

ASSUME YmodemAssumption ==
  /\ Blocks \in Nat \ {0} /\ SeqMod \in Nat /\ SeqMod > Blocks
  /\ MaxErrors \in Nat /\ HelloTries \in Nat \ {0} /\ AckTries \in Nat \ {0}
  /\ MaxFaults \in Nat /\ MaxResends \in Nat

VARIABLES
  hasty,                  \* a second may pass before the other end has acted
                          \* (chosen once)
  toReceiver, toSender,   \* the two directions of the line
  faults,                 \* faults of the line so far
  expired,                \* ends whose second has passed in this silence
  \* the sender
  spc,                    \* what it waits for (see Wants)
  block,                  \* blkNumber
  tries,                  \* time-outs in a row
  resends,                \* packets sent again for the current block
  sresult,                \* what Ymodem_Transmit returned, or "running"
  \* the receiver
  rpc,                    \* "start", "packet", "second" (of CA CA), "done"
  received,               \* packets_received
  errors,
  size,                   \* of the file announced, in blocks, or 0
  file,                   \* the blocks written
  rresult                 \* what Ymodem_Receive returned, or "running"

line     == <<hasty, toReceiver, toSender, faults>>
sender   == <<spc, block, tries, resends, sresult>>
receiver == <<rpc, received, errors, size, file, rresult>>
vars     == <<line, expired, sender, receiver>>

Byte(b) == [what |-> b, no |-> 0]
Packet(kind, n) == [what |-> kind, no |-> n]

Control == {"ACK", "NAK", "C", "CA", "EOT", "A", "junk"}
Packets == {"name", "data", "last"}
Symbols == [what : Control \union Packets \union {"bad"}, no : 0 .. Blocks]

Cancel == <<Byte("CA"), Byte("CA")>>   \* send_CA

Init ==
  /\ hasty \in BOOLEAN
  /\ toReceiver = <<>> /\ toSender = <<>> /\ faults = 0 /\ expired = {}
  /\ spc = "start" /\ block = 0 /\ tries = 0 /\ resends = 0
  /\ sresult = "running"
  /\ rpc = "start" /\ received = 0 /\ errors = 0 /\ size = 0
  /\ file = <<>> /\ rresult = "running"

-----------------------------------------------------------------------------
(* The line.                                                               *)

ToReceiver(s) == toReceiver' = toReceiver \o s
ToSender(s)   == toSender' = toSender \o s

Heard == expired' = {}

\* The first symbol of a direction, replaced by what the fault leaves of it.
Damage(w) ==
  LET first == Head(w)
      Becomes(ss) == {s \o Tail(w) : s \in ss}
      lost  == {<<>>}
  IN  IF first.what \in Control
      THEN Becomes(lost \union {<<Byte(b)>> : b \in Control \ {first.what}})
      ELSE Becomes(lost \union {<<Packet("bad", 0)>>})

\* A packet without its first byte: its number is read as a control byte
\* (4 is EOT), and then all of it, more bytes than the errors allowed.
Shift(w) ==
  {<<Byte(b)>> \o [i \in 1 .. MaxErrors + 1 |-> Byte("junk")] \o Tail(w) :
     b \in {"EOT", "junk"}}

Fault ==
  /\ faults < MaxFaults
  /\ faults' = faults + 1
  /\ \/ /\ toReceiver # <<>>
        /\ toReceiver' \in Damage(toReceiver)
                \union (IF Head(toReceiver).what \in Packets
                        THEN Shift(toReceiver) ELSE {})
        /\ UNCHANGED toSender
     \/ /\ toSender # <<>>
        /\ toSender' \in Damage(toSender)
        /\ UNCHANGED toReceiver
  /\ UNCHANGED <<hasty, expired, sender, receiver>>

\* A second passes at one end with nothing to read.  Unless hasty, it passes
\* only while nothing is on its way to the other end either, and at both
\* ends alike, unless the other end is done.
Second(end, other, toOther, alive) ==
  \/ hasty /\ UNCHANGED expired
  \/ /\ ~hasty
     /\ alive => toOther = <<>> /\ end \notin expired
     /\ expired' = IF other \in expired \/ ~alive THEN {}
                                                  ELSE expired \union {end}

-----------------------------------------------------------------------------
(* Ymodem_Transmit.                                                        *)

\* What WaitACK waits for at each place.
Wants == [name |-> "ACK", nameC |-> "C", block |-> "ACK",
          eot |-> "ACK", eotC |-> "C", last |-> "ACK"]

\* The places where a NAK makes the sender send again.
Repeats == {"name", "block", "eot", "last"}

\* What is sent on the way to a place, and again for a NAK there.
Sends(place, n) ==
  CASE place = "name"  -> <<Packet("name", 0)>>
    [] place = "block" -> <<Packet("data", n)>>
    [] place = "eot"   -> <<Byte("EOT")>>
    [] place = "last"  -> <<Packet("last", 0)>>
    [] OTHER           -> <<>>

SenderExit(code) == spc' = "done" /\ sresult' = code

\* Line noise is flushed, then 'C' is sent until a byte comes back.
MutantSendUnflushed ==
  /\ spc = "start"
  /\ ToReceiver(<<Byte("C")>>)
  /\ spc' = "hello"
  /\ UNCHANGED <<hasty, toSender, faults, expired, block, tries, resends,
                 sresult, receiver>>

SendStart ==
  /\ spc = "start"
  /\ toSender' = <<>>
  /\ ToReceiver(<<Byte("C")>>)
  /\ spc' = "hello"
  /\ UNCHANGED <<hasty, faults, expired, block, tries, resends, sresult, receiver>>

HelloTimeout ==
  /\ spc = "hello" /\ toSender = <<>>
  /\ Second("sender", "receiver", toReceiver, rpc # "done")
  /\ IF tries < HelloTries
     THEN /\ tries' = tries + 1
          /\ ToReceiver(<<Byte("C")>>)
          /\ UNCHANGED <<spc, sresult>>
     ELSE /\ SenderExit("99")
          /\ ToReceiver(Cancel)
          /\ UNCHANGED tries
  /\ UNCHANGED <<hasty, toSender, faults, block, resends, receiver>>

HelloAnswer ==
  /\ spc = "hello" /\ toSender # <<>>
  /\ toSender' = Tail(toSender)
  /\ Heard
  /\ IF tries < HelloTries /\ Head(toSender) = Byte("C")
     THEN /\ spc' = "name" /\ tries' = 0
          /\ ToReceiver(Sends("name", 0))
          /\ UNCHANGED sresult
     ELSE /\ SenderExit("99")
          /\ ToReceiver(Cancel)
          /\ UNCHANGED tries
  /\ UNCHANGED <<hasty, faults, block, resends, receiver>>

\* A byte for WaitACK.
SenderReads(b) ==
  /\ spc \in DOMAIN Wants /\ toSender # <<>>
  /\ Head(toSender).what = b
  /\ toSender' = Tail(toSender)
  /\ Heard
  /\ tries' = 0

\* The byte it waits for: on to the next place.
SenderAdvance ==
  /\ \E b \in Control : SenderReads(b) /\ b = Wants[spc]
  /\ resends' = 0
  /\ block' = IF spc \in {"nameC", "block"} THEN block + 1 ELSE block
  /\ LET place == CASE spc = "name"  -> "nameC"
                    [] spc = "nameC" -> "block"
                    [] spc = "block" -> IF block < Blocks THEN "block"
                                                          ELSE "eot"
                    [] spc = "eot"   -> "eotC"
                    [] spc = "eotC"  -> "last"
                    [] spc = "last"  -> "done"
     IN  /\ spc' = place
         /\ sresult' = IF place = "done" THEN "0" ELSE sresult
         /\ ToReceiver(Sends(place, block'))
  /\ UNCHANGED <<hasty, faults, receiver>>

\* NAK: the same packet again, as often as it is asked for.
SenderResend ==
  /\ spc \in Repeats /\ SenderReads("NAK")
  /\ ToReceiver(Sends(spc, block))
  /\ resends' = IF resends < MaxResends THEN resends + 1 ELSE resends
  /\ UNCHANGED <<hasty, faults, spc, block, sresult, receiver>>

\* CA: WaitACK answers with CA CA; where it should have seen 'C', the caller
\* cancels once more.
SenderCancelled ==
  /\ SenderReads("CA")
  /\ IF spc \in Repeats
     THEN ToReceiver(Cancel) /\ SenderExit("98")
     ELSE ToReceiver(Cancel \o Cancel) /\ SenderExit("90")
  /\ UNCHANGED <<hasty, faults, block, resends, receiver>>

\* Anything else.
SenderGiveUp ==
  /\ \E b \in Control \ {"CA"} :
       /\ SenderReads(b)
       /\ b # Wants[spc]
       /\ b = "NAK" => spc \notin Repeats
  /\ ToReceiver(Cancel)
  /\ SenderExit("90")
  /\ UNCHANGED <<hasty, faults, block, resends, receiver>>

MutantUncountedTimeout ==
  /\ spc \in DOMAIN Wants /\ toSender = <<>>
  /\ Second("sender", "receiver", toReceiver, rpc # "done")
  /\ UNCHANGED <<hasty, toReceiver, toSender, faults, sender, receiver>>

SenderTimeout ==
  /\ spc \in DOMAIN Wants /\ toSender = <<>>
  /\ Second("sender", "receiver", toReceiver, rpc # "done")
  /\ tries' = tries + 1
  /\ IF tries' < AckTries
     THEN UNCHANGED <<toReceiver, spc, sresult>>
     ELSE ToReceiver(Cancel) /\ SenderExit("90")
  /\ UNCHANGED <<hasty, toSender, faults, block, resends, receiver>>

Sender ==
  \/ SendStart \/ HelloTimeout \/ HelloAnswer
  \/ SenderAdvance \/ SenderResend \/ SenderCancelled \/ SenderGiveUp
  \/ SenderTimeout

-----------------------------------------------------------------------------
(* Ymodem_Receive.                                                         *)

Receives == rpc \in {"packet", "second"}

ReceiverExit(result) == rpc' = "done" /\ rresult' = result

ReceiverReads(ss) ==
  /\ toReceiver # <<>>
  /\ Head(toReceiver).what \in ss
  /\ toReceiver' = Tail(toReceiver)
  /\ Heard

\* The end of a session for a reason of the receiver's own.
Refuse(result) ==
  /\ ToSender(Cancel)
  /\ ReceiverExit(result)
  /\ UNCHANGED <<received, errors, size, file>>

\* One more error: the answer asks for the packet again, or for none.
MutantComplain(answer) ==
  /\ errors' = errors + 1
  /\ IF errors > MaxErrors
     THEN ToSender(Cancel) /\ ReceiverExit("0")
     ELSE ToSender(<<Byte(answer)>>) /\ rpc' = "packet" /\ UNCHANGED rresult
  /\ UNCHANGED <<received, size, file>>

Complain(answer) ==
  /\ errors' = errors + 1
  /\ IF errors' > MaxErrors
     THEN ToSender(Cancel) /\ ReceiverExit("0")
     ELSE ToSender(<<Byte(answer)>>) /\ rpc' = "packet" /\ UNCHANGED rresult
  /\ UNCHANGED <<received, size, file>>

\* Line noise is flushed, then packets are received.
ReceiveStart ==
  /\ rpc = "start"
  /\ toReceiver' = <<>>
  /\ rpc' = "packet"
  /\ UNCHANGED <<hasty, toSender, faults, expired, sender, received, errors, size,
                 file, rresult>>

ReceiveTimeout ==
  /\ Receives /\ toReceiver = <<>>
  /\ Second("receiver", "sender", toSender, spc # "done")
  /\ Complain("C")
  /\ UNCHANGED <<hasty, toReceiver, faults, sender>>

\* A byte or a packet that is not one.
MutantBadAcknowledged ==
  /\ rpc = "packet"
  /\ ReceiverReads({"bad", "ACK", "NAK", "C", "junk"})
  /\ Complain("ACK")
  /\ UNCHANGED <<hasty, faults, sender>>

ReceiveBad ==
  /\ \/ rpc = "packet" /\ ReceiverReads({"bad", "ACK", "NAK", "C", "junk"})
     \/ rpc = "second" /\ ReceiverReads(Control \ {"CA"})
  /\ Complain("C")
  /\ UNCHANGED <<hasty, faults, sender>>

\* The first byte of a packet where the second CA was expected.
ReceiveSplit ==
  /\ rpc = "second" /\ toReceiver # <<>>
  /\ Head(toReceiver).what \in Packets \union {"bad"}
  /\ toReceiver' \in Shift(toReceiver)
  /\ Heard
  /\ Complain("C")
  /\ UNCHANGED <<hasty, faults, sender>>

ReceiveCA ==
  /\ rpc = "packet" /\ ReceiverReads({"CA"})
  /\ rpc' = "second"
  /\ UNCHANGED <<hasty, toSender, faults, sender, received, errors, size, file,
                 rresult>>

\* CA CA: the sender has cancelled.
ReceiveCancel ==
  /\ rpc = "second" /\ ReceiverReads({"CA"})
  /\ ToSender(<<Byte("ACK")>>)
  /\ ReceiverExit("0")
  /\ UNCHANGED <<hasty, faults, sender, received, errors, size, file>>

ReceiveAbort ==
  /\ rpc = "packet" /\ ReceiverReads({"A"})
  /\ Refuse("-3")
  /\ UNCHANGED <<hasty, faults, sender>>

\* End of the file, whatever has been received of it.
MutantEOTEndsSession ==
  /\ rpc = "packet" /\ ReceiverReads({"EOT"})
  /\ ToSender(<<Byte("ACK")>>)
  /\ ReceiverExit("size")
  /\ UNCHANGED <<hasty, faults, sender, received, errors, size, file>>

ReceiveEOT ==
  /\ rpc = "packet" /\ ReceiverReads({"EOT"})
  /\ ToSender(<<Byte("ACK")>>)
  /\ received' = 0
  /\ UNCHANGED <<hasty, faults, sender, rpc, errors, size, file, rresult>>

MutantExpected == TRUE

Expected == Head(toReceiver).no % SeqMod = received % SeqMod

\* A good packet with another number than the next.
ReceiveOther ==
  /\ rpc = "packet" /\ ReceiverReads(Packets) /\ ~Expected
  /\ Complain("NAK")
  /\ UNCHANGED <<hasty, faults, sender>>

\* The first packet of a file names it; the file is created empty.
ReceiveName ==
  /\ rpc = "packet" /\ ReceiverReads({"name"}) /\ Expected
  /\ received = 0
  /\ \/ /\ ToSender(<<Byte("ACK"), Byte("C")>>)
        /\ size' = Blocks /\ file' = <<>>
        /\ received' = 1 /\ errors' = 0
        /\ UNCHANGED <<rpc, rresult>>
     \/ \E code \in {"-4", "-2"} : Refuse(code)   \* too big, not opened
  /\ UNCHANGED <<hasty, faults, sender>>

\* The first packet is empty: no more files.
ReceiveLast ==
  /\ rpc = "packet" /\ ReceiverReads({"last"}) /\ Expected
  /\ received = 0
  /\ ToSender(<<Byte("ACK")>>)
  /\ ReceiverExit(IF size > 0 THEN "size" ELSE "0")
  /\ errors' = 0
  /\ UNCHANGED <<hasty, faults, sender, received, size, file>>

\* A data packet; beyond the size announced it is acknowledged only.
ReceiveData ==
  /\ rpc = "packet" /\ ReceiverReads(Packets) /\ Expected
  /\ received > 0
  /\ \/ /\ ToSender(<<Byte("ACK")>>)
        /\ file' = IF Len(file) < size
                   THEN Append(file, Head(toReceiver).no) ELSE file
        /\ received' = received + 1 /\ errors' = 0
        /\ UNCHANGED <<rpc, size, rresult>>
     \/ /\ Len(file) < size   \* write or flush failed
        /\ Refuse("1")
  /\ UNCHANGED <<hasty, faults, sender>>

Receiver ==
  \/ ReceiveStart \/ ReceiveTimeout \/ ReceiveBad \/ ReceiveSplit
  \/ ReceiveCA \/ ReceiveCancel \/ ReceiveAbort \/ ReceiveEOT \/ ReceiveOther
  \/ ReceiveName \/ ReceiveLast \/ ReceiveData

-----------------------------------------------------------------------------
Next == Sender \/ Receiver \/ Fault

\* Both ends have been started and run; the line is not obliged to fail.
Spec == Init /\ [][Next]_vars /\ WF_vars(Sender) /\ WF_vars(Receiver)

-----------------------------------------------------------------------------
SenderPlaces == {"start", "hello", "done"} \union DOMAIN Wants
SenderResults == {"running", "0", "90", "98", "99"}
ReceiverResults == {"running", "size", "1", "0", "-2", "-3", "-4"}

TypeOK ==
  /\ toReceiver \in Seq(Symbols) /\ toSender \in Seq(Symbols)
  /\ hasty \in BOOLEAN
  /\ faults \in 0 .. MaxFaults /\ expired \subseteq {"sender", "receiver"}
  /\ spc \in SenderPlaces /\ block \in 0 .. Blocks + 1
  /\ tries \in Nat /\ resends \in 0 .. MaxResends
  /\ rpc \in {"start", "packet", "second", "done"}
  /\ received \in Nat /\ errors \in 0 .. MaxErrors + 1
  /\ sresult \in SenderResults /\ rresult \in ReceiverResults
  /\ size \in {0, Blocks} /\ file \in Seq(0 .. Blocks)

Whole == [i \in 1 .. Blocks |-> i]

(***************************************************************************)
(* What is in the file is what was sent, from the start, in order and      *)
(* without a repetition, however many faults the line has.                 *)
(***************************************************************************)
InOrder == file = SubSeq(Whole, 1, Len(file))

(***************************************************************************)
(* One fault of the line cannot make Ymodem_Transmit return 0 ("sent       *)
(* successfully") before the other end has stored the whole file.          *)
(***************************************************************************)
SentIsStored == sresult = "0" /\ faults <= 1 => file = Whole

(***************************************************************************)
(* One fault of the line cannot make Ymodem_Receive return the size of a   *)
(* file that it has not received to its end.                               *)
(***************************************************************************)
ReceivedIsWhole == rresult = "size" /\ faults <= 1 => file = Whole

(***************************************************************************)
(* Neither end of a transfer reports a success that is none, if the line   *)
(* has one fault at most (Ymodem_Transmit, Ymodem_Receive).                *)
(***************************************************************************)
NoFalseSuccess == SentIsStored /\ ReceivedIsWhole

(***************************************************************************)
(* Neither end waits or resends for ever, although Ymodem_Transmit itself  *)
(* puts no bound on the NAKs it obeys: the receiver's errors do.           *)
(***************************************************************************)
Terminates == <>(spc = "done" /\ rpc = "done")

(***************************************************************************)
(* On a line without faults, to a disk with room, between ends that answer *)
(* within a second and were started within a second of each other, in      *)
(* either order, the file arrives and both ends say so.                    *)
(***************************************************************************)
CleanTransfer ==
  /\ ~hasty
  /\ [](faults = 0 /\ rresult \notin {"1", "-2", "-4"})
  => <>[](sresult = "0" /\ rresult = "size" /\ file = Whole)

(***************************************************************************)
(* "Resend packet if NAK for a count of 10 else end of communication"      *)
(* (Ymodem_Transmit).  It resends as often as the receiver's MAX_ERRORS    *)
(* allows.                                                                 *)
(***************************************************************************)
ResendBound == resends <= 10

(***************************************************************************)
(* "@retval The size of the file." (Ymodem_Receive), which file_recv       *)
(* reports as "Received successfully" when it is above 0: then the file    *)
(* has been received.  It has not when the disk was full.                  *)
(***************************************************************************)
SuccessIsReported == rresult \in {"size", "1"} => file = Whole
=============================================================================
