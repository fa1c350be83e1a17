---------------------------- MODULE YmodemProofs ----------------------------
(***************************************************************************)
(* Proofs about Ymodem, for files of any length and any number of faults:  *)
(* what the receiver writes is always a prefix of the file; of one fault   *)
(* at most, neither end reports a success that is none; and without a      *)
(* fault neither end gives up.                                             *)
(***************************************************************************)
EXTENDS Ymodem, Integers, SequenceTheorems, FiniteSetTheorems, TLAPS

LEMMA Constants ==
  /\ Blocks \in Nat /\ Blocks > 0
  /\ SeqMod \in Nat /\ SeqMod > Blocks
  /\ MaxErrors \in Nat /\ MaxFaults \in Nat /\ MaxResends \in Nat
BY YmodemAssumption

LEMMA ModIsIdentity ==
  ASSUME NEW m \in Nat, NEW n \in 0 .. m - 1
  PROVE  n % m = n
OBVIOUS

-----------------------------------------------------------------------------
(* What the operators of the line build are sequences of symbols.          *)

Words == Seq(Symbols)

LEMMA Bytes ==
  /\ \A b \in Control : <<Byte(b)>> \in Words
  /\ Cancel \in Words /\ <<>> \in Words
<1>1. \A b \in Control : Byte(b) \in Symbols
  BY Constants DEF Byte, Symbols
<1>2. \A b \in Control : <<Byte(b)>> \in Words
  BY <1>1 DEF Words
<1>3. Byte("CA") \in Symbols
  BY <1>1 DEF Control
<1> QED
  BY <1>2, <1>3 DEF Cancel, Words

LEMMA AllPackets ==
  /\ \A n \in 0 .. Blocks : \A k \in Packets \union {"bad"} :
       <<Packet(k, n)>> \in Words
<1>1. \A n \in 0 .. Blocks : \A k \in Packets \union {"bad"} :
        Packet(k, n) \in Symbols
  BY DEF Packet, Symbols
<1> QED
  BY <1>1 DEF Words

LEMMA Concat ==
  ASSUME NEW v \in Words, NEW w \in Words
  PROVE  v \o w \in Words
BY ConcatProperties DEF Words

LEMMA Taken ==
  ASSUME NEW w \in Words, w # <<>>
  PROVE  Head(w) \in Symbols /\ Tail(w) \in Words
BY HeadTailProperties DEF Words

LEMMA Damaged ==
  ASSUME NEW w \in Words, w # <<>>, NEW v \in Damage(w)
  PROVE  v \in Words
<1> DEFINE Becomes(ss) == {s \o Tail(w) : s \in ss}
<1>1. \A ss : ss \subseteq Words => Becomes(ss) \subseteq Words
  BY Taken, Concat
<1>2. {<<>>} \union {<<Byte(b)>> : b \in Control \ {Head(w).what}}
        \subseteq Words
  BY Bytes
<1>3. {<<>>} \union {<<Packet("bad", 0)>>} \subseteq Words
  BY Bytes, AllPackets, Constants
<1>4. \/ v \in Becomes({<<>>} \union
                         {<<Byte(b)>> : b \in Control \ {Head(w).what}})
      \/ v \in Becomes({<<>>} \union {<<Packet("bad", 0)>>})
  BY DEF Damage
<1> HIDE DEF Becomes
<1> QED
  BY <1>1, <1>2, <1>3, <1>4

LEMMA Shifted ==
  ASSUME NEW w \in Words, w # <<>>, NEW v \in Shift(w)
  PROVE  v \in Words
<1> DEFINE junk == [i \in 1 .. MaxErrors + 1 |-> Byte("junk")]
<1>1. junk \in Words
  <2>1. Byte("junk") \in Symbols
    BY Constants DEF Byte, Symbols, Control
  <2>2. MaxErrors + 1 \in Nat
    BY Constants
  <2> QED
    BY <2>1, <2>2 DEF Words
<1>2. PICK b \in {"EOT", "junk"} : v = <<Byte(b)>> \o junk \o Tail(w)
  BY DEF Shift
<1>3. <<Byte(b)>> \in Words
  BY Bytes DEF Control
<1> HIDE DEF junk
<1>4. <<Byte(b)>> \o junk \in Words
  BY <1>1, <1>3, Concat
<1> QED
  BY <1>2, <1>4, Taken, Concat

LEMMA Sent ==
  ASSUME NEW place, NEW n \in Nat, place = "block" => n <= Blocks
  PROVE  Sends(place, n) \in Words
<1>1. CASE place = "name"
  <2>1. <<Packet("name", 0)>> \in Words
    <3>1. 0 \in 0 .. Blocks
      BY Constants
    <3>2. "name" \in Packets \union {"bad"}
      BY DEF Packets
    <3> QED
      BY <3>1, <3>2, AllPackets
  <2> QED
    BY <1>1, <2>1 DEF Sends
<1>2. CASE place = "block"
  <2>1. n \in 0 .. Blocks
    BY <1>2, Constants
  <2> QED
    BY <1>2, <2>1, AllPackets DEF Sends, Packets
<1>3. CASE place = "eot"
  BY <1>3, Bytes DEF Sends, Control
<1>4. CASE place = "last"
  <2>1. <<Packet("last", 0)>> \in Words
    <3>1. 0 \in 0 .. Blocks
      BY Constants
    <3>2. "last" \in Packets \union {"bad"}
      BY DEF Packets
    <3> QED
      BY <3>1, <3>2, AllPackets
  <2> QED
    BY <1>4, <2>1 DEF Sends
<1>5. CASE place \notin {"name", "block", "eot", "last"}
  BY <1>5, Bytes DEF Sends
<1> QED
  BY <1>1, <1>2, <1>3, <1>4, <1>5

-----------------------------------------------------------------------------
(* The inductive invariant.                                                *)

Line ==
  /\ toReceiver \in Words /\ toSender \in Words
  /\ hasty \in BOOLEAN /\ faults \in 0 .. MaxFaults
  /\ expired \subseteq {"sender", "receiver"}

\* The number of a packet on its way is one of the file's.
Sending ==
  /\ spc \in SenderPlaces /\ block \in 0 .. Blocks + 1
  /\ tries \in Nat /\ resends \in 0 .. MaxResends
  /\ sresult \in SenderResults
  /\ spc \in {"start", "hello", "name", "nameC"} => block = 0
  /\ spc = "block" => block \in 1 .. Blocks

\* Before its last error the receiver has one left.
Receiving ==
  /\ rpc \in {"start", "packet", "second", "done"}
  /\ received \in Nat /\ errors \in 0 .. MaxErrors + 1
  /\ rpc # "done" => errors <= MaxErrors
  /\ rresult \in ReceiverResults

\* While the file has room, the packets received are its blocks and a name.
Stored ==
  /\ size \in {0, Blocks} /\ file \in Seq(0 .. Blocks)
  /\ Len(file) <= Blocks
  /\ \A i \in 1 .. Len(file) : file[i] = i
  /\ received > 0 =>
       size = Blocks /\ (Len(file) < Blocks => received = Len(file) + 1)

IInv == Line /\ Sending /\ Receiving /\ Stored

LEMMA Initially == Init => IInv
<1> SUFFICES ASSUME Init PROVE IInv
  OBVIOUS
<1>1. Line
  BY Bytes, Constants DEF Init, Line
<1>2. Sending
  BY Constants DEF Init, Sending, SenderPlaces, SenderResults
<1>3. Receiving
  BY Constants DEF Init, Receiving, ReceiverResults
<1>4. Stored
  BY Constants, EmptySeq DEF Init, Stored
<1> QED
  BY <1>1, <1>2, <1>3, <1>4 DEF IInv

LEMMA Silence ==
  ASSUME Line, NEW w,
         NEW e \in {"sender", "receiver"}, NEW o \in {"sender", "receiver"},
         NEW a \in BOOLEAN, Second(e, o, w, a)
  PROVE  expired' \subseteq {"sender", "receiver"}
BY DEF Second, Line

(* A step of the sender leaves the receiver alone.                         *)
LEMMA SenderStep ==
  ASSUME IInv, Sender
  PROVE  Line' /\ Sending' /\ UNCHANGED receiver
<1> USE DEF IInv
<1>1. CASE SendStart
  <2>1. toReceiver' \in Words /\ toSender' \in Words
    BY <1>1, Bytes, Concat DEF SendStart, ToReceiver, Line, Control
  <2> QED
    BY <1>1, <2>1 DEF SendStart, Line, Sending, SenderPlaces
<1>2. CASE HelloTimeout
  <2>1. toReceiver' \in Words
    BY <1>2, Bytes, Concat DEF HelloTimeout, ToReceiver, Line, Control
  <2>2. expired' \subseteq {"sender", "receiver"}
    BY <1>2, Silence DEF HelloTimeout
  <2>3. Line'
    BY <1>2, <2>1, <2>2 DEF HelloTimeout, Line
  <2>4. Sending'
    BY <1>2 DEF HelloTimeout, SenderExit, Sending, SenderPlaces, SenderResults
  <2> QED
    BY <1>2, <2>3, <2>4 DEF HelloTimeout
<1>3. CASE HelloAnswer
  <2>1. toReceiver' \in Words /\ toSender' \in Words
    BY <1>3, Bytes, Concat, Taken, Sent
    DEF HelloAnswer, ToReceiver, Line
  <2>2. Line'
    BY <1>3, <2>1 DEF HelloAnswer, Heard, Line
  <2>3. Sending'
    <3>1. spc = "hello" /\ UNCHANGED <<block, resends>>
      BY <1>3 DEF HelloAnswer
    <3>2. \/ spc' = "name" /\ tries' = 0 /\ UNCHANGED sresult
          \/ spc' = "done" /\ sresult' = "99" /\ UNCHANGED tries
      BY <1>3 DEF HelloAnswer, SenderExit
    <3> QED
      BY <3>1, <3>2 DEF Sending, SenderPlaces, SenderResults, Wants
  <2> QED
    BY <1>3, <2>2, <2>3 DEF HelloAnswer
<1>4. ASSUME NEW b, SenderReads(b)
      PROVE  toSender' \in Words /\ expired' = {} /\ tries' = 0
  BY <1>4, Taken DEF SenderReads, Heard, Line
<1>5. CASE SenderAdvance
  <2>1. toSender' \in Words /\ expired' = {} /\ tries' = 0
    BY <1>4, <1>5 DEF SenderAdvance
  <2>2. spc \in DOMAIN Wants
    BY <1>5 DEF SenderAdvance, SenderReads
  <2>3. spc \in {"name", "nameC", "block", "eot", "eotC", "last"}
    BY <2>2 DEF Wants
  <2>4. Sending'
    BY <1>5, <2>1, <2>3, Constants
    DEF SenderAdvance, Sending, SenderPlaces, SenderResults, Wants
  <2>5. ToReceiver(Sends(spc', block'))
    BY <1>5 DEF SenderAdvance
  <2>6. toReceiver' \in Words
    BY <2>4, <2>5, Sent, Concat DEF ToReceiver, Line, Sending
  <2> QED
    BY <1>5, <2>1, <2>4, <2>6 DEF SenderAdvance, Line
<1>6. CASE SenderResend
  <2>1. toSender' \in Words /\ expired' = {} /\ tries' = 0
    BY <1>4, <1>6 DEF SenderResend
  <2>2. toReceiver' \in Words
    BY <1>6, Sent, Concat DEF SenderResend, ToReceiver, Line, Sending
  <2>3. resends' \in 0 .. MaxResends
    BY <1>6, Constants DEF SenderResend, Sending
  <2> QED
    BY <1>6, <2>1, <2>2, <2>3 DEF SenderResend, Line, Sending
<1>7. CASE SenderCancelled
  <2>1. toSender' \in Words /\ expired' = {} /\ tries' = 0
    BY <1>4, <1>7 DEF SenderCancelled
  <2>2. toReceiver' \in Words
    BY <1>7, Bytes, Concat DEF SenderCancelled, ToReceiver, Line
  <2>3. Sending'
    BY <1>7, <2>1
    DEF SenderCancelled, SenderExit, Sending, SenderPlaces, SenderResults
  <2> QED
    BY <1>7, <2>1, <2>2, <2>3 DEF SenderCancelled, Line
<1>8. CASE SenderGiveUp
  <2>1. toSender' \in Words /\ expired' = {} /\ tries' = 0
    BY <1>4, <1>8 DEF SenderGiveUp
  <2>2. toReceiver' \in Words
    BY <1>8, Bytes, Concat DEF SenderGiveUp, ToReceiver, Line
  <2>3. Sending'
    BY <1>8, <2>1
    DEF SenderGiveUp, SenderExit, Sending, SenderPlaces, SenderResults
  <2> QED
    BY <1>8, <2>1, <2>2, <2>3 DEF SenderGiveUp, Line
<1>9. CASE SenderTimeout
  <2>1. expired' \subseteq {"sender", "receiver"}
    BY <1>9, Silence DEF SenderTimeout
  <2>2. toReceiver' \in Words
    BY <1>9, Bytes, Concat DEF SenderTimeout, ToReceiver, Line
  <2>3. Sending'
    BY <1>9 DEF SenderTimeout, SenderExit, Sending, SenderPlaces, SenderResults
  <2> QED
    BY <1>9, <2>1, <2>2, <2>3 DEF SenderTimeout, Line
<1> QED
  BY <1>1, <1>2, <1>3, <1>5, <1>6, <1>7, <1>8, <1>9
  DEF Sender, SendStart, receiver

-----------------------------------------------------------------------------
LEMMA Answered ==
  ASSUME Line, NEW w \in Words, ToSender(w)
  PROVE  toSender' \in Words
BY Concat DEF ToSender, Line

LEMMA Complained ==
  ASSUME IInv, rpc # "done", NEW b \in Control, Complain(b)
  PROVE  Receiving' /\ Stored' /\ toSender' \in Words
<1>1. errors + 1 \in 0 .. MaxErrors + 1 /\ errors' = errors + 1
  BY Constants DEF IInv, Receiving, Complain
<1>2. Receiving'
  BY <1>1, Constants
  DEF IInv, Receiving, Complain, ReceiverExit, ReceiverResults
<1>3. Stored'
  BY DEF IInv, Stored, Complain
<1>4. toSender' \in Words
  BY Answered, Bytes DEF Complain, IInv
<1> QED
  BY <1>2, <1>3, <1>4

LEMMA Refused ==
  ASSUME IInv, NEW code \in ReceiverResults, Refuse(code)
  PROVE  Receiving' /\ Stored' /\ toSender' \in Words
<1>1. Receiving' /\ Stored'
  BY DEF IInv, Refuse, ReceiverExit, Receiving, Stored
<1>2. toSender' \in Words
  BY Answered, Bytes DEF Refuse, IInv
<1> QED
  BY <1>1, <1>2

(* The packet that is written is the next block of the file.               *)
LEMMA NextBlock ==
  ASSUME IInv, toReceiver # <<>>, Expected, received > 0, Len(file) < size
  PROVE  /\ Head(toReceiver).no = Len(file) + 1
         /\ received = Len(file) + 1 /\ size = Blocks
<1>1. size = Blocks /\ received = Len(file) + 1 /\ Len(file) \in Nat
  BY DEF IInv, Stored
<1>2. received \in 0 .. SeqMod - 1
  BY <1>1, Constants DEF IInv, Receiving
<1>3. Head(toReceiver).no \in 0 .. SeqMod - 1
  <2>1. Head(toReceiver) \in Symbols
    BY Taken DEF IInv, Line
  <2>2. Head(toReceiver).no \in 0 .. Blocks
    BY <2>1 DEF Symbols
  <2> QED
    BY <2>2, Constants
<1>4. Head(toReceiver).no = received
  BY <1>2, <1>3, ModIsIdentity, Constants DEF Expected
<1> QED
  BY <1>1, <1>4

LEMMA BlockWritten ==
  ASSUME IInv, NEW n \in 0 .. Blocks, n = Len(file) + 1
  PROVE  /\ Append(file, n) \in Seq(0 .. Blocks)
         /\ Len(Append(file, n)) = n
         /\ \A i \in 1 .. n : Append(file, n)[i] = i
<1>1. file \in Seq(0 .. Blocks) /\ \A i \in 1 .. Len(file) : file[i] = i
  BY DEF IInv, Stored
<1> QED
  BY <1>1

(* A step of the receiver leaves the sender alone.                         *)
LEMMA ReceiverStep ==
  ASSUME IInv, Receiver
  PROVE  Line' /\ Receiving' /\ Stored' /\ UNCHANGED sender
<1> USE DEF sender
<1>1. ASSUME NEW ss, ReceiverReads(ss)
      PROVE  /\ toReceiver' \in Words /\ expired' = {}
             /\ toReceiver # <<>> /\ Head(toReceiver).what \in ss
  BY <1>1, Taken DEF IInv, ReceiverReads, Heard, Line
<1>2. CASE ReceiveStart
  BY <1>2, Bytes DEF IInv, ReceiveStart, Line, Receiving, Stored
<1>3. CASE ReceiveTimeout
  <2>1. Receiving' /\ Stored' /\ toSender' \in Words
    BY <1>3, Complained DEF ReceiveTimeout, Receives, Control
  <2>2. expired' \subseteq {"sender", "receiver"}
    BY <1>3, Silence DEF ReceiveTimeout, IInv
  <2> QED
    BY <1>3, <2>1, <2>2 DEF ReceiveTimeout, IInv, Line
<1>4. CASE ReceiveBad
  <2>1. Receiving' /\ Stored' /\ toSender' \in Words
    BY <1>4, Complained DEF ReceiveBad, Control
  <2>2. toReceiver' \in Words /\ expired' = {}
    BY <1>1, <1>4 DEF ReceiveBad
  <2> QED
    BY <1>4, <2>1, <2>2 DEF ReceiveBad, IInv, Line
<1>5. CASE ReceiveSplit
  <2>1. Receiving' /\ Stored' /\ toSender' \in Words
    BY <1>5, Complained DEF ReceiveSplit, Control
  <2>2. toReceiver' \in Words
    BY <1>5, Shifted DEF ReceiveSplit, IInv, Line
  <2> QED
    BY <1>5, <2>1, <2>2 DEF ReceiveSplit, Heard, IInv, Line
<1>6. CASE ReceiveCA
  <2>1. toReceiver' \in Words /\ expired' = {}
    BY <1>1, <1>6 DEF ReceiveCA
  <2> QED
    BY <1>6, <2>1 DEF ReceiveCA, IInv, Line, Receiving, Stored
<1>7. CASE ReceiveCancel
  <2>1. toReceiver' \in Words /\ expired' = {}
    BY <1>1, <1>7 DEF ReceiveCancel
  <2>2. toSender' \in Words
    BY <1>7, Answered, Bytes DEF ReceiveCancel, IInv, Control
  <2> QED
    BY <1>7, <2>1, <2>2
    DEF ReceiveCancel, ReceiverExit, IInv, Line, Receiving, Stored,
        ReceiverResults
<1>8. CASE ReceiveAbort
  <2>1. toReceiver' \in Words /\ expired' = {}
    BY <1>1, <1>8 DEF ReceiveAbort
  <2>2. Receiving' /\ Stored' /\ toSender' \in Words
    BY <1>8, Refused DEF ReceiveAbort, ReceiverResults
  <2> QED
    BY <1>8, <2>1, <2>2 DEF ReceiveAbort, IInv, Line
<1>9. CASE ReceiveEOT
  <2>1. toReceiver' \in Words /\ expired' = {}
    BY <1>1, <1>9 DEF ReceiveEOT
  <2>2. toSender' \in Words
    BY <1>9, Answered, Bytes DEF ReceiveEOT, IInv, Control
  <2> QED
    BY <1>9, <2>1, <2>2 DEF ReceiveEOT, IInv, Line, Receiving, Stored
<1>10. CASE ReceiveOther
  <2>1. Receiving' /\ Stored' /\ toSender' \in Words
    BY <1>10, Complained DEF ReceiveOther, Control
  <2>2. toReceiver' \in Words /\ expired' = {}
    BY <1>1, <1>10 DEF ReceiveOther
  <2> QED
    BY <1>10, <2>1, <2>2 DEF ReceiveOther, IInv, Line
<1>11. CASE ReceiveName
  <2>1. toReceiver' \in Words /\ expired' = {}
    BY <1>1, <1>11 DEF ReceiveName
  <2>2. CASE /\ ToSender(<<Byte("ACK"), Byte("C")>>)
             /\ size' = Blocks /\ file' = <<>>
             /\ received' = 1 /\ errors' = 0
             /\ UNCHANGED <<rpc, rresult>>
    <3>1. <<Byte("ACK"), Byte("C")>> \in Words
      BY Constants DEF Byte, Words, Symbols, Control
    <3>2. toSender' \in Words
      BY <2>2, <3>1, Answered DEF IInv
    <3>3. Receiving'
      BY <2>2, Constants DEF IInv, Receiving
    <3>4. Stored'
      BY <2>2, Constants, EmptySeq DEF Stored
    <3> QED
      BY <1>11, <2>1, <3>2, <3>3, <3>4 DEF ReceiveName, IInv, Line
  <2>3. CASE \E code \in {"-4", "-2"} : Refuse(code)
    <3>1. Receiving' /\ Stored' /\ toSender' \in Words
      BY <2>3, Refused DEF ReceiverResults
    <3> QED
      BY <1>11, <2>1, <3>1 DEF ReceiveName, IInv, Line
  <2> QED
    BY <1>11, <2>2, <2>3 DEF ReceiveName
<1>12. CASE ReceiveLast
  <2>1. toReceiver' \in Words /\ expired' = {}
    BY <1>1, <1>12 DEF ReceiveLast
  <2>2. toSender' \in Words
    BY <1>12, Answered, Bytes DEF ReceiveLast, IInv, Control
  <2>3. Receiving' /\ Stored'
    BY <1>12, Constants
    DEF ReceiveLast, ReceiverExit, IInv, Receiving, Stored, ReceiverResults
  <2> QED
    BY <1>12, <2>1, <2>2, <2>3 DEF ReceiveLast, IInv, Line
<1>13. CASE ReceiveData
  <2>1. toReceiver' \in Words /\ expired' = {} /\ toReceiver # <<>>
    BY <1>1, <1>13 DEF ReceiveData
  <2>2. CASE /\ ToSender(<<Byte("ACK")>>)
             /\ file' = IF Len(file) < size
                        THEN Append(file, Head(toReceiver).no) ELSE file
             /\ received' = received + 1 /\ errors' = 0
             /\ UNCHANGED <<rpc, size, rresult>>
    <3>1. toSender' \in Words
      BY <2>2, Answered, Bytes DEF IInv, Control
    <3>2. Receiving'
      BY <2>2, Constants DEF IInv, Receiving
    <3>3. ASSUME Len(file) < size PROVE Stored'
      <4> DEFINE n == Head(toReceiver).no
      <4>1. n = Len(file) + 1 /\ received = n /\ size = Blocks
        BY <1>13, <2>1, <3>3, NextBlock DEF ReceiveData
      <4>2. n \in 0 .. Blocks
        BY <4>1, <3>3, Constants DEF IInv, Receiving
      <4>3. file' = Append(file, n)
        BY <2>2, <3>3
      <4> HIDE DEF n
      <4>4. /\ file' \in Seq(0 .. Blocks) /\ Len(file') = n
            /\ \A i \in 1 .. Len(file') : file'[i] = i
        BY <4>1, <4>2, <4>3, BlockWritten
      <4> QED
        BY <2>2, <4>1, <4>2, <4>4, Constants DEF Stored
    <3>4. ASSUME ~(Len(file) < size) PROVE Stored'
      BY <1>13, <2>2, <3>4, Constants DEF ReceiveData, IInv, Stored, Receiving
    <3> QED
      BY <1>13, <2>1, <3>1, <3>2, <3>3, <3>4 DEF ReceiveData, IInv, Line
  <2>3. CASE Refuse("1")
    <3>1. Receiving' /\ Stored' /\ toSender' \in Words
      BY <2>3, Refused DEF ReceiverResults
    <3> QED
      BY <1>13, <2>1, <3>1 DEF ReceiveData, IInv, Line
  <2> QED
    BY <1>13, <2>2, <2>3 DEF ReceiveData
<1> QED
  BY <1>2, <1>3, <1>4, <1>5, <1>6, <1>7, <1>8, <1>9, <1>10, <1>11, <1>12, <1>13
  DEF Receiver

-----------------------------------------------------------------------------
LEMMA FaultStep ==
  ASSUME IInv, Fault
  PROVE  Line' /\ UNCHANGED <<sender, receiver>>
<1>1. faults' \in 0 .. MaxFaults
  BY Constants DEF Fault, IInv, Line
<1>2. toReceiver' \in Words /\ toSender' \in Words
  BY Damaged, Shifted DEF Fault, IInv, Line
<1> QED
  BY <1>1, <1>2 DEF Fault, IInv, Line

LEMMA Inductive == IInv /\ [Next]_vars => IInv'
<1> SUFFICES ASSUME IInv, [Next]_vars PROVE IInv'
  OBVIOUS
<1>1. UNCHANGED sender => Sending'
  BY DEF IInv, Sending, sender
<1>2. UNCHANGED receiver => Receiving' /\ Stored'
  BY DEF IInv, Receiving, Stored, receiver
<1>3. UNCHANGED <<line, expired>> => Line'
  BY DEF IInv, Line, line
<1>4. CASE Sender
  BY <1>2, <1>4, SenderStep DEF IInv
<1>5. CASE Receiver
  BY <1>1, <1>5, ReceiverStep DEF IInv
<1>6. CASE Fault
  BY <1>1, <1>2, <1>6, FaultStep DEF IInv
<1>7. CASE UNCHANGED vars
  BY <1>1, <1>2, <1>3, <1>7 DEF IInv, vars
<1> QED
  BY <1>4, <1>5, <1>6, <1>7 DEF Next

LEMMA Invariant == Spec => []IInv
BY Initially, Inductive, PTL DEF Spec

(* Every variable keeps its type.                                          *)
THEOREM TypeCorrect == Spec => []TypeOK
<1>1. IInv => TypeOK
  BY DEF IInv, Line, Sending, Receiving, Stored, TypeOK, Words
<1> QED
  BY <1>1, Invariant, PTL

(* What is in the file is what was sent, from the start, in order and      *)
(* without a repetition, for a file of any length and any line.            *)
THEOREM FileIsPrefix == Spec => []InOrder
<1>1. IInv => InOrder
  <2> SUFFICES ASSUME IInv PROVE file = SubSeq(Whole, 1, Len(file))
    BY DEF InOrder
  <2>1. /\ file \in Seq(0 .. Blocks)
        /\ Len(file) \in Nat /\ Len(file) <= Blocks
        /\ \A i \in 1 .. Len(file) : file[i] = i
    BY DEF IInv, Stored
  <2>2. \A i \in 1 .. Len(file) : Whole[i] = i
    BY <2>1, Constants DEF Whole
  <2>3. \A i \in 1 .. Len(file) : Whole[i] \in 0 .. Blocks
    BY <2>1, <2>2, Constants
  <2>4. /\ SubSeq(Whole, 1, Len(file)) \in Seq(0 .. Blocks)
        /\ Len(SubSeq(Whole, 1, Len(file))) = Len(file)
        /\ \A i \in 1 .. Len(file) : SubSeq(Whole, 1, Len(file))[i] = Whole[i]
    BY <2>1, <2>3, SubSeqProperties
  <2> QED
    BY <2>1, <2>2, <2>4, SeqEqual
<1> QED
  BY <1>1, Invariant, PTL

-----------------------------------------------------------------------------
(* Symbols in a word, and acknowledgements counted.                        *)

Has(w, b) == \E i \in 1 .. Len(w) : w[i].what = b

AckPlaces(w) == {i \in 1 .. Len(w) : w[i].what = "ACK"}
Acks(w) == Cardinality(AckPlaces(w))

LEMMA AcksAreFinite ==
  ASSUME NEW w \in Words
  PROVE  IsFiniteSet(AckPlaces(w)) /\ Acks(w) \in Nat
<1>1. Len(w) \in Nat
  BY DEF Words
<1>2. IsFiniteSet(1 .. Len(w)) /\ AckPlaces(w) \in SUBSET (1 .. Len(w))
  BY <1>1, FS_Interval DEF AckPlaces
<1> QED
  BY <1>2, FS_Subset, FS_CardinalityType DEF Acks

LEMMA AcksOfConcat ==
  ASSUME NEW v \in Words, NEW w \in Words
  PROVE  Acks(v \o w) = Acks(v) + Acks(w)
<1> DEFINE shifted == {i + Len(v) : i \in AckPlaces(w)}
           shift == [i \in AckPlaces(w) |-> i + Len(v)]
<1>1. /\ Len(v) \in Nat /\ Len(w) \in Nat /\ Len(v \o w) = Len(v) + Len(w)
      /\ \A i \in 1 .. Len(v) + Len(w) :
           (v \o w)[i] = IF i <= Len(v) THEN v[i] ELSE w[i - Len(v)]
  BY ConcatProperties DEF Words
<1>2. AckPlaces(v \o w) = AckPlaces(v) \union shifted
  <2>1. ASSUME NEW i \in AckPlaces(v \o w)
        PROVE  i \in AckPlaces(v) \union shifted
    <3>1. i \in 1 .. Len(v) + Len(w) /\ (v \o w)[i].what = "ACK"
      BY <1>1, <2>1 DEF AckPlaces
    <3>2. CASE i <= Len(v)
      BY <1>1, <3>1, <3>2 DEF AckPlaces
    <3>3. CASE i > Len(v)
      <4>1. i - Len(v) \in AckPlaces(w)
        BY <1>1, <3>1, <3>3 DEF AckPlaces
      <4>2. i = (i - Len(v)) + Len(v)
        BY <1>1, <3>1
      <4> QED
        BY <4>1, <4>2
    <3> QED
      BY <1>1, <3>1, <3>2, <3>3
  <2>2. AckPlaces(v) \subseteq AckPlaces(v \o w)
    BY <1>1 DEF AckPlaces
  <2>3. ASSUME NEW i \in AckPlaces(w)
        PROVE  i + Len(v) \in AckPlaces(v \o w)
    <3>1. i \in 1 .. Len(w) /\ w[i].what = "ACK"
      BY <2>3 DEF AckPlaces
    <3>2. i + Len(v) \in 1 .. Len(v) + Len(w) /\ ~ (i + Len(v) <= Len(v))
      BY <1>1, <3>1
    <3>3. (i + Len(v)) - Len(v) = i
      BY <1>1, <3>1
    <3> QED
      BY <1>1, <3>1, <3>2, <3>3 DEF AckPlaces
  <2> QED
    BY <2>1, <2>2, <2>3
<1>3. AckPlaces(v) \intersect shifted = {}
  BY <1>1 DEF AckPlaces
<1>4. shift \in Bijection(AckPlaces(w), shifted)
  <2>1. \A i \in AckPlaces(w) : i \in Int
    BY <1>1 DEF AckPlaces
  <2>2. shift \in [AckPlaces(w) -> shifted]
    OBVIOUS
  <2>3. \A i, j \in AckPlaces(w) : shift[i] = shift[j] => i = j
    BY <1>1, <2>1
  <2>4. \A j \in shifted : \E i \in AckPlaces(w) : shift[i] = j
    OBVIOUS
  <2> HIDE DEF shift, shifted
  <2>5. shift \in Injection(AckPlaces(w), shifted)
    BY <2>2, <2>3 DEF Injection, IsInjective
  <2>6. shift \in Surjection(AckPlaces(w), shifted)
    BY <2>2, <2>4 DEF Surjection
  <2> QED
    BY <2>5, <2>6 DEF Bijection
<1> HIDE DEF shift, shifted
<1>5. IsFiniteSet(shifted) /\ Cardinality(shifted) = Acks(w)
  BY <1>4, AcksAreFinite, FS_Bijection DEF ExistsBijection, Acks
<1>6. Cardinality(AckPlaces(v) \union shifted)
        = Acks(v) + Acks(w) - Cardinality(AckPlaces(v) \intersect shifted)
  BY <1>5, AcksAreFinite, FS_Union DEF Acks
<1>7. Cardinality(AckPlaces(v) \intersect shifted) = 0
  BY <1>3, FS_EmptySet
<1> QED
  BY <1>2, <1>6, <1>7, AcksAreFinite DEF Acks

LEMMA FewAcks ==
  /\ Acks(<<>>) = 0
  /\ \A s \in Symbols : Acks(<<s>>) = IF s.what = "ACK" THEN 1 ELSE 0
<1>1. AckPlaces(<<>>) = {}
  BY DEF AckPlaces
<1>2. ASSUME NEW s \in Symbols
      PROVE  AckPlaces(<<s>>) = IF s.what = "ACK" THEN {1} ELSE {}
  <2>1. Len(<<s>>) = 1 /\ <<s>>[1] = s
    OBVIOUS
  <2> QED
    BY <2>1 DEF AckPlaces
<1> QED
  BY <1>1, <1>2, FS_EmptySet, FS_Singleton DEF Acks

LEMMA FirstAndRest ==
  ASSUME NEW w \in Words, w # <<>>
  PROVE  /\ Head(w) \in Symbols /\ Tail(w) \in Words
         /\ Len(w) \in Nat \ {0} /\ Len(Tail(w)) = Len(w) - 1
         /\ w[1] = Head(w)
         /\ \A i \in 1 .. Len(w) - 1 : Tail(w)[i] = w[i + 1]
         /\ Acks(w) = Acks(Tail(w)) + IF Head(w).what = "ACK" THEN 1 ELSE 0
         /\ \A b : Has(Tail(w), b) => Has(w, b)
         /\ \A b : Head(w).what = b => Has(w, b)
<1>1. /\ Head(w) \in Symbols /\ Tail(w) \in Words
      /\ Len(w) \in Nat \ {0} /\ Len(Tail(w)) = Len(w) - 1
      /\ \A i \in 1 .. Len(w) - 1 : Tail(w)[i] = w[i + 1]
  BY HeadTailProperties, EmptySeq DEF Words
<1>2. w[1] = Head(w)
  BY <1>1 DEF Words
<1>3. w = <<Head(w)>> \o Tail(w)
  <2>1. <<Head(w)>> \in Words /\ Len(<<Head(w)>>) = 1
    BY <1>1 DEF Words
  <2>2. /\ <<Head(w)>> \o Tail(w) \in Words
        /\ Len(<<Head(w)>> \o Tail(w)) = Len(w)
        /\ \A i \in 1 .. Len(w) :
             (<<Head(w)>> \o Tail(w))[i]
               = IF i <= 1 THEN <<Head(w)>>[i] ELSE Tail(w)[i - 1]
    BY <1>1, <2>1, ConcatProperties DEF Words
  <2>3. \A i \in 1 .. Len(w) : w[i] = (<<Head(w)>> \o Tail(w))[i]
    BY <1>1, <1>2, <2>2
  <2> QED
    BY <2>2, <2>3, SeqEqual DEF Words
<1>4. <<Head(w)>> \in Words
  BY <1>1 DEF Words
<1>5. Acks(w) = Acks(<<Head(w)>>) + Acks(Tail(w))
  BY <1>1, <1>3, <1>4, AcksOfConcat
<1>6. Acks(w) = Acks(Tail(w)) + IF Head(w).what = "ACK" THEN 1 ELSE 0
  BY <1>1, <1>5, FewAcks, AcksAreFinite
<1>7. \A b : Has(Tail(w), b) => Has(w, b)
  BY <1>1 DEF Has
<1>8. \A b : Head(w).what = b => Has(w, b)
  BY <1>1, <1>2 DEF Has
<1> QED
  BY <1>1, <1>2, <1>6, <1>7, <1>8

LEMMA Joined ==
  ASSUME NEW v \in Words, NEW w \in Words
  PROVE  /\ v \o w \in Words
         /\ Len(v) \in Nat /\ Len(w) \in Nat
         /\ Len(v \o w) = Len(v) + Len(w)
         /\ \A i \in 1 .. Len(v) + Len(w) : (v \o w)[i] =
                     IF i <= Len(v) THEN v[i] ELSE w[i - Len(v)]
         /\ \A b : Has(v \o w, b) => Has(v, b) \/ Has(w, b)
         /\ \A b : Has(v, b) \/ Has(w, b) => Has(v \o w, b)
         /\ Acks(v \o w) = Acks(v) + Acks(w)
         /\ Acks(v) \in Nat /\ Acks(w) \in Nat
<1>1. /\ v \o w \in Words
      /\ Len(v) \in Nat /\ Len(w) \in Nat
      /\ Len(v \o w) = Len(v) + Len(w)
      /\ \A i \in 1 .. Len(v) + Len(w) : (v \o w)[i] =
                     IF i <= Len(v) THEN v[i] ELSE w[i - Len(v)]
  BY ConcatProperties DEF Words
<1>2. \A b : Has(v \o w, b) => Has(v, b) \/ Has(w, b)
  BY <1>1 DEF Has
<1>3. ASSUME NEW b, Has(v, b) PROVE Has(v \o w, b)
  BY <1>1, <1>3 DEF Has
<1>4. ASSUME NEW b, Has(w, b) PROVE Has(v \o w, b)
  <2>1. PICK i \in 1 .. Len(w) : w[i].what = b
    BY <1>4 DEF Has
  <2>2. /\ i + Len(v) \in 1 .. Len(v) + Len(w) /\ ~ (i + Len(v) <= Len(v))
        /\ (i + Len(v)) - Len(v) = i
    BY <1>1, <2>1
  <2>3. (v \o w)[i + Len(v)] = w[i]
    BY <1>1, <2>2
  <2> QED
    BY <1>1, <2>1, <2>2, <2>3 DEF Has
<1> QED
  BY <1>1, <1>2, <1>3, <1>4, AcksOfConcat, AcksAreFinite

(* The words the ends send.                                                *)
LEMMA Sayings ==
  /\ \A b \in Control : /\ <<Byte(b)>> \in Words
                        /\ Acks(<<Byte(b)>>) = IF b = "ACK" THEN 1 ELSE 0
                        /\ \A c : Has(<<Byte(b)>>, c) => c = b
  /\ Cancel \in Words /\ Acks(Cancel) = 0 /\ \A c : Has(Cancel, c) => c = "CA"
  /\ <<Byte("ACK"), Byte("C")>> \in Words
  /\ Acks(<<Byte("ACK"), Byte("C")>>) = 1
  /\ \A c : Has(<<Byte("ACK"), Byte("C")>>, c) => c \in {"ACK", "C"}
  /\ <<>> \in Words /\ Acks(<<>>) = 0 /\ \A c : ~ Has(<<>>, c)
<1>1. \A b \in Control : Byte(b) \in Symbols /\ Byte(b).what = b
  BY Constants DEF Byte, Symbols
<1>2. \A b \in Control : /\ <<Byte(b)>> \in Words
                         /\ Acks(<<Byte(b)>>) = IF b = "ACK" THEN 1 ELSE 0
                         /\ \A c : Has(<<Byte(b)>>, c) => c = b
  <2> SUFFICES ASSUME NEW b \in Control
               PROVE  /\ <<Byte(b)>> \in Words
                      /\ Acks(<<Byte(b)>>) = IF b = "ACK" THEN 1 ELSE 0
                      /\ \A c : Has(<<Byte(b)>>, c) => c = b
    OBVIOUS
  <2>1. <<Byte(b)>> \in Words
    BY Bytes
  <2>2. Acks(<<Byte(b)>>) = IF b = "ACK" THEN 1 ELSE 0
    BY <1>1, FewAcks
  <2>3. Len(<<Byte(b)>>) = 1 /\ <<Byte(b)>>[1] = Byte(b)
    OBVIOUS
  <2> QED
    BY <1>1, <2>1, <2>2, <2>3 DEF Has
<1>3. "CA" \in Control /\ "ACK" \in Control /\ "C" \in Control
  BY DEF Control
<1>4. ASSUME NEW a \in Control, NEW b \in Control
      PROVE  /\ <<Byte(a), Byte(b)>> \in Words
             /\ Acks(<<Byte(a), Byte(b)>>)
                  = Acks(<<Byte(a)>>) + Acks(<<Byte(b)>>)
             /\ \A c : Has(<<Byte(a), Byte(b)>>, c) => c \in {a, b}
  <2>1. <<Byte(a)>> \in Words /\ <<Byte(b)>> \in Words
    BY <1>2
  <2>2. <<Byte(a), Byte(b)>> \in Words /\ Len(<<Byte(a), Byte(b)>>) = 2
    BY <1>1 DEF Words
  <2>3. /\ <<Byte(a)>> \o <<Byte(b)>> \in Words
        /\ Len(<<Byte(a)>> \o <<Byte(b)>>) = 2
        /\ (<<Byte(a)>> \o <<Byte(b)>>)[1] = Byte(a)
        /\ (<<Byte(a)>> \o <<Byte(b)>>)[2] = Byte(b)
    BY <2>1, ConcatProperties DEF Words
  <2>4. <<Byte(a)>> \o <<Byte(b)>> = <<Byte(a), Byte(b)>>
    <3>1. \A i \in 1 .. 2 :
            (<<Byte(a)>> \o <<Byte(b)>>)[i] = <<Byte(a), Byte(b)>>[i]
      BY <2>3
    <3> QED
      BY <2>2, <2>3, <3>1, SeqEqual DEF Words
  <2>5. \A c : Has(<<Byte(a)>> \o <<Byte(b)>>, c)
                 => Has(<<Byte(a)>>, c) \/ Has(<<Byte(b)>>, c)
    BY <2>1, Joined
  <2> QED
    BY <1>2, <2>4, <2>1, <2>5, Joined
<1>5. <<>> \in Words /\ Acks(<<>>) = 0 /\ \A c : ~ Has(<<>>, c)
  BY FewAcks, Bytes DEF Has
<1>6. Cancel \in Words /\ Acks(Cancel) = 0 /\ \A c : Has(Cancel, c) => c = "CA"
  <2>1. Acks(<<Byte("CA")>>) = 0
    BY <1>2, <1>3
  <2>2. Acks(Cancel) = Acks(<<Byte("CA")>>) + Acks(<<Byte("CA")>>)
    BY <1>3, <1>4 DEF Cancel
  <2>3. Cancel \in Words /\ \A c : Has(Cancel, c) => c \in {"CA", "CA"}
    BY <1>3, <1>4 DEF Cancel
  <2> QED
    BY <2>1, <2>2, <2>3
<1>7. /\ <<Byte("ACK"), Byte("C")>> \in Words
      /\ Acks(<<Byte("ACK"), Byte("C")>>) = 1
      /\ \A c : Has(<<Byte("ACK"), Byte("C")>>, c) => c \in {"ACK", "C"}
  <2>1. Acks(<<Byte("ACK")>>) = 1 /\ Acks(<<Byte("C")>>) = 0
    BY <1>2, <1>3
  <2> QED
    BY <1>3, <1>4, <2>1
<1> QED
  BY <1>2, <1>5, <1>6, <1>7

-----------------------------------------------------------------------------
(* The account.  The sender has taken so many acknowledgements (Acked) and *)
(* sent the packets up to a number (Latest), 0 that of the name and        *)
(* Blocks + 1 of the end; the receiver has given one for each packet that  *)
(* was new (Given).                                                        *)

Acked == IF spc \in {"start", "hello", "name"} THEN 0
         ELSE IF spc = "nameC" THEN 1 ELSE block

Latest == IF spc \in {"start", "hello"} THEN -1
          ELSE IF spc \in {"name", "nameC"} THEN 0 ELSE block

Given == IF size = 0 THEN 0 ELSE Len(file) + 1

Owed == Acked + Acks(toSender)

Stage(n) == IF n = 0 THEN Packet("name", 0)
            ELSE IF n <= Blocks THEN Packet("data", n) ELSE Byte("EOT")

\* The packets from a number to another, with nothing but the 'C' of
\* SendStart and HelloTimeout before the name.
Chain(w, from, to) ==
  /\ Len(w) >= to + 1 - from
  /\ from > 0 => Len(w) = to + 1 - from
  /\ \A i \in 1 .. Len(w) :
       w[i] = IF to - Len(w) + i >= 0 THEN Stage(to - Len(w) + i)
                                      ELSE Byte("C")

LEMMA Stages ==
  ASSUME NEW n \in 0 .. Blocks + 1
  PROVE  /\ Stage(n) \in Symbols
         /\ n = 0 => Stage(n) = Packet("name", 0)
         /\ n \in 1 .. Blocks => Stage(n) = Packet("data", n)
         /\ n = Blocks + 1 => Stage(n) = Byte("EOT")
         /\ Stage(n).what = "EOT" => n = Blocks + 1
         /\ Stage(n).what \in {"name", "data", "EOT"}
BY Constants DEF Stage, Symbols, Packet, Byte, Control, Packets

LEMMA ChainOfNone == Chain(<<>>, 0, -1)
BY DEF Chain

LEMMA ChainGrows ==
  ASSUME NEW w \in Words, NEW from \in Nat, NEW to \in Int,
         -1 <= to, to <= Blocks, Chain(w, from, to)
  PROVE  Chain(w \o <<Stage(to + 1)>>, from, to + 1)
<1> DEFINE s == <<Stage(to + 1)>>
<1>1. s \in Words /\ Len(s) = 1 /\ s[1] = Stage(to + 1)
  BY Stages, Constants DEF Words
<1> HIDE DEF s
<1>2. /\ Len(w) \in Nat /\ Len(w \o s) = Len(w) + 1
      /\ \A i \in 1 .. Len(w) + 1 :
           (w \o s)[i] = IF i <= Len(w) THEN w[i] ELSE s[i - Len(w)]
  BY <1>1, Joined
<1>3. /\ Len(w \o s) >= (to + 1) + 1 - from
      /\ from > 0 => Len(w \o s) = (to + 1) + 1 - from
  BY <1>2 DEF Chain
<1>4. ASSUME NEW i \in 1 .. Len(w)
      PROVE  (w \o s)[i] = IF (to + 1) - Len(w \o s) + i >= 0
                           THEN Stage((to + 1) - Len(w \o s) + i)
                           ELSE Byte("C")
  <2>1. (to + 1) - Len(w \o s) + i = to - Len(w) + i
    BY <1>2
  <2>2. (w \o s)[i] = w[i]
    BY <1>2
  <2> QED
    BY <2>1, <2>2 DEF Chain
<1>5. /\ (w \o s)[Len(w) + 1] = Stage(to + 1)
      /\ (to + 1) - Len(w \o s) + (Len(w) + 1) = to + 1
  BY <1>1, <1>2
<1>6. \A i \in 1 .. Len(w \o s) : i \in 1 .. Len(w) \/ i = Len(w) + 1
  BY <1>2
<1>7. Chain(w \o s, from, to + 1)
  BY <1>3, <1>4, <1>5, <1>6 DEF Chain
<1> QED
  BY <1>7 DEF s

LEMMA ChainOfHellos ==
  ASSUME NEW w \in Words, Chain(w, 0, -1)
  PROVE  Chain(w \o <<Byte("C")>>, 0, -1)
<1> DEFINE s == <<Byte("C")>>
<1>1. s \in Words /\ Len(s) = 1 /\ s[1] = Byte("C")
  BY Sayings DEF Control
<1> HIDE DEF s
<1>2. /\ Len(w) \in Nat /\ Len(w \o s) = Len(w) + 1
      /\ \A i \in 1 .. Len(w) + 1 :
           (w \o s)[i] = IF i <= Len(w) THEN w[i] ELSE s[i - Len(w)]
  BY <1>1, Joined
<1>3. \A i \in 1 .. Len(w) : w[i] = Byte("C")
  BY <1>2 DEF Chain
<1>4. \A i \in 1 .. Len(w) + 1 : (w \o s)[i] = Byte("C")
  <2>1. \A i \in 1 .. Len(w) + 1 : i \in 1 .. Len(w) \/ i - Len(w) = 1
    BY <1>2
  <2> QED
    BY <1>1, <1>2, <1>3, <2>1
<1>5. Chain(w \o s, 0, -1)
  BY <1>2, <1>4 DEF Chain
<1> QED
  BY <1>5 DEF s

(* The first of a chain is a 'C' or the packet that is expected.           *)
LEMMA ChainShrinks ==
  ASSUME NEW w \in Words, w # <<>>, NEW from \in Nat, NEW to \in Int,
         -1 <= to, to <= Blocks + 1, Chain(w, from, to)
  PROVE  \/ /\ from = 0 /\ Head(w) = Byte("C")
            /\ Chain(Tail(w), 0, to)
         \/ /\ from <= to /\ Head(w) = Stage(from)
            /\ Chain(Tail(w), from + 1, to)
<1>1. /\ Tail(w) \in Words /\ Len(w) \in Nat \ {0}
      /\ Len(Tail(w)) = Len(w) - 1 /\ w[1] = Head(w)
      /\ \A i \in 1 .. Len(w) - 1 : Tail(w)[i] = w[i + 1]
  BY FirstAndRest
<1>2. Head(w) = IF to - Len(w) + 1 >= 0 THEN Stage(to - Len(w) + 1)
                                        ELSE Byte("C")
  BY <1>1 DEF Chain
<1>3. ASSUME NEW i \in 1 .. Len(Tail(w))
      PROVE  Tail(w)[i] = IF to - Len(Tail(w)) + i >= 0
                          THEN Stage(to - Len(Tail(w)) + i) ELSE Byte("C")
  <2>1. /\ i + 1 \in 1 .. Len(w) /\ Tail(w)[i] = w[i + 1]
        /\ to - Len(Tail(w)) + i = to - Len(w) + (i + 1)
    BY <1>1
  <2> QED
    BY <2>1 DEF Chain
<1>4. CASE to - Len(w) + 1 < 0
  <2>1. from = 0
    BY <1>1, <1>4 DEF Chain
  <2>2. Len(Tail(w)) >= to + 1 - 0
    BY <1>1, <1>4
  <2> QED
    BY <1>2, <1>3, <1>4, <2>1, <2>2 DEF Chain
<1>5. CASE to - Len(w) + 1 >= 0
  <2>1. to - Len(w) + 1 = from /\ from <= to
    BY <1>1, <1>5 DEF Chain
  <2>2. Len(w) \in Nat /\ Len(w) = to + 1 - from
    <3>1. Len(w) \in Nat
      BY <1>1
    <3> QED
      BY <2>1, <3>1
  <2>3. Len(Tail(w)) = to + 1 - (from + 1)
    <3>1. Len(Tail(w)) = Len(w) - 1
      BY <1>1
    <3> QED
      BY <2>2, <3>1
  <2>4. Chain(Tail(w), from + 1, to)
    BY <1>3, <2>3 DEF Chain
  <2> QED
    BY <1>2, <1>5, <2>1, <2>4
<1> QED
  BY <1>1, <1>4, <1>5

LEMMA ChainEnd ==
  ASSUME NEW w \in Words, NEW from \in Nat, NEW to \in Int,
         -1 <= to, to <= Blocks + 1, Chain(w, from, to), Has(w, "EOT")
  PROVE  to = Blocks + 1
<1>1. PICK i \in 1 .. Len(w) : w[i].what = "EOT"
  BY DEF Has
<1>2. Len(w) \in Nat
  BY DEF Words
<1>3. to - Len(w) + i >= 0
  BY <1>1, <1>2 DEF Chain, Byte
<1>4. Stage(to - Len(w) + i).what = "EOT"
  BY <1>1, <1>2, <1>3 DEF Chain
<1>5. to - Len(w) + i \in 0 .. Blocks + 1
  BY <1>2, <1>3, Constants
<1>6. to - Len(w) + i = Blocks + 1
  BY <1>4, <1>5, Stages
<1> QED
  BY <1>2, <1>6, Constants

-----------------------------------------------------------------------------
(* What the dialogue looks like while the line has had a fault at most and *)
(* the file is not whole.                                                  *)

\* The receiver will get every packet that was sent.  A fault may have made
\* an acknowledgement out of something else.
Exact ==
  /\ Chain(toReceiver, Given, Latest)
  /\ rpc \in {"start", "packet"} /\ received = Given
  /\ ~ Has(toSender, "NAK")
  /\ Owed <= Given + faults

\* The fault has made an EOT out of a 'C', which will be acknowledged.
Early ==
  /\ faults = 1 /\ Given = 0
  /\ toReceiver # <<>> /\ Head(toReceiver) = Byte("EOT")
  /\ Chain(Tail(toReceiver), 0, Latest)
  /\ rpc \in {"start", "packet"} /\ received = 0
  /\ ~ Has(toSender, "NAK")
  /\ Owed <= 0

\* The fault was another.  Whatever is on its way, the sender is not ahead.
Behind ==
  /\ faults = 1
  /\ ~ Has(toReceiver, "EOT")
  /\ rpc # "done" /\ received = Given
  /\ Owed <= Given

\* The receiver has stopped.
Closed == rpc = "done" /\ Owed <= Given + faults

\* The receiver will stop, of a packet that has fallen apart: its number may
\* be read as an EOT, and after that come more errors than it accepts.
Number == IF Head(toReceiver).what = "EOT" THEN 1 ELSE 0

Broken ==
  /\ faults = 1 /\ rpc = "packet"
  /\ Len(toReceiver) >= Number + (MaxErrors + 1 - errors)
  /\ \A i \in 1 .. MaxErrors + 1 - errors :
       toReceiver[Number + i].what = "junk"
  /\ Owed + Number <= Given + 1

Alive == spc \notin {"eotC", "last", "done"}

Going ==
  faults <= 1 /\ Alive /\ Len(file) < Blocks =>
    Exact \/ Early \/ Behind \/ Closed \/ Broken

\* Before the receiver has started it has nothing, and has said nothing.
Placed ==
  /\ spc = "eot" => block = Blocks + 1
  /\ rpc = "start" => /\ spc \in {"start", "hello", "done"}
                      /\ toSender = <<>> /\ size = 0 /\ received = 0

Numbered(w) ==
  \A i \in 1 .. Len(w) : w[i].what \in {"name", "last"} => w[i].no = 0

Sorted(w) ==
  \A i, j \in 1 .. Len(w) :
    i < j /\ w[j].what = "name" => w[i].what # "data"

\* No name comes after a block, so that a file once begun is not begun again.
Ordered ==
  /\ Numbered(toReceiver) /\ Sorted(toReceiver)
  /\ spc \in {"start", "hello", "name"} =>
       file = <<>> /\ ~ Has(toReceiver, "data")
  /\ file # <<>> => ~ Has(toReceiver, "name")

\* The sender is past the end of the file, or has been.
Past ==
  \/ spc \in {"eotC", "last"} \/ sresult = "0"
  \/ Has(toReceiver, "last") \/ rresult = "size"

Ended == faults <= 1 /\ Past => Len(file) = Blocks

Account == IInv /\ Placed /\ Ordered /\ Ended /\ Going

LEMMA Numbers ==
  ASSUME IInv, Placed
  PROVE  /\ Acked \in Nat /\ Given \in Nat /\ Acks(toSender) \in Nat
         /\ Owed \in Nat /\ Owed >= Acked
         /\ Latest \in Int /\ -1 <= Latest /\ Latest <= Blocks + 1
         /\ Latest = Blocks + 1 => Acked = Blocks + 1
         /\ Len(file) \in Nat /\ faults \in Nat
         /\ toReceiver \in Words /\ toSender \in Words
<1>1. /\ toReceiver \in Words /\ toSender \in Words /\ faults \in Nat
      /\ Acks(toSender) \in Nat
  BY Constants, AcksAreFinite DEF IInv, Line
<1>2. Len(file) \in Nat /\ Given \in Nat
  BY DEF IInv, Stored, Given
<1>3. block \in 0 .. Blocks + 1
  BY DEF IInv, Sending
<1>4. Acked \in Nat
  BY <1>3 DEF Acked
<1>5. /\ Latest \in Int /\ -1 <= Latest /\ Latest <= Blocks + 1
      /\ Latest = Blocks + 1 => Acked = Blocks + 1
  BY <1>3, Constants DEF Latest, Acked
<1> QED
  BY <1>1, <1>2, <1>4, <1>5 DEF Owed

(* The sender has not got beyond what the receiver has given it.           *)
LEMMA NotBeyond ==
  ASSUME Account, faults <= 1, Alive, Len(file) < Blocks
  PROVE  Owed <= Blocks + 1
<1> USE DEF Account
<1>1. Given <= Blocks /\ Given \in Nat /\ Owed \in Nat /\ faults \in {0, 1}
  BY Numbers, Constants DEF Given
<1>2. CASE Exact
  BY <1>1, <1>2, Constants DEF Exact
<1>3. CASE Early
  BY <1>1, <1>3, Constants DEF Early
<1>4. CASE Behind
  BY <1>1, <1>4, Constants DEF Behind
<1>5. CASE Closed
  BY <1>1, <1>5, Constants DEF Closed
<1>6. CASE Broken
  BY <1>1, <1>6, Constants DEF Broken, Number
<1> QED
  BY <1>2, <1>3, <1>4, <1>5, <1>6 DEF Going

-----------------------------------------------------------------------------
(* The sender.                                                             *)

\* What it adds to the line, and the account of it.
Says(s) ==
  /\ s \in Words /\ toReceiver' = toReceiver \o s
  /\ \/ s = <<>> /\ Latest' = Latest
     \/ s = <<Byte("C")>> /\ Latest = -1 /\ Latest' = -1
     \/ s = <<Stage(Latest + 1)>> /\ Latest' = Latest + 1
     \/ Has(toSender, "NAK")
  /\ Has(s, "EOT") => Acked' = Blocks + 1

LEMMA SenderTakes ==
  ASSUME IInv, NEW b, SenderReads(b)
  PROVE  /\ toSender # <<>> /\ Head(toSender).what = b
         /\ Acks(toSender) = Acks(toSender') + IF b = "ACK" THEN 1 ELSE 0
         /\ Acks(toSender') \in Nat
         /\ Has(toSender', "NAK") => Has(toSender, "NAK")
         /\ Has(toSender, b)
<1>1. toSender \in Words /\ toSender # <<>> /\ toSender' = Tail(toSender)
  BY DEF IInv, Line, SenderReads
<1>2. Head(toSender).what = b
  BY DEF SenderReads
<1>3. Acks(toSender') \in Nat
  BY <1>1, FirstAndRest, AcksAreFinite
<1> QED
  BY <1>1, <1>2, <1>3, FirstAndRest

(* A sender that has still to do with blocks spends what it takes.         *)
LEMMA SenderPays ==
  ASSUME IInv, Placed, Sender, Alive'
  PROVE  /\ Alive /\ UNCHANGED <<faults, receiver>>
         /\ Owed' <= Owed
         /\ Has(toSender', "NAK") => Has(toSender, "NAK")
         /\ \E s : Says(s)
<1>1. /\ Acked \in Nat /\ Acks(toSender) \in Nat
      /\ toSender \in Words /\ toReceiver \in Words
  BY Numbers
<1>2. spc' # "done" /\ spc' \notin {"eotC", "last"}
  BY DEF Alive
<1>3. \A w \in Words : w \o <<>> = w
  BY ConcatEmptySeq DEF Words
<1>4. <<Byte("C")>> \in Words /\ ~ Has(<<Byte("C")>>, "EOT")
  BY Sayings DEF Control
<1>5. <<>> \in Words /\ ~ Has(<<>>, "EOT") /\ Acks(<<>>) = 0 /\ ~ Has(<<>>, "NAK")
  BY Sayings
<1>6. ASSUME NEW n \in 0 .. Blocks + 1
      PROVE  /\ <<Stage(n)>> \in Words
             /\ Has(<<Stage(n)>>, "EOT") => n = Blocks + 1
  <2>1. Stage(n) \in Symbols /\ (Stage(n).what = "EOT" => n = Blocks + 1)
    BY Stages
  <2>2. Len(<<Stage(n)>>) = 1 /\ <<Stage(n)>>[1] = Stage(n)
    OBVIOUS
  <2> QED
    BY <2>1, <2>2 DEF Words, Has
<1>7. CASE SendStart
  <2>1. /\ spc = "start" /\ spc' = "hello" /\ toSender' = <<>>
        /\ toReceiver' = toReceiver \o <<Byte("C")>>
        /\ UNCHANGED <<faults, receiver>>
    BY <1>7 DEF SendStart, ToReceiver
  <2>2. Says(<<Byte("C")>>)
    BY <1>4, <2>1 DEF Says, Latest
  <2>3. Owed' <= Owed
    BY <1>1, <1>5, <2>1 DEF Owed, Acked
  <2> QED
    BY <1>5, <2>1, <2>2, <2>3 DEF Alive
<1>8. CASE HelloTimeout
  <2>1. /\ spc = "hello" /\ spc' = "hello" /\ toSender' = toSender
        /\ toReceiver' = toReceiver \o <<Byte("C")>>
        /\ UNCHANGED <<faults, receiver>>
    BY <1>2, <1>8 DEF HelloTimeout, ToReceiver, SenderExit
  <2>2. Says(<<Byte("C")>>)
    BY <1>4, <2>1 DEF Says, Latest
  <2>3. Owed' <= Owed
    BY <1>1, <2>1 DEF Owed, Acked
  <2> QED
    BY <2>1, <2>2, <2>3 DEF Alive
<1>9. CASE HelloAnswer
  <2>1. /\ spc = "hello" /\ spc' = "name" /\ toSender' = Tail(toSender)
        /\ toSender # <<>>
        /\ toReceiver' = toReceiver \o Sends("name", 0)
        /\ UNCHANGED <<faults, receiver>>
    BY <1>2, <1>9 DEF HelloAnswer, ToReceiver, SenderExit
  <2>2. Sends("name", 0) = <<Stage(0)>>
    BY DEF Sends, Stage
  <2>3. Latest = -1 /\ Latest' = 0
    BY <2>1 DEF Latest
  <2>4. Says(<<Stage(0)>>)
    <3>1. <<Stage(0)>> \in Words /\ ~ Has(<<Stage(0)>>, "EOT")
      BY <1>6, Constants
    <3>2. Latest + 1 = 0
      BY <2>3
    <3> QED
      BY <2>1, <2>2, <2>3, <3>1, <3>2 DEF Says
  <2>5. /\ Acks(toSender') \in Nat /\ Acks(toSender') <= Acks(toSender)
        /\ Has(toSender', "NAK") => Has(toSender, "NAK")
    BY <1>1, <2>1, FirstAndRest, AcksAreFinite
  <2>6. Owed' <= Owed
    BY <1>1, <2>1, <2>5 DEF Owed, Acked
  <2> QED
    BY <2>1, <2>4, <2>5, <2>6 DEF Alive
<1>10. CASE SenderAdvance
  <2>1. SenderReads(Wants[spc]) /\ spc \in DOMAIN Wants
    BY <1>10 DEF SenderAdvance, SenderReads
  <2>2. spc \in {"name", "nameC", "block", "eot", "eotC", "last"}
    BY <2>1 DEF Wants
  <2>3. /\ spc \in {"name", "nameC", "block"}
        /\ block' = IF spc \in {"nameC", "block"} THEN block + 1 ELSE block
        /\ spc' = CASE spc = "name" -> "nameC"
                    [] spc = "nameC" -> "block"
                    [] spc = "block" -> IF block < Blocks THEN "block"
                                                          ELSE "eot"
        /\ toReceiver' = toReceiver \o Sends(spc', block')
        /\ UNCHANGED <<faults, receiver>>
    BY <1>2, <1>10, <2>2 DEF SenderAdvance, ToReceiver
  <2>4. /\ Acks(toSender') \in Nat
        /\ Acks(toSender) = Acks(toSender')
                              + IF Wants[spc] = "ACK" THEN 1 ELSE 0
        /\ Has(toSender', "NAK") => Has(toSender, "NAK")
    BY <2>1, SenderTakes
  <2>5. CASE spc = "name"
    <3>1. spc' = "nameC" /\ Wants[spc] = "ACK" /\ Sends(spc', block') = <<>>
      BY <2>3, <2>5 DEF Wants, Sends
    <3>2. Says(<<>>)
      BY <1>5, <2>3, <2>5, <3>1 DEF Says, Latest
    <3>3. Owed' <= Owed
      BY <1>1, <2>4, <2>5, <3>1 DEF Owed, Acked
    <3> QED
      BY <2>3, <2>4, <2>5, <3>2, <3>3 DEF Alive
  <2>6. CASE spc = "nameC"
    <3>1. spc' = "block" /\ block = 0 /\ block' = 1 /\ Wants[spc] = "C"
      BY <2>3, <2>6 DEF Wants, IInv, Sending
    <3>2. Sends(spc', block') = <<Stage(1)>>
      BY <3>1, Constants DEF Sends, Stage
    <3>3. Latest = 0 /\ Latest' = 1 /\ Acked' = 1 /\ Acked = 1
      BY <2>6, <3>1 DEF Latest, Acked
    <3>4. Says(<<Stage(1)>>)
      <4>1. <<Stage(1)>> \in Words /\ ~ Has(<<Stage(1)>>, "EOT")
        BY <1>6, Constants
      <4>2. Latest + 1 = 1
        BY <3>3
      <4> QED
        BY <2>3, <3>2, <3>3, <4>1, <4>2 DEF Says
    <3>5. Owed' <= Owed
      BY <1>1, <2>4, <3>1, <3>3 DEF Owed
    <3> QED
      BY <2>3, <2>4, <2>6, <3>4, <3>5 DEF Alive
  <2>7. CASE spc = "block"
    <3>1. /\ block \in 1 .. Blocks /\ block' = block + 1
          /\ spc' = (IF block < Blocks THEN "block" ELSE "eot")
          /\ Wants[spc] = "ACK"
      BY <2>3, <2>7 DEF Wants, IInv, Sending
    <3>2. Sends(spc', block') = <<Stage(block + 1)>>
      BY <3>1, Constants DEF Sends, Stage
    <3>3. /\ Latest = block /\ Latest' = block + 1
          /\ Acked = block /\ Acked' = block + 1
      BY <2>7, <3>1 DEF Latest, Acked
    <3>4. Says(<<Stage(block + 1)>>)
      <4>1. /\ <<Stage(block + 1)>> \in Words
            /\ Has(<<Stage(block + 1)>>, "EOT") => block + 1 = Blocks + 1
        BY <1>6, <3>1, Constants
      <4> QED
        BY <2>3, <3>2, <3>3, <4>1 DEF Says
    <3>5. Owed' <= Owed
      BY <1>1, <2>4, <3>1, <3>3 DEF Owed
    <3> QED
      BY <2>3, <2>4, <2>7, <3>4, <3>5 DEF Alive
  <2> QED
    BY <2>3, <2>5, <2>6, <2>7
<1>11. CASE SenderResend
  <2>1. /\ SenderReads("NAK") /\ UNCHANGED <<spc, block, faults, receiver>>
        /\ toReceiver' = toReceiver \o Sends(spc, block)
    BY <1>11 DEF SenderResend, ToReceiver
  <2>2. /\ Acks(toSender') \in Nat /\ Acks(toSender) = Acks(toSender')
        /\ Has(toSender', "NAK") => Has(toSender, "NAK")
        /\ Has(toSender, "NAK")
    BY <2>1, SenderTakes
  <2>3. Acked' = Acked
    BY <2>1 DEF Acked
  <2>4. spc \in {"name", "block", "eot"}
    BY <1>2, <1>11, <2>1 DEF SenderResend, Repeats
  <2>5. Sends(spc, block) = <<Stage(IF spc = "name" THEN 0 ELSE block)>>
    <3>1. /\ spc = "eot" => block = Blocks + 1
          /\ spc = "block" => block \in 1 .. Blocks
      BY DEF Placed, IInv, Sending
    <3> QED
      BY <2>4, <3>1, Constants DEF Sends, Stage
  <2>6. Says(Sends(spc, block))
    <3>1. (IF spc = "name" THEN 0 ELSE block) \in 0 .. Blocks + 1
      BY Constants DEF IInv, Sending
    <3>2. /\ Sends(spc, block) \in Words
          /\ Has(Sends(spc, block), "EOT")
               => (IF spc = "name" THEN 0 ELSE block) = Blocks + 1
      BY <1>6, <2>5, <3>1
    <3>3. Has(Sends(spc, block), "EOT") => Acked' = Blocks + 1
      BY <2>3, <2>4, <3>2, Constants DEF Acked
    <3> QED
      BY <2>1, <2>2, <3>2, <3>3 DEF Says
  <2>7. Owed' <= Owed
    BY <1>1, <2>2, <2>3 DEF Owed
  <2> QED
    BY <2>1, <2>2, <2>4, <2>6, <2>7 DEF Alive
<1>12. CASE SenderTimeout
  <2>1. UNCHANGED <<spc, block, toSender, toReceiver, faults, receiver>>
    BY <1>2, <1>12 DEF SenderTimeout, SenderExit
  <2>2. Says(<<>>)
    BY <1>1, <1>3, <1>5, <2>1 DEF Says, Latest
  <2>3. Owed' <= Owed
    BY <1>1, <2>1 DEF Owed, Acked
  <2> QED
    BY <2>1, <2>2, <2>3 DEF Alive
<1>13. ~ SenderCancelled /\ ~ SenderGiveUp
  BY <1>2 DEF SenderCancelled, SenderGiveUp, SenderExit
<1> QED
  BY <1>7, <1>8, <1>9, <1>10, <1>11, <1>12, <1>13 DEF Sender

LEMMA FirstOfConcat ==
  ASSUME NEW v \in Words, NEW w \in Words, v # <<>>
  PROVE  /\ v \o w # <<>> /\ Head(v \o w) = Head(v)
         /\ Tail(v \o w) = Tail(v) \o w
<1>1. /\ Tail(v) \in Words /\ Len(v) \in Nat \ {0}
      /\ Len(Tail(v)) = Len(v) - 1 /\ v[1] = Head(v)
      /\ \A i \in 1 .. Len(v) - 1 : Tail(v)[i] = v[i + 1]
  BY FirstAndRest
<1>2. /\ v \o w \in Words /\ Len(w) \in Nat
      /\ Len(v \o w) = Len(v) + Len(w)
      /\ \A i \in 1 .. Len(v) + Len(w) :
           (v \o w)[i] = IF i <= Len(v) THEN v[i] ELSE w[i - Len(v)]
  BY Joined
<1>3. v \o w # <<>>
  BY <1>1, <1>2
<1>4. /\ Tail(v \o w) \in Words /\ (v \o w)[1] = Head(v \o w)
      /\ Len(Tail(v \o w)) = Len(v) + Len(w) - 1
      /\ \A i \in 1 .. Len(v) + Len(w) - 1 : Tail(v \o w)[i] = (v \o w)[i + 1]
  <2> DEFINE u == v \o w
  <2>1. u \in Words /\ u # <<>> /\ Len(u) = Len(v) + Len(w)
    BY <1>2, <1>3
  <2> HIDE DEF u
  <2>2. /\ Tail(u) \in Words /\ u[1] = Head(u) /\ Len(Tail(u)) = Len(u) - 1
        /\ \A i \in 1 .. Len(u) - 1 : Tail(u)[i] = u[i + 1]
    BY <2>1, FirstAndRest
  <2>3. /\ Tail(u) \in Words /\ u[1] = Head(u)
        /\ Len(Tail(u)) = Len(v) + Len(w) - 1
        /\ \A i \in 1 .. Len(v) + Len(w) - 1 : Tail(u)[i] = u[i + 1]
    BY <2>1, <2>2
  <2> QED
    BY <2>3 DEF u
<1>5. Head(v \o w) = Head(v)
  BY <1>1, <1>2, <1>4
<1>6. /\ Tail(v) \o w \in Words
      /\ Len(Tail(v) \o w) = Len(v) - 1 + Len(w)
      /\ \A i \in 1 .. Len(v) - 1 + Len(w) :
           (Tail(v) \o w)[i]
             = IF i <= Len(v) - 1 THEN Tail(v)[i] ELSE w[i - (Len(v) - 1)]
  BY <1>1, Joined
<1>7. ASSUME NEW i \in 1 .. Len(v) + Len(w) - 1
      PROVE  Tail(v \o w)[i] = (Tail(v) \o w)[i]
  <2>1. i + 1 \in 1 .. Len(v) + Len(w) /\ i \in 1 .. Len(v) - 1 + Len(w)
    BY <1>1, <1>2
  <2>2. CASE i <= Len(v) - 1
    <3>1. i \in 1 .. Len(v) - 1 /\ i + 1 <= Len(v)
      BY <1>1, <2>2
    <3> QED
      BY <1>1, <1>2, <1>4, <1>6, <2>1, <2>2, <3>1
  <2>3. CASE ~ (i <= Len(v) - 1)
    <3>1. ~ (i + 1 <= Len(v)) /\ i + 1 - Len(v) = i - (Len(v) - 1)
      BY <1>1, <2>3
    <3> QED
      BY <1>2, <1>4, <1>6, <2>1, <2>3, <3>1
  <2> QED
    BY <2>2, <2>3
<1>8. Tail(v \o w) = Tail(v) \o w
  <2>1. Len(Tail(v \o w)) = Len(Tail(v) \o w)
    BY <1>1, <1>2, <1>4, <1>6
  <2>2. \A i \in 1 .. Len(Tail(v \o w)) : Tail(v \o w)[i] = (Tail(v) \o w)[i]
    BY <1>4, <1>7
  <2> QED
    BY <1>4, <1>6, <2>1, <2>2, SeqEqual DEF Words
<1> QED
  BY <1>3, <1>5, <1>8

LEMMA ChainSaid ==
  ASSUME IInv, Placed, NEW s, Says(s), ~ Has(toSender, "NAK"),
         Latest' <= Blocks + 1,
         NEW w \in Words, NEW from \in Nat, Chain(w, from, Latest)
  PROVE  Chain(w \o s, from, Latest')
<1>1. Latest \in Int /\ -1 <= Latest
  BY Numbers
<1>2. CASE s = <<>> /\ Latest' = Latest
  <2>1. w \o s = w
    BY <1>2, ConcatEmptySeq DEF Words
  <2> QED
    BY <1>2, <2>1
<1>3. CASE s = <<Byte("C")>> /\ Latest = -1 /\ Latest' = -1
  <2>1. from = 0
    <3>1. Len(w) \in Nat
      BY DEF Words
    <3> QED
      BY <1>3, <3>1 DEF Chain
  <2> QED
    BY <1>3, <2>1, ChainOfHellos
<1>4. CASE s = <<Stage(Latest + 1)>> /\ Latest' = Latest + 1
  <2>1. Latest <= Blocks
    BY <1>1, <1>4, Constants
  <2>2. Chain(w \o <<Stage(Latest + 1)>>, from, Latest + 1)
    BY <1>1, <2>1, ChainGrows
  <2> QED
    BY <1>4, <2>2
<1> QED
  BY <1>2, <1>3, <1>4 DEF Says

LEMMA SenderGoes ==
  ASSUME Account, Sender
  PROVE  Going'
<1> SUFFICES ASSUME faults' <= 1, Alive', Len(file') < Blocks
             PROVE  (Exact \/ Early \/ Behind \/ Closed \/ Broken)'
  BY DEF Going
<1>1. IInv /\ Placed
  BY DEF Account
<1>2. /\ Alive /\ UNCHANGED <<faults, receiver>> /\ Owed' <= Owed
      /\ Has(toSender', "NAK") => Has(toSender, "NAK")
  BY <1>1, SenderPays
<1>3. PICK s : Says(s)
  BY <1>1, SenderPays
<1>4. /\ UNCHANGED <<rpc, received, errors, size, file>> /\ Given' = Given
      /\ faults' = faults
  BY <1>2 DEF receiver, Given
<1>5. Exact \/ Early \/ Behind \/ Closed \/ Broken
  BY <1>2, <1>4 DEF Account, Going
<1>6. /\ Acked \in Nat /\ Given \in Nat /\ Owed \in Nat /\ faults \in Nat
      /\ Latest \in Int /\ -1 <= Latest
      /\ toReceiver \in Words /\ s \in Words /\ toReceiver' = toReceiver \o s
  BY <1>1, <1>3, Numbers DEF Says
<1>7. Line' /\ Sending'
  BY <1>1, SenderStep
<1>8. /\ Latest' <= Blocks + 1 /\ Owed' \in Nat /\ Acked' <= Owed'
  <2>1. block' \in 0 .. Blocks + 1
    BY <1>7 DEF Sending
  <2>2. Latest' <= Blocks + 1 /\ Acked' \in Nat
    BY <2>1, Constants DEF Latest, Acked
  <2>3. Acks(toSender') \in Nat
    BY <1>7, AcksAreFinite DEF Line
  <2> QED
    BY <2>2, <2>3 DEF Owed
<1>9. Given <= Blocks
  BY <1>1, <1>4, Constants, Numbers DEF Given
<1>10. CASE Exact
  <2>1. Chain(toReceiver', Given', Latest')
    BY <1>1, <1>3, <1>4, <1>6, <1>8, <1>10, ChainSaid DEF Exact
  <2>2. Owed' <= Given' + faults'
    BY <1>2, <1>4, <1>6, <1>8, <1>10 DEF Exact
  <2> QED
    BY <1>2, <1>4, <1>10, <2>1, <2>2 DEF Exact
<1>11. CASE Early
  <2>1. /\ toReceiver' # <<>> /\ Head(toReceiver') = Head(toReceiver)
        /\ Tail(toReceiver') = Tail(toReceiver) \o s
        /\ Tail(toReceiver) \in Words
    BY <1>6, <1>11, FirstOfConcat, FirstAndRest DEF Early
  <2>2. Chain(Tail(toReceiver'), 0, Latest')
    BY <1>1, <1>3, <1>8, <1>11, <2>1, ChainSaid DEF Early
  <2>3. Owed' <= 0
    BY <1>2, <1>6, <1>8, <1>11 DEF Early
  <2> QED
    BY <1>2, <1>4, <1>11, <2>1, <2>2, <2>3 DEF Early
<1>12. CASE Behind
  <2>1. Owed' <= Given
    BY <1>2, <1>6, <1>8, <1>12 DEF Behind
  <2>2. ~ Has(s, "EOT")
    <3>1. Acked' \in Nat /\ Acked' # Blocks + 1
      <4>1. Acked' <= Blocks /\ Acked' \in Nat
        <5>1. Acked' \in Nat
          BY <1>7, Constants DEF Acked, Sending
        <5> QED
          BY <1>6, <1>8, <1>9, <2>1, <5>1, Constants
      <4> QED
        BY <4>1, Constants
    <3> QED
      BY <1>3, <3>1 DEF Says
  <2>3. ~ Has(toReceiver', "EOT")
    BY <1>6, <1>12, <2>2, Joined DEF Behind
  <2> QED
    BY <1>4, <1>12, <2>1, <2>3 DEF Behind
<1>13. CASE Closed
  <2>1. Owed' <= Given' + faults'
    BY <1>2, <1>4, <1>6, <1>8, <1>13 DEF Closed
  <2> QED
    BY <1>4, <1>13, <2>1 DEF Closed
<1>14. CASE Broken
  <2>1. /\ MaxErrors + 1 - errors \in Nat \ {0} /\ Number \in {0, 1}
        /\ Len(toReceiver) \in Nat /\ Len(s) \in Nat
    BY <1>1, <1>6, <1>14, Constants DEF Broken, IInv, Receiving, Number, Words
  <2>2. toReceiver # <<>>
    BY <1>14, <2>1 DEF Broken
  <2>3. Number' = Number
    BY <1>6, <2>2, FirstOfConcat DEF Number
  <2>4. /\ Len(toReceiver') = Len(toReceiver) + Len(s)
        /\ \A i \in 1 .. Len(toReceiver) : toReceiver'[i] = toReceiver[i]
    BY <1>6, <2>1, Joined
  <2>5. Len(toReceiver') >= Number' + (MaxErrors + 1 - errors')
    BY <1>4, <1>14, <2>1, <2>3, <2>4 DEF Broken
  <2>6. \A i \in 1 .. MaxErrors + 1 - errors' :
          toReceiver'[Number' + i].what = "junk"
    <3>1. \A i \in 1 .. MaxErrors + 1 - errors :
            Number + i \in 1 .. Len(toReceiver)
      BY <1>14, <2>1 DEF Broken
    <3> QED
      BY <1>4, <1>14, <2>3, <2>4, <3>1 DEF Broken
  <2>7. Owed' + Number' <= Given' + 1
    <3>1. Owed + Number <= Given + 1
      BY <1>14 DEF Broken
    <3>2. Owed' + Number <= Given + 1
      <4>1. Owed' <= Owed /\ Owed' \in Nat /\ Owed \in Nat /\ Given \in Nat
        BY <1>2, <1>6, <1>8
      <4>2. Number \in Nat
        BY <2>1
      <4>3. \A a, b, c, n \in Nat : a + n <= c + 1 /\ b <= a => b + n <= c + 1
        OBVIOUS
      <4> QED
        BY <3>1, <4>1, <4>2, <4>3
    <3> QED
      BY <1>4, <2>3, <3>2
  <2> QED
    BY <1>4, <1>14, <2>5, <2>6, <2>7 DEF Broken
<1> QED
  BY <1>5, <1>10, <1>11, <1>12, <1>13, <1>14

(* Where the sender goes, and which packets it sends on the way.           *)
Adds(s) ==
  /\ s \in Words /\ toReceiver' = toReceiver \o s
  /\ \A i \in 1 .. Len(s) : s[i].what \in {"name", "last"} => s[i].no = 0
  /\ Has(s, "name") => spc \in {"hello", "name"} /\ ~ Has(s, "data")
  /\ Has(s, "data") => spc' = "block"
  /\ Has(s, "last") => spc' = "last"

LEMMA PacketAdded ==
  ASSUME IInv, NEW n \in Nat, spc' = "block" => n \in 1 .. Blocks,
         spc' = "name" => spc \in {"hello", "name"},
         ToReceiver(Sends(spc', n))
  PROVE  Adds(Sends(spc', n))
<1> DEFINE s == Sends(spc', n)
<1>1. s \in Words
  BY Sent, Constants
<1>2. CASE s = <<>>
  BY <1>1, <1>2, Sayings DEF Adds, ToReceiver
<1>3. ASSUME s # <<>>
      PROVE  /\ Len(s) = 1
             /\ \/ spc' = "name" /\ s[1] = Packet("name", 0)
                \/ spc' = "block" /\ s[1] = Packet("data", n)
                \/ spc' = "eot" /\ s[1] = Byte("EOT")
                \/ spc' = "last" /\ s[1] = Packet("last", 0)
  BY <1>3 DEF Sends
<1> HIDE DEF s
<1>4. CASE s # <<>>
  <2>1. \A i \in 1 .. Len(s) : i = 1
    <3>1. Len(s) = 1
      BY <1>3, <1>4
    <3> QED
      BY <3>1
  <2>2. /\ \A b : Has(s, b) => b = s[1].what
        /\ s[1].what \in {"name", "last"} => s[1].no = 0
        /\ s[1].what = "name" => spc' = "name"
        /\ s[1].what = "data" => spc' = "block"
        /\ s[1].what = "last" => spc' = "last"
    BY <1>3, <1>4, <2>1 DEF Has, Packet, Byte
  <2>3. Has(s, "name") => ~ Has(s, "data")
    BY <2>2
  <2> QED
    BY <1>1, <2>1, <2>2, <2>3 DEF Adds, ToReceiver, s
<1> QED
  BY <1>2, <1>4 DEF s

LEMMA ControlAdded ==
  ASSUME NEW s \in Words, toReceiver' = toReceiver \o s,
         \A i \in 1 .. Len(s) : s[i].what \in {"C", "CA"}
  PROVE  Adds(s)
<1>1. \A b : Has(s, b) => b \in {"C", "CA"}
  BY DEF Has
<1> QED
  BY <1>1 DEF Adds

LEMMA SenderPasses ==
  ASSUME IInv, Placed, Sender
  PROVE  /\ \E s : Adds(s)
         /\ spc' \in {"start", "hello", "name"}
              => spc \in {"start", "hello", "name"}
         /\ spc' = "eot" => block' = Blocks + 1
         /\ spc' = "eotC" => spc = "eotC" \/ (spc = "eot" /\ Acks(toSender) > 0)
         /\ spc' = "last" => spc \in {"eotC", "last"}
         /\ sresult' = "0" => sresult = "0" \/ spc = "last"
<1>1. toReceiver \in Words /\ toSender \in Words
  BY Numbers
<1>2. ASSUME ToReceiver(<<Byte("C")>>) PROVE Adds(<<Byte("C")>>)
  <2>1. <<Byte("C")>> \in Words
    BY Sayings DEF Control
  <2>2. \A i \in 1 .. Len(<<Byte("C")>>) : <<Byte("C")>>[i].what \in {"C", "CA"}
    BY DEF Byte
  <2> QED
    BY <1>2, <2>1, <2>2, ControlAdded DEF ToReceiver
<1>3. Cancel \in Words /\ \A i \in 1 .. Len(Cancel) : Cancel[i].what = "CA"
  BY Sayings DEF Cancel, Byte
<1>4. ASSUME ToReceiver(Cancel) PROVE Adds(Cancel)
  BY <1>3, <1>4, ControlAdded DEF ToReceiver
<1>5. ASSUME ToReceiver(Cancel \o Cancel) PROVE Adds(Cancel \o Cancel)
  <2>1. /\ Cancel \o Cancel \in Words
        /\ \A c : Has(Cancel \o Cancel, c) => c = "CA"
    BY Sayings, Joined
  <2>2. \A i \in 1 .. Len(Cancel \o Cancel) :
          (Cancel \o Cancel)[i].what \in {"C", "CA"}
    BY <2>1 DEF Has
  <2> QED
    BY <1>5, <2>1, <2>2, ControlAdded DEF ToReceiver
<1>6. ASSUME UNCHANGED toReceiver PROVE Adds(<<>>)
  <2>1. toReceiver' = toReceiver \o <<>> /\ <<>> \in Words
    BY <1>1, <1>6, Sayings, ConcatEmptySeq DEF Words
  <2>2. \A i \in 1 .. Len(<<>>) : <<>>[i].what \in {"C", "CA"}
    OBVIOUS
  <2> QED
    BY <2>1, <2>2, ControlAdded
<1>7. CASE SendStart
  BY <1>2, <1>7 DEF SendStart
<1>8. CASE HelloTimeout
  BY <1>2, <1>4, <1>8 DEF HelloTimeout, SenderExit
<1>9. CASE HelloAnswer
  <2>1. CASE spc' = "name" /\ ToReceiver(Sends("name", 0)) /\ UNCHANGED sresult
    <3>1. Adds(Sends(spc', 0))
      BY <1>9, <2>1, PacketAdded DEF HelloAnswer
    <3> QED
      BY <1>9, <2>1, <3>1 DEF HelloAnswer
  <2>2. CASE SenderExit("99") /\ ToReceiver(Cancel)
    BY <1>4, <2>2 DEF SenderExit
  <2> QED
    BY <1>9, <2>1, <2>2 DEF HelloAnswer
<1>10. CASE SenderAdvance
  <2>1. SenderReads(Wants[spc]) /\ spc \in DOMAIN Wants
    BY <1>10 DEF SenderAdvance, SenderReads
  <2>2. spc \in {"name", "nameC", "block", "eot", "eotC", "last"}
    BY <2>1 DEF Wants
  <2>3. /\ block' = IF spc \in {"nameC", "block"} THEN block + 1 ELSE block
        /\ spc' = CASE spc = "name"  -> "nameC"
                    [] spc = "nameC" -> "block"
                    [] spc = "block" -> IF block < Blocks THEN "block"
                                                          ELSE "eot"
                    [] spc = "eot"   -> "eotC"
                    [] spc = "eotC"  -> "last"
                    [] spc = "last"  -> "done"
        /\ sresult' = IF spc' = "done" THEN "0" ELSE sresult
        /\ ToReceiver(Sends(spc', block'))
    BY <1>10 DEF SenderAdvance
  <2>4. Line' /\ Sending'
    BY SenderStep
  <2>5. Adds(Sends(spc', block'))
    <3>1. /\ block' \in Nat
          /\ spc' = "block" => block' \in 1 .. Blocks
      BY <2>4 DEF Sending
    <3>2. spc' # "name"
      BY <2>2, <2>3
    <3> QED
      BY <2>3, <3>1, <3>2, PacketAdded
  <2>6. spc' = "eotC" => spc = "eot" /\ Acks(toSender) > 0
    <3>1. spc' = "eotC" => spc = "eot" /\ Wants[spc] = "ACK"
      BY <2>2, <2>3 DEF Wants
    <3>2. Wants[spc] = "ACK" => Acks(toSender) > 0
      BY <2>1, SenderTakes
    <3> QED
      BY <3>1, <3>2
  <2>7. spc' = "eot" => block' = Blocks + 1
    <3>1. spc' = "eot" => spc = "block" /\ ~ (block < Blocks)
      BY <2>2, <2>3
    <3>2. spc = "block" => block \in 1 .. Blocks
      BY DEF IInv, Sending
    <3>3. spc = "block" => block' = block + 1
      BY <2>3
    <3> QED
      BY <3>1, <3>2, <3>3, Constants
  <2>8. /\ spc' \notin {"start", "hello", "name"}
        /\ spc' = "last" => spc = "eotC"
        /\ sresult' = "0" => sresult = "0" \/ spc = "last"
    BY <2>2, <2>3
  <2> QED
    BY <2>5, <2>6, <2>7, <2>8
<1>11. CASE SenderResend
  <2>1. /\ UNCHANGED <<spc, block, sresult>>
        /\ ToReceiver(Sends(spc', block'))
    BY <1>11 DEF SenderResend
  <2>2. block' \in Nat /\ (spc' = "block" => block' \in 1 .. Blocks)
    BY <2>1 DEF IInv, Sending
  <2>3. Adds(Sends(spc', block'))
    BY <2>1, <2>2, PacketAdded
  <2> QED
    BY <2>1, <2>3 DEF Placed
<1>12. CASE SenderCancelled
  BY <1>4, <1>5, <1>12 DEF SenderCancelled, SenderExit
<1>13. CASE SenderGiveUp
  BY <1>4, <1>13 DEF SenderGiveUp, SenderExit
<1>14. CASE SenderTimeout
  <2>1. CASE UNCHANGED <<toReceiver, spc, sresult>>
    BY <1>6, <1>14, <2>1 DEF SenderTimeout, Placed
  <2>2. CASE ToReceiver(Cancel) /\ SenderExit("90")
    BY <1>4, <2>2 DEF SenderExit
  <2> QED
    BY <1>14, <2>1, <2>2 DEF SenderTimeout
<1> QED
  BY <1>7, <1>8, <1>9, <1>10, <1>11, <1>12, <1>13, <1>14 DEF Sender

LEMMA SenderAccount ==
  ASSUME Account, Sender
  PROVE  Account'
<1> USE DEF Account
<1>1. IInv'
  BY Inductive DEF Next
<1>2. /\ UNCHANGED <<receiver, faults>>
      /\ UNCHANGED <<rpc, received, size, file, rresult>>
  BY SenderStep DEF Sender, SendStart, HelloTimeout, HelloAnswer, SenderAdvance,
     SenderResend, SenderCancelled, SenderGiveUp, SenderTimeout, receiver
<1>3. /\ \E s : Adds(s)
      /\ spc' \in {"start", "hello", "name"}
              => spc \in {"start", "hello", "name"}
      /\ spc' = "eot" => block' = Blocks + 1
      /\ spc' = "eotC" => spc = "eotC" \/ (spc = "eot" /\ Acks(toSender) > 0)
      /\ spc' = "last" => spc \in {"eotC", "last"}
      /\ sresult' = "0" => sresult = "0" \/ spc = "last"
  BY SenderPasses
<1>4. PICK s : Adds(s)
  BY <1>3
<1>5. /\ toReceiver \in Words /\ s \in Words /\ toReceiver' = toReceiver \o s
      /\ Len(toReceiver) \in Nat /\ Len(s) \in Nat
      /\ Len(toReceiver') = Len(toReceiver) + Len(s)
      /\ \A i \in 1 .. Len(toReceiver) + Len(s) :
           toReceiver'[i] = IF i <= Len(toReceiver) THEN toReceiver[i]
                                               ELSE s[i - Len(toReceiver)]
      /\ \A b : Has(toReceiver', b) => Has(toReceiver, b) \/ Has(s, b)
  BY <1>4, Joined, Numbers DEF Adds
<1>6. Placed'
  <2>1. rpc = "start" => spc \in {"start", "hello", "done"} /\ toSender = <<>>
    BY DEF Placed
  <2>2. ASSUME rpc = "start"
        PROVE  spc' \in {"start", "hello", "done"} /\ toSender' = <<>>
    <3>1. SendStart \/ HelloTimeout
      BY <2>1, <2>2
      DEF Sender, HelloAnswer, SenderAdvance, SenderResend, SenderCancelled,
          SenderGiveUp, SenderReads, SenderTimeout, Wants
    <3> QED
      BY <2>1, <2>2, <3>1 DEF SendStart, HelloTimeout, SenderExit
  <2> QED
    BY <1>2, <1>3, <2>2 DEF Placed
<1>7. Ordered'
  <2>1. \A i \in 1 .. Len(toReceiver') :
          toReceiver'[i].what \in {"name", "last"} => toReceiver'[i].no = 0
    <3> SUFFICES ASSUME NEW i \in 1 .. Len(toReceiver'),
                        toReceiver'[i].what \in {"name", "last"}
                 PROVE  toReceiver'[i].no = 0
      OBVIOUS
    <3>1. CASE i <= Len(toReceiver)
      BY <1>5, <3>1 DEF Ordered, Numbered, Sorted
    <3>2. CASE ~ (i <= Len(toReceiver))
      <4>1. /\ i - Len(toReceiver) \in 1 .. Len(s)
            /\ toReceiver'[i] = s[i - Len(toReceiver)]
        BY <1>5, <3>2
      <4> QED
        BY <1>4, <4>1 DEF Adds
    <3> QED
      BY <3>1, <3>2
  <2>2. ASSUME spc' \in {"start", "hello", "name"}
        PROVE  file' = <<>> /\ ~ Has(toReceiver', "data")
    <3>1. file = <<>> /\ ~ Has(toReceiver, "data")
      BY <1>3, <2>2 DEF Ordered, Numbered, Sorted
    <3>2. ~ Has(s, "data")
      BY <1>4, <2>2 DEF Adds
    <3> QED
      BY <1>2, <1>5, <3>1, <3>2
  <2>3. ASSUME NEW i \in 1 .. Len(toReceiver'), NEW j \in 1 .. Len(toReceiver'),
               i < j, toReceiver'[j].what = "name"
        PROVE  toReceiver'[i].what # "data"
    <3>1. CASE j <= Len(toReceiver)
      <4>1. i \in 1 .. Len(toReceiver) /\ j \in 1 .. Len(toReceiver)
        BY <1>5, <2>3, <3>1
      <4>2. toReceiver'[i] = toReceiver[i] /\ toReceiver'[j] = toReceiver[j]
        BY <1>5, <4>1
      <4> QED
        BY <2>3, <4>1, <4>2 DEF Ordered, Numbered, Sorted
    <3>2. CASE ~ (j <= Len(toReceiver))
      <4>1. /\ j - Len(toReceiver) \in 1 .. Len(s)
            /\ toReceiver'[j] = s[j - Len(toReceiver)]
        BY <1>5, <3>2
      <4>2. Has(s, "name")
        BY <2>3, <4>1 DEF Has
      <4>3. ~ Has(toReceiver, "data") /\ ~ Has(s, "data")
        BY <1>4, <4>2 DEF Adds, Ordered, Numbered, Sorted
      <4>4. ~ Has(toReceiver', "data")
        BY <1>5, <4>3
      <4> QED
        BY <2>3, <4>4 DEF Has
    <3> QED
      BY <3>1, <3>2
  <2>4. ASSUME file' # <<>> PROVE ~ Has(toReceiver', "name")
    <3>1. ~ Has(toReceiver, "name")
      BY <1>2, <2>4 DEF Ordered, Numbered, Sorted
    <3>2. ~ Has(s, "name")
      BY <1>2, <1>4, <2>4 DEF Adds, Ordered, Numbered, Sorted
    <3> QED
      BY <1>5, <3>1, <3>2
  <2> QED
    BY <2>1, <2>2, <2>3, <2>4 DEF Ordered, Numbered, Sorted
<1>8. Ended'
  <2> SUFFICES ASSUME faults' <= 1, Past' PROVE Len(file') = Blocks
    BY DEF Ended
  <2>1. Past \/ (spc = "eot" /\ Acks(toSender) > 0)
    <3>1. Has(toReceiver', "last") => Has(toReceiver, "last") \/ spc' = "last"
      BY <1>4, <1>5 DEF Adds
    <3> QED
      BY <1>2, <1>3, <3>1 DEF Past
  <2>2. CASE Past
    BY <1>2, <2>2 DEF Ended
  <2>3. CASE spc = "eot" /\ Acks(toSender) > 0
    <3>1. Acked = Blocks + 1
      BY <2>3 DEF Placed, Acked
    <3>2. Acks(toSender) \in Nat /\ Len(file) \in Nat
      BY Numbers
    <3>3. ~ (Owed <= Blocks + 1)
      BY <2>3, <3>1, <3>2, Constants DEF Owed
    <3>4. ~ (Len(file) < Blocks)
      BY <1>2, <2>3, <3>3, NotBeyond DEF Alive
    <3> QED
      BY <1>2, <3>2, <3>4, Constants DEF IInv, Stored
  <2> QED
    BY <2>1, <2>2, <2>3
<1>9. Going'
  BY SenderGoes
<1> QED
  BY <1>1, <1>6, <1>7, <1>8, <1>9

-----------------------------------------------------------------------------
(* What is put in the place of the first symbol of a word is no packet.    *)

Plain(p) == \A i \in 1 .. Len(p) : p[i].what \notin Packets

LEMMA Replaced ==
  ASSUME NEW w \in Words, w # <<>>, NEW p \in Words, Plain(p)
  PROVE  /\ \A b \in Packets : Has(p \o Tail(w), b) => Has(w, b)
         /\ Numbered(w) => Numbered(p \o Tail(w))
         /\ Sorted(w) => Sorted(p \o Tail(w))
<1> DEFINE v == p \o Tail(w)
           k == Len(p)
<1>1. /\ Tail(w) \in Words /\ Len(w) \in Nat \ {0}
      /\ Len(Tail(w)) = Len(w) - 1
      /\ \A i \in 1 .. Len(w) - 1 : Tail(w)[i] = w[i + 1]
  BY FirstAndRest
<1>2. /\ k \in Nat /\ Len(v) = k + (Len(w) - 1)
      /\ \A i \in 1 .. k + (Len(w) - 1) :
           v[i] = IF i <= k THEN p[i] ELSE Tail(w)[i - k]
  BY <1>1, Joined
<1> HIDE DEF v
<1>3. ASSUME NEW i \in 1 .. Len(v), v[i].what \in Packets
      PROVE  /\ i > k /\ i - k \in 1 .. Len(w) - 1
             /\ (i - k) + 1 \in 1 .. Len(w) /\ v[i] = w[(i - k) + 1]
  <2>1. i > k
    BY <1>2, <1>3 DEF Plain
  <2>2. i - k \in 1 .. Len(w) - 1
    BY <1>1, <1>2, <2>1
  <2>3. v[i] = Tail(w)[i - k]
    BY <1>2, <2>1
  <2>4. (i - k) + 1 \in 1 .. Len(w)
    BY <1>1, <2>2
  <2> QED
    BY <1>1, <2>1, <2>2, <2>3, <2>4
<1>4. \A b \in Packets : Has(v, b) => Has(w, b)
  BY <1>3 DEF Has
<1>5. Numbered(w) => Numbered(v)
  BY <1>3 DEF Numbered, Packets
<1>6. ASSUME Sorted(w) PROVE Sorted(v)
  <2> SUFFICES ASSUME NEW i \in 1 .. Len(v), NEW j \in 1 .. Len(v), i < j,
                      v[j].what = "name", v[i].what = "data"
               PROVE  FALSE
    BY DEF Sorted
  <2>1. v[i] = w[(i - k) + 1] /\ (i - k) + 1 \in 1 .. Len(w)
    BY <1>3 DEF Packets
  <2>2. v[j] = w[(j - k) + 1] /\ (j - k) + 1 \in 1 .. Len(w)
    BY <1>3 DEF Packets
  <2>3. (i - k) + 1 < (j - k) + 1
    BY <1>2
  <2> QED
    BY <1>6, <2>1, <2>2, <2>3 DEF Sorted
<1> QED
  BY <1>4, <1>5, <1>6 DEF v

LEMMA NothingFirst ==
  ASSUME NEW w \in Words, w # <<>>
  PROVE  /\ <<>> \in Words /\ Plain(<<>>) /\ <<>> \o Tail(w) = Tail(w)
         /\ Sorted(w) /\ Head(w).what = "data" => ~ Has(Tail(w), "name")
<1>1. /\ Tail(w) \in Words /\ Len(w) \in Nat \ {0} /\ w[1] = Head(w)
      /\ Len(Tail(w)) = Len(w) - 1
      /\ \A i \in 1 .. Len(w) - 1 : Tail(w)[i] = w[i + 1]
  BY FirstAndRest
<1>2. <<>> \in Words /\ Plain(<<>>) /\ <<>> \o Tail(w) = Tail(w)
  BY <1>1, ConcatEmptySeq DEF Plain, Words
<1>3. ASSUME Sorted(w), Head(w).what = "data", Has(Tail(w), "name") PROVE FALSE
  <2>1. PICK i \in 1 .. Len(Tail(w)) : Tail(w)[i].what = "name"
    BY <1>3 DEF Has
  <2>2. /\ i + 1 \in 1 .. Len(w) /\ 1 \in 1 .. Len(w) /\ 1 < i + 1
        /\ w[i + 1].what = "name"
    BY <1>1, <2>1
  <2> QED
    BY <1>1, <1>3, <2>2 DEF Sorted
<1> QED
  BY <1>2, <1>3

(* A packet that falls apart.                                              *)
LEMMA Apart ==
  ASSUME NEW w \in Words, w # <<>>, NEW v \in Shift(w)
  PROVE  /\ \E p \in Words : Plain(p) /\ v = p \o Tail(w)
         /\ v \in Words /\ v # <<>> /\ Head(v) = v[1]
         /\ v[1].what \in {"EOT", "junk"}
         /\ Len(v) \in Nat /\ Len(v) >= MaxErrors + 2
         /\ \A i \in 2 .. MaxErrors + 2 : v[i].what = "junk"
<1> DEFINE junk == [i \in 1 .. MaxErrors + 1 |-> Byte("junk")]
<1>1. PICK b \in {"EOT", "junk"} : v = (<<Byte(b)>> \o junk) \o Tail(w)
  BY DEF Shift
<1>2. /\ <<Byte(b)>> \in Words /\ Len(<<Byte(b)>>) = 1
      /\ <<Byte(b)>>[1].what = b
  BY Bytes DEF Control, Byte
<1>3. junk \in Words /\ Len(junk) = MaxErrors + 1
  <2>1. Byte("junk") \in Symbols /\ MaxErrors + 1 \in Nat
    BY Constants DEF Byte, Symbols, Control
  <2> QED
    BY <2>1 DEF Words
<1>4. \A i \in 1 .. MaxErrors + 1 : junk[i].what = "junk"
  BY DEF Byte
<1> HIDE DEF junk
<1> DEFINE p == <<Byte(b)>> \o junk
<1>5. /\ p \in Words /\ Len(p) = MaxErrors + 2
      /\ \A i \in 1 .. MaxErrors + 2 :
           p[i] = IF i <= 1 THEN <<Byte(b)>>[i] ELSE junk[i - 1]
  <2> DEFINE a == <<Byte(b)>>
  <2>1. a \in Words /\ Len(a) = 1
    BY <1>2
  <2> HIDE DEF a
  <2>2. /\ a \o junk \in Words /\ Len(a \o junk) = Len(a) + Len(junk)
        /\ \A i \in 1 .. Len(a) + Len(junk) :
             (a \o junk)[i] = IF i <= Len(a) THEN a[i] ELSE junk[i - Len(a)]
    BY <1>3, <2>1, Joined
  <2>3. Len(a) + Len(junk) = MaxErrors + 2
    BY <1>3, <2>1, Constants
  <2>4. /\ a \o junk \in Words /\ Len(a \o junk) = MaxErrors + 2
        /\ \A i \in 1 .. MaxErrors + 2 :
             (a \o junk)[i] = IF i <= 1 THEN a[i] ELSE junk[i - 1]
    BY <2>1, <2>2, <2>3
  <2> QED
    BY <2>4 DEF a
<1> HIDE DEF p
<1>6. /\ p[1].what = b
      /\ \A i \in 2 .. MaxErrors + 2 : p[i].what = "junk"
  BY <1>2, <1>4, <1>5, Constants
<1>7. Plain(p)
  <2>1. \A i \in 1 .. MaxErrors + 2 : p[i].what \in {"EOT", "junk"}
    BY <1>6, Constants
  <2> QED
    BY <1>5, <2>1 DEF Plain, Packets
<1>8. v = p \o Tail(w) /\ Tail(w) \in Words
  BY <1>1, Taken DEF p
<1>9. /\ v \in Words /\ Len(Tail(w)) \in Nat
      /\ Len(v) = (MaxErrors + 2) + Len(Tail(w))
      /\ \A i \in 1 .. (MaxErrors + 2) + Len(Tail(w)) :
           v[i] = IF i <= MaxErrors + 2 THEN p[i] ELSE Tail(w)[i - Len(p)]
  <2> DEFINE u == Tail(w)
  <2>1. u \in Words
    BY <1>8
  <2> HIDE DEF u
  <2>2. /\ p \o u \in Words /\ Len(u) \in Nat
        /\ Len(p \o u) = Len(p) + Len(u)
        /\ \A i \in 1 .. Len(p) + Len(u) :
             (p \o u)[i] = IF i <= Len(p) THEN p[i] ELSE u[i - Len(p)]
    BY <1>5, <2>1, Joined
  <2>3. v = p \o u /\ Len(p) = MaxErrors + 2
    BY <1>5, <1>8 DEF u
  <2>4. /\ v \in Words /\ Len(u) \in Nat
        /\ Len(v) = (MaxErrors + 2) + Len(u)
        /\ \A i \in 1 .. (MaxErrors + 2) + Len(u) :
             v[i] = IF i <= MaxErrors + 2 THEN p[i] ELSE u[i - Len(p)]
    BY <2>2, <2>3
  <2> QED
    BY <2>4 DEF u
<1>10. v # <<>> /\ Len(v) \in Nat /\ Len(v) >= MaxErrors + 2
  <2>1. Len(v) \in Nat /\ Len(v) >= MaxErrors + 2
    BY <1>9, Constants
  <2> QED
    BY <2>1, Constants
<1>11. \A i \in 1 .. MaxErrors + 2 : v[i] = p[i]
  BY <1>9, Constants
<1>12. /\ v[1].what \in {"EOT", "junk"}
       /\ \A i \in 2 .. MaxErrors + 2 : v[i].what = "junk"
  BY <1>6, <1>11, Constants
<1>13. Head(v) = v[1]
  BY <1>9, <1>10, FirstAndRest
<1> QED
  BY <1>5, <1>7, <1>8, <1>9, <1>10, <1>12, <1>13

(* It breaks the receiver's session.                                       *)
LEMMA Breaks ==
  ASSUME Receiving', toReceiver # <<>>, toReceiver \in Words,
         toReceiver' \in Shift(toReceiver),
         rpc' = "packet", faults' = 1, Owed' \in Nat, Given' \in Nat,
         Owed' <= Given'
  PROVE  Broken'
<1>1. /\ toReceiver' # <<>> /\ Head(toReceiver') = toReceiver'[1]
      /\ toReceiver'[1].what \in {"EOT", "junk"}
      /\ Len(toReceiver') \in Nat /\ Len(toReceiver') >= MaxErrors + 2
      /\ \A i \in 2 .. MaxErrors + 2 : toReceiver'[i].what = "junk"
  BY Apart
<1>2. errors' \in 0 .. MaxErrors
  BY Constants DEF Receiving
<1>3. \/ toReceiver'[1].what = "EOT" /\ Number' = 1
      \/ toReceiver'[1].what = "junk" /\ Number' = 0
  BY <1>1 DEF Number
<1>4. Len(toReceiver') >= Number' + (MaxErrors + 1 - errors')
  BY <1>1, <1>2, <1>3, Constants
<1>5. ASSUME NEW i \in 1 .. MaxErrors + 1 - errors'
      PROVE  toReceiver'[Number' + i].what = "junk"
  <2>1. i \in 1 .. MaxErrors + 1 /\ i + 1 \in 2 .. MaxErrors + 2
    <3>1. \A e \in 0 .. MaxErrors : \A j \in 1 .. MaxErrors + 1 - e :
            j \in 1 .. MaxErrors + 1 /\ j + 1 \in 2 .. MaxErrors + 2
      BY Constants
    <3> QED
      BY <1>2, <3>1
  <2>2. CASE Number' = 1
    <3>1. Number' + i = i + 1
      BY <2>1, <2>2
    <3> QED
      BY <1>1, <2>1, <3>1
  <2>3. CASE Number' = 0
    <3>1. Number' + i = i /\ (i # 1 => i \in 2 .. MaxErrors + 2)
      BY <2>1, <2>3, Constants
    <3> QED
      BY <1>1, <1>3, <2>3, <3>1
  <2> QED
    BY <1>3, <2>2, <2>3
<1>6. Owed' + Number' <= Given' + 1
  BY <1>3
<1> QED
  BY <1>4, <1>5, <1>6 DEF Broken

-----------------------------------------------------------------------------
(* The receiver.                                                           *)

\* What it says, and what that adds to the account.
LEMMA Answer ==
  ASSUME IInv, Placed, UNCHANGED <<sender, faults>>, NEW w \in Words, ToSender(w)
  PROVE  /\ Owed' = Owed + Acks(w) /\ Acked' = Acked /\ Latest' = Latest
         /\ Has(toSender', "NAK") => Has(toSender, "NAK") \/ Has(w, "NAK")
<1>1. Acked' = Acked /\ Latest' = Latest /\ Acked \in Nat /\ toSender \in Words
  BY Numbers DEF Acked, Latest, sender
<1>2. toSender' = toSender \o w
  BY DEF ToSender
<1>3. /\ Acks(toSender') = Acks(toSender) + Acks(w)
      /\ Acks(toSender) \in Nat /\ Acks(w) \in Nat
      /\ Has(toSender', "NAK") => Has(toSender, "NAK") \/ Has(w, "NAK")
  BY <1>1, <1>2, Joined
<1> QED
  BY <1>1, <1>3 DEF Owed

LEMMA Quiet ==
  ASSUME UNCHANGED <<sender, toSender>>
  PROVE  Owed' = Owed /\ Acked' = Acked /\ Latest' = Latest
BY DEF Owed, Acked, Latest, sender

LEMMA Complains ==
  ASSUME IInv, Placed, UNCHANGED <<sender, faults>>, rpc # "done",
         NEW b \in {"C", "NAK"}, Complain(b)
  PROVE  /\ Owed' = Owed /\ Latest' = Latest /\ Given' = Given
         /\ UNCHANGED <<received, size, file>>
         /\ Has(toSender', "NAK") => Has(toSender, "NAK") \/ b = "NAK"
         /\ errors' = errors + 1
         /\ \/ rpc' = "done"
            \/ rpc' = "packet" /\ errors + 1 <= MaxErrors
         /\ rresult' = "size" => rresult = "size"
<1>1. /\ UNCHANGED <<received, size, file>> /\ errors' = errors + 1
      /\ \/ rpc' = "done" /\ rresult' = "0" /\ ToSender(Cancel)
         \/ /\ rpc' = "packet" /\ ~ (errors + 1 > MaxErrors)
            /\ UNCHANGED rresult /\ ToSender(<<Byte(b)>>)
  BY DEF Complain, ReceiverExit
<1>2. errors + 1 \in Nat /\ MaxErrors \in Nat
  BY Constants DEF IInv, Receiving
<1>3. Given' = Given
  BY <1>1 DEF Given
<1>4. Owed \in Nat
  BY Numbers
<1>5. CASE ToSender(Cancel)
  <2>1. /\ Owed' = Owed + Acks(Cancel) /\ Latest' = Latest
        /\ Has(toSender', "NAK") => Has(toSender, "NAK") \/ Has(Cancel, "NAK")
    BY <1>5, Sayings, Answer
  <2> QED
    BY <1>1, <1>2, <1>3, <1>4, <2>1, Sayings
<1>6. CASE ToSender(<<Byte(b)>>)
  <2>1. /\ <<Byte(b)>> \in Words /\ Acks(<<Byte(b)>>) = 0
        /\ Has(<<Byte(b)>>, "NAK") => b = "NAK"
    BY Sayings DEF Control
  <2>2. /\ Owed' = Owed + Acks(<<Byte(b)>>) /\ Latest' = Latest
        /\ Has(toSender', "NAK")
             => Has(toSender, "NAK") \/ Has(<<Byte(b)>>, "NAK")
    BY <1>6, <2>1, Answer
  <2> QED
    BY <1>1, <1>2, <1>3, <1>4, <2>1, <2>2
<1> QED
  BY <1>1, <1>5, <1>6

LEMMA Refuses ==
  ASSUME IInv, Placed, UNCHANGED <<sender, faults>>, NEW code, Refuse(code)
  PROVE  /\ Owed' = Owed /\ Given' = Given /\ rpc' = "done"
         /\ UNCHANGED <<size, file>> /\ rresult' = code
<1>1. /\ ToSender(Cancel) /\ UNCHANGED <<size, file>> /\ rpc' = "done"
      /\ rresult' = code
  BY DEF Refuse, ReceiverExit
<1>2. Owed' = Owed + Acks(Cancel) /\ Owed \in Nat
  BY <1>1, Sayings, Answer, Numbers
<1> QED
  BY <1>1, <1>2, Sayings DEF Given

\* An acknowledgement, with or without a 'C'.
LEMMA Acknowledges ==
  ASSUME IInv, Placed, UNCHANGED <<sender, faults>>,
         \/ ToSender(<<Byte("ACK")>>)
         \/ ToSender(<<Byte("ACK"), Byte("C")>>)
  PROVE  /\ Owed' = Owed + 1 /\ Latest' = Latest
         /\ Has(toSender', "NAK") => Has(toSender, "NAK")
<1>1. /\ <<Byte("ACK")>> \in Words /\ Acks(<<Byte("ACK")>>) = 1
      /\ ~ Has(<<Byte("ACK")>>, "NAK")
  BY Sayings DEF Control
<1>2. /\ <<Byte("ACK"), Byte("C")>> \in Words
      /\ Acks(<<Byte("ACK"), Byte("C")>>) = 1
      /\ ~ Has(<<Byte("ACK"), Byte("C")>>, "NAK")
  BY Sayings
<1>3. CASE ToSender(<<Byte("ACK")>>)
  BY <1>1, <1>3, Answer
<1>4. CASE ToSender(<<Byte("ACK"), Byte("C")>>)
  BY <1>2, <1>4, Answer
<1> QED
  BY <1>3, <1>4

(* Whatever the receiver does, the line behind the first symbol stays.     *)
LEMMA ReceiverLine ==
  ASSUME IInv, Receiver
  PROVE  /\ \/ toReceiver' = <<>>
            \/ toReceiver' = toReceiver
            \/ /\ toReceiver # <<>>
               /\ \E p \in Words : Plain(p) /\ toReceiver' = p \o Tail(toReceiver)
         /\ faults' = faults /\ rpc' # "start"
         /\ rresult' = "size" => rresult = "size" \/ Has(toReceiver, "last")
<1>1. toReceiver \in Words
  BY DEF IInv, Line
<1>2. ASSUME NEW ss, ReceiverReads(ss)
      PROVE  /\ toReceiver # <<>>
             /\ \E p \in Words : Plain(p) /\ toReceiver' = p \o Tail(toReceiver)
  BY <1>1, <1>2, NothingFirst DEF ReceiverReads
<1>3. ASSUME NEW b, Complain(b)
      PROVE  rpc' # "start" /\ (rresult' = "size" => rresult = "size")
  BY <1>3 DEF Complain, ReceiverExit
<1>4. ASSUME NEW b, b # "size", Refuse(b)
      PROVE  rpc' # "start" /\ rresult' # "size"
  BY <1>4 DEF Refuse, ReceiverExit
<1>5. CASE ReceiveStart
  BY <1>5 DEF ReceiveStart
<1>6. CASE ReceiveTimeout
  BY <1>3, <1>6 DEF ReceiveTimeout
<1>7. CASE ReceiveBad
  BY <1>2, <1>3, <1>7 DEF ReceiveBad
<1>8. CASE ReceiveSplit
  BY <1>1, <1>3, <1>8, Apart DEF ReceiveSplit
<1>9. CASE ReceiveCA
  BY <1>2, <1>9 DEF ReceiveCA
<1>10. CASE ReceiveCancel
  BY <1>2, <1>10 DEF ReceiveCancel, ReceiverExit
<1>11. CASE ReceiveAbort
  BY <1>2, <1>4, <1>11 DEF ReceiveAbort
<1>12. CASE ReceiveEOT
  BY <1>2, <1>12 DEF ReceiveEOT
<1>13. CASE ReceiveOther
  BY <1>2, <1>3, <1>13 DEF ReceiveOther
<1>14. CASE ReceiveName
  <2>1. faults' = faults /\ rpc = "packet" /\ ReceiverReads({"name"})
    BY <1>14 DEF ReceiveName
  <2>2. rpc' # "start" /\ (rresult' = "size" => rresult = "size")
    BY <1>4, <1>14, <2>1 DEF ReceiveName
  <2> QED
    BY <1>2, <2>1, <2>2
<1>15. CASE ReceiveLast
  <2>1. /\ ReceiverReads({"last"}) /\ faults' = faults /\ rpc' = "done"
    BY <1>15 DEF ReceiveLast, ReceiverExit
  <2>2. Has(toReceiver, "last")
    BY <1>1, <2>1, FirstAndRest DEF ReceiverReads
  <2> QED
    BY <1>2, <2>1, <2>2
<1>16. CASE ReceiveData
  <2>1. faults' = faults /\ rpc = "packet" /\ ReceiverReads(Packets)
    BY <1>16 DEF ReceiveData
  <2>2. rpc' # "start" /\ (rresult' = "size" => rresult = "size")
    BY <1>4, <1>16, <2>1 DEF ReceiveData
  <2> QED
    BY <1>2, <2>1, <2>2
<1> QED
  BY <1>5, <1>6, <1>7, <1>8, <1>9, <1>10, <1>11, <1>12, <1>13, <1>14, <1>15,
     <1>16
  DEF Receiver

(* What it writes.                                                         *)
LEMMA Written ==
  ASSUME IInv, Numbered(toReceiver), Receiver
  PROVE  \/ UNCHANGED <<file, size>>
         \/ file' = <<>> /\ Has(toReceiver, "name")
         \/ /\ Len(file) < Blocks
            /\ file' = Append(file, Len(file) + 1)
            /\ toReceiver # <<>> /\ Head(toReceiver).what = "data"
            /\ toReceiver' = Tail(toReceiver)
<1>1. toReceiver \in Words
  BY DEF IInv, Line
<1>2. CASE ReceiveName
  <2>1. Has(toReceiver, "name")
    BY <1>1, <1>2, FirstAndRest DEF ReceiveName, ReceiverReads
  <2> QED
    BY <1>2, <2>1 DEF ReceiveName, Refuse
<1>3. CASE ReceiveData
  <2>1. /\ toReceiver # <<>> /\ Head(toReceiver).what \in Packets
        /\ toReceiver' = Tail(toReceiver) /\ Expected /\ received > 0
    BY <1>3 DEF ReceiveData, ReceiverReads
  <2>2. CASE Len(file) < size
    <3>1. /\ Head(toReceiver).no = Len(file) + 1 /\ size = Blocks
          /\ Len(file) \in Nat
      BY <2>1, <2>2, NextBlock DEF IInv, Stored
    <3>2. toReceiver[1] = Head(toReceiver) /\ 1 \in 1 .. Len(toReceiver)
      BY <1>1, <2>1, FirstAndRest
    <3>3. Head(toReceiver).what \notin {"name", "last"}
      BY <3>1, <3>2 DEF Numbered
    <3> QED
      BY <1>3, <2>1, <2>2, <3>1, <3>3 DEF ReceiveData, Refuse, Packets
  <2>3. CASE ~ (Len(file) < size)
    BY <1>3, <2>3 DEF ReceiveData, Refuse
  <2> QED
    BY <2>2, <2>3
<1> QED
  BY <1>2, <1>3
  DEF Receiver, ReceiveStart, ReceiveTimeout, ReceiveBad, ReceiveSplit, ReceiveCA,
      ReceiveCancel, ReceiveAbort, ReceiveEOT, ReceiveOther, ReceiveLast, Complain,
      Refuse

(* Which of its steps the first symbol allows.                             *)
LEMMA Readings ==
  ASSUME Receiver, rpc = "packet", toReceiver # <<>>
  PROVE  /\ Head(toReceiver).what = "EOT" => ReceiveEOT
         /\ Head(toReceiver).what \in {"C", "junk"} => ReceiveBad
         /\ Head(toReceiver).what = "name" /\ Expected /\ received = 0
              => ReceiveName
         /\ Head(toReceiver).what = "data" /\ Expected /\ received > 0
              => ReceiveData
<1>1. ~ ReceiveStart /\ ~ ReceiveTimeout /\ ~ ReceiveSplit /\ ~ ReceiveCancel
  BY DEF ReceiveStart, ReceiveTimeout, ReceiveSplit, ReceiveCancel
<1>2. CASE Head(toReceiver).what = "EOT"
  BY <1>1, <1>2
  DEF Receiver, ReceiverReads, ReceiveBad, ReceiveCA, ReceiveAbort, ReceiveOther,
      ReceiveName, ReceiveLast, ReceiveData, Packets
<1>3. CASE Head(toReceiver).what \in {"C", "junk"}
  BY <1>1, <1>3
  DEF Receiver, ReceiverReads, ReceiveCA, ReceiveAbort, ReceiveEOT, ReceiveOther,
      ReceiveName, ReceiveLast, ReceiveData, Packets
<1>4. CASE Head(toReceiver).what = "name" /\ Expected /\ received = 0
  BY <1>1, <1>4
  DEF Receiver, ReceiverReads, ReceiveBad, ReceiveCA, ReceiveAbort, ReceiveEOT,
      ReceiveOther, ReceiveLast, ReceiveData
<1>5. CASE Head(toReceiver).what = "data" /\ Expected /\ received > 0
  BY <1>1, <1>5
  DEF Receiver, ReceiverReads, ReceiveBad, ReceiveCA, ReceiveAbort, ReceiveEOT,
      ReceiveOther, ReceiveName, ReceiveLast
<1> QED
  BY <1>2, <1>3, <1>4, <1>5

(* A packet that is new is given an acknowledgement, and counted.          *)
LEMMA Gives ==
  ASSUME IInv, Placed, UNCHANGED <<sender, faults>>,
         ReceiveName \/ (ReceiveData /\ Len(file) < Blocks)
  PROVE  \/ /\ Owed' = Owed + 1 /\ Given' = Given + 1 /\ received' = Given'
            /\ Latest' = Latest /\ rpc' = "packet"
            /\ Has(toSender', "NAK") => Has(toSender, "NAK")
         \/ rpc' = "done" /\ Owed' = Owed /\ Given' = Given
         \/ ReceiveName /\ Given > 0
<1>1. rpc = "packet" /\ Len(file) \in Nat
  BY DEF ReceiveName, ReceiveData, IInv, Stored
<1>2. CASE ReceiveName
  <2>1. CASE \E code \in {"-4", "-2"} : Refuse(code)
    BY <2>1, Refuses
  <2>2. CASE /\ ToSender(<<Byte("ACK"), Byte("C")>>)
             /\ size' = Blocks /\ file' = <<>>
             /\ received' = 1 /\ errors' = 0
             /\ UNCHANGED <<rpc, rresult>>
    <3>1. /\ Owed' = Owed + 1 /\ Latest' = Latest
          /\ Has(toSender', "NAK") => Has(toSender, "NAK")
      BY <2>2, Acknowledges
    <3>2. Given' = 1
      BY <2>2, Constants DEF Given
    <3>3. Given = 0 \/ Given > 0
      BY <1>1 DEF Given
    <3> QED
      BY <1>1, <1>2, <2>2, <3>1, <3>2, <3>3
  <2> QED
    BY <1>2, <2>1, <2>2 DEF ReceiveName
<1>3. CASE ReceiveData /\ Len(file) < Blocks
  <2>1. /\ toReceiver # <<>> /\ Expected /\ received > 0
    BY <1>3 DEF ReceiveData, ReceiverReads
  <2>2. size = Blocks /\ Len(file) < size /\ size # 0
    BY <1>3, <2>1, Constants DEF IInv, Stored
  <2>3. Head(toReceiver).no = Len(file) + 1 /\ received = Len(file) + 1
    BY <2>1, <2>2, NextBlock
  <2>4. CASE Refuse("1")
    BY <2>4, Refuses
  <2>5. CASE /\ ToSender(<<Byte("ACK")>>)
             /\ file' = IF Len(file) < size
                        THEN Append(file, Head(toReceiver).no) ELSE file
             /\ received' = received + 1 /\ errors' = 0
             /\ UNCHANGED <<rpc, size, rresult>>
    <3>1. /\ Owed' = Owed + 1 /\ Latest' = Latest
          /\ Has(toSender', "NAK") => Has(toSender, "NAK")
      BY <2>5, Acknowledges
    <3>2. Len(file') = Len(file) + 1
      <4>1. /\ file \in Seq(0 .. Blocks)
            /\ file' = Append(file, Head(toReceiver).no)
        BY <2>2, <2>5 DEF IInv, Stored
      <4> QED
        BY <4>1
    <3>3. Given = Len(file) + 1 /\ Given' = Len(file') + 1
      BY <2>2, <2>5 DEF Given
    <3> QED
      BY <1>1, <2>3, <2>5, <3>1, <3>2, <3>3
  <2> QED
    BY <1>3, <2>4, <2>5 DEF ReceiveData
<1> QED
  BY <1>2, <1>3

LEMMA StartsExact ==
  ASSUME Account, ReceiveStart, Alive, faults <= 1
  PROVE  Exact'
<1>1. /\ UNCHANGED <<sender, toSender, faults, received, size, file>>
      /\ rpc = "start" /\ rpc' = "packet" /\ toReceiver' = <<>>
  BY DEF ReceiveStart
<1>2. /\ toSender = <<>> /\ size = 0 /\ received = 0
      /\ spc \in {"start", "hello"}
  BY <1>1 DEF Account, Placed, Alive
<1>3. Given' = 0 /\ Latest' = -1
  BY <1>1, <1>2 DEF Given, Latest, sender
<1>4. Owed = 0 /\ Owed' = Owed
  BY <1>1, <1>2, Quiet, Sayings DEF Owed, Acked
<1>5. faults' \in Nat
  BY <1>1, Constants DEF Account, IInv, Line
<1>6. Chain(toReceiver', Given', Latest')
  BY <1>1, <1>3, ChainOfNone
<1>7. ~ Has(toSender', "NAK")
  BY <1>1, <1>2, Sayings
<1>8. Owed' <= Given' + faults'
  <2>1. Owed' = 0
    BY <1>4
  <2>2. \A n \in Nat : 0 <= 0 + n
    OBVIOUS
  <2> QED
    BY <1>3, <1>5, <2>1, <2>2
<1> QED
  BY <1>1, <1>2, <1>3, <1>6, <1>7, <1>8 DEF Exact

LEMMA ExactReceives ==
  ASSUME Account, Receiver, Exact, faults <= 1, Alive, Len(file) < Blocks
  PROVE  Exact' \/ Closed'
<1>1. IInv /\ Placed
  BY DEF Account
<1>2. UNCHANGED sender /\ faults' = faults
  BY <1>1, ReceiverStep, ReceiverLine
<1>3. /\ Owed \in Nat /\ Given \in Nat /\ faults \in Nat
      /\ Latest \in Int /\ -1 <= Latest /\ Latest <= Blocks + 1
      /\ toReceiver \in Words /\ Given <= Blocks
  BY <1>1, Numbers, Constants DEF Given
<1>4. CASE rpc = "start"
  <2>1. ReceiveStart
    BY <1>4
    DEF Receiver, Receives, ReceiveTimeout, ReceiveBad, ReceiveSplit, ReceiveCA,
        ReceiveCancel, ReceiveAbort, ReceiveEOT, ReceiveOther, ReceiveName,
        ReceiveLast, ReceiveData
  <2> QED
    BY <2>1, StartsExact
<1>5. ASSUME rpc = "packet", Complain("C"), Chain(toReceiver', Given, Latest)
      PROVE  Exact' \/ Closed'
  <2>1. /\ Owed' = Owed /\ Latest' = Latest /\ Given' = Given
        /\ received' = received /\ ~ Has(toSender', "NAK")
        /\ rpc' \in {"done", "packet"}
    BY <1>1, <1>2, <1>5, Complains DEF Exact
  <2>2. Owed' <= Given' + faults'
    BY <1>2, <2>1 DEF Exact
  <2> QED
    BY <1>5, <2>1, <2>2 DEF Exact, Closed
<1>6. CASE rpc = "packet" /\ toReceiver = <<>>
  <2>1. ReceiveTimeout
    BY <1>6
    DEF Receiver, ReceiverReads, ReceiveStart, ReceiveBad, ReceiveSplit, ReceiveCA,
        ReceiveCancel, ReceiveAbort, ReceiveEOT, ReceiveOther, ReceiveName,
        ReceiveLast, ReceiveData
  <2> QED
    BY <1>5, <1>6, <2>1 DEF ReceiveTimeout, Exact
<1>7. CASE rpc = "packet" /\ toReceiver # <<>>
  <2>1. \/ /\ Given = 0 /\ Head(toReceiver) = Byte("C")
           /\ Chain(Tail(toReceiver), 0, Latest)
        \/ /\ Given <= Latest /\ Head(toReceiver) = Stage(Given)
           /\ Chain(Tail(toReceiver), Given + 1, Latest)
    BY <1>3, <1>7, ChainShrinks DEF Exact
  <2>2. CASE /\ Given = 0 /\ Head(toReceiver) = Byte("C")
             /\ Chain(Tail(toReceiver), 0, Latest)
    <3>1. ReceiveBad
      BY <1>7, <2>2, Readings DEF Byte
    <3>2. Complain("C") /\ toReceiver' = Tail(toReceiver)
      BY <1>7, <3>1 DEF ReceiveBad, ReceiverReads
    <3> QED
      BY <1>5, <1>7, <2>2, <3>2
  <2>3. CASE /\ Given <= Latest /\ Head(toReceiver) = Stage(Given)
             /\ Chain(Tail(toReceiver), Given + 1, Latest)
    <3>1. /\ \/ ReceiveName /\ Given = 0
             \/ ReceiveData
          /\ toReceiver' = Tail(toReceiver)
      <4>1. CASE Given = 0
        <5>1. Head(toReceiver) = Packet("name", 0) /\ received = 0
          BY <2>3, <4>1 DEF Exact, Stage
        <5>2. ReceiveName
          BY <1>7, <5>1, Readings DEF Packet, Expected
        <5> QED
          BY <4>1, <5>2 DEF ReceiveName, ReceiverReads
      <4>2. CASE Given # 0
        <5>1. /\ Head(toReceiver) = Packet("data", Given)
              /\ received = Given /\ received > 0
          BY <1>3, <2>3, <4>2 DEF Exact, Stage
        <5>2. ReceiveData
          BY <1>7, <5>1, Readings DEF Packet, Expected
        <5> QED
          BY <5>2 DEF ReceiveData, ReceiverReads
      <4> QED
        BY <4>1, <4>2
    <3>2. \/ /\ Owed' = Owed + 1 /\ Given' = Given + 1 /\ received' = Given'
             /\ Latest' = Latest /\ rpc' = "packet"
             /\ Has(toSender', "NAK") => Has(toSender, "NAK")
          \/ rpc' = "done" /\ Owed' = Owed /\ Given' = Given
      <4>1. UNCHANGED <<sender, faults>>
        BY <1>2
      <4>2. ReceiveName \/ (ReceiveData /\ Len(file) < Blocks)
        BY <3>1
      <4>3. ~ (ReceiveName /\ Given > 0)
        <5>1. CASE ReceiveName /\ Given = 0
          BY <5>1
        <5>2. CASE ReceiveData
          BY <5>2 DEF ReceiveName, ReceiveData
        <5> QED
          BY <3>1, <5>1, <5>2
      <4> QED
        BY <1>1, <4>1, <4>2, <4>3, Gives
    <3>3. Owed <= Given + faults
      BY DEF Exact
    <3>4. Owed' <= Given' + faults'
      BY <1>2, <1>3, <3>2, <3>3
    <3> QED
      BY <2>3, <3>1, <3>2, <3>4 DEF Exact, Closed
  <2> QED
    BY <2>1, <2>2, <2>3
<1> QED
  BY <1>4, <1>6, <1>7 DEF Exact

LEMMA EarlyReceives ==
  ASSUME Account, Receiver, Early, Alive
  PROVE  Exact'
<1>1. IInv /\ Placed /\ faults = 1
  BY DEF Account, Early
<1>2. UNCHANGED sender /\ faults' = faults
  BY <1>1, ReceiverStep, ReceiverLine
<1>3. CASE rpc = "start"
  <2>1. ReceiveStart
    BY <1>3
    DEF Receiver, Receives, ReceiveTimeout, ReceiveBad, ReceiveSplit, ReceiveCA,
        ReceiveCancel, ReceiveAbort, ReceiveEOT, ReceiveOther, ReceiveName,
        ReceiveLast, ReceiveData
  <2> QED
    BY <1>1, <2>1, StartsExact
<1>4. CASE rpc = "packet"
  <2>1. ReceiveEOT
    BY <1>4, Readings DEF Early, Byte
  <2>2. /\ toReceiver' = Tail(toReceiver) /\ received' = 0
        /\ UNCHANGED <<rpc, size, file>> /\ ToSender(<<Byte("ACK")>>)
    BY <2>1 DEF ReceiveEOT, ReceiverReads
  <2>3. /\ Owed' = Owed + 1 /\ Latest' = Latest /\ Given' = 0
        /\ ~ Has(toSender', "NAK")
    BY <1>1, <1>2, <2>2, Acknowledges DEF Early, Given
  <2>4. Owed' <= Given' + faults'
    <3>1. Owed \in Nat /\ Owed <= 0
      BY <1>1, Numbers DEF Early
    <3> QED
      BY <1>1, <1>2, <2>3, <3>1
  <2> QED
    BY <1>4, <2>2, <2>3, <2>4 DEF Early, Exact
<1> QED
  BY <1>3, <1>4 DEF Early

LEMMA BehindReceives ==
  ASSUME Account, Receiver, Behind, Alive, Len(file) < Blocks
  PROVE  (Behind \/ Closed \/ Broken)'
<1>1. IInv /\ Placed /\ faults = 1 /\ rpc # "done"
  BY DEF Account, Behind
<1>2. UNCHANGED sender /\ faults' = faults /\ UNCHANGED <<sender, faults>>
  BY <1>1, ReceiverStep, ReceiverLine
<1>3. /\ Owed \in Nat /\ Given \in Nat /\ toReceiver \in Words /\ Owed <= Given
      /\ received = Given
  BY <1>1, Numbers DEF Behind
<1>4. IInv'
  BY <1>1, Inductive DEF Next
\* What it does with what it cannot use.
<1>5. ASSUME NEW b \in {"C", "NAK"}, Complain(b),
             \/ toReceiver' = toReceiver
             \/ toReceiver # <<>> /\ toReceiver' = Tail(toReceiver)
      PROVE  (Behind \/ Closed)'
  <2>1. /\ Owed' = Owed /\ Given' = Given /\ received' = received
        /\ rpc' \in {"done", "packet"}
    BY <1>1, <1>2, <1>5, Complains
  <2>2. ~ Has(toReceiver', "EOT")
    BY <1>3, <1>5, FirstAndRest DEF Behind
  <2>3. Owed' <= Given' /\ Owed' <= Given' + 1
    BY <1>3, <2>1
  <2> QED
    BY <1>1, <1>2, <1>3, <2>1, <2>2, <2>3 DEF Behind, Closed
<1>6. ASSUME rpc' = "done", Given' = Given, Owed' = Owed \/ Owed' = Owed + 1
      PROVE  Closed'
  <2>1. Owed' <= Given' + 1
    BY <1>3, <1>6
  <2> QED
    BY <1>1, <1>2, <1>6, <2>1 DEF Closed
<1>7. ASSUME NEW ss, ReceiverReads(ss)
      PROVE  toReceiver # <<>> /\ toReceiver' = Tail(toReceiver)
  BY <1>7 DEF ReceiverReads
<1>8. ASSUME toReceiver # <<>>, toReceiver' = Tail(toReceiver)
      PROVE  ~ Has(toReceiver', "EOT")
  BY <1>3, <1>8, FirstAndRest DEF Behind
<1>9. CASE ReceiveStart
  <2>1. /\ UNCHANGED <<received, size, file, toSender>> /\ rpc' = "packet"
        /\ toReceiver' = <<>>
    BY <1>9 DEF ReceiveStart
  <2>2. Owed' = Owed /\ Given' = Given
    BY <1>2, <2>1, Quiet DEF Given
  <2>3. ~ Has(toReceiver', "EOT")
    BY <2>1, Sayings
  <2> QED
    BY <1>1, <1>2, <1>3, <2>1, <2>2, <2>3 DEF Behind
<1>10. CASE ReceiveTimeout
  BY <1>5, <1>10 DEF ReceiveTimeout
<1>11. CASE ReceiveBad
  BY <1>5, <1>7, <1>11 DEF ReceiveBad
<1>12. CASE ReceiveSplit
  <2>1. /\ toReceiver # <<>> /\ toReceiver' \in Shift(toReceiver)
        /\ Complain("C")
    BY <1>12 DEF ReceiveSplit
  <2>2. /\ Owed' = Owed /\ Given' = Given
        /\ rpc' \in {"done", "packet"}
    BY <1>1, <1>2, <2>1, Complains
  <2>3. /\ Owed' \in Nat /\ Given' \in Nat /\ Owed' <= Given'
        /\ Receiving' /\ faults' = 1
    BY <1>1, <1>2, <1>3, <1>4, <2>2 DEF IInv
  <2> QED
    BY <1>3, <1>6, <2>1, <2>2, <2>3, Breaks
<1>13. CASE ReceiveCA
  <2>1. /\ UNCHANGED <<received, size, file, toSender>> /\ rpc' = "second"
        /\ ReceiverReads({"CA"})
    BY <1>13 DEF ReceiveCA
  <2>2. Owed' = Owed /\ Given' = Given
    BY <1>2, <2>1, Quiet DEF Given
  <2>3. ~ Has(toReceiver', "EOT")
    BY <1>7, <1>8, <2>1
  <2> QED
    BY <1>1, <1>2, <1>3, <2>1, <2>2, <2>3 DEF Behind
<1>14. CASE ReceiveCancel
  <2>1. /\ ToSender(<<Byte("ACK")>>) /\ rpc' = "done" /\ Given' = Given
    BY <1>14 DEF ReceiveCancel, ReceiverExit, Given
  <2> QED
    BY <1>1, <1>2, <1>6, <2>1, Acknowledges
<1>15. CASE ReceiveAbort
  <2>1. Refuse("-3")
    BY <1>15 DEF ReceiveAbort
  <2> QED
    BY <1>1, <1>2, <1>6, <2>1, Refuses
<1>16. ~ ReceiveEOT
  <2>1. ReceiveEOT => toReceiver # <<>> /\ Head(toReceiver).what = "EOT"
    BY DEF ReceiveEOT, ReceiverReads
  <2> QED
    BY <1>3, <2>1, FirstAndRest DEF Behind
<1>17. CASE ReceiveOther
  BY <1>5, <1>7, <1>17 DEF ReceiveOther
<1>18. CASE ReceiveLast
  <2>1. /\ ToSender(<<Byte("ACK")>>) /\ rpc' = "done" /\ Given' = Given
    BY <1>18 DEF ReceiveLast, ReceiverExit, Given
  <2> QED
    BY <1>1, <1>2, <1>6, <2>1, Acknowledges
<1>19. CASE ReceiveName \/ ReceiveData
  <2>1. toReceiver # <<>> /\ toReceiver' = Tail(toReceiver)
    BY <1>7, <1>19 DEF ReceiveName, ReceiveData
  <2>2. ~ (ReceiveName /\ Given > 0)
    BY <1>3 DEF ReceiveName
  <2>3. \/ /\ Owed' = Owed + 1 /\ Given' = Given + 1 /\ received' = Given'
           /\ rpc' = "packet"
        \/ rpc' = "done" /\ Owed' = Owed /\ Given' = Given
    BY <1>1, <1>2, <1>19, <2>2, Gives
  <2>4. CASE /\ Owed' = Owed + 1 /\ Given' = Given + 1 /\ received' = Given'
             /\ rpc' = "packet"
    <3>1. Owed' <= Given'
      BY <1>3, <2>4
    <3>2. ~ Has(toReceiver', "EOT")
      BY <1>8, <2>1
    <3> QED
      BY <1>1, <1>2, <2>4, <3>1, <3>2 DEF Behind
  <2> QED
    BY <1>6, <2>3, <2>4
<1> QED
  BY <1>9, <1>10, <1>11, <1>12, <1>13, <1>14, <1>15, <1>16, <1>17, <1>18, <1>19
  DEF Receiver

LEMMA BrokenReceives ==
  ASSUME Account, Receiver, Broken
  PROVE  (Closed \/ Broken)'
<1>1. IInv /\ Placed /\ faults = 1 /\ rpc = "packet"
  BY DEF Account, Broken
<1>2. /\ UNCHANGED sender /\ faults' = faults /\ UNCHANGED <<sender, faults>>
      /\ faults' = 1
  BY <1>1, ReceiverStep, ReceiverLine
<1>3. /\ Owed \in Nat /\ Given \in Nat /\ toReceiver \in Words
      /\ Owed + Number <= Given + 1
  BY <1>1, Numbers DEF Broken
<1> DEFINE left == MaxErrors + 1 - errors
<1>4. /\ errors \in Nat /\ errors <= MaxErrors /\ MaxErrors \in Nat
      /\ left \in Nat /\ left >= 1
  BY <1>1, Constants DEF IInv, Receiving
<1>5. Len(toReceiver) \in Nat /\ Number \in {0, 1}
  BY <1>3 DEF Words, Number
<1>6. /\ Len(toReceiver) >= Number + left
      /\ \A i \in 1 .. left : toReceiver[Number + i].what = "junk"
  BY DEF Broken
<1> HIDE DEF left
<1>7. toReceiver # <<>>
  BY <1>4, <1>5, <1>6
<1>8. /\ Tail(toReceiver) \in Words /\ toReceiver[1] = Head(toReceiver)
      /\ Len(Tail(toReceiver)) = Len(toReceiver) - 1
      /\ \A i \in 1 .. Len(toReceiver) - 1 :
           Tail(toReceiver)[i] = toReceiver[i + 1]
  BY <1>3, <1>7, FirstAndRest
<1>9. ASSUME NEW w \in Words, w # <<>> PROVE Head(w) = w[1]
  BY <1>9, FirstAndRest
<1>10. CASE Number = 1
  <2>1. ReceiveEOT
    BY <1>1, <1>7, <1>10, Readings DEF Number
  <2>2. /\ toReceiver' = Tail(toReceiver) /\ ToSender(<<Byte("ACK")>>)
        /\ UNCHANGED <<rpc, errors, size, file>>
    BY <2>1 DEF ReceiveEOT, ReceiverReads
  <2>3. Owed' = Owed + 1 /\ Given' = Given
    BY <1>1, <1>2, <2>2, Acknowledges DEF Given
  <2>4. Len(toReceiver') \in Nat /\ Len(toReceiver') >= left
    BY <1>4, <1>5, <1>6, <1>8, <1>10, <2>2
  <2>5. ASSUME NEW i \in 1 .. left PROVE toReceiver'[i].what = "junk"
    <3>1. i \in 1 .. Len(toReceiver) - 1 /\ Number + i = i + 1
      BY <1>4, <1>5, <1>6, <1>10
    <3> QED
      BY <1>6, <1>8, <2>2, <3>1
  <2>6. Number' = 0
    <3>1. toReceiver' # <<>>
      BY <1>4, <2>4
    <3>2. toReceiver'[1].what = "junk"
      BY <1>4, <2>5
    <3> QED
      BY <1>8, <1>9, <2>2, <3>1, <3>2 DEF Number
  <2>7. Owed' + Number' <= Given' + 1
    BY <1>3, <1>10, <2>3, <2>6
  <2>8. /\ Len(toReceiver') >= Number' + (MaxErrors + 1 - errors')
        /\ \A i \in 1 .. MaxErrors + 1 - errors' :
             toReceiver'[Number' + i].what = "junk"
    BY <1>4, <2>2, <2>4, <2>5, <2>6 DEF left
  <2> QED
    BY <1>1, <1>2, <2>2, <2>7, <2>8 DEF Broken
<1>11. CASE Number = 0
  <2>1. /\ Head(toReceiver).what = "junk"
        /\ \A i \in 1 .. left : toReceiver[i].what = "junk"
    BY <1>4, <1>6, <1>8, <1>11
  <2>2. ReceiveBad
    BY <1>1, <1>7, <2>1, Readings
  <2>3. toReceiver' = Tail(toReceiver) /\ Complain("C")
    BY <2>2 DEF ReceiveBad, ReceiverReads
  <2>4. /\ Owed' = Owed /\ Given' = Given /\ errors' = errors + 1
        /\ \/ rpc' = "done"
           \/ rpc' = "packet" /\ errors + 1 <= MaxErrors
    BY <1>1, <1>2, <2>3, Complains
  <2>5. Owed' <= Given' + 1
    BY <1>3, <1>11, <2>4
  <2>6. CASE rpc' = "done"
    BY <1>2, <2>5, <2>6 DEF Closed
  <2>7. CASE rpc' = "packet" /\ errors + 1 <= MaxErrors
    <3>1. left - 1 \in Nat /\ left - 1 >= 1 /\ MaxErrors + 1 - errors' = left - 1
      BY <1>4, <2>4, <2>7 DEF left
    <3>2. Len(toReceiver') \in Nat /\ Len(toReceiver') >= left - 1
      BY <1>4, <1>5, <1>6, <1>8, <1>11, <2>3, <3>1
    <3>3. ASSUME NEW i \in 1 .. left - 1 PROVE toReceiver'[i].what = "junk"
      <4>1. i \in 1 .. Len(toReceiver) - 1 /\ i + 1 \in 1 .. left
        BY <1>4, <1>5, <1>6, <1>11, <3>1
      <4> QED
        BY <1>8, <2>1, <2>3, <4>1
    <3>4. Number' = 0
      <4>1. toReceiver' # <<>>
        BY <3>1, <3>2
      <4>2. toReceiver'[1].what = "junk"
        BY <3>1, <3>3
      <4> QED
        BY <1>8, <1>9, <2>3, <4>1, <4>2 DEF Number
    <3>5. /\ Len(toReceiver') >= Number' + (MaxErrors + 1 - errors')
          /\ \A i \in 1 .. MaxErrors + 1 - errors' :
               toReceiver'[Number' + i].what = "junk"
      BY <3>1, <3>2, <3>3, <3>4
    <3>6. Owed' + Number' <= Given' + 1
      BY <1>3, <2>4, <2>5, <3>4
    <3> QED
      BY <1>2, <2>7, <3>5, <3>6 DEF Broken
  <2> QED
    BY <2>4, <2>6, <2>7
<1> QED
  BY <1>5, <1>10, <1>11

LEMMA ReceiverAccount ==
  ASSUME Account, Receiver
  PROVE  Account'
<1>1. IInv /\ Placed /\ Ordered
  BY DEF Account
<1>2. UNCHANGED sender /\ UNCHANGED <<spc, block, sresult>> /\ faults' = faults
  BY <1>1, ReceiverStep, ReceiverLine DEF sender
<1>3. IInv'
  BY <1>1, Inductive DEF Next
<1>4. toReceiver \in Words /\ Len(file) \in Nat /\ Len(file) <= Blocks
  BY <1>1 DEF IInv, Line, Stored
<1>5. /\ \/ toReceiver' = <<>>
         \/ toReceiver' = toReceiver
         \/ /\ toReceiver # <<>>
            /\ \E p \in Words : Plain(p) /\ toReceiver' = p \o Tail(toReceiver)
      /\ rpc' # "start"
      /\ rresult' = "size" => rresult = "size" \/ Has(toReceiver, "last")
  BY <1>1, ReceiverLine
<1>6. /\ \A b \in Packets : Has(toReceiver', b) => Has(toReceiver, b)
      /\ Numbered(toReceiver) => Numbered(toReceiver')
      /\ Sorted(toReceiver) => Sorted(toReceiver')
  <2>1. CASE toReceiver' = <<>>
    BY <2>1 DEF Has, Numbered, Sorted
  <2> QED
    BY <1>4, <1>5, <2>1, Replaced
<1>7. \/ UNCHANGED <<file, size>>
      \/ file' = <<>> /\ Has(toReceiver, "name")
      \/ /\ Len(file) < Blocks
         /\ file' = Append(file, Len(file) + 1)
         /\ toReceiver # <<>> /\ Head(toReceiver).what = "data"
         /\ toReceiver' = Tail(toReceiver)
  BY <1>1, Written DEF Ordered
<1>8. Placed'
  BY <1>1, <1>2, <1>5 DEF Placed
<1>9. Ordered'
  <2>1. ASSUME spc \in {"start", "hello", "name"}
        PROVE  file' = <<>> /\ ~ Has(toReceiver', "data")
    <3>1. file = <<>> /\ ~ Has(toReceiver, "data")
      BY <1>1, <2>1 DEF Ordered
    <3>2. ~ Has(toReceiver', "data")
      BY <1>6, <3>1 DEF Packets
    <3>3. ~ (toReceiver # <<>> /\ Head(toReceiver).what = "data")
      BY <1>4, <3>1, FirstAndRest
    <3> QED
      BY <1>7, <3>1, <3>2, <3>3
  <2>2. ASSUME file' # <<>> PROVE ~ Has(toReceiver', "name")
    <3>1. CASE UNCHANGED <<file, size>>
      BY <1>1, <1>6, <2>2, <3>1 DEF Ordered, Packets
    <3>2. CASE /\ toReceiver # <<>> /\ Head(toReceiver).what = "data"
               /\ toReceiver' = Tail(toReceiver)
      BY <1>1, <1>4, <3>2, NothingFirst DEF Ordered
    <3> QED
      BY <1>7, <2>2, <3>1, <3>2
  <2> QED
    BY <1>1, <1>2, <1>6, <2>1, <2>2 DEF Ordered
\* A file that is whole stays so.
<1>10. ASSUME Len(file) = Blocks PROVE Len(file') = Blocks
  <2>1. file # <<>>
    BY <1>10, Constants
  <2>2. ~ Has(toReceiver, "name")
    BY <1>1, <2>1 DEF Ordered
  <2> QED
    BY <1>4, <1>7, <1>10, <2>2
<1>11. Ended'
  <2>1. Past' => Past
    BY <1>2, <1>5, <1>6 DEF Past, Packets
  <2> QED
    BY <1>2, <1>10, <2>1 DEF Account, Ended
<1>12. Going'
  <2> SUFFICES ASSUME faults' <= 1, Alive', Len(file') < Blocks
               PROVE  (Exact \/ Early \/ Behind \/ Closed \/ Broken)'
    BY DEF Going
  <2>1. Alive /\ faults <= 1
    BY <1>2 DEF Alive
  <2>2. Len(file) < Blocks
    <3>1. Len(file') # Blocks
      BY Constants
    <3> QED
      BY <1>4, <1>10, <3>1, Constants
  <2>3. Exact \/ Early \/ Behind \/ Closed \/ Broken
    BY <2>1, <2>2 DEF Account, Going
  <2>4. ~ Closed
    BY DEF Closed, Receiver, Receives, ReceiveStart, ReceiveTimeout, ReceiveBad,
           ReceiveSplit, ReceiveCA, ReceiveCancel, ReceiveAbort, ReceiveEOT,
           ReceiveOther, ReceiveName, ReceiveLast, ReceiveData
  <2>5. CASE Exact
    BY <2>1, <2>2, <2>5, ExactReceives
  <2>6. CASE Early
    BY <2>1, <2>6, EarlyReceives
  <2>7. CASE Behind
    BY <2>1, <2>2, <2>7, BehindReceives
  <2>8. CASE Broken
    BY <2>8, BrokenReceives
  <2> QED
    BY <2>3, <2>4, <2>5, <2>6, <2>7, <2>8
<1> QED
  BY <1>3, <1>8, <1>9, <1>11, <1>12 DEF Account

-----------------------------------------------------------------------------
(* The line.                                                               *)

(* The first symbol becomes another, or nothing.                           *)
LEMMA DamageIs ==
  ASSUME NEW w \in Words, w # <<>>, NEW v \in Damage(w)
  PROVE  \E p \in Words :
           /\ Plain(p) /\ v = p \o Tail(w)
           /\ \/ p = <<>>
              \/ p = <<Packet("bad", 0)>>
              \/ Head(w).what \in Control /\ \E b \in Control : p = <<Byte(b)>>
<1>1. /\ \A b \in Control : <<Byte(b)>> \in Words
      /\ <<>> \in Words /\ <<Packet("bad", 0)>> \in Words
  <2>1. <<Packet("bad", 0)>> \in Words
    <3>1. 0 \in 0 .. Blocks /\ "bad" \in Packets \union {"bad"}
      BY Constants
    <3> QED
      BY <3>1, AllPackets
  <2> QED
    BY <2>1, Bytes
<1>2. /\ \A b \in Control : Plain(<<Byte(b)>>)
      /\ Plain(<<>>) /\ Plain(<<Packet("bad", 0)>>)
  BY DEF Plain, Byte, Packet, Control, Packets
<1>3. CASE Head(w).what \in Control
  <2>1. \/ v = <<>> \o Tail(w)
        \/ \E b \in Control : v = <<Byte(b)>> \o Tail(w)
    BY <1>3 DEF Damage
  <2> QED
    BY <1>1, <1>2, <1>3, <2>1
<1>4. CASE Head(w).what \notin Control
  <2>1. v = <<>> \o Tail(w) \/ v = <<Packet("bad", 0)>> \o Tail(w)
    BY <1>4 DEF Damage
  <2> QED
    BY <1>1, <1>2, <2>1
<1> QED
  BY <1>3, <1>4

(* It can make one acknowledgement at most, and then makes no NAK.         *)
LEMMA DamagedAnswer ==
  ASSUME NEW w \in Words, w # <<>>, NEW v \in Damage(w)
  PROVE  /\ Acks(v) \in Nat /\ Acks(w) \in Nat /\ Acks(v) <= Acks(w) + 1
         /\ Has(v, "NAK") => Has(w, "NAK") \/ Acks(v) <= Acks(w)
<1>1. PICK p \in Words :
           /\ v = p \o Tail(w)
           /\ \/ p = <<>>
              \/ p = <<Packet("bad", 0)>>
              \/ \E b \in Control : p = <<Byte(b)>>
  BY DamageIs
<1>2. /\ Tail(w) \in Words /\ Acks(Tail(w)) \in Nat /\ Acks(w) \in Nat
      /\ Acks(Tail(w)) <= Acks(w)
      /\ Has(Tail(w), "NAK") => Has(w, "NAK")
  BY FirstAndRest, AcksAreFinite
<1>3. /\ Acks(p) \in Nat /\ Acks(v) = Acks(p) + Acks(Tail(w))
      /\ Has(v, "NAK") => Has(p, "NAK") \/ Has(Tail(w), "NAK")
  BY <1>1, <1>2, Joined
<1>4. Acks(p) = 0 \/ (Acks(p) = 1 /\ ~ Has(p, "NAK"))
  <2>1. Acks(<<Packet("bad", 0)>>) = 0
    <3>1. Packet("bad", 0) \in Symbols /\ Packet("bad", 0).what = "bad"
      BY Constants DEF Packet, Symbols
    <3> QED
      BY <3>1, FewAcks
  <2> QED
    BY <1>1, <2>1, Sayings
<1> QED
  BY <1>2, <1>3, <1>4

LEMMA FaultAccount ==
  ASSUME Account, Fault
  PROVE  Account'
<1>1. IInv /\ Placed /\ Ordered
  BY DEF Account
<1>2. /\ UNCHANGED <<sender, receiver>> /\ faults' = faults + 1
      /\ UNCHANGED <<spc, block, sresult>>
      /\ UNCHANGED <<rpc, received, errors, size, file, rresult>>
  BY DEF Fault, sender, receiver
<1>3. IInv'
  BY <1>1, Inductive DEF Next
<1>4. /\ toReceiver \in Words /\ toSender \in Words /\ faults \in Nat
      /\ Acked \in Nat /\ Given \in Nat /\ Owed \in Nat
      /\ Acks(toSender) \in Nat /\ Len(file) \in Nat
      /\ Latest \in Int /\ -1 <= Latest /\ Latest <= Blocks + 1
      /\ Latest = Blocks + 1 => Acked = Blocks + 1
  BY <1>1, Numbers
<1>5. \/ /\ toReceiver # <<>> /\ toSender' = toSender
         /\ \/ toReceiver' \in Damage(toReceiver)
            \/ /\ Head(toReceiver).what \in Packets
               /\ toReceiver' \in Shift(toReceiver)
      \/ /\ toSender # <<>> /\ toSender' \in Damage(toSender)
         /\ toReceiver' = toReceiver
  BY DEF Fault
<1>6. /\ \A b \in Packets : Has(toReceiver', b) => Has(toReceiver, b)
      /\ Numbered(toReceiver) => Numbered(toReceiver')
      /\ Sorted(toReceiver) => Sorted(toReceiver')
  <2>1. \/ toReceiver' = toReceiver
        \/ /\ toReceiver # <<>>
           /\ \E p \in Words : Plain(p) /\ toReceiver' = p \o Tail(toReceiver)
    BY <1>4, <1>5, DamageIs, Apart
  <2>2. CASE toReceiver' = toReceiver
    BY <2>2
  <2>3. ASSUME toReceiver # <<>>,
               NEW p \in Words, Plain(p), toReceiver' = p \o Tail(toReceiver)
        PROVE  /\ \A b \in Packets : Has(toReceiver', b) => Has(toReceiver, b)
               /\ Numbered(toReceiver) => Numbered(toReceiver')
               /\ Sorted(toReceiver) => Sorted(toReceiver')
    BY <1>4, <2>3, Replaced
  <2> QED
    BY <2>1, <2>2, <2>3
<1>7. Placed'
  BY <1>1, <1>2, <1>5 DEF Placed
<1>8. Ordered'
  BY <1>1, <1>2, <1>6 DEF Ordered, Packets
<1>9. Ended'
  <2>1. Past' => Past
    BY <1>2, <1>6 DEF Past, Packets
  <2>2. faults' <= 1 => faults <= 1
    BY <1>2, <1>4
  <2> QED
    BY <1>2, <2>1, <2>2 DEF Account, Ended
<1>10. Going'
  <2> SUFFICES ASSUME faults' <= 1, Alive', Len(file') < Blocks
               PROVE  (Exact \/ Early \/ Behind \/ Closed \/ Broken)'
    BY DEF Going
  <2>1. faults = 0 /\ faults' = 1
    BY <1>2, <1>4
  <2>2. /\ Alive /\ Len(file) < Blocks
        /\ Acked' = Acked /\ Latest' = Latest /\ Given' = Given
    BY <1>2 DEF Alive, Acked, Latest, Given
  <2>3. Given <= Blocks
    BY <1>4, <2>2, Constants DEF Given
  <2>4. /\ Exact \/ Closed
        /\ Exact \/ Closed => Owed <= Given
    <3>1. Exact \/ Early \/ Behind \/ Closed \/ Broken
      BY <2>1, <2>2 DEF Account, Going
    <3>2. ~ Early /\ ~ Behind /\ ~ Broken
      BY <2>1 DEF Early, Behind, Broken
    <3>3. Exact \/ Closed => Owed <= Given + 0
      BY <2>1 DEF Exact, Closed
    <3> QED
      BY <1>4, <3>1, <3>2, <3>3
  <2>5. Owed' \in Nat
    <3>1. Acks(toSender') \in Nat
      BY <1>3, AcksAreFinite DEF IInv, Line
    <3> QED
      BY <1>4, <2>2, <3>1 DEF Owed
  <2>6. ASSUME rpc = "done", Owed' <= Owed + 1 PROVE Closed'
    <3>1. Owed' <= Given + 1
      BY <1>4, <2>4, <2>5, <2>6
    <3> QED
      BY <1>2, <2>1, <2>2, <2>6, <3>1 DEF Closed
  \* Of an exact dialogue the EOT has not been sent.
  <2>7. Exact => ~ Has(toReceiver, "EOT")
    <3>1. ASSUME Exact, Has(toReceiver, "EOT") PROVE FALSE
      <4>1. Latest = Blocks + 1
        BY <1>4, <3>1, ChainEnd DEF Exact
      <4>2. Owed >= Blocks + 1
        <5>1. Acked = Blocks + 1
          BY <1>4, <4>1
        <5> QED
          BY <1>4, <5>1, Constants DEF Owed
      <4> QED
        BY <1>4, <2>3, <2>4, <3>1, <4>2, Constants
    <3> QED
      BY <3>1
  \* The fault is in an answer.
  <2>8. CASE /\ toSender # <<>> /\ toSender' \in Damage(toSender)
             /\ toReceiver' = toReceiver
    <3>1. /\ Acks(toSender') \in Nat /\ Acks(toSender') <= Acks(toSender) + 1
          /\ Has(toSender', "NAK")
               => Has(toSender, "NAK") \/ Acks(toSender') <= Acks(toSender)
      BY <1>4, <2>8, DamagedAnswer
    <3>2. /\ Owed' <= Owed + 1
          /\ Acks(toSender') <= Acks(toSender) => Owed' <= Owed
      BY <1>4, <2>2, <3>1 DEF Owed
    <3>3. CASE Exact /\ Has(toSender', "NAK")
      <4>1. Owed' <= Owed
        BY <3>1, <3>2, <3>3 DEF Exact
      <4>2. Owed' <= Given'
        BY <1>4, <2>2, <2>4, <2>5, <3>3, <4>1
      <4>3. rpc' # "done" /\ received' = Given' /\ ~ Has(toReceiver', "EOT")
        BY <1>2, <2>2, <2>7, <2>8, <3>3 DEF Exact
      <4> QED
        BY <2>1, <4>2, <4>3 DEF Behind
    <3>4. CASE Exact /\ ~ Has(toSender', "NAK")
      <4>1. Owed' <= Given' + 1
        BY <1>4, <2>2, <2>4, <2>5, <3>2, <3>4
      <4>2. Chain(toReceiver', Given', Latest')
        BY <2>2, <2>8, <3>4 DEF Exact
      <4> QED
        BY <1>2, <2>1, <2>2, <3>4, <4>1, <4>2 DEF Exact
    <3>5. CASE Closed
      BY <2>6, <3>2, <3>5 DEF Closed
    <3> QED
      BY <2>4, <3>3, <3>4, <3>5
  \* The fault is in what the sender sends.
  <2>9. CASE /\ toReceiver # <<>> /\ toSender' = toSender
             /\ \/ toReceiver' \in Damage(toReceiver)
                \/ /\ Head(toReceiver).what \in Packets
                   /\ toReceiver' \in Shift(toReceiver)
    <3>1. Owed' = Owed
      BY <2>2, <2>9 DEF Owed
    <3>2. CASE Closed
      <4>1. Owed' <= Owed + 1
        BY <1>4, <3>1
      <4> QED
        BY <2>6, <3>2, <4>1 DEF Closed
    <3>3. CASE Exact
      <4>1. /\ Owed' <= Given' /\ received' = Given' /\ faults' = 1
            /\ rpc' \in {"start", "packet"} /\ ~ Has(toSender', "NAK")
        BY <1>2, <2>1, <2>2, <2>4, <2>9, <3>1, <3>3 DEF Exact
      <4>2. \/ /\ Given = 0 /\ Head(toReceiver) = Byte("C")
               /\ Chain(Tail(toReceiver), 0, Latest)
            \/ Given <= Latest /\ Head(toReceiver) = Stage(Given)
        BY <1>4, <2>9, <3>3, ChainShrinks DEF Exact
      <4>3. CASE ~ Has(toReceiver', "EOT")
        BY <4>1, <4>3 DEF Behind
      <4>4. CASE toReceiver' \in Damage(toReceiver) /\ Has(toReceiver', "EOT")
        <5>1. PICK p \in Words :
                /\ toReceiver' = p \o Tail(toReceiver)
                /\ \/ p = <<>>
                   \/ p = <<Packet("bad", 0)>>
                   \/ /\ Head(toReceiver).what \in Control
                      /\ \E b \in Control : p = <<Byte(b)>>
          BY <1>4, <2>9, <4>4, DamageIs
        <5>2. Tail(toReceiver) \in Words /\ ~ Has(Tail(toReceiver), "EOT")
          BY <1>4, <2>7, <2>9, <3>3, FirstAndRest
        <5>3. Has(p, "EOT")
          BY <4>4, <5>1, <5>2, Joined
        <5>4. p # <<>> /\ p # <<Packet("bad", 0)>>
          BY <5>3 DEF Has, Packet
        <5>5. p = <<Byte("EOT")>> /\ Head(toReceiver).what \in Control
          BY <5>1, <5>3, <5>4, Sayings
        <5>6. ~ (Given <= Latest /\ Head(toReceiver) = Stage(Given))
          <6>1. Stage(Given).what \in {"name", "data"}
            BY <1>4, <2>3, Constants DEF Stage, Packet
          <6> QED
            BY <5>5, <6>1 DEF Control
        <5>7. Given = 0 /\ Chain(Tail(toReceiver), 0, Latest)
          BY <4>2, <5>6
        <5>8. /\ toReceiver' # <<>> /\ Head(toReceiver') = Byte("EOT")
              /\ Tail(toReceiver') = Tail(toReceiver)
          <6>1. /\ p # <<>> /\ Head(p) = Byte("EOT") /\ Tail(p) = <<>>
            BY <5>5
          <6>2. <<>> \o Tail(toReceiver) = Tail(toReceiver)
            BY <1>4, <2>9, NothingFirst
          <6> QED
            BY <5>1, <5>2, <6>1, <6>2, FirstOfConcat
        <5>9. Owed' <= 0
          BY <2>2, <4>1, <5>7
        <5> QED
          BY <2>2, <4>1, <5>7, <5>8, <5>9 DEF Early
      <4>5. CASE /\ Head(toReceiver).what \in Packets
                 /\ toReceiver' \in Shift(toReceiver)
        <5>1. rpc' = "packet"
          <6>1. ASSUME rpc = "start" PROVE FALSE
            <7>1. spc \in {"start", "hello"} /\ Given = 0
              BY <1>1, <2>2, <6>1 DEF Placed, Alive, Given
            <7>2. ~ (Given <= Latest)
              BY <7>1 DEF Latest
            <7> QED
              BY <4>2, <4>5, <7>2 DEF Byte, Packets
          <6> QED
            BY <1>2, <4>1, <6>1
        <5>2. Receiving' /\ Given' \in Nat
          BY <1>3, <1>4, <2>2 DEF IInv
        <5> QED
          BY <1>4, <2>5, <2>9, <4>1, <4>5, <5>1, <5>2, Breaks
      <4> QED
        BY <2>9, <4>3, <4>4, <4>5
    <3> QED
      BY <2>4, <3>2, <3>3
  <2> QED
    BY <1>5, <2>8, <2>9
<1> QED
  BY <1>3, <1>7, <1>8, <1>9, <1>10 DEF Account

-----------------------------------------------------------------------------
LEMMA AccountInitially == Init => Account
<1> SUFFICES ASSUME Init PROVE Account
  OBVIOUS
<1>1. IInv
  BY Initially
<1>2. Placed
  BY DEF Init, Placed
<1>3. /\ toReceiver = <<>> /\ toSender = <<>> /\ file = <<>>
      /\ spc = "start" /\ size = 0 /\ received = 0 /\ rpc = "start" /\ faults = 0
      /\ sresult = "running" /\ rresult = "running"
  BY DEF Init
<1>4. Ordered
  BY <1>3, Sayings DEF Ordered, Numbered, Sorted
<1>5. Ended
  BY <1>3, Sayings DEF Ended, Past
<1>6. Exact
  <2>1. Latest = -1 /\ Given = 0 /\ Owed = 0
    BY <1>3, Sayings DEF Latest, Given, Owed, Acked
  <2>2. Chain(toReceiver, Given, Latest)
    BY <1>3, <2>1, ChainOfNone
  <2> QED
    BY <1>3, <2>1, <2>2, Sayings DEF Exact
<1> QED
  BY <1>1, <1>2, <1>4, <1>5, <1>6 DEF Account, Going

LEMMA AccountStays == Account /\ [Next]_vars => Account'
<1> SUFFICES ASSUME Account, [Next]_vars PROVE Account'
  OBVIOUS
<1>1. CASE UNCHANGED vars
  BY <1>1, Inductive
  DEF vars, line, sender, receiver, Account, Placed, Ordered, Ended, Past, Going,
      Exact, Early, Behind, Closed, Broken, Number, Alive, Owed, Acked, Latest, Given
<1> QED
  BY <1>1, SenderAccount, ReceiverAccount, FaultAccount DEF Next

(* Neither Ymodem_Transmit nor Ymodem_Receive reports a success that is    *)
(* none after one fault of the line, wherever it falls, for a file of any  *)
(* length and any number of errors and time-outs allowed.                  *)
THEOREM SuccessIsTrue == Spec => []NoFalseSuccess
<1>1. Account => NoFalseSuccess
  <2> SUFFICES ASSUME Account, faults <= 1, sresult = "0" \/ rresult = "size"
               PROVE  file = Whole
    BY DEF NoFalseSuccess, SentIsStored, ReceivedIsWhole
  <2>1. Len(file) = Blocks
    BY DEF Account, Ended, Past
  <2>2. file \in Seq(0 .. Blocks) /\ \A i \in 1 .. Len(file) : file[i] = i
    BY DEF Account, IInv, Stored
  <2>3. /\ Whole \in Seq(0 .. Blocks) /\ Len(Whole) = Blocks
        /\ \A i \in 1 .. Blocks : Whole[i] = i
    BY Constants DEF Whole
  <2>4. \A i \in 1 .. Len(file) : file[i] = Whole[i]
    BY <2>1, <2>2, <2>3
  <2> QED
    BY <2>1, <2>2, <2>3, <2>4, SeqEqual
<1>2. Spec => []Account
  BY AccountInitially, AccountStays, PTL DEF Spec
<1> QED
  BY <1>1, <1>2, PTL
-----------------------------------------------------------------------------
(* Two ends that give each other two errors at least, and a line that has  *)
(* done nothing to what it carries, to a disk with room.                   *)
Patient == HelloTries >= 2 /\ AckTries >= 2 /\ MaxErrors >= 2

Undisturbed == /\ Patient /\ ~ hasty /\ faults = 0
               /\ rresult \notin {"1", "-2", "-4"}

(***************************************************************************)
(* What CleanTransfer says of each state on the way to its end: no end of  *)
(* an undisturbed transfer gives up, nothing is sent twice, and an end     *)
(* that has finished says that the file arrived, which it has.             *)
(***************************************************************************)
CleanSoFar ==
  Undisturbed =>
    /\ sresult \in {"running", "0"} /\ rresult \in {"running", "size"}
    /\ resends = 0
    /\ sresult = "0" => rresult = "size"
    /\ rresult = "size" => file = Whole

\* All that is on the line.
Silent        == toReceiver = <<>> /\ toSender = <<>>
Saying(s)      == toReceiver = <<s>> /\ toSender = <<>>
Answering(w)    == toReceiver = <<>> /\ toSender = w

\* The receiver has stored n blocks after the name.
HasStored(n) == /\ rpc = "packet" /\ rresult = "running"
           /\ size = Blocks /\ Len(file) = n /\ received = n + 1 /\ errors = 0

\* The receiver waits for the name, after so many errors.
Unnamed(n) == rpc = "packet" /\ rresult = "running" /\ received = 0 /\ errors <= n

Unstarted == rpc = "start" /\ rresult = "running" /\ received = 0 /\ errors = 0

\* What the dialogue is at each place of the sender.
AtStart ==
  /\ toReceiver = <<>> /\ tries = 0
  /\ \/ Unstarted /\ toSender = <<>>
     \/ Unnamed(0) /\ toSender = <<>>
     \/ Unnamed(1) /\ toSender = <<Byte("C")>>

AtHello ==
  /\ tries <= 1
  /\ \/ Unstarted /\ Saying(Byte("C")) /\ tries = 0
     \/ Unnamed(1) /\ Saying(Byte("C"))
     \/ Unnamed(0) /\ Silent /\ tries = 0
     \/ Unnamed(2) /\ Answering(<<Byte("C")>>)

AtName ==
  \/ Unnamed(2) /\ Saying(Packet("name", 0))
  \/ HasStored(0) /\ Answering(<<Byte("ACK"), Byte("C")>>)

AtNameC == HasStored(0) /\ Answering(<<Byte("C")>>)

AtBlock ==
  \/ HasStored(block - 1) /\ Saying(Packet("data", block))
  \/ HasStored(block) /\ Answering(<<Byte("ACK")>>)

\* The receiver is past the EOT of a file.
Filed(n) == Unnamed(n) /\ size = Blocks

AtEOT ==
  \/ HasStored(Blocks) /\ Saying(Byte("EOT"))
  \/ Filed(0) /\ Answering(<<Byte("ACK")>>)

AtEOTC ==
  \/ /\ Filed(0) /\ Silent /\ "receiver" \notin expired
     /\ tries = IF "sender" \in expired THEN 1 ELSE 0
  \/ Filed(1) /\ Answering(<<Byte("C")>>)

Finished == rpc = "done" /\ rresult = "size"

AtLast ==
  \/ Filed(1) /\ Saying(Packet("last", 0))
  \/ Finished /\ Answering(<<Byte("ACK")>>)

Dialogue ==
  /\ sresult = IF spc = "done" THEN "0" ELSE "running"
  /\ resends = 0
  /\ spc = "start" => AtStart
  /\ spc = "hello" => AtHello
  /\ spc = "name"  => AtName
  /\ spc = "nameC" => AtNameC
  /\ spc = "block" => AtBlock
  /\ spc = "eot"   => AtEOT
  /\ spc = "eotC"  => AtEOTC
  /\ spc = "last"  => AtLast
  /\ spc = "done"  => Finished

Courteous ==
  /\ rpc # "done" => rresult = "running"
  /\ Undisturbed => Dialogue

LEMMA Short ==
  /\ \A s : <<s>> # <<>> /\ Head(<<s>>) = s /\ Tail(<<s>>) = <<>>
  /\ \A s, t : /\ <<s, t>> # <<>> /\ Head(<<s, t>>) = s
               /\ Tail(<<s, t>>) = <<t>>
  /\ \A w \in Words : <<>> \o w = w
<1>1. \A s : <<s>> # <<>> /\ Head(<<s>>) = s /\ Tail(<<s>>) = <<>>
  OBVIOUS
<1>2. \A s, t : /\ <<s, t>> # <<>> /\ Head(<<s, t>>) = s
                /\ Tail(<<s, t>>) = <<t>>
  OBVIOUS
<1>3. \A w \in Words : <<>> \o w = w
  BY ConcatEmptySeq DEF Words
<1> QED
  BY <1>1, <1>2, <1>3

(* Nobody's second passes while there is something for the other to read.  *)
LEMMA SenderWaits ==
  ASSUME ~ hasty, rpc # "done", spc # "start",
         toSender = <<>>, toReceiver # <<>>
  PROVE  ~ Sender
<1>1. ~ Second("sender", "receiver", toReceiver, rpc # "done")
  BY DEF Second
<1> QED
  BY <1>1
  DEF Sender, SendStart, HelloTimeout, HelloAnswer, SenderAdvance, SenderResend,
      SenderCancelled, SenderGiveUp, SenderTimeout, SenderReads

LEMMA ReceiverWaits ==
  ASSUME ~ hasty, spc # "done", rpc # "start",
         toReceiver = <<>>, toSender # <<>>
  PROVE  ~ Receiver
<1>1. ~ Second("receiver", "sender", toSender, spc # "done")
  BY DEF Second
<1> QED
  BY <1>1
  DEF Receiver, ReceiveStart, ReceiveTimeout, ReceiveBad, ReceiveSplit, ReceiveCA,
      ReceiveCancel, ReceiveAbort, ReceiveEOT, ReceiveOther, ReceiveName,
      ReceiveLast, ReceiveData, ReceiverReads

(* An end that is done does nothing more.                                  *)
LEMMA BothStop ==
  /\ spc = "done" => ~ Sender
  /\ rpc = "done" => ~ Receiver
<1>1. spc = "done" => ~ Sender
  BY DEF Sender, SendStart, HelloTimeout, HelloAnswer, SenderAdvance,
     SenderResend, SenderCancelled, SenderGiveUp, SenderTimeout, SenderReads,
     Wants, Repeats
<1>2. rpc = "done" => ~ Receiver
  BY DEF Receiver, ReceiveStart, ReceiveTimeout, ReceiveBad, ReceiveSplit,
     ReceiveCA, ReceiveCancel, ReceiveAbort, ReceiveEOT, ReceiveOther, ReceiveName,
     ReceiveLast, ReceiveData, Receives
<1> QED
  BY <1>1, <1>2

(* The byte WaitACK waits for takes the sender on.                         *)
LEMMA SenderHears ==
  ASSUME Sender, spc \in DOMAIN Wants, toSender # <<>>,
         Head(toSender) = Byte(Wants[spc])
  PROVE  SenderAdvance
<1>1. Head(toSender).what = Wants[spc] /\ Wants[spc] \in {"ACK", "C"}
  BY DEF Byte, Wants
<1>2. spc \notin {"start", "hello"}
  BY DEF Wants
<1>3. ~ SendStart /\ ~ HelloTimeout /\ ~ HelloAnswer /\ ~ SenderTimeout
  BY <1>2 DEF SendStart, HelloTimeout, HelloAnswer, SenderTimeout
<1>4. ~ SenderResend /\ ~ SenderCancelled /\ ~ SenderGiveUp
  BY <1>1 DEF SenderResend, SenderCancelled, SenderGiveUp, SenderReads
<1> QED
  BY <1>3, <1>4 DEF Sender

(* What a step of the sender leaves as it is, at a place where it reads.   *)
LEMMA OnToNext ==
  ASSUME IInv, SenderAdvance, toReceiver = <<>>, spc \in DOMAIN Wants
  PROVE  /\ toSender' = Tail(toSender) /\ toReceiver' = Sends(spc', block')
         /\ expired' = {} /\ tries' = 0 /\ resends' = 0
         /\ UNCHANGED receiver
<1>1. PICK b \in Control : SenderReads(b)
  BY DEF SenderAdvance
<1>2. toReceiver' = <<>> \o Sends(spc', block')
  BY DEF SenderAdvance, ToReceiver
<1>3. Sending'
  BY SenderStep DEF Sender
<1>4. Sends(spc', block') \in Words
  BY <1>3, Sent, Constants DEF Sending
<1> QED
  BY <1>1, <1>2, <1>4, Short DEF SenderAdvance, SenderReads, Heard

LEMMA SenderCivil ==
  ASSUME IInv, Placed, Undisturbed, Dialogue, Sender
  PROVE  Dialogue'
<1>0. /\ UNCHANGED receiver /\ ~ hasty /\ Sending /\ spc \in SenderPlaces
      /\ \A b \in Control : <<Byte(b)>> \in Words
      /\ HelloTries >= 2 /\ AckTries >= 2 /\ HelloTries \in Nat /\ AckTries \in Nat
      /\ tries \in Nat /\ block \in 0 .. Blocks + 1
      /\ Blocks \in Nat /\ Blocks > 0
  BY SenderStep, Bytes, YmodemAssumption
  DEF Undisturbed, Patient, IInv, Sending
<1>00. /\ <<Byte("C")>> \in Words /\ <<Packet("name", 0)>> \in Words
       /\ resends = 0
  <2>1. "C" \in Control /\ "name" \in Packets \union {"bad"} /\ 0 \in 0 .. Blocks
    BY <1>0 DEF Control, Packets
  <2> QED
    BY <1>0, <2>1, AllPackets DEF Dialogue
<1>1. CASE spc = "start"
  <2>1. SendStart
    BY <1>1
    DEF Sender, HelloTimeout, HelloAnswer, SenderAdvance, SenderResend,
        SenderCancelled, SenderGiveUp, SenderTimeout, SenderReads, Wants, Repeats
  <2>2. AtStart
    BY <1>1 DEF Dialogue
  <2>3. toReceiver' = <<Byte("C")>> /\ toSender' = <<>> /\ spc' = "hello"
        /\ UNCHANGED <<tries, resends, sresult>>
    BY <2>1, <2>2, <1>00, Short DEF SendStart, AtStart, ToReceiver
  <2>4. AtHello'
    BY <2>2, <2>3, <1>0
    DEF AtStart, AtHello, Unstarted, Unnamed, Saying, receiver, IInv, Receiving
  <2> QED
    BY <1>1, <2>3, <2>4, <1>00 DEF Dialogue
<1>2. CASE spc = "hello"
  <2>1. AtHello
    BY <1>2 DEF Dialogue
  <2>2. rpc # "done" /\ tries <= 1
    BY <2>1 DEF AtHello, Unstarted, Unnamed
  <2>3. CASE toReceiver # <<>>
    <3>1. toSender = <<>>
      BY <2>1, <2>3 DEF AtHello, Saying, Silent, Answering
    <3> QED
      BY <1>0, <1>2, <2>2, <2>3, <3>1, SenderWaits
  <2>4. CASE Unnamed(0) /\ Silent /\ tries = 0
    <3>1. HelloTimeout
      BY <1>2, <2>4
      DEF Sender, SendStart, HelloAnswer, SenderAdvance, SenderResend,
          SenderCancelled, SenderGiveUp, SenderTimeout, SenderReads, Wants,
          Repeats, Silent
    <3>2. /\ toReceiver' = <<Byte("C")>> /\ toSender' = <<>> /\ spc' = "hello"
          /\ tries' = 1 /\ UNCHANGED <<resends, sresult>>
      BY <1>0, <1>00, <1>2, <2>4, <3>1, Short
      DEF HelloTimeout, ToReceiver, Silent
    <3>3. Unnamed(1)'
      BY <2>4, <1>0 DEF Unnamed, receiver, IInv, Receiving
    <3>4. AtHello'
      BY <3>2, <3>3 DEF AtHello, Saying
    <3> QED
      BY <1>2, <3>2, <3>4, <1>00 DEF Dialogue
  <2>5. CASE Unnamed(2) /\ Answering(<<Byte("C")>>)
    <3>1. toSender = <<Byte("C")>> /\ toReceiver = <<>>
      BY <2>5 DEF Answering
    <3>2. toSender # <<>> /\ Head(toSender) = Byte("C") /\ Tail(toSender) = <<>>
      BY <3>1, Short
    <3>3. HelloAnswer
      BY <1>2, <3>2
      DEF Sender, SendStart, HelloTimeout, SenderAdvance, SenderResend,
          SenderCancelled, SenderGiveUp, SenderTimeout, SenderReads, Wants,
          Repeats
    <3>4. tries < HelloTries
      BY <1>0, <2>2
    <3>5. /\ toSender' = <<>> /\ spc' = "name" /\ UNCHANGED <<resends, sresult>>
          /\ toReceiver' = toReceiver \o Sends("name", 0)
      BY <3>2, <3>3, <3>4 DEF HelloAnswer, ToReceiver
    <3>6. toReceiver' = <<Packet("name", 0)>>
      BY <1>00, <3>1, <3>5, Short DEF Sends
    <3>7. AtName'
      BY <2>5, <3>5, <3>6, <1>0 DEF AtName, Unnamed, Saying, receiver
    <3> QED
      BY <1>2, <3>5, <3>7, <1>00 DEF Dialogue
  <2> QED
    BY <2>1, <2>3, <2>4, <2>5, Short DEF AtHello, Saying
<1>3. CASE spc \in DOMAIN Wants /\ toReceiver # <<>>
  <2>1. rpc # "done" /\ toSender = <<>> /\ spc # "start"
    BY <1>3, Short
    DEF Dialogue, Wants, AtName, AtNameC, AtBlock, AtEOT, AtEOTC, AtLast, Saying,
        Answering, Silent, HasStored, Filed, Unnamed
  <2> QED
    BY <1>0, <1>3, <2>1, SenderWaits
<1>4. CASE spc = "name" /\ HasStored(0)
             /\ Answering(<<Byte("ACK"), Byte("C")>>)
  <2>1. /\ toSender # <<>> /\ Head(toSender) = Byte("ACK")
        /\ Tail(toSender) = <<Byte("C")>> /\ toReceiver = <<>>
    BY <1>4, Short DEF Answering
  <2>2. SenderAdvance /\ spc \in DOMAIN Wants
    BY <1>4, <2>1, SenderHears DEF Wants
  <2>3. /\ spc' = "nameC" /\ UNCHANGED sresult
    BY <1>4, <2>2 DEF SenderAdvance
  <2>4. /\ toSender' = <<Byte("C")>> /\ toReceiver' = Sends(spc', block')
        /\ resends' = 0
    BY <2>1, <2>2, OnToNext
  <2>5. AtNameC'
    BY <1>0, <1>4, <2>3, <2>4
    DEF AtNameC, HasStored, Answering, Sends, receiver
  <2> QED
    BY <1>4, <2>3, <2>4, <2>5 DEF Dialogue
<1>5. CASE spc = "nameC"
  <2>1. /\ toSender # <<>> /\ Head(toSender) = Byte("C")
        /\ Tail(toSender) = <<>> /\ toReceiver = <<>> /\ HasStored(0)
    BY <1>5, Short DEF Dialogue, AtNameC, Answering
  <2>2. SenderAdvance /\ spc \in DOMAIN Wants /\ block = 0
    BY <1>5, <2>1, <1>0, SenderHears DEF Wants, Sending
  <2>3. spc' = "block" /\ UNCHANGED sresult /\ block' = 1
    BY <1>5, <2>2 DEF SenderAdvance
  <2>4. /\ toSender' = <<>> /\ toReceiver' = Sends(spc', block') /\ resends' = 0
    BY <2>1, <2>2, OnToNext
  <2>5. toReceiver' = <<Packet("data", block')>>
    BY <2>3, <2>4 DEF Sends
  <2>6. HasStored(block - 1)'
    BY <1>0, <2>1, <2>3 DEF HasStored, receiver
  <2>7. AtBlock'
    BY <2>4, <2>5, <2>6 DEF AtBlock, Saying
  <2> QED
    BY <1>5, <2>3, <2>4, <2>7 DEF Dialogue
<1>6. CASE spc = "block" /\ HasStored(block) /\ Answering(<<Byte("ACK")>>)
  <2>1. /\ toSender # <<>> /\ Head(toSender) = Byte("ACK")
        /\ Tail(toSender) = <<>> /\ toReceiver = <<>>
    BY <1>6, Short DEF Answering
  <2>2. SenderAdvance /\ spc \in DOMAIN Wants /\ block \in 1 .. Blocks
    BY <1>6, <2>1, <1>0, SenderHears DEF Wants, Sending
  <2>3. /\ spc' = IF block < Blocks THEN "block" ELSE "eot"
        /\ UNCHANGED sresult /\ block' = block + 1
    BY <1>6, <2>2 DEF SenderAdvance
  <2>4. /\ toSender' = <<>> /\ toReceiver' = Sends(spc', block') /\ resends' = 0
    BY <2>1, <2>2, OnToNext
  <2>5. CASE block < Blocks
    <3>1. toReceiver' = <<Packet("data", block')>>
      BY <2>3, <2>4, <2>5 DEF Sends
    <3>2. HasStored(block - 1)'
      BY <1>0, <1>6, <2>2, <2>3 DEF HasStored, receiver
    <3>3. AtBlock'
      BY <2>4, <3>1, <3>2 DEF AtBlock, Saying
    <3> QED
      BY <1>6, <2>3, <2>4, <2>5, <3>3 DEF Dialogue
  <2>6. CASE block = Blocks
    <3>1. spc' = "eot"
      BY <1>0, <2>3, <2>6
    <3>2. toReceiver' = <<Byte("EOT")>>
      BY <2>4, <3>1 DEF Sends
    <3>3. HasStored(Blocks)'
      BY <1>0, <1>6, <2>6 DEF HasStored, receiver
    <3>4. AtEOT'
      BY <2>4, <3>2, <3>3 DEF AtEOT, Saying
    <3> QED
      BY <1>6, <2>3, <2>4, <3>1, <3>4 DEF Dialogue
  <2> QED
    BY <1>0, <2>2, <2>5, <2>6
<1>7. CASE spc = "eot" /\ Filed(0) /\ Answering(<<Byte("ACK")>>)
  <2>1. /\ toSender # <<>> /\ Head(toSender) = Byte("ACK")
        /\ Tail(toSender) = <<>> /\ toReceiver = <<>>
    BY <1>7, Short DEF Answering
  <2>2. SenderAdvance /\ spc \in DOMAIN Wants
    BY <1>7, <2>1, SenderHears DEF Wants
  <2>3. /\ spc' = "eotC" /\ UNCHANGED sresult
    BY <1>7, <2>2 DEF SenderAdvance
  <2>4. /\ toSender' = <<>> /\ toReceiver' = Sends(spc', block')
        /\ resends' = 0 /\ tries' = 0 /\ expired' = {}
    BY <2>1, <2>2, OnToNext
  <2>5. toReceiver' = <<>>
    BY <2>3, <2>4 DEF Sends
  <2>6. AtEOTC'
    BY <1>0, <1>7, <2>3, <2>4, <2>5
    DEF AtEOTC, Filed, Unnamed, Silent, receiver
  <2> QED
    BY <1>7, <2>3, <2>4, <2>6 DEF Dialogue
<1>8. CASE spc = "eotC" /\ Filed(0) /\ Silent
  <2>1. /\ "receiver" \notin expired
        /\ tries = IF "sender" \in expired THEN 1 ELSE 0
    BY <1>8, Short DEF Dialogue, AtEOTC, Answering, Silent
  <2>2. SenderTimeout
    BY <1>8
    DEF Sender, SendStart, HelloTimeout, HelloAnswer, SenderAdvance, SenderResend,
        SenderCancelled, SenderGiveUp, SenderReads, Silent
  <2>3. rpc # "done"
    BY <1>8 DEF Filed, Unnamed
  <2>4. Second("sender", "receiver", toReceiver, TRUE)
    BY <2>2, <2>3 DEF SenderTimeout
  <2>5. "sender" \notin expired /\ expired' = expired \union {"sender"}
    BY <1>0, <2>1, <2>4 DEF Second
  <2>6. tries = 0 /\ tries' = 1 /\ tries' < AckTries
    BY <1>0, <2>1, <2>2, <2>5 DEF SenderTimeout
  <2>7. UNCHANGED <<toReceiver, toSender, spc, sresult, resends>>
    BY <2>2, <2>6 DEF SenderTimeout
  <2>8. AtEOTC'
    BY <1>0, <1>8, <2>1, <2>5, <2>6, <2>7
    DEF AtEOTC, Filed, Unnamed, Silent, receiver
  <2> QED
    BY <1>8, <2>7, <2>8 DEF Dialogue
<1>9. CASE spc = "eotC" /\ Filed(1) /\ Answering(<<Byte("C")>>)
  <2>1. /\ toSender # <<>> /\ Head(toSender) = Byte("C")
        /\ Tail(toSender) = <<>> /\ toReceiver = <<>>
    BY <1>9, Short DEF Answering
  <2>2. SenderAdvance /\ spc \in DOMAIN Wants
    BY <1>9, <2>1, SenderHears DEF Wants
  <2>3. spc' = "last" /\ UNCHANGED sresult
    BY <1>9, <2>2 DEF SenderAdvance
  <2>4. /\ toSender' = <<>> /\ toReceiver' = Sends(spc', block') /\ resends' = 0
    BY <2>1, <2>2, OnToNext
  <2>5. toReceiver' = <<Packet("last", 0)>>
    BY <2>3, <2>4 DEF Sends
  <2>6. AtLast'
    BY <1>0, <1>9, <2>4, <2>5 DEF AtLast, Filed, Unnamed, Saying, receiver
  <2> QED
    BY <1>9, <2>3, <2>4, <2>6 DEF Dialogue
<1>10. CASE spc = "last" /\ Finished /\ Answering(<<Byte("ACK")>>)
  <2>1. /\ toSender # <<>> /\ Head(toSender) = Byte("ACK") /\ toReceiver = <<>>
    BY <1>10, Short DEF Answering
  <2>2. SenderAdvance /\ spc \in DOMAIN Wants
    BY <1>10, <2>1, SenderHears DEF Wants
  <2>3. spc' = "done" /\ sresult' = "0" /\ resends' = 0
    BY <1>10, <2>2 DEF SenderAdvance
  <2> QED
    BY <1>0, <1>10, <2>3 DEF Dialogue, Finished, receiver
<1>11. CASE spc = "done"
  BY <1>11, BothStop
<1>12. spc \in {"start", "hello", "done"} \/ spc \in DOMAIN Wants
  BY <1>0 DEF SenderPlaces
<1>13. ASSUME spc \in DOMAIN Wants, toReceiver = <<>>
       PROVE  \/ spc = "nameC"
              \/ spc = "name" /\ HasStored(0)
                   /\ Answering(<<Byte("ACK"), Byte("C")>>)
              \/ spc = "block" /\ HasStored(block) /\ Answering(<<Byte("ACK")>>)
              \/ spc = "eot" /\ Filed(0) /\ Answering(<<Byte("ACK")>>)
              \/ spc = "eotC" /\ Filed(0) /\ Silent
              \/ spc = "eotC" /\ Filed(1) /\ Answering(<<Byte("C")>>)
              \/ spc = "last" /\ Finished /\ Answering(<<Byte("ACK")>>)
  BY <1>13, Short
  DEF Dialogue, Wants, AtName, AtBlock, AtEOT, AtEOTC, AtLast, Saying
<1> QED
  BY <1>1, <1>2, <1>3, <1>4, <1>5, <1>6, <1>7, <1>8, <1>9, <1>10, <1>11, <1>12,
     <1>13

(* The last packet, as Readings says of the others.                        *)
LEMMA ReceiverHears ==
  ASSUME Receiver, rpc = "packet", toReceiver # <<>>
  PROVE  Head(toReceiver).what = "last" /\ Expected /\ received = 0
           => ReceiveLast
<1>1. ~ ReceiveStart /\ ~ ReceiveTimeout /\ ~ ReceiveSplit /\ ~ ReceiveCancel
  BY DEF ReceiveStart, ReceiveTimeout, ReceiveSplit, ReceiveCancel
<1> SUFFICES ASSUME Head(toReceiver).what = "last", Expected, received = 0
             PROVE  ReceiveLast
  OBVIOUS
<1> QED
  BY <1>1
  DEF Receiver, ReceiverReads, ReceiveBad, ReceiveCA, ReceiveAbort, ReceiveEOT,
      ReceiveOther, ReceiveName, ReceiveData

LEMMA Silenced ==
  ASSUME Receiver, rpc = "packet", toReceiver = <<>>
  PROVE  ReceiveTimeout
BY DEF Receiver, ReceiveStart, ReceiveBad, ReceiveSplit, ReceiveCA, ReceiveCancel,
       ReceiveAbort, ReceiveEOT, ReceiveOther, ReceiveName, ReceiveLast, ReceiveData,
       ReceiverReads

(* A 'C' of the receiver's that is not its last.                           *)
LEMMA AsksAgain ==
  ASSUME IInv, Complain("C"), errors < MaxErrors, toSender = <<>>, NEW n \in Nat,
         errors <= n, rresult = "running", received = 0
  PROVE  /\ toSender' = <<Byte("C")>> /\ Unnamed(n + 1)' /\ size' = size
         /\ errors' \in Nat
<1>1. errors \in Nat /\ MaxErrors \in Nat
  BY Constants DEF IInv, Receiving
<1>2. "C" \in Control
  BY DEF Control
<1>3. <<Byte("C")>> \in Words
  BY <1>2, Bytes
<1>4. ~ (errors + 1 > MaxErrors)
  BY <1>1
<1>5. toSender' = <<>> \o <<Byte("C")>>
  BY <1>4 DEF Complain, ToSender
<1>6. errors + 1 <= n + 1
  BY <1>1
<1> QED
  BY <1>1, <1>3, <1>4, <1>5, <1>6, Short DEF Complain, Unnamed

LEMMA ReceiverCivil ==
  ASSUME IInv, Placed, Undisturbed, Dialogue, Receiver,
         UNCHANGED <<sender, hasty, faults>>,
         rresult' \notin {"1", "-2", "-4"}
  PROVE  Dialogue'
<1>0. /\ ~ hasty /\ Sending /\ spc \in SenderPlaces /\ MaxErrors >= 2
      /\ block \in 0 .. Blocks + 1 /\ errors \in Nat /\ MaxErrors \in Nat
      /\ Blocks \in Nat /\ Blocks > 0 /\ SeqMod \in Nat /\ SeqMod > Blocks
      /\ Len(file) \in Nat
  BY Constants DEF Undisturbed, Patient, IInv, Sending, Receiving, Stored
<1>00. /\ <<Byte("C")>> \in Words /\ <<Byte("ACK")>> \in Words
       /\ <<Byte("ACK"), Byte("C")>> \in Words
       /\ <<>> \o <<Byte("C")>> = <<Byte("C")>>
       /\ <<>> \o <<Byte("ACK")>> = <<Byte("ACK")>>
       /\ <<>> \o <<Byte("ACK"), Byte("C")>> = <<Byte("ACK"), Byte("C")>>
  <2>1. "C" \in Control /\ "ACK" \in Control
    BY DEF Control
  <2> QED
    BY <2>1, Sayings, Short
<1>01. ASSUME /\ spc = "start" => AtStart'
              /\ spc = "hello" => AtHello'
              /\ spc = "name"  => AtName'
              /\ spc = "nameC" => AtNameC'
              /\ spc = "block" => AtBlock'
              /\ spc = "eot"   => AtEOT'
              /\ spc = "eotC"  => AtEOTC'
              /\ spc = "last"  => AtLast'
              /\ spc # "done"
       PROVE  Dialogue'
  BY <1>01 DEF Dialogue, sender
<1>1. CASE spc = "start"
  <2>1. AtStart
    BY <1>1 DEF Dialogue
  <2>2. CASE Unstarted /\ toSender = <<>>
    <3>1. ReceiveStart
      BY <2>2
      DEF Unstarted, Receiver, ReceiveTimeout, ReceiveBad, ReceiveSplit, ReceiveCA,
          ReceiveCancel, ReceiveAbort, ReceiveEOT, ReceiveOther, ReceiveName,
          ReceiveLast, ReceiveData, Receives
    <3>2. AtStart'
      BY <2>1, <2>2, <3>1 DEF AtStart, Unstarted, Unnamed, ReceiveStart, sender
    <3> QED
      BY <1>01, <1>1, <3>2
  <2>3. CASE Unnamed(0) /\ toSender = <<>>
    <3>1. ReceiveTimeout /\ toReceiver = <<>>
      BY <2>1, <2>3, Silenced DEF AtStart, Unnamed
    <3>2. Complain("C") /\ toReceiver' = <<>> /\ tries' = 0
      BY <2>1, <3>1 DEF ReceiveTimeout, AtStart, sender
    <3>3. toSender' = <<Byte("C")>> /\ Unnamed(0 + 1)'
      BY <1>0, <2>3, <3>2, AsksAgain DEF Unnamed
    <3>4. AtStart'
      BY <3>2, <3>3 DEF AtStart
    <3> QED
      BY <1>01, <1>1, <3>4
  <2>4. CASE Unnamed(1) /\ toSender = <<Byte("C")>>
    <3>1. toReceiver = <<>> /\ toSender # <<>> /\ rpc # "start"
      BY <2>1, <2>4, Short DEF AtStart, Unnamed
    <3> QED
      BY <1>0, <1>1, <3>1, ReceiverWaits
  <2> QED
    BY <2>1, <2>2, <2>3, <2>4 DEF AtStart
<1>2. CASE spc # "start" /\ spc # "done" /\ rpc # "start" /\ toSender # <<>>
  <2>1. toReceiver = <<>>
    <3>1. spc \in {"hello"} \union DOMAIN Wants
      BY <1>0, <1>2 DEF SenderPlaces
    <3> QED
      BY <1>2, <3>1
      DEF Dialogue, Wants, AtHello, AtName, AtNameC, AtBlock, AtEOT, AtEOTC, AtLast,
          Saying, Answering, Silent
  <2> QED
    BY <1>0, <1>2, <2>1, ReceiverWaits
<1>3. CASE spc = "hello" /\ toSender = <<>>
  <2>1. AtHello /\ tries <= 1 /\ tries' = tries
    BY <1>3 DEF Dialogue, AtHello, sender
  <2>2. CASE Unstarted /\ Saying(Byte("C")) /\ tries = 0
    <3>1. ReceiveStart
      BY <2>2
      DEF Unstarted, Receiver, ReceiveTimeout, ReceiveBad, ReceiveSplit, ReceiveCA,
          ReceiveCancel, ReceiveAbort, ReceiveEOT, ReceiveOther, ReceiveName,
          ReceiveLast, ReceiveData, Receives
    <3>2. Unnamed(0)'
      BY <2>2, <3>1 DEF Unstarted, Unnamed, ReceiveStart
    <3>3. Silent' /\ tries' = 0
      BY <2>1, <2>2, <3>1 DEF Silent, Saying, ReceiveStart
    <3>4. AtHello'
      BY <3>2, <3>3 DEF AtHello
    <3> QED
      BY <1>01, <1>3, <3>4
  <2>3. CASE Unnamed(1) /\ Saying(Byte("C"))
    <3>1. /\ toReceiver # <<>> /\ Head(toReceiver) = Byte("C")
          /\ Tail(toReceiver) = <<>> /\ toSender = <<>>
      BY <2>3, Short DEF Saying
    <3>2. ReceiveBad /\ rpc = "packet"
      BY <2>3, <3>1, Readings DEF Unnamed, Byte
    <3>3. Complain("C") /\ toReceiver' = <<>>
      BY <3>1, <3>2 DEF ReceiveBad, ReceiverReads
    <3>4. toSender' = <<Byte("C")>> /\ Unnamed(1 + 1)'
      BY <1>0, <2>3, <3>1, <3>3, AsksAgain DEF Unnamed
    <3>5. AtHello'
      BY <2>1, <3>3, <3>4 DEF AtHello, Answering
    <3> QED
      BY <1>01, <1>3, <3>5
  <2>4. CASE Unnamed(0) /\ Silent /\ tries = 0
    <3>1. ReceiveTimeout /\ toReceiver = <<>> /\ toSender = <<>>
      BY <2>4, Silenced DEF Unnamed, Silent
    <3>2. Complain("C") /\ toReceiver' = <<>>
      BY <3>1 DEF ReceiveTimeout
    <3>3. toSender' = <<Byte("C")>> /\ Unnamed(0 + 1)' /\ errors' \in Nat
      BY <1>0, <2>4, <3>1, <3>2, AsksAgain DEF Unnamed
    <3>4. AtHello'
      BY <2>1, <3>2, <3>3 DEF AtHello, Answering, Unnamed
    <3> QED
      BY <1>01, <1>3, <3>4
  <2> QED
    BY <1>3, <2>1, <2>2, <2>3, <2>4, Short DEF AtHello, Answering
<1>4. CASE spc = "name" /\ toSender = <<>>
  <2>1. Unnamed(2) /\ Saying(Packet("name", 0))
    BY <1>4, Short DEF Dialogue, AtName, Answering
  <2>2. /\ toReceiver # <<>> /\ Head(toReceiver) = Packet("name", 0)
        /\ Tail(toReceiver) = <<>> /\ rpc = "packet" /\ received = 0
    BY <2>1, Short DEF Saying, Unnamed
  <2>3. Head(toReceiver).what = "name" /\ Expected
    BY <2>2 DEF Packet, Expected
  <2>4. ReceiveName
    BY <2>2, <2>3, Readings
  <2>5. /\ toReceiver' = <<>> /\ toSender' = <<Byte("ACK"), Byte("C")>>
        /\ size' = Blocks /\ file' = <<>> /\ received' = 1 /\ errors' = 0
        /\ rpc' = "packet" /\ rresult' = "running"
    BY <1>4, <1>00, <2>1, <2>2, <2>4
    DEF ReceiveName, ReceiverReads, ToSender, Refuse, ReceiverExit, Unnamed
  <2>6. AtName'
    <3>1. Len(file') = 0
      BY <2>5
    <3> QED
      BY <2>5, <3>1 DEF AtName, HasStored, Answering
  <2> QED
    BY <1>01, <1>4, <2>6
<1>5. CASE spc = "block" /\ toSender = <<>>
  <2>1. HasStored(block - 1) /\ Saying(Packet("data", block))
        /\ block \in 1 .. Blocks
    BY <1>0, <1>5, Short DEF Dialogue, AtBlock, Answering, Sending
  <2>2. /\ toReceiver # <<>> /\ Head(toReceiver) = Packet("data", block)
        /\ Tail(toReceiver) = <<>> /\ rpc = "packet" /\ received = block
        /\ size = Blocks /\ Len(file) = block - 1 /\ Len(file) < size
        /\ received > 0
    BY <1>0, <2>1, Short DEF Saying, HasStored
  <2>3. Head(toReceiver).what = "data" /\ Expected
    BY <2>2 DEF Packet, Expected
  <2>4. ReceiveData
    BY <2>2, <2>3, Readings
  <2>5. /\ toReceiver' = <<>> /\ toSender' = <<Byte("ACK")>>
        /\ file' = Append(file, Head(toReceiver).no)
        /\ received' = received + 1 /\ errors' = 0
        /\ rpc' = "packet" /\ rresult' = "running" /\ size' = Blocks
    BY <1>5, <1>00, <2>1, <2>2, <2>4
    DEF ReceiveData, ReceiverReads, ToSender, Refuse, ReceiverExit, HasStored
  <2>6. Len(file') = block
    <3>1. file \in Seq(0 .. Blocks) /\ Head(toReceiver).no \in 0 .. Blocks
      BY <1>0, <2>1, <2>2 DEF IInv, Stored, Packet
    <3>2. Len(file') = Len(file) + 1
      BY <2>5, <3>1, AppendProperties
    <3> QED
      BY <1>0, <2>2, <3>2
  <2>7. AtBlock'
    <3>1. block' = block
      BY DEF sender
    <3> QED
      BY <1>0, <2>2, <2>5, <2>6, <3>1 DEF AtBlock, HasStored, Answering
  <2> QED
    BY <1>01, <1>5, <2>7
<1>6. CASE spc = "eot" /\ toSender = <<>>
  <2>1. HasStored(Blocks) /\ Saying(Byte("EOT"))
    BY <1>6, Short DEF Dialogue, AtEOT, Answering
  <2>2. /\ toReceiver # <<>> /\ Head(toReceiver) = Byte("EOT")
        /\ Tail(toReceiver) = <<>> /\ rpc = "packet"
    BY <2>1, Short DEF Saying, HasStored
  <2>3. ReceiveEOT
    BY <2>2, Readings DEF Byte
  <2>4. /\ toReceiver' = <<>> /\ toSender' = <<Byte("ACK")>> /\ received' = 0
        /\ UNCHANGED <<rpc, errors, size, file, rresult>>
    BY <1>6, <1>00, <2>2, <2>3 DEF ReceiveEOT, ReceiverReads, ToSender
  <2>5. AtEOT'
    BY <2>1, <2>4 DEF AtEOT, HasStored, Filed, Unnamed, Answering
  <2> QED
    BY <1>01, <1>6, <2>5
<1>7. CASE spc = "eotC" /\ toSender = <<>>
  <2>1. Filed(0) /\ Silent
    BY <1>7, Short DEF Dialogue, AtEOTC, Answering
  <2>2. ReceiveTimeout /\ toReceiver = <<>>
    BY <2>1, Silenced DEF Filed, Unnamed, Silent
  <2>3. Complain("C") /\ toReceiver' = <<>>
    BY <2>2 DEF ReceiveTimeout
  <2>4. /\ errors < MaxErrors /\ errors <= 0 /\ toSender = <<>>
        /\ rresult = "running" /\ received = 0 /\ size = Blocks
    BY <1>0, <1>7, <2>1 DEF Filed, Unnamed
  <2>5. toSender' = <<Byte("C")>> /\ Unnamed(0 + 1)' /\ size' = size
    BY <2>3, <2>4, AsksAgain
  <2>6. AtEOTC'
    BY <2>3, <2>4, <2>5 DEF AtEOTC, Filed, Answering
  <2> QED
    BY <1>01, <1>7, <2>6
<1>8. CASE spc = "last" /\ toSender = <<>>
  <2>1. Filed(1) /\ Saying(Packet("last", 0))
    BY <1>8, Short DEF Dialogue, AtLast, Answering
  <2>2. /\ toReceiver # <<>> /\ Head(toReceiver) = Packet("last", 0)
        /\ Tail(toReceiver) = <<>> /\ rpc = "packet" /\ received = 0
        /\ size = Blocks
    BY <2>1, Short DEF Saying, Filed, Unnamed
  <2>3. Head(toReceiver).what = "last" /\ Expected
    BY <2>2 DEF Packet, Expected
  <2>4. ReceiveLast
    BY <2>2, <2>3, ReceiverHears
  <2>5. /\ toReceiver' = <<>> /\ toSender' = <<Byte("ACK")>>
        /\ rpc' = "done" /\ rresult' = "size"
    BY <1>0, <1>8, <1>00, <2>2, <2>4
    DEF ReceiveLast, ReceiverReads, ToSender, ReceiverExit
  <2>6. AtLast'
    BY <2>5 DEF AtLast, Finished, Answering
  <2> QED
    BY <1>01, <1>8, <2>6
<1>9. CASE spc = "done"
  BY <1>9, BothStop DEF Dialogue, Finished
<1>10. spc = "nameC" => toSender # <<>>
  BY Short DEF Dialogue, AtNameC, Answering
<1>11. spc \notin {"start", "hello"} => rpc # "start" \/ spc = "done"
  BY DEF Placed
<1>12. spc = "hello" /\ toSender # <<>> => rpc # "start"
  BY DEF Placed
<1>13. spc \in {"start", "hello", "name", "nameC", "block", "eot", "eotC", "last",
                "done"}
  BY <1>0 DEF SenderPlaces, Wants
<1> QED
  BY <1>1, <1>2, <1>3, <1>4, <1>5, <1>6, <1>7, <1>8, <1>9, <1>10, <1>11, <1>12,
     <1>13

(* What Ymodem_Receive returned, once it has, stays what it is.            *)
LEMMA ResultStays ==
  ASSUME IInv, rpc # "done" => rresult = "running", [Next]_vars
  PROVE  /\ rpc' # "done" => rresult' = "running"
         /\ rresult # "running" => rresult' = rresult
<1>1. CASE Receiver
  <2>1. rpc # "done"
    BY <1>1, BothStop
  <2>2. rpc' = "done" \/ UNCHANGED rresult
    BY <1>1
    DEF Receiver, ReceiveStart, ReceiveTimeout, ReceiveBad, ReceiveSplit, ReceiveCA,
        ReceiveCancel, ReceiveAbort, ReceiveEOT, ReceiveOther, ReceiveName,
        ReceiveLast, ReceiveData, Complain, Refuse, ReceiverExit
  <2> QED
    BY <2>1, <2>2
<1>2. CASE Sender
  BY <1>2, SenderStep DEF receiver
<1>3. CASE Fault \/ UNCHANGED vars
  BY <1>3 DEF Fault, vars, receiver
<1> QED
  BY <1>1, <1>2, <1>3 DEF Next

LEMMA CourteousStays == Account /\ Courteous /\ [Next]_vars => Courteous'
<1> SUFFICES ASSUME Account, Courteous, [Next]_vars PROVE Courteous'
  OBVIOUS
<1>0. IInv /\ Placed /\ faults \in Nat
  BY Constants DEF Account, IInv, Line
<1>1. /\ rpc' # "done" => rresult' = "running"
      /\ rresult # "running" => rresult' = rresult
  BY <1>0, ResultStays DEF Courteous
<1>2. ASSUME Undisturbed' PROVE Dialogue'
  <2>1. hasty' = hasty
    BY DEF Next, Sender, SendStart, HelloTimeout, HelloAnswer, SenderAdvance,
       SenderResend, SenderCancelled, SenderGiveUp, SenderTimeout, Receiver,
       ReceiveStart, ReceiveTimeout, ReceiveBad, ReceiveSplit, ReceiveCA,
       ReceiveCancel, ReceiveAbort, ReceiveEOT, ReceiveOther, ReceiveName,
       ReceiveLast, ReceiveData, Fault, vars, line
  <2>2. ~ Fault
    BY <1>0, <1>2 DEF Fault, Undisturbed
  <2>3. CASE Sender
    <3>1. faults' = faults /\ UNCHANGED receiver
      BY <1>0, <2>3, SenderStep
      DEF Sender, SendStart, HelloTimeout, HelloAnswer, SenderAdvance,
          SenderResend, SenderCancelled, SenderGiveUp, SenderTimeout
    <3>2. Undisturbed
      BY <1>2, <2>1, <3>1 DEF Undisturbed, receiver, Patient
    <3> QED
      BY <1>0, <2>3, <3>2, SenderCivil DEF Courteous
  <2>4. CASE Receiver
    <3>1. UNCHANGED <<sender, hasty, faults>>
      BY <2>4
      DEF Receiver, ReceiveStart, ReceiveTimeout, ReceiveBad, ReceiveSplit,
          ReceiveCA, ReceiveCancel, ReceiveAbort, ReceiveEOT, ReceiveOther,
          ReceiveName, ReceiveLast, ReceiveData
    <3>2. Undisturbed /\ rresult' \notin {"1", "-2", "-4"}
      BY <1>1, <1>2, <3>1 DEF Undisturbed, Patient
    <3> QED
      BY <1>0, <2>4, <3>1, <3>2, ReceiverCivil DEF Courteous
  <2>5. CASE UNCHANGED vars
    <3>1. Undisturbed
      BY <1>2, <2>5 DEF Undisturbed, Patient, vars, line, receiver
    <3>2. Dialogue
      BY <3>1 DEF Courteous
    <3> QED
      BY <2>5, <3>2
      DEF vars, line, sender, receiver, Dialogue, AtStart, AtHello, AtName, AtNameC,
          AtBlock, AtEOT, AtEOTC, AtLast, Finished, Filed, Unnamed, Unstarted,
          HasStored, Saying, Answering, Silent
  <2> QED
    BY <2>2, <2>3, <2>4, <2>5 DEF Next
<1> QED
  BY <1>1, <1>2 DEF Courteous

(* Between ends that wait for each other, on a line without faults and to  *)
(* a disk with room, neither gives up, nothing is sent twice, and an end   *)
(* that has finished says truly that the file has arrived.                 *)
THEOREM NothingGoesWrong == Spec => []CleanSoFar
<1>1. Init => Courteous
  <2> SUFFICES ASSUME Init PROVE Courteous
    OBVIOUS
  <2>1. Unstarted
    BY DEF Init, Unstarted
  <2>2. AtStart
    BY <2>1 DEF Init, AtStart
  <2>3. Dialogue
    BY <2>2 DEF Init, Dialogue
  <2> QED
    BY <2>3 DEF Courteous, Init
<1>2. Account /\ Courteous /\ NoFalseSuccess => CleanSoFar
  <2> SUFFICES ASSUME Account, Courteous, NoFalseSuccess, Undisturbed
               PROVE  /\ sresult \in {"running", "0"}
                      /\ rresult \in {"running", "size"} /\ resends = 0
                      /\ sresult = "0" => rresult = "size"
                      /\ rresult = "size" => file = Whole
    BY DEF CleanSoFar
  <2>1. Dialogue /\ (rpc # "done" => rresult = "running")
    BY DEF Courteous
  <2>2. /\ sresult \in {"running", "0"} /\ resends = 0
        /\ sresult = "0" => rresult = "size"
    BY <2>1 DEF Dialogue, Finished
  <2>3. rresult = "size" => file = Whole
    BY DEF NoFalseSuccess, ReceivedIsWhole, Undisturbed
  <2>4. rresult \in {"running", "size"}
    <3>1. spc \in {"start", "hello", "name", "nameC", "block", "eot", "eotC",
                   "last", "done"}
      BY DEF Account, IInv, Sending, SenderPlaces, Wants
    <3> QED
      BY <2>1, <3>1
      DEF Dialogue, AtStart, AtHello, AtName, AtNameC, AtBlock, AtEOT, AtEOTC,
          AtLast, Finished, Filed, Unnamed, Unstarted, HasStored
  <2> QED
    BY <2>2, <2>3, <2>4
<1>3. Spec => []Account
  BY AccountInitially, AccountStays, PTL DEF Spec
<1>4. Spec => []Courteous
  BY <1>1, <1>3, CourteousStays, PTL DEF Spec
<1> QED
  BY <1>2, <1>3, <1>4, SuccessIsTrue, PTL
=============================================================================
