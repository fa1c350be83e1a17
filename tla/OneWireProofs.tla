---------------------------- MODULE OneWireProofs ---------------------------
(***************************************************************************)
(* Proofs about the 1-Wire bus of Bindings: the search for devices, for    *)
(* addresses of any length and any devices, and any number of thermometers.*)
(*                                                                         *)
(* The passes of the search take the devices in the order of their         *)
(* addresses.  At any moment those found are the devices up to the last    *)
(* address, or those before the part of the next one that has been read,   *)
(* and the last discrepancy is where the next one leaves the last.         *)
(*                                                                         *)
(* Of the thermometers, each has converted or converts since the request,  *)
(* and what tells the time of that tells it right (Converting).            *)
(***************************************************************************)
EXTENDS Bindings, Integers, Sequences, TLAPS, WellFoundedInduction

(* A step of the program is one of the search, or leaves it alone.         *)
LEMMA SearchPart == [Next]_vars => W!Next \/ UNCHANGED search
BY DEF Next, TimersNext, HttpsNext, BluetoothNext, TcpNext, CallsNext,
       SearchNext, SensorsNext, vars

-----------------------------------------------------------------------------
(* Addresses, in their order.  Bit i of r is set to x; the first n bits of *)
(* d are those of r, or come before them; r has a 0 at b, where a device   *)
(* on a bus S has a 1 after the same bits; z is the last such bit among    *)
(* the first n.                                                            *)

With(r, i, x)  == [r EXCEPT ![i] = x]
Agree(d, r, n) == \A c \in 1 .. n : d[c] = r[c]
Prior(d, r, n) == \E b \in 1 .. n : d[b] < r[b] /\ Agree(d, r, b - 1)
Turn(r, S, b)  == r[b] = 0 /\ \E d \in S : d[b] = 1 /\ Agree(d, r, b - 1)
LastTurn(r, S, z, n) ==
  /\ z \in 0 .. n
  /\ z > 0 => Turn(r, S, z)
  /\ \A b \in z + 1 .. n : ~ Turn(r, S, b)

(* A set of numbers has a least one.                                       *)
LEMMA Least ==
  ASSUME NEW S, S \subseteq Nat, S # {}
  PROVE  \E x \in S : \A y \in S : x <= y
<1>1. IsWellFoundedOn({ss \in Nat \X Nat : ss[1] < ss[2]}, Nat)
  BY NatLessThanWellFounded DEF OpToRel
<1>2. PICK x \in S :
        \A y \in S : <<y, x>> \notin {ss \in Nat \X Nat : ss[1] < ss[2]}
  BY <1>1, WFMin
<1>3. \A y \in S : ~(y < x)
  BY <1>2
<1> QED
  BY <1>3

LEMMA BitsAreNumbers ==
  /\ Bits \in Nat
  /\ \A r \in W!Addresses : \A b \in 1 .. Bits : r[b] \in {0, 1}
BY BindingsAssumption DEF W!Constants, W!Addresses

LEMMA BeforeIsPrior ==
  ASSUME NEW d, NEW r
  PROVE  W!Before(d, r) <=> Prior(d, r, Bits)
BY DEF W!Before, Prior, Agree

(* Different addresses come one before the other.                          *)
LEMMA Total ==
  ASSUME NEW d \in W!Addresses, NEW r \in W!Addresses, d # r
  PROVE  Prior(d, r, Bits) \/ Prior(r, d, Bits)
<1> DEFINE differ == {b \in 1 .. Bits : d[b] # r[b]}
<1>1. differ # {}
  <2> SUFFICES ASSUME \A b \in 1 .. Bits : d[b] = r[b] PROVE d = r
    OBVIOUS
  <2>1. d = [b \in 1 .. Bits |-> d[b]] /\ r = [b \in 1 .. Bits |-> r[b]]
    BY DEF W!Addresses
  <2> QED
    BY <2>1
<1>2. differ \subseteq Nat
  BY BitsAreNumbers
<1>3. PICK b \in differ : \A c \in differ : b <= c
  BY <1>1, <1>2, Least
<1>4. \A c \in 1 .. b - 1 : d[c] = r[c]
  BY <1>3, BitsAreNumbers
<1>5. d[b] < r[b] \/ r[b] < d[b]
  BY BitsAreNumbers
<1> QED
  BY <1>4, <1>5 DEF Prior, Agree

(* And not the other before the one.                                       *)
LEMMA Asymmetric ==
  ASSUME NEW d \in W!Addresses, NEW r \in W!Addresses, Prior(d, r, Bits)
  PROVE  ~ Prior(r, d, Bits) /\ d # r
<1>1. PICK b \in 1 .. Bits : d[b] < r[b] /\ Agree(d, r, b - 1)
  BY DEF Prior
<1>2. d # r
  BY <1>1, BitsAreNumbers
<1>3. ASSUME NEW c \in 1 .. Bits, r[c] < d[c], Agree(r, d, c - 1) PROVE FALSE
  <2>1. CASE c < b
    BY <1>1, <1>3, <2>1, BitsAreNumbers DEF Agree
  <2>2. CASE b < c
    BY <1>1, <1>3, <2>2, BitsAreNumbers DEF Agree
  <2>3. CASE b = c
    BY <1>1, <1>3, <2>3, BitsAreNumbers
  <2> QED
    BY <2>1, <2>2, <2>3, BitsAreNumbers
<1> QED
  BY <1>2, <1>3 DEF Prior

LEMMA Transitive ==
  ASSUME NEW d \in W!Addresses, NEW r \in W!Addresses, NEW s \in W!Addresses,
         Prior(d, r, Bits), Prior(r, s, Bits)
  PROVE  Prior(d, s, Bits)
<1>1. PICK b \in 1 .. Bits : d[b] < r[b] /\ Agree(d, r, b - 1)
  BY DEF Prior
<1>2. PICK c \in 1 .. Bits : r[c] < s[c] /\ Agree(r, s, c - 1)
  BY DEF Prior
<1>3. CASE c < b
  BY <1>1, <1>2, <1>3, BitsAreNumbers DEF Prior, Agree
<1>4. CASE b <= c
  BY <1>1, <1>2, <1>4, BitsAreNumbers DEF Prior, Agree
<1> QED
  BY <1>3, <1>4, BitsAreNumbers

(* What the change of one bit does to the bits up to it.                   *)
LEMMA OneBit ==
  ASSUME NEW r \in W!Addresses, NEW i \in 1 .. Bits, NEW x \in {0, 1}, NEW s,
         s = With(r, i, x)
  PROVE  /\ s \in W!Addresses
         /\ \A d, n : n \in 0 .. i - 1 => (Agree(d, s, n) <=> Agree(d, r, n))
         /\ \A d : Agree(d, s, i) <=> Agree(d, r, i - 1) /\ d[i] = x
         /\ \A d : Prior(d, s, i) <=>
                     Prior(d, r, i - 1) \/ (Agree(d, r, i - 1) /\ d[i] < x)
         /\ \A S : \A b \in 1 .. i - 1 : Turn(s, S, b) <=> Turn(r, S, b)
<1>1. s \in W!Addresses /\ s[i] = x /\ \A b \in 1 .. i - 1 : s[b] = r[b]
  BY BitsAreNumbers DEF W!Addresses, With
<1>2. \A d, n : n \in 0 .. i - 1 => (Agree(d, s, n) <=> Agree(d, r, n))
  BY <1>1, BitsAreNumbers DEF Agree
<1>3. \A d : Agree(d, s, i) <=> Agree(d, r, i - 1) /\ d[i] = x
  BY <1>1, BitsAreNumbers DEF Agree
<1>4. ASSUME NEW d
      PROVE  Prior(d, s, i) <=>
               Prior(d, r, i - 1) \/ (Agree(d, r, i - 1) /\ d[i] < x)
  <2>0. \A b \in 1 .. i : b - 1 \in 0 .. i - 1
    BY BitsAreNumbers
  <2>1. \A b \in 1 .. i : Agree(d, s, b - 1) <=> Agree(d, r, b - 1)
    BY <1>2, <2>0
  <2>2. \A b \in 1 .. i : b = i \/ b \in 1 .. i - 1
    BY BitsAreNumbers
  <2>3. i \in 1 .. i /\ \A b \in 1 .. i - 1 : b \in 1 .. i
    BY BitsAreNumbers
  <2> QED
    BY <1>1, <2>1, <2>2, <2>3 DEF Prior
<1>5. ASSUME NEW S, NEW b \in 1 .. i - 1
      PROVE  Turn(s, S, b) <=> Turn(r, S, b)
  <2>0. b - 1 \in 0 .. i - 1
    BY BitsAreNumbers
  <2>1. \A d : Agree(d, s, b - 1) <=> Agree(d, r, b - 1)
    BY <1>2, <2>0
  <2> QED
    BY <1>1, <2>1 DEF Turn
<1> QED
  BY <1>1, <1>2, <1>3, <1>4, <1>5

(* The pass that goes to 1 at the last turn of an address leaves behind    *)
(* all devices up to that address, and no other.                           *)
LEMMA PastTheTurn ==
  ASSUME NEW r \in W!Addresses, NEW S, S \subseteq W!Addresses,
         NEW i \in 1 .. Bits, LastTurn(r, S, i, Bits),
         NEW s, s = With(r, i, 1), NEW d \in S
  PROVE  Prior(d, s, i) <=> ~ Prior(r, d, Bits)
<1>1. r[i] = 0
  BY BitsAreNumbers DEF LastTurn, Turn
<1>2. Prior(d, s, i) <=>
        Prior(d, r, i - 1) \/ (Agree(d, r, i - 1) /\ d[i] = 0)
  <2>1. Prior(d, s, i) <=>
          Prior(d, r, i - 1) \/ (Agree(d, r, i - 1) /\ d[i] < 1)
    BY OneBit
  <2>2. d[i] < 1 <=> d[i] = 0
    BY BitsAreNumbers
  <2> QED
    BY <2>1, <2>2
<1>3. Prior(d, r, i - 1) => ~ Prior(r, d, Bits)
  <2>1. Prior(d, r, i - 1) => Prior(d, r, Bits)
    BY BitsAreNumbers DEF Prior
  <2> QED
    BY <2>1, Asymmetric
<1>4. ASSUME Agree(d, r, i - 1), d[i] = 0, Prior(r, d, Bits) PROVE FALSE
  <2>1. PICK c \in 1 .. Bits : r[c] < d[c] /\ Agree(r, d, c - 1)
    BY <1>4 DEF Prior
  <2>2. r[c] = 0 /\ d[c] = 1
    BY <2>1, BitsAreNumbers
  <2>3. c > i
    BY <1>4, <2>2, BitsAreNumbers DEF Agree
  <2>4. Turn(r, S, c)
    BY <2>1, <2>2 DEF Turn, Agree
  <2> QED
    BY <2>3, <2>4, BitsAreNumbers DEF LastTurn
<1>5. ASSUME ~ Prior(r, d, Bits)
      PROVE  Prior(d, r, i - 1) \/ (Agree(d, r, i - 1) /\ d[i] = 0)
  <2>1. CASE d = r
    BY <1>1, <2>1 DEF Agree
  <2>2. CASE d # r
    <3>1. PICK b \in 1 .. Bits : d[b] < r[b] /\ Agree(d, r, b - 1)
      BY <1>5, <2>2, Total DEF Prior
    <3>2. b # i
      BY <1>1, <3>1, BitsAreNumbers
    <3>3. CASE b < i
      BY <3>1, <3>3, BitsAreNumbers DEF Prior
    <3>4. CASE i < b
      BY <1>1, <3>1, <3>4, BitsAreNumbers DEF Agree
    <3> QED
      BY <3>2, <3>3, <3>4, BitsAreNumbers
  <2> QED
    BY <2>1, <2>2
<1> QED
  BY <1>2, <1>3, <1>4, <1>5

-----------------------------------------------------------------------------
(* Every step keeps every variable in its type.                            *)

LEMMA SearchTypeInit == Init => W!TypeOK
<1> SUFFICES ASSUME W!Init PROVE W!TypeOK
  BY DEF Init
<1>1. ROM_NO \in W!Addresses
  BY DEF W!Init, W!Addresses
<1>2. id_bit_number \in 1 .. Bits /\ last_zero \in 0 .. Bits
        /\ LastDiscrepancy \in 0 .. Bits
        /\ ow_numdev \in 0 .. MAX_ONEWIRE_SENSORS
        /\ Len(ow_roms) <= MAX_ONEWIRE_SENSORS
  BY BindingsAssumption DEF W!Init, W!Constants
<1>3. ow_roms \in Seq(W!Addresses)
  BY DEF W!Init
<1> QED
  BY <1>1, <1>2, <1>3 DEF W!Init, W!TypeOK

LEMMA DevicesAreAddresses ==
  /\ Devices \subseteq W!Addresses
  /\ \A d \in Devices : ~ W!Blank(d)
BY BindingsAssumption DEF W!Constants

(* The bit that is written back.                                           *)
LEMMA DirectionIsBit ==
  ASSUME W!TypeOK
  PROVE  W!Direction \in {0, 1} /\ W!LastZero \in 0 .. Bits
<1> USE BitsAreNumbers DEF W!TypeOK
<1>1. W!Direction \in {0, 1}
  BY DEF W!Direction
<1> QED
  BY <1>1 DEF W!LastZero

LEMMA FoundTypes ==
  ASSUME W!TypeOK, NEW rom \in W!Addresses, W!Found(rom)
  PROVE  /\ at' \in {"idle", "pass"}
         /\ ow_roms' \in Seq(W!Addresses)
         /\ Len(ow_roms') <= MAX_ONEWIRE_SENSORS
         /\ ow_numdev' \in 0 .. MAX_ONEWIRE_SENSORS
<1> USE BindingsAssumption DEF W!Constants, W!TypeOK
<1>1. Len(ow_roms) \in Nat /\ MAX_ONEWIRE_SENSORS \in Nat
  OBVIOUS
<1>2. Append(ow_roms, rom) \in Seq(W!Addresses)
        /\ Len(Append(ow_roms, rom)) = Len(ow_roms) + 1
  OBVIOUS
<1>3. CASE Len(ow_roms) >= MAX_ONEWIRE_SENSORS
  BY <1>1, <1>3 DEF W!Found, W!Finish
<1>4. CASE ~(Len(ow_roms) >= MAX_ONEWIRE_SENSORS)
  BY <1>1, <1>2, <1>4 DEF W!Found
<1> QED
  BY <1>3, <1>4

LEMMA NothingTypes ==
  ASSUME W!TypeOK, W!NothingFound, UNCHANGED <<bus, only, seen, steady>>
  PROVE  W!TypeOK'
<1>1. 1 \in 1 .. Bits /\ 0 \in 0 .. Bits /\ Len(ow_roms) \in Nat
  BY BindingsAssumption DEF W!Constants, W!TypeOK
<1>2. Len(ow_roms) \in 0 .. MAX_ONEWIRE_SENSORS
  BY <1>1, BindingsAssumption DEF W!Constants, W!TypeOK
<1> QED
  BY <1>1, <1>2 DEF W!TypeOK, W!NothingFound, W!EndPass, W!ResetSearch, W!Finish

LEMMA SearchTypeStep == W!TypeOK /\ (W!Next \/ UNCHANGED search) => W!TypeOK'
<1> SUFFICES ASSUME W!TypeOK, W!Next \/ UNCHANGED search PROVE W!TypeOK'
  OBVIOUS
<1> USE DEF W!TypeOK, W!pass, W!device
<1>0. 1 \in 1 .. Bits /\ 0 \in 0 .. Bits /\ 0 \in 0 .. MAX_ONEWIRE_SENSORS
  BY BindingsAssumption DEF W!Constants
<1>1. CASE W!OwInit
  BY <1>0, <1>1 DEF W!OwInit
<1>2. ASSUME NEW t \in BOOLEAN, W!Search(t) PROVE W!TypeOK'
  <2>1. ow_roms' \in Seq(W!Addresses) /\ Len(ow_roms') <= MAX_ONEWIRE_SENSORS
    BY <1>2, BindingsAssumption DEF W!Search, W!Constants
  <2> QED
    BY <1>0, <1>2, <2>1 DEF W!Search, W!ResetSearch
<1>3. CASE W!StartPass
  BY <1>3 DEF W!StartPass
<1>4. CASE W!NoPass \/ W!Silence
  BY <1>4, NothingTypes DEF W!NoPass, W!Silence
<1>5. CASE W!ReadBit
  <2>1. ROM_NO' \in W!Addresses
    BY <1>5, DirectionIsBit DEF W!ReadBit, W!Addresses
  <2>2. id_bit_number' \in 1 .. Bits
    BY <1>5, BitsAreNumbers DEF W!ReadBit
  <2>3. last_zero' \in 0 .. Bits
    BY <1>5, DirectionIsBit DEF W!ReadBit
  <2> QED
    BY <1>5, <2>1, <2>2, <2>3 DEF W!ReadBit
<1>6. CASE W!ReadLastBit
  <2>1. ROM_NO' \in W!Addresses
    BY <1>6, DirectionIsBit DEF W!ReadLastBit, W!Addresses
  <2>2. UNCHANGED <<bus, only, seen, steady>> /\ listening' = {}
          /\ id_bit_number' = 1 /\ last_zero' = 0
    BY <1>6 DEF W!ReadLastBit, W!EndPass
  <2>3. CASE W!Blank(ROM_NO')
    <3>1. ow_numdev' = Len(ow_roms) /\ UNCHANGED ow_roms /\ at' = "idle"
            /\ LastDiscrepancy' = 0 /\ LastDeviceFlag' = FALSE
      BY <1>6, <2>3 DEF W!ReadLastBit, W!ResetSearch, W!Finish
    <3>2. Len(ow_roms) \in 0 .. MAX_ONEWIRE_SENSORS
      BY BindingsAssumption DEF W!Constants
    <3> QED
      BY <1>0, <2>1, <2>2, <3>1, <3>2
  <2>4. CASE ~ W!Blank(ROM_NO')
    <3>1. LastDiscrepancy' \in 0 .. Bits
      BY <1>6, <2>4, DirectionIsBit DEF W!ReadLastBit
    <3>2. LastDeviceFlag' \in BOOLEAN
      BY <1>6, <2>4, Zenon DEF W!ReadLastBit
    <3>3. W!Found(ROM_NO')
      BY <1>6, <2>4 DEF W!ReadLastBit
    <3> HIDE DEF W!TypeOK
    <3>4. /\ at' \in {"idle", "pass"}
          /\ ow_roms' \in Seq(W!Addresses)
          /\ Len(ow_roms') <= MAX_ONEWIRE_SENSORS
          /\ ow_numdev' \in 0 .. MAX_ONEWIRE_SENSORS
      BY <2>1, <3>3, FoundTypes
    <3> QED
      BY <1>0, <2>1, <2>2, <3>1, <3>2, <3>4 DEF W!TypeOK
  <2> QED
    BY <2>3, <2>4
<1>7. ASSUME NEW d \in Devices, W!Plug(d) \/ W!Unplug(d) PROVE W!TypeOK'
  <2>1. steady' \in BOOLEAN
    BY <1>7, Zenon DEF W!Plug, W!Unplug
  <2> QED
    BY <1>7, <2>1 DEF W!Plug, W!Unplug
<1>8. CASE UNCHANGED search
  BY <1>8 DEF search
<1> QED
  BY <1>1, <1>2, <1>3, <1>4, <1>5, <1>6, <1>7, <1>8 DEF W!Next

-----------------------------------------------------------------------------
(* The devices that follow a pass are those with the bits read so far.     *)
Following ==
  /\ at # "bits" => listening = {} /\ id_bit_number = 1 /\ last_zero = 0
  /\ at # "idle" => bus \subseteq seen
  /\ listening \subseteq bus
  /\ \A d \in listening : Agree(d, ROM_NO, id_bit_number - 1)

(* ROM_NO is the address that was found last.                              *)
Old ==
  \/ at = "pass" /\ (LastDiscrepancy > 0 \/ LastDeviceFlag)
  \/ at = "bits" /\ id_bit_number <= LastDiscrepancy

(* The devices the search has been past.                                   *)
Behind(d) ==
  IF Old THEN ~ Prior(ROM_NO, d, Bits)
         ELSE at = "bits" /\ Prior(d, ROM_NO, id_bit_number - 1)

Sorted ==
  \A i, j \in 1 .. Len(ow_roms) : i < j => Prior(ow_roms[i], ow_roms[j], Bits)

FoundSet == {ow_roms[i] : i \in 1 .. Len(ow_roms)}

(* A search during which nothing has come or gone.                         *)
Going ==
  /\ seen = bus
  /\ FoundSet = {d \in bus : Behind(d) /\ (only => d \in DS18B20)}
  /\ Sorted
  /\ LastDeviceFlag => LastDiscrepancy = 0 /\ at = "pass"
  /\ Old => ROM_NO \in bus /\ LastTurn(ROM_NO, bus, LastDiscrepancy, Bits)
  /\ at = "bits" =>
       /\ listening # {}
       /\ listening = {d \in bus : Agree(d, ROM_NO, id_bit_number - 1)}
       /\ LastTurn(ROM_NO, bus, last_zero, id_bit_number - 1)

SearchInv ==
  /\ W!TypeOK
  /\ Following
  /\ W!Genuine
  /\ steady /\ at # "idle" => Going
  /\ W!Complete

(* The bit that is written back is one that was read.                      *)
LEMMA SomebodyFollows ==
  ASSUME W!TypeOK, listening # {}, id_bit_number \in 1 .. Bits
  PROVE  \E d \in listening : d[id_bit_number] = W!Direction
<1>1. \A d \in listening : d[id_bit_number] \in {0, 1}
  BY DevicesAreAddresses, BitsAreNumbers DEF W!TypeOK
<1>2. ROM_NO[id_bit_number] \in {0, 1}
  BY BitsAreNumbers DEF W!TypeOK
<1> QED
  BY <1>1, <1>2 DEF W!Direction, W!Reads

(* A bit of a pass during which nothing comes or goes.                     *)
LEMMA BitGoing ==
  ASSUME SearchInv, steady, at = "bits",
         NEW s, s = With(ROM_NO, id_bit_number, W!Direction)
  PROVE  /\ {d \in listening : d[id_bit_number] = W!Direction}
              = {d \in bus : Agree(d, s, id_bit_number)}
         /\ LastTurn(s, bus, W!LastZero, id_bit_number)
         /\ id_bit_number < LastDiscrepancy => s = ROM_NO
         /\ ~(id_bit_number < LastDiscrepancy) =>
              \A d \in bus : Prior(d, s, id_bit_number) <=> Behind(d)
<1> DEFINE i == id_bit_number
           x == W!Direction
<1>1. Going /\ W!TypeOK
  BY DEF SearchInv
<1>2. /\ i \in 1 .. Bits /\ x \in {0, 1} /\ ROM_NO \in W!Addresses
      /\ bus \subseteq W!Addresses
      /\ listening = {d \in bus : Agree(d, ROM_NO, i - 1)}
      /\ listening # {}
  BY <1>1, DirectionIsBit, DevicesAreAddresses DEF W!TypeOK, Going
<1>3. \A d \in listening : d[i] \in {0, 1}
  BY <1>2, BitsAreNumbers
<1> HIDE DEF i, x
<1>4. s = With(ROM_NO, i, x)
  BY DEF i, x
<1>a. /\ s \in W!Addresses
      /\ \A d, n : n \in 0 .. i - 1 => (Agree(d, s, n) <=> Agree(d, ROM_NO, n))
      /\ \A d : Agree(d, s, i) <=> Agree(d, ROM_NO, i - 1) /\ d[i] = x
      /\ \A d : Prior(d, s, i) <=> Prior(d, ROM_NO, i - 1)
                                     \/ (Agree(d, ROM_NO, i - 1) /\ d[i] < x)
      /\ \A S : \A b \in 1 .. i - 1 : Turn(s, S, b) <=> Turn(ROM_NO, S, b)
  <2>1. i \in 1 .. Bits /\ x \in {0, 1} /\ ROM_NO \in W!Addresses
    BY <1>2
  <2> QED
    BY <1>4, <2>1, OneBit
<1>b. LastDiscrepancy \in Nat /\ i \in Nat /\ i > 0 /\ i - 1 \in 0 .. i - 1
  BY <1>1, <1>2, BitsAreNumbers DEF W!TypeOK
<1>5. {d \in listening : d[i] = x} = {d \in bus : Agree(d, s, i)}
  BY <1>2, <1>a
<1>6. LastTurn(s, bus, W!LastZero, i)
  <2>1. LastTurn(ROM_NO, bus, last_zero, i - 1)
    BY <1>1 DEF Going, i
  <2>2. \A b \in 1 .. i - 1 : Turn(s, bus, b) <=> Turn(ROM_NO, bus, b)
    BY <1>a
  <2>3. Turn(s, bus, i) <=> x = 0 /\ \E d \in listening : d[i] = 1
    <3>1. s[i] = x
      BY <1>2, <1>4 DEF W!Addresses, With
    <3>2. \A d : Agree(d, s, i - 1) <=> Agree(d, ROM_NO, i - 1)
      BY <1>a, <1>b
    <3> QED
      BY <1>2, <3>1, <3>2 DEF Turn
  <2>4. \E d \in listening : d[i] = x
    BY <1>1, <1>2, SomebodyFollows DEF i, x
  <2>5. W!LastZero = IF Turn(s, bus, i) THEN i ELSE last_zero
    BY <2>3, <2>4 DEF W!LastZero, W!Reads, i, x
  <2>6. CASE Turn(s, bus, i)
    BY <1>b, <2>5, <2>6 DEF LastTurn
  <2>7. CASE ~ Turn(s, bus, i)
    <3>1. /\ last_zero \in 0 .. i
          /\ last_zero > 0 => last_zero \in 1 .. i - 1
          /\ \A b \in last_zero + 1 .. i : b = i \/ b \in last_zero + 1 .. i - 1
          /\ last_zero + 1 .. i - 1 \subseteq 1 .. i - 1
      BY <1>b, <2>1 DEF LastTurn
    <3> QED
      BY <2>1, <2>2, <2>5, <2>7, <3>1 DEF LastTurn
  <2> QED
    BY <2>6, <2>7
<1>7. ASSUME i < LastDiscrepancy PROVE s = ROM_NO
  <2>1. ROM_NO \in listening
    <3>1. ROM_NO \in bus
      BY <1>1, <1>7, <1>b DEF Going, Old, i
    <3> QED
      BY <1>2, <3>1 DEF Agree
  <2>2. x = ROM_NO[i]
    BY <1>2, <1>3, <1>7, <2>1 DEF W!Direction, W!Reads, i, x
  <2> QED
    BY <1>2, <1>4, <2>2 DEF W!Addresses, With
<1>8. ASSUME i = LastDiscrepancy, NEW d \in bus
      PROVE  Prior(d, s, i) <=> Behind(d)
  <2>1. Old /\ LastTurn(ROM_NO, bus, i, Bits)
    BY <1>1, <1>8, <1>b DEF Going, Old, i
  <2>2. PICK e \in bus : e[i] = 1 /\ Agree(e, ROM_NO, i - 1)
    BY <1>2, <2>1, BitsAreNumbers DEF LastTurn, Turn
  <2>3. x = 1
    BY <1>2, <1>8, <2>2 DEF W!Direction, W!Reads, i, x
  <2>4. Prior(d, s, i) <=> ~ Prior(ROM_NO, d, Bits)
    BY <1>2, <1>4, <2>1, <2>3, PastTheTurn
  <2> QED
    BY <2>1, <2>4 DEF Behind
<1>9. ASSUME i > LastDiscrepancy, NEW d \in bus
      PROVE  Prior(d, s, i) <=> Behind(d)
  <2>1. Behind(d) <=> Prior(d, ROM_NO, i - 1)
    BY <1>9, <1>b DEF Behind, Old, i
  <2>2. Prior(d, s, i) <=>
          Prior(d, ROM_NO, i - 1) \/ (Agree(d, ROM_NO, i - 1) /\ d[i] < x)
    BY <1>a
  <2>3. ASSUME Agree(d, ROM_NO, i - 1), d[i] < x PROVE FALSE
    <3>1. d \in listening /\ d[i] = 0 /\ x = 1
      BY <1>2, <1>3, <2>3
    <3> QED
      BY <1>9, <1>b, <3>1 DEF W!Direction, W!Reads, i, x
  <2> QED
    BY <2>1, <2>2, <2>3
<1>10. ASSUME ~(i < LastDiscrepancy), NEW d \in bus
       PROVE  Prior(d, s, i) <=> Behind(d)
  <2>1. i = LastDiscrepancy \/ i > LastDiscrepancy
    BY <1>10, <1>b
  <2> QED
    BY <2>1, <1>8, <1>9
<1> QED
  BY <1>5, <1>6, <1>7, <1>10 DEF i, x

-----------------------------------------------------------------------------
(* The steps of the search.                                                *)

(* A search that ends has found what it has been past, and has been past   *)
(* everything or is full.                                                  *)
LEMMA Finished ==
  ASSUME SearchInv, steady, at # "idle", W!Finish,
         UNCHANGED <<bus, only, seen, steady>>,
         \A d \in bus : ~ Behind(d) =>
           /\ Len(ow_roms) >= MAX_ONEWIRE_SENSORS
           /\ \A r \in FoundSet : Prior(r, d, Bits)
  PROVE  W!Complete'
<1> DEFINE wanted == {d \in seen : only => d \in DS18B20}
           found == {ow_roms[i] : i \in 1 .. ow_numdev}
<1>1. Going
  BY DEF SearchInv
<1>2. ow_numdev' = Len(ow_roms') /\ found' = FoundSet /\ wanted' = wanted
  BY DEF W!Finish, FoundSet
<1>3. wanted = {d \in bus : only => d \in DS18B20}
  BY <1>1 DEF Going
<1>4. FoundSet \subseteq wanted
  BY <1>1, <1>3 DEF Going
<1>5. ASSUME NEW i \in 1 .. Len(ow_roms), NEW j \in 1 .. Len(ow_roms), i < j
      PROVE  W!Before(ow_roms[i], ow_roms[j])
  BY <1>1, <1>5, BeforeIsPrior DEF Going, Sorted
<1>6. ASSUME NEW d \in wanted \ FoundSet
      PROVE  /\ Len(ow_roms) = MAX_ONEWIRE_SENSORS
             /\ \A r \in FoundSet : W!Before(r, d)
  <2>1. d \in bus /\ ~ Behind(d)
    BY <1>1, <1>3, <1>6 DEF Going
  <2>2. Len(ow_roms) <= MAX_ONEWIRE_SENSORS /\ Len(ow_roms) \in Nat
          /\ MAX_ONEWIRE_SENSORS \in Nat
    BY BindingsAssumption DEF W!Constants, SearchInv, W!TypeOK
  <2> QED
    BY <2>1, <2>2, BeforeIsPrior
<1>7. UNCHANGED ow_roms
  BY DEF W!Finish
<1> HIDE DEF wanted, found
<1>8. /\ ow_numdev' = Len(ow_roms')
      /\ found' \subseteq wanted'
      /\ \A i, j \in 1 .. ow_numdev' :
           i < j => W!Before(ow_roms'[i], ow_roms'[j])
      /\ \A d \in wanted' \ found' :
           /\ ow_numdev' = MAX_ONEWIRE_SENSORS
           /\ \A r \in found' : W!Before(r, d)
  BY <1>2, <1>4, <1>5, <1>6, <1>7
<1> QED
  BY <1>8 DEF W!Complete, wanted, found

(* What a search does that has found nothing more.                         *)
LEMMA NothingStep ==
  ASSUME SearchInv, W!NothingFound, UNCHANGED <<bus, only, seen, steady>>,
         at # "idle", steady => \A d \in bus : Behind(d)
  PROVE  SearchInv'
<1>1. W!TypeOK'
  BY NothingTypes DEF SearchInv
<1>2. at' = "idle" /\ listening' = {} /\ id_bit_number' = 1 /\ last_zero' = 0
        /\ UNCHANGED ow_roms /\ W!Finish
  BY DEF W!NothingFound, W!EndPass, W!Finish
<1>3. Following' /\ W!Genuine'
  BY <1>2 DEF SearchInv, Following, W!Genuine
<1>4. steady' => W!Complete'
  BY <1>2, Finished
<1>5. ~ steady' => W!Complete'
  BY DEF W!Complete
<1> QED
  BY <1>1, <1>2, <1>3, <1>4, <1>5 DEF SearchInv

(* After the last turn there is nothing more.                              *)
LEMMA NoTurn ==
  ASSUME NEW r \in W!Addresses, NEW S, S \subseteq W!Addresses,
         LastTurn(r, S, 0, Bits), NEW d \in S
  PROVE  ~ Prior(r, d, Bits)
<1> SUFFICES ASSUME NEW b \in 1 .. Bits, r[b] < d[b], Agree(r, d, b - 1)
             PROVE  FALSE
  BY DEF Prior
<1>1. r[b] = 0 /\ d[b] = 1
  BY BitsAreNumbers
<1>2. Agree(d, r, b - 1)
  BY DEF Agree
<1>3. Turn(r, S, b)
  BY <1>1, <1>2 DEF Turn
<1> QED
  BY <1>3, BitsAreNumbers DEF LastTurn

LEMMA SearchStartStep ==
  ASSUME SearchInv, NEW t \in BOOLEAN, W!Search(t)
  PROVE  SearchInv'
<1>1. W!TypeOK'
  BY SearchTypeStep DEF SearchInv, W!Next
<1>2. at = "idle" /\ at' = "pass" /\ ow_roms' = <<>> /\ seen' = bus /\ bus' = bus
        /\ LastDiscrepancy' = 0 /\ ~ LastDeviceFlag'
        /\ UNCHANGED <<listening, id_bit_number, last_zero, ROM_NO>>
  BY DEF W!Search, W!ResetSearch, W!pass
<1>3. Len(ow_roms') = 0
  BY <1>2
<1>4. Following' /\ W!Genuine' /\ W!Complete'
  BY <1>2, <1>3 DEF SearchInv, Following, W!Genuine, W!Complete
<1>5. Going'
  <2>1. ~Old' /\ FoundSet' = {} /\ Sorted'
    BY <1>2, <1>3 DEF Old, FoundSet, Sorted
  <2>2. \A d \in bus' : ~Behind(d)'
    BY <1>2, <2>1 DEF Behind
  <2> QED
    BY <1>2, <2>1, <2>2 DEF Going
<1> QED
  BY <1>1, <1>4, <1>5 DEF SearchInv

LEMMA StartPassStep ==
  ASSUME SearchInv, W!StartPass
  PROVE  SearchInv'
<1>1. W!TypeOK' /\ W!TypeOK
  BY SearchTypeStep DEF SearchInv, W!Next
<1>2. at = "pass" /\ ~ LastDeviceFlag /\ bus # {} /\ listening' = bus
        /\ at' = "bits" /\ id_bit_number = 1 /\ last_zero = 0
        /\ UNCHANGED <<bus, id_bit_number, last_zero, LastDiscrepancy,
                       LastDeviceFlag, ROM_NO, ow_roms, ow_numdev, only, seen,
                       steady>>
  BY DEF W!StartPass, W!pass, W!device, SearchInv, Following
<1>3. \A d : Agree(d, ROM_NO, 0) /\ ~ Prior(d, ROM_NO, 0)
  BY DEF Agree, Prior
<1>4. Following' /\ W!Genuine' /\ W!Complete'
  BY <1>2, <1>3 DEF SearchInv, Following, W!Genuine, W!Complete
<1>5. ASSUME steady PROVE Going'
  <2>1. Going
    BY <1>2, <1>5 DEF SearchInv
  <2>2. LastDiscrepancy \in Nat
    BY <1>1, BitsAreNumbers DEF W!TypeOK
  <2>3. Old' <=> Old
    BY <1>2, <2>2 DEF Old
  <2>4. \A d \in bus : Behind(d)' <=> Behind(d)
    BY <1>2, <1>3, <2>3 DEF Behind
  <2>5. LastTurn(ROM_NO, bus, 0, 0)
    BY DEF LastTurn
  <2>6. FoundSet' = FoundSet /\ (Sorted' <=> Sorted)
    BY <1>2 DEF FoundSet, Sorted
  <2> QED
    BY <1>2, <1>3, <2>1, <2>3, <2>4, <2>5, <2>6 DEF Going
<1> QED
  BY <1>1, <1>2, <1>4, <1>5 DEF SearchInv

LEMMA NoPassStep ==
  ASSUME SearchInv, W!NoPass
  PROVE  SearchInv'
<1>1. at = "pass" /\ (LastDeviceFlag \/ bus = {})
  BY DEF W!NoPass
<1>2. ASSUME steady, NEW d \in bus PROVE Behind(d)
  <2>1. Going /\ LastDeviceFlag
    BY <1>1, <1>2 DEF SearchInv
  <2>2. Old /\ LastTurn(ROM_NO, bus, 0, Bits)
    BY <1>1, <2>1 DEF Going, Old
  <2>3. ROM_NO \in W!Addresses /\ bus \subseteq W!Addresses
    BY DevicesAreAddresses DEF SearchInv, W!TypeOK
  <2> QED
    BY <1>2, <2>2, <2>3, NoTurn DEF Behind
<1> QED
  BY <1>1, <1>2, NothingStep DEF W!NoPass

LEMMA SilenceStep ==
  ASSUME SearchInv, W!Silence
  PROVE  SearchInv'
<1>1. at = "bits" /\ listening = {}
  BY DEF W!Silence
<1>2. ~ steady
  BY <1>1 DEF SearchInv, Going
<1> QED
  BY <1>1, <1>2, NothingStep DEF W!Silence

(* The address that is put together so far is that of a device.            *)
LEMMA AddressIsOfDevice ==
  ASSUME SearchInv, listening # {}, id_bit_number \in 1 .. Bits,
         NEW s, s = With(ROM_NO, id_bit_number, W!Direction)
  PROVE  /\ s \in W!Addresses
         /\ \E d \in listening : d[id_bit_number] = W!Direction
         /\ \A d \in listening : d[id_bit_number] = W!Direction
                                   => Agree(d, s, id_bit_number)
<1>1. W!TypeOK /\ ROM_NO \in W!Addresses /\ W!Direction \in {0, 1}
  BY DirectionIsBit DEF SearchInv, W!TypeOK
<1>2. \E d \in listening : d[id_bit_number] = W!Direction
  BY <1>1, SomebodyFollows
<1>3. /\ s \in W!Addresses
      /\ \A d : Agree(d, s, id_bit_number) <=>
                  /\ Agree(d, ROM_NO, id_bit_number - 1)
                  /\ d[id_bit_number] = W!Direction
  BY <1>1, OneBit
<1>4. \A d \in listening : Agree(d, ROM_NO, id_bit_number - 1)
  BY DEF SearchInv, Following
<1> QED
  BY <1>2, <1>3, <1>4

LEMMA ReadBitStep ==
  ASSUME SearchInv, W!ReadBit
  PROVE  SearchInv'
<1> DEFINE i == id_bit_number
           x == W!Direction
<1>1. W!TypeOK' /\ W!TypeOK
  BY SearchTypeStep DEF SearchInv, W!Next
<1>2. /\ at = "bits" /\ at' = "bits" /\ listening # {} /\ i \in 1 .. Bits
      /\ i \in Nat /\ LastDiscrepancy \in Nat
      /\ ROM_NO' = With(ROM_NO, i, x)
      /\ last_zero' = W!LastZero
      /\ listening' = {d \in listening : d[i] = x}
      /\ id_bit_number' = i + 1 /\ i + 1 - 1 = i
      /\ UNCHANGED <<bus, LastDiscrepancy, LastDeviceFlag, ow_roms, ow_numdev,
                     only, seen, steady>>
  BY <1>1, BitsAreNumbers DEF W!ReadBit, W!TypeOK, With
<1>3. /\ \E d \in listening : d[i] = x
      /\ \A d \in listening : d[i] = x => Agree(d, ROM_NO', i)
  BY <1>2, AddressIsOfDevice
<1>4. Following' /\ W!Genuine' /\ W!Complete'
  BY <1>2, <1>3 DEF SearchInv, Following, W!Genuine, W!Complete
<1>5. ASSUME steady PROVE Going'
  <2>1. Going
    BY <1>2, <1>5 DEF SearchInv
  <2>2. /\ listening' = {d \in bus : Agree(d, ROM_NO', i)}
        /\ LastTurn(ROM_NO', bus, last_zero', i)
        /\ i < LastDiscrepancy => ROM_NO' = ROM_NO
        /\ ~(i < LastDiscrepancy) =>
             \A d \in bus : Prior(d, ROM_NO', i) <=> Behind(d)
    BY <1>2, <1>5, BitGoing
  <2>3. Old' <=> i < LastDiscrepancy
    BY <1>2 DEF Old
  <2>4. i < LastDiscrepancy => Old
    BY <1>2 DEF Old
  <2>5. \A d \in bus : Behind(d)' <=> Behind(d)
    BY <1>2, <2>2, <2>3, <2>4 DEF Behind
  <2>6. FoundSet' = FoundSet /\ (Sorted' <=> Sorted)
    BY <1>2 DEF FoundSet, Sorted
  <2>7. listening' # {}
    BY <1>2, <1>3
  <2>8. Old' => ROM_NO' \in bus /\ LastTurn(ROM_NO', bus, LastDiscrepancy, Bits)
    BY <2>1, <2>2, <2>3, <2>4 DEF Going
  <2> HIDE DEF i, x
  <2> QED
    BY <1>2, <2>1, <2>2, <2>5, <2>6, <2>7, <2>8 DEF Going
<1> QED
  BY <1>1, <1>2, <1>4, <1>5 DEF SearchInv

(* The address of a pass is added to those found.                          *)
LEMMA Appended ==
  ASSUME NEW seq \in Seq(W!Addresses), NEW s
  PROVE  /\ Len(Append(seq, s)) = Len(seq) + 1 /\ Len(seq) \in Nat
         /\ \A j \in 1 .. Len(seq) : Append(seq, s)[j] = seq[j]
         /\ Append(seq, s)[Len(seq) + 1] = s
OBVIOUS

LEMMA ReadLastBitStep ==
  ASSUME SearchInv, W!ReadLastBit
  PROVE  SearchInv'
<1> DEFINE i == id_bit_number
           x == W!Direction
           s == ROM_NO'
<1>1. W!TypeOK' /\ W!TypeOK
  BY SearchTypeStep DEF SearchInv, W!Next
<1>2. /\ at = "bits" /\ listening # {} /\ i \in 1 .. Bits /\ i = Bits
      /\ ROM_NO' = With(ROM_NO, i, x)
      /\ id_bit_number' = 1 /\ last_zero' = 0 /\ listening' = {}
      /\ UNCHANGED <<bus, only, seen, steady>>
      /\ LastDiscrepancy \in Nat /\ ~(Bits < LastDiscrepancy) /\ Bits \in Nat
  BY <1>1, BitsAreNumbers DEF W!ReadLastBit, W!EndPass, W!TypeOK, With
<1>3. s \in bus /\ s \in seen /\ s \in W!Addresses /\ bus \subseteq W!Addresses
  <2>1. PICK d \in listening : Agree(d, s, Bits)
    BY <1>2, AddressIsOfDevice
  <2>2. s \in W!Addresses
    BY <1>2, AddressIsOfDevice
  <2>3. d \in bus /\ bus \subseteq seen /\ bus \subseteq W!Addresses
    BY <1>1, <1>2, DevicesAreAddresses DEF SearchInv, Following, W!TypeOK
  <2>4. d = [b \in 1 .. Bits |-> d[b]] /\ s = [b \in 1 .. Bits |-> s[b]]
    BY <2>2, <2>3 DEF W!Addresses
  <2>5. \A b \in 1 .. Bits : d[b] = s[b]
    BY <2>1 DEF Agree
  <2>6. d = s
    BY <2>4, <2>5
  <2> QED
    BY <2>2, <2>3, <2>6
<1>4. ~ W!Blank(s)
  BY <1>1, <1>3, DevicesAreAddresses DEF W!TypeOK
<1>5. /\ LastDiscrepancy' = W!LastZero
      /\ LastDeviceFlag' = (W!LastZero = 0)
      /\ W!Found(s)
  BY <1>4 DEF W!ReadLastBit
<1>6. Following'
  BY <1>2, <1>5 DEF Following, SearchInv, W!Found, W!Finish
<1>7. /\ ow_roms \in Seq(W!Addresses) /\ Len(ow_roms) \in Nat
      /\ MAX_ONEWIRE_SENSORS \in Nat
  BY <1>1, BindingsAssumption DEF W!TypeOK, W!Constants
<1>8. W!Genuine'
  <2>1. CASE ow_roms' = ow_roms
    BY <1>2, <2>1 DEF SearchInv, W!Genuine
  <2>2. CASE ow_roms' = Append(ow_roms, s)
    <3>1. \A j \in 1 .. Len(ow_roms') : ow_roms'[j] \in seen
      BY <1>3, <1>7, <2>2, Appended DEF SearchInv, W!Genuine
    <3> QED
      BY <1>2, <3>1 DEF W!Genuine
  <2> QED
    BY <1>5, <2>1, <2>2 DEF W!Found, W!Finish
<1> HIDE DEF s, x
<1>9. ASSUME steady
      PROVE  /\ Going
             /\ LastTurn(s, bus, W!LastZero, Bits)
             /\ \A d \in bus : Prior(d, s, Bits) <=> Behind(d)
  BY <1>2, <1>9, BitGoing DEF SearchInv, s, x
<1>10. \A d \in bus : d = s \/ Prior(d, s, Bits) \/ Prior(s, d, Bits)
  BY <1>3, Total
<1>11. \A d \in bus : Prior(d, s, Bits) => ~ Prior(s, d, Bits) /\ d # s
  BY <1>3, Asymmetric
<1>12. ~ Prior(s, s, Bits)
  BY <1>3, <1>11
<1>13. ASSUME W!Finish PROVE W!Complete'
  <2>1. CASE ~ steady
    BY <1>2, <2>1 DEF W!Complete
  <2>2. CASE steady
    <3>1. Len(ow_roms) >= MAX_ONEWIRE_SENSORS
      BY <1>2, <1>5, <1>13 DEF W!Found, W!Finish
    <3>2. \A r \in FoundSet : r \in bus /\ Prior(r, s, Bits)
      BY <1>9, <2>2 DEF Going
    <3>3. ASSUME NEW d \in bus, ~ Behind(d), NEW r \in FoundSet
          PROVE  Prior(r, d, Bits)
      <4>1. d = s \/ Prior(s, d, Bits)
        BY <1>9, <1>10, <2>2, <3>3
      <4>2. d \in W!Addresses /\ r \in W!Addresses /\ Prior(r, s, Bits)
        BY <1>3, <3>2
      <4> QED
        BY <1>3, <4>1, <4>2, Transitive
    <3> QED
      BY <1>2, <1>13, <2>2, <3>1, <3>3, Finished
  <2> QED
    BY <2>1, <2>2
<1>14. ASSUME steady, at' # "idle" PROVE Going'
  <2>1. /\ at' = "pass"
        /\ ow_roms' = IF only /\ s \notin DS18B20 THEN ow_roms
                                                  ELSE Append(ow_roms, s)
    BY <1>5, <1>14 DEF W!Found, W!Finish
  <2>2. W!LastZero \in Nat
    BY <1>9, <1>14, <1>2 DEF LastTurn
  <2>3. Old'
    <3>1. W!LastZero = 0 => LastDeviceFlag'
      BY <1>5, Zenon
    <3>2. W!LastZero # 0 => LastDiscrepancy' > 0
      BY <1>5, <2>2
    <3> QED
      BY <2>1, <3>1, <3>2 DEF Old
  <2>4. \A d \in bus : Behind(d)' <=> Behind(d) \/ d = s
    BY <1>9, <1>10, <1>11, <1>12, <1>14, <2>3 DEF Behind, s
  <2>5. FoundSet' = FoundSet \union (IF only /\ s \notin DS18B20 THEN {} ELSE {s})
    BY <1>7, <2>1, Appended DEF FoundSet
  <2>6. FoundSet' = {d \in bus' : Behind(d)' /\ (only' => d \in DS18B20)}
    BY <1>2, <1>3, <1>9, <1>14, <2>4, <2>5 DEF Going
  <2>7. Sorted'
    <3>1. \A j \in 1 .. Len(ow_roms) : Prior(ow_roms[j], s, Bits)
      <4>1. \A j \in 1 .. Len(ow_roms) : ow_roms[j] \in FoundSet
        BY DEF FoundSet
      <4>2. \A r \in FoundSet : r \in bus /\ Behind(r)
        BY <1>9, <1>14 DEF Going
      <4> QED
        BY <1>9, <1>14, <4>1, <4>2
    <3>2. Sorted
      BY <1>9, <1>14 DEF Going
    <3>3. CASE ow_roms' = ow_roms
      BY <3>2, <3>3 DEF Sorted
    <3>4. CASE ow_roms' = Append(ow_roms, s)
      <4>1. ASSUME NEW j \in 1 .. Len(ow_roms'), NEW k \in 1 .. Len(ow_roms'),
                   j < k
            PROVE  Prior(ow_roms'[j], ow_roms'[k], Bits)
        <5>1. j \in 1 .. Len(ow_roms) /\ ow_roms'[j] = ow_roms[j]
          BY <1>7, <3>4, <4>1, Appended
        <5>2. CASE k = Len(ow_roms) + 1
          BY <1>7, <3>1, <3>4, <5>1, <5>2, Appended
        <5>3. CASE k # Len(ow_roms) + 1
          <6>1. k \in 1 .. Len(ow_roms) /\ ow_roms'[k] = ow_roms[k]
            BY <1>7, <3>4, <5>3, Appended
          <6> QED
            BY <3>2, <4>1, <5>1, <6>1 DEF Sorted
        <5> QED
          BY <5>2, <5>3
      <4> QED
        BY <4>1 DEF Sorted
    <3> QED
      BY <2>1, <3>3, <3>4
  <2>8. seen' = bus' /\ (LastDeviceFlag' => LastDiscrepancy' = 0)
    BY <1>2, <1>5, <1>9, <1>14 DEF Going
  <2>9. ROM_NO' \in bus' /\ LastTurn(ROM_NO', bus', LastDiscrepancy', Bits)
    BY <1>2, <1>3, <1>5, <1>9, <1>14 DEF s
  <2> QED
    BY <2>1, <2>6, <2>7, <2>8, <2>9 DEF Going
<1>15. W!Complete'
  BY <1>5, <1>13 DEF W!Found, W!Complete
<1> QED
  BY <1>1, <1>2, <1>6, <1>8, <1>14, <1>15 DEF SearchInv

LEMMA SearchStep == SearchInv /\ (W!Next \/ UNCHANGED search) => SearchInv'
<1> SUFFICES ASSUME SearchInv, W!Next \/ UNCHANGED search PROVE SearchInv'
  OBVIOUS
<1>0. W!TypeOK'
  BY SearchTypeStep DEF SearchInv
<1>1. CASE W!OwInit
  BY <1>0, <1>1 DEF W!OwInit, SearchInv, Following, W!Genuine, W!Complete,
                    W!pass, W!device
<1>2. ASSUME NEW d \in Devices, W!Plug(d) \/ W!Unplug(d) PROVE SearchInv'
  <2>1. CASE at = "idle"
    <3>1. /\ at' = "idle" /\ listening = {} /\ listening' = {}
          /\ (steady' <=> steady)
          /\ UNCHANGED <<id_bit_number, last_zero, ROM_NO, ow_roms, ow_numdev,
                         only, seen>>
      BY <1>2, <2>1 DEF W!Plug, W!Unplug, W!pass, W!device, SearchInv, Following
    <3>2. Following' /\ W!Genuine'
      BY <2>1, <3>1 DEF SearchInv, Following, W!Genuine
    <3>3. W!Complete'
      BY <2>1, <3>1 DEF SearchInv, W!Complete
    <3> QED
      BY <1>0, <3>1, <3>2, <3>3 DEF SearchInv
  <2>2. CASE at # "idle"
    BY <1>0, <1>2, <2>2 DEF W!Plug, W!Unplug, W!pass, W!device, SearchInv,
                            Following, W!Genuine, W!Complete
  <2> QED
    BY <2>1, <2>2
<1>3. CASE UNCHANGED search
  <2>1. UNCHANGED <<bus, listening, at, id_bit_number, last_zero,
                    LastDiscrepancy, LastDeviceFlag, ROM_NO, ow_roms,
                    ow_numdev, only, seen, steady>>
    BY <1>3 DEF search
  <2> QED
    BY <1>0, <2>1 DEF SearchInv, Following, W!Genuine, W!Complete, Going, Old,
                      Behind, Sorted, FoundSet
<1> QED
  BY <1>1, <1>2, <1>3, SearchStartStep, StartPassStep, NoPassStep, SilenceStep,
     ReadBitStep, ReadLastBitStep DEF W!Next

(* The search of the 1-Wire bus finds each device once, in the order of    *)
(* their addresses, if none comes or goes meanwhile, and nothing that was  *)
(* not there in any case (Lua/sensor.c).                                   *)
THEOREM EveryDeviceIsFound == Spec => []SearchFindsAll
<1>1. Init => SearchInv
  <2> SUFFICES ASSUME Init PROVE SearchInv
    OBVIOUS
  <2>1. W!TypeOK
    BY SearchTypeInit
  <2>2. /\ bus = {} /\ listening = {} /\ at = "idle" /\ id_bit_number = 1
        /\ last_zero = 0 /\ ow_roms = <<>> /\ ~ steady
    BY DEF Init, W!Init
  <2> QED
    BY <2>1, <2>2 DEF SearchInv, Following, W!Genuine, W!Complete
<1>2. SearchInv => SearchFindsAll
  BY DEF SearchInv, SearchFindsAll, W!SearchFindsAll
<1>3. SearchInv /\ [Next]_vars => SearchInv'
  BY SearchPart, SearchStep
<1> QED
  BY <1>1, <1>2, <1>3, PTL DEF Spec

-----------------------------------------------------------------------------
(* The thermometers.                                                       *)

(* A step of the program is one of the thermometers, or leaves them alone. *)
LEMMA SensorsPart == [Next]_vars => D!Next \/ UNCHANGED sensors
BY DEF Next, TimersNext, HttpsNext, BluetoothNext, TcpNext, CallsNext,
       SearchNext, SensorsNext, vars

LEMMA SensorsTypeInit == Init => D!TypeOK
<1> USE DEF D!Times, D!Short, D!Long, D!None
<1> SUFFICES ASSUME D!Init PROVE D!TypeOK
  BY DEF Init
<1>1. resolution \in [Sensors -> D!Times]
  BY DEF D!Init
<1>2. age \in 0 .. D!Long /\ tmo \in 0 .. D!Long
        /\ ds_measure_time \in D!Times /\ ds_start_measure_time \in 0 .. D!Long
  BY DEF D!Init
<1> QED
  BY <1>1, <1>2, Zenon DEF D!Init, D!TypeOK

(* Every step keeps every variable in its type.                            *)
LEMMA SensorsTypeStep == D!TypeOK /\ (D!Next \/ UNCHANGED sensors) => D!TypeOK'
<1> SUFFICES ASSUME D!TypeOK, D!Next \/ UNCHANGED sensors PROVE D!TypeOK'
  OBVIOUS
<1> USE DEF D!TypeOK, D!Times, D!Short, D!Long, D!bus, D!setting, D!wait,
            D!history
<1>a. \A d \in Sensors : D!Resolutions(d) \subseteq D!Times
  BY DEF D!Resolutions
<1>b. ASSUME NEW d, NEW ok \in BOOLEAN, D!Read(d, ok)
      PROVE  /\ disturbed' \in BOOLEAN /\ stale' \in BOOLEAN
             /\ answering' \in BOOLEAN /\ converting' \subseteq Sensors
             /\ UNCHANGED <<parasite, resolution, age, ds_parasite_pwr,
                            ds_measure_time, fresh, requested>>
  <2>1. disturbed' \in BOOLEAN /\ stale' \in BOOLEAN
    BY <1>b, Zenon DEF D!Read
  <2> QED
    BY <1>b, <2>1 DEF D!Read, D!Reset
<1>c. ASSUME NEW n \in 0 .. 2, D!StartAll(n)
      PROVE  /\ requested' \in BOOLEAN /\ fresh' \subseteq Sensors
             /\ stale' \in BOOLEAN /\ disturbed' \in BOOLEAN
             /\ ds_parasite_pwr' \in BOOLEAN /\ answering' \in BOOLEAN
             /\ converting' \subseteq Sensors /\ age' \in 0 .. D!Long
             /\ ds_start_measure_time' \in 0 .. D!Long
  <2>1. CASE n < 2
    BY <1>c, <2>1 DEF D!StartAll, D!Reset
  <2>2. CASE ~(n < 2)
    <3>1. ds_start_measure_time' \in {0, ds_start_measure_time}
      BY <1>c, <2>2, Zenon DEF D!StartAll
    <3>2. ds_parasite_pwr' \in BOOLEAN
      BY <1>c, Zenon DEF D!StartAll
    <3>3. requested' \in BOOLEAN /\ fresh' \subseteq Sensors /\ stale' \in BOOLEAN
      BY <1>c, <2>2 DEF D!StartAll
    <3>4. converting' \subseteq Sensors
      BY <1>c, <2>2 DEF D!StartAll
    <3>5. age' \in 0 .. D!Long
      BY <1>c, <2>2 DEF D!StartAll
    <3>6. disturbed' \in BOOLEAN /\ answering' \in BOOLEAN
      BY <1>c, <2>2 DEF D!StartAll
    <3>7. ds_start_measure_time' \in 0 .. D!Long
      BY <3>1
    <3> QED
      BY <3>2, <3>3, <3>4, <3>5, <3>6, <3>7
  <2> QED
    BY <2>1, <2>2
<1>1. CASE D!OwInit
  BY <1>1 DEF D!OwInit
<1>2. CASE D!Search
  BY <1>2 DEF D!Search, D!Use, D!Reset
<1>3. CASE D!TimedOut
  BY <1>3 DEF D!TimedOut
<1>4. CASE D!Tick
  BY <1>4 DEF D!Tick, D!Later
<1>5. ASSUME NEW n \in 0 .. 2, D!Startm(n) PROVE D!TypeOK'
  BY <1>5, <1>c DEF D!Startm
<1>6. ASSUME NEW n \in 0 .. 2, NEW d \in Sensors, D!Gettemp(d, n)
      PROVE  D!TypeOK'
  BY <1>6, <1>a, <1>c DEF D!Gettemp
<1>7. ASSUME NEW ok \in BOOLEAN, D!Waited(ok) PROVE D!TypeOK'
  BY <1>7, <1>b DEF D!Waited, D!Release
<1>8. ASSUME NEW ok \in BOOLEAN, NEW d \in Sensors, D!Get(d, ok)
      PROVE  D!TypeOK'
  BY <1>8, <1>b DEF D!Get, D!Release
<1>9. ASSUME NEW d \in Sensors, D!Getres(d) PROVE D!TypeOK'
  BY <1>9, <1>a DEF D!Getres, D!Use, D!Reset
<1>10. ASSUME NEW d \in Sensors, D!SetresFixed(d) \/ D!Converted(d)
       PROVE  D!TypeOK'
  BY <1>10 DEF D!SetresFixed, D!Converted
<1>11. ASSUME NEW d \in Sensors, NEW new \in D!Times, D!Setres(d, new)
       PROVE  D!TypeOK'
  BY <1>11, <1>a DEF D!Setres, D!Use, D!Reset
<1>12. CASE UNCHANGED sensors
  BY <1>12 DEF sensors
<1> QED
  BY <1>1, <1>2, <1>3, <1>4, <1>5, <1>6, <1>7, <1>8, <1>9, <1>10, <1>11, <1>12
  DEF D!Next

(* After a request that nothing has disturbed, every sensor has converted  *)
(* or still does, for less time than it takes, and the code has counted    *)
(* that time.                                                              *)
Converting ==
  requested /\ ~disturbed =>
    /\ Sensors = fresh \union converting
    /\ ds_parasite_pwr = parasite
    /\ converting # {} =>
         /\ answering
         /\ parasite => ds_start_measure_time = age
         /\ waiting # D!None => tmo = age
    /\ \A d \in converting : age < resolution[d]

SensorsInv == D!TypeOK /\ Converting /\ D!NoStaleTemperature

(* What is read after the wait has been converted, or a sensor took longer *)
(* than the code waited for, which disturbs it.                            *)
LEMMA ReadStep ==
  ASSUME SensorsInv, NEW d \in Sensors, NEW ok \in BOOLEAN, D!Read(d, ok),
         D!Release, waiting' = D!None,
         \/ ds_parasite_pwr /\ waiting = D!None
              /\ ds_start_measure_time >= ds_measure_time
         \/ ds_parasite_pwr /\ waiting # D!None /\ tmo >= ds_measure_time
         \/ ~ds_parasite_pwr /\ 1 \in D!ReadBit
  PROVE  (Converting /\ D!NoStaleTemperature)'
<1> USE DEF SensorsInv, Converting, D!NoStaleTemperature, D!TypeOK, D!Times,
            D!Short, D!Long
<1>0. disturbed' = (disturbed \/ \E c \in converting :
                                  resolution[c] > ds_measure_time)
  BY DEF D!Read
<1>1. CASE ~requested \/ disturbed
  BY <1>1 DEF D!Read
<1>2. CASE requested /\ ~disturbed /\ converting = {}
  BY <1>2 DEF D!Read, D!Reset
<1>3. CASE requested /\ ~disturbed /\ converting # {}
  <2>1. parasite /\ ds_parasite_pwr
    BY <1>3 DEF D!ReadBit
  <2>2. age >= ds_measure_time
    BY <1>3, <2>1
  <2>3. \E c \in converting : resolution[c] > ds_measure_time
    BY <1>3, <2>2
  <2> QED
    BY <2>3 DEF D!Read
<1> QED
  BY <1>1, <1>2, <1>3

LEMMA SensorsStep ==
  SensorsInv /\ (D!Next \/ UNCHANGED sensors) => SensorsInv'
<1> SUFFICES ASSUME SensorsInv, D!Next \/ UNCHANGED sensors
             PROVE  (Converting /\ D!NoStaleTemperature)'
  BY SensorsTypeStep DEF SensorsInv
<1> USE DEF SensorsInv, Converting, D!NoStaleTemperature, D!TypeOK, D!Times,
            D!Short, D!Long, D!bus, D!setting, D!wait, D!history
<1>1. CASE D!OwInit
  BY <1>1 DEF D!OwInit
<1>2. CASE D!Search
  BY <1>2 DEF D!Search, D!Use, D!Reset
<1>3. CASE D!TimedOut
  BY <1>3 DEF D!TimedOut
<1>4. CASE D!Tick
  BY <1>4 DEF D!Tick, D!Later
<1>5. ASSUME NEW n \in 0 .. 2, D!Startm(n)
      PROVE  (Converting /\ D!NoStaleTemperature)'
  BY <1>5 DEF D!Startm, D!StartAll, D!Reset
<1>6. ASSUME NEW n \in 0 .. 2, NEW d \in Sensors, D!Gettemp(d, n)
      PROVE  (Converting /\ D!NoStaleTemperature)'
  BY <1>6 DEF D!Gettemp, D!StartAll, D!Reset
<1>7. ASSUME NEW ok \in BOOLEAN, D!Waited(ok)
      PROVE  (Converting /\ D!NoStaleTemperature)'
  <2>1. waiting \in Sensors
    BY <1>7 DEF D!Waited
  <2> QED
    BY <1>7, <2>1, ReadStep DEF D!Waited
<1>8. ASSUME NEW ok \in BOOLEAN, NEW d \in Sensors, D!Get(d, ok)
      PROVE  (Converting /\ D!NoStaleTemperature)'
  BY <1>8, ReadStep DEF D!Get, D!Ready
<1>9. ASSUME NEW d \in Sensors, D!Getres(d)
      PROVE  (Converting /\ D!NoStaleTemperature)'
  BY <1>9 DEF D!Getres, D!Use, D!Reset
<1>10. ASSUME NEW d \in Sensors, D!SetresFixed(d) \/ D!Converted(d)
       PROVE  (Converting /\ D!NoStaleTemperature)'
  BY <1>10 DEF D!SetresFixed, D!Converted
<1>11. ASSUME NEW d \in Sensors, NEW new \in D!Times, D!Setres(d, new)
       PROVE  (Converting /\ D!NoStaleTemperature)'
  BY <1>11 DEF D!Setres, D!Use, D!Reset
<1>12. CASE UNCHANGED sensors
  BY <1>12 DEF sensors
<1> QED
  BY <1>1, <1>2, <1>3, <1>4, <1>5, <1>6, <1>7, <1>8, <1>9, <1>10, <1>11, <1>12
  DEF D!Next

(* A temperature is not older than the request for it, unless that was not *)
(* answered, the bus was used meanwhile, or the time waited was that of    *)
(* another sensor (Lua/sensor.c).                                          *)
THEOREM TemperaturesAreFresh == Spec => []NoStaleTemperature
<1>1. Init => SensorsInv
  BY SensorsTypeInit
  DEF Init, D!Init, SensorsInv, Converting, D!NoStaleTemperature
<1>2. SensorsInv => NoStaleTemperature
  BY DEF SensorsInv, NoStaleTemperature
<1>3. SensorsInv /\ [Next]_vars => SensorsInv'
  BY SensorsPart, SensorsStep
<1> QED
  BY <1>1, <1>2, <1>3, PTL DEF Spec
=============================================================================
