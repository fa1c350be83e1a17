------------------------------- MODULE OneWire -------------------------------
(***************************************************************************)
(* The search for the devices of a 1-Wire bus, of Lua/sensor.c.            *)
(*                                                                         *)
(* All devices answer together: a bit is read as 0 if one of them has a 0  *)
(* there, and its complement as 0 if one has a 1.  Each pass of the search *)
(* writes back one of the values that were read, after which the devices   *)
(* with the other one are silent, until a single device is left.  What     *)
(* TM_OneWire_Search keeps from one pass to the next is only the address   *)
(* it found and the last bit at which it went to 0 and could have gone to  *)
(* 1.  The code searches the whole bus in one call, during which devices   *)
(* may come and go.                                                        *)
(***************************************************************************)
EXTENDS Naturals, Sequences, FiniteSets

CONSTANTS
  Bits,                   \* bits of an address
  FamilyBits,             \* bits of its first byte
  Devices,                \* devices, by their addresses
  DS18B20,                \* those that TM_DS18B20_Is accepts
  MAX_ONEWIRE_SENSORS

Addresses == [1 .. Bits -> {0, 1}]
Blank(rom) == \A b \in 1 .. FamilyBits : rom[b] = 0

(* What is assumed of the constants: no device has a first byte of zero.   *)
Constants ==
  /\ Bits \in Nat \ {0} /\ FamilyBits \in 1 .. Bits
  /\ \A d \in Devices : d \in Addresses /\ ~ Blank(d)
  /\ MAX_ONEWIRE_SENSORS \in Nat \ {0}

VARIABLES
  bus,              \* the devices there are
  listening,        \* those that follow the pass under way
  at,               \* of a search: not running, before a pass, in a pass
  id_bit_number, last_zero,
  LastDiscrepancy, LastDeviceFlag, ROM_NO,      \* OW_DEVICE
  ow_roms,          \* the addresses found, count of them
  ow_numdev,
  \* history
  only,             \* the search is ds_search, for thermometers
  seen,             \* the devices there have been since it began
  steady            \* none has come or gone since

pass == <<id_bit_number, last_zero>>
device == <<LastDiscrepancy, LastDeviceFlag, ROM_NO>>
vars == <<bus, listening, at, pass, device, ow_roms, ow_numdev, only, seen,
          steady>>

(* luaopen_sensor: nothing is connected before ow_init.                    *)
Init ==
  /\ bus = {}
  /\ listening = {}
  /\ at = "idle"
  /\ id_bit_number = 1 /\ last_zero = 0
  /\ LastDiscrepancy = 0 /\ LastDeviceFlag = FALSE
  /\ ROM_NO = [b \in 1 .. Bits |-> 0]
  /\ ow_roms = <<>> /\ ow_numdev = 0
  /\ only = FALSE /\ seen = {} /\ steady = FALSE

(* The counters of a search that is to start from the beginning.           *)
ResetSearch == LastDiscrepancy' = 0 /\ LastDeviceFlag' = FALSE

(* ow_init of a pin that has a handle: perhaps another one.  No device is  *)
(* known.                                                                  *)
OwInit ==
  /\ at = "idle"
  /\ bus' \in SUBSET Devices
  /\ ow_numdev' = 0
  /\ steady' = FALSE
  /\ UNCHANGED <<listening, at, pass, device, ow_roms, only, seen>>

(* ow_search and ds_search, up to the first pass.                          *)
Search(thermometers) ==
  /\ at = "idle"
  /\ ResetSearch
  /\ at' = "pass"
  /\ ow_roms' = <<>>
  /\ only' = thermometers /\ seen' = bus /\ steady' = TRUE
  /\ UNCHANGED <<bus, listening, pass, ROM_NO, ow_numdev>>

(* TM_OneWire_Search returns, and its variables end with it.               *)
EndPass == id_bit_number' = 1 /\ last_zero' = 0 /\ listening' = {}

(* A pass that finds nothing ends the search, and so does the one after    *)
(* the last address there is room for.                                     *)
Finish ==
  /\ at' = "idle"
  /\ ow_numdev' = Len(ow_roms)
  /\ UNCHANGED ow_roms

NothingFound == EndPass /\ ResetSearch /\ Finish /\ UNCHANGED ROM_NO

(* TM_OneWire_Search, up to its loop.                                      *)
StartPass ==
  /\ at = "pass"
  /\ ~ LastDeviceFlag
  /\ bus # {}
  /\ listening' = bus
  /\ at' = "bits"
  /\ UNCHANGED <<bus, pass, device, ow_roms, ow_numdev, only, seen, steady>>

(* The last device has been found, or nobody answers the reset.            *)
NoPass ==
  /\ at = "pass"
  /\ LastDeviceFlag \/ bus = {}
  /\ NothingFound
  /\ UNCHANGED <<bus, only, seen, steady>>

Reads(bit) == \E d \in listening : d[id_bit_number] = bit

MutantDirection ==
  IF ~ (Reads(0) /\ Reads(1)) THEN IF Reads(1) THEN 1 ELSE 0
  ELSE IF id_bit_number <= LastDiscrepancy THEN ROM_NO[id_bit_number]
  ELSE 0

(* search_direction: where devices differ, as in the last pass before the  *)
(* last discrepancy, then 1 there and 0 after it.                          *)
Direction ==
  IF ~ (Reads(0) /\ Reads(1)) THEN IF Reads(1) THEN 1 ELSE 0
  ELSE IF id_bit_number < LastDiscrepancy THEN ROM_NO[id_bit_number]
  ELSE IF id_bit_number = LastDiscrepancy THEN 1 ELSE 0

(* last_zero after this bit.                                               *)
LastZero ==
  IF Reads(0) /\ Reads(1) /\ Direction = 0 THEN id_bit_number ELSE last_zero

(* GetFullROM, TM_DS18B20_Is and the test of the loop after another pass.  *)
Found(rom) ==
  IF Len(ow_roms) >= MAX_ONEWIRE_SENSORS
    THEN Finish
    ELSE /\ at' = "pass"
         /\ ow_roms' = IF only /\ rom \notin DS18B20 THEN ow_roms
                                                     ELSE Append(ow_roms, rom)
         /\ UNCHANGED ow_numdev

(* One turn of the loop of TM_OneWire_Search, before the last bit.         *)
ReadBit ==
  /\ at = "bits"
  /\ listening # {} /\ id_bit_number < Bits
  /\ ROM_NO' = [ROM_NO EXCEPT ![id_bit_number] = Direction]
  /\ last_zero' = LastZero
  /\ listening' = {d \in listening : d[id_bit_number] = Direction}
  /\ id_bit_number' = id_bit_number + 1
  /\ UNCHANGED <<bus, at, LastDiscrepancy, LastDeviceFlag, ow_roms, ow_numdev,
                 only, seen, steady>>

(* The last turn, the rest of TM_OneWire_Search, and of the turn of the    *)
(* loop that called it.                                                    *)
ReadLastBit ==
  /\ at = "bits"
  /\ listening # {} /\ id_bit_number = Bits
  /\ ROM_NO' = [ROM_NO EXCEPT ![id_bit_number] = Direction]
  /\ EndPass
  /\ IF Blank(ROM_NO')
       THEN ResetSearch /\ Finish
       ELSE /\ LastDiscrepancy' = LastZero
            /\ LastDeviceFlag' = (LastZero = 0)
            /\ Found(ROM_NO')
  /\ UNCHANGED <<bus, only, seen, steady>>

(* Both reads are 1: all the devices that were left have gone.             *)
Silence ==
  /\ at = "bits"
  /\ listening = {}
  /\ NothingFound
  /\ UNCHANGED <<bus, only, seen, steady>>

(* A device is connected: it waits for the next reset.                     *)
Plug(d) ==
  /\ d \notin bus
  /\ bus' = bus \union {d}
  /\ steady' = (steady /\ at = "idle")
  /\ seen' = IF at = "idle" THEN seen ELSE seen \union {d}
  /\ UNCHANGED <<listening, at, pass, device, ow_roms, ow_numdev, only>>

Unplug(d) ==
  /\ d \in bus
  /\ bus' = bus \ {d}
  /\ listening' = listening \ {d}
  /\ steady' = (steady /\ at = "idle")
  /\ UNCHANGED <<at, pass, device, ow_roms, ow_numdev, only, seen>>

Next ==
  \/ OwInit
  \/ \E thermometers \in BOOLEAN : Search(thermometers)
  \/ StartPass \/ NoPass \/ ReadBit \/ ReadLastBit \/ Silence
  \/ \E d \in Devices : Plug(d) \/ Unplug(d)

Spec == Init /\ [][Next]_vars

(* No more addresses are kept than there is room for.                      *)
TypeOK ==
  /\ bus \subseteq Devices /\ listening \subseteq Devices
  /\ at \in {"idle", "pass", "bits"}
  /\ id_bit_number \in 1 .. Bits /\ last_zero \in 0 .. Bits
  /\ LastDiscrepancy \in 0 .. Bits /\ LastDeviceFlag \in BOOLEAN
  /\ ROM_NO \in Addresses
  /\ ow_roms \in Seq(Addresses) /\ Len(ow_roms) <= MAX_ONEWIRE_SENSORS
  /\ ow_numdev \in 0 .. MAX_ONEWIRE_SENSORS
  /\ only \in BOOLEAN /\ seen \subseteq Devices /\ steady \in BOOLEAN

Before(r, s) ==
  \E b \in 1 .. Bits : r[b] < s[b] /\ \A c \in 1 .. b - 1 : r[c] = s[c]

(* What is found has been on the bus, however devices come and go: no      *)
(* address is put together from those of several devices.                  *)
Genuine == \A i \in 1 .. Len(ow_roms) : ow_roms[i] \in seen

(* A search during which no device comes or goes finds each device that is *)
(* asked for once, in the order of the addresses, and if there are more    *)
(* than there is room for, the first ones.                                 *)
Complete ==
  at = "idle" /\ steady =>
    LET wanted == {d \in seen : only => d \in DS18B20}
        found == {ow_roms[i] : i \in 1 .. ow_numdev}
    IN  /\ ow_numdev = Len(ow_roms)
        /\ found \subseteq wanted
        /\ \A i, j \in 1 .. ow_numdev : i < j => Before(ow_roms[i], ow_roms[j])
        /\ \A d \in wanted \ found :
             /\ ow_numdev = MAX_ONEWIRE_SENSORS
             /\ \A r \in found : Before(r, d)

SearchFindsAll == Genuine /\ Complete
=============================================================================
