------------------------------- MODULE Bindings -------------------------------
(***************************************************************************)
(* The device bindings a Lua program may use, each with its own static     *)
(* variables: timers and NTP, HTTPS, the Bluetooth serial port, TCP,       *)
(* telephone calls, and the search for 1-Wire devices and thermometers.    *)
(*                                                                         *)
(* They share the main thread, which runs one call or callback at a time,  *)
(* and no variable.  What each does is therefore the same whether or not   *)
(* the others run, and a behaviour here is one of a program that uses one  *)
(* of them.                                                                *)
(***************************************************************************)
EXTENDS Naturals

CONSTANTS
  Objects, Ids, NtpSockets, NtpTimeOut,     \* Timers
  Channels, Urls,                           \* Https
  Connections, NULL,                        \* Bluetooth and Tcp
  Numbers,                                  \* Calls
  Bits, FamilyBits, Devices, DS18B20, MAX_ONEWIRE_SENSORS,  \* OneWire
  Sensors, Fixed                            \* Ds18b20

VARIABLES
  binding,
  owner, object, timer_id, ntp, sockets, ntpOverlapped, strayed,
  channel, handlers, g_channel_id, g_request_id, g_https_url, g_postdata,
  g_post_type, asked, altered, httpsOverlapped,
  g_btcm_hdl, g_btspp_hdl, g_btspp_buf, g_btspp_connected, g_btspp_id,
  retarget_target, spp, links,
  link, data, send_buf, freed, tcpOverlapped, hungUp, mixed, corrupted,
  call, g_call_status, g_uid_info, awaited, crossed,
  bus, listening, at, id_bit_number, last_zero, LastDiscrepancy,
  LastDeviceFlag, ROM_NO, ow_roms, ow_numdev, only, seen, steady,
  parasite, resolution, converting, age, answering, ds_parasite_pwr,
  ds_measure_time, ds_start_measure_time, waiting, tmo, fresh, requested,
  disturbed, stale

T == INSTANCE Timers WITH Sockets <- NtpSockets, TimeOut <- NtpTimeOut,
                          overlapped <- ntpOverlapped
H == INSTANCE Https WITH overlapped <- httpsOverlapped
B == INSTANCE Bluetooth
P == INSTANCE Tcp WITH overlapped <- tcpOverlapped
C == INSTANCE Calls
W == INSTANCE OneWire
D == INSTANCE Ds18b20

ASSUME BindingsAssumption ==
  T!Constants /\ H!Constants /\ B!Constants /\ P!Constants /\ C!Constants
  /\ W!Constants /\ D!Constants

timers == <<owner, object, timer_id, ntp, sockets, ntpOverlapped, strayed>>
https  == <<channel, handlers, g_channel_id, g_request_id, g_https_url,
            g_postdata, g_post_type, asked, altered, httpsOverlapped>>
bluetooth == <<g_btcm_hdl, g_btspp_hdl, g_btspp_buf, g_btspp_connected,
               g_btspp_id, retarget_target, spp, links>>
tcp    == <<link, data, send_buf, freed, tcpOverlapped, hungUp, mixed,
            corrupted>>
calls  == <<call, g_call_status, g_uid_info, awaited, crossed>>
search == <<bus, listening, at, id_bit_number, last_zero, LastDiscrepancy,
            LastDeviceFlag, ROM_NO, ow_roms, ow_numdev, only, seen, steady>>
sensors == <<parasite, resolution, converting, age, answering,
             ds_parasite_pwr, ds_measure_time, ds_start_measure_time,
             waiting, tmo, fresh, requested, disturbed, stale>>
vars == <<binding, timers, https, bluetooth, tcp, calls, search, sensors>>

Init ==
  /\ binding \in {"timers", "https", "bluetooth", "tcp", "calls",
                 "search", "sensors"}
  /\ T!Init /\ H!Init /\ B!Init /\ P!Init /\ C!Init
  /\ W!Init /\ D!Init

TimersNext == binding = "timers" /\ T!Next
                /\ UNCHANGED <<binding, https, bluetooth, tcp, calls,
                               search, sensors>>
HttpsNext  == binding = "https" /\ H!Next
                /\ UNCHANGED <<binding, timers, bluetooth, tcp, calls,
                               search, sensors>>
BluetoothNext == binding = "bluetooth" /\ B!Next
                /\ UNCHANGED <<binding, timers, https, tcp, calls,
                               search, sensors>>
TcpNext    == binding = "tcp" /\ P!Next
                /\ UNCHANGED <<binding, timers, https, bluetooth, calls,
                               search, sensors>>
CallsNext  == binding = "calls" /\ C!Next
                /\ UNCHANGED <<binding, timers, https, bluetooth, tcp,
                               search, sensors>>

SearchNext == binding = "search" /\ W!Next
                /\ UNCHANGED <<binding, timers, https, bluetooth, tcp, calls,
                               sensors>>
SensorsNext == binding = "sensors" /\ D!Next
                /\ UNCHANGED <<binding, timers, https, bluetooth, tcp, calls,
                               search>>

Next == TimersNext \/ HttpsNext \/ BluetoothNext \/ TcpNext \/ CallsNext
          \/ SearchNext \/ SensorsNext

Spec == Init /\ [][Next]_vars /\ T!Fairness /\ H!Fairness

TypeOK == T!TypeOK /\ H!TypeOK /\ B!TypeOK /\ P!TypeOK /\ C!TypeOK
            /\ W!TypeOK /\ D!TypeOK

(* Safety, timer.c: no timer calls back with a userdata that has been      *)
(* collected (Timers).                                                     *)
LiveCallbacks == T!LiveCallbacks

(* Action property, timer.c and sntp.c: who deletes the timer of another   *)
(* first is a userdata whose timer the program had deleted itself, or the  *)
(* NTP client after overlapping requests (Timers).                         *)
OwnTimers == T!OwnTimers

(* Safety, https.c: what is sent is what was asked for (Https).            *)
SendsWhatWasAsked == H!SendsWhatWasAsked

(* Liveness, sntp.c and https.c: what a request to the network opened is   *)
(* given back, the socket and the timer of NTP (Timers) and the channel of *)
(* a GET (Https).                                                          *)
RequestsEnd == T!NtpEnds /\ H!ChannelsAreGivenBack

(* Safety, bt.c: console, connection, buffer and service of the Bluetooth  *)
(* serial port belong together (Bluetooth).                                *)
PortIsWhole == B!PortIsWhole

(* Safety, tcp.c: a connection sends the data it was made with, from a     *)
(* buffer that is there (Tcp).                                             *)
SendsItsData == P!SendsItsData

(* Safety, gsm.c: a call that goes on can be hung up (Calls).              *)
CanHangUp == C!CanHangUp

(* Safety, sensor.c: a search finds every device on the bus once, and      *)
(* nothing that was not there (OneWire).                                   *)
SearchFindsAll == W!SearchFindsAll

(* Safety, sensor.c: a temperature is not older than the request for it,   *)
(* unless the bus was used meanwhile (Ds18b20).                            *)
NoStaleTemperature == D!NoStaleTemperature
=============================================================================
