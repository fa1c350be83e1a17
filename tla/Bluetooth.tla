------------------------------ MODULE Bluetooth ------------------------------
(***************************************************************************)
(* The Bluetooth serial port of Lua/bt.c and the console that os.retarget  *)
(* moves to it: what a Lua program calls, and the events of the SDK.       *)
(*                                                                         *)
(* External, as bt.c relies on it: the SDK asks to authorize only while a  *)
(* service is bound, reports the end of every connection, those it ends    *)
(* when Bluetooth goes off included, and no event of a closed service.     *)
(***************************************************************************)
EXTENDS Naturals

CONSTANT Connections    \* connection identifiers

(* What is assumed of the constants.                                        *)
Constants == 0 \notin Connections

VARIABLES
  g_btcm_hdl,           \* the connection manager: there is a handle
  g_btspp_hdl,          \* the serial service: there is a handle
  g_btspp_buf,          \* its buffer is allocated
  g_btspp_connected,
  g_btspp_id,           \* of the last connection accepted
  retarget_target,      \* where the console is
  spp,                  \* the service in the SDK: "closed", "open", "bound"
  links                 \* connections in the SDK

vars == <<g_btcm_hdl, g_btspp_hdl, g_btspp_buf, g_btspp_connected, g_btspp_id,
          retarget_target, spp, links>>
console == <<g_btspp_connected, g_btspp_id, retarget_target>>
service == <<g_btspp_hdl, g_btspp_buf, spp>>

(* retarget_target is a device handle, or -1000; handle 0 is where the     *)
(* console goes after Bluetooth, whatever device that is.                  *)
Targets == {"usb", "uart", "bluetooth", "handle 0"}

Init ==
  /\ g_btcm_hdl = FALSE /\ g_btspp_hdl = FALSE /\ g_btspp_buf = FALSE
  /\ g_btspp_connected = FALSE
  /\ g_btspp_id = 0
  /\ retarget_target = "usb"
  /\ spp = "closed"
  /\ links = {}

ConsoleLeaves ==
  retarget_target' = IF retarget_target = "bluetooth" THEN "handle 0"
                                                       ELSE retarget_target

(* vm_bt_cm_init may fail; a program may try again.                        *)
BtStart ==
  /\ g_btcm_hdl' \in {g_btcm_hdl, TRUE}
  /\ UNCHANGED <<service, console, links>>

MutantSppStartFails ==
  /\ g_btspp_hdl' = FALSE
  /\ g_btspp_buf' = TRUE
  /\ spp' = "closed"

(* vm_bt_spp_bind fails: the service is closed, its handle stays.          *)
SppStartFails ==
  /\ g_btspp_hdl' = TRUE
  /\ g_btspp_buf' = TRUE
  /\ spp' = "closed"

(* app_btspp_start: no handle; no buffer; not bound; bound.                *)
SppStart ==
  /\ g_btcm_hdl /\ ~g_btspp_hdl
  /\ g_btspp_connected' = FALSE
  /\ \/ UNCHANGED service
     \/ g_btspp_hdl' = TRUE /\ g_btspp_buf' = FALSE /\ spp' = "open"
     \/ SppStartFails
     \/ g_btspp_hdl' = TRUE /\ g_btspp_buf' = TRUE /\ spp' = "bound"
  /\ UNCHANGED <<g_btcm_hdl, g_btspp_id, retarget_target, links>>

SppStop ==
  /\ g_btspp_hdl' = FALSE
  /\ g_btspp_buf' = FALSE
  /\ g_btspp_connected' = FALSE
  /\ ConsoleLeaves
  /\ spp' = IF g_btspp_hdl THEN "closed" ELSE spp
  /\ links' = IF g_btspp_hdl THEN {} ELSE links
  /\ UNCHANGED g_btspp_id

BtSppStop == SppStop /\ UNCHANGED g_btcm_hdl
BtStop == SppStop /\ g_btcm_hdl' = FALSE

(* os.retarget: only to a Bluetooth device that is there.                  *)
Retarget(t) ==
  /\ t = "bluetooth" => g_btspp_connected
  /\ retarget_target' = t
  /\ UNCHANGED <<g_btcm_hdl, service, g_btspp_connected, g_btspp_id, links>>

(* app_btspp_cb; vm_bt_spp_accept may fail.                                *)
Authorize(c) ==
  /\ spp = "bound" /\ c \notin links
  /\ \/ UNCHANGED <<links, console>>
     \/ /\ links' = links \union {c}
        /\ g_btspp_connected' = TRUE
        /\ g_btspp_id' = c
        /\ UNCHANGED retarget_target
  /\ UNCHANGED <<g_btcm_hdl, service>>

(* Whichever of two connections it is.                                     *)
Disconnect(c) ==
  /\ c \in links
  /\ links' = links \ {c}
  /\ g_btspp_connected' = FALSE
  /\ ConsoleLeaves
  /\ UNCHANGED <<g_btcm_hdl, service, g_btspp_id>>

(* app_btcm_cb, when Bluetooth goes off: the serial service is left alone. *)
Deactivate ==
  /\ g_btcm_hdl /\ links = {}
  /\ g_btcm_hdl' = FALSE
  /\ UNCHANGED <<service, console, links>>

Next ==
  \/ BtStart \/ SppStart \/ BtSppStop \/ BtStop \/ Deactivate
  \/ \E t \in Targets \ {"handle 0"} : Retarget(t)
  \/ \E c \in Connections : Authorize(c) \/ Disconnect(c)

Spec == Init /\ [][Next]_vars

TypeOK ==
  /\ g_btcm_hdl \in BOOLEAN /\ g_btspp_hdl \in BOOLEAN
  /\ g_btspp_buf \in BOOLEAN /\ g_btspp_connected \in BOOLEAN
  /\ g_btspp_id \in Connections \union {0}
  /\ retarget_target \in Targets
  /\ spp \in {"closed", "open", "bound"}
  /\ links \subseteq Connections

(* A console on Bluetooth writes to a connection that is still there.      *)
ConsoleIsConnected ==
  retarget_target = "bluetooth" =>
    g_btspp_connected /\ g_btspp_id \in links /\ spp = "bound"

(* A service that may be connected to has a buffer to receive into; a      *)
(* buffer has a handle, without which the next start would lose it.        *)
BufferFollowsService ==
  /\ spp = "bound" => g_btspp_buf
  /\ g_btspp_buf => g_btspp_hdl

(* Safety, bt.c: through failed starts, second connections, stops and      *)
(* Bluetooth going off, the console, the connection, the buffer and the    *)
(* service belong together.                                                *)
PortIsWhole == ConsoleIsConnected /\ BufferFollowsService
=============================================================================
