--------------------------------- MODULE Tcp ---------------------------------
(***************************************************************************)
(* The TCP client of Lua/tcp.c.  A connection is made with a function, to  *)
(* which its events go, or with data, which are sent when it is connected: *)
(* from send_buf, of which there is one for all connections.               *)
(***************************************************************************)
CONSTANTS
  Connections,
  NULL

(* What is assumed of the constants.                                        *)
Constants == NULL \notin Connections

VARIABLES
  link,         \* of each connection: "none", "connecting" or "open"
  data,         \* the connections made with data
  send_buf,     \* whose data it points to
  freed,        \* what it points to has been freed
  \* history
  overlapped,   \* a connection with data was made during another
  hungUp,       \* the peer closed a connection that was made with data
  mixed,        \* a connection did not send its own data
  corrupted     \* send_buf was read or freed after it was freed

vars == <<link, data, send_buf, freed, overlapped, hungUp, mixed, corrupted>>
buffer == <<send_buf, freed>>
history == <<overlapped, hungUp, mixed, corrupted>>

Init ==
  /\ link = [c \in Connections |-> "none"]
  /\ data = {}
  /\ send_buf = NULL
  /\ freed = FALSE
  /\ overlapped = FALSE /\ hungUp = FALSE
  /\ mixed = FALSE /\ corrupted = FALSE

(* send_buf is not NULL but no longer allocated.                           *)
Dangling == send_buf # NULL /\ freed

(* tcp.connect(address, port, function).                                   *)
ConnectWithFunction(c) ==
  /\ link[c] = "none"
  /\ link' = [link EXCEPT ![c] = "connecting"]
  /\ data' = data \ {c}
  /\ UNCHANGED <<buffer, history>>

MutantNewBuffer(c) ==
  /\ send_buf' = IF send_buf = NULL THEN c ELSE send_buf
  /\ freed' = (send_buf # NULL)

(* vm_free of the old send_buf and vm_malloc of the next.                  *)
NewBuffer(c) ==
  /\ send_buf' = c
  /\ freed' = FALSE

(* tcp.connect(address, port, data); the connection is refused when there  *)
(* is no memory, and the connection to the peer may fail at once.          *)
ConnectWithData(c) ==
  /\ link[c] = "none"
  /\ corrupted' = (corrupted \/ Dangling)
  /\ \/ /\ NewBuffer(c)
        /\ link' \in {link, [link EXCEPT ![c] = "connecting"]}
        /\ data' = data \union {c}
        /\ overlapped' = (overlapped \/ \E d \in data : link[d] # "none")
     \/ /\ send_buf' = NULL
        /\ freed' = FALSE
        /\ overlapped' = (overlapped \/ \E d \in data : link[d] # "none")
        /\ UNCHANGED <<link, data>>
  /\ UNCHANGED <<hungUp, mixed>>

(* __tcp_callback, VM_TCP_EVENT_CONNECTED.                                 *)
Connected(c) ==
  /\ link[c] = "connecting"
  /\ link' = [link EXCEPT ![c] = "open"]
  /\ corrupted' = (corrupted \/ (c \in data /\ Dangling))
  /\ mixed' = (mixed \/ (c \in data /\ send_buf # c))
  /\ UNCHANGED <<data, buffer, overlapped, hungUp>>

(* VM_TCP_EVENT_PIPE_CLOSED: send_buf is freed, and not cleared.           *)
PipeClosed(c) ==
  /\ link[c] = "open"
  /\ link' = [link EXCEPT ![c] = "none"]
  /\ IF c \in data /\ send_buf # NULL
     THEN /\ freed' = TRUE
          /\ corrupted' = (corrupted \/ freed)
          /\ hungUp' = TRUE
     ELSE UNCHANGED <<freed, corrupted, hungUp>>
  /\ UNCHANGED <<data, send_buf, overlapped, mixed>>

(* tcp.close, or an event that nothing is done about.                      *)
Closed(c) ==
  /\ link[c] # "none"
  /\ link' = [link EXCEPT ![c] = "none"]
  /\ UNCHANGED <<data, buffer, history>>

Next ==
  \E c \in Connections :
    \/ ConnectWithFunction(c) \/ ConnectWithData(c)
    \/ Connected(c) \/ PipeClosed(c) \/ Closed(c)

Spec == Init /\ [][Next]_vars

TypeOK ==
  /\ link \in [Connections -> {"none", "connecting", "open"}]
  /\ data \subseteq Connections
  /\ send_buf \in Connections \union {NULL}
  /\ {freed, overlapped, hungUp, mixed, corrupted} \subseteq BOOLEAN

(* Safety, tcp.c: a connection sends the data it was made with, unless     *)
(* another was made with data meanwhile; and the buffer is not used after  *)
(* it was freed unless a peer has closed a connection made with data, from *)
(* when on it is, at the next connection at the latest.                    *)
SendsItsData == (mixed => overlapped) /\ (corrupted => hungUp)
=============================================================================
