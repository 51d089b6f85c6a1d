------------------------------ MODULE BleProxy ------------------------------
(***************************************************************************)
(* Two short-lived sessions of the Bluetooth library.                      *)
(*                                                                         *)
(* IneproBleProxyModbusClient (src/inepro_metering/ble_proxy.py): every    *)
(* request, a ping or a frame, opens a TCP connection of its own to the    *)
(* proxy, sends one line, reads one line and closes the connection.        *)
(*                                                                         *)
(* async_read_ble_device_information_only (src/inepro_metering/ble.py): a  *)
(* link without pairing, opened to read the Device Information service.    *)
(***************************************************************************)

VARIABLES
  pxAt,        \* the await a proxy request is suspended in
  pxPing,      \* the request is a ping
  pxOpen,      \* TCP connections open to the proxy
  pxDone,      \* the proxy has carried out the request
  pxEnd,       \* how the request will end once the connection is closed
  pxConnected, \* _connected
  pxResult,    \* how the last request ended
  ckAt,        \* the await the Device Information read is suspended in
  ckLink,      \* the link of the current or last read is up
  ckResult,    \* how the last read ended
  ckUndone     \* history: its disconnection raised or was cancelled

pxVars == <<pxAt, pxPing, pxOpen, pxDone, pxEnd, pxConnected, pxResult>>
ckVars == <<ckAt, ckLink, ckResult, ckUndone>>

Endings == {"none", "ok", "raised", "cancelled"}

\* How the answer to a request can be read; a frame's may be "ok" and yet hold no
\* frame.
Readings == {"ok", "malformed", "raised", "cancelled"}

ProxyTypeOK ==
  /\ pxAt \in {"idle", "open", "drain", "read", "close"}
  /\ pxPing \in BOOLEAN /\ pxOpen \in BOOLEAN /\ pxDone \in BOOLEAN
  /\ pxConnected \in BOOLEAN
  /\ pxEnd \in {"none"} \cup Readings /\ pxResult \in Endings
  /\ ckAt \in {"idle", "resolve", "connect", "read", "disconnect"}
  /\ ckLink \in BOOLEAN /\ ckResult \in Endings /\ ckUndone \in BOOLEAN

ProxyInit ==
  /\ pxAt = "idle" /\ pxPing = FALSE /\ pxOpen = FALSE /\ pxDone = FALSE
  /\ pxEnd = "none" /\ pxConnected = FALSE /\ pxResult = "none"
  /\ ckAt = "idle" /\ ckLink = FALSE /\ ckResult = "none" /\ ckUndone = FALSE

-----------------------------------------------------------------------------
(* The proxy client: connect is a ping, every operation one frame *)

ProxyRequest(ping) ==
  /\ pxAt = "idle"
  /\ pxAt' = "open"
  /\ pxPing' = ping
  /\ pxDone' = FALSE /\ pxEnd' = "none" /\ pxResult' = "none"
  /\ UNCHANGED <<pxOpen, pxConnected>>

ProxyOpened ==
  /\ pxAt = "open"
  /\ pxAt' = "drain"
  /\ pxOpen' = TRUE
  /\ UNCHANGED <<pxPing, pxDone, pxEnd, pxConnected, pxResult>>

\* No connection: the one failure that clears _connected.
ProxyRefused ==
  /\ pxAt = "open"
  /\ pxAt' = "idle"
  /\ pxConnected' = FALSE
  /\ pxResult' = "raised"
  /\ UNCHANGED <<pxPing, pxOpen, pxDone, pxEnd>>

ProxySent ==
  /\ pxAt = "drain"
  /\ pxAt' = "read"
  /\ pxDone' \in BOOLEAN
  /\ UNCHANGED <<pxPing, pxOpen, pxEnd, pxConnected, pxResult>>

\* The write or the read ends: with an answer, which may be an error or no
\* JSON object, a timeout, a closed connection, or a cancellation.
ProxyRead(end) ==
  /\ pxAt \in {"drain", "read"}
  /\ end \in {"ok", "malformed"} => pxAt = "read" /\ pxDone
  /\ end = "malformed" => ~pxPing
  /\ pxAt' = "close"
  /\ pxEnd' = end
  /\ UNCHANGED <<pxPing, pxOpen, pxDone, pxConnected, pxResult>>

\* The connection is closed in every case.  An "ok" of the proxy sets _connected
\* even when no frame came with it; wait_closed may raise, and then even a
\* request that was answered has failed.
ProxyClosed ==
  /\ pxAt = "close"
  /\ pxAt' = "idle"
  /\ pxOpen' = FALSE
  /\ \/ /\ pxResult' = IF pxEnd = "malformed" THEN "raised" ELSE pxEnd
        /\ pxConnected' = (pxConnected \/ pxEnd \in {"ok", "malformed"})
     \/ pxResult' = "raised" /\ UNCHANGED pxConnected
  /\ UNCHANGED <<pxPing, pxDone, pxEnd>>

\* Cancelled while connecting, or while the connection is closed.
ProxyCancelled ==
  /\ pxAt \in {"open", "close"}
  /\ pxAt' = "idle"
  /\ pxOpen' = FALSE
  /\ pxResult' = "cancelled"
  /\ UNCHANGED <<pxPing, pxDone, pxEnd, pxConnected>>

\* close() of the client, with no request running.
ProxyClose ==
  /\ pxAt = "idle"
  /\ pxConnected' = FALSE
  /\ UNCHANGED <<pxAt, pxPing, pxOpen, pxDone, pxEnd, pxResult>>

ProxyNext ==
  \/ \E ping \in BOOLEAN : ProxyRequest(ping)
  \/ ProxyOpened \/ ProxyRefused \/ ProxySent \/ ProxyClosed \/ ProxyCancelled
  \/ ProxyClose
  \/ \E end \in Readings : ProxyRead(end)

-----------------------------------------------------------------------------
(* Reading only the Device Information *)

CheckStart ==
  /\ ckAt = "idle"
  /\ ckAt' = "resolve"
  /\ ckLink' = FALSE
  /\ ckResult' = "none"
  /\ ckUndone' = FALSE

Resolved ==
  /\ ckAt = "resolve"
  /\ ckAt' = "connect"
  /\ UNCHANGED <<ckLink, ckResult, ckUndone>>

Linked ==
  /\ ckAt = "connect"
  /\ ckAt' = "read"
  /\ ckLink' = TRUE
  /\ UNCHANGED <<ckResult, ckUndone>>

\* No device, no link (a client that did not connect is disconnected again), or
\* cancelled: there is no client yet, and nothing to disconnect.
CheckFails(end) ==
  /\ ckAt \in {"resolve", "connect"}
  /\ ckAt' = "idle"
  /\ ckResult' = end
  /\ UNCHANGED <<ckLink, ckUndone>>

\* Wrong on purpose: only a successful read disconnects.
InformationReadKeeping(end) ==
  /\ ckAt = "read"
  /\ ckAt' = IF ckLink /\ end = "ok" THEN "disconnect" ELSE "idle"
  /\ ckResult' = end
  /\ UNCHANGED <<ckLink, ckUndone>>

\* The characteristics were read, as far as the link lasted, or none of them had a
\* value, or the read was cancelled; a link that is still up is disconnected.
InformationRead(end) ==
  /\ ckAt = "read"
  /\ ckAt' = IF ckLink THEN "disconnect" ELSE "idle"
  /\ ckResult' = end
  /\ UNCHANGED <<ckLink, ckUndone>>

\* disconnect returned.
Disconnected ==
  /\ ckAt = "disconnect"
  /\ ckAt' = "idle"
  /\ ckLink' = FALSE
  /\ UNCHANGED <<ckResult, ckUndone>>

\* disconnect raised, which is logged only: the link may still be up.
DisconnectRaises ==
  /\ ckAt = "disconnect"
  /\ ckAt' = "idle"
  /\ ckLink' \in {FALSE, ckLink}
  /\ ckUndone' = TRUE
  /\ UNCHANGED ckResult

\* Cancelled while disconnecting, also when the read was cancelled before: the
\* link may still be up.
DisconnectCancelled ==
  /\ ckAt = "disconnect"
  /\ ckAt' = "idle"
  /\ ckLink' \in {FALSE, ckLink}
  /\ ckResult' = "cancelled"
  /\ ckUndone' = TRUE

CheckLinkLost ==
  /\ ckLink
  /\ ckLink' = FALSE
  /\ UNCHANGED <<ckAt, ckResult, ckUndone>>

CheckNext ==
  \/ CheckStart \/ Resolved \/ Linked \/ CheckLinkLost
  \/ Disconnected \/ DisconnectRaises \/ DisconnectCancelled
  \/ \E end \in {"raised", "cancelled"} : CheckFails(end)
  \/ \E end \in Endings \ {"none"} : InformationRead(end)

-----------------------------------------------------------------------------
(* Properties *)

\* No request of the proxy client leaves a connection behind, and one that
\* reports success was carried out.  A Device Information read, however far it
\* came, leaves a link only when its disconnection raised or was cancelled.
NothingLeftOpen ==
  /\ pxAt = "idle" => ~pxOpen
  /\ pxResult = "ok" => pxDone
  /\ ckAt = "idle" /\ ckLink => ckUndone

ProxyInv == ProxyTypeOK /\ NothingLeftOpen
=============================================================================
