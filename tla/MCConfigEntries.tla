--------------------------- MODULE MCConfigEntries ---------------------------
(***************************************************************************)
(* Two meters, A and B, on one bus where A is slave 2 and B slave 1.  A is *)
(* also reached on two addresses of the LAN and by Bluetooth, as slave 1.  *)
(***************************************************************************)
EXTENDS ConfigEntries

CONSTANTS A, B, F1, F2

FlowSymmetry == Permutations(Flows)

EndpointsDef == {"lan1", "LAN1", "lan2", "ble", "bus", "gw"}
CanonicalDef == [p \in EndpointsDef |-> IF p = "LAN1" THEN "lan1" ELSE p]
ReachesDef ==
  [a \in EndpointsDef \X (1 .. 2) |->
     IF a[1] = "bus" THEN (IF a[2] = 1 THEN B ELSE A)
     ELSE IF a[1] # "gw" /\ a[2] = 1 THEN A ELSE NoSerial]

Line(ep, line, slave, transport) ==
  [transport |-> transport, ep |-> ep, line |-> line, slave |-> slave, purpose |-> "active"]

InputsDef ==
  {Line("LAN1", "", 1, "wifi"), Line("lan2", "", 1, "ethernet"), Line("ble", "IM-A", 1, "bluetooth"),
   Line("bus", "9600", 2, "serial"), Line("bus", "19200", 1, "serial"),
   Line("gw", "", 1, "gateway")}

AdvertsDef ==
  {[by |-> "zeroconf", serial |-> A, ep |-> "lan1", line |-> ""],
   [by |-> "zeroconf", serial |-> A, ep |-> "lan2", line |-> ""],
   [by |-> "bluetooth", serial |-> A, ep |-> "ble", line |-> "IM-A"]}

Single(version, transport, ep, serial, uid) ==
  [version |-> version, transport |-> transport, ep |-> ep, line |-> "", slave |-> 1,
   serial |-> serial, title |-> A, variant |-> "grow", bus |-> FALSE, meters |-> <<>>,
   routes |-> <<>>, active |-> NoKey, uid |-> uid]

Meter(serial, slave) ==
  [serial |-> serial, variant |-> "grow", slave |-> slave, routes |-> <<>>, active |-> NoKey]

Bus(version, meters) ==
  [Single(version, "serial", "bus", NoSerial, <<"serial", "bus">>)
     EXCEPT !.bus = TRUE, !.meters = meters, !.title = NoSerial, !.line = "9600", !.slave = 0]

\* Nothing, a Wi-Fi entry of version 1, an Ethernet entry with the unique id of
\* its address, a serial entry from before there were buses, a bus of two meters,
\* and an entry and a bus whose meter A has a second and a third route.
StoredDef ==
  LET wifi == Line("lan1", "", 1, "wifi")
      lan == Line("lan2", "", 1, "ethernet")
      ble == [Line("ble", "IM-A", 1, "bluetooth") EXCEPT !.purpose = "onboarding"]
      serial == Line("bus", "9600", 2, "serial")
  IN {<<>>, <<Single(1, "wifi", "lan1", NoSerial, A)>>,
      <<Single(3, "ethernet", "lan2", A, <<"lan2">>)>>,
      <<[Single(1, "serial", "bus", NoSerial, <<"bus">>) EXCEPT !.line = "9600", !.slave = 2]>>,
      <<Bus(3, <<Meter(A, 2), Meter(B, 1)>>)>>,
      <<WithRoutes(Single(5, "wifi", "lan1", A, A), <<wifi, lan, ble>>, NoKey)>>,
      <<Bus(5, <<WithMeterRoutes(Meter(A, 2), <<serial, lan>>, NoKey)>>)>>}
=============================================================================
