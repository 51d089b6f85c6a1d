----------------------------- MODULE EntryRoutes -----------------------------
(***************************************************************************)
(* The data of a config entry and its routes: entry_data.py of the         *)
(* integration, routes.py of the library and the migrations of             *)
(* __init__.py, as operators on records.                                   *)
(*                                                                         *)
(* A route is [transport, ep, line, slave, purpose]: ep stands for host    *)
(* and port, serial port or Bluetooth address as they are spelled, and     *)
(* Canonical[ep] for what they are compared by, stripped and in one case;  *)
(* line stands for what else the connection needs (the serial line         *)
(* settings, the Bluetooth name).  A sequence of routes that is not stored *)
(* is empty, a key that is not stored is NoKey.                            *)
(***************************************************************************)
EXTENDS Naturals, Sequences, FiniteSets

CONSTANTS Endpoints, Canonical, NoSerial

ASSUME EndpointAssumption ==
  /\ Canonical \in [Endpoints -> Endpoints]
  /\ \A p \in Endpoints : Canonical[Canonical[p]] = Canonical[p]

DirectTcp == {"wifi", "ethernet"}
BusTransports == {"serial", "gateway"}
Transports == DirectTcp \cup BusTransports \cup {"bluetooth", "proxy"}

\* The data of an entry and of a meter of a bus, by their keys
EntryFields == {"version", "transport", "ep", "line", "slave", "serial", "title", "variant",
                "bus", "meters", "routes", "active", "uid"}
MeterFields == {"serial", "variant", "slave", "routes", "active"}
RouteFields == {"transport", "ep", "line", "slave", "purpose"}

LatestVersion == 5

IsSequence(s) == s \in Seq({s[i] : i \in DOMAIN s})

IsEntry(e) ==
  /\ DOMAIN e = EntryFields
  /\ e.version \in 1 .. LatestVersion /\ e.bus \in BOOLEAN
  /\ IsSequence(e.meters)
  /\ \A i \in DOMAIN e.meters : DOMAIN e.meters[i] = MeterFields

-----------------------------------------------------------------------------
(* Identities of routes *)

\* No key, where an entry or a meter has none stored
NoKey == [transport |-> "none"]

\* build_route_key
RouteKey(r) == [transport |-> r.transport, ep |-> Canonical[r.ep], slave |-> r.slave]

\* _direct_tcp_endpoint_key, of a route or of the key of one
DirectKey(k) == <<Canonical[k.ep], k.slave>>
IsDirect(k) == k.transport \in DirectTcp

\* _route_deduplication_key: mDNS does not tell Wi-Fi from Ethernet.
StorageKey(r) ==
  IF IsDirect(r) THEN [RouteKey(r) EXCEPT !.transport = "direct"] ELSE RouteKey(r)

\* route_matches_endpoint; c is a route or the data of an entry
SameConnection(r, c) ==
  /\ r.transport = c.transport
  /\ Canonical[r.ep] = Canonical[c.ep]
  /\ r.transport = "serial" => r.line = c.line

\* The values at the indices kept, in their order
Gathered(values, kept) ==
  LET upTo[n \in 0 .. Len(values)] ==
        IF n = 0 THEN <<>>
        ELSE IF n \in kept THEN Append(upTo[n - 1], values[n])
        ELSE upTo[n - 1]
  IN upTo[Len(values)]

\* deduplicate_configured_routes: one route for every identity, in the order
\* they are first met, and of every identity the value met last.
Deduplicate(routes) ==
  LET First(i) == \A j \in 1 .. i - 1 : StorageKey(routes[j]) # StorageKey(routes[i])
      Newest(i) == CHOOSE j \in DOMAIN routes :
                     /\ StorageKey(routes[j]) = StorageKey(routes[i])
                     /\ \A k \in j + 1 .. Len(routes) : StorageKey(routes[k]) # StorageKey(routes[i])
  IN Gathered([i \in DOMAIN routes |-> routes[Newest(i)]], {i \in DOMAIN routes : First(i)})

\* _select_active_route: the route with the key, or the direct route to the same
\* endpoint under the other label, or the first.
SelectActive(routes, key) ==
  LET exact == {i \in DOMAIN routes : RouteKey(routes[i]) = key}
      same == {i \in DOMAIN routes :
                 IsDirect(routes[i]) /\ IsDirect(key) /\ DirectKey(routes[i]) = DirectKey(key)}
      FirstOf(S) == routes[CHOOSE i \in S : \A j \in S : i <= j]
  IN IF key # NoKey /\ exact # {} THEN FirstOf(exact)
     ELSE IF key # NoKey /\ same # {} THEN FirstOf(same)
     ELSE routes[1]

-----------------------------------------------------------------------------
(* Entries of one meter *)

\* build_route_from_entry_data
RouteOf(data, purpose) ==
  [transport |-> data.transport, ep |-> data.ep, line |-> data.line,
   slave |-> data.slave, purpose |-> purpose]

\* get_configured_routes
Routes(e) ==
  IF e.bus THEN <<>>
  ELSE IF e.routes = <<>> THEN <<RouteOf(e, "active")>>
  ELSE Deduplicate(e.routes)

\* get_active_route
ActiveRoute(e) == SelectActive(Routes(e), e.active)

\* Wrong on purpose: the connection fields keep the route they had.
WithRoutesUnmirrored(e, routes, key) ==
  LET kept == Deduplicate(routes)
      active == SelectActive(kept, key)
  IN [e EXCEPT !.routes = kept, !.active = RouteKey(active)]

\* with_routes_applied: the active route is mirrored in the connection fields.
WithRoutes(e, routes, key) ==
  LET kept == Deduplicate(routes)
      active == SelectActive(kept, key)
  IN [e EXCEPT !.transport = active.transport, !.ep = active.ep, !.line = active.line,
               !.slave = active.slave, !.routes = kept, !.active = RouteKey(active)]

\* update_single_meter_tcp_route_from_zeroconf
ZeroconfUpdate(e, ep) ==
  LET routes == Routes(e)
      direct == {i \in DOMAIN routes : IsDirect(routes[i])}
      exact == {i \in direct : routes[i].transport = e.transport /\ routes[i].ep = ep}
      targets == IF exact = {} /\ Cardinality(direct) = 1 THEN direct ELSE exact
      Moved(r) == [r EXCEPT !.ep = ep]
      template == IF direct = {} THEN RouteOf(e, "active")
                  ELSE routes[CHOOSE i \in direct : \A j \in direct : i <= j]
      moved == [i \in DOMAIN routes |-> IF i \in targets THEN Moved(routes[i]) ELSE routes[i]]
      followed == {i \in targets : RouteKey(routes[i]) = e.active}
      key == IF followed = {} THEN e.active
             ELSE RouteKey(Moved(routes[CHOOSE i \in followed : TRUE]))
  IN IF e.bus \/ ~IsDirect(e) THEN e
     ELSE IF e.routes = <<>> THEN [e EXCEPT !.ep = ep]
     ELSE IF targets # {} THEN WithRoutes(e, moved, key)
     ELSE WithRoutes(e, Append(routes, [Moved(template) EXCEPT !.transport = e.transport]), key)

\* update_single_meter_bluetooth_route_from_discovery: the connection fields and
\* the routes are updated each on their own.
BluetoothUpdate(e, ep, name) ==
  LET bluetooth == {i \in DOMAIN e.routes : e.routes[i].transport = "bluetooth"}
      known == {i \in bluetooth : \/ RouteKey(e.routes[i]) = e.active
                                  \/ Canonical[e.routes[i].ep] = Canonical[e.ep]}
      targets == IF known = {} /\ Cardinality(bluetooth) = 1 THEN bluetooth ELSE known
      Moved(r) == [r EXCEPT !.ep = ep, !.line = name]
      followed == {i \in targets : RouteKey(e.routes[i]) = e.active}
  IN IF e.bus \/ e.transport # "bluetooth" THEN e
     ELSE [e EXCEPT
             !.ep = ep, !.line = name,
             !.routes = [i \in DOMAIN e.routes |->
                           IF i \in targets THEN Moved(e.routes[i]) ELSE e.routes[i]],
             !.active = IF followed = {} THEN e.active
                        ELSE RouteKey(Moved(e.routes[CHOOSE i \in followed : TRUE]))]

-----------------------------------------------------------------------------
(* Meters of a bus entry *)

\* build_meter_key
MeterKey(m) == IF m.serial # NoSerial THEN <<m.serial>> ELSE <<m.variant, m.slave>>

\* build_bus_route
BusRoute(bus, slave) ==
  [transport |-> bus.transport, ep |-> bus.ep, line |-> bus.line, slave |-> slave,
   purpose |-> "active"]

\* get_meter_routes, get_active_route_for_meter
MeterRoutes(m, bus) ==
  IF m.routes # <<>> THEN Deduplicate(m.routes) ELSE <<BusRoute(bus, m.slave)>>
ActiveOf(m, bus) == SelectActive(MeterRoutes(m, bus), m.active)

\* get_bus_route_for_meter
OwnBusRoute(m, bus) ==
  LET routes == MeterRoutes(m, bus)
      own == {i \in DOMAIN routes : SameConnection(routes[i], bus)}
  IN IF own = {} THEN BusRoute(bus, m.slave)
     ELSE routes[CHOOSE i \in own : \A j \in own : i <= j]

\* with_meter_routes: the slave of the meter is that of its active route.
WithMeterRoutes(m, routes, key) ==
  LET kept == Deduplicate(routes)
      active == SelectActive(kept, key)
  IN [m EXCEPT !.slave = active.slave, !.routes = kept, !.active = RouteKey(active)]

\* ensure_bus_meter_routes
EnsureBusRoute(m, bus) ==
  LET routes == MeterRoutes(m, bus)
      known == \E i \in DOMAIN routes : SameConnection(routes[i], bus)
      all == IF known THEN routes ELSE Append(routes, BusRoute(bus, m.slave))
  IN WithMeterRoutes(m, all, IF m.active = NoKey THEN RouteKey(all[1]) ELSE m.active)

ForMeters(e, F(_)) == [e EXCEPT !.meters = [i \in DOMAIN e.meters |-> F(e.meters[i])]]

\* normalize_entry_route_data
Normalize(e) ==
  LET Tidy(m) == IF m.routes = <<>> THEN m ELSE WithMeterRoutes(m, m.routes, m.active)
  IN IF e.bus THEN ForMeters(e, Tidy)
     ELSE IF e.routes = <<>> THEN e
     ELSE WithRoutes(e, Routes(e), e.active)

-----------------------------------------------------------------------------
(* Migration: async_migrate_entry *)

\* Version 2: a serial entry of one meter becomes a bus of one meter.
ToBus(e) ==
  IF e.version < 2 /\ e.transport = "serial" /\ ~e.bus
    THEN [e EXCEPT !.bus = TRUE,
                   !.meters = <<[serial |-> e.title, variant |-> e.variant,
                                 slave |-> e.slave, routes |-> <<>>, active |-> NoKey]>>]
    ELSE e

\* Version 3: _derive_entry_serial_number, for an entry of one meter.
WithSerial(e) ==
  IF e.version < 3 /\ ~e.bus /\ e.serial = NoSerial
    THEN [e EXCEPT !.serial = e.title] ELSE e

\* Version 4: the connection of an entry of one meter becomes its route.
WithFirstRoute(e) ==
  IF e.version < 4 /\ ~e.bus /\ (e.routes = <<>> \/ e.active = NoKey)
    THEN WithRoutes(e, <<RouteOf(e, "active")>>, NoKey) ELSE e

\* Version 5: every meter of a bus has a route to it.
WithBusRoutes(e) ==
  IF e.version < 5 /\ e.bus THEN ForMeters(e, LAMBDA m : EnsureBusRoute(m, e)) ELSE e

\* The steps an entry's version asks for, in one update of the entry.
Migrate(e) ==
  [WithBusRoutes(WithFirstRoute(WithSerial(ToBus(e)))) EXCEPT !.version = LatestVersion]

-----------------------------------------------------------------------------
(* What the data of an entry must satisfy *)

\* The routes are distinct and the active one is among them.
RoutesSound(routes, key) ==
  /\ routes # <<>>
  /\ Deduplicate(routes) = routes
  /\ \E i \in DOMAIN routes : RouteKey(routes[i]) = key

\* The connection fields show the active route, which everything that opens a
\* connection relies on.
Mirrored(e) ==
  /\ RoutesSound(e.routes, e.active)
  /\ LET a == SelectActive(e.routes, e.active) IN
       a.transport = e.transport /\ a.ep = e.ep /\ a.line = e.line /\ a.slave = e.slave

\* A meter of a bus: its slave is that of its active route.
MeterSound(m) ==
  /\ RoutesSound(m.routes, m.active)
  /\ m.slave = SelectActive(m.routes, m.active).slave

\* What some version of the integration left: an entry of one meter has its serial
\* since version 3 and its routes since version 4, a meter of a bus since version 5.
WasWritten(e) ==
  /\ IsEntry(e)
  /\ \A i \in DOMAIN e.meters : IsSequence(e.meters[i].routes)
  /\ IF e.bus THEN e.version = LatestVersion => \A i \in DOMAIN e.meters : MeterSound(e.meters[i])
     ELSE /\ IsSequence(e.routes) /\ \A i \in DOMAIN e.routes : DOMAIN e.routes[i] = RouteFields
          /\ \/ e.serial # NoSerial
             \/ e.version < 3 /\ e.title # NoSerial
          /\ \/ Mirrored(e)
             \/ e.version < 4 /\ (e.routes = <<>> \/ e.active = NoKey)
=============================================================================
