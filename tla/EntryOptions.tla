---------------------------- MODULE EntryOptions ----------------------------
(***************************************************************************)
(* Changing an entry: the options flow (config_flow_options_update.py) and *)
(* the reconfigure flow (config_flow.py, config_flow_create_manual.py).    *)
(*                                                                         *)
(* A form is handled in one step up to the first await of its validation;  *)
(* what it computed until then is kept in opt, what it reads after the     *)
(* validation it reads from the entry as it is then.  A form that is shown *)
(* again with an error is a form the user may send once more.              *)
(***************************************************************************)
EXTENDS EntryStore, SequencesExt

CONSTANTS
  Inputs,   \* the connections a user types: routes
  MaxForms  \* how many forms are sent

ASSUME InputsAssumption == IsFiniteSet(Inputs) /\ \A r \in Inputs : DOMAIN r = RouteFields

VARIABLES
  opt,   \* the options or reconfigure flow that waits for something, or NoFlow
  forms  \* how many forms were sent

options == <<opt, forms>>

NoFlow == [kind |-> "none"]
NoMeter == <<>>

Send(flow) ==
  /\ forms < MaxForms /\ forms' = forms + 1
  /\ opt' = flow
  /\ UNCHANGED store

OptionsInit == opt = NoFlow /\ forms = 0

-----------------------------------------------------------------------------
(* The meter a flow is about: the meter of the entry, NoMeter, or the key of *)
(* one meter of a bus.                                                     *)

\* select_meter; the routes of a bus are managed for one meter at a time
Contexts(e) ==
  IF e.bus THEN {MeterKey(e.meters[i]) : i \in DOMAIN e.meters} ELSE {NoMeter}

\* _selected_meter
Selected(e, k) == e.meters[CHOOSE i \in DOMAIN e.meters : MeterKey(e.meters[i]) = k]

\* _configured_routes, _active_route_key, _active_route
RoutesAt(e, k) == IF k = NoMeter THEN Routes(e) ELSE MeterRoutes(Selected(e, k), e)
ActiveKeyAt(e, k) == IF k = NoMeter THEN e.active ELSE Selected(e, k).active
ActiveAt(e, k) == IF k = NoMeter THEN ActiveRoute(e) ELSE ActiveOf(Selected(e, k), e)

\* The serial a connection must lead to: configured_grow_serial of the candidate
SerialAt(e, k) == IF k = NoMeter THEN e.serial ELSE Selected(e, k).serial

\* Wrong on purpose: the other meters of the bus are forgotten.
ApplyAlone(e, k, data, routes, key) ==
  IF k = NoMeter THEN WithRoutes(data, routes, key)
  ELSE [e EXCEPT !.meters =
          <<EnsureBusRoute(WithMeterRoutes(Selected(e, k), routes, key), e)>>]

\* _apply_routes_to_entry
Apply(e, k, data, routes, key) ==
  LET Edited(m) == IF MeterKey(m) = k THEN WithMeterRoutes(Selected(e, k), routes, key) ELSE m
      Kept(m) == EnsureBusRoute(Edited(m), e)
  IN IF k = NoMeter THEN WithRoutes(data, routes, key) ELSE ForMeters(e, Kept)

Exchange(routes, key, r) ==
  [i \in DOMAIN routes |-> IF RouteKey(routes[i]) = key THEN r ELSE routes[i]]

\* _async_validate_bluetooth_gatt_identity, _async_validate_modbus_config and
\* _async_validate_entry_identity, as one wait
Valid(r, serial) == Answers(r) # NoSerial /\ (serial # NoSerial => Answers(r) = serial)

-----------------------------------------------------------------------------
(* The forms *)

Start(id) == opt = NoFlow /\ ~Absent(id) /\ entries[id].version = LatestVersion

\* _candidate_entry_data_for_route: what it keeps of the entry; of a bus nothing
Snapshot(e, k) == IF k = NoMeter THEN e ELSE NoEntry

\* async_step_update_connection up to the validation
SendUpdate(id, k, input) ==
  /\ Start(id)
  /\ LET e == entries[id]
         old == ActiveAt(e, k)
     IN /\ input.transport = old.transport
        /\ Send([kind |-> "update", id |-> id, meter |-> k, route |-> input,
                 key |-> RouteKey(old), data |-> Snapshot(e, k), serial |-> SerialAt(e, k)])

\* The route the form was about is exchanged among the routes the entry has now.
FinishUpdate ==
  LET e == entries[opt.id]
      r == [opt.route EXCEPT !.purpose = "active"]
  IN Apply(e, opt.meter, opt.data, Exchange(RoutesAt(e, opt.meter), opt.key, r), RouteKey(r))

\* async_step_add_route, _purpose, _bluetooth_discovered and _connection up to
\* the validation: only a Bluetooth route may be kept for onboarding.
SendAdd(id, k, input, purpose) ==
  /\ Start(id)
  /\ purpose = "active" \/ input.transport \in {"bluetooth", "proxy"}
  /\ Send([kind |-> "add", id |-> id, meter |-> k,
           route |-> [input EXCEPT !.purpose = purpose], key |-> NoKey,
           data |-> Snapshot(entries[id], k), serial |-> SerialAt(entries[id], k)])

\* _async_add_route_from_user_input after the validation
FinishAdd ==
  LET e == entries[opt.id]
      before == RoutesAt(e, opt.meter)
      others == {i \in DOMAIN before : RouteKey(before[i]) # RouteKey(opt.route)}
      routes == Append(Gathered(before, others), opt.route)
      key == IF opt.route.purpose = "active" THEN RouteKey(opt.route)
             ELSE ActiveKeyAt(e, opt.meter)
  IN Apply(e, opt.meter, opt.data, routes, key)

\* async_step_switch_route up to the validation: the data to write is complete.
\* from is what it was made of, for the properties only.
SendSwitch(id, k) ==
  /\ Start(id)
  /\ LET e == entries[id]
         routes == RoutesAt(e, k)
     IN \E i \in DOMAIN routes :
          LET promoted == [routes[i] EXCEPT !.purpose = "active"]
              key == RouteKey(routes[i])
          IN Send([kind |-> "switch", id |-> id, meter |-> k, route |-> promoted, key |-> key,
                   data |-> Apply(e, k, e, Exchange(routes, key, promoted), key),
                   from |-> e, serial |-> SerialAt(e, k)])

\* async_step_reconfigure and async_step_connection of a reconfigure flow
SendReconfigure(id, input) ==
  /\ Start(id) /\ ~entries[id].bus /\ input.transport \notin BusTransports
  /\ Send([kind |-> "reconfigure", id |-> id, meter |-> NoMeter, route |-> input,
           key |-> NoKey, serial |-> entries[id].serial])

\* _async_finish_reconfigure_connection: the route replaces those of its transport.
FinishReconfigure ==
  LET e == entries[opt.id]
      routes == Routes(e)
      others == {i \in DOMAIN routes : routes[i].transport # opt.route.transport}
  IN WithRoutes(e, Append(Gathered(routes, others), opt.route), RouteKey(opt.route))

\* Wrong on purpose: a form is saved without waiting for the validation.
ValidatedAnyway ==
  /\ opt.kind \in {"update", "add", "switch", "reconfigure"}
  /\ Saved(opt.id, CASE opt.kind = "update" -> Normalize(FinishUpdate)
                     [] opt.kind = "add" -> Normalize(FinishAdd)
                     [] opt.kind = "switch" -> Normalize(opt.data)
                     [] opt.kind = "reconfigure" -> FinishReconfigure)
  /\ opt' = NoFlow /\ UNCHANGED forms

\* The validation succeeds; _async_finish_entry_update
Validated ==
  /\ opt.kind \in {"update", "add", "switch", "reconfigure"}
  /\ Valid(opt.route, opt.serial)
  /\ Saved(opt.id, CASE opt.kind = "update" -> Normalize(FinishUpdate)
                     [] opt.kind = "add" -> Normalize(FinishAdd)
                     [] opt.kind = "switch" -> Normalize(opt.data)
                     [] opt.kind = "reconfigure" -> FinishReconfigure)
  /\ opt' = NoFlow /\ UNCHANGED forms

\* The validation fails or meets another meter, the scan fails or finds nothing
\* new, or the user leaves: nothing is written.
GiveUp ==
  /\ opt # NoFlow
  /\ opt' = NoFlow /\ UNCHANGED <<forms, store>>

-----------------------------------------------------------------------------
(* The bus as a whole *)

\* One meter of the bus e, which becomes bus: its route to the bus takes the new
\* connection and slave.
EditedMeter(m, e, bus, slave) ==
  LET own == OwnBusRoute(m, e)
      new == [BusRoute(bus, slave) EXCEPT !.purpose = own.purpose]
      routes == MeterRoutes(m, e)
      exchanged == [i \in DOMAIN routes |-> IF SameConnection(routes[i], e) THEN new ELSE routes[i]]
      key == IF m.active = RouteKey(own) THEN RouteKey(new) ELSE m.active
  IN EnsureBusRoute(WithMeterRoutes(m, exchanged, key), bus)

\* async_step_edit_serial_bus: no validation, one write
EditedBus(e, ep, line, slaves) ==
  LET bus == [e EXCEPT !.ep = ep, !.line = line]
      Edited(m) == EditedMeter(m, e, bus, slaves[MeterKey(m)])
  IN ForMeters(bus, Edited)

EditBus(id, input, slaves) ==
  /\ Start(id) /\ entries[id].bus /\ input.transport = entries[id].transport
  /\ forms < MaxForms /\ forms' = forms + 1
  /\ Saved(id, Normalize(EditedBus(entries[id], input.ep, input.line, slaves)))
  /\ UNCHANGED opt

\* The meters a bus answers with, as async_discover_grow_serial_bus and
\* async_discover_grow_tcp_gateway find them
OnBus(ep, slaves) ==
  {f \in [serial : {Reaches[<<Canonical[ep], s>>] : s \in slaves} \ {NoSerial}, slave : slaves] :
     Reaches[<<Canonical[ep], f.slave>>] = f.serial}

NewMeter(f) ==
  [serial |-> f.serial, variant |-> "grow", slave |-> f.slave, routes |-> <<>>, active |-> NoKey]

ConfiguredSerials == UNION {SerialsOf(entries[id]) : id \in Present}
BusSlaves(e) == {OwnBusRoute(e.meters[i], e).slave : i \in DOMAIN e.meters}

\* _filter_new_bus_devices, for the bus entry e
NewOnBus(found, e) ==
  {f \in found : f.slave \notin BusSlaves(e) /\ f.serial \notin ConfiguredSerials}

\* async_step_serial_bus_scan
SendScan(id, slaves) ==
  /\ Start(id) /\ entries[id].bus
  /\ Send([kind |-> "scan", id |-> id, slaves |-> slaves])

ScanReturns ==
  /\ opt.kind = "scan"
  /\ LET e == entries[opt.id]
         new == NewOnBus(OnBus(e.ep, opt.slaves), e)
     IN /\ new # {}
        /\ opt' = [kind |-> "choose", id |-> opt.id, found |-> new]
  /\ UNCHANGED <<forms, store>>

\* async_step_serial_bus_discovered
AppendMeters ==
  /\ opt.kind = "choose"
  /\ LET e == entries[opt.id]
         Kept(m) == EnsureBusRoute(m, e)
         Added(f) == Kept(NewMeter(f))
     IN \E chosen \in SUBSET opt.found \ {{}} :
          Saved(opt.id, Normalize([ForMeters(e, Kept) EXCEPT !.meters =
                  @ \o SetToSeq({Added(f) : f \in chosen})]))
  /\ opt' = NoFlow /\ UNCHANGED forms

Slaves == {r.slave : r \in Inputs}

OptionsNext ==
  \/ \E id \in Ids :
       /\ Start(id)
       /\ \/ \E k \in Contexts(entries[id]) :
               \/ SendSwitch(id, k)
               \/ \E input \in Inputs :
                    \/ SendUpdate(id, k, input)
                    \/ \E purpose \in {"active", "onboarding"} : SendAdd(id, k, input, purpose)
          \/ \E input \in Inputs :
               \/ SendReconfigure(id, input)
               \/ \E slaves \in [Contexts(entries[id]) -> Slaves] : EditBus(id, input, slaves)
          \/ SendScan(id, Slaves)
  \/ Validated \/ GiveUp \/ ScanReturns \/ AppendMeters
=============================================================================
