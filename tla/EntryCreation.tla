---------------------------- MODULE EntryCreation ----------------------------
(***************************************************************************)
(* Adding entries: advertisements (Zeroconf, Bluetooth), a Bluetooth meter *)
(* picked from a list, a connection typed by hand, and the scan of a bus   *)
(* (config_flow_create_discovery.py, config_flow_create_manual.py,         *)
(* config_flow_serial_bus.py).  An advertisement of a meter that has an    *)
(* entry updates the entry.                                                *)
(*                                                                         *)
(* Home Assistant keeps one flow for every unique id: a flow that takes a  *)
(* unique id another flow has is aborted, and so is one that takes the     *)
(* unique id of an entry.  The steps that only choose the next form are    *)
(* left out; an advertisement that is rejected changes nothing.            *)
(***************************************************************************)
EXTENDS EntryOptions

CONSTANTS
  Flows,    \* the flows that may be open at once
  Adverts   \* what is advertised: [by, serial, ep, line]

\* The Bluetooth address of a connection or an entry is that which the meter with
\* this serial advertises.
AtAddress(c, serial) ==
  c.transport = "bluetooth" =>
    \A ad \in Adverts :
      ad.by = "bluetooth" /\ ad.serial = serial => Canonical[c.ep] = Canonical[ad.ep]

\* A meter has one Bluetooth address, however it was learned.
ASSUME AddressAssumption ==
  /\ \A ad \in Adverts : /\ ad.serial # NoSerial
                         /\ AtAddress([transport |-> ad.by, ep |-> ad.ep], ad.serial)
  /\ \A r \in Inputs : AtAddress(r, Answers(r))
  /\ \A stored \in StoredBefore : \A i \in DOMAIN stored :
       LET e == stored[i] IN
       ~e.bus => \A serial \in SerialsOf(e) :
                   AtAddress(e, serial) /\ \A j \in DOMAIN e.routes : AtAddress(e.routes[j], serial)

\* c is a connection of the kind an advertisement is about.
OfKind(ad, c) ==
  \/ ad.by = "zeroconf" /\ IsDirect(c)
  \/ ad.by = "bluetooth" /\ c.transport = "bluetooth"

\* Wherever the meter with this serial advertises itself, it answers at the slave of c.
SameSlave(c, serial) ==
  \A ad \in Adverts :
    ad.serial = serial /\ OfKind(ad, c) => Answers([ep |-> ad.ep, slave |-> c.slave]) = serial

\* A meter is where it advertises itself, and answers at one slave address on its own
\* connections of one kind.  The routes stored at the start lead to their meter.
ASSUME SlaveAssumption ==
  /\ \A r \in Inputs : SameSlave(r, Answers(r))
  /\ \A ad \in Adverts, slave \in Slaves \cup {1}, transport \in Transports :
       LET c == [transport |-> transport, ep |-> ad.ep, slave |-> slave] IN
       OfKind(ad, c) /\ Answers(c) = ad.serial => SameSlave(c, ad.serial)
  /\ \A stored \in StoredBefore : \A i \in DOMAIN stored :
       LET e == stored[i] IN
       ~e.bus => \A serial \in SerialsOf(e) :
                   /\ Answers(e) = serial /\ SameSlave(e, serial)
                   /\ \A j \in DOMAIN e.routes :
                        Answers(e.routes[j]) = serial /\ SameSlave(e.routes[j], serial)

VARIABLES
  cre       \* cre[f]: a flow that adds an entry, or NoFlow

NoUid == <<>>
Free(f) == cre[f] = NoFlow
UidInProgress(uid, others) ==
  \/ \E g \in others : ~Free(g) /\ cre[g].uid = uid
  \/ opt.kind = "reconfigure" /\ entries[opt.id].uid = uid

CreationInit == cre = [f \in Flows |-> NoFlow]

Goto(f, flow) == cre' = [cre EXCEPT ![f] = flow]
Open(f, flow) == Goto(f, flow) /\ UNCHANGED <<options, store>>
Sent(f, flow) ==
  /\ forms < MaxForms /\ forms' = forms + 1
  /\ Goto(f, flow) /\ UNCHANGED <<opt, store>>

-----------------------------------------------------------------------------
(* Entries of one meter *)

\* The entry all three ways of adding one meter build
NewEntry(serial, r) ==
  WithRoutes([version |-> LatestVersion, transport |-> r.transport, ep |-> r.ep, line |-> r.line,
              slave |-> r.slave, serial |-> serial, title |-> serial, variant |-> "grow",
              bus |-> FALSE, meters |-> <<>>, routes |-> <<>>, active |-> NoKey, uid |-> serial],
             <<r>>, NoKey)

\* Wrong on purpose: the unique id is not looked up before the entry is added.
CreateUnchecked(f, serial, r) ==
  /\ ~UidInProgress(serial, Flows \ {f})
  /\ Created(NewEntry(serial, r))
  /\ Goto(f, NoFlow) /\ UNCHANGED options

\* async_set_unique_id, _abort_if_unique_id_configured and async_create_entry
Create(f, serial, r) ==
  /\ ~UidInProgress(serial, Flows \ {f}) /\ ~UidTaken(serial)
  /\ Created(NewEntry(serial, r))
  /\ Goto(f, NoFlow) /\ UNCHANGED options

\* The entry of an advertised meter takes over where it is now.
Rediscover(ad, Update(_), others) ==
  LET id == EntryOf(ad.serial) IN
  /\ id # 0 /\ ~entries[id].bus
  /\ entries[id].uid = ad.serial => ~UidInProgress(ad.serial, others)
  /\ Rediscovered(id, Update(entries[id]), ad.serial)

\* async_step_zeroconf
ZeroconfAdvert(ad) ==
  LET Update(e) == ZeroconfUpdate(e, ad.ep) IN
  /\ ad.by = "zeroconf"
  /\ \/ Rediscover(ad, Update, Flows) /\ UNCHANGED <<options, cre>>
     \/ \E f \in Flows :
          /\ Free(f) /\ EntryOf(ad.serial) = 0
          /\ ~UidInProgress(ad.serial, Flows \ {f}) /\ ~UidTaken(ad.serial)
          /\ Open(f, [kind |-> "zeroconf", pc |-> "form", uid |-> ad.serial, ad |-> ad])

\* async_step_zeroconf_confirm up to the validation
ZeroconfConfirm(f) ==
  /\ cre[f].kind = "zeroconf" /\ cre[f].pc = "form"
  /\ \E transport \in DirectTcp :
       Sent(f, [kind |-> "zeroconf", pc |-> "validate", uid |-> cre[f].uid, ad |-> cre[f].ad,
                route |-> [transport |-> transport, ep |-> cre[f].ad.ep, line |-> cre[f].ad.line,
                           slave |-> 1, purpose |-> "active"]])

\* async_step_bluetooth
BluetoothAdvert(ad) ==
  LET Update(e) == BluetoothUpdate(e, ad.ep, ad.line)
      id == EntryOf(ad.serial)
  IN
  /\ ad.by = "bluetooth"
  /\ \/ /\ id # 0 /\ entries[id].transport = "bluetooth"
        /\ Rediscover(ad, Update, Flows) /\ UNCHANGED <<options, cre>>
     \/ \E f \in Flows :
          /\ Free(f) /\ id = 0
          /\ ~UidInProgress(ad.serial, Flows \ {f}) /\ ~UidTaken(ad.serial)
          /\ Open(f, [kind |-> "bluetooth", pc |-> "form", uid |-> ad.serial, ad |-> ad])

\* _async_create_bluetooth_entry up to the validation, for the advertised meter or
\* for one picked from the list of async_step_bluetooth_scan
BluetoothConfirm(f, ad, slave) ==
  LET Update(e) == BluetoothUpdate(e, ad.ep, ad.line)
      id == EntryOf(ad.serial)
      uid == IF Free(f) THEN NoUid ELSE ad.serial
      route == [transport |-> "bluetooth", ep |-> ad.ep, line |-> ad.line, slave |-> slave,
                purpose |-> "active"]
  IN
  /\ ad.by = "bluetooth"
  /\ Free(f) \/ cre[f] = [kind |-> "bluetooth", pc |-> "form", uid |-> ad.serial, ad |-> ad]
  /\ \/ /\ id # 0 /\ entries[id].transport = "bluetooth"
        /\ Rediscover(ad, Update, Flows \ {f})
        /\ Goto(f, NoFlow) /\ UNCHANGED options
     \/ /\ id # 0 /\ entries[id].transport # "bluetooth"
        /\ Open(f, NoFlow)
     \/ /\ id = 0
        /\ Sent(f, [kind |-> "bluetooth", pc |-> "validate", uid |-> uid, ad |-> ad, route |-> route])

\* The validation of an advertised meter succeeds.
AdvertisedValidated(f) ==
  /\ cre[f].kind \in {"zeroconf", "bluetooth"} /\ cre[f].pc = "validate"
  /\ Valid(cre[f].route, cre[f].ad.serial)
  /\ Create(f, cre[f].ad.serial, cre[f].route)

-----------------------------------------------------------------------------
(* Buses *)

\* build_bus_unique_id
BusUid(c) == <<c.transport, Canonical[c.ep]>>

\* _find_existing_bus_entry; 0 when there is none
BusOf(c) ==
  LET same == {id \in Present : /\ entries[id].bus /\ entries[id].transport = c.transport
                                /\ Canonical[entries[id].ep] = Canonical[c.ep]}
  IN IF same = {} THEN 0 ELSE CHOOSE id \in same : \A other \in same : id <= other

NewBus(c, meters) ==
  LET e == [version |-> LatestVersion, transport |-> c.transport, ep |-> c.ep, line |-> c.line,
            slave |-> 0, serial |-> NoSerial, title |-> NoSerial, variant |-> "grow",
            bus |-> TRUE, meters |-> meters, routes |-> <<>>, active |-> NoKey, uid |-> BusUid(c)]
      Kept(m) == EnsureBusRoute(m, e)
  IN ForMeters(e, Kept)

\* _async_upsert_bus: an existing bus takes the new connection and the meters it
\* does not have, a new one the meters no entry has.
Upsert(f, c, found) ==
  LET id == BusOf(c)
      e == entries[id]
      Kept(m) == EnsureBusRoute(m, e)
      new == IF id = 0 THEN {n \in found : n.serial \notin ConfiguredSerials}
             ELSE NewOnBus(found, e)
      meters == SetToSeq({NewMeter(n) : n \in new})
  IN
  \/ /\ id = 0
     /\ new # {} \/ c.transport = "gateway"
     /\ ~UidInProgress(BusUid(c), Flows \ {f}) /\ ~UidTaken(BusUid(c))
     /\ Created(NewBus(c, meters))
  \/ /\ id # 0 /\ new # {}
     /\ Saved(id, [ForMeters([e EXCEPT !.meters = @ \o meters], Kept)
                   EXCEPT !.version = LatestVersion, !.ep = c.ep, !.line = c.line])

\* async_step_serial_scan and async_step_gateway_scan
ScanBus(f, c) ==
  /\ Free(f) /\ c.transport \in BusTransports
  /\ Sent(f, [kind |-> "scan", pc |-> "scan", uid |-> NoUid, route |-> c])

\* The scan returns: async_step_discovered, or for a gateway gateway_no_meters.
BusScanned(f) ==
  /\ cre[f].kind = "scan" /\ cre[f].pc = "scan"
  /\ LET c == cre[f].route
         id == BusOf(c)
         found == OnBus(c.ep, Slaves)
         new == IF id = 0 THEN {n \in found : n.serial \notin ConfiguredSerials}
                ELSE NewOnBus(found, entries[id])
     IN /\ new # {} \/ c.transport = "gateway"
        /\ Open(f, [kind |-> "scan", pc |-> "choose", uid |-> NoUid, route |-> c, found |-> new])

ChooseMeters(f) ==
  /\ cre[f].kind = "scan" /\ cre[f].pc = "choose"
  /\ \E chosen \in SUBSET cre[f].found :
       /\ chosen = {} => cre[f].found = {}
       /\ Upsert(f, cre[f].route, chosen)
  /\ Goto(f, NoFlow) /\ UNCHANGED options

-----------------------------------------------------------------------------
(* A connection typed by hand *)

\* async_step_connection up to the validation
TypeConnection(f, input) ==
  /\ Free(f)
  /\ Sent(f, [kind |-> "manual", pc |-> "validate", uid |-> NoUid, route |-> input])

\* The meter answers with its serial: only a Bluetooth meter is looked for in the
\* other entries.
ConnectionValidated(f) ==
  LET r == cre[f].route
      serial == Answers(r)
  IN
  /\ cre[f].kind = "manual" /\ serial # NoSerial
  /\ \/ /\ r.transport \in BusTransports
        /\ Upsert(f, r, {[serial |-> serial, slave |-> r.slave]})
        /\ Goto(f, NoFlow) /\ UNCHANGED options
     \/ /\ r.transport \notin BusTransports
        /\ r.transport = "bluetooth" => EntryOf(serial) = 0
        /\ Create(f, serial, r)

\* The validation fails, the flow is aborted, or the user leaves.
Leave(f) == ~Free(f) /\ Open(f, NoFlow)

CreationNext ==
  \/ \E ad \in Adverts :
       \/ ZeroconfAdvert(ad) \/ BluetoothAdvert(ad)
       \/ \E f \in Flows, slave \in Slaves : BluetoothConfirm(f, ad, slave)
  \/ \E f \in Flows :
       \/ ZeroconfConfirm(f) \/ AdvertisedValidated(f) \/ BusScanned(f) \/ ChooseMeters(f)
       \/ ConnectionValidated(f) \/ Leave(f)
       \/ \E input \in Inputs : ScanBus(f, input) \/ TypeConnection(f, input)
=============================================================================
