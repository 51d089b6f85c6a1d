----------------------------- MODULE Discovery -----------------------------
(* discovery.py of the library: the search for gateways on the network, for the
   meters on one bus, and for the meters a Windows BLE proxy hears.

   Serial numbers are pairs <<product code, tail>>; the host names, the payload
   layout and the expansion of a scan target into hosts are abstracted to sets. *)
EXTENDS Integers, Sequences, FiniteSets, SequencesExt

CONSTANTS Hosts,        \* the IPv4 hosts of the network
          LocalHosts,   \* those on the local networks of this computer
          HostKinds,    \* what a host may be: see Host below
          Slaves,       \* the slave ids of the scanned range, 1 .. n
          Devices,      \* what may answer at a slave id
          Concurrency,  \* TCP_GATEWAY_TCP_DISCOVERY_CONCURRENCY, 64 in the code
          ProxyHosts,   \* _candidate_ble_proxy_hosts, a sequence
          Heard,        \* the answers a proxy may give: sequences of advertisements
          MaxMissed     \* bound: requests lost in one scan

NoSerial == <<"none", "none">>
NoCode == "none"
Silent == [is |-> "silent"]

(* GROW_PRODUCT_PREFIX_TO_VARIANT on the product codes the instances use, and the
   rules for PRO meters: variant and serial prefix by meter code, then by amperes. *)
GrowVariants == [c \in {"0701", "0756", "0850"} |->
    CASE c = "0701" -> "grow_701" [] c = "0756" -> "grow_750" [] c = "0850" -> "grow_850"]

ByAmps == [c \in {"0101", "3203"} |->
    CASE c = "0101" -> [at |-> 100, then |-> <<"pro_2", "0287">>, else |-> <<"pro_1", "0254">>]
      [] c = "3203" -> [at |-> 40, then |-> <<"n_380_40a", "0514">>, else |-> <<"n_380ct", "0516">>]]

Forced == [c \in {"0102", "0103"} |->
    CASE c = "0102" -> <<"pro_380", "0257">> [] c = "0103" -> <<"pro_380ct", "0260">>]
Fallback == [c \in {"2007", "2009"} |->
    CASE c = "2007" -> <<"pro_380_solare", "0257">> [] c = "2009" -> <<"pro_1_solare", "0254">>]
NoPrefix == [c \in {"3201"} |-> "n_1"]

GrowCodes == DOMAIN GrowVariants \cup {"0799"}

NamedBy(d) ==
    IF d.product \in DOMAIN GrowVariants THEN <<GrowVariants[d.product], d.product>>
    ELSE IF d.product = NoCode /\ d.code \in DOMAIN GrowVariants
    THEN <<GrowVariants[d.code], d.code>>
    ELSE IF d.code \in DOMAIN ByAmps
    THEN IF d.amps = ByAmps[d.code].at THEN ByAmps[d.code].then ELSE ByAmps[d.code].else
    ELSE IF d.code \in DOMAIN Forced THEN Forced[d.code]
    ELSE IF d.code \in DOMAIN Fallback
    THEN <<Fallback[d.code][1], IF d.product = NoCode THEN Fallback[d.code][2] ELSE d.product>>
    ELSE IF d.code \in DOMAIN NoPrefix /\ d.product # NoCode
    THEN <<NoPrefix[d.code], d.product>>
    ELSE <<NoCode, d.serial[1]>>

(* The tables are right about the meters sold: they name each by its registers, and
   nothing but a GROW meter has the code of one.  A device they do not name is not
   supported. *)
ASSUME DevicesAssumption ==
    /\ Slaves = 1 .. Cardinality(Slaves) /\ Cardinality(Slaves) \in Nat \ {0}
    /\ \A d \in Devices \ {Silent} :
          /\ <<d.variant, d.serial[1]>> = NamedBy(d) /\ d.serial = <<d.serial[1], d.serial[2]>>
          /\ d.code \in DOMAIN GrowVariants => d.variant # NoCode

VARIABLES
    host,     \* external: what each host is
    bus,      \* external: what answers at each slave id
    kind,     \* the scan that runs: "gateways", "bus", "proxy", or "none"
    stage,    \* where it is
    found,    \* what it has found
    asked,    \* the hosts it probes
    left,     \* those it has not begun with
    probing,  \* those it is probing
    at,       \* the slave id, or the number of the proxy host, it is at
    ident,    \* the identity registers read of that slave
    heard,    \* ghost: the advertisements of the proxy that was taken
    missed    \* ghost: the requests lost
facts == <<host, bus, kind>>
scan == <<stage, found, asked, left, probing, at, ident, heard, missed>>

NoIdent == [tail |-> NoCode, code |-> NoCode, product |-> NoCode]

ScanInit(kinds) ==
    /\ kind \in kinds
    /\ host \in [Hosts -> IF kind = "gateways" THEN HostKinds ELSE {Silent}]
    /\ bus \in [Slaves -> IF kind = "bus" THEN Devices ELSE {Silent}]
    /\ stage = "start" /\ found = <<>> /\ asked = {} /\ left = {} /\ probing = {}
    /\ at = 1 /\ ident = NoIdent /\ heard = <<>> /\ missed = 0

Loses(n) == missed + n <= MaxMissed /\ missed' = missed + n
With(f, x, y) == [z \in DOMAIN f \cup {x} |-> IF z = x THEN y ELSE f[z]]

-----------------------------------------------------------------------------
(* async_discover_tcp_gateways.  A host is [is, serial]: a "gateway", a "grow"
   meter, which shows the same registers with its own serial, a "foreign" Modbus
   device, or "silent". *)
BrowseOrProbe(targets) ==
    /\ kind = "gateways" /\ stage = "start"
    /\ stage' = IF targets = {} THEN "browse" ELSE "probe"
    /\ asked' = targets /\ left' = targets
    /\ UNCHANGED <<facts, found, probing, at, ident, heard, missed>>

IsGrowSerial(serial) == serial[1] \in GrowCodes

\* GROW meters have serial numbers of their own, by which they are told from gateways.
ASSUME HostsAssumption ==
    \A h \in HostKinds : /\ h.is = "gateway" => ~IsGrowSerial(h.serial)
                         /\ h.is = "grow" => IsGrowSerial(h.serial)

\* _parse_tcp_gateway_discovery_response: an answer to the UDP browse.
BrowseAnswer(h) ==
    /\ stage = "browse" /\ host[h].is \in {"gateway", "grow"}
    /\ ~IsGrowSerial(host[h].serial)
    /\ found' = With(found, h, host[h].serial)
    /\ UNCHANGED <<facts, stage, asked, left, probing, at, ident, heard, missed>>

\* The deadline, or an error of the socket: what answered is kept; when nothing
\* did, the hosts of the local networks are probed.
BrowseEnds ==
    /\ stage = "browse"
    /\ IF found # <<>> THEN stage' = "done" /\ UNCHANGED <<asked, left>>
       ELSE stage' = "probe" /\ asked' = LocalHosts /\ left' = LocalHosts
    /\ UNCHANGED <<facts, found, probing, at, ident, heard, missed>>

ProbeStart(h) ==
    /\ stage = "probe" /\ h \in left /\ Cardinality(probing) < Concurrency
    /\ left' = left \ {h} /\ probing' = probing \cup {h}
    /\ UNCHANGED <<facts, stage, found, asked, at, ident, heard, missed>>

(* async_read_tcp_gateway_info: the whole block, or, when that is not read, the
   device type with the hardware version and the firmware version on their own;
   the serial number is only in the whole block. *)
Info(h, block, type, firmware) ==
    [type     |-> IF block \/ type THEN host[h].is ELSE "none",
     serial   |-> IF block THEN host[h].serial ELSE NoSerial,
     hardware |-> block \/ type,
     firmware |-> block \/ firmware]

\* _async_probe_tcp_gateway_host: what is kept.  Gateways and GROW meters both
\* show the device type "TCP Gateway".
Confirmed(i) ==
    /\ i.type \in {"gateway", "grow"}
    /\ ~IsGrowSerial(i.serial)
    /\ i.serial # NoSerial \/ i.firmware \/ i.hardware

Lost(b) == IF b THEN 0 ELSE 1

ProbeEnds(h, block, type, firmware) ==
    /\ h \in probing /\ probing' = probing \ {h}
    /\ IF host[h].is = "silent" THEN block /\ type /\ firmware /\ missed' = missed
       ELSE IF block THEN type /\ firmware /\ missed' = missed
       ELSE Loses(1 + Lost(type) + Lost(firmware))
    /\ LET i == Info(h, block, type, firmware)
       IN  found' = IF host[h].is # "silent" /\ Confirmed(i)
                    THEN With(found, h, i.serial) ELSE found
    /\ UNCHANGED <<facts, stage, asked, left, at, ident, heard>>

GatherEnds ==
    /\ stage = "probe" /\ left = {} /\ probing = {} /\ stage' = "done"
    /\ UNCHANGED <<facts, found, asked, left, probing, at, ident, heard, missed>>

-----------------------------------------------------------------------------
(* _async_discover_grow_bus.  A device is [is, variant, serial, code, product, amps]:
   what it is and its identity registers; a register it lacks is NoCode. *)
BusPing(ok) ==
    /\ kind = "bus" /\ stage = "start"
    /\ IF ok THEN stage' = "tail" /\ missed' = missed
             ELSE stage' = "failed" /\ Loses(1)
    /\ UNCHANGED <<facts, found, asked, left, probing, at, ident, heard>>

\* One identity register: its value, or NoCode when the read fails.
Reads(value, into) ==
    \/ value # NoCode /\ missed' = missed /\ ident' = [ident EXCEPT ![into] = value]
    \/ value = NoCode /\ UNCHANGED <<missed, ident>>
    \/ value # NoCode /\ Loses(1) /\ ident' = ident

NoMeter == [variant |-> NoCode]

NextSlave(entry) ==
    /\ found' = IF entry = NoMeter THEN found ELSE With(found, at, entry)
    /\ ident' = NoIdent
    /\ IF at = Cardinality(Slaves) THEN stage' = "done" /\ at' = at
       ELSE stage' = "tail" /\ at' = at + 1
    /\ UNCHANGED <<facts, asked, left, probing, heard>>

ReadTail(ok) ==
    /\ stage = "tail"
    /\ IF ok
       THEN /\ bus[at] # Silent /\ missed' = missed
            /\ ident' = [ident EXCEPT !.tail = bus[at].serial[2]] /\ stage' = "code"
            /\ UNCHANGED <<facts, found, asked, left, probing, at, heard>>
       ELSE /\ IF bus[at] = Silent THEN missed' = missed ELSE Loses(1)
            /\ NextSlave(NoMeter)

ReadCode ==
    /\ stage = "code" /\ stage' = "product" /\ Reads(bus[at].code, "code")
    /\ UNCHANGED <<facts, found, asked, left, probing, at, heard>>

ReadProduct ==
    /\ stage = "product" /\ stage' = "identify" /\ Reads(bus[at].product, "product")
    /\ UNCHANGED <<facts, found, asked, left, probing, at, heard>>

Meter(variant, prefix) ==
    [variant |-> variant, serial |-> <<prefix, ident.tail>>, sure |-> ident.product # NoCode]

\* Wrong on purpose: the meter code is preferred to the product code.
CodeFirst(i) == IF i.code # NoCode THEN i.code ELSE i.product

ResolvedProduct(i) == IF i.product # NoCode THEN i.product ELSE i.code

IsGrow(i) == ResolvedProduct(i) \in DOMAIN GrowVariants

IdentifyGrow ==
    /\ stage = "identify" /\ IsGrow(ident) /\ missed' = missed
    /\ NextSlave(Meter(GrowVariants[ResolvedProduct(ident)], ResolvedProduct(ident)))

\* A PRO meter that is told from its brother by its maximal current.
IdentifyByAmps(ok) ==
    /\ stage = "identify" /\ ~IsGrow(ident) /\ ident.code \in DOMAIN ByAmps
    /\ LET rule == ByAmps[ident.code]
           is == IF bus[at].amps = rule.at THEN rule.then ELSE rule.else
       IN  IF ok THEN missed' = missed /\ NextSlave(Meter(is[1], is[2]))
           ELSE Loses(1) /\ NextSlave(NoMeter)

\* Every other PRO meter, and what no rule names.
IdentifyByCode ==
    /\ stage = "identify" /\ ~IsGrow(ident) /\ ident.code \notin DOMAIN ByAmps
    /\ missed' = missed
    /\ NextSlave(
         IF ident.code \in DOMAIN Forced
         THEN Meter(Forced[ident.code][1], Forced[ident.code][2])
         ELSE IF ident.code \in DOMAIN Fallback
         THEN Meter(Fallback[ident.code][1],
                    IF ident.product # NoCode THEN ident.product ELSE Fallback[ident.code][2])
         ELSE IF ident.code \in DOMAIN NoPrefix /\ ident.product # NoCode
         THEN Meter(NoPrefix[ident.code], ident.product)
         ELSE NoMeter)

-----------------------------------------------------------------------------
(* async_discover_grow_bluetooth_proxy_meters.  An advertisement is [serial, rssi,
   address]; a missing RSSI counts as -999. *)
Best(known, ad) ==
    IF /\ ad.serial[1] \in DOMAIN GrowVariants
       /\ ad.serial \in DOMAIN known => ad.rssi > known[ad.serial].rssi
    THEN With(known, ad.serial, ad) ELSE known

BestOf(ads) ==
    LET best[n \in 0 .. Len(ads)] == IF n = 0 THEN <<>> ELSE Best(best[n - 1], ads[n])
    IN  best[Len(ads)]

ASSUME HeardAssumption ==
    \A ads \in Heard : ads \in Seq(Range(ads)) /\ \A ad \in Range(ads) : ad.rssi \in Int

ProxyAnswers(ads) ==
    /\ kind = "proxy" /\ stage \in {"start", "proxy"}
    /\ LET best == BestOf(ads)
       IN  IF best # <<>>
           THEN found' = best /\ stage' = "done" /\ heard' = ads /\ at' = at
           ELSE /\ UNCHANGED <<found, heard>>
                /\ IF at = Len(ProxyHosts) THEN stage' = "done" /\ at' = at
                   ELSE stage' = "proxy" /\ at' = at + 1
    /\ UNCHANGED <<facts, asked, left, probing, ident, missed>>

-----------------------------------------------------------------------------
ScanNext ==
    \/ \E targets \in SUBSET Hosts : BrowseOrProbe(targets)
    \/ BrowseEnds \/ GatherEnds
    \/ \E h \in Hosts :
          \/ BrowseAnswer(h) \/ ProbeStart(h)
          \/ \E block, type, firmware \in BOOLEAN : ProbeEnds(h, block, type, firmware)
    \/ \E ok \in BOOLEAN : BusPing(ok) \/ ReadTail(ok) \/ IdentifyByAmps(ok)
    \/ ReadCode \/ ReadProduct \/ IdentifyGrow \/ IdentifyByCode
    \/ \E ads \in Heard : ProxyAnswers(ads)

ScanSpec == ScanInit({"gateways", "bus", "proxy", "none"}) /\ [][ScanNext]_<<facts, scan>>

-----------------------------------------------------------------------------
Supported == {s \in Slaves : bus[s] # Silent /\ bus[s].variant # NoCode}

GatewaysFound ==
    /\ \A h \in DOMAIN found :
          /\ host[h].is \in {"gateway", "grow"}
          /\ missed = 0 => host[h].is = "gateway" /\ found[h] = host[h].serial
    /\ stage = "done" /\ missed = 0 =>
          {h \in asked : host[h].is = "gateway"} \subseteq DOMAIN found

MetersFound ==
    /\ \A s \in DOMAIN found :
          /\ s \in Supported /\ found[s].serial[2] = bus[s].serial[2]
          /\ found[s].sure \/ missed = 0 =>
                found[s].serial = bus[s].serial /\ found[s].variant = bus[s].variant
    /\ stage = "done" /\ missed = 0 => DOMAIN found = Supported

ProxyMetersFound ==
    /\ \A serial \in DOMAIN found :
          /\ found[serial] \in Range(heard) /\ found[serial].serial = serial
          /\ \A ad \in Range(heard) : ad.serial = serial => ad.rssi <= found[serial].rssi
    /\ \A ad \in Range(heard) : ad.serial[1] \in DOMAIN GrowVariants => ad.serial \in DOMAIN found

(* A scan reports what is there: of the probed hosts exactly the gateways, with
   their own serial numbers, never a GROW meter that shows the same registers; of
   a bus exactly the supported meters, each at its slave id with its own variant
   and serial number; of a proxy each meter by its strongest advertisement.  Lost
   requests may hide a device, and a read product code is never overruled. *)
FoundAsTheyAre ==
    /\ kind = "gateways" => GatewaysFound
    /\ kind = "bus" => MetersFound
    /\ kind = "proxy" => ProxyMetersFound
=============================================================================
