--------------------------- MODULE MeterSettings ---------------------------
(* settings.py and gateway_settings.py: how a value a user chose becomes register
   words, and how the words read back become the value the entity shows.

   A setting is [key, platform, address, options, min, max].  Values are tagged:
   [on |-> BOOLEAN], [option |-> label], [number |-> n], [words |-> sequence] (an
   IPv4 address as its two words, a host name as its packed characters).  What a
   user enters in a number field is given in tenths. *)
EXTENDS RegisterBlocks

NoValue == [none |-> TRUE]

OnOff       == [w \in {0, 1} |-> IF w = 1 THEN "on" ELSE "off"]
EnableState == [w \in {0, 1} |-> IF w = 1 THEN "enabled" ELSE "disabled"]
BacklightLevel == [n \in {0, 20, 40, 60, 100} |-> ToString(n) \o "%"]
BacklightMode == (0 :> "Always On") @@ (1 :> "Always Off") @@ (2 :> "Button Activated")
TariffMode == (0 :> "Automatic") @@ (1 :> "1-2 Always") @@ (2 :> "All")
Orientation == (0 :> "Standard") @@ (1 :> "Turned")

ModbusPort == (0 :> "AUTO") @@ (1 :> "RS232") @@ (2 :> "RS485")
Baudrate == (3 :> "1200") @@ (4 :> "2400") @@ (5 :> "4800") @@ (6 :> "9600")
            @@ (7 :> "19200") @@ (8 :> "38400") @@ (9 :> "57600") @@ (10 :> "115200")
Parity == (1 :> "EVEN") @@ (2 :> "NONE") @@ (3 :> "ODD")

Switch(k, a) == [key |-> k, platform |-> "switch", address |-> a, options |-> NoOptions,
                 min |-> 0, max |-> 0]
Select(k, a, opts) == [Switch(k, a) EXCEPT !.platform = "select", !.options = opts]
Number(k, a, lo, hi) == [Switch(k, a) EXCEPT !.platform = "number", !.min = lo, !.max = hi]
Text(k, a) == [Switch(k, a) EXCEPT !.platform = "text"]

\* The writable settings of a GROW meter, at the addresses of the sensors that back them.
WritableSettings ==
    {Switch("wifi_support", 19462), Switch("legal_lcd_obis_codes", 19456),
     Switch("non_legal_lcd_obis_codes", 16435),
     Select("backlight_mode", 19458, BacklightMode),
     Select("backlight_level", 16753, BacklightLevel),
     Select("legal_lcd_tariff_mode", 19457, TariffMode),
     Select("lcd_orientation", 16434, Orientation),
     Number("backlight_timeout", 19460, 0, 30),
     Number("legal_lcd_cycle_time", 16400, 5, 30),
     Number("non_legal_lcd_cycle_time", 19461, 5, 30)}

\* resolve_sensor: the sensor of the profile a meter setting is read from.
BackingSensor(s) ==
    [key |-> s.key, address |-> s.address, count |-> 1, value_type |-> "uint16",
     options |-> IF s.key = "wifi_support" THEN EnableState
                 ELSE IF s.platform = "switch" THEN OnOff ELSE s.options]

HostName == Text("host_name", 115)
HostNameWords == 16

GatewaySettings ==
    {Switch("dhcp_enabled", 106), Switch("ntp_enabled", 131), HostName,
     Text("ip_address", 100), Text("netmask", 102), Text("default_gateway", 104),
     Text("dns_server_1", 107), Text("dns_server_2", 111),
     Text("ntp_server_1", 109), Text("ntp_server_2", 113),
     Select("modbus_port", 2, ModbusPort), Select("baudrate", 0, Baudrate),
     Select("parity", 1, Parity), Number("timeout_ms", 3, 0, 60000)}

(* GATEWAY_MODBUS_CONFIG_BLOCKS: the two ranges one configuration read covers. *)
GatewayConfigBlocks == <<0 .. 4, 100 .. 131>>

WidthOf(s) == IF s = HostName THEN HostNameWords
              ELSE IF s.platform = "text" THEN 2 ELSE 1

-----------------------------------------------------------------------------
\* Python's round: to the nearest integer, a half to the even one.
RoundTenths(t) ==
    LET n == t \div 10
    IN  IF t % 10 > 5 \/ (t % 10 = 5 /\ n % 2 = 1) THEN n + 1 ELSE n

(* normalize_value: what the entered value stands for, or NoValue where the code
   raises ValueError. *)
Normalized(s, v) ==
    CASE s.platform = "switch" -> [on |-> v]
      [] s.platform = "select" ->
            IF v \in Range(s.options) THEN [option |-> v] ELSE NoValue
      [] s.platform = "number" ->
            IF v < 10 * s.min \/ v > 10 * s.max THEN NoValue
            ELSE [number |-> RoundTenths(v)]
      [] s.platform = "text" ->
            IF s = HostName /\ (v = <<>> \/ Len(v) > HostNameWords) THEN NoValue
            ELSE [words |-> v]

\* What a user can enter for a setting: an address is two words, and no characters
\* of a host name make a word that is 0.
Enterable(s, v) ==
    /\ s.platform = "switch" => v \in BOOLEAN
    /\ s.platform = "number" => v \in Int
    /\ s.platform = "text" => IF s = HostName THEN v \in Seq(1 .. WordBase - 1)
                              ELSE v \in [1 .. 2 -> 0 .. WordBase - 1]

\* build_writes: the words one setting is written as.
Encoded(s, n) ==
    CASE s.platform = "switch" -> <<IF n.on THEN 1 ELSE 0>>
      [] s.platform = "select" -> <<CHOOSE w \in DOMAIN s.options : s.options[w] = n.option>>
      [] s.platform = "number" -> <<n.number>>
      [] s.platform = "text"   ->
            IF s = HostName
            THEN [i \in 1 .. HostNameWords |-> IF i <= Len(n.words) THEN n.words[i] ELSE 0]
            ELSE n.words

(* decode_value of a meter setting, from the reading of the sensor behind it. *)
\* Wrong on purpose: the label of an on/off register is not among the words.
OnWordsOfEnableState == {"enabled", "supported", "true", "1"}

OnWords == {"enabled", "supported", "on", "true", "1"}

Decoded(s, r) ==
    CASE s.platform = "switch" ->
            [on |-> IF "label" \in DOMAIN r THEN r.label \in OnWords ELSE r.num # 0]
      [] s.platform = "select" ->
            IF "label" \in DOMAIN r THEN [option |-> r.label]
            ELSE IF r.num \in DOMAIN s.options THEN [option |-> s.options[r.num]]
            ELSE NoValue
      [] s.platform = "number" -> [number |-> r.num]

\* build_writable_setting_states: the settings of a meter, from its readings.
SettingStates(settings, readings) ==
    [s \in settings |-> IF s.key \in DOMAIN readings
                        THEN Decoded(s, readings[s.key]) ELSE NoValue]

\* The words of w that are not 0, in their order.
NonZero(w) ==
    LET UpTo(k) == {j \in 1 .. k : w[j] # 0}
    IN  [i \in 1 .. Cardinality(UpTo(Len(w))) |->
            w[CHOOSE k \in UpTo(Len(w)) : Cardinality(UpTo(k)) = i]]

(* decode_gateway_configuration_registers and decode_value of a gateway setting:
   the words of the configuration blocks, straight to the value shown. *)
GatewayDecoded(s, w) ==
    CASE s.platform = "switch" -> [on |-> w[1] # 0]
      [] s.platform = "select" ->
            IF w[1] \in DOMAIN s.options THEN [option |-> s.options[w[1]]] ELSE NoValue
      [] s.platform = "number" -> [number |-> w[1]]
      [] s.platform = "text" ->
            [words |-> IF s = HostName THEN NonZero(w) ELSE w]

GatewaySettingStates(managed, memory) ==
    [s \in managed |->
        GatewayDecoded(s, [i \in 1 .. WidthOf(s) |-> memory[s.address + i - 1]])]
=============================================================================
