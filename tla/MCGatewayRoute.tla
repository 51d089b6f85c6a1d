--------------------------- MODULE MCGatewayRoute ---------------------------
(* One run for the two sides of a TCP gateway: a session is a scan (kind is not
   "none"), or the work of an entry that a scan led to (kind is "none"). *)
EXTENDS GatewayRoute, Discovery

MCSensor(k, a, vt) ==
    [key |-> k, address |-> a, count |-> IF vt \in {"uint16", "hex16", "int16"} THEN 1 ELSE 2,
     value_type |-> vt, options |-> NoOptions]

\* Of the GROW 3P4U: three versions in adjacent registers, a register with two names,
\* and the Wi-Fi register, which follows a configuration register.
Legal == MCSensor("legal_software_version", 16389, "float32")
NonLegal == MCSensor("non_legal_software_version", 16391, "float32")
Hardware == MCSensor("hardware_version", 16393, "float32")
Energy == MCSensor("total_active_energy", 24576, "int32")
EnergyAgain == MCSensor("active_energy_total", 24576, "int32")
Setting(k) == CHOOSE s \in WritableSettings \cup GatewaySettings : s.key = k

MCSettings == {Setting(k) : k \in {"wifi_support", "backlight_timeout",
                  "non_legal_lcd_cycle_time", "legal_lcd_obis_codes", "backlight_mode"}}
MCSensors == {Legal, NonLegal, Hardware, Energy, EnergyAgain,
              BackingSensor(Setting("wifi_support"))}

\* The energy counter passes from 65535 to 65536; the versions stay.
MCSamples == [s \in {Legal, NonLegal, Hardware} |-> <<<<s.address, 1>>, <<s.address, 1>>>>]
             @@ (Energy :> <<<<0, 65535>>, <<1, 0>>>>)

MCMeterInputs == {<<Setting("non_legal_lcd_cycle_time"), 285>>,
                  <<Setting("legal_lcd_obis_codes"), TRUE>>,
                  <<Setting("backlight_mode"), "Button Activated">>}
MCGatewayInputs == {<<Setting("ip_address"), <<2570, 513>>>>,
                    <<Setting("baudrate"), "9600">>}
MCManaged == {in[1] : in \in MCGatewayInputs}

MCHostKinds == {[is |-> "gateway", serial |-> <<"4b05", "0001">>],
                [is |-> "grow", serial |-> <<"0756", "0002">>],
                [is |-> "foreign", serial |-> <<"none", "0003">>], Silent}

Device(v, p, c, prod, a) ==
    [is |-> "meter", variant |-> v, serial |-> <<p, c>>, code |-> c, product |-> prod, amps |-> a]

MCDevices == {Silent,
    Device("grow_750", "0756", "0756", "0756", 0),
    Device("grow_701", "0701", "0756", "0701", 0),
    Device("pro_2", "0287", "0101", NoCode, 100),
    Device("pro_1", "0254", "0101", NoCode, 45),
    Device("n_380_40a", "0514", "3203", NoCode, 40),
    Device("pro_380", "0257", "0102", "0999", 0),
    Device("pro_1_solare", "0254", "2009", "0254", 0),
    Device("n_1", "0510", "3201", "0510", 0),
    Device(NoCode, "0799", "9999", "0799", 0)}

Ad(p, r) == [serial |-> <<p, "0001">>, rssi |-> r, address |-> r]
MCHeard == {<<>>, <<Ad("none", -40)>>, <<Ad("0756", -999), Ad("0756", -60), Ad("0756", -70)>>,
            <<Ad("0701", -60), Ad("0756", -50), Ad("0701", -60)>>}

MCProxyHosts == <<"configured", "localhost">>

\* Every setting of the gateway lies in one of the ranges a configuration read covers.
ASSUME SettingsAssumption ==
    \A s \in GatewaySettings : \E i \in DOMAIN GatewayConfigBlocks :
        s.address .. s.address + WidthOf(s) - 1 \subseteq GatewayConfigBlocks[i]

Init == ScanInit({"gateways", "bus", "proxy", "none"}) /\ RouteInit /\ (kind # "none" => ~clears)

Next == \/ kind # "none" /\ ScanNext /\ UNCHANGED vars
        \/ kind = "none" /\ RouteNext /\ UNCHANGED <<facts, scan>>

Spec == Init /\ [][Next]_<<vars, facts, scan>>
=============================================================================
