---------------------------- MODULE GatewayRoute ----------------------------
(* One meter behind a TCP gateway: the polls of its coordinator, which read the
   gateway's configuration and then the registers of the meter block by block,
   the entities that write settings of the meter and of the gateway, and the
   gateway's Revert, Apply and Apply and Store buttons.  coordinator.py with
   reading.py, settings.py, gateway_settings.py, commands.py, button.py.

   Every request holds the lock of the client (module ModbusClient), so a block
   is read, and a write is made and read back, as one step here; between two
   requests anything else may run. *)
EXTENDS MeterSettings

CONSTANTS Sensors,         \* the measurement and diagnostic sensors of the profile
          Settings,        \* the writable settings its profile supports
          Managed,         \* the gateway settings that have entities
          Samples,         \* Samples[s]: two word sequences register s alternates between
          Users,           \* tasks that call entity services
          MeterInputs,     \* pairs <<setting, entered value>> for the meter
          GatewayInputs,   \* pairs <<setting, entered value>> for the gateway
          MaxPolls, MaxCalls,   \* bounds of the polls and of the calls
          MaxEvents  \* bound of the faults, measurements and changed entities together

Actions == {"revert", "apply", "apply_and_store"}

\* The registers of a gateway action, written in this order.
ActionWrites(a) ==
    CASE a = "revert"          -> <<[act |-> "revert"]>>
      [] a = "apply"           -> <<[act |-> "apply"]>>
      [] a = "apply_and_store" -> <<[act |-> "store"], [act |-> "apply"]>>

\* The configuration sensors of a GROW meter are those behind its settings.  (A PRO
\* meter has no settings, and the poll reads its configuration sensors like any other.)
ConfigSensors == {BackingSensor(s) : s \in {t \in Settings : t.key # "wifi_support"}}
Profile == Sensors \cup ConfigSensors
MeterRegisters == UNION {RegistersOf(s) : s \in Profile}
GatewayRegisters == UNION {s.address .. s.address + WidthOf(s) - 1 : s \in Managed}

\* The settings are those of the tables, with the sensors that back them; the meter
\* measures into other registers; and users enter what the forms let them.
ASSUME InputsAssumption ==
    /\ Settings \subseteq WritableSettings /\ Managed \subseteq GatewaySettings
    /\ \A s \in Settings : /\ BackingSensor(s) \in Profile
                           /\ \A t \in DOMAIN Samples : s.address \notin RegistersOf(t)
    /\ \A in \in MeterInputs : in[1] \in Settings /\ Enterable(in[1], in[2])
    /\ \A in \in GatewayInputs : in[1] \in Managed /\ Enterable(in[1], in[2])

\* The tables of sensors: no two have one key, each fits in a request, and a GROW
\* meter has configuration sensors.
ASSUME ProfileAssumption ==
    /\ IsFiniteSet(Profile) /\ ConfigSensors # {}
    /\ \A s \in Profile : s.address \in Nat /\ s.count \in 1 .. MaxRegistersPerRead
    /\ \A s, t \in Profile : s.key = t.key => s = t

NotRead == <<>>

VARIABLES
    meter,      \* the registers of the meter
    staged,     \* the configuration registers of the gateway
    active,     \* external: the configuration the gateway runs on
    stored,     \* external: the configuration the gateway starts from
    clears,     \* external: whether the gateway clears an action register at once
    enabled,    \* the sensors whose entity is enabled in the registry
    polling,    \* "idle", "config" or "blocks"
    polled,     \* the sensors this poll reads
    todo,       \* its blocks not read yet
    conf,       \* the gateway settings it read, or NotRead
    readings,   \* the readings it decoded so far
    failed,     \* whether a block of it failed
    data,       \* what the coordinator published last, or NoValue
    settings,   \* the gateway settings published last
    op,         \* the call of each user
    held,       \* ghost: per setting, the value the device was last made to hold
    seen,       \* ghost: per sensor, the values its registers had during this poll
    count       \* the counters behind the bounds

device  == <<meter, staged, active, stored, clears>>
pollVars == <<polling, polled, todo, conf, readings, failed, seen>>
vars == <<device, enabled, pollVars, data, settings, op, held, count>>

Free == [todo |-> <<>>, goal |-> "none", result |-> "none", quiet |-> FALSE]

\* The value of sensor s in a meter memory.
ValueIn(memory, s) ==
    DecodeSensorValue(s, [i \in 1 .. s.count |-> memory[s.address + i - 1]])

\* External: the memory of the meter when its measured registers hold sample i.
Measured(memory, i) ==
    [r \in MeterRegisters |->
        LET by == {s \in DOMAIN Samples : r \in RegistersOf(s)}
        IN  IF by = {} THEN memory[r]
            ELSE LET s == CHOOSE s \in by : TRUE IN Samples[s][i][r - s.address + 1]]

RouteInit ==
    /\ meter = Measured([r \in MeterRegisters |-> 0], 1)
    /\ staged = [r \in GatewayRegisters |-> 0] /\ active = staged /\ stored = staged
    /\ clears \in BOOLEAN
    /\ enabled = Sensors
    /\ polling = "idle" /\ polled = {} /\ todo = <<>> /\ conf = NotRead
    /\ readings = <<>> /\ failed = FALSE /\ seen = <<>>
    /\ data = NoValue /\ settings = [s \in Managed |-> NoValue]
    /\ op = [u \in Users |-> Free]
    /\ held = [s \in Settings \cup Managed |-> NoValue]
    /\ count = [polls |-> 0, calls |-> 0, events |-> 0]

Counted(c, bound) == count[c] < bound /\ count' = [count EXCEPT ![c] = @ + 1]

-----------------------------------------------------------------------------
(* The meter measures, and the user enables or disables a sensor entity. *)
Tick ==
    /\ Counted("events", MaxEvents)
    /\ \E i \in {1, 2} : meter' = Measured(meter, i) /\ meter' # meter
    /\ seen' = [s \in DOMAIN seen |-> seen[s] \cup {ValueIn(meter', s)}]
    /\ UNCHANGED <<staged, active, stored, clears, enabled, polling, polled, todo, conf,
                   readings, failed, data, settings, op, held>>

Toggle(s) ==
    /\ Counted("events", MaxEvents)
    /\ enabled' = IF s \in enabled THEN enabled \ {s} ELSE enabled \cup {s}
    /\ UNCHANGED <<device, pollVars, data, settings, op, held>>

-----------------------------------------------------------------------------
(* One poll: _async_update_data of the single-meter coordinator. *)
StartPoll ==
    /\ polling = "idle" /\ Counted("polls", MaxPolls)
    /\ polling' = "config" /\ conf' = NotRead
    /\ UNCHANGED <<device, enabled, polled, todo, readings, failed, seen, data, settings, op, held>>

\* _polling_sensors: the enabled measurement and diagnostic sensors, and every
\* configuration sensor.
PollingSensors == enabled \cup ConfigSensors

\* The configuration blocks are read under one lock; a failure reads none of them.
ReadConfiguration(ok) ==
    /\ polling = "config" /\ polling' = "blocks"
    /\ IF ok THEN count' = count /\ conf' = GatewaySettingStates(Managed, staged)
             ELSE Counted("events", MaxEvents) /\ conf' = NotRead
    /\ polled' = PollingSensors
    /\ todo' = BuildRegisterBlocks(PollingSensors)
    /\ readings' = <<>> /\ failed' = FALSE
    /\ seen' = [s \in PollingSensors |-> {ValueIn(meter, s)}]
    /\ UNCHANGED <<device, enabled, data, settings, op, held>>

\* On to the next block, or the end of the poll, which publishes unless no block
\* was read.
AfterBlock(rs, bad) ==
    /\ readings' = rs /\ failed' = bad /\ todo' = Tail(todo)
    /\ IF Len(todo) > 1 THEN UNCHANGED <<polling, data, settings>>
       ELSE /\ polling' = "idle"
            /\ IF rs = <<>> THEN UNCHANGED <<data, settings>>
               ELSE /\ data' = [readings |-> rs, complete |-> ~bad,
                                settings |-> SettingStates(Settings, rs)]
                    /\ settings' = IF conf = NotRead THEN settings ELSE conf
    /\ UNCHANGED <<device, enabled, polled, conf, seen, op, held>>

ReadBlock ==
    /\ polling = "blocks" /\ count' = count
    /\ LET b == Head(todo)
           words == [i \in 1 .. b.count |-> meter[b.address + i - 1]]
           keys == {s.key : s \in Range(b.sensors)}
           Of(k) == CHOOSE s \in Range(b.sensors) : s.key = k
       IN  AfterBlock([k \in DOMAIN readings \cup keys |->
                         IF k \in keys THEN DecodeSensorValue(Of(k), Slice(b, Of(k), words))
                         ELSE readings[k]], failed)

SkipBlock ==
    /\ polling = "blocks" /\ Counted("events", MaxEvents)
    /\ AfterBlock(readings, TRUE)

\* An error the poll does not expect, or its task cancelled: nothing is published.
PollBreaks ==
    /\ polling # "idle" /\ polling' = "idle"
    /\ Counted("events", MaxEvents)
    /\ UNCHANGED <<device, enabled, polled, todo, conf, readings, failed, seen, data,
                   settings, op, held>>

-----------------------------------------------------------------------------
(* Calls of the entities: a plan of writes, each made and read back on its own. *)
Call(u, goal, plan) ==
    /\ op[u].todo = <<>> /\ Counted("calls", MaxCalls)
    /\ op' = [op EXCEPT ![u] = [todo |-> plan, goal |-> goal, result |-> "none", quiet |-> TRUE]]
    /\ UNCHANGED <<device, enabled, pollVars, data, settings, held>>

\* async_write_setting, async_write_gateway_setting: a value that normalizes is
\* written as one block; any other raises before anything is written.
WriteSetting(u, s, v) ==
    /\ Normalized(s, v) # NoValue
    /\ Call(u, "setting", <<[set |-> s, to |-> Normalized(s, v)]>>)

\* async_execute_gateway_action.
PressButton(u, a) ==
    Call(u, a, ActionWrites(a))

Overwritten(memory, s, words) ==
    [r \in DOMAIN memory |-> IF r \in s.address .. s.address + Len(words) - 1
                             THEN words[r - s.address + 1] ELSE memory[r]]

\* External: what one register write does to the device it reaches.  An attempt
\* repeated under the same lock does the same again.
Reaches(w) ==
    /\ UNCHANGED clears
    /\ IF "set" \in DOMAIN w
       THEN LET words == Encoded(w.set, w.to)
            IN  IF w.set \in Settings
                THEN /\ meter' = Overwritten(meter, w.set, words)
                     /\ UNCHANGED <<staged, active, stored>>
                ELSE /\ staged' = Overwritten(staged, w.set, words)
                     /\ UNCHANGED <<meter, active, stored>>
       ELSE /\ staged' = IF w.act = "revert" THEN stored ELSE staged
            /\ active' = IF w.act = "apply" THEN staged ELSE active
            /\ stored' = IF w.act = "store" THEN staged ELSE stored
            /\ UNCHANGED meter

\* The ghosts after a write reached a device; "sure" when it was read back.
Noted(w, sure) ==
    /\ held' = [s \in DOMAIN held |->
                  IF "set" \in DOMAIN w
                  THEN IF s # w.set THEN held[s] ELSE IF sure THEN w.to ELSE NoValue
                  ELSE IF w.act = "revert" /\ s \in Managed THEN NoValue ELSE held[s]]
    /\ seen' = [s \in DOMAIN seen |-> seen[s] \cup {ValueIn(meter', s)}]

\* Anything written to the gateway by u disturbs the presses of the others.
Disturbed(u, w) ==
    [v \in Users |-> IF v # u /\ ("act" \in DOMAIN w \/ w.set \in Managed)
                     THEN [op[v] EXCEPT !.quiet = FALSE] ELSE op[v]]

Finished(o, r) == [o EXCEPT !.todo = <<>>, !.result = r]
Proceeds(o) == IF Len(o.todo) = 1 THEN Finished(o, "ok") ELSE [o EXCEPT !.todo = Tail(@)]

WriteHolds(u) ==
    /\ op[u].todo # <<>>
    /\ LET w == Head(op[u].todo)
       IN  /\ "act" \in DOMAIN w => ~clears
           /\ Reaches(w) /\ Noted(w, TRUE)
           /\ op' = [Disturbed(u, w) EXCEPT ![u] = Proceeds(op[u])]
    /\ UNCHANGED <<enabled, polling, polled, todo, conf, readings, failed, data, settings, count>>

\* Written, but no attempt was read back as written: an answer was lost, or the
\* gateway has cleared the register.
WriteUnconfirmed(u) ==
    /\ op[u].todo # <<>>
    /\ LET w == Head(op[u].todo)
       IN  /\ IF "act" \in DOMAIN w /\ clears THEN count' = count
              ELSE Counted("events", MaxEvents)
           /\ Reaches(w) /\ Noted(w, FALSE)
           /\ op' = [Disturbed(u, w) EXCEPT ![u] = Finished(@, "failed")]
    /\ UNCHANGED <<enabled, polling, polled, todo, conf, readings, failed, data, settings>>

\* Wrong on purpose: the plan goes on after a write that failed.
WriteLostGoesOn(u) ==
    /\ op[u].todo # <<>> /\ Counted("events", MaxEvents)
    /\ op' = [op EXCEPT ![u] = Proceeds(@)]
    /\ UNCHANGED <<device, enabled, pollVars, data, settings, held>>

\* No attempt reached the device: the plan stops.
WriteLost(u) ==
    /\ op[u].todo # <<>> /\ Counted("events", MaxEvents)
    /\ op' = [op EXCEPT ![u] = Finished(@, "failed")]
    /\ UNCHANGED <<device, enabled, pollVars, data, settings, held>>

-----------------------------------------------------------------------------
RouteNext ==
    \/ Tick \/ StartPoll \/ ReadBlock \/ SkipBlock \/ PollBreaks
    \/ \E s \in Sensors : Toggle(s)
    \/ \E ok \in BOOLEAN : ReadConfiguration(ok)
    \/ \E u \in Users :
          \/ \E in \in MeterInputs \cup GatewayInputs : WriteSetting(u, in[1], in[2])
          \/ \E a \in Actions : PressButton(u, a)
          \/ WriteHolds(u) \/ WriteUnconfirmed(u) \/ WriteLost(u)

RouteSpec == RouteInit /\ [][RouteNext]_vars

-----------------------------------------------------------------------------
(* A poll asks for every register of the sensors it reads, for no other, and
   never for more than the limit in one request. *)
RequestsCoverExactly ==
    polling = "blocks" /\ readings = <<>> /\ ~failed => CoversExactly(todo, polled)

(* What a poll decodes for a sensor is a value its registers had, all at the same
   moment, while the poll was running, whatever block they were read in; and a
   poll none of whose blocks failed has a reading for every sensor it reads. *)
ReadingsAreRegisters ==
    /\ \A s \in polled : s.key \in DOMAIN readings => readings[s.key] \in seen[s]
    /\ data # NoValue /\ polling = "idle" /\ todo = <<>> /\ data.readings = readings
        /\ data.complete => \A s \in polled : s.key \in DOMAIN readings

(* A setting written and read back with success is what the next read of its
   register shows, until another write of it or a revert: the value entered
   survives normalizing, encoding, the grouping of the registers, the sensor's
   decoding and the setting's. *)
SettingReadsBack ==
    [][/\ \A s \in Settings :
             /\ held[s] # NoValue
             /\ s.key \in DOMAIN readings' \ DOMAIN readings
             => Decoded(s, readings'[s.key]) = held[s]
       /\ \A s \in Managed :
             /\ held[s] # NoValue
             /\ polling = "config" /\ conf' # NotRead
             => conf'[s] = held[s]]_vars

(* After a press that succeeded, and until another entity writes the gateway, the
   whole action is in force: never a configuration applied and not stored, or
   stored and not applied. *)
ActionTakesAll ==
    \A u \in Users : op[u].result = "ok" /\ op[u].quiet =>
        /\ op[u].goal = "revert" => staged = stored
        /\ op[u].goal = "apply" => active = staged
        /\ op[u].goal = "apply_and_store" => active = staged /\ stored = staged

(* coordinator.py:599-604: "Configuration registers are still read because
   writable controls use them as their backing state": a poll none of whose
   blocks failed gives every writable setting a value. *)
ControlsAreRead ==
    data # NoValue /\ data.complete => \A s \in Settings : data.settings[s] # NoValue
=============================================================================
