---------------------------- MODULE EntityControl ----------------------------
(***************************************************************************)
(* One control entity, the device it stands for, and the way of a command  *)
(* between them: light.py, climate.py, fan.py, cover.py, entity.py and     *)
(* async_control_device of the coordinator.  Service calls overlap, each   *)
(* builds its command from the state shown when it starts, and that state  *)
(* follows the device only when the device's reports are merged: those of  *)
(* its own gateway, to which the cloud's state of it yields field by field.*)
(***************************************************************************)
EXTENDS DeviceControl, DeviceInventory

CONSTANTS
    Caller,         \* service calls that may overlap
    Profile,        \* kinds of device: records [type, relay, platform]
    Level, Kelvin, Temp, Percentage, Position,      \* values users ask for
    Hub,            \* gateways with an address in the cloud's answer
    MaxAsks,        \* bound on the number of service calls
    MaxChanges,     \* bound on changes made elsewhere, and on refreshes
    MaxReports      \* bound on reports not yet merged

ASSUME ControlAssumption ==
    /\ Hub \subseteq Uid
    /\ Level \subseteq 1..255 /\ Kelvin \subseteq 2700..6000 /\ Temp \subseteq 16..30
    /\ Percentage \subseteq 0..100 /\ Position \subseteq 0..100
    /\ MaxAsks \in Nat /\ MaxChanges \in Nat /\ MaxReports \in Nat

VARIABLES
    entity,     \* the profile of the entity, fixed when the platform starts
    known,      \* the coordinator has the device
    gateway,    \* through which it is controlled, NoUid if through none
    connected,  \* the gateway's connection is up
    device,     \* the device's own state
    shown,      \* the coordinator's state of it, None before the first
    reports,    \* reports of the device under way, in order: records [from, state]
    reported,   \* the state shown holds a report, whose fields outrank the cloud's
    missed,     \* no report was merged yet, or since the last one a report was
                \*   lost or dropped, the state was discarded, or the cloud
                \*   replaced properties of another shape
    call,       \* the service calls
    wire,       \* commands sent and not yet executed, numbered like the calls
    asked,      \* history: request of the last command executed, None once
                \*   the device was operated elsewhere
    asks, changes

vars == <<entity, known, gateway, connected, device, shown, reports, reported, missed,
          call, wire, asked, asks, changes>>
place == <<entity, known, gateway, connected>>
-----------------------------------------------------------------------------
(* Requests, and the command an entity builds for one.  *)

turn_on(level, kelvin) == [op |-> "turn_on", level |-> level, kelvin |-> kelvin]
turn_off == [op |-> "turn_off"]

\* Home Assistant removes the attributes that the colour mode lacks, and turns
\* level 0 into turn_off.
LightRequests(mode) ==
    {turn_off} \cup
    {turn_on(l, k) : l \in IF mode = "onoff" THEN {None} ELSE Level \cup {None},
                     k \in IF mode = "color_temp" THEN Kelvin \cup {None} ELSE {None}}

Requests(e) ==
    CASE e.platform = "light" -> LightRequests(light_color_mode(e.type, e.relay))
      [] e.platform = "climate" ->
           [op: {"mode"}, mode: {"off"} \cup DOMAIN ModeCode]
           \cup [op: {"temperature"}, temp: Temp]
           \cup [op: {"fan"}, fan: DOMAIN FanCode]
      [] e.platform = "fan" ->
           {turn_off, turn_on(None, None)} \cup [op: {"percentage"}, p: Percentage]
      [] e.platform = "cover" ->
           [op: {"open", "close", "stop"}] \cup [op: {"position"}, p: Position]

\* Colour temperature alone keeps the brightness shown, full when none is.
KeptBrightness(type, st) ==
    LET b == brightness_shown(type, st) IN IF b \in {None, 0} THEN 255 ELSE b

LightCommand(e, r, st) ==
    IF power_only(e.type, e.relay) THEN power_only_light(r.op = "turn_on")
    ELSE IF r.op = "turn_off" THEN light_off(e.type)
    ELSE CASE r.level # None /\ r.kelvin # None -> light_on_off(e.type, r.level, r.kelvin)
           [] r.level # None /\ r.kelvin = None -> light_brightness(e.type, r.level)
           [] r.level = None /\ r.kelvin # None ->
                light_colortemp(e.type, r.kelvin, KeptBrightness(e.type, st))
           [] OTHER -> light_on(e.type)

ClimateCommand(r, st) ==
    CASE r.op = "mode" -> IF r.mode = "off" THEN ac_off
                          ELSE ac_on_with_mode(ModeCode[r.mode], st)
      [] r.op = "temperature" -> ac_set_temp(r.temp, st)
      [] r.op = "fan" -> ac_wind(FanCode[r.fan], st)

FanCommand(r) ==
    CASE r.op = "turn_on" -> fan_on
      [] r.op = "turn_off" -> fan_off
      [] r.op = "percentage" -> fan_set_speed(r.p)

CoverCommand(r) ==
    CASE r.op = "open" -> cover_open
      [] r.op = "close" -> cover_close
      [] r.op = "stop" -> cover_stop
      [] r.op = "position" -> cover_position(r.p)

Built(e, r, st) ==
    CASE e.platform = "light" -> LightCommand(e, r, st)
      [] e.platform = "climate" -> ClimateCommand(r, st)
      [] e.platform = "fan" -> FanCommand(r)
      [] e.platform = "cover" -> CoverCommand(r)
-----------------------------------------------------------------------------
(* The device, as far as the code relies on it.  *)

\* A zero stands for "not given": the device may take it or keep its value.
Taken(given, own) == IF given = 0 THEN {0, own} ELSE {given}

Overridden(own, given) ==
    [k \in DOMAIN own \cup DOMAIN given |->
        IF k \in DOMAIN given THEN given[k] ELSE own[k]]

\* A light that is given a property may also switch on.
PropertyLight(s, cmd) ==
    LET p == Overridden(s.props, cmd.props)
    IN  {[s EXCEPT !.props = q] :
            q \in {p} \cup IF "onoff" \in DOMAIN cmd.props THEN {}
                           ELSE {[p EXCEPT !["onoff"] = "on"]}}

NumberLight(s, cmd) ==
    {[s EXCEPT !.values = <<cmd.values[1], b, m, s.values[4]>>] :
        b \in Taken(cmd.values[2], s.values[2]), m \in Taken(cmd.values[3], s.values[3])}

\* The room temperature is the device's own.  A setting may leave it off.
AirConditioner(s, cmd) ==
    LET c == cmd.values
        v == s.values
        on == IF cmd.order \in {"on", "off"} THEN {c[1]} ELSE {c[1], v[1]}
    IN  {[s EXCEPT !.values = <<p, m, f, InHigh(t) + Low(v[4])>>] :
            p \in on, m \in Taken(c[2], v[2]), f \in Taken(c[3], v[3]),
            t \in Taken(High(c[4]), High(v[4]))}

Executed(e, s, cmd) ==
    CASE e.platform = "light" /\ e.type \in ThingModel -> PropertyLight(s, cmd)
      [] e.platform = "light" /\ e.type \notin ThingModel -> NumberLight(s, cmd)
      [] e.platform = "climate" -> AirConditioner(s, cmd)
      [] OTHER -> IF cmd.order = "stop" THEN {s}
                  ELSE {[s EXCEPT !.values[1] = cmd.values[1]]}

\* What its owner may make of it with a wall switch or the vendor's app.
Manual(e) ==
    LET Numbers(v) == [values |-> v, props |-> NoProps]
    IN  CASE e.platform = "light" /\ e.type \in ThingModel ->
               {[values |-> <<0, 0, 0, 0>>,
                 props |-> [onoff |-> o, brightness |-> 40, colorTemp |-> 4000]] :
                    o \in {"on", "off"}}
          [] e.platform = "light" /\ e.type \notin ThingModel ->
               {Numbers(<<p, 90, 250, 0>>) : p \in {0, 1}}
          [] e.platform = "climate" ->
               {Numbers(<<0, 4, 3, InHigh(2000) + 2150>>),
                Numbers(<<1, 2, 0, InHigh(2200) + 2150>>)}
          [] e.platform = "fan" -> {Numbers(<<v, 0, 0, 0>>) : v \in {0, 50}}
          [] e.platform = "cover" -> {Numbers(<<v, 0, 0, 0>>) : v \in {3, 40}}

\* What the cloud says of it: nothing, or a state, perhaps not the latest.  It
\* has no properties where the device has none, and where the cloud gives them
\* in the other shape, one value each, that the light does not read.
CloudStates(e, s) ==
    LET held == Manual(e) \cup {s}
    IN  {None} \cup held \cup {[h EXCEPT !.props = NoProps] : h \in held}
-----------------------------------------------------------------------------
Idle == [stage |-> "idle", answer |-> "none", outcome |-> "none", executed |-> 0,
         number |-> 0]

\* The numbers of a device, zeros where it has none, and its properties.
Brightness == 1..100
ColorTemp == MinKelvin..MaxKelvin
Properties == [onoff: {"on", "off"}, brightness: Brightness, colorTemp: ColorTemp]
State == [values: [1..4 -> Nat], props: {NoProps} \cup Properties]
Report == [from: Hub, state: State]

ASSUME StateAssumption == None \notin State

TypeOK ==
    /\ entity \in Profile /\ entity.platform \in Platforms(entity.type)
    /\ known \in BOOLEAN /\ gateway \in Hub \cup {NoUid}
    /\ gateway # NoUid => known
    /\ connected \in BOOLEAN /\ reported \in BOOLEAN /\ missed \in BOOLEAN
    /\ device \in State /\ shown \in State \cup {None} /\ reports \in Seq(Report)
    /\ Len(reports) <= MaxReports
    /\ call \in [Caller -> [stage: {"idle", "sent"}, answer: {"none", "ok", "rejected"},
                           outcome: {"none", "ok", "refused", "rejected", "failed"},
                           executed: 0..1, number: 0..asks]]
    /\ asked \in Requests(entity) \cup {None}
    /\ \A x \in wire : /\ x.number \in 1..asks /\ x.request \in Requests(entity)
                      /\ x.basis \in State \cup {None} /\ x.to \in Hub
    /\ asks \in 0..MaxAsks /\ changes \in 0..MaxChanges

Init ==
    /\ entity \in {p \in Profile : p.platform \in Platforms(p.type)}
    /\ known = TRUE /\ gateway \in Hub /\ connected = TRUE
    /\ device \in Manual(entity)
    /\ shown \in CloudStates(entity, device)
    /\ reports = <<>> /\ reported = FALSE /\ missed = TRUE
    /\ call = [c \in Caller |-> Idle]
    /\ wire = {}
    /\ asked = None
    /\ asks = 0 /\ changes = 0
-----------------------------------------------------------------------------
(* Service calls.  *)

\* Home Assistant only calls entities that are available.
available ==
    /\ known
    /\ gateway # NoUid => connected

\* The command is built and handed to the gateway manager in one step; a
\* device that is unknown, read-only or without a gateway is refused.
Ask(c, r) ==
    /\ call[c].stage = "idle" /\ asks < MaxAsks
    /\ available
    /\ asks' = asks + 1
    /\ IF gateway = NoUid
       THEN /\ call' = [call EXCEPT ![c] = [Idle EXCEPT !.outcome = "refused"]]
            /\ UNCHANGED wire
       ELSE /\ call' = [call EXCEPT ![c] = [Idle EXCEPT !.stage = "sent", !.number = asks + 1]]
            /\ wire' = wire \cup {[number |-> asks + 1, to |-> gateway, request |-> r,
                                   basis |-> shown, command |-> Built(entity, r, shown)]}
    /\ UNCHANGED <<place, device, shown, reports, reported, missed, asked, changes>>

\* The call that waits for the answer to a command, if it still does.
Awaits(c, x) == call[c].stage = "sent" /\ call[c].number = x.number

\* The device executes a command, in any order with those that wait, and
\* reports its state through the gateway; that answers status 0.
Execute(x) ==
    /\ Len(reports) < MaxReports
    /\ device' \in Executed(entity, device, x.command)
    /\ reports' = Append(reports, [from |-> x.to, state |-> device'])
    /\ asked' = x.request
    /\ wire' = wire \ {x}
    /\ call' = [c \in Caller |-> IF Awaits(c, x)
                    THEN [call[c] EXCEPT !.answer = "ok", !.executed = @ + 1]
                    ELSE call[c]]
    /\ UNCHANGED <<place, shown, reported, missed, asks, changes>>

\* The gateway answers another status.
Reject(x) ==
    /\ wire' = wire \ {x}
    /\ call' = [c \in Caller |-> IF Awaits(c, x)
                    THEN [call[c] EXCEPT !.answer = "rejected"] ELSE call[c]]
    /\ UNCHANGED <<place, device, shown, reports, reported, missed, asked, asks, changes>>

\* Mutant: the status of the answer is not looked at.
AnsweredAnyway(c) ==
    /\ call[c].stage = "sent" /\ call[c].answer # "none"
    /\ call' = [call EXCEPT ![c].stage = "idle", ![c].outcome = "ok"]
    /\ UNCHANGED <<place, device, shown, reports, reported, missed, wire, asked, asks,
                   changes>>

Answered(c) ==
    /\ call[c].stage = "sent" /\ call[c].answer # "none"
    /\ call' = [call EXCEPT ![c].stage = "idle", ![c].outcome = call[c].answer]
    /\ UNCHANGED <<place, device, shown, reports, reported, missed, wire, asked, asks,
                   changes>>

\* The deadline passes; the command may still be executed later.
TimesOut(c) ==
    /\ call[c].stage = "sent"
    /\ call' = [call EXCEPT ![c].stage = "idle", ![c].outcome = "failed"]
    /\ UNCHANGED <<place, device, shown, reports, reported, missed, wire, asked, asks,
                   changes>>
-----------------------------------------------------------------------------
(* The world around.  *)

\* A report is merged, unless the device is not known any more or is now
\* under another gateway, or under none: then it is dropped.
Merge ==
    /\ reports # <<>>
    /\ reports' = Tail(reports)
    /\ IF known /\ gateway = Head(reports).from
       THEN shown' = Head(reports).state /\ reported' = TRUE /\ missed' = FALSE
       ELSE missed' = TRUE /\ UNCHANGED <<shown, reported>>
    /\ UNCHANGED <<place, device, call, wire, asked, asks, changes>>

Elsewhere ==
    /\ changes < MaxChanges /\ Len(reports) < MaxReports
    /\ changes' = changes + 1
    /\ device' \in Manual(entity) \ {device}
    /\ \E h \in Hub : reports' = Append(reports, [from |-> h, state |-> device'])
    /\ asked' = None
    /\ UNCHANGED <<place, shown, reported, missed, call, wire, asks>>

\* The local network goes, and the connections with all they carried; the
\* calls fail.
Disconnect ==
    /\ connected /\ changes < MaxChanges
    /\ connected' = FALSE /\ changes' = changes + 1
    /\ wire' = {} /\ reports' = <<>>
    /\ missed' = (missed \/ reports # <<>>)
    /\ call' = [c \in Caller |-> IF call[c].stage = "sent"
                    THEN [call[c] EXCEPT !.stage = "idle", !.outcome = "failed"]
                    ELSE call[c]]
    /\ UNCHANGED <<entity, known, gateway, device, shown, reported, asked, asks>>

Reconnect ==
    /\ ~connected
    /\ connected' = TRUE
    /\ UNCHANGED <<entity, known, gateway, device, shown, reports, reported, missed, call,
                   wire, asked, asks, changes>>

Standings == {[known |-> Known(row, status, Hub), gateway |-> Gateway(row, status, Hub)] :
                row \in Rows, status \in Statuses}

\* Properties of the two shapes replace one another, whatever outranks what.
OtherShape(cloud) == shown.props # NoProps /\ cloud.props = NoProps

\* Mutant: the cloud's state replaces what the gateway reported.
CloudWins(cloud) ==
    IF cloud = None THEN UNCHANGED <<shown, missed>>
    ELSE shown' = cloud /\ UNCHANGED missed

\* The cloud's state of the device: the fields that were reported outrank it.
CloudMerged(cloud) ==
    CASE cloud = None -> UNCHANGED <<shown, missed>>
      [] cloud # None /\ ~reported -> shown' = cloud /\ UNCHANGED missed
      [] cloud # None /\ reported ->
           /\ shown' = IF OtherShape(cloud) THEN [shown EXCEPT !.props = NoProps] ELSE shown
           /\ missed' = (missed \/ OtherShape(cloud))

\* A refresh finds the device where it was, moved, deleted or gone, and merges
\* the cloud's state of it.  A device that is not kept loses its state.
Refresh(standing, cloud) ==
    /\ changes < MaxChanges
    /\ changes' = changes + 1
    /\ known' = standing.known /\ gateway' = standing.gateway
    /\ IF known' THEN CloudMerged(cloud) /\ UNCHANGED reported
                 ELSE shown' = None /\ reported' = FALSE /\ missed' = TRUE
    /\ UNCHANGED <<entity, connected, device, reports, call, wire, asked, asks>>

Next ==
    \/ \E c \in Caller : \/ \E r \in Requests(entity) : Ask(c, r)
                         \/ Answered(c)
                         \/ TimesOut(c)
    \/ \E x \in wire : Execute(x) \/ Reject(x)
    \/ \E standing \in Standings, cloud \in CloudStates(entity, device) :
          Refresh(standing, cloud)
    \/ Merge \/ Elsewhere \/ Disconnect \/ Reconnect

Spec == Init /\ [][Next]_vars
-----------------------------------------------------------------------------
(* What the entities promise.  *)

Near(x, y, tolerance) == x # None /\ x - y \in -tolerance..tolerance

LightShows(e, r, st) ==
    LET property == e.type \in ThingModel
        on == is_on(e.type, st)
    IN  IF r.op = "turn_off" THEN ~on
        ELSE /\ on \/ (property /\ (r.level = None) # (r.kelvin = None))
             /\ on /\ r.level # None =>
                    Near(brightness_shown(e.type, st), r.level, IF property THEN 3 ELSE 0)
             /\ on /\ r.kelvin # None =>
                    Near(color_temp_kelvin(e.type, st), r.kelvin, IF property THEN 0 ELSE 36)

ClimateShows(r, st) ==
    CASE r.op = "mode" -> hvac_mode(st) = r.mode
      [] r.op = "temperature" -> target_temperature(st) = r.temp * 100
      [] r.op = "fan" -> (r.fan # "auto" => fan_mode(st) = r.fan)

FanShows(e, r, st) ==
    LET p == IF r.op = "percentage" THEN r.p ELSE IF r.op = "turn_on" THEN 100 ELSE 0
    IN  /\ fan_is_on(e.type, st) <=> p > 0
        /\ percentage_shown(e.type, st) = IF p = 0 THEN 0 ELSE IF p <= 50 THEN 33 ELSE 100

CoverShows(r, st) ==
    /\ r.op = "open" => ~is_closed(st) /\ current_cover_position(st) = 100
    /\ r.op = "close" => is_closed(st)
    /\ r.op = "position" => current_cover_position(st) = r.p

Shows(e, r, st) ==
    CASE e.platform = "light" -> LightShows(e, r, st)
      [] e.platform = "climate" -> ClimateShows(r, st)
      [] e.platform = "fan" -> FanShows(e, r, st)
      [] e.platform = "cover" -> CoverShows(r, st)

\* Once the reports of a device have been merged, its entity shows what was
\* asked of it last: whatever was executed meanwhile, late or out of turn, and
\* whatever the cloud said, the view reads the numbers that the commands write,
\* within the rounding of percent (3 of 255) and mired (36 K).  A property
\* light that is given only a brightness or a colour may stay off; the fan mode
\* "auto" has no code of its own (climate.py:203).  Excused (missed) is what
\* the code does not repair before the next report: a report lost with the
\* connection or dropped because the device had moved, a state discarded with
\* the device, and properties that the cloud's of the other shape replaced.
AskedIsShown ==
    asked # None /\ reports = <<>> /\ ~missed => Shows(entity, asked, shown)

\* The settings of an air conditioner that a request is not about.
ClimateKeeps(r, before, after) ==
    LET fan == before.values[3] \in 1..3 => after.values[3] = before.values[3]
        mode == before.values[2] # 0 => after.values[2] = before.values[2]
        target == High(before.values[4]) # 0 => High(after.values[4]) = High(before.values[4])
    IN  CASE r.op = "mode" -> (r.mode # "off" => fan /\ target)
          [] r.op = "temperature" -> mode /\ fan
          [] r.op = "fan" -> mode /\ target

\* The brightness of a light that is on and given a colour.
LightKeeps(e, r, before, after) ==
    /\ r.op = "turn_on" /\ r.level = None /\ r.kelvin # None
    /\ is_on(e.type, before) /\ is_on(e.type, after)
    => brightness_shown(e.type, after) = brightness_shown(e.type, before)

Keeps(e, r, before, after) ==
    /\ e.platform = "climate" => ClimateKeeps(r, before, after)
    /\ e.platform = "light" => LightKeeps(e, r, before, after)

\* Setting one attribute loses another only when the command was built from a
\* state that was not the device's any more: another command, a change
\* elsewhere or a lost report came between.  Excepted are settings no command
\* can carry: the fan's automatic speed, and what an air conditioner has lost
\* by taking the zeros of ac_off.
SettingsLostOnlyWhenStale ==
    [][\A x \in wire :
          Execute(x) /\ x.basis = device => Keeps(entity, x.request, device, device')]_vars

\* What a service call reports is true: success means that the device has
\* executed the command once, a refusal or a rejection that it has not, and
\* no command is executed twice; after a time-out it may or may not have been.
OutcomeIsTrue ==
    \A c \in Caller :
        /\ call[c].outcome = "ok" => call[c].executed = 1
        /\ call[c].outcome \in {"refused", "rejected"} => call[c].executed = 0
        /\ call[c].executed <= 1
=============================================================================
