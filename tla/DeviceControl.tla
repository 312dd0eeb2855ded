---------------------------- MODULE DeviceControl ----------------------------
(***************************************************************************)
(* The commands that the light, climate, fan and cover entities send        *)
(* (lib/device_control.py) and the views they have of a device's state.     *)
(* A command is an order with four numbers, or with properties; a state     *)
(* holds four numbers and properties.  Identifiers, serials, versions and   *)
(* response options of the payloads are left out.  Numbers keep the units   *)
(* of the code: brightness 0..255 or percent, mired or kelvin, and the      *)
(* target and room temperature, times 100, in the halves of value4.         *)
(***************************************************************************)
EXTENDS Integers, Sequences, TLC

CONSTANT None   \* no state yet, no attribute, or a view that has no value

NoProps == <<>>

ASSUME NoneAssumption == None \notin Nat

Command(order, v1, v2, v3, v4) ==
    [order |-> order, values |-> <<v1, v2, v3, v4>>, props |-> NoProps]

SetProperty(props) == [Command("set property", 0, 0, 0, 0) EXCEPT !.props = props]

\* Types that light_on and light_off address by property, and those of which
\* the light entity reads properties.
PropertyOrders == {36, 501, 502, 503, 135, 136, 137, 143, 2, 554}
ThingModel == PropertyOrders \ {36}

Bounded(x, lo, hi) == IF x < lo THEN lo ELSE IF x > hi THEN hi ELSE x

\* Mutant: the lowest levels round to nothing.
PercentUnbounded(brightness) == (brightness * 100) \div 255

Percent(brightness) == Bounded((brightness * 100) \div 255, 1, 100)
Mired(kelvin) == 1000000 \div kelvin
MinKelvin == 2700
MaxKelvin == 6500
-----------------------------------------------------------------------------
(* Lights.  *)

OnOff(on) == IF on THEN "on" ELSE "off"

light_on(type) ==
    IF type \in PropertyOrders THEN SetProperty([onoff |-> "on"])
                               ELSE Command("on", 0, 255, 0, 0)

light_off(type) ==
    IF type \in PropertyOrders THEN SetProperty([onoff |-> "off"])
                               ELSE Command("off", 1, 0, 0, 0)

power_only_light(on) == Command(OnOff(on), IF on THEN 0 ELSE 1, 0, 0, 0)

light_brightness(type, brightness) ==
    LET b == Bounded(brightness, 0, 255)
    IN  CASE type \in {502, 503} -> SetProperty([brightness |-> Percent(b)])
          [] type = 38 -> Command("move to level", 0, b, 0, 0)
          [] OTHER -> Command("on", 0, b, 0, 0)

\* Mutant: the order carries kelvin.
light_colortemp_kelvin(type, kelvin, brightness) ==
    IF type = 503 THEN SetProperty([colorTemp |-> kelvin])
    ELSE Command("fast color temperature", 0, brightness, kelvin, 0)

light_colortemp(type, kelvin, brightness) ==
    LET k == Bounded(kelvin, MinKelvin, MaxKelvin)
    IN  IF type = 503 THEN SetProperty([colorTemp |-> k])
        ELSE Command("fast color temperature", 0, Bounded(brightness, 0, 255), Mired(k), 0)

\* The entity asks for it with both attributes, and only to switch on.
light_on_off(type, brightness, kelvin) ==
    LET b == Bounded(brightness, 0, 255)
        k == Bounded(kelvin, MinKelvin, MaxKelvin)
    IN  CASE type = 503 ->
               SetProperty([onoff |-> "on", brightness |-> Percent(b), colorTemp |-> k])
          [] type \in {502, 102} ->
               SetProperty([onoff |-> "on", brightness |-> Percent(b)])
          [] OTHER -> Command("on", 0, b, Mired(k), 0)

is_on(type, st) ==
    /\ st # None
    /\ IF type \in ThingModel
       THEN "onoff" \in DOMAIN st.props /\ st.props["onoff"] = "on"
       ELSE st.values[1] = 0

brightness_shown(type, st) ==
    IF ~is_on(type, st) THEN None
    ELSE IF type \notin ThingModel THEN Bounded(st.values[2], 0, 255)
    ELSE IF "brightness" \notin DOMAIN st.props THEN None
    ELSE (st.props["brightness"] * 255) \div 100

color_temp_kelvin(type, st) ==
    IF ~is_on(type, st) THEN None
    ELSE IF type = 503
    THEN IF "colorTemp" \in DOMAIN st.props THEN st.props["colorTemp"] ELSE None
    ELSE IF st.values[3] \in 150..400 THEN Mired(st.values[3]) ELSE None
-----------------------------------------------------------------------------
(* Air conditioners: mode, fan and temperature travel with every command,   *)
(* taken from the state shown, or from defaults where it has no valid one.  *)

High(v4) == v4 \div 65536
Low(v4) == v4 % 65536
InHigh(t) == t * 65536

DefaultMode == 3
DefaultFan == 1
DefaultTarget == 2500

ModeIn(st) == IF st = None \/ st.values[2] = 0 THEN DefaultMode ELSE st.values[2]
FanIn(st) == IF st = None \/ st.values[3] \notin 1..3 THEN DefaultFan ELSE st.values[3]
TargetIn(st) ==
    IF st = None \/ High(st.values[4]) <= 0 THEN DefaultTarget ELSE High(st.values[4])

ac_off == Command("off", 1, 0, 0, 0)

ac_on_with_mode(mode, st) == Command("on", 0, mode, FanIn(st), InHigh(TargetIn(st)))

\* Mutant: the fan falls back to its default.
ac_set_temp_alone(temp, st) ==
    Command("temperature setting", 0, ModeIn(st), DefaultFan, InHigh(temp * 100))

ac_set_temp(temp, st) ==
    Command("temperature setting", 0, ModeIn(st), FanIn(st), InHigh(temp * 100))

ac_wind(speed, st) == Command("wind setting", 0, ModeIn(st), speed, InHigh(TargetIn(st)))

ModeName == [code \in {2, 3, 4, 7} |->
    CASE code = 2 -> "dry" [] code = 3 -> "cool" [] code = 4 -> "heat" [] code = 7 -> "fan_only"]
ModeCode == [dry |-> 2, cool |-> 3, heat |-> 4, fan_only |-> 7]
FanName == <<"low", "medium", "high">>
FanCode == [auto |-> 1, low |-> 1, medium |-> 2, high |-> 3]

hvac_mode(st) ==
    IF st = None \/ st.values[1] # 0 THEN "off"
    ELSE IF st.values[2] \in DOMAIN ModeName THEN ModeName[st.values[2]] ELSE "cool"

target_temperature(st) == IF st = None THEN None ELSE High(st.values[4])
current_temperature(st) == IF st = None THEN None ELSE Low(st.values[4])

fan_mode(st) ==
    IF st = None THEN None
    ELSE IF st.values[3] \in 1..3 THEN FanName[st.values[3]] ELSE "auto"
-----------------------------------------------------------------------------
(* Ventilation and covers.  *)

ventilation_control(v1) == Command("set property", v1, 0, 0, 0)
fan_on == ventilation_control(100)
fan_off == ventilation_control(50)

fan_set_speed(percentage) ==
    LET p == Bounded(percentage, 0, 100)
    IN  ventilation_control(IF p = 0 THEN 50 ELSE IF p <= 50 THEN 0 ELSE 100)

fan_is_on(type, st) ==
    /\ st # None
    /\ IF type # 516 THEN st.values[2] > 0
       ELSE IF "onoff" \in DOMAIN st.props THEN st.props["onoff"] = "on"
       ELSE st.values[1] # 50

percentage_shown(type, st) ==
    IF st = None THEN None
    ELSE IF type # 516 THEN (st.values[2] * 100) \div 3
    ELSE IF "fanSpeed" \in DOMAIN st.props THEN st.props["fanSpeed"]
    ELSE CASE st.values[1] = 50 -> 0
           [] st.values[1] = 0 -> 33
           [] st.values[1] = 100 -> 100
           [] OTHER -> None

cover_open == Command("on", 100, 0, 0, 0)
cover_close == Command("off", 0, 0, 0, 0)
cover_stop == Command("stop", 0, 0, 0, 0)

cover_position(position) ==
    LET p == Bounded(position, 0, 100)
    IN  Command(IF p >= 50 THEN "on" ELSE "off", p, 0, 0, 0)

current_cover_position(st) == IF st = None THEN None ELSE Bounded(st.values[1], 0, 100)
is_closed(st) == st # None /\ current_cover_position(st) <= 5
=============================================================================
