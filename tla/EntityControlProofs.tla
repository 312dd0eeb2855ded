------------------------- MODULE EntityControlProofs -------------------------
(***************************************************************************)
(* Proofs about EntityControl, for any kinds of device, any number of       *)
(* service calls at once and any behaviour of devices and gateways: what a  *)
(* service call reports about its command is true, an entity shows what was *)
(* asked of its device last, and a command loses a setting it is not about  *)
(* only when it was built from a state that was no longer the device's.     *)
(*                                                                          *)
(* First come the numbers as they travel; then, for every kind of entity,   *)
(* what a device may be after a command that this entity built; then the    *)
(* invariants of the calls and of the device, and the theorems.             *)
(***************************************************************************)
EXTENDS EntityControl, TLAPS
-----------------------------------------------------------------------------
(* What the assumptions say of single values.  *)

LEMMA AskedValues ==
    /\ \A l \in Level : l \in Nat /\ 1 <= l /\ l <= 255
    /\ \A k \in Kelvin : k \in Nat /\ 2700 <= k /\ k <= 6000
    /\ \A t \in Temp : t \in Nat /\ 16 <= t /\ t <= 30
    /\ \A p \in Percentage \cup Position : p \in Nat /\ p <= 100
<1>1. ASSUME NEW l \in Level PROVE l \in Nat /\ 1 <= l /\ l <= 255
  BY ControlAssumption, SMT
<1>2. ASSUME NEW k \in Kelvin PROVE k \in Nat /\ 2700 <= k /\ k <= 6000
  BY ControlAssumption, SMT
<1>3. ASSUME NEW t \in Temp PROVE t \in Nat /\ 16 <= t /\ t <= 30
  BY ControlAssumption, SMT
<1>4. ASSUME NEW p \in Percentage \cup Position PROVE p \in Nat /\ p <= 100
  BY ControlAssumption, SMT
<1>5. QED
  BY <1>1, <1>2, <1>3, <1>4

LEMMA PropertyValues ==
    /\ \A b : b \in Brightness <=> b \in Nat /\ 1 <= b /\ b <= 100
    /\ \A k : k \in ColorTemp <=> k \in Nat /\ 2700 <= k /\ k <= 6500
<1>1. ASSUME NEW b PROVE b \in Brightness <=> b \in Nat /\ 1 <= b /\ b <= 100
  BY SMT DEF Brightness
<1>2. ASSUME NEW k PROVE k \in ColorTemp <=> k \in Nat /\ 2700 <= k /\ k <= 6500
  <2>1. MinKelvin \in Int /\ MaxKelvin \in Int
    BY SMT DEF MinKelvin, MaxKelvin
  <2>2. k \in ColorTemp <=> k \in Int /\ MinKelvin <= k /\ k <= MaxKelvin
    BY <2>1, SMT DEF ColorTemp
  <2>3. MinKelvin = 2700 /\ MaxKelvin = 6500
    BY SMT DEF MinKelvin, MaxKelvin
  <2>4. QED
    BY <2>2, <2>3, SMT
<1>3. QED
  BY <1>1, <1>2

-----------------------------------------------------------------------------
(* Numbers as they travel and as they are shown.  *)

\* Percent loses less than three of 255, and never switches off.
LEMMA PercentFacts ==
    ASSUME NEW b \in Nat, 1 <= b, b <= 255
    PROVE  /\ Percent(b) \in Nat /\ 1 <= Percent(b) /\ Percent(b) <= 100
           /\ ((Percent(b) * 255) \div 100) - b \in -3..3
BY SMT DEF Percent, Bounded

\* m is the quotient of a million and k.
MillionBy(k, m) == m \in Nat /\ m * k <= 1000000 /\ 1000000 < m * k + k

LEMMA MiredIsQuotient ==
    ASSUME NEW k \in Nat, 0 < k
    PROVE  MillionBy(k, Mired(k))
BY SMT DEF Mired, MillionBy

LEMMA ProductGrows ==
    ASSUME NEW a \in Nat, NEW b \in Nat, NEW c \in Nat, a <= b
    PROVE  a * c <= b * c
BY SMT

LEMMA ProductOfSum ==
    ASSUME NEW a \in Nat, NEW b \in Nat, NEW c \in Nat
    PROVE  (a + b) * c = a * c + b * c
BY SMT

\* Dividing a million by a colour, and then by the quotient.
LEMMA ThereAndBack ==
    ASSUME NEW k \in Nat, 2700 <= k, k <= 6000, NEW m, NEW q,
           MillionBy(k, m), MillionBy(m, q)
    PROVE  166 <= m /\ m <= 370 /\ k <= q /\ q <= k + 36
<1>1. /\ m \in Nat /\ m * k <= 1000000 /\ 1000000 < m * k + k
      /\ q \in Nat /\ q * m <= 1000000 /\ 1000000 < q * m + m
  BY SMT DEF MillionBy
<1>2. 166 <= m
  <2>1. SUFFICES ASSUME m <= 165 PROVE FALSE
    BY <1>1, SMT
  <2>2. m * k <= 165 * k
    BY <1>1, <2>1, ProductGrows, SMT
  <2>3. QED
    BY <1>1, <2>2, SMT
<1>3. m <= 370
  <2>1. SUFFICES ASSUME 371 <= m PROVE FALSE
    BY <1>1, SMT
  <2>2. 371 * k <= m * k
    BY <1>1, <2>1, ProductGrows, SMT
  <2>3. QED
    BY <1>1, <2>2, SMT
<1>4. k * m = m * k
  BY <1>1, SMT
<1>5. k <= q
  <2>1. SUFFICES ASSUME q + 1 <= k PROVE FALSE
    BY <1>1, SMT
  <2>2. (q + 1) * m <= k * m
    BY <1>1, <2>1, ProductGrows, SMT
  <2>3. (q + 1) * m = q * m + 1 * m
    BY <1>1, ProductOfSum, SMT
  <2>4. QED
    BY <1>1, <1>4, <2>2, <2>3, SMT
<1>6. q <= k + 36
  <2>1. SUFFICES ASSUME k + 37 <= q PROVE FALSE
    BY <1>1, SMT
  <2>2. (k + 37) * m <= q * m
    BY <1>1, <2>1, ProductGrows, SMT
  <2>3. (k + 37) * m = k * m + 37 * m
    BY <1>1, ProductOfSum, SMT
  <2>4. QED
    BY <1>1, <1>2, <1>4, <2>2, <2>3, SMT
<1>7. QED
  BY <1>2, <1>3, <1>5, <1>6

\* The colours a user can choose come back within 36 K.
LEMMA MiredFacts ==
    ASSUME NEW k \in Nat, 2700 <= k, k <= 6000
    PROVE  /\ Mired(k) \in 150..400
           /\ Mired(Mired(k)) \in Nat
           /\ Mired(Mired(k)) - k \in -36..36
<1> DEFINE m == Mired(k)
           q == Mired(m)
<1>1. 0 < k
  BY SMT
<1>2. MillionBy(k, m) /\ m \in Nat
  BY <1>1, MiredIsQuotient, SMT DEF MillionBy
<1>3. 0 < m
  <2>1. SUFFICES ASSUME m = 0 PROVE FALSE
    BY <1>2, SMT
  <2>2. QED
    BY <1>1, <1>2, <2>1, SMT DEF MillionBy
<1>4. MillionBy(m, q) /\ q \in Nat
  BY <1>2, <1>3, MiredIsQuotient, SMT DEF MillionBy
<1> HIDE DEF m, q
<1>5. 166 <= m /\ m <= 370 /\ k <= q /\ q <= k + 36
  BY <1>1, <1>2, <1>4, ThereAndBack, SMT
<1>6. /\ m \in 150..400
      /\ q - k \in -36..36
  BY <1>1, <1>2, <1>4, <1>5, SMT
<1>7. QED
  BY <1>4, <1>6 DEF m, q

\* The halves of value4.
LEMMA HalvesFacts ==
    ASSUME NEW t \in Nat, NEW v \in Nat
    PROVE  /\ InHigh(t) + Low(v) \in Nat
           /\ High(InHigh(t) + Low(v)) = t /\ High(InHigh(t)) = t
           /\ High(v) \in Nat
<1>1. PICK l \in Int : l = Low(v) /\ 0 <= l /\ l < 65536
  BY SMT DEF Low
<1>2. InHigh(t) = t * 65536 /\ t * 65536 \in Nat
  BY SMT DEF InHigh
<1>3. (t * 65536 + l) \div 65536 = t /\ (t * 65536) \div 65536 = t /\ t * 65536 + l \in Nat
  BY <1>1, SMT
<1>4. High(v) \in Nat
  BY SMT DEF High
<1>5. High(InHigh(t) + Low(v)) = (t * 65536 + l) \div 65536
  BY <1>1, <1>2, SMT DEF High
<1>6. High(InHigh(t)) = (t * 65536) \div 65536
  BY <1>2, SMT DEF High
<1>7. QED
  BY <1>1, <1>2, <1>3, <1>4, <1>5, <1>6, SMT
-----------------------------------------------------------------------------
(* Lights that have properties.  *)

PropertyKind(e) == e.platform = "light" /\ e.type \in ThingModel

\* A device has properties or numbers as its kind says.
Fits(e, s) == s \in State /\ s.props \in IF PropertyKind(e) THEN Properties ELSE {NoProps}

LEMMA LightKinds ==
    ASSUME NEW e, e.platform = "light", e.platform \in Platforms(e.type)
    PROVE  /\ e.type \in {0, 1, 38, 102, 501, 502, 503}
           /\ PropertyKind(e) <=> e.type \in {501, 502, 503}
BY DEF Platforms, PropertyKind, ThingModel, PropertyOrders

LEMMA LightRequestFacts ==
    ASSUME NEW mode, NEW r \in LightRequests(mode)
    PROVE  \/ r = turn_off /\ r.op = "turn_off"
           \/ /\ r.op = "turn_on"
              /\ r.level \in Level \cup {None} /\ r.kelvin \in Kelvin \cup {None}
              /\ mode = "onoff" => r.level = None
              /\ mode # "color_temp" => r.kelvin = None
BY DEF LightRequests, turn_on, turn_off

LEMMA OverriddenFacts ==
    ASSUME NEW own \in Properties, NEW g, DOMAIN g \subseteq {"onoff", "brightness", "colorTemp"},
           "onoff" \in DOMAIN g => g["onoff"] \in {"on", "off"},
           "brightness" \in DOMAIN g => g["brightness"] \in Brightness,
           "colorTemp" \in DOMAIN g => g["colorTemp"] \in ColorTemp
    PROVE  /\ Overridden(own, g) \in Properties
           /\ \A k \in {"onoff", "brightness", "colorTemp"} :
                Overridden(own, g)[k] = IF k \in DOMAIN g THEN g[k] ELSE own[k]
<1> DEFINE p == Overridden(own, g)
           Keys == {"onoff", "brightness", "colorTemp"}
<1>1. DOMAIN own = Keys
  BY SMT DEF Properties
<1>2. p = [k \in Keys |-> IF k \in DOMAIN g THEN g[k] ELSE own[k]]
  BY <1>1, SMT DEF Overridden
<1>3. \A k \in Keys : p[k] = IF k \in DOMAIN g THEN g[k] ELSE own[k]
  BY <1>2, SMT
<1>4. /\ own["onoff"] \in {"on", "off"} /\ own["brightness"] \in Brightness
      /\ own["colorTemp"] \in ColorTemp
  BY SMT DEF Properties
<1>5. p["onoff"] \in {"on", "off"} /\ p["brightness"] \in Brightness /\ p["colorTemp"] \in ColorTemp
  BY <1>3, <1>4, SMT
<1> HIDE DEF p
<1>6. p \in Properties
  <2>1. PICK f : f = p
    OBVIOUS
  <2>2. f = [k \in Keys |-> f[k]]
    BY <1>2, <2>1, SMT
  <2>3. f["onoff"] \in {"on", "off"} /\ f["brightness"] \in Brightness /\ f["colorTemp"] \in ColorTemp
    BY <1>5, <2>1, SMT
  <2>4. f = [onoff |-> f["onoff"], brightness |-> f["brightness"], colorTemp |-> f["colorTemp"]]
    BY <2>2, SMT
  <2>5. f \in Properties
    BY <2>3, <2>4, SMT DEF Properties
  <2>6. QED
    BY <2>1, <2>5
<1>7. QED
  BY <1>3, <1>6 DEF p

\* What a property light may be after a command.
LEMMA PropertyLightFacts ==
    ASSUME NEW s \in State, s.props \in Properties, NEW cmd, NEW g, cmd.props = g,
           DOMAIN g \subseteq {"onoff", "brightness", "colorTemp"},
           "onoff" \in DOMAIN g => g["onoff"] \in {"on", "off"},
           "brightness" \in DOMAIN g => g["brightness"] \in Brightness,
           "colorTemp" \in DOMAIN g => g["colorTemp"] \in ColorTemp,
           NEW t \in PropertyLight(s, cmd)
    PROVE  /\ t \in State /\ t.props \in Properties
           /\ "onoff" \in DOMAIN g => t.props["onoff"] = g["onoff"]
           /\ \A k \in {"brightness", "colorTemp"} :
                t.props[k] = IF k \in DOMAIN g THEN g[k] ELSE s.props[k]
<1> DEFINE p == Overridden(s.props, g)
<1>1. /\ p \in Properties
      /\ \A k \in {"onoff", "brightness", "colorTemp"} :
           p[k] = IF k \in DOMAIN g THEN g[k] ELSE s.props[k]
  BY OverriddenFacts
<1>2. PICK q : /\ t = [s EXCEPT !.props = q]
               /\ q = p \/ ("onoff" \notin DOMAIN g /\ q = [p EXCEPT !["onoff"] = "on"])
  BY DEF PropertyLight
<1> HIDE DEF p
<1>3. q \in Properties
  BY <1>1, <1>2, SMT DEF Properties
<1>4. /\ q["brightness"] = p["brightness"] /\ q["colorTemp"] = p["colorTemp"]
      /\ "onoff" \in DOMAIN g => q["onoff"] = p["onoff"]
  BY <1>1, <1>2, SMT DEF Properties
<1>5. t \in State /\ t.props = q
  BY <1>2, <1>3, SMT DEF State
<1>6. QED
  BY <1>1, <1>3, <1>4, <1>5

\* The properties that the builders write.
LEMMA SwitchBuilders ==
    ASSUME NEW type \in {501, 502, 503}
    PROVE  /\ light_on(type).props = [onoff |-> "on"]
           /\ light_off(type).props = [onoff |-> "off"]
BY DEF light_on, light_off, SetProperty, Command, PropertyOrders

LEMMA LevelBuilder ==
    ASSUME NEW type \in {502, 503}, NEW l \in Nat, 1 <= l, l <= 255
    PROVE  light_brightness(type, l).props = [brightness |-> Percent(l)]
<1>1. Bounded(l, 0, 255) = l
  BY SMT DEF Bounded
<1>2. QED
  BY <1>1, SMT DEF light_brightness, SetProperty, Command

LEMMA ColorBuilder ==
    ASSUME NEW k \in Nat, 2700 <= k, k <= 6000, NEW b
    PROVE  light_colortemp(503, k, b).props = [colorTemp |-> k]
<1>1. Bounded(k, MinKelvin, MaxKelvin) = k
  BY SMT DEF Bounded, MinKelvin, MaxKelvin
<1>2. QED
  BY <1>1, SMT DEF light_colortemp, SetProperty, Command

LEMMA LevelAndColorBuilder ==
    ASSUME NEW l \in Nat, 1 <= l, l <= 255, NEW k \in Nat, 2700 <= k, k <= 6000
    PROVE  light_on_off(503, l, k).props =
             [onoff |-> "on", brightness |-> Percent(l), colorTemp |-> k]
<1>1. Bounded(l, 0, 255) = l /\ Bounded(k, MinKelvin, MaxKelvin) = k
  BY SMT DEF Bounded, MinKelvin, MaxKelvin
<1>2. light_on_off(503, l, k) =
        SetProperty([onoff |-> "on", brightness |-> Percent(l), colorTemp |-> k])
  BY <1>1, SMT DEF light_on_off
<1>3. \A f : SetProperty(f).props = f
  BY DEF SetProperty, Command
<1>4. QED
  BY <1>2, <1>3

\* What is shown of a property light.
LEMMA PropertyViews ==
    ASSUME NEW type \in {501, 502, 503}, NEW st \in State, st.props \in Properties
    PROVE  /\ is_on(type, st) <=> st.props["onoff"] = "on"
           /\ is_on(type, st) =>
                /\ brightness_shown(type, st) = (st.props["brightness"] * 255) \div 100
                /\ brightness_shown(type, st) # None
           /\ is_on(type, st) /\ type = 503 =>
                /\ color_temp_kelvin(type, st) = st.props["colorTemp"]
                /\ color_temp_kelvin(type, st) # None
<1>1. st # None /\ type \in ThingModel
  BY StateAssumption DEF ThingModel, PropertyOrders
<1>2. /\ DOMAIN st.props = {"onoff", "brightness", "colorTemp"}
      /\ st.props["brightness"] \in Brightness /\ st.props["colorTemp"] \in ColorTemp
  BY SMT DEF Properties
<1>3. is_on(type, st) <=> st.props["onoff"] = "on"
  BY <1>1, <1>2 DEF is_on
<1>4. is_on(type, st) => brightness_shown(type, st) = (st.props["brightness"] * 255) \div 100
  BY <1>1, <1>2, SMT DEF brightness_shown
<1>5. (st.props["brightness"] * 255) \div 100 \in Nat
  BY <1>2, PropertyValues, SMT
<1>6. is_on(type, st) /\ type = 503 => color_temp_kelvin(type, st) = st.props["colorTemp"]
  BY <1>1, <1>2, SMT DEF color_temp_kelvin
<1>7. st.props["colorTemp"] \in Nat
  BY <1>2, PropertyValues
<1>8. QED
  BY <1>3, <1>4, <1>5, <1>6, <1>7, NoneAssumption

LEMMA PropertyLightShows ==
    ASSUME NEW e, PropertyKind(e), e.platform \in Platforms(e.type),
           NEW s, Fits(e, s), NEW b, NEW r \in Requests(e),
           NEW t \in Executed(e, s, Built(e, r, b))
    PROVE  /\ Fits(e, t) /\ LightShows(e, r, t)
           /\ r.op = "turn_on" /\ r.level = None /\ r.kelvin # None =>
                t.props["brightness"] = s.props["brightness"]
<1> DEFINE cmd == LightCommand(e, r, b)
<1>1. /\ e.platform = "light" /\ e.type \in ThingModel
      /\ e.type \in {501, 502, 503}
  BY LightKinds DEF PropertyKind
<1>2. /\ ~power_only(e.type, e.relay)
      /\ e.type = 501 => light_color_mode(e.type, e.relay) = "onoff"
      /\ e.type = 502 => light_color_mode(e.type, e.relay) = "brightness"
  BY <1>1 DEF power_only, light_color_mode
<1>3. r \in LightRequests(light_color_mode(e.type, e.relay))
  BY <1>1 DEF Requests
<1>4. t \in PropertyLight(s, cmd)
  BY <1>1 DEF Executed, Built
<1>5. s \in State /\ s.props \in Properties
  BY DEF Fits
<1> HIDE DEF cmd
<1>7. ASSUME t \in State, t.props \in Properties PROVE Fits(e, t)
  BY <1>7 DEF Fits
<1>a. ASSUME NEW g, cmd.props = g, DOMAIN g \subseteq {"onoff", "brightness", "colorTemp"},
             "onoff" \in DOMAIN g => g["onoff"] \in {"on", "off"},
             "brightness" \in DOMAIN g => g["brightness"] \in Brightness,
             "colorTemp" \in DOMAIN g => g["colorTemp"] \in ColorTemp
      PROVE  /\ t \in State /\ t.props \in Properties
             /\ "onoff" \in DOMAIN g => t.props["onoff"] = g["onoff"]
             /\ \A k \in {"brightness", "colorTemp"} :
                  t.props[k] = IF k \in DOMAIN g THEN g[k] ELSE s.props[k]
  BY <1>4, <1>5, <1>a, PropertyLightFacts
<1>8. CASE r = turn_off /\ r.op = "turn_off"
  <2>1. cmd = light_off(e.type)
    BY <1>2, <1>8 DEF LightCommand, cmd
  <2>2. cmd.props = [onoff |-> "off"]
    BY <1>1, <2>1, SwitchBuilders
  <2>3. t \in State /\ t.props \in Properties /\ t.props["onoff"] = "off"
    BY <1>a, <2>2, SMT
  <2>4. ~is_on(e.type, t)
    BY <1>1, <2>3, PropertyViews
  <2>5. QED
    BY <1>7, <1>8, <2>3, <2>4 DEF LightShows
<1>9. CASE /\ r.op = "turn_on"
           /\ r.level \in Level \cup {None} /\ r.kelvin \in Kelvin \cup {None}
           /\ light_color_mode(e.type, e.relay) = "onoff" => r.level = None
           /\ light_color_mode(e.type, e.relay) # "color_temp" => r.kelvin = None
  <2>1. /\ e.type = 501 => r.level = None /\ r.kelvin = None
        /\ e.type = 502 => r.kelvin = None
    BY <1>2, <1>9
  <2>2. \A l \in Level : /\ l \in Nat /\ 1 <= l /\ l <= 255 /\ Percent(l) \in Brightness
                         /\ ((Percent(l) * 255) \div 100) - l \in -3..3
    BY AskedValues, PropertyValues, PercentFacts
  <2>3. \A k \in Kelvin : k \in Nat /\ 2700 <= k /\ k <= 6000 /\ k \in ColorTemp
    <3>1. ASSUME NEW k \in Kelvin PROVE k \in Nat /\ 2700 <= k /\ k <= 6000 /\ k <= 6500
      BY AskedValues, SMT
    <3>2. QED
      BY <3>1, PropertyValues
  <2>4. CASE r.level = None /\ r.kelvin = None
    <3>1. cmd = light_on(e.type)
      BY <1>2, <1>9, <2>4 DEF LightCommand, cmd
    <3>2. cmd.props = [onoff |-> "on"]
      BY <1>1, <3>1, SwitchBuilders
    <3>3. t \in State /\ t.props \in Properties /\ t.props["onoff"] = "on"
      BY <1>a, <3>2, SMT
    <3>4. is_on(e.type, t)
      BY <1>1, <3>3, PropertyViews
    <3>5. QED
      BY <1>1, <1>7, <1>9, <2>4, <3>3, <3>4 DEF LightShows
  <2>5. CASE r.level # None /\ r.kelvin = None
    <3>1. cmd = light_brightness(e.type, r.level) /\ r.level \in Level /\ e.type \in {502, 503}
      BY <1>1, <1>2, <1>9, <2>1, <2>5 DEF LightCommand, cmd
    <3>2. cmd.props = [brightness |-> Percent(r.level)]
      BY <2>2, <3>1, LevelBuilder
    <3>3. t \in State /\ t.props \in Properties /\ t.props["brightness"] = Percent(r.level)
      BY <1>a, <2>2, <3>1, <3>2, SMT
    <3>4. is_on(e.type, t) =>
            Near(brightness_shown(e.type, t), r.level, 3)
      <4>1. is_on(e.type, t) =>
              /\ brightness_shown(e.type, t) = (Percent(r.level) * 255) \div 100
              /\ brightness_shown(e.type, t) # None
        BY <1>1, <3>3, PropertyViews
      <4>2. ((Percent(r.level) * 255) \div 100) - r.level \in -3..3
        BY <2>2, <3>1
      <4>3. QED
        BY <4>1, <4>2 DEF Near
    <3>5. QED
      BY <1>1, <1>7, <1>9, <2>5, <3>3, <3>4 DEF LightShows
  <2>6. CASE r.level = None /\ r.kelvin # None
    <3>1. /\ cmd = light_colortemp(e.type, r.kelvin, KeptBrightness(e.type, b))
          /\ r.kelvin \in Kelvin /\ e.type = 503
      BY <1>1, <1>2, <1>9, <2>1, <2>6 DEF LightCommand, cmd
    <3>2. cmd.props = [colorTemp |-> r.kelvin]
      <4>1. r.kelvin \in Nat /\ 2700 <= r.kelvin /\ r.kelvin <= 6000
        BY <2>3, <3>1
      <4>2. light_colortemp(503, r.kelvin, KeptBrightness(e.type, b)).props
              = [colorTemp |-> r.kelvin]
        BY <4>1, ColorBuilder
      <4>3. QED
        BY <3>1, <4>2
    <3>3. /\ t \in State /\ t.props \in Properties /\ t.props["colorTemp"] = r.kelvin
          /\ t.props["brightness"] = s.props["brightness"]
      BY <1>a, <2>3, <3>1, <3>2, SMT
    <3>4. is_on(e.type, t) =>
            Near(color_temp_kelvin(e.type, t), r.kelvin, 0)
      <4>1. is_on(e.type, t) =>
              /\ color_temp_kelvin(e.type, t) = r.kelvin
              /\ color_temp_kelvin(e.type, t) # None
        BY <1>1, <3>1, <3>3, PropertyViews
      <4>2. r.kelvin - r.kelvin \in -0..0
        BY <2>3, <3>1, SMT
      <4>3. QED
        BY <4>1, <4>2 DEF Near
    <3>5. QED
      BY <1>1, <1>7, <1>9, <2>6, <3>3, <3>4 DEF LightShows
  <2>7. CASE r.level # None /\ r.kelvin # None
    <3>1. /\ cmd = light_on_off(e.type, r.level, r.kelvin)
          /\ r.level \in Level /\ r.kelvin \in Kelvin /\ e.type = 503
      BY <1>1, <1>2, <1>9, <2>1, <2>7 DEF LightCommand, cmd
    <3>2. cmd.props = [onoff |-> "on", brightness |-> Percent(r.level), colorTemp |-> r.kelvin]
      <4>1. r.level \in Nat /\ 1 <= r.level /\ r.level <= 255
        BY <2>2, <3>1
      <4>2. r.kelvin \in Nat /\ 2700 <= r.kelvin /\ r.kelvin <= 6000
        BY <2>3, <3>1
      <4>3. light_on_off(503, r.level, r.kelvin).props
              = [onoff |-> "on", brightness |-> Percent(r.level), colorTemp |-> r.kelvin]
        BY <4>1, <4>2, LevelAndColorBuilder
      <4>4. QED
        BY <3>1, <4>3
    <3>3. /\ t \in State /\ t.props \in Properties /\ t.props["onoff"] = "on"
          /\ t.props["brightness"] = Percent(r.level) /\ t.props["colorTemp"] = r.kelvin
      BY <1>a, <2>2, <2>3, <3>1, <3>2
    <3>4. is_on(e.type, t)
      BY <1>1, <3>3, PropertyViews
    <3>5. /\ Near(brightness_shown(e.type, t), r.level, 3)
          /\ Near(color_temp_kelvin(e.type, t), r.kelvin, 0)
      <4>1. /\ brightness_shown(e.type, t) = (Percent(r.level) * 255) \div 100
            /\ brightness_shown(e.type, t) # None
            /\ color_temp_kelvin(e.type, t) = r.kelvin
            /\ color_temp_kelvin(e.type, t) # None
        BY <1>1, <3>1, <3>3, <3>4, PropertyViews
      <4>2. /\ ((Percent(r.level) * 255) \div 100) - r.level \in -3..3
            /\ r.kelvin - r.kelvin \in -0..0
        BY <2>2, <2>3, <3>1, SMT
      <4>3. QED
        BY <4>1, <4>2 DEF Near
    <3>6. QED
      BY <1>1, <1>7, <1>9, <2>7, <3>3, <3>4, <3>5 DEF LightShows
  <2>8. QED
    BY <2>4, <2>5, <2>6, <2>7
<1>10. QED
  BY <1>3, <1>8, <1>9, LightRequestFacts
-----------------------------------------------------------------------------
(* Lights, air conditioners, fans and covers that have numbers.  *)

\* A device with other numbers.
LEMMA WithValues ==
    ASSUME NEW s \in State, NEW a \in Nat, NEW b \in Nat, NEW c \in Nat, NEW d \in Nat,
           NEW t, t = [s EXCEPT !.values = <<a, b, c, d>>]
    PROVE  /\ t \in State /\ t.props = s.props
           /\ t.values[1] = a /\ t.values[2] = b /\ t.values[3] = c /\ t.values[4] = d
<1>1. <<a, b, c, d>> \in [1..4 -> Nat]
  OBVIOUS
<1>2. QED
  BY <1>1 DEF State

LEMMA StateValues ==
    ASSUME NEW s \in State
    PROVE  /\ s # None
           /\ s.values[1] \in Nat /\ s.values[2] \in Nat /\ s.values[3] \in Nat /\ s.values[4] \in Nat
BY StateAssumption DEF State

LEMMA TakenFacts ==
    ASSUME NEW given \in Nat, NEW own \in Nat, NEW x \in Taken(given, own)
    PROVE  /\ x \in Nat
           /\ given # 0 => x = given
           /\ given = 0 => x \in {0, own}
BY DEF Taken

LEMMA NumberLightFacts ==
    ASSUME NEW s \in State, NEW cmd, NEW t \in NumberLight(s, cmd),
           cmd.values[1] \in Nat, cmd.values[2] \in Nat, cmd.values[3] \in Nat
    PROVE  /\ t \in State /\ t.props = s.props
           /\ t.values[1] = cmd.values[1]
           /\ t.values[2] \in Taken(cmd.values[2], s.values[2])
           /\ t.values[3] \in Taken(cmd.values[3], s.values[3])
<1>1. PICK b \in Taken(cmd.values[2], s.values[2]), m \in Taken(cmd.values[3], s.values[3]) :
         t = [s EXCEPT !.values = <<cmd.values[1], b, m, s.values[4]>>]
  BY DEF NumberLight
<1>2. b \in Nat /\ m \in Nat /\ s.values[4] \in Nat
  BY StateValues, TakenFacts
<1>3. QED
  BY <1>1, <1>2, WithValues

\* A light that is lit has a brightness.  A relay has none.
Lit(e, s) ==
    e.platform = "light" /\ e.type \notin ThingModel /\ ~power_only(e.type, e.relay)
        /\ s.values[1] = 0 => s.values[2] # 0

\* What is shown of a light with numbers.
LEMMA NumberViews ==
    ASSUME NEW type, type \notin ThingModel, NEW st \in State
    PROVE  /\ is_on(type, st) <=> st.values[1] = 0
           /\ is_on(type, st) => brightness_shown(type, st) = Bounded(st.values[2], 0, 255)
           /\ is_on(type, st) /\ st.values[3] \in 150..400 =>
                color_temp_kelvin(type, st) = Mired(st.values[3])
<1>1. is_on(type, st) <=> st.values[1] = 0
  BY StateValues DEF is_on
<1>2. type # 503
  BY DEF ThingModel, PropertyOrders
<1>3. QED
  BY <1>1, <1>2 DEF brightness_shown, color_temp_kelvin

LEMMA KeptFacts ==
    ASSUME NEW type, type \notin ThingModel, NEW st \in State \cup {None}
    PROVE  /\ KeptBrightness(type, st) \in Nat
           /\ 1 <= KeptBrightness(type, st) /\ KeptBrightness(type, st) <= 255
           /\ st # None /\ is_on(type, st) /\ st.values[2] # 0 =>
                KeptBrightness(type, st) = Bounded(st.values[2], 0, 255)
<1>1. CASE ~is_on(type, st)
  <2>1. brightness_shown(type, st) = None
    BY <1>1 DEF brightness_shown
  <2>2. KeptBrightness(type, st) = 255
    BY <2>1 DEF KeptBrightness
  <2>3. QED
    BY <1>1, <2>2, SMT
<1>2. CASE is_on(type, st)
  <2>1. st \in State
    BY <1>2 DEF is_on
  <2>2. brightness_shown(type, st) = Bounded(st.values[2], 0, 255)
    BY <1>2, <2>1, NumberViews
  <2>3. st.values[2] \in Nat
    BY <2>1, StateValues
  <2>4. PICK v \in Nat : v = st.values[2]
    BY <2>3
  <2>5. /\ Bounded(v, 0, 255) \in Nat /\ Bounded(v, 0, 255) <= 255
        /\ v # 0 => Bounded(v, 0, 255) # 0
    BY SMT DEF Bounded
  <2>6. Bounded(v, 0, 255) # None
    BY <2>5, NoneAssumption
  <2>7. KeptBrightness(type, st) = IF Bounded(v, 0, 255) = 0 THEN 255 ELSE Bounded(v, 0, 255)
    BY <2>2, <2>4, <2>6 DEF KeptBrightness
  <2>8. QED
    BY <2>4, <2>5, <2>7, SMT
<1>3. QED
  BY <1>1, <1>2

\* The orders of these commands do not matter to a light.
LEMMA NumberBuilders ==
    ASSUME NEW type, type \notin ThingModel, NEW l, NEW k
    PROVE  /\ \E order :
                light_brightness(type, l) = Command(order, 0, Bounded(l, 0, 255), 0, 0)
           /\ \E order :
                light_colortemp(type, k, l) =
                  Command(order, 0, Bounded(l, 0, 255),
                          Mired(Bounded(k, MinKelvin, MaxKelvin)), 0)
<1>1. type \notin {502, 503} /\ type # 503
  BY DEF ThingModel, PropertyOrders
<1>2. \/ light_brightness(type, l) = Command("move to level", 0, Bounded(l, 0, 255), 0, 0)
      \/ light_brightness(type, l) = Command("on", 0, Bounded(l, 0, 255), 0, 0)
  BY <1>1, SMT DEF light_brightness
<1>3. light_colortemp(type, k, l) =
        Command("fast color temperature", 0, Bounded(l, 0, 255),
                Mired(Bounded(k, MinKelvin, MaxKelvin)), 0)
  BY <1>1, SMT DEF light_colortemp
<1>4. \E order : light_brightness(type, l) = Command(order, 0, Bounded(l, 0, 255), 0, 0)
  BY <1>2, Zenon
<1>5. QED
  BY <1>3, <1>4, Zenon

LEMMA LevelCommand ==
    ASSUME NEW type, type \notin ThingModel, NEW l \in Nat, 1 <= l, l <= 255,
           NEW cmd, cmd = light_brightness(type, l)
    PROVE  cmd.values[1] = 0 /\ cmd.values[2] = l /\ cmd.values[3] = 0
<1>1. Bounded(l, 0, 255) = l
  BY SMT DEF Bounded
<1>2. PICK order : cmd = Command(order, 0, Bounded(l, 0, 255), 0, 0)
  BY NumberBuilders
<1>3. QED
  BY <1>1, <1>2 DEF Command

LEMMA ColorCommand ==
    ASSUME NEW type, type \notin ThingModel, NEW k \in Nat, 2700 <= k, k <= 6000,
           NEW l \in Nat, 1 <= l, l <= 255, NEW cmd, cmd = light_colortemp(type, k, l)
    PROVE  cmd.values[1] = 0 /\ cmd.values[2] = l /\ cmd.values[3] = Mired(k)
<1>1. Bounded(l, 0, 255) = l /\ Bounded(k, MinKelvin, MaxKelvin) = k
  BY SMT DEF Bounded, MinKelvin, MaxKelvin
<1>2. PICK order : cmd = Command(order, 0, Bounded(l, 0, 255),
                                 Mired(Bounded(k, MinKelvin, MaxKelvin)), 0)
  BY NumberBuilders
<1>3. QED
  BY <1>1, <1>2 DEF Command

LEMMA LevelAndColorCommand ==
    ASSUME NEW type \in {1, 38}, NEW k \in Nat, 2700 <= k, k <= 6000,
           NEW l \in Nat, 1 <= l, l <= 255, NEW cmd, cmd = light_on_off(type, l, k)
    PROVE  cmd.values[1] = 0 /\ cmd.values[2] = l /\ cmd.values[3] = Mired(k)
<1>1. Bounded(l, 0, 255) = l /\ Bounded(k, MinKelvin, MaxKelvin) = k
  BY SMT DEF Bounded, MinKelvin, MaxKelvin
<1>2. cmd = Command("on", 0, l, Mired(k), 0)
  BY <1>1 DEF light_on_off
<1>3. QED
  BY <1>2 DEF Command

LEMMA SwitchCommands ==
    ASSUME NEW type \in {0, 1, 38, 102}
    PROVE  /\ light_on(type) = Command("on", 0, 255, 0, 0)
           /\ light_off(type) = Command("off", 1, 0, 0, 0)
BY DEF light_on, light_off, PropertyOrders

LEMMA PowerCommands ==
    /\ power_only_light(TRUE) = Command("on", 0, 0, 0, 0)
    /\ power_only_light(FALSE) = Command("off", 1, 0, 0, 0)
BY DEF power_only_light, OnOff

\* A number light after a command: lit or not, with a level and a colour.
LEMMA NumberLightOn ==
    ASSUME NEW e, e.platform = "light", e.type \notin ThingModel,
           NEW s \in State, Lit(e, s), NEW cmd, NEW t \in NumberLight(s, cmd),
           cmd.values[1] = 0, NEW l \in Nat, cmd.values[2] = l, l <= 255,
           NEW m \in Nat, cmd.values[3] = m,
           power_only(e.type, e.relay) \/ l # 0
    PROVE  /\ t \in State /\ t.props = s.props /\ Lit(e, t) /\ is_on(e.type, t)
           /\ l # 0 => brightness_shown(e.type, t) = l /\ brightness_shown(e.type, t) # None
           /\ m \in 150..400 => color_temp_kelvin(e.type, t) = Mired(m)
<1>1. /\ t \in State /\ t.props = s.props /\ t.values[1] = 0
      /\ t.values[2] \in Taken(l, s.values[2]) /\ t.values[3] \in Taken(m, s.values[3])
  <2>1. cmd.values[1] \in Nat /\ cmd.values[2] \in Nat /\ cmd.values[3] \in Nat
    OBVIOUS
  <2>2. QED
    BY <2>1, NumberLightFacts
<1>2. s.values[2] \in Nat /\ s.values[3] \in Nat /\ t.values[2] \in Nat /\ t.values[3] \in Nat
  BY <1>1, StateValues
<1>3. /\ l # 0 => t.values[2] = l
      /\ m # 0 => t.values[3] = m
  BY <1>1, <1>2, TakenFacts
<1>4. is_on(e.type, t)
  BY <1>1, NumberViews
<1>5. Lit(e, t)
  BY <1>3 DEF Lit
<1>6. ASSUME l # 0
      PROVE  brightness_shown(e.type, t) = l /\ brightness_shown(e.type, t) # None
  <2>1. brightness_shown(e.type, t) = Bounded(t.values[2], 0, 255)
    BY <1>1, <1>4, NumberViews
  <2>2. Bounded(l, 0, 255) = l
    BY SMT DEF Bounded
  <2>3. QED
    BY <1>3, <1>6, <2>1, <2>2, NoneAssumption
<1>7. ASSUME m \in 150..400
      PROVE  color_temp_kelvin(e.type, t) = Mired(m)
  <2>1. m # 0
    BY <1>7
  <2>2. t.values[3] \in 150..400
    BY <1>3, <1>7, <2>1
  <2>3. color_temp_kelvin(e.type, t) = Mired(t.values[3])
    BY <1>1, <1>4, <2>2, NumberViews
  <2>4. QED
    BY <1>3, <2>1, <2>3
<1>8. QED
  BY <1>1, <1>4, <1>5, <1>6, <1>7

LEMMA NumberLightOff ==
    ASSUME NEW e, e.platform = "light", e.type \notin ThingModel,
           NEW s \in State, NEW cmd, NEW t \in NumberLight(s, cmd),
           cmd.values[1] = 1, cmd.values[2] = 0, cmd.values[3] = 0
    PROVE  t \in State /\ t.props = s.props /\ Lit(e, t) /\ ~is_on(e.type, t)
<1>1. t \in State /\ t.props = s.props /\ t.values[1] = 1
  BY NumberLightFacts
<1>2. ~is_on(e.type, t)
  BY <1>1, NumberViews
<1>3. QED
  BY <1>1, <1>2 DEF Lit

LEMMA NearExact ==
    ASSUME NEW x \in Nat
    PROVE  Near(x, x, 0)
<1>1. x # None /\ x - x \in -0..0
  BY NoneAssumption
<1>2. QED
  BY <1>1 DEF Near

LEMMA NumberLightShows ==
    ASSUME NEW e, e.platform = "light", ~PropertyKind(e), e.platform \in Platforms(e.type),
           NEW s, Fits(e, s), Lit(e, s), NEW b \in State \cup {None}, NEW r \in Requests(e),
           NEW t \in Executed(e, s, Built(e, r, b))
    PROVE  /\ Fits(e, t) /\ Lit(e, t) /\ LightShows(e, r, t)
           /\ b = s /\ r.op = "turn_on" /\ r.level = None /\ r.kelvin # None
              /\ is_on(e.type, s) =>
                brightness_shown(e.type, t) = brightness_shown(e.type, s)
<1> DEFINE cmd == LightCommand(e, r, b)
           mode == light_color_mode(e.type, e.relay)
<1>1. e.type \notin ThingModel /\ e.type \in {0, 1, 38, 102}
  BY LightKinds DEF PropertyKind
<1>2. /\ power_only(e.type, e.relay) \/ e.type = 102 => mode = "onoff"
      /\ e.type = 0 => mode = "brightness"
  BY <1>1 DEF power_only, light_color_mode
<1>3. r \in LightRequests(mode)
  BY DEF Requests
<1>4. t \in NumberLight(s, cmd)
  BY <1>1 DEF Executed, Built
<1>5. s \in State /\ s.props = NoProps
  BY DEF Fits
<1>6. ASSUME t \in State, t.props = s.props PROVE Fits(e, t)
  BY <1>5, <1>6 DEF Fits
<1> HIDE DEF cmd
<1>7. CASE r = turn_off /\ r.op = "turn_off"
  <2>1. cmd.values[1] = 1 /\ cmd.values[2] = 0 /\ cmd.values[3] = 0
    <3>1. CASE power_only(e.type, e.relay)
      <4>1. cmd = Command("off", 1, 0, 0, 0)
        BY <1>7, <3>1, PowerCommands DEF LightCommand, cmd
      <4>2. QED
        BY <4>1 DEF Command
    <3>2. CASE ~power_only(e.type, e.relay)
      <4>1. cmd = Command("off", 1, 0, 0, 0)
        BY <1>1, <1>7, <3>2, SwitchCommands DEF LightCommand, cmd
      <4>2. QED
        BY <4>1 DEF Command
    <3>3. QED
      BY <3>1, <3>2
  <2>2. t \in State /\ t.props = s.props /\ Lit(e, t) /\ ~is_on(e.type, t)
    BY <1>1, <1>4, <1>5, <2>1, NumberLightOff
  <2>3. QED
    BY <1>6, <1>7, <2>2 DEF LightShows
<1>8. CASE /\ r.op = "turn_on"
           /\ r.level \in Level \cup {None} /\ r.kelvin \in Kelvin \cup {None}
           /\ mode = "onoff" => r.level = None
           /\ mode # "color_temp" => r.kelvin = None
  <2>1. mode # "onoff" \/ (r.level = None /\ r.kelvin = None)
    BY <1>8
  <2>2. /\ r.level # None => r.level \in Nat /\ 1 <= r.level /\ r.level <= 255
        /\ r.kelvin # None => r.kelvin \in Nat /\ 2700 <= r.kelvin /\ r.kelvin <= 6000
    BY <1>8, AskedValues, SMT
  <2>3. r.kelvin # None => /\ Mired(r.kelvin) \in Nat /\ Mired(r.kelvin) \in 150..400
                           /\ Near(Mired(Mired(r.kelvin)), r.kelvin, 36)
    <3>1. SUFFICES ASSUME r.kelvin # None
                   PROVE  /\ Mired(r.kelvin) \in Nat /\ Mired(r.kelvin) \in 150..400
                          /\ Near(Mired(Mired(r.kelvin)), r.kelvin, 36)
      OBVIOUS
    <3>2. r.kelvin \in Nat /\ 2700 <= r.kelvin /\ r.kelvin <= 6000
      BY <2>2, <3>1
    <3>3. /\ Mired(r.kelvin) \in 150..400 /\ Mired(Mired(r.kelvin)) \in Nat
          /\ Mired(Mired(r.kelvin)) - r.kelvin \in -36..36
      BY <3>2, MiredFacts
    <3>4. Mired(Mired(r.kelvin)) # None
      BY <3>3, NoneAssumption
    <3>5. Near(Mired(Mired(r.kelvin)), r.kelvin, 36)
      BY <3>3, <3>4 DEF Near
    <3>6. Mired(r.kelvin) \in Nat
      BY <3>3, SMT
    <3>7. QED
      BY <3>3, <3>5, <3>6
  <2>4. CASE power_only(e.type, e.relay)
    <3>1. cmd = Command("on", 0, 0, 0, 0)
      BY <1>8, <2>4, PowerCommands DEF LightCommand, cmd
    <3>2. cmd.values[1] = 0 /\ cmd.values[2] = 0 /\ cmd.values[3] = 0
      BY <3>1 DEF Command
    <3>3. 0 \in Nat /\ 0 <= 255
      BY SMT
    <3>4. t \in State /\ t.props = s.props /\ Lit(e, t) /\ is_on(e.type, t)
      BY <1>1, <1>4, <1>5, <2>4, <3>2, <3>3, NumberLightOn
    <3>5. r.level = None /\ r.kelvin = None
      BY <1>2, <2>1, <2>4
    <3>6. QED
      BY <1>6, <1>8, <3>4, <3>5 DEF LightShows
  <2>5. CASE ~power_only(e.type, e.relay) /\ r.level = None /\ r.kelvin = None
    <3>1. cmd = Command("on", 0, 255, 0, 0)
      BY <1>1, <1>8, <2>5, SwitchCommands DEF LightCommand, cmd
    <3>2. cmd.values[1] = 0 /\ cmd.values[2] = 255 /\ cmd.values[3] = 0
      BY <3>1 DEF Command
    <3>3. 0 \in Nat /\ 255 \in Nat /\ 255 <= 255 /\ 255 # 0
      BY SMT
    <3>4. t \in State /\ t.props = s.props /\ Lit(e, t) /\ is_on(e.type, t)
      BY <1>1, <1>4, <1>5, <3>2, <3>3, NumberLightOn
    <3>5. QED
      BY <1>6, <1>8, <2>5, <3>4 DEF LightShows
  <2>6. CASE ~power_only(e.type, e.relay) /\ r.level # None /\ r.kelvin = None
    <3>1. cmd = light_brightness(e.type, r.level)
      BY <1>8, <2>6 DEF LightCommand, cmd
    <3>2. r.level \in Nat /\ 1 <= r.level /\ r.level <= 255 /\ 0 \in Nat /\ r.level # 0
      BY <2>2, <2>6
    <3>3. cmd.values[1] = 0 /\ cmd.values[2] = r.level /\ cmd.values[3] = 0
      BY <1>1, <3>1, <3>2, LevelCommand
    <3>4. /\ t \in State /\ t.props = s.props /\ Lit(e, t) /\ is_on(e.type, t)
          /\ brightness_shown(e.type, t) = r.level
      BY <1>1, <1>4, <1>5, <3>2, <3>3, NumberLightOn
    <3>5. Near(brightness_shown(e.type, t), r.level, 0)
      BY <3>2, <3>4, NearExact
    <3>6. QED
      BY <1>1, <1>6, <1>8, <2>6, <3>4, <3>5 DEF LightShows
  <2>7. CASE ~power_only(e.type, e.relay) /\ r.level = None /\ r.kelvin # None
    <3> DEFINE l == KeptBrightness(e.type, b)
    <3>1. cmd = light_colortemp(e.type, r.kelvin, l)
      BY <1>8, <2>7 DEF LightCommand, cmd
    <3>2. /\ l \in Nat /\ 1 <= l /\ l <= 255
          /\ b # None /\ is_on(e.type, b) /\ b.values[2] # 0 => l = Bounded(b.values[2], 0, 255)
      BY <1>1, KeptFacts
    <3> HIDE DEF l
    <3>3. l # 0
      BY <3>2
    <3>4. r.kelvin \in Nat /\ 2700 <= r.kelvin /\ r.kelvin <= 6000
      BY <2>2, <2>7
    <3>5. cmd.values[1] = 0 /\ cmd.values[2] = l /\ cmd.values[3] = Mired(r.kelvin)
      BY <1>1, <3>1, <3>2, <3>4, ColorCommand
    <3>6. /\ t \in State /\ t.props = s.props /\ Lit(e, t) /\ is_on(e.type, t)
          /\ brightness_shown(e.type, t) = l
          /\ color_temp_kelvin(e.type, t) = Mired(Mired(r.kelvin))
      <4>1. Mired(r.kelvin) \in Nat /\ Mired(r.kelvin) \in 150..400
        BY <2>3, <2>7
      <4>2. QED
        BY <1>1, <1>4, <1>5, <3>2, <3>3, <3>5, <4>1, NumberLightOn, SMTT(30)
    <3>7. Near(color_temp_kelvin(e.type, t), r.kelvin, 36)
      BY <2>3, <2>7, <3>6
    <3>8. LightShows(e, r, t)
      BY <1>1, <1>8, <2>7, <3>6, <3>7 DEF LightShows
    <3>9. ASSUME b = s, is_on(e.type, s)
          PROVE  brightness_shown(e.type, t) = brightness_shown(e.type, s)
      <4>1. s.values[1] = 0 /\ brightness_shown(e.type, s) = Bounded(s.values[2], 0, 255)
        BY <1>1, <1>5, <3>9, NumberViews
      <4>2. s.values[2] # 0
        BY <1>1, <2>7, <4>1 DEF Lit
      <4>3. s # None
        BY <1>5, StateValues
      <4>4. QED
        BY <3>2, <3>6, <3>9, <4>1, <4>2, <4>3
    <3>10. QED
      BY <1>6, <3>6, <3>8, <3>9
  <2>8. CASE ~power_only(e.type, e.relay) /\ r.level # None /\ r.kelvin # None
    <3>1. cmd = light_on_off(e.type, r.level, r.kelvin) /\ e.type \in {1, 38}
      BY <1>1, <1>2, <1>8, <2>8 DEF LightCommand, cmd
    <3>2. r.level \in Nat /\ 1 <= r.level /\ r.level <= 255 /\ r.level # 0
      BY <2>2, <2>8
    <3>3. r.kelvin \in Nat /\ 2700 <= r.kelvin /\ r.kelvin <= 6000
      BY <2>2, <2>8
    <3>4. cmd.values[1] = 0 /\ cmd.values[2] = r.level /\ cmd.values[3] = Mired(r.kelvin)
      BY <3>1, <3>2, <3>3, LevelAndColorCommand
    <3>5. /\ t \in State /\ t.props = s.props /\ Lit(e, t) /\ is_on(e.type, t)
          /\ brightness_shown(e.type, t) = r.level
          /\ color_temp_kelvin(e.type, t) = Mired(Mired(r.kelvin))
      <4>1. Mired(r.kelvin) \in Nat /\ Mired(r.kelvin) \in 150..400
        BY <2>3, <2>8
      <4>2. r.level \in Nat /\ r.level <= 255 /\ r.level # 0
        BY <3>2
      <4>3. QED
        BY <1>1, <1>4, <1>5, <3>4, <4>1, <4>2, NumberLightOn, SMTT(30)
    <3>6. /\ Near(color_temp_kelvin(e.type, t), r.kelvin, 36)
          /\ Near(brightness_shown(e.type, t), r.level, 0)
      BY <2>3, <2>8, <3>2, <3>5, NearExact
    <3>7. QED
      BY <1>1, <1>6, <1>8, <2>8, <3>5, <3>6 DEF LightShows
  <2>9. QED
    BY <2>4, <2>5, <2>6, <2>7, <2>8
<1>9. QED
  BY <1>3, <1>7, <1>8, LightRequestFacts
-----------------------------------------------------------------------------
(* Air conditioners.  *)

\* An air conditioner that is told all three settings has them.
LEMMA AirConditionerFacts ==
    ASSUME NEW s \in State, NEW order, NEW p \in {0, 1},
           NEW m \in Nat, NEW f \in Nat, NEW h \in Nat,
           NEW t \in AirConditioner(s, Command(order, p, m, f, InHigh(h)))
    PROVE  /\ t \in State /\ t.props = s.props
           /\ order \in {"on", "off"} => t.values[1] = p
           /\ m # 0 => t.values[2] = m
           /\ f # 0 => t.values[3] = f
           /\ h # 0 => High(t.values[4]) = h
<1> DEFINE cmd == Command(order, p, m, f, InHigh(h))
<1>1. /\ cmd.order = order /\ cmd.values[1] = p /\ cmd.values[2] = m /\ cmd.values[3] = f
      /\ cmd.values[4] = InHigh(h)
  BY DEF Command
<1> HIDE DEF cmd
<1>2. /\ s.values[1] \in Nat /\ s.values[2] \in Nat /\ s.values[3] \in Nat /\ s.values[4] \in Nat
  BY StateValues
<1>3. High(InHigh(h)) = h /\ High(s.values[4]) \in Nat
  BY <1>2, HalvesFacts
<1>4. PICK q \in IF cmd.order \in {"on", "off"} THEN {cmd.values[1]}
                                              ELSE {cmd.values[1], s.values[1]},
           a \in Taken(cmd.values[2], s.values[2]), b \in Taken(cmd.values[3], s.values[3]),
           c \in Taken(High(cmd.values[4]), High(s.values[4])) :
         t = [s EXCEPT !.values = <<q, a, b, InHigh(c) + Low(s.values[4])>>]
  BY DEF AirConditioner, cmd
<1>5. /\ q \in Nat /\ (order \in {"on", "off"} => q = p)
      /\ a \in Nat /\ (m # 0 => a = m)
      /\ b \in Nat /\ (f # 0 => b = f)
      /\ c \in Nat /\ (h # 0 => c = h)
  <2>1. q \in Nat /\ (order \in {"on", "off"} => q = p)
    BY <1>1, <1>2, <1>4
  <2>2. a \in Nat /\ (m # 0 => a = m)
    BY <1>1, <1>2, <1>4, TakenFacts
  <2>3. b \in Nat /\ (f # 0 => b = f)
    BY <1>1, <1>2, <1>4, TakenFacts
  <2>4. c \in Nat /\ (h # 0 => c = h)
    BY <1>1, <1>2, <1>3, <1>4, TakenFacts
  <2>5. QED
    BY <2>1, <2>2, <2>3, <2>4
<1>6. InHigh(c) + Low(s.values[4]) \in Nat /\ High(InHigh(c) + Low(s.values[4])) = c
  BY <1>2, <1>5, HalvesFacts
<1>7. /\ t \in State /\ t.props = s.props
      /\ t.values[1] = q /\ t.values[2] = a /\ t.values[3] = b
      /\ t.values[4] = InHigh(c) + Low(s.values[4])
  <2>1. s \in State /\ q \in Nat /\ a \in Nat /\ b \in Nat
    BY <1>5
  <2>2. t = [s EXCEPT !.values = <<q, a, b, InHigh(c) + Low(s.values[4])>>]
    BY <1>4
  <2>3. InHigh(c) + Low(s.values[4]) \in Nat
    BY <1>6
  <2>4. QED
    BY <2>1, <2>2, <2>3, WithValues
<1>8. QED
  BY <1>5, <1>6, <1>7

\* What travels with a command: the setting shown, or a default.
LEMMA SettingFacts ==
    ASSUME NEW st \in State \cup {None}
    PROVE  /\ ModeIn(st) \in Nat /\ ModeIn(st) # 0
           /\ FanIn(st) \in Nat /\ FanIn(st) # 0
           /\ TargetIn(st) \in Nat /\ TargetIn(st) # 0
           /\ st # None =>
                /\ st.values[2] # 0 => ModeIn(st) = st.values[2]
                /\ st.values[3] \in 1..3 => FanIn(st) = st.values[3]
                /\ High(st.values[4]) # 0 => TargetIn(st) = High(st.values[4])
<1>1. CASE st = None
  <2>1. ModeIn(st) = 3 /\ FanIn(st) = 1
    BY <1>1 DEF ModeIn, FanIn, DefaultMode, DefaultFan
  <2>2. TargetIn(st) = DefaultTarget
    BY <1>1 DEF TargetIn
  <2>3. DefaultTarget \in Nat /\ DefaultTarget # 0
    BY SMT DEF DefaultTarget
  <2>4. QED
    BY <1>1, <2>1, <2>2, <2>3
<1>2. CASE st \in State /\ st # None
  <2>1. /\ st.values[2] \in Nat /\ st.values[3] \in Nat /\ st.values[4] \in Nat
        /\ High(st.values[4]) \in Nat
    BY <1>2, StateValues, HalvesFacts
  <2>2. ModeIn(st) = IF st.values[2] = 0 THEN 3 ELSE st.values[2]
    BY <1>2 DEF ModeIn, DefaultMode
  <2>3. FanIn(st) = IF st.values[3] \notin 1..3 THEN 1 ELSE st.values[3]
    BY <1>2 DEF FanIn, DefaultFan
  <2>4. TargetIn(st) = IF High(st.values[4]) <= 0 THEN DefaultTarget ELSE High(st.values[4])
    BY <1>2 DEF TargetIn
  <2>5. DefaultTarget \in Nat /\ DefaultTarget # 0
    BY SMT DEF DefaultTarget
  <2>6. ModeIn(st) \in Nat /\ ModeIn(st) # 0 /\ (st.values[2] # 0 => ModeIn(st) = st.values[2])
    BY <2>1, <2>2
  <2>7. /\ FanIn(st) \in Nat /\ FanIn(st) # 0
        /\ st.values[3] \in 1..3 => FanIn(st) = st.values[3]
    BY <2>1, <2>3
  <2>8. /\ TargetIn(st) \in Nat /\ TargetIn(st) # 0
        /\ High(st.values[4]) # 0 => TargetIn(st) = High(st.values[4])
    BY <2>1, <2>4, <2>5, SMT
  <2>9. QED
    BY <2>6, <2>7, <2>8
<1>3. QED
  BY <1>1, <1>2

LEMMA ModeCodes ==
    ASSUME NEW mode \in DOMAIN ModeCode
    PROVE  /\ ModeCode[mode] \in Nat /\ ModeCode[mode] # 0
           /\ ModeCode[mode] \in DOMAIN ModeName /\ ModeName[ModeCode[mode]] = mode
BY DEF ModeCode, ModeName

LEMMA FanCodes ==
    ASSUME NEW fan \in DOMAIN FanCode
    PROVE  /\ FanCode[fan] \in Nat /\ FanCode[fan] # 0 /\ FanCode[fan] \in 1..3
           /\ fan # "auto" => FanName[FanCode[fan]] = fan
BY DEF FanCode, FanName

LEMMA ClimateOff ==
    ASSUME NEW s \in State, NEW b, NEW r, r.op = "mode", r.mode = "off",
           NEW t \in AirConditioner(s, ClimateCommand(r, b))
    PROVE  t \in State /\ t.props = s.props /\ ClimateShows(r, t) /\ ClimateKeeps(r, s, t)
<1>1. ClimateCommand(r, b) = Command("off", 1, 0, 0, 0)
  BY DEF ClimateCommand, ac_off
<1>2. InHigh(0) = 0 /\ 0 \in Nat
  BY SMT DEF InHigh
<1>3. t \in AirConditioner(s, Command("off", 1, 0, 0, InHigh(0)))
  BY <1>1, <1>2
<1>4. t \in State /\ t.props = s.props /\ t.values[1] = 1
  BY <1>2, <1>3, AirConditionerFacts
<1>5. hvac_mode(t) = "off"
  BY <1>4 DEF hvac_mode
<1>6. QED
  BY <1>4, <1>5 DEF ClimateShows, ClimateKeeps

LEMMA ClimateMode ==
    ASSUME NEW s \in State, NEW b \in State \cup {None},
           NEW r, r.op = "mode", r.mode \in DOMAIN ModeCode,
           NEW t \in AirConditioner(s, ClimateCommand(r, b))
    PROVE  /\ t \in State /\ t.props = s.props /\ ClimateShows(r, t)
           /\ b = s => ClimateKeeps(r, s, t)
<1>1. r.mode # "off"
  BY DEF ModeCode
<1>2. ClimateCommand(r, b) = Command("on", 0, ModeCode[r.mode], FanIn(b), InHigh(TargetIn(b)))
  BY <1>1 DEF ClimateCommand, ac_on_with_mode
<1>3. /\ ModeCode[r.mode] \in Nat /\ ModeCode[r.mode] # 0
      /\ ModeCode[r.mode] \in DOMAIN ModeName /\ ModeName[ModeCode[r.mode]] = r.mode
  BY ModeCodes
<1>4. FanIn(b) \in Nat /\ FanIn(b) # 0 /\ TargetIn(b) \in Nat /\ TargetIn(b) # 0
  BY SettingFacts
<1>5. /\ t \in State /\ t.props = s.props /\ t.values[1] = 0 /\ t.values[2] = ModeCode[r.mode]
      /\ t.values[3] = FanIn(b) /\ High(t.values[4]) = TargetIn(b)
  BY <1>2, <1>3, <1>4, AirConditionerFacts
<1>6. hvac_mode(t) = r.mode
  BY <1>3, <1>5, StateValues DEF hvac_mode
<1>7. ASSUME b = s PROVE ClimateKeeps(r, s, t)
  <2>1. /\ s.values[3] \in 1..3 => FanIn(s) = s.values[3]
        /\ High(s.values[4]) # 0 => TargetIn(s) = High(s.values[4])
    BY SettingFacts, StateValues
  <2>2. QED
    BY <1>5, <1>7, <2>1 DEF ClimateKeeps
<1>8. QED
  BY <1>5, <1>6, <1>7 DEF ClimateShows

LEMMA ClimateTemperature ==
    ASSUME NEW s \in State, NEW b \in State \cup {None},
           NEW r, r.op = "temperature", r.temp \in Temp,
           NEW t \in AirConditioner(s, ClimateCommand(r, b))
    PROVE  /\ t \in State /\ t.props = s.props /\ ClimateShows(r, t)
           /\ b = s => ClimateKeeps(r, s, t)
<1> DEFINE h == r.temp * 100
<1>1. h \in Nat /\ h # 0
  <2>1. r.temp \in Nat /\ 16 <= r.temp
    BY AskedValues
  <2>2. QED
    BY <2>1, SMT
<1>2. PICK order : ClimateCommand(r, b) = Command(order, 0, ModeIn(b), FanIn(b), InHigh(h))
  BY DEF ClimateCommand, ac_set_temp
<1>3. ASSUME target_temperature(t) = h PROVE ClimateShows(r, t)
  BY <1>3 DEF ClimateShows
<1> HIDE DEF h
<1>4. ModeIn(b) \in Nat /\ ModeIn(b) # 0 /\ FanIn(b) \in Nat /\ FanIn(b) # 0
  BY SettingFacts
<1>5. /\ t \in State /\ t.props = s.props /\ t.values[2] = ModeIn(b)
      /\ t.values[3] = FanIn(b) /\ High(t.values[4]) = h
  BY <1>1, <1>2, <1>4, AirConditionerFacts
<1>6. target_temperature(t) = h
  BY <1>5, StateValues DEF target_temperature
<1>7. ASSUME b = s PROVE ClimateKeeps(r, s, t)
  <2>1. /\ s.values[3] \in 1..3 => FanIn(s) = s.values[3]
        /\ s.values[2] # 0 => ModeIn(s) = s.values[2]
    BY SettingFacts, StateValues
  <2>2. QED
    BY <1>5, <1>7, <2>1 DEF ClimateKeeps
<1>8. QED
  BY <1>3, <1>5, <1>6, <1>7

LEMMA ClimateFan ==
    ASSUME NEW s \in State, NEW b \in State \cup {None},
           NEW r, r.op = "fan", r.fan \in DOMAIN FanCode,
           NEW t \in AirConditioner(s, ClimateCommand(r, b))
    PROVE  /\ t \in State /\ t.props = s.props /\ ClimateShows(r, t)
           /\ b = s => ClimateKeeps(r, s, t)
<1>1. PICK order : ClimateCommand(r, b) =
                     Command(order, 0, ModeIn(b), FanCode[r.fan], InHigh(TargetIn(b)))
  BY DEF ClimateCommand, ac_wind
<1>2. /\ FanCode[r.fan] \in Nat /\ FanCode[r.fan] # 0 /\ FanCode[r.fan] \in 1..3
      /\ r.fan # "auto" => FanName[FanCode[r.fan]] = r.fan
  BY FanCodes
<1>3. ModeIn(b) \in Nat /\ ModeIn(b) # 0 /\ TargetIn(b) \in Nat /\ TargetIn(b) # 0
  BY SettingFacts
<1>4. /\ t \in State /\ t.props = s.props /\ t.values[2] = ModeIn(b)
      /\ t.values[3] = FanCode[r.fan] /\ High(t.values[4]) = TargetIn(b)
  BY <1>1, <1>2, <1>3, AirConditionerFacts
<1>5. r.fan # "auto" => fan_mode(t) = r.fan
  BY <1>2, <1>4, StateValues DEF fan_mode
<1>6. ASSUME b = s PROVE ClimateKeeps(r, s, t)
  <2>1. /\ s.values[2] # 0 => ModeIn(s) = s.values[2]
        /\ High(s.values[4]) # 0 => TargetIn(s) = High(s.values[4])
    BY SettingFacts, StateValues
  <2>2. QED
    BY <1>4, <1>6, <2>1 DEF ClimateKeeps
<1>7. QED
  BY <1>4, <1>5, <1>6 DEF ClimateShows

LEMMA ClimateIsShown ==
    ASSUME NEW e, e.platform = "climate", NEW s, Fits(e, s), NEW b \in State \cup {None},
           NEW r \in Requests(e), NEW t \in Executed(e, s, Built(e, r, b))
    PROVE  /\ Fits(e, t) /\ ClimateShows(r, t)
           /\ b = s => ClimateKeeps(r, s, t)
<1>1. t \in AirConditioner(s, ClimateCommand(r, b))
  BY DEF Executed, Built
<1>2. s \in State /\ s.props = NoProps /\ ~PropertyKind(e)
  BY DEF Fits, PropertyKind
<1>3. \/ r.op = "mode" /\ r.mode = "off"
      \/ r.op = "mode" /\ r.mode \in DOMAIN ModeCode
      \/ r.op = "temperature" /\ r.temp \in Temp
      \/ r.op = "fan" /\ r.fan \in DOMAIN FanCode
  BY DEF Requests
<1>4. /\ t \in State /\ t.props = s.props /\ ClimateShows(r, t)
      /\ b = s => ClimateKeeps(r, s, t)
  BY <1>1, <1>2, <1>3, ClimateOff, ClimateMode, ClimateTemperature, ClimateFan
<1>5. QED
  BY <1>2, <1>4 DEF Fits
-----------------------------------------------------------------------------
(* Fans and covers.  *)

LEMMA WithFirstValue ==
    ASSUME NEW s \in State, NEW v \in Nat, NEW t, t = [s EXCEPT !.values[1] = v]
    PROVE  t \in State /\ t.props = s.props /\ t.values[1] = v
BY DEF State

\* A command that is not "stop" writes the first number.
LEMMA FirstValueExecuted ==
    ASSUME NEW e, e.platform \in {"fan", "cover"}, NEW s, Fits(e, s),
           NEW order, order # "stop", NEW v \in Nat,
           NEW t \in Executed(e, s, Command(order, v, 0, 0, 0))
    PROVE  Fits(e, t) /\ t.values[1] = v /\ t.props = NoProps
<1> DEFINE cmd == Command(order, v, 0, 0, 0)
<1>1. cmd.order = order /\ cmd.values[1] = v
  BY DEF Command
<1> HIDE DEF cmd
<1>2. t \in Executed(e, s, cmd)
  BY DEF cmd
<1>3. t = [s EXCEPT !.values[1] = v]
  BY <1>1, <1>2 DEF Executed
<1>4. ~PropertyKind(e)
  BY DEF PropertyKind
<1>5. s \in State /\ s.props = NoProps
  BY <1>4 DEF Fits
<1>6. t \in State /\ t.props = s.props /\ t.values[1] = v
  BY <1>3, <1>5, WithFirstValue
<1>7. QED
  BY <1>4, <1>5, <1>6 DEF Fits

LEMMA FanViews ==
    ASSUME NEW st \in State, st.props = NoProps
    PROVE  /\ fan_is_on(516, st) <=> st.values[1] # 50
           /\ st.values[1] = 50 => percentage_shown(516, st) = 0
           /\ st.values[1] = 0 => percentage_shown(516, st) = 33
           /\ st.values[1] = 100 => percentage_shown(516, st) = 100
<1>1. st # None
  BY StateValues
<1>2. "onoff" \notin DOMAIN st.props /\ "fanSpeed" \notin DOMAIN st.props
  BY DEF NoProps
<1>3. fan_is_on(516, st) <=> st.values[1] # 50
  BY <1>1, <1>2 DEF fan_is_on
<1>4. percentage_shown(516, st) =
        CASE st.values[1] = 50 -> 0 [] st.values[1] = 0 -> 33
          [] st.values[1] = 100 -> 100 [] OTHER -> None
  BY <1>1, <1>2 DEF percentage_shown
<1>5. QED
  BY <1>3, <1>4, SMT

LEMMA FanIsShown ==
    ASSUME NEW e, e.platform = "fan", e.type = 516, NEW s, Fits(e, s),
           NEW b, NEW r \in Requests(e), NEW t \in Executed(e, s, Built(e, r, b))
    PROVE  FanShows(e, r, t)
<1> DEFINE p == IF r.op = "percentage" THEN r.p ELSE IF r.op = "turn_on" THEN 100 ELSE 0
           v == IF p = 0 THEN 50 ELSE IF p <= 50 THEN 0 ELSE 100
<1>1. \/ r.op = "percentage" /\ r.p \in Percentage
      \/ r.op = "turn_on"
      \/ r.op = "turn_off"
  BY DEF Requests, turn_on, turn_off
<1>2. p \in Nat /\ p <= 100
  BY <1>1, AskedValues
<1>3. PICK order : order # "stop" /\ Built(e, r, b) = Command(order, v, 0, 0, 0)
  <2>1. FanCommand(r) = ventilation_control(v)
    <3>1. CASE r.op = "percentage" /\ r.p \in Percentage
      <4>1. r.p \in Nat /\ r.p <= 100
        BY <3>1, AskedValues
      <4>2. Bounded(r.p, 0, 100) = r.p
        BY <4>1 DEF Bounded
      <4>3. FanCommand(r) = fan_set_speed(r.p)
        BY <3>1 DEF FanCommand
      <4>4. QED
        BY <3>1, <4>2, <4>3 DEF fan_set_speed
    <3>2. CASE r.op = "turn_on"
      <4>1. FanCommand(r) = ventilation_control(100)
        BY <3>2 DEF FanCommand, fan_on
      <4>2. v = 100
        BY <3>2, SMT
      <4>3. QED
        BY <4>1, <4>2
    <3>3. CASE r.op = "turn_off"
      <4>1. FanCommand(r) = ventilation_control(50)
        BY <3>3 DEF FanCommand, fan_off
      <4>2. v = 50
        BY <3>3, SMT
      <4>3. QED
        BY <4>1, <4>2
    <3>4. QED
      BY <1>1, <3>1, <3>2, <3>3
  <2>2. Built(e, r, b) = FanCommand(r)
    BY DEF Built
  <2> HIDE DEF v
  <2>3. ventilation_control(v) = Command("set property", v, 0, 0, 0)
    BY DEF ventilation_control
  <2>4. QED
    BY <2>1, <2>2, <2>3
<1>4. v \in Nat
  BY SMT
<1> HIDE DEF v
<1>5. Fits(e, t) /\ t.values[1] = v /\ t.props = NoProps
  BY <1>3, <1>4, FirstValueExecuted
<1>6. t \in State
  BY <1>5 DEF Fits
<1>7. /\ fan_is_on(516, t) <=> v # 50
      /\ v = 50 => percentage_shown(516, t) = 0
      /\ v = 0 => percentage_shown(516, t) = 33
      /\ v = 100 => percentage_shown(516, t) = 100
  BY <1>5, <1>6, FanViews
<1>8. /\ fan_is_on(516, t) <=> p > 0
      /\ percentage_shown(516, t) = IF p = 0 THEN 0 ELSE IF p <= 50 THEN 33 ELSE 100
  <2> HIDE DEF p
  <2>1. QED
    BY <1>2, <1>7, SMT DEF v
<1>9. QED
  BY <1>8 DEF FanShows

LEMMA FanFits ==
    ASSUME NEW e, e.platform = "fan", NEW s, Fits(e, s),
           NEW b, NEW r \in Requests(e), NEW t \in Executed(e, s, Built(e, r, b))
    PROVE  Fits(e, t)
<1>1. r.op \in {"percentage", "turn_on", "turn_off"}
  BY DEF Requests, turn_on, turn_off
<1>2. PICK v \in Nat : FanCommand(r) = ventilation_control(v)
  <2>1. 0 \in Nat /\ 50 \in Nat /\ 100 \in Nat
    OBVIOUS
  <2>2. CASE r.op = "percentage"
    BY <2>1, <2>2 DEF FanCommand, fan_set_speed
  <2>3. CASE r.op = "turn_on"
    BY <2>1, <2>3 DEF FanCommand, fan_on
  <2>4. CASE r.op = "turn_off"
    BY <2>1, <2>4 DEF FanCommand, fan_off
  <2>5. QED
    BY <1>1, <2>2, <2>3, <2>4
<1>3. PICK order : order # "stop" /\ Built(e, r, b) = Command(order, v, 0, 0, 0)
  <2>1. Built(e, r, b) = FanCommand(r)
    BY DEF Built
  <2>2. QED
    BY <1>2, <2>1 DEF ventilation_control
<1>4. QED
  BY <1>3, FirstValueExecuted

LEMMA CoverViews ==
    ASSUME NEW st \in State, st.values[1] <= 100
    PROVE  /\ current_cover_position(st) = st.values[1]
           /\ is_closed(st) <=> st.values[1] <= 5
<1>1. st # None /\ st.values[1] \in Nat
  BY StateValues
<1>2. Bounded(st.values[1], 0, 100) = st.values[1]
  BY <1>1 DEF Bounded
<1>3. QED
  BY <1>1, <1>2 DEF current_cover_position, is_closed

LEMMA CoverIsShown ==
    ASSUME NEW e, e.platform = "cover", NEW s, Fits(e, s),
           NEW b, NEW r \in Requests(e), NEW t \in Executed(e, s, Built(e, r, b))
    PROVE  Fits(e, t) /\ CoverShows(r, t)
<1>1. \/ r.op = "open" \/ r.op = "close" \/ r.op = "stop"
      \/ r.op = "position" /\ r.p \in Position
  BY DEF Requests
<1>2. Built(e, r, b) = CoverCommand(r)
  BY DEF Built
<1>3. ASSUME NEW order, order # "stop", NEW v \in Nat, v <= 100,
             CoverCommand(r) = Command(order, v, 0, 0, 0)
      PROVE  Fits(e, t) /\ current_cover_position(t) = v /\ (is_closed(t) <=> v <= 5)
  <2>1. Fits(e, t) /\ t.values[1] = v
    BY <1>2, <1>3, FirstValueExecuted
  <2>2. t \in State
    BY <2>1 DEF Fits
  <2>3. QED
    BY <1>3, <2>1, <2>2, CoverViews
<1>4. 0 \in Nat /\ 100 \in Nat /\ 0 <= 100 /\ 100 <= 100 /\ 0 <= 5 /\ ~(100 <= 5)
  BY SMT
<1>5. CASE r.op = "open"
  <2>1. CoverCommand(r) = Command("on", 100, 0, 0, 0)
    BY <1>5 DEF CoverCommand, cover_open
  <2>2. Fits(e, t) /\ current_cover_position(t) = 100 /\ ~is_closed(t)
    BY <1>3, <1>4, <2>1
  <2>3. QED
    BY <1>5, <2>2 DEF CoverShows
<1>6. CASE r.op = "close"
  <2>1. CoverCommand(r) = Command("off", 0, 0, 0, 0)
    BY <1>6 DEF CoverCommand, cover_close
  <2>2. Fits(e, t) /\ is_closed(t)
    BY <1>3, <1>4, <2>1
  <2>3. QED
    BY <1>6, <2>2 DEF CoverShows
<1>7. CASE r.op = "stop"
  <2>1. CoverCommand(r).order = "stop"
    BY <1>7 DEF CoverCommand, cover_stop, Command
  <2>2. t = s
    BY <1>2, <2>1 DEF Executed
  <2>3. QED
    BY <1>7, <2>2 DEF CoverShows
<1>8. CASE r.op = "position" /\ r.p \in Position
  <2>1. r.p \in Nat /\ r.p <= 100
    BY <1>8, AskedValues
  <2>2. Bounded(r.p, 0, 100) = r.p
    BY <2>1 DEF Bounded
  <2>3. \E order \in {"on", "off"} : CoverCommand(r) = Command(order, r.p, 0, 0, 0)
    BY <1>8, <2>2 DEF CoverCommand, cover_position
  <2>4. Fits(e, t) /\ current_cover_position(t) = r.p
    BY <1>3, <2>1, <2>3
  <2>5. QED
    BY <1>8, <2>4 DEF CoverShows
<1>9. QED
  BY <1>1, <1>5, <1>6, <1>7, <1>8
-----------------------------------------------------------------------------
(* A device, whatever it is.  *)

\* The entities there are.
Sound(e) == e \in Profile /\ e.platform \in Platforms(e.type)

LEMMA SoundKinds ==
    ASSUME NEW e, Sound(e)
    PROVE  e.platform \in {"light", "climate", "fan", "cover"}
BY DEF Sound, Platforms

\* What fits the entity and, if it is a lit light, has a brightness.
Proper(e, s) == Fits(e, s) /\ Lit(e, s)

LEMMA ManualIsProper ==
    ASSUME NEW e, Sound(e), NEW s \in Manual(e)
    PROVE  Proper(e, s)
<1> DEFINE Numbers(v) == [values |-> v, props |-> NoProps]
<1>1. ASSUME NEW a \in Nat, NEW b \in Nat, NEW c \in Nat, NEW d \in Nat, ~PropertyKind(e),
             a = 0 /\ e.platform = "light" => b # 0,
             s = Numbers(<<a, b, c, d>>)
      PROVE  Proper(e, s)
  <2>1. <<a, b, c, d>> \in [1..4 -> Nat]
    OBVIOUS
  <2>2. s \in State /\ s.props = NoProps /\ s.values[1] = a /\ s.values[2] = b
    BY <1>1, <2>1 DEF State
  <2>3. QED
    BY <1>1, <2>2 DEF Proper, Fits, Lit
<1>2. CASE PropertyKind(e)
  <2>1. PICK o \in {"on", "off"} :
          s = [values |-> <<0, 0, 0, 0>>,
               props |-> [onoff |-> o, brightness |-> 40, colorTemp |-> 4000]]
    BY <1>2, SMTT(60) DEF Manual, PropertyKind
  <2>2. 40 \in Brightness /\ 4000 \in ColorTemp
    <3>1. 40 \in Nat /\ 1 <= 40 /\ 40 <= 100 /\ 4000 \in Nat /\ 2700 <= 4000 /\ 4000 <= 6500
      BY SMT
    <3>2. QED
      BY <3>1, PropertyValues
  <2>3. PICK k : k = 4000 /\ k \in ColorTemp
    BY <2>2, SMT
  <2>4. [onoff |-> o, brightness |-> 40, colorTemp |-> k] \in Properties
    BY <2>2, <2>3 DEF Properties
  <2>5. <<0, 0, 0, 0>> \in [1..4 -> Nat]
    OBVIOUS
  <2>6. s \in State /\ s.props \in Properties
    BY <2>1, <2>3, <2>4, <2>5 DEF State
  <2>7. QED
    BY <1>2, <2>6 DEF Proper, Fits, Lit, PropertyKind
<1>3. CASE e.platform = "light" /\ ~PropertyKind(e)
  <2>1. e.type \notin ThingModel
    BY <1>3 DEF PropertyKind
  <2>2. PICK p \in {0, 1} : s = Numbers(<<p, 90, 250, 0>>)
    BY <1>3, <2>1 DEF Manual
  <2>3. p \in Nat /\ 90 \in Nat /\ 250 \in Nat /\ 0 \in Nat /\ 90 # 0
    BY SMT
  <2>4. QED
    BY <1>1, <1>3, <2>2, <2>3
<1>4. CASE e.platform = "climate"
  <2>1. PICK t \in Nat, m \in Nat, v \in Nat, f \in Nat : s = Numbers(<<v, m, f, t>>)
    <3>1. PICK x, y : x = InHigh(2000) + 2150 /\ y = InHigh(2200) + 2150 /\ x \in Nat /\ y \in Nat
      BY SMT DEF InHigh
    <3>2. s \in {Numbers(<<0, 4, 3, InHigh(2000) + 2150>>), Numbers(<<1, 2, 0, InHigh(2200) + 2150>>)}
      BY <1>4 DEF Manual
    <3>3. s = Numbers(<<0, 4, 3, x>>) \/ s = Numbers(<<1, 2, 0, y>>)
      BY <3>1, <3>2
    <3>4. QED
      BY <3>1, <3>3
  <2>2. ~PropertyKind(e)
    BY <1>4 DEF PropertyKind
  <2>3. QED
    BY <1>1, <1>4, <2>1, <2>2
<1>5. CASE e.platform \in {"fan", "cover"}
  <2>1. PICK v \in Nat : s = Numbers(<<v, 0, 0, 0>>)
    BY <1>5 DEF Manual
  <2>2. ~PropertyKind(e) /\ 0 \in Nat
    BY <1>5 DEF PropertyKind
  <2>3. QED
    BY <1>1, <1>5, <2>1, <2>2
<1>6. QED
  BY <1>2, <1>3, <1>4, <1>5, SoundKinds

\* A device that executes a command still is what it was.
LEMMA ExecutedIsProper ==
    ASSUME NEW e, Sound(e), NEW s, Proper(e, s), NEW b \in State \cup {None},
           NEW r \in Requests(e), NEW t \in Executed(e, s, Built(e, r, b))
    PROVE  Proper(e, t)
<1>1. Fits(e, s) /\ Lit(e, s) /\ e.platform \in Platforms(e.type)
  BY DEF Proper, Sound
<1>2. CASE e.platform = "light" /\ PropertyKind(e)
  BY <1>1, <1>2, PropertyLightShows DEF Proper, Lit, PropertyKind
<1>3. CASE e.platform = "light" /\ ~PropertyKind(e)
  BY <1>1, <1>3, NumberLightShows DEF Proper
<1>4. CASE e.platform = "climate"
  BY <1>1, <1>4, ClimateIsShown DEF Proper, Lit
<1>5. CASE e.platform = "fan"
  BY <1>1, <1>5, FanFits DEF Proper, Lit
<1>6. CASE e.platform = "cover"
  BY <1>1, <1>6, CoverIsShown DEF Proper, Lit
<1>7. QED
  BY <1>2, <1>3, <1>4, <1>5, <1>6, SoundKinds

\* Its state then shows what was asked.
LEMMA ExecutedIsShown ==
    ASSUME NEW e, Sound(e), e.platform = "fan" => e.type = 516,
           NEW s, Proper(e, s), NEW b \in State \cup {None},
           NEW r \in Requests(e), NEW t \in Executed(e, s, Built(e, r, b))
    PROVE  Shows(e, r, t)
<1>1. Fits(e, s) /\ Lit(e, s) /\ e.platform \in Platforms(e.type)
  BY DEF Proper, Sound
<1>2. CASE e.platform = "light"
  <2>1. LightShows(e, r, t)
    BY <1>1, <1>2, PropertyLightShows, NumberLightShows
  <2>2. QED
    BY <1>2, <2>1 DEF Shows
<1>3. CASE e.platform = "climate"
  <2>1. ClimateShows(r, t)
    BY <1>1, <1>3, ClimateIsShown
  <2>2. QED
    BY <1>3, <2>1 DEF Shows
<1>4. CASE e.platform = "fan"
  <2>1. FanShows(e, r, t)
    BY <1>1, <1>4, FanIsShown
  <2>2. QED
    BY <1>4, <2>1 DEF Shows
<1>5. CASE e.platform = "cover"
  <2>1. CoverShows(r, t)
    BY <1>1, <1>5, CoverIsShown
  <2>2. QED
    BY <1>5, <2>1 DEF Shows
<1>6. QED
  BY <1>2, <1>3, <1>4, <1>5, SoundKinds

\* A command built from the device's own state loses no other setting of it.
LEMMA ExecutedKeeps ==
    ASSUME NEW e, Sound(e), NEW s, Proper(e, s),
           NEW r \in Requests(e), NEW t \in Executed(e, s, Built(e, r, s))
    PROVE  Keeps(e, r, s, t)
<1>1. /\ Fits(e, s) /\ Lit(e, s) /\ e.platform \in Platforms(e.type)
      /\ s \in State \cup {None}
  BY DEF Proper, Sound, Fits
<1>2. CASE e.platform = "light" /\ PropertyKind(e)
  <2>1. ASSUME r.op = "turn_on", r.level = None, r.kelvin # None,
               is_on(e.type, s), is_on(e.type, t)
        PROVE  brightness_shown(e.type, t) = brightness_shown(e.type, s)
    <3>1. Fits(e, t) /\ t.props["brightness"] = s.props["brightness"]
      BY <1>1, <1>2, <2>1, PropertyLightShows
    <3>2. /\ s \in State /\ s.props \in Properties /\ t \in State /\ t.props \in Properties
          /\ e.type \in {501, 502, 503}
      BY <1>1, <1>2, <3>1, LightKinds DEF Fits
    <3>3. /\ brightness_shown(e.type, t) = (t.props["brightness"] * 255) \div 100
          /\ brightness_shown(e.type, s) = (s.props["brightness"] * 255) \div 100
      BY <2>1, <3>2, PropertyViews
    <3>4. QED
      BY <3>1, <3>3
  <2>2. QED
    BY <1>2, <2>1 DEF Keeps, LightKeeps
<1>3. CASE e.platform = "light" /\ ~PropertyKind(e)
  <2>1. r.op = "turn_on" /\ r.level = None /\ r.kelvin # None /\ is_on(e.type, s) =>
          brightness_shown(e.type, t) = brightness_shown(e.type, s)
    BY <1>1, <1>3, NumberLightShows
  <2>2. QED
    BY <1>3, <2>1 DEF Keeps, LightKeeps
<1>4. CASE e.platform = "climate"
  <2>1. ClimateKeeps(r, s, t)
    BY <1>1, <1>4, ClimateIsShown
  <2>2. QED
    BY <1>4, <2>1 DEF Keeps
<1>5. CASE e.platform \in {"fan", "cover"}
  BY <1>5 DEF Keeps
<1>6. QED
  BY <1>2, <1>3, <1>4, <1>5, SoundKinds
-----------------------------------------------------------------------------
(* The calls.  *)

CallState ==
    [stage: {"idle", "sent"}, answer: {"none", "ok", "rejected"},
     outcome: {"none", "ok", "refused", "rejected", "failed"},
     executed: {0, 1}, number: Nat]

\* A command under way has a number of its own, no higher than the calls made.
Numbered ==
    /\ asks \in Nat
    /\ call \in [Caller -> CallState]
    /\ \A x \in wire : x.number \in 1..asks
    /\ \A x, y \in wire : x.number = y.number => x = y
    /\ \A c \in Caller : call[c].number <= asks

\* A call whose command is still under way has no answer, and the device has
\* not executed it; an answer tells whether it has.
Answers ==
    \A c \in Caller : call[c].stage = "sent" =>
        /\ call[c].outcome = "none"
        /\ call[c].executed = (IF call[c].answer = "ok" THEN 1 ELSE 0)
        /\ \A x \in wire : x.number = call[c].number => call[c].answer = "none"

IInv == Numbered /\ Answers /\ OutcomeIsTrue

InvVars == <<call, wire, asks>>
-----------------------------------------------------------------------------
(* What becomes of a call.  *)

LEMMA SentCall ==
    ASSUME NEW n \in Nat, NEW s, s = [Idle EXCEPT !.stage = "sent", !.number = n]
    PROVE  /\ s \in CallState
           /\ s.stage = "sent" /\ s.answer = "none" /\ s.outcome = "none"
           /\ s.executed = 0 /\ s.number = n
<1>1. s \in CallState
  BY DEF Idle, CallState
<1>2. QED
  BY <1>1 DEF Idle

LEMMA RefusedCall ==
    ASSUME NEW s, s = [Idle EXCEPT !.outcome = "refused"]
    PROVE  /\ s \in CallState
           /\ s.stage = "idle" /\ s.outcome = "refused" /\ s.executed = 0 /\ s.number = 0
<1>1. s \in CallState
  BY DEF Idle, CallState
<1>2. QED
  BY <1>1 DEF Idle

LEMMA ExecutedCall ==
    ASSUME NEW s \in CallState, s.executed = 0,
           NEW t, t = [s EXCEPT !.answer = "ok", !.executed = @ + 1]
    PROVE  /\ t \in CallState
           /\ t.stage = s.stage /\ t.outcome = s.outcome /\ t.number = s.number
           /\ t.answer = "ok" /\ t.executed = 1
<1>1. t = [s EXCEPT !.answer = "ok", !.executed = 1]
  OBVIOUS
<1>2. t \in CallState
  BY <1>1 DEF CallState
<1>3. QED
  BY <1>1, <1>2 DEF CallState

LEMMA RejectedCall ==
    ASSUME NEW s \in CallState, NEW t, t = [s EXCEPT !.answer = "rejected"]
    PROVE  /\ t \in CallState
           /\ t.stage = s.stage /\ t.outcome = s.outcome /\ t.number = s.number
           /\ t.answer = "rejected" /\ t.executed = s.executed
BY DEF CallState

LEMMA UnmovedKeeps ==
    ASSUME IInv, UNCHANGED InvVars
    PROVE  IInv'
BY DEF IInv, Numbered, Answers, OutcomeIsTrue, InvVars

LEMMA InitEstablishes == Init => IInv
BY DEF Init, Idle, CallState, IInv, Numbered, Answers, OutcomeIsTrue

LEMMA AskKeeps ==
    ASSUME IInv, NEW c \in Caller, NEW r, Ask(c, r)
    PROVE  IInv'
<1>1. asks \in Nat /\ asks' = asks + 1 /\ call \in [Caller -> CallState]
  BY DEF IInv, Numbered, Ask
<1>2. CASE gateway = NoUid
  <2>1. call' = [call EXCEPT ![c] = [Idle EXCEPT !.outcome = "refused"]] /\ wire' = wire
    BY <1>2 DEF Ask
  <2>2. /\ call'[c] \in CallState
        /\ call'[c].stage = "idle" /\ call'[c].outcome = "refused"
        /\ call'[c].executed = 0 /\ call'[c].number = 0
    BY <1>1, <2>1, RefusedCall
  <2>3. call' \in [Caller -> CallState] /\ \A d \in Caller \ {c} : call'[d] = call[d]
    BY <1>1, <2>1, <2>2
  <2>4. Numbered'
    <3>1. \A d \in Caller : call'[d].number \in Nat /\ call'[d].number <= asks + 1
      BY <1>1, <2>2, <2>3 DEF IInv, Numbered, CallState
    <3>2. QED
      BY <1>1, <2>1, <2>3, <3>1 DEF IInv, Numbered
  <2>5. Answers'
    BY <2>1, <2>2, <2>3 DEF IInv, Answers
  <2>6. OutcomeIsTrue'
    BY <2>2, <2>3 DEF IInv, OutcomeIsTrue
  <2>7. QED
    BY <2>4, <2>5, <2>6 DEF IInv
<1>3. CASE gateway # NoUid
  <2>1. PICK x : x.number = asks + 1 /\ wire' = wire \cup {x}
    BY <1>3 DEF Ask
  <2>2. call' = [call EXCEPT ![c] = [Idle EXCEPT !.stage = "sent", !.number = asks + 1]]
    BY <1>3 DEF Ask
  <2>3. PICK n \in Nat : n = asks + 1
    BY <1>1
  <2>4. /\ call'[c] \in CallState
        /\ call'[c].stage = "sent" /\ call'[c].answer = "none" /\ call'[c].outcome = "none"
        /\ call'[c].executed = 0 /\ call'[c].number = asks + 1
    <3>1. call'[c] = [Idle EXCEPT !.stage = "sent", !.number = n]
      BY <1>1, <2>2, <2>3
    <3>2. QED
      BY <2>3, <3>1, SentCall
  <2>5. call' \in [Caller -> CallState] /\ \A d \in Caller \ {c} : call'[d] = call[d]
    BY <1>1, <2>2, <2>4
  <2>6. Numbered'
    <3>1. \A d \in Caller : call'[d].number \in Nat /\ call'[d].number <= asks + 1
      BY <1>1, <2>4, <2>5 DEF IInv, Numbered, CallState
    <3>2. \A y \in wire' : y.number \in 1..(asks + 1)
      BY <1>1, <2>1 DEF IInv, Numbered
    <3>3. \A y, z \in wire' : y.number = z.number => y = z
      BY <1>1, <2>1 DEF IInv, Numbered
    <3>4. QED
      BY <1>1, <2>5, <3>1, <3>2, <3>3 DEF Numbered
  <2>7. Answers'
    BY <1>1, <2>1, <2>4, <2>5 DEF IInv, Numbered, Answers
  <2>8. OutcomeIsTrue'
    BY <2>4, <2>5 DEF IInv, OutcomeIsTrue
  <2>9. QED
    BY <2>6, <2>7, <2>8 DEF IInv
<1>4. QED
  BY <1>2, <1>3

LEMMA ExecuteKeeps ==
    ASSUME IInv, NEW x \in wire, Execute(x)
    PROVE  IInv'
<1>1. /\ asks' = asks /\ wire' = wire \ {x}
      /\ call' = [c \in Caller |-> IF Awaits(c, x)
                    THEN [call[c] EXCEPT !.answer = "ok", !.executed = @ + 1]
                    ELSE call[c]]
  BY DEF Execute
<1>2. call \in [Caller -> CallState]
  BY DEF IInv, Numbered
<1>3. ASSUME NEW c \in Caller, Awaits(c, x)
      PROVE  /\ call'[c] \in CallState /\ call'[c].number = call[c].number
             /\ call[c].number = x.number
             /\ call'[c].answer = "ok" /\ call'[c].executed = 1
             /\ call'[c].outcome = "none"
  <2>1. call[c].executed = 0 /\ call[c].outcome = "none" /\ call[c].number = x.number
    BY <1>3 DEF IInv, Answers, Awaits
  <2>2. call'[c] = [call[c] EXCEPT !.answer = "ok", !.executed = @ + 1]
    BY <1>1, <1>3
  <2>3. call[c] \in CallState
    BY <1>2
  <2>4. PICK t : t = call'[c]
    OBVIOUS
  <2>5. /\ t \in CallState /\ t.number = call[c].number
        /\ t.outcome = call[c].outcome /\ t.answer = "ok" /\ t.executed = 1
    BY <2>1, <2>2, <2>3, <2>4, ExecutedCall
  <2>6. QED
    BY <2>1, <2>4, <2>5
<1>4. ASSUME NEW c \in Caller, ~Awaits(c, x)
      PROVE  call'[c] = call[c]
  BY <1>1, <1>4
<1>5. ASSUME NEW c \in Caller
      PROVE  call'[c] \in CallState /\ call'[c].number = call[c].number
  <2>1. CASE Awaits(c, x)
    BY <1>3, <2>1
  <2>2. CASE ~Awaits(c, x)
    BY <1>2, <1>4, <2>2
  <2>3. QED
    BY <2>1, <2>2
<1>6. call' \in [Caller -> CallState]
  BY <1>1, <1>5
<1>7. Numbered'
  BY <1>1, <1>5, <1>6 DEF IInv, Numbered
<1>8. ASSUME NEW c \in Caller, call'[c].stage = "sent"
      PROVE  /\ call'[c].outcome = "none"
             /\ call'[c].executed = (IF call'[c].answer = "ok" THEN 1 ELSE 0)
             /\ \A y \in wire' : y.number = call'[c].number => call'[c].answer = "none"
  <2>1. CASE Awaits(c, x)
    <3>1. call'[c].number = x.number
      BY <1>3, <2>1
    <3>2. \A y \in wire' : y.number # x.number
      BY <1>1 DEF IInv, Numbered
    <3>3. QED
      BY <1>3, <2>1, <3>1, <3>2
  <2>2. CASE ~Awaits(c, x)
    <3>1. call'[c] = call[c]
      BY <1>4, <2>2
    <3>2. /\ call[c].outcome = "none"
          /\ call[c].executed = (IF call[c].answer = "ok" THEN 1 ELSE 0)
          /\ \A y \in wire : y.number = call[c].number => call[c].answer = "none"
      BY <1>8, <3>1 DEF IInv, Answers
    <3>3. QED
      BY <1>1, <3>1, <3>2
  <2>3. QED
    BY <2>1, <2>2
<1>9. ASSUME NEW c \in Caller
      PROVE  /\ call'[c].outcome = "ok" => call'[c].executed = 1
             /\ call'[c].outcome \in {"refused", "rejected"} => call'[c].executed = 0
             /\ call'[c].executed <= 1
  <2>1. CASE Awaits(c, x)
    BY <1>3, <2>1
  <2>2. CASE ~Awaits(c, x)
    <3>1. call'[c] = call[c]
      BY <1>4, <2>2
    <3>2. QED
      BY <3>1 DEF IInv, OutcomeIsTrue
  <2>3. QED
    BY <2>1, <2>2
<1>10. QED
  BY <1>7, <1>8, <1>9 DEF IInv, Answers, OutcomeIsTrue

LEMMA RejectKeeps ==
    ASSUME IInv, NEW x \in wire, Reject(x)
    PROVE  IInv'
<1>1. /\ asks' = asks /\ wire' = wire \ {x}
      /\ call' = [c \in Caller |-> IF Awaits(c, x)
                    THEN [call[c] EXCEPT !.answer = "rejected"]
                    ELSE call[c]]
  BY DEF Reject
<1>2. call \in [Caller -> CallState]
  BY DEF IInv, Numbered
<1>3. ASSUME NEW c \in Caller, Awaits(c, x)
      PROVE  /\ call'[c] \in CallState /\ call'[c].number = call[c].number
             /\ call[c].number = x.number
             /\ call'[c].answer = "rejected" /\ call'[c].executed = 0
             /\ call'[c].outcome = "none"
  <2>1. call[c].executed = 0 /\ call[c].outcome = "none" /\ call[c].number = x.number
    BY <1>3 DEF IInv, Answers, Awaits
  <2>2. call'[c] = [call[c] EXCEPT !.answer = "rejected"]
    BY <1>1, <1>3
  <2>3. QED
    BY <1>2, <2>1, <2>2, RejectedCall
<1>4. ASSUME NEW c \in Caller, ~Awaits(c, x)
      PROVE  call'[c] = call[c]
  BY <1>1, <1>4
<1>5. ASSUME NEW c \in Caller
      PROVE  call'[c] \in CallState /\ call'[c].number = call[c].number
  <2>1. CASE Awaits(c, x)
    BY <1>3, <2>1
  <2>2. CASE ~Awaits(c, x)
    BY <1>2, <1>4, <2>2
  <2>3. QED
    BY <2>1, <2>2
<1>6. call' \in [Caller -> CallState]
  BY <1>1, <1>5
<1>7. Numbered'
  BY <1>1, <1>5, <1>6 DEF IInv, Numbered
<1>8. ASSUME NEW c \in Caller, call'[c].stage = "sent"
      PROVE  /\ call'[c].outcome = "none"
             /\ call'[c].executed = (IF call'[c].answer = "ok" THEN 1 ELSE 0)
             /\ \A y \in wire' : y.number = call'[c].number => call'[c].answer = "none"
  <2>1. CASE Awaits(c, x)
    <3>1. call'[c].number = x.number
      BY <1>3, <2>1
    <3>2. \A y \in wire' : y.number # x.number
      BY <1>1 DEF IInv, Numbered
    <3>3. QED
      BY <1>3, <2>1, <3>1, <3>2
  <2>2. CASE ~Awaits(c, x)
    <3>1. call'[c] = call[c]
      BY <1>4, <2>2
    <3>2. /\ call[c].outcome = "none"
          /\ call[c].executed = (IF call[c].answer = "ok" THEN 1 ELSE 0)
          /\ \A y \in wire : y.number = call[c].number => call[c].answer = "none"
      BY <1>8, <3>1 DEF IInv, Answers
    <3>3. QED
      BY <1>1, <3>1, <3>2
  <2>3. QED
    BY <2>1, <2>2
<1>9. ASSUME NEW c \in Caller
      PROVE  /\ call'[c].outcome = "ok" => call'[c].executed = 1
             /\ call'[c].outcome \in {"refused", "rejected"} => call'[c].executed = 0
             /\ call'[c].executed <= 1
  <2>1. CASE Awaits(c, x)
    BY <1>3, <2>1
  <2>2. CASE ~Awaits(c, x)
    <3>1. call'[c] = call[c]
      BY <1>4, <2>2
    <3>2. QED
      BY <3>1 DEF IInv, OutcomeIsTrue
  <2>3. QED
    BY <2>1, <2>2
<1>10. QED
  BY <1>7, <1>8, <1>9 DEF IInv, Answers, OutcomeIsTrue

\* An answer ends its call with what it says.
LEMMA AnsweredKeeps ==
    ASSUME IInv, NEW c \in Caller, Answered(c)
    PROVE  IInv'
<1>1. /\ asks' = asks /\ wire' = wire
      /\ call \in [Caller -> CallState]
      /\ call' = [call EXCEPT ![c] = [call[c] EXCEPT !.stage = "idle", !.outcome = call[c].answer]]
  BY DEF Answered, IInv, Numbered
<1>2. call[c].answer \in {"ok", "rejected"}
      /\ call[c].executed = (IF call[c].answer = "ok" THEN 1 ELSE 0)
  BY <1>1 DEF Answered, IInv, Answers, CallState
<1>3. /\ call'[c].stage = "idle" /\ call'[c].outcome = call[c].answer
      /\ call'[c].executed = call[c].executed /\ call'[c].number = call[c].number
      /\ call'[c] \in CallState
  <2>1. call[c] \in CallState
    BY <1>1
  <2>2. call'[c] = [call[c] EXCEPT !.stage = "idle", !.outcome = call[c].answer]
    BY <1>1
  <2>3. PICK s, t : s = call[c] /\ t = call'[c]
    OBVIOUS
  <2>4. s \in CallState /\ s.answer \in {"ok", "rejected"}
        /\ t = [s EXCEPT !.stage = "idle", !.outcome = s.answer]
    BY <1>2, <2>1, <2>2, <2>3
  <2>5. /\ t.stage = "idle" /\ t.outcome = s.answer
        /\ t.executed = s.executed /\ t.number = s.number /\ t \in CallState
    BY <2>4 DEF CallState
  <2>6. QED
    BY <2>3, <2>5
<1>4. \A d \in Caller \ {c} : call'[d] = call[d]
  BY <1>1
<1>5. Numbered'
  BY <1>1, <1>3, <1>4 DEF IInv, Numbered
<1>6. Answers'
  BY <1>1, <1>3, <1>4 DEF IInv, Answers
<1>7. OutcomeIsTrue'
  BY <1>1, <1>2, <1>3, <1>4 DEF IInv, OutcomeIsTrue
<1>8. QED
  BY <1>5, <1>6, <1>7 DEF IInv

\* Calls that fail while they wait, by their deadline or with the connection.
LEMMA FailedCallsKeep ==
    ASSUME IInv, asks' = asks, wire' \subseteq wire, NEW Failed \in SUBSET Caller,
           \A c \in Failed : call[c].stage = "sent",
           call' = [c \in Caller |-> IF c \in Failed
                        THEN [call[c] EXCEPT !.stage = "idle", !.outcome = "failed"]
                        ELSE call[c]]
    PROVE  IInv'
<1>1. call \in [Caller -> CallState]
  BY DEF IInv, Numbered
<1>2. ASSUME NEW c \in Failed
      PROVE  /\ call'[c].stage = "idle" /\ call'[c].outcome = "failed"
             /\ call'[c].executed = call[c].executed /\ call'[c].number = call[c].number
             /\ call'[c] \in CallState
  BY <1>1, <1>2 DEF CallState
<1>3. \A c \in Caller \ Failed : call'[c] = call[c]
  OBVIOUS
<1>4. Numbered'
  <2>1. DOMAIN call' = Caller /\ call' = [c \in Caller |-> call'[c]]
    OBVIOUS
  <2>2. \A c \in Caller : call'[c] \in CallState /\ call'[c].number = call[c].number
    BY <1>1, <1>2, <1>3
  <2>3. call' \in [Caller -> CallState]
    BY <2>1, <2>2
  <2>4. \A c \in Caller : call'[c].number <= asks'
    BY <2>2 DEF IInv, Numbered
  <2>5. \A x \in wire' : x.number \in 1..asks'
    BY DEF IInv, Numbered
  <2>6. asks' \in Nat /\ \A x, y \in wire' : x.number = y.number => x = y
    BY DEF IInv, Numbered
  <2>7. QED
    BY <2>3, <2>4, <2>5, <2>6 DEF Numbered
<1>5. Answers'
  <2>1. ASSUME NEW c \in Caller, call'[c].stage = "sent" PROVE c \notin Failed
    BY <1>2, <2>1
  <2>2. \A c \in Caller : call'[c].stage = "sent" => call'[c] = call[c]
    BY <1>3, <2>1
  <2>3. ASSUME NEW c \in Caller, call'[c].stage = "sent"
        PROVE  /\ call'[c].outcome = "none"
               /\ call'[c].executed = (IF call'[c].answer = "ok" THEN 1 ELSE 0)
               /\ \A x \in wire' : x.number = call'[c].number => call'[c].answer = "none"
    <3>1. call'[c] = call[c] /\ call[c].stage = "sent"
      BY <2>2, <2>3
    <3>2. QED
      BY <3>1 DEF IInv, Answers
  <2>4. QED
    BY <2>3 DEF Answers
<1>6. OutcomeIsTrue'
  BY <1>2, <1>3 DEF IInv, OutcomeIsTrue
<1>7. QED
  BY <1>4, <1>5, <1>6 DEF IInv

LEMMA TimesOutKeeps ==
    ASSUME IInv, NEW c \in Caller, TimesOut(c)
    PROVE  IInv'
<1>1. call' = [d \in Caller |-> IF d \in {c}
                  THEN [call[d] EXCEPT !.stage = "idle", !.outcome = "failed"]
                  ELSE call[d]]
  BY DEF TimesOut, IInv, Numbered
<1>2. /\ asks' = asks /\ wire' \subseteq wire /\ {c} \in SUBSET Caller
      /\ \A d \in {c} : call[d].stage = "sent"
  BY DEF TimesOut
<1>3. QED
  BY <1>1, <1>2, FailedCallsKeep

LEMMA DisconnectKeeps ==
    ASSUME IInv, Disconnect
    PROVE  IInv'
<1> DEFINE Waiting == {c \in Caller : call[c].stage = "sent"}
<1>1. call' = [c \in Caller |-> IF c \in Waiting
                  THEN [call[c] EXCEPT !.stage = "idle", !.outcome = "failed"]
                  ELSE call[c]]
  BY DEF Disconnect
<1>2. QED
  BY <1>1, FailedCallsKeep DEF Disconnect
-----------------------------------------------------------------------------
LEMMA ControlStep ==
    ASSUME IInv, [Next]_vars
    PROVE  IInv'
<1>1. CASE \E c \in Caller : (\E r \in Requests(entity) : Ask(c, r)) \/ Answered(c) \/ TimesOut(c)
  BY <1>1, AskKeeps, AnsweredKeeps, TimesOutKeeps
<1>2. CASE \E x \in wire : Execute(x) \/ Reject(x)
  BY <1>2, ExecuteKeeps, RejectKeeps
<1>3. CASE Disconnect
  BY <1>3, DisconnectKeeps
<1>4. CASE Merge \/ Elsewhere \/ Reconnect \/ (\E s \in Standings, q \in CloudStates(entity, device) : Refresh(s, q))
  BY <1>4, UnmovedKeeps DEF Merge, Elsewhere, Reconnect, Refresh, InvVars
<1>5. CASE UNCHANGED vars
  BY <1>5, UnmovedKeeps DEF vars, InvVars
<1>6. QED
  BY <1>1, <1>2, <1>3, <1>4, <1>5 DEF Next

\* Whatever devices there are, however many calls overlap, and however late
\* their commands are executed: a successful call was executed once, a refused
\* or rejected one never (async_control_device).
THEOREM OutcomesAreTrue == Spec => []OutcomeIsTrue
<1>1. IInv /\ [Next]_vars => IInv'
  BY ControlStep
<1>2. IInv => OutcomeIsTrue
  BY DEF IInv
<1>3. QED
  BY <1>1, <1>2, InitEstablishes, PTL DEF Spec
-----------------------------------------------------------------------------
(* The device and what is shown of it.  *)

\* Everything is of its kind.
Typed ==
    /\ Sound(entity)
    /\ known \in BOOLEAN /\ connected \in BOOLEAN
    /\ reported \in BOOLEAN /\ missed \in BOOLEAN
    /\ gateway \in Hub \cup {NoUid} /\ (gateway # NoUid => known)
    /\ shown \in State \cup {None}
    /\ reports \in Seq(Report) /\ Len(reports) <= MaxReports
    /\ asked \in Requests(entity) \cup {None}
    /\ asks <= MaxAsks /\ changes \in 0..MaxChanges

\* A command under way was built from its request and the state it remembers.
Commands ==
    \A x \in wire : /\ x.request \in Requests(entity)
                    /\ x.basis \in State \cup {None} /\ x.to \in Hub
                    /\ x.command = Built(entity, x.request, x.basis)

\* The last report under way is of the device as it is; with none under way
\* and none missed, the device is shown as it is, from a report.
Follows ==
    /\ known \/ missed
    /\ missed \/ reported
    /\ reported => shown # None
    /\ reports # <<>> => reports[Len(reports)].state = device
    /\ reports = <<>> /\ ~missed => shown = device

DeviceInv == Typed /\ Commands /\ Follows /\ Proper(entity, device)

DeviceVars == <<place, device, shown, reports, reported, missed, wire, asked, asks, changes>>

LEMMA ProperState ==
    ASSUME NEW e, NEW s, Proper(e, s)
    PROVE  s \in State
BY DEF Proper, Fits

LEMMA AppendedLast ==
    ASSUME NEW q \in Seq(Report), NEW s \in Report
    PROVE  /\ Append(q, s) \in Seq(Report) /\ Append(q, s) # <<>>
           /\ Len(Append(q, s)) = Len(q) + 1
           /\ Append(q, s)[Len(Append(q, s))] = s
OBVIOUS

LEMMA TailLast ==
    ASSUME NEW q \in Seq(Report), q # <<>>
    PROVE  /\ Tail(q) \in Seq(Report) /\ Len(Tail(q)) <= Len(q) /\ Head(q) \in Report
           /\ Tail(q) # <<>> => Tail(q)[Len(Tail(q))] = q[Len(q)]
           /\ Tail(q) = <<>> => Head(q) = q[Len(q)]
<1>1. Len(q) \in Nat /\ Len(q) # 0
  OBVIOUS
<1>2. Tail(q) \in Seq(Report) /\ Len(Tail(q)) = Len(q) - 1 /\ Head(q) = q[1] /\ Head(q) \in Report
  OBVIOUS
<1>3. \A i \in 1..(Len(q) - 1) : Tail(q)[i] = q[i + 1]
  OBVIOUS
<1>4. ASSUME Tail(q) # <<>> PROVE Tail(q)[Len(Tail(q))] = q[Len(q)]
  <2>1. Len(Tail(q)) # 0
    BY <1>2, <1>4
  <2>2. Len(q) - 1 \in 1..(Len(q) - 1) /\ (Len(q) - 1) + 1 = Len(q)
    BY <1>1, <1>2, <2>1
  <2>3. QED
    BY <1>2, <1>3, <2>2
<1>5. ASSUME Tail(q) = <<>> PROVE Head(q) = q[Len(q)]
  <2>1. SUFFICES ASSUME Len(q) # 1 PROVE FALSE
    BY <1>2
  <2>2. Len(q) - 1 # 0
    BY <1>1, <2>1
  <2>3. Len(Tail(q)) # Len(<<>>)
    BY <1>2, <2>2
  <2>4. QED
    BY <1>5, <2>3
<1>6. Len(Tail(q)) <= Len(q)
  BY <1>1, <1>2
<1>7. QED
  BY <1>2, <1>4, <1>5, <1>6

\* Whatever the cloud says is a state.
LEMMA CloudStatesAreStates ==
    ASSUME NEW e, Sound(e), NEW s \in State, NEW q \in CloudStates(e, s)
    PROVE  q \in State \cup {None}
<1>1. ASSUME NEW h \in Manual(e) \cup {s} PROVE h \in State /\ [h EXCEPT !.props = NoProps] \in State
  <2>1. h \in State
    BY <1>1, ManualIsProper, ProperState
  <2>2. QED
    BY <2>1 DEF State
<1>2. QED
  BY <1>1 DEF CloudStates

LEMMA InitDevice == Init => DeviceInv
<1> SUFFICES ASSUME Init PROVE DeviceInv
  OBVIOUS
<1>1. Sound(entity) /\ device \in Manual(entity)
  BY DEF Init, Sound
<1>2. Proper(entity, device) /\ device \in State
  BY <1>1, ManualIsProper, ProperState
<1>3. reports = <<>> /\ reported = FALSE /\ missed = TRUE /\ known = TRUE
  BY DEF Init
<1>8. shown \in State \cup {None}
  <2>1. shown \in CloudStates(entity, device)
    BY DEF Init
  <2>2. QED
    BY <1>1, <1>2, <2>1, CloudStatesAreStates
<1>9. reports \in Seq(Report) /\ Len(reports) <= MaxReports
  BY <1>3, ControlAssumption
<1>10. /\ gateway \in Hub \cup {NoUid} /\ connected \in BOOLEAN
       /\ asked \in Requests(entity) \cup {None} /\ asks <= MaxAsks /\ changes \in 0..MaxChanges
  BY ControlAssumption DEF Init
<1>4. Typed
  BY <1>1, <1>3, <1>8, <1>9, <1>10 DEF Typed
<1>5. Commands
  BY DEF Init, Commands
<1>6. Follows
  BY <1>3 DEF Follows
<1>7. QED
  BY <1>2, <1>4, <1>5, <1>6 DEF DeviceInv

LEMMA AskDevice ==
    ASSUME DeviceInv, NEW c \in Caller, NEW r \in Requests(entity), Ask(c, r), asks \in Nat
    PROVE  DeviceInv'
<1>1. /\ UNCHANGED <<entity, known, gateway, connected, device, shown, reports, reported,
                     missed, asked, changes>>
      /\ asks' <= MaxAsks
  BY ControlAssumption DEF Ask, place
<1>2. Typed'
  BY <1>1 DEF DeviceInv, Typed, Sound
<1>3. Follows' /\ Proper(entity, device)'
  BY <1>1 DEF DeviceInv, Follows, Proper, Fits, Lit
<1>4. Commands'
  <2>1. \/ wire' = wire
        \/ /\ gateway # NoUid
           /\ wire' = wire \cup {[number |-> asks + 1, to |-> gateway, request |-> r,
                                  basis |-> shown, command |-> Built(entity, r, shown)]}
    BY DEF Ask
  <2>2. shown \in State \cup {None} /\ gateway \in Hub \cup {NoUid}
    BY DEF DeviceInv, Typed
  <2>3. ASSUME NEW x \in wire'
        PROVE  /\ x.request \in Requests(entity) /\ x.basis \in State \cup {None}
               /\ x.to \in Hub /\ x.command = Built(entity, x.request, x.basis)
    BY <2>1, <2>2 DEF DeviceInv, Commands
  <2>4. entity' = entity
    BY <1>1
  <2>5. QED
    BY <2>3, <2>4 DEF Commands
<1>5. QED
  BY <1>2, <1>3, <1>4 DEF DeviceInv

\* The device changes, and reports what it is.
LEMMA ReportedDevice ==
    ASSUME DeviceInv, Len(reports) < MaxReports, Proper(entity, device'),
           NEW h \in Hub, reports' = Append(reports, [from |-> h, state |-> device']),
           asked' \in Requests(entity) \cup {None}, wire' \subseteq wire,
           UNCHANGED <<place, shown, reported, missed, asks>>, changes' \in 0..MaxChanges
    PROVE  DeviceInv'
<1>1. UNCHANGED <<entity, known, gateway, connected, shown, reported, missed, asks>>
  BY DEF place
<1>2. [from |-> h, state |-> device'] \in Report /\ reports \in Seq(Report)
  BY ProperState DEF DeviceInv, Typed, Report
<1>3. /\ reports' \in Seq(Report) /\ reports' # <<>> /\ Len(reports') = Len(reports) + 1
      /\ reports'[Len(reports')] = [from |-> h, state |-> device']
  BY <1>2, AppendedLast
<1>4. Len(reports') <= MaxReports
  <2>1. Len(reports) \in Nat /\ MaxReports \in Nat
    BY <1>2, ControlAssumption
  <2>2. QED
    BY <1>3, <2>1
<1>5. Typed'
  BY <1>1, <1>3, <1>4 DEF DeviceInv, Typed, Sound
<1>6. Commands'
  BY <1>1 DEF DeviceInv, Commands
<1>7. Follows'
  BY <1>1, <1>3 DEF DeviceInv, Follows
<1>8. Proper(entity, device)'
  BY <1>1 DEF Proper, Fits, Lit
<1>9. QED
  BY <1>5, <1>6, <1>7, <1>8 DEF DeviceInv

LEMMA ExecuteDevice ==
    ASSUME DeviceInv, NEW x \in wire, Execute(x)
    PROVE  DeviceInv'
<1>1. /\ x.request \in Requests(entity) /\ x.basis \in State \cup {None} /\ x.to \in Hub
      /\ x.command = Built(entity, x.request, x.basis)
      /\ Sound(entity) /\ Proper(entity, device)
  BY DEF DeviceInv, Commands, Typed
<1>2. Proper(entity, device')
  BY <1>1, ExecutedIsProper DEF Execute
<1>3. changes' \in 0..MaxChanges
  BY DEF Execute, DeviceInv, Typed
<1>4. QED
  BY <1>1, <1>2, <1>3, ReportedDevice DEF Execute

LEMMA ElsewhereDevice ==
    ASSUME DeviceInv, Elsewhere
    PROVE  DeviceInv'
<1>1. Proper(entity, device')
  BY ManualIsProper DEF Elsewhere, DeviceInv, Typed
<1>2. changes' \in 0..MaxChanges
  BY ControlAssumption DEF Elsewhere, DeviceInv, Typed
<1>3. wire' \subseteq wire /\ asked' \in Requests(entity) \cup {None}
  BY DEF Elsewhere
<1>4. PICK h \in Hub : reports' = Append(reports, [from |-> h, state |-> device'])
  BY DEF Elsewhere
<1>5. QED
  BY <1>1, <1>2, <1>3, <1>4, ReportedDevice DEF Elsewhere

LEMMA MergeDevice ==
    ASSUME DeviceInv, Merge
    PROVE  DeviceInv'
<1>1. /\ UNCHANGED <<entity, known, gateway, connected, device, wire, asked, asks, changes>>
      /\ reports # <<>> /\ reports' = Tail(reports) /\ reports \in Seq(Report)
  BY DEF Merge, place, DeviceInv, Typed
<1>2. /\ Tail(reports) \in Seq(Report) /\ Len(Tail(reports)) <= Len(reports)
      /\ Head(reports).state \in State
      /\ Tail(reports) # <<>> => Tail(reports)[Len(Tail(reports))] = reports[Len(reports)]
      /\ Tail(reports) = <<>> => Head(reports) = reports[Len(reports)]
  BY <1>1, TailLast DEF Report
<1>3. reports[Len(reports)].state = device
  BY <1>1 DEF DeviceInv, Follows
<1>4. \/ known /\ shown' = Head(reports).state /\ reported' = TRUE /\ missed' = FALSE
      \/ missed' = TRUE /\ UNCHANGED <<shown, reported>>
  BY <1>1 DEF Merge
<1>5. Len(reports') <= MaxReports
  <2>1. Len(reports) \in Nat /\ Len(Tail(reports)) \in Nat
    BY <1>1, <1>2
  <2>2. Len(reports) <= MaxReports /\ MaxReports \in Nat
    BY ControlAssumption DEF DeviceInv, Typed
  <2>3. QED
    BY <1>1, <1>2, <2>1, <2>2
<1>6. shown' \in State \cup {None} /\ reported' \in BOOLEAN /\ missed' \in BOOLEAN
  BY <1>2, <1>4 DEF DeviceInv, Typed
<1>7. Typed'
  BY <1>1, <1>2, <1>5, <1>6 DEF DeviceInv, Typed, Sound
<1>8. Commands'
  BY <1>1 DEF DeviceInv, Commands
<1>9. Follows'
  <2>1. (known' \/ missed') /\ (missed' \/ reported')
    BY <1>1, <1>4
  <2>2. reported' => shown' # None
    BY <1>2, <1>4, StateAssumption DEF DeviceInv, Follows
  <2>3. reports' # <<>> => reports'[Len(reports')].state = device'
    BY <1>1, <1>2, <1>3
  <2>4. reports' = <<>> /\ ~missed' => shown' = device'
    BY <1>1, <1>2, <1>3, <1>4
  <2>5. QED
    BY <2>1, <2>2, <2>3, <2>4 DEF Follows
<1>10. Proper(entity, device)'
  BY <1>1 DEF DeviceInv, Proper, Fits, Lit
<1>11. QED
  BY <1>7, <1>8, <1>9, <1>10 DEF DeviceInv

LEMMA DisconnectDevice ==
    ASSUME DeviceInv, Disconnect
    PROVE  DeviceInv'
<1>1. /\ UNCHANGED <<entity, known, gateway, device, shown, reported, asked, asks>>
      /\ connected' = FALSE /\ wire' = {} /\ reports' = <<>>
      /\ missed' = (missed \/ reports # <<>>)
  BY DEF Disconnect
<1>2. changes' \in 0..MaxChanges
  <2>1. changes < MaxChanges /\ changes' = changes + 1
    BY DEF Disconnect
  <2>2. QED
    BY <2>1, ControlAssumption DEF DeviceInv, Typed
<1>3. reports' \in Seq(Report) /\ Len(reports') <= MaxReports
  BY <1>1, ControlAssumption
<1>4. Typed'
  BY <1>1, <1>2, <1>3 DEF DeviceInv, Typed, Sound
<1>5. Commands'
  BY <1>1 DEF Commands
<1>6. Follows'
  BY <1>1 DEF DeviceInv, Follows
<1>7. Proper(entity, device)'
  BY <1>1 DEF DeviceInv, Proper, Fits, Lit
<1>8. QED
  BY <1>4, <1>5, <1>6, <1>7 DEF DeviceInv

LEMMA RefreshDevice ==
    ASSUME DeviceInv, NEW standing \in Standings, NEW cloud \in CloudStates(entity, device),
           Refresh(standing, cloud)
    PROVE  DeviceInv'
<1>1. PICK row \in Rows, status \in Statuses :
         standing = [known |-> Known(row, status, Hub), gateway |-> Gateway(row, status, Hub)]
  BY DEF Standings
<1>2. known' = Known(row, status, Hub) /\ gateway' = Gateway(row, status, Hub)
  BY <1>1 DEF Refresh
<1>3. known' \in BOOLEAN
  BY <1>2 DEF Known, FromRow, FromStatus, Rows, Statuses, Readable
<1>4. gateway' \in Hub \cup {NoUid} /\ (gateway' # NoUid => known')
  BY <1>2 DEF Gateway
<1>5. UNCHANGED <<entity, connected, device, reports, wire, asked, asks>>
  BY DEF Refresh
<1>6. changes' \in 0..MaxChanges
  BY ControlAssumption DEF Refresh, DeviceInv, Typed
<1>7. /\ shown \in State \cup {None} /\ reported \in BOOLEAN /\ missed \in BOOLEAN
      /\ missed \/ reported
      /\ reported => shown # None
  BY DEF DeviceInv, Typed, Follows
<1>8. cloud \in State \cup {None}
  BY CloudStatesAreStates, ProperState DEF DeviceInv, Typed
<1>9. /\ shown' \in State \cup {None} /\ reported' \in BOOLEAN /\ missed' \in BOOLEAN
      /\ (known' \/ missed') /\ (missed' \/ reported')
      /\ reported' => shown' # None
      /\ ~missed' => ~missed /\ shown' = shown
  <2>1. CASE ~known'
    BY <1>7, <2>1 DEF Refresh
  <2>2. ASSUME known' PROVE CloudMerged(cloud) /\ reported' = reported
    BY <2>2 DEF Refresh
  <2>3. CASE known' /\ cloud = None
    BY <1>7, <2>2, <2>3 DEF CloudMerged
  <2>4. CASE known' /\ cloud # None /\ ~reported
    <3>1. shown' = cloud /\ missed' = missed /\ reported' = reported
      BY <2>2, <2>4 DEF CloudMerged
    <3>2. QED
      BY <1>7, <1>8, <2>4, <3>1
  <2>5. CASE known' /\ cloud # None /\ reported
    <3>1. /\ shown' = IF OtherShape(cloud) THEN [shown EXCEPT !.props = NoProps] ELSE shown
          /\ missed' = (missed \/ OtherShape(cloud)) /\ reported' = reported
      BY <2>2, <2>5 DEF CloudMerged
    <3>2. shown \in State /\ [shown EXCEPT !.props = NoProps] \in State
      BY <1>7, <2>5 DEF State
    <3>3. CASE OtherShape(cloud)
      BY <1>7, <2>5, <3>1, <3>2, <3>3, StateAssumption
    <3>4. CASE ~OtherShape(cloud)
      BY <1>7, <2>5, <3>1, <3>2, <3>4, StateAssumption
    <3>5. QED
      BY <3>3, <3>4
  <2>6. QED
    BY <2>1, <2>3, <2>4, <2>5
<1>10. Typed'
  BY <1>3, <1>4, <1>5, <1>6, <1>9 DEF DeviceInv, Typed, Sound
<1>11. Commands'
  BY <1>5 DEF DeviceInv, Commands
<1>12. Follows'
  BY <1>5, <1>9 DEF DeviceInv, Follows
<1>13. Proper(entity, device)'
  BY <1>5 DEF DeviceInv, Proper, Fits, Lit
<1>14. QED
  BY <1>10, <1>11, <1>12, <1>13 DEF DeviceInv

\* Steps of the calls and of the connection alone.
LEMMA UnmovedDevice ==
    ASSUME DeviceInv, wire' \subseteq wire, connected' \in BOOLEAN,
           UNCHANGED <<entity, known, gateway, device, shown, reports, reported, missed,
                       asked, asks, changes>>
    PROVE  DeviceInv'
<1>1. Typed'
  BY DEF DeviceInv, Typed, Sound
<1>2. Commands'
  BY DEF DeviceInv, Commands
<1>3. Follows' /\ Proper(entity, device)'
  BY DEF DeviceInv, Follows, Proper, Fits, Lit
<1>4. QED
  BY <1>1, <1>2, <1>3 DEF DeviceInv

LEMMA DeviceStep ==
    ASSUME DeviceInv, asks \in Nat, [Next]_vars
    PROVE  DeviceInv'
<1>1. connected \in BOOLEAN
  BY DEF DeviceInv, Typed
<1>2. ASSUME NEW c \in Caller, NEW r \in Requests(entity), Ask(c, r) PROVE DeviceInv'
  BY <1>2, AskDevice
<1>3. ASSUME NEW c \in Caller, Answered(c) \/ TimesOut(c) PROVE DeviceInv'
  BY <1>1, <1>3, UnmovedDevice DEF Answered, TimesOut, place
<1>4. ASSUME NEW x \in wire, Execute(x) PROVE DeviceInv'
  BY <1>4, ExecuteDevice
<1>5. ASSUME NEW x \in wire, Reject(x) PROVE DeviceInv'
  BY <1>1, <1>5, UnmovedDevice DEF Reject, place
<1>6. CASE Reconnect
  BY <1>6, UnmovedDevice DEF Reconnect
<1>7. CASE UNCHANGED vars
  BY <1>1, <1>7, UnmovedDevice DEF vars
<1>8. QED
  BY <1>2, <1>3, <1>4, <1>5, <1>6, <1>7, MergeDevice, ElsewhereDevice, DisconnectDevice,
     RefreshDevice DEF Next
-----------------------------------------------------------------------------
\* Every variable is of its kind, and a report, a command or a request never
\* turns into something the device could not be or be asked.
THEOREM ControlTypeCorrect == Spec => []TypeOK
<1>1. Init => IInv /\ DeviceInv
  BY InitEstablishes, InitDevice
<1>2. IInv /\ DeviceInv /\ [Next]_vars => IInv' /\ DeviceInv'
  BY ControlStep, DeviceStep DEF IInv, Numbered
<1>3. IInv /\ DeviceInv => TypeOK
  <2> SUFFICES ASSUME IInv, DeviceInv PROVE TypeOK
    OBVIOUS
  <2>1. device \in State
    BY ProperState DEF DeviceInv
  <2>2. call \in [Caller -> [stage: {"idle", "sent"}, answer: {"none", "ok", "rejected"},
                           outcome: {"none", "ok", "refused", "rejected", "failed"},
                           executed: 0..1, number: 0..asks]]
    <3>1. asks \in Nat /\ call \in [Caller -> CallState] /\ \A c \in Caller : call[c].number <= asks
      BY DEF IInv, Numbered
    <3>2. ASSUME NEW s \in CallState, s.number <= asks
          PROVE  s \in [stage: {"idle", "sent"}, answer: {"none", "ok", "rejected"},
                        outcome: {"none", "ok", "refused", "rejected", "failed"},
                        executed: 0..1, number: 0..asks]
      BY <3>1, <3>2 DEF CallState
    <3>3. QED
      BY <3>1, <3>2
  <2>3. \A x \in wire : /\ x.number \in 1..asks /\ x.request \in Requests(entity)
                        /\ x.basis \in State \cup {None} /\ x.to \in Hub
    BY DEF IInv, Numbered, DeviceInv, Commands
  <2>4. asks \in 0..MaxAsks
    BY ControlAssumption DEF IInv, Numbered, DeviceInv, Typed
  <2>5. QED
    BY <2>1, <2>2, <2>3, <2>4 DEF DeviceInv, Typed, Sound, TypeOK
<1>4. QED
  BY <1>1, <1>2, <1>3, PTL DEF Spec

\* Fans of type 516, whose one number carries what is asked and what is shown.
FansOfOneNumber == \A p \in Profile : p.platform = "fan" => p.type = 516

\* The device shows what was asked of it last.
DeviceShows == asked # None => Shows(entity, asked, device)

LEMMA ShowsStep ==
    ASSUME FansOfOneNumber, DeviceInv, DeviceShows, [Next]_vars
    PROVE  DeviceShows'
<1>1. entity' = entity
  BY DEF Next, vars, place, Ask, Answered, TimesOut, Execute, Reject, Merge, Elsewhere,
         Disconnect, Reconnect, Refresh
<1>2. ASSUME NEW x \in wire, Execute(x) PROVE DeviceShows'
  <2>1. /\ x.request \in Requests(entity) /\ x.basis \in State \cup {None}
        /\ x.command = Built(entity, x.request, x.basis)
        /\ Sound(entity) /\ Proper(entity, device)
    BY DEF DeviceInv, Commands, Typed
  <2>2. entity.platform = "fan" => entity.type = 516
    BY <2>1 DEF Sound, FansOfOneNumber
  <2>3. device' \in Executed(entity, device, Built(entity, x.request, x.basis))
        /\ asked' = x.request
    BY <1>2, <2>1 DEF Execute
  <2>4. Shows(entity, x.request, device')
    BY <2>1, <2>2, <2>3, ExecutedIsShown
  <2>5. QED
    BY <1>1, <2>3, <2>4 DEF DeviceShows
<1>3. CASE Elsewhere
  BY <1>3 DEF Elsewhere, DeviceShows
<1>4. CASE UNCHANGED <<device, asked>>
  BY <1>1, <1>4 DEF DeviceShows
<1>5. QED
  BY <1>2, <1>3, <1>4 DEF Next, vars, Ask, Answered, TimesOut, Reject, Merge,
     Disconnect, Reconnect, Refresh

\* Whatever was executed meanwhile, late or out of turn: once the reports of
\* the device are merged, its entity shows what was asked of it last.
THEOREM AskedComesBack ==
    ASSUME FansOfOneNumber
    PROVE  Spec => []AskedIsShown
<1>1. Init => IInv /\ DeviceInv /\ DeviceShows
  BY InitEstablishes, InitDevice DEF Init, DeviceShows
<1>2. IInv /\ DeviceInv /\ DeviceShows /\ [Next]_vars => IInv' /\ DeviceInv' /\ DeviceShows'
  BY ControlStep, DeviceStep, ShowsStep DEF IInv, Numbered
<1>3. DeviceInv /\ DeviceShows => AskedIsShown
  BY DEF DeviceInv, Follows, DeviceShows, AskedIsShown
<1>4. QED
  BY <1>1, <1>2, <1>3, PTL DEF Spec

\* A command loses a setting it is not about only when it was built from a
\* state that was not the device's any more.
THEOREM SettingsKept == Spec => SettingsLostOnlyWhenStale
<1>1. Init => IInv /\ DeviceInv
  BY InitEstablishes, InitDevice
<1>2. IInv /\ DeviceInv /\ [Next]_vars => IInv' /\ DeviceInv'
  BY ControlStep, DeviceStep DEF IInv, Numbered
<1>3. DeviceInv /\ [Next]_vars =>
        [\A x \in wire :
            Execute(x) /\ x.basis = device => Keeps(entity, x.request, device, device')]_vars
  <2>1. ASSUME DeviceInv, NEW x \in wire, Execute(x), x.basis = device
        PROVE  Keeps(entity, x.request, device, device')
    <3>1. /\ x.request \in Requests(entity)
          /\ x.command = Built(entity, x.request, device)
          /\ Sound(entity) /\ Proper(entity, device)
      BY <2>1 DEF DeviceInv, Commands, Typed
    <3>2. device' \in Executed(entity, device, Built(entity, x.request, device))
      BY <2>1, <3>1 DEF Execute
    <3>3. QED
      BY <3>1, <3>2, ExecutedKeeps
  <2>2. QED
    BY <2>1
<1>4. QED
  BY <1>1, <1>2, <1>3, PTL DEF Spec, SettingsLostOnlyWhenStale
=============================================================================
