----------------------------- MODULE DavisReadings -----------------------------
(***************************************************************************)
(* From the raw fields of a console's answer to what Home Assistant shows: *)
(* the packet layouts and their unpack helpers (protocol.py), the masking  *)
(* and completing of a poll's data (client.py), and the values of sensor,  *)
(* binary sensor and weather entities.                                     *)
(*                                                                         *)
(* A value is counted in units of its field's resolution, so that it stays *)
(* an integer: a raw temperature of 721 is the value 72.1 degrees, with a  *)
(* unit of 10.  One extra temperature and one extra humidity stand for all *)
(* the day highs and lows of the HILOWS packet.                            *)
(***************************************************************************)
EXTENDS Integers

CONSTANTS
    Loop2,      \* the use_loop2 option
    Missing,    \* None, or a key that is not there
    Computed    \* a dew point the client computed

ASSUME ReadingsAssumption ==
    Loop2 \in BOOLEAN /\ Missing \notin Int /\ Computed \notin Int \cup {Missing}

(* The struct code of each field; "-" where the masking does not know the
   key: HILOWS sub-arrays are split into keys of their own, and archive
   records are not masked. *)
LoopCode ==
    [TempOut |-> "h", HumOut |-> "B", WindSpeed |-> "B", WindSpeed10Min |-> "B",
     WindDir |-> "H", RainRate |-> "H", UV |-> "B", SolarRad |-> "H",
     Barometer |-> "H", ForecastIcon |-> "B", DewPoint |-> "-",
     WindGust |-> "-", ExtraTemp |-> "-", ExtraHum |-> "-"]

Fields == DOMAIN LoopCode

Code ==
    IF ~Loop2 THEN LoopCode
    ELSE [LoopCode EXCEPT !.WindSpeed10Min = "H", !.WindGust = "H", !.DewPoint = "h"]

(* Mutant of UnpackWindDir: only the undocumented "no data" value. *)
UnpackWindDirNorth == {32767}

(* 0 is the manual's "no data": north is 360. *)
UnpackWindDir == {0, 32767}

(* What the unpack helpers take for a dash. *)
Unpack ==
    [f \in Fields |->
        CASE f \in {"TempOut", "SolarRad"}       -> {32767}
          [] f \in {"HumOut", "WindSpeed", "UV"} -> {255}
          [] f = "WindDir"                       -> UnpackWindDir
          [] f = "RainRate"                      -> {65535}
          [] f = "WindSpeed10Min" /\ ~Loop2      -> {255}
          [] f = "DewPoint"                      -> {255}
          [] OTHER                               -> {}]

(* is_incorrect_value: what the masking takes for a dash. *)
Incorrect(code) ==
    CASE code = "B" -> {255}
      [] code = "H" -> {32767, 65535}
      [] code = "h" -> {32767, -32768}
      [] OTHER      -> {}

(* The resolution of a field, and what is taken off its raw value. *)
Unit ==
    [f \in Fields |->
        CASE f \in {"TempOut", "UV"}                            -> 10
          [] f \in {"WindSpeed10Min", "WindGust"} /\ Loop2      -> 10
          [] f = "RainRate"                                     -> 100
          [] f = "Barometer"                                    -> 1000
          [] OTHER                                              -> 1]

Offset(f) == IF f = "ExtraTemp" THEN 90 ELSE 0

(* An answer has a LOOP or LOOP2 packet; HILOWS and archive may have failed. *)
Answer == [raw : [Fields -> Int], hilows : BOOLEAN, archive : BOOLEAN]

Arrived(a) ==
    {f \in Fields :
        /\ f \in {"ExtraTemp", "ExtraHum"} => a.hilows
        /\ f = "WindGust" => Loop2 \/ a.archive
        /\ f = "DewPoint" => Loop2
        /\ f = "ForecastIcon" => ~Loop2}

(* The parsers and remove_all_incorrect_data. *)
Parsed(a) ==
    [f \in Fields |->
        IF f \notin Arrived(a) \/ a.raw[f] \in Unpack[f] \cup Incorrect(Code[f])
        THEN Missing ELSE a.raw[f] - Offset(f)]

(* The logarithm of a humidity of zero: the whole poll fails. *)
DewPointRaises(a) ==
    /\ Parsed(a).HumOut = 0 /\ Parsed(a).TempOut # Missing
    /\ Parsed(a).DewPoint = Missing

(* Mutant of CalmBearing: a wind speed that is missing counts as calm. *)
CalmBearingMissing(d) ==
    IF d.WindDir = Missing /\ d.WindSpeed \in {0, Missing} THEN 0 ELSE d.WindDir

(* add_additional_info: no direction in calm air is 0. *)
CalmBearing(d) ==
    IF d.WindDir = Missing /\ d.WindSpeed = 0 THEN 0 ELSE d.WindDir

DewPoint(d) ==
    IF d.DewPoint = Missing /\ Missing \notin {d.TempOut, d.HumOut}
    THEN Computed ELSE d.DewPoint

Data(a) ==
    [Parsed(a) EXCEPT !.WindDir = CalmBearing(Parsed(a)),
                      !.DewPoint = DewPoint(Parsed(a))]

-----------------------------------------------------------------------------
(***************************************************************************)
(* The entities' values                                                    *)
(***************************************************************************)

(* Sixteen points, "n" the first: 22.5 degrees each, shifted by 11.25. *)
WindRose(degrees) == 1 + (((4 * degrees + 45) \div 90) % 16)

WindDirOrNone(d) == IF d.WindDir \in {0, 32767} THEN Missing ELSE d.WindDir

(* 20 to 32.5 inches of mercury. *)
Pressures == 20000..32500

(* Mutant of BarometerOrNone: readings out of range pass. *)
BarometerOrNoneAny(d) == d.Barometer

BarometerOrNone(d) ==
    IF d.Barometer # Missing /\ d.Barometer \in Pressures
    THEN d.Barometer ELSE Missing

(* The icons by their texts, each text named by one of its icons. *)
Icons == {0, 2, 3, 6, 7, 8, 18, 19, 22, 23}
Outlook(icon) ==
    CASE icon \in {0, 8}   -> 0
      [] icon \in {2, 3}   -> 2
      [] icon \in {18, 22} -> 18
      [] icon \in {19, 23} -> 19
      [] OTHER             -> icon

(* The condition sensors fall back to the text of icon 0, "Sunny". *)
MapForecastIcon(d) == IF d.ForecastIcon \in Icons THEN Outlook(d.ForecastIcon) ELSE 0

DashValues == {255, 32767, 32768, -32768}

Sensors    == Fields \cup {"WindRose"}
Directions == {"WindDir", "WindRose"}

(* Mutant of GetWindRose: 255 degrees is a direction like any other. *)
GetWindRoseAny(degrees) ==
    IF degrees = Missing THEN Missing ELSE WindRose(degrees)

GetWindRose(degrees) ==
    IF degrees \in {Missing} \cup DashValues THEN Missing ELSE WindRose(degrees)

ValueFn(d, s) ==
    CASE s = "WindDir"      -> WindDirOrNone(d)
      [] s = "WindRose"     -> GetWindRose(WindDirOrNone(d))
      [] s = "Barometer"    -> BarometerOrNone(d)
      [] s = "ForecastIcon" -> MapForecastIcon(d)
      [] OTHER              -> d[s]

(* Mutant of IsDash: only a missing value is a dash. *)
IsDashMissing(s, v) == v = Missing

(* native_value compares the value, whatever the sensor, with the dashes of
   all kinds of fields.  Points of the rose and conditions are texts. *)
IsDash(s, v) ==
    v = Missing \/ (s \in Fields \ {"ForecastIcon"} /\
                    \E n \in DashValues : v = n * Unit[s])

(* Mutant of NativeValue: a dashed direction is not held. *)
NativeValueNotHeld(d, s, held) ==
    LET v == ValueFn(d, s)
    IN IF ~IsDash(s, v) THEN v ELSE IF s = "RainRate" THEN 0 ELSE Missing

(* native_value: a dashed direction is held, a dashed rain rate is zero. *)
NativeValue(d, s, held) ==
    LET v == ValueFn(d, s)
    IN IF ~IsDash(s, v) THEN v
       ELSE CASE s \in Directions -> held
              [] s = "RainRate"   -> 0
              [] OTHER            -> Missing

(* binary_sensor.py: IsRaining is only set when there is a rain rate. *)
IsRaining(d) == d.RainRate # Missing /\ d.RainRate > 0

(* Mutant of IssConnection: both readings are needed. *)
IssConnectionBoth(d) == \A f \in {"TempOut", "WindSpeed"} : ~IsDash(f, d[f])

IssConnection(d) == \E f \in {"TempOut", "WindSpeed"} : ~IsDash(f, d[f])

(* weather.py: its attributes, and the condition with its rain fallback. *)
Attributes == {"TempOut", "HumOut", "Barometer", "WindSpeed", "WindGust",
               "WindDir", "DewPoint", "UV"}

(* Mutant of NativePressure: the weather entity shows what the sensor hides. *)
NativePressureAny(d) == d.Barometer

NativePressure(d) ==
    IF d.Barometer = Missing \/ d.Barometer \in Pressures
    THEN d.Barometer ELSE Missing

Attribute(d, f) ==
    CASE f = "Barometer" -> NativePressure(d)
      [] f = "WindGust" /\ d.WindGust = 255 * Unit["WindGust"] -> Missing
      [] OTHER           -> d[f]

Raining(d) == ~IsDash("RainRate", d.RainRate) /\ d.RainRate > 0

(* Mutant of Condition: rain is looked at before the icon. *)
ConditionRainFirst(d) ==
    IF Raining(d) THEN 7
    ELSE IF d.ForecastIcon \in Icons THEN Outlook(d.ForecastIcon) ELSE 6

Condition(d) ==
    IF d.ForecastIcon \in Icons THEN Outlook(d.ForecastIcon)
    ELSE IF Raining(d) THEN 7 ELSE 6
=============================================================================
