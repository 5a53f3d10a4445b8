-------------------------- MODULE DavisEntities_proofs --------------------------
(***************************************************************************)
(* Proofs about DavisEntities, for any answers a console may give: what a  *)
(* sensor shows was measured, directions are held, the three platforms     *)
(* agree, and warnings and the repair issue follow the outages.            *)
(***************************************************************************)
EXTENDS DavisEntities, DavisCoordinator_proofs

LEMMA FieldNames ==
    Fields = {"TempOut", "HumOut", "WindSpeed", "WindSpeed10Min", "WindDir",
              "RainRate", "UV", "SolarRad", "Barometer", "ForecastIcon", "DewPoint",
              "WindGust", "ExtraTemp", "ExtraHum"}
BY DEF Fields, LoopCode

(* A field that is there was in the answer, and was not masked. *)
LEMMA ParsedFields ==
    ASSUME NEW a \in Answer, NEW f \in Fields
    PROVE  /\ Parsed(a)[f] \in Int \cup {Missing}
           /\ Parsed(a)[f] # Missing =>
                /\ f \in Arrived(a) /\ Parsed(a)[f] = a.raw[f] - Offset(f)
                /\ a.raw[f] \notin Unpack[f] /\ a.raw[f] \notin Incorrect(Code[f])
           /\ Parsed(a)[f] = Missing =>
                \/ f \notin Arrived(a) \/ a.raw[f] \in Unpack[f]
                \/ a.raw[f] \in Incorrect(Code[f])
<1>1. a.raw[f] \in Int /\ Offset(f) \in Int
  BY DEF Answer, Offset
<1>2. a.raw[f] - Offset(f) \in Int
  BY <1>1
<1>3. Parsed(a)[f] = IF f \notin Arrived(a) \/ a.raw[f] \in Unpack[f] \cup Incorrect(Code[f])
                     THEN Missing ELSE a.raw[f] - Offset(f)
  BY DEF Parsed
<1>4. Missing \notin Int
  BY ReadingsAssumption
<1>5. QED
  BY <1>2, <1>3, <1>4

(* Post-processing only completes the direction and the dew point. *)
LEMMA DataFields ==
    ASSUME NEW a
    PROVE  /\ \A f \in Fields \ {"WindDir", "DewPoint"} : Data(a)[f] = Parsed(a)[f]
           /\ Data(a)["WindDir"] = CalmBearing(Parsed(a))
           /\ Data(a)["DewPoint"] = DewPoint(Parsed(a))
<1>1. Parsed(a) = [f \in Fields |-> Parsed(a)[f]]
  BY DEF Parsed
<1>2. QED
  BY <1>1, FieldNames DEF Data

LEMMA UnitTypes == \A f \in Fields : Unit[f] \in Nat
BY FieldNames DEF Unit

(* A direction that is no dash is the one the console measured. *)
LEMMA DirectionRead ==
    ASSUME NEW a \in Answer
    PROVE  LET v == WindDirOrNone(Data(a)) IN
           /\ v # Missing => v \in Int /\ v = a.raw["WindDir"] /\ Measured(a, "WindDir")
           /\ v = Missing => a.raw["WindDir"] \in {0, 32767, 65535}
<1> DEFINE p == Parsed(a)
<1>1. "WindDir" \in Fields /\ "WindDir" \in Arrived(a) /\ "WindSpeed" \in Fields
  BY FieldNames DEF Arrived
<1>2. /\ Unpack["WindDir"] = {0, 32767} /\ NoData("WindDir") = {0, 32767}
      /\ Incorrect(Code["WindDir"]) = {32767, 65535} /\ Offset("WindDir") = 0
  <2>1. Code["WindDir"] = "H"
    BY FieldNames DEF Code, LoopCode
  <2>2. QED
    BY <1>1, <2>1 DEF Unpack, UnpackWindDir, NoData, Incorrect, Offset
<1>3. a.raw["WindDir"] \in Int
  BY <1>1 DEF Answer
<1>4. /\ p["WindDir"] # Missing => p["WindDir"] = a.raw["WindDir"]
             /\ a.raw["WindDir"] \notin {0, 32767}
      /\ p["WindDir"] = Missing => a.raw["WindDir"] \in {0, 32767, 65535}
  BY <1>1, <1>2, <1>3, ParsedFields
<1>5. Data(a)["WindDir"] = IF p["WindDir"] = Missing /\ p["WindSpeed"] = 0
                           THEN 0 ELSE p["WindDir"]
  BY DataFields DEF CalmBearing
<1>6. WindDirOrNone(Data(a)) = IF Data(a)["WindDir"] \in {0, 32767} THEN Missing
                               ELSE Data(a)["WindDir"]
  BY DEF WindDirOrNone
<1>7. Measured(a, "WindDir") <=> a.raw["WindDir"] \notin {0, 32767}
  BY <1>1, <1>2 DEF Measured
<1> HIDE DEF p
<1>8. Missing \notin Int
  BY ReadingsAssumption
<1>9. QED
  BY <1>3, <1>4, <1>5, <1>6, <1>7, <1>8

(* The rose goes with the direction. *)
LEMMA RoseRead ==
    ASSUME NEW a \in Answer
    PROVE  LET v == WindDirOrNone(Data(a)) IN
           /\ ValueFn(Data(a), "WindDir") = v
           /\ IsDash("WindDir", v) <=> v \in {Missing} \cup DashValues
           /\ IsDash("WindRose", ValueFn(Data(a), "WindRose")) <=> IsDash("WindDir", v)
           /\ ~IsDash("WindDir", v) =>
                 v \in Int /\ ValueFn(Data(a), "WindRose") = WindRose(v)
           /\ v \in Int => WindRose(v) \in Int
<1> DEFINE v == WindDirOrNone(Data(a))
<1>1. v \in Int \cup {Missing} /\ Missing \notin Int
  BY DirectionRead, ReadingsAssumption
<1>2. ValueFn(Data(a), "WindDir") = v /\ ValueFn(Data(a), "WindRose") = GetWindRose(v)
  BY DEF ValueFn
<1>3. IsDash("WindDir", v) <=> v \in {Missing} \cup DashValues
  <2>1. Unit["WindDir"] = 1 /\ "WindDir" \in Fields \ {"ForecastIcon"}
    BY FieldNames DEF Unit
  <2>2. QED
    BY <2>1 DEF IsDash, DashValues
<1>4. v \in Int => WindRose(v) \in Int
  BY DEF WindRose
<1>5. IsDash("WindRose", GetWindRose(v)) <=> GetWindRose(v) = Missing
  BY FieldNames DEF IsDash
<1>6. GetWindRose(v) = IF v \in {Missing} \cup DashValues THEN Missing ELSE WindRose(v)
  BY DEF GetWindRose
<1> HIDE DEF v
<1>7. GetWindRose(v) = Missing <=> v \in {Missing} \cup DashValues
  BY <1>1, <1>4, <1>6
<1>8. QED
  BY <1>1, <1>2, <1>3, <1>4, <1>5, <1>6, <1>7 DEF v

-----------------------------------------------------------------------------
(***************************************************************************)
(* What a sensor other than the direction shows                            *)
(***************************************************************************)

(* The fields whose unpack helper knows every dash of theirs. *)
Unpacked == {"TempOut", "HumOut", "WindSpeed", "WindSpeed10Min", "RainRate", "UV",
             "SolarRad", "DewPoint"}

LEMMA UnpackKnows == \A f \in Unpacked : f \in Fields /\ NoData(f) \subseteq Unpack[f]
<1>1. Unpacked \subseteq Fields
  BY FieldNames DEF Unpacked
<1>2. SUFFICES ASSUME NEW f \in Unpacked PROVE NoData(f) \subseteq Unpack[f]
  BY <1>1
<1>3. f \in Fields
  BY <1>1
<1>4. QED
  BY <1>3 DEF NoData, Unpack, Unpacked

(* Such a field, when it is there, was measured. *)
LEMMA UnpackedMeasured ==
    ASSUME NEW a \in Answer, NEW f \in Unpacked, Parsed(a)[f] # Missing
    PROVE  Measured(a, f) /\ Parsed(a)[f] = a.raw[f] - Offset(f)
BY UnpackKnows, ParsedFields DEF Measured

(* The pressure in range, or nothing, on both platforms. *)
LEMMA BarometerRead ==
    ASSUME NEW d, NEW x, x = d["Barometer"]
    PROVE  /\ BarometerOrNone(d) # Missing =>
                 BarometerOrNone(d) = x /\ x # Missing /\ x \in Pressures
           /\ NativePressure(d) = BarometerOrNone(d)
<1>1. /\ BarometerOrNone(d) = IF x # Missing /\ x \in Pressures THEN x ELSE Missing
      /\ NativePressure(d) = IF x = Missing \/ x \in Pressures THEN x ELSE Missing
  BY DEF BarometerOrNone, NativePressure
<1>2. CASE x = Missing
  BY <1>1, <1>2
<1>3. CASE x # Missing /\ x \in Pressures
  BY <1>1, <1>3
<1>4. CASE x # Missing /\ x \notin Pressures
  BY <1>1, <1>4
<1>5. QED
  BY <1>2, <1>3, <1>4

(* A sensor that holds nothing shows its value, or zero, or nothing. *)
LEMMA PlainValue ==
    ASSUME NEW d, NEW s \in Sensors \ Directions, NEW held, NativeValue(d, s, held) # Missing
    PROVE  \/ ~IsDash(s, ValueFn(d, s)) /\ NativeValue(d, s, held) = ValueFn(d, s)
           \/ s = "RainRate" /\ NativeValue(d, s, held) = 0
BY DEF NativeValue

LEMMA ReadingMeasured ==
    ASSUME NEW a \in Answer, NEW held,
           NEW s \in Sensors \ (Directions \cup {"ForecastIcon"}),
           s = "ExtraTemp" => a.raw["ExtraTemp"] # 255,
           NativeValue(Data(a), s, held) # Missing
    PROVE  LET v == NativeValue(Data(a), s, held) IN
           \/ s \in Fields \ {"ForecastIcon"} /\ Measured(a, s) /\ v = a.raw[s] - Offset(s)
           \/ s = "DewPoint" /\ v = Computed
                /\ Measured(a, "TempOut") /\ Measured(a, "HumOut")
           \/ s = "RainRate" /\ v = 0
<1> DEFINE d == Data(a)
           v == NativeValue(d, s, held)
<1>1. s \in Fields \ {"WindDir", "ForecastIcon"}
  BY DEF Sensors, Directions
<1>2. SUFFICES ASSUME ~IsDash(s, ValueFn(d, s)), v = ValueFn(d, s)
               PROVE  \/ Measured(a, s) /\ v = a.raw[s] - Offset(s)
                      \/ s = "DewPoint" /\ v = Computed
                           /\ Measured(a, "TempOut") /\ Measured(a, "HumOut")
  BY <1>1, PlainValue
<1>3. v # Missing
  BY <1>2 DEF IsDash
<1>4. CASE s \in Unpacked \ {"DewPoint"}
  <2>1. v = Parsed(a)[s]
    BY <1>1, <1>2, <1>4, DataFields DEF ValueFn, Unpacked
  <2>2. QED
    BY <1>3, <1>4, <2>1, UnpackedMeasured
<1>5. CASE s = "DewPoint"
  <2>1. v = DewPoint(Parsed(a))
    BY <1>2, <1>5, DataFields DEF ValueFn
  <2>2. CASE Parsed(a)["DewPoint"] # Missing
    <3>1. v = Parsed(a)["DewPoint"]
      BY <2>1, <2>2 DEF DewPoint
    <3>2. QED
      BY <1>5, <2>2, <3>1, UnpackedMeasured DEF Unpacked
  <2>3. CASE Parsed(a)["DewPoint"] = Missing
    <3>1. /\ v = Computed
          /\ Parsed(a)["TempOut"] # Missing /\ Parsed(a)["HumOut"] # Missing
      BY <1>3, <2>1, <2>3 DEF DewPoint
    <3>2. QED
      BY <1>5, <3>1, UnpackedMeasured DEF Unpacked
  <2>4. QED
    BY <2>2, <2>3
<1>6. CASE s = "Barometer"
  <2>1. PICK x : x = d["Barometer"]
    OBVIOUS
  <2>2. x = Parsed(a)["Barometer"]
    BY <1>1, <1>6, <2>1, DataFields
  <2>3. v = BarometerOrNone(d)
    BY <1>2, <1>6 DEF ValueFn
  <2>4. v = x /\ x # Missing /\ x \in Pressures
    BY <1>3, <2>1, <2>3, BarometerRead
  <2>5. x = a.raw["Barometer"] - Offset("Barometer") /\ "Barometer" \in Arrived(a)
    BY <1>1, <1>6, <2>2, <2>4, ParsedFields
  <2>6. Offset("Barometer") = 0 /\ NoData("Barometer") = Int \ Pressures
          /\ a.raw["Barometer"] \in Int
    BY <1>1, <1>6 DEF Offset, NoData, Answer
  <2>7. x = a.raw["Barometer"]
    BY <2>5, <2>6
  <2>8. QED
    BY <1>6, <2>4, <2>5, <2>6, <2>7 DEF Measured
<1>7. CASE s \in {"WindGust", "ExtraHum"}
  <2>1. v = Parsed(a)[s]
    BY <1>1, <1>2, <1>7, DataFields DEF ValueFn
  <2>2. s \in Arrived(a) /\ v = a.raw[s] - Offset(s) /\ Offset(s) = 0 /\ a.raw[s] \in Int
    BY <1>1, <1>3, <1>7, <2>1, ParsedFields DEF Offset, Answer
  <2>3. a.raw[s] \notin NoData(s)
    <3>1. CASE s = "WindGust" /\ Loop2
      BY <3>1 DEF NoData
    <3>2. CASE ~(s = "WindGust" /\ Loop2)
      <4>1. NoData(s) = {255} /\ Unit[s] = 1
        BY <1>1, <1>7, <3>2 DEF NoData, Unit
      <4>2. v # 255
        <5>1. s \in Fields \ {"ForecastIcon"} /\ 255 \in DashValues /\ 255 * Unit[s] = 255
          BY <1>1, <4>1 DEF DashValues
        <5>2. QED
          BY <1>2, <5>1 DEF IsDash
      <4>3. QED
        BY <2>2, <4>1, <4>2
    <3>3. QED
      BY <3>1, <3>2
  <2>4. QED
    BY <2>2, <2>3 DEF Measured
<1>8. CASE s = "ExtraTemp"
  <2>1. v = Parsed(a)[s]
    BY <1>1, <1>2, <1>8, DataFields DEF ValueFn
  <2>2. s \in Arrived(a) /\ v = a.raw[s] - Offset(s) /\ NoData(s) = {255}
    BY <1>1, <1>3, <1>8, <2>1, ParsedFields DEF NoData
  <2>3. QED
    BY <1>8, <2>2 DEF Measured
<1>9. QED
  BY <1>1, <1>4, <1>5, <1>6, <1>7, <1>8, FieldNames DEF Unpacked

(* The icon of a LOOP packet that has one of the known forecasts. *)
LEMMA ForecastRead ==
    ASSUME NEW a \in Answer, NEW held, ~Loop2, a.raw["ForecastIcon"] \in Icons
    PROVE  /\ Measured(a, "ForecastIcon")
           /\ NativeValue(Data(a), "ForecastIcon", held) = Outlook(a.raw["ForecastIcon"])
<1> DEFINE icon == a.raw["ForecastIcon"]
<1>1. "ForecastIcon" \in Fields /\ "ForecastIcon" \in Arrived(a) /\ icon \in Int
  BY FieldNames DEF Arrived, Answer
<1>2. /\ Unpack["ForecastIcon"] = {} /\ Incorrect(Code["ForecastIcon"]) = {255}
      /\ Offset("ForecastIcon") = 0 /\ NoData("ForecastIcon") = {255}
  <2>1. Code["ForecastIcon"] = "B"
    BY FieldNames DEF Code, LoopCode
  <2>2. QED
    BY <1>1, <2>1 DEF Unpack, Incorrect, Offset, NoData
<1>3. icon # 255
  BY DEF Icons
<1>4. Parsed(a)["ForecastIcon"] = icon
  BY <1>1, <1>2, <1>3 DEF Parsed
<1>5. Data(a)["ForecastIcon"] = icon
  BY <1>1, <1>4, DataFields
<1>6. ValueFn(Data(a), "ForecastIcon") = Outlook(icon)
  BY <1>5 DEF ValueFn, MapForecastIcon
<1>7. Outlook(icon) \in Int
  BY <1>1 DEF Outlook
<1>8. ~IsDash("ForecastIcon", Outlook(icon))
  BY <1>7, ReadingsAssumption DEF IsDash
<1>9. QED
  BY <1>1, <1>2, <1>3, <1>6, <1>8 DEF Measured, NativeValue

-----------------------------------------------------------------------------
(***************************************************************************)
(* What the other platforms show                                           *)
(***************************************************************************)

(* The part of PresentationsAgree that is about one answer: n is what the
   sensors show of it. *)
Agreed(d, n) ==
    /\ \A f \in Attributes \ {"WindDir"} :
          n[f] = IF IsDash(f, Attribute(d, f)) THEN Missing ELSE Attribute(d, f)
    /\ d.WindDir = 0 \/ IsDash("WindDir", d.WindDir) \/ n["WindDir"] = d.WindDir
    /\ d.WindDir = 0 => n["WindSpeed"] = 0
    /\ IsRaining(d) /\ ~IsDash("RainRate", d.RainRate) <=> n["RainRate"] > 0
    /\ d.ForecastIcon \in Icons => Condition(d) = n["ForecastIcon"]
    /\ IssConnection(d) <=> \E f \in {"TempOut", "WindSpeed"} : n[f] # Missing

LEMMA PlatformsAgree ==
    ASSUME NEW a \in Answer, NEW n, NEW held,
           \A s \in Sensors : n[s] = NativeValue(Data(a), s, held[s])
    PROVE  Agreed(Data(a), n)
<1> DEFINE d == Data(a)
<1>1. Fields \subseteq Sensors /\ {"TempOut", "WindSpeed", "RainRate", "ForecastIcon",
                                  "WindDir", "Barometer", "WindGust"} \subseteq Fields
        /\ Attributes \subseteq Fields
  BY FieldNames DEF Sensors, Attributes
<1>2. \A f \in {"TempOut", "WindSpeed", "HumOut", "UV", "DewPoint", "WindGust"} :
         n[f] = IF IsDash(f, d[f]) THEN Missing ELSE d[f]
  <2>1. \A f \in {"TempOut", "WindSpeed", "HumOut", "UV", "DewPoint", "WindGust"} :
           f \in Sensors /\ f \notin Directions /\ f # "RainRate" /\ ValueFn(d, f) = d[f]
    BY FieldNames DEF ValueFn, Sensors, Directions
  <2>2. QED
    BY <2>1 DEF NativeValue
<1>3. n["Barometer"] = IF IsDash("Barometer", BarometerOrNone(d)) THEN Missing
                       ELSE BarometerOrNone(d)
  <2>1. "Barometer" \notin Directions /\ ValueFn(d, "Barometer") = BarometerOrNone(d)
    BY DEF ValueFn, Directions
  <2>2. n["Barometer"] = NativeValue(d, "Barometer", held["Barometer"])
    BY <1>1
  <2>3. QED
    BY <2>1, <2>2 DEF NativeValue
<1>4. n["RainRate"] = IF IsDash("RainRate", d["RainRate"]) THEN 0 ELSE d["RainRate"]
  <2>1. "RainRate" \notin Directions /\ ValueFn(d, "RainRate") = d["RainRate"]
    BY DEF ValueFn, Directions
  <2>2. n["RainRate"] = NativeValue(d, "RainRate", held["RainRate"])
    BY <1>1
  <2>3. QED
    BY <2>1, <2>2 DEF NativeValue
<1>5. ~IsDash("WindDir", WindDirOrNone(d)) => n["WindDir"] = WindDirOrNone(d)
  <2>1. ValueFn(d, "WindDir") = WindDirOrNone(d)
    BY DEF ValueFn
  <2>2. n["WindDir"] = NativeValue(d, "WindDir", held["WindDir"])
    BY <1>1
  <2>3. QED
    BY <2>1, <2>2 DEF NativeValue
<1>6. ~IsDash("ForecastIcon", MapForecastIcon(d)) => n["ForecastIcon"] = MapForecastIcon(d)
  <2>1. ValueFn(d, "ForecastIcon") = MapForecastIcon(d)
    BY DEF ValueFn
  <2>2. n["ForecastIcon"] = NativeValue(d, "ForecastIcon", held["ForecastIcon"])
    BY <1>1
  <2>3. QED
    BY <2>1, <2>2 DEF NativeValue
<1>7. \A f \in Attributes \ {"WindDir"} :
         n[f] = IF IsDash(f, Attribute(d, f)) THEN Missing ELSE Attribute(d, f)
  <2>1. ASSUME NEW f \in {"TempOut", "HumOut", "WindSpeed", "DewPoint", "UV"}
        PROVE  n[f] = IF IsDash(f, Attribute(d, f)) THEN Missing ELSE Attribute(d, f)
    <3>1. Attribute(d, f) = d[f]
      BY DEF Attribute
    <3>2. QED
      BY <1>2, <3>1
  <2>2. n["WindGust"] = IF IsDash("WindGust", Attribute(d, "WindGust")) THEN Missing
                        ELSE Attribute(d, "WindGust")
    <3>1. CASE d["WindGust"] = 255 * Unit["WindGust"]
      <4>1. IsDash("WindGust", d["WindGust"])
        BY <1>1, <3>1 DEF IsDash, DashValues
      <4>2. Attribute(d, "WindGust") = Missing /\ IsDash("WindGust", Missing)
        BY <3>1 DEF Attribute, IsDash
      <4>3. QED
        BY <1>2, <4>1, <4>2
    <3>2. CASE d["WindGust"] # 255 * Unit["WindGust"]
      <4>1. Attribute(d, "WindGust") = d["WindGust"]
        BY <3>2 DEF Attribute
      <4>2. QED
        BY <1>2, <4>1
    <3>3. QED
      BY <3>1, <3>2
  <2>3. n["Barometer"] = IF IsDash("Barometer", Attribute(d, "Barometer")) THEN Missing
                         ELSE Attribute(d, "Barometer")
    <3>1. Attribute(d, "Barometer") = NativePressure(d)
      BY DEF Attribute
    <3>2. NativePressure(d) = BarometerOrNone(d)
      BY BarometerRead
    <3>3. QED
      BY <1>3, <3>1, <3>2
  <2>4. QED
    BY <2>1, <2>2, <2>3 DEF Attributes
<1>8. d.WindDir = 0 \/ IsDash("WindDir", d.WindDir) \/ n["WindDir"] = d.WindDir
  <2>1. d.WindDir = 32767 => IsDash("WindDir", d.WindDir)
    BY RoseRead, FieldNames DEF IsDash, DashValues, Unit
  <2>2. d.WindDir \notin {0, 32767} => WindDirOrNone(d) = d.WindDir
    BY DEF WindDirOrNone
  <2>3. QED
    BY <1>5, <2>1, <2>2
<1>9. d.WindDir = 0 => n["WindSpeed"] = 0
  <2>1. SUFFICES ASSUME d["WindDir"] = 0 PROVE n["WindSpeed"] = 0
    OBVIOUS
  <2>2. Parsed(a)["WindDir"] # 0
    <3>1. 0 \in Unpack["WindDir"] /\ Offset("WindDir") = 0
      BY <1>1 DEF Unpack, UnpackWindDir, Offset
    <3>2. Missing # 0
      BY ReadingsAssumption
    <3>3. a.raw["WindDir"] \in Int
      BY <1>1 DEF Answer
    <3>4. QED
      BY <1>1, <3>1, <3>2, <3>3, ParsedFields
  <2>3. Parsed(a)["WindSpeed"] = 0
    BY <2>1, <2>2, DataFields DEF CalmBearing
  <2>4. d["WindSpeed"] = 0
    BY <1>1, <2>3, DataFields
  <2>5. ~IsDash("WindSpeed", 0)
    <3>1. Unit["WindSpeed"] = 1 /\ Missing # 0
      BY <1>1, ReadingsAssumption DEF Unit
    <3>2. QED
      BY <3>1 DEF IsDash, DashValues
  <2>6. QED
    BY <1>2, <2>4, <2>5
<1>10. IsRaining(d) /\ ~IsDash("RainRate", d.RainRate) <=> n["RainRate"] > 0
  BY <1>4 DEF IsRaining, IsDash
<1>11. d.ForecastIcon \in Icons => Condition(d) = n["ForecastIcon"]
  <2>1. SUFFICES ASSUME d["ForecastIcon"] \in Icons PROVE Condition(d) = n["ForecastIcon"]
    OBVIOUS
  <2>2. MapForecastIcon(d) = Outlook(d["ForecastIcon"])
          /\ Condition(d) = Outlook(d["ForecastIcon"])
    BY <2>1 DEF MapForecastIcon, Condition
  <2>3. Outlook(d["ForecastIcon"]) \in Int
    BY <2>1 DEF Outlook, Icons
  <2>4. ~IsDash("ForecastIcon", Outlook(d["ForecastIcon"]))
    BY <2>3, ReadingsAssumption DEF IsDash
  <2>5. QED
    BY <1>6, <2>2, <2>4
<1>12. IssConnection(d) <=> \E f \in {"TempOut", "WindSpeed"} : n[f] # Missing
  BY <1>2 DEF IssConnection, IsDash
<1>13. QED
  BY <1>7, <1>8, <1>9, <1>10, <1>11, <1>12 DEF Agreed

-----------------------------------------------------------------------------
(***************************************************************************)
(* The states of the entities                                              *)
(***************************************************************************)
EntityTypes ==
    /\ available \in BOOLEAN
    /\ answer \in Answers \cup {Missing}
    /\ native \in [Sensors -> Values]
    /\ latch \in [Sensors -> BOOLEAN]
    /\ alerts \in [Sensors -> Nat]
    /\ bearings \subseteq Int

(* What the sensors show was made from the answer, and from what they held. *)
Shown ==
    available =>
        /\ answer \in Answers
        /\ \E held : \A s \in Sensors : native[s] = NativeValue(Data(answer), s, held[s])

(* A direction n holds is one of the directions b, and the rose follows it. *)
HeldFrom(n, b) ==
    /\ n["WindDir"] # Missing => n["WindDir"] \in b \ DashValues
    /\ n["WindRose"] = IF n["WindDir"] = Missing THEN Missing ELSE WindRose(n["WindDir"])

HeldAll(n, b) == n["WindDir"] = Missing => b \subseteq DashValues

(* A latch is what makes the difference between one warning and none. *)
Counted == \A s \in Sensors \ IgnoredNull : alerts[s] = (IF latch[s] THEN 1 ELSE 0)

(* Right after an update the latch tells whether there is a value. *)
Warned == available => \A s \in Sensors \ IgnoredNull : latch[s] <=> native[s] = Missing

LEMMA SensorNames ==
    /\ Fields \subseteq Sensors /\ "WindDir" \in Sensors /\ "WindRose" \in Sensors
    /\ \A s \in Sensors \ Directions : s \in Fields
BY FieldNames DEF Sensors, Directions

LEMMA DataTypes ==
    ASSUME NEW a \in Answer
    PROVE  \A f \in Fields : Data(a)[f] \in Values
<1>1. \A f \in Fields : Parsed(a)[f] \in Values
  BY ParsedFields DEF Values
<1>2. Data(a)["WindDir"] \in Values
  <2>1. Data(a)["WindDir"] \in {0, Parsed(a)["WindDir"]}
    BY DataFields DEF CalmBearing
  <2>2. QED
    BY <1>1, <2>1, FieldNames DEF Values
<1>3. Data(a)["DewPoint"] \in Values
  <2>1. Data(a)["DewPoint"] \in {Computed, Parsed(a)["DewPoint"]}
    BY DataFields DEF DewPoint
  <2>2. QED
    BY <1>1, <2>1, FieldNames DEF Values
<1>4. QED
  BY <1>1, <1>2, <1>3, DataFields

LEMMA ValueTypes ==
    ASSUME NEW a \in Answer, NEW s \in Sensors, NEW h \in Values
    PROVE  NativeValue(Data(a), s, h) \in Values
<1>1. 0 \in Values /\ Missing \in Values
  BY DEF Values
<1>2. ValueFn(Data(a), s) \in Values \/ IsDash(s, ValueFn(Data(a), s))
  <2>1. CASE s \in Directions
    BY <2>1, DirectionRead, RoseRead DEF Directions, Values
  <2>2. CASE s = "Barometer"
    <3>1. ValueFn(Data(a), s) \in {Missing, Data(a)["Barometer"]}
      BY <2>2 DEF ValueFn, BarometerOrNone
    <3>2. QED
      BY <1>1, <3>1, DataTypes, FieldNames
  <2>3. CASE s = "ForecastIcon"
    <3>1. ValueFn(Data(a), s) = MapForecastIcon(Data(a))
      BY <2>3 DEF ValueFn
    <3>2. MapForecastIcon(Data(a)) \in Int
      BY DEF MapForecastIcon, Outlook, Icons
    <3>3. QED
      BY <3>1, <3>2 DEF Values
  <2>4. CASE s \notin Directions \cup {"Barometer", "ForecastIcon"}
    BY <2>4, DataTypes, SensorNames DEF ValueFn, Directions
  <2>5. QED
    BY <2>1, <2>2, <2>3, <2>4
<1>3. NativeValue(Data(a), s, h) \in {ValueFn(Data(a), s), h, 0, Missing}
        /\ (IsDash(s, ValueFn(Data(a), s)) => NativeValue(Data(a), s, h) \in {h, 0, Missing})
  BY DEF NativeValue
<1>4. QED
  BY <1>1, <1>2, <1>3

(* An update keeps all of it, whatever the entities held before. *)
LEMMA UpdateKeeps ==
    ASSUME NEW a \in Answers, NEW held \in [Sensors -> Values],
           NEW logged \in [Sensors -> BOOLEAN], NEW count \in [Sensors -> Nat],
           NEW seen \in SUBSET Int, Update(a, held, logged, count, seen)
    PROVE  /\ EntityTypes'
           /\ Shown'
           /\ HeldFrom(held, seen) => HeldFrom(native, bearings)'
           /\ HeldAll(held, seen) /\ a.raw["WindDir"] # 65535 => HeldAll(native, bearings)'
           /\ (\A s \in Sensors \ IgnoredNull : count[s] = IF logged[s] THEN 1 ELSE 0)
                 => Counted'
           /\ \A s \in Sensors \ IgnoredNull : latch'[s] <=> native'[s] = Missing
<1>1. a \in Answer /\ DataOf[a] = Data(a)
  BY EntitiesAssumption DEF DataOf
<1>2. /\ available' = TRUE /\ answer' = a
      /\ native' = [s \in Sensors |-> NativeValue(Data(a), s, held[s])]
      /\ latch' = [s \in Sensors |-> Latched(s, native'[s], logged[s])]
      /\ bearings' = seen \cup {b \in {a.raw["WindDir"]} : Measured(a, "WindDir")}
  BY <1>1 DEF Update
<1>3. alerts' = [s \in Sensors |->
          IF ~Alarming(s, native'[s]) THEN 0
          ELSE IF logged[s] THEN count[s] ELSE count[s] + 1]
  BY DEF Update
<1>4. native' \in [Sensors -> Values]
  BY <1>1, <1>2, ValueTypes
<1>5. /\ latch' \in [Sensors -> BOOLEAN]
      /\ \A s \in Sensors : latch'[s] <=> native'[s] = Missing /\ s \notin IgnoredNull
  BY <1>2 DEF Latched, Alarming
<1>6. alerts' \in [Sensors -> Nat]
  <2>1. \A s \in Sensors : count[s] \in Nat /\ count[s] + 1 \in Nat
    OBVIOUS
  <2>2. QED
    BY <1>3, <2>1
<1>7. a.raw["WindDir"] \in Int
  BY <1>1, FieldNames DEF Answer
<1>8. EntityTypes'
  BY <1>2, <1>4, <1>5, <1>6, <1>7 DEF EntityTypes
<1>9. Shown'
  BY <1>2 DEF Shown
<1> DEFINE v == WindDirOrNone(Data(a))
<1>10. /\ native'["WindDir"] = IF IsDash("WindDir", v) THEN held["WindDir"] ELSE v
       /\ native'["WindRose"] = IF IsDash("WindDir", v) THEN held["WindRose"] ELSE WindRose(v)
  <2>1. native'["WindDir"] = NativeValue(Data(a), "WindDir", held["WindDir"])
          /\ native'["WindRose"] = NativeValue(Data(a), "WindRose", held["WindRose"])
    BY <1>2, SensorNames
  <2>2. "WindDir" \in Directions /\ "WindRose" \in Directions
    BY DEF Directions
  <2>3. ValueFn(Data(a), "WindDir") = v
          /\ (IsDash("WindRose", ValueFn(Data(a), "WindRose")) <=> IsDash("WindDir", v))
          /\ (~IsDash("WindDir", v) => ValueFn(Data(a), "WindRose") = WindRose(v))
    BY <1>1, RoseRead
  <2>4. QED
    BY <2>1, <2>2, <2>3 DEF NativeValue
<1>11. /\ IsDash("WindDir", v) <=> v \in {Missing} \cup DashValues
       /\ v # Missing => v = a.raw["WindDir"] /\ Measured(a, "WindDir")
       /\ v = Missing => a.raw["WindDir"] \in {0, 32767, 65535}
  BY <1>1, RoseRead, DirectionRead
<1> HIDE DEF v
<1>13. HeldFrom(held, seen) => HeldFrom(native, bearings)'
  <2>1. SUFFICES ASSUME HeldFrom(held, seen) PROVE HeldFrom(native', bearings')
    BY DEF HeldFrom
  <2>2. CASE IsDash("WindDir", v)
    BY <1>2, <1>10, <2>1, <2>2 DEF HeldFrom
  <2>3. CASE ~IsDash("WindDir", v)
    <3>1. native'["WindDir"] = v /\ native'["WindRose"] = WindRose(v)
      BY <1>10, <2>3
    <3>2. v # Missing /\ v \notin DashValues /\ v \in bearings'
      BY <1>2, <1>11, <2>3
    <3>3. QED
      BY <3>1, <3>2 DEF HeldFrom
  <2>4. QED
    BY <2>2, <2>3
<1>14. HeldAll(held, seen) /\ a.raw["WindDir"] # 65535 => HeldAll(native, bearings)'
  <2>1. SUFFICES ASSUME HeldAll(held, seen), a.raw["WindDir"] # 65535,
                        native'["WindDir"] = Missing
                 PROVE  bearings' \subseteq DashValues
    BY DEF HeldAll
  <2>2. IsDash("WindDir", v) /\ held["WindDir"] = Missing
    BY <1>10, <1>11, <2>1
  <2>3. seen \subseteq DashValues
    BY <2>1, <2>2 DEF HeldAll
  <2>4. Measured(a, "WindDir") => a.raw["WindDir"] \in DashValues
    <3>1. Measured(a, "WindDir") => a.raw["WindDir"] \notin {0, 32767}
      BY DEF Measured, NoData
    <3>2. QED
      BY <1>11, <2>1, <2>2, <3>1
  <2>5. QED
    BY <1>2, <2>3, <2>4
<1>15. ASSUME \A s \in Sensors \ IgnoredNull : count[s] = IF logged[s] THEN 1 ELSE 0
       PROVE  Counted'
  <2>1. SUFFICES ASSUME NEW s \in Sensors \ IgnoredNull
                 PROVE  alerts'[s] = IF latch'[s] THEN 1 ELSE 0
    BY DEF Counted
  <2>2. Alarming(s, native'[s]) <=> latch'[s]
    BY <1>5 DEF Alarming
  <2>3. alerts'[s] = IF ~latch'[s] THEN 0 ELSE IF logged[s] THEN count[s] ELSE count[s] + 1
    BY <1>3, <2>2
  <2>4. CASE logged[s]
    BY <1>15, <2>3, <2>4
  <2>5. CASE ~logged[s]
    BY <1>15, <2>3, <2>5
  <2>6. QED
    BY <2>4, <2>5
<1>16. QED
  BY <1>5, <1>8, <1>9, <1>13, <1>14, <1>15

-----------------------------------------------------------------------------
(***************************************************************************)
(* Every step of the entities is one of the coordinator's, so its          *)
(* invariants carry over.                                                  *)
(***************************************************************************)
LEMMA CoordinatorStep == [EntityNext]_entityVars => [Next]_vars
<1> SUFFICES ASSUME [EntityNext]_entityVars PROVE [Next]_vars
  OBVIOUS
<1>1. Entry \in Entries /\ "data" \in Results
  BY EntitiesAssumption DEF Results
<1>2. CASE EntitySetup
  BY <1>1, <1>2 DEF EntitySetup, Next
<1>3. CASE PollBringsData
  BY <1>1, <1>3 DEF PollBringsData, Next
<1>4. CASE PollFails
  BY <1>1, <1>4 DEF PollFails, Next
<1>5. CASE EntitiesRemoved
  BY <1>1, <1>5 DEF EntitiesRemoved, Next
<1>6. CASE EntitiesLost
  BY <1>6 DEF EntitiesLost, Next
<1>7. CASE EntityStationChanges
  BY <1>1, <1>7 DEF EntityStationChanges, Next
<1>8. CASE UNCHANGED entityVars
  BY <1>8 DEF entityVars
<1>9. QED
  BY <1>2, <1>3, <1>4, <1>5, <1>6, <1>7, <1>8 DEF EntityNext

(* A coordinator with entities is a coordinator. *)
THEOREM EntitiesRefineCoordinator == EntitySafe => Safe
<1>1. EntityInit => Init
  BY DEF EntityInit
<1>2. QED
  BY <1>1, CoordinatorStep, PTL DEF EntitySafe, Safe

(* NoStaleIssue and OutageReported hold with the entities, too. *)
THEOREM IssueIsTrue == EntitySafe => [](NoStaleIssue /\ OutageReported)
<1>1. Safe => []OutageReported
  BY SingleEntryReported, EntitiesAssumption
<1>2. QED
  BY <1>1, EntitiesRefineCoordinator, NeverStale, PTL

-----------------------------------------------------------------------------
(***************************************************************************)
(* The invariant of the entities                                           *)
(***************************************************************************)
EntityInv ==
    /\ EntityTypes
    /\ Shown
    /\ HeldFrom(native, bearings)
    /\ Counted
    /\ Warned
    /\ IssueHidesReadings

LEMMA NothingHeld ==
    /\ NoValues \in [Sensors -> Values] /\ NoLatches \in [Sensors -> BOOLEAN]
    /\ NoAlerts \in [Sensors -> Nat] /\ {} \in SUBSET Int
    /\ HeldFrom(NoValues, {}) /\ HeldAll(NoValues, {})
    /\ \A s \in Sensors \ IgnoredNull : NoAlerts[s] = IF NoLatches[s] THEN 1 ELSE 0
<1>1. Missing \in Values
  BY DEF Values
<1>2. NoValues["WindDir"] = Missing /\ NoValues["WindRose"] = Missing
  BY SensorNames DEF NoValues
<1>3. HeldFrom(NoValues, {}) /\ HeldAll(NoValues, {})
  BY <1>2 DEF HeldFrom, HeldAll
<1>4. NoValues \in [Sensors -> Values] /\ NoLatches \in [Sensors -> BOOLEAN]
        /\ NoAlerts \in [Sensors -> Nat]
  BY <1>1 DEF NoValues, NoLatches, NoAlerts
<1>5. \A s \in Sensors \ IgnoredNull : NoAlerts[s] = IF NoLatches[s] THEN 1 ELSE 0
  BY DEF NoLatches, NoAlerts
<1>6. QED
  BY <1>3, <1>4, <1>5

(* Entities that are not there hold nothing. *)
LEMMA RemovedInv ==
    ASSUME RemoveEntities PROVE EntityInv'
<1>1. /\ available' = FALSE /\ answer' = Missing /\ native' = NoValues
      /\ latch' = NoLatches /\ alerts' = NoAlerts /\ bearings' = {}
  BY DEF RemoveEntities
<1>2. EntityTypes'
  BY <1>1, NothingHeld DEF EntityTypes
<1>3. HeldFrom(native, bearings)'
  BY <1>1, NothingHeld DEF HeldFrom
<1>4. Counted'
  BY <1>1, NothingHeld DEF Counted
<1>5. QED
  BY <1>1, <1>2, <1>3, <1>4 DEF EntityInv, Shown, Warned, IssueHidesReadings

LEMMA EntityInitInv == EntityInit => EntityInv
<1> SUFFICES ASSUME EntityInit PROVE EntityInv
  OBVIOUS
<1>1. /\ available = FALSE /\ answer = Missing /\ native = NoValues
      /\ latch = NoLatches /\ alerts = NoAlerts /\ bearings = {}
  BY DEF EntityInit
<1>2. EntityTypes
  BY <1>1, NothingHeld DEF EntityTypes
<1>3. HeldFrom(native, bearings)
  BY <1>1, NothingHeld
<1>4. Counted
  BY <1>1, NothingHeld DEF Counted
<1>5. QED
  BY <1>1, <1>2, <1>3, <1>4 DEF EntityInv, Shown, Warned, IssueHidesReadings

(* There is an issue only in an outage of the one entry. *)
LEMMA IssueOfEntry ==
    ASSUME Inv, issue PROVE entry[Entry] = "loaded" /\ streak[Entry] >= Threshold
BY EntitiesAssumption DEF Inv, IssueInv

LEMMA EntityNextInv ==
    Inv /\ EntityInv /\ [EntityNext]_entityVars => EntityInv'
<1> SUFFICES ASSUME Inv, EntityInv, [EntityNext]_entityVars PROVE EntityInv'
  OBVIOUS
<1>1. ASSUME EntitySetup PROVE EntityInv'
  <2>1. PICK a \in Answers : Update(a, NoValues, NoLatches, NoAlerts, {})
    BY <1>1 DEF EntitySetup
  <2>2. /\ EntityTypes' /\ Shown' /\ HeldFrom(native, bearings)' /\ Counted'
        /\ \A s \in Sensors \ IgnoredNull : latch'[s] <=> native'[s] = Missing
    BY <2>1, NothingHeld, UpdateKeeps
  <2>3. ~issue'
    <3>1. entry[Entry] = "unloaded" /\ issue' = issue
      BY <1>1 DEF EntitySetup, Setup
    <3>2. QED
      BY <3>1, IssueOfEntry
  <2>4. QED
    BY <2>2, <2>3 DEF EntityInv, Warned, IssueHidesReadings
<1>2. ASSUME PollBringsData PROVE EntityInv'
  <2>1. PICK a \in Answers : Update(a, native, latch, alerts, bearings)
    BY <1>2 DEF PollBringsData
  <2>2. /\ native \in [Sensors -> Values] /\ latch \in [Sensors -> BOOLEAN]
        /\ alerts \in [Sensors -> Nat] /\ bearings \in SUBSET Int
        /\ HeldFrom(native, bearings)
        /\ \A s \in Sensors \ IgnoredNull : alerts[s] = IF latch[s] THEN 1 ELSE 0
    BY DEF EntityInv, EntityTypes, Counted
  <2>3. /\ EntityTypes' /\ Shown' /\ HeldFrom(native, bearings)' /\ Counted'
        /\ \A s \in Sensors \ IgnoredNull : latch'[s] <=> native'[s] = Missing
    BY <2>1, <2>2, UpdateKeeps
  <2>4. ~issue'
    <3>1. issue' = (issue /\ streak[Entry] < Threshold)
      BY <1>2 DEF PollBringsData, Poll, OnUpdateSuccess
    <3>2. streak[Entry] \in Nat /\ Threshold \in Nat
      BY EntitiesAssumption, CoordinatorAssumption DEF Inv, TypeOK
    <3>3. issue => ~(streak[Entry] < Threshold)
      BY <3>2, IssueOfEntry
    <3>4. QED
      BY <3>1, <3>3
  <2>5. QED
    BY <2>3, <2>4 DEF EntityInv, Warned, IssueHidesReadings
<1>3. ASSUME PollFails PROVE EntityInv'
  <2>1. available' = FALSE /\ UNCHANGED <<answer, native, latch, alerts, bearings>>
    BY <1>3 DEF PollFails
  <2>2. EntityTypes' /\ HeldFrom(native, bearings)' /\ Counted'
    BY <2>1 DEF EntityInv, EntityTypes, HeldFrom, Counted
  <2>3. QED
    BY <2>1, <2>2 DEF EntityInv, Shown, Warned, IssueHidesReadings
<1>4. ASSUME EntitiesRemoved \/ EntitiesLost PROVE EntityInv'
  BY <1>4, RemovedInv DEF EntitiesRemoved, EntitiesLost
<1>5. ASSUME UNCHANGED <<issue, entities>> PROVE EntityInv'
  <2>1. UNCHANGED <<issue, available, answer, native, latch, alerts, bearings>>
    BY <1>5 DEF entities
  <2>2. EntityTypes' /\ HeldFrom(native, bearings)' /\ Counted'
    BY <2>1 DEF EntityInv, EntityTypes, HeldFrom, Counted
  <2>3. Shown' /\ Warned' /\ IssueHidesReadings'
    BY <2>1 DEF EntityInv, Shown, Warned, IssueHidesReadings
  <2>4. QED
    BY <2>2, <2>3 DEF EntityInv
<1>6. CASE EntityStationChanges
  BY <1>5, <1>6 DEF EntityStationChanges, StationChanges, entities
<1>7. CASE UNCHANGED entityVars
  BY <1>5, <1>7 DEF entityVars, vars, entities
<1>8. QED
  BY <1>1, <1>2, <1>3, <1>4, <1>6, <1>7 DEF EntityNext

LEMMA EntityInvariant == EntitySafe => [](Inv /\ EntityInv)
<1>1. EntityInit => Inv /\ EntityInv
  BY InitInv, EntityInitInv DEF EntityInit
<1>2. Inv /\ EntityInv /\ [EntityNext]_entityVars => Inv' /\ EntityInv'
  BY CoordinatorStep, NextInv, EntityNextInv
<1>3. QED
  BY <1>1, <1>2, PTL DEF EntitySafe

-----------------------------------------------------------------------------
(***************************************************************************)
(* The theorems                                                            *)
(***************************************************************************)
(* Type correctness of coordinator and entities. *)
THEOREM EntityTypeCorrect == EntitySafe => []EntityTypeOK
<1>1. Inv /\ EntityInv => EntityTypeOK
  BY DEF Inv, EntityInv, EntityTypes, EntityTypeOK
<1>2. QED
  BY <1>1, EntityInvariant, PTL

(* Whatever the console answers, in LOOP and in LOOP2 mode, and however polls
   fail in between: a sensor that shows a value shows one that was measured,
   one that was computed from measurements, a rain rate of zero or a direction
   measured earlier; only an extra temperature without a sensor and conditions
   without a forecast show anything else. *)
THEOREM ReadingsAreReal == EntitySafe => []NoFakeReading
<1>1. ASSUME EntityInv PROVE NoFakeReading
  <2>1. SUFFICES ASSUME available, NEW s \in Sensors, native[s] # Missing, ~KnownFake(s)
                 PROVE  Genuine(s, native[s])
    BY DEF NoFakeReading
  <2>2. answer \in Answer
    BY <1>1, <2>1, EntitiesAssumption DEF EntityInv, Shown
  <2>3. PICK held : \A t \in Sensors : native[t] = NativeValue(Data(answer), t, held[t])
    BY <1>1, <2>1 DEF EntityInv, Shown
  <2>4. native[s] = NativeValue(Data(answer), s, held[s])
    BY <2>3
  <2>5. CASE s = "ForecastIcon"
    <3>1. ~Loop2 /\ answer.raw["ForecastIcon"] \in Icons
      BY <2>1, <2>5 DEF KnownFake
    <3>2. QED
      BY <2>2, <2>4, <2>5, <3>1, ForecastRead DEF Genuine
  <2>6. CASE s \notin Directions \cup {"ForecastIcon"}
    <3>1. s = "ExtraTemp" => answer.raw["ExtraTemp"] # 255
      BY <2>1 DEF KnownFake
    <3>2. \/ /\ s \in Fields \ {"ForecastIcon"} /\ Measured(answer, s)
             /\ native[s] = answer.raw[s] - Offset(s)
          \/ s = "DewPoint" /\ native[s] = Computed
                /\ Measured(answer, "TempOut") /\ Measured(answer, "HumOut")
          \/ s = "RainRate" /\ native[s] = 0
      BY <2>1, <2>2, <2>4, <2>6, <3>1, ReadingMeasured
    <3>3. QED
      BY <3>2 DEF Genuine
  <2>7. CASE s = "WindDir"
    BY <1>1, <2>1, <2>7 DEF EntityInv, HeldFrom, Genuine
  <2>8. CASE s = "WindRose"
    <3>1. native["WindRose"] = WindRose(native["WindDir"]) /\ native["WindDir"] \in bearings
      BY <1>1, <2>1, <2>8 DEF EntityInv, HeldFrom
    <3>2. QED
      BY <2>8, <3>1 DEF Genuine
  <2>9. QED
    BY <2>5, <2>6, <2>7, <2>8 DEF Directions
<1>2. QED
  BY <1>1, EntityInvariant, PTL

(* In LOOP mode, with a console that has the extra sensors and a forecast,
   what README.md:19 says is so of every sensor. *)
THEOREM GenuineWhenComplete ==
    ASSUME ~Loop2,
           \A a \in Answers : a.raw["ExtraTemp"] # 255 /\ a.raw["ForecastIcon"] \in Icons
    PROVE  EntitySafe => []AllReadingsGenuine
<1>1. Shown /\ NoFakeReading => AllReadingsGenuine
  BY DEF Shown, NoFakeReading, KnownFake, AllReadingsGenuine
<1>2. EntityInv => Shown
  BY DEF EntityInv
<1>3. QED
  BY <1>1, <1>2, EntityInvariant, ReadingsAreReal, PTL

(* Whatever the console answers, the weather entity and the binary sensors
   tell the same story as the sensors. *)
THEOREM PlatformsDoAgree == EntitySafe => []PresentationsAgree
<1>1. ASSUME EntityInv PROVE PresentationsAgree
  <2>1. SUFFICES ASSUME available PROVE Agreed(DataOf[answer], native)
    BY DEF PresentationsAgree, Agreed
  <2>2. answer \in Answers /\ answer \in Answer /\ DataOf[answer] = Data(answer)
    BY <1>1, <2>1, EntitiesAssumption DEF EntityInv, Shown, DataOf
  <2>3. PICK held : \A s \in Sensors : native[s] = NativeValue(Data(answer), s, held[s])
    BY <1>1, <2>1 DEF EntityInv, Shown
  <2>4. QED
    BY <2>2, <2>3, PlatformsAgree
<1>2. QED
  BY <1>1, EntityInvariant, PTL

(* One warning for each sensor and outage, however long. *)
THEOREM OneWarning == EntitySafe => []AlertedOncePerOutage
<1>1. ASSUME EntityInv PROVE AlertedOncePerOutage
  <2>1. SUFFICES ASSUME NEW s \in Sensors \ IgnoredNull
                 PROVE  /\ alerts[s] <= 1
                        /\ available => (alerts[s] = 1 <=> native[s] = Missing)
    BY DEF AlertedOncePerOutage
  <2>2. alerts[s] = IF latch[s] THEN 1 ELSE 0
    BY <1>1 DEF EntityInv, Counted
  <2>3. available => (latch[s] <=> native[s] = Missing)
    BY <1>1 DEF EntityInv, Warned
  <2>4. alerts[s] <= 1 /\ (alerts[s] = 1 <=> latch[s])
    <3>1. CASE latch[s]
      BY <2>2, <3>1
    <3>2. CASE ~latch[s]
      BY <2>2, <3>2
    <3>3. QED
      BY <3>1, <3>2
  <2>5. QED
    BY <2>3, <2>4
<1>2. QED
  BY <1>1, EntityInvariant, PTL

(* No reading is shown while the repair issue is there. *)
THEOREM NoReadingInOutage == EntitySafe => []IssueHidesReadings
<1>1. EntityInv => IssueHidesReadings
  BY DEF EntityInv
<1>2. QED
  BY <1>1, EntityInvariant, PTL

(* Once a direction was measured, one is held: needs that the console never
   answers 65535 degrees, which the client would mask. *)
THEOREM DirectionIsHeld ==
    ASSUME \A a \in Answers : a.raw["WindDir"] # 65535
    PROVE  EntitySafe => []DirectionHeld
<1>1. EntityInit => HeldAll(native, bearings)
  <2>1. SUFFICES ASSUME EntityInit PROVE HeldAll(native, bearings)
    OBVIOUS
  <2>2. native = NoValues /\ bearings = {}
    BY <2>1 DEF EntityInit
  <2>3. QED
    BY <2>2, NothingHeld
<1>2. EntityInv /\ HeldAll(native, bearings) /\ [EntityNext]_entityVars
        => HeldAll(native, bearings)'
  <2> SUFFICES ASSUME EntityInv, HeldAll(native, bearings), [EntityNext]_entityVars
               PROVE  HeldAll(native, bearings)'
    OBVIOUS
  <2>1. ASSUME EntitySetup PROVE HeldAll(native, bearings)'
    <3>1. PICK a \in Answers : Update(a, NoValues, NoLatches, NoAlerts, {})
      BY <2>1 DEF EntitySetup
    <3>2. a.raw["WindDir"] # 65535
      OBVIOUS
    <3>3. QED
      BY <3>1, <3>2, NothingHeld, UpdateKeeps
  <2>2. ASSUME PollBringsData PROVE HeldAll(native, bearings)'
    <3>1. PICK a \in Answers : Update(a, native, latch, alerts, bearings)
      BY <2>2 DEF PollBringsData
    <3>2. a.raw["WindDir"] # 65535
      OBVIOUS
    <3>3. /\ native \in [Sensors -> Values] /\ latch \in [Sensors -> BOOLEAN]
          /\ alerts \in [Sensors -> Nat] /\ bearings \in SUBSET Int
      BY DEF EntityInv, EntityTypes
    <3>4. QED
      BY <3>1, <3>2, <3>3, UpdateKeeps
  <2>3. ASSUME EntitiesRemoved \/ EntitiesLost PROVE HeldAll(native, bearings)'
    <3>1. native' = NoValues /\ bearings' = {}
      BY <2>3 DEF EntitiesRemoved, EntitiesLost, RemoveEntities
    <3>2. QED
      BY <3>1, NothingHeld DEF HeldAll
  <2>4. ASSUME UNCHANGED <<native, bearings>> PROVE HeldAll(native, bearings)'
    BY <2>4 DEF HeldAll
  <2>5. CASE PollFails
    BY <2>4, <2>5 DEF PollFails
  <2>6. CASE EntityStationChanges
    BY <2>4, <2>6 DEF EntityStationChanges, entities
  <2>7. CASE UNCHANGED entityVars
    BY <2>4, <2>7 DEF entityVars, entities
  <2>8. QED
    BY <2>1, <2>2, <2>3, <2>5, <2>6, <2>7 DEF EntityNext
<1>3. EntityInv /\ HeldAll(native, bearings) => DirectionHeld
  BY DEF EntityInv, HeldFrom, HeldAll, DirectionHeld
<1>4. QED
  BY <1>1, <1>2, <1>3, EntityInvariant, PTL DEF EntitySafe
=============================================================================
