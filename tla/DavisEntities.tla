----------------------------- MODULE DavisEntities -----------------------------
(***************************************************************************)
(* The entities of an entry (sensor.py, binary_sensor.py, weather.py) on   *)
(* top of its coordinator.  A poll that brings data is followed, in the    *)
(* same callback, by every entity's update; a poll that fails makes all of *)
(* them unavailable and evaluates none.  A sensor remembers its last value *)
(* (_attr_native_value), which a direction falls back on, and whether it   *)
(* has already warned that its value is missing.                           *)
(*                                                                         *)
(* DavisCoordinator has the streak and the repair issue; every step here   *)
(* is one of its steps.  Only one entry is assumed, as its issue is shared *)
(* by all of them.                                                         *)
(***************************************************************************)
EXTENDS DavisReadings, DavisCoordinator

CONSTANTS
    Entry,      \* the one entry
    Answers     \* what the console may answer

ASSUME EntitiesAssumption == Entries = {Entry} /\ Answers \subseteq Answer

VARIABLES
    available,   \* coordinator.last_update_success, for entities that exist
    answer,      \* the answer coordinator.data was made from
    native,      \* per sensor: _attr_native_value, which is what it reports
    latch,       \* per sensor: _attr_missing_value_logged
    alerts,      \* history, per sensor: warnings since it last had a value
    bearings     \* history: directions measured since the entities were made

entities   == <<available, answer, native, latch, alerts, bearings>>
entityVars == <<vars, entities>>

Values == Int \cup {Missing, Computed}

EntityTypeOK ==
    /\ TypeOK
    /\ available \in BOOLEAN
    /\ answer \in Answers \cup {Missing}
    /\ native \in [Sensors -> Values]
    /\ latch \in [Sensors -> BOOLEAN]
    /\ alerts \in [Sensors -> Nat]
    /\ bearings \subseteq Int

NoValues == [s \in Sensors |-> Missing]
NoLatches == [s \in Sensors |-> FALSE]
NoAlerts == [s \in Sensors |-> 0]

EntityInit ==
    /\ Init
    /\ available = FALSE /\ answer = Missing /\ native = NoValues
    /\ latch = NoLatches /\ alerts = NoAlerts /\ bearings = {}

RemoveEntities ==
    /\ available' = FALSE /\ answer' = Missing /\ native' = NoValues
    /\ latch' = NoLatches /\ alerts' = NoAlerts /\ bearings' = {}

(* The sensors that are expected to be without a value at times. *)
IgnoredNull == {"SolarRad", "UV", "RainRate"} \cup Directions

(* A missing value that is worth a warning. *)
Alarming(s, value) == value = Missing /\ s \notin IgnoredNull

(* Mutant of Latched: only the first missing value of an outage sets it. *)
LatchedAlternately(s, value, was) == Alarming(s, value) /\ ~was

(* _attr_missing_value_logged after an update. *)
Latched(s, value, was) == Alarming(s, value)

(* The raw values the docs call "no data". *)
NoData(f) ==
    CASE f \in {"TempOut", "SolarRad"} -> {32767}
      [] f = "WindDir"                 -> {0, 32767}
      [] f = "RainRate"                -> {65535}
      [] f = "WindSpeed10Min" /\ Loop2 -> {}
      [] f = "WindGust" /\ Loop2       -> {}
      [] f = "Barometer"               -> Int \ Pressures
      [] OTHER                         -> {255}

Measured(a, f) == f \in Arrived(a) /\ a.raw[f] \notin NoData(f)

(* coordinator.data after each answer. *)
DataOf == [a \in Answers |-> Data(a)]

(* All entities update from an answer.  The value reported is the one kept. *)
Update(a, held, logged, count, seen) ==
    /\ available' = TRUE /\ answer' = a
    /\ native' = [s \in Sensors |-> NativeValue(DataOf[a], s, held[s])]
    /\ latch' = [s \in Sensors |-> Latched(s, native'[s], logged[s])]
    /\ alerts' = [s \in Sensors |->
          IF ~Alarming(s, native'[s]) THEN 0
          ELSE IF logged[s] THEN count[s] ELSE count[s] + 1]
    /\ bearings' = seen \cup {b \in {a.raw["WindDir"]} : Measured(a, "WindDir")}

(* The platforms are set up after the first refresh, with new entities. *)
EntitySetup ==
    /\ Setup(Entry)
    /\ \E a \in Answers :
          ~DewPointRaises(a) /\ Update(a, NoValues, NoLatches, NoAlerts, {})

PollBringsData ==
    /\ Poll(Entry, "data")
    /\ \E a \in Answers :
          ~DewPointRaises(a) /\ Update(a, native, latch, alerts, bearings)

(* Mutant of PollFails: the data of the last success counts as success. *)
PollFailsUnnoticed ==
    /\ \E r \in Results \ {"data"} : Poll(Entry, r)
    /\ UNCHANGED entities

(* UpdateFailed; an answer that cannot be processed ends so, too. *)
PollFails ==
    /\ \E r \in Results \ {"data"} : Poll(Entry, r)
    /\ available' = FALSE
    /\ UNCHANGED <<answer, native, latch, alerts, bearings>>

EntitiesRemoved == Unload(Entry) /\ RemoveEntities

EntitiesLost == Restart /\ RemoveEntities

EntityStationChanges == StationChanges(Entry) /\ UNCHANGED entities

EntityNext ==
    \/ EntitySetup \/ PollBringsData \/ PollFails
    \/ EntitiesRemoved \/ EntitiesLost \/ EntityStationChanges

EntitySafe == EntityInit /\ [][EntityNext]_entityVars
EntitySpec == EntitySafe /\ WF_entityVars(PollBringsData \/ PollFails)

-----------------------------------------------------------------------------
(* May sensor s show value v: was it measured in the last answer, or is it
   one of the two documented stand-ins, a rain rate of zero and a direction
   measured earlier?  *)
Genuine(s, v) ==
    \/ s \in Fields \ {"ForecastIcon"} /\ Measured(answer, s)
         /\ v = answer.raw[s] - Offset(s)
    \/ s = "ForecastIcon" /\ Measured(answer, s) /\ v = Outlook(answer.raw[s])
    \/ s = "DewPoint" /\ v = Computed
         /\ Measured(answer, "TempOut") /\ Measured(answer, "HumOut")
    \/ s = "RainRate" /\ v = 0
    \/ s = "WindDir" /\ v \in bearings
    \/ s = "WindRose" /\ \E b \in bearings : v = WindRose(b)

(* "Sensors report unavailable, not a fake reading, when the console has no
   data for a field" *)
AllReadingsGenuine ==
    available => \A s \in Sensors : native[s] # Missing => Genuine(s, native[s])

(* Where the code falls short of that: the dash of an extra temperature is
   not recognised, and without a forecast the conditions say "Sunny". *)
KnownFake(s) ==
    \/ s = "ExtraTemp" /\ answer.raw.ExtraTemp = 255
    \/ s = "ForecastIcon" /\ (Loop2 \/ answer.raw.ForecastIcon \notin Icons)

(* Apart from these two, whatever the console answers, no sensor shows a
   value nobody measured. *)
NoFakeReading ==
    available =>
        \A s \in Sensors :
            native[s] # Missing => Genuine(s, native[s]) \/ KnownFake(s)

(* A direction that was measured once is held: "a fresh boot returns None"
   and nothing after it does.  Direction and rose each hold a value of their
   own and never disagree. *)
DirectionHeld ==
    /\ native["WindDir"] = Missing <=> bearings \subseteq DashValues
    /\ native["WindRose"] = IF native["WindDir"] = Missing THEN Missing
                            ELSE WindRose(native["WindDir"])

(* The weather entity and the binary sensors read the same data along other
   code, and tell the same story as the sensors, up to values the sensors
   mistake for dashes and the bearing of calm air. *)
PresentationsAgree ==
    available =>
        LET d == DataOf[answer] IN
        /\ \A f \in Attributes \ {"WindDir"} :
              native[f] = IF IsDash(f, Attribute(d, f)) THEN Missing
                          ELSE Attribute(d, f)
        /\ d.WindDir = 0 \/ IsDash("WindDir", d.WindDir) \/ native["WindDir"] = d.WindDir
        /\ d.WindDir = 0 => native["WindSpeed"] = 0
        /\ IsRaining(d) /\ ~IsDash("RainRate", d.RainRate) <=> native["RainRate"] > 0
        /\ d.ForecastIcon \in Icons => Condition(d) = native["ForecastIcon"]
        /\ IssConnection(d) <=>
              \E f \in {"TempOut", "WindSpeed"} : native[f] # Missing

(* "Latches so a persistently missing value warns once per outage": one
   warning for as long as the value is missing, however many polls fail in
   between, and never none. *)
AlertedOncePerOutage ==
    \A s \in Sensors \ IgnoredNull :
        /\ alerts[s] <= 1
        /\ available => (alerts[s] = 1 <=> native[s] = Missing)

(* While the repair issue is there, no entity shows a reading. *)
IssueHidesReadings == issue => ~available
=============================================================================
