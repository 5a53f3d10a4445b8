---------------------------- MODULE MCDavisEntities ----------------------------
(***************************************************************************)
(* The instances of DavisEntities TLC checks: a good answer, and the good  *)
(* answer with one thing different at a time: each kind of dash, the       *)
(* numbers that look like one, calm air, and parts of the answer missing.  *)
(***************************************************************************)
EXTENDS DavisEntities

Good ==
    [TempOut |-> 721, HumOut |-> 40, WindSpeed |-> 5, WindSpeed10Min |-> 4,
     WindDir |-> 360, RainRate |-> 2, UV |-> 31, SolarRad |-> 600,
     Barometer |-> 29921, ForecastIcon |-> 6, DewPoint |-> 46, WindGust |-> 9,
     ExtraTemp |-> 160, ExtraHum |-> 50]

(* All that a console without its sensor suite reports. *)
NoSuite ==
    [Good EXCEPT !.TempOut = 32767, !.HumOut = 255, !.WindSpeed = 255,
     !.WindSpeed10Min = IF Loop2 THEN 32767 ELSE 255, !.WindDir = 32767,
     !.RainRate = 65535, !.UV = 255, !.SolarRad = 32767, !.Barometer = 0,
     !.ForecastIcon = 255, !.DewPoint = 255,
     !.WindGust = IF Loop2 THEN 32767 ELSE 255, !.ExtraTemp = 255, !.ExtraHum = 255]

Raws ==
    {Good, NoSuite,
     [Good EXCEPT !.WindDir = 11, !.RainRate = 0],
     [Good EXCEPT !.WindDir = 0],
     [Good EXCEPT !.WindDir = 0, !.WindSpeed = 0],
     [Good EXCEPT !.WindDir = 255, !.SolarRad = 255],
     [Good EXCEPT !.HumOut = 255],
     [Good EXCEPT !.HumOut = 0],
     [Good EXCEPT !.TempOut = -32768],
     [Good EXCEPT !.ForecastIcon = 23, !.RainRate = 0]}

MCAnswers ==
    {[raw |-> r, hilows |-> TRUE, archive |-> TRUE] : r \in Raws}
        \cup {[raw |-> Good, hilows |-> FALSE, archive |-> FALSE]}
=============================================================================
