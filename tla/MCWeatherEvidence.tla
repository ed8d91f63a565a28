-------------------------- MODULE MCWeatherEvidence --------------------------
(* An instance of WeatherEvidence for TLC: two fixtures, three slots at two  *)
(* venues, two shapes a setup may have and four answers of the provider.      *)
EXTENDS WeatherEvidence

Venues  == {1, 2}
Indices == 1..3

At(venue, start, open) == [venue |-> venue, start |-> start, open |-> open]
Sample == [i \in Indices |-> CASE i = 1 -> At(1, 600, TRUE)
                               [] i = 2 -> At(2, 900, TRUE)
                               [] i = 3 -> At(1, 1200, TRUE)]
Later  == [i \in Indices |-> CASE i = 1 -> At(2, 600, FALSE)
                               [] i = 2 -> At(1, 840, TRUE)
                               [] i = 3 -> At(2, 1200, TRUE)]
TwoShapes == {Sample, Later}

\* The readings of an hour: a fair one, rain and gusts, heat, cold, gusts under a
\* code without a severity, and an hour whose probability of rain is not known.
Hour(at, probability, amount, felt, wind, gust, code) ==
  [at |-> at, probability |-> probability, amount |-> amount,
   temperature |-> 20, apparent |-> felt, wind |-> wind, gust |-> gust, code |-> code]
Fair(at)  == Hour(at, 10, 0, 22, 10, 20, 1)
Storm(at) == Hour(at, 85, 40, 18, 45, 70, 95)
Hot(at)   == Hour(at, 5, 0, 41, 12, 20, 0)
Cold(at)  == Hour(at, 40, 5, 4, 30, 40, 61)
Odd(at)   == Hour(at, 85, 40, 18, 45, 70, 4)
Dim(at)   == Hour(at, NoRisk, 0, NoRisk, 10, NoRisk, NoRisk)

Skies == {"storm", "split", "unknown", "outage"}
Forecasts ==
  [sky \in Skies |->
     CASE sky = "storm"   -> <<{Fair(600), Storm(780), Fair(1200), Cold(1380)},
                               {Hot(840), Fair(960), Storm(1140)}>>
       [] sky = "split"   -> <<{Cold(600), Fair(1200), Odd(1320)}, NoForecast>>
       [] sky = "unknown" -> <<{Dim(600), Dim(840), Fair(900), Hot(1260)},
                               {Dim(900), Storm(1230)}>>
       [] sky = "outage"  -> <<NoForecast, NoForecast>>]

Bytes == [s \in Identity |-> (s[1] * 37 + s[2] * 101) % 256]

\* Later finishes and changes of venue stand for the metrics of TournamentRules'
\* schedules.
Key(fixtures) ==
  <<fixtures[2].start - fixtures[1].start,
    IF fixtures[1].venue = fixtures[2].venue THEN 0 ELSE 1>>
=============================================================================
