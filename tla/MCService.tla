------------------------------ MODULE MCService ------------------------------
(* Small instances of the service for TLC.                                  *)
EXTENDS Service, TLC

CONSTANTS early, late   \* two schedules, in two timezones

(* The clocks of one zone go back at 2 from 4 to 2, those of the other go   *)
(* forward at 2 from 2 to 4: the first schedule names a minute that comes   *)
(* twice, the second one that never comes.                                  *)
MCZone == [c \in Crons |-> IF c = early THEN [before |-> 2, after |-> 0, at |-> 2]
                                        ELSE [before |-> 0, after |-> 2, at |-> 2]]
MCMinutes == [c \in Crons |-> IF c = early THEN {2, 3} ELSE {1, 2, 5}]
MCRank == [r \in Routines |-> IF r = 3 THEN 0 ELSE 1]
=============================================================================
