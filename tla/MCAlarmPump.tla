----------------------------- MODULE MCAlarmPump -----------------------------
(* Instances of AlarmPump for TLC: a main thread, a game thread above it and a *)
(* sound thread above both.                                                    *)
EXTENDS AlarmPump

CONSTANTS main, game, sound

Priorities == [f \in Fibers |-> CASE f = main -> 16 [] f = game -> 15 [] f = sound -> 4]
==============================================================================
