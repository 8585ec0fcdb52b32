----------------------------- MODULE MCSettings -----------------------------
(* Two injectors, one of which patches a program.                          *)
EXTENDS Settings, TLC

CONSTANTS injector1, injector2, program1, program2, section, mode, ports

Program == injector1 :> program1 @@ injector2 :> program2
=============================================================================
