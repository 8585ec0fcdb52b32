----------------------------- MODULE MCWinHooks -----------------------------
(* WinHooks with all settings but those with both hooks, which share       *)
(* nothing but the process.                                                *)
EXTENDS WinHooks

AnySettings == {{}, {"mempatch"}, {"winio"}, {"ports"}, {"mempatch", "winio"},
                {"mempatch", "ports"}}
=============================================================================
