---------------------------- MODULE MCWinDashboard ----------------------------
(* Two cards, of which one has two memory modules *)
EXTENDS WinDashboard

CONSTANTS b60, b70

MCCards    == {b60, b70}
MCFirst    == {b60}
MCCounters == {"util"}
MCOrder    == <<"clock", "util", "fan", "vram", "throttle">>
MCProvided == (b60 :> {"util"} @@ b70 :> {"util"})
MCModules  == (b60 :> {1} @@ b70 :> {1, 2})
===============================================================================
