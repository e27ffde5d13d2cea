--------------------------- MODULE MCVstrEvntLive ---------------------------
(* VstrEvntLoop for TLC, with one connection of the programs whose timers   *)
(* end silence: program, epoll, events in memory.                          *)
EXTENDS VstrEvntLoop

LiveModes == {<<"echod", FALSE, 2>>, <<"echod", TRUE, 2>>, <<"cntl", FALSE, 1>>}
=============================================================================
