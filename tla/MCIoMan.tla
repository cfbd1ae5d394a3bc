------------------------------ MODULE MCIoMan ------------------------------
(* Small instances of IoMan for TLC.                                       *)
EXTENDS IoMan

RequestTypes == {"simple", "menu", "compat"}

(* init(): each type once.                                                 *)
ProgramStartup == {<<"compat", "menu">>}

(* A type that is registered already, and none beyond ioInit's own (as     *)
(* miniInit() does).                                                       *)
OtherStartups == {<<"menu", "menu">>, << >>}

AllStartups == ProgramStartup \cup OtherStartups
=============================================================================
