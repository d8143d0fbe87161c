------------------------------ MODULE MCBotLoop ------------------------------
(***************************************************************************)
(* Instances of BotLoop for TLC.                                           *)
(***************************************************************************)
EXTENDS BotLoop, TLC

CONSTANTS r1, r2, s1, p1

Requests == {r1, r2}
Senders  == {s1}
Replies  == {p1}

\* Two updates; two updates and a send; one update with sends in and out of it.
Scenes   == {{r1, r2}, {r1, s1, p1}}
Crowd    == {{r1, r2, s1}}

BothModes == {"web", "polling"}
=============================================================================
