-------------------------------- MODULE MCBattle --------------------------------
(* The sea battle and the echo server, each with the loop of PollLoop: a       *)
(* behaviour is one program's.                                                 *)
EXTENDS Battle

VARIABLE program

(* Two ships of which one has two cells, and a cell that is no ship's.         *)
MCFleets == { << {1, 2}, {3} >> }

MCInit == Init /\ program \in {"sea_battle", "echo"}

Echo(step) == program = "echo" /\ step /\ Idle /\ program' = program

Battles(step) == program = "sea_battle" /\ step /\ program' = program

MCNext == Battles(Next) \/ Echo(EchoNext)

(* Neither loop stops between two visits.                                      *)
MCSpec ==
  /\ MCInit /\ [][MCNext]_<< vars, program >>
  /\ WF_<< vars, program >>(Battles(Step) \/ Echo(EchoStep))
================================================================================
