--------------------------------- MODULE Battle ---------------------------------
(* The sea battle of AleksandraNikolenko/sea_battle: ser_bat.cpp runs the loop *)
(* of PollLoop, and server.h keeps a Player for every descriptor ever accepted *)
(* and a Game for every pair that was brought together.  A Game is its two     *)
(* descriptors: all it changes is in the players.                              *)
EXTENDS PollLoop

CONSTANTS Cell,    \* row and column as one value
          Fleets,  \* what "Ships:" may place: sequences of sets of cells
          NShips,  \* 10 in the code
          NoGame,  \* game_ before the first game and after free
          Leavers, \* bounds the clients that close without Quit
  MaxSent  \* bounds the requests of all clients together

ASSUME BattleAssumption ==
  /\ NShips \in Nat /\ Leavers \subseteq Fd
  /\ \A fleet \in Fleets : fleet \in Seq(SUBSET Cell) /\ Len(fleet) = NShips

VARIABLES Players, \* of a descriptor that was ever accepted
          sent,
          again    \* history: has someone in a game asked for another one?

vars == << loopvars, Players, sent, again >>

(* The constructor sets neither numb_ nor game_: taken here as the 0 that fresh *)
(* memory has.                                                                 *)
NewPlayer == [status |-> "FREE", queue |-> TRUE, numb |-> 0, qs |-> -1, game |-> NoGame, ships |-> << >>]

Init == LoopInit /\ Players = << >> /\ sent = 0 /\ again = FALSE

-------------------------------------------------------------------------------
(* What analysis reads and changes.                                            *)
Free(fd) == {k \in DOMAIN Players : k # fd /\ Players[k].status = "FREE"}

Opponent(fd, game) == IF game[1] = fd THEN game[2] ELSE game[1]

(* Mutant: only the one who asks is given the turn, the other keeps its own.   *)
PairedBoth(fd, k) ==
  [Players EXCEPT
     ![fd] = [@ EXCEPT !.status = "InGame", !.numb = 1, !.game = << fd, k >>, !.queue = TRUE],
     ![k] = [@ EXCEPT !.status = "InGame", !.numb = 2, !.game = << fd, k >>]]

Paired(fd, k) ==
  [Players EXCEPT
     ![fd] = [@ EXCEPT !.status = "InGame", !.numb = 1, !.game = << fd, k >>, !.queue = TRUE],
     ![k] = [@ EXCEPT !.status = "InGame", !.numb = 2, !.game = << fd, k >>, !.queue = FALSE]]

ChangeQ(players, game) ==
  [k \in DOMAIN players |->
     IF k \in {game[1], game[2]} THEN [players[k] EXCEPT !.queue = ~@] ELSE players[k]]

Freed(players, game) ==
  [k \in DOMAIN players |->
     IF k \in {game[1], game[2]} THEN [players[k] EXCEPT !.status = "FREE", !.game = NoGame] ELSE players[k]]

Killed(ship) == ship.status = ship.cells
Covering(player, cell) == {i \in DOMAIN player.ships : cell \in player.ships[i].cells}

(* The first ship that covers the cell is wounded, and every call for a ship   *)
(* that is all wounds counts one ship less.                                    *)
Hit(player, cell) ==
  IF Covering(player, cell) = {} THEN player
  ELSE LET i == Min(Covering(player, cell))
           wounded == [player EXCEPT !.ships[i].status = @ \cup {cell}]
       IN IF Killed(wounded.ships[i]) THEN [wounded EXCEPT !.qs = @ - 1] ELSE wounded

Placed(fleet) == [i \in DOMAIN fleet |-> [cells |-> fleet[i], status |-> {}]]

-------------------------------------------------------------------------------
(* A message is two writes: to a client that has closed the second may raise   *)
(* SIGPIPE, a descriptor the server closed only makes both fail.               *)
Write(fds) == running' = TRUE \/ ((\E k \in fds : conn[k] = "gone") /\ running' = FALSE)

(* A member of an object that is not there: the process ends.                  *)
Crash == running' = FALSE /\ UNCHANGED << Players, again >>

Says(fds) == Write(fds) /\ UNCHANGED << Players, again >>

(* "Play" does not ask whether its sender is in a game.                        *)
Play(fd) ==
  \/ Free(fd) = {} /\ Says({fd})
  \/ /\ Free(fd) # {} /\ Players' = Paired(fd, Min(Free(fd))) /\ Write({fd})
     /\ again' = (again \/ Players[fd].status = "InGame")

Ships(fd, fleet) ==
  LET game == Players[fd].game
  IN IF game = NoGame THEN Crash
     ELSE /\ Players' = ChangeQ([Players EXCEPT ![fd].ships = Placed(fleet), ![fd].qs = NShips], game)
          /\ Write({Opponent(fd, game)}) /\ UNCHANGED again

(* MISS, KILL and HALF: both are told the cell.                                *)
Told(players, game) == Players' = players /\ Write({game[1], game[2]}) /\ UNCHANGED again

(* LOSE: both are told, and are free again.                                    *)
Over(players, game) == Told(Freed(players, game), game)

(* A miss passes the turn on, and only a miss finds the game lost.             *)
Missed(game, k) ==
  LET passed == ChangeQ(Players, game)
  IN IF passed[k].qs = 0 THEN Over(passed, game) ELSE Told(passed, game)

(* Mutant: the turn is passed on after a hit too.                              *)
StruckPassing(game, k, cell) ==
  Told(ChangeQ([Players EXCEPT ![k] = Hit(Hit(@, cell), cell)], game), game)

(* analysis asks hit once more to tell a ship that is killed from one that is  *)
(* not.                                                                        *)
Struck(game, k, cell) == Told([Players EXCEPT ![k] = Hit(Hit(@, cell), cell)], game)

NotCommand(fd) == Says({fd})

(* Before the first game numb_ is neither 1 nor 2: not a command.              *)
Move(fd, cell) ==
  LET game == Players[fd].game
      k == game[3 - Players[fd].numb]
  IN IF Players[fd].numb = 0 THEN NotCommand(fd)
     ELSE IF game = NoGame \/ Players[k].ships = << >> THEN Crash
     ELSE IF Covering(Players[k], cell) = {} THEN Missed(game, k)
     ELSE Struck(game, k, cell)

ShowOther(fd) == IF Players[fd].game = NoGame THEN Crash ELSE Says({fd})

ShowMy(fd) == Says({fd})

(* What is answered at once, and what has to wait for its turn.                *)
Analysis(fd) ==
  \/ ShowMy(fd) \/ ShowOther(fd)
  \/ ~Players[fd].queue /\ Says({fd})
  \/ /\ Players[fd].queue
     /\ \/ Play(fd)
        \/ \E fleet \in Fleets : Ships(fd, fleet)
        \/ \E cell \in Cell : Move(fd, cell)
        \/ NotCommand(fd)

(* Quit closes the descriptor and leaves its slot and its Player where they    *)
(* are.                                                                        *)
Quit(i) ==
  LET fd == act_set[i].fd
  IN IF Players[fd].game = NoGame THEN Consumes(i) /\ Crash
     ELSE /\ Write({fd, Opponent(fd, Players[fd].game)}) /\ Players' = Freed(Players, Players[fd].game)
          /\ act_set' = Cleared(i)
          /\ conn' = [conn EXCEPT ![fd] = "free"] /\ unread' = [unread EXCEPT ![fd] = 0]
          /\ UNCHANGED << pending, again >>

Request(i) ==
  /\ Reads(i) /\ UNCHANGED sent
  /\ \/ Consumes(i) /\ Analysis(act_set[i].fd)
     \/ Quit(i)

(* insert leaves the Player that is already there for the descriptor.          *)
Accepts ==
  /\ Accept
  /\ Players' = IF Len(act_set) < MaxSlots /\ NewFd \notin DOMAIN Players
                THEN [k \in DOMAIN Players \cup {NewFd} |-> IF k = NewFd THEN NewPlayer ELSE Players[k]]
                ELSE Players
  /\ UNCHANGED << sent, again >>

Idle == UNCHANGED << Players, sent, again >>

Step ==
  \/ (Poll \/ \E i \in DOMAIN act_set : ReadFails(i)) /\ Idle
  \/ Accepts \/ \E i \in DOMAIN act_set : Request(i)

Client ==
  \/ (Connect \/ \E fd \in Leavers : Leave(fd)) /\ Idle
  \/ \E fd \in Fd : Send(fd) /\ sent < MaxSent /\ sent' = sent + 1 /\ UNCHANGED << Players, again >>

Next == Client \/ Step

(* The loop does not stop between two visits.                                  *)
Spec == Init /\ [][Next]_vars /\ WF_vars(Step)

-------------------------------------------------------------------------------
(* Two who play have the same game and one turn between them, whoever quits,   *)
(* loses, leaves or takes over a descriptor, until someone in a game asks for  *)
(* another.                                                                    *)
OneTurn ==
  \A k \in DOMAIN Players :
    Players[k].status = "InGame" /\ ~again =>
      LET other == Players[Opponent(k, Players[k].game)]
      IN /\ other.status = "InGame" /\ other.game = Players[k].game
         /\ other.queue # Players[k].queue /\ other.numb # Players[k].numb

Wounds(player) == {w \in (1 .. NShips) \X Cell : player.ships # << >> /\ w[2] \in player.ships[w[1]].status}

(* A ship is wounded by the one whose turn it is, who then has the turn again. *)
HitsKeepTurn ==
  [][\A k \in DOMAIN Players :
       Wounds(Players'[k]) \ Wounds(Players[k]) # {} =>
         \E f \in DOMAIN Players \ {k} :
           /\ Players[f].game # NoGame /\ k = Opponent(f, Players[f].game)
           /\ Players[f].queue /\ Players'[f].queue]_vars

(* server.h of qs_: the number of ships that are left.                         *)
QsIsShipsLeft ==
  \A k \in DOMAIN Players :
    Players[k].ships # << >> =>
      Players[k].qs = Cardinality({i \in DOMAIN Players[k].ships : ~Killed(Players[k].ships[i])})
================================================================================
