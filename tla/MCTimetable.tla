------------------------------ MODULE MCTimetable ------------------------------
(* Three lessons: two that differ in the room and the subject, so that each of *)
(* the five maps has a vector of two, and one whose subject is down to nothing *)
(* after the next load.                                                        *)
EXTENDS Timetable

L(t, g, d, r, s) ==
  [f \in Fields |-> CASE f = "teacher" -> t [] f = "group" -> g [] f = "date_time" -> d
                      [] f = "room" -> r [] OTHER -> s]

MCLesson == { L(1, 1, 1, 1, 2), L(1, 1, 1, 2, 1) }

MCFiles == { << >>, << L(1, 1, 1, 1, 2), L(1, 1, 1, 2, 1) >> }

W(pole, form, low, high) == [pole |-> pole, form |-> form, low |-> low, high |-> high]
Equal(f, v) == W(f, "value", v, v)
AllOf(lesson) == [i \in 1 .. 5 |-> LET f == << "teacher", "group", "date_time", "room", "subject" >>[i]
                                   IN Equal(f, lesson[f])]

C(comand, words) == [comand |-> comand, words |-> words, doubled |-> FALSE]

Sent(commands) == [commands |-> commands, ended |-> TRUE]

MCRequests ==
  { Sent(<< C("select", << >>) >>),
    Sent(<< C("select", << W("room", "range", 2, Star) >>), C("reselect", << Equal("subject", 1) >>), C("print", << >>) >>),
    Sent(<< C("select", << W("group", "range", Star, 1), W("date_time", "range", 1, 2) >>) >>),
    Sent(<< C("insert", AllOf(L(1, 1, 1, 2, 1))), C("save", << >>) >>),
    Sent(<< C("insert", AllOf(L(1, 1, 1, 1, 2))), C("select", << W("date_time", "range", 1, 2400) >>) >>),
    Sent(<< C("remove", AllOf(L(1, 1, 1, 2, 1))) >>),
    Sent(<< C("generate", << Equal("", 1) >>), C("print", << W("room", "bare", Bad, Bad) >>) >>),
    Sent(<< C("select", << W("teacher", "bare", Bad, Bad) >>) >>),
    [commands |-> << >>, ended |-> FALSE] }
================================================================================
