------------------------------- MODULE Timetable -------------------------------
(* Shikanyan_LR's server: a timetable indexed by five maps, one selection for  *)
(* each session, and one object Query for all clients, whose conditions are    *)
(* executed one after the other.  The loop of main is single: what a request   *)
(* does is split into its commands, and no other request comes in between.     *)
EXTENDS Positions, SequencesExt, FiniteSetsExt, Functions

CONSTANTS Value,    \* of a field; those of numbers are ordered as by more()
          Lesson,   \* what a client inserts, the generator makes or a file holds
          Files,    \* contents Base.txt may have at first
          Requests, \* what a client may send
          Fd,       \* descriptors a connection may get
          NoFd,
          MaxIndex, MaxSessions, MaxCommands \* bounds of one life of the server

Fields  == {"teacher", "group", "date_time", "room", "subject"}
Numbers == {"group", "date_time", "room"}

(* A word without its last letter is a word; what a client sends is finite.    *)
AllCommands == UNION {ToSet(req.commands) : req \in Requests}
AllWords == UNION {ToSet(c.words) : c \in AllCommands}

ASSUME ValueAssumption ==
  /\ Value \subseteq Nat /\ \A v \in Value : v = 0 \/ v - 1 \in Value
  /\ Lesson \subseteq [Fields -> Value]
  /\ Files \subseteq Seq(Lesson)
  /\ \A req \in Requests : req.commands \in Seq(AllCommands)
  /\ \A c \in AllCommands : c.words \in Seq(AllWords)
  /\ NoFd \notin Fd

VARIABLES up,      \* the process runs
          file,    \* Base.txt
          inf, mp, global_index, ses, \* of Database
          sok,     \* main: the session of a descriptor
          zapros,  \* Query::com, which only an answered request empties
          serving, \* whose request is handled, the command it is at, was it accepted
          client,  \* the connections: "open" or, the client having closed it, "gone"
          asked    \* records loaded, inserted or generated, by what was ordered

process == << inf, mp, global_index, ses, sok, zapros, serving, client, asked >>
vars == << up, file, process >>

Idle == [fd |-> NoFd, at |-> 1, ok |-> FALSE]

-------------------------------------------------------------------------------
(* A command is sent as [comand, words, doubled]: doubled says that it holds   *)
(* two spaces in a row.  A word has the form "value" (field=low), "range"      *)
(* (field=low-high), "twice" (two signs =) or "bare" (none).                   *)
Star == -1  \* the character * for a bound
Bad  == -2  \* no number

ByFields == {"select", "reselect", "insert", "remove"}
Commands == ByFields \cup {"print", "generate", "save"}

GenerateOk(words) == Len(words) <= 1 /\ \A i \in DOMAIN words : words[i].low \in Nat

PrintOk(words) ==
  /\ \A i \in DOMAIN words : words[i].form = "bare" /\ words[i].pole \in Fields
  /\ \A i, j \in DOMAIN words : words[i].pole = words[j].pole => i = j

(* A lone * is refused, and so are two.                                        *)
BoundsOk(w) ==
  IF w.form = "value" THEN w.low \in Nat
  ELSE /\ {w.low, w.high} \subseteq Nat \cup {Star}
       /\ {w.low, w.high} # {Star}

Criterion(w) ==
  LET high == IF w.form = "value" THEN w.low ELSE w.high
      top  == IF w.pole = "date_time" THEN 2359 ELSE 1000000
  IN [pole |-> w.pole, low  |-> IF w.low = Star THEN 0 ELSE w.low,
      high |-> IF high = Star THEN top ELSE high]

WordOk(comand, w) ==
  /\ w.form \in {"value", "range"} /\ w.pole \in Fields
  /\ w.pole \in Numbers =>
       IF comand \in {"select", "reselect"}
       THEN BoundsOk(w) /\ (w.pole = "date_time" => Criterion(w).high < 2400)
       ELSE w.form = "value" /\ w.low \in Nat

AllFieldsOnce(words) == \A f \in Fields : Quantify(DOMAIN words, LAMBDA i : words[i].pole = f) = 1

Accepted(c) ==
  /\ c.comand \in Commands /\ ~c.doubled
  /\ c.comand = "save" => c.words = << >>
  /\ c.comand = "generate" => GenerateOk(c.words)
  /\ c.comand = "print" => PrintOk(c.words)
  /\ c.comand \in ByFields => \A i \in DOMAIN c.words : WordOk(c.comand, c.words[i])
  /\ c.comand \in {"insert", "remove"} => AllFieldsOnce(c.words)

(* The words of a lesson are values of their fields.                           *)
ASSUME LessonAssumption ==
  \A c \in AllCommands : c.comand \in {"insert", "remove"} /\ Accepted(c) =>
    \A i \in DOMAIN c.words : c.words[i].low \in Value

(* The search for "=" runs off the end of the string, where it may find one    *)
(* (an unknown field) or end the process: "poin = 0" was meant to stop it.     *)
Overruns(c) ==
  LET bad == SelectInSeq(c.words, LAMBDA w : ~WordOk(c.comand, w))
  IN /\ c.comand \in ByFields /\ ~c.doubled /\ bad # 0
     /\ \A i \in DOMAIN c.words : c.words[i].form # "twice" /\ (i >= bad => c.words[i].form = "bare")

(* Query::make: what was pushed before a command is refused, and the refused.  *)
FirstRefused(req) == SelectInSeq(req.commands, LAMBDA c : ~Accepted(c))

Pushed(req) ==
  IF ~req.ended THEN << >>
  ELSE IF FirstRefused(req) = 0 THEN req.commands
  ELSE SubSeq(req.commands, 1, FirstRefused(req) - 1)

-------------------------------------------------------------------------------
(* The maps, from a value to the indexes of its records.                       *)
NoMaps == [f \in Fields |-> [v \in Value |-> << >>]]

add_el_to_maps(maps, lesson, index) ==
  [f \in Fields |-> [maps[f] EXCEPT ![lesson[f]] = Append(@, index)]]

(* Mutant: the map of the rooms keeps a removed record.                        *)
DelAllButRoom(maps, lesson, index) ==
  [f \in Fields |-> IF f = "room" THEN maps[f] ELSE [maps[f] EXCEPT ![lesson[f]] = RemoveFirst(@, index)]]

del_el_from_maps(maps, lesson, index) ==
  [f \in Fields |-> [maps[f] EXCEPT ![lesson[f]] = RemoveFirst(@, index)]]

AddAll(maps, records) ==
  LET upTo[n \in 0 .. Len(records)] ==
        IF n = 0 THEN maps ELSE add_el_to_maps(upTo[n - 1], records[n].lesson, records[n].index)
  IN upTo[Len(records)]

DeleteAll(maps, records) ==
  LET upTo[n \in 0 .. Len(records)] ==
        IF n = 0 THEN maps ELSE del_el_from_maps(upTo[n - 1], records[n].lesson, records[n].index)
  IN upTo[Len(records)]

Indexed(lessons, first) ==
  [i \in DOMAIN lessons |-> [index |-> first + i - 1, lesson |-> lessons[i]]]

(* Mutant: the lower bound is left out.                                        *)
WithinAbove(crit, v) == crit.low < v /\ v <= crit.high

Within(crit, v) == crit.low <= v /\ v <= crit.high

(* The last criterion of a field is the one that counts; a field without one   *)
(* admits every number that was ever given, those of removed records too.      *)
association(criteria) ==
  LET last(f) == SelectLastInSeq(criteria, LAMBDA crit : crit.pole = f)
      Of(f) == IF last(f) = 0 THEN 0 .. global_index - 1
               ELSE UNION {ToSet(mp[f][v]) : v \in
                      IF f \in Numbers THEN {v \in Value : Within(criteria[last(f)], v)}
                                       ELSE {criteria[last(f)].low} \cap Value}
  IN {k \in 0 .. global_index - 1 : \A f \in Fields : k \in Of(f)}

intersection(lesson) ==
  {k \in 0 .. global_index - 1 : \A f \in Fields : k \in ToSet(mp[f][lesson[f]])}

-------------------------------------------------------------------------------
(* The life of the process.  The load takes a line up to its last character    *)
(* but one: a subject, known by the number of its letters, loses one.          *)
CutLine(lesson) == [lesson EXCEPT !["subject"] = IF @ = 0 THEN 0 ELSE @ - 1]

Ends ==
  /\ up' = FALSE /\ UNCHANGED file
  /\ inf' = << >> /\ mp' = NoMaps /\ global_index' = 0 /\ ses' = << >> /\ sok' = << >>
  /\ zapros' = << >> /\ serving' = Idle /\ client' = << >> /\ asked' = 0

Init ==
  /\ up = FALSE /\ file \in Files
  /\ inf = << >> /\ mp = NoMaps /\ global_index = 0 /\ ses = << >> /\ sok = << >>
  /\ zapros = << >> /\ serving = Idle /\ client = << >> /\ asked = 0

Start ==
  /\ ~up /\ up' = TRUE
  /\ LET lines == [i \in DOMAIN file |-> CutLine(file[i])]
     IN /\ inf' = Indexed(lines, 0) /\ mp' = AddAll(NoMaps, Indexed(lines, 0))
        /\ global_index' = Len(lines) /\ asked' = Len(lines)
  /\ UNCHANGED << file, ses, sok, zapros, serving, client >>

Killed == up /\ Ends

-------------------------------------------------------------------------------
Free == up /\ serving = Idle

Connect(fd) ==
  /\ Free /\ fd \notin DOMAIN client
  /\ client' = [d \in DOMAIN client \cup {fd} |-> IF d = fd THEN "open" ELSE client[d]]
  /\ UNCHANGED << up, file, inf, mp, global_index, ses, sok, zapros, serving, asked >>

Leave(fd) ==
  /\ up /\ fd \in DOMAIN client /\ client[fd] = "open"
  /\ client' = [client EXCEPT ![fd] = "gone"]
  /\ UNCHANGED << up, file, inf, mp, global_index, ses, sok, zapros, serving, asked >>

(* Mutant: the session stays with the descriptor.                              *)
ForgetNot(fd) ==
  IF fd \notin DOMAIN sok THEN Ends
  ELSE /\ client' = Restrict(client, DOMAIN client \ {fd})
       /\ UNCHANGED << up, file, inf, mp, global_index, ses, sok, zapros, serving, asked >>

(* sok.erase(sok.find(fd)) with no session yet ends the process.  Stop is the  *)
(* same on a connection that is open.                                          *)
Forget(fd) ==
  IF fd \notin DOMAIN sok THEN Ends
  ELSE /\ sok' = Restrict(sok, DOMAIN sok \ {fd})
       /\ client' = Restrict(client, DOMAIN client \ {fd})
       /\ UNCHANGED << up, file, inf, mp, global_index, ses, zapros, serving, asked >>

ClientOut(fd) == Free /\ fd \in DOMAIN client /\ client[fd] = "gone" /\ Forget(fd)

Stop(fd) == Free /\ fd \in DOMAIN client /\ client[fd] = "open" /\ Forget(fd)

(* The number of records a sequence of commands asks for.                      *)
Ordered(c) ==
  CASE c.comand = "insert" -> 1
    [] c.comand = "generate" /\ c.words # << >> -> c.words[1].low
    [] OTHER -> 0

Adds(commands) == Total([i \in DOMAIN commands |-> Ordered(commands[i])])

BeginSession(fd) ==
  IF fd \in DOMAIN sok THEN UNCHANGED << sok, ses >>
  ELSE /\ Len(ses) < MaxSessions
       /\ sok' = [d \in DOMAIN sok \cup {fd} |-> IF d = fd THEN Len(ses) + 1 ELSE sok[d]]
       /\ ses' = Append(ses, << >>)

Request(fd) ==
  /\ Free /\ fd \in DOMAIN client /\ client[fd] = "open"
  /\ \E req \in Requests :
       LET refused == ~req.ended \/ FirstRefused(req) # 0
       IN /\ Len(zapros) + Len(req.commands) <= MaxCommands
          /\ global_index + Adds(zapros) + Adds(Pushed(req)) <= MaxIndex
          /\ \/ req.ended /\ refused /\ Overruns(req.commands[FirstRefused(req)]) /\ Ends
             \/ /\ BeginSession(fd)
                /\ zapros' = zapros \o Pushed(req)
                /\ asked' = asked + Adds(Pushed(req))
                /\ serving' = [fd |-> fd, at |-> 1, ok |-> ~refused]
                /\ UNCHANGED << up, file, inf, mp, global_index, client >>

-------------------------------------------------------------------------------
(* resresult_of_zapros, a command at a time.                                   *)
At(comand) == /\ up /\ serving.ok /\ serving.at <= Len(zapros)
              /\ zapros[serving.at].comand = comand

Words == zapros[serving.at].words
Criteria == [i \in DOMAIN Words |-> Criterion(Words[i])]
FieldsOf(words) == [f \in Fields |-> words[SelectInSeq(words, LAMBDA w : w.pole = f)].low]

Onward == serving' = [serving EXCEPT !.at = @ + 1]

(* Mutant: a new record is numbered by the size of the base.                   *)
AddRecordsAtSize(lessons) ==
  /\ inf' = inf \o Indexed(lessons, Len(inf))
  /\ mp' = AddAll(mp, Indexed(lessons, Len(inf)))
  /\ global_index' = global_index + Len(lessons)
  /\ UNCHANGED << up, file, ses, sok, zapros, client, asked >>

AddRecords(lessons) ==
  /\ inf' = inf \o Indexed(lessons, global_index)
  /\ mp' = AddAll(mp, Indexed(lessons, global_index))
  /\ global_index' = global_index + Len(lessons)
  /\ UNCHANGED << up, file, ses, sok, zapros, client, asked >>

Save ==
  /\ At("save") /\ Onward
  /\ file' = [i \in DOMAIN inf |-> inf[i].lesson]
  /\ UNCHANGED << up, inf, mp, global_index, ses, sok, zapros, client, asked >>

Generate ==
  /\ At("generate") /\ Onward
  /\ \E lessons \in [1 .. Ordered(zapros[serving.at]) -> Lesson] : AddRecords(lessons)

InsertLesson == At("insert") /\ Onward /\ AddRecords(<< FieldsOf(Words) >>)

RemoveLesson ==
  LET dead == {i \in DOMAIN inf : inf[i].index \in intersection(FieldsOf(Words))}
  IN /\ At("remove") /\ Onward
     /\ inf' = Picked(inf, DOMAIN inf \ dead)
     /\ mp' = DeleteAll(mp, Picked(inf, dead))
     /\ UNCHANGED << up, file, global_index, ses, sok, zapros, client, asked >>

Chosen(records, indexes) == Picked(records, {i \in DOMAIN records : records[i].index \in indexes})

(* The walk to the next index goes on until it meets it.                       *)
Select ==
  LET chosen == association(Criteria)
  IN /\ At("select")
     /\ IF \E k \in chosen : \A i \in DOMAIN inf : inf[i].index # k THEN Ends
        ELSE /\ ses' = [ses EXCEPT ![sok[serving.fd]] = Chosen(inf, chosen)]
             /\ Onward
             /\ UNCHANGED << up, file, inf, mp, global_index, sok, zapros, client, asked >>

Reselect ==
  /\ At("reselect") /\ Onward
  /\ ses' = [ses EXCEPT ![sok[serving.fd]] = Chosen(@, association(Criteria))]
  /\ UNCHANGED << up, file, inf, mp, global_index, sok, zapros, client, asked >>

Show ==
  /\ At("print") /\ Onward
  /\ UNCHANGED << up, file, inf, mp, global_index, ses, sok, zapros, client, asked >>

(* The answers leave in several sends: the second to a connection that is      *)
(* closed raises SIGPIPE.                                                      *)
SendsMayEnd(fd) == client[fd] = "gone" /\ Ends

(* Mutant: zapros is left as it is.                                            *)
AnswerKeeping ==
  /\ up /\ serving.ok /\ serving.at > Len(zapros)
  /\ \/ SendsMayEnd(serving.fd)
     \/ /\ serving' = Idle
        /\ UNCHANGED << up, file, inf, mp, global_index, ses, sok, zapros, client, asked >>

Answer ==
  /\ up /\ serving.ok /\ serving.at > Len(zapros)
  /\ \/ SendsMayEnd(serving.fd)
     \/ /\ zapros' = << >> /\ serving' = Idle
        /\ UNCHANGED << up, file, inf, mp, global_index, ses, sok, client, asked >>

(* The handler of MyException does not empty zapros.                           *)
Refuse ==
  /\ up /\ serving # Idle /\ ~serving.ok
  /\ \/ SendsMayEnd(serving.fd)
     \/ /\ serving' = Idle
        /\ UNCHANGED << up, file, inf, mp, global_index, ses, sok, zapros, client, asked >>

Next == \/ Start \/ Killed
        \/ \E fd \in Fd : Connect(fd) \/ Leave(fd) \/ ClientOut(fd) \/ Stop(fd) \/ Request(fd)
        \/ Save \/ Generate \/ InsertLesson \/ RemoveLesson \/ Select \/ Reselect \/ Show \/ Answer \/ Refuse

Spec == Init /\ [][Next]_vars

-------------------------------------------------------------------------------
Records == [index : Nat, lesson : [Fields -> Value]]

TypeOK ==
  /\ up \in BOOLEAN /\ file \in Seq([Fields -> Value])
  /\ inf \in Seq(Records) /\ mp \in [Fields -> [Value -> Seq(Nat)]] /\ global_index \in Nat
  /\ ses \in Seq(Seq(Records))
  /\ sok \in [DOMAIN sok -> 1 .. Len(ses)]
  /\ client \in [DOMAIN client -> {"open", "gone"}] /\ DOMAIN client \subseteq Fd
  /\ serving \in [fd : Fd \cup {NoFd}, at : Nat \ {0}, ok : BOOLEAN]

(* del_el_from_maps looks for an index in all five maps until it finds it: each *)
(* record must stand in the vector of each of its values, once, in the order of *)
(* the indexes, which set_intersection relies on, and nothing else may.         *)
MapsAgree ==
  \A f \in Fields : \A v \in Value :
    LET those == Picked(inf, {i \in DOMAIN inf : inf[i].lesson[f] = v})
    IN mp[f][v] = [i \in DOMAIN those |-> those[i].index]

(* A selection is made of copies.  Numbers are never given twice, so that the  *)
(* copy of a record that is still in the base is that record, and a reselect   *)
(* after other clients' removals and inserts drops no wrong one.               *)
SelectionsKnown ==
  \A n \in DOMAIN ses : \A i \in DOMAIN ses[n] :
    LET copy == ses[n][i]
    IN /\ copy.index < global_index
       /\ \A j \in DOMAIN inf : inf[j].index = copy.index => inf[j] = copy
       /\ i > 1 => ses[n][i - 1].index < copy.index

(* Sessions are found by descriptor, and descriptors come again: no two        *)
(* connections share a session, and only a connection has one.                 *)
SessionsPrivate ==
  /\ DOMAIN sok \subseteq DOMAIN client
  /\ \A c, d \in DOMAIN sok : sok[c] = sok[d] => c = d

(* What a refused request has pushed stays in zapros and is executed with the  *)
(* next one, under another session: late and for somebody else, but once.      *)
RunsOnce == asked = global_index + Adds(SubSeq(zapros, serving.at, Len(zapros)))

(* README "select": the records with a suitable value in every field named, in *)
(* the order of the base.  With a criterion no removed record is met, and the  *)
(* walk through the base ends; only "select end" after a removal overruns.     *)
Suits(lesson, criteria) ==
  \A f \in Fields :
    LET those == {i \in DOMAIN criteria : criteria[i].pole = f}
    IN those # {} => LET crit == criteria[Max(those)]
                     IN IF f \in Numbers THEN lesson[f] \in crit.low .. crit.high ELSE lesson[f] = crit.low

TakesSuitable ==
  Select /\ Criteria # << >> =>
    /\ up'
    /\ ses'[sok[serving.fd]] = Picked(inf, {i \in DOMAIN inf : Suits(inf[i].lesson, Criteria)})

SelectsSuitable == [][TakesSuitable]_vars
================================================================================
