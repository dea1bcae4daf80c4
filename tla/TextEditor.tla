------------------------------- MODULE TextEditor -------------------------------
(* AntonianGV's server and client: paragraphs that any client may show, add,   *)
(* delete and search, read from text.txt at the start and written by quit.     *)
(* One read takes one request, and its answer is written before the next.      *)
EXTENDS Integers, FiniteSets, SequencesExt, FiniteSetsExt

CONSTANTS Client,
          Files,      \* contents of text.txt: of every line [id, length, found]
          New,        \* paragraphs that clients add
          PatLen,     \* length of the string that is searched for
          Depths,     \* depths of search requests
          Numbers,    \* paragraph numbers in requests
          MaxLine,    \* 1023: what one fgets takes, the end of the line included
          MaxEdits    \* bounds the requests, those before a restart included

(* A paragraph that was read is found where the string is in it.               *)
IsParagraph(p) == /\ p.length \in Nat
                  /\ \A j \in p.found : j \in Nat /\ j + PatLen <= p.length

(* What the constants must satisfy.                                            *)
EditorAssumption ==
  /\ PatLen \in Nat \ {0} /\ MaxLine \in Nat \ {0} /\ Depths \subseteq Nat /\ Numbers \subseteq Int
  /\ \A f \in Files : f \in Seq(ToSet(f)) /\ \A i \in DOMAIN f : IsParagraph(f[i])
  /\ \A p \in New : IsParagraph(p) /\ p.length < MaxLine

VARIABLES up, text, file,
          state,  \* of a client: "away", "here", "lost" when it reads something else than was meant for it
          extra,  \* windows a client was sent and does not read
          deep,   \* history: clients that searched deeper than a paragraph is long
          wrote,  \* history: the text that the last quit had to write, or the file of the beginning
          torn,   \* history: was the server killed while it wrote it?
          edits

vars == << up, text, file, state, extra, deep, wrote, torn, edits >>

-------------------------------------------------------------------------------
(* The start counts the ends of lines and then calls fgets as many times.  One *)
(* that is full leaves the end of its line, be it alone, to the next; what is  *)
(* behind the last call is not read.  A hit across a cut is none.              *)
Full(p) == p.length \div MaxLine

Piece(p, k) ==
  LET from == (k - 1) * MaxLine
  IN [id |-> p.id,
      length |-> IF k <= Full(p) THEN MaxLine ELSE p.length % MaxLine,
      found |-> {j - from : j \in {h \in p.found : h >= from /\ h + PatLen <= k * MaxLine}}]

Pieces(p) == IF p.length < MaxLine THEN << p >> ELSE [k \in 1 .. Full(p) + 1 |-> Piece(p, k)]

(* Mutant: the end of the file is not the end of a line.                       *)
LoadedShort(f) ==
  LET lines == FlattenSeq([i \in DOMAIN f |-> Pieces(f[i])])
  IN SubSeq(lines, 1, Len(f) - 1)

Loaded(f) ==
  LET lines == FlattenSeq([i \in DOMAIN f |-> Pieces(f[i])])
  IN SubSeq(lines, 1, Len(f))

(* strcpy of n paragraphs, one after the other: each becomes its neighbour.    *)
Copied(t, first, n, step) ==
  LET upTo[k \in 0 .. n] ==
        IF k = 0 THEN t
        ELSE [upTo[k - 1] EXCEPT ![first + (k - 1) * step] = upTo[k - 1][first + k * step]]
  IN upTo[n]

(* The paragraphs behind the new one move down, the last first.                *)
add(t, p, paragraph) ==
  [Copied(Append(t, p), Len(t) + 1, Len(t) + 1 - paragraph, -1) EXCEPT ![paragraph] = p]

del(t, paragraph) == Front(Copied(t, paragraph, Len(t) - paragraph, 1))

(* How many windows search writes for what it found at j: the context fits,    *)
(* or meets the beginning, or the end, and once more when the paragraph is     *)
(* shorter than the context.                                                   *)
Half(depth) == (depth - PatLen) \div 2
Odd(depth) == (depth - PatLen) % 2

(* Mutant: a context that just reaches the end of the paragraph does not fit.  *)
FitsBefore(p, j, depth) == j + PatLen + Half(depth) < p.length

FitsBehind(p, j, depth) == j + PatLen + Half(depth) <= p.length

Windows(p, j, depth) ==
  LET before == j >= Half(depth) + Odd(depth)
      behind == FitsBehind(p, j, depth)
  IN (IF before /\ behind THEN 1 ELSE 0) + (IF ~before /\ behind THEN 1 ELSE 0)
     + (IF before /\ j + PatLen + Half(depth) > p.length THEN 1 ELSE 0) + (IF depth > p.length THEN 1 ELSE 0)

Hits == {h \in (DOMAIN text) \X UNION {text[i].found : i \in DOMAIN text} : h[2] \in text[h[1]].found}

Written(depth) == MapThenSumSet(LAMBDA h : Windows(text[h[1]], h[2], depth), Hits)

-------------------------------------------------------------------------------
Init ==
  /\ up = FALSE /\ text = << >> /\ file \in Files
  /\ state = [c \in Client |-> "away"] /\ extra = [c \in Client |-> 0] /\ deep = {} /\ edits = 0
  /\ wrote = file /\ torn = FALSE

Start ==
  /\ ~up /\ up' = TRUE /\ text' = Loaded(file)
  /\ UNCHANGED << file, state, extra, deep, wrote, torn, edits >>

(* Without quit the edits are lost.                                            *)
Gone == /\ up' = FALSE /\ text' = << >> /\ deep' = {}
        /\ state' = [c \in Client |-> "away"] /\ extra' = [c \in Client |-> 0]
        /\ UNCHANGED edits

Killed == up /\ Gone /\ UNCHANGED << file, wrote, torn >>

Connect(c) ==
  /\ up /\ state[c] = "away" /\ state' = [state EXCEPT ![c] = "here"]
  /\ UNCHANGED << up, text, file, extra, deep, wrote, torn, edits >>

(* A client that leaves, and one that sends a text with "stop" anywhere in it: *)
(* its connection is closed and nothing else is done.                          *)
Leave(c) ==
  /\ up /\ state[c] # "away" /\ state' = [state EXCEPT ![c] = "away"]
  /\ extra' = [extra EXCEPT ![c] = 0] /\ deep' = deep \ {c}
  /\ UNCHANGED << up, text, file, wrote, torn, edits >>

Asks(c) == up /\ state[c] = "here" /\ edits < MaxEdits /\ edits' = edits + 1
Answered == UNCHANGED << up, file, state, extra, deep, wrote, torn >>

(* show, info, and a request that is incorrect.                                *)
Show(c) == Asks(c) /\ UNCHANGED text /\ Answered

Add(c, paragraph, p) ==
  /\ Asks(c) /\ Answered
  /\ text' = IF paragraph <= 0 \/ paragraph > Len(text) + 1 THEN text ELSE add(text, p, paragraph)

Delete(c, paragraph) ==
  /\ Asks(c) /\ Answered
  /\ text' = IF paragraph <= 0 \/ paragraph > Len(text) THEN text ELSE del(text, paragraph)

(* The client is told a number of windows and reads as many.                   *)
Search(c, depth) ==
  LET n == IF depth < PatLen THEN 0 ELSE Written(depth) - Cardinality(Hits)
  IN /\ Asks(c) /\ UNCHANGED << up, text, file, wrote, torn >>
     /\ extra' = [extra EXCEPT ![c] = n]
     /\ state' = IF n # 0 THEN [state EXCEPT ![c] = "lost"] ELSE state
     /\ deep' = IF depth >= PatLen /\ \E h \in Hits : depth > text[h[1]].length THEN deep \cup {c} ELSE deep

(* quit of any client ends the server for all: fopen empties the file, and the *)
(* text is written line after line.  If the server is killed then, the lines   *)
(* behind the first so many are lost; half a line, without its end, is not     *)
(* counted and so not read.                                                    *)
Writes(c) ==
  /\ Asks(c) /\ up' = FALSE /\ text' = << >> /\ deep' = {} /\ wrote' = text
  /\ state' = [d \in Client |-> "away"] /\ extra' = [d \in Client |-> 0]

Quit(c) == Writes(c) /\ file' = text /\ torn' = FALSE

KilledInQuit(c, lines) == Writes(c) /\ file' = SubSeq(text, 1, lines) /\ torn' = TRUE

Request(c) ==
  \/ Show(c) \/ Quit(c)
  \/ \E lines \in 0 .. Len(text) : KilledInQuit(c, lines)
  \/ \E n \in Numbers : Delete(c, n) \/ \E p \in New : Add(c, n, p)
  \/ \E depth \in Depths : Search(c, depth)

Next == Start \/ Killed \/ \E c \in Client : Connect(c) \/ Leave(c) \/ Request(c)

Spec == Init /\ [][Next]_vars

-------------------------------------------------------------------------------
(* What search writes is what its client reads, window for window, unless the  *)
(* context asked for is longer than a paragraph that has the string: then the  *)
(* next answers are read out of step.                                          *)
InStep == \A c \in Client : c \notin deep => extra[c] = 0

(* After quit the next start reads as many paragraphs as there were, however   *)
(* the clients edited them, and after a quit cut short no more than there      *)
(* were: each is the one that stood there, up to the first line that fgets     *)
(* does not take at once.                                                      *)
QuitComesBack ==
  [][Start =>
       /\ IF torn THEN Len(text') <= Len(wrote) ELSE Len(text') = Len(wrote)
       /\ \A i \in DOMAIN text' :
            (\A j \in 1 .. i : wrote[j].length < MaxLine) => text'[i] = wrote[i]]_vars

================================================================================
