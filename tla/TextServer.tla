------------------------------- MODULE TextServer -------------------------------
(* SivolapNN's text processor and its client: numbered blocks of text that any *)
(* client may show, add, search and delete.  A request is its length and then  *)
(* its text, and the server reads until it has as many bytes: whoever leaves   *)
(* it waiting stops it for all.  The select loop is that of SimpleServer; a    *)
(* handler runs in a thread that the loop waits for.                           *)
EXTENDS Positions, FiniteSets, SequencesExt, FiniteSetsExt

CONSTANTS Client, Nobody,
          New,        \* blocks that clients add: [id, size, found, extra]
          Texts,      \* what clients made before and left
          Numbers,    \* block numbers in requests, those without a block included
          Depths,     \* sizes of context, negative ones included
          Words,      \* words that clients search for, the empty one too: [id, size, extra]
          MaxAsked    \* bounds the requests

(* What the quotes of a request hold is size bytes, and extra of them encode() *)
(* added; the length that is sent is that of the characters.  So the server    *)
(* reads extra bytes less: the closing quote and the last of what it encloses. *)
Received(t) == IF t.extra = 0 THEN t.size ELSE t.size - t.extra + 1

Whole(w) == [id |-> w.id, size |-> w.size]
Read(w) == [id |-> w.id, size |-> Received(w)]
Strings == {Whole(w) : w \in Words} \cup {Read(w) : w \in Words}

(* found is where each string is; the read part is wherever the word is.       *)
TextAssumption ==
  /\ Nobody \notin Client /\ Numbers \subseteq Int /\ Depths \subseteq Int /\ Texts \subseteq Seq(New)
  /\ \A w \in Words : w.size \in Nat /\ w.extra \in 0 .. w.size
  /\ \A b \in New : /\ b = [id |-> b.id, size |-> b.size, found |-> b.found, extra |-> b.extra]
                    /\ b.size \in Nat /\ b.extra \in 0 .. b.size
                    /\ b.found \in [Strings -> SUBSET Nat]
                    /\ \A s \in Strings : \A j \in b.found[s] : j + s.size <= b.size
                    /\ \A w \in Words : b.found[Whole(w)] \subseteq b.found[Read(w)]

VARIABLES up, hung,
          reading,  \* the client whose text the server waits for
          data,     \* the blocks
          client,   \* "away", "here", "sending" when the length is sent, "waiting" when the text is;
                    \* of one that is gone: "closing" (a request is to be read), "torn" (half of one), "dead"
          asks,     \* the request of each client
          left,     \* clients of whose last request some bytes were not read
          answer,   \* the last answer to each client
          asked

tvars == << up, hung, reading, data, client, asks, left, answer, asked >>

(* add and search are as main.cpp:31 has them, and only what is in quotes may  *)
(* not be ASCII; the others may have more text behind them.  A client closes   *)
(* after disconnect and SHUTDOWN alone: with more behind them, ASCII or not,   *)
(* they count as not ASCII.                                                    *)
Request ==
  [what : {"show", "disconnect", "SHUTDOWN", "other"}, ascii : BOOLEAN]
  \cup [what : {"add"}, n : Numbers, block : New]
  \cup [what : {"search"}, n : Depths, word : Words]
  \cup [what : {"delete"}, ids : SUBSET Numbers, ends : {TRUE}, ascii : BOOLEAN]
  \cup [what : {"delete"}, ids : {{}}, ends : {FALSE}, ascii : {TRUE}]

(* Bytes of such a request stay behind in the socket.                          *)
IsLonger(r) ==
  CASE r.what = "add" -> r.block.extra > 0
    [] r.what = "search" -> r.word.extra > 0
    [] OTHER -> ~r.ascii

-------------------------------------------------------------------------------
Cut(b) ==
  [b EXCEPT !.size = Received(b),
            !.found = [s \in Strings |-> {j \in b.found[s] : j + s.size <= Received(b)}]]

(* Mutant: the number of the block is taken for its index.                     *)
AddBehind(d, n, block) ==
  IF n > Len(d) \/ n < 0 THEN d ELSE InsertAt(d, n + 1, block)

Add(d, n, block) ==
  IF n - 1 > Len(d) \/ n - 1 < 0 THEN d ELSE InsertAt(d, n, block)

(* Mutant: it stays where it is over a block that is left.                     *)
VisitStanding(at, i, ids) == IF i \in ids THEN [at EXCEPT !.list = RemoveAt(@, at.it)] ELSE at

(* it stands on block i of the list as it was, and erase moves it on.          *)
Visit(at, i, ids) ==
  IF i \in ids THEN [at EXCEPT !.list = RemoveAt(@, at.it)] ELSE [at EXCEPT !.it = @ + 1]

(* No numbers at all read as 0: the answer is "Done" there too.                *)
Delete(d, ids) ==
  IF ids = {} \/ \E id \in ids : id < 1 \/ id > Len(d) THEN d
  ELSE LET at[i \in 0 .. Len(d)] == IF i = 0 THEN [list |-> d, it |-> 1] ELSE Visit(at[i - 1], i, ids)
       IN at[Max(ids)].list

(* Mutant: find goes on a byte too far behind the hit before.                  *)
FindFurther(at, b, s) ==
  LET ahead == {j \in b.found[s] : j >= at.i}
  IN IF ahead = {} THEN at ELSE [hits |-> Append(at.hits, Min(ahead)), i |-> Min(ahead) + s.size + 1]

(* find goes on behind the hit before.                                         *)
Find(at, b, s) ==
  LET ahead == {j \in b.found[s] : j >= at.i}
  IN IF ahead = {} THEN at ELSE [hits |-> Append(at.hits, Min(ahead)), i |-> Min(ahead) + s.size]

Hits(b, s) ==
  LET at[n \in 0 .. b.size] == IF n = 0 THEN [hits |-> << >>, i |-> 0] ELSE Find(at[n - 1], b, s)
  IN at[b.size].hits

(* N is a size_t: half of a negative one, taken from i in an int, is added.    *)
Context(b, j, s, n) ==
  IF n >= 0
  THEN [from |-> IF j > n \div 2 THEN j - n \div 2 ELSE 0,
        to |-> IF j + s.size + n \div 2 < b.size THEN j + s.size + n \div 2 ELSE b.size]
  ELSE [from |-> j + (1 - n) \div 2, to |-> b.size]

(* A context that ends before it begins throws.                                *)
Throws(context) == context.from > context.to

Contexts(b, s, n) == [k \in DOMAIN Hits(b, s) |-> Context(b, Hits(b, s)[k], s, n)]

(* The blocks before the one that throws are answered.                         *)
Search(d, s, n) ==
  LET bad == {i \in DOMAIN d : \E k \in DOMAIN Contexts(d[i], s, n) : Throws(Contexts(d[i], s, n)[k])}
      last == IF bad = {} THEN Len(d) ELSE Min(bad) - 1
  IN [i \in 1 .. last |-> Contexts(d[i], s, n)]

-------------------------------------------------------------------------------
Nothing == [what |-> "other", ascii |-> TRUE]

Init ==
  /\ up = TRUE /\ hung = FALSE /\ reading = Nobody /\ data \in Texts /\ left = {} /\ asked = 0
  /\ client = [c \in Client |-> "away"]
  /\ asks = [c \in Client |-> Nothing]
  /\ answer = [c \in Client |-> << >>]

Unread == UNCHANGED << up, hung, reading, data, left >>

(* The client: it sends the length, then the text, and reads the answer, but   *)
(* it closes after disconnect and SHUTDOWN.                                    *)
SendLength(c, r) ==
  /\ client[c] = "here" /\ asked < MaxAsked
  /\ client' = [client EXCEPT ![c] = "sending"]
  /\ asks' = [asks EXCEPT ![c] = r]
  /\ asked' = asked + 1
  /\ answer' = [answer EXCEPT ![c] = << >>]
  /\ Unread

SendText(c) ==
  /\ client[c] = "sending"
  /\ client' = [client EXCEPT ![c] = IF asks[c].what \in {"disconnect", "SHUTDOWN"} /\ asks[c].ascii THEN "closing" ELSE "waiting"]
  /\ Unread /\ UNCHANGED << asks, answer, asked >>

Die(c) ==
  /\ client[c] \in {"here", "sending", "waiting"}
  /\ client' = [client EXCEPT ![c] = CASE @ = "here" -> "dead" [] @ = "sending" -> "torn" [] @ = "waiting" -> "closing"]
  /\ Unread /\ UNCHANGED << asks, answer, asked >>

(* The loop of the server. *)
Ready == up /\ ~hung /\ reading = Nobody

Accept(c) ==
  /\ Ready /\ client[c] = "away"
  /\ client' = [client EXCEPT ![c] = "here"]
  /\ UNCHANGED << up, hung, reading, data, asks, left, answer, asked >>

Close(c) ==
  /\ Ready /\ client[c] = "dead" /\ c \notin left
  /\ client' = [client EXCEPT ![c] = "away"]
  /\ UNCHANGED << up, hung, reading, data, asks, left, answer, asked >>

(* The length is there and the text is not: recv waits for it.                 *)
Wait(c) ==
  /\ Ready /\ client[c] = "sending" /\ c \notin left
  /\ reading' = c
  /\ UNCHANGED << up, hung, data, client, asks, left, answer, asked >>

Reads(c) == Ready \/ (up /\ ~hung /\ reading = c)

(* Nothing more comes, and recv's 0 bytes are taken off for ever; or bytes of  *)
(* a text are taken for a length that no client will send.                     *)
Stuck(c) ==
  /\ Reads(c)
  /\ client[c] = "torn" \/ (c \in left /\ client[c] # "away")
  /\ hung' = TRUE
  /\ UNCHANGED << up, reading, data, client, asks, left, answer, asked >>

(* delete reads its last word for ever if it is not "end" alone, and search    *)
(* finds an empty word where it was, unless the context there throws.          *)
ForEver(r) == \/ r.what = "delete" /\ ~r.ends
              \/ /\ r.what = "search" /\ r.word.size = 0
                 /\ data # << >> /\ ~Throws(Context(data[1], 0, Read(r.word), r.n))

Answer(r) == CASE r.what = "show" -> data
               [] r.what = "search" -> IF r.word.size = 0 THEN << >> ELSE Search(data, Read(r.word), r.n)
               [] OTHER -> << >>

Handle(c) ==
  LET r == asks[c] IN
  /\ Reads(c) /\ client[c] \in {"waiting", "closing"} /\ c \notin left
  /\ IF ForEver(r)
     THEN hung' = TRUE /\ UNCHANGED << up, reading, data, client, left, answer >>
     ELSE /\ reading' = Nobody
          /\ up' = (r.what # "SHUTDOWN")
          /\ data' = CASE r.what = "add" -> Add(data, r.n, Cut(r.block))
                       [] r.what = "delete" -> Delete(data, r.ids)
                       [] OTHER -> data
          /\ left' = IF IsLonger(r) /\ r.what # "disconnect" THEN left \cup {c} ELSE left
          /\ client' = [client EXCEPT ![c] = IF r.what = "disconnect" THEN "away"
                                             ELSE IF @ = "closing" THEN "dead" ELSE "here"]
          /\ answer' = [answer EXCEPT ![c] = Answer(r)]
          /\ UNCHANGED hung
  /\ asks' = [asks EXCEPT ![c] = Nothing]
  /\ UNCHANGED asked

Next ==
  \E c \in Client :
    \/ \E r \in Request : SendLength(c, r)
    \/ SendText(c) \/ Die(c)
    \/ Accept(c) \/ Close(c) \/ Wait(c) \/ Stuck(c) \/ Handle(c)

Spec == Init /\ [][Next]_tvars

-------------------------------------------------------------------------------
(* The blocks that are left, in their order. *)
Others(d, ids) == Picked(d, DOMAIN d \ ids)

(* Every context has what was read of the word and what is asked for around    *)
(* it, as far as the block goes; every place of that, and every place of the   *)
(* whole word, is in one.                                                      *)
Surrounds(contexts, b, w, n) ==
  /\ \A k \in DOMAIN contexts : \E j \in b.found[Read(w)] :
       contexts[k] = [from |-> Max({0, j - n \div 2}), to |-> Min({b.size, j + Received(w) + n \div 2})]
  /\ \A j \in b.found[Read(w)] \cup b.found[Whole(w)] :
       \E k \in DOMAIN contexts : contexts[k].from <= j /\ j < contexts[k].to

(* However the clients break off, and whatever they encode, the text changes   *)
(* only as one whole request says, a block put at its number or all the blocks *)
(* with the given numbers taken out, counted before the first is gone.  A      *)
(* search misses no place of the word.  What is not ASCII is cut: the block    *)
(* may lose its end, and the search shows places where the word begins only.   *)
AsAsked ==
  [][/\ data' # data => \E c \in Client :
          LET r == asks[c] IN
          /\ client[c] \in {"waiting", "closing"} /\ client'[c] # client[c]
          /\ \/ /\ r.what = "add" /\ r.n \in DOMAIN data' /\ Others(data', {r.n}) = data
                /\ data'[r.n].id = r.block.id /\ (r.block.extra = 0 => data'[r.n] = r.block)
             \/ r.what = "delete" /\ r.ids \subseteq DOMAIN data /\ data' = Others(data, r.ids)
     /\ \A c \in Client :
          LET r == asks[c] IN
          answer'[c] # answer[c] /\ r.what = "search" /\ r.n >= 0 =>
            /\ DOMAIN answer'[c] = DOMAIN data
            /\ \A i \in DOMAIN data : Surrounds(answer'[c][i], data[i], r.word, r.n)]_tvars
================================================================================
