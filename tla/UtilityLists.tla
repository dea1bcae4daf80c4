------------------------------ MODULE UtilityLists ------------------------------
(* The two linked lists of Grigoriev_S/utility.h, node by node: queuelim, in   *)
(* which a player's orders wait for the evening, and listlim, in which the     *)
(* market keeps its intervals of free numbers.  A node is what new returns; it *)
(* may be given out again once it is deleted.  What Market and IdPool take     *)
(* from these lists is that they are sequences.                                *)
EXTENDS Integers, Sequences

CONSTANTS Node, Null

ASSUME ListsAssumption == Null \notin Node

VARIABLES kind,   \* "queue" or "list"
          list,   \* _head, _tail, _size, and _next and _prev of every node
          live,   \* the nodes that are allocated
          iter,      \* an iterator of a listlim, Null at the end
          items,  \* history: what was put in and not taken out, in order
          place   \* history: where in items the iterator stands, 0 at the end

lvars == << kind, list, live, iter, items, place >>

Unlinked == [head |-> Null, tail |-> Null, size |-> 0,
             next |-> [n \in Node |-> Null], prev |-> [n \in Node |-> Null]]

-------------------------------------------------------------------------------
(* The first node of an empty list. *)
Only(l, n) == [head |-> n, tail |-> n, size |-> l.size + 1,
               next |-> [l.next EXCEPT ![n] = Null], prev |-> [l.prev EXCEPT ![n] = Null]]

(* A node behind the tail. *)
Behind(l, n) == [head |-> l.head, tail |-> n, size |-> l.size + 1,
                 next |-> [l.next EXCEPT ![l.tail] = n, ![n] = Null],
                 prev |-> [l.prev EXCEPT ![n] = l.tail]]

push(l, n) == IF l.head = Null THEN Only(l, n) ELSE Behind(l, n)

addTail(l, n) == IF l.tail = Null THEN Only(l, n) ELSE Behind(l, n)

addHead(l, n) ==
  IF l.head = Null THEN Only(l, n)
  ELSE [head |-> n, tail |-> l.tail, size |-> l.size + 1,
        next |-> [l.next EXCEPT ![n] = l.head],
        prev |-> [l.prev EXCEPT ![l.head] = n, ![n] = Null]]

(* Mutant: the last node is freed and stays the tail.                          *)
popHeadOnly(l) == [l EXCEPT !.head = l.next[l.head], !.size = @ - 1]

(* pop of a queue that is not empty: _prev of the new head is left behind.     *)
pop(l) ==
  IF l.tail = l.head THEN [l EXCEPT !.head = Null, !.tail = Null, !.size = @ - 1]
  ELSE [l EXCEPT !.head = l.next[l.head], !.size = @ - 1]

(* remove of the node an iterator stands on. *)
remove(l, n) ==
  LET before == l.prev[n]
      after == l.next[n]
  IN [head |-> IF n = l.head THEN after ELSE l.head,
      tail |-> IF n = l.tail THEN before ELSE l.tail,
      size |-> l.size - 1,
      next |-> IF before = Null THEN l.next ELSE [l.next EXCEPT ![before] = after],
      prev |-> IF after = Null THEN l.prev ELSE [l.prev EXCEPT ![after] = before]]

-------------------------------------------------------------------------------
ListsInit == /\ kind \in {"queue", "list"} /\ list = Unlinked /\ live = {} /\ iter = Null
        /\ items = << >> /\ place = 0

(* new gives a node that is not allocated. *)
Push(n) ==
  /\ kind = "queue" /\ n \notin live
  /\ list' = push(list, n)
  /\ live' = live \cup {n}
  /\ items' = Append(items, n)
  /\ UNCHANGED << kind, iter, place >>

AddTail(n) ==
  /\ kind = "list" /\ n \notin live
  /\ list' = addTail(list, n)
  /\ live' = live \cup {n}
  /\ items' = Append(items, n)
  /\ UNCHANGED << kind, iter, place >>

AddHead(n) ==
  /\ kind = "list" /\ n \notin live
  /\ list' = addHead(list, n)
  /\ live' = live \cup {n}
  /\ items' = << n >> \o items
  /\ place' = IF place = 0 THEN 0 ELSE place + 1
  /\ UNCHANGED << kind, iter >>

(* One turn of flush, or of clear.  An empty queue throws and stays as it is.  *)
Pop ==
  /\ kind = "queue" /\ list.head # Null
  /\ list' = pop(list)
  /\ live' = live \ {list.head}
  /\ items' = Tail(items)
  /\ UNCHANGED << kind, iter, place >>

(* begin, with which operator[] starts, and the steps of ++ and --.            *)
Begin ==
  /\ kind = "list"
  /\ iter' = list.head
  /\ place' = IF items = << >> THEN 0 ELSE 1
  /\ UNCHANGED << kind, list, live, items >>

Forward ==
  /\ iter # Null
  /\ iter' = list.next[iter]
  /\ place' = IF place = Len(items) THEN 0 ELSE place + 1
  /\ UNCHANGED << kind, list, live, items >>

Back ==
  /\ iter # Null
  /\ iter' = list.prev[iter]
  /\ place' = place - 1
  /\ UNCHANGED << kind, list, live, items >>

(* remove of a null iterator throws.  clear removes the head and no more: its  *)
(* iterator is null from then on.                                              *)
Remove ==
  /\ iter # Null
  /\ list' = remove(list, iter)
  /\ live' = live \ {iter}
  /\ iter' = Null
  /\ items' = [j \in 1 .. Len(items) - 1 |-> IF j < place THEN items[j] ELSE items[j + 1]]
  /\ place' = 0
  /\ UNCHANGED kind

ListsNext == \/ \E n \in Node : Push(n) \/ AddTail(n) \/ AddHead(n)
        \/ Pop
        \/ Begin \/ Forward \/ Back \/ Remove

ListsSpec == ListsInit /\ [][ListsNext]_lvars

-------------------------------------------------------------------------------
(* After any pushes, pops, insertions at either end and removals in between    *)
(* the nodes are linked to just the sequence of what was put in and not taken  *)
(* out, in order: none is lost, none is freed while it can be reached, and the *)
(* count is right, by which flush ends its loop.  The way back is promised by  *)
(* listlim only, whose remove goes by it, and an iterator stays on its node    *)
(* while others come.                                                          *)
ListIsSequence ==
  LET n == Len(items) IN
  /\ list.size = n
  /\ list.head = IF n = 0 THEN Null ELSE items[1]
  /\ list.tail = IF n = 0 THEN Null ELSE items[n]
  /\ \A j \in 1 .. n : list.next[items[j]] = IF j = n THEN Null ELSE items[j + 1]
  /\ \A j \in 2 .. n : list.prev[items[j]] = items[j - 1]
  /\ kind = "list" /\ n > 0 => list.prev[items[1]] = Null
  /\ live = {items[j] : j \in 1 .. n}
  /\ \A j, k \in 1 .. n : items[j] = items[k] => j = k
  /\ iter = IF place = 0 THEN Null ELSE items[place]
================================================================================
