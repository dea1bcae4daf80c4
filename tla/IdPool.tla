-------------------------------- MODULE IdPool --------------------------------
(* The free numbers of the market (Grigoriev_S/market.cpp): a list of          *)
(* intervals, of which only the head is ever looked at.  market keeps two of   *)
(* them, p_id for players and o_id for orders, with two copies of the code     *)
(* that differ by one: the interval of players is dropped when its ends meet,  *)
(* the interval of orders when it is used up.  slack is that difference.       *)
(* The arithmetic is that of unsigned int: MaxId stands for -1u.               *)
EXTENDS Integers, Sequences

CONSTANT MaxId

ASSUME MaxIdAssumption == MaxId \in Nat \ {0}

Ids == 0 .. MaxId

PlayerSlack == 0
OrderSlack == 1

Interval(first, second) == [first |-> first, second |-> second]

Pools == Seq([first: Ids, second: Ids])

FullPool == << Interval(0, MaxId) >>

SetHead(pool, interval) == [pool EXCEPT ![1] = interval]

(* Mutant: the incremented number is handed out. *)
GeneratePreIncremented(pool, slack) ==
  LET head == Head(pool)
      next == (head.first + 1) % (MaxId + 1)
      throws == head.second < MaxId /\ next > head.second + slack
      usedUp == next = (head.second + slack) % (MaxId + 1)
  IN [ok   |-> ~throws,
      id   |-> next,
      pool |-> IF usedUp /\ ~throws THEN Tail(pool)
               ELSE SetHead(pool, Interval(next, head.second))]

(* generatePlayerId and generateOrderId on a list that is not empty.  The      *)
(* interval is advanced before the check that throws, and stays advanced.      *)
Generate(pool, slack) ==
  LET head == Head(pool)
      next == (head.first + 1) % (MaxId + 1)
      throws == head.second < MaxId /\ next > head.second + slack
      usedUp == next = (head.second + slack) % (MaxId + 1)
  IN [ok   |-> ~throws,
      id   |-> head.first,
      pool |-> IF usedUp /\ ~throws THEN Tail(pool)
               ELSE SetHead(pool, Interval(next, head.second))]

(* returnPlayerId and returnOrderId on a list that is not empty: the head      *)
(* interval grows at one of its ends, or the number becomes a new head.        *)
Return(pool, id) ==
  LET head == Head(pool)
      below == head.first > 0 /\ id = head.first - 1
      above == head.second < MaxId /\ id = head.second + 1
      inside == head.first < id /\ id < head.second
  IN [ok   |-> below \/ above \/ ~inside,
      pool |-> CASE below -> SetHead(pool, Interval(head.first - 1, head.second))
                 [] above /\ ~below -> SetHead(pool, Interval(head.first, head.second + 1))
                 [] inside /\ ~below /\ ~above -> pool
                 [] OTHER -> << Interval(id, id) >> \o pool]

(* The numbers that a list of intervals still holds. *)
Members(interval) == interval.first .. interval.second

Free(pool) == UNION { Members(pool[i]) : i \in DOMAIN pool }

(* No number is held twice. *)
Disjoint(pool) == \A i, j \in DOMAIN pool :
                    i # j => Members(pool[i]) \cap Members(pool[j]) = {}
================================================================================
