----------------------------- MODULE Market_proofs -----------------------------
(* Proofs about Market: a player or order number is never given out while it   *)
(* is in use, a row leaves the order book only with its owner, and money and   *)
(* shares are neither made nor lost; and about UtilityLists: the linked lists  *)
(* it uses are sequences.                                                      *)
EXTENDS Market, UtilityLists, Positions_proofs, TLAPS

Intervals == [first: Ids, second: Ids]

-------------------------------------------------------------------------------
(* Facts about the lists of intervals. *)

LEMMA HeadFacts ==
  ASSUME NEW pool \in Pools, pool # << >>
  PROVE  /\ 1 \in DOMAIN pool /\ Head(pool) = pool[1] /\ Head(pool) \in Intervals
         /\ Head(pool).first \in Nat /\ Head(pool).first <= MaxId /\ Head(pool).first \in Ids
         /\ Head(pool).second \in Nat /\ Head(pool).second <= MaxId /\ Head(pool).second \in Ids
<1>1. 1 \in DOMAIN pool /\ Head(pool) = pool[1]
  BY DEF Pools
<1>2. pool[1] \in Intervals
  <2>1. Pools = Seq(Intervals)
    BY DEF Pools, Intervals
  <2> QED BY <2>1, <1>1
<1> QED BY <1>1, <1>2, MaxIdAssumption DEF Intervals, Ids

(* Unsigned increment of a number below MaxId, and of MaxId. *)
LEMMA Increment ==
  /\ \A n \in Nat : n < MaxId => (n + 1) % (MaxId + 1) = n + 1
  /\ (MaxId + 1) % (MaxId + 1) = 0
<1>1. ASSUME NEW n \in Nat, NEW m \in Nat, n < m PROVE n % m = n
  BY <1>1
<1>2. ASSUME NEW m \in Nat \ {0} PROVE m % m = 0
  OBVIOUS
<1>3. MaxId \in Nat /\ MaxId + 1 \in Nat \ {0}
  BY MaxIdAssumption
<1>4. ASSUME NEW n \in Nat, n < MaxId PROVE (n + 1) % (MaxId + 1) = n + 1
  BY <1>1, <1>3, <1>4
<1> QED BY <1>2, <1>3, <1>4

(* The head of a list may be narrowed: nothing becomes free, and what the head *)
(* gave up is free no more.                                                    *)
LEMMA Narrowing ==
  ASSUME NEW pool \in Pools, pool # << >>, Disjoint(pool),
         NEW iv \in Intervals, Members(iv) \subseteq Members(Head(pool))
  PROVE  /\ SetHead(pool, iv) \in Pools
         /\ Disjoint(SetHead(pool, iv))
         /\ Free(SetHead(pool, iv)) \subseteq Free(pool)
         /\ \A id \in Members(Head(pool)) \ Members(iv) : id \notin Free(SetHead(pool, iv))
<1> DEFINE new == SetHead(pool, iv)
<1>1. /\ 1 \in DOMAIN pool /\ Head(pool) = pool[1]
      /\ DOMAIN new = DOMAIN pool /\ new[1] = iv
      /\ \A i \in DOMAIN pool : i # 1 => new[i] = pool[i]
  BY DEF Pools, SetHead
<1>2. new \in Pools
  BY DEF Pools, SetHead, Intervals
<1>3. Disjoint(new)
  BY <1>1 DEF Disjoint
<1>4. Free(new) \subseteq Free(pool)
  BY <1>1 DEF Free
<1>5. ASSUME NEW id \in Members(Head(pool)) \ Members(iv) PROVE id \notin Free(new)
  BY <1>1 DEF Free, Disjoint
<1> QED BY <1>2, <1>3, <1>4, <1>5

(* The head may be widened by a number that is not free. *)
LEMMA Widening ==
  ASSUME NEW pool \in Pools, pool # << >>, Disjoint(pool), NEW id \in Ids \ Free(pool),
         NEW iv \in Intervals, Members(iv) \subseteq Members(Head(pool)) \cup {id}
  PROVE  /\ SetHead(pool, iv) \in Pools
         /\ Disjoint(SetHead(pool, iv))
         /\ Free(SetHead(pool, iv)) \subseteq Free(pool) \cup {id}
<1> DEFINE new == SetHead(pool, iv)
<1>1. /\ 1 \in DOMAIN pool /\ Head(pool) = pool[1]
      /\ DOMAIN new = DOMAIN pool /\ new[1] = iv
      /\ \A i \in DOMAIN pool : i # 1 => new[i] = pool[i]
  BY DEF Pools, SetHead
<1>2. new \in Pools
  BY DEF Pools, SetHead, Intervals
<1>3. \A i \in DOMAIN pool : id \notin Members(pool[i])
  BY DEF Free
<1>4. Disjoint(new)
  BY <1>1, <1>3 DEF Disjoint
<1>5. Free(new) \subseteq Free(pool) \cup {id}
  BY <1>1 DEF Free
<1> QED BY <1>2, <1>4, <1>5

(* The head may be dropped. *)
LEMMA Dropping ==
  ASSUME NEW pool \in Pools, pool # << >>, Disjoint(pool)
  PROVE  /\ Tail(pool) \in Pools
         /\ Disjoint(Tail(pool))
         /\ Free(Tail(pool)) \subseteq Free(pool)
         /\ \A id \in Members(Head(pool)) : id \notin Free(Tail(pool))
<1>1. /\ 1 \in DOMAIN pool /\ Head(pool) = pool[1]
      /\ \A i \in DOMAIN Tail(pool) : i \in Nat /\ i # 0 /\ i + 1 \in DOMAIN pool
                                      /\ Tail(pool)[i] = pool[i + 1]
  BY DEF Pools
<1>2. Tail(pool) \in Pools
  BY DEF Pools
<1>3. Disjoint(Tail(pool))
  <2> SUFFICES ASSUME NEW i \in DOMAIN Tail(pool), NEW j \in DOMAIN Tail(pool), i # j
               PROVE  Members(Tail(pool)[i]) \cap Members(Tail(pool)[j]) = {}
    BY DEF Disjoint
  <2>1. i + 1 # j + 1
    BY <1>1
  <2> QED BY <2>1, <1>1 DEF Disjoint
<1>4. Free(Tail(pool)) \subseteq Free(pool)
  BY <1>1 DEF Free
<1>5. ASSUME NEW id \in Members(Head(pool)) PROVE id \notin Free(Tail(pool))
  <2> SUFFICES ASSUME NEW i \in DOMAIN Tail(pool), id \in Members(Tail(pool)[i]) PROVE FALSE
    BY DEF Free
  <2>1. i + 1 # 1
    BY <1>1
  <2> QED BY <2>1, <1>1, <1>5 DEF Disjoint
<1> QED BY <1>2, <1>3, <1>4, <1>5

(* A number that is not free may become an interval of its own. *)
LEMMA Pushing ==
  ASSUME NEW pool \in Pools, Disjoint(pool), NEW id \in Ids \ Free(pool)
  PROVE  LET new == << Interval(id, id) >> \o pool IN
           /\ new \in Pools
           /\ Disjoint(new)
           /\ Free(new) \subseteq Free(pool) \cup {id}
<1> DEFINE iv == Interval(id, id)
           new == << iv >> \o pool
<1>1. iv \in Intervals /\ Members(iv) = {id}
  BY DEF Interval, Intervals, Members, Ids
<1>2. /\ new \in Pools
      /\ DOMAIN new = 1 .. Len(pool) + 1 /\ Len(pool) \in Nat
      /\ \A i \in DOMAIN new : new[i] = IF i = 1 THEN iv ELSE pool[i - 1]
      /\ \A i \in DOMAIN new : i # 1 => i - 1 \in DOMAIN pool
  BY <1>1 DEF Pools, Intervals
<1>3. \A i \in DOMAIN pool : id \notin Members(pool[i])
  BY DEF Free
<1>4. Disjoint(new)
  <2> SUFFICES ASSUME NEW i \in DOMAIN new, NEW j \in DOMAIN new, i # j
               PROVE  Members(new[i]) \cap Members(new[j]) = {}
    BY DEF Disjoint
  <2>1. CASE i = 1
    BY <2>1, <1>1, <1>2, <1>3
  <2>2. CASE j = 1
    BY <2>2, <1>1, <1>2, <1>3
  <2>3. CASE i # 1 /\ j # 1
    <3>1. i - 1 # j - 1
      BY <1>2
    <3> QED BY <3>1, <2>3, <1>2 DEF Disjoint
  <2> QED BY <2>1, <2>2, <2>3
<1>5. Free(new) \subseteq Free(pool) \cup {id}
  BY <1>1, <1>2 DEF Free
<1> QED BY <1>2, <1>4, <1>5

(* generatePlayerId: either it throws and nothing becomes free, or the number  *)
(* it gives out was free and is free no more.                                  *)
LEMMA GeneratePlayer ==
  ASSUME NEW pool \in Pools, pool # << >>, Disjoint(pool), Head(pool).first < MaxId
  PROVE  LET got == Generate(pool, PlayerSlack) IN
           /\ got.pool \in Pools /\ Disjoint(got.pool) /\ Free(got.pool) \subseteq Free(pool)
           /\ got.ok => got.id \in Free(pool) \ Free(got.pool)
           /\ got.id \in Ids
<1> DEFINE head == Head(pool)
           next == (head.first + 1) % (MaxId + 1)
           iv == Interval(next, head.second)
           got == Generate(pool, PlayerSlack)
<1>1. head \in Intervals /\ 1 \in DOMAIN pool /\ head = pool[1]
  BY HeadFacts
<1>2. /\ head.first \in Nat /\ head.first \in Ids /\ head.first <= MaxId
      /\ head.second \in Nat /\ head.second \in Ids /\ head.second <= MaxId
      /\ MaxId \in Nat
  BY HeadFacts, MaxIdAssumption
<1>3. next = head.first + 1 /\ next \in Ids
  BY <1>2, Increment DEF Ids
<1>4. iv \in Intervals /\ Members(iv) \subseteq Members(head) /\ head.first \notin Members(iv)
  BY <1>2, <1>3 DEF Interval, Intervals, Members, Ids
<1>5. /\ got.id = head.first /\ got.pool \in {Tail(pool), SetHead(pool, iv)}
      /\ got.ok => head.first \in Members(head)
  <2>1. /\ got.id = head.first /\ got.pool \in {Tail(pool), SetHead(pool, iv)}
        /\ got.ok => ~(head.second < MaxId /\ next > head.second + 0)
    BY DEF Generate, PlayerSlack
  <2>2. got.ok => head.first <= head.second
    <3> HIDE DEF got, next, head
    <3> QED BY <2>1, <1>2, <1>3
  <2> QED BY <2>1, <2>2, <1>2 DEF Members
<1>6. head.first \in Members(head) => head.first \in Free(pool)
  BY <1>1 DEF Free
<1>7. CASE got.pool = Tail(pool)
  BY <1>2, <1>5, <1>6, <1>7, Dropping
<1>8. CASE got.pool = SetHead(pool, iv)
  BY <1>2, <1>4, <1>5, <1>6, <1>8, Narrowing
<1> QED BY <1>5, <1>7, <1>8

(* No interval is empty: so it is with orders, but not with players. *)
Proper(pool) == \A i \in DOMAIN pool : pool[i].first <= pool[i].second

(* generateOrderId never throws (-103 is never seen) and gives out a number    *)
(* that was free and is free no more.                                          *)
LEMMA GenerateOrder ==
  ASSUME NEW pool \in Pools, pool # << >>, Disjoint(pool), Proper(pool)
  PROVE  LET got == Generate(pool, OrderSlack) IN
           /\ got.ok
           /\ got.pool \in Pools /\ Disjoint(got.pool) /\ Free(got.pool) \subseteq Free(pool)
           /\ Proper(got.pool)
           /\ got.id \in Ids /\ got.id \in Free(pool) \ Free(got.pool)
<1> DEFINE head == Head(pool)
           next == (head.first + 1) % (MaxId + 1)
           iv == Interval(next, head.second)
           got == Generate(pool, OrderSlack)
<1>1. head \in Intervals /\ 1 \in DOMAIN pool /\ head = pool[1]
  BY HeadFacts
<1>2. /\ head.first \in Nat /\ head.first \in Ids /\ head.first <= MaxId
      /\ head.second \in Nat /\ head.second \in Ids /\ head.second <= MaxId
      /\ MaxId \in Nat /\ head.first <= head.second
  BY <1>1, HeadFacts, MaxIdAssumption DEF Proper
<1>3. /\ head.first < MaxId => next = head.first + 1
      /\ head.first = MaxId => next = 0
      /\ next \in Ids
  <2>1. CASE head.first < MaxId
    BY <2>1, <1>2, Increment DEF Ids
  <2>2. CASE head.first = MaxId
    BY <2>2, <1>2, Increment DEF Ids
  <2> QED BY <2>1, <2>2, <1>2
<1>4. head.first \in Members(head) /\ head.first \in Free(pool)
  BY <1>1, <1>2 DEF Members, Ids, Free
<1>5. got.ok /\ got.id = head.first
  <2>1. /\ got.id = head.first
        /\ got.ok <=> ~(head.second < MaxId /\ next > head.second + 1)
    BY DEF Generate, OrderSlack
  <2>2. got.ok
    <3> HIDE DEF got, next, head
    <3> QED BY <2>1, <1>2, <1>3
  <2> QED BY <2>1, <2>2
<1>6. CASE head.first = head.second
  <2>1. got.pool = Tail(pool)
    BY <1>2, <1>3, <1>6 DEF Generate, OrderSlack, Ids
  <2>2. Proper(Tail(pool))
    <3> SUFFICES ASSUME NEW i \in DOMAIN Tail(pool)
                 PROVE  Tail(pool)[i].first <= Tail(pool)[i].second
      BY DEF Proper
    <3>1. i + 1 \in DOMAIN pool /\ Tail(pool)[i] = pool[i + 1]
      BY DEF Pools
    <3> QED BY <3>1 DEF Proper
  <2> QED BY <2>1, <2>2, <1>2, <1>4, <1>5, Dropping
<1>7. CASE head.first < head.second
  <2>1. got.pool = SetHead(pool, iv)
    <3>1. head.first < MaxId /\ next = head.first + 1 /\ next <= head.second
      BY <1>2, <1>3, <1>7 DEF Ids
    <3>2. next # (head.second + 1) % (MaxId + 1)
      <4>1. CASE head.second = MaxId
        BY <3>1, <1>2, <4>1 DEF Ids
      <4>2. CASE head.second < MaxId
        <5>1. (head.second + 1) % (MaxId + 1) = head.second + 1
          BY <4>2, <1>2, Increment
        <5> HIDE DEF next, head
        <5> QED BY <5>1, <3>1, <1>2
      <4> QED BY <4>1, <4>2, <1>2 DEF Ids
    <3> QED BY <3>2 DEF Generate, OrderSlack
  <2>2. /\ iv \in Intervals /\ Members(iv) \subseteq Members(head)
        /\ head.first \notin Members(iv) /\ iv.first <= iv.second
    BY <1>2, <1>3, <1>7 DEF Interval, Intervals, Members, Ids
  <2>3. Proper(SetHead(pool, iv))
    BY <2>2, <1>1 DEF Proper, SetHead, Pools
  <2> QED BY <2>1, <2>2, <2>3, <1>2, <1>4, <1>5, Narrowing
<1> QED BY <1>2, <1>6, <1>7 DEF Ids

(* Giving back a number that is not free never throws (neither -102 nor -104)  *)
(* and frees at most that number.                                              *)
LEMMA ReturnId ==
  ASSUME NEW pool \in Pools, pool # << >>, Disjoint(pool), NEW id \in Ids \ Free(pool)
  PROVE  LET done == Return(pool, id) IN
           /\ done.ok
           /\ done.pool \in Pools /\ Disjoint(done.pool)
           /\ Free(done.pool) \subseteq Free(pool) \cup {id}
           /\ Proper(pool) => Proper(done.pool)
<1> DEFINE head == Head(pool)
           lower == Interval(head.first - 1, head.second)
           upper == Interval(head.first, head.second + 1)
           below == head.first > 0 /\ id = head.first - 1
           above == head.second < MaxId /\ id = head.second + 1
           done == Return(pool, id)
<1>1. head \in Intervals /\ 1 \in DOMAIN pool /\ head = pool[1]
  BY HeadFacts
<1>2. /\ head.first \in Nat /\ head.first \in Ids /\ head.first <= MaxId
      /\ head.second \in Nat /\ head.second \in Ids /\ head.second <= MaxId
      /\ MaxId \in Nat
  BY HeadFacts, MaxIdAssumption
<1>3. id \notin Members(head)
  BY <1>1 DEF Free
<1>4. ~(head.first < id /\ id < head.second)
  BY <1>2, <1>3 DEF Members, Ids
<1>5. CASE below
  <2>1. lower \in Intervals /\ Members(lower) \subseteq Members(head) \cup {id}
    BY <1>2, <1>5 DEF Interval, Intervals, Members, Ids
  <2>2. done.ok /\ done.pool = SetHead(pool, lower)
    BY <1>5 DEF Return
  <2>3. Proper(pool) => Proper(SetHead(pool, lower))
    BY <1>1, <1>2 DEF Proper, SetHead, Pools, Interval, Ids
  <2> QED BY <2>1, <2>2, <2>3, Widening
<1>6. CASE above /\ ~below
  <2>1. upper \in Intervals /\ Members(upper) \subseteq Members(head) \cup {id}
    BY <1>2, <1>6 DEF Interval, Intervals, Members, Ids
  <2>2. done.ok /\ done.pool = SetHead(pool, upper)
    BY <1>6 DEF Return
  <2>3. Proper(pool) => Proper(SetHead(pool, upper))
    BY <1>1, <1>2 DEF Proper, SetHead, Pools, Interval, Ids
  <2> QED BY <2>1, <2>2, <2>3, Widening
<1>7. CASE ~above /\ ~below
  <2>1. done.ok /\ done.pool = << Interval(id, id) >> \o pool
    BY <1>4, <1>7 DEF Return
  <2>2. Proper(pool) => Proper(<< Interval(id, id) >> \o pool)
    <3> DEFINE new == << Interval(id, id) >> \o pool
    <3> SUFFICES ASSUME Proper(pool), NEW i \in DOMAIN new PROVE new[i].first <= new[i].second
      BY DEF Proper
    <3>1. i # 1 => i - 1 \in DOMAIN pool /\ new[i] = pool[i - 1]
      BY DEF Pools, Interval
    <3>2. i = 1 => new[i] = Interval(id, id)
      BY DEF Pools, Interval
    <3> QED BY <3>1, <3>2 DEF Proper, Interval, Ids
  <2> QED BY <2>1, <2>2, Pushing
<1> QED BY <1>5, <1>6, <1>7
-------------------------------------------------------------------------------
(* Type correctness. *)

LEMMA NoneIsNothing == None \notin Ids /\ None \notin Accounts
BY MarketAssumption DEF Accounts, Words

LEMMA WordsAreNumbers == /\ Word \in Nat /\ Word > 1 /\ 0 \in Words
                         /\ \A n \in Words : n \in Nat /\ n < Word
                         /\ \A n \in Nat : n < Word => n \in Words
                         /\ \A n \in Nat : n % Word \in Words
BY MarketAssumption DEF Words

LEMMA StatusType ==
  ASSUME TypeOK, NEW p \in Players PROVE Status(p) \in Accounts
<1>1. sf[p] \in Storefronts /\ playerinfo[p] \in Rows
  BY DEF TypeOK
<1>2. CASE sf[p].status = None
  BY <1>1, <1>2 DEF Status, Accounts, Rows
<1>3. CASE sf[p].status # None
  BY <1>1, <1>3 DEF Status, Storefronts
<1> QED BY <1>2, <1>3

LEMMA CostType ==
  ASSUME NEW o, o.amount \in Words, o.price \in Words
  PROVE  Cost(o) \in Words /\ Stock(o) \in Words
<1>1. o.amount \in Nat /\ o.price \in Nat
  BY WordsAreNumbers
<1>2. o.amount * o.price \in Nat
  BY <1>1
<1> HIDE DEF Words
<1> QED BY <1>2, WordsAreNumbers DEF Cost, Stock

(* The account never goes below zero: unsigned subtraction does not wrap.      *)
LEMMA ChargeType ==
  ASSUME NEW account \in Accounts, NEW o, o.amount \in Words, o.price \in Words,
         Covered(o, account)
  PROVE  Charge(account, o) \in Accounts
<1>1. account.money \in Words /\ account.shares \in Words
  BY DEF Accounts
<1>2. Cost(o) \in Words /\ Stock(o) \in Words
  BY CostType
<1>3. Cost(o) <= account.money /\ Stock(o) <= account.shares
  BY DEF Covered
<1>4. account.money - Cost(o) \in Words /\ account.shares - Stock(o) \in Words
  BY <1>1, <1>2, <1>3, WordsAreNumbers DEF Words
<1> QED BY <1>4 DEF Charge, Accounts

LEMMA RefundType ==
  ASSUME NEW account \in Accounts, NEW o, o.amount \in Words, o.price \in Words
  PROVE  Refund(account, o) \in Accounts
<1>1. account.money \in Words /\ account.shares \in Words
  BY DEF Accounts
<1>2. Cost(o) \in Words /\ Stock(o) \in Words
  BY CostType
<1>3. account.money + Cost(o) \in Nat /\ account.shares + Stock(o) \in Nat
  BY <1>1, <1>2, WordsAreNumbers
<1> QED BY <1>3, WordsAreNumbers DEF Refund, Accounts

LEMMA UncostlyOrders ==
  ASSUME NEW o, o.type \in {"BUY_MARKET", "SELL_MARKET"}, NEW account \in Accounts
  PROVE  Charge(account, o) = account
<1>1. Cost(o) = 0 /\ Stock(o) = 0
  BY DEF Cost, Stock
<1>2. account.money \in Nat /\ account.shares \in Nat
  BY WordsAreNumbers DEF Accounts
<1>3. account = [money |-> account.money, shares |-> account.shares]
  BY DEF Accounts
<1> QED BY <1>1, <1>2, <1>3 DEF Charge

(* What an accepted order leaves of the account. *)
LEMMA AcceptedType ==
  ASSUME NEW account \in Accounts, NEW o \in Orders, TRUE \in Verdicts(o, account)
  PROVE  Charge(account, o) \in Accounts
<1>1. o.amount \in Words /\ o.price \in Words /\ o.type \in Types \cup {"REMOVE"}
  BY DEF Orders
<1>2. CASE o.type = "REMOVE"
  BY <1>2 DEF Verdicts
<1>3. CASE o.type \in {"BUY_MARKET", "SELL_MARKET"}
  BY <1>3, UncostlyOrders
<1>4. CASE o.type \in {"BUY_BOUNDED", "SELL_BOUNDED"}
  <2>1. Verdicts(o, account) = {Covered(o, account)}
    BY <1>4 DEF Verdicts
  <2>2. Covered(o, account)
    BY <2>1
  <2> QED BY <2>2, <1>1, ChargeType
<1> QED BY <1>1, <1>2, <1>3, <1>4 DEF Types

LEMMA OfferType ==
  ASSUME NEW offer \in Offers, NEW id \in Ids, NEW p \in Ids
  PROVE  [id |-> id, player |-> p, type |-> offer.type,
          amount |-> offer.amount, price |-> offer.price] \in Orders
BY MarketAssumption DEF Orders, Types, Words

LEMMA RemovalType == ASSUME NEW id \in Ids, NEW p \in Ids PROVE Removal(p, id) \in Orders
BY WordsAreNumbers DEF Removal, Orders, Types

LEMMA QueueFacts ==
  ASSUME NEW queue \in Seq(Orders)
  PROVE  /\ \A o \in Orders : Append(queue, o) \in Seq(Orders)
         /\ queue # << >> => Head(queue) \in Orders /\ Tail(queue) \in Seq(Orders)
OBVIOUS
LEMMA GenerateType ==
  ASSUME NEW pool \in Pools, pool # << >>, NEW slack
  PROVE  /\ Generate(pool, slack).pool \in Pools
         /\ Generate(pool, slack).id \in Ids
<1> DEFINE head == Head(pool)
           next == (head.first + 1) % (MaxId + 1)
           got == Generate(pool, slack)
<1>1. next \in Ids
  <2>1. head.first + 1 \in Nat /\ MaxId + 1 \in Nat \ {0}
    BY HeadFacts, MaxIdAssumption
  <2>2. \A n \in Nat, m \in Nat \ {0} : n % m \in 0 .. m - 1
    OBVIOUS
  <2>3. next \in 0 .. (MaxId + 1) - 1
    BY <2>1, <2>2
  <2> QED BY <2>3, MaxIdAssumption DEF Ids
<1>2. Interval(next, head.second) \in Intervals
  BY <1>1, HeadFacts DEF Interval, Intervals
<1>3. SetHead(pool, Interval(next, head.second)) \in Pools /\ Tail(pool) \in Pools
  <2>1. Pools = Seq(Intervals)
    BY DEF Pools, Intervals
  <2> QED BY <1>2, <2>1 DEF SetHead
<1>4. got.pool \in {Tail(pool), SetHead(pool, Interval(next, head.second))} /\ got.id = head.first
  BY DEF Generate
<1> QED BY <1>3, <1>4, HeadFacts

LEMMA ReturnType ==
  ASSUME NEW pool \in Pools, pool # << >>, NEW id \in Ids
  PROVE  Return(pool, id).pool \in Pools
<1> DEFINE head == Head(pool)
           below == head.first > 0 /\ id = head.first - 1
           above == head.second < MaxId /\ id = head.second + 1
<1>1. Pools = Seq(Intervals)
  BY DEF Pools, Intervals
<1>2. CASE below
  <2>1. Interval(head.first - 1, head.second) \in Intervals
    BY <1>2, HeadFacts DEF Interval, Intervals
  <2>2. Return(pool, id).pool = SetHead(pool, Interval(head.first - 1, head.second))
    BY <1>2 DEF Return
  <2> QED BY <2>1, <2>2, <1>1 DEF SetHead
<1>3. CASE above /\ ~below
  <2>1. Interval(head.first, head.second + 1) \in Intervals
    BY <1>3, HeadFacts DEF Interval, Intervals
  <2>2. Return(pool, id).pool = SetHead(pool, Interval(head.first, head.second + 1))
    BY <1>3 DEF Return
  <2> QED BY <2>1, <2>2, <1>1 DEF SetHead
<1>4. CASE ~below /\ ~above
  <2>1. << Interval(id, id) >> \o pool \in Pools
    BY <1>1 DEF Interval, Intervals
  <2>2. Return(pool, id).pool \in {pool, << Interval(id, id) >> \o pool}
    BY <1>4 DEF Return
  <2> QED BY <2>1, <2>2
<1> QED BY <1>2, <1>3, <1>4

LEMMA DiesType == ASSUME TypeOK, Dies, UNCHANGED << p_id, o_id >> PROVE TypeOK'
BY DEF TypeOK, Dies, Players

(* Replacing one player's market_sf. *)
LEMMA StorefrontType ==
  ASSUME TypeOK, NEW p \in Players, NEW status \in Accounts \cup {None}, NEW queue \in Seq(Orders),
         sf' = [sf EXCEPT ![p] = [status |-> status, queue |-> queue]]
  PROVE  Players' = Players /\ \A q \in Players : sf'[q] \in Storefronts
BY DEF TypeOK, Players, Storefronts

LEMMA AddPlayerType ==
  ASSUME TypeOK, NEW money \in Money, NEW shares \in Shares, AddPlayer(money, shares)
  PROVE  TypeOK'
<1> DEFINE got == Generate(p_id, PlayerSlack)
<1>1. got.pool \in Pools /\ got.id \in Ids /\ p_id' = got.pool
  BY GenerateType DEF TypeOK, AddPlayer
<1>2. CASE ~got.ok
  BY <1>1, <1>2 DEF TypeOK, AddPlayer, Players
<1>3. CASE got.ok
  <2>1. Players' = Players \cup {got.id} /\ DOMAIN playerinfo' = Players \cup {got.id}
    BY <1>3 DEF AddPlayer, Players
  <2>2. << >> \in Seq(Orders) /\ [status |-> None, queue |-> << >>] \in Storefronts
    BY DEF Storefronts
  <2>3. money \in Words /\ shares \in Words
    BY MarketAssumption DEF Words
  <2>4. [money |-> money, moneyTotal |-> money, shares |-> shares, sharesTotal |-> shares] \in Rows
    BY <2>3 DEF Rows
  <2>5. ASSUME NEW q \in Players' PROVE sf'[q] \in Storefronts /\ playerinfo'[q] \in Rows
    <3>1. CASE q = got.id
      BY <3>1, <1>3, <2>1, <2>2, <2>4 DEF AddPlayer
    <3>2. CASE q # got.id
      BY <3>2, <1>3, <2>1 DEF AddPlayer, TypeOK
    <3> QED BY <3>1, <3>2
  <2> QED BY <1>1, <2>1, <2>5 DEF TypeOK, AddPlayer
<1> QED BY <1>2, <1>3

LEMMA PutInQueueType ==
  ASSUME TypeOK, NEW p \in Players, NEW offer \in Offers, PutInQueue(p, offer)
  PROVE  TypeOK'
<1> DEFINE got == Generate(o_id, OrderSlack)
           o == [id |-> got.id, player |-> p, type |-> offer.type,
                 amount |-> offer.amount, price |-> offer.price]
           others == << sf, playerinfo, orderbook, unflushed, leaving, back, up >>
<1>1. got.pool \in Pools /\ got.id \in Ids /\ o_id' = got.pool /\ p_id' = p_id
  BY GenerateType DEF TypeOK, PutInQueue
<1>2. o \in Orders
  BY <1>1, OfferType DEF TypeOK
<1>3. CASE ~got.ok
  BY <1>1, <1>3 DEF TypeOK, PutInQueue, Players
<1>4. CASE got.ok /\ ~CanRead(p)
  <2>1. Dies
    BY <1>4 DEF PutInQueue
  <2> QED BY <1>1, <2>1 DEF TypeOK, Dies, Players
<1>5. CASE got.ok /\ CanRead(p)
  <2>1. PICK accepted \in Verdicts(o, Status(p)) :
          sf' = [sf EXCEPT ![p] = IF accepted
                                  THEN [status |-> Charge(Status(p), o), queue |-> Append(@.queue, o)]
                                  ELSE [status |-> Status(p), queue |-> @.queue]]
    BY <1>5 DEF PutInQueue
  <2>2. UNCHANGED << playerinfo, orderbook, unflushed, leaving, back, up >>
    BY <1>5 DEF PutInQueue
  <2>3. accepted \in BOOLEAN
    BY DEF Verdicts, Covered
  <2>4. sf[p].queue \in Seq(Orders) /\ Append(sf[p].queue, o) \in Seq(Orders)
    BY <1>2, QueueFacts DEF TypeOK, Storefronts
  <2>5. Players' = Players /\ \A q \in Players : sf'[q] \in Storefronts
    <3>1. CASE accepted
      <4>1. Charge(Status(p), o) \in Accounts
        BY <1>2, <2>1, <2>3, <3>1, StatusType, AcceptedType
      <4>2. sf' = [sf EXCEPT ![p] = [status |-> Charge(Status(p), o),
                                     queue |-> Append(sf[p].queue, o)]]
        BY <2>1, <3>1
      <4> QED BY <2>4, <4>1, <4>2, StorefrontType
    <3>2. CASE ~accepted
      <4>1. sf' = [sf EXCEPT ![p] = [status |-> Status(p), queue |-> sf[p].queue]]
        BY <2>1, <3>2
      <4> QED BY <2>4, <4>1, StatusType, StorefrontType
    <3> QED BY <2>3, <3>1, <3>2
  <2> QED BY <1>1, <2>2, <2>5 DEF TypeOK, Players
<1> QED BY <1>3, <1>4, <1>5

LEMMA RemoveOrderType ==
  ASSUME TypeOK, NEW p \in Players, NEW id \in Ids, RemoveOrder(p, id)
  PROVE  TypeOK'
<1>1. CASE Dies
  BY <1>1, DiesType DEF RemoveOrder
<1>2. CASE ~Dies
  <2>1. PICK o \in orderbook :
          /\ sf' = [sf EXCEPT ![p] = [status |-> Refund(Status(p), o),
                                      queue |-> Append(@.queue, Removal(p, id))]]
          /\ UNCHANGED << playerinfo, orderbook, unflushed, leaving, back, up >>
    BY <1>2 DEF RemoveOrder
  <2>2. o.amount \in Words /\ o.price \in Words
    BY DEF TypeOK, Orders
  <2>3. Refund(Status(p), o) \in Accounts
    BY <2>2, StatusType, RefundType
  <2>4. Removal(p, id) \in Orders
    BY RemovalType DEF TypeOK
  <2>5. Append(sf[p].queue, Removal(p, id)) \in Seq(Orders)
    BY <2>4, QueueFacts DEF TypeOK, Storefronts
  <2>6. sf' = [sf EXCEPT ![p] = [status |-> Refund(Status(p), o),
                                 queue |-> Append(sf[p].queue, Removal(p, id))]]
    BY <2>1
  <2>7. Players' = Players /\ \A q \in Players : sf'[q] \in Storefronts
    BY <2>3, <2>5, <2>6, StorefrontType
  <2> QED BY <2>1, <2>7 DEF TypeOK, RemoveOrder, Players
<1> QED BY <1>1, <1>2

LEMMA AccStatusType ==
  ASSUME TypeOK, NEW p \in Players, AccStatus(p)
  PROVE  TypeOK'
<1>1. CASE Dies
  BY <1>1, DiesType DEF AccStatus
<1>2. CASE ~Dies
  <2>1. sf' = [sf EXCEPT ![p].status = Status(p)]
    BY <1>2 DEF AccStatus
  <2>2. ASSUME NEW q \in Players PROVE sf'[q] \in Storefronts
    BY <2>1, StatusType DEF TypeOK, Storefronts, Players
  <2>3. Players' = Players
    BY <2>1 DEF Players
  <2> QED BY <1>2, <2>2, <2>3 DEF TypeOK, AccStatus, Players
<1> QED BY <1>1, <1>2

LEMMA FlushOrderType ==
  ASSUME TypeOK, NEW p \in unflushed, FlushOrder(p)
  PROVE  TypeOK'
<1> DEFINE o == Head(sf[p].queue)
<1>1. CASE Dies
  BY <1>1, DiesType DEF FlushOrder
<1>2. CASE ~Dies
  <2>1. /\ sf' = [sf EXCEPT ![p] = [status |-> Status(p), queue |-> Tail(sf[p].queue)]]
        /\ orderbook' \subseteq orderbook \cup {o}
        /\ UNCHANGED << p_id, o_id, playerinfo, unflushed, leaving, back, up >>
    BY <1>2 DEF FlushOrder
  <2>2. p \in Players /\ sf[p].queue \in Seq(Orders) /\ sf[p].queue # << >>
    BY DEF TypeOK, Storefronts, FlushOrder
  <2>3. o \in Orders /\ Tail(sf[p].queue) \in Seq(Orders)
    BY <2>2, QueueFacts
  <2>4. Players' = Players /\ \A q \in Players : sf'[q] \in Storefronts
    BY <2>1, <2>2, <2>3, StatusType, StorefrontType
  <2> QED BY <2>1, <2>3, <2>4 DEF TypeOK, Players
<1> QED BY <1>1, <1>2

LEMMA FlushAccountType ==
  ASSUME TypeOK, NEW p \in unflushed, FlushAccount(p)
  PROVE  TypeOK'
<1>1. CASE Dies
  BY <1>1, DiesType DEF FlushAccount
<1>2. CASE ~Dies
  <2>1. /\ playerinfo' = [playerinfo EXCEPT ![p].money = Status(p).money,
                                            ![p].shares = Status(p).shares]
        /\ sf' = [sf EXCEPT ![p].status = None]
        /\ unflushed' = unflushed \ {p}
        /\ UNCHANGED << p_id, o_id, orderbook, leaving, back, up >>
    BY <1>2 DEF FlushAccount
  <2>2. p \in Players /\ Status(p) \in Accounts
    BY StatusType DEF TypeOK
  <2>3. Players' = Players /\ DOMAIN playerinfo' = DOMAIN playerinfo
    BY <2>1 DEF Players
  <2>4. ASSUME NEW q \in Players PROVE sf'[q] \in Storefronts
    BY <2>1, <2>2 DEF TypeOK, Storefronts, Players
  <2>5. ASSUME NEW q \in Players PROVE playerinfo'[q] \in Rows
    BY <2>1, <2>2 DEF TypeOK, Rows, Accounts, Players
  <2> QED BY <2>1, <2>3, <2>4, <2>5 DEF TypeOK, Players
<1> QED BY <1>1, <1>2

LEMMA DeletePlayerType ==
  ASSUME TypeOK, NEW p \in Players, DeletePlayer(p)
  PROVE  TypeOK'
<1>1. p \in Ids
  BY DEF TypeOK
<1>2. p_id' \in Pools
  BY <1>1, ReturnType DEF TypeOK, DeletePlayer
<1>3. Players' = Players \ {p} /\ DOMAIN playerinfo' = Players \ {p}
  BY DEF DeletePlayer, Players
<1>4. \A q \in Players' : sf'[q] \in Storefronts /\ playerinfo'[q] \in Rows
  BY <1>3 DEF DeletePlayer, TypeOK
<1>5. unflushed' = {} /\ unflushed' \subseteq Players'
  BY DEF DeletePlayer, Idle
<1>6. leaving' \in Ids \cup {None} /\ back' \subseteq Ids
  <2>1. \A o \in OrdersOf(p) : o.id \in Ids
    BY DEF OrdersOf, TypeOK, Orders
  <2>2. \/ UNCHANGED << leaving, back >>
        \/ /\ leaving' = p
           /\ \E last \in OrdersOf(p) : back' = { o.id : o \in OrdersOf(p) \ {last} }
    BY DEF DeletePlayer
  <2> QED BY <1>1, <2>1, <2>2 DEF TypeOK
<1>7. up' \in BOOLEAN
  BY DEF DeletePlayer, TypeOK
<1> QED BY <1>2, <1>3, <1>4, <1>5, <1>6, <1>7 DEF TypeOK, DeletePlayer

LEMMA ReturnOrderType ==
  ASSUME TypeOK, ReturnOrder
  PROVE  TypeOK'
<1>1. CASE Dies
  BY <1>1 DEF TypeOK, Dies, ReturnOrder, Players
<1>2. CASE ~Dies
  <2>1. PICK id \in back :
          /\ o_id # << >> /\ o_id' = Return(o_id, id).pool
          /\ \/ back' = back \ {id} /\ UNCHANGED leaving
             \/ back' = {} /\ leaving' = None
          /\ UNCHANGED << sf, playerinfo, orderbook, unflushed, up >>
    BY <1>2 DEF ReturnOrder
  <2>2. o_id' \in Pools
    BY <2>1, ReturnType DEF TypeOK
  <2> QED BY <2>1, <2>2 DEF TypeOK, ReturnOrder, Players
<1> QED BY <1>1, <1>2

LEMMA TypeInit == Init => TypeOK
<1> SUFFICES ASSUME Init PROVE TypeOK
  OBVIOUS
<1>1. FullPool \in Pools
  BY MaxIdAssumption DEF FullPool, Pools, Interval, Ids
<1>2. Players = {} /\ DOMAIN playerinfo = {}
  BY DEF Init, Players
<1> QED BY <1>1, <1>2 DEF Init, TypeOK

LEMMA TypeStep == TypeOK /\ [Next]_vars => TypeOK'
<1> SUFFICES ASSUME TypeOK, [Next]_vars PROVE TypeOK'
  OBVIOUS
<1>1. CASE \E money \in Money, shares \in Shares : AddPlayer(money, shares)
  BY <1>1, AddPlayerType
<1>2. CASE \E p \in Players, offer \in Offers : PutInQueue(p, offer)
  BY <1>2, PutInQueueType
<1>3. CASE \E p \in Players, id \in Ids : RemoveOrder(p, id)
  BY <1>3, RemoveOrderType
<1>4. CASE \E p \in Players : AccStatus(p) \/ DeletePlayer(p) \/ TreeFault(p)
  <2>1. PICK p \in Players : AccStatus(p) \/ DeletePlayer(p) \/ TreeFault(p)
    BY <1>4
  <2>2. CASE TreeFault(p)
    BY <2>2, DiesType DEF TreeFault
  <2> QED BY <2>1, <2>2, AccStatusType, DeletePlayerType
<1>5. CASE Evening
  BY <1>5 DEF Evening, TypeOK, Players
<1>6. CASE \E p \in unflushed : FlushOrder(p) \/ FlushAccount(p)
  BY <1>6, FlushOrderType, FlushAccountType
<1>7. CASE ReturnOrder
  BY <1>7, ReturnOrderType
<1>8. CASE DeleteRows
  BY <1>8 DEF DeleteRows, TypeOK, Players
<1>9. CASE UNCHANGED vars
  BY <1>9 DEF vars, TypeOK, Players
<1> QED BY <1>1, <1>2, <1>3, <1>4, <1>5, <1>6, <1>7, <1>8, <1>9 DEF Next

(* Every field keeps to its width; in particular no account is ever charged    *)
(* below zero, which in unsigned arithmetic would make the player rich.        *)
THEOREM MarketTypeOK == Spec => []TypeOK
<1>1. Init => TypeOK
  BY TypeInit
<1>2. TypeOK /\ [Next]_vars => TypeOK'
  BY TypeStep
<1> QED BY <1>1, <1>2, PTL DEF Spec

-------------------------------------------------------------------------------
(* The inductive invariant about numbers.  Quantified over the entries of the  *)
(* queues, it says of a removal what OrderIdsUnique does not: its number is    *)
(* held too, by an order of the book or by none, never by a queued order, and  *)
(* the order in the book is the player's own.                                  *)

PoolsOK == Disjoint(p_id) /\ Disjoint(o_id) /\ Proper(o_id) /\ PlayerIdsUnique

RowsDiffer == \A o1, o2 \in orderbook : o1.id = o2.id => o1 = o2

Inserts(p, i) == sf[p].queue[i].type # "REMOVE"
Number(p, i) == sf[p].queue[i].id

EntriesDiffer ==
  \A p, q \in Players : \A i \in DOMAIN sf[p].queue, j \in DOMAIN sf[q].queue :
    Number(p, i) = Number(q, j) /\ Inserts(p, i) => Inserts(q, j) /\ p = q /\ i = j

EntriesHeld == \A p \in Players : \A i \in DOMAIN sf[p].queue : Number(p, i) \notin Free(o_id)

EntriesAndRows ==
  \A p \in Players : \A i \in DOMAIN sf[p].queue : \A o \in orderbook :
    Number(p, i) = o.id => ~Inserts(p, i) /\ o.player = p

RowsHeld == \A o \in orderbook : o.player # leaving => o.id \notin Free(o_id)

LeavingOK ==
  /\ leaving # None => leaving \notin Players /\ unflushed = {}
  /\ back \cap Free(o_id) = {}
  /\ \A id \in back : leaving # None /\ \E o \in orderbook : o.player = leaving /\ o.id = id

NumbersOK == PoolsOK /\ RowsDiffer /\ EntriesDiffer /\ EntriesHeld /\ EntriesAndRows
               /\ RowsHeld /\ LeavingOK

LEMMA NumbersInit == Init => NumbersOK
<1> SUFFICES ASSUME Init PROVE NumbersOK
  OBVIOUS
<1>1. Disjoint(FullPool) /\ Proper(FullPool)
  BY MaxIdAssumption DEF FullPool, Disjoint, Proper, Interval
<1>2. Players = {} /\ orderbook = {} /\ back = {} /\ leaving = None
  BY DEF Init, Players
<1> QED BY <1>1, <1>2 DEF Init, NumbersOK, PoolsOK, PlayerIdsUnique, RowsDiffer, EntriesDiffer,
             EntriesHeld, EntriesAndRows, RowsHeld, LeavingOK

(* What the invariant depends on: the queues, not the cached accounts. *)
SameQueues == Players' = Players /\ \A p \in Players : sf'[p].queue = sf[p].queue

LEMMA SameNumbers ==
  ASSUME NumbersOK, SameQueues, UNCHANGED << p_id, o_id, orderbook, leaving, back >>,
         leaving # None => unflushed' = {}
  PROVE  NumbersOK'
<1>1. PoolsOK'
  BY DEF NumbersOK, PoolsOK, SameQueues, PlayerIdsUnique
<1>2. RowsDiffer' /\ RowsHeld' /\ LeavingOK'
  BY DEF NumbersOK, SameQueues, RowsDiffer, RowsHeld, LeavingOK
<1>3. EntriesDiffer'
  BY DEF NumbersOK, SameQueues, EntriesDiffer, Number, Inserts
<1>4. EntriesHeld' /\ EntriesAndRows'
  BY DEF NumbersOK, SameQueues, EntriesHeld, EntriesAndRows, Number, Inserts
<1> QED BY <1>1, <1>2, <1>3, <1>4 DEF NumbersOK

LEMMA DiesNumbers ==
  ASSUME NumbersOK, Dies, UNCHANGED << p_id, o_id >> PROVE NumbersOK'
<1>1. SameQueues
  BY DEF Dies, SameQueues, Players
<1>2. leaving # None => unflushed' = {}
  BY DEF Dies, NumbersOK, LeavingOK
<1> QED BY <1>1, <1>2, SameNumbers DEF Dies

LEMMA AddPlayerNumbers ==
  ASSUME TypeOK, NumbersOK, NEW money \in Money, NEW shares \in Shares, AddPlayer(money, shares)
  PROVE  NumbersOK'
<1> DEFINE got == Generate(p_id, PlayerSlack)
<1>1. /\ p_id' = got.pool
      /\ Disjoint(p_id') /\ Free(p_id') \subseteq Free(p_id)
      /\ got.ok => got.id \in Free(p_id) \ Free(p_id')
  BY GeneratePlayer DEF TypeOK, NumbersOK, PoolsOK, AddPlayer
<1>2. UNCHANGED << o_id, orderbook, unflushed, leaving, back >> /\ leaving = None /\ back = {}
  BY DEF AddPlayer, Idle, NumbersOK, LeavingOK
<1>3. Players' = IF got.ok THEN Players \cup {got.id} ELSE Players
  BY DEF AddPlayer, Players
<1>4. PoolsOK'
  BY <1>1, <1>2, <1>3 DEF NumbersOK, PoolsOK, PlayerIdsUnique
<1>5. got.ok => got.id \notin Players
  BY <1>1 DEF NumbersOK, PoolsOK, PlayerIdsUnique
<1>6. \A p \in Players : sf'[p] = sf[p]
  BY <1>5 DEF AddPlayer
<1>7. \A p \in Players' \ Players : sf'[p].queue = << >>
  BY <1>3 DEF AddPlayer
<1>8. \A p \in Players' : \A i \in DOMAIN sf'[p].queue :
        p \in Players /\ sf'[p] = sf[p] /\ i \in DOMAIN sf[p].queue
  BY <1>6, <1>7
<1>9. EntriesDiffer'
  BY <1>8 DEF NumbersOK, EntriesDiffer, Number, Inserts
<1>10. EntriesHeld' /\ EntriesAndRows'
  BY <1>2, <1>8 DEF NumbersOK, EntriesHeld, EntriesAndRows, Number, Inserts
<1>11. RowsDiffer' /\ RowsHeld' /\ LeavingOK'
  BY <1>2 DEF NumbersOK, RowsDiffer, RowsHeld, LeavingOK
<1> QED BY <1>4, <1>9, <1>10, <1>11 DEF NumbersOK

(* The entries of the queues after p's got one more. *)
LEMMA Appended ==
  ASSUME TypeOK, NEW p \in Players, NEW o, Players' = Players,
         \A q \in Players : q # p => sf'[q].queue = sf[q].queue,
         sf'[p].queue = Append(sf[p].queue, o)
  PROVE  \A q \in Players : \A i \in DOMAIN sf'[q].queue :
           \/ i \in DOMAIN sf[q].queue /\ sf'[q].queue[i] = sf[q].queue[i]
           \/ q = p /\ i = Len(sf[p].queue) + 1 /\ sf'[q].queue[i] = o
<1> SUFFICES ASSUME NEW i \in DOMAIN sf'[p].queue
             PROVE  \/ i \in DOMAIN sf[p].queue /\ sf'[p].queue[i] = sf[p].queue[i]
                    \/ i = Len(sf[p].queue) + 1 /\ sf'[p].queue[i] = o
  OBVIOUS
<1>1. sf[p].queue \in Seq(Orders)
  BY DEF TypeOK, Storefronts
<1> QED BY <1>1

(* An order whose number has just been taken from o_id joins a queue. *)
LEMMA InsertQueued ==
  ASSUME TypeOK, NumbersOK, leaving = None, back = {}, NEW p \in Players, NEW o \in Orders,
         o_id # << >>,
         o_id' = Generate(o_id, OrderSlack).pool, o.id = Generate(o_id, OrderSlack).id,
         o.type # "REMOVE",
         Players' = Players, \A q \in Players : q # p => sf'[q].queue = sf[q].queue,
         sf'[p].queue = Append(sf[p].queue, o),
         UNCHANGED << p_id, orderbook, unflushed, leaving, back >>
  PROVE  NumbersOK'
<1>1. /\ Disjoint(o_id') /\ Proper(o_id') /\ Free(o_id') \subseteq Free(o_id)
      /\ o.id \in Free(o_id) \ Free(o_id')
  BY GenerateOrder DEF TypeOK, NumbersOK, PoolsOK
<1>2. \A q \in Players : \A i \in DOMAIN sf'[q].queue :
        \/ i \in DOMAIN sf[q].queue /\ sf'[q].queue[i] = sf[q].queue[i]
        \/ q = p /\ i = Len(sf[p].queue) + 1 /\ sf'[q].queue[i] = o
  BY Appended
<1>3. \A q \in Players : \A i \in DOMAIN sf[q].queue : Number(q, i) # o.id
  BY <1>1 DEF NumbersOK, EntriesHeld
<1>4. \A row \in orderbook : row.id \notin Free(o_id)
  <2>1. \A row \in orderbook : row.player # None
    BY NoneIsNothing DEF TypeOK, Orders
  <2> QED BY <2>1 DEF NumbersOK, RowsHeld
<1>5. EntriesDiffer'
  <2> SUFFICES ASSUME NEW q \in Players, NEW r \in Players,
                      NEW i \in DOMAIN sf'[q].queue, NEW j \in DOMAIN sf'[r].queue,
                      sf'[q].queue[i].id = sf'[r].queue[j].id, sf'[q].queue[i].type # "REMOVE"
               PROVE  sf'[r].queue[j].type # "REMOVE" /\ q = r /\ i = j
    BY DEF EntriesDiffer, Number, Inserts
  <2>1. CASE q = p /\ i = Len(sf[p].queue) + 1 /\ sf'[q].queue[i] = o
    BY <2>1, <1>2, <1>3 DEF Number
  <2>2. CASE r = p /\ j = Len(sf[p].queue) + 1 /\ sf'[r].queue[j] = o
    BY <2>2, <1>2, <1>3 DEF Number
  <2>3. CASE /\ i \in DOMAIN sf[q].queue /\ sf'[q].queue[i] = sf[q].queue[i]
             /\ j \in DOMAIN sf[r].queue /\ sf'[r].queue[j] = sf[r].queue[j]
    BY <2>3 DEF NumbersOK, EntriesDiffer, Number, Inserts
  <2> QED BY <1>2, <2>1, <2>2, <2>3
<1>6. EntriesHeld'
  BY <1>1, <1>2 DEF NumbersOK, EntriesHeld, Number
<1>7. EntriesAndRows'
  BY <1>1, <1>2, <1>4 DEF NumbersOK, EntriesAndRows, Number, Inserts
<1>8. PoolsOK' /\ RowsDiffer' /\ RowsHeld' /\ LeavingOK'
  BY <1>1, <1>4 DEF NumbersOK, PoolsOK, PlayerIdsUnique, RowsDiffer, RowsHeld, LeavingOK
<1> QED BY <1>5, <1>6, <1>7, <1>8 DEF NumbersOK

(* A removal of one of p's rows joins p's queue. *)
LEMMA RemovalQueued ==
  ASSUME TypeOK, NumbersOK, leaving = None, NEW p \in Players, NEW row \in orderbook,
         row.player = p,
         Players' = Players, \A q \in Players : q # p => sf'[q].queue = sf[q].queue,
         sf'[p].queue = Append(sf[p].queue, Removal(p, row.id)),
         UNCHANGED << p_id, o_id, orderbook, unflushed, leaving, back >>
  PROVE  NumbersOK'
<1> DEFINE o == Removal(p, row.id)
<1>1. o.id = row.id /\ o.type = "REMOVE"
  BY DEF Removal
<1>2. \A q \in Players : \A i \in DOMAIN sf'[q].queue :
        \/ i \in DOMAIN sf[q].queue /\ sf'[q].queue[i] = sf[q].queue[i]
        \/ q = p /\ i = Len(sf[p].queue) + 1 /\ sf'[q].queue[i] = o
  BY Appended
<1>3. row.id \notin Free(o_id)
  <2>1. row.player # None
    BY NoneIsNothing DEF TypeOK, Orders
  <2> QED BY <2>1 DEF NumbersOK, RowsHeld
<1>4. \A q \in Players : \A i \in DOMAIN sf[q].queue : Number(q, i) = row.id => ~Inserts(q, i)
  BY DEF NumbersOK, EntriesAndRows
<1> HIDE DEF o
<1>5. EntriesDiffer'
  <2> SUFFICES ASSUME NEW q \in Players, NEW r \in Players,
                      NEW i \in DOMAIN sf'[q].queue, NEW j \in DOMAIN sf'[r].queue,
                      sf'[q].queue[i].id = sf'[r].queue[j].id, sf'[q].queue[i].type # "REMOVE"
               PROVE  sf'[r].queue[j].type # "REMOVE" /\ q = r /\ i = j
    BY DEF EntriesDiffer, Number, Inserts
  <2>1. i \in DOMAIN sf[q].queue /\ sf'[q].queue[i] = sf[q].queue[i]
    BY <1>1, <1>2
  <2>2. CASE r = p /\ j = Len(sf[p].queue) + 1 /\ sf'[r].queue[j] = o
    BY <2>1, <2>2, <1>1, <1>4 DEF Number, Inserts
  <2>3. CASE j \in DOMAIN sf[r].queue /\ sf'[r].queue[j] = sf[r].queue[j]
    BY <2>1, <2>3 DEF NumbersOK, EntriesDiffer, Number, Inserts
  <2> QED BY <1>2, <2>2, <2>3
<1>6. EntriesHeld'
  BY <1>1, <1>2, <1>3 DEF NumbersOK, EntriesHeld, Number
<1>7. EntriesAndRows'
  <2> SUFFICES ASSUME NEW q \in Players, NEW i \in DOMAIN sf'[q].queue, NEW other \in orderbook,
                      sf'[q].queue[i].id = other.id
               PROVE  sf'[q].queue[i].type = "REMOVE" /\ other.player = q
    BY DEF EntriesAndRows, Number, Inserts
  <2>1. CASE q = p /\ i = Len(sf[p].queue) + 1 /\ sf'[q].queue[i] = o
    BY <2>1, <1>1 DEF NumbersOK, RowsDiffer
  <2>2. CASE i \in DOMAIN sf[q].queue /\ sf'[q].queue[i] = sf[q].queue[i]
    BY <2>2 DEF NumbersOK, EntriesAndRows, Number, Inserts
  <2> QED BY <1>2, <2>1, <2>2
<1>8. PoolsOK' /\ RowsDiffer' /\ RowsHeld' /\ LeavingOK'
  BY DEF NumbersOK, PoolsOK, PlayerIdsUnique, RowsDiffer, RowsHeld, LeavingOK
<1> QED BY <1>5, <1>6, <1>7, <1>8 DEF NumbersOK

(* A queue loses its head, which goes into the book or takes a row out of it. *)
LEMMA EntryFlushed ==
  ASSUME TypeOK, NumbersOK, leaving = None, back = {}, NEW p \in Players, sf[p].queue # << >>,
         Players' = Players, \A q \in Players : q # p => sf'[q].queue = sf[q].queue,
         sf'[p].queue = Tail(sf[p].queue),
         orderbook' = IF Head(sf[p].queue).type # "REMOVE"
                      THEN orderbook \cup {Head(sf[p].queue)}
                      ELSE { row \in orderbook : row.id # Head(sf[p].queue).id },
         UNCHANGED << p_id, o_id, unflushed, leaving, back >>
  PROVE  NumbersOK'
<1> DEFINE o == Head(sf[p].queue)
           old(q, i) == IF q = p THEN i + 1 ELSE i
<1>1. sf[p].queue \in Seq(Orders) /\ o = sf[p].queue[1] /\ 1 \in DOMAIN sf[p].queue
  BY DEF TypeOK, Storefronts
<1>2. \A q \in Players : \A i \in DOMAIN sf'[q].queue :
        /\ old(q, i) \in DOMAIN sf[q].queue /\ sf'[q].queue[i] = sf[q].queue[old(q, i)]
        /\ q = p => old(q, i) # 1
        /\ \A j \in DOMAIN sf'[q].queue : old(q, i) = old(q, j) => i = j
  <2> SUFFICES ASSUME NEW i \in DOMAIN sf'[p].queue
               PROVE  /\ i + 1 \in DOMAIN sf[p].queue /\ sf'[p].queue[i] = sf[p].queue[i + 1]
                      /\ i + 1 # 1
                      /\ \A j \in DOMAIN sf'[p].queue : i + 1 = j + 1 => i = j
    OBVIOUS
  <2> QED BY <1>1
<1>3. orderbook' \subseteq orderbook \cup {o} /\ (o \in orderbook' => Inserts(p, 1) \/ o \in orderbook)
  BY <1>1 DEF Inserts
<1>4. \A q \in Players : \A i \in DOMAIN sf'[q].queue :
        Inserts(p, 1) => sf'[q].queue[i].id # o.id
  BY <1>1, <1>2 DEF NumbersOK, EntriesDiffer, Inserts, Number
<1>5. o.id \notin Free(o_id)
  BY <1>1 DEF NumbersOK, EntriesHeld, Number
<1>6. Inserts(p, 1) => \A row \in orderbook : row.id # o.id
  BY <1>1 DEF NumbersOK, EntriesAndRows, Number
<1> HIDE DEF o, old
<1>7. RowsDiffer'
  BY <1>3, <1>6 DEF NumbersOK, RowsDiffer
<1>8. EntriesDiffer'
  <2> SUFFICES ASSUME NEW q \in Players, NEW r \in Players,
                      NEW i \in DOMAIN sf'[q].queue, NEW j \in DOMAIN sf'[r].queue,
                      sf'[q].queue[i].id = sf'[r].queue[j].id, sf'[q].queue[i].type # "REMOVE"
               PROVE  sf'[r].queue[j].type # "REMOVE" /\ q = r /\ i = j
    BY DEF EntriesDiffer, Number, Inserts
  <2>1. sf'[r].queue[j].type # "REMOVE" /\ q = r /\ old(q, i) = old(r, j)
    BY <1>2 DEF NumbersOK, EntriesDiffer, Number, Inserts
  <2> QED BY <2>1, <1>2
<1>9. EntriesHeld'
  BY <1>2 DEF NumbersOK, EntriesHeld, Number
<1>10. EntriesAndRows'
  <2> SUFFICES ASSUME NEW q \in Players, NEW i \in DOMAIN sf'[q].queue, NEW row \in orderbook',
                      sf'[q].queue[i].id = row.id
               PROVE  sf'[q].queue[i].type = "REMOVE" /\ row.player = q
    BY DEF EntriesAndRows, Number, Inserts
  <2>1. row \in orderbook
    BY <1>3, <1>4
  <2> QED BY <2>1, <1>2 DEF NumbersOK, EntriesAndRows, Number, Inserts
<1>11. RowsHeld'
  BY <1>3, <1>5 DEF NumbersOK, RowsHeld
<1>12. PoolsOK' /\ LeavingOK'
  BY DEF NumbersOK, PoolsOK, PlayerIdsUnique, LeavingOK
<1> QED BY <1>7, <1>8, <1>9, <1>10, <1>11, <1>12 DEF NumbersOK

LEMMA PutInQueueNumbers ==
  ASSUME TypeOK, NumbersOK, NEW p \in Players, NEW offer \in Offers, PutInQueue(p, offer)
  PROVE  NumbersOK'
<1> DEFINE got == Generate(o_id, OrderSlack)
           o == [id |-> got.id, player |-> p, type |-> offer.type,
                 amount |-> offer.amount, price |-> offer.price]
<1>1. /\ got.ok /\ got.id \in Ids /\ o_id # << >> /\ o_id' = got.pool /\ p_id' = p_id
      /\ Disjoint(got.pool) /\ Proper(got.pool) /\ Free(got.pool) \subseteq Free(o_id)
      /\ leaving = None /\ back = {} /\ unflushed = {}
  BY GenerateOrder DEF TypeOK, NumbersOK, PoolsOK, LeavingOK, PutInQueue, Idle
<1>2. o \in Orders
  BY <1>1, OfferType DEF TypeOK
<1>3. CASE /\ SameQueues
           /\ UNCHANGED << orderbook, unflushed, leaving, back >>
  <2>1. PoolsOK'
    BY <1>1, <1>3 DEF NumbersOK, PoolsOK, PlayerIdsUnique, SameQueues
  <2>2. RowsDiffer' /\ RowsHeld' /\ LeavingOK'
    BY <1>1, <1>3 DEF NumbersOK, RowsDiffer, RowsHeld, LeavingOK
  <2>3. EntriesDiffer'
    BY <1>3 DEF NumbersOK, SameQueues, EntriesDiffer, Number, Inserts
  <2>4. EntriesHeld' /\ EntriesAndRows'
    BY <1>1, <1>3 DEF NumbersOK, SameQueues, EntriesHeld, EntriesAndRows, Number, Inserts
  <2> QED BY <2>1, <2>2, <2>3, <2>4 DEF NumbersOK
<1>4. CASE ~CanRead(p)
  <2>1. Dies
    BY <1>1, <1>4 DEF PutInQueue
  <2> QED BY <1>3, <2>1 DEF Dies, SameQueues, Players
<1>5. CASE CanRead(p)
  <2>1. PICK accepted \in Verdicts(o, Status(p)) :
          sf' = [sf EXCEPT ![p] = IF accepted
                                  THEN [status |-> Charge(Status(p), o), queue |-> Append(@.queue, o)]
                                  ELSE [status |-> Status(p), queue |-> @.queue]]
    BY <1>1, <1>5 DEF PutInQueue
  <2>2. UNCHANGED << p_id, orderbook, unflushed, leaving, back >>
    BY <1>1, <1>5 DEF PutInQueue
  <2>3. Players' = Players /\ \A q \in Players : q # p => sf'[q].queue = sf[q].queue
    BY <2>1 DEF Players
  <2>4. CASE accepted
    <3>1. sf'[p].queue = Append(sf[p].queue, o)
      BY <2>1, <2>4 DEF Players
    <3>2. o.type # "REMOVE"
      BY <2>4 DEF Verdicts
    <3> QED BY <1>1, <1>2, <2>2, <2>3, <3>1, <3>2, InsertQueued
  <2>5. CASE ~accepted
    <3>1. sf'[p].queue = sf[p].queue
      BY <2>1, <2>5 DEF Players
    <3> QED BY <1>3, <2>2, <2>3, <3>1 DEF SameQueues
  <2> QED BY <2>4, <2>5
<1> QED BY <1>4, <1>5

LEMMA RemoveOrderNumbers ==
  ASSUME TypeOK, NumbersOK, NEW p \in Players, NEW id \in Ids, RemoveOrder(p, id)
  PROVE  NumbersOK'
<1>1. CASE Dies
  BY <1>1, DiesNumbers DEF RemoveOrder
<1>2. CASE ~Dies
  <2>1. PICK o \in orderbook :
          /\ o.id = id /\ o.player = p
          /\ sf' = [sf EXCEPT ![p] = [status |-> Refund(Status(p), o),
                                      queue |-> Append(@.queue, Removal(p, id))]]
          /\ UNCHANGED << playerinfo, orderbook, unflushed, leaving, back, up >>
    BY <1>2 DEF RemoveOrder
  <2>2. /\ Players' = Players /\ \A q \in Players : q # p => sf'[q].queue = sf[q].queue
        /\ sf'[p].queue = Append(sf[p].queue, Removal(p, o.id))
    BY <2>1 DEF Players
  <2>3. leaving = None /\ UNCHANGED << p_id, o_id >>
    BY DEF RemoveOrder, Idle
  <2> QED BY <2>1, <2>2, <2>3, RemovalQueued
<1> QED BY <1>1, <1>2

LEMMA AccStatusNumbers ==
  ASSUME TypeOK, NumbersOK, NEW p \in Players, AccStatus(p)
  PROVE  NumbersOK'
<1>1. CASE Dies
  BY <1>1, DiesNumbers DEF AccStatus
<1>2. CASE ~Dies
  <2>1. sf' = [sf EXCEPT ![p].status = Status(p)]
    BY <1>2 DEF AccStatus
  <2>2. SameQueues
    BY <2>1 DEF SameQueues, Players, TypeOK, Storefronts
  <2> QED BY <1>2, <2>2, SameNumbers DEF AccStatus, Idle
<1> QED BY <1>1, <1>2

LEMMA FlushOrderNumbers ==
  ASSUME TypeOK, NumbersOK, NEW p \in unflushed, FlushOrder(p)
  PROVE  NumbersOK'
<1>1. CASE Dies
  BY <1>1, DiesNumbers DEF FlushOrder
<1>2. CASE ~Dies
  <2>1. /\ sf' = [sf EXCEPT ![p] = [status |-> Status(p), queue |-> Tail(sf[p].queue)]]
        /\ orderbook' = IF Head(sf[p].queue).type # "REMOVE"
                        THEN orderbook \cup {Head(sf[p].queue)}
                        ELSE { row \in orderbook : row.id # Head(sf[p].queue).id }
        /\ UNCHANGED << p_id, o_id, unflushed, leaving, back >>
        /\ sf[p].queue # << >>
    BY <1>2 DEF FlushOrder
  <2>2. p \in Players /\ leaving = None /\ back = {}
    BY DEF TypeOK, NumbersOK, LeavingOK
  <2>3. /\ Players' = Players /\ \A q \in Players : q # p => sf'[q].queue = sf[q].queue
        /\ sf'[p].queue = Tail(sf[p].queue)
    BY <2>1, <2>2 DEF Players
  <2> QED BY <2>1, <2>2, <2>3, EntryFlushed
<1> QED BY <1>1, <1>2

LEMMA FlushAccountNumbers ==
  ASSUME TypeOK, NumbersOK, NEW p \in unflushed, FlushAccount(p)
  PROVE  NumbersOK'
<1>1. CASE Dies
  BY <1>1, DiesNumbers DEF FlushAccount
<1>2. CASE ~Dies
  <2>1. sf' = [sf EXCEPT ![p].status = None]
    BY <1>2 DEF FlushAccount
  <2>2. SameQueues
    BY <2>1 DEF SameQueues, Players, TypeOK, Storefronts
  <2>3. leaving = None
    BY DEF NumbersOK, LeavingOK
  <2> QED BY <1>2, <2>2, <2>3, SameNumbers DEF FlushAccount
<1> QED BY <1>1, <1>2

LEMMA DeletePlayerNumbers ==
  ASSUME TypeOK, NumbersOK, NEW p \in Players, DeletePlayer(p)
  PROVE  NumbersOK'
<1>1. p \in Ids /\ p \notin Free(p_id) /\ p # None
  BY NoneIsNothing DEF TypeOK, NumbersOK, PoolsOK, PlayerIdsUnique
<1>2. /\ Players' = Players \ {p} /\ \A q \in Players' : sf'[q] = sf[q]
      /\ leaving = None /\ back = {} /\ unflushed = {}
      /\ UNCHANGED << o_id, orderbook, unflushed >>
  BY DEF DeletePlayer, Players, Idle, NumbersOK, LeavingOK
<1>3. PoolsOK'
  <2>1. CASE p_id = << >>
    BY <1>2, <2>1 DEF DeletePlayer, NumbersOK, PoolsOK, PlayerIdsUnique
  <2>2. CASE p_id # << >>
    <3>1. p_id' = Return(p_id, p).pool
      BY <2>2 DEF DeletePlayer
    <3>2. Disjoint(p_id') /\ Free(p_id') \subseteq Free(p_id) \cup {p}
      BY <1>1, <2>2, <3>1, ReturnId DEF TypeOK, NumbersOK, PoolsOK
    <3> QED BY <1>2, <3>2 DEF NumbersOK, PoolsOK, PlayerIdsUnique
  <2> QED BY <2>1, <2>2
<1>4. EntriesDiffer' /\ RowsDiffer'
  BY <1>2 DEF NumbersOK, EntriesDiffer, RowsDiffer, Number, Inserts
<1>5. EntriesHeld' /\ EntriesAndRows'
  BY <1>2 DEF NumbersOK, EntriesHeld, EntriesAndRows, Number, Inserts
<1>6. \A o \in orderbook : o.id \notin Free(o_id)
  <2>1. \A o \in orderbook : o.player # None
    BY NoneIsNothing DEF TypeOK, Orders
  <2> QED BY <1>2, <2>1 DEF NumbersOK, RowsHeld
<1>7. \/ leaving' = None /\ back' = {}
      \/ /\ leaving' = p
         /\ \A id \in back' : \E o \in orderbook : o.player = p /\ o.id = id
  <2>1. \/ UNCHANGED << leaving, back >>
        \/ /\ leaving' = p
           /\ \E last \in OrdersOf(p) : back' = { o.id : o \in OrdersOf(p) \ {last} }
    BY DEF DeletePlayer
  <2> QED BY <2>1, <1>2 DEF OrdersOf
<1>8. RowsHeld'
  BY <1>2, <1>6 DEF RowsHeld
<1>9. LeavingOK'
  BY <1>1, <1>2, <1>6, <1>7 DEF LeavingOK
<1> QED BY <1>3, <1>4, <1>5, <1>8, <1>9 DEF NumbersOK

LEMMA ReturnOrderNumbers ==
  ASSUME TypeOK, NumbersOK, ReturnOrder
  PROVE  NumbersOK'
<1>1. CASE Dies /\ UNCHANGED o_id
  BY <1>1, DiesNumbers DEF ReturnOrder
<1>2. CASE ~(Dies /\ UNCHANGED o_id)
  <2>1. PICK id \in back :
          /\ o_id # << >> /\ o_id' = Return(o_id, id).pool
          /\ Return(o_id, id).ok => back' = back \ {id} /\ UNCHANGED leaving
          /\ UNCHANGED << p_id, sf, playerinfo, orderbook, unflushed, up >>
    BY <1>2 DEF ReturnOrder
  <2>2. id \in Ids \ Free(o_id)
    BY DEF TypeOK, NumbersOK, LeavingOK
  <2>3. /\ Disjoint(o_id') /\ Proper(o_id') /\ Free(o_id') \subseteq Free(o_id) \cup {id}
        /\ back' = back \ {id} /\ UNCHANGED leaving
    BY <2>1, <2>2, ReturnId DEF TypeOK, NumbersOK, PoolsOK
  <2>4. PICK row \in orderbook : row.player = leaving /\ row.id = id
    BY DEF NumbersOK, LeavingOK
  <2>5. leaving \notin Players /\ unflushed = {}
    BY DEF NumbersOK, LeavingOK
  <2>6. \A q \in Players : \A i \in DOMAIN sf[q].queue : Number(q, i) # id
    BY <2>4, <2>5 DEF NumbersOK, EntriesAndRows
  <2>7. \A o \in orderbook : o.id = id => o.player = leaving
    BY <2>4 DEF NumbersOK, RowsDiffer
  <2>8. SameQueues
    BY <2>1 DEF SameQueues, Players
  <2>9. PoolsOK'
    BY <2>1, <2>3, <2>8 DEF NumbersOK, PoolsOK, PlayerIdsUnique, SameQueues
  <2>10. RowsDiffer' /\ EntriesDiffer'
    BY <2>1, <2>8 DEF NumbersOK, RowsDiffer, EntriesDiffer, SameQueues, Number, Inserts
  <2>11. EntriesHeld'
    BY <2>3, <2>6, <2>8 DEF NumbersOK, EntriesHeld, SameQueues, Number
  <2>12. EntriesAndRows'
    BY <2>1, <2>8 DEF NumbersOK, EntriesAndRows, SameQueues, Number, Inserts
  <2>13. RowsHeld'
    BY <2>1, <2>3, <2>7 DEF NumbersOK, RowsHeld
  <2>14. LeavingOK'
    BY <2>1, <2>3, <2>5, <2>8 DEF NumbersOK, LeavingOK, SameQueues
  <2> QED BY <2>9, <2>10, <2>11, <2>12, <2>13, <2>14 DEF NumbersOK
<1> QED BY <1>1, <1>2

LEMMA DeleteRowsNumbers ==
  ASSUME TypeOK, NumbersOK, DeleteRows
  PROVE  NumbersOK'
<1>1. /\ orderbook' = orderbook \ OrdersOf(leaving) /\ leaving' = None /\ back' = {}
      /\ UNCHANGED << p_id, o_id, sf, unflushed >>
  BY DEF DeleteRows
<1>2. SameQueues
  BY <1>1 DEF SameQueues, Players
<1>3. PoolsOK' /\ LeavingOK'
  BY <1>1, <1>2 DEF NumbersOK, PoolsOK, PlayerIdsUnique, LeavingOK, SameQueues
<1>4. RowsDiffer' /\ EntriesDiffer'
  BY <1>1, <1>2 DEF NumbersOK, RowsDiffer, EntriesDiffer, SameQueues, Number, Inserts
<1>5. EntriesHeld' /\ EntriesAndRows'
  BY <1>1, <1>2 DEF NumbersOK, EntriesHeld, EntriesAndRows, SameQueues, Number, Inserts
<1>6. RowsHeld'
  BY <1>1 DEF NumbersOK, RowsHeld, OrdersOf
<1> QED BY <1>3, <1>4, <1>5, <1>6 DEF NumbersOK

LEMMA NumbersStep == TypeOK /\ NumbersOK /\ [Next]_vars => NumbersOK'
<1> SUFFICES ASSUME TypeOK, NumbersOK, [Next]_vars PROVE NumbersOK'
  OBVIOUS
<1>1. CASE \E money \in Money, shares \in Shares : AddPlayer(money, shares)
  BY <1>1, AddPlayerNumbers
<1>2. CASE \E p \in Players, offer \in Offers : PutInQueue(p, offer)
  BY <1>2, PutInQueueNumbers
<1>3. CASE \E p \in Players, id \in Ids : RemoveOrder(p, id)
  BY <1>3, RemoveOrderNumbers
<1>4. CASE \E p \in Players : AccStatus(p) \/ DeletePlayer(p) \/ TreeFault(p)
  <2>1. PICK p \in Players : AccStatus(p) \/ DeletePlayer(p) \/ TreeFault(p)
    BY <1>4
  <2>2. CASE TreeFault(p)
    BY <2>2, DiesNumbers DEF TreeFault
  <2> QED BY <2>1, <2>2, AccStatusNumbers, DeletePlayerNumbers
<1>5. CASE Evening
  <2>1. SameQueues /\ leaving = None
    BY <1>5 DEF Evening, Idle, SameQueues, Players
  <2> QED BY <1>5, <2>1, SameNumbers DEF Evening
<1>6. CASE \E p \in unflushed : FlushOrder(p) \/ FlushAccount(p)
  BY <1>6, FlushOrderNumbers, FlushAccountNumbers
<1>7. CASE ReturnOrder
  BY <1>7, ReturnOrderNumbers
<1>8. CASE DeleteRows
  BY <1>8, DeleteRowsNumbers
<1>9. CASE UNCHANGED vars
  <2>1. SameQueues
    BY <1>9 DEF vars, SameQueues, Players
  <2>2. leaving # None => unflushed' = {}
    BY <1>9 DEF vars, NumbersOK, LeavingOK
  <2> QED BY <1>9, <2>1, <2>2, SameNumbers DEF vars
<1> QED BY <1>1, <1>2, <1>3, <1>4, <1>5, <1>6, <1>7, <1>8, <1>9 DEF Next

LEMMA MarketInvariant == Spec => [](TypeOK /\ NumbersOK)
<1>1. Init => TypeOK /\ NumbersOK
  BY TypeInit, NumbersInit
<1>2. TypeOK /\ NumbersOK /\ [Next]_vars => (TypeOK /\ NumbersOK)'
  BY TypeStep, NumbersStep
<1> QED BY <1>1, <1>2, PTL DEF Spec

(* generatePlayerId never gives out the number of a player of the tree.        *)
THEOREM MarketPlayerIdsUnique == Spec => []PlayerIdsUnique
<1>1. NumbersOK => PlayerIdsUnique
  BY DEF NumbersOK, PoolsOK
<1> QED BY <1>1, MarketInvariant, PTL

(* generateOrderId never gives out the number of an order that is queued or in *)
(* the book, although deletePlayer gives numbers back.                         *)
THEOREM MarketOrderIdsUnique == Spec => []OrderIdsUnique
<1>1. TypeOK /\ NumbersOK => OrderIdsUnique
  <2> SUFFICES ASSUME TypeOK, NumbersOK PROVE OrderIdsUnique
    OBVIOUS
  <2>1. \A e \in Pending : /\ e[1] \in Players /\ e[2] \in DOMAIN sf[e[1]].queue
                           /\ e = << e[1], e[2] >>
    BY DEF Pending
  <2>2. \A e \in Placements : Inserts(e[1], e[2]) /\ Entry(e).id = Number(e[1], e[2]) /\ e \in Pending
    BY DEF Placements, Entry, Inserts, Number
  <2>3. ASSUME NEW e1 \in Placements, NEW e2 \in Placements, Entry(e1).id = Entry(e2).id
        PROVE  e1 = e2
    BY <2>1, <2>2, <2>3 DEF NumbersOK, EntriesDiffer
  <2>4. \A e \in Placements, o \in orderbook : Entry(e).id # o.id
    BY <2>1, <2>2 DEF NumbersOK, EntriesAndRows
  <2>5. \A e \in Placements : Entry(e).id \notin Free(o_id)
    BY <2>1, <2>2 DEF NumbersOK, EntriesHeld
  <2> QED BY <2>3, <2>4, <2>5 DEF OrderIdsUnique, NumbersOK, RowsDiffer, RowsHeld
<1> QED BY <1>1, MarketInvariant, PTL

(* No player's flush deletes the row of another player, although the DELETE    *)
(* names only the number.                                                      *)
THEOREM MarketOnlyOwnerRemoves == Spec => OnlyOwnerRemoves
<1> DEFINE A == \A o \in orderbook : o \notin orderbook' =>
                  o.player = leaving \/ BeingFlushed(o.player)
<1>1. TypeOK /\ NumbersOK /\ [Next]_vars => [A]_vars
  <2> SUFFICES ASSUME TypeOK, NumbersOK, Next, NEW o \in orderbook, o \notin orderbook'
               PROVE  o.player = leaving \/ BeingFlushed(o.player)
    OBVIOUS
  <2>1. CASE DeleteRows
    BY <2>1 DEF DeleteRows, OrdersOf
  <2>2. CASE \E p \in unflushed : FlushOrder(p)
    <3>1. PICK p \in unflushed : FlushOrder(p)
      BY <2>2
    <3>2. /\ Head(sf[p].queue).type = "REMOVE" /\ Head(sf[p].queue).id = o.id
          /\ BeingFlushed(p) /\ sf[p].queue # << >>
      BY <3>1 DEF FlushOrder, Dies
    <3>3. p \in Players /\ sf[p].queue \in Seq(Orders)
      BY DEF TypeOK, Storefronts
    <3>4. 1 \in DOMAIN sf[p].queue /\ Number(p, 1) = o.id
      BY <3>2, <3>3 DEF Number
    <3>5. o.player = p
      BY <3>3, <3>4 DEF NumbersOK, EntriesAndRows
    <3> QED BY <3>2, <3>5
  <2>3. CASE ~DeleteRows /\ ~\E p \in unflushed : FlushOrder(p)
    BY <2>3 DEF Next, AddPlayer, PutInQueue, RemoveOrder, AccStatus, DeletePlayer, TreeFault,
         Evening, FlushAccount, ReturnOrder, Dies
  <2> QED BY <2>1, <2>2, <2>3
<1>2. (Spec => [](TypeOK /\ NumbersOK)) => (Spec => [][A]_vars)
  BY <1>1, PTL DEF Spec
<1> QED BY <1>2, MarketInvariant DEF OnlyOwnerRemoves

-------------------------------------------------------------------------------
(* What a player owns is kept.  Costs and Stocks are sums over sets of orders  *)
(* (CostsRule); each action either leaves a player's account and live orders   *)
(* as they are (Unmoved) or takes from the one what it gives to the other.     *)
LEMMA CostSum ==
  ASSUME NEW S, IsFiniteSet(S)
  PROVE  Costs(S) = SumOver([o \in S |-> Cost(o)], S)
<1> DEFINE f == [o \in S |-> Cost(o)]
           Rule(g) == [s \in SUBSET S |->
                         IF s = {} THEN 0
                         ELSE Cost(CHOOSE x \in s : TRUE) + g[s \ {CHOOSE x \in s : TRUE}]]
           G == CHOOSE g : g = Rule(g)
<1>1. Costs(S) = G[S]
  BY DEF Costs, MapThenSumSet, MapThenFoldSet
<1>2. ASSUME NEW g PROVE Rule(g) = Adding(S, f, g)
  <2>1. \A s \in SUBSET S : s # {} => f[CHOOSE x \in s : TRUE] = Cost(CHOOSE x \in s : TRUE)
    OBVIOUS
  <2> HIDE DEF f
  <2> QED BY <2>1 DEF Adding, AnyOf
<1>3. PICK g : g = Adding(S, f, g)
  BY AddingExists
<1>4. g = Rule(g)
  BY <1>2, <1>3
<1>5. G = Rule(G)
  BY <1>4, Zenon
<1>6. G = Adding(S, f, G)
  BY <1>2, <1>5
<1> HIDE DEF G, f, Rule
<1>7. AddsUp(G, S, f)
  BY <1>6, AddingAdds
<1>8. SumOver(f, S) = G[S]
  BY <1>7, <1>3, SameSum
<1> QED BY <1>1, <1>8 DEF f

LEMMA StockSum ==
  ASSUME NEW S, IsFiniteSet(S)
  PROVE  Stocks(S) = SumOver([o \in S |-> Stock(o)], S)
<1> DEFINE f == [o \in S |-> Stock(o)]
           Rule(g) == [s \in SUBSET S |->
                         IF s = {} THEN 0
                         ELSE Stock(CHOOSE x \in s : TRUE) + g[s \ {CHOOSE x \in s : TRUE}]]
           G == CHOOSE g : g = Rule(g)
<1>1. Stocks(S) = G[S]
  BY DEF Stocks, MapThenSumSet, MapThenFoldSet
<1>2. ASSUME NEW g PROVE Rule(g) = Adding(S, f, g)
  <2>1. \A s \in SUBSET S : s # {} => f[CHOOSE x \in s : TRUE] = Stock(CHOOSE x \in s : TRUE)
    OBVIOUS
  <2> HIDE DEF f
  <2> QED BY <2>1 DEF Adding, AnyOf
<1>3. PICK g : g = Adding(S, f, g)
  BY AddingExists
<1>4. g = Rule(g)
  BY <1>2, <1>3
<1>5. G = Rule(G)
  BY <1>4, Zenon
<1>6. G = Adding(S, f, G)
  BY <1>2, <1>5
<1> HIDE DEF G, f, Rule
<1>7. AddsUp(G, S, f)
  BY <1>6, AddingAdds
<1>8. SumOver(f, S) = G[S]
  BY <1>7, <1>3, SameSum
<1> QED BY <1>1, <1>8 DEF f

(* The sums of a finite set of orders. *)
LEMMA CostsRule ==
  ASSUME NEW S \in SUBSET Orders, IsFiniteSet(S)
  PROVE  /\ Costs(S) \in Nat /\ Stocks(S) \in Nat
         /\ S = {} => Costs(S) = 0 /\ Stocks(S) = 0
         /\ \A o \in S : Costs(S) = Cost(o) + Costs(S \ {o}) /\ Stocks(S) = Stock(o) + Stocks(S \ {o})
<1> DEFINE c(T) == [o \in T |-> Cost(o)]
           k(T) == [o \in T |-> Stock(o)]
<1>1. \A o \in S : Cost(o) \in Nat /\ Stock(o) \in Nat
  <2> SUFFICES ASSUME NEW o \in S PROVE Cost(o) \in Nat /\ Stock(o) \in Nat
    OBVIOUS
  <2>1. o.amount \in Words /\ o.price \in Words
    BY DEF Orders
  <2> QED BY <2>1, CostType, WordsAreNumbers
<1>2. Costs(S) = SumOver(c(S), S) /\ Stocks(S) = SumOver(k(S), S)
  BY CostSum, StockSum
<1>3. \A o \in S : /\ Costs(S \ {o}) = SumOver(c(S \ {o}), S \ {o})
                   /\ Stocks(S \ {o}) = SumOver(k(S \ {o}), S \ {o})
  <2> SUFFICES ASSUME NEW o \in S
               PROVE  /\ Costs(S \ {o}) = SumOver(c(S \ {o}), S \ {o})
                      /\ Stocks(S \ {o}) = SumOver(k(S \ {o}), S \ {o})
    OBVIOUS
  <2>1. IsFiniteSet(S \ {o})
    BY FS_RemoveElement
  <2> QED BY <2>1, CostSum, StockSum
<1>4. /\ \A o \in S : c(S)[o] \in Nat /\ c(S)[o] = Cost(o) /\ \A y \in S \ {o} : c(S \ {o})[y] = c(S)[y]
      /\ \A o \in S : k(S)[o] \in Nat /\ k(S)[o] = Stock(o) /\ \A y \in S \ {o} : k(S \ {o})[y] = k(S)[y]
  BY <1>1
<1> HIDE DEF c, k
<1>5. /\ SumOver(c(S), S) \in Nat
      /\ S = {} => SumOver(c(S), S) = 0
      /\ \A o \in S : SumOver(c(S), S) = Cost(o) + SumOver(c(S \ {o}), S \ {o})
  <2> DEFINE f == c(S)
  <2>1. \A x \in S : f[x] \in Nat
    BY <1>4
  <2> HIDE DEF f
  <2>2. /\ SumOver(f, S) \in Nat
        /\ S = {} => SumOver(f, S) = 0
        /\ \A x \in S : \A e : (\A y \in S \ {x} : e[y] = f[y]) => SumOver(f, S) = f[x] + SumOver(e, S \ {x})
    BY <2>1, SumRule, Zenon
  <2>3. \A o \in S : SumOver(f, S) = f[o] + SumOver(c(S \ {o}), S \ {o})
    BY <1>4, <2>2 DEF f
  <2> QED BY <1>4, <2>2, <2>3 DEF f
<1>6. /\ SumOver(k(S), S) \in Nat
      /\ S = {} => SumOver(k(S), S) = 0
      /\ \A o \in S : SumOver(k(S), S) = Stock(o) + SumOver(k(S \ {o}), S \ {o})
  <2> DEFINE f == k(S)
  <2>1. \A x \in S : f[x] \in Nat
    BY <1>4
  <2> HIDE DEF f
  <2>2. /\ SumOver(f, S) \in Nat
        /\ S = {} => SumOver(f, S) = 0
        /\ \A x \in S : \A e : (\A y \in S \ {x} : e[y] = f[y]) => SumOver(f, S) = f[x] + SumOver(e, S \ {x})
    BY <2>1, SumRule, Zenon
  <2>3. \A o \in S : SumOver(f, S) = f[o] + SumOver(k(S \ {o}), S \ {o})
    BY <1>4, <2>2 DEF f
  <2> QED BY <1>4, <2>2, <2>3 DEF f
<1> QED BY <1>2, <1>3, <1>5, <1>6

-------------------------------------------------------------------------------
(* What an account and a set of live orders come to. *)
WorthOf(account, orders) == [money  |-> account.money + Costs(orders),
                             shares |-> account.shares + Stocks(orders)]

LEMMA WorthIs == \A p : Worth(p) = WorthOf(Status(p), Committed(p))
BY DEF Worth, WorthOf

LEMMA ChargedWorth ==
  ASSUME NEW S \in SUBSET Orders, IsFiniteSet(S), NEW o \in Orders, o \notin S, NEW account \in Accounts
  PROVE  WorthOf(Charge(account, o), S \cup {o}) = WorthOf(account, S)
<1> DEFINE T == S \cup {o}
<1>1. T \in SUBSET Orders /\ IsFiniteSet(T) /\ o \in T /\ T \ {o} = S
  BY FS_AddElement
<1> HIDE DEF T
<1>2. Costs(T) = Cost(o) + Costs(S) /\ Stocks(T) = Stock(o) + Stocks(S)
  BY <1>1, CostsRule
<1>3. Costs(S) \in Nat /\ Stocks(S) \in Nat
  BY CostsRule
<1>4. o.amount \in Words /\ o.price \in Words /\ account.money \in Words /\ account.shares \in Words
  BY DEF Orders, Accounts
<1>5. Cost(o) \in Nat /\ Stock(o) \in Nat /\ account.money \in Nat /\ account.shares \in Nat
  BY <1>4, CostType, WordsAreNumbers
<1>6. /\ (account.money - Cost(o)) + Costs(T) = account.money + Costs(S)
      /\ (account.shares - Stock(o)) + Stocks(T) = account.shares + Stocks(S)
  BY <1>2, <1>3, <1>5
<1> QED BY <1>6 DEF WorthOf, Charge, T

LEMMA RefundedWorth ==
  ASSUME NEW S \in SUBSET Orders, IsFiniteSet(S), NEW o \in S, NEW account \in Accounts,
         WorthOf(account, S).money < Word, WorthOf(account, S).shares < Word
  PROVE  WorthOf(Refund(account, o), S \ {o}) = WorthOf(account, S)
<1> DEFINE T == S \ {o}
<1>1. T \in SUBSET Orders /\ IsFiniteSet(T)
  BY FS_RemoveElement
<1>2. Costs(S) = Cost(o) + Costs(T) /\ Stocks(S) = Stock(o) + Stocks(T)
  BY CostsRule
<1> HIDE DEF T
<1>3. Costs(T) \in Nat /\ Stocks(T) \in Nat
  BY <1>1, CostsRule
<1>4. o.amount \in Words /\ o.price \in Words /\ account.money \in Words /\ account.shares \in Words
  BY DEF Orders, Accounts
<1>5. Cost(o) \in Nat /\ Stock(o) \in Nat /\ account.money \in Nat /\ account.shares \in Nat
  BY <1>4, CostType, WordsAreNumbers
<1>6. account.money + Costs(S) < Word /\ account.shares + Stocks(S) < Word /\ Word \in Nat
  BY WordsAreNumbers DEF WorthOf
<1>7. ASSUME NEW n \in Nat, NEW m \in Nat, n < m PROVE n % m = n
  BY <1>7
<1>8. /\ account.money + Cost(o) \in Nat /\ account.money + Cost(o) < Word
      /\ account.shares + Stock(o) \in Nat /\ account.shares + Stock(o) < Word
  BY <1>2, <1>3, <1>5, <1>6
<1>9. /\ (account.money + Cost(o)) % Word = account.money + Cost(o)
      /\ (account.shares + Stock(o)) % Word = account.shares + Stock(o)
  BY <1>6, <1>7, <1>8
<1>10. /\ (account.money + Cost(o)) + Costs(T) = account.money + Costs(S)
       /\ (account.shares + Stock(o)) + Stocks(T) = account.shares + Stocks(S)
  BY <1>2, <1>3, <1>5
<1> QED BY <1>9, <1>10 DEF WorthOf, Refund, T

-------------------------------------------------------------------------------
(* The entries of a queue, and the orders that they and the book keep alive. *)
Entries(q) == { q[i] : i \in DOMAIN q }
Removed(E) == { o.id : o \in { q \in E : q.type = "REMOVE" } }
Live(E, book, p) == { o \in book : o.player = p /\ o.id \notin Removed(E) }
                      \cup { o \in E : o.type # "REMOVE" }

LEMMA CommittedIs ==
  \A p : Removing(p) = Removed(Entries(sf[p].queue)) /\ Committed(p) = Live(Entries(sf[p].queue), orderbook, p)
BY DEF Committed, Removing, Queued, Live, Removed, Entries

LEMMA EntriesRule ==
  ASSUME NEW q \in Seq(Orders)
  PROVE  /\ Entries(q) \in SUBSET Orders /\ IsFiniteSet(Entries(q))
         /\ \A o \in Orders : Entries(Append(q, o)) = Entries(q) \cup {o}
         /\ q # << >> => /\ Entries(q) = {Head(q)} \cup Entries(Tail(q))
                         /\ Head(q) \in Orders /\ Tail(q) \in Seq(Orders)
<1>1. Entries(q) \in SUBSET Orders
  BY DEF Entries
<1>2. IsFiniteSet(Entries(q))
  <2> DEFINE f == [i \in 1 .. Len(q) |-> q[i]]
  <2>1. IsFiniteSet(1 .. Len(q))
    BY FS_Interval
  <2>2. DOMAIN q = 1 .. Len(q)
    OBVIOUS
  <2>3. f \in Surjection(1 .. Len(q), Entries(q))
    BY <2>2 DEF Surjection, Entries
  <2> HIDE DEF f
  <2> QED BY <2>1, <2>3, FS_Surjection
<1>3. ASSUME NEW o \in Orders PROVE Entries(Append(q, o)) = Entries(q) \cup {o}
  <2> DEFINE a == Append(q, o)
  <2>1. /\ DOMAIN a = 1 .. Len(q) + 1 /\ DOMAIN q = 1 .. Len(q) /\ Len(q) \in Nat
        /\ \A i \in 1 .. Len(q) : a[i] = q[i]
        /\ a[Len(q) + 1] = o
    OBVIOUS
  <2> HIDE DEF a
  <2>2. Entries(a) \subseteq Entries(q) \cup {o}
    BY <2>1 DEF Entries
  <2>3. Entries(q) \cup {o} \subseteq Entries(a)
    BY <2>1 DEF Entries
  <2> QED BY <2>2, <2>3 DEF a
<1>4. ASSUME q # << >>
      PROVE  /\ Entries(q) = {Head(q)} \cup Entries(Tail(q))
             /\ Head(q) \in Orders /\ Tail(q) \in Seq(Orders)
  <2> DEFINE t == Tail(q)
  <2>1. /\ DOMAIN t = 1 .. Len(q) - 1 /\ DOMAIN q = 1 .. Len(q) /\ Len(q) \in Nat /\ Len(q) >= 1
        /\ \A i \in 1 .. Len(q) - 1 : t[i] = q[i + 1]
        /\ Head(q) = q[1]
    BY <1>4
  <2> HIDE DEF t
  <2>2. Entries(q) \subseteq {Head(q)} \cup Entries(t)
    <3> SUFFICES ASSUME NEW i \in 1 .. Len(q), i # 1 PROVE \E j \in DOMAIN t : q[i] = t[j]
      BY <2>1 DEF Entries
    <3>1. i - 1 \in DOMAIN t /\ t[i - 1] = q[i]
      BY <2>1
    <3> QED BY <3>1
  <2>3. {Head(q)} \cup Entries(t) \subseteq Entries(q)
    BY <2>1 DEF Entries
  <2> QED BY <1>4, <2>2, <2>3 DEF t
<1> QED BY <1>1, <1>2, <1>3, <1>4

LEMMA LiveType ==
  ASSUME NEW E \in SUBSET Orders, IsFiniteSet(E), NEW book \in SUBSET Orders, IsFiniteSet(book), NEW p
  PROVE  Live(E, book, p) \in SUBSET Orders /\ IsFiniteSet(Live(E, book, p))
<1>1. Live(E, book, p) \subseteq E \cup book
  BY DEF Live
<1>2. IsFiniteSet(E \cup book)
  BY FS_Union
<1> QED BY <1>1, <1>2, FS_Subset

LEMMA LivePlaced ==
  ASSUME NEW E, NEW book, NEW p, NEW o, o.type # "REMOVE"
  PROVE  Live(E \cup {o}, book, p) = Live(E, book, p) \cup {o}
<1>1. Removed(E \cup {o}) = Removed(E)
  BY DEF Removed
<1> QED BY <1>1 DEF Live

LEMMA LiveRemoved ==
  ASSUME NEW E, NEW book, NEW p, NEW r, r.type = "REMOVE", NEW o \in book, o.player = p, o.id = r.id,
         \A row \in book : row.id = r.id => row = o,
         \A e \in E : e.id = r.id => e.type = "REMOVE"
  PROVE  Live(E \cup {r}, book, p) = Live(E, book, p) \ {o}
<1>1. Removed(E \cup {r}) = Removed(E) \cup {r.id}
  BY DEF Removed
<1> QED BY <1>1 DEF Live

(* Writing out the entry h, then those of E follow. *)
LEMMA LiveInserted ==
  ASSUME NEW E, NEW book, NEW p, NEW h, h.type # "REMOVE", h.player = p, h.id \notin Removed(E)
  PROVE  Live(E, book \cup {h}, p) = Live({h} \cup E, book, p)
<1>1. Removed({h} \cup E) = Removed(E)
  BY DEF Removed
<1> QED BY <1>1 DEF Live

LEMMA LiveDeleted ==
  ASSUME NEW E, NEW book, NEW p, NEW h, h.type = "REMOVE"
  PROVE  Live(E, {row \in book : row.id # h.id}, p) = Live({h} \cup E, book, p)
<1>1. Removed({h} \cup E) = Removed(E) \cup {h.id}
  BY DEF Removed
<1> QED BY <1>1 DEF Live

-------------------------------------------------------------------------------
(* The invariant about accounts: an entry of a queue is its player's, and a    *)
(* row that of a player of the tree or of the one who is being deleted.        *)
EntryOwners == \A p \in Players : \A i \in DOMAIN sf[p].queue : sf[p].queue[i].player = p

RowOwners == up => \A o \in orderbook : o.player \in Players \/ o.player = leaving

OwnersOK == EntryOwners /\ RowOwners /\ IsFiniteSet(orderbook)

LEMMA SameOwners ==
  ASSUME OwnersOK, SameQueues, up' => up /\ leaving' = leaving, orderbook' = orderbook
  PROVE  OwnersOK'
BY DEF OwnersOK, EntryOwners, RowOwners, SameQueues

LEMMA DiesOwners == ASSUME OwnersOK, Dies PROVE OwnersOK'
<1>1. SameQueues
  BY DEF Dies, SameQueues, Players
<1> QED BY <1>1, SameOwners DEF Dies

LEMMA AddPlayerOwners ==
  ASSUME OwnersOK, NEW money \in Money, NEW shares \in Shares, AddPlayer(money, shares)
  PROVE  OwnersOK'
<1> DEFINE got == Generate(p_id, PlayerSlack)
<1>1. UNCHANGED << orderbook, leaving, up >>
  BY DEF AddPlayer
<1>2. CASE ~got.ok
  <2>1. SameQueues
    BY <1>2 DEF AddPlayer, SameQueues, Players
  <2> QED BY <1>1, <2>1, SameOwners
<1>3. CASE got.ok
  <2>1. Players' = Players \cup {got.id}
    BY <1>3 DEF AddPlayer, Players
  <2>2. \A p \in Players' : sf'[p].queue = IF p = got.id THEN << >> ELSE sf[p].queue
    BY <1>3, <2>1 DEF AddPlayer
  <2>3. EntryOwners'
    BY <2>1, <2>2 DEF OwnersOK, EntryOwners
  <2> QED BY <1>1, <2>1, <2>3 DEF OwnersOK, RowOwners
<1> QED BY <1>2, <1>3

LEMMA AppendedOwner ==
  ASSUME TypeOK, EntryOwners, NEW p \in Players, NEW o, o.player = p, Players' = Players,
         \A q \in Players : q # p => sf'[q].queue = sf[q].queue,
         sf'[p].queue = Append(sf[p].queue, o)
  PROVE  EntryOwners'
<1>1. \A q \in Players : \A i \in DOMAIN sf'[q].queue :
        \/ i \in DOMAIN sf[q].queue /\ sf'[q].queue[i] = sf[q].queue[i]
        \/ q = p /\ i = Len(sf[p].queue) + 1 /\ sf'[q].queue[i] = o
  BY Appended
<1> SUFFICES ASSUME NEW q \in Players, NEW i \in DOMAIN sf'[q].queue
             PROVE  sf'[q].queue[i].player = q
  BY DEF EntryOwners
<1> QED BY <1>1 DEF EntryOwners

LEMMA PutInQueueOwners ==
  ASSUME TypeOK, OwnersOK, NEW p \in Players, NEW offer \in Offers, PutInQueue(p, offer)
  PROVE  OwnersOK'
<1> DEFINE got == Generate(o_id, OrderSlack)
           o == [id |-> got.id, player |-> p, type |-> offer.type,
                 amount |-> offer.amount, price |-> offer.price]
<1>1. CASE Dies
  BY <1>1, DiesOwners
<1>2. CASE UNCHANGED << sf, orderbook, leaving, up >>
  <2>1. SameQueues
    BY <1>2 DEF SameQueues, Players
  <2> QED BY <1>2, <2>1, SameOwners
<1>3. CASE ~Dies /\ ~UNCHANGED << sf, orderbook, leaving, up >>
  <2>1. PICK accepted \in Verdicts(o, Status(p)) :
          sf' = [sf EXCEPT ![p] = IF accepted
                                  THEN [status |-> Charge(Status(p), o), queue |-> Append(@.queue, o)]
                                  ELSE [status |-> Status(p), queue |-> @.queue]]
    BY <1>3 DEF PutInQueue
  <2>2. UNCHANGED << orderbook, leaving, up >>
    BY <1>3 DEF PutInQueue
  <2>3. Players' = Players /\ \A q \in Players : q # p => sf'[q].queue = sf[q].queue
    BY <2>1 DEF Players
  <2>4. sf'[p].queue \in {Append(sf[p].queue, o), sf[p].queue}
    BY <2>1 DEF Players
  <2>5. CASE sf'[p].queue = Append(sf[p].queue, o)
    <3>1. EntryOwners'
      <4>1. o.player = p
        OBVIOUS
      <4> HIDE DEF o
      <4> QED BY <2>3, <2>5, <4>1, AppendedOwner DEF OwnersOK
    <3> QED BY <2>2, <2>3, <3>1 DEF OwnersOK, RowOwners
  <2>6. CASE sf'[p].queue = sf[p].queue
    <3>1. SameQueues
      BY <2>3, <2>6 DEF SameQueues
    <3> QED BY <2>2, <3>1, SameOwners
  <2> QED BY <2>4, <2>5, <2>6
<1> QED BY <1>1, <1>2, <1>3

LEMMA RemoveOrderOwners ==
  ASSUME TypeOK, OwnersOK, NEW p \in Players, NEW id \in Ids, RemoveOrder(p, id)
  PROVE  OwnersOK'
<1>1. CASE Dies
  BY <1>1, DiesOwners
<1>2. CASE ~Dies
  <2>1. PICK o \in orderbook :
          /\ sf' = [sf EXCEPT ![p] = [status |-> Refund(Status(p), o),
                                      queue |-> Append(@.queue, Removal(p, id))]]
          /\ UNCHANGED << playerinfo, orderbook, unflushed, leaving, back, up >>
    BY <1>2 DEF RemoveOrder
  <2>2. /\ Players' = Players /\ \A q \in Players : q # p => sf'[q].queue = sf[q].queue
        /\ sf'[p].queue = Append(sf[p].queue, Removal(p, id))
    BY <2>1 DEF Players
  <2>3. Removal(p, id).player = p
    BY DEF Removal
  <2>4. EntryOwners'
    BY <2>2, <2>3, AppendedOwner DEF OwnersOK
  <2> QED BY <2>1, <2>2, <2>4 DEF OwnersOK, RowOwners
<1> QED BY <1>1, <1>2

LEMMA FlushOrderOwners ==
  ASSUME TypeOK, OwnersOK, NEW p \in unflushed, FlushOrder(p)
  PROVE  OwnersOK'
<1> DEFINE o == Head(sf[p].queue)
<1>1. CASE Dies
  BY <1>1, DiesOwners
<1>2. CASE ~Dies
  <2>1. /\ sf' = [sf EXCEPT ![p] = [status |-> Status(p), queue |-> Tail(sf[p].queue)]]
        /\ orderbook' = IF o.type # "REMOVE" THEN orderbook \cup {o}
                        ELSE { row \in orderbook : row.id # o.id }
        /\ UNCHANGED << leaving, up >>
        /\ sf[p].queue # << >>
    BY <1>2 DEF FlushOrder
  <2>2. p \in Players /\ sf[p].queue \in Seq(Orders)
    BY DEF TypeOK, Storefronts
  <2>3. /\ Players' = Players /\ \A q \in Players : q # p => sf'[q].queue = sf[q].queue
        /\ sf'[p].queue = Tail(sf[p].queue)
    BY <2>1, <2>2 DEF Players
  <2>4. /\ 1 \in DOMAIN sf[p].queue /\ o = sf[p].queue[1]
        /\ \A i \in DOMAIN Tail(sf[p].queue) :
             i + 1 \in DOMAIN sf[p].queue /\ Tail(sf[p].queue)[i] = sf[p].queue[i + 1]
    BY <2>1, <2>2
  <2>5. EntryOwners'
    <3> SUFFICES ASSUME NEW q \in Players, NEW i \in DOMAIN sf'[q].queue
                 PROVE  sf'[q].queue[i].player = q
      BY <2>3 DEF EntryOwners
    <3>1. CASE q = p
      <4>1. i + 1 \in DOMAIN sf[p].queue /\ sf'[q].queue[i] = sf[p].queue[i + 1]
        BY <2>3, <2>4, <3>1
      <4> QED BY <2>2, <3>1, <4>1 DEF OwnersOK, EntryOwners
    <3>2. CASE q # p
      BY <2>3, <3>2 DEF OwnersOK, EntryOwners
    <3> QED BY <3>1, <3>2
  <2>6. o.player = p
    BY <2>2, <2>4 DEF OwnersOK, EntryOwners
  <2> HIDE DEF o
  <2>7. IsFiniteSet(orderbook')
    <3>1. orderbook' \subseteq orderbook \cup {o}
      BY <2>1
    <3>2. IsFiniteSet(orderbook \cup {o})
      BY FS_AddElement DEF OwnersOK
    <3> QED BY <3>1, <3>2, FS_Subset
  <2> QED BY <2>1, <2>2, <2>3, <2>5, <2>6, <2>7 DEF OwnersOK, RowOwners
<1> QED BY <1>1, <1>2

LEMMA DeletePlayerOwners ==
  ASSUME TypeOK, NumbersOK, OwnersOK, NEW p \in Players, DeletePlayer(p)
  PROVE  OwnersOK'
<1>1. /\ Players' = Players \ {p} /\ \A q \in Players' : sf'[q] = sf[q]
      /\ up /\ leaving = None /\ orderbook' = orderbook
  BY DEF DeletePlayer, Players, Idle
<1>2. p \in Ids /\ p \notin Free(p_id)
  BY DEF TypeOK, NumbersOK, PoolsOK, PlayerIdsUnique
<1>3. up' => leaving' = p
  <2>1. p_id # << >> => Return(p_id, p).ok
    BY <1>2, ReturnId DEF TypeOK, NumbersOK, PoolsOK
  <2> QED BY <2>1 DEF DeletePlayer
<1>4. \A o \in orderbook : o.player # None
  BY NoneIsNothing DEF TypeOK, Orders
<1>5. RowOwners'
  BY <1>1, <1>3, <1>4 DEF OwnersOK, RowOwners
<1> QED BY <1>1, <1>5 DEF OwnersOK, EntryOwners

LEMMA ReturnOrderOwners ==
  ASSUME TypeOK, NumbersOK, OwnersOK, ReturnOrder
  PROVE  OwnersOK'
<1>1. PICK id \in back :
        \/ Dies
        \/ /\ o_id # << >>
           /\ Return(o_id, id).ok => UNCHANGED leaving
           /\ UNCHANGED << sf, playerinfo, orderbook, unflushed, up >>
  BY DEF ReturnOrder
<1>2. id \in Ids \ Free(o_id)
  BY DEF TypeOK, NumbersOK, LeavingOK
<1>3. CASE Dies
  BY <1>3, DiesOwners
<1>4. CASE ~Dies
  <2>1. Return(o_id, id).ok
    BY <1>1, <1>2, <1>4, ReturnId DEF TypeOK, NumbersOK, PoolsOK
  <2>2. SameQueues
    BY <1>1, <1>4 DEF SameQueues, Players
  <2> QED BY <1>1, <1>4, <2>1, <2>2, SameOwners
<1> QED BY <1>3, <1>4

LEMMA DeleteRowsOwners ==
  ASSUME OwnersOK, DeleteRows
  PROVE  OwnersOK'
<1>1. /\ orderbook' = orderbook \ OrdersOf(leaving) /\ leaving' = None
      /\ UNCHANGED << sf, up >>
  BY DEF DeleteRows
<1>2. IsFiniteSet(orderbook')
  BY <1>1, FS_Subset DEF OwnersOK
<1>3. RowOwners'
  BY <1>1 DEF OwnersOK, RowOwners, OrdersOf, Players
<1> QED BY <1>1, <1>2, <1>3 DEF OwnersOK, EntryOwners, Players

LEMMA OwnersInit == Init => OwnersOK
<1>1. IsFiniteSet({})
  BY FS_EmptySet
<1> QED BY <1>1 DEF Init, OwnersOK, EntryOwners, RowOwners, Players

LEMMA OwnersStep == TypeOK /\ NumbersOK /\ OwnersOK /\ [Next]_vars => OwnersOK'
<1> SUFFICES ASSUME TypeOK, NumbersOK, OwnersOK, [Next]_vars PROVE OwnersOK'
  OBVIOUS
<1>1. CASE \E money \in Money, shares \in Shares : AddPlayer(money, shares)
  BY <1>1, AddPlayerOwners
<1>2. CASE \E p \in Players, offer \in Offers : PutInQueue(p, offer)
  BY <1>2, PutInQueueOwners
<1>3. CASE \E p \in Players, id \in Ids : RemoveOrder(p, id)
  BY <1>3, RemoveOrderOwners
<1>4. CASE \E p \in Players : AccStatus(p) \/ DeletePlayer(p) \/ TreeFault(p)
  <2>1. PICK p \in Players : AccStatus(p) \/ DeletePlayer(p) \/ TreeFault(p)
    BY <1>4
  <2>2. CASE Dies
    BY <2>2, DiesOwners
  <2>3. CASE AccStatus(p) /\ ~Dies
    <3>1. SameQueues /\ UNCHANGED << up, leaving, orderbook >>
      BY <2>3 DEF AccStatus, SameQueues, Players, TypeOK, Storefronts
    <3> QED BY <3>1, SameOwners
  <2>4. CASE DeletePlayer(p)
    BY <2>4, DeletePlayerOwners
  <2> QED BY <2>1, <2>2, <2>3, <2>4 DEF TreeFault
<1>5. CASE Evening
  <2>1. SameQueues /\ UNCHANGED << up, leaving, orderbook >>
    BY <1>5 DEF Evening, SameQueues, Players
  <2> QED BY <2>1, SameOwners
<1>6. CASE \E p \in unflushed : FlushOrder(p) \/ FlushAccount(p)
  <2>1. PICK p \in unflushed : FlushOrder(p) \/ FlushAccount(p)
    BY <1>6
  <2>2. CASE Dies
    BY <2>2, DiesOwners
  <2>3. CASE FlushAccount(p) /\ ~Dies
    <3>1. SameQueues /\ UNCHANGED << up, leaving, orderbook >>
      BY <2>3 DEF FlushAccount, SameQueues, Players, TypeOK, Storefronts
    <3> QED BY <3>1, SameOwners
  <2> QED BY <2>1, <2>2, <2>3, FlushOrderOwners
<1>7. CASE ReturnOrder
  BY <1>7, ReturnOrderOwners
<1>8. CASE DeleteRows
  BY <1>8, DeleteRowsOwners
<1>9. CASE UNCHANGED vars
  <2>1. SameQueues /\ UNCHANGED << up, leaving, orderbook >>
    BY <1>9 DEF vars, SameQueues, Players
  <2> QED BY <2>1, SameOwners
<1> QED BY <1>1, <1>2, <1>3, <1>4, <1>5, <1>6, <1>7, <1>8, <1>9 DEF Next

-------------------------------------------------------------------------------
(* A player whose account and live orders stay as they are.                    *)
Unmoved(p) == Status(p)' = Status(p) /\ Committed(p)' = Committed(p)

LEMMA UnmovedKeepsWorth == ASSUME NEW p, Unmoved(p) PROVE Worth(p)' = Worth(p)
BY DEF Unmoved, Worth

LEMMA WorthsKept ==
  ASSUME Players' \subseteq Players, \A p \in Players' : Worth(p)' = Worth(p)
  PROVE  WorthKept
<1>1. \A p \in Players \cap Players' : Worth(p)' = Worth(p)
  OBVIOUS
<1>2. Players' \ Players = {}
  OBVIOUS
<1> QED BY <1>1, <1>2 DEF WorthKept

LEMMA Untouched ==
  ASSUME NEW p, sf'[p] = sf[p], playerinfo'[p] = playerinfo[p], orderbook' = orderbook
  PROVE  Unmoved(p)
BY DEF Unmoved, Status, Committed, Removing, Queued

LEMMA DiesKeeps == ASSUME Dies PROVE WorthKept
<1>1. Players' = Players
  BY DEF Dies, Players
<1>2. \A p \in Players : Unmoved(p)
  BY Untouched DEF Dies
<1> QED BY <1>1, <1>2, UnmovedKeepsWorth, WorthsKept

(* The account is as it was once it is cached. *)
LEMMA StatusCached ==
  ASSUME NEW p, NEW account \in Accounts, sf'[p].status = account
  PROVE  Status(p)' = account
BY NoneIsNothing DEF Status

LEMMA StatusWritten ==
  ASSUME NEW p, NEW account \in Accounts, sf'[p].status = None,
         playerinfo'[p].money = account.money, playerinfo'[p].shares = account.shares
  PROVE  Status(p)' = account
<1>1. account = [money |-> account.money, shares |-> account.shares]
  BY DEF Accounts
<1> QED BY <1>1 DEF Status

LEMMA CommittedType ==
  ASSUME TypeOK, OwnersOK, NEW p \in Players
  PROVE  Committed(p) \in SUBSET Orders /\ IsFiniteSet(Committed(p))
<1>1. sf[p].queue \in Seq(Orders) /\ orderbook \in SUBSET Orders /\ IsFiniteSet(orderbook)
  BY DEF TypeOK, Storefronts, OwnersOK
<1>2. Entries(sf[p].queue) \in SUBSET Orders /\ IsFiniteSet(Entries(sf[p].queue))
  BY <1>1, EntriesRule
<1> QED BY <1>1, <1>2, LiveType, CommittedIs

LEMMA CommittedNext ==
  ASSUME NEW p
  PROVE  Committed(p)' = Live(Entries(sf'[p].queue), orderbook', p)
BY DEF Committed, Removing, Queued, Live, Removed, Entries

LEMMA AddPlayerKeeps ==
  ASSUME TypeOK, NumbersOK, OwnersOK, NEW money \in Money, NEW shares \in Shares, AddPlayer(money, shares)
  PROVE  WorthKept
<1> DEFINE got == Generate(p_id, PlayerSlack)
<1>1. UNCHANGED << orderbook, leaving >> /\ up /\ leaving = None
  BY DEF AddPlayer, Idle
<1>2. CASE ~got.ok
  <2>1. UNCHANGED << sf, playerinfo >>
    BY <1>2 DEF AddPlayer
  <2>2. \A p \in Players : Unmoved(p)
    BY <1>1, <2>1, Untouched
  <2> QED BY <2>1, <2>2, UnmovedKeepsWorth, WorthsKept DEF Players
<1>3. CASE got.ok
  <2>0. PICK new : new = got.id
    OBVIOUS
  <2>1. new \in Ids /\ new \notin Players
    BY <1>3, <2>0, GeneratePlayer DEF AddPlayer, TypeOK, NumbersOK, PoolsOK, PlayerIdsUnique
  <2>2. /\ Players' = Players \cup {new}
        /\ \A p \in Players : sf'[p] = sf[p] /\ playerinfo'[p] = playerinfo[p]
        /\ sf'[new] = [status |-> None, queue |-> << >>]
        /\ playerinfo'[new] = [money |-> money, moneyTotal |-> money,
                                  shares |-> shares, sharesTotal |-> shares]
    BY <1>3, <2>0, <2>1 DEF AddPlayer, Players
  <2>3. \A p \in Players : Worth(p)' = Worth(p)
    BY <1>1, <2>2, Untouched, UnmovedKeepsWorth
  <2>4. Status(new)' = [money |-> money, shares |-> shares]
    <3>1. sf'[new].status = None
      BY <2>2
    <3>2. playerinfo'[new].money = money /\ playerinfo'[new].shares = shares
      BY <2>2
    <3> QED BY <3>1, <3>2 DEF Status
  <2>5. Committed(new)' = {}
    <3>1. \A o \in orderbook : o.player # new
      BY <1>1, <2>1, NoneIsNothing DEF OwnersOK, RowOwners, TypeOK, Orders
    <3>2. Live({}, orderbook, new) = {}
      BY <3>1 DEF Live
    <3>3. Entries(<< >>) = {}
      BY DEF Entries
    <3>4. sf'[new].queue = << >> /\ orderbook' = orderbook
      BY <1>1, <2>2
    <3> QED BY <3>2, <3>3, <3>4, CommittedNext
  <2>6. Costs({}) = 0 /\ Stocks({}) = 0
    BY CostsRule, FS_EmptySet
  <2>7. money \in Nat /\ shares \in Nat
    BY MarketAssumption, WordsAreNumbers DEF Words
  <2>8. Worth(new)' = [money |-> money, shares |-> shares]
    BY <2>4, <2>5, <2>6, <2>7 DEF Worth
  <2>9. \A p \in Players' \ Players : p = new
    BY <2>2
  <2>10. ASSUME NEW p \in Players' \ Players
         PROVE  \E m \in Money, h \in Shares : AddPlayer(m, h) /\ Worth(p)' = [money |-> m, shares |-> h]
    <3>1. Worth(p)' = [money |-> money, shares |-> shares]
      BY <2>8, <2>9
    <3> QED BY <3>1
  <2> QED BY <2>3, <2>10 DEF WorthKept
<1> QED BY <1>2, <1>3

(* What happens to one player's queue and account does not touch the others.   *)
LEMMA OthersUnmoved ==
  ASSUME NEW p \in Players, NEW v, sf' = [sf EXCEPT ![p] = v],
         playerinfo' = playerinfo, orderbook' = orderbook
  PROVE  Players' = Players /\ sf'[p] = v /\ \A q \in Players \ {p} : Worth(q)' = Worth(q)
<1>1. Players' = Players /\ sf'[p] = v /\ \A q \in Players \ {p} : sf'[q] = sf[q]
  BY DEF Players
<1> QED BY <1>1, Untouched, UnmovedKeepsWorth

LEMMA PutInQueueKeeps ==
  ASSUME TypeOK, NumbersOK, OwnersOK, NEW p \in Players, NEW offer \in Offers, PutInQueue(p, offer)
  PROVE  WorthKept
<1> DEFINE got == Generate(o_id, OrderSlack)
           o == [id |-> got.id, player |-> p, type |-> offer.type,
                 amount |-> offer.amount, price |-> offer.price]
<1>1. got.ok /\ got.id \in Ids /\ got.id \in Free(o_id) /\ leaving = None
  BY GenerateOrder DEF PutInQueue, Idle, TypeOK, NumbersOK, PoolsOK
<1>2. o \in Orders /\ o.id = got.id
  BY <1>1, OfferType DEF TypeOK
<1>3. CASE Dies
  BY <1>3, DiesKeeps
<1>4. CASE ~Dies
  <2>1. PICK accepted \in Verdicts(o, Status(p)) :
          sf' = [sf EXCEPT ![p] = IF accepted
                                  THEN [status |-> Charge(Status(p), o), queue |-> Append(sf[p].queue, o)]
                                  ELSE [status |-> Status(p), queue |-> sf[p].queue]]
    BY <1>1, <1>4 DEF PutInQueue
  <2>2. UNCHANGED << playerinfo, orderbook >>
    BY <1>1, <1>4 DEF PutInQueue
  <2>3. /\ Players' = Players /\ \A q \in Players \ {p} : Worth(q)' = Worth(q)
        /\ sf'[p] = IF accepted THEN [status |-> Charge(Status(p), o), queue |-> Append(sf[p].queue, o)]
                    ELSE [status |-> Status(p), queue |-> sf[p].queue]
    BY <2>1, <2>2, OthersUnmoved
  <2>4. Status(p) \in Accounts /\ sf[p].queue \in Seq(Orders)
    BY StatusType DEF TypeOK, Storefronts
  <2>5. accepted \in BOOLEAN
    BY DEF Verdicts, Covered
  <2>6. CASE ~accepted
    <3>1. Status(p)' = Status(p)
      BY <2>3, <2>4, <2>6, StatusCached
    <3>2. Committed(p)' = Committed(p)
      BY <2>2, <2>3, <2>6 DEF Committed, Removing, Queued
    <3>3. Worth(p)' = Worth(p)
      BY <3>1, <3>2, UnmovedKeepsWorth DEF Unmoved
    <3> QED BY <2>3, <3>3, WorthsKept
  <2>7. CASE accepted
    <3>1. Charge(Status(p), o) \in Accounts /\ o.type # "REMOVE"
      <4>1. TRUE \in Verdicts(o, Status(p))
        BY <2>5, <2>7
      <4>2. o.type # "REMOVE"
        BY <4>1 DEF Verdicts
      <4> QED BY <1>2, <2>4, <4>1, <4>2, AcceptedType
    <3>2. o \notin Committed(p)
      <4>1. \A i \in DOMAIN sf[p].queue : sf[p].queue[i].id # got.id
        BY <1>1 DEF NumbersOK, EntriesHeld, Number
      <4>2. \A row \in orderbook : row.id # got.id
        <5>1. \A row \in orderbook : row.player # None
          BY NoneIsNothing DEF TypeOK, Orders
        <5> QED BY <1>1, <5>1 DEF NumbersOK, RowsHeld
      <4> QED BY <1>2, <4>1, <4>2 DEF Committed, Queued
    <3> HIDE DEF o, got
    <3>3. Status(p)' = Charge(Status(p), o)
      BY <2>3, <2>7, <3>1, StatusCached
    <3>4. Committed(p)' = Committed(p) \cup {o}
      <4>1. Committed(p)' = Live(Entries(Append(sf[p].queue, o)), orderbook, p)
        <5>1. sf'[p].queue = Append(sf[p].queue, o) /\ orderbook' = orderbook
          BY <2>2, <2>3, <2>7
        <5> QED BY <5>1, CommittedNext
      <4>2. Entries(Append(sf[p].queue, o)) = Entries(sf[p].queue) \cup {o}
        BY <1>2, <2>4, EntriesRule
      <4> QED BY <3>1, <4>1, <4>2, LivePlaced, CommittedIs
    <3>5. Worth(p)' = WorthOf(Charge(Status(p), o), Committed(p) \cup {o})
      BY <3>3, <3>4 DEF Worth, WorthOf
    <3>6. Worth(p)' = Worth(p)
      BY <1>2, <2>4, <3>2, <3>5, CommittedType, ChargedWorth, WorthIs
    <3> QED BY <2>3, <3>6, WorthsKept
  <2> QED BY <2>5, <2>6, <2>7
<1> QED BY <1>3, <1>4

LEMMA RemoveOrderKeeps ==
  ASSUME TypeOK, NumbersOK, OwnersOK, NEW p \in Players, NEW id \in Ids, RemoveOrder(p, id)
  PROVE  WorthKept
<1>1. CASE Dies
  BY <1>1, DiesKeeps
<1>2. CASE ~Dies
  <2>1. PICK o \in orderbook :
          /\ o.id = id /\ o.player = p
          /\ \A row \in orderbook : row.id = id => row = o
          /\ sf' = [sf EXCEPT ![p] = [status |-> Refund(Status(p), o),
                                      queue |-> Append(sf[p].queue, Removal(p, id))]]
          /\ UNCHANGED << playerinfo, orderbook >>
    BY <1>2 DEF RemoveOrder
  <2>2. /\ Players' = Players /\ \A q \in Players \ {p} : Worth(q)' = Worth(q)
        /\ sf'[p] = [status |-> Refund(Status(p), o), queue |-> Append(sf[p].queue, Removal(p, id))]
    BY <2>1, OthersUnmoved
  <2>3. CASE id \in Removing(p) \/ Exceeds(p)
    BY <2>2, <2>3 DEF WorthKept
  <2>4. CASE id \notin Removing(p) /\ ~Exceeds(p)
    <3> DEFINE r == Removal(p, id)
               E == Entries(sf[p].queue)
    <3>1. Status(p) \in Accounts /\ sf[p].queue \in Seq(Orders)
      BY StatusType DEF TypeOK, Storefronts
    <3>2. o.amount \in Words /\ o.price \in Words
      BY DEF TypeOK, Orders
    <3>3. Status(p)' = Refund(Status(p), o)
      BY <2>2, <3>1, <3>2, RefundType, StatusCached
    <3>4. r \in Orders /\ r.type = "REMOVE" /\ r.id = id
      BY RemovalType DEF TypeOK, Removal
    <3>5. \A e \in E : e.id = id => e.type = "REMOVE"
      BY <2>1 DEF NumbersOK, EntriesAndRows, Number, Inserts, Entries
    <3>6. o \in Committed(p)
      BY <2>1, <2>4 DEF Committed
    <3>7. Committed(p)' = Committed(p) \ {o}
      <4> HIDE DEF r
      <4>1. Committed(p)' = Live(Entries(Append(sf[p].queue, r)), orderbook, p)
        <5>1. sf'[p].queue = Append(sf[p].queue, r) /\ orderbook' = orderbook
          BY <2>1, <2>2 DEF r
        <5> QED BY <5>1, CommittedNext
      <4>2. Entries(Append(sf[p].queue, r)) = E \cup {r}
        BY <3>1, <3>4, EntriesRule
      <4>3. Committed(p) = Live(E, orderbook, p)
        BY CommittedIs
      <4> HIDE DEF E
      <4>4. Live(E \cup {r}, orderbook, p) = Live(E, orderbook, p) \ {o}
        BY <2>1, <3>4, <3>5, LiveRemoved
      <4> QED BY <4>1, <4>2, <4>3, <4>4
    <3>8. Worth(p)' = WorthOf(Refund(Status(p), o), Committed(p) \ {o})
      BY <3>3, <3>7 DEF Worth, WorthOf
    <3>9. WorthOf(Status(p), Committed(p)).money < Word /\ WorthOf(Status(p), Committed(p)).shares < Word
      <4>1. Costs(Committed(p)) \in Nat /\ Stocks(Committed(p)) \in Nat
        BY CommittedType, CostsRule
      <4>2. Status(p).money \in Nat /\ Status(p).shares \in Nat /\ Word \in Nat
        BY <3>1, WordsAreNumbers DEF Accounts
      <4> QED BY <2>4, <4>1, <4>2, WorthIs DEF Exceeds, WorthOf
    <3>10. Worth(p)' = Worth(p)
      BY <3>1, <3>6, <3>8, <3>9, CommittedType, RefundedWorth, WorthIs
    <3> QED BY <2>2, <3>10, WorthsKept
  <2> QED BY <2>3, <2>4
<1> QED BY <1>1, <1>2

LEMMA AccStatusKeeps ==
  ASSUME TypeOK, NEW p \in Players, AccStatus(p)
  PROVE  WorthKept
<1>1. CASE Dies
  BY <1>1, DiesKeeps
<1>2. CASE ~Dies
  <2>1. /\ sf' = [sf EXCEPT ![p] = [sf[p] EXCEPT !.status = Status(p)]]
        /\ UNCHANGED << playerinfo, orderbook >>
    BY <1>2 DEF AccStatus
  <2>2. /\ Players' = Players /\ \A q \in Players \ {p} : Worth(q)' = Worth(q)
        /\ sf'[p] = [sf[p] EXCEPT !.status = Status(p)]
    BY <2>1, OthersUnmoved
  <2>3. sf'[p].status = Status(p) /\ sf'[p].queue = sf[p].queue
    BY <2>2 DEF TypeOK, Storefronts
  <2>4. Status(p)' = Status(p)
    BY <2>3, StatusType, StatusCached
  <2>5. Committed(p)' = Committed(p)
    BY <2>1, <2>3 DEF Committed, Removing, Queued
  <2>6. Worth(p)' = Worth(p)
    BY <2>4, <2>5, UnmovedKeepsWorth DEF Unmoved
  <2> QED BY <2>2, <2>6, WorthsKept
<1> QED BY <1>1, <1>2

LEMMA FlushAccountKeeps ==
  ASSUME TypeOK, NEW p \in unflushed, FlushAccount(p)
  PROVE  WorthKept
<1>1. CASE Dies
  BY <1>1, DiesKeeps
<1>2. CASE ~Dies
  <2>1. /\ playerinfo' = [playerinfo EXCEPT ![p].money = Status(p).money,
                                            ![p].shares = Status(p).shares]
        /\ sf' = [sf EXCEPT ![p].status = None]
        /\ orderbook' = orderbook
    BY <1>2 DEF FlushAccount
  <2>2. p \in Players /\ Status(p) \in Accounts /\ DOMAIN playerinfo = Players
        /\ sf[p] \in Storefronts /\ playerinfo[p] \in Rows
    BY StatusType DEF TypeOK
  <2>3. /\ Players' = Players
        /\ \A q \in Players \ {p} : sf'[q] = sf[q] /\ playerinfo'[q] = playerinfo[q]
        /\ sf'[p].status = None /\ sf'[p].queue = sf[p].queue
    BY <2>1, <2>2 DEF Players, Storefronts
  <2>4. playerinfo'[p].money = Status(p).money /\ playerinfo'[p].shares = Status(p).shares
    <3> DEFINE m == Status(p).money
               h == Status(p).shares
    <3>1. playerinfo' = [playerinfo EXCEPT ![p].money = m, ![p].shares = h]
      BY <2>1
    <3> HIDE DEF m, h
    <3>2. playerinfo'[p].money = m /\ playerinfo'[p].shares = h
      BY <2>2, <3>1 DEF Rows
    <3> QED BY <3>2 DEF m, h
  <2>5. \A q \in Players \ {p} : Worth(q)' = Worth(q)
    BY <2>1, <2>3, Untouched, UnmovedKeepsWorth
  <2>6. Status(p)' = Status(p)
    BY <2>2, <2>3, <2>4, StatusWritten
  <2>7. Committed(p)' = Committed(p)
    BY <2>1, <2>3 DEF Committed, Removing, Queued
  <2>8. Worth(p)' = Worth(p)
    BY <2>6, <2>7, UnmovedKeepsWorth DEF Unmoved
  <2> QED BY <2>3, <2>5, <2>8, WorthsKept
<1> QED BY <1>1, <1>2

LEMMA FlushOrderKeeps ==
  ASSUME TypeOK, NumbersOK, OwnersOK, NEW p \in unflushed, FlushOrder(p)
  PROVE  WorthKept
<1>1. CASE Dies
  BY <1>1, DiesKeeps
<1>2. CASE ~Dies
  <2>0. PICK h : h = Head(sf[p].queue)
    OBVIOUS
  <2>00. PICK t : t = Tail(sf[p].queue)
    OBVIOUS
  <2>1. /\ sf' = [sf EXCEPT ![p] = [status |-> Status(p), queue |-> t]]
        /\ orderbook' = IF h.type # "REMOVE" THEN orderbook \cup {h}
                        ELSE { row \in orderbook : row.id # h.id }
        /\ playerinfo' = playerinfo
        /\ sf[p].queue # << >>
    BY <1>2, <2>0, <2>00 DEF FlushOrder
  <2>2. /\ p \in Players /\ Status(p) \in Accounts /\ sf[p].queue \in Seq(Orders)
        /\ 1 \in DOMAIN sf[p].queue /\ h = sf[p].queue[1]
    BY <2>0, <2>1, StatusType DEF TypeOK, Storefronts
  <2>3. /\ Players' = Players /\ \A q \in Players \ {p} : sf'[q] = sf[q]
        /\ sf'[p] = [status |-> Status(p), queue |-> t]
    BY <2>1, <2>2 DEF Players
  <2>4. h.player = p
    BY <2>2 DEF OwnersOK, EntryOwners
  <2>5. ASSUME NEW q \in Players \ {p} PROVE Worth(q)' = Worth(q)
    <3>1. \A o \in orderbook : o.player = q /\ h.type = "REMOVE" => o.id # h.id
      BY <2>2 DEF NumbersOK, EntriesAndRows, Number
    <3>2. {o \in orderbook' : o.player = q} = {o \in orderbook : o.player = q}
      BY <2>1, <2>4, <3>1
    <3>3. Committed(q)' = Committed(q)
      BY <2>3, <3>2 DEF Committed, Removing, Queued
    <3>4. Status(q)' = Status(q)
      BY <2>1, <2>3 DEF Status
    <3> QED BY <3>3, <3>4, UnmovedKeepsWorth DEF Unmoved
  <2>6. Status(p)' = Status(p)
    BY <2>2, <2>3, StatusCached
  <2>7. Committed(p)' = Committed(p)
    <3>0. PICK E : E = Entries(t)
      OBVIOUS
    <3>1. Committed(p)' = Live(E, orderbook', p)
      <4>1. sf'[p].queue = t
        BY <2>3
      <4> QED BY <3>0, <4>1, CommittedNext
    <3>2. Committed(p) = Live({h} \cup E, orderbook, p)
      <4>1. Entries(sf[p].queue) = {h} \cup E
        BY <2>0, <2>00, <2>1, <2>2, <3>0, EntriesRule
      <4> QED BY <4>1, CommittedIs
    <3>3. CASE h.type # "REMOVE"
      <4>1. h.id \notin Removed(E)
        <5>1. \A i \in DOMAIN t : i + 1 \in DOMAIN sf[p].queue /\ t[i] = sf[p].queue[i + 1]
          BY <2>00, <2>1, <2>2
        <5>2. \A i \in DOMAIN t : t[i].type = "REMOVE" => t[i].id # h.id
          BY <2>2, <3>3, <5>1 DEF NumbersOK, EntriesDiffer, Number, Inserts
        <5> QED BY <3>0, <5>2 DEF Removed, Entries
      <4>2. orderbook' = orderbook \cup {h}
        BY <2>1, <3>3
      <4> QED BY <2>4, <3>1, <3>2, <3>3, <4>1, <4>2, LiveInserted
    <3>4. CASE h.type = "REMOVE"
      <4>1. orderbook' = { row \in orderbook : row.id # h.id }
        BY <2>1, <3>4
      <4> QED BY <3>1, <3>2, <3>4, <4>1, LiveDeleted
    <3> QED BY <3>3, <3>4
  <2>8. Worth(p)' = Worth(p)
    BY <2>6, <2>7, UnmovedKeepsWorth DEF Unmoved
  <2> QED BY <2>3, <2>5, <2>8, WorthsKept
<1> QED BY <1>1, <1>2

LEMMA DeletePlayerKeeps ==
  ASSUME TypeOK, NEW p \in Players, DeletePlayer(p)
  PROVE  WorthKept
<1>1. Players' = Players \ {p} /\ orderbook' = orderbook
  BY DEF DeletePlayer, Players
<1>2. \A q \in Players' : sf'[q] = sf[q] /\ playerinfo'[q] = playerinfo[q]
  BY <1>1 DEF DeletePlayer
<1>3. \A q \in Players' : Worth(q)' = Worth(q)
  BY <1>1, <1>2, Untouched, UnmovedKeepsWorth
<1> QED BY <1>1, <1>3, WorthsKept

LEMMA DeleteRowsKeeps ==
  ASSUME NumbersOK, DeleteRows
  PROVE  WorthKept
<1>1. orderbook' = orderbook \ OrdersOf(leaving) /\ UNCHANGED << sf, playerinfo >>
  BY DEF DeleteRows
<1>2. ASSUME NEW p \in Players PROVE Worth(p)' = Worth(p)
  <2>1. leaving # p
    BY DEF DeleteRows, NumbersOK, LeavingOK
  <2>2. {o \in orderbook' : o.player = p} = {o \in orderbook : o.player = p}
    BY <1>1, <2>1 DEF OrdersOf
  <2>3. Committed(p)' = Committed(p)
    BY <1>1, <2>2 DEF Committed, Removing, Queued
  <2>4. Status(p)' = Status(p)
    BY <1>1 DEF Status
  <2> QED BY <2>3, <2>4, UnmovedKeepsWorth DEF Unmoved
<1>3. Players' = Players
  BY <1>1 DEF Players
<1> QED BY <1>2, <1>3, WorthsKept

(* Whoever leaves accounts, queues and book alone. *)
LEMMA QuietKeeps ==
  ASSUME UNCHANGED << sf, playerinfo, orderbook >> PROVE WorthKept
<1>1. Players' = Players
  BY DEF Players
<1>2. \A p \in Players : Worth(p)' = Worth(p)
  BY Untouched, UnmovedKeepsWorth
<1> QED BY <1>1, <1>2, WorthsKept

LEMMA WorthStep == TypeOK /\ NumbersOK /\ OwnersOK /\ [Next]_vars => WorthKept
<1> SUFFICES ASSUME TypeOK, NumbersOK, OwnersOK, [Next]_vars PROVE WorthKept
  OBVIOUS
<1>1. CASE \E money \in Money, shares \in Shares : AddPlayer(money, shares)
  BY <1>1, AddPlayerKeeps
<1>2. CASE \E p \in Players, offer \in Offers : PutInQueue(p, offer)
  BY <1>2, PutInQueueKeeps
<1>3. CASE \E p \in Players, id \in Ids : RemoveOrder(p, id)
  BY <1>3, RemoveOrderKeeps
<1>4. CASE \E p \in Players : AccStatus(p) \/ DeletePlayer(p) \/ TreeFault(p)
  BY <1>4, AccStatusKeeps, DeletePlayerKeeps, DiesKeeps DEF TreeFault
<1>5. CASE Evening
  BY <1>5, QuietKeeps DEF Evening
<1>6. CASE \E p \in unflushed : FlushOrder(p) \/ FlushAccount(p)
  BY <1>6, FlushOrderKeeps, FlushAccountKeeps
<1>7. CASE ReturnOrder
  <2>1. UNCHANGED << sf, playerinfo, orderbook >>
    BY <1>7 DEF ReturnOrder, Dies
  <2> QED BY <2>1, QuietKeeps
<1>8. CASE DeleteRows
  BY <1>8, DeleteRowsKeeps
<1>9. CASE UNCHANGED vars
  BY <1>9, QuietKeeps DEF vars
<1> QED BY <1>1, <1>2, <1>3, <1>4, <1>5, <1>6, <1>7, <1>8, <1>9 DEF Next

LEMMA AccountsInvariant == Spec => [](TypeOK /\ NumbersOK /\ OwnersOK)
<1>1. Init => TypeOK /\ NumbersOK /\ OwnersOK
  BY TypeInit, NumbersInit, OwnersInit
<1>2. TypeOK /\ NumbersOK /\ OwnersOK /\ [Next]_vars => (TypeOK /\ NumbersOK /\ OwnersOK)'
  BY TypeStep, NumbersStep, OwnersStep
<1> QED BY <1>1, <1>2, PTL DEF Spec

(* Money and shares move between the accounts and the orders, however wide the *)
(* words, and nothing but the second removal of an order on one day makes any. *)
THEOREM MarketWorthChangesOnlyByRepeat == Spec => WorthChangesOnlyByRepeat
<1>1. TypeOK /\ NumbersOK /\ OwnersOK /\ [Next]_vars => [WorthKept]_vars
  BY WorthStep
<1>2. (Spec => [](TypeOK /\ NumbersOK /\ OwnersOK)) => (Spec => [][WorthKept]_vars)
  BY <1>1, PTL DEF Spec
<1> QED BY <1>2, AccountsInvariant DEF WorthChangesOnlyByRepeat

-------------------------------------------------------------------------------
(* The linked lists of utility.h are sequences, whatever the nodes and however *)
(* long.  ListIsSequence is inductive once the types and the range of the      *)
(* iterator's place are known (Shape): each operation changes the links of at  *)
(* most two nodes, and that no node occurs twice says that these are the links *)
(* of no other place.                                                          *)
Link == Node \cup {Null}

(* The types; only a listlim has an iterator. *)
Shape ==
  /\ kind \in {"queue", "list"}
  /\ list \in [head : Link, tail : Link, size : Int, next : [Node -> Link], prev : [Node -> Link]]
  /\ live \subseteq Node
  /\ iter \in Link
  /\ items \in Seq(Node)
  /\ place \in 0 .. Len(items)
  /\ kind = "queue" => place = 0

LinksInv == Shape /\ ListIsSequence

-------------------------------------------------------------------------------
(* The parts of ListIsSequence about a list l and a sequence s of its nodes.   *)
Linked(l, s) ==
  /\ l.size = Len(s)
  /\ l.head = IF Len(s) = 0 THEN Null ELSE s[1]
  /\ l.tail = IF Len(s) = 0 THEN Null ELSE s[Len(s)]
  /\ \A j \in 1 .. Len(s) : l.next[s[j]] = IF j = Len(s) THEN Null ELSE s[j + 1]
  /\ \A j \in 2 .. Len(s) : l.prev[s[j]] = s[j - 1]
  /\ \A j, k \in 1 .. Len(s) : s[j] = s[k] => j = k

Starts(l, s) == Len(s) > 0 => l.prev[s[1]] = Null

Lists == [head : Link, tail : Link, size : Int, next : [Node -> Link], prev : [Node -> Link]]

(* What is put behind the tail comes last; push and addTail are the same.      *)
LEMMA LinkLast ==
  ASSUME NEW l \in Lists, NEW s \in Seq(Node), Linked(l, s),
         NEW n \in Node, \A j \in 1 .. Len(s) : s[j] # n
  PROVE  /\ push(l, n) \in Lists /\ Linked(push(l, n), Append(s, n))
         /\ addTail(l, n) = push(l, n)
         /\ Starts(l, s) => Starts(push(l, n), Append(s, n))
<1> DEFINE t == Append(s, n)
<1>1. /\ t \in Seq(Node) /\ Len(t) = Len(s) + 1 /\ t[Len(s) + 1] = n
      /\ \A j \in 1 .. Len(s) : t[j] = s[j] /\ s[j] \in Node
  OBVIOUS
<1>2. addTail(l, n) = push(l, n)
  BY ListsAssumption DEF addTail, push, Linked
<1>3. CASE Len(s) = 0
  <2>1. push(l, n) = Only(l, n)
    BY <1>3 DEF push, Linked
  <2>2. Only(l, n) \in Lists /\ Linked(Only(l, n), t) /\ Starts(Only(l, n), t)
    BY <1>1, <1>3 DEF Only, Linked, Starts, Lists, Link
  <2> QED BY <1>2, <2>1, <2>2
<1>4. CASE Len(s) > 0
  <2>1. /\ push(l, n) = Behind(l, n)
        /\ l.tail = s[Len(s)] /\ l.tail \in Node /\ l.tail # n
    BY <1>1, <1>4, ListsAssumption DEF push, Linked
  <2> DEFINE b == Behind(l, n)
  <2>2. b \in Lists /\ b.size = Len(t) /\ b.head = t[1] /\ b.tail = t[Len(t)]
    BY <1>1, <1>4, <2>1 DEF Behind, Linked, Lists, Link
  <2>3. ASSUME NEW j \in 1 .. Len(t)
        PROVE  b.next[t[j]] = IF j = Len(t) THEN Null ELSE t[j + 1]
    <3>1. CASE j = Len(t)
      BY <1>1, <2>1, <3>1 DEF Behind, Lists
    <3>2. CASE j = Len(s)
      BY <1>1, <2>1, <3>2 DEF Behind, Lists
    <3>3. CASE j < Len(s)
      <4>1. t[j] = s[j] /\ t[j] \in Node /\ t[j] # n /\ t[j] # l.tail /\ t[j + 1] = s[j + 1]
        BY <1>1, <2>1, <3>3 DEF Linked
      <4> QED BY <1>1, <3>3, <4>1 DEF Behind, Lists, Linked
    <3> QED BY <1>1, <3>1, <3>2, <3>3
  <2>4. ASSUME NEW j \in 2 .. Len(t) PROVE b.prev[t[j]] = t[j - 1]
    <3>1. CASE j = Len(t)
      BY <1>1, <1>4, <2>1, <3>1 DEF Behind, Lists
    <3>2. CASE j < Len(t)
      <4>1. t[j] = s[j] /\ t[j] \in Node /\ t[j] # n /\ t[j - 1] = s[j - 1]
        BY <1>1, <3>2
      <4> QED BY <1>1, <3>2, <4>1 DEF Behind, Lists, Linked
    <3> QED BY <1>1, <3>1, <3>2
  <2>5. \A j, k \in 1 .. Len(t) : t[j] = t[k] => j = k
    BY <1>1 DEF Linked
  <2>6. Starts(l, s) => Starts(b, t)
    BY <1>1, <1>4 DEF Starts, Behind, Lists
  <2>7. Linked(b, t)
    BY <1>1, <2>2, <2>3, <2>4, <2>5 DEF Linked
  <2> QED BY <1>2, <2>1, <2>2, <2>6, <2>7
<1> QED BY <1>3, <1>4

(* What is put before the head comes first. *)
LEMMA LinkFirst ==
  ASSUME NEW l \in Lists, NEW s \in Seq(Node), Linked(l, s),
         NEW n \in Node, \A j \in 1 .. Len(s) : s[j] # n
  PROVE  /\ addHead(l, n) \in Lists
         /\ Linked(addHead(l, n), << n >> \o s) /\ Starts(addHead(l, n), << n >> \o s)
<1> DEFINE t == << n >> \o s
<1>1. /\ t \in Seq(Node) /\ Len(t) = Len(s) + 1 /\ t[1] = n
      /\ \A j \in 1 .. Len(s) : t[j + 1] = s[j] /\ s[j] \in Node
  OBVIOUS
<1>2. \A j \in 2 .. Len(t) : t[j] = s[j - 1] /\ s[j - 1] \in Node
  BY <1>1
<1>3. CASE Len(s) = 0
  BY <1>1, <1>3 DEF addHead, Only, Linked, Starts, Lists, Link
<1>4. CASE Len(s) > 0
  <2>1. l.head = s[1] /\ l.head \in Node /\ l.head # n /\ l.head # Null
    BY <1>1, <1>4, ListsAssumption DEF Linked
  <2> DEFINE b == addHead(l, n)
  <2>2. b = [head |-> n, tail |-> l.tail, size |-> l.size + 1,
             next |-> [l.next EXCEPT ![n] = l.head],
             prev |-> [l.prev EXCEPT ![l.head] = n, ![n] = Null]]
    BY <2>1 DEF addHead
  <2> HIDE DEF b
  <2>3. b \in Lists /\ b.size = Len(t) /\ b.head = t[1] /\ b.tail = t[Len(t)]
    BY <1>1, <1>2, <1>4, <2>1, <2>2, SMTT(30) DEF Linked, Lists, Link
  <2>4. ASSUME NEW j \in 1 .. Len(t)
        PROVE  b.next[t[j]] = IF j = Len(t) THEN Null ELSE t[j + 1]
    <3>1. CASE j = 1
      BY <1>1, <1>4, <2>1, <2>2, <3>1 DEF Lists
    <3>2. CASE j > 1
      <4>1. t[j] = s[j - 1] /\ t[j] \in Node /\ t[j] # n /\ j - 1 \in 1 .. Len(s)
        BY <1>1, <1>2, <3>2
      <4>2. b.next[t[j]] = l.next[s[j - 1]]
        BY <2>2, <4>1 DEF Lists
      <4> QED BY <1>1, <4>1, <4>2 DEF Linked
    <3> QED BY <3>1, <3>2
  <2>5. ASSUME NEW j \in 2 .. Len(t) PROVE b.prev[t[j]] = t[j - 1]
    <3>1. CASE j = 2
      BY <1>1, <1>2, <1>4, <2>1, <2>2, <3>1 DEF Lists
    <3>2. CASE j > 2
      <4>1. /\ t[j] = s[j - 1] /\ t[j] \in Node /\ t[j] # n /\ j - 1 \in 2 .. Len(s)
            /\ t[j - 1] = s[(j - 1) - 1] /\ t[j] # l.head
        BY <1>1, <1>2, <2>1, <3>2 DEF Linked
      <4>2. b.prev[t[j]] = l.prev[s[j - 1]]
        BY <2>2, <4>1 DEF Lists
      <4> QED BY <4>1, <4>2 DEF Linked
    <3> QED BY <3>1, <3>2
  <2>6. \A j, k \in 1 .. Len(t) : t[j] = t[k] => j = k
    <3>1. \A j, k \in 2 .. Len(t) : t[j] = t[k] => j = k
      BY <1>1, <1>2 DEF Linked
    <3>2. \A j \in 2 .. Len(t) : t[j] # t[1]
      BY <1>1, <1>2
    <3> QED BY <1>1, <3>1, <3>2
  <2>7. Starts(b, t)
    BY <1>1, <2>1, <2>2 DEF Starts, Lists
  <2>8. Linked(b, t)
    BY <1>1, <2>3, <2>4, <2>5, <2>6 DEF Linked
  <2> QED BY <2>3, <2>7, <2>8 DEF b
<1> QED BY <1>3, <1>4

(* A pop takes the first: the others keep their links. *)
LEMMA UnlinkFirst ==
  ASSUME NEW l \in Lists, NEW s \in Seq(Node), Linked(l, s), l.head # Null
  PROVE  Len(s) > 0 /\ l.head = s[1] /\ pop(l) \in Lists /\ Linked(pop(l), Tail(s))
<1>1. Len(s) > 0 /\ l.head = s[1] /\ l.tail = s[Len(s)]
  BY DEF Linked
<1>2. /\ Tail(s) \in Seq(Node) /\ Len(Tail(s)) = Len(s) - 1
      /\ \A j \in 1 .. Len(s) - 1 : Tail(s)[j] = s[j + 1]
  BY <1>1
<1>3. CASE l.tail = l.head
  <2>1. Len(s) = 1
    <3>1. 1 \in 1 .. Len(s) /\ Len(s) \in 1 .. Len(s) /\ s[1] = s[Len(s)]
      BY <1>1, <1>3
    <3> QED BY <3>1 DEF Linked
  <2>2. pop(l) = [l EXCEPT !.head = Null, !.tail = Null, !.size = @ - 1]
    BY <1>3 DEF pop
  <2>3. /\ pop(l) \in Lists /\ pop(l).head = Null /\ pop(l).tail = Null /\ pop(l).size = 0
    <3>1. l.size = 1
      BY <2>1 DEF Linked
    <3>2. pop(l) = [head |-> Null, tail |-> Null, size |-> l.size - 1, next |-> l.next, prev |-> l.prev]
      BY <2>2 DEF Lists
    <3> QED BY <3>1, <3>2 DEF Lists, Link
  <2> DEFINE b == pop(l)
             t == Tail(s)
  <2>4. Len(t) = 0
    BY <1>2, <2>1
  <2> HIDE DEF b, t
  <2>5. b.head = Null /\ b.tail = Null /\ b.size = 0
    BY <2>3 DEF b
  <2>6. Linked(b, t)
    BY <2>4, <2>5 DEF Linked
  <2> QED BY <1>1, <2>3, <2>6 DEF b, t
<1>4. CASE l.tail # l.head
  <2>1. Len(s) > 1 /\ l.next[s[1]] = s[2] /\ s[2] \in Node
    <3>1. Len(s) # 1 /\ Len(s) \in Nat /\ Len(s) > 0
      BY <1>1, <1>4
    <3>2. 1 \in 1 .. Len(s) /\ 2 \in 1 .. Len(s) /\ 1 + 1 = 2
      <4>1. \A m \in Nat : m > 0 /\ m # 1 => 1 \in 1 .. m /\ 2 \in 1 .. m /\ 1 + 1 = 2
        OBVIOUS
      <4> QED BY <3>1, <4>1
    <3>3. l.next[s[1]] = s[1 + 1]
      BY <3>1, <3>2 DEF Linked
    <3> QED BY <1>1, <3>1, <3>2, <3>3
  <2>2. pop(l) = [l EXCEPT !.head = l.next[l.head], !.size = @ - 1]
    BY <1>4 DEF pop
  <2>3. /\ pop(l) \in Lists /\ pop(l).next = l.next /\ pop(l).prev = l.prev
        /\ pop(l).head = s[2] /\ pop(l).tail = s[Len(s)] /\ pop(l).size = Len(s) - 1
    <3>1. l.size = Len(s) /\ l.next[l.head] = s[2]
      BY <1>1, <2>1 DEF Linked
    <3>2. pop(l) = [head |-> l.next[l.head], tail |-> l.tail, size |-> l.size - 1,
                    next |-> l.next, prev |-> l.prev]
      BY <2>2 DEF Lists
    <3>3. s[2] \in Link /\ l.tail \in Link /\ Len(s) \in Nat
      BY <2>1 DEF Lists, Link
    <3> QED BY <1>1, <3>1, <3>2, <3>3 DEF Lists
  <2>4. \A j \in 1 .. Len(s) - 1 :
          l.next[s[j + 1]] = IF j = Len(s) - 1 THEN Null ELSE s[j + 2]
    <3> TAKE j \in 1 .. Len(s) - 1
    <3>1. j + 1 \in 1 .. Len(s) /\ (j + 1) + 1 = j + 2
      OBVIOUS
    <3> QED BY <3>1 DEF Linked
  <2>5. \A j \in 2 .. Len(s) - 1 : l.prev[s[j + 1]] = s[j]
    <3> TAKE j \in 2 .. Len(s) - 1
    <3>1. j + 1 \in 2 .. Len(s) /\ (j + 1) - 1 = j
      OBVIOUS
    <3> QED BY <3>1 DEF Linked
  <2>6. \A j, k \in 1 .. Len(s) - 1 : s[j + 1] = s[k + 1] => j = k
    <3> TAKE j, k \in 1 .. Len(s) - 1
    <3>1. j + 1 \in 1 .. Len(s) /\ k + 1 \in 1 .. Len(s)
      OBVIOUS
    <3>2. s[j + 1] = s[k + 1] => j + 1 = k + 1
      BY <3>1 DEF Linked
    <3> QED BY <3>2
  <2> DEFINE b == pop(l)
             t == Tail(s)
  <2> HIDE DEF b, t
  <2>7. Len(t) = Len(s) - 1 /\ \A j \in 1 .. Len(s) - 1 : t[j] = s[j + 1]
    BY <1>2 DEF t
  <2>8. b.next = l.next /\ b.prev = l.prev /\ b.head = s[2] /\ b.tail = s[Len(s)] /\ b.size = Len(s) - 1
    BY <2>3 DEF b
  <2>9. b.head = t[1] /\ b.tail = t[Len(t)] /\ b.size = Len(t) /\ Len(t) # 0
    <3>1. Len(s) - 1 \in 1 .. Len(s) - 1 /\ 1 \in 1 .. Len(s) - 1
      BY <2>1
    <3> QED BY <2>1, <2>7, <2>8, <3>1
  <2>10. ASSUME NEW j \in 1 .. Len(t)
         PROVE  b.next[t[j]] = IF j = Len(t) THEN Null ELSE t[j + 1]
    <3>1. j \in 1 .. Len(s) - 1 /\ t[j] = s[j + 1]
      BY <2>7
    <3>2. j # Len(t) => j + 1 \in 1 .. Len(s) - 1 /\ (j + 1) + 1 = j + 2
      BY <2>1, <2>7
    <3>3. j # Len(t) => t[j + 1] = s[j + 2]
      BY <2>7, <3>2
    <3> QED BY <2>4, <2>7, <2>8, <3>1, <3>3
  <2>11. ASSUME NEW j \in 2 .. Len(t) PROVE b.prev[t[j]] = t[j - 1]
    <3>1. /\ j \in 2 .. Len(s) - 1 /\ t[j] = s[j + 1]
          /\ j - 1 \in 1 .. Len(s) - 1 /\ (j - 1) + 1 = j
      BY <2>1, <2>7
    <3>2. t[j - 1] = s[j]
      BY <2>7, <3>1
    <3> QED BY <2>5, <2>8, <3>1, <3>2
  <2>12. \A j, k \in 1 .. Len(t) : t[j] = t[k] => j = k
    BY <2>6, <2>7
  <2>13. Linked(b, t)
    BY <2>9, <2>10, <2>11, <2>12 DEF Linked
  <2> QED BY <1>1, <2>3, <2>13 DEF b, t
<1> QED BY <1>3, <1>4

Without(s, p) == [j \in 1 .. Len(s) - 1 |-> IF j < p THEN s[j] ELSE s[j + 1]]

(* remove joins the neighbours of the node at p, at either end too.            *)
LEMMA UnlinkAt ==
  ASSUME NEW l \in Lists, NEW s \in Seq(Node), Linked(l, s), Starts(l, s),
         NEW p \in 1 .. Len(s)
  PROVE  /\ remove(l, s[p]) \in Lists /\ Without(s, p) \in Seq(Node)
         /\ Linked(remove(l, s[p]), Without(s, p)) /\ Starts(remove(l, s[p]), Without(s, p))
<1> DEFINE b == remove(l, s[p])
           t == Without(s, p)
           n == Len(s)
<1>1. /\ t \in Seq(Node) /\ Len(t) = n - 1 /\ n \in Nat
      /\ \A j \in 1 .. n - 1 : t[j] = IF j < p THEN s[j] ELSE s[j + 1]
      /\ \A j \in 1 .. n : s[j] \in Node /\ s[j] # Null
  BY ListsAssumption DEF Without
<1>2. /\ l.next[s[p]] = IF p = n THEN Null ELSE s[p + 1]
      /\ l.prev[s[p]] = IF p = 1 THEN Null ELSE s[p - 1]
  BY DEF Linked, Starts
<1>3. /\ s[p] = l.head <=> p = 1
      /\ s[p] = l.tail <=> p = n
  BY <1>1 DEF Linked
<1>4. /\ b.head = IF p = 1 THEN (IF p = n THEN Null ELSE s[2]) ELSE s[1]
      /\ b.tail = IF p = n THEN (IF p = 1 THEN Null ELSE s[n - 1]) ELSE s[n]
      /\ b.size = n - 1
  BY <1>1, <1>2, <1>3 DEF remove, Linked
<1>5. b.next = IF p = 1 THEN l.next ELSE [l.next EXCEPT ![s[p - 1]] = IF p = n THEN Null ELSE s[p + 1]]
  BY <1>1, <1>2 DEF remove
<1>6. b.prev = IF p = n THEN l.prev ELSE [l.prev EXCEPT ![s[p + 1]] = IF p = 1 THEN Null ELSE s[p - 1]]
  BY <1>1, <1>2 DEF remove
<1>7. b = [head |-> b.head, tail |-> b.tail, size |-> b.size, next |-> b.next, prev |-> b.prev]
  BY DEF remove
<1>8. l.next \in [Node -> Link] /\ l.prev \in [Node -> Link]
  BY DEF Lists
<1> HIDE DEF b, t
<1>9. b \in Lists
  <2>1. b.next \in [Node -> Link]
    <3>1. (IF p = n THEN Null ELSE s[p + 1]) \in Link
      BY <1>1 DEF Link
    <3> QED BY <1>5, <1>8, <3>1
  <2>2. b.prev \in [Node -> Link]
    <3>1. (IF p = 1 THEN Null ELSE s[p - 1]) \in Link
      BY <1>1 DEF Link
    <3> QED BY <1>6, <1>8, <3>1
  <2>3. b.head \in Link /\ b.tail \in Link /\ b.size \in Int
    BY <1>1, <1>4 DEF Link
  <2> QED BY <1>7, <2>1, <2>2, <2>3 DEF Lists
<1>10. \A j, k \in 1 .. Len(t) : t[j] = t[k] => j = k
  <2> TAKE j, k \in 1 .. Len(t)
  <2> DEFINE at(m) == IF m < p THEN m ELSE m + 1
  <2>1. at(j) \in 1 .. n /\ at(k) \in 1 .. n /\ t[j] = s[at(j)] /\ t[k] = s[at(k)]
    BY <1>1
  <2>2. t[j] = t[k] => at(j) = at(k)
    BY <2>1, ZenonT(40) DEF Linked
  <2> QED BY <1>1, <2>2
<1>11. b.head = IF Len(t) = 0 THEN Null ELSE t[1]
  BY <1>1, <1>4
<1>12. b.tail = IF Len(t) = 0 THEN Null ELSE t[Len(t)]
  BY <1>1, <1>4
<1>13. ASSUME NEW j \in 1 .. Len(t)
       PROVE  b.next[t[j]] = IF j = Len(t) THEN Null ELSE t[j + 1]
  <2>1. CASE j + 1 < p
    <3>1. t[j] = s[j] /\ t[j + 1] = s[j + 1] /\ j \in 1 .. n /\ j # n /\ j # Len(t) /\ p # 1
      BY <1>1, <2>1
    <3>2. s[j] # s[p - 1] /\ s[j] \in Node
      BY <1>1, <2>1 DEF Linked
    <3>3. l.next[s[j]] = s[j + 1]
      BY <3>1 DEF Linked
    <3> QED BY <1>5, <1>8, <3>1, <3>2, <3>3
  <2>2. CASE j + 1 = p
    <3>1. t[j] = s[p - 1] /\ s[p - 1] \in Node /\ p # 1
      BY <1>1, <2>2
    <3>2. b.next[t[j]] = IF p = n THEN Null ELSE s[p + 1]
      BY <1>5, <1>8, <3>1
    <3>3. j = Len(t) <=> p = n
      BY <1>1, <2>2
    <3>4. p # n => t[j + 1] = s[p + 1]
      BY <1>1, <2>2
    <3> QED BY <3>2, <3>3, <3>4
  <2>3. CASE j >= p
    <3>1. t[j] = s[j + 1] /\ j + 1 \in 1 .. n /\ s[j + 1] \in Node
      BY <1>1, <2>3
    <3>2. p # 1 => s[j + 1] # s[p - 1]
      <4>1. p # 1 => p - 1 \in 1 .. n /\ j + 1 # p - 1
        BY <1>1, <2>3
      <4> QED BY <3>1, <4>1 DEF Linked
    <3>3. b.next[t[j]] = l.next[s[j + 1]]
      BY <1>5, <1>8, <3>1, <3>2
    <3>4. l.next[s[j + 1]] = IF j + 1 = n THEN Null ELSE s[(j + 1) + 1]
      BY <3>1 DEF Linked
    <3>5. j # Len(t) => t[j + 1] = s[(j + 1) + 1]
      BY <1>1, <2>3
    <3> QED BY <1>1, <3>3, <3>4, <3>5
  <2> QED BY <1>1, <2>1, <2>2, <2>3
<1>14. ASSUME NEW j \in 2 .. Len(t) PROVE b.prev[t[j]] = t[j - 1]
  <2>1. CASE j < p
    <3>1. t[j] = s[j] /\ t[j - 1] = s[j - 1] /\ j \in 2 .. n /\ s[j] \in Node
      BY <1>1, <2>1
    <3>2. p # n => s[j] # s[p + 1]
      <4>1. p # n => p + 1 \in 1 .. n /\ j # p + 1
        BY <1>1, <2>1, <3>1
      <4> QED BY <3>1, <4>1 DEF Linked
    <3>3. l.prev[s[j]] = s[j - 1]
      BY <3>1 DEF Linked
    <3> QED BY <1>6, <1>8, <3>1, <3>2, <3>3
  <2>2. CASE j = p
    <3>1. t[j] = s[p + 1] /\ s[p + 1] \in Node /\ p # n /\ p # 1 /\ t[j - 1] = s[p - 1]
      BY <1>1, <2>2
    <3> QED BY <1>6, <1>8, <3>1
  <2>3. CASE j > p
    <3>1. /\ t[j] = s[j + 1] /\ t[j - 1] = s[j] /\ j + 1 \in 2 .. n /\ s[j + 1] \in Node
          /\ (j - 1) + 1 = j /\ p # n
      BY <1>1, <2>3
    <3>2. s[j + 1] # s[p + 1]
      <4>1. p + 1 \in 1 .. n /\ j + 1 \in 1 .. n /\ j + 1 # p + 1
        BY <1>1, <2>3, <3>1
      <4> QED BY <4>1 DEF Linked
    <3>3. l.prev[s[j + 1]] = s[(j + 1) - 1]
      BY <3>1 DEF Linked
    <3> QED BY <1>6, <1>8, <3>1, <3>2, <3>3
  <2> QED BY <2>1, <2>2, <2>3
<1>15. Starts(b, t)
  <2> SUFFICES ASSUME Len(t) > 0 PROVE b.prev[t[1]] = Null
    BY DEF Starts
  <2>1. CASE p = 1
    BY <1>1, <1>6, <1>8, <2>1
  <2>2. CASE p # 1
    <3>1. t[1] = s[1] /\ s[1] \in Node /\ l.prev[s[1]] = Null
      BY <1>1, <2>2 DEF Starts
    <3>2. p # n => s[1] # s[p + 1]
      BY <1>1 DEF Linked
    <3> QED BY <1>6, <1>8, <3>1, <3>2
  <2> QED BY <2>1, <2>2
<1>16. Linked(b, t)
  BY <1>1, <1>4, <1>10, <1>11, <1>12, <1>13, <1>14 DEF Linked
<1> QED BY <1>1, <1>9, <1>15, <1>16 DEF b, t

-------------------------------------------------------------------------------
(* ListIsSequence in its parts. *)
LEMMA Parts ==
  ListIsSequence <=> /\ Linked(list, items)
                     /\ kind = "list" => Starts(list, items)
                     /\ live = {items[j] : j \in 1 .. Len(items)}
                     /\ iter = IF place = 0 THEN Null ELSE items[place]
BY DEF ListIsSequence, Linked, Starts

LEMMA PartsNext ==
  ListIsSequence' <=> /\ Linked(list', items')
                      /\ kind' = "list" => Starts(list', items')
                      /\ live' = {items'[j] : j \in 1 .. Len(items')}
                      /\ iter' = IF place' = 0 THEN Null ELSE items'[place']
BY DEF ListIsSequence, Linked, Starts

LEMMA LinksInit == ListsInit => LinksInv
<1> SUFFICES ASSUME ListsInit PROVE LinksInv
  OBVIOUS
<1>1. Shape
  BY DEF ListsInit, Shape, Unlinked, Link
<1>2. Linked(list, items) /\ Starts(list, items)
  BY DEF ListsInit, Linked, Starts, Unlinked
<1>3. live = {items[j] : j \in 1 .. Len(items)} /\ iter = IF place = 0 THEN Null ELSE items[place]
  BY DEF ListsInit
<1> QED BY <1>1, <1>2, <1>3, Parts DEF LinksInv

LEMMA LinksStep == LinksInv /\ [ListsNext]_lvars => LinksInv'
<1> SUFFICES ASSUME LinksInv, [ListsNext]_lvars PROVE LinksInv'
  OBVIOUS
<1>1. /\ list \in Lists /\ items \in Seq(Node) /\ Linked(list, items)
      /\ kind = "list" => Starts(list, items)
      /\ live = {items[j] : j \in 1 .. Len(items)}
      /\ iter = IF place = 0 THEN Null ELSE items[place]
  BY Parts DEF LinksInv, Shape, Lists
<1>2. /\ kind \in {"queue", "list"} /\ live \subseteq Node /\ iter \in Link
      /\ place \in 0 .. Len(items) /\ (kind = "queue" => place = 0)
  BY DEF LinksInv, Shape
<1>3. ASSUME NEW n \in Node, n \notin live, kind' = kind, iter' = iter, place' = place,
             live' = live \cup {n}, items' = Append(items, n), list' = push(list, n)
      PROVE  LinksInv'
  <2>1. \A j \in 1 .. Len(items) : items[j] # n
    BY <1>1, <1>3
  <2>2. /\ list' \in Lists /\ Linked(list', items')
        /\ kind' = "list" => Starts(list', items')
    BY <1>1, <1>3, <2>1, LinkLast
  <2>3. /\ items' \in Seq(Node) /\ Len(items') = Len(items) + 1
        /\ items'[Len(items) + 1] = n /\ \A j \in 1 .. Len(items) : items'[j] = items[j]
    BY <1>1, <1>3
  <2>4. live' = {items'[j] : j \in 1 .. Len(items')}
    BY <1>1, <1>3, <2>3
  <2>5. iter' = IF place' = 0 THEN Null ELSE items'[place']
    BY <1>1, <1>2, <1>3, <2>3
  <2>6. Shape'
    BY <1>2, <1>3, <2>2, <2>3 DEF Shape, Lists
  <2> QED BY <2>2, <2>4, <2>5, <2>6, PartsNext DEF LinksInv
<1>4. ASSUME NEW n \in Node, Push(n) PROVE LinksInv'
  BY <1>3, <1>4 DEF Push
<1>5. ASSUME NEW n \in Node, AddTail(n) PROVE LinksInv'
  <2>1. \A j \in 1 .. Len(items) : items[j] # n
    BY <1>1, <1>5 DEF AddTail
  <2>2. list' = push(list, n)
    BY <1>1, <1>5, <2>1, LinkLast DEF AddTail
  <2> QED BY <1>3, <1>5, <2>2 DEF AddTail
<1>6. ASSUME NEW n \in Node, AddHead(n) PROVE LinksInv'
  <2>1. \A j \in 1 .. Len(items) : items[j] # n
    BY <1>1, <1>6 DEF AddHead
  <2>2. list' \in Lists /\ Linked(list', items') /\ Starts(list', items')
    BY <1>1, <1>6, <2>1, LinkFirst DEF AddHead
  <2>3. /\ items' \in Seq(Node) /\ Len(items') = Len(items) + 1 /\ items'[1] = n
        /\ \A j \in 1 .. Len(items) : items'[j + 1] = items[j]
    BY <1>1, <1>6 DEF AddHead
  <2>4. live' = {items'[j] : j \in 1 .. Len(items')}
    <3>1. \A j \in 2 .. Len(items') : items'[j] = items[j - 1]
      BY <2>3
    <3> QED BY <1>1, <1>6, <2>3, <3>1 DEF AddHead
  <2>5. /\ iter' = IF place' = 0 THEN Null ELSE items'[place']
        /\ place' \in 0 .. Len(items')
    BY <1>1, <1>2, <1>6, <2>3 DEF AddHead
  <2>6. Shape'
    BY <1>2, <1>6, <2>2, <2>3, <2>5 DEF Shape, Lists, AddHead
  <2> QED BY <2>2, <2>4, <2>5, <2>6, PartsNext DEF LinksInv
<1>7. CASE Pop
  <2>1. /\ Len(items) > 0 /\ list.head = items[1]
        /\ list' \in Lists /\ Linked(list', items')
    BY <1>1, <1>7, UnlinkFirst DEF Pop
  <2>2. /\ items' \in Seq(Node) /\ Len(items') = Len(items) - 1
        /\ \A j \in 1 .. Len(items) - 1 : items'[j] = items[j + 1]
    BY <1>1, <1>7, <2>1 DEF Pop
  <2>3. live' = {items'[j] : j \in 1 .. Len(items')}
    <3>1. \A j \in 2 .. Len(items) : items[j] # items[1] /\ items[j] = items'[j - 1]
      BY <1>1, <2>2 DEF Linked
    <3>2. \A j \in 1 .. Len(items') : items'[j] \in live /\ items'[j] # items[1]
      <4> TAKE j \in 1 .. Len(items')
      <4>1. j + 1 \in 2 .. Len(items) /\ items'[j] = items[j + 1]
        BY <2>2
      <4> QED BY <1>1, <3>1, <4>1
    <3>3. \A x \in live \ {items[1]} : \E j \in 1 .. Len(items') : x = items'[j]
      <4> TAKE x \in live \ {items[1]}
      <4>1. PICK j \in 1 .. Len(items) : x = items[j]
        BY <1>1
      <4>2. j \in 2 .. Len(items) /\ j - 1 \in 1 .. Len(items') /\ x = items'[j - 1]
        BY <2>2, <3>1, <4>1
      <4> QED BY <4>2
    <3> QED BY <1>7, <2>1, <3>2, <3>3 DEF Pop
  <2>4. iter' = IF place' = 0 THEN Null ELSE items'[place']
    BY <1>1, <1>2, <1>7 DEF Pop
  <2>5. Shape'
    BY <1>2, <1>7, <2>1, <2>2 DEF Shape, Lists, Pop
  <2> QED BY <1>7, <2>1, <2>3, <2>4, <2>5, PartsNext DEF LinksInv, Pop
<1>8. CASE Begin
  <2>1. iter' = IF place' = 0 THEN Null ELSE items'[place']
    BY <1>1, <1>8 DEF Begin, Linked
  <2>2. Shape'
    BY <1>1, <1>2, <1>8, <2>1 DEF Begin, Shape, Link, Lists
  <2> QED BY <1>1, <1>8, <2>1, <2>2, PartsNext DEF LinksInv, Begin
<1>9. CASE Forward
  <2>1. place \in 1 .. Len(items) /\ iter = items[place]
    BY <1>1, <1>2, <1>9 DEF Forward
  <2>2. iter' = IF place' = 0 THEN Null ELSE items'[place']
    BY <1>1, <1>9, <2>1 DEF Forward, Linked
  <2>3. Shape'
    BY <1>1, <1>2, <1>9, <2>1, <2>2 DEF Forward, Shape, Link, Lists
  <2> QED BY <1>1, <1>9, <2>2, <2>3, PartsNext DEF LinksInv, Forward
<1>10. CASE Back
  <2>1. place \in 1 .. Len(items) /\ iter = items[place] /\ kind = "list"
    BY <1>1, <1>2, <1>10 DEF Back
  <2>2. iter' = IF place' = 0 THEN Null ELSE items'[place']
    BY <1>1, <1>10, <2>1 DEF Back, Linked, Starts
  <2>3. Shape'
    BY <1>1, <1>2, <1>10, <2>1, <2>2 DEF Back, Shape, Link, Lists
  <2> QED BY <1>1, <1>10, <2>2, <2>3, PartsNext DEF LinksInv, Back
<1>11. CASE Remove
  <2>1. place \in 1 .. Len(items) /\ iter = items[place] /\ kind = "list"
    BY <1>1, <1>2, <1>11 DEF Remove
  <2>2. items' = Without(items, place)
    BY <1>11 DEF Remove, Without
  <2>3. /\ list' \in Lists /\ items' \in Seq(Node)
        /\ Linked(list', items') /\ Starts(list', items')
    BY <1>1, <1>11, <2>1, <2>2, UnlinkAt DEF Remove
  <2>4. /\ Len(items') = Len(items) - 1
        /\ \A j \in 1 .. Len(items) - 1 : items'[j] = IF j < place THEN items[j] ELSE items[j + 1]
    BY <1>1, <2>1, <2>2 DEF Without
  <2>5. live' = {items'[j] : j \in 1 .. Len(items')}
    <3>1. \A j \in 1 .. Len(items') : items'[j] \in live /\ items'[j] # iter
      <4> TAKE j \in 1 .. Len(items')
      <4>1. PICK k \in 1 .. Len(items) : items'[j] = items[k] /\ k # place
        BY <2>1, <2>4
      <4> QED BY <1>1, <2>1, <4>1 DEF Linked
    <3>2. \A x \in live \ {iter} : \E j \in 1 .. Len(items') : x = items'[j]
      <4> TAKE x \in live \ {iter}
      <4>1. PICK k \in 1 .. Len(items) : x = items[k]
        BY <1>1
      <4>2. k # place
        BY <2>1, <4>1
      <4>3. CASE k < place
        BY <2>1, <2>4, <4>1, <4>3
      <4>4. CASE k > place
        <5>1. k - 1 \in 1 .. Len(items') /\ items'[k - 1] = items[k]
          BY <2>1, <2>4, <4>1, <4>4
        <5> QED BY <4>1, <5>1
      <4> QED BY <4>2, <4>3, <4>4, <2>1
    <3>3. live' = live \ {iter}
      BY <1>11 DEF Remove
    <3>4. \A x : x \in live' => x \in {items'[j] : j \in 1 .. Len(items')}
      BY <3>2, <3>3
    <3>5. \A x : x \in {items'[j] : j \in 1 .. Len(items')} => x \in live'
      BY <3>1, <3>3
    <3> QED BY <3>4, <3>5
  <2>6. Shape'
    <3>1. kind' = kind /\ live' = live \ {iter} /\ iter' = Null /\ place' = 0
      BY <1>11 DEF Remove
    <3>2. live' \subseteq Node
      BY <1>2, <3>1
    <3>3. 0 \in 0 .. Len(items')
      BY <2>3
    <3> QED BY <1>2, <2>3, <3>1, <3>2, <3>3 DEF Shape, Lists, Link
  <2> QED BY <1>11, <2>3, <2>5, <2>6, PartsNext DEF LinksInv, Remove
<1>12. CASE UNCHANGED lvars
  <2>1. kind' = kind /\ list' = list /\ live' = live /\ iter' = iter /\ items' = items /\ place' = place
    BY <1>12 DEF lvars
  <2>2. Shape'
    BY <2>1 DEF LinksInv, Shape
  <2>3. ListIsSequence'
    BY <2>1 DEF LinksInv, ListIsSequence
  <2> QED BY <2>2, <2>3 DEF LinksInv
<1> QED BY <1>4, <1>5, <1>6, <1>7, <1>8, <1>9, <1>10, <1>11, <1>12 DEF ListsNext

(* queuelim and listlim, of any length and whatever nodes new gives them, link *)
(* just the sequence of what was put in and not taken out.                     *)
THEOREM ListsAreSequences == ListsSpec => []ListIsSequence
<1>1. ListsInit => LinksInv
  BY LinksInit
<1>2. LinksInv /\ [ListsNext]_lvars => LinksInv'
  BY LinksStep
<1>3. LinksInv => ListIsSequence
  BY DEF LinksInv
<1> QED BY <1>1, <1>2, <1>3, PTL DEF ListsSpec
===============================================================================
