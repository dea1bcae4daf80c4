-------------------------------- MODULE Market --------------------------------
(* The market maker of Grigoriev_S/market.cpp: players place orders during the *)
(* day, what an order commits is taken from a cached copy of the account, and  *)
(* in the evening every player's queue is written to the order book and the    *)
(* cached account to playerinfo.  One thread runs everything; players may call *)
(* in any order during the day.                                                *)
(* _playersTree is a function here.  With more than three players RBTree's     *)
(* remove may make others unreachable (module RBTree): not followed.           *)
EXTENDS IdPool, FiniteSets, FiniteSetsExt

CONSTANTS Word,     \* 2^32: the width of unsigned int for amounts and prices
          Money,    \* the money a player may start with
          Shares,   \* the shares a player may start with
          Offers,   \* the orders they place: type, total_amount and price
          PlayerLimit, QueueLimit, \* bounds of the model, not of the code
          None      \* a null pointer

ASSUME MarketAssumption ==
  /\ Word \in Nat \ {0, 1}
  /\ Money \subseteq 0 .. Word - 1 /\ Shares \subseteq 0 .. Word - 1
  /\ Offers \subseteq [type: {"BUY_MARKET", "BUY_BOUNDED", "SELL_MARKET", "SELL_BOUNDED", "REMOVE"},
                       amount: 0 .. Word - 1, price: 0 .. Word - 1]
  /\ PlayerLimit \in 0 .. 3
  /\ None \notin Ids /\ None \notin [money: 0 .. Word - 1, shares: 0 .. Word - 1]

VARIABLES p_id,       \* the free player numbers
          o_id,       \* the free order numbers
          sf,         \* _playersTree: the market_sf of each player, by number
          playerinfo, \* the table of accounts
          orderbook,  \* the table of orders, a set of rows
          unflushed,  \* evening(): the players still to be flushed
          leaving,    \* deletePlayer(): the player being deleted, or None
          back,       \* and the order numbers it has yet to return
          up          \* FALSE once the process has died

vars == << p_id, o_id, sf, playerinfo, orderbook, unflushed, leaving, back, up >>

Words == 0 .. Word - 1
Types == {"BUY_MARKET", "BUY_BOUNDED", "SELL_MARKET", "SELL_BOUNDED"}
Accounts == [money: Words, shares: Words]

(* Nothing is ever traded (makeTrades is empty): amount is both the total and  *)
(* the remaining amount of an order.                                           *)
Orders == [id: Ids, player: Ids, type: Types \cup {"REMOVE"}, amount: Words, price: Words]

Storefronts == [status: Accounts \cup {None}, queue: Seq(Orders)]
Rows == [money: Words, moneyTotal: Words, shares: Words, sharesTotal: Words]

Removal(p, id) == [id |-> id, player |-> p, type |-> "REMOVE", amount |-> 0, price |-> 0]

Players == DOMAIN sf

(* Nothing but a player's own call is in progress: the day. *)
Idle == up /\ unflushed = {} /\ leaving = None

-------------------------------------------------------------------------------
(* The account as the player's market_sf sees it (updateStatus): the cached    *)
(* copy, or else the row.  The row is read through std::stoi, which throws     *)
(* from 2^31 on, through the C code of sqlite: the process ends.               *)
Legible(n) == n < Word \div 2

(* Mutant: updateStatus reads the row every time. *)
StatusAlwaysRead(p) == [money |-> playerinfo[p].money, shares |-> playerinfo[p].shares]

Status(p) == IF sf[p].status # None THEN sf[p].status
             ELSE [money |-> playerinfo[p].money, shares |-> playerinfo[p].shares]

CanRead(p) == \/ sf[p].status # None
              \/ Legible(playerinfo[p].money) /\ Legible(playerinfo[p].shares)

(* What an order takes from the account, in 32-bit arithmetic. *)
Cost(o) == IF o.type = "BUY_BOUNDED" THEN (o.amount * o.price) % Word ELSE 0
Stock(o) == IF o.type = "SELL_BOUNDED" THEN o.amount ELSE 0

(* Mutant: only the money is compared. *)
CoveredMoneyOnly(o, account) == Cost(o) <= account.money

Covered(o, account) == Cost(o) <= account.money /\ Stock(o) <= account.shares

Charge(account, o) == [money |-> account.money - Cost(o), shares |-> account.shares - Stock(o)]

Refund(account, o) == [money |-> (account.money + Cost(o)) % Word,
                       shares |-> (account.shares + Stock(o)) % Word]

Dies == /\ up' = FALSE
        /\ UNCHANGED << sf, playerinfo, orderbook, unflushed, leaving, back >>

-------------------------------------------------------------------------------
Init == /\ p_id = FullPool /\ o_id = FullPool
        /\ sf = << >> /\ playerinfo = << >> /\ orderbook = {}
        /\ unflushed = {} /\ leaving = None /\ back = {}
        /\ up = TRUE

(* addPlayer.  After generatePlayerId has thrown, each further call advances   *)
(* the same interval once more and throws again; the guard stops before the    *)
(* 2^32nd of them, when the counter would wrap.                                *)
AddPlayer(money, shares) ==
  /\ Idle /\ p_id # << >> /\ Cardinality(Players) < PlayerLimit
  /\ Head(p_id).first < MaxId
  /\ LET got == Generate(p_id, PlayerSlack) IN
       /\ p_id' = got.pool
       /\ IF got.ok
          THEN /\ sf' = [p \in Players \cup {got.id} |->
                           IF p = got.id THEN [status |-> None, queue |-> << >>] ELSE sf[p]]
               /\ playerinfo' = [p \in Players \cup {got.id} |->
                                   IF p = got.id
                                   THEN [money |-> money, moneyTotal |-> money,
                                         shares |-> shares, sharesTotal |-> shares]
                                   ELSE playerinfo[p]]
          ELSE UNCHANGED << sf, playerinfo >>
  /\ UNCHANGED << o_id, orderbook, unflushed, leaving, back, up >>

(* putInQueue returns without queueing a REMOVE_TYPE order, and without having *)
(* set ret for the two kinds of market order: those are queued if the word on  *)
(* the stack happens to be 0.                                                  *)
Verdicts(o, account) ==
  CASE o.type = "REMOVE" -> {FALSE}
    [] o.type \in {"BUY_MARKET", "SELL_MARKET"} -> BOOLEAN
    [] OTHER -> {Covered(o, account)}

(* putInQueue: the number is taken first and is not given back on a refusal.   *)
PutInQueue(p, offer) ==
  /\ Idle /\ p \in Players /\ o_id # << >> /\ Len(sf[p].queue) < QueueLimit
  /\ LET got == Generate(o_id, OrderSlack)
         o == [id |-> got.id, player |-> p, type |-> offer.type,
               amount |-> offer.amount, price |-> offer.price]
     IN /\ o_id' = got.pool
        /\ IF ~got.ok
           THEN UNCHANGED << sf, playerinfo, orderbook, unflushed, leaving, back, up >>
           ELSE IF CanRead(p)
           THEN /\ \E accepted \in Verdicts(o, Status(p)) :
                     sf' = [sf EXCEPT ![p] =
                              IF accepted
                              THEN [status |-> Charge(Status(p), o), queue |-> Append(@.queue, o)]
                              ELSE [status |-> Status(p), queue |-> @.queue]]
                /\ UNCHANGED << playerinfo, orderbook, unflushed, leaving, back, up >>
           ELSE Dies
  /\ UNCHANGED p_id

(* Mutant: the test of arr[1] against _id is dropped. *)
RemoveAnyOrder(p, id) ==
  /\ Idle /\ p \in Players /\ Len(sf[p].queue) < QueueLimit
  /\ LET rows == { o \in orderbook : o.id = id } IN
       IF rows = {} \/ \E o \in rows : ~(Legible(o.amount) /\ Legible(o.price))
       THEN Dies
       ELSE \E o \in rows :
              /\ rows = {o}
              /\ IF CanRead(p)
                 THEN /\ sf' = [sf EXCEPT ![p] = [status |-> Refund(Status(p), o),
                                                  queue |-> Append(@.queue, Removal(p, id))]]
                      /\ UNCHANGED << playerinfo, orderbook, unflushed, leaving, back, up >>
                 ELSE Dies
  /\ UNCHANGED << p_id, o_id >>

(* removeOrder: the refund is immediate, the row goes in the evening.  With no *)
(* such row the array is never allocated and arr[0] is a null dereference.     *)
RemoveOrder(p, id) ==
  /\ Idle /\ p \in Players /\ Len(sf[p].queue) < QueueLimit
  /\ LET rows == { o \in orderbook : o.id = id } IN
       IF rows = {} \/ \E o \in rows : ~(Legible(o.amount) /\ Legible(o.price))
       THEN Dies
       ELSE \E o \in rows :
              /\ rows = {o} /\ o.player = p
              /\ IF CanRead(p)
                 THEN /\ sf' = [sf EXCEPT ![p] = [status |-> Refund(Status(p), o),
                                                  queue |-> Append(@.queue, Removal(p, id))]]
                      /\ UNCHANGED << playerinfo, orderbook, unflushed, leaving, back, up >>
                 ELSE Dies
  /\ UNCHANGED << p_id, o_id >>

(* accStatus: reading the account caches it. *)
AccStatus(p) ==
  /\ Idle /\ p \in Players
  /\ IF CanRead(p)
     THEN /\ sf' = [sf EXCEPT ![p].status = Status(p)]
          /\ UNCHANGED << playerinfo, orderbook, unflushed, leaving, back, up >>
     ELSE Dies
  /\ UNCHANGED << p_id, o_id >>

-------------------------------------------------------------------------------
(* evening: the players are flushed in the order of their numbers, each order  *)
(* of the queue in a statement of its own, the account last.                   *)
Evening == /\ Idle
           /\ unflushed' = Players
           /\ UNCHANGED << p_id, o_id, sf, playerinfo, orderbook, leaving, back, up >>

BeingFlushed(p) == up /\ p \in unflushed /\ \A q \in unflushed : p <= q

FlushOrder(p) ==
  /\ BeingFlushed(p) /\ sf[p].queue # << >>
  /\ LET o == Head(sf[p].queue) IN
       IF CanRead(p)
       THEN /\ sf' = [sf EXCEPT ![p] = [status |-> Status(p), queue |-> Tail(@.queue)]]
            /\ orderbook' = IF o.type # "REMOVE" THEN orderbook \cup {o}
                            ELSE { row \in orderbook : row.id # o.id }
            /\ UNCHANGED << playerinfo, unflushed, leaving, back, up >>
       ELSE Dies
  /\ UNCHANGED << p_id, o_id >>

FlushAccount(p) ==
  /\ BeingFlushed(p) /\ sf[p].queue = << >>
  /\ IF CanRead(p)
     THEN /\ playerinfo' = [playerinfo EXCEPT ![p].money = Status(p).money,
                                              ![p].shares = Status(p).shares]
          /\ sf' = [sf EXCEPT ![p].status = None]
          /\ unflushed' = unflushed \ {p}
          /\ UNCHANGED << orderbook, leaving, back, up >>
     ELSE Dies
  /\ UNCHANGED << p_id, o_id >>

-------------------------------------------------------------------------------
(* deletePlayer.  RBTree::remove may fault on a tree of more than one player   *)
(* (module RBTree).  The loop that gives the numbers back starts at 1 and      *)
(* stops before arr[0]: it misses the last row, and SQL does not say which row *)
(* that is; with no row arr is null.  What throws leaves the rest undone.      *)
OrdersOf(p) == { o \in orderbook : o.player = p }

DeletePlayer(p) ==
  /\ Idle /\ p \in Players
  /\ sf' = [q \in Players \ {p} |-> sf[q]]
  /\ playerinfo' = [q \in Players \ {p} |-> playerinfo[q]]
  /\ IF p_id = << >> THEN UNCHANGED p_id ELSE p_id' = Return(p_id, p).pool
  /\ IF p_id = << >> \/ OrdersOf(p) = {}
     THEN up' = FALSE /\ UNCHANGED << leaving, back >>
     ELSE /\ IF Return(p_id, p).ok
             THEN /\ leaving' = p
                  /\ \E last \in OrdersOf(p) : back' = { o.id : o \in OrdersOf(p) \ {last} }
             ELSE UNCHANGED << leaving, back >>
          /\ UNCHANGED up
  /\ UNCHANGED << o_id, orderbook, unflushed >>

TreeFault(p) == /\ Idle /\ p \in Players /\ Cardinality(Players) > 1
                /\ Dies
                /\ UNCHANGED << p_id, o_id >>

ReturnOrder ==
  /\ up /\ leaving # None
  /\ \E id \in back :
       IF o_id = << >>
       THEN Dies /\ UNCHANGED o_id
       ELSE /\ o_id' = Return(o_id, id).pool
            /\ IF Return(o_id, id).ok
               THEN back' = back \ {id} /\ UNCHANGED leaving
               ELSE back' = {} /\ leaving' = None
            /\ UNCHANGED << sf, playerinfo, orderbook, unflushed, up >>
  /\ UNCHANGED p_id

(* Mutant: the orders of a deleted player stay in the book. *)
DeleteNoRows ==
  /\ up /\ leaving # None /\ back = {}
  /\ leaving' = None
  /\ UNCHANGED << p_id, o_id, sf, playerinfo, orderbook, unflushed, back, up >>

DeleteRows ==
  /\ up /\ leaving # None /\ back = {}
  /\ orderbook' = orderbook \ OrdersOf(leaving)
  /\ leaving' = None
  /\ UNCHANGED << p_id, o_id, sf, playerinfo, unflushed, back, up >>

Next == \/ \E money \in Money, shares \in Shares : AddPlayer(money, shares)
        \/ \E p \in Players, offer \in Offers : PutInQueue(p, offer)
        \/ \E p \in Players, id \in Ids : RemoveOrder(p, id)
        \/ \E p \in Players : AccStatus(p) \/ DeletePlayer(p) \/ TreeFault(p)
        \/ Evening
        \/ \E p \in unflushed : FlushOrder(p) \/ FlushAccount(p)
        \/ ReturnOrder \/ DeleteRows

Spec == Init /\ [][Next]_vars

-------------------------------------------------------------------------------
TypeOK ==
  /\ p_id \in Pools /\ o_id \in Pools
  /\ Players \subseteq Ids /\ DOMAIN playerinfo = Players
  /\ \A p \in Players : sf[p] \in Storefronts /\ playerinfo[p] \in Rows
  /\ orderbook \subseteq Orders
  /\ unflushed \subseteq Players
  /\ leaving \in Ids \cup {None} /\ back \subseteq Ids
  /\ up \in BOOLEAN

(* A number given out by generatePlayerId belongs to one player: no player of  *)
(* the tree has a number that p_id still holds, so addPlayer never overwrites  *)
(* a player's market_sf nor inserts a second row of playerinfo.                *)
PlayerIdsUnique == Free(p_id) \cap Players = {}

Pending == UNION { {p} \X DOMAIN sf[p].queue : p \in Players }
Entry(e) == sf[e[1]].queue[e[2]]
Placements == { e \in Pending : Entry(e).type # "REMOVE" }

(* A number given out by generateOrderId belongs to one order: no two orders   *)
(* of the book and of the queues share a number, and none of those that        *)
(* deletePlayer is not about to drop is free.                                  *)
OrderIdsUnique ==
  /\ \A o1, o2 \in orderbook : o1.id = o2.id => o1 = o2
  /\ \A e1, e2 \in Placements : Entry(e1).id = Entry(e2).id => e1 = e2
  /\ \A e \in Placements, o \in orderbook : Entry(e).id # o.id
  /\ \A e \in Placements : Entry(e).id \notin Free(o_id)
  /\ \A o \in orderbook : o.player # leaving => o.id \notin Free(o_id)

(* DELETE FROM orderbook filters by the number of the order alone: still, a    *)
(* row leaves the book only while its own player is flushed or deleted.        *)
OnlyOwnerRemoves ==
  [][\A o \in orderbook : o \notin orderbook' =>
       o.player = leaving \/ BeingFlushed(o.player)]_vars

(* What a player owns: the account plus what the live orders commit. *)
Queued(p) == { sf[p].queue[i] : i \in DOMAIN sf[p].queue }

Removing(p) == { o.id : o \in { q \in Queued(p) : q.type = "REMOVE" } }

Committed(p) == { o \in orderbook : o.player = p /\ o.id \notin Removing(p) }
                  \cup { o \in Queued(p) : o.type # "REMOVE" }

Costs(orders) == MapThenSumSet(Cost, orders)
Stocks(orders) == MapThenSumSet(Stock, orders)

Worth(p) == [money  |-> Status(p).money + Costs(Committed(p)),
             shares |-> Status(p).shares + Stocks(Committed(p))]

(* More than an unsigned int holds.                                            *)
Exceeds(p) == Worth(p).money >= Word \/ Worth(p).shares >= Word

WorthKept ==
  /\ \A p \in Players \cap Players' :
       Worth(p)' # Worth(p) => \E id \in Ids : RemoveOrder(p, id) /\ (id \in Removing(p) \/ Exceeds(p))
  /\ \A p \in Players' \ Players :
       \E money \in Money, shares \in Shares :
         AddPlayer(money, shares) /\ Worth(p)' = [money |-> money, shares |-> shares]

(* Placing an order, refusing it, writing it out, removing it and caching and  *)
(* flushing the account move money and shares between the account and the      *)
(* orders and create or lose none, overflowing products included; and a new    *)
(* player begins with just what he brings, though his number may be that of a  *)
(* deleted one.  The one exception is the second removal of an order on the    *)
(* same day: the row is still there and removeOrder pays for it again - and,   *)
(* when such gains have passed what an unsigned int holds, a refund that wraps.*)
WorthChangesOnlyByRepeat == [][WorthKept]_vars
================================================================================
