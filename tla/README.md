# A verification project for the programs of group 209

The repository is a collection of about twenty independent client/server
programs in C++, one directory per author.  They have no code in common, apart
from one select server that three of them copy and one poll loop that five of
them share in spirit and nearly in text.  Here is one set of TLA+ modules per
program, checked with TLC, and proofs for several of them, checked with TLAPS.
`PROJECT.json` lists the components with their status, the hazards at their
lines, the runs, and for every definition the lines it stands for.

## 1. Inventory

| program | modules | state it keeps | operations | what is hard |
|---|---|---|---|---|
| ZdorovaOG/StudentDatabase | `StudentIndex`, `StudentDatabase`, `StudentService`, `StudentStore` | records with ids, an index of three ordered maps, one selection (an index too) per session, a CSV file | select, reselect, print, add, delete, remove, save, dump | users delete what others have selected; index maintenance by buckets; undefined lookups; a text file that does not quote |
| its select server (also at the top level, in PoroshinBA and SivolapNN) | `SimpleServer` | `_clientSockets`, `_staleFileDescriptors`, the descriptor set | accept, peek, read, close at the end of a round | reused descriptors, handlers that block the loop, clients that vanish, SIGPIPE |
| its tokenizer and condition parser | `ConditionParser` | none | recursive descent with precedences | operators and parentheses, missing operands |
| Grigoriev_S | `Market`, `IdPool`, `RBTree`, `UtilityLists` | accounts, orders, an SQLite order book, id intervals, a red-black tree of sessions, two linked lists | place, remove, flush, delete player | money and shares in escrow, writes delayed to flush, 32-bit products, hand-written data structures |
| LoginovaIrene | `StudentGroups`, `Comand`, `ConditionLists` | students in a hash of groups, each with a name tree and a rating list; one list of conditions per column for everybody; a session per descriptor | insert, select, reselect, print | three structures that must hold the same students; conditions that accumulate; sessions that are inherited |
| Shikanyan_LR | `Timetable` | lessons by index, five maps of indexes, selections by session, one queue of commands for all | select, reselect, insert, remove, generate, save | indexes deleted from five maps; commands left over by a refused script |
| KutuzovOO | `KutuzovWarehouse`, `LineLists`, `Warehouses` | a hash table of parts, a map of recipes | add, delete, make, show, ... | a counter that counts merges, recipes that consume their own parts, counted answers |
| Menshikh_DA | `MenshikhWarehouse`, `AvlTree`, `LineLists` | a map of quantities, an AVL tree of recipes, two files | add, make, how many, recipe, save | rotations, division by quantities, files that turn lists round |
| AleksandraNikolenko | `Battle`, `PollLoop` | poll slots; players, ships, games of two | look for an opponent, place ships, shoot, quit; an echo server | two clients per game, counting of ships, slots and descriptors reused |
| Vylegzhanin_FE/7 | `MatrixServer`, `Matrices` | matrices by width, connections, a file | interact, list, reload, clear, shutdown | a vector erased while walked, errors in the middle of a message |
| AntonianGV | `TextEditor` | paragraphs, a file | show, add, delete, search, quit | how many windows a hit has; lines cut by the file |
| PoroshinBA | `StudentBuffers` (and `SimpleServer`) | groups of students sorted by rating, per user an original and a buffer | select, insert, remove, load, renew, save, disconnect | erasing while walking; load on a buffer that is not empty |
| SivolapNN | `TextServer` (and `SimpleServer`) | numbered blocks of text | show, add, delete, search, shutdown | a read that waits for ever, numbers that shift |
| Romanova_EA | `Chat` | users by name with an address | message, quit, kill over UDP | lost, repeated and late datagrams |
| Konovalov_Daniil, vinklim, TatyanaYst, Chernov_Alexandr | | | | sketches that do not build, or that pass their storage by value and keep nothing |

How the parts of one program interact: the select servers and the poll loop call
one handler at a time and wait for it, so that a request is a step or a sequence
of steps of one actor; the concurrency is between the clients (who connect, send
in pieces, leave, and are killed at any moment), the server's order of visits,
descriptors that are given out again, what one client leaves behind for the next,
and the process's ends and starts with its file.

What makes each of them correct: for a database, that its indexes describe its
records and that a query selects what its help text says; for a server, that
each client is served as itself and in the end; for the market, that numbers are
unique and money and shares are conserved; for the warehouses, that a make takes
what the recipe says and that a client receives as many messages as it was told;
for the game, that two who play have one turn between them and that ships are
counted right.

## 2. Plan, and what has been done

1. `StudentIndex`, `StudentDatabase`, `StudentService`, `StudentStore` and the
   proofs about them, `SimpleServer` with proofs of its safety, `ConditionParser` - done.
2. `IdPool`, `Market` and the proofs about them, `RBTree`, `UtilityLists` and its
   proof - done.
3. `ConditionLists`, `Comand`, `StudentGroups` and the proofs of all their properties - done.
4. `Timetable` with proofs of all its properties; the two warehouses with their
   lists and tree, and proofs about the first and the lists; `PollLoop` and `Battle` with proofs of
   their safety; the five small servers, with proofs about all of them - done.
5. `Positions` and `Positions_proofs`: what loops over a sequence leave of it and add
   up, as recursive functions, and the inductions that say so (section 12) - done.
6. Left: the properties that section 12 lists as model-checked only.

Where two or more small programs are alike in size, one MC module runs them one
after the other: a variable `program` (or `part`) is chosen in the initial state
and never changes, and the variables of the others stay where they began.  A run
is then several independent checks that share a configuration.

### The runs

| run | module and cfg | programs | properties |
|---|---|---|---|
| `database` | `MCStudentService`, `StudentService.cfg` | StudentDatabase | `BaseAgrees`, `SelectionsAgree`, `NoResurrection`, `ImplementsStore` |
| `restart` (violation) | `MCStudentDatabase`, `StudentRestart.cfg` | StudentDatabase | `StartLoadsAll` |
| `conditions` | `MCConditions`, `Conditions.cfg` | the parser; LoginovaIrene's conditions | `ParserIsGrammar`, `KeepsMeaning` |
| `server` | `SimpleServer`, `SimpleServer.cfg` | the select server | `NotAnothersPid`, `NoCut`, `Answered`, `ClosureSeen` |
| `market` | `MCMarket`, `Market.cfg` | Grigoriev_S | `PlayerIdsUnique`, `OrderIdsUnique`, `OnlyOwnerRemoves`, `WorthChangesOnlyByRepeat`, `KeysAsAsked`, `WalkIsComplete`, `ListIsSequence` |
| `groups` | `MCStudentGroups`, `StudentGroups.cfg` | LoginovaIrene | `StructuresAgree`, `SelectedIsAdmitted` |
| `timetable` | `MCTimetable`, `Timetable.cfg` | Shikanyan_LR | `MapsAgree`, `SelectionsKnown`, `SessionsPrivate`, `RunsOnce`, `SelectsSuitable` |
| `warehouses` | `MCWarehouses`, `Warehouses.cfg` | KutuzovOO, Menshikh_DA | `CountsMerges`, `MakeConserves`, `TreeFinds`, `HmakeExact`, `SavedComesBack`, `LinesHeld` |
| `warehouse_recipe` (violation) | `MCWarehouses`, `WarehouseRecipe.cfg` | Menshikh_DA | `RecipeIsAdded` |
| `battle` | `MCBattle`, `Battle.cfg` | AleksandraNikolenko | `BlockedByTwin`, `OneTurn`, `HitsKeepTurn`, `ReadAtLast` |
| `battle_ships` (violation) | `MCBattle`, `BattleShips.cfg` | AleksandraNikolenko | `QsIsShipsLeft` |
| `small` | `MCSmallServers`, `SmallServers.cfg` | Vylegzhanin_FE, AntonianGV, PoroshinBA, Romanova_EA, SivolapNN | `MatricesKept`, `InStep`, `QuitComesBack`, `SelectIsFilter`, `OneOfEachName`, `AsAsked` |

Operators marked "Mutant" in the modules are plausible errors in the code; with
one in place of the definition that follows it, the property it is listed with in
`PROJECT.json` fails.

## 3. StudentDatabase

### The modules

* `StudentIndex` is the class `Index` with the nodes of a query tree: pure
  operators on a record `[ids, by]`, where `by[c][v]` is the bucket of key `v`
  in the map of column `c`.  A key is an integer, because the lookups tell apart
  nothing but the order of the keys; a key a map does not hold is one with an
  empty bucket.  `Answers(idx, q)` is the set of results a query may have.
* `StudentDatabase` is `DataHolder` and `DataBase`, the file, and the life of
  the process: `Start` is the load in `main`, `Stop` a crash or the request
  `exit`.  Each request is one action, because `Server::Listen` waits for each
  handler; `delete` and `remove` loop over ids and `save` truncates before it
  writes, so these are split, with `job` in between, and the process may die
  between their steps.
* `StudentService` adds to it the query that was answered last (`asked`), which
  is what a user sees besides his selection.
* `StudentStore` is the abstract specification: records, the live ids, a set of
  ids per user, and `asked`.  A query promises a set of ids it must select and a
  set it may select; because of `asked`, a result has to be explained by the query
  that was made, not by any other.
* `StudentDatabase_proofs` holds the theorems about all of them, about the parser (section 5)
  and about LoginovaIrene's server;
  `MCStudentDatabase` and `MCStudentService` the values of the constants for TLC.

| code | model |
|---|---|
| `_data` | `data`, with `data[id + 1]` the record of `id` |
| `_index` | `base` |
| `_indexes` | `sel`; operator[] creates an entry, hence `WithSel` in reads too |
| `ClientSocket::_pid` before `SetPID` | `NoPid`: `(size_t)-1` becomes the int key -1 |
| `__database.csv` | `file`, a sequence of records |

**Undefined behaviour.** `FindByConditionNE` calls `result.erase(first, last)`
with iterators of another set.  A build of the program with libstdc++ frees the
nodes of the bucket in the index itself, leaves the result as it was, and
crashes later.  The model lets such a query answer anything, lets each bucket it
hit hold any ids from then on, and sets `ub`; the properties that cannot survive
this are stated under `~ub`.  `CollectG` selects the equal students too, although
`node.h:24` says that `GREATER` is above the value, and reads `end()` when the lower bound is
the last key: the model lets the key stay or go.

### What is checked

Run `database`: three keys per column, two students, two records in one life of
the process, one registered user beside the requests that are made without a pid
(which share the entry of -1), six queries with every operation and with
comparisons from above, from below, by range and negative, lists of ids with one that
does not exist, a name with a comma.

* `BaseAgrees`, `SelectionsAgree`: ids and the three maps of the database's index, and of
  each selection, describe the same students, and buckets hold nothing else.
* `NoResurrection`: a removed id does not return while the process lives, although
  other users' selections still name it.
* `ImplementsStore`: the refinement of `StudentStore`.

Run `restart` shows a violation: `database.h:54` and the help text say that the
file is loaded and saved; `StartLoadsAll` fails, because a name with a comma ends
the load and every record after it is lost.

Bounds: `MaxRecords` and `MaxUsers` bound one life of the process, lives are
unbounded, so that restarts with files of every content occur.  Two records and
three keys are enough for a key with no student, one with one and one with two,
for a selection that outlives a student, and for a lower bound that is the last
key.  A file that a crash within `save` left truncated is loaded by a later life.
Deadlock is checked: a process that is down can always start.

### What is proved

For every value of the constants under `ValueAssumption` and
`DatabaseAssumption` (`StudentDatabase_proofs`): `Spec => []IndInv` (`Inductive`), and
from it `TypeOK`, `BaseAgrees`, `SelectionsAgree`, `KnownIds` (no index ever names an
id without a record), `NextPidIsFree` (`RegisterUser` gives no pid in use) as
invariants and `NoResurrection` as an action property.

The invariant has to be strengthened in three places.  `BaseAgrees` is only
promised without undefined behaviour, but `KnownIds` and the type must survive
it: `AllInRange` says that even a damaged bucket names only ids of records.
`NextPidIsFree` follows from `PidsBelowSize`: every pid is below the number of
sessions, which the entry of -1 makes larger, never smaller.  And
`job.pid \in User` says that the request under way belongs to a session, so that
its entry in `_indexes` is no new one.  The key lemmas: `IndexInsert` and
`IndexRemove` of an index that agrees with the data agree with the data, although
`Remove` drops a whole bucket when its size is 1; every answer of a query is a set
of ids of the index.

`ServiceSpec => ImplementsStore` (`ServiceImplementsStore`): the detailed database
implements the store.  Every operation has a lemma that names its abstract step:
a load is `Open`, a select or reselect `Choose`, one turn of a loop over ids
`Drop`, the end of a delete `Forget`, and a save no step at all.  `QueryPromise` is
the core: on an index that agrees with the records (`BaseAgrees`,
`SelectionsAgree`) a query without undefined behaviour selects all it must and
nothing it may not; and only a query with a negative comparison is undefined.
`NextPidIsFree` is what makes a registration a `NewUser`.

### What is left out

`dump` (a `save` to another file), the field `info`, the six digits to which
ratings are printed, the columns and the order of `print`, requests that do not
parse (they change nothing before the exception), and deeper query trees than
two comparisons, which combine the same two operators.

## 4. SimpleServer

`Server::Listen`, the two handlers of `db_server.cpp` and the clients.  Listen
starts a thread per handler and destroys its future at once, which joins it: the
model is one sequence of steps, named by `pc`.

| code | model |
|---|---|
| `_clientSockets`, `_staleFileDescriptors` | `sockets`, `stale` |
| `clientSocketSet` while the loop runs | `ready`, visited by increasing number |
| descriptors, `accept`, `close` | `owner`: accept gives the smallest free one |
| bytes not yet read | `inbox`, whole packets: a key, a request, or the two parts of a long one |
| the handler under way | `cur` (descriptor, pid, what it read) |
| keys of `_indexes` | `pids` |

The pid a client was given is remembered in `session`, which the code does not
have: it is what the properties compare with.

`Accept` and `ReadKey` are two steps, since the accept handler blocks the loop
until the key arrives.  `Refused` keeps the order of the code: the handler's
`Close` erases the sockets of the descriptor, and only then does Listen push the
new one, which stays.  `BrokenPipe` is the SIGPIPE of a second send to a client
that is gone.

Run `server`: three connections on two descriptors, the first with a wrong key,
the second one that may be killed anywhere, the third one that may make the exit
request.

* `NotAnothersPid`: no request runs for the pid of another client.  "His own or
  none", since the socket that `Refused` leaves behind serves the next client on its
  descriptor with pid -1.
* `NoCut`: the server closes the connection of no client that still wants it.
* `Answered`: whoever sends a key or a request is eventually answered, whatever the
  others do between their requests.
* `ClosureSeen`: the server eventually closes its end of every connection whose client
  has closed or was killed.

The two liveness properties are promised as long as the server serves and does not
starve, and these are the ways it may stop: a client killed within a request makes
`while (is.get() != '\7')` (`db_server.cpp:53`) read an end of file for ever, which
holds up everybody (`Hang`); a second send to a client that is gone raises SIGPIPE
(`BrokenPipe`); and with a descriptor for no waiting connection the failing `accept`
(`server.cpp:105`) breaks out of each round before any client is looked at
(`Starved`).  The first two were seen with the program itself.

Fairness: the server's steps are weakly fair, because the process runs; so are a
client's key once it has connected (`client.py` sends it at once), the rest of a
request it has begun, and the close of a connection it is done with.  Nobody has
to make a request, to leave between two requests, or to be killed.

Bounds: each connection is made once and makes at most `MaxRequests` requests;
three connections on two descriptors make descriptors be reused and make accept
fail.  When all connections are used up the real server waits in `select` for
more, and after `exit` it is gone: deadlock is not checked.

**Proved** (`SimpleServer_proofs`), for any connections, descriptors and number of
requests, from `ServerAssumption`: `ServerNoCut` and `ServerNotAnothersPid`.  For `NoCut`: that a descriptor the server closes is of a client that has left or was
refused is not inductive alone.  The invariant adds that a connection
has one descriptor or one place in the queue (`Apart`), what a client in each state has
sent (`Spoken`), that each descriptor of a round has something to read (`Round`), whom the
handler under way serves (`Handling`), and so that what waits in
`_staleFileDescriptors` is wanted by nobody (`Unwanted`).  That `accept` gives a free descriptor rests on
the least of a set of numbers being one of them (`MinOfNaturals`, from the
well-foundedness of `<`).

For `NotAnothersPid` the invariant says besides (`Pids`) that every entry of `_clientSockets` with a
pid other than -1 is on an open descriptor whose client was given that pid and
which nobody is about to close (`Owned`), and that while a key is read its descriptor
has no such entry left from an earlier client.  What `Close` leaves of the entries are entries that
were there, and those that `GetSocket` finds are of its descriptor (`PickedElements`).

Liveness is only model-checked.

## 5. ConditionParser

The recursive descent of `parser/condition_parser.cpp` on a sequence of tokens:
`FirstOperand` is the part of `ParseExpression` before the loop, `NextOperand` a
turn of the loop, and the iterator `current` is the position that each of them
returns with the node.  All exceptions are one value, `Throw`.  A call always
starts behind the place where its caller started, so that `ParseCondition` is a
function `from` of the place and the precedence of a call, and the loop one of the
turns it has taken; it takes no more turns than there are tokens.
`ConditionTrees` is the grammar of the help text, which gives the trees of a
sequence of tokens by splitting it in all ways (`SimpleTrees`, `PrimaryTrees`,
`OperationTrees`): it has no precedences and no position.

`ParserIsGrammar` (run `conditions`), over conditions of up to seven words (a
comparison is one word) with at most one odd word - half a comparison, a column
`id`, a group compared with a string, a `sortby` - says that every condition of the grammar
gets the grammar's tree, and nothing else is accepted, with two exceptions that are
in the code: a logical operation at the end (`group == 4 and`) is accepted with a null
operand (`condition_parser.cpp:68`; the test `logic_on_end`,
`tests/test_condition_parsing.cpp:176`, expects an exception), and so are values
of another type than their column's.

Seven words are enough for `(a or b) and c`, for three operands with every pair
of operations on either side, and for parentheses three deep.  A user may stop
at any word: deadlock is not checked.  The letters of tokens, the field list of
`print` and the ids of `remove` are left out.

Proved (`StudentDatabase_proofs`): `ParserIsGrammar` holds of every sequence of
tokens, however long and deep (`ParserParsesGrammar`, from `ParserAssumption`: what
is typed consists of tokens).  The argument:

* `ConditionIs` and `TreesAre`: the table of recursive calls and that of the trees
  exist, built from the last tokens to the first and from short pieces to long
  ones, and every call returns a place between its own and the end (`TableReaches`).
* `AllComplete`, by the length of the piece: the loop comes to each tree of a piece
  whose next token does not let the loop go on (`Stops`); a tree of an operation is
  reached one turn after its left operand (`JoinedParsed`).
* `TableSound`, from the last call to the first: what a call returns is a tree of the
  piece up to where it stopped (`Whole`), with no token behind that the loop would
  have taken, or it stands at the end behind a logical operation, lacks the last
  operand, and without that operation would be a condition (`CutShort`).  In the
  loop the invariant has to tell the operations apart (`Going`): the tree so far has
  no `OR`, or the next token is no `AND`; without that, `a or b and c`
  could not be told from `(a or b) and c`.

## 6. Market

Players of `Grigoriev_S` place orders with their `market_sf`, which charges them
against a cached copy of the account and queues them; in the evening
`market::evening` writes every queue to the table `orderbook` and the cached
account to `playerinfo`.

`IdPool` has the free numbers as pure operators: `p_id` and `o_id` are lists of
intervals kept by two copies of one algorithm, which differ in the end of an
interval (`slack`).  `Market` is `market`, `market_sf` and the two tables;
`Market_proofs` the theorems; `MCMarket` the constants for TLC.

| code | model |
|---|---|
| `_playersTree` | `sf`, from number to `[status, queue]` |
| `_account_status`, null until `updateStatus` | `status`, `None` until then |
| `playerinfo`, `orderbook` | a function and a set of rows |
| the loop of `evening` over players, `flush` over orders | `unflushed`, `FlushOrder`, `FlushAccount` |
| the loop of `deletePlayer` over `arr` | `leaving`, `back`, `ReturnOrder`, `DeleteRows` |
| `unsigned int` | numbers modulo `MaxId + 1` (ids) and `Word` (amounts) |
| `wakeUp` of the players | any sequence of calls while `Idle` |

Everything runs in one thread.  What ends the process clears `up`: an order that
is not in the book (the result array of `removeOrder` stays null), a number of
2^31 or more read back by `std::stoi` under the C code of SQLite, an empty list of
intervals, a fault in the tree.  An `sEx`, which a player may catch, leaves the
rest of the call undone and the process alive.  `putInQueue` returns an
uninitialized `ret` for the two kinds of market order: the model lets them be
queued or not (`Verdicts`).  `deletePlayer` gives all numbers back but one, and
SQL does not say which row comes last.  `removeOrder` has enumerators as case
labels that are negative in an unsigned switch; a compiler that takes them
(`-Wno-narrowing`) converts them as `std::stoi` does the column.

Run `market`, part "market": 2 players, 4 numbers, queues of 2, 4-bit amounts, 4
offers of which one overflows, one is all the money and one is a market order.

* `PlayerIdsUnique`, `OrderIdsUnique`: no number in use is still in a free interval, and no two
  orders have one number, over the book and the queues.
* `OnlyOwnerRemoves`: a row leaves the book only when its own player is flushed or
  deleted, although `DELETE` names it by number alone.
* `WorthChangesOnlyByRepeat` is conservation: available money and shares plus what
  the live orders hold change in no step, with one exception that is in the code,
  the second removal of an order on the same day, which is refunded again - and, once
  such gains have passed what an unsigned int holds (`Exceeds`), a refund that wraps.
  It holds although products wrap, because the refund wraps alike.  A new player
  begins with what he brings, though his number may be that of a deleted one.

Bounds: with four numbers the intervals are used up, returned from both ends and
from the middle, and given out again; two players are enough for one to be
deleted while the other has orders; a queue of two holds a placement and a
removal, or the removal twice.  A process that has died does nothing: deadlock is
not checked.  `MaxId` is far below the number of orders of one life of the
process, so that exhaustion is reached, which takes the program 2^32 orders.

**Proved** for every value of the constants under `MaxIdAssumption` and
`MarketAssumption`: `TypeOK`, `PlayerIdsUnique`, `OrderIdsUnique` as invariants,
`OnlyOwnerRemoves` and `WorthChangesOnlyByRepeat` as action properties.  The inductive invariant, `NumbersOK`, is stronger in
three places.  The intervals of each list are disjoint, and those of `o_id` in
order (`Proper`).  A queued removal, too, has a number that no interval holds, shared
with no queued placement and with a row of the book only if that row is the same
player's (`EntriesHeld`, `EntriesDiffer`, `EntriesAndRows`): that is why a `DELETE` by
number alone deletes nobody else's order.  And the numbers that `deletePlayer` has
yet to return belong to rows of the player who leaves (`LeavingOK`).  The lemmas
say what `Generate` and `Return` do to the set of free numbers: take one out, put
one in or leave it.  Their arithmetic is modular, because the code skips its check
for the interval that ends at 2^32 - 1.
Conservation needs a third invariant, `OwnersOK`: the book is finite, an entry of a queue
is its player's, and a row of the book is that of a player of the tree or of the one who
is just leaving - so that a new player under an old number inherits no order.  `Live` is
what a set of queue entries and a book keep alive, and there is one lemma for what a placement,
a removal and the writing out of either do to it; a placement is then a `Charge` of what
joins the set (`ChargedWorth`), a removal a `Refund` of what leaves it (`RefundedWorth`), and
the other steps leave account and set alone (`Unmoved`).  `SumRule` of `Positions_proofs` says
that a sum over a finite set does not depend on the order in which the fold takes its elements.
The proof found that the exception had been stated too narrowly: refunds wrap once a player
has become too rich by repeats, which TLC shows with queues of four entries.

### The tree

`RBTree` is `RBTree.h` with a node named by its key and parent pointers derived
from the children.  `Broken` is a throw or a null dereference: `remove` faults on a
node that has only a child with a smaller key.  `findMin` and `findMax` are each
called with the subtree in which they go the wrong way, so that from four keys on
`remove` may leave a tree out of order; the run follows it up to that step and no
further, as a key put twice would name two nodes.  Part "tree" of the run has
seven keys and all trees that `put` and `remove` build.

* `KeysAsAsked`: `put` never faults, adds its key, keeps the order and keeps a red-black
  tree one; a `remove` that returns has taken out its key and no other, and leaves a
  red-black tree of up to three keys one.
* `WalkIsComplete`: from any such tree the iterator, which has no parent links and keeps
  the path from the root, comes by each key once in ascending order and ends; the
  destructor frees every node; what a tree is assigned is the whole of the other.

That three keys are safe and four are not is why `Market`, which treats the tree
as a function, assumes at most three players at a time (`PlayerLimit`).  The module
is recursive and only model-checked.

### The linked lists

`UtilityLists` is `queuelim` and `listlim` of `utility.h`, node by node, over nodes
that `new` may give out again.  `ListIsSequence` (part "lists", four nodes): after any
pushes, pops, insertions at either end and removals in between the links are just
the sequence of what was put in and not taken out, the size is right - `flush`
ends its loop by it - and an iterator stays on its node while others come.  This
is what entitles `Market` and `IdPool` to take these lists for sequences.

**Proved** (`Market_proofs.ListsAreSequences`), for lists of any length and any set of
nodes: `Spec => []ListIsSequence`.  The invariant is inductive once the types and the
range of the iterator's place are known (`Shape`).  The lemmas say what linking a last
or a first node and unlinking the first or an inner one do to the links; that no
node occurs twice in the sequence says that the two nodes an operation changes are
the links of no other place.

Left out: failing SQL statements, `_playercount` and `price_graph` (written, never
read), `makeTrades` (empty); in the tree `operator--`, which nothing calls and which
skips nodes, and the root that a copied empty tree leaves uninitialised;
`listlim::clear`, which removes only the head.

## 7. Student groups

LoginovaIrene's server.  `ConditionLists` has the pure algorithms on the
conditions of one column: `Sort` is `gr_sort`, `rat_sort` and `name_sort`, which
are three copies of one function and differ in three places (`Excluding`,
`Crashes`, `Pinched`); `Admits` is `sel_gr`, `sel_rat` and `sel_name`; `Interval`
is how the walks read a list.  A value is an integer, because ratings and names are
only compared.  `Comand` is a list of conditions over many requests, and
`StudentGroups` the whole server.  Both are proved about in `StudentDatabase_proofs`, so
what would be called the same in StudentDatabase has a name of its own (`GroupsNext`,
`ComandNext`, `Pupil`, ...).

| code | model |
|---|---|
| `hash::root` and its chains | `root`, from index to a sequence of `[group, tree, list]` |
| `tree` | a function from paths (`left`, `right`) to students |
| `comand`'s three lists | `cmd`; in `Comand`, `list` |
| `sess` | `sess`, sequences of students |
| `tree::search`, `tree::add` walking down | `TreePlace`, a function of the depth |
| the loops of `fill` and `sub_select_list` | functions of how much of the sequence they have read |
| `gr_min`, `Eq_min`, `Great`, ... of a sort | the record of `Bounds` |

Each request is one action, since `main` handles it before it looks at the next
descriptor.  `clear` is called by nobody, so that the conditions of every request
stay in force for the requests of all clients, until a contradiction empties a
list.  `allowed` and `excluding` in `Comand` are history: the values that satisfy
everything given since then, and whether a `!=` was among it.

Run `conditions`, the other program of it, has the conditions of each column over
5 values of which two are the bounds, and one malformed request between two sorts.
Run `groups` has two clients, six students in three groups, three files, requests
of each kind, and malformed ones of up to one condition in all.

* `KeepsMeaning`: a request answered without an error leaves a list that admits just
  what satisfies every condition given since the list was last empty, and one
  refused as contradictory contradicts those in force.
* `StructuresAgree`: hash, trees and lists hold the same students, the search of each
  tree finds every one, each list increases, `print` writes each student twice (once
  from a list, once from a tree).
* `SelectedIsAdmitted`: the walks of `do_select` through intervals of the three
  structures select each student that the tests of `reselect` let through, once, and no
  other; and a session that a client leaves behind holds students of the base.

Three exceptions are part of the properties, because they are what the code does:
`rating >= 4` with `rating <= 4` selects the ratings above 4 (the `else` in
`rat_sort` belongs to the inner `if`); an excluded name makes the bounds of names
strict, and `name >= b`, `name <= b` and `name != c` are refused as contradictory
(`name_sort` inverts two tests); without conditions `select` leaves out the groups
100 and 699 and, in lists, the rating 0.  `group >= 1000` follows a null pointer
(`Fault`).  Both modules were compared with the compiled functions on random lists
of conditions and random bases, the order of a session included.

Five values have a bound, a value above, below and between two others; three names
in one group give trees with two children and with two levels on either side.  An
empty list is reached again and again, by contradictions, so that no state is final.

Left out: `del_it`, `update`, `inside` and `clear`, which nothing calls;
conditions on groups outside 100 .. 699, for which `do_select` reads past `root`;
descriptors from ten on, for which there is no session; requests without `end`.
A session outlives its client and is the next one's on the descriptor; a client
that goes before its answer is written whole ends the server by SIGPIPE, and one
that goes within a request holds it (`head.h`, the loop that reads).
`Database::add` has no return statement, so that the answer to an insert is either
one.

### What is proved

All three properties, for every value of the constants (`StudentDatabase_proofs`).

`ComandKeepsMeaning`: `ComandSpec => []KeepsMeaning`, from `BoundsAssumption` and
`ComparedAssumption`.  A list may come to the sort in any order and with any
repetitions, since malformed requests leave conditions in front of it.  `Permits` says
which values the record of bounds of a sort stands for; each condition that is read
takes away from them just the values that do not satisfy it (`TightenKeeps`,
`TightenedMeans`), and each of the three ways to cut at excluded bounds, to settle bounds
that meet and to write the list out keeps them (`ExcludingIs`, `PinchedIs`, `SettledIs`)
- in `name_sort` only where nothing is excluded, else they only become fewer.  What
a sort leaves has one of three shapes (`Form`): bounds and then excluded values that
ascend; one equality; and, of ratings only, a lower bound and an equality.  On the first two `Admits`,
which reads the list from its head and stops early, is the conjunction of the conditions
(`AdmitsForm`).  The invariant `Agrees` holds what is in force against the list between
two sorts as well, when it has no shape at all.

`GroupsStructuresAgree`: `GroupsSpec => []StructuresAgree`, from `BoundsAssumption`,
`PupilAssumption` and `GivenAssumption`.  The inductive invariant (`GroupsInv`) says of every group in
the hash (`GoodHash`) that it hangs in the chain of its index and once only, that its
list increases and repeats nobody, and that every student of its tree lies at the end of a path that
turns at each node as the names compare (`Follows`, `GoodTree`); there is at most one free place
such a path leads to, so that the search which `add` and the search which `select`
makes find the same one (`PlaceIs`, `PlaceUnique`).  `TreePlace` goes as deep as the tree has
nodes; that this is enough is a counting argument (`ShortPaths`).  `ListAdd` slips a student in
between the smaller and the larger (`ListAddSlips`).  A printed answer is what is written of
the base, in which every student has exactly two places (`WrittenTwice`): the traversal of a
tree is an order of all its paths (`BeforeIsOrder`, `VisitsIs`), and in a sequence of sequences that
are glued together every element has the place it had, moved (`FlattenPlaces`).

`GroupsSelectedIsAdmitted`: `GroupsSpec => []SelectedIsAdmitted`, from the same.  The invariant
(`SelectionInv`) says that sessions hold students of the base, each once, that the conditions in force are
conditions - not that they are sorted, which a malformed request undoes - and that the last
selection is right (`Selected`).  A select sorts all three lists or selects
nothing, so that `do_select` meets lists of one of the three shapes; on each of them the interval
that a walk reads off the list admits what `Admits` does (`IntervalAgrees`).  The walk through a
list, which stops at the upper bound and reads the excluded values along with the
students, is the filter it stands for because both ascend (`ListWalkIs`, `ListSelects`); the recursion
through a tree, which leaves out a side where a name is outside the bounds, still
reaches every name inside (`ReachesInside`, `TreeSelects`); the indexes between those of the two bounds hold all
groups between them (`ByGroupSelects`); and no student is selected twice, because two groups, or two
indexes, have none in common (`FlattenOnce`).

## 8. Timetable

Shikanyan_LR's `Server.cpp`.  A client sends a script of commands that ends in
`end`; `Query::make` parses it command by command and pushes each one it accepts into
`com`, and the first malformed one throws.

| code | model |
|---|---|
| `Database::inf`, `Mp_*`, `global_index`, `ses` | `inf`, `mp[field][value]`, `global_index`, `ses` |
| `sok` of main (descriptor to session) | `sok` |
| `Query::com`, one object for all clients | `zapros` |
| the request under way and the command it is at | `serving` |
| `Base.txt` | `file` |

A request is one step for the parse (`Request`), one for each command, and one for
the answer.  Nothing else is served in between, but clients connect and leave, and
a kill may come between any two.  `Forget` is the end of a connection; with no session yet,
`sok.erase(sok.find(fd))` erases `end()`, which ends the process.  `Overruns` is the scan
for a sign `=` that runs off a word.  A load loses the last letter of every subject
(`CutLine`).  `asked` is history.

Run `timetable`, two descriptors, up to three indexes, two sessions and three commands in the
queue, nine scripts, well formed, malformed in the middle and without an end:

* `MapsAgree`: each of the five maps holds, for every value, exactly the indexes of the
  records with it, in their order - `del_el_from_maps` searches all five without a
  bound, and `set_intersection` needs the order.
* `SelectionsKnown`: selections are copies and outlive removals; a copy whose index is
  still in the base is that record, since no number is given twice.
* `SessionsPrivate`: no two connections share a session, and only a connection has one.
* `RunsOnce`: what a refused script pushed before its error stays in the queue and is
  run with the next script, in another session: late, but once.
* `SelectsSuitable`: a select with a criterion finds the records that suit, in the order of
  the base, and never walks past its end.  (`select end`, without one, takes every index
  ever given and runs off after a removal: `Select` then ends the process.)

**Proved** (`Timetable_proofs`), for any descriptors, scripts and lessons, from
`ValueAssumption` and `LessonAssumption`: all five, as `TimetableMapsAgree`,
`TimetableSelectionsKnown`, `TimetableRunsOnce`, `TimetableSelectsSuitable` and
`TimetableSessionsPrivate`.

* `SessionsPrivate` needs no assumption; it is inductive beside `Numbered`: every session a
  descriptor has is one of `ses`, which only grows while the process lives, so that the
  number the next session is given is nobody's.
* `MapsAgree` and `SelectionsKnown` follow from `DataInv`: the indexes in `inf` rise and are below
  `global_index`, the five maps are those of the elements of `inf`, in their order (`Agrees`); every
  selected copy has an index below it and, if that is in the base, is that element (`Copied`); the
  commands in the queue are some that `Query::make` accepted, and a refused script is at its
  first (`Script`); a process that is down has no sessions (`Stopped`).
  A delete takes its index out of each map and the element out of `inf`: both are
  sequences without some positions, and the rest keeps its order (`PickedElements`).
* `RunsOnce` is inductive under `DataInv`: one step of a script takes one command off the rest that
  is still to run, and what an end of a sequence adds is what its first command adds and the
  end behind it (`RestOfScript`); a refused script has run none (`Script`).
* `SelectsSuitable`, a property of steps, holds where a request that runs has a session (`Attended`): the intersection of maps that agree with `inf` holds just the
  indexes of the elements that suit, and `Chosen` takes these in the order of the base.
  Two rising sequences with the same elements are the same (`SameRising`).

Every process that is down can start, so deadlock is checked.  What `print` and `show`
write, and the letters of values, are left out; a teacher or a subject is compared
for equality only.

## 9. Warehouses

### KutuzovOO

`KutuzovWarehouse` takes the hash table for a function from names to quantities
(`data`; that its nodes may be taken so is `LinesHeld`) beside its counter
`numOfItems`, and one request for one action.  `owed[c]` is how many messages client `c`
was promised by `show` and does not get: `client.py` reads a number and then as many
messages, and waits.  `merged` and `wrapped` are history.

* `CountsMerges`: the counter exceeds the number of nodes by just the inserts that met
  a node of their name, and a client waits for no more than that.  So every
  merge makes each later `show` leave its client waiting.
* `MakeConserves`: a make that is confirmed takes what the recipe says and adds the
  devices, whichever nodes it empties or creates, the device itself among its parts included, as
  long as no product `quant * elm` wraps (`database.cpp:180,213`).

**Proved** (`Warehouses_proofs`), for any names, recipes, requests and width of an
int, from `WarehouseAssumption`: `KutuzovCountsMerges` and `KutuzovMakeConserves`.
`CountsMerges` is inductive beside the types (`Inv`), one part of which is that
no quantity is below zero as long as nothing has wrapped.  For `MakeConserves` a make is
taken apart into its steps: an answer `all_right` of `CanMake` leaves nothing missing
(`NothingMissing`), `removeparts` then takes just that (`RemovepartsIsExact`), and `insert`
adds the devices to what is left (`InsertIsExact`).

### Menshikh_DA

`MenshikhWarehouse` has the map of quantities, the recipes in the tree of `AvlTree`, and
the two files.  A request that divides by a quantity of 0 (`database.cpp:109,139`) or asks
`hmake` for a name without a node (`database.cpp:101`, a null pointer) ends the process.
The recursions of the tree are functions over `NodesBelow`, the nodes a recursion can come
to, and the loops over a card or a file functions of how far they have come, so that both
can be proved about.  `IsSaved` says what a file holds before the first start: what a
save writes (`database.cpp:56-65`), the recipes in the order of their names.

* `TreeFinds`: recipes stand in the tree in the order of their names, each once, and
  search finds every one whatever the rotations did; two removes would take theirs
  and leave the others; a copy has them all.  Balanced the tree is not: the single
  and the double rotation are swapped on the right side, in `insert` and in `remove`.
* `HmakeExact`: the number `hmake` answers can be made, and one more cannot.
* `SavedComesBack`: a start reads the quantities the last save found, and every card
  with its lines turned round.
* Run `warehouse_recipe` shows a violation of `RecipeIsAdded` (README.md:64, "Добавляет
  рецепт детали"): `avl::insert` leaves a node that exists as it is, so that the
  recipe of an item that was added before is lost, and its quantity set to 0 besides.

**Proved** (`Warehouses_proofs`), for any names, requests, files and width of an int and
for trees of any size, from `ItemsAssumption` (names are ordered, as the code orders its strings; a
file is one that a save wrote; the sums of a card fit in an int): `RecipesKept`,
`RecipesFound`, `HmakeIsExact` and `SavedIsRead`.  The inductive invariant is `MInv`: the
quantities are ints, the tree is in order and every card of it has each part once, and
the files are as a save writes them.  It does not ask for balance, which the swapped
rotations do not keep.

A recursion down the tree is taken in three steps.  The function it defines exists over
any *grove*, a set of nodes closed under `left` and `right`; two such functions agree where
both are defined; so that what a recursion computes of a node follows from what it computes of
the two nodes below it.  What a tree is, in terms of the sequence of its nodes and of the
pairs of names and cards in it, then goes by the height of the tree: a rotation keeps both
the pairs and the order (`RotationsKeep`); `insert` adds its pair unless the name is there, `remove` takes just the one of
its name and brings the successor's card with its name, `searchh` finds the node of a name and no
other.  `copy` puts the nodes one by one into an empty tree; that two trees in order with the
same pairs write the same lines is `SameLines`, and `SavedIsRead` is the
same fact about a file read line by line, with `ListedTurns` for the cards: a list that grows at the front
and meets no name twice is its lines turned round.  `HmakeIsExact` rests on `HmakeCounts`: `n` can be made
just when no quotient of the card is below it, and the loop keeps the least of them.

### The lists of both

`LineLists` has the singly linked lists of both programs node by node: a bucket of
KutuzovOO's hash table, a card of Menshikh_DA's recipe.  Operations on both differ
in what they do with a node that is emptied.  `LinesHeld`: each list holds, in order,
just the lines that calls put into it and answers what they say; no node is in two
lists, none that is deleted can be reached, none that is alive is lost.  Three nodes, two
buckets and a card, three names of which two share a bucket, sums of up to 3.

**Proved** (`Warehouses_proofs`), for any number of lists, nodes, names and quantities,
from `LinesAssumption` (buckets are numbered, nodes are finitely many): `WarehouseLinesHeld`.
`LinesHeld` speaks of walks, which say little about a step in the middle of a chain; the
inductive invariant `ListsInv` says instead that for every list there is a sequence of nodes,
none twice, that `front` and `next` link together and that shows the lines the list should
hold, that no two of these sequences share a node, and that the living nodes are just
theirs.  `ChainIs`: a walk of as many steps as there are nodes then meets that
sequence; `AtIs` and `GetIs` say the same of a search and of a reading.  A step changes one list:
`OneListChanged` carries the invariant over for a new sequence whose nodes are new or the list's own, and
`QuantChanged`, `PutInFront`, `NodeTakenOut`, `CopyMade` and `ListDestroyed` name that
sequence.  `Warehouses` puts the two servers and the lists side by side, so that the run
and the proofs are about the same modules.

Bounds of run `warehouses`: an int has four bits (`MaxInt = 7`), so that products wrap; five
requests of Menshikh_DA's server over three pairs of files, restarts included, enough for
an insert that turns the tree, a save and a start; two merges.  An `exit` or the
bound on requests ends a behaviour: deadlock is not checked.

Left out: the wording of answers; `DatabaseToFile` of KutuzovOO, which no request
reaches; `hashFunc`'s negative index for a name that begins with a digit
(`HashTable.cpp:11-12`).  Also seen, and modelled as they are: `makefrom` leaves out
what there is exactly enough for; `addrecipe` of Menshikh_DA adds its parts as items
even when the line then turns out malformed (`serv.cpp:485`); `deletedetail` of an absent
name answers "You delete".  `avl::operator=` inserts into the root it has just freed; nothing
calls it, and it is left out.

## 10. Poll loop, sea battle and echo server

`PollLoop` is the loop around `poll` of `ser_tcp.cpp`, `ser_bat.cpp` and KutuzovOO's `server.cpp`: an
array of slots, the first for the listening socket, visited in order, and reads that
block.  Menshikh_DA's loop is the same but for its stop branch, which only a failed read takes (`serv.cpp:235`),
where KutuzovOO's takes the request `stop` too (`server.cpp:95`): it has no `Stops`.  `act_set` is the array, `conn` and `unread` the connections.  A slot that is
closed takes the last one's place - but a last slot stays where it is, with a
descriptor that the next `accept` may return.  `Echoes`, `Stops` and `Dies` (SIGPIPE) are
what the echo server does with a request; `Battle` has its own.

`Battle` has `Players`, an entry for each descriptor ever accepted, never erased, and a
`Game` as its two descriptors.  `Analysis` is `Player::analysis` with the parts `Play`,
`Ships`, `Move`, `ShowMy`, `ShowOther`, and `Quit` closes the descriptor but leaves its slot.  `Crash` is a
member of an object that is not there (`game_` before a game, ships not placed yet).

Run `battle`: three descriptors, four slots, one request unread per client and six in
all, fleets of two ships, one client that may close without `Quit`; or the echo server on the
same loop.

* `BlockedByTwin`: the loop waits for an open connection with nothing to read only where
  two slots have one descriptor.  That is the one way a client holds up all.
* `ReadAtLast` (liveness): a request that has come in is read, unless the loop is
  blocked so or a signal ended it.
* `OneTurn`: two who play have the same game and one turn between them, whoever quits,
  loses, leaves or takes over a descriptor, until a player in a game asks for
  another (`again`), which nothing forbids.
* `HitsKeepTurn`: a ship is wounded only by the one whose turn it is, who keeps it.

Run `battle_ships` shows a violation of `QsIsShipsLeft` (`server.h:97`, the number of ships
that are left): `analysis` calls `hit` twice, and `hit` takes one off for every call that
finds a sunk ship.

**Proved** (`Battle_proofs`), for any descriptors, slots, fleets and cells: `OneTurn` from
`LoopAssumption`, `HitsKeepTurn` from it and `BattleAssumption`, and `BlockedByTwin` of both servers,
the battle and the echo server, from `LoopAssumption`.  For `OneTurn` the invariant is that every slot but the first has a
`Player` (`Slots`: a request finds its sender, `accept` a free descriptor) and that, until someone
asks again, each who plays is matched with an opponent of the same game, and who
does not play has no game (`GamesAgree`).  The lemmas say of `ChangeQ`, `Freed` and `Paired` that
they always treat both players of a game and nobody else (`Members`).  For `BlockedByTwin`:
a marked slot still to be visited can be read without waiting, or has gone, unless a slot before it in
the round has its descriptor (`Marks`), and `accept`, which comes first, returns no descriptor of a
marked slot.

Fairness: `WF` of the server's step alone, since the loop does not stop between two
visits.  No client has to send, and none has to leave.

Left out: the list of moves, which is only shown; whether ships fit the field, which
nobody asks; the dangling `c_str()` of `mess()` and `str_moves()` (`ser_bat.cpp:276,291`).
`DataBase.h` beside the echo server declares classes only.

## 11. Small servers

Run `small` has five programs, which `SmallServers` runs one after the other; `MCSmallServers` has only the
values of the constants, so that the proofs are about what TLC checks.  In each the clients' view is part of the model:
they wait for answers, leave within a request, and are killed.

**Vylegzhanin_FE/7** (`MatrixServer`, `Matrices`).  A round of `MainLoop` visits the clients that
`select` found by the iterator `it` over a vector from which it erases, hence may pass one over.
A short read is answered with bad data and the cut matrix is handled all the same; a
message of just `BUFFER_SIZE` bytes, and a shutdown, end `MainLoop`, and the destructor saves; a signal skips that.
Not modelled: a longer message, which that test lets pass (`server.cpp:208`) and which overruns `buf_`, and a client
cut between the length and the code, whose code is then whatever the stack held.
`MatricesKept`: of any two matrices kept not both multiply the other, nor do three in a ring; the order of
the set tells any two apart; products exist and associate; and a matrix that
was confirmed is there, after whatever clears, cut messages and restarts, until someone clears or a
signal comes.  Two clients, four matrices of three widths, four messages.
Proved, for any matrices and clients, from `MatrixInv`.  `DataInv`: what is in the database, and what a start would read
from the file, is a finite set of matrices without rings (`Proper`), because a matrix comes in only when none has as many columns
as it has rows (`ProperWithOne`); and what is confirmed is in the database, or in the file while the server is down.
`LoopInv`: past the listener the vector has clients, and a connection that waits finds a descriptor.  A file gives back the
set it was written from (`ReloadsWhatWasSaved`), since the place of an element determines its row and column (`CellAt`,
`PlaceIn`), the order is one in which any two differ and a set has a least (`LessTotal`, `LeastExists`), and walking from
the least on leaves none out (`InOrderHasAll`).  Products associate because a sum by rows is the sum by columns
(`SumExchanged`).

**AntonianGV** (`TextEditor`).  A paragraph is its length and where the searched string
stands in it.  `InStep`: the windows that `search` writes for a hit are those its client reads, unless the
context asked for is longer than a paragraph that has the string (then every
later answer is read out of step; `deep` remembers who asked).  `QuitComesBack`: the next start reads as many
paragraphs as quit wrote, and the same ones up to the first line that one `fgets` does not take.  The start counts
the line ends and calls `fgets` as often (`server.cpp:298`); a call takes at most 1023 characters, the line end among them.  So a line
of 1023 is read as itself and an empty one, a longer one in as many `Pieces` as it takes, and for each piece more a
paragraph at the end of the file is dropped; what was cut at a start and written by quit is one of 1023 at the next.
Quit empties the file and then writes it line by line: `KilledInQuit` leaves the first lines of it, after which the next
start reads no more than there were, in their place.  `wrote` and `torn` remember what the last quit had to write and
whether it was killed.  Two clients, four requests, contexts of 0 to 5; `MaxLine` is 6, with lines in front of others of just
6, and of 13, which are three pieces.
Left out: a carriage return at the end of a full piece, which the start takes for a line end (`server.cpp:305`); a byte 0xFF in
the file, which ends the counting (`c` is compared with `EOF` as a char).  Half a line at the end of the file has no line end, is not
counted and so not read.
Both are proved.  `EditorInv`: the lengths and hits of every paragraph of the text and of the file are
those of a paragraph (`IsText`), who has not asked for too long a context has no windows too
many, and the file is what the last quit had to write, or the first lines of it after a quit that was killed (`IsWritten`).
A line that is not full is one piece and any other at least one (`PiecesProper`), hence the pieces are no fewer than the lines, and
in front of the first full line each line is the piece of its number (`LoadedText`); a file of first lines has just those (`FirstLines`).  The loops that `add` and `del` shift by are functions of how far they are (`Copied`), and
`strcpy` from the end or from the start keeps what it moves (`AddText`, `DelText`); that the four conditions of
`search` give just the windows its client counts is arithmetic with halves (`SearchInStep`).

**PoroshinBA** (`StudentBuffers`).  `SelectIsFilter`: `select` erases while it walks, by a `Remove`
that looks for the student again and erases the first run of equal ones; what is left is
just what the criterion admits.  A word of a name is searched for in it (`Work.cpp:11`): a criterion is the set of names that
have it.  The model also has `load`, which appends to a buffer that is not
empty, `renew`, `save`, `disconnect`, and the wait for the rest of a query, in which a client that is killed
holds up the server (`Server.cpp:25,41`).  Two clients, three queries.  The lists by name
are written and never read, and left out, and so are a rating `nan`, which `stod` accepts, and a file whose numbers `stoi`
does not (`Work.cpp:80`).
Proved: `SelectIsFilter`, from `BuffersInv`: users and their two copies are those of one another, each client with a user
has its own, and nobody has user 0.  Every turn of the loop comes nearer to the end of the list and loses nothing that
is to be kept (`TurnKeeps`), because what stands before the iterator has been kept already and
so is no run of the student that is erased (`RemovedRule`); after as many turns as the list was
long nothing is left to erase (`SelectedFilters`).

**Romanova_EA** (`Chat`).  A datagram may be lost, handled twice or late.
`OneOfEachName`: of the clients heard under a name since it last quit just one is sent what
is said, and nobody whose name has quit; so a user who comes back from another port
hears nothing.  Three clients, two of one name, three datagrams.
Proved, with the invariant that a name has no entry, or has one, of a client of that name that was heard
(`OneOf`), which a `quit` needs to erase the entry whoever sent it (`ErasedNone`).

**SivolapNN** (`TextServer`).  A request is its length and then its text, and the server reads
until it has as many bytes, so that whoever leaves it waiting stops it for all
(`client_socket.cpp:44`).  The client counts characters and sends bytes (`client.py:18`), so of every request that is not
ASCII the end stays in the socket, and the next read of that client takes it for a length and waits (`left`, `Stuck`): of an
`add` the block loses its closing quote and its last bytes (`Cut`), and a `search` looks for the beginning of its word (`Read`).
`AsAsked`: the text changes only as one whole request says, a block
put at its number or all the blocks with the given numbers taken out, counted before
the first is gone, and a block of ASCII is put there whole; a search shows every place of what was read of its
word, as wide as was asked, hence every place of the word, ASCII or not, though also places where the word only begins.
Two clients, two requests, texts of up to three blocks; the words are the empty one, one of ASCII that overlaps itself, and
one of two letters of two bytes each, of which half a letter is lost, in a block that has it once and its beginning
twice.  Also seen: `delete 5end` and an
empty search word loop for ever (`hung`); a `delete` out of range is answered "Done";
`delete end` reads `begin()` of an empty set; a negative context may throw `length_error`.
Left out: requests of 256 bytes and more, for which `Read` writes one byte behind its buffer
(`client_socket.cpp:50`); text that is not ASCII in front of or behind the quotes of `add` and `search`.  The client's
`decode()` may raise on half a letter of an answer: it then ends, as a client does that is killed (`Die`).
Proved, with `TextInv`: who is not in the middle of a request asks nothing, and every block of the text is one that a
client sent, whole or cut (`Held`).  What is left when the erased blocks are gone is what the walk of `Delete` has behind
it and what it has before it, joined (`DeleteIs`, `NextTaken`); a block that `Add` puts in is the only
difference (`OthersOfPutIn`); after as many calls of `find` as the block has bytes no place of what was read of the word lies ahead
(`HitsCover`), a word stands only where its beginning does (`TextAssumption`), and each context is as wide as was asked (`SearchAnswers`).

All five models bound the requests; at the bound, or after a shutdown or a hang, nothing
more happens: deadlock is not checked.

## 12. What is proved, and what is only checked

| module | theorems | from |
|---|---|---|
| `StudentDatabase_proofs` | `Inductive`, `TypeCorrect`, `BaseAgreement`, `SelectionAgreement`, `IdsKnown`, `FreshPid`, `RemovedForGood`, `ServiceImplementsStore` | `ValueAssumption`, `DatabaseAssumption` |
| the same module | `ParserParsesGrammar` | `ParserAssumption` |
| the same module | `ComandKeepsMeaning`, `GroupsInductive`, `GroupsStructuresAgree`, `GroupsSelectedIsAdmitted` | `BoundsAssumption`; the first one: `ComparedAssumption`; the others: `PupilAssumption`, `GivenAssumption` |
| `SimpleServer_proofs` | `ServerNoCut`, `ServerNotAnothersPid` | `ServerAssumption` |
| `Market_proofs` | `MarketTypeOK`, `MarketPlayerIdsUnique`, `MarketOrderIdsUnique`, `MarketOnlyOwnerRemoves`, `MarketWorthChangesOnlyByRepeat`, `ListsAreSequences` | `MaxIdAssumption`, `MarketAssumption`; the last one: `ListsAssumption` |
| `Timetable_proofs` | `TimetableMapsAgree`, `TimetableSelectionsKnown`, `TimetableRunsOnce`, `TimetableSelectsSuitable`, `TimetableSessionsPrivate` | `ValueAssumption`, `LessonAssumption`; the last one: nothing |
| `Warehouses_proofs` | `KutuzovCountsMerges`, `KutuzovMakeConserves`, `WarehouseLinesHeld` | `WarehouseAssumption`; the last one: `LinesAssumption` |
| the same module | `RecipesKept`, `RecipesFound`, `HmakeIsExact`, `SavedIsRead` | `ItemsAssumption` |
| `Battle_proofs` | `EchoBlockedByTwin`, `BattleBlockedByTwin`, `BattleOneTurn`, `BattleHitsKeepTurn` | `LoopAssumption`, `BattleAssumption` |
| `SmallServers_proofs` | `MatrixMatricesKept`, `ChatOneOfEachName`, `EditorInStep`, `EditorQuitComesBack`, `BuffersSelectIsFilter`, `TextAsAsked` | `SmallAssumption` |

`Positions_proofs` has lemmas that several of these need.  The library's induction theorems
take an operator, which the installed provers cannot instantiate; `Induction` says the
same of a set of numbers, from the least number that is not in it (`MinOfNaturals`), and `Recursion` and `RuleFollowed`
that a function defined from one number to the next exists and has the values it
is defined by.  Loops over a sequence are therefore written in `Positions` and in the models as
functions of how far they have come, such as `Picked` (what is kept of a sequence) and `Total` (a sum over
it), and `PickedTells`, `PickedElements`, `TotalRule` and `TotalConcat` say what they return,
`SumScaled`, `SumOfBoth` and `SumExchanged` how sums are taken apart; `SumRule` does so for the library's fold over a finite set.

What is only model-checked: liveness (`Answered`, `ClosureSeen`, `ReadAtLast`), which is out of
the provers' reach; and the properties of the module with recursive operators, the red-black
tree of nodes (`KeysAsAsked`, `WalkIsComplete`), which the prover does not read: its recursions
go along the nodes of a tree that is being turned on the way, and not along a number.

Where an MC module instantiates the modules of several programs, what a module assumes of
its constants is an operator (`MatrixAssumption`, `KeyAssumption`, ...) that the MC module, or `SmallServers`, assumes.

## 13. Not modelled

* The data generator, the local front end and the tests of StudentDatabase: drivers of
  what is modelled, or random data.
* Konovalov_Daniil, vinklim, TatyanaYst and Chernov_Alexandr: they do not build, or pass their
  storage by value, so that a `put` never keeps anything: there is no behaviour over
  several steps.
* The SQLite headers in Grigoriev_S: vendored.
* Partly: the tokenizer's letters and `ParseFieldList` (they have no state and one token of
  lookahead), and `DataBase.h` of AleksandraNikolenko (declarations only).
* In every program: the wording of answers, logging, failures of `socket`, `bind`, `malloc` and of
  file operations, which end the program or are not tested by it.
