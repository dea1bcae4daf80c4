---------------------------- MODULE StudentStore ----------------------------
(***************************************************************************)
(* What StudentDatabase promises its users, without the indexes: records   *)
(* with ids, the ids that are still in the database, and for every user    *)
(* the set of ids of his last selection.                                   *)
(*                                                                         *)
(* A query promises two sets: the ids it must select and the ids it may    *)
(* select.  They differ where the code and its help text differ: ">" is    *)
(* only sure to select nothing below the value, and a name pattern may     *)
(* select the one name that follows the names with the prefix.             *)
(***************************************************************************)
EXTENDS StudentIndex, Sequences

CONSTANTS StoreQueries  \* the queries that users make

VARIABLES
  running,  \* a process serves the database
  rec,      \* every record inserted, rec[id + 1] has the id
  live,     \* the ids in the database
  view,     \* per user, the ids of his selection
  asked,    \* the query answered last, with its user and its source
  chaos     \* a "!=" query has run: queries promise nothing any more

storeVars == <<running, rec, live, view, asked, chaos>>

NoQuery == <<>>

StoreInit ==
  /\ running = FALSE
  /\ rec = <<>>
  /\ live = {}
  /\ view = <<>>
  /\ asked = NoQuery
  /\ chaos = FALSE

Known == 0 .. Len(rec) - 1

-----------------------------------------------------------------------------
MustMatch(l, k) ==
  \/ l.cmp = "<" /\ k < l.val
  \/ l.cmp = "<=" /\ k <= l.val
  \/ l.cmp = ">=" /\ k >= l.val
  \/ l.cmp = "==" /\ k = l.val
  \/ l.cmp = "!=" /\ k # l.val
  \/ l.cmp = "==*" /\ l.val <= k /\ k < l.to
  \/ l.cmp = "!=*" /\ ~(l.val <= k /\ k <= l.to)

MayMatch(l, k) ==
  \/ MustMatch(l, k)
  \/ l.cmp = ">" /\ k >= l.val
  \/ l.cmp = "==*" /\ k = l.to

MustSelect(l, from) == {id \in from : MustMatch(l, rec[id+1][l.col])}
MaySelect(l, from)  == {id \in from : MayMatch(l, rec[id+1][l.col])}

Promised(q, from, S) ==
  CASE q.op = "EMPTY" -> S = {}
    [] q.op = "ONE"   -> /\ MustSelect(q.lhs, from) \subseteq S
                         /\ S \subseteq MaySelect(q.lhs, from)
    [] q.op = "AND"   -> /\ MustSelect(q.lhs, from) \cap MustSelect(q.rhs, from) \subseteq S
                         /\ S \subseteq MaySelect(q.lhs, from) \cap MaySelect(q.rhs, from)
    [] q.op = "OR"    -> /\ MustSelect(q.lhs, from) \cup MustSelect(q.rhs, from) \subseteq S
                         /\ S \subseteq MaySelect(q.lhs, from) \cup MaySelect(q.rhs, from)

Risky(q) == \E l \in Leaves(q) : l.cmp \in Negative

-----------------------------------------------------------------------------
ViewOf(p) == IF p \in DOMAIN view THEN view[p] ELSE {}

SetView(p, S) == view' = [x \in DOMAIN view \cup {p} |-> IF x = p THEN S ELSE view[x]]

Open ==
  /\ ~running
  /\ running' = TRUE
  /\ rec' \in Seq(Student)
  /\ live' = 0 .. Len(rec') - 1
  /\ UNCHANGED <<view, chaos>>

Close ==
  /\ running
  /\ running' = FALSE
  /\ rec' = <<>>
  /\ live' = {}
  /\ view' = <<>>
  /\ chaos' = FALSE

(* A new user never takes over the selection of another one.               *)
NewUser(p) ==
  /\ running
  /\ p \notin DOMAIN view
  /\ SetView(p, live)
  /\ UNCHANGED <<running, rec, live, chaos>>

Insert(s) ==
  /\ running
  /\ rec' = Append(rec, s)
  /\ live' = live \cup {Len(rec)}
  /\ UNCHANGED <<running, view, chaos>>

(* Select from everything, or from one's own selection.  A query with a    *)
(* "!=" may, but need not, be the last one that promises anything.         *)
Choose(p, q, source) ==
  /\ running
  /\ asked' = <<p, q, source>>
  /\ chaos' \in {chaos, chaos \/ Risky(q)}
  /\ \E S \in SUBSET Known :
       /\ SetView(p, S)
       /\ ~chaos' => Promised(q, IF source = "all" THEN live ELSE ViewOf(p), S)
  /\ UNCHANGED <<running, rec, live>>

(* An id leaves the database, and perhaps the selection of one user.       *)
Drop(id, p) ==
  /\ running
  /\ live' = live \ {id}
  /\ \/ UNCHANGED view
     \/ SetView(p, ViewOf(p) \ {id})
  /\ UNCHANGED <<running, rec, chaos>>

Forget(p) ==
  /\ running
  /\ SetView(p, {})
  /\ UNCHANGED <<running, rec, live, chaos>>

Look(p) ==
  /\ running
  /\ SetView(p, ViewOf(p))
  /\ UNCHANGED <<running, rec, live, chaos>>

StoreUser == DOMAIN view \cup {-1}

StoreNext ==
  \/ \E p \in StoreUser, q \in StoreQueries, source \in {"all", "selection"} :
       Choose(p, q, source)
  \/ /\ asked' = NoQuery
     /\ \/ Open
        \/ Close
        \/ \E p \in DOMAIN view' : NewUser(p)
        \/ \E s \in Student : Insert(s)
        \/ \E id \in Known, p \in StoreUser : Drop(id, p)
        \/ \E p \in StoreUser : Forget(p) \/ Look(p)
        \/ UNCHANGED <<running, rec, live, view, chaos>>

StoreSpec == StoreInit /\ [][StoreNext]_storeVars
=============================================================================
