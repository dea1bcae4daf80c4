--------------------------- MODULE StudentService ---------------------------
(***************************************************************************)
(* StudentDatabase as its users see it: the same steps, with the query     *)
(* that the last step answered, so that what each query selects can be     *)
(* held against what StudentStore promises for that query.                 *)
(***************************************************************************)
EXTENDS StudentDatabase

VARIABLE asked   \* <<pid, query, "all" or "selection">>, or <<>>

serviceVars == <<vars, asked>>

ServiceInit == Init /\ asked = <<>>

Answer(p, q) ==
  \/ Select(p, q) /\ asked' = <<p, q, "all">>
  \/ Reselect(p, q) /\ asked' = <<p, q, "selection">>

ServiceNext ==
  \/ \E p \in User, q \in Queries : Answer(p, q)
  \/ Maintenance /\ asked' = <<>>

ServiceSpec == ServiceInit /\ [][ServiceNext]_serviceVars

(* The ids of the indexes are the sets of StudentStore.                    *)
Store == INSTANCE StudentStore
         WITH running <- up, rec <- data, live <- base.ids, chaos <- ub,
              view <- [p \in DOMAIN sel |-> sel[p].ids], StoreQueries <- Queries

(***************************************************************************)
(* The database with its indexes, partial removals, file and restarts      *)
(* implements StudentStore: each query selects, of the database or of the  *)
(* user's own selection, all it must and nothing it may not, until one     *)
(* with a != has corrupted the index; no request changes the selection of  *)
(* another user; a new session never takes over an old selection.          *)
(***************************************************************************)
ImplementsStore == Store!StoreSpec
=============================================================================
