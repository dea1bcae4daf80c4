-------------------------------- MODULE Comand --------------------------------
(* The object comand of LoginovaIrene's server, for one column: a list of      *)
(* conditions that every request adds to.  main never calls comand::clear, so  *)
(* the conditions of all requests of all clients stay in force, until two of   *)
(* them contradict each other and a sort drops the list.                       *)
(* The columns do not meet in analyze: `column` is chosen once.                *)
EXTENDS ConditionLists

CONSTANTS Compared,  \* what a column may hold and a condition may name
          MaxUnread  \* conditions that may lie before the next sort

(* Beyond the bounds that a sort starts from nothing is kept apart.            *)
ASSUME ComparedAssumption == Compared \subseteq Lowest .. Highest

VARIABLES column,    \* which of gr_root, rat_root, name_root is looked at
          list,      \* that list
          answer,    \* of the last request: none, ok, counter, malformed
          allowed,   \* the values that satisfy every condition since the list was empty
          excluding, \* one of them was a !=
          unread,    \* conditions that were added and not sorted yet
          alive      \* the server runs

comandVars == << column, list, answer, allowed, excluding, unread, alive >>

(* A name is compared with a blank and a tilde, and starts with neither.       *)
Named(col) == IF col = "name" THEN Compared \ {Lowest, Highest} ELSE Compared

ConditionOf(col) == [cond : Conds, value : Named(col)]

Satisfying(conds) == { v \in Named(column) : Meaning(conds, v) }

Excludes(conds) == \E i \in DOMAIN conds : conds[i].cond = "NE"

ComandInit == /\ column \in Columns
        /\ list = << >> /\ answer = "none" /\ unread = 0 /\ alive = TRUE
        /\ allowed = Named(column) /\ excluding = FALSE

(* What was given since the list was empty; a refusal has left only `list`.    *)
Give(conds) ==
  /\ allowed' = Satisfying(conds) \cap (IF answer = "counter" THEN Satisfying(list) ELSE allowed)
  /\ excluding' = (Excludes(conds) \/ (answer # "counter" /\ excluding))

(* select and reselect with one condition on the column, or none.              *)
AnalyzeColumn(conds) ==
  LET sorted == Sort(column, conds \o list) IN
  /\ ~SortCrashes(column, conds \o list)
  /\ list' = sorted.list
  /\ answer' = IF sorted.ok THEN "ok" ELSE "counter"
  /\ unread' = 0
  /\ Give(conds)
  /\ UNCHANGED << column, alive >>

(* A sort follows the null pointer Less.                                       *)
Fault(conds) ==
  /\ SortCrashes(column, conds \o list)
  /\ alive' = FALSE
  /\ UNCHANGED << column, list, answer, allowed, excluding, unread >>

(* A later word is neither a column nor a comparison: analyze returns 1, and   *)
(* the conditions before it stay in front of the list.                         *)
MalformedColumn(c) ==
  /\ unread < MaxUnread
  /\ list' = << c >> \o list
  /\ answer' = "malformed"
  /\ unread' = unread + 1
  /\ Give(<< c >>)
  /\ UNCHANGED << column, alive >>

Requests == { << >> } \cup { << c >> : c \in ConditionOf(column) }

ComandNext == /\ alive
        /\ \/ \E conds \in Requests : AnalyzeColumn(conds) \/ Fault(conds)
           \/ \E c \in ConditionOf(column) : MalformedColumn(c)

ComandSpec == ComandInit /\ [][ComandNext]_comandVars

-------------------------------------------------------------------------------
Admitted == { v \in Named(column) : Admits(list, v) }

(* rat_sort leaves both bounds where they meet: the equality comes second.     *)
BothBoundsKept == Len(list) = 2 /\ list[2].cond = "EQ"

(* A request that is answered without an error leaves a list that admits the   *)
(* values which satisfy every condition given since the list was last empty,   *)
(* and no others: merging, cutting and reordering lose nothing.  A request     *)
(* refused for contradictory conditions (-1) has contradicted those in force.  *)
(* Not so where rat_sort keeps two bounds that meet, which then admits what is *)
(* above, or name_sort has excluded values, which makes bounds strict that are *)
(* not excluded: then values may be lost, but no name is admitted too many.    *)
KeepsMeaning ==
  LET excludedNames == column = "name" /\ excluding
  IN /\ answer = "ok" /\ ~BothBoundsKept /\ ~excludedNames => Admitted = allowed
     /\ answer = "ok" /\ column = "name" => Admitted \subseteq allowed
     /\ answer = "counter" /\ ~excludedNames => allowed = {}
===============================================================================
