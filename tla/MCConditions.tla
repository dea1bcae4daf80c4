------------------------- MODULE MCConditions ------------------------------
(* The two ways that conditions are read, one after the other: a behaviour *)
(* is one program's.  StudentDatabase: conditions of up to seven words.    *)
(* LoginovaIrene: three values strictly between the bounds, and the bounds *)
(* themselves.                                                             *)
EXTENDS ConditionParser, Comand

VARIABLE program

(* The program that does not run has one initial state.                    *)
MCInit ==
  /\ TypingInit /\ ComandInit /\ program \in {"StudentDatabase", "LoginovaIrene"}
  /\ program = "LoginovaIrene" \/ column = "group"

MCNext ==
  /\ program' = program
  /\ \/ program = "StudentDatabase" /\ TypingNext /\ UNCHANGED comandVars
     \/ program = "LoginovaIrene" /\ ComandNext /\ UNCHANGED typed

MCSpec == MCInit /\ [][MCNext]_<<program, typed, comandVars>>

-----------------------------------------------------------------------------

T(type, value) == [type |-> type, value |-> value]

Col(c) == T("COLUMN", c)
Cmp == T("COMPARE_OP", "==")
Str == T("STRING", "Ivan")
Int4 == T("INTEGER", "4")

MCWordsCore ==
  { <<Col("name"), Cmp, Str>>, <<T("LOGICAL_OP", "AND")>>, <<T("LOGICAL_OP", "OR")>>,
    <<T("PAREN_LEFT", "(")>>, <<T("PAREN_RIGHT", ")")>> }

(* Half a comparison, one of a column with a value of another type, or the *)
(* word that belongs behind the fields of a print.                         *)
MCOddWords ==
  { <<Col("name")>>, <<Col("name"), Cmp>>, <<Str>>, <<T("SORT_OP", "")>>,
    <<Col("group"), Cmp, Int4>>, <<Col("group"), Cmp, Str>>, <<Col("id"), Cmp, Int4>> }

MCWords == MCWordsCore \cup MCOddWords
=============================================================================
