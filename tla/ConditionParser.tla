-------------------------- MODULE ConditionParser --------------------------
(***************************************************************************)
(* The condition of a select or a reselect, from its tokens to the tree of *)
(* nodes that Process walks, against the grammar that the help text gives. *)
(* A user types the condition word by word; each state is a condition that *)
(* he may send.                                                            *)
(***************************************************************************)
EXTENDS Integers, SequencesExt

CONSTANTS
  TypedWords,  \* what a user types at a time: sequences of tokens
  OddWords,    \* those that are no part of a condition
  NumberText,  \* the texts that std::stoi and std::stod read
  MaxWords     \* bound: words of a condition; one odd word in the first five

TokenType == {"INTEGER", "FLOAT", "STRING", "COLUMN", "LOGICAL_OP",
              "COMPARE_OP", "SORT_OP", "PAREN_LEFT", "PAREN_RIGHT"}

(* What Tokenize hands on: it skips VOID and stops at END.  There are two  *)
(* logical operations.                                                     *)
Token == {t \in [type : TokenType, value : STRING] :
            t.type = "LOGICAL_OP" => t.value \in {"AND", "OR"}}

ASSUME ParserAssumption ==
  /\ \A w \in TypedWords : w \in Seq(Token)
  /\ OddWords \subseteq TypedWords /\ MaxWords \in Nat

VARIABLE typed  \* the words typed so far

(* Trees: <<"LEAF", column, comparison, text>>, <<"AND", lhs, rhs>>,       *)
(* <<"OR", lhs, rhs>>, the EmptyNode, and the pointer to no node.          *)
EmptyNode == <<"EMPTY">>
NullNode  == <<"NULL">>

(* Where a parse stands and the node it returns, or the exception.         *)
Parsed(at, node) == [at |-> at, node |-> node]
Throw == Parsed(0, NullNode)

-----------------------------------------------------------------------------
AtEnd(ts, i) == i > Len(ts)

HasType(ts, i, type) == ~AtEnd(ts, i) /\ ts[i].type = type

(* Any column but group and rating is compared as a name.  The type of the *)
(* value is not checked; stoi and stod throw on a text that is no number.  *)
ParseComparison(ts, i) ==
  LET col   == ts[i].value
      value == ts[i+2].value
  IN  IF ~HasType(ts, i, "COLUMN") \/ ~HasType(ts, i+1, "COMPARE_OP") \/ AtEnd(ts, i+2)
      THEN Throw
      ELSE IF col \in {"group", "rating"}
      THEN IF value \in NumberText
           THEN Parsed(i+3, <<"LEAF", col, ts[i+1].value, value>>) ELSE Throw
      ELSE Parsed(i+3, <<"LEAF", "name", ts[i+1].value, value>>)

Precedence(op) == IF op = "AND" THEN 2 ELSE 1

(* Mutant of Binds: operators of one precedence associate to the right.    *)
BindsEqual(op, precedence) == Precedence(op) >= precedence

(* The loop goes on with op under an operator of the given precedence.     *)
Binds(op, precedence) == Precedence(op) > precedence

(* Mutant of Closes: the end of the tokens will do for the ")".            *)
ClosesAtEnd(ts, i) == AtEnd(ts, i) \/ HasType(ts, i, "PAREN_RIGHT")

Closes(ts, i) == HasType(ts, i, "PAREN_RIGHT")

(* The part before the loop: a condition in parentheses or a comparison.   *)
(* `from` is what the recursive calls return, by place and precedence.     *)
FirstOperand(ts, i, from) ==
  IF AtEnd(ts, i) THEN Parsed(i, NullNode)
  ELSE IF ~HasType(ts, i, "PAREN_LEFT") THEN ParseComparison(ts, i)
  ELSE LET inner == from[i+1][0]
       IN  IF inner = Throw \/ ~Closes(ts, inner.at) THEN Throw
           ELSE Parsed(inner.at + 1, inner.node)

(* A turn of the loop, with what is parsed so far; none when it has ended. *)
NextOperand(ts, left, precedence, from) ==
  IF left = Throw \/ AtEnd(ts, left.at) \/ HasType(ts, left.at, "PAREN_RIGHT") THEN left
  ELSE IF ~HasType(ts, left.at, "LOGICAL_OP") THEN Throw
  ELSE LET op    == ts[left.at].value
           right == from[left.at + 1][Precedence(op)]
       IN  IF ~Binds(op, precedence) THEN left
           ELSE IF right = Throw THEN Throw
           ELSE Parsed(right.at, <<op, left.node, right.node>>)

ParseExpression(ts, i, precedence, from) ==
  LET loop[n \in 0 .. Len(ts)] ==
        IF n = 0 THEN FirstOperand(ts, i, from)
        ELSE NextOperand(ts, loop[n-1], precedence, from)
  IN  loop[Len(ts)]

(* ParseExpression(istream): no tokens make an EmptyNode.                  *)
ParseCondition(ts) ==
  LET from[i \in 1 .. Len(ts) + 1] ==
        [precedence \in 0 .. 2 |-> ParseExpression(ts, i, precedence, from)]
      top == from[1][0]
  IN  IF top = Throw \/ ~AtEnd(ts, top.at) THEN Throw
      ELSE IF top.node = NullNode THEN Parsed(top.at, EmptyNode) ELSE top

Accepted(ts) == ParseCondition(ts) # Throw

-----------------------------------------------------------------------------
tokens == FlattenSeq(typed)

TypingInit == typed = <<>>

Type(w) ==
  /\ Len(typed) < MaxWords
  /\ w \in OddWords => Len(typed) < 5 /\ \A i \in DOMAIN typed : typed[i] \notin OddWords
  /\ typed' = Append(typed, w)

TypingNext == \E w \in TypedWords : Type(w)

TypingSpec == TypingInit /\ [][TypingNext]_typed

-----------------------------------------------------------------------------
(***************************************************************************)
(* The grammar: a name is compared with a string, a group with an integer, *)
(* a rating with a number, which stoi or stod can read; AND binds tighter  *)
(* than OR; both associate to the left.  `of` has the trees of fewer       *)
(* tokens: of[n][i][level] is a set of trees of the n tokens from the i-th *)
(* on, of conditions at level 0, without an OR at level 1, of a comparison *)
(* or a condition in parentheses at level 2.                               *)
(***************************************************************************)
ValueType(col) ==
  CASE col = "name"   -> {"STRING"}
    [] col = "group"  -> {"INTEGER"}
    [] col = "rating" -> {"INTEGER", "FLOAT"}
    [] OTHER          -> {}

SimpleTrees(ts, i) ==
  {t \in {<<"LEAF", ts[i].value, ts[i+1].value, ts[i+2].value>>} :
     /\ ts[i].type = "COLUMN"
     /\ ts[i+1].type = "COMPARE_OP"
     /\ ts[i+2].type \in ValueType(ts[i].value)
     /\ ts[i+2].type = "STRING" \/ ts[i+2].value \in NumberText}

PrimaryTrees(ts, i, n, of) ==
  (IF n = 3 THEN SimpleTrees(ts, i) ELSE {})
  \cup (IF n > 2 /\ ts[i].type = "PAREN_LEFT" /\ ts[i+n-1].type = "PAREN_RIGHT"
        THEN of[n-2][i+1][0] ELSE {})

(* The operation stands after k tokens, and its operands on its two sides. *)
OperationTrees(ts, i, n, op, level, of) ==
  UNION {{<<op, l, r>> : l \in of[k][i][level], r \in of[n-1-k][i+k+1][level+1]} :
           k \in {k \in 0 .. n-1 : ts[i+k].type = "LOGICAL_OP" /\ ts[i+k].value = op}}

TreesOf(ts, i, n, level, of) ==
  PrimaryTrees(ts, i, n, of)
  \cup (IF level < 2 THEN OperationTrees(ts, i, n, "AND", 1, of) ELSE {})
  \cup (IF level < 1 THEN OperationTrees(ts, i, n, "OR", 0, of) ELSE {})

(* The trees of the first m tokens.                                        *)
ConditionTrees(ts, m) ==
  LET of[n \in 0 .. Len(ts)] ==
        [i \in 1 .. Len(ts) + 1 - n |-> [level \in 0 .. 2 |-> TreesOf(ts, i, n, level, of)]]
  IN  of[m][1][0]

-----------------------------------------------------------------------------
(* An operand is missing somewhere in the tree, no deeper than it can be.  *)
HasNull(node, depth) ==
  LET below[n \in 0 .. depth] ==
        IF n = 0 THEN {node}
        ELSE UNION {{m[2], m[3]} : m \in {m \in below[n-1] : m[1] \in {"AND", "OR"}}}
  IN  \E n \in 0 .. depth : NullNode \in below[n]

(* The condition names what the help text lets it name: no column id or    *)
(* info, and for each comparison a value of the type of its column.        *)
WellTyped(ts) ==
  \A i \in DOMAIN ts :
    ts[i].type = "COLUMN" => AtEnd(ts, i+2) \/ ts[i+2].type \in ValueType(ts[i].value)

(* Every condition of the grammar is accepted, and its tree is the one of  *)
(* the grammar: parentheses, precedence and association survive however    *)
(* they are nested (ParseExpression passes each operator's precedence on). *)
GrammarIsParsed ==
  \A t \in ConditionTrees(tokens, Len(tokens)) :
    ParseCondition(tokens) = Parsed(Len(tokens)+1, t)

(* What is accepted is a condition of the grammar, but for a value or a    *)
(* column of another type and for a logical operation at the very end: a   *)
(* missing operand, a missing or a spare parenthesis or two comparisons in *)
(* a row are rejected wherever they are.                                   *)
AcceptedIsCondition ==
  (Accepted(tokens) /\ tokens # <<>> /\ WellTyped(tokens)) =>
     IF HasType(tokens, Len(tokens), "LOGICAL_OP")
     THEN /\ HasNull(ParseCondition(tokens).node, Len(tokens))
          /\ ConditionTrees(tokens, Len(tokens) - 1) # {}
     ELSE ParseCondition(tokens).node \in ConditionTrees(tokens, Len(tokens))

(* Together: the recursive descent is the grammar, on every condition.     *)
ParserIsGrammar == GrammarIsParsed /\ AcceptedIsCondition
=============================================================================
