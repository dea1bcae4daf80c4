-------------------------------- MODULE Positions --------------------------------
(* Loops over a sequence, as functions of how far they are.                    *)
EXTENDS Integers, Sequences, FiniteSets

(* What std::copy_if and std::remove_if leave of a sequence: its elements at   *)
(* some of its positions, in their order.                                      *)
Picked(s, K) ==
  LET upTo[n \in 0 .. Len(s)] ==
        IF n = 0 THEN << >> ELSE IF n \in K THEN Append(upTo[n - 1], s[n]) ELSE upTo[n - 1]
  IN upTo[Len(s)]

(* The elements of a finite set in an order: `before` has the pairs of which   *)
(* the first comes before the second.                                          *)
Foremost(S, before) == CHOOSE a \in S : \A b \in S \ {a} : << a, b >> \in before

Arranged(S, before) ==
  LET upTo[k \in 0 .. Cardinality(S)] ==
        IF k = 0 THEN << >>
        ELSE LET done == upTo[k - 1]
             IN Append(done, Foremost({a \in S : \A i \in DOMAIN done : done[i] # a}, before))
  IN upTo[Cardinality(S)]

(* The sum of a sequence of numbers.                                           *)
Total(s) ==
  LET upTo[n \in 0 .. Len(s)] == IF n = 0 THEN 0 ELSE upTo[n - 1] + s[n]
  IN upTo[Len(s)]
================================================================================
