---------------------------- MODULE MCFieldValues ----------------------------
(***************************************************************************)
(* An instance of FieldValues for TLC.                                     *)
(***************************************************************************)
EXTENDS FieldValues, TLC

Number(n) == [number |-> n, more |-> FALSE, has |-> "nothing"]

Word(has) == [number |-> NoNumber, more |-> TRUE, has |-> has]

\* "", "2-01-01", "-2.25"; numbers too fine and too great for a double, and
\* beyond an int and a long long at either end; words, with what is misread.
SmallTexts ==
    {EmptyText, [number |-> 200, more |-> TRUE, has |-> "nothing"]}
      \cup {Number(n) : n \in {1, -225, -300, 300, -500, -600, 900}}
      \cup {Word(has) : has \in Contents}

\* FieldObjects and addresses are alike.
Symmetry == Permutations(FieldObjects) \cup Permutations(Addresses)
=============================================================================
