---------------------------- MODULE MCInventories ----------------------------
(* Instances of Inventories.                                               *)
EXTENDS Inventories

Sizes == [main |-> 2, craft |-> 1, craftresult |-> 1, chest |-> 1]
Maxima == [i \in Items |-> 2]
Start(m1, m2, c, r, o) ==
    [s \in Slots |-> CASE s = <<"main", 1>> -> m1 [] s = <<"main", 2>> -> m2
                       [] s = <<"craft", 1>> -> c [] s = <<"craftresult", 1>> -> r [] OTHER -> o]
\* A full slot, one with room, an ingredient; the other inventory with what
\* fits and with what does not.
A(n) == Of("a", n)
B(n) == Of("b", n)
Starts == {Start(A(2), B(1), A(1), Empty, A(1)), Start(A(1), Empty, A(2), B(2), B(2))}
ABecomesB == [input |-> "a", output |-> "b", replacement |-> "b"]
Replies == -1 .. 2
Stacks == {Empty, Of("b", 2)}
=============================================================================
