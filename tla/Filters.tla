------------------------------ MODULE Filters -------------------------------
(***************************************************************************)
(* Loops over a sequence that keep some of its elements, as the plan and   *)
(* the queue of a retrieval are made.  What is kept is a set: a loop       *)
(* decides on an element by what it is.                                    *)
(***************************************************************************)
EXTENDS Integers, Sequences

\* The elements of s that are in S, in their order.
Within(s, S) ==
    LET taken[n \in 0..Len(s)] ==
            IF n = 0 THEN <<>>
            ELSE IF s[n] \in S THEN Append(taken[n - 1], s[n])
            ELSE taken[n - 1]
    IN  taken[Len(s)]

\* How often s has x.
Times(x, s) == Len(Within(s, {x}))
=============================================================================
