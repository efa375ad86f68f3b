----------------------------- MODULE MCWpaGroup -----------------------------
\* Bounds for TLC.
EXTENDS WpaGroup

CONSTANTS s1, s2   \* the stations

Each(n) == [s \in Stations |-> n]
OnlyFirst(n) == [s \in Stations |-> IF s = s1 THEN n ELSE 0]

\* Two stations and a rekey; one station that leaves and comes again, with two
\* rekeys; one that stays, with four.
MCBudgets ==
    {[joins |-> Each(1), gone |-> Each(0), rekeys |-> 1],
     [joins |-> OnlyFirst(2), gone |-> OnlyFirst(1), rekeys |-> 2],
     [joins |-> OnlyFirst(1), gone |-> Each(0), rekeys |-> 4]}

\* A station that stays, and two rekeys.
MCTwoRekeys == {[joins |-> Each(1), gone |-> Each(0), rekeys |-> 2]}
=============================================================================
