------------------------------- MODULE Lists -------------------------------
\* What the components keep of a list: the comprehensions and loops that go through it
\* once, in its order.
EXTENDS Naturals, Sequences, FiniteSets

\* What a list has at some places.
Picked(seq, places) ==
  [n \in 1..Cardinality(places) |-> seq[CHOOSE i \in places : Cardinality(places \cap (1..i)) = n]]

\* What it has without repetitions: the first of each.
Distinct(seq) == Picked(seq, {i \in 1..Len(seq) : \A j \in 1..(i - 1) : seq[j] # seq[i]})

Listed(seq) == {seq[i] : i \in 1..Len(seq)}
=============================================================================
