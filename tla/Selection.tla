------------------------------ MODULE Selection ------------------------------
(***************************************************************************)
(* The entries of a sequence that lie in a set: where they are, how many   *)
(* they are, and the sequence they form.  The properties use them where an *)
(* operator with a recursive definition would put their proof out of       *)
(* reach.                                                                  *)
(***************************************************************************)
EXTENDS Integers, Sequences, FiniteSets

Places(s, V) == {n \in DOMAIN s : s[n] \in V}

Count(s, V) == Cardinality(Places(s, V))

\* The k-th of the numbers in S.
Nth(S, k) == CHOOSE n \in S : Cardinality({m \in S : m <= n}) = k

Only(s, V) ==
    LET kept == Places(s, V)
    IN  [k \in 1 .. Cardinality(kept) |-> s[Nth(kept, k)]]

\* What the function f makes of the entries it is defined for.
Picked(s, f) ==
    LET kept == Only(s, DOMAIN f) IN [n \in DOMAIN kept |-> f[kept[n]]]

\* The same in several queues, a place with the queue it is in.
PlacesIn(queues, V) == UNION {{<<q, n>> : n \in Places(queues[q], V)} : q \in DOMAIN queues}

CountIn(queues, V) == Cardinality(PlacesIn(queues, V))
=============================================================================
