---------------------------- MODULE IndexedChain ----------------------------
(***************************************************************************)
(* What the harvester promises about the stored blocks while it runs: they *)
(* are a chain that only grows at its head, or has a suffix replaced by a  *)
(* branch that is at least as high, and takes every number that it drops.  *)
(***************************************************************************)
EXTENDS BlockTree

VARIABLE stored

IsChain(S) ==
    /\ \A a, b \in S : Height[a] = Height[b] => a = b
    /\ \A a, b \in S : Height[a] < Height[b] => Parent[b] \in S

HeadOf(S) == {b \in S : \A c \in S : Height[c] <= Height[b]}

Init == stored = {}

\* A first block, or a child of the head.
Extend(b) ==
    /\ stored = {} \/ HeadOf(stored) = {Parent[b]}
    /\ stored' = stored \cup {b}

\* The blocks of number n and higher give way to a chain up to head, in which
\* each of their numbers is taken again.
Reorganize(n, head) ==
    /\ {b \in stored : Height[b] < n} = {b \in stored' : Height[b] < n}
    /\ IsChain(stored')
    /\ HeadOf(stored') = {head}
    /\ \A b \in stored : Height[b] <= Height[head]
    /\ \A b \in stored : \E c \in stored' : Height[c] = Height[b]

Next ==
    \/ \E b \in Block : Extend(b)
    \/ /\ stored' \in SUBSET Block
       /\ \E head \in Block : \E n \in 0 .. Height[head] : Reorganize(n, head)

Spec == Init /\ [][Next]_stored
=============================================================================
