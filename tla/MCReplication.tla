---------------------------- MODULE MCReplication ----------------------------
(* Replication for TLC: which follower opens which stream. *)
EXTENDS Replication, TLC

CONSTANTS f1, f2, s1, s2

\* Threads that commit are interchangeable.
WriterSymmetry == Permutations(Writers)

\* One follower opens every stream: one at start, another one after a restart.
OneFollowerOwner == [c \in Conns |-> f1]

\* Two followers with one stream each.
TwoFollowersOwner == [c \in Conns |-> IF c = s1 THEN f1 ELSE f2]

\* A follower and its stream change places with the other ones.
FollowerSymmetry ==
    {p \in Permutations({f1, f2, s1, s2}) :
        \A c \in Conns : p[c] \in Conns /\ Owner[p[c]] = p[Owner[c]]}
=============================================================================
