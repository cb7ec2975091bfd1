---------------------------- MODULE MCAdQueries ----------------------------
(* Small instances of the reading side for TLC. *)
EXTENDS AdQueries

CONSTANTS a1, a2, a3, n1, n2

\* A negative and a zero, a good one and one above the maximum.
Limits == {-1, 0, 3, 4}

\* A client pages through the ads, or counts them, at the node that has them.
Paging(times) == [ads |-> <<a1, a2, a3>>, times |-> times, nodes |-> {n1},
                  readers |-> "pager", caches |-> {"memory"}]

\* One ad, asked for at the node that has it and at another one.
Polling == [ads |-> <<a1>>, times |-> <<1>>, nodes |-> {n1, n2},
            readers |-> "getters", caches |-> {"memory", "redis"}]

\* The first and the last ad saved share their time, and the newest is saved
\* between them: on pages of two the tie is on the border.
AllWorkloads == {Paging(<<1, 2, 1>>), Polling}

\* Ads saved in the order of their creation.
InOrder == {Paging(<<1, 2, 3>>)}

=============================================================================
