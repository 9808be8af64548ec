--------------------------- MODULE MCTransshipment ---------------------------
(***************************************************************************)
(* Instances of Transshipment for TLC: two mobile agents and two items     *)
(* between two locations.                                                  *)
(***************************************************************************)
EXTENDS Transshipment

req(R, l, t, u) == [roles |-> R, loc |-> l, from |-> t, to |-> u]
dem(mobile, rs) == [requirements |-> rs, access |-> << >>, mobile |-> mobile]

A == 0
B == 1

\* Agents 3 and 4 drive, items 1 and 2 wait at B and are needed at A.  One agent
\* drives to B and stays, the other one may come along and drive back.
Fetch == dem({3, 4}, <<req({3, 4}, A, 0, 0), req({3}, B, 1, 2), req({4}, A, 2, 3),
                       req({1, 2}, B, 0, 1), req({1, 2}, A, 2, 3)>>)
\* The same drives, but the items need to be at A at the end only, which is an
\* instant, or stay at B.
Late == dem({3, 4}, <<req({3, 4}, A, 0, 0), req({3}, B, 1, 2), req({4}, A, 2, 3),
                      req({1, 2}, B, 0, 1), req({1}, A, 3, 3), req({2}, B, 2, 3)>>)
\* Both agents drive back, with an item each.
Convoy == dem({3, 4}, <<req({3, 4}, B, 0, 1), req({3}, A, 2, 3), req({4}, A, 3, 3),
                        req({1, 2}, B, 0, 1), req({1, 2}, A, 2, 3)>>)
\* The item is listed after the agent, and may take two places.
Bulky == dem({1}, <<req({1, 4}, B, 0, 1), req({1, 4}, A, 2, 3)>>)
Split == dem({1}, <<req({1, 4}, B, 0, 1), req({1}, A, 2, 3), req({4}, A, 3, 3)>>)
\* An item without a start, one without any interval.
Appears == dem({3}, <<req({3}, B, 0, 1), req({3}, A, 2, 3), req({1}, B, 1, 1), req({1}, A, 2, 3)>>)
Instants == dem({3}, <<req({3}, B, 0, 1), req({3}, A, 2, 3), req({1}, B, 0, 0), req({1}, A, 3, 3)>>)
\* An item that nothing is needed to carry.
Weightless == dem({3}, <<req({3}, B, 0, 1), req({3}, A, 2, 3), req({0}, B, 0, 1), req({0}, A, 2, 3)>>)
\* No agent comes for the item at B; another one waits at A, where nobody needs it.
StandIn == dem({3}, <<req({3}, A, 0, 1), req({3}, A, 2, 3), req({1}, B, 0, 1), req({1}, A, 2, 3),
                      req({2}, A, 0, 1)>>)

MCRoles == 0..4
MCDemands == {Fetch, Late, Convoy, Bulky, Split, Appears, Instants, Weightless,
              StandIn}
Fetches == {Fetch}
Rooms == [r \in MCRoles |-> IF r = 1 THEN 2 ELSE 1]
Ones == [r \in MCRoles |-> 1]
Bulks == [r \in MCRoles |-> CASE r = 0 -> 0 [] r = 4 -> 2 [] OTHER -> 1]
Pairs == {{3, 1, 2}}
FourOptions == {o \in [cache : BOOLEAN, allowFlaws : BOOLEAN, check : BOOLEAN] : o.check = o.allowFlaws}
=============================================================================
