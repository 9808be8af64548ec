--------------------------- MODULE MCTimelineCSP ---------------------------
(***************************************************************************)
(* An instance of TimelineCSP for TLC: four time points, two locations.    *)
(***************************************************************************)
EXTENDS TimelineCSP

At(R, l, t, u) == [roles |-> R, loc |-> l, from |-> t, to |-> u]
Enter(R, l, n, m) == [roles |-> R, loc |-> l, min |-> n, max |-> m]

Demands(R, A, m) ==
  [requirements : R, access : A, mobile : m]

\* Requirements of a role do not touch each other: one role on its own, two
\* with access constraints, a role without a use and constraints about it.
Solo ==
  { <<At({1}, 0, 0, 0), At({1}, 1, 3, 3)>>,
    <<At({1}, 1, 1, 2), At({1}, 0, 0, 0), At({2}, 0, 0, 0)>>,
    <<At({1}, 1, 0, 1), At({1}, 0, 3, 3)>> }
Pair ==
  { <<At({1}, 0, 0, 1), At({2}, 1, 0, 0), At({1, 2}, 1, 3, 3)>>,
    <<At({1, 2}, 1, 0, 0), At({1}, 0, 2, 2), At({2}, 0, 2, 3)>> }
Idle == { <<At({1}, 0, 0, 0), At({2}, 0, 0, 0)>> }

AtMostOneEnters == <<Enter({1, 2}, 1, 0, 1)>>
SecondComesBack == <<Enter({2}, 0, 1, 2), Enter({1}, 1, 1, 1)>>

SeparateDemands ==
  Demands(Solo \cup Idle, {<<>>}, {{1}})
    \cup Demands(Pair, {AtMostOneEnters}, {{1, 2}})
    \cup Demands(Pair \cup Solo, {SecondComesBack}, {{1}})

ASSUME SeparateDemandsAssumption == \A d \in SeparateDemands : Apart(d)

\* One requirement ends where the next one of the role begins.
TouchingDemands ==
  Demands({<<At({1}, 0, 0, 1), At({1}, 1, 1, 3)>>, <<At({1}, 0, 0, 1), At({1}, 1, 3, 3)>>},
          {<<>>}, {{1}})
=============================================================================
