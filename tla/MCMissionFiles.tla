--------------------------- MODULE MCMissionFiles ---------------------------
(***************************************************************************)
(* An instance of MissionFiles for TLC.                                    *)
(***************************************************************************)
EXTENDS MissionFiles, TLC

CONSTANTS a, b, p, q, sherpa, transport

TwoLocations == {a, b}
LocationSymmetry == Permutations(Location)

\* A position with more digits than the writer writes: who has loaded a
\* location has it elsewhere than who has created it.
OnePosition == {1234567}

TwoPoints == {p, q}
\* An interval, and an instant, which implies no order.
TwoIntervals == {<<p, q>>, <<q, q>>}

\* One requirement, one location, and two requirements of a location.
OneOrTwoPlaces ==
  {<<place>> : place \in Location \X (Intervals \cup {FullMission})}
    \cup {<< <<l, <<q, q>>>>, <<l, <<p, q>>>> >> : l \in Location}

OneModel == {sherpa}
OneFunction == {transport}
\* Two agents, and none.
TwoPools == {[m \in OneModel |-> 2], [m \in OneModel |-> 0]}

\* One that a requirement implies, and one that contradicts it.
TwoOrders == {<<p, q, "<">>, <<q, p, "<=">>}

\* Two on one pair, one of them with two intervals.
TwoDurations == {<<p, q, <<<<0, 1234567>>>>>>, <<p, q, <<<<1, 2>>, <<4, 1000000000>>>>>>}
=============================================================================
