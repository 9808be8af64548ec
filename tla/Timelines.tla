------------------------------ MODULE Timelines ------------------------------
(***************************************************************************)
(* What the search for timelines promises: out of all plans, the           *)
(* constraints keep exactly those that visit what the requirements demand  *)
(* and respect the access constraints; a decision of the search splits     *)
(* them; the search ends with one path for every mobile role, or with no   *)
(* plan left.                                                              *)
(***************************************************************************)
EXTENDS TimelinePlans

VARIABLES
  demands,      \* the requirements, access constraints and mobile roles
  plans,        \* the plans that are still possible
  status        \* posting, search, solved or failed

Init ==
  /\ demands \in DemandSets
  /\ plans = Plans(demands)
  /\ status = "posting"

\* Without a role that takes part there is nothing to plan.
Post ==
  /\ status = "posting"
  /\ plans' = {f \in plans : /\ Takers(demands) # {}
                             /\ MeetsRequirements(demands, f)
                             /\ RespectsAccess(demands, f)}
  /\ status' \in {"search", "failed"}
  /\ status' = "failed" => plans' = {}
  /\ UNCHANGED demands

\* The search decides on a move of a role, one way or the other.
Decide ==
  /\ status = "search"
  /\ \E r \in Takers(demands), t \in 0..(NumTimes - 2), l, n \in Locs :
       \/ plans' = {f \in plans : Moves(f, r, t, l, n)}
       \/ plans' = {f \in plans : ~Moves(f, r, t, l, n)}
  /\ UNCHANGED <<demands, status>>

\* It gives up only if no plan is left.
Fail ==
  /\ status = "search" /\ plans = {}
  /\ status' = "failed"
  /\ UNCHANGED <<demands, plans>>

\* It is over when the mobile roles have one path each, and then, if there
\* are no other roles, has a plan.
Finish ==
  /\ status = "search"
  /\ \A f, g \in plans : \A r \in Takers(demands) \cap demands.mobile : f[r] = g[r]
  /\ Takers(demands) \subseteq demands.mobile => plans # {}
  /\ status' = "solved"
  /\ UNCHANGED <<demands, plans>>

Next == Post \/ Decide \/ Fail \/ Finish

Spec == Init /\ [][Next]_<<demands, plans, status>>
=============================================================================
