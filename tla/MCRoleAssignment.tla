-------------------------- MODULE MCRoleAssignment --------------------------
(***************************************************************************)
(* An instance of RoleAssignment for TLC: two rovers and a payload, three  *)
(* requirements at two locations, in an order where the last requirement   *)
(* comes after the others and in one where it touches them.                *)
(***************************************************************************)
EXTENDS RoleAssignment, TLC

MCRole == {"r1", "r2", "p1"}
MCModel == {"rover", "payload"}
MCModelOf == [r \in MCRole |-> IF r = "p1" THEN "payload" ELSE "rover"]
MCModelIndex == [m \in MCModel |-> IF m = "payload" THEN 1 ELSE 2]
MCMobile == {"rover"}
MCFunction == {"move", "carry"}

MCPools == [MCModel -> 0..2]
\* A rover moves; two rovers, or a rover with the payload, carry more.
MCSupport ==
  [F \in SUBSET MCFunction |->
     {p \in MCPools : /\ "move" \in F => p["rover"] > 0
                      /\ "carry" \in F => p["rover"] > 0 /\ p["rover"] + p["payload"] > 1
                      /\ F = {} => \A m \in MCModel : p[m] = 0
                      /\ F # {} => p["rover"] + p["payload"] <= 2}]
MCSaturation == [f \in MCFunction |-> [m \in MCModel |-> IF f = "carry" THEN 2 ELSE 1]]

MCOrders ==
  {[t0 |-> 0, t1 |-> 1, t2 |-> 2, t3 |-> 3], [t0 |-> 0, t1 |-> 1, t2 |-> 1, t3 |-> 2]}

C(location, from, to, resource, bound, n) ==
  [location |-> location, from |-> from, to |-> to, resource |-> resource,
   bound |-> bound, cardinality |-> n]
MCConditions ==
  {C("A", "t0", "t1", "rover", "MIN", 1), C("B", "t0", "t1", "payload", "MIN", 1),
   C("A", "t2", "t3", "move", "MIN", 1), C("A", "t2", "t3", "payload", "MAX", 0)}

MCFull == <<"start", "end">>
K(type, model, at, n) == [type |-> type, model |-> model, at |-> at, value |-> n]
AtA == {[location |-> "A", interval |-> MCFull]}
Later == {[location |-> "A", interval |-> <<"t2", "t3">>]}
Everywhere == AtA \cup {[location |-> "B", interval |-> <<"t0", "t1">>]}

\* With more to carry there are distributions in which no rover, but the payload, is
\* required twice.
MCCarry == {K("MIN_FUNCTION", "carry", Later, 0)}
MCMissions ==
  {{K("MIN_EQUAL", "rover", AtA, 1)}, {K("MAX_DISTINCT", "rover", AtA, 1)}}
    \cup {c \cup MCCarry :
            c \in {{}, {K("MAX_EQUAL", "rover", AtA, 0)}, {K("ALL_EQUAL", "rover", AtA, 0)},
                   {K("ALL_DISTINCT", "rover", AtA, 0)}, {K("MIN", "rover", Everywhere, 2)},
                   {K("MAX", "rover", AtA, 1)}, {K("MIN_DISTINCT", "rover", AtA, 1)}}}

\* Masters with every set of constraints; slaves; and searches with a rover to spare.
S(forceMin, n, constraints, resolvers) ==
  [forceMin |-> forceMin, bounded |-> IF forceMin THEN {} ELSE {"mobile"},
   offset |-> [k \in Kinds |-> n], constraints |-> constraints, resolvers |-> resolvers]
MCSearches ==
  {S(TRUE, 0, c, {}) : c \in MCMissions}
    \cup {S(TRUE, 0, {}, MCCarry), S(TRUE, 0, {K("MIN_DISTINCT", "rover", AtA, 1)}, MCCarry),
          S(FALSE, 1, {K("MAX", "rover", AtA, 1)}, MCCarry),
          S(FALSE, 1, {K("MAX", "rover", AtA, 1), K("MIN", "rover", Everywhere, 2)}, {})}
=============================================================================
