-------------------------- MODULE MCTransportSearch --------------------------
(***************************************************************************)
(* An instance of TransportSearch for TLC: a plan of every kind.           *)
(***************************************************************************)
EXTENDS TransportSearch, TLC

CONSTANTS perfect, broken, slow, stuck, poor   \* plans
CONSTANTS capacity, transfer                   \* flaws

FivePlans == {perfect, broken, slow, stuck, poor}

TwoFlaws == {capacity, transfer}

\* `broken` is flawless, but leaves an immobile agent unattended.
PlanFlaws ==
  (perfect :> {}) @@ (broken :> {}) @@ (slow :> {capacity})
    @@ (stuck :> {transfer}) @@ (poor :> {capacity, transfer})

\* A lack of capacity at a requirement has a resolver; a coalition that cannot move, on
\* a way that no requirement is about, has an option that no constraint is made of.
Resolvers == (capacity :> {perfect, broken, poor}) @@ (transfer :> {perfect})

AllConfigurations == [hillClimbing : BOOLEAN, masterSlave : BOOLEAN, minSolutions : 0..3]
=============================================================================
