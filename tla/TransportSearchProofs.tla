------------------------ MODULE TransportSearchProofs ------------------------
(***************************************************************************)
(* Proofs about TransportSearch, for every set of plans and flaws and for  *)
(* every timeout.  The invariant SearchInv relates the three places where  *)
(* a plan can be: the master, the slave that is searched, and the history  *)
(* of what the epoch has returned.                                         *)
(***************************************************************************)
EXTENDS TransportSearch, FiniteSetTheorems, TLAPS

USE PlanAssumption, FlawAssumption, ConfigurationAssumption, TimeAssumption

\* The number of flaws is a number.
LEMMA CostType == ASSUME NEW p \in Plan PROVE Cost(p) \in Nat
<1>1. FlawsOf[p] \subseteq Flaw
  OBVIOUS
<1>2. IsFiniteSet(FlawsOf[p])
  BY <1>1, FS_Subset
<1> QED BY <1>2, FS_CardinalityType DEF Cost

\* A flawless plan costs nothing.
LEMMA FlawlessCost == ASSUME NEW p \in Plan, FlawsOf[p] = {} PROVE Cost(p) = 0
BY FS_EmptySet DEF Cost

(***************************************************************************)
(* Type correctness.                                                       *)
(***************************************************************************)

\* A restart keeps the types, whatever it refutes.
LEMMA RestartTyped ==
  ASSUME TypeOK, NEW refuted, Restart(refuted)
  PROVE  /\ config' \in Configurations
         /\ phase' \in {"over", "calling"}
         /\ master' \subseteq master
         /\ UNCHANGED <<config, slave, resolving, complete, draws, late, clocks,
                        sessionSaved, results, drawn>>
<1>1. master' \subseteq master
  <2>1. Better(master, last) \subseteq master
    BY DEF Better
  <2> QED BY <2>1 DEF Restart
<1>2. phase' \in {"over", "calling"}
  BY DEF Restart
<1> QED BY <1>1, <1>2 DEF Restart, TypeOK

\* The cutoff sequence stays within the bound.
LEMMA NextLimitTyped == ASSUME limit \in 0..MaxFails PROVE NextLimit \in 0..MaxFails
BY DEF NextLimit

\* The clocks stop at the bound.
LEMMA ClockTyped == ASSUME NEW t \in 0..MaxTime PROVE Clock(t) \in 0..MaxTime
BY DEF Clock

\* What a new slave leaves alone, and what it sets.
LEMMA ExploreTyped ==
  ASSUME TypeOK, NEW space, space \subseteq Plan, NEW r \in BOOLEAN, NEW c \in BOOLEAN,
         Explore(space, r, c)
  PROVE  /\ config' \in Configurations /\ phase' \in Phases
         /\ master' \subseteq Plan /\ slave' \subseteq Plan
         /\ resolving' \in BOOLEAN /\ complete' \in BOOLEAN
         /\ last' \in Plan \cup {None}
         /\ limit' \in 0..MaxFails /\ late' \in BOOLEAN
         /\ count' \in Nat /\ found' \subseteq Plan
         /\ elapsed' \in 0..MaxTime /\ epochElapsed' \in 0..MaxTime
BY DEF TypeOK, Explore, Phases, EpochExpired, clocks, results

\* The combinations of one option or more.
Drawable == SUBSET Drawn \ {{}}

\* FlawResolution::prepare leaves only such combinations.
LEMMA CombinationsTyped == ASSUME NEW p PROVE Combinations(p) \subseteq Drawable
BY DEF Combinations, Options, Drawable

\* FlawResolution::next leaves combinations of flaws.
LEMMA DrawTyped ==
  ASSUME TypeOK, NEW d \in SUBSET Flaw, Draw(d)
  PROVE  draws' \cup drawn' \subseteq Drawable /\ sessionSaved' \in BOOLEAN
<1>1. d \in draws /\ draws \cup drawn \subseteq Drawable
  BY DEF TypeOK, Draw, Drawable
<1>2. draws' = draws \ {d} /\ drawn' = drawn \cup {d} /\ sessionSaved' \in BOOLEAN
  BY DEF Draw
<1> QED
  BY <1>1, <1>2

\* Every step of solve() keeps the types.
LEMMA StepTyped == TypeOK /\ [Next]_vars => TypeOK'
<1> SUFFICES ASSUME TypeOK, [Next]_vars PROVE TypeOK'
  OBVIOUS
<1>1. CASE NewEpoch
  <2>1. config' \in Configurations /\ phase' \in Phases
    BY <1>1 DEF TypeOK, NewEpoch, Phases
  <2>2. master' \subseteq Plan /\ slave' \subseteq Plan /\ found' \subseteq Plan
    BY <1>1 DEF NewEpoch
  <2>3. resolving' \in BOOLEAN /\ complete' \in BOOLEAN /\ late' \in BOOLEAN
    BY <1>1 DEF NewEpoch
  <2>4. sessionSaved' \in BOOLEAN
    BY <1>1 DEF NewEpoch
  <2>5. draws' \cup drawn' \subseteq Drawable
    BY <1>1 DEF NewEpoch
  <2>6. last' \in Plan \cup {None}
    BY <1>1 DEF TypeOK, NewEpoch
  <2>7. /\ limit' \in 0..MaxFails /\ count' \in Nat
        /\ elapsed' \in 0..MaxTime /\ epochElapsed' \in 0..MaxTime
    BY <1>1 DEF TypeOK, NewEpoch, FirstLimit
  <2> QED BY <2>1, <2>2, <2>3, <2>4, <2>5, <2>6, <2>7 DEF TypeOK, Drawable
<1>2. CASE EpochOver
  BY <1>2 DEF TypeOK, EpochOver, Phases, spaces, clocks, results
<1>3. ASSUME NEW p \in Plan, Find(p) PROVE TypeOK'
  <2>2. phase' \in Phases /\ sessionSaved' \in BOOLEAN
    BY <1>3 DEF Find, Phases
  <2>3. draws' \cup drawn' \subseteq Drawable
    BY <1>3, CombinationsTyped DEF Find, TypeOK, Drawable
  <2> QED BY <1>3, <2>2, <2>3 DEF TypeOK, Find, spaces, clocks, Drawable
<1>4. ASSUME NEW p \in Plan, FindUnpriced(p) PROVE TypeOK'
  BY <1>4 DEF TypeOK, FindUnpriced, Phases, spaces, clocks, results
<1>5. CASE Stopped
  BY <1>5 DEF TypeOK, Stopped, Phases, spaces, clocks, results
<1>6. ASSUME NEW refuted, Restart(refuted), limit' \in 0..MaxFails PROVE TypeOK'
  BY <1>6, RestartTyped DEF TypeOK, Phases, clocks, results
<1>7. CASE Exhausted
  <2>1. CASE complete
    BY <1>7, <2>1 DEF TypeOK, Exhausted, Phases, spaces, clocks, results
  <2>2. CASE ~complete
    BY <1>6, <1>7, <2>2, NextLimitTyped DEF Exhausted, TypeOK
  <2> QED BY <2>1, <2>2
<1>8. CASE Cutoff
  BY <1>6, <1>8, NextLimitTyped DEF Cutoff, TypeOK
<1>9. CASE RestartAfterSolution
  BY <1>6, <1>9 DEF RestartAfterSolution, TypeOK
<1>10. CASE SlaveIsMaster
  BY <1>10, ExploreTyped DEF TypeOK, SlaveIsMaster
<1>11. CASE SlaveWithoutOptions
  BY <1>11, ExploreTyped DEF TypeOK, SlaveWithoutOptions
<1>12. ASSUME NEW d \in SUBSET Flaw, SlaveFails(d) PROVE TypeOK'
  BY <1>12, DrawTyped DEF TypeOK, Drawable, SlaveFails, Phases, spaces, clocks, results
<1>13. ASSUME NEW d \in SUBSET Flaw, SlaveThrows(d) PROVE TypeOK'
  BY <1>13, DrawTyped DEF TypeOK, Drawable, SlaveThrows, Phases, spaces, clocks, results
<1>14. ASSUME NEW d \in SUBSET Flaw, NEW f \in Flaw, SlaveResolves(d, f) PROVE TypeOK'
  <2>1. PICK space \in SUBSET Improving : Explore(space, TRUE, FALSE) /\ Draw(d)
    BY <1>14 DEF SlaveResolves
  <2>2. space \subseteq Plan
    BY DEF Improving, TypeOK
  <2> QED BY <2>1, <2>2, ExploreTyped, DrawTyped DEF TypeOK, Drawable
<1>15. CASE UserPressesReturn
  BY <1>15 DEF TypeOK, UserPressesReturn, Phases, clocks, results
<1>16. CASE Tick
  BY <1>16, ClockTyped DEF TypeOK, Tick, spaces, results
<1>17. CASE RootFailed
  BY <1>6, <1>17, NextLimitTyped DEF RootFailed, TypeOK
<1>18. CASE UNCHANGED vars
  BY <1>18 DEF TypeOK, vars, spaces, clocks, results
<1> QED
  BY <1>1, <1>2, <1>3, <1>4, <1>5, <1>7, <1>8, <1>9, <1>10, <1>11, <1>12, <1>13,
     <1>14, <1>15, <1>16, <1>17, <1>18 DEF Next, SearchStep

\* solve() begins typed.
LEMMA InitTyped == Init => TypeOK
<1> SUFFICES ASSUME Init PROVE TypeOK
  OBVIOUS
<1>1. config \in Configurations /\ phase \in Phases
  BY DEF Init, Phases
<1>2. master \subseteq Plan /\ slave \subseteq Plan /\ found \subseteq Plan
  BY DEF Init
<1>3. resolving \in BOOLEAN /\ complete \in BOOLEAN /\ late \in BOOLEAN /\ sessionSaved \in BOOLEAN
  BY DEF Init
<1>4. draws \cup drawn \subseteq SUBSET Drawn \ {{}}
  BY DEF Init
<1>5. last \in Plan \cup {None}
  BY DEF Init
<1>6. limit \in 0..MaxFails /\ count \in Nat /\ elapsed \in 0..MaxTime /\ epochElapsed \in 0..MaxTime
  BY DEF Init
<1> QED BY <1>1, <1>2, <1>3, <1>4, <1>5, <1>6 DEF TypeOK

\* Every variable of the search stays in its type.
THEOREM TypeCorrect == Spec => []TypeOK
BY InitTyped, StepTyped, PTL DEF Spec

(***************************************************************************)
(* The invariant of the search.                                            *)
(***************************************************************************)
\* With hill-climbing every plan of the space costs less than the last one.
Cheaper(space) ==
  config.hillClimbing /\ last # None => \A q \in space : Cost(q) < Cost(last)

MastersImprove == phase \in {"calling", "waiting", "failed"} => Cheaper(master)

SlavesCheaper == phase = "exploring" => Cheaper(slave)

ResolversImprove ==
  /\ phase \in {"waiting", "failed"} => config.masterSlave /\ last # None
  /\ phase = "exploring" /\ resolving =>
       /\ last # None
       /\ \A q \in slave : FlawsOf[q] = {} /\ Cost(q) < Cost(last)

SlaveIsWhole ==
  ~config.masterSlave /\ phase \in {"exploring", "solved"} => slave = master

LastIsFound ==
  /\ last # None => last \in found
  /\ phase = "solved" => last # None

SessionIsNew == sessionSaved => phase \in {"over", "done"} /\ Enough

SearchInv ==
  /\ MastersImprove /\ SlavesCheaper /\ ResolversImprove /\ SlaveIsWhole
  /\ LastIsFound /\ SessionIsNew
  /\ NothingLost /\ EpochEndsForAReason

\* The state that the parts of SearchInv other than the phase depend on.
kept == <<config, spaces, results>>

\* A step to a phase in which nothing is searched keeps the invariant, if it
\* keeps the plans; an epoch that it ends needs its reason.
LEMMA PhaseStep ==
  ASSUME SearchInv, phase # "epoch", UNCHANGED kept,
         phase' \in {"threw", "done", "epoch", "over"},
         sessionSaved' => phase' \in {"over", "done"} /\ Enough,
         phase' = "over" /\ ~config.masterSlave =>
           Enough \/ EpochExpired' \/ \A p \in Plan : Settled(p)
  PROVE  SearchInv'
<1> USE DEF kept, spaces, results
<1>1. MastersImprove' /\ SlavesCheaper' /\ ResolversImprove' /\ SlaveIsWhole'
  BY DEF MastersImprove, SlavesCheaper, ResolversImprove, SlaveIsWhole
<1>2. LastIsFound'
  BY DEF SearchInv, LastIsFound
<1>3. Enough' <=> Enough
  BY DEF Enough
<1>4. SessionIsNew'
  BY <1>3 DEF SessionIsNew
<1>5. \A p : Settled(p)' <=> Settled(p)
  BY DEF Settled
<1>6. NothingLost'
  BY <1>5 DEF SearchInv, NothingLost
<1>7. EpochEndsForAReason'
  BY <1>3, <1>5 DEF EpochEndsForAReason
<1> QED BY <1>1, <1>2, <1>4, <1>6, <1>7 DEF SearchInv

\* A restart of a search in which the slave is not smaller than the master
\* (or of a master-slave search) loses nothing.
LEMMA RestartStep ==
  ASSUME TypeOK, SearchInv, NEW refuted, Restart(refuted),
         phase \in {"exploring", "solved", "failed"},
         refuted \subseteq (master \ slave) \cup (IF last = None THEN {} ELSE {last})
  PROVE  SearchInv'
<1>1. UNCHANGED <<config, slave, resolving, complete, clocks, sessionSaved, results>>
  BY DEF Restart
<1>2. master' = Better(master, last) \ refuted /\ phase' \in {"over", "calling"}
  BY DEF Restart
<1>3. Cheaper(master')
  BY <1>2 DEF Better, Cheaper
<1>4. ~sessionSaved
  BY DEF SearchInv, SessionIsNew
<1>5. LastIsFound'
  BY <1>1, <1>2 DEF SearchInv, LastIsFound, results
<1>6. MastersImprove'
  BY <1>1, <1>3 DEF MastersImprove, Cheaper, results
<1>7. SlavesCheaper' /\ ResolversImprove' /\ SlaveIsWhole' /\ SessionIsNew'
  BY <1>1, <1>2, <1>4 DEF SlavesCheaper, ResolversImprove, SlaveIsWhole, SessionIsNew
<1>8. \A p : Settled(p)' <=> Settled(p)
  BY <1>1 DEF Settled, results
<1>9. ASSUME ~config.masterSlave, NEW p \in Plan, p \notin master', ~Settled(p) PROVE FALSE
  <2>1. slave = master
    BY <1>9 DEF SearchInv, SlaveIsWhole, ResolversImprove
  <2>2. p \in master
    BY <1>9 DEF SearchInv, NothingLost
  <2>3. p \notin refuted
    <3>1. last # None => last \in found
      BY DEF SearchInv, LastIsFound
    <3> QED BY <2>1, <2>2, <3>1, <1>9 DEF Settled
  <2>4. p \notin Better(master, last)
    BY <1>2, <1>9, <2>3
  <2>5. last # None /\ config.hillClimbing /\ ~(Cost(p) < Cost(last))
    BY <2>2, <2>4 DEF Better
  <2>6. Cost(p) \in Nat /\ Cost(last) \in Nat
    BY <2>5, CostType DEF TypeOK
  <2> QED BY <1>9, <2>5, <2>6 DEF Settled
<1>10. NothingLost'
  BY <1>1, <1>8, <1>9 DEF NothingLost
<1>11. EpochEndsForAReason'
  <2>1. phase' = "over" => master' = {}
    BY DEF Restart
  <2> QED BY <1>1, <1>8, <1>9, <2>1 DEF EpochEndsForAReason
<1> QED BY <1>5, <1>6, <1>7, <1>10, <1>11 DEF SearchInv

\* A new slave keeps the invariant if it is the master, or if all its plans
\* are flawless and improve on the last one.
LEMMA ExploreStep ==
  ASSUME TypeOK, SearchInv, NEW space, NEW r \in BOOLEAN, NEW c \in BOOLEAN,
         Explore(space, r, c), phase \in {"calling", "waiting"},
         space \subseteq master,
         ~config.masterSlave => space = master,
         r => last # None /\ \A q \in space : FlawsOf[q] = {} /\ Cost(q) < Cost(last),
         sessionSaved' \in BOOLEAN, sessionSaved' => sessionSaved
  PROVE  SearchInv'
<1>1. /\ UNCHANGED <<config, master, results>>
      /\ phase' = "exploring" /\ slave' = space /\ resolving' = r
  BY DEF Explore
<1>2. SlavesCheaper'
  BY <1>1 DEF SearchInv, MastersImprove, SlavesCheaper, Cheaper, results
<1>3. ResolversImprove'
  BY <1>1 DEF ResolversImprove, results
<1>4. SlaveIsWhole' /\ MastersImprove'
  BY <1>1 DEF SlaveIsWhole, MastersImprove
<1>5. ~sessionSaved'
  BY DEF SearchInv, SessionIsNew
<1>6. LastIsFound' /\ SessionIsNew' /\ EpochEndsForAReason'
  BY <1>1, <1>5 DEF SearchInv, LastIsFound, SessionIsNew, EpochEndsForAReason, results
<1>7. NothingLost'
  BY <1>1 DEF SearchInv, NothingLost, Settled, results
<1> QED BY <1>2, <1>3, <1>4, <1>6, <1>7 DEF SearchInv

\* What was settled stays settled when a plan is found: it can only raise the
\* bar.
LEMMA FindSettles ==
  ASSUME TypeOK, SearchInv, NEW p \in Plan, Find(p), NEW q \in Plan, Settled(q)
  PROVE  Settled(q)'
<1>1. config' = config /\ last' = p /\ found' = found \cup {p} /\ p \in slave
  BY DEF Find
<1>2. CASE q \in found
  BY <1>1, <1>2 DEF Settled
<1>3. CASE q \notin found
  <2>1. config.hillClimbing /\ last # None /\ Cost(q) >= Cost(last)
    BY <1>3 DEF Settled
  <2>2. Cost(p) < Cost(last)
    BY <1>1, <2>1 DEF SearchInv, SlavesCheaper, Cheaper, Find
  <2>3. last \in Plan
    BY <2>1 DEF TypeOK
  <2>4. Cost(p) \in Nat /\ Cost(q) \in Nat /\ Cost(last) \in Nat
    BY <2>3, CostType
  <2>5. Cost(q) >= Cost(p)
    BY <2>1, <2>2, <2>4
  <2>6. p # None
    OBVIOUS
  <2> QED BY <1>1, <2>1, <2>5, <2>6 DEF Settled
<1> QED BY <1>2, <1>3

\* Finding a plan keeps the invariant.
LEMMA FindStep ==
  ASSUME TypeOK, SearchInv, NEW p \in Plan, Find(p)
  PROVE  SearchInv'
<1>1. /\ UNCHANGED <<config, master, slave, resolving>>
      /\ last' = p /\ found' = found \cup {p} /\ count' = count + 1
      /\ phase' = IF count' >= config.minSolutions THEN "over" ELSE "solved"
      /\ sessionSaved' = (phase' = "over")
      /\ phase = "exploring"
  BY DEF Find, spaces
<1>2. phase' = "over" => Enough'
  BY <1>1 DEF Enough, TypeOK
<1>3. MastersImprove' /\ SlavesCheaper' /\ ResolversImprove' /\ LastIsFound'
  BY <1>1 DEF MastersImprove, SlavesCheaper, ResolversImprove, LastIsFound
<1>4. SlaveIsWhole'
  BY <1>1 DEF SearchInv, SlaveIsWhole
<1>5. SessionIsNew' /\ EpochEndsForAReason'
  BY <1>1, <1>2 DEF SessionIsNew, EpochEndsForAReason
<1>6. NothingLost'
  BY <1>1, FindSettles DEF SearchInv, NothingLost
<1> QED BY <1>3, <1>4, <1>5, <1>6 DEF SearchInv

\* A new epoch begins with the invariant: its engine starts from all plans.
LEMMA NewEpochStep == ASSUME SearchInv, NewEpoch PROVE SearchInv'
<1>1. /\ phase' = "exploring" /\ master' = Plan /\ slave' = Plan
      /\ resolving' = FALSE /\ last' = None
  BY DEF NewEpoch
<1>2. ~sessionSaved'
  BY DEF NewEpoch, SearchInv, SessionIsNew
<1>3. MastersImprove' /\ SlavesCheaper' /\ ResolversImprove' /\ SlaveIsWhole' /\ LastIsFound'
  BY <1>1 DEF MastersImprove, SlavesCheaper, ResolversImprove, SlaveIsWhole, LastIsFound, Cheaper
<1>4. SessionIsNew' /\ NothingLost' /\ EpochEndsForAReason'
  BY <1>1, <1>2 DEF SessionIsNew, NothingLost, EpochEndsForAReason
<1> QED BY <1>3, <1>4 DEF SearchInv

\* An exhausted slave that was complete was the master: no plan is left.
LEMMA ExhaustedStep == ASSUME TypeOK, SearchInv, Exhausted PROVE SearchInv'
<1>1. CASE complete
  <2>1. phase = "exploring" /\ slave = {} /\ phase' = "over" /\ UNCHANGED kept
    BY <1>1 DEF Exhausted, kept
  <2>2. UNCHANGED sessionSaved /\ ~sessionSaved
    BY <1>1, <2>1 DEF Exhausted, SearchInv, SessionIsNew
  <2>3. ~config.masterSlave => \A p \in Plan : Settled(p)
    BY <2>1 DEF SearchInv, SlaveIsWhole, NothingLost
  <2> QED BY <2>1, <2>2, <2>3, PhaseStep
<1>2. CASE ~complete
  BY <1>2, RestartStep DEF Exhausted
<1> QED BY <1>1, <1>2

\* The clocks only go forward: an expired epoch stays expired.
LEMMA TickStep == ASSUME TypeOK, SearchInv, Tick PROVE SearchInv'
<1>1. UNCHANGED <<config, phase, master, slave, resolving, results, sessionSaved>> /\ phase # "over"
  BY DEF Tick, spaces
<1>2. MastersImprove' /\ SlavesCheaper' /\ ResolversImprove' /\ SlaveIsWhole' /\ LastIsFound'
  BY <1>1 DEF SearchInv, MastersImprove, SlavesCheaper, ResolversImprove, SlaveIsWhole,
              LastIsFound, Cheaper, results
<1>3. SessionIsNew' /\ EpochEndsForAReason'
  BY <1>1 DEF SearchInv, SessionIsNew, EpochEndsForAReason, Enough, results
<1>4. NothingLost'
  BY <1>1 DEF SearchInv, NothingLost, Settled, results
<1> QED BY <1>2, <1>3, <1>4 DEF SearchInv

\* What leaves the variables alone leaves the invariant alone.
LEMMA StutterStep == ASSUME SearchInv, UNCHANGED vars PROVE SearchInv'
BY DEF vars, spaces, clocks, results, SearchInv, MastersImprove, SlavesCheaper,
       ResolversImprove, SlaveIsWhole, LastIsFound, SessionIsNew, Cheaper,
       NothingLost, EpochEndsForAReason, Enough, EpochExpired, Settled

\* Every step of solve() keeps the invariant, one case per action.
LEMMA SearchStepKeepsInv == TypeOK /\ SearchInv /\ [Next]_vars => SearchInv'
<1> SUFFICES ASSUME TypeOK, SearchInv, [Next]_vars PROVE SearchInv'
  OBVIOUS
<1>1. CASE NewEpoch
  BY <1>1, NewEpochStep
<1>2. CASE EpochOver
  <2>1. phase = "over" /\ phase' \in {"done", "epoch"} /\ UNCHANGED kept /\ UNCHANGED sessionSaved
    BY <1>2 DEF EpochOver, kept
  <2>2. sessionSaved' => phase' \in {"over", "done"} /\ Enough
    BY <1>2, <2>1 DEF EpochOver, SearchInv, SessionIsNew
  <2> QED BY <2>1, <2>2, PhaseStep
<1>3. ASSUME NEW p \in Plan, Find(p) PROVE SearchInv'
  BY <1>3, FindStep
<1>4. ASSUME NEW p \in Plan, FindUnpriced(p) PROVE SearchInv'
  <2>1. phase = "exploring" /\ phase' = "threw" /\ UNCHANGED kept /\ UNCHANGED sessionSaved
    BY <1>4 DEF FindUnpriced, kept
  <2> QED BY <2>1, PhaseStep DEF SearchInv, SessionIsNew
<1>5. CASE Stopped
  <2>1. /\ phase = "exploring" /\ phase' = "over" /\ UNCHANGED kept
        /\ UNCHANGED <<sessionSaved, epochElapsed>> /\ EpochExpired
    BY <1>5 DEF Stopped, kept, clocks
  <2> QED BY <2>1, PhaseStep DEF SearchInv, SessionIsNew, EpochExpired
<1>6. CASE Exhausted
  BY <1>6, ExhaustedStep
<1>7. CASE Cutoff
  BY <1>7, RestartStep DEF Cutoff
<1>8. CASE RestartAfterSolution
  <2>1. PICK refuted \in SUBSET ((master \ slave) \cup {last}) : Restart(refuted)
    BY <1>8 DEF RestartAfterSolution
  <2>2. phase = "solved" /\ last # None
    BY <1>8 DEF RestartAfterSolution, SearchInv, LastIsFound
  <2> QED BY <2>1, <2>2, RestartStep
<1>9. CASE SlaveIsMaster
  BY <1>9, ExploreStep DEF SlaveIsMaster, TypeOK
<1>10. CASE SlaveWithoutOptions
  BY <1>10, ExploreStep DEF SlaveWithoutOptions
<1>11. ASSUME NEW d \in SUBSET Flaw, SlaveFails(d) PROVE SearchInv'
  <2>1. /\ phase = "calling" /\ phase' = "waiting" /\ last # None /\ config.masterSlave
        /\ UNCHANGED <<config, spaces, results>> /\ ~sessionSaved'
    BY <1>11 DEF SlaveFails, Draw
  <2>2. MastersImprove' /\ SlavesCheaper' /\ SlaveIsWhole'
    BY <2>1 DEF SearchInv, MastersImprove, SlavesCheaper, SlaveIsWhole, Cheaper, spaces, results
  <2>3. ResolversImprove' /\ LastIsFound' /\ SessionIsNew' /\ EpochEndsForAReason'
    BY <2>1 DEF SearchInv, ResolversImprove, LastIsFound, SessionIsNew, EpochEndsForAReason,
                results
  <2>4. NothingLost'
    BY <2>1 DEF SearchInv, NothingLost, Settled, spaces, results
  <2> QED BY <2>2, <2>3, <2>4 DEF SearchInv
<1>12. ASSUME NEW d \in SUBSET Flaw, SlaveThrows(d) PROVE SearchInv'
  <2>1. phase = "calling" /\ phase' = "threw" /\ UNCHANGED kept /\ ~sessionSaved'
    BY <1>12 DEF SlaveThrows, Draw, kept
  <2> QED BY <2>1, PhaseStep
<1>13. ASSUME NEW d \in SUBSET Flaw, NEW f \in Flaw, SlaveResolves(d, f) PROVE SearchInv'
  <2>1. PICK space \in SUBSET Improving : Draw(d) /\ Explore(space, TRUE, FALSE)
    BY <1>13 DEF SlaveResolves
  <2>2. /\ space \subseteq master
        /\ \A q \in space : FlawsOf[q] = {} /\ Cost(q) < Cost(last)
    BY DEF Improving
  <2>3. phase = "calling" /\ config.masterSlave /\ last # None
    BY <2>1 DEF Draw
  <2>4. sessionSaved' \in BOOLEAN /\ (sessionSaved' => sessionSaved)
    BY <2>1 DEF Draw
  <2> QED BY <2>1, <2>2, <2>3, <2>4, ExploreStep
<1>14. CASE UserPressesReturn
  <2>1. /\ phase = "waiting" /\ phase' = "failed" /\ slave' = {}
        /\ UNCHANGED <<config, master, sessionSaved, results>>
    BY <1>14 DEF UserPressesReturn
  <2>2. MastersImprove' /\ SlavesCheaper' /\ SlaveIsWhole'
    BY <2>1 DEF SearchInv, MastersImprove, SlavesCheaper, SlaveIsWhole, Cheaper, results
  <2>3. ResolversImprove' /\ LastIsFound' /\ SessionIsNew' /\ EpochEndsForAReason'
    BY <2>1 DEF SearchInv, ResolversImprove, LastIsFound, SessionIsNew, EpochEndsForAReason,
                results
  <2>4. NothingLost'
    BY <2>1 DEF SearchInv, NothingLost, Settled, results
  <2> QED BY <2>2, <2>3, <2>4 DEF SearchInv
<1>15. CASE Tick
  BY <1>15, TickStep
<1>16. CASE RootFailed
  BY <1>16, RestartStep DEF RootFailed
<1>17. CASE UNCHANGED vars
  BY <1>17, StutterStep
<1> QED
  BY <1>1, <1>2, <1>3, <1>4, <1>5, <1>6, <1>7, <1>8, <1>9, <1>10, <1>11, <1>12,
     <1>13, <1>14, <1>15, <1>16, <1>17 DEF Next, SearchStep

\* solve() begins with the invariant.
LEMMA InitInv == Init => SearchInv
BY DEF Init, SearchInv, MastersImprove, SlavesCheaper, ResolversImprove,
       SlaveIsWhole, LastIsFound, SessionIsNew, NothingLost, EpochEndsForAReason

\* The inductive invariant: what the master has lost is settled, a slave is
\* the master unless a resolver was posted, and a resolver's plans improve.
THEOREM Invariance == Spec => [](TypeOK /\ SearchInv)
<1>1. Init => TypeOK /\ SearchInv
  BY InitTyped, InitInv
<1>2. TypeOK /\ SearchInv /\ [Next]_vars => (TypeOK /\ SearchInv)'
  BY StepTyped, SearchStepKeepsInv
<1> QED BY <1>1, <1>2, PTL DEF Spec

\* For any plans, bounds, no-goods and cutoffs: without master-slave search a
\* restart loses no plan that is still worth returning.
THEOREM NothingIsLost == Spec => []NothingLost
<1>1. SearchInv => NothingLost
  BY DEF SearchInv
<1> QED BY <1>1, Invariance, PTL

\* An epoch ends for one of its three reasons.
THEOREM EpochsEndForAReason == Spec => []EpochEndsForAReason
<1>1. SearchInv => EpochEndsForAReason
  BY DEF SearchInv
<1> QED BY <1>1, Invariance, PTL

\* Only Find returns a plan.
LEMMA OnlyFindReturns ==
  ASSUME TypeOK, [Next]_vars, Returns
  PROVE  \E p \in Plan : Find(p)
<1> USE DEF results
<1>1. count' # count /\ count' # 0
  BY DEF TypeOK, Returns
<1>2. ~NewEpoch
  BY <1>1 DEF NewEpoch
<1>3. ~EpochOver /\ ~Stopped /\ ~Tick /\ ~UNCHANGED vars
  BY <1>1 DEF EpochOver, Stopped, Tick, vars
<1>4. \A p : ~FindUnpriced(p)
  BY <1>1 DEF FindUnpriced
<1>5. ~Exhausted /\ ~RootFailed /\ ~Cutoff /\ ~RestartAfterSolution
  BY <1>1 DEF Exhausted, RootFailed, Cutoff, RestartAfterSolution, Restart
<1>6. ~SlaveIsMaster /\ ~SlaveWithoutOptions /\ ~UserPressesReturn
  BY <1>1 DEF SlaveIsMaster, SlaveWithoutOptions, UserPressesReturn, Explore
<1>7. \A d, f : ~SlaveFails(d) /\ ~SlaveThrows(d) /\ ~SlaveResolves(d, f)
  BY <1>1 DEF SlaveFails, SlaveThrows, SlaveResolves, Explore
<1> QED
  BY <1>2, <1>3, <1>4, <1>5, <1>6, <1>7 DEF Next, SearchStep

\* Within an epoch with hill-climbing every plan costs less than the one before it, in
\* master-slave search, too; a plan found under a resolver is flawless and better than
\* the plan that the resolver was to improve.
THEOREM PlansGetBetter == Spec => PlansImprove
<1> DEFINE Improves ==
      Returns /\ last # None =>
        /\ config.hillClimbing \/ resolving => Cost(last') < Cost(last)
        /\ resolving => Cost(last') = 0
<1>1. ASSUME TypeOK, SearchInv, [Next]_vars PROVE [Improves]_vars
  <2>1. ASSUME Returns PROVE \E p \in Plan : Find(p)
    BY <1>1, <2>1, OnlyFindReturns
  <2>2. ASSUME NEW p \in Plan, Find(p), config.hillClimbing, last # None
        PROVE  Cost(last') < Cost(last)
    BY <1>1, <2>2 DEF Find, SearchInv, SlavesCheaper, Cheaper
  <2>3. ASSUME NEW p \in Plan, Find(p), resolving
        PROVE  Cost(last') = 0 /\ Cost(last') < Cost(last)
    <3>1. last' = p /\ FlawsOf[p] = {} /\ Cost(p) < Cost(last)
      BY <1>1, <2>3 DEF Find, SearchInv, ResolversImprove
    <3> QED BY <3>1, FlawlessCost
  <2> QED BY <2>1, <2>2, <2>3
<1> QED BY <1>1, Invariance, PTL DEF Spec, PlansImprove

\* No plan is saved over one that was saved before it.
THEOREM SessionsAreNew == Spec => SavesUnderNewSession
<1>1. ASSUME TypeOK, SearchInv, [Next]_vars PROVE [Returns => ~sessionSaved]_vars
  <2>1. ASSUME Returns, sessionSaved PROVE FALSE
    <3>1. PICK p \in Plan : Find(p)
      BY <1>1, <2>1, OnlyFindReturns
    <3> QED BY <1>1, <2>1, <3>1 DEF Find, SearchInv, SessionIsNew
  <2> QED BY <2>1
<1> QED BY <1>1, Invariance, PTL DEF Spec, SavesUnderNewSession

\* Every step leaves the combinations alone, or begins with those of a plan, or
\* draws one of them.
LEMMA StepDraws ==
  ASSUME [Next]_vars
  PROVE  \/ UNCHANGED <<last, draws, drawn>>
         \/ last' = None /\ drawn' = {}
         \/ drawn' = {} /\ (last' \notin Unpriced => draws' = Combinations(last'))
         \/ \E d \in draws : draws' = draws \ {d} /\ drawn' = drawn \cup {d} /\ last' = last
<1> USE DEF results
<1>1. CASE NewEpoch
  BY <1>1 DEF NewEpoch
<1>2. CASE EpochOver \/ Stopped \/ Tick \/ UserPressesReturn \/ UNCHANGED vars
  BY <1>2 DEF EpochOver, Stopped, Tick, UserPressesReturn, vars
<1>3. ASSUME NEW p \in Plan, Find(p)
      PROVE  drawn' = {} /\ (last' \notin Unpriced => draws' = Combinations(last'))
  BY <1>3 DEF Find
<1>4. ASSUME NEW p \in Plan, FindUnpriced(p) PROVE UNCHANGED <<last, draws, drawn>>
  BY <1>4 DEF FindUnpriced
<1>5. CASE Exhausted \/ RootFailed \/ Cutoff \/ RestartAfterSolution
  BY <1>5 DEF Exhausted, RootFailed, Cutoff, RestartAfterSolution, Restart
<1>6. CASE SlaveIsMaster \/ SlaveWithoutOptions
  BY <1>6 DEF SlaveIsMaster, SlaveWithoutOptions, Explore
<1>7. ASSUME NEW d \in SUBSET Flaw,
             SlaveFails(d) \/ SlaveThrows(d) \/ \E f \in Flaw : SlaveResolves(d, f)
      PROVE  d \in draws /\ draws' = draws \ {d} /\ drawn' = drawn \cup {d} /\ last' = last
  BY <1>7 DEF SlaveFails, SlaveThrows, SlaveResolves, Draw, Explore
<1> QED
  BY <1>1, <1>2, <1>3, <1>4, <1>5, <1>6, <1>7 DEF Next, SearchStep

\* No combination of options is drawn twice for a plan, and none is lost by a
\* restart: what is left is what has not been drawn.
THEOREM NoDrawTwice == Spec => []DrawsAreFresh
<1>1. Init => DrawsAreFresh
  BY DEF Init, DrawsAreFresh
<1>2. DrawsAreFresh /\ [Next]_vars => DrawsAreFresh'
  <2> SUFFICES ASSUME DrawsAreFresh, [Next]_vars PROVE DrawsAreFresh'
    OBVIOUS
  <2>1. CASE UNCHANGED <<last, draws, drawn>>
    BY <2>1 DEF DrawsAreFresh
  <2>2. CASE drawn' = {} /\ (last' = None \/ (last' \notin Unpriced => draws' = Combinations(last')))
    BY <2>2 DEF DrawsAreFresh
  <2>3. ASSUME NEW d \in draws, draws' = draws \ {d}, drawn' = drawn \cup {d}, last' = last
        PROVE  DrawsAreFresh'
    <3>1. drawn' \cap draws' = {} /\ drawn' \cup draws' = drawn \cup draws
      BY <2>3 DEF DrawsAreFresh
    <3> QED BY <2>3, <3>1 DEF DrawsAreFresh
  <2> QED BY <2>1, <2>2, <2>3, StepDraws
<1> QED BY <1>1, <1>2, PTL DEF Spec
=============================================================================
