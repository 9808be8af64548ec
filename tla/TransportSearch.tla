--------------------------- MODULE TransportSearch ---------------------------
(***************************************************************************)
(* TransportNetwork::solve: epochs of restart-based search (Gecode::RBS    *)
(* over DFS; solvers/csp/search/meta/rbs.cpp is the repository's copy of   *)
(* that engine) until enough plans are found or the total time is up.      *)
(*                                                                         *)
(* A space is the set of plans that its constraints still admit; what the  *)
(* constraints of a mission are, and how they are propagated, is left to   *)
(* other modules.  The engine keeps a master space, hands a slave space to *)
(* the depth-first search, and calls TransportNetwork::master, constrain,  *)
(* slave and next at every restart; one action is one such call, one       *)
(* answer of the depth-first search, or one tick of the clock.             *)
(***************************************************************************)
EXTENDS Integers, FiniteSets

CONSTANTS
  Plan,          \* the plans of the mission: the solutions of `distribution`
  None,          \* no last solution (NULL)
  Flaw,          \* the flaws that the minimum cost flow of a plan can have
  FlawsOf,       \* mMinCostFlowFlaws of a plan
  Drawn,         \* the flaws FlawResolution::prepare makes an option of
  Translated,    \* those that FlawResolution::translate has a constraint for
  Resolves,      \* the plans that satisfy the constraint of a flaw
  Unpriced,      \* flawless plans that break an immobile agent's constraint
  Configurations,\* the options under which solve() may be called
  EpochTimeout,  \* epoch_timeout_in_s, in ticks
  TotalTimeout,  \* total_timeout_in_s, in ticks
  MaxTime,       \* bound: the clocks stop here
  MaxFails       \* bound: no search tree has more failures

ASSUME PlanAssumption == IsFiniteSet(Plan) /\ None \notin Plan
ASSUME FlawAssumption ==
  /\ IsFiniteSet(Flaw)
  /\ FlawsOf \in [Plan -> SUBSET Flaw]
  /\ Translated \subseteq Drawn /\ Drawn \subseteq Flaw
  /\ Resolves \in [Flaw -> SUBSET Plan]
  /\ Unpriced \subseteq {p \in Plan : FlawsOf[p] = {}}
ASSUME ConfigurationAssumption ==
  Configurations \subseteq
    [hillClimbing : BOOLEAN, masterSlave : BOOLEAN, minSolutions : Nat]
ASSUME TimeAssumption ==
  /\ EpochTimeout \in Nat /\ TotalTimeout \in Nat /\ MaxTime \in Nat /\ MaxFails \in Nat
  /\ EpochTimeout < MaxTime /\ TotalTimeout <= MaxTime /\ MaxFails > 0

VARIABLES
  config,       \* the options of this call
  phase,        \* where solve() is
  master,       \* the plans that the master space admits
  slave,        \* the plans that the space under search admits
  resolving,    \* the slave was built by next(), with a resolver posted
  complete,     \* `complete` of the engine: what slave() returned
  last,         \* `last` of the engine
  draws,        \* mDraws of last: the combinations not yet drawn
  limit,        \* the failures that end the run of the depth-first search
  late,         \* the run of the depth-first search began after the timeout
  count,        \* solutionCount
  elapsed,      \* the time since solve() began
  epochElapsed, \* the time since the epoch began
  sessionSaved, \* a plan has been saved under the logger's session id
  found,        \* history: the plans found in this epoch
  drawn         \* history: the combinations drawn for `last`

spaces == <<master, slave, resolving, complete>>
clocks == <<elapsed, epochElapsed>>
results == <<last, count, found>>
vars == <<config, phase, spaces, draws, limit, late, clocks, sessionSaved,
          results, drawn>>

(***************************************************************************)
(* Plans.                                                                  *)
(***************************************************************************)
\* mCost and mNumberOfFlaws of a plan: both are the number of its flaws.
Cost(p) == Cardinality(FlawsOf[p])

\* FlawResolution::prepare makes an option of every flaw of a plan that a constraint
\* may resolve.
Options(p) == FlawsOf[p] \cap Drawn

\* Mutant: combinations begin with the one of no option.
CombinationsFromNone(p) == SUBSET Options(p)

\* and draws from every combination of one option or more.
Combinations(p) == SUBSET Options(p) \ {{}}

\* Mutant: plans that cost the same are let through.
BetterOrSame(space, p) ==
  IF p = None THEN space
  ELSE {q \in space : config.hillClimbing => Cost(q) <= Cost(p)}

\* Mutant: plans are dropped without hill-climbing, too.
BetterAlways(space, p) ==
  IF p = None THEN space ELSE {q \in space : Cost(q) < Cost(p)}

\* constrain(): with hill-climbing a space only keeps the plans that cost
\* less (IRT_LE is strict) than the last one.
Better(space, p) ==
  IF p = None THEN space
  ELSE {q \in space : config.hillClimbing => Cost(q) < Cost(p)}

\* What constrainSlave() limits the search to.
Improving == {q \in master : FlawsOf[q] = {} /\ Cost(q) < Cost(last)}

\* postMinCostFlow may return before it sets cost and number of flaws: then
\* the two have a value only if the bounds that are posted for a resolving
\* slave leave them just one.
Priced(p, inResolving) ==
  \/ p \notin Unpriced
  \/ inResolving /\ config.hillClimbing /\ Cost(last) = 1

\* The first limit is the option cutoff; here the smallest there is.
FirstLimit == 1

EpochExpired == epochElapsed > EpochTimeout
Enough == count > 0 /\ count >= config.minSolutions

Init ==
  /\ config \in Configurations
  /\ phase = "epoch"
  /\ master = {} /\ slave = {} /\ resolving = FALSE /\ complete = TRUE
  /\ last = None /\ draws = {} /\ drawn = {}
  /\ limit = 0 /\ late = FALSE
  /\ count = 0 /\ found = {}
  /\ elapsed = 0 /\ epochElapsed = 0
  /\ sessionSaved = FALSE

(***************************************************************************)
(* The epochs.                                                             *)
(***************************************************************************)

\* A new engine, with a new time stop and a new cutoff, on a clone of
\* `distribution`.  Its constructor calls slave() and drops the answer.
NewEpoch ==
  /\ phase = "epoch"
  /\ phase' = "exploring"
  /\ master' = Plan /\ slave' = Plan
  /\ resolving' = FALSE /\ complete' = TRUE
  /\ last' = None /\ draws' = {} /\ drawn' = {}
  /\ limit' = FirstLimit /\ late' = FALSE
  /\ count' = 0 /\ found' = {}
  /\ epochElapsed' = 0
  /\ sessionSaved' = (sessionSaved /\ ~config.masterSlave)
  /\ UNCHANGED <<config, elapsed>>

\* Mutant: the total time is not looked at.
EpochOverCountOnly ==
  /\ phase = "over"
  /\ phase' = IF Enough THEN "done" ELSE "epoch"
  /\ UNCHANGED <<config, spaces, draws, limit, late, clocks, sessionSaved,
                 results, drawn>>

\* Only the end of an epoch looks at the total time.
EpochOver ==
  /\ phase = "over"
  /\ phase' = IF Enough \/ elapsed >= TotalTimeout THEN "done" ELSE "epoch"
  /\ UNCHANGED <<config, spaces, draws, limit, late, clocks, sessionSaved,
                 results, drawn>>

(***************************************************************************)
(* What the depth-first search answers.                                    *)
(***************************************************************************)

\* Mutant: the session id is not incremented after a plan.
FindSameSession(p) ==
  /\ phase = "exploring" /\ ~late /\ p \in slave /\ Priced(p, resolving)
  /\ last' = p /\ found' = found \cup {p} /\ count' = count + 1
  /\ draws' = IF p \in Unpriced THEN draws ELSE Combinations(p)
  /\ drawn' = {}
  /\ sessionSaved' = TRUE
  /\ phase' = IF count' >= config.minSolutions THEN "over" ELSE "solved"
  /\ UNCHANGED <<config, spaces, limit, late, clocks>>

\* A plan: solve() counts and saves it, and asks for another one, under a
\* new session id, unless there are enough.
Find(p) ==
  /\ phase = "exploring" /\ ~late /\ p \in slave /\ Priced(p, resolving)
  /\ last' = p /\ found' = found \cup {p} /\ count' = count + 1
  /\ draws' = IF p \in Unpriced THEN draws ELSE Combinations(p)
  /\ drawn' = {}
  /\ phase' = IF count' >= config.minSolutions THEN "over" ELSE "solved"
  /\ sessionSaved' = (phase' = "over")
  /\ UNCHANGED <<config, spaces, limit, late, clocks>>

\* A plan without a cost: reading it throws, and solve() is left.
FindUnpriced(p) ==
  /\ phase = "exploring" /\ ~late /\ p \in slave /\ ~Priced(p, resolving)
  /\ phase' = "threw"
  /\ UNCHANGED <<config, spaces, draws, limit, late, clocks, sessionSaved,
                 results, drawn>>

\* The time of the epoch is over: the next node is not explored.
Stopped ==
  /\ phase = "exploring" /\ EpochExpired
  /\ phase' = "over"
  /\ UNCHANGED <<config, spaces, draws, limit, late, clocks, sessionSaved,
                 results, drawn>>

(***************************************************************************)
(* Restarts.  The master is constrained by the last plan and by no-goods,  *)
(* which stand for what the run has refuted: plans that the slave did not  *)
(* admit, or the plan found last.  A failed master ends the engine.        *)
(***************************************************************************)
Restart(refuted) ==
  /\ master' = Better(master, last) \ refuted
  /\ phase' \in IF master' = {} THEN {"over", "calling"} ELSE {"calling"}
  /\ UNCHANGED <<config, slave, resolving, complete, draws, late, clocks,
                 sessionSaved, results, drawn>>

RestartAfterSolution ==
  /\ phase = "solved"
  /\ \E refuted \in SUBSET ((master \ slave) \cup {last}) : Restart(refuted)
  /\ UNCHANGED limit

\* The geometric cutoff, up to the bound MaxFails.
NextLimit == IF 2 * limit > MaxFails THEN MaxFails ELSE 2 * limit

\* Mutant: the engine takes the cutoff for the time stop.
CutoffEnds ==
  /\ phase = "exploring" /\ ~late /\ limit < MaxFails
  /\ phase' = "over"
  /\ UNCHANGED <<config, spaces, draws, limit, late, clocks, sessionSaved,
                 results, drawn>>

\* More failures than the limit: a restart with twice the limit.
Cutoff ==
  /\ phase = "exploring" /\ ~late /\ limit < MaxFails
  /\ \E refuted \in SUBSET (master \ slave) : Restart(refuted)
  /\ limit' = NextLimit

\* The slave has no plan: the end of the search if the slave was complete.
\* A run that began late is stopped before its first node.
Exhausted ==
  /\ phase = "exploring" /\ slave = {} /\ ~late
  /\ IF complete
     THEN /\ phase' = "over"
          /\ UNCHANGED <<config, spaces, draws, limit, late, clocks,
                         sessionSaved, results, drawn>>
     ELSE Restart({}) /\ limit' = NextLimit

\* The root of the slave has failed: no node, no time stop, a restart.
RootFailed == phase = "failed" /\ Restart({}) /\ limit' = NextLimit

(***************************************************************************)
(* TransportNetwork::slave, on a copy of the master.                       *)
(***************************************************************************)
Explore(space, resolver, isComplete) ==
  /\ phase' = "exploring"
  /\ slave' = space /\ resolving' = resolver /\ complete' = isComplete
  /\ late' = EpochExpired
  /\ UNCHANGED <<config, master, limit, clocks, results>>

SlaveIsMaster ==
  /\ phase = "calling" /\ ~config.masterSlave
  /\ Explore(master, FALSE, TRUE)
  /\ UNCHANGED <<draws, drawn, sessionSaved>>

\* Nothing to improve: no plan yet, or every combination has been drawn.
\* The search goes on and is said to be incomplete.
SlaveWithoutOptions ==
  /\ phase = "calling" /\ config.masterSlave
  /\ last = None \/ draws = {}
  /\ Explore(master, FALSE, FALSE)
  /\ sessionSaved' = FALSE
  /\ UNCHANGED <<draws, drawn>>

\* Mutant: the combination stays in the list.
DrawKept(d) ==
  /\ phase = "calling" /\ config.masterSlave /\ last # None
  /\ d \in draws
  /\ draws' = draws /\ drawn' = drawn \cup {d}
  /\ sessionSaved' = FALSE

\* FlawResolution::next draws a combination at random and removes it.
Draw(d) ==
  /\ phase = "calling" /\ config.masterSlave /\ last # None
  /\ d \in draws
  /\ draws' = draws \ {d} /\ drawn' = drawn \cup {d}
  /\ sessionSaved' = FALSE

\* next(): selectBestResolution tries the options of the plan, not the drawn
\* ones, one by one, and stops at the first that a search confirms to lead
\* to a flawless plan.  A slave has no requirements yet, so the confirming
\* search cannot apply the option's constraint and looks for any flawless
\* plan; and the constraint that next() adds to the slave is not part of the
\* clones that the depth-first search backtracks to, so the slave may admit
\* flawless plans that do not satisfy it.
SlaveResolves(d, f) ==
  /\ Draw(d)
  /\ f \in Options(last) \cap Translated
  /\ \E p \in Improving : Priced(p, TRUE)
  /\ \E space \in SUBSET Improving :
       /\ Improving \cap Resolves[f] \subseteq space
       /\ Explore(space, TRUE, FALSE)

\* No search confirmed an option in time: next() waits for the return key.
SlaveFails(d) ==
  /\ Draw(d)
  /\ Options(last) \cap Translated # {} /\ Cost(last) > 0
  /\ phase' = "waiting"
  /\ UNCHANGED <<config, spaces, limit, late, clocks, results>>

\* and fails the slave.
UserPressesReturn ==
  /\ phase = "waiting" /\ phase' = "failed"
  /\ slave' = {} /\ resolving' = TRUE /\ complete' = FALSE
  /\ UNCHANGED <<config, master, draws, limit, late, clocks, sessionSaved,
                 results, drawn>>

\* No option can be translated, or the plan cannot be improved, or the
\* search that is to confirm an option finds a plan without a cost.
SlaveThrows(d) ==
  /\ Draw(d)
  /\ \/ Options(last) \cap Translated = {}
     \/ Cost(last) = 0
     \/ \E p \in Improving : ~Priced(p, TRUE)
  /\ phase' = "threw"
  /\ UNCHANGED <<config, spaces, limit, late, clocks, results>>

(***************************************************************************)
(* Time passes while the engine searches or restarts, while slave() tries  *)
(* resolvers, and while next() waits.                                      *)
(***************************************************************************)
Clock(t) == IF t < MaxTime THEN t + 1 ELSE t

Tick ==
  /\ phase \in {"exploring", "solved", "calling", "waiting", "failed"}
  /\ elapsed' = Clock(elapsed) /\ epochElapsed' = Clock(epochElapsed)
  /\ <<elapsed', epochElapsed'>> # clocks
  /\ UNCHANGED <<config, phase, spaces, draws, limit, late, sessionSaved,
                 results, drawn>>

SearchStep ==
  \/ NewEpoch \/ EpochOver
  \/ \E p \in Plan : Find(p) \/ FindUnpriced(p)
  \/ Stopped \/ Exhausted \/ RootFailed \/ Cutoff \/ RestartAfterSolution
  \/ SlaveIsMaster \/ SlaveWithoutOptions
  \/ \E d \in SUBSET Flaw :
       SlaveFails(d) \/ SlaveThrows(d) \/ \E f \in Flaw : SlaveResolves(d, f)

Next == SearchStep \/ UserPressesReturn \/ Tick

Spec == Init /\ [][Next]_vars

\* solve() runs on, somebody presses return, and infinitely many steps take
\* an infinite time, however little each of them takes.
FairSpec ==
  Spec /\ WF_vars(SearchStep) /\ SF_vars(Tick) /\ WF_vars(UserPressesReturn)

(***************************************************************************)
(* Properties.                                                             *)
(***************************************************************************)

Phases == {"epoch", "exploring", "solved", "calling", "waiting", "failed",
           "over", "done", "threw"}

TypeOK ==
  /\ config \in Configurations
  /\ phase \in Phases
  /\ master \subseteq Plan /\ slave \subseteq Plan
  /\ resolving \in BOOLEAN /\ complete \in BOOLEAN
  /\ last \in Plan \cup {None}
  /\ draws \cup drawn \subseteq SUBSET Drawn \ {{}}
  /\ limit \in 0..MaxFails /\ late \in BOOLEAN
  /\ count \in Nat /\ found \subseteq Plan
  /\ elapsed \in 0..MaxTime /\ epochElapsed \in 0..MaxTime
  /\ sessionSaved \in BOOLEAN

\* A plan that an epoch need not return (any more): it has been returned, or
\* it does not cost less than the last one.
Settled(p) ==
  p \in found \/ (config.hillClimbing /\ last # None /\ Cost(p) >= Cost(last))

\* Without master-slave search no restart, whatever its no-goods, bounds and
\* cutoffs, loses a plan that is still worth returning.
NothingLost ==
  ~config.masterSlave /\ phase # "epoch" => \A p \in Plan : p \in master \/ Settled(p)

\* An epoch ends because there are enough plans, because its time is over, or
\* because no plan is left: never because of a cutoff.
EpochEndsForAReason ==
  phase = "over" /\ ~config.masterSlave =>
    Enough \/ EpochExpired \/ \A p \in Plan : Settled(p)

\* The remaining combinations of the last plan are those it has, less the
\* ones drawn for it, also after restarts that found nothing.
DrawsAreFresh ==
  /\ drawn \cap draws = {}
  /\ last # None /\ last \notin Unpriced => drawn \cup draws = Combinations(last)

\* A step that returns a plan.
Returns == count' = count + 1

\* Within an epoch with hill-climbing every plan costs less than the one before, and
\* a plan from a slave that next() has constrained is flawless and improves on
\* the plan that the slave was built for.
PlansImprove ==
  [][Returns /\ last # None =>
       /\ config.hillClimbing \/ resolving => Cost(last') < Cost(last)
       /\ resolving => Cost(last') = 0]_vars

\* No plan is saved under a session id that has one already.
SavesUnderNewSession == [][Returns => ~sessionSaved]_vars

\* solve() returns or throws.
SolveEnds == <>(phase \in {"done", "threw"})
=============================================================================
