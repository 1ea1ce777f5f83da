# CARE map sharing: models, checks and proofs

This directory holds a TLA+ development of the map-sharing system in `cmvr/`
(CARE, "Repair Before You Decide") and of the scripts that run and audit its
experiments. Robots move through an unknown grid, keep a replica of the map
each, and exchange cell updates over a lossy, delayed link under byte budgets.
The development covers the replicas, the link and the communication policies;
what a robot asks for, plans and does within an episode; the tasks episodes are
played on; and the suites of episodes with the files they leave.

Contents: [inventory](#1-inventory) · [modules](#2-modules-and-how-they-match-the-code)
· [runs](#3-runs-bounds-fairness) · [proofs](#4-proofs) · [findings](#5-findings)
· [what is left out](#6-what-is-abstracted-or-left-out) · [plan](#7-plan)

## 1. Inventory

| Component | Source | State | Operations | What makes it correct |
|---|---|---|---|---|
| Belief replica | `mapping/belief_map.py`, `map_update.py`, `delta_encoder.py` | four arrays: version, step, source, occupancy | `apply_update`, `integrate_local_observation` | one total order of stamps; replicas only move forward; arrival order is irrelevant |
| Link and ledgers | `communication/unreliable.py`, `budget.py` | packets in flight; two ledgers per robot and step | `send` (may lose), `receive`, `defer`, `spend` | no ledger overdrawn; packets handled in order of arrival |
| Closed loop | `env/psr_runner.py` `run` | step, replicas, outboxes, budgets, positions, open path errors | drain, sense, plan, dispatch, drain, plan, act | phases in this order; nothing due left behind; a reachable goal is reached; recovery latencies count each step once |
| Delta delivery (one-shot, Retry-All ARQ, Path-Weighted ARQ) | `_enqueue_updates`, `_send_delta_tasks`, `_interleave...`, DELTA and ACK handlers | an outbox of tasks per robot | queue, attempt, deliver, acknowledge | no acknowledged observation is lost; replicas agree when nothing is pending; no class of tasks starves |
| Digest-query repair (corridor, utility, deadline, certificate, ... policies) | `_send_queries`, `ordered_digest_peers`, DIGEST_QUERY and PATCH handlers | none between steps | query, answer, apply | answers arrive within the round trip the planners count on |
| CARE scenario certificate | `replica_protocol.py` 595-683, `_certificate_plan` | none between steps | enumerate scenarios, compare plans, search | the query is the first smallest that separates; an answered robot decides as if informed |
| Periodic full sync | `_periodic_full_sync` | rotation, a function of the step | send one chunk | everyone is sent everything |
| Scuttlebutt depth | `external_reconciliation.py` 92-172, `_send_scuttle_digests`, handlers | an archive per robot | digest, truncated patch, reply digest | knowledge per origin has no gaps; archive and replica agree; gossip converges |
| Mismatch-triggered full repair | `_send_replica_digests`, `_send_full_repair_tasks`, `_enqueue_full_replica` | a second outbox | digest, re-enqueue, send | a mismatch leads to repair; stale queued updates do no harm |
| Merkle anti-entropy | `MerkleTree`, `_send_merkle_roots`, handlers | pending branches per pair, cached trees | probe, children, match, leaf patch | nothing found missing is lost with a branch; comparisons end and restart |
| IBLT reconciliation | `build_iblt`, `peel_iblt`, handlers | cached sketches | sketch, subtract, peel, patch | peeling finds the difference or says so; every partition comes round; a truncated patch is followed by the rest |
| Repair planners (deadline witness, top-k, single cell, corridor, chunk) | `replica_protocol.py` 512-807 | none | choose cells | only unknown cells, within the cap, in priority order; an answer comes before the robot enters |
| PGSC, BRD, OCBC, VoI, utility proxy | `replica_protocol.py` 198-509 | none | choose cells by scores | the choice is worth what the method promises; no cell that cannot matter is asked for |
| Wire codecs | `communication/wire.py` | none | encode, decode | exact sizes, round trips; no value an episode can reach is refused |
| A*, D* Lite | `planning/` | D* Lite keeps its search between calls | plan | an incremental plan is as short as a fresh one |
| Instances | `env/instance.py`, `natural_critical.py`, `structured_instances.py` | a search of maps and pairs | sample, draw, pack, build; carve | a task accepted as critical has the decision it is accepted for |
| Suite runner | `scripts/run_psr_suite.py`, `run_care_*_matrix.py`, `run_care_natural_scale.py` | output directory, manifest, pool, result files | plan, generate, save, freeze, run, write | one writer; rows in order; a summary means that all is there |
| Analyses | `scripts/analyze_*.py`, `audit_*.py` | none | read a directory, check it, compute | a study is accepted exactly if it is complete |
| Figures and tables | `scripts/make_*.py`, `bootstrap_*.py`, `paper/` | none | offline statistics | (not modelled) |
| POGEMA | third party | the environment | `step`, observations | external |

**Interactions.** An episode happens on one thread. `run` calls, in each step,
`_drain_arrivals`, the sensors, `_paths`, `_dispatch_data`, `_drain_arrivals`
again, the planners again, and the environment. Components share the replicas,
the outboxes and the ledgers; robots interact through packets only. Handling a
packet may send another under the ledger of the robot that handles it, and with
a delay of zero that packet is handled in the same drain. A suite generates
instances, runs episodes in a pool of processes and talks to the analyses
through files only.

**What is hard.** In an episode: packets lost, late, repeated and crossing;
acknowledgements that are lost themselves; budgets that admit a single packet
and are shared by deltas, patches and retries; rotations driven by the step
number; digests that stand for knowledge that has changed since; decisions that
must be made before an answer can come; searches repaired under a map that
changed; paths that move under the measure that is taken along them. Around it:
processes that are killed or break while others go on, two suites that are given
one directory, analyses that look at what is not finished. `PROJECT.json` lists
each hazard at its line, with the properties that cover it.

## 2. Modules and how they match the code

```
ReplicaStamps                    stamps, apply_update, packet sizes
   |-- MapSharing                what every policy promises (abstract)
   `-- ReplicaLoop               replicas, link, ledgers, phases of a step
          |-- DeltaDelivery      outboxes, deltas, acknowledgements
          |      |-- QueryRepair          + queries and patches
          |      |-- PeriodicFullSync     + chunks in sync steps
          |      |-- MerkleAntiEntropy    + probes, hashes, leaf patches
          |      `-- SummaryRepair        + digests and queues, sketches and patches
          |             `-- Sketches      Bloom lookup tables
          `-- ScuttlebuttDepth   archives, digests, truncated patches
ScenarioCertificate              what CARE asks for
Grid                             positions, distances, paths
   |-- AStar                     a search from nothing
   |      |-- RepairPlans        what the other policies ask for
   |      |      `-- ClosedLoop  an episode of one robot (with DStarLite)
   |      `-- Decisions          what a critical decision is
   |             |-- NaturalCritical      the search in random maps
   |             `-- StructuredTasks      hand-made tasks
   |                    `-- CriticalTasks their maps, with walls and variants
   `-- DStarLite                 a search that is kept
WireCodec                        bytes
   `-- EpisodeLimits             what is refused, and when
SuiteRunner                      suites, pools, files (NaturalCritical,
   |                             StructuredTasks, EpisodeLimits)
   `-- ResultAudits              what analyses demand of the files
```

* **ReplicaStamps.** A stamp is the tuple that `apply_update` compares. `Apply`
  is `apply_update` on one cell; `Known` is the test in `update_from_belief`.
  The packet sizes are what the encoders in `wire.py` produce.
* **ReplicaLoop.** `phase` says where in the body of the loop the runner is:
  `arrivals` (first drain), `sense`, `dispatch`, `settle` (second drain);
  `turn` is the robot that a loop over robots has come to. `Observe` is
  `integrate_local_observation` (with its skip rule), `EndStep` the end of an
  iteration with fresh ledgers. `emitted` is a history variable: what sensors
  ever reported.
* **DeltaDelivery.** `Attempt` is one iteration of the loop in
  `_send_delta_tasks` that finds budget, `EndSending` the rest of it;
  `HandleDelta` and `HandleAck` are the handlers. `tried` is what the sender's
  loop has been through. `IsNext` gives the order of each policy; for
  Path-Weighted ARQ any order, because it depends on the receivers' paths.
* **QueryRepair.** `Choose` is the planner's choice, `Ask` one iteration over
  the peers, `HandleQuery` and `HandlePatch` the handlers. `regional` is the
  policy PERIODIC_REGIONAL_SYNC, which sends no deltas and is answered whatever
  the stamps. `promised` is a history variable: for every query under way, what
  the teammate knew when it was asked.
* **PeriodicFullSync.** `place` counts through the double loop of
  `_periodic_full_sync`; `CellAt` and `TargetAt` are its two rotations.
* **MerkleAntiEntropy.** `pending` is `_merkle_pending`; `SendProbe` is one
  iteration of `_send_merkle_roots` over the teammates, deferred or not;
  `HandleProbe`, `HandleChildren`, `HandleMatch` and `HandlePatch` are the
  handlers, `HandleProbe` with its three answers. The tree is numbered as
  `MerkleTree` numbers it; the hash of a node is replaced by what it is a hash
  of, the stamps of the cells below. `probing` tells `_send_delta_tasks` from
  `_send_merkle_roots`. `compared` is a history variable: what the teammate held
  when the robot last learnt that their roots differ.
* **SummaryRepair.** Two policies that differ in what they summarise. `stage`
  walks through `_dispatch_data`: `_send_delta_tasks`, then
  `_send_replica_digests` or `_send_iblt_sketches` (`SendSummary`), then
  `_send_full_repair_tasks` (`SendRepair`). `repairs` is `full_repair_outboxes`;
  `HandleDigest` is `_enqueue_full_replica` behind its comparison. `partition`
  is the shard the sketches of the step are of. `drawn` remembers the loss draws
  of repair packets, which depend on the update and the receiver only (`Draws`);
  every other packet has a draw of its own.
* **Sketches.** `Build` is `build_iblt`, `Difference` is `subtract` and
  `peel_iblt`, cell by cell: pure cells, their removal from the others, and
  whether the table is empty in the end. The cells that a record is hashed to are
  the parameter `Indices`, for the seed of a partition; that seed is the same in
  every cycle, so that a difference which does not peel stays until one of the
  replicas changes.
* **ScuttlebuttDepth.** `archive` is the archive of each robot; `HandleDigest`
  is the whole handler, patch and reply together. `IsTruncation` describes the
  sets that `scuttle_depth_updates` cut at the budget may return; the hash that
  breaks ties is a free choice.
* **ScenarioCertificate.** `Scenarios` is `scenario_blocked_sets`; `At` and
  `Differing` are `first_path_divergence`; `Constraints` is the pair loop of
  `minimum_scenario_certificate`, `Enlarge` and `Settle` its loop over sizes;
  `Answer` is what the teammates' patches bring. `SensitiveCells` is the
  baseline `single_cell_sensitivity_plan`, to compare the certificate with. What a
  certificate promises is stated of the positions of two plans, step by step
  (`Together`, `Alike`), and not by way of the code's own test of divergences.
  Candidates are numbered in candidate order, so that `Precedes` is the order of
  `itertools.combinations`.
* **MapSharing** is the abstract specification: robots look and learn, with no
  link, budget or clock. DeltaDelivery, QueryRepair, PeriodicFullSync,
  MerkleAntiEntropy, SummaryRepair and ScuttlebuttDepth implement it under the
  mapping of `beliefs` and `emitted` (`Sharing == INSTANCE MapSharing WITH ...`):
  no replica ever holds a stamp that nobody reported for that cell, and no
  replica ever moves backwards.
* **Grid, AStar, DStarLite.** `AStarPath` is `AStarPlanner.plan` with its heap
  and tie-breaking. `DStarLite` holds the methods of the incremental planner as
  operators on a record (`g`, `rhs`, `queued`, `km`); one iteration of
  `_compute_shortest_path` is `Iterated`, so that a module can take them one at
  a time. `Grid!Distance` floods the map and is what both are judged by.
* **RepairPlans.** One operator for each planner in `replica_protocol.py` that
  chooses cells (deadline witness, corridor, path-aware top-k, single-cell
  sensitivity, rotating chunk, PGSC, BRD, OCBC, VoI per byte, the utility proxy)
  and for `ordered_digest_peers`. Probabilities and weights are integers on a
  scale of a thousand; Gaussian kernels are a decreasing table.
* **ClosedLoop.** An episode as one robot lives it. `phase` follows the body of
  `run`: `ArriveAndSense` (first drain and the sensors of all robots),
  `StartFirstPlan`, `Search` (one iteration of D* Lite), `FirstPlan`, `Query` (the
  deadline planner), `SettleAndPlan` and `SecondPlan` (second drain, second plan),
  `Act` (path errors, latencies, the move with collisions), `Over`. Teammates are
  the cells they hold newer stamps of, any
  of which may arrive in any drain. `since`, `recovered` and `erroneous` are
  `_path_errors` and the recovery clock; `awaited` remembers deadline queries.
* **WireCodec, EpisodeLimits.** Every encoder, its refusals, and every decoder,
  byte by byte. `EpisodeLimits` has the checks of `PSRConfig.__post_init__`
  (`ConfigAccepted`) and those at the start of `run` (`EpisodeAccepted`), and
  what an accepted episode could still be refused for when it encodes
  (`RefusedLate`).
* **Decisions, NaturalCritical, StructuredTasks, CriticalTasks.** `NeedsHelp` is
  the critical decision: a robot that walks alone comes to its commitment not
  having seen the obstacle, and acts there as it would not if it knew.
  `NaturalCritical` is the search of `natural_critical.py`, from sampled maps
  over drawn pairs to packed tasks, with observers. `StructuredTasks` carves the
  families of `structured_instances.py`; `CriticalTasks` evaluates them on their
  own map sizes.
* **SuiteRunner.** `at[s].pc` is where a suite is; `disk` is the directory with
  each file absent, partly there or whole; `episodes` is the pool. `Crash` may
  happen to a suite anywhere, `PoolBreaks` to its workers. A matrix
  (`run_care_extension_matrix.py`, `run_care_natural_scale.py`) is a job of
  several studies with a manifest of its own. A suite and a matrix that are given
  one output directory also compete for the directory of the first study, which is
  a subdirectory in the code: the model has races that the code has not. An episode is what `EpisodeLimits`
  says of its configuration; an instance is the parameters it is generated from.
* **ResultAudits.** What each analysis script demands of a directory, one
  operator per script, over the directory of `SuiteRunner`. The frozen design of
  a script is the configuration of the study.

Operators whose comment begins with "Mutant of" are faulty variants of the
definition they precede. Replacing the definition by its mutant makes the
property listed with it in `PROJECT.json` fail.

## 3. Runs, bounds, fairness

| Run | Instance | Shows |
|---|---|---|
| `delta` | 2 robots, 3 cells, 26 B of data and 8 B of control per step, delay 1, loss, all three policies | `NoLostUpdate`, `QuiescentAgreement`, `RetryAllIsFair`, refinement of `MapSharing`; every observation arrives and outboxes drain (`Converges`) |
| `query_repair` | 3 robots, 2 cells, 60 B and 50 B, delay 1, loss, queries every other step, regional or not | an answered query has its effect within two delays (`RepairInTime`: its premise `AnswersFit`, a delay and 30 B for each of two teammates, holds here); refinement |
| `periodic_sync` | 3 robots, 2 cells, 39 B, sync in every other step, loss | chunks are even, replicas converge; refinement |
| `small_cap_sync` | 4 robots, 3 cells, 26 B (the default), sync in every step, no loss | **violated**: finding below |
| `scuttle` | 3 robots, 2 cells, 27 B (one update per patch), 19 B (one digest), one peer per round, delay 1, loss; the links of robots 1 and 2 with robot 0 are fair | `NoGaps`, `ArchiveMatchesBelief`, refinement; whoever has a fair link converges |
| `merkle` | 2 robots, 3 cells in a binary tree of 4 leaves, 17 B (one leaf patch), 56 B (a probe and one answer with hashes), delay 1, loss; robot 1 learns over fair links | `NoBranchLost`, refinement; the learner ends up with everything |
| `merkle_small_control` | the same with 36 B and delay 0, which `run` accepts | **violated**: finding below |
| `summary_repair` | 2 robots, 5 cells in 2 partitions of which 2 or 3 are seen, 26 B (two records of a queue, or a patch of one), 100 B (one sketch of 4 cells, 2 hashes), delay 0, loss, both policies | refinement; every drain ends, and what can be repaired is repaired (`SummaryConverges`) |
| `mismatch_lost_repair` | 2 robots, 1 cell, 26 B, loss, mismatch-triggered repair | **violated**: finding below |
| `certificate` | 3 candidates, up to 2 blocked, 4 routes or none in each scenario (8640 assignments), every true scenario and every partial answer | the query is the first smallest that separates (`Minimum`); a fully answered robot moves as if informed (`DecisionsInformed`) |
| `closed_loop` | 3 by 4 cells, 1 wall, 4 doubtful cells (all 16 maps), teammates may see 2 of them, delay 1, sensor radius 1, A* and D* Lite, 9 steps, 1 jam | D* Lite is consistent between any two iterations and paths are shortest; deadline answers come before entry; single-cell methods ask on the path; rotations are complete, each for itself and together; latencies add up; the goal is reached |
| `suite` | two processes on one directory: suites of up to 8 episodes, a matrix of two studies, pools of one and two workers, a search on maps of 6 by 6, refused configurations, configurations at the edges of the codec | what is on the disk is consistent, and the work of one suite (`OutputsConsistent`); an analysis accepts it exactly if it is a study (`AuditsDecide`); no accepted episode is given up by the codec (`NoLateRefusal`); accepted tasks have their decisions (`DecisionsNeedHelp`) |

Pure algorithms that no state depends on are checked as named assumptions of the
run whose module states them: `PeelingIsComplete` (all differences of up to six
records, `summary_repair`); `ForksNeedHelp`, `VariantsNeedHelp`, `WallsNeedHelp`
(`certificate`); `UtilityIsImmediateDivergence`, `GreedyCovers` (the greedy choice
has at least 1 - 1/e of the best value), `RateDistortionIsOptimal`
(`closed_loop`); `DeltasReadBack`, `QueriesReadBack`, `PatchesReadBack`,
`ReconciliationReadsBack`, `NodesFit` (`suite`).

**Why these bounds.** Budgets are the smallest that admit the contested case:
one or two packets, one digest, one truncated patch, so that every deferral,
truncation and starvation branch is taken. Two or three cells give conflicting
stamps of one cell beside uncontested ones. Where there are three robots, they
give a third that only hears of what the others saw, and reports that cross. A
delay of one separates sending from arrival and lets a round trip span two steps;
the lossy link may lose any packet. `Horizon = 2` bounds the steps in which
sensors show something new, so there are first attempts, retries and later,
superseding reports together; the protocols run on for ever after it. The tree
over three cells has a padding leaf and two inner nodes below the root, so that a
sibling branch is retained while the other one is followed. In `summary_repair` a
patch holds one record, so that robot 0 needs several for cells 1 and 3; robot 1
may supersede the first of these, so that a cut patch brings nothing new; the
difference may not peel while the other partition waits for its turn; and a queue
of repairs may be longer than the budget. There is no delay, so that a digest is
handled in the drain in which an answer to it would be handled too: a drain that
does not end is a behaviour in which nothing is repaired any more. Its sensors show
something in the first step only (`Horizon = 1`). The safety properties of `delta`
are proved for every team, so its run has two robots and spends its states on
cells, policies and liveness. In `certificate` three routes part exactly at the
round trip and a fourth one step before it, which is the boundary: a test that is
one step too strict or too lax breaks a property.

The map of `closed_loop` has two ways round its doubtful cells, so that plans
change with what is learnt, paths of equal length compete, and some maps have no
path at all; nine steps are enough to walk into a dead end and back, and one jam
(a move refused by another robot) shifts the rest against the repair interval.
A team of three and chunks of seven cells, which make two, have no common factor,
so that the joint rotation of teammates and chunks has something to show.
`full_replica_chunk` and `ordered_digest_peers` are given one round number; where
robots and chunks do have a common factor (three of each, say) the two repeat
together before they have met in every combination, and a teammate asked about the
same chunk each time is a matter of the configuration. `RotationsComplete` leaves
these cases out by `InLockStep`; no code or doc says anything of them.
The jobs of `suite` have one reason each: one per stage at which a configuration
is refused; two or more episodes where order matters; a pool that has one episode
done while the one before it runs; two radii, delays and losses for the
analyses, and one study run twice with different numbers of workers. Its second
process makes the races for the directory.

Named bounds: `Horizon` (new observations; past it the clock alternates, as
only its parity is read; in `closed_loop` it is `corridor_horizon`), `AttemptCap`
(attempts saturate; only zero, one and more are told apart), `RoundCycle` (rounds
modulo a common multiple of what they are read modulo), `MaxSteps` (the horizon
of an episode) and `MaxJams`. The `ASSUME`s restrict intervals to one or two for
the same reason. In NaturalCritical the numbers of the source (distances, path
lengths, gaps, sizes) are constants, small in the run in the same proportions.

`RepairInTime` is stated under `AnswersFit`: a link with a delay, and a data
budget of one full patch per teammate. Without either part it would be false:
with 46 instead of 60 bytes two answers, of 30 and 17 bytes, do not fit one
step's ledger; with delay 0 the responder's deltas are charged before the query
is handled, whatever the budget.

**Fairness.** The runner is one thread in a loop, hence `WF(Next)`. A link whose
loss probability is below one and whose outages are finite does not lose every
packet of a kind that is sent again and again, because each is drawn from a hash
of a key that contains its attempt, message, step or round: strong fairness of
the surviving outcome, per sender and receiver (and, for answers to Merkle
probes, per kind of answer; for sketches and the patches that answer them, per
partition). In `scuttle` and `merkle` it is asked only of the links that the
conclusion is about (`Links`, `Learners`). The one exception are the packets of
mismatch-triggered repair, whose key never changes: `Draws` keeps the first
outcome, `SummaryConverges` excludes what was drawn as lost, and
`mismatch_lost_repair` is about just that. It also excludes what the budget ends
before (`PaidFor`): every digest that differs queues the replica from its oldest
record, so that a cap below a replica never reaches the latest; claiming one packet
more than the budget pays for fails.
Outages of the link are not modelled for these packets; one that ends changes
nothing but the time of the repair. `small_cap_sync` has no loss and needs
`WF(Next)` only; `merkle_small_control` fails under all of that fairness. The
runs end with an episode in the code; that these models go on shows what the
protocol does given time. `closed_loop` has the end of the episode and needs only
that the runner goes on until then (`RunsOn`). `suite` has no liveness property:
processes may be killed.

Deadlock is checked in every run but `suite`, whose processes come to an end: no
state of a loop is without a next step.

## 4. Proofs

All proofs hold for every value of the constants that satisfies the modules'
`ASSUME`s: any number of robots and cells, any map and sensor windows, any
budgets, any delay, with or without loss. Each safety property `P` of a protocol
is proved as `Spec => []P` from an inductive invariant, which stands in the
protocol's own module under a comment that says why `P` alone is not inductive;
TLC has checked each of these invariants on the instance of the protocol's run
before it was proved. The invariants of ClosedLoop and of its planners stand
with their proofs: they speak of all walks and all costs, which TLC cannot
enumerate.

Where a module of proofs extends two specifications (QueryRepairProofs,
ScuttlebuttDepthProofs, SummaryRepairProofs), these share no variable of their own
and each theorem names the specification it is about; the assumptions on the
constants of one say nothing of the other.

* **DeltaDeliveryProofs** begins with what all protocols share. Stamps are totally ordered
  and `Apply` is their maximum; hence `ApplyOrderIrrelevant`: two updates in
  either order, or twice, give the same result. A queue of packets in order of
  arrival stays one (`QueueOK`) when packets are sent, handled and moved on by the
  clock. A sensor step is a `Look` of `MapSharing`, taking a report a `Learn`,
  everything else a stutter; and `HonestReports` is kept by all three: every
  known stamp in a replica is a report, every report is true and the only one of
  its robot and cell, and no robot has fallen behind its own reports. The modules
  of the protocols then only have to show, handler by handler, that what is
  applied to a replica is a report. `SharedMapsAreTrue` is the same for
  `MapSharing` itself: whatever implements it, with any losses and formats,
  believes only what somebody reported, and that is true.
  Then the deltas: `Invariance` (`Spec => []IndInv`), and from it
  `TypeCorrect`, `NoLoss` (`[]NoLostUpdate`), `QuiescentReplicasAgree`
  (`[]QuiescentAgreement`), `Refinement` (`ImplementsSharing`), `ReportsStayHonest`.
  `NoLostUpdate` alone is not inductive: when an ACK is handled its task leaves
  the outbox, so the receiver must be known to have the update (`AckMeansKnown`);
  an ACK is sent when a delta is handled, so what a delta carries must have been
  reported by the robot in whose name it is stamped (`OnlyReported`,
  `OwnReports`), since the token names the update and the outbox is found by the
  robot; and the clock may only advance when nothing is due, which needs packets
  to wait in order (`NetInOrder`). `QuiescentAgreement` follows because with
  empty outboxes every robot is at least as new as every report, each replica
  holds only reports, and the order of stamps is antisymmetric.
  `RetriesAlternate` (`[]RetryAllIsFair`) counts: a key names one task of an
  outbox (`KeysAreUnique`), so an attempt moves one task from its class to the
  tried ones of that class, and the tried tasks of both classes are all that was
  tried (`TriedAreCounted`); which class leads is a parity of that number.
* **PeriodicFullSync** (in SummaryRepairProofs). `SyncTypeCorrect`, `RoundsAreEven` and
  `SyncRefinement`. The budget stops the loop, and the count of cells is computed
  from what the budget was when the loop began; so the invariant says that in a
  sync step a robot's ledger is full until its turn (`LedgersFull`) and that a
  chunk under way is within its count (`ChunkFits`).
* **QueryRepairProofs.** `RepairTypeCorrect`, `RepairRefinement`, and
  `AnswersComeInTime` (`[]RepairInTime`). The argument of the last follows a
  query over the link. What a robot asks for is remembered with its due time, and
  at each moment the query, or a patch that answers it, is in transit with that
  time left, or the robot has what it asked for. A query is answered
  in the step it arrives because of the ledger: no two queries of a robot to the
  same teammate are due in one step, so there are at most as many answers to
  pay for as teammates, and deltas are charged after them. And an answer that
  withholds an entry does so because the robot had it when it asked; replicas do
  not move back.
* **ScuttlebuttDepthProofs.** `ScuttleTypeCorrect`, `ArchivesHaveNoGaps`,
  `ArchivesMatchBeliefs`, `ScuttleRefinement`. A digest names a maximum per
  origin; that this stands for everything before it needs digests to be sound
  against the archive of their sender and patches against the archive of their
  receiver, when they were made and at every later moment (`SoundDigest`,
  `SoundPatch`), and new reports to come after all earlier ones of their robot
  (`ReportsInOrder`). A truncated patch is sound because truncation keeps
  everything earlier of an origin.
* **MerkleAntiEntropyProofs.** First the tree, for every fanout and number of
  cells: the loop for `leaf_count` ends, with a complete tree (`TreeShape`), the
  cells below a node are those below its children (`BranchBelow`), and the root
  stands for all of them (`RootCovers`). `LeafCount` and `Below` are
  recursive functions; that they exist and what they compute is proved by taking
  a least counterexample among natural numbers. Then `MerkleTypeCorrect`,
  `BranchesAreKept` (`[]NoBranchLost`) and `MerkleRefinement`. A match removes a
  branch and a patch a leaf; that nothing is lost with them needs the link to
  keep its order: an answer is never older than the comparison it belongs to, nor
  than the hashes sent before it (`AnswersInOrder`), and hashes are of stamps
  their sender still has or has superseded (`SoundDigest`).
* **SummaryRepairProofs.** First the peeling of Bloom tables, for any number of
  cells and hash functions and any finite sets of records (`PeelingIsSound`):
  what is read from the difference of two tables is in one set and not in the
  other, on the side it is read for, and is all of it if the table peels. Each
  step either reads a record, which leaves fewer unread, or shortens the queue;
  hence the recursion of `Peeled` is defined and ends, and at every step the
  table is the difference of what is still unread. Then
  `SummaryTypeCorrect` and `SummaryRefinement`. A patch fits its budget because
  the receiver takes what comes before a bound in an order in which no two
  records have the same number before them; and it carries reports because what
  peels on the answering robot's side is from its own replica. These theorems
  have a hypothesis, `TableHashes`: every record is hashed to at least one cell,
  and to cells of the table. `_iblt_indices` does so: it refuses tables with
  fewer cells than hash functions and takes its hashes modulo the number of cells
  until it has one for each function. That a peeling *succeeds* is not proved,
  and is not always so; `PeelingIsComplete` checks which small differences peel.
* **ScenarioCertificate** (in QueryRepairProofs). `HitsIsSeparates` is the scenario-separation
  theorem of `docs/CARE_ALGORITHM.md`. `SearchCorrect`: the search over sizes
  never runs past the full candidate set, which always separates, and ends with
  a hitting set. `CertificateMinimum`: it is the first smallest separating set.
  `CertificateInforms`: the view of an answered robot (unknown cells count as
  free) is itself one of the scenarios it planned for, because a subset of at
  most `Order` cells has at most `Order` cells; view and truth agree on the
  query, so the query does not separate them, so their plans do not differ in
  time. That the code's test of a pair (the first step in which the plans differ is
  no earlier than the round trip) comes to what the positions say, which are those
  *after* each step, is `InTimeIsDecidable`. `CertificateCoversSingleCells`
  (`SensitiveAsked`, of which there is no run, as it follows from `Minimum`): a
  candidate that alone changes the plan in time is a constraint of its own, so
  every certificate contains it.
  The theorem in the paper speaks of identifying classes of scenarios;
  this one says what the robot then does.

* **PlannerProofs.** `AStarIsShortest`: for every grid, map, start and goal the
  path that `plan` returns can be walked, there is one exactly if the goal can be
  reached, and none is shorter. `AStarInv` says of the search that a cell whose
  entry has been taken has made its neighbours at most one step dearer than
  itself, so that along any path there is a cell not yet taken whose entry is no
  later than the path is long. Superseded entries stay in the heap, and `Current`
  tells them from the others. The loop is a recursive function with a bound; that
  the bound is not reached is part of the proof, by counting the costs that can
  still come.

  `OffPathIsIrrelevant`: blocking a cell `x` that is not on the path `plan` returns
  leaves that very path, also where there are others as short. The proof follows
  two runs of the loop, without and with `x` blocked. `Alike` relates them: there
  is a set of cells that both have finished with the same cost and parent; every
  other cell the first run has finished it has found by way of `x`; and for a cell
  that waits in the heap with a parent in the set, both know the same. As the heap
  orders entries by what they hold, and not by when they were pushed, two entries
  compare the same way in both runs. So either the smaller top belongs to one run
  alone and that run takes or drops it, or both take the same; `Alike` is kept, and
  the number of cells not yet finished and entries not yet taken goes down. When
  the goal is on top, either both runs have the same parents all the way back from
  it, or the first has come to it by way of `x`.

  D* Lite keeps a search while the robot moves and the map changes. `DStarInv` is
  what holds between any two iterations: every rhs is the one-step lookahead of
  its neighbours, and the queue holds exactly the inconsistent cells, none under a
  key later than its present one. It holds after `_initialize`, and is kept when
  the start moves (`km` makes good by how much old keys may be too small), when
  any set of cells changes, and by one iteration. `FinishedSearchIsShortest`: where
  the loop stops, many cells may still be wrong, but none of them lies on a way
  from the start to the goal that is cheaper than the start's cost. So that cost is
  the least, and the greedy descent of `_extract_path` goes one step cheaper at a
  time, over settled cells, to the goal; it never comes back to a cell, never gives
  up early, and finds nothing where there is no path.
* **ClosedLoopProofs.** `LoopInv` says that every planner of the episode keeps
  `DStarInv` for the map, position and goal of its last call, and that the path
  of the step is a shortest one on the map it was planned on.
  `SearchesAreConsistent` and `AllPathsAreShortest` follow, the latter from
  the theorems of PlannerProofs and from the flood of `Grid!Distance` reaching a
  cell in as many steps as its best path has. `LoopTypeCorrect` has one clause that is not about
  types: the move a robot tries never leads into an obstacle, because its next
  cell lies in the sensor's window and the window was applied before the last
  plan. `LatenciesAccount` is the account of `CountsInv`: the erroneous steps are
  those already recorded and those since the open error began.

  `AnswersComeBeforeEntry`: a cell that was asked about is, in steps, at least as
  far as the answer is from being there. `AnswersInv` says this of all *walks on
  the true map*, and not of the path that the question was about, since that is
  replanned in every step. When the question is asked, the optimistic path to the
  cell is a shortest one on a map that has fewer obstacles than the true one, so
  that every true walk is at least as long; each step then shortens walks and the
  remaining time by one. `AllRotationsAreComplete` is about operators only: among
  consecutive numbers as many as there are robots, one puts a given teammate
  first among those that are equally near, and one of as many as there are chunks
  is a given chunk. For the two together, `RestsMeet` counts pairs of remainders:
  if two numbers do not repeat together before their product, no two of as many
  consecutive rounds have the same pair, so that every pair comes up
  (`EveryNearestIsAskedForAll`).

  `AllAsksAreOnPath`: between the second plan of a step and the move the path is
  what A* finds on the map of the moment (`AskInv`), so that `OffPathIsIrrelevant`
  applies to every candidate that is not on it. Its counterfactual path is the path
  itself, the divergence of the two is none and the gain of knowing it is zero in
  every world; and what is ranked has a divergence, or a positive score. That sums
  over worlds are numbers at all (`GainsAddUp`) takes a solution of the fold's
  recursion and an induction on the number of worlds.

* **SuiteRunnerProofs.** `AcceptedTasksNeedHelp` (`[]DecisionsNeedHelp`). The
  search tests a candidate along the prefix that its plan from the start shares
  with the plan around the obstacle; the property speaks of a robot that walks by
  itself and sees more at every step. That the two come to the same
  (`WalkFollowsPrefix`) is what `_dynamic_prefix_is_consistent` is there for: as
  long as each replanning on what was seen so far goes on along the prefix, the
  walk is the prefix, cell by cell, and since a shortest path has no cell twice
  (`NoCellTwice`) the first time the robot is at the commitment is the end of the
  prefix, and what it has seen then is what the test took it to have seen
  (`CandidateIsDecisive`). `CandidateFromDraw` makes no other candidates
  (`MadeIsDecisive`). A packing takes candidates in any order; that its ends
  stay apart is an invariant of the loop: `4 * Len(selected)` starts and goals are
  as many cells (`SelectedIsPacking`, `PackedIsPacking`), because whatever is in
  the way of an end is among the occupied cells when an observer is chosen, and
  the flood that finds its goal does not come back to its start. The inductive
  invariant (`Shaped`, `SearchIsFine`) says that the candidates of a running
  search are decisive for the map it is on and the radius of the instance that is
  wanted; that there is such a radius is a matter of the nested loops of the plan
  (`PlanIsTyped`, by way of `FlattenIsDefined` and `DistinctKeepsAll`).

  `OutputsAreConsistent` (`[]OutputsConsistent`). What the files of a directory say
  of one another does not preserve itself: it must be known who writes them and how
  far he is. The inductive invariant `Consistent` has four parts. `Exclusive`: a
  directory with `instances` has one owner, one without is as it was made, and a
  suite that is past the creation of `instances` owns its own. `Owned`: the owner and
  its directory fit (`Work`): the instances built so far have both files and the
  tasks are on them, each row is that of its task and its episode has ended well,
  traces are as many as rows or one behind just after a row, the list of accepted
  instances is whole once there are episodes, and a summary is there only after the
  last row. `Sound` keeps what the property says of a directory whose owner has gone
  on to the next study, and `Finished` says that studies are completed in order.
  `StepsAreSorted` reduces the 28 actions to five things that a suite may do to a
  directory (work in it, finish and turn to the next, enter it, take it, leave it
  alone); each part of the invariant is then kept by these five. That a task of a
  group is on an instance that was built (`GroupIsBuilt`) comes from the two loops
  counting alike: a group is complete when the number of instances is a multiple of
  the number of layouts.

  `NoEpisodeIsRefusedLate` (`[]NoLateRefusal`) assumes that no sketch of the jobs has
  more than 255 hash functions or 65535 cells, which the checks leave open (section
  5). Then what `ConfigAccepted` and `EpisodeAccepted` let through has only updates,
  stamps, versions, nodes and sketches that their codecs write (`ChecksSuffice`). Two
  of these are not a matter of one comparison: the version of a cell in Scuttlebutt
  is a product of the steps and the cells (`VersionFits`), and the last leaf of a
  Merkle tree is bounded by way of the number of its leaves, which a loop multiplies
  by the fanout until it is enough (`LeavesAreBounded`, `LastLeafFits`); that the
  loop ends is `LeavesAreDefined`.

Model-checked only:

* liveness (`Converges`, `ScuttleConverges`, `SyncConverges`, `MerkleConverges`, `SummaryConverges`,
  `ReachesGoal`), which is out of the proof system's reach;
* `AuditsDecide`, which is about what analyses count in the rows of a directory.

## 5. Findings

`small_cap_sync`: `_periodic_full_sync` says that "the deterministic round
rotates both cells and peers, so a small cap cannot silently starve high-index
receivers or later cells" (`psr_runner.py:774-775`). Both rotations are driven by
the same round number. With less budget than one packet per teammate a round
covers one cell and the first few receivers; if the number of known cells and
the number of receivers have a common factor, the same cells meet the same
receivers for ever. With the default cap, four robots and three known cells,
a round pays for packets to two of the three receivers of a sender. Robot 3 is the
third receiver of robots 0, 1 and 2. In rounds that send the first cell the
receivers are the first and the second; in those that send the second or the third
cell they begin with the second or the third. So robot 3 is sent the second and
the third cell in turn and never the first, which it never comes to know: the run
ends in a loop of such rounds. The experiments of the repository use a far larger
cap, for which `periodic_sync` shows that the rotation works.

`merkle_small_control`: `run` refuses a control budget below one answer with the
hashes of children (`psr_runner.py:301-307`), but the ledger that pays for the
answer has by then paid for the robot's own probe of 20 bytes. With the default
delay of zero a probe is answered in the step in which everyone has probed, so a
budget up to 19 bytes above the accepted minimum (260 to 279 bytes with the
default fanout) never sends one answer with hashes, no comparison gets below the
root, and no difference is ever repaired. The traversal is depth-first precisely
so that a bounded control budget is not exhausted "before reaching any leaf"
(`psr_runner.py:680-684`). 512 bytes, as in the experiments, is enough.

`mismatch_lost_repair`: whether a packet is lost is drawn from its link key, "a
stable per-packet draw" (`unreliable.py:159`). The key of a full-repair packet
names the update, the receiver and `task.attempts` (`psr_runner.py:945`), but a
task is removed as soon as it is sent and made anew, with no attempts, for the
next digest that differs. So `attempts` is always zero, the key of an update and
a receiver is the same in every packet (whoever sends it), and a repair that is
lost once is lost for ever, while its sender pays for it again in every repair
step. The run assumes that a packet which may arrive whenever it is sent does
arrive in the end; with a draw for each packet the property would hold.

Seen while modelling, and not violations of anything the repository says:

* **Sketches of more than 255 hash functions** pass `PSRConfig` and the checks of
  `run`, but the number is written in one byte, so that the first sketch is
  refused in the middle of an episode (`wire.py:330`). The same goes for more than
  65535 cells (`wire.py:331`), if the control budget of a step, 1.5 million bytes or
  more, has room for them. `NoLateRefusal` is checked and proved for fewer; no
  configuration in the repository has more than three hash functions.
* **Structured tasks** are decision-critical at the sensor radius they are made
  for, and `CriticalTasks` says which others they survive. The forks (single,
  multiple and rotated) are at three. The topology variants are
  critical at three; at two, all of them are with seed 0, but `asymmetric_fork`
  and `narrow_bypass` are not with seed 1, and their geometry depends on the
  parity of the seed: half of the radius-two topology studies of the extension
  matrix; at one, none. The
  walls with clutter are critical at their recorded commitment for three only,
  and not with slots of four columns; the tiled forks for two only. Every family
  is solvable with all the clutter it may get.
* **An analysis that takes its radii from the rows**
  (`analyze_external_reconciliation.py:68`) reads no summary, so that a study
  killed exactly between two radii is accepted as a study of the first ones.
  `AuditsDecide` says so precisely: that script accepts the rows of the first
  radii, whatever comes after. All others reject every prefix.
* `audit_care_cross_study_reproducibility.py` compares the rows that two studies
  have in common and calls the result complete, without asking whether either is.
* Every analysis makes its output directory, exclusively, before it looks at its
  input: one that rejects its input cannot be repeated with the same output.
* `decode_patch` drops the flags that its nested deltas carry; every encoder of a
  patch writes none.

## 6. What is abstracted or left out

* In the modules of the protocols a cell is its row-major number; positions,
  movement and paths are left to ClosedLoop: a sensor shows any of a given set of
  windows, a planner asks for any of a given collection of sets, teammates are
  asked in any order. Every route is thus among the behaviours. In ClosedLoop the
  team is what it means to one robot: its packets and budgets are left to the
  modules of the protocols.
* The map is static, as in an episode. Sensors report the truth; this is what
  POGEMA's observations show.
* The loss draw is a free choice; 64-bit acknowledgement tokens do not collide
  (the code raises an error if they do), nor do the checksums of sketches.
* Deltas are of one size, so all tasks after the first that does not fit are
  deferred: their turn changes nothing and is not a step of the model.
* The end of an episode (all robots at their goals, or the step limit) is modelled
  in ClosedLoop only.
* In ScenarioCertificate the planner is any function from scenarios to routes
  that avoid blocked candidates; plans are compared as made when the query is
  sent. The robot replans in every step with what it has seen meanwhile.
* Floating-point scores are scaled integers. Rankings by a score that two cells
  share are decided by the tie-breakers of the code; a tie that rounding makes or
  breaks is not represented.
* The worlds that OCBC samples, the maps and pairs that generators draw, and the
  orders that hashes produce are free choices from given sets. The random family
  (POGEMA's generator) is only its parameter check.
* In SuiteRunner an episode is whether it is refused, and a written file is absent,
  partial or whole; a row is written at once, as it is flushed at once. Opening a
  result file cannot fail there, because only one suite passes the exclusive
  creation of `instances`.
* ResultAudits has what the scripts demand of a directory. Their checks of single
  values within rows (gate counts, byte counts, CPU times), the statistics, tables
  and figures are not modelled: they are offline arithmetic on files.
* Statistics, CPU times, event logs and traces of an episode are left out
  throughout.

The component that is not modelled is POGEMA, which is third-party; only what its
observations and moves mean to the code is used.

## 7. Plan

What is left, in order:

1. Read-back of the codecs for all values of their fields.
2. A ClosedLoop of two robots on one grid, composed with DeltaDelivery, so that
   the packets of one are what arrives at the other.
