----------------------------- MODULE SuiteRunner -----------------------------
(***************************************************************************)
(* Suites of experiments and the files they leave.  A suite makes its      *)
(* instances and saves them, freezes the list of those it searched for,    *)
(* runs one episode per condition in a pool of workers, writes a row and   *)
(* its traces for every episode in the order of the conditions, and last a *)
(* summary.  Several suites may be started on the same directory, each may *)
(* be killed at any point, and what is on the disk then stays.             *)
(*                                                                         *)
(* A job is one suite, or a matrix of them (the scripts for scales and     *)
(* extensions), which has a directory for each and a manifest of its own.  *)
(* An episode is what the limits let happen to it; an instance is known by *)
(* the parameters it is generated from, which its fingerprint stands for.  *)
(***************************************************************************)
EXTENDS NaturalCritical, StructuredTasks, EpisodeLimits, SequencesExt

CONSTANTS
    Suites,     \* the processes
    Starts,     \* the jobs they may be started on, as functions of the processes
    Bitmaps,    \* the maps that may be sampled
    Draws       \* the starts and goals that may be drawn

\* A configuration: the plan of a suite, PSRConfig and the numbers of instances.
Configs ==
    [family : STRING, densities : Seq(Int), radii : Seq(Int), layouts : Seq(Seq(Int)),
     networks : Seq(Seq(Int)), seeds : Seq(Int), losses : Seq(Int), delays : Seq(Int),
     planners : Seq(STRING), policies : Seq(STRING), workers : Int, link_seed : Int,
     agents : Int, size : Int, steps : Int, attempts : Int, draws : Int,
     data : Int, control : Int, repair_interval : Int, sync_interval : Int, horizon : Int,
     peers : Int, order : Int, max_cells : Int, hashes : Int, cells : Int, seed : Int,
     partitions : Int, fanout : Int, session : Int, multiplier : Int, samples : Int,
     policy : STRING]

\* A suite of one study, or a matrix of one or two.
Jobs ==
    {j \in [kind : {"suite", "matrix"}, studies : Seq(Configs)] :
        Len(j.studies) \in IF j.kind = "suite" THEN {1} ELSE {1, 2}}

ASSUME SuiteAssumption ==
    /\ Starts \subseteq [Suites -> Jobs]
    /\ Bitmaps \subseteq SUBSET Positions
    /\ Draws \subseteq [start : Positions, goal : Positions]

VARIABLES job, at, search, disk

vars == <<job, at, search, disk>>

\* A study's directory.  Files are absent, partly there or whole.
NewDirectory ==
    [made |-> FALSE, instances |-> FALSE, maps |-> {}, tables |-> {}, manifest |-> "absent",
     opened |-> FALSE, rows |-> <<>>, traces |-> <<>>, spilled |-> FALSE,
     summary |-> "absent", by |-> {}]

NewSuite(n) ==
    [pc |-> "start", study |-> n, built |-> 0, paths |-> [k \in {} |-> k], tasks |-> <<>>,
     accepted |-> {}, episodes |-> <<>>]

Init ==
    /\ job \in Starts
    /\ at = [s \in Suites |-> NewSuite(1)]
    /\ search = [s \in Suites |-> NoSearch]
    /\ disk = [manifest |-> "absent",
               study |-> [n \in 1 .. 2 |-> NewDirectory]]

Config(s) == job[s].studies[at[s].study]
Dir(s) == disk.study[at[s].study]

\* A suite puts something into the directory of its study.
Put(s, dir) == disk' = [disk EXCEPT !.study[at[s].study] = [dir EXCEPT !.by = @ \cup {s}]]

Go(s, pc) == at' = [at EXCEPT ![s].pc = pc]

-----------------------------------------------------------------------------
\* The plan of a suite.

\* dict.fromkeys.
Distinct(seq) ==
    LET found[n \in 0 .. Len(seq)] ==
            IF n = 0 THEN <<>>
            ELSE IF \E i \in 1 .. n - 1 : seq[i] = seq[n] THEN found[n - 1]
            ELSE Append(found[n - 1], seq[n])
    IN  found[Len(seq)]

\* Absent lists of layouts and networks are empty sequences, others the only
\* member of one.
PlanAccepted(c) ==
    /\ (c.layouts = <<>>) = (c.networks = <<>>)
    /\ c.radii # <<>> /\ \A i \in DOMAIN c.radii : c.radii[i] >= 1

TrialPlan(c) ==
    IF c.layouts = <<>>
    THEN [i \in DOMAIN c.seeds |->
            [trial |-> c.seeds[i], layout |-> c.seeds[i], network |-> c.seeds[i]]]
    ELSE LET networks == c.networks[1]
         IN  FlattenSeq([i \in DOMAIN c.layouts[1] |-> [j \in DOMAIN networks |->
                [trial |-> (i - 1) * Len(networks) + j - 1,
                 layout |-> c.layouts[1][i], network |-> networks[j]]]])

Layouts(c) == Distinct([i \in DOMAIN TrialPlan(c) |-> TrialPlan(c)[i].layout])

\* The pairs of a density and a radius, in the order of the loops.
Groups(c) ==
    FlattenSeq([i \in DOMAIN c.densities |-> [j \in DOMAIN Distinct(c.radii) |->
        [density |-> c.densities[i], radius |-> Distinct(c.radii)[j]]]])

\* The instances to generate, in order.
Wanted(c) ==
    FlattenSeq([g \in DOMAIN Groups(c) |-> [l \in DOMAIN Layouts(c) |->
        [density |-> Groups(c)[g].density, radius |-> Groups(c)[g].radius,
         layout |-> Layouts(c)[l]]]])

\* The tasks of a group, with the path its instances have at that point.
GroupTasks(c, g, paths) ==
    FlattenSeq([t \in DOMAIN TrialPlan(c) |-> FlattenSeq([l \in DOMAIN c.losses |->
    FlattenSeq([d \in DOMAIN c.delays |-> FlattenSeq([p \in DOMAIN c.planners |->
        [o \in DOMAIN c.policies |->
            [density |-> g.density, radius |-> g.radius, trial |-> TrialPlan(c)[t].trial,
             layout |-> TrialPlan(c)[t].layout, network |-> TrialPlan(c)[t].network,
             loss |-> c.losses[l], delay |-> c.delays[d], planner |-> c.planners[p],
             policy |-> c.policies[o],
             path |-> paths[[density |-> g.density, radius |-> g.radius,
                             layout |-> TrialPlan(c)[t].layout]]]]])])])])

\* The seed of the losses of a task: matched over radii, planners and policies.
LinkSeed(c, t) == <<c.link_seed, t.network, t.density, t.loss, t.delay>>

\* What _instance_for_condition and the generators refuse; densities in percent.
FamilyAccepts(c, density, radius) ==
    LET target == (2 * density * c.size * c.size + 100) \div 200
    IN  CASE c.family = "random" ->
                density \in 0 .. 100 /\ c.size >= 2 /\ c.agents >= 1 /\ radius >= 1 /\ c.steps >= 1
          [] c.family = "fork_bottleneck_upper_block" -> ForkAccepted(c.size, radius, c.steps)
          [] c.family \in {"multifork_bottleneck_upper_block", "multifork_bottleneck_rotated"} ->
                MultiforkAccepted(c.size, radius)
          [] c.family \in {"multifork_t_junction", "multifork_asymmetric_fork",
                           "multifork_narrow_bypass"} -> VariantAccepted(c.size, radius)
          [] c.family = "multifork_cluttered" ->
                /\ density \in 1 .. 99 /\ ClutteredAccepted(c.size, c.agents)
                /\ DensityFits(c.size, SlotsOfWall(c.size, c.agents), target)
          [] c.family = "tiled_cluttered_fork" ->
                /\ TiledAccepted(c.size, c.agents)
                /\ DensityFits(c.size, TilesWithWalls(c.size, c.agents), target)
          [] c.family = "natural_critical_random" ->
                density \in 1 .. 99 /\ ValidParameters(c, radius)
          [] OTHER -> FALSE

\* What an instance is, as far as its fingerprint can tell.
Instance(c, want) ==
    [family |-> c.family, size |-> c.size, agents |-> c.agents, steps |-> c.steps,
     density |-> want.density, radius |-> want.radius, seed |-> want.layout]

-----------------------------------------------------------------------------
\* Making the directory and the instances.

\* output_directory, and the checks of the matrix scripts: the directory must
\* not have anything in it.
NotEmpty(s) ==
    \/ disk.manifest # "absent"
    \/ \E n \in 1 .. 2 :
        IF job[s].kind = "suite" THEN disk.study[n].instances ELSE disk.study[n].made

CheckOutput(s) ==
    /\ at[s].pc = "start"
    /\ Go(s, IF NotEmpty(s) THEN "refused" ELSE "ready")
    /\ UNCHANGED <<job, search, disk>>

\* The start of run_suite: the directory may be there, its instances may not.
MakeOutput(s) ==
    /\ at[s].pc = "ready"
    /\ disk' = [disk EXCEPT !.study[at[s].study].made = TRUE]
    /\ Go(s, "entered")
    /\ UNCHANGED <<job, search>>

MakeInstances(s) ==
    /\ at[s].pc = "entered"
    /\ IF Dir(s).instances
       THEN Go(s, "failed") /\ UNCHANGED disk
       ELSE Go(s, "planning") /\ Put(s, [Dir(s) EXCEPT !.instances = TRUE])
    /\ UNCHANGED <<job, search>>

Plan(s) ==
    /\ at[s].pc = "planning"
    /\ Go(s, IF PlanAccepted(Config(s)) THEN "generating" ELSE "failed")
    /\ UNCHANGED <<job, search, disk>>

Want(s) == Wanted(Config(s))[at[s].built + 1]

PairCount(s) == Config(s).agents \div 2

Generate(s) ==
    /\ at[s].pc = "generating" /\ at[s].built < Len(Wanted(Config(s)))
    /\ Go(s, IF ~FamilyAccepts(Config(s), Want(s).density, Want(s).radius) THEN "failed"
             ELSE IF Config(s).family = "natural_critical_random" THEN "searching"
             ELSE "saving")
    /\ search' = [search EXCEPT ![s] = NoSearch]
    /\ UNCHANGED <<job, disk>>

\* The current map is used up: it is hopeless, or all draws have been made.
UsedUp(s) ==
    \/ search[s].attempt = 0
    \/ Hopeless(search[s].bitmap, PairCount(s))
    \/ search[s].drawn = Config(s).draws

SampleMap(s) ==
    /\ at[s].pc = "searching" /\ UsedUp(s) /\ search[s].attempt < Config(s).attempts
    /\ \E bitmap \in Bitmaps : search' = [search EXCEPT ![s] = Sampled(search[s], bitmap)]
    /\ UNCHANGED <<job, at, disk>>

GiveUp(s) ==
    /\ at[s].pc = "searching" /\ UsedUp(s) /\ search[s].attempt = Config(s).attempts
    /\ Go(s, "failed")
    /\ UNCHANGED <<job, search, disk>>

DrawPair(s) ==
    /\ at[s].pc = "searching" /\ ~UsedUp(s)
    /\ \E draw \in {d \in Draws : {d.start, d.goal} \cap search[s].bitmap = {}} :
        \E next \in Drawn(search[s], draw, Want(s).radius, Config(s).horizon, PairCount(s)) :
            /\ search' = [search EXCEPT ![s] = next]
            /\ Go(s, IF Len(next.selected) = PairCount(s) THEN "selected" ELSE "searching")
    /\ UNCHANGED <<job, disk>>

\* _build_instance.
BuildInstance(s) ==
    /\ at[s].pc = "selected"
    /\ Go(s, IF DuplicateEnds(search[s].selected) THEN "failed" ELSE "saving")
    /\ search' = [search EXCEPT ![s] = NoSearch]
    /\ UNCHANGED <<job, disk>>

\* save_instance: the map first, then the table that names it.
SaveMap(s) ==
    /\ at[s].pc = "saving"
    /\ Put(s, [Dir(s) EXCEPT !.maps = @ \cup {Instance(Config(s), Want(s))}])
    /\ Go(s, "naming")
    /\ UNCHANGED <<job, search>>

\* The instances of a group are complete: its tasks are appended.
SaveTable(s) ==
    LET instance == Instance(Config(s), Want(s))
        paths == [w \in DOMAIN at[s].paths \cup {Want(s)} |->
                    IF w = Want(s) THEN instance ELSE at[s].paths[w]]
        built == at[s].built + 1
        number == Len(Layouts(Config(s)))
        group == Groups(Config(s))[(built - 1) \div number + 1]
    IN  /\ at[s].pc = "naming"
        /\ Put(s, [Dir(s) EXCEPT !.tables = @ \cup {instance}])
        /\ at' = [at EXCEPT ![s].pc = "generating", ![s].built = built, ![s].paths = paths,
                    ![s].accepted = IF Config(s).family = "natural_critical_random"
                                    THEN @ \cup {instance} ELSE @,
                    ![s].tasks = IF built % number = 0
                                 THEN @ \o GroupTasks(Config(s), group, paths) ELSE @]
        /\ UNCHANGED <<job, search>>

-----------------------------------------------------------------------------
\* Running the episodes.

\* Persist the accepted population, if there is one, before any worker starts.
Freeze(s) ==
    /\ at[s].pc = "generating" /\ at[s].built = Len(Wanted(Config(s)))
    /\ IF at[s].accepted = {}
       THEN Go(s, "frozen") /\ UNCHANGED disk
       ELSE Go(s, "freezing") /\ Put(s, [Dir(s) EXCEPT !.manifest = "partial"])
    /\ UNCHANGED <<job, search>>

EndManifest(s) ==
    /\ at[s].pc = "freezing"
    /\ Put(s, [Dir(s) EXCEPT !.manifest = "whole"])
    /\ Go(s, "frozen")
    /\ UNCHANGED <<job, search>>

\* A pool of no workers is refused; one worker needs no pool.
Launch(s) ==
    LET workers == Config(s).workers
        tasks == at[s].tasks
    IN  /\ at[s].pc = "frozen"
        /\ IF workers < 1 \/ (workers > 1 /\ tasks = <<>>)
           THEN Go(s, "failed")
           ELSE at' = [at EXCEPT ![s].pc = "opening",
                         ![s].episodes = [i \in DOMAIN tasks |-> "waiting"]]
        /\ UNCHANGED <<job, search, disk>>

OpenFiles(s) ==
    /\ at[s].pc = "opening" /\ ~Dir(s).opened
    /\ Put(s, [Dir(s) EXCEPT !.opened = TRUE])
    /\ Go(s, "collecting")
    /\ UNCHANGED <<job, search>>

Of(s, states) == {i \in DOMAIN at[s].episodes : at[s].episodes[i] \in states}

\* Mutant of NextResult: whichever is done first.
NextDone(s) ==
    LET written == {Dir(s).rows[i].number : i \in DOMAIN Dir(s).rows}
        done == Of(s, {"row", "refused", "late", "broken", "unreadable"}) \ written
    IN  IF done = {} THEN Len(Dir(s).rows) + 1 ELSE CHOOSE i \in done : TRUE

\* The task whose result is collected next.
NextResult(s) == Len(Dir(s).rows) + 1

\* A pool is given all tasks at once and takes them in order; without one the
\* next task is run when its result is asked for.
MayStart(s, i) ==
    /\ \A j \in Of(s, {"waiting"}) : i <= j
    /\ IF Config(s).workers = 1
       THEN at[s].pc = "collecting" /\ i = NextResult(s)
       ELSE /\ at[s].pc \in {"opening", "collecting", "tracing"}
            /\ Cardinality(Of(s, {"running"})) < Config(s).workers

Episode(s, i, state) == at' = [at EXCEPT ![s].episodes[i] = state]

StartEpisode(s) ==
    /\ \E i \in Of(s, {"waiting"}) : MayStart(s, i) /\ Episode(s, i, "running")
    /\ UNCHANGED <<job, search, disk>>

\* load_instance: the table and the map that it has the hash of are there.
Loads(s, path) == path \in Dir(s).maps \cap Dir(s).tables

\* _run_policy_task: the instance, the checks and the episode.
Outcome(s, i) ==
    LET task == at[s].tasks[i]
        c == [Config(s) EXCEPT !.policy = task.policy]
    IN  IF ~Loads(s, task.path) THEN "unreadable"
        ELSE IF ~(ConfigAccepted(c) /\ EpisodeAccepted(c)) THEN "refused"
        ELSE IF RefusedLate(c) THEN "late"
        ELSE "row"

FinishEpisode(s) ==
    /\ at[s].pc # "crashed"
    /\ \E i \in Of(s, {"running"}) : Episode(s, i, Outcome(s, i))
    /\ UNCHANGED <<job, search, disk>>

\* A worker dies: nothing the pool has not finished gets a result.
PoolBreaks(s) ==
    /\ Config(s).workers > 1 /\ at[s].pc \in {"opening", "collecting", "tracing"}
    /\ Of(s, {"running"}) # {}
    /\ at' = [at EXCEPT ![s].episodes =
                [i \in DOMAIN @ |-> IF @[i] \in {"waiting", "running"} THEN "broken" ELSE @[i]]]
    /\ UNCHANGED <<job, search, disk>>

\* A row is written and flushed at once, its traces fill the buffer several times.
WriteRow(s) ==
    LET i == NextResult(s)
    IN  /\ at[s].pc = "collecting" /\ i \in Of(s, {"row"})
        /\ Put(s, [Dir(s) EXCEPT !.rows = Append(@,
                [number |-> i, task |-> at[s].tasks[i], instance |-> at[s].tasks[i].path,
                 link |-> LinkSeed(Config(s), at[s].tasks[i])])])
        /\ Go(s, "tracing")
        /\ UNCHANGED <<job, search>>

SpillTraces(s) ==
    /\ at[s].pc = "tracing" /\ ~Dir(s).spilled
    /\ Put(s, [Dir(s) EXCEPT !.spilled = TRUE])
    /\ UNCHANGED <<job, at, search>>

WriteTraces(s) ==
    /\ at[s].pc = "tracing"
    /\ Put(s, [Dir(s) EXCEPT !.spilled = FALSE,
                 !.traces = Append(@, Dir(s).rows[Len(Dir(s).rows)].number)])
    /\ Go(s, "collecting")
    /\ UNCHANGED <<job, search>>

\* The exception of an episode is raised where its row is due: what has not
\* begun is cancelled, what runs is waited for.
RaiseFailure(s) ==
    /\ at[s].pc = "collecting"
    /\ NextResult(s) \in Of(s, {"refused", "late", "broken", "unreadable"})
    /\ at' = [at EXCEPT ![s].pc = "failing", ![s].episodes =
                [i \in DOMAIN @ |-> IF @[i] = "waiting" THEN "cancelled" ELSE @[i]]]
    /\ UNCHANGED <<job, search, disk>>

ShutDown(s) ==
    /\ at[s].pc = "failing" /\ Of(s, {"running"}) = {}
    /\ Go(s, "failed")
    /\ UNCHANGED <<job, search, disk>>

OpenSummary(s) ==
    /\ at[s].pc = "collecting" /\ Len(Dir(s).rows) = Len(at[s].tasks)
    /\ Put(s, [Dir(s) EXCEPT !.summary = "partial"])
    /\ Go(s, "summing")
    /\ UNCHANGED <<job, search>>

\* The end of run_suite: the matrix goes on with the next study.
WriteSummary(s) ==
    LET n == at[s].study
    IN  /\ at[s].pc = "summing"
        /\ Put(s, [Dir(s) EXCEPT !.summary = "whole"])
        /\ at' = [at EXCEPT ![s] =
                    IF job[s].kind = "suite" THEN [@ EXCEPT !.pc = "done"]
                    ELSE IF n = Len(job[s].studies) THEN [@ EXCEPT !.pc = "listing"]
                    ELSE [NewSuite(n + 1) EXCEPT !.pc = "ready"]]
        /\ UNCHANGED <<job, search>>

\* The manifest of a matrix.
OpenList(s) ==
    /\ at[s].pc = "listing"
    /\ disk' = [disk EXCEPT !.manifest = "partial"]
    /\ Go(s, "ending")
    /\ UNCHANGED <<job, search>>

EndList(s) ==
    /\ at[s].pc = "ending"
    /\ disk' = [disk EXCEPT !.manifest = "whole"]
    /\ Go(s, "done")
    /\ UNCHANGED <<job, search>>

\* The process is killed, and its workers with it.
Crash(s) ==
    /\ at[s].pc \notin {"start", "refused", "failed", "done", "crashed"}
    /\ Go(s, "crashed")
    /\ UNCHANGED <<job, search, disk>>

Next == \E s \in Suites :
    \/ CheckOutput(s) \/ MakeOutput(s) \/ MakeInstances(s) \/ Plan(s)
    \/ Generate(s) \/ SampleMap(s) \/ GiveUp(s) \/ DrawPair(s) \/ BuildInstance(s)
    \/ SaveMap(s) \/ SaveTable(s) \/ Freeze(s) \/ EndManifest(s) \/ Launch(s) \/ OpenFiles(s)
    \/ StartEpisode(s) \/ FinishEpisode(s) \/ PoolBreaks(s)
    \/ WriteRow(s) \/ SpillTraces(s) \/ WriteTraces(s) \/ RaiseFailure(s) \/ ShutDown(s)
    \/ OpenSummary(s) \/ WriteSummary(s) \/ OpenList(s) \/ EndList(s)
    \/ Crash(s)

Spec == Init /\ [][Next]_vars

-----------------------------------------------------------------------------
\* What a directory may be found to say.

TracesFollow(dir) ==
    /\ Len(dir.rows) - Len(dir.traces) \in {0, 1}
    /\ \A i \in DOMAIN dir.traces : dir.traces[i] = i
    /\ dir.spilled => Len(dir.traces) < Len(dir.rows)

\* A row stands where its task does, and for the instance of its condition.
RowsInOrder(s) ==
    /\ Len(Dir(s).rows) <= Len(at[s].tasks)
    /\ \A i \in DOMAIN Dir(s).rows : LET row == Dir(s).rows[i] IN
        /\ row.task = at[s].tasks[i]
        /\ row.instance \in Dir(s).tables \cap Dir(s).maps
        /\ row.instance.density = row.task.density
        /\ row.instance.radius = row.task.radius /\ row.instance.seed = row.task.layout

\* Rows that differ in the planner and the policy only can be compared.
Matched(dir) ==
    \A i, j \in DOMAIN dir.rows : LET a == dir.rows[i].task
                                      b == dir.rows[j].task IN
        [a EXCEPT !.planner = b.planner, !.policy = b.policy] = b =>
            dir.rows[i].instance = dir.rows[j].instance /\ dir.rows[i].link = dir.rows[j].link

Begun(s) == Of(s, {"waiting", "cancelled"}) # DOMAIN at[s].episodes

\* Whatever was killed, failed or raced for the directory, what is on the disk
\* can be relied on: it is the work of one suite; rows and traces are those of
\* its first conditions, in their order, and the rest is missing; no episode
\* was run before the list of accepted instances was whole, nor on files of
\* which only one is there; a summary says that nothing is missing, and so
\* does, of all its studies, the manifest of a matrix.
OutputsConsistent ==
    /\ \A n \in 1 .. 2 : LET dir == disk.study[n] IN
        /\ Cardinality(dir.by) <= 1
        /\ dir.tables \subseteq dir.maps
        /\ TracesFollow(dir) /\ Matched(dir)
        /\ dir.made /\ n > 1 => disk.study[n - 1].summary = "whole"
    /\ \A s \in Suites : s \in Dir(s).by =>
        /\ RowsInOrder(s)
        /\ Of(s, {"unreadable"}) = {}
        /\ Begun(s) /\ Config(s).family = "natural_critical_random" =>
            /\ Dir(s).manifest = "whole"
            /\ at[s].accepted = Dir(s).tables
        /\ Dir(s).summary # "absent" =>
            /\ Of(s, {"row"}) = DOMAIN at[s].tasks
            /\ Len(Dir(s).traces) = Len(at[s].tasks)
    /\ disk.manifest # "absent" =>
        \E s \in Suites : \A n \in DOMAIN job[s].studies : disk.study[n].summary = "whole"

\* An episode that passed the checks of its configuration and its start is not
\* given up later because some value does not fit its field on the wire
\* (sketches of more than 255 hash functions or 65535 cells apart, see the
\* README).
NoLateRefusal == \A s \in Suites : Of(s, {"late"}) = {}

\* Every pair of an accepted natural task is decision-critical: its seeker,
\* walking alone, comes to the commitment before it can see the obstacle, acts
\* there as it would not if it knew of it, and would then act as a shortest
\* path of the real map does; the observer has the obstacle in its first
\* window; and no two robots start or go to the same cell.
DecisionsNeedHelp ==
    \A s \in Suites : at[s].pc = "selected" =>
        /\ ~DuplicateEnds(search[s].selected)
        /\ \A p \in CellsOf(search[s].selected) :
            LET c == p.candidate
                informed == ObservedMap(search[s].bitmap, CellsOf(c.prefix), Want(s).radius)
                                \cup {c.obstacle}
            IN  /\ NeedsHelp(search[s].bitmap, Want(s).radius, c, {c.obstacle},
                             Config(s).horizon)
                /\ NextOn(AStarPath(informed, c.commitment, c.goal), c.commitment)
                        = c.truth[c.divergence + 1]
                /\ ValidPath(c.truth, c.start, c.goal, search[s].bitmap)
                /\ Chebyshev(p.observer.start, c.obstacle) <= Want(s).radius
                /\ p.observer.start \notin search[s].bitmap

=============================================================================
