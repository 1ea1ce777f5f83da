---------------------------- MODULE ResultAudits ----------------------------
(***************************************************************************)
(* What the analyses demand of a study's directory before they compute     *)
(* anything from it.  An analysis is another program, run at any time: on  *)
(* a directory that a suite is still writing, or was killed in.  It reads  *)
(* the rows before the summary, and neither ever loses anything, so that   *)
(* to look at both at once is to look at the rows later than it does.      *)
(*                                                                         *)
(* Each analysis is written for one design, whose grid is a constant of    *)
(* the script; here it is the configuration of the study.  A layout is     *)
(* known, like an instance, by what it is generated from.                  *)
(***************************************************************************)
EXTENDS SuiteRunner
LOCAL INSTANCE SequencesExt
LOCAL INSTANCE FiniteSetsExt

\* layout_fingerprint: the bottlenecks have one of three columns, whatever else
\* the seed, and only the natural tasks are made for a sensor radius.
LayoutOf(instance) ==
    CASE instance.family = "natural_critical_random" -> instance
      [] instance.family \in {"fork_bottleneck_upper_block", "multifork_bottleneck_rotated",
                              "multifork_bottleneck_upper_block"} ->
            [instance EXCEPT !.radius = 0, !.seed = @ % 3]
      [] OTHER -> [instance EXCEPT !.radius = 0]

Seeds(c) == 0 .. Len(c.seeds) - 1

\* The pairs of a layout and a network that every condition must have.
PairKeys(c) == {<<k, k>> : k \in Seeds(c)}

\* How many of the rows belong to each layout and how: every seed has a layout,
\* one, and its own.
OneLayoutEach(rows, c) ==
    LET layouts(seed) == {LayoutOf(rows[i].instance) :
                            i \in {k \in DOMAIN rows : rows[k].task.layout = seed}}
    IN  /\ {rows[i].task.layout : i \in DOMAIN rows} = Seeds(c)
        /\ \A seed \in Seeds(c) : Cardinality(layouts(seed)) = 1
        /\ Cardinality(UNION {layouts(seed) : seed \in Seeds(c)}) = Len(c.seeds)

\* A trial is a row's condition and its key.  None is there twice, and each
\* condition of the grid has all keys.
PairedTrials(trials, grid, keys) ==
    /\ \A i, j \in DOMAIN trials : i # j => trials[i] # trials[j]
    /\ \A g \in grid :
        {trials[i][2] : i \in {k \in DOMAIN trials : trials[k][1] = g}} = keys

Complete(rows, trials, grid, c) ==
    /\ Len(rows) = Len(c.seeds) * Cardinality(grid)
    /\ OneLayoutEach(rows, c)
    /\ PairedTrials(trials, grid, PairKeys(c))

\* The conditions of all rows, where a design has but one of them.
OneSetting(rows, c) ==
    {<<rows[i].task.density, rows[i].task.loss, rows[i].task.delay>> : i \in DOMAIN rows}
        = {<<c.densities[1], c.losses[1], c.delays[1]>>}

-----------------------------------------------------------------------------
\* The grids, and the trials that rows are in them.

RadiusTrials(rows) ==
    [i \in DOMAIN rows |-> LET t == rows[i].task IN
        <<<<t.radius, t.planner, t.policy>>, <<t.layout, t.network>>>>]

RadiusGrid(c) == ToSet(c.radii) \X ToSet(c.planners) \X ToSet(c.policies)

DelayTrials(rows) ==
    [i \in DOMAIN rows |-> LET t == rows[i].task IN
        <<<<t.planner, t.delay, t.policy>>, <<t.layout, t.network>>>>]

DelayGrid(c) == ToSet(c.planners) \X ToSet(c.delays) \X ToSet(c.policies)

LossTrials(rows) ==
    [i \in DOMAIN rows |-> LET t == rows[i].task IN
        <<<<t.planner, t.loss, t.policy>>, <<t.layout, t.network>>>>]

LossGrid(c) == ToSet(c.planners) \X ToSet(c.losses) \X ToSet(c.policies)

-----------------------------------------------------------------------------
\* Analyses that read the rows only.

\* The episodes of a rerun take the place of all of their conditions.
Replaced(rows, rerun) ==
    LET condition(row) == <<row.task.planner, row.task.delay, row.task.policy>>
    IN  SelectSeq(rows, LAMBDA row :
            \A i \in DOMAIN rerun : condition(rerun[i]) # condition(row)) \o rerun

CertificateAudit(rows, c) == Complete(rows, DelayTrials(rows), DelayGrid(c), c)

LossAudit(rows, c) == Complete(rows, LossTrials(rows), LossGrid(c), c)

\* The instances of a layout differ in the radius, and there is one for each.
RadiusAudit(rows, c) ==
    /\ OneSetting(rows, c)
    /\ Complete(rows, RadiusTrials(rows), RadiusGrid(c), c)
    /\ \A seed \in Seeds(c) :
        LET made == {<<rows[i].task.radius, rows[i].instance>> :
                        i \in {k \in DOMAIN rows : rows[k].task.layout = seed}}
        IN  /\ Cardinality(made) = Cardinality(ToSet(c.radii))
            /\ {m[1] : m \in made} = ToSet(c.radii)

\* The radii are those that are found.
ExternalAudit(rows, c) ==
    LET shown == {rows[i].task.radius : i \in DOMAIN rows}
        trials == [i \in DOMAIN rows |-> LET t == rows[i].task IN
            <<<<t.radius, t.planner, t.loss, t.policy>>, <<t.layout, t.network>>>>]
    IN  /\ shown # {} /\ shown \subseteq 1 .. 3
        /\ Complete(rows, trials,
                shown \X ToSet(c.planners) \X ToSet(c.losses) \X ToSet(c.policies), c)

\* How many episodes a configuration asks for.
TrialCount(c) ==
    Len(TrialPlan(c)) * Len(c.densities) * Len(c.losses) * Len(c.delays)
        * Len(c.planners) * Len(c.policies) * Len(c.radii)

\* One study of a matrix, once the manifest of the matrix can be read.  Only the
\* conditions that are found are looked at.
ExtensionAudit(rows, c) ==
    LET trials == [i \in DOMAIN rows |-> LET t == rows[i].task IN
            <<<<t.planner, t.density, t.loss, t.delay, t.radius, t.policy>>,
              <<t.layout, t.network>>>>]
    IN  /\ disk.manifest = "whole"
        /\ Len(rows) = TrialCount(c)
        /\ OneLayoutEach(rows, c)
        /\ PairedTrials(trials, {trials[i][1] : i \in DOMAIN trials}, PairKeys(c))

-----------------------------------------------------------------------------
\* Analyses that also read the summary, in which the number of rows and the
\* configuration are those of the suite that wrote it.

\* Mutant of SummedAudit: the summary is not asked for.
RowsAudit(dir, c) ==
    /\ OneSetting(dir.rows, c)
    /\ Complete(dir.rows, RadiusTrials(dir.rows), RadiusGrid(c), c)

\* What all of them check.
SummedAudit(dir, c) ==
    /\ dir.summary = "whole"
    /\ OneSetting(dir.rows, c)
    /\ Complete(dir.rows, RadiusTrials(dir.rows), RadiusGrid(c), c)

\* "Always Communicate" is full synchronisation in every step.
SpectrumAudit(dir, c) == SummedAudit(dir, c) /\ c.sync_interval = 1

\* digest_base_bytes and digest_entry_bytes.
QuerySize(cells) == 16 + 6 * cells

\* A query of the largest certificate has 64 bytes.
TaskAwareAudit(dir, c) ==
    SummedAudit(dir, c) /\ c.max_cells = 8 /\ QuerySize(c.max_cells) = 64

\* The cap on a query is the smaller of the certificate's and the budget's.
ClosestWorkAudit(dir, c) ==
    LET fitting == (c.control - QuerySize(0)) \div (QuerySize(1) - QuerySize(0))
        cap == IF c.max_cells < fitting THEN c.max_cells ELSE fitting
        rows == dir.rows
    IN  /\ SummedAudit(dir, c)
        /\ QuerySize(cap) = 64
        /\ \A i \in DOMAIN rows :
            [rows[i].instance EXCEPT !.density = 0, !.radius = 0, !.seed = 0] =
                [family |-> c.family, size |-> c.size, agents |-> c.agents, steps |-> c.steps,
                 density |-> 0, radius |-> 0, seed |-> 0]
        /\ \A radius \in ToSet(c.radii) :
            Cardinality({LayoutOf(rows[i].instance) :
                i \in {k \in DOMAIN rows : rows[k].task.radius = radius}}) = Len(c.seeds)

\* The gate ablation is a study of delays.
GateAudit(dir, c) ==
    /\ dir.summary = "whole"
    /\ {<<dir.rows[i].task.radius, dir.rows[i].task.density, dir.rows[i].task.loss>> :
            i \in DOMAIN dir.rows} = {<<c.radii[1], c.densities[1], c.losses[1]>>}
    /\ {DelayTrials(dir.rows)[i][1] : i \in DOMAIN dir.rows} = DelayGrid(c)
    /\ Complete(dir.rows, DelayTrials(dir.rows), DelayGrid(c), c)

\* The overhead is computed from the rows of one radius and some policies, but
\* the whole study must be there; every pair of seeds has one instance, used by
\* all planners and policies.
OverheadAudit(dir, c, radius, policies) ==
    LET selected == SelectSeq(dir.rows, LAMBDA row :
                        row.task.radius = radius /\ row.task.policy \in policies)
        trials == RadiusTrials(selected)
        grid == {radius} \X ToSet(c.planners) \X policies
        instances(key) == {selected[i].instance :
                            i \in {k \in DOMAIN selected : trials[k][2] = key}}
    IN  /\ SummedAudit(dir, c)
        /\ {RadiusTrials(dir.rows)[i][1] : i \in DOMAIN dir.rows} = RadiusGrid(c)
        /\ QuerySize(c.max_cells) = 64
        /\ Len(selected) = Len(c.seeds) * Cardinality(grid)
        /\ {trials[i][1] : i \in DOMAIN trials} = grid
        /\ PairedTrials(trials, grid, PairKeys(c))
        /\ \A key \in PairKeys(c) : Cardinality(instances(key)) = 1
        /\ Cardinality(UNION {instances(key) : key \in PairKeys(c)}) = Len(c.seeds)

\* _audit_manifest: the list of accepted instances, the rows and the saved files
\* are about the same instances, one for each seed, and no two share a layout.
ManifestAudit(dir, records, c) ==
    /\ dir.summary = "whole" /\ dir.manifest = "whole"
    /\ OneSetting(dir.rows, c)
    /\ Cardinality({LayoutOf(r) : r \in records}) = Len(c.seeds)
    /\ Cardinality(records) = Len(c.seeds)
    /\ {dir.rows[i].task.layout : i \in DOMAIN dir.rows} = Seeds(c)
    /\ \A r \in records :
        /\ {t \in dir.tables : t.density = r.density /\ t.radius = r.radius /\ t.seed = r.seed}
                = {r}
        /\ r \in dir.maps
        /\ {dir.rows[i].instance : i \in {k \in DOMAIN dir.rows :
                                            dir.rows[k].task.layout = r.seed}} = {r}

\* The natural analysis: the audit, then the trials of every condition found.
NaturalAudit(dir, records, c) ==
    LET trials == RadiusTrials(dir.rows)
    IN  /\ Len(dir.rows) = Len(c.seeds) * Cardinality(RadiusGrid(c))
        /\ ManifestAudit(dir, records, c)
        /\ PairedTrials(trials, {trials[i][1] : i \in DOMAIN trials}, PairKeys(c))

-----------------------------------------------------------------------------
\* audit_care_cross_study_reproducibility: the rows of two studies, for one
\* radius, loss and delay, that have the same seeds, planner and policy ...
Common(rows, others, radius, loss, delay) ==
    {p \in (DOMAIN rows) \X (DOMAIN others) :
        LET a == rows[p[1]].task
            b == others[p[2]].task
        IN  /\ \A t \in {a, b} : t.radius = radius /\ t.loss = loss /\ t.delay = delay
            /\ a.layout = b.layout /\ a.network = b.network
            /\ a.planner = b.planner /\ a.policy = b.policy}

\* ... and disagree in what their episodes were computed from.
Disagreeing(rows, others, radius, loss, delay) ==
    {p \in Common(rows, others, radius, loss, delay) :
        \/ rows[p[1]].instance # others[p[2]].instance
        \/ rows[p[1]].link # others[p[2]].link}

-----------------------------------------------------------------------------
\* A configuration that a study of pairs is made for: seeds from zero, and
\* nothing listed twice.
Frozen(c) ==
    /\ c.layouts = <<>> /\ c.seeds = [i \in DOMAIN c.seeds |-> i - 1] /\ c.seeds # <<>>
    /\ \A f \in {"radii", "losses", "delays", "planners", "policies", "densities"} :
            IsInjective(c[f])

\* One radius, loss, delay and density, except where the design has more.
SingleBut(c, field) ==
    \A f \in {"radii", "losses", "delays", "densities"} \ {field} : Len(c[f]) = 1

\* Whenever an analysis looks at a directory, it accepts it exactly if every
\* episode of the study is in it, and the summary too if it asks for that:
\* neither what a killed suite has left nor a rerun that is not complete is
\* taken for a study, and no study that has come to its end is turned down.  The
\* one that takes its radii from the rows also accepts what ends with a radius.
\* Two runs of one study never disagree, as far as they have come.
AuditsDecide ==
    \A s \in Suites : \A n \in DOMAIN job[s].studies :
        LET c == job[s].studies[n]
            dir == disk.study[n]
            rows == dir.rows
            whole == Len(rows) = TrialCount(c)
            summed == whole /\ dir.summary = "whole"
        IN  s \in dir.by /\ Frozen(c) =>
            /\ SingleBut(c, "delays") =>
                /\ CertificateAudit(rows, c) <=> whole
                /\ GateAudit(dir, c) <=> summed
            /\ SingleBut(c, "losses") => (LossAudit(rows, c) <=> whole)
            /\ SingleBut(c, "radii") =>
                /\ RadiusAudit(rows, c) <=> whole
                /\ ExternalAudit(rows, c) <=>
                    \E k \in DOMAIN c.radii :
                        Len(rows) = TrialCount([c EXCEPT !.radii = SubSeq(@, 1, k)])
                /\ SpectrumAudit(dir, c) <=> summed /\ c.sync_interval = 1
                /\ TaskAwareAudit(dir, c) <=> summed
                /\ ClosestWorkAudit(dir, c) <=> summed
                /\ \A radius \in ToSet(c.radii), policy \in ToSet(c.policies) :
                    OverheadAudit(dir, c, radius, {policy}) <=> summed
                /\ c.family = "natural_critical_random" =>
                    (NaturalAudit(dir, at[s].accepted, c) <=> summed)
            /\ \A f \in {"losses", "delays", "radii"} :
                SingleBut(c, f) => (ExtensionAudit(rows, c) <=> whole /\ disk.manifest = "whole")
            /\ n = 2 /\ job[s].studies[1] = [c EXCEPT !.workers = 1] =>
                LET first == disk.study[1].rows
                IN  /\ \A radius \in ToSet(c.radii), loss \in ToSet(c.losses),
                          delay \in ToSet(c.delays) :
                            Disagreeing(first, rows, radius, loss, delay) = {}
                    /\ rows # <<>> /\ SingleBut(c, "delays") =>
                        (CertificateAudit(Replaced(first, rows), c) <=> whole)

=============================================================================
