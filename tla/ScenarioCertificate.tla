------------------------- MODULE ScenarioCertificate -------------------------
(***************************************************************************)
(* What CARE asks for.  A robot whose planned path meets unknown cells     *)
(* (the candidates) plans once for every scenario in which at most Order   *)
(* of them are blocked, and asks its teammates for the first smallest set  *)
(* of candidates that tells apart every two scenarios whose plans differ   *)
(* late enough for an answer to matter.                                    *)
(*                                                                         *)
(* Candidates are numbered in candidate order.  A plan is the planner's    *)
(* path cut to CorridorHorizon + 1 positions; the planner itself is not    *)
(* modelled: in each scenario it may return any of the given routes that   *)
(* does not enter a blocked candidate, and it may find none.               *)
(***************************************************************************)
EXTENDS Integers, Sequences, FiniteSets

CONSTANTS
    NumCandidates,  \* len(candidates), at most certificate_max_cells
    Order,          \* certificate_uncertainty_order
    Routes,         \* paths from Here; a position in Candidates is that cell
    Here,           \* where the robot stands
    CorridorHorizon, \* corridor_horizon
    RoundTrip       \* 2 * delay_steps

Candidates == 1 .. NumCandidates

Steps == 0 .. CorridorHorizon - 1

ASSUME CertificateAssumption ==
    /\ NumCandidates \in Nat
    /\ Order \in Nat
    /\ CorridorHorizon \in Nat \ {0}
    /\ RoundTrip \in Nat
    /\ \A route \in Routes :
        Len(route) \in 1 .. CorridorHorizon + 1 /\ route[1] = Here

VARIABLES
    plans,   \* [Scenarios -> Plan]
    size,    \* how many cells the search tries
    stage,   \* "search", "asked" or "answered"
    query,   \* the cells asked for
    truth,   \* which candidates are really blocked
    answers  \* the candidates teammates answered for

certificateVars == <<plans, size, stage, query, truth, answers>>

-----------------------------------------------------------------------------
\* scenario_blocked_sets.
Scenarios == {blocked \in SUBSET Candidates : Cardinality(blocked) <= Order}

Avoids(route, blocked) == \A i \in 1 .. Len(route) : route[i] \notin blocked

\* No path is found, or one that does not enter a blocked cell.
Plans ==
    {p \in [Scenarios -> Routes \cup {<<>>}] : \A s \in Scenarios : Avoids(p[s], s)}

\* Where a robot that follows a route is after k steps: at its end if it is
\* shorter, and where it stands if there is none.
At(route, k) ==
    IF route = <<>> THEN Here
    ELSE IF k < Len(route) THEN route[k + 1] ELSE route[Len(route)]

\* The steps in which two plans lead to different positions; the first of them
\* is first_path_divergence.
Differing(a, b) == {k \in Steps : At(a, k + 1) # At(b, k + 1)}

\* Mutant of InTime: a pair that parts in the very step of the answer is dropped.
InTimeLater(a, b) ==
    /\ Differing(a, b) # {}
    /\ \A k \in Differing(a, b) : k > RoundTrip

\* The plans differ, and not before an answer can be there.
InTime(a, b) ==
    /\ Differing(a, b) # {}
    /\ \A k \in Differing(a, b) : k >= RoundTrip

Difference(l, r) == (l \ r) \cup (r \ l)

\* One constraint for each pair of scenarios that can still be told apart.
Constraints ==
    {Difference(pair[1], pair[2]) : pair \in
        {p \in Scenarios \X Scenarios : InTime(plans[p[1]], plans[p[2]])}}

\* single_cell_sensitivity_plan, the baseline that blocks one candidate at a
\* time: the candidates that change the plan in time.  Its cap is as large as
\* the number of candidates, so that it asks for all of them.
SensitiveCells == {c \in Candidates : InTime(plans[{}], plans[{c}])}

Hits(cells) == \A constraint \in Constraints : constraint \cap cells # {}

\* The order of itertools.combinations among sets of one size.
Precedes(a, b) ==
    \E c \in a \ b : \A d \in b \ a : c < d

Hitting(n) == {cells \in SUBSET Candidates : Cardinality(cells) = n /\ Hits(cells)}

-----------------------------------------------------------------------------
CertificateInit ==
    /\ plans \in Plans
    /\ size = 0
    /\ stage = "search"
    /\ query = {}
    /\ truth = {}
    /\ answers = {}

\* The loop over sizes finds no set of this size ...
Enlarge ==
    /\ stage = "search"
    /\ Hitting(size) = {}
    /\ size' = size + 1
    /\ UNCHANGED <<plans, stage, query, truth, answers>>

\* Mutant of Settle: the last set of this size is taken.
SettleLast ==
    /\ stage = "search"
    /\ \E cells \in Hitting(size) :
        /\ \A other \in Hitting(size) \ {cells} : Precedes(other, cells)
        /\ query' = cells
    /\ stage' = "asked"
    /\ UNCHANGED <<plans, size, truth, answers>>

\* ... or takes the first.
Settle ==
    /\ stage = "search"
    /\ \E cells \in Hitting(size) :
        /\ \A other \in Hitting(size) \ {cells} : Precedes(cells, other)
        /\ query' = cells
    /\ stage' = "asked"
    /\ UNCHANGED <<plans, size, truth, answers>>

\* The patches of the teammates, who know some of the queried cells.
Answer(scenario, cells) ==
    /\ stage = "asked"
    /\ truth' = scenario
    /\ answers' = cells
    /\ stage' = "answered"
    /\ UNCHANGED <<plans, size, query>>

\* The repair is over; the next one starts with new plans.
Finished == stage = "answered" /\ UNCHANGED certificateVars

CertificateNext ==
    \/ Enlarge
    \/ Settle
    \/ \E scenario \in Scenarios, cells \in SUBSET query : Answer(scenario, cells)
    \/ Finished

CertificateSpec == CertificateInit /\ [][CertificateNext]_certificateVars

-----------------------------------------------------------------------------
\* The scenario the robot plans for: an unknown cell counts as free.
View == truth \cap answers

\* The set of all candidates always separates, so that the search never runs
\* past it and never comes back empty-handed from a conflict.
CertificateTypeOK ==
    /\ plans \in Plans
    /\ size \in 0 .. NumCandidates
    /\ stage \in {"search", "asked", "answered"}
    /\ query \in SUBSET Candidates
    /\ truth \in Scenarios
    /\ answers \in SUBSET query

\* What a query is for, said of positions, without the steps, constraints and
\* hitting sets of the code.  The answer is there when RoundTrip moves are made,
\* before the next one: two scenarios can still be decided between if their plans
\* lead to the same positions until then, and to different ones within the plan.
Together(a, b) ==
    \A k \in 1 .. CorridorHorizon : k <= RoundTrip => At(a, k) = At(b, k)

Alike(a, b) == \A k \in 1 .. CorridorHorizon : At(a, k) = At(b, k)

Decidable(a, b) == Together(a, b) /\ ~Alike(a, b)

\* Answers about these cells tell apart any two scenarios that can still be
\* decided between.
Separates(cells) ==
    \A l, r \in Scenarios :
        Decidable(plans[l], plans[r]) => l \cap cells # r \cap cells

\* minimum_scenario_certificate: "the deterministic candidate-order-first
\* minimum hitting set" is the first smallest set of cells that separates.
Minimum ==
    stage = "asked" =>
        /\ Separates(query)
        /\ \A cells \in SUBSET Candidates : Separates(cells) =>
            \/ Cardinality(query) < Cardinality(cells)
            \/ Cardinality(query) = Cardinality(cells)
               /\ (cells = query \/ Precedes(query, cells))

\* A robot whose whole query is answered moves as if it had known every
\* candidate: the plan for what it now knows leads where the plan for the true
\* scenario leads at every step, unless the two part in a move that is made
\* before any answer could have come.
DecisionsInformed ==
    (stage = "answered" /\ answers = query) =>
        (Together(plans[View], plans[truth]) => Alike(plans[View], plans[truth]))

\* The joint certificate never leaves out what the single-cell baseline would
\* have asked for: however many scenarios a small set separates, a candidate
\* that by itself changes the plan in time is part of it.
SensitiveAsked ==
    (Order > 0 /\ stage # "search") => SensitiveCells \subseteq query

=============================================================================
