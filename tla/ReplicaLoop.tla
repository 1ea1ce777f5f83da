----------------------------- MODULE ReplicaLoop -----------------------------
(***************************************************************************)
(* The part of PSRClosedLoopRunner.run that every communication policy     *)
(* shares: the replicas, the network in flight, the byte ledgers and the   *)
(* phases of one simulation step.                                          *)
(*                                                                         *)
(* One step of the loop is                                                 *)
(*   arrivals  fresh budgets, then every message due by now is handled;    *)
(*   sense     each robot in turn integrates what its sensor window shows; *)
(*   dispatch  the policy sends (modules that extend this one);            *)
(*   settle    every message due by now is handled again;                  *)
(* after which the robots act and the next step begins.                    *)
(*                                                                         *)
(* Abstractions.  A cell is its row-major number.  Where a robot stands is *)
(* not modelled: at each step its sensor shows one window of a given set,  *)
(* so every route through the map is among the behaviours.  The map does   *)
(* not change during an episode, so what a sensor reports of a cell is     *)
(* Truth.  The hash that draws a packet's loss is a free choice.  A packet *)
(* carries how many steps it still has to wait instead of its arrival      *)
(* step; the delay is one constant, so the queue is in order of arrival    *)
(* and of message id at once.                                              *)
(***************************************************************************)
EXTENDS ReplicaStamps, Sequences

CONSTANTS
    NumRobots,   \* instance.num_agents
    NumCells,    \* cells of the map
    Truth,       \* [Cells -> SensedState], the episode's obstacle map
    Windows,     \* [Robots -> SUBSET SUBSET Cells], what a sensor may show
    DataCap,     \* data_bytes_per_agent_per_step
    ControlCap,  \* control_bytes_per_agent_per_step
    Delay,       \* LinkConfig.delay_steps
    Lossy,       \* whether the link may lose a packet
    Horizon      \* model bound: nothing new is seen from this step on

Robots == 0 .. NumRobots - 1
Cells  == 1 .. NumCells

ASSUME LoopAssumption ==
    /\ NumRobots \in Nat \ {0}
    /\ NumCells \in Nat \ {0}
    /\ Truth \in [Cells -> SensedState]
    /\ Windows \in [Robots -> SUBSET SUBSET Cells]
    /\ DataCap \in Nat
    /\ ControlCap \in Nat
    /\ Delay \in Nat
    /\ Lossy \in BOOLEAN
    /\ Horizon \in Nat

\* A MapUpdate: its update_id is a hash of exactly these fields, so two
\* updates are the same object when the records are equal.
Update == [cell : Cells, stamp : Stamp]

VARIABLES
    step,     \* the loop variable of run
    phase,    \* where in the body of the loop the runner is
    turn,     \* the robot whose turn it is within the phase
    beliefs,  \* [Robots -> [Cells -> Stamp]]
    emitted,  \* history: every update a sensor ever produced
    net,      \* packets in flight, oldest first
    data,     \* bytes each robot's data budget has left in this step
    control   \* bytes each robot's control budget has left in this step

loopVars == <<step, phase, turn, beliefs, emitted, net, data, control>>

Phases == {"arrivals", "sense", "dispatch", "settle"}

\* The types of the shared state.
LoopTypeOK ==
    /\ step \in Nat
    /\ phase \in Phases
    /\ turn \in Robots
    /\ beliefs \in [Robots -> [Cells -> Stamp]]
    /\ emitted \subseteq Update
    /\ data \in [Robots -> 0 .. DataCap]
    /\ control \in [Robots -> 0 .. ControlCap]

LoopInit ==
    /\ step = 0
    /\ phase = "arrivals"
    /\ turn = 0
    /\ beliefs = [r \in Robots |-> [c \in Cells |-> InitialStamp]]
    /\ emitted = {}
    /\ net = <<>>
    /\ data = [r \in Robots |-> DataCap]
    /\ control = [r \in Robots |-> ControlCap]

-----------------------------------------------------------------------------
\* The network.

\* A packet is due when its arrival step has come.
Due == net # <<>> /\ Head(net).wait = 0

\* receive is called in the two drains of a step, until nothing is due.
Draining == phase \in {"arrivals", "settle"} /\ Due

\* The outcomes of the loss draw.
Survivals == IF Lossy THEN BOOLEAN ELSE {TRUE}

\* What send adds to the packets in flight.
Sent(kept, message) == IF kept THEN <<message>> ELSE <<>>

\* Mutant of AnswerPaid: the answer is charged without asking the ledger.
AnswerPaidUnchecked(left, r, bytes) == [left EXCEPT ![r] = @ - bytes]

\* A handled packet is answered under the ledger `left' of robot r: _try_send
\* defers the answer when it does not fit and otherwise charges it, lost or not.
AnswerPaid(left, r, bytes) ==
    IF CanSpend(left[r], bytes) THEN [left EXCEPT ![r] = @ - bytes] ELSE left

AnswerQueued(left, r, bytes, kept, message) ==
    IF CanSpend(left[r], bytes) THEN Tail(net) \o Sent(kept, message) ELSE Tail(net)

\* _drain_arrivals returns: the phase after it begins with robot 0.
EndArrivals ==
    /\ phase = "arrivals"
    /\ ~Due
    /\ phase' = "sense"
    /\ UNCHANGED <<step, turn, beliefs, emitted, net, data, control>>

-----------------------------------------------------------------------------
\* Sensing.

\* integrate_local_observation skips a cell that already holds the state seen.
Unseen(r, window) == {c \in window : beliefs[r][c].state # Truth[c]}

Observation(r, c) ==
    [cell  |-> c,
     stamp |-> [version |-> beliefs[r][c].version + 1,
                at      |-> step,
                source  |-> r,
                state   |-> Truth[c]]]

Discovered(r, window) == {Observation(r, c) : c \in Unseen(r, window)}

\* A window per robot and step; past the model's horizon nothing is shown.
Shown(r) == IF step < Horizon THEN Windows[r] ELSE {{}}

\* The next robot takes its turn, or the phase ends.
PassTurn(r, nextPhase) ==
    IF r = NumRobots - 1
    THEN turn' = 0 /\ phase' = nextPhase
    ELSE turn' = r + 1 /\ phase' = phase

Observe(r, window) ==
    /\ phase = "sense"
    /\ turn = r
    /\ beliefs' = [beliefs EXCEPT ![r] =
            [c \in Cells |-> IF c \in Unseen(r, window)
                             THEN Apply(beliefs[r][c], Observation(r, c).stamp)
                             ELSE beliefs[r][c]]]
    /\ emitted' = emitted \cup Discovered(r, window)
    /\ PassTurn(r, "dispatch")
    /\ UNCHANGED <<step, net, data, control>>

-----------------------------------------------------------------------------
\* The end of a step: the robots act, the clock advances, and the next
\* iteration starts with fresh budgets.  Past the horizon the clock of the
\* model alternates between two values: only its parity is read there.
NextStep == IF step > Horizon THEN step - 1 ELSE step + 1

EndStep ==
    /\ phase = "settle"
    /\ ~Due
    /\ phase' = "arrivals"
    /\ step' = NextStep
    /\ net' = [i \in 1 .. Len(net) |-> [net[i] EXCEPT !.wait = @ - 1]]
    /\ data' = [r \in Robots |-> DataCap]
    /\ control' = [r \in Robots |-> ControlCap]
    /\ UNCHANGED <<turn, beliefs, emitted>>

\* Mutant of Received: the latest packet to arrive wins.
ReceivedBlindly(belief, update) == [belief EXCEPT ![update.cell] = update.stamp]

\* A belief map that has taken one update.
Received(belief, update) == [belief EXCEPT ![update.cell] = Apply(@, update.stamp)]

\* Mutant of Patched: a patch is taken to be newer than what is there.
PatchedBlindly(belief, updates) ==
    [c \in Cells |-> IF \E u \in updates : u.cell = c
                     THEN (CHOOSE u \in updates : u.cell = c).stamp
                     ELSE belief[c]]

\* A belief map after apply_update of every update of a patch, which holds at
\* most one update per cell.
Patched(belief, updates) ==
    [c \in Cells |-> IF \E u \in updates : u.cell = c
                     THEN Apply(belief[c], (CHOOSE u \in updates : u.cell = c).stamp)
                     ELSE belief[c]]

\* A stamp that a replica may hold for cell c.
Legitimate(c, stamp) ==
    \/ stamp = InitialStamp
    \/ [cell |-> c, stamp |-> stamp] \in emitted

\* A queue of packets of a given set, in the order in which they become due.
QueueOK(q, packets) ==
    /\ q \in Seq(packets)
    /\ \A i, j \in 1 .. Len(q) : i <= j => q[i].wait <= q[j].wait /\ q[j].wait <= Delay

\* All robots hold the same stamp of every cell.
Agreement == \A p, q \in Robots : beliefs[p] = beliefs[q]

\* What the sensors reported, against the replicas: every report is true, was
\* made by a robot of the team that has not fallen behind it since, and is the
\* only one that robot ever made of that cell; replicas hold reports only.
HonestReports ==
    /\ \A u \in emitted :
        /\ u.stamp.source \in Robots
        /\ u.stamp.version > 0
        /\ u.stamp.state = Truth[u.cell]
        /\ AtLeast(beliefs[u.stamp.source][u.cell], u.stamp)
    /\ \A u, v \in emitted :
        (u.cell = v.cell /\ u.stamp.source = v.stamp.source) => u = v
    /\ \A r \in Robots, c \in Cells : Legitimate(c, beliefs[r][c])

-----------------------------------------------------------------------------
\* Every policy implements the abstract promise: no robot ever holds a stamp
\* that nobody reported for that cell, and no replica ever moves backwards,
\* whatever is delivered late, twice or out of order of observation.
Sharing == INSTANCE MapSharing WITH
    Robots <- Robots, Cells <- Cells, Truth <- Truth,
    beliefs <- beliefs, emitted <- emitted
ImplementsSharing == Sharing!Spec

=============================================================================
