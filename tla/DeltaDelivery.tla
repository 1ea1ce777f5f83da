---------------------------- MODULE DeltaDelivery ----------------------------
(***************************************************************************)
(* Sending each newly observed cell to every teammate as a DELTA packet,   *)
(* under the per-step data budget, over a link that delays and loses.      *)
(*                                                                         *)
(*   one_shot       a task leaves the outbox when it is put on the link,   *)
(*                  whether or not the link loses it;                      *)
(*   retry_all      a task stays until it is acknowledged; first attempts  *)
(*                  and retries are interleaved;                           *)
(*   path_weighted  a task stays until it is acknowledged; the order is by *)
(*                  closeness to the receiver's path, which may be any.    *)
(*                                                                         *)
(* Every delta has the same size, so the tasks for which _try_send finds   *)
(* the budget exhausted are exactly those after the first refusal: the     *)
(* rest of that sender's loop defers them and changes nothing.             *)
(***************************************************************************)
EXTENDS ReplicaLoop, FiniteSets

CONSTANTS
    Policies,   \* the policies under study
    AttemptCap  \* model bound: attempts are counted up to this value

ASSUME DeliveryAssumption ==
    /\ Policies \subseteq {"one_shot", "retry_all", "path_weighted"}
    /\ AttemptCap \in Nat /\ AttemptCap >= 2

VARIABLES
    policy,  \* the policy of this runner
    outbox,  \* [Robots -> SUBSET Task]
    tried    \* keys the sender whose turn it is has put on the link

deliveryVars == <<policy, outbox, tried>>
vars == <<loopVars, deliveryVars>>

Task == [update : Update, receiver : Robots, attempts : 0 .. AttemptCap]
Key(t) == [update |-> t.update, receiver |-> t.receiver]

Acknowledged == policy \in {"retry_all", "path_weighted"}

Delta(s, t) ==
    [kind |-> "delta", from |-> s, to |-> t.receiver, update |-> t.update,
     keyed |-> Acknowledged, wait |-> Delay]

Ack(m) ==
    [kind |-> "ack", from |-> m.to, to |-> m.from, update |-> m.update,
     wait |-> Delay]

Packet ==
    [kind : {"delta"}, from : Robots, to : Robots, update : Update,
     keyed : BOOLEAN, wait : Nat]
    \cup [kind : {"ack"}, from : Robots, to : Robots, update : Update, wait : Nat]

DeliveryInit ==
    /\ policy \in Policies
    /\ outbox = [r \in Robots |-> {}]
    /\ tried = {}

Init == LoopInit /\ DeliveryInit

-----------------------------------------------------------------------------
\* Each update a robot's sensor produced is queued once per teammate; a task
\* with the same key would be replaced.
Queued(r, updates) ==
    {[update |-> u, receiver |-> q, attempts |-> 0] :
        u \in updates, q \in Robots \ {r}}

Enqueue(r, updates) ==
    outbox' = [outbox EXCEPT ![r] =
        {t \in @ : Key(t) \notin {Key(q) : q \in Queued(r, updates)}}
            \cup Queued(r, updates)]

Sense(r, window) ==
    /\ Observe(r, window)
    /\ Enqueue(r, Discovered(r, window))
    /\ UNCHANGED <<policy, tried>>

-----------------------------------------------------------------------------
\* The sort keys of the outbox.
Earlier(t, u) ==
    LET a == t.update  b == u.update IN
    \/ a.stamp.at < b.stamp.at
    \/ /\ a.stamp.at = b.stamp.at
       /\ \/ a.cell < b.cell
          \/ a.cell = b.cell /\ t.receiver < u.receiver

FewerAttempts(t, u) ==
    \/ t.attempts < u.attempts
    \/ t.attempts = u.attempts /\ Earlier(t, u)

IsFirst(t, tasks, Before(_, _)) ==
    t \in tasks /\ \A u \in tasks \ {t} : Before(t, u)

Untried(s) == {t \in outbox[s] : Key(t) \notin tried}
Fresh(s)   == {t \in Untried(s) : t.attempts = 0}
Retries(s) == {t \in Untried(s) : t.attempts > 0}

\* Mutant of Class: first attempts before every retry.
FreshFirst(s) == IF Fresh(s) # {} THEN Fresh(s) ELSE Retries(s)

\* _interleave_first_attempts_and_retries: one of each class in turn, first
\* attempts leading in even steps; one class alone when the other is used up.
FreshLeads == (step % 2 = 0) = (Cardinality(tried) % 2 = 0)

Class(s) ==
    IF (FreshLeads /\ Fresh(s) # {}) \/ Retries(s) = {} THEN Fresh(s) ELSE Retries(s)

\* The task the sender's loop comes to next.
IsNext(s, t) ==
    \/ policy = "one_shot" /\ IsFirst(t, Untried(s), Earlier)
    \/ policy = "retry_all" /\ IsFirst(t, Class(s), FewerAttempts)
    \/ policy = "path_weighted" /\ t \in Untried(s)

Attempted(t) ==
    [t EXCEPT !.attempts = IF @ < AttemptCap THEN @ + 1 ELSE @]

\* Mutant of Attempt: every policy forgets a task once it is sent.
AttemptAndForget(s, t, kept) ==
    /\ phase = "dispatch" /\ turn = s
    /\ CanSpend(data[s], DeltaBytes)
    /\ IsNext(s, t)
    /\ data' = [data EXCEPT ![s] = @ - DeltaBytes]
    /\ net' = net \o Sent(kept, Delta(s, t))
    /\ outbox' = [outbox EXCEPT ![s] = @ \ {t}]
    /\ tried' = tried \cup {Key(t)}
    /\ UNCHANGED <<step, phase, turn, beliefs, emitted, control, policy>>

\* Mutant of Attempt: a packet is sent whether or not the budget holds it.
AttemptUnchecked(s, t, kept) ==
    /\ phase = "dispatch" /\ turn = s
    /\ IsNext(s, t)
    /\ data' = [data EXCEPT ![s] = @ - DeltaBytes]
    /\ net' = net \o Sent(kept, Delta(s, t))
    /\ outbox' = [outbox EXCEPT ![s] =
            (@ \ {t}) \cup (IF Acknowledged THEN {Attempted(t)} ELSE {})]
    /\ tried' = tried \cup {Key(t)}
    /\ UNCHANGED <<step, phase, turn, beliefs, emitted, control, policy>>

\* One iteration of the loop of _send_delta_tasks that finds budget left.
Attempt(s, t, kept) ==
    /\ phase = "dispatch"
    /\ turn = s
    /\ CanSpend(data[s], DeltaBytes)
    /\ IsNext(s, t)
    /\ data' = [data EXCEPT ![s] = @ - DeltaBytes]
    /\ net' = net \o Sent(kept, Delta(s, t))
    /\ outbox' = [outbox EXCEPT ![s] =
            (@ \ {t}) \cup (IF Acknowledged THEN {Attempted(t)} ELSE {})]
    /\ tried' = tried \cup {Key(t)}
    /\ UNCHANGED <<step, phase, turn, beliefs, emitted, control, policy>>

\* The sender's loop is over, or its budget is: the next sender's loop starts.
EndSending(s, nextPhase) ==
    /\ phase = "dispatch"
    /\ turn = s
    /\ Untried(s) = {} \/ ~CanSpend(data[s], DeltaBytes)
    /\ tried' = {}
    /\ PassTurn(s, nextPhase)
    /\ UNCHANGED <<step, beliefs, emitted, net, data, control, policy, outbox>>

-----------------------------------------------------------------------------
\* _handle_message, DELTA: apply it, and acknowledge it if it carries a key.
HandleDelta(kept) ==
    /\ Draining
    /\ LET m == Head(net) IN
       /\ m.kind = "delta"
       /\ beliefs' = [beliefs EXCEPT ![m.to] = Received(@, m.update)]
       /\ IF m.keyed
          THEN /\ control' = AnswerPaid(control, m.to, AckBytes)
               /\ net' = AnswerQueued(control, m.to, AckBytes, kept, Ack(m))
          ELSE /\ net' = Tail(net)
               /\ UNCHANGED control
    /\ UNCHANGED <<step, phase, turn, emitted, data, policy, outbox, tried>>

\* Mutant of HandleAck: the key is looked up under the wrong robot's number.
HandleAckMisread ==
    /\ Draining
    /\ LET m == Head(net) IN
       /\ m.kind = "ack"
       /\ outbox' = [outbox EXCEPT ![m.to] =
              {t \in @ : Key(t) # [update |-> m.update, receiver |-> m.to]}]
    /\ net' = Tail(net)
    /\ UNCHANGED <<step, phase, turn, beliefs, emitted, data, control, policy, tried>>

\* _handle_message, ACK: the task whose key the token names leaves the outbox
\* of the robot the ACK is addressed to.
HandleAck ==
    /\ Draining
    /\ LET m == Head(net) IN
       /\ m.kind = "ack"
       /\ outbox' = [outbox EXCEPT ![m.to] =
              {t \in @ : Key(t) # [update |-> m.update, receiver |-> m.from]}]
    /\ net' = Tail(net)
    /\ UNCHANGED <<step, phase, turn, beliefs, emitted, data, control, policy, tried>>

-----------------------------------------------------------------------------
Next ==
    \/ EndArrivals /\ UNCHANGED deliveryVars
    \/ \E r \in Robots : \E w \in Shown(r) : Sense(r, w)
    \/ \E s \in Robots : \E t \in outbox[s], kept \in Survivals : Attempt(s, t, kept)
    \/ \E s \in Robots : EndSending(s, "settle")
    \/ \E kept \in Survivals : HandleDelta(kept)
    \/ HandleAck
    \/ EndStep /\ UNCHANGED deliveryVars

Spec == Init /\ [][Next]_vars

-----------------------------------------------------------------------------
\* The single thread of the runner never stops, and a link on which packets of
\* a kind are sent again and again does not lose all of them: each is drawn
\* from a hash of a key of its own, and the loss probability is below one.
DeltaSurvives(s, r) ==
    \E t \in outbox[s] : t.receiver = r /\ Attempt(s, t, TRUE)

AckSurvives(r, s) ==
    /\ Due
    /\ Head(net).from = s /\ Head(net).to = r
    /\ CanSpend(control[r], AckBytes)
    /\ HandleDelta(TRUE)

Fairness ==
    /\ WF_vars(Next)
    /\ \A s \in Robots : \A r \in Robots \ {s} :
        SF_vars(DeltaSurvives(s, r)) /\ SF_vars(AckSurvives(r, s))

FairSpec == Spec /\ Fairness

-----------------------------------------------------------------------------
\* Every ledger stays between zero and its cap, every packet waits a natural
\* number of steps and names existing robots: an answer that is charged without
\* asking the ledger, or a packet sent past its budget, breaks it.
TypeOK ==
    /\ LoopTypeOK
    /\ net \in Seq(Packet)
    /\ policy \in Policies
    /\ outbox \in [Robots -> SUBSET Task]
    /\ tried \subseteq [update : Update, receiver : Robots]

\* An update that left its sender's outbox under an acknowledged policy is
\* known to the receiver (or superseded there): whatever mix of lost deltas,
\* lost or late acknowledgements and duplicate deliveries led there, the ACK
\* handler of psr_runner.py never drops the last copy of an observation.
NoLostUpdate ==
    Acknowledged =>
        \A u \in emitted : \A r \in Robots \ {u.stamp.source} :
            \/ AtLeast(beliefs[r][u.cell], u.stamp)
            \/ \E t \in outbox[u.stamp.source] :
                   Key(t) = [update |-> u, receiver |-> r]

\* What makes NoLostUpdate inductive.  Packets wait in the order they were
\* sent and no longer than the delay.
NetInOrder ==
    \A i, j \in 1 .. Len(net) :
        i <= j => net[i].wait <= net[j].wait /\ net[j].wait <= Delay

\* What a replica holds and what a packet carries was reported for that cell.
OnlyReported ==
    /\ \A r \in Robots, c \in Cells : Legitimate(c, beliefs[r][c])
    /\ \A i \in 1 .. Len(net) : net[i].update \in emitted

\* A robot never falls behind its own reports, and queues nothing else.
OwnReports ==
    /\ \A u \in emitted :
        /\ u.stamp.source \in Robots
        /\ u.stamp.version > 0
        /\ AtLeast(beliefs[u.stamp.source][u.cell], u.stamp)
    /\ \A r \in Robots : \A t \in outbox[r] :
        t.update \in emitted /\ t.update.stamp.source = r

\* For the policies built on this module: queued deltas are reports.
OutboxHonest ==
    /\ outbox \in [Robots -> SUBSET Task]
    /\ \A r \in Robots : \A t \in outbox[r] : t.update \in emitted

\* An acknowledgement under way comes from a robot that has the update.
AckMeansKnown ==
    \A i \in 1 .. Len(net) : net[i].kind = "ack" =>
        AtLeast(beliefs[net[i].from][net[i].update.cell], net[i].update.stamp)

\* The inductive invariant of the delivery loop: its parts need one another.
IndInv ==
    /\ TypeOK
    /\ NetInOrder
    /\ OnlyReported
    /\ OwnReports
    /\ AckMeansKnown
    /\ NoLostUpdate

\* Once every outbox is empty all replicas are identical, stamp for stamp,
\* even where several robots observed the same cell in different steps and
\* their reports crossed on the link: apply_update resolves them alike.
QuiescentAgreement ==
    (Acknowledged /\ \A r \in Robots : outbox[r] = {}) => Agreement

\* _interleave_first_attempts_and_retries: while both classes still have
\* tasks, neither gets more than one packet ahead of the other, and the class
\* that leads is the one whose turn this step is.  A budget of one packet
\* per step thus serves each class in every second step.
TriedFresh(s) == {t \in outbox[s] : Key(t) \in tried /\ t.attempts = 1}
TriedRetries(s) == {t \in outbox[s] : Key(t) \in tried /\ t.attempts > 1}

RetryAllIsFair ==
    (policy = "retry_all" /\ phase = "dispatch") =>
        LET f == Cardinality(TriedFresh(turn))
            q == Cardinality(TriedRetries(turn))
        IN  (Fresh(turn) # {} /\ Retries(turn) # {}) =>
                IF step % 2 = 0 THEN f - q \in {0, 1} ELSE q - f \in {0, 1}

\* What makes that inductive: a key names one task of an outbox, and the packets
\* of the two classes are all that the sender has put on the link.
KeysAreUnique ==
    \A r \in Robots : \A t, u \in outbox[r] : Key(t) = Key(u) => t = u

TriedAreCounted ==
    /\ phase # "dispatch" => tried = {}
    /\ (policy = "retry_all" /\ phase = "dispatch") =>
        /\ IsFiniteSet(tried)
        /\ IsFiniteSet(TriedFresh(turn)) /\ IsFiniteSet(TriedRetries(turn))
        /\ Cardinality(tried) =
               Cardinality(TriedFresh(turn)) + Cardinality(TriedRetries(turn))

FairInv == KeysAreUnique /\ TriedAreCounted /\ RetryAllIsFair

\* Over a link that does not lose every packet, every observation reaches
\* every robot and the outboxes drain for good, even when the budgets admit one
\* packet and one acknowledgement per step.
Converges ==
    <>[](Acknowledged => Agreement /\ \A r \in Robots : outbox[r] = {})

=============================================================================
