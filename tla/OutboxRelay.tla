----------------------------- MODULE OutboxRelay -----------------------------
(***************************************************************************)
(* The outbox table, which all services share, and the relays that move    *)
(* its rows to Kafka.  Each service runs a relay: a timer starts a run     *)
(* every 500 ms, whether or not the previous one has ended.  A run reads   *)
(* the oldest unsent rows, and for each of them sends the message and then *)
(* sets sentAt.                                                            *)
(*                                                                         *)
(* Events are numbered in the order of their createdAt, which is the time  *)
(* their transaction began: they may commit in any other order.            *)
(***************************************************************************)
EXTENDS Naturals, FiniteSets

CONSTANTS
    Events,       \* rows the services write, in the order of createdAt
    Runs,         \* runs that may overlap, of one relay or of several
    Batch,        \* rows a run takes (50 in the code)
    Poison,       \* messages the broker never accepts
    MaxFailures,  \* bound on refused messages, failed updates, crashes and
                  \* rolled back connections
    NoEvent

VARIABLES
    outbox,    \* state of each row: its transaction is open, it is unsent, ...
    tentative, \* rows with sentAt set in a transaction that is still open
    published, \* messages the broker has accepted
    run,       \* rows each run still has to handle, and the one it has sent
    failures   \* failures so far

vars == <<outbox, tentative, published, run, failures>>

RowState == {"none", "open", "unsent", "sent", "rolled back"}
NoRun == [todo |-> {}, sent |-> NoEvent]

ASSUME ConstantsAssumption ==
    /\ Events \subseteq Nat /\ IsFiniteSet(Events)
    /\ Batch \in Nat \ {0}
    /\ Poison \subseteq Events
    /\ MaxFailures \in Nat
    /\ NoEvent \notin Events

Init ==
    /\ outbox = [e \in Events |-> "none"]
    /\ tentative = {}
    /\ published = {}
    /\ run = [r \in Runs |-> NoRun]
    /\ failures = 0

-----------------------------------------------------------------------------
(* The services: business data and message are written in one transaction *)

Write(e) ==
    /\ outbox[e] = "none"
    /\ outbox' = [outbox EXCEPT ![e] = "open"]
    /\ UNCHANGED <<tentative, published, run, failures>>

CommitWrite(e) ==
    /\ outbox[e] = "open"
    /\ outbox' = [outbox EXCEPT ![e] = "unsent"]
    /\ UNCHANGED <<tentative, published, run, failures>>

RollbackWrite(e) ==
    /\ outbox[e] = "open"
    /\ outbox' = [outbox EXCEPT ![e] = "rolled back"]
    /\ UNCHANGED <<tentative, published, run, failures>>

-----------------------------------------------------------------------------
(* A run of a relay *)

\* Wrong: the relay goes on after the last row it has sent.
AfterLastSent ==
    {e \in Events : outbox[e] = "unsent" /\ \A d \in Events : outbox[d] = "sent" => d < e}

Unsent == {e \in Events : outbox[e] = "unsent"}

Oldest(S) == {e \in S : Cardinality({d \in S : d < e}) < Batch}

Read(r) ==
    /\ run[r] = NoRun
    /\ Unsent # {}
    /\ run' = [run EXCEPT ![r].todo = Oldest(Unsent)]
    /\ UNCHANGED <<outbox, tentative, published, failures>>

\* The run awaits one message after the other, oldest first.
Current(r, e) ==
    /\ run[r].sent = NoEvent
    /\ e \in run[r].todo /\ \A d \in run[r].todo : e <= d

Send(r, e) ==
    /\ Current(r, e)
    /\ e \notin Poison
    /\ published' = published \cup {e}
    /\ run' = [run EXCEPT ![r].sent = e]
    /\ UNCHANGED <<outbox, tentative, failures>>

Skip(r, e) == run' = [run EXCEPT ![r] = [todo |-> @.todo \ {e}, sent |-> NoEvent]]

\* send throws: the error is logged, and the run goes on with the next row.
SendFails(r, e) ==
    /\ Current(r, e)
    /\ \/ e \in Poison /\ UNCHANGED failures
       \/ failures < MaxFailures /\ failures' = failures + 1
    /\ Skip(r, e)
    /\ UNCHANGED <<outbox, tentative, published>>

\* Wrong: sentAt is set whether or not the broker took the message.
MarkAnyway(r, e) ==
    /\ Current(r, e)
    /\ outbox' = [outbox EXCEPT ![e] = "sent"]
    /\ Skip(r, e)
    /\ UNCHANGED <<tentative, published, failures>>

\* Wrong: sentAt is never set.
MarkNever(r, e) ==
    /\ run[r].sent = e /\ e \in run[r].todo
    /\ Skip(r, e)
    /\ UNCHANGED <<outbox, tentative, published, failures>>

\* The update names the row by its id only.  It waits for another update of
\* the row that is not committed.
Mark(r, e) ==
    /\ run[r].sent = e /\ e \in run[r].todo
    /\ e \notin tentative
    /\ outbox' = [outbox EXCEPT ![e] = "sent"]
    /\ Skip(r, e)
    /\ UNCHANGED <<tentative, published, failures>>

\* In order-service the update may run on a pooled connection that a saga
\* handler returned to the pool inside an open transaction.
MarkInLeak(r, e) ==
    /\ run[r].sent = e /\ e \in run[r].todo
    /\ e \notin tentative
    /\ tentative' = tentative \cup {e}
    /\ Skip(r, e)
    /\ UNCHANGED <<outbox, published, failures>>

MarkFails(r, e) ==
    /\ run[r].sent = e /\ e \in run[r].todo
    /\ failures < MaxFailures /\ failures' = failures + 1
    /\ Skip(r, e)
    /\ UNCHANGED <<outbox, tentative, published>>

\* The process dies.
Crash(r) ==
    /\ run[r] # NoRun
    /\ failures < MaxFailures /\ failures' = failures + 1
    /\ run' = [run EXCEPT ![r] = NoRun]
    /\ UNCHANGED <<outbox, tentative, published>>

\* The next transaction on the leaked connection ends, with COMMIT ...
LeakCommits ==
    /\ tentative # {}
    /\ outbox' = [e \in Events |-> IF e \in tentative THEN "sent" ELSE outbox[e]]
    /\ tentative' = {}
    /\ UNCHANGED <<published, run, failures>>

\* ... or with ROLLBACK, which forgets that the rows were sent.
LeakRollsBack ==
    /\ tentative # {}
    /\ failures < MaxFailures /\ failures' = failures + 1
    /\ tentative' = {}
    /\ UNCHANGED <<outbox, published, run>>

-----------------------------------------------------------------------------
Handle(r, e) ==
    Send(r, e) \/ SendFails(r, e) \/ Mark(r, e) \/ MarkInLeak(r, e) \/ MarkFails(r, e)

Next ==
    \/ \E e \in Events : Write(e) \/ CommitWrite(e) \/ RollbackWrite(e)
    \/ \E r \in Runs : Read(r) \/ Crash(r) \/ \E e \in Events : Handle(r, e)
    \/ LeakCommits \/ LeakRollsBack

Spec == Init /\ [][Next]_vars

\* Timers keep starting runs, a run awaits a finite time at each row, and a
\* leaked connection is used again.
Fairness ==
    /\ \A r \in Runs :
          /\ WF_vars(Read(r))
          /\ WF_vars(\E e \in Events : Handle(r, e))
    /\ WF_vars(LeakCommits)

FairSpec == Spec /\ Fairness
-----------------------------------------------------------------------------
(* Properties *)

TypeOK ==
    /\ outbox \in [Events -> RowState]
    /\ tentative \subseteq Events
    /\ published \subseteq Events
    /\ run \in [Runs -> [todo : SUBSET Events, sent : Events \cup {NoEvent}]]
    /\ \A r \in Runs : run[r].sent \in run[r].todo \cup {NoEvent}
    /\ failures \in 0 .. MaxFailures

\* sentAt is a receipt: a row that shows as sent, or will once a leaked
\* transaction commits, has been accepted by the broker, though runs overlap,
\* repeat each other's work and die at any point.
SentIsPublished ==
    \A e \in Events : outbox[e] = "sent" \/ e \in tentative => e \in published

\* The message of a transaction that is rolled back, or not yet committed, is
\* in no run's hands and never reaches the broker.
OnlyCommittedTravel ==
    \A e \in Events :
        outbox[e] \in {"none", "open", "rolled back"} =>
            /\ e \notin published \cup tentative
            /\ \A r \in Runs : e \notin run[r].todo

\* The inductive invariant behind the three above: a run handles rows that
\* have been committed, and has sent the one it is about to mark.
RunsGrounded ==
    \A r \in Runs : run[r].sent # NoEvent => run[r].sent \in published

IInv == TypeOK /\ RunsGrounded /\ SentIsPublished /\ OnlyCommittedTravel

Delivery ==
    INSTANCE ReliableDelivery WITH
        committed <- {e \in Events : outbox[e] \in {"unsent", "sent"}},
        Refused <- Poison

\* The relays provide what the services count on, liveness included; with
\* commits out of the order of createdAt, overlapping runs, failures.
ImplementsReliableDelivery == Delivery!Spec

\* The safety part of it, which needs no assumption on the broker.
ImplementsSafeDelivery == Delivery!Safe

\* The backlog drains: no row is sent again and again for ever.
BacklogDrains ==
    \A e \in Events : outbox[e] = "unsent" /\ e \notin Poison ~> outbox[e] = "sent"

\* docs/auth-flow.md: "Outbox Pattern: Guaranteed event delivery via
\* transactional outbox + Kafka relay"; todos/pkg-kafka.todo.md: a retry
\* counter for failed sends, and the dead letter queue once it is exceeded.
\* Messages the broker refuses do not keep the others from being delivered.
\* It does not hold once they fill a batch (README, Disagreements).
OthersAreDelivered ==
    \A e \in Events \ Poison : outbox[e] = "unsent" ~> e \in published
=============================================================================
