----------------------------- MODULE Notifications -----------------------------
(***************************************************************************)
(* notification-service: a Kafka consumer turns each event of a partition  *)
(* into a mail job on a BullMQ queue and commits the offset, whatever came *)
(* of it; a worker in the same process sends the mails.  The process may   *)
(* die at any step, and a commit may be rejected with the process alive    *)
(* (the group is rebalancing, the coordinator moved): the message is read  *)
(* again.                                                                  *)
(*                                                                         *)
(* Only the events of auth-service carry an address; the mails of an order *)
(* are addressed to nobody, and the amount some of them carry is missing   *)
(* or a string, on which the template fails.                               *)
(***************************************************************************)
EXTENDS Naturals

CONSTANTS
    LastEvent,    \* the events are 1 .. LastEvent, in the order of the partition
    OrderEvents,  \* events of an order or a payment
    AmountEvents, \* those of them on which the template fails
    MaxCrashes,   \* bound on deaths of the process
    MaxErrors,    \* bound on jobs Redis, and mails the SMTP server, refuses
    MaxRejections, \* bound on commits that are rejected
    None          \* no event, no offset

VARIABLES
    published, \* the events published so far are 1 .. published
    up,        \* the process runs
    next,      \* the consumer's position: the event it handles next
    handled,   \* the handler of that event has ended
    committed, \* the offset stored in Kafka
    waiting,   \* how many jobs wait for each event, ...
    stalled,   \* ... and how many were active when the process died
    active,    \* the job the worker has taken
    mails,     \* how many mails were sent for each event
    crashes, errors, rejections,
    dropped    \* history: events lost to an error, or never read

vars == <<published, up, next, handled, committed, waiting, stalled, active,
          mails, crashes, errors, rejections, dropped>>
consumer == <<published, next, handled, committed>>
queue == <<waiting, stalled, active>>
history == <<crashes, errors, rejections, dropped>>

Notices == 1 .. LastEvent
Job == [event : Notices, again : BOOLEAN, sent : BOOLEAN]

ConstantsAssumption ==
    /\ LastEvent \in Nat
    /\ OrderEvents \subseteq Notices /\ AmountEvents \subseteq OrderEvents
    /\ MaxCrashes \in Nat /\ MaxErrors \in Nat /\ MaxRejections \in Nat
    /\ None \notin Job

Init ==
    /\ published = 0 /\ up = FALSE
    /\ next = 1 /\ handled = FALSE /\ committed = None
    /\ waiting = [e \in Notices |-> 0] /\ stalled = [e \in Notices |-> 0]
    /\ active = None
    /\ mails = [e \in Notices |-> 0]
    /\ crashes = 0 /\ errors = 0 /\ rejections = 0 /\ dropped = {}

Publish ==
    /\ published < LastEvent
    /\ published' = published + 1
    /\ UNCHANGED <<up, next, handled, committed, queue, mails, history>>

\* fromBeginning is false: without a committed offset the consumer begins after
\* what there is, and the events from unread on are lost.
Resume(offset, unread) ==
    IF offset = None
    THEN next' = published + 1 /\ dropped' = dropped \cup unread .. published
    ELSE next' = offset /\ UNCHANGED dropped

Start ==
    /\ ~up
    /\ up' = TRUE
    /\ Resume(committed, 1)
    /\ UNCHANGED <<published, handled, committed, queue, mails, crashes, errors, rejections>>

-----------------------------------------------------------------------------
(* The consumer *)

Handled(e) == up /\ ~handled /\ next = e /\ e <= published /\ handled' = TRUE

\* Wrong: two handlers are registered for one topic.
EnqueueTwice(e) ==
    /\ e \notin AmountEvents
    /\ Handled(e)
    /\ waiting' = [waiting EXCEPT ![e] = @ + 2]
    /\ UNCHANGED <<published, up, next, committed, stalled, active, mails, history>>

Enqueue(e) ==
    /\ e \notin AmountEvents
    /\ Handled(e)
    /\ waiting' = [waiting EXCEPT ![e] = @ + 1]
    /\ UNCHANGED <<published, up, next, committed, stalled, active, mails, history>>

\* The handler logs an exception and ends.
RenderFails(e) ==
    /\ e \in AmountEvents
    /\ Handled(e)
    /\ UNCHANGED <<published, up, next, committed, queue, mails, history>>

\* So does enqueue.
EnqueueFails(e) ==
    /\ e \notin AmountEvents /\ errors < MaxErrors
    /\ Handled(e)
    /\ errors' = errors + 1
    /\ dropped' = dropped \cup {e}
    /\ UNCHANGED <<published, up, next, committed, queue, mails, crashes, rejections>>

Committing(last) ==
    /\ committed' = last + 1
    /\ UNCHANGED <<published, up, queue, mails, history>>

\* Wrong: the messages fetched together are acknowledged together.
CommitFetched ==
    /\ up /\ handled
    /\ next' = next + 1 /\ handled' = FALSE
    /\ Committing(published)

Commit ==
    /\ up /\ handled
    /\ next' = next + 1 /\ handled' = FALSE
    /\ Committing(next)

\* The broker may have stored the offset before the error.  eachMessage throws:
\* the consumer reads the message again, or joins the group again and goes on
\* from the offset that is stored.
CommitFails ==
    /\ up /\ handled /\ rejections < MaxRejections
    /\ rejections' = rejections + 1
    /\ handled' = FALSE
    /\ committed' \in {committed, next + 1}
    /\ UNCHANGED <<next, dropped>> \/ Resume(committed', next + 1)
    /\ UNCHANGED <<published, up, queue, mails, crashes, errors>>

-----------------------------------------------------------------------------
(* The worker.  A job is attempted once; one that was active when the worker *)
(* died is given to it again, but not a third time.                          *)

Take(e) ==
    /\ up /\ active = None
    /\ \/ /\ waiting[e] > 0
          /\ waiting' = [waiting EXCEPT ![e] = @ - 1]
          /\ active' = [event |-> e, again |-> FALSE, sent |-> FALSE]
          /\ UNCHANGED stalled
       \/ /\ stalled[e] > 0
          /\ stalled' = [stalled EXCEPT ![e] = @ - 1]
          /\ active' = [event |-> e, again |-> TRUE, sent |-> FALSE]
          /\ UNCHANGED waiting
    /\ UNCHANGED <<consumer, up, mails, history>>

Working == up /\ active # None

Send ==
    /\ Working /\ ~active.sent /\ active.event \notin OrderEvents
    /\ mails' = [mails EXCEPT ![active.event] = @ + 1]
    /\ active' = [active EXCEPT !.sent = TRUE]
    /\ UNCHANGED <<consumer, up, waiting, stalled, history>>

Complete ==
    /\ Working /\ active.sent
    /\ active' = None
    /\ UNCHANGED <<consumer, up, waiting, stalled, mails, history>>

\* A mail to nobody is refused at once, any other when the server says so.
SendFails ==
    /\ Working /\ ~active.sent
    /\ active' = None
    /\ IF active.event \in OrderEvents THEN UNCHANGED <<errors, dropped>>
       ELSE /\ errors < MaxErrors
            /\ errors' = errors + 1
            /\ dropped' = dropped \cup {active.event}
    /\ UNCHANGED <<consumer, up, waiting, stalled, mails, crashes, rejections>>

\* Of a job that stalls again BullMQ keeps only the failure.
Crash ==
    /\ up /\ crashes < MaxCrashes
    /\ up' = FALSE /\ handled' = FALSE
    /\ crashes' = crashes + 1
    /\ active' = None
    /\ IF active # None /\ ~active.again
       THEN stalled' = [stalled EXCEPT ![active.event] = @ + 1]
       ELSE UNCHANGED stalled
    /\ dropped' = IF active # None /\ active.again THEN dropped \cup {active.event} ELSE dropped
    /\ UNCHANGED <<published, next, committed, waiting, mails, errors, rejections>>

Consume == (\E e \in Notices : Enqueue(e) \/ RenderFails(e) \/ EnqueueFails(e)) \/ Commit
Work == (\E e \in Notices : Take(e)) \/ Send \/ Complete \/ SendFails

Next == Publish \/ Start \/ Consume \/ CommitFails \/ Work \/ Crash

Spec == Init /\ [][Next]_vars

\* The process is started again; consumer and worker go on while it is up.  No
\* commit has to fail.
Fairness == WF_vars(Start) /\ WF_vars(Consume) /\ WF_vars(Work)

FairSpec == Spec /\ Fairness
-----------------------------------------------------------------------------
(* Properties *)

TypeOK ==
    /\ published \in 0 .. LastEvent /\ next \in 1 .. LastEvent + 1
    /\ up \in BOOLEAN /\ handled \in BOOLEAN
    /\ committed \in 1 .. LastEvent + 1 \cup {None}
    /\ waiting \in [Notices -> Nat] /\ stalled \in [Notices -> Nat]
    /\ active \in Job \cup {None}
    /\ mails \in [Notices -> Nat]
    /\ crashes \in 0 .. MaxCrashes /\ errors \in 0 .. MaxErrors
    /\ rejections \in 0 .. MaxRejections
    /\ dropped \subseteq Notices

\* A message of the topic is mailed once.  Each death of the process may repeat
\* it twice, once for the job it interrupts and once for the offset it leaves
\* uncommitted, and each rejected commit once.  An event its relay sends twice
\* is two messages: see OutboxRelay.
Repeats == 2 * crashes + rejections
FewDuplicates == \A e \in Notices : mails[e] <= 1 + Repeats

\* The inductive invariant: the mails of an event, the jobs that may still send
\* one and the one job the consumer may still make of it.  While the process
\* runs, no offset behind the consumer's position is stored.
Underway(e) == IF active # None /\ active.event = e /\ ~active.sent THEN 1 ELSE 0
Ahead(e) == IF up /\ (e < next \/ (e = next /\ handled)) THEN 0 ELSE 1
FewJobs ==
    \A e \in Notices :
        mails[e] + waiting[e] + stalled[e] + Underway(e) + Ahead(e) <= 1 + Repeats
Position ==
    /\ handled => up /\ next <= published
    /\ up /\ committed # None => committed >= next
MailInv == TypeOK /\ Position /\ FewJobs

Mailed(e) == published >= e ~> mails[e] > 0 \/ e \in dropped

\* Every event of auth-service that notification-service subscribes to is
\* mailed, through any deaths and rejected commits, unless a refusal lost it or
\* it was published before the consumer first stored an offset.
UserIsMailed == \A e \in Notices \ OrderEvents : Mailed(e)

\* todos/notification-service.todo.md claims the notifications of orders and
\* payments as done: these events are mailed as well.
OrderIsMailed == \A e \in OrderEvents : Mailed(e)

\* The same list claims three attempts with a backoff, and a dead-letter queue:
\* a job the worker has taken is mailed, though the SMTP server refuses it once.
\* The job is enqueued without attempts, which is one attempt.
RefusedIsRetried ==
    \A e \in Notices \ OrderEvents :
        Working /\ active.event = e /\ ~active.sent ~> mails[e] > 0
=============================================================================
