------------------------------- MODULE Payment -------------------------------
(***************************************************************************)
(* payment-service: the payments table, the outbox rows that answer        *)
(* order-service, and the payment provider, whose charges and refunds are  *)
(* not undone by a rollback.  charge and refund are run by the consumers   *)
(* of payment-service-saga.                                                *)
(*                                                                         *)
(* The payment row is inserted before the provider is called, in the       *)
(* transaction that settles it after the call: while the provider works,   *)
(* the only trace of the payment is the lock of its unique orderId.        *)
(***************************************************************************)
EXTENDS Naturals, FiniteSets

CONSTANTS
    Orders,
    Workers,    \* consumers of payment.charge and payment.refund
    Answers,    \* provider's answers: TRUE charged, FALSE declined
    MaxAborts,  \* bound on handlers that fail half-way
    Webhooks,   \* orders an administrator uses POST /payments/webhook/simulate for
    Free, Idle

VARIABLES
    payment,  \* payments.status as committed, "NONE" while there is no row
    lock,     \* the worker whose transaction inserted the order's row
    charges,  \* charges the provider made for each order
    refunds,  \* refunds the provider made for each order
    events,   \* messages written to the outbox, by any service
    work,     \* the command each worker is executing
    dropped,  \* orders whose payment.charge was acknowledged after an error
    aborts    \* handlers that failed so far

vars == <<payment, lock, charges, refunds, events, work, dropped, aborts>>

\* PENDING is written too, but never committed.
PaymentStatus == {"COMPLETED", "FAILED", "REFUNDED"}
Msg(t, o) == [topic |-> t, order |-> o]
Simulated(t, o) == [topic |-> t, order |-> o, simulated |-> TRUE]
Sent(t, o) == Msg(t, o) \in events

Work ==
    [op : {"charge", "charging", "refund", "refunded"}, order : Orders]
        \cup [op : {"charged"}, order : Orders, success : BOOLEAN]

ASSUME ConstantsAssumption ==
    /\ Answers \subseteq BOOLEAN
    /\ MaxAborts \in Nat
    /\ Webhooks \subseteq Orders
    /\ Free \notin Workers
    /\ Idle \notin Work

Init ==
    /\ payment = [o \in Orders |-> "NONE"]
    /\ lock = [o \in Orders |-> Free]
    /\ charges = [o \in Orders |-> 0]
    /\ refunds = [o \in Orders |-> 0]
    /\ events = {}
    /\ work = [w \in Workers |-> Idle]
    /\ dropped = {}
    /\ aborts = 0

Doing(w, op) == work[w] # Idle /\ work[w].op = op
Goto(w, op, o) == work' = [work EXCEPT ![w] = [op |-> op, order |-> o]]
Done(w) == work' = [work EXCEPT ![w] = Idle]

-----------------------------------------------------------------------------
(* What the other parts send *)

\* order-service asks for the charge.  Nothing in the repository sends
\* payment.refund: the topic is open to an operator.
Command(t, o) ==
    /\ t \in {"payment.charge", "payment.refund"}
    /\ ~Sent(t, o)
    /\ events' = events \cup {Msg(t, o)}
    /\ UNCHANGED <<payment, lock, charges, refunds, work, dropped, aborts>>

\* simulateWebhook writes an answer, whatever the payment is.  order-service
\* does not look at the mark it carries.
SimulateWebhook(t, o) ==
    /\ o \in Webhooks
    /\ t \in {"payment.completed", "payment.failed"}
    /\ Simulated(t, o) \notin events
    /\ events' = events \cup {Simulated(t, o)}
    /\ UNCHANGED <<payment, lock, charges, refunds, work, dropped, aborts>>

-----------------------------------------------------------------------------
(* payment.charge *)

Chargeable(o) == payment[o] = "NONE"

\* The lookup outside the transaction: a settled payment is skipped.
ChargeBegin(w, o) ==
    /\ work[w] = Idle
    /\ Sent("payment.charge", o)
    /\ Chargeable(o)
    /\ Goto(w, "charge", o)
    /\ UNCHANGED <<payment, lock, charges, refunds, events, dropped, aborts>>

\* Wrong: the row is only inserted after the provider has answered.
ChargeInsertLate(w) ==
    /\ Doing(w, "charge")
    /\ Goto(w, "charging", work[w].order)
    /\ UNCHANGED <<payment, lock, charges, refunds, events, dropped, aborts>>

\* The insert waits for a transaction that has inserted the same orderId.
ChargeInsert(w) ==
    /\ Doing(w, "charge")
    /\ LET o == work[w].order IN
         /\ lock[o] = Free /\ payment[o] = "NONE"
         /\ lock' = [lock EXCEPT ![o] = w]
         /\ Goto(w, "charging", o)
    /\ UNCHANGED <<payment, charges, refunds, events, dropped, aborts>>

\* That transaction has committed: unique violation.
ChargeConflict(w) ==
    /\ Doing(w, "charge")
    /\ payment[work[w].order] # "NONE"
    /\ Done(w)
    /\ UNCHANGED <<payment, lock, charges, refunds, events, dropped, aborts>>

ProviderCharge(w, success) ==
    /\ Doing(w, "charging")
    /\ success \in Answers
    /\ LET o == work[w].order IN
         /\ charges' = [charges EXCEPT ![o] = IF success THEN @ + 1 ELSE @]
         /\ work' = [work EXCEPT ![w] = [op |-> "charged", order |-> o, success |-> success]]
    /\ UNCHANGED <<payment, lock, refunds, events, dropped, aborts>>

\* Wrong: a declined charge is not announced.
ChargeCommitSilently(w) ==
    /\ Doing(w, "charged")
    /\ LET o == work[w].order IN
         /\ payment' = [payment EXCEPT ![o] = IF work[w].success THEN "COMPLETED" ELSE "FAILED"]
         /\ events' = IF work[w].success THEN events \cup {Msg("payment.completed", o)} ELSE events
         /\ lock' = [lock EXCEPT ![o] = Free]
    /\ Done(w)
    /\ UNCHANGED <<charges, refunds, dropped, aborts>>

\* Wrong: every answer of the provider counts as a success.
ChargeCommitBlindly(w) ==
    /\ Doing(w, "charged")
    /\ LET o == work[w].order IN
         /\ payment' = [payment EXCEPT ![o] = "COMPLETED"]
         /\ events' = events \cup {Msg("payment.completed", o)}
         /\ lock' = [lock EXCEPT ![o] = Free]
    /\ Done(w)
    /\ UNCHANGED <<charges, refunds, dropped, aborts>>

\* Payment row and answer are committed together.
ChargeCommit(w) ==
    /\ Doing(w, "charged")
    /\ LET o == work[w].order IN
         /\ payment' = [payment EXCEPT ![o] = IF work[w].success THEN "COMPLETED" ELSE "FAILED"]
         /\ events' = events \cup
                {Msg(IF work[w].success THEN "payment.completed" ELSE "payment.failed", o)}
         /\ lock' = [lock EXCEPT ![o] = Free]
    /\ Done(w)
    /\ UNCHANGED <<charges, refunds, dropped, aborts>>

-----------------------------------------------------------------------------
(* payment.refund *)

\* Wrong: any payment is refunded.
AnyPayment(o) == payment[o] # "NONE"

Refundable(o) == payment[o] = "COMPLETED"

RefundBegin(w, o) ==
    /\ work[w] = Idle
    /\ Sent("payment.refund", o)
    /\ Refundable(o)
    /\ Goto(w, "refund", o)
    /\ UNCHANGED <<payment, lock, charges, refunds, events, dropped, aborts>>

ProviderRefund(w) ==
    /\ Doing(w, "refund")
    /\ refunds' = [refunds EXCEPT ![work[w].order] = @ + 1]
    /\ Goto(w, "refunded", work[w].order)
    /\ UNCHANGED <<payment, lock, charges, events, dropped, aborts>>

\* The entity is saved as it was read; the row is locked until COMMIT only.
RefundCommit(w) ==
    /\ Doing(w, "refunded")
    /\ LET o == work[w].order IN
         /\ payment' = [payment EXCEPT ![o] = "REFUNDED"]
         /\ events' = events \cup {Msg("payment.refunded", o)}
    /\ Done(w)
    /\ UNCHANGED <<lock, charges, refunds, dropped, aborts>>

-----------------------------------------------------------------------------
(* Failures.  The database forgets what a handler did before it failed, the  *)
(* provider does not.                                                        *)

RollBack(w) ==
    /\ work[w] # Idle /\ aborts < MaxAborts
    /\ lock' = [o \in Orders |-> IF lock[o] = w THEN Free ELSE lock[o]]
    /\ Done(w)
    /\ aborts' = aborts + 1
    /\ UNCHANGED <<payment, charges, refunds, events>>

\* The process dies: the message is delivered again.
Crash(w) ==
    /\ RollBack(w)
    /\ UNCHANGED dropped

\* An exception: the consumer logs it, and the message counts as handled.
Fail(w) ==
    /\ RollBack(w)
    /\ dropped' = IF work[w].op \in {"refund", "refunded"} THEN dropped
                  ELSE dropped \cup {work[w].order}

WorkerStep(w) ==
    \/ \E o \in Orders : ChargeBegin(w, o) \/ RefundBegin(w, o)
    \/ ChargeInsert(w) \/ ChargeConflict(w)
    \/ \E success \in BOOLEAN : ProviderCharge(w, success)
    \/ ChargeCommit(w)
    \/ ProviderRefund(w) \/ RefundCommit(w)
    \/ Crash(w) \/ Fail(w)

Next ==
    \/ \E o \in Orders, t \in {"payment.charge", "payment.refund"} : Command(t, o)
    \/ \E o \in Orders, t \in {"payment.completed", "payment.failed"} : SimulateWebhook(t, o)
    \/ \E w \in Workers : WorkerStep(w)

Spec == Init /\ [][Next]_vars

\* A handler goes on, and a charge command that is in its topic and not
\* acknowledged is delivered (again and again, should consumers keep dying).
Fairness ==
    /\ \A w \in Workers :
          /\ WF_vars(ChargeInsert(w) \/ ChargeConflict(w) \/ ChargeCommit(w)
                       \/ \E success \in BOOLEAN : ProviderCharge(w, success))
          /\ WF_vars(ProviderRefund(w) \/ RefundCommit(w))
    /\ \A o \in Orders :
          SF_vars(o \notin dropped /\ \E w \in Workers : ChargeBegin(w, o))

FairSpec == Spec /\ Fairness
-----------------------------------------------------------------------------
(* Properties *)

TypeOK ==
    /\ payment \in [Orders -> PaymentStatus \cup {"NONE"}]
    /\ lock \in [Orders -> Workers \cup {Free}]
    /\ charges \in [Orders -> Nat]
    /\ refunds \in [Orders -> Nat]
    /\ work \in [Workers -> Work \cup {Idle}]
    /\ dropped \subseteq Orders
    /\ aborts \in 0 .. MaxAborts

\* A customer is not charged twice by two deliveries of one command, whether
\* they come one after the other or together: the row inserted before the call
\* keeps the second handler away from the provider.  Only a handler that dies
\* after the call makes the provider charge again.
ChargedOncePerAttempt == \A o \in Orders : charges[o] <= 1 + aborts

\* What the row says of the money is true: a payment that shows as completed
\* or refunded was charged, and refunds are made of charged payments only.
PaidIsCharged ==
    \A o \in Orders :
        /\ payment[o] \in {"COMPLETED", "REFUNDED"} => charges[o] > 0
        /\ refunds[o] > 0 => charges[o] > 0
        /\ payment[o] = "REFUNDED" => refunds[o] > 0

\* order-service hears exactly what the row says, and never both answers
\* (simulated webhooks aside).
OneAnswer ==
    \A o \in Orders :
        /\ Sent("payment.completed", o) <=> payment[o] \in {"COMPLETED", "REFUNDED"}
        /\ Sent("payment.failed", o) <=> payment[o] = "FAILED"

Calling(w) == work[w] # Idle /\ work[w].op \in {"charging", "charged"}
Refunding(w) == work[w] # Idle /\ work[w].op \in {"refund", "refunded"}

\* The inductive invariant behind the three above: the handlers between insert
\* and COMMIT are exactly those that hold the lock of their order's row, ...
RowIsLocked ==
    /\ \A w \in Workers : Calling(w) => lock[work[w].order] = w
    /\ \A o \in Orders :
          lock[o] # Free =>
              /\ payment[o] = "NONE"
              /\ Calling(lock[o]) /\ work[lock[o]].order = o

\* ... what they know of the provider is true, and an order without a row has
\* been charged by handlers that failed, or by the one that holds the lock.
ChargesKnown ==
    /\ \A w \in Workers :
          /\ Doing(w, "charged") /\ work[w].success => charges[work[w].order] > 0
          /\ Refunding(w) => payment[work[w].order] \in {"COMPLETED", "REFUNDED"}
          /\ Doing(w, "refunded") => refunds[work[w].order] > 0
    /\ \A o \in Orders :
          payment[o] = "NONE" /\ ~(lock[o] # Free /\ Doing(lock[o], "charged"))
              => charges[o] <= aborts

IInv ==
    /\ TypeOK /\ RowIsLocked /\ ChargesKnown
    /\ ChargedOncePerAttempt /\ PaidIsCharged /\ OneAnswer

\* Every charge command is answered in the end, even if consumers die, unless
\* its handler failed with an error: such a command is acknowledged and lost.
ChargeAnswered ==
    \A o \in Orders :
        Sent("payment.charge", o) ~>
            \/ Sent("payment.completed", o) \/ Sent("payment.failed", o)
            \/ o \in dropped

\* todos/payment-service.todo.md: "Provider idempotency key kullan": a retry
\* of a charge does not charge again.  It does not hold when a process dies
\* between the provider's answer and COMMIT (README, Disagreements).
ProviderChargesOnce == \A o \in Orders : charges[o] <= 1
=============================================================================
