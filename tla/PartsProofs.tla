------------------------------ MODULE PartsProofs ------------------------------
(***************************************************************************)
(* Proofs about the small parts that MCParts puts into one run, for every  *)
(* value of their constants: the outbox relay, the rate limits, the        *)
(* address book and the mails, each from an inductive invariant of its     *)
(* own, and what they promise when MCParts runs one of them.               *)
(***************************************************************************)
EXTENDS MCParts, FiniteSetTheorems, TLAPS

CONSTANT Checks  \* any of the counters a request increments: see RateLimits

Rates == INSTANCE RateLimits WITH work <- requests

-----------------------------------------------------------------------------
(* The outbox relay, for any number of rows, runs and failures and any      *)
(* batch.                                                                   *)

LEMMA InitIInv == Init => IInv
<1> SUFFICES ASSUME Init PROVE IInv
  OBVIOUS
<1> USE ConstantsAssumption DEF Init, NoRun
<1>1. TypeOK
  BY DEF TypeOK, RowState
<1>2. RunsGrounded /\ SentIsPublished /\ OnlyCommittedTravel
  BY DEF RunsGrounded, SentIsPublished, OnlyCommittedTravel
<1> QED
  BY <1>1, <1>2 DEF IInv

\* The transactions of the services change one row from one state to another.
LEMMA WriterStep ==
    ASSUME IInv, NEW e \in Events, Write(e) \/ CommitWrite(e) \/ RollbackWrite(e)
    PROVE  IInv'
<1> USE ConstantsAssumption DEF IInv
<1>1. PICK s \in RowState : outbox' = [outbox EXCEPT ![e] = s] /\ s # "sent"
  BY DEF Write, CommitWrite, RollbackWrite, RowState
<1>2. UNCHANGED <<tentative, published, run, failures>>
  BY DEF Write, CommitWrite, RollbackWrite
<1>3. outbox[e] \in {"none", "open"}
  BY DEF Write, CommitWrite, RollbackWrite
<1>4. TypeOK'
  BY <1>1, <1>2 DEF TypeOK
<1>5. RunsGrounded' /\ SentIsPublished'
  BY <1>1, <1>2 DEF RunsGrounded, SentIsPublished, TypeOK
<1>6. OnlyCommittedTravel'
  BY <1>1, <1>2, <1>3 DEF OnlyCommittedTravel, TypeOK
<1> QED
  BY <1>4, <1>5, <1>6

\* What a run does with the row it is at.
LEMMA HandleStep ==
    ASSUME IInv, NEW r \in Runs, NEW e \in Events, Handle(r, e)
    PROVE  IInv'
<1> USE ConstantsAssumption DEF IInv
<1>1. e \in run[r].todo
  BY DEF Handle, Send, SendFails, Mark, MarkInLeak, MarkFails, Current
<1>2. outbox[e] \in {"unsent", "sent"}
  BY <1>1 DEF OnlyCommittedTravel, TypeOK, RowState
<1>3. CASE Send(r, e)
  <2>1. TypeOK'
    BY <1>1, <1>3 DEF TypeOK, Send
  <2>2. RunsGrounded' /\ SentIsPublished'
    BY <1>3 DEF RunsGrounded, SentIsPublished, Send, TypeOK
  <2>3. OnlyCommittedTravel'
    BY <1>2, <1>3 DEF OnlyCommittedTravel, Send, TypeOK
  <2> QED
    BY <2>1, <2>2, <2>3
<1>4. ASSUME Skip(r, e), UNCHANGED published, failures' \in 0 .. MaxFailures,
             \/ UNCHANGED <<outbox, tentative>>
             \/ /\ run[r].sent = e
                /\ \/ outbox' = [outbox EXCEPT ![e] = "sent"] /\ UNCHANGED tentative
                   \/ tentative' = tentative \cup {e} /\ UNCHANGED outbox
      PROVE  IInv'
  <2>1. TypeOK'
    BY <1>4 DEF TypeOK, Skip, RowState
  <2>2. run[r].sent = e => e \in published
    BY DEF RunsGrounded
  <2>3. RunsGrounded'
    BY <1>4 DEF RunsGrounded, Skip, TypeOK
  <2>4. SentIsPublished'
    BY <1>4, <2>2 DEF SentIsPublished, TypeOK
  <2>5. OnlyCommittedTravel'
    BY <1>2, <1>4 DEF OnlyCommittedTravel, Skip, TypeOK
  <2> QED
    BY <2>1, <2>3, <2>4, <2>5
<1>5. CASE SendFails(r, e)
  BY <1>4, <1>5 DEF SendFails, TypeOK
<1>6. CASE Mark(r, e) \/ MarkInLeak(r, e)
  BY <1>4, <1>6 DEF Mark, MarkInLeak, TypeOK
<1>7. CASE MarkFails(r, e)
  BY <1>4, <1>7 DEF MarkFails, TypeOK
<1> QED
  BY <1>3, <1>5, <1>6, <1>7 DEF Handle

LEMMA NextIInv == IInv /\ [Next]_vars => IInv'
<1> SUFFICES ASSUME IInv, [Next]_vars PROVE IInv'
  OBVIOUS
<1> USE ConstantsAssumption DEF IInv
<1>1. ASSUME NEW r \in Runs, Read(r) PROVE IInv'
  <2>1. run' = [run EXCEPT ![r].todo = Oldest(Unsent)]
        /\ UNCHANGED <<outbox, tentative, published, failures>>
    BY <1>1 DEF Read
  <2>2. Oldest(Unsent) \subseteq Unsent
    BY DEF Oldest
  <2>3. run[r].sent = NoEvent
    BY <1>1 DEF Read, NoRun
  <2>4. TypeOK'
    BY <2>1, <2>2, <2>3 DEF TypeOK, Unsent
  <2>5. RunsGrounded' /\ SentIsPublished'
    BY <2>1, <2>3 DEF RunsGrounded, SentIsPublished, TypeOK
  <2>6. OnlyCommittedTravel'
    BY <2>1, <2>2 DEF OnlyCommittedTravel, Unsent, TypeOK
  <2> QED
    BY <2>4, <2>5, <2>6
<1>2. ASSUME NEW r \in Runs, Crash(r) PROVE IInv'
  <2>1. TypeOK'
    BY <1>2 DEF TypeOK, Crash, NoRun
  <2>2. RunsGrounded' /\ SentIsPublished' /\ OnlyCommittedTravel'
    BY <1>2 DEF RunsGrounded, SentIsPublished, OnlyCommittedTravel, Crash, NoRun, TypeOK
  <2> QED
    BY <2>1, <2>2
<1>3. CASE LeakCommits
  <2>1. TypeOK'
    BY <1>3 DEF TypeOK, LeakCommits, RowState
  <2>2. RunsGrounded' /\ SentIsPublished' /\ OnlyCommittedTravel'
    BY <1>3 DEF RunsGrounded, SentIsPublished, OnlyCommittedTravel, LeakCommits, TypeOK
  <2> QED
    BY <2>1, <2>2
<1>4. CASE LeakRollsBack
  <2>1. TypeOK'
    BY <1>4 DEF TypeOK, LeakRollsBack
  <2>2. RunsGrounded' /\ SentIsPublished' /\ OnlyCommittedTravel'
    BY <1>4 DEF RunsGrounded, SentIsPublished, OnlyCommittedTravel, LeakRollsBack
  <2> QED
    BY <2>1, <2>2
<1>5. CASE UNCHANGED vars
  <2>1. TypeOK'
    BY <1>5 DEF TypeOK, vars
  <2>2. RunsGrounded' /\ SentIsPublished' /\ OnlyCommittedTravel'
    BY <1>5 DEF RunsGrounded, SentIsPublished, OnlyCommittedTravel, vars
  <2> QED
    BY <2>1, <2>2
<1> QED
  BY <1>1, <1>2, <1>3, <1>4, <1>5, WriterStep, HandleStep DEF Next

\* IInv holds in every reachable state of the relays.
THEOREM InductiveInvariant == Spec => []IInv
<1>1. IInv /\ [Next]_vars => IInv'
  BY NextIInv
<1> QED
  BY InitIInv, <1>1, PTL DEF Spec

\* The variables stay within their types, and a run that has sent a row is at
\* that row.
THEOREM TypeCorrect == Spec => []TypeOK
<1>1. IInv => TypeOK
  BY DEF IInv
<1> QED
  BY InductiveInvariant, <1>1, PTL

\* A row that shows as sent has been accepted by the broker: no crash, no
\* overlap of runs and no rolled back connection loses a message.
THEOREM Receipt == Spec => []SentIsPublished
<1>1. IInv => SentIsPublished
  BY DEF IInv
<1> QED
  BY InductiveInvariant, <1>1, PTL

\* No message of a transaction that has not committed reaches a run or the
\* broker.
THEOREM OnlyCommitted == Spec => []OnlyCommittedTravel
<1>1. IInv => OnlyCommittedTravel
  BY DEF IInv
<1> QED
  BY InductiveInvariant, <1>1, PTL

-----------------------------------------------------------------------------
(* Refinement *)

Committed == {e \in Events : outbox[e] \in {"unsent", "sent"}}

\* An initial state of the relays is one of ReliableDelivery.
LEMMA InitDelivery == Init => Delivery!Init
BY DEF Init, Delivery!Init

\* A step commits one row, publishes one message, or changes neither.
LEMMA StepDelivery ==
    ASSUME IInv, [Next]_vars
    PROVE  [Delivery!Next]_<<Committed, published>>
<1> USE DEF IInv, Committed
<1>1. ASSUME NEW e \in Events, CommitWrite(e) PROVE Delivery!Commit(e)
  BY <1>1 DEF CommitWrite, Delivery!Commit, TypeOK
<1>2. ASSUME NEW e \in Events, Write(e) \/ RollbackWrite(e)
      PROVE  UNCHANGED <<Committed, published>>
  BY <1>2 DEF Write, RollbackWrite, TypeOK
<1>3. ASSUME NEW r \in Runs, NEW e \in Events, Handle(r, e)
      PROVE  Delivery!Publish(e) \/ UNCHANGED <<Committed, published>>
  <2>1. e \in Committed
    BY <1>3 DEF Handle, Send, SendFails, Mark, MarkInLeak, MarkFails, Current,
       OnlyCommittedTravel, TypeOK, RowState
  <2>2. Committed' = Committed
    BY <1>3, <2>1 DEF Handle, Send, SendFails, Mark, MarkInLeak, MarkFails, TypeOK
  <2>3. CASE Send(r, e)
    BY <2>1, <2>2, <2>3 DEF Send, Delivery!Publish
  <2>4. CASE ~Send(r, e)
    BY <1>3, <2>2, <2>4 DEF Handle, SendFails, Mark, MarkInLeak, MarkFails
  <2> QED
    BY <2>3, <2>4
<1>4. ASSUME NEW r \in Runs, Read(r) \/ Crash(r) PROVE UNCHANGED <<Committed, published>>
  BY <1>4 DEF Read, Crash
<1>5. CASE LeakCommits
  <2>1. \A e \in tentative : outbox[e] \in {"unsent", "sent"}
    BY DEF OnlyCommittedTravel, TypeOK, RowState
  <2> QED
    BY <1>5, <2>1 DEF LeakCommits, TypeOK
<1>6. CASE LeakRollsBack \/ UNCHANGED vars
  BY <1>6 DEF LeakRollsBack, vars
<1> QED
  BY <1>1, <1>2, <1>3, <1>4, <1>5, <1>6 DEF Next, Delivery!Next

\* The relays publish committed messages and nothing else, each abstractly
\* once, whatever the batch, the overlaps and the failures.
THEOREM Refinement == Spec => ImplementsSafeDelivery
<1>1. IInv /\ [Next]_vars => [Delivery!Next]_<<Committed, published>>
  BY StepDelivery
<1> QED
  BY InductiveInvariant, InitDelivery, <1>1, PTL
     DEF Spec, ImplementsSafeDelivery, Delivery!Safe, Committed

-----------------------------------------------------------------------------
(* The counters of RateLimits, for any number of requests, any limits and   *)
(* any window: no counter is left without an expiry, but for those whose    *)
(* EXPIRE was lost.                                                         *)

\* The three counters.
LEMMA RateKeys == Rates!Counters = {"ip", "email", "route"}
BY DEF Rates!Counters, Rates!Limit

\* What a request in progress is.
LEMMA RateCarried ==
    ASSUME NEW k \in Rates!Work
    PROVE  /\ k.check \in Checks /\ k.todo \subseteq Rates!Counters
           /\ k.expire \subseteq Rates!Counters /\ k.over \in BOOLEAN
BY DEF Rates!Work

LEMMA RateShrunk ==
    ASSUME Rates!ConstantsAssumption, NEW k \in Rates!Work, NEW e \in SUBSET Rates!Counters
    PROVE  [k EXCEPT !.expire = e] \in Rates!Work /\ [k EXCEPT !.expire = e] # Idle
BY DEF Rates!Work, Rates!ConstantsAssumption

\* What INCR does to the counter and to the request that sends it.
LEMMA RateCount ==
    ASSUME Rates!ConstantsAssumption, Rates!TypeOK, NEW c \in Clients, NEW k \in Rates!Counters, Rates!Count(c, k)
    PROVE  /\ count' \in [Rates!Counters -> Nat] /\ count'[k] > 0
           /\ \A j \in Rates!Counters \ {k} : count'[j] = count[j]
           /\ requests' \in [Clients -> Rates!Work \cup {Idle}]
           /\ \A d \in Clients \ {c} : requests'[d] = requests[d]
           /\ requests[c] # Idle /\ requests'[c] # Idle
           /\ requests'[c].expire = IF count'[k] = 1 THEN requests[c].expire \cup {k} ELSE requests[c].expire
           /\ count[k] = 0 => count'[k] = 1
<1>1. /\ count' \in [Rates!Counters -> Nat] /\ count'[k] > 0 /\ (count[k] = 0 => count'[k] = 1)
      /\ \A j \in Rates!Counters \ {k} : count'[j] = count[j]
  <2>1. Rates!Limit[k] \in Nat \ {0}
    BY RateKeys DEF Rates!Limit, Rates!ConstantsAssumption
  <2>2. Rates!Incremented(k) \in Nat /\ Rates!Incremented(k) > 0 /\ (count[k] = 0 => Rates!Incremented(k) = 1)
    BY <2>1 DEF Rates!Incremented, Rates!TypeOK
  <2> QED
    BY <2>2 DEF Rates!Count, Rates!TypeOK
<1> DEFINE o == count'[k] > Rates!Limit[k]
           e == IF count'[k] = 1 THEN requests[c].expire \cup {k} ELSE requests[c].expire
           new == [check |-> requests[c].check, todo |-> requests[c].todo \ {k},
                   expire |-> e, over |-> requests[c].over \/ o]
<1>2. requests[c] \in Rates!Work /\ requests[c] # Idle
  BY DEF Rates!Count, Rates!TypeOK
<1>3. new \in Rates!Work
  <2>1. e \subseteq Rates!Counters /\ requests[c].check \in Checks /\ requests[c].todo \ {k} \subseteq Rates!Counters
    BY <1>2, RateCarried
  <2>2. (requests[c].over \/ o) \in BOOLEAN
    OBVIOUS
  <2> HIDE DEF e, o
  <2> QED
    BY <2>1, <2>2 DEF Rates!Work
<1>4. requests' = [requests EXCEPT ![c] = new]
  BY <1>2 DEF Rates!Count, Rates!TypeOK
<1>5. new.expire = e
  OBVIOUS
<1> HIDE DEF new
<1> QED
  BY <1>1, <1>2, <1>3, <1>4, <1>5 DEF Rates!TypeOK, Rates!ConstantsAssumption

\* Every action keeps the types.
LEMMA RateTypes == ASSUME Rates!ConstantsAssumption, Rates!IInv, Rates!Next PROVE Rates!TypeOK'
<1> USE DEF Rates!ConstantsAssumption, Rates!IInv, Rates!TypeOK
<1>1. CASE \E c \in Clients, check \in Checks : Rates!Start(c, check)
  BY <1>1, RateKeys DEF Rates!Start, Rates!Work
<1>2. CASE \E c \in Clients, k \in Rates!Counters : Rates!Count(c, k)
  BY <1>2, RateCount DEF Rates!Count
<1>3. CASE \E c \in Clients, k \in Rates!Counters : Rates!Expire(c, k)
  BY <1>3, RateKeys DEF Rates!Expire, Rates!Work
<1>4. CASE \E c \in Clients : Rates!Answer(c)
  BY <1>4 DEF Rates!Answer
<1>5. CASE \E c \in Clients : Rates!LoginSuccess(c)
  BY <1>5, RateKeys DEF Rates!LoginSuccess
<1>6. CASE \E k \in Rates!Counters : Rates!Tick(k)
  BY <1>6 DEF Rates!Tick
<1>7. CASE \E c \in Clients : Rates!Die(c)
  <2>1. PICK c \in Clients : Rates!Die(c)
    BY <1>7
  <2>2. requests[c].expire \subseteq Rates!Counters
    BY <2>1, RateCarried DEF Rates!Die
  <2> QED
    BY <2>1, <2>2 DEF Rates!Die
<1> QED
  BY <1>1, <1>2, <1>3, <1>4, <1>5, <1>6, <1>7 DEF Rates!Next, Rates!Step

\* A key is created by INCR, and its expiry and its history go with it.
LEMMA RateForgotten == ASSUME Rates!ConstantsAssumption, Rates!IInv, Rates!Next PROVE Rates!Forgotten'
<1> USE DEF Rates!ConstantsAssumption, Rates!IInv, Rates!TypeOK, Rates!Forgotten
<1>1. CASE \E c \in Clients, check \in Checks : Rates!Start(c, check)
  BY <1>1 DEF Rates!Start
<1>2. CASE \E c \in Clients, k \in Rates!Counters : Rates!Count(c, k)
  BY <1>2 DEF Rates!Count, Rates!Incremented
<1>3. CASE \E c \in Clients, k \in Rates!Counters : Rates!Expire(c, k)
  BY <1>3 DEF Rates!Expire
<1>4. CASE \E c \in Clients : Rates!Answer(c)
  BY <1>4 DEF Rates!Answer
<1>5. CASE \E c \in Clients : Rates!LoginSuccess(c)
  BY <1>5, RateKeys DEF Rates!LoginSuccess
<1>6. CASE \E k \in Rates!Counters : Rates!Tick(k)
  <2>1. PICK k \in Rates!Counters : Rates!Tick(k)
    BY <1>6
  <2>2. SUFFICES ASSUME NEW j \in Rates!Counters
                 PROVE  /\ count'[j] = 0 => ttl'[j] = 0
                        /\ j \in lost' => count'[j] > 0 /\ ttl'[j] = 0
    BY <2>2 DEF Rates!Forgotten
  <2>3. CASE j = k /\ ttl[k] = 1
    BY <2>1, <2>3 DEF Rates!Tick
  <2>4. CASE ~(j = k /\ ttl[k] = 1)
    BY <2>1, <2>2, <2>4 DEF Rates!Tick
  <2> QED
    BY <2>3, <2>4
<1>7. CASE \E c \in Clients : Rates!Die(c)
  BY <1>7 DEF Rates!Die
<1> QED
  BY <1>1, <1>2, <1>3, <1>4, <1>5, <1>6, <1>7 DEF Rates!Next, Rates!Step

\* Who creates a key owes it its expiry, until it is sent or lost.
LEMMA RateExpiry == ASSUME Rates!ConstantsAssumption, Rates!IInv, Rates!Next PROVE Rates!CountersExpire'
<1> USE DEF Rates!ConstantsAssumption, Rates!IInv, Rates!TypeOK, Rates!CountersExpire, Rates!Forgotten
<1>1. CASE \E c \in Clients, check \in Checks : Rates!Start(c, check)
  BY <1>1 DEF Rates!Start
<1>2. CASE \E c \in Clients, k \in Rates!Counters : Rates!Count(c, k)
  <2>1. PICK c \in Clients, k \in Rates!Counters : Rates!Count(c, k)
    BY <1>2
  <2>2. SUFFICES ASSUME NEW j \in Rates!Counters, count'[j] > 0, ttl'[j] = 0, j \notin lost'
                 PROVE  \E d \in Clients : requests'[d] # Idle /\ j \in requests'[d].expire
    BY <2>2 DEF Rates!CountersExpire
  <2>3. ttl' = ttl /\ lost' = lost
    BY <2>1 DEF Rates!Count
  <2>6. /\ \A i \in Rates!Counters \ {k} : count'[i] = count[i]
        /\ requests'[c] # Idle
        /\ requests'[c].expire = IF count'[k] = 1 THEN requests[c].expire \cup {k} ELSE requests[c].expire
        /\ count[k] = 0 => count'[k] = 1
    BY <2>1, RateCount
  <2>4. CASE count[j] = 0
    <3>1. j = k
      BY <2>2, <2>4, <2>6
    <3>2. k \in requests'[c].expire /\ requests'[c] # Idle
      BY <2>4, <2>6, <3>1
    <3> QED
      BY <3>1, <3>2
  <2>5. CASE count[j] > 0
    <3>1. PICK d \in Clients : requests[d] # Idle /\ j \in requests[d].expire
      BY <2>2, <2>3, <2>5
    <3> QED
      BY <2>1, <3>1, RateCount
  <2> QED
    BY <2>4, <2>5
<1>3. CASE \E c \in Clients, k \in Rates!Counters : Rates!Expire(c, k)
  <2>1. PICK c \in Clients, k \in Rates!Counters : Rates!Expire(c, k)
    BY <1>3
  <2>2. SUFFICES ASSUME NEW j \in Rates!Counters, count'[j] > 0, ttl'[j] = 0, j \notin lost'
                 PROVE  \E d \in Clients : requests'[d] # Idle /\ j \in requests'[d].expire
    BY <2>2 DEF Rates!CountersExpire
  <2>3. j # k
    BY <2>1, <2>2 DEF Rates!Expire
  <2>4. PICK d \in Clients : requests[d] # Idle /\ j \in requests[d].expire
    BY <2>1, <2>2, <2>3 DEF Rates!Expire
  <2>5. requests[c] \in Rates!Work
    BY <2>1 DEF Rates!Expire
  <2>6. requests'[c] = [requests[c] EXCEPT !.expire = requests[c].expire \ {k}]
    BY <2>1 DEF Rates!Expire
  <2>7. requests'[c].expire = requests[c].expire \ {k} /\ requests'[c] # Idle
    BY <2>5, <2>6, RateCarried, RateShrunk DEF Rates!Work
  <2> QED
    BY <2>1, <2>3, <2>4, <2>7 DEF Rates!Expire
<1>4. CASE \E c \in Clients : Rates!Answer(c)
  BY <1>4 DEF Rates!Answer, Rates!Answered
<1>5. CASE \E c \in Clients : Rates!LoginSuccess(c)
  BY <1>5, RateKeys DEF Rates!LoginSuccess, Rates!Answered
<1>6. CASE \E k \in Rates!Counters : Rates!Tick(k)
  BY <1>6 DEF Rates!Tick
<1>7. CASE \E c \in Clients : Rates!Die(c)
  BY <1>7 DEF Rates!Die
<1> QED
  BY <1>1, <1>2, <1>3, <1>4, <1>5, <1>6, <1>7 DEF Rates!Next, Rates!Step

LEMMA RateInit == ASSUME Rates!ConstantsAssumption, Rates!Init PROVE Rates!IInv
BY DEF Rates!ConstantsAssumption, Rates!Init, Rates!IInv, Rates!TypeOK, Rates!Forgotten, Rates!CountersExpire

LEMMA RateStutter == ASSUME Rates!IInv, UNCHANGED Rates!vars PROVE Rates!IInv'
BY DEF Rates!vars, Rates!IInv, Rates!TypeOK, Rates!Forgotten, Rates!CountersExpire

LEMMA RateStep == Rates!ConstantsAssumption /\ Rates!IInv /\ [Rates!Next]_(Rates!vars) => Rates!IInv'
BY RateTypes, RateForgotten, RateExpiry, RateStutter DEF Rates!IInv

\* The inductive invariant holds in every reachable state.
THEOREM RateInvariance == ASSUME Rates!ConstantsAssumption PROVE Rates!Spec => []Rates!IInv
<1>1. Rates!Init => Rates!IInv
  BY Rates!ConstantsAssumption, RateInit
<1>2. Rates!IInv /\ [Rates!Next]_(Rates!vars) => Rates!IInv'
  BY Rates!ConstantsAssumption, RateStep
<1> QED
  BY <1>1, <1>2, PTL DEF Rates!Spec

\* No counter is left without an expiry, lost EXPIREs aside.
THEOREM RateCountersExpire == ASSUME Rates!ConstantsAssumption PROVE Rates!Spec => []Rates!CountersExpire
<1>1. Rates!Spec => []Rates!IInv
  BY Rates!ConstantsAssumption, RateInvariance
<1>2. Rates!IInv => Rates!CountersExpire
  BY DEF Rates!IInv
<1> QED
  BY <1>1, <1>2, PTL

-----------------------------------------------------------------------------
(* The address book, for any number of requests and any limit.              *)

LEMMA BookSize ==
    \A S : Book!Cardinality(S) = Cardinality(S) /\ (Book!IsFiniteSet(S) <=> IsFiniteSet(S))
BY DEF Book!Cardinality, Cardinality, Book!IsFiniteSet, IsFiniteSet

\* What a request in progress is.
LEMMA EditCarried ==
    ASSUME NEW k \in Book!Work
    PROVE  /\ k.id \in Addresses /\ k.entity \in {"plain", "default"}
           /\ k.op \in {"clear", "save", "insert", "update", "remove"}
           /\ \A op \in {"clear", "save", "insert", "update", "remove"} :
                 [k EXCEPT !.op = op] \in Book!Work
BY DEF Book!Work

\* What a new request is: the default is cleared first, but by an edit of the
\* default itself.
BookAdmits(w, id) ==
    /\ edits[w] = Idle /\ row' = row
    /\ overlapped' = (overlapped \/ Book!Busy # {})
    /\ id \in Book!Rows \/ Cardinality(Book!Rows) < MaxAddresses
    /\ \E op \in {"clear", "save", "remove"}, entity \in {"plain", "default"} :
         /\ edits' = [edits EXCEPT ![w] = [op |-> op, id |-> id, entity |-> entity]]
         /\ op = "save" /\ entity = "default" => row[id] = "default"

LEMMA BookRequest ==
    ASSUME Book!ConstantsAssumption, Book!TypeOK, NEW w \in Workers, NEW id \in Addresses,
           Book!Request(w, id)
    PROVE  BookAdmits(w, id)
<1>1. CASE Book!Update(w, id)
  <2>1. row[id] \in {"plain", "default"}
    BY <1>1 DEF Book!Update, Book!Rows, Book!TypeOK
  <2>2. CASE Book!Begin(w, "save", id, row[id])
    BY <1>1, <2>1, <2>2 DEF Book!Update, Book!Begin, Book!Saving, Book!Entity, BookAdmits
  <2>3. CASE Book!Begin(w, "clear", id, "default") \/ Book!Begin(w, "save", id, "plain")
    BY <1>1, <2>3 DEF Book!Update, Book!Begin, BookAdmits
  <2>4. \A default \in BOOLEAN :
           \/ Book!Saving(default) = "clear" /\ Book!Entity(default) = "default"
           \/ Book!Saving(default) = "save" /\ Book!Entity(default) = "plain"
    BY DEF Book!Saving, Book!Entity
  <2>5. ASSUME NEW default \in BOOLEAN,
               Book!Begin(w, Book!Saving(default), id, Book!Entity(default))
        PROVE  Book!Begin(w, "clear", id, "default") \/ Book!Begin(w, "save", id, "plain")
    <3>1. CASE Book!Saving(default) = "clear" /\ Book!Entity(default) = "default"
      BY <2>5, <3>1, Zenon
    <3>2. CASE Book!Saving(default) = "save" /\ Book!Entity(default) = "plain"
      BY <2>5, <3>2, Zenon
    <3> QED
      BY <2>4, <3>1, <3>2, Zenon
  <2> QED
    BY <1>1, <2>2, <2>3, <2>5, Zenon DEF Book!Update
<1>2. CASE Book!SetDefault(w, id)
  BY <1>2 DEF Book!SetDefault, Book!Begin, Book!Saving, Book!Entity, BookAdmits
<1>3. CASE Book!Remove(w, id)
  <2>1. row[id] \in {"plain", "default"}
    BY <1>3 DEF Book!Remove, Book!Rows, Book!TypeOK
  <2> QED
    BY <1>3, <2>1 DEF Book!Remove, Book!Begin, Book!Saving, Book!Entity, BookAdmits
<1>4. CASE \E default \in BOOLEAN : Book!Create(w, id, default)
  <2>1. PICK default \in BOOLEAN : Book!Create(w, id, default)
    BY <1>4
  <2>2. Cardinality(Book!Rows) < MaxAddresses
    BY <2>1, BookSize DEF Book!Create
  <2>3. CASE default
    BY <2>1, <2>2, <2>3 DEF Book!Create, Book!Begin, Book!Saving, Book!Entity, BookAdmits
  <2>4. CASE ~default
    BY <2>1, <2>2, <2>4 DEF Book!Create, Book!Begin, Book!Saving, Book!Entity, BookAdmits
  <2> QED
    BY <2>3, <2>4
<1> QED
  BY <1>1, <1>2, <1>3, <1>4 DEF Book!Request

LEMMA BookTypes ==
    ASSUME Book!ConstantsAssumption, Book!TypeOK, [Book!Next]_(Book!vars) PROVE Book!TypeOK'
<1> USE DEF Book!ConstantsAssumption, Book!TypeOK
<1>1. ASSUME NEW w \in Workers, NEW id \in Addresses, Book!Request(w, id) PROVE Book!TypeOK'
  <2>1. BookAdmits(w, id)
    BY <1>1, BookRequest
  <2>2. overlapped' \in BOOLEAN
    BY <2>1 DEF BookAdmits
  <2>3. edits' \in [Workers -> Book!Work \cup {Idle}]
    BY <2>1 DEF BookAdmits, Book!Work
  <2> QED
    BY <2>1, <2>2, <2>3 DEF BookAdmits
<1>2. ASSUME NEW w \in Workers, Book!Clear(w) PROVE Book!TypeOK'
  <2>1. edits[w] \in Book!Work /\ edits' = [edits EXCEPT ![w] = [edits[w] EXCEPT !.op = "save"]]
    BY <1>2 DEF Book!Clear, Book!Doing
  <2>2. [edits[w] EXCEPT !.op = "save"] \in Book!Work
    BY <2>1, EditCarried
  <2> QED
    BY <1>2, <2>1, <2>2 DEF Book!Clear
<1>3. ASSUME NEW w \in Workers, Book!Save(w) PROVE Book!TypeOK'
  <2>1. edits[w] \in Book!Work
    BY <1>3 DEF Book!Save, Book!Doing
  <2>2. \E k \in Book!Work \cup {Idle} : edits' = [edits EXCEPT ![w] = k]
    BY <1>3, <2>1, EditCarried DEF Book!Save
  <2> QED
    BY <1>3, <2>2 DEF Book!Save
<1>4. ASSUME NEW w \in Workers, Book!SaveWrite(w) PROVE Book!TypeOK'
  <2>1. edits[w] \in Book!Work
    BY <1>4 DEF Book!SaveWrite, Book!Doing
  <2> QED
    BY <1>4, <2>1, EditCarried DEF Book!SaveWrite
<1>5. ASSUME NEW w \in Workers, Book!Delete(w) \/ Book!Fail(w) PROVE Book!TypeOK'
  BY <1>5 DEF Book!Delete, Book!Fail
<1>6. CASE UNCHANGED Book!vars
  BY <1>6 DEF Book!vars
<1> QED
  BY <1>1, <1>2, <1>3, <1>4, <1>5, <1>6 DEF Book!Next

\* A row or a prospect comes only from a request that counted the rows, or
\* from one whose address was a row; the others write what they were to write.
LEMMA ProspectsStep ==
    ASSUME Book!ConstantsAssumption, Book!BookInv, [Book!Next]_(Book!vars)
    PROVE  Book!FewProspects'
<1> USE DEF Book!ConstantsAssumption, Book!BookInv
<1> DEFINE P == Book!Prospects
<1>1. SUFFICES \/ P' \subseteq P
               \/ /\ Cardinality(Book!Rows) < MaxAddresses
                  /\ P' \subseteq Book!Rows \cup {edits'[w].id : w \in Workers}
  <2>1. IsFiniteSet(P) /\ Cardinality(P) < MaxAddresses + Cardinality(Workers)
    BY BookSize DEF Book!FewProspects
  <2>2. IsFiniteSet(Workers) /\ Cardinality(Workers) \in Nat
    BY BookSize, FS_CardinalityType
  <2>3. SUFFICES IsFiniteSet(P') /\ Cardinality(P') < MaxAddresses + Cardinality(Workers)
    BY BookSize DEF Book!FewProspects
  <2>4. CASE P' \subseteq P
    <3>1. IsFiniteSet(P') /\ Cardinality(P') <= Cardinality(P)
      BY <2>1, <2>4, FS_Subset
    <3>2. Cardinality(P) \in Nat /\ Cardinality(P') \in Nat
      BY <2>1, <3>1, FS_CardinalityType
    <3> HIDE DEF P
    <3> QED
      BY <2>1, <2>2, <3>1, <3>2
  <2>5. CASE /\ Cardinality(Book!Rows) < MaxAddresses
             /\ P' \subseteq Book!Rows \cup {edits'[w].id : w \in Workers}
    <3> DEFINE I == {edits'[w].id : w \in Workers}
               R == Book!Rows
    <3>1. IsFiniteSet(I) /\ Cardinality(I) <= Cardinality(Workers)
      <4> DEFINE f == [w \in Workers |-> edits'[w].id]
      <4>1. f \in Surjection(Workers, I)
        BY DEF Surjection
      <4> HIDE DEF f, I
      <4> QED
        BY <2>2, <4>1, FS_Surjection
    <3>2. IsFiniteSet(R)
      <4>1. R \subseteq P
        BY DEF Book!Prospects
      <4> HIDE DEF R, P
      <4> QED
        BY <2>1, <4>1, FS_Subset
    <3> HIDE DEF I, R, P
    <3>3. /\ IsFiniteSet(R \cup I)
          /\ Cardinality(R \cup I) = Cardinality(R) + Cardinality(I) - Cardinality(R \cap I)
      BY <3>1, <3>2, FS_Union
    <3>4. IsFiniteSet(R \cap I)
      BY <3>1, <3>2, FS_Intersection
    <3>5. P' \subseteq R \cup I /\ Cardinality(R) < MaxAddresses
      BY <2>5 DEF R, I, P
    <3>6. IsFiniteSet(P') /\ Cardinality(P') <= Cardinality(R \cup I)
      BY <3>3, <3>5, FS_Subset
    <3>7. /\ Cardinality(P') \in Nat /\ Cardinality(R \cup I) \in Nat
          /\ Cardinality(R) \in Nat /\ Cardinality(I) \in Nat /\ Cardinality(R \cap I) \in Nat
      BY <3>1, <3>2, <3>3, <3>4, <3>6, FS_CardinalityType
    <3> QED
      BY <2>2, <3>1, <3>3, <3>5, <3>6, <3>7
  <2> QED
    BY <1>1, <2>4, <2>5
<1> USE DEF Book!TypeOK, Book!Prospects, Book!Rows, Book!Busy
<1>2. ASSUME NEW w \in Workers, NEW id \in Addresses, Book!Request(w, id)
      PROVE  \/ P' \subseteq P
             \/ /\ Cardinality(Book!Rows) < MaxAddresses
                /\ P' \subseteq Book!Rows \cup {edits'[v].id : v \in Workers}
  <2>1. BookAdmits(w, id)
    BY <1>2, BookRequest
  <2>2. row' = row /\ (id \in Book!Rows \/ Cardinality(Book!Rows) < MaxAddresses)
    BY <2>1 DEF BookAdmits
  <2>3. edits'[w].id = id /\ \A v \in Workers \ {w} : edits'[v] = edits[v]
    BY <2>1 DEF BookAdmits
  <2>4. CASE id \in Book!Rows
    BY <2>2, <2>3, <2>4
  <2>5. CASE Cardinality(Book!Rows) < MaxAddresses
    BY <2>2, <2>5
  <2> QED
    BY <2>2, <2>4, <2>5
<1>3. ASSUME NEW w \in Workers, Book!Clear(w) PROVE P' \subseteq P
  <2>1. edits[w] \in Book!Work /\ edits[w].op = "clear" /\ edits[w] # Idle
    BY <1>3 DEF Book!Clear, Book!Doing
  <2>2. edits'[w] = [edits[w] EXCEPT !.op = "save"] /\ \A v \in Workers \ {w} : edits'[v] = edits[v]
    BY <1>3 DEF Book!Clear
  <2>3. edits'[w].id = edits[w].id
    BY <2>1, <2>2 DEF Book!Work
  <2>4. Book!Rows' = Book!Rows
    BY <1>3 DEF Book!Clear
  <2>5. ASSUME NEW v \in Workers, edits'[v] # Idle, edits'[v].op \in {"clear", "save", "insert"}
        PROVE  edits'[v].id \in {edits[u].id : u \in {x \in Book!Busy : edits[x].op \in {"clear", "save", "insert"}}}
    BY <2>1, <2>2, <2>3, <2>5
  <2> QED
    BY <2>4, <2>5
<1>4. ASSUME NEW w \in Workers, Book!Save(w) PROVE P' \subseteq P
  <2>1. edits[w] \in Book!Work /\ edits[w].op = "save" /\ edits[w] # Idle
    BY <1>4 DEF Book!Save, Book!Doing
  <2>2. row' = row /\ \A v \in Workers \ {w} : edits'[v] = edits[v]
    BY <1>4 DEF Book!Save
  <2>3. edits'[w] = Idle \/ edits'[w].id = edits[w].id
    BY <1>4, <2>1 DEF Book!Save, Book!Work
  <2> QED
    BY <2>1, <2>2, <2>3
<1>5. ASSUME NEW w \in Workers, Book!SaveWrite(w) PROVE P' \subseteq P
  <2>1. edits[w] \in Book!Work /\ edits[w] # Idle
    BY <1>5 DEF Book!SaveWrite, Book!Doing
  <2>2. edits'[w] = Idle /\ \A v \in Workers \ {w} : edits'[v] = edits[v]
    BY <1>5 DEF Book!SaveWrite
  <2>3. \A a \in Addresses :
           row'[a] # "none" => row[a] # "none" \/ (a = edits[w].id /\ edits[w].op = "insert")
    BY <1>5, <2>1 DEF Book!SaveWrite, Book!Doing
  <2> QED
    BY <2>1, <2>2, <2>3
<1>6. ASSUME NEW w \in Workers, Book!Delete(w) \/ Book!Fail(w) PROVE P' \subseteq P
  <2>1. edits'[w] = Idle /\ \A v \in Workers \ {w} : edits'[v] = edits[v]
    BY <1>6 DEF Book!Delete, Book!Fail
  <2>2. \A a \in Addresses : row'[a] # "none" => row[a] # "none"
    BY <1>6 DEF Book!Delete, Book!Fail
  <2> QED
    BY <2>1, <2>2
<1>7. CASE UNCHANGED Book!vars
  BY <1>7 DEF Book!vars
<1> HIDE DEF P
<1> QED
  BY <1>2, <1>3, <1>4, <1>5, <1>6, <1>7 DEF Book!Next

LEMMA BookStart ==
    ASSUME Book!ConstantsAssumption, Book!Init
    PROVE  Book!BookInv /\ Book!DefaultInv
<1> USE DEF Book!ConstantsAssumption, Book!Init
<1>1. Book!TypeOK
  BY DEF Book!TypeOK
<1>2. Book!Busy = {} /\ Book!Rows = {} /\ Book!Defaults = {}
  BY DEF Book!Busy, Book!Rows, Book!Defaults
<1>3. Book!FewProspects
  <2>1. Book!Prospects = {}
    BY <1>2 DEF Book!Prospects
  <2>2. IsFiniteSet({}) /\ Cardinality({}) = 0 /\ Cardinality(Workers) \in Nat
    BY BookSize, FS_EmptySet, FS_CardinalityType
  <2> QED
    BY <2>1, <2>2, BookSize DEF Book!FewProspects
<1>4. Book!SoleDefault
  BY <1>2 DEF Book!SoleDefault
<1> QED
  BY <1>1, <1>3, <1>4 DEF Book!BookInv, Book!DefaultInv

\* A default that is chosen alone is the only one; a request that begins later
\* either finds nobody or leaves its mark.
LEMMA DefaultStep ==
    ASSUME Book!ConstantsAssumption, Book!DefaultInv, [Book!Next]_(Book!vars)
    PROVE  Book!SoleDefault'
<1> USE DEF Book!ConstantsAssumption, Book!DefaultInv, Book!TypeOK, Book!SoleDefault
<1> SUFFICES ASSUME ~overlapped'
             PROVE  /\ \A v, w \in Book!Busy' : v = w
                    /\ \A a, b \in Book!Defaults' : a = b
                    /\ \A w \in Book!Busy' :
                          edits'[w].op \in {"save", "insert", "update"} /\ edits'[w].entity = "default"
                             => Book!Defaults' \subseteq {edits'[w].id}
  OBVIOUS
<1> USE DEF Book!Busy, Book!Defaults
<1>1. ASSUME NEW w \in Workers, NEW id \in Addresses, Book!Request(w, id) PROVE Book!SoleDefault'
  <2>1. BookAdmits(w, id)
    BY <1>1, BookRequest
  <2>2. Book!Busy = {} /\ ~overlapped /\ row' = row
    BY <2>1 DEF BookAdmits
  <2>3. PICK op \in {"clear", "save", "remove"}, entity \in {"plain", "default"} :
           /\ edits' = [edits EXCEPT ![w] = [op |-> op, id |-> id, entity |-> entity]]
           /\ op = "save" /\ entity = "default" => row[id] = "default"
    BY <2>1 DEF BookAdmits
  <2>4. edits'[w] = [op |-> op, id |-> id, entity |-> entity]
    BY <2>3
  <2>5. Book!Busy' \subseteq {w}
    BY <2>2, <2>3
  <2>6. op = "save" /\ entity = "default" => Book!Defaults \subseteq {id}
    BY <2>2, <2>3
  <2> QED
    BY <2>2, <2>4, <2>5, <2>6
<1>2. ASSUME NEW w \in Workers, Book!Clear(w) PROVE Book!SoleDefault'
  <2>1. Book!Busy = {w}
    BY <1>2 DEF Book!Clear
  <2>2. Book!Defaults' = {} /\ \A v \in Workers \ {w} : edits'[v] = edits[v]
    BY <1>2 DEF Book!Clear
  <2>3. Book!Busy' \subseteq {w}
    BY <2>1, <2>2
  <2> QED
    BY <2>2, <2>3
<1>3. ASSUME NEW w \in Workers, Book!Save(w) PROVE Book!SoleDefault'
  <2>1. edits[w] \in Book!Work /\ edits[w].op = "save" /\ edits[w] # Idle
    BY <1>3 DEF Book!Save, Book!Doing
  <2>2. row' = row /\ ~overlapped /\ \A v \in Workers \ {w} : edits'[v] = edits[v]
    BY <1>3 DEF Book!Save
  <2>3. edits'[w] = Idle \/ (edits'[w].id = edits[w].id /\ edits'[w].entity = edits[w].entity)
    BY <1>3, <2>1 DEF Book!Save, Book!Work
  <2>4. Book!Busy = {w} /\ Book!Busy' \subseteq {w}
    BY <2>1, <2>2
  <2> QED
    BY <2>1, <2>2, <2>3, <2>4
<1>4. ASSUME NEW w \in Workers, Book!SaveWrite(w) PROVE Book!SoleDefault'
  <2>1. edits[w] \in Book!Work /\ edits[w].op \in {"insert", "update"} /\ edits[w] # Idle
    BY <1>4 DEF Book!SaveWrite, Book!Doing
  <2>2. ~overlapped /\ edits' = [edits EXCEPT ![w] = Idle]
    BY <1>4 DEF Book!SaveWrite
  <2>3. Book!Busy' = {}
    BY <2>1, <2>2
  <2>4. \A a \in Addresses : row'[a] = "default"
           => row[a] = "default" \/ (a = edits[w].id /\ edits[w].entity = "default")
    BY <1>4, <2>1 DEF Book!SaveWrite
  <2>5. edits[w].entity = "default" => Book!Defaults \subseteq {edits[w].id}
    BY <2>1, <2>2
  <2> QED
    BY <2>2, <2>3, <2>4, <2>5
<1>5. ASSUME NEW w \in Workers, Book!Delete(w) \/ Book!Fail(w) PROVE Book!SoleDefault'
  <2>1. edits' = [edits EXCEPT ![w] = Idle] /\ ~overlapped
    BY <1>5 DEF Book!Delete, Book!Fail
  <2>2. Book!Busy' \subseteq Book!Busy \ {w} /\ \A v \in Book!Busy' : edits'[v] = edits[v]
    BY <2>1
  <2>3. Book!Defaults' \subseteq Book!Defaults
    BY <1>5 DEF Book!Delete, Book!Fail
  <2> QED
    BY <2>1, <2>2, <2>3
<1>6. CASE UNCHANGED Book!vars
  BY <1>6 DEF Book!vars
<1> QED
  BY <1>1, <1>2, <1>3, <1>4, <1>5, <1>6 DEF Book!Next

\* The inductive invariants of the address book hold in every reachable state.
THEOREM BookInvariance ==
    ASSUME Book!ConstantsAssumption PROVE Book!Spec => [](Book!BookInv /\ Book!DefaultInv)
<1>1. Book!Init => Book!BookInv /\ Book!DefaultInv
  BY Book!ConstantsAssumption, BookStart
<1>2. Book!BookInv /\ Book!DefaultInv /\ [Book!Next]_(Book!vars)
         => (Book!BookInv /\ Book!DefaultInv)'
  <2> SUFFICES ASSUME Book!BookInv, Book!DefaultInv, [Book!Next]_(Book!vars)
               PROVE  Book!BookInv' /\ Book!DefaultInv'
    OBVIOUS
  <2>1. Book!TypeOK'
    BY Book!ConstantsAssumption, BookTypes DEF Book!BookInv
  <2>2. Book!FewProspects'
    BY Book!ConstantsAssumption, ProspectsStep
  <2>3. Book!SoleDefault'
    BY Book!ConstantsAssumption, DefaultStep
  <2> QED
    BY <2>1, <2>2, <2>3 DEF Book!BookInv, Book!DefaultInv
<1>3. QED
  BY <1>1, <1>2, PTL DEF Book!Spec

\* What the invariants say of a state.
LEMMA BookBounds ==
    ASSUME Book!ConstantsAssumption, Book!BookInv, Book!DefaultInv
    PROVE  Book!BoundedOverrun /\ Book!OneDefault
<1> USE DEF Book!ConstantsAssumption
<1>1. Book!BoundedOverrun
  <2> DEFINE R == Book!Rows
             P == Book!Prospects
  <2>1. IsFiniteSet(P) /\ Cardinality(P) < MaxAddresses + Cardinality(Workers)
    BY BookSize DEF Book!BookInv, Book!FewProspects
  <2>2. R \in SUBSET P
    BY DEF Book!Prospects
  <2>3. IsFiniteSet(Workers)
    BY BookSize
  <2>4. Cardinality(R) < MaxAddresses + Cardinality(Workers)
    <3> HIDE DEF R, P
    <3>1. IsFiniteSet(R) /\ Cardinality(R) <= Cardinality(P)
      BY <2>1, <2>2, FS_Subset
    <3>2. Cardinality(R) \in Nat /\ Cardinality(P) \in Nat /\ Cardinality(Workers) \in Nat
      BY <2>1, <2>3, <3>1, FS_CardinalityType
    <3> QED
      BY <2>1, <3>1, <3>2
  <2> QED
    BY <2>4, BookSize DEF Book!BoundedOverrun
<1>2. Book!OneDefault
  <2>1. CASE Book!Defaults = {}
    BY <2>1, BookSize, FS_EmptySet DEF Book!OneDefault
  <2>2. CASE ~overlapped /\ Book!Defaults # {}
    <3>1. PICK a \in Book!Defaults : Book!Defaults = {a}
      BY <2>2 DEF Book!DefaultInv, Book!SoleDefault
    <3>2. Cardinality({a}) = 1
      BY FS_Singleton
    <3> QED
      BY <3>1, <3>2, BookSize DEF Book!OneDefault
  <2> QED
    BY <2>1, <2>2 DEF Book!OneDefault
<1> QED
  BY <1>1, <1>2

\* What MCParts does when it runs the address book, or does not, the address
\* book may do.
LEMMA PartsBook == PartsSpec => Book!Spec
<1>1. PartsInit => Book!Init
  BY DEF PartsInit
<1>2. [PartsNext]_partsVars => [Book!Next]_(Book!vars)
  BY DEF PartsNext, RelayNext, LoginNext, GatewayNext, BookNext, MailNext, partsVars,
         bookVars, Book!vars
<1> QED
  BY <1>1, <1>2, PTL DEF PartsSpec, Book!Spec

\* However the requests of a user interleave, fail and write their copies back,
\* there are fewer addresses than the limit and the number of requests at a time.
THEOREM LimitOverrun == PartsSpec => []BoundedOverrun
<1>1. Book!BookInv /\ Book!DefaultInv => BoundedOverrun
  BY PartsAssumption, BookBounds DEF BoundedOverrun
<1>2. Book!Spec => [](Book!BookInv /\ Book!DefaultInv)
  BY PartsAssumption, BookInvariance
<1> QED
  BY <1>1, <1>2, PartsBook, PTL

\* There is one default, unless requests overlapped since it was chosen.
THEOREM SingleDefault == PartsSpec => []OneDefault
<1>1. Book!BookInv /\ Book!DefaultInv => OneDefault
  BY PartsAssumption, BookBounds DEF OneDefault
<1>2. Book!Spec => [](Book!BookInv /\ Book!DefaultInv)
  BY PartsAssumption, BookInvariance
<1> QED
  BY <1>1, <1>2, PartsBook, PTL

-----------------------------------------------------------------------------
(* The mails, for any number of events, deaths and errors.                  *)

\* A job of the queue.
LEMMA JobCarried ==
    ASSUME NEW j \in Mail!Job
    PROVE  /\ j.event \in Mail!Notices /\ j.again \in BOOLEAN /\ j.sent \in BOOLEAN
           /\ [j EXCEPT !.sent = TRUE] \in Mail!Job
BY DEF Mail!Job

LEMMA MailTypes ==
    ASSUME Mail!ConstantsAssumption, Mail!MailInv, [Mail!Next]_(Mail!vars)
    PROVE  Mail!TypeOK' /\ Mail!Position'
<1> USE DEF Mail!ConstantsAssumption, Mail!MailInv, Mail!TypeOK, Mail!Position,
            Mail!consumer, Mail!queue, Mail!history
<1> DEFINE G == Mail!TypeOK' /\ Mail!Position'
<1>1. CASE Mail!Publish
  BY <1>1 DEF Mail!Publish
<1>2. CASE Mail!Start
  <2>1. 1 .. emitted \subseteq Mail!Notices
    BY DEF Mail!Notices
  <2> QED
    BY <1>2, <2>1 DEF Mail!Start, Mail!Resume
<1>3. ASSUME NEW e \in Mail!Notices, Mail!Enqueue(e) PROVE G
  BY <1>3 DEF Mail!Enqueue, Mail!Handled
<1>4. ASSUME NEW e \in Mail!Notices, Mail!RenderFails(e) \/ Mail!EnqueueFails(e) PROVE G
  <2>1. /\ UNCHANGED <<emitted, up, next, committed, waiting, stalled, active, mails, crashes>>
        /\ up /\ next <= emitted /\ handled' = TRUE /\ rejections' = rejections
    BY <1>4 DEF Mail!RenderFails, Mail!EnqueueFails, Mail!Handled
  <2>2. errors' \in 0 .. MaxErrors
    BY <1>4 DEF Mail!RenderFails, Mail!EnqueueFails
  <2>3. dropped' \subseteq Mail!Notices
    BY <1>4 DEF Mail!RenderFails, Mail!EnqueueFails
  <2> QED
    BY <2>1, <2>2, <2>3
<1>5. CASE Mail!Commit
  <2>1. /\ UNCHANGED <<emitted, up, waiting, stalled, active, mails, crashes, errors, dropped>>
        /\ handled /\ handled' = FALSE /\ next' = next + 1 /\ committed' = next + 1
        /\ rejections' = rejections
    BY <1>5 DEF Mail!Commit, Mail!Committing
  <2>2. next' \in 1 .. LastEvent + 1 /\ committed' = next'
    BY <2>1
  <2>3. Mail!TypeOK'
    BY <2>1, <2>2
  <2>4. Mail!Position'
    BY <2>1, <2>2
  <2> QED
    BY <2>3, <2>4
<1>6. ASSUME NEW e \in Mail!Notices, Mail!Take(e) PROVE G
  <2>1. \A b \in BOOLEAN : [event |-> e, again |-> b, sent |-> FALSE] \in Mail!Job
    BY DEF Mail!Job
  <2>2. active' \in Mail!Job
    BY <1>6, <2>1 DEF Mail!Take
  <2>3. waiting' \in [Mail!Notices -> Nat] /\ stalled' \in [Mail!Notices -> Nat]
    BY <1>6 DEF Mail!Take
  <2>4. /\ UNCHANGED <<emitted, next, handled, committed, up, mails, crashes, errors, dropped>>
        /\ rejections' = rejections
    BY <1>6 DEF Mail!Take
  <2> QED
    BY <2>2, <2>3, <2>4
<1>7. CASE Mail!Send
  BY <1>7, JobCarried DEF Mail!Send, Mail!Working
<1>8. CASE Mail!Complete
  BY <1>8 DEF Mail!Complete
<1>9. CASE Mail!SendFails
  <2>1. /\ UNCHANGED <<emitted, up, next, handled, committed, waiting, stalled, mails, crashes>>
        /\ active' = None /\ rejections' = rejections
    BY <1>9 DEF Mail!SendFails
  <2>2. errors' \in 0 .. MaxErrors
    BY <1>9 DEF Mail!SendFails
  <2>3. dropped' \subseteq Mail!Notices
    <3>1. active.event \in Mail!Notices
      BY <1>9, JobCarried DEF Mail!SendFails, Mail!Working
    <3>2. dropped' \subseteq dropped \cup {active.event}
      BY <1>9 DEF Mail!SendFails
    <3> QED
      BY <3>1, <3>2
  <2> QED
    BY <2>1, <2>2, <2>3
<1>10. CASE Mail!Crash
  <2>1. stalled' \in [Mail!Notices -> Nat]
    <3>1. CASE active # None /\ ~active.again
      <4>1. active.event \in Mail!Notices /\ stalled' = [stalled EXCEPT ![active.event] = @ + 1]
        BY <1>10, <3>1, JobCarried DEF Mail!Crash
      <4> QED
        BY <4>1
    <3>2. CASE ~(active # None /\ ~active.again)
      BY <1>10, <3>2 DEF Mail!Crash
    <3> QED
      BY <3>1, <3>2
  <2>2. dropped' \subseteq Mail!Notices
    BY <1>10, JobCarried DEF Mail!Crash
  <2>3. /\ UNCHANGED <<emitted, next, committed, waiting, mails, errors>>
        /\ up' = FALSE /\ handled' = FALSE /\ active' = None /\ crashes' \in 0 .. MaxCrashes
        /\ rejections' = rejections
    BY <1>10 DEF Mail!Crash
  <2> QED
    BY <2>1, <2>2, <2>3
<1>11. CASE Mail!CommitFails
  <2>1. /\ UNCHANGED <<emitted, up, waiting, stalled, active, mails, crashes, errors>>
        /\ up /\ handled /\ handled' = FALSE /\ rejections' \in 0 .. MaxRejections
        /\ committed' \in {committed, next + 1}
        /\ (next' = next /\ dropped' = dropped) \/ Mail!Resume(committed', next + 1)
    BY <1>11 DEF Mail!CommitFails
  <2>2. next <= emitted /\ next + 1 .. emitted \subseteq Mail!Notices
    BY <2>1 DEF Mail!Notices
  <2>3. committed' \in 1 .. LastEvent + 1 \cup {None}
    BY <2>1, <2>2
  <2>4. /\ next' \in 1 .. LastEvent + 1 /\ dropped' \subseteq Mail!Notices
        /\ committed' # None => committed' >= next'
    <3>1. CASE next' = next /\ dropped' = dropped
      BY <2>1, <2>2, <3>1
    <3>2. CASE Mail!Resume(committed', next + 1) /\ committed' = None
      BY <2>1, <2>2, <3>2 DEF Mail!Resume
    <3>3. CASE Mail!Resume(committed', next + 1) /\ committed' # None
      BY <2>3, <3>3 DEF Mail!Resume
    <3> QED
      BY <2>1, <3>1, <3>2, <3>3
  <2> QED
    BY <2>1, <2>3, <2>4
<1>12. CASE UNCHANGED Mail!vars
  BY <1>12 DEF Mail!vars
<1> QED
  BY <1>1, <1>2, <1>3, <1>4, <1>5, <1>6, <1>7, <1>8, <1>9, <1>10, <1>11, <1>12
     DEF Mail!Next, Mail!Consume, Mail!Work

\* A death adds at most a job, the one it interrupts, and a reading of the event,
\* whose offset it leaves uncommitted, and a rejected commit adds such a reading;
\* anything else moves a mail on or drops it.
LEMMA MailStep ==
    ASSUME Mail!ConstantsAssumption, Mail!MailInv, [Mail!Next]_(Mail!vars)
    PROVE  Mail!FewJobs'
<1> USE DEF Mail!ConstantsAssumption, Mail!MailInv, Mail!TypeOK,
            Mail!consumer, Mail!queue, Mail!history, Mail!Repeats
<1> SUFFICES ASSUME NEW i \in Mail!Notices
             PROVE  mails'[i] + waiting'[i] + stalled'[i] + Mail!Underway(i)' + Mail!Ahead(i)'
                       <= 1 + Mail!Repeats'
  BY DEF Mail!FewJobs
<1> DEFINE u == Mail!Underway(i)
           a == Mail!Ahead(i)
           T == mails[i] + waiting[i] + stalled[i] + u + a
<1>0. /\ T <= 1 + Mail!Repeats
      /\ mails[i] \in Nat /\ waiting[i] \in Nat /\ stalled[i] \in Nat /\ crashes \in Nat
      /\ rejections \in Nat
      /\ u \in {0, 1} /\ a \in {0, 1} /\ u' \in {0, 1} /\ a' \in {0, 1}
      /\ i \in Nat /\ next \in Nat
  BY DEF Mail!FewJobs, Mail!Underway, Mail!Ahead, Mail!Notices
<1> DEFINE Less == /\ mails'[i] + waiting'[i] + stalled'[i] + u' + a' <= T
                   /\ crashes' = crashes /\ rejections' = rejections
           Good == mails'[i] + waiting'[i] + stalled'[i] + u' + a' <= 1 + Mail!Repeats'
<1>1. ASSUME Mail!Publish PROVE Less
  BY <1>0, <1>1 DEF Mail!Publish, Mail!Underway, Mail!Ahead
<1>2. ASSUME Mail!Start PROVE Less
  BY <1>0, <1>2 DEF Mail!Start, Mail!Resume, Mail!Underway, Mail!Ahead
<1>3. ASSUME NEW e \in Mail!Notices, Mail!Enqueue(e) PROVE Less
  <2>1. /\ rejections' = rejections
        /\ mails' = mails /\ stalled' = stalled /\ active' = active /\ crashes' = crashes /\ rejections' = rejections
        /\ next' = next /\ up' = up /\ up /\ ~handled /\ handled' /\ next = e
        /\ waiting' = [waiting EXCEPT ![e] = @ + 1]
    BY <1>3 DEF Mail!Enqueue, Mail!Handled
  <2>2. u' = u
    BY <2>1 DEF Mail!Underway
  <2>3. CASE i = e
    <3>1. a = 1 /\ a' = 0 /\ waiting'[i] = waiting[i] + 1
      BY <1>0, <2>1, <2>3 DEF Mail!Ahead
    <3> HIDE DEF u, a
    <3> QED
      BY <1>0, <2>1, <2>2, <3>1
  <2>4. CASE i # e
    <3>1. a = a' /\ waiting'[i] = waiting[i]
      BY <1>0, <2>1, <2>4 DEF Mail!Ahead
    <3> HIDE DEF u, a
    <3> QED
      BY <1>0, <2>1, <2>2, <3>1
  <2> QED
    BY <2>3, <2>4
<1>4. ASSUME NEW e \in Mail!Notices, Mail!RenderFails(e) \/ Mail!EnqueueFails(e) PROVE Less
  <2>1. /\ rejections' = rejections
        /\ mails' = mails /\ stalled' = stalled /\ active' = active /\ crashes' = crashes /\ rejections' = rejections
        /\ next' = next /\ up' = up /\ handled' /\ waiting' = waiting
    BY <1>4 DEF Mail!RenderFails, Mail!EnqueueFails, Mail!Handled
  <2>2. u' = u /\ a' <= a
    BY <1>0, <2>1 DEF Mail!Underway, Mail!Ahead
  <2> HIDE DEF u, a
  <2> QED
    BY <1>0, <2>1, <2>2
<1>5. ASSUME Mail!Commit PROVE Less
  <2>1. /\ rejections' = rejections
        /\ mails' = mails /\ stalled' = stalled /\ active' = active /\ crashes' = crashes /\ rejections' = rejections
        /\ next' = next + 1 /\ up' = up /\ up /\ handled /\ ~handled' /\ waiting' = waiting
    BY <1>5 DEF Mail!Commit, Mail!Committing
  <2>2. u' = u /\ a' <= a
    BY <1>0, <2>1 DEF Mail!Underway, Mail!Ahead
  <2> HIDE DEF u, a
  <2> QED
    BY <1>0, <2>1, <2>2
<1>6. ASSUME NEW e \in Mail!Notices, Mail!Take(e) PROVE Less
  <2>1. /\ rejections' = rejections
        /\ mails' = mails /\ crashes' = crashes /\ next' = next /\ up' = up /\ handled' = handled
        /\ active = None /\ active' # None /\ active'.event = e /\ ~active'.sent
    <3>1. \A b \in BOOLEAN : [event |-> e, again |-> b, sent |-> FALSE] \in Mail!Job
      BY DEF Mail!Job
    <3>2. PICK b \in BOOLEAN : active' = [event |-> e, again |-> b, sent |-> FALSE]
      BY <1>6 DEF Mail!Take
    <3>3. active' \in Mail!Job /\ active'.event = e /\ ~active'.sent
      BY <3>1, <3>2
    <3> QED
      BY <1>6, <3>3 DEF Mail!Take
  <2>2. a' = a /\ u = 0 /\ u' = IF i = e THEN 1 ELSE 0
    BY <2>1 DEF Mail!Underway, Mail!Ahead
  <2>3. waiting'[i] + stalled'[i] = waiting[i] + stalled[i] - (IF i = e THEN 1 ELSE 0)
    BY <1>0, <1>6 DEF Mail!Take
  <2>4. waiting'[i] \in Nat /\ stalled'[i] \in Nat
    BY <1>0, <1>6 DEF Mail!Take
  <2> HIDE DEF u, a
  <2> QED
    BY <1>0, <2>1, <2>2, <2>3, <2>4
<1>7. ASSUME Mail!Send PROVE Less
  <2>1. /\ rejections' = rejections
        /\ waiting' = waiting /\ stalled' = stalled /\ crashes' = crashes /\ next' = next
        /\ up' = up /\ handled' = handled /\ active \in Mail!Job /\ active # None /\ ~active.sent
        /\ mails' = [mails EXCEPT ![active.event] = @ + 1]
        /\ active' = [active EXCEPT !.sent = TRUE]
    BY <1>7 DEF Mail!Send, Mail!Working
  <2>2. active'.sent
    BY <2>1 DEF Mail!Job
  <2>3. a' = a /\ u' = 0 /\ u = IF active.event = i THEN 1 ELSE 0
    BY <2>1, <2>2 DEF Mail!Underway, Mail!Ahead
  <2>4. mails'[i] = mails[i] + (IF active.event = i THEN 1 ELSE 0)
    BY <1>0, <2>1
  <2> HIDE DEF u, a
  <2> QED
    BY <1>0, <2>1, <2>3, <2>4
<1>8. ASSUME Mail!Complete \/ Mail!SendFails PROVE Less
  <2>1. /\ rejections' = rejections
        /\ mails' = mails /\ stalled' = stalled /\ waiting' = waiting /\ crashes' = crashes /\ rejections' = rejections
        /\ next' = next /\ up' = up /\ handled' = handled /\ active' = None
    BY <1>8 DEF Mail!Complete, Mail!SendFails
  <2>2. a' = a /\ u' = 0
    BY <2>1 DEF Mail!Underway, Mail!Ahead
  <2> HIDE DEF u, a
  <2> QED
    BY <1>0, <2>1, <2>2
<1>9. ASSUME Mail!Crash PROVE Good
  <2>1. /\ mails' = mails /\ waiting' = waiting /\ crashes' = crashes + 1 /\ active' = None
        /\ rejections' = rejections
    BY <1>9 DEF Mail!Crash
  <2>2. u' = 0
    BY <2>1 DEF Mail!Underway
  <2>3. stalled'[i] \in Nat /\ stalled'[i] <= stalled[i] + 1
    <3>1. CASE active # None /\ ~active.again
      <4>1. active.event \in Mail!Notices /\ stalled' = [stalled EXCEPT ![active.event] = @ + 1]
        BY <1>9, <3>1, JobCarried DEF Mail!Crash
      <4> QED
        BY <1>0, <4>1
    <3>2. CASE ~(active # None /\ ~active.again)
      BY <1>0, <1>9, <3>2 DEF Mail!Crash
    <3> QED
      BY <3>1, <3>2
  <2>4. mails'[i] = mails[i] /\ waiting'[i] = waiting[i] /\ crashes' = crashes + 1
    BY <2>1
  <2>5. mails[i] + waiting[i] + stalled[i] <= 1 + 2 * crashes + rejections
    <3> HIDE DEF u, a
    <3> QED
      BY <1>0
  <2>6. mails'[i] + waiting'[i] + stalled'[i] <= 2 + 2 * crashes + rejections
    BY <1>0, <2>3, <2>4, <2>5
  <2>7. /\ u' = 0 /\ a' \in {0, 1} /\ mails'[i] \in Nat /\ waiting'[i] \in Nat /\ crashes \in Nat
        /\ rejections \in Nat /\ rejections' = rejections /\ crashes' = crashes + 1
    BY <1>0, <2>1, <2>2, <2>4
  <2> HIDE DEF u, a
  <2> QED
    BY <2>3, <2>4, <2>6, <2>7
<1>10. ASSUME Mail!CommitFails PROVE Good
  <2>1. /\ mails' = mails /\ stalled' = stalled /\ waiting' = waiting /\ active' = active
        /\ crashes' = crashes /\ rejections' = rejections + 1
    BY <1>10 DEF Mail!CommitFails
  <2>2. u' = u
    BY <2>1 DEF Mail!Underway
  <2> HIDE DEF u, a
  <2> QED
    BY <1>0, <2>1, <2>2
<1>11. ASSUME UNCHANGED Mail!vars PROVE Less
  BY <1>0, <1>11 DEF Mail!vars, Mail!Underway, Mail!Ahead
<1>12. ASSUME Less PROVE Good
  <2>1. mails'[i] \in Nat /\ waiting'[i] \in Nat /\ stalled'[i] \in Nat
    BY MailTypes
  <2> HIDE DEF u, a
  <2> QED
    BY <1>0, <1>12, <2>1
<1>13. Good
  <2> HIDE DEF u, a, Less, Good
  <2> QED
    BY <1>1, <1>2, <1>3, <1>4, <1>5, <1>6, <1>7, <1>8, <1>9, <1>10, <1>11, <1>12
       DEF Mail!Next, Mail!Consume, Mail!Work
<1> QED
  BY <1>13

\* The inductive invariant of the mails holds in every reachable state.
THEOREM MailInvariance == ASSUME Mail!ConstantsAssumption PROVE Mail!Spec => []Mail!MailInv
<1>1. Mail!Init => Mail!MailInv
  <2> SUFFICES ASSUME Mail!Init PROVE Mail!MailInv
    OBVIOUS
  <2> USE Mail!ConstantsAssumption DEF Mail!Init, Mail!ConstantsAssumption
  <2>1. /\ 0 \in 0 .. LastEvent /\ 1 \in 1 .. LastEvent + 1 /\ 0 \in 0 .. MaxCrashes /\ 0 \in 0 .. MaxErrors
        /\ 0 \in 0 .. MaxRejections
    OBVIOUS
  <2>2. Mail!TypeOK /\ Mail!Position
    BY <2>1 DEF Mail!TypeOK, Mail!Position
  <2>3. Mail!FewJobs
    BY DEF Mail!FewJobs, Mail!Repeats, Mail!Underway, Mail!Ahead, Mail!Notices
  <2> QED
    BY <2>3, <2>2 DEF Mail!MailInv
<1>2. Mail!MailInv /\ [Mail!Next]_(Mail!vars) => Mail!MailInv'
  BY Mail!ConstantsAssumption, MailTypes, MailStep DEF Mail!MailInv
<1> QED
  BY <1>1, <1>2, PTL DEF Mail!Spec

\* What MCParts does when it runs the mails, or does not, the mails may do.
LEMMA PartsMail == PartsSpec => Mail!Spec
<1>1. PartsInit => Mail!Init
  BY DEF PartsInit
<1>2. [PartsNext]_partsVars => [Mail!Next]_(Mail!vars)
  BY DEF PartsNext, RelayNext, LoginNext, GatewayNext, BookNext, MailNext, partsVars,
         mailVars, Mail!vars
<1> QED
  BY <1>1, <1>2, PTL DEF PartsSpec, Mail!Spec

\* A message is mailed once, and at most twice more for each death of the process
\* and once more for each commit that is rejected.
THEOREM MailsRepeated == PartsSpec => []FewDuplicates
<1>1. Mail!MailInv => FewDuplicates
  <2> SUFFICES ASSUME Mail!MailInv, NEW e \in Mail!Notices PROVE mails[e] <= 1 + Mail!Repeats
    BY DEF FewDuplicates, Mail!FewDuplicates
  <2>1. /\ mails[e] \in Nat /\ waiting[e] \in Nat /\ stalled[e] \in Nat /\ Mail!Repeats \in Nat
        /\ Mail!Underway(e) \in Nat /\ Mail!Ahead(e) \in Nat
    BY PartsAssumption DEF Mail!MailInv, Mail!TypeOK, Mail!Repeats, Mail!Underway, Mail!Ahead
  <2>2. mails[e] + waiting[e] + stalled[e] + Mail!Underway(e) + Mail!Ahead(e) <= 1 + Mail!Repeats
    BY DEF Mail!MailInv, Mail!FewJobs
  <2> QED
    BY <2>1, <2>2
<1>2. Mail!Spec => []Mail!MailInv
  BY PartsAssumption, MailInvariance
<1> QED
  BY <1>1, <1>2, PartsMail, PTL
=============================================================================
