------------------------------ MODULE RateLimits ------------------------------
(***************************************************************************)
(* The counters in Redis that limit requests: auth-service counts logins   *)
(* per IP and per e-mail address, the gateway counts requests per IP and   *)
(* route.  INCR and TTL go in one pipeline; the first request of a window  *)
(* sends EXPIRE in a command of its own, and the window is never renewed.  *)
(***************************************************************************)
EXTENDS Naturals

CONSTANTS
    Clients,    \* concurrent requests, all of one IP and one e-mail address
    Checks,     \* the counters a request increments: {"ip", "email"} for a
                \* login in auth-service, {"route"} at the gateway
    IpLimit, EmailLimit, RouteLimit,
    Window,     \* clock ticks a counter lives
    MaxLosses,  \* bound on requests whose service dies
    Idle

VARIABLES
    count,   \* the counters; 0: no such key
    ttl,     \* ticks left; 0: the key is absent or never expires
    work,    \* what each request still has to do
    losses,
    lost     \* history: counters whose EXPIRE was never sent

vars == <<count, ttl, work, losses, lost>>

Limit == [ip |-> IpLimit, email |-> EmailLimit, route |-> RouteLimit]
Counters == DOMAIN Limit

Work == [check : Checks, todo : SUBSET Counters, expire : SUBSET Counters, over : BOOLEAN]

ConstantsAssumption ==
    /\ Checks \subseteq {{"ip", "email"}, {"route"}}
    /\ IpLimit \in Nat \ {0} /\ EmailLimit \in Nat \ {0} /\ RouteLimit \in Nat \ {0}
    /\ Window \in Nat \ {0}
    /\ MaxLosses \in Nat
    /\ Idle \notin Work

Init ==
    /\ count = [k \in Counters |-> 0]
    /\ ttl = [k \in Counters |-> 0]
    /\ work = [c \in Clients |-> Idle]
    /\ losses = 0 /\ lost = {}

\* bound: only 1 and "over the limit" are told apart.
Incremented(k) == IF count[k] > Limit[k] THEN count[k] ELSE count[k] + 1

Start(c, check) ==
    /\ work[c] = Idle
    /\ work' = [work EXCEPT ![c] =
                   [check |-> check, todo |-> check, expire |-> {}, over |-> FALSE]]
    /\ UNCHANGED <<count, ttl, losses, lost>>

\* Wrong: every request renews the window.
CountRenewing(c, k) ==
    /\ work[c] # Idle /\ k \in work[c].todo
    /\ count' = [count EXCEPT ![k] = Incremented(k)]
    /\ ttl' = [ttl EXCEPT ![k] = IF @ > 0 THEN Window ELSE @]
    /\ work' = [work EXCEPT ![c] =
                   [check |-> @.check, todo |-> @.todo \ {k},
                    expire |-> IF count'[k] = 1 THEN @.expire \cup {k} ELSE @.expire,
                    over |-> @.over \/ count'[k] > Limit[k]]]
    /\ UNCHANGED <<losses, lost>>

\* A login increments its two counters in any order; a refusal by one does not
\* spare the other.
Count(c, k) ==
    /\ work[c] # Idle /\ k \in work[c].todo
    /\ count' = [count EXCEPT ![k] = Incremented(k)]
    /\ work' = [work EXCEPT ![c] =
                   [check |-> @.check, todo |-> @.todo \ {k},
                    expire |-> IF count'[k] = 1 THEN @.expire \cup {k} ELSE @.expire,
                    over |-> @.over \/ count'[k] > Limit[k]]]
    /\ UNCHANGED <<ttl, losses, lost>>

\* EXPIRE does nothing to a key that has gone; one created since gets it.
Expire(c, k) ==
    /\ work[c] # Idle /\ k \in work[c].expire
    /\ ttl' = [ttl EXCEPT ![k] = IF count[k] > 0 THEN Window ELSE 0]
    /\ lost' = lost \ {k}
    /\ work' = [work EXCEPT ![c].expire = @ \ {k}]
    /\ UNCHANGED <<count, losses>>

Answered(c) == work[c] # Idle /\ work[c].todo = {} /\ work[c].expire = {}

\* Refused, or passed on, the password of a login being wrong.
Answer(c) ==
    /\ Answered(c)
    /\ work' = [work EXCEPT ![c] = Idle]
    /\ UNCHANGED <<count, ttl, losses, lost>>

\* An admitted login with the right password clears the e-mail's counter.
LoginSuccess(c) ==
    /\ Answered(c) /\ ~work[c].over /\ "email" \in work[c].check
    /\ count' = [count EXCEPT !["email"] = 0]
    /\ ttl' = [ttl EXCEPT !["email"] = 0]
    /\ lost' = lost \ {"email"}
    /\ work' = [work EXCEPT ![c] = Idle]
    /\ UNCHANGED losses

Tick(k) ==
    /\ ttl[k] > 0
    /\ ttl' = [ttl EXCEPT ![k] = @ - 1]
    /\ count' = [count EXCEPT ![k] = IF ttl[k] = 1 THEN 0 ELSE @]
    /\ UNCHANGED <<work, losses, lost>>

\* A service dies; the commands it had not sent are not sent.
Die(c) ==
    /\ work[c] # Idle /\ losses < MaxLosses
    /\ losses' = losses + 1
    /\ lost' = lost \cup {k \in work[c].expire : count[k] > 0 /\ ttl[k] = 0}
    /\ work' = [work EXCEPT ![c] = Idle]
    /\ UNCHANGED <<count, ttl>>

Step(c) ==
    \/ \E k \in Counters : Count(c, k) \/ Expire(c, k)
    \/ Answer(c) \/ LoginSuccess(c)

Next ==
    \/ \E c \in Clients : Step(c) \/ Die(c) \/ \E check \in Checks : Start(c, check)
    \/ \E k \in Counters : Tick(k)

Spec == Init /\ [][Next]_vars

\* Requests are carried out and time passes.
Fairness ==
    /\ \A c \in Clients : WF_vars(Step(c))
    /\ \A k \in Counters : WF_vars(Tick(k))

FairSpec == Spec /\ Fairness
-----------------------------------------------------------------------------
(* Properties *)

TypeOK ==
    /\ count \in [Counters -> Nat]
    /\ ttl \in [Counters -> 0 .. Window]
    /\ work \in [Clients -> Work \cup {Idle}]
    /\ losses \in 0 .. MaxLosses
    /\ lost \subseteq Counters

\* A counter that never expires is one whose EXPIRE is about to be sent, or
\* was lost with the request that owed it: neither a success that deletes the
\* key between the two commands nor a window that ends there leaves another.
CountersExpire ==
    \A k \in Counters : count[k] > 0 /\ ttl[k] = 0 =>
        k \in lost \/ \E c \in Clients : work[c] # Idle /\ k \in work[c].expire

\* The inductive invariant: an expiry is one of a key that exists, and a key
\* that lost its own has none.
Forgotten ==
    \A k \in Counters :
        (count[k] = 0 => ttl[k] = 0) /\ (k \in lost => count[k] > 0 /\ ttl[k] = 0)

IInv == TypeOK /\ Forgotten /\ CountersExpire

\* Who is over a limit gets in again, however often he keeps trying, unless
\* the counter lost its expiry.
BlockedRecovers ==
    \A k \in Counters : count[k] > Limit[k] ~> count[k] = 0 \/ k \in lost
=============================================================================
