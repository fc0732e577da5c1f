------------------------------- MODULE MCParts -------------------------------
(***************************************************************************)
(* Small parts that share no state, for one run of TLC: the outbox relay,  *)
(* the rate limits of logins and those of the gateway, the address book    *)
(* and the mails.  A behaviour runs the part it has chosen in its initial  *)
(* state; the others rest.                                                 *)
(***************************************************************************)
EXTENDS OutboxRelay

CONSTANTS
    Clients, IpLimit, EmailLimit, RouteLimit, Window, MaxLosses,
    Addresses, Workers, MaxAddresses,
    LastEvent, OrderEvents, AmountEvents, MaxCrashes, MaxErrors,
    MaxRejections, Idle, None

VARIABLES
    part,
    count, ttl, requests, losses, lost,
    row, edits, overlapped,
    emitted, up, next, handled, committed, waiting, stalled, active, mails,
    crashes, errors, rejections, dropped

rateVars == <<count, ttl, requests, losses, lost>>
bookVars == <<row, edits, overlapped>>
mailVars == <<emitted, up, next, handled, committed, waiting, stalled, active,
              mails, crashes, errors, rejections, dropped>>
partsVars == <<part, vars, rateVars, bookVars, mailVars>>

Login == INSTANCE RateLimits WITH work <- requests, Checks <- {{"ip", "email"}}
Gateway == INSTANCE RateLimits WITH work <- requests, Checks <- {{"route"}}
Book == INSTANCE Addresses WITH work <- edits
Mail == INSTANCE Notifications WITH published <- emitted

ASSUME PartsAssumption ==
    /\ Login!ConstantsAssumption /\ Gateway!ConstantsAssumption
    /\ Book!ConstantsAssumption /\ Mail!ConstantsAssumption

PartsInit ==
    /\ part \in {"relay", "login", "gateway", "book", "mail"}
    /\ Init /\ Login!Init /\ Book!Init /\ Mail!Init

RelayNext == part = "relay" /\ Next /\ UNCHANGED <<part, rateVars, bookVars, mailVars>>
LoginNext == part = "login" /\ Login!Next /\ UNCHANGED <<part, vars, bookVars, mailVars>>
GatewayNext ==
    part = "gateway" /\ Gateway!Next /\ UNCHANGED <<part, vars, bookVars, mailVars>>
BookNext == part = "book" /\ Book!Next /\ UNCHANGED <<part, vars, rateVars, mailVars>>
MailNext == part = "mail" /\ Mail!Next /\ UNCHANGED <<part, vars, rateVars, bookVars>>

PartsNext == RelayNext \/ LoginNext \/ GatewayNext \/ BookNext \/ MailNext

\* The fairness of each part, for the part that runs.
PartsFairness ==
    /\ \A r \in Runs :
          /\ WF_vars(part = "relay" /\ Read(r))
          /\ WF_vars(part = "relay" /\ \E e \in Events : Handle(r, e))
    /\ WF_vars(part = "relay" /\ LeakCommits)
    /\ \A c \in Clients :
          /\ WF_rateVars(part = "login" /\ Login!Step(c))
          /\ WF_rateVars(part = "gateway" /\ Gateway!Step(c))
    /\ \A k \in Login!Counters : WF_rateVars(part \in {"login", "gateway"} /\ Login!Tick(k))
    /\ WF_mailVars(part = "mail" /\ Mail!Start)
    /\ WF_mailVars(part = "mail" /\ Mail!Consume)
    /\ WF_mailVars(part = "mail" /\ Mail!Work)

PartsSpec == PartsInit /\ [][PartsNext]_partsVars /\ PartsFairness
-----------------------------------------------------------------------------
\* See RateLimits: who is over a limit gets in again.
BlockedRecovers == Login!BlockedRecovers

\* See Addresses: concurrent requests overrun the limit by a bounded number.
BoundedOverrun == Book!BoundedOverrun

\* See Addresses: one default, overlapping requests aside.
OneDefault == Book!OneDefault

\* See Notifications: how often the mail of a message is repeated.
FewDuplicates == Mail!FewDuplicates

\* See Notifications: the mails of auth-service are sent.
UserIsMailed == Mail!UserIsMailed
=============================================================================
