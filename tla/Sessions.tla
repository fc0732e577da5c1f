------------------------------- MODULE Sessions -------------------------------
(***************************************************************************)
(* auth-service, the sessions of one user: the rows of user_sessions in    *)
(* PostgreSQL, the keys session:{id} and the list user:{id}:sessions in    *)
(* Redis, and the cookies and access tokens clients hold.  No transaction  *)
(* spans the two stores: every handler is a sequence of single commands,   *)
(* and handlers overlap.  The gateway looks at Redis only.                 *)
(*                                                                         *)
(* A login has a familyId of its own, so a family is one row.  Expiry in   *)
(* Redis may come at any time.                                             *)
(***************************************************************************)
EXTENDS Naturals

CONSTANTS
    Sessions,
    Workers,     \* concurrent requests to auth-service
    Agents,      \* User-Agent headers, the empty one possibly among them
    Tokens,      \* refresh tokens; one nobody holds any more is used again
    MaxCrashes,  \* bound on handlers that fail half-way
    NoToken, Idle

VARIABLES
    status,   \* the row: none, live, expired (expiresAt), revoked (revokedAt)
    token,    \* the token whose hash the row holds
    key,      \* user agent stored under session:{id}, "none" without the key
    listed,   \* members of user:{id}:sessions
    cookie,   \* the last refresh token the client received
    jwt,      \* sessions with an access token that has not expired
    work,     \* what each worker is executing
    crashes,
    ended,    \* history: sessions a logoutAll or a new password was to end
    crossed,  \* history: sessions with overlapping refreshes or a lost answer
    excused   \* history: sessions some command left, or put back, in Redis

vars == <<status, token, key, listed, cookie, jwt, work, crashes,
          ended, crossed, excused>>
history == <<ended, crossed, excused>>

Refresh == {"check", "reused", "rotate", "rotated", "answer"}
Work ==
    [op : {"saved", "cached", "revoke", "delete", "unlist"}, session : Sessions]
        \cup [op : Refresh, session : Sessions, agent : Agents, token : Tokens]
        \cup [op : {"list", "keys", "rows"}, found : SUBSET Sessions, rest : SUBSET Sessions]

ASSUME ConstantsAssumption ==
    /\ "none" \notin Agents
    /\ NoToken \notin Tokens
    /\ MaxCrashes \in Nat
    /\ Idle \notin Work

Init ==
    /\ status = [s \in Sessions |-> "none"]
    /\ token = [s \in Sessions |-> NoToken]
    /\ key = [s \in Sessions |-> "none"]
    /\ listed = {}
    /\ cookie = [s \in Sessions |-> NoToken]
    /\ jwt = {}
    /\ work = [w \in Workers |-> Idle]
    /\ crashes = 0
    /\ ended = {} /\ crossed = {} /\ excused = {}

Doing(w, op) == work[w] # Idle /\ work[w].op = op
Goto(w, step) == work' = [work EXCEPT ![w] = step]
Proceed(w, op) == work' = [work EXCEPT ![w].op = op]
Done(w) == Goto(w, Idle)
On(op, s) == [op |-> op, session |-> s]

Refreshing(w) == work[w] # Idle /\ work[w].op \in Refresh
EndingAll(w) == work[w] # Idle /\ work[w].op \in {"list", "keys", "rows"}
Unrevoked == {s \in Sessions : status[s] \in {"live", "expired"}}

\* The gateway's (and POST /auth/verify's) test: a valid access token and a
\* key in Redis.
Accepted(s) == s \in jwt /\ key[s] # "none"

\* randomUUID: a token nobody holds.
Held(s) == {token[s], cookie[s]} \cup {work[w].token : w \in {v \in Workers : Refreshing(v)}}
Fresh(s) == CHOOSE t \in Tokens : t \notin Held(s)
CanRotate(s) == Tokens \ Held(s) # {}   \* bound: Tokens is large enough for this

-----------------------------------------------------------------------------
(* Login, after the password has been checked *)

LoginSave(w, s) ==
    /\ work[w] = Idle
    /\ status[s] = "none" /\ CanRotate(s)
    /\ status' = [status EXCEPT ![s] = "live"]
    /\ token' = [token EXCEPT ![s] = Fresh(s)]
    /\ Goto(w, On("saved", s))
    /\ UNCHANGED <<key, listed, cookie, jwt, crashes, history>>

\* A key written after the session was revoked, or while a logoutAll is
\* deleting keys, may stay.
LeavesKey(s) == status[s] = "revoked" \/ \E v \in Workers : EndingAll(v)
Excuse(s) == excused' = IF LeavesKey(s) THEN excused \cup {s} ELSE excused

LoginCache(w, agent) ==
    /\ Doing(w, "saved")
    /\ key' = [key EXCEPT ![work[w].session] = agent]
    /\ Excuse(work[w].session)
    /\ Proceed(w, "cached")
    /\ UNCHANGED <<status, token, listed, cookie, jwt, crashes, ended, crossed>>

\* SADD, EXPIRE, and the answer with token and cookies.
LoginList(w) ==
    /\ Doing(w, "cached")
    /\ listed' = listed \cup {work[w].session}
    /\ jwt' = jwt \cup {work[w].session}
    /\ cookie' = [cookie EXCEPT ![work[w].session] = token[work[w].session]]
    /\ Done(w)
    /\ UNCHANGED <<status, token, key, crashes, history>>

-----------------------------------------------------------------------------
(* Refresh *)

SameAgent(s, agent) == key[s] = "" \/ agent = "" \/ key[s] = agent

UnderRefresh(s) == \E w \in Workers : Refreshing(w) /\ work[w].session = s

\* GET session:{id}; another user agent has the session revoked.
RefreshBegin(w, s, agent) ==
    /\ work[w] = Idle
    /\ cookie[s] # NoToken /\ key[s] # "none"
    /\ IF SameAgent(s, agent)
       THEN Goto(w, [op |-> "check", session |-> s, agent |-> agent, token |-> cookie[s]])
       ELSE Goto(w, On("revoke", s))
    /\ crossed' = IF UnderRefresh(s) THEN crossed \cup {s} ELSE crossed
    /\ UNCHANGED <<status, token, key, listed, cookie, jwt, crashes, ended, excused>>

\* Wrong: the key in Redis is enough.
Usable(s) == status[s] # "none"

Valid(s) == status[s] = "live"

\* The row is read: is it valid, and is the token the one it holds?
RefreshCheck(w) ==
    /\ Doing(w, "check")
    /\ LET s == work[w].session IN
         \/ ~Valid(s) /\ Done(w)
         \/ Valid(s) /\ work[w].token = token[s] /\ Proceed(w, "rotate")
         \/ Valid(s) /\ work[w].token # token[s] /\ Proceed(w, "reused")
    /\ UNCHANGED <<status, token, key, listed, cookie, jwt, crashes, history>>

\* The family is revoked in PostgreSQL; its keys stay in Redis.
RevokeFamily(w) ==
    /\ Doing(w, "reused")
    /\ status' = [status EXCEPT ![work[w].session] = "revoked"]
    /\ excused' = excused \cup {work[w].session}
    /\ Done(w)
    /\ UNCHANGED <<token, key, listed, cookie, jwt, crashes, ended, crossed>>

\* Wrong: the new token is handed out and not stored.
RotateUnsaved(w) ==
    /\ Doing(w, "rotate")
    /\ Goto(w, [work[w] EXCEPT !.op = "rotated", !.token = Fresh(work[w].session)])
    /\ UNCHANGED <<status, token, key, listed, cookie, jwt, crashes, history>>

\* Wrong: the row is written back as it was read.
RotateEntity(w) ==
    /\ Doing(w, "rotate")
    /\ LET s == work[w].session IN
         /\ CanRotate(s)
         /\ token' = [token EXCEPT ![s] = Fresh(s)]
         /\ status' = [status EXCEPT ![s] = "live"]
         /\ Goto(w, [work[w] EXCEPT !.op = "rotated", !.token = Fresh(s)])
    /\ UNCHANGED <<key, listed, cookie, jwt, crashes, history>>

\* UPDATE by id: a later refresh overwrites an earlier one, revokedAt stays.
Rotate(w) ==
    /\ Doing(w, "rotate")
    /\ LET s == work[w].session IN
         /\ CanRotate(s)
         /\ token' = [token EXCEPT ![s] = Fresh(s)]
         /\ status' = [status EXCEPT ![s] = IF @ = "expired" THEN "live" ELSE @]
         /\ Goto(w, [work[w] EXCEPT !.op = "rotated", !.token = Fresh(s)])
    /\ UNCHANGED <<key, listed, cookie, jwt, crashes, history>>

RefreshCache(w) ==
    /\ Doing(w, "rotated")
    /\ key' = [key EXCEPT ![work[w].session] = work[w].agent]
    /\ Excuse(work[w].session)
    /\ Proceed(w, "answer")
    /\ UNCHANGED <<status, token, listed, cookie, jwt, crashes, ended, crossed>>

RefreshAnswer(w) ==
    /\ Doing(w, "answer")
    /\ cookie' = [cookie EXCEPT ![work[w].session] = work[w].token]
    /\ jwt' = jwt \cup {work[w].session}
    /\ Done(w)
    /\ UNCHANGED <<status, token, key, listed, crashes, history>>

-----------------------------------------------------------------------------
(* Logout, and revokeSession behind it *)

Logout(w, s) ==
    /\ work[w] = Idle
    /\ Accepted(s)
    /\ Goto(w, On("revoke", s))
    /\ UNCHANGED <<status, token, key, listed, cookie, jwt, crashes, history>>

RevokeRow(w) ==
    /\ Doing(w, "revoke")
    /\ status' = [status EXCEPT ![work[w].session] = "revoked"]
    /\ Proceed(w, "delete")
    /\ UNCHANGED <<token, key, listed, cookie, jwt, crashes, history>>

\* Wrong: only the list is brought up to date.
RevokeNoKey(w) ==
    /\ Doing(w, "delete")
    /\ Proceed(w, "unlist")
    /\ UNCHANGED <<status, token, key, listed, cookie, jwt, crashes, history>>

RevokeKey(w) ==
    /\ Doing(w, "delete")
    /\ key' = [key EXCEPT ![work[w].session] = "none"]
    /\ Proceed(w, "unlist")
    /\ UNCHANGED <<status, token, listed, cookie, jwt, crashes, history>>

Unlist(w) ==
    /\ Doing(w, "unlist")
    /\ listed' = listed \ {work[w].session}
    /\ Done(w)
    /\ UNCHANGED <<status, token, key, cookie, jwt, crashes, history>>

-----------------------------------------------------------------------------
(* logoutAll, on request or after a password reset has been committed *)

LogoutAll(w, byReset) ==
    /\ work[w] = Idle
    /\ byReset \/ \E s \in Sessions : Accepted(s)
    /\ Goto(w, [op |-> "list", found |-> {}, rest |-> {}])
    /\ ended' = ended \cup Unrevoked
    /\ UNCHANGED <<status, token, key, listed, cookie, jwt, crashes, crossed, excused>>

ListSessions(w) ==
    /\ Doing(w, "list")
    /\ Goto(w, [op |-> "keys", found |-> listed, rest |-> listed])
    /\ UNCHANGED <<status, token, key, listed, cookie, jwt, crashes, history>>

\* The keys are deleted in any order, ...
DeleteKey(w, s) ==
    /\ Doing(w, "keys")
    /\ s \in work[w].rest
    /\ key' = [key EXCEPT ![s] = "none"]
    /\ work' = [work EXCEPT ![w].rest = @ \ {s}]
    /\ UNCHANGED <<status, token, listed, cookie, jwt, crashes, history>>

\* ... then the list, ...
DeleteList(w) ==
    /\ Doing(w, "keys")
    /\ work[w].rest = {}
    /\ listed' = {}
    /\ Proceed(w, "rows")
    /\ UNCHANGED <<status, token, key, cookie, jwt, crashes, history>>

\* Wrong: the rows of the listed sessions only.
RevokeListed(w) ==
    /\ Doing(w, "rows")
    /\ status' = [s \in Sessions |-> IF s \in Unrevoked \cap work[w].found
                                     THEN "revoked" ELSE status[s]]
    /\ excused' = excused \cup (Unrevoked \ work[w].found)
    /\ Done(w)
    /\ UNCHANGED <<token, key, listed, cookie, jwt, crashes, ended, crossed>>

\* ... and every row of the user is revoked, listed or not.
RevokeRows(w) ==
    /\ Doing(w, "rows")
    /\ status' = [s \in Sessions |-> IF s \in Unrevoked THEN "revoked" ELSE status[s]]
    /\ excused' = excused \cup (Unrevoked \ work[w].found)
    /\ Done(w)
    /\ UNCHANGED <<token, key, listed, cookie, jwt, crashes, ended, crossed>>

-----------------------------------------------------------------------------
(* Time and failures *)

ExpireRow(s) ==
    /\ status[s] = "live"
    /\ status' = [status EXCEPT ![s] = "expired"]
    /\ UNCHANGED <<token, key, listed, cookie, jwt, work, crashes, history>>

ExpireKey(s) ==
    /\ key[s] # "none"
    /\ key' = [key EXCEPT ![s] = "none"]
    /\ UNCHANGED <<status, token, listed, cookie, jwt, work, crashes, history>>

\* Only a login renews the list's seven days: a session that is refreshed for
\* longer is no longer listed.
ExpireList ==
    /\ listed # {}
    /\ listed' = {}
    /\ UNCHANGED <<status, token, key, cookie, jwt, work, crashes, history>>

ExpireJwt(s) ==
    /\ s \in jwt
    /\ jwt' = jwt \ {s}
    /\ UNCHANGED <<status, token, key, listed, cookie, work, crashes, history>>

\* A command fails or the process dies: the request ends where it is.
Crash(w) ==
    /\ work[w] # Idle /\ crashes < MaxCrashes
    /\ crashes' = crashes + 1
    /\ Done(w)
    /\ crossed' = IF Refreshing(w) THEN crossed \cup {work[w].session} ELSE crossed
    /\ excused' = excused \cup IF EndingAll(w) THEN Sessions ELSE {work[w].session}
    /\ UNCHANGED <<status, token, key, listed, cookie, jwt, ended>>

-----------------------------------------------------------------------------

HandlerStep(w) ==
    \/ \E agent \in Agents : LoginCache(w, agent)
    \/ LoginList(w)
    \/ RefreshCheck(w) \/ RevokeFamily(w) \/ Rotate(w)
    \/ RefreshCache(w) \/ RefreshAnswer(w)
    \/ RevokeRow(w) \/ RevokeKey(w) \/ Unlist(w)
    \/ ListSessions(w) \/ DeleteList(w) \/ RevokeRows(w)
    \/ \E s \in Sessions : DeleteKey(w, s)

Request(w) ==
    \/ \E s \in Sessions : LoginSave(w, s) \/ Logout(w, s)
    \/ \E s \in Sessions, agent \in Agents : RefreshBegin(w, s, agent)
    \/ \E byReset \in BOOLEAN : LogoutAll(w, byReset)

Expiry ==
    \/ \E s \in Sessions : ExpireRow(s) \/ ExpireKey(s) \/ ExpireJwt(s)
    \/ ExpireList

Next ==
    \/ \E w \in Workers : Request(w) \/ HandlerStep(w) \/ Crash(w)
    \/ Expiry

Spec == Init /\ [][Next]_vars

\* A handler goes on until it answers, and an access token expires.
Fairness ==
    /\ \A w \in Workers : WF_vars(HandlerStep(w))
    /\ \A s \in Sessions : WF_vars(ExpireJwt(s))

FairSpec == Spec /\ Fairness
-----------------------------------------------------------------------------
(* Properties *)

TypeOK ==
    /\ status \in [Sessions -> {"none", "live", "expired", "revoked"}]
    /\ token \in [Sessions -> Tokens \cup {NoToken}]
    /\ key \in [Sessions -> Agents \cup {"none"}]
    /\ listed \subseteq Sessions /\ jwt \subseteq Sessions
    /\ cookie \in [Sessions -> Tokens \cup {NoToken}]
    /\ work \in [Workers -> Work \cup {Idle}]
    /\ crashes \in 0 .. MaxCrashes
    /\ ended \subseteq Sessions /\ crossed \subseteq Sessions /\ excused \subseteq Sessions

\* A session that was revoked never comes back, whichever handler that saw it
\* alive writes its row afterwards.
RevocationIsFinal ==
    [][\A s \in Sessions : status[s] = "revoked" => status'[s] = "revoked"]_vars

\* A client that sends what it was last given holds the token the row holds:
\* its refresh is never taken for a reuse, unless two of its refreshes
\* overlapped or an answer was lost.
HonestIsNotReuse ==
    /\ \A w \in Workers : Doing(w, "reused") => work[w].session \in crossed
    /\ \A s \in Sessions \ crossed :
          cookie[s] # NoToken /\ ~UnderRefresh(s) => cookie[s] = token[s]

\* The keys of revoked sessions are gone from Redis, but for those a running
\* logout is about to delete, and those left by a reuse, a handler that died or
\* overlapped, or a logoutAll that did not find the session listed.
OnlyKnownLeaks ==
    \A s \in Sessions \ excused :
        status[s] = "revoked" /\ key[s] # "none" =>
            \E w \in Workers : Doing(w, "delete") /\ work[w].session = s

\* A logoutAll or a password reset ends every session there was when it began,
\* even one Redis no longer lists, unless its handler died.
LogoutAllEnds ==
    \A s \in ended :
        status[s] = "revoked" \/ crashes > 0 \/ \E w \in Workers : EndingAll(w)

\* The inductive invariant: a worker's session has a row, and what is to end
\* has one, ...
RowsKnown ==
    /\ \A s \in ended : status[s] # "none"
    /\ \A s \in Sessions : cookie[s] # NoToken \/ s \in jwt => status[s] # "none"
    /\ \A w \in Workers :
          work[w] # Idle /\ ~EndingAll(w) => status[work[w].session] # "none"

\* ... a session not crossed has one refresh at a time, whose token is the
\* row's, and the client's until it is rotated, ...
OneRefresh ==
    \A w \in Workers : Refreshing(w) /\ work[w].session \notin crossed =>
        /\ work[w].token = token[work[w].session]
        /\ work[w].op \in {"check", "rotate"} => cookie[work[w].session] = work[w].token
        /\ \A v \in Workers \ {w} : Refreshing(v) => work[v].session # work[w].session

\* ... and a key a logoutAll has deleted is not written again unnoticed.
DeletedStays ==
    \A w \in Workers, s \in Sessions \ excused :
        /\ Doing(w, "keys") /\ s \in work[w].found \ work[w].rest => key[s] = "none"
        /\ Doing(w, "rows") /\ s \in work[w].found => key[s] = "none"

IInv ==
    /\ TypeOK /\ RowsKnown /\ OneRefresh /\ DeletedStays
    /\ HonestIsNotReuse /\ OnlyKnownLeaks /\ LogoutAllEnds

\* The gateway stops accepting a revoked session for good: whatever is left in
\* Redis, nobody gets a new access token for it.
RevokedIsShutOut ==
    \A s \in Sessions : status[s] = "revoked" ~> [](~Accepted(s))

\* todos/auth-service.todo.md: "Redis hem hız hem anlık invalidation sağlar"
\* (Redis gives both speed and immediate invalidation): once the requests under
\* way are answered, no revoked session is accepted.  It does not hold: see
\* OnlyKnownLeaks (README, Disagreements).
RevokedIsRefused ==
    (\A w \in Workers : work[w] = Idle) =>
        \A s \in Sessions : status[s] = "revoked" => ~Accepted(s)
=============================================================================
