---------------------------- MODULE SessionsProofs ----------------------------
(***************************************************************************)
(* The invariants of Sessions, for any number of sessions, requests and    *)
(* tokens.  One lemma per conjunct of IInv, one case per action.           *)
(***************************************************************************)
EXTENDS Sessions, TLAPS

\* What a rotation writes: a token, and the worker's record, which keeps the
\* session.
LEMMA RotateFacts ==
    ASSUME TypeOK, NEW w \in Workers, Rotate(w)
    PROVE  LET s == work[w].session IN
             \E t \in Tokens :
                /\ s \in Sessions /\ work[w] # Idle /\ work[w].op = "rotate"
                /\ token' = [token EXCEPT ![s] = t]
                /\ status' = [status EXCEPT ![s] = IF @ = "expired" THEN "live" ELSE @]
                /\ \A v \in Workers : v # w => work'[v] = work[v]
                /\ work' \in [Workers -> Work \cup {Idle}]
                /\ work'[w] # Idle /\ work'[w].op = "rotated"
                /\ work'[w].session = s /\ work'[w].token = t
                /\ UNCHANGED <<key, listed, cookie, jwt, crashes, ended, crossed, excused>>
<1> USE ConstantsAssumption
<1> DEFINE s == work[w].session
           t == Fresh(s)
           new == [work[w] EXCEPT !.op = "rotated", !.token = t]
<1>1. t \in Tokens
  BY DEF Rotate, CanRotate, Fresh
<1>2. /\ work[w] \in [op : Refresh, session : Sessions, agent : Agents, token : Tokens]
      /\ work[w] # Idle /\ work[w].op = "rotate"
  BY DEF Rotate, Doing, TypeOK, Work, Refresh
<1>3. /\ new \in [op : Refresh, session : Sessions, agent : Agents, token : Tokens]
      /\ new.op = "rotated" /\ new.session = s /\ new.token = t
  BY <1>1, <1>2 DEF Refresh
<1>4. /\ token' = [token EXCEPT ![s] = t]
      /\ status' = [status EXCEPT ![s] = IF @ = "expired" THEN "live" ELSE @]
      /\ work' = [work EXCEPT ![w] = new]
      /\ UNCHANGED <<key, listed, cookie, jwt, crashes, ended, crossed, excused>>
  BY DEF Rotate, Goto, history
<1> HIDE DEF s, t, new
<1>5. new \in Work /\ new # Idle
  BY <1>3 DEF Work
<1>6. work' \in [Workers -> Work \cup {Idle}] /\ work'[w] = new
      /\ \A v \in Workers : v # w => work'[v] = work[v]
  BY <1>4, <1>5 DEF TypeOK
<1>7. s \in Sessions
  BY <1>2 DEF s
<1> QED
  BY <1>1, <1>2, <1>3, <1>4, <1>5, <1>6, <1>7 DEF s

\* Every action keeps the types.
LEMMA TypeStep == ASSUME IInv, Next PROVE TypeOK'
<1> USE ConstantsAssumption DEF IInv, TypeOK, Doing, history, Work, Refresh
<1>1. CASE \E w \in Workers, s \in Sessions : LoginSave(w, s)
  BY <1>1 DEF LoginSave, CanRotate, Fresh, On, Goto
<1>2. CASE \E w \in Workers, agent \in Agents : LoginCache(w, agent)
  BY <1>2 DEF LoginCache, Excuse, LeavesKey, Proceed
<1>3. CASE \E w \in Workers : LoginList(w)
  BY <1>3 DEF LoginList, Done, Goto
<1>4. CASE \E w \in Workers, s \in Sessions, agent \in Agents : RefreshBegin(w, s, agent)
  BY <1>4 DEF RefreshBegin, UnderRefresh, On, Goto
<1>5. CASE \E w \in Workers : RefreshCheck(w)
  BY <1>5 DEF RefreshCheck, Proceed, Done, Goto
<1>6. CASE \E w \in Workers : RevokeFamily(w)
  BY <1>6 DEF RevokeFamily, Done, Goto
<1>7. CASE \E w \in Workers : Rotate(w)
  <2>1. PICK w \in Workers : Rotate(w)
    BY <1>7
  <2> QED
    BY <2>1, RotateFacts
<1>8. CASE \E w \in Workers : RefreshCache(w)
  BY <1>8 DEF RefreshCache, Excuse, LeavesKey, Proceed
<1>9. CASE \E w \in Workers : RefreshAnswer(w)
  BY <1>9 DEF RefreshAnswer, Done, Goto
<1>10. CASE \E w \in Workers, s \in Sessions : Logout(w, s)
  BY <1>10 DEF Logout, Accepted, On, Goto
<1>11. CASE \E w \in Workers : RevokeRow(w)
  BY <1>11 DEF RevokeRow, Proceed
<1>12. CASE \E w \in Workers : RevokeKey(w)
  BY <1>12 DEF RevokeKey, Proceed
<1>13. CASE \E w \in Workers : Unlist(w)
  BY <1>13 DEF Unlist, Done, Goto
<1>14. CASE \E w \in Workers, byReset \in BOOLEAN : LogoutAll(w, byReset)
  BY <1>14 DEF LogoutAll, Unrevoked, Goto
<1>15. CASE \E w \in Workers : ListSessions(w)
  BY <1>15 DEF ListSessions, Goto
<1>16. CASE \E w \in Workers, s \in Sessions : DeleteKey(w, s)
  BY <1>16 DEF DeleteKey
<1>17. CASE \E w \in Workers : DeleteList(w)
  BY <1>17 DEF DeleteList, Proceed
<1>18. CASE \E w \in Workers : RevokeRows(w)
  BY <1>18 DEF RevokeRows, Unrevoked, Done, Goto
<1>19. CASE \E w \in Workers : Crash(w)
  BY <1>19 DEF Crash, Done, Goto, Refreshing, EndingAll
<1>20. CASE Expiry
  BY <1>20 DEF Expiry, ExpireRow, ExpireKey, ExpireList, ExpireJwt
<1> QED
  BY <1>1, <1>2, <1>3, <1>4, <1>5, <1>6, <1>7, <1>8, <1>9, <1>10, <1>11, <1>12, <1>13, <1>14, <1>15, <1>16, <1>17, <1>18, <1>19, <1>20 DEF Next, Request, HandlerStep

\* A request, a key and a list refer to sessions that have a row.
LEMMA RowsKnownStep == ASSUME IInv, Next PROVE RowsKnown'
<1> USE ConstantsAssumption DEF IInv, RowsKnown, Doing, history, TypeOK, Work, Refresh, EndingAll
<1>1. CASE \E w \in Workers, s \in Sessions : LoginSave(w, s)
  BY <1>1 DEF LoginSave, CanRotate, Fresh, On, Goto
<1>2. CASE \E w \in Workers, agent \in Agents : LoginCache(w, agent)
  BY <1>2 DEF LoginCache, Excuse, LeavesKey, Proceed
<1>3. CASE \E w \in Workers : LoginList(w)
  BY <1>3 DEF LoginList, Done, Goto
<1>4. CASE \E w \in Workers, s \in Sessions, agent \in Agents : RefreshBegin(w, s, agent)
  BY <1>4 DEF RefreshBegin, UnderRefresh, On, Goto
<1>5. CASE \E w \in Workers : RefreshCheck(w)
  BY <1>5 DEF RefreshCheck, Proceed, Done, Goto
<1>6. CASE \E w \in Workers : RevokeFamily(w)
  BY <1>6 DEF RevokeFamily, Done, Goto
<1>7. CASE \E w \in Workers : Rotate(w)
  <2>1. PICK w \in Workers : Rotate(w)
    BY <1>7
  <2> QED
    BY <2>1, RotateFacts
<1>8. CASE \E w \in Workers : RefreshCache(w)
  BY <1>8 DEF RefreshCache, Excuse, LeavesKey, Proceed
<1>9. CASE \E w \in Workers : RefreshAnswer(w)
  BY <1>9 DEF RefreshAnswer, Done, Goto
<1>10. CASE \E w \in Workers, s \in Sessions : Logout(w, s)
  BY <1>10 DEF Logout, Accepted, On, Goto
<1>11. CASE \E w \in Workers : RevokeRow(w)
  BY <1>11 DEF RevokeRow, Proceed
<1>12. CASE \E w \in Workers : RevokeKey(w)
  BY <1>12 DEF RevokeKey, Proceed
<1>13. CASE \E w \in Workers : Unlist(w)
  BY <1>13 DEF Unlist, Done, Goto
<1>14. CASE \E w \in Workers, byReset \in BOOLEAN : LogoutAll(w, byReset)
  BY <1>14 DEF LogoutAll, Unrevoked, Goto
<1>15. CASE \E w \in Workers : ListSessions(w)
  BY <1>15 DEF ListSessions, Goto
<1>16. CASE \E w \in Workers, s \in Sessions : DeleteKey(w, s)
  BY <1>16 DEF DeleteKey
<1>17. CASE \E w \in Workers : DeleteList(w)
  BY <1>17 DEF DeleteList, Proceed
<1>18. CASE \E w \in Workers : RevokeRows(w)
  BY <1>18 DEF RevokeRows, Unrevoked, Done, Goto
<1>19. CASE \E w \in Workers : Crash(w)
  BY <1>19 DEF Crash, Done, Goto, Refreshing
<1>20. CASE Expiry
  BY <1>20 DEF Expiry, ExpireRow, ExpireKey, ExpireList, ExpireJwt
<1> QED
  BY <1>1, <1>2, <1>3, <1>4, <1>5, <1>6, <1>7, <1>8, <1>9, <1>10, <1>11, <1>12, <1>13, <1>14, <1>15, <1>16, <1>17, <1>18, <1>19, <1>20 DEF Next, Request, HandlerStep

\* Of the refreshes of a session that have not overlapped, one is on its way.
LEMMA OneRefreshStep == ASSUME IInv, Next PROVE OneRefresh'
<1> USE ConstantsAssumption DEF IInv, OneRefresh, Doing, history, TypeOK, Work, Refresh, Refreshing, EndingAll, RowsKnown, HonestIsNotReuse, UnderRefresh
<1>1. CASE \E w \in Workers, s \in Sessions : LoginSave(w, s)
  BY <1>1 DEF LoginSave, CanRotate, Fresh, On, Goto
<1>2. CASE \E w \in Workers, agent \in Agents : LoginCache(w, agent)
  BY <1>2 DEF LoginCache, Excuse, LeavesKey, Proceed
<1>3. CASE \E w \in Workers : LoginList(w)
  BY <1>3 DEF LoginList, Done, Goto
<1>4. CASE \E w \in Workers, s \in Sessions, agent \in Agents : RefreshBegin(w, s, agent)
  BY <1>4 DEF RefreshBegin, On, Goto
<1>5. CASE \E w \in Workers : RefreshCheck(w)
  BY <1>5 DEF RefreshCheck, Proceed, Done, Goto
<1>6. CASE \E w \in Workers : RevokeFamily(w)
  BY <1>6 DEF RevokeFamily, Done, Goto
<1>7. CASE \E w \in Workers : Rotate(w)
  <2>1. PICK w \in Workers : Rotate(w)
    BY <1>7
  <2> QED
    BY <2>1, RotateFacts
<1>8. CASE \E w \in Workers : RefreshCache(w)
  BY <1>8 DEF RefreshCache, Excuse, LeavesKey, Proceed
<1>9. CASE \E w \in Workers : RefreshAnswer(w)
  BY <1>9 DEF RefreshAnswer, Done, Goto
<1>10. CASE \E w \in Workers, s \in Sessions : Logout(w, s)
  BY <1>10 DEF Logout, Accepted, On, Goto
<1>11. CASE \E w \in Workers : RevokeRow(w)
  BY <1>11 DEF RevokeRow, Proceed
<1>12. CASE \E w \in Workers : RevokeKey(w)
  BY <1>12 DEF RevokeKey, Proceed
<1>13. CASE \E w \in Workers : Unlist(w)
  BY <1>13 DEF Unlist, Done, Goto
<1>14. CASE \E w \in Workers, byReset \in BOOLEAN : LogoutAll(w, byReset)
  BY <1>14 DEF LogoutAll, Unrevoked, Goto
<1>15. CASE \E w \in Workers : ListSessions(w)
  BY <1>15 DEF ListSessions, Goto
<1>16. CASE \E w \in Workers, s \in Sessions : DeleteKey(w, s)
  BY <1>16 DEF DeleteKey
<1>17. CASE \E w \in Workers : DeleteList(w)
  BY <1>17 DEF DeleteList, Proceed
<1>18. CASE \E w \in Workers : RevokeRows(w)
  BY <1>18 DEF RevokeRows, Unrevoked, Done, Goto
<1>19. CASE \E w \in Workers : Crash(w)
  BY <1>19 DEF Crash, Done, Goto
<1>20. CASE Expiry
  BY <1>20 DEF Expiry, ExpireRow, ExpireKey, ExpireList, ExpireJwt
<1> QED
  BY <1>1, <1>2, <1>3, <1>4, <1>5, <1>6, <1>7, <1>8, <1>9, <1>10, <1>11, <1>12, <1>13, <1>14, <1>15, <1>16, <1>17, <1>18, <1>19, <1>20 DEF Next, Request, HandlerStep

\* A session whose key logoutAll has deleted stays without one.
LEMMA DeletedStaysStep == ASSUME IInv, Next PROVE DeletedStays'
<1> USE ConstantsAssumption DEF IInv, DeletedStays, Doing, history, TypeOK, Work, Refresh, EndingAll, LeavesKey
<1>1. CASE \E w \in Workers, s \in Sessions : LoginSave(w, s)
  BY <1>1 DEF LoginSave, CanRotate, Fresh, On, Goto
<1>2. CASE \E w \in Workers, agent \in Agents : LoginCache(w, agent)
  BY <1>2 DEF LoginCache, Excuse, Proceed
<1>3. CASE \E w \in Workers : LoginList(w)
  BY <1>3 DEF LoginList, Done, Goto
<1>4. CASE \E w \in Workers, s \in Sessions, agent \in Agents : RefreshBegin(w, s, agent)
  BY <1>4 DEF RefreshBegin, UnderRefresh, On, Goto
<1>5. CASE \E w \in Workers : RefreshCheck(w)
  BY <1>5 DEF RefreshCheck, Proceed, Done, Goto
<1>6. CASE \E w \in Workers : RevokeFamily(w)
  BY <1>6 DEF RevokeFamily, Done, Goto
<1>7. CASE \E w \in Workers : Rotate(w)
  BY <1>7 DEF Rotate, CanRotate, Fresh, Goto
<1>8. CASE \E w \in Workers : RefreshCache(w)
  BY <1>8 DEF RefreshCache, Excuse, Proceed
<1>9. CASE \E w \in Workers : RefreshAnswer(w)
  BY <1>9 DEF RefreshAnswer, Done, Goto
<1>10. CASE \E w \in Workers, s \in Sessions : Logout(w, s)
  BY <1>10 DEF Logout, Accepted, On, Goto
<1>11. CASE \E w \in Workers : RevokeRow(w)
  BY <1>11 DEF RevokeRow, Proceed
<1>12. CASE \E w \in Workers : RevokeKey(w)
  BY <1>12 DEF RevokeKey, Proceed
<1>13. CASE \E w \in Workers : Unlist(w)
  BY <1>13 DEF Unlist, Done, Goto
<1>14. CASE \E w \in Workers, byReset \in BOOLEAN : LogoutAll(w, byReset)
  BY <1>14 DEF LogoutAll, Unrevoked, Goto
<1>15. CASE \E w \in Workers : ListSessions(w)
  BY <1>15 DEF ListSessions, Goto
<1>16. CASE \E w \in Workers, s \in Sessions : DeleteKey(w, s)
  BY <1>16 DEF DeleteKey
<1>17. CASE \E w \in Workers : DeleteList(w)
  BY <1>17 DEF DeleteList, Proceed
<1>18. CASE \E w \in Workers : RevokeRows(w)
  BY <1>18 DEF RevokeRows, Unrevoked, Done, Goto
<1>19. CASE \E w \in Workers : Crash(w)
  BY <1>19 DEF Crash, Done, Goto, Refreshing
<1>20. CASE Expiry
  BY <1>20 DEF Expiry, ExpireRow, ExpireKey, ExpireList, ExpireJwt
<1> QED
  BY <1>1, <1>2, <1>3, <1>4, <1>5, <1>6, <1>7, <1>8, <1>9, <1>10, <1>11, <1>12, <1>13, <1>14, <1>15, <1>16, <1>17, <1>18, <1>19, <1>20 DEF Next, Request, HandlerStep

\* Only a token that was given up is taken for a stolen one.
LEMMA HonestStep == ASSUME IInv, Next PROVE HonestIsNotReuse'
<1> USE ConstantsAssumption DEF IInv, HonestIsNotReuse, Doing, history, TypeOK, Work, Refresh, Refreshing, UnderRefresh, OneRefresh, RowsKnown
<1>1. CASE \E w \in Workers, s \in Sessions : LoginSave(w, s)
  BY <1>1 DEF LoginSave, CanRotate, Fresh, On, Goto
<1>2. CASE \E w \in Workers, agent \in Agents : LoginCache(w, agent)
  BY <1>2 DEF LoginCache, Excuse, LeavesKey, Proceed
<1>3. CASE \E w \in Workers : LoginList(w)
  BY <1>3 DEF LoginList, Done, Goto
<1>4. CASE \E w \in Workers, s \in Sessions, agent \in Agents : RefreshBegin(w, s, agent)
  BY <1>4 DEF RefreshBegin, On, Goto
<1>5. CASE \E w \in Workers : RefreshCheck(w)
  <2>1. PICK w \in Workers : RefreshCheck(w)
    BY <1>5
  <2>2. work[w].session \in Sessions /\ Refreshing(w)
    BY <2>1 DEF RefreshCheck
  <2>3. \/ work' = [work EXCEPT ![w] = Idle]
        \/ work' = [work EXCEPT ![w].op = "rotate"]
        \/ work' = [work EXCEPT ![w].op = "reused"] /\ work[w].token # token[work[w].session]
    BY <2>1 DEF RefreshCheck, Proceed, Done, Goto
  <2>4. \/ work'[w] = Idle
        \/ work'[w].session = work[w].session /\ work'[w].op = "rotate" /\ work'[w] # Idle
        \/ /\ work'[w].session = work[w].session /\ work'[w].op = "reused" /\ work'[w] # Idle
           /\ work[w].session \in crossed
    BY <2>2, <2>3
  <2>5. \A v \in Workers : v # w => work'[v] = work[v]
    BY <2>3
  <2>6. UNCHANGED <<cookie, token, crossed>>
    BY <2>1 DEF RefreshCheck
  <2>7. ASSUME NEW s \in Sessions \ crossed', cookie'[s] # NoToken, ~UnderRefresh(s)'
        PROVE  cookie'[s] = token'[s]
    <3>1. work[w].session = s => cookie[s] = token[s]
      BY <2>1, <2>2, <2>6, <2>7 DEF RefreshCheck
    <3> QED
      BY <2>2, <2>4, <2>5, <2>6, <2>7, <3>1
  <2>8. \A v \in Workers : Doing(v, "reused")' => work'[v].session \in crossed'
    BY <2>4, <2>5, <2>6
  <2> QED
    BY <2>7, <2>8
<1>6. CASE \E w \in Workers : RevokeFamily(w)
  BY <1>6 DEF RevokeFamily, Done, Goto
<1>7. CASE \E w \in Workers : Rotate(w)
  <2>1. PICK w \in Workers : Rotate(w)
    BY <1>7
  <2> QED
    BY <2>1, RotateFacts
<1>8. CASE \E w \in Workers : RefreshCache(w)
  BY <1>8 DEF RefreshCache, Excuse, LeavesKey, Proceed
<1>9. CASE \E w \in Workers : RefreshAnswer(w)
  BY <1>9 DEF RefreshAnswer, Done, Goto
<1>10. CASE \E w \in Workers, s \in Sessions : Logout(w, s)
  BY <1>10 DEF Logout, Accepted, On, Goto
<1>11. CASE \E w \in Workers : RevokeRow(w)
  BY <1>11 DEF RevokeRow, Proceed
<1>12. CASE \E w \in Workers : RevokeKey(w)
  BY <1>12 DEF RevokeKey, Proceed
<1>13. CASE \E w \in Workers : Unlist(w)
  BY <1>13 DEF Unlist, Done, Goto
<1>14. CASE \E w \in Workers, byReset \in BOOLEAN : LogoutAll(w, byReset)
  BY <1>14 DEF LogoutAll, Unrevoked, Goto
<1>15. CASE \E w \in Workers : ListSessions(w)
  BY <1>15 DEF ListSessions, Goto
<1>16. CASE \E w \in Workers, s \in Sessions : DeleteKey(w, s)
  BY <1>16 DEF DeleteKey
<1>17. CASE \E w \in Workers : DeleteList(w)
  BY <1>17 DEF DeleteList, Proceed
<1>18. CASE \E w \in Workers : RevokeRows(w)
  BY <1>18 DEF RevokeRows, Unrevoked, Done, Goto
<1>19. CASE \E w \in Workers : Crash(w)
  BY <1>19 DEF Crash, Done, Goto, EndingAll
<1>20. CASE Expiry
  BY <1>20 DEF Expiry, ExpireRow, ExpireKey, ExpireList, ExpireJwt
<1> QED
  BY <1>1, <1>2, <1>3, <1>4, <1>5, <1>6, <1>7, <1>8, <1>9, <1>10, <1>11, <1>12, <1>13, <1>14, <1>15, <1>16, <1>17, <1>18, <1>19, <1>20 DEF Next, Request, HandlerStep

\* A revocation deletes the key, or is one of the cases that leave it.
LEMMA LeaksStep == ASSUME IInv, Next PROVE OnlyKnownLeaks'
<1> USE ConstantsAssumption DEF IInv, OnlyKnownLeaks, Doing, history, TypeOK, Work, Refresh, EndingAll, DeletedStays, LeavesKey
<1>1. CASE \E w \in Workers, s \in Sessions : LoginSave(w, s)
  BY <1>1 DEF LoginSave, CanRotate, Fresh, On, Goto
<1>2. CASE \E w \in Workers, agent \in Agents : LoginCache(w, agent)
  BY <1>2 DEF LoginCache, Excuse, Proceed
<1>3. CASE \E w \in Workers : LoginList(w)
  BY <1>3 DEF LoginList, Done, Goto
<1>4. CASE \E w \in Workers, s \in Sessions, agent \in Agents : RefreshBegin(w, s, agent)
  BY <1>4 DEF RefreshBegin, UnderRefresh, On, Goto
<1>5. CASE \E w \in Workers : RefreshCheck(w)
  BY <1>5 DEF RefreshCheck, Proceed, Done, Goto
<1>6. CASE \E w \in Workers : RevokeFamily(w)
  BY <1>6 DEF RevokeFamily, Done, Goto
<1>7. CASE \E w \in Workers : Rotate(w)
  BY <1>7 DEF Rotate, CanRotate, Fresh, Goto
<1>8. CASE \E w \in Workers : RefreshCache(w)
  BY <1>8 DEF RefreshCache, Excuse, Proceed
<1>9. CASE \E w \in Workers : RefreshAnswer(w)
  BY <1>9 DEF RefreshAnswer, Done, Goto
<1>10. CASE \E w \in Workers, s \in Sessions : Logout(w, s)
  BY <1>10 DEF Logout, Accepted, On, Goto
<1>11. CASE \E w \in Workers : RevokeRow(w)
  BY <1>11 DEF RevokeRow, Proceed
<1>12. CASE \E w \in Workers : RevokeKey(w)
  BY <1>12 DEF RevokeKey, Proceed
<1>13. CASE \E w \in Workers : Unlist(w)
  BY <1>13 DEF Unlist, Done, Goto
<1>14. CASE \E w \in Workers, byReset \in BOOLEAN : LogoutAll(w, byReset)
  BY <1>14 DEF LogoutAll, Unrevoked, Goto
<1>15. CASE \E w \in Workers : ListSessions(w)
  BY <1>15 DEF ListSessions, Goto
<1>16. CASE \E w \in Workers, s \in Sessions : DeleteKey(w, s)
  BY <1>16 DEF DeleteKey
<1>17. CASE \E w \in Workers : DeleteList(w)
  BY <1>17 DEF DeleteList, Proceed
<1>18. CASE \E w \in Workers : RevokeRows(w)
  BY <1>18 DEF RevokeRows, Unrevoked, Done, Goto
<1>19. CASE \E w \in Workers : Crash(w)
  BY <1>19 DEF Crash, Done, Goto, Refreshing
<1>20. CASE Expiry
  BY <1>20 DEF Expiry, ExpireRow, ExpireKey, ExpireList, ExpireJwt
<1> QED
  BY <1>1, <1>2, <1>3, <1>4, <1>5, <1>6, <1>7, <1>8, <1>9, <1>10, <1>11, <1>12, <1>13, <1>14, <1>15, <1>16, <1>17, <1>18, <1>19, <1>20 DEF Next, Request, HandlerStep

\* The rows logoutAll listed are revoked by it.
LEMMA LogoutAllStep == ASSUME IInv, Next PROVE LogoutAllEnds'
<1> USE ConstantsAssumption DEF IInv, LogoutAllEnds, Doing, history, TypeOK, Work, Refresh, EndingAll, RowsKnown
<1>1. CASE \E w \in Workers, s \in Sessions : LoginSave(w, s)
  BY <1>1 DEF LoginSave, CanRotate, Fresh, On, Goto
<1>2. CASE \E w \in Workers, agent \in Agents : LoginCache(w, agent)
  BY <1>2 DEF LoginCache, Excuse, LeavesKey, Proceed
<1>3. CASE \E w \in Workers : LoginList(w)
  BY <1>3 DEF LoginList, Done, Goto
<1>4. CASE \E w \in Workers, s \in Sessions, agent \in Agents : RefreshBegin(w, s, agent)
  BY <1>4 DEF RefreshBegin, UnderRefresh, On, Goto
<1>5. CASE \E w \in Workers : RefreshCheck(w)
  BY <1>5 DEF RefreshCheck, Proceed, Done, Goto
<1>6. CASE \E w \in Workers : RevokeFamily(w)
  BY <1>6 DEF RevokeFamily, Done, Goto
<1>7. CASE \E w \in Workers : Rotate(w)
  BY <1>7 DEF Rotate, CanRotate, Fresh, Goto
<1>8. CASE \E w \in Workers : RefreshCache(w)
  BY <1>8 DEF RefreshCache, Excuse, LeavesKey, Proceed
<1>9. CASE \E w \in Workers : RefreshAnswer(w)
  BY <1>9 DEF RefreshAnswer, Done, Goto
<1>10. CASE \E w \in Workers, s \in Sessions : Logout(w, s)
  BY <1>10 DEF Logout, Accepted, On, Goto
<1>11. CASE \E w \in Workers : RevokeRow(w)
  BY <1>11 DEF RevokeRow, Proceed
<1>12. CASE \E w \in Workers : RevokeKey(w)
  BY <1>12 DEF RevokeKey, Proceed
<1>13. CASE \E w \in Workers : Unlist(w)
  BY <1>13 DEF Unlist, Done, Goto
<1>14. CASE \E w \in Workers, byReset \in BOOLEAN : LogoutAll(w, byReset)
  BY <1>14 DEF LogoutAll, Unrevoked, Goto
<1>15. CASE \E w \in Workers : ListSessions(w)
  BY <1>15 DEF ListSessions, Goto
<1>16. CASE \E w \in Workers, s \in Sessions : DeleteKey(w, s)
  BY <1>16 DEF DeleteKey
<1>17. CASE \E w \in Workers : DeleteList(w)
  BY <1>17 DEF DeleteList, Proceed
<1>18. CASE \E w \in Workers : RevokeRows(w)
  BY <1>18 DEF RevokeRows, Unrevoked, Done, Goto
<1>19. CASE \E w \in Workers : Crash(w)
  BY <1>19 DEF Crash, Done, Goto, Refreshing
<1>20. CASE Expiry
  BY <1>20 DEF Expiry, ExpireRow, ExpireKey, ExpireList, ExpireJwt
<1> QED
  BY <1>1, <1>2, <1>3, <1>4, <1>5, <1>6, <1>7, <1>8, <1>9, <1>10, <1>11, <1>12, <1>13, <1>14, <1>15, <1>16, <1>17, <1>18, <1>19, <1>20 DEF Next, Request, HandlerStep

LEMMA InitIInv == Init => IInv
BY ConstantsAssumption DEF Init, IInv, TypeOK, RowsKnown, OneRefresh, DeletedStays,
   HonestIsNotReuse, OnlyKnownLeaks, LogoutAllEnds, Doing, Refreshing, EndingAll

LEMMA StutterStep == ASSUME IInv, UNCHANGED vars PROVE IInv'
BY DEF vars, IInv, TypeOK, RowsKnown, OneRefresh, DeletedStays, HonestIsNotReuse,
   OnlyKnownLeaks, LogoutAllEnds, Doing, Refreshing, EndingAll, UnderRefresh

LEMMA Inductive == IInv /\ [Next]_vars => IInv'
<1>1. ASSUME IInv, Next PROVE IInv'
  BY <1>1, TypeStep, RowsKnownStep, OneRefreshStep, DeletedStaysStep, HonestStep,
     LeaksStep, LogoutAllStep DEF IInv
<1> QED
  BY <1>1, StutterStep

\* The invariants, for any number of sessions and requests.
THEOREM Invariance == Spec => []IInv
<1> QED
  BY InitIInv, Inductive, PTL DEF Spec

\* Type correctness.
THEOREM TypeCorrect == Spec => []TypeOK
BY Invariance, PTL DEF IInv

\* An honest client is never taken for a thief, overlaps and lost answers aside.
THEOREM HonestClient == Spec => []HonestIsNotReuse
BY Invariance, PTL DEF IInv

\* What a revocation may leave in Redis.
THEOREM Leaks == Spec => []OnlyKnownLeaks
BY Invariance, PTL DEF IInv

\* logoutAll ends what it found.
THEOREM AllEnd == Spec => []LogoutAllEnds
BY Invariance, PTL DEF IInv

LEMMA RevokedStays ==
    ASSUME IInv, Next, NEW s \in Sessions, status[s] = "revoked"
    PROVE  status'[s] = "revoked"
<1> USE DEF IInv, TypeOK, Next, Request, HandlerStep, Expiry, history
<1>1. CASE \E w \in Workers : Request(w)
  BY <1>1 DEF LoginSave, Logout, RefreshBegin, LogoutAll
<1>2. CASE \E w \in Workers : HandlerStep(w)
  BY <1>2 DEF LoginCache, LoginList, RefreshCheck, RevokeFamily, Rotate, RefreshCache,
     RefreshAnswer, RevokeRow, RevokeKey, Unlist, ListSessions, DeleteKey, DeleteList,
     RevokeRows, Unrevoked
<1>3. CASE \E w \in Workers : Crash(w)
  BY <1>3 DEF Crash
<1>4. CASE Expiry
  BY <1>4 DEF ExpireRow, ExpireKey, ExpireList, ExpireJwt
<1> QED
  BY <1>1, <1>2, <1>3, <1>4

\* Revocation is final.
THEOREM RevokedForGood == Spec => RevocationIsFinal
<1>1. IInv /\ [Next]_vars => [\A s \in Sessions : status[s] = "revoked" => status'[s] = "revoked"]_vars
  BY RevokedStays
<1> QED
  BY <1>1, Invariance, PTL DEF Spec, RevocationIsFinal

===============================================================================
