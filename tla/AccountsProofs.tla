---------------------------- MODULE AccountsProofs ----------------------------
(***************************************************************************)
(* The invariants of Accounts, for any number of overlapping requests.     *)
(* One lemma per conjunct of IInv, one case per action.                    *)
(***************************************************************************)
EXTENDS Accounts, TLAPS

\* A row stays a row under the updates the requests make.
LEMMA Edited ==
    ASSUME NEW r \in Row
    PROVE  /\ [r EXCEPT !.verified = TRUE, !.verifyToken = 0] \in Row
           /\ \A f \in 0 .. MaxFailed, b \in BOOLEAN :
                 [r EXCEPT !.failed = f, !.recent = b] \in Row
           /\ [r EXCEPT !.recent = FALSE] \in Row
           /\ \A t \in 0 .. MaxLinks : [r EXCEPT !.resetToken = t] \in Row
           /\ \A p \in 0 .. MaxResets :
                 [r EXCEPT !.password = p, !.resetToken = 0, !.failed = 0] \in Row
           /\ r.verified \in BOOLEAN
<1>1. 0 \in 0 .. MaxLinks /\ 0 \in 0 .. MaxFailed
  BY ConstantsAssumption
<1> QED
  BY <1>1 DEF Row

\* The row a sign-up inserts.
LEMMA Inserted ==
    ASSUME NEW b \in BOOLEAN, NEW t \in 0 .. MaxLinks
    PROVE  [password |-> 0, verified |-> b, verifyToken |-> t,
            resetToken |-> 0, failed |-> 0, recent |-> FALSE] \in Row
<1>1. 0 \in 0 .. MaxLinks /\ 0 \in 0 .. MaxFailed /\ 0 \in 0 .. MaxResets
  BY ConstantsAssumption
<1> QED
  BY <1>1 DEF Row

\* What a request may be doing, by what it needs.
LEMMA Steps ==
    /\ \A op \in {"register", "seed", "verify", "pass", "forgot"} : [op |-> op] \in Work
    /\ \A f \in 0 .. MaxFailed : [op |-> "miss", failed |-> f] \in Work
    /\ \A t \in 1 .. MaxLinks : [op |-> "reset", token |-> t] \in Work
    /\ \A e \in Row : [op |-> "profile", entity |-> e] \in Work
    /\ \A e \in Row, d \in SUBSET Columns : [op |-> "update", entity |-> e, diff |-> d] \in Work
BY DEF Work

\* What a request in a given step carries.
LEMMA Pending ==
    ASSUME NEW k \in Work
    PROVE  /\ k.op = "miss" => k.failed \in 0 .. MaxFailed
           /\ k.op = "reset" => k.token \in 1 .. MaxLinks
           /\ k.op = "profile" => k.entity \in Row
           /\ k.op = "update" => k.entity \in Row /\ k.diff \in SUBSET Columns
BY DEF Work

\* The type of the requests after a step of one.
LEMMA Going ==
    ASSUME TypeOK, NEW w \in Workers, NEW k \in Work \cup {Idle},
           work' = [work EXCEPT ![w] = k]
    PROVE  work' \in [Workers -> Work \cup {Idle}]
BY DEF TypeOK

\* A request that found the row can count on it: it is never deleted.
LEMMA Exists ==
    ASSUME Untouched, NEW w \in Workers,
           NEW op \in {"verify", "miss", "pass", "forgot", "reset", "profile", "update"},
           Doing(w, op)
    PROVE  Known
BY DEF Untouched, Doing

\* What save() writes: a row, the same row if nothing differs, and a verified
\* one if both the entity and the row are.
LEMMA MergedRow ==
    ASSUME TypeOK, Untouched, NEW w \in Workers, Doing(w, "update")
    PROVE  /\ row \in Row
           /\ Merged(work[w].entity, work[w].diff) \in Row
           /\ work[w].diff = {} => Merged(work[w].entity, work[w].diff) = row
           /\ work[w].entity.verified /\ row.verified
                 => Merged(work[w].entity, work[w].diff).verified
<1> DEFINE e == work[w].entity
           d == work[w].diff
<1>1. row \in Row
  BY Exists DEF TypeOK, Known
<1>2. e \in Row
  BY Pending DEF TypeOK, Doing
<1>3. /\ (IF "password" \in d THEN e.password ELSE row.password) \in 0 .. MaxResets
      /\ (IF "verified" \in d THEN e.verified ELSE row.verified) \in BOOLEAN
      /\ (IF "verifyToken" \in d THEN e.verifyToken ELSE row.verifyToken) \in 0 .. MaxLinks
      /\ (IF "resetToken" \in d THEN e.resetToken ELSE row.resetToken) \in 0 .. MaxLinks
      /\ (IF "failed" \in d THEN e.failed ELSE row.failed) \in 0 .. MaxFailed
      /\ (IF "recent" \in d THEN e.recent ELSE row.recent) \in BOOLEAN
  BY <1>1, <1>2 DEF Row
<1>4. Merged(e, d) \in Row
  BY <1>3 DEF Merged, Row
<1>5. d = {} => Merged(e, d) = row
  BY <1>1 DEF Merged, Row
<1>6. e.verified /\ row.verified => Merged(e, d).verified
  BY DEF Merged
<1> QED
  BY <1>1, <1>4, <1>5, <1>6

\* What the writes of the requests do to the columns the invariants are about.
LEMMA Effects ==
    ASSUME TypeOK, Untouched, NEW w \in Workers
    PROVE  /\ Verify(w) => /\ row \in Row /\ row' \in Row /\ row'.verified
                           /\ row'.resetToken = row.resetToken
           /\ LoginMiss(w) => /\ row \in Row /\ row' \in Row /\ row'.verified = row.verified
                              /\ row'.failed = Plus(work[w].failed)
                              /\ row'.resetToken = row.resetToken
           /\ LoginPass(w) => /\ row \in Row /\ row' \in Row /\ row'.verified = row.verified
           /\ Forgot(w) => /\ row \in Row /\ row' \in Row /\ row'.verified = row.verified
           /\ Reset(w) => /\ row \in Row /\ row' \in Row /\ row'.verified = row.verified
                          /\ row'.resetToken = 0
           /\ SaveWrite(w) => /\ row \in Row /\ row' \in Row
                              /\ ~clobbered' => row' = row
                              /\ work[w].entity.verified /\ row.verified => row'.verified
           /\ LockEnds => /\ row \in Row /\ row' \in Row /\ row'.verified = row.verified
<1> USE DEF TypeOK
<1>1. ASSUME Verify(w) PROVE row \in Row /\ row' \in Row /\ row'.verified
                             /\ row'.resetToken = row.resetToken
  <2>1. row \in Row
    BY <1>1, Exists DEF Verify, Known
  <2> QED
    BY <1>1, <2>1, Edited DEF Verify, Row
<1>2. ASSUME LoginMiss(w) PROVE /\ row \in Row /\ row' \in Row /\ row'.verified = row.verified
                                /\ row'.failed = Plus(work[w].failed)
                                /\ row'.resetToken = row.resetToken
  <2>1. row \in Row
    BY <1>2, Exists DEF LoginMiss, Known
  <2>2. Plus(work[w].failed) \in 0 .. MaxFailed
    BY <1>2, Pending, ConstantsAssumption DEF LoginMiss, Doing, Plus
  <2>3. row' \in Row
    BY <1>2, <2>1, <2>2, Edited DEF LoginMiss
  <2> HIDE DEF Plus
  <2> QED
    BY <1>2, <2>1, <2>3 DEF LoginMiss, Row
<1>3. ASSUME LoginPass(w) PROVE row \in Row /\ row' \in Row /\ row'.verified = row.verified
  <2>1. row \in Row /\ 0 \in 0 .. MaxFailed
    BY <1>3, Exists, ConstantsAssumption DEF LoginPass, Known
  <2> QED
    BY <1>3, <2>1, Edited DEF LoginPass, Row
<1>4. ASSUME Forgot(w) PROVE row \in Row /\ row' \in Row /\ row'.verified = row.verified
  <2>1. row \in Row /\ links' \in 0 .. MaxLinks
    BY <1>4, Exists, ConstantsAssumption DEF Forgot, NewLink, Known
  <2> QED
    BY <1>4, <2>1, Edited DEF Forgot, Row
<1>5. ASSUME Reset(w) PROVE row \in Row /\ row' \in Row /\ row'.verified = row.verified
                            /\ row'.resetToken = 0
  <2>1. row \in Row /\ resets + 1 \in 0 .. MaxResets
    BY <1>5, Exists, ConstantsAssumption DEF Reset, Set, Known
  <2>2. row' \in Row
    BY <1>5, <2>1, Edited DEF Reset, Set
  <2> QED
    BY <1>5, <2>1, <2>2 DEF Reset, Set, Row
<1>6. ASSUME SaveWrite(w) PROVE /\ row \in Row /\ row' \in Row
                                /\ ~clobbered' => row' = row
                                /\ work[w].entity.verified /\ row.verified => row'.verified
  BY <1>6, MergedRow DEF SaveWrite
<1>7. ASSUME LockEnds PROVE row \in Row /\ row' \in Row /\ row'.verified = row.verified
  BY <1>7, Edited DEF LockEnds, Known, Row
<1> QED
  BY <1>1, <1>2, <1>3, <1>4, <1>5, <1>6, <1>7

\* Every action keeps the types.
LEMMA TypeStep == ASSUME IInv, Next PROVE TypeOK'
<1> USE ConstantsAssumption DEF IInv, TypeOK
<1>1. CASE \E w \in Workers : Register(w)
  <2>1. PICK w \in Workers : Register(w)
    BY <1>1
  <2>2. work' \in [Workers -> Work \cup {Idle}]
    BY <2>1, Steps, Going DEF Register, Begin
  <2> QED
    BY <2>1, <2>2 DEF Register, Begin, history
<1>2. CASE \E w \in Workers : Seed(w)
  <2>1. PICK w \in Workers : Seed(w)
    BY <1>2
  <2>2. work' \in [Workers -> Work \cup {Idle}]
    BY <2>1, Steps, Going DEF Seed, Begin
  <2> QED
    BY <2>1, <2>2 DEF Seed, Begin, history
<1>3. CASE \E w \in Workers, byAdmin \in BOOLEAN : Insert(w, byAdmin)
  <2>1. PICK w \in Workers, byAdmin \in BOOLEAN : Insert(w, byAdmin)
    BY <1>3
  <2>2. work' \in [Workers -> Work \cup {Idle}]
    BY <2>1, Going DEF Insert, NewLink, Done
  <2>3. row' \in Row \cup {NoRow}
    <3>1. CASE Known
      BY <2>1, <3>1 DEF Insert
    <3>2. CASE ~Known
      <4>1. links' \in 0 .. MaxLinks
        BY <2>1, <3>2 DEF Insert, NewLink
      <4> QED
        BY <2>1, <3>2, <4>1, Inserted DEF Insert
    <3> QED
      BY <3>1, <3>2
  <2> QED
    BY <2>1, <2>2, <2>3 DEF Insert, NewLink, Done, history
<1>4. CASE \E w \in Workers : FindVerify(w)
  <2>1. PICK w \in Workers : FindVerify(w)
    BY <1>4
  <2>2. work' \in [Workers -> Work \cup {Idle}]
    BY <2>1, Steps, Going DEF FindVerify, Begin
  <2> QED
    BY <2>1, <2>2 DEF FindVerify, Begin, history
<1>5. CASE \E w \in Workers : Verify(w)
  <2>1. PICK w \in Workers : Verify(w)
    BY <1>5
  <2>2. work' \in [Workers -> Work \cup {Idle}]
    BY <2>1, Going DEF Verify, Done
  <2>3. row' \in Row
    BY <2>1, Effects
  <2> QED
    BY <2>1, <2>2, <2>3 DEF Verify, Done, history
<1>6. CASE \E w \in Workers, right \in BOOLEAN : Login(w, right)
  <2>1. PICK w \in Workers, right \in BOOLEAN : Login(w, right)
    BY <1>6
  <2>2. work' \in [Workers -> Work \cup {Idle}]
    <3>1. [op |-> "pass"] \in Work /\ [op |-> "miss", failed |-> row.failed] \in Work
      BY <2>1, Steps DEF Login, Known, Row
    <3> QED
      BY <2>1, <3>1, Going DEF Login, Begin
  <2> QED
    BY <2>1, <2>2 DEF Login, Begin, history
<1>7. CASE \E w \in Workers : LoginMiss(w)
  <2>1. PICK w \in Workers : LoginMiss(w)
    BY <1>7
  <2>2. work' \in [Workers -> Work \cup {Idle}]
    BY <2>1, Going DEF LoginMiss, Plus, Done
  <2>3. row' \in Row
    BY <2>1, Effects
  <2> QED
    BY <2>1, <2>2, <2>3 DEF LoginMiss, Plus, Done, history
<1>8. CASE \E w \in Workers : LoginPass(w)
  <2>1. PICK w \in Workers : LoginPass(w)
    BY <1>8
  <2>2. work' \in [Workers -> Work \cup {Idle}]
    BY <2>1, Going DEF LoginPass, Done
  <2>3. row' \in Row
    BY <2>1, Effects
  <2>4. misses' \in 0 .. MaxFailed
    BY <2>1, ConstantsAssumption DEF LoginPass
  <2> QED
    BY <2>1, <2>2, <2>3, <2>4 DEF LoginPass, Done, history
<1>9. CASE \E w \in Workers : FindForgot(w)
  <2>1. PICK w \in Workers : FindForgot(w)
    BY <1>9
  <2>2. work' \in [Workers -> Work \cup {Idle}]
    BY <2>1, Steps, Going DEF FindForgot, Begin
  <2> QED
    BY <2>1, <2>2 DEF FindForgot, Begin, history
<1>10. CASE \E w \in Workers : Forgot(w)
  <2>1. PICK w \in Workers : Forgot(w)
    BY <1>10
  <2>2. work' \in [Workers -> Work \cup {Idle}]
    BY <2>1, Going DEF Forgot, NewLink, Done
  <2>3. row' \in Row
    BY <2>1, Effects
  <2> QED
    BY <2>1, <2>2, <2>3 DEF Forgot, NewLink, Done, history
<1>11. CASE \E w \in Workers : FindReset(w)
  <2>1. PICK w \in Workers : FindReset(w)
    BY <1>11
  <2>2. work' \in [Workers -> Work \cup {Idle}]
    <3>1. [op |-> "reset", token |-> row.resetToken] \in Work /\ row.resetToken \in 1 .. MaxLinks
      BY <2>1, Steps, ConstantsAssumption DEF FindReset, Known, Row
    <3> QED
      BY <2>1, <3>1, Going DEF FindReset, Begin
  <2>3. row.resetToken \in 1 .. MaxLinks
    BY <2>1, ConstantsAssumption DEF FindReset, Known, Row
  <2> QED
    BY <2>1, <2>2, <2>3 DEF FindReset, Begin
<1>12. CASE \E w \in Workers : Reset(w)
  <2>1. PICK w \in Workers : Reset(w)
    BY <1>12
  <2>2. work' \in [Workers -> Work \cup {Idle}]
    BY <2>1, Going DEF Reset, Set, Done
  <2>3. row' \in Row /\ work[w].token \in 1 .. MaxLinks
    BY <2>1, Effects, Pending DEF Reset, Set, Doing
  <2>4. resets' \in 0 .. MaxResets /\ misses' \in 0 .. MaxFailed
    BY <2>1, ConstantsAssumption DEF Reset, Set
  <2>5. spent' \subseteq 1 .. MaxLinks /\ twice' \subseteq spent'
    BY <2>1, <2>3 DEF Reset, Set
  <2> QED
    BY <2>1, <2>2, <2>3, <2>4, <2>5 DEF Reset, Set
<1>13. CASE \E w \in Workers : FindUser(w)
  <2>1. PICK w \in Workers : FindUser(w)
    BY <1>13
  <2>2. work' \in [Workers -> Work \cup {Idle}]
    <3>1. [op |-> "profile", entity |-> row] \in Work
      BY <2>1, Steps DEF FindUser, SessionsVerified, Known
    <3> QED
      BY <2>1, <3>1, Going DEF FindUser, Begin
  <2> QED
    BY <2>1, <2>2 DEF FindUser, Begin, history
<1>14. CASE \E w \in Workers : SaveCompare(w)
  <2>1. PICK w \in Workers : SaveCompare(w)
    BY <1>14
  <2>2. work' \in [Workers -> Work \cup {Idle}]
    <3>1. work[w].entity \in Row
      BY <2>1, Pending DEF SaveCompare, Doing
    <3>2. [op |-> "update", entity |-> work[w].entity,
           diff |-> {c \in Columns : work[w].entity[c] # row[c]}] \in Work
      BY <3>1, Steps
    <3> QED
      BY <2>1, <3>2, Going DEF SaveCompare
  <2> QED
    BY <2>1, <2>2 DEF SaveCompare, history
<1>15. CASE \E w \in Workers : SaveWrite(w)
  <2>1. PICK w \in Workers : SaveWrite(w)
    BY <1>15
  <2>2. work' \in [Workers -> Work \cup {Idle}]
    BY <2>1, Going DEF SaveWrite, Done
  <2>3. row' \in Row
    BY <2>1, MergedRow DEF SaveWrite
  <2> QED
    BY <2>1, <2>2, <2>3 DEF SaveWrite, Done, history
<1>16. CASE \E w \in Workers : Fail(w)
  <2>1. PICK w \in Workers : Fail(w)
    BY <1>16
  <2>2. work' \in [Workers -> Work \cup {Idle}]
    BY <2>1, Going DEF Fail, Done
  <2> QED
    BY <2>1, <2>2 DEF Fail, Done, history
<1>17. CASE LockEnds
  <2>1. row' \in Row
    BY <1>17, Edited DEF LockEnds, Known
  <2> QED
    BY <1>17, <2>1 DEF LockEnds, history
<1> QED
  BY <1>1, <1>2, <1>3, <1>4, <1>5, <1>6, <1>7, <1>8, <1>9, <1>10, <1>11, <1>12, <1>13, <1>14, <1>15, <1>16, <1>17 DEF Next, SignUp, SeedAdmin, SignIn, ChangePassword, SaveProfile

\* A token that has been spent sets a password again only if it was shared.
LEMMA PasswordStep == ASSUME IInv, Next PROVE NewPasswordStays'
<1> USE ConstantsAssumption DEF IInv, NewPasswordStays, TypeOK, Known, Doing, history, Row, SpentRaced, Untouched
<1>1. CASE \E w \in Workers : Register(w)
  BY <1>1 DEF Register, Begin
<1>2. CASE \E w \in Workers : Seed(w)
  BY <1>2 DEF Seed, Begin
<1>3. CASE \E w \in Workers, byAdmin \in BOOLEAN : Insert(w, byAdmin)
  BY <1>3 DEF Insert, NewLink, Done
<1>4. CASE \E w \in Workers : FindVerify(w)
  BY <1>4 DEF FindVerify, Begin
<1>5. CASE \E w \in Workers : Verify(w)
  BY <1>5 DEF Verify, Done
<1>6. CASE \E w \in Workers, right \in BOOLEAN : Login(w, right)
  BY <1>6 DEF Login, Begin
<1>7. CASE \E w \in Workers : LoginMiss(w)
  BY <1>7 DEF LoginMiss, Plus, Done
<1>8. CASE \E w \in Workers : LoginPass(w)
  BY <1>8 DEF LoginPass, Done
<1>9. CASE \E w \in Workers : FindForgot(w)
  BY <1>9 DEF FindForgot, Begin
<1>10. CASE \E w \in Workers : Forgot(w)
  BY <1>10 DEF Forgot, NewLink, Done
<1>11. CASE \E w \in Workers : FindReset(w)
  BY <1>11 DEF FindReset, Begin
<1>12. CASE \E w \in Workers : Reset(w)
  BY <1>12 DEF Reset, Set, Done
<1>13. CASE \E w \in Workers : FindUser(w)
  BY <1>13 DEF FindUser, Begin
<1>14. CASE \E w \in Workers : SaveCompare(w)
  BY <1>14 DEF SaveCompare
<1>15. CASE \E w \in Workers : SaveWrite(w)
  <2>1. PICK w \in Workers : SaveWrite(w)
    BY <1>15
  <2>2. /\ row \in Row /\ row' \in Row
        /\ ~clobbered' => row' = row /\ ~clobbered
    BY <2>1, Effects DEF SaveWrite
  <2> QED
    BY <2>1, <2>2 DEF SaveWrite, Done
<1>16. CASE \E w \in Workers : Fail(w)
  BY <1>16 DEF Fail, Done
<1>17. CASE LockEnds
  BY <1>17 DEF LockEnds
<1> QED
  BY <1>1, <1>2, <1>3, <1>4, <1>5, <1>6, <1>7, <1>8, <1>9, <1>10, <1>11, <1>12, <1>13, <1>14, <1>15, <1>16, <1>17 DEF Next, SignUp, SeedAdmin, SignIn, ChangePassword, SaveProfile

\* The row counts what has happened, unless one failure was counted from a stale value.
LEMMA CountStep == ASSUME IInv, Next PROVE CountIsExact'
<1> USE ConstantsAssumption DEF IInv, CountIsExact, TypeOK, Known, Doing, history, Row, Untouched
<1>1. CASE \E w \in Workers : Register(w)
  BY <1>1 DEF Register, Begin
<1>2. CASE \E w \in Workers : Seed(w)
  BY <1>2 DEF Seed, Begin
<1>3. CASE \E w \in Workers, byAdmin \in BOOLEAN : Insert(w, byAdmin)
  BY <1>3 DEF Insert, NewLink, Done
<1>4. CASE \E w \in Workers : FindVerify(w)
  BY <1>4 DEF FindVerify, Begin
<1>5. CASE \E w \in Workers : Verify(w)
  BY <1>5 DEF Verify, Done
<1>6. CASE \E w \in Workers, right \in BOOLEAN : Login(w, right)
  BY <1>6 DEF Login, Begin
<1>7. CASE \E w \in Workers : LoginMiss(w)
  <2>1. PICK w \in Workers : LoginMiss(w)
    BY <1>7
  <2>2. row \in Row /\ row'.failed = Plus(work[w].failed)
    BY <2>1, Effects
  <2> QED
    BY <2>1, <2>2 DEF LoginMiss
<1>8. CASE \E w \in Workers : LoginPass(w)
  BY <1>8 DEF LoginPass, Done
<1>9. CASE \E w \in Workers : FindForgot(w)
  BY <1>9 DEF FindForgot, Begin
<1>10. CASE \E w \in Workers : Forgot(w)
  BY <1>10 DEF Forgot, NewLink, Done
<1>11. CASE \E w \in Workers : FindReset(w)
  BY <1>11 DEF FindReset, Begin
<1>12. CASE \E w \in Workers : Reset(w)
  BY <1>12 DEF Reset, Set, Done
<1>13. CASE \E w \in Workers : FindUser(w)
  BY <1>13 DEF FindUser, Begin
<1>14. CASE \E w \in Workers : SaveCompare(w)
  BY <1>14 DEF SaveCompare
<1>15. CASE \E w \in Workers : SaveWrite(w)
  <2>1. PICK w \in Workers : SaveWrite(w)
    BY <1>15
  <2>2. /\ row \in Row /\ row' \in Row
        /\ ~clobbered' => row' = row /\ ~clobbered
    BY <2>1, Effects DEF SaveWrite
  <2> QED
    BY <2>1, <2>2 DEF SaveWrite, Done
<1>16. CASE \E w \in Workers : Fail(w)
  BY <1>16 DEF Fail, Done
<1>17. CASE LockEnds
  BY <1>17 DEF LockEnds
<1> QED
  BY <1>1, <1>2, <1>3, <1>4, <1>5, <1>6, <1>7, <1>8, <1>9, <1>10, <1>11, <1>12, <1>13, <1>14, <1>15, <1>16, <1>17 DEF Next, SignUp, SeedAdmin, SignIn, ChangePassword, SaveProfile

\* Tokens are numbered as they are mailed.
LEMMA FreshStep == ASSUME IInv, Next PROVE TokensFresh'
<1> USE ConstantsAssumption DEF IInv, TokensFresh, TypeOK, Known, Doing, history, Row, Work, Untouched
<1>1. CASE \E w \in Workers : Register(w)
  BY <1>1 DEF Register, Begin
<1>2. CASE \E w \in Workers : Seed(w)
  BY <1>2 DEF Seed, Begin
<1>3. CASE \E w \in Workers, byAdmin \in BOOLEAN : Insert(w, byAdmin)
  BY <1>3 DEF Insert, NewLink, Done
<1>4. CASE \E w \in Workers : FindVerify(w)
  BY <1>4 DEF FindVerify, Begin
<1>5. CASE \E w \in Workers : Verify(w)
  BY <1>5 DEF Verify, Done
<1>6. CASE \E w \in Workers, right \in BOOLEAN : Login(w, right)
  BY <1>6 DEF Login, Begin
<1>7. CASE \E w \in Workers : LoginMiss(w)
  BY <1>7 DEF LoginMiss, Plus, Done
<1>8. CASE \E w \in Workers : LoginPass(w)
  BY <1>8 DEF LoginPass, Done
<1>9. CASE \E w \in Workers : FindForgot(w)
  BY <1>9 DEF FindForgot, Begin
<1>10. CASE \E w \in Workers : Forgot(w)
  BY <1>10 DEF Forgot, NewLink, Done
<1>11. CASE \E w \in Workers : FindReset(w)
  BY <1>11 DEF FindReset, Begin
<1>12. CASE \E w \in Workers : Reset(w)
  BY <1>12 DEF Reset, Set, Done
<1>13. CASE \E w \in Workers : FindUser(w)
  BY <1>13 DEF FindUser, Begin
<1>14. CASE \E w \in Workers : SaveCompare(w)
  BY <1>14 DEF SaveCompare
<1>15. CASE \E w \in Workers : SaveWrite(w)
  <2>1. PICK w \in Workers : SaveWrite(w)
    BY <1>15
  <2>2. /\ row \in Row /\ row' \in Row
        /\ ~clobbered' => row' = row /\ ~clobbered
    BY <2>1, Effects DEF SaveWrite
  <2> QED
    BY <2>1, <2>2 DEF SaveWrite, Done
<1>16. CASE \E w \in Workers : Fail(w)
  BY <1>16 DEF Fail, Done
<1>17. CASE LockEnds
  BY <1>17 DEF LockEnds
<1> QED
  BY <1>1, <1>2, <1>3, <1>4, <1>5, <1>6, <1>7, <1>8, <1>9, <1>10, <1>11, <1>12, <1>13, <1>14, <1>15, <1>16, <1>17 DEF Next, SignUp, SeedAdmin, SignIn, ChangePassword, SaveProfile

\* A reset clears the token; a new link has a new one.
LEMMA GoneStep == ASSUME IInv, Next PROVE SpentGone'
<1> USE ConstantsAssumption DEF IInv, SpentGone, TypeOK, Known, Doing, history, Row, TokensFresh, Untouched
<1>1. CASE \E w \in Workers : Register(w)
  BY <1>1 DEF Register, Begin
<1>2. CASE \E w \in Workers : Seed(w)
  BY <1>2 DEF Seed, Begin
<1>3. CASE \E w \in Workers, byAdmin \in BOOLEAN : Insert(w, byAdmin)
  BY <1>3 DEF Insert, NewLink, Done
<1>4. CASE \E w \in Workers : FindVerify(w)
  BY <1>4 DEF FindVerify, Begin
<1>5. CASE \E w \in Workers : Verify(w)
  BY <1>5 DEF Verify, Done
<1>6. CASE \E w \in Workers, right \in BOOLEAN : Login(w, right)
  BY <1>6 DEF Login, Begin
<1>7. CASE \E w \in Workers : LoginMiss(w)
  BY <1>7 DEF LoginMiss, Plus, Done
<1>8. CASE \E w \in Workers : LoginPass(w)
  BY <1>8 DEF LoginPass, Done
<1>9. CASE \E w \in Workers : FindForgot(w)
  BY <1>9 DEF FindForgot, Begin
<1>10. CASE \E w \in Workers : Forgot(w)
  BY <1>10 DEF Forgot, NewLink, Done
<1>11. CASE \E w \in Workers : FindReset(w)
  BY <1>11 DEF FindReset, Begin
<1>12. CASE \E w \in Workers : Reset(w)
  <2>1. PICK w \in Workers : Reset(w)
    BY <1>12
  <2>2. row'.resetToken = 0 /\ work[w].token \in 1 .. MaxLinks
    BY <2>1, Effects, Pending DEF Reset, Set
  <2> QED
    BY <2>1, <2>2 DEF Reset, Set
<1>13. CASE \E w \in Workers : FindUser(w)
  BY <1>13 DEF FindUser, Begin
<1>14. CASE \E w \in Workers : SaveCompare(w)
  BY <1>14 DEF SaveCompare
<1>15. CASE \E w \in Workers : SaveWrite(w)
  <2>1. PICK w \in Workers : SaveWrite(w)
    BY <1>15
  <2>2. /\ row \in Row /\ row' \in Row
        /\ ~clobbered' => row' = row /\ ~clobbered
    BY <2>1, Effects DEF SaveWrite
  <2> QED
    BY <2>1, <2>2 DEF SaveWrite, Done
<1>16. CASE \E w \in Workers : Fail(w)
  BY <1>16 DEF Fail, Done
<1>17. CASE LockEnds
  BY <1>17 DEF LockEnds
<1> QED
  BY <1>1, <1>2, <1>3, <1>4, <1>5, <1>6, <1>7, <1>8, <1>9, <1>10, <1>11, <1>12, <1>13, <1>14, <1>15, <1>16, <1>17 DEF Next, SignUp, SeedAdmin, SignIn, ChangePassword, SaveProfile

\* Who holds a token when it is spent shared it with the spender.
LEMMA SpentStep == ASSUME IInv, Next PROVE SpentRaced'
<1> USE ConstantsAssumption DEF IInv, SpentRaced, TypeOK, Known, Doing, history, Work, SpentGone, SharedRaced
<1>1. CASE \E w \in Workers : Register(w)
  BY <1>1 DEF Register, Begin
<1>2. CASE \E w \in Workers : Seed(w)
  BY <1>2 DEF Seed, Begin
<1>3. CASE \E w \in Workers, byAdmin \in BOOLEAN : Insert(w, byAdmin)
  BY <1>3 DEF Insert, NewLink, Done
<1>4. CASE \E w \in Workers : FindVerify(w)
  BY <1>4 DEF FindVerify, Begin
<1>5. CASE \E w \in Workers : Verify(w)
  BY <1>5 DEF Verify, Done
<1>6. CASE \E w \in Workers, right \in BOOLEAN : Login(w, right)
  BY <1>6 DEF Login, Begin
<1>7. CASE \E w \in Workers : LoginMiss(w)
  BY <1>7 DEF LoginMiss, Plus, Done
<1>8. CASE \E w \in Workers : LoginPass(w)
  BY <1>8 DEF LoginPass, Done
<1>9. CASE \E w \in Workers : FindForgot(w)
  BY <1>9 DEF FindForgot, Begin
<1>10. CASE \E w \in Workers : Forgot(w)
  BY <1>10 DEF Forgot, NewLink, Done
<1>11. CASE \E w \in Workers : FindReset(w)
  BY <1>11 DEF FindReset, Begin
<1>12. CASE \E w \in Workers : Reset(w)
  BY <1>12 DEF Reset, Set, Done
<1>13. CASE \E w \in Workers : FindUser(w)
  BY <1>13 DEF FindUser, Begin
<1>14. CASE \E w \in Workers : SaveCompare(w)
  BY <1>14 DEF SaveCompare
<1>15. CASE \E w \in Workers : SaveWrite(w)
  BY <1>15 DEF SaveWrite, Done
<1>16. CASE \E w \in Workers : Fail(w)
  BY <1>16 DEF Fail, Done
<1>17. CASE LockEnds
  BY <1>17 DEF LockEnds
<1> QED
  BY <1>1, <1>2, <1>3, <1>4, <1>5, <1>6, <1>7, <1>8, <1>9, <1>10, <1>11, <1>12, <1>13, <1>14, <1>15, <1>16, <1>17 DEF Next, SignUp, SeedAdmin, SignIn, ChangePassword, SaveProfile

\* Who finds a token that is held shares it.
LEMMA SharedStep == ASSUME IInv, Next PROVE SharedRaced'
<1> USE ConstantsAssumption DEF IInv, SharedRaced, TypeOK, Known, Doing, history, Work
<1>1. CASE \E w \in Workers : Register(w)
  BY <1>1 DEF Register, Begin
<1>2. CASE \E w \in Workers : Seed(w)
  BY <1>2 DEF Seed, Begin
<1>3. CASE \E w \in Workers, byAdmin \in BOOLEAN : Insert(w, byAdmin)
  BY <1>3 DEF Insert, NewLink, Done
<1>4. CASE \E w \in Workers : FindVerify(w)
  BY <1>4 DEF FindVerify, Begin
<1>5. CASE \E w \in Workers : Verify(w)
  BY <1>5 DEF Verify, Done
<1>6. CASE \E w \in Workers, right \in BOOLEAN : Login(w, right)
  BY <1>6 DEF Login, Begin
<1>7. CASE \E w \in Workers : LoginMiss(w)
  BY <1>7 DEF LoginMiss, Plus, Done
<1>8. CASE \E w \in Workers : LoginPass(w)
  BY <1>8 DEF LoginPass, Done
<1>9. CASE \E w \in Workers : FindForgot(w)
  BY <1>9 DEF FindForgot, Begin
<1>10. CASE \E w \in Workers : Forgot(w)
  BY <1>10 DEF Forgot, NewLink, Done
<1>11. CASE \E w \in Workers : FindReset(w)
  BY <1>11 DEF FindReset, Begin
<1>12. CASE \E w \in Workers : Reset(w)
  BY <1>12 DEF Reset, Set, Done
<1>13. CASE \E w \in Workers : FindUser(w)
  BY <1>13 DEF FindUser, Begin
<1>14. CASE \E w \in Workers : SaveCompare(w)
  BY <1>14 DEF SaveCompare
<1>15. CASE \E w \in Workers : SaveWrite(w)
  BY <1>15 DEF SaveWrite, Done
<1>16. CASE \E w \in Workers : Fail(w)
  BY <1>16 DEF Fail, Done
<1>17. CASE LockEnds
  BY <1>17 DEF LockEnds
<1> QED
  BY <1>1, <1>2, <1>3, <1>4, <1>5, <1>6, <1>7, <1>8, <1>9, <1>10, <1>11, <1>12, <1>13, <1>14, <1>15, <1>16, <1>17 DEF Next, SignUp, SeedAdmin, SignIn, ChangePassword, SaveProfile

\* A session begins with a verified account, and a profile request with a session.
LEMMA VerifiedStep == ASSUME IInv, Next PROVE SessionsVerified'
<1> USE ConstantsAssumption DEF IInv, SessionsVerified, TypeOK, Known, Doing, history, Row, Work, Untouched
<1>1. CASE \E w \in Workers : Register(w)
  BY <1>1 DEF Register, Begin
<1>2. CASE \E w \in Workers : Seed(w)
  BY <1>2 DEF Seed, Begin
<1>3. CASE \E w \in Workers, byAdmin \in BOOLEAN : Insert(w, byAdmin)
  BY <1>3 DEF Insert, NewLink, Done
<1>4. CASE \E w \in Workers : FindVerify(w)
  BY <1>4 DEF FindVerify, Begin
<1>5. CASE \E w \in Workers : Verify(w)
  <2>1. PICK w \in Workers : Verify(w)
    BY <1>5
  <2>2. /\ row' \in Row
        /\ row.verified => row'.verified
    <3> HIDE DEF Row
    <3> QED
      BY <2>1, Effects DEF SaveWrite, SessionsVerified
  <2>3. /\ \A v \in Workers : work'[v] = work[v] \/ work'[v] = Idle
        /\ signedIn' = signedIn \/ row.verified
    BY <2>1 DEF Verify, Done
  <2> HIDE DEF Row, Work
  <2> QED
    BY <2>1, <2>2, <2>3 DEF Verify, Done
<1>6. CASE \E w \in Workers, right \in BOOLEAN : Login(w, right)
  BY <1>6 DEF Login, Begin
<1>7. CASE \E w \in Workers : LoginMiss(w)
  <2>1. PICK w \in Workers : LoginMiss(w)
    BY <1>7
  <2>2. /\ row' \in Row
        /\ row.verified => row'.verified
    <3> HIDE DEF Row
    <3> QED
      BY <2>1, Effects DEF SaveWrite, SessionsVerified
  <2>3. /\ \A v \in Workers : work'[v] = work[v] \/ work'[v] = Idle
        /\ signedIn' = signedIn \/ row.verified
    BY <2>1 DEF LoginMiss, Done
  <2> HIDE DEF Row, Work
  <2> QED
    BY <2>1, <2>2, <2>3 DEF LoginMiss, Done
<1>8. CASE \E w \in Workers : LoginPass(w)
  <2>1. PICK w \in Workers : LoginPass(w)
    BY <1>8
  <2>2. /\ row' \in Row
        /\ row.verified => row'.verified
    <3> HIDE DEF Row
    <3> QED
      BY <2>1, Effects DEF SaveWrite, SessionsVerified
  <2>3. /\ \A v \in Workers : work'[v] = work[v] \/ work'[v] = Idle
        /\ signedIn' = signedIn \/ row.verified
    BY <2>1 DEF LoginPass, Done
  <2> HIDE DEF Row, Work
  <2> QED
    BY <2>1, <2>2, <2>3 DEF LoginPass, Done
<1>9. CASE \E w \in Workers : FindForgot(w)
  BY <1>9 DEF FindForgot, Begin
<1>10. CASE \E w \in Workers : Forgot(w)
  <2>1. PICK w \in Workers : Forgot(w)
    BY <1>10
  <2>2. /\ row' \in Row
        /\ row.verified => row'.verified
    <3> HIDE DEF Row
    <3> QED
      BY <2>1, Effects DEF SaveWrite, SessionsVerified
  <2>3. /\ \A v \in Workers : work'[v] = work[v] \/ work'[v] = Idle
        /\ signedIn' = signedIn \/ row.verified
    BY <2>1 DEF Forgot, NewLink, Done
  <2> HIDE DEF Row, Work
  <2> QED
    BY <2>1, <2>2, <2>3 DEF Forgot, NewLink, Done
<1>11. CASE \E w \in Workers : FindReset(w)
  BY <1>11 DEF FindReset, Begin
<1>12. CASE \E w \in Workers : Reset(w)
  <2>1. PICK w \in Workers : Reset(w)
    BY <1>12
  <2>2. /\ row' \in Row
        /\ row.verified => row'.verified
    <3> HIDE DEF Row
    <3> QED
      BY <2>1, Effects DEF SaveWrite, SessionsVerified
  <2>3. /\ \A v \in Workers : work'[v] = work[v] \/ work'[v] = Idle
        /\ signedIn' = signedIn \/ row.verified
    BY <2>1 DEF Reset, Set, Done
  <2> HIDE DEF Row, Work
  <2> QED
    BY <2>1, <2>2, <2>3 DEF Reset, Set, Done
<1>13. CASE \E w \in Workers : FindUser(w)
  BY <1>13 DEF FindUser, Begin
<1>14. CASE \E w \in Workers : SaveCompare(w)
  BY <1>14 DEF SaveCompare
<1>15. CASE \E w \in Workers : SaveWrite(w)
  <2>1. PICK w \in Workers : SaveWrite(w)
    BY <1>15
  <2>2. /\ row' \in Row
        /\ row.verified => row'.verified
    <3> HIDE DEF Row
    <3> QED
      BY <2>1, Effects DEF SaveWrite, SessionsVerified
  <2>3. /\ \A v \in Workers : work'[v] = work[v] \/ work'[v] = Idle
        /\ signedIn' = signedIn \/ row.verified
    BY <2>1 DEF SaveWrite, Done
  <2> HIDE DEF Row, Work
  <2> QED
    BY <2>1, <2>2, <2>3 DEF SaveWrite, Done
<1>16. CASE \E w \in Workers : Fail(w)
  BY <1>16 DEF Fail, Done
<1>17. CASE LockEnds
  BY <1>17 DEF LockEnds
<1> QED
  BY <1>1, <1>2, <1>3, <1>4, <1>5, <1>6, <1>7, <1>8, <1>9, <1>10, <1>11, <1>12, <1>13, <1>14, <1>15, <1>16, <1>17 DEF Next, SignUp, SeedAdmin, SignIn, ChangePassword, SaveProfile

\* A request finds nothing before the row is inserted.
LEMMA UntouchedStep == ASSUME IInv, Next PROVE Untouched'
<1> USE ConstantsAssumption DEF IInv, Untouched, TypeOK, Known, Doing, history, SessionsVerified
<1>1. CASE \E w \in Workers : Register(w)
  BY <1>1 DEF Register, Begin
<1>2. CASE \E w \in Workers : Seed(w)
  BY <1>2 DEF Seed, Begin
<1>3. CASE \E w \in Workers, byAdmin \in BOOLEAN : Insert(w, byAdmin)
  BY <1>3 DEF Insert, NewLink, Done
<1>4. CASE \E w \in Workers : FindVerify(w)
  BY <1>4 DEF FindVerify, Begin
<1>5. CASE \E w \in Workers : Verify(w)
  <2>1. PICK w \in Workers : Verify(w)
    BY <1>5
  <2> QED
    BY <2>1, Effects
<1>6. CASE \E w \in Workers, right \in BOOLEAN : Login(w, right)
  BY <1>6 DEF Login, Begin
<1>7. CASE \E w \in Workers : LoginMiss(w)
  <2>1. PICK w \in Workers : LoginMiss(w)
    BY <1>7
  <2> QED
    BY <2>1, Effects
<1>8. CASE \E w \in Workers : LoginPass(w)
  <2>1. PICK w \in Workers : LoginPass(w)
    BY <1>8
  <2> QED
    BY <2>1, Effects
<1>9. CASE \E w \in Workers : FindForgot(w)
  BY <1>9 DEF FindForgot, Begin
<1>10. CASE \E w \in Workers : Forgot(w)
  <2>1. PICK w \in Workers : Forgot(w)
    BY <1>10
  <2> QED
    BY <2>1, Effects
<1>11. CASE \E w \in Workers : FindReset(w)
  BY <1>11 DEF FindReset, Begin
<1>12. CASE \E w \in Workers : Reset(w)
  <2>1. PICK w \in Workers : Reset(w)
    BY <1>12
  <2> QED
    BY <2>1, Effects
<1>13. CASE \E w \in Workers : FindUser(w)
  BY <1>13 DEF FindUser, Begin
<1>14. CASE \E w \in Workers : SaveCompare(w)
  BY <1>14 DEF SaveCompare
<1>15. CASE \E w \in Workers : SaveWrite(w)
  <2>1. PICK w \in Workers : SaveWrite(w)
    BY <1>15
  <2> QED
    BY <2>1, Effects
<1>16. CASE \E w \in Workers : Fail(w)
  BY <1>16 DEF Fail, Done
<1>17. CASE LockEnds
  <2>1. row' \in Row
    BY <1>17, Edited DEF LockEnds
  <2> QED
    BY <2>1
<1> QED
  BY <1>1, <1>2, <1>3, <1>4, <1>5, <1>6, <1>7, <1>8, <1>9, <1>10, <1>11, <1>12, <1>13, <1>14, <1>15, <1>16, <1>17 DEF Next, SignUp, SeedAdmin, SignIn, ChangePassword, SaveProfile

LEMMA InitIInv == Init => IInv
<1> SUFFICES ASSUME Init PROVE IInv
  OBVIOUS
<1>1. TypeOK
  <2>1. work \in [Workers -> Work \cup {Idle}]
    BY DEF Init
  <2>2. 0 \in 0 .. MaxLinks /\ 0 \in 0 .. MaxResets /\ 0 \in 0 .. MaxFailed
    BY ConstantsAssumption
  <2> QED
    BY <2>1, <2>2 DEF Init, TypeOK
<1>2. ~Known /\ \A w \in Workers : work[w] = Idle
  BY DEF Init, Known
<1> QED
  BY <1>1, <1>2 DEF Init, IInv, NewPasswordStays, CountIsExact, TokensFresh, SpentGone,
     SpentRaced, SharedRaced, SessionsVerified, Untouched, Doing

LEMMA StutterStep == ASSUME IInv, UNCHANGED vars PROVE IInv'
BY DEF vars, history, IInv, TypeOK, NewPasswordStays, CountIsExact, TokensFresh, SpentGone,
   SpentRaced, SharedRaced, SessionsVerified, Untouched, Doing, Known

LEMMA Inductive == IInv /\ [Next]_vars => IInv'
<1>1. ASSUME IInv, Next PROVE IInv'
  BY <1>1, TypeStep, PasswordStep, CountStep, FreshStep, GoneStep, SpentStep, SharedStep,
     VerifiedStep, UntouchedStep DEF IInv
<1> QED
  BY <1>1, StutterStep

\* The inductive invariant holds in every reachable state.
THEOREM Invariance == Spec => []IInv
<1> QED
  BY InitIInv, Inductive, PTL DEF Spec

\* Type correctness.
THEOREM TypeCorrect == Spec => []TypeOK
BY Invariance, PTL DEF IInv

\* The password set last stays, and a link sets one, stale saves and shared
\* links aside.
THEOREM PasswordStays == Spec => []NewPasswordStays
BY Invariance, PTL DEF IInv

\* Failed logins are counted exactly, stale counts and stale saves aside.
THEOREM Counted == Spec => []CountIsExact
BY Invariance, PTL DEF IInv

LEMMA StaysVerified == ASSUME IInv, Next, Known, row.verified PROVE row'.verified
<1> USE DEF IInv
<1>1. CASE \E w \in Workers : Verify(w) \/ LoginMiss(w) \/ LoginPass(w) \/ Forgot(w) \/ Reset(w)
  BY <1>1, Effects
<1>2. CASE \E w \in Workers : SaveWrite(w)
  BY <1>2, Effects DEF SaveWrite, SessionsVerified
<1>3. CASE LockEnds
  BY <1>3, Edited DEF LockEnds, TypeOK, Known, Row
<1>4. CASE row' = row
  BY <1>4
<1>5. CASE \E w \in Workers, byAdmin \in BOOLEAN : Insert(w, byAdmin)
  BY <1>5 DEF Insert, Known
<1> QED
  BY <1>1, <1>2, <1>3, <1>4, <1>5 DEF Next, SignUp, SeedAdmin, SignIn, ChangePassword, SaveProfile, Register, Seed, FindVerify, Login, FindForgot,
     FindReset, FindUser, SaveCompare, Fail, Begin

\* A verified address stays verified.
THEOREM Verified == Spec => VerifiedForGood
<1>1. IInv /\ [Next]_vars => [Known /\ row.verified => row'.verified]_vars
  BY StaysVerified
<1> QED
  BY <1>1, Invariance, PTL DEF Spec, VerifiedForGood
===============================================================================
