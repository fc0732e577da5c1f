------------------------------- MODULE Accounts -------------------------------
(***************************************************************************)
(* The row of one e-mail address in auth-service's users table: sign-up,   *)
(* verification, failed logins and the lock, a forgotten password, and the *)
(* profile, whose save() writes back every column that differs from the    *)
(* entity it read.  Requests overlap; each statement or transaction is one *)
(* step.  The sessions a login opens and a reset ends are in Sessions.     *)
(*                                                                         *)
(* An expired link is one nobody follows.                                  *)
(***************************************************************************)
EXTENDS Naturals

CONSTANTS
    Workers,
    MaxFailed,   \* MAX_FAILED_ATTEMPTS
    MaxLinks,    \* bound on mailed links
    MaxResets,   \* bound on new passwords
    NoRow, Idle

VARIABLES
    row,
    links,      \* links mailed so far; the token of the n-th is n, 0 is none
    signedIn,   \* somebody has had a session
    work,
    resets,     \* history: passwords set by resets; the n-th is password n
    spent,      \* history: tokens a password was set with, ...
    twice,      \* ... those it was set with again, ...
    raced,      \* ... and those two requests held at a time
    misses,     \* history: failed logins since the counter was last cleared
    skewed,     \* history: one of them was counted from a stale value
    clobbered   \* history: a profile was saved over newer account data

history == <<resets, spent, twice, raced, misses, skewed, clobbered>>
vars == <<row, links, signedIn, work, history>>

Row == [password : 0 .. MaxResets, verified : BOOLEAN, verifyToken : 0 .. MaxLinks,
        resetToken : 0 .. MaxLinks, failed : 0 .. MaxFailed, recent : BOOLEAN]
Columns == {"password", "verified", "verifyToken", "resetToken", "failed", "recent"}
Work ==
    [op : {"register", "seed", "verify", "pass", "forgot"}]
        \cup [op : {"miss"}, failed : 0 .. MaxFailed]
        \cup [op : {"reset"}, token : 1 .. MaxLinks]
        \cup [op : {"profile"}, entity : Row]
        \cup [op : {"update"}, entity : Row, diff : SUBSET Columns]

ASSUME ConstantsAssumption ==
    /\ MaxFailed \in Nat \ {0} /\ MaxLinks \in Nat /\ MaxResets \in Nat
    /\ NoRow \notin Row /\ Idle \notin Work

Init ==
    /\ row = NoRow
    /\ links = 0 /\ signedIn = FALSE
    /\ work = [w \in Workers |-> Idle]
    /\ resets = 0 /\ spent = {} /\ twice = {} /\ raced = {}
    /\ misses = 0 /\ skewed = FALSE /\ clobbered = FALSE

Known == row # NoRow
Begin(w, step) ==
    /\ work[w] = Idle
    /\ work' = [work EXCEPT ![w] = step]
    /\ UNCHANGED <<row, links, signedIn>>
Doing(w, op) == work[w] # Idle /\ work[w].op = op
Done(w) == work' = [work EXCEPT ![w] = Idle]
Plus(n) == IF n < MaxFailed THEN n + 1 ELSE n  \* bound: more is as good as MaxFailed

\* A transaction stores the token's hash and the event that mails the link.
NewLink == links < MaxLinks /\ links' = links + 1

-----------------------------------------------------------------------------
(* The account comes into being: by sign-up, or as the admin seeded at boot *)

Register(w) == ~Known /\ Begin(w, [op |-> "register"]) /\ UNCHANGED history
Seed(w) == ~Known /\ Begin(w, [op |-> "seed"]) /\ UNCHANGED history

\* INSERT: the unique index refuses a second row.
Insert(w, byAdmin) ==
    /\ Doing(w, IF byAdmin THEN "seed" ELSE "register")
    /\ IF Known THEN UNCHANGED <<row, links>>
       ELSE /\ IF byAdmin THEN UNCHANGED links ELSE NewLink
            /\ row' = [password |-> 0, verified |-> byAdmin, verifyToken |-> links',
                       resetToken |-> 0, failed |-> 0, recent |-> FALSE]
    /\ Done(w)
    /\ UNCHANGED <<signedIn, history>>

FindVerify(w) ==
    /\ Known /\ row.verifyToken # 0 /\ ~row.verified
    /\ Begin(w, [op |-> "verify"])
    /\ UNCHANGED history

Verify(w) ==
    /\ Doing(w, "verify")
    /\ row' = [row EXCEPT !.verified = TRUE, !.verifyToken = 0]
    /\ Done(w)
    /\ UNCHANGED <<links, signedIn, history>>

-----------------------------------------------------------------------------
(* Login *)

Locked == row.failed >= MaxFailed /\ row.recent

\* Wrong: the right password is enough.
LoginUnverified(w, right) ==
    /\ Known /\ ~Locked
    /\ Begin(w, IF right THEN [op |-> "pass"] ELSE [op |-> "miss", failed |-> row.failed])
    /\ UNCHANGED history

\* A login that goes on to write: a wrong password counts, the right one of a
\* verified account clears the counter.
Login(w, right) ==
    /\ Known /\ ~Locked /\ (right => row.verified)
    /\ Begin(w, IF right THEN [op |-> "pass"] ELSE [op |-> "miss", failed |-> row.failed])
    /\ UNCHANGED history

LoginMiss(w) ==
    /\ Doing(w, "miss")
    /\ row' = [row EXCEPT !.failed = Plus(work[w].failed), !.recent = TRUE]
    /\ misses' = Plus(misses)
    /\ skewed' = (skewed \/ work[w].failed # row.failed)
    /\ Done(w)
    /\ UNCHANGED <<links, signedIn, resets, spent, twice, raced, clobbered>>

LoginPass(w) ==
    /\ Doing(w, "pass")
    /\ row' = [row EXCEPT !.failed = 0, !.recent = FALSE]
    /\ signedIn' = TRUE
    /\ misses' = 0 /\ skewed' = FALSE
    /\ Done(w)
    /\ UNCHANGED <<links, resets, spent, twice, raced, clobbered>>

\* LOCKOUT_DURATION after the last failure; the count stays.
LockEnds ==
    /\ Known /\ row.recent
    /\ row' = [row EXCEPT !.recent = FALSE]
    /\ UNCHANGED <<links, signedIn, work, history>>

-----------------------------------------------------------------------------
(* A forgotten password *)

FindForgot(w) == Known /\ Begin(w, [op |-> "forgot"]) /\ UNCHANGED history

Forgot(w) ==
    /\ Doing(w, "forgot")
    /\ NewLink
    /\ row' = [row EXCEPT !.resetToken = links']
    /\ Done(w)
    /\ UNCHANGED <<signedIn, history>>

FindReset(w) ==
    /\ Known /\ row.resetToken # 0
    /\ LET request == [op |-> "reset", token |-> row.resetToken] IN
         /\ Begin(w, request)
         /\ raced' = IF \E v \in Workers : work[v] = request
                     THEN raced \cup {row.resetToken} ELSE raced
    /\ UNCHANGED <<resets, spent, twice, misses, skewed, clobbered>>

Set(w, changed) ==
    /\ Doing(w, "reset") /\ resets < MaxResets
    /\ row' = changed
    /\ resets' = resets + 1
    /\ spent' = spent \cup {work[w].token}
    /\ twice' = twice \cup ({work[w].token} \cap spent)
    /\ misses' = 0 /\ skewed' = FALSE
    /\ Done(w)
    /\ UNCHANGED <<links, signedIn, raced, clobbered>>

\* Wrong: the link goes on working.
ResetKeepsToken(w) == Set(w, [row EXCEPT !.password = resets + 1, !.failed = 0])

\* Wrong: the account stays locked.
ResetKeepsCount(w) == Set(w, [row EXCEPT !.password = resets + 1, !.resetToken = 0])

\* The token is not looked at again, and one mailed since is cleared as well.
Reset(w) == Set(w, [row EXCEPT !.password = resets + 1, !.resetToken = 0, !.failed = 0])

-----------------------------------------------------------------------------
(* Profile and avatar: read, then save() *)

FindUser(w) ==
    /\ signedIn
    /\ Begin(w, [op |-> "profile", entity |-> row])
    /\ UNCHANGED history

\* save() reads the row again to find the columns that differ ...
SaveCompare(w) ==
    /\ Doing(w, "profile")
    /\ work' = [work EXCEPT ![w] =
                  [op |-> "update", entity |-> @.entity,
                   diff |-> {c \in Columns : @.entity[c] # row[c]}]]
    /\ UNCHANGED <<row, links, signedIn, history>>

\* The row with the columns in diff taken from the entity.
Merged(entity, diff) ==
    [password |-> IF "password" \in diff THEN entity.password ELSE row.password,
     verified |-> IF "verified" \in diff THEN entity.verified ELSE row.verified,
     verifyToken |-> IF "verifyToken" \in diff THEN entity.verifyToken ELSE row.verifyToken,
     resetToken |-> IF "resetToken" \in diff THEN entity.resetToken ELSE row.resetToken,
     failed |-> IF "failed" \in diff THEN entity.failed ELSE row.failed,
     recent |-> IF "recent" \in diff THEN entity.recent ELSE row.recent]

\* ... and writes them, whoever changed them.
SaveWrite(w) ==
    /\ Doing(w, "update")
    /\ row' = Merged(work[w].entity, work[w].diff)
    /\ clobbered' = (clobbered \/ work[w].diff # {})
    /\ Done(w)
    /\ UNCHANGED <<links, signedIn, resets, spent, twice, raced, misses, skewed>>

-----------------------------------------------------------------------------

\* A statement fails, or the service dies.
Fail(w) ==
    /\ work[w] # Idle
    /\ Done(w)
    /\ UNCHANGED <<row, links, signedIn, history>>

SignUp(w) == Register(w) \/ Insert(w, FALSE) \/ FindVerify(w) \/ Verify(w)
SeedAdmin(w) == Seed(w) \/ Insert(w, TRUE)
SignIn(w) == (\E right \in BOOLEAN : Login(w, right)) \/ LoginMiss(w) \/ LoginPass(w)
ChangePassword(w) == FindForgot(w) \/ Forgot(w) \/ FindReset(w) \/ Reset(w)
SaveProfile(w) == FindUser(w) \/ SaveCompare(w) \/ SaveWrite(w)

Next ==
    \/ \E w \in Workers :
         \/ SignUp(w) \/ SeedAdmin(w) \/ SignIn(w) \/ ChangePassword(w)
         \/ SaveProfile(w) \/ Fail(w)
    \/ LockEnds

Spec == Init /\ [][Next]_vars
-----------------------------------------------------------------------------
(* Properties *)

TypeOK ==
    /\ row \in Row \cup {NoRow}
    /\ links \in 0 .. MaxLinks /\ signedIn \in BOOLEAN
    /\ work \in [Workers -> Work \cup {Idle}]
    /\ resets \in 0 .. MaxResets /\ misses \in 0 .. MaxFailed
    /\ spent \subseteq 1 .. MaxLinks /\ twice \subseteq spent /\ raced \subseteq 1 .. MaxLinks
    /\ skewed \in BOOLEAN /\ clobbered \in BOOLEAN

\* Until a profile save writes an older row back, the account has the password
\* set last, and a link sets one password, or as many as requests held it at a
\* time.
NewPasswordStays ==
    Known /\ ~clobbered => row.password = resets /\ twice \subseteq raced

\* A verified address stays verified, though a profile save writes back what it
\* read: nobody has a profile to save before.
VerifiedForGood == [][Known /\ row.verified => row'.verified]_vars

\* The failed logins are counted exactly, unless one was counted from a value
\* that had changed since it was read.
CountIsExact == Known /\ ~skewed /\ ~clobbered => row.failed = misses

\* The inductive invariant.  Tokens are handed out once; a spent one is not in
\* the row, and who holds one or shares one holds it together with another
\* request; a session, and the requests that lead to one or come from one, are
\* of a verified account; before the row exists nothing refers to it.
TokensFresh ==
    ~clobbered =>
        /\ spent \subseteq 1 .. links
        /\ Known => row.resetToken <= links
        /\ \A w \in Workers : Doing(w, "reset") => work[w].token <= links
SpentGone == Known /\ ~clobbered => row.resetToken \notin spent
SpentRaced ==
    ~clobbered => \A w \in Workers :
        Doing(w, "reset") /\ work[w].token \in spent => work[w].token \in raced
SharedRaced ==
    \A v, w \in Workers :
        v # w /\ Doing(v, "reset") /\ Doing(w, "reset") /\ work[v].token = work[w].token
            => work[w].token \in raced
SessionsVerified ==
    /\ signedIn => Known /\ row.verified
    /\ \A w \in Workers :
          /\ Doing(w, "pass") => row.verified
          /\ Doing(w, "profile") \/ Doing(w, "update") => signedIn /\ work[w].entity.verified
Untouched ==
    ~Known =>
        /\ resets = 0 /\ misses = 0 /\ spent = {}
        /\ \A w \in Workers : work[w] = Idle \/ Doing(w, "register") \/ Doing(w, "seed")

IInv ==
    /\ TypeOK /\ NewPasswordStays /\ CountIsExact /\ TokensFresh /\ SpentGone
    /\ SpentRaced /\ SharedRaced /\ SessionsVerified /\ Untouched
=============================================================================
