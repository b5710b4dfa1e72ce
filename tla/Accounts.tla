------------------------------ MODULE Accounts ------------------------------
(***************************************************************************)
(* One user account: registration, the codes and links mailed to its owner *)
(* (e-mail verification and password reset), changes of the password and   *)
(* the deletion of the account.                                            *)
(*                                                                         *)
(* call[hd] is the invocation in flight in slot hd; every awaited query is *)
(* one step. A row of PasswordResetToken ("token") or of                   *)
(* EmailVerificationToken ("code") is the number in which it was created;  *)
(* the rows of a kind expire in that order. A session is a signed          *)
(* cookie: whoever has verified the address may hold one, and it is no     *)
(* state of the server.                                                    *)
(*                                                                         *)
(* claims, done and closed are history variables.                          *)
(***************************************************************************)
EXTENDS Integers, FiniteSets

CONSTANTS
    Passwords,    \* passwords the owner may choose
    Limit,        \* rows of each kind that stay active
    MaxIssued,    \* bound: rows of each kind in a behaviour
    MaxRows,      \* bound: the largest of them
    MaxExpired,   \* bound: rows of each kind that expire
    MaxAttempts,  \* wrong codes after which a code is locked
    Handlers,     \* invocations in flight at the same time
    MaxCrashes,   \* bound: invocations that die half way
    None          \* no value

Kinds == {"token", "code"}

ASSUME AccountsAssumption ==
    /\ None \notin Passwords
    /\ Limit \in [Kinds -> Nat \ {0}]
    /\ MaxRows \in Nat
    /\ MaxIssued \in [Kinds -> 0..MaxRows]
    /\ MaxExpired \in [Kinds -> Nat]
    /\ MaxAttempts \in Nat \ {0}
    /\ IsFiniteSet(Handlers)
    /\ MaxCrashes \in Nat

VARIABLES
    account,   \* the User row
    password,  \* User.passwordHash
    verified,  \* User.emailVerified
    jobs,      \* USER_REGISTER_POST_CREATE jobs published
    issued,    \* rows created so far
    expired,   \* rows past their expiresAt
    used,      \* rows with usedAt
    mailed,    \* rows whose link or code has reached the owner
    attempts,  \* EmailVerificationToken.attempts
    call,      \* the in-flight invocations
    crashes,   \* invocations that have died so far
    claims,    \* history: how often a row was claimed
    done,      \* history: rows whose claim took effect
    closed     \* history: tokens issued when the last reset finished

vars == <<account, password, verified, jobs, issued, expired, used, mailed,
          attempts, call, crashes, claims, done, closed>>

----------------------------------------------------------------------------
(* Rows and invocations *)

Rows == 1..MaxRows

SendSteps     == {"send.create", "send.list", "send.retire", "send.mail"}
RegisterSteps == {"register.create", "register.publish"}
ResetSteps    == {"reset.user", "reset.claim", "reset.update", "change.update"}
VerifySteps   == {"verify.find", "verify.count", "verify.claim", "verify.update"}
Steps == {"idle", "delete.rows"} \cup SendSteps \cup RegisterSteps \cup ResetSteps \cup VerifySteps

\* row: the row created, claimed or counted; stale: the rows to retire;
\* new: the password to be.
Calls == [pc : Steps, kind : Kinds, row : Rows \cup {None}, stale : SUBSET Rows,
          new : Passwords \cup {None}]

Idle == [pc |-> "idle", kind |-> "code", row |-> None, stale |-> {}, new |-> None]

At(hd, pc)       == call[hd].pc = pc
Become(hd, c)    == call' = [call EXCEPT ![hd] = c]
Begin(hd, c)     == call[hd] = Idle /\ Become(hd, c)
Continue(hd, pc) == Become(hd, [call[hd] EXCEPT !.pc = pc])
Finish(hd)       == Become(hd, Idle)

Exists == account = "LIVE"

\* usedAt is null and expiresAt in the future
Active(k)  == {r \in Rows : r =< issued[k] /\ r > expired[k] /\ r \notin used[k]}
Newer(S, r) == {x \in S : x > r}

\* bound: every invocation that is to create a row will find one left
WillCreate(k) == {hd \in Handlers : At(hd, "send.create") /\ call[hd].kind = k}
HasRowLeft(k) == issued[k] + Cardinality(WillCreate(k)) < MaxIssued[k]

UNCHANGED_user    == UNCHANGED <<account, password, verified, jobs>>
UNCHANGED_rows    == UNCHANGED <<issued, expired, used, mailed, attempts>>
UNCHANGED_history == UNCHANGED <<crashes, claims, done, closed>>

TypeOK ==
    /\ account \in {"ABSENT", "LIVE", "DELETED"}
    /\ password \in Passwords \cup {None}
    /\ verified \in BOOLEAN
    /\ jobs \in Nat
    /\ issued \in [Kinds -> 0..MaxRows]
    /\ expired \in [Kinds -> 0..MaxRows]
    /\ used \in [Kinds -> SUBSET Rows]
    /\ mailed \in [Kinds -> SUBSET Rows]
    /\ attempts \in [Rows -> Nat]
    /\ call \in [Handlers -> Calls]
    /\ crashes \in 0..MaxCrashes
    /\ claims \in [Kinds -> [Rows -> Nat]]
    /\ done \in [Kinds -> SUBSET Rows]
    /\ closed \in 0..MaxRows

Init ==
    /\ account = "ABSENT" /\ password = None
    /\ verified = FALSE /\ jobs = 0
    /\ issued = [k \in Kinds |-> 0] /\ expired = [k \in Kinds |-> 0]
    /\ used = [k \in Kinds |-> {}] /\ mailed = [k \in Kinds |-> {}]
    /\ attempts = [r \in Rows |-> 0]
    /\ call = [hd \in Handlers |-> Idle]
    /\ crashes = 0
    /\ claims = [k \in Kinds |-> [r \in Rows |-> 0]]
    /\ done = [k \in Kinds |-> {}]
    /\ closed = 0

----------------------------------------------------------------------------
(* Registration, and the mails with a code or a link *)

Register(hd, p) ==
    /\ account = "ABSENT"
    /\ Begin(hd, [Idle EXCEPT !.pc = "register.create", !.new = p])
    /\ UNCHANGED_user /\ UNCHANGED_rows /\ UNCHANGED_history

\* Mutant: the second of two registrations of one address replaces the first.
RegisterCreate_Replaces(hd) ==
    /\ At(hd, "register.create")
    /\ account' = "LIVE" /\ password' = call[hd].new
    /\ Continue(hd, "register.publish")
    /\ UNCHANGED <<verified, jobs>> /\ UNCHANGED_rows /\ UNCHANGED_history

\* The second of two registrations of one address fails on the unique key.
RegisterCreate(hd) ==
    /\ At(hd, "register.create")
    /\ \/ /\ account = "ABSENT"
          /\ account' = "LIVE" /\ password' = call[hd].new
          /\ Continue(hd, "register.publish")
       \/ /\ account # "ABSENT"
          /\ Finish(hd)
          /\ UNCHANGED <<account, password>>
    /\ UNCHANGED <<verified, jobs>>
    /\ UNCHANGED_rows /\ UNCHANGED_history

RegisterPublish(hd) ==
    /\ At(hd, "register.publish")
    /\ HasRowLeft("code")
    /\ jobs' = jobs + 1
    /\ Become(hd, [Idle EXCEPT !.pc = "send.create", !.kind = "code"])
    /\ UNCHANGED <<account, password, verified>>
    /\ UNCHANGED_rows /\ UNCHANGED_history

StartSending(hd, k) ==
    /\ HasRowLeft(k)
    /\ Begin(hd, [Idle EXCEPT !.pc = "send.create", !.kind = k])
    /\ UNCHANGED_user /\ UNCHANGED_rows /\ UNCHANGED_history

\* forgot-password; resend-verification and the login of an unverified owner
Forgot(hd) == Exists /\ StartSending(hd, "token")
Resend(hd) == Exists /\ ~verified /\ StartSending(hd, "code")

\* The insertion fails when the user is gone, and that of a code also when
\* any user ever got the same six digits: codeHash is unique.
SendCreate(hd) ==
    LET k == call[hd].kind
    IN  /\ At(hd, "send.create")
        /\ \/ /\ Exists /\ issued[k] < MaxIssued[k]
              /\ issued' = [issued EXCEPT ![k] = @ + 1]
              /\ Become(hd, [call[hd] EXCEPT !.pc = "send.list", !.row = issued[k] + 1])
           \/ /\ ~Exists \/ k = "code"
              /\ Finish(hd)
              /\ UNCHANGED issued
        /\ UNCHANGED <<expired, used, mailed, attempts>>
        /\ UNCHANGED_user /\ UNCHANGED_history

\* Mutants: the newest are retired, and one too many is left
SendList_OldestFirst(hd) ==
    LET k     == call[hd].kind
        stale == {r \in Active(k) : Cardinality({x \in Active(k) : x < r}) >= Limit[k]}
    IN  /\ At(hd, "send.list")
        /\ Become(hd, [call[hd] EXCEPT !.pc = IF stale = {} THEN "send.mail" ELSE "send.retire",
                                       !.stale = stale])
        /\ UNCHANGED_user /\ UNCHANGED_rows /\ UNCHANGED_history

SendList_OneMore(hd) ==
    LET k     == call[hd].kind
        stale == {r \in Active(k) : Cardinality(Newer(Active(k), r)) > Limit[k]}
    IN  /\ At(hd, "send.list")
        /\ Become(hd, [call[hd] EXCEPT !.pc = IF stale = {} THEN "send.mail" ELSE "send.retire",
                                       !.stale = stale])
        /\ UNCHANGED_user /\ UNCHANGED_rows /\ UNCHANGED_history

\* Active rows beyond the newest Limit[k]
Surplus(k) == {r \in Active(k) : Cardinality(Newer(Active(k), r)) >= Limit[k]}

SendList(hd) ==
    LET stale == Surplus(call[hd].kind)
    IN  /\ At(hd, "send.list")
        /\ Become(hd, [call[hd] EXCEPT !.pc = IF stale = {} THEN "send.mail" ELSE "send.retire",
                                       !.stale = stale])
        /\ UNCHANGED_user /\ UNCHANGED_rows /\ UNCHANGED_history

SendRetire(hd) ==
    /\ At(hd, "send.retire")
    /\ used' = [used EXCEPT ![call[hd].kind] = @ \cup call[hd].stale]
    /\ Become(hd, [call[hd] EXCEPT !.pc = "send.mail", !.stale = {}])
    /\ UNCHANGED <<issued, expired, mailed, attempts>>
    /\ UNCHANGED_user /\ UNCHANGED_history

\* The mail may fail; the row stays.
SendMail(hd) ==
    /\ At(hd, "send.mail")
    /\ \/ mailed' = [mailed EXCEPT ![call[hd].kind] = @ \cup {call[hd].row}]
       \/ UNCHANGED mailed
    /\ Finish(hd)
    /\ UNCHANGED <<issued, expired, used, attempts>>
    /\ UNCHANGED_user /\ UNCHANGED_history

Expire(k) ==
    /\ expired[k] < issued[k] /\ expired[k] < MaxExpired[k]
    /\ expired' = [expired EXCEPT ![k] = @ + 1]
    /\ UNCHANGED <<issued, used, mailed, attempts, call>>
    /\ UNCHANGED_user /\ UNCHANGED_history

----------------------------------------------------------------------------
(* Claiming a row: at most one of the invocations that saw it active *)

\* Mutant: usedAt is not looked at again.
ClaimRow_Again(k, r) ==
    /\ Exists
    /\ used' = [used EXCEPT ![k] = @ \cup {r}]
    /\ claims' = [claims EXCEPT ![k][r] = @ + 1]

\* updateMany where usedAt is null changes one row
ClaimRow(k, r) ==
    /\ Exists /\ r \notin used[k]
    /\ used' = [used EXCEPT ![k] = @ \cup {r}]
    /\ claims' = [claims EXCEPT ![k][r] = @ + 1]

Claim(hd, k, next) ==
    /\ \/ /\ ClaimRow(k, call[hd].row)
          /\ Continue(hd, next)
       \/ /\ ~Exists \/ call[hd].row \in used[k]
          /\ Finish(hd)
          /\ UNCHANGED <<used, claims>>
    /\ UNCHANGED <<issued, expired, mailed, attempts, crashes, done, closed>>
    /\ UNCHANGED_user

----------------------------------------------------------------------------
(* The password *)

\* reset-password with the link of row r: findValidResetTokenByRaw
Reset(hd, r, p) ==
    /\ Exists /\ r \in Active("token") \cap mailed["token"]
    /\ Begin(hd, [Idle EXCEPT !.pc = "reset.user", !.kind = "token", !.row = r, !.new = p])
    /\ UNCHANGED_user /\ UNCHANGED_rows /\ UNCHANGED_history

\* Mutant: the link is used up before the new password is looked at.
ResetUser_ClaimsFirst(hd) ==
    /\ At(hd, "reset.user")
    /\ ClaimRow("token", call[hd].row)
    /\ IF password # call[hd].new THEN Continue(hd, "reset.update") ELSE Finish(hd)
    /\ UNCHANGED <<issued, expired, mailed, attempts, crashes, done, closed>>
    /\ UNCHANGED_user

ResetUser(hd) ==
    /\ At(hd, "reset.user")
    /\ IF Exists /\ password # call[hd].new THEN Continue(hd, "reset.claim") ELSE Finish(hd)
    /\ UNCHANGED_user /\ UNCHANGED_rows /\ UNCHANGED_history

ResetClaim(hd) == At(hd, "reset.claim") /\ Claim(hd, "token", "reset.update")

\* Mutant: the other links stay.
ResetUpdate_OthersStay(hd) ==
    /\ At(hd, "reset.update")
    /\ Exists
    /\ password' = call[hd].new
    /\ done' = [done EXCEPT !["token"] = @ \cup {call[hd].row}]
    /\ closed' = issued["token"]
    /\ Finish(hd)
    /\ UNCHANGED <<account, verified, jobs, crashes, claims>>
    /\ UNCHANGED_rows

\* One transaction: the password, and every other link of the user.
ResetUpdate(hd) ==
    /\ At(hd, "reset.update")
    /\ \/ /\ Exists
          /\ password' = call[hd].new
          /\ used' = [used EXCEPT !["token"] = 1..issued["token"]]
          /\ done' = [done EXCEPT !["token"] = @ \cup {call[hd].row}]
          /\ closed' = issued["token"]
       \/ ~Exists /\ UNCHANGED <<password, used, done, closed>>
    /\ Finish(hd)
    /\ UNCHANGED <<account, verified, jobs, issued, expired, mailed, attempts>>
    /\ UNCHANGED <<crashes, claims>>

\* PATCH settings/password
ChangePassword(hd, p) ==
    /\ Exists /\ verified /\ p # password
    /\ Begin(hd, [Idle EXCEPT !.pc = "change.update", !.new = p])
    /\ UNCHANGED_user /\ UNCHANGED_rows /\ UNCHANGED_history

ChangeUpdate(hd) ==
    /\ At(hd, "change.update")
    /\ password' = IF Exists THEN call[hd].new ELSE password
    /\ Finish(hd)
    /\ UNCHANGED <<account, verified, jobs>>
    /\ UNCHANGED_rows /\ UNCHANGED_history

----------------------------------------------------------------------------
(* The verification of the e-mail address *)

\* verify-email: r is a code from a mail, None a wrong one
Verify(hd, r) ==
    /\ Exists /\ ~verified
    /\ Begin(hd, [Idle EXCEPT !.pc = "verify.find", !.row = r])
    /\ UNCHANGED_user /\ UNCHANGED_rows /\ UNCHANGED_history

\* verifyEmailCodeForUser: only the newest active code counts.
VerifyFind(hd) ==
    /\ At(hd, "verify.find")
    /\ \/ \E r \in Active("code") :
             /\ Newer(Active("code"), r) = {} /\ Exists
             /\ attempts[r] < MaxAttempts
             /\ IF r = call[hd].row THEN Continue(hd, "verify.claim")
                ELSE Become(hd, [call[hd] EXCEPT !.pc = "verify.count", !.row = r])
       \/ /\ ~Exists \/ \A r \in Active("code") : Newer(Active("code"), r) # {} \/ attempts[r] >= MaxAttempts
          /\ Finish(hd)
    /\ UNCHANGED_user /\ UNCHANGED_rows /\ UNCHANGED_history

\* Mutant: the attempts left are counted, but start at none.
VerifyCount_Down(hd) ==
    /\ At(hd, "verify.count")
    /\ attempts' = IF Exists THEN [attempts EXCEPT ![call[hd].row] = @ - 1] ELSE attempts
    /\ Finish(hd)
    /\ UNCHANGED <<issued, expired, used, mailed>>
    /\ UNCHANGED_user /\ UNCHANGED_history

VerifyCount(hd) ==
    /\ At(hd, "verify.count")
    /\ attempts' = IF Exists THEN [attempts EXCEPT ![call[hd].row] = @ + 1] ELSE attempts
    /\ Finish(hd)
    /\ UNCHANGED <<issued, expired, used, mailed>>
    /\ UNCHANGED_user /\ UNCHANGED_history

VerifyClaim(hd) == At(hd, "verify.claim") /\ Claim(hd, "code", "verify.update")

VerifyUpdate(hd) ==
    /\ At(hd, "verify.update")
    /\ \/ /\ Exists
          /\ verified' = TRUE
          /\ done' = [done EXCEPT !["code"] = @ \cup {call[hd].row}]
       \/ ~Exists /\ UNCHANGED <<verified, done>>
    /\ Finish(hd)
    /\ UNCHANGED <<account, password, jobs, crashes, claims, closed>>
    /\ UNCHANGED_rows

----------------------------------------------------------------------------
(* The end of the account, and of invocations *)

Delete(hd) ==
    /\ Exists /\ verified
    /\ Begin(hd, [Idle EXCEPT !.pc = "delete.rows"])
    /\ UNCHANGED_user /\ UNCHANGED_rows /\ UNCHANGED_history

\* deleteUserAccount; the transaction fails when rows still refer to the user.
DeleteRows(hd) ==
    /\ At(hd, "delete.rows")
    /\ account' \in {"DELETED", account}
    /\ Finish(hd)
    /\ UNCHANGED <<password, verified, jobs>>
    /\ UNCHANGED_rows /\ UNCHANGED_history

Crash(hd) ==
    /\ call[hd] # Idle
    /\ crashes < MaxCrashes
    /\ crashes' = crashes + 1
    /\ Finish(hd)
    /\ UNCHANGED <<claims, done, closed>>
    /\ UNCHANGED_user /\ UNCHANGED_rows

Start(hd) ==
    \/ \E p \in Passwords : Register(hd, p) \/ ChangePassword(hd, p)
    \/ Forgot(hd) \/ Resend(hd) \/ Delete(hd)
    \/ \E r \in Rows, p \in Passwords : Reset(hd, r, p)
    \/ \E r \in mailed["code"] \cup {None} : Verify(hd, r)

Proceed(hd) ==
    \/ RegisterCreate(hd) \/ RegisterPublish(hd)
    \/ SendCreate(hd) \/ SendList(hd) \/ SendRetire(hd) \/ SendMail(hd)
    \/ ResetUser(hd) \/ ResetClaim(hd) \/ ResetUpdate(hd) \/ ChangeUpdate(hd)
    \/ VerifyFind(hd) \/ VerifyCount(hd) \/ VerifyClaim(hd) \/ VerifyUpdate(hd)
    \/ DeleteRows(hd)

Next ==
    \/ \E hd \in Handlers : Start(hd) \/ Proceed(hd) \/ Crash(hd)
    \/ \E k \in Kinds : Expire(k)

Spec == Init /\ [][Next]_vars

----------------------------------------------------------------------------
(* Properties *)

\* A link or a code is redeemed at most once, however many invocations found
\* it active ("single use": markResetTokenUsed, schema of both tables).
SingleUse ==
    \A k \in Kinds, r \in Rows : claims[k][r] =< 1

\* Unless an invocation died or the account was deleted, a link or code that
\* was used up has changed the password, or verified the address, or will.
ClaimTakesEffect ==
    crashes = 0 /\ Exists =>
        \A k \in Kinds, r \in Rows : claims[k][r] > 0 =>
            \/ r \in done[k]
            \/ \E hd \in Handlers : At(hd, IF k = "token" THEN "reset.update" ELSE "verify.update")
                                    /\ call[hd].row = r

\* Nothing but its own use, a reset of the password or enough newer mails
\* spoils a link or code: two mails sent at once do not retire each other.
RetiredAreOld ==
    \A k \in Kinds : \A r \in used[k] :
        \/ claims[k][r] > 0
        \/ r + Limit[k] =< issued[k]
        \/ k = "token" /\ r =< closed

\* However the mails overlap, once none is under way at most the newest
\* Limit[k] rows stay active ("the maximum of active tokens"), unless one died.
NoneInSurplus ==
    crashes = 0 /\ (\A hd \in Handlers : call[hd].pc \notin SendSteps) =>
        \A k \in Kinds : Surplus(k) = {}

\* However the mails of an account overlap, the newest Limit[k] links or codes,
\* and only they, stay active (invalidateOldResetTokens and its twin).
NewestStayActive == RetiredAreOld /\ NoneInSurplus

\* Two registrations of one address that overlap give one account and one
\* welcome job, which only a registration that died leaves out.
WelcomedOnce ==
    /\ jobs =< 1
    /\ account # "ABSENT" /\ crashes = 0 /\ jobs = 0 => \E hd \in Handlers : At(hd, "register.publish")

\* Once a reset has finished, no link mailed before it is redeemed, not even by
\* an invocation that had already found it valid.
OldLinksAreDead ==
    [][\A r \in Rows : claims'["token"][r] # claims["token"][r] => r > closed]_vars
=============================================================================
