--------------------------- MODULE AccountsProofs ---------------------------
(***************************************************************************)
(* Proofs about Accounts, for every set of passwords and of concurrent     *)
(* invocations, any limit of active rows and any number of crashes.        *)
(***************************************************************************)
EXTENDS Accounts, FiniteSetTheorems, TLAPS

----------------------------------------------------------------------------
(* The inductive invariant *)

\* Rows that are used up were issued; a claimed row is used up, and so is
\* every link issued before the last reset.
RowsInv ==
    /\ \A k \in Kinds : used[k] \subseteq 1..issued[k]
    /\ \A k \in Kinds, r \in Rows : claims[k][r] = 0 \/ (claims[k][r] = 1 /\ r \in used[k])
    /\ \A r \in Rows : r =< closed => r \in used["token"]
    /\ account = "ABSENT" => \A k \in Kinds, r \in Rows : claims[k][r] = 0

RowSteps    == {"send.list", "send.retire", "send.mail", "reset.user", "reset.claim", "reset.update",
                "verify.count", "verify.claim", "verify.update"}
NewPassword == {"register.create", "reset.user", "reset.claim", "reset.update", "change.update"}

\* What an invocation knows whatever else happens
Knows(c) ==
    /\ c.pc \in RowSteps => c.row \in 1..issued[c.kind]
    /\ c.pc \in ResetSteps \ {"change.update"} => c.kind = "token"
    /\ c.pc \in VerifySteps => c.kind = "code"
    /\ c.pc \in NewPassword => c.new \in Passwords
    /\ c.pc = "send.retire" => \A r \in c.stale : r + Limit[c.kind] =< issued[c.kind]
    /\ c.pc = "register.publish" => account # "ABSENT" /\ jobs = 0
    /\ c.pc = "delete.rows" => account # "ABSENT"

CallsKnow    == \A hd \in Handlers : Knows(call[hd])
OnePublisher == \A hd, other \in Handlers :
                   At(hd, "register.publish") /\ At(other, "register.publish") => hd = other

\* A row too many is about to be retired by the invocation in slot hd.
Retires(hd, k, r) ==
    /\ call[hd].kind = k
    /\ At(hd, "send.list") \/ (At(hd, "send.retire") /\ r \in call[hd].stale)

SurplusIsSeen ==
    crashes = 0 => \A k \in Kinds : \A r \in Surplus(k) : \E hd \in Handlers : Retires(hd, k, r)

Welcome == WelcomedOnce /\ (account = "ABSENT" => jobs = 0)

IInv == TypeOK /\ RowsInv /\ CallsKnow /\ OnePublisher /\ Welcome
        /\ ClaimTakesEffect /\ RetiredAreOld /\ SurplusIsSeen

----------------------------------------------------------------------------
(* The invocation slots *)

\* The invocation in slot hd becomes c and the others stand still.
Moves(hd, c) ==
    /\ c \in Calls
    /\ call' \in [Handlers -> Calls]
    /\ call'[hd] = c
    /\ \A other \in Handlers \ {hd} : call'[other] = call[other]

LEMMA IdleIsACall == Idle \in Calls
BY DEF Idle, Calls, Steps, Kinds

LEMMA SlotEffect ==
  ASSUME NEW hd \in Handlers, NEW c \in Calls, TypeOK, Become(hd, c)
  PROVE  Moves(hd, c)
BY DEF TypeOK, Become, Moves

LEMMA ContinueEffect ==
  ASSUME NEW hd \in Handlers, NEW pc \in Steps, TypeOK, Continue(hd, pc)
  PROVE  Moves(hd, [call[hd] EXCEPT !.pc = pc])
<1>1. [call[hd] EXCEPT !.pc = pc] \in Calls
  BY DEF TypeOK, Calls
<1>. QED  BY <1>1, SlotEffect DEF Continue

LEMMA CallFields ==
  ASSUME NEW hd \in Handlers, TypeOK
  PROVE  /\ call[hd] \in Calls
         /\ call[hd].kind \in Kinds
         /\ call[hd].stale \subseteq Rows
         /\ \A k \in Kinds : call[hd].row \in 1..issued[k] => call[hd].row \in Rows
<1>1. call[hd] \in Calls
  BY DEF TypeOK
<1>2. call[hd].kind \in Kinds /\ call[hd].stale \subseteq Rows
  BY <1>1 DEF Calls
<1>3. ASSUME NEW k \in Kinds
      PROVE  1..issued[k] \subseteq Rows
  BY AccountsAssumption DEF TypeOK, Rows
<1>. QED  BY <1>1, <1>2, <1>3

LEMMA FinishEffect ==
  ASSUME NEW hd \in Handlers, TypeOK, Finish(hd)
  PROVE  Moves(hd, Idle)
BY IdleIsACall, SlotEffect DEF Finish

LEMMA BeginEffect ==
  ASSUME NEW hd \in Handlers, NEW c \in Calls, TypeOK, Begin(hd, c)
  PROVE  Moves(hd, c) /\ call[hd] = Idle
BY SlotEffect DEF Begin

LEMMA IdleKnows == Knows(Idle)
BY DEF Knows, Idle, RowSteps, ResetSteps, VerifySteps, NewPassword

----------------------------------------------------------------------------
(* Rows that are active *)

LEMMA IntervalSize ==
  ASSUME NEW r \in Nat, NEW n \in Nat, r =< n
  PROVE  IsFiniteSet((r + 1)..n) /\ Cardinality((r + 1)..n) = n - r
<1>. DEFINE a == r + 1
<1>1. a \in Int /\ n \in Int
  OBVIOUS
<1>2. IsFiniteSet(a..n) /\ Cardinality(a..n) = IF a > n THEN 0 ELSE n - a + 1
  <2>. HIDE DEF a
  <2>. QED  BY <1>1, FS_Interval
<1>. QED  BY <1>2

\* A row of the surplus is at least Limit[k] rows old.
LEMMA SurplusIsOld ==
  ASSUME TypeOK, NEW k \in Kinds, NEW r \in Surplus(k)
  PROVE  r \in 1..issued[k] /\ r + Limit[k] =< issued[k]
<1>. DEFINE N == Newer(Active(k), r)
            I == (r + 1)..issued[k]
<1>1. issued[k] \in Nat /\ Limit[k] \in Nat /\ r \in Nat /\ r \in 1..issued[k]
  BY AccountsAssumption DEF TypeOK, Surplus, Active, Rows
<1>2. IsFiniteSet(I) /\ Cardinality(I) = issued[k] - r
  BY <1>1, IntervalSize
<1>3. N \subseteq I
  BY <1>1 DEF Newer, Active, Rows
<1>4. Cardinality(N) =< Cardinality(I) /\ Cardinality(N) \in Nat
  BY <1>2, <1>3, FS_Subset, FS_CardinalityType
<1>5. Cardinality(N) >= Limit[k]
  BY DEF Surplus
<1>. QED  BY <1>1, <1>2, <1>4, <1>5

\* When fewer rows are active no other row is in surplus.
LEMMA SurplusShrinks ==
  ASSUME TypeOK, NEW k \in Kinds, Active(k)' \subseteq Active(k)
  PROVE  Surplus(k)' \subseteq Surplus(k)
<1>. SUFFICES ASSUME NEW r \in Surplus(k)'
              PROVE  r \in Surplus(k)
  OBVIOUS
<1>1. r \in Active(k) /\ Cardinality(Newer(Active(k)', r)) >= Limit[k]
  BY DEF Surplus, Newer
<1>2. Newer(Active(k)', r) \subseteq Newer(Active(k), r) /\ Newer(Active(k), r) \subseteq 1..issued[k]
  BY AccountsAssumption DEF Newer, Active, Rows, TypeOK
<1>3. IsFiniteSet(1..issued[k]) /\ issued[k] \in Nat /\ Limit[k] \in Nat
  BY FS_Interval, AccountsAssumption DEF TypeOK
<1>4. IsFiniteSet(Newer(Active(k), r))
  BY <1>2, <1>3, FS_Subset
<1>5. /\ Cardinality(Newer(Active(k)', r)) =< Cardinality(Newer(Active(k), r))
      /\ Cardinality(Newer(Active(k), r)) \in Nat
      /\ Cardinality(Newer(Active(k)', r)) \in Nat
  BY <1>2, <1>4, FS_Subset, FS_CardinalityType
<1>. QED  BY <1>1, <1>3, <1>5 DEF Surplus

----------------------------------------------------------------------------
(* What a step leaves of each part of the invariant *)

\* Rows are created in order and stay; jobs and the account do too.
Grows ==
    /\ \A k \in Kinds : issued[k] =< issued'[k]
    /\ account' = "ABSENT" => account = "ABSENT"

LEMMA OthersKnow ==
  ASSUME IInv, TypeOK', Grows, NEW hd \in Handlers, NEW c \in Calls, Moves(hd, c), Knows(c)',
         jobs' = jobs \/ At(hd, "register.publish")
  PROVE  CallsKnow'
<1>. SUFFICES ASSUME NEW other \in Handlers \ {hd}
              PROVE  Knows(call[other])'
  BY DEF CallsKnow, Moves
<1>. DEFINE d == call[other]
<1>1. Knows(d) /\ d \in Calls /\ d.kind \in Kinds /\ call'[other] = d
  BY DEF IInv, TypeOK, CallsKnow, Moves, Calls
<1>2. issued[d.kind] \in Nat /\ issued'[d.kind] \in Nat /\ issued[d.kind] =< issued'[d.kind]
      /\ Limit[d.kind] \in Nat
  BY <1>1, AccountsAssumption DEF IInv, TypeOK, Grows
<1>3. d.pc \in RowSteps => d.row \in 1..issued'[d.kind]
  BY <1>1, <1>2 DEF Knows
<1>4. ASSUME d.pc = "send.retire", NEW r \in d.stale
      PROVE  r + Limit[d.kind] =< issued'[d.kind]
  <2>1. r + Limit[d.kind] =< issued[d.kind] /\ r \in Nat
    BY <1>1, <1>4 DEF Knows, Calls, Rows
  <2>. QED  BY <1>2, <2>1
<1>5. /\ d.pc = "register.publish" => account' # "ABSENT" /\ jobs' = 0
      /\ d.pc = "delete.rows" => account' # "ABSENT"
  BY <1>1 DEF Knows, Grows, IInv, OnePublisher, At
<1>. QED  BY <1>1, <1>3, <1>4, <1>5 DEF Knows

\* Nobody who was about to retire a row stops short of it, and no row is new.
LEMMA SurplusStep ==
  ASSUME IInv, NEW hd \in Handlers, NEW c \in Calls, Moves(hd, c), \A k \in Kinds : Active(k)' \subseteq Active(k),
         crashes' = 0 => crashes = 0 /\ call[hd].pc \notin {"send.list", "send.retire"}
  PROVE  SurplusIsSeen'
<1>. SUFFICES ASSUME crashes' = 0, NEW k \in Kinds, NEW r \in Surplus(k)'
              PROVE  \E any \in Handlers : Retires(any, k, r)'
  BY DEF SurplusIsSeen
<1>1. r \in Surplus(k)
  BY SurplusShrinks DEF IInv
<1>2. PICK any \in Handlers : Retires(any, k, r)
  BY <1>1 DEF IInv, SurplusIsSeen
<1>3. call'[any] = call[any]
  BY <1>2 DEF Moves, Retires, At
<1>. QED  BY <1>2, <1>3 DEF Retires, At

\* The invocations that have claimed a row go on to their last step.
LEMMA EffectStep ==
  ASSUME IInv, NEW hd \in Handlers, NEW c \in Calls, Moves(hd, c), UNCHANGED <<claims, done>>, account' = "LIVE" => account \in {"ABSENT", "LIVE"},
         crashes' = 0 => crashes = 0 /\ call[hd].pc \notin {"reset.update", "verify.update"}
  PROVE  ClaimTakesEffect'
<1>. SUFFICES ASSUME crashes' = 0, account' = "LIVE", NEW k \in Kinds, NEW r \in Rows, claims[k][r] > 0
              PROVE  \/ r \in done[k]
                     \/ \E any \in Handlers : /\ At(any, IF k = "token" THEN "reset.update" ELSE "verify.update")'
                                              /\ call'[any].row = r
  BY DEF ClaimTakesEffect, Exists, At
<1>. QED  BY DEF IInv, RowsInv, ClaimTakesEffect, Exists, Moves, At

\* Neither the rows nor the jobs change, except for codes tried and mails sent.
Still ==
    /\ account' = account \/ (account = "LIVE" /\ account' = "DELETED")
    /\ password' \in Passwords \cup {None}
    /\ verified' \in BOOLEAN
    /\ mailed' \in [Kinds -> SUBSET Rows]
    /\ attempts' \in [Rows -> Nat]
    /\ crashes' \in crashes..MaxCrashes
    /\ UNCHANGED <<jobs, issued, expired, used, claims, done, closed>>

\* The steps after which an invocation owes something
Owing == {"reset.update", "verify.update", "send.list", "send.retire", "register.publish"}

LEMMA StillStep ==
  ASSUME IInv, Still, NEW hd \in Handlers, NEW c \in Calls, Moves(hd, c), Knows(c),
         call[hd].pc \notin Owing \/ crashes' > crashes, c.pc # "register.publish"
  PROVE  IInv'
<1>. USE DEF Still
<1>1. TypeOK'
  BY DEF IInv, TypeOK, Moves
<1>2. crashes' = 0 => crashes = 0 /\ call[hd].pc \notin Owing
  BY DEF IInv, TypeOK
<1>3. RowsInv' /\ RetiredAreOld'
  BY DEF IInv, RowsInv, RetiredAreOld
<1>4. CallsKnow'
  <2>1. Grows
    BY DEF Grows, IInv, TypeOK
  <2>2. Knows(c)'
    BY DEF Knows
  <2>. QED  BY <1>1, <2>1, <2>2, OthersKnow
<1>5. OnePublisher'
  BY DEF IInv, OnePublisher, Moves, At
<1>6. Welcome'
  BY <1>2 DEF IInv, Welcome, WelcomedOnce, Moves, At, Owing
<1>7. ClaimTakesEffect'
  BY <1>2, EffectStep DEF Owing, IInv, TypeOK
<1>8. SurplusIsSeen'
  <2>1. \A k \in Kinds : Active(k)' \subseteq Active(k)
    BY DEF Active
  <2>. QED  BY <1>2, <2>1, SurplusStep DEF Owing
<1>. QED  BY <1>1, <1>3, <1>4, <1>5, <1>6, <1>7, <1>8 DEF IInv

----------------------------------------------------------------------------
(* The invocations begin *)

LEMMA UnchangedIsStill ==
  ASSUME IInv, UNCHANGED_user, UNCHANGED_rows, UNCHANGED_history
  PROVE  Still
BY DEF Still, IInv, TypeOK, UNCHANGED_user, UNCHANGED_rows, UNCHANGED_history

LEMMA BeginStep ==
  ASSUME IInv, UNCHANGED_user, UNCHANGED_rows, UNCHANGED_history,
         NEW hd \in Handlers, NEW c \in Calls, Begin(hd, c), Knows(c), c.pc # "register.publish"
  PROVE  IInv'
<1>1. Moves(hd, c) /\ call[hd].pc \notin Owing
  BY BeginEffect DEF IInv, Idle, Owing
<1>. QED  BY <1>1, UnchangedIsStill, StillStep

LEMMA StartersKeepIInv ==
  ASSUME IInv, NEW hd \in Handlers, Start(hd)
  PROVE  IInv'
<1>. USE DEF Idle, Knows, RowSteps, ResetSteps, VerifySteps, NewPassword
<1>. TypeOK /\ Idle \in Calls
  BY IdleIsACall DEF IInv
<1>1. ASSUME NEW p \in Passwords, Register(hd, p)
      PROVE  IInv'
  <2>. DEFINE c == [Idle EXCEPT !.pc = "register.create", !.new = p]
  <2>1. c \in Calls /\ Knows(c) /\ c.pc # "register.publish"
    BY DEF Calls, Steps, RegisterSteps
  <2>. QED  BY <1>1, <2>1, BeginStep DEF Register
<1>2. ASSUME NEW p \in Passwords, ChangePassword(hd, p)
      PROVE  IInv'
  <2>. DEFINE c == [Idle EXCEPT !.pc = "change.update", !.new = p]
  <2>1. c \in Calls /\ Knows(c) /\ c.pc # "register.publish"
    BY DEF Calls, Steps
  <2>. QED  BY <1>2, <2>1, BeginStep DEF ChangePassword
<1>3. CASE Forgot(hd) \/ Resend(hd)
  <2>1. PICK k \in Kinds : StartSending(hd, k)
    BY <1>3 DEF Forgot, Resend, Kinds
  <2>. DEFINE c == [Idle EXCEPT !.pc = "send.create", !.kind = k]
  <2>2. c \in Calls /\ Knows(c) /\ c.pc # "register.publish"
    BY DEF Calls, Steps, SendSteps
  <2>. QED  BY <2>1, <2>2, BeginStep DEF StartSending
<1>4. CASE Delete(hd)
  <2>. DEFINE c == [Idle EXCEPT !.pc = "delete.rows"]
  <2>1. c \in Calls /\ Knows(c) /\ c.pc # "register.publish"
    BY <1>4 DEF Calls, Steps, Delete, Exists
  <2>. QED  BY <1>4, <2>1, BeginStep DEF Delete
<1>5. ASSUME NEW r \in Rows, NEW p \in Passwords, Reset(hd, r, p)
      PROVE  IInv'
  <2>. DEFINE c == [Idle EXCEPT !.pc = "reset.user", !.kind = "token", !.row = r, !.new = p]
  <2>1. c \in Calls /\ Knows(c) /\ c.pc # "register.publish"
    <3>1. c \in Calls /\ c.pc = "reset.user" /\ c.kind = "token" /\ c.row = r /\ c.new = p
      BY DEF Calls, Steps, Kinds
    <3>2. r \in 1..issued["token"]
      BY <1>5 DEF Reset, Active, Rows, TypeOK, Kinds
    <3>. QED  BY <3>1, <3>2
  <2>. QED  BY <1>5, <2>1, BeginStep DEF Reset
<1>6. ASSUME NEW r \in mailed["code"] \cup {None}, Verify(hd, r)
      PROVE  IInv'
  <2>. DEFINE c == [Idle EXCEPT !.pc = "verify.find", !.row = r]
  <2>1. c \in Calls /\ Knows(c) /\ c.pc # "register.publish"
    BY DEF Calls, Steps, Kinds, TypeOK
  <2>. QED  BY <1>6, <2>1, BeginStep DEF Verify
<1>. QED  BY <1>1, <1>2, <1>3, <1>4, <1>5, <1>6 DEF Start

----------------------------------------------------------------------------
(* The steps that change no row *)

LEMMA QuietStepsKeepIInv ==
  ASSUME IInv, NEW hd \in Handlers,
         SendMail(hd) \/ ResetUser(hd) \/ ChangeUpdate(hd) \/ VerifyFind(hd)
            \/ VerifyCount(hd) \/ DeleteRows(hd) \/ Crash(hd)
  PROVE  IInv'
<1>. USE DEF At
<1>. TypeOK /\ Knows(call[hd]) /\ Knows(Idle) /\ Idle.pc # "register.publish"
  BY IdleKnows DEF IInv, CallsKnow, Idle
<1>f. /\ call[hd] \in Calls /\ call[hd].kind \in Kinds
      /\ call[hd].pc \in RowSteps => call[hd].row \in Rows
  BY CallFields DEF Knows
<1>1. ASSUME Finish(hd), Still, call[hd].pc \notin Owing \/ crashes' > crashes
      PROVE  IInv'
  <2>. DEFINE c == Idle
  <2>1. Moves(hd, c) /\ c \in Calls /\ Knows(c) /\ c.pc # "register.publish"
    BY <1>1, FinishEffect, IdleIsACall
  <2>. QED  BY <1>1, <2>1, StillStep
<1>2. CASE SendMail(hd)
  <2>1. Still
    <3>1. call[hd].row \in Rows
      BY <1>2, <1>f DEF SendMail, RowSteps
    <3>2. mailed' \in [Kinds -> SUBSET Rows]
      BY <1>2, <1>f, <3>1 DEF SendMail, TypeOK
    <3>. QED  BY <1>2, <3>2 DEF SendMail, Still, TypeOK, UNCHANGED_user, UNCHANGED_history
  <2>. QED  BY <1>1, <1>2, <2>1 DEF SendMail, Owing
<1>3. CASE ResetUser(hd)
  <2>1. Still
    BY <1>3, UnchangedIsStill DEF ResetUser
  <2>2. ASSUME Continue(hd, "reset.claim")
        PROVE  IInv'
    <3>. DEFINE c == [call[hd] EXCEPT !.pc = "reset.claim"]
    <3>1. "reset.claim" \in Steps
      BY DEF Steps, ResetSteps
    <3>. Moves(hd, c) /\ c \in Calls
      BY <2>2, <3>1, ContinueEffect DEF Moves
    <3>2. Knows(c) /\ c.pc # "register.publish"
      <4>1. c.pc = "reset.claim" /\ c.row = call[hd].row /\ c.kind = call[hd].kind /\ c.new = call[hd].new
        BY <1>f DEF Calls
      <4>. QED  BY <1>3, <4>1 DEF ResetUser, Knows, RowSteps, ResetSteps, VerifySteps, NewPassword
    <3>. QED  BY <1>3, <2>1, <3>2, StillStep DEF ResetUser, Owing
  <2>. QED  BY <1>1, <1>3, <2>1, <2>2 DEF ResetUser, Owing
<1>4. CASE ChangeUpdate(hd)
  <2>1. Still
    BY <1>4 DEF ChangeUpdate, Still, TypeOK, Knows, NewPassword, UNCHANGED_rows, UNCHANGED_history
  <2>. QED  BY <1>1, <1>4, <2>1 DEF ChangeUpdate, Owing
<1>5. CASE VerifyFind(hd)
  <2>1. Still
    BY <1>5, UnchangedIsStill DEF VerifyFind
  <2>f. call[hd].pc = "verify.find" /\ call[hd].pc \notin Owing
    BY <1>5 DEF VerifyFind, Owing
  <2>2. ASSUME NEW r \in Active("code"), NEW pc \in {"verify.claim", "verify.count"},
               Become(hd, [call[hd] EXCEPT !.pc = pc, !.row = r])
        PROVE  IInv'
    <3>. DEFINE c == [call[hd] EXCEPT !.pc = pc, !.row = r]
    <3>1. c \in Calls /\ c.pc = pc /\ c.row = r /\ c.kind = call[hd].kind
      BY DEF TypeOK, Calls, Steps, VerifySteps, Active
    <3>2. Moves(hd, c)
      BY <2>2, <3>1, SlotEffect
    <3>3. call[hd].kind = "code" /\ r \in 1..issued["code"]
      <4>1. issued["code"] \in Nat
        BY DEF TypeOK, Kinds
      <4>2. r \in 1..issued["code"]
        BY <4>1 DEF Active, Rows
      <4>. QED  BY <2>f, <4>2 DEF Knows, VerifySteps
    <3>4. Knows(c) /\ c.pc # "register.publish"
      BY <3>1, <3>3 DEF Knows, RowSteps, ResetSteps, VerifySteps, NewPassword
    <3>. QED  BY <2>1, <2>f, <3>1, <3>2, <3>4, StillStep
  <2>3. ASSUME NEW r \in Active("code"), r = call[hd].row, Continue(hd, "verify.claim")
        PROVE  IInv'
    <3>1. [call[hd] EXCEPT !.pc = "verify.claim"] = [call[hd] EXCEPT !.pc = "verify.claim", !.row = r]
      BY <2>3 DEF TypeOK, Calls
    <3>. QED  BY <2>2, <2>3, <3>1 DEF Continue
  <2>. QED  BY <1>1, <1>5, <2>1, <2>2, <2>3 DEF VerifyFind, Owing
<1>6. CASE VerifyCount(hd)
  <2>1. Still
    <3>1. call[hd].row \in Rows
      BY <1>6, <1>f DEF VerifyCount, RowSteps
    <3>2. attempts' \in [Rows -> Nat]
      BY <1>6, <3>1 DEF VerifyCount, TypeOK
    <3>. QED  BY <1>6, <3>2 DEF VerifyCount, Still, TypeOK, UNCHANGED_user, UNCHANGED_history
  <2>. QED  BY <1>1, <1>6, <2>1 DEF VerifyCount, Owing
<1>7. CASE DeleteRows(hd)
  <2>1. Still
    BY <1>7 DEF DeleteRows, Still, TypeOK, Knows, UNCHANGED_rows, UNCHANGED_history
  <2>. QED  BY <1>1, <1>7, <2>1 DEF DeleteRows, Owing
<1>8. CASE Crash(hd)
  <2>1. Still /\ crashes' > crashes
    BY <1>8, AccountsAssumption DEF Crash, Still, TypeOK, UNCHANGED_user, UNCHANGED_rows
  <2>. QED  BY <1>1, <1>8, <2>1 DEF Crash
<1>. QED  BY <1>2, <1>3, <1>4, <1>5, <1>6, <1>7, <1>8

----------------------------------------------------------------------------
(* Registration *)

LEMMA RegisterCreateKeepsIInv ==
  ASSUME IInv, NEW hd \in Handlers, RegisterCreate(hd)
  PROVE  IInv'
<1>. TypeOK /\ Knows(call[hd]) /\ call[hd].pc = "register.create" /\ call[hd].pc \notin Owing
  BY DEF IInv, CallsKnow, RegisterCreate, At, Owing
<1>1. CASE Finish(hd) /\ UNCHANGED <<account, password>>
  <2>1. Still
    BY <1>1, UnchangedIsStill DEF RegisterCreate, UNCHANGED_user
  <2>2. Moves(hd, Idle)
    BY <1>1, FinishEffect
  <2>. QED  BY <2>1, <2>2, IdleKnows, IdleIsACall, StillStep DEF Idle
<1>2. CASE account = "ABSENT" /\ account' = "LIVE" /\ password' = call[hd].new
           /\ Continue(hd, "register.publish")
  <2>. PICK c : c = [call[hd] EXCEPT !.pc = "register.publish"]
    OBVIOUS
  <2>. USE DEF RegisterCreate, UNCHANGED_rows, UNCHANGED_history
  <2>1. "register.publish" \in Steps
    BY DEF Steps, RegisterSteps
  <2>2. Moves(hd, c) /\ c \in Calls /\ c.pc = "register.publish"
    BY <1>2, <2>1, ContinueEffect, CallFields DEF Calls, Moves
  <2>3. TypeOK'
    BY <1>2, <2>2 DEF TypeOK, Moves, Knows, NewPassword
  <2>4. RowsInv' /\ RetiredAreOld'
    BY <1>2 DEF IInv, RowsInv, RetiredAreOld
  <2>5. CallsKnow'
    <3>1. jobs = 0
      BY <1>2 DEF IInv, Welcome
    <3>2. Knows(c)'
      BY <1>2, <2>2, <3>1 DEF Knows, RowSteps, ResetSteps, VerifySteps, NewPassword
    <3>3. Grows
      BY <1>2 DEF Grows, TypeOK
    <3>. QED  BY <2>2, <2>3, <3>2, <3>3, OthersKnow
  <2>6. \A other \in Handlers : call[other].pc # "register.publish"
    BY <1>2 DEF IInv, CallsKnow, Knows
  <2>7. OnePublisher'
    BY <2>2, <2>6 DEF OnePublisher, Moves, At
  <2>8. Welcome'
    BY <1>2, <2>2 DEF IInv, Welcome, WelcomedOnce, Moves, At
  <2>9. ClaimTakesEffect'
    BY <1>2, <2>2, EffectStep DEF Owing
  <2>10. SurplusIsSeen'
    BY <1>2, <2>2, SurplusStep DEF Active, Owing
  <2>. QED  BY <2>3, <2>4, <2>5, <2>7, <2>8, <2>9, <2>10 DEF IInv
<1>. QED  BY <1>1, <1>2 DEF RegisterCreate

LEMMA RegisterPublishKeepsIInv ==
  ASSUME IInv, NEW hd \in Handlers, RegisterPublish(hd)
  PROVE  IInv'
<1>. DEFINE c == [Idle EXCEPT !.pc = "send.create", !.kind = "code"]
<1>. USE DEF RegisterPublish, UNCHANGED_rows, UNCHANGED_history
<1>. TypeOK /\ Knows(call[hd]) /\ call[hd].pc = "register.publish"
  BY DEF IInv, CallsKnow, At
<1>1. Moves(hd, c) /\ c \in Calls /\ c.pc = "send.create"
  <2>1. c \in Calls
    BY IdleIsACall DEF Calls, Steps, SendSteps, Kinds, Idle
  <2>. QED  BY <2>1, SlotEffect DEF Idle
<1>2. account # "ABSENT" /\ jobs = 0 /\ jobs' = 1
  BY DEF Knows
<1>3. TypeOK'
  BY <1>1, <1>2 DEF TypeOK, Moves
<1>4. RowsInv' /\ RetiredAreOld'
  BY DEF IInv, RowsInv, RetiredAreOld
<1>5. CallsKnow'
  <2>1. Knows(c)'
    BY <1>1 DEF Knows, RowSteps, ResetSteps, VerifySteps, NewPassword
  <2>2. Grows
    BY DEF Grows, TypeOK
  <2>. QED  BY <1>1, <1>3, <2>1, <2>2, OthersKnow DEF At
<1>6. OnePublisher' /\ Welcome'
  BY <1>1, <1>2 DEF IInv, OnePublisher, Welcome, WelcomedOnce, Moves, At
<1>7. ClaimTakesEffect'
  BY <1>1, EffectStep, <1>2 DEF TypeOK
<1>8. SurplusIsSeen'
  BY <1>1, SurplusStep DEF Active
<1>. QED  BY <1>3, <1>4, <1>5, <1>6, <1>7, <1>8 DEF IInv

----------------------------------------------------------------------------
(* The mails *)

LEMMA SendCreateKeepsIInv ==
  ASSUME IInv, NEW hd \in Handlers, SendCreate(hd)
  PROVE  IInv'
<1>. DEFINE k == call[hd].kind
<1>. TypeOK /\ Knows(call[hd]) /\ call[hd].pc = "send.create" /\ call[hd].pc \notin Owing
  BY DEF IInv, CallsKnow, SendCreate, At, Owing
<1>. k \in Kinds
  BY CallFields
<1>1. CASE Finish(hd) /\ UNCHANGED issued
  <2>1. Still
    BY <1>1, UnchangedIsStill DEF SendCreate, UNCHANGED_rows
  <2>2. Moves(hd, Idle)
    BY <1>1, FinishEffect
  <2>. QED  BY <2>1, <2>2, IdleKnows, IdleIsACall, StillStep DEF Idle
<1>2. CASE /\ Exists /\ issued[k] < MaxIssued[k]
           /\ issued' = [issued EXCEPT ![k] = @ + 1]
           /\ Become(hd, [call[hd] EXCEPT !.pc = "send.list", !.row = issued[k] + 1])
  <2>. DEFINE n == issued[k] + 1
  <2>. PICK c : c = [call[hd] EXCEPT !.pc = "send.list", !.row = n]
    OBVIOUS
  <2>. USE DEF SendCreate, UNCHANGED_user, UNCHANGED_history
  <2>1. issued[k] \in Nat /\ n \in Rows /\ n \in 0..MaxRows
    <3>1. issued[k] \in Nat /\ MaxIssued[k] \in 0..MaxRows /\ MaxRows \in Nat
      BY AccountsAssumption DEF TypeOK
    <3>. QED  BY <1>2, <3>1 DEF Rows
  <2>2. issued' \in [Kinds -> 0..MaxRows] /\ issued'[k] = n
        /\ \A j \in Kinds \ {k} : issued'[j] = issued[j]
    BY <1>2, <2>1 DEF TypeOK
  <2>3. Moves(hd, c) /\ c \in Calls /\ c.pc = "send.list" /\ c.row = n /\ c.kind = k
    <3>1. c \in Calls /\ c.pc = "send.list" /\ c.row = n /\ c.kind = k
      BY <2>1, CallFields DEF Calls, Steps, SendSteps
    <3>. QED  BY <1>2, <3>1, SlotEffect
  <2>4. TypeOK'
    BY <2>2, <2>3 DEF TypeOK, Moves
  <2>5. Grows
    BY <2>1, <2>2 DEF Grows, TypeOK
  <2>6. \A j \in Kinds : 1..issued[j] \subseteq 1..issued'[j]
    BY <2>1, <2>2 DEF TypeOK
  <2>7. RowsInv'
    BY <2>6 DEF IInv, RowsInv
  <2>8. RetiredAreOld'
    <3>. SUFFICES ASSUME NEW j \in Kinds, NEW r \in used[j]
                  PROVE  \/ claims[j][r] > 0
                         \/ r + Limit[j] =< issued'[j]
                         \/ j = "token" /\ r =< closed
      BY DEF RetiredAreOld
    <3>1. r \in Nat /\ Limit[j] \in Nat /\ issued[j] \in Nat /\ issued'[j] \in Nat /\ issued[j] =< issued'[j]
      BY <2>2, <2>5, AccountsAssumption DEF TypeOK, Rows, Grows
    <3>. QED  BY <3>1 DEF IInv, RetiredAreOld
  <2>9. CallsKnow'
    <3>1. Knows(c)'
      BY <2>1, <2>2, <2>3 DEF Knows, RowSteps, ResetSteps, VerifySteps, NewPassword
    <3>. QED  BY <2>3, <2>4, <2>5, <3>1, OthersKnow
  <2>10. OnePublisher' /\ Welcome'
    <3>1. UNCHANGED <<account, jobs, crashes>>
      OBVIOUS
    <3>2. \A any \in Handlers : At(any, "register.publish")' => At(any, "register.publish")
      BY <2>3 DEF Moves, At
    <3>3. OnePublisher'
      BY <3>2 DEF IInv, OnePublisher
    <3>4. Welcome'
      BY <2>3, <3>1 DEF IInv, Welcome, WelcomedOnce, Moves, At
    <3>. QED  BY <3>3, <3>4
  <2>11. ClaimTakesEffect'
    BY <1>2, <2>3, EffectStep DEF Owing, Exists
  <2>12. SurplusIsSeen'
    <3>. SUFFICES ASSUME crashes = 0, NEW j \in Kinds, NEW r \in Surplus(j)'
                  PROVE  \E any \in Handlers : Retires(any, j, r)'
      BY DEF SurplusIsSeen
    <3>1. CASE j = k
      BY <2>3, <3>1 DEF Retires, At, Moves
    <3>2. CASE j # k
      <4>1. Active(j)' = Active(j)
        BY <2>2, <3>2 DEF Active
      <4>2. r \in Surplus(j)
        BY <4>1, SurplusShrinks
      <4>3. PICK any \in Handlers : Retires(any, j, r)
        BY <4>2 DEF IInv, SurplusIsSeen
      <4>4. call'[any] = call[any]
        BY <2>3, <4>3 DEF Moves, Retires, At
      <4>. QED  BY <4>3, <4>4 DEF Retires, At
    <3>. QED  BY <3>1, <3>2
  <2>. QED  BY <2>4, <2>7, <2>8, <2>9, <2>10, <2>11, <2>12 DEF IInv
<1>. QED  BY <1>1, <1>2 DEF SendCreate

LEMMA SendListKeepsIInv ==
  ASSUME IInv, NEW hd \in Handlers, SendList(hd)
  PROVE  IInv'
<1>. DEFINE k     == call[hd].kind
            stale == Surplus(k)
<1>. PICK c : c = [call[hd] EXCEPT !.pc = IF stale = {} THEN "send.mail" ELSE "send.retire",
                                   !.stale = stale]
  OBVIOUS
<1>. TypeOK /\ Knows(call[hd]) /\ call[hd].pc = "send.list"
  BY DEF IInv, CallsKnow, SendList, At
<1>. k \in Kinds /\ call[hd] \in Calls
  BY CallFields
<1>1. /\ c \in Calls /\ c.kind = k /\ c.row = call[hd].row /\ c.stale = stale
      /\ c.pc = IF stale = {} THEN "send.mail" ELSE "send.retire"
  <2>1. stale \subseteq Rows
    BY DEF Surplus, Active
  <2>. QED  BY <2>1 DEF Calls, Steps, SendSteps
<1>2. Moves(hd, c)
  BY <1>1, SlotEffect DEF SendList
<1>3. UNCHANGED_user /\ UNCHANGED_rows /\ UNCHANGED_history
  BY DEF SendList
<1>. USE DEF UNCHANGED_user, UNCHANGED_rows, UNCHANGED_history
<1>4. TypeOK'
  BY <1>2, <1>3 DEF TypeOK, Moves
<1>5. RowsInv' /\ RetiredAreOld'
  BY <1>3 DEF IInv, RowsInv, RetiredAreOld
<1>6. CallsKnow'
  <2>1. \A r \in stale : r + Limit[k] =< issued[k]
    BY SurplusIsOld
  <2>2. Knows(c)
    BY <1>1, <2>1 DEF Knows, RowSteps, ResetSteps, VerifySteps, NewPassword
  <2>3. Knows(c)' /\ Grows
    BY <1>3, <2>2 DEF Knows, Grows, TypeOK
  <2>. QED  BY <1>1, <1>2, <1>3, <1>4, <2>3, OthersKnow
<1>7. \A any \in Handlers : At(any, "register.publish")' <=> At(any, "register.publish")
  BY <1>1, <1>2 DEF Moves, At
<1>8. OnePublisher' /\ Welcome'
  BY <1>3, <1>7 DEF IInv, OnePublisher, Welcome, WelcomedOnce
<1>9. ClaimTakesEffect'
  BY <1>1, <1>2, <1>3, EffectStep DEF TypeOK
<1>10. SurplusIsSeen'
  <2>. SUFFICES ASSUME crashes = 0, NEW j \in Kinds, NEW r \in Surplus(j)'
                PROVE  \E any \in Handlers : Retires(any, j, r)'
    BY <1>3 DEF SurplusIsSeen
  <2>1. r \in Surplus(j)
    BY <1>3, SurplusShrinks DEF Active
  <2>2. PICK any \in Handlers : Retires(any, j, r)
    BY <2>1 DEF IInv, SurplusIsSeen
  <2>3. CASE any = hd
    <3>1. j = k /\ r \in stale
      BY <2>1, <2>2, <2>3 DEF Retires
    <3>. QED  BY <1>1, <1>2, <3>1 DEF Retires, At, Moves
  <2>4. CASE any # hd
    BY <1>2, <2>2, <2>4 DEF Retires, At, Moves
  <2>. QED  BY <2>3, <2>4
<1>. QED  BY <1>4, <1>5, <1>6, <1>8, <1>9, <1>10 DEF IInv

LEMMA SendRetireKeepsIInv ==
  ASSUME IInv, NEW hd \in Handlers, SendRetire(hd)
  PROVE  IInv'
<1>. DEFINE k == call[hd].kind
<1>. PICK c : c = [call[hd] EXCEPT !.pc = "send.mail", !.stale = {}]
  OBVIOUS
<1>. TypeOK /\ Knows(call[hd]) /\ call[hd].pc = "send.retire"
  BY DEF IInv, CallsKnow, SendRetire, At
<1>. k \in Kinds /\ call[hd] \in Calls /\ call[hd].stale \subseteq Rows
  BY CallFields
<1>1. c \in Calls /\ c.kind = k /\ c.row = call[hd].row /\ c.pc = "send.mail"
  BY DEF Calls, Steps, SendSteps
<1>2. Moves(hd, c)
  BY <1>1, SlotEffect DEF SendRetire
<1>3. /\ UNCHANGED_user /\ UNCHANGED_history /\ UNCHANGED <<issued, expired, mailed, attempts>>
      /\ used' = [used EXCEPT ![k] = @ \cup call[hd].stale]
  BY DEF SendRetire
<1>. USE DEF UNCHANGED_user, UNCHANGED_history
<1>4. /\ used' \in [Kinds -> SUBSET Rows]
      /\ used'[k] = used[k] \cup call[hd].stale
      /\ \A j \in Kinds \ {k} : used'[j] = used[j]
  BY <1>3 DEF TypeOK
<1>5. TypeOK'
  BY <1>2, <1>3, <1>4 DEF TypeOK, Moves
<1>6. \A r \in call[hd].stale : r \in 1..issued[k] /\ r + Limit[k] =< issued[k]
  <2>1. \A r \in call[hd].stale : r + Limit[k] =< issued[k] /\ r \in Nat \ {0}
    BY DEF Knows, Rows
  <2>2. Limit[k] \in Nat /\ issued[k] \in Nat
    BY AccountsAssumption DEF TypeOK
  <2>. QED  BY <2>1, <2>2
<1>7. RowsInv' /\ RetiredAreOld'
  <2>1. RowsInv'
    BY <1>3, <1>4, <1>6 DEF IInv, RowsInv, Kinds
  <2>2. RetiredAreOld'
    BY <1>3, <1>4, <1>6 DEF IInv, RetiredAreOld
  <2>. QED  BY <2>1, <2>2
<1>8. CallsKnow'
  <2>1. Knows(c)
    BY <1>1 DEF Knows, RowSteps, ResetSteps, VerifySteps, NewPassword
  <2>2. Knows(c)' /\ Grows
    BY <1>3, <2>1 DEF Knows, Grows, TypeOK
  <2>. QED  BY <1>1, <1>2, <1>3, <1>5, <2>2, OthersKnow
<1>9. \A any \in Handlers : At(any, "register.publish")' <=> At(any, "register.publish")
  BY <1>1, <1>2 DEF Moves, At
<1>10. OnePublisher' /\ Welcome'
  BY <1>3, <1>9 DEF IInv, OnePublisher, Welcome, WelcomedOnce
<1>11. ClaimTakesEffect'
  BY <1>1, <1>2, <1>3, EffectStep DEF TypeOK
<1>12. SurplusIsSeen'
  <2>. SUFFICES ASSUME crashes = 0, NEW j \in Kinds, NEW r \in Surplus(j)'
                PROVE  \E any \in Handlers : Retires(any, j, r)'
    BY <1>3 DEF SurplusIsSeen
  <2>1. Active(j)' \subseteq Active(j)
    BY <1>3, <1>4 DEF Active
  <2>2. r \in Surplus(j) /\ r \notin used'[j]
    BY <2>1, SurplusShrinks DEF Surplus, Active
  <2>3. PICK any \in Handlers : Retires(any, j, r)
    BY <2>2 DEF IInv, SurplusIsSeen
  <2>4. any # hd
    BY <1>4, <2>2, <2>3 DEF Retires, At
  <2>. QED  BY <1>2, <2>3, <2>4 DEF Retires, At, Moves
<1>. QED  BY <1>5, <1>7, <1>8, <1>10, <1>11, <1>12 DEF IInv

\* Time passes for the rows only.
LEMMA ExpireKeepsIInv ==
  ASSUME IInv, NEW k \in Kinds, Expire(k)
  PROVE  IInv'
<1>. USE DEF Expire, UNCHANGED_user, UNCHANGED_history
<1>. TypeOK
  BY DEF IInv
<1>1. /\ expired[k] \in Nat /\ expired[k] + 1 \in 0..MaxRows
      /\ expired' = [expired EXCEPT ![k] = expired[k] + 1]
  BY AccountsAssumption DEF TypeOK
<1>2. TypeOK' /\ \A j \in Kinds : expired[j] =< expired'[j]
  BY <1>1 DEF TypeOK
<1>3. RowsInv' /\ RetiredAreOld'
  BY DEF IInv, RowsInv, RetiredAreOld
<1>4. CallsKnow' /\ OnePublisher' /\ Welcome'
  BY DEF IInv, CallsKnow, Knows, OnePublisher, Welcome, WelcomedOnce, At
<1>5. ClaimTakesEffect'
  BY DEF IInv, ClaimTakesEffect, Exists, At
<1>6. SurplusIsSeen'
  <2>1. \A j \in Kinds : Active(j)' \subseteq Active(j)
    BY <1>2 DEF Active, TypeOK, Rows
  <2>2. \A j \in Kinds : Surplus(j)' \subseteq Surplus(j)
    BY <2>1, SurplusShrinks
  <2>. QED  BY <2>2 DEF IInv, SurplusIsSeen, Retires, At
<1>. QED  BY <1>2, <1>3, <1>4, <1>5, <1>6 DEF IInv

----------------------------------------------------------------------------
(* A row is claimed, and takes effect *)

\* The claimed row was not used up, and now is; nothing else changes.
ClaimEffect(k, r) ==
    /\ r \in Rows /\ r \notin used[k]
    /\ used' \in [Kinds -> SUBSET Rows]
    /\ used'[k] = used[k] \cup {r}
    /\ \A j \in Kinds \ {k} : used'[j] = used[j]
    /\ claims' \in [Kinds -> [Rows -> Nat]]
    /\ claims'[k][r] = claims[k][r] + 1
    /\ \A j \in Kinds, x \in Rows : j # k \/ x # r => claims'[j][x] = claims[j][x]

LEMMA ClaimRowEffect ==
  ASSUME TypeOK, NEW k \in Kinds, NEW r \in Rows, ClaimRow(k, r)
  PROVE  ClaimEffect(k, r)
<1>1. used' = [used EXCEPT ![k] = used[k] \cup {r}]
  BY DEF ClaimRow
<1>2. claims' = [claims EXCEPT ![k] = [claims[k] EXCEPT ![r] = claims[k][r] + 1]]
  BY DEF ClaimRow, TypeOK
<1>3. /\ used' \in [Kinds -> SUBSET Rows]
      /\ used'[k] = used[k] \cup {r}
      /\ \A j \in Kinds \ {k} : used'[j] = used[j]
  BY <1>1 DEF TypeOK
<1>4. claims[k] \in [Rows -> Nat] /\ claims[k][r] \in Nat
  BY DEF TypeOK
<1>. DEFINE f == [claims[k] EXCEPT ![r] = claims[k][r] + 1]
<1>5. f \in [Rows -> Nat] /\ f[r] = claims[k][r] + 1 /\ \A x \in Rows \ {r} : f[x] = claims[k][x]
  BY <1>4
<1>6. claims' = [claims EXCEPT ![k] = f]
  BY <1>2
<1>. HIDE DEF f
<1>7. claims' \in [Kinds -> [Rows -> Nat]] /\ claims'[k] = f /\ \A j \in Kinds \ {k} : claims'[j] = claims[j]
  BY <1>5, <1>6 DEF TypeOK
<1>8. \A j \in Kinds, x \in Rows : j # k \/ x # r => claims'[j][x] = claims[j][x]
  BY <1>5, <1>7
<1>. QED  BY <1>3, <1>5, <1>7, <1>8 DEF ClaimEffect, ClaimRow

LEMMA ClaimKeepsIInv ==
  ASSUME IInv, NEW hd \in Handlers, NEW k \in Kinds, NEW next \in {"reset.update", "verify.update"},
         Claim(hd, k, next), call[hd].kind = k,
         \/ k = "token" /\ next = "reset.update" /\ At(hd, "reset.claim")
         \/ k = "code" /\ next = "verify.update" /\ At(hd, "verify.claim")
  PROVE  IInv'
<1>. PICK r : r = call[hd].row
  OBVIOUS
<1>. PICK c : c = [call[hd] EXCEPT !.pc = next]
  OBVIOUS
<1>. TypeOK /\ Knows(call[hd]) /\ call[hd].pc \in {"reset.claim", "verify.claim"} /\ call[hd].pc \notin Owing
  BY DEF IInv, CallsKnow, At, Owing
<1>. r \in 1..issued[k] /\ r \in Rows /\ call[hd] \in Calls
  BY CallFields DEF Knows, RowSteps
<1>1. CASE Finish(hd) /\ UNCHANGED <<used, claims>>
  <2>1. Still
    BY <1>1, UnchangedIsStill DEF Claim, UNCHANGED_rows, UNCHANGED_history
  <2>2. Moves(hd, Idle)
    BY <1>1, FinishEffect
  <2>. QED  BY <2>1, <2>2, IdleKnows, IdleIsACall, StillStep DEF Idle
<1>2. CASE ClaimRow(k, r) /\ Continue(hd, next)
  <2>1. /\ c \in Calls /\ c.kind = k /\ c.row = r /\ c.pc = next /\ c.new = call[hd].new
    BY DEF Calls, Steps, ResetSteps, VerifySteps
  <2>2. Moves(hd, c)
    BY <1>2, <2>1, SlotEffect DEF Continue
  <2>3. ClaimEffect(k, r)
    BY <1>2, ClaimRowEffect
  <2>4. UNCHANGED_user /\ UNCHANGED <<issued, expired, mailed, attempts, crashes, done, closed>>
    BY DEF Claim
  <2>. USE DEF UNCHANGED_user, ClaimEffect
  <2>5. TypeOK'
    BY <2>2, <2>3, <2>4 DEF TypeOK, Moves
  <2>6. RowsInv'
    <3>1. account # "ABSENT"
      BY <1>2 DEF ClaimRow, Exists
    <3>2. \A j \in Kinds : used[j] \subseteq used'[j] /\ used'[j] \subseteq 1..issued[j]
      BY <2>3 DEF IInv, RowsInv
    <3>3. \A j \in Kinds, x \in Rows : claims'[j][x] = 0 \/ (claims'[j][x] = 1 /\ x \in used'[j])
      <4>. SUFFICES ASSUME NEW j \in Kinds, NEW x \in Rows
                    PROVE  claims'[j][x] = 0 \/ (claims'[j][x] = 1 /\ x \in used'[j])
        OBVIOUS
      <4>1. CASE j = k /\ x = r
        BY <2>3, <4>1 DEF IInv, RowsInv
      <4>2. CASE j # k \/ x # r
        BY <2>3, <3>2, <4>2 DEF IInv, RowsInv
      <4>. QED  BY <4>1, <4>2
    <3>. QED  BY <2>4, <3>1, <3>2, <3>3 DEF IInv, RowsInv, Kinds
  <2>7. RetiredAreOld'
    <3>. SUFFICES ASSUME NEW j \in Kinds, NEW x \in used'[j]
                  PROVE  \/ claims'[j][x] > 0
                         \/ x + Limit[j] =< issued[j]
                         \/ j = "token" /\ x =< closed
      BY <2>4 DEF RetiredAreOld
    <3>1. CASE j = k /\ x = r
      BY <2>3, <3>1 DEF TypeOK
    <3>2. CASE j # k \/ x # r
      <4>1. x \in used[j] /\ x \in Rows
        BY <2>3, <3>2 DEF TypeOK
      <4>. QED  BY <2>3, <3>2, <4>1 DEF IInv, RetiredAreOld
    <3>. QED  BY <3>1, <3>2
  <2>8. CallsKnow'
    <3>1. Knows(c)
      BY <2>1 DEF Knows, RowSteps, ResetSteps, VerifySteps, NewPassword, At
    <3>2. Knows(c)' /\ Grows
      BY <2>4, <3>1 DEF Knows, Grows, TypeOK
    <3>. QED  BY <2>1, <2>2, <2>4, <2>5, <3>2, OthersKnow
  <2>9. \A any \in Handlers : At(any, "register.publish")' <=> At(any, "register.publish")
    BY <2>1, <2>2 DEF Moves, At
  <2>10. OnePublisher' /\ Welcome'
    BY <2>4, <2>9 DEF IInv, OnePublisher, Welcome, WelcomedOnce
  <2>11. ClaimTakesEffect'
    <3>. DEFINE last(j) == IF j = "token" THEN "reset.update" ELSE "verify.update"
    <3>. SUFFICES ASSUME crashes = 0, Exists, NEW j \in Kinds, NEW x \in Rows, claims'[j][x] > 0
                  PROVE  \/ x \in done[j]
                         \/ \E any \in Handlers : call'[any].pc = last(j) /\ call'[any].row = x
      BY <2>4 DEF ClaimTakesEffect, Exists, At
    <3>1. CASE j = k /\ x = r
      BY <2>1, <2>2, <3>1 DEF Moves
    <3>2. CASE j # k \/ x # r
      <4>1. claims[j][x] > 0
        BY <2>3, <3>2
      <4>2. x \in done[j] \/ \E any \in Handlers : call[any].pc = last(j) /\ call[any].row = x
        BY <4>1 DEF IInv, ClaimTakesEffect, At
      <4>3. \A any \in Handlers : call[any].pc = last(j) => call'[any] = call[any]
        BY <2>2 DEF Moves, Owing
      <4>. QED  BY <4>2, <4>3
    <3>. QED  BY <3>1, <3>2
  <2>12. SurplusIsSeen'
    <3>1. \A j \in Kinds : Active(j)' \subseteq Active(j)
      BY <2>3, <2>4 DEF Active
    <3>. QED  BY <2>1, <2>2, <2>4, <3>1, SurplusStep DEF Owing
  <2>. QED  BY <2>5, <2>6, <2>7, <2>8, <2>10, <2>11, <2>12 DEF IInv
<1>. QED  BY <1>1, <1>2 DEF Claim

LEMMA ClaimsKeepIInv ==
  ASSUME IInv, NEW hd \in Handlers, ResetClaim(hd) \/ VerifyClaim(hd)
  PROVE  IInv'
<1>1. Knows(call[hd])
  BY DEF IInv, CallsKnow
<1>2. CASE ResetClaim(hd)
  BY <1>1, <1>2, ClaimKeepsIInv DEF ResetClaim, At, Knows, ResetSteps, Kinds
<1>3. CASE VerifyClaim(hd)
  BY <1>1, <1>3, ClaimKeepsIInv DEF VerifyClaim, At, Knows, VerifySteps, Kinds
<1>. QED  BY <1>2, <1>3

\* The last step of a reset or of a verification: the row takes effect.
LEMMA EffectsKeepIInv ==
  ASSUME IInv, NEW hd \in Handlers, ResetUpdate(hd) \/ VerifyUpdate(hd)
  PROVE  IInv'
<1>. PICK r : r = call[hd].row
  OBVIOUS
<1>. PICK k : k = call[hd].kind
  OBVIOUS
<1>. TypeOK /\ Knows(call[hd]) /\ call[hd].pc \in {"reset.update", "verify.update"}
  BY DEF IInv, CallsKnow, ResetUpdate, VerifyUpdate, At
<1>1. /\ r \in Rows /\ k \in Kinds
      /\ k = IF call[hd].pc = "reset.update" THEN "token" ELSE "code"
  BY CallFields DEF Knows, RowSteps, ResetSteps, VerifySteps
<1>2. Moves(hd, Idle)
  BY FinishEffect DEF ResetUpdate, VerifyUpdate
<1>3. UNCHANGED <<account, jobs, issued, expired, mailed, attempts, crashes, claims>>
  BY DEF ResetUpdate, VerifyUpdate, UNCHANGED_rows
<1>4. /\ \/ UNCHANGED <<used, closed>>
         \/ used' = [used EXCEPT !["token"] = 1..issued["token"]] /\ closed' = issued["token"]
      /\ done' = done \/ done' = [done EXCEPT ![k] = @ \cup {r}]
      /\ Exists => done' = [done EXCEPT ![k] = @ \cup {r}]
      /\ password' \in Passwords \cup {None} /\ verified' \in BOOLEAN
  <2>1. CASE ResetUpdate(hd)
    BY <1>1, <2>1 DEF ResetUpdate, At, TypeOK, Knows, NewPassword
  <2>2. CASE VerifyUpdate(hd)
    BY <1>1, <2>2 DEF VerifyUpdate, At, TypeOK, UNCHANGED_rows
  <2>. QED  BY <2>1, <2>2
<1>5. /\ used' \in [Kinds -> SUBSET Rows]
      /\ \A j \in Kinds : used[j] \subseteq used'[j] /\ used'[j] \subseteq 1..issued[j]
      /\ used' = used \/ used'["token"] = 1..issued["token"]
      /\ used'["code"] = used["code"]
  <2>1. 1..issued["token"] \subseteq Rows
    BY AccountsAssumption DEF TypeOK, Rows, Kinds
  <2>. /\ used \in [Kinds -> SUBSET Rows] /\ {"token", "code"} = Kinds
       /\ \A j \in Kinds : used[j] \subseteq 1..issued[j]
    BY DEF IInv, RowsInv, TypeOK, Kinds
  <2>2. CASE used' = used
    BY <2>2
  <2>3. CASE used' = [used EXCEPT !["token"] = 1..issued["token"]]
    <3>1. used'["token"] = 1..issued["token"] /\ used'["code"] = used["code"]
      BY <2>3
    <3>2. used' \in [Kinds -> SUBSET Rows]
      BY <2>1, <2>3
    <3>. QED  BY <3>1, <3>2
  <2>. QED  BY <1>4, <2>2, <2>3
<1>6. /\ done' \in [Kinds -> SUBSET Rows]
      /\ \A j \in Kinds : done[j] \subseteq done'[j]
      /\ Exists => r \in done'[k]
  <2>. done \in [Kinds -> SUBSET Rows]
    BY DEF TypeOK
  <2>1. ASSUME done' = [done EXCEPT ![k] = @ \cup {r}]
        PROVE  /\ done' \in [Kinds -> SUBSET Rows]
               /\ \A j \in Kinds : done[j] \subseteq done'[j]
               /\ r \in done'[k]
    BY <1>1, <2>1
  <2>. QED  BY <1>4, <2>1
<1>7. TypeOK'
  <2>1. closed' \in 0..MaxRows
    BY <1>4 DEF TypeOK, Kinds
  <2>. QED  BY <1>2, <1>3, <1>4, <1>5, <1>6, <2>1 DEF TypeOK, Moves
<1>8. RowsInv'
  <2>1. \A x \in Rows : x =< closed' => x \in used'["token"]
    BY <1>4, <1>5 DEF IInv, RowsInv, Rows, TypeOK, Kinds
  <2>. QED  BY <1>3, <1>5, <2>1 DEF IInv, RowsInv
<1>9. RetiredAreOld'
  <2>. SUFFICES ASSUME NEW j \in Kinds, NEW x \in used'[j], ~(j = "token" /\ x =< closed')
                PROVE  claims[j][x] > 0 \/ x + Limit[j] =< issued[j]
    BY <1>3 DEF RetiredAreOld
  <2>1. (x \in used[j] /\ closed' = closed) \/ j = "code"
    BY <1>4, <1>5 DEF Kinds, TypeOK
  <2>2. x \in used[j] /\ ~(j = "token" /\ x =< closed)
    BY <1>5, <2>1
  <2>. QED  BY <2>2 DEF IInv, RetiredAreOld
<1>10. CallsKnow'
  <2>1. Knows(Idle)' /\ Grows
    BY <1>3, IdleKnows DEF Knows, Grows, TypeOK, Idle, RowSteps, ResetSteps, VerifySteps, NewPassword
  <2>. QED  BY <1>2, <1>3, <1>7, <2>1, IdleIsACall, OthersKnow
<1>11. \A any \in Handlers : At(any, "register.publish")' <=> At(any, "register.publish")
  BY <1>2 DEF Moves, At, Idle
<1>12. OnePublisher' /\ Welcome'
  BY <1>3, <1>11 DEF IInv, OnePublisher, Welcome, WelcomedOnce
<1>13. ClaimTakesEffect'
  <2>. DEFINE last(j) == IF j = "token" THEN "reset.update" ELSE "verify.update"
  <2>. SUFFICES ASSUME crashes = 0, Exists, NEW j \in Kinds, NEW x \in Rows, claims[j][x] > 0
                PROVE  \/ x \in done'[j]
                       \/ \E any \in Handlers : call'[any].pc = last(j) /\ call'[any].row = x
    BY <1>3 DEF ClaimTakesEffect, Exists, At
  <2>1. x \in done[j] \/ \E any \in Handlers : call[any].pc = last(j) /\ call[any].row = x
    BY DEF IInv, ClaimTakesEffect, At
  <2>2. CASE x \in done[j]
    BY <1>6, <2>2
  <2>3. ASSUME NEW any \in Handlers, call[any].pc = last(j), call[any].row = x
        PROVE  x \in done'[j] \/ (call'[any].pc = last(j) /\ call'[any].row = x)
    <3>1. CASE any = hd
      BY <1>1, <1>6, <2>3, <3>1 DEF Kinds
    <3>2. CASE any # hd
      BY <1>2, <2>3, <3>2 DEF Moves
    <3>. QED  BY <3>1, <3>2
  <2>. QED  BY <2>1, <2>2, <2>3
<1>14. SurplusIsSeen'
  <2>1. \A j \in Kinds : Active(j)' \subseteq Active(j)
    BY <1>3, <1>5 DEF Active
  <2>. QED  BY <1>2, <1>3, <2>1, IdleIsACall, SurplusStep
<1>. QED  BY <1>7, <1>8, <1>9, <1>10, <1>12, <1>13, <1>14 DEF IInv

----------------------------------------------------------------------------
(* The inductive invariant *)

LEMMA InitIInv == Init => IInv
<1>. SUFFICES ASSUME Init
              PROVE  IInv
  OBVIOUS
<1>1. TypeOK
  <2>1. call \in [Handlers -> Calls]
    BY IdleIsACall DEF Init
  <2>2. 0 \in 0..MaxRows /\ 0 \in 0..MaxCrashes
    BY AccountsAssumption
  <2>. QED  BY <2>1, <2>2 DEF Init, TypeOK
<1>2. RowsInv /\ RetiredAreOld
  BY DEF Init, RowsInv, RetiredAreOld, Rows
<1>3. CallsKnow
  BY IdleKnows DEF Init, CallsKnow
<1>4. OnePublisher /\ Welcome /\ ClaimTakesEffect
  BY DEF Init, OnePublisher, Welcome, WelcomedOnce, ClaimTakesEffect, Exists, At, Idle
<1>5. SurplusIsSeen
  BY DEF Init, SurplusIsSeen, Surplus, Active, Rows
<1>. QED  BY <1>1, <1>2, <1>3, <1>4, <1>5 DEF IInv

LEMMA NextIInv == IInv /\ [Next]_vars => IInv'
<1>. SUFFICES ASSUME IInv, [Next]_vars
              PROVE  IInv'
  OBVIOUS
<1>1. ASSUME NEW hd \in Handlers, Proceed(hd)
      PROVE  IInv'
  BY <1>1, RegisterCreateKeepsIInv, RegisterPublishKeepsIInv, SendCreateKeepsIInv, SendListKeepsIInv,
     SendRetireKeepsIInv, QuietStepsKeepIInv, ClaimsKeepIInv, EffectsKeepIInv DEF Proceed
<1>2. CASE UNCHANGED vars
  <2>1. TypeOK' /\ RowsInv' /\ RetiredAreOld'
    BY <1>2 DEF vars, IInv, TypeOK, RowsInv, RetiredAreOld
  <2>2. CallsKnow' /\ OnePublisher' /\ Welcome' /\ ClaimTakesEffect'
    BY <1>2 DEF vars, IInv, CallsKnow, Knows, OnePublisher, Welcome, WelcomedOnce, ClaimTakesEffect, Exists, At
  <2>3. SurplusIsSeen'
    BY <1>2 DEF vars, IInv, SurplusIsSeen, Retires, Surplus, Newer, Active, At
  <2>. QED  BY <2>1, <2>2, <2>3 DEF IInv
<1>. QED  BY <1>1, <1>2, StartersKeepIInv, QuietStepsKeepIInv, ExpireKeepsIInv DEF Next

LEMMA Inductive == Spec => []IInv
BY InitIInv, NextIInv, PTL DEF Spec

----------------------------------------------------------------------------
(* What follows *)

\* Every variable keeps its type.
THEOREM TypeCorrect == Spec => []TypeOK
<1>1. IInv => TypeOK
  BY DEF IInv
<1>. QED  BY <1>1, Inductive, PTL

\* A link or a code is redeemed at most once.
THEOREM RedeemedOnce == Spec => []SingleUse
<1>1. IInv => SingleUse
  BY DEF IInv, RowsInv, SingleUse
<1>. QED  BY <1>1, Inductive, PTL

\* What was redeemed has changed the password or verified the address, or will.
THEOREM TakesEffect == Spec => []ClaimTakesEffect
<1>1. IInv => ClaimTakesEffect
  BY DEF IInv
<1>. QED  BY <1>1, Inductive, PTL

\* Only old rows are retired, however many mails are sent at once.
THEOREM OnlyOldRetired == Spec => []RetiredAreOld
<1>1. IInv => RetiredAreOld
  BY DEF IInv
<1>. QED  BY <1>1, Inductive, PTL

\* No more than the limit of active rows is left when the mails are sent.
THEOREM LimitHolds == Spec => []NoneInSurplus
<1>1. IInv => NoneInSurplus
  BY DEF IInv, SurplusIsSeen, NoneInSurplus, Retires, At, SendSteps
<1>. QED  BY <1>1, Inductive, PTL

\* Both together: the newest rows, and only they, stay active.
THEOREM NewestActive == Spec => []NewestStayActive
BY OnlyOldRetired, LimitHolds, PTL DEF NewestStayActive

\* One account and one welcome per address.
THEOREM OneWelcome == Spec => []WelcomedOnce
<1>1. IInv => WelcomedOnce
  BY DEF IInv, Welcome
<1>. QED  BY <1>1, Inductive, PTL

\* Links mailed before a reset finished stay dead.
THEOREM DeadLinks == Spec => OldLinksAreDead
<1>. DEFINE Dead == \A r \in Rows : claims'["token"][r] # claims["token"][r] => r > closed
<1>1. IInv /\ [Next]_vars => [Dead]_vars
  <2>. SUFFICES ASSUME IInv, Next, NEW r \in Rows, claims'["token"][r] # claims["token"][r]
                PROVE  r > closed
    BY DEF vars
  <2>. TypeOK
    BY DEF IInv
  <2>1. PICK hd \in Handlers : ResetClaim(hd) \/ VerifyClaim(hd)
    BY DEF Next, Start, Proceed, Register, ChangePassword, Forgot, Resend, StartSending, Delete, Reset, Verify,
       RegisterCreate, RegisterPublish, SendCreate, SendList, SendRetire, SendMail, ResetUser, ResetUpdate,
       ChangeUpdate, VerifyFind, VerifyCount, VerifyUpdate, DeleteRows, Crash, Expire, UNCHANGED_history
  <2>2. PICK k \in Kinds : ClaimRow(k, call[hd].row) /\ call[hd].row \in Rows
    <3>1. Knows(call[hd])
      BY DEF IInv, CallsKnow
    <3>2. call[hd].row \in Rows
      BY <2>1, <3>1, CallFields DEF ResetClaim, VerifyClaim, At, Knows, RowSteps
    <3>. QED  BY <2>1, <3>2 DEF ResetClaim, VerifyClaim, Claim, Kinds
  <2>3. ClaimEffect(k, call[hd].row)
    BY <2>2, ClaimRowEffect
  <2>4. k = "token" /\ r = call[hd].row
    BY <2>3 DEF ClaimEffect, Kinds
  <2>5. r \notin used["token"]
    BY <2>3, <2>4 DEF ClaimEffect
  <2>. QED  BY <2>5 DEF IInv, RowsInv, TypeOK, Rows
<1>. QED  BY <1>1, Inductive, PTL DEF Spec, OldLinksAreDead
=============================================================================
