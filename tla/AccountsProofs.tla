---------------------------- MODULE AccountsProofs ----------------------------
(***************************************************************************)
(* Proofs about auth-service and notification-service: for any accounts,   *)
(* calls, messages and budgets, a session does not outlive its password,   *)
(* an exchanged refresh token stays dead, a verified address was proven,   *)
(* and a token that was mailed is stored nowhere.                          *)
(***************************************************************************)
EXTENDS AuthSessions, Notifications, FiniteSetTheorems, TLAPS

-----------------------------------------------------------------------------
(* auth-service: the invariant                                             *)

Stages ==
  {"idle", "mint", "store", "refresh_load", "refresh_revoke", "change_read", "change_write",
   "change_bump", "forgot_store", "reset_commit", "revoke_all", "verification_store",
   "verify_commit", "update_write", "delete_write"}

CallRow ==
  [pc: Stages, op: Kinds \cup {None}, user: Users \cup {None}, email: Emails \cup {None},
   pw: Passwords \cup {None}, version: Nat, token: Token \cup {None},
   minted: Token \cup {None}, revoked: BOOLEAN, over: BOOLEAN, replay: BOOLEAN]

(* What a call has read by the time it is at a stage. *)
FitRow(r) ==
  /\ r \in CallRow
  /\ r.pc # "idle" => r.user \in Users
  /\ r.pc \in {"mint", "store", "refresh_load", "refresh_revoke", "change_read",
               "change_write", "change_bump", "reset_commit"} => r.pw \in Passwords
  /\ r.pc \in {"mint", "store", "refresh_revoke", "change_write", "change_bump",
               "forgot_store", "verification_store", "update_write"} => r.email \in Emails
  /\ r.pc \in {"refresh_load", "refresh_revoke", "verify_commit"} => r.token \in Token
  /\ r.pc \in {"refresh_load", "refresh_revoke"} => r.token.user = r.user
  /\ r.pc = "refresh_revoke" => r.token.version = r.version
  /\ r.pc \in {"change_read", "change_write", "change_bump"} => r.op = "change"
  /\ r.pc = "store" =>
       r.minted \in Token /\ r.minted.user = r.user /\ r.minted.version = r.version
  /\ r.revoked => r.token \in Token

Shapes ==
  /\ AccountTypes
  /\ TokenTypesOK
  /\ left \in [Kinds -> Nat]
  /\ call \in [Calls -> CallRow]
  /\ \A c \in Calls : FitRow(call[c])
  /\ proof \in [Users -> Emails \cup {None}]

(* No call and no session is about an account that does not exist.         *)
Known ==
  /\ \A c \in Calls : ~At(c, "idle") => account[call[c].user].state # "none"
  /\ \A s \in issued : account[s.token.user].state # "none"

BumpPending(u) == \E c \in Calls : At(c, "change_bump") /\ call[c].user = u

(* A password and a version read together: as long as the version is the   *)
(* account's, so is the password, but for the two ways that remain.        *)
Credible(u, v, p, over) ==
  /\ v <= account[u].version
  /\ v = account[u].version =>
       p = account[u].password \/ BumpPending(u) \/ u \in torn \/ over

Holding(r) == r.pc \in {"refresh_load", "refresh_revoke", "mint", "store"}

HeldVersion(r) == IF r.pc = "refresh_load" THEN r.token.version ELSE r.version

CredibleCalls ==
  \A c \in Calls : Holding(call[c]) =>
    Credible(call[c].user, HeldVersion(call[c]), call[c].pw, call[c].over)

CredibleSessions ==
  \A s \in issued : Credible(s.token.user, s.token.version, s.pw, s.over)

(* Between the two statements of a change the row has its password, unless *)
(* another one was written over it.                                        *)
BumpWrote ==
  \A c \in Calls : At(c, "change_bump") =>
    call[c].over \/ call[c].pw = account[call[c].user].password

(* What an exchange revoked is still revoked, until it is minted again.    *)
RevokedStays ==
  /\ exchanged \subseteq revoked
  /\ \A c \in Calls : call[c].revoked => call[c].token \in revoked

(* A verification about to be written is for the address of the account,   *)
(* unless that changed under it.                                           *)
ProofInHand ==
  \A c \in Calls : At(c, "verify_commit") =>
    call[c].user \in moved \/ call[c].token.email = account[call[c].user].email

AuthInv ==
  /\ Shapes
  /\ UniqueEmails
  /\ Known
  /\ CredibleCalls
  /\ CredibleSessions
  /\ BumpWrote
  /\ RevokedStays
  /\ ExchangedTokenIsDead
  /\ ProofInHand
  /\ VerifiedAddressWasProven

-----------------------------------------------------------------------------
(* What a step may change                                                  *)

(* The other calls keep their rows, but may be overtaken, or told that the *)
(* token they revoked was minted again.                                    *)
OthersStay(c) ==
  \A d \in Calls \ {c} :
    /\ call'[d].pc = call[d].pc /\ call'[d].op = call[d].op
    /\ call'[d].user = call[d].user /\ call'[d].pw = call[d].pw
    /\ call'[d].version = call[d].version /\ call'[d].token = call[d].token
    /\ call'[d].replay = call[d].replay
    /\ call[d].over => call'[d].over
    /\ call'[d].revoked => call[d].revoked

(* Versions only grow, and a password that is replaced takes the version   *)
(* along or leaves its call between the two statements.                    *)
VersionsGrow(c) ==
  \A u \in Users : account[u].state # "none" =>
    /\ account[u].version <= account'[u].version
    /\ \/ account'[u].password = account[u].password
       \/ /\ \/ account[u].version < account'[u].version
             \/ At(c, "change_bump")' /\ call'[c].user = u
          /\ \A d \in Calls \ {c} :
               At(d, "change_bump") /\ call[d].user = u => call'[d].over

(* Nobody leaves the middle of a change without a trace.                   *)
BumpLeavesTrace(c) ==
  At(c, "change_bump") =>
    \/ call[c].user \in torn'
    \/ account[call[c].user].version < account'[call[c].user].version

(* Credible, of what the step leaves.                                      *)
CredibleNext(u, v, p, over) ==
  /\ v <= account'[u].version
  /\ v = account'[u].version =>
       \/ p = account'[u].password
       \/ \E c \in Calls : At(c, "change_bump")' /\ call'[c].user = u
       \/ u \in torn'
       \/ over

LEMMA BecomeRow ==
  ASSUME Shapes, NEW c \in Calls, NEW r, FitRow(r), Become(c, r)
  PROVE  /\ call' \in [Calls -> CallRow]
         /\ \A d \in Calls : FitRow(call'[d])
         /\ call'[c] = r
         /\ OthersStay(c)
<1>1. r \in CallRow
  BY DEF FitRow
<1>2. call' = [call EXCEPT ![c] = r] /\ call \in [Calls -> CallRow]
  BY DEF Become, Shapes
<1>3. call'[c] = r /\ \A d \in Calls \ {c} : call'[d] = call[d]
  BY <1>2
<1>4. call' \in [Calls -> CallRow]
  BY <1>1, <1>2
<1>5. \A d \in Calls : FitRow(call'[d])
  BY <1>3 DEF Shapes
<1>6. OthersStay(c)
  BY <1>3 DEF OthersStay
<1>. QED
  BY <1>3, <1>4, <1>5, <1>6

LEMMA SpendKeeps ==
  ASSUME left \in [Kinds -> Nat], NEW kind \in Kinds, Spend(kind)
  PROVE  left' \in [Kinds -> Nat] /\ left' = [left EXCEPT ![kind] = left[kind] - 1]
<1>1. left[kind] \in Nat /\ left[kind] > 0 /\ left' = [left EXCEPT ![kind] = left[kind] - 1]
  BY DEF Spend
<1>2. left[kind] - 1 \in Nat
  BY <1>1
<1>. QED
  BY <1>1, <1>2

(* A call that holds a session's data stays credible through a step.       *)
LEMMA CredibleKept ==
  ASSUME Shapes, Shapes', NEW c \in Calls, OthersStay(c), VersionsGrow(c),
         BumpLeavesTrace(c), torn \subseteq torn',
         NEW u \in Users, account[u].state # "none",
         NEW v \in Nat, NEW p, NEW b \in BOOLEAN, NEW b2 \in BOOLEAN, b => b2,
         Credible(u, v, p, b)
  PROVE  CredibleNext(u, v, p, b2)
<1>1. account[u].version \in Nat /\ account'[u].version \in Nat
  BY DEF Shapes, AccountTypes, Account
<1>2. v <= account[u].version /\ account[u].version <= account'[u].version
  BY DEF Credible, VersionsGrow
<1>3. v <= account'[u].version
  BY <1>1, <1>2
<1>4. ASSUME v = account'[u].version
      PROVE  \/ p = account'[u].password
             \/ \E d \in Calls : At(d, "change_bump")' /\ call'[d].user = u
             \/ u \in torn' \/ b2
  <2>1. v = account[u].version /\ ~(account[u].version < account'[u].version)
    BY <1>1, <1>2, <1>4
  <2>2. \/ account'[u].password = account[u].password
        \/ At(c, "change_bump")' /\ call'[c].user = u
    BY <2>1 DEF VersionsGrow
  <2>3. CASE At(c, "change_bump")' /\ call'[c].user = u
    BY <2>3
  <2>4. CASE account'[u].password = account[u].password
    <3>1. p = account[u].password \/ BumpPending(u) \/ u \in torn \/ b
      BY <2>1 DEF Credible
    <3>2. ASSUME BumpPending(u)
          PROVE  \/ \E d \in Calls : At(d, "change_bump")' /\ call'[d].user = u
                 \/ u \in torn'
      <4>1. PICK d \in Calls : At(d, "change_bump") /\ call[d].user = u
        BY <3>2 DEF BumpPending
      <4>2. CASE d = c
        BY <4>1, <4>2, <2>1 DEF BumpLeavesTrace
      <4>3. CASE d # c
        BY <4>1, <4>3 DEF OthersStay, At
      <4>. QED
        BY <4>2, <4>3
    <3>. QED
      BY <2>4, <3>1, <3>2
  <2>. QED
    BY <2>2, <2>3, <2>4
<1>. QED
  BY <1>3, <1>4 DEF CredibleNext

(* What a session or a call claims has the types the lemma above asks for. *)
LEMMA HeldTypes ==
  ASSUME NEW r, FitRow(r), Holding(r)
  PROVE  r.user \in Users /\ HeldVersion(r) \in Nat /\ r.over \in BOOLEAN /\ r.pw \in Passwords
<1>1. r \in CallRow /\ r.pc # "idle"
  BY DEF FitRow, Holding
<1>2. r.user \in Users /\ r.over \in BOOLEAN /\ r.version \in Nat
  BY <1>1 DEF FitRow, CallRow
<1>3. r.pw \in Passwords
  BY DEF FitRow, Holding
<1>4. r.pc = "refresh_load" => r.token.version \in Nat
  BY DEF FitRow, Token
<1>. QED
  BY <1>2, <1>3, <1>4 DEF HeldVersion

LEMMA CredibleStep ==
  ASSUME AuthInv, Shapes', NEW c \in Calls, OthersStay(c), VersionsGrow(c),
         BumpLeavesTrace(c), torn \subseteq torn',
         Holding(call'[c]) =>
           CredibleNext(call'[c].user, HeldVersion(call'[c]), call'[c].pw, call'[c].over),
         At(c, "change_bump")' =>
           call'[c].over \/ call'[c].pw = account'[call'[c].user].password,
         \A s \in issued' \ issued :
           CredibleNext(s.token.user, s.token.version, s.pw, s.over)
  PROVE  CredibleCalls' /\ CredibleSessions' /\ BumpWrote'
<1>. Shapes /\ Known /\ CredibleCalls /\ CredibleSessions /\ BumpWrote
  BY DEF AuthInv
<1>1. CredibleCalls'
  <2>. SUFFICES ASSUME NEW d \in Calls, Holding(call'[d])
       PROVE  CredibleNext(call'[d].user, HeldVersion(call'[d]), call'[d].pw, call'[d].over)
    BY DEF CredibleCalls, Credible, CredibleNext, BumpPending, Holding, HeldVersion
  <2>1. CASE d = c
    BY <2>1
  <2>2. CASE d # c
    <3>1. /\ call'[d].pc = call[d].pc /\ call'[d].user = call[d].user
          /\ call'[d].pw = call[d].pw /\ call'[d].version = call[d].version
          /\ call'[d].token = call[d].token /\ (call[d].over => call'[d].over)
      BY <2>2 DEF OthersStay
    <3>2. Holding(call[d]) /\ HeldVersion(call'[d]) = HeldVersion(call[d])
      BY <3>1 DEF Holding, HeldVersion
    <3>3. Credible(call[d].user, HeldVersion(call[d]), call[d].pw, call[d].over)
      BY <3>2 DEF CredibleCalls
    <3>4. FitRow(call[d]) /\ FitRow(call'[d])
      BY DEF Shapes
    <3>5. /\ call[d].user \in Users /\ HeldVersion(call[d]) \in Nat
          /\ call[d].over \in BOOLEAN /\ call'[d].over \in BOOLEAN
      BY <3>2, <3>4, HeldTypes
    <3>6. account[call[d].user].state # "none"
      BY <3>2 DEF Known, Holding, At
    <3>7. CredibleNext(call[d].user, HeldVersion(call[d]), call[d].pw, call'[d].over)
      BY <3>1, <3>3, <3>5, <3>6, CredibleKept
    <3>. QED
      BY <3>1, <3>2, <3>7
  <2>. QED
    BY <2>1, <2>2
<1>2. CredibleSessions'
  <2>. SUFFICES ASSUME NEW s \in issued'
                PROVE  CredibleNext(s.token.user, s.token.version, s.pw, s.over)
    BY DEF CredibleSessions, Credible, CredibleNext, BumpPending
  <2>1. CASE s \in issued
    <3>1. s \in Session
      BY <2>1 DEF Shapes, TokenTypesOK
    <3>2. s.token \in Token /\ s.over \in BOOLEAN
      BY <3>1 DEF Session
    <3>3. s.token.user \in Users /\ s.token.version \in Nat
      BY <3>2 DEF Token
    <3>4. account[s.token.user].state # "none"
      BY <2>1 DEF Known
    <3>5. Credible(s.token.user, s.token.version, s.pw, s.over)
      BY <2>1 DEF CredibleSessions
    <3>. QED
      BY <3>2, <3>3, <3>4, <3>5, CredibleKept
  <2>2. CASE s \notin issued
    BY <2>2
  <2>. QED
    BY <2>1, <2>2
<1>3. BumpWrote'
  <2>. SUFFICES ASSUME NEW d \in Calls, At(d, "change_bump")'
                PROVE  call'[d].over \/ call'[d].pw = account'[call'[d].user].password
    BY DEF BumpWrote, At
  <2>1. CASE d = c
    BY <2>1
  <2>2. CASE d # c
    <3>1. /\ call'[d].pc = call[d].pc /\ call'[d].user = call[d].user
          /\ call'[d].pw = call[d].pw /\ (call[d].over => call'[d].over)
      BY <2>2 DEF OthersStay
    <3>2. At(d, "change_bump")
      BY <3>1 DEF At
    <3>3. call[d].user \in Users
      BY <3>2 DEF Shapes, FitRow, At
    <3>4. account[call[d].user].state # "none"
      BY <3>2 DEF Known, At
    <3>5. call[d].over \/ call[d].pw = account[call[d].user].password
      BY <3>2 DEF BumpWrote
    <3>6. account'[call[d].user].password = account[call[d].user].password \/ call'[d].over
      BY <2>2, <3>2, <3>3, <3>4 DEF VersionsGrow
    <3>. QED
      BY <3>1, <3>5, <3>6
  <2>. QED
    BY <2>1, <2>2
<1>. QED
  BY <1>1, <1>2, <1>3

(* No row of an account that exists is taken back.                         *)
RowsStay == \A u \in Users : account[u].state # "none" => account'[u].state # "none"

LEMMA KnownStep ==
  ASSUME AuthInv, NEW c \in Calls, OthersStay(c), RowsStay,
         call'[c].pc # "idle" => account'[call'[c].user].state # "none",
         \A s \in issued' \ issued :
           s.token.user \in Users /\ account'[s.token.user].state # "none"
  PROVE  Known'
<1>. Shapes /\ Known
  BY DEF AuthInv
<1>1. \A d \in Calls : call'[d].pc # "idle" => account'[call'[d].user].state # "none"
  <2>. SUFFICES ASSUME NEW d \in Calls, d # c, call'[d].pc # "idle"
                PROVE  account'[call'[d].user].state # "none"
    OBVIOUS
  <2>1. call[d].pc # "idle" /\ call'[d].user = call[d].user
    BY DEF OthersStay
  <2>2. call[d].user \in Users /\ account[call[d].user].state # "none"
    BY <2>1 DEF Shapes, FitRow, Known, At
  <2>. QED
    BY <2>1, <2>2 DEF RowsStay
<1>2. \A s \in issued' : account'[s.token.user].state # "none"
  <2>. SUFFICES ASSUME NEW s \in issued
                PROVE  account'[s.token.user].state # "none"
    OBVIOUS
  <2>1. s.token.user \in Users /\ account[s.token.user].state # "none"
    BY DEF Shapes, TokenTypesOK, Session, Token, Known
  <2>. QED
    BY <2>1 DEF RowsStay
<1>. QED
  BY <1>1, <1>2 DEF Known, At

LEMMA ExchangeStep ==
  ASSUME AuthInv, NEW c \in Calls, OthersStay(c),
         revoked \subseteq revoked', exchanged' = exchanged,
         call'[c].revoked => call'[c].token \in revoked',
         call'[c].op = "refresh" => ~call'[c].replay
  PROVE  RevokedStays' /\ ExchangedTokenIsDead'
<1>1. RevokedStays'
  BY DEF AuthInv, RevokedStays, OthersStay
<1>2. ExchangedTokenIsDead'
  BY DEF AuthInv, ExchangedTokenIsDead, OthersStay
<1>. QED
  BY <1>1, <1>2

LEMMA AddressStep ==
  ASSUME AuthInv, NEW c \in Calls, OthersStay(c),
         UNCHANGED <<proof, moved>>,
         \A u \in Users : account[u].state # "none" =>
           account'[u].email = account[u].email,
         \A u \in Users : account'[u].verified =>
           account[u].verified /\ account'[u].email = account[u].email,
         call'[c].pc = "verify_commit" =>
           \/ call'[c].user \in moved
           \/ call'[c].token.email = account'[call'[c].user].email
  PROVE  ProofInHand' /\ VerifiedAddressWasProven'
<1>. Shapes /\ Known /\ ProofInHand /\ VerifiedAddressWasProven
  BY DEF AuthInv
<1>1. ProofInHand'
  <2>. SUFFICES ASSUME NEW d \in Calls, call'[d].pc = "verify_commit"
                PROVE  \/ call'[d].user \in moved'
                       \/ call'[d].token.email = account'[call'[d].user].email
    BY DEF ProofInHand, At
  <2>1. CASE d = c
    BY <2>1
  <2>2. CASE d # c
    <3>1. /\ call[d].pc = "verify_commit" /\ call'[d].user = call[d].user
          /\ call'[d].token = call[d].token
      BY <2>2 DEF OthersStay
    <3>2. call[d].user \in Users /\ account[call[d].user].state # "none"
      BY <3>1 DEF Shapes, FitRow, Known, At
    <3>. QED
      BY <3>1, <3>2 DEF ProofInHand, At
  <2>. QED
    BY <2>1, <2>2
<1>2. VerifiedAddressWasProven'
  BY DEF VerifiedAddressWasProven
<1>. QED
  BY <1>1, <1>2

-----------------------------------------------------------------------------
(* Steps that leave the accounts and the sessions alone                    *)

LEMMA QuietStep ==
  ASSUME AuthInv, NEW c \in Calls, NEW r, FitRow(r), Become(c, r),
         UNCHANGED <<account, issued, proof, moved, exchanged>>,
         TokenTypesOK', left' \in [Kinds -> Nat],
         revoked \subseteq revoked', torn \subseteq torn',
         At(c, "change_bump") => call[c].user \in torn',
         r.pc # "change_bump",
         r.pc # "idle" => account[r.user].state # "none",
         Holding(r) => Credible(r.user, HeldVersion(r), r.pw, r.over),
         r.revoked => r.token \in revoked',
         r.op = "refresh" => ~r.replay,
         r.pc = "verify_commit" => r.token.email = account[r.user].email
  PROVE  AuthInv'
<1>. Shapes /\ UniqueEmails
  BY DEF AuthInv
<1>1. /\ call' \in [Calls -> CallRow] /\ \A d \in Calls : FitRow(call'[d])
      /\ call'[c] = r /\ OthersStay(c)
  BY BecomeRow
<1>2. Shapes'
  <2>1. AccountTypes'
    BY DEF Shapes, AccountTypes
  <2>2. proof' \in [Users -> Emails \cup {None}]
    BY DEF Shapes
  <2>. QED
    BY <1>1, <2>1, <2>2 DEF Shapes
<1>3. UniqueEmails'
  BY DEF UniqueEmails
<1>4. Known'
  BY <1>1, KnownStep DEF RowsStay
<1>5. VersionsGrow(c) /\ BumpLeavesTrace(c)
  BY DEF VersionsGrow, BumpLeavesTrace, Shapes, AccountTypes, Account
<1>6. ASSUME Holding(r)
      PROVE  CredibleNext(r.user, HeldVersion(r), r.pw, r.over)
  <2>1. r.user \in Users /\ HeldVersion(r) \in Nat /\ r.over \in BOOLEAN
    BY <1>6, HeldTypes
  <2>2. account[r.user].state # "none"
    BY <1>6 DEF Holding
  <2>. QED
    BY <1>1, <1>2, <1>5, <1>6, <2>1, <2>2, CredibleKept
<1>7. CredibleCalls' /\ CredibleSessions' /\ BumpWrote'
  <2>1. Holding(call'[c]) =>
          CredibleNext(call'[c].user, HeldVersion(call'[c]), call'[c].pw, call'[c].over)
    BY <1>1, <1>6
  <2>2. ~At(c, "change_bump")'
    BY <1>1 DEF At
  <2>3. issued' \ issued = {}
    OBVIOUS
  <2>. QED
    BY <1>1, <1>2, <1>5, <2>1, <2>2, <2>3, CredibleStep
<1>8. RevokedStays' /\ ExchangedTokenIsDead'
  BY <1>1, ExchangeStep
<1>9. ProofInHand' /\ VerifiedAddressWasProven'
  BY <1>1, AddressStep
<1>. QED
  BY <1>2, <1>3, <1>4, <1>7, <1>8, <1>9 DEF AuthInv

(* A step that only replaces the row of c and spends from the budget.      *)
LEMMA RowStep ==
  ASSUME AuthInv, NEW c \in Calls, NEW r, FitRow(r), Become(c, r),
         UNCHANGED <<rows, mailed, issued, now, history>>,
         left' \in [Kinds -> Nat],
         ~At(c, "change_bump"), r.pc # "change_bump",
         r.pc # "idle" => account[r.user].state # "none",
         Holding(r) => Credible(r.user, HeldVersion(r), r.pw, r.over),
         r.revoked => r.token \in revoked,
         r.op = "refresh" => ~r.replay,
         r.pc = "verify_commit" => r.token.email = account[r.user].email
  PROVE  AuthInv'
<1>1. TokenTypesOK'
  BY DEF AuthInv, Shapes, TokenTypesOK, rows, history
<1>. QED
  BY <1>1, QuietStep DEF rows, history

LEMMA ActiveRow ==
  ASSUME Shapes, NEW u \in Users, Active(u)
  PROVE  /\ account[u].email \in Emails /\ account[u].password \in Passwords
         /\ account[u].version \in Nat /\ account[u].state # "none"
BY DEF Shapes, AccountTypes, Account, Active

LEMMA LoginStep ==
  ASSUME AuthInv, NEW c \in Calls, NEW u \in Users, Login(c, u)
  PROVE  AuthInv'
<1>. DEFINE r == [Idle EXCEPT !.pc = "mint", !.op = "login", !.user = u,
       !.email = account[u].email, !.pw = account[u].password,
       !.version = account[u].version]
<1>. Shapes
  BY DEF AuthInv
<1>1. Active(u) /\ At(c, "idle") /\ Spend("login") /\ Become(c, r)
  BY DEF Login, Start
<1>2. /\ account[u].email \in Emails /\ account[u].password \in Passwords
      /\ account[u].version \in Nat /\ account[u].state # "none"
  BY <1>1, ActiveRow
<1>3. FitRow(r)
  BY <1>2 DEF FitRow, CallRow, Stages, Kinds, Idle
<1>4. /\ r.pc = "mint" /\ r.user = u /\ r.pw = account[u].password
      /\ r.version = account[u].version /\ r.revoked = FALSE /\ r.op = "login"
  BY DEF Idle
<1>5. Credible(r.user, HeldVersion(r), r.pw, r.over)
  BY <1>2, <1>4 DEF Credible, HeldVersion
<1>6. left' \in [Kinds -> Nat]
  BY <1>1, SpendKeeps DEF Shapes, Kinds
<1>. HIDE DEF r
<1>. QED
  BY <1>1, <1>2, <1>3, <1>4, <1>5, <1>6, RowStep DEF Login, At

LEMMA ForgotPasswordStep ==
  ASSUME AuthInv, NEW c \in Calls, NEW u \in Users, ForgotPassword(c, u)
  PROVE  AuthInv'
<1>. DEFINE r == [Idle EXCEPT !.pc = "forgot_store", !.op = "forgot", !.user = u,
       !.email = account[u].email]
<1>. Shapes
  BY DEF AuthInv
<1>1. Active(u) /\ At(c, "idle") /\ Spend("forgot") /\ Become(c, r)
  BY DEF ForgotPassword, Start
<1>2. account[u].email \in Emails /\ account[u].state # "none"
  BY <1>1, ActiveRow
<1>3. FitRow(r)
  BY <1>2 DEF FitRow, CallRow, Stages, Kinds, Idle
<1>4. r.pc = "forgot_store" /\ r.user = u /\ r.revoked = FALSE /\ r.op = "forgot"
  BY DEF Idle
<1>5. left' \in [Kinds -> Nat]
  BY <1>1, SpendKeeps DEF Shapes, Kinds
<1>. HIDE DEF r
<1>. QED
  BY <1>1, <1>2, <1>3, <1>4, <1>5, RowStep DEF ForgotPassword, At, Holding

LEMMA ResendVerificationStep ==
  ASSUME AuthInv, NEW c \in Calls, NEW u \in Users, ResendVerification(c, u)
  PROVE  AuthInv'
<1>. DEFINE r == [Idle EXCEPT !.pc = "verification_store", !.op = "resend", !.user = u,
       !.email = account[u].email]
<1>. Shapes
  BY DEF AuthInv
<1>1. Active(u) /\ At(c, "idle") /\ Spend("resend") /\ Become(c, r)
  BY DEF ResendVerification, Start
<1>2. account[u].email \in Emails /\ account[u].state # "none"
  BY <1>1, ActiveRow
<1>3. FitRow(r)
  BY <1>2 DEF FitRow, CallRow, Stages, Kinds, Idle
<1>4. r.pc = "verification_store" /\ r.user = u /\ r.revoked = FALSE /\ r.op = "resend"
  BY DEF Idle
<1>5. left' \in [Kinds -> Nat]
  BY <1>1, SpendKeeps DEF Shapes, Kinds
<1>. HIDE DEF r
<1>. QED
  BY <1>1, <1>2, <1>3, <1>4, <1>5, RowStep DEF ResendVerification, At, Holding

LEMMA DeleteUserStep ==
  ASSUME AuthInv, NEW c \in Calls, NEW u \in Users, DeleteUser(c, u)
  PROVE  AuthInv'
<1>. DEFINE r == [Idle EXCEPT !.pc = "delete_write", !.op = "delete", !.user = u]
<1>. Shapes
  BY DEF AuthInv
<1>1. Active(u) /\ At(c, "idle") /\ Spend("delete") /\ Become(c, r)
  BY DEF DeleteUser, Start
<1>2. account[u].state # "none"
  BY <1>1, ActiveRow
<1>3. FitRow(r)
  BY DEF FitRow, CallRow, Stages, Kinds, Idle
<1>4. r.pc = "delete_write" /\ r.user = u /\ r.revoked = FALSE /\ r.op = "delete"
  BY DEF Idle
<1>5. left' \in [Kinds -> Nat]
  BY <1>1, SpendKeeps DEF Shapes, Kinds
<1>. HIDE DEF r
<1>. QED
  BY <1>1, <1>2, <1>3, <1>4, <1>5, RowStep DEF DeleteUser, At, Holding

LEMMA UpdateUserStep ==
  ASSUME AuthInv, NEW c \in Calls, NEW u \in Users, NEW e \in Emails, UpdateUser(c, u, e)
  PROVE  AuthInv'
<1>. DEFINE r == [Idle EXCEPT !.pc = "update_write", !.op = "update", !.user = u,
       !.email = e]
<1>. Shapes
  BY DEF AuthInv
<1>1. Active(u) /\ At(c, "idle") /\ Spend("update") /\ Become(c, r)
  BY DEF UpdateUser, Start
<1>2. account[u].state # "none"
  BY <1>1, ActiveRow
<1>3. FitRow(r)
  BY DEF FitRow, CallRow, Stages, Kinds, Idle
<1>4. r.pc = "update_write" /\ r.user = u /\ r.revoked = FALSE /\ r.op = "update"
  BY DEF Idle
<1>5. left' \in [Kinds -> Nat]
  BY <1>1, SpendKeeps DEF Shapes, Kinds
<1>. HIDE DEF r
<1>. QED
  BY <1>1, <1>2, <1>3, <1>4, <1>5, RowStep DEF UpdateUser, At, Holding

(* A session that was handed out, and the account it names. *)
LEMMA IssuedSession ==
  ASSUME AuthInv, NEW s \in issued
  PROVE  /\ s.token \in Token /\ s.token.user \in Users /\ s.token.version \in Nat
         /\ s.pw \in Passwords /\ s.over \in BOOLEAN
         /\ account[s.token.user].state # "none"
         /\ Credible(s.token.user, s.token.version, s.pw, s.over)
<1>1. s \in Session
  BY DEF AuthInv, Shapes, TokenTypesOK
<1>2. s.token \in Token /\ s.pw \in Passwords /\ s.over \in BOOLEAN
  BY <1>1 DEF Session
<1>3. s.token.user \in Users /\ s.token.version \in Nat
  BY <1>2 DEF Token
<1>. QED
  BY <1>2, <1>3 DEF AuthInv, Known, CredibleSessions

LEMMA RequestRevokeAllStep ==
  ASSUME AuthInv, NEW c \in Calls, NEW s \in issued, RequestRevokeAll(c, s)
  PROVE  AuthInv'
<1>. DEFINE r == [Idle EXCEPT !.pc = "revoke_all", !.op = "revokeAll", !.user = s.token.user]
<1>. Shapes
  BY DEF AuthInv
<1>1. At(c, "idle") /\ Spend("revokeAll") /\ Become(c, r)
  BY DEF RequestRevokeAll, Start
<1>2. s.token.user \in Users /\ account[s.token.user].state # "none"
  BY IssuedSession
<1>3. FitRow(r)
  BY <1>2 DEF FitRow, CallRow, Stages, Kinds, Idle
<1>4. r.pc = "revoke_all" /\ r.user = s.token.user /\ r.revoked = FALSE /\ r.op = "revokeAll"
  BY DEF Idle
<1>5. left' \in [Kinds -> Nat]
  BY <1>1, SpendKeeps DEF Shapes, Kinds
<1>. HIDE DEF r
<1>. QED
  BY <1>1, <1>2, <1>3, <1>4, <1>5, RowStep DEF RequestRevokeAll, At, Holding

LEMMA RequestChangePasswordStep ==
  ASSUME AuthInv, NEW c \in Calls, NEW s \in issued, NEW p \in Passwords,
         RequestChangePassword(c, s, p)
  PROVE  AuthInv'
<1>. DEFINE r == [Idle EXCEPT !.pc = "change_read", !.op = "change", !.user = s.token.user,
       !.pw = p]
<1>. Shapes
  BY DEF AuthInv
<1>1. At(c, "idle") /\ Spend("change") /\ Become(c, r)
  BY DEF RequestChangePassword, Start
<1>2. s.token.user \in Users /\ account[s.token.user].state # "none"
  BY IssuedSession
<1>3. FitRow(r)
  BY <1>2 DEF FitRow, CallRow, Stages, Kinds, Idle
<1>4. r.pc = "change_read" /\ r.user = s.token.user /\ r.revoked = FALSE /\ r.op = "change"
  BY DEF Idle
<1>5. left' \in [Kinds -> Nat]
  BY <1>1, SpendKeeps DEF Shapes, Kinds
<1>. HIDE DEF r
<1>. QED
  BY <1>1, <1>2, <1>3, <1>4, <1>5, RowStep DEF RequestChangePassword, At, Holding

(* The token is refused when it was exchanged: it is still revoked, and    *)
(* passes only at the price of an error.                                   *)
LEMMA RefreshCheckStep ==
  ASSUME AuthInv, NEW c \in Calls, NEW s \in issued, RefreshCheck(c, s)
  PROVE  AuthInv'
<1>. DEFINE replay == s.token \in exchanged /\ left'["error"] = left["error"]
            r == [Idle EXCEPT !.pc = "refresh_load", !.op = "refresh", !.user = s.token.user,
              !.pw = s.pw, !.over = s.over, !.token = s.token, !.replay = replay]
<1>. Shapes /\ RevokedStays
  BY DEF AuthInv
<1>1. At(c, "idle") /\ Become(c, r)
  BY DEF RefreshCheck
<1>2. /\ s.token \in Token /\ s.token.user \in Users /\ s.token.version \in Nat
      /\ s.pw \in Passwords /\ s.over \in BOOLEAN
      /\ account[s.token.user].state # "none"
      /\ Credible(s.token.user, s.token.version, s.pw, s.over)
  BY IssuedSession
<1>3. left' \in [Kinds -> Nat] /\ replay = FALSE
  <2>1. CASE s.token \notin revoked /\ Spend("refresh")
    <3>1. s.token \notin exchanged
      BY <2>1 DEF RevokedStays
    <3>. QED
      BY <2>1, <3>1, SpendKeeps DEF Shapes, Kinds
  <2>2. CASE /\ left["refresh"] > 0 /\ left["error"] > 0
             /\ left' = [left EXCEPT !["refresh"] = @ - 1, !["error"] = @ - 1]
    <3>1. left["refresh"] \in Nat /\ left["error"] \in Nat
      BY DEF Shapes, Kinds
    <3>2. left["refresh"] - 1 \in Nat /\ left["error"] - 1 \in Nat
      BY <2>2, <3>1
    <3>3. left' \in [Kinds -> Nat]
      BY <2>2, <3>2 DEF Shapes
    <3>4. left'["error"] = left["error"] - 1
      BY <2>2 DEF Shapes, Kinds
    <3>. QED
      BY <3>1, <3>3, <3>4
  <2>. QED
    BY <2>1, <2>2 DEF RefreshCheck
<1>. HIDE DEF replay
<1>4. /\ r.pc = "refresh_load" /\ r.user = s.token.user /\ r.pw = s.pw /\ r.over = s.over
      /\ r.token = s.token /\ r.revoked = FALSE /\ r.replay = FALSE
  BY <1>3 DEF Idle
<1>5. FitRow(r)
  BY <1>2, <1>3 DEF FitRow, CallRow, Stages, Kinds, Idle
<1>. HIDE DEF r
<1>6. Credible(r.user, HeldVersion(r), r.pw, r.over)
  BY <1>2, <1>4 DEF HeldVersion
<1>. QED
  BY <1>1, <1>2, <1>3, <1>4, <1>5, <1>6, RowStep DEF RefreshCheck, At

LEMMA MailedToken ==
  ASSUME Shapes, NEW t \in mailed
  PROVE  t \in Token /\ t.user \in Users
BY DEF Shapes, TokenTypesOK, Token

LEMMA ResetReadStep ==
  ASSUME AuthInv, NEW c \in Calls, NEW t \in mailed, NEW p \in Passwords, ResetRead(c, t, p)
  PROVE  AuthInv'
<1>. DEFINE r == [Idle EXCEPT !.pc = "reset_commit", !.op = "reset", !.user = t.user,
       !.pw = p, !.token = t]
<1>. Shapes
  BY DEF AuthInv
<1>1. Active(t.user) /\ At(c, "idle") /\ Spend("reset") /\ Become(c, r)
  BY DEF ResetRead, Start
<1>2. t \in Token /\ t.user \in Users
  BY MailedToken
<1>3. account[t.user].state # "none"
  BY <1>1, <1>2, ActiveRow
<1>4. FitRow(r)
  BY <1>2 DEF FitRow, CallRow, Stages, Kinds, Idle
<1>5. r.pc = "reset_commit" /\ r.user = t.user /\ r.revoked = FALSE /\ r.op = "reset"
  BY DEF Idle
<1>6. left' \in [Kinds -> Nat]
  BY <1>1, SpendKeeps DEF Shapes, Kinds
<1>. HIDE DEF r
<1>. QED
  BY <1>1, <1>3, <1>4, <1>5, <1>6, RowStep DEF ResetRead, At, Holding

LEMMA VerifyEmailStep ==
  ASSUME AuthInv, NEW c \in Calls, NEW t \in mailed, VerifyEmail(c, t)
  PROVE  AuthInv'
<1>. DEFINE r == [Idle EXCEPT !.pc = "verify_commit", !.op = "verify", !.user = t.user,
       !.token = t]
<1>. Shapes
  BY DEF AuthInv
<1>1. /\ Active(t.user) /\ account[t.user].email = t.email
      /\ At(c, "idle") /\ Spend("verify") /\ Become(c, r)
  BY DEF VerifyEmail, Start
<1>2. t \in Token /\ t.user \in Users
  BY MailedToken
<1>3. account[t.user].state # "none"
  BY <1>1, <1>2, ActiveRow
<1>4. FitRow(r)
  BY <1>2 DEF FitRow, CallRow, Stages, Kinds, Idle
<1>5. /\ r.pc = "verify_commit" /\ r.user = t.user /\ r.token = t
      /\ r.revoked = FALSE /\ r.op = "verify"
  BY DEF Idle
<1>6. left' \in [Kinds -> Nat]
  BY <1>1, SpendKeeps DEF Shapes, Kinds
<1>. HIDE DEF r
<1>. QED
  BY <1>1, <1>3, <1>4, <1>5, <1>6, RowStep DEF VerifyEmail, At, Holding

-----------------------------------------------------------------------------
(* Steps of a call that leave the accounts and the sessions alone          *)

LEMMA IdleFits ==
  /\ FitRow(Idle) /\ Idle.pc = "idle" /\ ~Holding(Idle)
  /\ Idle.revoked = FALSE /\ Idle.op = None /\ Idle.replay = FALSE
BY DEF FitRow, Holding, CallRow, Stages, Kinds, Idle

(* The row of a call in progress: its fields, and what it may claim.       *)
LEMMA RowOf ==
  ASSUME AuthInv, NEW c \in Calls
  PROVE  /\ FitRow(call[c]) /\ call[c] \in CallRow
         /\ call[c].pc # "idle" =>
              call[c].user \in Users /\ account[call[c].user].state # "none"
         /\ Holding(call[c]) =>
              Credible(call[c].user, HeldVersion(call[c]), call[c].pw, call[c].over)
         /\ call[c].revoked => call[c].token \in revoked
         /\ call[c].op = "refresh" => ~call[c].replay
<1>1. FitRow(call[c]) /\ call[c] \in CallRow
  BY DEF AuthInv, Shapes, FitRow
<1>2. call[c].pc # "idle" => call[c].user \in Users
  BY <1>1 DEF FitRow
<1>. QED
  BY <1>1, <1>2
  DEF AuthInv, Known, At, CredibleCalls, RevokedStays, ExchangedTokenIsDead

LEMMA SignedToken ==
  ASSUME Shapes, NEW u \in Users, NEW e \in Emails, NEW v \in Nat, NEW typ \in TokenTypes
  PROVE  /\ Sign(typ, u, e, v) \in Token
         /\ Sign(typ, u, e, v).user = u /\ Sign(typ, u, e, v).version = v
         /\ Sign(typ, u, e, v).email = e
BY DEF Shapes, TokenTypesOK, Token, Sign

LEMMA MintStep ==
  ASSUME AuthInv, NEW c \in Calls, Mint(c)
  PROVE  AuthInv'
<1>. DEFINE q == call[c]
            t == Sign("refresh", q.user, q.email, q.version)
            r == [q EXCEPT !.pc = "store", !.minted = t]
<1>. Shapes
  BY DEF AuthInv
<1>1. q.pc = "mint" /\ Become(c, r)
  BY DEF Mint, At
<1>2. /\ FitRow(q) /\ q \in CallRow /\ q.user \in Users /\ account[q.user].state # "none"
      /\ Credible(q.user, HeldVersion(q), q.pw, q.over)
      /\ (q.revoked => q.token \in revoked) /\ (q.op = "refresh" => ~q.replay)
  BY <1>1, RowOf DEF Holding
<1>3. q.email \in Emails /\ q.version \in Nat /\ q.pw \in Passwords
  BY <1>1, <1>2 DEF FitRow, CallRow
<1>4. t \in Token /\ t.user = q.user /\ t.version = q.version
  BY <1>2, <1>3, SignedToken DEF TokenTypes
<1>. HIDE DEF t
<1>5. FitRow(r)
  BY <1>1, <1>2, <1>3, <1>4 DEF FitRow, CallRow, Stages
<1>6. /\ r.pc = "store" /\ r.user = q.user /\ r.pw = q.pw /\ r.over = q.over
      /\ r.version = q.version /\ r.revoked = q.revoked /\ r.token = q.token
      /\ r.op = q.op /\ r.replay = q.replay
  BY <1>2 DEF CallRow
<1>7. HeldVersion(r) = HeldVersion(q)
  BY <1>1, <1>6 DEF HeldVersion
<1>8. left' \in [Kinds -> Nat]
  BY DEF Mint, Shapes
<1>. HIDE DEF r
<1>. QED
  BY <1>1, <1>2, <1>5, <1>6, <1>7, <1>8, RowStep DEF Mint, At

LEMMA FinishStep ==
  ASSUME AuthInv, NEW c \in Calls, Finish(c), ~At(c, "change_bump"),
         UNCHANGED <<rows, mailed, issued, now, left, history>>
  PROVE  AuthInv'
<1>1. left' \in [Kinds -> Nat]
  BY DEF AuthInv, Shapes
<1>2. Become(c, Idle)
  BY DEF Finish
<1>. QED
  BY <1>1, <1>2, IdleFits, RowStep

(* The token's version is the account's when the row is loaded.            *)
LEMMA RefreshLoadStep ==
  ASSUME AuthInv, NEW c \in Calls, RefreshLoad(c)
  PROVE  AuthInv'
<1>. DEFINE q == call[c]
            r == [q EXCEPT !.pc = "refresh_revoke", !.email = account[q.token.user].email,
              !.version = account[q.token.user].version]
<1>. Shapes
  BY DEF AuthInv
<1>1. q.pc = "refresh_load" /\ UNCHANGED <<rows, mailed, issued, now, left, history>>
  BY DEF RefreshLoad, At
<1>2. /\ FitRow(q) /\ q \in CallRow /\ q.user \in Users /\ account[q.user].state # "none"
      /\ Credible(q.user, HeldVersion(q), q.pw, q.over)
      /\ (q.revoked => q.token \in revoked) /\ (q.op = "refresh" => ~q.replay)
  BY <1>1, RowOf DEF Holding
<1>3. q.token \in Token /\ q.token.user = q.user /\ q.pw \in Passwords
  BY <1>1, <1>2 DEF FitRow
<1>4. CASE LoadActiveUser(q.token)
  <2>1. Become(c, r)
    BY <1>4 DEF RefreshLoad
  <2>2. /\ account[q.user].email \in Emails /\ account[q.user].version \in Nat
        /\ account[q.user].version = q.token.version
    BY <1>2, <1>3, <1>4, ActiveRow DEF LoadActiveUser
  <2>3. FitRow(r)
    BY <1>1, <1>2, <1>3, <2>2 DEF FitRow, CallRow, Stages
  <2>4. /\ r.pc = "refresh_revoke" /\ r.user = q.user /\ r.pw = q.pw /\ r.over = q.over
        /\ r.version = q.token.version /\ r.revoked = q.revoked /\ r.token = q.token
        /\ r.op = q.op /\ r.replay = q.replay
    BY <1>2, <1>3, <2>2 DEF CallRow
  <2>5. HeldVersion(r) = HeldVersion(q)
    BY <1>1, <2>4 DEF HeldVersion
  <2>6. left' \in [Kinds -> Nat]
    BY <1>1 DEF Shapes
  <2>. HIDE DEF r
  <2>. QED
    BY <1>1, <1>2, <2>1, <2>3, <2>4, <2>5, <2>6, RowStep DEF At
<1>5. CASE ~LoadActiveUser(q.token)
  <2>1. Finish(c)
    BY <1>5 DEF RefreshLoad
  <2>. QED
    BY <1>1, <2>1, FinishStep DEF At
<1>. QED
  BY <1>4, <1>5

LEMMA ChangeReadStep ==
  ASSUME AuthInv, NEW c \in Calls, ChangeRead(c)
  PROVE  AuthInv'
<1>. DEFINE q == call[c]
            r == [q EXCEPT !.pc = "change_write", !.email = account[q.user].email]
<1>. Shapes
  BY DEF AuthInv
<1>1. q.pc = "change_read" /\ UNCHANGED <<rows, mailed, issued, now, left, history>>
  BY DEF ChangeRead, At
<1>2. /\ FitRow(q) /\ q \in CallRow /\ q.user \in Users /\ account[q.user].state # "none"
      /\ (q.revoked => q.token \in revoked) /\ (q.op = "refresh" => ~q.replay)
  BY <1>1, RowOf
<1>3. CASE Active(q.user) /\ Become(c, r)
  <2>1. account[q.user].email \in Emails
    BY <1>2, <1>3, ActiveRow
  <2>2. FitRow(r)
    BY <1>1, <1>2, <2>1 DEF FitRow, CallRow, Stages
  <2>3. /\ r.pc = "change_write" /\ r.user = q.user /\ r.revoked = q.revoked
        /\ r.token = q.token /\ r.op = q.op /\ r.replay = q.replay
    BY <1>2 DEF CallRow
  <2>4. left' \in [Kinds -> Nat]
    BY <1>1 DEF Shapes
  <2>. HIDE DEF r
  <2>. QED
    BY <1>1, <1>2, <1>3, <2>2, <2>3, <2>4, RowStep DEF At, Holding
<1>4. CASE Finish(c)
  BY <1>1, <1>4, FinishStep DEF At
<1>. QED
  BY <1>3, <1>4 DEF ChangeRead

LEMMA RefreshRevokeStep ==
  ASSUME AuthInv, NEW c \in Calls, RefreshRevoke(c)
  PROVE  AuthInv'
<1>. DEFINE q == call[c]
            r(b) == [q EXCEPT !.pc = "mint", !.revoked = b]
<1>. Shapes
  BY DEF AuthInv
<1>1. q.pc = "refresh_revoke" /\ UNCHANGED <<account, reset, verify, mailed, issued, now, history>>
  BY DEF RefreshRevoke, At
<1>2. /\ FitRow(q) /\ q \in CallRow /\ q.user \in Users /\ account[q.user].state # "none"
      /\ Credible(q.user, HeldVersion(q), q.pw, q.over)
      /\ (q.revoked => q.token \in revoked) /\ (q.op = "refresh" => ~q.replay)
  BY <1>1, RowOf DEF Holding
<1>3. q.token \in Token
  BY <1>1, <1>2 DEF FitRow
<1>4. ASSUME NEW b \in BOOLEAN, Become(c, r(b)), left' \in [Kinds -> Nat],
             revoked \subseteq revoked', revoked' \subseteq revoked \cup {q.token},
             b => q.token \in revoked'
      PROVE  AuthInv'
  <2>1. FitRow(r(b))
    BY <1>1, <1>2, <1>3 DEF FitRow, CallRow, Stages
  <2>2. /\ r(b).pc = "mint" /\ r(b).user = q.user /\ r(b).pw = q.pw /\ r(b).over = q.over
        /\ r(b).version = q.version /\ r(b).revoked = b /\ r(b).token = q.token
        /\ r(b).op = q.op /\ r(b).replay = q.replay
    BY <1>2 DEF CallRow
  <2>3. HeldVersion(r(b)) = HeldVersion(q)
    BY <1>1, <2>2 DEF HeldVersion
  <2>4. TokenTypesOK'
    BY <1>1, <1>3, <1>4 DEF Shapes, TokenTypesOK, history
  <2>. HIDE DEF r
  <2>. QED
    BY <1>1, <1>2, <1>4, <2>1, <2>2, <2>3, <2>4, QuietStep DEF At, history
<1>5. CASE revoked' = revoked \cup {q.token} /\ Become(c, r(TRUE)) /\ UNCHANGED left
  BY <1>4, <1>5 DEF Shapes
<1>6. CASE Spend("error") /\ Goto(c, "mint") /\ UNCHANGED revoked
  <2>1. left' \in [Kinds -> Nat]
    BY <1>6, SpendKeeps DEF Shapes, Kinds
  <2>2. [q EXCEPT !.pc = "mint"] = r(q.revoked) /\ q.revoked \in BOOLEAN
    BY <1>2 DEF CallRow
  <2>3. Become(c, r(q.revoked))
    BY <1>6, <2>2 DEF Goto
  <2>. HIDE DEF r
  <2>. QED
    BY <1>2, <1>4, <1>6, <2>1, <2>2, <2>3
<1>. QED
  BY <1>5, <1>6 DEF RefreshRevoke

LEMMA ForgotStoreStep ==
  ASSUME AuthInv, NEW c \in Calls, ForgotStore(c)
  PROVE  AuthInv'
<1>. DEFINE q == call[c]
            t == SignMail("password_reset", q.user, q.email)
<1>. Shapes
  BY DEF AuthInv
<1>1. /\ q.pc = "forgot_store" /\ reset' = [reset EXCEPT ![q.user] = t]
      /\ mailed' = mailed \cup {t} /\ Become(c, Idle)
      /\ UNCHANGED <<account, verify, revoked, issued, now, left, history>>
  BY DEF ForgotStore, At, Finish
<1>2. FitRow(q) /\ q.user \in Users
  BY <1>1, RowOf
<1>3. q.email \in Emails
  BY <1>1, <1>2 DEF FitRow
<1>4. t \in Token /\ t.user = q.user
  BY <1>2, <1>3, SignedToken DEF SignMail, TokenTypes
<1>. HIDE DEF t
<1>5. TokenTypesOK'
  BY <1>1, <1>2, <1>4 DEF Shapes, TokenTypesOK, history
<1>6. left' \in [Kinds -> Nat]
  BY <1>1 DEF Shapes
<1>. QED
  BY <1>1, <1>5, <1>6, IdleFits, QuietStep DEF At, history

LEMMA VerificationStoreStep ==
  ASSUME AuthInv, NEW c \in Calls, VerificationStore(c)
  PROVE  AuthInv'
<1>. DEFINE q == call[c]
            t == SignMail("email_verification", q.user, q.email)
<1>. Shapes
  BY DEF AuthInv
<1>1. /\ q.pc = "verification_store" /\ Become(c, Idle)
      /\ UNCHANGED <<account, reset, revoked, issued, now, history>>
  BY DEF VerificationStore, At, Finish
<1>2. FitRow(q) /\ q.user \in Users
  BY <1>1, RowOf
<1>3. q.email \in Emails
  BY <1>1, <1>2 DEF FitRow
<1>4. t \in Token /\ t.user = q.user
  BY <1>2, <1>3, SignedToken DEF SignMail, TokenTypes
<1>5. \/ verify' = [verify EXCEPT ![q.user] = t] /\ mailed' = mailed \cup {t} /\ UNCHANGED left
      \/ Spend("error") /\ UNCHANGED <<verify, mailed>>
  BY DEF VerificationStore
<1>. HIDE DEF t
<1>6. TokenTypesOK'
  BY <1>1, <1>2, <1>4, <1>5 DEF Shapes, TokenTypesOK, history
<1>7. left' \in [Kinds -> Nat]
  BY <1>5, SpendKeeps DEF Shapes, Kinds
<1>. QED
  BY <1>1, <1>6, <1>7, IdleFits, QuietStep DEF At, history

(* Who dies in the middle of a change leaves its account torn.             *)
LEMMA DieStep ==
  ASSUME AuthInv, NEW c \in Calls, Die(c)
  PROVE  AuthInv'
<1>. Shapes
  BY DEF AuthInv
<1>1. /\ Spend("crash") /\ Become(c, Idle)
      /\ UNCHANGED <<rows, mailed, issued, now, proof, moved, exchanged>>
  BY DEF Die, Finish
<1>2. torn \subseteq torn' /\ (At(c, "change_bump") => call[c].user \in torn')
  BY DEF Die
<1>3. TokenTypesOK'
  BY <1>1 DEF Shapes, TokenTypesOK, rows
<1>4. left' \in [Kinds -> Nat]
  BY <1>1, SpendKeeps DEF Shapes, Kinds
<1>. QED
  BY <1>1, <1>2, <1>3, <1>4, IdleFits, QuietStep DEF rows

-----------------------------------------------------------------------------
(* Steps without a call, and the clock                                     *)

LEMMA ClockStep ==
  ASSUME AuthInv, TokenTypesOK', left' \in [Kinds -> Nat],
         revoked \subseteq revoked',
         UNCHANGED <<account, issued, call, history>>
  PROVE  AuthInv'
<1>1. Shapes'
  <2>1. AccountTypes'
    BY DEF AuthInv, Shapes, AccountTypes
  <2>2. proof' \in [Users -> Emails \cup {None}] /\ call' \in [Calls -> CallRow]
    BY DEF AuthInv, Shapes, history
  <2>3. \A c \in Calls : FitRow(call'[c])
    BY DEF AuthInv, Shapes
  <2>. QED
    BY <2>1, <2>2, <2>3 DEF Shapes
<1>2. UniqueEmails' /\ Known' /\ ExchangedTokenIsDead' /\ BumpWrote'
  BY DEF AuthInv, UniqueEmails, Known, At, ExchangedTokenIsDead, BumpWrote
<1>3. CredibleCalls' /\ CredibleSessions'
  BY DEF AuthInv, CredibleCalls, CredibleSessions, Credible, BumpPending, Holding,
         HeldVersion, At, history
<1>4. RevokedStays'
  BY DEF AuthInv, RevokedStays, history
<1>5. ProofInHand' /\ VerifiedAddressWasProven'
  BY DEF AuthInv, ProofInHand, VerifiedAddressWasProven, At, history
<1>. QED
  BY <1>1, <1>2, <1>3, <1>4, <1>5 DEF AuthInv

LEMMA TickStep == AuthInv /\ Tick => AuthInv'
<1>. SUFFICES ASSUME AuthInv, Tick PROVE AuthInv'
  OBVIOUS
<1>1. TokenTypesOK' /\ left' \in [Kinds -> Nat]
  BY AuthAssumption DEF AuthInv, Shapes, TokenTypesOK, Tick, rows, history
<1>. QED
  BY <1>1, ClockStep DEF Tick, rows

LEMMA LogoutStep ==
  ASSUME AuthInv, NEW s \in issued, Logout(s)
  PROVE  AuthInv'
<1>1. s.token \in Token
  BY IssuedSession
<1>2. TokenTypesOK'
  BY <1>1 DEF AuthInv, Shapes, TokenTypesOK, Logout, history
<1>3. left' \in [Kinds -> Nat]
  BY SpendKeeps DEF AuthInv, Shapes, Kinds, Logout
<1>. QED
  BY <1>2, <1>3, ClockStep DEF Logout

LEMMA RestStep == AuthInv /\ UNCHANGED vars => AuthInv'
<1>. SUFFICES ASSUME AuthInv, UNCHANGED vars PROVE AuthInv'
  OBVIOUS
<1>1. TokenTypesOK' /\ left' \in [Kinds -> Nat]
  BY DEF AuthInv, Shapes, TokenTypesOK, vars
<1>. QED
  BY <1>1, ClockStep DEF vars, history

-----------------------------------------------------------------------------
(* Steps that write an account                                             *)

LEMMA OneRow ==
  ASSUME Shapes, NEW u \in Users, NEW row \in Account,
         account' = [account EXCEPT ![u] = row],
         row.state # "none" => row.email \in Emails /\ row.password \in Passwords
  PROVE  /\ AccountTypes'
         /\ account'[u] = row
         /\ \A v \in Users : v # u => account'[v] = account[v]
<1>1. account \in [Users -> Account]
  BY DEF Shapes, AccountTypes
<1>2. account'[u] = row /\ \A v \in Users : v # u => account'[v] = account[v]
  BY <1>1
<1>3. account' \in [Users -> Account]
  BY <1>1
<1>4. \A v \in Users : account'[v].state # "none" =>
        account'[v].email \in Emails /\ account'[v].password \in Passwords
  BY <1>2 DEF Shapes, AccountTypes
<1>. QED
  BY <1>2, <1>3, <1>4 DEF AccountTypes

(* A write to one row that keeps the address and the mark of it.           *)
LEMMA WriteStep ==
  ASSUME AuthInv, NEW c \in Calls, NEW u \in Users, NEW row \in Account,
         account' = [account EXCEPT ![u] = row],
         row.state # "none", row.password \in Passwords,
         row.email \in Emails, row.email = account[u].email,
         row.verified = account[u].verified,
         call' \in [Calls -> CallRow], \A d \in Calls : FitRow(call'[d]),
         TokenTypesOK', UNCHANGED left,
         OthersStay(c), VersionsGrow(c), BumpLeavesTrace(c),
         UNCHANGED <<issued, revoked, history>>,
         ~At(c, "verify_commit")',
         At(c, "idle") \/ account[call[c].user].state # "none",
         ~At(c, "idle")' => call'[c].user = call[c].user /\ ~At(c, "idle"),
         Holding(call'[c]) =>
           CredibleNext(call'[c].user, HeldVersion(call'[c]), call'[c].pw, call'[c].over),
         At(c, "change_bump")' =>
           call'[c].over \/ call'[c].pw = account'[call'[c].user].password,
         call'[c].revoked => call'[c].token \in revoked,
         call'[c].op = "refresh" => ~call'[c].replay
  PROVE  AuthInv'
<1>. Shapes /\ UniqueEmails /\ account \in [Users -> Account]
  BY DEF AuthInv, Shapes, AccountTypes
<1>1. /\ AccountTypes' /\ account'[u] = row
      /\ \A v \in Users : v # u => account'[v] = account[v]
  BY OneRow
<1>2. Shapes'
  <2>1. proof' \in [Users -> Emails \cup {None}] /\ left' \in [Kinds -> Nat]
    BY DEF Shapes, history
  <2>. QED
    BY <1>1, <2>1 DEF Shapes
<1>3. \A v \in Users : /\ account'[v].email = account[v].email
                       /\ account'[v].verified = account[v].verified
  BY <1>1
<1>4. UniqueEmails'
  BY <1>3 DEF UniqueEmails
<1>5. RowsStay
  BY <1>1 DEF RowsStay
<1>6. Known'
  <2>1. call'[c].pc # "idle" => account'[call'[c].user].state # "none"
    <3>. SUFFICES ASSUME call'[c].pc # "idle" PROVE account'[call'[c].user].state # "none"
      OBVIOUS
    <3>1. call'[c].user = call[c].user /\ call[c].pc # "idle"
      BY DEF At
    <3>2. call[c].user \in Users /\ account[call[c].user].state # "none"
      BY <3>1, RowOf
    <3>. QED
      BY <3>1, <3>2, <1>5 DEF RowsStay
  <2>2. \A s \in issued' \ issued :
          s.token.user \in Users /\ account'[s.token.user].state # "none"
    OBVIOUS
  <2>. QED
    BY <1>5, <2>1, <2>2, KnownStep
<1>7. CredibleCalls' /\ CredibleSessions' /\ BumpWrote'
  <2>1. torn \subseteq torn' /\ issued' \ issued = {}
    BY DEF history
  <2>. QED
    BY <1>2, <2>1, CredibleStep
<1>8. RevokedStays' /\ ExchangedTokenIsDead'
  BY ExchangeStep DEF history
<1>9. ProofInHand' /\ VerifiedAddressWasProven'
  BY <1>3, AddressStep DEF history, At
<1>. QED
  BY <1>2, <1>4, <1>6, <1>7, <1>8, <1>9 DEF AuthInv

(* The rows of WritePassword: r for the caller, the others are overtaken.  *)
LEMMA WritePasswordRows ==
  ASSUME Shapes, NEW c \in Calls, NEW r, FitRow(r), WritePassword(c, r)
  PROVE  /\ call' \in [Calls -> CallRow]
         /\ \A d \in Calls : FitRow(call'[d])
         /\ call'[c] = r
         /\ OthersStay(c)
         /\ \A d \in Calls \ {c} : Overtaken(c, d) => call'[d].over
<1>1. call'[c] = r
  BY DEF WritePassword
<1>2. ASSUME NEW d \in Calls \ {c}
      PROVE  /\ call'[d] \in CallRow /\ FitRow(call'[d])
             /\ call'[d].pc = call[d].pc /\ call'[d].op = call[d].op
             /\ call'[d].user = call[d].user /\ call'[d].pw = call[d].pw
             /\ call'[d].version = call[d].version /\ call'[d].token = call[d].token
             /\ call'[d].replay = call[d].replay /\ call'[d].revoked = call[d].revoked
             /\ call[d].over => call'[d].over
             /\ Overtaken(c, d) => call'[d].over
  <2>1. FitRow(call[d]) /\ call[d] \in CallRow
    BY DEF Shapes
  <2>. DEFINE over == call[d].over \/ Overtaken(c, d)
  <2>2. call'[d] = [call[d] EXCEPT !.over = over]
    BY DEF WritePassword
  <2>3. over \in BOOLEAN
    BY <2>1 DEF CallRow, Overtaken
  <2>. HIDE DEF over
  <2>4. /\ call'[d] \in CallRow /\ call'[d].over = over
        /\ call'[d].pc = call[d].pc /\ call'[d].op = call[d].op
        /\ call'[d].user = call[d].user /\ call'[d].pw = call[d].pw
        /\ call'[d].version = call[d].version /\ call'[d].token = call[d].token
        /\ call'[d].replay = call[d].replay /\ call'[d].revoked = call[d].revoked
        /\ call'[d].email = call[d].email /\ call'[d].minted = call[d].minted
    BY <2>1, <2>2, <2>3 DEF CallRow
  <2>5. FitRow(call'[d])
    BY <2>1, <2>4 DEF FitRow
  <2>. QED
    BY <2>4, <2>5 DEF over
<1>3. call' \in [Calls -> CallRow]
  <2>1. \A d \in Calls : call'[d] \in CallRow
    BY <1>1, <1>2 DEF FitRow
  <2>2. call' = [d \in Calls |-> call'[d]]
    BY DEF WritePassword
  <2>. QED
    BY <2>1, <2>2
<1>4. \A d \in Calls : FitRow(call'[d])
  BY <1>1, <1>2
<1>5. OthersStay(c)
  BY <1>2 DEF OthersStay
<1>. QED
  BY <1>1, <1>2, <1>3, <1>4, <1>5

(* The row of an account that exists, and its fields.                      *)
LEMMA RowExists ==
  ASSUME Shapes, NEW u \in Users, account[u].state # "none"
  PROVE  /\ account[u] \in Account /\ account[u].email \in Emails
         /\ account[u].password \in Passwords /\ account[u].version \in Nat
         /\ account[u].verified \in BOOLEAN
         /\ account \in [Users -> Account]
BY DEF Shapes, AccountTypes, Account

LEMMA ChangeWriteStep ==
  ASSUME AuthInv, NEW c \in Calls, ChangeWrite(c)
  PROVE  AuthInv'
<1>. DEFINE q == call[c]
            u == q.user
            r == [q EXCEPT !.pc = "change_bump"]
            row == [account[u] EXCEPT !.password = q.pw]
<1>. Shapes
  BY DEF AuthInv
<1>1. /\ q.pc = "change_write" /\ account' = [account EXCEPT ![u] = row]
      /\ WritePassword(c, r)
      /\ UNCHANGED <<reset, verify, revoked, mailed, issued, now, left, history>>
  BY DEF ChangeWrite, At
<1>2. /\ FitRow(q) /\ q \in CallRow /\ u \in Users /\ account[u].state # "none"
      /\ (q.revoked => q.token \in revoked) /\ (q.op = "refresh" => ~q.replay)
  BY <1>1, RowOf
<1>3. /\ account[u] \in Account /\ account[u].email \in Emails
      /\ account[u].version \in Nat /\ account \in [Users -> Account]
  BY <1>2, RowExists
<1>4. q.pw \in Passwords
  BY <1>1, <1>2 DEF FitRow
<1>5. /\ row \in Account /\ row.state = account[u].state /\ row.password = q.pw
      /\ row.email = account[u].email /\ row.verified = account[u].verified
      /\ row.version = account[u].version
  BY <1>3, <1>4 DEF Account
<1>. HIDE DEF row
<1>6. FitRow(r)
  BY <1>1, <1>2 DEF FitRow, CallRow, Stages
<1>7. /\ r.pc = "change_bump" /\ r.user = u /\ r.pw = q.pw /\ r.revoked = q.revoked
      /\ r.token = q.token /\ r.op = q.op /\ r.replay = q.replay
  BY <1>2 DEF CallRow
<1>. HIDE DEF r
<1>8. /\ call' \in [Calls -> CallRow] /\ \A d \in Calls : FitRow(call'[d])
      /\ call'[c] = r /\ OthersStay(c)
      /\ \A d \in Calls \ {c} : Overtaken(c, d) => call'[d].over
  BY <1>1, <1>6, WritePasswordRows
<1>9. account'[u] = row /\ \A v \in Users : v # u => account'[v] = account[v]
  BY <1>1, <1>2, <1>3
<1>10. \A d \in Calls \ {c} : At(d, "change_bump") /\ call[d].user = u => call'[d].over
  BY <1>8 DEF Overtaken, At, Shapes, FitRow
<1>11. VersionsGrow(c)
  <2>. SUFFICES ASSUME NEW v \in Users, account[v].state # "none"
       PROVE  /\ account[v].version <= account'[v].version
              /\ \/ account'[v].password = account[v].password
                 \/ /\ At(c, "change_bump")' /\ call'[c].user = v
                    /\ \A d \in Calls \ {c} :
                         At(d, "change_bump") /\ call[d].user = v => call'[d].over
    BY DEF VersionsGrow
  <2>1. account[v].version \in Nat
    BY RowExists
  <2>2. account'[v].version = account[v].version
    BY <1>5, <1>9
  <2>3. At(c, "change_bump")' /\ call'[c].user = u
    BY <1>7, <1>8 DEF At
  <2>. QED
    BY <1>9, <1>10, <2>1, <2>2, <2>3
<1>12. BumpLeavesTrace(c)
  BY <1>1 DEF BumpLeavesTrace, At
<1>13. TokenTypesOK'
  BY <1>1 DEF Shapes, TokenTypesOK, history
<1>14. ~Holding(call'[c]) /\ At(c, "change_bump")' /\ ~At(c, "verify_commit")'
  BY <1>7, <1>8 DEF Holding, At
<1>15. call'[c].pw = account'[call'[c].user].password
  BY <1>5, <1>7, <1>8, <1>9
<1>. QED
  BY <1>1, <1>2, <1>3, <1>4, <1>5, <1>7, <1>8, <1>11, <1>12, <1>13, <1>14, <1>15, WriteStep DEF At

LEMMA ChangeBumpStep ==
  ASSUME AuthInv, NEW c \in Calls, ChangeBump(c)
  PROVE  AuthInv'
<1>. DEFINE q == call[c]
            u == q.user
            r == [q EXCEPT !.pc = "mint", !.version = account[u].version + 1]
            row == [account[u] EXCEPT !.version = account[u].version + 1]
<1>. Shapes /\ BumpWrote
  BY DEF AuthInv
<1>1. /\ q.pc = "change_bump" /\ account' = [account EXCEPT ![u] = row]
      /\ Become(c, r)
      /\ UNCHANGED <<reset, verify, revoked, mailed, issued, now, left, history>>
  BY DEF ChangeBump, At
<1>2. /\ FitRow(q) /\ q \in CallRow /\ u \in Users /\ account[u].state # "none"
      /\ (q.revoked => q.token \in revoked) /\ (q.op = "refresh" => ~q.replay)
  BY <1>1, RowOf
<1>3. /\ account[u] \in Account /\ account[u].email \in Emails
      /\ account[u].password \in Passwords
      /\ account[u].version \in Nat /\ account \in [Users -> Account]
  BY <1>2, RowExists
<1>4. q.pw \in Passwords /\ (q.over \/ q.pw = account[u].password)
  BY <1>1, <1>2 DEF FitRow, BumpWrote, At
<1>5. /\ row \in Account /\ row.state = account[u].state
      /\ row.password = account[u].password
      /\ row.email = account[u].email /\ row.verified = account[u].verified
      /\ row.version = account[u].version + 1
  BY <1>3 DEF Account
<1>. HIDE DEF row
<1>6. FitRow(r)
  <2>. DEFINE v == account[u].version + 1
  <2>1. v \in Nat /\ r = [q EXCEPT !.pc = "mint", !.version = v]
    BY <1>3
  <2>2. q.email \in Emails
    BY <1>1, <1>2 DEF FitRow
  <2>. HIDE DEF v, r
  <2>3. /\ r \in CallRow /\ r.pc = "mint" /\ r.user = u /\ r.pw = q.pw /\ r.email = q.email
        /\ r.revoked = q.revoked /\ r.token = q.token
    BY <1>2, <2>1 DEF CallRow, Stages
  <2>. QED
    BY <1>2, <1>4, <2>2, <2>3 DEF FitRow
<1>7. /\ r.pc = "mint" /\ r.user = u /\ r.pw = q.pw /\ r.revoked = q.revoked
      /\ r.token = q.token /\ r.op = q.op /\ r.replay = q.replay /\ r.over = q.over
      /\ r.version = account[u].version + 1
  BY <1>2, <1>3 DEF CallRow
<1>. HIDE DEF r
<1>8. /\ call' \in [Calls -> CallRow] /\ \A d \in Calls : FitRow(call'[d])
      /\ call'[c] = r /\ OthersStay(c)
  BY <1>1, <1>6, BecomeRow
<1>9. account'[u] = row /\ \A v \in Users : v # u => account'[v] = account[v]
  BY <1>1, <1>2, <1>3
<1>10. VersionsGrow(c)
  <2>. SUFFICES ASSUME NEW v \in Users, account[v].state # "none"
       PROVE  /\ account[v].version <= account'[v].version
              /\ account'[v].password = account[v].password
    BY DEF VersionsGrow
  <2>1. account[v].version \in Nat
    BY RowExists
  <2>. QED
    BY <1>5, <1>9, <2>1
<1>11. BumpLeavesTrace(c)
  BY <1>3, <1>5, <1>9 DEF BumpLeavesTrace
<1>12. TokenTypesOK'
  BY <1>1 DEF Shapes, TokenTypesOK, history
<1>13. CredibleNext(u, r.version, r.pw, r.over)
  BY <1>3, <1>4, <1>5, <1>7, <1>9 DEF CredibleNext
<1>14. HeldVersion(r) = r.version /\ ~At(c, "change_bump")' /\ ~At(c, "verify_commit")'
  BY <1>7, <1>8 DEF HeldVersion, At
<1>15. CredibleNext(call'[c].user, HeldVersion(call'[c]), call'[c].pw, call'[c].over)
  <2>1. HeldVersion(call'[c]) = r.version
    BY <1>8, <1>14
  <2>. QED
    BY <1>7, <1>8, <1>13, <2>1 DEF CredibleNext
<1>16. call'[c].user = call[c].user /\ ~At(c, "idle")
  BY <1>1, <1>7, <1>8 DEF At
<1>17. /\ call'[c].revoked => call'[c].token \in revoked
       /\ call'[c].op = "refresh" => ~call'[c].replay
  BY <1>2, <1>7, <1>8
<1>. QED
  BY <1>1, <1>2, <1>3, <1>5, <1>8, <1>10, <1>11, <1>12, <1>14, <1>15, <1>16, <1>17, WriteStep

LEMMA ResetCommitStep ==
  ASSUME AuthInv, NEW c \in Calls, ResetCommit(c)
  PROVE  AuthInv'
<1>. DEFINE q == call[c]
            u == q.user
            row == [account[u] EXCEPT !.password = q.pw, !.version = account[u].version + 1]
<1>. Shapes
  BY DEF AuthInv
<1>1. /\ q.pc = "reset_commit" /\ reset' = [reset EXCEPT ![u] = None]
      /\ WritePassword(c, Idle)
      /\ UNCHANGED <<verify, revoked, mailed, issued, now, left, history>>
  BY DEF ResetCommit, At
<1>2. FitRow(q) /\ q \in CallRow /\ u \in Users /\ account[u].state # "none"
  BY <1>1, RowOf
<1>3. /\ account[u] \in Account /\ account[u].email \in Emails
      /\ account[u].version \in Nat /\ account \in [Users -> Account]
  BY <1>2, RowExists
<1>4. account' = [account EXCEPT ![u] = row]
  BY <1>2, <1>3 DEF ResetCommit, Account
<1>5. q.pw \in Passwords
  BY <1>1, <1>2 DEF FitRow
<1>6. /\ row \in Account /\ row.state = account[u].state /\ row.password = q.pw
      /\ row.email = account[u].email /\ row.verified = account[u].verified
      /\ row.version = account[u].version + 1
  <2>. DEFINE v == account[u].version + 1
  <2>1. v \in Nat /\ row = [account[u] EXCEPT !.password = q.pw, !.version = v]
    BY <1>3
  <2>. HIDE DEF v, row
  <2>2. /\ row \in Account /\ row.state = account[u].state /\ row.password = q.pw
        /\ row.email = account[u].email /\ row.verified = account[u].verified
        /\ row.version = v
    BY <1>3, <1>5, <2>1 DEF Account
  <2>. QED
    BY <2>2 DEF v
<1>. HIDE DEF row
<1>7. /\ call' \in [Calls -> CallRow] /\ \A d \in Calls : FitRow(call'[d])
      /\ call'[c] = Idle /\ OthersStay(c)
      /\ \A d \in Calls \ {c} : Overtaken(c, d) => call'[d].over
  BY <1>1, IdleFits, WritePasswordRows
<1>8. account'[u] = row /\ \A v \in Users : v # u => account'[v] = account[v]
  BY <1>2, <1>3, <1>4
<1>9. \A d \in Calls \ {c} : At(d, "change_bump") /\ call[d].user = u => call'[d].over
  BY <1>7 DEF Overtaken, At, Shapes, FitRow
<1>10. VersionsGrow(c)
  <2>. SUFFICES ASSUME NEW v \in Users, account[v].state # "none"
       PROVE  /\ account[v].version <= account'[v].version
              /\ \/ account'[v].password = account[v].password
                 \/ /\ account[v].version < account'[v].version
                    /\ \A d \in Calls \ {c} :
                         At(d, "change_bump") /\ call[d].user = v => call'[d].over
    BY DEF VersionsGrow
  <2>1. account[v].version \in Nat
    BY RowExists
  <2>. QED
    BY <1>6, <1>8, <1>9, <2>1
<1>11. BumpLeavesTrace(c)
  BY <1>1 DEF BumpLeavesTrace, At
<1>12. TokenTypesOK'
  BY <1>1, <1>2 DEF Shapes, TokenTypesOK, history
<1>13. /\ ~Holding(call'[c]) /\ At(c, "idle")' /\ ~At(c, "change_bump")'
       /\ ~At(c, "verify_commit")' /\ call'[c].revoked = FALSE /\ ~call'[c].replay
  BY <1>7, IdleFits DEF At
<1>. QED
  BY <1>1, <1>2, <1>3, <1>4, <1>5, <1>6, <1>7, <1>10, <1>11, <1>12, <1>13, WriteStep DEF At

(* A call that ends as it writes one row, and no password.                 *)
LEMMA LastWriteStep ==
  ASSUME AuthInv, NEW c \in Calls, Become(c, Idle), ~At(c, "idle"), ~At(c, "change_bump"),
         NEW row \in Account, account' = [account EXCEPT ![call[c].user] = row],
         row.state # "none", row.password = account[call[c].user].password,
         row.email = account[call[c].user].email,
         row.verified = account[call[c].user].verified,
         account[call[c].user].version <= row.version,
         UNCHANGED <<reset, verify, revoked, mailed, issued, now, left, history>>
  PROVE  AuthInv'
<1>. DEFINE u == call[c].user
<1>. Shapes
  BY DEF AuthInv
<1>1. u \in Users /\ account[u].state # "none"
  BY RowOf DEF At
<1>2. /\ account[u].email \in Emails /\ account[u].password \in Passwords
      /\ account \in [Users -> Account]
  BY <1>1, RowExists
<1>3. /\ call' \in [Calls -> CallRow] /\ \A d \in Calls : FitRow(call'[d])
      /\ call'[c] = Idle /\ OthersStay(c)
  BY IdleFits, BecomeRow
<1>4. account'[u] = row /\ \A v \in Users : v # u => account'[v] = account[v]
  BY <1>1, <1>2
<1>5. VersionsGrow(c)
  <2>. SUFFICES ASSUME NEW v \in Users, account[v].state # "none"
       PROVE  /\ account[v].version <= account'[v].version
              /\ account'[v].password = account[v].password
    BY DEF VersionsGrow
  <2>1. account[v].version \in Nat
    BY RowExists
  <2>. QED
    BY <1>4, <2>1
<1>6. BumpLeavesTrace(c)
  BY DEF BumpLeavesTrace
<1>7. TokenTypesOK'
  BY DEF Shapes, TokenTypesOK, history
<1>8. /\ ~Holding(call'[c]) /\ At(c, "idle")' /\ ~At(c, "change_bump")'
      /\ ~At(c, "verify_commit")' /\ call'[c].revoked = FALSE /\ ~call'[c].replay
  BY <1>3, IdleFits DEF At
<1>. QED
  BY <1>1, <1>2, <1>3, <1>5, <1>6, <1>7, <1>8, WriteStep

LEMMA RevokeAllSessionsStep ==
  ASSUME AuthInv, NEW c \in Calls, RevokeAllSessions(c)
  PROVE  AuthInv'
<1>. DEFINE u == call[c].user
            row == [account[u] EXCEPT !.version = account[u].version + 1]
<1>. Shapes
  BY DEF AuthInv
<1>1. /\ At(c, "revoke_all") /\ ~At(c, "idle") /\ ~At(c, "change_bump") /\ Become(c, Idle)
      /\ UNCHANGED <<reset, verify, revoked, mailed, issued, now, left, history>>
  BY DEF RevokeAllSessions, At, Finish
<1>2. u \in Users /\ account[u].state # "none"
  BY <1>1, RowOf DEF At
<1>3. CASE Active(u)
  <2>1. account[u] \in Account /\ account[u].version \in Nat
    BY <1>2, RowExists
  <2>2. /\ row \in Account /\ row.state = account[u].state
        /\ row.password = account[u].password /\ row.email = account[u].email
        /\ row.verified = account[u].verified /\ row.version = account[u].version + 1
    BY <2>1 DEF Account
  <2>3. account' = [account EXCEPT ![u] = row]
    BY <1>3 DEF RevokeAllSessions
  <2>. HIDE DEF row
  <2>4. account[u].version <= row.version
    BY <2>1, <2>2
  <2>. QED
    BY <1>1, <1>2, <2>2, <2>3, <2>4, LastWriteStep
<1>4. CASE ~Active(u)
  <2>1. UNCHANGED account
    BY <1>4 DEF RevokeAllSessions
  <2>. QED
    BY <1>1, <2>1, FinishStep DEF rows, Finish
<1>. QED
  BY <1>3, <1>4

LEMMA DeleteWriteStep ==
  ASSUME AuthInv, NEW c \in Calls, DeleteWrite(c)
  PROVE  AuthInv'
<1>. DEFINE u == call[c].user
            row == [account[u] EXCEPT !.state = "deleted"]
<1>. Shapes
  BY DEF AuthInv
<1>1. /\ At(c, "delete_write") /\ ~At(c, "idle") /\ ~At(c, "change_bump") /\ Become(c, Idle)
      /\ account' = [account EXCEPT ![u] = row]
      /\ UNCHANGED <<reset, verify, revoked, mailed, issued, now, left, history>>
  BY DEF DeleteWrite, At, Finish
<1>2. u \in Users /\ account[u].state # "none"
  BY <1>1, RowOf DEF At
<1>3. account[u] \in Account /\ account[u].version \in Nat
  BY <1>2, RowExists
<1>4. /\ row \in Account /\ row.state = "deleted"
      /\ row.password = account[u].password /\ row.email = account[u].email
      /\ row.verified = account[u].verified /\ row.version = account[u].version
  BY <1>3 DEF Account
<1>. HIDE DEF row
<1>5. account[u].version <= row.version
  BY <1>3, <1>4
<1>. QED
  BY <1>1, <1>4, <1>5, LastWriteStep

(* A new row: no call and no session is about it yet.                      *)
LEMMA NewRow ==
  ASSUME AuthInv, NEW u \in Users, NEW e \in Emails, NEW p \in Passwords,
         account[u].state = "none", EmailFree(e),
         account' = [account EXCEPT ![u] = NewAccount(e, p)]
  PROVE  /\ AccountTypes' /\ UniqueEmails'
         /\ account'[u].state # "none" /\ ~account'[u].verified
         /\ \A v \in Users : v # u => account'[v] = account[v]
         /\ \A v \in Users : account[v].state # "none" => account'[v] = account[v]
         /\ RowsStay
<1>. DEFINE row == NewAccount(e, p)
<1>. Shapes /\ UniqueEmails
  BY DEF AuthInv
<1>1. /\ row \in Account /\ row.state = "active" /\ row.email = e /\ row.password = p
      /\ row.verified = FALSE
  BY DEF NewAccount, NoAccount, Account
<1>. HIDE DEF row
<1>2. /\ AccountTypes' /\ account'[u] = row
      /\ \A v \in Users : v # u => account'[v] = account[v]
  BY <1>1, OneRow DEF row
<1>3. UniqueEmails'
  BY <1>1, <1>2 DEF UniqueEmails, EmailFree
<1>. QED
  BY <1>1, <1>2, <1>3 DEF RowsStay

LEMMA CreateUserStep ==
  ASSUME AuthInv, NEW u \in Users, NEW e \in Emails, NEW p \in Passwords,
         CreateUser(u, e, p)
  PROVE  AuthInv'
<1>. Shapes /\ Known
  BY DEF AuthInv
<1>1. /\ AccountTypes' /\ UniqueEmails' /\ ~account'[u].verified
      /\ \A v \in Users : v # u => account'[v] = account[v]
      /\ \A v \in Users : account[v].state # "none" => account'[v] = account[v]
      /\ RowsStay
  BY NewRow DEF CreateUser
<1>2. UNCHANGED <<reset, verify, revoked, mailed, issued, now, call, history>>
  BY DEF CreateUser
<1>3. Shapes'
  <2>1. left' \in [Kinds -> Nat]
    BY SpendKeeps DEF CreateUser, Shapes, Kinds
  <2>2. TokenTypesOK'
    BY <1>2 DEF Shapes, TokenTypesOK, history
  <2>3. proof' \in [Users -> Emails \cup {None}] /\ call' \in [Calls -> CallRow]
    BY <1>2 DEF Shapes, history
  <2>4. \A c \in Calls : FitRow(call'[c])
    BY <1>2 DEF Shapes
  <2>. QED
    BY <1>1, <2>1, <2>2, <2>3, <2>4 DEF Shapes
<1>4. \A c \in Calls : call[c].pc # "idle" =>
        account'[call[c].user] = account[call[c].user]
  BY <1>1 DEF Shapes, FitRow, Known, At
<1>5. \A s \in issued : account'[s.token.user] = account[s.token.user]
  BY <1>1, IssuedSession
<1>6. Known'
  BY <1>2, <1>4, <1>5 DEF Known, At
<1>7. CredibleCalls' /\ CredibleSessions' /\ BumpWrote'
  BY <1>2, <1>4, <1>5 DEF AuthInv, CredibleCalls, CredibleSessions, Credible, BumpPending,
     BumpWrote, Holding, HeldVersion, At, history
<1>8. RevokedStays' /\ ExchangedTokenIsDead'
  BY <1>2 DEF AuthInv, RevokedStays, ExchangedTokenIsDead, history
<1>9. ProofInHand'
  BY <1>2, <1>4 DEF AuthInv, ProofInHand, At, history
<1>10. VerifiedAddressWasProven'
  BY <1>1, <1>2 DEF AuthInv, VerifiedAddressWasProven, history
<1>. QED
  BY <1>1, <1>3, <1>6, <1>7, <1>8, <1>9, <1>10 DEF AuthInv

LEMMA RegisterStep ==
  ASSUME AuthInv, NEW c \in Calls, NEW u \in Users, NEW e \in Emails, NEW p \in Passwords,
         Register(c, u, e, p)
  PROVE  AuthInv'
<1>. DEFINE r == [Idle EXCEPT !.pc = "verification_store", !.op = "register",
       !.user = u, !.email = e]
<1>. Shapes
  BY DEF AuthInv
<1>1. /\ AccountTypes' /\ UniqueEmails'
      /\ account'[u].state # "none" /\ ~account'[u].verified
      /\ \A v \in Users : v # u => account'[v] = account[v]
      /\ \A v \in Users : account[v].state # "none" => account'[v] = account[v]
      /\ RowsStay
  BY NewRow DEF Register
<1>2. /\ At(c, "idle") /\ Spend("register") /\ Become(c, r)
      /\ UNCHANGED <<reset, verify, revoked, mailed, issued, now, history>>
  BY DEF Register, Start
<1>3. FitRow(r)
  BY DEF FitRow, CallRow, Stages, Kinds, Idle
<1>4. r.pc = "verification_store" /\ r.user = u /\ r.revoked = FALSE /\ r.op = "register"
  BY DEF Idle
<1>. HIDE DEF r
<1>5. /\ call' \in [Calls -> CallRow] /\ \A d \in Calls : FitRow(call'[d])
      /\ call'[c] = r /\ OthersStay(c)
  BY <1>2, <1>3, BecomeRow
<1>6. Shapes'
  <2>1. left' \in [Kinds -> Nat]
    BY <1>2, SpendKeeps DEF Shapes, Kinds
  <2>2. TokenTypesOK'
    BY <1>2 DEF Shapes, TokenTypesOK, history
  <2>3. proof' \in [Users -> Emails \cup {None}]
    BY <1>2 DEF Shapes, history
  <2>. QED
    BY <1>1, <1>5, <2>1, <2>2, <2>3 DEF Shapes
<1>7. issued' \ issued = {} /\ torn \subseteq torn'
  BY <1>2 DEF history
<1>8. Known'
  BY <1>1, <1>4, <1>5, <1>7, KnownStep
<1>9. VersionsGrow(c)
  <2>. SUFFICES ASSUME NEW v \in Users, account[v].state # "none"
       PROVE  /\ account[v].version <= account'[v].version
              /\ account'[v].password = account[v].password
    BY DEF VersionsGrow
  <2>1. account[v].version \in Nat
    BY RowExists
  <2>. QED
    BY <1>1, <2>1
<1>10. CredibleCalls' /\ CredibleSessions' /\ BumpWrote'
  <2>1. BumpLeavesTrace(c) /\ ~Holding(call'[c]) /\ ~At(c, "change_bump")'
    BY <1>2, <1>4, <1>5 DEF BumpLeavesTrace, Holding, At
  <2>. QED
    BY <1>5, <1>6, <1>7, <1>9, <2>1, CredibleStep
<1>11. RevokedStays' /\ ExchangedTokenIsDead'
  BY <1>2, <1>4, <1>5, ExchangeStep DEF history
<1>12. ProofInHand' /\ VerifiedAddressWasProven'
  <2>1. \A v \in Users : account'[v].verified =>
          account[v].verified /\ account'[v].email = account[v].email
    BY <1>1
  <2>2. \A v \in Users : account[v].state # "none" => account'[v].email = account[v].email
    BY <1>1
  <2>. QED
    BY <1>2, <1>4, <1>5, <2>1, <2>2, AddressStep DEF history
<1>. QED
  BY <1>1, <1>6, <1>8, <1>10, <1>11, <1>12 DEF AuthInv

(* A call that ends as it writes the address of an account, or its mark.   *)
LEMMA AddressWrite ==
  ASSUME AuthInv, NEW c \in Calls, Become(c, Idle), ~At(c, "idle"), ~At(c, "change_bump"),
         NEW row \in Account, account' = [account EXCEPT ![call[c].user] = row],
         row.state # "none", row.email \in Emails,
         row.password = account[call[c].user].password,
         row.version = account[call[c].user].version,
         \A v \in Users \ {call[c].user} : account[v].email # row.email,
         TokenTypesOK', proof' \in [Users -> Emails \cup {None}],
         UNCHANGED <<issued, left, revoked, torn, exchanged>>
  PROVE  /\ Shapes' /\ UniqueEmails' /\ Known'
         /\ CredibleCalls' /\ CredibleSessions' /\ BumpWrote'
         /\ RevokedStays' /\ ExchangedTokenIsDead'
         /\ OthersStay(c) /\ call'[c] = Idle
         /\ account'[call[c].user] = row
         /\ \A v \in Users : v # call[c].user => account'[v] = account[v]
<1>. DEFINE u == call[c].user
<1>. Shapes /\ UniqueEmails
  BY DEF AuthInv
<1>1. u \in Users /\ account[u].state # "none"
  BY RowOf DEF At
<1>2. account[u].password \in Passwords /\ account \in [Users -> Account]
  BY <1>1, RowExists
<1>3. /\ call' \in [Calls -> CallRow] /\ \A d \in Calls : FitRow(call'[d])
      /\ call'[c] = Idle /\ OthersStay(c)
  BY IdleFits, BecomeRow
<1>4. /\ AccountTypes' /\ account'[u] = row
      /\ \A v \in Users : v # u => account'[v] = account[v]
  BY <1>1, <1>2, OneRow
<1>5. Shapes'
  BY <1>3, <1>4 DEF Shapes
<1>6. UniqueEmails'
  BY <1>4 DEF UniqueEmails
<1>7. RowsStay
  BY <1>4 DEF RowsStay
<1>8. issued' \ issued = {} /\ torn \subseteq torn' /\ call'[c].pc = "idle"
  BY <1>3, IdleFits
<1>9. Known'
  BY <1>3, <1>7, <1>8, KnownStep
<1>10. VersionsGrow(c)
  <2>. SUFFICES ASSUME NEW v \in Users, account[v].state # "none"
       PROVE  /\ account[v].version <= account'[v].version
              /\ account'[v].password = account[v].password
    BY DEF VersionsGrow
  <2>1. account[v].version \in Nat
    BY RowExists
  <2>. QED
    BY <1>4, <2>1
<1>11. CredibleCalls' /\ CredibleSessions' /\ BumpWrote'
  <2>1. BumpLeavesTrace(c) /\ ~Holding(call'[c]) /\ ~At(c, "change_bump")'
    BY <1>3, IdleFits DEF BumpLeavesTrace, At
  <2>. QED
    BY <1>3, <1>5, <1>8, <1>10, <2>1, CredibleStep
<1>12. RevokedStays' /\ ExchangedTokenIsDead'
  <2>1. call'[c].revoked = FALSE /\ ~call'[c].replay
    BY <1>3, IdleFits
  <2>. QED
    BY <1>3, <2>1, ExchangeStep
<1>. QED
  BY <1>3, <1>4, <1>5, <1>6, <1>9, <1>11, <1>12

LEMMA VerifyCommitStep ==
  ASSUME AuthInv, NEW c \in Calls, VerifyCommit(c)
  PROVE  AuthInv'
<1>. DEFINE q == call[c]
            u == q.user
            row == [account[u] EXCEPT !.verified = TRUE]
<1>. Shapes /\ UniqueEmails /\ Known /\ ProofInHand /\ VerifiedAddressWasProven
  BY DEF AuthInv
<1>1. /\ At(c, "verify_commit") /\ ~At(c, "idle") /\ ~At(c, "change_bump") /\ Become(c, Idle)
      /\ account' = [account EXCEPT ![u] = row]
      /\ verify' = [verify EXCEPT ![u] = None]
      /\ proof' = [proof EXCEPT ![u] = q.token.email]
      /\ UNCHANGED <<reset, revoked, mailed, issued, now, left, torn, moved, exchanged>>
  BY DEF VerifyCommit, At, Finish
<1>2. u \in Users /\ account[u].state # "none" /\ FitRow(q)
  BY <1>1, RowOf DEF At
<1>3. /\ account[u] \in Account /\ account[u].email \in Emails
      /\ account[u].version \in Nat
  BY <1>2, RowExists
<1>4. /\ row \in Account /\ row.state = account[u].state
      /\ row.password = account[u].password /\ row.email = account[u].email
      /\ row.version = account[u].version
  BY <1>3 DEF Account
<1>. HIDE DEF row
<1>5. q.token.email \in Emails
  BY <1>1, <1>2 DEF FitRow, Token, At
<1>6. proof \in [Users -> Emails \cup {None}] /\ proof' \in [Users -> Emails \cup {None}]
  BY <1>1, <1>5 DEF Shapes
<1>7. \A v \in Users \ {u} : account[v].email # row.email
  BY <1>2, <1>3, <1>4, AuthAssumption DEF UniqueEmails
<1>8. TokenTypesOK'
  BY <1>1, <1>2 DEF Shapes, TokenTypesOK
<1>9. /\ Shapes' /\ UniqueEmails' /\ Known'
      /\ CredibleCalls' /\ CredibleSessions' /\ BumpWrote'
      /\ RevokedStays' /\ ExchangedTokenIsDead'
      /\ OthersStay(c) /\ call'[c] = Idle
      /\ account'[u] = row
      /\ \A v \in Users : v # u => account'[v] = account[v]
  BY <1>1, <1>2, <1>3, <1>4, <1>6, <1>7, <1>8, AddressWrite
<1>10. \A v \in Users : account'[v].email = account[v].email
  BY <1>4, <1>9
<1>11. ProofInHand'
  <2>. SUFFICES ASSUME NEW d \in Calls, call'[d].pc = "verify_commit"
                PROVE  \/ call'[d].user \in moved'
                       \/ call'[d].token.email = account'[call'[d].user].email
    BY DEF ProofInHand, At
  <2>1. d # c
    BY <1>9, IdleFits
  <2>2. /\ call[d].pc = "verify_commit" /\ call'[d].user = call[d].user
        /\ call'[d].token = call[d].token
    BY <1>9, <2>1 DEF OthersStay
  <2>3. call[d].user \in Users
    BY <2>2, RowOf
  <2>. QED
    BY <1>1, <1>10, <2>2, <2>3 DEF ProofInHand, At
<1>12. VerifiedAddressWasProven'
  <2>. SUFFICES ASSUME NEW v \in Users, account'[v].verified, v \notin moved'
                PROVE  proof'[v] = account'[v].email
    BY DEF VerifiedAddressWasProven
  <2>1. CASE v = u
    BY <1>1, <1>2, <1>6, <1>10, <2>1 DEF ProofInHand
  <2>2. CASE v # u
    BY <1>1, <1>6, <1>9, <2>2 DEF VerifiedAddressWasProven
  <2>. QED
    BY <2>1, <2>2
<1>. QED
  BY <1>9, <1>11, <1>12 DEF AuthInv

(* A new address under a verification that has been or is about to be      *)
(* written marks the account as moved.                                     *)
LEMMA UpdateWriteStep ==
  ASSUME AuthInv, NEW c \in Calls, UpdateWrite(c)
  PROVE  AuthInv'
<1>. DEFINE q == call[c]
            u == q.user
            e == q.email
            proving == account[u].verified \/ \E d \in Calls : At(d, "verify_commit") /\ call[d].user = u
            row == [account[u] EXCEPT !.email = e]
<1>. Shapes /\ UniqueEmails /\ Known /\ ProofInHand /\ VerifiedAddressWasProven
  BY DEF AuthInv
<1>1. /\ At(c, "update_write") /\ ~At(c, "idle") /\ ~At(c, "change_bump") /\ Become(c, Idle)
      /\ UNCHANGED <<reset, verify, revoked, mailed, issued, now, left, torn, proof, exchanged>>
  BY DEF UpdateWrite, At, Finish
<1>2. u \in Users /\ account[u].state # "none" /\ FitRow(q)
  BY <1>1, RowOf DEF At
<1>3. account[u] \in Account
  BY <1>2, RowExists
<1>4. e \in Emails
  BY <1>1, <1>2 DEF FitRow, At
<1>5. CASE \E v \in Users \ {u} : account[v].email = e
  <2>1. UNCHANGED <<account, moved>>
    BY <1>5 DEF UpdateWrite
  <2>. QED
    BY <1>1, <2>1, FinishStep DEF rows, history, Finish
<1>6. CASE ~ \E v \in Users \ {u} : account[v].email = e
  <2>1. /\ account' = [account EXCEPT ![u] = row]
        /\ moved' = moved \cup {v \in {u} : account[v].email # e /\ proving}
    BY <1>6 DEF UpdateWrite
  <2>2. moved \subseteq moved' /\ (account[u].email # e /\ proving => u \in moved')
    BY <2>1
  <2>. HIDE DEF proving
  <2>3. /\ row \in Account /\ row.state = account[u].state
        /\ row.password = account[u].password /\ row.email = e
        /\ row.version = account[u].version /\ row.verified = account[u].verified
    BY <1>3, <1>4 DEF Account
  <2>. HIDE DEF row
  <2>4. TokenTypesOK' /\ proof' \in [Users -> Emails \cup {None}]
    BY <1>1 DEF Shapes, TokenTypesOK
  <2>5. /\ Shapes' /\ UniqueEmails' /\ Known'
        /\ CredibleCalls' /\ CredibleSessions' /\ BumpWrote'
        /\ RevokedStays' /\ ExchangedTokenIsDead'
        /\ OthersStay(c) /\ call'[c] = Idle
        /\ account'[u] = row
        /\ \A v \in Users : v # u => account'[v] = account[v]
    <3>1. \A v \in Users \ {u} : account[v].email # row.email
      BY <1>6, <2>3
    <3>2. row.email \in Emails /\ row.state # "none"
      BY <1>2, <1>4, <2>3
    <3>. HIDE DEF e
    <3>. QED
      BY <1>1, <2>1, <2>3, <2>4, <3>1, <3>2, AddressWrite
  <2>6. ProofInHand'
    <3>. SUFFICES ASSUME NEW d \in Calls, call'[d].pc = "verify_commit",
                         call'[d].user \notin moved'
                  PROVE  call'[d].token.email = account'[call'[d].user].email
      BY DEF ProofInHand, At
    <3>1. d # c
      BY <2>5, IdleFits
    <3>2. /\ call[d].pc = "verify_commit" /\ call'[d].user = call[d].user
          /\ call'[d].token = call[d].token
      BY <2>5, <3>1 DEF OthersStay
    <3>3. /\ call[d].user \in Users
          /\ call[d].token.email = account[call[d].user].email
      BY <2>2, <3>2, RowOf DEF ProofInHand, At
    <3>4. CASE call[d].user = u
      <4>1. proving
        BY <3>2, <3>4 DEF proving, At
      <4>. QED
        BY <2>2, <2>3, <2>5, <3>2, <3>3, <3>4, <4>1
    <3>5. CASE call[d].user # u
      BY <2>5, <3>2, <3>3, <3>5
    <3>. QED
      BY <3>4, <3>5
  <2>7. VerifiedAddressWasProven'
    <3>. SUFFICES ASSUME NEW v \in Users, account'[v].verified, v \notin moved'
                  PROVE  proof'[v] = account'[v].email
      BY DEF VerifiedAddressWasProven
    <3>1. CASE v = u
      <4>1. account[u].verified /\ proof[u] = account[u].email
        BY <1>2, <2>2, <2>3, <2>5, <3>1 DEF VerifiedAddressWasProven
      <4>2. account[u].email = e
        BY <2>2, <3>1, <4>1 DEF proving
      <4>. QED
        BY <1>1, <2>3, <2>5, <3>1, <4>1, <4>2
    <3>2. CASE v # u
      BY <1>1, <2>2, <2>5, <3>2 DEF VerifiedAddressWasProven
    <3>. QED
      BY <3>1, <3>2
  <2>. QED
    BY <2>5, <2>6, <2>7 DEF AuthInv
<1>. QED
  BY <1>5, <1>6

-----------------------------------------------------------------------------
(* A pair is handed out                                                    *)

(* The rows of StoreRefreshToken: the caller ends, and who had revoked the *)
(* token that is stored again is told.                                     *)
LEMMA StoreRows ==
  ASSUME AuthInv, NEW c \in Calls, StoreRefreshToken(c)
  PROVE  /\ call' \in [Calls -> CallRow]
         /\ \A d \in Calls : FitRow(call'[d])
         /\ call'[c] = Idle
         /\ OthersStay(c)
         /\ \A d \in Calls \ {c} : call'[d].revoked => call[d].token # call[c].minted
<1>1. call'[c] = Idle
  BY DEF StoreRefreshToken
<1>2. ASSUME NEW d \in Calls \ {c}
      PROVE  /\ call'[d] \in CallRow /\ FitRow(call'[d])
             /\ call'[d].pc = call[d].pc /\ call'[d].op = call[d].op
             /\ call'[d].user = call[d].user /\ call'[d].pw = call[d].pw
             /\ call'[d].version = call[d].version /\ call'[d].token = call[d].token
             /\ call'[d].replay = call[d].replay /\ call'[d].over = call[d].over
             /\ call'[d].revoked => call[d].revoked
             /\ call'[d].revoked => call[d].token # call[c].minted
  <2>1. FitRow(call[d]) /\ call[d] \in CallRow
    BY DEF AuthInv, Shapes
  <2>. DEFINE kept == call[d].revoked /\ call[d].token # call[c].minted
  <2>2. call'[d] = [call[d] EXCEPT !.revoked = kept]
    BY DEF StoreRefreshToken
  <2>3. kept \in BOOLEAN
    BY <2>1 DEF CallRow
  <2>4. kept => call[d].revoked /\ call[d].token # call[c].minted
    OBVIOUS
  <2>. HIDE DEF kept
  <2>5. /\ call'[d] \in CallRow /\ call'[d].revoked = kept
        /\ call'[d].pc = call[d].pc /\ call'[d].op = call[d].op
        /\ call'[d].user = call[d].user /\ call'[d].pw = call[d].pw
        /\ call'[d].version = call[d].version /\ call'[d].token = call[d].token
        /\ call'[d].replay = call[d].replay /\ call'[d].over = call[d].over
        /\ call'[d].email = call[d].email /\ call'[d].minted = call[d].minted
    BY <2>1, <2>2, <2>3 DEF CallRow
  <2>6. FitRow(call'[d])
    BY <2>1, <2>4, <2>5 DEF FitRow
  <2>. QED
    BY <2>4, <2>5, <2>6
<1>3. call' \in [Calls -> CallRow]
  <2>1. \A d \in Calls : call'[d] \in CallRow
    BY <1>1, <1>2, IdleFits DEF FitRow
  <2>2. call' = [d \in Calls |-> call'[d]]
    BY DEF StoreRefreshToken
  <2>. QED
    BY <2>1, <2>2
<1>4. \A d \in Calls : FitRow(call'[d])
  BY <1>1, <1>2, IdleFits
<1>5. OthersStay(c)
  BY <1>2 DEF OthersStay
<1>. QED
  BY <1>1, <1>2, <1>3, <1>4, <1>5

LEMMA StoreRefreshTokenStep ==
  ASSUME AuthInv, NEW c \in Calls, StoreRefreshToken(c)
  PROVE  AuthInv'
<1>. DEFINE q == call[c]
            pair == [token |-> q.minted, pw |-> q.pw, over |-> q.over]
<1>. Shapes /\ UniqueEmails
  BY DEF AuthInv
<1>1. /\ q.pc = "store" /\ issued' = issued \cup {pair}
      /\ exchanged' = (exchanged \cup {t \in {q.token} : q.revoked}) \ {q.minted}
      /\ \/ revoked' = revoked \ {q.minted} /\ UNCHANGED left
         \/ Spend("error") /\ UNCHANGED revoked
      /\ UNCHANGED <<account, reset, verify, mailed, now, torn, proof, moved>>
  BY DEF StoreRefreshToken, At
<1>2. /\ FitRow(q) /\ q \in CallRow /\ q.user \in Users /\ account[q.user].state # "none"
      /\ Credible(q.user, HeldVersion(q), q.pw, q.over)
      /\ (q.revoked => q.token \in revoked)
  BY <1>1, RowOf DEF Holding
<1>3. /\ q.minted \in Token /\ q.minted.user = q.user /\ q.minted.version = q.version
      /\ q.pw \in Passwords /\ q.over \in BOOLEAN /\ q.version \in Nat
      /\ (q.revoked => q.token \in Token)
  BY <1>1, <1>2 DEF FitRow, CallRow
<1>4. pair \in Session /\ pair.token = q.minted /\ pair.pw = q.pw /\ pair.over = q.over
  BY <1>3 DEF Session
<1>. HIDE DEF pair
<1>5. /\ call' \in [Calls -> CallRow] /\ \A d \in Calls : FitRow(call'[d])
      /\ call'[c] = Idle /\ OthersStay(c)
      /\ \A d \in Calls \ {c} : call'[d].revoked => call[d].token # q.minted
  BY StoreRows
<1>6. Shapes'
  <2>1. AccountTypes' /\ proof' \in [Users -> Emails \cup {None}]
    BY <1>1 DEF Shapes, AccountTypes
  <2>2. left' \in [Kinds -> Nat]
    BY <1>1, SpendKeeps DEF Shapes, Kinds
  <2>3. TokenTypesOK'
    BY <1>1, <1>3, <1>4 DEF Shapes, TokenTypesOK
  <2>. QED
    BY <1>5, <2>1, <2>2, <2>3 DEF Shapes
<1>7. UniqueEmails'
  BY <1>1 DEF UniqueEmails
<1>8. Known'
  BY <1>1, <1>2, <1>3, <1>4, <1>5, IdleFits, KnownStep DEF RowsStay
<1>9. VersionsGrow(c) /\ BumpLeavesTrace(c)
  BY <1>1 DEF VersionsGrow, BumpLeavesTrace, At, Shapes, AccountTypes, Account
<1>10. CredibleNext(pair.token.user, pair.token.version, pair.pw, pair.over)
  <2>1. HeldVersion(q) = q.version
    BY <1>1 DEF HeldVersion
  <2>2. Credible(q.user, q.version, q.pw, q.over)
    BY <1>2, <2>1
  <2>3. torn \subseteq torn'
    BY <1>1
  <2>4. CredibleNext(q.user, q.version, q.pw, q.over)
    BY <1>2, <1>3, <1>5, <1>6, <1>9, <2>2, <2>3, CredibleKept
  <2>. QED
    BY <1>3, <1>4, <2>4
<1>11. CredibleCalls' /\ CredibleSessions' /\ BumpWrote'
  <2>1. \A s \in issued' \ issued :
          CredibleNext(s.token.user, s.token.version, s.pw, s.over)
    BY <1>1, <1>10
  <2>2. ~Holding(call'[c]) /\ ~At(c, "change_bump")'
    BY <1>5, IdleFits DEF At
  <2>3. torn \subseteq torn'
    BY <1>1
  <2>. QED
    BY <1>5, <1>6, <1>9, <2>1, <2>2, <2>3, CredibleStep
<1>12. RevokedStays'
  <2>1. exchanged' \subseteq revoked'
    BY <1>1, <1>2 DEF AuthInv, RevokedStays
  <2>2. \A d \in Calls : call'[d].revoked => call'[d].token \in revoked'
    <3>. SUFFICES ASSUME NEW d \in Calls, call'[d].revoked
                  PROVE  call'[d].token \in revoked'
      OBVIOUS
    <3>1. d # c
      BY <1>5, IdleFits
    <3>2. call[d].revoked /\ call'[d].token = call[d].token /\ call[d].token # q.minted
      BY <1>5, <3>1 DEF OthersStay
    <3>. QED
      BY <1>1, <3>2, RowOf
  <2>. QED
    BY <2>1, <2>2 DEF RevokedStays
<1>13. ExchangedTokenIsDead'
  BY <1>5, IdleFits DEF AuthInv, ExchangedTokenIsDead, OthersStay
<1>14. ProofInHand' /\ VerifiedAddressWasProven'
  <2>1. call'[c].pc # "verify_commit"
    BY <1>5, IdleFits
  <2>. QED
    BY <1>1, <1>5, <2>1, AddressStep
<1>. QED
  BY <1>6, <1>7, <1>8, <1>11, <1>12, <1>13, <1>14 DEF AuthInv

-----------------------------------------------------------------------------
(* The theorems about auth-service                                         *)

LEMMA InitAuthInv == Init => AuthInv
<1>. SUFFICES ASSUME Init PROVE AuthInv
  OBVIOUS
<1>. DEFINE t == Sign("refresh", Owner, FirstEmail, 0)
            s == [token |-> t, pw |-> FirstPassword, over |-> FALSE]
<1>1. /\ account = [u \in Users |->
           IF u = Owner THEN NewAccount(FirstEmail, FirstPassword) ELSE NoAccount]
      /\ issued = {s} /\ call = [c \in Calls |-> Idle] /\ now = 0
  BY DEF Init
<1>2. /\ NewAccount(FirstEmail, FirstPassword) \in Account
      /\ NewAccount(FirstEmail, FirstPassword).state = "active"
      /\ NewAccount(FirstEmail, FirstPassword).email = FirstEmail
      /\ NewAccount(FirstEmail, FirstPassword).password = FirstPassword
      /\ NewAccount(FirstEmail, FirstPassword).version = 0
      /\ NewAccount(FirstEmail, FirstPassword).verified = FALSE
      /\ NoAccount \in Account /\ NoAccount.state = "none" /\ NoAccount.email = None
      /\ NoAccount.verified = FALSE
  BY AuthAssumption DEF NewAccount, NoAccount, Account
<1>3. /\ t \in Token /\ t.user = Owner /\ t.version = 0
  BY <1>1, AuthAssumption DEF Sign, Token, TokenTypes
<1>. HIDE DEF t
<1>4. s \in Session /\ s.token = t /\ s.pw = FirstPassword
  BY <1>3, AuthAssumption DEF Session
<1>. HIDE DEF s
<1>5. account[Owner] = NewAccount(FirstEmail, FirstPassword)
  BY <1>1, AuthAssumption
<1>6. AccountTypes /\ UniqueEmails
  BY <1>1, <1>2, AuthAssumption DEF AccountTypes, UniqueEmails
<1>7. \A c \in Calls : call[c] = Idle
  BY <1>1
<1>8. Shapes
  <2>1. call \in [Calls -> CallRow] /\ \A c \in Calls : FitRow(call[c])
    BY <1>1, <1>7, IdleFits DEF FitRow
  <2>2. TokenTypesOK
    BY <1>1, <1>4, AuthAssumption DEF TokenTypesOK, Init
  <2>3. left \in [Kinds -> Nat] /\ proof \in [Users -> Emails \cup {None}]
    BY AuthAssumption DEF Init
  <2>. QED
    BY <1>6, <2>1, <2>2, <2>3 DEF Shapes
<1>9. Known
  BY <1>1, <1>2, <1>3, <1>4, <1>5, <1>7, IdleFits DEF Known, At
<1>10. CredibleCalls /\ BumpWrote /\ ProofInHand /\ ExchangedTokenIsDead
  BY <1>7, IdleFits DEF CredibleCalls, BumpWrote, ProofInHand, ExchangedTokenIsDead, At
<1>11. CredibleSessions
  BY <1>1, <1>2, <1>3, <1>4, <1>5 DEF CredibleSessions, Credible
<1>12. RevokedStays
  BY <1>7, IdleFits DEF RevokedStays, Init
<1>13. VerifiedAddressWasProven
  BY <1>1, <1>2 DEF VerifiedAddressWasProven
<1>. QED
  BY <1>6, <1>8, <1>9, <1>10, <1>11, <1>12, <1>13 DEF AuthInv

LEMMA AuthInvStep == AuthInv /\ [Next]_vars => AuthInv'
<1>. SUFFICES ASSUME AuthInv, [Next]_vars PROVE AuthInv'
  OBVIOUS
<1>1. ASSUME NEW c \in Calls, CallStep(c) PROVE AuthInv'
  BY <1>1, MintStep, StoreRefreshTokenStep, RefreshLoadStep, RefreshRevokeStep, ChangeReadStep,
     ChangeWriteStep, ChangeBumpStep, ForgotStoreStep, ResetCommitStep, RevokeAllSessionsStep,
     VerificationStoreStep, VerifyCommitStep, UpdateWriteStep, DeleteWriteStep DEF CallStep
<1>2. ASSUME NEW c \in Calls, Request(c) PROVE AuthInv'
  BY <1>2, LoginStep, ForgotPasswordStep, ResendVerificationStep, DeleteUserStep,
     RefreshCheckStep, RequestRevokeAllStep, RequestChangePasswordStep, ResetReadStep,
     VerifyEmailStep, UpdateUserStep, RegisterStep DEF Request
<1>3. ASSUME NEW c \in Calls, Die(c) PROVE AuthInv'
  BY <1>3, DieStep
<1>4. ASSUME NEW s \in issued, Logout(s) PROVE AuthInv'
  BY <1>4, LogoutStep
<1>5. ASSUME NEW u \in Users, NEW e \in Emails, NEW p \in Passwords, CreateUser(u, e, p)
      PROVE  AuthInv'
  BY <1>5, CreateUserStep
<1>6. CASE Tick
  BY <1>6, TickStep
<1>7. CASE Rest \/ UNCHANGED vars
  BY <1>7, RestStep DEF Rest
<1>. QED
  BY <1>1, <1>2, <1>3, <1>4, <1>5, <1>6, <1>7 DEF Next

(* The inductive invariant of auth-service.                                *)
THEOREM AuthInvHolds == Spec => []AuthInv
BY InitAuthInv, AuthInvStep, PTL DEF Spec

(* Every variable of auth-service keeps its type, a row names the account  *)
(* it belongs to, and no two accounts share an address, whatever calls of  *)
(* auth.service.ts interleave.                                             *)
THEOREM AccountTypesHold == Spec => []TypeOK
<1>1. AuthInv => TypeOK
  BY DEF AuthInv, Shapes, FitRow, CallRow, At, TypeOK
<1>. QED
  BY <1>1, AuthInvHolds, PTL

(* No session is accepted whose password was replaced (changePassword,     *)
(* resetPassword), but for a change that died half way and a session a     *)
(* change handed out after its own password was overwritten.               *)
THEOREM SessionNeedsCurrentPasswordHolds == Spec => []SessionNeedsCurrentPassword
<1>1. AuthInv => SessionNeedsCurrentPassword
  <2>. SUFFICES ASSUME AuthInv, NEW s \in issued, Accepted(s)
       PROVE  \/ s.pw = account[s.token.user].password
              \/ \E c \in Calls : At(c, "change_bump") /\ call[c].user = s.token.user
              \/ s.token.user \in torn
              \/ s.over
    BY DEF SessionNeedsCurrentPassword
  <2>1. s.token \in Token /\ Credible(s.token.user, s.token.version, s.pw, s.over)
    BY IssuedSession
  <2>2. As("access", s).user = s.token.user /\ As("access", s).version = s.token.version
    BY <2>1 DEF As, Token
  <2>3. account[s.token.user].version = s.token.version
    BY <2>2 DEF Accepted, LoadActiveUser
  <2>. QED
    BY <2>1, <2>3 DEF Credible, BumpPending
<1>. QED
  BY <1>1, AuthInvHolds, PTL

(* refreshToken never answers twice for one token, unless the table of     *)
(* revoked tokens could not be read or written.                            *)
THEOREM ExchangedTokenIsDeadHolds == Spec => []ExchangedTokenIsDead
<1>1. AuthInv => ExchangedTokenIsDead
  BY DEF AuthInv
<1>. QED
  BY <1>1, AuthInvHolds, PTL

(* A verified address was proven by a token mailed to it (verifyEmail), or *)
(* was written by updateUser after that.                                   *)
THEOREM VerifiedAddressWasProvenHolds == Spec => []VerifiedAddressWasProven
<1>1. AuthInv => VerifiedAddressWasProven
  BY DEF AuthInv
<1>. QED
  BY <1>1, AuthInvHolds, PTL

-----------------------------------------------------------------------------
(* notification-service: the invariant                                     *)

(* An entry whose mail was tried is on the list: it is persisted next.     *)
DeliveryRow ==
  {q \in [pc: {"unused", "queued", "send", "persist", "done"}, type: Types,
          audience: Seq(Recipients), list: Seq(Recipients), next: Nat,
          status: {"sent", "failed", "skipped"}] :
     /\ q.next \in 1..(Len(q.list) + 1)
     /\ q.pc = "persist" => q.next <= Len(q.list)}

MailShapes ==
  /\ notifications \in Seq(Row)
  /\ delivery \in [Deliveries -> DeliveryRow]
  /\ work \in [WorkKinds -> Nat]
  /\ legacy \in Nat /\ legacy <= Len(notifications)
  /\ attempts \in [Deliveries -> Nat]
  /\ mails \in [Deliveries -> [Recipients -> Nat]]

(* The places of r on the list that have not had their turn.               *)
ToCome(q, r) ==
  {i \in DOMAIN q.list : q.list[i] = r /\ (i > q.next \/ (i = q.next /\ q.pc # "persist"))}

(* The mails that were sent and those the list still has do not exceed the *)
(* share of the attempts.                                                  *)
DueOf(d, r) ==
  mails[d][r] + Cardinality(ToCome(delivery[d], r))
    <= attempts[d] * Share(delivery[d].audience, r)

MailsDue ==
  \A d \in Deliveries, r \in Recipients :
    /\ DueOf(d, r)
    /\ delivery[d].pc = "unused" => mails[d][r] = 0

(* Only a row of a type that has a token can show one.                     *)
SecretsHaveTypes ==
  \A i \in DOMAIN notifications :
    notifications[i].body = "secret" =>
      notifications[i].type \in SecretTypes /\ i <= legacy /\ ~clean

MailInv ==
  /\ MailShapes
  /\ MailsDue
  /\ SecretsHaveTypes

-----------------------------------------------------------------------------
(* Counting the places of a recipient                                      *)

LEMMA PlacesFinite ==
  ASSUME NEW q \in Seq(Recipients), NEW S \in SUBSET DOMAIN q
  PROVE  IsFiniteSet(S) /\ Cardinality(S) \in Nat
<1>1. Len(q) \in Nat /\ DOMAIN q = 1..Len(q)
  OBVIOUS
<1>2. IsFiniteSet(1..Len(q))
  BY <1>1, FS_Interval
<1>3. IsFiniteSet(S)
  BY <1>1, <1>2, FS_Subset
<1>. QED
  BY <1>3, FS_CardinalityType

LEMMA RestCounts ==
  ASSUME NEW q \in DeliveryRow, NEW r
  PROVE  IsFiniteSet(ToCome(q, r)) /\ Cardinality(ToCome(q, r)) \in Nat
<1>1. q.list \in Seq(Recipients) /\ ToCome(q, r) \in SUBSET DOMAIN q.list
  BY DEF DeliveryRow, ToCome
<1>. QED
  BY <1>1, PlacesFinite

LEMMA ShareCounts ==
  ASSUME NEW audience \in Seq(Recipients), NEW r
  PROVE  Share(audience, r) \in Nat
<1>1. {i \in DOMAIN audience : audience[i] = r} \in SUBSET DOMAIN audience
  OBVIOUS
<1>2. Occurrences(audience, r) \in Nat
  BY <1>1, PlacesFinite DEF Occurrences
<1>. QED
  BY <1>2 DEF Share

LEMMA Multiples ==
  ASSUME NEW a \in Nat, NEW k \in Nat
  PROVE  a * k \in Nat /\ (a + 1) * k = a * k + k
OBVIOUS

(* The numbers of MailsDue are natural.                                    *)
LEMMA DueCounts ==
  ASSUME MailShapes, NEW d \in Deliveries, NEW r \in Recipients
  PROVE  /\ mails[d][r] \in Nat /\ attempts[d] \in Nat
         /\ delivery[d] \in DeliveryRow
         /\ Cardinality(ToCome(delivery[d], r)) \in Nat
         /\ Share(delivery[d].audience, r) \in Nat
         /\ attempts[d] * Share(delivery[d].audience, r) \in Nat
<1>1. mails[d][r] \in Nat /\ attempts[d] \in Nat /\ delivery[d] \in DeliveryRow
  BY DEF MailShapes
<1>2. delivery[d].audience \in Seq(Recipients)
  BY <1>1 DEF DeliveryRow
<1>3. Share(delivery[d].audience, r) \in Nat
  BY <1>2, ShareCounts
<1>. QED
  BY <1>1, <1>3, RestCounts, Multiples

(* A delivery that has fewer places left keeps what is due.                *)
LEMMA DueKept ==
  ASSUME MailInv, NEW d \in Deliveries, NEW x \in Recipients, NEW q \in DeliveryRow,
         ToCome(q, x) \subseteq ToCome(delivery[d], x),
         q.audience = delivery[d].audience \/ (delivery[d].pc = "unused" /\ q.list = <<>>)
  PROVE  mails[d][x] + Cardinality(ToCome(q, x)) <= attempts[d] * Share(q.audience, x)
<1>0. MailShapes /\ DueOf(d, x) /\ (delivery[d].pc = "unused" => mails[d][x] = 0)
  BY DEF MailInv, MailsDue
<1>1. /\ mails[d][x] \in Nat /\ attempts[d] \in Nat /\ delivery[d] \in DeliveryRow
      /\ Cardinality(ToCome(delivery[d], x)) \in Nat
      /\ attempts[d] * Share(delivery[d].audience, x) \in Nat
  BY <1>0, DueCounts
<1>2. IsFiniteSet(ToCome(delivery[d], x)) /\ Cardinality(ToCome(q, x)) \in Nat
  BY <1>1, RestCounts
<1>3. Cardinality(ToCome(q, x)) <= Cardinality(ToCome(delivery[d], x))
  BY <1>2, FS_Subset
<1>4. CASE q.audience = delivery[d].audience
  BY <1>0, <1>1, <1>2, <1>3, <1>4 DEF DueOf
<1>5. CASE delivery[d].pc = "unused" /\ q.list = <<>>
  <2>1. ToCome(q, x) = {}
    BY <1>5 DEF ToCome
  <2>2. Cardinality(ToCome(q, x)) = 0
    BY <2>1, FS_EmptySet
  <2>3. q.audience \in Seq(Recipients)
    BY DEF DeliveryRow
  <2>4. attempts[d] * Share(q.audience, x) \in Nat
    BY <1>1, <2>3, ShareCounts, Multiples
  <2>. QED
    BY <1>0, <1>5, <2>2, <2>4
<1>. QED
  BY <1>4, <1>5

-----------------------------------------------------------------------------
(* The start, and steps of one delivery                                    *)

LEMMA UnusedRow ==
  Unused \in DeliveryRow /\ \A r : ToCome(Unused, r) = {}
BY DEF Unused, DeliveryRow, Types, EventTypes, SecretTypes, ToCome

LEMMA InitMailInv == InitNotifications => MailInv
<1>. SUFFICES ASSUME InitNotifications PROVE MailInv
  OBVIOUS
<1>1. notifications \in Seq(Row) /\ legacy \in Nat /\ legacy <= Len(notifications)
  BY NotificationAssumption DEF InitNotifications
<1>2. MailShapes
  BY <1>1, NotificationAssumption, UnusedRow DEF InitNotifications, MailShapes
<1>3. MailsDue
  <2>. SUFFICES ASSUME NEW d \in Deliveries, NEW r \in Recipients
       PROVE  DueOf(d, r) /\ mails[d][r] = 0
    BY DEF MailsDue
  <2>1. mails[d][r] = 0 /\ delivery[d] = Unused
    BY DEF InitNotifications
  <2>2. Cardinality(ToCome(delivery[d], r)) = 0
    BY <2>1, UnusedRow, FS_EmptySet
  <2>3. attempts[d] * Share(delivery[d].audience, r) \in Nat
    BY <1>2, DueCounts
  <2>. QED
    BY <2>1, <2>2, <2>3 DEF DueOf
<1>4. SecretsHaveTypes
  BY <1>1, NotificationAssumption DEF InitNotifications, SecretsHaveTypes
<1>. QED
  BY <1>2, <1>3, <1>4 DEF MailInv

(* A delivery at another place of a list.                                  *)
Moved(q, pc, list, next) == [q EXCEPT !.pc = pc, !.list = list, !.next = next]

LEMMA MovedRow ==
  ASSUME NEW q \in DeliveryRow, NEW pc \in {"queued", "send", "persist", "done"},
         NEW list \in Seq(Recipients), NEW next \in Nat, next \in 1..(Len(list) + 1),
         pc = "persist" => next <= Len(list)
  PROVE  /\ Moved(q, pc, list, next) \in DeliveryRow
         /\ Moved(q, pc, list, next).pc = pc
         /\ Moved(q, pc, list, next).list = list
         /\ Moved(q, pc, list, next).next = next
         /\ Moved(q, pc, list, next).audience = q.audience
<1>. DEFINE n == Moved(q, pc, list, next)
<1>1. q \in [pc: {"unused", "queued", "send", "persist", "done"}, type: Types,
             audience: Seq(Recipients), list: Seq(Recipients), next: Nat,
             status: {"sent", "failed", "skipped"}]
  BY DEF DeliveryRow
<1>2. /\ n.pc = pc /\ n.list = list /\ n.next = next /\ n.audience = q.audience
      /\ n \in [pc: {"unused", "queued", "send", "persist", "done"}, type: Types,
                audience: Seq(Recipients), list: Seq(Recipients), next: Nat,
                status: {"sent", "failed", "skipped"}]
  BY <1>1 DEF Moved
<1>. HIDE DEF n
<1>3. n \in DeliveryRow
  BY <1>2 DEF DeliveryRow
<1>. QED
  BY <1>2, <1>3 DEF n

LEMMA PayKeeps ==
  ASSUME work \in [WorkKinds -> Nat], NEW kind \in WorkKinds, Pay(kind)
  PROVE  work' \in [WorkKinds -> Nat]
<1>1. work[kind] \in Nat /\ work[kind] > 0 /\ work' = [work EXCEPT ![kind] = work[kind] - 1]
  BY DEF Pay
<1>2. work[kind] - 1 \in Nat
  BY <1>1
<1>. QED
  BY <1>1, <1>2

(* A step of one delivery.                                                 *)
LEMMA PutKeeps ==
  ASSUME MailInv, NEW d \in Deliveries, NEW r \in DeliveryRow, PutDelivery(d, r)
  PROVE  /\ delivery' \in [Deliveries -> DeliveryRow]
         /\ delivery'[d] = r
         /\ \A c \in Deliveries : c # d => delivery'[c] = delivery[c]
<1>1. delivery \in [Deliveries -> DeliveryRow] /\ delivery' = [delivery EXCEPT ![d] = r]
  BY DEF MailInv, MailShapes, PutDelivery
<1>. QED
  BY <1>1

(* A delivery that mails nobody more than before and writes no row.        *)
LEMMA DeliveryStep ==
  ASSUME MailInv, NEW d \in Deliveries, NEW q \in DeliveryRow, PutDelivery(d, q),
         \A x \in Recipients : ToCome(q, x) \subseteq ToCome(delivery[d], x),
         q.audience = delivery[d].audience \/ (delivery[d].pc = "unused" /\ q.list = <<>>),
         q.pc # "unused", work' \in [WorkKinds -> Nat],
         UNCHANGED <<notifications, legacy, clean, attempts, mails>>
  PROVE  MailInv'
<1>1. /\ delivery' \in [Deliveries -> DeliveryRow] /\ delivery'[d] = q
      /\ \A c \in Deliveries : c # d => delivery'[c] = delivery[c]
  BY PutKeeps
<1>2. MailShapes'
  BY <1>1 DEF MailInv, MailShapes
<1>3. MailsDue'
  <2>. SUFFICES ASSUME NEW c \in Deliveries, NEW x \in Recipients
       PROVE  /\ mails[c][x] + Cardinality(ToCome(delivery'[c], x))
                   <= attempts[c] * Share(delivery'[c].audience, x)
              /\ delivery'[c].pc = "unused" => mails[c][x] = 0
    BY DEF MailsDue, DueOf
  <2>1. CASE c = d
    BY <1>1, <2>1, DueKept
  <2>2. CASE c # d
    BY <1>1, <2>2 DEF MailInv, MailsDue, DueOf
  <2>. QED
    BY <2>1, <2>2
<1>4. SecretsHaveTypes'
  BY DEF MailInv, SecretsHaveTypes
<1>. QED
  BY <1>2, <1>3, <1>4 DEF MailInv

LEMMA EmitStep ==
  ASSUME MailInv, NEW d \in Deliveries, NEW type \in Emitted, NEW r \in Recipients,
         Emit(d, type, r)
  PROVE  MailInv'
<1>. DEFINE new == [Unused EXCEPT !.pc = "queued", !.type = type, !.audience = <<r>>]
<1>0. <<r>> \in Seq(Recipients) /\ type \in Types
  BY NotificationAssumption DEF Types
<1>1. new \in DeliveryRow /\ new.list = <<>> /\ new.pc # "unused"
  BY <1>0, UnusedRow DEF DeliveryRow, Unused
<1>. HIDE DEF new
<1>2. work' \in [WorkKinds -> Nat]
  BY PayKeeps DEF Emit, MailInv, MailShapes, WorkKinds
<1>3. \A x \in Recipients : ToCome(new, x) = {}
  BY <1>1 DEF ToCome
<1>4. delivery[d].pc = "unused"
  BY DEF Emit, FirstUnused, DeliveryAt
<1>. QED
  BY <1>1, <1>2, <1>3, <1>4, DeliveryStep DEF Emit, new

LEMMA BroadcastStep ==
  ASSUME MailInv, NEW d \in Deliveries, NEW audience \in Lists,
         BroadcastMarketing(d, audience)
  PROVE  MailInv'
<1>. DEFINE new == [Unused EXCEPT !.pc = "queued", !.type = "marketing_promotion",
              !.audience = audience]
<1>0. audience \in Seq(Recipients)
  BY NotificationAssumption DEF Lists
<1>1. new \in DeliveryRow /\ new.list = <<>> /\ new.pc # "unused"
  BY <1>0, UnusedRow DEF DeliveryRow, Unused, Types
<1>. HIDE DEF new
<1>2. work' \in [WorkKinds -> Nat]
  BY PayKeeps DEF BroadcastMarketing, MailInv, MailShapes, WorkKinds
<1>3. \A x \in Recipients : ToCome(new, x) = {}
  BY <1>1 DEF ToCome
<1>4. delivery[d].pc = "unused"
  BY DEF BroadcastMarketing, FirstUnused, DeliveryAt
<1>. QED
  BY <1>1, <1>2, <1>3, <1>4, DeliveryStep DEF BroadcastMarketing, new

(* A step that writes old rows again shows no more of them.                *)
LEMMA RewriteStep ==
  ASSUME MailInv, NEW table, notifications' = table,
         DOMAIN table = DOMAIN notifications,
         table = [i \in DOMAIN table |-> table[i]],
         \A i \in DOMAIN notifications :
           /\ table[i] \in Row
           /\ table[i].body = "secret" =>
                /\ notifications[i].body = "secret" /\ ~clean'
                /\ table[i].type = notifications[i].type,
         work' \in [WorkKinds -> Nat],
         UNCHANGED <<delivery, legacy, attempts, mails>>
  PROVE  MailInv'
<1>1. notifications \in Seq(Row)
  BY DEF MailInv, MailShapes
<1>2. table \in Seq(Row) /\ Len(table) = Len(notifications)
  <2>1. Len(notifications) \in Nat /\ DOMAIN notifications = 1..Len(notifications)
    BY <1>1
  <2>2. table \in [1..Len(notifications) -> Row]
    BY <2>1
  <2>. QED
    BY <2>1, <2>2
<1>3. MailShapes'
  BY <1>2 DEF MailInv, MailShapes
<1>4. MailsDue'
  BY DEF MailInv, MailsDue, DueOf
<1>5. SecretsHaveTypes'
  BY DEF MailInv, SecretsHaveTypes
<1>. QED
  BY <1>3, <1>4, <1>5 DEF MailInv

LEMMA MarkAsReadStep ==
  ASSUME MailInv, NEW u \in Readers, NEW i \in DOMAIN notifications, MarkAsRead(u, i)
  PROVE  MailInv'
<1>. DEFINE table == [notifications EXCEPT ![i].isRead = TRUE]
<1>1. notifications \in Seq(Row)
  BY DEF MailInv, MailShapes
<1>2. ASSUME NEW j \in DOMAIN notifications
      PROVE  /\ notifications[j] \in Row /\ table[j] \in Row
             /\ table[j].body = notifications[j].body /\ table[j].type = notifications[j].type
  <2>1. notifications[j] \in Row
    BY <1>1
  <2>2. \/ table[j] = [notifications[j] EXCEPT !.isRead = TRUE]
        \/ table[j] = notifications[j]
    OBVIOUS
  <2>. HIDE DEF table
  <2>. QED
    BY <2>1, <2>2 DEF Row
<1>3. \A j \in DOMAIN notifications : table[j].body = "secret" => ~clean'
  BY <1>2 DEF MailInv, SecretsHaveTypes, MarkAsRead
<1>4. work' \in [WorkKinds -> Nat]
  BY PayKeeps DEF MarkAsRead, MailInv, MailShapes, WorkKinds
<1>5. DOMAIN table = DOMAIN notifications /\ table = [j \in DOMAIN table |-> table[j]]
  OBVIOUS
<1>6. notifications' = table /\ UNCHANGED <<delivery, legacy, attempts, mails>>
  BY DEF MarkAsRead
<1>. HIDE DEF table
<1>. QED
  BY <1>2, <1>3, <1>4, <1>5, <1>6, RewriteStep

LEMMA MarkAllAsReadStep ==
  ASSUME MailInv, NEW u \in Readers, MarkAllAsRead(u)
  PROVE  MailInv'
<1>. DEFINE table == [i \in DOMAIN notifications |->
              [notifications[i] EXCEPT !.isRead = @ \/ notifications[i].to.user = u]]
<1>1. notifications \in Seq(Row)
  BY DEF MailInv, MailShapes
<1>2. ASSUME NEW j \in DOMAIN notifications
      PROVE  /\ table[j] \in Row /\ notifications[j] \in Row
             /\ table[j].body = notifications[j].body /\ table[j].type = notifications[j].type
  <2>. DEFINE read == notifications[j].isRead \/ notifications[j].to.user = u
  <2>1. notifications[j] \in Row /\ table[j] = [notifications[j] EXCEPT !.isRead = read]
    BY <1>1
  <2>2. read \in BOOLEAN
    BY <2>1 DEF Row
  <2>. HIDE DEF read, table
  <2>. QED
    BY <2>1, <2>2 DEF Row
<1>3. \A j \in DOMAIN notifications : table[j].body = "secret" => ~clean'
  BY <1>2 DEF MailInv, SecretsHaveTypes, MarkAllAsRead
<1>4. work' \in [WorkKinds -> Nat]
  BY PayKeeps DEF MarkAllAsRead, MailInv, MailShapes, WorkKinds
<1>5. DOMAIN table = DOMAIN notifications /\ table = [j \in DOMAIN table |-> table[j]]
  OBVIOUS
<1>6. notifications' = table /\ UNCHANGED <<delivery, legacy, attempts, mails>>
  BY DEF MarkAllAsRead
<1>. HIDE DEF table
<1>. QED
  BY <1>2, <1>3, <1>4, <1>5, <1>6, RewriteStep

LEMMA RedactRows ==
  ASSUME MailInv, NEW types
  PROVE  /\ DOMAIN Redact(types) = DOMAIN notifications
         /\ Redact(types) = [i \in DOMAIN Redact(types) |-> Redact(types)[i]]
         /\ \A i \in DOMAIN notifications :
              /\ Redact(types)[i] \in Row
              /\ Redact(types)[i].type = notifications[i].type
              /\ Redact(types)[i].body = "secret" =>
                   notifications[i].body = "secret" /\ notifications[i].type \notin types
<1>1. notifications \in Seq(Row)
  BY DEF MailInv, MailShapes
<1>2. ASSUME NEW i \in DOMAIN notifications
      PROVE  /\ Redact(types)[i] \in Row
             /\ Redact(types)[i].type = notifications[i].type
             /\ Redact(types)[i].body = "secret" =>
                  notifications[i].body = "secret" /\ notifications[i].type \notin types
  <2>1. notifications[i] \in Row
    BY <1>1
  <2>2. CASE notifications[i].type \in types
    <3>. DEFINE body == IF notifications[i].body = "secret" THEN "redacted"
                        ELSE notifications[i].body
    <3>1. Redact(types)[i] = [notifications[i] EXCEPT !.body = body]
      BY <2>2 DEF Redact
    <3>2. body \in {"redacted", "plain"}
      BY <2>1 DEF Row
    <3>. HIDE DEF body
    <3>. QED
      BY <2>1, <3>1, <3>2 DEF Row
  <2>3. CASE notifications[i].type \notin types
    BY <2>1, <2>3 DEF Redact
  <2>. QED
    BY <2>2, <2>3
<1>. QED
  BY <1>2 DEF Redact

(* A redaction that went through leaves no secret: every row with one has  *)
(* a type that is redacted.                                                *)
LEMMA StartUpStep == MailInv /\ StartUp => MailInv'
<1>. SUFFICES ASSUME MailInv, StartUp PROVE MailInv'
  OBVIOUS
<1>1. UNCHANGED <<delivery, legacy, attempts, mails>>
  BY DEF StartUp
<1>2. CASE notifications' = Redact(SecretTypes) /\ UNCHANGED work
  <2>1. \A i \in DOMAIN notifications : Redact(SecretTypes)[i].body # "secret"
    BY RedactRows DEF MailInv, SecretsHaveTypes
  <2>2. work' \in [WorkKinds -> Nat]
    BY <1>2 DEF MailInv, MailShapes
  <2>. QED
    BY <1>1, <1>2, <2>1, <2>2, RedactRows, RewriteStep
<1>3. CASE /\ Pay("error") /\ UNCHANGED clean
           /\ notifications' \in {notifications, Redact({"password_reset"})}
  <2>1. work' \in [WorkKinds -> Nat]
    BY <1>3, PayKeeps DEF MailInv, MailShapes, WorkKinds
  <2>2. \A i \in DOMAIN notifications : notifications[i].body = "secret" => ~clean'
    BY <1>3 DEF MailInv, SecretsHaveTypes
  <2>3. CASE notifications' = notifications
    <3>1. notifications \in Seq(Row)
      BY DEF MailInv, MailShapes
    <3>2. /\ notifications = [i \in DOMAIN notifications |-> notifications[i]]
          /\ \A i \in DOMAIN notifications : notifications[i] \in Row
      BY <3>1
    <3>. QED
      BY <1>1, <2>1, <2>2, <2>3, <3>2, RewriteStep
  <2>4. CASE notifications' = Redact({"password_reset"})
    BY <1>1, <2>1, <2>2, <2>4, RedactRows, RewriteStep
  <2>. QED
    BY <1>3, <2>3, <2>4
<1>. QED
  BY <1>2, <1>3 DEF StartUp

-----------------------------------------------------------------------------
(* The handlers of a delivery                                              *)

(* A list that is drawn from the table names nobody twice.                 *)
LEMMA KnownOnce ==
  ASSUME MailInv, NEW list \in KnownLists
  PROVE  /\ list \in Seq(Recipients)
         /\ \A r : Cardinality({i \in DOMAIN list : list[i] = r}) <= 1
<1>. DEFINE known == {notifications[i].to : i \in DOMAIN notifications}
            emails == {r.email : r \in known}
            n == Cardinality(emails)
<1>1. notifications \in Seq(Row)
  BY DEF MailInv, MailShapes
<1>2. IsFiniteSet(DOMAIN notifications)
  <2>1. Len(notifications) \in Nat /\ DOMAIN notifications = 1..Len(notifications)
    BY <1>1
  <2>. QED
    BY <2>1, FS_Interval
<1>3. IsFiniteSet(emails)
  <2>. DEFINE f == [i \in DOMAIN notifications |-> notifications[i].to.email]
  <2>1. f \in Surjection(DOMAIN notifications, emails)
    BY DEF Surjection
  <2>. QED
    BY <1>2, <2>1, FS_Surjection DEF ExistsSurjection
<1>4. emails = {r.email : r \in known}
  OBVIOUS
<1>5. n \in Nat
  BY <1>3, FS_CardinalityType
<1>6. known \subseteq Recipients
  <2>1. \A i \in DOMAIN notifications : notifications[i] \in Row
    BY <1>1
  <2>. QED
    BY <2>1 DEF Row
<1>7. list \in [1..n -> known] /\ \A i, j \in DOMAIN list :
        list[i].email = list[j].email => i = j
  BY DEF KnownLists
<1>. HIDE DEF n, known
<1>8. list \in Seq(Recipients)
  BY <1>5, <1>6, <1>7
<1>9. ASSUME NEW r PROVE Cardinality({i \in DOMAIN list : list[i] = r}) <= 1
  <2>. DEFINE S == {i \in DOMAIN list : list[i] = r}
  <2>1. \A i, j \in S : i = j
    BY <1>7
  <2>. HIDE DEF S
  <2>3. Cardinality(S) <= 1
    <3>1. CASE S = {}
      <4>1. Cardinality(S) = 0
        BY <3>1, FS_EmptySet
      <4>. QED
        BY <4>1
    <3>2. CASE S # {}
      <4>1. PICK i : S = {i}
        BY <2>1, <3>2
      <4>2. Cardinality({i}) = 1
        BY FS_Singleton
      <4>. QED
        BY <4>1, <4>2
    <3>. QED
      BY <3>1, <3>2
  <2>. QED
    BY <2>3 DEF S
<1>. QED
  BY <1>8, <1>9

(* The places of an attempt are the share of each recipient.               *)
LEMMA AttemptShare ==
  ASSUME MailInv, NEW d \in Deliveries, NEW x \in Recipients, NEW q \in DeliveryRow,
         q.next = 1, q.pc = "send",
         q.list \in IF q.audience = <<>> THEN KnownLists ELSE {q.audience}
  PROVE  Cardinality(ToCome(q, x)) <= Share(q.audience, x)
<1>1. q.list \in Seq(Recipients) /\ q.audience \in Seq(Recipients)
  BY DEF DeliveryRow
<1>2. DOMAIN q.list = 1..Len(q.list) /\ Len(q.list) \in Nat
  BY <1>1
<1>3. ToCome(q, x) = {i \in DOMAIN q.list : q.list[i] = x}
  BY <1>2 DEF ToCome
<1>4. CASE q.audience = <<>>
  BY <1>3, <1>4, KnownOnce DEF Share
<1>5. CASE q.audience # <<>>
  <2>1. q.list = q.audience
    BY <1>5
  <2>2. Cardinality(ToCome(q, x)) = Share(q.audience, x)
    BY <1>3, <1>5, <2>1 DEF Share, Occurrences
  <2>3. Share(q.audience, x) \in Nat
    BY <1>1, ShareCounts
  <2>. QED
    BY <2>2, <2>3
<1>. QED
  BY <1>4, <1>5

(* An attempt more, and with it a share more for everyone on the list.     *)
LEMMA TakeStep ==
  ASSUME MailInv, NEW d \in Deliveries, Take(d)
  PROVE  MailInv'
<1>1. PICK list \in IF delivery[d].audience = <<>> THEN KnownLists
                    ELSE {delivery[d].audience} :
        PutDelivery(d, [delivery[d] EXCEPT !.pc = "send", !.list = list, !.next = 1])
  BY DEF Take
<1>. DEFINE q == Moved(delivery[d], "send", list, 1)
<1>2. delivery[d] \in DeliveryRow
  BY DEF MailInv, MailShapes
<1>3. list \in Seq(Recipients)
  BY <1>1, <1>2, KnownOnce DEF DeliveryRow
<1>4. /\ q \in DeliveryRow /\ q.pc = "send" /\ q.next = 1 /\ q.list = list
      /\ q.audience = delivery[d].audience
  <2>1. Len(list) \in Nat /\ 1 \in 1..(Len(list) + 1)
    BY <1>3
  <2>. QED
    BY <1>2, <1>3, <2>1, MovedRow
<1>. HIDE DEF q
<1>5. /\ delivery' \in [Deliveries -> DeliveryRow] /\ delivery'[d] = q
      /\ \A c \in Deliveries : c # d => delivery'[c] = delivery[c]
  BY <1>1, <1>4, PutKeeps DEF q, Moved
<1>6. /\ attempts' \in [Deliveries -> Nat]
      /\ attempts'[d] = attempts[d] + 1
      /\ \A c \in Deliveries : c # d => attempts'[c] = attempts[c]
  BY DEF Take, MailInv, MailShapes
<1>7. UNCHANGED <<notifications, work, legacy, clean, mails>>
  BY DEF Take
<1>8. MailShapes'
  BY <1>5, <1>6, <1>7 DEF MailInv, MailShapes
<1>9. MailsDue'
  <2>. SUFFICES ASSUME NEW c \in Deliveries, NEW x \in Recipients
       PROVE  /\ mails[c][x] + Cardinality(ToCome(delivery'[c], x))
                   <= attempts'[c] * Share(delivery'[c].audience, x)
              /\ delivery'[c].pc = "unused" => mails[c][x] = 0
    BY <1>7 DEF MailsDue, DueOf
  <2>1. CASE c = d
    <3>1. /\ mails[d][x] \in Nat /\ attempts[d] \in Nat
          /\ Cardinality(ToCome(delivery[d], x)) \in Nat
          /\ Share(delivery[d].audience, x) \in Nat
          /\ attempts[d] * Share(delivery[d].audience, x) \in Nat
      BY DueCounts DEF MailInv
    <3>2. mails[d][x] <= attempts[d] * Share(delivery[d].audience, x)
      BY <3>1 DEF MailInv, MailsDue, DueOf
    <3>3. Cardinality(ToCome(q, x)) <= Share(delivery[d].audience, x)
      BY <1>1, <1>4, AttemptShare
    <3>4. Cardinality(ToCome(q, x)) \in Nat
      BY <1>4, RestCounts
    <3>5. (attempts[d] + 1) * Share(delivery[d].audience, x)
            = attempts[d] * Share(delivery[d].audience, x) + Share(delivery[d].audience, x)
      BY <3>1, Multiples
    <3>6. mails[d][x] + Cardinality(ToCome(q, x))
            <= (attempts[d] + 1) * Share(delivery[d].audience, x)
      BY <3>1, <3>2, <3>3, <3>4, <3>5
    <3>. QED
      BY <1>4, <1>5, <1>6, <2>1, <3>6
  <2>2. CASE c # d
    BY <1>5, <1>6, <2>2 DEF MailInv, MailsDue, DueOf
  <2>. QED
    BY <2>1, <2>2
<1>10. SecretsHaveTypes'
  BY <1>7 DEF MailInv, SecretsHaveTypes
<1>. QED
  BY <1>8, <1>9, <1>10 DEF MailInv

(* A mail that was sent takes the place of its entry.                      *)
LEMMA SendMailStep ==
  ASSUME MailInv, NEW d \in Deliveries, SendMail(d)
  PROVE  MailInv'
<1>. DEFINE q == delivery[d]
            r == Current(d)
            new(status) == [q EXCEPT !.pc = "persist", !.status = status]
<1>1. q \in DeliveryRow /\ q.pc = "send" /\ q.next <= Len(q.list)
  BY DEF MailInv, MailShapes, SendMail, DeliveryAt, Left
<1>2. UNCHANGED <<notifications, legacy, clean, attempts>>
  BY DEF SendMail
<1>3. q.next \in DOMAIN q.list /\ q.list[q.next] = r /\ r \in Recipients
  <2>1. q.list \in Seq(Recipients) /\ q.next \in 1..Len(q.list)
    BY <1>1 DEF DeliveryRow
  <2>2. q.next \in DOMAIN q.list /\ q.list[q.next] \in Recipients
    BY <2>1
  <2>. QED
    BY <2>2 DEF Current
<1>4. ASSUME NEW status \in {"sent", "failed", "skipped"}
      PROVE  /\ new(status) \in DeliveryRow /\ new(status).pc = "persist"
             /\ new(status).audience = q.audience
             /\ new(status).next = q.next /\ new(status).list = q.list
  BY <1>1 DEF DeliveryRow
<1>. HIDE DEF new
<1>5. ASSUME NEW status \in {"sent", "failed", "skipped"}, NEW x \in Recipients
      PROVE  /\ ToCome(new(status), x) \subseteq ToCome(q, x)
             /\ x = r => ToCome(new(status), x) = ToCome(q, x) \ {q.next} /\ q.next \in ToCome(q, x)
  <2>1. q.next \in Int /\ \A i \in DOMAIN q.list : i \in Int
    BY <1>1 DEF DeliveryRow
  <2>. QED
    BY <1>1, <1>3, <1>4, <2>1 DEF ToCome
<1>6. ASSUME NEW status \in {"failed", "skipped"}, PutDelivery(d, new(status)),
             UNCHANGED mails, Pay("error") \/ UNCHANGED work
      PROVE  MailInv'
  <2>1. work' \in [WorkKinds -> Nat]
    BY <1>6, PayKeeps DEF MailInv, MailShapes, WorkKinds
  <2>2. /\ new(status) \in DeliveryRow /\ new(status).pc # "unused"
        /\ new(status).audience = delivery[d].audience
        /\ \A x \in Recipients : ToCome(new(status), x) \subseteq ToCome(delivery[d], x)
    BY <1>4, <1>5
  <2>. QED
    BY <1>2, <1>6, <2>1, <2>2, DeliveryStep
<1>7. CASE /\ PutDelivery(d, new("sent")) /\ UNCHANGED work
           /\ mails' = [mails EXCEPT ![d][r] = @ + 1]
  <2>1. /\ delivery' \in [Deliveries -> DeliveryRow] /\ delivery'[d] = new("sent")
        /\ \A c \in Deliveries : c # d => delivery'[c] = delivery[c]
    BY <1>4, <1>7, PutKeeps
  <2>2. mails \in [Deliveries -> [Recipients -> Nat]]
    BY DEF MailInv, MailShapes
  <2>. HIDE DEF q, r
  <2>3. /\ mails' \in [Deliveries -> [Recipients -> Nat]]
        /\ mails'[d][r] = mails[d][r] + 1
        /\ \A x \in Recipients : x # r => mails'[d][x] = mails[d][x]
        /\ \A c \in Deliveries : c # d => mails'[c] = mails[c]
    BY <1>3, <1>7, <2>2
  <2>4. MailShapes'
    BY <1>2, <1>7, <2>1, <2>3 DEF MailInv, MailShapes
  <2>5. MailsDue'
    <3>. SUFFICES ASSUME NEW c \in Deliveries, NEW x \in Recipients
         PROVE  /\ mails'[c][x] + Cardinality(ToCome(delivery'[c], x))
                     <= attempts[c] * Share(delivery'[c].audience, x)
                /\ delivery'[c].pc = "unused" => mails'[c][x] = 0
      BY <1>2 DEF MailsDue, DueOf
    <3>1. CASE c = d /\ x = r
      <4>1. /\ IsFiniteSet(ToCome(q, r)) /\ Cardinality(ToCome(q, r)) \in Nat
        BY <1>1, RestCounts
      <4>2. Cardinality(ToCome(new("sent"), r)) = Cardinality(ToCome(q, r)) - 1
        BY <1>3, <1>5, <4>1, FS_RemoveElement
      <4>3. mails[d][r] + Cardinality(ToCome(q, r)) <= attempts[d] * Share(q.audience, r)
        BY <1>3 DEF MailInv, MailsDue, DueOf, q
      <4>4. mails[d][r] \in Nat /\ mails'[d][r] = mails[d][r] + 1
        BY <1>3, <2>2, <2>3
      <4>5. mails'[d][r] + Cardinality(ToCome(new("sent"), r))
              = mails[d][r] + Cardinality(ToCome(q, r))
        BY <4>1, <4>2, <4>4
      <4>. QED
        BY <1>4, <2>1, <3>1, <4>3, <4>5
    <3>2. CASE c = d /\ x # r
      <4>1. ToCome(new("sent"), x) \subseteq ToCome(delivery[d], x)
        BY <1>5 DEF q
      <4>2. /\ new("sent") \in DeliveryRow /\ new("sent").pc = "persist"
            /\ new("sent").audience = delivery[d].audience
        BY <1>4 DEF q
      <4>3. mails[d][x] + Cardinality(ToCome(new("sent"), x))
              <= attempts[d] * Share(new("sent").audience, x)
        BY <4>1, <4>2, DueKept
      <4>. QED
        BY <2>1, <2>3, <3>2, <4>2, <4>3
    <3>3. CASE c # d
      BY <2>1, <2>3, <3>3 DEF MailInv, MailsDue, DueOf
    <3>. QED
      BY <3>1, <3>2, <3>3
  <2>6. SecretsHaveTypes'
    BY <1>2 DEF MailInv, SecretsHaveTypes
  <2>. QED
    BY <2>4, <2>5, <2>6 DEF MailInv
<1>. QED
  BY <1>6, <1>7 DEF SendMail, new

(* The row that is inserted has had its token taken out.                   *)
LEMMA PersistStep ==
  ASSUME MailInv, NEW d \in Deliveries, Persist(d)
  PROVE  MailInv'
<1>. DEFINE q == delivery[d]
            new == Moved(q, "send", q.list, q.next + 1)
<1>1. q \in DeliveryRow /\ q.pc = "persist"
  BY DEF MailInv, MailShapes, Persist, DeliveryAt
<1>2. /\ q.next \in Nat /\ q.next \in 1..Len(q.list) /\ Len(q.list) \in Nat
      /\ q.list \in Seq(Recipients) /\ DOMAIN q.list = 1..Len(q.list)
  <2>1. q.list \in Seq(Recipients)
    BY <1>1 DEF DeliveryRow
  <2>. QED
    BY <1>1, <2>1 DEF DeliveryRow
<1>3. /\ new \in DeliveryRow /\ new.list = q.list /\ new.next = q.next + 1
      /\ new.pc = "send" /\ new.audience = q.audience
  <2>. DEFINE list == q.list
              next == q.next + 1
  <2>1. next \in Nat /\ next \in 1..(Len(list) + 1) /\ list \in Seq(Recipients)
    BY <1>2
  <2>. HIDE DEF q, list, next
  <2>2. /\ Moved(q, "send", list, next) \in DeliveryRow
        /\ Moved(q, "send", list, next).pc = "send"
        /\ Moved(q, "send", list, next).list = list
        /\ Moved(q, "send", list, next).next = next
        /\ Moved(q, "send", list, next).audience = q.audience
    BY ONLY <1>1, <2>1, MovedRow
  <2>. QED
    BY <2>2 DEF list, next
<1>5. PutDelivery(d, new) /\ UNCHANGED <<legacy, clean, attempts, mails>>
  <2>1. new = [q EXCEPT !.pc = "send", !.next = @ + 1]
    BY <1>1 DEF Moved, DeliveryRow
  <2>. QED
    BY <2>1 DEF Persist
<1>. HIDE DEF new
<1>4. \A x \in Recipients : ToCome(new, x) = ToCome(q, x)
  BY <1>1, <1>2, <1>3 DEF ToCome
<1>6. CASE Pay("error") /\ UNCHANGED notifications
  <2>1. work' \in [WorkKinds -> Nat]
    BY <1>6, PayKeeps DEF MailInv, MailShapes, WorkKinds
  <2>. QED
    BY <1>3, <1>4, <1>5, <1>6, <2>1, DeliveryStep
<1>7. CASE UNCHANGED work /\ Insert(d)
  <2>. DEFINE body == sanitizeBody(Text(q.type), q.type)
              row == [to |-> Current(d), type |-> q.type, status |-> q.status, body |-> body,
                      isRead |-> FALSE]
  <2>1. body \in {"redacted", "plain"}
    BY DEF sanitizeBody, Text
  <2>. HIDE DEF body
  <2>2. row \in Row /\ row.body # "secret"
    <3>1. Current(d) \in Recipients
      BY <1>2 DEF Current
    <3>. QED
      BY <1>1, <2>1, <3>1 DEF Row, DeliveryRow
  <2>3. notifications' = Append(notifications, row)
    BY <1>7 DEF Insert, body
  <2>. HIDE DEF row
  <2>4. /\ notifications \in Seq(Row) /\ legacy \in Nat /\ legacy <= Len(notifications)
    BY DEF MailInv, MailShapes
  <2>5. /\ notifications' \in Seq(Row) /\ Len(notifications') = Len(notifications) + 1
        /\ \A i \in DOMAIN notifications' :
             \/ i \in DOMAIN notifications /\ notifications'[i] = notifications[i]
             \/ notifications'[i] = row
    BY <2>2, <2>3, <2>4
  <2>6. /\ delivery' \in [Deliveries -> DeliveryRow] /\ delivery'[d] = new
        /\ \A c \in Deliveries : c # d => delivery'[c] = delivery[c]
    BY <1>3, <1>5, PutKeeps
  <2>7. MailShapes'
    BY <1>5, <1>7, <2>4, <2>5, <2>6 DEF MailInv, MailShapes
  <2>8. MailsDue'
    BY <1>3, <1>4, <1>5, <2>6 DEF MailInv, MailsDue, DueOf
  <2>9. SecretsHaveTypes'
    BY <1>5, <2>2, <2>5 DEF MailInv, SecretsHaveTypes
  <2>. QED
    BY <2>7, <2>8, <2>9 DEF MailInv
<1>. QED
  BY <1>6, <1>7 DEF Persist

LEMMA AckStep ==
  ASSUME MailInv, NEW d \in Deliveries, Ack(d)
  PROVE  MailInv'
<1>. DEFINE new == [delivery[d] EXCEPT !.pc = "done"]
<1>1. delivery[d] \in DeliveryRow /\ work' \in [WorkKinds -> Nat] /\ delivery[d].pc = "send"
  BY DEF MailInv, MailShapes, Ack, DeliveryAt
<1>2. /\ new \in DeliveryRow /\ new.list = delivery[d].list /\ new.next = delivery[d].next
      /\ new.audience = delivery[d].audience /\ new.pc = "done"
  BY <1>1 DEF DeliveryRow
<1>. HIDE DEF new
<1>3. \A x \in Recipients : ToCome(new, x) = ToCome(delivery[d], x)
  BY <1>1, <1>2 DEF ToCome
<1>4. PutDelivery(d, new) /\ UNCHANGED <<notifications, legacy, clean, attempts, mails>>
  BY DEF Ack, new
<1>. QED
  BY <1>1, <1>2, <1>3, <1>4, DeliveryStep

LEMMA CrashServiceStep == MailInv /\ CrashService => MailInv'
<1>. SUFFICES ASSUME MailInv, CrashService PROVE MailInv'
  OBVIOUS
<1>1. UNCHANGED <<notifications, legacy, clean, attempts, mails>>
  BY DEF CrashService
<1>2. work' \in [WorkKinds -> Nat]
  BY PayKeeps DEF CrashService, MailInv, MailShapes, WorkKinds
<1>3. ASSUME NEW d \in Deliveries
      PROVE  /\ delivery'[d] \in DeliveryRow /\ delivery'[d].audience = delivery[d].audience
             /\ delivery'[d].pc = "unused" => delivery[d].pc = "unused"
             /\ \A x \in Recipients : ToCome(delivery'[d], x) \subseteq ToCome(delivery[d], x)
  <2>1. delivery[d] \in DeliveryRow
    BY DEF MailInv, MailShapes
  <2>. DEFINE back == Moved(delivery[d], "queued", <<>>, 1)
  <2>2. /\ back \in DeliveryRow /\ back.audience = delivery[d].audience
        /\ back.pc = "queued" /\ back.list = <<>>
    <3>. DEFINE none == <<>>
    <3>1. none \in Seq(Recipients) /\ 1 \in 1..(Len(none) + 1)
      OBVIOUS
    <3>. HIDE DEF none
    <3>2. Moved(delivery[d], "queued", none, 1).list = none
      BY <2>1, <3>1, MovedRow
    <3>3. /\ Moved(delivery[d], "queued", none, 1) \in DeliveryRow
          /\ Moved(delivery[d], "queued", none, 1).audience = delivery[d].audience
          /\ Moved(delivery[d], "queued", none, 1).pc = "queued"
      BY <2>1, <3>1, MovedRow
    <3>. QED
      BY <3>2, <3>3 DEF none
  <2>3. delivery'[d] \in {back, delivery[d]}
    BY DEF CrashService, Moved
  <2>. HIDE DEF back
  <2>4. \A x \in Recipients : ToCome(back, x) = {}
    BY <2>2 DEF ToCome
  <2>. QED
    BY <2>1, <2>2, <2>3, <2>4
<1>4. delivery' \in [Deliveries -> DeliveryRow]
  <2>1. delivery' = [d \in Deliveries |-> delivery'[d]]
    BY DEF CrashService
  <2>. QED
    BY <1>3, <2>1
<1>5. MailShapes'
  BY <1>1, <1>2, <1>4 DEF MailInv, MailShapes
<1>6. MailsDue'
  <2>. SUFFICES ASSUME NEW d \in Deliveries, NEW x \in Recipients
       PROVE  /\ mails[d][x] + Cardinality(ToCome(delivery'[d], x))
                   <= attempts[d] * Share(delivery'[d].audience, x)
              /\ delivery'[d].pc = "unused" => mails[d][x] = 0
    BY <1>1 DEF MailsDue, DueOf
  <2>1. mails[d][x] + Cardinality(ToCome(delivery'[d], x))
          <= attempts[d] * Share(delivery'[d].audience, x)
    BY <1>3, DueKept
  <2>. QED
    BY <1>3, <2>1 DEF MailInv, MailsDue
<1>7. SecretsHaveTypes'
  BY <1>1 DEF MailInv, SecretsHaveTypes
<1>. QED
  BY <1>5, <1>6, <1>7 DEF MailInv

-----------------------------------------------------------------------------
(* The theorems about notification-service                                 *)

LEMMA MailInvStep == MailInv /\ [NextNotifications]_nvars => MailInv'
<1>. SUFFICES ASSUME MailInv, [NextNotifications]_nvars PROVE MailInv'
  OBVIOUS
<1>1. ASSUME NEW d \in Deliveries, Handle(d) PROVE MailInv'
  BY <1>1, TakeStep, PersistStep, AckStep, SendMailStep DEF Handle
<1>2. ASSUME UNCHANGED nvars PROVE MailInv'
  BY <1>2 DEF nvars, MailInv, MailShapes, MailsDue, DueOf, SecretsHaveTypes
<1>. QED
  BY <1>1, <1>2, EmitStep, BroadcastStep, MarkAsReadStep, MarkAllAsReadStep,
     CrashServiceStep, StartUpStep DEF NextNotifications

(* The inductive invariant of notification-service.                        *)
THEOREM MailInvHolds == SpecNotifications => []MailInv
BY InitMailInv, MailInvStep, PTL DEF SpecNotifications

(* Every variable of notification-service keeps its type.                  *)
THEOREM NotificationTypesHold == SpecNotifications => []NotificationTypes
<1>1. MailInv => NotificationTypes
  BY DEF MailInv, MailShapes, NotificationTypes, DeliveryRow
<1>. QED
  BY <1>1, MailInvHolds, PTL

(* In one attempt at a message a recipient is mailed at most as often as   *)
(* the list that was sent names it, repeated entries counted, and once     *)
(* when the list is drawn from the table (handle, sendAndPersist): only a  *)
(* crash before the acknowledgement repeats a mail.                        *)
THEOREM OneMailPerAttemptHolds == SpecNotifications => []OneMailPerAttempt
<1>1. MailInv => OneMailPerAttempt
  <2>. SUFFICES ASSUME MailInv, NEW d \in Deliveries, NEW r \in Recipients
       PROVE  mails[d][r] <= attempts[d] * Share(delivery[d].audience, r)
    BY DEF OneMailPerAttempt
  <2>1. /\ mails[d][r] \in Nat /\ Cardinality(ToCome(delivery[d], r)) \in Nat
        /\ attempts[d] * Share(delivery[d].audience, r) \in Nat
    BY DueCounts DEF MailInv
  <2>. QED
    BY <2>1 DEF MailInv, MailsDue, DueOf
<1>. QED
  BY <1>1, MailInvHolds, PTL

(* A token that was mailed is in no row of this version, in no old row     *)
(* once a redaction went through, and in no list (sanitizeBody,            *)
(* onModuleInit).                                                          *)
THEOREM SecretsStayInTheMailHolds == SpecNotifications => []SecretsStayInTheMail
<1>1. MailInv => SecretsStayInTheMail
  <2>. SUFFICES ASSUME MailInv PROVE SecretsStayInTheMail
    OBVIOUS
  <2>1. \A i \in DOMAIN notifications :
          notifications[i].body = "secret" => i <= legacy /\ ~clean
    BY DEF MailInv, SecretsHaveTypes
  <2>2. ASSUME NEW i \in DOMAIN notifications
        PROVE  sanitizeBody(notifications[i].body, notifications[i].type) # "secret"
    BY DEF MailInv, SecretsHaveTypes, sanitizeBody
  <2>3. ASSUME NEW row \in ListAll PROVE row.body # "secret"
    <3>1. PICK i \in DOMAIN notifications :
            row = [notifications[i] EXCEPT !.body = sanitizeBody(@, notifications[i].type)]
      BY DEF ListAll
    <3>2. notifications[i] \in Row
      BY DEF MailInv, MailShapes
    <3>3. row.body = sanitizeBody(notifications[i].body, notifications[i].type)
      BY <3>1, <3>2 DEF Row
    <3>. QED
      BY <2>2, <3>3
  <2>. QED
    BY <2>1, <2>3 DEF SecretsStayInTheMail
<1>. QED
  BY <1>1, MailInvHolds, PTL

=============================================================================
