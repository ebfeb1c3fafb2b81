----------------------------- MODULE AuthSessions -----------------------------
(***************************************************************************)
(* Accounts, passwords and sessions: auth-service (auth.service.ts), with  *)
(* the gateway's guard (jwt.guard.ts) in front of the requests of a        *)
(* signed-in user.                                                         *)
(*                                                                         *)
(* A signed token is a record of its claims and the second it was signed   *)
(* in: two tokens signed in one second from the same claims ARE the same   *)
(* token.  Hashing a token keeps it apart from every other one, so the     *)
(* tables hold the token.  A session is a pair of access and refresh       *)
(* tokens with the same claims; it also carries, as history, the password  *)
(* that was proven for it and whether another password was written before  *)
(* it was handed out.                                                      *)
(*                                                                         *)
(* Every call of the service is a task: what it read is kept in the task   *)
(* and used later, and the steps of the calls interleave.                  *)
(***************************************************************************)
EXTENDS Integers, FiniteSets

CONSTANTS
  None, Users, Emails, Passwords,
  Calls,        \* calls in progress at the same time
  MaxTime,      \* bound on the clock
  Lifetime,     \* Lifetime[typ]: how long a token of the type is valid
  Owner,        \* the account that exists and is signed in at the start
  FirstEmail, FirstPassword,
  Budgets       \* the budgets of requests and failures, one is chosen at the start

TokenTypes == {"access", "refresh", "password_reset", "email_verification"}

Kinds ==
  {"login", "refresh", "logout", "change", "revokeAll", "forgot", "reset", "register",
   "create", "resend", "verify", "update", "delete", "error", "crash"}

ASSUME AuthAssumption ==
  /\ MaxTime \in Nat
  /\ Lifetime \in [TokenTypes -> Nat]
  /\ Owner \in Users /\ FirstEmail \in Emails /\ FirstPassword \in Passwords
  /\ None \notin Users /\ None \notin Emails /\ None \notin Passwords
  /\ Budgets \subseteq [Kinds -> Nat]

VARIABLES
  account,      \* auth_accounts
  reset,        \* reset[u]: the row of password_reset_tokens, None without one
  verify,       \* verify[u]: the row of email_verification_tokens
  revoked,      \* refresh_tokens whose revokedAt is set
  mailed,       \* reset and verification tokens sent by mail
  issued,       \* sessions handed to a client
  now, call,
  left,         \* what is left of the budget
  torn,         \* history: accounts whose change died between its two writes
  proof,        \* history: proof[u]: the address whose mailed token u redeemed
  moved,        \* history: the address changed after it was proven
  exchanged     \* history: refresh tokens whose exchange was answered

vars == <<account, reset, verify, revoked, mailed, issued, now, call, left,
          torn, proof, moved, exchanged>>
rows == <<account, reset, verify, revoked>>
history == <<torn, proof, moved, exchanged>>
-----------------------------------------------------------------------------
Token == [typ: TokenTypes, user: Users, email: Emails, version: Nat, iat: 0..MaxTime]
Session == [token: Token, pw: Passwords, over: BOOLEAN]

Account ==
  [state: {"none", "active", "deleted"}, email: Emails \cup {None},
   password: Passwords \cup {None}, version: Nat, verified: BOOLEAN]

NoAccount ==
  [state |-> "none", email |-> None, password |-> None, version |-> 0, verified |-> FALSE]

NewAccount(e, p) ==
  [NoAccount EXCEPT !.state = "active", !.email = e, !.password = p]

Sign(typ, u, e, v) ==
  [typ |-> typ, user |-> u, email |-> e, version |-> v, iat |-> now]

(* The tokens sent by mail carry no version.                               *)
SignMail(typ, u, e) == Sign(typ, u, e, 0)

Idle ==
  [pc |-> "idle", op |-> None, user |-> None, email |-> None, pw |-> None,
   version |-> 0, token |-> None, minted |-> None, revoked |-> FALSE, over |-> FALSE, replay |-> FALSE]

(* TokenService.verifyToken: signature and expiry, and the type claim.     *)
VerifyToken(t, typ) == t.typ = typ /\ now < t.iat + Lifetime[t.typ]

(* A session's token as the client presents it for one purpose. *)
As(typ, s) == [s.token EXCEPT !.typ = typ]

(* findActiveUserById, findActiveUserByEmail *)
Active(u) == account[u].state = "active"

(* Mutant: the version claim is not compared.                              *)
LoadActiveUserUnversioned(t) == Active(t.user) /\ account[t.user].email = t.email

(* loadActiveUserForToken *)
LoadActiveUser(t) ==
  /\ Active(t.user)
  /\ account[t.user].email = t.email
  /\ account[t.user].version = t.version

(* validateToken *)
Accepted(s) ==
  VerifyToken(As("access", s), "access") /\ LoadActiveUser(As("access", s))

(* JwtAuthGuard asks for that before every route that is not public.       *)
Guarded(s) == s \in issued /\ Accepted(s)

Spend(kind) == left[kind] > 0 /\ left' = [left EXCEPT ![kind] = @ - 1]

At(c, pc) == call[c].pc = pc
Become(c, r) == call' = [call EXCEPT ![c] = r]
Goto(c, pc) == Become(c, [call[c] EXCEPT !.pc = pc])
Finish(c) == Become(c, Idle)

Start(c, kind, r) == At(c, "idle") /\ Spend(kind) /\ Become(c, r)

(* Another call of the account whose new password is overwritten before it *)
(* answers.                                                                *)
Overtaken(c, d) ==
  /\ d # c /\ call[d].user = call[c].user
  /\ call[d].op = "change" /\ call[d].pc \in {"change_bump", "mint", "store"}

(* c writes its password: it goes on to pc, and the others are overtaken.  *)
WritePassword(c, r) ==
  call' = [d \in Calls |->
    IF d = c THEN r ELSE [call[d] EXCEPT !.over = @ \/ Overtaken(c, d)]]

Init ==
  /\ account = [u \in Users |->
       IF u = Owner THEN NewAccount(FirstEmail, FirstPassword) ELSE NoAccount]
  /\ reset = [u \in Users |-> None]
  /\ verify = [u \in Users |-> None]
  /\ revoked = {}
  /\ mailed = {}
  /\ now = 0
  /\ issued =
       {[token |-> Sign("refresh", Owner, FirstEmail, 0), pw |-> FirstPassword, over |-> FALSE]}
  /\ call = [c \in Calls |-> Idle]
  /\ left \in Budgets
  /\ torn = {} /\ moved = {} /\ exchanged = {}
  /\ proof = [u \in Users |-> None]
-----------------------------------------------------------------------------
(* Signing in                                                              *)

(* login: the row is read once; its password and version go together.      *)
Login(c, u) ==
  /\ Active(u)
  /\ Start(c, "login", [Idle EXCEPT !.pc = "mint", !.op = "login", !.user = u,
       !.email = account[u].email, !.pw = account[u].password,
       !.version = account[u].version])
  /\ UNCHANGED <<rows, mailed, issued, now, history>>

(* issueTokenPair signs both tokens from what the call read earlier.       *)
Mint(c) ==
  LET r == call[c]
  IN  /\ At(c, "mint")
      /\ Become(c, [r EXCEPT !.pc = "store",
           !.minted = Sign("refresh", r.user, r.email, r.version)])
      /\ UNCHANGED <<rows, mailed, issued, now, left, history>>

(* storeRefreshToken: the upsert clears revokedAt; a failure is logged and *)
(* the pair is handed out all the same.                                    *)
StoreRefreshToken(c) ==
  LET r == call[c]
  IN  /\ At(c, "store")
      /\ \/ revoked' = revoked \ {r.minted} /\ UNCHANGED left
         \/ Spend("error") /\ UNCHANGED revoked
      /\ issued' = issued \cup {[token |-> r.minted, pw |-> r.pw, over |-> r.over]}
      /\ exchanged' = (exchanged \cup {t \in {r.token} : r.revoked}) \ {r.minted}
      /\ call' = [d \in Calls |->
           IF d = c THEN Idle
           ELSE [call[d] EXCEPT !.revoked = @ /\ call[d].token # r.minted]]
      /\ UNCHANGED <<account, reset, verify, mailed, now, torn, proof, moved>>
-----------------------------------------------------------------------------
(* Refreshing and signing out                                              *)

(* refreshToken: ensureRefreshTokenNotRevoked lets the token pass when the *)
(* table cannot be read.                                                   *)
RefreshCheck(c, s) ==
  /\ s \in issued
  /\ VerifyToken(s.token, "refresh")
  /\ \/ s.token \notin revoked /\ Spend("refresh")
     \/ /\ left["refresh"] > 0 /\ left["error"] > 0
        /\ left' = [left EXCEPT !["refresh"] = @ - 1, !["error"] = @ - 1]
  /\ At(c, "idle")
  /\ Become(c, [Idle EXCEPT !.pc = "refresh_load", !.op = "refresh", !.user = s.token.user,
       !.pw = s.pw, !.over = s.over, !.token = s.token,
       !.replay = s.token \in exchanged /\ left'["error"] = left["error"]])
  /\ UNCHANGED <<rows, mailed, issued, now, history>>

RefreshLoad(c) ==
  LET t == call[c].token
  IN  /\ At(c, "refresh_load")
      /\ IF LoadActiveUser(t)
         THEN Become(c, [call[c] EXCEPT !.pc = "refresh_revoke",
                !.email = account[t.user].email, !.version = account[t.user].version])
         ELSE Finish(c)
      /\ UNCHANGED <<rows, mailed, issued, now, left, history>>

(* Mutant: the presented token is not revoked.                             *)
RefreshRevokeSkipped(c) ==
  /\ At(c, "refresh_revoke")
  /\ Become(c, [call[c] EXCEPT !.pc = "mint", !.revoked = TRUE])
  /\ UNCHANGED <<rows, mailed, issued, now, left, history>>

(* revokeRefreshToken is best effort. *)
RefreshRevoke(c) ==
  /\ At(c, "refresh_revoke")
  /\ \/ /\ revoked' = revoked \cup {call[c].token}
        /\ Become(c, [call[c] EXCEPT !.pc = "mint", !.revoked = TRUE])
        /\ UNCHANGED left
     \/ Spend("error") /\ Goto(c, "mint") /\ UNCHANGED revoked
  /\ UNCHANGED <<account, reset, verify, mailed, issued, now, history>>

(* logout: an invalid token has no session worth revoking.                 *)
Logout(s) ==
  /\ s \in issued
  /\ VerifyToken(s.token, "refresh")
  /\ Spend("logout")
  /\ revoked' = revoked \cup {s.token}
  /\ UNCHANGED <<account, reset, verify, mailed, issued, now, call, history>>
-----------------------------------------------------------------------------
(* Passwords                                                               *)

(* The guard accepts the access token, then the request is forwarded with  *)
(* the account's id alone.                                                 *)
RequestChangePassword(c, s, p) ==
  /\ Guarded(s)
  /\ Start(c, "change", [Idle EXCEPT !.pc = "change_read", !.op = "change",
       !.user = s.token.user, !.pw = p])
  /\ UNCHANGED <<rows, mailed, issued, now, history>>

(* changePassword reads the row and compares the current password: a wrong *)
(* one ends the call.                                                      *)
ChangeRead(c) ==
  LET u == call[c].user
  IN  /\ At(c, "change_read")
      /\ \/ /\ Active(u)
            /\ Become(c, [call[c] EXCEPT !.pc = "change_write", !.email = account[u].email])
         \/ Finish(c)
      /\ UNCHANGED <<rows, mailed, issued, now, left, history>>

(* The password is written by id, whatever happened to the row since.      *)
ChangeWrite(c) ==
  /\ At(c, "change_write")
  /\ account' = [account EXCEPT ![call[c].user].password = call[c].pw]
  /\ WritePassword(c, [call[c] EXCEPT !.pc = "change_bump"])
  /\ UNCHANGED <<reset, verify, revoked, mailed, issued, now, left, history>>

(* invalidateAllSessions is a second statement; the new pair carries the   *)
(* version it returns.                                                     *)
ChangeBump(c) ==
  LET u == call[c].user
  IN  /\ At(c, "change_bump")
      /\ account' = [account EXCEPT ![u].version = @ + 1]
      /\ Become(c, [call[c] EXCEPT !.pc = "mint", !.version = account[u].version + 1])
      /\ UNCHANGED <<reset, verify, revoked, mailed, issued, now, left, history>>

(* forgotPassword: one row per account, so a new link replaces the old.    *)
ForgotPassword(c, u) ==
  /\ Active(u)
  /\ Start(c, "forgot", [Idle EXCEPT !.pc = "forgot_store", !.op = "forgot", !.user = u,
       !.email = account[u].email])
  /\ UNCHANGED <<rows, mailed, issued, now, history>>

ForgotStore(c) ==
  LET t == SignMail("password_reset", call[c].user, call[c].email)
  IN  /\ At(c, "forgot_store")
      /\ reset' = [reset EXCEPT ![call[c].user] = t]
      /\ mailed' = mailed \cup {t}
      /\ Finish(c)
      /\ UNCHANGED <<account, verify, revoked, issued, now, left, history>>

(* resetPassword: the token must be the row of an active account whose     *)
(* address it names.                                                       *)
ResetRead(c, t, p) ==
  /\ t \in mailed
  /\ VerifyToken(t, "password_reset")
  /\ reset[t.user] = t
  /\ Active(t.user) /\ account[t.user].email = t.email
  /\ p # account[t.user].password
  /\ Start(c, "reset", [Idle EXCEPT !.pc = "reset_commit", !.op = "reset",
       !.user = t.user, !.pw = p, !.token = t])
  /\ UNCHANGED <<rows, mailed, issued, now, history>>

(* Mutant: the sessions of the old password live on.                       *)
ResetCommitKeepsSessions(c) ==
  LET u == call[c].user
  IN  /\ At(c, "reset_commit")
      /\ account' = [account EXCEPT ![u].password = call[c].pw]
      /\ reset' = [reset EXCEPT ![u] = None]
      /\ WritePassword(c, Idle)
      /\ UNCHANGED <<verify, revoked, mailed, issued, now, left, history>>

(* One transaction, but not conditional on the row still being there.      *)
ResetCommit(c) ==
  LET u == call[c].user
  IN  /\ At(c, "reset_commit")
      /\ account' = [account EXCEPT ![u].password = call[c].pw, ![u].version = @ + 1]
      /\ reset' = [reset EXCEPT ![u] = None]
      /\ WritePassword(c, Idle)
      /\ UNCHANGED <<verify, revoked, mailed, issued, now, left, history>>

(* revokeAllSessions, behind the same guard.                               *)
RequestRevokeAll(c, s) ==
  /\ Guarded(s)
  /\ Start(c, "revokeAll", [Idle EXCEPT !.pc = "revoke_all", !.op = "revokeAll",
       !.user = s.token.user])
  /\ UNCHANGED <<rows, mailed, issued, now, history>>

RevokeAllSessions(c) ==
  LET u == call[c].user
  IN  /\ At(c, "revoke_all")
      /\ IF Active(u)
         THEN account' = [account EXCEPT ![u].version = @ + 1]
         ELSE UNCHANGED account
      /\ Finish(c)
      /\ UNCHANGED <<reset, verify, revoked, mailed, issued, now, left, history>>
-----------------------------------------------------------------------------
(* Accounts and their addresses                                            *)

(* Mutant: the addresses of deleted accounts are free again.               *)
EmailFreeAmongActive(e) == \A u \in Users : Active(u) => account[u].email # e

(* email is unique over all rows, the soft-deleted ones included.          *)
EmailFree(e) == \A u \in Users : account[u].email # e

(* register: the account, then its verification token.                     *)
Register(c, u, e, p) ==
  /\ account[u].state = "none" /\ EmailFree(e)
  /\ account' = [account EXCEPT ![u] = NewAccount(e, p)]
  /\ Start(c, "register", [Idle EXCEPT !.pc = "verification_store", !.op = "register",
       !.user = u, !.email = e])
  /\ UNCHANGED <<reset, verify, revoked, mailed, issued, now, history>>

(* createUser, by an operator: no verification mail. *)
CreateUser(u, e, p) ==
  /\ account[u].state = "none" /\ EmailFree(e)
  /\ Spend("create")
  /\ account' = [account EXCEPT ![u] = NewAccount(e, p)]
  /\ UNCHANGED <<reset, verify, revoked, mailed, issued, now, call, history>>

ResendVerification(c, u) ==
  /\ Active(u) /\ ~account[u].verified
  /\ Start(c, "resend", [Idle EXCEPT !.pc = "verification_store", !.op = "resend",
       !.user = u, !.email = account[u].email])
  /\ UNCHANGED <<rows, mailed, issued, now, history>>

(* generateAndStoreEmailVerificationToken; when it fails register only     *)
(* logs and resendVerification fails.                                      *)
VerificationStore(c) ==
  LET t == SignMail("email_verification", call[c].user, call[c].email)
  IN  /\ At(c, "verification_store")
      /\ \/ /\ verify' = [verify EXCEPT ![call[c].user] = t]
            /\ mailed' = mailed \cup {t}
            /\ UNCHANGED left
         \/ Spend("error") /\ UNCHANGED <<verify, mailed>>
      /\ Finish(c)
      /\ UNCHANGED <<account, reset, revoked, issued, now, history>>

(* Mutant: the address in the token is not compared with the account's.    *)
VerifyEmailAnyAddress(c, t) ==
  /\ t \in mailed
  /\ VerifyToken(t, "email_verification")
  /\ verify[t.user] = t
  /\ Active(t.user)
  /\ Start(c, "verify", [Idle EXCEPT !.pc = "verify_commit", !.op = "verify",
       !.user = t.user, !.token = t])
  /\ UNCHANGED <<rows, mailed, issued, now, history>>

VerifyEmail(c, t) ==
  /\ t \in mailed
  /\ VerifyToken(t, "email_verification")
  /\ verify[t.user] = t
  /\ Active(t.user) /\ account[t.user].email = t.email
  /\ Start(c, "verify", [Idle EXCEPT !.pc = "verify_commit", !.op = "verify",
       !.user = t.user, !.token = t])
  /\ UNCHANGED <<rows, mailed, issued, now, history>>

VerifyCommit(c) ==
  LET u == call[c].user
  IN  /\ At(c, "verify_commit")
      /\ account' = [account EXCEPT ![u].verified = TRUE]
      /\ verify' = [verify EXCEPT ![u] = None]
      /\ proof' = [proof EXCEPT ![u] = call[c].token.email]
      /\ Finish(c)
      /\ UNCHANGED <<reset, revoked, mailed, issued, now, left, torn, moved, exchanged>>

(* updateUser, as far as sessions see it: the address. *)
UpdateUser(c, u, e) ==
  /\ Active(u)
  /\ Start(c, "update", [Idle EXCEPT !.pc = "update_write", !.op = "update", !.user = u,
       !.email = e])
  /\ UNCHANGED <<rows, mailed, issued, now, history>>

(* By id; neither emailVerified nor the tokens sent earlier are touched.   *)
UpdateWrite(c) ==
  LET u == call[c].user
      e == call[c].email
      proving == account[u].verified \/ \E d \in Calls : At(d, "verify_commit") /\ call[d].user = u
  IN  /\ At(c, "update_write")
      /\ IF \E v \in Users \ {u} : account[v].email = e
         THEN UNCHANGED <<account, moved>>
         ELSE /\ account' = [account EXCEPT ![u].email = e]
              /\ moved' = moved \cup {v \in {u} : account[v].email # e /\ proving}
      /\ Finish(c)
      /\ UNCHANGED <<reset, verify, revoked, mailed, issued, now, left, torn, proof, exchanged>>

DeleteUser(c, u) ==
  /\ Active(u)
  /\ Start(c, "delete", [Idle EXCEPT !.pc = "delete_write", !.op = "delete", !.user = u])
  /\ UNCHANGED <<rows, mailed, issued, now, history>>

DeleteWrite(c) ==
  /\ At(c, "delete_write")
  /\ account' = [account EXCEPT ![call[c].user].state = "deleted"]
  /\ Finish(c)
  /\ UNCHANGED <<reset, verify, revoked, mailed, issued, now, left, history>>
-----------------------------------------------------------------------------
(* A call dies: a statement fails, or auth-service is killed.              *)
Die(c) ==
  /\ ~At(c, "idle")
  /\ Spend("crash")
  /\ torn' = torn \cup {u \in {call[c].user} : At(c, "change_bump")}
  /\ Finish(c)
  /\ UNCHANGED <<rows, mailed, issued, now, proof, moved, exchanged>>

Tick ==
  /\ now < MaxTime
  /\ now' = now + 1
  /\ UNCHANGED <<rows, mailed, issued, call, left, history>>

(* The service waits for requests when nothing is left to do.              *)
Rest == (\A c \in Calls : At(c, "idle")) /\ UNCHANGED vars

CallStep(c) ==
  \/ Mint(c) \/ StoreRefreshToken(c)
  \/ RefreshLoad(c) \/ RefreshRevoke(c)
  \/ ChangeRead(c) \/ ChangeWrite(c) \/ ChangeBump(c)
  \/ ForgotStore(c) \/ ResetCommit(c) \/ RevokeAllSessions(c)
  \/ VerificationStore(c) \/ VerifyCommit(c)
  \/ UpdateWrite(c) \/ DeleteWrite(c)

Request(c) ==
  \/ \E u \in Users : Login(c, u) \/ ForgotPassword(c, u) \/ ResendVerification(c, u)
                      \/ DeleteUser(c, u)
  \/ \E s \in issued : RefreshCheck(c, s) \/ RequestRevokeAll(c, s)
  \/ \E s \in issued, p \in Passwords : RequestChangePassword(c, s, p)
  \/ \E t \in mailed, p \in Passwords : ResetRead(c, t, p)
  \/ \E t \in mailed : VerifyEmail(c, t)
  \/ \E u \in Users, e \in Emails : UpdateUser(c, u, e)
  \/ \E u \in Users, e \in Emails, p \in Passwords : Register(c, u, e, p)

Next ==
  \/ \E c \in Calls : CallStep(c) \/ Request(c) \/ Die(c)
  \/ \E s \in issued : Logout(s)
  \/ \E u \in Users, e \in Emails, p \in Passwords : CreateUser(u, e, p)
  \/ Tick
  \/ Rest

Spec == Init /\ [][Next]_vars
-----------------------------------------------------------------------------
(* Properties                                                              *)

AccountTypes ==
  /\ account \in [Users -> Account]
  /\ \A u \in Users : account[u].state # "none" =>
       account[u].email \in Emails /\ account[u].password \in Passwords

UniqueEmails ==
  \A u, v \in Users : account[u].email = account[v].email => u = v \/ account[u].email = None

TokenTypesOK ==
  /\ reset \in [Users -> Token \cup {None}]
  /\ verify \in [Users -> Token \cup {None}]
  /\ \A u \in Users : reset[u] # None => reset[u].user = u
  /\ \A u \in Users : verify[u] # None => verify[u].user = u
  /\ revoked \subseteq Token /\ mailed \subseteq Token /\ exchanged \subseteq Token
  /\ issued \subseteq Session
  /\ now \in 0..MaxTime

(* Every variable keeps its type; a row names the account it belongs to,   *)
(* and no two accounts, deleted ones included, share an address.           *)
TypeOK ==
  /\ AccountTypes /\ UniqueEmails /\ TokenTypesOK
  /\ \A c \in Calls :
       /\ call[c].version \in Nat
       /\ ~At(c, "idle") => call[c].user \in Users
  /\ left \in [Kinds -> Nat]

(* No session outlives the password it was opened with, once the call that *)
(* replaced the password is through (changePassword, resetPassword).  Two  *)
(* ways remain: the change died between its two statements, or the session *)
(* was handed out by a change whose password was overwritten meanwhile.    *)
SessionNeedsCurrentPassword ==
  \A s \in issued :
    LET u == s.token.user
    IN  Accepted(s) =>
          \/ s.pw = account[u].password
          \/ \E c \in Calls : At(c, "change_bump") /\ call[c].user = u
          \/ u \in torn
          \/ s.over

(* refreshToken rotates: once an exchange has been answered, no later call *)
(* gets anything for the token it replaced, unless the table of revoked    *)
(* tokens could not be read or written.                                    *)
ExchangedTokenIsDead ==
  \A c \in Calls : call[c].op = "refresh" => ~call[c].replay

(* An address counts as verified only if a token mailed to it was redeemed,*)
(* or the address was changed after that (updateUser keeps the mark).      *)
VerifiedAddressWasProven ==
  \A u \in Users : account[u].verified /\ u \notin moved => proof[u] = account[u].email
=============================================================================
