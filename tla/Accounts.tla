------------------------------ MODULE Accounts ------------------------------
(***************************************************************************)
(* Accounts (routes/auth.py, core/security.py, core/oauth/): signing up by *)
(* a link that is mailed, login, logout, a new password by a link that is  *)
(* mailed, and login with GitHub or Google.                                *)
(*                                                                         *)
(* email_signup and forgot_password await the mail between their SELECTs   *)
(* and their one commit; the other handlers never await between the two,   *)
(* so they interleave with other processes only.  The program is deployed  *)
(* with one process (railway.json:7) and with five (Dockerfile:64):        *)
(* `process` is chosen once.                                               *)
(*                                                                         *)
(* Every user is active: each INSERT says so and nothing changes it.  The  *)
(* refresh tokens are written and deleted with their tokens and read by    *)
(* nothing.  A column that nothing here reads is left out.                 *)
(***************************************************************************)
EXTENDS Integers, FiniteSets

CONSTANTS
  User,       \* ids of users
  Email,      \* addresses, which may also be typed as a username
  Nickname,   \* a username that is no address
  Password,   \* passwords
  Code,       \* random codes of verifications and resets, also used as row ids
  Account,    \* accounts at the providers
  Google,     \* those of them at Google; the others are at GitHub
  AddressOf,  \* [Account -> Email or Null]: the address the provider tells
  Request,    \* places for a request
  Process,    \* processes of the API
  CodeLife,   \* life of a code (12 hours)
  TokenLife,  \* ACCESS_TOKEN_EXPIRE_MINUTES
  MaxTime,    \* bound: the clock stops here
  Null, Absent

Name == Email \cup {Nickname}
UserRow == [username : Name, email : Email \cup {Null},
            password : Password \cup {Null}, google_email : Email \cup {Null},
            provider_id : Account \cup {Null}]
VerificationRow == [email : Email, username : Name, password : Password,
                    code : Code, expired_at : Nat]
ResetRow == [user : User, code : Code, expired_at : Nat]
Token == [user : User, expired_at : Nat]

ASSUME AccountsAssumption ==
  /\ Absent \notin UserRow \cup VerificationRow \cup ResetRow
  /\ Null \notin Name \cup Password \cup Account \cup Code \cup User
  /\ Nickname \notin Email
  /\ Google \subseteq Account
  /\ AddressOf \in [Account -> Email \cup {Null}]
  /\ \A a \in Google : AddressOf[a] # Null
  /\ CodeLife \in Nat /\ TokenLife \in Nat /\ MaxTime \in Nat

VARIABLES
  clock,
  process,             \* [Request -> Process]
  user,                \* table user
  email_verification,  \* table, by id
  reset_password,      \* table, by id
  token,               \* table token: two logins of a user in the same second
                       \* give the same string, which every query goes by
  generated,           \* the random codes handed out
  letters,             \* history: the mails that were sent
  opened,              \* history: how often the link with a code did its work
  request              \* the locals of each request

tables == <<user, email_verification, reset_password, token>>
history == <<letters, opened>>
vars == <<clock, process, tables, generated, history, request>>

-----------------------------------------------------------------------------
Idle == [pc |-> "idle"]
\* email_signup and forgot_password: `row` is the id of the row that was
\* found, `was` the username it had.
SigningUp == [pc : {"mailing", "mailed"}, op : {"signup"}, email : Email,
              username : Name, password : Password, code : Code,
              expired_at : Nat, row : Code \cup {Null}, was : Name]
Forgetting == [pc : {"mailing", "mailed"}, op : {"forgot"}, user : User,
               code : Code, expired_at : Nat, row : Code \cup {Null}]
\* Between SELECT and commit.
Verifying == [pc : {"verifying"}, id : Code, row : VerificationRow]
Resetting == [pc : {"resetting"}, id : Code, row : ResetRow, password : Password]
Dropping == [pc : {"dropping"}, op : {"signup", "forgot"}, id : Code]
Meeting == [pc : {"meeting"}, account : Account, user : User \cup {Null}]
Granting == [pc : {"granting"}, user : User, at : Nat]

SignUpLetter == [op : {"signup"}, code : Code, email : Email, password : Password]
ResetLetter == [op : {"forgot"}, code : Code, user : User]

TypeOK ==
  /\ clock \in Nat
  /\ process \in [Request -> Process]
  /\ user \in [User -> UserRow \cup {Absent}]
  /\ email_verification \in [Code -> VerificationRow \cup {Absent}]
  /\ reset_password \in [Code -> ResetRow \cup {Absent}]
  /\ token \subseteq Token
  /\ generated \subseteq Code
  /\ letters \subseteq SignUpLetter \cup ResetLetter
  /\ opened \in [Code -> Nat]
  /\ request \in [Request -> {Idle} \cup SigningUp \cup Forgetting \cup Verifying
                    \cup Resetting \cup Dropping \cup Meeting \cup Granting]

Init ==
  /\ clock = 0
  /\ process \in [Request -> Process]
  /\ user = [u \in User |-> Absent]
  /\ email_verification = [k \in Code |-> Absent]
  /\ reset_password = [k \in Code |-> Absent]
  /\ token = {}
  /\ generated = {}
  /\ letters = {}
  /\ opened = [k \in Code |-> 0]
  /\ request = [r \in Request |-> Idle]

-----------------------------------------------------------------------------
Users == {u \in User : user[u] # Absent}
Verifications == {k \in Code : email_verification[k] # Absent}
Resets == {k \in Code : reset_password[k] # Absent}

Busy == {"verifying", "resetting", "dropping", "meeting", "granting"}
\* The event loop of r's process runs no handler.
LoopFree(r) ==
  \A q \in Request \ {r} : process[q] = process[r] => request[q].pc \notin Busy

Arrives(r) == request[r] = Idle /\ LoopFree(r)
Becomes(r, h) == request' = [request EXCEPT ![r] = h]

\* Bound: an id is left for every user that a request is about to insert.
UsersLeft ==
  Cardinality({r \in Request : \/ request[r].pc = "verifying"
                               \/ request[r].pc = "meeting" /\ request[r].user = Null})
    < Cardinality(User \ Users)

\* get_user_by_email; any of several, since the query names no order.
WithEmail(e) == {u \in Users : user[u].email = e}
Expired(row) == row.expired_at < clock

-----------------------------------------------------------------------------
(* email_signup and forgot_password *)

SignUpLoads(r, e) ==
  /\ Arrives(r)
  /\ WithEmail(e) = {}
  /\ \E k \in Code \ generated, n \in Name, p \in Password :
       LET found == {i \in Verifications : email_verification[i].email = e}
           local == [pc |-> "mailing", op |-> "signup", email |-> e,
                     username |-> n, password |-> p, code |-> k,
                     expired_at |-> clock + CodeLife, row |-> Null, was |-> n]
       IN /\ generated' = generated \cup {k}
          /\ \/ found = {} /\ Becomes(r, local)
             \/ \E i \in found :
                  Becomes(r, [local EXCEPT !.row = i,
                                           !.was = email_verification[i].username])
  /\ UNCHANGED <<clock, process, tables, history>>

ForgotLoads(r, u) ==
  /\ Arrives(r)
  /\ u \in Users /\ user[u].email # Null
  /\ \E k \in Code \ generated :
       LET found == {i \in Resets : reset_password[i].user = u}
           local == [pc |-> "mailing", op |-> "forgot", user |-> u, code |-> k,
                     expired_at |-> clock + CodeLife, row |-> Null]
       IN /\ generated' = generated \cup {k}
          /\ \/ found = {} /\ Becomes(r, local)
             \/ \E i \in found : Becomes(r, [local EXCEPT !.row = i])
  /\ UNCHANGED <<clock, process, tables, history>>

Letter(h) ==
  IF h.op = "signup"
  THEN [op |-> "signup", code |-> h.code, email |-> h.email, password |-> h.password]
  ELSE [op |-> "forgot", code |-> h.code, user |-> h.user]

\* Mutant: the commit does not wait for the mail.
CommitsAtOnce(h) == h.pc \in {"mailing", "mailed"}
MayCommit(h) == h.pc = "mailed"

MailSent(r) ==
  /\ request[r].pc = "mailing"
  /\ letters' = letters \cup {Letter(request[r])}
  /\ Becomes(r, [request[r] EXCEPT !.pc = "mailed"])
  /\ UNCHANGED <<clock, process, tables, generated, opened>>

\* The mail server may have accepted the mail nevertheless.
MailFails(r) ==
  /\ request[r].pc = "mailing"
  /\ letters' \in {letters, letters \cup {Letter(request[r])}}
  /\ Becomes(r, Idle)
  /\ UNCHANGED <<clock, process, tables, generated, opened>>

\* Mutant: the UPDATE leaves the password of the first sign-up.
KeepsPassword(h, row) ==
  [row EXCEPT !.code = h.code, !.expired_at = h.expired_at,
              !.username = IF h.username = h.was THEN @ ELSE h.username]
\* update_email_verification: a hash is salted and a code is random, so these
\* columns always differ from what was loaded, the username may not.
Renewed(h, row) ==
  [row EXCEPT !.password = h.password, !.code = h.code, !.expired_at = h.expired_at,
              !.username = IF h.username = h.was THEN @ ELSE h.username]

\* create_email_verification
NewVerification(h) ==
  [email |-> h.email, username |-> h.username, password |-> h.password,
   code |-> h.code, expired_at |-> h.expired_at]

\* The INSERT fails when the address is there by now (it is unique), the
\* UPDATE when the row is gone: either way the answer is 500 and nothing
\* is changed.
SignUpCommits(r) ==
  LET h == request[r]
      taken == \E i \in Verifications : email_verification[i].email = h.email
  IN /\ MayCommit(h) /\ h.op = "signup"
     /\ LoopFree(r)
     /\ email_verification' =
          CASE h.row = Null /\ ~taken ->
                 [email_verification EXCEPT ![h.code] = NewVerification(h)]
            [] h.row \in Verifications ->
                 [email_verification EXCEPT ![h.row] = Renewed(h, @)]
            [] OTHER -> email_verification
     /\ Becomes(r, Idle)
     /\ UNCHANGED <<clock, process, user, reset_password, token, generated, history>>

\* create_reset_password, and update_reset_password of a row of the same user:
\* a fresh code and its time.
ResetFor(h) == [user |-> h.user, code |-> h.code, expired_at |-> h.expired_at]

\* Nothing makes the user of a reset row unique: a second row may come.
ForgotCommits(r) ==
  LET h == request[r]
  IN /\ MayCommit(h) /\ h.op = "forgot"
     /\ LoopFree(r)
     /\ reset_password' =
          CASE h.row = Null -> [reset_password EXCEPT ![h.code] = ResetFor(h)]
            [] h.row \in Resets -> [reset_password EXCEPT ![h.row] = ResetFor(h)]
            [] OTHER -> reset_password
     /\ Becomes(r, Idle)
     /\ UNCHANGED <<clock, process, user, email_verification, token, generated, history>>

-----------------------------------------------------------------------------
(* email_verified and reset_password *)

\* Mutant: the address is not looked up again.
Unchecked(e) == TRUE
Unregistered(e) == WithEmail(e) = {}

\* A link that was mailed is opened; an expired row is only deleted.
VerifyLoads(r, i) ==
  /\ Arrives(r)
  /\ i \in Verifications
  /\ IF Expired(email_verification[i])
     THEN Becomes(r, [pc |-> "dropping", op |-> "signup", id |-> i])
     ELSE /\ UsersLeft /\ Unregistered(email_verification[i].email)
          /\ Becomes(r, [pc |-> "verifying", id |-> i, row |-> email_verification[i]])
  /\ UNCHANGED <<clock, process, tables, generated, history>>

\* create_user
Registered(row) ==
  [username |-> row.username, email |-> row.email, password |-> row.password,
   google_email |-> Null, provider_id |-> Null]

\* create_user and the DELETE are one commit; a DELETE that finds no row is
\* no error.
VerifyCommits(r) ==
  LET row == request[r].row
  IN /\ request[r].pc = "verifying"
     /\ \E u \in User \ Users : user' = [user EXCEPT ![u] = Registered(row)]
     /\ email_verification' = [email_verification EXCEPT ![request[r].id] = Absent]
     /\ opened' = [opened EXCEPT ![row.code] = @ + 1]
     /\ Becomes(r, Idle)
     /\ UNCHANGED <<clock, process, reset_password, token, generated, letters>>

ResetLoads(r, i) ==
  /\ Arrives(r)
  /\ i \in Resets
  /\ IF Expired(reset_password[i])
     THEN Becomes(r, [pc |-> "dropping", op |-> "forgot", id |-> i])
     ELSE \E p \in Password :
            Becomes(r, [pc |-> "resetting", id |-> i, row |-> reset_password[i],
                        password |-> p])
  /\ UNCHANGED <<clock, process, tables, generated, history>>

\* Mutant: the row of a reset is kept.
KeepsReset(i) == reset_password
WithoutReset(i) == [reset_password EXCEPT ![i] = Absent]

\* The tokens of the user stay.
ResetCommits(r) ==
  LET h == request[r]
  IN /\ h.pc = "resetting"
     /\ user' = [user EXCEPT ![h.row.user].password = h.password]
     /\ reset_password' = WithoutReset(h.id)
     /\ opened' = [opened EXCEPT ![h.row.code] = @ + 1]
     /\ Becomes(r, Idle)
     /\ UNCHANGED <<clock, process, email_verification, token, generated, letters>>

\* The DELETE goes by id, whatever the row holds by now.
DropCommits(r) ==
  /\ request[r].pc = "dropping"
  /\ \/ /\ request[r].op = "signup"
        /\ email_verification' = [email_verification EXCEPT ![request[r].id] = Absent]
        /\ UNCHANGED reset_password
     \/ /\ request[r].op = "forgot"
        /\ reset_password' = [reset_password EXCEPT ![request[r].id] = Absent]
        /\ UNCHANGED email_verification
  /\ Becomes(r, Idle)
  /\ UNCHANGED <<clock, process, user, token, generated, history>>

-----------------------------------------------------------------------------
(* Login, logout and tokens *)

\* The password that is typed is that of the row.
LoginLoads(r, u) ==
  /\ Arrives(r)
  /\ user[u].password # Null
  /\ Becomes(r, [pc |-> "granting", user |-> u, at |-> clock])
  /\ UNCHANGED <<clock, process, tables, generated, history>>

\* swagger_form_token goes by username, email_signin by email.
FormToken(r, u) == u \in Users /\ LoginLoads(r, u)
EmailSignin(r, u) == u \in Users /\ user[u].email # Null /\ LoginLoads(r, u)

\* generate_token_from_user
Grants(r) ==
  LET h == request[r]
  IN /\ h.pc = "granting"
     /\ token' = token \cup {[user |-> h.user, expired_at |-> h.at + TokenLife]}
     /\ Becomes(r, Idle)
     /\ UNCHANGED <<clock, process, user, email_verification, reset_password,
                    generated, history>>

Dead(t) == t.expired_at <= clock
\* invalidate_token: every expired token, and those with this string.
Invalidated(t) == {s \in token : ~Dead(s) /\ s # t}

Logout(r, t) ==
  /\ Arrives(r)
  /\ t \in token /\ ~Dead(t)
  /\ token' = Invalidated(t)
  /\ UNCHANGED <<clock, process, user, email_verification, reset_password,
                 generated, history, request>>

\* get_user_from_token with a token that is expired: any request may carry one.
Refuse(r, t) ==
  /\ Arrives(r)
  /\ t \in token /\ Dead(t)
  /\ token' = Invalidated(t)
  /\ UNCHANGED <<clock, process, user, email_verification, reset_password,
                 generated, history, request>>

-----------------------------------------------------------------------------
(* GitHub and Google: _find_or_create_user, after the provider has told who *)
(* it is                                                                    *)

WithProviderId(a) == {u \in Users : user[u].provider_id = a}
ByAddress(a) ==
  {u \in Users : AddressOf[a] \in {user[u].username, user[u].google_email}}

Found(a) ==
  IF WithProviderId(a) # {} THEN WithProviderId(a)
  ELSE IF AddressOf[a] # Null THEN ByAddress(a) ELSE {}

ProviderLoads(r, a) ==
  /\ Arrives(r)
  /\ \/ /\ Found(a) = {} /\ UsersLeft
        /\ Becomes(r, [pc |-> "meeting", account |-> a, user |-> Null])
     \/ \E u \in Found(a) :
          Becomes(r, [pc |-> "meeting", account |-> a, user |-> u])
  /\ UNCHANGED <<clock, process, tables, generated, history>>

GithubVerified(r) == \E a \in Account \ Google : ProviderLoads(r, a)
GoogleVerified(r) == \E a \in Google : ProviderLoads(r, a)

UsernameFor(a) == IF AddressOf[a] # Null THEN AddressOf[a] ELSE Nickname

\* _set_user_provider_fields: only GitHub's sets email.
ProviderUser(a) ==
  [username |-> UsernameFor(a),
   email |-> IF a \in Google THEN Null ELSE AddressOf[a],
   password |-> Null,
   google_email |-> IF a \in Google THEN AddressOf[a] ELSE Null,
   provider_id |-> a]

\* Mutant: a user of a provider has no password any more.
WithoutPassword(a, u) == [user EXCEPT ![u].password = Null]
\* _update_user_provider_info of a user that was found leaves its provider_id.
Recognised(a, u) ==
  IF a \in Google THEN [user EXCEPT ![u].google_email = AddressOf[a]] ELSE user

ProviderCommits(r) ==
  LET a == request[r].account
  IN /\ request[r].pc = "meeting"
     /\ \/ /\ request[r].user = Null
           /\ \E u \in User \ Users :
                /\ user' = [user EXCEPT ![u] = ProviderUser(a)]
                /\ Becomes(r, [pc |-> "granting", user |-> u, at |-> clock])
        \/ /\ request[r].user # Null
           /\ user' = Recognised(a, request[r].user)
           /\ Becomes(r, [pc |-> "granting", user |-> request[r].user, at |-> clock])
     /\ UNCHANGED <<clock, process, email_verification, reset_password, token,
                    generated, history>>

-----------------------------------------------------------------------------
Tick ==
  /\ clock < MaxTime
  /\ clock' = clock + 1
  /\ UNCHANGED <<process, tables, generated, history, request>>

\* A process dies, or the database fails: a rollback.
Crash(r) ==
  /\ request[r] # Idle
  /\ Becomes(r, Idle)
  /\ UNCHANGED <<clock, process, tables, generated, history>>

Step(r) ==
  \/ \E e \in Email : SignUpLoads(r, e)
  \/ \E u \in User : ForgotLoads(r, u) \/ FormToken(r, u) \/ EmailSignin(r, u)
  \/ MailSent(r) \/ MailFails(r)
  \/ SignUpCommits(r) \/ ForgotCommits(r)
  \/ \E i \in Code : VerifyLoads(r, i) \/ ResetLoads(r, i)
  \/ VerifyCommits(r) \/ ResetCommits(r) \/ DropCommits(r)
  \/ Grants(r)
  \/ \E t \in token : Logout(r, t) \/ Refuse(r, t)
  \/ GithubVerified(r) \/ GoogleVerified(r) \/ ProviderCommits(r)
  \/ Crash(r)

Next == Tick \/ \E r \in Request : Step(r)

Spec == Init /\ [][Next]_vars

-----------------------------------------------------------------------------
(* Properties *)

\* Requests never overlap between a SELECT and a commit without an await.
Single == \A q, r \in Request : process[q] = process[r]

\* The commit comes after the mail (db.commit() at the end of email_signup and
\* forgot_password): a code that opens something was mailed to the person it
\* is about, also when another sign-up rewrote the row since.
CodesAreMailed ==
  /\ \A i \in Verifications :
       [op |-> "signup", code |-> email_verification[i].code,
        email |-> email_verification[i].email,
        password |-> email_verification[i].password] \in letters
  /\ \A i \in Resets :
       [op |-> "forgot", code |-> reset_password[i].code,
        user |-> reset_password[i].user] \in letters

\* Whoever opens a link gets the account with the address it was mailed to
\* and the password typed in that sign-up, not the one of a sign-up before it
\* or beside it (email_verified).
AccountMatchesItsLink ==
  [][\A u \in User : user[u] = Absent /\ user'[u] # Absent =>
       \/ user'[u].provider_id # Null
       \/ \E l \in letters : /\ l.op = "signup" /\ l.email = user'[u].email
                             /\ l.password = user'[u].password
                             /\ opened'[l.code] > opened[l.code]]_vars

\* A password changes by a link that was mailed for this user, and by nothing
\* else (reset_password; an OAuth login of the same address leaves it).
PasswordChangesByMail ==
  [][\A u \in Users : user'[u].password # user[u].password =>
       \E l \in letters : /\ l.op = "forgot" /\ l.user = u
                          /\ opened'[l.code] > opened[l.code]]_vars

\* A link works once (its row is deleted in the commit that uses it), where
\* one process serves all requests.
LinksWorkOnce == Single => \A k \in Code : opened[k] <= 1

\* "Email already registered", "Email sudah terdaftar": of the users that
\* signed up by mail no two have one address, where one process serves all.
OneUserPerAddress ==
  Single => \A u, v \in Users :
    /\ user[u].provider_id = Null /\ user[v].provider_id = Null
    /\ user[u].email = user[v].email
    => u = v

\* A person whose accounts at the providers have one address has one user, in
\* whatever order they log in (_find_or_create_user), where one process serves
\* all requests.
OneUserPerProviderAddress ==
  Single => \A u, v \in Users :
    LET a == user[u].provider_id
        b == user[v].provider_id
    IN a # Null /\ b # Null /\ AddressOf[a] # Null /\ AddressOf[a] = AddressOf[b]
       => u = v

\* Both: one person, one user.
OnePersonOneUser == OneUserPerAddress /\ OneUserPerProviderAddress
=============================================================================
