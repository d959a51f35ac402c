---------------------------- MODULE AccountsProofs ----------------------------
(***************************************************************************)
(* For any users, addresses, codes, accounts, requests and processes: what *)
(* a link opens was mailed, and the account and the password that come of  *)
(* it are those of the mail.                                               *)
(*                                                                         *)
(* A handler writes what it loaded before it awaited the mail.  That is    *)
(* sound because the code it brings is nobody else's (Apart), and because  *)
(* the row it found, if it is still there, is still about the same address *)
(* or user (Fits): its id was given out once.                              *)
(***************************************************************************)
EXTENDS Accounts, TLAPS

Local == {Idle} \cup SigningUp \cup Forgetting \cup Verifying \cup Resetting \cup Dropping
           \cup Meeting \cup Granting
Mailing(h) == h.pc \in {"mailing", "mailed"}

SignUpLetterOf(row) ==
  [op |-> "signup", code |-> row.code, email |-> row.email, password |-> row.password]
ResetLetterOf(row) == [op |-> "forgot", code |-> row.code, user |-> row.user]

\* The locals of a handler fit the tables v and z of verifications and resets,
\* the codes c, the letters l and the users u.
Fits(h, v, z, c, l, u) ==
  /\ Mailing(h) => h.code \in c /\ v[h.code] = Absent /\ z[h.code] = Absent
  /\ Mailing(h) => h.row \in c \cup {Null}
  /\ Mailing(h) /\ h.op = "signup" /\ h.row # Null /\ v[h.row] # Absent =>
       v[h.row].email = h.email
  /\ Mailing(h) /\ h.op = "forgot" => u[h.user] # Absent
  /\ Mailing(h) /\ h.op = "forgot" /\ h.row # Null /\ z[h.row] # Absent =>
       z[h.row].user = h.user
  /\ h.pc = "mailed" => Letter(h) \in l
  /\ h.pc = "verifying" => SignUpLetterOf(h.row) \in l
  /\ h.pc = "resetting" => ResetLetterOf(h.row) \in l /\ u[h.row.user] # Absent
  /\ h.pc = "meeting" /\ h.user # Null => u[h.user] # Absent

\* Every code is brought by one handler, and none rewrites the row of another's.
Apart ==
  \A r, s \in Request : r # s /\ Mailing(request[r]) /\ Mailing(request[s]) =>
    request[r].code # request[s].code /\ request[s].row # request[r].code

\* Rows have ids that were given out, letters that were sent, and users.
VerificationsFit(v, c, l) ==
  \A i \in Code : v[i] # Absent => i \in c /\ SignUpLetterOf(v[i]) \in l
ResetsFit(z, c, l, u) ==
  \A i \in Code : z[i] # Absent => i \in c /\ ResetLetterOf(z[i]) \in l /\ u[z[i].user] # Absent

IInv ==
  /\ TypeOK
  /\ \A r \in Request :
       Fits(request[r], email_verification, reset_password, generated, letters, user)
  /\ Apart
  /\ VerificationsFit(email_verification, generated, letters)
  /\ ResetsFit(reset_password, generated, letters, user)

-----------------------------------------------------------------------------
LEMMA LemmaInit ==
  ASSUME Init
  PROVE  IInv
<1>1. TypeOK
  BY DEF Init, TypeOK
<1>2. ~Mailing(Idle) /\ Idle.pc = "idle"
  BY DEF Mailing, Idle
<1>3. \A r \in Request : request[r] = Idle
  BY DEF Init
<1>4. /\ \A i \in Code : email_verification[i] = Absent /\ reset_password[i] = Absent
  BY DEF Init
<1>5. \A r \in Request :
        Fits(request[r], email_verification, reset_password, generated, letters, user)
  BY <1>2, <1>3 DEF Fits
<1>6. Apart
  BY <1>2, <1>3 DEF Apart
<1>7. /\ VerificationsFit(email_verification, generated, letters)
      /\ ResetsFit(reset_password, generated, letters, user)
  BY <1>4 DEF VerificationsFit, ResetsFit
<1> QED  BY <1>1, <1>5, <1>6, <1>7 DEF IInv

\* The shapes of the locals.
LEMMA LemmaShape ==
  ASSUME NEW h \in Local
  PROVE  /\ Mailing(h) => h.code \in Code /\ h.row \in Code \cup {Null}
         /\ Mailing(h) => h.op \in {"signup", "forgot"}
         /\ Mailing(h) /\ h.op = "signup" => h \in SigningUp
         /\ Mailing(h) /\ h.op = "forgot" => h \in Forgetting
         /\ h.pc = "verifying" => h \in Verifying
         /\ h.pc = "resetting" => h \in Resetting
         /\ h.pc = "dropping" => h \in Dropping
         /\ h.pc = "meeting" => h \in Meeting
         /\ h.pc = "granting" => h \in Granting
BY DEF Local, Mailing, Idle, SigningUp, Forgetting, Verifying, Resetting, Dropping, Meeting,
       Granting

\* A step of r that inserts at most the row k, keeps what rows are about and
\* deletes no user leaves the locals of the others in order.
LEMMA LemmaStep ==
  ASSUME AccountsAssumption, IInv, NEW r \in Request, NEW h \in Local, NEW k \in Code \cup {Null},
         request' = [request EXCEPT ![r] = h],
         Fits(h, email_verification', reset_password', generated', letters', user'),
         \/ ~Mailing(h)
         \/ h.code \notin generated /\ (h.row = Null \/ email_verification[h.row] # Absent
                                                     \/ reset_password[h.row] # Absent)
         \/ /\ Mailing(request[r])
            /\ h.code = request[r].code /\ h.row = request[r].row,
         k = Null \/ (Mailing(request[r]) /\ k = request[r].code),
         generated \subseteq generated', letters \subseteq letters',
         \A u \in User : user[u] # Absent => user'[u] # Absent,
         \A i \in Code : i # k /\ email_verification'[i] # Absent =>
           /\ email_verification[i] # Absent
           /\ email_verification'[i].email = email_verification[i].email,
         \A i \in Code : i # k /\ reset_password'[i] # Absent =>
           /\ reset_password[i] # Absent
           /\ reset_password'[i].user = reset_password[i].user,
         VerificationsFit(email_verification', generated', letters'),
         ResetsFit(reset_password', generated', letters', user'),
         clock' \in Nat, process' = process,
         user' \in [User -> UserRow \cup {Absent}],
         email_verification' \in [Code -> VerificationRow \cup {Absent}],
         reset_password' \in [Code -> ResetRow \cup {Absent}],
         token' \subseteq Token, generated' \subseteq Code,
         letters' \subseteq SignUpLetter \cup ResetLetter, opened' \in [Code -> Nat]
  PROVE  IInv'
<1>1. request \in [Request -> Local] /\ process \in [Request -> Process]
  BY DEF IInv, TypeOK, Local
<1>2. \A s \in Request : request'[s] = IF s = r THEN h ELSE request[s]
  BY <1>1
<1>3. request' \in [Request -> Local]
  BY <1>1
<1>4. TypeOK'
  BY <1>1, <1>3 DEF TypeOK, Local
<1>5. ASSUME NEW s \in Request, s # r
      PROVE  Fits(request[s], email_verification', reset_password', generated', letters', user')
  <2> DEFINE g == request[s]
  <2>1. Fits(g, email_verification, reset_password, generated, letters, user)
    BY DEF IInv
  <2>2. g \in Local
    BY <1>1
  <2>3. Mailing(g) => /\ g.code \in Code /\ g.row \in Code \cup {Null}
                      /\ g.code # k /\ (g.row # k \/ g.row = Null)
    BY <1>5, <2>2, LemmaShape DEF IInv, Apart
  <2>4. /\ Mailing(g) /\ g.op = "forgot" => g.user \in User
        /\ g.pc = "resetting" => g.row.user \in User
        /\ g.pc = "meeting" /\ g.user # Null => g.user \in User
    BY <2>2, LemmaShape DEF Forgetting, Resetting, Meeting, ResetRow
  <2> HIDE DEF g
  <2>5. Mailing(g) => /\ g.code \in generated'
                      /\ email_verification'[g.code] = Absent /\ reset_password'[g.code] = Absent
    BY <2>1, <2>3 DEF Fits
  <2>6. Mailing(g) => g.row \in generated' \cup {Null}
    BY <2>1 DEF Fits
  <2>7. Mailing(g) /\ g.op = "signup" /\ g.row # Null /\ email_verification'[g.row] # Absent =>
          email_verification'[g.row].email = g.email
    BY <2>1, <2>3 DEF Fits
  <2>8. Mailing(g) /\ g.op = "forgot" => user'[g.user] # Absent
    BY <2>1, <2>4 DEF Fits
  <2>9. Mailing(g) /\ g.op = "forgot" /\ g.row # Null /\ reset_password'[g.row] # Absent =>
          reset_password'[g.row].user = g.user
    BY <2>1, <2>3 DEF Fits
  <2>10. /\ g.pc = "mailed" => Letter(g) \in letters'
         /\ g.pc = "verifying" => SignUpLetterOf(g.row) \in letters'
         /\ g.pc = "resetting" => ResetLetterOf(g.row) \in letters'
    BY <2>1 DEF Fits
  <2>11. /\ g.pc = "resetting" => user'[g.row.user] # Absent
         /\ g.pc = "meeting" /\ g.user # Null => user'[g.user] # Absent
    BY <2>1, <2>4 DEF Fits
  <2>12. Fits(g, email_verification', reset_password', generated', letters', user')
    BY <2>5, <2>6, <2>7, <2>8, <2>9, <2>10, <2>11 DEF Fits
  <2> QED  BY <2>12 DEF g
<1>6. \A s \in Request :
        Fits(request'[s], email_verification', reset_password', generated', letters', user')
  BY <1>2, <1>5
<1>7. Apart'
  <2>1. ASSUME NEW s \in Request, s # r, Mailing(request[s]), Mailing(h)
        PROVE  /\ request[s].code # h.code /\ h.row # request[s].code
               /\ request[s].row # h.code
    <3>1. Fits(request[s], email_verification, reset_password, generated, letters, user)
      BY DEF IInv
    <3>2. /\ request[s].code \in generated
          /\ email_verification[request[s].code] = Absent /\ reset_password[request[s].code] = Absent
          /\ request[s].row \in generated \cup {Null}
      BY <2>1, <3>1 DEF Fits
    <3>3. h.code \in Code /\ request[s].code \in Code
      BY <1>1, <2>1, LemmaShape
    <3>4. CASE Mailing(request[r]) /\ h.code = request[r].code /\ h.row = request[r].row
      BY <2>1, <3>4 DEF IInv, Apart
    <3>5. CASE h.code \notin generated /\ (h.row = Null \/ email_verification[h.row] # Absent
                                                        \/ reset_password[h.row] # Absent)
      BY <3>2, <3>3, <3>5 DEF AccountsAssumption
    <3> QED  BY <2>1, <3>4, <3>5
  <2>2. ASSUME NEW s \in Request, NEW t \in Request, s # t, Mailing(request'[s]), Mailing(request'[t])
        PROVE  request'[s].code # request'[t].code /\ request'[t].row # request'[s].code
    <3>1. CASE s # r /\ t # r
      BY <1>2, <2>2, <3>1 DEF IInv, Apart
    <3>2. CASE s = r
      BY <1>2, <2>1, <2>2, <3>2
    <3>3. CASE t = r
      BY <1>2, <2>1, <2>2, <3>3
    <3> QED  BY <3>1, <3>2, <3>3
  <2> QED  BY <2>2 DEF Apart, Mailing
<1> QED  BY <1>4, <1>6, <1>7 DEF IInv

\* A step of r that touches neither the links nor the letters.
LEMMA LemmaPlain ==
  ASSUME AccountsAssumption, IInv, NEW r \in Request, NEW h \in Local,
         request' = [request EXCEPT ![r] = h], ~Mailing(h),
         Fits(h, email_verification, reset_password, generated, letters, user'),
         \A u \in User : user[u] # Absent => user'[u] # Absent,
         user' \in [User -> UserRow \cup {Absent}], token' \subseteq Token,
         UNCHANGED <<clock, process, email_verification, reset_password, generated, letters, opened>>
  PROVE  IInv'
<1>1. /\ VerificationsFit(email_verification, generated, letters)
      /\ ResetsFit(reset_password, generated, letters, user)
  BY DEF IInv
<1>2. \A i \in Code : reset_password[i] # Absent => reset_password[i].user \in User
  BY DEF IInv, TypeOK, ResetRow
<1>3. /\ VerificationsFit(email_verification', generated', letters')
      /\ ResetsFit(reset_password', generated', letters', user')
  BY <1>1, <1>2 DEF VerificationsFit, ResetsFit
<1>4. /\ clock' \in Nat /\ generated' \subseteq Code
      /\ email_verification' \in [Code -> VerificationRow \cup {Absent}]
      /\ reset_password' \in [Code -> ResetRow \cup {Absent}]
      /\ letters' \subseteq SignUpLetter \cup ResetLetter /\ opened' \in [Code -> Nat]
  BY DEF IInv, TypeOK
<1>5. Fits(h, email_verification', reset_password', generated', letters', user')
  OBVIOUS
<1>6. Null \in Code \cup {Null}
  OBVIOUS
<1> QED  BY <1>3, <1>4, <1>5, <1>6, LemmaStep

\* A handler without locals.
LEMMA LemmaIdle ==
  /\ Idle \in Local /\ ~Mailing(Idle)
  /\ \A v, z, c, l, u : Fits(Idle, v, z, c, l, u)
<1>1. Idle \in Local /\ ~Mailing(Idle) /\ Idle.pc = "idle"
  BY DEF Local, Mailing, Idle
<1> QED  BY <1>1 DEF Fits

LEMMA LemmaCrash ==
  ASSUME AccountsAssumption, IInv, NEW r \in Request, Becomes(r, Idle),
         UNCHANGED <<clock, process, tables, generated, history>>
  PROVE  IInv'
<1>1. user' \in [User -> UserRow \cup {Absent}] /\ token' \subseteq Token
  BY DEF IInv, TypeOK, tables
<1>2. Fits(Idle, email_verification, reset_password, generated, letters, user')
  BY LemmaIdle
<1> QED  BY <1>1, <1>2, LemmaIdle, LemmaPlain DEF Becomes, tables, history

\* The tables of links still fit when only codes and letters come.
LEMMA LemmaTables ==
  ASSUME IInv, UNCHANGED <<email_verification, reset_password>>,
         generated \subseteq generated', letters \subseteq letters',
         \A u \in User : user[u] # Absent => user'[u] # Absent
  PROVE  /\ VerificationsFit(email_verification', generated', letters')
         /\ ResetsFit(reset_password', generated', letters', user')
<1>1. /\ VerificationsFit(email_verification, generated, letters)
      /\ ResetsFit(reset_password, generated, letters, user)
  BY DEF IInv
<1>2. \A i \in Code : reset_password[i] # Absent => reset_password[i].user \in User
  BY DEF IInv, TypeOK, ResetRow
<1> QED  BY <1>1, <1>2 DEF VerificationsFit, ResetsFit

\* A handler that begins to mail: its code is fresh, its row one that was found.
LEMMA LemmaMails ==
  ASSUME AccountsAssumption, IInv, NEW r \in Request, NEW h \in Local, NEW k \in Code \ generated,
         h.pc = "mailing", h.code = k, h.row \in Code \cup {Null},
         h.op = "signup" => h.row = Null \/ (/\ email_verification[h.row] # Absent
                                             /\ email_verification[h.row].email = h.email),
         h.op = "forgot" => /\ h.user \in User /\ user[h.user] # Absent
                            /\ h.row = Null \/ (/\ reset_password[h.row] # Absent
                                                /\ reset_password[h.row].user = h.user),
         Becomes(r, h), generated' = generated \cup {k},
         UNCHANGED <<clock, process, tables, history>>
  PROVE  IInv'
<1>1. /\ VerificationsFit(email_verification, generated, letters)
      /\ ResetsFit(reset_password, generated, letters, user)
  BY DEF IInv
<1>2. /\ Mailing(h) /\ h.op \in {"signup", "forgot"}
  BY LemmaShape DEF Mailing
<1>3. email_verification[k] = Absent /\ reset_password[k] = Absent
  BY <1>1 DEF VerificationsFit, ResetsFit
<1>4. h.row \in generated \cup {Null}
  BY <1>1, <1>2 DEF VerificationsFit, ResetsFit
<1>5. Fits(h, email_verification, reset_password, generated', letters, user)
  BY <1>2, <1>3, <1>4 DEF Fits
<1>6. /\ email_verification' = email_verification /\ reset_password' = reset_password
      /\ user' = user /\ token' = token /\ letters' = letters /\ opened' = opened
      /\ clock' = clock /\ process' = process
  BY DEF tables, history
<1>7. Fits(h, email_verification', reset_password', generated', letters', user')
  BY <1>5, <1>6
<1>8. /\ VerificationsFit(email_verification', generated', letters')
      /\ ResetsFit(reset_password', generated', letters', user')
  BY <1>6, LemmaTables
<1>9. /\ clock' \in Nat /\ generated' \subseteq Code
      /\ user' \in [User -> UserRow \cup {Absent}] /\ token' \subseteq Token
      /\ email_verification' \in [Code -> VerificationRow \cup {Absent}]
      /\ reset_password' \in [Code -> ResetRow \cup {Absent}]
      /\ letters' \subseteq SignUpLetter \cup ResetLetter /\ opened' \in [Code -> Nat]
  BY <1>6 DEF IInv, TypeOK
<1>10. request' = [request EXCEPT ![r] = h]
  BY DEF Becomes
<1>11. h.code \notin generated /\ (h.row = Null \/ email_verification[h.row] # Absent
                                                \/ reset_password[h.row] # Absent)
  BY <1>2
<1>12. Null \in Code \cup {Null}
  OBVIOUS
<1>13. generated \subseteq generated' /\ letters \subseteq letters'
  BY <1>6
<1> QED  BY <1>6, <1>7, <1>8, <1>9, <1>10, <1>11, <1>12, <1>13, LemmaStep

LEMMA LemmaSignUpLoads ==
  ASSUME AccountsAssumption, IInv, NEW r \in Request, NEW e \in Email, SignUpLoads(r, e)
  PROVE  IInv'
<1> DEFINE found == {i \in Verifications : email_verification[i].email = e}
           local(k, n, p) ==
             [pc |-> "mailing", op |-> "signup", email |-> e,
              username |-> n, password |-> p, code |-> k,
              expired_at |-> clock + CodeLife, row |-> Null, was |-> n]
<1>1. PICK k \in Code \ generated, n \in Name, p \in Password :
        /\ generated' = generated \cup {k}
        /\ \/ found = {} /\ Becomes(r, local(k, n, p))
           \/ \E i \in found : Becomes(r, [local(k, n, p) EXCEPT !.row = i,
                                              !.was = email_verification[i].username])
  BY DEF SignUpLoads
<1>2. UNCHANGED <<clock, process, tables, history>>
  BY DEF SignUpLoads
<1>3. clock + CodeLife \in Nat
  BY DEF IInv, TypeOK, AccountsAssumption
<1>4. CASE Becomes(r, local(k, n, p))
  <2> DEFINE h == local(k, n, p)
  <2>1. h \in Local
    BY <1>1, <1>3 DEF Local, SigningUp
  <2>2. h.pc = "mailing" /\ h.code = k /\ h.row = Null /\ h.op = "signup"
    OBVIOUS
  <2> HIDE DEF h, local, found
  <2>3. Becomes(r, h)
    BY <1>4 DEF h
  <2> QED  BY <1>1, <1>2, <2>1, <2>2, <2>3, LemmaMails
<1>5. ASSUME NEW i \in found, Becomes(r, [local(k, n, p) EXCEPT !.row = i,
                                              !.was = email_verification[i].username])
      PROVE  IInv'
  <2> DEFINE h == [local(k, n, p) EXCEPT !.row = i, !.was = email_verification[i].username]
  <2>1. /\ i \in Code /\ email_verification[i] # Absent
        /\ email_verification[i].email = e /\ email_verification[i].username \in Name
    BY <1>5 DEF Verifications, IInv, TypeOK, VerificationRow
  <2>2. h \in Local
    BY <1>1, <1>3, <2>1 DEF Local, SigningUp
  <2>3. h.pc = "mailing" /\ h.code = k /\ h.row = i /\ h.op = "signup" /\ h.email = e
    OBVIOUS
  <2> HIDE DEF h, local, found
  <2>4. Becomes(r, h)
    BY <1>5 DEF h
  <2> QED  BY <1>1, <1>2, <2>1, <2>2, <2>3, <2>4, LemmaMails
<1> QED  BY <1>1, <1>4, <1>5

LEMMA LemmaForgotLoads ==
  ASSUME AccountsAssumption, IInv, NEW r \in Request, NEW u \in User, ForgotLoads(r, u)
  PROVE  IInv'
<1> DEFINE found == {i \in Resets : reset_password[i].user = u}
           local(k) == [pc |-> "mailing", op |-> "forgot", user |-> u, code |-> k,
                        expired_at |-> clock + CodeLife, row |-> Null]
<1>1. PICK k \in Code \ generated :
        /\ generated' = generated \cup {k}
        /\ \/ found = {} /\ Becomes(r, local(k))
           \/ \E i \in found : Becomes(r, [local(k) EXCEPT !.row = i])
  BY DEF ForgotLoads
<1>2. UNCHANGED <<clock, process, tables, history>> /\ user[u] # Absent
  BY DEF ForgotLoads, Users
<1>3. clock + CodeLife \in Nat
  BY DEF IInv, TypeOK, AccountsAssumption
<1>4. CASE Becomes(r, local(k))
  <2> DEFINE h == local(k)
  <2>1. h \in Local
    BY <1>1, <1>3 DEF Local, Forgetting
  <2>2. h.pc = "mailing" /\ h.code = k /\ h.row = Null /\ h.op = "forgot" /\ h.user = u
    OBVIOUS
  <2> HIDE DEF h, local, found
  <2>3. Becomes(r, h)
    BY <1>4 DEF h
  <2> QED  BY <1>1, <1>2, <2>1, <2>2, <2>3, LemmaMails
<1>5. ASSUME NEW i \in found, Becomes(r, [local(k) EXCEPT !.row = i])
      PROVE  IInv'
  <2> DEFINE h == [local(k) EXCEPT !.row = i]
  <2>1. i \in Code /\ reset_password[i] # Absent /\ reset_password[i].user = u
    BY <1>5 DEF Resets
  <2>2. h \in Local
    BY <1>1, <1>3, <2>1 DEF Local, Forgetting
  <2>3. h.pc = "mailing" /\ h.code = k /\ h.row = i /\ h.op = "forgot" /\ h.user = u
    OBVIOUS
  <2> HIDE DEF h, local, found
  <2>4. Becomes(r, h)
    BY <1>5 DEF h
  <2> QED  BY <1>1, <1>2, <2>1, <2>2, <2>3, <2>4, LemmaMails
<1> QED  BY <1>1, <1>4, <1>5

\* A step that only sends at most one letter.
LEMMA LemmaLetters ==
  ASSUME AccountsAssumption, IInv, NEW r \in Request, NEW h \in Local, Becomes(r, h),
         \/ ~Mailing(h)
         \/ Mailing(request[r]) /\ h.code = request[r].code /\ h.row = request[r].row,
         Fits(h, email_verification, reset_password, generated, letters', user),
         letters \subseteq letters', letters' \subseteq SignUpLetter \cup ResetLetter,
         UNCHANGED <<clock, process, tables, generated, opened>>
  PROVE  IInv'
<1>1. /\ email_verification' = email_verification /\ reset_password' = reset_password
      /\ user' = user /\ token' = token /\ generated' = generated /\ opened' = opened
      /\ clock' = clock /\ process' = process
  BY DEF tables
<1>2. Fits(h, email_verification', reset_password', generated', letters', user')
  BY <1>1
<1>3. /\ VerificationsFit(email_verification', generated', letters')
      /\ ResetsFit(reset_password', generated', letters', user')
  BY <1>1, LemmaTables
<1>4. /\ clock' \in Nat /\ generated' \subseteq Code
      /\ user' \in [User -> UserRow \cup {Absent}] /\ token' \subseteq Token
      /\ email_verification' \in [Code -> VerificationRow \cup {Absent}]
      /\ reset_password' \in [Code -> ResetRow \cup {Absent}]
      /\ opened' \in [Code -> Nat]
  BY <1>1 DEF IInv, TypeOK
<1>5. request' = [request EXCEPT ![r] = h] /\ Null \in Code \cup {Null}
  BY DEF Becomes
<1> QED  BY <1>1, <1>2, <1>3, <1>4, <1>5, LemmaStep

LEMMA LemmaLetterType ==
  ASSUME NEW h \in Local, Mailing(h)
  PROVE  Letter(h) \in SignUpLetter \cup ResetLetter
<1>1. CASE h.op = "signup"
  <2>1. h \in SigningUp
    BY <1>1, LemmaShape
  <2> QED  BY <1>1, <2>1 DEF SigningUp, SignUpLetter, Letter
<1>2. CASE h.op = "forgot"
  <2>1. h \in Forgetting
    BY <1>2, LemmaShape
  <2> QED  BY <1>2, <2>1 DEF Forgetting, ResetLetter, Letter
<1> QED  BY <1>1, <1>2, LemmaShape

LEMMA LemmaMailSent ==
  ASSUME AccountsAssumption, IInv, NEW r \in Request, MailSent(r)
  PROVE  IInv'
<1> DEFINE g == request[r]
           h == [g EXCEPT !.pc = "mailed"]
<1>1. g \in Local /\ g.pc = "mailing" /\ Mailing(g)
  BY DEF IInv, TypeOK, Local, MailSent, Mailing
<1>2. Fits(g, email_verification, reset_password, generated, letters, user)
  BY DEF IInv
<1>3. g \in SigningUp \/ g \in Forgetting
  BY <1>1, LemmaShape
<1>4. h \in Local
  BY <1>3 DEF Local, SigningUp, Forgetting
<1>5. /\ h.pc = "mailed" /\ h.op = g.op /\ h.code = g.code /\ h.row = g.row
      /\ g.op = "signup" => h.email = g.email
      /\ g.op = "forgot" => h.user = g.user
  BY <1>3 DEF SigningUp, Forgetting
<1>6. Letter(h) = Letter(g)
  BY <1>3 DEF Letter, SigningUp, Forgetting
<1>7. Becomes(r, h) /\ letters' = letters \cup {Letter(g)}
      /\ UNCHANGED <<clock, process, tables, generated, opened>>
  BY DEF MailSent
<1>8. letters' \subseteq SignUpLetter \cup ResetLetter
  BY <1>1, <1>7, LemmaLetterType DEF IInv, TypeOK
<1> HIDE DEF h
<1>9. Mailing(h) /\ h.pc = "mailed"
  BY <1>5 DEF Mailing
<1>10. Fits(h, email_verification, reset_password, generated, letters', user)
  BY <1>1, <1>2, <1>5, <1>6, <1>7, <1>9 DEF Fits
<1> QED  BY <1>1, <1>4, <1>5, <1>7, <1>8, <1>10, LemmaLetters

LEMMA LemmaMailFails ==
  ASSUME AccountsAssumption, IInv, NEW r \in Request, MailFails(r)
  PROVE  IInv'
<1>1. request[r] \in Local /\ Mailing(request[r])
  BY DEF IInv, TypeOK, Local, MailFails, Mailing
<1>2. letters \subseteq letters' /\ letters' \subseteq SignUpLetter \cup ResetLetter
  BY <1>1, LemmaLetterType DEF IInv, TypeOK, MailFails
<1>3. Fits(Idle, email_verification, reset_password, generated, letters', user)
  BY LemmaIdle
<1>4. Becomes(r, Idle) /\ UNCHANGED <<clock, process, tables, generated, opened>>
  BY DEF MailFails
<1> QED  BY <1>2, <1>3, <1>4, LemmaIdle, LemmaLetters

\* A commit: r is done, and inserted at most the row k.
LEMMA LemmaCommits ==
  ASSUME AccountsAssumption, IInv, NEW r \in Request, NEW k \in Code \cup {Null}, Becomes(r, Idle),
         k = Null \/ (Mailing(request[r]) /\ k = request[r].code),
         \A u \in User : user[u] # Absent => user'[u] # Absent,
         \A i \in Code : i # k /\ email_verification'[i] # Absent =>
           /\ email_verification[i] # Absent
           /\ email_verification'[i].email = email_verification[i].email,
         \A i \in Code : i # k /\ reset_password'[i] # Absent =>
           /\ reset_password[i] # Absent
           /\ reset_password'[i].user = reset_password[i].user,
         VerificationsFit(email_verification', generated, letters),
         ResetsFit(reset_password', generated, letters, user'),
         user' \in [User -> UserRow \cup {Absent}],
         email_verification' \in [Code -> VerificationRow \cup {Absent}],
         reset_password' \in [Code -> ResetRow \cup {Absent}],
         opened' \in [Code -> Nat],
         UNCHANGED <<clock, process, token, generated, letters>>
  PROVE  IInv'
<1>1. /\ clock' \in Nat /\ generated' \subseteq Code /\ token' \subseteq Token
      /\ letters' \subseteq SignUpLetter \cup ResetLetter
  BY DEF IInv, TypeOK
<1>2. Fits(Idle, email_verification', reset_password', generated', letters', user')
  BY LemmaIdle
<1>3. /\ VerificationsFit(email_verification', generated', letters')
      /\ ResetsFit(reset_password', generated', letters', user')
  OBVIOUS
<1>4. request' = [request EXCEPT ![r] = Idle]
  BY DEF Becomes
<1>5. generated \subseteq generated' /\ letters \subseteq letters' /\ process' = process
  OBVIOUS
<1> QED  BY <1>1, <1>2, <1>3, <1>4, <1>5, LemmaIdle, LemmaStep

\* The row that a sign-up commits has the code and the password of its letter.
LEMMA LemmaSignUpCommits ==
  ASSUME AccountsAssumption, IInv, NEW r \in Request, SignUpCommits(r)
  PROVE  IInv'
<1> DEFINE g == request[r]
           taken == \E i \in Verifications : email_verification[i].email = g.email
<1>1. /\ g \in Local /\ g.pc = "mailed" /\ g.op = "signup" /\ Mailing(g)
  BY DEF IInv, TypeOK, Local, SignUpCommits, MayCommit, Mailing
<1>2. g \in SigningUp
  BY <1>1, LemmaShape
<1>3. Fits(g, email_verification, reset_password, generated, letters, user)
  BY DEF IInv
<1>4. /\ Becomes(r, Idle)
      /\ email_verification' =
           CASE g.row = Null /\ ~taken ->
                  [email_verification EXCEPT ![g.code] = NewVerification(g)]
             [] g.row \in Verifications ->
                  [email_verification EXCEPT ![g.row] = Renewed(g, @)]
             [] OTHER -> email_verification
      /\ UNCHANGED <<clock, process, user, reset_password, token, generated, letters, opened>>
  BY DEF SignUpCommits, history
<1>5. /\ g.code \in Code /\ g.row \in Code \cup {Null} /\ g.email \in Email
      /\ g.username \in Name /\ g.password \in Password /\ g.expired_at \in Nat
      /\ g.was \in Name
  BY <1>2 DEF SigningUp
<1>6. /\ Letter(g) \in letters /\ g.code \in generated
      /\ Letter(g) = [op |-> "signup", code |-> g.code, email |-> g.email,
                      password |-> g.password]
      /\ g.row # Null /\ email_verification[g.row] # Absent =>
           email_verification[g.row].email = g.email
  BY <1>1, <1>3 DEF Fits, Letter
<1>7. /\ VerificationsFit(email_verification, generated, letters)
      /\ ResetsFit(reset_password, generated, letters, user)
      /\ email_verification \in [Code -> VerificationRow \cup {Absent}]
      /\ reset_password \in [Code -> ResetRow \cup {Absent}]
      /\ user \in [User -> UserRow \cup {Absent}] /\ opened \in [Code -> Nat]
  BY DEF IInv, TypeOK
<1>8. Null \notin Code
  BY DEF AccountsAssumption
<1> HIDE DEF g, taken
<1>9. ASSUME NEW k \in Code \cup {Null}, k = Null \/ k = g.code,
             VerificationsFit(email_verification', generated, letters),
             email_verification' \in [Code -> VerificationRow \cup {Absent}],
             \A i \in Code : i # k /\ email_verification'[i] # Absent =>
               /\ email_verification[i] # Absent
               /\ email_verification'[i].email = email_verification[i].email
      PROVE  IInv'
  <2>1. k = Null \/ (Mailing(request[r]) /\ k = request[r].code)
    BY <1>1, <1>9 DEF g
  <2>2. ResetsFit(reset_password', generated, letters, user')
    BY <1>4, <1>7
  <2>3. \A i \in Code : i # k /\ reset_password'[i] # Absent =>
           /\ reset_password[i] # Absent
           /\ reset_password'[i].user = reset_password[i].user
    BY <1>4
  <2>4. \A u \in User : user[u] # Absent => user'[u] # Absent
    BY <1>4
  <2>5. /\ user' \in [User -> UserRow \cup {Absent}]
        /\ reset_password' \in [Code -> ResetRow \cup {Absent}]
        /\ opened' \in [Code -> Nat]
    BY <1>4, <1>7
  <2> QED  BY <1>4, <1>9, <2>1, <2>2, <2>3, <2>4, <2>5, LemmaCommits
<1>10. CASE g.row = Null /\ ~taken
  <2> DEFINE row == NewVerification(g)
  <2>1. row \in VerificationRow /\ SignUpLetterOf(row) = Letter(g)
    BY <1>5, <1>6 DEF NewVerification, VerificationRow, SignUpLetterOf
  <2>2. email_verification' = [email_verification EXCEPT ![g.code] = row]
    BY <1>4, <1>8, <1>10 DEF Verifications
  <2> HIDE DEF row
  <2>3. \A i \in Code : email_verification'[i] = IF i = g.code THEN row ELSE email_verification[i]
    BY <1>5, <1>7, <2>2
  <2>4. VerificationsFit(email_verification', generated, letters)
    BY <1>6, <1>7, <2>1, <2>3 DEF VerificationsFit
  <2>5. email_verification' \in [Code -> VerificationRow \cup {Absent}]
    BY <1>7, <2>1, <2>2
  <2> QED  BY <1>5, <1>9, <2>3, <2>4, <2>5
<1>11. CASE g.row \in Verifications
  <2> DEFINE row == Renewed(g, email_verification[g.row])
             old == email_verification[g.row]
  <2>1. g.row \in Code /\ old # Absent /\ old \in VerificationRow /\ g.row # Null
    BY <1>7, <1>8, <1>11 DEF Verifications
  <2>2. /\ row \in VerificationRow /\ row.email = old.email /\ row.code = g.code
        /\ row.password = g.password
    BY <1>5, <2>1 DEF Renewed, VerificationRow
  <2>3. old.email = g.email
    BY <1>6, <2>1
  <2>4. email_verification' = [email_verification EXCEPT ![g.row] = row]
    BY <1>4, <1>11, <2>1
  <2> HIDE DEF row, old
  <2>5. SignUpLetterOf(row) = Letter(g)
    BY <1>6, <2>2, <2>3 DEF SignUpLetterOf
  <2>6. \A i \in Code : email_verification'[i] = IF i = g.row THEN row ELSE email_verification[i]
    BY <1>7, <2>1, <2>4
  <2>7. g.row \in generated
    BY <1>7, <2>1 DEF VerificationsFit, old
  <2>8. VerificationsFit(email_verification', generated, letters)
    BY <1>6, <1>7, <2>5, <2>6, <2>7 DEF VerificationsFit
  <2>9. email_verification' \in [Code -> VerificationRow \cup {Absent}]
    BY <1>7, <2>2, <2>4
  <2>10. \A i \in Code : email_verification'[i] # Absent =>
               /\ email_verification[i] # Absent
               /\ email_verification'[i].email = email_verification[i].email
    BY <2>1, <2>2, <2>6 DEF old
  <2> QED  BY <1>9, <2>8, <2>9, <2>10
<1>12. CASE ~(g.row = Null /\ ~taken) /\ g.row \notin Verifications
  <2>1. email_verification' = email_verification
    BY <1>4, <1>12
  <2> QED  BY <1>7, <1>9, <2>1
<1> QED  BY <1>10, <1>11, <1>12

LEMMA LemmaForgotCommits ==
  ASSUME AccountsAssumption, IInv, NEW r \in Request, ForgotCommits(r)
  PROVE  IInv'
<1> DEFINE g == request[r]
           row == ResetFor(g)
<1>1. /\ g \in Local /\ g.pc = "mailed" /\ g.op = "forgot" /\ Mailing(g)
  BY DEF IInv, TypeOK, Local, ForgotCommits, MayCommit, Mailing
<1>2. g \in Forgetting
  BY <1>1, LemmaShape
<1>3. Fits(g, email_verification, reset_password, generated, letters, user)
  BY DEF IInv
<1>4. /\ Becomes(r, Idle)
      /\ reset_password' =
           CASE g.row = Null -> [reset_password EXCEPT ![g.code] = row]
             [] g.row \in Resets -> [reset_password EXCEPT ![g.row] = row]
             [] OTHER -> reset_password
      /\ UNCHANGED <<clock, process, user, email_verification, token, generated, letters, opened>>
  BY DEF ForgotCommits, history
<1>5. /\ g.code \in Code /\ g.row \in Code \cup {Null} /\ g.user \in User
      /\ g.expired_at \in Nat
  BY <1>2 DEF Forgetting
<1>6. /\ Letter(g) \in letters /\ g.code \in generated /\ user[g.user] # Absent
      /\ Letter(g) = [op |-> "forgot", code |-> g.code, user |-> g.user]
      /\ g.row # Null /\ reset_password[g.row] # Absent => reset_password[g.row].user = g.user
  BY <1>1, <1>3 DEF Fits, Letter
<1>7. /\ VerificationsFit(email_verification, generated, letters)
      /\ ResetsFit(reset_password, generated, letters, user)
      /\ email_verification \in [Code -> VerificationRow \cup {Absent}]
      /\ reset_password \in [Code -> ResetRow \cup {Absent}]
      /\ user \in [User -> UserRow \cup {Absent}] /\ opened \in [Code -> Nat]
  BY DEF IInv, TypeOK
<1>8. Null \notin Code
  BY DEF AccountsAssumption
<1>9. row \in ResetRow /\ row.user = g.user /\ row.code = g.code
  BY <1>5 DEF ResetFor, ResetRow
<1>10. ResetLetterOf(row) \in letters /\ user[row.user] # Absent
  BY <1>6, <1>9 DEF ResetLetterOf
<1> HIDE DEF g, row
<1>11. ASSUME NEW k \in Code \cup {Null}, k = Null \/ k = g.code,
              ResetsFit(reset_password', generated, letters, user),
              reset_password' \in [Code -> ResetRow \cup {Absent}],
              \A i \in Code : i # k /\ reset_password'[i] # Absent =>
                /\ reset_password[i] # Absent
                /\ reset_password'[i].user = reset_password[i].user
       PROVE  IInv'
  <2>1. k = Null \/ (Mailing(request[r]) /\ k = request[r].code)
    BY <1>1, <1>11 DEF g
  <2>2. /\ ResetsFit(reset_password', generated, letters, user')
        /\ VerificationsFit(email_verification', generated, letters)
    BY <1>4, <1>7, <1>11
  <2>3. \A i \in Code : i # k /\ email_verification'[i] # Absent =>
           /\ email_verification[i] # Absent
           /\ email_verification'[i].email = email_verification[i].email
    BY <1>4
  <2>4. \A u \in User : user[u] # Absent => user'[u] # Absent
    BY <1>4
  <2>5. /\ user' \in [User -> UserRow \cup {Absent}]
        /\ email_verification' \in [Code -> VerificationRow \cup {Absent}]
        /\ opened' \in [Code -> Nat]
    BY <1>4, <1>7
  <2> QED  BY <1>4, <1>11, <2>1, <2>2, <2>3, <2>4, <2>5, LemmaCommits
<1>12. CASE g.row = Null
  <2>1. reset_password' = [reset_password EXCEPT ![g.code] = row]
    BY <1>4, <1>8, <1>12 DEF Resets
  <2>2. \A i \in Code : reset_password'[i] = IF i = g.code THEN row ELSE reset_password[i]
    BY <1>5, <1>7, <2>1
  <2>3. ResetsFit(reset_password', generated, letters, user)
    BY <1>6, <1>7, <1>10, <2>2 DEF ResetsFit
  <2>4. reset_password' \in [Code -> ResetRow \cup {Absent}]
    BY <1>7, <1>9, <2>1
  <2> QED  BY <1>5, <1>11, <2>2, <2>3, <2>4
<1>13. CASE g.row \in Resets
  <2>1. g.row \in Code /\ reset_password[g.row] # Absent /\ g.row # Null
    BY <1>8, <1>13 DEF Resets
  <2>2. reset_password' = [reset_password EXCEPT ![g.row] = row]
    BY <1>4, <1>13, <2>1
  <2>3. \A i \in Code : reset_password'[i] = IF i = g.row THEN row ELSE reset_password[i]
    BY <1>7, <2>1, <2>2
  <2>4. g.row \in generated
    BY <1>7, <2>1 DEF ResetsFit
  <2>5. ResetsFit(reset_password', generated, letters, user)
    BY <1>7, <1>10, <2>3, <2>4 DEF ResetsFit
  <2>6. reset_password' \in [Code -> ResetRow \cup {Absent}]
    BY <1>7, <1>9, <2>2
  <2>7. \A i \in Code : reset_password'[i] # Absent =>
                /\ reset_password[i] # Absent
                /\ reset_password'[i].user = reset_password[i].user
    BY <1>6, <1>9, <2>1, <2>3
  <2> QED  BY <1>11, <2>5, <2>6, <2>7
<1>14. CASE g.row # Null /\ g.row \notin Resets
  <2>1. reset_password' = reset_password
    BY <1>4, <1>14
  <2> QED  BY <1>7, <1>11, <2>1
<1> QED  BY <1>12, <1>13, <1>14

\* A step that deletes at most rows of links.
LEMMA LemmaDropCommits ==
  ASSUME AccountsAssumption, IInv, NEW r \in Request, DropCommits(r)
  PROVE  IInv'
<1>1. /\ Becomes(r, Idle)
      /\ UNCHANGED <<clock, process, user, token, generated, letters, opened>>
  BY DEF DropCommits, history
<1>2. /\ VerificationsFit(email_verification, generated, letters)
      /\ ResetsFit(reset_password, generated, letters, user)
      /\ email_verification \in [Code -> VerificationRow \cup {Absent}]
      /\ reset_password \in [Code -> ResetRow \cup {Absent}]
      /\ user \in [User -> UserRow \cup {Absent}] /\ opened \in [Code -> Nat]
  BY DEF IInv, TypeOK
<1>3. \/ email_verification' = [email_verification EXCEPT ![request[r].id] = Absent]
      \/ email_verification' = email_verification
  BY DEF DropCommits
<1>4. \/ reset_password' = [reset_password EXCEPT ![request[r].id] = Absent]
      \/ reset_password' = reset_password
  BY DEF DropCommits
<1>5. /\ \A i \in Code : email_verification'[i] \in {email_verification[i], Absent}
      /\ email_verification' \in [Code -> VerificationRow \cup {Absent}]
  BY <1>2, <1>3
<1>6. /\ \A i \in Code : reset_password'[i] \in {reset_password[i], Absent}
      /\ reset_password' \in [Code -> ResetRow \cup {Absent}]
  BY <1>2, <1>4
<1>7. VerificationsFit(email_verification', generated, letters)
  BY <1>2, <1>5 DEF VerificationsFit
<1>8. ResetsFit(reset_password', generated, letters, user')
  BY <1>1, <1>2, <1>6 DEF ResetsFit
<1>9. /\ \A i \in Code : email_verification'[i] # Absent =>
           /\ email_verification[i] # Absent
           /\ email_verification'[i].email = email_verification[i].email
      /\ \A i \in Code : reset_password'[i] # Absent =>
           /\ reset_password[i] # Absent
           /\ reset_password'[i].user = reset_password[i].user
  BY <1>5, <1>6
<1>10. /\ user' \in [User -> UserRow \cup {Absent}] /\ opened' \in [Code -> Nat]
       /\ \A u \in User : user[u] # Absent => user'[u] # Absent
  BY <1>1, <1>2
<1>11. Null \in Code \cup {Null}
  OBVIOUS
<1> QED  BY <1>1, <1>5, <1>6, <1>7, <1>8, <1>9, <1>10, <1>11, LemmaCommits

-----------------------------------------------------------------------------
(* The links that are opened *)

LEMMA LemmaUsers ==
  ASSUME IInv
  PROVE  /\ user \in [User -> UserRow \cup {Absent}] /\ token \subseteq Token
         /\ \A u \in User : user[u] # Absent => user[u] \in UserRow
BY DEF IInv, TypeOK

\* A handler that only reads and mails nothing.
LEMMA LemmaReads ==
  ASSUME AccountsAssumption, IInv, NEW r \in Request, NEW h \in Local, Becomes(r, h), ~Mailing(h),
         Fits(h, email_verification, reset_password, generated, letters, user),
         UNCHANGED <<clock, process, tables, generated, history>>
  PROVE  IInv'
<1>1. user' = user /\ user' \in [User -> UserRow \cup {Absent}] /\ token' \subseteq Token
  BY LemmaUsers DEF tables
<1>2. Fits(h, email_verification, reset_password, generated, letters, user')
  BY <1>1
<1> QED  BY <1>1, <1>2, LemmaPlain DEF Becomes, tables, history

LEMMA LemmaVerifyLoads ==
  ASSUME AccountsAssumption, IInv, NEW r \in Request, NEW i \in Code, VerifyLoads(r, i)
  PROVE  IInv'
<1>1. UNCHANGED <<clock, process, tables, generated, history>>
  BY DEF VerifyLoads
<1>2. /\ email_verification[i] # Absent /\ email_verification[i] \in VerificationRow
      /\ SignUpLetterOf(email_verification[i]) \in letters
  BY DEF VerifyLoads, Verifications, IInv, TypeOK, VerificationsFit
<1>3. CASE Becomes(r, [pc |-> "dropping", op |-> "signup", id |-> i])
  <2> DEFINE h == [pc |-> "dropping", op |-> "signup", id |-> i]
  <2>1. h \in Local /\ h.pc = "dropping"
    BY DEF Local, Dropping
  <2> HIDE DEF h
  <2>2. ~Mailing(h) /\ Fits(h, email_verification, reset_password, generated, letters, user)
    BY <2>1 DEF Mailing, Fits
  <2>3. Becomes(r, h)
    BY <1>3 DEF h
  <2> QED  BY <1>1, <2>1, <2>2, <2>3, LemmaReads
<1>4. CASE Becomes(r, [pc |-> "verifying", id |-> i, row |-> email_verification[i]])
  <2> DEFINE h == [pc |-> "verifying", id |-> i, row |-> email_verification[i]]
  <2>1. h \in Local /\ h.pc = "verifying" /\ h.row = email_verification[i]
    BY <1>2 DEF Local, Verifying
  <2> HIDE DEF h
  <2>2. ~Mailing(h) /\ Fits(h, email_verification, reset_password, generated, letters, user)
    BY <1>2, <2>1 DEF Mailing, Fits
  <2>3. Becomes(r, h)
    BY <1>4 DEF h
  <2> QED  BY <1>1, <2>1, <2>2, <2>3, LemmaReads
<1> QED  BY <1>3, <1>4 DEF VerifyLoads

LEMMA LemmaResetLoads ==
  ASSUME AccountsAssumption, IInv, NEW r \in Request, NEW i \in Code, ResetLoads(r, i)
  PROVE  IInv'
<1>1. UNCHANGED <<clock, process, tables, generated, history>>
  BY DEF ResetLoads
<1>2. /\ reset_password[i] # Absent /\ reset_password[i] \in ResetRow
      /\ ResetLetterOf(reset_password[i]) \in letters /\ user[reset_password[i].user] # Absent
  BY DEF ResetLoads, Resets, IInv, TypeOK, ResetsFit
<1>3. CASE Becomes(r, [pc |-> "dropping", op |-> "forgot", id |-> i])
  <2> DEFINE h == [pc |-> "dropping", op |-> "forgot", id |-> i]
  <2>1. h \in Local /\ h.pc = "dropping"
    BY DEF Local, Dropping
  <2> HIDE DEF h
  <2>2. ~Mailing(h) /\ Fits(h, email_verification, reset_password, generated, letters, user)
    BY <2>1 DEF Mailing, Fits
  <2>3. Becomes(r, h)
    BY <1>3 DEF h
  <2> QED  BY <1>1, <2>1, <2>2, <2>3, LemmaReads
<1>4. ASSUME NEW p \in Password,
             Becomes(r, [pc |-> "resetting", id |-> i, row |-> reset_password[i], password |-> p])
      PROVE  IInv'
  <2> DEFINE h == [pc |-> "resetting", id |-> i, row |-> reset_password[i], password |-> p]
  <2>1. h \in Local /\ h.pc = "resetting" /\ h.row = reset_password[i]
    BY <1>2 DEF Local, Resetting
  <2> HIDE DEF h
  <2>2. ~Mailing(h) /\ Fits(h, email_verification, reset_password, generated, letters, user)
    BY <1>2, <2>1 DEF Mailing, Fits
  <2>3. Becomes(r, h)
    BY <1>4 DEF h
  <2> QED  BY <1>1, <2>1, <2>2, <2>3, LemmaReads
<1> QED  BY <1>3, <1>4 DEF ResetLoads

\* What email_verified does to the users: one that is new, from a letter.
LEMMA LemmaVerified ==
  ASSUME AccountsAssumption, IInv, NEW r \in Request, VerifyCommits(r)
  PROVE  \E u \in User :
           LET row == request[r].row
           IN /\ user[u] = Absent /\ row \in VerificationRow
              /\ Registered(row) \in UserRow
              /\ user' = [user EXCEPT ![u] = Registered(row)]
              /\ SignUpLetterOf(row) \in letters
              /\ opened' = [opened EXCEPT ![row.code] = @ + 1]
              /\ opened' \in [Code -> Nat]
              /\ opened'[row.code] > opened[row.code]
<1>1. request[r] \in Local /\ request[r].pc = "verifying"
  BY DEF IInv, TypeOK, Local, VerifyCommits
<1>2. request[r].row \in VerificationRow
  BY <1>1, LemmaShape DEF Verifying
<1>3. SignUpLetterOf(request[r].row) \in letters
  BY <1>1 DEF IInv, Fits
<1>4. Registered(request[r].row) \in UserRow
  BY <1>2 DEF Registered, UserRow, VerificationRow
<1>5. /\ opened' = [opened EXCEPT ![request[r].row.code] = @ + 1]
      /\ request[r].row.code \in Code /\ opened \in [Code -> Nat]
  BY <1>2 DEF VerifyCommits, VerificationRow, IInv, TypeOK
<1>6. /\ opened' \in [Code -> Nat]
      /\ opened'[request[r].row.code] > opened[request[r].row.code]
  BY <1>5
<1>7. PICK u \in User \ Users : user' = [user EXCEPT ![u] = Registered(request[r].row)]
  BY DEF VerifyCommits
<1>8. user[u] = Absent
  BY <1>7 DEF Users
<1> QED  BY <1>2, <1>3, <1>4, <1>5, <1>6, <1>7, <1>8

LEMMA LemmaVerifyCommits ==
  ASSUME AccountsAssumption, IInv, NEW r \in Request, VerifyCommits(r)
  PROVE  IInv'
<1> DEFINE row == request[r].row
<1>1. PICK u \in User : /\ user[u] = Absent /\ row \in VerificationRow
                        /\ Registered(row) \in UserRow
                        /\ user' = [user EXCEPT ![u] = Registered(row)]
                        /\ opened' \in [Code -> Nat]
  BY LemmaVerified
<1>2. /\ user' \in [User -> UserRow \cup {Absent}]
      /\ \A v \in User : user[v] # Absent => user'[v] = user[v]
  BY <1>1, LemmaUsers
<1>3. /\ Becomes(r, Idle)
      /\ email_verification' = [email_verification EXCEPT ![request[r].id] = Absent]
      /\ UNCHANGED <<clock, process, reset_password, token, generated, letters>>
  BY DEF VerifyCommits
<1>4. /\ VerificationsFit(email_verification, generated, letters)
      /\ ResetsFit(reset_password, generated, letters, user)
      /\ email_verification \in [Code -> VerificationRow \cup {Absent}]
      /\ reset_password \in [Code -> ResetRow \cup {Absent}]
  BY DEF IInv, TypeOK
<1>5. /\ \A i \in Code : email_verification'[i] \in {email_verification[i], Absent}
      /\ email_verification' \in [Code -> VerificationRow \cup {Absent}]
  BY <1>3, <1>4
<1>6. VerificationsFit(email_verification', generated, letters)
  BY <1>4, <1>5 DEF VerificationsFit
<1>7. \A i \in Code : reset_password[i] # Absent => reset_password[i].user \in User
  BY <1>4 DEF ResetRow
<1>8. ResetsFit(reset_password', generated, letters, user')
  BY <1>2, <1>3, <1>4, <1>7 DEF ResetsFit
<1>9. /\ \A i \in Code : email_verification'[i] # Absent =>
           /\ email_verification[i] # Absent
           /\ email_verification'[i].email = email_verification[i].email
      /\ \A i \in Code : reset_password'[i] # Absent =>
           /\ reset_password[i] # Absent
           /\ reset_password'[i].user = reset_password[i].user
  BY <1>3, <1>5
<1>10. reset_password' \in [Code -> ResetRow \cup {Absent}] /\ Null \in Code \cup {Null}
  BY <1>3, <1>4
<1> QED  BY <1>1, <1>2, <1>3, <1>5, <1>6, <1>8, <1>9, <1>10, LemmaCommits

SamePerson(a, b) ==
  a.username = b.username /\ a.email = b.email /\ a.provider_id = b.provider_id

\* What reset_password does to the users: the password of one, from a letter.
LEMMA LemmaReset ==
  ASSUME AccountsAssumption, IInv, NEW r \in Request, ResetCommits(r)
  PROVE  LET row == request[r].row
         IN /\ row \in ResetRow /\ user[row.user] # Absent
            /\ user' = [user EXCEPT ![row.user].password = request[r].password]
            /\ user' \in [User -> UserRow \cup {Absent}]
            /\ \A u \in User : u # row.user => user'[u] = user[u]
            /\ user'[row.user] # Absent
            /\ SamePerson(user[row.user], user'[row.user])
            /\ ResetLetterOf(row) \in letters
            /\ opened' \in [Code -> Nat]
            /\ opened'[row.code] > opened[row.code]
<1> DEFINE h == request[r]
<1>1. h \in Local /\ h.pc = "resetting"
  BY DEF IInv, TypeOK, Local, ResetCommits
<1>2. /\ h.row \in ResetRow /\ h.password \in Password
      /\ h.row.user \in User /\ h.row.code \in Code
  BY <1>1, LemmaShape DEF Resetting, ResetRow
<1>3. ResetLetterOf(h.row) \in letters /\ user[h.row.user] # Absent
  BY <1>1 DEF IInv, Fits
<1>4. /\ opened' = [opened EXCEPT ![h.row.code] = @ + 1] /\ opened \in [Code -> Nat]
      /\ user' = [user EXCEPT ![h.row.user].password = h.password]
  BY DEF ResetCommits, IInv, TypeOK
<1> HIDE DEF h
<1>5. opened' \in [Code -> Nat] /\ opened'[h.row.code] > opened[h.row.code]
  BY <1>2, <1>4
<1> DEFINE new == [user[h.row.user] EXCEPT !.password = h.password]
<1>6. user[h.row.user] \in UserRow
  BY <1>2, <1>3, LemmaUsers
<1>7. new \in UserRow
  BY <1>2, <1>6 DEF UserRow
<1>8. user' = [user EXCEPT ![h.row.user] = new]
  BY <1>4
<1>9. new # Absent /\ SamePerson(user[h.row.user], new)
  BY <1>6, <1>7 DEF AccountsAssumption, SamePerson, UserRow
<1> HIDE DEF new
<1>10. /\ user' \in [User -> UserRow \cup {Absent}] /\ user'[h.row.user] # Absent
       /\ SamePerson(user[h.row.user], user'[h.row.user])
       /\ \A u \in User : u # h.row.user => user'[u] = user[u]
  BY <1>2, <1>7, <1>8, <1>9, LemmaUsers
<1> QED  BY <1>2, <1>3, <1>4, <1>5, <1>10 DEF h

LEMMA LemmaResetCommits ==
  ASSUME AccountsAssumption, IInv, NEW r \in Request, ResetCommits(r)
  PROVE  IInv'
<1> DEFINE row == request[r].row
<1>1. /\ user[row.user] # Absent /\ user'[row.user] # Absent
      /\ user' \in [User -> UserRow \cup {Absent}]
      /\ \A u \in User : u # row.user => user'[u] = user[u]
      /\ opened' \in [Code -> Nat]
  BY LemmaReset
<1>2. \A v \in User : user[v] # Absent => user'[v] # Absent
  BY <1>1
<1>3. /\ Becomes(r, Idle)
      /\ reset_password' = [reset_password EXCEPT ![request[r].id] = Absent]
      /\ UNCHANGED <<clock, process, email_verification, token, generated, letters>>
  BY DEF ResetCommits, WithoutReset
<1>4. /\ VerificationsFit(email_verification, generated, letters)
      /\ ResetsFit(reset_password, generated, letters, user)
      /\ email_verification \in [Code -> VerificationRow \cup {Absent}]
      /\ reset_password \in [Code -> ResetRow \cup {Absent}]
  BY DEF IInv, TypeOK
<1>5. /\ \A i \in Code : reset_password'[i] \in {reset_password[i], Absent}
      /\ reset_password' \in [Code -> ResetRow \cup {Absent}]
  BY <1>3, <1>4
<1>6. VerificationsFit(email_verification', generated, letters)
  BY <1>3, <1>4
<1>7. \A i \in Code : reset_password[i] # Absent => reset_password[i].user \in User
  BY <1>4 DEF ResetRow
<1>8. ResetsFit(reset_password', generated, letters, user')
  BY <1>2, <1>4, <1>5, <1>7 DEF ResetsFit
<1>9. /\ \A i \in Code : email_verification'[i] # Absent =>
           /\ email_verification[i] # Absent
           /\ email_verification'[i].email = email_verification[i].email
      /\ \A i \in Code : reset_password'[i] # Absent =>
           /\ reset_password[i] # Absent
           /\ reset_password'[i].user = reset_password[i].user
  BY <1>3, <1>5
<1>10. /\ email_verification' \in [Code -> VerificationRow \cup {Absent}]
       /\ Null \in Code \cup {Null}
  BY <1>3, <1>4
<1> QED  BY <1>1, <1>2, <1>3, <1>5, <1>6, <1>8, <1>9, <1>10, LemmaCommits

-----------------------------------------------------------------------------
(* Login, the providers and the clock *)

LEMMA LemmaLoginLoads ==
  ASSUME AccountsAssumption, IInv, NEW r \in Request, NEW u \in User, LoginLoads(r, u)
  PROVE  IInv'
<1> DEFINE h == [pc |-> "granting", user |-> u, at |-> clock]
<1>1. h \in Local /\ h.pc = "granting"
  BY DEF Local, Granting, IInv, TypeOK
<1>2. Becomes(r, h) /\ UNCHANGED <<clock, process, tables, generated, history>>
  BY DEF LoginLoads
<1> HIDE DEF h
<1>3. ~Mailing(h) /\ Fits(h, email_verification, reset_password, generated, letters, user)
  BY <1>1 DEF Mailing, Fits
<1> QED  BY <1>1, <1>2, <1>3, LemmaReads

LEMMA LemmaGrants ==
  ASSUME AccountsAssumption, IInv, NEW r \in Request, Grants(r)
  PROVE  IInv'
<1>1. request[r] \in Granting
  BY LemmaShape DEF IInv, TypeOK, Local, Grants
<1>2. [user |-> request[r].user, expired_at |-> request[r].at + TokenLife] \in Token
  BY <1>1 DEF Granting, Token, AccountsAssumption
<1>3. token' \subseteq Token /\ user' = user /\ user' \in [User -> UserRow \cup {Absent}]
  BY <1>2, LemmaUsers DEF Grants
<1>4. /\ request' = [request EXCEPT ![r] = Idle]
      /\ UNCHANGED <<clock, process, email_verification, reset_password, generated, letters, opened>>
  BY DEF Grants, Becomes, history
<1>5. Fits(Idle, email_verification, reset_password, generated, letters, user')
  BY LemmaIdle
<1> QED  BY <1>3, <1>4, <1>5, LemmaIdle, LemmaPlain

\* Tokens that go, and the clock, concern no link.
LEMMA LemmaTokens ==
  ASSUME IInv, clock' \in Nat, token' \subseteq Token,
         UNCHANGED <<process, user, email_verification, reset_password, generated, history, request>>
  PROVE  IInv'
<1>1. TypeOK'
  BY DEF IInv, TypeOK, history
<1>2. \A r \in Request :
        Fits(request'[r], email_verification', reset_password', generated', letters', user')
  BY DEF IInv, history
<1>3. Apart'
  BY DEF IInv, Apart
<1>4. /\ VerificationsFit(email_verification', generated', letters')
      /\ ResetsFit(reset_password', generated', letters', user')
  BY DEF IInv, history
<1> QED  BY <1>1, <1>2, <1>3, <1>4 DEF IInv

LEMMA LemmaInvalidated ==
  ASSUME IInv, NEW r \in Request, NEW t \in token, Logout(r, t) \/ Refuse(r, t)
  PROVE  IInv'
<1>1. clock' \in Nat /\ token' \subseteq Token
  BY DEF IInv, TypeOK, Logout, Refuse, Invalidated
<1>2. UNCHANGED <<process, user, email_verification, reset_password, generated, history, request>>
  BY DEF Logout, Refuse
<1> QED  BY <1>1, <1>2, LemmaTokens

LEMMA LemmaTick ==
  ASSUME IInv, Tick
  PROVE  IInv'
<1>1. clock' \in Nat /\ token' \subseteq Token
  BY DEF IInv, TypeOK, Tick, tables
<1>2. UNCHANGED <<process, user, email_verification, reset_password, generated, history, request>>
  BY DEF Tick, tables
<1> QED  BY <1>1, <1>2, LemmaTokens

LEMMA LemmaProviderLoads ==
  ASSUME AccountsAssumption, IInv, NEW r \in Request, NEW a \in Account, ProviderLoads(r, a)
  PROVE  IInv'
<1>1. PICK u \in User \cup {Null} :
        /\ Becomes(r, [pc |-> "meeting", account |-> a, user |-> u])
        /\ u = Null \/ user[u] # Absent
  BY DEF ProviderLoads, Found, WithProviderId, ByAddress, Users
<1> DEFINE h == [pc |-> "meeting", account |-> a, user |-> u]
<1>2. h \in Local /\ h.pc = "meeting" /\ h.user = u
  BY DEF Local, Meeting
<1> HIDE DEF h
<1>3. ~Mailing(h) /\ Fits(h, email_verification, reset_password, generated, letters, user)
  BY <1>1, <1>2 DEF Mailing, Fits
<1>4. Becomes(r, h) /\ UNCHANGED <<clock, process, tables, generated, history>>
  BY <1>1 DEF h, ProviderLoads
<1> QED  BY <1>2, <1>3, <1>4, LemmaReads

\* What a login at a provider does to the users: one that is new, or a google_email.
LEMMA LemmaMet ==
  ASSUME AccountsAssumption, IInv, NEW r \in Request, ProviderCommits(r)
  PROVE  \E u \in User :
           /\ Becomes(r, [pc |-> "granting", user |-> u, at |-> clock])
           /\ user' \in [User -> UserRow \cup {Absent}]
           /\ \A v \in User : v # u => user'[v] = user[v]
           /\ user'[u] # Absent
           /\ user[u] = Absent => /\ request[r].user = Null /\ request[r].account # Null
                                  /\ user'[u] = ProviderUser(request[r].account)
                                  /\ user'[u].provider_id = request[r].account
           /\ user[u] # Absent => /\ user'[u].password = user[u].password
                                  /\ SamePerson(user[u], user'[u])
<1> DEFINE h == request[r]
           a == h.account
<1>1. h \in Local /\ h.pc = "meeting"
  BY DEF IInv, TypeOK, Local, ProviderCommits
<1>2. a \in Account /\ h.user \in User \cup {Null}
  BY <1>1, LemmaShape DEF Meeting
<1>3. h.user # Null => user[h.user] # Absent
  BY <1>1 DEF IInv, Fits
<1>4. AddressOf[a] \in Email \cup {Null} /\ a # Null
  BY <1>2 DEF AccountsAssumption
<1>5. \/ /\ h.user = Null
         /\ \E u \in User \ Users :
              /\ user' = [user EXCEPT ![u] = ProviderUser(a)]
              /\ Becomes(r, [pc |-> "granting", user |-> u, at |-> clock])
      \/ /\ h.user # Null
         /\ user' = Recognised(a, h.user)
         /\ Becomes(r, [pc |-> "granting", user |-> h.user, at |-> clock])
  BY DEF ProviderCommits
<1> HIDE DEF h, a
<1>6. CASE h.user = Null
  <2>1. PICK u \in User \ Users :
          /\ user' = [user EXCEPT ![u] = ProviderUser(a)]
          /\ Becomes(r, [pc |-> "granting", user |-> u, at |-> clock])
    BY <1>5, <1>6
  <2>2. UsernameFor(a) \in Name
    BY <1>4 DEF UsernameFor, Name
  <2>3. ProviderUser(a) \in UserRow /\ ProviderUser(a).provider_id = a
    BY <1>2, <1>4, <2>2 DEF ProviderUser, UserRow
  <2>4. ProviderUser(a) # Absent
    BY <2>3 DEF AccountsAssumption
  <2>5. user[u] = Absent
    BY <2>1 DEF Users
  <2>6. /\ user' \in [User -> UserRow \cup {Absent}] /\ user'[u] = ProviderUser(a)
        /\ \A v \in User : v # u => user'[v] = user[v]
    BY <2>1, <2>3, LemmaUsers
  <2> QED  BY <1>4, <1>6, <2>1, <2>3, <2>4, <2>5, <2>6 DEF h, a
<1>7. CASE h.user # Null
  <2> DEFINE u == h.user
             new == [user[u] EXCEPT !.google_email = AddressOf[a]]
  <2>1. u \in User /\ user[u] # Absent /\ user[u] \in UserRow
    BY <1>2, <1>3, <1>7, LemmaUsers
  <2>2. /\ new \in UserRow /\ new.password = user[u].password
        /\ SamePerson(user[u], new) /\ SamePerson(user[u], user[u])
    BY <1>4, <2>1 DEF UserRow, SamePerson
  <2>3. new # Absent
    BY <2>2 DEF AccountsAssumption
  <2>4. user' = [user EXCEPT ![u] = new] \/ user' = user
    BY <1>5, <1>7 DEF Recognised
  <2>5. Becomes(r, [pc |-> "granting", user |-> u, at |-> clock])
    BY <1>5, <1>7
  <2> HIDE DEF u, new
  <2>6. /\ user' \in [User -> UserRow \cup {Absent}] /\ user'[u] \in {new, user[u]}
        /\ \A v \in User : v # u => user'[v] = user[v]
    BY <2>1, <2>2, <2>4, LemmaUsers
  <2> QED  BY <2>1, <2>2, <2>3, <2>5, <2>6
<1> QED  BY <1>6, <1>7

LEMMA LemmaProviderCommits ==
  ASSUME AccountsAssumption, IInv, NEW r \in Request, ProviderCommits(r)
  PROVE  IInv'
<1>1. PICK u \in User :
           /\ Becomes(r, [pc |-> "granting", user |-> u, at |-> clock])
           /\ user' \in [User -> UserRow \cup {Absent}]
           /\ \A v \in User : v # u => user'[v] = user[v]
           /\ user'[u] # Absent
  BY LemmaMet
<1> DEFINE h == [pc |-> "granting", user |-> u, at |-> clock]
<1>2. h \in Local /\ h.pc = "granting"
  BY DEF Local, Granting, IInv, TypeOK
<1> HIDE DEF h
<1>3. ~Mailing(h) /\ Fits(h, email_verification, reset_password, generated, letters, user')
  BY <1>2 DEF Mailing, Fits
<1>4. UNCHANGED <<clock, process, email_verification, reset_password, token, generated, letters, opened>>
  BY DEF ProviderCommits, history
<1>5. \A v \in User : user[v] # Absent => user'[v] # Absent
  BY <1>1
<1>6. request' = [request EXCEPT ![r] = h] /\ token' \subseteq Token
  BY <1>1, <1>4, LemmaUsers DEF h, Becomes
<1> QED  BY <1>1, <1>2, <1>3, <1>4, <1>5, <1>6, LemmaPlain

-----------------------------------------------------------------------------
LEMMA LemmaNext ==
  ASSUME AccountsAssumption, IInv, [Next]_vars
  PROVE  IInv'
<1>1. CASE UNCHANGED vars
  <2>1. /\ UNCHANGED <<clock, process, token, user, email_verification, reset_password>>
        /\ UNCHANGED <<generated, history, request>>
    BY <1>1 DEF vars, tables
  <2>2. clock' \in Nat /\ token' \subseteq Token
    BY <2>1 DEF IInv, TypeOK
  <2> QED  BY <2>1, <2>2, LemmaTokens
<1>2. CASE Tick
  BY <1>2, LemmaTick
<1>3. ASSUME NEW r \in Request, Step(r)
      PROVE  IInv'
  <2>1. CASE \E e \in Email : SignUpLoads(r, e)
    BY <2>1, LemmaSignUpLoads
  <2>2. CASE \E u \in User : ForgotLoads(r, u)
    BY <2>2, LemmaForgotLoads
  <2>3. CASE \E u \in User : FormToken(r, u) \/ EmailSignin(r, u)
    BY <2>3, LemmaLoginLoads DEF FormToken, EmailSignin
  <2>4. CASE MailSent(r)
    BY <2>4, LemmaMailSent
  <2>5. CASE MailFails(r)
    BY <2>5, LemmaMailFails
  <2>6. CASE SignUpCommits(r)
    BY <2>6, LemmaSignUpCommits
  <2>7. CASE ForgotCommits(r)
    BY <2>7, LemmaForgotCommits
  <2>8. CASE \E i \in Code : VerifyLoads(r, i)
    BY <2>8, LemmaVerifyLoads
  <2>9. CASE \E i \in Code : ResetLoads(r, i)
    BY <2>9, LemmaResetLoads
  <2>10. CASE VerifyCommits(r)
    BY <2>10, LemmaVerifyCommits
  <2>11. CASE ResetCommits(r)
    BY <2>11, LemmaResetCommits
  <2>12. CASE DropCommits(r)
    BY <2>12, LemmaDropCommits
  <2>13. CASE Grants(r)
    BY <2>13, LemmaGrants
  <2>14. CASE \E t \in token : Logout(r, t) \/ Refuse(r, t)
    BY <2>14, LemmaInvalidated
  <2>15. CASE GithubVerified(r) \/ GoogleVerified(r)
    BY <2>15, LemmaProviderLoads DEF GithubVerified, GoogleVerified, AccountsAssumption
  <2>16. CASE ProviderCommits(r)
    BY <2>16, LemmaProviderCommits
  <2>17. CASE Crash(r)
    BY <2>17, LemmaCrash DEF Crash
  <2> QED  BY <1>3, <2>1, <2>2, <2>3, <2>4, <2>5, <2>6, <2>7, <2>8, <2>9, <2>10, <2>11,
              <2>12, <2>13, <2>14, <2>15, <2>16, <2>17 DEF Step
<1> QED  BY <1>1, <1>2, <1>3 DEF Next

\* The users change in three actions.
LEMMA LemmaUsersOf ==
  ASSUME NEW r \in Request, Step(r), user' # user
  PROVE  VerifyCommits(r) \/ ResetCommits(r) \/ ProviderCommits(r)
<1>1. /\ ~(\E e \in Email : SignUpLoads(r, e))
      /\ ~(\E u \in User : ForgotLoads(r, u) \/ FormToken(r, u) \/ EmailSignin(r, u))
  BY DEF SignUpLoads, ForgotLoads, FormToken, EmailSignin, LoginLoads, tables
<1>2. ~MailSent(r) /\ ~MailFails(r) /\ ~SignUpCommits(r) /\ ~ForgotCommits(r)
  BY DEF MailSent, MailFails, SignUpCommits, ForgotCommits, tables
<1>3. /\ ~(\E i \in Code : VerifyLoads(r, i) \/ ResetLoads(r, i))
      /\ ~DropCommits(r) /\ ~Grants(r) /\ ~Crash(r)
  BY DEF VerifyLoads, ResetLoads, DropCommits, Grants, Crash, tables
<1>4. ~(\E t \in token : Logout(r, t) \/ Refuse(r, t))
  BY DEF Logout, Refuse
<1>5. ~GithubVerified(r) /\ ~GoogleVerified(r)
  BY DEF GithubVerified, GoogleVerified, ProviderLoads, tables
<1> QED  BY <1>1, <1>2, <1>3, <1>4, <1>5 DEF Step

LEMMA LemmaUsersChange ==
  ASSUME [Next]_vars, user' # user
  PROVE  \E r \in Request : VerifyCommits(r) \/ ResetCommits(r) \/ ProviderCommits(r)
<1>1. ~(UNCHANGED vars) /\ ~Tick
  BY DEF vars, tables, Tick
<1>2. PICK r \in Request : Step(r)
  BY <1>1 DEF Next
<1> QED  BY <1>2, LemmaUsersOf

\* The invariant: codes are apart and what was loaded is still about the same
\* person (email_signup, forgot_password across their await).
THEOREM Invariance ==
  ASSUME AccountsAssumption
  PROVE  Spec => []IInv
<1>1. Init => IInv
  BY LemmaInit
<1>2. IInv /\ [Next]_vars => IInv'
  BY LemmaNext
<1> QED  BY <1>1, <1>2, PTL DEF Spec

\* Every value is of its column (models/User.py, EmailVerification.py,
\* ResetPassword.py, Token.py).
THEOREM TypeCorrect ==
  ASSUME AccountsAssumption
  PROVE  Spec => []TypeOK
<1>1. IInv => TypeOK
  BY DEF IInv
<1> QED  BY <1>1, Invariance, PTL

\* Every code that opens something was mailed to the person it is about
\* (email_signup and forgot_password commit after the mail).
THEOREM CodesMailed ==
  ASSUME AccountsAssumption
  PROVE  Spec => []CodesAreMailed
<1>1. IInv => CodesAreMailed
  BY DEF IInv, CodesAreMailed, VerificationsFit, ResetsFit, SignUpLetterOf, ResetLetterOf,
         Verifications, Resets
<1> QED  BY <1>1, Invariance, PTL

\* Whoever opens a link gets the account with the address it was mailed to and
\* the password of that sign-up (email_verified).
THEOREM AccountMatches ==
  ASSUME AccountsAssumption
  PROVE  Spec => AccountMatchesItsLink
<1>1. ASSUME IInv, [Next]_vars, NEW u \in User, user[u] = Absent, user'[u] # Absent
      PROVE  \/ user'[u].provider_id # Null
             \/ \E l \in letters : /\ l.op = "signup" /\ l.email = user'[u].email
                                   /\ l.password = user'[u].password
                                   /\ opened'[l.code] > opened[l.code]
  <2>1. PICK r \in Request : VerifyCommits(r) \/ ResetCommits(r) \/ ProviderCommits(r)
    BY <1>1, LemmaUsersChange
  <2>2. CASE VerifyCommits(r)
    <3> DEFINE row == request[r].row
    <3>1. PICK v \in User : /\ user' = [user EXCEPT ![v] = Registered(row)]
                            /\ SignUpLetterOf(row) \in letters
                            /\ opened'[row.code] > opened[row.code]
      BY <1>1, <2>2, LemmaVerified
    <3>2. user'[u] = Registered(row)
      BY <1>1, <3>1, LemmaUsers
    <3>3. /\ SignUpLetterOf(row).op = "signup" /\ SignUpLetterOf(row).email = user'[u].email
          /\ SignUpLetterOf(row).password = user'[u].password
          /\ SignUpLetterOf(row).code = row.code
      BY <3>2 DEF Registered, SignUpLetterOf
    <3> QED  BY <3>1, <3>3
  <2>3. CASE ResetCommits(r)
    BY <1>1, <2>3, LemmaReset
  <2>4. CASE ProviderCommits(r)
    BY <1>1, <2>4, LemmaMet
  <2> QED  BY <2>1, <2>2, <2>3, <2>4
<1>2. IInv /\ [Next]_vars =>
        [\A u \in User : user[u] = Absent /\ user'[u] # Absent =>
           \/ user'[u].provider_id # Null
           \/ \E l \in letters : /\ l.op = "signup" /\ l.email = user'[u].email
                                 /\ l.password = user'[u].password
                                 /\ opened'[l.code] > opened[l.code]]_vars
  BY <1>1
<1> QED  BY <1>2, Invariance, PTL DEF Spec, AccountMatchesItsLink

\* A password changes by a link that was mailed for this user, and by nothing
\* else (reset_password; _update_user_provider_info leaves it).
THEOREM PasswordByMail ==
  ASSUME AccountsAssumption
  PROVE  Spec => PasswordChangesByMail
<1>1. ASSUME IInv, [Next]_vars, NEW u \in Users, user'[u].password # user[u].password
      PROVE  \E l \in letters : /\ l.op = "forgot" /\ l.user = u
                                /\ opened'[l.code] > opened[l.code]
  <2>1. u \in User /\ user[u] # Absent
    BY DEF Users
  <2>2. PICK r \in Request : VerifyCommits(r) \/ ResetCommits(r) \/ ProviderCommits(r)
    BY <1>1, LemmaUsersChange
  <2>3. ~VerifyCommits(r)
    BY <1>1, <2>1, LemmaVerified, LemmaUsers
  <2>4. ~ProviderCommits(r)
    BY <1>1, <2>1, LemmaMet
  <2>5. CASE ResetCommits(r)
    <3> DEFINE row == request[r].row
    <3>1. /\ \A v \in User : v # row.user => user'[v] = user[v]
          /\ ResetLetterOf(row) \in letters /\ opened'[row.code] > opened[row.code]
      BY <1>1, <2>5, LemmaReset
    <3>2. u = row.user
      BY <1>1, <2>1, <3>1
    <3>3. /\ ResetLetterOf(row).op = "forgot" /\ ResetLetterOf(row).user = u
          /\ ResetLetterOf(row).code = row.code
      BY <3>2 DEF ResetLetterOf
    <3> QED  BY <3>1, <3>3
  <2> QED  BY <2>2, <2>3, <2>4, <2>5
<1>2. IInv /\ [Next]_vars =>
        [\A u \in Users : user'[u].password # user[u].password =>
           \E l \in letters : /\ l.op = "forgot" /\ l.user = u
                              /\ opened'[l.code] > opened[l.code]]_vars
  BY <1>1
<1> QED  BY <1>2, Invariance, PTL DEF Spec, PasswordChangesByMail

-----------------------------------------------------------------------------
(* Where one process serves all requests, no two handlers are between a     *)
(* SELECT and a commit (Calm), so what was loaded is still there (Loaded);  *)
(* every code has one holder that did not work yet (Once), and no person a  *)
(* second user (People).                                                    *)

\* Who holds the code k: a verification, a reset, a handler that mails it.
Verifies(v, i, k) == v[i] # Absent /\ v[i].code = k
ResetsBy(z, i, k) == z[i] # Absent /\ z[i].code = k
Mails(h, k) == Mailing(h) /\ h.code = k

Calm(q) == \A r, s \in Request : r # s /\ q[r].pc \in Busy => q[s].pc \notin Busy

OnceAt(k, v, z, q, c, o) ==
  /\ o[k] \in {0, 1} /\ (k \notin c => o[k] = 0)
  /\ \A i \in Code : Verifies(v, i, k) => o[k] = 0 /\ k \in c
  /\ \A i \in Code : ResetsBy(z, i, k) => o[k] = 0 /\ k \in c
  /\ \A r \in Request : Mails(q[r], k) => o[k] = 0 /\ k \in c
  /\ \A i, j \in Code : Verifies(v, i, k) /\ Verifies(v, j, k) => i = j
  /\ \A i, j \in Code : ResetsBy(z, i, k) /\ ResetsBy(z, j, k) => i = j
  /\ \A i, j \in Code : ~(Verifies(v, i, k) /\ ResetsBy(z, j, k))
  /\ \A i \in Code, r \in Request : ~(Verifies(v, i, k) /\ Mails(q[r], k))
  /\ \A i \in Code, r \in Request : ~(ResetsBy(z, i, k) /\ Mails(q[r], k))
  /\ \A r, s \in Request : Mails(q[r], k) /\ Mails(q[s], k) => r = s
Once(v, z, q, c, o) == \A k \in Code : OnceAt(k, v, z, q, c, o)

Loaded(h, v, z, u) ==
  /\ h.pc = "verifying" => /\ v[h.id] = h.row
                           /\ \A w \in User : u[w] # Absent => u[w].email # h.row.email
  /\ h.pc = "resetting" => z[h.id] = h.row
  /\ h.pc = "meeting" /\ h.user = Null /\ AddressOf[h.account] # Null =>
       \A w \in User : u[w] # Absent => u[w].username # AddressOf[h.account]

People(u) ==
  /\ \A w \in User :
       /\ u[w] # Absent /\ u[w].provider_id # Null
       /\ AddressOf[u[w].provider_id] # Null
       => u[w].username = AddressOf[u[w].provider_id]
  /\ \A w, x \in User :
       /\ u[w] # Absent /\ u[w].provider_id = Null
       /\ u[x] # Absent /\ u[x].provider_id = Null
       /\ u[w].email = u[x].email
       => w = x
  /\ \A w, x \in User :
       /\ u[w] # Absent /\ u[w].provider_id # Null
       /\ u[x] # Absent /\ u[x].provider_id # Null
       /\ AddressOf[u[w].provider_id] # Null
       /\ AddressOf[u[w].provider_id] = AddressOf[u[x].provider_id]
       => w = x

OneProcess ==
  /\ Calm(request)
  /\ Once(email_verification, reset_password, request, generated, opened)
  /\ \A r \in Request : Loaded(request[r], email_verification, reset_password, user)
  /\ People(user)

LEMMA LemmaOneInit ==
  ASSUME Init
  PROVE  OneProcess
<1>1. \A r \in Request : request[r].pc = "idle"
  BY DEF Init, Idle
<1>2. /\ \A i \in Code : email_verification[i] = Absent /\ reset_password[i] = Absent
      /\ \A u \in User : user[u] = Absent
      /\ \A k \in Code : opened[k] = 0
  BY DEF Init
<1>3. Calm(request)
  BY <1>1 DEF Calm, Busy
<1>4. Once(email_verification, reset_password, request, generated, opened)
  BY <1>1, <1>2 DEF Once, OnceAt, Verifies, ResetsBy, Mails, Mailing
<1>5. \A r \in Request : Loaded(request[r], email_verification, reset_password, user)
  BY <1>1 DEF Loaded
<1>6. People(user)
  BY <1>2 DEF People
<1> QED  BY <1>3, <1>4, <1>5, <1>6 DEF OneProcess

\* Codes stay held by one when holders only go, a fresh code is drawn by r, or
\* the code that r mailed moves to the one row x or y.
Moves(r, x, y) ==
  /\ x \notin Code \/ y \notin Code
  /\ \A i, k \in Code : Verifies(email_verification', i, k) =>
       \/ Verifies(email_verification, i, k)
       \/ i = x /\ Mails(request[r], k) /\ ~Mails(request'[r], k)
  /\ \A i, k \in Code : ResetsBy(reset_password', i, k) =>
       \/ ResetsBy(reset_password, i, k)
       \/ i = y /\ Mails(request[r], k) /\ ~Mails(request'[r], k)
  /\ \A s \in Request, k \in Code : Mails(request'[s], k) =>
       \/ Mails(request[s], k)
       \/ s = r /\ k \notin generated /\ k \in generated'
  /\ generated \subseteq generated'
  /\ \A k \in Code :
       \/ opened'[k] = opened[k]
       \/ /\ opened'[k] = 1 /\ k \in generated
          /\ \A i \in Code : /\ ~Verifies(email_verification', i, k)
                             /\ ~ResetsBy(reset_password', i, k)
          /\ \A s \in Request : ~Mails(request[s], k)

LEMMA LemmaMoves ==
  ASSUME Once(email_verification, reset_password, request, generated, opened),
         NEW r \in Request, NEW x, NEW y, Moves(r, x, y)
  PROVE  Once(email_verification', reset_password', request', generated', opened')
<1> SUFFICES ASSUME NEW k \in Code
             PROVE  OnceAt(k, email_verification', reset_password', request', generated', opened')
  BY DEF Once
<1>1. /\ opened[k] \in {0, 1} /\ (k \notin generated => opened[k] = 0)
      /\ \A i \in Code : Verifies(email_verification, i, k) => opened[k] = 0 /\ k \in generated
      /\ \A i \in Code : ResetsBy(reset_password, i, k) => opened[k] = 0 /\ k \in generated
      /\ \A s \in Request : Mails(request[s], k) => opened[k] = 0 /\ k \in generated
      /\ \A i, j \in Code : Verifies(email_verification, i, k) /\ Verifies(email_verification, j, k) =>
           i = j
      /\ \A i, j \in Code : ResetsBy(reset_password, i, k) /\ ResetsBy(reset_password, j, k) =>
           i = j
      /\ \A i, j \in Code : ~(Verifies(email_verification, i, k) /\ ResetsBy(reset_password, j, k))
      /\ \A i \in Code, s \in Request :
           ~(Verifies(email_verification, i, k) /\ Mails(request[s], k))
      /\ \A i \in Code, s \in Request : ~(ResetsBy(reset_password, i, k) /\ Mails(request[s], k))
      /\ \A s, t \in Request : Mails(request[s], k) /\ Mails(request[t], k) => s = t
  BY DEF Once, OnceAt
<1>2. /\ \A i \in Code : Verifies(email_verification', i, k) =>
           Verifies(email_verification, i, k)
             \/ (i = x /\ Mails(request[r], k) /\ ~Mails(request'[r], k))
      /\ \A i \in Code : ResetsBy(reset_password', i, k) =>
           ResetsBy(reset_password, i, k)
             \/ (i = y /\ Mails(request[r], k) /\ ~Mails(request'[r], k))
      /\ \A s \in Request : Mails(request'[s], k) =>
           Mails(request[s], k) \/ (s = r /\ k \notin generated /\ k \in generated')
  BY DEF Moves
<1>3. \A i \in Code : Verifies(email_verification', i, k) =>
        opened[k] = 0 /\ k \in generated /\ k \in generated'
  BY <1>1, <1>2 DEF Moves
<1>4. \A i \in Code : ResetsBy(reset_password', i, k) =>
        opened[k] = 0 /\ k \in generated /\ k \in generated'
  BY <1>1, <1>2 DEF Moves
<1>5. \A s \in Request : Mails(request'[s], k) => opened[k] = 0 /\ k \in generated'
  BY <1>1, <1>2 DEF Moves
<1>6. opened'[k] \in {0, 1} /\ (k \notin generated' => opened'[k] = 0)
  BY <1>1 DEF Moves
<1>7. /\ \A i \in Code : Verifies(email_verification', i, k) => opened'[k] = 0
      /\ \A i \in Code : ResetsBy(reset_password', i, k) => opened'[k] = 0
  BY <1>3, <1>4 DEF Moves
<1>8. \A s \in Request : Mails(request'[s], k) => opened'[k] = 0
  BY <1>2, <1>5 DEF Moves
<1>9. \A i, j \in Code : Verifies(email_verification', i, k) /\ Verifies(email_verification', j, k) =>
        i = j
  BY <1>1, <1>2
<1>10. \A i, j \in Code : ResetsBy(reset_password', i, k) /\ ResetsBy(reset_password', j, k) =>
         i = j
  BY <1>1, <1>2
<1>11. \A i, j \in Code : ~(Verifies(email_verification', i, k) /\ ResetsBy(reset_password', j, k))
  BY <1>1, <1>2 DEF Moves
<1>12. \A i \in Code, s \in Request :
         ~(Verifies(email_verification', i, k) /\ Mails(request'[s], k))
  BY <1>1, <1>2
<1>13. \A i \in Code, s \in Request : ~(ResetsBy(reset_password', i, k) /\ Mails(request'[s], k))
  BY <1>1, <1>2
<1>14. \A s, t \in Request : Mails(request'[s], k) /\ Mails(request'[t], k) => s = t
  BY <1>1, <1>2
<1> QED  BY <1>3, <1>4, <1>5, <1>6, <1>7, <1>8, <1>9, <1>10, <1>11, <1>12, <1>13, <1>14
             DEF OnceAt

\* A step of r leaves the locals of the others alone.
LEMMA LemmaOnly ==
  ASSUME IInv, NEW r \in Request, Step(r)
  PROVE  \A s \in Request : s # r => request'[s] = request[s]
<1>1. ASSUME NEW h, Becomes(r, h)
      PROVE  \A s \in Request : s # r => request'[s] = request[s]
  BY <1>1 DEF Becomes, IInv, TypeOK
<1>2. CASE \E e \in Email : SignUpLoads(r, e)
  BY <1>1, <1>2 DEF SignUpLoads
<1>3. CASE \E u \in User : ForgotLoads(r, u)
  BY <1>1, <1>3 DEF ForgotLoads
<1>4. CASE \E u \in User : FormToken(r, u) \/ EmailSignin(r, u)
  BY <1>1, <1>4 DEF FormToken, EmailSignin, LoginLoads
<1>5. CASE MailSent(r) \/ MailFails(r) \/ SignUpCommits(r) \/ ForgotCommits(r)
  BY <1>1, <1>5 DEF MailSent, MailFails, SignUpCommits, ForgotCommits
<1>6. CASE \E i \in Code : VerifyLoads(r, i) \/ ResetLoads(r, i)
  BY <1>1, <1>6 DEF VerifyLoads, ResetLoads
<1>7. CASE VerifyCommits(r) \/ ResetCommits(r) \/ DropCommits(r) \/ Grants(r) \/ Crash(r)
  BY <1>1, <1>7 DEF VerifyCommits, ResetCommits, DropCommits, Grants, Crash
<1>8. CASE \E t \in token : Logout(r, t) \/ Refuse(r, t)
  BY <1>8 DEF Logout, Refuse
<1>9. CASE GithubVerified(r) \/ GoogleVerified(r) \/ ProviderCommits(r)
  BY <1>1, <1>9 DEF GithubVerified, GoogleVerified, ProviderLoads, ProviderCommits
<1> QED  BY <1>2, <1>3, <1>4, <1>5, <1>6, <1>7, <1>8, <1>9 DEF Step

\* While s is between its SELECT and its commit, the one process runs nothing
\* that reads or writes the tables.
LEMMA LemmaAlone ==
  ASSUME IInv, Single, Calm(request), NEW r \in Request, Step(r),
         NEW s \in Request, s # r, request[s].pc \in Busy
  PROVE  /\ UNCHANGED <<user, email_verification, reset_password>>
         /\ request'[r].pc \notin Busy
<1>1. ~LoopFree(r) /\ ~Arrives(r)
  BY DEF LoopFree, Arrives, Single
<1>2. request[r].pc \notin Busy
  BY DEF Calm
<1>3. MailSent(r) \/ MailFails(r) \/ Crash(r)
  <2>1. /\ ~(\E e \in Email : SignUpLoads(r, e))
        /\ ~(\E u \in User : ForgotLoads(r, u) \/ FormToken(r, u) \/ EmailSignin(r, u))
    BY <1>1 DEF SignUpLoads, ForgotLoads, FormToken, EmailSignin, LoginLoads
  <2>2. ~SignUpCommits(r) /\ ~ForgotCommits(r)
    BY <1>1 DEF SignUpCommits, ForgotCommits
  <2>3. /\ ~(\E i \in Code : VerifyLoads(r, i) \/ ResetLoads(r, i))
        /\ ~(\E t \in token : Logout(r, t) \/ Refuse(r, t))
        /\ ~GithubVerified(r) /\ ~GoogleVerified(r)
    BY <1>1 DEF VerifyLoads, ResetLoads, Logout, Refuse, GithubVerified, GoogleVerified,
                ProviderLoads
  <2>4. ~VerifyCommits(r) /\ ~ResetCommits(r) /\ ~DropCommits(r) /\ ~Grants(r)
        /\ ~ProviderCommits(r)
    BY <1>2 DEF VerifyCommits, ResetCommits, DropCommits, Grants, ProviderCommits, Busy
  <2> QED  BY <2>1, <2>2, <2>3, <2>4 DEF Step
<1>4. UNCHANGED <<user, email_verification, reset_password>>
  BY <1>3 DEF MailSent, MailFails, Crash, tables
<1>5. request[r].pc = "mailing" => request[r] \in SigningUp \cup Forgetting
  BY LemmaShape DEF IInv, TypeOK, Local, Mailing
<1>6. request'[r].pc \in {"mailed", "idle"}
  BY <1>3, <1>5 DEF MailSent, MailFails, Crash, Becomes, Idle, IInv, TypeOK, SigningUp, Forgetting
<1> QED  BY <1>4, <1>6 DEF Busy

LEMMA LemmaCalm ==
  ASSUME IInv, Single, Calm(request), NEW r \in Request, Step(r)
  PROVE  Calm(request')
BY LemmaOnly, LemmaAlone DEF Calm
\* The handlers that load nothing that a later write goes by.
LEMMA LemmaUnloaded ==
  ASSUME IInv, NEW r \in Request, Step(r),
         ~(\E i \in Code : VerifyLoads(r, i) \/ ResetLoads(r, i)),
         ~GithubVerified(r), ~GoogleVerified(r)
  PROVE  request'[r].pc \notin {"verifying", "resetting", "meeting"}
<1>1. ASSUME NEW h, Becomes(r, h), h.pc \notin {"verifying", "resetting", "meeting"}
      PROVE  request'[r].pc \notin {"verifying", "resetting", "meeting"}
  BY <1>1 DEF Becomes, IInv, TypeOK
<1>2. ASSUME NEW e \in Email, SignUpLoads(r, e)
      PROVE  request'[r].pc \notin {"verifying", "resetting", "meeting"}
  <2> DEFINE local(k, n, p) ==
        [pc |-> "mailing", op |-> "signup", email |-> e,
         username |-> n, password |-> p, code |-> k,
         expired_at |-> clock + CodeLife, row |-> Null, was |-> n]
             rewrite(k, n, p, i) ==
        [local(k, n, p) EXCEPT !.row = i, !.was = email_verification[i].username]
  <2>1. PICK k \in Code, n \in Name, p \in Password :
          \/ Becomes(r, local(k, n, p))
          \/ \E i \in Code : Becomes(r, rewrite(k, n, p, i))
    BY <1>2 DEF SignUpLoads, Verifications
  <2>2. local(k, n, p).pc = "mailing" /\ \A i : rewrite(k, n, p, i).pc = "mailing"
    OBVIOUS
  <2> HIDE DEF local, rewrite
  <2> QED  BY <1>1, <2>1, <2>2
<1>3. ASSUME NEW u \in User, ForgotLoads(r, u)
      PROVE  request'[r].pc \notin {"verifying", "resetting", "meeting"}
  <2> DEFINE local(k) == [pc |-> "mailing", op |-> "forgot", user |-> u, code |-> k,
                          expired_at |-> clock + CodeLife, row |-> Null]
             rewrite(k, i) == [local(k) EXCEPT !.row = i]
  <2>1. PICK k \in Code :
          \/ Becomes(r, local(k))
          \/ \E i \in Code : Becomes(r, rewrite(k, i))
    BY <1>3 DEF ForgotLoads, Resets
  <2>2. local(k).pc = "mailing" /\ \A i : rewrite(k, i).pc = "mailing"
    OBVIOUS
  <2> HIDE DEF local, rewrite
  <2> QED  BY <1>1, <2>1, <2>2
<1>4. CASE \E u \in User : FormToken(r, u) \/ EmailSignin(r, u)
  BY <1>1, <1>4 DEF FormToken, EmailSignin, LoginLoads
<1>5. CASE MailSent(r)
  <2>1. request[r] \in SigningUp \cup Forgetting
    BY <1>5, LemmaShape DEF MailSent, IInv, TypeOK, Local, Mailing
  <2>2. [request[r] EXCEPT !.pc = "mailed"].pc = "mailed"
    BY <2>1 DEF SigningUp, Forgetting
  <2> QED  BY <1>1, <1>5, <2>2 DEF MailSent
<1>6. Idle.pc = "idle"
  BY DEF Idle
<1>7. CASE MailFails(r) \/ SignUpCommits(r) \/ ForgotCommits(r)
  BY <1>1, <1>6, <1>7 DEF MailFails, SignUpCommits, ForgotCommits
<1>8. CASE VerifyCommits(r) \/ ResetCommits(r) \/ DropCommits(r) \/ Grants(r) \/ Crash(r)
  BY <1>1, <1>6, <1>8 DEF VerifyCommits, ResetCommits, DropCommits, Grants, Crash
<1>9. CASE \E t \in token : Logout(r, t) \/ Refuse(r, t)
  BY <1>6, <1>9 DEF Logout, Refuse, Arrives
<1>10. CASE ProviderCommits(r)
  BY <1>1, <1>10 DEF ProviderCommits
<1> QED  BY <1>2, <1>3, <1>4, <1>5, <1>7, <1>8, <1>9, <1>10 DEF Step

\* What a handler loaded is what the tables hold.
LEMMA LemmaLoaded ==
  ASSUME AccountsAssumption, IInv, Single, OneProcess, NEW r \in Request, Step(r)
  PROVE  \A s \in Request : Loaded(request'[s], email_verification', reset_password', user')
<1>1. ASSUME NEW s \in Request, s # r
      PROVE  Loaded(request'[s], email_verification', reset_password', user')
  <2>1. /\ request'[s] = request[s]
        /\ Loaded(request[s], email_verification, reset_password, user)
    BY <1>1, LemmaOnly DEF OneProcess
  <2>2. CASE request[s].pc \in Busy
    <3>1. UNCHANGED <<user, email_verification, reset_password>>
      BY <1>1, <2>2, LemmaAlone DEF OneProcess
    <3> QED  BY <2>1, <3>1
  <2>3. CASE request[s].pc \notin Busy
    BY <2>1, <2>3 DEF Busy, Loaded
  <2> QED  BY <2>2, <2>3
<1>2. ASSUME NEW h, Becomes(r, h)
      PROVE  request'[r] = h
  BY <1>2 DEF Becomes, IInv, TypeOK
<1>3. ASSUME NEW i \in Code, VerifyLoads(r, i)
      PROVE  Loaded(request'[r], email_verification', reset_password', user')
  <2>1. UNCHANGED <<user, email_verification, reset_password>>
    BY <1>3 DEF VerifyLoads, tables
  <2>2. CASE Becomes(r, [pc |-> "dropping", op |-> "signup", id |-> i])
    BY <1>2, <2>2 DEF Loaded
  <2>3. CASE /\ Unregistered(email_verification[i].email)
             /\ Becomes(r, [pc |-> "verifying", id |-> i, row |-> email_verification[i]])
    <3>1. request'[r] = [pc |-> "verifying", id |-> i, row |-> email_verification[i]]
      BY <1>2, <2>3
    <3>2. \A w \in User : user[w] # Absent => user[w].email # email_verification[i].email
      BY <2>3 DEF Unregistered, WithEmail, Users
    <3> QED  BY <2>1, <3>1, <3>2 DEF Loaded
  <2> QED  BY <1>3, <2>2, <2>3 DEF VerifyLoads
<1>4. ASSUME NEW i \in Code, ResetLoads(r, i)
      PROVE  Loaded(request'[r], email_verification', reset_password', user')
  <2>1. UNCHANGED <<user, email_verification, reset_password>>
    BY <1>4 DEF ResetLoads, tables
  <2>2. CASE Becomes(r, [pc |-> "dropping", op |-> "forgot", id |-> i])
    BY <1>2, <2>2 DEF Loaded
  <2>3. CASE \E p \in Password :
               Becomes(r, [pc |-> "resetting", id |-> i, row |-> reset_password[i],
                           password |-> p])
    BY <1>2, <2>1, <2>3 DEF Loaded
  <2> QED  BY <1>4, <2>2, <2>3 DEF ResetLoads
<1>5. ASSUME NEW a \in Account, ProviderLoads(r, a)
      PROVE  Loaded(request'[r], email_verification', reset_password', user')
  <2>1. UNCHANGED <<user, email_verification, reset_password>>
    BY <1>5 DEF ProviderLoads, tables
  <2>2. CASE Found(a) = {} /\ Becomes(r, [pc |-> "meeting", account |-> a, user |-> Null])
    <3>1. request'[r] = [pc |-> "meeting", account |-> a, user |-> Null]
      BY <1>2, <2>2
    <3>2. AddressOf[a] # Null => ByAddress(a) = {}
      BY <2>2 DEF Found
    <3>3. AddressOf[a] # Null =>
            \A w \in User : user[w] # Absent => user[w].username # AddressOf[a]
      BY <3>2 DEF ByAddress, Users
    <3> QED  BY <2>1, <3>1, <3>3 DEF Loaded
  <2>3. CASE \E u \in Found(a) : Becomes(r, [pc |-> "meeting", account |-> a, user |-> u])
    <3>1. PICK u \in Found(a) : Becomes(r, [pc |-> "meeting", account |-> a, user |-> u])
      BY <2>3
    <3>2. u # Null
      BY <3>1 DEF Found, WithProviderId, ByAddress, Users, AccountsAssumption
    <3>3. request'[r] = [pc |-> "meeting", account |-> a, user |-> u]
      BY <1>2, <3>1
    <3> QED  BY <3>2, <3>3 DEF Loaded
  <2> QED  BY <1>5, <2>2, <2>3 DEF ProviderLoads
<1>6. Loaded(request'[r], email_verification', reset_password', user')
  <2>1. CASE \E i \in Code : VerifyLoads(r, i) \/ ResetLoads(r, i)
    BY <1>3, <1>4, <2>1
  <2>2. CASE GithubVerified(r) \/ GoogleVerified(r)
    BY <1>5, <2>2 DEF GithubVerified, GoogleVerified, AccountsAssumption
  <2>3. CASE request'[r].pc \notin {"verifying", "resetting", "meeting"}
    BY <2>3 DEF Loaded
  <2> QED  BY <2>1, <2>2, <2>3, LemmaUnloaded
<1> QED  BY <1>1, <1>6

\* A new user n that nobody else is.
LEMMA LemmaOneMore ==
  ASSUME NEW u, NEW v, People(u), NEW n,
         \A w \in User : w # n /\ v[w] # Absent => u[w] # Absent /\ SamePerson(u[w], v[w]),
         n \in User =>
           \/ /\ v[n].provider_id = Null
              /\ \A w \in User : u[w] # Absent => u[w].email # v[n].email
           \/ /\ v[n].provider_id # Null
              /\ AddressOf[v[n].provider_id] # Null =>
                   /\ v[n].username = AddressOf[v[n].provider_id]
                   /\ \A w \in User : u[w] # Absent => u[w].username # v[n].username
  PROVE  People(v)
<1>1. \A w \in User : w # n /\ v[w] # Absent =>
        /\ u[w] # Absent /\ v[w].username = u[w].username /\ v[w].email = u[w].email
        /\ v[w].provider_id = u[w].provider_id
  BY DEF SamePerson
<1>2. \A w \in User :
       /\ v[w] # Absent /\ v[w].provider_id # Null
       /\ AddressOf[v[w].provider_id] # Null
       => v[w].username = AddressOf[v[w].provider_id]
  BY <1>1 DEF People
<1>3. ASSUME NEW w \in User, NEW x \in User,
             v[w] # Absent, v[w].provider_id = Null, v[x] # Absent, v[x].provider_id = Null,
             v[w].email = v[x].email
      PROVE  w = x
  <2>1. CASE w # n /\ x # n
    BY <1>1, <1>3, <2>1 DEF People
  <2>2. CASE w = n \/ x = n
    BY <1>1, <1>3, <2>2
  <2> QED  BY <2>1, <2>2
<1>4. ASSUME NEW w \in User, NEW x \in User,
             v[w] # Absent, v[w].provider_id # Null, v[x] # Absent, v[x].provider_id # Null,
             AddressOf[v[w].provider_id] # Null,
             AddressOf[v[w].provider_id] = AddressOf[v[x].provider_id]
      PROVE  w = x
  <2>1. CASE w # n /\ x # n
    BY <1>1, <1>4, <2>1 DEF People
  <2>2. CASE w = n \/ x = n
    BY <1>1, <1>2, <1>4, <2>2
  <2> QED  BY <2>1, <2>2
<1> QED  BY <1>2, <1>3, <1>4 DEF People

LEMMA LemmaPeople ==
  ASSUME AccountsAssumption, IInv, OneProcess, NEW r \in Request, Step(r)
  PROVE  People(user')
<1>1. People(user) /\ Loaded(request[r], email_verification, reset_password, user)
  BY DEF OneProcess
<1>2. CASE user' = user
  BY <1>1, <1>2
<1>3. CASE VerifyCommits(r)
  <2> DEFINE row == request[r].row
  <2>1. PICK n \in User : user[n] = Absent /\ user' = [user EXCEPT ![n] = Registered(row)]
    BY <1>3, LemmaVerified
  <2>2. /\ user'[n] = Registered(row)
        /\ \A w \in User : w # n => user'[w] = user[w]
    BY <2>1, LemmaUsers
  <2>3. user'[n].provider_id = Null /\ user'[n].email = row.email
    BY <2>2 DEF Registered
  <2>4. \A w \in User : user[w] # Absent => user[w].email # row.email
    BY <1>1, <1>3 DEF Loaded, VerifyCommits
  <2>5. \A w \in User : w # n /\ user'[w] # Absent =>
          user[w] # Absent /\ SamePerson(user[w], user'[w])
    BY <2>2 DEF SamePerson
  <2> QED  BY <1>1, <2>3, <2>4, <2>5, LemmaOneMore
<1>4. CASE ResetCommits(r)
  <2> DEFINE m == request[r].row.user
  <2>1. /\ user[m] # Absent /\ SamePerson(user[m], user'[m])
        /\ \A w \in User : w # m => user'[w] = user[w]
    BY <1>4, LemmaReset
  <2>2. \A w \in User : w # Null /\ user'[w] # Absent =>
          user[w] # Absent /\ SamePerson(user[w], user'[w])
    BY <2>1 DEF SamePerson
  <2>3. Null \notin User
    BY DEF AccountsAssumption
  <2> QED  BY <1>1, <2>2, <2>3, LemmaOneMore
<1>5. CASE ProviderCommits(r)
  <2> DEFINE a == request[r].account
  <2>1. PICK n \in User :
          /\ \A w \in User : w # n => user'[w] = user[w]
          /\ user[n] = Absent => /\ request[r].user = Null /\ a # Null
                                 /\ user'[n] = ProviderUser(a) /\ user'[n].provider_id = a
          /\ user[n] # Absent => SamePerson(user[n], user'[n])
    BY <1>5, LemmaMet
  <2>2. CASE user[n] = Absent
    <3>1. user'[n].username = UsernameFor(a) /\ user'[n].provider_id = a /\ a # Null
      BY <2>1, <2>2 DEF ProviderUser
    <3>2. AddressOf[a] # Null =>
            /\ user'[n].username = AddressOf[a]
            /\ \A w \in User : user[w] # Absent => user[w].username # AddressOf[a]
      BY <1>1, <1>5, <2>1, <2>2, <3>1 DEF Loaded, UsernameFor, ProviderCommits
    <3>3. \A w \in User : w # n /\ user'[w] # Absent =>
            user[w] # Absent /\ SamePerson(user[w], user'[w])
      BY <2>1 DEF SamePerson
    <3> HIDE DEF a
    <3> QED  BY <1>1, <3>1, <3>2, <3>3, LemmaOneMore
  <2>3. CASE user[n] # Absent
    <3>1. \A w \in User : w # Null /\ user'[w] # Absent =>
            user[w] # Absent /\ SamePerson(user[w], user'[w])
      BY <2>1, <2>3 DEF SamePerson
    <3>2. Null \notin User
      BY DEF AccountsAssumption
    <3> QED  BY <1>1, <3>1, <3>2, LemmaOneMore
  <2> QED  BY <2>2, <2>3
<1>6. user' = user \/ VerifyCommits(r) \/ ResetCommits(r) \/ ProviderCommits(r)
  BY LemmaUsersOf
<1> QED  BY <1>2, <1>3, <1>4, <1>5, <1>6
\* A step that draws no code, mails none and only deletes rows.
LEMMA LemmaQuiet ==
  ASSUME AccountsAssumption, IInv, OneProcess, NEW r \in Request, Step(r),
         generated' = generated, opened' = opened,
         \A i \in Code : email_verification'[i] \in {email_verification[i], Absent},
         \A i \in Code : reset_password'[i] \in {reset_password[i], Absent},
         \A k \in Code : Mails(request'[r], k) => Mails(request[r], k)
  PROVE  Once(email_verification', reset_password', request', generated', opened')
<1>1. Once(email_verification, reset_password, request, generated, opened)
  BY DEF OneProcess
<1>2. /\ \A i, k \in Code : Verifies(email_verification', i, k) => Verifies(email_verification, i, k)
      /\ \A i, k \in Code : ResetsBy(reset_password', i, k) => ResetsBy(reset_password, i, k)
  BY DEF Verifies, ResetsBy
<1>3. \A s \in Request, k \in Code : Mails(request'[s], k) => Mails(request[s], k)
  BY LemmaOnly
<1>4. Null \notin Code
  BY DEF AccountsAssumption
<1>5. generated \subseteq generated' /\ \A k \in Code : opened'[k] = opened[k]
  OBVIOUS
<1>6. Moves(r, Null, Null)
  BY <1>2, <1>3, <1>4, <1>5 DEF Moves
<1> QED  BY <1>6, LemmaMoves DEF OneProcess

LEMMA LemmaQuietSteps ==
  ASSUME AccountsAssumption, IInv, OneProcess, NEW r \in Request, Step(r),
         \A e \in Email : ~SignUpLoads(r, e), \A u \in User : ~ForgotLoads(r, u),
         ~SignUpCommits(r), ~ForgotCommits(r), ~VerifyCommits(r), ~ResetCommits(r)
  PROVE  Once(email_verification', reset_password', request', generated', opened')
<1>1. ASSUME NEW h, Becomes(r, h)
      PROVE  request'[r] = h
  BY <1>1 DEF Becomes, IInv, TypeOK
<1>2. ASSUME UNCHANGED <<email_verification, reset_password, generated, opened>>,
             \A k \in Code : Mails(request'[r], k) => Mails(request[r], k)
      PROVE  Once(email_verification', reset_password', request', generated', opened')
  BY <1>2, LemmaQuiet
<1>3. ASSUME NEW h, Becomes(r, h), h.pc \notin {"mailing", "mailed"}
      PROVE  \A k \in Code : Mails(request'[r], k) => Mails(request[r], k)
  BY <1>1, <1>3 DEF Mails, Mailing
<1>4. Idle.pc = "idle"
  BY DEF Idle
<1>5. CASE \E u \in User : FormToken(r, u) \/ EmailSignin(r, u)
  <2>1. PICK u \in User : LoginLoads(r, u)
    BY <1>5 DEF FormToken, EmailSignin
  <2>2. Becomes(r, [pc |-> "granting", user |-> u, at |-> clock])
    BY <2>1 DEF LoginLoads
  <2>3. \A k \in Code : Mails(request'[r], k) => Mails(request[r], k)
    BY <1>3, <2>2
  <2> QED  BY <1>2, <2>1, <2>3 DEF LoginLoads, tables, history
<1>6. CASE MailSent(r)
  <2>1. request[r] \in SigningUp \cup Forgetting
    BY <1>6, LemmaShape DEF MailSent, IInv, TypeOK, Local, Mailing
  <2>2. request'[r] = [request[r] EXCEPT !.pc = "mailed"] /\ request[r].pc = "mailing"
    BY <1>1, <1>6 DEF MailSent
  <2>3. request'[r].code = request[r].code
    BY <2>1, <2>2 DEF SigningUp, Forgetting
  <2>4. \A k \in Code : Mails(request'[r], k) => Mails(request[r], k)
    BY <2>2, <2>3 DEF Mails, Mailing
  <2> QED  BY <1>2, <1>6, <2>4 DEF MailSent, tables
<1>7. CASE MailFails(r)
  BY <1>2, <1>3, <1>4, <1>7 DEF MailFails, tables
<1>8. CASE Grants(r)
  BY <1>2, <1>3, <1>4, <1>8 DEF Grants, history
<1>9. CASE Crash(r)
  BY <1>2, <1>3, <1>4, <1>9 DEF Crash, tables, history
<1>10. CASE \E t \in token : Logout(r, t) \/ Refuse(r, t)
  <2>1. \A k \in Code : Mails(request'[r], k) => Mails(request[r], k)
    BY <1>10 DEF Logout, Refuse
  <2> QED  BY <1>2, <1>10, <2>1 DEF Logout, Refuse, history
<1>11. CASE DropCommits(r)
  <2>1. \A k \in Code : Mails(request'[r], k) => Mails(request[r], k)
    BY <1>3, <1>4, <1>11 DEF DropCommits
  <2>2. \A i \in Code : email_verification'[i] \in {email_verification[i], Absent}
    BY <1>11 DEF DropCommits, IInv, TypeOK
  <2>3. \A i \in Code : reset_password'[i] \in {reset_password[i], Absent}
    BY <1>11 DEF DropCommits, IInv, TypeOK
  <2> QED  BY <1>11, <2>1, <2>2, <2>3, LemmaQuiet DEF DropCommits, history
<1>12. CASE \E i \in Code : VerifyLoads(r, i)
  <2>1. PICK i \in Code : VerifyLoads(r, i)
    BY <1>12
  <2>2. \E h : Becomes(r, h) /\ h.pc \notin {"mailing", "mailed"}
    <3>1. CASE Becomes(r, [pc |-> "dropping", op |-> "signup", id |-> i])
      BY <3>1
    <3>2. CASE Becomes(r, [pc |-> "verifying", id |-> i, row |-> email_verification[i]])
      BY <3>2
    <3> QED  BY <2>1, <3>1, <3>2 DEF VerifyLoads
  <2> QED  BY <1>2, <1>3, <2>1, <2>2 DEF VerifyLoads, tables, history
<1>13. CASE \E i \in Code : ResetLoads(r, i)
  <2>1. PICK i \in Code : ResetLoads(r, i)
    BY <1>13
  <2>2. \E h : Becomes(r, h) /\ h.pc \notin {"mailing", "mailed"}
    <3>1. CASE Becomes(r, [pc |-> "dropping", op |-> "forgot", id |-> i])
      BY <3>1
    <3>2. ASSUME NEW p \in Password,
                 Becomes(r, [pc |-> "resetting", id |-> i, row |-> reset_password[i],
                             password |-> p])
          PROVE  \E h : Becomes(r, h) /\ h.pc \notin {"mailing", "mailed"}
      BY <3>2
    <3> QED  BY <2>1, <3>1, <3>2 DEF ResetLoads
  <2> QED  BY <1>2, <1>3, <2>1, <2>2 DEF ResetLoads, tables, history
<1>14. CASE GithubVerified(r) \/ GoogleVerified(r)
  <2>1. PICK a : ProviderLoads(r, a)
    BY <1>14 DEF GithubVerified, GoogleVerified
  <2>2. \E u : Becomes(r, [pc |-> "meeting", account |-> a, user |-> u])
    BY <2>1 DEF ProviderLoads
  <2>3. \A k \in Code : Mails(request'[r], k) => Mails(request[r], k)
    BY <1>3, <2>2
  <2> QED  BY <1>2, <2>1, <2>3 DEF ProviderLoads, tables, history
<1>15. CASE ProviderCommits(r)
  <2>1. \E u : Becomes(r, [pc |-> "granting", user |-> u, at |-> clock])
    BY <1>15 DEF ProviderCommits
  <2>2. \A k \in Code : Mails(request'[r], k) => Mails(request[r], k)
    BY <1>3, <2>1
  <2> QED  BY <1>2, <1>15, <2>2 DEF ProviderCommits, history
<1> QED  BY <1>5, <1>6, <1>7, <1>8, <1>9, <1>10, <1>11, <1>12, <1>13, <1>14, <1>15 DEF Step

\* A code that is drawn is nobody's yet.
LEMMA LemmaDraws ==
  ASSUME AccountsAssumption, IInv, OneProcess, NEW r \in Request, Step(r),
         NEW k \in Code \ generated, generated' = generated \cup {k},
         request'[r].code = k, UNCHANGED <<email_verification, reset_password, opened>>
  PROVE  Once(email_verification', reset_password', request', generated', opened')
<1>1. Once(email_verification, reset_password, request, generated, opened)
  BY DEF OneProcess
<1>2. \A s \in Request, c \in Code : Mails(request'[s], c) =>
        Mails(request[s], c) \/ (s = r /\ c \notin generated /\ c \in generated')
  BY LemmaOnly DEF Mails
<1>3. Null \notin Code
  BY DEF AccountsAssumption
<1>4. /\ \A i, c \in Code : Verifies(email_verification', i, c) => Verifies(email_verification, i, c)
      /\ \A i, c \in Code : ResetsBy(reset_password', i, c) => ResetsBy(reset_password, i, c)
      /\ generated \subseteq generated' /\ \A c \in Code : opened'[c] = opened[c]
  OBVIOUS
<1>5. Moves(r, Null, Null)
  BY <1>2, <1>3, <1>4 DEF Moves
<1> QED  BY <1>5, LemmaMoves DEF OneProcess

LEMMA LemmaLoadsDraw ==
  ASSUME AccountsAssumption, IInv, OneProcess, NEW r \in Request, Step(r),
         \/ \E e \in Email : SignUpLoads(r, e)
         \/ \E u \in User : ForgotLoads(r, u)
  PROVE  Once(email_verification', reset_password', request', generated', opened')
<1>1. ASSUME NEW h, Becomes(r, h)
      PROVE  request'[r] = h
  BY <1>1 DEF Becomes, IInv, TypeOK
<1>2. ASSUME NEW e \in Email, SignUpLoads(r, e)
      PROVE  Once(email_verification', reset_password', request', generated', opened')
  <2> DEFINE local(k, n, p) ==
        [pc |-> "mailing", op |-> "signup", email |-> e,
         username |-> n, password |-> p, code |-> k,
         expired_at |-> clock + CodeLife, row |-> Null, was |-> n]
             rewrite(k, n, p, i) ==
        [local(k, n, p) EXCEPT !.row = i, !.was = email_verification[i].username]
  <2>1. PICK k \in Code \ generated, n \in Name, p \in Password :
          /\ generated' = generated \cup {k}
          /\ \/ Becomes(r, local(k, n, p))
             \/ \E i \in Code : Becomes(r, rewrite(k, n, p, i))
    BY <1>2 DEF SignUpLoads, Verifications
  <2>2. local(k, n, p).code = k /\ \A i : rewrite(k, n, p, i).code = k
    OBVIOUS
  <2> HIDE DEF local, rewrite
  <2>3. request'[r].code = k
    BY <1>1, <2>1, <2>2
  <2>4. UNCHANGED <<email_verification, reset_password, opened>>
    BY <1>2 DEF SignUpLoads, tables, history
  <2> QED  BY <2>1, <2>3, <2>4, LemmaDraws
<1>3. ASSUME NEW u \in User, ForgotLoads(r, u)
      PROVE  Once(email_verification', reset_password', request', generated', opened')
  <2> DEFINE local(k) == [pc |-> "mailing", op |-> "forgot", user |-> u, code |-> k,
                          expired_at |-> clock + CodeLife, row |-> Null]
             rewrite(k, i) == [local(k) EXCEPT !.row = i]
  <2>1. PICK k \in Code \ generated :
          /\ generated' = generated \cup {k}
          /\ \/ Becomes(r, local(k))
             \/ \E i \in Code : Becomes(r, rewrite(k, i))
    BY <1>3 DEF ForgotLoads, Resets
  <2>2. local(k).code = k /\ \A i : rewrite(k, i).code = k
    OBVIOUS
  <2> HIDE DEF local, rewrite
  <2>3. request'[r].code = k
    BY <1>1, <2>1, <2>2
  <2>4. UNCHANGED <<email_verification, reset_password, opened>>
    BY <1>3 DEF ForgotLoads, tables, history
  <2> QED  BY <2>1, <2>3, <2>4, LemmaDraws
<1> QED  BY <1>2, <1>3

\* The code that was mailed moves to the row that is committed.
LEMMA LemmaSignUpOnce ==
  ASSUME AccountsAssumption, IInv, OneProcess, NEW r \in Request, Step(r), SignUpCommits(r)
  PROVE  Once(email_verification', reset_password', request', generated', opened')
<1> DEFINE g == request[r]
           taken == \E i \in Verifications : email_verification[i].email = g.email
           x == IF g.row = Null THEN g.code ELSE g.row
<1>1. g \in SigningUp /\ Mailing(g)
  BY LemmaShape DEF IInv, TypeOK, Local, SignUpCommits, MayCommit, Mailing
<1>2. /\ g.code \in Code /\ g.row \in Code \cup {Null} /\ Mails(g, g.code)
  BY <1>1 DEF SigningUp, Mails
<1>3. email_verification' =
           CASE g.row = Null /\ ~taken ->
                  [email_verification EXCEPT ![g.code] = NewVerification(g)]
             [] g.row \in Verifications ->
                  [email_verification EXCEPT ![g.row] = Renewed(g, @)]
             [] OTHER -> email_verification
  BY DEF SignUpCommits
<1>4. /\ UNCHANGED <<reset_password, generated, opened>> /\ request'[r] = Idle
  BY DEF SignUpCommits, history, Becomes, IInv, TypeOK
<1>5. \A k \in Code : ~Mails(request'[r], k)
  BY <1>4 DEF Mails, Mailing, Idle
<1>6. /\ email_verification \in [Code -> VerificationRow \cup {Absent}]
      /\ Once(email_verification, reset_password, request, generated, opened)
      /\ Null \notin Code
  BY DEF IInv, TypeOK, OneProcess, AccountsAssumption
<1> HIDE DEF g, taken, x
<1>7. \A i \in Code : \/ email_verification'[i] = email_verification[i]
                      \/ i = x /\ email_verification'[i].code = g.code
  <2>1. CASE g.row = Null /\ ~taken
    <3>1. email_verification' = [email_verification EXCEPT ![g.code] = NewVerification(g)]
      BY <1>3, <1>6, <2>1 DEF Verifications
    <3>2. x = g.code /\ NewVerification(g).code = g.code
      BY <2>1 DEF x, NewVerification
    <3> QED  BY <1>2, <1>6, <3>1, <3>2
  <2>2. CASE g.row \in Verifications
    <3>1. g.row \in Code /\ email_verification[g.row] \in VerificationRow /\ x = g.row
      BY <1>6, <2>2 DEF Verifications, x
    <3>2. Renewed(g, email_verification[g.row]).code = g.code
      BY <3>1 DEF Renewed, VerificationRow
    <3>3. email_verification' =
            [email_verification EXCEPT ![g.row] = Renewed(g, email_verification[g.row])]
      BY <1>3, <2>2, <3>1, <1>6
    <3> QED  BY <1>6, <3>1, <3>2, <3>3
  <2>3. CASE ~(g.row = Null /\ ~taken) /\ g.row \notin Verifications
    BY <1>3, <2>3
  <2> QED  BY <2>1, <2>2, <2>3
<1>8. \A i, k \in Code : Verifies(email_verification', i, k) =>
        Verifies(email_verification, i, k)
          \/ (i = x /\ Mails(request[r], k) /\ ~Mails(request'[r], k))
  BY <1>2, <1>5, <1>7 DEF Verifies, g
<1>9. \A s \in Request, k \in Code : Mails(request'[s], k) => Mails(request[s], k)
  BY <1>5, LemmaOnly
<1>10. /\ \A i, k \in Code : ResetsBy(reset_password', i, k) => ResetsBy(reset_password, i, k)
       /\ generated \subseteq generated' /\ \A k \in Code : opened'[k] = opened[k]
  BY <1>4
<1>11. Moves(r, x, Null)
  BY <1>6, <1>8, <1>9, <1>10 DEF Moves
<1> QED  BY <1>11, LemmaMoves DEF OneProcess

LEMMA LemmaForgotOnce ==
  ASSUME AccountsAssumption, IInv, OneProcess, NEW r \in Request, Step(r), ForgotCommits(r)
  PROVE  Once(email_verification', reset_password', request', generated', opened')
<1> DEFINE g == request[r]
           y == IF g.row = Null THEN g.code ELSE g.row
<1>1. g \in Forgetting /\ Mailing(g)
  BY LemmaShape DEF IInv, TypeOK, Local, ForgotCommits, MayCommit, Mailing
<1>2. /\ g.code \in Code /\ g.row \in Code \cup {Null} /\ Mails(g, g.code)
  BY <1>1 DEF Forgetting, Mails
<1>3. reset_password' =
           CASE g.row = Null -> [reset_password EXCEPT ![g.code] = ResetFor(g)]
             [] g.row \in Resets -> [reset_password EXCEPT ![g.row] = ResetFor(g)]
             [] OTHER -> reset_password
  BY DEF ForgotCommits
<1>4. /\ UNCHANGED <<email_verification, generated, opened>> /\ request'[r] = Idle
  BY DEF ForgotCommits, history, Becomes, IInv, TypeOK
<1>5. \A k \in Code : ~Mails(request'[r], k)
  BY <1>4 DEF Mails, Mailing, Idle
<1>6. /\ reset_password \in [Code -> ResetRow \cup {Absent}]
      /\ Once(email_verification, reset_password, request, generated, opened)
      /\ Null \notin Code
  BY DEF IInv, TypeOK, OneProcess, AccountsAssumption
<1>7. ResetFor(g).code = g.code
  BY DEF ResetFor
<1> HIDE DEF g, y
<1>8. \A i \in Code : \/ reset_password'[i] = reset_password[i]
                      \/ i = y /\ reset_password'[i].code = g.code
  <2>1. CASE g.row = Null
    <3>1. reset_password' = [reset_password EXCEPT ![g.code] = ResetFor(g)]
      BY <1>3, <1>6, <2>1 DEF Resets
    <3>2. y = g.code
      BY <2>1 DEF y
    <3> QED  BY <1>2, <1>6, <1>7, <3>1, <3>2
  <2>2. CASE g.row \in Resets
    <3>1. g.row \in Code /\ y = g.row /\ g.row # Null
      BY <1>6, <2>2 DEF Resets, y
    <3>2. reset_password' = [reset_password EXCEPT ![g.row] = ResetFor(g)]
      BY <1>3, <2>2, <3>1
    <3> QED  BY <1>6, <1>7, <3>1, <3>2
  <2>3. CASE g.row # Null /\ g.row \notin Resets
    BY <1>3, <2>3
  <2> QED  BY <2>1, <2>2, <2>3
<1>9. \A i, k \in Code : ResetsBy(reset_password', i, k) =>
        ResetsBy(reset_password, i, k)
          \/ (i = y /\ Mails(request[r], k) /\ ~Mails(request'[r], k))
  BY <1>2, <1>5, <1>8 DEF ResetsBy, g
<1>10. \A s \in Request, k \in Code : Mails(request'[s], k) => Mails(request[s], k)
  BY <1>5, LemmaOnly
<1>11. /\ \A i, k \in Code : Verifies(email_verification', i, k) =>
            Verifies(email_verification, i, k)
       /\ generated \subseteq generated' /\ \A k \in Code : opened'[k] = opened[k]
  BY <1>4
<1>12. Moves(r, Null, y)
  BY <1>6, <1>9, <1>10, <1>11 DEF Moves
<1> QED  BY <1>12, LemmaMoves DEF OneProcess

\* The row of the code that works goes in the same commit.
LEMMA LemmaVerifyOnce ==
  ASSUME AccountsAssumption, IInv, OneProcess, NEW r \in Request, Step(r), VerifyCommits(r)
  PROVE  Once(email_verification', reset_password', request', generated', opened')
<1> DEFINE g == request[r]
<1>1. g \in Verifying /\ g.pc = "verifying"
  BY LemmaShape DEF IInv, TypeOK, Local, VerifyCommits
<1>2. /\ g.id \in Code /\ g.row \in VerificationRow /\ g.row.code \in Code /\ g.row # Absent
  BY <1>1 DEF Verifying, VerificationRow, AccountsAssumption
<1>3. email_verification[g.id] = g.row
  BY <1>1 DEF OneProcess, Loaded
<1>4. /\ email_verification' = [email_verification EXCEPT ![g.id] = Absent]
      /\ opened' = [opened EXCEPT ![g.row.code] = @ + 1]
      /\ UNCHANGED <<reset_password, generated>> /\ request'[r] = Idle
  BY DEF VerifyCommits, Becomes, IInv, TypeOK
<1>5. /\ email_verification \in [Code -> VerificationRow \cup {Absent}] /\ opened \in [Code -> Nat]
      /\ Once(email_verification, reset_password, request, generated, opened)
      /\ Null \notin Code
  BY DEF IInv, TypeOK, OneProcess, AccountsAssumption
<1>6. \A k \in Code : ~Mails(request'[r], k)
  BY <1>4 DEF Mails, Mailing, Idle
<1> HIDE DEF g
<1> DEFINE k0 == g.row.code
<1>7. Verifies(email_verification, g.id, k0)
  BY <1>2, <1>3 DEF Verifies
<1>8. /\ \A i \in Code : email_verification'[i] = IF i = g.id THEN Absent ELSE email_verification[i]
      /\ \A k \in Code : opened'[k] = IF k = k0 THEN opened[k0] + 1 ELSE opened[k]
  BY <1>2, <1>4, <1>5
<1>9. k0 \in Code
  BY <1>2
<1> HIDE DEF k0
<1>10. \A i, k \in Code : Verifies(email_verification', i, k) =>
         Verifies(email_verification, i, k) /\ i # g.id
  BY <1>8 DEF Verifies
<1>11. /\ opened[k0] = 0 /\ k0 \in generated
       /\ \A i \in Code : Verifies(email_verification, i, k0) => i = g.id
       /\ \A i \in Code : ~ResetsBy(reset_password, i, k0)
       /\ \A s \in Request : ~Mails(request[s], k0)
  BY <1>2, <1>5, <1>7, <1>9 DEF Once, OnceAt
<1>12. \A i, k \in Code : ResetsBy(reset_password', i, k) => ResetsBy(reset_password, i, k)
  BY <1>4
<1>13. \A k \in Code : \/ opened'[k] = opened[k]
                       \/ /\ opened'[k] = 1 /\ k \in generated
                          /\ \A i \in Code : /\ ~Verifies(email_verification', i, k)
                                             /\ ~ResetsBy(reset_password', i, k)
                          /\ \A s \in Request : ~Mails(request[s], k)
  BY <1>8, <1>10, <1>11, <1>12
<1>14. \A s \in Request, k \in Code : Mails(request'[s], k) => Mails(request[s], k)
  BY <1>6, LemmaOnly
<1>15. generated \subseteq generated'
  BY <1>4
<1>16. Moves(r, Null, Null)
  BY <1>5, <1>10, <1>12, <1>13, <1>14, <1>15 DEF Moves
<1> QED  BY <1>16, LemmaMoves DEF OneProcess

LEMMA LemmaResetOnce ==
  ASSUME AccountsAssumption, IInv, OneProcess, NEW r \in Request, Step(r), ResetCommits(r)
  PROVE  Once(email_verification', reset_password', request', generated', opened')
<1> DEFINE g == request[r]
<1>1. g \in Resetting /\ g.pc = "resetting"
  BY LemmaShape DEF IInv, TypeOK, Local, ResetCommits
<1>2. /\ g.id \in Code /\ g.row \in ResetRow /\ g.row.code \in Code /\ g.row # Absent
  BY <1>1 DEF Resetting, ResetRow, AccountsAssumption
<1>3. reset_password[g.id] = g.row
  BY <1>1 DEF OneProcess, Loaded
<1>4. /\ reset_password' = [reset_password EXCEPT ![g.id] = Absent]
      /\ opened' = [opened EXCEPT ![g.row.code] = @ + 1]
      /\ UNCHANGED <<email_verification, generated>> /\ request'[r] = Idle
  BY DEF ResetCommits, WithoutReset, Becomes, IInv, TypeOK
<1>5. /\ reset_password \in [Code -> ResetRow \cup {Absent}] /\ opened \in [Code -> Nat]
      /\ Once(email_verification, reset_password, request, generated, opened)
      /\ Null \notin Code
  BY DEF IInv, TypeOK, OneProcess, AccountsAssumption
<1>6. \A k \in Code : ~Mails(request'[r], k)
  BY <1>4 DEF Mails, Mailing, Idle
<1> HIDE DEF g
<1> DEFINE k0 == g.row.code
<1>7. ResetsBy(reset_password, g.id, k0)
  BY <1>2, <1>3 DEF ResetsBy
<1>8. /\ \A i \in Code : reset_password'[i] = IF i = g.id THEN Absent ELSE reset_password[i]
      /\ \A k \in Code : opened'[k] = IF k = k0 THEN opened[k0] + 1 ELSE opened[k]
  BY <1>2, <1>4, <1>5
<1>9. k0 \in Code
  BY <1>2
<1> HIDE DEF k0
<1>10. \A i, k \in Code : ResetsBy(reset_password', i, k) =>
         ResetsBy(reset_password, i, k) /\ i # g.id
  BY <1>8 DEF ResetsBy
<1>11. /\ opened[k0] = 0 /\ k0 \in generated
       /\ \A i \in Code : ResetsBy(reset_password, i, k0) => i = g.id
       /\ \A i \in Code : ~Verifies(email_verification, i, k0)
       /\ \A s \in Request : ~Mails(request[s], k0)
  BY <1>2, <1>5, <1>7, <1>9 DEF Once, OnceAt
<1>12. \A i, k \in Code :
         Verifies(email_verification', i, k) => Verifies(email_verification, i, k)
  BY <1>4
<1>13. \A k \in Code : \/ opened'[k] = opened[k]
                       \/ /\ opened'[k] = 1 /\ k \in generated
                          /\ \A i \in Code : /\ ~Verifies(email_verification', i, k)
                                             /\ ~ResetsBy(reset_password', i, k)
                          /\ \A s \in Request : ~Mails(request[s], k)
  BY <1>8, <1>10, <1>11, <1>12
<1>14. \A s \in Request, k \in Code : Mails(request'[s], k) => Mails(request[s], k)
  BY <1>6, LemmaOnly
<1>15. generated \subseteq generated'
  BY <1>4
<1>16. Moves(r, Null, Null)
  BY <1>5, <1>10, <1>12, <1>13, <1>14, <1>15 DEF Moves
<1> QED  BY <1>16, LemmaMoves DEF OneProcess

LEMMA LemmaOneNext ==
  ASSUME AccountsAssumption, IInv, Single, OneProcess, [Next]_vars
  PROVE  OneProcess'
<1>1. CASE UNCHANGED <<user, email_verification, reset_password, generated, opened, request>>
  BY <1>1 DEF OneProcess
<1>2. CASE UNCHANGED vars \/ Tick
  BY <1>1, <1>2 DEF vars, Tick, tables, history
<1>3. ASSUME NEW r \in Request, Step(r)
      PROVE  OneProcess'
  <2>1. Once(email_verification', reset_password', request', generated', opened')
    BY <1>3, LemmaQuietSteps, LemmaLoadsDraw, LemmaSignUpOnce, LemmaForgotOnce,
       LemmaVerifyOnce, LemmaResetOnce
  <2>2. Calm(request')
    BY <1>3, LemmaCalm DEF OneProcess
  <2>3. \A s \in Request : Loaded(request'[s], email_verification', reset_password', user')
    BY <1>3, LemmaLoaded
  <2>4. People(user')
    BY <1>3, LemmaPeople
  <2> QED  BY <2>1, <2>2, <2>3, <2>4 DEF OneProcess
<1> QED  BY <1>2, <1>3 DEF Next

LEMMA LemmaProcess ==
  ASSUME IInv, [Next]_vars
  PROVE  process' = process
<1>1. CASE UNCHANGED vars \/ Tick
  BY <1>1 DEF vars, Tick
<1>2. ASSUME NEW r \in Request, Step(r)
      PROVE  process' = process
  <2>1. CASE \E e \in Email : SignUpLoads(r, e)
    BY <2>1 DEF SignUpLoads
  <2>2. CASE \E u \in User : ForgotLoads(r, u) \/ FormToken(r, u) \/ EmailSignin(r, u)
    BY <2>2 DEF ForgotLoads, FormToken, EmailSignin, LoginLoads
  <2>3. CASE MailSent(r) \/ MailFails(r) \/ SignUpCommits(r) \/ ForgotCommits(r)
    BY <2>3 DEF MailSent, MailFails, SignUpCommits, ForgotCommits
  <2>4. CASE \E i \in Code : VerifyLoads(r, i) \/ ResetLoads(r, i)
    BY <2>4 DEF VerifyLoads, ResetLoads
  <2>5. CASE VerifyCommits(r) \/ ResetCommits(r) \/ DropCommits(r) \/ Grants(r) \/ Crash(r)
    BY <2>5 DEF VerifyCommits, ResetCommits, DropCommits, Grants, Crash
  <2>6. CASE \E t \in token : Logout(r, t) \/ Refuse(r, t)
    BY <2>6 DEF Logout, Refuse
  <2>7. CASE GithubVerified(r) \/ GoogleVerified(r) \/ ProviderCommits(r)
    BY <2>7 DEF GithubVerified, GoogleVerified, ProviderLoads, ProviderCommits
  <2> QED  BY <1>2, <2>1, <2>2, <2>3, <2>4, <2>5, <2>6, <2>7 DEF Step
<1> QED  BY <1>1, <1>2 DEF Next

LEMMA LemmaOneProcess ==
  ASSUME AccountsAssumption
  PROVE  Spec => [](IInv /\ (Single => OneProcess))
<1>1. Init => IInv /\ (Single => OneProcess)
  BY LemmaInit, LemmaOneInit
<1>2. IInv /\ (Single => OneProcess) /\ [Next]_vars => (IInv /\ (Single => OneProcess))'
  <2>1. ASSUME IInv, [Next]_vars, Single => OneProcess, Single'
        PROVE  OneProcess'
    <3>1. Single
      BY <2>1, LemmaProcess DEF Single
    <3> QED  BY <2>1, <3>1, LemmaOneNext
  <2> QED  BY <2>1, LemmaNext
<1> QED  BY <1>1, <1>2, PTL DEF Spec

\* Where one process serves all requests a link works once: its row goes in the
\* commit that uses it (email_verified, reset_password).
THEOREM LinksOnce ==
  ASSUME AccountsAssumption
  PROVE  Spec => []LinksWorkOnce
<1>1. IInv /\ (Single => OneProcess) => LinksWorkOnce
  BY DEF OneProcess, Once, OnceAt, LinksWorkOnce
<1> QED  BY <1>1, LemmaOneProcess, PTL

\* There, one person has one user: no address signs up twice, and accounts at
\* the providers with one address meet in one user (_find_or_create_user).
THEOREM OnePerson ==
  ASSUME AccountsAssumption
  PROVE  Spec => []OnePersonOneUser
<1>1. ASSUME People(user)
      PROVE  OneUserPerAddress
  BY <1>1 DEF People, OneUserPerAddress, Users
<1>2. ASSUME People(user)
      PROVE  OneUserPerProviderAddress
  BY <1>2 DEF People, OneUserPerProviderAddress, Users
<1>3. ~Single => OnePersonOneUser
  BY DEF OnePersonOneUser, OneUserPerAddress, OneUserPerProviderAddress
<1>4. IInv /\ (Single => OneProcess) => OnePersonOneUser
  BY <1>1, <1>2, <1>3 DEF OneProcess, OnePersonOneUser
<1> QED  BY <1>4, LemmaOneProcess, PTL
=============================================================================
