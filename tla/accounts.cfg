\* Sign-ups, resets and logins of one address, in one process and in two.
SPECIFICATION Spec
SYMMETRY MCSymmetry
CONSTANTS
  e1 = e1
  google1 = google1
  github1 = github1
  github2 = github2
  User = {u1, u2}
  Email = {e1}
  Nickname = nick
  Password = {p1, p2}
  Code = {k1, k2}
  Account = {google1, github1, github2}
  Google = {google1}
  AddressOf <- MCAddressOf
  Request = {r1, r2}
  Process = {w1, w2}
  CodeLife = 0
  TokenLife = 1
  MaxTime = 1
  Null = Null
  Absent = Absent
INVARIANTS
  CodesAreMailed
  LinksWorkOnce
  OnePersonOneUser
PROPERTIES
  AccountMatchesItsLink
  PasswordChangesByMail
\* The clock and the codes are used up; the program goes on.
CHECK_DEADLOCK FALSE
