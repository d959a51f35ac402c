----------------------------- MODULE Attendance ------------------------------
(***************************************************************************)
(* The row of one user, which three parts of the program write: the desks  *)
(* that check him in (routes/ticket.py, repository/checkin.py), the form   *)
(* of his profile (routes/user_profile.py, update_user_profile), and the   *)
(* settlement of his payment, which sets participant_type.                 *)
(*                                                                         *)
(* The handlers of the desks await nothing.  That of the form loads the    *)
(* user, awaits the upload of a picture, and writes every column of the    *)
(* form and the participant_type it had loaded; SQLAlchemy sends the       *)
(* columns that differ from what was loaded.  One day of the two; the      *)
(* columns of the other are written by the other branch.                   *)
(***************************************************************************)
CONSTANTS
  Staff,        \* users at the desks
  Country, State,
  CountryOf,    \* [State -> Country]: table state
  Kind,         \* participant types
  Request, Process,
  Null

VARIABLES
  process,      \* [Request -> Process]
  paid,         \* the payment on the ticket that is scanned is PAID
  user,         \* the row
  settled,      \* history: what the settlement has made of participant_type
  last,         \* history: the last check-in or reset that was committed
  overlapped,   \* history: two saves of the profile were in progress at once
  request

vars == <<process, paid, user, settled, last, overlapped, request>>

Row == [participant_type : Kind, country : Country, state : State \cup {Null},
        attended : BOOLEAN, updated_by : Staff \cup {Null}]
Idle == [pc |-> "idle"]
\* `was` is the row as it was loaded, `row` what the handler makes of it.
Writing == [pc : {"desk", "form"}, was : Row, row : Row]
Record == [attended : BOOLEAN, updated_by : Staff \cup {Null}]

TypeOK ==
  /\ process \in [Request -> Process]
  /\ paid \in BOOLEAN
  /\ user \in Row
  /\ settled \in Kind
  /\ last \in Record
  /\ overlapped \in BOOLEAN
  /\ request \in [Request -> {Idle} \cup Writing]

Init ==
  /\ process \in [Request -> Process]
  /\ paid = FALSE
  /\ settled \in Kind
  /\ \E c \in Country :
       user = [participant_type |-> settled, country |-> c, state |-> Null,
               attended |-> FALSE, updated_by |-> Null]
  /\ last = [attended |-> FALSE, updated_by |-> Null]
  /\ overlapped = FALSE
  /\ request = [r \in Request |-> Idle]

-----------------------------------------------------------------------------
\* The event loop of r's process runs no handler: only a form awaits.
LoopFree(r) ==
  \A q \in Request \ {r} : process[q] = process[r] => request[q].pc # "desk"

Loads(r, pc, row) ==
  /\ request[r] = Idle /\ LoopFree(r)
  /\ request' = [request EXCEPT ![r] = [pc |-> pc, was |-> user, row |-> row]]
  /\ UNCHANGED <<process, paid, user, settled, last>>

Attended(status, staff) == [user EXCEPT !.attended = status, !.updated_by = staff]

\* checkin_user
CheckInLoads(r) ==
  /\ paid
  /\ \E s \in Staff : Loads(r, "desk", Attended(TRUE, s))
  /\ UNCHANGED overlapped

\* checkin_user_reset does not ask for the payment.
ResetLoads(r) ==
  /\ \E s \in Staff : Loads(r, "desk", Attended(FALSE, s))
  /\ UNCHANGED overlapped

\* validate_location_hierarchy
ValidLocation(country, state) == state # Null => CountryOf[state] = country

\* update_user_profile up to the upload
FormLoads(r) ==
  /\ \E c \in Country, s \in State \cup {Null} :
       /\ ValidLocation(c, s)
       /\ Loads(r, "form", [user EXCEPT !.country = c, !.state = s])
  /\ overlapped' = (overlapped \/ \E q \in Request : request[q].pc = "form")

\* Mutant: every column is written.
WholeRow(h) == h.row
\* updated_by is a string compared with a UUID and therefore always differs.
Flushed(h) ==
  [c \in DOMAIN user |->
     IF h.row[c] # h.was[c] \/ (c = "updated_by" /\ h.pc = "desk")
     THEN h.row[c] ELSE user[c]]

\* set_user_checkin_status, update_user_profile
Commits(r) ==
  LET h == request[r]
  IN /\ h # Idle /\ LoopFree(r)
     /\ user' = Flushed(h)
     /\ last' = IF h.pc = "desk"
                THEN [attended |-> h.row.attended, updated_by |-> h.row.updated_by]
                ELSE last
     /\ request' = [request EXCEPT ![r] = Idle]
     /\ UNCHANGED <<process, paid, settled, overlapped>>

\* payment_webhook: one UPDATE of payment and user in one transaction
Settles ==
  /\ paid' = TRUE
  /\ settled' \in Kind
  /\ user' = [user EXCEPT !.participant_type = settled']
  /\ UNCHANGED <<process, last, overlapped, request>>

\* A process dies, or the database fails.
Rollback(r) ==
  /\ request[r] # Idle
  /\ request' = [request EXCEPT ![r] = Idle]
  /\ UNCHANGED <<process, paid, user, settled, last, overlapped>>

Next ==
  \/ Settles
  \/ \E r \in Request :
       \/ CheckInLoads(r) \/ ResetLoads(r) \/ FormLoads(r)
       \/ Commits(r)
       \/ Rollback(r)

Spec == Init /\ [][Next]_vars

-----------------------------------------------------------------------------
(* Properties *)

\* A profile that is saved while the payment settles does not take the
\* participant type back, though the form writes the one it had loaded.
TypeIsKept == user.participant_type = settled

\* Where one process serves all requests, the attendance and the name next to
\* it are those of the last check-in or reset, also when a profile is saved
\* around it (set_user_checkin_status).
DeskOnRecord ==
  (\A q, r \in Request : process[q] = process[r]) =>
    last = [attended |-> user.attended, updated_by |-> user.updated_by]

\* "state_id does not belong to country_id": not in the table either, as long
\* as the user does not save two profiles at once.
LocationMatches ==
  ~overlapped /\ user.state # Null => CountryOf[user.state] = user.country

\* No handler writes its columns of the row over another's.
UserRowIsWhole == TypeIsKept /\ DeskOnRecord /\ LocationMatches
=============================================================================
