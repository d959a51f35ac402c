-------------------------------- MODULE Staff --------------------------------
(***************************************************************************)
(* Organizers (routes/organizer.py, repository/organizer.py) and           *)
(* volunteers (routes/volunteer.py, repository/volunteer.py): entries that *)
(* make a user a member of the staff.                                      *)
(*                                                                         *)
(* Both look for an entry of the user and insert or update afterwards.     *)
(* Handlers of organizers are threads, so any two of them may overlap;     *)
(* those of volunteers await nothing and overlap on different processes    *)
(* only.  The database forbids two organizers of one user and one type     *)
(* (uq_user_organizer_type) and nothing of volunteers, which have no type. *)
(***************************************************************************)
CONSTANTS
  Entry,     \* ids of entries, never used again
  User,
  Type,      \* organizer types
  Request, Process,
  Absent,    \* no row yet
  Gone,      \* the row was deleted
  Null

StaffAssumption ==
  /\ Absent # Gone
  /\ {Absent, Gone} \cap [user : User, type : Type \cup {Null}] = {}

VARIABLES
  kind,       \* "organizer" or "volunteer": the table that is looked at
  process,    \* [Request -> Process]
  table,      \* that table
  overlapped, \* history: two requests for it were in progress at once
  request     \* [Request -> locals of a handler between SELECT and commit]

vars == <<kind, process, table, overlapped, request>>

TypeOf == IF kind = "organizer" THEN Type ELSE {Null}
Row == [user : User, type : TypeOf]
Idle == [pc |-> "idle"]
Working == [pc : {"inserting", "updating"}, id : Entry, was : Row \cup {Null}, row : Row]
Deleting == [pc : {"deleting"}, id : Entry]

TypeOK ==
  /\ kind \in {"organizer", "volunteer"}
  /\ process \in [Request -> Process]
  /\ table \in [Entry -> Row \cup {Absent, Gone}]
  /\ overlapped \in BOOLEAN
  /\ request \in [Request -> {Idle} \cup Working \cup Deleting]

Init ==
  /\ kind \in {"organizer", "volunteer"}
  /\ process \in [Request -> Process]
  /\ table = [e \in Entry |-> Absent]
  /\ overlapped = FALSE
  /\ request = [r \in Request |-> Idle]

-----------------------------------------------------------------------------
There(e) == table[e] \notin {Absent, Gone}
EntriesOf(u) == {e \in {d \in Entry : There(d)} : table[e].user = u}

Others(r) == {q \in Request \ {r} : request[q] # Idle}
\* A thread may always start, a coroutine if its event loop is free.
MayStart(r) ==
  /\ request[r] = Idle
  /\ kind = "volunteer" => \A q \in Others(r) : process[q] # process[r]

Loads(r, h) ==
  /\ MayStart(r)
  /\ request' = [request EXCEPT ![r] = h]
  /\ overlapped' = (overlapped \/ Others(r) # {})
  /\ UNCHANGED <<kind, process, table>>

Commits(r, new) ==
  /\ table' = new
  /\ request' = [request EXCEPT ![r] = Idle]
  /\ UNCHANGED <<kind, process, overlapped>>

\* uq_user_organizer_type
Unique(e, row) ==
  kind = "organizer" => \A d \in Entry \ {e} : table[d] # row

Inserts(r, e, row) ==
  /\ table[e] = Absent /\ \A q \in Others(r) : request[q].id # e
  /\ EntriesOf(row.user) = {}
  /\ Loads(r, [pc |-> "inserting", id |-> e, was |-> Null, row |-> row])

\* create_organizer
CreateOrganizer(r, e) ==
  /\ kind = "organizer"
  /\ \E u \in User, t \in Type : Inserts(r, e, [user |-> u, type |-> t])

\* create_volunteer
CreateVolunteer(r, e) ==
  /\ kind = "volunteer"
  /\ \E u \in User : Inserts(r, e, [user |-> u, type |-> Null])

\* insert_organizer, create_volunteer
CreateCommits(r) ==
  LET h == request[r]
  IN /\ h.pc = "inserting"
     /\ Commits(r, IF Unique(h.id, h.row) THEN [table EXCEPT ![h.id] = h.row] ELSE table)

\* Mutant: an update does not look for another entry.
NotLookedFor(e, u) == TRUE
\* An entry of the user that is found is this one; get_volunteer_by_user_id
\* with exclude_user_id finds the same.
NotTaken(e, u) == EntriesOf(u) = {} \/ e \in EntriesOf(u)

Assigns(r, e, row) ==
  /\ There(e) /\ NotTaken(e, row.user)
  /\ Loads(r, [pc |-> "updating", id |-> e, was |-> table[e], row |-> row])

\* update_organizer_by_id
UpdateOrganizer(r, e) ==
  /\ kind = "organizer"
  /\ \E u \in User, t \in Type : Assigns(r, e, [user |-> u, type |-> t])

\* update_volunteer
UpdateVolunteer(r, e) ==
  /\ kind = "volunteer"
  /\ \E u \in User : Assigns(r, e, [user |-> u, type |-> Null])

\* Mutant: the UPDATE of a row that is gone inserts it.
Upserted(h) == h.row
\* An UPDATE sets the columns that differ from what was loaded, and raises
\* when the row is gone.
Updated(h) ==
  IF ~There(h.id) THEN table[h.id]
  ELSE [user |-> IF h.row.user = h.was.user THEN table[h.id].user ELSE h.row.user,
        type |-> IF h.row.type = h.was.type THEN table[h.id].type ELSE h.row.type]

\* update_organizer_data, update_volunteer
UpdateCommits(r) ==
  LET h == request[r]
  IN /\ h.pc = "updating"
     /\ Commits(r, IF There(h.id) => Unique(h.id, Updated(h))
                   THEN [table EXCEPT ![h.id] = Updated(h)] ELSE table)

Removes(r, e) == There(e) /\ Loads(r, [pc |-> "deleting", id |-> e])
DeleteOrganizer(r, e) == kind = "organizer" /\ Removes(r, e)
DeleteVolunteer(r, e) == kind = "volunteer" /\ Removes(r, e)

\* delete_organizer_data, delete_volunteer
DeleteCommits(r) ==
  /\ request[r].pc = "deleting"
  /\ Commits(r, [table EXCEPT ![request[r].id] = Gone])

\* A process dies, or the database fails.
Rollback(r) ==
  /\ request[r] # Idle
  /\ Commits(r, table)

Next ==
  \E r \in Request :
    \/ \E e \in Entry :
         \/ CreateOrganizer(r, e) \/ UpdateOrganizer(r, e) \/ DeleteOrganizer(r, e)
         \/ CreateVolunteer(r, e) \/ UpdateVolunteer(r, e) \/ DeleteVolunteer(r, e)
    \/ CreateCommits(r) \/ UpdateCommits(r) \/ DeleteCommits(r)
    \/ Rollback(r)

Spec == Init /\ [][Next]_vars

-----------------------------------------------------------------------------
(* Properties *)

\* "Organizer for user id ... already exists", "Volunteer for user id ...
\* already exists": as long as no two requests overlap, which one process
\* never lets those for volunteers do, no user has two entries, however they
\* were created, moved from user to user and deleted.
OneEntryPerUser ==
  ~overlapped => \A u \in User : \A d, e \in EntriesOf(u) : d = e

\* A deleted entry does not come back, though its row was loaded before.
DeletedForGood == [][\A e \in Entry : table[e] = Gone => table'[e] = Gone]_vars
=============================================================================
