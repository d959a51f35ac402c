------------------------------ MODULE Programme ------------------------------
(***************************************************************************)
(* The programme: talks (routes/schedule.py, repository/schedule.py), their *)
(* speakers (routes/speaker.py, repository/speaker.py) and the table        *)
(* speaker_schedule between them.                                          *)
(*                                                                         *)
(* The handlers await nothing between their first SELECT and their commit, *)
(* so requests overlap on different processes only: Request has one        *)
(* element for each.  A step is a statement that may wait for another      *)
(* transaction, with what comes before it; an INSERT and its commit are    *)
(* one, which waits for nothing: where it would, for the end of a request  *)
(* that deletes the speaker, it comes out as one of the two orders does.   *)
(* Rows are deleted one by one, in any order.  Where requests wait for     *)
(* each other and none can go on, Postgres ends one (Detected).            *)
(*                                                                         *)
(* A list with a speaker twice breaks the primary key and fails always, as *)
(* do rooms and types that are not there.  deleted_at hides a talk from    *)
(* every handler and changes no other column: it is left out here.         *)
(***************************************************************************)
EXTENDS Integers, FiniteSets

CONSTANTS
  Schedule,   \* ids of talks
  Speaker,    \* ids of speakers, never used again
  Person,     \* users that may be speakers
  Order,      \* places in the list of a talk
  Request,
  MaxTime,    \* bound: talks lie between 0 and MaxTime
  Absent,     \* no row yet
  Gone,       \* the row was deleted
  Null

Slot == [start : 0..MaxTime, end : 0..MaxTime]
\* UpdateScheduleRequest.check_dates
Valid(slot) == slot.start < slot.end
\* check_speakers_duplicate_order: no place is given twice.
List == {l \in [Speaker -> Order \cup {Null}] :
           \A x, y \in Speaker : l[x] = l[y] /\ l[x] # Null => x = y}
Nobody == [x \in Speaker |-> Null]
Key == Schedule \X Speaker   \* primary key of speaker_schedule

ProgrammeAssumption ==
  /\ Null \notin Order \cup List
  /\ {Absent, Gone} \cap Person = {} /\ Absent # Gone
  /\ Absent \notin Slot
  /\ MaxTime \in Nat

VARIABLES
  schedule,  \* table schedule: start and end
  speaker,   \* table speaker: the user
  place,     \* table speaker_schedule: its order
  listed,    \* history: the list of the last request that gave one
  request

vars == <<schedule, speaker, place, listed, request>>

Idle == [pc |-> "idle"]
Creating == [pc : {"creating"}, schedule : Schedule, slot : Slot, list : List]
\* `was` is what the SELECT found; `cleared` are the rows that the request has
\* deleted, and `found` those that it is going to delete.
Updating == [pc : {"loaded", "locked", "cleared"}, schedule : Schedule,
             was : Slot, slot : Slot, list : List \cup {Null}, cleared : SUBSET Key]
Renaming == [pc : {"renaming"}, speaker : Speaker, user : Person]
Removing == [pc : {"removing"}, speaker : Speaker, found : SUBSET Key,
             cleared : SUBSET Key]

TypeOK ==
  /\ schedule \in [Schedule -> Slot \cup {Absent}]
  /\ speaker \in [Speaker -> Person \cup {Absent, Gone}]
  /\ place \in [Schedule -> List]
  /\ listed \in [Schedule -> List]
  /\ request \in [Request -> {Idle} \cup Creating \cup Updating \cup Renaming
                    \cup Removing]

Init ==
  /\ schedule = [s \in Schedule |-> Absent]
  /\ speaker = [x \in Speaker |-> Absent]
  /\ place = [s \in Schedule |-> Nobody]
  /\ listed = [s \in Schedule |-> Nobody]
  /\ request = [r \in Request |-> Idle]

-----------------------------------------------------------------------------
Becomes(r, h) == request' = [request EXCEPT ![r] = h]

Exists(x) == speaker[x] \in Person
\* Every speaker of a list is looked up, and by the foreign key again.
AllExist(list) == \A x \in Speaker : list[x] # Null => Exists(x)

\* The rows that r's transaction has deleted and not committed.
Cleared(r) ==
  IF request[r].pc \in {"locked", "cleared", "removing"} THEN request[r].cleared ELSE {}
RowFree(r, k) == \A q \in Request \ {r} : k \notin Cleared(q)

\* Mutant: the UPDATE takes no lock.
NoLock(r, s) == TRUE
\* r may have the lock on the row of s, which the UPDATE of updated_at takes.
LockFree(r, s) ==
  \A q \in Request \ {r} :
    request[q].pc \in {"locked", "cleared"} => request[q].schedule # s

-----------------------------------------------------------------------------
(* create_schedule *)

CreateLoads(r, s) ==
  /\ request[r] = Idle
  /\ schedule[s] = Absent
  /\ \A q \in Request : request[q].pc = "creating" => request[q].schedule # s
  /\ \E slot \in Slot, list \in List :
       /\ Valid(slot) /\ AllExist(list)
       /\ Becomes(r, [pc |-> "creating", schedule |-> s, slot |-> slot, list |-> list])
  /\ UNCHANGED <<schedule, speaker, place, listed>>

CreateCommits(r) ==
  LET h == request[r]
  IN /\ h.pc = "creating"
     /\ IF AllExist(h.list)
        THEN /\ schedule' = [schedule EXCEPT ![h.schedule] = h.slot]
             /\ place' = [place EXCEPT ![h.schedule] = h.list]
             /\ listed' = [listed EXCEPT ![h.schedule] = h.list]
        ELSE UNCHANGED <<schedule, place, listed>>
     /\ Becomes(r, Idle)
     /\ UNCHANGED speaker

-----------------------------------------------------------------------------
(* update_schedule *)

\* A request without `speakers` leaves the list as it is.
UpdateLoads(r, s) ==
  /\ request[r] = Idle
  /\ schedule[s] # Absent
  /\ \E slot \in Slot, list \in List \cup {Null} :
       /\ Valid(slot)
       /\ list # Null => AllExist(list)
       /\ Becomes(r, [pc |-> "loaded", schedule |-> s, was |-> schedule[s],
                      slot |-> slot, list |-> list, cleared |-> {}])
  /\ UNCHANGED <<schedule, speaker, place, listed>>

\* db.flush(): updated_at always changes, so that there is an UPDATE.
UpdateLocks(r) ==
  /\ request[r].pc = "loaded"
  /\ LockFree(r, request[r].schedule)
  /\ Becomes(r, [request[r] EXCEPT !.pc = "locked"])
  /\ UNCHANGED <<schedule, speaker, place, listed>>

KeysOf(s) == {<<s, x>> : x \in {y \in Speaker : place[s][y] # Null}}

\* _sync_speakers: DELETE ... WHERE schedule_id = ...
UpdateClears(r) ==
  LET h == request[r]
      left == KeysOf(h.schedule) \ h.cleared
  IN /\ h.pc = "locked" /\ h.list # Null
     /\ \/ \E k \in left :
             RowFree(r, k) /\ Becomes(r, [h EXCEPT !.cleared = @ \cup {k}])
        \/ left = {} /\ Becomes(r, [h EXCEPT !.pc = "cleared"])
     /\ UNCHANGED <<schedule, speaker, place, listed>>

\* The UPDATE sets the columns that differ from what was loaded.
Changed(h, row) ==
  [start |-> IF h.slot.start = h.was.start THEN row.start ELSE h.slot.start,
   end |-> IF h.slot.end = h.was.end THEN row.end ELSE h.slot.end]

\* What is in the table of the talk after the INSERTs.
Inserted(h) ==
  [x \in Speaker |->
     IF h.list[x] # Null THEN h.list[x]
     ELSE IF <<h.schedule, x>> \in h.cleared THEN Null
     ELSE place[h.schedule][x]]

\* The foreign key, the primary key and uq_schedule_speaker_order.
MayInsert(h) ==
  /\ AllExist(h.list)
  /\ \A x \in Speaker :
       h.list[x] # Null /\ place[h.schedule][x] # Null => <<h.schedule, x>> \in h.cleared
  /\ Inserted(h) \in List

UpdateCommits(r) ==
  LET h == request[r]
      s == h.schedule
      row == [schedule EXCEPT ![s] = Changed(h, @)]
  IN /\ \/ /\ h.pc = "locked" /\ h.list = Null
           /\ schedule' = row
           /\ UNCHANGED <<place, listed>>
        \/ /\ h.pc = "cleared" /\ MayInsert(h)
           /\ schedule' = row
           /\ place' = [place EXCEPT ![s] = Inserted(h)]
           /\ listed' = [listed EXCEPT ![s] = h.list]
        \/ /\ h.pc = "cleared" /\ ~MayInsert(h)
           /\ UNCHANGED <<schedule, place, listed>>
     /\ Becomes(r, Idle)
     /\ UNCHANGED speaker

-----------------------------------------------------------------------------
(* create_speaker, update_speaker, delete_speaker_by_id *)

CreateSpeaker(r, x) ==
  /\ request[r] = Idle
  /\ speaker[x] = Absent
  /\ \E u \in Person : speaker' = [speaker EXCEPT ![x] = u]
  /\ UNCHANGED <<schedule, place, listed, request>>

RenameLoads(r, x) ==
  /\ request[r] = Idle
  /\ Exists(x)
  /\ \E u \in Person : Becomes(r, [pc |-> "renaming", speaker |-> x, user |-> u])
  /\ UNCHANGED <<schedule, speaker, place, listed>>

\* The UPDATE of a row that is gone raises.
Renamed(x, u) == IF Exists(x) THEN [speaker EXCEPT ![x] = u] ELSE speaker

RenameCommits(r) ==
  /\ request[r].pc = "renaming"
  /\ speaker' = Renamed(request[r].speaker, request[r].user)
  /\ Becomes(r, Idle)
  /\ UNCHANGED <<schedule, place, listed>>

RowsOf(x) == {k \in Key : k[2] = x /\ place[k[1]][x] # Null}

RemoveLoads(r, x) ==
  /\ request[r] = Idle
  /\ Exists(x)
  /\ Becomes(r, [pc |-> "removing", speaker |-> x, cleared |-> {},
                 found |-> RowsOf(x)])
  /\ UNCHANGED <<schedule, speaker, place, listed>>

\* The cascade deletes the rows that were loaded, by their primary key; some
\* may be gone.
RemoveClears(r) ==
  LET h == request[r]
  IN /\ h.pc = "removing"
     /\ \E k \in h.found :
          /\ RowFree(r, k)
          /\ Becomes(r, [h EXCEPT !.found = @ \ {k},
                                 !.cleared = @ \cup ({k} \cap RowsOf(h.speaker))])
     /\ UNCHANGED <<schedule, speaker, place, listed>>

\* Mutant: the DELETE is tried until no row refers to the speaker.
TriedAgain(r, left) == left = {}
\* The foreign key is checked: a row that another deletes is waited for.
Checked(r, left) == left = {} \/ \E k \in left : RowFree(r, k)

\* The foreign key refuses the DELETE of a speaker that is listed again.
RemoveCommits(r) ==
  LET h == request[r]
      x == h.speaker
      left == RowsOf(x) \ h.cleared
  IN /\ h.pc = "removing" /\ h.found = {}
     /\ Checked(r, left)
     /\ IF Exists(x) /\ left = {}
        THEN /\ speaker' = [speaker EXCEPT ![x] = Gone]
             /\ place' = [s \in Schedule |->
                            IF <<s, x>> \in h.cleared
                            THEN [place[s] EXCEPT ![x] = Null] ELSE place[s]]
        ELSE UNCHANGED <<speaker, place>>
     /\ Becomes(r, Idle)
     /\ UNCHANGED <<schedule, listed>>

-----------------------------------------------------------------------------
\* A process dies, or the database fails.
Rollback(r) ==
  /\ request[r] # Idle
  /\ Becomes(r, Idle)
  /\ UNCHANGED <<schedule, speaker, place, listed>>

\* The rows that r deletes, or looks at, next.
Wants(r) ==
  LET h == request[r]
  IN CASE h.pc = "locked" /\ h.list # Null      -> KeysOf(h.schedule) \ h.cleared
       [] h.pc = "removing" /\ h.found # {}      -> h.found
       [] h.pc = "removing" /\ h.found = {}      -> RowsOf(h.speaker) \ h.cleared
       [] OTHER                                  -> {}

\* r has to wait: for the row of its talk, or for all the rows that it wants.
Waiting(r) ==
  \/ request[r].pc = "loaded" /\ ~LockFree(r, request[r].schedule)
  \/ Wants(r) # {} /\ \A k \in Wants(r) : ~RowFree(r, k)

\* q has what r wants.
WaitsFor(r, q) ==
  /\ q # r
  /\ \/ /\ request[r].pc = "loaded" /\ request[q].pc \in {"locked", "cleared"}
        /\ request[q].schedule = request[r].schedule
     \/ Cleared(q) \cap Wants(r) # {}

\* r, those that it waits for, those that they wait for, and so on.
Closed(C) == \A p \in C, q \in Request : WaitsFor(p, q) => q \in C
Ahead(r) == {q \in Request : \A C \in SUBSET Request : r \in C /\ Closed(C) => q \in C}

\* Nobody there can go on before another of them.
Stuck(r) == Waiting(r) /\ \A q \in Ahead(r) : Waiting(q)

\* Postgres looks for that, and ends one of them.
Detected(r) == Stuck(r) /\ \E q \in Ahead(r) : Rollback(q)

Arrives(r) ==
  \/ \E s \in Schedule : CreateLoads(r, s) \/ UpdateLoads(r, s)
  \/ \E x \in Speaker : CreateSpeaker(r, x) \/ RenameLoads(r, x) \/ RemoveLoads(r, x)

\* What may have to wait, and what may not.
Waits(r) == UpdateLocks(r) \/ UpdateClears(r) \/ RemoveClears(r) \/ RemoveCommits(r)
Ends(r) == CreateCommits(r) \/ UpdateCommits(r) \/ RenameCommits(r)

Next == \E r \in Request : Arrives(r) \/ Waits(r) \/ Ends(r) \/ Rollback(r)

Spec == Init /\ [][Next]_vars

\* Postgres hands a lock to those that wait in the order they came.
FairSpec ==
  Spec /\ \A r \in Request : SF_vars(Waits(r)) /\ WF_vars(Ends(r)) /\ WF_vars(Detected(r))

-----------------------------------------------------------------------------
(* Properties *)

\* The list of a talk is the list of one request, the last that was committed,
\* without the speakers that were deleted: two requests that replace it at
\* once never leave some rows of each (_sync_speakers), and no deleted speaker
\* takes a row with him that he should not (the cascade by primary key).
ListIsOneRequests ==
  \A s \in Schedule :
    place[s] = [x \in Speaker |-> IF speaker[x] = Gone THEN Null ELSE listed[s][x]]

\* Where requests wait for each other and none can go on, one of them deletes a
\* speaker: updates of talks alone take the row of their talk first and its
\* list after that (_sync_speakers), and so never bring each other to a stop.
RemovalsAreInTheWay ==
  \A r \in Request :
    Stuck(r) => \E q \in Ahead(r) : request[q].pc = "removing"

\* No requests wait for each other's rows for ever.
EveryRequestEnds == \A r \in Request : request[r] # Idle ~> request[r] = Idle

\* "End time must be after start time" (routes/schedule.py:363-366).
EndAfterStart == \A s \in Schedule : schedule[s] # Absent => Valid(schedule[s])
=============================================================================
