----------------------------- MODULE DesksProofs -----------------------------
(***************************************************************************)
(* What the parts of the administration promise, for any parameters and    *)
(* any interleaving: each part in a section of its own, with the invariant *)
(* that it needs, and the types of all of them at the end.  The part of    *)
(* the places is proved in LocationsProofs.                                *)
(***************************************************************************)
EXTENDS Desks, LocationsProofs, FiniteSetTheorems, SumLemmas, TLAPS

-----------------------------------------------------------------------------
(***************************************************************************)
(* Talks: the list of a talk is the list of one request.                   *)
(*                                                                         *)
(* One request at a time holds the row of a talk (OneHolder), from before  *)
(* it deletes the list until it has inserted its own; a talk that is being *)
(* created is nobody else's (Apart); so no row appears in between, and     *)
(* those that the request has deleted are still all that there are         *)
(* (Covers).  A speaker is deleted only when all his rows are among those  *)
(* that the cascade has deleted.                                           *)
(***************************************************************************)

Editing(r) == request[r].pc \in {"loaded", "locked", "cleared"}
Holding(r) == request[r].pc \in {"locked", "cleared"}

\* A talk that is being created is not there, and one request creates it; a
\* talk that is being updated is there.
Apart ==
  \A r \in Request :
    /\ request[r].pc = "creating" =>
         /\ schedule[request[r].schedule] = Absent
         /\ \A q \in Request \ {r} :
              request[q].pc = "creating" => request[q].schedule # request[r].schedule
    /\ Editing(r) => schedule[request[r].schedule] # Absent

\* The lock on the row of a talk is held by one request.
OneHolder ==
  \A q, r \in Request :
    Holding(q) /\ Holding(r) /\ q # r => request[q].schedule # request[r].schedule

\* The rows that a request has deleted are still all rows of the talk.
Covers ==
  \A r \in Request : request[r].pc = "cleared" =>
    /\ request[r].list # Null
    /\ \A x \in Speaker :
         place[request[r].schedule][x] # Null => <<request[r].schedule, x>> \in request[r].cleared

\* An update deletes rows of its own talk only.
OwnRows ==
  \A r \in Request : Editing(r) => \A k \in request[r].cleared : k[1] = request[r].schedule

TalksInv ==
  Talks!TypeOK /\ Apart /\ OneHolder /\ Covers /\ OwnRows /\ Talks!ListIsOneRequests

-----------------------------------------------------------------------------
\* What the locals of a handler are, by where it is.
LEMMA TalksLocals ==
  ASSUME Talks!TypeOK, NEW r \in Request
  PROVE  /\ request[r].pc \in {"idle", "creating", "loaded", "locked", "cleared", "renaming",
                               "removing"}
         /\ request[r].pc = "idle" => request[r] = Talks!Idle
         /\ request[r].pc = "creating" => request[r] \in Talks!Creating
         /\ Editing(r) => request[r] \in Talks!Updating
         /\ request[r].pc = "renaming" => request[r] \in Talks!Renaming
         /\ request[r].pc = "removing" => request[r] \in Talks!Removing
<1>1. request[r] \in {Talks!Idle} \cup Talks!Creating \cup Talks!Updating
        \cup Talks!Renaming \cup Talks!Removing
  BY DEF Talks!TypeOK
<1> QED  BY <1>1 DEF Talks!Idle, Talks!Creating, Talks!Updating, Talks!Renaming,
                     Talks!Removing, Editing

\* A list without one of its speakers is a list.
LEMMA TalksWithout ==
  ASSUME NEW l \in Talks!List, NEW x \in Speaker
  PROVE  [l EXCEPT ![x] = Null] \in Talks!List
BY DEF Talks!List

\* The row that an UPDATE leaves is a row.
LEMMA TalksChanged ==
  ASSUME NEW h \in Talks!Updating, NEW row \in Talks!Slot
  PROVE  Talks!Changed(h, row) \in Talks!Slot
BY DEF Talks!Updating, Talks!Slot, Talks!Changed

LEMMA TalksInit ==
  ASSUME Talks!Init
  PROVE  TalksInv
<1>1. Talks!Nobody \in Talks!List
  BY DEF Talks!Nobody, Talks!List
<1>2. Talks!TypeOK
  BY <1>1 DEF Talks!Init, Talks!TypeOK
<1>3. Apart /\ OneHolder /\ Covers /\ OwnRows
  BY DEF Talks!Init, Apart, OneHolder, Covers, OwnRows, Editing, Holding, Talks!Idle
<1>4. Talks!ListIsOneRequests
  BY DEF Talks!Init, Talks!ListIsOneRequests, Talks!Nobody
<1> QED  BY <1>2, <1>3, <1>4 DEF TalksInv

\* The list of a talk, speaker by speaker.
LEMMA TalksPointwise ==
  ASSUME Talks!TypeOK
  PROVE  Talks!ListIsOneRequests <=>
           \A s \in Schedule : \A x \in Speaker :
             place[s][x] = IF speaker[x] = Gone THEN Null ELSE listed[s][x]
<1>1. \A s \in Schedule : place[s] = [x \in Speaker |-> place[s][x]]
  BY DEF Talks!TypeOK, Talks!List
<1> QED  BY <1>1 DEF Talks!ListIsOneRequests

-----------------------------------------------------------------------------
(* Steps that write the locals of one handler only. *)

\* A handler that goes on, and does not hold a row it had not, is where it may be.
LEMMA TalksMoves ==
  ASSUME TalksInv, NEW r \in Request,
         NEW h \in {Talks!Idle} \cup Talks!Creating \cup Talks!Updating
           \cup Talks!Renaming \cup Talks!Removing,
         Talks!Becomes(r, h), UNCHANGED <<schedule, speaker, place, listed>>,
         h.pc = "creating" =>
           /\ schedule[h.schedule] = Absent
           /\ \A q \in Request \ {r} :
                request[q].pc = "creating" => request[q].schedule # h.schedule,
         h.pc \in {"loaded", "locked", "cleared"} =>
           schedule[h.schedule] # Absent /\ \A k \in h.cleared : k[1] = h.schedule,
         h.pc \in {"locked", "cleared"} => Talks!LockFree(r, h.schedule),
         h.pc = "cleared" =>
           /\ h.list # Null
           /\ \A x \in Speaker :
                place[h.schedule][x] # Null => <<h.schedule, x>> \in h.cleared
  PROVE  TalksInv'
<1> USE DEF TalksInv
<1>1. request'[r] = h /\ \A q \in Request \ {r} : request'[q] = request[q]
  BY DEF Talks!Becomes, Talks!TypeOK
<1>2. Talks!TypeOK'
  BY DEF Talks!Becomes, Talks!TypeOK
<1>3. Apart'
  BY <1>1 DEF Apart, Editing
<1>4. OneHolder'
  BY <1>1 DEF OneHolder, Holding, Talks!LockFree
<1>5. Covers'
  BY <1>1 DEF Covers
<1>6. OwnRows'
  BY <1>1 DEF OwnRows, Editing
<1>7. Talks!ListIsOneRequests'
  BY DEF Talks!ListIsOneRequests
<1> QED  BY <1>2, <1>3, <1>4, <1>5, <1>6, <1>7

\* The SELECTs of the handlers.
LEMMA TalksArrives ==
  ASSUME Talks!ProgrammeAssumption, TalksInv, NEW r \in Request, Talks!Arrives(r)
  PROVE  TalksInv'
<1> USE DEF TalksInv
<1>1. ASSUME NEW s \in Schedule, Talks!CreateLoads(r, s)
      PROVE  TalksInv'
  <2>1. PICK slot \in Talks!Slot, list \in Talks!List :
          Talks!Becomes(r, [pc |-> "creating", schedule |-> s, slot |-> slot, list |-> list])
    BY <1>1 DEF Talks!CreateLoads
  <2> DEFINE h == [pc |-> "creating", schedule |-> s, slot |-> slot, list |-> list]
  <2>2. h \in Talks!Creating
    BY DEF Talks!Creating
  <2>3. /\ h.pc = "creating" /\ h.schedule = s /\ Talks!Becomes(r, h)
        /\ schedule[s] = Absent
        /\ \A q \in Request \ {r} : request[q].pc = "creating" => request[q].schedule # s
        /\ UNCHANGED <<schedule, speaker, place, listed>>
    BY <1>1, <2>1 DEF Talks!CreateLoads
  <2> HIDE DEF h
  <2> QED  BY <2>2, <2>3, TalksMoves
<1>2. ASSUME NEW s \in Schedule, Talks!UpdateLoads(r, s)
      PROVE  TalksInv'
  <2>1. PICK slot \in Talks!Slot, list \in Talks!List \cup {Null} :
          Talks!Becomes(r, [pc |-> "loaded", schedule |-> s, was |-> schedule[s],
                            slot |-> slot, list |-> list, cleared |-> {}])
    BY <1>2 DEF Talks!UpdateLoads
  <2> DEFINE h == [pc |-> "loaded", schedule |-> s, was |-> schedule[s],
                   slot |-> slot, list |-> list, cleared |-> {}]
  <2>2. schedule[s] \in Talks!Slot
    BY <1>2 DEF Talks!UpdateLoads, Talks!TypeOK
  <2>3. h \in Talks!Updating
    BY <2>2 DEF Talks!Updating
  <2>4. /\ h.pc = "loaded" /\ h.schedule = s /\ Talks!Becomes(r, h) /\ schedule[s] # Absent
        /\ h.cleared = {}
        /\ UNCHANGED <<schedule, speaker, place, listed>>
    BY <1>2, <2>1 DEF Talks!UpdateLoads
  <2> HIDE DEF h
  <2> QED  BY <2>3, <2>4, TalksMoves
<1>3. ASSUME NEW x \in Speaker, Talks!CreateSpeaker(r, x)
      PROVE  TalksInv'
  <2>1. PICK u \in Person : speaker' = [speaker EXCEPT ![x] = u]
    BY <1>3 DEF Talks!CreateSpeaker
  <2>2. /\ speaker[x] = Absent /\ u # Gone /\ Absent # Gone
        /\ UNCHANGED <<schedule, place, listed, request>>
    BY <1>3 DEF Talks!CreateSpeaker, Talks!ProgrammeAssumption
  <2>3. Talks!TypeOK'
    BY <2>1, <2>2 DEF Talks!TypeOK
  <2>4. \A y \in Speaker : speaker'[y] = Gone <=> speaker[y] = Gone
    BY <2>1, <2>2 DEF Talks!TypeOK
  <2>5. Talks!ListIsOneRequests'
    BY <2>2, <2>3, <2>4, TalksPointwise DEF Talks!ListIsOneRequests
  <2>6. Apart' /\ OneHolder' /\ Covers' /\ OwnRows'
    BY <2>2 DEF Apart, OneHolder, Covers, OwnRows, Editing, Holding
  <2> QED  BY <2>3, <2>5, <2>6
<1>4. ASSUME NEW x \in Speaker, Talks!RenameLoads(r, x)
      PROVE  TalksInv'
  <2>1. PICK u \in Person : Talks!Becomes(r, [pc |-> "renaming", speaker |-> x, user |-> u])
    BY <1>4 DEF Talks!RenameLoads
  <2> DEFINE h == [pc |-> "renaming", speaker |-> x, user |-> u]
  <2>2. h \in Talks!Renaming
    BY DEF Talks!Renaming
  <2>3. h.pc = "renaming" /\ Talks!Becomes(r, h) /\ UNCHANGED <<schedule, speaker, place, listed>>
    BY <1>4, <2>1 DEF Talks!RenameLoads
  <2> HIDE DEF h
  <2> QED  BY <2>2, <2>3, TalksMoves
<1>5. ASSUME NEW x \in Speaker, Talks!RemoveLoads(r, x)
      PROVE  TalksInv'
  <2> DEFINE h == [pc |-> "removing", speaker |-> x, cleared |-> {},
                   found |-> Talks!RowsOf(x)]
  <2>1. h \in Talks!Removing
    BY DEF Talks!Removing, Talks!RowsOf
  <2>2. h.pc = "removing" /\ Talks!Becomes(r, h) /\ UNCHANGED <<schedule, speaker, place, listed>>
    BY <1>5 DEF Talks!RemoveLoads
  <2> HIDE DEF h
  <2> QED  BY <2>1, <2>2, TalksMoves
<1> QED  BY <1>1, <1>2, <1>3, <1>4, <1>5 DEF Talks!Arrives

\* The lock, and the rows that are deleted before the commit.
LEMMA TalksTakes ==
  ASSUME TalksInv, NEW r \in Request, Talks!UpdateLocks(r) \/ Talks!UpdateClears(r)
           \/ Talks!RemoveClears(r)
  PROVE  TalksInv'
<1> USE DEF TalksInv
<1>1. CASE Talks!UpdateLocks(r)
  <2> DEFINE h == [request[r] EXCEPT !.pc = "locked"]
  <2>1. request[r].pc = "loaded" /\ request[r] \in Talks!Updating
    BY <1>1, TalksLocals DEF Talks!UpdateLocks, Editing
  <2>2. /\ h \in Talks!Updating /\ h.pc = "locked" /\ h.schedule = request[r].schedule
        /\ h.cleared = request[r].cleared
    BY <2>1 DEF Talks!Updating
  <2>3. schedule[h.schedule] # Absent /\ \A k \in h.cleared : k[1] = h.schedule
    BY <2>1, <2>2 DEF Apart, OwnRows, Editing
  <2>4. /\ Talks!Becomes(r, h) /\ Talks!LockFree(r, request[r].schedule)
        /\ UNCHANGED <<schedule, speaker, place, listed>>
    BY <1>1 DEF Talks!UpdateLocks
  <2> HIDE DEF h
  <2> QED  BY <2>2, <2>3, <2>4, TalksMoves
<1>2. CASE Talks!UpdateClears(r)
  <2> DEFINE g == request[r]
             s == g.schedule
             left == Talks!KeysOf(s) \ g.cleared
  <2>1. g.pc = "locked" /\ g.list # Null /\ g \in Talks!Updating
        /\ UNCHANGED <<schedule, speaker, place, listed>>
    BY <1>2, TalksLocals DEF Talks!UpdateClears, Editing
  <2>2. s \in Schedule /\ Talks!KeysOf(s) \subseteq Talks!Key
    BY <2>1 DEF Talks!Updating, Talks!KeysOf, Talks!Key
  <2>3. schedule[s] # Absent /\ Talks!LockFree(r, s) /\ \A k \in g.cleared : k[1] = s
    BY <2>1 DEF Apart, Editing, OneHolder, Holding, OwnRows, Talks!LockFree
  <2>4. ASSUME NEW k \in left, Talks!Becomes(r, [g EXCEPT !.cleared = @ \cup {k}])
        PROVE  TalksInv'
    <3> DEFINE h == [g EXCEPT !.cleared = @ \cup {k}]
    <3>1. /\ h \in Talks!Updating /\ h.pc = "locked" /\ h.schedule = s
          /\ h.cleared = g.cleared \cup {k}
      BY <2>1, <2>2, <2>4 DEF Talks!Updating
    <3>2. k[1] = s
      BY <2>4 DEF Talks!KeysOf
    <3>3. \A j \in h.cleared : j[1] = s
      BY <2>3, <3>1, <3>2
    <3>4. Talks!Becomes(r, h)
      BY <2>4
    <3> HIDE DEF h, left
    <3> QED  BY <2>1, <2>3, <3>1, <3>3, <3>4, TalksMoves
  <2>5. ASSUME left = {}, Talks!Becomes(r, [g EXCEPT !.pc = "cleared"])
        PROVE  TalksInv'
    <3> DEFINE h == [g EXCEPT !.pc = "cleared"]
    <3>1. /\ h \in Talks!Updating /\ h.pc = "cleared" /\ h.schedule = s /\ h.list = g.list
          /\ h.cleared = g.cleared
      BY <2>1 DEF Talks!Updating
    <3>2. \A x \in Speaker : place[s][x] # Null => <<s, x>> \in g.cleared
      BY <2>5 DEF Talks!KeysOf
    <3>3. Talks!Becomes(r, h)
      BY <2>5
    <3> HIDE DEF h, left
    <3> QED  BY <2>1, <2>3, <3>1, <3>2, <3>3, TalksMoves
  <2> QED  BY <1>2, <2>4, <2>5 DEF Talks!UpdateClears
<1>3. CASE Talks!RemoveClears(r)
  <2> DEFINE g == request[r]
             h(k) == [g EXCEPT !.found = @ \ {k},
                               !.cleared = @ \cup ({k} \cap Talks!RowsOf(g.speaker))]
  <2>1. g \in Talks!Removing
    BY <1>3, TalksLocals DEF Talks!RemoveClears
  <2>2. PICK k \in g.found : Talks!Becomes(r, h(k))
    BY <1>3 DEF Talks!RemoveClears
  <2>3. h(k) \in Talks!Removing /\ h(k).pc = "removing"
    BY <2>1 DEF Talks!Removing
  <2>4. UNCHANGED <<schedule, speaker, place, listed>>
    BY <1>3 DEF Talks!RemoveClears
  <2> HIDE DEF h
  <2> QED  BY <2>2, <2>3, <2>4, TalksMoves
<1> QED  BY <1>1, <1>2, <1>3

LEMMA TalksRollback ==
  ASSUME TalksInv, NEW r \in Request, Talks!Rollback(r)
  PROVE  TalksInv'
<1>1. Talks!Idle.pc = "idle"
  BY DEF Talks!Idle
<1> QED  BY <1>1, TalksMoves DEF Talks!Rollback

-----------------------------------------------------------------------------
(* The commits. *)

\* A commit ends its handler and writes the rows of one talk at most, which
\* nobody else creates or holds.
LEMMA TalksEnds ==
  ASSUME TalksInv, NEW r \in Request, Talks!Becomes(r, Talks!Idle), NEW t \in Schedule,
         schedule' \in [Schedule -> Talks!Slot \cup {Absent}],
         place' \in [Schedule -> Talks!List],
         \A s \in Schedule \ {t} : schedule'[s] = schedule[s] /\ place'[s] = place[s],
         \A q \in Request \ {r} :
           /\ request[q].pc = "creating" /\ request[q].schedule = t => schedule'[t] = Absent
           /\ request[q].pc = "cleared" => request[q].schedule # t,
         schedule[t] # Absent => schedule'[t] # Absent
  PROVE  Apart' /\ OneHolder' /\ Covers' /\ OwnRows'
<1> USE DEF TalksInv
<1>1. request'[r] = Talks!Idle /\ \A q \in Request \ {r} : request'[q] = request[q]
  BY DEF Talks!Becomes, Talks!TypeOK
<1>2. Talks!Idle.pc = "idle"
  BY DEF Talks!Idle
<1>3. \A q \in Request \ {r} :
        /\ request[q].pc = "creating" => request[q].schedule \in Schedule
        /\ Editing(q) => request[q].schedule \in Schedule
  BY TalksLocals DEF Talks!Creating, Talks!Updating
<1>4. Apart'
  BY <1>1, <1>2, <1>3 DEF Apart, Editing
<1>5. OneHolder'
  BY <1>1, <1>2 DEF OneHolder, Holding
<1>6. Covers'
  BY <1>1, <1>2, <1>3 DEF Covers, Editing
<1>7. OwnRows'
  BY <1>1, <1>2 DEF OwnRows, Editing
<1> QED  BY <1>4, <1>5, <1>6, <1>7

LEMMA TalksCreates ==
  ASSUME Talks!ProgrammeAssumption, TalksInv, NEW r \in Request, Talks!CreateCommits(r)
  PROVE  TalksInv'
<1> USE DEF TalksInv
<1> DEFINE h == request[r]
           t == h.schedule
<1>1. h.pc = "creating" /\ h \in Talks!Creating /\ t \in Schedule /\ h.slot \in Talks!Slot
        /\ h.list \in Talks!List
  BY TalksLocals DEF Talks!CreateCommits, Talks!Creating
<1>2. Talks!Becomes(r, Talks!Idle) /\ speaker' = speaker
  BY DEF Talks!CreateCommits
<1>3. CASE ~Talks!AllExist(h.list)
  <2>1. UNCHANGED <<schedule, speaker, place, listed>>
    BY <1>3 DEF Talks!CreateCommits
  <2>2. Talks!Idle.pc = "idle"
    BY DEF Talks!Idle
  <2> QED  BY <1>2, <2>1, <2>2, TalksMoves
<1>4. CASE Talks!AllExist(h.list)
  <2>1. /\ schedule' = [schedule EXCEPT ![t] = h.slot]
        /\ place' = [place EXCEPT ![t] = h.list]
        /\ listed' = [listed EXCEPT ![t] = h.list]
    BY <1>4 DEF Talks!CreateCommits
  <2>2. Talks!TypeOK'
    BY <1>1, <1>2, <2>1 DEF Talks!TypeOK, Talks!Becomes
  <2>3. /\ \A q \in Request \ {r} :
             /\ request[q].pc = "creating" => request[q].schedule # t
             /\ request[q].pc = "cleared" => request[q].schedule # t
        /\ schedule'[t] # Absent
    BY <1>1, <2>1 DEF Apart, Editing, Talks!TypeOK, Talks!ProgrammeAssumption
  <2>4. \A s \in Schedule \ {t} : schedule'[s] = schedule[s] /\ place'[s] = place[s]
    BY <2>1 DEF Talks!TypeOK
  <2>5. Apart' /\ OneHolder' /\ Covers' /\ OwnRows'
    BY <1>1, <1>2, <2>2, <2>3, <2>4, TalksEnds DEF Talks!TypeOK
  <2>6. ASSUME NEW s \in Schedule, NEW x \in Speaker
        PROVE  place'[s][x] = IF speaker'[x] = Gone THEN Null ELSE listed'[s][x]
    <3>1. speaker[x] = Gone => h.list[x] = Null
      BY <1>4 DEF Talks!AllExist, Talks!Exists, Talks!ProgrammeAssumption
    <3>2. CASE s = t
      BY <1>1, <1>2, <2>1, <3>1, <3>2 DEF Talks!TypeOK
    <3>3. CASE s # t
      BY <1>2, <2>1, <3>3, TalksPointwise DEF Talks!TypeOK
    <3> QED  BY <3>2, <3>3
  <2>7. Talks!ListIsOneRequests'
    BY <2>2, <2>6, TalksPointwise DEF Talks!ListIsOneRequests, Talks!TypeOK, Talks!List
  <2> QED  BY <2>2, <2>5, <2>7
<1> QED  BY <1>3, <1>4

LEMMA TalksUpdates ==
  ASSUME Talks!ProgrammeAssumption, TalksInv, NEW r \in Request, Talks!UpdateCommits(r)
  PROVE  TalksInv'
<1> USE DEF TalksInv
<1> DEFINE h == request[r]
           t == h.schedule
           row == [schedule EXCEPT ![t] = Talks!Changed(h, @)]
<1>1. h.pc \in {"locked", "cleared"} /\ h \in Talks!Updating /\ t \in Schedule
  BY TalksLocals DEF Talks!UpdateCommits, Talks!Updating, Editing
<1>2. Talks!Becomes(r, Talks!Idle) /\ speaker' = speaker
  BY DEF Talks!UpdateCommits
<1>3. schedule[t] # Absent /\ schedule[t] \in Talks!Slot
  BY <1>1 DEF Apart, Editing, Talks!TypeOK
<1>4. /\ row \in [Schedule -> Talks!Slot \cup {Absent}] /\ row[t] # Absent
      /\ \A s \in Schedule \ {t} : row[s] = schedule[s]
  BY <1>1, <1>3, TalksChanged DEF Talks!TypeOK, Talks!ProgrammeAssumption
<1>5. \A q \in Request \ {r} :
        /\ request[q].pc = "creating" => request[q].schedule # t
        /\ request[q].pc = "cleared" => request[q].schedule # t
  BY <1>1, <1>3 DEF Apart, OneHolder, Holding
<1> HIDE DEF row
<1>6. CASE schedule' = row /\ UNCHANGED <<place, listed>>
  <2>1. Talks!TypeOK'
    BY <1>2, <1>4, <1>6 DEF Talks!TypeOK, Talks!Becomes
  <2>2. Apart' /\ OneHolder' /\ Covers' /\ OwnRows'
    BY <1>1, <1>2, <1>4, <1>5, <1>6, TalksEnds DEF Talks!TypeOK
  <2>3. Talks!ListIsOneRequests'
    BY <1>2, <1>6 DEF Talks!ListIsOneRequests
  <2> QED  BY <2>1, <2>2, <2>3
<1>7. CASE /\ h.pc = "cleared" /\ Talks!MayInsert(h)
           /\ schedule' = row
           /\ place' = [place EXCEPT ![t] = Talks!Inserted(h)]
           /\ listed' = [listed EXCEPT ![t] = h.list]
  <2>1. Talks!Inserted(h) \in Talks!List /\ Talks!AllExist(h.list)
    BY <1>7 DEF Talks!MayInsert
  <2>2. h.list \in Talks!List
    BY <1>1, <1>7 DEF Covers, Talks!Updating
  <2>3. Talks!TypeOK'
    BY <1>2, <1>4, <1>7, <2>1, <2>2 DEF Talks!TypeOK, Talks!Becomes
  <2>4. \A s \in Schedule \ {t} : schedule'[s] = schedule[s] /\ place'[s] = place[s]
    BY <1>4, <1>7 DEF Talks!TypeOK
  <2>5. Apart' /\ OneHolder' /\ Covers' /\ OwnRows'
    BY <1>1, <1>2, <1>4, <1>5, <1>7, <2>3, <2>4, TalksEnds DEF Talks!TypeOK
  <2>6. \A x \in Speaker : Talks!Inserted(h)[x] = h.list[x]
    BY <1>7 DEF Covers, Talks!Inserted
  <2>7. ASSUME NEW s \in Schedule, NEW x \in Speaker
        PROVE  place'[s][x] = IF speaker'[x] = Gone THEN Null ELSE listed'[s][x]
    <3>1. speaker[x] = Gone => h.list[x] = Null
      BY <2>1 DEF Talks!AllExist, Talks!Exists, Talks!ProgrammeAssumption
    <3>2. CASE s = t
      BY <1>1, <1>2, <1>7, <2>6, <3>1, <3>2 DEF Talks!TypeOK
    <3>3. CASE s # t
      BY <1>2, <1>7, <3>3, TalksPointwise DEF Talks!TypeOK
    <3> QED  BY <3>2, <3>3
  <2>8. Talks!ListIsOneRequests'
    BY <2>3, <2>7, TalksPointwise DEF Talks!ListIsOneRequests, Talks!TypeOK, Talks!List
  <2> QED  BY <2>3, <2>5, <2>8
<1>8. CASE UNCHANGED <<schedule, place, listed>>
  <2>1. Talks!Idle.pc = "idle"
    BY DEF Talks!Idle
  <2> QED  BY <1>2, <1>8, <2>1, TalksMoves
<1> QED  BY <1>6, <1>7, <1>8 DEF Talks!UpdateCommits, row

LEMMA TalksRenames ==
  ASSUME Talks!ProgrammeAssumption, TalksInv, NEW r \in Request, Talks!RenameCommits(r)
  PROVE  TalksInv'
<1> USE DEF TalksInv
<1> DEFINE h == request[r]
<1>1. h \in Talks!Renaming /\ h.speaker \in Speaker /\ h.user \in Person
  BY TalksLocals DEF Talks!RenameCommits, Talks!Renaming
<1>2. /\ speaker' = Talks!Renamed(h.speaker, h.user) /\ Talks!Becomes(r, Talks!Idle)
      /\ UNCHANGED <<schedule, place, listed>>
  BY DEF Talks!RenameCommits
<1>3. speaker' \in [Speaker -> Person \cup {Absent, Gone}]
  BY <1>1, <1>2 DEF Talks!Renamed, Talks!TypeOK
<1>4. \A x \in Speaker : speaker'[x] = Gone <=> speaker[x] = Gone
  BY <1>1, <1>2 DEF Talks!Renamed, Talks!Exists, Talks!TypeOK, Talks!ProgrammeAssumption
<1>5. request' = [request EXCEPT ![r] = Talks!Idle] /\ Talks!Idle.pc = "idle"
  BY <1>2 DEF Talks!Becomes, Talks!Idle
<1>6. Talks!TypeOK'
  BY <1>2, <1>3, <1>5 DEF Talks!TypeOK
<1>7. request'[r] = Talks!Idle /\ \A q \in Request \ {r} : request'[q] = request[q]
  BY <1>5 DEF Talks!TypeOK
<1>8. Apart' /\ OneHolder' /\ Covers' /\ OwnRows'
  BY <1>2, <1>5, <1>7 DEF Apart, OneHolder, Covers, OwnRows, Editing, Holding
<1>9. Talks!ListIsOneRequests'
  BY <1>2, <1>4 DEF Talks!ListIsOneRequests
<1> QED  BY <1>6, <1>8, <1>9

LEMMA TalksRemoves ==
  ASSUME Talks!ProgrammeAssumption, TalksInv, NEW r \in Request, Talks!RemoveCommits(r)
  PROVE  TalksInv'
<1> USE DEF TalksInv
<1> DEFINE h == request[r]
           x == h.speaker
           left == Talks!RowsOf(x) \ h.cleared
<1>1. h \in Talks!Removing /\ x \in Speaker
  BY TalksLocals DEF Talks!RemoveCommits, Talks!Removing
<1>2. Talks!Becomes(r, Talks!Idle) /\ UNCHANGED <<schedule, listed>>
  BY DEF Talks!RemoveCommits
<1>3. request' = [request EXCEPT ![r] = Talks!Idle] /\ Talks!Idle.pc = "idle"
  BY <1>2 DEF Talks!Becomes, Talks!Idle
<1>4. request'[r] = Talks!Idle /\ \A q \in Request \ {r} : request'[q] = request[q]
  BY <1>3 DEF Talks!TypeOK
<1>5. CASE Talks!Exists(x) /\ left = {}
  <2>1. /\ speaker' = [speaker EXCEPT ![x] = Gone]
        /\ place' = [s \in Schedule |->
                       IF <<s, x>> \in h.cleared
                       THEN [place[s] EXCEPT ![x] = Null] ELSE place[s]]
    BY <1>5 DEF Talks!RemoveCommits
  <2>2. place' \in [Schedule -> Talks!List]
    BY <1>1, <2>1, TalksWithout DEF Talks!TypeOK
  <2>3. Talks!TypeOK'
    BY <1>2, <1>3, <2>1, <2>2 DEF Talks!TypeOK
  <2>4. \A s \in Schedule : place[s][x] # Null => <<s, x>> \in h.cleared
    <3>1. \A s \in Schedule : <<s, x>> \in Talks!Key
      BY <1>1 DEF Talks!Key
    <3> QED  BY <1>5, <3>1 DEF Talks!RowsOf
  <2>5. \A s \in Schedule : \A y \in Speaker :
          place'[s][y] = IF y = x THEN Null ELSE place[s][y]
    BY <1>1, <2>1, <2>4 DEF Talks!TypeOK, Talks!List
  <2>6. Talks!ListIsOneRequests'
    <3>1. \A s \in Schedule : \A y \in Speaker :
            place'[s][y] = IF speaker'[y] = Gone THEN Null ELSE listed'[s][y]
      BY <1>1, <1>2, <2>1, <2>5, TalksPointwise DEF Talks!TypeOK
    <3> QED  BY <2>3, <3>1, TalksPointwise DEF Talks!ListIsOneRequests, Talks!TypeOK, Talks!List
  <2>7. Covers'
    <3>1. \A q \in Request : request'[q].pc = "cleared" =>
            q # r /\ request'[q] = request[q] /\ request[q].schedule \in Schedule
      BY <1>3, <1>4, TalksLocals DEF Editing, Talks!Updating
    <3> QED  BY <2>5, <3>1 DEF Covers
  <2>8. Apart' /\ OneHolder' /\ OwnRows'
    BY <1>2, <1>3, <1>4 DEF Apart, OneHolder, OwnRows, Editing, Holding
  <2> QED  BY <2>3, <2>6, <2>7, <2>8
<1>6. CASE ~(Talks!Exists(x) /\ left = {})
  <2>1. UNCHANGED <<schedule, speaker, place, listed>>
    BY <1>6 DEF Talks!RemoveCommits
  <2> QED  BY <1>2, <1>3, <2>1, TalksMoves
<1> QED  BY <1>5, <1>6

LEMMA TalksNext ==
  ASSUME Talks!ProgrammeAssumption, TalksInv, [Talks!Next]_(Talks!vars)
  PROVE  TalksInv'
<1>1. CASE UNCHANGED Talks!vars
  BY <1>1 DEF Talks!vars, TalksInv, Talks!TypeOK, Apart, OneHolder, Covers, OwnRows,
              Talks!ListIsOneRequests, Editing, Holding
<1>2. CASE Talks!Next
  BY <1>2, TalksArrives, TalksTakes, TalksCreates, TalksUpdates, TalksRenames, TalksRemoves,
     TalksRollback DEF Talks!Next, Talks!Waits, Talks!Ends
<1> QED  BY <1>1, <1>2

-----------------------------------------------------------------------------
\* Talks, the rows of their lists and the requests between them fit together.
THEOREM TalksInvariance ==
  ASSUME Talks!ProgrammeAssumption
  PROVE  Talks!Spec => []TalksInv
<1>1. Talks!Init => TalksInv
  BY TalksInit
<1>2. TalksInv /\ [Talks!Next]_(Talks!vars) => TalksInv'
  BY TalksNext
<1> QED  BY <1>1, <1>2, PTL DEF Talks!Spec

\* The speakers of a talk and their order are those of one create or update,
\* whichever overlap (repository/schedule.py).
THEOREM ListIsOfOneRequest ==
  ASSUME Talks!ProgrammeAssumption
  PROVE  Talks!Spec => []ListIsOneRequests
<1>1. TalksInv => ListIsOneRequests
  BY DEF TalksInv, ListIsOneRequests
<1> QED  BY <1>1, TalksInvariance, PTL

-----------------------------------------------------------------------------
(* Who waits for whom. *)

\* Who is ahead: the request itself, and whoever one of them waits for.
LEMMA TalksAhead ==
  ASSUME NEW r \in Request
  PROVE  /\ r \in Talks!Ahead(r)
         /\ \A p \in Talks!Ahead(r), q \in Request :
              Talks!WaitsFor(p, q) => q \in Talks!Ahead(r)
<1>1. r \in Talks!Ahead(r)
  BY DEF Talks!Ahead
<1>2. ASSUME NEW p \in Talks!Ahead(r), NEW q \in Request, Talks!WaitsFor(p, q)
      PROVE  q \in Talks!Ahead(r)
  <2>1. \A C \in SUBSET Request : r \in C /\ Talks!Closed(C) => p \in C
    BY <1>2 DEF Talks!Ahead
  <2>2. \A C \in SUBSET Request : r \in C /\ Talks!Closed(C) => q \in C
    BY <1>2, <2>1 DEF Talks!Closed
  <2> QED  BY <2>2 DEF Talks!Ahead
<1> QED  BY <1>1, <1>2

\* An update that waits has not come to its INSERTs.
LEMMA TalksWaiting ==
  ASSUME NEW p \in Request, Talks!Waiting(p)
  PROVE  request[p].pc \in {"loaded", "locked", "removing"}
BY DEF Talks!Waiting, Talks!Wants

\* An update that waits for a row of its list waits for a removal.
LEMMA TalksListTaken ==
  ASSUME TalksInv, NEW p \in Request, Talks!Waiting(p), request[p].pc = "locked"
  PROVE  \E q \in Request : Talks!WaitsFor(p, q) /\ request[q].pc = "removing"
<1>1. /\ Talks!Wants(p) \subseteq Talks!KeysOf(request[p].schedule)
      /\ Talks!Wants(p) # {} /\ \A k \in Talks!Wants(p) : ~Talks!RowFree(p, k)
  BY DEF Talks!Waiting, Talks!Wants
<1>2. PICK k \in Talks!Wants(p) : ~Talks!RowFree(p, k)
  BY <1>1
<1>3. PICK q \in Request \ {p} : k \in Talks!Cleared(q)
  BY <1>2 DEF Talks!RowFree
<1>4. k[1] = request[p].schedule
  BY <1>1 DEF Talks!KeysOf
<1>5. request[q].pc \in {"locked", "cleared", "removing"} /\ k \in request[q].cleared
  BY <1>3 DEF Talks!Cleared
<1>6. ~(request[q].pc \in {"locked", "cleared"})
  BY <1>3, <1>4, <1>5 DEF TalksInv, OwnRows, OneHolder, Editing, Holding
<1>7. Talks!WaitsFor(p, q)
  BY <1>2, <1>3 DEF Talks!WaitsFor
<1> QED  BY <1>5, <1>6, <1>7

\* An update that waits for the row of its talk waits for another update.
LEMMA TalksTalkTaken ==
  ASSUME NEW p \in Request, Talks!Waiting(p), request[p].pc = "loaded"
  PROVE  \E q \in Request : Talks!WaitsFor(p, q) /\ Holding(q)
BY DEF Talks!Waiting, Talks!Wants, Talks!LockFree, Talks!WaitsFor, Holding

\* Where requests wait for each other and none can go on, one of them deletes a
\* speaker: update_schedule alone never comes to that (_sync_speakers after the
\* UPDATE of the talk).
THEOREM RemovalsInTheWay ==
  ASSUME Talks!ProgrammeAssumption
  PROVE  Talks!Spec => []Talks!RemovalsAreInTheWay
<1>1. ASSUME TalksInv, NEW r \in Request, Talks!Stuck(r)
      PROVE  \E q \in Talks!Ahead(r) : request[q].pc = "removing"
  <2>1. \A p \in Talks!Ahead(r) : p \in Request /\ Talks!Waiting(p)
    BY <1>1 DEF Talks!Stuck, Talks!Ahead
  <2>2. ASSUME NEW p \in Talks!Ahead(r), request[p].pc = "locked"
        PROVE  \E q \in Talks!Ahead(r) : request[q].pc = "removing"
    BY <1>1, <2>1, <2>2, TalksListTaken, TalksAhead
  <2>3. CASE request[r].pc = "loaded"
    <3>1. PICK q \in Request : Talks!WaitsFor(r, q) /\ Holding(q)
      BY <1>1, <2>3, TalksTalkTaken DEF Talks!Stuck
    <3>2. q \in Talks!Ahead(r) /\ Talks!Waiting(q)
      BY <2>1, <3>1, TalksAhead
    <3>3. request[q].pc = "locked"
      BY <3>1, <3>2, TalksWaiting DEF Holding
    <3> QED  BY <2>2, <3>2, <3>3
  <2>4. request[r].pc \in {"loaded", "locked", "removing"} /\ r \in Talks!Ahead(r)
    BY <1>1, TalksWaiting, TalksAhead DEF Talks!Stuck
  <2> QED  BY <2>2, <2>3, <2>4
<1>2. TalksInv => Talks!RemovalsAreInTheWay
  BY <1>1 DEF Talks!RemovalsAreInTheWay
<1> QED  BY <1>2, TalksInvariance, PTL

-----------------------------------------------------------------------------
(***************************************************************************)
(* Where one process serves all requests, one of them at a time: what an   *)
(* update has loaded is still there when it commits, so that start and end *)
(* are those of its request, which were checked together.                  *)
(***************************************************************************)

SlotsKnown ==
  \A r \in Request :
    /\ request[r].pc = "creating" => Talks!Valid(request[r].slot)
    /\ Editing(r) => /\ Talks!Valid(request[r].slot)
                     /\ request[r].was = schedule[request[r].schedule]

TimesInv == TalksInv /\ SlotsKnown /\ Talks!EndAfterStart

\* A step keeps what was checked, when no other request is under way.
LEMMA TalksTimes ==
  ASSUME Talks!ProgrammeAssumption, \A q, r \in Request : q = r, TimesInv, Talks!Next
  PROVE  SlotsKnown' /\ Talks!EndAfterStart'
<1> USE DEF TimesInv, TalksInv
<1> PICK r \in Request : Talks!Arrives(r) \/ Talks!Waits(r) \/ Talks!Ends(r) \/ Talks!Rollback(r)
  BY DEF Talks!Next
<1>1. \A h : Talks!Becomes(r, h) => request'[r] = h
  BY DEF Talks!Becomes, Talks!TypeOK
<1>2. \A q \in Request : q = r
  OBVIOUS
<1>3. ASSUME UNCHANGED schedule, UNCHANGED request
      PROVE  SlotsKnown' /\ Talks!EndAfterStart'
  BY <1>3 DEF SlotsKnown, Talks!EndAfterStart, Editing
<1>4. ASSUME UNCHANGED schedule, NEW h, Talks!Becomes(r, h),
             h.pc \in {"creating", "loaded", "locked", "cleared"} => Talks!Valid(h.slot),
             h.pc \in {"loaded", "locked", "cleared"} => h.was = schedule[h.schedule]
      PROVE  SlotsKnown' /\ Talks!EndAfterStart'
  BY <1>1, <1>2, <1>4 DEF SlotsKnown, Talks!EndAfterStart, Editing
<1>5. CASE Talks!Arrives(r)
  <2>1. ASSUME NEW s \in Schedule, Talks!CreateLoads(r, s)
        PROVE  SlotsKnown' /\ Talks!EndAfterStart'
    BY <1>4, <2>1 DEF Talks!CreateLoads
  <2>2. ASSUME NEW s \in Schedule, Talks!UpdateLoads(r, s)
        PROVE  SlotsKnown' /\ Talks!EndAfterStart'
    BY <1>4, <2>2 DEF Talks!UpdateLoads
  <2>3. ASSUME NEW x \in Speaker, Talks!CreateSpeaker(r, x)
        PROVE  SlotsKnown' /\ Talks!EndAfterStart'
    BY <1>3, <2>3 DEF Talks!CreateSpeaker
  <2>4. ASSUME NEW x \in Speaker, Talks!RenameLoads(r, x) \/ Talks!RemoveLoads(r, x)
        PROVE  SlotsKnown' /\ Talks!EndAfterStart'
    BY <1>4, <2>4 DEF Talks!RenameLoads, Talks!RemoveLoads
  <2> QED  BY <1>5, <2>1, <2>2, <2>3, <2>4 DEF Talks!Arrives
<1>6. CASE Talks!UpdateLocks(r) \/ Talks!UpdateClears(r)
  <2> DEFINE g == request[r]
  <2>1. /\ g.pc \in {"loaded", "locked"} /\ g \in Talks!Updating /\ UNCHANGED schedule
        /\ Talks!Valid(g.slot) /\ g.was = schedule[g.schedule]
    BY <1>6, TalksLocals DEF Talks!UpdateLocks, Talks!UpdateClears, SlotsKnown, Editing
  <2>2. \E h : /\ Talks!Becomes(r, h) /\ h.slot = g.slot /\ h.was = g.was
              /\ h.schedule = g.schedule /\ h.pc \in {"locked", "cleared"}
    <3>1. CASE Talks!UpdateLocks(r)
      BY <2>1, <3>1 DEF Talks!UpdateLocks, Talks!Updating
    <3>2. CASE Talks!UpdateClears(r)
      <4>1. g.pc = "locked"
        BY <3>2 DEF Talks!UpdateClears
      <4>2. ASSUME NEW k, Talks!Becomes(r, [g EXCEPT !.cleared = @ \cup {k}])
            PROVE  \E h : /\ Talks!Becomes(r, h) /\ h.slot = g.slot /\ h.was = g.was
                         /\ h.schedule = g.schedule /\ h.pc \in {"locked", "cleared"}
        BY <2>1, <4>1, <4>2 DEF Talks!Updating
      <4>3. ASSUME Talks!Becomes(r, [g EXCEPT !.pc = "cleared"])
            PROVE  \E h : /\ Talks!Becomes(r, h) /\ h.slot = g.slot /\ h.was = g.was
                         /\ h.schedule = g.schedule /\ h.pc \in {"locked", "cleared"}
        BY <2>1, <4>3 DEF Talks!Updating
      <4> QED  BY <3>2, <4>2, <4>3 DEF Talks!UpdateClears
    <3> QED  BY <1>6, <3>1, <3>2
  <2> QED  BY <1>4, <2>1, <2>2
<1>7. CASE Talks!UpdateCommits(r)
  <2> DEFINE g == request[r]
             t == g.schedule
  <2>1. /\ g \in Talks!Updating /\ t \in Schedule
        /\ Talks!Valid(g.slot) /\ g.was = schedule[t] /\ Talks!Becomes(r, Talks!Idle)
    BY <1>7, TalksLocals DEF Talks!UpdateCommits, SlotsKnown, Editing, Talks!Updating
  <2>2. \/ UNCHANGED schedule
        \/ schedule' = [schedule EXCEPT ![t] = Talks!Changed(g, @)]
    BY <1>7 DEF Talks!UpdateCommits
  <2>3. Talks!Changed(g, schedule[t]) = g.slot
    BY <2>1 DEF Talks!Changed, Talks!Updating, Talks!Slot
  <2>4. Talks!EndAfterStart'
    BY <2>1, <2>2, <2>3 DEF Talks!EndAfterStart, Talks!TypeOK
  <2>5. SlotsKnown'
    BY <1>1, <1>2, <2>1 DEF SlotsKnown, Editing, Talks!Idle
  <2> QED  BY <2>4, <2>5
<1>8. CASE Talks!CreateCommits(r)
  <2> DEFINE g == request[r]
  <2>1. Talks!Valid(g.slot) /\ Talks!Becomes(r, Talks!Idle)
    BY <1>8 DEF Talks!CreateCommits, SlotsKnown
  <2>2. UNCHANGED schedule \/ schedule' = [schedule EXCEPT ![g.schedule] = g.slot]
    BY <1>8 DEF Talks!CreateCommits
  <2>3. Talks!EndAfterStart'
    BY <2>1, <2>2 DEF Talks!EndAfterStart, Talks!TypeOK
  <2>4. SlotsKnown'
    BY <1>1, <1>2, <2>1 DEF SlotsKnown, Editing, Talks!Idle
  <2> QED  BY <2>3, <2>4
<1>9. CASE Talks!RemoveClears(r)
  <2> DEFINE g == request[r]
             h(k) == [g EXCEPT !.found = @ \ {k},
                               !.cleared = @ \cup ({k} \cap Talks!RowsOf(g.speaker))]
  <2>1. g \in Talks!Removing /\ UNCHANGED schedule
    BY <1>9, TalksLocals DEF Talks!RemoveClears
  <2>2. PICK k \in g.found : Talks!Becomes(r, h(k))
    BY <1>9 DEF Talks!RemoveClears
  <2>3. h(k).pc = "removing"
    BY <2>1 DEF Talks!Removing
  <2> HIDE DEF h
  <2> QED  BY <1>4, <2>1, <2>2, <2>3
<1>10. CASE Talks!RemoveCommits(r) \/ Talks!RenameCommits(r) \/ Talks!Rollback(r)
  <2>1. Talks!Becomes(r, Talks!Idle) /\ UNCHANGED schedule /\ Talks!Idle.pc = "idle"
    BY <1>10 DEF Talks!RemoveCommits, Talks!RenameCommits, Talks!Rollback, Talks!Idle
  <2> QED  BY <1>4, <2>1
<1> QED  BY <1>5, <1>6, <1>7, <1>8, <1>9, <1>10 DEF Talks!Waits, Talks!Ends

\* A talk ends after it starts (routes/schedule.py:363-366), where one process
\* serves all requests: only requests that overlap leave it otherwise.
THEOREM EndsAfterStart ==
  ASSUME Talks!ProgrammeAssumption, \A q, r \in Request : q = r
  PROVE  Talks!Spec => []Talks!EndAfterStart
<1>1. Talks!Init => TimesInv
  BY TalksInit DEF TimesInv, SlotsKnown, Editing, Talks!EndAfterStart, Talks!Init, Talks!Idle
<1>2. TimesInv /\ [Talks!Next]_(Talks!vars) => TimesInv'
  <2>1. CASE UNCHANGED Talks!vars
    BY <2>1, TalksNext DEF TimesInv, SlotsKnown, Editing, Talks!EndAfterStart, Talks!vars
  <2>2. CASE Talks!Next
    BY <2>2, TalksNext, TalksTimes DEF TimesInv
  <2> QED  BY <2>1, <2>2
<1> QED  BY <1>1, <1>2, PTL DEF Talks!Spec, TimesInv


-----------------------------------------------------------------------------
(***************************************************************************)
(* Office: while requests do not overlap, no user has two entries, and     *)
(* what was deleted stays so.                                              *)
(*                                                                         *)
(* While no two requests have overlapped, one at most is in progress       *)
(* (Alone), and what it found is still so when it commits (StillSo).  That *)
(* an entry does not come back needs no such condition: a new id is at     *)
(* nobody's place (Fresh), and an UPDATE of a row that is gone raises.     *)
(***************************************************************************)

\* While no two requests overlapped, one at most is in progress.
Alone ==
  ~overlapped =>
    \A q, r \in Request :
      staffRequest[q] # Office!Idle /\ staffRequest[r] # Office!Idle => q = r

\* A new entry is at nobody's place, and no other request inserts it.
Fresh ==
  \A r \in Request : staffRequest[r] # Office!Idle =>
    IF staffRequest[r].pc = "inserting"
    THEN /\ table[staffRequest[r].id] = Absent
         /\ \A q \in Request \ {r} : staffRequest[q].pc = "inserting" =>
              staffRequest[q].id # staffRequest[r].id
    ELSE table[staffRequest[r].id] # Absent

\* While no two requests overlapped, what a request has found is still so.
StillSo ==
  ~overlapped =>
    \A r \in Request :
      /\ staffRequest[r].pc = "inserting" => Office!EntriesOf(staffRequest[r].row.user) = {}
      /\ staffRequest[r].pc = "updating" =>
           /\ Office!There(staffRequest[r].id) /\ staffRequest[r].was = table[staffRequest[r].id]
           /\ Office!NotTaken(staffRequest[r].id, staffRequest[r].row.user)

\* While no two requests overlapped, two entries are of two users.
Single ==
  ~overlapped =>
    \A d, e \in Entry : Office!There(d) /\ Office!There(e) /\ table[d].user = table[e].user =>
      d = e

OfficeInv == Office!TypeOK /\ Alone /\ Fresh /\ StillSo /\ Single

LEMMA OfficeRows ==
  ASSUME Office!StaffAssumption
  PROVE  Absent \notin Office!Row /\ Gone \notin Office!Row /\ Absent # Gone
BY DEF Office!StaffAssumption, Office!Row, Office!TypeOf

LEMMA OfficeInit ==
  ASSUME Office!StaffAssumption, Office!Init
  PROVE  OfficeInv
BY DEF Office!Init, OfficeInv, Office!TypeOK, Alone, Fresh, StillSo, Single, Office!Idle,
       Office!There

\* The SELECTs of a handler.
LEMMA OfficeLoads ==
  ASSUME Office!StaffAssumption, OfficeInv, NEW r \in Request, NEW h \in Office!Working
           \cup Office!Deleting, Office!Loads(r, h),
         IF h.pc = "inserting"
         THEN /\ table[h.id] = Absent /\ Office!EntriesOf(h.row.user) = {}
              /\ \A q \in Office!Others(r) : staffRequest[q].id # h.id
         ELSE Office!There(h.id),
         h.pc = "updating" => h.was = table[h.id] /\ Office!NotTaken(h.id, h.row.user)
  PROVE  OfficeInv'
<1> USE DEF OfficeInv
<1>1. /\ staffRequest[r] = Office!Idle /\ h # Office!Idle /\ h.pc \in {"inserting", "updating",
           "deleting"}
      /\ staffRequest' = [staffRequest EXCEPT ![r] = h]
      /\ overlapped' = (overlapped \/ Office!Others(r) # {})
      /\ kind' = kind /\ process' = process /\ table' = table
  BY DEF Office!Loads, Office!MayStart, Office!Working, Office!Deleting, Office!Idle
<1>2. /\ staffRequest'[r] = h
      /\ \A q \in Request \ {r} : staffRequest'[q] = staffRequest[q]
  BY <1>1 DEF Office!TypeOK
<1>3. ~overlapped' => ~overlapped /\ \A q \in Request \ {r} : staffRequest[q] = Office!Idle
  BY <1>1 DEF Office!Others
<1>4. Office!TypeOK'
  BY <1>1 DEF Office!TypeOK, Office!Working, Office!Deleting, Office!Row, Office!TypeOf
<1>5. Alone'
  BY <1>2, <1>3 DEF Alone
<1>6. Fresh'
  <2>1. \A q \in Request \ {r} : staffRequest[q].pc = "inserting" => staffRequest[q] # Office!Idle
    BY DEF Office!Idle
  <2>2. ASSUME h.pc = "inserting", NEW q \in Request \ {r}, staffRequest[q].pc = "inserting"
        PROVE  staffRequest[q].id # h.id
    BY <2>1, <2>2 DEF Office!Others
  <2>3. ASSUME h.pc # "inserting" PROVE table[h.id] # Absent
    BY <2>3 DEF Office!There
  <2> QED  BY <1>1, <1>2, <2>2, <2>3 DEF Fresh
<1>7. StillSo'
  BY <1>1, <1>2, <1>3 DEF StillSo, Office!Idle, Office!EntriesOf, Office!There, Office!NotTaken
<1>8. Single'
  BY <1>1, <1>3 DEF Single, Office!There
<1> QED  BY <1>4, <1>5, <1>6, <1>7, <1>8

\* A handler ends, and what it writes leaves the entries of others alone.
LEMMA OfficeCommits ==
  ASSUME Office!StaffAssumption, OfficeInv, NEW r \in Request, NEW new, Office!Commits(r, new),
         staffRequest[r] # Office!Idle,
         \/ new = table
         \/ /\ staffRequest[r].pc = "inserting"
            /\ new = [table EXCEPT ![staffRequest[r].id] = staffRequest[r].row]
         \/ /\ staffRequest[r].pc = "updating"
            /\ new = [table EXCEPT ![staffRequest[r].id] = Office!Updated(staffRequest[r])]
         \/ /\ staffRequest[r].pc = "deleting"
            /\ new = [table EXCEPT ![staffRequest[r].id] = Gone]
  PROVE  OfficeInv' /\ \A e \in Entry : table[e] = Gone => table'[e] = Gone
<1> USE DEF OfficeInv
<1> DEFINE h == staffRequest[r]
           e == h.id
<1>1. /\ table' = new /\ kind' = kind /\ process' = process /\ overlapped' = overlapped
      /\ staffRequest' = [staffRequest EXCEPT ![r] = Office!Idle]
  BY DEF Office!Commits
<1>2. /\ staffRequest'[r] = Office!Idle
      /\ \A q \in Request \ {r} : staffRequest'[q] = staffRequest[q]
  BY <1>1 DEF Office!TypeOK
<1>3. h \in Office!Working \cup Office!Deleting /\ e \in Entry
  BY DEF Office!TypeOK, Office!Working, Office!Deleting
<1>4. Office!There(e) => table[e] \in Office!Row
  BY <1>3 DEF Office!TypeOK, Office!There
<1>5. /\ h.pc = "inserting" => table[e] = Absent /\ h.row \in Office!Row
      /\ h.pc = "updating" => h.row \in Office!Row
  BY <1>3 DEF Fresh, Office!Working, Office!Deleting
<1>6. h.pc = "updating" =>
        IF Office!There(e) THEN Office!Updated(h) \in Office!Row ELSE Office!Updated(h) = table[e]
  BY <1>4, <1>5 DEF Office!Updated, Office!Row
<1>7. \E v :
        /\ new = [table EXCEPT ![e] = v]
        /\ v \in Office!Row \cup {Absent, Gone} 
        /\ table[e] = Gone => v = Gone
        /\ table[e] # Absent => v # Absent
  <2>0. table[e] \in Office!Row \cup {Absent, Gone} /\ table = [table EXCEPT ![e] = table[e]]
    BY <1>3 DEF Office!TypeOK
  <2>1. CASE new = table
    BY <2>0, <2>1
  <2>2. CASE h.pc = "inserting" /\ new = [table EXCEPT ![e] = h.row]
    BY <1>5, <2>2, OfficeRows
  <2>3. CASE h.pc = "updating" /\ new = [table EXCEPT ![e] = Office!Updated(h)]
    <3>1. table[e] # Absent
      BY <2>3 DEF Fresh
    <3>2. CASE Office!There(e)
      BY <1>6, <2>3, <3>2, OfficeRows DEF Office!There
    <3>3. CASE ~Office!There(e)
      BY <1>6, <2>3, <3>3, <2>0
    <3> QED  BY <3>2, <3>3
  <2>4. CASE h.pc = "deleting" /\ new = [table EXCEPT ![e] = Gone]
    BY <2>4, OfficeRows
  <2> QED  BY <2>1, <2>2, <2>3, <2>4
<1>8. PICK v :
        /\ new = [table EXCEPT ![e] = v]
        /\ v \in Office!Row \cup {Absent, Gone}
        /\ table[e] = Gone => v = Gone
        /\ table[e] # Absent => v # Absent
  BY <1>7
<1>9. /\ table'[e] = v
      /\ \A d \in Entry \ {e} : table'[d] = table[d]
      /\ \A d \in Entry : table'[d] = IF d = e THEN v ELSE table[d]
  BY <1>1, <1>3, <1>8 DEF Office!TypeOK
<1>10. Office!TypeOK'
  <2>1. table' \in [Entry -> Office!Row \cup {Absent, Gone}]
    BY <1>1, <1>8 DEF Office!TypeOK
  <2> QED  BY <1>1, <2>1 DEF Office!TypeOK, Office!Working, Office!Deleting, Office!Row,
                             Office!TypeOf
<1>11. Alone'
  BY <1>1, <1>2 DEF Alone
<1>12. Fresh'
  <2> SUFFICES ASSUME NEW q \in Request, staffRequest'[q] # Office!Idle
               PROVE  IF staffRequest'[q].pc = "inserting"
                      THEN /\ table'[staffRequest'[q].id] = Absent
                           /\ \A p \in Request \ {q} :
                                staffRequest'[p].pc = "inserting" =>
                                  staffRequest'[p].id # staffRequest'[q].id
                      ELSE table'[staffRequest'[q].id] # Absent
    BY DEF Fresh
  <2>1. q # r /\ staffRequest'[q] = staffRequest[q] /\ staffRequest[q].id \in Entry
    BY <1>2 DEF Office!TypeOK, Office!Working, Office!Deleting
  <2>2. CASE staffRequest[q].pc = "inserting"
    <3>1. staffRequest[q].id # e
      BY <1>5, <2>1, <2>2 DEF Fresh
    <3>2. table'[staffRequest[q].id] = Absent
      BY <1>9, <2>1, <2>2, <3>1 DEF Fresh
    <3>3. ASSUME NEW p \in Request \ {q}, staffRequest'[p].pc = "inserting"
          PROVE  staffRequest'[p].id # staffRequest[q].id
      <4>1. p # r /\ staffRequest'[p] = staffRequest[p]
        BY <1>2, <3>3 DEF Office!Idle
      <4> QED  BY <2>1, <2>2, <3>3, <4>1 DEF Fresh
    <3> QED  BY <2>1, <2>2, <3>2, <3>3
  <2>3. CASE staffRequest[q].pc # "inserting"
    <3>1. table[staffRequest[q].id] # Absent
      BY <2>1, <2>3 DEF Fresh
    <3>2. table'[staffRequest[q].id] # Absent
      BY <1>8, <1>9, <2>1, <3>1
    <3> QED  BY <2>1, <2>3, <3>2
  <2> QED  BY <2>2, <2>3
<1>13. StillSo'
  <2>1. ~overlapped => \A q \in Request : staffRequest'[q] = Office!Idle
    BY <1>2 DEF Alone
  <2> QED  BY <1>1, <2>1 DEF StillSo, Office!Idle
<1>14. Single'
  <2> SUFFICES ASSUME ~overlapped, NEW c \in Entry, NEW d \in Entry, c # d,
                      table'[c] \notin {Absent, Gone}, table'[d] \notin {Absent, Gone},
                      table'[c].user = table'[d].user
               PROVE  FALSE
    BY <1>1 DEF Single, Office!There
  <2>1. c = e \/ d = e
    BY <1>9 DEF Single, Office!There
  <2>2. PICK b \in Entry \ {e} :
          table[b] \notin {Absent, Gone} /\ v \notin {Absent, Gone} /\ v.user = table[b].user
    BY <1>9, <2>1
  <2>3. CASE new = table
    BY <1>1, <2>3 DEF Single, Office!There
  <2>4. CASE h.pc = "inserting" /\ new = [table EXCEPT ![e] = h.row]
    <3>1. v = h.row
      BY <1>1, <1>3, <1>9, <2>4 DEF Office!TypeOK
    <3> QED  BY <2>2, <2>4, <3>1 DEF StillSo, Office!EntriesOf, Office!There
  <2>5. CASE h.pc = "updating" /\ new = [table EXCEPT ![e] = Office!Updated(h)]
    <3>1. v = Office!Updated(h)
      BY <1>1, <1>3, <1>9, <2>5 DEF Office!TypeOK
    <3>2. Office!There(e) /\ h.was = table[e] /\ Office!NotTaken(e, h.row.user)
      BY <2>5 DEF StillSo
    <3>3. v.user = h.row.user
      BY <3>1, <3>2 DEF Office!Updated
    <3>4. b \in Office!EntriesOf(h.row.user)
      BY <2>2, <3>3 DEF Office!EntriesOf, Office!There
    <3>5. e \in Office!EntriesOf(h.row.user)
      BY <3>2, <3>4 DEF Office!NotTaken
    <3> QED  BY <2>2, <3>4, <3>5 DEF Single, Office!EntriesOf
  <2>6. CASE h.pc = "deleting" /\ new = [table EXCEPT ![e] = Gone]
    <3>1. v = Gone
      BY <1>1, <1>3, <1>9, <2>6 DEF Office!TypeOK
    <3> QED  BY <2>2, <3>1
  <2> QED  BY <2>3, <2>4, <2>5, <2>6
<1>15. ASSUME NEW d \in Entry, table[d] = Gone
       PROVE  table'[d] = Gone
  BY <1>8, <1>9, <1>15
<1> QED  BY <1>10, <1>11, <1>12, <1>13, <1>14, <1>15

LEMMA OfficeNext ==
  ASSUME Office!StaffAssumption, OfficeInv, [Office!Next]_(Office!vars)
  PROVE  OfficeInv' /\ \A e \in Entry : table[e] = Gone => table'[e] = Gone
<1> USE DEF OfficeInv
<1>1. ASSUME NEW r \in Request, NEW e \in Entry, NEW row \in Office!Row, Office!Inserts(r, e, row)
      PROVE  OfficeInv' /\ table' = table
  <2> DEFINE h == [pc |-> "inserting", id |-> e, was |-> Null, row |-> row]
  <2>1. h \in Office!Working \cup Office!Deleting
    BY DEF Office!Working
  <2>2. /\ table[e] = Absent /\ Office!EntriesOf(row.user) = {} /\ Office!Loads(r, h)
        /\ \A q \in Office!Others(r) : staffRequest[q].id # e
    BY <1>1 DEF Office!Inserts
  <2> QED  BY <2>1, <2>2, OfficeLoads DEF Office!Loads
<1>2. ASSUME NEW r \in Request, NEW e \in Entry, NEW row \in Office!Row, Office!Assigns(r, e, row)
      PROVE  OfficeInv' /\ table' = table
  <2> DEFINE h == [pc |-> "updating", id |-> e, was |-> table[e], row |-> row]
  <2>1. h \in Office!Working \cup Office!Deleting
    BY <1>2 DEF Office!Assigns, Office!There, Office!TypeOK, Office!Working
  <2>2. Office!There(e) /\ Office!NotTaken(e, row.user) /\ Office!Loads(r, h)
    BY <1>2 DEF Office!Assigns
  <2> QED  BY <2>1, <2>2, OfficeLoads DEF Office!Loads
<1>3. ASSUME NEW r \in Request, NEW e \in Entry, Office!Removes(r, e)
      PROVE  OfficeInv' /\ table' = table
  <2> DEFINE h == [pc |-> "deleting", id |-> e]
  <2>1. h \in Office!Working \cup Office!Deleting
    BY DEF Office!Deleting
  <2>2. Office!There(e) /\ Office!Loads(r, h)
    BY <1>3 DEF Office!Removes
  <2> QED  BY <2>1, <2>2, OfficeLoads DEF Office!Loads
<1>4. ASSUME NEW r \in Request, NEW e \in Entry,
             \/ Office!CreateOrganizer(r, e) \/ Office!UpdateOrganizer(r, e)
                  \/ Office!DeleteOrganizer(r, e)
             \/ Office!CreateVolunteer(r, e) \/ Office!UpdateVolunteer(r, e)
                  \/ Office!DeleteVolunteer(r, e)
      PROVE  OfficeInv' /\ table' = table
  BY <1>1, <1>2, <1>3, <1>4
     DEF Office!CreateOrganizer, Office!UpdateOrganizer, Office!DeleteOrganizer,
         Office!CreateVolunteer, Office!UpdateVolunteer,
         Office!DeleteVolunteer, Office!Row, Office!TypeOf
<1>5. ASSUME NEW r \in Request,
             Office!CreateCommits(r) \/ Office!UpdateCommits(r) \/ Office!DeleteCommits(r)
               \/ Office!Rollback(r)
      PROVE  OfficeInv' /\ \A e \in Entry : table[e] = Gone => table'[e] = Gone
  <2>1. staffRequest[r] # Office!Idle
    BY <1>5 DEF Office!CreateCommits, Office!UpdateCommits, Office!DeleteCommits,
                Office!Rollback, Office!Idle
  <2> QED  
    BY <1>5, <2>1, OfficeCommits DEF Office!CreateCommits, Office!UpdateCommits,
                                     Office!DeleteCommits, Office!Rollback
<1>6. CASE UNCHANGED Office!vars
  BY <1>6 DEF Office!vars, Office!TypeOK, Alone, Fresh, StillSo, Single, Office!There,
              Office!EntriesOf, Office!NotTaken,
              Office!Row, Office!TypeOf, Office!Working, Office!Deleting
<1> QED  BY <1>4, <1>5, <1>6 DEF Office!Next

\* The entries and the requests in progress fit together.
THEOREM OfficeInvariance ==
  ASSUME Office!StaffAssumption
  PROVE  Office!Spec => []OfficeInv
<1>1. Office!Init => OfficeInv
  BY OfficeInit
<1>2. OfficeInv /\ [Office!Next]_(Office!vars) => OfficeInv'
  BY OfficeNext
<1> QED  BY <1>1, <1>2, PTL DEF Office!Spec

\* As long as requests do not overlap, no user is twice among the organizers
\* or volunteers (routes/organizer.py, routes/volunteer.py).
THEOREM StaffIsSingle ==
  ASSUME Office!StaffAssumption
  PROVE  Office!Spec => []OneEntryPerUser
<1>1. OfficeInv => OneEntryPerUser
  BY DEF OfficeInv, Single, OneEntryPerUser, Office!OneEntryPerUser,
         Office!EntriesOf
<1> QED  BY <1>1, OfficeInvariance, PTL

\* A deleted entry does not come back, however late an update of it commits.
THEOREM DeletedStays ==
  ASSUME Office!StaffAssumption
  PROVE  Office!Spec => DeletedForGood
<1>1. OfficeInv /\ [Office!Next]_(Office!vars) =>
        [\A e \in Entry : table[e] = Gone => table'[e] = Gone]_(Office!vars)
  BY OfficeNext
<1> QED  BY <1>1, OfficeInvariance, PTL DEF Office!Spec, DeletedForGood, Office!DeletedForGood

-----------------------------------------------------------------------------
(***************************************************************************)
(* Wall: the image that a row names can be read.                           *)
(*                                                                         *)
(* A file belongs to one row or to one request that has yet to commit      *)
(* (OneOwner), and is removed only once the row it was read from is gone   *)
(* (GoneFirst), which no late update brings back.                          *)
(***************************************************************************)

Writes(h) == h.pc \in {"inserting", "updating"}
Removes(h) == h.pc \in {"deleting", "unlinking"}

\* Rows and requests name files that were given a name.
Named ==
  /\ \A p \in Patron : patron[p] \in used \cup {Null, Absent, Gone}
  /\ \A r \in Request : Writes(patronRequest[r]) \/ Removes(patronRequest[r]) =>
       patronRequest[r].image \in used \cup {Null}

\* The file of a request that has yet to commit is written, and nobody else's.
Written ==
  \A r \in Request : Writes(patronRequest[r]) /\ patronRequest[r].image # Null =>
    /\ patronRequest[r].image \in files
    /\ \A p \in Patron : patron[p] # patronRequest[r].image
    /\ \A s \in Request : s # r /\ (Writes(patronRequest[s]) \/ Removes(patronRequest[s])) =>
         patronRequest[s].image # patronRequest[r].image

\* The file that a request removes was the image of no other row.
OneOwner ==
  /\ \A p, q \in Patron : p # q /\ patron[p] \in File => patron[p] # patron[q]
  /\ \A r \in Request : Removes(patronRequest[r]) /\ patronRequest[r].image # Null =>
       \A p \in Patron : p # patronRequest[r].id => patron[p] # patronRequest[r].image

\* A file is removed after its row.
GoneFirst == \A r \in Request : patronRequest[r].pc = "unlinking" =>
    patron[patronRequest[r].id] = Gone

\* Who removes or changes a row has read it.
WasThere ==
  \A r \in Request : Removes(patronRequest[r]) \/ patronRequest[r].pc \in {"uploading",
    "updating"} =>
    patron[patronRequest[r].id] # Absent

\* A row that is inserted has an id of its own.
NewId == \A r \in Request : patronRequest[r].pc = "inserting" =>
    patron[patronRequest[r].id] = Absent

\* So have two of them.
OneInsert ==
  \A r, s \in Request :
    r # s /\ patronRequest[r].pc = "inserting" /\ patronRequest[s].pc = "inserting" =>
      patronRequest[r].id # patronRequest[s].id

WallInv ==
  Wall!TypeOK /\ Named /\ Written /\ OneOwner /\ GoneFirst /\ WasThere /\ NewId /\ OneInsert
    /\ Wall!ImageExists

-----------------------------------------------------------------------------
LEMMA WallInit ==
  ASSUME Wall!PatronsAssumption, Wall!Init
  PROVE  WallInv
<1>1. Wall!TypeOK
  BY DEF Wall!Init, Wall!TypeOK
<1>2. Named /\ Written /\ OneOwner /\ GoneFirst /\ WasThere /\ NewId /\ OneInsert
        /\ Wall!ImageExists
  BY DEF Wall!PatronsAssumption, Wall!Init, Wall!Idle, Writes, Removes, Named, Written,
         OneOwner, GoneFirst,
         WasThere, NewId, OneInsert, Wall!ImageExists, Wall!There
<1> QED  BY <1>1, <1>2 DEF WallInv

\* The two shapes of a request.
LEMMA WallShape ==
  ASSUME Wall!TypeOK, NEW r \in Request
  PROVE  /\ Writes(patronRequest[r]) => patronRequest[r] \in Wall!Saving
         /\ patronRequest[r].pc = "uploading" => patronRequest[r] \in Wall!Saving
         /\ Removes(patronRequest[r]) => patronRequest[r] \in Wall!Deleting
BY DEF Wall!TypeOK, Wall!Idle, Wall!Saving, Wall!Deleting, Writes, Removes

LEMMA WallIds ==
  ASSUME Wall!TypeOK, NEW r \in Request, patronRequest[r].pc # "idle"
  PROVE  patronRequest[r].id \in Patron
BY DEF Wall!TypeOK, Wall!Idle, Wall!Saving, Wall!Deleting

\* A request ends or reads a row: nothing is stored.
LEMMA WallReads ==
  ASSUME Wall!PatronsAssumption, WallInv, NEW r \in Request, NEW h, Wall!Becomes(r, h),
         \/ h = Wall!Idle
         \/ \E p \in Patron : Wall!There(p) /\ h = [pc |-> "uploading", id |-> p, image |-> Null]
         \/ \E p \in Patron : Wall!There(p) /\ h = [pc |-> "deleting", id |-> p,
              image |-> patron[p]],
         UNCHANGED <<patron, files, used>>
  PROVE  WallInv'
<1>1. h \in {Wall!Idle} \cup Wall!Saving \cup Wall!Deleting
  BY DEF WallInv, Wall!TypeOK, Wall!There, Wall!Saving, Wall!Deleting
<1>2. Wall!TypeOK'
  BY <1>1 DEF WallInv, Wall!TypeOK, Wall!Becomes
<1>3. \A s \in Request : patronRequest'[s] = IF s = r THEN h ELSE patronRequest[s]
  BY DEF WallInv, Wall!TypeOK, Wall!Becomes
<1>4. ~Writes(h) /\ h.pc # "inserting" /\ h.pc # "unlinking" /\ h.pc # "updating"
  BY DEF Writes, Wall!Idle
<1>5. Removes(h) => h.id \in Patron /\ Wall!There(h.id) /\ h.image = patron[h.id]
  BY DEF Removes, Wall!Idle
<1>11. Removes(h) \/ h.pc = "uploading" => patron[h.id] # Absent
  BY DEF Removes, Wall!Idle, Wall!There
<1>6. Named'
  BY <1>3, <1>4, <1>5 DEF WallInv, Named, Wall!There
<1>7. Written'
  BY <1>3, <1>4, <1>5 DEF WallInv, Written
<1>8. OneOwner'
  <2>1. patron[h.id] \in File \cup {Null} \/ ~Removes(h)
    BY <1>5 DEF WallInv, Wall!TypeOK, Wall!There
  <2> QED  BY <1>3, <1>5, <2>1 DEF WallInv, OneOwner
<1>9. GoneFirst' /\ WasThere' /\ NewId' /\ OneInsert'
  BY <1>3, <1>4, <1>11 DEF WallInv, GoneFirst, WasThere, NewId, OneInsert
<1>10. Wall!ImageExists'
  BY DEF WallInv, Wall!ImageExists, Wall!Readable, Wall!There
<1> QED  BY <1>2, <1>6, <1>7, <1>8, <1>9, <1>10 DEF WallInv

\* _upload_patron_image
LEMMA WallUploads ==
  ASSUME Wall!PatronsAssumption, WallInv, NEW r \in Request, NEW p \in Patron,
         NEW next \in {"inserting", "updating"}, Wall!Uploads(r, p, next), UNCHANGED patron,
         next = "inserting" =>
           patron[p] = Absent /\ \A s \in Request : patronRequest[s].pc = "inserting" =>
             patronRequest[s].id # p,
         next = "updating" => patron[p] # Absent
  PROVE  WallInv'
<1>1. PICK f, h :
        /\ f \in File \cup {Null} /\ Wall!Becomes(r, h)
        /\ h \in {Wall!Idle, [pc |-> next, id |-> p, image |-> f]}
        /\ f = Null => used' = used /\ files' = files
        /\ f # Null => f \notin used /\ used' = used \cup {f} /\ files' \in {files, files
             \cup {f}}
        /\ h # Wall!Idle /\ f # Null => f \in files'
  BY DEF Wall!Uploads, Wall!PatronsAssumption
<1>2. h \in {Wall!Idle} \cup Wall!Saving
  BY <1>1 DEF Wall!Saving
<1>3. Wall!TypeOK'
  BY <1>1, <1>2 DEF WallInv, Wall!TypeOK, Wall!Becomes
<1>4. \A s \in Request : patronRequest'[s] = IF s = r THEN h ELSE patronRequest[s]
  BY <1>1 DEF WallInv, Wall!TypeOK, Wall!Becomes
<1>5. /\ ~Removes(h) /\ h.pc # "unlinking"
      /\ Writes(h) => h # Wall!Idle /\ h.id = p /\ h.image = f /\ h.pc = next
      /\ h.pc = "inserting" => next = "inserting" /\ h.id = p
      /\ h.pc # "uploading" /\ (h.pc = "updating" => next = "updating" /\ h.id = p)
  BY <1>1 DEF Writes, Removes, Wall!Idle
<1>6. files \subseteq files' /\ used \subseteq used'
  BY <1>1
<1>7. f # Null => /\ f \notin used /\ f \in File
                  /\ \A q \in Patron : patron[q] # f
                  /\ \A s \in Request : Writes(patronRequest[s])
                       \/ Removes(patronRequest[s]) => patronRequest[s].image # f
  BY <1>1 DEF WallInv, Named, Wall!PatronsAssumption
<1>8. Named'
  BY <1>1, <1>4, <1>5, <1>6 DEF WallInv, Named
<1>9. Written'
  <2>1. ASSUME NEW s \in Request, Writes(patronRequest'[s]), patronRequest'[s].image # Null
        PROVE  /\ patronRequest'[s].image \in files'
               /\ \A q \in Patron : patron[q] # patronRequest'[s].image
               /\ \A t \in Request : t # s /\ (Writes(patronRequest'[t])
                    \/ Removes(patronRequest'[t])) =>
                    patronRequest'[t].image # patronRequest'[s].image
    <3>1. CASE s = r
      <4>1. Writes(h) /\ patronRequest'[s].image = f /\ f # Null /\ f \in files'
        BY <1>1, <1>4, <1>5, <2>1, <3>1
      <4>2. \A t \in Request : t # s => patronRequest'[t] = patronRequest[t]
        BY <1>4, <3>1
      <4> QED  BY <1>7, <4>1, <4>2
    <3>2. CASE s # r
      <4>1. patronRequest'[s] = patronRequest[s]
        BY <1>4, <3>2
      <4>2. Writes(patronRequest[s]) /\ patronRequest[s].image # Null
        BY <2>1, <4>1
      <4>3. /\ patronRequest[s].image \in files
            /\ \A q \in Patron : patron[q] # patronRequest[s].image
            /\ \A t \in Request : t # s /\ (Writes(patronRequest[t])
                 \/ Removes(patronRequest[t])) =>
                 patronRequest[t].image # patronRequest[s].image
        BY <4>2 DEF WallInv, Written
      <4>4. Writes(h) => h.image # patronRequest[s].image
        BY <1>5, <1>7, <4>2
      <4> QED  BY <1>4, <1>5, <1>6, <4>1, <4>3, <4>4
    <3> QED  BY <3>1, <3>2
  <2> QED  BY <2>1 DEF Written, Writes, Removes
<1>10. OneOwner'
  BY <1>4, <1>5 DEF WallInv, OneOwner
<1>11. GoneFirst' /\ WasThere' /\ NewId' /\ OneInsert'
  BY <1>4, <1>5 DEF WallInv, GoneFirst, WasThere, NewId, OneInsert
<1>12. Wall!ImageExists'
  BY <1>6 DEF WallInv, Wall!ImageExists, Wall!Readable, Wall!There
<1> QED  BY <1>3, <1>8, <1>9, <1>10, <1>11, <1>12 DEF WallInv

\* The INSERT or the UPDATE of a row, with its commit.
LEMMA WallStores ==
  ASSUME Wall!PatronsAssumption, WallInv, NEW r \in Request, NEW image,
         Writes(patronRequest[r]), Wall!Becomes(r, Wall!Idle), UNCHANGED <<files, used>>,
         patron' = [patron EXCEPT ![patronRequest[r].id] = image],
         \/ image = patronRequest[r].image
         \/ image = patron[patronRequest[r].id],
         patronRequest[r].pc = "updating" /\ image # patron[patronRequest[r].id] =>
           Wall!There(patronRequest[r].id)
  PROVE  WallInv'
<1> DEFINE id == patronRequest[r].id
<1>1. /\ patronRequest[r] \in Wall!Saving /\ id \in Patron
           /\ patronRequest[r].image \in File \cup {Null}
      /\ image \in File \cup {Null, Absent, Gone}
  BY WallShape DEF WallInv, Wall!TypeOK, Wall!Saving
<1>2. Wall!TypeOK'
  BY <1>1 DEF WallInv, Wall!TypeOK, Wall!Becomes
<1>3. /\ \A s \in Request : patronRequest'[s] = IF s = r THEN Wall!Idle ELSE patronRequest[s]
      /\ \A q \in Patron : patron'[q] = IF q = id THEN image ELSE patron[q]
  BY <1>1 DEF WallInv, Wall!TypeOK, Wall!Becomes
<1>4. ~Writes(Wall!Idle) /\ ~Removes(Wall!Idle) /\ Wall!Idle.pc = "idle"
  BY DEF Writes, Removes, Wall!Idle
<1>5. image \in used \cup {Null, Absent, Gone}
  BY <1>1 DEF WallInv, Named
<1>6. Named'
  BY <1>3, <1>4, <1>5 DEF WallInv, Named
<1>7. \A s \in Request : s # r /\ (Writes(patronRequest[s]) \/ Removes(patronRequest[s])) =>
        patronRequest[s].image = Null \/ patronRequest[s].image # image \/ image = patron[id]
  BY DEF WallInv, Written
<1>8. Written'
  BY <1>1, <1>3, <1>4, <1>7 DEF WallInv, Written
<1>9. OneOwner'
  <2>1. image # patron[id] /\ image \in File => \A q \in Patron : patron[q] # image
    BY <1>1 DEF WallInv, Written, Wall!PatronsAssumption
  <2>2. \A p, q \in Patron : p # q /\ patron'[p] \in File => patron'[p] # patron'[q]
    BY <1>1, <1>3, <2>1 DEF WallInv, OneOwner
  <2>3. \A s \in Request : Removes(patronRequest'[s]) /\ patronRequest'[s].image # Null =>
          \A p \in Patron : p # patronRequest'[s].id => patron'[p] # patronRequest'[s].image
    BY <1>1, <1>3, <1>4, <1>7 DEF WallInv, OneOwner
  <2> QED  BY <2>2, <2>3 DEF OneOwner, Removes
<1>10. patron[id] = image \/ patron[id] # Gone
  BY <1>1 DEF WallInv, NewId, Writes, Wall!There, Wall!PatronsAssumption
<1>15. image = Absent => patron[id] = Absent
  BY <1>1 DEF Wall!PatronsAssumption
<1>16. \A s \in Request : patronRequest[s].pc # "idle" => patronRequest[s].id \in Patron
  BY WallIds DEF WallInv
<1>11. GoneFirst' /\ WasThere'
  BY <1>3, <1>4, <1>10, <1>15, <1>16 DEF Removes, WallInv, GoneFirst, WasThere
<1>12. \A s \in Request : s # r /\ patronRequest[s].pc = "inserting"
         /\ patronRequest[s].id = id =>
         patron'[id] = Absent
  BY <1>1, <1>3 DEF WallInv, NewId, OneInsert, Writes, Wall!There
<1>13. NewId' /\ OneInsert'
  BY <1>3, <1>4, <1>12 DEF WallInv, NewId, OneInsert
<1>14. Wall!ImageExists'
  <2>1. image \in File => image \in files \/ image = patron[id]
    BY DEF WallInv, Written, Wall!PatronsAssumption
  <2> QED  BY <1>1, <1>3, <2>1 DEF WallInv, Wall!ImageExists, Wall!Readable, Wall!There,
                                   Wall!TypeOK
<1> QED  BY <1>2, <1>6, <1>8, <1>9, <1>11, <1>13, <1>14 DEF WallInv

\* The row goes.
LEMMA WallDeleteCommits ==
  ASSUME Wall!PatronsAssumption, WallInv, NEW r \in Request, Wall!DeleteCommits(r)
  PROVE  WallInv'
<1> DEFINE id == patronRequest[r].id
           h == [patronRequest[r] EXCEPT !.pc = "unlinking"]
<1>1. /\ patron' = [patron EXCEPT ![id] = Gone] /\ Wall!Becomes(r, h) /\ UNCHANGED <<files, used>>
      /\ patronRequest[r].pc = "deleting"
  BY DEF Wall!DeleteCommits
<1>2. patronRequest[r] \in Wall!Deleting
  BY <1>1, WallShape DEF WallInv, Removes
<1>3. /\ h \in Wall!Deleting /\ h.pc = "unlinking" /\ h.id = id
           /\ h.image = patronRequest[r].image
      /\ id \in Patron
  BY <1>2 DEF Wall!Deleting
<1> HIDE DEF h
<1>4. Wall!TypeOK'
  BY <1>1, <1>3 DEF WallInv, Wall!TypeOK, Wall!Becomes
<1>5. /\ \A s \in Request : patronRequest'[s] = IF s = r THEN h ELSE patronRequest[s]
      /\ \A q \in Patron : patron'[q] = IF q = id THEN Gone ELSE patron[q]
  BY <1>1, <1>3 DEF WallInv, Wall!TypeOK, Wall!Becomes
<1>6. ~Writes(h) /\ Removes(h) /\ Removes(patronRequest[r])
  BY <1>1, <1>3 DEF Writes, Removes
<1>7. Named'
  BY <1>1, <1>3, <1>5, <1>6 DEF WallInv, Named
<1>8. \A s \in Request : Writes(patronRequest[s]) \/ Removes(patronRequest[s]) =>
        patronRequest[s].image # Gone
  BY WallShape DEF WallInv, Wall!Saving, Wall!Deleting, Wall!PatronsAssumption
<1>9. Written'
  BY <1>1, <1>3, <1>5, <1>6, <1>8 DEF WallInv, Written
<1>10. OneOwner'
  BY <1>3, <1>5, <1>6, <1>8 DEF WallInv, OneOwner, Wall!PatronsAssumption
<1>15. \A s \in Request : patronRequest[s].pc # "idle" => patronRequest[s].id \in Patron
  BY WallIds DEF WallInv
<1>11. GoneFirst' /\ WasThere'
  BY <1>3, <1>5, <1>6, <1>15 DEF Removes, WallInv, GoneFirst, WasThere, Wall!PatronsAssumption
<1>12. NewId'
  <2>1. patron[id] # Absent
    BY <1>6 DEF WallInv, WasThere
  <2> QED  BY <1>3, <1>5, <1>15, <2>1 DEF WallInv, NewId
<1>13. OneInsert'
  BY <1>3, <1>5 DEF WallInv, OneInsert
<1>14. Wall!ImageExists'
  BY <1>1, <1>5 DEF WallInv, Wall!ImageExists, Wall!Readable, Wall!There
<1> QED  BY <1>4, <1>7, <1>9, <1>10, <1>11, <1>12, <1>13, <1>14 DEF WallInv

\* The file goes.
LEMMA WallUnlinks ==
  ASSUME Wall!PatronsAssumption, WallInv, NEW r \in Request, Wall!Unlinks(r)
  PROVE  WallInv'
<1> DEFINE f == patronRequest[r].image
<1>1. /\ files' = files \ {f} /\ Wall!Becomes(r, Wall!Idle) /\ UNCHANGED <<patron, used>>
      /\ patronRequest[r].pc = "unlinking" /\ Removes(patronRequest[r])
  BY DEF Wall!Unlinks, Wall!MayUnlink, Removes
<1>2. patronRequest[r] \in Wall!Deleting
  BY <1>1, WallShape DEF WallInv
<1>3. Wall!TypeOK'
  BY <1>1 DEF WallInv, Wall!TypeOK, Wall!Becomes
<1>4. \A s \in Request : patronRequest'[s] = IF s = r THEN Wall!Idle ELSE patronRequest[s]
  BY <1>1 DEF WallInv, Wall!TypeOK, Wall!Becomes
<1>5. ~Writes(Wall!Idle) /\ ~Removes(Wall!Idle) /\ Wall!Idle.pc = "idle"
  BY DEF Writes, Removes, Wall!Idle
<1>6. Named' /\ OneOwner' /\ GoneFirst' /\ WasThere' /\ NewId' /\ OneInsert'
  BY <1>1, <1>4, <1>5 DEF WallInv, Named, OneOwner, GoneFirst, WasThere, NewId, OneInsert
<1>7. \A s \in Request : Writes(patronRequest[s]) /\ patronRequest[s].image # Null =>
        patronRequest[s].image # f
  BY <1>1 DEF WallInv, Written, Writes, Removes
<1>8. Written'
  BY <1>1, <1>4, <1>5, <1>7 DEF WallInv, Written
<1>9. \A p \in Patron : Wall!There(p) /\ patron[p] # Null => patron[p] # f
  BY <1>1, <1>2 DEF WallInv, OneOwner, GoneFirst, Wall!There, Wall!Deleting
<1>10. Wall!ImageExists'
  BY <1>1, <1>9 DEF WallInv, Wall!ImageExists, Wall!Readable, Wall!There
<1> QED  BY <1>3, <1>6, <1>8, <1>10 DEF WallInv

LEMMA WallNext ==
  ASSUME Wall!PatronsAssumption, WallInv, [Wall!Next]_(Wall!vars)
  PROVE  WallInv'
<1>1. CASE UNCHANGED Wall!vars
  BY <1>1 DEF Wall!vars, WallInv, Wall!TypeOK, Named, Written, OneOwner, GoneFirst, WasThere,
              NewId, OneInsert,
              Wall!ImageExists, Wall!Readable, Wall!There
<1>2. CASE Wall!Next
  <2>1. PICK r \in Request :
          \/ \E p \in Patron : Wall!CreateUploads(r, p) \/ Wall!UpdateLoads(r, p)
               \/ Wall!DeleteLoads(r, p)
          \/ Wall!CreateCommits(r) \/ Wall!UpdateUploads(r) \/ Wall!UpdateCommits(r)
          \/ Wall!DeleteCommits(r) \/ Wall!Unlinks(r)
          \/ Wall!Rollback(r)
    BY <1>2 DEF Wall!Next
  <2>2. ASSUME NEW p \in Patron, Wall!CreateUploads(r, p)
        PROVE  WallInv'
    <3>1. \A s \in Request : patronRequest[s].pc = "inserting" => patronRequest[s].id # p
      BY <2>2 DEF Wall!CreateUploads, Wall!Idle
    <3> QED  BY <2>2, <3>1, WallUploads DEF Wall!CreateUploads
  <2>3. ASSUME NEW p \in Patron, Wall!UpdateLoads(r, p) \/ Wall!DeleteLoads(r, p)
        PROVE  WallInv'
    <3>1. CASE Wall!UpdateLoads(r, p)
      <4> DEFINE h == [pc |-> "uploading", id |-> p, image |-> Null]
      <4>1. Wall!There(p) /\ Wall!Becomes(r, h) /\ UNCHANGED <<patron, files, used>>
        BY <3>1 DEF Wall!UpdateLoads
      <4> QED  BY <4>1, WallReads
    <3>2. CASE Wall!DeleteLoads(r, p)
      <4> DEFINE h == [pc |-> "deleting", id |-> p, image |-> patron[p]]
      <4>1. Wall!There(p) /\ Wall!Becomes(r, h) /\ UNCHANGED <<patron, files, used>>
        BY <3>2 DEF Wall!DeleteLoads
      <4> QED  BY <4>1, WallReads
    <3> QED  BY <2>3, <3>1, <3>2
  <2>4. CASE Wall!CreateCommits(r)
    <3>1. /\ patronRequest[r].pc = "inserting" /\ Wall!Becomes(r, Wall!Idle)
               /\ UNCHANGED <<files, used>>
          /\ patron' = [patron EXCEPT ![patronRequest[r].id] = patronRequest[r].image]
      BY <2>4 DEF Wall!CreateCommits
    <3>2. Writes(patronRequest[r]) /\ patronRequest[r].pc # "updating"
      BY <3>1 DEF Writes
    <3> QED  BY <3>1, <3>2, WallStores
  <2>5. CASE Wall!UpdateUploads(r)
    <3>1. patronRequest[r].id \in Patron
      BY <2>5, WallShape DEF Wall!UpdateUploads, WallInv, Wall!Saving
    <3>2. patron[patronRequest[r].id] # Absent
      BY <2>5 DEF Wall!UpdateUploads, WallInv, WasThere
    <3> QED  BY <2>5, <3>1, <3>2, WallUploads DEF Wall!UpdateUploads
  <2>6. CASE Wall!UpdateCommits(r)
    <3> DEFINE image == Wall!Updated(patronRequest[r])
    <3>1. /\ patronRequest[r].pc = "updating" /\ Wall!Becomes(r, Wall!Idle)
               /\ UNCHANGED <<files, used>>
          /\ patron' = [patron EXCEPT ![patronRequest[r].id] = image]
      BY <2>6 DEF Wall!UpdateCommits
    <3>2. Writes(patronRequest[r])
      BY <3>1 DEF Writes
    <3>3. /\ image = patronRequest[r].image \/ image = patron[patronRequest[r].id]
          /\ image # patron[patronRequest[r].id] => Wall!There(patronRequest[r].id)
      BY DEF Wall!Updated
    <3> HIDE DEF image
    <3> QED  BY <3>1, <3>2, <3>3, WallStores
  <2>7. CASE Wall!Rollback(r)
    BY <2>7, WallReads DEF Wall!Rollback
  <2> QED  BY <2>1, <2>2, <2>3, <2>4, <2>5, <2>6, <2>7, WallDeleteCommits, WallUnlinks
<1> QED  BY <1>1, <1>2

-----------------------------------------------------------------------------
\* Rows, files and the requests between them fit together.
THEOREM WallInvariance ==
  ASSUME Wall!PatronsAssumption
  PROVE  Wall!Spec => []WallInv
<1>1. Wall!Init => WallInv
  BY WallInit
<1>2. WallInv /\ [Wall!Next]_(Wall!vars) => WallInv'
  BY WallNext
<1> QED  BY <1>1, <1>2, PTL DEF Wall!Spec

\* The image that a row names can be read (get_patron_image, core/file.py).
THEOREM ImagesExist ==
  ASSUME Wall!PatronsAssumption
  PROVE  Wall!Spec => []ImageExists
<1>1. WallInv => ImageExists
  BY DEF WallInv, ImageExists
<1> QED  BY <1>1, WallInvariance, PTL

-----------------------------------------------------------------------------
(***************************************************************************)
(* Door: check-in, profiles and settlement leave each other's columns      *)
(* alone.                                                                  *)
(*                                                                         *)
(* A handler writes the columns that it changed (OwnColumns).  A desk that *)
(* shares its process with all others knows the columns it compares        *)
(* (DeskKnows), and a form the place it was saved with (FormKnows).        *)
(***************************************************************************)

\* Each handler changes its own columns; nobody changes the participant type.
OwnColumns ==
  \A r \in Request : rowRequest[r] # Door!Idle =>
    LET h == rowRequest[r]
    IN /\ h.row.participant_type = h.was.participant_type
       /\ h.pc = "desk" => h.row.country = h.was.country /\ h.row.state = h.was.state
       /\ h.pc = "form" => /\ h.row.attended = h.was.attended
                           /\ h.row.updated_by = h.was.updated_by
                           /\ Door!ValidLocation(h.row.country, h.row.state)

\* Where one process serves all requests, a desk knows the row.
DeskKnows ==
  (\A q, r \in Request : process[q] = process[r]) =>
    \A r \in Request : rowRequest[r].pc = "desk" =>
      rowRequest[r].was.attended = user.attended

\* While no two saves overlapped, one at most is in progress and knows the
\* place of the user.
FormKnows ==
  ~savesOverlapped =>
    /\ \A q, r \in Request : rowRequest[q].pc = "form" /\ rowRequest[r].pc = "form" => q = r
    /\ \A r \in Request : rowRequest[r].pc = "form" =>
         rowRequest[r].was.country = user.country /\ rowRequest[r].was.state = user.state

DoorInv == Door!TypeOK /\ OwnColumns /\ DeskKnows /\ FormKnows /\ Door!UserRowIsWhole

Columns == {"participant_type", "country", "state", "attended", "updated_by"}

LEMMA DoorFlushed ==
  ASSUME user \in Door!Row, NEW h \in Door!Writing
  PROVE  /\ Door!Flushed(h) \in Door!Row
         /\ \A c \in Columns :
              Door!Flushed(h)[c] = IF h.row[c] # h.was[c] \/ (c = "updated_by" /\ h.pc = "desk")
                                   THEN h.row[c] ELSE user[c]
<1>1. /\ DOMAIN user = Columns
      /\ user = [c \in Columns |-> user[c]]
      /\ user.participant_type \in Kind /\ user.country \in Land
      /\ user.state \in Province \cup {Null} /\ user.attended \in BOOLEAN
      /\ user.updated_by \in Clerk \cup {Null}
  BY DEF Door!Row, Columns
<1>2. /\ h.row.participant_type \in Kind /\ h.row.country \in Land
      /\ h.row.state \in Province \cup {Null} /\ h.row.attended \in BOOLEAN
      /\ h.row.updated_by \in Clerk \cup {Null}
  BY DEF Door!Row, Door!Writing
<1> DEFINE f == Door!Flushed(h)
<1>3. /\ DOMAIN f = Columns
      /\ f = [c \in Columns |-> f[c]]
      /\ \A c \in Columns :
           f[c] = IF h.row[c] # h.was[c] \/ (c = "updated_by" /\ h.pc = "desk")
                  THEN h.row[c] ELSE user[c]
  BY <1>1 DEF Door!Flushed
<1> HIDE DEF f
<1>4. /\ f.participant_type \in Kind /\ f.country \in Land
      /\ f.state \in Province \cup {Null} /\ f.attended \in BOOLEAN
      /\ f.updated_by \in Clerk \cup {Null}
  BY <1>1, <1>2, <1>3 DEF Columns
<1>5. f \in Door!Row
  BY <1>3, <1>4 DEF Door!Row, Columns
<1> QED  BY <1>3, <1>5 DEF f

LEMMA DoorInit ==
  ASSUME Door!Init
  PROVE  DoorInv
<1>1. PICK c \in Land :
        user = [participant_type |-> settled, country |-> c, state |-> Null,
                attended |-> FALSE, updated_by |-> Null]
  BY DEF Door!Init
<1>2. user \in Door!Row /\ last \in Door!Record
  BY <1>1 DEF Door!Init, Door!Row, Door!Record
<1>3. rowRequest \in [Request -> {Door!Idle}]
  BY DEF Door!Init
<1>4. Door!TypeOK
  BY <1>2, <1>3 DEF Door!Init, Door!TypeOK
<1>5. OwnColumns /\ DeskKnows /\ FormKnows
  BY <1>3 DEF OwnColumns, DeskKnows, FormKnows, Door!Idle
<1>6. Door!UserRowIsWhole
  BY <1>1 DEF Door!Init, Door!UserRowIsWhole, Door!TypeIsKept, Door!DeskOnRecord,
              Door!LocationMatches
<1> QED  BY <1>4, <1>5, <1>6 DEF DoorInv

\* The SELECT of a handler, which sets the columns of its own.
LEMMA DoorLoads ==
  ASSUME DoorInv, NEW r \in Request, NEW pc \in {"desk", "form"}, NEW row \in Door!Row,
         Door!Loads(r, pc, row),
         row.participant_type = user.participant_type,
         pc = "desk" => row.country = user.country /\ row.state = user.state
                        /\ savesOverlapped' = savesOverlapped,
         pc = "form" => /\ row.attended = user.attended /\ row.updated_by = user.updated_by
                        /\ Door!ValidLocation(row.country, row.state)
                        /\ savesOverlapped' = (savesOverlapped \/ \E q \in Request :
                             rowRequest[q].pc = "form")
  PROVE  DoorInv'
<1> USE DEF DoorInv
<1> DEFINE h == [pc |-> pc, was |-> user, row |-> row]
<1>1. /\ rowRequest' = [rowRequest EXCEPT ![r] = h] /\ user' = user /\ last' = last
      /\ process' = process /\ paid' = paid /\ settled' = settled
  BY DEF Door!Loads
<1>2. h \in Door!Writing /\ h.pc = pc /\ h.was = user /\ h.row = row
  BY DEF Door!TypeOK, Door!Writing
<1> HIDE DEF h
<1>3. rowRequest'[r] = h /\ \A q \in Request \ {r} : rowRequest'[q] = rowRequest[q]
  BY <1>1 DEF Door!TypeOK
<1>4. savesOverlapped' \in BOOLEAN /\ (savesOverlapped => savesOverlapped')
  BY DEF Door!TypeOK
<1>5. Door!TypeOK'
  BY <1>1, <1>2, <1>4 DEF Door!TypeOK
<1>6. OwnColumns'
  BY <1>2, <1>3 DEF OwnColumns, Door!ValidLocation
<1>7. DeskKnows'
  BY <1>1, <1>2, <1>3 DEF DeskKnows
<1>8. FormKnows'
  BY <1>1, <1>2, <1>3, <1>4 DEF FormKnows
<1>9. Door!UserRowIsWhole'
  BY <1>1, <1>4 DEF Door!UserRowIsWhole, Door!TypeIsKept, Door!DeskOnRecord,
                    Door!LocationMatches
<1> QED  BY <1>5, <1>6, <1>7, <1>8, <1>9

LEMMA DoorCommits ==
  ASSUME DoorInv, NEW r \in Request, Door!Commits(r)
  PROVE  DoorInv'
<1> USE DEF DoorInv
<1> DEFINE h == rowRequest[r]
<1>1. h \in Door!Writing /\ h # Door!Idle /\ Door!LoopFree(r)
  BY DEF Door!Commits, Door!TypeOK
<1>2. /\ user' = Door!Flushed(h) /\ rowRequest' = [rowRequest EXCEPT ![r] = Door!Idle]
      /\ process' = process /\ paid' = paid /\ settled' = settled
           /\ savesOverlapped' = savesOverlapped
      /\ last' = IF h.pc = "desk"
                 THEN [attended |-> h.row.attended, updated_by |-> h.row.updated_by]
                 ELSE last
  BY DEF Door!Commits
<1>3. user' \in Door!Row
  BY <1>1, <1>2, DoorFlushed DEF Door!TypeOK
<1>4. /\ user'.participant_type = IF h.row.participant_type # h.was.participant_type
                                  THEN h.row.participant_type ELSE user.participant_type
      /\ user'.country = IF h.row.country # h.was.country THEN h.row.country ELSE user.country
      /\ user'.state = IF h.row.state # h.was.state THEN h.row.state ELSE user.state
      /\ user'.attended = IF h.row.attended # h.was.attended
                          THEN h.row.attended ELSE user.attended
      /\ user'.updated_by = IF h.row.updated_by # h.was.updated_by \/ h.pc = "desk"
                            THEN h.row.updated_by ELSE user.updated_by
  BY <1>1, <1>2, DoorFlushed DEF Door!TypeOK, Columns
<1>5. rowRequest'[r] = Door!Idle /\ \A q \in Request \ {r} : rowRequest'[q] = rowRequest[q]
  BY <1>2 DEF Door!TypeOK
<1>6. h.pc \in {"desk", "form"} /\ h.row \in Door!Row
  BY <1>1 DEF Door!Writing
<1>7. Door!TypeOK'
  <2>1. last' \in Door!Record
    BY <1>2, <1>6 DEF Door!TypeOK, Door!Record, Door!Row
  <2> QED  BY <1>2, <1>3, <2>1 DEF Door!TypeOK
<1>8. OwnColumns'
  BY <1>5 DEF OwnColumns
<1>9. DeskKnows'
  BY <1>1, <1>2, <1>5 DEF DeskKnows, Door!LoopFree, Door!Idle
<1>10. FormKnows'
  <2> SUFFICES ASSUME ~savesOverlapped, NEW q \in Request, rowRequest'[q].pc = "form"
               PROVE  /\ rowRequest'[q].was.country = user'.country
                      /\ rowRequest'[q].was.state = user'.state
                      /\ \A p \in Request : rowRequest'[p].pc = "form" => p = q
    BY <1>2 DEF FormKnows
  <2>1. q # r /\ rowRequest'[q] = rowRequest[q]
    BY <1>5 DEF Door!Idle
  <2>2. h.pc = "desk"
    BY <1>6, <2>1 DEF FormKnows
  <2>3. user'.country = user.country /\ user'.state = user.state
    BY <1>1, <1>4, <2>2 DEF OwnColumns
  <2>4. \A p \in Request : rowRequest'[p].pc = "form" => rowRequest[p].pc = "form"
    BY <1>5 DEF Door!Idle
  <2> QED  BY <2>1, <2>3, <2>4 DEF FormKnows
<1>11. Door!TypeIsKept'
  BY <1>1, <1>2, <1>4 DEF OwnColumns, Door!UserRowIsWhole, Door!TypeIsKept
<1>12. Door!DeskOnRecord'
  <2> SUFFICES ASSUME \A p, q \in Request : process[p] = process[q]
               PROVE  last' = [attended |-> user'.attended, updated_by |-> user'.updated_by]
    BY <1>2 DEF Door!DeskOnRecord
  <2>1. CASE h.pc = "desk"
    <3>1. user'.attended = h.row.attended
      BY <1>4, <2>1 DEF DeskKnows
    <3> QED  BY <1>2, <1>4, <2>1, <3>1
  <2>2. CASE h.pc = "form"
    <3>1. user'.attended = user.attended /\ user'.updated_by = user.updated_by
      BY <1>1, <1>4, <2>2 DEF OwnColumns
    <3> QED  BY <1>2, <2>2, <3>1 DEF Door!UserRowIsWhole, Door!DeskOnRecord
  <2> QED  BY <1>6, <2>1, <2>2
<1>13. Door!LocationMatches'
  <2>1. CASE h.pc = "desk"
    <3>1. user'.country = user.country /\ user'.state = user.state
      BY <1>1, <1>4, <2>1 DEF OwnColumns
    <3> QED  BY <1>2, <3>1 DEF Door!UserRowIsWhole, Door!LocationMatches
  <2>2. CASE h.pc = "form" /\ ~savesOverlapped
    <3>1. user'.country = h.row.country /\ user'.state = h.row.state
      BY <1>4, <2>2 DEF FormKnows
    <3> QED  BY <1>1, <2>2, <3>1 DEF OwnColumns, Door!ValidLocation, Door!LocationMatches
  <2> QED  BY <1>2, <1>6, <2>1, <2>2 DEF Door!LocationMatches
<1> QED
  BY <1>7, <1>8, <1>9, <1>10, <1>11, <1>12, <1>13 DEF Door!UserRowIsWhole

\* payment_webhook
LEMMA DoorSettles ==
  ASSUME DoorInv, Door!Settles
  PROVE  DoorInv'
<1> USE DEF DoorInv
<1>1. /\ user' \in Door!Row /\ user'.participant_type = settled'
      /\ user'.country = user.country /\ user'.state = user.state
      /\ user'.attended = user.attended /\ user'.updated_by = user.updated_by
      /\ rowRequest' = rowRequest /\ process' = process /\ last' = last
           /\ savesOverlapped' = savesOverlapped
  BY DEF Door!Settles, Door!TypeOK, Door!Row
<1>2. Door!TypeOK'
  BY <1>1 DEF Door!Settles, Door!TypeOK
<1>3. OwnColumns' /\ DeskKnows' /\ FormKnows'
  BY <1>1 DEF OwnColumns, DeskKnows, FormKnows
<1>4. Door!UserRowIsWhole'
  BY <1>1 DEF Door!UserRowIsWhole, Door!TypeIsKept, Door!DeskOnRecord, Door!LocationMatches
<1> QED  BY <1>2, <1>3, <1>4

LEMMA DoorRollback ==
  ASSUME DoorInv, NEW r \in Request, Door!Rollback(r)
  PROVE  DoorInv'
BY DEF DoorInv, Door!Rollback, Door!TypeOK, OwnColumns, DeskKnows, FormKnows,
       Door!UserRowIsWhole, Door!TypeIsKept,
       Door!DeskOnRecord, Door!LocationMatches, Door!Idle

LEMMA DoorNext ==
  ASSUME DoorInv, [Door!Next]_(Door!vars)
  PROVE  DoorInv'
<1>1. ASSUME NEW r \in Request, Door!CheckInLoads(r) \/ Door!ResetLoads(r)
      PROVE  DoorInv'
  <2>1. PICK s \in Clerk, b \in BOOLEAN : Door!Loads(r, "desk", Door!Attended(b, s))
               /\ savesOverlapped' = savesOverlapped
    BY <1>1 DEF Door!CheckInLoads, Door!ResetLoads
  <2> DEFINE row == Door!Attended(b, s)
  <2>2. /\ row \in Door!Row /\ row.participant_type = user.participant_type
        /\ row.country = user.country /\ row.state = user.state
    BY DEF Door!Attended, DoorInv, Door!TypeOK, Door!Row
  <2> HIDE DEF row
  <2>3. Door!Loads(r, "desk", row)
    BY <2>1 DEF row
  <2> QED  BY <2>1, <2>2, <2>3, DoorLoads
<1>2. ASSUME NEW r \in Request, Door!FormLoads(r)
      PROVE  DoorInv'
  <2>1. PICK c \in Land, s \in Province \cup {Null} :
          /\ Door!ValidLocation(c, s)
          /\ Door!Loads(r, "form", [user EXCEPT !.country = c, !.state = s])
    BY <1>2 DEF Door!FormLoads
  <2> DEFINE row == [user EXCEPT !.country = c, !.state = s]
  <2>2. /\ row \in Door!Row /\ row.participant_type = user.participant_type
        /\ row.attended = user.attended /\ row.updated_by = user.updated_by
        /\ row.country = c /\ row.state = s
    BY DEF DoorInv, Door!TypeOK, Door!Row
  <2> HIDE DEF row
  <2>3. Door!Loads(r, "form", row) /\ Door!ValidLocation(row.country, row.state)
    BY <2>1, <2>2 DEF row
  <2>4. savesOverlapped' = (savesOverlapped \/ \E q \in Request : rowRequest[q].pc = "form")
    BY <1>2 DEF Door!FormLoads
  <2> QED  BY <2>2, <2>3, <2>4, DoorLoads
<1>3. CASE UNCHANGED Door!vars
  BY <1>3 DEF Door!vars, DoorInv, Door!TypeOK, OwnColumns, DeskKnows, FormKnows,
              Door!UserRowIsWhole, Door!TypeIsKept,
              Door!DeskOnRecord, Door!LocationMatches
<1> QED  BY <1>1, <1>2, <1>3, DoorCommits, DoorSettles, DoorRollback DEF Door!Next

\* The rows of users and the requests that have loaded them fit together.
THEOREM DoorInvariance ==
  Door!Spec => []DoorInv
<1>1. Door!Init => DoorInv
  BY DoorInit
<1>2. DoorInv /\ [Door!Next]_(Door!vars) => DoorInv'
  BY DoorNext
<1> QED  BY <1>1, <1>2, PTL DEF Door!Spec

\* None of check-in, profiles and settlement takes back what another wrote
\* (repository/user.py: a flush writes the columns that changed).
THEOREM RowIsWhole ==
  Door!Spec => []UserRowIsWhole
<1>1. DoorInv => UserRowIsWhole
  BY DEF DoorInv, UserRowIsWhole
<1> QED  BY <1>1, DoorInvariance, PTL

-----------------------------------------------------------------------------
(***************************************************************************)
(* Pages: who is shown, and how often, while the list is written.          *)
(*                                                                         *)
(* A write with a new time moves its speaker behind a reader of the newest *)
(* first and before a reader of the oldest first.  So a speaker whom       *)
(* nobody touched keeps before him at least those he had (newest first),   *)
(* which brings him to a page still to come until he is shown              *)
(* (HiddenIsToCome), or at most those he had (oldest first), and is past   *)
(* once he was shown (ShownIsPast).  The pages that are counted have room  *)
(* for all rows (PagesEnough).                                             *)
(***************************************************************************)

\* Nobody who is quiet was written after the reading began.
OldTimes == Began <= now /\ \A x \in quiet : updated_at[x] <= Began

\* Oldest first: whoever was shown is before the next page.
ShownIsPast ==
  order_dir = "asc" /\ ~late =>
    \A x \in quiet :
      /\ shown[x] <= 1
      /\ shown[x] # 0 => Pages!Cardinality(Pages!Before(x)) < Pages!Offset(page)

\* Newest first: whoever was not shown is not before the next page.
HiddenIsToCome ==
  order_dir = "desc" /\ ~late /\ ~deleted =>
    \A x \in quiet : shown[x] = 0 => Pages!Offset(page) <= Pages!Cardinality(Pages!Before(x))

\* If nothing was committed, those were shown who are before the next page.
ShownSoFar ==
  quiet = Pages!There /\ ~deleted =>
    /\ ~stale
    /\ \A x \in Pages!There :
         shown[x] = IF Pages!Cardinality(Pages!Before(x)) < Pages!Offset(page) THEN 1 ELSE 0

\* Who has come to the last page has counted the rows, unless the count is stale.
LastCount ==
  /\ counted # -1 /\ ~stale => counted = Pages!Cardinality(Pages!There)
  /\ ~Pages!More =>
       /\ counted = -1
       /\ ~stale => page_count = Pages!PageCount(Pages!Cardinality(Pages!There))

PagesInv == Pages!TypeOK /\ OldTimes /\ ShownIsPast /\ HiddenIsToCome /\ ShownSoFar /\ LastCount

-----------------------------------------------------------------------------
\* Paging counts with the operators of FiniteSets.
LEMMA PagesFinite ==
  ASSUME NEW S
  PROVE  Pages!IsFiniteSet(S) <=> IsFiniteSet(S)
BY DEF Pages!IsFiniteSet, IsFiniteSet

LEMMA PagesCardinality ==
  ASSUME NEW S
  PROVE  Pages!Cardinality(S) = Cardinality(S)
BY DEF Pages!Cardinality, Cardinality

\* Who is before whom is counted by a number, and more of them by no smaller one.
LEMMA PagesCount ==
  ASSUME Pages!PagingAssumption, NEW S \in SUBSET OnList, NEW T \in SUBSET S
  PROVE  /\ Pages!Cardinality(S) \in Nat /\ Pages!Cardinality(T) \in Nat
         /\ Pages!Cardinality(T) <= Pages!Cardinality(S)
         /\ T # S => Pages!Cardinality(T) < Pages!Cardinality(S)
<1>1. IsFiniteSet(S)
  BY PagesFinite, FS_Subset DEF Pages!PagingAssumption
<1>2. IsFiniteSet(T)
  BY <1>1, FS_Subset
<1>3. Cardinality(S) \in Nat /\ Cardinality(T) \in Nat
  BY <1>1, <1>2, FS_CardinalityType
<1>4. /\ Cardinality(T) <= Cardinality(S)
      /\ Cardinality(T) = Cardinality(S) => T = S
  BY <1>1, FS_Subset
<1>5. Pages!Cardinality(S) = Cardinality(S) /\ Pages!Cardinality(T) = Cardinality(T)
  BY PagesCardinality
<1> QED  BY <1>3, <1>4, <1>5

LEMMA PagesBefore ==
  ASSUME Pages!PagingAssumption, Pages!TypeOK, NEW x \in Pages!There
  PROVE  /\ Pages!Before(x) \subseteq Pages!There /\ Pages!There \subseteq OnList
         /\ Pages!Cardinality(Pages!Before(x)) \in Nat
         /\ Pages!Cardinality(Pages!There) \in Nat
         /\ Pages!Cardinality(Pages!Before(x)) < Pages!Cardinality(Pages!There)
<1>1. Pages!Before(x) \subseteq Pages!There /\ Pages!There \subseteq OnList
  BY DEF Pages!Before, Pages!There
<1>2. x \notin Pages!Before(x) /\ updated_at[x] \in Nat
  BY DEF Pages!Before, Pages!There, Pages!TypeOK
<1>3. Pages!Before(x) # Pages!There
  BY <1>2
<1> QED  BY <1>1, <1>3, PagesCount

LEMMA PagesOffset ==
  ASSUME Pages!PagingAssumption, NEW p \in Nat \ {0}
  PROVE  Pages!Offset(p) \in Nat /\ Pages!Offset(p + 1) = Pages!Offset(p) + PageSize
           /\ PageSize \in Nat \ {0}
<1>1. PageSize \in Nat \ {0}
  BY DEF Pages!PagingAssumption
<1>2. PICK k \in Nat : p = k + 1
  <2>1. p - 1 \in Nat /\ p = (p - 1) + 1
    OBVIOUS
  <2> QED  BY <2>1
<1>3. k * PageSize \in Nat
  BY <1>1
<1>4. (k + 1) * PageSize = k * PageSize + PageSize
  BY <1>1
<1>5. Pages!Offset(p) = k * PageSize /\ Pages!Offset(p + 1) = (k + 1) * PageSize
  BY <1>2 DEF Pages!Offset
<1> QED  BY <1>1, <1>3, <1>4, <1>5

\* The pages that are counted have room for all rows.
LEMMA PagesEnough ==
  ASSUME Pages!PagingAssumption, NEW n \in Nat, NEW p \in Nat \ {0}, p > Pages!PageCount(n)
  PROVE  n <= Pages!Offset(p)
<1>1. PageSize \in Nat \ {0}
  BY DEF Pages!PagingAssumption
<1>2. CASE n = 0
  BY <1>2, PagesOffset
<1>3. CASE n # 0
  <2> DEFINE m == n + PageSize - 1
             q == m \div PageSize
  <2>1. m \in Nat
    BY <1>1
  <2> HIDE DEF m
  <2>2. q \in Nat /\ m < (q + 1) * PageSize
    BY <1>1, <2>1
  <2>3. p - 1 >= q /\ Pages!PageCount(n) = q
    BY <1>3, <2>2 DEF Pages!PageCount, m
  <2> HIDE DEF q
  <2>4. (q + 1) * PageSize = q * PageSize + PageSize
    BY <1>1, <2>2
  <2>5. q * PageSize <= (p - 1) * PageSize
    BY <1>1, <2>2, <2>3
  <2>6. q * PageSize \in Nat /\ (p - 1) * PageSize \in Nat
    BY <1>1, <2>2
  <2> QED  BY <1>1, <2>1, <2>2, <2>4, <2>5, <2>6 DEF m, Pages!Offset
<1> QED  BY <1>2, <1>3

-----------------------------------------------------------------------------
LEMMA PagesInit ==
  ASSUME Pages!PagingAssumption, Pages!Init
  PROVE  PagesInv
<1>1. Pages!TypeOK
  <2>1. /\ Pages!TimesDiffer /\ now = Began /\ now \in Nat
        /\ updated_at \in [OnList -> 0..now] /\ pending \in [OnList -> 0..now]
    BY DEF Pages!PagingAssumption, Pages!Init
  <2>2. shown \in [OnList -> Nat] /\ writes \in 0..MaxTouches
    BY DEF Pages!PagingAssumption, Pages!Init
  <2>3. page \in Nat \ {0} /\ counted = -1 /\ page_count = -1 /\ quiet \subseteq Pages!There
    BY DEF Pages!Init
  <2> QED  BY <2>1, <2>2, <2>3 DEF Pages!Init, Pages!TypeOK
<1>2. OldTimes
  BY <1>1 DEF Pages!PagingAssumption, Pages!Init, OldTimes, Pages!There, Pages!TypeOK
<1>3. Pages!Offset(page) = 0
  BY DEF Pages!PagingAssumption, Pages!Init, Pages!Offset
<1>4. \A x \in Pages!There : shown[x] = 0 /\ Pages!Cardinality(Pages!Before(x)) \in Nat
  BY <1>1, PagesBefore DEF Pages!Init, Pages!There
<1>5. ShownIsPast /\ HiddenIsToCome /\ ShownSoFar
  BY <1>3, <1>4 DEF Pages!Init, ShownIsPast, HiddenIsToCome, ShownSoFar
<1>6. LastCount
  BY DEF Pages!Init, LastCount, Pages!More
<1> QED  BY <1>1, <1>2, <1>5, <1>6 DEF PagesInv

LEMMA PagesCountsRows ==
  ASSUME Pages!PagingAssumption, PagesInv, Pages!CountsRows
  PROVE  PagesInv'
<1> USE DEF PagesInv
<1>1. Pages!Cardinality(Pages!There) \in Nat /\ Pages!There' = Pages!There /\ \A x :
        Pages!Before(x)' = Pages!Before(x)
  BY PagesCount DEF Pages!CountsRows, Pages!There, Pages!Before
<1>2. Pages!TypeOK'
  BY <1>1 DEF Pages!CountsRows, Pages!TypeOK, Pages!TimesDiffer, Pages!There
<1>3. OldTimes' /\ ShownIsPast' /\ HiddenIsToCome' /\ ShownSoFar'
  BY <1>1 DEF Pages!CountsRows, OldTimes, ShownIsPast, HiddenIsToCome, ShownSoFar, Pages!Offset
<1>4. LastCount'
  BY <1>1 DEF Pages!CountsRows, LastCount, Pages!More
<1> QED  BY <1>2, <1>3, <1>4

LEMMA PagesReadsPage ==
  ASSUME Pages!PagingAssumption, PagesInv, Pages!ReadsPage
  PROVE  PagesInv'
<1> USE DEF PagesInv
<1>1. Pages!There' = Pages!There /\ \A x \in Pages!There : Pages!Before(x)' = Pages!Before(x)
  BY DEF Pages!ReadsPage, Pages!There, Pages!Before
<1>2. /\ page \in Nat \ {0} /\ page' = page + 1 /\ counted \in Nat /\ PageSize \in Nat \ {0}
      /\ Pages!Offset(page) \in Nat
      /\ Pages!Offset(page') = Pages!Offset(page) + PageSize
  BY PagesOffset DEF Pages!ReadsPage, Pages!TypeOK
<1>3. \A x \in Pages!There :
        /\ x \in OnList /\ Pages!Cardinality(Pages!Before(x)) \in Nat /\ shown[x] \in Nat
        /\ shown'[x] = IF /\ Pages!Offset(page) <= Pages!Cardinality(Pages!Before(x))
                          /\ Pages!Cardinality(Pages!Before(x)) < Pages!Offset(page')
                       THEN shown[x] + 1 ELSE shown[x]
  BY <1>2, PagesBefore DEF Pages!ReadsPage, Pages!Results, Pages!TypeOK, Pages!There
<1>4. Pages!PageCount(counted) \in Nat
  <2>1. counted # 0 => counted + PageSize - 1 \in Nat
    BY <1>2
  <2> QED  BY <1>2, <2>1 DEF Pages!PageCount
<1>5. shown' \in [OnList -> Nat]
  BY DEF Pages!ReadsPage, Pages!TypeOK
<1>6. Pages!TypeOK'
  BY <1>1, <1>2, <1>4, <1>5 DEF Pages!ReadsPage, Pages!TypeOK, Pages!TimesDiffer
<1>7. OldTimes'
  BY DEF Pages!ReadsPage, OldTimes
<1>8. quiet' = quiet /\ quiet \subseteq Pages!There
  BY DEF Pages!ReadsPage, Pages!TypeOK
<1> DEFINE n(x) == Pages!Cardinality(Pages!Before(x))
<1>9. \A x \in Pages!There : n(x)' = n(x)
  BY <1>1
<1>10. ShownIsPast'
  BY <1>2, <1>3, <1>8, <1>9 DEF Pages!ReadsPage, ShownIsPast
<1>11. HiddenIsToCome'
  BY <1>2, <1>3, <1>8, <1>9 DEF Pages!ReadsPage, HiddenIsToCome
<1>12. ShownSoFar'
  BY <1>1, <1>2, <1>3, <1>8, <1>9 DEF Pages!ReadsPage, ShownSoFar
<1>13. LastCount'
  BY <1>1, <1>2 DEF Pages!ReadsPage, LastCount, Pages!PageCount
<1> QED  BY <1>6, <1>7, <1>10, <1>11, <1>12, <1>13

LEMMA PagesWrites ==
  ASSUME Pages!PagingAssumption, PagesInv, NEW x \in OnList, Pages!Writes(x)
  PROVE  PagesInv'
<1> USE DEF PagesInv
<1>1. Pages!There' = Pages!There /\ \A y : Pages!Before(y)' = Pages!Before(y)
  BY DEF Pages!Writes, Pages!There, Pages!Before
<1>2. /\ pending' = [pending EXCEPT ![x] = now + 1] /\ now' = now + 1 /\ now \in Nat
      /\ updated_at' = updated_at
  BY DEF Pages!Writes, Pages!TimeOfDay, Pages!TypeOK
<1>3. Pages!TimesDiffer'
  <2>1. \A y \in OnList : updated_at[y] \in 0..now /\ pending[y] \in 0..now
    BY DEF Pages!TypeOK
  <2>2. \A y \in OnList : pending'[y] = IF y = x THEN now + 1 ELSE pending[y]
    BY <1>2 DEF Pages!TypeOK
  <2> QED  BY <1>2, <2>1, <2>2 DEF Pages!TimesDiffer, Pages!TypeOK
<1>4. updated_at' \in [OnList -> 0..now'] /\ pending' \in [OnList -> 0..now']
  BY <1>2 DEF Pages!TypeOK
<1>5. writes' \in 0..MaxTouches
  BY DEF Pages!Writes, Pages!TypeOK, Pages!PagingAssumption
<1>6. Pages!TypeOK'
  BY <1>1, <1>2, <1>3, <1>4, <1>5 DEF Pages!Writes, Pages!TypeOK
<1>7. OldTimes'
  BY <1>2 DEF Pages!Writes, OldTimes, Pages!PagingAssumption
<1>8. ShownIsPast' /\ HiddenIsToCome' /\ ShownSoFar'
  BY <1>1 DEF Pages!Writes, ShownIsPast, HiddenIsToCome, ShownSoFar, Pages!Offset
<1>9. LastCount'
  BY <1>1 DEF Pages!Writes, LastCount, Pages!More, Pages!PageCount
<1> QED  BY <1>6, <1>7, <1>8, <1>9

LEMMA PagesCommits ==
  ASSUME Pages!PagingAssumption, PagesInv, NEW x \in OnList, Pages!Commits(x)
  PROVE  PagesInv'
<1> USE DEF PagesInv
<1>1. /\ updated_at' = [updated_at EXCEPT ![x] = pending[x]]
      /\ pending' = [pending EXCEPT ![x] = 0]
      /\ now' = now /\ quiet' = quiet \ {x} /\ pending[x] # 0 /\ pending[x] \in 0..now
      /\ page' = page /\ order_dir' = order_dir /\ shown' = shown
  BY DEF Pages!Commits, Pages!TypeOK
<1>2. \A y \in OnList :
        /\ updated_at'[y] = IF y = x THEN pending[x] ELSE updated_at[y]
        /\ pending'[y] = IF y = x THEN 0 ELSE pending[y]
        /\ updated_at[y] \in 0..now /\ pending[y] \in 0..now
  BY <1>1 DEF Pages!TypeOK
<1>3. /\ Pages!There' = Pages!There \cup {x}
      /\ quiet' \subseteq quiet /\ quiet \subseteq Pages!There /\ x \notin quiet'
  BY <1>1, <1>2 DEF Pages!There, Pages!TypeOK
<1>4. Pages!TimesDiffer'
  BY <1>1, <1>2 DEF Pages!TypeOK, Pages!TimesDiffer
<1>5. updated_at' \in [OnList -> 0..now'] /\ pending' \in [OnList -> 0..now']
  BY <1>1, <1>2 DEF Pages!TypeOK
<1>6. Pages!TypeOK'
  BY <1>1, <1>3, <1>4, <1>5 DEF Pages!Commits, Pages!TypeOK
<1>7. OldTimes'
  BY <1>1, <1>2, <1>3 DEF OldTimes, Pages!TypeOK, Pages!There
<1>8. ASSUME ~late', NEW y \in quiet'
      PROVE  /\ y \in Pages!There /\ y \in Pages!There'
             /\ order_dir = "asc" => Pages!Before(y)' \subseteq Pages!Before(y)
             /\ order_dir # "asc" => Pages!Before(y) \subseteq Pages!Before(y)'
  <2>1. y # x /\ y \in OnList /\ updated_at[y] <= Began
    BY <1>1, <1>3, <1>8 DEF OldTimes, Pages!There
  <2>2. Began < pending[x]
    <3>1. ~(pending[x] <= Began)
      BY <1>8 DEF Pages!Commits
    <3>2. pending[x] \in Int /\ Began \in Int
      BY <1>2 DEF Pages!PagingAssumption
    <3> QED  BY <3>1, <3>2
  <2>3. updated_at'[y] = updated_at[y] /\ updated_at[y] < pending[x]
    <3>1. updated_at'[y] = updated_at[y] /\ updated_at[y] \in Int /\ pending[x] \in Int
      BY <1>1, <1>2, <2>1
    <3>2. Began \in Int
      BY DEF Pages!PagingAssumption
    <3> QED  BY <2>2, <2>1, <3>1, <3>2
  <2>4. ASSUME order_dir = "asc", NEW z \in Pages!Before(y)'
        PROVE  z \in Pages!Before(y)
    <3>1. z \in OnList /\ updated_at'[z] # 0 /\ updated_at'[z] < updated_at'[y]
      BY <1>1, <2>4 DEF Pages!Before, Pages!There
    <3>2. z # x
      BY <1>1, <1>2, <2>1, <2>3, <3>1
    <3> QED  BY <1>2, <2>3, <2>4, <3>1, <3>2 DEF Pages!Before, Pages!There
  <2>5. ASSUME order_dir # "asc", NEW z \in Pages!Before(y)
        PROVE  z \in Pages!Before(y)'
    <3>1. z \in OnList /\ updated_at[z] # 0 /\ updated_at[z] > updated_at[y]
      BY <2>5 DEF Pages!Before, Pages!There
    <3>2. updated_at'[z] # 0 /\ updated_at'[z] > updated_at'[y]
      BY <1>1, <1>2, <2>1, <2>3, <3>1
    <3> QED  BY <1>1, <2>5, <3>1, <3>2 DEF Pages!Before, Pages!There
  <2> QED  BY <1>3, <1>8, <2>4, <2>5
<1>9. \A y \in Pages!There' : Pages!Before(y)' \in SUBSET OnList
  BY DEF Pages!Before, Pages!There
<1>10. \A y \in Pages!There : Pages!Before(y) \in SUBSET OnList
  BY DEF Pages!Before, Pages!There
<1>11. Pages!Offset(page) \in Nat /\ Pages!Offset(page)' = Pages!Offset(page)
  BY <1>1, PagesOffset DEF Pages!TypeOK, Pages!Offset
<1>12. ShownIsPast'
  <2> SUFFICES ASSUME order_dir = "asc", ~late', NEW y \in quiet'
               PROVE  /\ shown[y] <= 1
                      /\ shown[y] # 0 => Pages!Cardinality(Pages!Before(y)') < Pages!Offset(page)
    BY <1>1, <1>11 DEF ShownIsPast
  <2>1. Pages!Before(y)' \in SUBSET Pages!Before(y) /\ Pages!Before(y) \in SUBSET OnList
          /\ y \in quiet
    BY <1>3, <1>8, <1>10
  <2>2. /\ Pages!Cardinality(Pages!Before(y)') <= Pages!Cardinality(Pages!Before(y))
        /\ Pages!Cardinality(Pages!Before(y)') \in Nat
             /\ Pages!Cardinality(Pages!Before(y)) \in Nat
    BY <2>1, PagesCount
  <2>3. ~late
    BY DEF Pages!Commits
  <2> QED  BY <1>11, <2>1, <2>2, <2>3 DEF ShownIsPast
<1>13. HiddenIsToCome'
  <2> SUFFICES ASSUME order_dir = "desc", ~late', ~deleted, NEW y \in quiet', shown[y] = 0
               PROVE  Pages!Offset(page) <= Pages!Cardinality(Pages!Before(y)')
    BY <1>1, <1>11 DEF HiddenIsToCome, Pages!Commits
  <2>1. Pages!Before(y) \in SUBSET Pages!Before(y)' /\ Pages!Before(y)' \in SUBSET OnList
          /\ y \in quiet
    BY <1>3, <1>8, <1>9
  <2>2. /\ Pages!Cardinality(Pages!Before(y)) <= Pages!Cardinality(Pages!Before(y)')
        /\ Pages!Cardinality(Pages!Before(y)') \in Nat
             /\ Pages!Cardinality(Pages!Before(y)) \in Nat
    BY <2>1, PagesCount
  <2>3. ~late
    BY DEF Pages!Commits
  <2> QED  BY <1>11, <2>1, <2>2, <2>3 DEF HiddenIsToCome
<1>14. ShownSoFar'
  BY <1>3 DEF ShownSoFar
<1>15. LastCount'
  BY DEF Pages!Commits, LastCount, Pages!Reading, Pages!More
<1> QED  BY <1>6, <1>7, <1>12, <1>13, <1>14, <1>15

LEMMA PagesDeletes ==
  ASSUME Pages!PagingAssumption, PagesInv, NEW x \in OnList, Pages!Deletes(x)
  PROVE  PagesInv'
<1> USE DEF PagesInv
<1>1. /\ updated_at' = [updated_at EXCEPT ![x] = 0] /\ pending' = [pending EXCEPT ![x] = 0]
      /\ now' = now /\ quiet' = quiet \ {x} /\ late' = late /\ deleted'
      /\ page' = page /\ order_dir' = order_dir /\ shown' = shown
  BY DEF Pages!Deletes
<1>2. \A y \in OnList :
        /\ updated_at'[y] = IF y = x THEN 0 ELSE updated_at[y]
        /\ pending'[y] = IF y = x THEN 0 ELSE pending[y]
        /\ updated_at[y] \in 0..now /\ pending[y] \in 0..now
  BY <1>1 DEF Pages!TypeOK
<1>3. /\ Pages!There' = Pages!There \ {x}
      /\ quiet' \subseteq quiet /\ quiet \subseteq Pages!There /\ x \notin quiet'
  BY <1>1, <1>2 DEF Pages!There, Pages!TypeOK
<1>4. Pages!TimesDiffer'
  BY <1>1, <1>2 DEF Pages!TypeOK, Pages!TimesDiffer
<1>5. updated_at' \in [OnList -> 0..now'] /\ pending' \in [OnList -> 0..now']
  BY <1>1, <1>2 DEF Pages!TypeOK
<1>6. Pages!TypeOK'
  BY <1>1, <1>3, <1>4, <1>5 DEF Pages!Deletes, Pages!TypeOK, Pages!PagingAssumption
<1>7. OldTimes'
  BY <1>1, <1>2, <1>3 DEF OldTimes, Pages!TypeOK, Pages!There
<1>8. ShownIsPast'
  <2> SUFFICES ASSUME order_dir = "asc", ~late, NEW y \in quiet'
               PROVE  /\ shown[y] <= 1
                      /\ shown[y] # 0 => Pages!Cardinality(Pages!Before(y)') < Pages!Offset(page)'
    BY <1>1 DEF ShownIsPast
  <2>1. y # x /\ y \in Pages!There /\ y \in quiet
    BY <1>3
  <2>2. Pages!Before(y)' \in SUBSET Pages!Before(y) /\ Pages!Before(y) \in SUBSET OnList
    BY <1>1, <1>2, <1>3, <2>1 DEF Pages!Before, Pages!There
  <2>3. /\ Pages!Cardinality(Pages!Before(y)') <= Pages!Cardinality(Pages!Before(y))
        /\ Pages!Cardinality(Pages!Before(y)') \in Nat
             /\ Pages!Cardinality(Pages!Before(y)) \in Nat
    BY <2>2, PagesCount
  <2>4. Pages!Offset(page) \in Nat /\ Pages!Offset(page)' = Pages!Offset(page)
    BY <1>1, PagesOffset DEF Pages!TypeOK, Pages!Offset
  <2> QED  BY <2>1, <2>3, <2>4 DEF ShownIsPast
<1>9. HiddenIsToCome' /\ ShownSoFar'
  BY <1>1 DEF HiddenIsToCome, ShownSoFar
<1>10. LastCount'
  BY DEF Pages!Deletes, LastCount, Pages!Reading, Pages!More
<1> QED  BY <1>6, <1>7, <1>8, <1>9, <1>10

LEMMA PagesNext ==
  ASSUME Pages!PagingAssumption, PagesInv, [Pages!Next]_(Pages!vars)
  PROVE  PagesInv'
<1>1. CASE UNCHANGED Pages!vars
  <2>1. Pages!There' = Pages!There /\ \A y : Pages!Before(y)' = Pages!Before(y)
    BY <1>1 DEF Pages!vars, Pages!There, Pages!Before
  <2> QED  
    BY <1>1, <2>1 DEF Pages!vars, PagesInv, Pages!TypeOK, Pages!TimesDiffer, OldTimes,
                      ShownIsPast, HiddenIsToCome,
       ShownSoFar, LastCount, Pages!More, Pages!Offset, Pages!PageCount
<1> QED
  BY <1>1, PagesCountsRows, PagesReadsPage, PagesWrites, PagesCommits,
     PagesDeletes DEF Pages!Next

\* The list, the pages that were read and the writes in progress fit together.
THEOREM PagesInvariance ==
  ASSUME Pages!PagingAssumption
  PROVE  Pages!Spec => []PagesInv
<1>1. Pages!Init => PagesInv
  BY PagesInit
<1>2. PagesInv /\ [Pages!Next]_(Pages!vars) => PagesInv'
  BY PagesNext
<1> QED  BY <1>1, <1>2, PTL DEF Pages!Spec

\* Reading the newest first misses nobody whom nobody touched, reading the
\* oldest first repeats nobody, and pages that nothing was committed between
\* are the list (get_speaker_per_page_by_search).
THEOREM PagesShowTheList ==
  ASSUME Pages!PagingAssumption
  PROVE  Pages!Spec => []ListIsRead
<1>1. ASSUME PagesInv PROVE ListIsRead
  <2> USE <1>1 DEF PagesInv
  <2>1. ASSUME ~Pages!More, ~stale, NEW x \in Pages!There
        PROVE  Pages!Cardinality(Pages!Before(x)) < Pages!Offset(page) /\ x \in OnList
    <3> DEFINE n == Pages!Cardinality(Pages!There)
    <3>1. n \in Nat /\ Pages!Cardinality(Pages!Before(x)) \in Nat
            /\ Pages!Cardinality(Pages!Before(x)) < n
      BY PagesBefore
    <3>2. page \in Nat \ {0} /\ page > Pages!PageCount(n)
      BY <2>1 DEF LastCount, Pages!More, Pages!TypeOK
    <3>3. n <= Pages!Offset(page) /\ Pages!Offset(page) \in Nat
      BY <3>1, <3>2, PagesEnough, PagesOffset
    <3> QED  BY <3>1, <3>3 DEF Pages!There
  <2>2. \A x \in quiet : x \in Pages!There /\ shown[x] \in Nat
    BY DEF Pages!TypeOK, Pages!There
  <2>3. Pages!NewestFirstMissesNobody
    <3> SUFFICES ASSUME order_dir = "desc", ~Pages!More, ~deleted, ~late, ~stale, NEW x \in quiet
                 PROVE  shown[x] > 0
      BY DEF Pages!NewestFirstMissesNobody
    <3>1. /\ Pages!Cardinality(Pages!Before(x)) \in Nat /\ Pages!Offset(page) \in Nat
          /\ Pages!Cardinality(Pages!Before(x)) < Pages!Offset(page)
      BY <2>1, <2>2, PagesBefore, PagesOffset DEF Pages!TypeOK
    <3> QED  BY <2>2, <3>1 DEF HiddenIsToCome
  <2>4. Pages!OldestFirstRepeatsNobody
    BY DEF Pages!OldestFirstRepeatsNobody, ShownIsPast
  <2>5. Pages!PagesAreTheList
    BY <2>1 DEF Pages!PagesAreTheList, ShownSoFar
  <2> QED  BY <2>3, <2>4, <2>5 DEF ListIsRead, Pages!ListIsRead
<1> QED  BY <1>1, PagesInvariance, PTL

-----------------------------------------------------------------------------
(***************************************************************************)
(* Figs: the figures of one page do not contradict those of another.       *)
(*                                                                         *)
(* The watchers of both modes are the union of those of each, whose number *)
(* is at least that of each and at most their sum (FigsWatchers).  The     *)
(* sums over schedules and over places are lemmas of SumLemmas: seconds    *)
(* of the parts are those of the whole (PartsAddUp), minutes lose less     *)
(* than one for each schedule (RoundingAddsUp), and people of different    *)
(* places are different people (SizesAddUp).  That the people of a city    *)
(* are among those of its state needs the invariant: whoever lives         *)
(* somewhere lives in a city of the state and the country saved with it.   *)
(***************************************************************************)

\* Nobody has saved a place, or only one that validate_location_hierarchy
\* lets through.
PlacesNest ==
  \A u \in User :
    \/ lives[u] = [country |-> Null, state |-> Null, city |-> Null]
    \/ Figs!ValidLocation(lives[u])

\* The tables that are counted have rows of their type.
FigsInv == Figs!TypeOK /\ PlacesNest

LEMMA FigsInit ==
  ASSUME Figs!FiguresAssumption, Figs!Init
  PROVE  FigsInv
BY DEF Figs!FiguresAssumption, Figs!Init, FigsInv, Figs!TypeOK, Figs!Place, PlacesNest

LEMMA FigsTypes ==
  ASSUME Figs!FiguresAssumption, Figs!TypeOK, [Figs!Next]_(Figs!vars)
  PROVE  Figs!TypeOK'
<1>1. Figs!Counts => rows' \in 0..MaxRows
  BY DEF Figs!FiguresAssumption, Figs!Counts, Figs!TypeOK
<1>2. ASSUME NEW x \in Session, Figs!Starts(x)
      PROVE  Figs!TypeOK'
  <2>1. PICK u \in User, s \in Talk, m \in Figs!Mode :
          session' = [session EXCEPT ![x] =
            [user |-> u, schedule |-> s, mode |-> m, seconds |-> 0, qualified |-> FALSE]]
    BY <1>2 DEF Figs!Starts
  <2>2. [user |-> u, schedule |-> s, mode |-> m, seconds |-> 0, qualified |-> FALSE] \in Figs!Row
    BY DEF Figs!FiguresAssumption, Figs!Row
  <2>3. session' \in [Session -> Figs!Row \cup {Absent}]
    BY <2>1, <2>2 DEF Figs!TypeOK
  <2> QED  BY <1>1, <1>2, <2>3 DEF Figs!Starts, Figs!TypeOK
<1>3. ASSUME NEW x \in Session, Figs!Beats(x)
      PROVE  Figs!TypeOK'
  <2>1. session[x] \in Figs!Row
    BY <1>3 DEF Figs!Beats, Figs!TypeOK
  <2>2. PICK n \in 1..(MaxSeconds - session[x].seconds) :
          session' = [session EXCEPT ![x].seconds = @ + n,
                                     ![x].qualified = Figs!Qualified(session[x].seconds + n)]
    BY <1>3 DEF Figs!Beats
  <2> DEFINE q == Figs!Qualified(session[x].seconds + n)
  <2>3. q \in BOOLEAN
    BY DEF Figs!Qualified
  <2> HIDE DEF q
  <2>4. session[x].seconds + n \in 0..MaxSeconds
    BY <2>1 DEF Figs!FiguresAssumption, Figs!Row
  <2>5. [[session[x] EXCEPT !.seconds = @ + n] EXCEPT !.qualified = q] \in Figs!Row
    BY <2>1, <2>3, <2>4 DEF Figs!Row
  <2>6. session' = [session EXCEPT ![x] =
                      [[session[x] EXCEPT !.seconds = @ + n] EXCEPT !.qualified = q]]
    BY <2>2 DEF Figs!TypeOK, q
  <2>7. session' \in [Session -> Figs!Row \cup {Absent}]
    BY <2>5, <2>6 DEF Figs!TypeOK
  <2> QED  BY <1>1, <1>3, <2>7 DEF Figs!Beats, Figs!TypeOK
<1>4. ASSUME NEW p \in Payment, Figs!Buys(p)
      PROVE  Figs!TypeOK'
  <2> DEFINE Bill == [user : User, status : {"PAID", "UNPAID"}]
  <2>1. \E b \in Bill : payment' = [payment EXCEPT ![p] = b]
    <3>1. CASE /\ payment[p] = Absent
               /\ \E u \in User, s \in {"PAID", "UNPAID"} :
                    payment' = [payment EXCEPT ![p] = [user |-> u, status |-> s]]
      BY <3>1
    <3>2. CASE /\ payment[p] # Absent /\ payment[p].status = "UNPAID"
               /\ payment' = [payment EXCEPT ![p].status = "PAID"]
      <4>1. payment[p] \in Bill
        BY <3>2 DEF Figs!TypeOK
      <4>2. [payment[p] EXCEPT !.status = "PAID"] \in Bill
        BY <4>1
      <4> QED  BY <3>2, <4>2
    <3> QED  BY <1>4, <3>1, <3>2 DEF Figs!Buys
  <2>2. payment' \in [Payment -> Bill \cup {Absent}]
    BY <2>1 DEF Figs!TypeOK
  <2> QED  BY <1>1, <1>4, <2>2 DEF Figs!Buys, Figs!TypeOK
<1>5. ASSUME NEW u \in User, Figs!Saves(u)
      PROVE  Figs!TypeOK'
  <2>1. lives' \in [User -> Figs!Place]
    BY <1>5 DEF Figs!Saves, Figs!TypeOK
  <2> QED  BY <1>1, <1>5, <2>1 DEF Figs!Saves, Figs!TypeOK
<1>6. CASE UNCHANGED Figs!vars
  BY <1>6 DEF Figs!vars, Figs!TypeOK
<1> QED  BY <1>2, <1>3, <1>4, <1>5, <1>6 DEF Figs!Next

LEMMA FigsNext ==
  ASSUME Figs!FiguresAssumption, FigsInv, [Figs!Next]_(Figs!vars)
  PROVE  FigsInv'
<1>1. Figs!TypeOK'
  BY FigsTypes DEF FigsInv
<1>2. PlacesNest'
  <2>1. CASE lives' = lives
    BY <2>1 DEF FigsInv, PlacesNest, Figs!ValidLocation
  <2>2. ASSUME NEW u \in User, Figs!Saves(u)
        PROVE  PlacesNest'
    <3>1. PICK l \in Figs!Place : Figs!ValidLocation(l) /\ lives' = [lives EXCEPT ![u] = l]
      BY <2>2 DEF Figs!Saves
    <3>2. \A v \in User : lives'[v] = IF v = u THEN l ELSE lives[v]
      BY <3>1 DEF FigsInv, Figs!TypeOK
    <3> QED  BY <3>1, <3>2 DEF FigsInv, PlacesNest, Figs!ValidLocation
  <2> QED
    BY <2>1, <2>2 DEF Figs!Next, Figs!vars, Figs!Starts, Figs!Beats, Figs!Buys
<1> QED  BY <1>1, <1>2 DEF FigsInv

\* The tables that are counted have rows of their type.
THEOREM FigsInvariance ==
  ASSUME Figs!FiguresAssumption
  PROVE  Figs!Spec => []FigsInv
<1>1. Figs!Init => FigsInv
  BY FigsInit
<1>2. FigsInv /\ [Figs!Next]_(Figs!vars) => FigsInv'
  BY FigsNext
<1> QED  BY <1>1, <1>2, PTL DEF Figs!Spec

-----------------------------------------------------------------------------
\* The figures count and add with the operators of FiniteSets and Functions.
LEMMA FigsFinite ==
  ASSUME NEW S
  PROVE  Figs!IsFiniteSet(S) <=> IsFiniteSet(S)
BY DEF Figs!IsFiniteSet, IsFiniteSet

LEMMA FigsCardinality ==
  ASSUME NEW S
  PROVE  Figs!Cardinality(S) = Cardinality(S)
BY DEF Figs!Cardinality, Cardinality

LEMMA FigsSum ==
  ASSUME NEW f
  PROVE  Figs!SumFunction(f) = SumFunctionOnSet(f, DOMAIN f)
BY DEF Figs!SumFunction, Figs!SumFunctionOnSet, Figs!FoldFunctionOnSet, Figs!MapThenFoldSet,
       SumFunctionOnSet, FoldFunctionOnSet, MapThenFoldSet

LEMMA FigsTables ==
  ASSUME Figs!FiguresAssumption
  PROVE  /\ IsFiniteSet(User) /\ IsFiniteSet(Session) /\ IsFiniteSet(Talk)
         /\ IsFiniteSet(Land) /\ IsFiniteSet(Figs!States) /\ IsFiniteSet(Figs!Cities)
BY FigsFinite DEF Figs!FiguresAssumption

LEMMA FigsRows ==
  ASSUME Figs!FiguresAssumption, Figs!TypeOK, NEW x \in Figs!Rows
  PROVE  /\ x \in Session
         /\ session[x].user \in User /\ session[x].schedule \in Talk
         /\ session[x].mode \in Figs!Mode /\ session[x].seconds \in Nat
<1>1. session[x] \in Figs!Row
  BY DEF Figs!Rows, Figs!TypeOK
<1> QED  BY <1>1 DEF Figs!Row, Figs!Rows, Figs!FiguresAssumption

\* Who watched the rows of A or of B, counted once.
LEMMA FigsWatchers ==
  ASSUME Figs!FiguresAssumption, Figs!TypeOK, NEW A \in SUBSET Figs!Rows,
         NEW B \in SUBSET Figs!Rows
  PROVE  /\ Figs!Watchers(A) \in Nat /\ Figs!Watchers(B) \in Nat
         /\ Figs!Watchers(A \cup B) \in Nat
         /\ Figs!Watchers(A) <= Figs!Watchers(A \cup B)
         /\ Figs!Watchers(B) <= Figs!Watchers(A \cup B)
         /\ Figs!Watchers(A \cup B) <= Figs!Watchers(A) + Figs!Watchers(B)
<1> DEFINE of(rs) == {session[x].user : x \in rs}
<1>1. \A rs \in SUBSET Figs!Rows : of(rs) \in SUBSET User
  BY FigsRows
<1>2. of(A \cup B) = of(A) \cup of(B)
  OBVIOUS
<1>3. of(A) \in SUBSET User /\ of(B) \in SUBSET User
  BY <1>1
<1>4. Figs!Watchers(A) = Figs!Cardinality(of(A)) /\ Figs!Watchers(B) = Figs!Cardinality(of(B))
      /\ Figs!Watchers(A \cup B) = Figs!Cardinality(of(A) \cup of(B))
  BY <1>2 DEF Figs!Watchers
<1> HIDE DEF of
<1>5. IsFiniteSet(User)
  BY FigsTables
<1>6. /\ IsFiniteSet(of(A)) /\ IsFiniteSet(of(B)) /\ IsFiniteSet(of(A) \cap of(B))
      /\ IsFiniteSet(of(A) \cup of(B))
  <2>1. IsFiniteSet(of(A)) /\ IsFiniteSet(of(B))
    BY <1>3, <1>5, FS_Subset
  <2>2. of(A) \cap of(B) \in SUBSET User /\ of(A) \cup of(B) \in SUBSET User
    BY <1>3
  <2> QED  BY <1>5, <2>1, <2>2, FS_Subset
<1>7. /\ Cardinality(of(A)) \in Nat /\ Cardinality(of(B)) \in Nat
      /\ Cardinality(of(A) \cap of(B)) \in Nat /\ Cardinality(of(A) \cup of(B)) \in Nat
  BY <1>6, FS_CardinalityType
<1>8. Cardinality(of(A) \cup of(B))
        = Cardinality(of(A)) + Cardinality(of(B)) - Cardinality(of(A) \cap of(B))
  BY <1>6, FS_Union
<1>9. /\ Cardinality(of(A)) <= Cardinality(of(A) \cup of(B))
      /\ Cardinality(of(B)) <= Cardinality(of(A) \cup of(B))
  BY <1>6, FS_Subset
<1>10. \A S : Figs!Cardinality(S) = Cardinality(S)
  BY FigsCardinality
<1> QED  BY <1>4, <1>7, <1>8, <1>9, <1>10

\* Asking for one mode shows what the page of both shows for it, and nobody
\* is missing from the total or twice in it (get_analytics_overall).
LEMMA FigsModes ==
  ASSUME Figs!FiguresAssumption, FigsInv
  PROVE  Figs!ModesAgree
<1> SUFFICES ASSUME NEW s \in Talk \cup {Null}
             PROVE  LET all == Figs!SummaryPage(s, Null)
                        live == Figs!SummaryPage(s, "LIVE")
                        rewatch == Figs!SummaryPage(s, "REWATCH")
                    IN /\ live.total = all.live /\ rewatch.total = all.rewatch
                       /\ live.live = all.live /\ rewatch.rewatch = all.rewatch
                       /\ live.rewatch = 0 /\ rewatch.live = 0
                       /\ all.total <= all.live + all.rewatch
                       /\ all.live <= all.total /\ all.rewatch <= all.total
  BY DEF Figs!ModesAgree
<1> DEFINE R == IF s = Null THEN Figs!Rows ELSE {x \in Figs!Rows : session[x].schedule = s}
           L == R \cap Figs!InMode("LIVE")
           W == R \cap Figs!InMode("REWATCH")
<1>1. R \subseteq Figs!Rows /\ L \in SUBSET Figs!Rows /\ W \in SUBSET Figs!Rows
  OBVIOUS
<1>2. R \cap Figs!InMode(Null) = L \cup W
  <2>1. \A x \in Figs!Rows : session[x].mode \in Figs!Mode
    BY FigsRows DEF FigsInv
  <2> QED  BY <1>1, <2>1 DEF Figs!InMode, Figs!Mode, Figs!FiguresAssumption
<1>3. /\ Figs!Asked("LIVE", Null) /\ Figs!Asked("REWATCH", Null)
      /\ Figs!Asked("LIVE", "LIVE") /\ Figs!Asked("REWATCH", "REWATCH")
      /\ ~Figs!Asked("LIVE", "REWATCH") /\ ~Figs!Asked("REWATCH", "LIVE")
  BY DEF Figs!Asked, Figs!FiguresAssumption, Figs!Mode
<1>4. \A m \in Figs!Mode \cup {Null} : Figs!SummaryPage(s, m) = Figs!Summary(R, m)
  BY DEF Figs!SummaryPage, Figs!Overall
<1> HIDE DEF R
<1>5. /\ Figs!Summary(R, Null).live = Figs!Watchers(L)
      /\ Figs!Summary(R, Null).rewatch = Figs!Watchers(W)
      /\ Figs!Summary(R, Null).total = Figs!Watchers(L \cup W)
      /\ Figs!Summary(R, "LIVE").live = Figs!Watchers(L)
      /\ Figs!Summary(R, "LIVE").rewatch = 0
      /\ Figs!Summary(R, "LIVE").total = Figs!Watchers(L)
      /\ Figs!Summary(R, "REWATCH").rewatch = Figs!Watchers(W)
      /\ Figs!Summary(R, "REWATCH").live = 0
      /\ Figs!Summary(R, "REWATCH").total = Figs!Watchers(W)
  BY <1>2, <1>3 DEF Figs!Summary
<1> HIDE DEF L, W
<1>6. /\ Figs!Watchers(L) \in Nat /\ Figs!Watchers(W) \in Nat /\ Figs!Watchers(L \cup W) \in Nat
      /\ Figs!Watchers(L) <= Figs!Watchers(L \cup W)
      /\ Figs!Watchers(W) <= Figs!Watchers(L \cup W)
      /\ Figs!Watchers(L \cup W) <= Figs!Watchers(L) + Figs!Watchers(W)
  BY <1>1, FigsWatchers DEF FigsInv
<1> QED  BY <1>4, <1>5, <1>6 DEF Figs!Mode

\* The seconds of some rows, as a sum that two sets of rows can share.
LEMMA FigsSeconds ==
  ASSUME Figs!FiguresAssumption, Figs!TypeOK, NEW A \in SUBSET Figs!Rows,
         NEW B \in SUBSET A
  PROVE  Figs!Seconds(B) = SumFunctionOnSet([x \in A |-> session[x].seconds], B)
<1> DEFINE g == [x \in A |-> session[x].seconds]
           h == [x \in B |-> session[x].seconds]
<1>1. IsFiniteSet(B)
  <2>1. B \in SUBSET Session
    BY FigsRows
  <2> QED  BY <2>1, FigsTables, FS_Subset
<1>2. \A x \in B : h[x] \in Nat /\ g[x] = h[x]
  BY FigsRows
<1>3. DOMAIN h = B
  OBVIOUS
<1>4. Figs!Seconds(B) = Figs!SumFunction(h)
  BY DEF Figs!Seconds
<1> HIDE DEF g, h
<1>5. SumFunctionOnSet(h, B) = SumFunctionOnSet(g, B)
  BY <1>1, <1>2, LemmaSumSame
<1> QED  BY <1>3, <1>4, <1>5, FigsSum DEF g

\* The pages of the watch figures agree (get_analytics_by_schedule,
\* get_analytics_overall, get_watch_detail_by_schedule).
LEMMA FigsPages ==
  ASSUME Figs!FiguresAssumption, FigsInv
  PROVE  Figs!PagesAgree
<1> USE DEF FigsInv
<1> SUFFICES ASSUME NEW m \in Figs!Mode \cup {Null}
             PROVE  LET lines == Figs!StreamsPage(Null, m)
                        all == Figs!SummaryPage(Null, m)
                        minutes == Figs!SumFunction([s \in Talk |-> lines[s].minutes])
                    IN /\ lines = [s \in Talk |-> Figs!SummaryPage(s, m)]
                       /\ minutes <= all.minutes
                       /\ Talk # {} => all.minutes < minutes + Figs!Cardinality(Talk)
                       /\ all.total <= Figs!SumFunction([s \in Talk |-> lines[s].total])
                       /\ m = Null => \A s \in Talk :
                            LET detail == Figs!DetailPage(s)
                            IN /\ detail.figures = lines[s]
                               /\ Figs!Cardinality({l[2] : l \in detail.watchers}) = lines[s].total
  BY DEF Figs!PagesAgree
<1> DEFINE whole == Figs!Rows \cap Figs!InMode(m)
           part == [s \in Talk |-> Figs!OfSchedule(s) \cap Figs!InMode(m)]
           who == [s \in Talk |-> {session[x].user : x \in part[s]}]
           seconds == [s \in Talk |-> Figs!Seconds(part[s])]
           lines == Figs!StreamsPage(Null, m)
           all == Figs!SummaryPage(Null, m)
           minutes == [s \in Talk |-> lines[s].minutes]
           totals == [s \in Talk |-> lines[s].total]
<1>1. whole \in SUBSET Figs!Rows /\ \A s \in Talk : part[s] \in SUBSET whole
  BY DEF Figs!OfSchedule
<1>2. /\ whole = UNION {part[s] : s \in Talk}
      /\ \A s, t \in Talk : s # t => part[s] \cap part[t] = {}
  BY FigsRows DEF Figs!OfSchedule
<1>3. lines = [s \in Talk |-> Figs!Summary(Figs!OfSchedule(s), m)]
  BY DEF Figs!StreamsPage, Figs!BySchedule
<1>4. \A s \in Talk : Figs!SummaryPage(s, m) = Figs!Summary(Figs!OfSchedule(s), m)
  BY DEF Figs!SummaryPage, Figs!Overall, Figs!OfSchedule, Figs!FiguresAssumption
<1>5. all = Figs!Summary(Figs!Rows, m)
  BY DEF Figs!SummaryPage, Figs!Overall
<1>6. \A s \in Talk : /\ lines[s].minutes = seconds[s] \div Minute
                      /\ lines[s].total = Figs!Watchers(part[s])
  BY <1>3 DEF Figs!Summary, Figs!Minutes
<1>7. all.minutes = Figs!Seconds(whole) \div Minute /\ all.total = Figs!Watchers(whole)
  BY <1>5 DEF Figs!Summary, Figs!Minutes
<1>8. \A s \in Talk : /\ IsFiniteSet(part[s]) /\ IsFiniteSet(who[s])
                      /\ lines[s].total = Cardinality(who[s])
  <2> SUFFICES ASSUME NEW s \in Talk
               PROVE  /\ IsFiniteSet(part[s]) /\ IsFiniteSet(who[s])
                      /\ lines[s].total = Cardinality(who[s])
    OBVIOUS
  <2>1. part[s] \in SUBSET Session /\ who[s] \in SUBSET User
    BY <1>1, FigsRows
  <2>2. Figs!Watchers(part[s]) = Cardinality(who[s])
    BY FigsCardinality DEF Figs!Watchers
  <2> HIDE DEF part, who
  <2> QED  BY <1>6, <2>1, <2>2, FigsTables, FS_Subset
<1>9. all.total = Cardinality(UNION {who[s] : s \in Talk})
  <2>1. {session[x].user : x \in whole} = UNION {who[s] : s \in Talk}
    BY <1>2
  <2> QED  BY <1>7, <2>1, FigsCardinality DEF Figs!Watchers
<1>10. Figs!Seconds(whole) = SumFunctionOnSet(seconds, Talk)
       /\ \A s \in Talk : seconds[s] \in Nat
  <2> DEFINE g == [x \in whole |-> session[x].seconds]
  <2>1. \A x \in whole : g[x] \in Nat
    BY <1>1, FigsRows
  <2>2. \A s \in Talk : seconds[s] = SumFunctionOnSet(g, part[s])
    BY <1>1, FigsSeconds
  <2>3. Figs!Seconds(whole) = SumFunctionOnSet(g, whole)
    BY <1>1, FigsSeconds
  <2> HIDE DEF g, whole, part, seconds, who, lines
  <2>4. \A s \in Talk : \A x \in part[s] : g[x] \in Nat
    BY <1>1, <2>1
  <2>5. SumFunctionOnSet(g, UNION {part[s] : s \in Talk}) = SumFunctionOnSet(seconds, Talk)
    <3>1. IsFiniteSet(Talk)
      BY FigsTables
    <3>2. \A s \in Talk : IsFiniteSet(part[s]) /\ seconds[s] = SumFunctionOnSet(g, part[s])
      BY <1>8, <2>2
    <3>3. \A s, t \in Talk : s # t => part[s] \cap part[t] = {}
      BY <1>2
    <3> QED  BY ONLY <2>4, <3>1, <3>2, <3>3, PartsAddUp
  <2>6. \A s \in Talk : seconds[s] \in Nat
    BY <1>8, <2>2, <2>4, LemmaSumType
  <2> QED  BY <1>2, <2>3, <2>5, <2>6
<1>11. /\ Figs!SumFunction(minutes) = SumFunctionOnSet(minutes, Talk)
       /\ Figs!SumFunction(totals) = SumFunctionOnSet(totals, Talk)
  BY FigsSum
<1>12. \A s \in Talk : minutes[s] = seconds[s] \div Minute /\ totals[s] = Cardinality(who[s])
  BY <1>6, <1>8
<1>13. ASSUME m = Null, NEW s \in Talk
       PROVE  LET detail == Figs!DetailPage(s)
              IN /\ detail.figures = lines[s]
                 /\ Figs!Cardinality({l[2] : l \in detail.watchers}) = lines[s].total
  <2>1. Figs!OfSchedule(s) \cap Figs!InMode(Null) = Figs!OfSchedule(s)
    BY DEF Figs!OfSchedule, Figs!InMode
  <2>2. Figs!DetailPage(s).figures = lines[s]
    BY <1>3, <1>13 DEF Figs!DetailPage, Figs!BySchedule
  <2>3. {l[2] : l \in Figs!Detail(s)} = who[s]
    <3>1. who[s] = {session[x].user : x \in Figs!OfSchedule(s)}
      BY <1>13, <2>1
    <3>2. ASSUME NEW x \in Figs!OfSchedule(s)
          PROVE  \E l \in Figs!Detail(s) : l[2] = session[x].user
      <4>1. <<x, session[x].user, session[x].seconds>> \in Figs!Detail(s)
        BY DEF Figs!Detail
      <4> QED  BY <4>1
    <3>3. ASSUME NEW l \in Figs!Detail(s)
          PROVE  \E x \in Figs!OfSchedule(s) : l[2] = session[x].user
      BY DEF Figs!Detail
    <3>4. {l[2] : l \in Figs!Detail(s)} = {session[x].user : x \in Figs!OfSchedule(s)}
      BY ONLY <3>2, <3>3
    <3> QED  BY <3>1, <3>4
  <2>4. Figs!DetailPage(s).watchers = Figs!Detail(s)
    BY DEF Figs!DetailPage
  <2> QED  BY <1>8, <2>2, <2>3, <2>4, FigsCardinality
<1>14. lines = [s \in Talk |-> Figs!SummaryPage(s, m)]
  BY <1>3, <1>4
<1>15. Minute \in Nat \ {0} /\ IsFiniteSet(Talk)
  BY FigsTables DEF Figs!FiguresAssumption
<1> HIDE DEF whole, part, who, seconds, lines, all, minutes, totals
<1>16. /\ SumFunctionOnSet(minutes, Talk) <= SumFunctionOnSet(seconds, Talk) \div Minute
       /\ Talk # {} => SumFunctionOnSet(seconds, Talk) \div Minute
                         < SumFunctionOnSet(minutes, Talk) + Cardinality(Talk)
  BY <1>10, <1>12, <1>15, RoundingAddsUp
<1>17. Cardinality(UNION {who[s] : s \in Talk}) <= SumFunctionOnSet(totals, Talk)
  BY <1>8, <1>12, <1>15, SizesAddUp
<1>18. /\ Figs!SumFunction(minutes) <= all.minutes
       /\ Talk # {} => all.minutes < Figs!SumFunction(minutes) + Figs!Cardinality(Talk)
       /\ all.total <= Figs!SumFunction(totals)
  BY <1>7, <1>9, <1>10, <1>11, <1>16, <1>17, FigsCardinality
<1> QED  BY <1>13, <1>14, <1>18 DEF lines, all, minutes, totals

-----------------------------------------------------------------------------
LEMMA FigsPaying ==
  ASSUME Figs!FiguresAssumption, NEW A \in SUBSET User, NEW B \in SUBSET A
  PROVE  /\ Figs!Paying(A) \in Nat /\ Figs!Paying(B) \in Nat
         /\ Figs!Paying(B) <= Figs!Paying(A)
<1> DEFINE a == A \cap Figs!Payers
           b == B \cap Figs!Payers
<1>1. a \in SUBSET User /\ b \in SUBSET a
  OBVIOUS
<1>2. Figs!Paying(A) = Cardinality(a) /\ Figs!Paying(B) = Cardinality(b)
  BY FigsCardinality DEF Figs!Paying
<1> HIDE DEF a, b
<1>3. IsFiniteSet(a) /\ IsFiniteSet(b)
  BY <1>1, FigsTables, FS_Subset
<1> QED  BY <1>1, <1>2, <1>3, FS_CardinalityType, FS_Subset

\* People of different places are different people.
LEMMA FigsPlaces ==
  ASSUME Figs!FiguresAssumption, NEW D, IsFiniteSet(D), NEW F, NEW size,
         \A y \in D : F[y] \in SUBSET User /\ size[y] = Figs!Paying(F[y]),
         \A y, z \in D : y # z => F[y] \cap F[z] = {}
  PROVE  SumFunctionOnSet(size, D) = Figs!Paying(UNION {F[y] : y \in D})
<1> DEFINE G == [y \in D |-> F[y] \cap Figs!Payers]
<1>1. \A y \in D : IsFiniteSet(G[y]) /\ size[y] = Cardinality(G[y])
  <2> SUFFICES ASSUME NEW y \in D
               PROVE  IsFiniteSet(G[y]) /\ size[y] = Cardinality(G[y])
    OBVIOUS
  <2>1. G[y] \in SUBSET User
    OBVIOUS
  <2>2. size[y] = Cardinality(G[y])
    BY FigsCardinality DEF Figs!Paying
  <2> HIDE DEF G
  <2> QED  BY <2>1, <2>2, FigsTables, FS_Subset
<1>2. \A y, z \in D : y # z => G[y] \cap G[z] = {}
  OBVIOUS
<1>3. UNION {G[y] : y \in D} = (UNION {F[y] : y \in D}) \cap Figs!Payers
  OBVIOUS
<1> HIDE DEF G
<1>4. Cardinality(UNION {G[y] : y \in D}) = SumFunctionOnSet(size, D)
  BY <1>1, <1>2, SizesAddUp
<1>5. Figs!Paying(UNION {F[y] : y \in D}) = Cardinality(UNION {G[y] : y \in D})
  BY <1>3, FigsCardinality DEF Figs!Paying
<1> QED  BY <1>4, <1>5

\* The people of a city are people of its state, and those of a state are
\* people of its country (get_analytics_by_city, by_state, by_country).
LEMMA FigsNest ==
  ASSUME Figs!FiguresAssumption, FigsInv
  PROVE  Figs!RegionsNest
<1> USE DEF FigsInv
<1> DEFINE of(ls, x) == IF x \in DOMAIN ls THEN ls[x] ELSE 0
           parts(ls, up, x) ==
             Figs!SumFunction([y \in {y \in DOMAIN ls : up[y] = x} |-> ls[y]])
<1>1. ASSUME NEW s \in Figs!States
      PROVE  parts(Figs!CityPage, RegionOf, s) <= of(Figs!StatePage, s)
  <2> DEFINE D == {y \in DOMAIN Figs!CityPage : RegionOf[y] = s}
             F == [y \in D |-> {u \in User : lives[u].city = y}]
             size == [y \in D |-> Figs!CityPage[y]]
             here == {u \in User : lives[u].state = s}
  <2>1. D \in SUBSET Figs!Cities
    BY DEF Figs!CityPage
  <2>2. IsFiniteSet(D)
    BY <2>1, FigsTables, FS_Subset
  <2>3. \A y \in D : F[y] \in SUBSET User /\ size[y] = Figs!Paying(F[y])
    BY <2>1 DEF Figs!CityPage, Figs!ByCity
  <2>4. \A y, z \in D : y # z => F[y] \cap F[z] = {}
    OBVIOUS
  <2>5. UNION {F[y] : y \in D} \in SUBSET here
    <3> SUFFICES ASSUME NEW y \in D, NEW u \in User, lives[u].city = y
                 PROVE  lives[u].state = s
      OBVIOUS
    <3>1. y # Null /\ RegionOf[y] = s
      BY <2>1 DEF Figs!FiguresAssumption
    <3> QED  BY <3>1 DEF PlacesNest, Figs!ValidLocation
  <2>6. of(Figs!StatePage, s) = Figs!Paying(here)
    <3>1. Figs!ByState(s) \in Nat
      BY FigsPaying DEF Figs!ByState
    <3> QED  BY <3>1 DEF Figs!StatePage, Figs!ByState
  <2>7. parts(Figs!CityPage, RegionOf, s) = SumFunctionOnSet(size, D)
    BY FigsSum
  <2>8. here \in SUBSET User
    OBVIOUS
  <2> HIDE DEF D, F, size, here
  <2>9. SumFunctionOnSet(size, D) = Figs!Paying(UNION {F[y] : y \in D})
    BY <2>2, <2>3, <2>4, FigsPlaces
  <2>10. Figs!Paying(UNION {F[y] : y \in D}) <= Figs!Paying(here)
    BY <2>5, <2>8, FigsPaying
  <2> HIDE DEF of, parts
  <2> QED  BY <2>6, <2>7, <2>9, <2>10
<1>2. ASSUME NEW c \in Land
      PROVE  parts(Figs!StatePage, Region, c) <= of(Figs!CountryPage, c)
  <2> DEFINE D == {y \in DOMAIN Figs!StatePage : Region[y] = c}
             F == [y \in D |-> {u \in User : lives[u].state = y}]
             size == [y \in D |-> Figs!StatePage[y]]
             here == {u \in User : lives[u].country = c}
  <2>1. D \in SUBSET Figs!States
    BY DEF Figs!StatePage
  <2>2. IsFiniteSet(D)
    BY <2>1, FigsTables, FS_Subset
  <2>3. \A y \in D : F[y] \in SUBSET User /\ size[y] = Figs!Paying(F[y])
    BY <2>1 DEF Figs!StatePage, Figs!ByState
  <2>4. \A y, z \in D : y # z => F[y] \cap F[z] = {}
    OBVIOUS
  <2>5. UNION {F[y] : y \in D} \in SUBSET here
    <3> SUFFICES ASSUME NEW y \in D, NEW u \in User, lives[u].state = y
                 PROVE  lives[u].country = c
      OBVIOUS
    <3>1. y # Null /\ Region[y] = c
      BY <2>1 DEF Figs!FiguresAssumption
    <3> QED  BY <3>1 DEF PlacesNest, Figs!ValidLocation
  <2>6. of(Figs!CountryPage, c) = Figs!Paying(here)
    <3>1. Figs!ByCountry(c) \in Nat
      BY FigsPaying DEF Figs!ByCountry
    <3> QED  BY <3>1 DEF Figs!CountryPage, Figs!ByCountry
  <2>7. parts(Figs!StatePage, Region, c) = SumFunctionOnSet(size, D)
    BY FigsSum
  <2>8. here \in SUBSET User
    OBVIOUS
  <2> HIDE DEF D, F, size, here
  <2>9. SumFunctionOnSet(size, D) = Figs!Paying(UNION {F[y] : y \in D})
    BY <2>2, <2>3, <2>4, FigsPlaces
  <2>10. Figs!Paying(UNION {F[y] : y \in D}) <= Figs!Paying(here)
    BY <2>5, <2>8, FigsPaying
  <2> HIDE DEF of, parts
  <2> QED  BY <2>6, <2>7, <2>9, <2>10
<1> QED  BY <1>1, <1>2 DEF Figs!RegionsNest

\* Everybody who paid and lives somewhere is in one line of the page.
LEMMA FigsOnce ==
  ASSUME Figs!FiguresAssumption, FigsInv
  PROVE  Figs!PayersCountOnce
<1> USE DEF FigsInv
<1> DEFINE D == DOMAIN Figs!CountryPage
           F == [c \in D |-> {u \in User : lives[u].country = c}]
           size == Figs!CountryPage
<1>1. D = {c \in Land : Figs!ByCountry(c) > 0}
  BY DEF Figs!CountryPage
<1>2. IsFiniteSet(D)
  <2>1. D \in SUBSET Land
    BY <1>1
  <2> QED  BY <2>1, FigsTables, FS_Subset
<1>3. \A c \in D : F[c] \in SUBSET User /\ size[c] = Figs!Paying(F[c])
  BY DEF Figs!CountryPage, Figs!ByCountry
<1>4. \A c, d \in D : c # d => F[c] \cap F[d] = {}
  OBVIOUS
<1>5. (UNION {F[c] : c \in D}) \cap Figs!Payers = {u \in Figs!Payers : lives[u].country # Null}
  <2>1. \A c \in D : c # Null
    BY <1>1 DEF Figs!FiguresAssumption
  <2>2. ASSUME NEW u \in Figs!Payers, lives[u].country # Null
        PROVE  lives[u].country \in D
    <3> DEFINE c == lives[u].country
               A == {v \in User : lives[v].country = c} \cap Figs!Payers
    <3>1. u \in User /\ c \in Land
      BY <2>2 DEF Figs!Payers, Figs!TypeOK, Figs!Place
    <3>2. u \in A /\ A \in SUBSET User
      BY <3>1
    <3>3. Figs!ByCountry(c) = Cardinality(A)
      BY FigsCardinality DEF Figs!ByCountry, Figs!Paying
    <3> HIDE DEF c, A
    <3>4. IsFiniteSet(A)
      BY <3>2, FigsTables, FS_Subset
    <3>5. Cardinality(A) \in Nat /\ Cardinality(A) # 0
      BY <3>2, <3>4, FS_CardinalityType, FS_EmptySet
    <3> QED  BY <1>1, <3>1, <3>3, <3>5 DEF c
  <2>3. Figs!Payers \in SUBSET User
    BY DEF Figs!Payers
  <2> HIDE DEF D
  <2> QED  BY <2>1, <2>2, <2>3
<1> HIDE DEF D, F, size
<1>6. SumFunctionOnSet(size, D) = Figs!Paying(UNION {F[c] : c \in D})
  BY <1>2, <1>3, <1>4, FigsPlaces
<1>7. Figs!SumFunction(Figs!CountryPage) = SumFunctionOnSet(size, D)
  BY FigsSum DEF size, D
<1>8. Figs!Paying(UNION {F[c] : c \in D})
        = Cardinality({u \in Figs!Payers : lives[u].country # Null})
  BY <1>5, FigsCardinality DEF Figs!Paying
<1> QED  BY <1>6, <1>7, <1>8, FigsCardinality DEF Figs!PayersCountOnce

\* A manager who compares two pages of figures finds no contradiction,
\* whatever was watched and paid, and wherever people moved meanwhile.
THEOREM FiguresAddUp ==
  ASSUME Figs!FiguresAssumption
  PROVE  Figs!Spec => []FiguresAgree
<1>1. FigsInv => FiguresAgree
  BY FigsPages, FigsModes, FigsNest, FigsOnce DEF FiguresAgree, Figs!FiguresAgree
<1> QED  BY <1>1, FigsInvariance, PTL

-----------------------------------------------------------------------------
(***************************************************************************)
(* Counter: managers who overlap with one another and with customers       *)
(* neither lose nor invent units of a voucher, and do not change it under  *)
(* a purchase that it has allowed.                                         *)
(*                                                                         *)
(* A purchase that waits has the row locked and has read what is in it     *)
(* (Holds), so a commit that goes ahead meanwhile changes nothing          *)
(* (CounterUnchanged); and a commit writes the quota only if its form did. *)
(* FormIsKept needs that, while no two requests have overlapped, a request *)
(* in progress still knows the row (Current).                              *)
(***************************************************************************)

\* A request changes what its form asks for and nothing else.
Shape ==
  \A r \in Request : voucherRequest[r] # Null =>
    /\ \A c \in Counter!Column \ voucherRequest[r].asks :
         voucherRequest[r].new[c] = voucherRequest[r].loaded[c]
    /\ "tickets" \notin voucherRequest[r].asks => voucherRequest[r].wants = voucherRequest[r].had

\* Nothing has begun before the voucher is there.
NoneBefore ==
  voucher = Absent =>
    /\ buyer = Null /\ sold = 0
    /\ \A r \in Request : voucherRequest[r] = Null

\* A purchase that waits has the lock and knows the row.
Holds ==
  buyer # Null => buyer.locks /\ buyer.row = voucher /\ buyer.row.quota > 0

\* While no two requests overlapped, a request in progress knows the row.
Current ==
  voucher # Absent /\ ~formsOverlapped =>
    \A r \in Request : voucherRequest[r] # Null =>
      /\ \A c \in Counter!Column \ {"quota"} : voucherRequest[r].loaded[c] = voucher[c]
      /\ voucherRequest[r].had = tickets

CounterInv == Counter!TypeOK /\ Shape /\ NoneBefore /\ Counter!QuotaAddsUp /\ Holds
    /\ Current /\ Counter!FormIsKept

-----------------------------------------------------------------------------
LEMMA CounterRowOf ==
  ASSUME Counter!VoucherDeskAssumption, NEW f \in Form
  PROVE  Counter!RowOf(f) \in Counter!Row
BY DEF Counter!VoucherDeskAssumption, Counter!RowOf, Counter!Row, Counter!Values, Counter!Column

LEMMA CounterFlushed ==
  ASSUME NEW e \in Counter!Edit, voucher \in Counter!Row
  PROVE  Counter!Flushed(e) \in Counter!Row
BY DEF Counter!Edit, Counter!Row, Counter!Flushed, Counter!Column

LEMMA CounterUnchanged ==
  ASSUME NEW e \in Counter!Edit, voucher \in Counter!Row, e.new = e.loaded
  PROVE  Counter!Flushed(e) = voucher
BY DEF Counter!Edit, Counter!Row, Counter!Flushed, Counter!Column

LEMMA CounterInit ==
  ASSUME Counter!VoucherDeskAssumption, Counter!Init
  PROVE  CounterInv
<1>1. Counter!TypeOK
  <2>1. formsOverlapped \in BOOLEAN
    BY DEF Counter!Init
  <2> QED  BY <2>1 DEF Counter!Init, Counter!TypeOK
<1>2. Shape /\ NoneBefore /\ Holds
  BY DEF Counter!Init, Shape, NoneBefore, Holds
<1>3. Counter!QuotaAddsUp /\ Current /\ Counter!FormIsKept
  BY DEF Counter!Init, Counter!QuotaAddsUp, Current, Counter!FormIsKept
<1> QED  BY <1>1, <1>2, <1>3 DEF CounterInv

\* create_voucher
LEMMA CounterCreates ==
  ASSUME Counter!VoucherDeskAssumption, CounterInv, NEW f \in Form, Counter!Creates(f)
  PROVE  CounterInv'
<1> USE DEF CounterInv
<1>1. Counter!RowOf(f) \in Counter!Row /\ f.tickets \subseteq Ticket /\ f.quota \in Int
  BY CounterRowOf DEF Counter!VoucherDeskAssumption
<1>2. voucher' # Absent
  BY <1>1 DEF Counter!VoucherDeskAssumption, Counter!Creates
<1>3. Counter!TypeOK'
  BY <1>1 DEF Counter!Creates, Counter!TypeOK
<1>4. Shape' /\ NoneBefore' /\ Holds' /\ Current'
  BY <1>2 DEF Counter!Creates, Shape, NoneBefore, Holds, Current
<1>5. Counter!QuotaAddsUp' /\ Counter!FormIsKept'
  BY <1>1 DEF Counter!Creates, NoneBefore, Counter!QuotaAddsUp, Counter!FormIsKept,
              Counter!RowOf, Counter!Column
<1> QED  BY <1>3, <1>4, <1>5

\* Every request of a manager: its SELECT and the attributes that it sets.
LEMMA CounterLoads ==
  ASSUME Counter!VoucherDeskAssumption, CounterInv, NEW r \in Request, NEW f \in Form,
         NEW cs \in SUBSET Counter!Asked, Counter!Loads(r, f, cs)
  PROVE  CounterInv'
<1> USE DEF CounterInv
<1> DEFINE new == [c \in Counter!Column |-> IF c \in cs THEN f[c] ELSE voucher[c]]
           wants == IF "tickets" \in cs THEN f.tickets ELSE tickets
           e == [loaded |-> voucher, had |-> tickets, asks |-> cs, new |-> new, wants |-> wants]
<1>1. voucher \in Counter!Row
  BY DEF Counter!Loads, Counter!TypeOK
<1>2. new \in Counter!Row
  BY <1>1, CounterRowOf DEF Counter!Row, Counter!RowOf, Counter!Column
<1>3. e \in Counter!Edit
  BY <1>1, <1>2 DEF Counter!Edit, Counter!TypeOK, Counter!VoucherDeskAssumption
<1>4. voucherRequest' = [voucherRequest EXCEPT ![r] = e]
  BY DEF Counter!Loads
<1>5. /\ \A c \in Counter!Column \ e.asks : e.new[c] = e.loaded[c]
      /\ "tickets" \notin e.asks => e.wants = e.had
      /\ \A c \in Counter!Column \ {"quota"} : e.loaded[c] = voucher[c]
      /\ e.had = tickets
  OBVIOUS
<1> HIDE DEF e
<1>6. Counter!TypeOK'
  BY <1>3, <1>4 DEF Counter!Loads, Counter!TypeOK
<1>7. Shape'
  BY <1>4, <1>5 DEF Shape, Counter!TypeOK
<1>8. Current'
  BY <1>4, <1>5 DEF Counter!Loads, Current, Counter!TypeOK
<1>9. NoneBefore' /\ Counter!QuotaAddsUp' /\ Holds' /\ Counter!FormIsKept'
  BY DEF Counter!Loads, NoneBefore, Counter!QuotaAddsUp, Holds, Counter!FormIsKept
<1> QED  BY <1>6, <1>7, <1>8, <1>9

\* The commit of a manager's request.
LEMMA CounterCommits ==
  ASSUME Counter!VoucherDeskAssumption, CounterInv, NEW r \in Request, Counter!Commits(r)
  PROVE  CounterInv'
<1> USE DEF CounterInv
<1> DEFINE e == voucherRequest[r]
<1>1. e \in Counter!Edit /\ e # Null
  BY DEF Counter!Commits, Counter!TypeOK
<1>2. voucher # Absent /\ voucher \in Counter!Row
  BY <1>1 DEF NoneBefore, Counter!TypeOK
<1>3. voucher' = Counter!Flushed(e) /\ tickets' = Counter!Listed(e)
        /\ voucherRequest' = [voucherRequest EXCEPT ![r] = Null]
  BY DEF Counter!Commits
<1>4. voucher' \in Counter!Row /\ voucher' # Absent
  BY <1>1, <1>2, <1>3, CounterFlushed DEF Counter!VoucherDeskAssumption
<1>5. /\ \A c \in Counter!Column \ e.asks : e.new[c] = e.loaded[c]
      /\ "tickets" \notin e.asks => e.wants = e.had
  BY <1>1 DEF Shape
<1>6. Shape' /\ NoneBefore'
  BY <1>3, <1>4 DEF Shape, NoneBefore, Counter!TypeOK
<1>7. ASSUME buyer # Null
      PROVE  voucher' = voucher
  <2>1. e.new = e.loaded
    BY <1>7 DEF Holds, Counter!Commits, Counter!Waits
  <2> QED  BY <1>1, <1>2, <1>3, <2>1, CounterUnchanged
<1>8. Holds'
  BY <1>7 DEF Holds, Counter!Commits
<1>9. Counter!QuotaAddsUp'
  <2>1. voucher'.quota = IF e.new.quota # e.loaded.quota THEN e.new.quota ELSE voucher.quota
    BY <1>3 DEF Counter!Flushed, Counter!Column
  <2>2. e.new.quota \in Int
    BY <1>1 DEF Counter!Edit, Counter!Row
  <2> QED  BY <1>2, <2>1, <2>2 DEF Counter!Commits, Counter!QuotaAddsUp, Counter!TypeOK
<1>10. Counter!TypeOK'
  <2>1. e.new \in Counter!Row /\ e.wants \subseteq Ticket
    BY <1>1 DEF Counter!Edit
  <2>2. tickets' \subseteq Ticket
    BY <1>3, <2>1 DEF Counter!Listed, Counter!TypeOK
  <2>3. Counter!RowOf(said') \in Counter!Row
    BY <1>2, <2>1 DEF Counter!Commits, Counter!TypeOK, Counter!RowOf, Counter!Row,
                      Counter!Column, Counter!Asked
  <2>4. said'.tickets \subseteq Ticket
    BY <1>2, <2>1 DEF Counter!Commits, Counter!TypeOK, Counter!Asked
  <2>5. written' \in Int /\ sold' \in Nat
    BY <2>1 DEF Counter!Commits, Counter!TypeOK, Counter!Row
  <2>6. voucherRequest' \in [Request -> Counter!Edit \cup {Null}]
    BY <1>3 DEF Counter!TypeOK
  <2> QED  BY <1>4, <2>2, <2>3, <2>4, <2>5, <2>6 DEF Counter!Commits, Counter!TypeOK
<1>11. ASSUME ~formsOverlapped'
       PROVE  /\ \A q \in Request \ {r} : voucherRequest[q] = Null
              /\ ~formsOverlapped
  BY <1>11 DEF Counter!Commits
<1>12. Current'
  BY <1>3, <1>11 DEF Current, Counter!TypeOK
<1>13. Counter!FormIsKept'
  <2> SUFFICES ASSUME ~formsOverlapped'
               PROVE  /\ \A c \in Counter!Column \ {"quota"} : voucher'[c] = said'[c]
                      /\ tickets' = said'.tickets
    BY DEF Counter!FormIsKept
  <2>1. ~formsOverlapped
    BY <1>11
  <2>2. /\ \A c \in Counter!Column \ {"quota"} : e.loaded[c] = voucher[c]
        /\ e.had = tickets
    BY <1>1, <1>2, <2>1 DEF Current
  <2>3. /\ \A c \in Counter!Column \ {"quota"} : voucher[c] = said[c]
        /\ tickets = said.tickets
    BY <1>2, <2>1 DEF Counter!FormIsKept
  <2>4. said' = [c \in Counter!Asked |-> IF c \notin e.asks THEN said[c]
                                         ELSE IF c = "tickets" THEN e.wants ELSE e.new[c]]
    BY DEF Counter!Commits
  <2>5. ASSUME NEW c \in Counter!Column \ {"quota"}
        PROVE  voucher'[c] = said'[c]
    <3>1. voucher'[c] = IF e.new[c] # e.loaded[c] THEN e.new[c] ELSE voucher[c]
      BY <1>3 DEF Counter!Flushed
    <3>2. voucher'[c] = e.new[c]
      BY <2>2, <3>1
    <3>3. said'[c] = IF c \notin e.asks THEN said[c] ELSE e.new[c]
      BY <2>4 DEF Counter!Asked, Counter!Column
    <3> QED  BY <1>5, <2>2, <2>3, <3>2, <3>3
  <2>6. tickets' = e.wants
    BY <1>3, <2>2 DEF Counter!Listed
  <2>7. tickets' = said'.tickets
    BY <1>5, <2>2, <2>3, <2>4, <2>6 DEF Counter!Asked
  <2> QED  BY <2>5, <2>7
<1> QED  BY <1>6, <1>8, <1>9, <1>10, <1>12, <1>13

\* A request that fails leaves no trace.
LEMMA CounterFails ==
  ASSUME CounterInv, NEW r \in Request, Counter!Fails(r)
  PROVE  CounterInv'
BY DEF CounterInv, Counter!Fails, Counter!TypeOK, Shape, NoneBefore, Counter!QuotaAddsUp,
       Holds, Current, Counter!FormIsKept

\* validate_and_use_voucher, the commit of the purchase, and its failure.
LEMMA CounterBuyer ==
  ASSUME Counter!VoucherDeskAssumption, CounterInv, Counter!BuyerLocks
           \/ Counter!BuyerCommits \/ Counter!BuyerFails
  PROVE  CounterInv'
<1> USE DEF CounterInv
<1>1. CASE Counter!BuyerLocks
  <2>1. voucher # Absent /\ voucher \in Counter!Row /\ voucher.quota > 0
    BY <1>1 DEF Counter!BuyerLocks, Counter!Usable, Counter!TypeOK
  <2>2. buyer' = [row |-> voucher, locks |-> TRUE]
    BY <1>1 DEF Counter!BuyerLocks, Counter!ReadForUpdate
  <2>3. Counter!TypeOK'
    BY <1>1, <2>1, <2>2 DEF Counter!BuyerLocks, Counter!TypeOK
  <2>4. Holds'
    BY <1>1, <2>1, <2>2 DEF Counter!BuyerLocks, Holds
  <2>5. Shape' /\ NoneBefore' /\ Counter!QuotaAddsUp' /\ Current' /\ Counter!FormIsKept'
    BY <1>1, <2>1 DEF Counter!BuyerLocks, Shape, NoneBefore, Counter!QuotaAddsUp, Current,
                      Counter!FormIsKept
  <2> QED  BY <2>3, <2>4, <2>5
<1>2. CASE Counter!BuyerCommits
  <2>1. buyer # Null /\ voucher # Absent /\ voucher \in Counter!Row /\ buyer.row = voucher
    BY <1>2 DEF Counter!BuyerCommits, NoneBefore, Holds, Counter!TypeOK
  <2>2. voucher' = [voucher EXCEPT !.quota = voucher.quota - 1]
    BY <1>2, <2>1 DEF Counter!BuyerCommits
  <2>3. voucher' \in Counter!Row /\ voucher'.quota = voucher.quota - 1
    BY <2>1, <2>2 DEF Counter!Row
  <2>4. \A c \in Counter!Column \ {"quota"} : voucher'[c] = voucher[c]
    BY <2>1, <2>2 DEF Counter!Row, Counter!Column
  <2>5. voucher' # Absent
    BY <2>3 DEF Counter!VoucherDeskAssumption
  <2>6. Counter!TypeOK'
    BY <1>2, <2>1, <2>3 DEF Counter!BuyerCommits, Counter!TypeOK
  <2>7. Counter!QuotaAddsUp'
    <3>1. voucher.quota = written - sold
      BY <2>1 DEF Counter!QuotaAddsUp
    <3> QED  BY <1>2, <2>3, <3>1 DEF Counter!BuyerCommits, Counter!QuotaAddsUp, Counter!TypeOK
  <2>8. Shape' /\ NoneBefore' /\ Holds'
    BY <1>2, <2>5 DEF Counter!BuyerCommits, Shape, NoneBefore, Holds
  <2>9. Current' /\ Counter!FormIsKept'
    BY <1>2, <2>1, <2>4 DEF Counter!BuyerCommits, Current, Counter!FormIsKept
  <2> QED  BY <2>6, <2>7, <2>8, <2>9
<1>3. CASE Counter!BuyerFails
  BY <1>3 DEF Counter!BuyerFails, Counter!TypeOK, Shape, NoneBefore, Counter!QuotaAddsUp,
              Holds, Current, Counter!FormIsKept
<1> QED  BY <1>1, <1>2, <1>3

LEMMA CounterNext ==
  ASSUME Counter!VoucherDeskAssumption, CounterInv, [Counter!Next]_(Counter!vars)
  PROVE  CounterInv'
<1>1. ASSUME NEW r \in Request,
             \/ Counter!UpdateWhole(r) \/ Counter!UpdateStatus(r) \/ Counter!UpdateWhitelist(r)
             \/ Counter!UpdateQuota(r) \/ Counter!UpdateValue(r) \/ Counter!UpdateType(r)
      PROVE  CounterInv'
  <2>1. PICK f \in Form, cs \in SUBSET Counter!Asked : Counter!Loads(r, f, cs)
    BY <1>1 DEF Counter!UpdateWhole, Counter!UpdateStatus, Counter!UpdateWhitelist,
                Counter!UpdateQuota, Counter!UpdateValue,
                Counter!UpdateType, Counter!Asked, Counter!Column
  <2> QED  BY <2>1, CounterLoads
<1>2. CASE UNCHANGED Counter!vars
  BY <1>2 DEF Counter!vars, CounterInv, Counter!TypeOK, Shape, NoneBefore,
              Counter!QuotaAddsUp, Holds, Current, Counter!FormIsKept
<1> QED
  BY <1>1, <1>2, CounterCreates, CounterCommits, CounterFails, CounterBuyer DEF Counter!Next

-----------------------------------------------------------------------------
\* For any forms and any overlapping of requests and purchases: the row of a
\* voucher and the requests in progress fit together.
THEOREM CounterInvariance ==
  ASSUME Counter!VoucherDeskAssumption
  PROVE  Counter!Spec => []CounterInv
<1>1. Counter!Init => CounterInv
  BY CounterInit
<1>2. CounterInv /\ [Counter!Next]_(Counter!vars) => CounterInv'
  BY CounterNext
<1> QED  BY <1>1, <1>2, PTL DEF Counter!Spec

\* Neither managers nor customers lose or invent units, a purchase stays
\* allowed until it commits, and the row is what was asked for last
\* (repository/voucher.py).
THEOREM VoucherKept ==
  ASSUME Counter!VoucherDeskAssumption
  PROVE  Counter!Spec => []VoucherIsKept
<1>1. CounterInv => VoucherIsKept
  BY DEF CounterInv, VoucherIsKept, Counter!VoucherIsKept, Counter!SaleIsAllowed, Holds
<1> QED  BY <1>1, CounterInvariance, PTL

-----------------------------------------------------------------------------
(***************************************************************************)
(* The parts together                                                      *)
(***************************************************************************)

\* Every table, and the locals of every handler, keep their types, whatever
\* the parts do next to each other.
THEOREM TypesCorrect ==
  ASSUME DesksAssumption
  PROVE  DesksSpec => []TypesOK
<1>1. /\ LocationsAssumption
      /\ Talks!ProgrammeAssumption /\ Office!StaffAssumption /\ Wall!PatronsAssumption
      /\ Pages!PagingAssumption /\ Figs!FiguresAssumption /\ Counter!VoucherDeskAssumption
  BY DesksAssumption DEF DesksAssumption
<1>2. Spec => []TypeOK
  BY <1>1, TypeCorrect
<1>3. Talks!Spec => []TalksInv
  BY <1>1, TalksInvariance
<1>4. Office!Spec => []OfficeInv
  BY <1>1, OfficeInvariance
<1>5. Wall!Spec => []WallInv
  BY <1>1, WallInvariance
<1>6. Door!Spec => []DoorInv
  BY <1>1, DoorInvariance
<1>7. Pages!Spec => []PagesInv
  BY <1>1, PagesInvariance
<1>8. Figs!Spec => []FigsInv
  BY <1>1, FigsInvariance
<1>9. Counter!Spec => []CounterInv
  BY <1>1, CounterInvariance
<1>10. TypeOK /\ TalksInv /\ OfficeInv /\ WallInv /\ DoorInv /\ PagesInv /\ FigsInv
         /\ CounterInv => TypesOK
  BY DEF TypesOK, TalksInv, OfficeInv, WallInv, DoorInv, PagesInv, FigsInv, CounterInv
<1> QED
  BY <1>2, <1>3, <1>4, <1>5, <1>6, <1>7, <1>8, <1>9, <1>10, PTL DEF DesksSpec
=============================================================================
