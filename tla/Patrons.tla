------------------------------- MODULE Patrons -------------------------------
(***************************************************************************)
(* Patrons and their images (routes/patron.py, repository/patron.py,       *)
(* core/file.py): a row and a file, which no transaction keeps together.   *)
(*                                                                         *)
(* create and update write the file before the row that names it; update   *)
(* reads the row before it awaits the upload.  delete is a thread: it      *)
(* reads the row, deletes it, and removes the file it had read.            *)
(***************************************************************************)
CONSTANTS
  Patron,    \* ids of patrons, never used again
  File,      \* paths with a random name, never used again
  Request,
  Absent,    \* no row yet
  Gone,      \* the row was deleted
  Null       \* a patron without image

PatronsAssumption ==
  /\ {Absent, Gone, Null} \cap File = {}
  /\ Absent # Gone /\ Absent # Null /\ Gone # Null

VARIABLES
  patron,    \* table patron: image
  files,     \* the files that exist
  used,      \* the names that were given
  request

vars == <<patron, files, used, request>>

Idle == [pc |-> "idle"]
Saving == [pc : {"inserting", "uploading", "updating"}, id : Patron, image : File \cup {Null}]
Deleting == [pc : {"deleting", "unlinking"}, id : Patron, image : File \cup {Null}]

TypeOK ==
  /\ patron \in [Patron -> File \cup {Null, Absent, Gone}]
  /\ files \subseteq used /\ used \subseteq File
  /\ request \in [Request -> {Idle} \cup Saving \cup Deleting]

Init ==
  /\ patron = [p \in Patron |-> Absent]
  /\ files = {}
  /\ used = {}
  /\ request = [r \in Request |-> Idle]

-----------------------------------------------------------------------------
There(p) == patron[p] \notin {Absent, Gone}
Becomes(r, h) == request' = [request EXCEPT ![r] = h]

\* _upload_patron_image: no image, or a new file; a file whose writing fails
\* may be there nevertheless.
Uploads(r, p, next) ==
  \/ /\ Becomes(r, [pc |-> next, id |-> p, image |-> Null])
     /\ UNCHANGED <<files, used>>
  \/ \E f \in File \ used :
       /\ used' = used \cup {f}
       /\ \/ /\ files' = files \cup {f}
             /\ Becomes(r, [pc |-> next, id |-> p, image |-> f])
          \/ /\ files' \in {files, files \cup {f}}
             /\ Becomes(r, Idle)

CreateUploads(r, p) ==
  /\ request[r] = Idle
  /\ patron[p] = Absent /\ \A q \in Request : request[q] # Idle => request[q].id # p
  /\ Uploads(r, p, "inserting")
  /\ UNCHANGED patron

CreateCommits(r) ==
  LET h == request[r]
  IN /\ h.pc = "inserting"
     /\ patron' = [patron EXCEPT ![h.id] = h.image]
     /\ Becomes(r, Idle)
     /\ UNCHANGED <<files, used>>

UpdateLoads(r, p) ==
  /\ request[r] = Idle
  /\ There(p)
  /\ Becomes(r, [pc |-> "uploading", id |-> p, image |-> Null])
  /\ UNCHANGED <<patron, files, used>>

UpdateUploads(r) ==
  /\ request[r].pc = "uploading"
  /\ Uploads(r, request[r].id, "updating")
  /\ UNCHANGED patron

\* Mutant: the UPDATE of a row that is gone inserts it.
Upserted(h) == h.image
\* No new image keeps the old one; the UPDATE raises when the row is gone.
Updated(h) == IF ~There(h.id) \/ h.image = Null THEN patron[h.id] ELSE h.image

UpdateCommits(r) ==
  /\ request[r].pc = "updating"
  /\ patron' = [patron EXCEPT ![request[r].id] = Updated(request[r])]
  /\ Becomes(r, Idle)
  /\ UNCHANGED <<files, used>>

DeleteLoads(r, p) ==
  /\ request[r] = Idle
  /\ There(p)
  /\ Becomes(r, [pc |-> "deleting", id |-> p, image |-> patron[p]])
  /\ UNCHANGED <<patron, files, used>>

DeleteCommits(r) ==
  /\ request[r].pc = "deleting"
  /\ patron' = [patron EXCEPT ![request[r].id] = Gone]
  /\ Becomes(r, [request[r] EXCEPT !.pc = "unlinking"])
  /\ UNCHANGED <<files, used>>

\* Mutant: the file is removed before the row.
UnlinksFirst(h) == h.pc \in {"deleting", "unlinking"}
MayUnlink(h) == h.pc = "unlinking"

Unlinks(r) ==
  /\ MayUnlink(request[r])
  /\ files' = files \ {request[r].image}
  /\ Becomes(r, Idle)
  /\ UNCHANGED <<patron, used>>

\* A process dies, or the database fails.
Rollback(r) ==
  /\ request[r] # Idle
  /\ Becomes(r, Idle)
  /\ UNCHANGED <<patron, files, used>>

Next ==
  \E r \in Request :
    \/ \E p \in Patron : CreateUploads(r, p) \/ UpdateLoads(r, p) \/ DeleteLoads(r, p)
    \/ CreateCommits(r) \/ UpdateUploads(r) \/ UpdateCommits(r)
    \/ DeleteCommits(r) \/ Unlinks(r)
    \/ Rollback(r)

Spec == Init /\ [][Next]_vars

-----------------------------------------------------------------------------
(* Properties *)

\* get_patron_image finds the file.
Readable(p) == There(p) /\ patron[p] # Null /\ patron[p] \in files

\* The image a patron's row names is there to be read, in
\* whatever order uploads, commits and the removal of a file fall, and
\* wherever a request ends half-way.
ImageExists == \A p \in Patron : There(p) /\ patron[p] # Null => Readable(p)
=============================================================================
