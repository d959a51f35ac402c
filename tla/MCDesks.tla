------------------------------- MODULE MCDesks -------------------------------
(***************************************************************************)
(* Desks for TLC.  A property of a part sees that part only, so that it is *)
(* enough to move one at a time: `desk` is the part that moves, and the    *)
(* others stay where they begin.                                           *)
(***************************************************************************)
EXTENDS Desks, TLC

CONSTANTS w1, w2, t1, t2, a1, s1, x1

VARIABLE desk

\* The files of Locations.
MCCountryOf == [s \in {"Jawa", "Bali"} |-> "ID"]
MCStateOf == [c \in {"Depok", "Bogor", "Ubud"} |-> IF c = "Ubud" THEN "Bali" ELSE "Jawa"]

\* The places of Attendance and Figures.
MCLandOf == [s \in {"East"} |-> "SG"]
MCRegion == [s \in {"East", "West"} |-> IF s = "East" THEN "SG" ELSE "ID"]
MCRegionOf == [c \in {"Tampines"} |-> "East"]

FormOf(v, t, w, a, q, ts) ==
  [value |-> v, type |-> t, email_whitelist |-> w, is_active |-> a, quota |-> q,
   tickets |-> ts]
MCForm == {FormOf(1, Null, Null, TRUE, 2, {t1}), FormOf(1, "Speaker", {a1}, TRUE, 1, {t2}),
           FormOf(2, "Speaker", {}, FALSE, 2, {})}

programme == <<schedule, speaker, place, listed, request>>
office == <<kind, table, overlapped, staffRequest>>
wall == <<patron, files, used, patronRequest>>
door == <<paid, user, settled, last, savesOverlapped, rowRequest>>
list == <<updated_at, pending, now, order_dir, page, counted, page_count, shown, quiet, late,
          stale, deleted, writes>>
figures == <<session, payment, lives, rows>>
vouchers == <<voucher, tickets, voucherRequest, buyer, sales, edits, written, sold, said,
              formsOverlapped>>

\* Two processes, and no code compares them.
Together == [r \in Request |-> w1]
Apart == CHOOSE f \in [Request -> {w1, w2}] : \A q, r \in Request : q # r => f[q] # f[r]

\* Every talk is there, and one speaker has them all.
Booked ==
  /\ schedule = [s \in Schedule |-> CHOOSE slot \in Talks!Slot : Talks!Valid(slot)]
  /\ speaker = [x \in Speaker |-> IF x = x1 THEN CHOOSE u \in Person : TRUE ELSE Gone]
  /\ \E o \in Order :
       place = [s \in Schedule |-> [x \in Speaker |-> IF x = x1 THEN o ELSE Null]]
  /\ listed = place
  /\ request = [r \in Request |-> Talks!Idle]

MCInit ==
  /\ desk \in {"programme", "removals", "office", "wall", "door", "pages", "figures",
              "vouchers", "places"}
  /\ IF desk = "removals" THEN Booked ELSE Talks!Init
  /\ Init /\ Office!Init /\ Wall!Init /\ Door!Init /\ Pages!Init
  /\ Figs!Init /\ Counter!Init
  /\ desk # "office" => kind = "organizer"
  /\ process \in {Together, Apart}
  /\ desk \notin {"office", "door"} => process = Together
  /\ settled = "Non Participant" /\ user.country = "ID"
  /\ desk # "pages" => order_dir = "asc" /\ \A x \in OnList : updated_at[x] = 0 /\ pending[x] = 0
  /\ \A x, y \in OnList : pending[x] # 0 /\ pending[y] # 0 => x = y

MCNext ==
  /\ UNCHANGED <<desk, process>>
  /\ \/ /\ desk \in {"programme", "removals"} /\ Talks!Next
        /\ desk = "programme" => \A s \in Schedule \ {s1} : schedule'[s] = Absent
        /\ UNCHANGED <<vars, office, wall, door, list, figures, vouchers>>
     \/ /\ desk = "office" /\ Office!Next
        /\ UNCHANGED <<vars, programme, wall, door, list, figures, vouchers>>
     \/ /\ desk = "wall" /\ Wall!Next
        /\ UNCHANGED <<vars, programme, office, door, list, figures, vouchers>>
     \/ /\ desk = "door" /\ Door!Next
        /\ UNCHANGED <<vars, programme, office, wall, list, figures, vouchers>>
     \/ /\ desk = "pages" /\ Pages!Next
        /\ UNCHANGED <<vars, programme, office, wall, door, figures, vouchers>>
     \/ /\ desk = "figures" /\ Figs!Next
        /\ UNCHANGED <<vars, programme, office, wall, door, list, vouchers>>
     \/ /\ desk = "vouchers" /\ Counter!Next
        /\ UNCHANGED <<vars, programme, office, wall, door, list, figures>>
     \/ /\ desk = "places" /\ Next
        /\ UNCHANGED <<programme, office, wall, door, list, figures, vouchers>>

MCSpec ==
  /\ MCInit /\ [][MCNext]_<<desk, process, vars, programme, office, wall, door, list,
                       figures, vouchers>>
  /\ \A r \in Request :
       /\ SF_programme(Talks!Waits(r)) /\ WF_programme(Talks!Ends(r))
       /\ WF_programme(Talks!Detected(r))
=============================================================================
