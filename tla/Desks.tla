-------------------------------- MODULE Desks --------------------------------
(***************************************************************************)
(* The parts of the administration side by side: places, programme, staff, *)
(* patrons, check-in, the list of speakers, the figures and vouchers.  In  *)
(* these modules none writes what another reads: each has its variables,   *)
(* the locals of its handlers among them, and a behaviour of all is a      *)
(* behaviour of each.                                                      *)
(***************************************************************************)
EXTENDS Locations

CONSTANTS
  Request, Process,                            \* handlers, and where they run
  Absent, Gone,
  Schedule, Speaker, Order, MaxTime,           \* programme
  Entry, User, Type,                           \* staff
  Patron, File,                                \* patrons
  Clerk, Land, Province, LandOf, Kind,         \* check-in
  OnList, PageSize, Began, MaxTouches,               \* list of speakers
  Session, Payment, Talk, Region, RegionOf,    \* figures
  Qualifies, Minute, MaxSeconds, MaxRows,
  Form, Ticket, Address, MaxSales, MaxEdits    \* vouchers

VARIABLES
  schedule, speaker, place, listed, request,                   \* programme
  process,                                                     \* staff, check-in
  kind, table, overlapped, staffRequest,                       \* staff
  patron, files, used, patronRequest,                          \* patrons
  paid, user, settled, last, savesOverlapped, rowRequest,      \* check-in
  updated_at, pending, now, order_dir, page, counted, page_count,  \* list of speakers
  shown, quiet, late, stale, deleted, writes,
  session, payment, lives, rows,                               \* figures
  voucher, tickets, voucherRequest, buyer, sales, edits,       \* vouchers
  written, sold, said, formsOverlapped

Talks == INSTANCE Programme
Office == INSTANCE Staff WITH request <- staffRequest
Wall == INSTANCE Patrons WITH request <- patronRequest
Door == INSTANCE Attendance WITH
  Staff <- Clerk, Country <- Land, State <- Province, CountryOf <- LandOf,
  overlapped <- savesOverlapped, request <- rowRequest
Pages == INSTANCE Paging WITH Speaker <- OnList, MaxWrites <- MaxTouches
Figs == INSTANCE Figures WITH
  Schedule <- Talk, Country <- Land, CountryOf <- Region, StateOf <- RegionOf,
  MaxWrites <- MaxRows, user <- lives, writes <- rows
Counter == INSTANCE VoucherDesk WITH
  MaxSaves <- MaxEdits, saves <- edits, request <- voucherRequest,
  overlapped <- formsOverlapped, listed <- tickets

\* What the parts assume of their parameters.
ASSUME DesksAssumption ==
  /\ LocationsAssumption
  /\ Talks!ProgrammeAssumption /\ Office!StaffAssumption /\ Wall!PatronsAssumption
  /\ Pages!PagingAssumption /\ Figs!FiguresAssumption /\ Counter!VoucherDeskAssumption

DesksSpec ==
  /\ Spec /\ Talks!Spec /\ Office!Spec /\ Wall!Spec /\ Door!Spec /\ Pages!Spec /\ Figs!Spec
  /\ Counter!Spec

-----------------------------------------------------------------------------
(* Properties *)

\* Every table, and the locals of every handler, keep their types.
TypesOK ==
  /\ TypeOK /\ Talks!TypeOK /\ Office!TypeOK /\ Wall!TypeOK /\ Door!TypeOK /\ Pages!TypeOK
  /\ Figs!TypeOK /\ Counter!TypeOK

\* Programme: the list of a talk is the list of one request.
ListIsOneRequests == Talks!ListIsOneRequests
\* Programme: no two requests wait for each other's rows for ever.
EveryRequestEnds == Talks!EveryRequestEnds
\* Staff: no user has two entries, as long as requests do not overlap.
OneEntryPerUser == Office!OneEntryPerUser
\* Staff: a deleted entry does not come back.
DeletedForGood == Office!DeletedForGood
\* Patrons: the file that a row names is there.
ImageExists == Wall!ImageExists
\* Check-in, profiles and settlement: none takes back what another wrote.
UserRowIsWhole == Door!UserRowIsWhole
\* Paging: who is shown, and how often, while the list is written.
ListIsRead == Pages!ListIsRead
\* Figures: the pages do not contradict one another.
FiguresAgree == Figs!FiguresAgree
\* Vouchers: the row is what managers asked for, less what was sold.
VoucherIsKept == Counter!VoucherIsKept
=============================================================================
