-------------------------------- MODULE Paging -------------------------------
(***************************************************************************)
(* The list of speakers (get_speaker_per_page_by_search in                 *)
(* repository/speaker.py), read page by page while speakers are created,   *)
(* updated and deleted.  It is ordered by updated_at, which create_speaker *)
(* and update_speaker set to the time of day: what is written moves to one *)
(* end of the list, and the pages that are still to come move with it.     *)
(*                                                                         *)
(* Each handler awaits nothing, so others run between two statements of it *)
(* on other processes only: between the count of a page and its rows, and  *)
(* between the time that is taken and the commit of the row.  One write of *)
(* a speaker is in progress at a time.                                     *)
(***************************************************************************)
EXTENDS Integers, FiniteSets

CONSTANTS
  Speaker,    \* ids of speakers
  PageSize,   \* page_size
  Began,      \* the time when the reading begins
  MaxWrites   \* bound: writes that begin during a reading, and deletions

PagingAssumption ==
  /\ IsFiniteSet(Speaker)
  /\ PageSize \in Nat \ {0} /\ Began \in Nat /\ MaxWrites \in Nat

VARIABLES
  updated_at,  \* table speaker: the column, 0 where there is no row
  pending,     \* the time of a write before its commit, or 0
  now,
  order_dir,   \* "asc" or "desc"
  page,        \* the page the reader asks for
  counted,     \* total_count of that page, -1 before it
  page_count,  \* that of the last answer, -1 before the first
  shown,       \* [Speaker -> how often the reader has seen him]
  quiet,       \* history: there since the reading began, and not written since
  late,        \* history: a row was committed with a time before it began
  stale,       \* history: rows were committed since the last count
  deleted,     \* history: a speaker was deleted
  writes

vars == <<updated_at, pending, now, order_dir, page, counted, page_count, shown, quiet,
          late, stale, deleted, writes>>

There == {x \in Speaker : updated_at[x] # 0}
\* No two times are the same.
TimesDiffer ==
  \A x, y \in Speaker :
    /\ x # y /\ updated_at[x] # 0 => updated_at[x] # updated_at[y]
    /\ x # y /\ pending[x] # 0 => pending[x] # pending[y]
    /\ pending[x] # 0 => pending[x] # updated_at[y]

TypeOK ==
  /\ updated_at \in [Speaker -> 0..now] /\ pending \in [Speaker -> 0..now] /\ TimesDiffer
  /\ now \in Nat
  /\ order_dir \in {"asc", "desc"}
  /\ page \in Nat \ {0} /\ counted \in Nat \cup {-1} /\ page_count \in Nat \cup {-1}
  /\ shown \in [Speaker -> Nat]
  /\ quiet \subseteq There
  /\ late \in BOOLEAN /\ stale \in BOOLEAN /\ deleted \in BOOLEAN /\ writes \in 0..MaxWrites

\* A reader begins with any list, and while others write.
Init ==
  /\ updated_at \in [Speaker -> 0..Began] /\ pending \in [Speaker -> 0..Began]
  /\ now = Began /\ TimesDiffer
  /\ order_dir \in {"asc", "desc"}
  /\ page = 1 /\ counted = -1 /\ page_count = -1
  /\ shown = [x \in Speaker |-> 0]
  /\ quiet = There
  /\ late = FALSE /\ stale = FALSE /\ deleted = FALSE /\ writes = 0

-----------------------------------------------------------------------------
Before(x) ==
  {y \in There : IF order_dir = "asc" THEN updated_at[y] < updated_at[x]
                                      ELSE updated_at[y] > updated_at[x]}

\* Mutant: pages are counted from zero.
OffsetFromZero(p) == p * PageSize
Offset(p) == (p - 1) * PageSize
Results(p) ==
  {x \in There : LET n == Cardinality(Before(x))
                 IN Offset(p) <= n /\ n < Offset(p) + PageSize}

PageCount(total) == IF total = 0 THEN 0 ELSE (total + PageSize - 1) \div PageSize

More == page_count = -1 \/ page <= page_count
Reading == (page > 1 \/ counted # -1) /\ More

CountsRows ==
  /\ More /\ counted = -1
  /\ counted' = Cardinality(There)
  /\ stale' = FALSE
  /\ UNCHANGED <<updated_at, pending, now, order_dir, page, page_count, shown, quiet, late,
                 deleted, writes>>

ReadsPage ==
  /\ counted # -1
  /\ shown' = [x \in Speaker |-> IF x \in Results(page) THEN shown[x] + 1 ELSE shown[x]]
  /\ page_count' = PageCount(counted)
  /\ page' = page + 1 /\ counted' = -1
  /\ UNCHANGED <<updated_at, pending, now, order_dir, quiet, late, stale, deleted, writes>>

\* Mutant: the default of the column, evaluated when the module is loaded.
TimeOfStart == 1
TimeOfDay == now + 1

\* create_speaker, update_speaker: `now` is taken.
Writes(x) ==
  /\ Reading /\ writes < MaxWrites
  /\ pending[x] = 0
  /\ pending' = [pending EXCEPT ![x] = TimeOfDay]
  /\ now' = now + 1
  /\ writes' = writes + 1
  /\ UNCHANGED <<updated_at, order_dir, page, counted, page_count, shown, quiet, late, stale,
                 deleted>>

Commits(x) ==
  /\ Reading /\ pending[x] # 0
  /\ updated_at' = [updated_at EXCEPT ![x] = pending[x]]
  /\ pending' = [pending EXCEPT ![x] = 0]
  /\ quiet' = quiet \ {x}
  /\ late' = (late \/ pending[x] <= Began)
  /\ stale' = TRUE
  /\ UNCHANGED <<now, order_dir, page, counted, page_count, shown, deleted, writes>>

\* delete_speaker; the UPDATE of a row that is gone raises.
Deletes(x) ==
  /\ Reading /\ writes < MaxWrites
  /\ x \in There
  /\ updated_at' = [updated_at EXCEPT ![x] = 0]
  /\ pending' = [pending EXCEPT ![x] = 0]
  /\ quiet' = quiet \ {x}
  /\ deleted' = TRUE /\ stale' = TRUE
  /\ writes' = writes + 1
  /\ UNCHANGED <<now, order_dir, page, counted, page_count, shown, late>>

Next == CountsRows \/ ReadsPage \/ \E x \in Speaker : Writes(x) \/ Commits(x) \/ Deletes(x)

Spec == Init /\ [][Next]_vars

-----------------------------------------------------------------------------
(* Properties *)

\* Whoever reads the newest first to the last page is shown every speaker
\* that nobody touched meanwhile, unless one was deleted, one was written with
\* an older time, or the last count was outdated when its page was read.
NewestFirstMissesNobody ==
  order_dir = "desc" /\ ~More /\ ~deleted /\ ~late /\ ~stale =>
    \A x \in quiet : shown[x] > 0

\* Whoever reads the oldest first is shown no such speaker twice, unless one
\* was written with an older time.
OldestFirstRepeatsNobody ==
  order_dir = "asc" /\ ~late => \A x \in quiet : shown[x] <= 1

\* If nothing was committed meanwhile, every page together is the list, each
\* speaker once.
PagesAreTheList ==
  quiet = There /\ ~deleted /\ ~More => \A x \in There : shown[x] = 1

\* What reading a list page by page promises while it is written.
ListIsRead == NewestFirstMissesNobody /\ OldestFirstRepeatsNobody /\ PagesAreTheList
=============================================================================
