----------------------------- MODULE VoucherDesk -----------------------------
(***************************************************************************)
(* How managers keep a voucher (routes/voucher.py, repository/voucher.py)  *)
(* while customers use it.  The handlers are plain functions in threads:   *)
(* each loads the row, changes attributes and commits, so two of them      *)
(* interleave even in one process.  Module TicketPayments has the purchase *)
(* in full, with the quota and the status of a voucher only; here a        *)
(* purchase is what it does to the row.  Nothing deletes a voucher.        *)
(***************************************************************************)
EXTENDS Integers

CONSTANTS
  Form,       \* what managers send: records of the columns and of "tickets"
  Ticket, Address,
  Request,
  MaxSales, MaxSaves,   \* bounds: purchases tried, requests of managers
  Null, Absent

Column == {"value", "type", "email_whitelist", "is_active", "quota"}

VARIABLES
  voucher,    \* the row of table voucher, or Absent
  listed,     \* its rows in voucher_ticket
  request,    \* a manager's handler between SELECT and commit
  buyer,      \* the purchase that holds the row, or Null
  sales, saves,
  written,    \* history: the quota last written
  sold,       \* history: units sold since then
  said,       \* history: what managers last asked for, by column
  overlapped  \* history: two requests of managers overlapped

vars == <<voucher, listed, request, buyer, sales, saves, written, sold, said, overlapped>>

Asked == Column \cup {"tickets"}
Values(c) == {f[c] : f \in Form}
RowOf(f) == [c \in Column |-> f[c]]
Row == [value : Values("value"), type : Values("type"),
        email_whitelist : Values("email_whitelist"), is_active : BOOLEAN, quota : Int]
Edit == [loaded : Row, had : SUBSET Ticket, new : Row, wants : SUBSET Ticket,
         asks : SUBSET Asked]

\* schemas/voucher.py: the types of a request; get_tickets_by_ids refuses a
\* ticket that is not there.
VoucherDeskAssumption ==
  /\ \A f \in Form : f.quota \in Int /\ f.is_active \in BOOLEAN /\ f.tickets \subseteq Ticket
  /\ Absent \notin Row

TypeOK ==
  /\ voucher \in Row \cup {Absent} /\ listed \in SUBSET Ticket
  /\ request \in [Request -> Edit \cup {Null}]
  /\ buyer \in [row : Row, locks : BOOLEAN] \cup {Null}
  /\ written \in Int /\ sold \in Nat
  /\ voucher # Absent => RowOf(said) \in Row /\ said.tickets \subseteq Ticket
  /\ sales \in Nat /\ saves \in Nat /\ overlapped \in BOOLEAN

Init ==
  /\ voucher = Absent /\ listed = {}
  /\ request = [r \in Request |-> Null]
  /\ buyer = Null
  /\ sales = 0 /\ saves = 0
  /\ written = 0 /\ sold = 0 /\ said = Null /\ overlapped = FALSE

-----------------------------------------------------------------------------
\* create_voucher; `code` is unique, so another one with it is refused.
Creates(f) ==
  /\ voucher = Absent
  /\ voucher' = RowOf(f) /\ listed' = f.tickets
  /\ said' = f /\ written' = f.quota
  /\ UNCHANGED <<request, buyer, sales, saves, sold, overlapped>>

\* The SELECT of a handler, and the attributes `cs` that it sets as `f` says;
\* get_tickets_by_ids has found every ticket.
Loads(r, f, cs) ==
  /\ voucher # Absent /\ request[r] = Null
  /\ saves < MaxSaves /\ saves' = saves + 1
  /\ request' = [request EXCEPT ![r] =
       [loaded |-> voucher, had |-> listed, asks |-> cs,
        new |-> [c \in Column |-> IF c \in cs THEN f[c] ELSE voucher[c]],
        wants |-> IF "tickets" \in cs THEN f.tickets ELSE listed]]
  /\ UNCHANGED <<voucher, listed, buyer, sales, written, sold, said, overlapped>>

UpdateWhole(r) == \E f \in Form : Loads(r, f, Asked)
UpdateStatus(r) == \E f \in Form : Loads(r, f, {"is_active"})
UpdateWhitelist(r) ==
  \E f \in Form : f.email_whitelist # Null /\ Loads(r, f, {"email_whitelist"})
UpdateQuota(r) == \E f \in Form : Loads(r, f, {"quota"})
UpdateValue(r) == \E f \in Form : Loads(r, f, {"value"})
UpdateType(r) == \E f \in Form : f.type # Null /\ Loads(r, f, {"type"})

\* Mutant: an UPDATE of all columns.
WholeRow(e) == e.new
\* The UPDATE of a flush sets the columns that differ from what was loaded.
Flushed(e) ==
  [c \in Column |-> IF e.new[c] # e.loaded[c] THEN e.new[c] ELSE voucher[c]]

\* The relationship is written as the difference to what was loaded.
Listed(e) == (listed \ (e.had \ e.wants)) \cup (e.wants \ e.had)

\* An UPDATE of the row, and the foreign key of a new row of voucher_ticket,
\* wait for a purchase that has the row FOR UPDATE.
Waits(e) ==
  /\ buyer # Null /\ buyer.locks
  /\ e.new # e.loaded \/ ~(e.wants \subseteq e.had)

\* The commit; a ticket that another request has listed breaks the unique
\* pair, one that it has removed may be missed by the DELETE.
Commits(r) ==
  LET e == request[r]
      others == {q \in Request \ {r} : request[q] # Null}
  IN /\ e # Null /\ ~Waits(e)
     /\ (e.wants \ e.had) \cap listed = {}
     /\ voucher' = Flushed(e) /\ listed' = Listed(e)
     /\ request' = [request EXCEPT ![r] = Null]
     /\ said' = [c \in Asked |-> IF c \notin e.asks THEN said[c]
                                 ELSE IF c = "tickets" THEN e.wants ELSE e.new[c]]
     /\ IF e.new.quota # e.loaded.quota
        THEN written' = e.new.quota /\ sold' = 0
        ELSE UNCHANGED <<written, sold>>
     /\ overlapped' = (overlapped \/ others # {})
     /\ UNCHANGED <<buyer, sales, saves>>

\* Its commit fails, or its process ends.
Fails(r) ==
  /\ request[r] # Null
  /\ request' = [request EXCEPT ![r] = Null]
  /\ UNCHANGED <<voucher, listed, buyer, sales, saves, written, sold, said, overlapped>>

ReadForUpdate == [row |-> voucher, locks |-> TRUE]

Usable(row, a, t) ==
  /\ row.is_active /\ row.quota > 0
  /\ row.email_whitelist \notin {Null, {}} => a \in row.email_whitelist
  /\ listed # {} => t \in listed

\* validate_and_use_voucher, up to the await of Mayar.
BuyerLocks ==
  /\ voucher # Absent /\ buyer = Null
  /\ sales < MaxSales /\ sales' = sales + 1
  /\ \E a \in Address, t \in Ticket : Usable(voucher, a, t)
  /\ buyer' = ReadForUpdate
  /\ UNCHANGED <<voucher, listed, request, saves, written, sold, said, overlapped>>

\* The commit of the purchase, with the quota it has read less one.
BuyerCommits ==
  /\ buyer # Null
  /\ voucher' = [voucher EXCEPT !.quota = buyer.row.quota - 1]
  /\ sold' = sold + 1 /\ buyer' = Null
  /\ UNCHANGED <<listed, request, sales, saves, written, said, overlapped>>

\* Mayar fails, or the process ends.
BuyerFails ==
  /\ buyer # Null /\ buyer' = Null
  /\ UNCHANGED <<voucher, listed, request, sales, saves, written, sold, said, overlapped>>

Next ==
  \/ \E f \in Form : Creates(f)
  \/ \E r \in Request :
       \/ UpdateWhole(r) \/ UpdateStatus(r) \/ UpdateWhitelist(r)
       \/ UpdateQuota(r) \/ UpdateValue(r) \/ UpdateType(r)
       \/ Commits(r) \/ Fails(r)
  \/ BuyerLocks \/ BuyerCommits \/ BuyerFails

Spec == Init /\ [][Next]_vars

-----------------------------------------------------------------------------
\* No manager gives units back or takes them by an edit of something else: the
\* quota is the one last written less what has been sold since, however the
\* requests overlap with one another and with purchases.
QuotaAddsUp == voucher # Absent => voucher.quota = written - sold

\* What a purchase was allowed by stands until it commits: nobody switches the
\* voucher off, takes the quota or changes type or whitelist under it.
SaleIsAllowed == buyer # Null => voucher = buyer.row

\* As long as requests of managers do not overlap, each column and the list of
\* tickets are what was last asked for; a PUT that leaves a ticket out takes
\* it away.  (Overlapping requests merge.)
FormIsKept ==
  voucher # Absent /\ ~overlapped =>
    /\ \A c \in Column \ {"quota"} : voucher[c] = said[c]
    /\ listed = said.tickets

\* Together: the row is what managers asked for, less what was sold.
VoucherIsKept == QuotaAddsUp /\ SaleIsAllowed /\ FormIsKept
=============================================================================
