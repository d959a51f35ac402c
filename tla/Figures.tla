------------------------------- MODULE Figures -------------------------------
(***************************************************************************)
(* What the managers are shown: who watched which talk and for how long    *)
(* (routes/streaming_analytics.py, repository/stream_watch.py), and where  *)
(* the people come from who paid (routes/user_analytics.py,                *)
(* repository/user_analytics.py).  The figures are queries; the tables     *)
(* they read are filled by handlers that are modelled elsewhere and appear *)
(* here with what they write to the columns that are read.                 *)
(*                                                                         *)
(* Each page of watch figures ends the abandoned sessions first; ended_at  *)
(* is read by none of the queries below.                                   *)
(***************************************************************************)
EXTENDS Integers, FiniteSets, Functions

CONSTANTS
  Session, Payment, \* ids
  User, Schedule,
  Country,
  CountryOf,        \* [States -> Country]: table state
  StateOf,          \* [Cities -> States]: table city
  Qualifies,        \* STREAM_QUALIFIED_SECONDS
  Minute,           \* sixty seconds
  MaxSeconds,       \* bound: what a session is credited with
  MaxWrites,        \* bound: rows written
  Absent, Null

States == DOMAIN CountryOf
Cities == DOMAIN StateOf
Mode == {"LIVE", "REWATCH"}
Row == [user : User, schedule : Schedule, mode : Mode, seconds : 0..MaxSeconds,
        qualified : BOOLEAN]
Place == [country : Country \cup {Null}, state : States \cup {Null},
          city : Cities \cup {Null}]

FiguresAssumption ==
  /\ IsFiniteSet(User) /\ IsFiniteSet(Session) /\ IsFiniteSet(Schedule)
  /\ IsFiniteSet(Country) /\ IsFiniteSet(States) /\ IsFiniteSet(Cities)
  /\ CountryOf \in [States -> Country] /\ StateOf \in [Cities -> States]  \* foreign keys
  /\ Null \notin Mode \cup Schedule \cup Country \cup States \cup Cities
  /\ Minute \in Nat \ {0}
  /\ Absent \notin Row /\ Absent \notin [user : User, status : {"PAID", "UNPAID"}]
  /\ MaxSeconds \in Nat /\ MaxWrites \in Nat

VARIABLES
  session,   \* table stream_watch_session
  payment,   \* table payment: user and status
  user,      \* table user: the location
  writes

vars == <<session, payment, user, writes>>

TypeOK ==
  /\ session \in [Session -> Row \cup {Absent}]
  /\ payment \in [Payment -> [user : User, status : {"PAID", "UNPAID"}] \cup {Absent}]
  /\ user \in [User -> Place]
  /\ writes \in 0..MaxWrites

Init ==
  /\ session = [x \in Session |-> Absent]
  /\ payment = [p \in Payment |-> Absent]
  /\ user = [u \in User |-> [country |-> Null, state |-> Null, city |-> Null]]
  /\ writes = 0

-----------------------------------------------------------------------------
Counts == writes < MaxWrites /\ writes' = writes + 1

\* create_watch_session
Starts(x) ==
  /\ Counts
  /\ session[x] = Absent
  /\ \E u \in User, s \in Schedule, m \in Mode :
       session' = [session EXCEPT ![x] =
         [user |-> u, schedule |-> s, mode |-> m, seconds |-> 0, qualified |-> FALSE]]
  /\ UNCHANGED <<payment, user>>

Qualified(seconds) == seconds >= Qualifies

\* update_heartbeat
Beats(x) ==
  /\ Counts
  /\ session[x] # Absent
  /\ \E n \in 1..(MaxSeconds - session[x].seconds) :
       session' = [session EXCEPT ![x].seconds = @ + n,
                                  ![x].qualified = Qualified(session[x].seconds + n)]
  /\ UNCHANGED <<payment, user>>

\* create_payment, which grants a free ticket at once, and the settlement.
Buys(p) ==
  /\ Counts
  /\ \/ /\ payment[p] = Absent
        /\ \E u \in User, s \in {"PAID", "UNPAID"} :
             payment' = [payment EXCEPT ![p] = [user |-> u, status |-> s]]
     \/ /\ payment[p] # Absent /\ payment[p].status = "UNPAID"
        /\ payment' = [payment EXCEPT ![p].status = "PAID"]
  /\ UNCHANGED <<session, user>>

\* validate_location_hierarchy: a country always, a city in its state only.
ValidLocation(l) ==
  /\ l.country # Null
  /\ l.state # Null => CountryOf[l.state] = l.country
  /\ l.city # Null => StateOf[l.city] = l.state

\* update_user_profile; one profile of a user is saved at a time.
Saves(u) ==
  /\ Counts
  /\ \E l \in Place : ValidLocation(l) /\ user' = [user EXCEPT ![u] = l]
  /\ UNCHANGED <<session, payment>>

Next ==
  \/ \E x \in Session : Starts(x) \/ Beats(x)
  \/ \E p \in Payment : Buys(p)
  \/ \E u \in User : Saves(u)

Spec == Init /\ [][Next]_vars

-----------------------------------------------------------------------------
(* Who watched; `mode` is Null where the request names none. *)

Rows == {x \in Session : session[x] # Absent /\ session[x].qualified}
InMode(mode) == {x \in Rows : mode \in {Null, session[x].mode}}

\* Mutant: the filter of a schedule replaces the one of `qualified`.
AllOf(s) == {x \in Session : session[x] # Absent /\ session[x].schedule = s}
OfSchedule(s) == {x \in Rows : session[x].schedule = s}

\* count(distinct user_id)
Watchers(rows) == Cardinality({session[x].user : x \in rows})
Seconds(rows) == SumFunction([x \in rows |-> session[x].seconds])
Minutes(rows) == Seconds(rows) \div Minute

Asked(m, mode) == mode \in {Null, m}

Summary(rows, mode) ==
  [live |-> IF Asked("LIVE", mode) THEN Watchers(rows \cap InMode("LIVE")) ELSE 0,
   rewatch |-> IF Asked("REWATCH", mode) THEN Watchers(rows \cap InMode("REWATCH")) ELSE 0,
   total |-> Watchers(rows \cap InMode(mode)),
   minutes |-> Minutes(rows \cap InMode(mode))]

\* get_analytics_by_schedule and get_analytics_overall, two texts of one query.
BySchedule(s, mode) == Summary(OfSchedule(s), mode)
Overall(s, mode) ==
  Summary(IF s = Null THEN Rows ELSE {x \in Rows : session[x].schedule = s}, mode)

\* get_watch_detail_by_schedule: a line for each session.
Detail(s) == {<<x, session[x].user, session[x].seconds>> : x \in OfSchedule(s)}

\* The three pages; the second has a line for each schedule with a stream,
\* which here all have.
SummaryPage(s, mode) == Overall(s, mode)
StreamsPage(s, mode) ==
  [t \in {t \in Schedule : s \in {Null, t}} |-> BySchedule(t, mode)]
DetailPage(s) == [figures |-> BySchedule(s, Null), watchers |-> Detail(s)]

-----------------------------------------------------------------------------
(* Where they come from *)

\* Nothing sets deleted_at of a user.
Payers == {u \in User : \E p \in Payment : payment[p] = [user |-> u, status |-> "PAID"]}
\* count(distinct user.id) of those who paid.
Paying(us) == Cardinality(us \cap Payers)

ByCity(c) == Paying({u \in User : user[u].city = c})
ByState(s) == Paying({u \in User : user[u].state = s})
ByCountry(c) == Paying({u \in User : user[u].country = c})

\* The three pages, a number for each place with somebody.
CityPage == [c \in {c \in Cities : ByCity(c) > 0} |-> ByCity(c)]
StatePage == [s \in {s \in States : ByState(s) > 0} |-> ByState(s)]
CountryPage == [c \in {c \in Country : ByCountry(c) > 0} |-> ByCountry(c)]

-----------------------------------------------------------------------------
(* Properties *)

\* The pages agree: a schedule on the overview, in the list and in its detail
\* has the same figures, and those of all schedules are the overview's, but
\* for the minutes that each figure rounds down and for watchers of several.
PagesAgree ==
  \A m \in Mode \cup {Null} :
    LET lines == StreamsPage(Null, m)
        all == SummaryPage(Null, m)
        minutes == SumFunction([s \in Schedule |-> lines[s].minutes])
    IN /\ lines = [s \in Schedule |-> SummaryPage(s, m)]
       /\ minutes <= all.minutes
       /\ Schedule # {} => all.minutes < minutes + Cardinality(Schedule)
       /\ all.total <= SumFunction([s \in Schedule |-> lines[s].total])
       /\ m = Null => \A s \in Schedule :
            LET detail == DetailPage(s)
            IN /\ detail.figures = lines[s]
               /\ Cardinality({l[2] : l \in detail.watchers}) = lines[s].total

\* Asking for one mode shows that mode, and both together everything: a
\* watcher of both is in each figure and once in the total.
ModesAgree ==
  \A s \in Schedule \cup {Null} :
    LET all == SummaryPage(s, Null)
        live == SummaryPage(s, "LIVE")
        rewatch == SummaryPage(s, "REWATCH")
    IN /\ live.total = all.live /\ rewatch.total = all.rewatch
       /\ live.live = all.live /\ rewatch.rewatch = all.rewatch
       /\ live.rewatch = 0 /\ rewatch.live = 0
       /\ all.total <= all.live + all.rewatch
       /\ all.live <= all.total /\ all.rewatch <= all.total

\* The cities of a state hold no more people than the state, the states of a
\* country no more than the country, however they move between them.
RegionsNest ==
  LET of(page, x) == IF x \in DOMAIN page THEN page[x] ELSE 0
      parts(page, up, x) ==
        SumFunction([y \in {y \in DOMAIN page : up[y] = x} |-> page[y]])
  IN /\ \A s \in States : parts(CityPage, StateOf, s) <= of(StatePage, s)
     /\ \A c \in Country : parts(StatePage, CountryOf, c) <= of(CountryPage, c)

\* Who paid twice is one person.
PayersCountOnce ==
  SumFunction(CountryPage) = Cardinality({u \in Payers : user[u].country # Null})

\* All of these: a manager who compares two pages finds no contradiction.
FiguresAgree == PagesAgree /\ ModesAgree /\ RegionsNest /\ PayersCountOnce
=============================================================================
