------------------------------ MODULE Locations ------------------------------
(***************************************************************************)
(* Countries, states and cities: the operator's import and its removal     *)
(* (cli.py, seeders/initial_country_city_state.py), which run while the    *)
(* API offers them in lists (routes/locations.py) and users refer to them  *)
(* from their profiles.  The import commits every Batch rows and may be    *)
(* run again after it was interrupted: it inserts what is not there yet.   *)
(* The data of a row does not change from one import to the next.          *)
(***************************************************************************)
EXTENDS Integers, FiniteSets

CONSTANTS
  Country, State, City,   \* ids in the files
  CountryOf,              \* [State -> Country]
  StateOf,                \* [City -> State]
  Person, Importer,
  Batch,                  \* 50, 100 and 500 rows in the code
  MaxRuns, MaxSaves,      \* bounds: imports and removals, profiles sent
  Null

LocationsAssumption ==
  /\ CountryOf \in [State -> Country] /\ StateOf \in [City -> State]
  /\ Country \cap State = {} /\ Country \cap City = {} /\ State \cap City = {}
  /\ Null \notin Country \cup State \cup City
  /\ MaxRuns \in Nat /\ MaxSaves \in Nat

VARIABLES
  there,     \* the rows of the three tables
  job,       \* an import that runs, or Null
  clearing,  \* a removal that runs, or Null
  home,      \* table user: the location
  saving,    \* a profile between its validation and its commit, or Null
  runs, saves,
  complete   \* history: an import has ended, with no removal since it began

vars == <<there, job, clearing, home, saving, runs, saves, complete>>

Part == <<Country, State, City>>
Ids == Country \cup State \cup City
\* The foreign keys of a row.
Parents(x) ==
  IF x \in City THEN {StateOf[x], CountryOf[StateOf[x]]}
  ELSE IF x \in State THEN {CountryOf[x]} ELSE {}

Place == [country : Country \cup {Null}, state : State \cup {Null}, city : City \cup {Null}]
Nowhere == [country |-> Null, state |-> Null, city |-> Null]
Refers(l) == {l.country, l.state, l.city} \ {Null}

TypeOK ==
  /\ there \subseteq Ids
  /\ job \in [Importer -> [part : 1..3, done : SUBSET Ids, batch : SUBSET Ids,
                           new : SUBSET Ids, disturbed : BOOLEAN] \cup {Null}]
  /\ clearing \in [part : 1..3, gone : SUBSET Ids] \cup {Null}
  /\ home \in [Person -> Place] /\ saving \in [Person -> Place \cup {Null}]
  /\ runs \in 0..MaxRuns /\ saves \in 0..MaxSaves /\ complete \in BOOLEAN

Init ==
  /\ there = {} /\ complete = FALSE
  /\ job = [j \in Importer |-> Null] /\ clearing = Null
  /\ home = [u \in Person |-> Nowhere] /\ saving = [u \in Person |-> Null]
  /\ runs = 0 /\ saves = 0

-----------------------------------------------------------------------------
(* The import *)

\* The files are read and the nested cities flattened: Parents.
ImportBegins(j) ==
  /\ job[j] = Null /\ runs < MaxRuns
  /\ runs' = runs + 1
  /\ job' = [job EXCEPT ![j] =
       [part |-> 1, done |-> {}, batch |-> {}, new |-> {}, disturbed |-> FALSE]]
  /\ UNCHANGED <<there, clearing, home, saving, saves, complete>>

\* db.merge of the rows up to the next commit: each is looked up.
Merges(j) ==
  LET h == job[j]
      left == Part[h.part] \ h.done
  IN /\ h # Null /\ h.batch = {}
     /\ \E rows \in SUBSET left :
          /\ Cardinality(rows) = IF Cardinality(left) < Batch THEN Cardinality(left) ELSE Batch
          /\ job' = [job EXCEPT ![j] =
               [h EXCEPT !.batch = rows, !.done = @ \cup rows, !.new = rows \ there]]
     /\ UNCHANGED <<there, clearing, home, saving, runs, saves, complete>>

\* An insert waits for a removal that has deleted the row or a parent of it.
Locked(rows) == clearing # Null /\ rows \cap clearing.gone # {}

\* Mutant: the commit after the loop is missing.
NoLastCommit(h) == IF h.part = 3 /\ Cardinality(h.batch) < Batch THEN {} ELSE h.new
Stored(h) == h.new

\* The commit; it fails, and with it the import, if a row has come meanwhile or
\* a parent has gone.
CommitsBatch(j) ==
  LET h == job[j]
      parents == UNION {Parents(x) : x \in h.new}
  IN /\ h # Null /\ h.batch # {}
     /\ ~Locked(h.new \cup parents)
     /\ IF h.new \cap there # {} \/ ~(parents \subseteq there)
        THEN job' = [job EXCEPT ![j] = Null] /\ UNCHANGED <<there, complete>>
        ELSE /\ there' = there \cup Stored(h)
             /\ \/ /\ ~(Part[h.part] \subseteq h.done)
                   /\ job' = [job EXCEPT ![j] = [h EXCEPT !.batch = {}]]
                   /\ UNCHANGED complete
                \/ /\ Part[h.part] \subseteq h.done /\ h.part < 3
                   /\ job' = [job EXCEPT ![j] = [h EXCEPT !.batch = {}, !.part = @ + 1]]
                   /\ UNCHANGED complete
                \/ /\ Part[h.part] \subseteq h.done /\ h.part = 3
                   /\ job' = [job EXCEPT ![j] = Null]
                   /\ complete' = (complete \/ ~h.disturbed)
     /\ UNCHANGED <<clearing, home, saving, runs, saves>>

\* The operator interrupts it, or it dies.
ImportFails(j) ==
  /\ job[j] # Null
  /\ job' = [job EXCEPT ![j] = Null]
  /\ UNCHANGED <<there, clearing, home, saving, runs, saves, complete>>

-----------------------------------------------------------------------------
(* The removal *)

ClearBegins ==
  /\ clearing = Null /\ runs < MaxRuns
  /\ runs' = runs + 1
  /\ clearing' = [part |-> 3, gone |-> {}]
  /\ UNCHANGED <<there, job, home, saving, saves, complete>>

\* Mutant: the location columns of a user have no foreign key.
ByRows(x, gone) == \E y \in there \ gone : x \in Parents(y)
Referred(x, gone) == ByRows(x, gone) \/ \E u \in Person : x \in Refers(home[u])

\* Mutant: a commit after each statement.
CommitsEach(h) == h.gone
Committed(h) == IF h.part = 0 THEN h.gone ELSE {}

\* The next DELETE: cities, states, countries; with the last one the commit.
\* A row that something refers to fails the statement and undoes them all.
Deletes ==
  /\ clearing # Null
  /\ LET rows == there \cap Part[clearing.part]
         h == [part |-> clearing.part - 1, gone |-> clearing.gone \cup rows]
     IN IF \E x \in rows : Referred(x, h.gone)
        THEN clearing' = Null /\ UNCHANGED <<there, job, complete>>
        ELSE /\ there' = there \ Committed(h)
             /\ clearing' = IF h.part = 0 THEN Null ELSE h
             /\ IF h.part = 0
                THEN /\ complete' = FALSE
                     /\ job' = [j \in Importer |->
                          IF job[j] = Null THEN Null ELSE [job[j] EXCEPT !.disturbed = TRUE]]
                ELSE UNCHANGED <<complete, job>>
  /\ UNCHANGED <<home, saving, runs, saves>>

ClearFails ==
  /\ clearing # Null /\ clearing' = Null
  /\ UNCHANGED <<there, job, home, saving, runs, saves, complete>>

-----------------------------------------------------------------------------
(* Lists and profiles *)

\* get_countries, get_states for a country, get_cities for a state.
Countries == there \cap Country
StatesOf(c) == {s \in there \cap State : CountryOf[s] = c}
CitiesOf(s) == {t \in there \cap City : StateOf[t] = s}

\* validate_location_hierarchy
ValidLocation(l) ==
  /\ l.country \in there
  /\ l.state # Null => l.state \in there /\ CountryOf[l.state] = l.country
  /\ l.city # Null => l.city \in there /\ StateOf[l.city] = l.state

SaveLoads(u) ==
  /\ saving[u] = Null /\ saves < MaxSaves /\ saves' = saves + 1
  /\ \E l \in Place : ValidLocation(l) /\ saving' = [saving EXCEPT ![u] = l]
  /\ UNCHANGED <<there, job, clearing, home, runs, complete>>

\* The foreign keys of the columns that change wait for a removal, too.
SaveCommits(u) ==
  LET rows == Refers(saving[u]) \ Refers(home[u])
  IN /\ saving[u] # Null /\ ~Locked(rows)
     /\ home' = [home EXCEPT ![u] = IF rows \subseteq there THEN saving[u] ELSE @]
     /\ saving' = [saving EXCEPT ![u] = Null]
     /\ UNCHANGED <<there, job, clearing, runs, saves, complete>>

Next ==
  \/ \E j \in Importer : ImportBegins(j) \/ Merges(j) \/ CommitsBatch(j) \/ ImportFails(j)
  \/ ClearBegins \/ Deletes \/ ClearFails
  \/ \E u \in Person : SaveLoads(u) \/ SaveCommits(u)

Spec == Init /\ [][Next]_vars

-----------------------------------------------------------------------------
(* Properties *)

\* After an import that ran to its end every row of the files is there, however
\* often it was interrupted before and whoever imported next to it; unless a
\* removal ran meanwhile.
ImportIsComplete == complete => there = Ids

\* A removal takes all or nothing, also when a user or a city that came
\* meanwhile fails one of its statements.
ClearIsWhole == [][there \ there' # {} => there' = {}]_vars

\* No user is left with a place that is gone.
UsersKeepTheirPlace == \A u \in Person : Refers(home[u]) \subseteq there

\* Whatever the lists offer one after the other, each for what was chosen
\* before, is accepted in a profile, also in the middle of an import.
OfferedIsAccepted ==
  \A c \in Countries : \A s \in StatesOf(c) : \A t \in CitiesOf(s) \cup {Null} :
    ValidLocation([country |-> c, state |-> s, city |-> t])

\* What a user has chosen stays, and what one may choose is accepted.
PlacesStand == UsersKeepTheirPlace /\ OfferedIsAccepted
=============================================================================
