--------------------------- MODULE LocationsProofs ---------------------------
(***************************************************************************)
(* For any files, batches, importers and users: an import that has ended   *)
(* is complete, a removal takes all or nothing, and no user is left with a *)
(* place that is gone.                                                     *)
(*                                                                         *)
(* A row never comes before its parents nor stays without them (Closed),   *)
(* which is why a removal that reaches its commit has left nothing: what   *)
(* came behind its back has a country, and that country was referred to.   *)
(* An import that no removal disturbed knows what it may skip (Progress).  *)
(***************************************************************************)
EXTENDS Locations, TLAPS

\* The foreign keys of the rows hold.
Closed == \A x \in there : Parents(x) \subseteq there

\* What a removal has deleted is nobody's place.
Unwanted ==
  clearing # Null => \A u \in Person : clearing.gone \cap Refers(home[u]) = {}

\* What an import has behind it is there, or in the batch it commits next.
Behind(h, rows) ==
  /\ h.part \in {2, 3} => Country \subseteq rows
  /\ h.part = 3 => State \subseteq rows
  /\ h.done \ h.batch \subseteq rows
  /\ h.batch \ h.new \subseteq rows
Progress == \A j \in Importer : job[j] # Null /\ ~job[j].disturbed => Behind(job[j], there)

IInv ==
  TypeOK /\ Closed /\ UsersKeepTheirPlace /\ Unwanted /\ Progress /\ ImportIsComplete

Import == [part : 1..3, done : SUBSET Ids, batch : SUBSET Ids,
           new : SUBSET Ids, disturbed : BOOLEAN]
Removal == [part : 1..3, gone : SUBSET Ids]

-----------------------------------------------------------------------------
LEMMA LemmaPart == Part[1] = Country /\ Part[2] = State /\ Part[3] = City
BY DEF Part

LEMMA LemmaInit ==
  ASSUME LocationsAssumption, Init
  PROVE  IInv
<1>1. Nowhere \in Place
  BY DEF Nowhere, Place
<1>4. TypeOK
  <2>1. runs \in 0..MaxRuns /\ saves \in 0..MaxSaves
    BY DEF LocationsAssumption, Init
  <2>2. home \in [Person -> Place]
    BY <1>1 DEF Init
  <2>3. there \subseteq Ids /\ clearing \in Removal \cup {Null}
    BY DEF Init
  <2>4. job \in [Importer -> Import \cup {Null}]
    BY DEF Init
  <2>5. saving \in [Person -> Place \cup {Null}] /\ complete \in BOOLEAN
    BY DEF Init
  <2> QED  BY <2>1, <2>2, <2>3, <2>4, <2>5 DEF TypeOK, Import, Removal
<1>2. \A u \in Person : Refers(home[u]) = {}
  BY DEF Init, Nowhere, Refers
<1>3. Closed /\ UsersKeepTheirPlace /\ Unwanted /\ Progress /\ ImportIsComplete
  BY <1>2 DEF Init, Closed, UsersKeepTheirPlace, Unwanted, Progress, ImportIsComplete
<1> QED  BY <1>3, <1>4 DEF IInv

\* An import reads the files.
LEMMA LemmaImportBegins ==
  ASSUME LocationsAssumption, IInv, NEW j \in Importer, ImportBegins(j)
  PROVE  IInv'
<1> DEFINE fresh == [part |-> 1, done |-> {}, batch |-> {}, new |-> {}, disturbed |-> FALSE]
<1>1. /\ job' = [job EXCEPT ![j] = fresh] /\ runs' = runs + 1 /\ runs < MaxRuns
      /\ UNCHANGED <<there, clearing, home, saving, saves, complete>>
  BY DEF ImportBegins
<1>2. fresh \in Import
  BY DEF Import
<1>3. TypeOK'
  BY <1>1, <1>2 DEF IInv, TypeOK, Import, LocationsAssumption
<1>4. \A i \in Importer : job'[i] = IF i = j THEN fresh ELSE job[i]
  BY <1>1 DEF IInv, TypeOK
<1>5. Progress'
  BY <1>1, <1>4 DEF IInv, Progress, Behind
<1> QED
  BY <1>1, <1>3, <1>5 DEF IInv, Closed, UsersKeepTheirPlace, Unwanted, ImportIsComplete

\* The rows up to the next commit are looked up.
LEMMA LemmaMerges ==
  ASSUME LocationsAssumption, IInv, NEW j \in Importer, Merges(j)
  PROVE  IInv'
<1> DEFINE h == job[j]
<1>1. PICK rows \in SUBSET (Part[h.part] \ h.done) :
        job' = [job EXCEPT ![j] = [h EXCEPT !.batch = rows, !.done = @ \cup rows, !.new = rows \ there]]
  BY DEF Merges
<1>2. /\ h # Null /\ h.batch = {}
      /\ UNCHANGED <<there, clearing, home, saving, runs, saves, complete>>
  BY DEF Merges
<1> DEFINE g == [h EXCEPT !.batch = rows, !.done = @ \cup rows, !.new = rows \ there]
<1>3. h \in Import
  BY <1>2 DEF IInv, TypeOK, Import
<1>4. rows \subseteq Ids
  BY <1>3, LemmaPart DEF Import, Ids
<1>5. /\ g \in Import /\ g.part = h.part /\ g.batch = rows /\ g.done = h.done \cup rows
      /\ g.new = rows \ there /\ g.disturbed = h.disturbed
  BY <1>3, <1>4 DEF Import
<1>6. job' = [job EXCEPT ![j] = g]
  BY <1>1
<1> HIDE DEF g
<1>7. TypeOK'
  BY <1>2, <1>5, <1>6 DEF IInv, TypeOK, Import
<1>8. \A i \in Importer : job'[i] = IF i = j THEN g ELSE job[i]
  BY <1>6 DEF IInv, TypeOK
<1>9. ~h.disturbed => Behind(h, there)
  BY <1>2 DEF IInv, Progress
<1>10. ~g.disturbed => Behind(g, there)
  BY <1>2, <1>5, <1>9 DEF Behind
<1>11. Progress'
  BY <1>2, <1>8, <1>10 DEF IInv, Progress, Behind
<1> QED
  BY <1>2, <1>7, <1>11 DEF IInv, Closed, UsersKeepTheirPlace, Unwanted, ImportIsComplete

\* A commit that fails, an interrupt: the import ends.
LEMMA LemmaImportEnds ==
  ASSUME LocationsAssumption, IInv, NEW j \in Importer, job' = [job EXCEPT ![j] = Null],
         UNCHANGED <<there, clearing, home, saving, runs, saves, complete>>
  PROVE  IInv'
<1>1. TypeOK'
  BY DEF IInv, TypeOK
<1>2. \A i \in Importer : job'[i] = IF i = j THEN Null ELSE job[i]
  BY DEF IInv, TypeOK
<1>3. Progress'
  BY <1>2 DEF IInv, Progress, Behind
<1> QED
  BY <1>1, <1>3 DEF IInv, Closed, UsersKeepTheirPlace, Unwanted, ImportIsComplete

-----------------------------------------------------------------------------
\* Rows that come with their parents disturb nobody.
LEMMA LemmaGrows ==
  ASSUME LocationsAssumption, IInv, NEW new \in SUBSET Ids,
         UNION {Parents(x) : x \in new} \subseteq there,
         there' = there \cup new, UNCHANGED <<clearing, home, saving, runs, saves>>
  PROVE  /\ there' \subseteq Ids /\ Closed' /\ UsersKeepTheirPlace' /\ Unwanted'
         /\ \A g : Behind(g, there) => Behind(g, there')
<1>1. there' \subseteq Ids
  BY DEF IInv, TypeOK
<1>2. \A x \in new : Parents(x) \subseteq there
  OBVIOUS
<1>3. \A x \in there : Parents(x) \subseteq there
  BY DEF IInv, Closed
<1>4. Closed'
  BY <1>2, <1>3 DEF Closed, Parents
<1>5. UsersKeepTheirPlace' /\ Unwanted'
  BY DEF IInv, UsersKeepTheirPlace, Unwanted
<1>6. \A g : Behind(g, there) => Behind(g, there')
  BY DEF Behind
<1> QED  BY <1>1, <1>4, <1>5, <1>6

\* The commit of a batch.
LEMMA LemmaCommitsBatch ==
  ASSUME LocationsAssumption, IInv, NEW j \in Importer, CommitsBatch(j)
  PROVE  IInv'
<1> DEFINE h == job[j]
           parents == UNION {Parents(x) : x \in h.new}
           fails == h.new \cap there # {} \/ ~(parents \subseteq there)
           all == Part[h.part] \subseteq h.done
<1>1. h # Null /\ UNCHANGED <<clearing, home, saving, runs, saves>>
  BY DEF CommitsBatch
<1>2. h \in Import
  BY <1>1 DEF IInv, TypeOK, Import
<1>3. CASE fails
  <2>1. job' = [job EXCEPT ![j] = Null] /\ UNCHANGED <<there, complete>>
    BY <1>3 DEF CommitsBatch
  <2> QED  BY <1>1, <2>1, LemmaImportEnds
<1>4. CASE ~fails
  <2>1. there' = there \cup h.new
    BY <1>4 DEF CommitsBatch, Stored
  <2>2. h.new \in SUBSET Ids
    BY <1>2 DEF Import
  <2>3. /\ there' \subseteq Ids /\ Closed' /\ UsersKeepTheirPlace' /\ Unwanted'
        /\ \A g : Behind(g, there) => Behind(g, there')
    BY <1>1, <1>4, <2>1, <2>2, LemmaGrows
  <2>4. ~h.disturbed => /\ Behind(h, there) /\ h.done \subseteq there'
    BY <1>1, <2>1 DEF IInv, Progress, Behind
  <2>5. \A i \in Importer : i # j /\ job[i] # Null /\ ~job[i].disturbed => Behind(job[i], there')
    BY <2>3 DEF IInv, Progress
  <2>6. complete => there' = Ids
    BY <2>1, <2>3 DEF IInv, ImportIsComplete
  <2>7. CASE ~all
    <3> DEFINE g == [h EXCEPT !.batch = {}]
    <3>1. job' = [job EXCEPT ![j] = g] /\ complete' = complete
      BY <1>4, <2>7 DEF CommitsBatch
    <3>2. /\ g \in Import /\ g.part = h.part /\ g.batch = {} /\ g.done = h.done
          /\ g.disturbed = h.disturbed
      BY <1>2 DEF Import
    <3> HIDE DEF g
    <3>3. \A i \in Importer : job'[i] = IF i = j THEN g ELSE job[i]
      BY <3>1 DEF IInv, TypeOK
    <3>4. TypeOK'
      BY <1>1, <2>3, <3>1, <3>2 DEF IInv, TypeOK, Import
    <3>5. ~g.disturbed => Behind(g, there')
      BY <2>1, <2>4, <3>2 DEF Behind
    <3>6. Progress'
      BY <2>5, <3>3, <3>5 DEF Progress, Behind
    <3> QED  BY <2>3, <2>6, <3>1, <3>4, <3>6 DEF IInv, ImportIsComplete
  <2>8. CASE all /\ h.part < 3
    <3> DEFINE g == [h EXCEPT !.batch = {}, !.part = @ + 1]
    <3>1. job' = [job EXCEPT ![j] = g] /\ complete' = complete
      BY <1>4, <2>8 DEF CommitsBatch
    <3>2. /\ g \in Import /\ g.part = h.part + 1 /\ g.batch = {} /\ g.done = h.done
          /\ g.disturbed = h.disturbed
      <4>1. h.part + 1 \in 1..3
        BY <1>2, <2>8 DEF Import
      <4> QED  BY <1>2, <4>1 DEF Import
    <3> HIDE DEF g
    <3>3. \A i \in Importer : job'[i] = IF i = j THEN g ELSE job[i]
      BY <3>1 DEF IInv, TypeOK
    <3>4. TypeOK'
      BY <1>1, <2>3, <3>1, <3>2 DEF IInv, TypeOK, Import
    <3>5. ASSUME ~g.disturbed
          PROVE  Behind(g, there')
      <4>1. Behind(h, there) /\ h.done \subseteq there' /\ there \subseteq there'
        BY <2>1, <2>4, <3>2, <3>5
      <4>2. CASE h.part = 1
        <5>1. Country \subseteq there'
          BY <2>8, <4>1, <4>2, LemmaPart
        <5> QED  BY <3>2, <4>1, <4>2, <5>1 DEF Behind
      <4>3. CASE h.part = 2
        <5>1. State \subseteq there' /\ Country \subseteq there'
          BY <2>8, <4>1, <4>3, LemmaPart DEF Behind
        <5> QED  BY <3>2, <4>1, <4>3, <5>1 DEF Behind
      <4>4. h.part \in {1, 2}
        BY <1>2, <2>8 DEF Import
      <4> QED  BY <4>2, <4>3, <4>4
    <3>6. Progress'
      BY <2>5, <3>3, <3>5 DEF Progress, Behind
    <3> QED  BY <2>3, <2>6, <3>1, <3>4, <3>6 DEF IInv, ImportIsComplete
  <2>9. CASE all /\ h.part = 3
    <3>1. job' = [job EXCEPT ![j] = Null] /\ complete' = (complete \/ ~h.disturbed)
      BY <1>4, <2>9 DEF CommitsBatch
    <3>2. \A i \in Importer : job'[i] = IF i = j THEN Null ELSE job[i]
      BY <3>1 DEF IInv, TypeOK
    <3>3. TypeOK'
      BY <1>1, <2>3, <3>1 DEF IInv, TypeOK
    <3>4. Progress'
      BY <2>5, <3>2 DEF Progress, Behind
    <3>5. ASSUME ~h.disturbed
          PROVE  there' = Ids
      <4>1. Behind(h, there) /\ h.done \subseteq there' /\ there \subseteq there'
        BY <2>1, <2>4, <3>5
      <4>2. City \subseteq there'
        BY <2>9, <4>1, LemmaPart
      <4>3. Country \subseteq there' /\ State \subseteq there'
        BY <2>9, <4>1 DEF Behind
      <4> QED  BY <2>3, <4>2, <4>3 DEF Ids
    <3>6. ImportIsComplete'
      BY <2>6, <3>1, <3>5 DEF ImportIsComplete, Ids
    <3> QED  BY <2>3, <3>3, <3>4, <3>6 DEF IInv
  <2>10. h.part \in 1..3
    BY <1>2 DEF Import
  <2> QED  BY <2>7, <2>8, <2>9, <2>10
<1> QED  BY <1>3, <1>4

-----------------------------------------------------------------------------
\* The operator begins a removal.
LEMMA LemmaClearBegins ==
  ASSUME LocationsAssumption, IInv, ClearBegins
  PROVE  IInv'
<1>1. TypeOK'
  BY DEF ClearBegins, IInv, TypeOK, LocationsAssumption
<1>2. Unwanted'
  BY DEF ClearBegins, Unwanted
<1>3. UNCHANGED <<there, job, home, complete>>
  BY DEF ClearBegins
<1> QED
  BY <1>1, <1>2, <1>3 DEF IInv, Closed, UsersKeepTheirPlace, Progress, Behind, ImportIsComplete

LEMMA LemmaClearEnds ==
  ASSUME LocationsAssumption, IInv, clearing' = Null,
         UNCHANGED <<there, job, home, saving, runs, saves, complete>>
  PROVE  IInv'
<1>1. TypeOK'
  BY DEF IInv, TypeOK
<1> QED
  BY <1>1 DEF IInv, Closed, UsersKeepTheirPlace, Unwanted, Progress, Behind, ImportIsComplete

\* A removal that reaches its commit has deleted every row: one that is left
\* would have a country, and the statement that deletes it would have failed.
LEMMA LemmaNothingLeft ==
  ASSUME LocationsAssumption, IInv, NEW gone, there \cap Country \subseteq gone,
         \A x \in there \cap Country : ~Referred(x, gone)
  PROVE  there \subseteq gone
<1>1. SUFFICES ASSUME NEW y \in there, y \notin gone
               PROVE  FALSE
  OBVIOUS
<1>2. y \in Ids /\ Parents(y) \subseteq there
  BY DEF IInv, TypeOK, Closed
<1>3. y \notin Country
  BY <1>1
<1>4. \E c \in Country : c \in Parents(y)
  <2>1. CASE y \in City
    <3>1. StateOf[y] \in State /\ CountryOf[StateOf[y]] \in Country
      BY <2>1 DEF LocationsAssumption
    <3> QED  BY <2>1, <3>1 DEF Parents
  <2>2. CASE y \in State
    <3>1. CountryOf[y] \in Country /\ y \notin City
      BY <2>2 DEF LocationsAssumption
    <3> QED  BY <2>2, <3>1 DEF Parents
  <2> QED  BY <1>2, <1>3, <2>1, <2>2 DEF Ids
<1> QED  BY <1>1, <1>2, <1>4 DEF Referred, ByRows

\* The next statement of a removal, with the commit after the last one.
LEMMA LemmaDeletes ==
  ASSUME LocationsAssumption, IInv, Deletes
  PROVE  IInv' /\ (there \ there' # {} => there' = {})
<1> DEFINE rows == there \cap Part[clearing.part]
           h == [part |-> clearing.part - 1, gone |-> clearing.gone \cup rows]
           fails == \E x \in rows : Referred(x, h.gone)
<1>1. clearing # Null /\ UNCHANGED <<home, saving, runs, saves>>
  BY DEF Deletes
<1>2. clearing \in Removal
  BY <1>1 DEF IInv, TypeOK, Removal
<1>3. CASE fails
  <2>1. clearing' = Null /\ UNCHANGED <<there, job, complete>>
    BY <1>3 DEF Deletes
  <2> QED  BY <1>1, <2>1, LemmaClearEnds
<1>4. CASE ~fails
  <2>1. \A u \in Person : h.gone \cap Refers(home[u]) = {}
    <3>1. \A u \in Person : clearing.gone \cap Refers(home[u]) = {}
      BY <1>1 DEF IInv, Unwanted
    <3>2. \A u \in Person : rows \cap Refers(home[u]) = {}
      BY <1>4 DEF Referred
    <3> QED  BY <3>1, <3>2
  <2>2. CASE h.part # 0
    <3>1. there' = there /\ clearing' = h /\ UNCHANGED <<complete, job>>
      BY <1>4, <2>2 DEF Deletes, Committed
    <3>2. h \in Removal
      <4>1. clearing.part \in 1..3 /\ clearing.gone \subseteq Ids /\ rows \subseteq Ids
        BY <1>2 DEF Removal, IInv, TypeOK
      <4> QED  BY <2>2, <4>1 DEF Removal
    <3>3. TypeOK'
      BY <1>1, <3>1, <3>2 DEF IInv, TypeOK, Removal
    <3>4. Unwanted'
      BY <1>1, <2>1, <3>1 DEF Unwanted
    <3> QED
      BY <1>1, <3>1, <3>3, <3>4
      DEF IInv, Closed, UsersKeepTheirPlace, Progress, Behind, ImportIsComplete
  <2>3. CASE h.part = 0
    <3>1. /\ there' = there \ h.gone /\ clearing' = Null /\ complete' = FALSE
          /\ job' = [j \in Importer |->
               IF job[j] = Null THEN Null ELSE [job[j] EXCEPT !.disturbed = TRUE]]
      BY <1>4, <2>3 DEF Deletes, Committed
    <3>2. clearing.part = 1
      BY <1>2, <2>3 DEF Removal
    <3>3. rows = there \cap Country
      BY <3>2, LemmaPart
    <3>4. there \subseteq h.gone
      BY <1>4, <3>3, LemmaNothingLeft
    <3>5. there' = {}
      BY <3>1, <3>4
    <3>6. \A u \in Person : Refers(home[u]) = {}
      BY <2>1, <3>4 DEF IInv, UsersKeepTheirPlace
    <3>7. \A j \in Importer : job'[j] \in Import \cup {Null}
      BY <3>1 DEF IInv, TypeOK, Import
    <3>8. TypeOK'
      BY <1>1, <3>1, <3>5, <3>7 DEF IInv, TypeOK, Import
    <3>9. \A j \in Importer : job'[j] # Null => job'[j].disturbed
      BY <3>1 DEF IInv, TypeOK
    <3>10. Closed' /\ UsersKeepTheirPlace' /\ Unwanted' /\ ImportIsComplete'
      BY <1>1, <3>1, <3>5, <3>6 DEF Closed, UsersKeepTheirPlace, Unwanted, ImportIsComplete
    <3>11. Progress'
      BY <3>9 DEF Progress
    <3> QED  BY <3>5, <3>8, <3>10, <3>11 DEF IInv
  <2> QED  BY <2>2, <2>3
<1> QED  BY <1>3, <1>4

-----------------------------------------------------------------------------
\* A profile is validated.
LEMMA LemmaSaveLoads ==
  ASSUME LocationsAssumption, IInv, NEW u \in Person, SaveLoads(u)
  PROVE  IInv'
<1>1. TypeOK'
  BY DEF SaveLoads, IInv, TypeOK, LocationsAssumption
<1>2. UNCHANGED <<there, job, clearing, home, complete>>
  BY DEF SaveLoads
<1> QED
  BY <1>1, <1>2 DEF IInv, Closed, UsersKeepTheirPlace, Unwanted, Progress, Behind, ImportIsComplete

\* A profile is stored, unless a place has gone meanwhile.
LEMMA LemmaSaveCommits ==
  ASSUME LocationsAssumption, IInv, NEW u \in Person, SaveCommits(u)
  PROVE  IInv'
<1> DEFINE rows == Refers(saving[u]) \ Refers(home[u])
<1>1. /\ saving[u] # Null /\ ~Locked(rows)
      /\ home' = [home EXCEPT ![u] = IF rows \subseteq there THEN saving[u] ELSE @]
      /\ saving' = [saving EXCEPT ![u] = Null]
      /\ UNCHANGED <<there, job, clearing, runs, saves, complete>>
  BY DEF SaveCommits
<1>2. \A v \in Person : home'[v] =
        IF v = u /\ rows \subseteq there THEN saving[u] ELSE home[v]
  BY <1>1 DEF IInv, TypeOK
<1>3. TypeOK'
  BY <1>1 DEF IInv, TypeOK
<1>4. Refers(saving[u]) \subseteq rows \cup Refers(home[u])
  OBVIOUS
<1>5. UsersKeepTheirPlace'
  BY <1>1, <1>2, <1>4 DEF IInv, UsersKeepTheirPlace
<1>6. Unwanted'
  BY <1>1, <1>2, <1>4 DEF IInv, Unwanted, Locked
<1> QED
  BY <1>1, <1>3, <1>5, <1>6 DEF IInv, Closed, Progress, Behind, ImportIsComplete

LEMMA LemmaNext ==
  ASSUME LocationsAssumption, IInv, [Next]_vars
  PROVE  IInv' /\ (there \ there' # {} => there' = {})
<1>1. CASE UNCHANGED vars
  <2>1. TypeOK'
    BY <1>1 DEF IInv, TypeOK, vars
  <2> QED
    BY <1>1, <2>1 DEF vars, IInv, Closed, UsersKeepTheirPlace, Unwanted, Progress, Behind,
                      ImportIsComplete
<1>2. CASE Deletes
  BY <1>2, LemmaDeletes
<1>3. CASE \E j \in Importer : ImportBegins(j) \/ Merges(j) \/ CommitsBatch(j) \/ ImportFails(j)
  <2>1. PICK j \in Importer : ImportBegins(j) \/ Merges(j) \/ CommitsBatch(j) \/ ImportFails(j)
    BY <1>3
  <2>2. IInv'
    BY <2>1, LemmaImportBegins, LemmaMerges, LemmaCommitsBatch, LemmaImportEnds DEF ImportFails
  <2>3. there \subseteq there'
    BY <2>1 DEF ImportBegins, Merges, CommitsBatch, ImportFails
  <2> QED  BY <2>2, <2>3
<1>4. CASE ClearBegins \/ ClearFails
  <2>1. IInv'
    BY <1>4, LemmaClearBegins, LemmaClearEnds DEF ClearFails
  <2>2. there' = there
    BY <1>4 DEF ClearBegins, ClearFails
  <2> QED  BY <2>1, <2>2
<1>5. CASE \E u \in Person : SaveLoads(u) \/ SaveCommits(u)
  <2>1. IInv'
    BY <1>5, LemmaSaveLoads, LemmaSaveCommits
  <2>2. there' = there
    BY <1>5 DEF SaveLoads, SaveCommits
  <2> QED  BY <2>1, <2>2
<1> QED  BY <1>1, <1>2, <1>3, <1>4, <1>5 DEF Next

-----------------------------------------------------------------------------
\* Rows, imports, the removal and the users' places fit together.
THEOREM Invariance ==
  ASSUME LocationsAssumption
  PROVE  Spec => []IInv
<1>1. Init => IInv
  BY LemmaInit
<1>2. IInv /\ [Next]_vars => IInv'
  BY LemmaNext
<1> QED  BY <1>1, <1>2, PTL DEF Spec

\* An import that has ended with no removal meanwhile has left nothing out
\* (initial_country_city_state.py).
THEOREM Complete ==
  ASSUME LocationsAssumption
  PROVE  Spec => []ImportIsComplete
<1>1. IInv => ImportIsComplete
  BY DEF IInv
<1> QED  BY <1>1, Invariance, PTL

\* A removal takes all or nothing (cli.py).
THEOREM Whole ==
  ASSUME LocationsAssumption
  PROVE  Spec => ClearIsWhole
<1>1. IInv /\ [Next]_vars => [there \ there' # {} => there' = {}]_vars
  BY LemmaNext
<1> QED  BY <1>1, Invariance, PTL DEF Spec, ClearIsWhole

\* No user has a place that is gone, and what the lists offer is accepted
\* (validate_location_hierarchy).
THEOREM Stands ==
  ASSUME LocationsAssumption
  PROVE  Spec => []PlacesStand
<1>1. ASSUME IInv
      PROVE  OfferedIsAccepted
  BY <1>1 DEF LocationsAssumption, OfferedIsAccepted, Countries, StatesOf, CitiesOf, ValidLocation
<1>2. IInv => PlacesStand
  BY <1>1 DEF IInv, PlacesStand
<1> QED  BY <1>2, Invariance, PTL

\* Table and requests stay well typed.
THEOREM TypeCorrect ==
  ASSUME LocationsAssumption
  PROVE  Spec => []TypeOK
<1>1. IInv => TypeOK
  BY DEF IInv
<1> QED  BY <1>1, Invariance, PTL
=============================================================================
