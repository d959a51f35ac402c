----------------------- MODULE StreamLifecycleProofs -----------------------
(***************************************************************************)
(* Theorems about StreamLifecycle, for any sets of schedules, live         *)
(* streams, sessions and processes, and any overlap of requests.           *)
(***************************************************************************)
EXTENDS StreamLifecycle, TLAPS

(***************************************************************************)
(* The inductive invariant.                                                *)
(***************************************************************************)

\* What the locals of one handler say, whatever the others do.
LocalsOK(h) ==
  /\ h.pc \in {"calling", "inserting", "moving", "dropping", "deleting"}
       => h.schedule \in Schedule
  /\ h.pc \in {"inserting", "moving", "dropping", "undoing"} => h.new \in Live
  /\ h.pc \in {"moving", "dropping", "cleaning", "unmaking", "starting"}
       => h.old \in Live
  /\ h.pc = "starting" => h.schedule \in Schedule
  /\ h.pc = "calling" => h.new = None
  /\ h.pc = "updating" => h.event \in Event /\ h.row \in Row

\* A recreate_stream that has not finished replacing h.old.
Replacing(h) == h.pc \in {"calling", "inserting", "moving", "dropping"}
Inserted(h) == h.pc \in {"moving", "dropping"}
Making(h) == h.pc \in {"inserting", "moving", "dropping", "undoing"}

\* Mux has given out every id that is in use.
IdsGivenOut ==
  /\ \A m \in Live : Exists(m) => mux[m] # "none"
  /\ \A p \in Process :
       /\ Making(handler[p]) => mux[handler[p].new] # "none"
       /\ Replacing(handler[p]) /\ handler[p].old # None
            => mux[handler[p].old] # "none"

\* No two handlers made the same live stream, none replaces one that another
\* is still making, and its row is there from its insertion on.
NewApart ==
  /\ \A p, q \in Process :
       p # q /\ Making(handler[p]) /\ Making(handler[q])
         => handler[p].new # handler[q].new
  /\ \A p, q \in Process :
       Replacing(handler[p]) /\ Making(handler[q]) /\ handler[q].pc # "undoing"
         => handler[p].old # handler[q].new
  /\ \A p \in Process :
       /\ handler[p].pc = "inserting" => ~Exists(handler[p].new)
       /\ Inserted(handler[p]) =>
            /\ Exists(handler[p].new)
            /\ stream[handler[p].new].schedule = handler[p].schedule

\* The stream to be replaced belongs to the schedule; until it is replaced the
\* schedule has a stream besides the one the handler made.
OldStands ==
  \A p \in Process : LET h == handler[p] IN
    Replacing(h) /\ h.old # None =>
      /\ Exists(h.old) => stream[h.old].schedule = h.schedule
      /\ \E m \in StreamsOf(h.schedule) : m # h.new

Sound == TypeOK /\ \A p \in Process : LocalsOK(handler[p])

Ordered == IdsGivenOut /\ NewApart /\ OldStands

IInv == Sound /\ Ordered

(***************************************************************************)
(* Types.                                                                  *)
(***************************************************************************)

\* What the lookup returns.
LEMMA LookupResult ==
  ASSUME TypeOK, NEW x \in Schedule
  PROVE  /\ TheStream(x) \in Live \cup {None}
         /\ TheStream(x) # None => TheStream(x) \in StreamsOf(x)
         /\ TheStream(x) = None => StreamsOf(x) = {}
<1>1. StreamsOf(x) \subseteq Live
  BY DEF StreamsOf
<1>2. None \notin Live
  BY StreamAssumption
<1>3. CASE StreamsOf(x) = {}
  BY <1>3 DEF TheStream
<1>4. CASE StreamsOf(x) # {}
  <2>1. TheStream(x) \in StreamsOf(x)
    BY <1>4 DEF TheStream
  <2> QED  BY <2>1, <1>1, <1>2
<1> QED  BY <1>3, <1>4

\* A report gives a row, and never takes a recording away.
LEMMA ReportedRow ==
  ASSUME NEW row \in Row, NEW e \in Event
  PROVE  /\ Reported(row, e.type) \in Row
         /\ Reported(row, e.type).schedule = row.schedule
         /\ row.recorded => Reported(row, e.type).recorded
         /\ Reported(row, e.type).recorded # row.recorded => Reported(row, e.type).recorded
<1>1. e.type \in {"active", "recording", "idle", "asset.ready"}
  BY DEF Event
<1>2. CASE e.type = "asset.ready"
  BY <1>2 DEF Reported, Row
<1>3. CASE e.type = "recording"
  BY <1>3 DEF Reported, Row, Status
<1>4. CASE e.type = "active"
  BY <1>4 DEF Reported, Row, Status
<1>5. CASE e.type = "idle"
  BY <1>5 DEF Reported, Row, Status
<1> QED  BY <1>1, <1>2, <1>3, <1>4, <1>5

LEMMA FlushedRow ==
  ASSUME NEW now \in Row, NEW row \in Row, NEW e \in Event
  PROVE  /\ Flushed(now, row, Reported(row, e.type)) \in Row
         /\ Flushed(now, row, Reported(row, e.type)).schedule = now.schedule
         /\ now.recorded => Flushed(now, row, Reported(row, e.type)).recorded
<1> DEFINE after == Reported(row, e.type)
<1>1. /\ after \in Row
      /\ after.recorded # row.recorded => after.recorded
  BY ReportedRow
<1> HIDE DEF after
<1>2. /\ Flushed(now, row, after) \in Row
      /\ Flushed(now, row, after).schedule = now.schedule
      /\ now.recorded => Flushed(now, row, after).recorded
  BY <1>1 DEF Flushed, Row
<1> QED  BY <1>2 DEF after

\* A handler whose locals are well typed and mean what its pc says.
Proper(h) == h \in HandlerState /\ LocalsOK(h)

LEMMA IdleProper == Proper(Idle)
  BY DEF Proper, Idle, HandlerState, LocalsOK, PC

LEMMA BecomesProper ==
  ASSUME TypeOK, \A p \in Process : LocalsOK(handler[p]),
         NEW p \in Process, NEW h, Proper(h), Becomes(p, h)
  PROVE  /\ handler' \in [Process -> HandlerState]
         /\ \A q \in Process : LocalsOK(handler'[q])
  BY DEF TypeOK, Proper, Becomes

\* A step that leaves the locals alone but for the pc.
LEMMA GoesProper ==
  ASSUME TypeOK, \A p \in Process : LocalsOK(handler[p]),
         NEW p \in Process, NEW pc \in PC, Goes(p, pc),
         LocalsOK([handler[p] EXCEPT !.pc = pc])
  PROVE  /\ handler' \in [Process -> HandlerState]
         /\ \A q \in Process : LocalsOK(handler'[q])
<1>1. handler[p] \in HandlerState
  BY DEF TypeOK
<1>2. [handler[p] EXCEPT !.pc = pc] \in HandlerState
  BY <1>1 DEF HandlerState
<1> QED  BY <1>2, BecomesProper DEF Proper, Goes

LEMMA SoundInit == Init => Sound
  BY IdleProper DEF Init, Sound, TypeOK, Proper

LEMMA CreateCommitsSound ==
  ASSUME Sound, NEW p \in Process, NEW x \in Schedule, CreateCommits(p, x)
  PROVE  Sound'
<1> DEFINE h == [Idle EXCEPT !.pc = "calling", !.schedule = x]
<1>1. Proper(h)
  BY DEF Proper, Idle, HandlerState, LocalsOK, PC
<1>2. handler' \in [Process -> HandlerState] /\ \A q \in Process : LocalsOK(handler'[q])
  BY <1>1, BecomesProper DEF CreateCommits, Sound
<1> QED  BY <1>2 DEF Sound, TypeOK, CreateCommits

LEMMA RecreateLoadsSound ==
  ASSUME Sound, NEW p \in Process, NEW x \in Schedule, RecreateLoads(p, x)
  PROVE  Sound'
<1> DEFINE h == [Idle EXCEPT !.pc = "calling", !.schedule = x, !.old = TheStream(x)]
<1>1. Proper(h)
  BY LookupResult DEF Proper, Idle, HandlerState, LocalsOK, PC, Sound
<1>2. handler' \in [Process -> HandlerState] /\ \A q \in Process : LocalsOK(handler'[q])
  BY <1>1, BecomesProper DEF RecreateLoads, Sound
<1> QED  BY <1>2 DEF Sound, TypeOK, RecreateLoads, tables

LEMMA MuxCreatesSound ==
  ASSUME Sound, NEW p \in Process, NEW m \in Live, MuxCreates(p, m)
  PROVE  Sound'
<1> DEFINE h == [handler[p] EXCEPT !.pc = "inserting", !.new = m]
<1>1. Proper(h)
  BY DEF Proper, HandlerState, LocalsOK, PC, Sound, TypeOK, MuxCreates
<1>2. handler' \in [Process -> HandlerState] /\ \A q \in Process : LocalsOK(handler'[q])
  BY <1>1, BecomesProper DEF MuxCreates, Sound
<1> QED  BY <1>2 DEF Sound, TypeOK, MuxCreates, tables

LEMMA MuxCreateFailsSound ==
  ASSUME Sound, NEW p \in Process, MuxCreateFails(p)
  PROVE  Sound'
<1>1. handler' \in [Process -> HandlerState] /\ \A q \in Process : LocalsOK(handler'[q])
  BY IdleProper, BecomesProper DEF MuxCreateFails, Sound
<1> QED  BY <1>1 DEF Sound, TypeOK, MuxCreateFails, tables, Strays

LEMMA InsertsStreamSound ==
  ASSUME Sound, NEW p \in Process, InsertsStream(p)
  PROVE  Sound'
<1> DEFINE h == handler[p]
<1>1. h \in HandlerState /\ h.pc = "inserting" /\ LocalsOK(h)
  BY DEF Sound, TypeOK, InsertsStream
<1>2. handler' \in [Process -> HandlerState] /\ \A q \in Process : LocalsOK(handler'[q])
  <2>1. ASSUME Becomes(p, Idle)
        PROVE  /\ handler' \in [Process -> HandlerState]
               /\ \A q \in Process : LocalsOK(handler'[q])
    BY <2>1, IdleProper, BecomesProper DEF Sound
  <2>2. LocalsOK([h EXCEPT !.pc = "undoing"])
    BY <1>1 DEF LocalsOK, HandlerState
  <2>3. h.old # None => LocalsOK([h EXCEPT !.pc = "moving"])
    BY <1>1 DEF LocalsOK, HandlerState
  <2> QED  BY <2>1, <2>2, <2>3, GoesProper DEF InsertsStream, Sound, PC
<1>3. stream' \in [Live -> Row \cup {Absent}]
  BY <1>1 DEF Sound, TypeOK, InsertsStream, Row, Status, LocalsOK
<1> QED  BY <1>2, <1>3 DEF Sound, TypeOK, InsertsStream

LEMMA MovesSessionsSound ==
  ASSUME Sound, NEW p \in Process, MovesSessions(p)
  PROVE  Sound'
<1> DEFINE h == handler[p]
<1>1. h \in HandlerState /\ h.pc = "moving" /\ LocalsOK(h)
  BY DEF Sound, TypeOK, MovesSessions
<1>2. LocalsOK([h EXCEPT !.pc = "dropping"]) /\ LocalsOK([h EXCEPT !.pc = "undoing"])
  BY <1>1 DEF LocalsOK, HandlerState
<1>3. handler' \in [Process -> HandlerState] /\ \A q \in Process : LocalsOK(handler'[q])
  BY <1>2, GoesProper DEF MovesSessions, Sound, PC
<1>4. session' \in [Session -> Watch \cup {Absent}]
  BY <1>1 DEF Sound, TypeOK, MovesSessions, Moved, Watch, LocalsOK
<1> QED  BY <1>3, <1>4 DEF Sound, TypeOK, MovesSessions

LEMMA DropsRowSound ==
  ASSUME Sound, NEW p \in Process, DropsRow(p)
  PROVE  Sound'
<1> DEFINE h == handler[p]
<1>1. h \in HandlerState /\ h.pc = "dropping" /\ LocalsOK(h)
  BY DEF Sound, TypeOK, DropsRow
<1>2. LocalsOK([h EXCEPT !.pc = "cleaning"]) /\ LocalsOK([h EXCEPT !.pc = "undoing"])
  BY <1>1 DEF LocalsOK, HandlerState
<1>3. handler' \in [Process -> HandlerState] /\ \A q \in Process : LocalsOK(handler'[q])
  BY <1>2, GoesProper DEF DropsRow, Sound, PC
<1> QED  BY <1>3 DEF Sound, TypeOK, DropsRow

LEMMA DatabaseFailsSound ==
  ASSUME Sound, NEW p \in Process, DatabaseFails(p)
  PROVE  Sound'
<1> DEFINE h == handler[p]
<1>1. /\ h \in HandlerState /\ h.pc \in {"inserting", "moving", "dropping"}
      /\ LocalsOK(h)
  BY DEF Sound, TypeOK, DatabaseFails
<1>2. LocalsOK([h EXCEPT !.pc = "undoing"])
  BY <1>1 DEF LocalsOK, HandlerState
<1>3. handler' \in [Process -> HandlerState] /\ \A q \in Process : LocalsOK(handler'[q])
  BY <1>2, GoesProper DEF DatabaseFails, Sound, PC
<1> QED  BY <1>3 DEF Sound, TypeOK, DatabaseFails, tables

LEMMA DeletesLiveSound ==
  ASSUME Sound, NEW p \in Process, DeletesLive(p)
  PROVE  Sound'
<1>1. Doomed(handler[p]) \in Live
  BY DEF Sound, TypeOK, DeletesLive, Doomed, LocalsOK
<1>2. handler' \in [Process -> HandlerState] /\ \A q \in Process : LocalsOK(handler'[q])
  BY IdleProper, BecomesProper DEF DeletesLive, Sound
<1> QED  BY <1>1, <1>2 DEF Sound, TypeOK, DeletesLive, Deletes, Strays, tables

LEMMA DeleteLoadsSound ==
  ASSUME Sound, NEW p \in Process, NEW x \in Schedule, DeleteLoads(p, x)
  PROVE  Sound'
<1> DEFINE h == [Idle EXCEPT !.pc = "deleting", !.schedule = x, !.old = TheStream(x)]
<1>1. Proper(h)
  BY LookupResult DEF Proper, Idle, HandlerState, LocalsOK, PC, Sound
<1>2. handler' \in [Process -> HandlerState] /\ \A q \in Process : LocalsOK(handler'[q])
  BY <1>1, BecomesProper DEF DeleteLoads, Sound
<1> QED  BY <1>2 DEF Sound, TypeOK, DeleteLoads, tables

LEMMA DeleteCommitsSound ==
  ASSUME Sound, NEW p \in Process, DeleteCommits(p)
  PROVE  Sound'
<1> DEFINE h == handler[p]
<1>1. h \in HandlerState /\ h.pc = "deleting" /\ LocalsOK(h)
  BY DEF Sound, TypeOK, DeleteCommits
<1>2. handler' \in [Process -> HandlerState] /\ \A q \in Process : LocalsOK(handler'[q])
  <2>1. CASE h.old = None
    BY <2>1, IdleProper, BecomesProper DEF DeleteCommits, Sound
  <2>2. CASE h.old # None
    <3>1. LocalsOK([h EXCEPT !.pc = "unmaking"])
      BY <2>2, <1>1 DEF LocalsOK, HandlerState
    <3> QED  BY <2>2, <3>1, GoesProper DEF DeleteCommits, Sound, PC
  <2> QED  BY <2>1, <2>2
<1> QED  BY <1>2 DEF Sound, TypeOK, DeleteCommits

LEMMA HookLoadsSound ==
  ASSUME Sound, NEW p \in Process, NEW e \in events, HookLoads(p, e)
  PROVE  Sound'
<1> DEFINE h == [Idle EXCEPT !.pc = "updating", !.event = e, !.row = stream[e.live]]
<1>1. e \in Event /\ e.live \in Live
  BY DEF Sound, TypeOK, Event
<1>2. stream[e.live] \in Row
  BY <1>1 DEF Sound, TypeOK, HookLoads, Exists
<1>3. Proper(h)
  BY <1>1, <1>2 DEF Proper, Idle, HandlerState, LocalsOK, PC
<1>4. handler' \in [Process -> HandlerState] /\ \A q \in Process : LocalsOK(handler'[q])
  BY <1>3, BecomesProper DEF HookLoads, Sound
<1> QED  BY <1>4 DEF Sound, TypeOK, HookLoads, tables

LEMMA HookCommitsSound ==
  ASSUME Sound, NEW p \in Process, HookCommits(p)
  PROVE  Sound'
<1> DEFINE h == handler[p]  m == h.event.live
<1>1. h.event \in Event /\ h.row \in Row /\ m \in Live
  BY DEF Sound, TypeOK, HookCommits, LocalsOK, Event
<1>2. stream' \in [Live -> Row \cup {Absent}]
  <2>1. CASE Exists(m)
    <3>1. stream[m] \in Row
      BY <2>1, <1>1 DEF Exists, Sound, TypeOK
    <3>2. Flushed(stream[m], h.row, Reported(h.row, h.event.type)) \in Row
      BY <3>1, <1>1, FlushedRow
    <3> QED  BY <2>1, <3>2 DEF HookCommits, Sound, TypeOK
  <2>2. CASE ~Exists(m)
    BY <2>2 DEF HookCommits, Sound, TypeOK
  <2> QED  BY <2>1, <2>2
<1>3. handler' \in [Process -> HandlerState] /\ \A q \in Process : LocalsOK(handler'[q])
  BY IdleProper, BecomesProper DEF HookCommits, Sound
<1> QED  BY <1>2, <1>3 DEF Sound, TypeOK, HookCommits

LEMMA WatchLoadsSound ==
  ASSUME Sound, NEW p \in Process, NEW m \in Live, WatchLoads(p, m)
  PROVE  Sound'
<1> DEFINE h == [Idle EXCEPT !.pc = "starting", !.schedule = stream[m].schedule,
                         !.old = m]
<1>1. stream[m].schedule \in Schedule
  BY DEF Sound, TypeOK, WatchLoads, Exists, Row
<1>2. Proper(h)
  BY <1>1 DEF Proper, Idle, HandlerState, LocalsOK, PC
<1>3. handler' \in [Process -> HandlerState] /\ \A q \in Process : LocalsOK(handler'[q])
  BY <1>2, BecomesProper DEF WatchLoads, Sound
<1> QED  BY <1>3 DEF Sound, TypeOK, WatchLoads, tables

LEMMA WatchCommitsSound ==
  ASSUME Sound, NEW p \in Process, WatchCommits(p)
  PROVE  Sound'
<1>1. handler[p].old \in Live /\ handler[p].schedule \in Schedule
  BY DEF Sound, LocalsOK, WatchCommits
<1>2. session' \in [Session -> Watch \cup {Absent}]
  BY <1>1 DEF Sound, TypeOK, WatchCommits, Watch
<1>3. handler' \in [Process -> HandlerState] /\ \A q \in Process : LocalsOK(handler'[q])
  BY IdleProper, BecomesProper DEF WatchCommits, Sound
<1> QED  BY <1>2, <1>3 DEF Sound, TypeOK, WatchCommits

LEMMA CrashSound ==
  ASSUME Sound, NEW p \in Process, Crash(p)
  PROVE  Sound'
<1>1. Held(handler[p]) \subseteq Live
  BY DEF Sound, TypeOK, LocalsOK, Held, Crash
<1>2. handler' \in [Process -> HandlerState] /\ \A q \in Process : LocalsOK(handler'[q])
  BY IdleProper, BecomesProper DEF Crash, Sound
<1> QED  BY <1>1, <1>2 DEF Sound, TypeOK, Crash, Strays, tables

LEMMA EncoderSound ==
  ASSUME Sound, NEW m \in Live, EncoderConnects(m) \/ EncoderStops(m)
  PROVE  Sound'
<1>1. [live : {m}, type : {"active", "recording"}] \subseteq Event
  BY DEF Event
<1>2. [live : {m}, type : {"idle", "asset.ready"}] \subseteq Event
  BY DEF Event
<1> QED  BY <1>1, <1>2 DEF Sound, TypeOK, EncoderConnects, EncoderStops, tables, LocalsOK

(***************************************************************************)
(* Which stream replaces which.                                            *)
(***************************************************************************)

\* Most steps leave the rows and their schedules alone, take no live stream back,
\* and neither load a stream to be replaced nor make a new one.
RowsStand ==
  \A m \in Live : /\ Exists(m)' <=> Exists(m)
                  /\ Exists(m) => stream'[m].schedule = stream[m].schedule
GivenOutStays == \A m \in Live : mux[m] # "none" => mux'[m] # "none"
Quiet(h, new) ==
  /\ \/ ~Replacing(new)
     \/ new.old = None /\ ~Making(new)
     \/ /\ Inserted(h) /\ Inserted(new)
        /\ new.old = h.old /\ new.new = h.new /\ new.schedule = h.schedule
  /\ Making(new) => Making(h) /\ new.new = h.new /\ new.pc # "inserting"
AllQuiet == \A q \in Process : Quiet(handler[q], handler'[q]) \/ handler'[q] = handler[q]

LEMMA QuietStep ==
  ASSUME IInv, Sound', RowsStand, GivenOutStays, AllQuiet
  PROVE  Ordered'
<1> USE DEF IInv, Ordered
<1>1. \A q \in Process : Quiet(handler[q], handler'[q]) \/ handler'[q] = handler[q]
  BY DEF AllQuiet
<1>2. IdsGivenOut'
  BY <1>1 DEF IdsGivenOut, Sound, LocalsOK, RowsStand, GivenOutStays, Quiet, Making,
              Replacing, Inserted, TypeOK, HandlerState
<1>3. NewApart'
  <2>1. \A q, r \in Process :
          q # r /\ Making(handler'[q]) /\ Making(handler'[r])
            => handler'[q].new # handler'[r].new
    BY <1>1 DEF NewApart, Quiet
  <2>2. \A q, r \in Process :
          Replacing(handler'[q]) /\ Making(handler'[r]) /\ handler'[r].pc # "undoing"
            => handler'[q].old # handler'[r].new
    <3> SUFFICES ASSUME NEW q \in Process, NEW r \in Process, Replacing(handler'[q]),
                        Making(handler'[r]), handler'[r].pc # "undoing"
                 PROVE  handler'[q].old # handler'[r].new
      OBVIOUS
    <3>1. handler'[r].new \in Live /\ None \notin Live
      BY StreamAssumption DEF Sound, LocalsOK, Making
    <3>2. Making(handler[r]) /\ handler[r].pc # "undoing" /\ handler[r].new = handler'[r].new
      BY <1>1 DEF Quiet, Making, Inserted, Replacing
    <3>3. CASE handler'[q].old = None
      BY <3>3, <3>1
    <3>4. CASE handler'[q].old # None
      <4>1. Replacing(handler[q]) /\ handler[q].old = handler'[q].old
        BY <3>4, <1>1 DEF Quiet, Inserted, Replacing
      <4> QED  BY <4>1, <3>2 DEF NewApart
    <3> QED  BY <3>3, <3>4
  <2>3. ASSUME NEW q \in Process, handler'[q].pc = "inserting"
        PROVE  stream'[handler'[q].new] = Absent
    <3>1. handler[q].pc = "inserting" /\ handler[q].new = handler'[q].new
      BY <2>3, <1>1 DEF Quiet, Making
    <3>2. handler[q].new \in Live /\ ~Exists(handler[q].new)
      BY <3>1 DEF Sound, LocalsOK, NewApart
    <3> QED  BY <3>1, <3>2 DEF RowsStand, Exists
  <2>4. ASSUME NEW q \in Process, Inserted(handler'[q])
        PROVE  /\ stream'[handler'[q].new] # Absent
               /\ stream'[handler'[q].new].schedule = handler'[q].schedule
    <3>1. /\ Inserted(handler[q]) /\ handler[q].new = handler'[q].new
          /\ handler[q].schedule = handler'[q].schedule
      BY <2>4, <1>1 DEF Quiet, Making, Inserted, Replacing
    <3>2. handler[q].new \in Live /\ Exists(handler[q].new)
      BY <3>1 DEF Sound, LocalsOK, NewApart, Inserted
    <3>3. stream[handler[q].new].schedule = handler[q].schedule
      BY <3>1 DEF NewApart
    <3> QED  BY <3>1, <3>2, <3>3 DEF RowsStand, Exists
  <2> QED  BY <2>1, <2>2, <2>3, <2>4 DEF NewApart, Exists
<1>4. OldStands'
  <2> SUFFICES ASSUME NEW q \in Process, Replacing(handler'[q]), handler'[q].old # None
               PROVE  /\ stream'[handler'[q].old] # Absent
                           => stream'[handler'[q].old].schedule = handler'[q].schedule
                      /\ \E m \in Live :
                           /\ stream'[m] # Absent
                           /\ stream'[m].schedule = handler'[q].schedule
                           /\ m # handler'[q].new
    BY DEF OldStands, StreamsOf, Exists
  <2>1. /\ Replacing(handler[q]) /\ handler[q].old = handler'[q].old
        /\ handler[q].schedule = handler'[q].schedule
        /\ handler[q].new = handler'[q].new
    BY <1>1 DEF Quiet, Inserted, Replacing, Making
  <2>2. handler[q].old \in Live
    BY <2>1 DEF Sound, TypeOK, HandlerState
  <2>3. /\ Exists(handler[q].old) => stream[handler[q].old].schedule = handler[q].schedule
        /\ \E m \in StreamsOf(handler[q].schedule) : m # handler[q].new
    BY <2>1 DEF OldStands
  <2> QED  BY <2>1, <2>2, <2>3 DEF RowsStand, Exists, StreamsOf
<1> QED  BY <1>2, <1>3, <1>4

LEMMA RowsUntouched == ASSUME UNCHANGED stream PROVE RowsStand
  BY DEF RowsStand, Exists

\* The handler that takes a step is quiet: so are the others, which do nothing.
LEMMA OneIsQuiet ==
  ASSUME Sound, NEW p \in Process, NEW h, Becomes(p, h), Quiet(handler[p], h)
  PROVE  AllQuiet
  BY DEF AllQuiet, Becomes, Sound, TypeOK

LEMMA IdleIsQuiet == ASSUME NEW h PROVE Quiet(h, Idle)
  BY DEF Quiet, Idle, Replacing, Making

\* To move on from replacing, or to give up and undo what was made.
LEMMA GoesQuietly ==
  ASSUME Sound, NEW p \in Process, NEW pc \in PC, Goes(p, pc),
         \/ pc \in {"cleaning", "deleting", "unmaking"}
         \/ pc = "dropping" /\ handler[p].pc = "moving"
         \/ pc = "undoing" /\ Making(handler[p])
  PROVE  AllQuiet
<1> DEFINE h == [handler[p] EXCEPT !.pc = pc]
<1>1. handler[p] \in HandlerState
  BY DEF Sound, TypeOK
<1>2. /\ h.pc = pc /\ h.old = handler[p].old /\ h.new = handler[p].new
      /\ h.schedule = handler[p].schedule
  BY <1>1 DEF HandlerState
<1>3. Becomes(p, h)
  BY DEF Goes
<1> HIDE DEF h
<1>4. Quiet(handler[p], h)
  BY <1>2 DEF Quiet, Replacing, Making, Inserted
<1> QED  BY <1>3, <1>4, OneIsQuiet

LEMMA CreateCommitsOrdered ==
  ASSUME IInv, Sound', NEW p \in Process, NEW x \in Schedule, CreateCommits(p, x)
  PROVE  Ordered'
<1> DEFINE h == [Idle EXCEPT !.pc = "calling", !.schedule = x]
<1>1. Quiet(handler[p], h)
  BY DEF Quiet, Replacing, Making, Idle
<1>2. AllQuiet
  BY <1>1, OneIsQuiet DEF CreateCommits, IInv
<1> QED  BY <1>2, QuietStep, RowsUntouched DEF CreateCommits, GivenOutStays

LEMMA MuxCreateFailsOrdered ==
  ASSUME IInv, Sound', NEW p \in Process, MuxCreateFails(p)
  PROVE  Ordered'
<1>1. AllQuiet
  BY IdleIsQuiet, OneIsQuiet DEF MuxCreateFails, IInv
<1>2. GivenOutStays
  BY DEF MuxCreateFails, GivenOutStays, IInv, Sound, TypeOK
<1> QED  BY <1>1, <1>2, QuietStep, RowsUntouched DEF MuxCreateFails, tables

LEMMA MovesSessionsOrdered ==
  ASSUME IInv, Sound', NEW p \in Process, MovesSessions(p)
  PROVE  Ordered'
<1>1. AllQuiet
  BY GoesQuietly DEF MovesSessions, IInv, PC, Making
<1> QED  BY <1>1, QuietStep, RowsUntouched DEF MovesSessions, GivenOutStays

LEMMA DatabaseFailsOrdered ==
  ASSUME IInv, Sound', NEW p \in Process, DatabaseFails(p)
  PROVE  Ordered'
<1>1. AllQuiet
  BY GoesQuietly DEF DatabaseFails, IInv, PC, Making
<1> QED  BY <1>1, QuietStep, RowsUntouched DEF DatabaseFails, GivenOutStays, tables

LEMMA DeletesLiveOrdered ==
  ASSUME IInv, Sound', NEW p \in Process, DeletesLive(p)
  PROVE  Ordered'
<1>1. AllQuiet
  BY IdleIsQuiet, OneIsQuiet DEF DeletesLive, IInv
<1>2. GivenOutStays
  BY DEF DeletesLive, Deletes, GivenOutStays, IInv, Sound, TypeOK
<1> QED  BY <1>1, <1>2, QuietStep, RowsUntouched DEF DeletesLive, tables

LEMMA DeleteOrdered ==
  ASSUME IInv, Sound', NEW p \in Process,
         (\E x \in Schedule : DeleteLoads(p, x)) \/ DeleteCommits(p)
  PROVE  Ordered'
<1>1. ASSUME NEW x \in Schedule, DeleteLoads(p, x)
      PROVE  AllQuiet
  <2> DEFINE h == [Idle EXCEPT !.pc = "deleting", !.schedule = x, !.old = TheStream(x)]
  <2>1. Quiet(handler[p], h)
    BY DEF Quiet, Replacing, Making, Idle
  <2> QED  BY <1>1, <2>1, OneIsQuiet DEF DeleteLoads, IInv
<1>2. ASSUME DeleteCommits(p)
      PROVE  AllQuiet
  BY <1>2, GoesQuietly, IdleIsQuiet, OneIsQuiet DEF DeleteCommits, IInv, PC
<1>3. UNCHANGED stream /\ UNCHANGED mux
  BY DEF DeleteLoads, DeleteCommits, tables
<1> QED  BY <1>1, <1>2, <1>3, QuietStep, RowsUntouched DEF GivenOutStays

LEMMA HookLoadsOrdered ==
  ASSUME IInv, Sound', NEW p \in Process, NEW e \in events, HookLoads(p, e)
  PROVE  Ordered'
<1> DEFINE h == [Idle EXCEPT !.pc = "updating", !.event = e, !.row = stream[e.live]]
<1>1. Quiet(handler[p], h)
  BY DEF Quiet, Replacing, Making, Idle
<1>2. AllQuiet
  BY <1>1, OneIsQuiet DEF HookLoads, IInv
<1> QED  BY <1>2, QuietStep, RowsUntouched DEF HookLoads, GivenOutStays, tables

LEMMA HookCommitsOrdered ==
  ASSUME IInv, Sound', NEW p \in Process, HookCommits(p)
  PROVE  Ordered'
<1> DEFINE h == handler[p]
           m == h.event.live
<1>1. AllQuiet
  BY IdleIsQuiet, OneIsQuiet DEF HookCommits, IInv
<1>2. h.event \in Event /\ h.row \in Row /\ m \in Live
  BY DEF IInv, Sound, LocalsOK, HookCommits, Event
<1>3. RowsStand
  <2>1. CASE Exists(m)
    <3> DEFINE after == Flushed(stream[m], h.row, Reported(h.row, h.event.type))
    <3>1. stream[m] \in Row /\ Absent \notin Row
      BY <2>1, <1>2, StreamAssumption DEF Exists, IInv, Sound, TypeOK
    <3>2. after \in Row /\ after.schedule = stream[m].schedule
      BY <3>1, <1>2, FlushedRow
    <3>3. stream' = [stream EXCEPT ![m] = after]
      BY <2>1 DEF HookCommits
    <3> HIDE DEF after
    <3> QED  BY <3>1, <3>2, <3>3 DEF RowsStand, Exists, IInv, Sound, TypeOK
  <2>2. CASE ~Exists(m)
    BY <2>2, RowsUntouched DEF HookCommits
  <2> QED  BY <2>1, <2>2
<1> QED  BY <1>1, <1>3, QuietStep DEF HookCommits, GivenOutStays

LEMMA WatchOrdered ==
  ASSUME IInv, Sound', NEW p \in Process,
         (\E m \in Live : WatchLoads(p, m)) \/ WatchCommits(p)
  PROVE  Ordered'
<1>1. ASSUME NEW m \in Live, WatchLoads(p, m)
      PROVE  AllQuiet
  <2> DEFINE h == [Idle EXCEPT !.pc = "starting", !.schedule = stream[m].schedule, !.old = m]
  <2>1. Quiet(handler[p], h)
    BY DEF Quiet, Replacing, Making, Idle
  <2> QED  BY <1>1, <2>1, OneIsQuiet DEF WatchLoads, IInv
<1>2. ASSUME WatchCommits(p)
      PROVE  AllQuiet
  BY <1>2, IdleIsQuiet, OneIsQuiet DEF WatchCommits, IInv
<1>3. UNCHANGED stream /\ UNCHANGED mux
  BY DEF WatchLoads, WatchCommits, tables
<1> QED  BY <1>1, <1>2, <1>3, QuietStep, RowsUntouched DEF GivenOutStays

LEMMA CrashOrdered ==
  ASSUME IInv, Sound', NEW p \in Process, Crash(p)
  PROVE  Ordered'
<1>1. AllQuiet
  BY IdleIsQuiet, OneIsQuiet DEF Crash, IInv
<1> QED  BY <1>1, QuietStep, RowsUntouched DEF Crash, GivenOutStays, tables

LEMMA EncoderOrdered ==
  ASSUME IInv, Sound', NEW m \in Live, EncoderConnects(m) \/ EncoderStops(m)
  PROVE  Ordered'
<1>1. AllQuiet
  BY DEF EncoderConnects, EncoderStops, AllQuiet
<1>2. GivenOutStays
  BY DEF EncoderConnects, EncoderStops, GivenOutStays, IInv, Sound, TypeOK
<1> QED  BY <1>1, <1>2, QuietStep, RowsUntouched DEF EncoderConnects, EncoderStops, tables

(***************************************************************************)
(* The steps that load, make, insert and drop a stream.                    *)
(***************************************************************************)

\* The stream that is loaded is the only one of its schedule; one that a handler
\* has inserted never is.
LEMMA RecreateLoadsOrdered ==
  ASSUME IInv, Sound', NEW p \in Process, NEW x \in Schedule, RecreateLoads(p, x)
  PROVE  Ordered'
<1> DEFINE old == TheStream(x)
           h == [Idle EXCEPT !.pc = "calling", !.schedule = x, !.old = old]
<1> USE DEF IInv, Ordered
<1>1. /\ handler'[p] = h
      /\ \A q \in Process : q # p => handler'[q] = handler[q]
      /\ UNCHANGED stream /\ UNCHANGED mux
  BY DEF RecreateLoads, Becomes, Sound, TypeOK, tables
<1>2. /\ Replacing(h) /\ ~Inserted(h) /\ ~Making(h) /\ h.pc # "inserting"
      /\ h.old = old /\ h.new = None /\ h.schedule = x
  BY DEF Idle, Replacing, Inserted, Making
<1>3. /\ old # None => old \in StreamsOf(x)
      /\ old # None => old \in Live /\ Exists(old) /\ stream[old].schedule = x
  BY LookupResult DEF Sound, StreamsOf
<1>4. ASSUME NEW q \in Process, Making(handler[q]), handler[q].pc # "undoing"
      PROVE  old # handler[q].new
  <2>1. handler[q].new \in Live /\ None \notin Live
    BY <1>4, StreamAssumption DEF Sound, LocalsOK, Making
  <2>2. CASE handler[q].pc = "inserting"
    BY <2>1, <2>2, <1>3 DEF NewApart
  <2>3. CASE Inserted(handler[q])
    <3>1. SUFFICES ASSUME old = handler[q].new
                   PROVE  FALSE
      OBVIOUS
    <3>2. handler[q].schedule = x
      BY <3>1, <2>1, <2>3, <1>3 DEF NewApart
    <3>3. Replacing(handler[q]) /\ handler[q].old # None
      BY <2>3, <2>1 DEF Inserted, Replacing, Sound, LocalsOK
    <3>4. \E m \in StreamsOf(x) : m # handler[q].new
      BY <3>2, <3>3 DEF OldStands
    <3> QED  BY <3>1, <3>4, <2>1, <1>3 DEF RecreateLoads, AtMostOne, StreamsOf
  <2> QED  BY <2>2, <2>3, <1>4 DEF Making, Inserted
<1> HIDE DEF h, old
<1>5. IdsGivenOut'
  BY <1>1, <1>2, <1>3 DEF IdsGivenOut, Exists
<1>6. NewApart'
  BY <1>1, <1>2, <1>4 DEF NewApart, Exists
<1>7. OldStands'
  <2> SUFFICES ASSUME NEW q \in Process, Replacing(handler'[q]), handler'[q].old # None
               PROVE  /\ stream[handler'[q].old] # Absent
                           => stream[handler'[q].old].schedule = handler'[q].schedule
                      /\ \E m \in StreamsOf(handler'[q].schedule) : m # handler'[q].new
    BY <1>1 DEF OldStands, StreamsOf, Exists
  <2>1. CASE q = p
    BY <2>1, <1>1, <1>2, <1>3, StreamAssumption
  <2>2. CASE q # p
    BY <2>2, <1>1 DEF OldStands, Exists
  <2> QED  BY <2>1, <2>2
<1> QED  BY <1>5, <1>6, <1>7

\* What Mux makes is not in use anywhere.
LEMMA MuxCreatesOrdered ==
  ASSUME IInv, Sound', NEW p \in Process, NEW m \in Live, MuxCreates(p, m)
  PROVE  Ordered'
<1> DEFINE h == [handler[p] EXCEPT !.pc = "inserting", !.new = m]
<1> USE DEF IInv, Ordered
<1>1. /\ handler'[p] = h
      /\ \A q \in Process : q # p => handler'[q] = handler[q]
      /\ UNCHANGED stream
      /\ mux[m] = "none" /\ mux'[m] # "none"
      /\ \A n \in Live : mux[n] # "none" => mux'[n] # "none"
  BY DEF MuxCreates, Becomes, Sound, TypeOK, tables
<1>2. handler[p] \in HandlerState /\ handler[p].pc = "calling"
  BY DEF Sound, TypeOK, MuxCreates
<1>3. /\ Making(h) /\ ~Inserted(h) /\ h.pc = "inserting"
      /\ h.old = handler[p].old /\ h.new = m /\ h.schedule = handler[p].schedule
      /\ Replacing(handler[p])
  BY <1>2 DEF HandlerState, Replacing, Inserted, Making
<1>4. None # m /\ ~Exists(m)
  BY <1>1, StreamAssumption DEF IdsGivenOut
<1> HIDE DEF h
<1>5. \A q \in Process :
        /\ Making(handler[q]) => handler[q].new # m
        /\ Replacing(handler[q]) => handler[q].old # m
  BY <1>1, <1>4 DEF IdsGivenOut
<1>6. \A q \in Process : Making(handler[q]) => handler[q].new \in Live
  BY DEF Sound, LocalsOK, Making
<1>7. IdsGivenOut'
  <2>1. \A n \in Live : Exists(n)' => mux'[n] # "none"
    BY <1>1 DEF IdsGivenOut, Exists
  <2>2. ASSUME NEW q \in Process
        PROVE  /\ Making(handler'[q]) => mux'[handler'[q].new] # "none"
               /\ Replacing(handler'[q]) /\ handler'[q].old # None
                    => mux'[handler'[q].old] # "none"
    <3>1. handler[q].old \in Live \cup {None}
      BY DEF Sound, TypeOK, HandlerState
    <3>2. CASE q = p
      BY <3>1, <3>2, <1>1, <1>3 DEF IdsGivenOut
    <3>3. CASE q # p
      BY <3>1, <3>3, <1>1, <1>6 DEF IdsGivenOut
    <3> QED  BY <3>2, <3>3
  <2> QED  BY <2>1, <2>2 DEF IdsGivenOut
<1>8. NewApart'
  <2>1. \A q, r \in Process :
          q # r /\ Making(handler'[q]) /\ Making(handler'[r])
            => handler'[q].new # handler'[r].new
    <3> SUFFICES ASSUME NEW q \in Process, NEW r \in Process, q # r,
                        Making(handler'[q]), Making(handler'[r])
                 PROVE  handler'[q].new # handler'[r].new
      OBVIOUS
    <3>1. CASE q = p
      <4>1. Making(handler[r]) /\ handler'[r].new = handler[r].new
        BY <3>1, <1>1
      <4> QED  BY <4>1, <3>1, <1>1, <1>3, <1>5
    <3>2. CASE r = p
      <4>1. Making(handler[q]) /\ handler'[q].new = handler[q].new
        BY <3>2, <1>1
      <4>2. handler[q].new # m
        BY <4>1, <1>5
      <4>3. handler'[r].new = m
        BY <3>2, <1>1, <1>3
      <4> QED  BY <4>1, <4>2, <4>3
    <3>3. CASE q # p /\ r # p
      BY <3>3, <1>1 DEF NewApart
    <3> QED  BY <3>1, <3>2, <3>3
  <2>2. \A q, r \in Process :
          Replacing(handler'[q]) /\ Making(handler'[r]) /\ handler'[r].pc # "undoing"
            => handler'[q].old # handler'[r].new
    <3> SUFFICES ASSUME NEW q \in Process, NEW r \in Process, Replacing(handler'[q]),
                        Making(handler'[r]), handler'[r].pc # "undoing"
                 PROVE  handler'[q].old # handler'[r].new
      OBVIOUS
    <3>1. Replacing(handler[q]) /\ handler[q].old = handler'[q].old
      BY <1>1, <1>3
    <3>2. CASE r = p
      BY <3>1, <3>2, <1>1, <1>3, <1>5
    <3>3. CASE r # p
      BY <3>1, <3>3, <1>1 DEF NewApart
    <3> QED  BY <3>2, <3>3
  <2>3. \A q \in Process :
          /\ handler'[q].pc = "inserting" => stream[handler'[q].new] = Absent
          /\ Inserted(handler'[q]) =>
               /\ stream[handler'[q].new] # Absent
               /\ stream[handler'[q].new].schedule = handler'[q].schedule
    BY <1>1, <1>3, <1>4 DEF NewApart, Exists
  <2> QED  BY <2>1, <2>2, <2>3, <1>1 DEF NewApart, Exists
<1>9. OldStands'
  <2> SUFFICES ASSUME NEW q \in Process, Replacing(handler'[q]), handler'[q].old # None
               PROVE  /\ stream[handler'[q].old] # Absent
                           => stream[handler'[q].old].schedule = handler'[q].schedule
                      /\ \E n \in StreamsOf(handler'[q].schedule) : n # handler'[q].new
    BY <1>1 DEF OldStands, StreamsOf, Exists
  <2>1. CASE q = p
    <3>1. m \notin StreamsOf(handler[p].schedule)
      BY <1>4 DEF StreamsOf
    <3> QED  BY <2>1, <3>1, <1>1, <1>3 DEF OldStands, Exists
  <2>2. CASE q # p
    BY <2>2, <1>1 DEF OldStands, Exists
  <2> QED  BY <2>1, <2>2
<1> QED  BY <1>7, <1>8, <1>9

LEMMA InsertsStreamOrdered ==
  ASSUME IInv, Sound', NEW p \in Process, InsertsStream(p)
  PROVE  Ordered'
<1> DEFINE h == handler[p]
           new == h.new
           g == handler'[p]
           row == [schedule |-> h.schedule, status |-> "PENDING", recorded |-> FALSE]
<1> USE DEF IInv, Ordered
<1>1. /\ h \in HandlerState /\ h.pc = "inserting" /\ new \in Live /\ h.schedule \in Schedule
      /\ Replacing(h) /\ Making(h) /\ ~Exists(new)
  BY DEF Sound, TypeOK, LocalsOK, InsertsStream, Replacing, Making, NewApart
<1>2. row # Absent /\ row.schedule = h.schedule
  <2>1. row \in Row
    BY <1>1 DEF Row, Status
  <2> QED  BY <2>1, StreamAssumption
<1>3. /\ stream' = [stream EXCEPT ![new] = row]
      /\ UNCHANGED mux
      /\ \A q \in Process : q # p => handler'[q] = handler[q]
  BY DEF InsertsStream, Goes, Becomes, Sound, TypeOK
<1> HIDE DEF row
<1>4. /\ stream'[new] # Absent /\ stream'[new].schedule = h.schedule
      /\ \A m \in Live : m # new => stream'[m] = stream[m]
  BY <1>1, <1>2, <1>3 DEF Sound, TypeOK
<1>5. \/ g = Idle
      \/ /\ g.pc = "moving" /\ g.old = h.old /\ g.new = new /\ g.schedule = h.schedule
         /\ Replacing(g) /\ Making(g) /\ Inserted(g)
      \/ /\ g.pc = "undoing" /\ g.old = h.old /\ g.new = new /\ g.schedule = h.schedule
         /\ ~Replacing(g) /\ Making(g) /\ ~Inserted(g)
  <2>1. \/ g = Idle
        \/ g = [h EXCEPT !.pc = "undoing"]
        \/ g = [h EXCEPT !.pc = "moving"]
    BY DEF InsertsStream, Goes, Becomes, Sound, TypeOK
  <2>2. ASSUME g = [h EXCEPT !.pc = "undoing"]
        PROVE  /\ g.pc = "undoing" /\ g.old = h.old /\ g.new = new /\ g.schedule = h.schedule
               /\ ~Replacing(g) /\ Making(g) /\ ~Inserted(g)
    BY <2>2, <1>1 DEF HandlerState, Replacing, Making, Inserted
  <2>3. ASSUME g = [h EXCEPT !.pc = "moving"]
        PROVE  /\ g.pc = "moving" /\ g.old = h.old /\ g.new = new /\ g.schedule = h.schedule
               /\ Replacing(g) /\ Making(g) /\ Inserted(g)
    BY <2>3, <1>1 DEF HandlerState, Replacing, Making, Inserted
  <2> QED  BY <2>1, <2>2, <2>3
<1>6. ~Replacing(Idle) /\ ~Making(Idle) /\ ~Inserted(Idle) /\ Idle.pc # "inserting"
  BY DEF Idle, Replacing, Making, Inserted
<1>7. ASSUME NEW q \in Process, Replacing(handler'[q]) \/ Making(handler'[q])
      PROVE  /\ Replacing(handler'[q]) => Replacing(handler[q])
             /\ Making(handler'[q]) => Making(handler[q])
             /\ handler'[q].pc # "undoing" => handler[q].pc # "undoing"
             /\ handler'[q].old = handler[q].old /\ handler'[q].new = handler[q].new
             /\ handler'[q].schedule = handler[q].schedule
  BY <1>7, <1>1, <1>3, <1>5, <1>6
<1> HIDE DEF h, g, new
<1>8. IdsGivenOut'
  <2>1. \A m \in Live : Exists(m)' => mux'[m] # "none"
    BY <1>1, <1>3, <1>4 DEF IdsGivenOut, Exists, h, new
  <2>2. ASSUME NEW q \in Process
        PROVE  /\ Making(handler'[q]) => mux'[handler'[q].new] # "none"
               /\ Replacing(handler'[q]) /\ handler'[q].old # None
                    => mux'[handler'[q].old] # "none"
    BY <1>3, <1>7 DEF IdsGivenOut
  <2> QED  BY <2>1, <2>2 DEF IdsGivenOut
<1>9. NewApart'
  <2>1. \A q, r \in Process :
          q # r /\ Making(handler'[q]) /\ Making(handler'[r])
            => handler'[q].new # handler'[r].new
    BY <1>7 DEF NewApart
  <2>2. \A q, r \in Process :
          Replacing(handler'[q]) /\ Making(handler'[r]) /\ handler'[r].pc # "undoing"
            => handler'[q].old # handler'[r].new
    BY <1>7 DEF NewApart
  <2>3. ASSUME NEW q \in Process
        PROVE  /\ handler'[q].pc = "inserting" => stream'[handler'[q].new] = Absent
               /\ Inserted(handler'[q]) =>
                    /\ stream'[handler'[q].new] # Absent
                    /\ stream'[handler'[q].new].schedule = handler'[q].schedule
    <3>1. CASE q = p
      BY <3>1, <1>4, <1>5, <1>6 DEF g
    <3>2. CASE q # p
      <4>1. Making(handler[q]) => handler[q].new # new /\ handler[q].new \in Live
        BY <3>2, <1>1 DEF NewApart, Sound, LocalsOK, Making, h, new
      <4>2. Inserted(handler[q]) \/ handler[q].pc = "inserting" => Making(handler[q])
        BY DEF Inserted, Making
      <4>3. handler'[q] = handler[q]
        BY <3>2, <1>3
      <4> QED  BY <4>1, <4>2, <4>3, <1>4 DEF NewApart, Exists
    <3> QED  BY <3>1, <3>2
  <2> QED  BY <2>1, <2>2, <2>3 DEF NewApart, Exists
<1>10. OldStands'
  <2> SUFFICES ASSUME NEW q \in Process, Replacing(handler'[q]), handler'[q].old # None
               PROVE  /\ stream'[handler'[q].old] # Absent
                           => stream'[handler'[q].old].schedule = handler'[q].schedule
                      /\ \E m \in Live :
                           /\ stream'[m] # Absent
                           /\ stream'[m].schedule = handler'[q].schedule
                           /\ m # handler'[q].new
    BY DEF OldStands, StreamsOf, Exists
  <2>1. /\ Replacing(handler[q]) /\ handler[q].old = handler'[q].old
        /\ handler[q].schedule = handler'[q].schedule
        /\ handler[q].new = handler'[q].new
    BY <1>7
  <2>2. handler[q].old \in Live /\ handler[q].old # new
    BY <2>1, <1>1 DEF Sound, TypeOK, HandlerState, NewApart, h, new
  <2>3. PICK m \in StreamsOf(handler[q].schedule) : m # handler[q].new
    BY <2>1 DEF OldStands
  <2>4. m \in Live /\ m # new /\ stream[m] # Absent /\ stream[m].schedule = handler[q].schedule
    BY <2>3, <1>1 DEF StreamsOf, Exists
  <2>5. stream[handler[q].old] # Absent
          => stream[handler[q].old].schedule = handler[q].schedule
    BY <2>1 DEF OldStands, Exists
  <2> QED  BY <2>1, <2>2, <2>3, <2>4, <2>5, <1>4
<1> QED  BY <1>8, <1>9, <1>10

\* The schedule of the dropped row keeps the one the same handler inserted, and
\* no other handler that replaces a stream of this schedule made that one.
LEMMA DropsRowOrdered ==
  ASSUME IInv, Sound', NEW p \in Process, DropsRow(p)
  PROVE  Ordered'
<1> DEFINE h == handler[p]
<1> USE DEF IInv, Ordered
<1>1. /\ h \in HandlerState /\ Inserted(h) /\ Replacing(h) /\ Making(h)
      /\ h.pc = "dropping" /\ h.old \in Live /\ h.new \in Live
  BY DEF Sound, TypeOK, LocalsOK, DropsRow, Inserted, Replacing, Making
<1>2. CASE ~Droppable(h.old)
  <2>1. AllQuiet
    BY <1>1, <1>2, GoesQuietly DEF DropsRow, PC
  <2> QED  BY <2>1, <1>2, QuietStep, RowsUntouched DEF DropsRow, GivenOutStays
<1>3. CASE Droppable(h.old)
  <2>1. /\ stream' = [m \in Live |-> IF m \in Replaced(h) THEN Absent ELSE stream[m]]
        /\ UNCHANGED mux
        /\ \A q \in Process : q # p => handler'[q] = handler[q]
        /\ handler'[p] = [h EXCEPT !.pc = "cleaning"]
    BY <1>3 DEF DropsRow, Goes, Becomes, Sound, TypeOK
  <2>2. /\ stream'[h.old] = Absent
        /\ \A m \in Live : m # h.old => stream'[m] = stream[m]
    BY <2>1, <1>1 DEF Replaced
  <2>3. /\ ~Replacing(handler'[p]) /\ ~Making(handler'[p])
        /\ ~Inserted(handler'[p]) /\ handler'[p].pc # "inserting"
    BY <2>1, <1>1 DEF HandlerState, Replacing, Making, Inserted
  <2>4. /\ h.new # h.old /\ stream[h.new] # Absent
        /\ stream[h.new].schedule = h.schedule
    BY <1>1 DEF NewApart, Exists
  <2>5. stream[h.old] # Absent /\ stream[h.old].schedule = h.schedule
    BY <1>1, <1>3, StreamAssumption DEF OldStands, Droppable, Exists
  <2> HIDE DEF h
  <2>6. IdsGivenOut'
    <3>1. \A m \in Live : stream'[m] # Absent => stream[m] # Absent
      BY <2>2, <1>1
    <3> QED  BY <3>1, <2>1, <2>3 DEF IdsGivenOut, Exists
  <2>7. NewApart'
    <3>1. \A q, r \in Process :
            q # r /\ Making(handler'[q]) /\ Making(handler'[r])
              => handler'[q].new # handler'[r].new
      BY <2>1, <2>3 DEF NewApart
    <3>2. \A q, r \in Process :
            Replacing(handler'[q]) /\ Making(handler'[r]) /\ handler'[r].pc # "undoing"
              => handler'[q].old # handler'[r].new
      BY <2>1, <2>3 DEF NewApart
    <3>3. ASSUME NEW q \in Process, q # p
          PROVE  /\ handler[q].pc = "inserting" => stream'[handler[q].new] = Absent
                 /\ Inserted(handler[q]) =>
                      /\ stream'[handler[q].new] # Absent
                      /\ stream'[handler[q].new].schedule = handler[q].schedule
      <4>1. handler[q].pc = "inserting" \/ Inserted(handler[q])
              => handler[q].new \in Live /\ handler[q].new # h.old
        BY <1>1 DEF Sound, LocalsOK, Inserted, Making, NewApart, h
      <4> QED  BY <4>1, <2>2 DEF NewApart, Exists
    <3> QED  BY <3>1, <3>2, <3>3, <2>1, <2>3 DEF NewApart, Exists
  <2>8. OldStands'
    <3> SUFFICES ASSUME NEW q \in Process, Replacing(handler'[q]), handler'[q].old # None
                 PROVE  /\ stream'[handler'[q].old] # Absent
                             => stream'[handler'[q].old].schedule = handler'[q].schedule
                        /\ \E m \in Live :
                             /\ stream'[m] # Absent
                             /\ stream'[m].schedule = handler'[q].schedule
                             /\ m # handler'[q].new
      BY DEF OldStands, StreamsOf, Exists
    <3>1. q # p /\ handler'[q] = handler[q]
      BY <2>1, <2>3
    <3>2. handler[q].old \in Live
      BY <3>1 DEF Sound, TypeOK, HandlerState
    <3>3. stream[handler[q].old] # Absent
            => stream[handler[q].old].schedule = handler[q].schedule
      BY <3>1 DEF OldStands, Exists
    <3>4. PICK m \in StreamsOf(handler[q].schedule) : m # handler[q].new
      BY <3>1 DEF OldStands
    <3>5. m \in Live /\ stream[m] # Absent /\ stream[m].schedule = handler[q].schedule
      BY <3>4 DEF StreamsOf, Exists
    <3>6. h.new # handler[q].new
      <4>1. CASE handler[q].pc = "calling"
        BY <4>1, <1>1, StreamAssumption DEF Sound, LocalsOK
      <4>2. CASE Making(handler[q])
        BY <4>2, <3>1, <1>1 DEF NewApart, h
      <4> QED  BY <4>1, <4>2, <3>1 DEF Replacing, Making
    <3>7. CASE m = h.old
      BY <3>7, <3>1, <3>2, <3>3, <3>5, <3>6, <2>2, <2>4, <2>5, <1>1
    <3>8. CASE m # h.old
      BY <3>8, <3>1, <3>2, <3>3, <3>4, <3>5, <2>2
    <3> QED  BY <3>7, <3>8
  <2> QED  BY <2>6, <2>7, <2>8
<1> QED  BY <1>2, <1>3

(***************************************************************************)
(* The inductive invariant holds.                                          *)
(***************************************************************************)

LEMMA InitIInv == Init => IInv
<1> SUFFICES ASSUME Init PROVE IInv
  OBVIOUS
<1>1. Sound
  BY SoundInit
<1>2. \A m \in Live : ~Exists(m)
  BY DEF Init, Exists
<1>3. \A p \in Process : handler[p] = Idle /\ Idle.pc = "idle"
  BY DEF Init, Idle
<1> QED  BY <1>1, <1>2, <1>3
         DEF IInv, Ordered, IdsGivenOut, NewApart, OldStands, Making, Replacing, Inserted

LEMMA ManagerStepIInv ==
  ASSUME IInv, NEW p \in Process, ManagerStep(p)
  PROVE  IInv'
<1>1. Sound'
  BY CreateCommitsSound, RecreateLoadsSound, DeleteLoadsSound, MuxCreatesSound,
     MuxCreateFailsSound, InsertsStreamSound, MovesSessionsSound, DropsRowSound,
     DatabaseFailsSound, DeletesLiveSound, DeleteCommitsSound
  DEF ManagerStep, IInv
<1>2. Ordered'
  BY <1>1, CreateCommitsOrdered, RecreateLoadsOrdered, DeleteOrdered, MuxCreatesOrdered,
     MuxCreateFailsOrdered, InsertsStreamOrdered, MovesSessionsOrdered, DropsRowOrdered,
     DatabaseFailsOrdered, DeletesLiveOrdered
  DEF ManagerStep
<1> QED  BY <1>1, <1>2 DEF IInv

LEMMA OtherStepIInv ==
  ASSUME IInv, NEW p \in Process, OtherStep(p)
  PROVE  IInv'
<1>1. Sound'
  BY HookLoadsSound, WatchLoadsSound, HookCommitsSound, WatchCommitsSound, CrashSound
  DEF OtherStep, IInv
<1>2. Ordered'
  BY <1>1, HookLoadsOrdered, WatchOrdered, HookCommitsOrdered, CrashOrdered
  DEF OtherStep
<1> QED  BY <1>1, <1>2 DEF IInv

LEMMA NextIInv == IInv /\ [Next]_vars => IInv'
<1> SUFFICES ASSUME IInv, [Next]_vars PROVE IInv'
  OBVIOUS
<1>1. CASE \E p \in Process : ManagerStep(p) \/ OtherStep(p)
  BY <1>1, ManagerStepIInv, OtherStepIInv
<1>2. CASE \E m \in Live : EncoderConnects(m) \/ EncoderStops(m)
  <2>1. Sound'
    BY <1>2, EncoderSound DEF IInv
  <2> QED  BY <1>2, <2>1, EncoderOrdered DEF IInv
<1>3. CASE UNCHANGED vars
  BY <1>3 DEF vars, tables, IInv, Sound, TypeOK, Ordered, IdsGivenOut, NewApart, OldStands,
              StreamsOf, Exists
<1> QED  BY <1>1, <1>2, <1>3 DEF Next

\* The inductive invariant holds in every state of every behavior.
THEOREM Invariance == Spec => []IInv
  BY InitIInv, NextIInv, PTL DEF Spec

\* Every table and every local keeps its type (the statuses the webhook writes
\* are members of StreamStatus).
THEOREM TypeCorrect == Spec => []TypeOK
<1>1. IInv => TypeOK
  BY DEF IInv, Sound
<1> QED  BY <1>1, Invariance, PTL

(***************************************************************************)
(* What a step may do to a row.                                            *)
(***************************************************************************)

RowKept(m) ==
  /\ Exists(m)'
  /\ stream'[m].schedule = stream[m].schedule
  /\ stream[m].recorded => stream'[m].recorded

\* Only recreate_stream deletes a row, the one it has loaded; the row of the
\* stream that replaces it is there.
LEMMA RowStep ==
  ASSUME IInv, [Next]_vars, NEW m \in Live, Exists(m)
  PROVE  \/ RowKept(m)
         \/ /\ ~Exists(m)'
            /\ \E p \in Process :
                 /\ handler'[p].pc = "cleaning" /\ handler'[p].old = m
                 /\ \E n \in Live : /\ Exists(n)'
                                   /\ stream'[n].schedule = stream[m].schedule
<1> USE DEF IInv, Ordered
<1>1. ASSUME UNCHANGED stream PROVE RowKept(m)
  BY <1>1 DEF RowKept, Exists
<1>2. ASSUME NEW p \in Process, InsertsStream(p) PROVE RowKept(m)
  <2>1. handler[p].new # m
    BY <1>2 DEF NewApart, InsertsStream
  <2>2. stream'[m] = stream[m]
    BY <1>2, <2>1 DEF InsertsStream, Sound, TypeOK
  <2> QED  BY <2>2 DEF RowKept, Exists
<1>3. ASSUME NEW p \in Process, HookCommits(p) PROVE RowKept(m)
  <2> DEFINE h == handler[p]
             after == Flushed(stream[m], h.row, Reported(h.row, h.event.type))
  <2>1. h.event \in Event /\ h.row \in Row
    BY <1>3 DEF Sound, LocalsOK, HookCommits
  <2>2. stream[m] \in Row /\ Absent \notin Row
    BY StreamAssumption DEF Exists, Sound, TypeOK
  <2>3. after \in Row /\ after.schedule = stream[m].schedule
        /\ (stream[m].recorded => after.recorded)
    BY <2>1, <2>2, FlushedRow
  <2>4. stream'[m] = after \/ stream'[m] = stream[m]
    BY <1>3 DEF HookCommits, Sound, TypeOK
  <2> HIDE DEF after
  <2>5. ASSUME stream'[m] = after PROVE RowKept(m)
    <3>1. stream'[m] # Absent
      BY <2>5, <2>3, <2>2
    <3> QED  BY <3>1, <2>5, <2>3 DEF RowKept, Exists
  <2>6. ASSUME stream'[m] = stream[m] PROVE RowKept(m)
    BY <2>6 DEF RowKept, Exists
  <2> QED  BY <2>4, <2>5, <2>6
<1>4. ASSUME NEW p \in Process, DropsRow(p), ~UNCHANGED stream, handler[p].old # m
      PROVE  RowKept(m)
  <2>1. stream'[m] = stream[m]
    BY <1>4 DEF DropsRow, Replaced
  <2> QED  BY <2>1 DEF RowKept, Exists
<1>5. ASSUME NEW p \in Process, DropsRow(p), ~UNCHANGED stream, handler[p].old = m
      PROVE  /\ ~Exists(m)'
             /\ handler'[p].pc = "cleaning" /\ handler'[p].old = m
             /\ \E n \in Live : /\ Exists(n)'
                               /\ stream'[n].schedule = stream[m].schedule
  <2> DEFINE h == handler[p]
  <2>1. /\ h \in HandlerState /\ Inserted(h) /\ Replacing(h) /\ Making(h)
        /\ h.pc = "dropping" /\ h.new \in Live /\ h.old # None
    BY <1>5, StreamAssumption
    DEF Sound, TypeOK, LocalsOK, DropsRow, Inserted, Replacing, Making
  <2>2. /\ stream' = [n \in Live |-> IF n \in Replaced(h) THEN Absent ELSE stream[n]]
        /\ handler'[p] = [h EXCEPT !.pc = "cleaning"]
    BY <1>5 DEF DropsRow, Goes, Becomes, Sound, TypeOK
  <2>3. handler'[p].pc = "cleaning" /\ handler'[p].old = m
    BY <2>1, <2>2, <1>5 DEF HandlerState
  <2>4. /\ h.new # m /\ Exists(h.new) /\ stream[h.new].schedule = h.schedule
        /\ stream[m].schedule = h.schedule
    BY <2>1, <1>5 DEF NewApart, OldStands
  <2>5. stream'[m] = Absent /\ stream'[h.new] = stream[h.new]
    BY <2>1, <2>2, <2>4, <1>5 DEF Replaced
  <2> QED  BY <2>1, <2>3, <2>4, <2>5 DEF Exists
<1>6. \/ UNCHANGED stream
      \/ \E p \in Process : InsertsStream(p) \/ HookCommits(p) \/ DropsRow(p)
  BY DEF Next, vars, tables, ManagerStep, OtherStep, CreateCommits, RecreateLoads, DeleteLoads,
         MuxCreates, MuxCreateFails, MovesSessions, DatabaseFails, DeletesLive, DeleteCommits,
         HookLoads, WatchLoads, WatchCommits, Crash, EncoderConnects, EncoderStops
<1> QED  BY <1>1, <1>2, <1>3, <1>4, <1>5, <1>6

\* recreate_stream never leaves a schedule that has a stream without one.
THEOREM StreamReplaced == Spec => StreamIsReplaced
<1> DEFINE A == \A x \in Schedule : StreamsOf(x) # {} => StreamsOf(x)' # {}
<1>1. ASSUME IInv, [Next]_vars PROVE A
  <2> SUFFICES ASSUME NEW x \in Schedule, NEW m \in Live, Exists(m), stream[m].schedule = x
               PROVE  \E n \in Live : Exists(n)' /\ stream'[n].schedule = x
    BY DEF StreamsOf, Exists
  <2> QED  BY <1>1, RowStep DEF RowKept
<1>2. IInv /\ [Next]_vars => [A]_stream  BY <1>1
<1> QED  BY <1>2, Invariance, PTL DEF Spec, StreamIsReplaced

\* A webhook that loaded a row before asset.ready was handled does not take the
\* recording away.
THEOREM RecordingKept == Spec => RecordingIsKept
<1> DEFINE A == \A m \in Live : Exists(m) /\ Exists(m)' /\ stream[m].recorded
                                  => stream'[m].recorded
<1>1. ASSUME IInv, [Next]_vars PROVE A
  BY <1>1, RowStep DEF RowKept
<1>2. IInv /\ [Next]_vars => [A]_stream  BY <1>1
<1> QED  BY <1>2, Invariance, PTL DEF Spec, RecordingIsKept

(***************************************************************************)
(* Live streams at Mux that nobody knows of.                               *)
(***************************************************************************)

Tended(m) == Exists(m) \/ m \in strays \/ \E p \in Process : m \in Held(handler[p])

\* A handler that holds nothing back lets nothing slip.
LEMMA StillTended ==
  ASSUME NEW m \in Live, Tended(m), strays \subseteq strays', NEW p \in Process,
         \A q \in Process : q # p => handler'[q] = handler[q],
         m \in Held(handler[p]) => Tended(m)', Exists(m) => Exists(m)' \/ Tended(m)'
  PROVE  Tended(m)'
<1>1. CASE Exists(m)
  BY <1>1 DEF Tended
<1>2. CASE m \in strays
  BY <1>2 DEF Tended
<1>3. ASSUME NEW q \in Process, m \in Held(handler[q])
      PROVE  Tended(m)'
  <2>1. CASE q = p
    BY <1>3, <2>1
  <2>2. CASE q # p
    <3>1. m \in Held(handler'[q])
      BY <1>3, <2>2
    <3> QED  BY <3>1 DEF Tended
  <2> QED  BY <2>1, <2>2
<1> QED  BY <1>1, <1>2, <1>3 DEF Tended

LEMMA NextTended ==
  ASSUME IInv, NoStreamIsForgotten, [Next]_vars, NEW m \in Live, mux'[m] \in {"idle", "active"}
  PROVE  Tended(m)'
<1> USE DEF IInv
<1>1. mux[m] \in {"idle", "active"} => Tended(m)
  BY DEF NoStreamIsForgotten, Tended
<1>2. Exists(m) => Exists(m)' \/ Tended(m)'
  BY RowStep DEF RowKept, Tended, Held
<1>3. ASSUME NEW p \in Process, \E n \in Live : MuxCreates(p, n)
      PROVE  Tended(m)'
  <2>1. PICK n \in Live : MuxCreates(p, n)
    BY <1>3
  <2>2. /\ handler'[p] = [handler[p] EXCEPT !.pc = "inserting", !.new = n]
        /\ \A q \in Process : q # p => handler'[q] = handler[q]
        /\ handler[p] \in HandlerState /\ Held(handler[p]) = {}
        /\ strays \subseteq strays'
    BY <2>1 DEF MuxCreates, Becomes, Sound, TypeOK, Held
  <2>3. Held(handler'[p]) = {n}
    BY <2>2 DEF Held, HandlerState
  <2>4. CASE m = n
    BY <2>3, <2>4 DEF Tended
  <2>5. CASE m # n
    <3>1. mux'[m] = mux[m]
      BY <2>1, <2>5 DEF MuxCreates, Sound, TypeOK
    <3> QED  BY <3>1, <2>2, <1>1, <1>2, StillTended
  <2> QED  BY <2>4, <2>5
<1>4. ASSUME NEW p \in Process, MuxCreateFails(p)
      PROVE  Tended(m)'
  <2>1. /\ \A q \in Process : q # p => handler'[q] = handler[q]
        /\ Held(handler[p]) = {} /\ strays \subseteq strays'
    BY <1>4 DEF MuxCreateFails, Becomes, Sound, TypeOK, Held, Strays
  <2>2. mux'[m] = mux[m] \/ m \in strays'
    BY <1>4 DEF MuxCreateFails, Strays, Sound, TypeOK
  <2>3. ASSUME m \in strays' PROVE Tended(m)'
    BY <2>3 DEF Tended
  <2> QED  BY <2>1, <2>2, <2>3, <1>1, <1>2, StillTended
<1>5. ASSUME NEW p \in Process, DeletesLive(p)
      PROVE  Tended(m)'
  <2>1. /\ \A q \in Process : q # p => handler'[q] = handler[q]
        /\ strays \subseteq strays'
    BY <1>5 DEF DeletesLive, Deletes, Becomes, Sound, TypeOK, Strays
  <2>2. Held(handler[p]) \subseteq {Doomed(handler[p])}
    BY <1>5 DEF DeletesLive, Held, Doomed
  <2>3. m # Doomed(handler[p]) \/ m \in strays'
    BY <1>5 DEF DeletesLive, Deletes, Strays, Sound, TypeOK
  <2>4. mux[m] \in {"idle", "active"}
    BY <1>5 DEF DeletesLive, Deletes, Sound, TypeOK
  <2>5. ASSUME m \in strays' PROVE Tended(m)'
    BY <2>5 DEF Tended
  <2> QED  BY <2>1, <2>2, <2>3, <2>4, <2>5, <1>1, <1>2, StillTended
<1>6. ASSUME NEW p \in Process, InsertsStream(p)
      PROVE  Tended(m)'
  <2>1. /\ \A q \in Process : q # p => handler'[q] = handler[q]
        /\ strays \subseteq strays' /\ mux' = mux
        /\ Held(handler[p]) = {handler[p].new} /\ handler[p].new \in Live
        /\ handler[p].schedule \in Schedule
    BY <1>6 DEF InsertsStream, Goes, Becomes, Sound, TypeOK, LocalsOK, Held
  <2>2. stream'[handler[p].new]
          = [schedule |-> handler[p].schedule, status |-> "PENDING", recorded |-> FALSE]
    BY <1>6, <2>1 DEF InsertsStream, Sound, TypeOK
  <2>3. stream'[handler[p].new] \in Row
    BY <2>1, <2>2 DEF Row, Status
  <2>4. ASSUME m = handler[p].new PROVE Tended(m)'
    <3>1. stream'[m] # Absent
      BY <2>3, <2>4, StreamAssumption
    <3> QED  BY <3>1 DEF Tended, Exists
  <2> QED  BY <2>1, <2>4, <1>1, <1>2, StillTended
<1>7. ASSUME NEW p \in Process, MovesSessions(p) \/ DropsRow(p) \/ DatabaseFails(p)
      PROVE  Tended(m)'
  <2>1. /\ \A q \in Process : q # p => handler'[q] = handler[q]
        /\ strays \subseteq strays' /\ mux' = mux
        /\ handler[p].pc \in {"inserting", "moving", "dropping"}
        /\ handler[p].pc = "inserting" => handler'[p] = [handler[p] EXCEPT !.pc = "undoing"]
    BY <1>7 DEF MovesSessions, DropsRow, DatabaseFails, Goes, Becomes, Sound, TypeOK
  <2>2. m \in Held(handler[p]) => m \in Held(handler'[p])
    BY <2>1 DEF Held, Sound, TypeOK, HandlerState
  <2>3. m \in Held(handler'[p]) => Tended(m)'
    BY DEF Tended
  <2> QED  BY <2>1, <2>2, <2>3, <1>1, <1>2, StillTended
<1>8. ASSUME NEW p \in Process, Crash(p)
      PROVE  Tended(m)'
  <2>1. /\ \A q \in Process : q # p => handler'[q] = handler[q]
        /\ strays' = strays \cup Held(handler[p]) /\ mux' = mux
    BY <1>8 DEF Crash, Strays, Becomes, Sound, TypeOK
  <2>2. m \in Held(handler[p]) => Tended(m)'
    BY <2>1 DEF Tended
  <2> QED  BY <2>1, <2>2, <1>1, <1>2, StillTended
<1>9. ASSUME NEW p \in Process,
             \/ \E x \in Schedule : CreateCommits(p, x) \/ RecreateLoads(p, x) \/ DeleteLoads(p, x)
             \/ DeleteCommits(p) \/ HookCommits(p) \/ WatchCommits(p)
             \/ \E e \in events : HookLoads(p, e)
             \/ \E n \in Live : WatchLoads(p, n)
      PROVE  Tended(m)'
  <2> DEFINE A == /\ \A q \in Process : q # p => handler'[q] = handler[q]
                  /\ handler[p].pc \in {"idle", "deleting", "updating", "starting"}
                  /\ strays' = strays /\ mux' = mux
  <2>1. ASSUME NEW x \in Schedule, CreateCommits(p, x) \/ RecreateLoads(p, x) \/ DeleteLoads(p, x)
        PROVE  A
    BY <2>1 DEF CreateCommits, RecreateLoads, DeleteLoads, Becomes, Sound, TypeOK, Idle
  <2>2. ASSUME DeleteCommits(p) \/ HookCommits(p) \/ WatchCommits(p)
        PROVE  A
    BY <2>2 DEF DeleteCommits, HookCommits, WatchCommits, Goes, Becomes, Sound, TypeOK
  <2>3. ASSUME NEW e \in events, HookLoads(p, e)
        PROVE  A
    BY <2>3 DEF HookLoads, Becomes, Sound, TypeOK, Idle
  <2>4. ASSUME NEW n \in Live, WatchLoads(p, n)
        PROVE  A
    BY <2>4 DEF WatchLoads, Becomes, Sound, TypeOK, Idle
  <2>5. A
    BY <1>9, <2>1, <2>2, <2>3, <2>4
  <2>6. Held(handler[p]) = {}
    BY <2>5 DEF Held
  <2> QED  BY <2>5, <2>6, <1>1, <1>2, StillTended
<1>10. ASSUME \/ \E n \in Live : EncoderConnects(n) \/ EncoderStops(n)
              \/ UNCHANGED vars
       PROVE  Tended(m)'
  <2>1. UNCHANGED <<stream, strays, handler>>
    BY <1>10 DEF EncoderConnects, EncoderStops, vars, tables
  <2>2. mux[m] \in {"idle", "active"}
    BY <1>10 DEF EncoderConnects, EncoderStops, vars, Sound, TypeOK
  <2> QED  BY <2>1, <2>2, <1>1 DEF Tended, Exists
<1> QED  BY <1>3, <1>4, <1>5, <1>6, <1>7, <1>8, <1>9, <1>10
         DEF Next, ManagerStep, OtherStep

\* A live stream at Mux that no row names is in the hands of a handler, or was
\* left behind by a crash or a failing call to Mux.
THEOREM NoneForgotten == Spec => []NoStreamIsForgotten
<1>1. Init => NoStreamIsForgotten
  BY DEF Init, NoStreamIsForgotten
<1>2. IInv /\ NoStreamIsForgotten /\ [Next]_vars => NoStreamIsForgotten'
  <2> SUFFICES ASSUME IInv, NoStreamIsForgotten, [Next]_vars,
                      NEW m \in Live, mux'[m] \in {"idle", "active"}
               PROVE  Tended(m)'
    BY DEF NoStreamIsForgotten, Tended
  <2> QED  BY NextTended
<1> QED  BY <1>1, <1>2, Invariance, PTL DEF Spec

(***************************************************************************)
(* One process, which neither dies nor fails between the commit of the new *)
(* row and that of the deletion of the old one: a schedule has one stream. *)
(***************************************************************************)

\* A request that has inserted its row goes on with what recreate_stream does.
Undisturbed ==
  \A p \in Process : handler[p].pc \in {"moving", "dropping"} /\ handler'[p] # handler[p]
    => MovesSessions(p) \/ DropsRow(p)

\* What the locals of a handler say of the streams: a schedule has two only
\* while one replaces the other.
RowsFit(h) ==
  /\ h.pc \in {"calling", "inserting"} =>
       /\ schedule[h.schedule] # "absent"
       /\ StreamsOf(h.schedule) = IF h.old = None THEN {} ELSE {h.old}
  /\ h.pc \in {"moving", "dropping"} => h.old # h.new /\ StreamsOf(h.schedule) = {h.old, h.new}
  /\ h.pc = "dropping" => Droppable(h.old)
  /\ \A x \in Schedule :
       h.pc \notin {"moving", "dropping"} \/ x # h.schedule => AtMostOne(x)

\* An id that no schedule has yet has no stream.
Unborn == \A x \in Schedule : schedule[x] = "absent" => StreamsOf(x) = {}

RestInv == IInv /\ (\A p \in Process : RowsFit(handler[p])) /\ Unborn

\* The streams of each schedule stay, and so does what the invariant says of
\* them; it remains to look at the handler.
LEMMA SameStreams ==
  ASSUME RestInv, NEW w \in Process, NEW h, NEW g, h = handler[w], g = handler'[w],
         \A x \in Schedule : StreamsOf(x)' = StreamsOf(x),
         h.pc \in {"moving", "dropping"} => g = h /\ UNCHANGED session,
         g.pc \in {"moving", "dropping"} => g = h,
         g.pc \in {"calling", "inserting"} =>
           /\ g.schedule \in Schedule /\ schedule'[g.schedule] # "absent"
           /\ StreamsOf(g.schedule) = IF g.old = None THEN {} ELSE {g.old}
  PROVE  RowsFit(g)'
<1>1. \A x \in Schedule : AtMostOne(x) => AtMostOne(x)'
  BY DEF AtMostOne
<1>2. RowsFit(h)
  BY DEF RestInv
<1>3. h.pc \in {"moving", "dropping"} => h.schedule \in Schedule /\ h.old \in Live
  BY DEF RestInv, IInv, Sound, LocalsOK
<1>4. g.pc \in {"calling", "inserting"} =>
        /\ schedule'[g.schedule] # "absent"
        /\ StreamsOf(g.schedule)' = IF g.old = None THEN {} ELSE {g.old}
  OBVIOUS
<1>5. g.pc \in {"moving", "dropping"} => g.old # g.new /\ StreamsOf(g.schedule)' = {g.old, g.new}
  BY <1>2, <1>3 DEF RowsFit
<1>6. ASSUME g.pc = "dropping" PROVE Droppable(g.old)'
  <2>1. Droppable(g.old) /\ session' = session /\ g.old \in StreamsOf(g.schedule)'
    BY <1>2, <1>3, <1>6 DEF RowsFit
  <2>2. Exists(g.old)'
    BY <2>1 DEF StreamsOf
  <2> QED  BY <2>1, <2>2 DEF Droppable
<1>7. \A x \in Schedule : g.pc \notin {"moving", "dropping"} \/ x # g.schedule => AtMostOne(x)'
  BY <1>1, <1>2 DEF RowsFit
<1> QED  BY <1>4, <1>5, <1>6, <1>7 DEF RowsFit

\* A step that neither inserts nor deletes a row leaves every schedule its streams.
LEMMA StreamsStay ==
  ASSUME IInv, NEW w \in Process, UNCHANGED stream \/ HookCommits(w)
  PROVE  \A x \in Schedule : StreamsOf(x)' = StreamsOf(x)
<1>1. CASE UNCHANGED stream
  BY <1>1 DEF StreamsOf, Exists
<1>2. CASE HookCommits(w)
  <2>1. handler'[w] = Idle /\ Next
    BY <1>2 DEF HookCommits, Becomes, IInv, Sound, TypeOK, Next, OtherStep
  <2>2. \A m \in Live : Exists(m) => stream'[m] # Absent /\ stream'[m].schedule = stream[m].schedule
    <3>1. Idle.pc # "cleaning"
      BY DEF Idle
    <3>2. ASSUME NEW m \in Live, NEW p \in Process, handler'[p].pc = "cleaning", Exists(m), ~Exists(m)'
          PROVE  FALSE
      <4>1. stream'[m] = stream[m]
              \/ stream'[m] = Flushed(stream[m], handler[w].row,
                                      Reported(handler[w].row, handler[w].event.type))
        BY <1>2, <3>2 DEF HookCommits, IInv, Sound, TypeOK
      <4>2. handler[w].event \in Event /\ handler[w].row \in Row /\ stream[m] \in Row
        BY <1>2, <3>2 DEF HookCommits, IInv, Sound, LocalsOK, TypeOK, Exists
      <4>3. stream'[m] \in Row
        BY <4>1, <4>2, FlushedRow
      <4> QED  BY <3>2, <4>3, StreamAssumption DEF Exists
    <3> QED  BY <2>1, <3>2, RowStep DEF RowKept, Exists
  <2>3. \A m \in Live : ~Exists(m) => stream'[m] = stream[m]
    BY <1>2 DEF HookCommits, IInv, Sound, TypeOK, Exists
  <2> QED  BY <2>2, <2>3 DEF StreamsOf, Exists
<1> QED  BY <1>1, <1>2

\* A schedule is never taken back.
LEMMA StaysBorn ==
  ASSUME IInv, [Next]_vars, NEW x \in Schedule, schedule'[x] = "absent"
  PROVE  schedule[x] = "absent"
<1>1. \/ UNCHANGED schedule
      \/ \E p \in Process, y \in Schedule : CreateCommits(p, y)
      \/ \E p \in Process : DeleteCommits(p)
  BY DEF Next, vars, tables, ManagerStep, OtherStep, CreateCommits, RecreateLoads, DeleteLoads,
         MuxCreates, MuxCreateFails, InsertsStream, MovesSessions, DropsRow, DatabaseFails,
         DeletesLive, DeleteCommits, HookLoads, HookCommits, WatchLoads, WatchCommits, Crash,
         EncoderConnects, EncoderStops
<1> QED  BY <1>1 DEF CreateCommits, DeleteCommits, IInv, Sound, TypeOK

\* What the steps do to the locals that leave the rows alone.
LEMMA PlainStep ==
  ASSUME RestInv, NEW w, Process = {w}, [Next]_vars, Undisturbed,
         ~MovesSessions(w), ~DropsRow(w), ~InsertsStream(w),
         NEW h, NEW g, h = handler[w], g = handler'[w]
  PROVE  /\ UNCHANGED stream \/ HookCommits(w)
         /\ h.pc \in {"moving", "dropping"} => g = h /\ UNCHANGED session
         /\ g.pc \in {"moving", "dropping"} => g = h
         /\ g.pc \in {"calling", "inserting"} =>
              /\ g.schedule \in Schedule /\ schedule'[g.schedule] # "absent"
              /\ StreamsOf(g.schedule) = IF g.old = None THEN {} ELSE {g.old}
<1> USE DEF RestInv, IInv, Sound, TypeOK
<1> DEFINE Goal ==
  /\ UNCHANGED stream \/ HookCommits(w)
  /\ h.pc \in {"moving", "dropping"} => g = h /\ UNCHANGED session
  /\ g.pc \in {"moving", "dropping"} => g = h
  /\ g.pc \in {"calling", "inserting"} =>
       /\ g.schedule \in Schedule /\ schedule'[g.schedule] # "absent"
       /\ StreamsOf(g.schedule) = IF g.old = None THEN {} ELSE {g.old}
<1>1. /\ h \in HandlerState /\ LocalsOK(h) /\ RowsFit(h)
      /\ h.pc \in {"moving", "dropping"} => g = h
      /\ \A k : Becomes(w, k) => g = k
  BY DEF Undisturbed, Becomes
<1>2. ASSUME g = h, UNCHANGED <<schedule, stream, session>>
      PROVE  Goal
  BY <1>1, <1>2 DEF RowsFit, LocalsOK
<1>3. ASSUME h.pc \notin {"moving", "dropping"}, UNCHANGED stream \/ HookCommits(w),
             g.pc \notin {"calling", "inserting", "moving", "dropping"}
      PROVE  Goal
  BY <1>3
<1>4. Idle \in HandlerState /\ Idle.pc = "idle"
  BY DEF Idle, HandlerState, PC
<1>5. ASSUME NEW x \in Schedule, CreateCommits(w, x)
      PROVE  Goal
  <2>1. /\ h.pc = "idle" /\ g = [Idle EXCEPT !.pc = "calling", !.schedule = x]
        /\ schedule'[x] = "there" /\ StreamsOf(x) = {} /\ UNCHANGED stream
    BY <1>1, <1>4, <1>5 DEF CreateCommits, Unborn
  <2>2. g.pc = "calling" /\ g.schedule = x /\ g.old = None
    BY <2>1 DEF Idle
  <2> QED  BY <2>1, <2>2
<1>6. ASSUME NEW x \in Schedule, RecreateLoads(w, x)
      PROVE  Goal
  <2>1. /\ h.pc = "idle"
        /\ g = [Idle EXCEPT !.pc = "calling", !.schedule = x, !.old = TheStream(x)]
        /\ schedule'[x] = "there" /\ AtMostOne(x) /\ UNCHANGED stream
    BY <1>1, <1>4, <1>6 DEF RecreateLoads, tables
  <2>2. g.pc = "calling" /\ g.schedule = x /\ g.old = TheStream(x)
    BY <2>1 DEF Idle
  <2>3. StreamsOf(x) = IF TheStream(x) = None THEN {} ELSE {TheStream(x)}
    BY <2>1, LookupResult DEF AtMostOne
  <2> QED  BY <2>1, <2>2, <2>3
<1>7. ASSUME NEW m \in Live, MuxCreates(w, m)
      PROVE  Goal
  <2>1. /\ h.pc = "calling" /\ g = [h EXCEPT !.pc = "inserting", !.new = m]
        /\ UNCHANGED <<schedule, stream>>
    BY <1>1, <1>7 DEF MuxCreates, tables
  <2>2. g.pc = "inserting" /\ g.schedule = h.schedule /\ g.old = h.old
    BY <1>1, <2>1 DEF HandlerState
  <2> QED  BY <1>1, <2>1, <2>2 DEF RowsFit, LocalsOK
<1>8. ASSUME MuxCreateFails(w) \/ DeletesLive(w) \/ HookCommits(w) \/ WatchCommits(w)
      PROVE  Goal
  <2>1. h.pc \notin {"moving", "dropping"} /\ g = Idle /\ (UNCHANGED stream \/ HookCommits(w))
    BY <1>1, <1>8 DEF MuxCreateFails, DeletesLive, HookCommits, WatchCommits, tables
  <2> QED  BY <1>3, <1>4, <2>1
<1>9. ASSUME DatabaseFails(w)
      PROVE  Goal
  <2>1. g = [h EXCEPT !.pc = "undoing"] /\ UNCHANGED stream
    BY <1>1, <1>9 DEF DatabaseFails, Goes, tables
  <2>2. g.pc = "undoing" /\ h.pc \notin {"moving", "dropping"}
    BY <1>1, <2>1 DEF HandlerState
  <2> QED  BY <1>3, <2>1, <2>2
<1>10. ASSUME Crash(w)
       PROVE  Goal
  <2>1. h # Idle /\ g = Idle /\ UNCHANGED stream
    BY <1>1, <1>10 DEF Crash, tables
  <2> QED  BY <1>1, <1>3, <1>4, <2>1
<1>11. ASSUME DeleteCommits(w)
       PROVE  Goal
  <2>1. h.pc = "deleting" /\ UNCHANGED stream /\ (g = Idle \/ g = [h EXCEPT !.pc = "unmaking"])
    BY <1>1, <1>11 DEF DeleteCommits, Goes
  <2>2. g.pc \in {"idle", "unmaking"}
    BY <1>1, <1>4, <2>1 DEF HandlerState
  <2> QED  BY <1>3, <2>1, <2>2
<1>12. ASSUME \/ \E x \in Schedule : DeleteLoads(w, x)
              \/ \E e \in events : HookLoads(w, e)
              \/ \E m \in Live : WatchLoads(w, m)
       PROVE  Goal
  <2>1. h = Idle /\ UNCHANGED stream
    BY <1>12 DEF DeleteLoads, HookLoads, WatchLoads, tables
  <2>2. g.pc \in {"deleting", "updating", "starting"}
    BY <1>1, <1>12 DEF DeleteLoads, HookLoads, WatchLoads, Idle
  <2> QED  BY <1>3, <1>4, <2>1, <2>2
<1>13. ASSUME (\E m \in Live : EncoderConnects(m) \/ EncoderStops(m)) \/ UNCHANGED vars
       PROVE  Goal
  BY <1>2, <1>13 DEF EncoderConnects, EncoderStops, vars, tables
<1> QED  BY <1>5, <1>6, <1>7, <1>8, <1>9, <1>10, <1>11, <1>12, <1>13
         DEF Next, ManagerStep, OtherStep

\* The row of the new stream comes.
LEMMA InsertStep ==
  ASSUME RestInv, NEW w, Process = {w}, InsertsStream(w),
         NEW h, NEW g, h = handler[w], g = handler'[w]
  PROVE  /\ RowsFit(g)'
         /\ \A x \in Schedule : x # h.schedule => StreamsOf(x)' = StreamsOf(x)
         /\ schedule[h.schedule] # "absent"
<1> USE DEF RestInv, IInv, Sound, TypeOK
<1>1. /\ h.pc = "inserting" /\ h \in HandlerState /\ h.new \in Live /\ h.schedule \in Schedule
      /\ RowsFit(h) /\ ~Exists(h.new) /\ h.old # h.new
  BY DEF InsertsStream, LocalsOK, Ordered, NewApart, Replacing, Making
<1>2. PICK row \in Row : row.schedule = h.schedule /\ stream' = [stream EXCEPT ![h.new] = row]
  <2>1. [schedule |-> h.schedule, status |-> "PENDING", recorded |-> FALSE] \in Row
    BY <1>1 DEF Row, Status
  <2> QED  BY <2>1 DEF InsertsStream
<1>3. stream'[h.new] = row /\ row # Absent /\ \A m \in Live \ {h.new} : stream'[m] = stream[m]
  BY <1>1, <1>2, StreamAssumption
<1>4. /\ StreamsOf(h.schedule)' = StreamsOf(h.schedule) \cup {h.new}
      /\ \A x \in Schedule : x # h.schedule => StreamsOf(x)' = StreamsOf(x)
  BY <1>1, <1>2, <1>3 DEF StreamsOf, Exists
<1>5. \A x \in Schedule : x # h.schedule => AtMostOne(x)'
  BY <1>1, <1>4 DEF RowsFit, AtMostOne
<1>6. CASE h.old = None
  <2>1. g = Idle \/ g = [h EXCEPT !.pc = "undoing"]
    BY <1>6 DEF InsertsStream, Becomes, Goes
  <2>2. g.pc \in {"idle", "undoing"}
    BY <1>1, <2>1 DEF Idle, HandlerState
  <2>3. StreamsOf(h.schedule)' = {h.new}
    BY <1>1, <1>4, <1>6 DEF RowsFit
  <2>4. AtMostOne(h.schedule)'
    BY <2>3 DEF AtMostOne
  <2>5. RowsFit(g)'
    BY <1>5, <2>2, <2>4 DEF RowsFit
  <2> QED  BY <1>1, <1>4, <2>5 DEF RowsFit
<1>7. CASE h.old # None
  <2>1. g = [h EXCEPT !.pc = "moving"]
    BY <1>7 DEF InsertsStream, Goes, Becomes
  <2>2. g.pc = "moving" /\ g.schedule = h.schedule /\ g.old = h.old /\ g.new = h.new
    BY <1>1, <2>1 DEF HandlerState
  <2>3. StreamsOf(h.schedule)' = {h.old, h.new}
    BY <1>1, <1>4, <1>7 DEF RowsFit
  <2>4. RowsFit(g)'
    BY <1>1, <1>5, <2>2, <2>3 DEF RowsFit
  <2> QED  BY <1>1, <1>4, <2>4 DEF RowsFit
<1> QED  BY <1>6, <1>7

\* The watch sessions follow, and none is left at the old stream.
LEMMA MoveStep ==
  ASSUME RestInv, NEW w, Process = {w}, MovesSessions(w),
         NEW h, NEW g, h = handler[w], g = handler'[w]
  PROVE  RowsFit(g)' /\ UNCHANGED <<schedule, stream>>
<1> USE DEF RestInv, IInv, Sound, TypeOK
<1>1. /\ h.pc = "moving" /\ h \in HandlerState /\ h.new \in Live /\ h.old \in Live
      /\ h.schedule \in Schedule /\ RowsFit(h)
  BY DEF MovesSessions, LocalsOK
<1>2. h.old # h.new /\ StreamsOf(h.schedule) = {h.old, h.new} /\ Exists(h.old)
  BY <1>1 DEF RowsFit, StreamsOf
<1>3. /\ session' = Moved(h.old, h.new) /\ UNCHANGED <<schedule, stream>>
      /\ g = [h EXCEPT !.pc = "dropping"]
  BY <1>2 DEF MovesSessions, Goes, Becomes
<1>4. g.pc = "dropping" /\ g.schedule = h.schedule /\ g.old = h.old /\ g.new = h.new
  BY <1>1, <1>3 DEF HandlerState
<1>5. \A x \in Schedule : StreamsOf(x)' = StreamsOf(x) /\ (AtMostOne(x) => AtMostOne(x)')
  BY <1>3 DEF StreamsOf, Exists, AtMostOne
<1>6. ASSUME NEW s \in Session, session'[s] # Absent
      PROVE  session'[s].stream # h.old
  <2>1. session'[s] = IF session[s] # Absent /\ session[s].stream = h.old
                      THEN [session[s] EXCEPT !.stream = h.new] ELSE session[s]
    BY <1>3 DEF Moved
  <2>2. session[s] # Absent => session[s] \in Watch
    OBVIOUS
  <2>3. CASE session[s] # Absent /\ session[s].stream = h.old
    BY <1>2, <2>1, <2>2, <2>3 DEF Watch
  <2>4. CASE ~(session[s] # Absent /\ session[s].stream = h.old)
    BY <1>6, <2>1, <2>4
  <2> QED  BY <2>3, <2>4
<1>7. Droppable(h.old)'
  BY <1>2, <1>3, <1>6 DEF Droppable, Exists
<1> QED  BY <1>1, <1>2, <1>3, <1>4, <1>5, <1>7 DEF RowsFit

\* The row of the old stream goes.
LEMMA DropStep ==
  ASSUME RestInv, NEW w, Process = {w}, DropsRow(w),
         NEW h, NEW g, h = handler[w], g = handler'[w]
  PROVE  /\ RowsFit(g)' /\ UNCHANGED schedule
         /\ \A x \in Schedule : StreamsOf(x)' \subseteq StreamsOf(x)
<1> USE DEF RestInv, IInv, Sound, TypeOK
<1>1. /\ h.pc = "dropping" /\ h \in HandlerState /\ h.schedule \in Schedule /\ RowsFit(h)
  BY DEF DropsRow, LocalsOK
<1>2. /\ stream' = [m \in Live |-> IF m = h.old THEN Absent ELSE stream[m]]
      /\ g = [h EXCEPT !.pc = "cleaning"] /\ UNCHANGED schedule
  BY <1>1 DEF DropsRow, RowsFit, Goes, Becomes, Replaced
<1>3. g.pc = "cleaning"
  BY <1>1, <1>2 DEF HandlerState
<1>4. \A x \in Schedule : StreamsOf(x)' = StreamsOf(x) \ {h.old}
  BY <1>2 DEF StreamsOf, Exists
<1>5. StreamsOf(h.schedule)' \subseteq {h.new}
  BY <1>1, <1>4 DEF RowsFit
<1>6. \A x \in Schedule : AtMostOne(x)'
  BY <1>1, <1>4, <1>5 DEF RowsFit, AtMostOne
<1> QED  BY <1>2, <1>3, <1>4, <1>6 DEF RowsFit

\* In one process, a schedule has one stream at most when no request is in
\* progress (models/Schedule.py, uselist=False), unless the process died or the
\* database failed after recreate_stream had committed the new row and before
\* it deleted the old one.  Nothing else may go wrong: not a failing call to
\* Mux, not a crash anywhere else, no webhook and no viewer.
THEOREM OneStream ==
  ASSUME NEW w, Process = {w}
  PROVE  Init /\ [][Next /\ Undisturbed]_vars => []OneStreamAtRest
<1>1. Init => RestInv
  <2> SUFFICES ASSUME Init PROVE RestInv
    OBVIOUS
  <2>1. IInv
    BY InitIInv
  <2>2. \A x \in Schedule : StreamsOf(x) = {}
    BY DEF Init, StreamsOf, Exists
  <2>3. handler[w].pc = "idle"
    BY DEF Init, Idle
  <2> QED  BY <2>1, <2>2, <2>3 DEF RestInv, RowsFit, Unborn, AtMostOne
<1>2. RestInv /\ [Next /\ Undisturbed]_vars => RestInv'
  <2> SUFFICES ASSUME RestInv, [Next /\ Undisturbed]_vars
               PROVE  RestInv'
    OBVIOUS
  <2>1. [Next]_vars /\ Undisturbed /\ IInv
    BY DEF vars, Undisturbed, RestInv
  <2>2. IInv'
    BY <2>1, NextIInv
  <2>3. PICK h, g : h = handler[w] /\ g = handler'[w]
    OBVIOUS
  <2>4. \A x \in Schedule : schedule'[x] = "absent" => schedule[x] = "absent"
    BY <2>1, StaysBorn
  <2>5. RowsFit(g)' /\ Unborn'
    <3>1. CASE InsertsStream(w)
      BY <2>3, <2>4, <3>1, InsertStep DEF Unborn, RestInv, InsertsStream
    <3>2. CASE MovesSessions(w)
      BY <2>3, <3>2, MoveStep DEF Unborn, RestInv, StreamsOf, Exists
    <3>3. CASE DropsRow(w)
      BY <2>3, <3>3, DropStep DEF Unborn, RestInv
    <3>4. CASE ~InsertsStream(w) /\ ~MovesSessions(w) /\ ~DropsRow(w)
      <4> DEFINE Calls == g.pc \in {"calling", "inserting"} =>
                   /\ g.schedule \in Schedule /\ schedule'[g.schedule] # "absent"
                   /\ StreamsOf(g.schedule) = IF g.old = None THEN {} ELSE {g.old}
      <4>1. /\ UNCHANGED stream \/ HookCommits(w)
            /\ h.pc \in {"moving", "dropping"} => g = h /\ UNCHANGED session
            /\ g.pc \in {"moving", "dropping"} => g = h
            /\ Calls
        BY <2>1, <2>3, <3>4, PlainStep
      <4>2. \A x \in Schedule : StreamsOf(x)' = StreamsOf(x)
        BY <2>1, <4>1, StreamsStay
      <4>3. RowsFit(g)'
        BY <2>3, <4>1, <4>2, SameStreams
      <4>4. Unborn'
        BY <2>4, <4>2 DEF Unborn, RestInv
      <4> QED  BY <4>3, <4>4
    <3> QED  BY <3>1, <3>2, <3>3, <3>4
  <2> QED  BY <2>2, <2>3, <2>5 DEF RestInv
<1>3. RestInv => OneStreamAtRest
  BY DEF RestInv, RowsFit, OneStreamAtRest, Idle
<1> QED  BY <1>1, <1>2, <1>3, PTL
=============================================================================
