-------------------------- MODULE StreamLifecycle --------------------------
(***************************************************************************)
(* Schedules, their streams and the live streams behind them at Mux        *)
(* (routes/schedule.py, the webhook of routes/streaming.py).  A manager    *)
(* creates a schedule, recreates its stream, deletes the schedule; each    *)
(* of these commits several times and calls Mux in between, with nothing   *)
(* that spans the whole.  Mux reports what happens to a live stream by     *)
(* webhooks that arrive late, repeatedly, in any order, or never.          *)
(*                                                                         *)
(* No handler awaits, so a process runs one at a time; other processes     *)
(* commit between its statements.  Every row of the table stream is known  *)
(* by its mux_live_stream_id, which Mux gives out once.                    *)
(***************************************************************************)
EXTENDS Integers, FiniteSets

CONSTANTS
  Schedule,  \* ids of schedules
  Live,      \* ids Mux may give to live streams
  Session,   \* ids of watch sessions
  Process,   \* processes of the API
  None,      \* no schedule, live stream or webhook
  Absent,    \* what a table holds under an id that is not in use
  OnAir,     \* bound: how many times an encoder connects
  MaxStrays  \* bound: live streams that failures leave behind

Status == {"PENDING", "READY", "STREAMING", "ENDED"}
\* recorded: mux_asset_id and mux_asset_playback_id are set.
Row == [schedule : Schedule, status : Status, recorded : BOOLEAN]
Watch == [stream : Live, schedule : Schedule]
Event == [live : Live, type : {"active", "recording", "idle", "asset.ready"}]

ASSUME StreamAssumption ==
  /\ None \notin Schedule \cup Live \cup Event
  /\ Absent \notin Row \cup Watch
  /\ OnAir \in Nat /\ MaxStrays \in Nat

VARIABLES
  schedule,  \* [Schedule -> "absent", "there", or "deleted" (deleted_at is set)]
  stream,    \* [Live -> Row or Absent]: the table stream
  session,   \* [Session -> Watch or Absent]: stream_watch_session
  handler,   \* [Process -> what it is in the middle of]
  mux,       \* [Live -> state of the live stream at Mux]
  events,    \* webhooks Mux may deliver, again and in any order
  strays     \* history: live streams that a failure or crash left behind

tables == <<schedule, stream, session>>
vars == <<tables, handler, mux, events, strays>>

(***************************************************************************)
(* pc of a handler, named for what it does next:                           *)
(*   "calling"                create or recreate: asks Mux for a live      *)
(*                            stream; `old' is the stream to be replaced   *)
(*   "inserting"              commits the row of the new stream            *)
(*   "moving", "dropping"     recreate: moves the watch sessions to the    *)
(*                            new row, deletes the old one                 *)
(*   "cleaning", "undoing"    deletes the old, or the new, stream at Mux   *)
(*   "deleting", "unmaking"   delete_schedule: commits, calls Mux          *)
(*   "updating"               webhook: has loaded the row                  *)
(*   "starting"               watch_start: has checked the row             *)
(***************************************************************************)
PC == {"idle", "calling", "inserting", "moving", "dropping", "cleaning",
       "undoing", "deleting", "unmaking", "updating", "starting"}
HandlerState ==
  [pc : PC, schedule : Schedule \cup {None}, old : Live \cup {None},
   new : Live \cup {None}, event : Event \cup {None}, row : Row \cup {Absent}]
Idle == [pc |-> "idle", schedule |-> None, old |-> None, new |-> None,
         event |-> None, row |-> Absent]

Init ==
  /\ schedule = [x \in Schedule |-> "absent"]
  /\ stream = [m \in Live |-> Absent]
  /\ session = [s \in Session |-> Absent]
  /\ handler = [p \in Process |-> Idle]
  /\ mux = [m \in Live |-> "none"]
  /\ events = {}
  /\ strays = {}

Exists(m) == stream[m] # Absent
StreamsOf(x) == {m \in Live : Exists(m) /\ stream[m].schedule = x}
Strays(S) == strays' = strays \cup S /\ Cardinality(strays') <= MaxStrays
Becomes(p, h) == handler' = [handler EXCEPT ![p] = h]
Goes(p, pc) == Becomes(p, [handler[p] EXCEPT !.pc = pc])

\* scalar_one_or_none: with more than one row it raises, and the handler ends.
AtMostOne(x) == \A m, n \in StreamsOf(x) : m = n
TheStream(x) == IF StreamsOf(x) = {} THEN None ELSE CHOOSE m \in StreamsOf(x) : TRUE

-----------------------------------------------------------------------------
(* POST /schedule and POST /schedule/{id}/recreate-stream *)

\* The schedule and its speakers are committed.
CreateCommits(p, x) ==
  /\ handler[p] = Idle
  /\ schedule[x] = "absent"
  /\ schedule' = [schedule EXCEPT ![x] = "there"]
  /\ Becomes(p, [Idle EXCEPT !.pc = "calling", !.schedule = x])
  /\ UNCHANGED <<stream, session, mux, events, strays>>

\* Refused while the stream is STREAMING.
RecreateLoads(p, x) ==
  /\ handler[p] = Idle
  /\ schedule[x] = "there"
  /\ AtMostOne(x)
  /\ \A m \in StreamsOf(x) : stream[m].status # "STREAMING"
  /\ Becomes(p, [Idle EXCEPT !.pc = "calling", !.schedule = x, !.old = TheStream(x)])
  /\ UNCHANGED <<tables, mux, events, strays>>

MuxCreates(p, m) ==
  /\ handler[p].pc = "calling"
  /\ mux[m] = "none"
  /\ mux' = [mux EXCEPT ![m] = "idle"]
  /\ Becomes(p, [handler[p] EXCEPT !.pc = "inserting", !.new = m])
  /\ UNCHANGED <<tables, events, strays>>

\* create_schedule logs it and answers 201, recreate_stream answers 500; the
\* live stream may have been made before the answer was lost.
MuxCreateFails(p) ==
  /\ handler[p].pc = "calling"
  /\ \/ UNCHANGED <<mux, strays>>
     \/ \E m \in Live : /\ mux[m] = "none"
                        /\ mux' = [mux EXCEPT ![m] = "idle"]
                        /\ Strays({m})
  /\ Becomes(p, Idle)
  /\ UNCHANGED <<tables, events>>

\* create_stream; nothing is left to do when no stream is replaced, unless the
\* refresh that follows the commit fails.
InsertsStream(p) ==
  LET h == handler[p] IN
  /\ h.pc = "inserting"
  /\ stream' = [stream EXCEPT ![h.new] =
                  [schedule |-> h.schedule, status |-> "PENDING", recorded |-> FALSE]]
  /\ \/ h.old = None /\ (Becomes(p, Idle) \/ Goes(p, "undoing"))
     \/ h.old # None /\ Goes(p, "moving")
  /\ UNCHANGED <<schedule, session, mux, events, strays>>

\* UPDATE stream_watch_session.
Moved(old, new) ==
  [s \in Session |-> IF session[s] # Absent /\ session[s].stream = old
                     THEN [session[s] EXCEPT !.stream = new] ELSE session[s]]

\* The commit of create_stream has expired stream_asset: reading its id loads
\* it again, which fails when another request has deleted the row.
MovesSessions(p) ==
  LET h == handler[p] IN
  /\ h.pc = "moving"
  /\ IF Exists(h.old)
     THEN session' = Moved(h.old, h.new) /\ Goes(p, "dropping")
     ELSE UNCHANGED session /\ Goes(p, "undoing")
  /\ UNCHANGED <<schedule, stream, mux, events, strays>>

\* delete_stream; a watch session that was inserted since then still refers to
\* the row, and the commit fails.
Droppable(m) == Exists(m) /\ \A s \in Session : session[s] # Absent => session[s].stream # m

\* Mutant: the rows are looked up by the schedule.
RowsOfSchedule(h) == StreamsOf(h.schedule)
Replaced(h) == {h.old}

DropsRow(p) ==
  LET h == handler[p] IN
  /\ h.pc = "dropping"
  /\ IF Droppable(h.old)
     THEN /\ stream' = [m \in Live |-> IF m \in Replaced(h) THEN Absent ELSE stream[m]]
          /\ Goes(p, "cleaning")
     ELSE UNCHANGED stream /\ Goes(p, "undoing")
  /\ UNCHANGED <<schedule, session, mux, events, strays>>

\* Mutant: the exception is answered and nothing undone.
FailsOnly(p) ==
  /\ handler[p].pc \in {"inserting", "moving", "dropping"}
  /\ Becomes(p, Idle)
  /\ UNCHANGED <<tables, mux, events, strays>>
\* The except branch: also create_schedule gets there, by db.refresh.
DatabaseFails(p) ==
  /\ handler[p].pc \in {"inserting", "moving", "dropping"}
  /\ Goes(p, "undoing")
  /\ UNCHANGED <<tables, mux, events, strays>>

\* delete_live_stream(m) works, or fails with or without effect.  An exception
\* is logged, or becomes a 500; either way the handler ends.
Deletes(m) ==
  \/ mux' = [mux EXCEPT ![m] = "deleted"] /\ UNCHANGED strays
  \/ UNCHANGED mux /\ Strays({m})

\* The live stream each of the three calls is about.
Doomed(h) == IF h.pc = "undoing" THEN h.new ELSE h.old
DeletesLive(p) ==
  /\ handler[p].pc \in {"cleaning", "undoing", "unmaking"}
  /\ Deletes(Doomed(handler[p]))
  /\ Becomes(p, Idle)
  /\ UNCHANGED <<tables, events>>

-----------------------------------------------------------------------------
(* DELETE /schedule/{id} *)

DeleteLoads(p, x) ==
  /\ handler[p] = Idle
  /\ schedule[x] = "there"
  /\ AtMostOne(x)
  /\ Becomes(p, [Idle EXCEPT !.pc = "deleting", !.schedule = x, !.old = TheStream(x)])
  /\ UNCHANGED <<tables, mux, events, strays>>

DeleteCommits(p) ==
  LET h == handler[p] IN
  /\ h.pc = "deleting"
  /\ schedule' = [schedule EXCEPT ![h.schedule] = "deleted"]
  /\ IF h.old = None THEN Becomes(p, Idle) ELSE Goes(p, "unmaking")
  /\ UNCHANGED <<stream, session, mux, events, strays>>

-----------------------------------------------------------------------------
(* POST /streaming/webhook and POST /streaming/{id}/watch/start *)

HookLoads(p, e) ==
  /\ handler[p] = Idle
  /\ Exists(e.live)
  /\ Becomes(p, [Idle EXCEPT !.pc = "updating", !.event = e,
                             !.row = stream[e.live]])
  /\ UNCHANGED <<tables, mux, events, strays>>

Reported(row, type) ==
  CASE type = "asset.ready" -> [row EXCEPT !.recorded = TRUE]
    [] type = "recording" -> [row EXCEPT !.status = "READY"]
    [] type = "active" -> [row EXCEPT !.status = "STREAMING"]
    [] type = "idle" -> [row EXCEPT !.status = "ENDED"]

\* Mutant: the UPDATE sets every column.
WholeRow(now, before, after) == after
\* The UPDATE sets the columns that differ from what was loaded.
Flushed(now, before, after) ==
  [now EXCEPT
     !.status = IF after.status = before.status THEN @ ELSE after.status,
     !.recorded = IF after.recorded = before.recorded THEN @ ELSE after.recorded]

\* A row that was deleted meanwhile is not updated: 500.
HookCommits(p) ==
  LET h == handler[p]  m == h.event.live IN
  /\ h.pc = "updating"
  /\ stream' = IF Exists(m)
               THEN [stream EXCEPT ![m] = Flushed(@, h.row, Reported(h.row, h.event.type))]
               ELSE stream
  /\ Becomes(p, Idle)
  /\ UNCHANGED <<schedule, session, mux, events, strays>>

\* (The last guard is a bound: there are ids left for the starts under way.)
WatchLoads(p, m) ==
  /\ handler[p] = Idle
  /\ Exists(m)
  /\ schedule[stream[m].schedule] = "there"
  /\ stream[m].status \in {"STREAMING", "ENDED"}
  /\ Becomes(p, [Idle EXCEPT !.pc = "starting", !.schedule = stream[m].schedule,
                             !.old = m])
  /\ Cardinality({q \in Process : handler[q].pc = "starting"})
       < Cardinality({s \in Session : session[s] = Absent})
  /\ UNCHANGED <<tables, mux, events, strays>>

\* The insert; the foreign key refuses a stream that was replaced meanwhile.
WatchCommits(p) ==
  LET h == handler[p] IN
  /\ h.pc = "starting"
  /\ \/ /\ Exists(h.old)
        /\ \E s \in Session :
             /\ session[s] = Absent
             /\ session' = [session EXCEPT ![s] =
                              [stream |-> h.old, schedule |-> h.schedule]]
     \/ ~Exists(h.old) /\ UNCHANGED session
  /\ Becomes(p, Idle)
  /\ UNCHANGED <<schedule, stream, mux, events, strays>>

-----------------------------------------------------------------------------
(* Mux, the speaker's encoder, and processes that die *)

EncoderConnects(m) ==
  /\ mux[m] = "idle"
  /\ Cardinality({e \in events : e.type = "active"}) < OnAir
  /\ mux' = [mux EXCEPT ![m] = "active"]
  /\ events' = events \cup [live : {m}, type : {"active", "recording"}]
  /\ UNCHANGED <<tables, handler, strays>>

EncoderStops(m) ==
  /\ mux[m] = "active"
  /\ mux' = [mux EXCEPT ![m] = "idle"]
  /\ events' = events \cup [live : {m}, type : {"idle", "asset.ready"}]
  /\ UNCHANGED <<tables, handler, strays>>

\* Live streams that only the locals of h know of.
Held(h) ==
  CASE h.pc \in {"inserting", "undoing"} -> {h.new}
    [] h.pc = "cleaning" -> {h.old}
    [] OTHER -> {}

Crash(p) ==
  /\ handler[p] # Idle
  /\ Strays(Held(handler[p]))
  /\ Becomes(p, Idle)
  /\ UNCHANGED <<tables, mux, events>>

ManagerStep(p) ==
  \/ \E x \in Schedule : CreateCommits(p, x) \/ RecreateLoads(p, x) \/ DeleteLoads(p, x)
  \/ \E m \in Live : MuxCreates(p, m)
  \/ MuxCreateFails(p) \/ InsertsStream(p) \/ MovesSessions(p) \/ DropsRow(p)
  \/ DatabaseFails(p) \/ DeletesLive(p) \/ DeleteCommits(p)

OtherStep(p) ==
  \/ \E e \in events : HookLoads(p, e)
  \/ \E m \in Live : WatchLoads(p, m)
  \/ HookCommits(p) \/ WatchCommits(p) \/ Crash(p)

Next ==
  \/ \E p \in Process : ManagerStep(p) \/ OtherStep(p)
  \/ \E m \in Live : EncoderConnects(m) \/ EncoderStops(m)

Spec == Init /\ [][Next]_vars

-----------------------------------------------------------------------------
(* Properties *)

TypeOK ==
  /\ schedule \in [Schedule -> {"absent", "there", "deleted"}]
  /\ stream \in [Live -> Row \cup {Absent}]
  /\ session \in [Session -> Watch \cup {Absent}]
  /\ handler \in [Process -> HandlerState]
  /\ mux \in [Live -> {"none", "idle", "active", "deleted"}]
  /\ events \subseteq Event
  /\ strays \subseteq Live

\* recreate_stream inserts the new stream before it deletes the old one: a
\* schedule that has a stream is never without one, however requests overlap,
\* fail half-way or die.
StreamIsReplaced ==
  [][\A x \in Schedule : StreamsOf(x) # {} => StreamsOf(x)' # {}]_stream

\* A live stream at Mux that no row of the table names is still in the hands of
\* the handler that made or replaces it, or was left behind by a crash or a
\* failing call to Mux: an exception alone never loses one.
NoStreamIsForgotten ==
  \A m \in Live :
    mux[m] \in {"idle", "active"} =>
      Exists(m) \/ m \in strays \/ \E p \in Process : m \in Held(handler[p])

\* The recording that asset.ready reported for a stream is kept for as long as
\* the row exists, whatever a webhook in another process had loaded before.
RecordingIsKept ==
  [][\A m \in Live : Exists(m) /\ Exists(m)' /\ stream[m].recorded
       => stream'[m].recorded]_stream

-----------------------------------------------------------------------------
(* What the code says of itself and does not keep. *)

\* models/Schedule.py declares `stream' with uselist=False, and every lookup of
\* a schedule with its stream is a scalar_one_or_none: when no request is in
\* progress, a schedule has at most one stream.
OneStreamAtRest ==
  (\A p \in Process : handler[p] = Idle) => \A x \in Schedule : AtMostOne(x)
=============================================================================
