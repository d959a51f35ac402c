--------------------------- MODULE WatchSessions ---------------------------
(***************************************************************************)
(* The watch sessions of a streamed talk (routes/streaming.py,             *)
(* repository/stream_watch.py).  A viewer's player opens a session, sends  *)
(* a heartbeat with its position every few seconds, and ends the session;  *)
(* a job of the worker ends the sessions whose player fell silent.         *)
(*                                                                         *)
(* The handlers never await between their SELECT and their commit, so one  *)
(* process runs one of them at a time.  The API runs in several processes, *)
(* and nothing locks the row: between the SELECT and the commit of one     *)
(* process every other process, and the worker, may commit.  SQLAlchemy    *)
(* writes the columns that differ from what was loaded, and no other.      *)
(*                                                                         *)
(* Every session of the model is of one user and one schedule; the lookups *)
(* that refuse a foreign or unknown session change nothing and are left    *)
(* out.  mode, user_agent and the timestamps of the row nothing reads.     *)
(***************************************************************************)
EXTENDS Integers, FiniteSets

CONSTANTS
  Client,        \* client_session_id's, one for each player
  Session,       \* ids of watch sessions
  Process,       \* processes of the API
  Absent,        \* what the table holds under an id not yet given out
  Null,          \* ended_at of a session that is open
  Positions,     \* positions a player reports, in ticks
  Second,        \* ticks of the clock that make one second
  Cap,           \* most seconds one heartbeat is credited with (20)
  Qualify,       \* STREAM_QUALIFIED_SECONDS
  Timeout,       \* ticks of silence after which a session is abandoned (5 min)
  Overlap,       \* a player may send a request before the last is answered
  LastRequest,   \* bound: no request is sent from this time on, and the clock
                 \* passes it when those sent are answered
  MaxTime        \* bound: the clock stops here

\* A row of the table; first_position is a history field, no column.
Row == [client : Client, started_at : Nat, last_heartbeat_at : Nat,
        ended_at : Nat \cup {Null}, watched_seconds : Nat,
        last_position_seconds : Nat, qualified : BOOLEAN, first_position : Nat]

ASSUME ConstantsAssumption ==
  /\ Null \notin Nat /\ Absent \notin Row
  /\ Positions \subseteq Nat
  /\ Second \in Nat \ {0} /\ Cap \in Nat \ {0} /\ Qualify \in Nat \ {0}
  /\ Timeout \in Nat /\ LastRequest \in Nat /\ MaxTime \in Nat
  /\ Overlap \in BOOLEAN

VARIABLES
  clock,                 \* the time, in ticks
  stream_watch_session,  \* the table
  handler                \* what each process of the API is in the middle of

vars == <<clock, stream_watch_session, handler>>

Idle == [op |-> "idle"]
\* Between SELECT and commit: the rows as read at the time `at`.  "close" is
\* watch_end after the heartbeat it carries, if it carries one.
Started == [op : {"start"}, client : Client, at : Nat, position : Nat]
Loaded == [op : {"heartbeat", "end", "close"}, client : Client, at : Nat,
           position : Nat, id : Session, row : Row]

TypeOK ==
  /\ clock \in Nat
  /\ stream_watch_session \in [Session -> Row \cup {Absent}]
  /\ handler \in [Process -> {Idle} \cup Started \cup Loaded]

Init ==
  /\ clock = 0
  /\ stream_watch_session = [s \in Session |-> Absent]
  /\ handler = [p \in Process |-> Idle]

-----------------------------------------------------------------------------
Exists(s) == stream_watch_session[s] # Absent
Open(s) == Exists(s) /\ stream_watch_session[s].ended_at = Null

\* Mutant: only sessions heard of lately are looked for.
FreshSessions(c) ==
  {s \in Session : /\ Open(s) /\ stream_watch_session[s].client = c
                   /\ clock - stream_watch_session[s].last_heartbeat_at < Timeout}
\* get_active_session: the open sessions of a player.
ActiveSessions(c) ==
  {s \in Session : Open(s) /\ stream_watch_session[s].client = c}

\* The player of c sends a request now.
Asks(c) ==
  /\ clock < LastRequest
  /\ Overlap \/ \A p \in Process : handler[p] # Idle => handler[p].client # c

\* The moment now_tz() is read, between the SELECT of p and its commit.
Now(p) == handler[p].at .. clock

-----------------------------------------------------------------------------
(* watch_start *)

\* No open session of this player: one will be created.  When there is one it
\* is the answer, and a stream that is not playable is refused.  (The last
\* guard is a bound: there are ids left for the starts under way.)
StartLoads(p, c) ==
  /\ handler[p] = Idle
  /\ Asks(c)
  /\ ActiveSessions(c) = {}
  /\ Cardinality({q \in Process : handler[q].op = "start"})
       < Cardinality({s \in Session : ~Exists(s)})
  /\ \E position \in Positions \cup {0} :
       handler' = [handler EXCEPT ![p] =
                     [op |-> "start", client |-> c, at |-> clock,
                      position |-> position]]
  /\ UNCHANGED <<clock, stream_watch_session>>

NewSession(h, now) ==
  [client |-> h.client, started_at |-> now, last_heartbeat_at |-> now,
   ended_at |-> Null, watched_seconds |-> 0,
   last_position_seconds |-> h.position, qualified |-> FALSE,
   first_position |-> h.position]

StartCommits(p) ==
  /\ handler[p].op = "start"
  /\ \E s \in Session, now \in Now(p) :
       /\ ~Exists(s)
       /\ stream_watch_session' =
            [stream_watch_session EXCEPT ![s] = NewSession(handler[p], now)]
  /\ handler' = [handler EXCEPT ![p] = Idle]
  /\ UNCHANGED clock

-----------------------------------------------------------------------------
(* watch_heartbeat and watch_end *)

\* The SELECT; a session that has ended gets no heartbeat and no second end.
Loads(p, s, op, position) ==
  /\ handler[p] = Idle
  /\ Open(s)
  /\ Asks(stream_watch_session[s].client)
  /\ handler' = [handler EXCEPT ![p] =
                   [op |-> op, client |-> stream_watch_session[s].client,
                    at |-> clock, position |-> position, id |-> s,
                    row |-> stream_watch_session[s]]]
  /\ UNCHANGED <<clock, stream_watch_session>>

HeartbeatLoads(p, s) ==
  \E position \in Positions : Loads(p, s, "heartbeat", position)

EndLoads(p, s) ==
  \/ \E position \in Positions : Loads(p, s, "end", position)
  \/ Loads(p, s, "close", 0)

\* Whole seconds of a span, and nothing of one that goes backwards.
Seconds(ticks) == IF ticks < 0 THEN 0 ELSE ticks \div Second
Lesser(a, b) == IF a <= b THEN a ELSE b
Greater(a, b) == IF a >= b THEN a ELSE b

\* Mutant: the position is ignored.
DeltaByClock(row, now, position) ==
  Lesser(Seconds(now - row.last_heartbeat_at), Cap)
\* Mutant: nothing keeps a step back from being negative.
DeltaUnclamped(row, now, position) ==
  Lesser(position - row.last_position_seconds,
         Lesser(Seconds(now - row.last_heartbeat_at), Cap))
\* What a heartbeat earns: the time since the last one, as far as the player
\* moved on, up to a cap.
Delta(row, now, position) ==
  Lesser(Lesser(Seconds(now - row.last_heartbeat_at),
                Seconds(position - row.last_position_seconds)), Cap)

\* Mutant: qualified is computed from the seconds before this heartbeat.
BeatenBeforeCredit(row, now, position) ==
  [row EXCEPT
     !.watched_seconds = @ + Delta(row, now, position),
     !.last_position_seconds = Greater(@, position),
     !.last_heartbeat_at = now,
     !.qualified = row.watched_seconds >= Qualify]
\* update_heartbeat on the row as loaded.
Beaten(row, now, position) ==
  LET watched == row.watched_seconds + Delta(row, now, position)
  IN [row EXCEPT
        !.watched_seconds = watched,
        !.last_position_seconds = Greater(@, position),
        !.last_heartbeat_at = now,
        !.qualified = watched >= Qualify]

\* Mutant: the UPDATE sets every column.
WholeRow(current, old, new) == new
\* The UPDATE: it sets the columns in which new differs from old.
Column(now, before, after) == IF after = before THEN now ELSE after
Flushed(current, old, new) ==
  [current EXCEPT
     !.watched_seconds = Column(@, old.watched_seconds, new.watched_seconds),
     !.last_position_seconds =
        Column(@, old.last_position_seconds, new.last_position_seconds),
     !.last_heartbeat_at = Column(@, old.last_heartbeat_at, new.last_heartbeat_at),
     !.qualified = Column(@, old.qualified, new.qualified),
     !.ended_at = Column(@, old.ended_at, new.ended_at)]

Commit(s, old, new) ==
  stream_watch_session' = [stream_watch_session EXCEPT ![s] = Flushed(@, old, new)]

HeartbeatCommits(p) ==
  /\ handler[p].op = "heartbeat"
  /\ \E now \in Now(p) :
       LET h == handler[p]
       IN Commit(h.id, h.row, Beaten(h.row, now, h.position))
  /\ handler' = [handler EXCEPT ![p] = Idle]
  /\ UNCHANGED clock

\* end_watch_session with a position: its heartbeat commits, the row is read
\* again, and a second transaction ends the session.
EndBeats(p) ==
  /\ handler[p].op = "end"
  /\ \E now \in Now(p) :
       LET h == handler[p]
       IN Commit(h.id, h.row, Beaten(h.row, now, h.position))
  /\ handler' = [handler EXCEPT ![p] =
                   [@ EXCEPT !.op = "close", !.at = clock,
                             !.row = stream_watch_session'[handler[p].id]]]
  /\ UNCHANGED clock

EndCommits(p) ==
  /\ handler[p].op = "close"
  /\ \E now \in Now(p) :
       LET h == handler[p]
       IN Commit(h.id, h.row, [h.row EXCEPT !.ended_at = now])
  /\ handler' = [handler EXCEPT ![p] = Idle]
  /\ UNCHANGED clock

-----------------------------------------------------------------------------
(* The worker, the clock, and processes that die *)

\* Mutant: the comparison is the wrong way round.
AbandonedYoung(row) == row.last_heartbeat_at > clock - Timeout
Abandoned(row) == row.last_heartbeat_at < clock - Timeout

\* end_abandoned_sessions: one UPDATE.
CleanUp ==
  /\ \E s \in Session : Open(s) /\ Abandoned(stream_watch_session[s])
  /\ stream_watch_session' =
       [s \in Session |->
          IF Open(s) /\ Abandoned(stream_watch_session[s])
          THEN [stream_watch_session[s] EXCEPT
                  !.ended_at = stream_watch_session[s].last_heartbeat_at]
          ELSE stream_watch_session[s]]
  /\ UNCHANGED <<clock, handler>>

Tick ==
  /\ clock < MaxTime
  /\ clock < LastRequest \/ \A p \in Process : handler[p] = Idle
  /\ clock' = clock + 1
  /\ UNCHANGED <<stream_watch_session, handler>>

\* What the process had not committed is rolled back.
Crash(p) ==
  /\ handler[p] # Idle
  /\ handler' = [handler EXCEPT ![p] = Idle]
  /\ UNCHANGED <<clock, stream_watch_session>>

HandlerStep(p) ==
  StartCommits(p) \/ HeartbeatCommits(p) \/ EndBeats(p) \/ EndCommits(p)

Next ==
  \/ \E p \in Process :
       \/ \E c \in Client : StartLoads(p, c)
       \/ \E s \in Session : HeartbeatLoads(p, s) \/ EndLoads(p, s)
       \/ HandlerStep(p)
       \/ Crash(p)
  \/ CleanUp
  \/ Tick

Spec == Init /\ [][Next]_vars

\* The scheduler runs the clean-up every few minutes, and a handler that was
\* scheduled runs to its end or dies.  Nobody has to send a request.
Fairness ==
  /\ WF_vars(Tick)
  /\ WF_vars(CleanUp)
  /\ \A p \in Process : WF_vars(HandlerStep(p))

FairSpec == Spec /\ Fairness

-----------------------------------------------------------------------------
(* Properties *)

\* A player that starts again after a lost answer or a reload finds its open
\* session (the get_active_session of watch_start): it never has two.
OneActiveSession ==
  \A c \in Client : Cardinality(ActiveSessions(c)) <= 1

\* The attendance record is earned (update_heartbeat): no session is credited
\* with more seconds than passed between its start and its last heartbeat, nor
\* with more of the talk than the player moved through.
EarnedBy(row) ==
  /\ Second * row.watched_seconds <= row.last_heartbeat_at - row.started_at
  /\ Second * row.watched_seconds <= row.last_position_seconds - row.first_position
CreditIsEarned ==
  \A s \in Session : Exists(s) => EarnedBy(stream_watch_session[s])

\* `qualified` is a column of its own, written when update_heartbeat finds it
\* changed; it never disagrees with the seconds it is computed from.
QualifiedMeansWatched ==
  \A s \in Session :
    Exists(s) => (stream_watch_session[s].qualified
                    <=> stream_watch_session[s].watched_seconds >= Qualify)

\* A viewer who was told "qualified" (WatchHeartbeatResponse) stays so, and
\* the seconds counted never go down, whatever arrives after it.
NothingIsTakenBack ==
  [][\A s \in Session : Exists(s) =>
       /\ stream_watch_session'[s].watched_seconds >= stream_watch_session[s].watched_seconds
       /\ stream_watch_session[s].qualified => stream_watch_session'[s].qualified]_vars

\* A heartbeat that was loaded before the clean-up or another request ended
\* the session, and commits after it, does not open the session again.
EndedStaysEnded ==
  [][\A s \in Session : Exists(s) /\ ~Open(s) =>
       stream_watch_session'[s].ended_at # Null]_vars

\* Every session is ended at last, by its player or by the clean-up, though
\* processes die between the heartbeat and the end of a watch_end.
EverySessionEnds ==
  \A s \in Session : Exists(s) ~> (Exists(s) /\ ~Open(s))
=============================================================================
