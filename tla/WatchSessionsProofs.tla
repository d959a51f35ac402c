------------------------ MODULE WatchSessionsProofs ------------------------
(***************************************************************************)
(* Proofs about WatchSessions.  For any requests: the table is well typed  *)
(* and no session is opened again.  For players that wait for each answer  *)
(* (~Overlap), whatever the number of processes and whenever the clean-up  *)
(* runs: the credit of a session is earned, and nothing is taken back.     *)
(***************************************************************************)
EXTENDS WatchSessions, FiniteSetTheorems, TLAPS

Busy(p) == handler[p].op \in {"heartbeat", "end", "close"}

\* Every row a handler has read exists: none is ever removed.
Found == \A p \in Process : Busy(p) => Exists(handler[p].id)
TInv == TypeOK /\ Found

\* No two requests of one player are under way.
Alone ==
  \A p, q \in Process :
    /\ handler[p] # Idle /\ handler[q] # Idle
    /\ handler[p].client = handler[q].client
    => p = q

\* Two rows that differ in ended_at at most: all the clean-up ever changes.
SameCredit(r, t) ==
  /\ r.client = t.client
  /\ r.started_at = t.started_at
  /\ r.last_heartbeat_at = t.last_heartbeat_at
  /\ r.watched_seconds = t.watched_seconds
  /\ r.last_position_seconds = t.last_position_seconds
  /\ r.qualified = t.qualified
  /\ r.first_position = t.first_position

\* What a handler has loaded is still what the table holds.
Loadeds ==
  \A p \in Process : Busy(p) =>
    /\ stream_watch_session[handler[p].id].client = handler[p].client
    /\ SameCredit(handler[p].row, stream_watch_session[handler[p].id])

\* A handler that will create a session still finds none of its player.
Starts ==
  \A p \in Process, s \in Session :
    /\ handler[p].op = "start" /\ Open(s)
    => stream_watch_session[s].client # handler[p].client

\* Times and positions of a row are in order, and its credit is earned.
Sound(row) ==
  /\ row.last_heartbeat_at <= clock
  /\ row.started_at <= row.last_heartbeat_at
  /\ row.first_position <= row.last_position_seconds
  /\ EarnedBy(row)
  /\ row.qualified <=> row.watched_seconds >= Qualify
Rows == \A s \in Session : Exists(s) => Sound(stream_watch_session[s])

\* A SELECT is not in the future, nor before the heartbeat it has read.
Times ==
  \A p \in Process :
    /\ handler[p] # Idle => handler[p].at <= clock
    /\ Busy(p) => handler[p].row.last_heartbeat_at <= handler[p].at

Unique ==
  \A s, t \in Session :
    /\ Open(s) /\ Open(t)
    /\ stream_watch_session[s].client = stream_watch_session[t].client
    => s = t

IInv == TInv /\ Alone /\ Loadeds /\ Starts /\ Rows /\ Times /\ Unique

-----------------------------------------------------------------------------
(* Rows *)

LEMMA WholeSeconds ==
  ASSUME NEW t \in Int
  PROVE  /\ Seconds(t) \in Nat
         /\ t >= 0 => Second * Seconds(t) <= t
  BY ConstantsAssumption DEF Seconds

\* What Delta credits: nothing negative, and nothing beyond either span.
LEMMA DeltaBounds ==
  ASSUME NEW row \in Row, NEW now \in Nat, NEW position \in Nat
  PROVE  /\ Delta(row, now, position) \in Nat
         /\ now >= row.last_heartbeat_at
              => Second * Delta(row, now, position) <= now - row.last_heartbeat_at
         /\ Second * Delta(row, now, position)
              <= Greater(row.last_position_seconds, position)
                   - row.last_position_seconds
<1> DEFINE a == now - row.last_heartbeat_at
           b == position - row.last_position_seconds
           d == Delta(row, now, position)
<1>1. a \in Int /\ b \in Int  BY DEF Row
<1>2. /\ Seconds(a) \in Nat /\ Seconds(b) \in Nat
      /\ a >= 0 => Second * Seconds(a) <= a
      /\ b >= 0 => Second * Seconds(b) <= b
  BY <1>1, WholeSeconds
<1>3. /\ d \in Nat /\ d <= Seconds(a) /\ d <= Seconds(b)
  BY <1>2, ConstantsAssumption DEF Delta, Lesser
<1>4. /\ Second * d <= Second * Seconds(a)
      /\ Second * d <= Second * Seconds(b)
  <2> HIDE DEF d, a, b
  <2>1. \A x, y \in Nat : x <= y => Second * x <= Second * y
    BY ConstantsAssumption
  <2> QED  BY <1>2, <1>3, <2>1
<1>5. Second * d \in Nat
  <2> HIDE DEF d
  <2> QED  BY <1>3, ConstantsAssumption
<1>6. b < 0 => Second * d = 0
  <2>1. b < 0 => Seconds(b) = 0  BY DEF Seconds
  <2>2. b < 0 => d = 0
    <3> HIDE DEF d, b
    <3> QED  BY <1>2, <1>3, <2>1
  <2> HIDE DEF d, b
  <2> QED  BY <2>2, ConstantsAssumption
<1> HIDE DEF d
<1>7. Second * Seconds(a) \in Int /\ Second * Seconds(b) \in Int
  <2> HIDE DEF a, b
  <2> QED BY <1>2, ConstantsAssumption
<1>8. a >= 0 => Second * d <= a
  <2> HIDE DEF a, b
  <2> QED  BY <1>1, <1>2, <1>4, <1>5, <1>7
<1>9. Second * d <= Greater(row.last_position_seconds, position)
                      - row.last_position_seconds
  <2>1. CASE b < 0
    BY <2>1, <1>6 DEF Greater, Row
  <2>2. CASE b >= 0
    <3>1. Second * d <= b
      <4> HIDE DEF a, b
      <4> QED  BY <2>2, <1>1, <1>2, <1>4, <1>5, <1>7
    <3>2. Greater(row.last_position_seconds, position)
            - row.last_position_seconds = b
      BY <2>2 DEF Greater, Row
    <3> HIDE DEF b
    <3> QED  BY <3>1, <3>2
  <2> QED  BY <1>1, <2>1, <2>2
<1> QED  BY <1>3, <1>8, <1>9 DEF d, a, Row

\* A heartbeat writes neither who nor since when, nor whether it ended.
LEMMA BeatenKeeps ==
  ASSUME NEW row \in Row, NEW now \in Nat, NEW position \in Nat
  PROVE  /\ Beaten(row, now, position).client = row.client
         /\ Beaten(row, now, position).started_at = row.started_at
         /\ Beaten(row, now, position).first_position = row.first_position
         /\ Beaten(row, now, position).ended_at = row.ended_at
  BY DEF Beaten, Row

\* A heartbeat turns a sound row into a sound one, and takes nothing back.
LEMMA BeatenColumns ==
  ASSUME NEW row \in Row, NEW now \in Nat, NEW position \in Nat
  PROVE  /\ Beaten(row, now, position) \in Row
         /\ Beaten(row, now, position).last_heartbeat_at = now
         /\ Beaten(row, now, position).watched_seconds
              = row.watched_seconds + Delta(row, now, position)
         /\ Beaten(row, now, position).last_position_seconds
              = Greater(row.last_position_seconds, position)
<1> DEFINE w == row.watched_seconds + Delta(row, now, position)
           g == Greater(row.last_position_seconds, position)
<1>1. Delta(row, now, position) \in Nat  BY DeltaBounds
<1>2. w \in Nat
  <2> HIDE DEF Delta
  <2> QED  BY <1>1 DEF Row
<1>3. g \in Nat  BY DEF Greater, Row
<1>4. (w >= Qualify) \in BOOLEAN  OBVIOUS
<1>5. Beaten(row, now, position) =
        [row EXCEPT !.watched_seconds = w, !.last_position_seconds = g,
                    !.last_heartbeat_at = now, !.qualified = w >= Qualify]
  BY DEF Beaten
<1> HIDE DEF w, g
<1>6. /\ Beaten(row, now, position).last_heartbeat_at = now
      /\ Beaten(row, now, position).watched_seconds = w
      /\ Beaten(row, now, position).last_position_seconds = g
  BY <1>5 DEF Row
<1>7. Beaten(row, now, position) \in Row
  BY <1>2, <1>3, <1>4, <1>5 DEF Row
<1> QED  BY <1>6, <1>7 DEF w, g

LEMMA BeatenRow ==
  ASSUME NEW row \in Row, NEW now \in Nat, NEW position \in Nat
  PROVE  /\ Beaten(row, now, position) \in Row
         /\ Beaten(row, now, position).last_heartbeat_at = now
         /\ Beaten(row, now, position).watched_seconds >= row.watched_seconds
         /\ Beaten(row, now, position).last_position_seconds
              >= row.last_position_seconds
<1>1. row.watched_seconds + Delta(row, now, position) >= row.watched_seconds
  BY DeltaBounds DEF Row
<1>2. Greater(row.last_position_seconds, position) >= row.last_position_seconds
  BY DEF Greater, Row
<1> QED  BY <1>1, <1>2, BeatenColumns

LEMMA BeatenQualified ==
  ASSUME NEW row \in Row, NEW now \in Nat, NEW position \in Nat
  PROVE  Beaten(row, now, position).qualified
           <=> Beaten(row, now, position).watched_seconds >= Qualify
  BY DEF Beaten, Row

LEMMA BeatenEarned ==
  ASSUME NEW row \in Row, NEW now \in Nat, NEW position \in Nat,
         EarnedBy(row), row.last_heartbeat_at <= now
  PROVE  EarnedBy(Beaten(row, now, position))
<1> DEFINE d == Delta(row, now, position)
           g == Greater(row.last_position_seconds, position)
<1>1. /\ d \in Nat /\ g \in Nat
      /\ Second * d <= now - row.last_heartbeat_at
      /\ Second * d <= g - row.last_position_seconds
  BY DeltaBounds DEF Greater, Row
<1>2. Second * (row.watched_seconds + d)
        = Second * row.watched_seconds + Second * d
  <2> HIDE DEF d
  <2> QED  BY <1>1, ConstantsAssumption DEF Row
<1>3. Second * d \in Nat /\ Second * row.watched_seconds \in Nat
  <2> HIDE DEF d
  <2> QED  BY <1>1, ConstantsAssumption DEF Row
<1>4. /\ Second * row.watched_seconds <= row.last_heartbeat_at - row.started_at
      /\ Second * row.watched_seconds
           <= row.last_position_seconds - row.first_position
  BY DEF EarnedBy
<1>5. /\ Second * (row.watched_seconds + d) <= now - row.started_at
      /\ Second * (row.watched_seconds + d) <= g - row.first_position
  <2> HIDE DEF d, g
  <2> QED  BY <1>1, <1>2, <1>3, <1>4 DEF Row
<1> QED  BY <1>5, BeatenColumns, BeatenKeeps DEF EarnedBy, d, g

LEMMA FlushedRow ==
  ASSUME NEW current \in Row, NEW old \in Row, NEW new \in Row
  PROVE  /\ Flushed(current, old, new) \in Row
         /\ Flushed(current, old, new).client = current.client
         /\ Flushed(current, old, new).started_at = current.started_at
         /\ Flushed(current, old, new).first_position = current.first_position
         /\ Flushed(current, old, new).watched_seconds
              = Column(current.watched_seconds, old.watched_seconds,
                       new.watched_seconds)
         /\ Flushed(current, old, new).last_position_seconds
              = Column(current.last_position_seconds,
                       old.last_position_seconds, new.last_position_seconds)
         /\ Flushed(current, old, new).last_heartbeat_at
              = Column(current.last_heartbeat_at, old.last_heartbeat_at,
                       new.last_heartbeat_at)
         /\ Flushed(current, old, new).qualified
              = Column(current.qualified, old.qualified, new.qualified)
         /\ Flushed(current, old, new).ended_at
              = Column(current.ended_at, old.ended_at, new.ended_at)
<1> DEFINE w == Column(current.watched_seconds, old.watched_seconds,
                       new.watched_seconds)
           l == Column(current.last_position_seconds,
                       old.last_position_seconds, new.last_position_seconds)
           b == Column(current.last_heartbeat_at, old.last_heartbeat_at,
                       new.last_heartbeat_at)
           q == Column(current.qualified, old.qualified, new.qualified)
           e == Column(current.ended_at, old.ended_at, new.ended_at)
<1>1. w \in Nat /\ l \in Nat /\ b \in Nat /\ e \in Nat \cup {Null}
  BY DEF Column, Row
<1>2. q \in BOOLEAN
  BY Zenon DEF Column, Row
<1>3. Flushed(current, old, new) =
        [current EXCEPT !.watched_seconds = w, !.last_position_seconds = l,
           !.last_heartbeat_at = b, !.qualified = q, !.ended_at = e]
  BY DEF Flushed
<1> HIDE DEF w, l, b, q, e
<1>4. Flushed(current, old, new) \in Row
  BY <1>1, <1>2, <1>3 DEF Row
<1>5. /\ Flushed(current, old, new).client = current.client
      /\ Flushed(current, old, new).started_at = current.started_at
      /\ Flushed(current, old, new).first_position = current.first_position
      /\ Flushed(current, old, new).watched_seconds = w
      /\ Flushed(current, old, new).last_position_seconds = l
      /\ Flushed(current, old, new).last_heartbeat_at = b
      /\ Flushed(current, old, new).qualified = q
      /\ Flushed(current, old, new).ended_at = e
  BY <1>3 DEF Row
<1> QED  BY <1>4, <1>5, Zenon DEF w, l, b, q, e

LEMMA ColumnCurrent ==
  ASSUME NEW a, NEW b
  PROVE  Column(a, a, b) = b
  BY DEF Column

\* When the loaded row is still the row of the table, the UPDATE makes it the
\* new one, but for an ended_at that neither loaded nor new knows of.
LEMMA FlushedCurrent ==
  ASSUME NEW current \in Row, NEW old \in Row, NEW new \in Row,
         SameCredit(old, current),
         new.client = old.client, new.started_at = old.started_at,
         new.first_position = old.first_position
  PROVE  SameCredit(new, Flushed(current, old, new))
<1> DEFINE f == Flushed(current, old, new)
<1>0. /\ f.watched_seconds
           = Column(old.watched_seconds, old.watched_seconds, new.watched_seconds)
      /\ f.last_position_seconds
           = Column(old.last_position_seconds, old.last_position_seconds,
                    new.last_position_seconds)
      /\ f.last_heartbeat_at
           = Column(old.last_heartbeat_at, old.last_heartbeat_at,
                    new.last_heartbeat_at)
      /\ f.qualified = Column(old.qualified, old.qualified, new.qualified)
  <2>1. /\ current.watched_seconds = old.watched_seconds
        /\ current.last_position_seconds = old.last_position_seconds
        /\ current.last_heartbeat_at = old.last_heartbeat_at
        /\ current.qualified = old.qualified
    BY Zenon DEF SameCredit
  <2> QED  BY <2>1, FlushedRow
<1>1. /\ new.client = f.client
      /\ new.started_at = f.started_at
      /\ new.first_position = f.first_position
  BY FlushedRow, Zenon DEF SameCredit
<1>2. new.watched_seconds = f.watched_seconds
  BY <1>0, ColumnCurrent
<1>3. new.last_position_seconds = f.last_position_seconds
  BY <1>0, ColumnCurrent
<1>4. new.last_heartbeat_at = f.last_heartbeat_at
  BY <1>0, ColumnCurrent
<1>5. new.qualified = f.qualified
  BY <1>0, ColumnCurrent
<1> QED  BY <1>1, <1>2, <1>3, <1>4, <1>5, Zenon DEF SameCredit, f

-----------------------------------------------------------------------------
(* Types *)

LEMMA HandlerKinds ==
  ASSUME TypeOK, NEW p \in Process
  PROVE  /\ handler[p] # Idle <=> (Busy(p) \/ handler[p].op = "start")
         /\ handler[p].op = "start" => handler[p] \in Started
         /\ Busy(p) => handler[p] \in Loaded
<1>1. handler[p] \in {Idle} \cup Started \cup Loaded  BY DEF TypeOK
<1>2. CASE handler[p] = Idle
  BY <1>2 DEF Idle, Busy
<1>3. CASE handler[p] \in Started
  BY <1>3 DEF Started, Idle, Busy
<1>4. CASE handler[p] \in Loaded
  BY <1>4 DEF Loaded, Idle, Busy
<1> QED  BY <1>1, <1>2, <1>3, <1>4

LEMMA NowTyped ==
  ASSUME TypeOK, NEW p \in Process, handler[p] # Idle, NEW now \in Now(p)
  PROVE  now \in Nat /\ handler[p].at <= now /\ now <= clock
<1>1. handler[p].at \in Nat
  BY HandlerKinds DEF Started, Loaded
<1> QED  BY <1>1 DEF Now, TypeOK

LEMMA StoredRow ==
  ASSUME TypeOK, NEW s \in Session, Exists(s)
  PROVE  stream_watch_session[s] \in Row
  BY DEF TypeOK, Exists

\* What a commit of p writes into the row it has loaded.
LEMMA CommitTyped ==
  ASSUME TypeOK, NEW s \in Session, Exists(s), NEW old \in Row, NEW new \in Row,
         Commit(s, old, new)
  PROVE  /\ stream_watch_session' \in [Session -> Row \cup {Absent}]
         /\ stream_watch_session'[s] = Flushed(stream_watch_session[s], old, new)
         /\ stream_watch_session'[s] \in Row
         /\ \A t \in Session \ {s} :
              stream_watch_session'[t] = stream_watch_session[t]
<1> DEFINE f == Flushed(stream_watch_session[s], old, new)
<1>1. f \in Row  BY StoredRow, FlushedRow
<1>2. stream_watch_session' = [stream_watch_session EXCEPT ![s] = f]
  BY DEF Commit
<1> HIDE DEF f
<1>3. /\ stream_watch_session' \in [Session -> Row \cup {Absent}]
      /\ stream_watch_session'[s] = f
      /\ \A t \in Session \ {s} :
           stream_watch_session'[t] = stream_watch_session[t]
  BY <1>1, <1>2 DEF TypeOK
<1> QED  BY <1>1, <1>3 DEF f

LEMMA StartLoadsStep ==
  ASSUME TypeOK, NEW p \in Process, NEW c \in Client, StartLoads(p, c)
  PROVE  /\ TypeOK'
         /\ handler'[p].op = "start" /\ handler'[p].client = c
         /\ handler'[p].at = clock
         /\ \A q \in Process \ {p} : handler'[q] = handler[q]
<1>1. PICK position \in Positions \cup {0} :
        handler' = [handler EXCEPT ![p] =
                      [op |-> "start", client |-> c, at |-> clock,
                       position |-> position]]
  BY DEF StartLoads
<1> DEFINE h == [op |-> "start", client |-> c, at |-> clock, position |-> position]
<1>2. h \in Started  BY ConstantsAssumption DEF Started, TypeOK
<1>3. h.op = "start" /\ h.client = c /\ h.at = clock  OBVIOUS
<1> HIDE DEF h
<1>4. handler' = [handler EXCEPT ![p] = h]  BY <1>1 DEF h
<1> QED  BY <1>2, <1>3, <1>4 DEF TypeOK, StartLoads

LEMMA LoadsStep ==
  ASSUME TypeOK, NEW p \in Process, NEW s \in Session, NEW position \in Nat,
         NEW op \in {"heartbeat", "end", "close"}, Loads(p, s, op, position)
  PROVE  /\ TypeOK'
         /\ handler'[p].op = op /\ handler'[p].id = s
         /\ handler'[p].client = stream_watch_session[s].client
         /\ handler'[p].at = clock
         /\ handler'[p].row = stream_watch_session[s]
         /\ \A q \in Process \ {p} : handler'[q] = handler[q]
<1> DEFINE h == [op |-> op, client |-> stream_watch_session[s].client,
                 at |-> clock, position |-> position, id |-> s,
                 row |-> stream_watch_session[s]]
<1>1. stream_watch_session[s] \in Row  BY StoredRow DEF Loads, Open
<1>2. stream_watch_session[s].client \in Client  BY <1>1 DEF Row
<1>3. h \in Loaded  BY <1>1, <1>2 DEF Loaded, TypeOK
<1>4. /\ h.op = op /\ h.id = s /\ h.client = stream_watch_session[s].client
      /\ h.at = clock /\ h.row = stream_watch_session[s]
  OBVIOUS
<1>5. handler' = [handler EXCEPT ![p] = h]  BY DEF Loads
<1> HIDE DEF h
<1> QED  BY <1>3, <1>4, <1>5 DEF TypeOK, Loads

LEMMA ReleaseStep ==
  ASSUME TypeOK, NEW p \in Process, handler' = [handler EXCEPT ![p] = Idle]
  PROVE  /\ handler' \in [Process -> {Idle} \cup Started \cup Loaded]
         /\ handler'[p] = Idle
         /\ \A q \in Process \ {p} : handler'[q] = handler[q]
  BY DEF TypeOK

LEMMA StartCommitsStep ==
  ASSUME TypeOK, NEW p \in Process, StartCommits(p)
  PROVE  /\ TypeOK'
         /\ \E s \in Session, now \in Now(p) :
              /\ ~Exists(s)
              /\ stream_watch_session'[s] = NewSession(handler[p], now)
              /\ stream_watch_session'[s] \in Row
              /\ \A t \in Session \ {s} :
                   stream_watch_session'[t] = stream_watch_session[t]
<1>1. PICK s \in Session, now \in Now(p) :
        /\ ~Exists(s)
        /\ stream_watch_session' =
             [stream_watch_session EXCEPT ![s] = NewSession(handler[p], now)]
  BY DEF StartCommits
<1>2. handler[p].op = "start" /\ handler[p] # Idle /\ handler[p] \in Started
  BY HandlerKinds DEF StartCommits
<1>3. now \in Nat  BY <1>2, NowTyped
<1> DEFINE r == NewSession(handler[p], now)
<1>4. r \in Row
  BY <1>2, <1>3 DEF NewSession, Row, Started
<1> HIDE DEF r
<1>5. stream_watch_session' = [stream_watch_session EXCEPT ![s] = r]
  BY <1>1 DEF r
<1>6. /\ stream_watch_session' \in [Session -> Row \cup {Absent}]
      /\ stream_watch_session'[s] = r
      /\ \A t \in Session \ {s} :
           stream_watch_session'[t] = stream_watch_session[t]
  BY <1>4, <1>5 DEF TypeOK
<1>7. TypeOK'
  BY <1>6, ReleaseStep DEF TypeOK, StartCommits
<1> QED  BY <1>1, <1>4, <1>6, <1>7 DEF r

\* The heartbeat of HeartbeatCommits and EndBeats.
LEMMA BeatStep ==
  ASSUME TInv, NEW p \in Process, handler[p].op \in {"heartbeat", "end"},
         NEW now \in Now(p),
         Commit(handler[p].id, handler[p].row,
                Beaten(handler[p].row, now, handler[p].position))
  PROVE  LET h == handler[p]
             new == Beaten(h.row, now, h.position)
         IN /\ h \in Loaded /\ h.id \in Session /\ Exists(h.id)
            /\ now \in Nat /\ h.at <= now /\ now <= clock
            /\ h.row \in Row /\ new \in Row
            /\ stream_watch_session' \in [Session -> Row \cup {Absent}]
            /\ stream_watch_session'[h.id]
                 = Flushed(stream_watch_session[h.id], h.row, new)
            /\ stream_watch_session'[h.id] \in Row
            /\ \A t \in Session \ {h.id} :
                 stream_watch_session'[t] = stream_watch_session[t]
<1> USE DEF TInv
<1>1. handler[p] \in Loaded /\ handler[p] # Idle /\ Busy(p)
  BY HandlerKinds DEF Busy
<1>2. /\ handler[p].id \in Session /\ handler[p].row \in Row
      /\ handler[p].position \in Nat
  BY <1>1 DEF Loaded
<1>3. now \in Nat /\ handler[p].at <= now /\ now <= clock
  BY <1>1, NowTyped
<1>4. Beaten(handler[p].row, now, handler[p].position) \in Row
  BY <1>2, <1>3, BeatenRow
<1>5. Exists(handler[p].id)
  BY <1>1 DEF Found
<1> QED  BY <1>1, <1>2, <1>3, <1>4, <1>5, CommitTyped

\* A commit of p that turns the row it has loaded into new.
Writes(p, new) ==
  /\ handler[p] \in Loaded /\ handler[p].id \in Session
  /\ Exists(handler[p].id) /\ handler[p].row \in Row /\ new \in Row
  /\ stream_watch_session' \in [Session -> Row \cup {Absent}]
  /\ stream_watch_session'[handler[p].id]
       = Flushed(stream_watch_session[handler[p].id], handler[p].row, new)
  /\ stream_watch_session'[handler[p].id] \in Row
  /\ \A t \in Session \ {handler[p].id} :
       stream_watch_session'[t] = stream_watch_session[t]
EndedRow(p, now) == [handler[p].row EXCEPT !.ended_at = now]

LEMMA EndStep ==
  ASSUME TInv, NEW p \in Process, EndCommits(p)
  PROVE  \E now \in Nat : Writes(p, EndedRow(p, now))
<1> USE DEF TInv
<1>1. PICK now \in Now(p) :
        Commit(handler[p].id, handler[p].row, [handler[p].row EXCEPT !.ended_at = now])
  BY DEF EndCommits
<1>2. handler[p] \in Loaded /\ handler[p] # Idle /\ Busy(p)
  BY HandlerKinds DEF Busy, EndCommits
<1>3. handler[p].id \in Session /\ handler[p].row \in Row
  BY <1>2 DEF Loaded
<1>4. now \in Nat
  BY <1>2, NowTyped
<1>5. [handler[p].row EXCEPT !.ended_at = now] \in Row
  BY <1>3, <1>4 DEF Row
<1>6. Exists(handler[p].id)
  BY <1>2 DEF Found
<1>7. Writes(p, EndedRow(p, now))
  BY <1>1, <1>2, <1>3, <1>5, <1>6, CommitTyped DEF Writes, EndedRow
<1> QED  BY <1>4, <1>7

LEMMA EndBeatsStep ==
  ASSUME TInv, NEW p \in Process, EndBeats(p)
  PROVE  /\ TypeOK'
         /\ handler'[p].op = "close"
         /\ handler'[p].id = handler[p].id
         /\ handler'[p].client = handler[p].client
         /\ handler'[p].at = clock
         /\ handler'[p].row = stream_watch_session'[handler[p].id]
         /\ \A q \in Process \ {p} : handler'[q] = handler[q]
<1>1. PICK now \in Now(p) :
        Commit(handler[p].id, handler[p].row,
               Beaten(handler[p].row, now, handler[p].position))
  BY DEF EndBeats
<1>2. /\ handler[p] \in Loaded /\ handler[p].id \in Session
      /\ stream_watch_session' \in [Session -> Row \cup {Absent}]
      /\ stream_watch_session'[handler[p].id] \in Row
  BY <1>1, BeatStep DEF EndBeats
<1> DEFINE r == stream_watch_session'[handler[p].id]
           h == [handler[p] EXCEPT !.op = "close", !.at = clock, !.row = r]
<1>3. handler' = [handler EXCEPT ![p] = h]
  BY DEF EndBeats
<1>4. /\ h \in Loaded /\ h.op = "close" /\ h.id = handler[p].id
      /\ h.client = handler[p].client /\ h.at = clock /\ h.row = r
  <2> HIDE DEF r
  <2>1. r \in Row  BY <1>2 DEF r
  <2> QED  BY <2>1, <1>2 DEF Loaded, TInv, TypeOK
<1> HIDE DEF h
<1>5. /\ handler' \in [Process -> {Idle} \cup Started \cup Loaded]
      /\ handler'[p] = h
      /\ \A q \in Process \ {p} : handler'[q] = handler[q]
  BY <1>3, <1>4 DEF TInv, TypeOK
<1> QED  BY <1>2, <1>4, <1>5 DEF TInv, TypeOK, EndBeats, r

LEMMA CleanUpStep ==
  ASSUME TypeOK, CleanUp
  PROVE  /\ TypeOK'
         /\ \A s \in Session :
              /\ Exists(s)' <=> Exists(s)
              /\ Open(s)' => Open(s)
              /\ Exists(s) => /\ stream_watch_session'[s] \in Row
                              /\ SameCredit(stream_watch_session[s],
                                            stream_watch_session'[s])
              /\ Exists(s) /\ ~Open(s)
                   => stream_watch_session'[s] = stream_watch_session[s]
<1>1. ASSUME NEW s \in Session
      PROVE  /\ stream_watch_session'[s] \in Row \cup {Absent}
             /\ Exists(s)' <=> Exists(s)
             /\ Open(s)' => Open(s)
             /\ Exists(s) => /\ stream_watch_session'[s] \in Row
                             /\ SameCredit(stream_watch_session[s],
                                           stream_watch_session'[s])
             /\ Exists(s) /\ ~Open(s)
                  => stream_watch_session'[s] = stream_watch_session[s]
  <2>1. CASE Open(s) /\ Abandoned(stream_watch_session[s])
    <3> DEFINE r == stream_watch_session[s]
               e == [r EXCEPT !.ended_at = r.last_heartbeat_at]
    <3>1. r \in Row  BY <2>1, StoredRow DEF Open
    <3>2. e \in Row /\ SameCredit(r, e) /\ e.ended_at \in Nat
      <4> HIDE DEF r
      <4> QED  BY <3>1 DEF Row, SameCredit
    <3>3. stream_watch_session'[s] = e  BY <2>1 DEF CleanUp
    <3> HIDE DEF e
    <3>4. e # Absent /\ e.ended_at # Null  BY <3>2, ConstantsAssumption
    <3> QED  BY <2>1, <3>1, <3>2, <3>3, <3>4 DEF Exists, Open, r
  <2>2. CASE ~(Open(s) /\ Abandoned(stream_watch_session[s]))
    <3>1. stream_watch_session'[s] = stream_watch_session[s]
      BY <2>2 DEF CleanUp
    <3>2. stream_watch_session[s] \in Row \cup {Absent}  BY DEF TypeOK
    <3>3. Exists(s) => stream_watch_session[s] \in Row  BY StoredRow
    <3> QED  BY <3>1, <3>2, <3>3 DEF Exists, Open, SameCredit
  <2> QED  BY <2>1, <2>2
<1>2. stream_watch_session' \in [Session -> Row \cup {Absent}]
  <2>1. stream_watch_session' =
          [s \in Session |-> stream_watch_session'[s]]
    BY DEF CleanUp
  <2> QED  BY <1>1, <2>1
<1>3. TypeOK'
  BY <1>2 DEF TypeOK, CleanUp
<1> QED  BY <1>1, <1>3

\* The steps one by one, with the inputs of the loads named.
LEMMA Steps ==
  ASSUME [Next]_vars
  PROVE  \/ \E p \in Process, c \in Client : StartLoads(p, c)
         \/ \E p \in Process, s \in Session, position \in Nat,
               op \in {"heartbeat", "end", "close"} : Loads(p, s, op, position)
         \/ \E p \in Process : StartCommits(p)
         \/ \E p \in Process : HeartbeatCommits(p)
         \/ \E p \in Process : EndBeats(p)
         \/ \E p \in Process : EndCommits(p)
         \/ \E p \in Process : Crash(p)
         \/ CleanUp
         \/ Tick
         \/ UNCHANGED vars
<1>1. ASSUME NEW p \in Process, NEW s \in Session,
             HeartbeatLoads(p, s) \/ EndLoads(p, s)
      PROVE  \E position \in Nat, op \in {"heartbeat", "end", "close"} :
               Loads(p, s, op, position)
  BY <1>1, ConstantsAssumption DEF HeartbeatLoads, EndLoads
<1> QED  BY <1>1 DEF Next, HandlerStep

LEMMA TypeStep ==
  ASSUME TInv, [Next]_vars
  PROVE  TInv'
<1>1. ASSUME NEW p \in Process, NEW c \in Client, StartLoads(p, c)
      PROVE  TInv'
  <2>1. /\ TypeOK' /\ handler'[p].op = "start"
        /\ \A q \in Process \ {p} : handler'[q] = handler[q]
    BY <1>1, StartLoadsStep DEF TInv
  <2>2. stream_watch_session' = stream_watch_session
    BY <1>1 DEF StartLoads
  <2>3. Found'
    BY <2>1, <2>2 DEF TInv, Found, Busy, Exists
  <2> QED  BY <2>1, <2>3 DEF TInv
<1>2. ASSUME NEW p \in Process, NEW s \in Session, NEW position \in Nat,
             NEW op \in {"heartbeat", "end", "close"}, Loads(p, s, op, position)
      PROVE  TInv'
  <2>1. /\ TypeOK' /\ handler'[p].id = s
        /\ \A q \in Process \ {p} : handler'[q] = handler[q]
    BY <1>2, LoadsStep DEF TInv
  <2>2. stream_watch_session' = stream_watch_session /\ Exists(s)
    BY <1>2 DEF Loads, Open
  <2>3. Found'
    BY <2>1, <2>2 DEF TInv, Found, Busy, Exists
  <2> QED  BY <2>1, <2>3 DEF TInv
<1>3. ASSUME NEW p \in Process, StartCommits(p)
      PROVE  TInv'
  <2>1. /\ TypeOK' /\ handler'[p] = Idle
        /\ \A q \in Process \ {p} : handler'[q] = handler[q]
    BY <1>3, StartCommitsStep, ReleaseStep DEF TInv, StartCommits
  <2>2. \A t \in Session : Exists(t) => Exists(t)'
    BY <1>3, StartCommitsStep DEF TInv, Exists
  <2>3. \A q \in Process : Busy(q) => handler[q].id \in Session
    BY HandlerKinds DEF TInv, Loaded
  <2> QED  BY <2>1, <2>2, <2>3 DEF TInv, Found, Busy, Idle, Exists
<1>4. ASSUME NEW p \in Process, HeartbeatCommits(p)
      PROVE  TInv'
  <2>1. PICK now \in Now(p) :
          Commit(handler[p].id, handler[p].row,
                 Beaten(handler[p].row, now, handler[p].position))
    BY <1>4 DEF HeartbeatCommits
  <2>2. /\ stream_watch_session' \in [Session -> Row \cup {Absent}]
        /\ stream_watch_session'[handler[p].id] \in Row
        /\ \A t \in Session \ {handler[p].id} :
             stream_watch_session'[t] = stream_watch_session[t]
    BY <1>4, <2>1, BeatStep DEF HeartbeatCommits
  <2>3. \A t \in Session : Exists(t) => Exists(t)'
    BY <2>2, ConstantsAssumption DEF Exists
  <2>4. \A q \in Process : Busy(q) => handler[q].id \in Session
    BY HandlerKinds DEF TInv, Loaded
  <2>5. /\ handler' \in [Process -> {Idle} \cup Started \cup Loaded]
        /\ handler'[p] = Idle
        /\ \A q \in Process \ {p} : handler'[q] = handler[q]
    BY <1>4, ReleaseStep DEF TInv, HeartbeatCommits
  <2>6. TypeOK'
    BY <1>4, <2>2, <2>5 DEF TInv, TypeOK, HeartbeatCommits
  <2> QED  BY <2>3, <2>4, <2>5, <2>6 DEF TInv, Found, Busy, Idle, Exists
<1>5. ASSUME NEW p \in Process, EndBeats(p)
      PROVE  TInv'
  <2>1. PICK now \in Now(p) :
          Commit(handler[p].id, handler[p].row,
                 Beaten(handler[p].row, now, handler[p].position))
    BY <1>5 DEF EndBeats
  <2>2. /\ handler[p].id \in Session
        /\ stream_watch_session'[handler[p].id] \in Row
        /\ \A t \in Session \ {handler[p].id} :
             stream_watch_session'[t] = stream_watch_session[t]
    BY <1>5, <2>1, BeatStep DEF EndBeats
  <2>3. \A t \in Session : Exists(t) => Exists(t)'
    BY <2>2, ConstantsAssumption DEF Exists
  <2>4. \A q \in Process : Busy(q) => handler[q].id \in Session
    BY HandlerKinds DEF TInv, Loaded
  <2>5. /\ TypeOK' /\ handler'[p].id = handler[p].id
        /\ \A q \in Process \ {p} : handler'[q] = handler[q]
    BY <1>5, EndBeatsStep
  <2>6. Exists(handler[p].id)'
    BY <2>2, <2>5, ConstantsAssumption DEF Exists
  <2> QED  BY <2>3, <2>4, <2>5, <2>6 DEF TInv, Found, Busy, Exists
<1>6. ASSUME NEW p \in Process, EndCommits(p)
      PROVE  TInv'
  <2>2. /\ stream_watch_session' \in [Session -> Row \cup {Absent}]
        /\ stream_watch_session'[handler[p].id] \in Row
        /\ \A t \in Session \ {handler[p].id} :
             stream_watch_session'[t] = stream_watch_session[t]
    BY <1>6, EndStep DEF Writes
  <2>3. \A t \in Session : Exists(t) => Exists(t)'
    BY <2>2, ConstantsAssumption DEF Exists
  <2>4. \A q \in Process : Busy(q) => handler[q].id \in Session
    BY HandlerKinds DEF TInv, Loaded
  <2>5. /\ handler' \in [Process -> {Idle} \cup Started \cup Loaded]
        /\ handler'[p] = Idle
        /\ \A q \in Process \ {p} : handler'[q] = handler[q]
    BY <1>6, ReleaseStep DEF TInv, EndCommits
  <2>6. TypeOK'
    BY <1>6, <2>2, <2>5 DEF TInv, TypeOK, EndCommits
  <2> QED  BY <2>3, <2>4, <2>5, <2>6 DEF TInv, Found, Busy, Idle, Exists
<1>7. ASSUME NEW p \in Process, Crash(p)
      PROVE  TInv'
  BY <1>7, ReleaseStep DEF TInv, Found, Busy, Idle, Exists, Crash, TypeOK
<1>8. CASE CleanUp
  <2>1. \A q \in Process : Busy(q) => handler[q].id \in Session
    BY HandlerKinds DEF TInv, Loaded
  <2> QED  BY <1>8, <2>1, CleanUpStep DEF TInv, Found, Busy, CleanUp
<1>9. CASE Tick
  BY <1>9 DEF TInv, TypeOK, Found, Busy, Exists, Tick
<1>10. CASE UNCHANGED vars
  BY <1>10 DEF TInv, TypeOK, Found, Busy, Exists, vars
<1> QED  BY <1>1, <1>2, <1>3, <1>4, <1>5, <1>6, <1>7, <1>8, <1>9, <1>10, Steps

LEMMA TypeInit ==
  ASSUME Init
  PROVE  TInv
  BY DEF Init, TInv, TypeOK, Found, Busy, Idle

\* The table and the handlers are well typed, for any requests in any order.
THEOREM TypeCorrect == Spec => []TypeOK
<1>1. Init => TInv  BY TypeInit
<1>2. TInv /\ [Next]_vars => TInv'  BY TypeStep

<1>3. TInv => TypeOK  BY DEF TInv
<1> QED  BY <1>1, <1>2, <1>3, PTL DEF Spec

\* The clean-up and a late heartbeat may cross in any order, the requests of a
\* player may overlap: a session that has ended is never open again.
THEOREM NeverReopened == Spec => EndedStaysEnded
<1> DEFINE Step == \A s \in Session : Exists(s) /\ ~Open(s) =>
                     stream_watch_session'[s].ended_at # Null
<1>1. ASSUME TInv, [Next]_vars, NEW s \in Session, Exists(s), ~Open(s)
      PROVE  stream_watch_session'[s].ended_at # Null
  <2> DEFINE r == stream_watch_session[s]
  <2>1. r \in Row /\ r.ended_at # Null
    BY <1>1, StoredRow DEF TInv, Open
  <2>2. ASSUME stream_watch_session'[s] = r
        PROVE  stream_watch_session'[s].ended_at # Null
    BY <2>1, <2>2
  <2>3. ASSUME NEW p \in Process, StartCommits(p)
        PROVE  stream_watch_session'[s].ended_at # Null
    BY <1>1, <2>2, <2>3, StartCommitsStep DEF TInv
  <2>4. ASSUME NEW p \in Process, HeartbeatCommits(p) \/ EndBeats(p)
        PROVE  stream_watch_session'[s].ended_at # Null
    <3>1. PICK now \in Now(p) :
            Commit(handler[p].id, handler[p].row,
                   Beaten(handler[p].row, now, handler[p].position))
      BY <2>4 DEF HeartbeatCommits, EndBeats
    <3>2. handler[p].op \in {"heartbeat", "end"}
      BY <2>4 DEF HeartbeatCommits, EndBeats
    <3> DEFINE new == Beaten(handler[p].row, now, handler[p].position)
    <3>3. /\ handler[p] \in Loaded /\ now \in Nat
          /\ handler[p].row \in Row /\ new \in Row
          /\ stream_watch_session'[handler[p].id]
               = Flushed(stream_watch_session[handler[p].id], handler[p].row, new)
          /\ \A t \in Session \ {handler[p].id} :
               stream_watch_session'[t] = stream_watch_session[t]
      BY <1>1, <3>1, <3>2, BeatStep
    <3>4. new.ended_at = handler[p].row.ended_at
      <4>1. handler[p].position \in Nat  BY <3>3 DEF Loaded
      <4> QED  BY <3>3, <4>1, BeatenKeeps
    <3> HIDE DEF new
    <3>5. CASE s = handler[p].id
      BY <3>3, <3>4, <3>5, <2>1, FlushedRow DEF Column
    <3>6. CASE s # handler[p].id
      BY <3>3, <3>6, <2>2
    <3> QED  BY <3>5, <3>6
  <2>5. ASSUME NEW p \in Process, EndCommits(p)
        PROVE  stream_watch_session'[s].ended_at # Null
    <3>1. PICK now \in Nat : Writes(p, EndedRow(p, now))
      BY <1>1, <2>5, EndStep
    <3> DEFINE new == EndedRow(p, now)
    <3>2. new.ended_at = now /\ now # Null
      BY <3>1, ConstantsAssumption DEF Row, Writes, EndedRow
    <3> HIDE DEF new
    <3>3. CASE s = handler[p].id
      BY <3>1, <3>2, <3>3, <2>1, FlushedRow DEF Column, Writes, new
    <3>4. CASE s # handler[p].id
      BY <3>1, <3>4, <2>2 DEF Writes
    <3> QED  BY <3>3, <3>4
  <2>6. CASE CleanUp
    BY <1>1, <2>2, <2>6, CleanUpStep DEF TInv
  <2>7. CASE UNCHANGED stream_watch_session
    BY <2>2, <2>7
  <2> QED
    BY <1>1, <2>3, <2>4, <2>5, <2>6, <2>7, Steps
    DEF StartLoads, Loads, Crash, Tick, vars
<1>2. TInv /\ [Next]_vars => [Step]_vars  BY <1>1
<1>3. Init => TInv  BY TypeInit
<1>4. TInv /\ [Next]_vars => TInv'  BY TypeStep
<1> QED  BY <1>2, <1>3, <1>4, PTL DEF Spec, EndedStaysEnded

-----------------------------------------------------------------------------
(* Players that wait for each answer *)

LEMMA SoundAlike ==
  ASSUME NEW r \in Row, NEW t \in Row, SameCredit(r, t), Sound(r)
  PROVE  Sound(t)
<1>1. /\ t.last_heartbeat_at <= clock
      /\ t.started_at <= t.last_heartbeat_at
      /\ t.first_position <= t.last_position_seconds
  BY DEF SameCredit, Sound
<1>2. EarnedBy(t)  BY DEF SameCredit, Sound, EarnedBy
<1>3. t.qualified <=> t.watched_seconds >= Qualify
  BY Zenon DEF SameCredit, Sound
<1> QED  BY <1>1, <1>2, <1>3, Zenon DEF Sound

\* A commit of p on a sound row of its own player disturbs nobody else.
LEMMA CommitKeeps ==
  ASSUME IInv, TInv', NEW p \in Process, Busy(p), clock' = clock,
         NEW s \in Session, s = handler[p].id,
         \A t \in Session \ {s} :
           stream_watch_session'[t] = stream_watch_session[t],
         stream_watch_session'[s].client = stream_watch_session[s].client,
         Open(s)' => Open(s), Sound(stream_watch_session'[s]),
         \A q \in Process \ {p} : handler'[q] = handler[q],
         \/ handler'[p] = Idle
         \/ /\ Busy(p)' /\ handler'[p].id = s
            /\ handler'[p].client = handler[p].client
            /\ handler'[p].at = clock
            /\ handler'[p].row = stream_watch_session'[s]
  PROVE  IInv'
<1>1. TypeOK /\ Found /\ TypeOK' /\ Exists(s)
  BY DEF IInv, TInv, Found
<1>2. /\ handler[p] # Idle
      /\ stream_watch_session[s].client = handler[p].client
  BY <1>1, HandlerKinds DEF IInv, Loadeds
<1>3. ~Busy(p)' => handler'[p] = Idle
  OBVIOUS
<1>4. handler'[p] # Idle => handler'[p].client = handler[p].client
  OBVIOUS
<1>5. Alone'
  BY <1>2, <1>4 DEF IInv, Alone
<1>6. \A q \in Process : Busy(q) => handler[q] # Idle /\ handler[q].id \in Session
  BY <1>1, HandlerKinds DEF Loaded
<1>7. Loadeds'
  <2> SUFFICES ASSUME NEW q \in Process, Busy(q)'
               PROVE  /\ stream_watch_session'[handler'[q].id].client
                           = handler'[q].client
                      /\ SameCredit(handler'[q].row,
                                    stream_watch_session'[handler'[q].id])
    BY DEF Loadeds
  <2>1. CASE q = p
    BY <1>2, <2>1 DEF SameCredit, Busy, Idle
  <2>2. CASE q # p
    <3>1. handler'[q] = handler[q] /\ Busy(q)
      BY <2>2 DEF Busy
    <3>2. /\ stream_watch_session[handler[q].id].client = handler[q].client
          /\ SameCredit(handler[q].row, stream_watch_session[handler[q].id])
      BY <3>1 DEF IInv, Loadeds
    <3>3. handler[q].id # s
      BY <1>2, <1>6, <2>2, <3>1, <3>2 DEF IInv, Alone
    <3> QED  BY <1>6, <3>1, <3>2, <3>3
  <2> QED  BY <2>1, <2>2
<1>8. \A t \in Session : /\ Open(t)' => Open(t)
                         /\ stream_watch_session'[t].client
                              = stream_watch_session[t].client
  BY DEF Open, Exists
<1>9. Starts'
  <2> SUFFICES ASSUME NEW q \in Process, NEW t \in Session,
                      handler'[q].op = "start", Open(t)'
               PROVE  stream_watch_session'[t].client # handler'[q].client
    BY DEF Starts
  <2>1. q # p
    BY DEF Busy, Idle
  <2> QED  BY <1>8, <2>1 DEF IInv, Starts
<1>10. Rows'
  <2> SUFFICES ASSUME NEW t \in Session, Exists(t)'
               PROVE  Sound(stream_watch_session[t])'
    BY DEF Rows
  <2>1. CASE t = s
    BY <2>1 DEF Sound
  <2>2. CASE t # s
    BY <2>2 DEF IInv, Rows, Sound, Exists
  <2> QED  BY <2>1, <2>2
<1>11. Times'
  <2> SUFFICES ASSUME NEW q \in Process
               PROVE  /\ handler'[q] # Idle => handler'[q].at <= clock
                      /\ Busy(q)' => handler'[q].row.last_heartbeat_at
                                       <= handler'[q].at
    BY DEF Times
  <2>1. CASE q = p
    BY <1>1, <1>3, <2>1 DEF Sound, TypeOK, Busy, Idle
  <2>2. CASE q # p
    BY <2>2 DEF IInv, Times, Busy
  <2> QED  BY <2>1, <2>2
<1>12. Unique'
  BY <1>8 DEF IInv, Unique
<1> QED  BY <1>5, <1>7, <1>9, <1>10, <1>11, <1>12 DEF IInv

\* What a step does not touch.
LEMMA QuietKeeps ==
  ASSUME IInv, TInv', UNCHANGED stream_watch_session,
         clock' \in Nat, clock <= clock',
         \A q \in Process : handler'[q] = handler[q] \/ handler'[q] = Idle
  PROVE  IInv'
<1>0. TypeOK  BY DEF IInv, TInv
<1>1. Alone'  BY DEF IInv, Alone
<1>2. Loadeds'  BY DEF IInv, Loadeds, Busy, Idle
<1>3. Starts'  BY DEF IInv, Starts, Idle, Open, Exists
<1>4. Rows'
  <2> SUFFICES ASSUME NEW s \in Session, Exists(s)
               PROVE  Sound(stream_watch_session[s])'
    BY DEF Rows, Exists
  <2>1. stream_watch_session[s] \in Row /\ Sound(stream_watch_session[s])
    BY <1>0, StoredRow DEF IInv, Rows
  <2>2. stream_watch_session'[s].last_heartbeat_at <= clock'
    BY <1>0, <2>1 DEF Sound, Row, TypeOK
  <2> QED  BY <2>1, <2>2 DEF Sound
<1>5. Times'
  <2> SUFFICES ASSUME NEW q \in Process
               PROVE  /\ handler'[q] # Idle => handler'[q].at <= clock'
                      /\ Busy(q)' => handler'[q].row.last_heartbeat_at
                                       <= handler'[q].at
    BY DEF Times
  <2>1. CASE handler'[q] = Idle
    BY <2>1 DEF Busy, Idle
  <2>2. CASE handler'[q] = handler[q]
    <3>1. handler[q] # Idle => handler[q].at \in Nat
      BY <1>0, HandlerKinds DEF Started, Loaded
    <3>2. /\ handler[q] # Idle => handler[q].at <= clock
          /\ Busy(q) => handler[q].row.last_heartbeat_at <= handler[q].at
      BY DEF IInv, Times
    <3> QED  BY <1>0, <2>2, <3>1, <3>2 DEF Busy, TypeOK
  <2> QED  BY <2>1, <2>2
<1>6. Unique'  BY DEF IInv, Unique, Open, Exists
<1> QED  BY <1>1, <1>2, <1>3, <1>4, <1>5, <1>6 DEF IInv

LEMMA StartLoadsInv ==
  ASSUME ~Overlap, IInv, TInv', NEW p \in Process, NEW c \in Client,
         StartLoads(p, c)
  PROVE  IInv'
<1>1. /\ TypeOK
      /\ handler'[p].op = "start" /\ handler'[p].client = c
      /\ handler'[p].at = clock
      /\ \A q \in Process \ {p} : handler'[q] = handler[q]
  BY StartLoadsStep DEF IInv, TInv
<1>2. /\ UNCHANGED <<clock, stream_watch_session>>
      /\ ActiveSessions(c) = {}
      /\ \A q \in Process : handler[q] # Idle => handler[q].client # c
  BY DEF StartLoads, Asks
<1>3. Alone'
  BY <1>1, <1>2 DEF IInv, Alone
<1>4. Loadeds'
  BY <1>1, <1>2 DEF IInv, Loadeds, Busy
<1>5. Starts'
  <2>1. \A s \in Session : Open(s) => stream_watch_session[s].client # c
    BY <1>2 DEF ActiveSessions
  <2> QED  BY <1>1, <1>2, <2>1 DEF IInv, Starts, Open, Exists
<1>6. Rows'
  BY <1>2 DEF IInv, Rows, Sound, Exists
<1>7. Times'
  BY <1>1, <1>2 DEF IInv, Times, Busy, TypeOK
<1>8. Unique'
  BY <1>2 DEF IInv, Unique, Open, Exists
<1> QED  BY <1>3, <1>4, <1>5, <1>6, <1>7, <1>8 DEF IInv

LEMMA LoadsInv ==
  ASSUME ~Overlap, IInv, TInv', NEW p \in Process, NEW s \in Session,
         NEW position \in Nat, NEW op \in {"heartbeat", "end", "close"},
         Loads(p, s, op, position)
  PROVE  IInv'
<1>1. /\ TypeOK
      /\ handler'[p].op = op /\ handler'[p].id = s
      /\ handler'[p].client = stream_watch_session[s].client
      /\ handler'[p].at = clock
      /\ handler'[p].row = stream_watch_session[s]
      /\ \A q \in Process \ {p} : handler'[q] = handler[q]
  BY LoadsStep DEF IInv, TInv
<1>2. /\ UNCHANGED <<clock, stream_watch_session>>
      /\ Exists(s)
      /\ \A q \in Process :
           handler[q] # Idle => handler[q].client # stream_watch_session[s].client
  BY DEF Loads, Asks, Open
<1>3. Alone'
  BY <1>1, <1>2 DEF IInv, Alone
<1>4. Loadeds'
  BY <1>1, <1>2 DEF IInv, Loadeds, Busy, SameCredit
<1>5. Starts'
  BY <1>1, <1>2 DEF IInv, Starts, Open, Exists
<1>6. Rows'
  BY <1>2 DEF IInv, Rows, Sound, Exists
<1>7. Times'
  <2>1. clock \in Nat /\ stream_watch_session[s].last_heartbeat_at <= clock
    BY <1>1, <1>2 DEF IInv, Rows, Sound, TypeOK
  <2> QED  BY <1>1, <1>2, <2>1 DEF IInv, Times, Busy
<1>8. Unique'
  BY <1>2 DEF IInv, Unique, Open, Exists
<1> QED  BY <1>3, <1>4, <1>5, <1>6, <1>7, <1>8 DEF IInv

LEMMA StartCommitsInv ==
  ASSUME IInv, TInv', NEW p \in Process, StartCommits(p)
  PROVE  IInv'
<1>1. TypeOK /\ Found  BY DEF IInv, TInv
<1>2. /\ handler[p] # Idle /\ handler[p] \in Started /\ handler'[p] = Idle
      /\ \A q \in Process \ {p} : handler'[q] = handler[q]
      /\ handler[p].op = "start" /\ clock' = clock
  BY <1>1, HandlerKinds, ReleaseStep DEF StartCommits
<1>3. PICK s \in Session, now \in Now(p) :
        /\ ~Exists(s)
        /\ stream_watch_session'[s] = NewSession(handler[p], now)
        /\ stream_watch_session'[s] \in Row
        /\ \A t \in Session \ {s} :
             stream_watch_session'[t] = stream_watch_session[t]
  BY <1>1, StartCommitsStep
<1> DEFINE r == stream_watch_session'[s]
<1>4. now \in Nat /\ now <= clock
  BY <1>1, <1>2, NowTyped
<1>5. /\ r.client = handler[p].client /\ r.started_at = now
      /\ r.last_heartbeat_at = now /\ r.watched_seconds = 0
      /\ r.qualified = FALSE /\ r.first_position = r.last_position_seconds
      /\ r.last_position_seconds \in Nat
  BY <1>2, <1>3 DEF NewSession, Started
<1>6. Sound(r)
  <2>1. EarnedBy(r)
    BY <1>4, <1>5, ConstantsAssumption DEF EarnedBy
  <2>2. r.qualified <=> r.watched_seconds >= Qualify
    BY <1>5, ConstantsAssumption
  <2> QED  BY <1>1, <1>4, <1>5, <2>1, <2>2 DEF Sound
<1>7. Alone'
  BY <1>2 DEF IInv, Alone
<1>8. Loadeds'
  <2>1. \A q \in Process : Busy(q)' => /\ q # p /\ Busy(q)
                                       /\ handler'[q] = handler[q]
    BY <1>2 DEF Busy, Idle
  <2>2. \A q \in Process : Busy(q) => handler[q].id \in Session \ {s}
    BY <1>1, <1>3, HandlerKinds DEF Found, Loaded
  <2> QED  BY <1>3, <2>1, <2>2 DEF IInv, Loadeds
<1>9. Starts'
  <2> SUFFICES ASSUME NEW q \in Process, NEW t \in Session,
                      handler'[q].op = "start", Open(t)'
               PROVE  stream_watch_session'[t].client # handler'[q].client
    BY DEF Starts
  <2>1. q # p /\ handler'[q] = handler[q] /\ handler[q] # Idle
    BY <1>2 DEF Idle
  <2>2. CASE t = s
    BY <1>2, <1>5, <2>1, <2>2 DEF IInv, Alone
  <2>3. CASE t # s
    BY <1>3, <2>1, <2>3 DEF IInv, Starts, Open, Exists
  <2> QED  BY <2>2, <2>3
<1>10. Rows'
  <2> SUFFICES ASSUME NEW t \in Session, Exists(t)'
               PROVE  Sound(stream_watch_session[t])'
    BY DEF Rows
  <2>1. CASE t = s
    BY <1>2, <1>6, <2>1 DEF Sound
  <2>2. CASE t # s
    BY <1>2, <1>3, <2>2 DEF IInv, Rows, Sound, Exists
  <2> QED  BY <2>1, <2>2
<1>11. Times'
  BY <1>2 DEF IInv, Times, Busy, Idle
<1>12. Unique'
  <2>1. \A t \in Session \ {s} :
          Open(t)' => Open(t) /\ stream_watch_session'[t].client # r.client
    BY <1>2, <1>3, <1>5 DEF IInv, Starts, Open, Exists
  <2> QED  BY <1>3, <2>1 DEF IInv, Unique
<1> QED  BY <1>7, <1>8, <1>9, <1>10, <1>11, <1>12 DEF IInv

\* The heartbeat of a handler whose row is still what the table holds.
LEMMA BeatSound ==
  ASSUME IInv, NEW p \in Process, handler[p].op \in {"heartbeat", "end"},
         NEW now \in Now(p),
         Commit(handler[p].id, handler[p].row,
                Beaten(handler[p].row, now, handler[p].position))
  PROVE  LET s == handler[p].id
             r == stream_watch_session[s]
             f == stream_watch_session'[s]
         IN /\ Busy(p) /\ s \in Session /\ Exists(s)
            /\ \A t \in Session \ {s} :
                 stream_watch_session'[t] = stream_watch_session[t]
            /\ f \in Row /\ f.client = r.client /\ f.ended_at = r.ended_at
            /\ Sound(f)
            /\ f.watched_seconds >= r.watched_seconds
<1> DEFINE s == handler[p].id
           r == stream_watch_session[s]
           f == stream_watch_session'[s]
           old == handler[p].row
           new == Beaten(old, now, handler[p].position)
<1>1. TInv /\ TypeOK  BY DEF IInv, TInv
<1>2. /\ handler[p] \in Loaded /\ s \in Session /\ Exists(s)
      /\ now \in Nat /\ handler[p].at <= now /\ now <= clock
      /\ old \in Row /\ new \in Row
      /\ f = Flushed(r, old, new) /\ f \in Row
      /\ \A t \in Session \ {s} :
           stream_watch_session'[t] = stream_watch_session[t]
  BY <1>1, BeatStep
<1>3. r \in Row /\ Sound(r) /\ Busy(p)
  BY <1>1, <1>2, StoredRow DEF IInv, Rows, Busy
<1>4. handler[p].position \in Nat /\ handler[p].at \in Nat
  BY <1>2 DEF Loaded
<1>5. SameCredit(old, r) /\ SameCredit(r, old)
  BY <1>3 DEF IInv, Loadeds, SameCredit
<1>6. old.last_heartbeat_at <= now
  BY <1>2, <1>3, <1>4 DEF IInv, Times, Row
<1>7. Sound(old)
  BY <1>2, <1>3, <1>5, SoundAlike
<1>8. /\ new.client = old.client /\ new.started_at = old.started_at
      /\ new.first_position = old.first_position
      /\ new.ended_at = old.ended_at
  BY <1>2, <1>4, BeatenKeeps
<1>9. /\ new.last_heartbeat_at = now
      /\ new.watched_seconds >= old.watched_seconds
      /\ new.last_position_seconds >= old.last_position_seconds
  BY <1>2, <1>4, BeatenRow
<1>10. EarnedBy(new)
  BY <1>2, <1>4, <1>6, <1>7, BeatenEarned DEF Sound
<1>17. new.qualified <=> new.watched_seconds >= Qualify
  BY <1>2, <1>4, BeatenQualified, Zenon
<1> HIDE DEF new
<1>11. Sound(new)
  <2>1. /\ new.started_at <= now
        /\ new.first_position <= new.last_position_seconds
    BY <1>2, <1>6, <1>7, <1>8, <1>9 DEF Sound, Row
  <2> QED  BY <1>2, <1>9, <1>10, <1>17, <2>1, Zenon DEF Sound
<1>12. SameCredit(new, f)
  BY <1>2, <1>3, <1>5, <1>8, FlushedCurrent
<1>13. Sound(f)
  BY <1>2, <1>11, <1>12, SoundAlike
<1>14. f.client = r.client /\ f.watched_seconds >= r.watched_seconds
  BY <1>5, <1>8, <1>9, <1>12 DEF SameCredit
<1>15. f.ended_at = r.ended_at
  BY <1>2, <1>3, <1>8, FlushedRow DEF Column
<1> QED  BY <1>2, <1>3, <1>13, <1>14, <1>15

LEMMA BeatInv ==
  ASSUME IInv, TInv', NEW p \in Process, HeartbeatCommits(p) \/ EndBeats(p)
  PROVE  IInv'
<1> DEFINE s == handler[p].id
<1>1. PICK now \in Now(p) :
        Commit(handler[p].id, handler[p].row,
               Beaten(handler[p].row, now, handler[p].position))
  BY DEF HeartbeatCommits, EndBeats
<1>2. handler[p].op \in {"heartbeat", "end"} /\ clock' = clock
  BY DEF HeartbeatCommits, EndBeats
<1>3. /\ Busy(p) /\ s \in Session /\ Exists(s)
      /\ \A t \in Session \ {s} :
           stream_watch_session'[t] = stream_watch_session[t]
      /\ stream_watch_session'[s].client = stream_watch_session[s].client
      /\ stream_watch_session'[s].ended_at = stream_watch_session[s].ended_at
      /\ Sound(stream_watch_session'[s])
  BY <1>1, <1>2, BeatSound
<1>4. TInv /\ TypeOK  BY DEF IInv, TInv
<1>5. CASE HeartbeatCommits(p)
  <2>1. /\ handler'[p] = Idle
        /\ \A q \in Process \ {p} : handler'[q] = handler[q]
    BY <1>4, <1>5, ReleaseStep DEF HeartbeatCommits
  <2>2. PICK t \in Session : t = s
    BY <1>3
  <2>3. Open(t)' => Open(t)
    BY <1>3, <2>2 DEF Open
  <2> HIDE DEF s
  <2> QED  BY <1>2, <1>3, <2>1, <2>2, <2>3, CommitKeeps DEF s
<1>6. CASE EndBeats(p)
  <2>1. /\ handler'[p].op = "close" /\ handler'[p].id = s
        /\ handler'[p].client = handler[p].client
        /\ handler'[p].at = clock
        /\ handler'[p].row = stream_watch_session'[s]
        /\ \A q \in Process \ {p} : handler'[q] = handler[q]
    BY <1>4, <1>6, EndBeatsStep
  <2>2. PICK t \in Session : t = s
    BY <1>3
  <2>3. Open(t)' => Open(t)
    BY <1>3, <2>2 DEF Open
  <2>4. Busy(p)'
    BY <2>1 DEF Busy
  <2> HIDE DEF s
  <2> QED  BY <1>2, <1>3, <2>1, <2>2, <2>3, <2>4, CommitKeeps DEF s
<1> QED  BY <1>5, <1>6

\* The UPDATE that ends a session writes nothing but ended_at.
LEMMA EndSame ==
  ASSUME IInv, NEW p \in Process, EndCommits(p)
  PROVE  /\ Busy(p) /\ handler[p].id \in Session /\ Exists(handler[p].id)
         /\ \A t \in Session \ {handler[p].id} :
              stream_watch_session'[t] = stream_watch_session[t]
         /\ stream_watch_session'[handler[p].id] \in Row
         /\ SameCredit(stream_watch_session[handler[p].id],
                       stream_watch_session'[handler[p].id])
         /\ stream_watch_session'[handler[p].id].ended_at = Null
              => stream_watch_session[handler[p].id].ended_at = Null
<1> DEFINE r == stream_watch_session[handler[p].id]
           f == stream_watch_session'[handler[p].id]
           old == handler[p].row
<1>1. TInv  BY DEF IInv
<1>2. PICK now \in Nat : Writes(p, EndedRow(p, now))
  BY <1>1, EndStep
<1> DEFINE new == EndedRow(p, now)
<1>3. /\ handler[p].id \in Session /\ Exists(handler[p].id)
      /\ old \in Row /\ new \in Row /\ f = Flushed(r, old, new) /\ f \in Row
      /\ \A t \in Session \ {handler[p].id} :
           stream_watch_session'[t] = stream_watch_session[t]
  BY <1>2 DEF Writes
<1>4. Busy(p) /\ r \in Row
  BY <1>1, <1>3, StoredRow DEF TInv, EndCommits, Busy
<1>5. SameCredit(old, r)
  BY <1>4 DEF IInv, Loadeds
<1>6. SameCredit(old, new) /\ new.ended_at = now /\ now # Null
  BY <1>3, ConstantsAssumption DEF EndedRow, SameCredit, Row
<1> HIDE DEF new
<1>7. SameCredit(new, f)
  <2>1. /\ new.client = old.client /\ new.started_at = old.started_at
        /\ new.first_position = old.first_position
    BY <1>6 DEF SameCredit
  <2>2. SameCredit(new, Flushed(r, old, new))
    BY <1>3, <1>4, <1>5, <2>1, FlushedCurrent
  <2> QED  BY <1>3, <2>2
<1>8. SameCredit(r, f)
  BY <1>5, <1>6, <1>7 DEF SameCredit
<1>9. f.ended_at = Null => r.ended_at = Null
  BY <1>3, <1>4, <1>6, FlushedRow DEF Column
<1> QED  BY <1>3, <1>4, <1>8, <1>9

LEMMA EndInv ==
  ASSUME IInv, TInv', NEW p \in Process, EndCommits(p)
  PROVE  IInv'
<1>1. /\ Busy(p) /\ handler[p].id \in Session /\ Exists(handler[p].id)
      /\ \A t \in Session \ {handler[p].id} :
           stream_watch_session'[t] = stream_watch_session[t]
      /\ stream_watch_session'[handler[p].id] \in Row
      /\ SameCredit(stream_watch_session[handler[p].id],
                    stream_watch_session'[handler[p].id])
      /\ stream_watch_session'[handler[p].id].ended_at = Null
           => stream_watch_session[handler[p].id].ended_at = Null
  BY EndSame
<1>2. PICK s \in Session : s = handler[p].id
  BY <1>1
<1>3. TypeOK /\ clock' = clock  BY DEF IInv, TInv, EndCommits
<1>4. stream_watch_session[s] \in Row /\ Sound(stream_watch_session[s])
  BY <1>1, <1>2, <1>3, StoredRow DEF IInv, Rows
<1>5. Sound(stream_watch_session'[s])
  BY <1>1, <1>2, <1>4, SoundAlike
<1>6. Open(s)' => Open(s)
  BY <1>1, <1>2 DEF Open
<1>7. stream_watch_session'[s].client = stream_watch_session[s].client
  BY <1>1, <1>2 DEF SameCredit
<1>8. /\ handler'[p] = Idle
      /\ \A q \in Process \ {p} : handler'[q] = handler[q]
  BY <1>3, ReleaseStep DEF EndCommits
<1> QED  BY <1>1, <1>2, <1>3, <1>5, <1>6, <1>7, <1>8, CommitKeeps

LEMMA CleanUpInv ==
  ASSUME IInv, TInv', CleanUp
  PROVE  IInv'
<1>1. TypeOK /\ UNCHANGED <<clock, handler>>  BY DEF IInv, TInv, CleanUp
<1>2. \A s \in Session :
        /\ Exists(s)' <=> Exists(s)
        /\ Open(s)' => Open(s)
        /\ Exists(s) => /\ stream_watch_session'[s] \in Row
                        /\ SameCredit(stream_watch_session[s],
                                      stream_watch_session'[s])
  BY <1>1, CleanUpStep
<1>3. \A p \in Process : Busy(p) => /\ handler[p].id \in Session
                                    /\ Exists(handler[p].id)
  BY <1>1, HandlerKinds DEF IInv, TInv, Found, Loaded
<1>4. Alone'  BY <1>1 DEF IInv, Alone
<1>5. Loadeds'
  <2> SUFFICES ASSUME NEW p \in Process, Busy(p)
               PROVE  /\ stream_watch_session'[handler[p].id].client
                           = handler[p].client
                      /\ SameCredit(handler[p].row,
                                    stream_watch_session'[handler[p].id])
    BY <1>1 DEF Loadeds, Busy
  <2>1. SameCredit(stream_watch_session[handler[p].id],
                   stream_watch_session'[handler[p].id])
    BY <1>2, <1>3
  <2>2. /\ stream_watch_session[handler[p].id].client = handler[p].client
        /\ SameCredit(handler[p].row, stream_watch_session[handler[p].id])
    BY DEF IInv, Loadeds
  <2> QED  BY <2>1, <2>2 DEF SameCredit
<1>6. \A s \in Session : Open(s)' =>
        /\ Open(s)
        /\ stream_watch_session'[s].client = stream_watch_session[s].client
  BY <1>2 DEF Open, SameCredit
<1>7. Starts'  BY <1>1, <1>6 DEF IInv, Starts
<1>8. Rows'
  <2> SUFFICES ASSUME NEW s \in Session, Exists(s)
               PROVE  Sound(stream_watch_session[s])'
    BY <1>2 DEF Rows
  <2>1. Sound(stream_watch_session'[s])
    BY <1>1, <1>2, StoredRow, SoundAlike DEF IInv, Rows
  <2> QED  BY <1>1, <2>1 DEF Sound
<1>9. Times'  BY <1>1 DEF IInv, Times, Busy
<1>10. Unique'  BY <1>6 DEF IInv, Unique
<1> QED  BY <1>4, <1>5, <1>7, <1>8, <1>9, <1>10 DEF IInv

LEMMA Step ==
  ASSUME ~Overlap, IInv, [Next]_vars
  PROVE  IInv'
<1>1. TInv'  BY TypeStep DEF IInv
<1>2. ASSUME NEW p \in Process, NEW c \in Client, StartLoads(p, c)
      PROVE  IInv'
  BY <1>1, <1>2, StartLoadsInv
<1>3. ASSUME NEW p \in Process, NEW s \in Session, NEW position \in Nat,
             NEW op \in {"heartbeat", "end", "close"}, Loads(p, s, op, position)
      PROVE  IInv'
  BY <1>1, <1>3, LoadsInv
<1>4. ASSUME NEW p \in Process, StartCommits(p)
      PROVE  IInv'
  BY <1>1, <1>4, StartCommitsInv
<1>5. ASSUME NEW p \in Process, HeartbeatCommits(p) \/ EndBeats(p)
      PROVE  IInv'
  BY <1>1, <1>5, BeatInv
<1>6. ASSUME NEW p \in Process, EndCommits(p)
      PROVE  IInv'
  BY <1>1, <1>6, EndInv
<1>7. CASE CleanUp
  BY <1>1, <1>7, CleanUpInv
<1>8. ASSUME NEW p \in Process, Crash(p)
      PROVE  IInv'
  <2>1. TypeOK /\ UNCHANGED <<clock, stream_watch_session>>
    BY <1>8 DEF IInv, TInv, Crash
  <2>2. \A q \in Process : handler'[q] = handler[q] \/ handler'[q] = Idle
    BY <1>8, <2>1, ReleaseStep DEF Crash
  <2> QED  BY <1>1, <2>1, <2>2, QuietKeeps DEF TypeOK
<1>9. CASE Tick
  BY <1>1, <1>9, QuietKeeps DEF Tick, IInv, TInv, TypeOK
<1>10. CASE UNCHANGED vars
  BY <1>1, <1>10, QuietKeeps DEF vars, IInv, TInv, TypeOK
<1> QED
  BY <1>2, <1>3, <1>4, <1>5, <1>6, <1>7, <1>8, <1>9, <1>10, Steps

LEMMA InitInv ==
  ASSUME Init
  PROVE  IInv
<1>1. TInv  BY TypeInit
<1>2. \A p \in Process : handler[p] = Idle /\ ~Busy(p) /\ handler[p].op = "idle"
  BY DEF Init, Busy, Idle
<1>3. \A s \in Session : ~Exists(s) /\ ~Open(s)
  BY DEF Init, Exists, Open
<1> QED  BY <1>1, <1>2, <1>3 DEF IInv, Alone, Loadeds, Starts, Rows, Times, Unique

THEOREM Invariance == ~Overlap => (Spec => []IInv)
<1> SUFFICES ASSUME ~Overlap PROVE Spec => []IInv
  OBVIOUS
<1>1. Init => IInv  BY InitInv
<1>2. IInv /\ [Next]_vars => IInv'  BY Step
<1> QED  BY <1>1, <1>2, PTL DEF Spec

\* With players that wait for each answer, no session is credited with time
\* that did not pass or with parts of the talk the player skipped.
THEOREM CreditEarned == ~Overlap => (Spec => []CreditIsEarned)
<1> SUFFICES ASSUME ~Overlap PROVE Spec => []CreditIsEarned
  OBVIOUS
<1>1. IInv => CreditIsEarned  BY DEF IInv, Rows, Sound, CreditIsEarned
<1>2. Spec => []IInv  BY Invariance
<1> QED  BY <1>1, <1>2, PTL

\* The column agrees with the count it was computed from.
THEOREM QualifiedWatched == ~Overlap => (Spec => []QualifiedMeansWatched)
<1> SUFFICES ASSUME ~Overlap PROVE Spec => []QualifiedMeansWatched
  OBVIOUS
<1>1. IInv => QualifiedMeansWatched
  BY Zenon DEF IInv, Rows, Sound, QualifiedMeansWatched
<1>2. Spec => []IInv  BY Invariance
<1> QED  BY <1>1, <1>2, PTL

\* A player has at most one open session.
THEOREM OneActive == ~Overlap => (Spec => []OneActiveSession)
<1> SUFFICES ASSUME ~Overlap PROVE Spec => []OneActiveSession
  OBVIOUS
<1>1. IInv => OneActiveSession
  <2> SUFFICES ASSUME IInv, NEW c \in Client
               PROVE  Cardinality(ActiveSessions(c)) <= 1
    BY DEF OneActiveSession
  <2>1. \A s, t \in ActiveSessions(c) : s = t
    BY DEF IInv, Unique, ActiveSessions
  <2>2. CASE ActiveSessions(c) = {}
    BY <2>2, FS_EmptySet
  <2>3. CASE ActiveSessions(c) # {}
    <3>1. PICK s : s \in ActiveSessions(c)
      BY <2>3
    <3>2. ActiveSessions(c) = {s}
      BY <2>1, <3>1
    <3>3. Cardinality({s}) = 1
      BY FS_Singleton
    <3> QED  BY <3>2, <3>3
  <2> QED  BY <2>2, <2>3
<1>2. Spec => []IInv  BY Invariance
<1> QED  BY <1>1, <1>2, PTL

\* With players that wait for each answer, seconds once counted and a viewer
\* once qualified stay so, whatever other process answers and whenever the
\* clean-up comes between a SELECT and its commit.
THEOREM KeptForGood == ~Overlap => (Spec => NothingIsTakenBack)
<1> SUFFICES ASSUME ~Overlap PROVE Spec => NothingIsTakenBack
  OBVIOUS
<1> DEFINE Kept ==
      \A s \in Session : Exists(s) =>
        /\ stream_watch_session'[s].watched_seconds >= stream_watch_session[s].watched_seconds
        /\ stream_watch_session[s].qualified => stream_watch_session'[s].qualified
<1>1. ASSUME IInv, IInv', [Next]_vars, NEW s \in Session, Exists(s)
      PROVE  /\ stream_watch_session'[s].watched_seconds >= stream_watch_session[s].watched_seconds
             /\ stream_watch_session[s].qualified => stream_watch_session'[s].qualified
  <2> DEFINE r == stream_watch_session[s]
             f == stream_watch_session'[s]
  <2>1. /\ TInv /\ TypeOK /\ TInv' /\ TypeOK' /\ r \in Row
        /\ r.qualified <=> r.watched_seconds >= Qualify
    BY <1>1, StoredRow DEF IInv, TInv, Rows, Sound
  <2>2. ASSUME f \in Row /\ f.watched_seconds >= r.watched_seconds
        PROVE  /\ f.watched_seconds >= r.watched_seconds
               /\ r.qualified => f.qualified
    <3>1. Exists(s)'
      BY <2>2, ConstantsAssumption DEF Exists
    <3>2. f.qualified <=> f.watched_seconds >= Qualify
      BY <1>1, <3>1 DEF IInv, Rows, Sound
    <3>3. r.watched_seconds >= Qualify => f.watched_seconds >= Qualify
      BY <2>1, <2>2, ConstantsAssumption DEF Row
    <3> QED  BY <2>1, <2>2, <3>2, <3>3, Zenon
  <2>3. ASSUME f = r
        PROVE  f \in Row /\ f.watched_seconds >= r.watched_seconds
    BY <2>1, <2>3 DEF Row
  <2>4. ASSUME f \in Row, SameCredit(r, f)
        PROVE  f \in Row /\ f.watched_seconds >= r.watched_seconds
    BY <2>1, <2>4 DEF Row, SameCredit
  <2>5. ASSUME NEW p \in Process, StartCommits(p)
        PROVE  f \in Row /\ f.watched_seconds >= r.watched_seconds
    <3>1. f = r  BY <1>1, <2>1, <2>5, StartCommitsStep
    <3> QED  BY <2>3, <3>1
  <2>6. ASSUME NEW p \in Process, HeartbeatCommits(p) \/ EndBeats(p)
        PROVE  f \in Row /\ f.watched_seconds >= r.watched_seconds
    <3>1. PICK now \in Now(p) :
            Commit(handler[p].id, handler[p].row,
                   Beaten(handler[p].row, now, handler[p].position))
      BY <2>6 DEF HeartbeatCommits, EndBeats
    <3>2. handler[p].op \in {"heartbeat", "end"}
      BY <2>6 DEF HeartbeatCommits, EndBeats
    <3>3. /\ \A t \in Session \ {handler[p].id} :
               stream_watch_session'[t] = stream_watch_session[t]
          /\ stream_watch_session'[handler[p].id] \in Row
          /\ stream_watch_session'[handler[p].id].watched_seconds
               >= stream_watch_session[handler[p].id].watched_seconds
      BY <1>1, <3>1, <3>2, BeatSound
    <3>4. CASE s = handler[p].id
      BY <3>3, <3>4
    <3>5. CASE s # handler[p].id
      BY <2>3, <3>3, <3>5
    <3> QED  BY <3>4, <3>5
  <2>7. ASSUME NEW p \in Process, EndCommits(p)
        PROVE  f \in Row /\ f.watched_seconds >= r.watched_seconds
    <3>1. CASE s = handler[p].id
      BY <1>1, <2>4, <2>7, <3>1, EndSame
    <3>2. CASE s # handler[p].id
      <4>1. f = r  BY <1>1, <2>7, <3>2, EndSame
      <4> QED  BY <2>3, <4>1
    <3> QED  BY <3>1, <3>2
  <2>8. ASSUME CleanUp
        PROVE  f \in Row /\ f.watched_seconds >= r.watched_seconds
    BY <1>1, <2>1, <2>4, <2>8, CleanUpStep
  <2>9. ASSUME UNCHANGED stream_watch_session
        PROVE  f \in Row /\ f.watched_seconds >= r.watched_seconds
    BY <2>3, <2>9
  <2>10. f \in Row /\ f.watched_seconds >= r.watched_seconds
    BY <1>1, <2>5, <2>6, <2>7, <2>8, <2>9, Steps
    DEF StartLoads, Loads, Crash, Tick, vars
  <2> QED  BY <2>2, <2>10
<1>2. IInv /\ IInv' /\ [Next]_vars => [Kept]_vars  BY <1>1
<1>3. Spec => []IInv  BY Invariance
<1> QED  BY <1>2, <1>3, PTL DEF Spec, NothingIsTakenBack
=============================================================================
