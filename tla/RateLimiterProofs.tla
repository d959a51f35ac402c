-------------------------- MODULE RateLimiterProofs --------------------------
(***************************************************************************)
(* For any limit, window, callers and number of processes: no stretch of   *)
(* one window holds more requests of a key than the limit, and a caller    *)
(* who waits as long as it was told is let in.                             *)
(*                                                                         *)
(* The list of a key forgets requests as they leave the window, so the     *)
(* argument is about all that were ever let through: those of the last     *)
(* window are still in the list (Kept), a new one is counted with them,    *)
(* and older stretches do not change.  A refusal promises the time at      *)
(* which the oldest of at most Limit requests has left (Promise).          *)
(***************************************************************************)
EXTENDS RateLimiter, FiniteSetTheorems, WellFoundedInduction, TLAPS

\* Stamps have numbers of their own, below the next one.
Numbered ==
  \A p \in Process, k \in Key :
    /\ IsFiniteSet(accepted[p][k])
    /\ \A s \in accepted[p][k] : s.n < serial[p]

\* The list holds what was let through in the last window.
Kept ==
  \A p \in Process, k \in Key :
    /\ requests[p][k] \subseteq accepted[p][k]
    /\ \A s \in accepted[p][k] : s.at > clock - Window => s \in requests[p][k]

\* What was let through and will not have left the window by time t.
StillThere(S, t) == {s \in S : s.at > t - Window}

\* By the time a refused caller was told, one of the requests has left.
Promise ==
  Limit > 0 =>
    \A p \in Process, k \in Key :
      promised[p][k] # Never =>
        Cardinality(StillThere(accepted[p][k], promised[p][k])) < Limit

IInv == TypeOK /\ Numbered /\ Kept /\ WindowHoldsLimit /\ Promise

-----------------------------------------------------------------------------
\* A set of natural numbers has a least one: min() of a list that is not empty.
LEMMA LemmaLeast ==
  ASSUME NEW S \in SUBSET Nat, S # {}
  PROVE  \E t \in S : \A u \in S : t <= u
<1>1. PICK t \in S : \A u \in S : ~(<<u, t>> \in OpToRel(<, Nat))
  BY NatLessThanWellFounded, WFMin
<1>2. \A u \in S : ~(u < t)
  BY <1>1 DEF OpToRel
<1> QED  BY <1>2

LEMMA LemmaOldest ==
  ASSUME NEW S, S # {}, \A s \in S : s.at \in Nat
  PROVE  \E m \in S : m.at = Oldest(S) /\ \A s \in S : Oldest(S) <= s.at
<1> DEFINE times == {s.at : s \in S}
<1>1. \E t \in times : \A u \in times : t <= u
  BY LemmaLeast
<1>2. \E t \in times : \A s \in S : t <= s.at
  BY <1>1
<1>3. Oldest(S) \in times /\ \A s \in S : Oldest(S) <= s.at
  BY <1>2 DEF Oldest
<1> QED  BY <1>3

LEMMA LemmaSmaller ==
  ASSUME NEW S, IsFiniteSet(S), NEW T, T \subseteq S
  PROVE  /\ IsFiniteSet(T) /\ Cardinality(T) \in Nat /\ Cardinality(S) \in Nat
         /\ Cardinality(T) <= Cardinality(S)
BY FS_Subset, FS_CardinalityType

\* The list of a key, pruned, is the last window of what was let through.
LEMMA LemmaRecent ==
  ASSUME IInv, NEW p \in Process, NEW k \in Key
  PROVE  /\ Recent(requests[p][k]) = InWindow(p, k, clock)
         /\ Recent(requests[p][k]) \subseteq accepted[p][k]
         /\ IsFiniteSet(Recent(requests[p][k]))
         /\ Cardinality(Recent(requests[p][k])) \in Nat
         /\ Cardinality(Recent(requests[p][k])) <= Limit
<1>1. accepted[p][k] \subseteq Stamp /\ clock \in Nat
  BY DEF IInv, TypeOK
<1>2. \A s \in accepted[p][k] : s.at \in Int /\ s.at <= clock
  BY <1>1 DEF Stamp
<1>3. /\ requests[p][k] \subseteq accepted[p][k]
      /\ \A s \in accepted[p][k] : s.at > clock - Window => s \in requests[p][k]
  BY DEF IInv, Kept
<1>4. Recent(requests[p][k]) = InWindow(p, k, clock)
  BY <1>1, <1>2, <1>3, RateLimiterAssumption DEF Recent, InWindow
<1>5. Recent(requests[p][k]) \subseteq accepted[p][k]
  BY <1>3 DEF Recent
<1>6. IsFiniteSet(accepted[p][k])
  BY DEF IInv, Numbered
<1>7. clock \in 0..clock
  BY <1>1
<1>8. Cardinality(InWindow(p, k, clock)) <= Limit
  BY <1>7 DEF IInv, WindowHoldsLimit
<1> QED  BY <1>4, <1>5, <1>6, <1>8, LemmaSmaller

LEMMA LemmaInit ==
  ASSUME Init
  PROVE  IInv
<1> USE RateLimiterAssumption
<1>1. TypeOK
  BY DEF Init, TypeOK, Fresh, Stamp, Never
<1>2. \A p \in Process, k \in Key : accepted[p][k] = {} /\ requests[p][k] = {} /\ promised[p][k] = Never
  BY DEF Init, Fresh
<1>3. Numbered /\ Kept
  BY <1>2, FS_EmptySet DEF Numbered, Kept
<1>4. WindowHoldsLimit
  <2>1. \A p \in Process, k \in Key, t \in 0..clock : InWindow(p, k, t) = {}
    BY <1>2 DEF InWindow
  <2> QED  BY <2>1, FS_EmptySet DEF WindowHoldsLimit
<1>5. Promise
  BY <1>2 DEF Promise
<1> QED  BY <1>1, <1>3, <1>4, <1>5 DEF IInv

-----------------------------------------------------------------------------
\* is_allowed lets a request through.
LEMMA LemmaAllows ==
  ASSUME IInv, NEW p \in Process, NEW k \in Key,
         Allows(p, k, Recent(requests[p][k])), UNCHANGED clock
  PROVE  IInv'
<1> USE RateLimiterAssumption
<1> DEFINE recent == Recent(requests[p][k])
           x == Stamped(p)
<1>1. /\ requests' = [requests EXCEPT ![p][k] = recent \cup {x}]
      /\ accepted' = [accepted EXCEPT ![p][k] = accepted[p][k] \cup {x}]
      /\ promised' = [promised EXCEPT ![p][k] = Never]
      /\ serial' = [serial EXCEPT ![p] = serial[p] + 1]
      /\ Cardinality(recent) < Limit
      /\ clock' = clock
  BY DEF Allows
<1>2. TypeOK
  BY DEF IInv
<1>3. clock \in Nat /\ serial[p] \in Nat /\ x \in Stamp /\ x.at = clock /\ x.n = serial[p]
  BY <1>2 DEF TypeOK, Stamped, Stamp
<1> HIDE DEF x
<1>4. /\ \A q \in Process, j \in Key : requests'[q][j] =
           IF q = p /\ j = k THEN recent \cup {x} ELSE requests[q][j]
      /\ \A q \in Process, j \in Key : accepted'[q][j] =
           IF q = p /\ j = k THEN accepted[p][k] \cup {x} ELSE accepted[q][j]
      /\ \A q \in Process, j \in Key : promised'[q][j] =
           IF q = p /\ j = k THEN Never ELSE promised[q][j]
      /\ \A q \in Process : serial'[q] = IF q = p THEN serial[p] + 1 ELSE serial[q]
  BY <1>1, <1>2 DEF TypeOK
<1>5. /\ recent \subseteq accepted[p][k] /\ IsFiniteSet(recent)
      /\ recent = InWindow(p, k, clock) /\ Cardinality(recent) \in Nat
  BY LemmaRecent
<1> HIDE DEF recent
<1>6. accepted[p][k] \subseteq Stamp /\ recent \subseteq Stamp
  BY <1>2, <1>5 DEF TypeOK
<1>7. Stamp' = Stamp
  BY <1>1 DEF Stamp
<1>8. TypeOK'
  <2>1. requests' \in [Process -> [Key -> SUBSET Stamp]]
    BY <1>1, <1>2, <1>3, <1>6 DEF TypeOK
  <2>2. accepted' \in [Process -> [Key -> SUBSET Stamp]]
    BY <1>1, <1>2, <1>3, <1>6 DEF TypeOK
  <2>3. promised' \in [Process -> [Key -> Int]]
    BY <1>1, <1>2 DEF TypeOK, Never
  <2>4. serial' \in [Process -> Nat]
    BY <1>1, <1>2 DEF TypeOK
  <2> QED  BY <1>1, <1>3, <1>7, <2>1, <2>2, <2>3, <2>4 DEF TypeOK
<1>9. /\ IsFiniteSet(accepted[p][k])
      /\ \A s \in accepted[p][k] : s.n < serial[p]
  BY DEF IInv, Numbered
<1>10. Numbered'
  <2>1. IsFiniteSet(accepted[p][k] \cup {x})
    BY <1>9, FS_AddElement
  <2>2. \A s \in accepted[p][k] \cup {x} : s.n < serial[p] + 1
    BY <1>3, <1>6, <1>9 DEF Stamp
  <2>3. ASSUME NEW q \in Process, NEW j \in Key
        PROVE  IsFiniteSet(accepted'[q][j]) /\ \A s \in accepted'[q][j] : s.n < serial'[q]
    <3>1. IsFiniteSet(accepted[q][j]) /\ \A s \in accepted[q][j] : s.n < serial[q]
      BY DEF IInv, Numbered
    <3>2. CASE q = p /\ j = k
      BY <1>4, <2>1, <2>2, <3>2
    <3>3. CASE ~(q = p /\ j = k)
      <4>1. accepted'[q][j] = accepted[q][j] /\ serial'[q] \in {serial[q], serial[q] + 1}
        BY <1>4, <3>3
      <4>2. \A s \in accepted[q][j] : s.n \in Nat
        BY <1>2 DEF TypeOK, Stamp
      <4>3. serial[q] \in Nat
        BY <1>2 DEF TypeOK
      <4> QED  BY <3>1, <4>1, <4>2, <4>3
    <3> QED  BY <3>2, <3>3
  <2> QED  BY <2>3 DEF Numbered
<1>11. Kept'
  <2>1. \A s \in accepted[p][k] : s.at > clock - Window => s \in recent
    BY DEF IInv, Kept, Recent, recent
  <2>2. ASSUME NEW q \in Process, NEW j \in Key
        PROVE  /\ requests'[q][j] \subseteq accepted'[q][j]
               /\ \A s \in accepted'[q][j] : s.at > clock - Window => s \in requests'[q][j]
    <3>1. /\ requests[q][j] \subseteq accepted[q][j]
          /\ \A s \in accepted[q][j] : s.at > clock - Window => s \in requests[q][j]
      BY DEF IInv, Kept
    <3> QED  BY <1>4, <1>5, <2>1, <3>1
  <2> QED  BY <1>1, <2>2 DEF Kept
<1>12. WindowHoldsLimit'
  <2>1. ASSUME NEW q \in Process, NEW j \in Key, NEW t \in 0..clock
        PROVE  Cardinality({s \in accepted'[q][j] : t - Window < s.at /\ s.at <= t}) <= Limit
    <3>1. Cardinality(InWindow(q, j, t)) <= Limit
      BY DEF IInv, WindowHoldsLimit
    <3>2. CASE ~(q = p /\ j = k)
      BY <1>4, <3>1, <3>2 DEF InWindow
    <3>3. CASE q = p /\ j = k /\ t # clock
      <4>1. ~(x.at <= t)
        BY <1>3, <3>3
      <4>2. {s \in accepted'[q][j] : t - Window < s.at /\ s.at <= t} = InWindow(q, j, t)
        BY <1>4, <3>3, <4>1 DEF InWindow
      <4> QED  BY <3>1, <4>2
    <3>4. CASE q = p /\ j = k /\ t = clock
      <4> DEFINE now == {s \in accepted'[q][j] : t - Window < s.at /\ s.at <= t}
      <4>1. now \subseteq recent \cup {x}
        BY <1>4, <1>5, <3>4 DEF InWindow
      <4>5. IsFiniteSet(recent \cup {x})
        BY <1>5, FS_AddElement
      <4>6. Cardinality(recent \cup {x}) = IF x \in recent THEN Cardinality(recent) ELSE Cardinality(recent) + 1
        BY <1>5, FS_AddElement
      <4>2. Cardinality(recent \cup {x}) <= Cardinality(recent) + 1
        BY <1>5, <4>6
      <4>3. Cardinality(now) \in Nat /\ Cardinality(recent \cup {x}) \in Nat
            /\ Cardinality(now) <= Cardinality(recent \cup {x})
        BY <4>1, <4>5, LemmaSmaller
      <4> HIDE DEF now
      <4>4. Cardinality(now) <= Limit
        BY <1>1, <1>5, <4>2, <4>3
      <4> QED  BY <4>4 DEF now
    <3> QED  BY <3>2, <3>3, <3>4
  <2> QED  BY <1>1, <2>1 DEF WindowHoldsLimit, InWindow
<1>13. Promise'
  BY <1>4 DEF IInv, Promise, StillThere, Never
<1> QED  BY <1>8, <1>10, <1>11, <1>12, <1>13 DEF IInv

\* is_allowed refuses, with the time to wait.
LEMMA LemmaRefuses ==
  ASSUME IInv, NEW p \in Process, NEW k \in Key,
         Refuses(p, k, Recent(requests[p][k])), UNCHANGED clock
  PROVE  IInv'
<1> USE RateLimiterAssumption
<1> DEFINE recent == Recent(requests[p][k])
<1>1. /\ requests' = [requests EXCEPT ![p][k] = recent]
      /\ promised' = [promised EXCEPT ![p][k] = clock + RetryAfter(recent)]
      /\ accepted' = accepted /\ serial' = serial /\ clock' = clock
      /\ Cardinality(recent) >= Limit
  BY DEF Refuses
<1>2. TypeOK
  BY DEF IInv
<1>3. clock \in Nat /\ \A s \in recent : s.at \in Nat /\ s.at > clock - Window /\ s.at <= clock
  BY <1>2 DEF TypeOK, Stamp, Recent
<1>4. /\ recent \subseteq accepted[p][k] /\ IsFiniteSet(recent)
      /\ Cardinality(recent) \in Nat /\ Cardinality(recent) <= Limit
  BY LemmaRecent
<1>5. \A s \in accepted[p][k] : s.at > clock - Window => s \in recent
  BY DEF IInv, Kept, Recent
<1> HIDE DEF recent
<1>6. recent # {} =>
        /\ RetryAfter(recent) = Window - (clock - Oldest(recent))
        /\ \E m \in recent : m.at = Oldest(recent)
  <2>1. SUFFICES ASSUME recent # {}
                 PROVE  /\ RetryAfter(recent) = Window - (clock - Oldest(recent))
                        /\ \E m \in recent : m.at = Oldest(recent)
    OBVIOUS
  <2>2. PICK m \in recent : m.at = Oldest(recent)
    BY <1>3, <2>1, LemmaOldest
  <2>3. Oldest(recent) \in Nat /\ Oldest(recent) > clock - Window
    BY <1>3, <2>2
  <2> QED  BY <1>3, <2>1, <2>2, <2>3 DEF RetryAfter
<1>7. RetryAfter(recent) \in Int
  <2>1. CASE recent = {}
    BY <2>1 DEF RetryAfter
  <2>2. CASE recent # {}
    BY <1>3, <1>6, <2>2
  <2> QED  BY <2>1, <2>2
<1>8. TypeOK'
  <2>1. requests' \in [Process -> [Key -> SUBSET Stamp]]
    BY <1>1, <1>2, <1>4 DEF TypeOK
  <2>2. promised' \in [Process -> [Key -> Int]]
    BY <1>1, <1>2, <1>3, <1>7 DEF TypeOK
  <2>3. Stamp' = Stamp
    BY <1>1 DEF Stamp
  <2> QED  BY <1>1, <1>2, <2>1, <2>2, <2>3 DEF TypeOK
<1>9. Numbered'
  BY <1>1 DEF IInv, Numbered
<1>12. WindowHoldsLimit'
  <2>1. \A q \in Process, j \in Key, t \in 0..clock : Cardinality(InWindow(q, j, t)) <= Limit
    BY DEF IInv, WindowHoldsLimit
  <2> QED  BY <1>1, <2>1 DEF WindowHoldsLimit, InWindow
<1>10. Kept'
  <2>1. \A q \in Process, j \in Key : requests'[q][j] = IF q = p /\ j = k THEN recent ELSE requests[q][j]
    BY <1>1, <1>2 DEF TypeOK
  <2> QED  BY <1>1, <1>4, <1>5, <2>1 DEF IInv, Kept
<1>11. Promise'
  <2>1. SUFFICES ASSUME Limit > 0
                 PROVE  Promise'
    BY DEF Promise
  <2>0. ASSUME recent = {}
        PROVE  FALSE
    <3>1. Cardinality(recent) = 0
      BY <2>0, FS_EmptySet
    <3> QED  BY <1>1, <2>1, <3>1
  <2>2. recent # {}
    BY <2>0
  <2>3. PICK m \in recent : m.at = Oldest(recent)
    BY <1>6, <2>2
  <2> DEFINE told == clock + RetryAfter(recent)
  <2>4. told = Oldest(recent) + Window /\ Oldest(recent) \in Nat /\ Oldest(recent) > clock - Window
    BY <1>3, <1>6, <2>2, <2>3
  <2> HIDE DEF told
  <2>5. \A s \in accepted[p][k] : s.at \in Nat
    BY <1>2 DEF TypeOK, Stamp
  <2>6. StillThere(accepted[p][k], told) \subseteq recent \ {m}
    BY <1>3, <1>5, <2>3, <2>4, <2>5 DEF StillThere
  <2>7. IsFiniteSet(recent \ {m}) /\ Cardinality(recent \ {m}) = Cardinality(recent) - 1
    BY <1>4, <2>3, FS_RemoveElement
  <2>8. Cardinality(StillThere(accepted[p][k], told)) < Limit
    BY <1>4, <2>6, <2>7, LemmaSmaller
  <2>9. \A q \in Process, j \in Key : promised'[q][j] = IF q = p /\ j = k THEN told ELSE promised[q][j]
    BY <1>1, <1>2 DEF TypeOK, told
  <2> QED  BY <1>1, <2>8, <2>9 DEF IInv, Promise
<1> QED  BY <1>8, <1>9, <1>10, <1>11, <1>12 DEF IInv

LEMMA LemmaDispatch ==
  ASSUME IInv, NEW p \in Process, NEW c \in Caller, Dispatch(p, c)
  PROVE  IInv'
<1>1. KeyOf(c) \in Key
  BY DEF Key
<1>2. \/ Allows(p, KeyOf(c), Recent(requests[p][KeyOf(c)]))
      \/ Refuses(p, KeyOf(c), Recent(requests[p][KeyOf(c)]))
  BY DEF Dispatch
<1>3. UNCHANGED clock
  BY DEF Dispatch
<1> QED  BY <1>1, <1>2, <1>3, LemmaAllows, LemmaRefuses

\* cleanup_expired
LEMMA LemmaCleanUp ==
  ASSUME IInv, NEW p \in Process, CleanUp(p)
  PROVE  IInv'
<1>1. TypeOK
  BY DEF IInv
<1>2. \A q \in Process, k \in Key : requests'[q][k] = IF q = p THEN Recent(requests[q][k]) ELSE requests[q][k]
  BY <1>1 DEF CleanUp, TypeOK
<1>3. requests' = [requests EXCEPT ![p] = [k \in Key |-> Recent(requests[p][k])]]
  BY DEF CleanUp
<1>4. clock' = clock /\ accepted' = accepted /\ promised' = promised /\ serial' = serial
  BY DEF CleanUp
<1>5. TypeOK'
  <2>1. \A k \in Key : Recent(requests[p][k]) \subseteq Stamp
    BY <1>1 DEF TypeOK, Recent
  <2>2. requests' \in [Process -> [Key -> SUBSET Stamp]]
    BY <1>1, <1>3, <2>1 DEF TypeOK
  <2> QED  BY <1>1, <1>4, <2>2 DEF TypeOK, Stamp
<1>6. Kept'
  <2>1. ASSUME NEW q \in Process, NEW k \in Key
        PROVE  /\ requests'[q][k] \subseteq accepted[q][k]
               /\ \A s \in accepted[q][k] : s.at > clock - Window => s \in requests'[q][k]
    <3>1. /\ requests[q][k] \subseteq accepted[q][k]
          /\ \A s \in accepted[q][k] : s.at > clock - Window => s \in requests[q][k]
      BY DEF IInv, Kept
    <3> QED  BY <1>2, <3>1 DEF Recent
  <2> QED  BY <1>4, <2>1 DEF Kept
<1>7. Numbered' /\ WindowHoldsLimit' /\ Promise'
  BY <1>4 DEF IInv, Numbered, WindowHoldsLimit, InWindow, Promise
<1> QED  BY <1>5, <1>6, <1>7 DEF IInv

\* A process begins anew.
LEMMA LemmaRestart ==
  ASSUME IInv, NEW p \in Process, Restart(p)
  PROVE  IInv'
<1> USE RateLimiterAssumption
<1>1. TypeOK
  BY DEF IInv
<1>2. /\ \A q \in Process, k \in Key : requests'[q][k] = IF q = p THEN {} ELSE requests[q][k]
      /\ \A q \in Process, k \in Key : accepted'[q][k] = IF q = p THEN {} ELSE accepted[q][k]
      /\ \A q \in Process, k \in Key : promised'[q][k] = IF q = p THEN Never ELSE promised[q][k]
  BY <1>1 DEF Restart, TypeOK, Fresh
<1>3. clock' = clock /\ serial' = serial
  BY DEF Restart
<1>4. TypeOK'
  BY <1>1 DEF Restart, TypeOK, Fresh, Never, Stamp
<1>5. Numbered'
  BY <1>2, <1>3, FS_EmptySet DEF IInv, Numbered
<1>6. Kept'
  BY <1>2, <1>3 DEF IInv, Kept
<1>7. WindowHoldsLimit'
  <2>1. ASSUME NEW q \in Process, NEW k \in Key, NEW t \in 0..clock
        PROVE  Cardinality({s \in accepted'[q][k] : t - Window < s.at /\ s.at <= t}) <= Limit
    <3>1. CASE q = p
      <4>1. {s \in accepted'[q][k] : t - Window < s.at /\ s.at <= t} = {}
        BY <1>2, <3>1
      <4>2. Cardinality({}) = 0 /\ 0 <= Limit
        BY FS_EmptySet
      <4>3. \A T : T = {} => Cardinality(T) <= Limit
        BY <4>2
      <4> QED  BY <4>1, <4>3
    <3>2. CASE q # p
      <4>1. accepted'[q][k] = accepted[q][k]
        BY <1>2, <3>2
      <4> QED  BY <4>1 DEF IInv, WindowHoldsLimit, InWindow
    <3> QED  BY <3>1, <3>2
  <2> QED  BY <1>3, <2>1 DEF WindowHoldsLimit, InWindow
<1>8. Promise'
  BY <1>2 DEF IInv, Promise
<1> QED  BY <1>4, <1>5, <1>6, <1>7, <1>8 DEF IInv

LEMMA LemmaTick ==
  ASSUME IInv, Tick
  PROVE  IInv'
<1> USE RateLimiterAssumption
<1>1. TypeOK
  BY DEF IInv
<1>2. clock \in Nat /\ clock' = clock + 1
  BY <1>1 DEF Tick, TypeOK
<1>3. requests' = requests /\ accepted' = accepted /\ promised' = promised /\ serial' = serial
  BY DEF Tick
<1>4. \A p \in Process, k \in Key : \A s \in accepted[p][k] : s.at \in 0..clock
  BY <1>1 DEF TypeOK, Stamp
<1>5. TypeOK'
  <2>1. Stamp \subseteq Stamp'
    BY <1>2 DEF Stamp
  <2>2. SUBSET Stamp \subseteq SUBSET Stamp'
    BY <2>1
  <2>3. [Key -> SUBSET Stamp] \subseteq [Key -> SUBSET Stamp']
    BY <2>2
  <2> QED  BY <1>1, <1>2, <1>3, <2>3 DEF TypeOK
<1>6. Numbered'
  BY <1>3 DEF IInv, Numbered
<1>7. Kept'
  <2>1. ASSUME NEW p \in Process, NEW k \in Key
        PROVE  /\ requests[p][k] \subseteq accepted[p][k]
               /\ \A s \in accepted[p][k] : s.at > clock + 1 - Window => s \in requests[p][k]
    <3>1. /\ requests[p][k] \subseteq accepted[p][k]
          /\ \A s \in accepted[p][k] : s.at > clock - Window => s \in requests[p][k]
      BY DEF IInv, Kept
    <3> QED  BY <1>2, <1>4, <3>1
  <2> QED  BY <1>2, <1>3, <2>1 DEF Kept
<1>8. WindowHoldsLimit'
  <2>1. ASSUME NEW p \in Process, NEW k \in Key, NEW t \in 0..(clock + 1)
        PROVE  Cardinality(InWindow(p, k, t)) <= Limit
    <3>1. CASE t \in 0..clock
      BY <3>1 DEF IInv, WindowHoldsLimit
    <3>2. CASE t = clock + 1
      <4>1. InWindow(p, k, t) \subseteq InWindow(p, k, clock)
        BY <1>2, <1>4, <3>2 DEF InWindow
      <4>2. InWindow(p, k, clock) \subseteq accepted[p][k]
        BY DEF InWindow
      <4>3. IsFiniteSet(InWindow(p, k, clock))
        BY <4>2, LemmaSmaller DEF IInv, Numbered
      <4>4. Cardinality(InWindow(p, k, clock)) <= Limit
        BY <1>2 DEF IInv, WindowHoldsLimit
      <4> QED  BY <4>1, <4>3, <4>4, LemmaSmaller
    <3> QED  BY <1>2, <3>1, <3>2
  <2> QED  BY <1>2, <1>3, <2>1 DEF WindowHoldsLimit, InWindow
<1>9. Promise'
  BY <1>3 DEF IInv, Promise, StillThere
<1> QED  BY <1>5, <1>6, <1>7, <1>8, <1>9 DEF IInv

LEMMA LemmaNext ==
  ASSUME IInv, [Next]_vars
  PROVE  IInv'
<1>1. CASE UNCHANGED vars
  BY <1>1 DEF vars, IInv, TypeOK, Stamp, Numbered, Kept, WindowHoldsLimit, InWindow, Promise
<1> QED
  BY <1>1, LemmaDispatch, LemmaCleanUp, LemmaRestart, LemmaTick DEF Next

-----------------------------------------------------------------------------
\* The list of every key, what it forgot and what was promised fit together.
THEOREM Invariance == Spec => []IInv
<1>1. Init => IInv
  BY LemmaInit
<1>2. IInv /\ [Next]_vars => IInv'
  BY LemmaNext
<1> QED  BY <1>1, <1>2, PTL DEF Spec

\* No stretch of one window holds more than the limit, wherever it begins
\* (is_allowed).
THEOREM WindowBounded == Spec => []WindowHoldsLimit
<1>1. IInv => WindowHoldsLimit
  BY DEF IInv
<1> QED  BY <1>1, Invariance, PTL

\* Who comes again after retry_after is not refused again (is_allowed).
THEOREM RetryEnough == Spec => []ComingAgainIsEnough
<1>1. ASSUME IInv
      PROVE  ComingAgainIsEnough
  <2> USE RateLimiterAssumption
  <2>1. SUFFICES ASSUME Limit > 0, NEW p \in Process, NEW k \in Key, promised[p][k] \in 0..clock
                 PROVE  Cardinality(Recent(requests[p][k])) < Limit
    BY DEF ComingAgainIsEnough
  <2>2. clock \in Nat /\ \A s \in accepted[p][k] : s.at \in Int
    BY <1>1 DEF IInv, TypeOK, Stamp
  <2>3. Recent(requests[p][k]) \subseteq accepted[p][k]
    BY <1>1, LemmaRecent
  <2>4. Recent(requests[p][k]) \subseteq StillThere(accepted[p][k], promised[p][k])
    BY <2>1, <2>2, <2>3 DEF Recent, StillThere
  <2>5. IsFiniteSet(StillThere(accepted[p][k], promised[p][k]))
    <3>1. IsFiniteSet(accepted[p][k])
      BY <1>1 DEF IInv, Numbered
    <3>2. StillThere(accepted[p][k], promised[p][k]) \subseteq accepted[p][k]
      BY DEF StillThere
    <3> QED  BY <3>1, <3>2, LemmaSmaller
  <2>6. Cardinality(StillThere(accepted[p][k], promised[p][k])) < Limit
    BY <1>1, <2>1, <2>2 DEF IInv, Promise, Never
  <2> QED  BY <2>4, <2>5, <2>6, LemmaSmaller
<1> QED  BY <1>1, Invariance, PTL

\* Without fingerprints all requests with the token of one user share one
\* limit (build_key).
THEOREM UserBounded == Spec => []UserHoldsLimit
<1>1. ASSUME IInv
      PROVE  UserHoldsLimit
  <2> USE RateLimiterAssumption
  <2>1. SUFFICES ASSUME ~UseFingerprint, NEW p \in Process, NEW u \in User, NEW t \in 0..clock
                 PROVE  Cardinality(UNION {InWindow(p, KeyOf(c), t) :
                                             c \in {d \in Caller : d.user = u}}) <= Limit
    BY DEF UserHoldsLimit
  <2> DEFINE callers == {d \in Caller : d.user = u}
             all == UNION {InWindow(p, KeyOf(c), t) : c \in callers}
  <2>2. \A c \in callers : KeyOf(c) = <<"user", u>>
    BY <2>1 DEF KeyOf, AuthenticatedKey
  <2>3. CASE callers = {}
    <3>1. all = {}
      BY <2>3
    <3> QED  BY <3>1, FS_EmptySet
  <2>4. CASE callers # {}
    <3>1. <<"user", u>> \in Key
      BY <2>2, <2>4 DEF Key
    <3>2. all = InWindow(p, <<"user", u>>, t)
      BY <2>2, <2>4
    <3> QED  BY <1>1, <3>1, <3>2 DEF IInv, WindowHoldsLimit
  <2> QED  BY <2>3, <2>4
<1> QED  BY <1>1, Invariance, PTL
=============================================================================
