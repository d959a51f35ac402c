---------------------------- MODULE RateLimiter ----------------------------
(***************************************************************************)
(* The rate limiter (core/rate_limiter/): a sliding window for each key,   *)
(* in the memory of each process.  RateLimitMiddleware asks it before a    *)
(* request is handled and reads it again when the answer is there; both    *)
(* calls hold an asyncio lock and await nothing inside it, so each is one  *)
(* step.  The clock of the model never steps back; time.time() may, and    *)
(* then nothing is promised.                                               *)
(*                                                                         *)
(* A list of timestamps is modelled by the set of the requests in it, each *)
(* with a number of its own, since two may have the same time.             *)
(***************************************************************************)
EXTENDS Integers, FiniteSets

CONSTANTS
  Process,        \* processes of the API
  User,           \* users, who show a valid token
  Address,        \* client addresses
  Browser,        \* the headers a fingerprint is made from
  Nobody,         \* no token, or one that is not valid
  UseFingerprint, \* use_fingerprint
  Limit,          \* RATE_LIMIT_PER_MINUTE
  Window,         \* RATE_LIMIT_WINDOW
  Maintained,     \* cleanup_expired is called; in this repository only tests do
  MaxRequests,    \* bound: requests counted by a process
  MaxTime         \* bound: the clock stops here

ASSUME RateLimiterAssumption ==
  /\ Limit \in Nat /\ Window \in Nat \ {0}
  /\ MaxRequests \in Nat /\ MaxTime \in Nat
  /\ Nobody \notin User
  /\ {UseFingerprint, Maintained} \subseteq BOOLEAN

Caller == [user : User \cup {Nobody}, address : Address, browser : Browser]

\* Mutant: a caller that shows a token is known by the address as well.
KeyByAddress(c) ==
  <<c.user, c.address, IF UseFingerprint THEN c.browser ELSE Nobody>>
\* get_composite_fingerprint: headers and address, hashed.
Fingerprint(c) == <<c.browser, c.address>>
AuthenticatedKey(c) ==
  IF UseFingerprint THEN <<"user", c.user, Fingerprint(c)>> ELSE <<"user", c.user>>
AnonymousKey(c) ==
  IF UseFingerprint THEN <<"anon", c.address, Fingerprint(c)>> ELSE <<"anon", c.address>>
\* build_key: by user if the token is valid, by address otherwise.
KeyOf(c) == IF c.user # Nobody THEN AuthenticatedKey(c) ELSE AnonymousKey(c)

Key == {KeyOf(c) : c \in Caller}

VARIABLES
  clock,
  requests,   \* [Process -> [Key -> set of [n, at]]]: _requests
  accepted,   \* history: everything a process has let through since it started
  promised,   \* history: when a refused caller was told to come again
  serial      \* [Process -> Nat]: numbers given to requests

vars == <<clock, requests, accepted, promised, serial>>

Stamp == [n : Nat, at : 0..clock]
Never == -1

TypeOK ==
  /\ clock \in Nat
  /\ requests \in [Process -> [Key -> SUBSET Stamp]]
  /\ accepted \in [Process -> [Key -> SUBSET Stamp]]
  /\ promised \in [Process -> [Key -> Int]]
  /\ serial \in [Process -> Nat]

Fresh(v) == [k \in Key |-> v]

Init ==
  /\ clock = 0
  /\ requests = [p \in Process |-> Fresh({})]
  /\ accepted = [p \in Process |-> Fresh({})]
  /\ promised = [p \in Process |-> Fresh(Never)]
  /\ serial = [p \in Process |-> 0]

-----------------------------------------------------------------------------
\* Mutant: a request exactly one window ago still counts.
RecentInclusive(stamps) == {s \in stamps : s.at >= clock - Window}
\* Mutant: the newest are dropped.
OldOnes(stamps) == {s \in stamps : s.at <= clock - Window}
Recent(stamps) == {s \in stamps : s.at > clock - Window}

\* min() of the list; there is one when the limit is not 0.
Oldest(stamps) == CHOOSE t \in {s.at : s \in stamps} : \A s \in stamps : t <= s.at
RetryAfter(stamps) ==
  IF stamps = {} THEN Window
  ELSE LET left == Window - (clock - Oldest(stamps)) IN IF left < 0 THEN 0 ELSE left

Stamped(p) == [n |-> serial[p], at |-> clock]

\* is_allowed on the stamps of the last window, one of the two outcomes.
Allows(p, k, recent) ==
  LET stamp == Stamped(p)
  IN /\ Cardinality(recent) < Limit
     /\ requests' = [requests EXCEPT ![p][k] = recent \cup {stamp}]
     /\ accepted' = [accepted EXCEPT ![p][k] = @ \cup {stamp}]
     /\ promised' = [promised EXCEPT ![p][k] = Never]
     /\ serial' = [serial EXCEPT ![p] = @ + 1]

Refuses(p, k, recent) ==
  /\ Cardinality(recent) >= Limit
  /\ requests' = [requests EXCEPT ![p][k] = recent]
  /\ promised' = [promised EXCEPT ![p][k] = clock + RetryAfter(recent)]
  /\ UNCHANGED <<accepted, serial>>

\* RateLimitMiddleware.dispatch of a path that is not excluded.
Dispatch(p, c) ==
  /\ serial[p] < MaxRequests
  /\ LET k == KeyOf(c)
         recent == Recent(requests[p][k])
     IN Allows(p, k, recent) \/ Refuses(p, k, recent)
  /\ UNCHANGED clock

\* cleanup_expired
CleanUp(p) ==
  /\ Maintained
  /\ requests' = [requests EXCEPT ![p] = [k \in Key |-> Recent(@[k])]]
  /\ UNCHANGED <<clock, accepted, promised, serial>>

\* A process ends and comes back with an empty memory.
Restart(p) ==
  /\ requests' = [requests EXCEPT ![p] = Fresh({})]
  /\ accepted' = [accepted EXCEPT ![p] = Fresh({})]
  /\ promised' = [promised EXCEPT ![p] = Fresh(Never)]
  /\ UNCHANGED <<clock, serial>>

Tick ==
  /\ clock < MaxTime
  /\ clock' = clock + 1
  /\ UNCHANGED <<requests, accepted, promised, serial>>

Next ==
  \/ \E p \in Process :
       \/ \E c \in Caller : Dispatch(p, c)
       \/ CleanUp(p)
       \/ Restart(p)
  \/ Tick

Spec == Init /\ [][Next]_vars

-----------------------------------------------------------------------------
(* Properties *)

\* "Maximum number of requests allowed" in any window, not only in the one
\* that ends now (is_allowed): however the requests of a key lie in time, no
\* stretch of one window holds more than the limit.
InWindow(p, k, t) == {s \in accepted[p][k] : t - Window < s.at /\ s.at <= t}
WindowHoldsLimit ==
  \A p \in Process, k \in Key, t \in 0..clock :
    Cardinality(InWindow(p, k, t)) <= Limit

\* retry_after is enough: a caller that comes again at the time it was told,
\* or later, and was let through nowhere meanwhile, is not refused again.
ComingAgainIsEnough ==
  Limit > 0 =>
    \A p \in Process, k \in Key :
      promised[p][k] \in 0..clock => Cardinality(Recent(requests[p][k])) < Limit

\* "Per-user: shared limit across all browsers/devices": without fingerprints
\* the limit of a user with a token holds wherever the requests come from.
UserHoldsLimit ==
  ~UseFingerprint =>
    \A p \in Process, u \in User, t \in 0..clock :
      Cardinality(UNION {InWindow(p, KeyOf(c), t) : c \in {d \in Caller : d.user = u}})
        <= Limit
=============================================================================
