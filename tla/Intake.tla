------------------------------- MODULE Intake -------------------------------
(***************************************************************************)
(* The checks a request meets before it may cost something: single-use     *)
(* proofs (ReplayGuard, behind require_admin_action and api_agent_reply),  *)
(* the RateLimiter and the daily quota of live model calls (llm_quota_ok), *)
(* in crates/agentbbs-web.                                                 *)
(*                                                                         *)
(* Handlers run concurrently against a clock that ticks between any two of *)
(* their steps.  A proof is verified with the time the handler read first; *)
(* the replay guard is asked with that same, possibly old, time.  The day  *)
(* is read before the quota's lock is taken; the limiter reads its clock   *)
(* under its lock.  Guards and limiter know strings, not proofs and        *)
(* identities.  All three live in memory: a restart forgets them.          *)
(***************************************************************************)
EXTENDS Integers, Sequences

CONSTANTS Handler,      \* requests in flight at one time
          Token,        \* proofs: [kind, stamp, who], who being the signer's to_hex()
          Padding,      \* white space a client may put around a signature's hex
          Key,          \* strings the limiter is asked with
          MaxFuture,    \* MAX_FUTURE_SECONDS of an admin proof
          MaxAge, MaxSkew,   \* AGENT_REPLY_MAX_AGE_SECONDS, _MAX_SKEW_SECONDS
          RateMax, RateWindow,   \* RATE_MAX_POSTS, RATE_WINDOW
          DailyMax,     \* AGENTBBS_LLM_DAILY_MAX
          DayLength,    \* clock ticks in a day
          MaxTime,      \* bound: the clock stops here
          MaxRestarts   \* bound: restarts in a behaviour

Time == 0..MaxTime
Bare == ""

ASSUME IntakeAssumption ==
  /\ \A n \in {MaxFuture, MaxAge, MaxSkew, DailyMax, MaxTime, MaxRestarts} : n \in Nat
  /\ \A n \in {RateMax, RateWindow, DayLength} : n \in Nat \ {0}
  /\ \A k \in Token : k.kind \in {"admin", "reply"} /\ k.stamp \in Time /\ k.who \in Key
  /\ Bare \in Padding

VARIABLES
  clock,
  task,      \* handler -> what it does next, with what it has read
  used,      \* ReplayGuard.used of both guards: nonce -> expiry
  window,    \* RateLimiter.windows: [start, count] by key
  llmDay,    \* llm_day: [day, count]
  uses,      \* ghost: how often a nonce got past its guard
  late,      \* ghost: how often a nonce met its guard after it had expired
  accepted,  \* ghost: when this life's limiter let requests through, by key
  calls,     \* ghost: live calls granted, by the day they were counted on
  lateDays,  \* ghost: how often the quota was taken with a day already over
  restarts

memory == <<used, window, llmDay>>
ghosts == <<uses, late, accepted, calls, lateDays>>
vars == <<clock, task, memory, ghosts, restarts>>

Day(t) == t \div DayLength
Idle == [pc |-> "idle"]

\* What a replay guard remembers a proof by: the jti of an admin proof (its pad
\* is Bare), the signature string of a reply.
Nonces == [proof : Token, pad : Padding]

\* The state of AppState::new.  A first request finds its window over; the
\* code's day of no day counts nothing, as day 0 does here.
NoneUsed == [n \in Nonces |-> 0]
NoWindows == [w \in Key |-> [start |-> -RateWindow, count |-> 0]]
NoCalls == [day |-> 0, count |-> 0]

TypeOK ==
  /\ clock \in Time
  /\ \A h \in Handler : task[h].pc \in {"idle", "consume", "rate", "day", "quota"}
  /\ used \in [Nonces -> Nat]
  /\ window \in [Key -> [start : Int, count : 0..RateMax]]
  /\ llmDay \in [day : Nat, count : 0..DailyMax]
  /\ restarts \in 0..MaxRestarts

Init ==
  /\ clock = 0
  /\ task = [h \in Handler |-> Idle]
  /\ used = NoneUsed /\ window = NoWindows /\ llmDay = NoCalls
  /\ uses = NoneUsed /\ late = NoneUsed
  /\ accepted = [w \in Key |-> <<>>]
  /\ calls = [d \in {Day(t) : t \in Time} |-> 0] /\ lateDays = 0
  /\ restarts = 0

Tick ==
  /\ clock < MaxTime
  /\ clock' = clock + 1
  /\ UNCHANGED <<task, memory, ghosts, restarts>>

\* The process stops and starts again: handlers, guards, windows and the
\* counter are gone.
Restart ==
  /\ restarts < MaxRestarts
  /\ restarts' = restarts + 1
  /\ task' = [h \in Handler |-> Idle]
  /\ used' = NoneUsed /\ window' = NoWindows /\ llmDay' = NoCalls
  /\ accepted' = [w \in Key |-> <<>>]
  /\ UNCHANGED <<clock, uses, late, calls, lateDays>>

----------------------------------------------------------------------------
(* Proofs *)

\* What verify accepts at the time now, and until when the guard keeps it.
Verifies(k, now) ==
  IF k.kind = "admin" THEN now < k.stamp /\ k.stamp <= now + MaxFuture
  ELSE now - k.stamp \in (-MaxSkew)..MaxAge
\* Ghost: when a token met by the guard counts as late.
Lapse(k) == k.stamp + (IF k.kind = "admin" THEN 0 ELSE MaxAge + MaxSkew)
\* Fault: a reply is forgotten a tick before it stops verifying.
ExpiresFaulty(k) == IF k.kind = "admin" THEN k.stamp ELSE k.stamp + MaxAge
Expires(k) == IF k.kind = "admin" THEN k.stamp ELSE k.stamp + MaxAge + MaxSkew

\* A client may write a signature's hex in either case and pad it:
\* SignatureBytes::from_hex reads them all alike.
Spelling == [upper : BOOLEAN, pad : Padding]

\* The string the guard is asked with: a signature in lower case with its
\* padding, or the proof's jti.
Nonce(k, s) == [proof |-> k, pad |-> IF k.kind = "admin" THEN Bare ELSE s.pad]

\* The handler reads the clock and verifies.
Verify(h, k, s) ==
  /\ task[h] = Idle
  /\ Verifies(k, clock)
  /\ task' = [task EXCEPT ![h] = [pc |-> "consume", nonce |-> Nonce(k, s), now |-> clock]]
  /\ UNCHANGED <<clock, memory, ghosts, restarts>>

\* ReplayGuard::consume on the guard of the proof's kind; 0 is absent.
Consume(h) ==
  LET n == task[h].nonce
      kind == n.proof.kind
      kept == [m \in Nonces |->
                 IF m.proof.kind = kind /\ used[m] <= task[h].now THEN 0 ELSE used[m]]
  IN
  /\ task[h].pc = "consume"
  /\ late' = IF clock >= Lapse(n.proof) THEN [late EXCEPT ![n] = @ + 1] ELSE late
  /\ IF kept[n] # 0
     THEN /\ used' = kept
          /\ task' = [task EXCEPT ![h] = Idle]
          /\ UNCHANGED uses
     ELSE /\ used' = [kept EXCEPT ![n] = Expires(n.proof)]
          /\ uses' = [uses EXCEPT ![n] = @ + 1]
          /\ task' = [task EXCEPT ![h] = IF kind = "admin" THEN Idle
                                         ELSE [pc |-> "rate", key |-> n.proof.who]]
  /\ UNCHANGED <<clock, window, llmDay, accepted, calls, lateDays, restarts>>

----------------------------------------------------------------------------
(* The limiter *)

\* Fault: the request that opens a window is not counted in it.
CountedFaulty(w) ==
  IF clock - w.start >= RateWindow THEN [start |-> clock, count |-> 0]
  ELSE [w EXCEPT !.count = @ + 1]
Counted(w) ==
  IF clock - w.start >= RateWindow THEN [start |-> clock, count |-> 1]
  ELSE [w EXCEPT !.count = @ + 1]

\* RateLimiter::check.
RateAllows(w) == clock - window[w].start >= RateWindow \/ window[w].count < RateMax
CheckRate(w) ==
  /\ RateAllows(w)
  /\ window' = [window EXCEPT ![w] = Counted(@)]
  /\ accepted' = [accepted EXCEPT ![w] = Append(@, clock)]

\* api_post asks with the session token and api_post_signed with the author
\* field as the client wrote it, both of them any string; a post that mentions
\* an agent goes on to the quota (maybe_loop_in).
Post(h, w) ==
  /\ task[h] = Idle
  /\ CheckRate(w)
  /\ \E mentions \in BOOLEAN :
       task' = IF mentions THEN [task EXCEPT ![h] = [pc |-> "day"]] ELSE task
  /\ UNCHANGED <<clock, used, llmDay, uses, late, calls, lateDays, restarts>>

\* api_agent_reply asks with the requester's to_hex().
Rate(h) ==
  /\ task[h].pc = "rate"
  /\ \/ /\ CheckRate(task[h].key)
        /\ task' = [task EXCEPT ![h] = [pc |-> "day"]]
     \/ /\ ~RateAllows(task[h].key)
        /\ task' = [task EXCEPT ![h] = Idle]
        /\ UNCHANGED <<window, accepted>>
  /\ UNCHANGED <<clock, used, llmDay, uses, late, calls, lateDays, restarts>>

----------------------------------------------------------------------------
(* llm_quota_ok *)

ReadDay(h) ==
  /\ task[h].pc = "day"
  /\ task' = [task EXCEPT ![h] = [pc |-> "quota", today |-> Day(clock)]]
  /\ UNCHANGED <<clock, memory, ghosts, restarts>>

\* Fault: a new day empties the counter and is not written to it.
OnDayFaulty(today) == IF llmDay.day # today THEN [llmDay EXCEPT !.count = 0] ELSE llmDay
OnDay(today) == IF llmDay.day # today THEN [day |-> today, count |-> 0] ELSE llmDay

Quota(h) ==
  LET today == task[h].today
      g == OnDay(today)
  IN
  /\ task[h].pc = "quota"
  /\ task' = [task EXCEPT ![h] = Idle]
  /\ lateDays' = IF today < llmDay.day THEN lateDays + 1 ELSE lateDays
  /\ IF g.count >= DailyMax
     THEN llmDay' = g /\ UNCHANGED calls
     ELSE /\ llmDay' = [g EXCEPT !.count = @ + 1]
          /\ calls' = [calls EXCEPT ![today] = @ + 1]
  /\ UNCHANGED <<clock, used, window, uses, late, accepted, restarts>>

----------------------------------------------------------------------------
Next ==
  \/ Tick \/ Restart
  \/ \E h \in Handler :
       \/ \E w \in Key : Post(h, w)
       \/ \E k \in Token, s \in Spelling : Verify(h, k, s)
       \/ Consume(h) \/ Rate(h) \/ ReadDay(h) \/ Quota(h)

Spec == Init /\ [][Next]_vars

----------------------------------------------------------------------------
(* Properties *)

\* One life of the process lets a nonce through once, although the guard forgets
\* what has expired (admin_action.rs:27) and is asked with a time read before its
\* lock: every further use is by a handler that verified in time and met the
\* guard only after the expiry, which for a reply takes a delay longer than the
\* skew, or in a later life of the process.  A nonce is the guard's key: an admin
\* proof has one, a reply's signature as many as it has paddings
\* (route_auth.rs:104, identity.rs:112).
SingleUse == \A n \in Nonces : uses[n] <= 1 + late[n] + restarts

\* The fixed window (lib.rs:83) lets through more than its quota around a
\* boundary, but never twice as much: 2 * RateMax requests let through one
\* after the other in one life of the process are at least a window apart, so
\* any stretch as long as the window holds less than double the quota, for each
\* string the limiter is asked with, posts and replies together.  Nothing ties
\* the strings of one author together (lib.rs:1413, 1481, 3313).
SlidingWindowBound ==
  \A w \in Key : \A i, j \in 1..Len(accepted[w]) :
    j - i >= 2 * RateMax - 1 => accepted[w][j] - accepted[w][i] >= RateWindow

\* The day is read before the lock (lib.rs:216), so a request delayed over
\* midnight sets the counter back to its own day, and a restart empties it
\* (lib.rs:187): each of them lets at most one further allowance through, and
\* without one the cap is exact.
DailyCap ==
  \A d \in DOMAIN calls : calls[d] <= DailyMax * (1 + lateDays + restarts)
=============================================================================
