----------------------------- MODULE RateLimiter -----------------------------
(***************************************************************************)
(* The rate limit of one bucket for one principal: requests are counted in *)
(* Redis, in a counter per window of time, by INCR and, after the first    *)
(* INCR of a window, EXPIRE.  A check that gets no answer in time fails    *)
(* open, and its commands may still run later.                             *)
(*                                                                         *)
(* One tick of the clock is the time limit of a check; the second of slack *)
(* in the lifetime of a counter is one tick as well, which is less than it *)
(* really is.  A check is decided in the tick it began in or in the next.  *)
(***************************************************************************)
EXTENDS Naturals, FiniteSets

CONSTANTS
  Requests,        \* each is made once
  Limit,
  WindowSeconds,   \* the length of a window, in ticks
  MaxNow           \* model bound

ASSUME RateLimiterAssumption ==
  /\ Limit \in Nat \ {0}
  /\ WindowSeconds \in Nat \ {0}
  /\ MaxNow \in Nat

VARIABLES
  now,
  counter,  \* per window: what was counted, 0 if there is no key, and when the key expires
  check     \* what the check of each request is at

limiterVars == <<now, counter, check>>

Window == 0..(MaxNow \div WindowSeconds)

Never == MaxNow + WindowSeconds + 2
NoKey == [count |-> 0, expires |-> Never]

\* cmd: the command that is out; count: the answer of INCR.
Check == [cmd : {"none", "incr", "expire", "done"},
          window : Window, since : 0..MaxNow, count : Nat,
          decision : {"none", "allowed", "rejected", "failedOpen", "died"}]

NoCheck == [cmd |-> "none", window |-> 0, since |-> 0, count |-> 0, decision |-> "none"]

LimiterTypeOK ==
  /\ now \in 0..MaxNow
  /\ counter \in [Window -> [count : Nat, expires : 0..Never]]
  /\ check \in [Requests -> Check]

LimiterInit ==
  /\ now = 0
  /\ counter = [w \in Window |-> NoKey]
  /\ check = [r \in Requests |-> NoCheck]

undecided(r) == check[r].cmd # "none" /\ check[r].decision = "none"

-----------------------------------------------------------------------------
\* The window, hence the key, is that of the moment the request comes in.
Arrive(r) ==
  /\ check[r] = NoCheck
  /\ now < MaxNow
  /\ check' = [check EXCEPT ![r] = [NoCheck EXCEPT !.cmd = "incr", !.since = now,
                                                   !.window = now \div WindowSeconds]]
  /\ UNCHANGED <<now, counter>>

Incr(r) ==
  LET w == check[r].window
      n == counter[w].count + 1
  IN  /\ check[r].cmd = "incr"
      /\ counter' = [counter EXCEPT ![w].count = n]
      /\ check' = [check EXCEPT ![r].count = n,
                                ![r].cmd = IF n = 1 THEN "expire" ELSE "done"]
      /\ UNCHANGED now

\* Faulty: the counter lives as long as a window is.
lifetimeOfWindow == WindowSeconds

lifetime == WindowSeconds + 1

Expire(r) ==
  /\ check[r].cmd = "expire"
  /\ counter' = [counter EXCEPT ![check[r].window].expires = now + lifetime]
  /\ check' = [check EXCEPT ![r].cmd = "done"]
  /\ UNCHANGED now

Decide(r) ==
  /\ undecided(r) /\ check[r].cmd = "done"
  /\ check' = [check EXCEPT ![r].decision =
                 IF check[r].count > Limit THEN "rejected" ELSE "allowed"]
  /\ UNCHANGED <<now, counter>>

\* Fail open; the commands of the check are still out.
TimeOut(r) ==
  /\ undecided(r) /\ now > check[r].since
  /\ check' = [check EXCEPT ![r].decision = "failedOpen"]
  /\ UNCHANGED <<now, counter>>

\* Redis refuses the command, or the answer to the last one it executed is lost:
\* fail open.
RedisError(r) ==
  /\ undecided(r)
  /\ check' = [check EXCEPT ![r].cmd = "done", ![r].decision = "failedOpen"]
  /\ UNCHANGED <<now, counter>>

\* The process dies, and with it the command it had not sent yet.
Die(r) ==
  /\ check[r].cmd \in {"incr", "expire"}
  /\ check' = [check EXCEPT ![r].cmd = "done",
                            ![r].decision = IF @ = "none" THEN "died" ELSE @]
  /\ UNCHANGED <<now, counter>>

\* Keys whose time has come are gone.
Pass ==
  /\ now < MaxNow
  /\ \A r \in Requests : undecided(r) => check[r].since = now
  /\ now' = now + 1
  /\ counter' = [w \in Window |-> IF counter[w].expires <= now' THEN NoKey ELSE counter[w]]
  /\ UNCHANGED check

LimiterNext ==
  \/ \E r \in Requests :
       \/ Arrive(r) \/ Incr(r) \/ Expire(r) \/ Decide(r)
       \/ TimeOut(r) \/ RedisError(r) \/ Die(r)
  \/ Pass

-----------------------------------------------------------------------------
(* Properties. *)

\* rate-limiter.service.ts: "bound the key's lifetime": a counter that nobody
\* is about to give a lifetime has one.
CountersExpire ==
  \A w \in Window :
    counter[w].count > 0 =>
      \/ counter[w].expires # Never
      \/ \E r \in Requests : check[r].window = w /\ check[r].cmd = "expire"

=============================================================================
