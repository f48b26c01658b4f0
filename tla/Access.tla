------------------------------- MODULE Access -------------------------------
(***************************************************************************)
(* What one API process does before and around a write that a client may   *)
(* ask for twice: the token bucket of the caller (auth/ratelimit.py,       *)
(* api/deps.py), the Idempotency-Key of POST /v1/inscribe                  *)
(* (api/v1/inscribe.py), and the tenant of an account, which an            *)
(* installation looks for and a new API key does not (storage/queries.py,  *)
(* auth/keys.py).                                                          *)
(*                                                                         *)
(* Handlers run on threads; a bucket is taken under a lock, and every      *)
(* query is a transaction of its own.  Time is counted in ticks, Period of *)
(* them a minute, and tokens in Periodths: a bucket is full at             *)
(* Capacity * Period and gains Capacity a tick (the code has floats).      *)
(***************************************************************************)
EXTENDS Integers, FiniteSets

CONSTANTS
  Threads,
  Callers,   \* bucket keys: API keys, or scopes where there is none
  Keys,      \* idempotency keys
  Capacity,  \* settings.rate_limit_requests_per_minute, at least 1
  Period,    \* ticks of a minute
  MaxTime,   \* bound: ticks
  MaxMinted, \* bound: API keys created
  MaxCrashes \* bound: restarts of the process

ASSUME RateAssumption == Capacity \in Nat \ {0} /\ Period \in Nat \ {0}
ASSUME ThreadsAssumption == IsFiniteSet(Threads)
ASSUME BoundsAssumption == {MaxTime, MaxMinted, MaxCrashes} \subseteq Nat

VARIABLES
  now,       \* time.monotonic()
  known,     \* the callers that have a bucket
  tokens, last,  \* a bucket: its tokens (negative, at times) and last_refill
  pc,        \* what a thread does
  caller, stamp, key,  \* of a thread's request: who, the clock it read, its key
  stored,    \* idempotency_keys: those with a response
  tenants,   \* the tenants of the account
  writes,    \* history: commits inscribed under a key
  lost,      \* history: those of them that did not get as far as the response
  minted,    \* history: API keys created
  from, upto, admitted,  \* history of a caller: requests admitted since one of
                         \* them read the clock at from; -1: nobody counts
  crashes    \* how often the process died (counts against MaxCrashes)

buckets == <<known, tokens, last>>
thread == <<caller, stamp, key>>
windows == <<from, upto, admitted>>
commits == <<stored, writes, lost>>
vars == <<now, buckets, pc, thread, commits, tenants, minted, windows, crashes>>

Full == Capacity * Period

\* A request: it has read the clock, it is let in, it has found no response under its
\* key, it has inscribed; or it has found no tenant.
PC == {"idle", "waiting", "admitted", "writing", "storing", "creating"}

TypeOK ==
  /\ now \in Nat
  /\ known \subseteq Callers
  /\ tokens \in [Callers -> Int] /\ last \in [Callers -> Nat]
  /\ pc \in [Threads -> PC]
  /\ caller \in [Threads -> Callers] /\ stamp \in [Threads -> Nat] /\ key \in [Threads -> Keys]
  /\ stored \subseteq Keys /\ writes \in [Keys -> Nat] /\ lost \in [Keys -> Nat]
  /\ tenants \in Nat /\ minted \in Nat
  /\ from \in [Callers -> Nat \cup {-1}] /\ upto \in [Callers -> Nat]
  /\ admitted \in [Callers -> Nat]
  /\ crashes \in Nat

Init ==
  /\ now = 0
  /\ known = {} /\ tokens = [c \in Callers |-> 0] /\ last = [c \in Callers |-> 0]
  /\ pc = [t \in Threads |-> "idle"]
  /\ caller \in [Threads -> Callers] /\ key \in [Threads -> Keys]
  /\ stamp = [t \in Threads |-> 0]
  /\ stored = {} /\ writes = [k \in Keys |-> 0] /\ lost = [k \in Keys |-> 0]
  /\ tenants = 0 /\ minted = 0
  /\ from = [c \in Callers |-> -1] /\ upto = [c \in Callers |-> 0]
  /\ admitted = [c \in Callers |-> 0]
  /\ crashes = 0

Tick ==
  /\ now < MaxTime
  /\ now' = now + 1
  /\ UNCHANGED <<buckets, pc, thread, commits, tenants, minted, windows, crashes>>

Goto(t, p) == pc' = [pc EXCEPT ![t] = p]

-----------------------------------------------------------------------------
(* The rate limit                                                          *)

\* require_scope and allow: the clock is read, and then the lock is waited for.
Arrive(t, c) ==
  /\ pc[t] = "idle"
  /\ Goto(t, "waiting")
  /\ caller' = [caller EXCEPT ![t] = c]
  /\ stamp' = [stamp EXCEPT ![t] = now]
  /\ UNCHANGED <<now, buckets, key, commits, tenants, minted, windows, crashes>>

\* Mutant of Refilled: what a bucket gains is not cut at its capacity.
RefilledWithoutCap(c, time) ==
  IF c \in known THEN tokens[c] + (time - last[c]) * Capacity ELSE Full

\* The tokens a request finds that read the clock at `time`, before the last one or
\* after.  A new bucket is full.
Refilled(c, time) ==
  LET gained == tokens[c] + (time - last[c]) * Capacity
  IN  IF c \in known /\ gained < Full THEN gained ELSE Full

\* A request that takes a token is let in.  (One that finds no bucket takes one of
\* Capacity, which is at least 1.)
Admits(c, time) == Refilled(c, time) >= Period

\* Somebody may start to count with any request.
Count(c, time, one, starts) ==
  LET counting == from[c] # -1 /\ ~starts
  IN  /\ from' = [from EXCEPT ![c] = IF starts THEN time ELSE @]
      /\ upto' = [upto EXCEPT ![c] = IF counting /\ @ >= time THEN @ ELSE time]
      /\ admitted' = [admitted EXCEPT ![c] = (IF counting THEN @ ELSE 0) + one]

\* The rest of allow, under the lock; the request goes on, or is answered 429.
Allow(t, starts) ==
  LET c == caller[t]
      one == IF Admits(c, stamp[t]) THEN 1 ELSE 0
  IN  /\ pc[t] = "waiting"
      /\ known' = known \cup {c}
      /\ tokens' = [tokens EXCEPT ![c] = Refilled(c, stamp[t]) - one * Period]
      /\ last' = [last EXCEPT ![c] = stamp[t]]
      /\ Goto(t, IF one = 1 THEN "admitted" ELSE "idle")
      /\ Count(c, stamp[t], one, starts)
      /\ stamp' = [stamp EXCEPT ![t] = 0]  \* no more of use
      /\ UNCHANGED <<now, caller, key, commits, tenants, minted, crashes>>

-----------------------------------------------------------------------------
(* POST /v1/inscribe under an idempotency key                              *)

\* Mutant of Found: a response that is stored is not looked for.
NeverFound(k) == FALSE

Found(k) == k \in stored

\* get_idempotent_response: a stored response is returned, and that is all.
Look(t, k) ==
  /\ pc[t] = "admitted"
  /\ key' = [key EXCEPT ![t] = k]
  /\ Goto(t, IF Found(k) THEN "idle" ELSE "writing")
  /\ UNCHANGED <<now, buckets, caller, stamp, commits, tenants, minted, windows, crashes>>

\* inscribe_commit, of which Canon has the steps.
Inscribe(t) ==
  /\ pc[t] = "writing"
  /\ Goto(t, "storing")
  /\ writes' = [writes EXCEPT ![key[t]] = @ + 1]
  /\ UNCHANGED <<now, buckets, thread, stored, lost, tenants, minted, windows, crashes>>

\* It raises, with the commit in the record, or the response cannot be stored: the
\* client does not know.
Fails(t) ==
  /\ pc[t] = "storing"
  /\ Goto(t, "idle")
  /\ lost' = [lost EXCEPT ![key[t]] = @ + 1]
  /\ UNCHANGED <<now, buckets, thread, stored, writes, tenants, minted, windows, crashes>>

\* store_idempotent_response: on conflict do nothing.
Store(t) ==
  /\ pc[t] = "storing"
  /\ Goto(t, "idle")
  /\ stored' = stored \cup {key[t]}
  /\ UNCHANGED <<now, buckets, thread, writes, lost, tenants, minted, windows, crashes>>

\* Any other request, and one that raises before it writes.
Read(t) ==
  /\ pc[t] \in {"admitted", "writing"}
  /\ Goto(t, "idle")
  /\ UNCHANGED <<now, buckets, thread, commits, tenants, minted, windows, crashes>>

-----------------------------------------------------------------------------
(* The tenant of an account                                                *)

\* get_or_create_tenant_for_account: its select, for a delivery of GitHub's (which no
\* bucket limits) or POST /v1/backfill/run.
SelectTenant(t) ==
  /\ pc[t] \in {"idle", "admitted"}
  /\ Goto(t, IF tenants > 0 THEN "idle" ELSE "creating")
  /\ UNCHANGED <<now, buckets, thread, commits, tenants, minted, windows, crashes>>

\* Its insert: nothing in the table keeps a second one out.
CreateTenant(t) ==
  /\ pc[t] = "creating"
  /\ Goto(t, "idle")
  /\ tenants' = tenants + 1
  /\ UNCHANGED <<now, buckets, thread, commits, minted, windows, crashes>>

\* create_key makes a tenant for each key, in two transactions of which the second
\* may fail.
CreateKey ==
  /\ minted < MaxMinted
  /\ minted' = minted + 1
  /\ tenants' = tenants + 1
  /\ UNCHANGED <<now, buckets, pc, thread, commits, windows, crashes>>

-----------------------------------------------------------------------------

\* The process restarts: its buckets and requests are gone.
Crash ==
  /\ crashes < MaxCrashes
  /\ crashes' = crashes + 1
  /\ known' = {} /\ tokens' = [c \in Callers |-> 0] /\ last' = [c \in Callers |-> 0]
  /\ pc' = [t \in Threads |-> "idle"] /\ stamp' = [t \in Threads |-> 0]
  /\ lost' = [k \in Keys |->
       lost[k] + Cardinality({t \in Threads : pc[t] = "storing" /\ key[t] = k})]
  /\ from' = [c \in Callers |-> -1] /\ upto' = [c \in Callers |-> 0]
  /\ admitted' = [c \in Callers |-> 0]
  /\ UNCHANGED <<now, caller, key, stored, writes, tenants, minted>>

Step(t) ==
  \/ \E c \in Callers : Arrive(t, c)
  \/ \E starts \in BOOLEAN : Allow(t, starts)
  \/ \E k \in Keys : Look(t, k)
  \/ Inscribe(t) \/ Fails(t) \/ Store(t) \/ Read(t)
  \/ SelectTenant(t) \/ CreateTenant(t)

Next == Tick \/ CreateKey \/ Crash \/ \E t \in Threads : Step(t)

Spec == Init /\ [][Next]_vars

-----------------------------------------------------------------------------
(* Properties                                                              *)

\* Whoever counts, from any request on and in any order of the lock, finds a caller
\* let in at most once for each token of a full bucket and of what it gains in
\* between, by the clock the requests read.
WindowBudget ==
  \A c \in Callers : from[c] # -1 =>
    admitted[c] * Period <= Capacity * (Period + upto[c] - from[c])

\* ARCHITECTURE.md:271: with a key, "a retried CLI call after a network blip doesn't
\* double-write": only calls that are under way together write again, and those that
\* failed.  storage/queries.py:117: "a tenant maps 1:1 to the account": only
\* installations under way together make another, and new API keys.
OnlyRacersRepeat ==
  /\ \A k \in Keys : writes[k] <= Cardinality(Threads) + lost[k]
  /\ tenants <= Cardinality(Threads) + minted
=============================================================================
