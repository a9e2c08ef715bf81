----------------------------- MODULE HostPacing -----------------------------
(***************************************************************************)
(* The RateLimiter that the tasks of one image worker share for one host,  *)
(* and what the answers of that host do to it.                             *)
(*                                                                         *)
(* wait() sleeps under a lock until the host may be asked again. backoff() *)
(* is called without the lock: it may run while a waiter sleeps.           *)
(***************************************************************************)
EXTENDS Naturals

CONSTANTS
  Workers,
  Delay,     \* --delay
  Waits,     \* seconds a refusal asks for: Retry-After, or the default
  Horizon,   \* bound on the clock
  None

ASSUME DelayAssumption == Delay \in Nat
ASSUME WaitsAssumption == Waits \subseteq Nat
ASSUME NoneAssumption == None \notin Workers

VARIABLES
  clock,    \* time.monotonic()
  next,     \* next_by_host: when the host may be asked again
  lock,     \* holder of the host's asyncio.Lock
  pc,       \* where each worker is
  until,    \* the end of its sleep
  refused,  \* the latest time a refusal has asked to wait for
  asked,    \* has any request been made?
  last      \* when the last one was

sent == <<asked, last>>
vars == <<clock, next, lock, pc, until, refused, sent>>

PC == {"free", "lock", "sleep", "asking", "pause", "over"}

TypeOK ==
  /\ clock \in Nat /\ next \in Nat /\ refused \in Nat
  /\ lock \in Workers \cup {None}
  /\ pc \in [Workers -> PC]
  /\ until \in [Workers -> Nat]
  /\ asked \in BOOLEAN /\ last \in Nat

Init ==
  /\ clock = 0 /\ next = 0 /\ refused = 0
  /\ lock = None
  /\ pc = [w \in Workers |-> "free"]
  /\ until = [w \in Workers |-> 0]
  /\ asked = FALSE /\ last = 0

\* Time passes; a sleeper may oversleep.
Tick ==
  /\ clock < Horizon
  /\ clock' = clock + 1
  /\ UNCHANGED <<next, lock, pc, until, refused, sent>>

Send(w) ==
  /\ pc' = [pc EXCEPT ![w] = "asking"]
  /\ asked' = TRUE /\ last' = clock

\* fetch calls wait(), which does nothing at all without a delay.
Enter(w) ==
  /\ pc[w] = "free"
  /\ IF Delay = 0 THEN Send(w)
     ELSE pc' = [pc EXCEPT ![w] = "lock"] /\ UNCHANGED sent
  /\ UNCHANGED <<clock, next, lock, until, refused>>

\* The lock is free and so is the host.
PassLock(w) ==
  /\ pc[w] = "lock" /\ lock = None
  /\ next <= clock
  /\ next' = clock + Delay
  /\ Send(w)
  /\ UNCHANGED <<clock, lock, until, refused>>

\* The lock is free and the host is not: sleep with the lock held.
SleepLocked(w) ==
  /\ pc[w] = "lock" /\ lock = None
  /\ next > clock
  /\ lock' = w
  /\ until' = [until EXCEPT ![w] = next]
  /\ pc' = [pc EXCEPT ![w] = "sleep"]
  /\ UNCHANGED <<clock, next, refused, sent>>

FaultyWake(w) ==                     \* the slot is not booked
  /\ pc[w] = "sleep" /\ clock >= until[w]
  /\ lock' = None
  /\ Send(w)
  /\ UNCHANGED <<clock, next, until, refused>>

\* next_by_host is set, not raised, after the sleep.
Wake(w) ==
  /\ pc[w] = "sleep" /\ clock >= until[w]
  /\ next' = clock + Delay
  /\ lock' = None
  /\ Send(w)
  /\ UNCHANGED <<clock, until, refused>>
\* Any answer but a refusal.
Answer(w) ==
  /\ pc[w] = "asking"
  /\ pc' = [pc EXCEPT ![w] = "free"]
  /\ UNCHANGED <<clock, next, lock, until, refused, sent>>

Later(a, b) == IF a > b THEN a ELSE b

\* backoff(): the host may be asked again s seconds from now, or later still.
FaultyBackoff(s) == clock + s
Backoff(s) == Later(next, clock + s)

FaultyRefusal(w) ==                  \* a Retry-After that is no number is used as is
  /\ pc[w] = "asking"
  /\ pc' = [pc EXCEPT ![w] = "pause"]
  /\ until' = [until EXCEPT ![w] = None]
  /\ UNCHANGED <<clock, next, lock, refused, sent>>

\* 429 or 403: backoff(), and the worker itself sleeps unless it gives up: then it
\* stops the run, and asks no more.
Refusal(w) ==
  /\ pc[w] = "asking"
  /\ \E s \in Waits :
       /\ next' = Backoff(s)
       /\ refused' = Later(refused, clock + s)
       /\ \/ /\ pc' = [pc EXCEPT ![w] = "pause"]
             /\ until' = [until EXCEPT ![w] = clock + s]
          \/ /\ pc' = [pc EXCEPT ![w] = "over"]
             /\ UNCHANGED until
  /\ UNCHANGED <<clock, lock, sent>>

EndPause(w) ==
  /\ pc[w] = "pause" /\ clock >= until[w]
  /\ pc' = [pc EXCEPT ![w] = "free"]
  /\ UNCHANGED <<clock, next, lock, until, refused, sent>>

Next ==
  \/ Tick
  \/ \E w \in Workers :
       \/ Enter(w) \/ PassLock(w) \/ SleepLocked(w) \/ Wake(w)
       \/ Answer(w) \/ Refusal(w) \/ EndPause(w)

Spec == Init /\ [][Next]_vars

-----------------------------------------------------------------------------
(* Properties *)

Asks(w) == pc[w] # "asking" /\ pc'[w] = "asking"

\* "Per-host minimum interval": two requests of the pool to one host are at least
\* --delay apart, however the tasks interleave and whatever refusals do to next.
MinGap == [][\A w \in Workers : Asks(w) /\ asked => clock >= last + Delay]_vars

\* "Retry-After honor", as far as it goes: of two refusals the later end counts,
\* and only a task that slept in wait() meanwhile can overwrite it when it wakes.
BackoffHeld ==
  [][next >= refused /\ next' < refused' => \E w \in Workers : Wake(w)]_vars

\* Why: the slot after the last request is in next, and what a sleeper read there
\* stays true, since only the holder of the lock makes requests.
GapInv ==
  /\ \A w \in Workers : pc[w] = "sleep" <=> lock = w
  /\ last <= clock
  /\ Delay > 0 /\ asked =>
       /\ next >= last + Delay
       /\ \A w \in Workers : pc[w] = "sleep" => until[w] >= last + Delay

=============================================================================
