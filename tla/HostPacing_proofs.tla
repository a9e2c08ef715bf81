-------------------------- MODULE HostPacing_proofs --------------------------
(* Proofs about HostPacing, for any workers, delay and answers. *)
EXTENDS HostPacing, TLAPS

USE DelayAssumption, WaitsAssumption, NoneAssumption

LEMMA TypeInit == Init => TypeOK /\ GapInv
<1> SUFFICES ASSUME Init PROVE TypeOK /\ GapInv OBVIOUS
<1>1. TypeOK BY DEF Init, TypeOK, PC
<1>2. \A w \in Workers : pc[w] # "sleep" /\ lock # w BY DEF Init
<1>3. GapInv BY <1>2 DEF Init, GapInv
<1> QED BY <1>1, <1>3

LEMMA TypeStep == TypeOK /\ [Next]_vars => TypeOK'
<1> SUFFICES ASSUME TypeOK, [Next]_vars PROVE TypeOK' OBVIOUS
<1> USE DEF TypeOK, PC, Send, sent
<1>1. CASE Tick BY <1>1 DEF Tick
<1>2. ASSUME NEW w \in Workers, Enter(w) PROVE TypeOK'
  BY <1>2 DEF Enter
<1>3. ASSUME NEW w \in Workers, PassLock(w) PROVE TypeOK'
  BY <1>3 DEF PassLock
<1>4. ASSUME NEW w \in Workers, SleepLocked(w) PROVE TypeOK'
  BY <1>4 DEF SleepLocked
<1>5. ASSUME NEW w \in Workers, Wake(w) PROVE TypeOK'
  BY <1>5 DEF Wake
<1>6. ASSUME NEW w \in Workers, Answer(w) PROVE TypeOK'
  BY <1>6 DEF Answer
<1>7. ASSUME NEW w \in Workers, Refusal(w) PROVE TypeOK'
  <2>1. PICK s \in Waits :
          /\ next' = Backoff(s)
          /\ refused' = Later(refused, clock + s)
          /\ \/ /\ pc' = [pc EXCEPT ![w] = "pause"]
                /\ until' = [until EXCEPT ![w] = clock + s]
             \/ pc' = [pc EXCEPT ![w] = "over"] /\ UNCHANGED until
    BY <1>7 DEF Refusal
  <2>2. s \in Nat /\ clock + s \in Nat OBVIOUS
  <2>3. next' \in Nat /\ refused' \in Nat BY <2>1, <2>2 DEF Later, Backoff
  <2>4. pc' \in [Workers -> PC] /\ until' \in [Workers -> Nat] BY <2>1, <2>2
  <2> QED BY <1>7, <2>3, <2>4 DEF Refusal
<1>8. ASSUME NEW w \in Workers, EndPause(w) PROVE TypeOK'
  BY <1>8 DEF EndPause
<1>9. CASE UNCHANGED vars BY <1>9 DEF vars
<1> QED BY <1>1, <1>2, <1>3, <1>4, <1>5, <1>6, <1>7, <1>8, <1>9 DEF Next

\* A request is made when the host is free: after next, or after what next was
\* when the sleeper went to sleep.
LEMMA AsksInTime ==
  ASSUME TypeOK, GapInv, NEW w \in Workers,
         (Enter(w) /\ Delay = 0) \/ PassLock(w) \/ Wake(w)
  PROVE  asked => clock >= last + Delay
<1> USE DEF TypeOK, GapInv
<1>1. CASE Enter(w) /\ Delay = 0 BY <1>1
<1>2. CASE PassLock(w) BY <1>2 DEF PassLock
<1>3. CASE Wake(w) BY <1>3 DEF Wake
<1> QED BY <1>1, <1>2, <1>3

LEMMA GapStep == TypeOK /\ GapInv /\ [Next]_vars => GapInv'
<1> SUFFICES ASSUME TypeOK, GapInv, [Next]_vars PROVE GapInv' OBVIOUS
<1> USE DEF TypeOK, GapInv, Send, sent
<1>1. CASE Tick BY <1>1 DEF Tick
<1>2. ASSUME NEW w \in Workers, Enter(w) PROVE GapInv'
  <2>1. CASE Delay = 0 BY <1>2, <2>1 DEF Enter
  <2>2. CASE Delay # 0 BY <1>2, <2>2 DEF Enter
  <2> QED BY <2>1, <2>2
<1>3. ASSUME NEW w \in Workers, PassLock(w) PROVE GapInv'
  BY <1>3 DEF PassLock
<1>4. ASSUME NEW w \in Workers, SleepLocked(w) PROVE GapInv'
  BY <1>4 DEF SleepLocked
<1>5. ASSUME NEW w \in Workers, Wake(w) PROVE GapInv'
  BY <1>5 DEF Wake
<1>6. ASSUME NEW w \in Workers, Answer(w) PROVE GapInv'
  BY <1>6 DEF Answer
<1>7. ASSUME NEW w \in Workers, Refusal(w) PROVE GapInv'
  <2>1. next' >= next /\ next' \in Nat BY <1>7 DEF Refusal, Later, Backoff
  <2>2. \A v \in Workers : pc'[v] = "sleep" <=> pc[v] = "sleep" BY <1>7 DEF Refusal
  <2>3. \A v \in Workers : pc[v] = "sleep" => until'[v] = until[v] BY <1>7 DEF Refusal
  <2> QED BY <1>7, <2>1, <2>2, <2>3 DEF Refusal
<1>8. ASSUME NEW w \in Workers, EndPause(w) PROVE GapInv'
  BY <1>8 DEF EndPause
<1>9. CASE UNCHANGED vars BY <1>9 DEF vars
<1> QED BY <1>1, <1>2, <1>3, <1>4, <1>5, <1>6, <1>7, <1>8, <1>9 DEF Next

\* RateLimiter keeps its books: next_by_host never falls behind the last request.
THEOREM PacingInvariant == Spec => [](TypeOK /\ GapInv)
<1>1. TypeOK /\ GapInv /\ [Next]_vars => (TypeOK /\ GapInv)' BY TypeStep, GapStep
<1> QED BY TypeInit, <1>1, PTL DEF Spec

\* The pool never asks one host twice within --delay, for any number of tasks.
THEOREM RequestsSpaced == Spec => MinGap
<1> DEFINE Gap == \A w \in Workers : Asks(w) /\ asked => clock >= last + Delay
<1>1. ASSUME TypeOK, GapInv, [Next]_vars PROVE [Gap]_vars
  <2> SUFFICES ASSUME NEW w \in Workers, Asks(w), asked
               PROVE  clock >= last + Delay
    OBVIOUS
  <2>1. (Enter(w) /\ Delay = 0) \/ PassLock(w) \/ Wake(w)
    <3>0. pc \in [Workers -> PC] BY <1>1 DEF TypeOK
    <3> USE <3>0 DEF Asks, sent
    <3>1. CASE Tick \/ UNCHANGED vars BY <3>1 DEF Tick, vars
    <3>2. ASSUME NEW v \in Workers, Enter(v) PROVE v = w /\ Delay = 0
      BY <3>2 DEF Enter, Send
    <3>3. ASSUME NEW v \in Workers, PassLock(v) \/ Wake(v) PROVE v = w
      BY <3>3 DEF PassLock, Wake, Send
    <3>4. ASSUME NEW v \in Workers, SleepLocked(v) \/ Answer(v) \/ Refusal(v) \/ EndPause(v)
          PROVE  FALSE
      BY <3>4 DEF SleepLocked, Answer, Refusal, EndPause
    <3> QED BY <1>1, <3>1, <3>2, <3>3, <3>4 DEF Next
  <2> QED BY <1>1, <2>1, AsksInTime
<1> QED BY PacingInvariant, <1>1, PTL DEF Spec, MinGap

\* A back-off is overwritten by nothing but a sleeper that wakes.
THEOREM BackoffLostToSleepers == Spec => BackoffHeld
<1> DEFINE Held == next >= refused /\ next' < refused' => \E w \in Workers : Wake(w)
<1>1. ASSUME TypeOK, [Next]_vars PROVE [Held]_vars
  <2> SUFFICES ASSUME next >= refused, next' < refused',
                      \A w \in Workers : ~Wake(w)
               PROVE  FALSE
    OBVIOUS
  <2> USE <1>1 DEF TypeOK
  <2>1. CASE UNCHANGED <<next, refused>> BY <2>1
  <2>2. ASSUME NEW w \in Workers, PassLock(w) PROVE FALSE BY <2>2 DEF PassLock
  <2>3. ASSUME NEW w \in Workers, Refusal(w) PROVE FALSE
    <3>1. PICK s \in Waits : next' = Backoff(s) /\ refused' = Later(refused, clock + s)
      BY <2>3 DEF Refusal
    <3>2. clock + s \in Nat OBVIOUS
    <3> QED BY <3>1, <3>2 DEF Backoff, Later
  <2> QED
    BY <2>1, <2>2, <2>3 DEF Next, vars, Tick, Enter, SleepLocked, Answer, EndPause
<1> QED BY PacingInvariant, <1>1, PTL DEF Spec, BackoffHeld

=============================================================================
