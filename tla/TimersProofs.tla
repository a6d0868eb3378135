---------------------------- MODULE TimersProofs ----------------------------
(***************************************************************************)
(* Proofs about Timers, for every set of timers, every choice of delays    *)
(* that does not reach the end of the unsigned type, and every clock.      *)
(***************************************************************************)
EXTENDS Timers, FiniteSetTheorems, TLAPS

(* The variables without refs, whose type follows from what it counts. *)
Shape ==
    /\ timers \subseteq Timers
    /\ timeout \in [Timers -> 0 .. W - 1] /\ interval \in [Timers -> Delays \cup {0}]
    /\ others \in {0, 1}
    /\ clock \in 0 .. MaxClock /\ now \in 0 .. clock /\ since \in 0 .. clock
    /\ loop \in LoopStates
    /\ min \in Timers \cup {NULL}
    /\ (min # NULL) <=> (loop = "cb")
    /\ wait \in -1 .. INT_MAX
    /\ interrupts \in 0 .. MaxSignals
    /\ stopped \subseteq Timers

(* After pd_timers_run and until the poll returns no timer lies in the     *)
(* past of ctx->now, although user code in after_tick and outside          *)
(* pd_io_run starts timers with delay 0.                                   *)
NothingOverdue ==
    loop \in {"user", "after", "poll"} => \A t \in timers : now <= timeout[t]

(* The timeout of the poll is the time from ctx->now to the earliest timer, *)
(* or INT_MAX when that is too far.                                         *)
WaitExact ==
    loop = "poll" /\ timers # {} =>
        /\ wait \in 0 .. INT_MAX
        /\ \A t \in timers : now + wait <= timeout[t]
        /\ wait < INT_MAX => \E t \in timers : now + wait = timeout[t]

IInv == Shape /\ RefsExact /\ NothingOverdue /\ WaitExact
-----------------------------------------------------------------------------
(* A set of natural numbers that is not empty has a least member. *)
LEMMA LeastNatural ==
    ASSUME NEW T, T \subseteq Nat, T # {}
    PROVE  \E x \in T : \A y \in T : x <= y
<1>1. PICK x \in T : \A y \in T : ~(<<y, x>> \in OpToRel(<, Nat))
  BY NatLessThanWellFounded, WFMin
<1>2. \A y \in T : ~(y < x)
  BY <1>1 DEF OpToRel
<1> QED BY <1>2

(* heap_peek finds a timer whenever one is active. *)
LEMMA PeekFinds ==
    ASSUME Shape, timers # {}
    PROVE  heap_peek # {}
<1> DEFINE T == {timeout[t] : t \in timers}
<1>1. T \subseteq Nat /\ T # {}
  BY TimersAssumption DEF Shape
<1>2. PICK x \in T : \A y \in T : x <= y
  BY <1>1, LeastNatural
<1>3. PICK t \in timers : timeout[t] = x
  BY <1>2
<1> QED BY <1>2, <1>3 DEF heap_peek

(* A number below the modulus is its own remainder. *)
LEMMA SmallRemainder ==
    ASSUME NEW n \in Nat, NEW a \in 0 .. n - 1
    PROVE  a % n = a
OBVIOUS

(* The addition in pd_timer_start does not wrap around. *)
LEMMA StartTime ==
    ASSUME Shape, NEW d \in Delays
    PROVE  (now + d) % W = now + d /\ now + d \in 0 .. W - 1
<1>1. now \in Nat /\ now <= MaxClock /\ MaxClock + d < W /\ d \in Nat
  BY TimersAssumption DEF Shape
<1>2. now + d \in 0 .. W - 1
  BY <1>1, TimersAssumption
<1> QED BY <1>2, SmallRemainder, TimersAssumption

(* What pd_timers_next computes when nothing is overdue: the subtraction   *)
(* does not wrap around.                                                   *)
LEMMA NextIsExact ==
    ASSUME Shape, \A t \in timers : now <= timeout[t]
    PROVE  /\ timers = {} => pd_timers_next = -1
           /\ timers # {} =>
                 /\ pd_timers_next \in 0 .. INT_MAX
                 /\ \A t \in timers : now + pd_timers_next <= timeout[t]
                 /\ pd_timers_next < INT_MAX =>
                       \E t \in timers : now + pd_timers_next = timeout[t]
<1>1. CASE timers = {}
  BY <1>1 DEF pd_timers_next
<1>2. CASE timers # {}
  <2> DEFINE c == CHOOSE t \in heap_peek : TRUE
             d == timeout[c] - now
  <2>1. c \in heap_peek
    BY <1>2, PeekFinds
  <2>2. c \in timers /\ \A u \in timers : timeout[c] <= timeout[u]
    BY <2>1 DEF heap_peek
  <2> HIDE DEF c
  <2>3. d \in 0 .. W - 1
    BY <2>2, TimersAssumption DEF Shape
  <2>4. d % W = d
    BY <2>3, SmallRemainder, TimersAssumption
  <2>5. pd_timers_next = IF d >= INT_MAX THEN INT_MAX ELSE d
    BY <1>2, <2>4 DEF pd_timers_next, c
  <2>6. \A t \in timers : timeout[t] \in Nat
    BY TimersAssumption DEF Shape
  <2>7. now \in Nat /\ INT_MAX \in Nat
    BY TimersAssumption DEF Shape
  <2> QED BY <1>2, <2>2, <2>3, <2>5, <2>6, <2>7
<1> QED BY <1>1, <1>2

(* Timers are finite in number, and starting or stopping one changes the   *)
(* count by one.                                                           *)
LEMMA CountTimers ==
    ASSUME timers \subseteq Timers
    PROVE  /\ Cardinality(timers) \in Nat
           /\ \A t : t \notin timers => Cardinality(timers \cup {t}) = Cardinality(timers) + 1
           /\ \A t \in timers : Cardinality(timers \ {t}) = Cardinality(timers) - 1
<1>1. IsFiniteSet(timers)
  BY TimersAssumption, FS_Subset
<1> QED BY <1>1, FS_CardinalityType, FS_AddElement, FS_RemoveElement
-----------------------------------------------------------------------------
(* What starting a timer that is not active does to the parts of the       *)
(* invariant, from every place it is called from.                          *)
LEMMA InsertStep ==
    ASSUME Shape, RefsExact, NEW t \in Timers, NEW d \in Delays,
           t \notin timers, Insert(t, d), others' = others
    PROVE  /\ timers' \subseteq Timers
           /\ timeout' \in [Timers -> 0 .. W - 1]
           /\ RefsExact'
           /\ timeout'[t] >= now
           /\ \A u \in timers : timeout'[u] = timeout[u]
           /\ timers' = timers \cup {t}
<1>1. timeout' = [timeout EXCEPT ![t] = now + d] /\ now + d \in 0 .. W - 1
  BY StartTime DEF Insert
<1>2. d \in Nat /\ now \in Nat
  BY TimersAssumption DEF Shape
<1>3. RefsExact'
  BY CountTimers DEF Insert, RefsExact, Shape
<1> QED BY <1>1, <1>2, <1>3 DEF Insert, Shape

(* The same for stopping one that is active. *)
LEMMA RemoveStep ==
    ASSUME Shape, RefsExact, NEW t \in timers, Remove(t), others' = others
    PROVE  timers' = timers \ {t} /\ timeout' = timeout /\ RefsExact'
BY CountTimers DEF Remove, RefsExact, Shape

(* The calls of the user. *)
LEMMA UserStep ==
    ASSUME IInv, User
    PROVE  IInv'
<1> USE DEF IInv
<1>1. ASSUME NEW t \in Timers, NEW nowStopped, nowStopped \subseteq Timers, Called(nowStopped)
      PROVE  /\ stopped' \subseteq Timers /\ others' = others /\ now' = now
             /\ UNCHANGED <<clock, loop, min, wait, since, interrupts>>
             /\ loop' # "poll"
  BY <1>1 DEF Called, pollVars, UserCode
<1>2. ASSUME NEW t \in Timers, NEW d \in Delays, Called(stopped \ {t}), t \notin timers,
             Insert(t, d), interval' \in [Timers -> Delays \cup {0}]
      PROVE  IInv'
  <2>1. stopped \ {t} \subseteq Timers
    BY DEF Shape
  <2>2. /\ stopped' \subseteq Timers /\ others' = others /\ now' = now
        /\ UNCHANGED <<clock, loop, min, wait, since, interrupts>>
        /\ loop' # "poll"
    BY <1>1, <1>2, <2>1
  <2>3. /\ timers' \subseteq Timers
        /\ timeout' \in [Timers -> 0 .. W - 1]
        /\ RefsExact'
        /\ timeout'[t] >= now
        /\ \A u \in timers : timeout'[u] = timeout[u]
        /\ timers' = timers \cup {t}
    BY <1>2, <2>2, InsertStep
  <2>4. Shape'
    BY <1>2, <2>2, <2>3 DEF Shape
  <2>5. NothingOverdue' /\ WaitExact'
    BY <2>2, <2>3 DEF NothingOverdue, WaitExact
  <2> QED BY <2>3, <2>4, <2>5
<1>3. ASSUME NEW t \in Timers, NEW d \in Delays, pd_timer_start(t, d)
      PROVE  IInv'
  BY <1>2, <1>3 DEF pd_timer_start, Shape
<1>4. ASSUME NEW t \in Timers, NEW d \in Delays, pd_timer_repeat(t, d)
      PROVE  IInv'
  <2>1. interval' \in [Timers -> Delays \cup {0}]
    BY <1>4 DEF pd_timer_repeat, Shape
  <2>2. CASE t \in timers
    <3>1. stopped \ {t} \subseteq Timers
      BY DEF Shape
    <3>2. /\ stopped' \subseteq Timers /\ others' = others /\ now' = now
          /\ UNCHANGED <<clock, loop, min, wait, since, interrupts>>
          /\ loop' # "poll"
      BY <1>1, <1>4, <3>1 DEF pd_timer_repeat
    <3>3. UNCHANGED <<timers, timeout, refs>>
      BY <1>4, <2>2 DEF pd_timer_repeat
    <3> QED BY <2>1, <3>2, <3>3 DEF Shape, RefsExact, NothingOverdue, WaitExact
  <2>3. CASE t \notin timers
    BY <1>2, <1>4, <2>1, <2>3 DEF pd_timer_repeat
  <2> QED BY <2>2, <2>3
<1>5. ASSUME NEW t \in Timers, pd_timer_stop(t)
      PROVE  IInv'
  <2>1. stopped \cup {t} \subseteq Timers
    BY DEF Shape
  <2>2. /\ stopped' \subseteq Timers /\ others' = others /\ now' = now
        /\ UNCHANGED <<clock, loop, min, wait, since, interrupts, interval>>
        /\ loop' # "poll"
    BY <1>1, <1>5, <2>1 DEF pd_timer_stop
  <2>3. timers' \subseteq timers /\ timeout' = timeout /\ RefsExact'
    <3>1. CASE t \in timers
      BY <1>5, <2>2, <3>1, RemoveStep DEF pd_timer_stop
    <3>2. CASE t \notin timers
      BY <1>5, <2>2, <3>2 DEF pd_timer_stop, RefsExact
    <3> QED BY <3>1, <3>2
  <2> QED BY <2>2, <2>3 DEF Shape, NothingOverdue, WaitExact
<1>6. CASE OtherHandle
  <2>1. others' \in {0, 1} /\ refs' = refs + others' - others /\ loop # "poll"
    BY <1>6 DEF OtherHandle, Shape, UserCode
  <2>2. UNCHANGED <<timers, timeout, interval, now, clock, loop, min, wait, since,
                    interrupts, stopped>>
    BY <1>6 DEF OtherHandle, pollVars
  <2>3. RefsExact'
    BY <2>1, <2>2, CountTimers DEF RefsExact, Shape
  <2> QED BY <2>1, <2>2, <2>3 DEF Shape, NothingOverdue, WaitExact
<1> QED BY <1>3, <1>4, <1>5, <1>6 DEF User

(* The steps of the loop. *)
LEMMA LoopStep ==
    ASSUME IInv, Loop
    PROVE  IInv'
<1> USE DEF IInv
<1>1. ASSUME NEW from \in {"user", "after"}, EnterPoll(from)
      PROVE  IInv'
  <2>1. /\ UNCHANGED <<timers, timeout, interval, refs, others, now, clock, min,
                       interrupts, stopped>>
        /\ loop = from /\ loop' = "poll" /\ wait' = pd_timers_next /\ since' = clock
    BY <1>1 DEF EnterPoll, timerVars
  <2>2. \A t \in timers : now <= timeout[t]
    BY <2>1 DEF NothingOverdue
  <2>3. pd_timers_next \in -1 .. INT_MAX
    BY <2>2, NextIsExact, TimersAssumption
  <2>4. Shape'
    BY <2>1, <2>3, TimersAssumption DEF Shape, LoopStates
  <2>5. RefsExact' /\ NothingOverdue'
    BY <2>1, <2>2 DEF RefsExact, NothingOverdue
  <2>6. WaitExact'
    BY <2>1, <2>2, NextIsExact DEF WaitExact
  <2> QED BY <2>4, <2>5, <2>6
<1>2. CASE Run
  BY <1>1, <1>2 DEF Run
<1>3. CASE LoopExits
  BY <1>3 DEF LoopExits, timerVars, pollVars, Shape, LoopStates, RefsExact,
              NothingOverdue, WaitExact
<1>4. CASE PollReturns
  BY <1>4, TimersAssumption DEF PollReturns, timerVars, pollVars, Shape, LoopStates,
              RefsExact, NothingOverdue, WaitExact
<1>5. CASE PollInterrupted
  BY <1>5, TimersAssumption DEF PollInterrupted, timerVars, Shape, LoopStates, RefsExact,
              NothingOverdue, WaitExact
<1>6. CASE EventsEnd
  BY <1>6 DEF EventsEnd, timerVars, pollVars, Shape, LoopStates, RefsExact,
              NothingOverdue, WaitExact
<1>7. ASSUME NEW t \in Timers, Fire(t)
      PROVE  IInv'
  <2>1. t \in timers /\ Remove(t) /\ min' = t /\ loop' = "cb" /\ t # NULL
        /\ UNCHANGED <<interval, others, now, clock, wait, since, interrupts, stopped>>
    BY <1>7, TimersAssumption DEF Fire, heap_peek, pollVars
  <2>2. timers' = timers \ {t} /\ timeout' = timeout /\ RefsExact'
    BY <2>1, RemoveStep
  <2> QED BY <2>1, <2>2 DEF Shape, LoopStates, NothingOverdue, WaitExact
<1>8. CASE CallbackReturns
  <2>1. /\ min \in Timers /\ loop' = "timers" /\ min' = NULL /\ Restart(min)
        /\ UNCHANGED <<interval, others, now, clock, wait, since, interrupts, stopped>>
    BY <1>8 DEF CallbackReturns, Shape, pollVars
  <2>2. timers' \subseteq Timers /\ timeout' \in [Timers -> 0 .. W - 1] /\ RefsExact'
    <3>1. CASE interval[min] # 0 /\ min \notin timers
      <4>1. interval[min] \in Delays /\ Insert(min, interval[min])
        BY <2>1, <3>1 DEF Restart, Shape
      <4> QED BY <2>1, <3>1, <4>1, InsertStep
    <3>2. CASE ~(interval[min] # 0 /\ min \notin timers)
      BY <2>1, <3>2 DEF Restart, RefsExact, Shape
    <3> QED BY <3>1, <3>2
  <2> QED BY <2>1, <2>2 DEF Shape, LoopStates, NothingOverdue, WaitExact
<1>9. CASE TimersRunEnds
  <2>1. /\ loop' = "after" /\ loop = "timers" /\ \A t \in timers : timeout[t] > now
        /\ UNCHANGED <<timers, timeout, interval, refs, others, now, clock, min, wait, since,
                       interrupts, stopped>>
    BY <1>9 DEF TimersRunEnds, timerVars, pollVars
  <2>2. \A t \in timers : timeout[t] \in Int /\ now \in Int
    BY DEF Shape
  <2> QED BY <2>1, <2>2 DEF Shape, LoopStates, RefsExact, NothingOverdue, WaitExact
<1>10. CASE IterationEnds
  BY <1>1, <1>10 DEF IterationEnds
<1> QED BY <1>2, <1>3, <1>4, <1>5, <1>6, <1>7, <1>8, <1>9, <1>10 DEF Loop

(* IInv is an invariant. *)
LEMMA Invariance == Spec => []IInv
<1>1. Init => IInv
  <2> SUFFICES ASSUME Init PROVE IInv
    OBVIOUS
  <2>1. Shape
    BY TimersAssumption DEF Init, Shape, LoopStates
  <2>2. RefsExact
    BY FS_EmptySet DEF Init, RefsExact
  <2> QED BY <2>1, <2>2 DEF Init, IInv, NothingOverdue, WaitExact
<1>2. IInv /\ [Next]_vars => IInv'
  <2> SUFFICES ASSUME IInv, [Next]_vars PROVE IInv'
    OBVIOUS
  <2>1. CASE Tick
    BY <2>1, TimersAssumption DEF Tick, timerVars, pollVars, IInv, Shape, RefsExact,
       NothingOverdue, WaitExact
  <2>2. CASE UNCHANGED vars
    BY <2>2 DEF vars, timerVars, pollVars, IInv, Shape, RefsExact, NothingOverdue,
       WaitExact
  <2> QED BY <2>1, <2>2, UserStep, LoopStep DEF Next
<1> QED BY <1>1, <1>2, PTL DEF Spec
-----------------------------------------------------------------------------
(* Every variable keeps its shape: ctx->refs never goes below zero, ctx->now *)
(* never runs ahead of the clock, and no stored timeout wraps around.        *)
THEOREM TypeCorrect == Spec => []TypeOK
<1>1. IInv => TypeOK
  BY CountTimers DEF IInv, Shape, TypeOK, RefsExact
<1> QED BY <1>1, Invariance, PTL

(* ctx->refs is the number of active timers and other handles. *)
THEOREM RefsAreExact == Spec => []RefsExact
BY Invariance, PTL DEF IInv

(* A poll ends after the earliest timer by exactly the staleness of        *)
(* ctx->now, earlier only when its timeout is cut at INT_MAX.              *)
THEOREM PollsLateByStaleness == Spec => []PollLateByStaleness
<1>1. IInv => PollLateByStaleness
  <2> SUFFICES ASSUME IInv, loop = "poll", timers # {}
               PROVE  /\ wait \in 0 .. INT_MAX
                      /\ \A t \in timers : since + wait <= timeout[t] + Staleness
                      /\ wait < INT_MAX =>
                            \E t \in timers : since + wait = timeout[t] + Staleness
    BY DEF PollLateByStaleness
  <2>1. now \in Int /\ since \in Int /\ \A t \in timers : timeout[t] \in Int
    BY DEF IInv, Shape
  <2>2. /\ wait \in 0 .. INT_MAX
        /\ \A t \in timers : now + wait <= timeout[t]
        /\ wait < INT_MAX => \E t \in timers : now + wait = timeout[t]
    BY DEF IInv, WaitExact
  <2> QED BY <2>1, <2>2 DEF Staleness
<1> QED BY <1>1, Invariance, PTL
=============================================================================
