------------------------------- MODULE Timers -------------------------------
(***************************************************************************)
(* Timers (src/timers.c) and the event loop that runs them (pd_io_run of   *)
(* src/sys/event_epoll.c; event_kqueue.c and event_iocp.c run the same     *)
(* steps in the same order).                                               *)
(*                                                                         *)
(* There are two times: clock, the monotonic clock that pd_now reads, and  *)
(* now, the copy in ctx->now that every timer computation uses and that    *)
(* only a return of the poll refreshes.  The heap of timers is the         *)
(* set of its members; peeking yields a member with the least timeout, of  *)
(* which there may be several.                                             *)
(***************************************************************************)
EXTENDS Integers, FiniteSets

CONSTANTS Timers,      \* the pd_timer_t objects
          Delays,      \* delays and intervals the user asks for
          W,           \* number of values of a uint64_t
          INT_MAX,     \* the longest poll
          MaxClock,    \* bound on the clock, it stands for any later time
          MaxSignals,  \* bound on the signals that interrupt a poll
          NULL

ASSUME TimersAssumption ==
    /\ INT_MAX \in Nat \ {0} /\ MaxClock \in Nat /\ MaxSignals \in Nat
    /\ W \in Nat /\ INT_MAX < W
    /\ Delays \subseteq 0 .. W - 1
    /\ \A d \in Delays : MaxClock + d < W
    /\ IsFiniteSet(Timers) /\ NULL \notin Timers

VARIABLES
    timers,              \* ctx->timers: the active timers
    timeout, interval,   \* fields of each timer
    refs,                \* ctx->refs
    others,              \* references held by handles that are no timers
    now, clock,
    loop,                \* where the loop thread is, see LoopStates
    min,                 \* the timer whose callback runs, or NULL
    wait,                \* the timeout of the poll, -1 for none
    since,               \* the clock when the poll began
    interrupts,          \* polls that ended with EINTR so far
    stopped              \* history: the user's last call was pd_timer_stop

timerVars == <<timers, timeout, interval, refs>>
pollVars == <<wait, since, interrupts>>
vars == <<timerVars, others, now, clock, loop, min, pollVars, stopped>>

(* "user": outside pd_io_run; "poll": at the loop condition or in the      *)
(* poll; "events": in the handlers of the events it returned; "timers": in *)
(* pd_timers_run; "cb": in a timer callback; "after": in                   *)
(* pd__tcp_pending_close or after_tick.                                    *)
LoopStates == {"user", "poll", "events", "timers", "cb", "after"}

UserCode == loop \in {"user", "events", "cb", "after"}

Init ==
    /\ timers = {} /\ refs = 0 /\ others = 0
    /\ timeout = [t \in Timers |-> 0] /\ interval = [t \in Timers |-> 0]
    /\ now = 0 /\ clock = 0
    /\ loop = "user" /\ min = NULL
    /\ wait = -1 /\ since = 0 /\ interrupts = 0
    /\ stopped = {}
-----------------------------------------------------------------------------
(* The heap and the arithmetic on it.                                      *)

heap_peek == {t \in timers : \A u \in timers : timeout[t] <= timeout[u]}

(* Mutant: a timeout that is too far away is not cut. *)
NextUncapped ==
    IF timers = {} THEN -1
    ELSE (timeout[CHOOSE t \in heap_peek : TRUE] - now) % W

pd_timers_next ==
    IF timers = {} THEN -1
    ELSE LET next == (timeout[CHOOSE t \in heap_peek : TRUE] - now) % W
         IN IF next >= INT_MAX THEN INT_MAX ELSE next

(* pd_timer_start on a timer that is not active. *)
Insert(t, delay) ==
    /\ timers' = timers \cup {t}
    /\ timeout' = [timeout EXCEPT ![t] = (now + delay) % W]
    /\ refs' = refs + 1

(* pd_timer_stop on a timer that is active. *)
Remove(t) ==
    /\ timers' = timers \ {t}
    /\ refs' = refs - 1
    /\ UNCHANGED timeout
-----------------------------------------------------------------------------
(* Calls the user makes.                                                   *)

Called(nowStopped) ==
    /\ UserCode
    /\ stopped' = nowStopped
    /\ UNCHANGED <<others, now, clock, loop, min, pollVars>>

(* Mutant: starting does not look whether the timer is active. *)
StartAgain(t, delay) ==
    /\ Called(stopped \ {t})
    /\ Insert(t, delay)
    /\ UNCHANGED interval

(* An active timer is left as it is. *)
pd_timer_start(t, delay) ==
    /\ t \notin timers
    /\ Called(stopped \ {t})
    /\ Insert(t, delay)
    /\ UNCHANGED interval

(* The interval changes even when the timer is active and start does       *)
(* nothing.                                                                *)
pd_timer_repeat(t, delay) ==
    /\ Called(stopped \ {t})
    /\ interval' = [interval EXCEPT ![t] = delay]
    /\ IF t \in timers THEN UNCHANGED <<timers, timeout, refs>> ELSE Insert(t, delay)

pd_timer_stop(t) ==
    /\ Called(stopped \cup {t})
    /\ IF t \in timers THEN Remove(t) ELSE UNCHANGED <<timers, timeout, refs>>
    /\ UNCHANGED interval

(* Another handle of the loop (a socket, a task) is opened or closed. *)
OtherHandle ==
    /\ UserCode
    /\ others' = 1 - others
    /\ refs' = refs + others' - others
    /\ UNCHANGED <<timers, timeout, interval, now, clock, loop, min, pollVars, stopped>>
-----------------------------------------------------------------------------
(* The loop.                                                               *)

Tick ==
    /\ clock < MaxClock
    /\ clock' = clock + 1
    /\ UNCHANGED <<timerVars, others, now, loop, min, pollVars, stopped>>

(* The timeout is computed and the loop goes to its condition. *)
EnterPoll(from) ==
    /\ loop = from /\ loop' = "poll"
    /\ wait' = pd_timers_next /\ since' = clock
    /\ UNCHANGED <<timerVars, others, now, clock, min, interrupts, stopped>>

Run == EnterPoll("user")

LoopExits ==
    /\ loop = "poll" /\ refs = 0
    /\ loop' = "user"
    /\ UNCHANGED <<timerVars, others, now, clock, min, pollVars, stopped>>

(* The poll returns: another handle has an event, or the time is over. *)
PollReturns ==
    /\ loop = "poll" /\ refs > 0
    /\ others > 0 \/ (wait # -1 /\ (clock >= since + wait \/ clock = MaxClock))
    /\ now' = clock
    /\ loop' = "events"
    /\ UNCHANGED <<timerVars, others, clock, min, pollVars, stopped>>

(* EINTR: the poll starts again, with the timeout it had. *)
PollInterrupted ==
    /\ loop = "poll" /\ refs > 0
    /\ interrupts < MaxSignals
    /\ interrupts' = interrupts + 1
    /\ since' = clock
    /\ UNCHANGED <<timerVars, others, now, clock, loop, min, wait, stopped>>

EventsEnd ==
    /\ loop = "events" /\ loop' = "timers"
    /\ UNCHANGED <<timerVars, others, now, clock, min, pollVars, stopped>>

(* pd_timers_run takes a due timer, stops it and calls it. *)
Fire(t) ==
    /\ loop = "timers"
    /\ t \in heap_peek /\ timeout[t] <= now
    /\ Remove(t)
    /\ min' = t /\ loop' = "cb"
    /\ UNCHANGED <<interval, others, now, clock, pollVars, stopped>>

(* Mutant: a repeating timer starts again without its interval. *)
RestartAtOnce(t) ==
    IF interval[t] # 0 /\ t \notin timers
    THEN Insert(t, 0) ELSE UNCHANGED <<timers, timeout, refs>>

(* A timer with an interval is started again, unless its callback did. *)
Restart(t) ==
    IF interval[t] # 0 /\ t \notin timers
    THEN Insert(t, interval[t]) ELSE UNCHANGED <<timers, timeout, refs>>

CallbackReturns ==
    /\ loop = "cb" /\ loop' = "timers"
    /\ Restart(min)
    /\ min' = NULL
    /\ UNCHANGED <<interval, others, now, clock, pollVars, stopped>>

(* Mutant: the run ends after the first due timer. *)
RunEndsEarly ==
    /\ loop = "timers" /\ loop' = "after"
    /\ UNCHANGED <<timerVars, others, now, clock, min, pollVars, stopped>>

TimersRunEnds ==
    /\ loop = "timers" /\ loop' = "after"
    /\ \A t \in timers : timeout[t] > now
    /\ UNCHANGED <<timerVars, others, now, clock, min, pollVars, stopped>>

IterationEnds == EnterPoll("after")

User == \/ \E t \in Timers, d \in Delays : pd_timer_start(t, d) \/ pd_timer_repeat(t, d)
        \/ \E t \in Timers : pd_timer_stop(t)
        \/ OtherHandle

Loop == \/ Run \/ LoopExits \/ PollReturns \/ PollInterrupted \/ EventsEnd
        \/ \E t \in Timers : Fire(t)
        \/ CallbackReturns \/ TimersRunEnds \/ IterationEnds

Next == User \/ Loop \/ Tick

(* The loop thread is scheduled, time passes and callbacks return.  The    *)
(* user is not obliged to call anything, and signals need not arrive.      *)
Progress == \/ LoopExits \/ PollReturns \/ EventsEnd
            \/ \E t \in Timers : Fire(t)
            \/ CallbackReturns \/ TimersRunEnds \/ IterationEnds

Spec == Init /\ [][Next]_vars

FairSpec == Spec /\ WF_vars(Progress) /\ WF_vars(Tick)
-----------------------------------------------------------------------------
(* Correctness.                                                            *)

(* Every variable has the shape the code gives it. *)
TypeOK ==
    /\ timers \subseteq Timers
    /\ timeout \in [Timers -> 0 .. W - 1] /\ interval \in [Timers -> Delays \cup {0}]
    /\ refs \in Nat /\ others \in {0, 1}
    /\ clock \in 0 .. MaxClock /\ now \in 0 .. clock /\ since \in 0 .. clock
    /\ loop \in LoopStates
    /\ min \in Timers \cup {NULL}
    /\ (min # NULL) <=> (loop = "cb")
    /\ wait \in -1 .. INT_MAX
    /\ interrupts \in 0 .. MaxSignals
    /\ stopped \subseteq Timers

(* ctx->refs counts the active timers and the other handles, although a    *)
(* timer is stopped by the user, by pd_timers_run before its callback, and *)
(* by the user again inside it: the loop ends when the last timer is gone  *)
(* and not before.                                                         *)
RefsExact == refs = Cardinality(timers) + others

(* How old ctx->now was when the poll began: the callbacks of the          *)
(* iteration and the polls that signals interrupted took that long.        *)
Staleness == since - now

(* The poll sleeps from the real clock for a time computed from ctx->now.  *)
(* So it ends after the earliest timer by the staleness of ctx->now, and   *)
(* this is all: it ends no later (pd_timers_run left nothing behind that   *)
(* is due, so that the unsigned difference in pd_timers_next cannot wrap   *)
(* around), and it never ends before that timer is due, to find nothing to *)
(* do, unless its timeout was cut at INT_MAX.                              *)
PollLateByStaleness ==
    loop = "poll" /\ timers # {} =>
        /\ wait \in 0 .. INT_MAX
        /\ \A t \in timers : since + wait <= timeout[t] + Staleness
        /\ wait < INT_MAX => \E t \in timers : since + wait = timeout[t] + Staleness

(* A timer that the user stopped stays stopped until the user starts it    *)
(* again, also when pd_timer_stop is called in its own callback.           *)
StopHolds == stopped \cap timers = {}

(* The user starts timers with delay 0 for ever: pd_timers_run, which goes *)
(* on as long as something is due, need not come to an end.                *)
AlwaysDue ==
    []<><<\E t \in Timers : pd_timer_start(t, 0) \/ pd_timer_repeat(t, 0)>>_vars

(* Every timer that is started fires, or is stopped. *)
TimerFires ==
    AlwaysDue \/ \A t \in Timers :
        (t \in timers /\ timeout[t] <= MaxClock /\ loop # "user") ~> (t \notin timers)

(* pd_timers_run comes to an end: a repeating timer that starts again in   *)
(* the same run is not due again in it.                                    *)
RunEnds == AlwaysDue \/ ((loop = "timers") ~> (loop = "poll"))
=============================================================================
