------------------------------- MODULE TimerFD -------------------------------
(***************************************************************************)
(* Timer and TimerFD: all timers of an engine share one timerfd.  The      *)
(* queue is a multimap ordered by absolute expiry time; the timerfd is set *)
(* to the time of its first entry.  Clients arm and disarm timers between  *)
(* events, in other handlers of the same epoll round (after the timerfd    *)
(* was reported readable), and from inside timer callbacks.                *)
(***************************************************************************)
EXTENDS Naturals, Sequences, FiniteSets

CONSTANTS
    Timers,
    Durations,  \* durations that timers are armed with
    MaxTime     \* bound: no timer is armed to expire later

ASSUME TimesNat == Durations \subseteq Nat /\ MaxTime \in Nat

None == [at |-> 0, timer |-> "none"]

VARIABLES
    clock,      \* the monotonic clock
    queue,      \* entries [at, timer] in the order of the multimap
    settime,    \* when the timerfd expires, 0 if it is disarmed or was read
    armed,      \* Timer::armed
    phase,      \* of TimerFD::handleEvents: idle, selected, callback
    now,        \* handleExpiredTimers' local variable
    current,    \* the entry whose callback is running
    due         \* history: when the client expects the timer, 0 for never

vars == <<clock, queue, settime, armed, phase, now, current, due>>

Init ==
    /\ clock = 1 /\ queue = <<>> /\ settime = 0
    /\ armed = [t \in Timers |-> FALSE]
    /\ phase = "idle" /\ now = 0 /\ current = None
    /\ due = [t \in Timers |-> 0]

-----------------------------------------------------------------------------
(* The queue.  An operator that changes it says what becomes of the timerfd.*)

State(q, fd) == [queue |-> q, fd |-> fd]

\* Where multimap::insert puts an entry: entries with an equal time stay before.
Position(q, e) ==
    CHOOSE k \in 1..(Len(q) + 1) :
        /\ \A i \in 1..(k - 1) : q[i].at <= e.at
        /\ \A i \in k..Len(q) : e.at < q[i].at

\* multimap::insert and multimap::erase
insert(q, i, e) == SubSeq(q, 1, i - 1) \o <<e>> \o SubSeq(q, i, Len(q))
erase(q, i) == SubSeq(q, 1, i - 1) \o SubSeq(q, i + 1, Len(q))

\* Timer::iterator
iterator(q, t) == CHOOSE i \in 1..Len(q) : q[i].timer = t

\* Mutation: the timerfd is only set for the first timer of an empty queue.
armIfEmpty(s, e) ==
    State(insert(s.queue, Position(s.queue, e), e),
          IF s.queue = <<>> THEN e.at ELSE s.fd)

\* TimerFD::arm
arm(s, e) ==
    LET i == Position(s.queue, e)
    IN State(insert(s.queue, i, e), IF i = 1 THEN e.at ELSE s.fd)

\* Mutation: the timerfd stays set for the timer that is gone.
disarmKeepsFD(s, t) ==
    LET q == erase(s.queue, iterator(s.queue, t))
    IN State(q, IF q = <<>> THEN 0 ELSE s.fd)

\* TimerFD::disarm
disarm(s, t) ==
    LET i == iterator(s.queue, t)
        q == erase(s.queue, i)
    IN State(q, IF q = <<>> THEN 0 ELSE IF i = 1 THEN q[1].at ELSE s.fd)

Apply(s) == queue' = s.queue /\ settime' = s.fd

-----------------------------------------------------------------------------
(* Client calls.                                                            *)

\* Mutation: an armed timer is not disarmed first.
TimerArmAgain(t, d) ==
    /\ clock + d <= MaxTime /\ Len(queue) < 4
    /\ Apply(arm(State(queue, settime), [at |-> clock + d, timer |-> t]))
    /\ armed' = [armed EXCEPT ![t] = TRUE]
    /\ due' = [due EXCEPT ![t] = clock + d]
    /\ UNCHANGED <<clock, phase, now, current>>

TimerArm(t, d) ==
    /\ clock + d <= MaxTime
    /\ LET s == State(queue, settime)
           cleared == IF armed[t] THEN disarm(s, t) ELSE s
       IN Apply(arm(cleared, [at |-> clock + d, timer |-> t]))
    /\ armed' = [armed EXCEPT ![t] = TRUE]
    /\ due' = [due EXCEPT ![t] = clock + d]
    /\ UNCHANGED <<clock, phase, now, current>>

\* Timer::disarm, also called by the destructor
TimerDisarm(t) ==
    /\ armed[t]
    /\ Apply(disarm(State(queue, settime), t))
    /\ armed' = [armed EXCEPT ![t] = FALSE]
    /\ due' = [due EXCEPT ![t] = 0]
    /\ UNCHANGED <<clock, phase, now, current>>

-----------------------------------------------------------------------------
(* The kernel and the event loop.                                           *)

Tick ==
    /\ clock < MaxTime
    /\ clock' = clock + 1
    /\ UNCHANGED <<queue, settime, armed, phase, now, current, due>>

\* timerExpired: the read finds an expiration.  Setting the timerfd forgets one
\* that was not read yet.
Expired == settime # 0 /\ settime <= clock

epollWait ==
    /\ phase = "idle" /\ Expired
    /\ phase' = "selected"
    /\ UNCHANGED <<clock, queue, settime, armed, now, current, due>>

\* The first entry leaves the queue, Timer clears its flag, its callback runs.
popAndExecuteFirstTimer ==
    /\ current' = Head(queue)
    /\ queue' = Tail(queue)
    /\ armed' = [armed EXCEPT ![Head(queue).timer] = FALSE]
    /\ due' = [due EXCEPT ![Head(queue).timer] = 0]
    /\ phase' = "callback"

handleEvents ==
    /\ phase = "selected"
    /\ \/ /\ ~Expired
          /\ phase' = "idle"
          /\ UNCHANGED <<queue, settime, armed, now, current, due>>
       \/ /\ Expired
          /\ settime' = 0
          /\ now' = clock
          /\ popAndExecuteFirstTimer
    /\ UNCHANGED clock

FirstExpired == queue # <<>> /\ Head(queue).at <= now

\* Mutation: the timerfd is not set again after the expired timers.
handleNextForgetsFD ==
    /\ phase = "callback"
    /\ \/ /\ FirstExpired
          /\ popAndExecuteFirstTimer
          /\ UNCHANGED <<settime, now>>
       \/ /\ ~FirstExpired
          /\ settime' = 0
          /\ phase' = "idle" /\ current' = None /\ now' = 0
          /\ UNCHANGED <<queue, armed, due>>
    /\ UNCHANGED clock

\* A callback returned: the rest of the loop in handleExpiredTimers.
handleExpiredTimers ==
    /\ phase = "callback"
    /\ \/ /\ FirstExpired
          /\ popAndExecuteFirstTimer
          /\ UNCHANGED <<settime, now>>
       \/ /\ ~FirstExpired
          /\ settime' = IF queue = <<>> THEN 0 ELSE Head(queue).at
          /\ phase' = "idle" /\ current' = None /\ now' = 0
          /\ UNCHANGED <<queue, armed, due>>
    /\ UNCHANGED clock

Next ==
    \/ \E t \in Timers : TimerDisarm(t) \/ \E d \in Durations : TimerArm(t, d)
    \/ Tick \/ epollWait \/ handleEvents \/ handleExpiredTimers

Spec == Init /\ [][Next]_vars

\* Time passes, and the application serves the engine's descriptor.
FairSpec ==
    /\ Spec
    /\ WF_vars(Tick) /\ WF_vars(epollWait) /\ WF_vars(handleEvents)
    /\ WF_vars(handleExpiredTimers)

-----------------------------------------------------------------------------
(* Properties.                                                              *)

\* The timerfd is set for the first timer whenever the loop waits, and not at
\* all without timers.  handleExpiredTimers relies on it: it executes the first
\* entry without looking at its time, or at whether there is one.
SetForFirst ==
    phase # "callback" => settime = IF queue = <<>> THEN 0 ELSE Head(queue).at

\* Timer::armed, and with it the iterator into the queue, is right at all times.
ArmedIffQueued ==
    \A t \in Timers :
        Cardinality({i \in 1..Len(queue) : queue[i].timer = t})
            = IF armed[t] THEN 1 ELSE 0

\* A callback runs for the timer's last arming, never early, never after a
\* disarm that came before it (not even one in the same epoll round or in
\* the callback of a timer that expired together with it), and timers do not
\* overtake each other.
ExpiresAsArmed ==
    [][queue # <<>> /\ popAndExecuteFirstTimer =>
        /\ due[current'.timer] = current'.at
        /\ current'.at <= clock
        /\ \A t \in Timers : due[t] # 0 => current'.at <= due[t]]_vars

\* Every timer expires, unless it is disarmed or armed again and again: the
\* timerfd is set whenever there are timers, also by what callbacks armed, and
\* a timer that others are armed together with is not passed over.
EveryTimerExpires ==
    \A t \in Timers :
        <>[][\A d \in Durations : ~TimerArm(t, d)]_vars
            => (due[t] # 0 ~> due[t] = 0)

=============================================================================
