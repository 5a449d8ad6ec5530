----------------------------- MODULE WaitSignal -----------------------------
(***************************************************************************)
(* System::wait_signal(): coroutines that wait for a signal.  The signals  *)
(* that somebody waits for are in signalfd_mask; once the descriptor is    *)
(* set up, they are blocked and read from it by the event loop.  A signal  *)
(* that is not blocked does what it does by default: it ends the process.  *)
(*                                                                         *)
(* The descriptor is set up at the start of the event loop, if somebody    *)
(* waits for a signal by then.                                             *)
(***************************************************************************)
EXTENDS Naturals, FiniteSets

CONSTANTS
  Catchers,
  Signo,
  NoCatcher,
  MaxSignalWaits  \* bound of the calls of a coroutine

ASSUME WaitSignalAssumption ==
  IsFiniteSet(Catchers) /\ NoCatcher \notin Catchers \cup Signo /\ MaxSignalWaits \in Nat

VARIABLES
  loop,            \* the event loop: "before", "runs" or "ended"
  check_signalfd,  \* somebody has asked for a signal
  signal_fd,       \* the descriptor is set up
  signalfd_mask,
  blocked,         \* signals that the process blocks
  handler,         \* handler[s]: of signals[s]; "none" is an entry that is not active
  listeners,       \* listeners[s]: the coroutine that s resumes, or NoCatcher
  listener_num,    \* co_signal_listener_num
  signal_pending,  \* blocked signals that have come
  sig,             \* sig[c]: what c waits for, or NoCatcher
  signal_timed,    \* signal_timed[c]: c waits with a timeout
  signal_n,        \* signal_n[c]: number of calls
  killer,          \* the signal that has ended the process, or NoCatcher
  late,            \* it was let in by the end of a wait
  shared,          \* signals that two coroutines have waited for at a time
  lies             \* signals that a call has reported though it timed out

fd == <<check_signalfd, signal_fd, signalfd_mask, blocked, handler>>
signal_calls == <<listeners, listener_num, sig, signal_timed, signal_n>>
signalGhosts == <<late, shared, lies>>
signalVars == <<loop, fd, signal_calls, signal_pending, killer, signalGhosts>>

SignalInit ==
  /\ loop = "before" /\ check_signalfd = FALSE /\ signal_fd = FALSE
  /\ signalfd_mask = {} /\ blocked = {} /\ signal_pending = {}
  /\ handler = [s \in Signo |-> "none"]
  /\ listeners = [s \in Signo |-> NoCatcher] /\ listener_num = 0
  /\ sig = [c \in Catchers |-> NoCatcher] /\ signal_timed = [c \in Catchers |-> FALSE]
  /\ signal_n = [c \in Catchers |-> 0]
  /\ killer = NoCatcher /\ late = FALSE /\ shared = {} /\ lies = {}

Waiting == {c \in Catchers : sig[c] # NoCatcher}

-----------------------------------------------------------------------------
\* Faulty variant: removing leaves the signal blocked, with no handler.
swSignalfd_set_Null(s, h) ==
  /\ signalfd_mask' = signalfd_mask \cup {s} /\ handler' = [handler EXCEPT ![s] = h]
  /\ blocked' = IF signal_fd THEN signalfd_mask' ELSE blocked

\* swSignalfd_set(): the handler of a signal is added, or removed by NULL; NULL for an
\* entry that is not active adds one that has no handler.
swSignalfd_set(s, h) ==
  /\ IF h = "null" /\ handler[s] # "none"
       THEN signalfd_mask' = signalfd_mask \ {s} /\ handler' = [handler EXCEPT ![s] = "none"]
       ELSE signalfd_mask' = signalfd_mask \cup {s} /\ handler' = [handler EXCEPT ![s] = h]
  /\ blocked' = IF signal_fd THEN signalfd_mask' ELSE blocked

\* php_swoole_event_wait(): the loop starts, and sets the descriptor up (swSignalfd_setup()).
event_wait ==
  /\ killer = NoCatcher /\ loop = "before"
  /\ loop' = "runs"
  /\ signal_fd' = check_signalfd
  /\ blocked' = IF check_signalfd THEN blocked \cup signalfd_mask ELSE blocked
  /\ UNCHANGED <<check_signalfd, signalfd_mask, handler, signal_calls, signal_pending, killer,
                 signalGhosts>>

\* swReactor_empty(): the loop ends when nobody waits and no timer is left.
event_exit ==
  /\ killer = NoCatcher /\ loop = "runs"
  /\ listener_num = 0 /\ \A c \in Waiting : ~signal_timed[c]
  /\ loop' = "ended"
  /\ UNCHANGED <<fd, signal_calls, signal_pending, killer, signalGhosts>>

-----------------------------------------------------------------------------
\* wait_signal(), until the coroutine yields.
wait_signal(c, s, t) ==
  /\ killer = NoCatcher /\ loop # "ended" /\ sig[c] = NoCatcher /\ signal_n[c] < MaxSignalWaits
  /\ listeners' = [listeners EXCEPT ![s] = c]
  /\ check_signalfd' = TRUE
  /\ swSignalfd_set(s, "listener")
  /\ listener_num' = listener_num + 1
  /\ sig' = [sig EXCEPT ![c] = s] /\ signal_timed' = [signal_timed EXCEPT ![c] = t]
  /\ signal_n' = [signal_n EXCEPT ![c] = @ + 1]
  /\ shared' = IF \E d \in Catchers : sig[d] = s THEN shared \cup {s} ELSE shared
  /\ UNCHANGED <<loop, signal_fd, signal_pending, killer, late, lies>>

\* The rest of wait_signal(): after the yield, which the signal or the timer has ended.  A
\* pending signal that is not blocked any more ends the process.
wait_signal_returns(c, came) ==
  LET s == sig[c] IN
  /\ swSignalfd_set(s, "null")
  /\ listener_num' = listener_num - 1
  /\ listeners' = [listeners EXCEPT ![s] = NoCatcher]
  /\ sig' = [sig EXCEPT ![c] = NoCatcher]
  /\ lies' = IF ~came /\ listeners[s] = NoCatcher THEN lies \cup {s} ELSE lies
  /\ IF s \in signal_pending' \ blocked'
       THEN killer' = s /\ late' = TRUE
       ELSE UNCHANGED <<killer, late>>
  /\ UNCHANGED <<loop, check_signalfd, signal_fd, signal_timed, signal_n, shared>>

\* The timer of a call, which the event loop runs.
signal_timeout(c) ==
  /\ killer = NoCatcher /\ loop = "runs" /\ sig[c] # NoCatcher /\ signal_timed[c]
  /\ UNCHANGED signal_pending
  /\ wait_signal_returns(c, FALSE)

-----------------------------------------------------------------------------
\* Somebody sends a signal that a coroutine waits for.
kill(s) ==
  /\ killer = NoCatcher /\ loop # "ended" /\ \E c \in Catchers : sig[c] = s
  /\ IF s \in blocked
       THEN signal_pending' = signal_pending \cup {s} /\ UNCHANGED killer
       ELSE killer' = s /\ UNCHANGED signal_pending
  /\ UNCHANGED <<loop, fd, signal_calls, signalGhosts>>

\* swSignalfd_onSignal(), and the handler that wait_signal() has set.
onSignal(s) ==
  /\ killer = NoCatcher /\ loop = "runs" /\ signal_fd /\ s \in signal_pending
  /\ signal_pending' = signal_pending \ {s}
  /\ IF handler[s] = "listener" /\ listeners[s] # NoCatcher
       THEN wait_signal_returns(listeners[s], TRUE)
       ELSE UNCHANGED <<loop, fd, signal_calls, killer, signalGhosts>>

SignalNext ==
  \/ event_wait \/ event_exit
  \/ \E c \in Catchers :
       signal_timeout(c) \/ \E s \in Signo, t \in BOOLEAN : wait_signal(c, s, t)
  \/ \E s \in Signo : kill(s) \/ onSignal(s)

SignalSpec == SignalInit /\ [][SignalNext]_signalVars

\* The event loop starts, reads the descriptor, and runs timers.
SignalFairness ==
  /\ WF_signalVars(event_wait)
  /\ \A s \in Signo : WF_signalVars(onSignal(s))
  /\ \A c \in Catchers : WF_signalVars(signal_timeout(c))

FairSignal == SignalSpec /\ SignalFairness

-----------------------------------------------------------------------------
\* Every variable has its type.
SignalTypeOK ==
  /\ loop \in {"before", "runs", "ended"}
  /\ check_signalfd \in BOOLEAN /\ signal_fd \in BOOLEAN
  /\ signalfd_mask \subseteq Signo /\ blocked \subseteq Signo /\ signal_pending \subseteq Signo
  /\ handler \in [Signo -> {"none", "listener", "null"}]
  /\ listeners \in [Signo -> Catchers \cup {NoCatcher}]
  /\ listener_num \in 0..Cardinality(Catchers)
  /\ sig \in [Catchers -> Signo \cup {NoCatcher}] /\ signal_timed \in [Catchers -> BOOLEAN]
  /\ signal_n \in [Catchers -> 0..MaxSignalWaits]

\* The event loop does not end under a coroutine that waits for a signal.
NotLeftBehind == loop = "ended" => Waiting = {}

\* As long as one coroutine at a time waits for a signal, it is the one that the signal
\* resumes, the mask holds what is waited for and nothing else, and a call that timed out
\* does not report the signal.
SoleListener ==
  \A s \in Signo \ shared :
    /\ s \notin lies
    /\ handler[s] = (IF listeners[s] # NoCatcher THEN "listener" ELSE "none")
    /\ s \in signalfd_mask <=> listeners[s] # NoCatcher
    /\ \A c \in Catchers : listeners[s] = c <=> sig[c] = s

\* A signal that one coroutine waits for ends the process only when the loop started
\* without the descriptor, or has not started, or when the wait times out as it comes.
CaughtWhenArmed == killer \notin shared \cup {NoCatcher} => ~signal_fd \/ late

Called(c) == sig[c] \in signal_pending \ shared
Answered(c) == sig[c] = NoCatcher \/ sig[c] \in shared \/ killer # NoCatcher

\* A signal that has come resumes the coroutine that waits for it, unless another ends
\* the process.
Delivered == \A c \in Catchers : Called(c) ~> Answered(c)

\* The loop does not end under a coroutine that waits for a signal.  As long as one at a time
\* waits for it, the signal resumes that one and the mask holds what is waited for; and a
\* signal that is waited for does not end the process once the descriptor is set up, unless
\* the wait times out as it comes (coroutine/system.cc, os/signal.cc).
SignalsReported ==
  SignalTypeOK /\ NotLeftBehind /\ SoleListener /\ CaughtWhenArmed

\* A signal that a coroutine waits for does not end the process once the event loop runs.
\* Refuted: the code does otherwise (README.md, Disagreements).
SignalCaught == loop = "runs" => killer = NoCatcher

\* A call that times out does not report the signal.
\* Refuted: the code does otherwise (README.md, Disagreements).
TimeoutIsFalse == lies = {}
=============================================================================
