------------------------------- MODULE Watch -------------------------------
(***************************************************************************)
(* The daemon process as a whole: Daemon.Run starts the provider's         *)
(* goroutine, whose callback is handleInterruption, and serves requests    *)
(* until its context is done.  Poller and Daemon run side by side; they    *)
(* meet where the poller calls back, and where the process exits.          *)
(***************************************************************************)
EXTENDS Poller, Daemon

watchVars == <<pollerVars, vars>>

ASSUME SignalsAssumption == MaxSignals >= 2

WatchInit == PollerInit /\ DaemonInit

\* onSignal: the callback's first step is the latch.
CallsBack == up /\ Describe /\ Interrupt

\* Mutant: the fan-out is started with `go'.
ReturnsAtOnce == up /\ CallbackReturns /\ UNCHANGED vars

\* The callback returns to the poller when the fan-out is over.
Returns == up /\ fan.pc = "idle" /\ CallbackReturns /\ UNCHANGED vars

\* The steps of Poller.Run that the daemon does not notice.
Polls ==
    /\ up
    /\ Tick \/ Stop \/ CheckRebalance \/ ActionAnswered \/ ActionFails
    /\ UNCHANGED vars

Serves == ServeStep /\ UNCHANGED pollerVars

\* SIGTERM: the context is done, the listener is closed, Run returns nil and
\* the process exits with status 0, whatever its goroutines are doing.  The
\* unit restarts it on failure only.
Exits ==
    /\ ctxDone
    /\ ProcessEnds
    /\ UNCHANGED pollerVars

\* IMDS and the signal handler, as long as there is a process to notice.
Outside ==
    /\ up
    /\ (\E t \in Triggers : Post(t)) \/ TokenAges \/ Shutdown
    /\ UNCHANGED vars

WatchNext == CallsBack \/ Returns \/ Polls \/ Serves \/ Exits \/ Outside

WatchSpec == WatchInit /\ [][WatchNext]_watchVars

\* As in Poller and Daemon: goroutines run, and not every request for the
\* interruption notice fails.  That the fan-out returns is not assumed here.
WatchFairness ==
    /\ WF_watchVars(CallsBack \/ Returns \/ Polls)
    /\ SF_watchVars(up /\ ActionAnswered /\ UNCHANGED vars)
    /\ \A h \in Handlers : WF_watchVars(HandlerStep(h) /\ UNCHANGED pollerVars)
    /\ \A t \in Callers :
        WF_watchVars((CheckpointStep(t) \/ Commit(t)) /\ UNCHANGED pollerVars)
    /\ WF_watchVars(FanStep /\ UNCHANGED pollerVars)

FairWatchSpec == WatchSpec /\ WatchFairness

-----------------------------------------------------------------------------

\* The poller waits for the fan-out it has started: two signals never fan out
\* at the same time, and after the notice Run does not end before its own.
OneFanOut == fan.pc # "idle" => pc = "callback"

\* What the system is for: a job that is RUNNING when an interruption notice
\* is announced is checkpointed, or ends otherwise, although checks fail, a
\* rebalance fan-out is in progress and users pause and resume; unless the
\* daemon is stopped, or hung checkpoints hold every slot.  (A job that is
\* resumed after the notice was delivered is not covered: handleResume does
\* not look at the latch.)
NoticeSweeps ==
    \A id \in Ids :
        (Notice \in posted /\ delivered[Notice] = 0 /\ jobs[id].status = RUNNING)
            ~> \/ jobs[id].status # RUNNING
               \/ ctxDone
               \/ Cardinality({w \in Workers : Hung(w)}) = MaxConcurrentCheckpoints

\* An interruption notice reaches the daemon even if every rebalance check
\* fails, the details cannot be fetched and a rebalance fan-out is in progress
\* when it is announced; unless the daemon is stopped, or one checkpoint of
\* that fan-out hangs: the poller waits for all of them.
NoticeDelivered ==
    (Notice \in posted)
        ~> \/ delivered[Notice] > 0
           \/ ctxDone
           \/ \E w \in Workers : Hung(w)
=============================================================================
