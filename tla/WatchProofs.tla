---------------------------- MODULE WatchProofs ----------------------------
(***************************************************************************)
(* The daemon process as a whole, for any number of connections, jobs and  *)
(* slots: the poller alone does what Poller says, the daemon alone does    *)
(* what Daemon says, and the two meet in one fan-out at a time.            *)
(***************************************************************************)
EXTENDS Watch, DaemonProofs, PollerProofs, TLAPS

\* The process in one step is a poller in one step, whatever the daemon does.
LEMMA WatchStepPolls == [WatchNext]_watchVars => [PollerNext]_pollerVars
<1> SUFFICES ASSUME [WatchNext]_watchVars
             PROVE  [PollerNext]_pollerVars
  OBVIOUS
<1>1. CASE CallsBack
  BY <1>1 DEF CallsBack, PollerNext, RunStep
<1>2. CASE Returns
  BY <1>2 DEF Returns, PollerNext, RunStep
<1>3. CASE Polls
  BY <1>3 DEF Polls, PollerNext, RunStep
<1>4. CASE Serves \/ Exits
  BY <1>4 DEF Serves, Exits
<1>5. CASE Outside
  BY <1>5 DEF Outside, PollerNext
<1>6. CASE UNCHANGED watchVars
  BY <1>6 DEF watchVars
<1>7. QED
  BY <1>1, <1>2, <1>3, <1>4, <1>5, <1>6 DEF WatchNext

\* The poller inside the process implements the poller's specification:
\* requests, fan-outs and the end of the process do not disturb it.
THEOREM WatchIsPoller == WatchSpec => PollerSpec
<1>1. WatchInit => PollerInit
  BY DEF WatchInit
<1>2. [WatchNext]_watchVars => [PollerNext]_pollerVars
  BY WatchStepPolls
<1>3. QED
  BY <1>1, <1>2, PTL DEF WatchSpec, PollerSpec

\* Where no fan-out is in progress, no request, worker or exit begins one.
LEMMA ServeKeepsIdle ==
    ASSUME DaemonInv, ServeStep \/ ProcessEnds, fan.pc = "idle"
    PROVE  fan'.pc = "idle"
<1>1. CASE \E t \in Callers : \E r : GoesTo(t, r)
  BY <1>1 DEF GoesTo
<1>2. CASE FanList
  BY <1>2 DEF FanList
<1>3. CASE FanSpawn
  BY <1>3, FanSpawnInv
<1>4. CASE Aside
  BY <1>4, AsideInv
<1>5. CASE ProcessEnds
  BY <1>5 DEF ProcessEnds
<1>6. QED
  BY <1>1, <1>2, <1>3, <1>4, <1>5, ServeKinds, ActsSteps

\* The daemon's part of the invariant, the poller's, and where they meet.  The
\* signals that the daemon has got are those that the poller has delivered, so
\* the bound on signals never keeps the poller from calling back.
WatchInv ==
    /\ DaemonInv
    /\ PollerInv
    /\ OneFanOut
    /\ signals = delivered[Rebalance] + delivered[Notice]

\* A step of the process is a step of the daemon or none: the poller calls
\* back only when no fan-out is in progress.
LEMMA WatchStepServes ==
    ASSUME WatchInv, [WatchNext]_watchVars
    PROVE  [AnyStep]_vars
<1>1. CASE CallsBack
  BY <1>1 DEF CallsBack, Describe, AnyStep, WatchInv, OneFanOut
<1>2. CASE Returns \/ Polls \/ Outside
  BY <1>2 DEF Returns, Polls, Outside
<1>3. CASE Serves \/ Exits
  BY <1>3 DEF Serves, Exits, AnyStep
<1>4. CASE UNCHANGED watchVars
  BY <1>4 DEF watchVars
<1>5. QED
  BY <1>1, <1>2, <1>3, <1>4 DEF WatchNext

\* A fan-out in progress keeps the poller in its callback.
LEMMA WatchStepOneFanOut ==
    ASSUME WatchInv, [WatchNext]_watchVars
    PROVE  OneFanOut'
<1>1. CASE CallsBack
  BY <1>1 DEF CallsBack, Describe, OneFanOut
<1>2. CASE Returns
  BY <1>2 DEF Returns, vars, daemonVars, OneFanOut
<1>3. CASE Polls
  <2>1. pc # "callback" /\ fan' = fan
    BY <1>3 DEF Polls, Tick, Stop, CheckRebalance, ActionAnswered, ActionFails,
                vars, daemonVars
  <2>2. QED
    BY <2>1 DEF WatchInv, OneFanOut
<1>4. CASE Serves \/ Exits
  <2>1. pc' = pc
    BY <1>4 DEF Serves, Exits, pollerVars
  <2>2. fan.pc = "idle" => fan'.pc = "idle"
    BY <1>4, ServeKeepsIdle DEF Serves, Exits, WatchInv
  <2>3. QED
    BY <2>1, <2>2 DEF WatchInv, OneFanOut
<1>5. CASE Outside
  <2>1. pc' = pc /\ fan' = fan
    BY <1>5 DEF Outside, Post, TokenAges, Shutdown, vars, daemonVars
  <2>2. QED
    BY <2>1 DEF WatchInv, OneFanOut
<1>6. CASE UNCHANGED watchVars
  BY <1>6 DEF watchVars, pollerVars, vars, daemonVars, WatchInv, OneFanOut
<1>7. QED
  BY <1>1, <1>2, <1>3, <1>4, <1>5, <1>6 DEF WatchNext

\* Only the callback counts a signal, on both sides.
LEMMA WatchStepSignals ==
    ASSUME WatchInv, [WatchNext]_watchVars
    PROVE  signals' = delivered'[Rebalance] + delivered'[Notice]
<1>1. CASE CallsBack
  <2>1. /\ pc = "describe"
        /\ delivered' = [delivered EXCEPT ![sig] = IF @ < 2 THEN @ + 1 ELSE @]
        /\ signals' = signals + 1
    BY <1>1 DEF CallsBack, Describe, Interrupt
  <2>2. /\ delivered \in [Triggers -> 0..2]
        /\ sig \in {Rebalance, Notice}
        /\ Rebalance # Notice /\ Rebalance \in Triggers /\ Notice \in Triggers
        /\ delivered[sig] = 0
    BY <2>1 DEF WatchInv, PollerInv, PollerTypeOK, Triggers, Rebalance, Notice
  <2>3. delivered' = [delivered EXCEPT ![sig] = 1]
    BY <2>1, <2>2
  <2>4. QED
    BY <2>1, <2>2, <2>3 DEF WatchInv
<1>2. CASE Returns \/ Polls \/ Outside
  <2>1. delivered' = delivered /\ signals' = signals
    BY <1>2 DEF Returns, Polls, Outside, CallbackReturns, Tick, Stop, CheckRebalance,
                ActionAnswered, ActionFails, Post, TokenAges, Shutdown, vars, daemonVars
  <2>2. QED
    BY <2>1 DEF WatchInv
<1>3. CASE Serves \/ Exits
  <2>1. delivered' = delivered
    BY <1>3 DEF Serves, Exits, pollerVars
  <2>2. signals' = signals
    <3>1. CASE ProcessEnds
      BY <3>1 DEF ProcessEnds
    <3>2. CASE ServeStep
      BY <3>2, ServeKinds, ActsSteps
         DEF WatchInv, GoesTo, FanList, FanSpawn, Aside, FanDone, NotifyReturns,
             ProcessExit, ReportLost, DaemonStart, daemonVars
    <3>3. QED
      BY <1>3, <3>1, <3>2 DEF Serves, Exits
  <2>3. QED
    BY <2>1, <2>2 DEF WatchInv
<1>4. CASE UNCHANGED watchVars
  BY <1>4 DEF watchVars, pollerVars, vars, daemonVars, WatchInv
<1>5. QED
  BY <1>1, <1>2, <1>3, <1>4 DEF WatchNext

\* Every step of the process keeps the invariant.
LEMMA NextWatchInv ==
    ASSUME WatchInv, [WatchNext]_watchVars
    PROVE  WatchInv'
<1>1. DaemonInv'
  BY WatchStepServes, AnyStepInv DEF WatchInv
<1>2. PollerInv'
  BY WatchStepPolls, NextPollerInv DEF WatchInv
<1>3. QED
  BY <1>1, <1>2, WatchStepOneFanOut, WatchStepSignals DEF WatchInv

\* It holds when Run has just started the provider's goroutine.
LEMMA InitWatchInv == WatchInit => WatchInv
<1> SUFFICES ASSUME WatchInit PROVE WatchInv
  OBVIOUS
<1>1. DaemonInv /\ PollerInv
  BY InitDaemonInv, InitPollerInv DEF WatchInit
<1>2. signals = 0 /\ fan.pc = "idle"
  BY DEF WatchInit, DaemonInit
<1>3. delivered[Rebalance] = 0 /\ delivered[Notice] = 0
  BY DEF WatchInit, PollerInit, Triggers, Rebalance, Notice
<1>4. QED
  BY <1>1, <1>2, <1>3 DEF WatchInv, OneFanOut

\* The invariant holds throughout the life of the process.
THEOREM WatchInvariant == WatchSpec => []WatchInv
<1>1. WatchInit => WatchInv
  BY InitWatchInv
<1>2. WatchInv /\ [WatchNext]_watchVars => WatchInv'
  BY NextWatchInv
<1>3. QED
  BY <1>1, <1>2, PTL DEF WatchSpec

\* Two signals never fan out at the same time: the callback runs on the
\* poller's goroutine, whatever requests, exits and failures come in between.
THEOREM WatchOneFanOut == WatchSpec => []OneFanOut
<1>1. WatchInv => OneFanOut
  BY DEF WatchInv
<1>2. QED
  BY <1>1, WatchInvariant, PTL

\* A signal that the poller is about to report is within the bound on signals:
\* the bound of the model takes no callback away.
THEOREM WatchSignalsFit == WatchSpec => [](pc = "describe" => signals < MaxSignals)
<1>1. WatchInv => (pc = "describe" => signals < MaxSignals)
  <2> SUFFICES ASSUME WatchInv, pc = "describe" PROVE signals < MaxSignals
    OBVIOUS
  <2>1. /\ delivered[Rebalance] \in 0..1
        /\ delivered[Notice] = 0
    BY DEF WatchInv, PollerInv, PollerTypeOK, Triggers, Rebalance, Notice
  <2>2. QED
    BY <2>1, SignalsAssumption, BoundsAssumption DEF WatchInv
<1>2. QED
  BY <1>1, WatchInvariant, PTL

\* The semaphore of the fan-out holds over both signals of the poller.
THEOREM WatchWorkersBounded == WatchSpec => []WorkersBounded
<1>1. WatchInit => WorkersBounded
  BY InitBounded DEF WatchInit
<1>2. WatchInv /\ WorkersBounded /\ [WatchNext]_watchVars => WorkersBounded'
  BY WatchStepServes, AnyStepBounded DEF WatchInv
<1>3. QED
  BY <1>1, <1>2, WatchInvariant, PTL DEF WatchSpec

\* The poller's own guarantees hold inside the process: each callback fires at
\* most once, and a recommendation that was seen was reported.
THEOREM WatchPollerGuarantees ==
    WatchSpec => [](PollerTypeOK /\ FiresAtMostOnce /\ SeenIsDelivered)
<1>1. WatchInv => PollerTypeOK /\ FiresAtMostOnce /\ SeenIsDelivered
  BY PollerInvImplies DEF WatchInv
<1>2. QED
  BY <1>1, WatchInvariant, PTL

\* The process, too, uses the database through the store's calls only.
THEOREM WatchUsesStore == WatchSpec => UsesStore
<1>1. WatchInit => Init
  BY DEF WatchInit, DaemonInit
<1>2. WatchInv /\ [WatchNext]_watchVars => [Next]_storeVars
  BY WatchStepServes, AnyStepUsesStore DEF WatchInv
<1>3. QED
  BY <1>1, <1>2, WatchInvariant, PTL DEF WatchSpec, UsesStore, Spec
=============================================================================
