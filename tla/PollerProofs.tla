---------------------------- MODULE PollerProofs ----------------------------
(***************************************************************************)
(* Poller.Run calls back at most once per signal and never drops the       *)
(* recommendation it has noted, proved for PollerSpec.  Poller has no      *)
(* constants; what the theorems add to the run is that they are about the  *)
(* poller alone, against any daemon.                                       *)
(***************************************************************************)
EXTENDS Poller, TLAPS

\* What delivered means at each place of Run.  The recommendation is delivered
\* when it was seen and is not on its way; Run looks for it only while it is
\* unseen.  Once the notice is delivered Run is in the callback, or over.
PollerInv ==
    /\ PollerTypeOK
    /\ pc = "rebalance" => ~seenRebalance
    /\ sig = Rebalance => seenRebalance
    /\ delivered[Rebalance] =
        IF seenRebalance /\ ~(pc = "describe" /\ sig = Rebalance) THEN 1 ELSE 0
    /\ delivered[Notice] <= 1
    /\ delivered[Notice] = 1 =>
        pc = "stopped" \/ (pc = "callback" /\ sig = Notice)

\* Run starts with nothing seen and nothing delivered.
LEMMA InitPollerInv == PollerInit => PollerInv
<1> SUFFICES ASSUME PollerInit
             PROVE  PollerInv
  OBVIOUS
<1>1. PollerTypeOK
  <2>1. seenRebalance \in BOOLEAN /\ ctxDone \in BOOLEAN
    BY DEF PollerInit
  <2>2. delivered \in [Triggers -> 0..2]
    BY DEF PollerInit
  <2> QED
    BY <2>1, <2>2 DEF PollerInit, PollerTypeOK
<1>2. ~seenRebalance /\ pc = "wait" /\ sig = "none"
  BY DEF PollerInit
<1>3. delivered[Rebalance] = 0 /\ delivered[Notice] = 0
  BY DEF PollerInit, Triggers, Rebalance, Notice
<1> QED
  BY <1>1, <1>2, <1>3 DEF PollerInv, Rebalance, Notice

\* Every step of Run and of IMDS keeps the inductive invariant.
LEMMA NextPollerInv == PollerInv /\ [PollerNext]_pollerVars => PollerInv'
<1> SUFFICES ASSUME PollerInv, [PollerNext]_pollerVars
             PROVE  PollerInv'
  OBVIOUS
<1> USE DEF PollerInv, PollerTypeOK, Triggers, Rebalance, Notice
<1>1. CASE Tick
  BY <1>1 DEF Tick
<1>2. CASE Stop
  BY <1>2 DEF Stop
<1>3. CASE CheckRebalance
  <2>1. CASE pc' = "describe"
    <3>1. /\ pc = "rebalance" /\ token' = "fresh" /\ seenRebalance'
          /\ seenRebalance' \in BOOLEAN
          /\ sig' = "rebalance-recommendation"
          /\ UNCHANGED <<posted, delivered, ctxDone>>
      BY <1>3, <2>1 DEF CheckRebalance, GetAnswers
    <3> QED
      BY <2>1, <3>1
  <2>2. CASE pc' # "describe"
    <3>1. /\ pc = "rebalance" /\ pc' = "action" /\ token' \in {token, "fresh"}
          /\ UNCHANGED <<posted, seenRebalance, sig, delivered, ctxDone>>
      BY <1>3, <2>2 DEF CheckRebalance, GetFails, GetAnswers
    <3> QED
      BY <3>1
  <2> QED
    BY <2>1, <2>2
<1>4. CASE ActionAnswered
  BY <1>4 DEF ActionAnswered, GetAnswers
<1>5. CASE ActionFails
  BY <1>5 DEF ActionFails, GetFails
<1>6. CASE Describe
  BY <1>6 DEF Describe, GetFails, GetAnswers
<1>7. CASE CallbackReturns
  BY <1>7 DEF CallbackReturns
<1>8. CASE \E t \in Triggers : Post(t)
  BY <1>8 DEF Post
<1>9. CASE TokenAges
  BY <1>9 DEF TokenAges
<1>10. CASE Shutdown
  BY <1>10 DEF Shutdown
<1>11. CASE UNCHANGED pollerVars
  BY <1>11 DEF pollerVars
<1> QED
  BY <1>1, <1>2, <1>3, <1>4, <1>5, <1>6, <1>7, <1>8, <1>9, <1>10, <1>11
     DEF PollerNext, RunStep

\* The three properties that the run checks follow from it.
LEMMA PollerInvImplies ==
    PollerInv => PollerTypeOK /\ FiresAtMostOnce /\ SeenIsDelivered
  BY DEF PollerInv, PollerTypeOK, FiresAtMostOnce, SeenIsDelivered, Triggers,
         Rebalance, Notice

\* The inductive invariant holds throughout Poller.Run.
THEOREM PollerInvariant == PollerSpec => []PollerInv
<1>1. PollerInit => PollerInv
  BY InitPollerInv
<1>2. PollerInv /\ [PollerNext]_pollerVars => PollerInv'
  BY NextPollerInv
<1> QED
  BY <1>1, <1>2, PTL DEF PollerSpec

\* The poller's variables keep their types, and a signal is held exactly while
\* it is described and reported.
THEOREM PollerTypeCorrect == PollerSpec => []PollerTypeOK
  BY PollerInvariant, PollerInvImplies, PTL

\* "Each callback fires at most once per Poller.Run call", in however many
\* rounds, whichever requests fail.
THEOREM PollerFiresAtMostOnce == PollerSpec => []FiresAtMostOnce
  BY PollerInvariant, PollerInvImplies, PTL

\* A recommendation that Run has noted was reported.
THEOREM PollerSeenIsDelivered == PollerSpec => []SeenIsDelivered
  BY PollerInvariant, PollerInvImplies, PTL
=============================================================================
