------------------------------- MODULE Poller -------------------------------
(***************************************************************************)
(* internal/imds and internal/daemon/provider/aws: the goroutine that      *)
(* polls the instance metadata service (IMDS) for the two Spot signals and *)
(* calls the daemon back.  The callback, Daemon's handleInterruption, runs *)
(* on this goroutine, so nothing is polled while it fans out.              *)
(*                                                                         *)
(* IMDS is external: any request may fail (timeout, refused token, bad     *)
(* body), and a signal it announces stays announced.                       *)
(***************************************************************************)
EXTENDS Naturals

Triggers == {"rebalance-recommendation", "interruption-notice"}
Rebalance == "rebalance-recommendation"
Notice == "interruption-notice"

VARIABLES
    posted,          \* the signals that IMDS announces
    token,           \* the cached session token: "fresh", or "none" worth using
    pc,              \* where Poller.Run is
    seenRebalance,   \* Run's local variable
    sig,             \* the signal being reported, or "none"
    delivered,       \* how often onSignal was called, by trigger (capped at 2)
    ctxDone          \* the daemon is shutting down

pollerVars == <<posted, token, pc, seenRebalance, sig, delivered, ctxDone>>

PollerTypeOK ==
    /\ posted \subseteq Triggers
    /\ token \in {"none", "fresh"}
    /\ pc \in {"wait", "rebalance", "action", "describe", "callback", "stopped"}
    /\ seenRebalance \in BOOLEAN
    /\ sig \in Triggers \cup {"none"}
    /\ delivered \in [Triggers -> 0..2]
    /\ ctxDone \in BOOLEAN
    /\ sig # "none" <=> pc \in {"describe", "callback"}

PollerInit ==
    /\ posted = {}
    /\ token = "none"
    /\ pc = "wait"
    /\ seenRebalance = FALSE
    /\ sig = "none"
    /\ delivered = [t \in Triggers |-> 0]
    /\ ctxDone = FALSE

-----------------------------------------------------------------------------
(* Client.get: a token is fetched when there is none or the cached one is   *)
(* about to expire, then the path is requested.                             *)

\* The request fails, at the token or after it.
GetFails == token' \in {token, "fresh"}

\* The request is answered: 200 when the signal is announced, 404 when not.
GetAnswers == token' = "fresh"

-----------------------------------------------------------------------------
(* Poller.Run                                                               *)

Tick ==
    /\ pc = "wait"
    /\ pc' = IF seenRebalance THEN "action" ELSE "rebalance"
    /\ UNCHANGED <<posted, token, seenRebalance, sig, delivered, ctxDone>>

Stop ==
    /\ pc = "wait"
    /\ ctxDone
    /\ pc' = "stopped"
    /\ UNCHANGED <<posted, token, seenRebalance, sig, delivered, ctxDone>>

\* Mutant: the signal is passed on without its trigger.
CheckRebalanceUnnamed ==
    /\ pc = "rebalance"
    /\ GetAnswers
    /\ seenRebalance' = (Rebalance \in posted)
    /\ pc' = IF Rebalance \in posted THEN "describe" ELSE "action"
    /\ UNCHANGED <<posted, sig, delivered, ctxDone>>

\* Mutant: the recommendation is not noted as seen.
CheckRebalanceUnseen ==
    /\ pc = "rebalance"
    /\ \/ /\ GetAnswers
          /\ Rebalance \in posted
          /\ sig' = Rebalance
          /\ pc' = "describe"
       \/ /\ GetFails \/ (GetAnswers /\ Rebalance \notin posted)
          /\ pc' = "action"
          /\ UNCHANGED sig
    /\ UNCHANGED <<posted, seenRebalance, delivered, ctxDone>>

\* Mutant: a failed check of the recommendation ends the round.
CheckRebalanceEndsRound ==
    /\ pc = "rebalance"
    /\ \/ /\ GetAnswers
          /\ Rebalance \in posted
          /\ seenRebalance' = TRUE
          /\ sig' = Rebalance
          /\ pc' = "describe"
       \/ /\ GetAnswers
          /\ Rebalance \notin posted
          /\ pc' = "action"
          /\ UNCHANGED <<seenRebalance, sig>>
       \/ /\ GetFails
          /\ pc' = "wait"
          /\ UNCHANGED <<seenRebalance, sig>>
    /\ UNCHANGED <<posted, delivered, ctxDone>>

\* Nothing about a rebalance recommendation, failure included, keeps Run from
\* looking for the notice in the same round.
CheckRebalance ==
    /\ pc = "rebalance"
    /\ \/ /\ GetAnswers
          /\ Rebalance \in posted
          /\ seenRebalance' = TRUE
          /\ sig' = Rebalance
          /\ pc' = "describe"
       \/ /\ GetFails \/ (GetAnswers /\ Rebalance \notin posted)
          /\ pc' = "action"
          /\ UNCHANGED <<seenRebalance, sig>>
    /\ UNCHANGED <<posted, delivered, ctxDone>>

ActionAnswered ==
    /\ pc = "action"
    /\ GetAnswers
    /\ IF Notice \in posted
       THEN pc' = "describe" /\ sig' = Notice
       ELSE pc' = "wait" /\ UNCHANGED sig
    /\ UNCHANGED <<posted, seenRebalance, delivered, ctxDone>>

ActionFails ==
    /\ pc = "action"
    /\ GetFails
    /\ pc' = "wait"
    /\ UNCHANGED <<posted, seenRebalance, sig, delivered, ctxDone>>

\* Mutant: onSignal is called only when the details could be fetched.
DescribeNeedsDetail ==
    /\ pc = "describe"
    /\ \/ GetFails /\ UNCHANGED delivered
       \/ /\ GetAnswers
          /\ delivered' = [delivered EXCEPT ![sig] = IF @ < 2 THEN @ + 1 ELSE @]
    /\ pc' = "callback"
    /\ UNCHANGED <<posted, seenRebalance, sig, ctxDone>>

\* Provider.baseDetail, best effort, and then onSignal.
Describe ==
    /\ pc = "describe"
    /\ GetFails \/ GetAnswers
    /\ delivered' = [delivered EXCEPT ![sig] = IF @ < 2 THEN @ + 1 ELSE @]
    /\ pc' = "callback"
    /\ UNCHANGED <<posted, seenRebalance, sig, ctxDone>>

\* handleInterruption returns.  After a notice, Run returns too.
CallbackReturns ==
    /\ pc = "callback"
    /\ pc' = IF sig = Notice THEN "stopped" ELSE "action"
    /\ sig' = "none"
    /\ UNCHANGED <<posted, token, seenRebalance, delivered, ctxDone>>

-----------------------------------------------------------------------------
(* The environment                                                          *)

Post(t) ==
    /\ t \notin posted
    /\ posted' = posted \cup {t}
    /\ UNCHANGED <<token, pc, seenRebalance, sig, delivered, ctxDone>>

\* The token comes within tokenRefreshSlop of its expiry and is not used again.
TokenAges ==
    /\ token = "fresh"
    /\ token' = "none"
    /\ UNCHANGED <<posted, pc, seenRebalance, sig, delivered, ctxDone>>

Shutdown ==
    /\ ~ctxDone
    /\ ctxDone' = TRUE
    /\ UNCHANGED <<posted, token, pc, seenRebalance, sig, delivered>>

RunStep ==
    \/ Tick \/ Stop \/ CheckRebalance \/ ActionAnswered \/ ActionFails
    \/ Describe \/ CallbackReturns

PollerNext ==
    \/ RunStep
    \/ \E t \in Triggers : Post(t)
    \/ TokenAges
    \/ Shutdown

PollerSpec == PollerInit /\ [][PollerNext]_pollerVars

-----------------------------------------------------------------------------

\* "Callbacks are edge-triggered: each callback fires at most once per
\* Poller.Run call", although Run checks again in every round.
FiresAtMostOnce == \A t \in Triggers : delivered[t] <= 1

\* A recommendation that Run has noted is reported, and not lost when the
\* details cannot be fetched.
SeenIsDelivered ==
    seenRebalance /\ pc # "describe" => delivered[Rebalance] = 1
=============================================================================
