------------------------------- MODULE MCDBFT -------------------------------
(***************************************************************************)
(* Four validators, f = 1, validator 1 faulty.  Validator 1 is the        *)
(* primary of view 0 at height 1 and validator 0 the primary of view 1.   *)
(***************************************************************************)
EXTENDS DBFT

CONSTANTS b1, b2, t1, MaxRecoveries, MaxChangeViews

MCBlocks == {b1, b2}
MCValid  == {b1}
MCTxs    == {t1}

\* The faulty validator is silent: a crashed primary.
ByzSilent == {}

\* The faulty primary never proposes; it only asks for recovery.
ByzAsksRecovery == {m \in OwnPayloads(1) : m.type = "RecoveryRequest"}

\* The faulty primary equivocates in view 0: it proposes both blocks and
\* signs a Commit for the first.
ByzEquivocate ==
    {m \in OwnPayloads(1) :
       /\ m.view = 0
       /\ \/ m.type = "PrepareRequest"
          \/ m.type = "Commit" /\ m.sig.block = b1}

\* Every RecoveryMessage is a snapshot of its sender's slots; the
\* exploration stops expanding a state once MaxRecoveries of them exist.
RecoveryBound ==
    Cardinality({m \in msgs : m.type = "RecoveryMessage"}) <= MaxRecoveries
\* No validator has moved past the last explored view.
ViewBound == \A n \in Honest : ctx[n].view <= MaxView
\* The exploration stops expanding a state once MaxChangeViews honest
\* ChangeView payloads have been broadcast.
ChangeViewBound ==
    Cardinality({m \in msgs : m.type = "ChangeView"}) <= MaxChangeViews
====
