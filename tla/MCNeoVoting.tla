---------------------------- MODULE MCNeoVoting ----------------------------
EXTENDS NeoVoting

CONSTANTS owner, alice

MCAccounts == {owner, alice}

\* Keys 1 and 2 are on standby; 3 can register and win votes.
MCKeys == {1, 2, 3}
MCStandby == <<2, 1>>

\* Votes and the validators count drift with transfers (VotesMatchBalances);
\* this bounds the drift.
VoteBound == 2
VotesBounded == /\ \A k \in Keys : votes[k] \in -VoteBound .. VoteBound
                /\ \A i \in VoteSizes : vc[i] \in -VoteBound .. VoteBound
=============================================================================
