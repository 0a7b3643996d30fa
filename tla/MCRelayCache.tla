---------------------------- MODULE MCRelayCache ----------------------------
EXTENDS RelayCache

CONSTANTS q1, q2, q3, q4, q5, q6

MCPayloads == {q1, q2, q3, q4, q5, q6}
=============================================================================
