----------------------------- MODULE MCSaiToken -----------------------------
EXTENDS SaiToken

CONSTANTS committee, alice, bob

MCHolders == {committee, alice, bob}

\* Minting by AddBalance is unbounded; this caps the supply.
SupplyBound == 6
SupplyBounded == supply = None \/ supply <= SupplyBound
=============================================================================
