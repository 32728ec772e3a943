----------------------------- MODULE MCDdrRing -----------------------------
EXTENDS DdrRing
=============================================================================
