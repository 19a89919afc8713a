----------------------------- MODULE MCLumpFeed -----------------------------
EXTENDS LumpFeed
=============================================================================
