---------------------------- MODULE MCListWalks ----------------------------
EXTENDS ListWalks
MCContacts == 1..3
MCDeals == 4..5
MCMoments == 1..2
=============================================================================
