--------------------------- MODULE MCHeadlessBoot ---------------------------
EXTENDS HeadlessBoot
=============================================================================
