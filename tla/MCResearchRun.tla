---------------------------- MODULE MCResearchRun ----------------------------
EXTENDS ResearchRun
=============================================================================
