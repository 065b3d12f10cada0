----------------------------- MODULE MCTraining -----------------------------
EXTENDS Training
=============================================================================
