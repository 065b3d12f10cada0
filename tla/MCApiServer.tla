---------------------------- MODULE MCApiServer ----------------------------
EXTENDS ApiServer

\* A turn is never made twice in a row: what is legal depends on the state.
NoRepeat(turns) == {a \in Actions : turns = <<>> \/ a # turns[Len(turns)]}
=============================================================================
