---------------------------- MODULE MCFleetHost ----------------------------
EXTENDS FleetHost

\* Rows are asked for again within a batch, within a game and in another game;
\* a batch has more new rows than a cache of two keeps.
SmallGames == << <<<<1, 2, 1>>, <<1, 3, 4>>>>, <<<<2, 3>>>>, <<>>, <<<<4, 1, 5, 4>>, <<1, 2>>>> >>

\* An earlier version of the solver has left one chunk.
OldChunks == {<<"shallow", 2>>}
=============================================================================
