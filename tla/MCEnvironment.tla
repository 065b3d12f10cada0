---------------------------- MODULE MCEnvironment ----------------------------
EXTENDS Environment

\* A cell, its six neighbors and one beyond: a line of four.
Flower == {<<2, 0>>, <<0, 0>>} \cup Neighbors(<<0, 0>>)

\* Each card with its like: no species is scored by another one's card.
Uniform == {[s \in Species |-> card] : card \in Cards}

Mixes == {{"salmon", "hawk", "fox"}, {"bear", "elk", "fox"}}

Seven == {<<0, 0>>} \cup Neighbors(<<0, 0>>)

Keystone(terrain, animal) == [terrain_a |-> terrain, terrain_b |-> None, wildlife |-> {animal}]
Dual(a, b, animals) == [terrain_a |-> a, terrain_b |-> b, wildlife |-> animals]

\* A keystone and two tiles that meet it, the river in two places.
Cluster ==
  {<< << <<0, 0>>, Keystone("forest", "bear"), 0 >>,
      << <<0, 1>>, Dual("forest", "river", {"bear", "fox"}), 5 >>,
      << <<1, 0>>, Dual("river", "prairie", {"fox"}), 4 >> >>}

\* A tile that may join habitats of two terrains, and a keystone.
Market ==
  {<< [tile |-> Dual("forest", "river", {"bear"}), wildlife |-> "bear"],
      [tile |-> Keystone("river", "fox"), wildlife |-> "fox"] >>}
=============================================================================
