---------------------------- MODULE MCAlgorithms ----------------------------
EXTENDS Algorithms
SomeBytes == {65, 128, 169, 192, 195, 224, 240}
SomeRows == {<<0, 0, 0>>, <<0, 0, 1>>}
=============================================================================
