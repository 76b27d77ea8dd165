--------------------------- MODULE MCLayerManager ----------------------------
(* Instances of LayerManager for TLC. Clients and layer names are            *)
(* interchangeable: no action and no property tells two of them apart.       *)
EXTENDS LayerManager, TLC

Interchangeable == Permutations(Clients) \cup Permutations(Names)
==============================================================================
