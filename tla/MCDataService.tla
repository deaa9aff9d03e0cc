--------------------------- MODULE MCDataService ---------------------------
(* Instances of DataService for TLC.                                       *)
EXTENDS DataService, TLC

(* WebSocket objects are alike, and so are requests.                       *)
PageSymmetry == Permutations(Sockets) \union Permutations(Calls)
=============================================================================
