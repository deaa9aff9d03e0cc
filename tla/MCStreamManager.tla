-------------------------- MODULE MCStreamManager --------------------------
(* Instances of StreamManager for TLC.                                     *)
EXTENDS StreamManager, TLC

(* Subscriptions are alike, and so are feed objects.                       *)
StreamSymmetry == Permutations(Subs) \union Permutations(Feeds)
=============================================================================
