---------------------------- MODULE MCBrowserFlows -----------------------------
(* BrowserFlows on a small instance. *)
EXTENDS BrowserFlows, TLC

Symmetry == Permutations(Browsers) \cup Permutations(Requests)
================================================================================
