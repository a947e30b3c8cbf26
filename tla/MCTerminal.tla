----------------------------- MODULE MCTerminal -----------------------------
(* Two stations, two verifiers besides the build's.                        *)
EXTENDS Terminal, TLC

Symmetric == Permutations(Stations) \union Permutations(Verifiers \ {Initial})
=============================================================================
