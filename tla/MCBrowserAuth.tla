---------------------------- MODULE MCBrowserAuth ----------------------------
(* Instances of BrowserAuth: the owner is a daemon or a UI worker.          *)
EXTENDS BrowserAuth, TLC

CONSTANTS a1, a2, r1, r2

MCAttempts == {a1, a2}
MCRequests == {r1, r2}
MCOneRequest == {r1}
MCSymmetry == Permutations(MCAttempts) \union Permutations(MCRequests)
==============================================================================
