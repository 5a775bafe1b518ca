--------------------------- MODULE MCAuthSessions ---------------------------
(* Two tabs of one browser.                                                *)
EXTENDS AuthSessions, TLC

CONSTANT browser
MCStores == {browser}
MCStoreOf == [t \in Tabs |-> browser]
Symmetry == Permutations(Tokens) \cup Permutations(Handlers) \cup Permutations(Calls)
=============================================================================
