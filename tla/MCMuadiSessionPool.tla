------------------------ MODULE MCMuadiSessionPool ------------------------
(* Instances of the session pool for TLC.                                  *)
EXTENDS MuadiSessionPool, TLC

CONSTANTS s1, s2, a1, a2

\* Rows labelled after their account, as the single-account seed writes them.
OwnAccounts == s1 :> a1 @@ s2 :> a2
OwnRows == a1 :> s1 @@ a2 :> s2
BothRows == {s1, s2}

\* A pool row with a label of its own ("pool-01"), beside the row that a login
\* of its account will create.
SharedAccount == s1 :> a1 @@ s2 :> a1
CreatedRow == a1 :> s2
PoolRow == {s1}
=============================================================================
