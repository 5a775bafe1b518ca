---------------------------- MODULE SessionChain ----------------------------
(***************************************************************************)
(* What the refresh tokens promise: a sign-in starts a chain, the chain    *)
(* has one live end, which is handed over by rotation, and a chain that    *)
(* has ended never lives again.                                            *)
(***************************************************************************)
CONSTANT Chains

VARIABLE chain

States == {"none", "live", "rotating", "dead"}

ChainInit == chain = [c \in Chains |-> "none"]

Move(c, from, to) ==
    /\ chain[c] = from
    /\ chain' = [chain EXCEPT ![c] = to]

\* Any number of chains may end at once, as they do when a user is blocked.
EndSome ==
    \E S \in SUBSET {c \in Chains : chain[c] \in {"live", "rotating"}} :
        chain' = [c \in Chains |-> IF c \in S THEN "dead" ELSE chain[c]]

ChainNext ==
    \/ \E c \in Chains : \/ Move(c, "none", "live")
                         \/ Move(c, "live", "rotating")
                         \/ Move(c, "rotating", "live")
    \/ EndSome

ChainSpec == ChainInit /\ [][ChainNext]_chain
=============================================================================
