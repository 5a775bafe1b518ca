---------------------------- MODULE SessionLease ----------------------------
(***************************************************************************)
(* What the Muadi session pool promises to its callers: a session is       *)
(* leased to one request at a time, and a lease ends with its holder.  A   *)
(* holder that dies, or cannot reach the database to give the session      *)
(* back, takes the session with it: the program has no other way to free   *)
(* it.                                                                     *)
(***************************************************************************)
CONSTANTS Session, Client, Nobody, Gone

VARIABLE owner  \* owner[s]: the client that holds s, Nobody or Gone

LeaseTypeOK == owner \in [Session -> Client \cup {Nobody, Gone}]

Init == owner = [s \in Session |-> Nobody]

Acquire(c, s) ==
  /\ owner[s] = Nobody
  /\ owner' = [owner EXCEPT ![s] = c]

Release(c, s) ==
  /\ owner[s] = c
  /\ owner' = [owner EXCEPT ![s] = Nobody]

Vanish(c, s) ==
  /\ owner[s] = c
  /\ owner' = [owner EXCEPT ![s] = Gone]

Next == \E c \in Client, s \in Session : Acquire(c, s) \/ Release(c, s) \/ Vanish(c, s)

Spec == Init /\ [][Next]_owner
=============================================================================
