--------------------------- MODULE MCBookingHold ---------------------------
(* The hold endpoint, and the hunts that hold seats by themselves.  A      *)
(* hunt's hold has no key, so the two share nothing but the outcome, and a *)
(* behaviour is about one of them, its focus.                              *)
EXTENDS BookingHold, HuntLifecycle, TLC

Alike == Permutations(Request) \cup Permutations(Worker)

VARIABLE focus

HoldInit == focus \in {"endpoint", "hunts"} /\ Init /\ HuntInit

HoldNext ==
    /\ UNCHANGED focus
    /\ \/ focus = "endpoint" /\ Next /\ UNCHANGED huntVars
       \/ focus = "hunts" /\ HuntNext /\ UNCHANGED vars

HoldSpec == HoldInit /\ [][HoldNext]_<<focus, vars, huntVars>>
=============================================================================
