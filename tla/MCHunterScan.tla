---------------------------- MODULE MCHunterScan ----------------------------
(* Answers worth telling apart; prices in hundreds of thousands of VND.     *)
EXTENDS HunterScan

Fare(price, seats, soldOut) == [price |-> price, seats |-> seats, soldOut |-> soldOut]
Offer(airline, number, fares) == [airline |-> airline, number |-> number, depart |-> 8, fares |-> fares]

Cheap == Offer("VJ", "VJ168", <<Fare(14, 2, FALSE), Fare(20, 9, FALSE)>>)
Steady == Offer("VN", "VN250", <<Fare(20, 9, FALSE)>>)
\* The cheapest fare has no seat left, or is closed though seats are reported.
Gone == Offer("VJ", "VJ168", <<Fare(12, 0, FALSE), Fare(15, 5, FALSE)>>)
Closed == Offer("VN", "VN250", <<Fare(12, 3, TRUE)>>)

MCAnswers == {<<>>, <<Closed, Cheap>>, <<Gone, Steady>>, <<Steady, Steady>>}

Hunt(auto, airlines, exact, last) ==
    [status |-> "HUNTING", target |-> 15, best |-> Null, auto |-> auto,
     airlines |-> airlines, exact |-> exact, first |-> 1, last |-> last]
MCHunts == {Hunt(FALSE, {}, TRUE, 3), Hunt(TRUE, {"VN"}, FALSE, 2), Hunt(FALSE, {}, FALSE, 0)}
MCTargets == {15, 20}
=============================================================================
