---------------------------- MODULE MarkupEngine ----------------------------
(***************************************************************************)
(* The mark-up put on a net price (pricing/markup-engine.ts and the parts  *)
(* of pricing/markup.service.ts that prepare its input).                   *)
(*                                                                         *)
(* A rule has a scope, a record of optional conditions (Null: any), the    *)
(* membership tiers it is for ({}: all), a priority, a creation time and   *)
(* an amount.  Rules are those the service loaded: active and in force.    *)
(***************************************************************************)
EXTENDS FareOffer

CONSTANT Country       \* [airport code -> country] of the active airports; unknown ones are absent

\* Unknown for an airport the table does not have, and when the table cannot be read.
Domestic(from, to, located) ==
    IF located /\ {from, to} \subseteq DOMAIN Country THEN Country[from] = "VN" /\ Country[to] = "VN" ELSE Null

ScopeFields == {"channel", "airline", "cabin", "paxType", "from", "to", "domestic"}

MatchesRule(rule, input) ==
    /\ \A k \in ScopeFields : rule.scope[k] = Null \/ rule.scope[k] = input[k]
    /\ rule.tiers = {} \/ input.tier \in rule.tiers

\* Higher priority first, then the older rule.
Precedes(r, s) == r.priority > s.priority \/ (r.priority = s.priority /\ r.created <= s.created)

\* The rule that applies, Null if none does.
MatchedRule(rules, input) ==
    LET matching == {r \in rules : MatchesRule(r, input)}
    IN  IF matching = {} THEN Null ELSE CHOOSE r \in matching : \A s \in matching : Precedes(r, s)

\* Basis points rounded half up, cut at the maximum, then raised to the minimum.
MarkupAmount(rule, net) ==
    LET share == (net * rule.value + 5000) \div 10000
        cut   == IF rule.max # Null /\ share > rule.max THEN rule.max ELSE share
    IN  IF rule.type = "FIXED" THEN rule.value
        ELSE IF rule.min # Null /\ cut < rule.min THEN rule.min ELSE cut

SellPrice(rules, input, net) ==
    LET rule == MatchedRule(rules, input)
    IN  IF rule = Null THEN net ELSE net + MarkupAmount(rule, net)

FaultNoRoute(offer, fare, located) ==
    [channel |-> "B2C", airline |-> offer.airline, cabin |-> fare.name, paxType |-> "ADT",
     from |-> Null, to |-> Null, domestic |-> Null, tier |-> Null]
\* What a price shown in a search is marked up with: one adult, no tier, the
\* name of the fare as its cabin; located: whether the airports could be read.
ShownInput(offer, fare, located) ==
    LET from == offer.segs[1].from
        to   == offer.segs[Len(offer.segs)].to
    IN  [channel |-> "B2C", airline |-> offer.airline, cabin |-> fare.name, paxType |-> "ADT",
         from |-> from, to |-> to, domestic |-> Domestic(from, to, located), tier |-> Null]
=============================================================================
