----------------------------- MODULE MCPricing -----------------------------
(* Instances of Pricing for TLC: two venues of one owner with a court each. *)
EXTENDS Pricing, TLC

CONSTANTS c1, c2, v1, v2, o1

TwoVenues == c1 :> v1 @@ c2 :> v2
OneOwner == v1 :> o1 @@ v2 :> o1

\* An evening price on the first day, an early-bird price for all slots, and
\* one that only holds from the second day on.
Evening == [days |-> {0}, from |-> 1, to |-> 2, price |-> 301, priority |-> 1,
            advance |-> None, advancePrice |-> None, validFrom |-> None, validTo |-> 1]
EarlyBird == [days |-> {0, 1}, from |-> 0, to |-> 2, price |-> 200, priority |-> 1,
              advance |-> 2, advancePrice |-> 151, validFrom |-> None, validTo |-> None]
Season == [days |-> {0, 1}, from |-> 0, to |-> 1, price |-> 250, priority |-> 0,
           advance |-> 1, advancePrice |-> None, validFrom |-> 2, validTo |-> 2]
PriceLists == {Evening, EarlyBird, Season}

PricingMixes == {{"update"}, {"copy"}, {"quote"}}
ChangeSymmetry == Permutations(Process)
=============================================================================
