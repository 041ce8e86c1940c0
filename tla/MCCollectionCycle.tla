-------------------------- MODULE MCCollectionCycle --------------------------
(* CollectionCycle on one page with three packages, and on two products    *)
(* that share a page.                                                      *)
EXTENDS CollectionCycle

\* One product, one page.
OneSource == <<"waf">>
OneUrls == [s \in {"waf"} |-> <<"u1">>]
OneUrl == [p \in 1..3 |-> "u1"]
OneChained == {<<"waf", "u1">>}

\* The last two packages of the page show the same day; the second one none.
Tied == <<1, 2, 2>>
Undated == <<1, 0, 3>>

\* Two products: the second one also lists a page of the first.  The page u2
\* was discovered and is not confirmed yet, so it has no chain.
TwoSources == <<"waf", "ips">>
TwoUrls == [s \in {"waf", "ips"} |-> IF s = "waf" THEN <<"u1", "u2">> ELSE <<"u1">>]
TwoUrl == [p \in 1..3 |-> IF p = 2 THEN "u2" ELSE "u1"]
TwoChained == {<<"waf", "u1">>, <<"ips", "u1">>}

\* Two packages of one page.
PairUrl == [p \in 1..2 |-> "u1"]
PairPub == <<1, 2>>
==============================================================================
