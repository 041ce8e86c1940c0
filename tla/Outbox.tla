------------------------------- MODULE Outbox -------------------------------
(***************************************************************************)
(* What a queue in front of the notifiers promises, whatever it is made    *)
(* of: it accepts items, tells the items it holds to places, as often as   *)
(* it has to, and settles or drops them for good.  Once settled an item is *)
(* never told again, and nothing is told that was not accepted.            *)
(***************************************************************************)
CONSTANTS Items, Places

VARIABLES
    box,    \* what became of each item
    told    \* history: the items told, with their places

Stages == {"absent", "held", "settled", "dropped"}
Held == {i \in Items : box[i] = "held"}
Becomes(S, stage) == box' = [i \in Items |-> IF i \in S THEN stage ELSE box[i]]

Init ==
    /\ box = [i \in Items |-> "absent"]
    /\ told = {}

Accept(i) == box[i] = "absent" /\ Becomes({i}, "held") /\ UNCHANGED told
Tell(S, p) == S \subseteq Held /\ told' = told \cup (S \X {p}) /\ UNCHANGED box
Settle(S) == S \subseteq Held /\ Becomes(S, "settled") /\ UNCHANGED told
Drop(S) == S \subseteq Held /\ Becomes(S, "dropped") /\ UNCHANGED told

Next ==
    \/ \E i \in Items : Accept(i)
    \/ \E S \in SUBSET Items :
          \/ \E p \in Places : Tell(S, p)
          \/ Settle(S)
          \/ Drop(S)

Spec == Init /\ [][Next]_<<box, told>>

=============================================================================
