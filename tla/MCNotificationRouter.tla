------------------------ MODULE MCNotificationRouter ------------------------
(* NotificationRouter with one package: a rule for everything that has     *)
(* quiet hours and a minimal interval; a rule for the package's chain that *)
(* collects for a digest.                                                  *)
EXTENDS NotificationRouter, TLC

CONSTANTS all, weekly

TheChains == [s \in Snaps |-> {"waf"}]
TheWants == [r \in Rules |-> IF r = weekly THEN {"waf"} ELSE {}]
ThePolicy == [r \in Rules |-> IF r = weekly THEN {"digest", "rollback"}
                              ELSE {"everything", "rollback", "hold", "space"}]
TheBound == [r \in Rules |-> Channels]

ChannelSymmetry == Permutations(Channels)
=============================================================================
