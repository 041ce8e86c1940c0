---------------------------- MODULE MCPushLimits ----------------------------
(* Instance of PushLimits: an address that is pushed to by hand, a rule and *)
(* a resend on one channel for one customer, and an alert.                  *)
EXTENDS PushLimits, TLC

CONSTANTS t1, t2, k1, ch1, cu1

MCKeys == {k1}
Ask(kind, ch, cu, mail) ==
    [kind |-> kind, key |-> k1, channel |-> ch, customer |-> cu, mail |-> mail]
MCRequests == {Ask("push", ch1, cu1, TRUE), Ask("resend", ch1, Nobody, TRUE),
               Ask("alert", Nobody, Nobody, FALSE)}
Limits(h, d) == [u \in Units |-> IF u = "hour" THEN h ELSE d]
MCChannelLimit == Limits(0, 1)
MCCustomerSetting == Limits(1, 0)
MCGlobalSetting == Limits(1, 2)
MCCustomerDefault == Limits(1, 1)
MCGlobalDefault == Limits(1, 2)
ThreadSymmetry == Permutations(Threads)

=============================================================================
