--------------------------- MODULE MCSessionPool ---------------------------
(* Two sessions of two modes, or one and another that may be added. *)
EXTENDS SessionPool, TLC

CONSTANTS s1, s2

MCModes == <<"standard", "vm">>

First == Entry("active", "collect", "standard", "ok")
MCStarts == {s1 :> First @@ s2 :> e : e \in {
                Entry("active", "collect", "vm", "ok"),
                [First EXCEPT !.status = "absent", !.beat = ""]}}

=============================================================================
