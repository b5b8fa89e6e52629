--------------------------- MODULE MCOverlayApply ---------------------------
EXTENDS OverlayApply, TLC
CONSTANTS s1, s2, d, e
MCStages == {s1, s2}
MCPaths == {d, e}
MCTorn == [s \in MCStages |-> <<"torn", s>>]
MCChange == s1 :> (d :> "opaque" @@ e :> "write") @@
            s2 :> (d :> "rmdir" @@ e :> "none")
=============================================================================
