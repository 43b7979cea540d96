------------------------------- MODULE MC_Paper -------------------------------
EXTENDS Paper

CONSTANTS d1, d2, d3, d4

MCSize  == (d1 :> 1) @@ (d2 :> 1) @@ (d3 :> 1) @@ (d4 :> 4)
MCBoxes == {<<>>, <<d1, d2, d3>>, <<d3, d4, d1>>,
            <<d2, d4, d1, d3>>}
==============================================================================
