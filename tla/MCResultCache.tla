--------------------------- MODULE MCResultCache ---------------------------
(***************************************************************************)
(* ResultCache for TLC: workspace "A" steps through the windows 1, 2, 3    *)
(* and has a transform's output, 5; workspace "B" has the window 4.        *)
(***************************************************************************)
EXTENDS ResultCache, TLC

MCResults == 1..5
MCOwner == <<"A", "A", "A", "B", "A">>
MCBytes == <<2, 2, 2, 2, 1>>
MCKeys == {10, 20, 30, 40, 50}
MCBlob == <<{10}, {20}, {30}, {40}, {50}>>
MCNextWindow == <<2, 3, 0, 0, 0>>

\* Slots are interchangeable: no action or property names one.
SlotSymmetry == Permutations(Slots)
=============================================================================
