--------------------------- MODULE MCMenuCatalog ---------------------------
(* MenuCatalog on a small instance: a rule that demands a choice, and one    *)
(* that demands it by number; devices and options are interchangeable.       *)
EXTENDS MenuCatalog, TLC

SmallRules == {[required |-> TRUE, min |-> 0, max |-> 1], [required |-> FALSE, min |-> 1, max |-> 2]}
MenuSymmetry == Permutations(Staff) \cup Permutations(Options)

\* Once MaxSteps is reached nothing more is asked for or added: forms that can no
\* longer be sent are not filled in, lists for such forms are not loaded.
FormsCount ==
    steps = MaxSteps => (\A c \in Readers : ~dialog[c]) /\ (\A s \in Staff : lists[s] = {})
=============================================================================
