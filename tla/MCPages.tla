------------------------------ MODULE MCPages ------------------------------
(* The page of the Assistant for TLC: its form and drafts, the suggestions    *)
(* for its filters, and the panel of the managed stacks.  The three modules   *)
(* share no variable (what one needs of another is among its inputs), so in   *)
(* each behaviour one of them moves and the others rest at their start.       *)
EXTENDS MCAssistant, Catalog, StackPanel

ChosenStack == CHOOSE p \in Projects : TRUE   \* the other one may be adopted

VARIABLE moving \* the module that moves in this behaviour

MCInit ==
  /\ moving \in {"form", "catalog", "panel"} /\ Init /\ CatalogInit /\ PanelInit
  /\ moving # "catalog" => file.related
  /\ helper.adopted = {ChosenStack}

MCNext ==
  \/ moving = "form" /\ Next /\ UNCHANGED <<moving, catalogVars, panelVars>>
  \/ moving = "catalog" /\ CatalogNext /\ UNCHANGED <<moving, vars, panelVars>>
  \/ moving = "panel" /\ PanelNext /\ UNCHANGED <<moving, vars, catalogVars>>

MCSpec == MCInit /\ [][MCNext]_<<moving, vars, catalogVars, panelVars>>

\* Two servers: a refresh moves one of them to another city.
MCServers ==
  [r \in 0..1 |-> {[countries |-> {"de"}, cities |-> {IF r = 0 THEN "berlin" ELSE "york"}],
                   [countries |-> {"us"}, cities |-> {"york"}]}]
MCNarrows == [f \in {"countries", "cities"} |-> IF f = "countries" THEN {"cities"} ELSE {}]
MCObserved == [p \in Projects |-> 0]
=============================================================================
