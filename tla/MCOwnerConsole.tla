--------------------------- MODULE MCOwnerConsole ---------------------------
(***************************************************************************)
(* Instances for TLC of the owner's page, away from the linked device      *)
(* (OwnerConsole) and on the computer of its desktop app (LocalBridge).    *)
(***************************************************************************)
EXTENDS LocalBridge

AScene(clicks, n, m, B) ==
    [clicks |-> clicks, home |-> FALSE, reset |-> FALSE,
     events |-> n, strikes |-> m, broadcasts |-> B]
AtHome(clicks, n, m, B) == [AScene(clicks, n, m, B) EXCEPT !.home = TRUE]
One == {CHOOSE b \in Broadcasts : TRUE}

\* What happens to the device alone, with a failure, and while the owner saves
\* settings or removes it; beside the app each errand at it, the switch and the
\* one-time link.
MCScenes ==
    {AScene({}, 2, 0, Broadcasts), AScene({}, 1, 1, Broadcasts),
     AScene({"save"}, 1, 0, One), AScene({"save"}, 0, 1, One),
     AScene({"leave"}, 1, 0, Broadcasts), AScene({"leave"}, 0, 1, Broadcasts),
     AtHome({}, 1, 0, One), AtHome({"reload"}, 1, 0, {}), AtHome({"leave"}, 1, 0, {}),
     AtHome({"connect"}, 1, 0, {}), AtHome({"link"}, 0, 1, {}),
     [AtHome({"switch"}, 0, 0, {}) EXCEPT !.reset = TRUE]}
=============================================================================
