----------------------------- MODULE MCHubRouter -----------------------------
(* Two beads and two agents; x builds and reviews, y tests.                  *)
EXTENDS HubRouter
CONSTANTS x, y
MCRoster == [dev |-> x, test |-> y, review |-> x]
MCLabel == [b \in Beads |-> IF b = 1 THEN "dev" ELSE "review"]
=============================================================================
