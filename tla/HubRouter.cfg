SPECIFICATION Spec
CONSTANTS
    x = x
    y = y
    Nobody = Nobody
    Agents = {x, y}
    Beads = {1, 2}
    Roster <- MCRoster
    Label <- MCLabel
    Modes = {"route"}
    Wip = 1
    Posts = {"review-accepted", "changes-requested"}
    Grace = 1
    Reping = 0
    Silent = 2
INVARIANTS WipCap PingedOrReverted
