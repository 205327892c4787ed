SPECIFICATION FairSpec
CONSTANTS
    x = x
    y = y
    Nobody = Nobody
    Agents = {x, y}
    Beads = {1}
    Roster <- MCRoster
    Label <- MCLabel
    Modes = {"route", "none", "off"}
    Wip = 1
    Posts <- Verbs
    Grace = 1
    Reping = 0
    Silent = 2
INVARIANTS NoLimbo
PROPERTIES StagesInOrder DispatchedSettles GuidanceResumes
