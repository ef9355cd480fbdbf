SPECIFICATION Spec
CONSTANTS
    Groups = {g1, g2}
    Forms = {f1, f2}
    Details = {d1}
    Home = Home
    Root = Root
    NoItem = NoItem
    Handlers = {h1, h2}
    MaxWork = 4
    MaxDrops = 1
SYMMETRY Symmetry
CHECK_DEADLOCK FALSE
INVARIANTS NestUnlessRaced KeptUnlessRaced OrphansOnlyByRace DroppedUnlessSameNumber
PROPERTIES TidyKeepsOrder
