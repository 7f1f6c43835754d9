\* Two workers, two activities, one failure.
SPECIFICATION WaresSpec
CONSTANTS
  Workers = {w1, w2}
  Scenes <- MCScenes
  LabelServer = LabelServer
  MaxQueue = 1
  MaxId = 2
  MaxTime = 2
  MaxFaults = 1
INVARIANTS OwnSlug RunsAsDecided LabelUsedOnce OneSale
PROPERTY NamelessBlocks
SYMMETRY WorkerSymmetry
