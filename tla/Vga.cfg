CONSTANTS
  DacSize = 4
  Sampled = {0, 65, 255}
  Kinds = {"text", "rows", "planar", "cga2", "cga1", "linear", "dots4", "dots18", "dots19", "registers"}
  Strays = {0, 16}
  MaxCalls = 3
  Adapter <- McAdapter
  Colour <- McColour
  Bench <- McBench
  Menu <- McMenu
  Pokes <- McPokes
  SaveSets <- McSaveSets
  Points <- McPoints
SPECIFICATION Spec
INVARIANT PageInSight
PROPERTIES ScreenExact RegistersExact RestoredAsSaved
