CONSTANTS
  Dir <- MCDir
  ToyDir = "Plot"
  Appendices = {"", "x"}
  Plots <- MCPlots
  Scalings <- MCScalings
  Nobody = "nobody"
  MaxCalls = 2
  MaxToys = 1
  MaxEmpty = 1
SPECIFICATION Spec
INVARIANTS PlotsAreKept TitlesLeadTheirPlots
