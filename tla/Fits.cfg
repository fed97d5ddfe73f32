CONSTANTS
  EasyFits = {e1, e2}
  Tuned = {e1}
  p1 = p1
  p2 = p2
  Pdfs = {p1, p2}
  Params = {"mean", "width"}
  Shape <- MCShape
  UserFiles <- MCUserFiles
  Datas = {d1, d2}
  SPlots = {"s"}
  Strategies = {1, 3}
  Nothing = nothing
  Start = start
  Results = {o1, o2}
  Given <- MCGiven
  NumSlots = 2
  Blank = "blank"
  Junk = "junk"
  Nobody = nobody
  MaxFits = 3
  MaxRows = 2
  MaxBranches = 2
SPECIFICATION FitsSpec
INVARIANTS
  ValuesStayTogether
  ResultIsOfTheSetup
  WeightsExplained
PROPERTY GivenResultStays
SYMMETRY MCSymmetry
CHECK_DEADLOCK FALSE
