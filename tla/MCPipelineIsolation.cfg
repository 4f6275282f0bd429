CONSTANTS
  j1 = j1  j2 = j2  j3 = j3  p1 = p1  main = main  fig = fig
  v1 = v1  v2 = v2  img = img  w1 = w1  w2 = w2
  Workers = {w1, w2}
  Jobs = {j1, j2}
  Projects = {p1}
  ProjectOf <- OneProject
  Paths = {main, fig}
  TexPaths = {main}
  Contents = {v1, v2, img}
  Undecodable = {img}
  Blank = Blank
  Absent = Absent
  Saved <- TwoVersions
  NoTree = NoTree  NoJob = NoJob  NoMsg = NoMsg
  Msgs = {1, 2}
  MAX_RETRIES = 2
  Faults = {}
  MaxFaults = 0
SPECIFICATION Spec
CHECK_DEADLOCK FALSE
INVARIANT JobIsolation
