SPECIFICATION Spec
CONSTANTS
  Host = h
  Viewer = {v, w}
  Writer = {v}
  MaxEdit = 1
  MaxFault = 1
INVARIANTS
  AdmissionIsSound
PROPERTIES
  EveryEditArrives
CHECK_DEADLOCK FALSE
