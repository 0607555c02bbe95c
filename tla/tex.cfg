\* Three cells, two widths, two scales, one failure of LaTeX, dvipng, the
\* file system or the decoder besides those that a bad text causes.
SPECIFICATION Spec
CONSTANTS
  v1 = v1
  v2 = v2
  v3 = v3
  View = {v1, v2, v3}
  Width = {800, 900}
  Scale = {1, 2}
  MaxFaults = 1
  None = None
\* The program ends when an error leaves the handler of the scale.
CHECK_DEADLOCK FALSE
SYMMETRY ViewSymmetry
INVARIANTS
  
  
  ShownIsCurrent
