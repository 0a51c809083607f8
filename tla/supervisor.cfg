SPECIFICATION Spec
CONSTANTS
  None = None
  Keys = {vm, proxy}
  Shimmed = {proxy}
  Crashing = {vm}
  Handles = {h1, h2, h3}
  Workers = {w1, w2, w3, w4}
SYMMETRY MCSymmetry
INVARIANTS
  TypeOK
  
  
