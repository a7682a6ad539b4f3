\* Two overlapping callbacks; the gateway reports another amount for p2.
SPECIFICATION Spec
CONSTANTS
  Payments = {p1, p2}
  Callbacks = {c1, c2}
  Mismatched = {p2}
  Nobody = Nobody
SYMMETRY Symmetry
INVARIANTS
  CompletedIsSettled
  ReversedIsRefunded
  ReportedOnce
PROPERTIES
  CompletedIsFinal
