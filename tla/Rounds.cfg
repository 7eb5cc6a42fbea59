SPECIFICATION RoundsSpec
CONSTANTS
  t1 = t1
  t2 = t2
  t3 = t3
  t4 = t4
  Tasks <- Four
INVARIANTS RoundsTypeOK NobodyOvertakes
