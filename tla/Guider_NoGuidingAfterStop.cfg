CONSTANTS CalMax = 5
          CalMayFail = TRUE
SPECIFICATION Spec
PROPERTY NoGuidingAfterStop
