CONSTANT ShotBound = 2
SPECIFICATION Spec
INVARIANT SecuredAtEnd
