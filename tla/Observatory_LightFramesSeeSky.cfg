CONSTANT ShotBound = 2
SPECIFICATION Spec
PROPERTY LightFramesSeeSky
