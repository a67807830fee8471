\* CustomTelescope: custom_task sleeps 5 s, then writes; stop() joins 2 s.
CONSTANTS
    Device = "telescope"
    TickRate = 4
SPECIFICATION Spec
PROPERTY NoWriteAfterStop
