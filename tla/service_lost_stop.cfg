SPECIFICATION PromptSpec
CONSTANTS
    MaxControls = 3
PROPERTY NotifiedServiceStops
CHECK_DEADLOCK FALSE
