SPECIFICATION Spec
CONSTANTS
    Headings = {170}
    HeadingCommands <- MCFewCommands
    ServoCommands = {45}
PROPERTY
    OffIsNotDriven
