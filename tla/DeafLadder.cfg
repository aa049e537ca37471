\* A scanner that the ladder has revived is not seen to be.
SPECIFICATION FairSpec
CONSTANTS
    MaxQuiet = 1
    Envs = {{}}
PROPERTIES
    RungJudgedRight
