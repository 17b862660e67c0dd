SPECIFICATION ComposerSpec
CONSTANTS
    None = None
    Consonants = {0, 4, 9}
    Vowels = {0, 8, 9}
    Others = {3}
    Bases = {"ka", "ha", "n"}
    MaxTyped = 5
PROPERTY Buffers
CHECK_DEADLOCK FALSE
