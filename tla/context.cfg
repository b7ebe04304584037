SPECIFICATION ContextSpec
CONSTANTS
    Thread = {a, b}
    first = a
PROPERTY SwitchResumes
