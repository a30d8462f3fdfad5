CONSTANTS
    MaxMirrors = 2
    Unpacks = {FALSE, TRUE}

SPECIFICATION Spec
PROPERTY MainUrlSuffices
