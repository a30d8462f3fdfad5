CONSTANTS
    MaxMirrors = 2
    Unpacks = {FALSE}

SPECIFICATION Spec
INVARIANT TypeOK
INVARIANT DoneMeansComplete
PROPERTY MainUrlSuffices
