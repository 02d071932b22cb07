SPECIFICATION FairSpec
CONSTANTS
    SbufSize = 4
    Word = 2
    Lens = {2, 3, 4, 5}
    MaxPlay = 3
    K = 9
PROPERTIES StreamSpec PlayEnds
