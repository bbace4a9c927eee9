\* Two files of four bytes next to each other, two descriptors.  A call takes one or two
\* rounds of one sector of fsbuf, from any position in a sector, and may go past the file.
CONSTANTS
    NR_OF_FILES = 2
    NR_DEFAULT_FILE_SECTS = 2
    SECTOR_SIZE = 2
    FSBUF_SECTS = 1
    Descs = {d, e}
    MaxLen = 2
    MaxSize = 5

SPECIFICATION Spec

SYMMETRY DescsAreAlike

INVARIANTS
    TypeOK
    ReadsReturnWritten
    SizeCovers

PROPERTIES
    WritesAreExact

\* At the bound of the positions.
CHECK_DEADLOCK FALSE
