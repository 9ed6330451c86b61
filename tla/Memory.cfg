\* Both cores and four blocks; for the collection five blocks and three
\* pointers, the fewest in which an object that did not fit on the stack leads
\* to one that nothing else leads to.
SPECIFICATION Spec
CONSTANTS
    Threads = {t1, t2}
    BLOCKS_PER_ATB = 2
    ByteLen = 2
    MaxBlocks = 2
    HeapCells = 5
    MaxWords = 3
    StackSize = 1
PROPERTIES HeapIsSound CollectionIsExact
