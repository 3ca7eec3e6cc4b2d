CONSTANTS
    Pages = {page_34, page_01, page_00}
    IsrPage = page_00
    MaxDepth = 3
SPECIFICATION Spec
INVARIANTS
    TypeOK
    FramesAreOpenings
    AttributedToInnermost
