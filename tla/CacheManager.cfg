SPECIFICATION Spec
CONSTANTS
    root = root
    c1 = c1
    other = other
    exiting = exiting
    returning = returning
    Root = root
    Children = {c1}
    Strangers = {other}
    Finalizers = {exiting, returning}
    Formats = {"perfetto", "rocpd"}
INVARIANTS
    ChildFilesAreReadWhole
    OwnTraceIsWrittenOnce
    EndedChildrenAreReported
    OnlyLateChildrenLeaveFiles
CHECK_DEADLOCK FALSE
