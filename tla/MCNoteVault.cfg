SPECIFICATION Spec
CONSTANTS
    old = old
    new = new
    t1 = t1
    t2 = t2
    Tabs <- MCTabs
    Notes <- MCNotes
    OldNotes <- MCOldNotes
    Grace = 1
    MaxTime = 1
    MaxOpens = 2
INVARIANTS
    TypeOK
    NoteNeverLost
    FailedAttemptSentNothing

    
SYMMETRY Symmetry
CHECK_DEADLOCK FALSE
