---------------------------- MODULE ConnectionMC ----------------------------
EXTENDS Connection, TLC

CONSTANTS f1, f2

MCFrames         == {f1, f2}
MCReliableFrames == {f1}
MCFrameSize      == [f \in MCFrames |-> 1]
=============================================================================
