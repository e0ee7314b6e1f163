-------------------------- MODULE ConnectionLiveMC --------------------------
EXTENDS Connection, TLC

CONSTANTS f1

MCFrames         == {f1}
MCFrameSize      == [f \in MCFrames |-> 1]
=============================================================================
