------------------------------ MODULE MCBuffer ------------------------------
EXTENDS Buffer, SequencesExt

CONSTANTS a, b, MaxLen

MCByte    == {Zero, a, b}
MCMessage == BoundedSeq({a, b}, MaxLen)
=============================================================================
