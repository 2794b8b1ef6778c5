-------------------------- MODULE MCSlotContention --------------------------
EXTENDS SlotContention

CONSTANTS scanner1

MCScanners == {scanner1}
=============================================================================
