------------------------- MODULE MCCursorPagination -------------------------
EXTENDS CursorPagination
ThreeTimes == 1..3
TwoIds == 1..2
=============================================================================
