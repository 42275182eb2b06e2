----------------------------- MODULE MCCarInput -----------------------------
(* Three drivers, one of whom is one too many at a time.                    *)
EXTENDS CarInput

MCLevels == {0, 150}
=============================================================================
