------------------------- MODULE MCFingerprintLink --------------------------
(* OK, no finger and no match.  Location 3 with confidence 239 has the      *)
(* start code in its answer: 239 is followed by the upper byte of the       *)
(* checksum, 1.                                                             *)
EXTENDS FingerprintLink

MCCodes   == {0, 2}
MCMatches == { << 0, 0, 0, 0 >>, << 0, 3, 0, 239 >> }
=============================================================================
