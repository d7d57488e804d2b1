------------------------------ MODULE MCSdCard ------------------------------
(* Model values for SdCard. A uint8_t and the positive half of an int16_t    *)
(* both end at 5: a request of 5 sectors leaves none in the uint8_t, one of  *)
(* 6 leaves one.                                                             *)
EXTENDS SdCard

Any == {"read", "write"} \X {1, 3, 4, 5, 6}
AllKinds == CardKinds
SlowV2 == {"SD2", "SDHC"}
=============================================================================
