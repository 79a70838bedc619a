---------------------------- MODULE MCMotorLink ----------------------------
(* Duties beyond the clamp and FloatNaN, which reach its two ends.              *)
EXTENDS MotorLink

MCLayout == <<"rpm", "duty">>
MCDuties == {-9, FloatNaN}
=============================================================================
