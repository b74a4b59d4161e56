------------------------------- MODULE MCApnSsl -------------------------------
(***************************************************************************)
(* Instances of ApnSsl for TLC: a certificate for each mode, and one that  *)
(* is expired.                                                             *)
(***************************************************************************)
EXTENDS ApnSsl

ThreeCerts == {"prod", "dev", "expired"}

ThreeCertModes ==
    [c \in ThreeCerts |->
        CASE c = "prod" -> {"production"}
          [] c = "dev"  -> {"sandbox"}
          [] OTHER      -> {}]
=============================================================================
