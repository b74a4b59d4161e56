--------------------------- MODULE MCApnConnection ---------------------------
(***************************************************************************)
(* Instances of ApnConnection for TLC: a certificate for each mode, a      *)
(* universal one and an expired one.                                       *)
(***************************************************************************)
EXTENDS ApnConnection

AllCerts == {"prod", "dev", "both", "expired"}

AllCertModes ==
    [c \in AllCerts |->
        CASE c = "prod" -> {"production"}
          [] c = "dev"  -> {"sandbox"}
          [] c = "both" -> Modes
          [] OTHER      -> {}]
=============================================================================
