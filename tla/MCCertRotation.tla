------------------------- MODULE MCCertRotation -------------------------
(* One instance: the files are replaced three times; what the second        *)
(* replacement brings does not pass validation.                             *)
EXTENDS CertRotation

InvalidFiles == {2}
=========================================================================
