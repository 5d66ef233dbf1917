--------------------------- MODULE MCCertRotation ---------------------------
(* Two replicas of the webhook, as the Deployment has them.                *)
EXTENDS CertRotation

CONSTANTS a, b
=============================================================================
