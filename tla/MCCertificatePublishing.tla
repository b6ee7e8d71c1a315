------------------------ MODULE MCCertificatePublishing ------------------------
(* CertificatePublishing for TLC, on the instances of MCCertificate. *)
EXTENDS CertificatePublishing, MCCertificate
=============================================================================
