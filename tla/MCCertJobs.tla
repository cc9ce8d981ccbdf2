----------------------------- MODULE MCCertJobs -----------------------------
\* CertJobs with two sites on one certificate, for TLC.
EXTENDS CertJobs

CONSTANTS sa, sb, ca

MCUses == {sa, sb} \X {ca}
=============================================================================
