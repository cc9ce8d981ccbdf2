--------------------------- MODULE MCCertificates ---------------------------
(* The parts of an issuance beside the files it writes: the account, the names   *)
(* it asks for and the records that prove them.  They share no state, so an      *)
(* instance of each is explored on its own: the first state picks the part, and  *)
(* the others stay as they began.                                                *)
EXTENDS Account, CertJobs, Wedos, TLC

VARIABLE part

CONSTANTS sa, sb, ca, cb

MCUses == {<<sa, ca>>, <<sb, ca>>, <<sb, cb>>}

Init == /\ part \in {"account", "jobs", "dns"}
        /\ AcctInit /\ JobsInit /\ DnsInit

AcctStep == part = "account" /\ AcctNext /\ UNCHANGED <<part, jobsVars, dnsVars>>
JobsStep == part = "jobs" /\ JobsNext /\ UNCHANGED <<part, acctVars, dnsVars>>
DnsStep == part = "dns" /\ DnsNext /\ UNCHANGED <<part, acctVars, jobsVars>>

Next == AcctStep \/ JobsStep \/ DnsStep

vars == <<part, acctVars, jobsVars, dnsVars>>

Spec == Init /\ [][Next]_vars
=============================================================================
