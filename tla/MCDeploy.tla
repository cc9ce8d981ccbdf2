------------------------------ MODULE MCDeploy ------------------------------
\* Instances of Deploy for TLC.
EXTENDS Deploy

CONSTANTS c1, c2, daemon, issuer, other

\* A certificate for each of two sites.
MCCertOf == [s \in Sites |-> IF s = 2 THEN c2 ELSE c1]

\* Two sites on one certificate.
MCShared == [s \in Sites |-> c1]

\* The renewal daemon beside the commands that rebuild conf/.
MCRebuild == [p \in Procs |-> IF p = daemon THEN {"renew"} ELSE {"regenerate", "reload", "restart"}]

\* A process that issues beside one that generates and changes the table.
MCMixed == [p \in Procs |-> IF p = issuer THEN {"issue"}
                            ELSE {"generate", "clean", "add", "edit"}]
=============================================================================
