------------------------------- MODULE Account -------------------------------
(***************************************************************************)
(* The ACME account: account.key and account.json, which every issue and   *)
(* renew loads, or makes, before it talks to the CA (certs.go, connect).   *)
(* Each file is empty for a moment while os.WriteFile writes it; an empty  *)
(* key file is an error, an empty registration counts as none.  An issuer  *)
(* signs with the key it has loaded and names the account of its           *)
(* registration; the CA takes that when the account is of that key.        *)
(***************************************************************************)
EXTENDS Integers, FiniteSets

CONSTANTS Issuers,    \* issue and renew processes, the daemon among them
          MaxConnects \* bound: processes started

ASSUME AccountAssumption == MaxConnects \in Nat

VARIABLES key,     \* account.key: 0 for none, Torn, or the number of a key
          reg,     \* account.json: 0, Torn, or the key it is registered for
          made,    \* keys made so far
          issuer,  \* issuer[p]: how far p is, the key and account it holds
          connects,
          crossed  \* history: two issuers were making a key at the same time

acctVars == <<key, reg, made, issuer, connects, crossed>>

Torn == -1
NoIssuer == [at |-> "idle", key |-> 0, kid |-> 0]
IssuerAt(p, l) == issuer[p].at = l
IssuerTo(p, l) == issuer' = [issuer EXCEPT ![p].at = l]

AcctInit ==
    /\ key = 0 /\ reg = 0 /\ made = 0 /\ connects = 0 /\ crossed = FALSE
    /\ issuer = [p \in Issuers |-> NoIssuer]

Connect(p) ==
    /\ IssuerAt(p, "idle") /\ connects < MaxConnects
    /\ connects' = connects + 1
    /\ IssuerTo(p, "key")
    /\ UNCHANGED <<key, reg, made, crossed>>

\* Variant of the next definition: a key of its own for every process.
LoadKeyNever(p) ==
    /\ IssuerAt(p, "key")
    /\ IssuerTo(p, "generate")
    /\ UNCHANGED <<key, reg, made, connects, crossed>>
\* loadOrCreateAccountKey: the key of the file; none: one is made; an empty
\* file: "malformed account key", and the process ends.
LoadKey(p) ==
    /\ IssuerAt(p, "key")
    /\ CASE key = 0    -> IssuerTo(p, "generate")
         [] key = Torn -> issuer' = [issuer EXCEPT ![p] = NoIssuer]
         [] OTHER      -> issuer' = [issuer EXCEPT ![p].at = "saved", ![p].key = key]
    /\ UNCHANGED <<key, reg, made, connects, crossed>>

\* The new key is written: the file is emptied, and filled.
Making(p) == issuer[p].at \in {"generate", "fillkey"}
TruncateKey(p) ==
    /\ IssuerAt(p, "generate")
    /\ made' = made + 1 /\ key' = Torn
    /\ issuer' = [issuer EXCEPT ![p].at = "fillkey", ![p].key = made + 1]
    /\ crossed' = (crossed \/ \E q \in Issuers \ {p} : Making(q))
    /\ UNCHANGED <<reg, connects>>

FillKey(p) ==
    /\ IssuerAt(p, "fillkey")
    /\ key' = issuer[p].key
    /\ IssuerTo(p, "saved")
    /\ UNCHANGED <<reg, made, connects, crossed>>

\* loadSavedAccount: a registration that can be read is taken as it is.
LoadSaved(p) ==
    /\ IssuerAt(p, "saved")
    /\ IF reg \in {0, Torn} THEN IssuerTo(p, "register")
       ELSE issuer' = [issuer EXCEPT ![p].at = "connected", ![p].kid = reg]
    /\ UNCHANGED <<key, reg, made, connects, crossed>>

\* register: the CA makes an account for the key, or finds the one it has; or it
\* fails, and the process ends.
Register(p) ==
    /\ IssuerAt(p, "register")
    /\ \/ /\ reg' = Torn
          /\ issuer' = [issuer EXCEPT ![p].at = "fillreg", ![p].kid = issuer[p].key]
       \/ /\ issuer' = [issuer EXCEPT ![p] = NoIssuer]
          /\ UNCHANGED reg
    /\ UNCHANGED <<key, made, connects, crossed>>

FillReg(p) ==
    /\ IssuerAt(p, "fillreg")
    /\ reg' = issuer[p].kid
    /\ IssuerTo(p, "connected")
    /\ UNCHANGED <<key, made, connects, crossed>>

\* The process ends, by itself or not, wherever it is.
IssuerEnds(p) ==
    /\ ~IssuerAt(p, "idle")
    /\ issuer' = [issuer EXCEPT ![p] = NoIssuer]
    /\ UNCHANGED <<key, reg, made, connects, crossed>>

AcctNext ==
    \E p \in Issuers :
       \/ Connect(p) \/ LoadKey(p) \/ TruncateKey(p) \/ FillKey(p) \/ LoadSaved(p)
       \/ Register(p) \/ FillReg(p) \/ IssuerEnds(p)

AcctSpec == AcctInit /\ [][AcctNext]_acctVars

\* An issuer that has connected is taken for its account's owner by the CA,
\* and so is every later one, whichever processes were killed while they wrote
\* the two files; unless two issuers made a key at the same time (certs.go 139-268).
AccountAccepted ==
    ~crossed => \A p \in Issuers : IssuerAt(p, "connected")
                                      => issuer[p].kid = issuer[p].key
=============================================================================
