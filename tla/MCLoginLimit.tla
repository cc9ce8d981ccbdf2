---------------------------- MODULE MCLoginLimit ----------------------------
(* Signing in, for TLC: LoginLimit, where one tick is lockoutTime (five       *)
(* minutes), and Sessions.  They share no state: the first state picks one of  *)
(* the two, and the other stays as it began.                                   *)
EXTENDS LoginLimit, Sessions, TLC

CONSTANTS a1, a2, t1, t2, t3, ann, bob, tab1, tab2

VARIABLE part

MCBrowserOf == (tab1 :> ann) @@ (tab2 :> bob)

SignInInit ==
    /\ part \in {"limit", "sessions"} /\ Init /\ SessInit
    /\ part = "sessions" => from = [t \in Attempts |-> a1]

LimitStep == part = "limit" /\ Next /\ UNCHANGED <<part, sessVars>>
SessStep == part = "sessions" /\ SessNext /\ UNCHANGED <<part, vars>>

SignInSpec ==
    SignInInit /\ [][LimitStep \/ SessStep]_<<part, vars, sessVars>> /\ WF_vars(Tick)
=============================================================================
