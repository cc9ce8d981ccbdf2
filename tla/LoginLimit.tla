------------------------------ MODULE LoginLimit ------------------------------
(***************************************************************************)
(* webAuth.checkLocal: the local login of revpro's web UI with its limit   *)
(* on failed attempts per client address.  The record of an address is     *)
(* read under the mutex; the password is verified without it, for a good   *)
(* part of a second; the record is written under it again.                 *)
(*                                                                         *)
(* Abstracted: a password is right or wrong when it has been verified; the *)
(* age of a record is counted in ticks and no further than Window + 1, at  *)
(* which it no longer counts.                                              *)
(***************************************************************************)
EXTENDS Integers, FiniteSets

CONSTANTS
    Addresses,  \* the client addresses
    Attempts,   \* the login requests that can be under way at once
    MaxFails,   \* maxLoginFails
    Window      \* failWindow, in ticks

ASSUME AttemptsAssumption == IsFiniteSet(Attempts)
ASSUME LimitsAssumption == MaxFails \in Nat \ {0} /\ Window \in Nat

VARIABLES
    count,  \* count[a]: failures in a's record, 0 if a has none
    age,    \* age[a]: ticks since that record was made
    pc,     \* pc[t]: whether attempt t is being verified
    from    \* from[t]: the address it comes from

vars == <<count, age, pc, from>>

TypeOK ==
    /\ count \in [Addresses -> Nat]
    /\ age \in [Addresses -> 0 .. Window + 1]
    /\ pc \in [Attempts -> {"idle", "verify"}]
    /\ from \in [Attempts -> Addresses]

Init ==
    /\ count = [a \in Addresses |-> 0]
    /\ age = [a \in Addresses |-> 0]
    /\ pc = [t \in Attempts |-> "idle"]
    /\ from \in [Attempts -> Addresses]

\* The failures that still count against an address.
Current(a) == IF age[a] > Window THEN 0 ELSE count[a]

\* Let in: a record past the window is deleted, the password is looked at next.
Admit(t, a) ==
    /\ pc[t] = "idle" /\ Current(a) < MaxFails
    /\ count' = [count EXCEPT ![a] = Current(a)]
    /\ age' = [age EXCEPT ![a] = IF Current(a) = 0 THEN 0 ELSE @]
    /\ pc' = [pc EXCEPT ![t] = "verify"]
    /\ from' = [from EXCEPT ![t] = a]

\* Variant of the next definition: a refusal starts the window again.
RefuseExtends(t, a) ==
    /\ pc[t] = "idle" /\ Current(a) >= MaxFails
    /\ age' = [age EXCEPT ![a] = 0]
    /\ UNCHANGED <<count, pc, from>>

\* Turned away with "too many failed logins": nothing changes.
Refuse(t, a) ==
    /\ pc[t] = "idle" /\ Current(a) >= MaxFails
    /\ UNCHANGED vars

\* User and password are right: the record of the address is deleted.
Succeed(t) ==
    /\ pc[t] = "verify"
    /\ count' = [count EXCEPT ![from[t]] = 0]
    /\ age' = [age EXCEPT ![from[t]] = 0]
    /\ pc' = [pc EXCEPT ![t] = "idle"]
    /\ UNCHANGED from

\* Variant of the next definition: the failure is counted twice.
FailTwice(t) ==
    /\ pc[t] = "verify"
    /\ count' = [count EXCEPT ![from[t]] = @ + 2]
    /\ age' = [age EXCEPT ![from[t]] = IF count[from[t]] = 0 THEN 0 ELSE @]
    /\ pc' = [pc EXCEPT ![t] = "idle"]
    /\ UNCHANGED from

\* They are not: counted, in the record there is now, however old it is.
Fail(t) ==
    /\ pc[t] = "verify"
    /\ count' = [count EXCEPT ![from[t]] = @ + 1]
    /\ age' = [age EXCEPT ![from[t]] = IF count[from[t]] = 0 THEN 0 ELSE @]
    /\ pc' = [pc EXCEPT ![t] = "idle"]
    /\ UNCHANGED from

\* Variant of the next definition: an age is counted past the window.
OlderUncapped(n) == n + 1

Older(n) == IF n > Window THEN n ELSE n + 1

Tick ==
    /\ age' = [a \in Addresses |-> IF count[a] = 0 THEN 0 ELSE Older(age[a])]
    /\ UNCHANGED <<count, pc, from>>

Next ==
    \/ \E t \in Attempts : \/ \E a \in Addresses : Admit(t, a) \/ Refuse(t, a)
                           \/ Succeed(t) \/ Fail(t)
    \/ Tick

Spec == Init /\ [][Next]_vars

(***************************************************************************)
(* Properties.                                                             *)
(***************************************************************************)

Verifying(a) == {t \in Attempts : pc[t] = "verify" /\ from[t] = a}

\* An address gets no more passwords looked at than the limit and the requests
\* it had under way at once allow: each attempt was let in on a count read
\* before the others it overlaps with were counted.
OverrunBounded ==
    \A a \in Addresses :
        count[a] + Cardinality(Verifying(a)) <= MaxFails + Cardinality(Attempts) - 1

\* A lockout ends, also for a user who keeps trying: the attempts turned away do
\* not prolong it, nor do the failures that were under way when it began.
LockoutEnds == \A a \in Addresses : Current(a) >= MaxFails ~> Current(a) < MaxFails

(***************************************************************************)
(* Fairness.  Time passes; nothing is asked of clients or verifications.   *)
(***************************************************************************)
FairSpec == Spec /\ WF_vars(Tick)
=============================================================================
