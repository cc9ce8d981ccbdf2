------------------------------- MODULE Streams -------------------------------
(***************************************************************************)
(* The panel's actions: web.go's handlers that run this binary as a child  *)
(* and stream its output (handleRun, handleAddSite, handleEditSite,        *)
(* handleRoutineRun, all through streamCommand), one at a time.            *)
(*                                                                         *)
(* The child writes into a pipe; cmd.Run returns when the child has ended  *)
(* AND the pipe is closed by all that hold it, or a copy of its text to    *)
(* the browser has failed.  A child may run a command of its own: with its *)
(* own stdout (run of main.go: docker, systemctl, apt-get), which holds    *)
(* the pipe, or with its output captured (runRoutineNow), which does not.  *)
(* When the browser goes away or after actionTimeout the child, and only   *)
(* the child, is killed.                                                   *)
(***************************************************************************)
EXTENDS Naturals, FiniteSets

CONSTANTS Requests \* requests for actions that may be open at once

Kinds == {"alone", "inherits", "captures"}

VARIABLES mutex,  \* the requests that hold actionMu
          action  \* action[r]: what has become of request r

streamVars == <<mutex, action>>

\* child, sub: the child and the command it runs; end: why the request's context
\* is done, if it is.
NoAction == [at |-> "idle", kind |-> "alone", child |-> "none", sub |-> "none",
             end |-> "open"]

StreamInit == mutex = {} /\ action = [r \in Requests |-> NoAction]

Ask(r) ==
    /\ action[r].at = "idle"
    /\ \E k \in Kinds :
          action' = [action EXCEPT ![r] = [NoAction EXCEPT !.at = "asked", !.kind = k]]
    /\ UNCHANGED mutex

\* TryLock succeeds, and the child is started.
Admit(r) ==
    /\ action[r].at = "asked" /\ mutex = {}
    /\ mutex' = {r}
    /\ action' = [action EXCEPT ![r].at = "running", ![r].child = "alive"]

\* 409: another action is already running.
Refuse(r) ==
    /\ action[r].at = "asked" /\ mutex # {}
    /\ action' = [action EXCEPT ![r] = NoAction]
    /\ UNCHANGED mutex

Lives(r, who) == action[r][who] = "alive"

\* The child starts its command, which may hang, and waits for it to end.
StartSub(r) ==
    /\ Lives(r, "child") /\ action[r].kind # "alone" /\ action[r].sub = "none"
    /\ action' = [action EXCEPT ![r].sub = "alive"]
    /\ UNCHANGED mutex

SubEnds(r) ==
    /\ Lives(r, "sub")
    /\ action' = [action EXCEPT ![r].sub = "ended"]
    /\ UNCHANGED mutex

ChildEnds(r) ==
    /\ Lives(r, "child") /\ ~Lives(r, "sub")
    /\ action' = [action EXCEPT ![r].child = "ended"]
    /\ UNCHANGED mutex

\* The request's context is done: its browser has gone, or actionTimeout is over.
\* Variant of the next definition: the command does not know of the context.
DoneUnheard(r, why) ==
    /\ action[r].at = "running" /\ action[r].end \notin {"left", why}
    /\ action' = [action EXCEPT ![r].end = why]
    /\ UNCHANGED mutex
Done(r, why) ==
    /\ action[r].at = "running" /\ action[r].end \notin {"left", why}
    /\ action' = [action EXCEPT ![r].end = why,
                                ![r].child = IF @ = "alive" THEN "killed" ELSE @]
    /\ UNCHANGED mutex

Leave(r) == Done(r, "left")
Timeout(r) == Done(r, "timeout")

\* Variant of the next definition: the child alone is waited for.
ReturnedEarly(r) == ~Lives(r, "child")
\* cmd.Run returns: the child has ended, and no one holds the pipe any more or what
\* was read from it could not be passed on to the browser.
Returned(r) ==
    /\ ~Lives(r, "child")
    /\ \/ ~Lives(r, "sub") \/ action[r].kind = "captures"
       \/ action[r].end = "left"

\* The handler returns and releases actionMu; the command of a child that was
\* killed may run on.
Finish(r) ==
    /\ action[r].at = "running" /\ Returned(r)
    /\ mutex' = mutex \ {r}
    /\ action' = [action EXCEPT ![r].at = "over"]

Forget(r) ==
    /\ action[r].at = "over" /\ ~Lives(r, "sub")
    /\ action' = [action EXCEPT ![r] = NoAction]
    /\ UNCHANGED mutex

StreamNext ==
    \E r \in Requests :
       \/ Ask(r) \/ Admit(r) \/ Refuse(r) \/ StartSub(r) \/ SubEnds(r) \/ ChildEnds(r)
       \/ Leave(r) \/ Timeout(r) \/ Finish(r) \/ Forget(r)

\* Time passes, the commands that children run come to an end, and the server's
\* threads run on.  Nothing is assumed of the children, nor of the browsers.
StreamFair ==
    \A r \in Requests : /\ WF_streamVars(Timeout(r))
                        /\ WF_streamVars(SubEnds(r))
                        /\ WF_streamVars(Finish(r))

StreamSpec == StreamInit /\ [][StreamNext]_streamVars /\ StreamFair

----------------------------------------------------------------------------
\* Two actions have processes alive at the same time only if one of them was cut
\* off: its browser left, or its time was over and its command wrote elsewhere
\* (web.go 44-47, 1136-1171).  That it may happen then is not what the comment on
\* actionMu says.
OverlapsCutOff ==
    \A r, s \in Requests :
        LET CutOff(q) == \/ action[q].end = "left"
                         \/ action[q].end = "timeout" /\ action[q].kind = "captures"
            Running(q) == Lives(q, "child") \/ Lives(q, "sub")
        IN  r # s /\ Running(r) /\ Running(s) => CutOff(r) \/ CutOff(s)

\* However long a child takes, the panel comes back to where it admits an action
\* (web.go 40, 1143, 1159).
PanelFreed == []<>(mutex = {})
=============================================================================
