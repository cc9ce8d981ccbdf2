------------------------------ MODULE Webhooks ------------------------------
(***************************************************************************)
(* The audit log and the webhooks: webhooks.go, tailLines of sitelogs.go   *)
(* and the handlers of web.go that edit webhooks.json.  An event is first  *)
(* appended to audit.log, which is compacted when it has grown too large,  *)
(* and then delivered to the hooks that want it.  The panel's handlers are *)
(* threads of one process; routines, renewals and the guard are processes  *)
(* of their own, with one thread and a rate-limit table of their own.      *)
(*                                                                         *)
(* Of the log only its size matters here, counted in lines of one length.  *)
(* A file that os.WriteFile writes is empty first and filled later, from   *)
(* its start, over what others have appended in between.                   *)
(***************************************************************************)
EXTENDS Naturals, FiniteSets

CONSTANTS Procs, Threads, ProcOf, \* ProcOf[t]: the process of a thread
          Editors,                \* threads of the panel that edit the hooks
          Hooks,                  \* hooks that may be configured
          LogLimit,               \* maxAuditEntries*512 bytes, in lines
          TailLines,              \* what tailLines reads back, in lines
          MaxEvents, MaxEdits, MaxKills \* bounds

ASSUME WebhooksAssumption ==
    /\ ProcOf \in [Threads -> Procs] /\ Editors \subseteq Threads
    /\ TailLines \in Nat /\ LogLimit \in Nat /\ TailLines <= LogLimit

VARIABLES log,      \* lines in audit.log
          fired,    \* events so far
          hooks,    \* webhooks.json; while it is empty it reads as no hooks
          backoff,  \* backoff[p]: the hooks in webhookBackoffUntil, not yet over
          refused,  \* history: refused[p][h], 429s since that back-off was last over
          firing,   \* firing[t]: what thread t is doing
          edits, kills

hookVars == <<log, fired, hooks, backoff, refused, firing, edits, kills>>

\* text: the lines read for a compaction; todo: the hooks that want the event and
\* were not looked at yet; list: the one being called, or the list to be written.
Unfired == [at |-> "idle", text |-> 0, todo |-> {}, list |-> {}]
HookAt(t, l) == firing[t].at = l
HookGoto(t, l) == firing' = [firing EXCEPT ![t].at = l]

HookInit ==
    /\ log = 0 /\ fired = 0 /\ hooks = {} /\ edits = 0 /\ kills = 0
    /\ backoff = [p \in Procs |-> {}]
    /\ refused = [p \in Procs |-> [h \in Hooks |-> 0]]
    /\ firing = [t \in Threads |-> Unfired]

----------------------------------------------------------------------------
(* appendAudit and compactAuditLog                                          *)

\* fireWebhook begins: one line is appended, or the file cannot be opened.
Fire(t) ==
    /\ HookAt(t, "idle") /\ fired < MaxEvents
    /\ fired' = fired + 1
    /\ \/ log' = log + 1 /\ HookGoto(t, "stat")
       \/ UNCHANGED log /\ HookGoto(t, "load")
    /\ UNCHANGED <<hooks, backoff, refused, edits, kills>>

\* Variant of the next definition: the size looked at is that of a longer file.
StatTwice(t) ==
    /\ HookAt(t, "stat")
    /\ HookGoto(t, IF log > 2 * LogLimit THEN "tail" ELSE "load")
    /\ UNCHANGED <<log, fired, hooks, backoff, refused, edits, kills>>
Stat(t) ==
    /\ HookAt(t, "stat")
    /\ HookGoto(t, IF log > LogLimit THEN "tail" ELSE "load")
    /\ UNCHANGED <<log, fired, hooks, backoff, refused, edits, kills>>

\* tailLines: the last 512 KB, less the line they begin in.
ReadTail(t) ==
    /\ HookAt(t, "tail")
    /\ firing' = [firing EXCEPT ![t].at = "truncate",
                          ![t].text = IF log < TailLines THEN log ELSE TailLines]
    /\ UNCHANGED <<log, fired, hooks, backoff, refused, edits, kills>>

TruncateLog(t) ==
    /\ HookAt(t, "truncate")
    /\ log' = 0
    /\ HookGoto(t, "fill")
    /\ UNCHANGED <<fired, hooks, backoff, refused, edits, kills>>

FillLog(t) ==
    /\ HookAt(t, "fill")
    /\ log' = IF log < firing[t].text THEN firing[t].text ELSE log
    /\ firing' = [firing EXCEPT ![t].at = "load", ![t].text = 0]
    /\ UNCHANGED <<fired, hooks, backoff, refused, edits, kills>>

----------------------------------------------------------------------------
(* Delivery                                                                 *)

\* loadWebhooks: a file that does not parse is an empty list.  Which of its
\* hooks want the event depends on the event.
LoadHooks(t) ==
    /\ HookAt(t, "load")
    /\ \E wanting \in SUBSET hooks :
          firing' = [firing EXCEPT ![t].at = "deliver", ![t].todo = wanting]
    /\ UNCHANGED <<log, fired, hooks, backoff, refused, edits, kills>>

\* The next hook: passed over while it is rate-limited, called otherwise.
Deliver(t) ==
    /\ HookAt(t, "deliver")
    /\ \E h \in firing[t].todo :
          IF h \in backoff[ProcOf[t]]
          THEN firing' = [firing EXCEPT ![t].todo = @ \ {h}]
          ELSE firing' = [firing EXCEPT ![t].at = "waiting", ![t].list = {h}]
    /\ UNCHANGED <<log, fired, hooks, backoff, refused, edits, kills>>

Called(t) == CHOOSE h \in firing[t].list : TRUE
Moved(t) == [firing EXCEPT ![t].at = "deliver", ![t].todo = @ \ firing[t].list, ![t].list = {}]

\* It was delivered, or it failed, or nothing came within 8 seconds.
Answered(t) ==
    /\ HookAt(t, "waiting")
    /\ firing' = Moved(t)
    /\ UNCHANGED <<log, fired, hooks, backoff, refused, edits, kills>>

\* Variant of the next definition: the wait is noted when there was no error.
RateLimitedNoted(t) ==
    /\ HookAt(t, "waiting")
    /\ refused' = [refused EXCEPT ![ProcOf[t]][Called(t)] = @ + 1]
    /\ firing' = Moved(t)
    /\ UNCHANGED <<log, fired, hooks, backoff, edits, kills>>
\* A 429: the hook is left alone until parseRetryAfter's time is over.
RateLimited(t) ==
    /\ HookAt(t, "waiting")
    /\ backoff' = [backoff EXCEPT ![ProcOf[t]] = @ \cup {Called(t)}]
    /\ refused' = [refused EXCEPT ![ProcOf[t]][Called(t)] = @ + 1]
    /\ firing' = Moved(t)
    /\ UNCHANGED <<log, fired, hooks, edits, kills>>

FireDone(t) ==
    /\ HookAt(t, "deliver") /\ firing[t].todo = {}
    /\ firing' = [firing EXCEPT ![t] = Unfired]
    /\ UNCHANGED <<log, fired, hooks, backoff, refused, edits, kills>>

\* The time of a back-off is over.
BackoffOver(p, h) ==
    /\ h \in backoff[p]
    /\ backoff' = [backoff EXCEPT ![p] = @ \ {h}]
    /\ refused' = [refused EXCEPT ![p][h] = 0]
    /\ UNCHANGED <<log, fired, hooks, firing, edits, kills>>

----------------------------------------------------------------------------
(* Editing webhooks.json: load, change, write; nothing keeps two edits apart *)

\* handleWebhookSave and handleWebhookDelete.
BeginEdit(t) ==
    /\ HookAt(t, "idle") /\ t \in Editors /\ edits < MaxEdits
    /\ edits' = edits + 1
    /\ \E h \in Hooks : \E list \in {hooks \cup {h}, hooks \ {h}} :
          firing' = [firing EXCEPT ![t] = [Unfired EXCEPT !.at = "truncatehooks", !.list = list]]
    /\ UNCHANGED <<log, fired, hooks, backoff, refused, kills>>

TruncateHooks(t) ==
    /\ HookAt(t, "truncatehooks")
    /\ hooks' = {}
    /\ HookGoto(t, "fillhooks")
    /\ UNCHANGED <<log, fired, backoff, refused, edits, kills>>

FillHooks(t) ==
    /\ HookAt(t, "fillhooks")
    /\ hooks' = firing[t].list
    /\ firing' = [firing EXCEPT ![t] = Unfired]
    /\ UNCHANGED <<log, fired, backoff, refused, edits, kills>>

\* A process is killed (a streamed command, a stopped service): its threads and
\* its rate-limit table are gone, its files stay as they are.
KillProc(p) ==
    /\ kills < MaxKills
    /\ \E t \in Threads : ProcOf[t] = p /\ ~HookAt(t, "idle")
    /\ kills' = kills + 1
    /\ firing' = [t \in Threads |-> IF ProcOf[t] = p THEN Unfired ELSE firing[t]]
    /\ backoff' = [backoff EXCEPT ![p] = {}]
    /\ refused' = [refused EXCEPT ![p] = [h \in Hooks |-> 0]]
    /\ UNCHANGED <<log, fired, hooks, edits>>

HookNext ==
    \/ \E t \in Threads :
          \/ Fire(t) \/ Stat(t) \/ ReadTail(t) \/ TruncateLog(t) \/ FillLog(t)
          \/ LoadHooks(t) \/ Deliver(t) \/ Answered(t) \/ RateLimited(t) \/ FireDone(t)
          \/ BeginEdit(t) \/ TruncateHooks(t) \/ FillHooks(t)
    \/ \E p \in Procs : KillProc(p) \/ \E h \in Hooks : BackoffOver(p, h)

HookSpec == HookInit /\ [][HookNext]_hookVars

----------------------------------------------------------------------------
\* Whatever writers append, compact and overwrite in between, the log holds no
\* more than its limit and a line for each writer between its append and its look
\* at the size; a kill of a process leaves a line more for each of its threads
\* (webhooks.go 142-171).
AuditBounded ==
    LET ThreadsOf(p) == {t \in Threads : ProcOf[t] = p}
    IN  \E p \in Procs : log <= LogLimit + Cardinality(Threads)
                                + kills * Cardinality(ThreadsOf(p))

\* A process is refused by a rate-limited hook at most once per thread before
\* the wait it was told is over, however many events it fires
\* (webhooks.go 69-79, 86-120).
RefusedOncePerThread ==
    \A p \in Procs : \A h \in Hooks :
        refused[p][h] <= Cardinality({t \in Threads : ProcOf[t] = p})
============================================================================
