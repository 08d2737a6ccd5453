---------------------------- MODULE PendingAuth ----------------------------
(***************************************************************************)
(* The registry of pending authorizations (internal/tool/oauth/pending.go) *)
(* for one tool: who asked for an authorization waits on a channel until   *)
(* the browser comes back to the callback endpoint with the state of the   *)
(* URL, until a later authorization of the tool takes its place, or until  *)
(* its time is over.                                                       *)
(*                                                                         *)
(* A flow is one authorization: its pending entry, its URL and the state   *)
(* in that URL.  A step is one critical section or one channel operation.  *)
(***************************************************************************)
EXTENDS FiniteSets, TLC

CONSTANTS
    Flows,          \* authorizations, each asked for once
    Callbacks       \* goroutines serving the callback endpoint

Nobody == "nobody"
ASSUME CallbacksAssumption == Nobody \notin Flows

VARIABLES
    pending,        \* PendingManager.pending: the flows with an entry
    byState,        \* PendingManager.byState: the flows whose state leads to them
    done,           \* PendingAuth.done: a code is in the channel, the channel is closed
    fetch,          \* how far fetchAuthorizationCode is
    callback        \* the flow each callback found and is about to answer

registry == <<pending, byState, done, fetch, callback>>

Open == [code |-> FALSE, closed |-> FALSE]
Closed(fs) == [f \in Flows |-> [done[f] EXCEPT !.closed = @ \/ f \in fs]]
Moved(f, stage) == fetch' = [fetch EXCEPT ![f] = stage]
Unasked == {f \in Flows : fetch[f] = "unused"}
Underway == {f \in Flows : fetch[f] \in {"created", "listed", "waiting", "lapsed"}}

-----------------------------------------------------------------------------
(* fetchAuthorizationCode.                                                 *)

(* A pending authorization of the tool is cancelled; its state stays       *)
(* mapped.                                                                 *)
Create(f) ==
    /\ fetch[f] = "unused"
    /\ done' = Closed(pending)
    /\ pending' = {f}
    /\ Moved(f, "created")
    /\ UNCHANGED <<byState, callback>>

SetAuthURL(f) ==
    /\ fetch[f] = "created"
    /\ IF f \in pending
       THEN byState' = byState \union {f} /\ Moved(f, "listed")
       ELSE Moved(f, "failed") /\ UNCHANGED byState
    /\ UNCHANGED <<pending, done, callback>>

(* WaitForCompletion looks the entry up, and waits without the lock.       *)
Wait(f) ==
    /\ fetch[f] = "listed"
    /\ Moved(f, IF f \in pending THEN "waiting" ELSE "failed")
    /\ UNCHANGED <<pending, byState, done, callback>>

(* A channel that is closed with a code in it still gives the code.        *)
Receive(f) ==
    /\ fetch[f] = "waiting"
    /\ \/ /\ done[f].code
          /\ done' = [done EXCEPT ![f].code = FALSE]
          /\ Moved(f, "coded")
       \/ /\ ~done[f].code /\ done[f].closed
          /\ Moved(f, "failed")
          /\ UNCHANGED done
    /\ UNCHANGED <<pending, byState, callback>>

(* Five minutes are over, or the caller's context is.                      *)
TimeOut(f) ==
    /\ fetch[f] = "waiting"
    /\ Moved(f, "lapsed")
    /\ UNCHANGED <<pending, byState, done, callback>>

(* cleanup(id).                                                            *)
Forget(f) ==
    /\ fetch[f] = "lapsed"
    /\ IF f \in pending
       THEN /\ done' = Closed({f})
            /\ pending' = pending \ {f}
            /\ byState' = byState \ {f}
       ELSE UNCHANGED <<pending, byState, done>>
    /\ Moved(f, "failed")
    /\ UNCHANGED callback

-----------------------------------------------------------------------------
(* The callback endpoint.                                                  *)

(* Mutant: the state can be used again.                                    *)
FindTwice(c, f) ==
    /\ callback[c] = Nobody /\ fetch[f] # "unused"
    /\ f \in byState
    /\ f \in pending
    /\ callback' = [callback EXCEPT ![c] = f]
    /\ UNCHANGED <<pending, byState, done, fetch>>

(* CompleteByState, under the lock: the state leads to a pending flow, and *)
(* is used up.  An unknown or expired one is answered with an error.       *)
Find(c, f) ==
    /\ callback[c] = Nobody
    /\ f \in byState
    /\ byState' = byState \ {f}
    /\ callback' = IF f \in pending THEN [callback EXCEPT ![c] = f] ELSE callback
    /\ UNCHANGED <<pending, done, fetch>>

(* CompleteByState, without the lock: the code is sent.  A send on a       *)
(* closed channel panics; the HTTP server recovers.                        *)
Send(c) ==
    /\ callback[c] # Nobody
    /\ LET f == callback[c]
       IN  /\ ~done[f].code \/ done[f].closed
           /\ done' = IF done[f].closed THEN done ELSE [done EXCEPT ![f].code = TRUE]
    /\ callback' = [callback EXCEPT ![c] = Nobody]
    /\ UNCHANGED <<pending, byState, fetch>>

-----------------------------------------------------------------------------
(* StartCleanup.                                                           *)

(* Mutant: only entries somebody still waits for are removed.              *)
RemoveWaiting(old) ==
    /\ done' = Closed(old \intersect Underway)
    /\ pending' = pending \ (old \intersect Underway)
    /\ byState' = byState \intersect pending'
    /\ UNCHANGED <<fetch, callback>>

(* Cleanup: entries older than pendingTimeout, and the states that lead    *)
(* nowhere.                                                                *)
Remove(old) ==
    /\ done' = Closed(old)
    /\ pending' = pending \ old
    /\ byState' = byState \intersect pending'
    /\ UNCHANGED <<fetch, callback>>

Cleanup == \E old \in SUBSET pending : Remove(old)

-----------------------------------------------------------------------------

RegistryInit(spent) ==
    /\ pending = {} /\ byState = {}
    /\ done = [f \in Flows |-> Open]
    /\ fetch = [f \in Flows |-> IF f \in spent THEN "failed" ELSE "unused"]
    /\ callback = [c \in Callbacks |-> Nobody]

(* What the fetcher of a flow does once it has created its entry.          *)
Fetching(f) == SetAuthURL(f) \/ Wait(f) \/ Receive(f) \/ Forget(f)

RegistryStep ==
    \/ \E f \in Flows : Fetching(f) \/ TimeOut(f)
    \/ \E c \in Callbacks : Send(c) \/ \E f \in Flows : Find(c, f)
    \/ Cleanup

(* A process that ends takes the registry with it.                         *)
RegistryLost ==
    /\ pending' = {} /\ byState' = {}
    /\ done' = [f \in Flows |-> Open]
    /\ fetch' = [f \in Flows |-> IF fetch[f] = "unused" THEN "unused" ELSE "failed"]
    /\ callback' = [c \in Callbacks |-> Nobody]
=============================================================================
