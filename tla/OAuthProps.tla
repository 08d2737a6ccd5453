---------------------------- MODULE OAuthProps ----------------------------
(***************************************************************************)
(* What should hold of the authorizations and tokens of a remote tool.     *)
(***************************************************************************)
EXTENDS OAuth

(* A refreshed token reaches the row: the token stored is the one the      *)
(* provider will accept next, or a goroutine is about to store that one.   *)
(* A restart, or the next registration, would present a used token         *)
(* otherwise, and the provider would take it for stolen.  Excepted are     *)
(* grants with a rotation that was not stored because the answer or the    *)
(* write failed or the process ended, and those refreshed by the source an *)
(* authorization left in its handler, which stores nothing.                *)
Behind(g) == store.turn # turn[g] /\ \A h \in Handlers : saving[h] # Token(g, turn[g])
StoreKeepsUp ==
    store # NoToken =>
        LET g == store.grant
        IN  g \in revoked \/ <<g, "plain">> \in lossy \/ <<g, "fault">> \in lossy \/ ~Behind(g)

(* The same, for the sources that authorizations leave too.                *)
PersistedOnEveryRefresh ==
    store # NoToken =>
        LET g == store.grant
        IN  g \in revoked \/ <<g, "fault">> \in lossy \/ ~Behind(g)

(* Whoever throws a token away (a revoke, or the operation that removes    *)
(* the tool, gives it another identity, or adds one under a name that was  *)
(* used before) throws away every token there is: once its clearing is     *)
(* over the row has none from before, and no handler made since, or        *)
(* cleared, has one, whatever is registered, added, restarted or started   *)
(* after a crash.  Excepted are a grant that one who was still using it    *)
(* stores again, a row whose deletion failed or was cut off by a crash,    *)
(* the handlers nobody cleared (of sessions that are draining), and those  *)
(* made by an actor that began before the clearing was over.               *)
ClearedStaysCleared ==
    /\ store.grant \in gone => Clearing
    /\ \A h \in Handlers \ stale : hand[h].token.grant \notin gone

(* A callback that has found its flow never finds its code there already,  *)
(* so that its send does not block, and one state leads one callback to    *)
(* one waiting flow: nobody else is about to answer it, and it cannot be   *)
(* found again.                                                            *)
CallbackDelivers ==
    /\ \A c \in Callbacks : callback[c] # Nobody =>
          /\ ~done[callback[c]].code
          /\ \A d \in Callbacks \ {c} : callback[d] # callback[c]
    /\ \A f \in Flows : fetch[f] = "coded" => f \notin byState
    /\ Cardinality({f \in pending : f \in Underway /\ ~done[f].closed}) <= 1

(* Requests being finitely many, they come to an end though no user        *)
(* answers: nobody waits for ever, and the entry of a flow is removed      *)
(* whether or not it was completed.  Until it is, a connect request is     *)
(* answered with its URL and starts nothing.                               *)
AuthorizationEnds == <>[](pending = {} /\ \A a \in Actors : ~Busy(a))

(* GET /tools/oauth/pending returns all active pending authorization       *)
(* flows.                                                                  *)
ListedIsActive == \A f \in pending : f \in Underway
=============================================================================
