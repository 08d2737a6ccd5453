----------------------------- MODULE OAuthProofs -----------------------------
(***************************************************************************)
(* Proofs about the tokens of a remote tool: for any number of handlers,   *)
(* flows, requests and restarts, StoreKeepsUp, ClearedStaysCleared and     *)
(* CallbackDelivers of OAuthProps hold.  Only the assumptions of the       *)
(* modules on their constants are used.  IInv is inductive; ClearedInv,    *)
(* which says of ClearedStaysCleared what the steps keep (while somebody   *)
(* clears, whoever else is at work is late), is inductive given IInv.      *)
(***************************************************************************)
EXTENDS OAuthProps, FiniteSetTheorems, TLAPS

-----------------------------------------------------------------------------
(* The inductive invariant.                                                *)

Stages == {"unused", "created", "listed", "waiting", "lapsed", "coded", "failed"}
Tokens == [grant : Flows, turn : Nat] \union {NoToken}

Steps == {"uncache", "delete", "lookup", "new", "enter", "connect", "publish", "check",
          "create", "wait", "put", "cache", "unregister", "bare", "save", "erase"}

Jobs == [todo : Seq(Steps), h : Handlers \union {Nobody}, flow : Flows \union {Nobody},
         again : BOOLEAN]

RegistryTypeOK ==
    /\ pending \subseteq Flows /\ byState \subseteq Flows
    /\ done \in [Flows -> [code : BOOLEAN, closed : BOOLEAN]]
    /\ fetch \in [Flows -> Stages]
    /\ callback \in [Callbacks -> Flows \union {Nobody}]

TypeOK ==
    /\ RegistryTypeOK
    /\ store \in Tokens
    /\ hand \in [Handlers -> [source : {"none", "notify", "plain"}, token : Tokens]]
    /\ live \in Handlers \union {Absent, Bare}
    /\ open \subseteq Handlers
    /\ saving \in [Handlers -> Tokens]
    /\ turn \in [Flows -> Nat \union {-1}]
    /\ revoked \subseteq Flows
    /\ job \in [Actors -> Jobs]

(* The registry: the entry of the tool is that of the last flow, and a     *)
(* flow is answered once: its state leads to it, or a callback is about to *)
(* answer it, or the code is in the channel, or it was fetched.            *)
RegistryOK ==
    /\ \A f, g \in pending : f = g
    /\ \A f \in Flows :
          /\ fetch[f] \in {"unused", "created"} => f \notin byState /\ ~done[f].code
          /\ fetch[f] = "coded" => f \notin byState
          /\ done[f].code => f \notin byState
    /\ \A c \in Callbacks : callback[c] # Nobody =>
          LET f == callback[c] IN
          /\ fetch[f] \notin {"unused", "created"} /\ f \notin byState /\ ~done[f].code
          /\ \A d \in Callbacks \ {c} : callback[d] # f

(* What precedes a step in every list of steps, and what follows one: an   *)
(* authorization begins with "create", and its steps follow one another.   *)
Before == [create |-> {}, wait |-> {"create"}, put |-> {"wait"}, cache |-> {"put"},
           uncache |-> {}, delete |-> {"uncache", "delete"}, new |-> {"lookup"},
           enter |-> {"new"}, connect |-> {"enter", "cache"}, publish |-> {"connect"}]
Follower  == [uncache |-> "delete", new |-> "enter", enter |-> "connect", connect |-> "publish",
           create |-> "wait", wait |-> "put", put |-> "cache"]
Planned(todo) ==
    \A i \in 1 .. Len(todo) :
        /\ i > 1 /\ todo[i] \in DOMAIN Before => todo[i - 1] \in Before[todo[i]]
        /\ todo[i] \in DOMAIN Follower => i < Len(todo) /\ todo[i + 1] = Follower[todo[i]]

(* A step that is only taken with a handler, and one taken without.        *)
Handled   == {"enter", "connect", "publish", "create", "wait", "put", "cache"}
Unhandled == {"uncache", "delete"}

Lacks(f, row, hands, saves) ==
    row.grant # f /\ \A h \in Handlers : hands[h].token.grant # f /\ saves[h].grant # f
Unheld(f) == Lacks(f, store, hand, saving)

Starts(todo, steps) == todo # << >> /\ Head(todo) \in steps
Heads(j, steps) == Starts(j.todo, steps)

ShapeOK(j) ==
    /\ Planned(j.todo)
    /\ Heads(j, Handled) => j.h \in Handlers
    /\ Heads(j, Unhandled) => j.h = Nobody

(* One who authorizes: the flow is its own; until the exchange the grant   *)
(* does not exist, and until it is stored nobody has a token of it.        *)
Own == {"wait", "put", "cache"}
FlowOK(j) ==
    /\ Heads(j, Own) => j.flow \in Flows /\ fetch[j.flow] # "unused"
    /\ Heads(j, {"wait"}) => turn[j.flow] = -1
    /\ Heads(j, {"put"}) => turn[j.flow] = 0 /\ Unheld(j.flow)
    /\ Heads(j, {"cache"}) => turn[j.flow] # -1

JobsOK ==
    /\ \A f \in Flows : fetch[f] = "unused" => turn[f] = -1
    /\ \A a \in Actors : ShapeOK(job[a]) /\ FlowOK(job[a])
    /\ \A a, b \in Actors :
          a # b /\ Heads(job[a], Own) /\ Heads(job[b], Own) => job[a].flow # job[b].flow

(* No token is ahead of the provider.  One that is being saved is the last *)
(* of its grant, and is in no other place but the handler it came from.    *)
Exempt(g) == g \in revoked \/ <<g, "plain">> \in lossy \/ <<g, "fault">> \in lossy
Marked(g, rev, lost) == g \in rev \/ <<g, "plain">> \in lost \/ <<g, "fault">> \in lost
Reached(tok) == tok # NoToken => tok.turn <= turn[tok.grant]
InBounds ==
    /\ Reached(store)
    /\ \A h \in Handlers :
          /\ Reached(hand[h].token) /\ Reached(saving[h])
          /\ hand[h].source = "none" <=> hand[h].token = NoToken
          /\ saving[h] # NoToken => saving[h].turn >= 1
LastOfGrant ==
    \A h \in Handlers : saving[h] # NoToken /\ ~Exempt(saving[h].grant) =>
        /\ saving[h].turn = turn[saving[h].grant]
        /\ store # saving[h]
        /\ \A k \in Handlers \ {h} :
              saving[k].grant # saving[h].grant /\ hand[k].token # saving[h]
KeepOK == InBounds /\ LastOfGrant /\ StoreKeepsUp

IInv == TypeOK /\ RegistryOK /\ JobsOK /\ KeepOK

-----------------------------------------------------------------------------
(* Lists of steps.                                                         *)

(* What is left of a list after its first step, and what the new head may  *)
(* be.                                                                     *)
LEMMA PlanTail ==
    ASSUME NEW s \in Seq(Steps), s # << >>, Planned(s)
    PROVE  /\ Tail(s) \in Seq(Steps) /\ Planned(Tail(s)) /\ Head(s) \in Steps
           /\ Tail(s) # << >> /\ Head(Tail(s)) \in DOMAIN Before =>
                 Head(s) \in Before[Head(Tail(s))]
           /\ Head(s) \in DOMAIN Follower =>
                 Tail(s) # << >> /\ Head(Tail(s)) = Follower[Head(s)]
<1>1. PICK n \in Nat : n = Len(s)
  OBVIOUS
<1>2. n >= 1 /\ Head(s) = s[1] /\ Tail(s) \in Seq(Steps) /\ Len(Tail(s)) = n - 1
         /\ Head(s) \in Steps
  BY <1>1
<1>3. \A i \in 1 .. n - 1 : Tail(s)[i] = s[i + 1]
  BY <1>1, <1>2
<1>4. \A i \in 1 .. n : /\ i > 1 /\ s[i] \in DOMAIN Before => s[i - 1] \in Before[s[i]]
                        /\ s[i] \in DOMAIN Follower => i < n /\ s[i + 1] = Follower[s[i]]
  BY <1>1 DEF Planned
<1>5. Planned(Tail(s))
  <2>1. SUFFICES ASSUME NEW i \in 1 .. n - 1
        PROVE  /\ i > 1 /\ Tail(s)[i] \in DOMAIN Before => Tail(s)[i - 1] \in Before[Tail(s)[i]]
               /\ Tail(s)[i] \in DOMAIN Follower =>
                     i < n - 1 /\ Tail(s)[i + 1] = Follower[Tail(s)[i]]
    BY <1>2 DEF Planned
  <2>2. Tail(s)[i] = s[i + 1] /\ i + 1 \in 1 .. n /\ (i + 1) - 1 = i /\ i + 1 > 1
    BY <1>3, <1>1
  <2>3. i > 1 => Tail(s)[i - 1] = s[i]
    BY <1>3, <1>1
  <2>4. i < n - 1 => Tail(s)[i + 1] = s[(i + 1) + 1]
    BY <1>3, <1>1
  <2> QED
    BY <2>1, <2>2, <2>3, <2>4, <1>4, <1>1
<1>6. ASSUME Tail(s) # << >> PROVE n >= 2 /\ Head(Tail(s)) = s[2]
  BY <1>6, <1>1, <1>2, <1>3
<1>7. ASSUME Tail(s) = << >> PROVE n < 2
  <2>1. Len(<< >>) = 0
    OBVIOUS
  <2>2. Len(Tail(s)) = 0
    BY <2>1, <1>7, Zenon
  <2> QED
    BY <2>2, <1>1, <1>2
<1> QED
  BY <1>2, <1>4, <1>5, <1>6, <1>7

(* Lists are joined where one ends and the other may follow.               *)
LEMMA PlanJoin ==
    ASSUME NEW s \in Seq(Steps), s # << >>, Planned(s), NEW t \in Seq(Steps), Planned(t),
           t # << >> /\ Head(t) \in DOMAIN Before => s[Len(s)] \in Before[Head(t)]
    PROVE  /\ s \o t \in Seq(Steps) /\ s \o t # << >> /\ Head(s \o t) = Head(s) /\ Planned(s \o t)
           /\ t # << >> => (s \o t)[Len(s \o t)] = t[Len(t)]
<1>1. PICK m \in Nat : m = Len(s)
  OBVIOUS
<1>2. PICK n \in Nat : n = Len(t)
  OBVIOUS
<1>3. /\ m >= 1 /\ s \o t \in Seq(Steps) /\ Len(s \o t) = m + n
      /\ \A i \in 1 .. m + n : (s \o t)[i] = IF i <= m THEN s[i] ELSE t[i - m]
  BY <1>1, <1>2
<1>4. s \o t # << >> /\ Head(s \o t) = Head(s)
  BY <1>3, <1>1
<1>5. Planned(s \o t)
  <2>1. SUFFICES ASSUME NEW i \in 1 .. m + n
        PROVE  /\ i > 1 /\ (s \o t)[i] \in DOMAIN Before => (s \o t)[i - 1] \in Before[(s \o t)[i]]
               /\ (s \o t)[i] \in DOMAIN Follower =>
                     i < m + n /\ (s \o t)[i + 1] = Follower[(s \o t)[i]]
    BY <1>3 DEF Planned
  <2>2. CASE i <= m
    <3>1. (s \o t)[i] = s[i] /\ i \in 1 .. m /\ (i > 1 => (s \o t)[i - 1] = s[i - 1])
             /\ (i < m => (s \o t)[i + 1] = s[i + 1])
      BY <2>2, <1>1, <1>2, <1>3
    <3> QED
      BY <3>1, <1>1, <1>2 DEF Planned
  <2>3. CASE i > m
    <3> DEFINE k == i - m
    <3>1. k \in 1 .. n /\ k = i - m
      BY <2>3, <1>1, <1>2
    <3> HIDE DEF k
    <3>2. (s \o t)[i] = t[k] /\ (k > 1 => (s \o t)[i - 1] = t[k - 1])
      <4>1. k > 1 => i - 1 \in 1 .. m + n /\ i - 1 > m /\ (i - 1) - m = k - 1
        BY <3>1, <1>1, <1>2
      <4> QED
        BY <4>1, <3>1, <2>3, <1>1, <1>2, <1>3
    <3>3. k < n => (s \o t)[i + 1] = t[k + 1] /\ i < m + n
      <4>1. k < n => i + 1 \in 1 .. m + n /\ i + 1 > m /\ (i + 1) - m = k + 1
        BY <3>1, <1>1, <1>2
      <4> QED
        BY <4>1, <1>1, <1>2, <1>3
    <3>4. k = 1 => t # << >> /\ Head(t) = t[1] /\ i - 1 = m /\ (s \o t)[i - 1] = s[m]
      BY <3>1, <1>1, <1>2, <1>3
    <3> QED
      BY <3>1, <3>2, <3>3, <3>4, <1>1, <1>2 DEF Planned
  <2> QED
    BY <2>2, <2>3, <1>1, <1>2
<1>6. ASSUME t # << >> PROVE (s \o t)[Len(s \o t)] = t[Len(t)]
  <2>1. n >= 1
    BY <1>6, <1>2
  <2>2. m + n \in 1 .. m + n /\ m + n > m /\ (m + n) - m = n
    BY <2>1, <1>1, <1>2
  <2> QED
    BY <2>2, <1>2, <1>3
<1> QED
  BY <1>3, <1>4, <1>5, <1>6

(* The lists an operation is put together from.                            *)
LEMMA Lists ==
    /\ Planned(<< >>) /\ << >> \in Seq(Steps)
    /\ \A x \in Steps \ DOMAIN Follower : <<x>> \in Seq(Steps) /\ Planned(<<x>>) /\ Head(<<x>>) = x /\ <<x>> # << >>
                            /\ <<x>>[Len(<<x>>)] = x
    /\ Clear \in Seq(Steps) /\ Planned(Clear) /\ Clear # << >> /\ Head(Clear) = "uncache"
    /\ Register \in Seq(Steps) /\ Planned(Register) /\ Register # << >> /\ Head(Register) = "lookup"
    /\ Authorize \in Seq(Steps) /\ Planned(Authorize) /\ Authorize # << >>
    /\ Head(Authorize) = "create" /\ Authorize[Len(Authorize)] = "cache"
<1>1. Planned(<< >>) /\ << >> \in Seq(Steps)
  BY DEF Planned
<1>2. \A x \in Steps \ DOMAIN Follower : <<x>> \in Seq(Steps) /\ Planned(<<x>>) /\ Head(<<x>>) = x /\ <<x>> # << >>
                           /\ <<x>>[Len(<<x>>)] = x
  BY DEF Planned
<1>3. Clear \in Seq(Steps) /\ Clear # << >> /\ Head(Clear) = "uncache" /\ Len(Clear) = 2
  BY DEF Clear, Steps
<1>4. Planned(Clear)
  <2>1. \A i \in 1 .. Len(Clear) : i \in {1, 2}
    BY <1>3
  <2> QED
    BY <2>1 DEF Planned, Clear, Before, Follower
<1>5. Register \in Seq(Steps) /\ Register # << >> /\ Head(Register) = "lookup" /\ Len(Register) = 5
  BY DEF Register, Steps
<1>6. Planned(Register)
  <2>1. \A i \in 1 .. Len(Register) : i \in {1, 2, 3, 4, 5}
    BY <1>5
  <2> QED
    BY <2>1 DEF Planned, Register, Before, Follower
<1>7. /\ Authorize \in Seq(Steps) /\ Authorize # << >> /\ Len(Authorize) = 4
      /\ Head(Authorize) = "create" /\ Authorize[Len(Authorize)] = "cache"
  BY DEF Authorize, Steps
<1>8. Planned(Authorize)
  <2>1. \A i \in 1 .. Len(Authorize) : i \in {1, 2, 3, 4}
    BY <1>7
  <2> QED
    BY <2>1 DEF Planned, Authorize, Before, Follower
<1> QED
  BY <1>1, <1>2, <1>3, <1>4, <1>5, <1>6, <1>7, <1>8

(* What may come once the first step, x, has been taken.                   *)
LEMMA Upcoming ==
    ASSUME TypeOK, JobsOK, NEW a \in Actors, NEW x, At(a, x)
    PROVE  LET t == Tail(job[a].todo) IN
           /\ x \in Steps /\ job[a] \in Jobs /\ t \in Seq(Steps) /\ Planned(t)
           /\ Starts(t, Own) => x \in {"create", "wait", "put"}
           /\ Starts(t, Handled) => x \in Handled \union {"new"}
           /\ Starts(t, Unhandled) => x \in Unhandled
           /\ x \in DOMAIN Follower => t # << >> /\ Head(t) = Follower[x]
           /\ x \in Handled => job[a].h \in Handlers
           /\ x \in Unhandled => job[a].h = Nobody
<1> DEFINE s == job[a].todo
           t == Tail(s)
<1>1. job[a] \in Jobs /\ s \in Seq(Steps) /\ s # << >> /\ Head(s) = x /\ ShapeOK(job[a])
  BY DEF TypeOK, JobsOK, At, Jobs
<1>2. Planned(s) /\ (x \in Handled => job[a].h \in Handlers) /\ (x \in Unhandled => job[a].h = Nobody)
  BY <1>1 DEF ShapeOK, Heads, Starts
<1>3. /\ x \in Steps /\ t \in Seq(Steps) /\ Planned(t)
      /\ t # << >> /\ Head(t) \in DOMAIN Before => x \in Before[Head(t)]
      /\ x \in DOMAIN Follower => t # << >> /\ Head(t) = Follower[x]
  BY <1>1, <1>2, PlanTail
<1> HIDE DEF s, t
<1>4. /\ Starts(t, Own) => x \in {"create", "wait", "put"}
      /\ Starts(t, Handled) => x \in Handled \union {"new"}
      /\ Starts(t, Unhandled) => x \in Unhandled
  BY <1>3 DEF Starts, Own, Handled, Unhandled, Before
<1> QED
  BY <1>1, <1>2, <1>3, <1>4 DEF s, t

(* Some steps make the next one, or the next two, unnecessary.             *)
LEMMA UpcomingSecond ==
    ASSUME TypeOK, JobsOK, NEW a \in Actors, NEW x, At(a, x),
           \/ x \in {"uncache", "new", "put"}
           \/ x = "delete" /\ Starts(Tail(job[a].todo), {"delete"})
    PROVE  LET t == Tail(Tail(job[a].todo)) IN
           /\ t \in Seq(Steps) /\ Planned(t) /\ ~Starts(t, Own)
           /\ Starts(t, Handled) => x \in {"new", "put"}
           /\ Starts(t, Unhandled) => x \in Unhandled
           /\ x = "new" => t # << >> /\ Head(t) = "connect"
<1> DEFINE r == Tail(job[a].todo)
           t == Tail(r)
<1>1. /\ r \in Seq(Steps) /\ Planned(r)
      /\ x \in DOMAIN Follower => r # << >> /\ Head(r) = Follower[x]
  BY Upcoming
<1>2. r # << >> /\ Head(r) = [uncache |-> "delete", new |-> "enter", put |-> "cache", delete |-> "delete"][x]
  BY <1>1 DEF Follower, Starts
<1>3. /\ t \in Seq(Steps) /\ Planned(t)
      /\ t # << >> /\ Head(t) \in DOMAIN Before => Head(r) \in Before[Head(t)]
      /\ Head(r) \in DOMAIN Follower => t # << >> /\ Head(t) = Follower[Head(r)]
  BY <1>1, <1>2, PlanTail
<1> HIDE DEF r, t
<1>4. /\ ~Starts(t, Own)
      /\ Starts(t, Handled) => x \in {"new", "put"}
      /\ Starts(t, Unhandled) => x \in Unhandled
      /\ x = "new" => t # << >> /\ Head(t) = "connect"
  BY <1>2, <1>3 DEF Starts, Own, Handled, Unhandled, Before, Follower
<1> QED
  BY <1>3, <1>4 DEF r, t

LEMMA UpcomingThird ==
    ASSUME TypeOK, JobsOK, NEW a \in Actors, At(a, "enter")
    PROVE  LET t == Tail(Tail(Tail(job[a].todo))) IN
           /\ t \in Seq(Steps) /\ Planned(t)
           /\ ~Starts(t, Own) /\ ~Starts(t, Handled) /\ ~Starts(t, Unhandled)
<1> DEFINE r == Tail(job[a].todo)
           s == Tail(r)
           t == Tail(s)
<1>1. r \in Seq(Steps) /\ Planned(r) /\ r # << >> /\ Head(r) = "connect"
  BY Upcoming DEF Follower
<1> HIDE DEF r
<1>2. s \in Seq(Steps) /\ Planned(s) /\ s # << >> /\ Head(s) = "publish"
  BY <1>1, PlanTail DEF Follower
<1>3. /\ t \in Seq(Steps) /\ Planned(t)
      /\ t # << >> /\ Head(t) \in DOMAIN Before => Head(s) \in Before[Head(t)]
  BY <1>2, PlanTail
<1> HIDE DEF s, t
<1>4. ~Starts(t, Own) /\ ~Starts(t, Handled) /\ ~Starts(t, Unhandled)
  BY <1>2, <1>3 DEF Starts, Own, Handled, Unhandled, Before
<1> QED
  BY <1>3, <1>4 DEF r, s, t

-----------------------------------------------------------------------------
(* What most steps do.                                                     *)

(* No flow is asked for again.                                             *)
AskedOnce == \A f \in Flows : fetch'[f] = "unused" => fetch[f] = "unused"

(* An authorization under way keeps what it relies on.                     *)
Steady(j) ==
    /\ Heads(j, {"wait"}) => turn'[j.flow] = -1
    /\ Heads(j, {"put"}) => turn'[j.flow] = 0 /\ Lacks(j.flow, store', hand', saving')
    /\ Heads(j, {"cache"}) => turn'[j.flow] # -1

Calm(j) == ShapeOK(j) /\ ~Heads(j, Own)

(* The actors but a go on, or are not authorizing; a is where it may be.   *)
LEMMA JobsKept ==
    ASSUME TypeOK, JobsOK, AskedOnce,
           \A f \in Flows : fetch'[f] = "unused" => turn'[f] = -1,
           NEW A \in SUBSET Actors,
           \A b \in Actors \ A : (job'[b] = job[b] /\ Steady(job[b])) \/ Calm(job'[b]),
           \A a \in A : \A y : y = job'[a] =>
               /\ ShapeOK(y) /\ FlowOK(y)'
               /\ \A b \in Actors \ {a} : b \notin A /\ Heads(y, Own) /\ Heads(job[b], Own) =>
                      y.flow # job[b].flow,
           \A a, b \in A : a = b
    PROVE  JobsOK'
<1>1. ASSUME NEW b \in Actors PROVE ShapeOK(job[b])' /\ FlowOK(job[b])'
  <2>1. CASE b \in A
    <3>1. ShapeOK(job'[b])
      BY <2>1
    <3>2. \A y : y = job'[b] => FlowOK(y)'
      BY <2>1
    <3>3. FlowOK(job[b])'
      BY <3>2 DEF FlowOK, Unheld, Lacks
    <3> QED
      BY <3>1, <3>3 DEF ShapeOK, Heads, Starts, Planned
  <2>2. CASE Calm(job'[b])
    BY <2>2 DEF Calm, ShapeOK, FlowOK, Heads, Starts, Own, Planned
  <2>3. CASE job'[b] = job[b] /\ Steady(job[b])
    <3>1. PICK j : j = job[b]
      OBVIOUS
    <3>2. ShapeOK(j) /\ FlowOK(j) /\ Steady(j) /\ job'[b] = j
      BY <2>3, <3>1 DEF JobsOK
    <3>3. FlowOK(j)'
      <4>1. ASSUME Heads(j, Own) PROVE j.flow \in Flows /\ fetch'[j.flow] # "unused"
        BY <4>1, <3>2 DEF FlowOK, Steady, AskedOnce
      <4>2. /\ Heads(j, {"wait"}) => turn'[j.flow] = -1
            /\ Heads(j, {"put"}) => turn'[j.flow] = 0 /\ Unheld(j.flow)'
            /\ Heads(j, {"cache"}) => turn'[j.flow] # -1
        BY <3>2 DEF Steady, Unheld
      <4> QED
        BY <4>1, <4>2 DEF FlowOK, Heads, Starts
    <3>4. ShapeOK(job[b])'
      BY <3>2 DEF ShapeOK, Heads, Starts, Planned
    <3>5. \A y : y = job'[b] => FlowOK(y)'
      BY <3>2, <3>3
    <3>6. FlowOK(job[b])'
      BY <3>5 DEF FlowOK, Unheld, Lacks
    <3> QED
      BY <3>4, <3>6
  <2> QED
    BY <2>1, <2>2, <2>3
<1>2. ASSUME NEW b \in Actors, NEW c \in Actors, b # c, Heads(job'[b], Own), Heads(job'[c], Own)
      PROVE  job'[b].flow # job'[c].flow
  <2>1. \A d \in {b, c} : d \in A \/ job'[d] = job[d]
    BY <1>2 DEF Calm
  <2>2. ~(b \in A /\ c \in A)
    BY <1>2
  <2>3. CASE b \notin A /\ c \notin A
    BY <2>1, <2>3, <1>2 DEF JobsOK
  <2>4. CASE b \in A /\ c \notin A
    BY <2>1, <2>4, <1>2
  <2>5. CASE c \in A /\ b \notin A
    BY <2>1, <2>5, <1>2
  <2> QED
    BY <2>2, <2>3, <2>4, <2>5
<1>3. \A b, c \in Actors : b # c /\ Heads(job[b], Own)' /\ Heads(job[c], Own)' => job'[b].flow # job'[c].flow
  BY <1>2 DEF Heads, Starts
<1> QED
  BY <1>1, <1>3 DEF JobsOK

(* Tokens stay where they are or are forgotten.                            *)
Forgetful ==
    /\ \A h \in Handlers : hand'[h] \in {hand[h], NoHandler}
    /\ UNCHANGED <<store, saving, turn, revoked, lossy>>

LEMMA ForgetfulKeeps ==
    ASSUME TypeOK, KeepOK, Forgetful
    PROVE  KeepOK' /\ \A f \in Flows : Unheld(f) => Lacks(f, store', hand', saving')
<1>1. NoHandler.source = "none" /\ NoHandler.token = NoToken /\ NoToken.grant = Nobody
  BY DEF NoHandler, Handler, NoToken
<1>2. \A f : Exempt(f)' <=> Exempt(f)
  BY DEF Forgetful, Exempt
<1>3. StoreKeepsUp'
  <2>1. \A g : Behind(g)' <=> Behind(g)
    BY DEF Forgetful, Behind
  <2> QED
    BY <2>1 DEF Forgetful, StoreKeepsUp, KeepOK, InBounds, LastOfGrant
<1>4. \A tok : Reached(tok)' <=> Reached(tok)
  BY DEF Forgetful, Reached
<1>5. \A h \in Handlers :
          /\ hand'[h] = hand[h] \/ (hand'[h].source = "none" /\ hand'[h].token = NoToken)
          /\ saving'[h] = saving[h]
  BY <1>1 DEF Forgetful
<1>6. Reached(NoToken) /\ store' = store
  BY DEF Reached, Forgetful
<1>7. Reached(store)' /\ \A h \in Handlers :
          /\ Reached(hand[h].token)' /\ Reached(saving[h])'
          /\ hand'[h].source = "none" <=> hand'[h].token = NoToken
          /\ saving'[h] # NoToken => saving'[h].turn >= 1
  <2>1. SUFFICES ASSUME NEW h \in Handlers
                 PROVE  /\ Reached(hand[h].token)' /\ Reached(saving[h])'
                        /\ hand'[h].source = "none" <=> hand'[h].token = NoToken
                        /\ saving'[h] # NoToken => saving'[h].turn >= 1
    BY <1>6 DEF KeepOK, InBounds, LastOfGrant, Reached, Forgetful
  <2> QED
    BY <1>5 DEF KeepOK, InBounds, LastOfGrant, Reached, Forgetful
<1>8. \A h \in Handlers : saving'[h] # NoToken /\ ~Exempt(saving[h].grant)' =>
          /\ saving'[h].turn = turn'[saving'[h].grant]
          /\ store' # saving'[h]
          /\ \A k \in Handlers \ {h} :
                saving'[k].grant # saving'[h].grant /\ hand'[k].token # saving'[h]
  <2>1. SUFFICES ASSUME NEW h \in Handlers, saving[h] # NoToken, ~Exempt(saving[h].grant)
                 PROVE  /\ saving[h].turn = turn[saving[h].grant]
                        /\ store # saving[h]
                        /\ \A k \in Handlers \ {h} :
                              saving[k].grant # saving[h].grant /\ hand'[k].token # saving[h]
    BY <1>5 DEF Forgetful, Exempt
  <2> QED
    BY <2>1, <1>5 DEF KeepOK, InBounds, LastOfGrant
<1>9. KeepOK'
  BY <1>3, <1>7, <1>8 DEF KeepOK, InBounds, LastOfGrant
<1>14. \A f \in Flows : Unheld(f) => Lacks(f, store', hand', saving')
  BY <1>1, <1>5, CallbacksAssumption DEF Unheld, Lacks, Forgetful
<1> QED
  BY <1>9, <1>14

LEMMA Unspent == UNCHANGED registry => AskedOnce /\ (RegistryOK => RegistryOK')
BY DEF registry, AskedOnce, RegistryOK

(* A step that leaves the registry alone, and makes nobody authorize.      *)
Light ==
    /\ TypeOK' /\ Forgetful /\ UNCHANGED registry
    /\ \A b \in Actors : job'[b] = job[b] \/ Calm(job'[b])

LEMMA SteadyKept ==
    ASSUME TypeOK, JobsOK, turn' = turn,
           \A f \in Flows : Unheld(f) => Lacks(f, store', hand', saving')
    PROVE  \A b \in Actors : Steady(job[b])
<1>1. SUFFICES ASSUME NEW b \in Actors, NEW j, j = job[b]
               PROVE  Steady(j)
  OBVIOUS
<1>2. FlowOK(j) /\ (Heads(j, {"put"}) => Heads(j, Own))
  BY <1>1 DEF JobsOK, Heads, Starts, Own
<1> QED
  BY <1>2 DEF FlowOK, Steady

LEMMA ForgetfulStep ==
    ASSUME IInv, TypeOK', RegistryOK', AskedOnce, Forgetful,
           \A b \in Actors : job'[b] = job[b] \/ Calm(job'[b])
    PROVE  IInv'
<1>1. KeepOK' /\ \A f \in Flows : Unheld(f) => Lacks(f, store', hand', saving')
  BY ForgetfulKeeps DEF IInv
<1>3. turn' = turn
  BY DEF Forgetful
<1>4. \A b \in Actors : Steady(job[b])
  BY <1>1, <1>3, SteadyKept DEF IInv
<1>5. \A f \in Flows : fetch'[f] = "unused" => turn'[f] = -1
  BY <1>3 DEF IInv, JobsOK, AskedOnce
<1>6. JobsOK'
  <2>1. \A b \in Actors : (job'[b] = job[b] /\ Steady(job[b])) \/ Calm(job'[b])
    BY <1>4
  <2> QED
    BY <2>1, <1>5, JobsKept, {} \in SUBSET Actors DEF IInv
<1> QED
  BY <1>1, <1>6 DEF IInv

LEMMA LightKeeps == ASSUME IInv, Light PROVE IInv'
BY Unspent, ForgetfulStep DEF IInv, Light

(* An actor goes on with another list of steps.                            *)
LEMMA Goes ==
    ASSUME TypeOK, NEW a \in Actors, NEW t \in Seq(Steps), Go(a, t)
    PROVE  /\ job' \in [Actors -> Jobs]
           /\ job'[a].todo = t /\ job'[a].h = job[a].h /\ job'[a].flow = job[a].flow
           /\ \A b \in Actors \ {a} : job'[b] = job[b]
<1> DEFINE y == [job[a] EXCEPT !.todo = t]
<1>1. job[a] \in Jobs
  BY DEF TypeOK
<1>2. y \in Jobs /\ y.todo = t /\ y.h = job[a].h /\ y.flow = job[a].flow
  BY <1>1 DEF Jobs
<1>3. job' = [job EXCEPT ![a] = y]
  BY DEF Go
<1> HIDE DEF y
<1>4. job'[a] = y /\ \A b \in Actors \ {a} : job'[b] = job[b]
  BY <1>3 DEF TypeOK
<1>5. job' \in [Actors -> Jobs]
  BY <1>2, <1>3 DEF TypeOK
<1> QED
  BY <1>2, <1>4, <1>5

(* And ends.                                                               *)
LEMMA Ends ==
    ASSUME TypeOK, NEW a \in Actors, job' = [job EXCEPT ![a] = Idle]
    PROVE  /\ job' \in [Actors -> Jobs]
           /\ job'[a].h = Nobody /\ Calm(job'[a])
           /\ \A b \in Actors \ {a} : job'[b] = job[b]
<1>1. Idle \in Jobs /\ Idle.h = Nobody /\ Calm(Idle)
  BY Lists DEF Idle, Jobs, Calm, ShapeOK, Heads, Starts
<1> HIDE DEF Idle
<1>2. job'[a] = Idle /\ \A b \in Actors \ {a} : job'[b] = job[b]
  BY DEF TypeOK
<1>3. job' \in [Actors -> Jobs]
  BY <1>1 DEF TypeOK
<1> QED
  BY <1>1, <1>2, <1>3

(* What nobody refers to is wiped; the rest stays.                         *)
LEMMA Sweeping ==
    ASSUME TypeOK, Swept
    PROVE  /\ hand' \in [Handlers -> [source : {"none", "notify", "plain"}, token : Tokens]]
           /\ \A h \in Handlers : hand'[h] \in {hand[h], NoHandler}
<1>1. NoHandler \in [source : {"none", "notify", "plain"}, token : Tokens]
  BY DEF NoHandler, Handler, NoToken, Tokens
<1>2. \A h \in Handlers : hand'[h] \in {hand[h], NoHandler}
  BY DEF Swept
<1>3. hand' = [h \in Handlers |-> hand'[h]]
  BY DEF Swept
<1> QED
  BY <1>1, <1>2, <1>3 DEF TypeOK

(* A light step that moves one actor, and what it may change.              *)
LEMMA LightMove ==
    ASSUME IInv, NEW a \in Actors, job' \in [Actors -> Jobs],
           \A b \in Actors \ {a} : job'[b] = job[b],
           Calm(job'[a]),
           UNCHANGED <<registry, store, saving, provider, lossy>>,
           hand' \in [Handlers -> [source : {"none", "notify", "plain"}, token : Tokens]],
           \A h \in Handlers : hand'[h] \in {hand[h], NoHandler},
           live' \in Handlers \union {Absent, Bare}, open' \subseteq Handlers
    PROVE  IInv'
<1>1. TypeOK'
  BY DEF IInv, TypeOK, RegistryTypeOK, registry, provider
<1>4. Forgetful
  BY DEF Forgetful, provider
<1>5. Light
  BY <1>1, <1>4 DEF Light
<1> QED
  BY <1>5, LightKeeps

-----------------------------------------------------------------------------
(* The steps of an operation, one by one.                                  *)

(* A move along the list that starts no authorization.                     *)
LEMMA GoesOn ==
    ASSUME IInv, NEW a \in Actors, NEW t \in Seq(Steps), Go(a, t), Planned(t), ~Starts(t, Own),
           Starts(t, Handled) => job[a].h \in Handlers,
           Starts(t, Unhandled) => job[a].h = Nobody
    PROVE  /\ job' \in [Actors -> Jobs] /\ \A b \in Actors \ {a} : job'[b] = job[b]
           /\ Calm(job'[a]) /\ job'[a].h = job[a].h
<1>1. /\ job' \in [Actors -> Jobs] /\ \A b \in Actors \ {a} : job'[b] = job[b]
      /\ job'[a].todo = t /\ job'[a].h = job[a].h
  BY Goes DEF IInv
<1> QED
  BY <1>1 DEF Calm, ShapeOK, Heads

LEMMA UncacheStep ==
    ASSUME IInv, NEW a \in Actors, Uncache(a)
    PROVE  IInv'
<1> DEFINE s == job[a].todo
<1>1. At(a, "uncache") /\ TypeOK /\ JobsOK
  BY DEF Uncache, IInv
<1>2. /\ Tail(s) \in Seq(Steps) /\ Planned(Tail(s)) /\ Tail(s) # << >> /\ Head(Tail(s)) = "delete"
      /\ job[a].h = Nobody
      /\ ~Starts(Tail(s), Own) /\ ~Starts(Tail(s), Handled)
  BY <1>1, Upcoming DEF Handled, Unhandled, Follower
<1>3. /\ Tail(Tail(s)) \in Seq(Steps) /\ Planned(Tail(Tail(s)))
      /\ ~Starts(Tail(Tail(s)), Own) /\ ~Starts(Tail(Tail(s)), Handled)
  BY <1>1, UpcomingSecond
<1>4. LET d == <<"delete">> \o Tail(s) IN
         d \in Seq(Steps) /\ Planned(d) /\ ~Starts(d, Own) /\ ~Starts(d, Handled)
  <2>1. /\ <<"delete">> \in Seq(Steps) /\ Planned(<<"delete">>) /\ <<"delete">> # << >>
        /\ Head(<<"delete">>) = "delete" /\ <<"delete">>[Len(<<"delete">>)] = "delete"
    BY Lists DEF Steps, Follower
  <2>2. "delete" \in Before["delete"]
    BY DEF Before
  <2> HIDE DEF s
  <2> QED
    BY <2>1, <2>2, <1>2, PlanJoin DEF Starts, Own, Handled
<1>5. PICK t \in Seq(Steps) : Go(a, t) /\ Planned(t) /\ ~Starts(t, Own) /\ ~Starts(t, Handled)
  BY <1>2, <1>3, <1>4 DEF Uncache
<1>6. /\ job' \in [Actors -> Jobs] /\ \A b \in Actors \ {a} : job'[b] = job[b]
      /\ Calm(job'[a]) /\ job'[a].h = job[a].h
  BY <1>2, <1>5, GoesOn
<1>7. /\ hand' \in [Handlers -> [source : {"none", "notify", "plain"}, token : Tokens]]
      /\ \A h \in Handlers : hand'[h] \in {hand[h], NoHandler}
  <2>1. NoHandler \in [source : {"none", "notify", "plain"}, token : Tokens]
    BY DEF NoHandler, Handler, NoToken, Tokens
  <2> QED
    BY <2>1, <1>1 DEF Uncache, TypeOK
<1> QED
  BY <1>6, <1>7, <1>1, LightMove DEF Uncache, TypeOK, provider

LEMMA LookUpStep ==
    ASSUME IInv, NEW a \in Actors, LookUp(a)
    PROVE  IInv'
<1> DEFINE s == job[a].todo
<1>1. At(a, "lookup") /\ TypeOK /\ JobsOK
  BY DEF LookUp, IInv
<1>2. /\ Tail(s) \in Seq(Steps) /\ Planned(Tail(s)) /\ job[a] \in Jobs
      /\ ~Starts(Tail(s), Own) /\ ~Starts(Tail(s), Handled) /\ ~Starts(Tail(s), Unhandled)
  BY <1>1, Upcoming DEF Handled, Unhandled
<1> DEFINE y == [job[a] EXCEPT !.todo = Tail(@), !.again = live # Absent]
<1>3. (live # Absent) \in BOOLEAN
  OBVIOUS
<1>4. y \in Jobs /\ y.todo = Tail(s) /\ y.h = job[a].h
  BY <1>2, <1>3 DEF Jobs
<1>5. job' = [job EXCEPT ![a] = y]
  BY DEF LookUp
<1> HIDE DEF y, s
<1>6. Calm(y)
  BY <1>2, <1>4 DEF Calm, ShapeOK, Heads
<1>7. /\ job' \in [Actors -> Jobs] /\ \A b \in Actors \ {a} : job'[b] = job[b]
      /\ Calm(job'[a]) /\ job'[a].h = job[a].h
  BY <1>1, <1>4, <1>5, <1>6 DEF TypeOK
<1> QED
  BY <1>1, <1>7, LightMove DEF LookUp, tokens, TypeOK

LEMMA EnterStep ==
    ASSUME IInv, NEW a \in Actors, Enter(a)
    PROVE  IInv'
<1> DEFINE s == job[a].todo
<1>1. At(a, "enter") /\ TypeOK /\ JobsOK /\ Swept
  BY DEF Enter, IInv
<1>2. /\ Tail(s) \in Seq(Steps) /\ Planned(Tail(s)) /\ job[a].h \in Handlers
      /\ ~Starts(Tail(s), Own) /\ ~Starts(Tail(s), Unhandled)
  BY <1>1, Upcoming DEF Handled, Unhandled
<1>3. LET t == Tail(Tail(Tail(s))) IN
         t \in Seq(Steps) /\ Planned(t) /\ ~Starts(t, Own) /\ ~Starts(t, Unhandled)
  BY <1>1, UpcomingThird
<1>4. PICK t \in Seq(Steps) : Go(a, t) /\ Planned(t) /\ ~Starts(t, Own) /\ ~Starts(t, Unhandled)
  BY <1>2, <1>3 DEF Enter
<1>5. /\ job' \in [Actors -> Jobs] /\ \A b \in Actors \ {a} : job'[b] = job[b]
      /\ Calm(job'[a]) /\ job'[a].h = job[a].h
  BY <1>2, <1>4, GoesOn
<1> QED
  BY <1>1, <1>2, <1>5, Sweeping, LightMove DEF Enter, TypeOK

LEMMA PublishStep ==
    ASSUME IInv, NEW a \in Actors, Publish(a)
    PROVE  IInv'
<1> DEFINE s == job[a].todo
<1>1. At(a, "publish") /\ TypeOK /\ JobsOK /\ Swept
  BY DEF Publish, IInv
<1>2. /\ Tail(s) \in Seq(Steps) /\ Planned(Tail(s)) /\ job[a].h \in Handlers
      /\ ~Starts(Tail(s), Own) /\ ~Starts(Tail(s), Unhandled)
  BY <1>1, Upcoming DEF Handled, Unhandled
<1>3. /\ job' \in [Actors -> Jobs] /\ \A b \in Actors \ {a} : job'[b] = job[b]
      /\ Calm(job'[a])
  BY <1>1, <1>2, GoesOn, Ends DEF Publish, Advance
<1> QED
  BY <1>1, <1>2, <1>3, Sweeping, LightMove DEF Publish, TypeOK

LEMMA ConnectStep ==
    ASSUME IInv, NEW a \in Actors, Connect(a)
    PROVE  IInv'
<1> DEFINE s == job[a].todo
<1>1. At(a, "connect") /\ TypeOK /\ JobsOK /\ Swept
  BY DEF Connect, IInv
<1>2. /\ Tail(s) \in Seq(Steps) /\ Planned(Tail(s)) /\ job[a].h \in Handlers
      /\ ~Starts(Tail(s), Own) /\ ~Starts(Tail(s), Unhandled)
      /\ s \in Seq(Steps) /\ Planned(s) /\ s # << >> /\ Head(s) = "connect"
  <2>1. job[a] \in Jobs /\ ShapeOK(job[a])
    BY <1>1 DEF TypeOK, JobsOK
  <2>2. s \in Seq(Steps) /\ Planned(s) /\ s # << >> /\ Head(s) = "connect"
    BY <1>1, <2>1 DEF ShapeOK, Jobs, At
  <2> QED
    BY <1>1, <2>2, Upcoming DEF Handled, Unhandled
<1>3. LET t == Authorize \o s IN
         t \in Seq(Steps) /\ Planned(t) /\ ~Starts(t, Own) /\ ~Starts(t, Unhandled)
  <2>1. "cache" \in Before["connect"]
    BY DEF Before
  <2> HIDE DEF s
  <2> QED
    <3>1. /\ Authorize \in Seq(Steps) /\ Planned(Authorize) /\ Authorize # << >>
          /\ Head(Authorize) = "create" /\ Authorize[Len(Authorize)] \in Before[Head(s)]
      BY <2>1, <1>2, Lists
    <3>2. LET t == Authorize \o s IN
             t \in Seq(Steps) /\ Planned(t) /\ Head(t) = "create"
      BY <3>1, <1>2, PlanJoin
    <3> QED
      BY <3>2 DEF Starts, Own, Unhandled
<1>4. CASE \E t \in Seq(Steps) : Go(a, t) /\ Planned(t) /\ ~Starts(t, Own) /\ ~Starts(t, Unhandled)
  <2>1. /\ job' \in [Actors -> Jobs] /\ \A b \in Actors \ {a} : job'[b] = job[b]
        /\ Calm(job'[a]) /\ job'[a].h = job[a].h
    BY <1>2, <1>4, GoesOn
  <2> QED
    BY <1>1, <2>1, Sweeping, LightMove DEF Connect, TypeOK
<1>5. CASE job' = [job EXCEPT ![a] = Idle]
  <2>1. /\ job' \in [Actors -> Jobs] /\ \A b \in Actors \ {a} : job'[b] = job[b]
        /\ Calm(job'[a]) /\ job'[a].h = Nobody
    BY <1>1, <1>5, Ends
  <2> QED
    BY <1>1, <2>1, Sweeping, LightMove DEF Connect, TypeOK
<1>6. (\E t \in Seq(Steps) : Go(a, t) /\ Planned(t) /\ ~Starts(t, Own) /\ ~Starts(t, Unhandled))
          \/ job' = [job EXCEPT ![a] = Idle]
  BY <1>2, <1>3 DEF Connect, Advance
<1> QED
  BY <1>4, <1>5, <1>6

LEMMA CheckStep ==
    ASSUME IInv, NEW a \in Actors, Check(a)
    PROVE  IInv'
<1>1. At(a, "check") /\ TypeOK /\ JobsOK /\ Swept
  BY DEF Check, IInv
<1>2. LET t == Authorize \o Register IN
         t \in Seq(Steps) /\ Planned(t) /\ ~Starts(t, Own) /\ ~Starts(t, Unhandled)
  <2>1. "lookup" \notin DOMAIN Before
    BY DEF Before
  <2> QED
    BY <2>1, Lists, PlanJoin DEF Starts, Own, Unhandled
<1>3. CASE live \in Handlers /\ job' = [job EXCEPT ![a].todo = Authorize \o Register, ![a].h = live]
  <2> DEFINE y == [job[a] EXCEPT !.todo = Authorize \o Register, !.h = live]
  <2>1. y \in Jobs /\ y.todo = Authorize \o Register /\ y.h = live
    BY <1>1, <1>2, <1>3 DEF Jobs, TypeOK
  <2>2. job' = [job EXCEPT ![a] = y]
    BY <1>3
  <2> HIDE DEF y
  <2>3. Calm(y)
    BY <2>1, <1>2, <1>3 DEF Calm, ShapeOK, Heads
  <2>4. /\ job' \in [Actors -> Jobs] /\ \A b \in Actors \ {a} : job'[b] = job[b]
        /\ Calm(job'[a]) /\ job'[a].h = live
    BY <1>1, <2>1, <2>2, <2>3 DEF TypeOK
  <2> QED
    BY <1>1, <2>4, Sweeping, LightMove DEF Check, TypeOK
<1>4. CASE job' = [job EXCEPT ![a] = Idle]
  <2>1. /\ job' \in [Actors -> Jobs] /\ \A b \in Actors \ {a} : job'[b] = job[b]
        /\ Calm(job'[a]) /\ job'[a].h = Nobody
    BY <1>1, <1>4, Ends
  <2> QED
    BY <1>1, <2>1, Sweeping, LightMove DEF Check, TypeOK
<1> QED
  BY <1>3, <1>4 DEF Check

LEMMA FinishStep ==
    ASSUME IInv, NEW a \in Actors, Finish(a)
    PROVE  IInv'
<1>1. TypeOK /\ Swept /\ job' = [job EXCEPT ![a] = Idle]
  BY DEF Finish, IInv
<1>2. /\ job' \in [Actors -> Jobs] /\ \A b \in Actors \ {a} : job'[b] = job[b]
      /\ Calm(job'[a]) /\ job'[a].h = Nobody
  BY <1>1, Ends
<1> QED
  BY <1>1, <1>2, Sweeping, LightMove DEF Finish, TypeOK

(* The steps only the operator takes.                                      *)
LEMMA OperatorStep ==
    ASSUME IInv, Unregister \/ Placeholder \/ WriteFile
    PROVE  IInv'
<1> DEFINE s == job[Operator].todo
<1>1. TypeOK /\ JobsOK /\ Operator \in Actors
  BY DEF IInv, Actors
<1>2. ASSUME NEW x \in {"unregister", "bare", "save", "erase"}, At(Operator, x), Advance(Operator)
      PROVE  /\ job' \in [Actors -> Jobs] /\ \A b \in Actors \ {Operator} : job'[b] = job[b]
             /\ Calm(job'[Operator]) /\ job'[Operator].h = job[Operator].h
  <2>1. /\ Tail(s) \in Seq(Steps) /\ Planned(Tail(s)) /\ ~Starts(Tail(s), Own)
        /\ ~Starts(Tail(s), Handled) /\ ~Starts(Tail(s), Unhandled)
    BY <1>1, <1>2, Upcoming DEF Handled, Unhandled
  <2> QED
    BY <1>1, <1>2, <2>1, GoesOn DEF Advance
<1>3. CASE Unregister
  <2>1. /\ job' \in [Actors -> Jobs] /\ \A b \in Actors \ {Operator} : job'[b] = job[b]
        /\ Calm(job'[Operator]) /\ job'[Operator].h = job[Operator].h /\ Swept
    BY <1>2, <1>3 DEF Unregister
  <2> QED
    BY <1>1, <1>3, <2>1, Sweeping, LightMove DEF Unregister, TypeOK
<1>4. CASE Placeholder
  <2>1. /\ job' \in [Actors -> Jobs] /\ \A b \in Actors \ {Operator} : job'[b] = job[b]
        /\ Calm(job'[Operator]) /\ job'[Operator].h = job[Operator].h
    BY <1>2, <1>4 DEF Placeholder
  <2> QED
    BY <1>1, <1>4, <2>1, LightMove DEF Placeholder, TypeOK
<1>5. CASE WriteFile
  <2>1. /\ job' \in [Actors -> Jobs] /\ \A b \in Actors \ {Operator} : job'[b] = job[b]
        /\ Calm(job'[Operator]) /\ job'[Operator].h = job[Operator].h
    BY <1>2, <1>5 DEF WriteFile
  <2> QED
    BY <1>1, <1>5, <2>1, LightMove DEF WriteFile, TypeOK, tokens
<1> QED
  BY <1>3, <1>4, <1>5

(* A request or an operation begins.                                       *)
LEMMA BeginStep ==
    ASSUME IInv, NEW a \in Actors, NEW t \in Seq(Steps), Begin(a, t),
           Planned(t), ~Starts(t, Own), ~Starts(t, Handled)
    PROVE  IInv'
<1>1. TypeOK /\ Go(a, t) /\ job[a].h = Nobody
  BY DEF IInv, Begin, Go, Busy, Idle
<1>2. /\ job' \in [Actors -> Jobs] /\ \A b \in Actors \ {a} : job'[b] = job[b]
      /\ Calm(job'[a]) /\ job'[a].h = job[a].h
  BY <1>1, GoesOn
<1> QED
  BY <1>1, <1>2, LightMove DEF Begin, TypeOK, tokens

LEMMA Operations1 ==
    LET Opens(t) == t \in Seq(Steps) /\ Planned(t) /\ ~Starts(t, Own) /\ ~Starts(t, Handled) IN
    /\ Opens(Clear)
    /\ Opens(Clear \o Register \o <<"check">>)
    /\ Opens(<<"unregister", "bare">> \o Register)
    /\ Opens(<<"unregister">> \o Register)
    /\ Opens(Clear \o (<<"unregister">> \o Register))
    /\ Opens(Clear \o <<"unregister", "erase">>)
    /\ Opens(Clear \o (Register \o <<"save">>))
<1> DEFINE Sure(t) == /\ t \in Seq(Steps) /\ Planned(t) /\ t # << >>
                      /\ Head(t) \in {"uncache", "unregister", "lookup", "check", "save"}
           Plain(t) == Sure(t) /\ Head(t) \notin DOMAIN Before
           Opens(t) == t \in Seq(Steps) /\ Planned(t) /\ ~Starts(t, Own) /\ ~Starts(t, Handled)
<1>1. \A s, t : Sure(s) /\ Plain(t) => Sure(s \o t) /\ Head(s \o t) = Head(s)
  BY PlanJoin
<1>2. \A t : Sure(t) => Opens(t)
  BY DEF Starts, Own, Handled
<1>3. Sure(Clear) /\ Plain(Register) /\ Plain(<<"check">>) /\ Plain(<<"save">>) /\ Plain(<<"unregister">>)
  BY Lists DEF Before, Steps, Follower
<1>4. Plain(<<"unregister", "bare">>) /\ Plain(<<"unregister", "erase">>)
  <2>1. \A x \in {"bare", "erase"} :
           /\ <<"unregister", x>> \in Seq(Steps) /\ <<"unregister", x>> # << >>
           /\ Head(<<"unregister", x>>) = "unregister" /\ Len(<<"unregister", x>>) = 2
    BY DEF Steps
  <2>2. \A x \in {"bare", "erase"} : Planned(<<"unregister", x>>)
    <3>1. SUFFICES ASSUME NEW x \in {"bare", "erase"}, NEW i \in {1, 2}
          PROVE /\ <<"unregister", x>>[i] \notin DOMAIN Before
                /\ <<"unregister", x>>[i] \notin DOMAIN Follower
      BY <2>1 DEF Planned
    <3> QED
      BY DEF Before, Follower
  <2> QED
    BY <2>1, <2>2 DEF Before
<1> HIDE DEF Sure, Opens
<1>5. \A s, t : Plain(s) /\ Plain(t) => Plain(s \o t)
  BY <1>1
<1>6. Sure(Clear \o Register) /\ Sure(Clear \o <<"unregister">>)
  BY <1>1, <1>3
<1> QED
  BY <1>1, <1>2, <1>3, <1>4, <1>5, <1>6 DEF Opens

(* What an operation has to do.                                            *)
LEMMA Operated ==
    ASSUME NEW op \in Operations, Operate(op)
    PROVE  \/ /\ Begin(Operator, <<"unregister", "bare">> \o Register) \/ Begin(Operator, <<"unregister">> \o Register)
              /\ Join(Operator)
           \/ /\ \/ Begin(Operator, Clear \o (<<"unregister">> \o Register))
                 \/ Begin(Operator, Clear \o <<"unregister", "erase">>)
                 \/ Begin(Operator, Clear \o (Register \o <<"save">>))
              /\ ThrowAway(Operator)
<1>1. \A t \in Seq(Steps) : <<>> \o t = t
  OBVIOUS
<1>2. <<"unregister", "bare">> \o Register \in Seq(Steps) /\ <<"unregister">> \o Register \in Seq(Steps)
  BY DEF Register, Steps
<1>3. CASE op = "restart"
  BY <1>1, <1>2, <1>3 DEF Operate, Purge
<1>4. CASE op = "edit"
  BY <1>1, <1>2, <1>4 DEF Operate, Purge
<1>5. CASE op = "update"
  BY <1>5 DEF Operate, Purge
<1>6. CASE op = "remove"
  BY <1>6 DEF Operate, Purge
<1>7. CASE op = "add"
  BY <1>7 DEF Operate, Purge
<1> QED
  BY <1>3, <1>4, <1>5, <1>6, <1>7 DEF Operations

LEMMA RequestStep ==
    ASSUME IInv,
           \/ \E a \in Actors : RequestConnect(a)
           \/ RequestRevoke
           \/ \E op \in Operations : Operate(op)
    PROVE  IInv'
<1>1. PICK a \in Actors, t \in Seq(Steps) :
          Begin(a, t) /\ Planned(t) /\ ~Starts(t, Own) /\ ~Starts(t, Handled)
  <2>1. ASSUME NEW b \in Actors, RequestConnect(b) PROVE Begin(b, Clear \o Register \o <<"check">>)
    BY <2>1 DEF RequestConnect
  <2>2. ASSUME RequestRevoke PROVE Revoker \in Actors /\ Begin(Revoker, Clear)
    BY <2>2 DEF RequestRevoke, Actors
  <2>3. ASSUME NEW op \in Operations, Operate(op)
        PROVE  \/ Begin(Operator, <<"unregister", "bare">> \o Register)
               \/ Begin(Operator, <<"unregister">> \o Register)
               \/ Begin(Operator, Clear \o (<<"unregister">> \o Register))
               \/ Begin(Operator, Clear \o <<"unregister", "erase">>)
               \/ Begin(Operator, Clear \o (Register \o <<"save">>))
    BY <2>3, Operated
  <2>4. Operator \in Actors
    BY DEF Actors
  <2> QED
    BY <2>1, <2>2, <2>3, <2>4, Operations1
<1> QED
  BY <1>1, BeginStep

LEMMA ChallengeStep ==
    ASSUME IInv, NEW h \in Handlers, Challenge(h)
    PROVE  IInv'
<1> DEFINE y == [job[Caller] EXCEPT !.todo = Authorize, !.h = h]
<1>1. TypeOK /\ Caller \in Actors /\ job[Caller] \in Jobs
  BY DEF IInv, Actors, TypeOK
<1>2. y \in Jobs /\ y.todo = Authorize /\ y.h = h
  BY <1>1, Lists DEF Jobs
<1>3. job' = [job EXCEPT ![Caller] = y]
  BY DEF Challenge
<1> HIDE DEF y
<1>4. Calm(y)
  BY <1>2, Lists DEF Calm, ShapeOK, Heads, Starts, Own, Unhandled
<1>5. /\ job' \in [Actors -> Jobs] /\ \A b \in Actors \ {Caller} : job'[b] = job[b]
      /\ Calm(job'[Caller]) /\ job'[Caller].h \in open
  BY <1>1, <1>2, <1>3, <1>4 DEF TypeOK, Challenge
<1> QED
  BY <1>1, <1>5, LightMove DEF Challenge, TypeOK, tokens

LEMMA DrainedStep ==
    ASSUME IInv, NEW h \in Handlers, Drained(h)
    PROVE  IInv'
<1>1. TypeOK /\ Swept
  BY DEF IInv, Drained
<1>2. TypeOK'
  BY <1>1, Sweeping DEF Drained, TypeOK, RegistryTypeOK, registry, provider
<1>4. Light
  BY <1>1, <1>2, Sweeping DEF Drained, Light, Forgetful, provider
<1> QED
  BY <1>4, LightKeeps

-----------------------------------------------------------------------------
(* The registry.                                                           *)

LEMMA Moving ==
    ASSUME RegistryTypeOK, NEW f \in Flows, NEW stage \in Stages, Moved(f, stage)
    PROVE  /\ fetch' \in [Flows -> Stages] /\ fetch'[f] = stage
           /\ \A g \in Flows \ {f} : fetch'[g] = fetch[g]
BY DEF RegistryTypeOK, Moved

LEMMA Closing ==
    ASSUME RegistryTypeOK, NEW fs, done' = Closed(fs)
    PROVE  /\ done' \in [Flows -> [code : BOOLEAN, closed : BOOLEAN]]
           /\ \A g \in Flows : done'[g].code = done[g].code
<1>1. ASSUME NEW g \in Flows
      PROVE  /\ [done[g] EXCEPT !.closed = @ \/ g \in fs] \in [code : BOOLEAN, closed : BOOLEAN]
             /\ [done[g] EXCEPT !.closed = @ \/ g \in fs].code = done[g].code
  <2>1. PICK b : b = (done[g].closed \/ g \in fs)
    OBVIOUS
  <2>2. b \in BOOLEAN
    BY <2>1
  <2>3. [done[g] EXCEPT !.closed = @ \/ g \in fs] = [done[g] EXCEPT !.closed = b]
    BY <2>1
  <2>4. done[g] \in [code : BOOLEAN, closed : BOOLEAN]
    BY DEF RegistryTypeOK
  <2>5. [done[g] EXCEPT !.closed = b] \in [code : BOOLEAN, closed : BOOLEAN]
    BY <2>2, <2>4
  <2>6. [done[g] EXCEPT !.closed = b].code = done[g].code
    BY <2>4
  <2> QED
    BY <2>3, <2>5, <2>6
<1>2. done' = [g \in Flows |-> [done[g] EXCEPT !.closed = @ \/ g \in fs]]
  BY DEF Closed
<1> DEFINE d(g) == [done[g] EXCEPT !.closed = @ \/ g \in fs]
<1>3. done' = [g \in Flows |-> d(g)]
  BY <1>2
<1>4. \A g \in Flows : d(g) \in [code : BOOLEAN, closed : BOOLEAN] /\ d(g).code = done[g].code
  BY <1>1
<1> HIDE DEF d
<1> QED
  BY <1>3, <1>4

(* The fetcher of a flow, or the end of its time.                          *)
LEMMA FetchingKeeps ==
    ASSUME RegistryTypeOK, RegistryOK, NEW f \in Flows, Fetching(f) \/ TimeOut(f)
    PROVE  RegistryTypeOK' /\ RegistryOK' /\ AskedOnce
<1> USE DEF RegistryTypeOK, Stages
<1>1. CASE SetAuthURL(f) /\ f \in pending
  <2>1. fetch' \in [Flows -> Stages] /\ fetch'[f] = "listed" /\ \A g \in Flows \ {f} : fetch'[g] = fetch[g]
    BY <1>1, Moving DEF SetAuthURL
  <2>2. fetch[f] = "created" /\ byState' = byState \union {f} /\ UNCHANGED <<pending, done, callback>>
    BY <1>1 DEF SetAuthURL
  <2>3. \A c \in Callbacks : callback[c] # f
    BY <2>2, CallbacksAssumption DEF RegistryOK
  <2> QED
    BY <2>1, <2>2, <2>3 DEF RegistryOK, AskedOnce
<1>2. ASSUME NEW stage \in {"waiting", "failed", "lapsed"}, fetch[f] \notin {"unused"}, Moved(f, stage),
             UNCHANGED <<byState, pending, done, callback>>
      PROVE  RegistryTypeOK' /\ RegistryOK' /\ AskedOnce
  <2>1. fetch' \in [Flows -> Stages] /\ fetch'[f] = stage /\ \A g \in Flows \ {f} : fetch'[g] = fetch[g]
    BY <1>2, Moving
  <2> QED
    BY <1>2, <2>1 DEF RegistryOK, AskedOnce
<1>3. CASE SetAuthURL(f) /\ f \notin pending
  BY <1>2, <1>3 DEF SetAuthURL
<1>4. CASE Wait(f)
  BY <1>2, <1>4 DEF Wait
<1>5. CASE TimeOut(f)
  BY <1>2, <1>5 DEF TimeOut
<1>6. CASE Receive(f) /\ ~done[f].code
  BY <1>2, <1>6 DEF Receive
<1>7. CASE Receive(f) /\ done[f].code
  <2>1. fetch' \in [Flows -> Stages] /\ fetch'[f] = "coded" /\ \A g \in Flows \ {f} : fetch'[g] = fetch[g]
    BY <1>7, Moving DEF Receive
  <2>2. /\ fetch[f] = "waiting" /\ done' = [done EXCEPT ![f].code = FALSE]
        /\ UNCHANGED <<pending, byState, callback>>
    BY <1>7 DEF Receive
  <2>3. /\ done' \in [Flows -> [code : BOOLEAN, closed : BOOLEAN]]
        /\ ~done'[f].code /\ \A g \in Flows \ {f} : done'[g] = done[g]
    BY <2>2
  <2>4. f \notin byState
    BY <1>7 DEF RegistryOK
  <2> QED
    BY <2>1, <2>2, <2>3, <2>4 DEF RegistryOK, AskedOnce
<1>8. CASE Forget(f)
  <2>1. fetch' \in [Flows -> Stages] /\ fetch'[f] = "failed" /\ \A g \in Flows \ {f} : fetch'[g] = fetch[g]
    BY <1>8, Moving DEF Forget
  <2>2. /\ done' \in [Flows -> [code : BOOLEAN, closed : BOOLEAN]]
        /\ \A g \in Flows : done'[g].code = done[g].code
    BY <1>8, Closing DEF Forget
  <2>3. fetch[f] = "lapsed" /\ pending' \subseteq pending /\ byState' \subseteq byState /\ callback' = callback
    BY <1>8 DEF Forget
  <2> QED
    BY <2>1, <2>2, <2>3 DEF RegistryOK, AskedOnce
<1> QED
  BY <1>1, <1>3, <1>4, <1>5, <1>6, <1>7, <1>8 DEF Fetching

LEMMA CallbackKeeps ==
    ASSUME RegistryTypeOK, RegistryOK, NEW c \in Callbacks, Send(c) \/ \E f \in Flows : Find(c, f)
    PROVE  RegistryTypeOK' /\ RegistryOK' /\ AskedOnce
<1> USE DEF RegistryTypeOK
<1>1. CASE Send(c)
  <2>1. PICK f : f = callback[c]
    OBVIOUS
  <2>2. f \in Flows /\ fetch[f] \notin {"unused", "created"} /\ f \notin byState
           /\ \A d \in Callbacks \ {c} : callback[d] # f
    BY <1>1, <2>1 DEF Send, RegistryOK
  <2>3. /\ done' \in [Flows -> [code : BOOLEAN, closed : BOOLEAN]]
        /\ \A g \in Flows \ {f} : done'[g] = done[g]
    BY <1>1, <2>1, <2>2 DEF Send
  <2>4. callback' = [callback EXCEPT ![c] = Nobody] /\ UNCHANGED <<pending, byState, fetch>>
    BY <1>1 DEF Send
  <2>5. callback'[c] = Nobody /\ \A d \in Callbacks \ {c} : callback'[d] = callback[d]
    BY <2>4
  <2>6. RegistryOK'
    <3>1. \A g \in Flows : /\ fetch[g] \in {"unused", "created"} => g \notin byState /\ ~done'[g].code
                           /\ fetch[g] = "coded" => g \notin byState
                           /\ done'[g].code => g \notin byState
      BY <2>2, <2>3 DEF RegistryOK
    <3>2. \A d \in Callbacks : callback'[d] # Nobody =>
             /\ fetch[callback'[d]] \notin {"unused", "created"} /\ callback'[d] \notin byState
             /\ ~done'[callback'[d]].code
             /\ \A e \in Callbacks \ {d} : callback'[e] # callback'[d]
      BY <2>2, <2>3, <2>5 DEF RegistryOK
    <3> QED
      BY <3>1, <3>2, <2>4 DEF RegistryOK
  <2> QED
    BY <2>3, <2>4, <2>6 DEF AskedOnce
<1>2. CASE \E f \in Flows : Find(c, f)
  <2>1. PICK f \in Flows : Find(c, f)
    BY <1>2
  <2>2. /\ callback[c] = Nobody /\ f \in byState /\ byState' = byState \ {f}
        /\ UNCHANGED <<pending, done, fetch>>
        /\ callback' = [callback EXCEPT ![c] = f] \/ callback' = callback
    BY <2>1 DEF Find
  <2>3. callback' \in [Callbacks -> Flows \union {Nobody}] /\ callback'[c] \in {f, Nobody}
           /\ \A d \in Callbacks \ {c} : callback'[d] = callback[d]
    BY <2>2
  <2>4. fetch[f] \notin {"unused", "created"} /\ ~done[f].code /\ \A d \in Callbacks : callback[d] # f
    BY <2>2, CallbacksAssumption DEF RegistryOK
  <2>5. \A d \in Callbacks : callback'[d] # Nobody =>
           /\ fetch[callback'[d]] \notin {"unused", "created"} /\ callback'[d] \notin byState'
           /\ ~done[callback'[d]].code
           /\ \A e \in Callbacks \ {d} : callback'[e] # callback'[d]
    BY <2>2, <2>3, <2>4 DEF RegistryOK
  <2>6. RegistryOK'
    BY <2>2, <2>5 DEF RegistryOK
  <2> QED
    BY <2>2, <2>3, <2>6 DEF AskedOnce
<1> QED
  BY <1>1, <1>2

LEMMA RegistryKeeps ==
    ASSUME IInv, Registry
    PROVE  IInv'
<1>1. RegistryTypeOK /\ RegistryOK /\ TypeOK
  BY DEF IInv, TypeOK
<1>2. ASSUME Cleanup PROVE RegistryTypeOK' /\ RegistryOK' /\ AskedOnce
  <2>1. PICK old \in SUBSET pending : Remove(old)
    BY <1>2 DEF Cleanup
  <2>2. /\ done' \in [Flows -> [code : BOOLEAN, closed : BOOLEAN]]
        /\ \A g \in Flows : done'[g].code = done[g].code
    BY <1>1, <2>1, Closing DEF Remove
  <2>3. pending' \subseteq pending /\ byState' \subseteq byState /\ UNCHANGED <<fetch, callback>>
    BY <2>1 DEF Remove
  <2> QED
    BY <1>1, <2>2, <2>3 DEF RegistryTypeOK, RegistryOK, AskedOnce
<1>3. RegistryTypeOK' /\ RegistryOK' /\ AskedOnce
  BY <1>1, <1>2, FetchingKeeps, CallbackKeeps DEF Registry, RegistryStep
<1>4. TypeOK'
  BY <1>1, <1>3 DEF Registry, TypeOK, tokens, provider
<1>5. Forgetful
  BY DEF Registry, Forgetful, tokens, provider
<1> QED
  BY <1>3, <1>4, <1>5, ForgetfulStep DEF Registry

-----------------------------------------------------------------------------
(* An authorization.                                                       *)

LEMMA CreateKeeps ==
    ASSUME RegistryTypeOK, RegistryOK, NEW f \in Flows, Create(f)
    PROVE  /\ RegistryTypeOK' /\ RegistryOK' /\ AskedOnce
           /\ fetch[f] = "unused" /\ fetch'[f] # "unused"
<1> USE DEF RegistryTypeOK, Stages
<1>1. fetch' \in [Flows -> Stages] /\ fetch'[f] = "created" /\ \A g \in Flows \ {f} : fetch'[g] = fetch[g]
  BY Moving DEF Create
<1>2. /\ done' \in [Flows -> [code : BOOLEAN, closed : BOOLEAN]]
      /\ \A g \in Flows : done'[g].code = done[g].code
  BY Closing DEF Create
<1>3. fetch[f] = "unused" /\ pending' = {f} /\ UNCHANGED <<byState, callback>>
  BY DEF Create
<1>4. RegistryOK'
  BY <1>1, <1>2, <1>3 DEF RegistryOK
<1> QED
  BY <1>1, <1>2, <1>3, <1>4 DEF AskedOnce

LEMMA AskStep ==
    ASSUME IInv, NEW a \in Actors, Ask(a)
    PROVE  IInv'
<1> DEFINE s == job[a].todo
<1>1. TypeOK /\ JobsOK /\ RegistryTypeOK /\ RegistryOK /\ At(a, "create")
  BY DEF IInv, TypeOK, Ask
<1>2. PICK f \in Flows : /\ Create(f)
                         /\ job' = [job EXCEPT ![a].todo = Tail(@), ![a].flow = f]
  <2>1. (CHOOSE g \in Unasked : TRUE) \in Flows
    BY DEF Ask, Unasked
  <2> QED
    BY <2>1 DEF Ask
<1>3. RegistryTypeOK' /\ RegistryOK' /\ AskedOnce /\ fetch[f] = "unused" /\ fetch'[f] # "unused"
  BY <1>1, <1>2, CreateKeeps
<1>4. /\ Tail(s) \in Seq(Steps) /\ Planned(Tail(s)) /\ job[a] \in Jobs
      /\ Tail(s) # << >> /\ Head(Tail(s)) = "wait" /\ job[a].h \in Handlers
  BY <1>1, Upcoming DEF Handled, Follower
<1>y. PICK y : y = [job[a] EXCEPT !.todo = Tail(@), !.flow = f]
  OBVIOUS
<1>5. y \in Jobs /\ y.todo = Tail(s) /\ y.h = job[a].h /\ y.flow = f
  BY <1>4, <1>y DEF Jobs
<1>6. job' = [job EXCEPT ![a] = y]
  BY <1>2, <1>y
<1> HIDE DEF s
<1>7. /\ job' \in [Actors -> Jobs] /\ \A b \in Actors \ {a} : job'[b] = job[b]
      /\ job'[a] = y
  BY <1>1, <1>5, <1>6 DEF TypeOK
<1>8. UNCHANGED <<tokens, provider, lossy>>
  BY DEF Ask
<1>9. TypeOK'
  BY <1>1, <1>3, <1>7, <1>8 DEF TypeOK, tokens, provider
<1>10. Forgetful
  BY <1>8 DEF Forgetful, tokens, provider
<1>11. KeepOK' /\ \A g \in Flows : Unheld(g) => Lacks(g, store', hand', saving')
  BY <1>10, ForgetfulKeeps DEF IInv
<1>12. turn[f] = -1
  BY <1>1, <1>3 DEF JobsOK
<1>13. \A b \in Actors : Steady(job[b])
  BY <1>1, <1>8, <1>11, SteadyKept DEF provider
<1>14. ShapeOK(y) /\ Heads(y, {"wait"}) /\ ~Heads(y, {"put"}) /\ ~Heads(y, {"cache"})
  BY <1>4, <1>5 DEF ShapeOK, Heads, Starts, Unhandled
<1>15. FlowOK(y)'
  BY <1>3, <1>5, <1>8, <1>12, <1>14 DEF FlowOK, Heads, provider
<1>16. \A b \in Actors : Heads(job[b], Own) => job[b].flow # f
  BY <1>1, <1>3 DEF JobsOK, FlowOK
<1>17. JobsOK'
  <2>1. \A g \in Flows : fetch'[g] = "unused" => turn'[g] = -1
    BY <1>1, <1>3, <1>8 DEF JobsOK, AskedOnce, provider
  <2>2. \A b \in Actors \ {a} : (job'[b] = job[b] /\ Steady(job[b])) \/ Calm(job'[b])
    BY <1>7, <1>13
  <2>3. \A c \in {a} : \A z : z = job'[c] =>
            /\ ShapeOK(z) /\ FlowOK(z)'
            /\ \A b \in Actors \ {c} : b \notin {a} /\ Heads(z, Own) /\ Heads(job[b], Own) =>
                   z.flow # job[b].flow
    <3>1. SUFFICES ASSUME NEW z, z = job'[a]
                   PROVE  /\ ShapeOK(z) /\ FlowOK(z)'
                          /\ \A b \in Actors : Heads(job[b], Own) => z.flow # job[b].flow
      OBVIOUS
    <3>2. z = y
      BY <3>1, <1>7
    <3> QED
      BY <3>2, <1>5, <1>14, <1>15, <1>16
  <2> QED
    BY <2>1, <2>2, <2>3, <1>1, <1>3, JobsKept, {a} \in SUBSET Actors
<1> QED
  BY <1>3, <1>9, <1>11, <1>17 DEF IInv

(* Nobody has a token of a grant that does not exist.                      *)
LEMMA Unobtained ==
    ASSUME IInv, NEW f \in Flows, turn[f] = -1
    PROVE  Unheld(f)
<1>1. \A tok \in Tokens : Reached(tok) => tok.grant # f
  BY CallbacksAssumption DEF Reached, Tokens, NoToken, IInv, TypeOK
<1> QED
  BY <1>1 DEF IInv, KeepOK, InBounds, TypeOK, Unheld, Lacks

(* The answer: a code that is exchanged, or the end of the attempt.        *)
LEMMA AnsweredStep ==
    ASSUME IInv, NEW a \in Actors, Answered(a)
    PROVE  IInv'
<1>1. TypeOK /\ JobsOK /\ At(a, "wait") /\ Swept /\ UNCHANGED registry
  BY DEF IInv, Answered
<1>2. CASE job' = [job EXCEPT ![a] = Idle] /\ UNCHANGED turn
  <2>1. /\ job' \in [Actors -> Jobs] /\ \A b \in Actors \ {a} : job'[b] = job[b]
        /\ Calm(job'[a]) /\ job'[a].h = Nobody
    BY <1>1, <1>2, Ends
  <2> QED
    BY <1>1, <1>2, <2>1, Sweeping, LightMove DEF Answered, TypeOK, provider
<1>3. CASE turn' = [turn EXCEPT ![job[a].flow] = 0] /\ Advance(a)
  <2> DEFINE s == job[a].todo
  <2>1. PICK f, y : f = job[a].flow /\ y = job'[a]
    OBVIOUS
  <2>2. /\ Tail(s) \in Seq(Steps) /\ Planned(Tail(s)) /\ job[a].h \in Handlers
        /\ Tail(s) # << >> /\ Head(Tail(s)) = "put"
    BY <1>1, Upcoming DEF Handled, Follower
  <2>3. /\ job' \in [Actors -> Jobs] /\ \A b \in Actors \ {a} : job'[b] = job[b]
        /\ y.todo = Tail(s) /\ y.h = job[a].h /\ y.flow = f
    BY <1>1, <1>3, <2>1, <2>2, Goes DEF Advance
  <2> HIDE DEF s
  <2>4. f \in Flows /\ fetch[f] # "unused" /\ turn[f] = -1
    <3>1. Heads(job[a], Own) /\ Heads(job[a], {"wait"})
      BY <1>1 DEF At, Heads, Starts, Own
    <3> QED
      BY <3>1, <1>1, <2>1 DEF JobsOK, FlowOK
  <2>5. turn' \in [Flows -> Nat \union {-1}] /\ turn'[f] = 0 /\ \A g \in Flows \ {f} : turn'[g] = turn[g]
    BY <1>1, <1>3, <2>1, <2>4 DEF TypeOK
  <2>6. UNCHANGED <<registry, store, live, open, saving, revoked, lossy>>
    BY DEF Answered
  <2>7. /\ hand' \in [Handlers -> [source : {"none", "notify", "plain"}, token : Tokens]]
        /\ \A h \in Handlers : hand'[h] \in {hand[h], NoHandler}
    BY <1>1, Sweeping
  <2>8. TypeOK'
    BY <1>1, <2>3, <2>5, <2>6, <2>7 DEF TypeOK, RegistryTypeOK, registry
  <2>9. RegistryOK' /\ AskedOnce
    BY <1>1, Unspent DEF IInv
  <2>10. Unheld(f)
    BY <2>4, Unobtained
  <2>11. NoHandler.source = "none" /\ NoHandler.token = NoToken /\ NoToken.grant = Nobody
    BY DEF NoHandler, Handler, NoToken
  <2>12. \A g \in Flows : Unheld(g) => Lacks(g, store', hand', saving')
    BY <2>6, <2>7, <2>11, CallbacksAssumption DEF Unheld, Lacks
  <2>13. \A tok \in Tokens : Reached(tok) /\ tok.grant # f => Reached(tok)'
    BY <2>5 DEF Reached, Tokens
  <2>14. KeepOK'
    <3>1. \A h \in Handlers : /\ saving'[h] = saving[h]
                              /\ hand'[h] = hand[h] \/ (hand'[h].source = "none" /\ hand'[h].token = NoToken)
      BY <2>6, <2>7, <2>11
    <3>2. Reached(store)' /\ \A h \in Handlers : Reached(saving[h])'
      BY <1>1, <2>6, <2>10, <2>13 DEF IInv, KeepOK, InBounds, LastOfGrant, TypeOK, Unheld, Lacks, Reached
    <3>3. \A h \in Handlers : Reached(hand[h].token)'
      BY <1>1, <3>1, <2>10, <2>13 DEF IInv, KeepOK, InBounds, LastOfGrant, TypeOK, Unheld, Lacks, Reached
    <3>4. \A h \in Handlers : /\ hand'[h].source = "none" <=> hand'[h].token = NoToken
                              /\ saving'[h] # NoToken => saving'[h].turn >= 1
      BY <3>1 DEF IInv, KeepOK, InBounds, LastOfGrant
    <3>5. \A g : Exempt(g)' <=> Exempt(g)
      BY <2>6 DEF Exempt
    <3>6. \A h \in Handlers : saving'[h] # NoToken /\ ~Exempt(saving[h].grant)' =>
            /\ saving'[h].turn = turn'[saving'[h].grant]
            /\ store' # saving'[h]
            /\ \A k \in Handlers \ {h} :
                  saving'[k].grant # saving'[h].grant /\ hand'[k].token # saving'[h]
      <4>1. SUFFICES ASSUME NEW h \in Handlers, saving[h] # NoToken, ~Exempt(saving[h].grant)
                     PROVE  /\ saving[h].turn = turn'[saving[h].grant]
                            /\ store # saving[h]
                            /\ \A k \in Handlers \ {h} :
                                  saving[k].grant # saving[h].grant /\ hand'[k].token # saving[h]
        BY <2>6, <3>1, <3>5 DEF Exempt
      <4>2. saving[h].grant \in Flows \ {f}
        BY <1>1, <4>1, <2>10 DEF TypeOK, Tokens, Unheld, Lacks
      <4>3. /\ saving[h].turn = turn[saving[h].grant]
            /\ store # saving[h]
            /\ \A k \in Handlers \ {h} :
                  saving[k].grant # saving[h].grant /\ hand[k].token # saving[h]
        BY <4>1 DEF IInv, KeepOK, InBounds, LastOfGrant
      <4> QED
        BY <4>1, <4>2, <4>3, <2>5, <3>1
    <3>7. StoreKeepsUp'
      <4>1. SUFFICES ASSUME store # NoToken, ~Exempt(store.grant) PROVE ~Behind(store.grant)'
        BY <2>6 DEF StoreKeepsUp, Exempt, Behind
      <4>2. store.grant \in Flows \ {f} /\ ~Behind(store.grant)
        BY <1>1, <4>1, <2>10 DEF TypeOK, Tokens, Unheld, Lacks, IInv, KeepOK, InBounds, LastOfGrant, StoreKeepsUp, Exempt
      <4> QED
        BY <4>2, <2>5, <2>6 DEF Behind
    <3> QED
      BY <3>2, <3>3, <3>4, <3>6, <3>7 DEF KeepOK, InBounds, LastOfGrant
  <2>16. JobsOK'
    <3>1. \A g \in Flows : fetch'[g] = "unused" => turn'[g] = -1
      BY <1>1, <2>4, <2>5, <2>6 DEF JobsOK, registry, TypeOK
    <3>2. \A b \in Actors \ {a} : Heads(job[b], Own) => job[b].flow # f /\ job[b].flow \in Flows
      <4>1. Heads(job[a], Own)
        BY <1>1 DEF At, Heads, Starts, Own
      <4> QED
        BY <4>1, <1>1, <2>1 DEF JobsOK, FlowOK
    <3>3. \A b \in Actors \ {a} : Steady(job[b])
      <4>1. SUFFICES ASSUME NEW b \in Actors \ {a}, NEW j, j = job[b], Heads(j, Own)
                     PROVE  Steady(j)
        BY DEF Steady, Heads, Starts, Own
      <4>2. j.flow \in Flows \ {f} /\ FlowOK(j)
        BY <1>1, <4>1, <3>2 DEF JobsOK
      <4> QED
        BY <4>1, <4>2, <2>5, <2>6, <2>12 DEF FlowOK, Steady
    <3>4. ShapeOK(y) /\ Heads(y, {"put"}) /\ ~Heads(y, {"wait"}) /\ ~Heads(y, {"cache"})
      BY <2>2, <2>3 DEF ShapeOK, Heads, Starts, Unhandled
    <3>5. Unheld(f)'
      BY <2>4, <2>10, <2>12 DEF Unheld
    <3>6. FlowOK(y)'
      BY <2>3, <2>4, <2>5, <2>6, <3>4, <3>5 DEF FlowOK, Heads, registry
    <3>7. \A b \in Actors \ {a} : (job'[b] = job[b] /\ Steady(job[b])) \/ Calm(job'[b])
      BY <2>3, <3>3
    <3>8. \A c \in {a} : \A z : z = job'[c] =>
              /\ ShapeOK(z) /\ FlowOK(z)'
              /\ \A b \in Actors \ {c} : b \notin {a} /\ Heads(z, Own) /\ Heads(job[b], Own) =>
                     z.flow # job[b].flow
      <4>1. SUFFICES ASSUME NEW z, z = job'[a]
                     PROVE  /\ ShapeOK(z) /\ FlowOK(z)'
                            /\ \A b \in Actors \ {a} : Heads(job[b], Own) => z.flow # job[b].flow
        OBVIOUS
      <4>2. z = y
        BY <4>1, <2>1
      <4> QED
        BY <4>2, <2>3, <3>2, <3>4, <3>6
    <3> QED
      BY <3>1, <3>7, <3>8, <1>1, <2>9, JobsKept, {a} \in SUBSET Actors
  <2> QED
    BY <2>8, <2>9, <2>14, <2>16 DEF IInv
<1> QED
  BY <1>2, <1>3 DEF Answered

(* What is true of the flow of one who authorizes.                         *)
LEMMA OwnFlow ==
    ASSUME TypeOK, JobsOK, NEW a \in Actors, NEW x \in Own, At(a, x)
    PROVE  LET f == job[a].flow IN
           /\ f \in Flows
           /\ x = "put" => turn[f] = 0 /\ Unheld(f)
           /\ x = "cache" => turn[f] # -1
           /\ \A b \in Actors \ {a} : Heads(job[b], Own) => job[b].flow # f
<1>1. Heads(job[a], Own) /\ Heads(job[a], {x})
  BY DEF At, Heads, Starts
<1> QED
  BY <1>1 DEF JobsOK, FlowOK

(* The others' flows, while tokens of other grants move about.             *)
LEMMA SteadyBut ==
    ASSUME TypeOK, JobsOK, NEW f,
           \A g \in Flows : g # f => turn'[g] = turn[g] /\ (Unheld(g) => Lacks(g, store', hand', saving')),
           NEW b \in Actors, Heads(job[b], Own) => job[b].flow # f
    PROVE  Steady(job[b])
<1>1. SUFFICES ASSUME NEW j, j = job[b]
               PROVE  Steady(j)
  OBVIOUS
<1>2. CASE Heads(j, Own)
  <2>1. FlowOK(j) /\ j.flow \in Flows \ {f}
    BY <1>1, <1>2 DEF JobsOK, FlowOK
  <2> QED
    BY <2>1, <1>2 DEF FlowOK, Steady
<1>3. CASE ~Heads(j, Own)
  BY <1>3 DEF Steady, Heads, Starts, Own
<1> QED
  BY <1>2, <1>3

LEMMA PutStep ==
    ASSUME IInv, NEW a \in Actors, Put(a)
    PROVE  IInv'
<1> DEFINE s == job[a].todo
<1>1. TypeOK /\ JobsOK /\ KeepOK /\ At(a, "put")
  BY DEF IInv, Put
<1>2. CASE Go(a, Tail(Tail(s))) /\ UNCHANGED store
  <2>1. /\ Tail(Tail(s)) \in Seq(Steps) /\ Planned(Tail(Tail(s)))
        /\ ~Starts(Tail(Tail(s)), Own) /\ ~Starts(Tail(Tail(s)), Unhandled)
    BY <1>1, UpcomingSecond DEF Unhandled
  <2>2. job[a].h \in Handlers
    BY <1>1, Upcoming DEF Handled
  <2>3. /\ job' \in [Actors -> Jobs] /\ \A b \in Actors \ {a} : job'[b] = job[b]
        /\ Calm(job'[a]) /\ job'[a].h = job[a].h
    BY <1>2, <2>1, <2>2, GoesOn
  <2> QED
    BY <1>1, <1>2, <2>3, LightMove DEF Put, TypeOK, provider
<1>3. CASE store' = Token(job[a].flow, 0) /\ Advance(a)
  <2>1. PICK f, y : f = job[a].flow /\ y = job'[a]
    OBVIOUS
  <2>2. /\ Tail(s) \in Seq(Steps) /\ Planned(Tail(s)) /\ job[a].h \in Handlers
        /\ Tail(s) # << >> /\ Head(Tail(s)) = "cache"
    BY <1>1, Upcoming DEF Handled, Follower
  <2>3. /\ job' \in [Actors -> Jobs] /\ \A b \in Actors \ {a} : job'[b] = job[b]
        /\ y.todo = Tail(s) /\ y.h = job[a].h /\ y.flow = f
    BY <1>1, <1>3, <2>1, <2>2, Goes DEF Advance
  <2> HIDE DEF s
  <2>4. /\ f \in Flows /\ turn[f] = 0 /\ Unheld(f)
        /\ \A b \in Actors \ {a} : Heads(job[b], Own) => job[b].flow # f
    BY <1>1, <2>1, OwnFlow DEF Own
  <2>5. UNCHANGED <<registry, hand, live, open, saving, provider, lossy>>
    BY DEF Put
  <2>6. store' \in Tokens /\ store'.grant = f /\ store'.turn = 0 /\ store' # NoToken
    BY <1>3, <2>1, <2>4, CallbacksAssumption DEF Token, Tokens, NoToken
  <2>7. TypeOK'
    BY <1>1, <2>3, <2>5, <2>6 DEF TypeOK, RegistryTypeOK, registry, provider
  <2>8. RegistryOK' /\ AskedOnce
    BY <2>5, Unspent DEF IInv
  <2>9. \A g : Exempt(g)' <=> Exempt(g)
    BY <2>5 DEF Exempt, provider
  <2>10. InBounds'
    BY <1>1, <2>4, <2>5, <2>6 DEF KeepOK, InBounds, Reached, provider
  <2>11. LastOfGrant'
    <3>1. \A h \in Handlers : store' # saving[h]
      BY <2>4, <2>6 DEF Unheld, Lacks
    <3> QED
      BY <1>1, <2>5, <2>9, <3>1 DEF KeepOK, LastOfGrant, Exempt, provider
  <2>12. StoreKeepsUp'
    BY <2>4, <2>5, <2>6 DEF StoreKeepsUp, Behind, provider
  <2>14. \A g \in Flows : g # f => turn'[g] = turn[g] /\ (Unheld(g) => Lacks(g, store', hand', saving'))
    BY <2>5, <2>6 DEF Unheld, Lacks, provider
  <2>15. \A b \in Actors \ {a} : Steady(job[b])
    BY <1>1, <2>4, <2>5, <2>14, SteadyBut
  <2>16. ShapeOK(y) /\ ~Heads(y, {"wait"}) /\ ~Heads(y, {"put"})
    BY <2>2, <2>3 DEF ShapeOK, Heads, Starts, Unhandled
  <2>17. FlowOK(y)'
    <3>1. fetch[f] # "unused"
      BY <1>1, <2>4 DEF JobsOK
    <3> QED
      BY <2>3, <2>4, <2>5, <2>16, <3>1 DEF FlowOK, Heads, registry, provider
  <2>18. JobsOK'
    <3>1. \A g \in Flows : fetch'[g] = "unused" => turn'[g] = -1
      BY <1>1, <2>5 DEF JobsOK, registry, provider
    <3>2. \A b \in Actors \ {a} : (job'[b] = job[b] /\ Steady(job[b])) \/ Calm(job'[b])
      BY <2>3, <2>15
    <3>3. \A c \in {a} : \A z : z = job'[c] =>
              /\ ShapeOK(z) /\ FlowOK(z)'
              /\ \A b \in Actors \ {c} : b \notin {a} /\ Heads(z, Own) /\ Heads(job[b], Own) =>
                     z.flow # job[b].flow
      <4>1. SUFFICES ASSUME NEW z, z = job'[a]
                     PROVE  /\ ShapeOK(z) /\ FlowOK(z)'
                            /\ \A b \in Actors \ {a} : Heads(job[b], Own) => z.flow # job[b].flow
        OBVIOUS
      <4>2. z = y
        BY <4>1, <2>1
      <4> QED
        BY <4>2, <2>3, <2>4, <2>16, <2>17
    <3> QED
      BY <3>1, <3>2, <3>3, <1>1, <2>8, JobsKept, {a} \in SUBSET Actors
  <2> QED
    BY <2>7, <2>8, <2>10, <2>11, <2>12, <2>18 DEF IInv, KeepOK
<1> QED
  BY <1>2, <1>3 DEF Put

(* Tokens move while those who authorize go on.                            *)
LEMMA TokenStep ==
    ASSUME IInv, TypeOK', KeepOK', UNCHANGED registry,
           \A g \in Flows : turn[g] = -1 <=> turn'[g] = -1,
           \A b \in Actors : (job'[b] = job[b] /\ Steady(job[b])) \/ Calm(job'[b])
    PROVE  IInv'
<1>1. RegistryOK' /\ AskedOnce
  BY Unspent DEF IInv
<1>2. \A g \in Flows : fetch'[g] = "unused" => turn'[g] = -1
  BY DEF IInv, JobsOK, registry, TypeOK
<1>4. JobsOK'
  BY <1>1, <1>2, JobsKept, {} \in SUBSET Actors DEF IInv
<1> QED
  BY <1>1, <1>4 DEF IInv

LEMMA CacheStep ==
    ASSUME IInv, NEW a \in Actors, Cache(a)
    PROVE  IInv'
<1> DEFINE s == job[a].todo
<1>1. TypeOK /\ JobsOK /\ KeepOK /\ At(a, "cache") /\ Advance(a)
  BY DEF IInv, Cache
<1>2. PICK f, h : f = job[a].flow /\ h = job[a].h
  OBVIOUS
<1>3. /\ Tail(s) \in Seq(Steps) /\ Planned(Tail(s)) /\ h \in Handlers
      /\ ~Starts(Tail(s), Own) /\ ~Starts(Tail(s), Unhandled)
  BY <1>1, <1>2, Upcoming DEF Handled, Unhandled
<1>4. /\ job' \in [Actors -> Jobs] /\ \A b \in Actors \ {a} : job'[b] = job[b]
      /\ Calm(job'[a]) /\ job'[a].h = job[a].h
  BY <1>1, <1>2, <1>3, GoesOn DEF Advance
<1> HIDE DEF s
<1>5. /\ f \in Flows /\ turn[f] # -1
      /\ \A b \in Actors \ {a} : Heads(job[b], Own) => job[b].flow # f
  BY <1>1, <1>2, OwnFlow DEF Own
<1>6. UNCHANGED <<registry, store, live, open, saving, provider, lossy>>
  BY DEF Cache
<1>7. PICK new : new = Handler("plain", Token(f, 0))
  OBVIOUS
<1>8. /\ new \in [source : {"none", "notify", "plain"}, token : Tokens]
      /\ new.source = "plain" /\ new.token.grant = f /\ new.token.turn = 0 /\ new.token # NoToken
  BY <1>5, <1>7, CallbacksAssumption DEF Handler, Token, Tokens, NoToken
<1>9. /\ hand' \in [Handlers -> [source : {"none", "notify", "plain"}, token : Tokens]]
      /\ hand'[h] = new /\ \A k \in Handlers \ {h} : hand'[k] = hand[k]
  BY <1>1, <1>2, <1>3, <1>7, <1>8 DEF Cache, TypeOK
<1>10. TypeOK'
  BY <1>1, <1>4, <1>6, <1>9 DEF TypeOK, RegistryTypeOK, registry, provider
<1>11. InBounds'
  <2>1. turn[f] >= 0
    BY <1>1, <1>5 DEF TypeOK
  <2>2. Reached(new.token)'
    BY <1>6, <1>8, <2>1 DEF Reached, provider
  <2>3. \A k \in Handlers : Reached(hand[k].token)' /\ (hand'[k].source = "none" <=> hand'[k].token = NoToken)
    BY <1>1, <1>6, <1>8, <1>9, <2>2 DEF KeepOK, InBounds, Reached, provider
  <2> QED
    BY <1>1, <1>6, <2>3 DEF KeepOK, InBounds, Reached, provider
<1>12. LastOfGrant'
  <2>1. \A k \in Handlers : saving[k] # NoToken => new.token # saving[k]
    BY <1>1, <1>8 DEF KeepOK, InBounds
  <2>2. \A g : Exempt(g)' <=> Exempt(g)
    BY <1>6 DEF Exempt, provider
  <2> QED
    BY <1>1, <1>6, <1>9, <2>1, <2>2 DEF KeepOK, LastOfGrant, Exempt, provider
<1>13. StoreKeepsUp'
  BY <1>1, <1>6 DEF KeepOK, StoreKeepsUp, Behind, provider
<1>15. \A g \in Flows : g # f => turn'[g] = turn[g] /\ (Unheld(g) => Lacks(g, store', hand', saving'))
  BY <1>6, <1>8, <1>9 DEF Unheld, Lacks, provider
<1>16. \A b \in Actors \ {a} : Steady(job[b])
  BY <1>1, <1>5, <1>6, <1>15, SteadyBut
<1>17. \A b \in Actors : (job'[b] = job[b] /\ Steady(job[b])) \/ Calm(job'[b])
  BY <1>4, <1>16
<1> QED
  BY <1>4, <1>6, <1>10, <1>11, <1>12, <1>13, <1>17, TokenStep DEF KeepOK, provider

-----------------------------------------------------------------------------
(* Throwing a token away, and loading one.                                 *)

LEMMA AgainNext ==
    ASSUME NEW s \in Seq(Steps), Again(s)
    PROVE  Starts(Tail(s), {"delete"})
<1>1. PICK n \in Nat : n = Len(s)
  OBVIOUS
<1>2. Len(Tail(s)) = n - 1 /\ n > 1 /\ Tail(s)[1] = s[2] /\ Tail(s) \in Seq(Steps)
  BY <1>1 DEF Again
<1>3. Tail(s) # << >>
  <2>1. Len(<< >>) = 0
    OBVIOUS
  <2>2. Tail(s) = << >> => Len(Tail(s)) = 0
    BY <2>1, Zenon
  <2> QED
    BY <2>2, <1>1, <1>2
<1>4. Head(Tail(s)) = Tail(s)[1]
  BY <1>2, <1>3
<1> QED
  BY <1>2, <1>3, <1>4 DEF Starts, Again

LEMMA DeleteStep ==
    ASSUME IInv, NEW a \in Actors, Delete(a)
    PROVE  IInv'
<1> DEFINE s == job[a].todo
           t == AfterDelete(s)
<1>1. TypeOK /\ JobsOK /\ KeepOK /\ At(a, "delete")
  BY DEF IInv, Delete
<1>2. /\ Tail(s) \in Seq(Steps) /\ Planned(Tail(s)) /\ job[a].h = Nobody
      /\ ~Starts(Tail(s), Own) /\ ~Starts(Tail(s), Handled)
  BY <1>1, Upcoming DEF Handled, Unhandled
<1>3. CASE Advance(a) /\ UNCHANGED store
  <2>1. /\ job' \in [Actors -> Jobs] /\ \A b \in Actors \ {a} : job'[b] = job[b]
        /\ Calm(job'[a]) /\ job'[a].h = job[a].h
    BY <1>2, <1>3, GoesOn DEF Advance
  <2> QED
    BY <1>1, <1>3, <2>1, LightMove DEF Delete, TypeOK
<1>4. CASE store' = NoToken /\ Go(a, t)
  <2>1. t \in Seq(Steps) /\ Planned(t) /\ ~Starts(t, Own) /\ ~Starts(t, Handled)
    <3>1. CASE Again(s)
      <4>1. s \in Seq(Steps)
        BY <1>1 DEF TypeOK, Jobs
      <4>2. Starts(Tail(s), {"delete"})
        BY <3>1, <4>1, AgainNext
      <4>3. /\ Tail(Tail(s)) \in Seq(Steps) /\ Planned(Tail(Tail(s)))
            /\ ~Starts(Tail(Tail(s)), Own) /\ ~Starts(Tail(Tail(s)), Handled)
        BY <1>1, <4>2, UpcomingSecond
      <4> QED
        BY <3>1, <4>3 DEF AfterDelete
    <3>2. CASE ~Again(s)
      BY <3>2, <1>2 DEF AfterDelete
    <3> QED
      BY <3>1, <3>2
  <2>2. /\ job' \in [Actors -> Jobs] /\ \A b \in Actors \ {a} : job'[b] = job[b]
        /\ Calm(job'[a]) /\ job'[a].h = Nobody
    BY <1>2, <1>4, <2>1, GoesOn
  <2> HIDE DEF s, t
  <2>3. UNCHANGED <<registry, hand, live, open, saving, provider, lossy>>
    BY DEF Delete
  <2>5. TypeOK'
    BY <1>1, <1>4, <2>2, <2>3 DEF TypeOK, RegistryTypeOK, registry, provider, Tokens
  <2>6. \A g : Exempt(g)' <=> Exempt(g)
    BY <2>3 DEF Exempt, provider
  <2>7. InBounds'
    BY <1>1, <1>4, <2>3 DEF KeepOK, InBounds, Reached, provider
  <2>8. LastOfGrant'
    BY <1>1, <1>4, <2>3, <2>6 DEF KeepOK, LastOfGrant, Exempt, provider
  <2>9. StoreKeepsUp'
    BY <1>4 DEF StoreKeepsUp
  <2>10. NoToken.grant = Nobody /\ Nobody \notin Flows
    BY CallbacksAssumption DEF NoToken
  <2>12. \A b \in Actors : Steady(job[b])
    <3>1. turn' = turn /\ \A f \in Flows : Unheld(f) => Lacks(f, store', hand', saving')
      BY <1>4, <2>3, <2>10 DEF Unheld, Lacks, provider
    <3> QED
      BY <3>1, <1>1, SteadyKept
  <2>13. RegistryOK' /\ AskedOnce
    BY <2>3, Unspent DEF IInv
  <2>14. JobsOK'
    <3>1. \A g \in Flows : fetch'[g] = "unused" => turn'[g] = -1
      BY <1>1, <2>3 DEF JobsOK, registry, provider
    <3>2. \A b \in Actors : (job'[b] = job[b] /\ Steady(job[b])) \/ Calm(job'[b])
      BY <2>2, <2>12
    <3> QED
      BY <3>1, <3>2, <1>1, <2>13, JobsKept, {} \in SUBSET Actors
  <2> QED
    BY <2>5, <2>7, <2>8, <2>9, <2>13, <2>14 DEF IInv, KeepOK
<1> QED
  BY <1>3, <1>4 DEF Delete

LEMMA NewHandlerStep ==
    ASSUME IInv, NEW a \in Actors, NewHandler(a)
    PROVE  IInv'
<1> DEFINE s == job[a].todo
<1>1. TypeOK /\ JobsOK /\ KeepOK /\ At(a, "new")
  BY DEF IInv, NewHandler
<1>2. PICK h : h = Fresh
  OBVIOUS
<1>3. h \in Handlers
  BY <1>2 DEF NewHandler, Fresh
<1>4. /\ Tail(s) \in Seq(Steps) /\ Planned(Tail(s)) /\ job[a] \in Jobs
      /\ ~Starts(Tail(s), Own) /\ ~Starts(Tail(s), Unhandled)
  BY <1>1, Upcoming DEF Unhandled, Handled
<1>5. /\ Tail(Tail(s)) \in Seq(Steps) /\ Planned(Tail(Tail(s)))
      /\ ~Starts(Tail(Tail(s)), Own) /\ ~Starts(Tail(Tail(s)), Unhandled)
  BY <1>1, UpcomingSecond DEF Unhandled
<1>6. PICK t \in Seq(Steps) : /\ Planned(t) /\ ~Starts(t, Own) /\ ~Starts(t, Unhandled)
                              /\ t = IF store = NoToken THEN Tail(s) ELSE Tail(Tail(s))
  BY <1>4, <1>5
<1>7. PICK y : y = [job[a] EXCEPT !.h = h, !.todo = t]
  OBVIOUS
<1>8. y \in Jobs /\ y.todo = t /\ y.h = h
  BY <1>3, <1>4, <1>6, <1>7 DEF Jobs
<1>9. job' = [job EXCEPT ![a] = y]
  <2>1. job' = [job EXCEPT ![a].h = h, ![a].todo = IF store = NoToken THEN Tail(s) ELSE Tail(Tail(s))]
    BY <1>2 DEF NewHandler
  <2> QED
    BY <2>1, <1>6, <1>7
<1> HIDE DEF s
<1>10. Calm(y)
  BY <1>3, <1>6, <1>8 DEF Calm, ShapeOK, Heads
<1>11. job' \in [Actors -> Jobs] /\ job'[a] = y /\ \A b \in Actors \ {a} : job'[b] = job[b]
  BY <1>1, <1>8, <1>9 DEF TypeOK
<1>12. UNCHANGED <<registry, store, live, open, saving, provider, lossy>>
  BY DEF NewHandler
<1>13. PICK new : new = IF store = NoToken THEN NoHandler ELSE Handler("notify", store)
  OBVIOUS
<1>14. /\ new \in [source : {"none", "notify", "plain"}, token : Tokens]
       /\ new.source = "none" <=> new.token = NoToken
       /\ new.token = store
  BY <1>1, <1>13 DEF NoHandler, Handler, TypeOK, Tokens
<1>15. /\ hand' \in [Handlers -> [source : {"none", "notify", "plain"}, token : Tokens]]
       /\ hand'[h] = new /\ \A k \in Handlers \ {h} : hand'[k] = hand[k]
  BY <1>1, <1>2, <1>3, <1>13, <1>14 DEF NewHandler, TypeOK
<1>16. TypeOK'
  BY <1>1, <1>11, <1>12, <1>15 DEF TypeOK, RegistryTypeOK, registry, provider
<1>17. InBounds'
  BY <1>1, <1>12, <1>14, <1>15 DEF KeepOK, InBounds, Reached, provider
<1>18. LastOfGrant'
  <2>1. \A g : Exempt(g)' <=> Exempt(g)
    BY <1>12 DEF Exempt, provider
  <2>2. saving' = saving /\ turn' = turn /\ store' = store
    BY <1>12 DEF provider
  <2>3. ASSUME NEW b \in Handlers, saving[b] # NoToken, ~Exempt(saving[b].grant)
        PROVE  /\ saving[b].turn = turn[saving[b].grant] /\ store # saving[b]
               /\ \A k \in Handlers \ {b} :
                     saving[k].grant # saving[b].grant /\ hand'[k].token # saving[b]
    <3>1. /\ saving[b].turn = turn[saving[b].grant] /\ store # saving[b]
          /\ \A k \in Handlers \ {b} :
                saving[k].grant # saving[b].grant /\ hand[k].token # saving[b]
      BY <1>1, <2>3 DEF KeepOK, LastOfGrant
    <3>2. \A k \in Handlers \ {b} : hand'[k].token # saving[b]
      BY <1>14, <1>15, <3>1
    <3> QED
      BY <3>1, <3>2
  <2>4. ASSUME NEW b \in Handlers, saving'[b] # NoToken, ~Exempt(saving[b].grant)'
        PROVE  /\ saving'[b].turn = turn'[saving'[b].grant] /\ store' # saving'[b]
               /\ \A k \in Handlers \ {b} :
                     saving'[k].grant # saving'[b].grant /\ hand'[k].token # saving'[b]
    <3>1. saving[b] # NoToken /\ ~Exempt(saving[b].grant)
      BY <1>12, <2>4, <2>2 DEF Exempt, provider
    <3> QED
      BY <2>2, <2>3, <3>1
  <2> QED
    BY <2>4 DEF LastOfGrant
<1>19. StoreKeepsUp'
  BY <1>1, <1>12 DEF KeepOK, StoreKeepsUp, Behind, provider
<1>21. \A g \in Flows : Unheld(g) => Lacks(g, store', hand', saving')
  BY <1>12, <1>14, <1>15 DEF Unheld, Lacks
<1>22. \A b \in Actors : (job'[b] = job[b] /\ Steady(job[b])) \/ Calm(job'[b])
  BY <1>1, <1>10, <1>11, <1>12, <1>21, SteadyKept DEF provider
<1> QED
  BY <1>12, <1>16, <1>17, <1>18, <1>19, <1>22, TokenStep DEF KeepOK, provider

-----------------------------------------------------------------------------
(* Rotations.                                                              *)

LEMMA RefreshStep ==
    ASSUME IInv, NEW h \in Handlers, Refresh(h)
    PROVE  IInv'
<1>1. TypeOK /\ JobsOK /\ KeepOK /\ Used(h) /\ HasToken(h) /\ saving[h] = NoToken
  BY DEF IInv, Refresh
<1>2. PICK old, g, n : old = hand[h].token /\ g = old.grant /\ n = old.turn
  OBVIOUS
<1>3. old \in Tokens /\ old # NoToken /\ g \in Flows /\ n \in Nat /\ old = Token(g, n) /\ n <= turn[g]
  <2>1. old \in Tokens /\ old # NoToken /\ Reached(old)
    BY <1>1, <1>2 DEF HasToken, KeepOK, InBounds, TypeOK
  <2>2. old \in [grant : Flows, turn : Nat]
    BY <2>1 DEF Tokens
  <2> QED
    BY <1>2, <2>1, <2>2 DEF Token, Reached
<1>4. NoToken.grant = Nobody /\ Nobody \notin Flows
  BY CallbacksAssumption DEF NoToken
<1>5. UNCHANGED <<registry, store, live, open, job>>
  BY DEF Refresh
<1>7. PICK next : next = Token(g, n + 1)
  OBVIOUS
<1>8. next \in Tokens /\ next.grant = g /\ next.turn = n + 1 /\ next # NoToken
  BY <1>3, <1>4, <1>7 DEF Token, Tokens, NoToken
<1>9. CASE revoked' = revoked \union {g} /\ UNCHANGED <<hand, saving, turn, lossy>>
  <2>1. TypeOK'
    BY <1>1, <1>3, <1>5, <1>9 DEF TypeOK, RegistryTypeOK, registry
  <2>2. \A x : ~Marked(x, revoked', lossy') => ~Exempt(x)
    BY <1>9 DEF Exempt, Marked
  <2>3. InBounds'
    BY <1>1, <1>5, <1>9 DEF KeepOK, InBounds, Reached
  <2>4. LastOfGrant'
    BY <1>1, <1>5, <1>9, <2>2 DEF KeepOK, LastOfGrant, Exempt, Marked
  <2>5. StoreKeepsUp'
    BY <1>1, <1>5, <1>9 DEF KeepOK, StoreKeepsUp, Behind
  <2>7. \A f \in Flows : Unheld(f) => Lacks(f, store', hand', saving')
    BY <1>5, <1>9 DEF Unheld
  <2>8. \A b \in Actors : (job'[b] = job[b] /\ Steady(job[b])) \/ Calm(job'[b])
    BY <1>1, <1>5, <1>9, <2>7, SteadyKept
  <2> QED
    BY <1>5, <1>9, <2>1, <2>3, <2>4, <2>5, <2>8, TokenStep DEF KeepOK
<1>10. CASE /\ g \notin revoked /\ n = turn[g]
            /\ turn' = [turn EXCEPT ![g] = n + 1]
            /\ revoked' = revoked
            /\ \/ /\ hand' = [hand EXCEPT ![h].token = next]
                  /\ saving' = IF hand[h].source = "notify" THEN [saving EXCEPT ![h] = next] ELSE saving
                  /\ lossy' = IF hand[h].source = "notify" THEN lossy ELSE lossy \union {<<g, "plain">>}
               \/ lossy' = lossy \union {<<g, "fault">>} /\ UNCHANGED <<hand, saving>>
  <2>1. /\ turn' \in [Flows -> Nat \union {-1}] /\ turn'[g] = n + 1
        /\ \A f \in Flows \ {g} : turn'[f] = turn[f]
    BY <1>1, <1>3, <1>10 DEF TypeOK
  <2>2. /\ hand' \in [Handlers -> [source : {"none", "notify", "plain"}, token : Tokens]]
        /\ hand'[h].token \in {old, next} /\ hand'[h].source = hand[h].source
        /\ \A k \in Handlers \ {h} : hand'[k] = hand[k]
    BY <1>1, <1>2, <1>8, <1>10 DEF TypeOK
  <2>3. /\ saving' \in [Handlers -> Tokens] /\ saving'[h] \in {NoToken, next}
        /\ \A k \in Handlers \ {h} : saving'[k] = saving[k]
    BY <1>1, <1>8, <1>10 DEF TypeOK
  <2>4. TypeOK'
    BY <1>1, <1>5, <1>10, <2>1, <2>2, <2>3 DEF TypeOK, RegistryTypeOK, registry
  <2>5. Marked(g, revoked', lossy') \/ (saving'[h] = next /\ hand'[h].token = next /\ lossy' = lossy)
    BY <1>1, <1>8, <1>10, <2>2 DEF Marked, TypeOK
  <2>6. \A x : ~Marked(x, revoked', lossy') => ~Exempt(x)
    BY <1>10 DEF Exempt, Marked
  <2>7. \A tok \in Tokens : Reached(tok) => Reached(tok)'
    BY <1>3, <1>10, <2>1, <1>4 DEF Reached, Tokens, TypeOK
  <2>8. Reached(next)' /\ Reached(NoToken)' /\ Reached(old)
    <3>1. next.turn <= turn'[next.grant]
      BY <1>3, <1>8, <2>1
    <3>2. old.turn <= turn[old.grant]
      BY <1>2, <1>3
    <3> QED
      BY <3>1, <3>2 DEF Reached, NoToken
  <2>9. InBounds'
    <3>1. store \in Tokens /\ Reached(store) /\ \A k \in Handlers :
              /\ hand[k].token \in Tokens /\ Reached(hand[k].token)
              /\ saving[k] \in Tokens /\ Reached(saving[k])
              /\ hand[k].source = "none" <=> hand[k].token = NoToken
              /\ saving[k] # NoToken => saving[k].turn >= 1
      BY <1>1 DEF KeepOK, InBounds, TypeOK
    <3>2. Reached(store)'
      BY <3>1, <1>5, <2>7 DEF Reached
    <3>3. \A k \in Handlers : \A tok \in {hand'[k].token, saving'[k]} : Reached(tok)'
      BY <3>1, <1>3, <2>2, <2>3, <2>7, <2>8
    <3>4. \A k \in Handlers : Reached(hand[k].token)' /\ Reached(saving[k])'
      BY <3>3 DEF Reached
    <3>5. \A k \in Handlers : /\ hand'[k].source = "none" <=> hand'[k].token = NoToken
                              /\ saving'[k] # NoToken => saving'[k].turn >= 1
      BY <3>1, <1>1, <1>2, <1>3, <1>8, <2>2, <2>3 DEF HasToken
    <3> QED
      BY <3>2, <3>4, <3>5 DEF InBounds
  <2>10. ASSUME ~Marked(g, revoked', lossy'), NEW k \in Handlers \ {h} PROVE saving[k].grant # g
    <3>1. SUFFICES ASSUME saving[k].grant = g PROVE FALSE
      OBVIOUS
    <3>2. saving[k] # NoToken /\ saving[k] \in Tokens
      BY <3>1, <1>1, <1>3, <1>4 DEF TypeOK
    <3>3. saving[k].turn = n /\ hand[h].token # saving[k]
      BY <3>1, <3>2, <1>1, <1>10, <2>6, <2>10 DEF KeepOK, LastOfGrant
    <3>4. saving[k] = Token(g, n)
      BY <3>1, <3>2, <3>3 DEF Tokens, Token
    <3> QED
      BY <3>3, <3>4, <1>2, <1>3
  <2>11. \A k \in Handlers : hand[k].token # next /\ store # next
    <3>1. \A tok \in Tokens : Reached(tok) => tok # next
      BY <1>8, <1>10, <1>3 DEF Reached
    <3> QED
      BY <3>1, <1>1 DEF KeepOK, InBounds, TypeOK
  <2>12. LastOfGrant'
    <3>1. SUFFICES ASSUME NEW k \in Handlers, saving'[k] # NoToken, ~Marked(saving'[k].grant, revoked', lossy')
                   PROVE  /\ saving'[k].turn = turn'[saving'[k].grant]
                          /\ store # saving'[k]
                          /\ \A l \in Handlers \ {k} :
                                saving'[l].grant # saving'[k].grant /\ hand'[l].token # saving'[k]
      BY <1>5 DEF LastOfGrant, Exempt, Marked
    <3>2. CASE k = h
      <4>1. saving'[h] = next /\ ~Marked(g, revoked', lossy')
        BY <3>1, <3>2, <2>3, <1>8
      <4> QED
        BY <3>2, <4>1, <1>8, <2>1, <2>2, <2>3, <2>10, <2>11
    <3>3. CASE k # h
      <4>1. PICK x : x = saving[k].grant
        OBVIOUS
      <4>2. saving'[k] = saving[k] /\ ~Marked(x, revoked', lossy') /\ x \in Flows
        BY <3>1, <3>3, <2>3, <4>1, <1>1 DEF TypeOK, Tokens
      <4>3. x # g
        BY <4>1, <4>2, <2>10, <3>3
      <4>4. /\ saving[k].turn = turn[x] /\ store # saving[k]
            /\ \A l \in Handlers \ {k} : saving[l].grant # x /\ hand[l].token # saving[k]
        BY <3>1, <4>1, <4>2, <2>6, <1>1 DEF KeepOK, LastOfGrant
      <4>5. saving'[h].grant # x /\ hand'[h].token # saving[k]
        BY <4>1, <4>2, <4>3, <2>2, <2>3, <1>2, <1>4, <1>8
      <4> QED
        BY <4>1, <4>2, <4>3, <4>4, <4>5, <2>1, <2>2, <2>3
    <3> QED
      BY <3>2, <3>3
  <2>13. StoreKeepsUp'
    <3>1. SUFFICES ASSUME store # NoToken, NEW x, x = store.grant, ~Marked(x, revoked', lossy')
                   PROVE  store.turn = turn'[x] \/ \E k \in Handlers : saving'[k] = Token(x, turn'[x])
      BY <1>5 DEF StoreKeepsUp, Marked, Behind
    <3>2. x \in Flows
      BY <3>1, <1>1 DEF TypeOK, Tokens
    <3>3. CASE x = g
      <4>1. saving'[h] = next
        BY <3>1, <3>3, <2>5
      <4> QED
        BY <4>1, <3>3, <1>7, <2>1
    <3>4. CASE x # g
      <4>1. ~Behind(x)
        BY <3>1, <2>6, <1>1 DEF KeepOK, StoreKeepsUp, Exempt
      <4>2. CASE store.turn = turn[x]
        BY <4>2, <3>2, <3>4, <2>1
      <4>3. CASE \E k \in Handlers : saving[k] = Token(x, turn[x])
        <5>1. PICK k \in Handlers : saving[k] = Token(x, turn[x])
          BY <4>3
        <5>2. k # h
          <6>1. Token(x, turn[x]).grant # Nobody
            BY <3>2, <1>4 DEF Token
          <6> QED
            BY <5>1, <6>1, <1>1, <1>4
        <5> QED
          BY <5>1, <5>2, <3>2, <3>4, <2>1, <2>3
      <4> QED
        BY <4>1, <4>2, <4>3, <3>1 DEF Behind
    <3> QED
      BY <3>3, <3>4
  <2>15. ASSUME NEW b \in Actors PROVE Steady(job[b])
    <3>1. SUFFICES ASSUME NEW j, j = job[b], Heads(j, Own) PROVE Steady(j)
      BY DEF Steady, Heads, Starts, Own
    <3>2. FlowOK(j) /\ j.flow \in Flows
      BY <1>1, <3>1 DEF JobsOK, FlowOK
    <3>3. Heads(j, {"wait"}) => turn'[j.flow] = -1
      BY <3>2, <1>3, <1>10, <2>1 DEF FlowOK
    <3>4. ASSUME Heads(j, {"put"}) PROVE turn'[j.flow] = 0 /\ Lacks(j.flow, store', hand', saving')
      <4>1. turn[j.flow] = 0 /\ Unheld(j.flow)
        BY <3>2, <3>4 DEF FlowOK
      <4>2. j.flow # g
        BY <4>1, <1>2 DEF Unheld, Lacks
      <4> QED
        BY <4>1, <4>2, <3>2, <1>2, <1>4, <1>5, <1>8, <2>1, <2>2, <2>3 DEF Unheld, Lacks
    <3>5. Heads(j, {"cache"}) => turn'[j.flow] # -1
      BY <3>2, <1>3, <2>1 DEF FlowOK
    <3> QED
      BY <3>2, <3>3, <3>4, <3>5, <1>5 DEF Steady
  <2>16. \A x \in Flows : turn[x] = -1 <=> turn'[x] = -1
    BY <1>3, <1>10, <2>1
  <2>17. \A b \in Actors : (job'[b] = job[b] /\ Steady(job[b])) \/ Calm(job'[b])
    BY <1>5, <2>15
  <2> QED
    BY <1>5, <2>4, <2>9, <2>12, <2>13, <2>16, <2>17, TokenStep DEF KeepOK
<1>11. \/ revoked' = revoked \union {g} /\ UNCHANGED <<hand, saving, turn, lossy>>
       \/ /\ g \notin revoked /\ n = turn[g]
          /\ turn' = [turn EXCEPT ![g] = n + 1]
          /\ revoked' = revoked
          /\ \/ /\ hand' = [hand EXCEPT ![h].token = next]
                /\ saving' = IF hand[h].source = "notify" THEN [saving EXCEPT ![h] = next] ELSE saving
                /\ lossy' = IF hand[h].source = "notify" THEN lossy ELSE lossy \union {<<g, "plain">>}
             \/ lossy' = lossy \union {<<g, "fault">>} /\ UNCHANGED <<hand, saving>>
  BY <1>2, <1>7 DEF Refresh
<1> QED
  BY <1>9, <1>10, <1>11

LEMMA SaveStep ==
    ASSUME IInv, NEW h \in Handlers, Save(h)
    PROVE  IInv'
<1>1. TypeOK /\ JobsOK /\ KeepOK /\ Swept /\ saving[h] # NoToken
  BY DEF IInv, Save
<1>2. PICK tok, g : tok = saving[h] /\ g = tok.grant
  OBVIOUS
<1>3. tok \in Tokens /\ tok # NoToken /\ g \in Flows /\ tok = Token(g, tok.turn) /\ Reached(tok)
  <2>1. tok \in Tokens /\ tok # NoToken /\ Reached(tok)
    BY <1>1, <1>2 DEF KeepOK, InBounds, TypeOK
  <2>2. tok \in [grant : Flows, turn : Nat]
    BY <2>1 DEF Tokens
  <2> QED
    BY <1>2, <2>1, <2>2 DEF Token
<1>4. NoToken \in Tokens /\ NoToken.grant = Nobody /\ Nobody \notin Flows
  BY CallbacksAssumption DEF NoToken, Tokens
<1>5. UNCHANGED <<registry, live, open, turn, revoked, job>>
  BY DEF Save, provider
<1>6. /\ saving' \in [Handlers -> Tokens] /\ saving'[h] = NoToken
      /\ \A k \in Handlers \ {h} : saving'[k] = saving[k]
  BY <1>1, <1>4 DEF Save, TypeOK
<1>7. /\ hand' \in [Handlers -> [source : {"none", "notify", "plain"}, token : Tokens]]
      /\ \A k \in Handlers : hand'[k] \in {hand[k], NoHandler}
  BY <1>1, Sweeping
<1>8. NoHandler.source = "none" /\ NoHandler.token = NoToken
  BY DEF NoHandler, Handler
<1>9. \/ store' = tok /\ lossy' = lossy
      \/ store' = store /\ lossy' = lossy \union {<<g, "fault">>}
  BY <1>2 DEF Save
<1>10. TypeOK'
  BY <1>1, <1>3, <1>5, <1>6, <1>7, <1>9 DEF TypeOK, RegistryTypeOK, registry
<1>11. \A x : ~Marked(x, revoked', lossy') => ~Exempt(x)
  BY <1>5, <1>9 DEF Exempt, Marked
<1>12. \A k \in Handlers : /\ hand'[k].token \in {hand[k].token, NoToken}
                           /\ hand'[k].source = "none" <=> hand'[k].token = NoToken
  BY <1>1, <1>7, <1>8 DEF KeepOK, InBounds
<1>13. InBounds'
  <2>1. \A x : Reached(x) => (x # NoToken => x.turn <= turn'[x.grant])
    BY <1>5 DEF Reached
  <2>2. /\ Reached(store) /\ Reached(NoToken)
        /\ \A k \in Handlers : Reached(hand[k].token) /\ Reached(saving[k])
                               /\ (saving[k] # NoToken => saving[k].turn >= 1)
    BY <1>1 DEF KeepOK, InBounds, Reached
  <2>3. Reached(store)'
    BY <1>3, <1>9, <2>1, <2>2 DEF Reached
  <2>4. \A k \in Handlers : Reached(hand[k].token)' /\ Reached(saving[k])'
                            /\ (saving'[k] # NoToken => saving'[k].turn >= 1)
    BY <1>6, <1>12, <2>1, <2>2 DEF Reached
  <2> QED
    BY <1>12, <2>3, <2>4 DEF InBounds
<1>14. LastOfGrant'
  <2>1. SUFFICES ASSUME NEW k \in Handlers, saving'[k] # NoToken,
                        NEW x, x = saving'[k].grant, ~Marked(x, revoked', lossy')
                 PROVE  /\ saving'[k].turn = turn'[x]
                        /\ store' # saving'[k]
                        /\ \A l \in Handlers \ {k} : saving'[l].grant # x /\ hand'[l].token # saving'[k]
    BY DEF LastOfGrant, Exempt, Marked
  <2>2. k # h /\ saving'[k] = saving[k]
    BY <1>6, <2>1
  <2>3. /\ saving[k].turn = turn[x] /\ store # saving[k]
        /\ \A l \in Handlers \ {k} : saving[l].grant # x /\ hand[l].token # saving[k]
    BY <1>1, <1>11, <2>1, <2>2 DEF KeepOK, LastOfGrant
  <2>4. tok # saving[k] /\ x # Nobody
    <3>1. x # g
      BY <1>2, <2>2, <2>3
    <3>2. saving[k] \in Tokens /\ saving[k] # NoToken
      BY <1>1, <2>1, <2>2 DEF TypeOK
    <3> QED
      BY <1>2, <1>4, <2>1, <2>2, <3>1, <3>2 DEF Tokens
  <2> QED
    BY <1>4, <1>5, <1>6, <1>9, <1>12, <2>1, <2>2, <2>3, <2>4
<1>15. StoreKeepsUp'
  <2>1. SUFFICES ASSUME store' # NoToken, NEW x, x = store'.grant, ~Marked(x, revoked', lossy')
                 PROVE  store'.turn = turn'[x] \/ \E k \in Handlers : saving'[k] = Token(x, turn'[x])
    BY DEF StoreKeepsUp, Marked, Behind
  <2>2. CASE store' = tok
    BY <1>1, <1>2, <1>3, <1>5, <1>11, <2>1, <2>2 DEF KeepOK, LastOfGrant
  <2>3. CASE store' = store /\ lossy' = lossy \union {<<g, "fault">>}
    <3>1. x # g
      BY <2>1, <2>3 DEF Marked
    <3>2. ~Behind(x)
      BY <1>1, <1>11, <2>1, <2>3 DEF KeepOK, StoreKeepsUp, Exempt
    <3>3. CASE store.turn = turn[x]
      BY <1>5, <2>3, <3>3
    <3>4. CASE \E k \in Handlers : saving[k] = Token(x, turn[x])
      <4>1. PICK k \in Handlers : saving[k] = Token(x, turn[x])
        BY <3>4
      <4>2. saving[k].grant = x
        BY <4>1 DEF Token
      <4>3. k # h
        BY <1>2, <3>1, <4>2
      <4> QED
        BY <1>5, <1>6, <4>1, <4>3
    <3> QED
      BY <2>1, <2>3, <3>2, <3>3, <3>4 DEF Behind
  <2> QED
    BY <1>9, <2>2, <2>3
<1>17. \A f \in Flows : Unheld(f) => Lacks(f, store', hand', saving')
  BY <1>2, <1>4, <1>6, <1>9, <1>12 DEF Unheld, Lacks
<1>18. \A b \in Actors : (job'[b] = job[b] /\ Steady(job[b])) \/ Calm(job'[b])
  BY <1>1, <1>5, <1>17, SteadyKept
<1> QED
  BY <1>5, <1>10, <1>13, <1>14, <1>15, <1>18, TokenStep DEF KeepOK

-----------------------------------------------------------------------------
(* The process begins, once more or for the first time.                    *)

(* What startup makes of the row.                                          *)
LEMMA Starting ==
    ASSUME NEW row \in Tokens, NEW section \in BOOLEAN, NEW s \in Started(row, section)
    PROVE  /\ s.live \in Handlers \union {Absent, Bare} /\ s.open \subseteq Handlers
           /\ s.hand \in [Handlers -> [source : {"none", "notify", "plain"}, token : Tokens]]
           /\ \A k \in Handlers : /\ s.hand[k].token \in {NoToken, row}
                                  /\ s.hand[k].source = "none" <=> s.hand[k].token = NoToken
<1> DEFINE none == [k \in Handlers |-> NoHandler]
<1>1. PICK h \in Handlers : h = CHOOSE k \in Handlers : TRUE
  BY HandlersAssumption
<1>2. /\ NoHandler \in [source : {"none", "notify", "plain"}, token : Tokens]
      /\ NoHandler.source = "none" /\ NoHandler.token = NoToken
  BY DEF NoHandler, Handler, NoToken, Tokens
<1>3. PICK loaded : loaded = Handler("notify", row)
  OBVIOUS
<1>4. /\ loaded \in [source : {"none", "notify", "plain"}, token : Tokens]
      /\ loaded.source = "notify" /\ loaded.token = row
  BY <1>3 DEF Handler
<1>5. /\ none \in [Handlers -> [source : {"none", "notify", "plain"}, token : Tokens]]
      /\ \A k \in Handlers : none[k] = NoHandler
  BY <1>2
<1>6. \/ s = [live |-> Absent, open |-> {}, hand |-> none]
      \/ s = [live |-> h, open |-> {}, hand |-> none]
      \/ s = [live |-> Bare, open |-> {}, hand |-> none]
      \/ row # NoToken /\ s = [live |-> h, open |-> {h}, hand |-> [none EXCEPT ![h] = loaded]]
  BY <1>1, <1>3 DEF Started
<1> HIDE DEF none
<1>7. CASE row # NoToken /\ s = [live |-> h, open |-> {h}, hand |-> [none EXCEPT ![h] = loaded]]
  <2>1. s.live = h /\ s.open = {h} /\ s.hand = [none EXCEPT ![h] = loaded]
    BY <1>7
  <2>2. /\ s.hand \in [Handlers -> [source : {"none", "notify", "plain"}, token : Tokens]]
        /\ s.hand[h] = loaded /\ \A k \in Handlers \ {h} : s.hand[k] = NoHandler
    BY <1>4, <1>5, <2>1
  <2> QED
    BY <1>2, <1>4, <1>7, <2>1, <2>2
<1>8. CASE \/ s = [live |-> Absent, open |-> {}, hand |-> none]
           \/ s = [live |-> h, open |-> {}, hand |-> none]
           \/ s = [live |-> Bare, open |-> {}, hand |-> none]
  BY <1>2, <1>5, <1>8
<1> QED
  BY <1>6, <1>7, <1>8

LEMMA IdleCalm == Idle \in Jobs /\ Idle.h = Nobody /\ Idle.flow = Nobody /\ Calm(Idle)
BY Lists DEF Idle, Jobs, Calm, ShapeOK, Heads, Starts

LEMMA RestartStep ==
    ASSUME IInv, configured \in BOOLEAN, Restart
    PROVE  IInv'
<1>1. TypeOK /\ JobsOK /\ KeepOK
  BY DEF IInv
<1>2. PICK s \in Started(store, configured) : live' = s.live /\ open' = s.open /\ hand' = s.hand
  BY DEF Restart
<1>3. /\ live' \in Handlers \union {Absent, Bare} /\ open' \subseteq Handlers
      /\ hand' \in [Handlers -> [source : {"none", "notify", "plain"}, token : Tokens]]
      /\ \A k \in Handlers : /\ hand'[k].token \in {NoToken, store}
                             /\ hand'[k].source = "none" <=> hand'[k].token = NoToken
  BY <1>1, <1>2, Starting DEF TypeOK
<1>4. UNCHANGED <<store, turn, revoked>>
  BY DEF Restart, provider
<1>5. \A k \in Handlers : saving'[k] = NoToken
  BY DEF Restart
<1>6. NoToken \in Tokens /\ NoToken.grant = Nobody /\ Nobody \notin Flows
  BY CallbacksAssumption DEF NoToken, Tokens
<1>7. saving' \in [Handlers -> Tokens]
  BY <1>6 DEF Restart
<1>8. job' \in [Actors -> Jobs] /\ \A b \in Actors : job'[b] = Idle
  BY IdleCalm DEF Restart
<1>9. RegistryTypeOK' /\ RegistryOK' /\ AskedOnce
  <2>1. /\ pending' = {} /\ byState' = {}
        /\ done' = [f \in Flows |-> Open]
        /\ fetch' = [f \in Flows |-> IF fetch[f] = "unused" THEN "unused" ELSE "failed"]
        /\ callback' = [c \in Callbacks |-> Nobody]
    BY DEF Restart, RegistryLost
  <2>2. Open \in [code : BOOLEAN, closed : BOOLEAN] /\ ~Open.code
    BY DEF Open
  <2>3. /\ done' \in [Flows -> [code : BOOLEAN, closed : BOOLEAN]]
        /\ \A f \in Flows : ~done'[f].code
    BY <2>1, <2>2
  <2>4. /\ fetch' \in [Flows -> Stages]
        /\ \A f \in Flows : fetch'[f] = IF fetch[f] = "unused" THEN "unused" ELSE "failed"
    BY <2>1 DEF Stages
  <2>5. callback' \in [Callbacks -> Flows \union {Nobody}] /\ \A c \in Callbacks : callback'[c] = Nobody
    BY <2>1
  <2>6. RegistryTypeOK'
    BY <2>1, <2>3, <2>4, <2>5 DEF RegistryTypeOK
  <2>7. RegistryOK'
    BY <2>1, <2>3, <2>4, <2>5 DEF RegistryOK
  <2>8. AskedOnce
    BY <2>4 DEF AskedOnce
  <2> QED
    BY <2>6, <2>7, <2>8
<1>10. TypeOK'
  BY <1>1, <1>3, <1>4, <1>7, <1>8, <1>9 DEF TypeOK
<1>11. InBounds'
  <2>1. Reached(store)' /\ (store # NoToken => store.turn <= turn'[store.grant])
    BY <1>1, <1>4 DEF KeepOK, InBounds, Reached
  <2>2. \A k \in Handlers : Reached(hand[k].token)' /\ Reached(saving[k])'
    BY <1>3, <1>5, <2>1 DEF Reached
  <2> QED
    BY <1>3, <1>5, <2>1, <2>2 DEF InBounds
<1>12. LastOfGrant'
  BY <1>5 DEF LastOfGrant
<1>13. StoreKeepsUp'
  <2>1. SUFFICES ASSUME store # NoToken, NEW x, x = store.grant, ~Marked(x, revoked', lossy')
                 PROVE  store.turn = turn[x]
    BY <1>4 DEF StoreKeepsUp, Marked, Behind
  <2>2. lossy' = lossy \union {<<saving[h].grant, "fault">> : h \in {k \in Handlers : saving[k] # NoToken}}
    BY DEF Restart
  <2>3. \A k \in Handlers : saving[k] # NoToken => saving[k].grant # x
    BY <2>1, <2>2 DEF Marked
  <2>4. ~Exempt(x)
    BY <1>4, <2>1, <2>2 DEF Exempt, Marked
  <2>5. ~Behind(x)
    BY <1>1, <2>1, <2>4 DEF KeepOK, StoreKeepsUp, Exempt
  <2>6. x # Nobody
    BY <1>1, <1>6, <2>1 DEF TypeOK, Tokens
  <2>7. \A k \in Handlers : saving[k] # Token(x, turn[x])
    <3>1. Token(x, turn[x]).grant = x
      BY DEF Token
    <3> QED
      BY <1>6, <2>3, <2>6, <3>1
  <2> QED
    BY <2>5, <2>7 DEF Behind
<1>15. JobsOK'
  <2>1. \A g \in Flows : fetch'[g] = "unused" => turn'[g] = -1
    BY <1>1, <1>4, <1>9 DEF JobsOK, AskedOnce
  <2>2. \A b \in Actors : Calm(job'[b])
    BY <1>8, IdleCalm
  <2> QED
    BY <1>1, <1>9, <2>1, <2>2, JobsKept, {} \in SUBSET Actors
<1> QED
  BY <1>9, <1>10, <1>11, <1>12, <1>13, <1>15 DEF IInv, KeepOK

LEMMA InitIInv == Init => IInv /\ configured \in BOOLEAN
<1> SUFFICES ASSUME Init PROVE IInv /\ configured \in BOOLEAN
  OBVIOUS
<1>1. PICK f \in Flows : /\ RegistryInit({f})
                         /\ turn = [g \in Flows |-> IF g = f THEN 0 ELSE -1]
                         /\ store \in {NoToken, Token(f, 0)}
  BY HandlersAssumption DEF Init
<1>2. PICK s \in Started(store, TRUE) : live = s.live /\ open = s.open /\ hand = s.hand
  BY DEF Init
<1>3. NoToken \in Tokens /\ NoToken.grant = Nobody /\ Nobody \notin Flows
  BY CallbacksAssumption DEF NoToken, Tokens
<1>4. store \in Tokens /\ (store # NoToken => store.grant = f /\ store.turn = 0)
  BY <1>1, <1>3 DEF Token, Tokens
<1>5. /\ live \in Handlers \union {Absent, Bare} /\ open \subseteq Handlers
      /\ hand \in [Handlers -> [source : {"none", "notify", "plain"}, token : Tokens]]
      /\ \A k \in Handlers : /\ hand[k].token \in {NoToken, store}
                             /\ hand[k].source = "none" <=> hand[k].token = NoToken
  <2>1. /\ s.live \in Handlers \union {Absent, Bare} /\ s.open \subseteq Handlers
        /\ s.hand \in [Handlers -> [source : {"none", "notify", "plain"}, token : Tokens]]
        /\ \A k \in Handlers : /\ s.hand[k].token \in {NoToken, store}
                               /\ s.hand[k].source = "none" <=> s.hand[k].token = NoToken
    <3>1. PICK section \in BOOLEAN : section = TRUE
      OBVIOUS
    <3>2. s \in Started(store, section)
      BY <1>2, <3>1
    <3> QED
      BY <1>4, <3>2, Starting
  <2> QED
    BY <1>2, <2>1
<1>6. /\ saving \in [Handlers -> Tokens] /\ \A k \in Handlers : saving[k] = NoToken
      /\ revoked = {} /\ configured = TRUE
  BY <1>3 DEF Init
<1>7. job \in [Actors -> Jobs] /\ \A a \in Actors : job[a] = Idle
  BY IdleCalm DEF Init
<1>8. turn \in [Flows -> Nat \union {-1}] /\ turn[f] = 0 /\ \A g \in Flows \ {f} : turn[g] = -1
  BY <1>1
<1>9. RegistryTypeOK /\ RegistryOK /\ \A g \in Flows : fetch[g] = "unused" => turn[g] = -1
  <2>1. /\ pending = {} /\ byState = {}
        /\ done = [g \in Flows |-> Open]
        /\ fetch = [g \in Flows |-> IF g \in {f} THEN "failed" ELSE "unused"]
        /\ callback = [c \in Callbacks |-> Nobody]
    BY <1>1 DEF RegistryInit
  <2>2. Open \in [code : BOOLEAN, closed : BOOLEAN] /\ ~Open.code
    BY DEF Open
  <2>3. /\ done \in [Flows -> [code : BOOLEAN, closed : BOOLEAN]]
        /\ \A g \in Flows : ~done[g].code
    BY <2>1, <2>2
  <2>4. fetch \in [Flows -> Stages] /\ \A g \in Flows : fetch[g] = IF g = f THEN "failed" ELSE "unused"
    BY <2>1 DEF Stages
  <2>5. callback \in [Callbacks -> Flows \union {Nobody}] /\ \A c \in Callbacks : callback[c] = Nobody
    BY <2>1
  <2>6. RegistryTypeOK
    BY <2>1, <2>3, <2>4, <2>5 DEF RegistryTypeOK
  <2>7. RegistryOK
    BY <2>1, <2>3, <2>4, <2>5 DEF RegistryOK
  <2> QED
    BY <1>8, <2>4, <2>6, <2>7
<1>10. TypeOK
  BY <1>4, <1>5, <1>6, <1>7, <1>8, <1>9 DEF TypeOK
<1>11. JobsOK
  BY <1>6, <1>7, <1>9, IdleCalm DEF JobsOK, Calm, ShapeOK, FlowOK, Heads, Starts, Own
<1>12. KeepOK
  <2>1. \A tok \in {NoToken, store} : Reached(tok)
    BY <1>4, <1>8 DEF Reached
  <2>2. InBounds
    BY <1>5, <1>6, <2>1 DEF InBounds
  <2>3. LastOfGrant
    BY <1>6 DEF LastOfGrant
  <2>4. StoreKeepsUp
    BY <1>4, <1>8 DEF StoreKeepsUp, Behind
  <2> QED
    BY <2>2, <2>3, <2>4 DEF KeepOK
<1> QED
  BY <1>6, <1>9, <1>10, <1>11, <1>12 DEF IInv

LEMMA Stutter == ASSUME IInv, UNCHANGED vars PROVE IInv'
<1>1. TypeOK'
  BY DEF IInv, vars, tokens, provider, registry, TypeOK, RegistryTypeOK
<1>2. UNCHANGED <<registry, store, hand, live, open, saving, turn, revoked, job, lossy>>
  BY DEF vars, tokens, provider
<1>3. Forgetful
  BY <1>2 DEF Forgetful
<1> QED
  BY <1>1, <1>2, <1>3, LightKeeps DEF Light

LEMMA StepKeeps ==
    ASSUME IInv, NEW a \in Actors, Step(a)
    PROVE  IInv'
<1>1. CASE Uncache(a) \/ Delete(a)
  BY <1>1, UncacheStep, DeleteStep
<1>2. CASE LookUp(a) \/ NewHandler(a) \/ Enter(a) \/ Connect(a) \/ Publish(a) \/ Check(a)
  BY <1>2, LookUpStep, NewHandlerStep, EnterStep, ConnectStep, PublishStep, CheckStep
<1>3. CASE Ask(a) \/ Answered(a) \/ Put(a) \/ Cache(a)
  BY <1>3, AskStep, AnsweredStep, PutStep, CacheStep
<1>4. CASE (Unregister \/ Placeholder \/ WriteFile) \/ Finish(a)
  BY <1>4, OperatorStep, FinishStep
<1> QED
  BY <1>1, <1>2, <1>3, <1>4 DEF Step

LEMMA NextKeeps == IInv /\ configured \in BOOLEAN /\ [Next]_vars => IInv'
<1> SUFFICES ASSUME IInv, configured \in BOOLEAN, [Next]_vars PROVE IInv'
  OBVIOUS
<1>1. CASE \E a \in Actors : Step(a)
  BY <1>1, StepKeeps
<1>2. CASE (\E a \in Actors : RequestConnect(a)) \/ RequestRevoke \/ \E op \in Operations : Operate(op)
  BY <1>2, RequestStep
<1>3. CASE \E h \in Handlers : Challenge(h) \/ Refresh(h) \/ Save(h) \/ Drained(h)
  BY <1>3, ChallengeStep, RefreshStep, SaveStep, DrainedStep
<1>4. CASE Registry
  BY <1>4, RegistryKeeps
<1>5. CASE Restart
  BY <1>5, RestartStep
<1>6. CASE UNCHANGED vars
  BY <1>6, Stutter
<1> QED
  BY <1>1, <1>2, <1>3, <1>4, <1>5, <1>6 DEF Next

LEMMA Configured == configured \in BOOLEAN /\ [Next]_vars => configured' \in BOOLEAN
<1> SUFFICES ASSUME configured \in BOOLEAN, [Next]_vars PROVE configured' \in BOOLEAN
  OBVIOUS
<1>1. CASE \E a \in Actors : Step(a)
  <2>1. PICK a \in Actors : Step(a)
    BY <1>1
  <2>2. CASE WriteFile
    BY <2>2 DEF WriteFile, At
  <2>3. CASE Uncache(a) \/ Delete(a) \/ LookUp(a) \/ NewHandler(a) \/ Enter(a) \/ Connect(a) \/ Publish(a) \/ Check(a)
    BY <2>3 DEF Uncache, Delete, LookUp, NewHandler, Enter, Connect, Publish, Check, bounds, SameBut
  <2>4. CASE Ask(a) \/ Answered(a) \/ Put(a) \/ Cache(a) \/ Unregister \/ Placeholder \/ Finish(a)
    BY <2>4 DEF Ask, Answered, Put, Cache, Unregister, Placeholder, Finish, bounds, SameBut
  <2> QED
    BY <2>1, <2>2, <2>3, <2>4 DEF Step
<1>2. CASE \E a \in Actors : RequestConnect(a)
  BY <1>2 DEF RequestConnect, Begin
<1>3. CASE RequestRevoke \/ \E op \in Operations : Operate(op)
  BY <1>3 DEF RequestRevoke, Operate, Begin
<1>4. CASE \E h \in Handlers : Challenge(h) \/ Refresh(h) \/ Save(h) \/ Drained(h)
  BY <1>4 DEF Challenge, Refresh, Save, Drained, bounds, SameBut
<1>5. CASE Registry \/ Restart \/ UNCHANGED vars
  BY <1>5 DEF Registry, Restart, vars, bounds
<1> QED
  BY <1>1, <1>2, <1>3, <1>4, <1>5 DEF Next

LEMMA Inductive == Spec => []IInv
<1>1. (IInv /\ configured \in BOOLEAN) /\ [Next]_vars => (IInv /\ configured \in BOOLEAN)'
  BY NextKeeps, Configured
<1> QED
  BY <1>1, InitIInv, PTL DEF Spec

-----------------------------------------------------------------------------
(* What was thrown away, on top of that invariant.  While a clearing is    *)
(* under way, all the others are known for having begun before its end.    *)
ClearedInv ==
    /\ gone \subseteq Flows
    /\ ClearedStaysCleared
    /\ \A a \in Actors : Clears(a) => \A b \in Actors \ {a} : Busy(b) => b \in late

LEMMA NoGrant == NoToken.grant = Nobody /\ NoHandler.token = NoToken /\ Nobody \notin Flows
BY CallbacksAssumption DEF NoToken, NoHandler, Handler

(* Nothing gone gets into the row or into a handler, nobody becomes busy,  *)
(* and a clearing that goes on does.                                       *)
LEMMA StillCleared ==
    ASSUME ClearedInv, late' = late, gone' \subseteq Flows,
           \A b \in Actors : Busy(b)' => Busy(b),
           \A b \in Actors : Clears(b)' => Clears(b),
           store'.grant \in gone' => store.grant \in gone /\ (Clearing => Clearing'),
           \A h \in Handlers \ stale' : hand'[h].token.grant \in gone' =>
               h \notin stale /\ hand[h].token.grant \in gone
    PROVE  ClearedInv'
<1>1. store'.grant \in gone' => Clearing'
  BY DEF ClearedInv, ClearedStaysCleared
<1>2. \A h \in Handlers \ stale' : hand'[h].token.grant \notin gone'
  BY DEF ClearedInv, ClearedStaysCleared
<1>3. \A a \in Actors : Clears(a)' => \A b \in Actors \ {a} : Busy(b)' => b \in late'
  BY DEF ClearedInv
<1> QED
  BY <1>1, <1>2, <1>3 DEF ClearedInv, ClearedStaysCleared

(* One who is busy moves on.                                               *)
LEMMA MovesOn ==
    ASSUME NEW a \in Actors, Busy(a), late' = late,
           \A b \in Actors \ {a} : job'[b] = job[b],
           Clears(a)' => Clears(a)
    PROVE  /\ \A b \in Actors : Busy(b)' => Busy(b)
           /\ \A b \in Actors : Clears(b)' => Clears(b)
           /\ (Clears(a) => Clears(a)') => (Clearing => Clearing')
<1>1. \A b \in Actors \ {a} : (Busy(b)' <=> Busy(b)) /\ (Clears(b)' <=> Clears(b))
  BY DEF Busy, Clears, At
<1>2. (\A b \in Actors : Busy(b)' => Busy(b)) /\ (\A b \in Actors : Clears(b)' => Clears(b))
  BY <1>1
<1>3. ASSUME Clears(a) => Clears(a)', Clearing PROVE Clearing'
  <2>1. PICK b \in Actors : Clears(b)
    BY <1>3 DEF Clearing
  <2>2. Clears(b)'
    BY <1>1, <1>3, <2>1
  <2> QED
    BY <2>2 DEF Clearing
<1> QED
  BY <1>2, <1>3

LEMMA Stays ==
    ASSUME job' = job, late' = late
    PROVE  /\ \A b \in Actors : Busy(b)' => Busy(b)
           /\ \A b \in Actors : Clears(b)' => Clears(b)
           /\ Clearing => Clearing'
BY DEF Busy, Clears, Clearing, At

(* Only what clears goes on to clear.                                      *)
LEMMA Onward ==
    ASSUME IInv, NEW a \in Actors, Step(a)
    PROVE  /\ Busy(a) /\ \A b \in Actors \ {a} : job'[b] = job[b]
           /\ ~At(a, "uncache") /\ ~At(a, "delete") => ~Starts(job'[a].todo, Unhandled)
<1> DEFINE s == job[a].todo
<1>1. TypeOK /\ JobsOK /\ job[a] \in Jobs
  BY DEF IInv, TypeOK
<1>2. ASSUME NEW x, At(a, x) PROVE Busy(a)
  BY <1>2 DEF At, Busy, Idle
<1>3. ASSUME NEW t, Go(a, t)
      PROVE  job'[a].todo = t /\ \A b \in Actors \ {a} : job'[b] = job[b]
  BY <1>1, <1>3 DEF Go, TypeOK, Jobs
<1>4. ASSUME job' = [job EXCEPT ![a] = Idle]
      PROVE  ~Starts(job'[a].todo, Unhandled) /\ \A b \in Actors \ {a} : job'[b] = job[b]
  BY <1>1, <1>4 DEF TypeOK, Idle, Starts
<1>5. ASSUME NEW x, At(a, x), x \notin Unhandled PROVE ~Starts(Tail(s), Unhandled)
  BY <1>1, <1>5, Upcoming
<1>6. Unhandled = {"uncache", "delete"}
  BY DEF Unhandled
<1>7. CASE Uncache(a) \/ Delete(a)
  BY <1>2, <1>3, <1>7 DEF Uncache, Delete, Advance
<1>8. CASE LookUp(a) \/ NewHandler(a)
  <2>1. PICK x \in {"lookup", "new"} : At(a, x)
    BY <1>8 DEF LookUp, NewHandler
  <2>2. job'[a].todo \in {Tail(s), Tail(Tail(s))} /\ \A b \in Actors \ {a} : job'[b] = job[b]
    BY <1>1, <1>8 DEF LookUp, NewHandler, TypeOK, Jobs
  <2>3. x = "lookup" => job'[a].todo = Tail(s)
    BY <1>1, <1>8, <2>1 DEF LookUp, NewHandler, TypeOK, Jobs, At
  <2>4. x = "new" => ~Starts(Tail(Tail(s)), Unhandled)
    BY <1>1, <1>6, <2>1, UpcomingSecond
  <2> QED
    BY <1>2, <1>5, <1>6, <2>1, <2>2, <2>3, <2>4
<1>9. CASE Enter(a)
  <2>1. ~Starts(Tail(Tail(Tail(s))), Unhandled)
    BY <1>1, <1>9, UpcomingThird DEF Enter
  <2> QED
    BY <1>2, <1>3, <1>5, <1>6, <1>9, <2>1 DEF Enter
<1>10. CASE Connect(a)
  <2>1. s # <<>> /\ s \in Seq(Steps)
    BY <1>1, <1>10 DEF Connect, At, Jobs
  <2>2. ~Starts(Authorize \o s, Unhandled)
    BY <2>1, <1>6 DEF Authorize, Starts, Steps
  <2> QED
    BY <1>2, <1>3, <1>4, <1>5, <1>6, <1>10, <2>2 DEF Connect, Advance
<1>11. CASE Publish(a) \/ Answered(a)
  BY <1>2, <1>3, <1>4, <1>5, <1>6, <1>11 DEF Publish, Answered, Advance
<1>12. CASE Check(a)
  <2>1. ~Starts(Authorize \o Register, Unhandled)
    BY <1>6 DEF Authorize, Register, Starts
  <2>2. ASSUME job' = [job EXCEPT ![a].todo = Authorize \o Register, ![a].h = live]
        PROVE  job'[a].todo = Authorize \o Register /\ \A b \in Actors \ {a} : job'[b] = job[b]
    BY <1>1, <2>2 DEF TypeOK, Jobs
  <2> QED
    BY <1>2, <1>4, <1>12, <2>1, <2>2 DEF Check
<1>13. CASE Ask(a)
  <2>1. PICK f : job' = [job EXCEPT ![a].todo = Tail(@), ![a].flow = f]
    BY <1>13 DEF Ask
  <2>2. job'[a].todo = Tail(s) /\ \A b \in Actors \ {a} : job'[b] = job[b]
    BY <1>1, <2>1 DEF TypeOK, Jobs
  <2> QED
    BY <1>2, <1>5, <1>6, <1>13, <2>2 DEF Ask
<1>14. CASE Put(a)
  <2>1. ~Starts(Tail(Tail(s)), Unhandled)
    BY <1>1, <1>6, <1>14, UpcomingSecond DEF Put
  <2> QED
    BY <1>2, <1>3, <1>5, <1>6, <1>14, <2>1 DEF Put, Advance
<1>15. CASE Cache(a)
  BY <1>2, <1>3, <1>5, <1>6, <1>15 DEF Cache, Advance
<1>16. CASE a = Operator /\ (Unregister \/ Placeholder \/ WriteFile)
  BY <1>2, <1>3, <1>5, <1>6, <1>16 DEF Unregister, Placeholder, WriteFile, Advance
<1>17. CASE Finish(a)
  BY <1>4, <1>17 DEF Finish
<1> QED
  BY <1>7, <1>8, <1>9, <1>10, <1>11, <1>12, <1>13, <1>14, <1>15, <1>16, <1>17 DEF Step

LEMMA OnwardClears ==
    ASSUME IInv, NEW a \in Actors, Step(a), ~At(a, "uncache"), ~At(a, "delete")
    PROVE  ~Clears(a) /\ ~Clears(a)'
<1>1. ~Starts(job'[a].todo, Unhandled)
  BY Onward
<1> QED
  BY <1>1 DEF Clears, At, Starts, Unhandled

(* Most steps of an actor leave the row, and make no handler.              *)
LEMMA QuietClears ==
    ASSUME IInv, ClearedInv, NEW a \in Actors, Step(a), ~At(a, "uncache"), ~At(a, "delete"),
           UNCHANGED <<store, thrown>>,
           \A h \in Handlers : hand'[h] \in {hand[h], NoHandler}
    PROVE  ClearedInv'
<1>1. UNCHANGED <<store, gone, late, stale>>
  BY DEF thrown
<1>2. /\ \A b \in Actors : Busy(b)' => Busy(b)
      /\ \A b \in Actors : Clears(b)' => Clears(b)
      /\ Clearing => Clearing'
  BY <1>1, Onward, OnwardClears, MovesOn
<1>3. \A h \in Handlers : hand'[h].token.grant \in gone' => hand[h].token.grant \in gone
  BY <1>1, NoGrant DEF ClearedInv
<1> QED
  BY <1>1, <1>2, <1>3, StillCleared DEF ClearedInv

LEMMA UncacheClears ==
    ASSUME IInv, ClearedInv, NEW a \in Actors, Uncache(a)
    PROVE  ClearedInv'
<1> DEFINE s == job[a].todo
<1>1. TypeOK /\ JobsOK /\ At(a, "uncache") /\ Step(a)
  BY DEF IInv, Uncache, Step
<1>2. Tail(s) \in Seq(Steps) /\ Tail(s) # << >> /\ Head(Tail(s)) = "delete"
  BY <1>1, Upcoming DEF Follower
<1>3. Clears(a)' => Clears(a)
  BY <1>1 DEF Uncache, Clears
<1>4. ASSUME Clears(a) PROVE Clears(a)'
  <2>1. a \notin Connects /\ a \in {Operator, Revoker} \ late /\ late' = late
    BY <1>4, ActorsAssumption DEF Clears, Uncache
  <2>2. Go(a, Tail(s)) \/ Go(a, <<"delete">> \o Tail(s))
    BY <2>1 DEF Uncache
  <2>3. job'[a].todo = Tail(s) \/ job'[a].todo = <<"delete">> \o Tail(s)
    <3>1. ASSUME NEW t, Go(a, t) PROVE job'[a].todo = t
      BY <1>1, <3>1 DEF Go, TypeOK, Jobs
    <3>2. CASE Go(a, Tail(s))
      BY <3>1, <3>2
    <3>3. CASE Go(a, <<"delete">> \o Tail(s))
      BY <3>1, <3>3
    <3> QED
      BY <2>2, <3>2, <3>3
  <2>4. <<"delete">> \o Tail(s) # << >> /\ Head(<<"delete">> \o Tail(s)) = "delete"
    BY <1>2 DEF Steps
  <2> HIDE DEF s
  <2>5. At(a, "delete")'
    BY <1>2, <2>3, <2>4 DEF At
  <2> QED
    BY <2>1, <2>5 DEF Clears
<1>5. UNCHANGED <<store, gone, late>> /\ stale' = stale \ {live}
  BY DEF Uncache
<1>6. /\ \A b \in Actors : Busy(b)' => Busy(b)
      /\ \A b \in Actors : Clears(b)' => Clears(b)
      /\ Clearing => Clearing'
  BY <1>1, <1>3, <1>4, <1>5, Onward, MovesOn
<1>7. \A h \in Handlers \ stale' : hand'[h].token.grant \in gone' =>
          h \notin stale /\ hand[h].token.grant \in gone
  <2>1. \A h \in Handlers : hand'[h] = IF h = live THEN NoHandler ELSE hand[h]
    BY <1>1 DEF Uncache, TypeOK
  <2> QED
    BY <1>5, <2>1, NoGrant DEF ClearedInv
<1> QED
  BY <1>5, <1>6, <1>7, StillCleared DEF ClearedInv

LEMMA DeleteClears ==
    ASSUME IInv, ClearedInv, NEW a \in Actors, Delete(a)
    PROVE  ClearedInv'
<1>1. TypeOK /\ At(a, "delete") /\ Step(a) /\ UNCHANGED <<hand, late, stale>>
  BY DEF IInv, Delete, Step
<1>2. Clears(a)' => Clears(a)
  BY <1>1 DEF Clears
<1>3. /\ \A b \in Actors : Busy(b)' => Busy(b)
      /\ \A b \in Actors : Clears(b)' => Clears(b)
      /\ (Clears(a) => Clears(a)') => (Clearing => Clearing')
  BY <1>1, <1>2, Onward, MovesOn
<1>4. CASE store' = NoToken /\ gone' = gone
  BY <1>1, <1>3, <1>4, NoGrant, StillCleared DEF ClearedInv
<1>5. CASE /\ Advance(a) /\ UNCHANGED store
           /\ gone' = IF Clears(a) /\ ~Again(job[a].todo) THEN gone \ {store.grant} ELSE gone
  <2>1. ASSUME store'.grant \in gone', Clears(a) PROVE Clears(a)'
    <3>1. Again(job[a].todo) /\ job[a].todo \in Seq(Steps)
      BY <1>1, <1>5, <2>1 DEF TypeOK, Jobs
    <3>2. Starts(Tail(job[a].todo), {"delete"})
      BY <3>1, AgainNext
    <3>3. job'[a].todo = Tail(job[a].todo)
      BY <1>1, <1>5 DEF Advance, Go, TypeOK, Jobs
    <3> QED
      BY <1>1, <2>1, <3>2, <3>3 DEF Clears, At, Starts
  <2>2. store'.grant \in gone' => store.grant \in gone /\ (Clearing => Clearing')
    BY <1>3, <1>5, <2>1
  <2>3. gone' \subseteq gone
    BY <1>5
  <2> QED
    BY <1>1, <1>3, <2>2, <2>3, StillCleared DEF ClearedInv
<1> QED
  BY <1>4, <1>5 DEF Delete

(* One who began since the clearing was over finds nothing gone in the     *)
(* row.                                                                    *)
LEMMA NewHandlerClears ==
    ASSUME IInv, ClearedInv, NEW a \in Actors, NewHandler(a)
    PROVE  ClearedInv'
<1>1. TypeOK /\ At(a, "new") /\ Step(a) /\ UNCHANGED <<store, gone, late>>
  BY DEF IInv, NewHandler, Step
<1>2. ~At(a, "uncache") /\ ~At(a, "delete") /\ Busy(a)
  BY <1>1 DEF At, Busy, Idle
<1>3. /\ \A b \in Actors : Busy(b)' => Busy(b)
      /\ \A b \in Actors : Clears(b)' => Clears(b)
      /\ Clearing => Clearing'
  BY <1>1, <1>2, Onward, OnwardClears, MovesOn
<1>4. a \notin late => store.grant \notin gone
  <2>1. SUFFICES ASSUME a \notin late, Clearing PROVE FALSE
    BY DEF ClearedInv, ClearedStaysCleared
  <2>2. PICK b \in Actors : Clears(b)
    BY <2>1 DEF Clearing
  <2>3. a # b
    BY <1>2, <2>2 DEF Clears
  <2> QED
    BY <1>2, <2>1, <2>2, <2>3 DEF ClearedInv
<1>5. PICK h : /\ hand' = [hand EXCEPT ![h] = IF store = NoToken THEN NoHandler ELSE Handler("notify", store)]
               /\ stale' = IF a \in late THEN stale \union {h} ELSE stale \ {h}
  BY DEF NewHandler
<1>6. \A k \in Handlers : k # h => hand'[k] = hand[k]
  BY <1>1, <1>5 DEF TypeOK
<1>7. h \in Handlers => hand'[h].token = store
  BY <1>1, <1>5, NoGrant DEF TypeOK, Handler
<1>8. \A k \in Handlers \ stale' : hand'[k].token.grant \in gone' =>
          k \notin stale /\ hand[k].token.grant \in gone
  BY <1>1, <1>4, <1>5, <1>6, <1>7
<1> QED
  BY <1>1, <1>3, <1>8, StillCleared DEF ClearedInv

LEMMA AskClears ==
    ASSUME IInv, ClearedInv, NEW a \in Actors, Ask(a)
    PROVE  ClearedInv'
<1>1. TypeOK /\ At(a, "create") /\ Step(a) /\ UNCHANGED <<store, hand, late, stale>>
  BY DEF IInv, Ask, Step, tokens
<1>2. ~At(a, "uncache") /\ ~At(a, "delete")
  BY <1>1 DEF At
<1>3. PICK f \in Flows : fetch[f] = "unused" /\ gone' = IF a \in late THEN gone \union {f} ELSE gone
  <2>1. (CHOOSE g \in Unasked : TRUE) \in Unasked
    BY DEF Ask
  <2> QED
    BY <2>1 DEF Ask, Unasked
<1>4. Unheld(f)
  BY <1>3, Unobtained DEF IInv, JobsOK
<1>5. /\ \A b \in Actors : Busy(b)' => Busy(b)
      /\ \A b \in Actors : Clears(b)' => Clears(b)
      /\ Clearing => Clearing'
  BY <1>1, <1>2, Onward, OnwardClears, MovesOn
<1>6. store'.grant \in gone' => store.grant \in gone
  BY <1>1, <1>3, <1>4 DEF Unheld, Lacks
<1>7. \A h \in Handlers : hand'[h].token.grant \in gone' => hand[h].token.grant \in gone
  BY <1>1, <1>3, <1>4 DEF Unheld, Lacks
<1> QED
  BY <1>1, <1>3, <1>5, <1>6, <1>7, StillCleared DEF ClearedInv

(* Who obtained a token puts it into the row, and into its handler.        *)
LEMMA ObtainedClears ==
    ASSUME IInv, ClearedInv, NEW a \in Actors, Put(a) \/ Cache(a)
    PROVE  ClearedInv'
<1>1. TypeOK /\ Step(a) /\ UNCHANGED <<late, stale>> /\ gone' \subseteq gone
  BY DEF IInv, Put, Cache, Step
<1>2. ~At(a, "uncache") /\ ~At(a, "delete")
  BY DEF At, Put, Cache
<1>3. /\ \A b \in Actors : Busy(b)' => Busy(b)
      /\ \A b \in Actors : Clears(b)' => Clears(b)
      /\ Clearing => Clearing'
  BY <1>1, <1>2, Onward, OnwardClears, MovesOn
<1>4. store'.grant \in gone' => store.grant \in gone
  BY DEF Put, Cache, Token
<1>5. \A h \in Handlers : hand'[h].token.grant \in gone' => hand[h].token.grant \in gone
  BY <1>1 DEF Put, Cache, Token, Handler, TypeOK
<1> QED
  BY <1>1, <1>3, <1>4, <1>5, StillCleared DEF ClearedInv

LEMMA StepClears ==
    ASSUME IInv, ClearedInv, NEW a \in Actors, Step(a)
    PROVE  ClearedInv'
<1>1. TypeOK
  BY DEF IInv
<1>2. CASE Uncache(a) \/ Delete(a) \/ NewHandler(a) \/ Ask(a) \/ Put(a) \/ Cache(a)
  BY <1>2, UncacheClears, DeleteClears, NewHandlerClears, AskClears, ObtainedClears
<1>3. ASSUME ~At(a, "uncache"), ~At(a, "delete"), UNCHANGED <<store, thrown>>, Swept \/ UNCHANGED hand
      PROVE  ClearedInv'
  BY <1>1, <1>3, Sweeping, QuietClears
<1>4. CASE LookUp(a) \/ Enter(a) \/ Connect(a) \/ Publish(a) \/ Check(a) \/ Answered(a)
  BY <1>3, <1>4 DEF LookUp, Enter, Connect, Publish, Check, Answered, At, tokens
<1>5. CASE a = Operator /\ (Unregister \/ Placeholder \/ WriteFile)
  BY <1>3, <1>5 DEF Unregister, Placeholder, WriteFile, At, tokens
<1>6. CASE Finish(a)
  BY <1>3, <1>6 DEF Finish, At
<1> QED
  BY <1>2, <1>4, <1>5, <1>6 DEF Step

(* A job begins: one that throws nothing away, and one that does.          *)
LEMMA JoinClears ==
    ASSUME IInv, ClearedInv, NEW a \in Actors, ~Busy(a), Join(a), ~Clears(a)', UNCHANGED <<store, hand>>,
           \A b \in Actors \ {a} : job'[b] = job[b]
    PROVE  ClearedInv'
<1>1. UNCHANGED <<gone, stale>> /\ (late' = IF Clearing THEN late \union {a} ELSE late \ {a})
  BY DEF Join
<1>2. ~Clears(a)
  BY DEF Busy, Clears, At, Idle
<1>3. \A b \in Actors \ {a} : Clears(b)' <=> Clears(b)
  BY <1>1 DEF Clears, At
<1>4. Clearing => Clearing'
  BY <1>2, <1>3 DEF Clearing
<1>5. ASSUME NEW b \in Actors, Clears(b)', NEW c \in Actors \ {b}, Busy(c)'
      PROVE  c \in late'
  <2>1. b # a /\ Clears(b) /\ Clearing
    BY <1>3, <1>5 DEF Clearing
  <2>2. CASE c = a
    BY <1>1, <2>1, <2>2
  <2>3. CASE c # a
    <3>1. Busy(c)
      BY <1>5, <2>3 DEF Busy
    <3> QED
      BY <1>1, <1>5, <2>1, <3>1 DEF ClearedInv
  <2> QED
    BY <2>2, <2>3
<1>6. \A b \in Actors : Clears(b)' => \A c \in Actors \ {b} : Busy(c)' => c \in late'
  BY <1>5
<1>7. ClearedStaysCleared'
  BY <1>1, <1>4 DEF ClearedInv, ClearedStaysCleared
<1> QED
  BY <1>1, <1>6, <1>7 DEF ClearedInv

LEMMA ThrowClears ==
    ASSUME IInv, NEW a \in {Operator, Revoker}, ThrowAway(a), ~Busy(a), At(a, "uncache")',
           \A b \in Actors \ {a} : job'[b] = job[b]
    PROVE  ClearedInv'
<1>1. late' = {b \in Actors \ {a} : Busy(b)} /\ stale' = Handlers /\ gone' \subseteq Flows
  BY DEF ThrowAway
<1>2. a \in Actors /\ Clears(a)' /\ Clearing'
  BY <1>1 DEF Clears, Clearing, Actors
<1>3. ASSUME NEW b \in Actors, Clears(b)' PROVE b = a
  <2>1. SUFFICES ASSUME b # a PROVE FALSE
    OBVIOUS
  <2>2. Busy(b)
    BY <1>3, <2>1 DEF Clears, At, Busy, Idle
  <2> QED
    BY <1>1, <1>3, <2>1, <2>2 DEF Clears
<1>4. \A b \in Actors \ {a} : Busy(b)' => b \in late'
  BY <1>1 DEF Busy
<1>5. \A b \in Actors : Clears(b)' => \A c \in Actors \ {b} : Busy(c)' => c \in late'
  BY <1>3, <1>4
<1>6. ClearedStaysCleared'
  BY <1>1, <1>2 DEF ClearedStaysCleared
<1> QED
  BY <1>1, <1>5, <1>6 DEF ClearedInv

LEMMA RequestClears ==
    ASSUME IInv, ClearedInv,
           \/ \E a \in Actors : RequestConnect(a)
           \/ RequestRevoke
           \/ \E op \in Operations : Operate(op)
           \/ \E h \in Handlers : Challenge(h)
    PROVE  ClearedInv'
<1>1. TypeOK /\ {Operator, Revoker, Caller} \subseteq Actors
  BY DEF IInv, Actors
<1>2. ASSUME NEW a \in Actors, NEW t, Begin(a, t)
      PROVE  /\ ~Busy(a) /\ UNCHANGED <<store, hand>> /\ job'[a].todo = t
             /\ \A b \in Actors \ {a} : job'[b] = job[b]
  BY <1>1, <1>2 DEF Begin, tokens, TypeOK, Jobs
<1>3. /\ Clear # <<>> /\ Head(Clear) = "uncache" /\ Clear \in Seq(Steps)
      /\ Register \in Seq(Steps) /\ <<"unregister", "bare">> \in Seq(Steps) /\ <<"unregister">> \in Seq(Steps)
      /\ <<"unregister", "erase">> \in Seq(Steps) /\ <<"save">> \in Seq(Steps)
  BY DEF Clear, Register, Steps
<1>4. \A t \in Seq(Steps) : Clear \o t # <<>> /\ Head(Clear \o t) = "uncache"
  BY <1>3
<1>5. CASE \E a \in Actors : RequestConnect(a)
  <2>1. PICK a \in Actors : RequestConnect(a)
    BY <1>5
  <2>2. a \notin {Operator, Revoker}
    BY <2>1, ActorsAssumption DEF RequestConnect
  <2>3. ~Clears(a)'
    BY <2>2 DEF Clears
  <2> QED
    BY <1>2, <2>1, <2>3, JoinClears DEF RequestConnect
<1>6. CASE RequestRevoke
  BY <1>1, <1>2, <1>3, <1>6, ThrowClears DEF RequestRevoke, At
<1>7. CASE \E op \in Operations : Operate(op)
  <2>1. PICK op \in Operations : Operate(op)
    BY <1>7
  <2>2. CASE /\ \/ Begin(Operator, <<"unregister", "bare">> \o Register)
                \/ Begin(Operator, <<"unregister">> \o Register)
             /\ Join(Operator)
    <3>1. /\ Head(<<"unregister", "bare">> \o Register) = "unregister"
          /\ Head(<<"unregister">> \o Register) = "unregister"
      BY DEF Register
    <3>2. Head(job'[Operator].todo) = "unregister"
      BY <1>1, <1>2, <2>2, <3>1
    <3>3. ~Clears(Operator)'
      BY <3>2 DEF Clears, At
    <3> QED
      BY <1>1, <1>2, <2>2, <3>3, JoinClears
  <2>3. CASE /\ \/ Begin(Operator, Clear \o (<<"unregister">> \o Register))
                \/ Begin(Operator, Clear \o <<"unregister", "erase">>)
                \/ Begin(Operator, Clear \o (Register \o <<"save">>))
             /\ ThrowAway(Operator)
    <3>5. /\ <<"unregister">> \o Register \in Seq(Steps) /\ <<"unregister", "erase">> \in Seq(Steps)
          /\ Register \o <<"save">> \in Seq(Steps)
      BY <1>3
    <3>6. \/ Begin(Operator, Clear \o (<<"unregister">> \o Register))
          \/ Begin(Operator, Clear \o <<"unregister", "erase">>)
          \/ Begin(Operator, Clear \o (Register \o <<"save">>))
      BY <2>3
    <3> HIDE <2>3
    <3>1. PICK t \in Seq(Steps) : Begin(Operator, Clear \o t)
      <4>1. CASE Begin(Operator, Clear \o (<<"unregister">> \o Register))
        BY <4>1, <3>5
      <4>2. CASE Begin(Operator, Clear \o <<"unregister", "erase">>)
        BY <4>2, <3>5
      <4>3. CASE Begin(Operator, Clear \o (Register \o <<"save">>))
        BY <4>3, <3>5
      <4> QED
        BY <3>6, <4>1, <4>2, <4>3
    <3>2. At(Operator, "uncache")'
      BY <1>1, <1>2, <1>4, <3>1 DEF At
    <3> QED
      BY <1>1, <1>2, <2>3, <3>1, <3>2, ThrowClears
  <2> QED
    BY <2>1, <2>2, <2>3, Operated
<1>8. CASE \E h \in Handlers : Challenge(h)
  <2>1. /\ Join(Caller) /\ ~Busy(Caller) /\ UNCHANGED <<store, hand>>
        /\ \A b \in Actors \ {Caller} : job'[b] = job[b]
    BY <1>1, <1>8 DEF Challenge, tokens, TypeOK
  <2>2. ~Clears(Caller)'
    BY DEF Clears, Caller, Operator, Revoker
  <2> QED
    BY <1>1, <2>1, <2>2, JoinClears
<1> QED
  BY <1>5, <1>6, <1>7, <1>8

(* Rotations change no grant, and who saves one stores it again.           *)
LEMMA TokenClears ==
    ASSUME IInv, ClearedInv, NEW h \in Handlers, Refresh(h) \/ Save(h) \/ Drained(h)
    PROVE  ClearedInv'
<1>1. TypeOK /\ job' = job /\ UNCHANGED <<late, stale>>
  BY DEF IInv, Refresh, Save, Drained, thrown
<1>2. /\ \A b \in Actors : Busy(b)' => Busy(b)
      /\ \A b \in Actors : Clears(b)' => Clears(b)
      /\ Clearing => Clearing'
  BY <1>1, Stays
<1>3. gone' \subseteq gone /\ (store'.grant \in gone' => store.grant \in gone)
  BY DEF Refresh, Save, Drained, thrown
<1>4. \A k \in Handlers : hand'[k].token.grant \in gone' => hand[k].token.grant \in gone
  <2>1. CASE Refresh(h)
    <3>1. \A k \in Handlers : hand'[k].token.grant = hand[k].token.grant
      BY <1>1, <2>1 DEF Refresh, Token, TypeOK
    <3> QED
      BY <1>3, <3>1
  <2>2. CASE Save(h) \/ Drained(h)
    <3>1. \A k \in Handlers : hand'[k] \in {hand[k], NoHandler}
      BY <1>1, <2>2, Sweeping DEF Save, Drained
    <3> QED
      BY <1>3, <3>1, NoGrant DEF ClearedInv
  <2> QED
    BY <2>1, <2>2
<1> QED
  BY <1>1, <1>2, <1>3, <1>4, StillCleared DEF ClearedInv

(* What a clearing had still to delete is left by a crash; the process     *)
(* that starts has no other token than that of the row.                    *)
LEMMA RestartClears ==
    ASSUME IInv, ClearedInv, configured \in BOOLEAN, Restart
    PROVE  ClearedInv'
<1>1. PICK s \in Started(store, configured) : hand' = s.hand
  BY DEF Restart
<1>2. \A k \in Handlers : hand'[k].token \in {NoToken, store}
  BY <1>1, Starting DEF IInv, TypeOK
<1>3. store' = store /\ store.grant \notin gone' /\ gone' \subseteq Flows
  BY DEF Restart, ClearedInv, ClearedStaysCleared
<1>4. \A k \in Handlers : hand'[k].token.grant \notin gone'
  BY <1>2, <1>3, NoGrant
<1>5. \A b \in Actors : ~Clears(b)'
  BY DEF Restart, Clears, At, Idle
<1> QED
  BY <1>3, <1>4, <1>5 DEF ClearedInv, ClearedStaysCleared

LEMMA NextClears == IInv /\ configured \in BOOLEAN /\ ClearedInv /\ [Next]_vars => ClearedInv'
<1> SUFFICES ASSUME IInv, configured \in BOOLEAN, ClearedInv, [Next]_vars PROVE ClearedInv'
  OBVIOUS
<1>1. CASE \E a \in Actors : Step(a)
  BY <1>1, StepClears
<1>2. CASE \/ \E a \in Actors : RequestConnect(a)
           \/ RequestRevoke
           \/ \E op \in Operations : Operate(op)
           \/ \E h \in Handlers : Challenge(h)
  BY <1>2, RequestClears
<1>3. CASE \E h \in Handlers : Refresh(h) \/ Save(h) \/ Drained(h)
  BY <1>3, TokenClears
<1>4. CASE Registry \/ UNCHANGED vars
  <2>1. UNCHANGED <<store, hand, job, gone, late, stale>>
    BY <1>4 DEF Registry, vars, tokens, thrown
  <2>2. /\ \A b \in Actors : Busy(b)' => Busy(b)
        /\ \A b \in Actors : Clears(b)' => Clears(b)
        /\ Clearing => Clearing'
    BY <2>1, Stays
  <2> QED
    BY <2>1, <2>2, StillCleared DEF ClearedInv
<1>5. CASE Restart
  BY <1>5, RestartClears
<1> QED
  BY <1>1, <1>2, <1>3, <1>4, <1>5 DEF Next

LEMMA InitCleared == Init => ClearedInv
<1> SUFFICES ASSUME Init PROVE ClearedInv
  OBVIOUS
<1>1. gone = {} /\ \A a \in Actors : ~Busy(a)
  BY DEF Init, Busy
<1> QED
  BY <1>1 DEF ClearedInv, ClearedStaysCleared

-----------------------------------------------------------------------------

(* The row keeps up with the provider: the token stored is the one the     *)
(* provider accepts next, or saveRefreshedToken is about to store that     *)
(* one, for every grant that is not revoked and whose rotations were all   *)
(* answered and written and went through a source that saves them.         *)
THEOREM StoreIsCurrent == Spec => []StoreKeepsUp
<1>1. IInv => StoreKeepsUp
  BY DEF IInv, KeepOK
<1> QED
  BY <1>1, Inductive, PTL

(* What a revoke request, RemoveTool, UpdateTool or AddTool throws away    *)
(* does not come back through the code: once CleanupOAuthToken or          *)
(* ClearToken is done the row has no token from before, and no handler     *)
(* made since, or cleared, has one, unless who still had one stores it     *)
(* again.                                                                  *)
THEOREM ClearedIsGone == Spec => []ClearedStaysCleared
<1>1. IInv /\ configured \in BOOLEAN /\ ClearedInv /\ [Next]_vars =>
          (IInv /\ configured \in BOOLEAN /\ ClearedInv)'
  BY NextKeeps, Configured, NextClears
<1>2. Init => IInv /\ configured \in BOOLEAN /\ ClearedInv
  BY InitIInv, InitCleared
<1>3. ClearedInv => ClearedStaysCleared
  BY DEF ClearedInv
<1> QED
  BY <1>1, <1>2, <1>3, PTL DEF Spec

(* A callback that found its flow never finds a code in the channel, so    *)
(* that CompleteByState is not blocked by its send; no other callback      *)
(* answers that flow; and one authorization at most is listed and awaited. *)
THEOREM CallbacksDeliver == Spec => []CallbackDelivers
<1>1. IInv => CallbackDelivers
  <2> SUFFICES ASSUME IInv PROVE CallbackDelivers
    OBVIOUS
  <2>1. TypeOK /\ RegistryOK
    BY DEF IInv
  <2>2. ASSUME NEW c \in Callbacks, callback[c] # Nobody
        PROVE  ~done[callback[c]].code /\ \A d \in Callbacks \ {c} : callback[d] # callback[c]
    BY <2>1, <2>2 DEF RegistryOK
  <2>3. \A f \in Flows : fetch[f] = "coded" => f \notin byState
    BY <2>1 DEF RegistryOK
  <2> DEFINE S == {f \in pending : f \in Underway /\ ~done[f].closed}
  <2>4. Cardinality(S) <= 1
    <3>1. CASE S = {}
      BY <3>1, FS_EmptySet
    <3>2. CASE S # {}
      <4>1. PICK x : S = {x}
        BY <2>1, <3>2 DEF RegistryOK
      <4> HIDE DEF S
      <4> QED
        <5>1. Cardinality({x}) = 1
          BY FS_Singleton
        <5> QED
          BY <4>1, <5>1
    <3> QED
      BY <3>1, <3>2
  <2> QED
    BY <2>2, <2>3, <2>4 DEF CallbackDelivers
<1> QED
  BY <1>1, Inductive, PTL
=============================================================================
