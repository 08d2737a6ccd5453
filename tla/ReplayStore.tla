----------------------------- MODULE ReplayStore -----------------------------
(***************************************************************************)
(* The replay buffers of the WebSocket hub (internal/api/wsreplay.go): a   *)
(* ring of frames for each session, found by the session's name in a map   *)
(* that makes room when it is full and is swept of what has expired.       *)
(*                                                                         *)
(* A clock counts the frames appended; cutoff is the last of them that is  *)
(* older than the TTL.                                                     *)
(***************************************************************************)
EXTENDS Naturals, SequencesExt

CONSTANTS
    Sessions,
    Capacity        \* frames a buffer holds (200)

ASSUME ReplayAssumption == Capacity \in Nat \ {0}

NoEntry  == [frame |-> [q |-> 0], at |-> 0]
NoBuffer == 0                             \* buffers are numbered as they are made

VARIABLES
    ring,           \* ReplayBuffer: the buffers made so far
    stored,         \* ReplayStore.buffers: the buffer of each session
    clock, cutoff,
    taken           \* history: all that was appended to each buffer

replayVars == <<ring, stored, clock, cutoff, taken>>

NewReplayBuffer == [entries |-> [i \in 0 .. Capacity - 1 |-> NoEntry], head |-> 0, count |-> 0]

Appended(b, e) ==
    [entries |-> [b.entries EXCEPT ![b.head] = e],
     head    |-> (b.head + 1) % Capacity,
     count   |-> IF b.count < Capacity THEN b.count + 1 ELSE b.count]

(* ReplayBuffer.Append.                                                    *)
Remember(i, frame) ==
    LET e == [frame |-> frame, at |-> clock + 1] IN
    /\ clock' = clock + 1
    /\ ring' = [ring EXCEPT ![i] = Appended(@, e)]
    /\ taken' = [taken EXCEPT ![i] = Append(@, e)]
    /\ UNCHANGED <<stored, cutoff>>

Expired(e) == e.at <= cutoff

(* The entries of a buffer, oldest first.                                  *)
Entries(b) == [i \in 1 .. b.count |-> b.entries[(b.head + Capacity - b.count + i - 1) % Capacity]]
Newest(b)  == b.entries[(b.head + Capacity - 1) % Capacity]

(* The elements of s at the places in K, in their order.                   *)
Picked(s, K) ==
    LET first[n \in 0 .. Len(s)] ==
            IF n = 0 THEN << >>
            ELSE IF n \in K THEN Append(first[n - 1], s[n]) ELSE first[n - 1]
    IN  first[Len(s)]

(* Mutant: the frame the client named is sent again. *)
WantedAgain(e, after) == ~Expired(e) /\ e.frame.q >= after

Wanted(e, after) == ~Expired(e) /\ e.frame.q > after

ReplaySince(b, after) ==
    LET all  == Entries(b)
        hits == Picked(all, {i \in DOMAIN all : Wanted(all[i], after)})
    IN  [i \in DOMAIN hits |-> hits[i].frame]

Listed == {s \in Sessions : stored[s] # NoBuffer}
BufferOf(s) == ring[stored[s]]

(* evictOldestLocked: any empty buffer, or the one whose newest entry is   *)
(* the oldest.                                                             *)
Evictable ==
    LET empty == {s \in Listed : BufferOf(s).count = 0}
    IN  IF empty # {} THEN empty
        ELSE {s \in Listed : \A r \in Listed : Newest(BufferOf(s)).at <= Newest(BufferOf(r)).at}

(* ReplayStore.Buffer: i is the session's buffer, made when it has none,   *)
(* at the cost of another's when the map holds maxSessions.                *)
Buffer(s, i, maxSessions) ==
    \/ /\ stored[s] # NoBuffer /\ i = stored[s]
       /\ UNCHANGED replayVars
    \/ /\ stored[s] = NoBuffer /\ i = Len(ring) + 1
       /\ ring'  = Append(ring, NewReplayBuffer)
       /\ taken' = Append(taken, << >>)
       /\ \/ Cardinality(Listed) < maxSessions /\ stored' = [stored EXCEPT ![s] = i]
          \/ /\ Cardinality(Listed) >= maxSessions
             /\ \E r \in Evictable : stored' = [stored EXCEPT ![r] = NoBuffer, ![s] = i]
       /\ UNCHANGED <<clock, cutoff>>

(* Cleanup: a buffer goes that is empty or whose newest entry has expired. *)
Stale(b) == b.count = 0 \/ Expired(Newest(b))

Cleanup ==
    /\ \E s \in Listed : Stale(BufferOf(s))
    /\ stored' = [s \in Sessions |->
                     IF s \in Listed /\ Stale(BufferOf(s)) THEN NoBuffer ELSE stored[s]]
    /\ UNCHANGED <<ring, clock, cutoff, taken>>

(* Time passes: some of what was appended is now older than the TTL.       *)
Age == \E n \in cutoff + 1 .. clock :
    /\ cutoff' = n
    /\ UNCHANGED <<ring, stored, clock, taken>>

ReplayInit ==
    /\ ring = << >> /\ taken = << >>
    /\ stored = [s \in Sessions |-> NoBuffer]
    /\ clock = 0 /\ cutoff = 0
=============================================================================
