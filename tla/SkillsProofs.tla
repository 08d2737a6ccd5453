---------------------------- MODULE SkillsProofs ----------------------------
(* Proofs about Skills, for any names, goroutines, directories, faults and *)
(* crashes: no revision is undone twice, creates exclude each other, no    *)
(* text of a skill is lost, and an undo brings back what its change found. *)
EXTENDS SkillsProps, TLAPS

(* A job that a thread may hold.                                           *)
Valid(j) ==
    /\ j \in Jobs /\ j.pc \in PcsOf(j.task)
    /\ j.pc # "idle" => j.name \in Names /\ j.from \in Names

(* A create from its first check to its return.                            *)
Creating(j) == j.task = "create" /\ j.pc \notin {"lock", "idle"}

(* Creates hold the lock.                                                  *)
CreatesHoldLock == \A t \in Threads : Creating(thr[t]) => lock = t

SkillInv == SkillTypeOK /\ CreatesHoldLock /\ CreatesExclude

USE DEF NoText, Text, At, Busy

-----------------------------------------------------------------------------

LEMMA IdleValid == Valid(Idle) /\ ~Creating(Idle)
BY DEF Valid, Idle, Jobs, PcsOf, Tasks, Pcs, Creating, Pictures

(* The next step of a call is a step of that call, or its end.             *)
LEMMA FollowingOK ==
    ASSUME NEW task \in Tasks, NEW pc \in PcsOf(task)
    PROVE  /\ Following(task, pc) \in PcsOf(task) \union {"idle"}
           /\ Following(task, pc) \in Pcs \ {"claim", "lock"}
           /\ Following(task, pc) = "write" => (task = "create" <=> pc = "recheck")
BY DEF Following, PcsOf, Tasks, Pcs

LEMMA JobOK ==
    ASSUME NEW task \in Tasks \ {"none"}, NEW n \in Names, NEW m \in Names, NEW x \in Text
    PROVE  /\ Valid(Job(task, n, m, x)) /\ ~Creating(Job(task, n, m, x))
           /\ Job(task, n, m, x).task = task
           /\ Job(task, n, m, x).pc = First(task)
BY DEF Valid, Job, First, Idle, Jobs, PcsOf, Tasks, Pcs, Creating, Pictures

(* Whatever a handler begins is a job, of a skill or of a revision.        *)
LEMMA RequestOK ==
    ASSUME SkillTypeOK, NEW j \in Requests \union FileRequests \union RevertRequests
    PROVE  /\ Valid(j) /\ ~Creating(j)
           /\ j.pc = "claim" => j.rev \in DOMAIN journal
<1>1. Fresh \in Text
  BY TextAssumption DEF SkillTypeOK, Fresh
<1>2. CASE j \in Requests
  <2>1. PICK task \in {"create", "update", "rename", "delete"}, n \in Names, m \in Names, x \in Text :
            j = Job(task, n, m, x)
    BY <1>1, <1>2 DEF Requests
  <2> QED BY <2>1, JobOK DEF First, Tasks
<1>3. CASE j \in FileRequests
  <2>1. PICK n \in Names : /\ Served(n)
                           /\ j = [Job("file", n, n, mem[n][1].text) EXCEPT
                                      !.pc = IF mem[n][1].dir THEN "register" ELSE @]
    BY <1>3 DEF FileRequests
  <2>2. mem[n][1] \in Entries
    <3>1. mem[n] \in Seq(Entries) /\ mem[n] # <<>>
      BY <2>1 DEF SkillTypeOK, Served
    <3> QED BY <3>1
  <2>3. mem[n][1].text \in Text
    BY <2>2 DEF Entries
  <2> DEFINE k == Job("file", n, n, mem[n][1].text)
  <2>4. Valid(k) /\ k.task = "file" /\ k.pc = "convert"
    BY <2>3, JobOK DEF First, Tasks
  <2>5. j = k \/ j = [k EXCEPT !.pc = "register"]
    BY <2>1, <2>4 DEF Valid, Jobs
  <2> HIDE DEF k
  <2> QED BY <2>4, <2>5 DEF Valid, Jobs, PcsOf, Creating, Pcs
<1>4. CASE j \in RevertRequests
  <2>1. PICK i \in Armed :
            j = [Job("revert", journal[i].name, journal[i].from, NoText) EXCEPT !.rev = i]
    BY <1>4 DEF RevertRequests
  <2>2. i \in DOMAIN journal /\ i \in Nat /\ journal[i] \in Revisions
    BY <2>1 DEF Armed, SkillTypeOK
  <2> DEFINE k == Job("revert", journal[i].name, journal[i].from, NoText)
  <2>3. Valid(k) /\ k.task = "revert" /\ k.pc = "claim"
    BY <2>2, JobOK DEF Revisions, First, Tasks
  <2> HIDE DEF k
  <2>4. j = [k EXCEPT !.rev = i]
    BY <2>1 DEF k
  <2> QED BY <2>2, <2>3, <2>4 DEF Valid, Jobs, PcsOf, Creating
<1> QED BY <1>2, <1>3, <1>4

(* The undo of a revision is a job.                                        *)
LEMMA InverseOK ==
    ASSUME NEW r \in Revisions, NEW g \in Pictures, NEW k, k = Undoing(r),
           NEW j, j = [k EXCEPT !.goal = g]
    PROVE  Valid(j) /\ ~Creating(j) /\ j.pc # "claim"
<1>1. /\ r.name \in Names /\ r.from \in Names /\ r.prior \in Text /\ NoText \in Text
  BY DEF Revisions
<1>2. \/ k = Idle
      \/ \E task \in {"create", "update", "rename", "delete"}, n \in Names, m \in Names, x \in Text :
            k = Job(task, n, m, x)
  BY <1>1 DEF Undoing
<1>3. Valid(k) /\ ~Creating(k) /\ k.pc # "claim"
  <2>1. CASE k = Idle
    BY <2>1, IdleValid DEF Idle
  <2>2. ASSUME NEW task \in {"create", "update", "rename", "delete"},
               NEW n \in Names, NEW m \in Names, NEW x \in Text, k = Job(task, n, m, x)
        PROVE  Valid(k) /\ ~Creating(k) /\ k.pc # "claim"
    BY <2>2, JobOK DEF First, Tasks
  <2> QED BY <1>2, <2>1, <2>2
<1> QED BY <1>3 DEF Valid, Jobs, Creating

(* A call goes on to its next step, or ends and unlocks.                   *)
LEMMA AdvanceOK ==
    ASSUME SkillTypeOK, NEW t \in Threads, Advance(t), thr[t].pc # "idle"
    PROVE  \E j : /\ thr' = [thr EXCEPT ![t] = j]
                  /\ Valid(j) /\ j.pc # "claim"
                  /\ \/ j = Idle /\ lock' = (IF lock = t THEN NoThread ELSE lock)
                     \/ /\ j = [thr[t] EXCEPT !.pc = Following(thr[t].task, thr[t].pc)]
                        /\ lock' = lock
<1> DEFINE next == Following(thr[t].task, thr[t].pc)
<1>1. /\ thr[t] \in Jobs /\ thr[t].pc \in PcsOf(thr[t].task)
      /\ thr[t].name \in Names /\ thr[t].from \in Names
  BY DEF SkillTypeOK
<1>2. next \in PcsOf(thr[t].task) \union {"idle"} /\ next \in Pcs \ {"claim", "lock"}
  BY <1>1, FollowingOK DEF Jobs
<1>3. CASE next = "idle"
  <2>1. thr' = [thr EXCEPT ![t] = Idle] /\ lock' = (IF lock = t THEN NoThread ELSE lock)
    BY <1>3 DEF Advance, Return, Unlocked
  <2> QED BY <2>1, IdleValid DEF Idle
<1>4. CASE next # "idle"
  <2> DEFINE j == [thr[t] EXCEPT !.pc = next]
  <2>1. thr' = [thr EXCEPT ![t] = j] /\ lock' = lock
    BY <1>4 DEF Advance
  <2>2. Valid(j) /\ j.pc # "claim"
    BY <1>1, <1>2, <1>4 DEF Valid, Jobs
  <2> QED BY <2>1, <2>2
<1> QED BY <1>3, <1>4

-----------------------------------------------------------------------------
(* What a step does to the calls: one thread holds another job; or none    *)
(* does.  A step keeps the invariant if that job is valid, and if a create *)
(* still holds the lock and has nothing but updates and renames in its way.*)
Moves(t, j) ==
    /\ thr' = [thr EXCEPT ![t] = j]
    /\ Valid(j)
    /\ j.pc = "claim" => j.rev \in DOMAIN journal'
    /\ DOMAIN journal \subseteq DOMAIN journal'
    /\ lock' \in {lock, t} \union (IF lock = t THEN {NoThread} ELSE {})
    /\ lock' # lock => lock \in {t, NoThread}
    /\ Creating(j) => lock' = t

LEMMA MovesOK ==
    ASSUME SkillInv, NEW t \in Threads, NEW j, Moves(t, j)
    PROVE  /\ thr' \in [Threads -> Jobs]
           /\ lock' \in Threads \union {NoThread}
           /\ \A u \in Threads :
                 /\ Busy(u)' => thr'[u].name \in Names /\ thr'[u].from \in Names
                 /\ At(u, "claim")' => thr'[u].rev \in DOMAIN journal'
                 /\ thr'[u].pc \in PcsOf(thr'[u].task)
           /\ CreatesHoldLock'
<1>1. \A u \in Threads : thr'[u] = IF u = t THEN j ELSE thr[u]
  BY DEF SkillInv, SkillTypeOK, Moves
<1>2. \A u \in Threads : Creating(thr[u]) /\ u # t => lock' = lock
  BY ThreadAssumption DEF SkillInv, CreatesHoldLock, Moves
<1>3. CreatesHoldLock'
  BY <1>1, <1>2 DEF CreatesHoldLock, SkillInv, Moves
<1> QED BY <1>1, <1>3 DEF SkillInv, SkillTypeOK, Moves, Valid

(* What a step of thread t does to the files: it leaves them, or takes     *)
(* them away, or it is the write of an update or a rename, or of a create, *)
(* which holds the lock.                                                   *)
FilesKept == UNCHANGED <<flat, by>>
Yields(t) ==
    /\ flat' \in [Names -> Text] /\ by' \in [Names -> Tasks]
    /\ \/ Creating(thr[t])
       \/ \A n \in Names : \/ flat'[n] = flat[n] /\ by'[n] = by[n]
                           \/ flat'[n] = NoText
                           \/ by'[n] \in {"update", "rename"}

(* Creates that were about to write find what they found, unless this step *)
(* is a write of another.                                                  *)
LEMMA ExcludesOK ==
    ASSUME SkillInv, NEW t \in Threads, NEW j, Moves(t, j), Yields(t),
           j.task = "create" /\ j.pc = "write" =>
               flat'[j.name] = NoText \/ by'[j.name] \in {"update", "rename"}
    PROVE  CreatesExclude'
<1>1. \A u \in Threads : thr'[u] = IF u = t THEN j ELSE thr[u]
  BY DEF SkillInv, SkillTypeOK, Moves
<1>2. ASSUME NEW u \in Threads, u # t, thr[u].task = "create", thr[u].pc = "write"
      PROVE  flat'[thr[u].name] = NoText \/ by'[thr[u].name] \in {"update", "rename"}
  <2>1. lock = u /\ thr[u].name \in Names
    BY <1>2 DEF Creating, SkillInv, SkillTypeOK, CreatesHoldLock
  <2>2. ~Creating(thr[t])
    BY <1>2, <2>1 DEF SkillInv, CreatesHoldLock
  <2>3. flat[thr[u].name] # NoText => by[thr[u].name] \in {"update", "rename"}
    BY <1>2 DEF SkillInv, CreatesExclude
  <2> QED BY <2>1, <2>2, <2>3 DEF Yields
<1> QED BY <1>1, <1>2 DEF CreatesExclude

LEMMA KeptYields == ASSUME SkillInv, FilesKept, NEW t \in Threads PROVE Yields(t)
BY DEF Yields, FilesKept, SkillInv, SkillTypeOK

-----------------------------------------------------------------------------
(* The steps.                                                              *)

LEMMA BeginStep == ASSUME SkillInv, NEW t \in Threads, Begin(t) PROVE SkillInv'
<1>1. PICK j \in Requests \union FileRequests \union RevertRequests : thr' = [thr EXCEPT ![t] = j]
  BY DEF Begin
<1>2. /\ UNCHANGED <<flat, sub, mem, journal, lock, faults, crashes, by, left, late>>
      /\ calls' = calls + 1
      /\ mixed' \subseteq Names
  <2>1. \A u \in Threads : Busy(u) => Touched(thr[u]) \subseteq Names
    BY DEF SkillInv, SkillTypeOK, Touched
  <2> QED BY <2>1 DEF Begin, disk, hist, SkillInv, SkillTypeOK
<1>3. Moves(t, j) /\ ~Creating(j)
  BY <1>1, <1>2, RequestOK DEF Moves, SkillInv
<1>4. CreatesExclude'
  BY <1>2, <1>3, ExcludesOK, KeptYields DEF FilesKept, Creating
<1> QED BY <1>2, <1>3, <1>4, MovesOK DEF SkillInv, SkillTypeOK

LEMMA LockStep == ASSUME SkillInv, NEW t \in Threads, Lock(t) PROVE SkillInv'
<1> DEFINE j == [thr[t] EXCEPT !.pc = "check"]
<1>1. /\ UNCHANGED <<flat, sub, mem, journal, calls, faults, crashes, by, left, mixed, late>>
      /\ thr' = [thr EXCEPT ![t] = j]
      /\ lock = NoThread /\ lock' = t
  BY DEF Lock, disk, count, hist, odd
<1>2. Valid(j) /\ j.pc = "check"
  BY DEF SkillInv, SkillTypeOK, Valid, Jobs, PcsOf, Pcs, Lock
<1>3. Moves(t, j)
  BY <1>1, <1>2 DEF Moves
<1>4. CreatesExclude'
  BY <1>1, <1>2, <1>3, ExcludesOK, KeptYields DEF FilesKept
<1> QED BY <1>1, <1>3, <1>4, MovesOK DEF SkillInv, SkillTypeOK

(* A step that goes on, or ends the call, with the files and the journal   *)
(* as they are.                                                            *)
LEMMA AdvanceMoves ==
    ASSUME SkillInv, NEW t \in Threads, Advance(t) \/ Return(t),
           thr[t].pc \notin {"idle", "lock"},
           DOMAIN journal \subseteq DOMAIN journal'
    PROVE  \E j : /\ Moves(t, j)
                  /\ j.task = "create" /\ j.pc = "write" => thr[t].pc = "recheck" /\ Advance(t)
                                                            /\ j.name = thr[t].name
<1>1. CASE Advance(t)
  <2>1. PICK j : /\ thr' = [thr EXCEPT ![t] = j]
                 /\ Valid(j) /\ j.pc # "claim"
                 /\ \/ j = Idle /\ lock' = (IF lock = t THEN NoThread ELSE lock)
                    \/ /\ j = [thr[t] EXCEPT !.pc = Following(thr[t].task, thr[t].pc)]
                       /\ lock' = lock
    BY <1>1, AdvanceOK DEF SkillInv
  <2>2. thr[t] \in Jobs /\ thr[t].pc \in PcsOf(thr[t].task)
    BY DEF SkillInv, SkillTypeOK
  <2>3. CASE j = Idle /\ lock' = (IF lock = t THEN NoThread ELSE lock)
    <3>1. Moves(t, Idle)
      BY <2>1, <2>3, IdleValid DEF Moves, Idle
    <3> QED BY <3>1 DEF Idle
  <2>4. CASE /\ j = [thr[t] EXCEPT !.pc = Following(thr[t].task, thr[t].pc)]
             /\ lock' = lock
    <3>1. j.task = thr[t].task /\ j.name = thr[t].name /\ j.pc = Following(thr[t].task, thr[t].pc)
      BY <2>2, <2>4 DEF Jobs
    <3>2. Creating(j) => Creating(thr[t])
      BY <3>1 DEF Creating
    <3>3. Moves(t, j)
      BY <2>1, <2>4, <3>2 DEF Moves, SkillInv, CreatesHoldLock
    <3>4. j.task = "create" /\ j.pc = "write" => thr[t].pc = "recheck"
      <4>1. thr[t].task \in Tasks
        BY <2>2 DEF Jobs
      <4>2. Following(thr[t].task, thr[t].pc) = "write" =>
                (thr[t].task = "create" <=> thr[t].pc = "recheck")
        BY <2>2, <4>1, FollowingOK
      <4> QED BY <3>1, <4>2
    <3> QED BY <1>1, <3>1, <3>3, <3>4
  <2> QED BY <2>1, <2>3, <2>4
<1>2. CASE Return(t)
  <2>1. Moves(t, Idle)
    BY <1>2, IdleValid DEF Moves, Return, Unlocked, Idle
  <2> QED BY <2>1, IdleValid DEF Idle
<1> QED BY <1>1, <1>2

(* What is left to show of a step that moves one call.                     *)
LEMMA StepOK ==
    ASSUME SkillInv, NEW t \in Threads, NEW j, Moves(t, j), Yields(t),
           j.task = "create" /\ j.pc = "write" =>
               flat'[j.name] = NoText \/ by'[j.name] \in {"update", "rename"},
           sub' \in [Names -> Text], mem' \in [Names -> Seq(Entries)], journal' \in Seq(Revisions),
           calls' \in Nat, faults' \in Nat, crashes' \in Nat,
           left' \subseteq Names, mixed' \subseteq Names, late' \subseteq Names
    PROVE  SkillInv'
<1>1. CreatesExclude'
  BY ExcludesOK
<1> QED BY <1>1, MovesOK DEF SkillInv, SkillTypeOK, Yields

LEMMA RefuseStep == ASSUME SkillInv, NEW t \in Threads, Refuse(t) PROVE SkillInv'
<1>1. UNCHANGED <<flat, sub, mem, journal, calls, faults, crashes, by, left, mixed, late>>
  BY DEF Refuse, disk, count, hist, odd
<1>2. Advance(t) \/ Return(t)
  BY DEF Refuse
<1>3. PICK j : /\ Moves(t, j)
               /\ j.task = "create" /\ j.pc = "write" => thr[t].pc = "recheck" /\ Advance(t)
                                                         /\ j.name = thr[t].name
  BY <1>1, <1>2, AdvanceMoves DEF Refuse
<1>4. ASSUME j.task = "create", j.pc = "write"
      PROVE  flat[j.name] = NoText
  <2>1. ~Exists(thr[t].name)
    <3>1. SUFFICES ASSUME Exists(thr[t].name) PROVE FALSE
      OBVIOUS
    <3>2. Return(t)
      BY <3>1 DEF Refuse
    <3>3. thr'[t] = Idle /\ thr'[t] = j
      BY <1>3, <3>2 DEF Return, Moves, SkillInv, SkillTypeOK
    <3> QED BY <3>3, <1>4 DEF Idle
  <2> QED BY <1>3, <1>4, <2>1 DEF Exists
<1> QED BY <1>1, <1>3, <1>4, StepOK, KeptYields DEF FilesKept, SkillInv, SkillTypeOK

LEMMA PriorStep == ASSUME SkillInv, NEW t \in Threads, Prior(t) PROVE SkillInv'
<1> DEFINE j == [thr[t] EXCEPT !.prior = flat[Source(t)], !.pc = "journal"]
<1>1. /\ UNCHANGED <<flat, sub, mem, journal, lock, calls, faults, crashes, by, left, mixed, late>>
      /\ thr' = [thr EXCEPT ![t] = j]
  BY DEF Prior, disk, count, hist, odd
<1>2. /\ thr[t] \in Jobs /\ thr[t].pc = "prior" /\ thr[t].pc \in PcsOf(thr[t].task)
      /\ thr[t].name \in Names /\ thr[t].from \in Names
  BY DEF SkillInv, SkillTypeOK, Prior
<1>3. flat[Source(t)] \in Text
  BY <1>2 DEF Source, SkillInv, SkillTypeOK
<1>4. thr[t].task \in {"update", "rename", "delete"}
  BY <1>2 DEF PcsOf, Jobs
<1>5. Valid(j) /\ j.task # "create" /\ j.pc = "journal"
  BY <1>2, <1>3, <1>4 DEF Valid, Jobs, PcsOf, Pcs
<1>6. Moves(t, j)
  BY <1>1, <1>5 DEF Moves, Creating
<1> QED BY <1>1, <1>5, <1>6, StepOK, KeptYields DEF FilesKept, SkillInv, SkillTypeOK

LEMMA JournalStep == ASSUME SkillInv, NEW t \in Threads, Journal(t) PROVE SkillInv'
<1>1. /\ UNCHANGED <<flat, sub, mem, calls, crashes, by, left, mixed, late>>
      /\ faults' \in Nat
  BY DEF Journal, disk, hist, odd, Fail, SkillInv, SkillTypeOK
<1>2. Revision(t) \in Revisions
  <2>1. /\ thr[t] \in Jobs /\ thr[t].name \in Names /\ thr[t].from \in Names
    BY DEF SkillInv, SkillTypeOK, Journal
  <2>2. {<<n, flat[n]>> : n \in Touched(thr[t])} \in Pictures
    BY <2>1 DEF Touched, Pictures, SkillInv, SkillTypeOK
  <2> QED BY <2>1, <2>2 DEF Revision, Revisions, Jobs
<1>3. journal' \in Seq(Revisions) /\ DOMAIN journal \subseteq DOMAIN journal'
  <2>1. journal \in Seq(Revisions)
    BY DEF SkillInv, SkillTypeOK
  <2>2. CASE journal' = Append(journal, Revision(t))
    BY <1>2, <2>1, <2>2
  <2>3. CASE UNCHANGED journal
    BY <2>1, <2>3
  <2> QED BY <2>2, <2>3 DEF Journal
<1>4. Advance(t) \/ Return(t)
  BY DEF Journal
<1>5. PICK j : /\ Moves(t, j)
               /\ j.task = "create" /\ j.pc = "write" => thr[t].pc = "recheck" /\ Advance(t)
                                                         /\ j.name = thr[t].name
  BY <1>3, <1>4, AdvanceMoves DEF Journal
<1> QED BY <1>1, <1>3, <1>5, StepOK, KeptYields DEF FilesKept, SkillInv, SkillTypeOK, Journal

LEMMA WriteStep == ASSUME SkillInv, NEW t \in Threads, Write(t) PROVE SkillInv'
<1> DEFINE n == thr[t].name
<1>1. /\ UNCHANGED <<sub, mem, journal, calls, crashes, mixed, late>>
      /\ faults' \in Nat /\ left' \subseteq Names
  BY DEF Write, hist, odd, Fail, SkillInv, SkillTypeOK
<1>2. /\ thr[t] \in Jobs /\ n \in Names /\ thr[t].pc = "write"
      /\ thr[t].task \in {"create", "update", "rename"}
  BY DEF SkillInv, SkillTypeOK, Write, PcsOf, Jobs
<1>3. Advance(t) \/ Return(t)
  BY DEF Write
<1>4. PICK j : /\ Moves(t, j)
               /\ j.task = "create" /\ j.pc = "write" => thr[t].pc = "recheck" /\ Advance(t)
                                                         /\ j.name = thr[t].name
  BY <1>1, <1>3, AdvanceMoves DEF Write
<1>5. Yields(t)
  <2>1. CASE /\ flat' = [flat EXCEPT ![n] = thr[t].text]
             /\ by' = [by EXCEPT ![n] = thr[t].task]
    <3>1. flat' \in [Names -> Text] /\ by' \in [Names -> Tasks]
      BY <1>2, <2>1 DEF SkillInv, SkillTypeOK, Jobs
    <3>2. CASE thr[t].task = "create"
      BY <1>2, <3>1, <3>2 DEF Yields, Creating
    <3>3. CASE thr[t].task # "create"
      BY <1>2, <2>1, <3>1, <3>3 DEF Yields, SkillInv, SkillTypeOK
    <3> QED BY <3>2, <3>3
  <2>2. CASE FilesKept
    BY <2>2, KeptYields
  <2> QED BY <2>1, <2>2 DEF Write, hist, FilesKept
<1> QED BY <1>1, <1>2, <1>4, <1>5, StepOK DEF SkillInv, SkillTypeOK

LEMMA UnlinkStep == ASSUME SkillInv, NEW t \in Threads, Unlink(t) PROVE SkillInv'
<1> DEFINE n == Source(t)
<1>1. /\ thr[t] \in Jobs /\ n \in Names /\ thr[t].pc = "unlink" /\ thr[t].pc \in PcsOf(thr[t].task)
      /\ thr[t].name \in Names /\ thr[t].from \in Names
  BY DEF SkillInv, SkillTypeOK, Unlink, Source
<1>2. /\ UNCHANGED <<sub, mem, journal, calls, crashes, by, mixed, late>>
      /\ faults' \in Nat /\ left' \subseteq Names
  BY <1>1 DEF Unlink, odd, Fail, SkillInv, SkillTypeOK
<1>3. Yields(t)
  <2>1. CASE flat' = [flat EXCEPT ![n] = NoText]
    <3>1. flat' \in [Names -> Text] /\ by' \in [Names -> Tasks]
      BY <1>1, <1>2, <2>1 DEF SkillInv, SkillTypeOK
    <3>2. \A m \in Names : flat'[m] = flat[m] \/ flat'[m] = NoText
      BY <1>1, <2>1 DEF SkillInv, SkillTypeOK
    <3> QED BY <1>2, <3>1, <3>2 DEF Yields
  <2>2. CASE UNCHANGED flat
    BY <1>2, <2>2, KeptYields DEF FilesKept
  <2> QED BY <2>1, <2>2 DEF Unlink
<1>4. CASE Advance(t) \/ Return(t)
  <2>1. PICK j : /\ Moves(t, j)
                 /\ j.task = "create" /\ j.pc = "write" => thr[t].pc = "recheck" /\ Advance(t)
                                                           /\ j.name = thr[t].name
    BY <1>1, <1>2, <1>4, AdvanceMoves
  <2> QED BY <1>1, <1>2, <1>3, <2>1, StepOK DEF SkillInv, SkillTypeOK
<1>5. CASE /\ thr' = [thr EXCEPT ![t].pc = "forget", ![t].goal = {}]
           /\ thr[t].task = "rename" /\ UNCHANGED lock
  <2> DEFINE j == [thr[t] EXCEPT !.pc = "forget", !.goal = {}]
  <2>1. Valid(j) /\ j.task = "rename" /\ j.pc = "forget"
    BY <1>1, <1>5 DEF Valid, Jobs, PcsOf, Pcs, Pictures
  <2>2. Moves(t, j)
    BY <1>2, <1>5, <2>1 DEF Moves, Creating, SkillInv, SkillTypeOK
  <2> QED BY <1>2, <1>3, <2>1, <2>2, StepOK DEF SkillInv, SkillTypeOK
<1> QED BY <1>4, <1>5 DEF Unlink

(* The steps that change the engine's list.                                *)
LEMMA MemoryStep ==
    ASSUME SkillInv, NEW t \in Threads, Advance(t) \/ Return(t),
           thr[t].pc \notin {"idle", "lock", "recheck"},
           UNCHANGED <<flat, sub, journal, calls, crashes, by, left, mixed, late>>,
           faults' \in Nat, mem' \in [Names -> Seq(Entries)]
    PROVE  SkillInv'
<1>1. PICK j : /\ Moves(t, j)
               /\ j.task = "create" /\ j.pc = "write" => thr[t].pc = "recheck" /\ Advance(t)
                                                         /\ j.name = thr[t].name
  BY AdvanceMoves
<1> QED BY <1>1, StepOK, KeptYields DEF FilesKept, SkillInv, SkillTypeOK

LEMMA ForgetStep == ASSUME SkillInv, NEW t \in Threads, Forget(t) PROVE SkillInv'
<1>1. Source(t) \in Names
  BY DEF Source, Forget, SkillInv, SkillTypeOK
<1>2. mem' \in [Names -> Seq(Entries)]
  BY <1>1 DEF Forget, SkillInv, SkillTypeOK
<1> QED BY <1>2, MemoryStep DEF Forget, disk, count, hist, odd, SkillInv, SkillTypeOK

LEMMA AppendStep == ASSUME SkillInv, NEW t \in Threads, AppendSkill(t) PROVE SkillInv'
<1>1. thr[t] \in Jobs
  BY DEF SkillInv, SkillTypeOK
<1>2. <<Entry(thr[t].text, FALSE)>> \in Seq(Entries)
  BY <1>1 DEF Entry, Entries, Jobs
<1>3. mem' \in [Names -> Seq(Entries)]
  BY <1>2 DEF AppendSkill, SkillInv, SkillTypeOK
<1> QED BY <1>3, MemoryStep DEF AppendSkill, disk, count, hist, odd, SkillInv, SkillTypeOK

LEMMA UpdateSkillOK ==
    ASSUME SkillInv, NEW t \in Threads, NEW dir \in BOOLEAN, UpdateSkill(t, dir)
    PROVE  mem' \in [Names -> Seq(Entries)]
<1>1. <<Entry(thr[t].text, dir)>> \in Seq(Entries)
  BY DEF Entry, Entries, Jobs, SkillInv, SkillTypeOK
<1>2. \A n \in Names : mem[n] # <<>> => <<Entry(thr[t].text, dir)>> \o Tail(mem[n]) \in Seq(Entries)
  BY <1>1 DEF SkillInv, SkillTypeOK
<1> QED BY <1>2 DEF UpdateSkill, SkillInv, SkillTypeOK

LEMMA ReplaceStep == ASSUME SkillInv, NEW t \in Threads, Replace(t) PROVE SkillInv'
BY UpdateSkillOK, MemoryStep DEF Replace, disk, count, hist, odd, SkillInv, SkillTypeOK

LEMMA RegisterStep == ASSUME SkillInv, NEW t \in Threads, Register(t) PROVE SkillInv'
<1>1. mem' \in [Names -> Seq(Entries)]
  <2>1. CASE UpdateSkill(t, TRUE)
    BY <2>1, UpdateSkillOK
  <2>2. CASE UNCHANGED mem
    BY <2>2 DEF SkillInv, SkillTypeOK
  <2> QED BY <2>1, <2>2 DEF Register
<1>2. UNCHANGED faults \/ Fail
  BY Zenon DEF Register
<1>3. faults' \in Nat
  BY <1>2 DEF Fail, SkillInv, SkillTypeOK
<1> QED BY <1>1, <1>3, MemoryStep DEF Register, disk, hist, odd

(* The conversion to a directory takes the flat file away.                 *)
LEMMA ConvertStep == ASSUME SkillInv, NEW t \in Threads, Convert(t) PROVE SkillInv'
<1> DEFINE n == thr[t].name
<1>1. n \in Names /\ thr[t].pc = "convert"
  BY DEF Convert, SkillInv, SkillTypeOK
<1>2. /\ UNCHANGED <<mem, journal, calls, crashes, by, left, mixed, late>>
      /\ faults' \in Nat
  BY DEF Convert, hist, odd, Fail, SkillInv, SkillTypeOK
<1>3. Yields(t) /\ sub' \in [Names -> Text]
  <2>1. CASE /\ sub' = [sub EXCEPT ![n] = IF flat[n] # NoText THEN flat[n] ELSE @]
             /\ flat' = [flat EXCEPT ![n] = NoText]
    <3>1. flat' \in [Names -> Text] /\ by' \in [Names -> Tasks] /\ sub' \in [Names -> Text]
      BY <1>1, <1>2, <2>1 DEF SkillInv, SkillTypeOK
    <3>2. \A m \in Names : flat'[m] = flat[m] \/ flat'[m] = NoText
      BY <1>1, <2>1 DEF SkillInv, SkillTypeOK
    <3> QED BY <1>2, <3>1, <3>2 DEF Yields
  <2>2. CASE UNCHANGED disk
    BY <1>2, <2>2, KeptYields DEF disk, FilesKept, SkillInv, SkillTypeOK
  <2> QED BY <2>1, <2>2 DEF Convert
<1>4. Advance(t) \/ Return(t)
  BY DEF Convert
<1>5. PICK j : /\ Moves(t, j)
               /\ j.task = "create" /\ j.pc = "write" => thr[t].pc = "recheck" /\ Advance(t)
                                                         /\ j.name = thr[t].name
  BY <1>1, <1>2, <1>4, AdvanceMoves
<1> QED BY <1>1, <1>2, <1>3, <1>5, StepOK DEF SkillInv, SkillTypeOK

(* A revision that is claimed stays a revision.                            *)
LEMMA DisarmedOK ==
    ASSUME NEW r \in Revisions
    PROVE  /\ [r EXCEPT !.armed = FALSE, !.undone = @ + 1] \in Revisions
           /\ [r EXCEPT !.armed = FALSE, !.undone = @ + 1].undone = r.undone + 1
           /\ [r EXCEPT !.armed = FALSE, !.undone = @ + 1].armed = FALSE
<1>1. r.undone + 1 \in Nat
  BY DEF Revisions
<1>2. [r EXCEPT !.armed = FALSE] \in Revisions
  BY DEF Revisions
<1>3. ASSUME NEW q \in Revisions, NEW k \in Nat
      PROVE  /\ [q EXCEPT !.undone = k] \in Revisions
             /\ [q EXCEPT !.undone = k].undone = k
             /\ [q EXCEPT !.undone = k].armed = q.armed
  BY DEF Revisions
<1>4. [r EXCEPT !.armed = FALSE].armed = FALSE
  BY DEF Revisions
<1> QED BY <1>1, <1>2, <1>3, <1>4

(* The claim of a revision, which makes its thread the call that undoes it.*)
LEMMA ClaimStep == ASSUME SkillInv, NEW t \in Threads, Claim(t) PROVE SkillInv'
<1> DEFINE i == thr[t].rev
           r == journal[i]
<1>1. /\ thr[t].pc = "claim" /\ i \in DOMAIN journal
      /\ journal \in Seq(Revisions) /\ r \in Revisions
  BY DEF Claim, SkillInv, SkillTypeOK
<1>2. /\ UNCHANGED <<flat, sub, mem, calls, crashes, by, left, mixed>>
      /\ faults' \in Nat
  BY DEF Claim, disk, hist, Fail, SkillInv, SkillTypeOK
<1>3. CASE /\ journal' = [journal EXCEPT ![i].armed = FALSE, ![i].undone = @ + 1]
           /\ thr' = [thr EXCEPT ![t] = [Undoing(r) EXCEPT !.goal = Goal(i)]]
           /\ late' = (IF LastOf(i) THEN late ELSE late \union Touched(r))
           /\ UNCHANGED lock
  <2> DEFINE j == [Undoing(r) EXCEPT !.goal = Goal(i)]
  <2>1. Goal(i) \in Pictures
    BY <1>1 DEF Goal, Revisions, Pictures
  <2>2. Valid(j) /\ ~Creating(j) /\ j.pc # "claim"
    BY <1>1, <2>1, InverseOK
  <2>3. journal' \in Seq(Revisions) /\ DOMAIN journal' = DOMAIN journal
    <3> DEFINE d == [r EXCEPT !.armed = FALSE, !.undone = @ + 1]
    <3>1. d \in Revisions
      BY <1>1, DisarmedOK
    <3>2. journal' = [journal EXCEPT ![i] = d]
      BY <1>1, <1>3, Zenon
    <3> HIDE DEF d
    <3> QED BY <1>1, <3>1, <3>2
  <2>4. late' \subseteq Names
    BY <1>1, <1>3 DEF Touched, Revisions, SkillInv, SkillTypeOK
  <2>5. Moves(t, j)
    <3>1. thr' = [thr EXCEPT ![t] = j]
      BY <1>3
    <3> HIDE DEF j
    <3> QED BY <1>3, <2>2, <2>3, <3>1 DEF Moves
  <2>6. ~(j.task = "create" /\ j.pc = "write")
    BY <2>2 DEF Creating
  <2> HIDE DEF j
  <2> QED BY <1>2, <2>3, <2>4, <2>5, <2>6, StepOK, KeptYields DEF FilesKept, SkillInv, SkillTypeOK
<1>4. CASE Return(t) /\ UNCHANGED <<journal, late>>
  BY <1>1, <1>2, <1>4, MemoryStep DEF SkillInv, SkillTypeOK
<1> QED BY <1>3, <1>4 DEF Claim

(* What the loader makes of any files is a list of entries.                *)
LEMMA LoadedOK ==
    ASSUME flat \in [Names -> Text], sub \in [Names -> Text], NEW n \in Names
    PROVE  Loaded(n) \in Seq(Entries)
<1>1. Entry(sub[n], TRUE) \in Entries /\ Entry(flat[n], FALSE) \in Entries
  BY DEF Entry, Entries
<1> DEFINE A == IF sub[n] # NoText THEN <<Entry(sub[n], TRUE)>> ELSE <<>>
           B == IF flat[n] # NoText THEN <<Entry(flat[n], FALSE)>> ELSE <<>>
<1>2. A \in Seq(Entries) /\ B \in Seq(Entries)
  <2>1. ASSUME NEW e \in Entries PROVE <<e>> \in Seq(Entries)
    BY <2>1
  <2>2. <<>> \in Seq(Entries)
    OBVIOUS
  <2> QED BY <1>1, <2>1, <2>2
<1> HIDE DEF A, B
<1>3. A \o B \in Seq(Entries)
  BY <1>2
<1> QED BY <1>3 DEF Loaded, A, B

(* A restart leaves no call, and loads what is there.                      *)
LEMMA RestartStep == ASSUME SkillInv, Restart PROVE SkillInv'
<1>1. /\ UNCHANGED <<flat, sub, journal, calls, faults, by, mixed, late>>
      /\ crashes' \in Nat /\ left' = {} /\ lock' = NoThread
      /\ thr' = [t \in Threads |-> Idle]
      /\ mem' = [n \in Names |-> Loaded(n)]
  BY DEF Restart, disk, odd, SkillInv, SkillTypeOK
<1>2. mem' \in [Names -> Seq(Entries)]
  BY <1>1, LoadedOK DEF SkillInv, SkillTypeOK
<1>3. \A t \in Threads : thr'[t] = Idle
  BY <1>1
<1>4. SkillTypeOK'
  BY <1>1, <1>2, <1>3, IdleValid DEF SkillInv, SkillTypeOK, Valid, Idle
<1>5. CreatesHoldLock' /\ CreatesExclude'
  BY <1>3, IdleValid DEF CreatesHoldLock, CreatesExclude, Idle
<1> QED BY <1>4, <1>5 DEF SkillInv

LEMMA InitInv == Init => SkillInv
<1> SUFFICES ASSUME Init PROVE SkillInv
  OBVIOUS
<1>1. flat \in [Names -> Text] /\ sub \in [Names -> Text]
  BY StartsAssumption DEF Init
<1>2. mem \in [Names -> Seq(Entries)]
  BY <1>1, LoadedOK DEF Init
<1>3. \A t \in Threads : thr[t] = Idle
  BY DEF Init
<1>4. journal \in Seq(Revisions)
  BY DEF Init
<1>5. SkillTypeOK
  BY <1>1, <1>2, <1>3, <1>4, IdleValid DEF Init, SkillTypeOK, Valid, Idle, Tasks
<1>6. CreatesHoldLock /\ CreatesExclude
  BY <1>3, IdleValid DEF CreatesHoldLock, CreatesExclude, Idle
<1> QED BY <1>5, <1>6 DEF SkillInv

LEMMA NextInv == SkillInv /\ [Next]_vars => SkillInv'
<1> SUFFICES ASSUME SkillInv, [Next]_vars PROVE SkillInv'
  OBVIOUS
<1>1. CASE Restart
  BY <1>1, RestartStep
<1>2. ASSUME NEW t \in Threads, Begin(t) PROVE SkillInv'
  BY <1>2, BeginStep
<1>3. ASSUME NEW t \in Threads, Work(t) PROVE SkillInv'
  BY <1>3, LockStep, RefuseStep, PriorStep, JournalStep, WriteStep, UnlinkStep, ForgetStep,
     AppendStep, ReplaceStep, ConvertStep, RegisterStep, ClaimStep DEF Work
<1>4. CASE UNCHANGED vars
  BY <1>4 DEF vars, SkillInv, SkillTypeOK, CreatesHoldLock, Creating, CreatesExclude
<1> QED BY <1>1, <1>2, <1>3, <1>4 DEF Next

-----------------------------------------------------------------------------

(* What a create checked under LockSkillCreate, that no file has its name, *)
(* still holds when it writes, against every other create and against the  *)
(* undo of a delete: only an update or a rename can have put a file there. *)
THEOREM CreatesAreExclusive == Spec => []CreatesExclude
<1>1. SkillInv => CreatesExclude
  BY DEF SkillInv
<1> QED BY <1>1, InitInv, NextInv, PTL DEF Spec

(* MarkSkillRevisionReverted lets one caller through: whatever fails or    *)
(* crashes, and however many calls ask for it, no change is undone twice.  *)
THEOREM NoChangeUndoneTwice == Spec => []UndoneOnce
<1>1. Init => UndoneOnce
  BY DEF Init, UndoneOnce
<1>2. SkillInv /\ UndoneOnce /\ [Next]_vars => UndoneOnce'
  <2> SUFFICES ASSUME SkillInv, UndoneOnce, [Next]_vars PROVE UndoneOnce'
    OBVIOUS
  <2>1. CASE UNCHANGED journal
    BY <2>1 DEF UndoneOnce
  <2>2. ASSUME NEW t \in Threads, journal' = Append(journal, Revision(t)) PROVE UndoneOnce'
    <3>1. Revision(t).undone = 0
      BY DEF Revision
    <3>2. \A i \in DOMAIN journal' : journal'[i] = IF i \in DOMAIN journal THEN journal[i]
                                                                           ELSE Revision(t)
      BY <2>2 DEF SkillInv, SkillTypeOK
    <3> QED BY <3>1, <3>2 DEF UndoneOnce
  <2>3. ASSUME NEW i \in DOMAIN journal, journal[i].armed,
               journal' = [journal EXCEPT ![i].armed = FALSE, ![i].undone = @ + 1]
        PROVE  UndoneOnce'
    <3>1. journal[i] \in Revisions /\ journal[i].undone = 0
      BY <2>3 DEF UndoneOnce, SkillInv, SkillTypeOK
    <3>2. journal'[i].undone = 1 /\ ~journal'[i].armed
      <4> DEFINE d == [journal[i] EXCEPT !.armed = FALSE, !.undone = @ + 1]
      <4>1. d.undone = 1 /\ d.armed = FALSE
        <5>1. d.undone = journal[i].undone + 1 /\ d.armed = FALSE
          BY <3>1, DisarmedOK
        <5> QED BY <3>1, <5>1
      <4>2. journal' = [journal EXCEPT ![i] = d]
        BY <2>3, Zenon
      <4> HIDE DEF d
      <4>3. journal'[i] = d
        BY <2>3, <4>2 DEF SkillInv, SkillTypeOK
      <4> QED BY <4>1, <4>3
    <3>3. DOMAIN journal' = DOMAIN journal /\ \A k \in DOMAIN journal \ {i} : journal'[k] = journal[k]
      BY <2>3 DEF SkillInv, SkillTypeOK
    <3> QED BY <3>2, <3>3 DEF UndoneOnce
  <2>4. CASE \E t \in Threads : Journal(t)
    BY <2>1, <2>2, <2>4 DEF Journal
  <2>5. CASE \E t \in Threads : Claim(t)
    BY <2>1, <2>3, <2>5 DEF Claim, Claimable, SkillInv, SkillTypeOK
  <2>6. CASE Restart
    BY <2>1, <2>6 DEF Restart
  <2>7. ASSUME NEW t \in Threads, Begin(t) \/ Work(t), ~Journal(t), ~Claim(t)
        PROVE  UNCHANGED journal
    BY <2>7 DEF Begin, Work, Lock, Refuse, Prior, Write, Unlink, Forget, AppendSkill, Replace,
               Convert, Register
  <2> QED BY <2>1, <2>4, <2>5, <2>6, <2>7 DEF Next, vars
<1> QED BY <1>1, <1>2, InitInv, NextInv, PTL DEF Spec

-----------------------------------------------------------------------------
(* Files, memory and journal together.                                     *)

(* What the journal keeps, and whether a file's text is kept there.        *)
Kept    == {journal[i].prior : i \in DOMAIN journal}
Safe(n) == flat[n] \in Kept \union {NoText}

(* A skill no call is changing: the engine serves what a restart would     *)
(* load, and a file that is not served holds what the journal has.         *)
Rest(n) ==
    /\ sub[n] = NoText => IF n \in left THEN mem[n] = <<>> ELSE mem[n] = Loaded(n)
    /\ mem[n] = <<>> => Safe(n)

(* A call that has written the file n, and one that is about to take n     *)
(* from the engine's list.                                                 *)
Written(t, n) ==
    /\ n = thr[t].name
    /\ \/ thr[t].task = "create" /\ thr[t].pc = "append"
       \/ thr[t].task = "update" /\ thr[t].pc = "replace"
       \/ thr[t].task = "rename" /\ thr[t].pc \in {"unlink", "forget", "append"}
Forgetting(t, n) == n = Source(t) /\ thr[t].pc = "forget"
Changing(t, n)   == Written(t, n) \/ Forgetting(t, n)

(* What a call is about, whatever other calls do.                          *)
ShapeOK(t) ==
    /\ thr[t].task # "revert" => (thr[t].task = "rename" <=> thr[t].from # thr[t].name)
    /\ thr[t].task \in {"create", "update", "rename"} => thr[t].text # NoText
    /\ thr[t].task \in {"file", "revert"} => thr[t].goal = {}
    /\ thr[t].task = "revert" => /\ thr[t].name = journal[thr[t].rev].name
                                 /\ thr[t].from = journal[thr[t].rev].from

(* A call past its journal step has the last revision of its skills.       *)
Past == {"recheck", "write", "unlink", "forget", "append", "replace"}
Owns(t, k) ==
    /\ journal[k].op = thr[t].task /\ journal[k].prior = thr[t].prior
    /\ journal[k].name = thr[t].name /\ journal[k].from = thr[t].from
    /\ \A m \in DOMAIN journal : \A n \in Touched(journal[m]) \intersect Touched(thr[t]) :
           n \notin mixed => m <= k
OwnOK(t) == thr[t].pc \in Past => \E k \in DOMAIN journal : Owns(t, k)

(* What a call knows of the file it writes.                                *)
NameOK(t) ==
    LET n == thr[t].name IN
    /\ thr[t].task = "create" /\ thr[t].pc \in {"journal", "recheck", "write"} => flat[n] = NoText
    /\ Written(t, n) => flat[n] = thr[t].text /\ n \notin left
    /\ thr[t].task = "update" => /\ sub[n] = NoText => mem[n] # <<>>
                                 /\ mem[n] # <<>> \/ thr[t].text \in Kept
    /\ thr[t].task = "rename" /\ thr[t].pc \in {"prior", "journal", "write"} => Safe(n)
    /\ thr[t].pc = "convert" /\ sub[n] = NoText => flat[n] # NoText
    /\ thr[t].pc = "register" => sub[n] # NoText

(* And of the one it takes away: what it read is still there, until it is  *)
(* taken away.                                                             *)
SourceOK(t) ==
    LET n == Source(t) IN
    /\ thr[t].task \in {"update", "rename", "delete"} /\ thr[t].pc \in {"journal", "write", "unlink"} =>
           thr[t].prior = flat[n]
    /\ thr[t].pc = "forget" =>
           /\ Safe(n)
           /\ \/ n \notin left /\ flat[n] = NoText
              \/ n \in left /\ thr[t].task = "rename" /\ thr[t].goal = {}
    /\ thr[t].task = "rename" /\ thr[t].pc = "append" /\ thr[t].goal # {} =>
           flat[n] = NoText /\ n \notin left

(* An undo brings back what it writes, and takes away what it removes.     *)
GoalNames(t) == {p[1] : p \in thr[t].goal}
GoalOK(t) ==
    /\ thr[t].task \in {"create", "update"} => thr[t].goal \subseteq {<<thr[t].name, thr[t].text>>}
    /\ thr[t].task = "delete" => thr[t].goal \subseteq {<<thr[t].name, NoText>>}
    /\ thr[t].task = "rename" =>
           thr[t].goal \subseteq {<<thr[t].name, thr[t].text>>, <<thr[t].from, NoText>>}
    /\ thr[t].task = "create" /\ thr[t].goal # {} /\ thr[t].pc \in {"lock", "check"}
           /\ sub[thr[t].name] = NoText => flat[thr[t].name] \in {NoText, thr[t].text}

CallOK(t) ==
    /\ ShapeOK(t) /\ OwnOK(t)
    /\ thr[t].name \in Orderly => NameOK(t)
    /\ Source(t) \in Orderly => SourceOK(t)
    /\ GoalNames(t) \subseteq Orderly => GoalOK(t)

(* What a revision is about.  was holds the files it found.                *)
RevShape(i) ==
    LET r == journal[i] IN
    /\ r.op \in {"create", "update", "rename", "delete"}
    /\ r.op = "rename" <=> r.from # r.name
    /\ \A p \in r.was : \E n \in Touched(r), x \in Text : p = <<n, x>>
    /\ \A p, q \in r.was : p[1] = q[1] => p[2] = q[2]
    /\ r.op = "create" /\ r.name \in Orderly => r.was \subseteq {<<r.name, NoText>>}
    /\ r.op \in {"update", "delete"} /\ r.name \in Orderly => r.was \subseteq {<<r.name, r.prior>>}
    /\ r.op = "rename" /\ r.from \in Orderly => \A p \in r.was : p[1] = r.from => p[2] = r.prior

(* And what is true of its files as long as it is the last.                *)
LastOK(i) ==
    LET r == journal[i] IN
    /\ r.op = "rename" /\ r.from \in Orderly => Safe(r.from)
    /\ r.op = "update" /\ r.prior # NoText /\ r.name \in Orderly =>
           sub[r.name] # NoText \/ (flat[r.name] # NoText /\ mem[r.name] # <<>>)
    /\ r.op = "delete" /\ r.name \in Orderly /\ sub[r.name] = NoText =>
           flat[r.name] \in {NoText, r.prior}

RevOK(i) == RevShape(i) /\ (LastOf(i) => LastOK(i))

(* Two calls at a time on a skill make it mixed; a skill without a         *)
(* directory is served once at most.                                       *)
Alone == \A t, u \in Threads : Busy(t) /\ Busy(u) /\ t # u =>
             Touched(thr[t]) \intersect Touched(thr[u]) \subseteq mixed
Short == \A n \in Names : sub[n] = NoText => Len(mem[n]) <= 1

RestOK == \A n \in Orderly : (\A t \in Threads : ~Changing(t, n)) => Rest(n)

KeepInv ==
    /\ SkillInv /\ Alone /\ Short /\ RestOK
    /\ \A t \in Threads : Busy(t) => CallOK(t)
    /\ \A i \in DOMAIN journal : RevOK(i)
-----------------------------------------------------------------------------
(* What a step leaves alone.                                               *)

(* No revision changes but in its arming, and what was out of order stays. *)
Grows ==
    /\ DOMAIN journal \subseteq DOMAIN journal'
    /\ \A i \in DOMAIN journal :
          /\ journal'[i].op = journal[i].op /\ journal'[i].prior = journal[i].prior
          /\ journal'[i].name = journal[i].name /\ journal'[i].from = journal[i].from
          /\ journal'[i].was = journal[i].was
    /\ mixed \subseteq mixed' /\ late \subseteq late'

Same(n) ==
    /\ flat'[n] = flat[n] /\ sub'[n] = sub[n] /\ mem'[n] = mem[n]
    /\ n \in left' <=> n \in left

LEMMA GrowsKeeps ==
    ASSUME Grows
    PROVE  Kept \subseteq Kept' /\ Orderly' \subseteq Orderly
BY DEF Grows, Kept, Orderly

LEMMA SafeStays == ASSUME Grows, NEW n, Safe(n), flat'[n] = flat[n] PROVE Safe(n)'
BY GrowsKeeps DEF Safe

LEMMA RestStays == ASSUME Grows, NEW n, Rest(n), Same(n) PROVE Rest(n)'
<1>1. Loaded(n)' = Loaded(n)
  BY DEF Loaded, Same
<1>2. mem'[n] = <<>> => Safe(n)'
  BY SafeStays DEF Rest, Same
<1> QED BY <1>1, <1>2 DEF Rest, Same

LEMMA TouchedSame ==
    ASSUME Grows, NEW i \in DOMAIN journal PROVE Touched(journal'[i]) = Touched(journal[i])
BY DEF Grows, Touched

LEMMA LastStays == ASSUME Grows, NEW i \in DOMAIN journal, LastOf(i)' PROVE LastOf(i)
<1> SUFFICES ASSUME NEW m \in DOMAIN journal, Touched(journal[m]) \intersect Touched(journal[i]) # {}
             PROVE  m <= i
  BY DEF LastOf
<1>1. m \in DOMAIN journal' BY DEF Grows
<1>2. Touched(journal'[m]) \intersect Touched(journal'[i]) # {} BY TouchedSame
<1> QED BY <1>1, <1>2 DEF LastOf

(* A revision keeps what it is about; what is true of its files as the     *)
(* last is left to show.                                                   *)
LEMMA RevStays ==
    ASSUME KeepInv, Grows, NEW i \in DOMAIN journal,
           LastOf(i) /\ LastOK(i) /\ i \in DOMAIN journal' => LastOK(i)'
    PROVE  RevOK(i)'
<1>1. RevShape(i) /\ (LastOf(i) => LastOK(i)) BY DEF KeepInv, RevOK
<1>2. RevShape(i)'
  <2>1. Touched(journal'[i]) = Touched(journal[i]) BY TouchedSame
  <2>2. Orderly' \subseteq Orderly BY GrowsKeeps
  <2> QED BY <1>1, <2>1, <2>2 DEF RevShape, Grows
<1>3. i \in DOMAIN journal' BY DEF Grows
<1>4. LastOf(i)' => LastOf(i) BY LastStays
<1> QED BY <1>1, <1>2, <1>3, <1>4 DEF RevOK

LEMMA LastSame ==
    ASSUME Grows, NEW i \in DOMAIN journal, LastOK(i),
           \A n \in Touched(journal[i]) : n \in Orderly' => Same(n)
    PROVE  LastOK(i)'
<1>1. Orderly' \subseteq Orderly BY GrowsKeeps
<1>2. journal[i].name \in Touched(journal[i]) /\ journal[i].from \in Touched(journal[i])
  BY DEF Touched
<1>3. journal[i].from \in Orderly' /\ Safe(journal[i].from) =>
          flat'[journal[i].from] \in Kept' \union {NoText}
  BY <1>2, GrowsKeeps DEF Safe, Same
<1> QED BY <1>1, <1>2, <1>3 DEF LastOK, Same, Grows, Safe

(* A call whose skills a step of another leaves alone.                     *)
LEMMA CallStays ==
    ASSUME KeepInv, Grows, NEW u \in Threads, Busy(u), thr'[u] = thr[u],
           \A n \in Touched(thr[u]) : n \notin mixed' => Same(n),
           \A m \in DOMAIN journal' : m \notin DOMAIN journal =>
               \A n \in Touched(journal'[m]) \intersect Touched(thr[u]) : n \in mixed'
    PROVE  CallOK(u)'
<1>1. CallOK(u) BY DEF KeepInv
<1>2. Orderly' \subseteq Orderly /\ Orderly' \intersect mixed' = {} BY GrowsKeeps DEF Orderly
<1>3. Source(u)' = Source(u) /\ Source(u) \in Touched(thr[u]) /\ thr[u].name \in Touched(thr[u])
  BY DEF Source, Touched
<1>4. ShapeOK(u)'
  <2>1. thr[u].task = "revert" => thr[u].rev \in DOMAIN journal
    <3>1. thr[u].pc \in PcsOf(thr[u].task) /\ (thr[u].pc = "claim" => thr[u].rev \in DOMAIN journal)
      BY DEF KeepInv, SkillInv, SkillTypeOK
    <3>2. thr[u].task = "revert" => thr[u].pc = "claim" BY <3>1 DEF PcsOf
    <3> QED BY <3>1, <3>2
  <2> QED BY <1>1, <2>1 DEF CallOK, ShapeOK, Grows
<1>5. OwnOK(u)'
  <2> SUFFICES ASSUME thr[u].pc \in Past PROVE \E k \in DOMAIN journal' : Owns(u, k)'
    BY DEF OwnOK
  <2>1. PICK k \in DOMAIN journal : Owns(u, k) BY <1>1 DEF CallOK, OwnOK
  <2>2. k \in DOMAIN journal' BY DEF Grows
  <2>3. ASSUME NEW m \in DOMAIN journal', NEW n \in Touched(journal'[m]) \intersect Touched(thr[u]),
               n \notin mixed'
        PROVE  m <= k
    <3>1. m \in DOMAIN journal BY <2>3
    <3>2. n \in Touched(journal[m]) BY <3>1, <2>3, TouchedSame
    <3> QED BY <2>1, <2>3, <3>1, <3>2 DEF Owns, Grows
  <2>4. Owns(u, k)' BY <2>1, <2>3 DEF Owns, Grows
  <2> QED BY <2>2, <2>4
<1>6. ASSUME thr[u].name \in Orderly' PROVE NameOK(u)'
  <2>1. NameOK(u) /\ Same(thr[u].name) BY <1>1, <1>2, <1>3, <1>6 DEF CallOK
  <2>2. Safe(thr[u].name) => flat'[thr[u].name] \in Kept' \union {NoText}
    BY <2>1, GrowsKeeps DEF Same, Safe
  <2>3. Kept \subseteq Kept' BY GrowsKeeps
  <2> QED BY <2>1, <2>2, <2>3 DEF NameOK, Written, Same, Safe
<1>7. ASSUME Source(u) \in Orderly' PROVE SourceOK(u)'
  <2>1. SourceOK(u) /\ Same(Source(u)) BY <1>1, <1>2, <1>3, <1>7 DEF CallOK
  <2>2. Safe(Source(u)) => flat'[Source(u)] \in Kept' \union {NoText}
    BY <2>1, GrowsKeeps DEF Same, Safe
  <2> QED BY <1>3, <2>1, <2>2 DEF SourceOK, Same, Safe
<1>8. ASSUME GoalNames(u)' \subseteq Orderly' PROVE GoalOK(u)'
  <2>1. GoalNames(u)' = GoalNames(u) BY DEF GoalNames
  <2>2. GoalOK(u) BY <1>1, <1>2, <1>8, <2>1 DEF CallOK
  <2>3. ASSUME thr[u].task = "create", thr[u].goal # {}
        PROVE  Same(thr[u].name)
    <3>1. thr[u].goal = {<<thr[u].name, thr[u].text>>} BY <2>2, <2>3 DEF GoalOK
    <3>2. thr[u].name \in GoalNames(u) BY <3>1 DEF GoalNames
    <3> QED BY <1>2, <1>3, <1>8, <2>1, <3>2
  <2> QED BY <2>2, <2>3 DEF GoalOK, Same
<1> QED BY <1>3, <1>4, <1>5, <1>6, <1>7, <1>8 DEF CallOK

(* A step of a call: its own skills are the only ones it changes, no other *)
(* call has changed one of them that is not mixed, and no other call is    *)
(* touched.                                                                *)
Local(t) ==
    /\ Grows /\ mixed' = mixed
    /\ \A u \in Threads : u # t => thr'[u] = thr[u]
    /\ Busy(t)' => Touched(thr'[t]) \subseteq Touched(thr[t])
    /\ \A n \in Names : n \notin Touched(thr[t]) => Same(n)
    /\ \A m \in DOMAIN journal' : m \notin DOMAIN journal =>
           Touched(journal'[m]) \subseteq Touched(thr[t])

LEMMA ChangingTouches ==
    ASSUME KeepInv, NEW t \in Threads, NEW n, Changing(t, n)
    PROVE  Busy(t) /\ n \in Touched(thr[t])
BY DEF Changing, Written, Forgetting, Source, Touched

LEMMA NamesTouched ==
    ASSUME KeepInv, NEW t \in Threads, Busy(t)
    PROVE  /\ thr[t] \in Jobs /\ thr[t].pc \in PcsOf(thr[t].task)
           /\ thr[t].name \in Names /\ thr[t].from \in Names
           /\ Touched(thr[t]) = {thr[t].name, thr[t].from}
           /\ Source(t) \in Touched(thr[t])
BY DEF KeepInv, SkillInv, SkillTypeOK, Touched, Source

(* A skill that a call works on is at rest as long as that call has not    *)
(* changed it.                                                             *)
LEMMA Resting ==
    ASSUME KeepInv, NEW t \in Threads, Busy(t), NEW n \in Touched(thr[t]), n \in Orderly,
           ~Changing(t, n)
    PROVE  Rest(n)
<1>1. \A u \in Threads : u # t /\ Busy(u) => n \notin Touched(thr[u])
  BY DEF KeepInv, Alone, Orderly
<1>2. \A u \in Threads : ~Changing(u, n) BY <1>1, ChangingTouches
<1> QED BY <1>2 DEF KeepInv, RestOK

LEMMA LocalKeeps ==
    ASSUME KeepInv, SkillInv', NEW t \in Threads, Busy(t), Local(t),
           Busy(t)' => CallOK(t)',
           \A n \in Touched(thr[t]) : n \in Orderly' /\ ~Changing(t, n)' => Rest(n)',
           \A n \in Touched(thr[t]) : sub'[n] = NoText => Len(mem'[n]) <= 1,
           \A i \in DOMAIN journal' : RevOK(i)'
    PROVE  KeepInv'
<1>1. Grows /\ mixed' = mixed /\ Orderly' \subseteq Orderly BY GrowsKeeps DEF Local
<1>2. \A u \in Threads : u # t => thr'[u] = thr[u] BY DEF Local
<1>3. Alone'
  BY <1>1, <1>2 DEF KeepInv, Alone, Local
<1>4. Short'
  BY DEF KeepInv, Short, Local, Same
<1>5. ASSUME NEW u \in Threads, Busy(u)' PROVE CallOK(u)'
  <2>1. CASE u = t BY <1>5, <2>1
  <2>2. CASE u # t
    <3>1. thr'[u] = thr[u] /\ Busy(u) BY <1>2, <1>5, <2>2
    <3>2. Touched(thr[u]) \intersect Touched(thr[t]) \subseteq mixed
      BY <2>2, <3>1 DEF KeepInv, Alone
    <3>3. Touched(thr[u]) \subseteq Names BY <3>1, NamesTouched
    <3>4. \A n \in Touched(thr[u]) : n \notin mixed' => Same(n)
      BY <1>1, <3>2, <3>3 DEF Local
    <3>5. \A m \in DOMAIN journal' : m \notin DOMAIN journal =>
               \A n \in Touched(journal'[m]) \intersect Touched(thr[u]) : n \in mixed'
      BY <1>1, <3>2 DEF Local
    <3> QED BY <1>1, <3>1, <3>4, <3>5, CallStays
  <2> QED BY <2>1, <2>2
<1>6. ASSUME NEW n \in Orderly', \A u \in Threads : ~Changing(u, n)' PROVE Rest(n)'
  <2>1. CASE n \in Touched(thr[t]) BY <1>6, <2>1
  <2>2. CASE n \notin Touched(thr[t])
    <3>1. n \in Names /\ n \in Orderly BY <1>1, <1>6 DEF Orderly
    <3>2. \A u \in Threads : u # t => (Changing(u, n)' <=> Changing(u, n))
      BY <1>2 DEF Changing, Written, Forgetting, Source
    <3>3. ~Changing(t, n) BY <2>2, ChangingTouches
    <3>4. Rest(n) BY <1>6, <3>1, <3>2, <3>3 DEF KeepInv, RestOK
    <3> QED BY <1>1, <2>2, <3>1, <3>4, RestStays DEF Local
  <2> QED BY <2>1, <2>2
<1>7. RestOK' BY <1>6 DEF RestOK
<1> QED BY <1>3, <1>4, <1>5, <1>7 DEF KeepInv

(* The revision of a call past its journal step is the last of its skills. *)
LEMMA OwnsLast ==
    ASSUME KeepInv, NEW t \in Threads, Busy(t), thr[t].pc \in Past,
           NEW i \in DOMAIN journal, LastOf(i),
           NEW n \in Touched(journal[i]), n \in Touched(thr[t]), n \notin mixed
    PROVE  /\ journal[i].op = thr[t].task /\ journal[i].prior = thr[t].prior
           /\ journal[i].name = thr[t].name /\ journal[i].from = thr[t].from
<1>1. PICK k \in DOMAIN journal : Owns(t, k) BY DEF KeepInv, CallOK, OwnOK
<1>2. i <= k BY <1>1 DEF Owns
<1>3. Touched(journal[k]) = Touched(thr[t]) BY <1>1 DEF Owns, Touched
<1>4. k <= i BY <1>3 DEF LastOf
<1>5. i \in Nat /\ k \in Nat BY DEF KeepInv, SkillInv, SkillTypeOK
<1>6. i = k BY <1>2, <1>4, <1>5
<1> QED BY <1>1, <1>6 DEF Owns

(* A step that leaves files and memory as they are, and the journal too:   *)
(* only the call that goes on is left to look at.                          *)
Calm == UNCHANGED <<flat, sub, mem, left, mixed, late>>

LEMMA CalmStep ==
    ASSUME KeepInv, SkillInv', NEW t \in Threads, Busy(t), Calm, UNCHANGED journal,
           \A u \in Threads : u # t => thr'[u] = thr[u],
           Busy(t)' => CallOK(t)' /\ Touched(thr'[t]) \subseteq Touched(thr[t]),
           \A n : Changing(t, n) => Changing(t, n)'
    PROVE  KeepInv'
<1>1. Grows /\ \A n : Same(n) BY DEF Grows, Same, Calm
<1>2. Local(t) BY <1>1 DEF Local, Calm
<1>3. \A n \in Touched(thr[t]) : n \in Orderly' /\ ~Changing(t, n)' => Rest(n)'
  BY <1>1, GrowsKeeps, Resting, RestStays
<1>4. \A n \in Touched(thr[t]) : sub'[n] = NoText => Len(mem'[n]) <= 1
  BY NamesTouched DEF Calm, KeepInv, Short
<1>5. \A i \in DOMAIN journal' : RevOK(i)'
  BY <1>1, RevStays, LastSame
<1> QED BY <1>2, <1>3, <1>4, <1>5, LocalKeeps

-----------------------------------------------------------------------------
(* How a call goes on or ends.                                             *)
Goes(t, pc) ==
    /\ \A u \in Threads : u # t => thr'[u] = thr[u]
    /\ thr'[t].pc = pc
    /\ thr'[t].task = thr[t].task /\ thr'[t].name = thr[t].name /\ thr'[t].from = thr[t].from
    /\ thr'[t].text = thr[t].text /\ thr'[t].prior = thr[t].prior /\ thr'[t].rev = thr[t].rev
    /\ thr'[t].goal = thr[t].goal

Ends(t) ==
    /\ \A u \in Threads : u # t => thr'[u] = thr[u]
    /\ thr'[t] = Idle

LEMMA PcGoes ==
    ASSUME KeepInv, NEW t \in Threads, Busy(t), NEW pc, thr' = [thr EXCEPT ![t].pc = pc]
    PROVE  Goes(t, pc)
<1>1. thr \in [Threads -> Jobs] BY DEF KeepInv, SkillInv, SkillTypeOK
<1>2. thr'[t] = [thr[t] EXCEPT !.pc = pc] /\ \A u \in Threads : u # t => thr'[u] = thr[u]
  BY <1>1
<1> QED BY <1>1, <1>2 DEF Goes, Jobs

LEMMA ReturnEnds == ASSUME KeepInv, NEW t \in Threads, Return(t) PROVE Ends(t)
BY DEF Return, Ends, KeepInv, SkillInv, SkillTypeOK

LEMMA AdvanceGoes ==
    ASSUME KeepInv, NEW t \in Threads, Busy(t), Advance(t)
    PROVE  LET next == Following(thr[t].task, thr[t].pc)
           IN  IF next = "idle" THEN Ends(t) ELSE Goes(t, next)
BY PcGoes, ReturnEnds DEF Advance

LEMMA EndsCalls ==
    ASSUME NEW t \in Threads, Ends(t)
    PROVE  ~Busy(t)' /\ \A n : ~Changing(t, n)'
BY DEF Ends, Idle, Changing, Written, Forgetting

LEMMA GoesTouches ==
    ASSUME NEW t \in Threads, NEW pc, Goes(t, pc)
    PROVE  /\ Touched(thr'[t]) = Touched(thr[t]) /\ Source(t)' = Source(t)
           /\ GoalNames(t)' = GoalNames(t)
BY DEF Goes, Touched, Source, GoalNames

(* A call that goes on with the journal as it is.                          *)
LEMMA GoesKeeps ==
    ASSUME KeepInv, NEW t \in Threads, Busy(t), NEW pc, Goes(t, pc),
           UNCHANGED <<journal, mixed>>, pc \in Past => thr[t].pc \in Past
    PROVE  ShapeOK(t)' /\ OwnOK(t)'
<1>1. ShapeOK(t) /\ OwnOK(t) BY DEF KeepInv, CallOK
<1>2. ShapeOK(t)' BY <1>1 DEF ShapeOK, Goes
<1>3. Touched(thr'[t]) = Touched(thr[t]) BY GoesTouches
<1>4. ASSUME NEW k \in DOMAIN journal, Owns(t, k) PROVE Owns(t, k)'
  BY <1>3, <1>4 DEF Owns, Goes
<1>5. OwnOK(t)'
  BY <1>1, <1>4 DEF OwnOK, Goes
<1> QED BY <1>2, <1>5

(* A call that ends before it has changed anything.                        *)
LEMMA CalmEnd ==
    ASSUME KeepInv, SkillInv', NEW t \in Threads, Busy(t), Calm, UNCHANGED journal, Ends(t),
           \A n : ~Changing(t, n)
    PROVE  KeepInv'
BY CalmStep, EndsCalls DEF Ends

(* A call that goes on before it has changed anything.                     *)
LEMMA CalmGoes ==
    ASSUME KeepInv, SkillInv', NEW t \in Threads, Busy(t), Calm, UNCHANGED journal,
           NEW pc, Goes(t, pc), pc \in Past => thr[t].pc \in Past,
           \A n : ~Changing(t, n),
           thr[t].name \in Orderly /\ NameOK(t) => NameOK(t)',
           Source(t) \in Orderly /\ SourceOK(t) => SourceOK(t)',
           GoalNames(t) \subseteq Orderly /\ GoalOK(t) => GoalOK(t)'
    PROVE  KeepInv'
<1>1. ShapeOK(t)' /\ OwnOK(t)' BY GoesKeeps DEF Calm
<1>2. /\ thr'[t].name = thr[t].name /\ Source(t)' = Source(t) /\ Orderly' = Orderly
      /\ GoalNames(t)' = GoalNames(t)
  BY GoesTouches DEF Goes, Orderly, Calm
<1>3. CallOK(t) BY DEF KeepInv
<1>4. CallOK(t)' BY <1>1, <1>2, <1>3 DEF CallOK
<1>5. Touched(thr'[t]) \subseteq Touched(thr[t]) BY GoesTouches
<1> QED BY <1>4, <1>5, CalmStep DEF Goes

LEMMA LockKeeps == ASSUME KeepInv, SkillInv', NEW t \in Threads, Lock(t) PROVE KeepInv'
<1>1. Busy(t) /\ thr[t].pc = "lock" BY DEF Lock
<1>2. Goes(t, "check") BY <1>1, PcGoes DEF Lock
<1>3. Calm /\ UNCHANGED journal BY DEF Lock, Calm, disk, hist, odd
<1>4. \A n : ~Changing(t, n) BY <1>1 DEF Changing, Written, Forgetting
<1>5. thr[t].task = "create" BY <1>1, NamesTouched DEF PcsOf, Jobs, Tasks
<1>6. NameOK(t)' BY <1>2, <1>5 DEF NameOK, Written, Goes
<1>7. SourceOK(t)' BY <1>2, <1>5 DEF SourceOK, Goes
<1>8. GoalOK(t) => GoalOK(t)' BY <1>1, <1>2, <1>3, <1>5 DEF GoalOK, Goes, Calm
<1> QED BY <1>1, <1>2, <1>3, <1>4, <1>6, <1>7, <1>8, CalmGoes DEF Past

LEMMA RefuseKeeps == ASSUME KeepInv, SkillInv', NEW t \in Threads, Refuse(t) PROVE KeepInv'
<1>1. Busy(t) /\ thr[t].pc \in {"check", "recheck"} BY DEF Refuse
<1>2. Calm /\ UNCHANGED journal BY DEF Refuse, Calm, disk, hist, odd
<1>3. \A n : ~Changing(t, n) BY <1>1 DEF Changing, Written, Forgetting
<1>4. CASE Exists(thr[t].name)
  <2>1. Ends(t) BY <1>4, ReturnEnds DEF Refuse
  <2> QED BY <1>1, <1>2, <1>3, <2>1, CalmEnd
<1>5. CASE ~Exists(thr[t].name)
  <2>1. thr[t].task = "create" BY <1>1, NamesTouched DEF PcsOf, Jobs, Tasks
  <2> DEFINE next == IF thr[t].pc = "check" THEN "journal" ELSE "write"
  <2>2. next = Following(thr[t].task, thr[t].pc) BY <1>1, <2>1 DEF Following
  <2>3. Advance(t) BY <1>5 DEF Refuse
  <2>4. Goes(t, next) BY <1>1, <2>2, <2>3, AdvanceGoes
  <2>5. flat[thr[t].name] = NoText BY <1>5 DEF Exists
  <2>6. NameOK(t)' BY <1>2, <2>1, <2>4, <2>5 DEF NameOK, Written, Goes, Calm
  <2>7. SourceOK(t)' BY <2>1, <2>4 DEF SourceOK, Goes
  <2>8. GoalOK(t) => GoalOK(t)' BY <2>1, <2>4 DEF GoalOK, Goes
  <2>9. next \in Past => thr[t].pc \in Past BY <1>1 DEF Past
  <2> HIDE DEF next
  <2> QED BY <1>1, <1>2, <1>3, <2>4, <2>6, <2>7, <2>8, <2>9, CalmGoes
<1> QED BY <1>4, <1>5

LEMMA PriorKeeps == ASSUME KeepInv, SkillInv', NEW t \in Threads, Prior(t) PROVE KeepInv'
<1>1. Busy(t) /\ thr[t].pc = "prior" BY DEF Prior
<1>2. Calm /\ UNCHANGED journal BY DEF Prior, Calm, disk, hist, odd
<1>3. \A n : ~Changing(t, n) BY <1>1 DEF Changing, Written, Forgetting
<1>4. thr[t].task \in {"update", "rename", "delete"} BY <1>1, NamesTouched DEF PcsOf, Jobs, Tasks
<1>5. /\ \A u \in Threads : u # t => thr'[u] = thr[u]
      /\ thr'[t].pc = "journal" /\ thr'[t].prior = flat[Source(t)]
      /\ thr'[t].task = thr[t].task /\ thr'[t].name = thr[t].name /\ thr'[t].from = thr[t].from
      /\ thr'[t].text = thr[t].text /\ thr'[t].goal = thr[t].goal
  <2>1. thr \in [Threads -> Jobs] BY DEF KeepInv, SkillInv, SkillTypeOK
  <2>2. thr' = [thr EXCEPT ![t] = [@ EXCEPT !.prior = flat[Source(t)], !.pc = "journal"]]
    BY DEF Prior
  <2>3. /\ thr'[t] = [thr[t] EXCEPT !.prior = flat[Source(t)], !.pc = "journal"]
        /\ \A u \in Threads : u # t => thr'[u] = thr[u]
    BY <2>1, <2>2
  <2> QED BY <2>1, <2>3 DEF Jobs
<1>6. Touched(thr'[t]) = Touched(thr[t]) /\ Source(t)' = Source(t) /\ GoalNames(t)' = GoalNames(t)
      /\ Orderly' = Orderly
  BY <1>2, <1>5 DEF Touched, Source, GoalNames, Orderly, Calm
<1>7. CallOK(t) BY <1>1 DEF KeepInv
<1>8. CallOK(t)'
  <2>1. ShapeOK(t)' BY <1>4, <1>5, <1>7 DEF CallOK, ShapeOK
  <2>2. OwnOK(t)' BY <1>5 DEF OwnOK, Past
  <2>3. NameOK(t) => NameOK(t)'
    <3>1. Safe(thr[t].name) => flat'[thr[t].name] \in Kept' \union {NoText}
      BY <1>2 DEF Safe, Kept, Calm
    <3> QED BY <1>1, <1>2, <1>4, <1>5, <3>1 DEF NameOK, Written, Calm, Safe, Kept
  <2>4. SourceOK(t)' BY <1>2, <1>5, <1>6 DEF SourceOK, Calm
  <2>5. GoalOK(t) => GoalOK(t)' BY <1>4, <1>5 DEF GoalOK
  <2> QED BY <1>5, <1>6, <1>7, <2>1, <2>2, <2>3, <2>4, <2>5 DEF CallOK
<1> QED BY <1>1, <1>2, <1>3, <1>5, <1>6, <1>8, CalmStep

(* A call begins: it is alone on the skills that are not mixed, and they   *)
(* are at rest.                                                            *)
LEMMA BeginKeeps == ASSUME KeepInv, SkillInv', NEW t \in Threads, Begin(t) PROVE KeepInv'
<1>1. ~Busy(t) /\ UNCHANGED <<flat, sub, mem, journal, left, late>>
  BY DEF Begin, disk, hist
<1>2. PICK j \in Requests \union FileRequests \union RevertRequests :
          /\ thr' = [thr EXCEPT ![t] = j]
          /\ mixed' = mixed \union
                 (Touched(j) \intersect UNION {Touched(thr[u]) : u \in {v \in Threads : Busy(v)}})
  BY DEF Begin
<1>3. thr'[t] = j /\ \A u \in Threads : u # t => thr'[u] = thr[u]
  BY <1>2 DEF KeepInv, SkillInv, SkillTypeOK
<1>4. mixed \subseteq mixed' /\ \A u \in Threads : Busy(u) =>
          Touched(j) \intersect Touched(thr[u]) \subseteq mixed'
  BY <1>2
<1>5. Grows /\ \A n : Same(n) BY <1>1, <1>4 DEF Grows, Same
<1>6. Orderly' \subseteq Orderly BY <1>5, GrowsKeeps
<1>7. Valid(j) BY RequestOK DEF KeepInv, SkillInv
<1>8. ASSUME NEW n \in Touched(j), n \in Orderly' PROVE Rest(n)
  <2>1. ASSUME NEW u \in Threads, Changing(u, n) PROVE FALSE
    <3>1. Busy(u) /\ n \in Touched(thr[u]) BY <2>1, ChangingTouches
    <3>2. n \in mixed' BY <1>4, <1>8, <3>1
    <3> QED BY <1>8, <3>2 DEF Orderly
  <2> QED BY <1>6, <1>8, <2>1 DEF KeepInv, RestOK
<1>9. Alone'
  <2> SUFFICES ASSUME NEW u \in Threads, NEW v \in Threads, Busy(u)', Busy(v)', u # v
               PROVE  Touched(thr'[u]) \intersect Touched(thr'[v]) \subseteq mixed'
    BY DEF Alone
  <2>1. CASE u = t BY <1>3, <1>4, <2>1
  <2>2. CASE v = t BY <1>3, <1>4, <2>2
  <2>3. CASE u # t /\ v # t BY <1>3, <1>4, <2>3 DEF KeepInv, Alone
  <2> QED BY <2>1, <2>2, <2>3
<1>10. Short' BY <1>1 DEF KeepInv, Short
<1>11. ASSUME NEW u \in Threads, u # t, Busy(u) PROVE CallOK(u)'
  BY <1>1, <1>3, <1>5, <1>11, CallStays
<1>12. \A i \in DOMAIN journal' : RevOK(i)'
  BY <1>1, <1>5, RevStays, LastSame
<1>13. /\ j.pc \in {"lock", "prior", "convert", "register", "claim"}
       /\ j.goal = {} /\ CallOK(t)'
  <2>1. CASE j \in Requests
    <3>1. PICK task \in {"create", "update", "rename", "delete"}, n \in Names, m \in Names, x \in Text :
              /\ j = Job(task, n, m, x)
              /\ task = "rename" <=> m # n
              /\ task # "delete" => x = Fresh
              /\ task = "update" => Served(n)
              /\ task = "rename" => ~Served(n)
      <4>1. Fresh \in Text BY TextAssumption DEF Fresh, KeepInv, SkillInv, SkillTypeOK
      <4>2. CASE j \in {Job("create", n, n, Fresh) : n \in {m \in Names : ~Served(m) /\ ~Exists(m)}}
        BY <4>1, <4>2
      <4>3. CASE j \in {Job("update", n, n, Fresh) : n \in {m \in Names : Served(m)}}
        BY <4>1, <4>3
      <4>4. CASE j \in {Job("rename", p[1], p[2], Fresh) :
                            p \in {q \in Names \X Names : ~Served(q[1]) /\ Served(q[2])}}
        BY <4>1, <4>4
      <4>5. CASE j \in {Job("delete", n, n, NoText) : n \in {m \in Names : Served(m)}}
        BY <4>5
      <4> QED BY <2>1, <4>2, <4>3, <4>4, <4>5 DEF Requests
    <3>2. Fresh # NoText BY TextAssumption DEF Fresh, KeepInv, SkillInv, SkillTypeOK
    <3>3. /\ j.task = task /\ j.name = n /\ j.from = m /\ j.text = x /\ j.goal = {}
          /\ j.pc = IF task = "create" THEN "lock" ELSE "prior"
      BY <3>1 DEF Job, Idle, First
    <3>4. ShapeOK(t)' /\ OwnOK(t)'
      BY <1>3, <3>1, <3>2, <3>3 DEF ShapeOK, OwnOK, Past
    <3>5. ASSUME n \in Orderly' PROVE NameOK(t)'
      <4>1. n \in Touched(j) BY <3>3 DEF Touched
      <4>2. Rest(n) BY <1>8, <3>5, <4>1
      <4>3. task = "rename" => flat'[n] \in Kept' \union {NoText}
        BY <1>1, <3>1, <4>2 DEF Rest, Served, Safe, Kept
      <4> QED BY <1>1, <1>3, <3>1, <3>3, <4>3 DEF NameOK, Written, Served, Safe, Kept
    <3>6. SourceOK(t)' BY <1>3, <3>3 DEF SourceOK
    <3>7. GoalOK(t)' BY <1>3, <3>3 DEF GoalOK
    <3> QED BY <1>3, <3>3, <3>4, <3>5, <3>6, <3>7 DEF CallOK
  <2>2. CASE j \in FileRequests
    <3>1. PICK n \in Names : /\ Served(n)
                             /\ j = [Job("file", n, n, mem[n][1].text) EXCEPT
                                        !.pc = IF mem[n][1].dir THEN "register" ELSE @]
      BY <2>2 DEF FileRequests
    <3>2. /\ j.task = "file" /\ j.name = n /\ j.from = n /\ j.goal = {}
          /\ j.pc = IF mem[n][1].dir THEN "register" ELSE "convert"
      BY <3>1 DEF Job, Idle, First
    <3>3. ShapeOK(t)' /\ OwnOK(t)' /\ SourceOK(t)' /\ GoalOK(t)'
      BY <1>3, <3>2 DEF ShapeOK, OwnOK, Past, SourceOK, GoalOK
    <3>4. ASSUME n \in Orderly', sub[n] = NoText PROVE flat[n] # NoText /\ ~mem[n][1].dir
      <4>1. n \in Touched(j) BY <3>2 DEF Touched
      <4>2. Rest(n) BY <1>8, <3>4, <4>1
      <4>3. mem[n] = Loaded(n) /\ mem[n] # <<>> BY <3>1, <3>4, <4>2 DEF Rest, Served
      <4>4. flat[n] # NoText BY <3>4, <4>3 DEF Loaded
      <4>5. mem[n] = <<>> \o <<Entry(flat[n], FALSE)>> BY <3>4, <4>3, <4>4 DEF Loaded
      <4>6. mem[n] = <<Entry(flat[n], FALSE)>> BY <4>5
      <4> QED BY <4>4, <4>6 DEF Entry
    <3>5. n \in Orderly' => NameOK(t)'
      BY <1>1, <1>3, <3>2, <3>4 DEF NameOK, Written
    <3> QED BY <1>3, <3>2, <3>3, <3>5 DEF CallOK
  <2>3. CASE j \in RevertRequests
    <3>1. PICK i \in Armed :
              j = [Job("revert", journal[i].name, journal[i].from, NoText) EXCEPT !.rev = i]
      BY <2>3 DEF RevertRequests
    <3>2. /\ j.task = "revert" /\ j.name = journal[i].name /\ j.from = journal[i].from
          /\ j.rev = i /\ j.goal = {} /\ j.pc = "claim"
      BY <3>1 DEF Job, Idle, First
    <3> QED BY <1>1, <1>3, <3>2 DEF CallOK, ShapeOK, OwnOK, Past, NameOK, Written, SourceOK, GoalOK
  <2> QED BY <2>1, <2>2, <2>3
<1>14. RestOK'
  <2> SUFFICES ASSUME NEW n \in Orderly', \A u \in Threads : ~Changing(u, n)' PROVE Rest(n)'
    BY DEF RestOK
  <2>1. \A u \in Threads : u # t => ~Changing(u, n)
    BY <1>3 DEF Changing, Written, Forgetting, Source
  <2>2. ~Changing(t, n) BY <1>1, ChangingTouches
  <2>3. Rest(n) BY <1>6, <2>1, <2>2 DEF KeepInv, RestOK
  <2> QED BY <1>5, <2>3, RestStays
<1> QED BY <1>3, <1>9, <1>10, <1>11, <1>12, <1>13, <1>14 DEF KeepInv

(* The journal step: the revision is of what the call found.               *)
LEMMA JournalKeeps == ASSUME KeepInv, SkillInv', NEW t \in Threads, Journal(t) PROVE KeepInv'
<1>1. Busy(t) /\ thr[t].pc = "journal" BY DEF Journal
<1>2. Calm BY DEF Journal, Calm, disk, hist, odd
<1>3. \A n : ~Changing(t, n) BY <1>1 DEF Changing, Written, Forgetting
<1>4. CASE Return(t) /\ UNCHANGED journal
  BY <1>1, <1>2, <1>3, <1>4, ReturnEnds, CalmEnd
<1>5. CASE journal' = Append(journal, Revision(t)) /\ Advance(t)
  <2> DEFINE next == Following(thr[t].task, "journal")
  <2>a. PICK k : k = Len(journal) + 1 OBVIOUS
  <2>b. PICK r : r = Revision(t) OBVIOUS
  <2>1. /\ thr[t].task \in {"create", "update", "rename", "delete"}
        /\ next \in {"recheck", "unlink", "write"}
        /\ thr[t].task = "create" <=> next = "recheck"
        /\ thr[t].task = "delete" <=> next = "unlink"
    BY <1>1, NamesTouched DEF PcsOf, Jobs, Tasks, Following
  <2>2. Goes(t, next) BY <1>1, <1>5, <2>1, AdvanceGoes
  <2>3. /\ DOMAIN journal' = DOMAIN journal \union {k} /\ journal'[k] = r
        /\ \A i \in DOMAIN journal : journal'[i] = journal[i] /\ i < k /\ i # k
        /\ k \in Nat /\ \A i \in DOMAIN journal' : i <= k
    BY <1>5, <2>a, <2>b DEF KeepInv, SkillInv, SkillTypeOK
  <2>4. /\ r.op = thr[t].task /\ r.name = thr[t].name /\ r.from = thr[t].from
        /\ r.prior = thr[t].prior /\ r.was = {<<n, flat[n]>> : n \in Touched(thr[t])}
        /\ Touched(r) = Touched(thr[t])
    BY <2>b DEF Revision, Touched
  <2> HIDE DEF next
  <2>5. Grows /\ \A n : Same(n) BY <1>2, <2>3 DEF Grows, Same, Calm
  <2>6. /\ Touched(thr'[t]) = Touched(thr[t]) /\ Source(t)' = Source(t)
        /\ GoalNames(t)' = GoalNames(t) /\ Orderly' = Orderly
    BY <1>2, <2>2, GoesTouches DEF Orderly, Calm
  <2>7. Local(t) BY <1>2, <2>2, <2>3, <2>4, <2>5, <2>6 DEF Local, Calm, Goes
  <2>8. CallOK(t) /\ ShapeOK(t) BY <1>1 DEF KeepInv, CallOK
  <2>9. /\ thr[t].name \in Touched(thr[t]) /\ Touched(thr[t]) = {thr[t].name, thr[t].from}
        /\ thr[t].name \in Names /\ thr[t].from \in Names
    BY <1>1, NamesTouched
  <2>10. CallOK(t)'
    <3>1. ShapeOK(t)' BY <2>1, <2>2, <2>8 DEF ShapeOK, Goes
    <3>2. Owns(t, k)'
      <4>1. \A m \in DOMAIN journal' : m <= k BY <2>3
      <4> QED BY <2>2, <2>3, <2>4, <4>1 DEF Owns, Goes
    <3>3. OwnOK(t)' BY <2>3, <3>2 DEF OwnOK
    <3>4. ASSUME thr[t].name \in Orderly PROVE NameOK(t)'
      <4>1. NameOK(t) BY <2>8, <3>4 DEF CallOK
      <4>2. Kept \subseteq Kept' BY <2>5, GrowsKeeps
      <4>3. Safe(thr[t].name) => flat'[thr[t].name] \in Kept' \union {NoText}
        BY <1>2, <4>2 DEF Safe, Calm
      <4> QED BY <1>1, <1>2, <2>1, <2>2, <4>1, <4>2, <4>3 DEF NameOK, Written, Goes, Calm, Safe
    <3>5. ASSUME Source(t) \in Orderly PROVE SourceOK(t)'
      <4>1. SourceOK(t) BY <2>8, <3>5 DEF CallOK
      <4> QED BY <1>1, <1>2, <2>1, <2>2, <2>6, <4>1 DEF SourceOK, Goes, Calm
    <3>6. ASSUME GoalNames(t) \subseteq Orderly PROVE GoalOK(t)'
      <4>1. GoalOK(t) BY <2>8, <3>6 DEF CallOK
      <4> QED BY <2>1, <2>2, <4>1 DEF GoalOK, Goes
    <3>7. thr'[t].name = thr[t].name BY <2>2 DEF Goes
    <3> QED BY <2>6, <3>1, <3>3, <3>4, <3>5, <3>6, <3>7 DEF CallOK
  <2>11. \A n \in Touched(thr[t]) : n \in Orderly' => Rest(n)'
    BY <1>1, <1>3, <2>5, <2>6, Resting, RestStays
  <2>12. \A n \in Touched(thr[t]) : sub'[n] = NoText => Len(mem'[n]) <= 1
    BY <1>2, <2>9 DEF Calm, KeepInv, Short
  <2>13. RevOK(k)'
    <3>1. journal'[k] = r /\ Touched(journal'[k]) = Touched(thr[t]) BY <2>3, <2>4
    <3>2. ASSUME thr[t].name \in Orderly
          PROVE  /\ thr[t].task = "create" => flat[thr[t].name] = NoText
                 /\ thr[t].task = "update" /\ sub[thr[t].name] = NoText => mem[thr[t].name] # <<>>
      BY <1>1, <2>8, <3>2 DEF CallOK, NameOK
    <3>3. ASSUME thr[t].task # "create", Source(t) \in Orderly PROVE thr[t].prior = flat[Source(t)]
      BY <1>1, <2>1, <2>8, <3>3 DEF CallOK, SourceOK
    <3>4. Source(t) = IF thr[t].task = "rename" THEN thr[t].from ELSE thr[t].name
      BY DEF Source
    <3>5. thr[t].task # "rename" => Touched(thr[t]) = {thr[t].name}
      BY <2>1, <2>8, <2>9 DEF ShapeOK
    <3>6. \A n \in Touched(thr[t]) : flat[n] \in Text
      BY <2>9 DEF KeepInv, SkillInv, SkillTypeOK
    <3>7. RevShape(k)'
      <4>1. thr[t].task = "rename" <=> thr[t].from # thr[t].name BY <2>1, <2>8 DEF ShapeOK
      <4>2. \A p \in r.was : p[1] \in Touched(thr[t]) /\ p = <<p[1], flat[p[1]]>>
        BY <2>4
      <4>3. \A p \in r.was : \E n \in Touched(thr[t]), x \in Text : p = <<n, x>>
        BY <3>6, <4>2
      <4>4. \A p, q \in r.was : p[1] = q[1] => p[2] = q[2]
        BY <2>4
      <4>5. r.op = "create" /\ r.name \in Orderly => r.was \subseteq {<<r.name, NoText>>}
        BY <2>4, <3>2, <3>5
      <4>6. r.op \in {"update", "delete"} /\ r.name \in Orderly => r.was \subseteq {<<r.name, r.prior>>}
        BY <2>4, <3>3, <3>4, <3>5
      <4>7. r.op = "rename" /\ r.from \in Orderly => \A p \in r.was : p[1] = r.from => p[2] = r.prior
        BY <2>4, <3>3, <3>4
      <4>8. RevShape(k)' <=>
              /\ r.op \in {"create", "update", "rename", "delete"}
              /\ r.op = "rename" <=> r.from # r.name
              /\ \A p \in r.was : \E n \in Touched(r), x \in Text : p = <<n, x>>
              /\ \A p, q \in r.was : p[1] = q[1] => p[2] = q[2]
              /\ r.op = "create" /\ r.name \in Orderly => r.was \subseteq {<<r.name, NoText>>}
              /\ r.op \in {"update", "delete"} /\ r.name \in Orderly =>
                     r.was \subseteq {<<r.name, r.prior>>}
              /\ r.op = "rename" /\ r.from \in Orderly =>
                     \A p \in r.was : p[1] = r.from => p[2] = r.prior
        BY <2>6, <3>1 DEF RevShape
      <4> QED BY <2>1, <2>4, <4>1, <4>3, <4>4, <4>5, <4>6, <4>7, <4>8
    <3>8. LastOK(k)'
      <4>1. r.prior \in Kept' BY <2>3 DEF Kept
      <4>2. r.op = "rename" /\ r.from \in Orderly => flat'[r.from] \in Kept' \union {NoText}
        BY <1>2, <2>4, <3>3, <3>4, <4>1 DEF Calm
      <4>3. r.op = "update" /\ r.prior # NoText /\ r.name \in Orderly =>
                sub[r.name] # NoText \/ (flat[r.name] # NoText /\ mem[r.name] # <<>>)
        BY <2>4, <3>2, <3>3, <3>4
      <4>4. r.op = "delete" /\ r.name \in Orderly => flat[r.name] = r.prior
        BY <2>4, <3>3, <3>4
      <4> QED BY <1>2, <2>6, <3>1, <4>2, <4>3, <4>4 DEF LastOK, Calm, Safe
    <3> QED BY <3>7, <3>8 DEF RevOK
  <2>14. \A i \in DOMAIN journal : RevOK(i)' BY <2>5, RevStays, LastSame
  <2>15. \A i \in DOMAIN journal' : RevOK(i)' BY <2>3, <2>13, <2>14
  <2> QED BY <1>1, <2>7, <2>10, <2>11, <2>12, <2>15, LocalKeeps
<1> QED BY <1>4, <1>5 DEF Journal

(* Steps that change one skill and leave the journal alone.                *)
LEMMA OneName ==
    ASSUME KeepInv, SkillInv', NEW t \in Threads, Busy(t), UNCHANGED <<journal, mixed, late>>,
           NEW n \in Touched(thr[t]), \A m \in Names : m # n => Same(m),
           \A u \in Threads : u # t => thr'[u] = thr[u],
           Busy(t)' => CallOK(t)' /\ Touched(thr'[t]) \subseteq Touched(thr[t]),
           \A m \in Touched(thr[t]) : m # n /\ m \in Orderly /\ Changing(t, m) /\ ~Changing(t, m)' =>
               Rest(m)',
           n \in Orderly /\ ~Changing(t, n)' => Rest(n)',
           sub'[n] = NoText => Len(mem'[n]) <= 1,
           \A i \in DOMAIN journal : LastOf(i) /\ LastOK(i) => LastOK(i)'
    PROVE  KeepInv'
<1>1. Grows BY DEF Grows
<1>2. Orderly' = Orderly BY DEF Orderly
<1>3. Touched(thr[t]) \subseteq Names BY NamesTouched
<1>4. Local(t) BY <1>1, <1>3 DEF Local
<1>5. ASSUME NEW m \in Touched(thr[t]), m \in Orderly', ~Changing(t, m)' PROVE Rest(m)'
  <2>1. CASE m = n BY <1>2, <1>5, <2>1
  <2>2. CASE m # n /\ Changing(t, m) BY <1>2, <1>5, <2>2
  <2>3. CASE m # n /\ ~Changing(t, m)
    <3>1. Rest(m) /\ Same(m) BY <1>2, <1>3, <1>5, <2>3, Resting
    <3> QED BY <1>1, <3>1, RestStays
  <2> QED BY <2>1, <2>2, <2>3
<1>6. \A m \in Touched(thr[t]) : sub'[m] = NoText => Len(mem'[m]) <= 1
  BY <1>3 DEF KeepInv, Short, Same
<1>7. \A i \in DOMAIN journal' : RevOK(i)' BY <1>1, RevStays
<1> QED BY <1>4, <1>5, <1>6, <1>7, LocalKeeps

LEMMA PriorKept ==
    ASSUME KeepInv, NEW t \in Threads, Busy(t), thr[t].pc \in Past PROVE thr[t].prior \in Kept
BY DEF KeepInv, CallOK, OwnOK, Owns, Kept

(* A file that a call writes or removes: of the last revisions only its    *)
(* own can be about it.                                                    *)
LEMMA FileLast ==
    ASSUME KeepInv, NEW t \in Threads, Busy(t), thr[t].pc \in Past,
           UNCHANGED <<journal, mixed, late>>,
           NEW n \in Touched(thr[t]), \A m \in Names : m # n => Same(m),
           NEW i \in DOMAIN journal, LastOf(i), LastOK(i),
           /\ n \in Orderly
           /\ journal[i].op = thr[t].task /\ journal[i].prior = thr[t].prior
           /\ journal[i].name = thr[t].name /\ journal[i].from = thr[t].from
           => LastOK(i)'
    PROVE  LastOK(i)'
<1>1. Grows BY DEF Grows
<1>2. Touched(journal[i]) \subseteq Names
  <2>1. journal[i] \in Revisions BY DEF KeepInv, SkillInv, SkillTypeOK
  <2> QED BY <2>1 DEF Revisions, Touched
<1>3. Orderly' = Orderly BY DEF Orderly
<1>4. CASE n \in Touched(journal[i]) /\ n \in Orderly
  <2>1. n \notin mixed BY <1>4 DEF Orderly
  <2> QED BY <1>4, <2>1, OwnsLast
<1>5. CASE ~(n \in Touched(journal[i]) /\ n \in Orderly)
  <2>1. \A m \in Touched(journal[i]) : m \in Orderly' => Same(m) BY <1>2, <1>3, <1>5
  <2> QED BY <1>1, <2>1, LastSame
<1> QED BY <1>4, <1>5

(* A skill that is served stays so.                                        *)
LEMMA ServedLast ==
    ASSUME UNCHANGED <<flat, sub, journal, mixed, late>>,
           \A m \in Names : mem[m] # <<>> => mem'[m] # <<>>,
           NEW i \in DOMAIN journal, journal[i].name \in Names, LastOK(i)
    PROVE  LastOK(i)'
<1>1. Orderly' = Orderly /\ Kept' = Kept BY DEF Orderly, Kept
<1>2. Safe(journal[i].from) => flat'[journal[i].from] \in Kept' \union {NoText}
  BY <1>1 DEF Safe
<1> QED BY <1>1, <1>2 DEF LastOK, Safe

LEMMA WriteKeeps == ASSUME KeepInv, SkillInv', NEW t \in Threads, Write(t) PROVE KeepInv'
<1>1. Busy(t) /\ thr[t].pc = "write" /\ thr[t].pc \in Past BY DEF Write, Past
<1>2. \A n : ~Changing(t, n) BY <1>1 DEF Changing, Written, Forgetting
<1>3. UNCHANGED <<sub, mem, journal, mixed, late>> BY DEF Write, odd
<1>4. CASE Return(t) /\ UNCHANGED <<flat, hist>>
  BY <1>1, <1>2, <1>3, <1>4, ReturnEnds, CalmEnd DEF Calm, hist
<1>5. CASE /\ flat' = [flat EXCEPT ![thr[t].name] = thr[t].text]
           /\ left' = left \ {thr[t].name} /\ Advance(t)
  <2>1. PICK n : n = thr[t].name OBVIOUS
  <2>2. n \in Names /\ n \in Touched(thr[t]) /\ thr[t].from \in Names
    BY <1>1, <2>1, NamesTouched
  <2>3. /\ flat'[n] = thr[t].text /\ n \notin left' /\ \A m \in Names : m # n => Same(m)
    BY <1>3, <1>5, <2>1, <2>2 DEF Same, KeepInv, SkillInv, SkillTypeOK
  <2>4. PICK next : next = Following(thr[t].task, "write") OBVIOUS
  <2>5. /\ thr[t].task \in {"create", "update", "rename"}
        /\ thr[t].task = "create" <=> next = "append"
        /\ thr[t].task = "update" <=> next = "replace"
        /\ thr[t].task = "rename" <=> next = "unlink"
        /\ next \in {"append", "replace", "unlink"}
    BY <1>1, <2>4, NamesTouched DEF PcsOf, Jobs, Tasks, Following
  <2>6. Goes(t, next) BY <1>1, <1>5, <2>4, <2>5, AdvanceGoes
  <2>7. CallOK(t) /\ ShapeOK(t) BY <1>1 DEF KeepInv, CallOK
  <2>8. /\ Touched(thr'[t]) = Touched(thr[t]) /\ Source(t)' = Source(t)
        /\ GoalNames(t)' = GoalNames(t) /\ Orderly' = Orderly /\ thr'[t].name = n
    BY <1>3, <2>1, <2>6, GoesTouches DEF Orderly, Goes
  <2>9. n \in Orderly => NameOK(t)
    BY <2>1, <2>7 DEF CallOK
  <2>10. CallOK(t)'
    <3>1. ShapeOK(t)' /\ OwnOK(t)' BY <1>1, <1>3, <2>6, GoesKeeps
    <3>2. n \in Orderly => NameOK(t)'
      BY <1>3, <2>1, <2>3, <2>5, <2>6, <2>9 DEF NameOK, Written, Goes, Kept
    <3>3. ASSUME Source(t) \in Orderly PROVE SourceOK(t)'
      <4>1. SourceOK(t) BY <2>7, <3>3 DEF CallOK
      <4>2. ASSUME thr[t].task = "rename" PROVE thr[t].prior = flat'[Source(t)]
        <5>1. Source(t) = thr[t].from /\ thr[t].from # n
          BY <2>1, <2>7, <4>2 DEF Source, ShapeOK
        <5> QED BY <1>1, <2>2, <2>3, <4>1, <4>2, <5>1 DEF SourceOK, Same
      <4> QED BY <2>5, <2>6, <2>8, <4>2 DEF SourceOK, Goes
    <3>4. GoalNames(t) \subseteq Orderly => GoalOK(t)'
      BY <2>5, <2>6, <2>7 DEF CallOK, GoalOK, Goes
    <3> QED BY <2>8, <3>1, <3>2, <3>3, <3>4 DEF CallOK
  <2>11. Changing(t, n)' BY <2>1, <2>5, <2>6 DEF Changing, Written, Goes
  <2>12. sub'[n] = NoText => Len(mem'[n]) <= 1 BY <1>3, <2>2 DEF KeepInv, Short
  <2>13. ASSUME NEW i \in DOMAIN journal, LastOf(i), LastOK(i) PROVE LastOK(i)'
    <3>1. ASSUME /\ n \in Orderly
                 /\ journal[i].op = thr[t].task /\ journal[i].prior = thr[t].prior
                 /\ journal[i].name = thr[t].name /\ journal[i].from = thr[t].from
          PROVE  LastOK(i)'
      <4>1. journal'[i] = journal[i] /\ Kept' = Kept BY <1>3 DEF Kept
      <4>2. ASSUME thr[t].task = "rename", thr[t].from \in Orderly
            PROVE  flat'[thr[t].from] \in Kept' \union {NoText}
        <5>1. Safe(thr[t].from) /\ thr[t].from # n
          BY <2>1, <2>7, <2>13, <3>1, <4>2 DEF LastOK, ShapeOK
        <5> QED BY <2>2, <2>3, <4>1, <5>1 DEF Safe, Same
      <4>3. thr[t].task = "update" =>
                sub'[n] # NoText \/ (flat'[n] # NoText /\ mem'[n] # <<>>)
        BY <1>3, <2>3, <2>7, <2>9, <3>1, <2>1 DEF NameOK, ShapeOK
      <4> QED BY <2>1, <2>5, <2>8, <3>1, <4>1, <4>2, <4>3 DEF LastOK, Safe
    <3> QED BY <1>1, <1>3, <2>2, <2>3, <2>13, <3>1, FileLast
  <2> QED BY <1>1, <1>2, <1>3, <2>2, <2>3, <2>6, <2>8, <2>10, <2>11, <2>12, <2>13, OneName DEF Goes
<1> QED BY <1>4, <1>5 DEF Write

LEMMA UnlinkKeeps == ASSUME KeepInv, SkillInv', NEW t \in Threads, Unlink(t) PROVE KeepInv'
<1>1. Busy(t) /\ thr[t].pc = "unlink" /\ thr[t].pc \in Past BY DEF Unlink, Past
<1>2. UNCHANGED <<sub, mem, journal, mixed, late>> BY DEF Unlink, odd
<1>3. CASE /\ thr[t].task = "delete" /\ Return(t) /\ UNCHANGED <<flat, left>>
  <2>1. \A n : ~Changing(t, n) BY <1>1, <1>3 DEF Changing, Written, Forgetting
  <2> QED BY <1>1, <1>2, <1>3, <2>1, ReturnEnds, CalmEnd DEF Calm
<1>4. CASE ~(thr[t].task = "delete" /\ Return(t) /\ UNCHANGED <<flat, left>>)
  <2>1. PICK n : n = Source(t) OBVIOUS
  <2>2. n \in Names /\ n \in Touched(thr[t]) /\ thr[t].name \in Names
    BY <1>1, <2>1, NamesTouched
  <2>3. thr[t].task \in {"rename", "delete"}
    BY <1>1, NamesTouched DEF PcsOf, Jobs, Tasks
  <2>4. CallOK(t) /\ ShapeOK(t) /\ OwnOK(t) BY <1>1 DEF KeepInv, CallOK
  <2>5. /\ thr[t].task = "rename" => n = thr[t].from /\ n # thr[t].name
        /\ thr[t].task = "delete" => n = thr[t].name /\ n = thr[t].from
    BY <2>1, <2>3, <2>4 DEF Source, ShapeOK
  <2>6. /\ \A u \in Threads : u # t => thr'[u] = thr[u]
        /\ thr'[t].pc = "forget" /\ thr'[t].task = thr[t].task /\ thr'[t].name = thr[t].name
        /\ thr'[t].from = thr[t].from /\ thr'[t].text = thr[t].text /\ thr'[t].prior = thr[t].prior
        /\ thr'[t].goal = thr[t].goal \/ thr'[t].goal = {}
        /\ \A m \in Names : m # n => Same(m)
        /\ \/ flat'[n] = NoText /\ n \notin left'
           \/ flat' = flat /\ n \in left' /\ thr[t].task = "rename" /\ thr'[t].goal = {}
    <3>1. CASE /\ flat' = [flat EXCEPT ![n] = NoText] /\ left' = left \ {n} /\ Advance(t)
      <4>1. Goes(t, "forget")
        BY <1>1, <3>1, AdvanceGoes DEF Following
      <4>2. flat'[n] = NoText /\ n \notin left' /\ \A m \in Names : m # n => Same(m)
        BY <1>2, <2>2, <3>1 DEF Same, KeepInv, SkillInv, SkillTypeOK
      <4> QED BY <4>1, <4>2 DEF Goes
    <3>2. CASE /\ thr[t].task = "rename" /\ left' = left \union {n} /\ UNCHANGED flat
               /\ thr' = [thr EXCEPT ![t].pc = "forget", ![t].goal = {}]
      <4>1. thr \in [Threads -> Jobs] BY DEF KeepInv, SkillInv, SkillTypeOK
      <4>2. /\ thr'[t] = [thr[t] EXCEPT !.pc = "forget", !.goal = {}]
            /\ \A u \in Threads : u # t => thr'[u] = thr[u]
        BY <3>2, <4>1
      <4>3. \A m \in Names : m # n => Same(m) BY <1>2, <3>2 DEF Same
      <4> QED BY <3>2, <4>1, <4>2, <4>3 DEF Jobs
    <3> QED BY <1>4, <2>1, <3>1, <3>2 DEF Unlink
  <2>7. /\ Touched(thr'[t]) = Touched(thr[t]) /\ Source(t)' = n /\ Orderly' = Orderly
        /\ Kept' = Kept /\ GoalNames(t)' \subseteq GoalNames(t)
    BY <1>2, <2>1, <2>6 DEF Touched, Source, Orderly, Kept, GoalNames
  <2>8. n \in Orderly => flat'[n] \in Kept' \union {NoText}
    <3>1. thr[t].prior \in Kept BY <1>1, PriorKept
    <3> QED BY <1>1, <2>1, <2>3, <2>4, <2>6, <2>7, <3>1 DEF CallOK, SourceOK
  <2>9. CallOK(t)'
    <3>1. ShapeOK(t)' BY <2>3, <2>4, <2>6 DEF ShapeOK
    <3>2. OwnOK(t)'
      <4>1. PICK k \in DOMAIN journal : Owns(t, k) BY <1>1, <2>4 DEF OwnOK
      <4>2. Owns(t, k)' BY <1>2, <2>6, <2>7, <4>1 DEF Owns
      <4> QED BY <1>2, <4>2 DEF OwnOK
    <3>3. ASSUME thr[t].name \in Orderly PROVE NameOK(t)'
      <4>1. NameOK(t) BY <2>4, <3>3 DEF CallOK
      <4>2. thr[t].task = "rename" =>
                flat'[thr[t].name] = thr[t].text /\ thr[t].name \notin left'
        BY <1>1, <2>2, <2>5, <2>6, <4>1 DEF NameOK, Written, Same
      <4> QED BY <2>3, <2>6, <4>2 DEF NameOK, Written
    <3>4. ASSUME n \in Orderly PROVE SourceOK(t)'
      <4>1. \/ n \notin left' /\ flat'[n] = NoText
            \/ n \in left' /\ thr[t].task = "rename" /\ thr'[t].goal = {}
        BY <2>6
      <4> QED BY <2>6, <2>7, <2>8, <3>4, <4>1 DEF SourceOK, Safe
    <3>5. ASSUME GoalNames(t)' \subseteq Orderly PROVE GoalOK(t)'
      <4>1. thr'[t].goal # {} => GoalNames(t) \subseteq Orderly
        BY <2>6, <3>5 DEF GoalNames
      <4>2. thr'[t].goal # {} => GoalOK(t) BY <2>4, <4>1 DEF CallOK
      <4> QED BY <2>3, <2>6, <4>2 DEF GoalOK
    <3> QED BY <2>6, <2>7, <3>1, <3>2, <3>3, <3>4, <3>5 DEF CallOK
  <2>10. /\ Changing(t, n)'
         /\ \A m \in Touched(thr[t]) : m # n /\ Changing(t, m) => Changing(t, m)'
    BY <1>1, <2>3, <2>6, <2>7 DEF Changing, Written, Forgetting
  <2>11. sub'[n] = NoText => Len(mem'[n]) <= 1 BY <1>2, <2>2 DEF KeepInv, Short
  <2>12. ASSUME NEW i \in DOMAIN journal, LastOf(i), LastOK(i) PROVE LastOK(i)'
    <3>1. ASSUME /\ n \in Orderly
                 /\ journal[i].op = thr[t].task /\ journal[i].prior = thr[t].prior
                 /\ journal[i].name = thr[t].name /\ journal[i].from = thr[t].from
          PROVE  LastOK(i)'
      <4>1. journal'[i] = journal[i] BY <1>2
      <4> QED BY <2>3, <2>5, <2>6, <2>7, <2>8, <3>1, <4>1 DEF LastOK, Safe
    <3> QED BY <1>1, <1>2, <2>2, <2>6, <2>12, <3>1, FileLast
  <2> QED BY <1>1, <1>2, <2>2, <2>6, <2>7, <2>9, <2>10, <2>11, <2>12, OneName
<1> QED BY <1>3, <1>4

(* Steps of the engine's list.                                             *)
LEMMA MemStep ==
    ASSUME KeepInv, SkillInv', NEW t \in Threads, Busy(t),
           UNCHANGED <<flat, sub, left, journal, mixed, late>>,
           NEW n \in Touched(thr[t]), NEW list, mem' = [mem EXCEPT ![n] = list]
    PROVE  /\ n \in Names /\ mem'[n] = list /\ \A m \in Names : m # n => Same(m)
           /\ Orderly' = Orderly /\ Kept' = Kept /\ Loaded(n)' = Loaded(n)
<1>1. n \in Names BY NamesTouched
<1>2. mem'[n] = list /\ \A m \in Names : m # n => mem'[m] = mem[m]
  BY <1>1 DEF KeepInv, SkillInv, SkillTypeOK
<1> QED BY <1>1, <1>2 DEF Same, Orderly, Kept, Loaded

LEMMA RevNames ==
    ASSUME KeepInv, NEW i \in DOMAIN journal
    PROVE  /\ journal[i].name \in Names /\ journal[i].from \in Names
           /\ Touched(journal[i]) = {journal[i].name, journal[i].from}
           /\ journal[i].prior \in Text
<1>1. journal[i] \in Revisions BY DEF KeepInv, SkillInv, SkillTypeOK
<1> QED BY <1>1 DEF Revisions, Touched

LEMMA ForgetKeeps == ASSUME KeepInv, SkillInv', NEW t \in Threads, Forget(t) PROVE KeepInv'
<1>1. Busy(t) /\ thr[t].pc = "forget" /\ thr[t].pc \in Past BY DEF Forget, Past
<1>2. UNCHANGED <<flat, sub, left, journal, mixed, late>> BY DEF Forget, disk, hist, odd
<1>3. PICK n : n = Source(t) OBVIOUS
<1>4. n \in Touched(thr[t]) /\ thr[t].name \in Names BY <1>1, <1>3, NamesTouched
<1>5. PICK list : list = IF mem[n] = <<>> THEN mem[n] ELSE Tail(mem[n]) OBVIOUS
<1>6. mem' = [mem EXCEPT ![n] = list] BY <1>3, <1>5 DEF Forget
<1>7. /\ n \in Names /\ mem'[n] = list /\ \A m \in Names : m # n => Same(m)
      /\ Orderly' = Orderly /\ Kept' = Kept /\ Loaded(n)' = Loaded(n)
  BY <1>1, <1>2, <1>4, <1>6, MemStep
<1>8. thr[t].task \in {"rename", "delete"} BY <1>1, NamesTouched DEF PcsOf, Jobs, Tasks
<1>9. CallOK(t) /\ ShapeOK(t) BY <1>1 DEF KeepInv, CallOK
<1>10. /\ thr[t].task = "rename" => n = thr[t].from /\ n # thr[t].name
       /\ thr[t].task = "delete" => n = thr[t].name /\ n = thr[t].from
  BY <1>3, <1>8, <1>9 DEF Source, ShapeOK
<1>11. sub[n] = NoText => list = <<>>
  <2>1. mem[n] \in Seq(Entries) BY <1>7 DEF KeepInv, SkillInv, SkillTypeOK
  <2>2. sub[n] = NoText => Len(mem[n]) <= 1 BY <1>7 DEF KeepInv, Short
  <2> QED BY <1>5, <2>1, <2>2
<1>12. n \in Orderly => SourceOK(t) BY <1>3, <1>9 DEF CallOK
<1>13. ASSUME n \in Orderly PROVE Rest(n)'
  <2>1. Safe(n)' BY <1>1, <1>2, <1>3, <1>7, <1>12, <1>13 DEF SourceOK, Safe
  <2>2. n \in left \/ flat[n] = NoText BY <1>1, <1>3, <1>12, <1>13 DEF SourceOK
  <2>3. sub[n] = NoText /\ n \notin left => Loaded(n) = <<>> BY <2>2 DEF Loaded
  <2> QED BY <1>2, <1>7, <1>11, <2>1, <2>3 DEF Rest
<1>14. \/ thr[t].task = "delete" /\ Ends(t)
       \/ thr[t].task = "rename" /\ Goes(t, "append")
  <2>1. Advance(t) BY DEF Forget
  <2> QED BY <1>1, <1>8, <2>1, AdvanceGoes DEF Following
<1>15. ASSUME Goes(t, "append"), thr[t].task = "rename"
       PROVE  CallOK(t)' /\ Touched(thr'[t]) = Touched(thr[t])
              /\ \A m : m # n /\ Changing(t, m) => Changing(t, m)'
  <2>1. /\ Touched(thr'[t]) = Touched(thr[t]) /\ Source(t)' = Source(t)
        /\ GoalNames(t)' = GoalNames(t) /\ thr'[t].name = thr[t].name
    BY <1>15, GoesTouches DEF Goes
  <2>2. ShapeOK(t)' /\ OwnOK(t)' BY <1>1, <1>2, <1>15, GoesKeeps
  <2>3. thr[t].name \in Orderly => NameOK(t)'
    BY <1>1, <1>2, <1>9, <1>15 DEF CallOK, NameOK, Written, Goes
  <2>4. n \in Orderly => SourceOK(t)'
    BY <1>1, <1>2, <1>3, <1>12, <1>15, <2>1 DEF SourceOK, Goes
  <2>5. GoalNames(t) \subseteq Orderly => GoalOK(t)'
    BY <1>9, <1>15 DEF CallOK, GoalOK, Goes
  <2>6. \A m : m # n /\ Changing(t, m) => Changing(t, m)'
    BY <1>1, <1>3, <1>15 DEF Changing, Written, Forgetting, Goes
  <2> QED BY <1>3, <1>7, <2>1, <2>2, <2>3, <2>4, <2>5, <2>6 DEF CallOK
<1>16. ASSUME NEW i \in DOMAIN journal, LastOf(i), LastOK(i) PROVE LastOK(i)'
  <2>1. ASSUME journal[i].op = thr[t].task PROVE LastOK(i)'
    <3>1. journal'[i] = journal[i] BY <1>2
    <3> QED BY <1>2, <1>7, <1>8, <1>16, <2>1, <3>1 DEF LastOK, Safe
  <2> QED BY <1>1, <1>2, <1>4, <1>7, <1>16, <2>1, FileLast
<1>17. sub'[n] = NoText => Len(mem'[n]) <= 1 BY <1>2, <1>7, <1>11
<1>18. CASE Ends(t) /\ thr[t].task = "delete"
  <2>1. \A m \in Touched(thr[t]) : m = n BY <1>1, <1>10, <1>18, NamesTouched
  <2>2. \A u \in Threads : u # t => thr'[u] = thr[u] BY <1>18 DEF Ends
  <2> QED BY <1>1, <1>2, <1>4, <1>7, <1>13, <1>16, <1>17, <1>18, <2>1, <2>2, EndsCalls, OneName
<1>19. CASE Goes(t, "append") /\ thr[t].task = "rename"
  <2>1. \A u \in Threads : u # t => thr'[u] = thr[u] BY <1>19 DEF Goes
  <2> QED BY <1>1, <1>2, <1>4, <1>7, <1>13, <1>15, <1>16, <1>17, <1>19, <2>1, OneName
<1> QED BY <1>14, <1>18, <1>19

(* A call that ends with what it has to say to the engine.                 *)
LEMMA LastWord ==
    ASSUME KeepInv, SkillInv', NEW t \in Threads, Busy(t), Ends(t),
           UNCHANGED <<flat, sub, left, journal, mixed, late>>,
           NEW list, mem' = [mem EXCEPT ![thr[t].name] = list],
           mem[thr[t].name] # <<>> => list # <<>>,
           sub[thr[t].name] = NoText => Len(list) <= 1,
           thr[t].name \in Orderly =>
               /\ sub[thr[t].name] = NoText =>
                     thr[t].name \notin left /\ list = Loaded(thr[t].name)
               /\ list = <<>> => Safe(thr[t].name),
           ~Forgetting(t, Source(t)), \A m : Written(t, m) => m = thr[t].name
    PROVE  KeepInv'
<1>1. PICK n : n = thr[t].name OBVIOUS
<1>2. n \in Touched(thr[t]) BY <1>1, NamesTouched
<1>3. /\ n \in Names /\ mem'[n] = list /\ \A m \in Names : m # n => Same(m)
      /\ Orderly' = Orderly /\ Kept' = Kept /\ Loaded(n)' = Loaded(n)
  BY <1>1, <1>2, MemStep
<1>4. n \in Orderly => Rest(n)' BY <1>1, <1>3 DEF Rest, Safe
<1>5. \A m : m # n => ~Changing(t, m) BY <1>1 DEF Changing, Forgetting
<1>6. sub'[n] = NoText => Len(mem'[n]) <= 1 BY <1>1, <1>3
<1>7. ASSUME NEW i \in DOMAIN journal, LastOK(i) PROVE LastOK(i)'
  <2>1. \A m \in Names : mem[m] # <<>> => mem'[m] # <<>> BY <1>1, <1>3 DEF Same
  <2> QED BY <1>7, <2>1, RevNames, ServedLast
<1>8. \A u \in Threads : u # t => thr'[u] = thr[u] BY DEF Ends
<1> QED BY <1>2, <1>3, <1>4, <1>5, <1>6, <1>7, <1>8, EndsCalls, OneName

LEMMA AppendKeeps == ASSUME KeepInv, SkillInv', NEW t \in Threads, AppendSkill(t) PROVE KeepInv'
<1>1. Busy(t) /\ thr[t].pc = "append" BY DEF AppendSkill
<1>2. UNCHANGED <<flat, sub, left, journal, mixed, late>> BY DEF AppendSkill, disk, hist, odd
<1>3. thr[t].task \in {"create", "rename"} BY <1>1, NamesTouched DEF PcsOf, Jobs, Tasks
<1>4. PICK n : n = thr[t].name OBVIOUS
<1>5. PICK list : list = <<Entry(thr[t].text, FALSE)>> OBVIOUS
<1>6. mem' = [mem EXCEPT ![n] = list] BY <1>4, <1>5 DEF AppendSkill
<1>7. Ends(t)
  <2>1. Advance(t) BY DEF AppendSkill
  <2> QED BY <1>1, <2>1, AdvanceGoes DEF Following
<1>8. ASSUME n \in Orderly, sub[n] = NoText PROVE n \notin left /\ list = Loaded(n)
  <2>1. NameOK(t) /\ ShapeOK(t) BY <1>1, <1>4, <1>8 DEF KeepInv, CallOK
  <2>2. Written(t, n) BY <1>1, <1>3, <1>4 DEF Written
  <2>3. flat[n] = thr[t].text /\ n \notin left BY <1>4, <2>1, <2>2 DEF NameOK
  <2>4. thr[t].text # NoText BY <1>3, <2>1 DEF ShapeOK
  <2>5. Loaded(n) = <<>> \o <<Entry(flat[n], FALSE)>> BY <1>8, <2>3, <2>4 DEF Loaded
  <2> QED BY <1>5, <2>3, <2>5
<1>9. list # <<>> /\ Len(list) <= 1 BY <1>5
<1>10. ~Forgetting(t, Source(t)) /\ \A m : Written(t, m) => m = n
  BY <1>1, <1>4 DEF Forgetting, Written
<1> QED BY <1>1, <1>2, <1>4, <1>6, <1>7, <1>8, <1>9, <1>10, LastWord

LEMMA ListOfOne ==
    ASSUME KeepInv, NEW n \in Names, NEW e,
           NEW list, list = IF mem[n] = <<>> THEN mem[n] ELSE <<e>> \o Tail(mem[n])
    PROVE  /\ list = <<>> <=> mem[n] = <<>>
           /\ sub[n] = NoText => Len(list) <= 1 /\ (mem[n] # <<>> => list = <<e>>)
<1>1. mem[n] \in Seq(Entries) BY DEF KeepInv, SkillInv, SkillTypeOK
<1>2. mem[n] # <<>> => Tail(mem[n]) \in Seq(Entries) /\ Len(Tail(mem[n])) = Len(mem[n]) - 1
                       /\ Len(mem[n]) >= 1
  BY <1>1
<1>3. sub[n] = NoText => Len(mem[n]) <= 1 BY DEF KeepInv, Short
<1>4. sub[n] = NoText /\ mem[n] # <<>> => Tail(mem[n]) = <<>> BY <1>2, <1>3
<1>5. Len(<<e>>) = 1 /\ <<e>> # <<>> /\ <<e>> \o <<>> = <<e>> OBVIOUS
<1>6. mem[n] # <<>> => <<e>> \o Tail(mem[n]) # <<>>
  <2> SUFFICES ASSUME mem[n] # <<>> PROVE Len(<<e>> \o Tail(mem[n])) # 0
    OBVIOUS
  <2>1. <<e>> \in Seq({e}) /\ Tail(mem[n]) \in Seq(Entries) BY <1>2
  <2>2. <<e>> \in Seq({e} \union Entries) /\ Tail(mem[n]) \in Seq({e} \union Entries)
    BY <2>1
  <2>3. Len(<<e>> \o Tail(mem[n])) = 1 + Len(Tail(mem[n])) BY <2>2
  <2> QED BY <1>2, <2>3
<1>7. CASE mem[n] = <<>> BY <1>3, <1>7
<1>8. CASE mem[n] # <<>>
  <2>1. list = <<e>> \o Tail(mem[n]) BY <1>8
  <2>2. list # <<>> BY <1>6, <1>8, <2>1
  <2>3. sub[n] = NoText => list = <<e>> BY <1>4, <1>5, <1>8, <2>1
  <2>4. sub[n] = NoText => Len(list) <= 1 BY <1>5, <2>3
  <2> QED BY <1>8, <2>2, <2>3, <2>4
<1> QED BY <1>7, <1>8

LEMMA ReplaceKeeps == ASSUME KeepInv, SkillInv', NEW t \in Threads, Replace(t) PROVE KeepInv'
<1>1. Busy(t) /\ thr[t].pc = "replace" BY DEF Replace
<1>2. UNCHANGED <<flat, sub, left, journal, mixed, late>> BY DEF Replace, disk, hist, odd
<1>3. thr[t].task = "update" BY <1>1, NamesTouched DEF PcsOf, Jobs, Tasks
<1>4. PICK n : n = thr[t].name OBVIOUS
<1>5. PICK e : e = Entry(thr[t].text, FALSE) OBVIOUS
<1>6. PICK list : list = IF mem[n] = <<>> THEN mem[n] ELSE <<e>> \o Tail(mem[n]) OBVIOUS
<1>7. mem' = [mem EXCEPT ![n] = list] BY <1>4, <1>5, <1>6 DEF Replace, UpdateSkill
<1>8. Ends(t)
  <2>1. Advance(t) BY DEF Replace
  <2> QED BY <1>1, <2>1, AdvanceGoes DEF Following
<1>9. n \in Names BY <1>1, <1>4, NamesTouched
<1>10. /\ list = <<>> <=> mem[n] = <<>>
       /\ sub[n] = NoText => Len(list) <= 1 /\ (mem[n] # <<>> => list = <<e>>)
  BY <1>6, <1>9, ListOfOne
<1>11. ASSUME n \in Orderly
       PROVE  /\ sub[n] = NoText => n \notin left /\ list = Loaded(n)
              /\ list = <<>> => Safe(n)
  <2>1. NameOK(t) /\ ShapeOK(t) BY <1>1, <1>4, <1>11 DEF KeepInv, CallOK
  <2>2. Written(t, n) BY <1>1, <1>3, <1>4 DEF Written
  <2>3. flat[n] = thr[t].text /\ n \notin left BY <1>4, <2>1, <2>2 DEF NameOK
  <2>4. thr[t].text # NoText BY <1>3, <2>1 DEF ShapeOK
  <2>5. sub[n] = NoText => Loaded(n) = <<>> \o <<Entry(flat[n], FALSE)>> BY <2>3, <2>4 DEF Loaded
  <2>6. sub[n] = NoText => mem[n] # <<>> BY <1>3, <1>4, <2>1 DEF NameOK
  <2>7. mem[n] = <<>> => thr[t].text \in Kept BY <1>3, <1>4, <2>1 DEF NameOK
  <2>8. <<>> \o <<e>> = <<e>> OBVIOUS
  <2> QED BY <1>5, <1>10, <2>3, <2>5, <2>6, <2>7, <2>8 DEF Safe
<1>12. ~Forgetting(t, Source(t)) /\ \A m : Written(t, m) => m = n
  BY <1>1, <1>4 DEF Forgetting, Written
<1> QED BY <1>1, <1>2, <1>4, <1>7, <1>8, <1>10, <1>11, <1>12, LastWord

LEMMA RegisterKeeps == ASSUME KeepInv, SkillInv', NEW t \in Threads, Register(t) PROVE KeepInv'
<1>1. Busy(t) /\ thr[t].pc = "register" /\ Ends(t) BY ReturnEnds DEF Register
<1>2. UNCHANGED <<flat, sub, left, journal, mixed, late>> BY DEF Register, disk, hist, odd
<1>3. \A n : ~Changing(t, n) BY <1>1 DEF Changing, Written, Forgetting
<1>4. CASE UNCHANGED mem BY <1>1, <1>2, <1>3, <1>4, CalmEnd DEF Calm
<1>5. CASE UpdateSkill(t, TRUE)
  <2>1. PICK n : n = thr[t].name OBVIOUS
  <2>2. PICK e : e = Entry(thr[t].text, TRUE) OBVIOUS
  <2>3. PICK list : list = IF mem[n] = <<>> THEN mem[n] ELSE <<e>> \o Tail(mem[n]) OBVIOUS
  <2>4. mem' = [mem EXCEPT ![n] = list] BY <1>5, <2>1, <2>2, <2>3 DEF UpdateSkill
  <2>5. n \in Names /\ n \in Touched(thr[t]) BY <1>1, <2>1, NamesTouched
  <2>6. /\ list = <<>> <=> mem[n] = <<>>
        /\ sub[n] = NoText => Len(list) <= 1 /\ (mem[n] # <<>> => list = <<e>>)
    BY <2>3, <2>5, ListOfOne
  <2>7. ASSUME n \in Orderly
        PROVE  sub[n] # NoText /\ (list = <<>> => Safe(n))
    <3>1. sub[n] # NoText BY <1>1, <2>1, <2>7 DEF KeepInv, CallOK, NameOK
    <3>2. Rest(n) BY <1>1, <1>3, <2>5, <2>7, Resting
    <3> QED BY <2>6, <3>1, <3>2 DEF Rest
  <2>8. ~Forgetting(t, Source(t)) /\ \A m : Written(t, m) => m = n
    BY <1>3 DEF Changing
  <2> QED BY <1>1, <1>2, <2>1, <2>4, <2>6, <2>7, <2>8, LastWord
<1> QED BY <1>4, <1>5 DEF Register

LEMMA ConvertKeeps == ASSUME KeepInv, SkillInv', NEW t \in Threads, Convert(t) PROVE KeepInv'
<1>1. Busy(t) /\ thr[t].pc = "convert" BY DEF Convert
<1>2. UNCHANGED <<mem, left, journal, mixed, late>> BY DEF Convert, hist, odd
<1>3. \A n : ~Changing(t, n) BY <1>1 DEF Changing, Written, Forgetting
<1>4. CASE Return(t) /\ UNCHANGED disk
  BY <1>1, <1>2, <1>3, <1>4, ReturnEnds, CalmEnd DEF Calm, disk
<1>5. CASE /\ sub' = [sub EXCEPT ![thr[t].name] =
                          IF flat[thr[t].name] # NoText THEN flat[thr[t].name] ELSE @]
           /\ flat' = [flat EXCEPT ![thr[t].name] = NoText]
           /\ Advance(t)
  <2>1. PICK n : n = thr[t].name OBVIOUS
  <2>2. n \in Names /\ n \in Touched(thr[t]) BY <1>1, <2>1, NamesTouched
  <2>3. /\ sub'[n] = IF flat[n] # NoText THEN flat[n] ELSE sub[n]
        /\ flat'[n] = NoText /\ \A m \in Names : m # n => Same(m)
    BY <1>2, <1>5, <2>1, <2>2 DEF Same, KeepInv, SkillInv, SkillTypeOK
  <2>4. thr[t].task = "file" BY <1>1, NamesTouched DEF PcsOf, Jobs, Tasks
  <2>5. Goes(t, "register") BY <1>1, <1>5, AdvanceGoes DEF Following
  <2>6. /\ Touched(thr'[t]) = Touched(thr[t]) /\ Source(t)' = Source(t)
        /\ GoalNames(t)' = GoalNames(t) /\ thr'[t].name = n /\ Orderly' = Orderly /\ Kept' = Kept
    BY <1>2, <2>1, <2>5, GoesTouches DEF Goes, Orderly, Kept
  <2>7. ASSUME n \in Orderly PROVE sub'[n] # NoText
    BY <1>1, <2>1, <2>3, <2>7 DEF KeepInv, CallOK, NameOK
  <2>8. CallOK(t)'
    <3>1. ShapeOK(t)' /\ OwnOK(t)' BY <1>1, <1>2, <2>5, GoesKeeps DEF Past
    <3>2. n \in Orderly => NameOK(t)' BY <2>4, <2>5, <2>6, <2>7 DEF NameOK, Written, Goes
    <3>3. SourceOK(t)' BY <2>4, <2>5 DEF SourceOK, Goes
    <3>4. GoalOK(t)' BY <2>4, <2>5 DEF GoalOK, Goes
    <3> QED BY <2>6, <3>1, <3>2, <3>3, <3>4 DEF CallOK
  <2>9. n \in Orderly => Rest(n)' BY <2>3, <2>7 DEF Rest, Safe
  <2>10. sub'[n] = NoText => Len(mem'[n]) <= 1 BY <1>2, <2>2, <2>3 DEF KeepInv, Short
  <2>11. ASSUME NEW i \in DOMAIN journal, LastOK(i) PROVE LastOK(i)'
    <3>1. journal'[i] = journal[i] BY <1>2
    <3>2. \A m \in Touched(journal[i]) : m # n => Same(m) BY <2>3, RevNames
    <3>3. journal[i].name \in Touched(journal[i]) /\ journal[i].from \in Touched(journal[i])
      BY DEF Touched
    <3> QED BY <2>3, <2>6, <2>7, <2>11, <3>1, <3>2, <3>3 DEF LastOK, Safe, Same
  <2>12. \A u \in Threads : u # t => thr'[u] = thr[u] BY <2>5 DEF Goes
  <2> QED BY <1>1, <1>2, <1>3, <2>2, <2>3, <2>6, <2>8, <2>9, <2>10, <2>11, <2>12, OneName
<1> QED BY <1>4, <1>5 DEF Convert

LEMMA UndoIsJob == ASSUME KeepInv, NEW i \in DOMAIN journal PROVE Undoing(journal[i]) \in Jobs
<1>1. PICK r : r = journal[i] OBVIOUS
<1>2. r.name \in Names /\ r.from \in Names /\ r.prior \in Text /\ NoText \in Text
  BY <1>1, RevNames
<1>3. \/ Undoing(r) = Idle
      \/ \E task \in {"create", "update", "rename", "delete"}, n \in Names, m \in Names, x \in Text :
            Undoing(r) = Job(task, n, m, x)
  BY <1>2 DEF Undoing
<1>4. Idle \in Jobs BY IdleValid DEF Valid
<1>5. ASSUME NEW task \in {"create", "update", "rename", "delete"},
             NEW n \in Names, NEW m \in Names, NEW x \in Text
      PROVE  Job(task, n, m, x) \in Jobs
  <2>1. Valid(Job(task, n, m, x)) BY JobOK DEF Tasks
  <2> QED BY <2>1 DEF Valid
<1>6. Undoing(r) \in Jobs BY <1>3, <1>4, <1>5
<1> QED BY <1>1, <1>6

(* The undo of a revision that is the last of its skills finds what the    *)
(* change left, and the journal has what it brings back.                   *)
LEMMA UndoShape ==
    ASSUME KeepInv, NEW i \in DOMAIN journal, NEW j, j = Undoing(journal[i])
    PROVE  /\ Touched(j) \subseteq Touched(journal[i]) \/ j.pc = "idle"
           /\ j.pc \in {"idle", "lock", "prior"}
           /\ \/ j.pc = "idle"
              \/ /\ j.task = "create" /\ j.pc = "lock" /\ journal[i].op = "delete"
                 /\ j.name = journal[i].name /\ j.from = journal[i].name
                 /\ j.text = journal[i].prior /\ journal[i].prior # NoText
              \/ /\ j.task = "update" /\ journal[i].op = "update"
                 /\ j.name = journal[i].name /\ j.from = journal[i].name
                 /\ j.text = journal[i].prior /\ journal[i].prior # NoText
              \/ /\ j.task = "rename" /\ journal[i].op = "rename"
                 /\ j.name = journal[i].from /\ j.from = journal[i].name
                 /\ j.text = journal[i].prior /\ journal[i].prior # NoText
              \/ /\ j.task = "delete"
                 /\ \/ journal[i].op = "create"
                    \/ journal[i].op \in {"update", "rename"} /\ journal[i].prior = NoText
                 /\ j.name = journal[i].name /\ j.from = journal[i].name
<1> DEFINE r == journal[i]
<1>1. r.op \in {"create", "update", "rename", "delete"} BY DEF KeepInv, RevOK, RevShape
<1>2. Touched(r) = {r.name, r.from} BY RevNames
<1> HIDE DEF r
<1>3. j = Undoing(r) BY DEF r
<1>4. CASE r.op = "delete" /\ r.prior # NoText
  <2>1. j = Job("create", r.name, r.name, r.prior) BY <1>3, <1>4 DEF Undoing
  <2>2. /\ j.task = "create" /\ j.pc = "lock" /\ j.name = r.name /\ j.from = r.name
        /\ j.text = r.prior
    BY <2>1 DEF Job, Idle, First
  <2>3. Touched(j) \subseteq Touched(r) BY <1>2, <2>2 DEF Touched
  <2> QED BY <1>4, <2>2, <2>3 DEF r
<1>5. CASE r.op = "delete" /\ r.prior = NoText
  BY <1>3, <1>5 DEF Undoing, Idle
<1>6. CASE r.op = "update" /\ r.prior # NoText
  <2>1. j = Job("update", r.name, r.name, r.prior) BY <1>3, <1>6 DEF Undoing
  <2>2. /\ j.task = "update" /\ j.pc = "prior" /\ j.name = r.name /\ j.from = r.name
        /\ j.text = r.prior
    BY <2>1 DEF Job, Idle, First
  <2>3. Touched(j) \subseteq Touched(r) BY <1>2, <2>2 DEF Touched
  <2> QED BY <1>6, <2>2, <2>3 DEF r
<1>7. CASE r.op = "rename" /\ r.prior # NoText
  <2>1. j = Job("rename", r.from, r.name, r.prior) BY <1>3, <1>7 DEF Undoing
  <2>2. /\ j.task = "rename" /\ j.pc = "prior" /\ j.name = r.from /\ j.from = r.name
        /\ j.text = r.prior
    BY <2>1 DEF Job, Idle, First
  <2>3. Touched(j) \subseteq Touched(r) BY <1>2, <2>2 DEF Touched
  <2> QED BY <1>7, <2>2, <2>3 DEF r
<1>8. CASE r.op = "create" \/ (r.op \in {"update", "rename"} /\ r.prior = NoText)
  <2>1. j = Job("delete", r.name, r.name, NoText) BY <1>3, <1>8 DEF Undoing
  <2>2. /\ j.task = "delete" /\ j.pc = "prior" /\ j.name = r.name /\ j.from = r.name
    BY <2>1 DEF Job, Idle, First
  <2>3. Touched(j) \subseteq Touched(r) BY <1>2, <2>2 DEF Touched
  <2> QED BY <1>8, <2>2, <2>3 DEF r
<1> QED BY <1>1, <1>4, <1>5, <1>6, <1>7, <1>8 DEF r

LEMMA GoalShape ==
    ASSUME KeepInv, NEW i \in DOMAIN journal, NEW p \in Goal(i)
    PROVE  /\ LastOf(i) /\ p \in journal[i].was
           /\ p[1] \in Touched(journal[i]) /\ p = <<p[1], p[2]>>
           /\ journal[i].op = "rename" =>
                  journal[i].prior # NoText /\ (p[1] = journal[i].name => p[2] = NoText)
<1>1. LastOf(i) /\ Recorded(journal[i]) /\ p \in journal[i].was BY DEF Goal
<1>2. RevShape(i) BY DEF KeepInv, RevOK
<1>3. PICK n \in Touched(journal[i]), x \in Text : p = <<n, x>> BY <1>1, <1>2 DEF RevShape
<1>4. ASSUME journal[i].op = "rename", p[1] = journal[i].name PROVE p[2] = NoText
  <2>1. PICK q : q = <<journal[i].name, NoText>> OBVIOUS
  <2>2. q \in journal[i].was /\ q[1] = p[1] /\ q[2] = NoText
    BY <1>1, <1>4, <2>1 DEF Recorded
  <2> QED BY <1>1, <1>2, <2>2 DEF RevShape
<1> QED BY <1>1, <1>3, <1>4 DEF Recorded

LEMMA ClaimKeeps == ASSUME KeepInv, SkillInv', NEW t \in Threads, Claim(t) PROVE KeepInv'
<1>1. Busy(t) /\ thr[t].pc = "claim" BY DEF Claim
<1>2. UNCHANGED <<flat, sub, mem, left, mixed>> BY DEF Claim, disk, hist
<1>3. \A n : ~Changing(t, n) BY <1>1 DEF Changing, Written, Forgetting
<1>4. CASE Return(t) /\ UNCHANGED <<journal, late>>
  BY <1>1, <1>2, <1>3, <1>4, ReturnEnds, CalmEnd DEF Calm
<1>5. CASE ~(Return(t) /\ UNCHANGED <<journal, late>>)
  <2>1. PICK i : i = thr[t].rev OBVIOUS
  <2>2. PICK j : j = Undoing(journal[i]) OBVIOUS
  <2>3. i \in DOMAIN journal BY <1>1, <2>1 DEF KeepInv, SkillInv, SkillTypeOK
  <2>4. /\ journal' = [journal EXCEPT ![i].armed = FALSE, ![i].undone = @ + 1]
        /\ thr' = [thr EXCEPT ![t] = [j EXCEPT !.goal = Goal(i)]]
        /\ late' = IF LastOf(i) THEN late ELSE late \union Touched(journal[i])
    BY <1>5, <2>1, <2>2 DEF Claim
  <2>5. /\ journal'[i] = [journal[i] EXCEPT !.armed = FALSE, !.undone = @ + 1]
        /\ DOMAIN journal' = DOMAIN journal
        /\ \A m \in DOMAIN journal : m # i => journal'[m] = journal[m]
    BY <2>3, <2>4
  <2>6. /\ journal'[i].op = journal[i].op /\ journal'[i].prior = journal[i].prior
        /\ journal'[i].name = journal[i].name /\ journal'[i].from = journal[i].from
        /\ journal'[i].was = journal[i].was
    <3>1. journal[i] \in Revisions BY <2>3 DEF KeepInv, SkillInv, SkillTypeOK
    <3> QED BY <2>5, <3>1 DEF Revisions
  <2>7. Grows /\ \A n : Same(n) BY <1>2, <2>4, <2>5, <2>6 DEF Grows, Same
  <2>8. /\ \A u \in Threads : u # t => thr'[u] = thr[u]
        /\ thr'[t] = [j EXCEPT !.goal = Goal(i)]
    BY <2>4 DEF KeepInv, SkillInv, SkillTypeOK
  <2>9. /\ thr'[t].pc = j.pc /\ thr'[t].task = j.task /\ thr'[t].name = j.name
        /\ thr'[t].from = j.from /\ thr'[t].text = j.text /\ thr'[t].goal = Goal(i)
    <3>1. j \in Jobs BY <2>2, <2>3, UndoIsJob
    <3> QED BY <2>8, <3>1 DEF Jobs
  <2>10. /\ thr[t].name = journal[i].name /\ thr[t].from = journal[i].from
    <3>1. ShapeOK(t) /\ thr[t].task = "revert"
      BY <1>1, NamesTouched DEF KeepInv, CallOK, PcsOf, Jobs, Tasks
    <3> QED BY <2>1, <3>1 DEF ShapeOK
  <2>11. Touched(journal[i]) = Touched(thr[t]) BY <2>10 DEF Touched
  <2>12. Touched(thr'[t]) \subseteq Touched(thr[t]) \/ ~Busy(t)'
    <3>1. Touched(j) \subseteq Touched(journal[i]) \/ j.pc = "idle" BY <2>2, <2>3, UndoShape
    <3>2. Touched(thr'[t]) = Touched(j) BY <2>9 DEF Touched
    <3> QED BY <2>9, <2>11, <3>1, <3>2
  <2>13. Local(t) BY <1>2, <2>5, <2>7, <2>8, <2>12 DEF Local
  <2>14. ASSUME Busy(t)' PROVE CallOK(t)'
    <3>1. RevShape(i) /\ (LastOf(i) => LastOK(i)) BY <2>3 DEF KeepInv, RevOK
    <3>2. j.pc \in {"lock", "prior"} /\ j.task \in {"create", "update", "rename", "delete"}
      BY <2>2, <2>3, <2>9, <2>14, UndoShape
    <3>3. ShapeOK(t)'
      <4>1. journal[i].op = "rename" <=> journal[i].from # journal[i].name BY <3>1 DEF RevShape
      <4> QED BY <2>2, <2>3, <2>9, <3>2, <4>1, UndoShape DEF ShapeOK
    <3>4. OwnOK(t)' /\ SourceOK(t)' BY <2>9, <3>2 DEF OwnOK, SourceOK, Past
    <3>5. ASSUME thr'[t].name \in Orderly' PROVE NameOK(t)'
      <4>1. thr'[t].name \in Touched(journal[i])
        BY <2>9, <2>11, <2>12, <2>14 DEF Touched
      <4>2. LastOf(i) BY <2>4, <3>5, <4>1 DEF Orderly
      <4>3. j.name \in Orderly BY <2>7, <2>9, <3>5, GrowsKeeps
      <4>4. journal[i].prior \in Kept' BY <2>5, <2>6, <2>3 DEF Kept
      <4>5. j.task = "update" /\ sub[j.name] = NoText => mem[j.name] # <<>>
        BY <2>2, <2>3, <3>1, <3>2, <4>2, <4>3, UndoShape DEF LastOK
      <4>6. j.task = "rename" => flat'[j.name] \in Kept' \union {NoText}
        <5>1. j.task = "rename" => Safe(j.name)
          BY <2>2, <2>3, <3>1, <3>2, <4>2, <4>3, UndoShape DEF LastOK
        <5> QED BY <1>2, <2>7, <5>1, GrowsKeeps DEF Safe
      <4>7. j.task = "update" => j.text \in Kept' BY <2>2, <2>3, <3>2, <4>4, UndoShape
      <4> QED BY <1>2, <2>9, <3>2, <4>5, <4>6, <4>7 DEF NameOK, Written, Safe
    <3>6. ASSUME GoalNames(t)' \subseteq Orderly' PROVE GoalOK(t)'
      <4>1. \A p \in Goal(i) : p[1] \in Orderly
        BY <2>7, <2>9, <3>6, GrowsKeeps DEF GoalNames
      <4>2. ASSUME NEW p \in Goal(i)
            PROVE  /\ j.task \in {"create", "update"} => p = <<j.name, j.text>>
                   /\ j.task = "delete" => p = <<j.name, NoText>>
                   /\ j.task = "rename" => p = <<j.name, j.text>> \/ p = <<j.from, NoText>>
        <5>1. /\ LastOf(i) /\ p \in journal[i].was
              /\ p[1] \in Touched(journal[i]) /\ p = <<p[1], p[2]>>
              /\ journal[i].op = "rename" =>
                     journal[i].prior # NoText /\ (p[1] = journal[i].name => p[2] = NoText)
          BY <2>3, GoalShape
        <5>2. p[1] = journal[i].name \/ p[1] = journal[i].from BY <5>1 DEF Touched
        <5>3. journal[i].op # "rename" => p[1] = journal[i].name
          BY <3>1, <5>2 DEF RevShape
        <5>4. journal[i].op \in {"update", "delete"} => p = <<journal[i].name, journal[i].prior>>
          BY <3>1, <4>1, <5>1, <5>3 DEF RevShape
        <5>5. journal[i].op = "create" => p = <<journal[i].name, NoText>>
          BY <3>1, <4>1, <5>1, <5>3 DEF RevShape
        <5>6. journal[i].op = "rename" =>
                  p = <<journal[i].name, NoText>> \/ p = <<journal[i].from, journal[i].prior>>
          BY <3>1, <4>1, <5>1, <5>2 DEF RevShape
        <5> QED BY <2>2, <2>3, <3>2, <5>1, <5>4, <5>5, <5>6, UndoShape
      <4>3. ASSUME j.task = "create", Goal(i) # {}, sub[j.name] = NoText
            PROVE  flat[j.name] \in {NoText, j.text}
        <5>1. LastOf(i) /\ LastOK(i) BY <2>3, <3>1, <4>3, GoalShape
        <5>2. <<j.name, j.text>> \in Goal(i) BY <4>2, <4>3
        <5>3. j.name \in Orderly BY <4>1, <5>2
        <5> QED BY <2>2, <2>3, <3>2, <4>3, <5>1, <5>3, UndoShape DEF LastOK
      <4> QED BY <1>2, <2>9, <3>2, <4>2, <4>3 DEF GoalOK
    <3>7. Source(t)' \in Orderly' => SourceOK(t)' BY <3>4
    <3> QED BY <3>3, <3>4, <3>5, <3>6, <3>7 DEF CallOK
  <2>15. \A n \in Touched(thr[t]) : n \in Orderly' => Rest(n)'
    BY <1>1, <1>3, <2>7, GrowsKeeps, Resting, RestStays
  <2>16. \A n \in Touched(thr[t]) : sub'[n] = NoText => Len(mem'[n]) <= 1
    BY <1>1, <1>2, NamesTouched DEF KeepInv, Short
  <2>17. \A m \in DOMAIN journal' : RevOK(m)' BY <2>5, <2>7, RevStays, LastSame
  <2> QED BY <1>1, <2>13, <2>14, <2>15, <2>16, <2>17, LocalKeeps
<1> QED BY <1>4, <1>5

LEMMA LoadedShort ==
    ASSUME NEW n
    PROVE  /\ Loaded(n) = <<>> => flat[n] = NoText
           /\ sub[n] = NoText => Len(Loaded(n)) <= 1
<1>1. CASE sub[n] = NoText /\ flat[n] = NoText
  BY <1>1 DEF Loaded
<1>2. CASE sub[n] = NoText /\ flat[n] # NoText
  <2>1. Loaded(n) = <<>> \o <<Entry(flat[n], FALSE)>> BY <1>2 DEF Loaded
  <2>2. Loaded(n) = <<Entry(flat[n], FALSE)>> BY <2>1
  <2> QED BY <2>2
<1>3. CASE sub[n] # NoText /\ flat[n] = NoText BY <1>3
<1>4. CASE sub[n] # NoText /\ flat[n] # NoText
  <2>1. Loaded(n) = <<Entry(sub[n], TRUE)>> \o <<Entry(flat[n], FALSE)>> BY <1>4 DEF Loaded
  <2>2. Len(Loaded(n)) = 2 BY <2>1
  <2> QED BY <1>4, <2>2
<1> QED BY <1>1, <1>2, <1>3, <1>4

LEMMA RestartKeeps == ASSUME KeepInv, SkillInv', Restart PROVE KeepInv'
<1>1. UNCHANGED <<flat, sub, journal, mixed, late>> BY DEF Restart, disk, odd
<1>2. \A t \in Threads : thr'[t] = Idle BY DEF Restart
<1>3. left' = {} /\ \A n \in Names : mem'[n] = Loaded(n) BY DEF Restart
<1>4. \A t \in Threads : ~Busy(t)' BY <1>2 DEF Idle
<1>5. Kept' = Kept /\ Orderly' = Orderly BY <1>1 DEF Kept, Orderly
<1>6. \A n \in Names : Loaded(n)' = Loaded(n) BY <1>1 DEF Loaded
<1>7. \A n \in Names :
          /\ Loaded(n) = <<>> => flat[n] = NoText
          /\ sub[n] = NoText => Len(Loaded(n)) <= 1
  BY LoadedShort
<1>8. Short' BY <1>1, <1>3, <1>7 DEF Short
<1>9. RestOK'
  <2> SUFFICES ASSUME NEW n \in Orderly' PROVE Rest(n)' BY DEF RestOK
  <2>1. n \in Names BY DEF Orderly
  <2> QED BY <1>1, <1>3, <1>6, <1>7, <2>1 DEF Rest, Safe
<1>10. ASSUME NEW i \in DOMAIN journal' PROVE RevOK(i)'
  <2>1. RevOK(i) /\ i \in DOMAIN journal BY <1>1, <1>10 DEF KeepInv
  <2>2. RevShape(i)' BY <1>1, <1>5, <2>1 DEF RevOK, RevShape
  <2>3. LastOf(i)' => LastOf(i) BY <1>1 DEF LastOf
  <2>4. LastOK(i) => LastOK(i)'
    <3>1. journal[i].name \in Names BY <2>1, RevNames
    <3>2. Safe(journal[i].from) => flat'[journal[i].from] \in Kept' \union {NoText}
      BY <1>1, <1>5 DEF Safe
    <3> QED BY <1>1, <1>3, <1>5, <1>7, <3>1, <3>2 DEF LastOK, Safe
  <2> QED BY <2>1, <2>2, <2>3, <2>4 DEF RevOK
<1> QED BY <1>4, <1>8, <1>9, <1>10 DEF KeepInv, Alone

LEMMA StillKeeps == ASSUME KeepInv, UNCHANGED vars PROVE KeepInv'
<1>1. UNCHANGED <<flat, sub, mem, journal, thr, left, mixed, late>> BY DEF vars
<1>2. SkillInv' BY NextInv DEF KeepInv
<1>3. Orderly' = Orderly BY <1>1 DEF Orderly
<1>4. Alone' /\ Short' BY <1>1 DEF KeepInv, Alone, Short
<1>5. Grows /\ \A n : Same(n) BY <1>1 DEF Grows, Same
<1>6. RestOK'
  BY <1>1, <1>3, <1>5, RestStays DEF KeepInv, RestOK, Changing, Written, Forgetting, Source
<1>7. \A u \in Threads : Busy(u)' => CallOK(u)' BY <1>1, <1>5, CallStays
<1>8. \A i \in DOMAIN journal' : RevOK(i)' BY <1>1, <1>5, RevStays, LastSame
<1> QED BY <1>2, <1>4, <1>6, <1>7, <1>8 DEF KeepInv

LEMMA InitKeeps == ASSUME Init PROVE KeepInv
<1>1. SkillInv BY InitInv
<1>2. /\ \A t \in Threads : thr[t] = Idle
      /\ \A n \in Names : mem[n] = Loaded(n)
      /\ journal = <<>> /\ left = {}
  BY DEF Init
<1>3. \A t \in Threads : ~Busy(t) BY <1>2 DEF Idle
<1>4. \A n \in Names :
          /\ Loaded(n) = <<>> => flat[n] = NoText
          /\ sub[n] = NoText => Len(Loaded(n)) <= 1
  BY LoadedShort
<1>5. Short BY <1>2, <1>4 DEF Short
<1>6. RestOK BY <1>2, <1>4 DEF RestOK, Rest, Safe, Orderly
<1>7. \A i \in DOMAIN journal : RevOK(i) BY <1>2
<1> QED BY <1>1, <1>3, <1>5, <1>6, <1>7 DEF KeepInv, Alone

LEMMA NextKeeps == ASSUME KeepInv, [Next]_vars PROVE KeepInv'
<1>1. SkillInv' BY NextInv DEF KeepInv
<1>2. ASSUME NEW t \in Threads, Begin(t) PROVE KeepInv' BY <1>1, <1>2, BeginKeeps
<1>3. ASSUME NEW t \in Threads, Work(t) PROVE KeepInv'
  BY <1>1, <1>3, LockKeeps, RefuseKeeps, PriorKeeps, JournalKeeps, WriteKeeps, UnlinkKeeps,
     ForgetKeeps, AppendKeeps, ReplaceKeeps, ConvertKeeps, RegisterKeeps, ClaimKeeps DEF Work
<1>4. CASE Restart BY <1>1, <1>4, RestartKeeps
<1>5. CASE UNCHANGED vars BY <1>5, StillKeeps
<1> QED BY <1>2, <1>3, <1>4, <1>5 DEF Next

-----------------------------------------------------------------------------
(* What the invariant says of a step.                                      *)

LEMMA Serves == KeepInv => ServedIsStored
<1> SUFFICES ASSUME KeepInv, NEW n \in Orderly \ left, sub[n] = NoText,
                    \A t \in Threads : Busy(t) => n \notin Touched(thr[t])
             PROVE  mem[n] = Loaded(n)
  BY DEF ServedIsStored
<1>1. \A t \in Threads : ~Changing(t, n) BY ChangingTouches
<1> QED BY <1>1 DEF KeepInv, RestOK, Rest

LEMMA TextsStep == ASSUME KeepInv, [Next]_vars PROVE TextsKept(Orderly)
<1>1. TextsKept(Orderly) <=> \A n \in Orderly : flat'[n] # flat[n] =>
                                flat[n] \in Kept' \union {NoText, sub'[n]}
  BY DEF TextsKept, Kept
<1>2. CASE UNCHANGED flat BY <1>1, <1>2
<1>3. ASSUME NEW t \in Threads, Write(t) PROVE TextsKept(Orderly)
  <2>1. Busy(t) /\ thr[t].pc = "write" /\ UNCHANGED journal BY <1>3 DEF Write
  <2>2. thr[t].task \in {"create", "update", "rename"}
    BY <2>1, NamesTouched DEF PcsOf, Jobs, Tasks
  <2>3. thr[t].prior \in Kept BY <2>1, PriorKept DEF Past
  <2>4. ASSUME thr[t].name \in Orderly PROVE Safe(thr[t].name)
    <3>1. NameOK(t) /\ (Source(t) \in Orderly => SourceOK(t)) BY <2>1, <2>4 DEF KeepInv, CallOK
    <3>2. CASE thr[t].task = "create" BY <2>1, <3>1, <3>2 DEF NameOK, Safe
    <3>3. CASE thr[t].task = "rename" BY <2>1, <3>1, <3>3 DEF NameOK
    <3>4. CASE thr[t].task = "update"
      <4>1. Source(t) = thr[t].name BY <3>4 DEF Source
      <4> QED BY <2>1, <2>3, <2>4, <3>1, <3>4, <4>1 DEF SourceOK, Safe
    <3> QED BY <2>2, <3>2, <3>3, <3>4
  <2>5. \A n \in Names : flat'[n] # flat[n] => n = thr[t].name
    BY <1>3 DEF Write, KeepInv, SkillInv, SkillTypeOK
  <2> QED BY <1>1, <2>1, <2>4, <2>5 DEF Safe, Kept, Orderly
<1>4. ASSUME NEW t \in Threads, Unlink(t) PROVE TextsKept(Orderly)
  <2>1. Busy(t) /\ thr[t].pc = "unlink" /\ UNCHANGED journal BY <1>4 DEF Unlink
  <2>2. thr[t].task \in {"rename", "delete"}
    BY <2>1, NamesTouched DEF PcsOf, Jobs, Tasks
  <2>3. thr[t].prior \in Kept BY <2>1, PriorKept DEF Past
  <2>4. Source(t) \in Orderly => flat[Source(t)] = thr[t].prior
    BY <2>1, <2>2 DEF KeepInv, CallOK, SourceOK
  <2>5. \A n \in Names : flat'[n] # flat[n] => n = Source(t)
    BY <1>4 DEF Unlink, KeepInv, SkillInv, SkillTypeOK
  <2> QED BY <1>1, <2>1, <2>3, <2>4, <2>5 DEF Kept, Orderly
<1>5. ASSUME NEW t \in Threads, Convert(t) PROVE TextsKept(Orderly)
  <2>1. \A n \in Names : flat'[n] # flat[n] => sub'[n] = flat[n] \/ flat[n] = NoText
    BY <1>5 DEF Convert, disk, KeepInv, SkillInv, SkillTypeOK
  <2> QED BY <1>1, <2>1 DEF Orderly
<1>6. ASSUME NEW t \in Threads, Begin(t) \/ Work(t), ~Write(t), ~Unlink(t), ~Convert(t)
      PROVE  UNCHANGED flat
  BY <1>6 DEF Begin, Work, Lock, Refuse, Prior, Journal, Forget, AppendSkill, Replace, Register,
              Claim, disk
<1>7. Restart \/ UNCHANGED vars => UNCHANGED flat BY DEF Restart, disk, vars
<1> QED BY <1>2, <1>3, <1>4, <1>5, <1>6, <1>7 DEF Next

(* A skill that a call has done with is served as it is stored.            *)
LEMMA DoneServed ==
    ASSUME KeepInv, KeepInv', NEW t \in Threads, Busy(t), Ends(t),
           UNCHANGED <<sub, left, mixed, late>>,
           NEW n \in Touched(thr[t]), n \in Orderly \ left, sub[n] = NoText
    PROVE  mem'[n] = Loaded(n)'
<1>1. \A u \in Threads : u # t /\ Busy(u) => n \notin Touched(thr[u])
  BY DEF KeepInv, Alone, Orderly
<1>2. \A u \in Threads : Busy(u)' => u # t /\ thr'[u] = thr[u]
  BY DEF Ends, Idle
<1>3. \A u \in Threads : Busy(u)' => n \notin Touched(thr'[u]) BY <1>1, <1>2
<1>4. n \in Orderly' \ left' BY DEF Orderly
<1>5. ServedIsStored' BY Serves, PTL
<1> QED BY <1>3, <1>4, <1>5 DEF ServedIsStored

(* The last step of an undo leaves the file as it has to be.               *)
LEMMA RestoredStep ==
    ASSUME KeepInv, KeepInv', [Next]_vars, NEW t \in Threads PROVE Restored(t)
<1> SUFFICES ASSUME Busy(t), ~Busy(t)', UNCHANGED <<faults, crashes>>,
                    GoalNames(t) \subseteq Orderly \ left,
                    \A n \in GoalNames(t) : sub[n] = NoText,
                    NEW p \in thr[t].goal
             PROVE  flat'[p[1]] = p[2] /\ mem'[p[1]] = Loaded(p[1])'
  BY DEF Restored, GoalNames
<1>1. p[1] \in GoalNames(t) /\ p[1] \in Orderly /\ p[1] \notin left /\ sub[p[1]] = NoText
  BY DEF GoalNames
<1>2. CallOK(t) /\ ShapeOK(t) /\ GoalOK(t) BY DEF KeepInv, CallOK
<1>3. /\ thr[t].task \in {"create", "update", "rename", "delete"}
      /\ thr[t].name \in Names /\ thr[t].from \in Names
      /\ Touched(thr[t]) = {thr[t].name, thr[t].from} /\ thr[t].pc \in PcsOf(thr[t].task)
  <2>1. thr[t].task \notin {"file", "revert"} BY <1>2 DEF ShapeOK
  <2> QED BY <2>1, NamesTouched DEF Jobs, Tasks, PcsOf
<1>4. /\ thr[t].task \in {"create", "update"} => p = <<thr[t].name, thr[t].text>>
      /\ thr[t].task = "delete" => p = <<thr[t].name, NoText>>
      /\ thr[t].task = "rename" =>
             p = <<thr[t].name, thr[t].text>> \/ p = <<thr[t].from, NoText>>
  BY <1>2 DEF GoalOK
<1>5. p[1] \in Touched(thr[t]) BY <1>3, <1>4
<1>6. Work(t)
  <2>1. ~Restart
    <3>1. crashes \in Nat BY DEF KeepInv, SkillInv, SkillTypeOK
    <3> QED BY <3>1 DEF Restart
  <2>2. ~UNCHANGED vars BY DEF vars
  <2>3. ASSUME NEW u \in Threads, u # t, Begin(u) \/ Work(u) PROVE FALSE
    <3>1. thr'[t] = thr[t]
      BY <2>3 DEF Begin, Work, Lock, Refuse, Prior, Journal, Write, Unlink, Forget, AppendSkill,
                  Replace, Convert, Register, Claim, Return, Advance, KeepInv, SkillInv, SkillTypeOK
    <3> QED BY <3>1
  <2>4. ~Begin(t) BY DEF Begin
  <2> QED BY <2>1, <2>2, <2>3, <2>4 DEF Next
<1>7. faults \in Nat BY DEF KeepInv, SkillInv, SkillTypeOK
<1>8. ~Fail BY <1>7 DEF Fail
<1>9. ASSUME Advance(t) PROVE Following(thr[t].task, thr[t].pc) = "idle" /\ Ends(t)
  <2>1. ASSUME Following(thr[t].task, thr[t].pc) # "idle" PROVE FALSE
    BY <1>9, <2>1, AdvanceGoes DEF Goes
  <2> QED BY <1>9, <2>1, AdvanceGoes
<1>10. SUFFICES Ends(t) /\ UNCHANGED <<sub, left, mixed, late>> /\ flat'[p[1]] = p[2]
  BY <1>1, <1>5, DoneServed
<1>11. CASE Lock(t)
  <2>1. Goes(t, "check") BY <1>11, PcGoes DEF Lock
  <2> QED BY <2>1 DEF Goes
<1>12. CASE Refuse(t)
  <2>1. thr[t].pc \in {"check", "recheck"} /\ UNCHANGED <<flat, sub, left, mixed, late>>
    BY <1>12 DEF Refuse, disk, hist, odd
  <2>2. thr[t].task = "create" BY <1>3, <2>1 DEF PcsOf
  <2>3. Exists(thr[t].name) /\ Ends(t)
    BY <1>9, <1>12, <2>1, <2>2, ReturnEnds DEF Refuse, Following
  <2>4. p[1] = thr[t].name /\ p[2] = thr[t].text BY <1>4, <2>2
  <2>5. flat[thr[t].name] # NoText BY <1>1, <2>3, <2>4 DEF Exists
  <2>6. thr[t].pc = "check" BY <1>1, <1>2, <2>1, <2>2, <2>4, <2>5 DEF CallOK, NameOK
  <2>7. flat[thr[t].name] = thr[t].text BY <1>1, <1>2, <2>2, <2>4, <2>5, <2>6 DEF GoalOK
  <2> QED BY <2>1, <2>3, <2>4, <2>7
<1>13. CASE Prior(t)
  <2>1. thr'[t] = [thr[t] EXCEPT !.prior = flat[Source(t)], !.pc = "journal"]
    BY <1>13 DEF Prior, KeepInv, SkillInv, SkillTypeOK
  <2>2. thr[t] \in Jobs BY DEF KeepInv, SkillInv, SkillTypeOK
  <2> QED BY <2>1, <2>2 DEF Jobs
<1>14. CASE Journal(t) \/ Write(t) \/ Unlink(t)
  <2>1. Advance(t) \/ thr' = [thr EXCEPT ![t].pc = "forget", ![t].goal = {}]
    BY <1>8, <1>14 DEF Journal, Write, Unlink
  <2>2. thr[t].pc \in {"journal", "write", "unlink"} BY <1>14 DEF Journal, Write, Unlink
  <2>3. ~Advance(t) BY <1>3, <1>9, <2>2 DEF Following, PcsOf
  <2>4. ASSUME thr' = [thr EXCEPT ![t].pc = "forget", ![t].goal = {}] PROVE FALSE
    <3>1. thr'[t] = [thr[t] EXCEPT !.pc = "forget", !.goal = {}]
      BY <2>4 DEF KeepInv, SkillInv, SkillTypeOK
    <3>2. thr[t] \in Jobs BY DEF KeepInv, SkillInv, SkillTypeOK
    <3> QED BY <3>1, <3>2 DEF Jobs
  <2> QED BY <2>1, <2>3, <2>4
<1>15. CASE Forget(t)
  <2>1. /\ thr[t].pc = "forget" /\ Advance(t)
        /\ UNCHANGED <<flat, sub, left, mixed, late>>
    BY <1>15 DEF Forget, disk, hist, odd
  <2>2. Ends(t) /\ thr[t].task = "delete" BY <1>3, <1>9, <2>1 DEF Following, PcsOf
  <2>3. p[1] = Source(t) /\ p[2] = NoText BY <1>4, <2>2 DEF Source
  <2>4. flat[p[1]] = NoText BY <1>1, <1>2, <2>1, <2>2, <2>3 DEF CallOK, SourceOK
  <2> QED BY <2>1, <2>2, <2>3, <2>4
<1>16. CASE AppendSkill(t) \/ Replace(t)
  <2>1. /\ thr[t].pc \in {"append", "replace"} /\ Advance(t)
        /\ UNCHANGED <<flat, sub, left, mixed, late>>
    BY <1>16 DEF AppendSkill, Replace, disk, hist, odd
  <2>2. Ends(t) BY <1>9, <2>1
  <2>3. Written(t, thr[t].name) BY <1>3, <2>1 DEF Written, PcsOf
  <2>4. CASE p = <<thr[t].name, thr[t].text>>
    <3>1. flat[thr[t].name] = thr[t].text BY <1>1, <1>2, <2>3, <2>4 DEF CallOK, NameOK
    <3> QED BY <2>1, <2>2, <2>4, <3>1
  <2>5. CASE thr[t].task = "rename" /\ p = <<thr[t].from, NoText>>
    <3>1. Source(t) = thr[t].from /\ thr[t].pc = "append"
      BY <1>3, <2>1, <2>5 DEF Source, PcsOf
    <3>2. flat[thr[t].from] = NoText BY <1>1, <1>2, <2>5, <3>1 DEF CallOK, SourceOK
    <3> QED BY <2>1, <2>2, <2>5, <3>2
  <2>6. thr[t].task # "delete" BY <1>3, <2>1 DEF PcsOf
  <2> QED BY <1>3, <1>4, <2>4, <2>5, <2>6
<1>17. CASE Convert(t) \/ Register(t) \/ Claim(t)
  BY <1>3, <1>17 DEF Convert, Register, Claim, PcsOf
<1> QED BY <1>6, <1>11, <1>12, <1>13, <1>14, <1>15, <1>16, <1>17 DEF Work

(* Whatever fails and however often the process ends, no call on a skill   *)
(* that other calls leave alone takes a text from a file that the journal  *)
(* does not hold, and a skill no call is busy with is served as a restart  *)
(* would load it.                                                          *)
THEOREM SkillTextsKept == Spec => NothingLost
<1>1. KeepInv /\ [Next]_vars => KeepInv' BY NextKeeps
<1>2. Init => KeepInv BY InitKeeps
<1>3. KeepInv /\ KeepInv' /\ [Next]_vars => [TextsKept(Orderly) /\ ServedIsStored']_vars
  <2>1. KeepInv' => ServedIsStored' BY Serves, PTL
  <2> QED BY <2>1, TextsStep
<1> QED BY <1>1, <1>2, <1>3, PTL DEF Spec, NothingLost

(* skill_revert: the undo of the last change of a skill that comes to its  *)
(* end brings the files back that the change found, up to the newline with *)
(* which the writer ends a file, and the engine serves them.               *)
THEOREM RevertsRestore == Spec => RevertRestores
<1>1. KeepInv /\ [Next]_vars => KeepInv' BY NextKeeps
<1>2. Init => KeepInv BY InitKeeps
<1>3. KeepInv /\ KeepInv' /\ [Next]_vars => [\A t \in Threads : Restored(t)]_vars
  BY RestoredStep
<1> QED BY <1>1, <1>2, <1>3, PTL DEF Spec, RevertRestores
=============================================================================
