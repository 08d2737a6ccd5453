-------------------------- MODULE SchedulerProofs --------------------------
(* What holds of the scheduler for any names, entries, goroutines and      *)
(* callers, and any number of calls.                                       *)
EXTENDS SchedulerProps, FiniteSetTheorems, FunctionTheorems, TLAPS

RunRecord  == [pc : RunPcs, obj : Entries \union {NoEntry}, ctx : Nat]
CallRecord == [pc : CallPcs, name : Names \union {"none"}, obj : Entries \union {NoEntry}]

SchedTypeOK ==
    /\ entries \in [Names -> Entries \union {NoEntry}]
    /\ made \subseteq Entries /\ enabled \subseteq made /\ early \subseteq made
    /\ ctx \in [Entries -> Nat]
    /\ cancelled \subseteq made \X Nat
    /\ stopped \in BOOLEAN /\ paused \in BOOLEAN /\ raced \in BOOLEAN
    /\ run \in [Runners -> RunRecord]
    /\ call \in [Callers -> CallRecord]
    /\ calls \in Nat

(* Objects are made before anything refers to them, a name has its own,    *)
(* and a context that was cancelled is the one its object holds, or older. *)
ObjectsOK ==
    /\ \A n \in Names : entries[n] \in made \union {NoEntry}
    /\ \A n, m \in Names : entries[n] = entries[m] /\ entries[n] # NoEntry => n = m
    /\ \A r \in Runners : IF run[r].pc = "off" THEN run[r].obj = NoEntry ELSE run[r].obj \in made
    /\ \A c \in Callers : call[c].pc = "spawn" => call[c].obj \in made
    /\ \A c \in Callers : call[c].pc = "register" => call[c].name \in Names
    /\ \A c, d \in Callers :
          call[c].pc = "spawn" /\ call[d].pc = "spawn" /\ call[c].obj = call[d].obj => c = d
    /\ \A p \in cancelled : p[2] <= ctx[p[1]]

(* Only the entries registered while paused have a goroutine.              *)
OnlyEarly == \A r \in On : run[r].obj \in early

(* Without a race: the calls in progress exclude each other, the rest of   *)
(* a registration finds its object without a goroutine, and a Resume finds *)
(* none at all.                                                            *)
CallsOK ==
    /\ Under(PausePcs) => (paused \/ stopped) /\ ~Under({"spawn", "relaunch"})
    /\ Under({"relaunch"}) => ~paused /\ ~Under({"spawn"}) /\ OnlyEarly
    /\ \A c, d \in Callers : call[c].pc = "relaunch" /\ call[d].pc = "relaunch" => c = d
    /\ \A c \in Callers : call[c].pc = "spawn" =>
          /\ paused => call[c].obj \in early
          /\ call[c].obj \notin early => Goroutines(call[c].obj) = {}
    /\ paused /\ ~Crashed /\ ~Under(PausePcs) => OnlyEarly

AtMostOne == \A e \in Entries \ early : \A r, s \in Goroutines(e) : r = s

(* Without a race, a pause or a stop: what is registered holds a live      *)
(* context, and a goroutine waits on that one, or is about to be launched. *)
ContextsLive ==
    ~Under({"relaunch"}) => \A e \in Listed : <<e, ctx[e]>> \notin cancelled

Waiting(r, e) == run[r].obj = e /\ (run[r].pc = "select" => run[r].ctx = ctx[e])

Attended ==
    \A e \in Listed \intersect enabled :
        \/ Under({"relaunch"})
        \/ \E c \in Callers : call[c].pc = "spawn" /\ call[c].obj = e
        \/ \E r \in Runners : Waiting(r, e)

LiveOK == ~paused /\ ~stopped => ContextsLive /\ Attended

SchedInv == SchedTypeOK /\ ObjectsOK /\ (~raced => CallsOK /\ AtMostOne /\ LiveOK)


-----------------------------------------------------------------------------
(* When there are goroutines enough, Launch gives every object its own.    *)
LEMMA LaunchOK ==
    ASSUME NEW objs, NEW free, IsFiniteSet(objs), IsFiniteSet(free),
           Cardinality(objs) <= Cardinality(free)
    PROVE  /\ Launch(objs, free) \in [objs -> free]
           /\ \A a, b \in objs : Launch(objs, free)[a] = Launch(objs, free)[b] => a = b
<1> DEFINE n == Cardinality(objs)
           m == Cardinality(free)
<1>1. /\ n \in Nat /\ ExistsBijection(1..n, objs)
      /\ m \in Nat /\ ExistsBijection(1..m, free)
  BY FS_CardinalityType
<1>2. ExistsInjection(objs, 1..n)
  BY <1>1, Fun_ExistsBijEquiv
<1>6. ExistsInjection(1..m, free)
  BY <1>1, Fun_ExistsBijEquiv
<1>3. ExistsInjection(1..n, 1..m)
  BY <1>1, Fun_NatInjLeq
<1>4. ExistsInjection(objs, free)
  BY <1>2, <1>3, <1>6, Fun_ExistsInjTransitive
<1>5. PICK f \in [objs -> free] : \A a, b \in objs : f[a] = f[b] => a = b
  BY <1>4 DEF ExistsInjection, Injection, IsInjective
<1> QED
  BY <1>5 DEF Launch

(* The goroutines of launched objects, among those that are as they were.  *)
LEMMA Launching ==
    ASSUME NEW objs, NEW free, NEW old, NEW g, NEW f, free \subseteq Runners,
           f \in [objs -> free], \A a, b \in objs : f[a] = f[b] => a = b,
           g = [r \in Runners |->
                  IF \E e \in objs : f[e] = r
                  THEN [pc |-> "go", obj |-> CHOOSE e \in objs : f[e] = r, ctx |-> 0]
                  ELSE old[r]]
    PROVE  /\ \A e \in objs : f[e] \in free /\ g[f[e]] = [pc |-> "go", obj |-> e, ctx |-> 0]
           /\ \A r \in Runners :
                 \/ g[r] = old[r] /\ ~(\E e \in objs : f[e] = r)
                 \/ \E e \in objs : r = f[e] /\ g[r] = [pc |-> "go", obj |-> e, ctx |-> 0]
<1>1. ASSUME NEW e \in objs PROVE (CHOOSE x \in objs : f[x] = f[e]) = e
  OBVIOUS
<1> QED
  BY <1>1

-----------------------------------------------------------------------------
(* The names that Start finds an entry under are no fewer than the entries. *)
LEMMA StartedFits ==
    IsFiniteSet(Started) /\ Cardinality(Started) <= Cardinality(Runners)
<1> DEFINE S == {n \in Names : Boot[n] # NoEntry}
           f == [n \in S |-> Boot[n]]
<1>1. IsFiniteSet(S) /\ Cardinality(S) <= Cardinality(Names)
  BY FS_Subset, RunnersAssumption
<1>2. f \in Surjection(S, Started)
  BY BootAssumption, EntriesAssumption DEF Surjection, Started
<1>3. IsFiniteSet(Started) /\ Cardinality(Started) <= Cardinality(S)
  BY <1>1, <1>2, FS_Surjection
<1>4. Cardinality(Started) \in Nat /\ Cardinality(S) \in Nat
      /\ Cardinality(Names) \in Nat /\ Cardinality(Runners) \in Nat
  BY <1>1, <1>3, FS_CardinalityType, RunnersAssumption
<1> QED
  BY <1>1, <1>3, <1>4, RunnersAssumption

LEMMA SchedInit == Init => SchedInv
<1> SUFFICES ASSUME Init PROVE SchedInv
  OBVIOUS
<1> DEFINE f == Launch(Started, Runners)
<1>1. f \in [Started -> Runners] /\ \A a, b \in Started : f[a] = f[b] => a = b
  BY LaunchOK, StartedFits, RunnersAssumption
<1>2. /\ \A e \in Started : f[e] \in Runners /\ run[f[e]] = [pc |-> "go", obj |-> e, ctx |-> 0]
      /\ \A r \in Runners :
            \/ run[r] = OffRunner
            \/ \E e \in Started : r = f[e] /\ run[r] = [pc |-> "go", obj |-> e, ctx |-> 0]
  <2>1. run = [r \in Runners |->
                 IF \E e \in Started : f[e] = r
                 THEN [pc |-> "go", obj |-> CHOOSE e \in Started : f[e] = r, ctx |-> 0]
                 ELSE [x \in Runners |-> OffRunner][r]]
    BY DEF Init
  <2> HIDE DEF f
  <2> QED
    BY <1>1, <2>1, Launching
<1> HIDE DEF f
<1>3. Started \subseteq Entries /\ NoEntry \notin Started
  BY BootAssumption DEF Started
<1>4. SchedTypeOK
  <2>1. run \in [Runners -> RunRecord]
    <3>1. OffRunner \in RunRecord /\ \A e \in Started : [pc |-> "go", obj |-> e, ctx |-> 0] \in RunRecord
      BY <1>3 DEF RunRecord, OffRunner, RunPcs
    <3>2. \A r \in Runners : run[r] \in RunRecord
      BY <1>2, <3>1
    <3> QED
      BY <3>2 DEF Init
  <2>2. call \in [Callers -> CallRecord]
    BY DEF Init, IdleCall, CallRecord, CallPcs
  <2> QED
    BY <1>3, <2>1, <2>2, BootAssumption DEF Init, SchedTypeOK
<1>5. ObjectsOK
  BY <1>2, <1>3, BootAssumption DEF Init, ObjectsOK, IdleCall, OffRunner, Started
<1>6. CallsOK
  <2>1. \A c \in Callers : call[c].pc = "idle"
    BY DEF Init, IdleCall
  <2> QED
    BY <2>1 DEF Init, CallsOK, Under, PausePcs
<1>7. AtMostOne
  <2>1. ASSUME NEW e \in Entries, NEW r \in Runners, run[r].obj = e PROVE r = f[e]
    <3>1. run[r] # OffRunner
      BY <2>1, EntriesAssumption DEF OffRunner
    <3>2. PICK x \in Started : r = f[x] /\ run[r] = [pc |-> "go", obj |-> x, ctx |-> 0]
      BY <1>2, <3>1
    <3> QED
      BY <2>1, <3>2
  <2>2. ASSUME NEW e \in Entries, NEW r \in Goroutines(e), NEW s \in Goroutines(e) PROVE r = s
    BY <2>1 DEF Goroutines
  <2> QED
    BY <2>2 DEF AtMostOne
<1>8. LiveOK
  <2>1. ContextsLive
    BY DEF Init, ContextsLive
  <2>2. Listed = Started
    BY DEF Init, Listed, Started
  <2>3. ASSUME NEW e \in Started PROVE Waiting(f[e], e)
    <3>1. run[f[e]] = [pc |-> "go", obj |-> e, ctx |-> 0]
      BY <1>2
    <3> QED
      BY <3>1 DEF Waiting
  <2>4. Attended
    BY <1>2, <2>2, <2>3 DEF Attended
  <2> QED
    BY <2>1, <2>4 DEF LiveOK
<1> QED
  BY <1>4, <1>5, <1>6, <1>7, <1>8 DEF SchedInv

-----------------------------------------------------------------------------
(* What a goroutine does to its own record: it ends when the context it    *)
(* waits on is cancelled, or goes on with its object.                      *)
LEMMA RunnerShape ==
    ASSUME SchedInv, NEW r \in Runners, Runner(r)
    PROVE  /\ run[r].pc # "off" /\ run[r].obj \in made
           /\ \E x \in RunRecord :
                 /\ run' = [run EXCEPT ![r] = x]
                 /\ \/ /\ x = OffRunner
                       /\ Cancelled(run[r].obj, IF run[r].pc = "select" THEN run[r].ctx ELSE ctx[run[r].obj])
                    \/ /\ x.pc # "off" /\ x.obj = run[r].obj
                       /\ x.pc = "select" => x.ctx = ctx[x.obj]
           /\ \A c \in Callers :
                 \/ call'[c] = call[c]
                 \/ call[c].pc = "wait" /\ call'[c] = [call[c] EXCEPT !.pc = "woken"]
           /\ call' \in [Callers -> CallRecord]
           /\ UNCHANGED <<entries, enabled, made, ctx, cancelled, stopped, paused, calls, early, raced>>
<1> USE DEF SchedInv, SchedTypeOK
<1>1. run[r] \in RunRecord
  OBVIOUS
<1>2. OffRunner \in RunRecord
  BY DEF OffRunner, RunRecord, RunPcs
<1>3. run[r].pc # "off"
  BY DEF Runner, Enter, Exit, Fire, NextRound
<1>4. run[r].obj \in made
  BY <1>3 DEF ObjectsOK
<1>5. /\ WaitOn(r) \in RunRecord /\ WaitOn(r).pc = "select"
      /\ WaitOn(r).obj = run[r].obj /\ WaitOn(r).ctx = ctx[run[r].obj]
  BY <1>1, <1>4 DEF WaitOn, RunRecord, RunPcs
<1>6. /\ [run[r] EXCEPT !.pc = "job"] \in RunRecord
      /\ [run[r] EXCEPT !.pc = "job"].pc = "job"
      /\ [run[r] EXCEPT !.pc = "job"].obj = run[r].obj
  BY <1>1 DEF RunRecord, RunPcs
<1>7. ASSUME Done(r)
      PROVE  /\ \A c \in Callers :
                 \/ call'[c] = call[c]
                 \/ call[c].pc = "wait" /\ call'[c] = [call[c] EXCEPT !.pc = "woken"]
             /\ call' \in [Callers -> CallRecord]
  <2>1. \A c \in Callers : call[c] \in CallRecord /\ [call[c] EXCEPT !.pc = "woken"] \in CallRecord
    BY DEF CallRecord, CallPcs
  <2> QED
    BY <1>7, <2>1 DEF Done
<1>8. CASE Enter(r)
  BY <1>2, <1>4, <1>5, <1>7, <1>8 DEF Enter, Done
<1>9. CASE Exit(r)
  BY <1>2, <1>4, <1>7, <1>9 DEF Exit, Done
<1>10. CASE Fire(r)
  BY <1>3, <1>4, <1>6, <1>10 DEF Fire
<1>11. CASE NextRound(r)
  BY <1>3, <1>4, <1>5, <1>11 DEF NextRound
<1> QED
  BY <1>8, <1>9, <1>10, <1>11 DEF Runner

(* A caller that is woken is where it was for all the others.              *)
LEMMA WakingIsQuiet ==
    ASSUME \A c \in Callers :
              \/ call'[c] = call[c]
              \/ call[c].pc = "wait" /\ call'[c] = [call[c] EXCEPT !.pc = "woken"],
           call \in [Callers -> CallRecord]
    PROVE  /\ Under(PausePcs)' = Under(PausePcs) /\ Under({"relaunch"})' = Under({"relaunch"})
           /\ Under({"spawn"})' = Under({"spawn"})
           /\ Under({"spawn", "relaunch"})' = Under({"spawn", "relaunch"})
           /\ Crashed' = Crashed
           /\ \A c \in Callers, p \in {"spawn", "relaunch", "register"} :
                 call'[c].pc = p <=> call[c].pc = p
           /\ \A c \in Callers : call'[c].obj = call[c].obj /\ call'[c].name = call[c].name
<1>1. ASSUME NEW c \in Callers
      PROVE  /\ call'[c].obj = call[c].obj /\ call'[c].name = call[c].name
             /\ \/ call'[c].pc = call[c].pc
                \/ call[c].pc = "wait" /\ call'[c].pc = "woken"
  <2>1. call[c] \in CallRecord
    OBVIOUS
  <2>2. CASE call'[c] = call[c]
    BY <2>2
  <2>3. CASE call[c].pc = "wait" /\ call'[c] = [call[c] EXCEPT !.pc = "woken"]
    BY <2>1, <2>3 DEF CallRecord
  <2> QED
    BY <2>2, <2>3
<1> QED
  BY <1>1 DEF Under, PausePcs, Crashed

LEMMA SchedRunner ==
    ASSUME SchedInv, NEW r \in Runners, Runner(r)
    PROVE  SchedInv'
<1>1. PICK x \in RunRecord :
         /\ run' = [run EXCEPT ![r] = x]
         /\ \/ /\ x = OffRunner
               /\ Cancelled(run[r].obj, IF run[r].pc = "select" THEN run[r].ctx ELSE ctx[run[r].obj])
            \/ /\ x.pc # "off" /\ x.obj = run[r].obj
               /\ x.pc = "select" => x.ctx = ctx[x.obj]
  BY RunnerShape
<1>2. /\ UNCHANGED <<entries, enabled, made, ctx, cancelled, stopped, paused, calls, early, raced>>
      /\ call' \in [Callers -> CallRecord]
      /\ run[r].pc # "off" /\ run[r].obj \in made
  BY RunnerShape
<1>3. \A c \in Callers :
         \/ call'[c] = call[c]
         \/ call[c].pc = "wait" /\ call'[c] = [call[c] EXCEPT !.pc = "woken"]
  BY RunnerShape
<1>4. /\ Under(PausePcs)' = Under(PausePcs) /\ Under({"relaunch"})' = Under({"relaunch"})
      /\ Under({"spawn"})' = Under({"spawn"})
      /\ Under({"spawn", "relaunch"})' = Under({"spawn", "relaunch"})
      /\ Crashed' = Crashed
      /\ \A c \in Callers, p \in {"spawn", "relaunch", "register"} :
            call'[c].pc = p <=> call[c].pc = p
      /\ \A c \in Callers : call'[c].obj = call[c].obj /\ call'[c].name = call[c].name
  BY <1>3, WakingIsQuiet DEF SchedInv, SchedTypeOK
<1>5. SchedTypeOK'
  BY <1>1, <1>2 DEF SchedInv, SchedTypeOK
<1>6. /\ \A q \in Runners : q # r => run'[q] = run[q]
      /\ run'[r] = x
      /\ NoEntry \notin made
  BY <1>1, EntriesAssumption DEF SchedInv, SchedTypeOK
<1>7. ObjectsOK'
  <2>1. \A q \in Runners : IF run'[q].pc = "off" THEN run'[q].obj = NoEntry ELSE run'[q].obj \in made
    BY <1>1, <1>2, <1>6 DEF SchedInv, ObjectsOK, OffRunner
  <2>2. \A c \in Callers : /\ call'[c].pc = "spawn" <=> call[c].pc = "spawn"
                           /\ call'[c].pc = "register" <=> call[c].pc = "register"
    BY <1>4
  <2>3. ObjectsOK
    BY DEF SchedInv
  <2> QED
    BY <1>2, <1>4, <2>1, <2>2, <2>3 DEF ObjectsOK
<1>8. \A q \in Runners : run'[q].obj = run[q].obj \/ (q = r /\ run'[q] = OffRunner)
  BY <1>1, <1>6
<1>9. OnlyEarly => OnlyEarly'
  BY <1>1, <1>2, <1>6 DEF OnlyEarly, On, OffRunner
<1>10. ASSUME ~raced' PROVE CallsOK'
  <2>1. CallsOK
    BY <1>2, <1>10 DEF SchedInv
  <2>2. \A e \in Entries : Goroutines(e)' \subseteq Goroutines(e)
    BY <1>8, EntriesAssumption DEF Goroutines, OffRunner
  <2>3. \A c \in Callers : call[c].pc = "spawn" => call[c].obj \in Entries
    BY DEF SchedInv, ObjectsOK, SchedTypeOK
  <2> QED
    BY <1>2, <1>4, <1>9, <2>1, <2>2, <2>3 DEF CallsOK, Goroutines
<1>11. ASSUME ~raced' PROVE AtMostOne'
  BY <1>2, <1>8, <1>11, EntriesAssumption DEF SchedInv, AtMostOne, Goroutines, OffRunner
<1>12. ASSUME ~raced' PROVE LiveOK'
  <2>1. SUFFICES ASSUME ~paused, ~stopped PROVE ContextsLive' /\ Attended'
    BY <1>2 DEF LiveOK
  <2>2. ContextsLive /\ Attended
    BY <1>2, <1>12, <2>1 DEF SchedInv, LiveOK
  <2>3. ContextsLive'
    BY <1>2, <1>4, <2>2 DEF ContextsLive, Listed
  <2>4. ASSUME NEW e \in Listed \intersect enabled, ~Under({"relaunch"}), NEW q \in Runners, Waiting(q, e)
        PROVE  Waiting(q, e)'
    <3>1. ~Cancelled(e, ctx[e])
      BY <2>1, <2>2, <2>4 DEF ContextsLive, Cancelled
    <3>2. CASE q # r
      BY <1>2, <1>6, <2>4, <3>2 DEF Waiting
    <3>3. CASE q = r
      <4>1. x # OffRunner
        BY <1>1, <1>2, <2>4, <3>1, <3>3 DEF Waiting, OffRunner
      <4> QED
        BY <1>1, <1>2, <1>6, <2>4, <3>3, <4>1 DEF Waiting
    <3> QED
      BY <3>2, <3>3
  <2>5. Attended'
    <3>1. SUFFICES ASSUME NEW e \in Listed \intersect enabled, ~Under({"relaunch"})
                   PROVE  \/ \E c \in Callers : call'[c].pc = "spawn" /\ call'[c].obj = e
                          \/ \E q \in Runners : Waiting(q, e)'
      BY <1>2, <1>4 DEF Attended, Listed
    <3>2. CASE \E c \in Callers : call[c].pc = "spawn" /\ call[c].obj = e
      BY <1>4, <3>2
    <3>3. CASE \E q \in Runners : Waiting(q, e)
      BY <2>4, <3>1, <3>3
    <3> QED
      BY <2>2, <3>1, <3>2, <3>3 DEF Attended
  <2> QED
    BY <2>3, <2>5
<1> QED
  BY <1>2, <1>5, <1>7, <1>10, <1>11, <1>12 DEF SchedInv

-----------------------------------------------------------------------------
(* A caller moves to a record of its own, the others stay.                 *)
Moves(c, z) == z \in CallRecord /\ call' = [call EXCEPT ![c] = z]

LEMMA MovesOK ==
    ASSUME SchedTypeOK, NEW c \in Callers, NEW z, Moves(c, z)
    PROVE  /\ call' \in [Callers -> CallRecord]
           /\ call'[c] = z /\ \A d \in Callers : d # c => call'[d] = call[d]
BY DEF SchedTypeOK, Moves

LEMMA CallRecords ==
    /\ IdleCall \in CallRecord /\ IdleCall.pc = "idle"
    /\ \A p \in CallPcs : LET z == [IdleCall EXCEPT !.pc = p] IN z \in CallRecord /\ z.pc = p
    /\ \A z \in CallRecord, p \in CallPcs :
          LET y == [z EXCEPT !.pc = p] IN y \in CallRecord /\ y.pc = p
BY DEF IdleCall, CallRecord, CallPcs

(* Pause and Stop begin: nothing runs differently yet.                     *)
LEMMA SchedPause ==
    ASSUME SchedInv, ~Crashed, NEW c \in Callers, Pause(c) \/ Stop(c)
    PROVE  SchedInv'
<1>1. PICK z \in CallRecord :
         /\ z.pc \in {"cancel", "join"}
         /\ call' = [call EXCEPT ![c] = z] /\ calls' = calls + 1
         /\ raced' = (raced \/ Under({"relaunch", "spawn"}))
         /\ UNCHANGED <<entries, enabled, made, ctx, cancelled, run, early>>
         /\ stopped' \in BOOLEAN /\ paused' \in BOOLEAN
         /\ (paused' = TRUE /\ stopped' = stopped) \/ (stopped' = TRUE /\ paused' = paused)
  <2>1. CASE Pause(c)
    <3>1. call' = [call EXCEPT ![c] = [IdleCall EXCEPT !.pc = "cancel"]]
      BY <2>1 DEF Pause, Begin
    <3>2. [IdleCall EXCEPT !.pc = "cancel"] \in CallRecord /\ [IdleCall EXCEPT !.pc = "cancel"].pc = "cancel"
      BY CallRecords DEF CallPcs
    <3> QED
      BY <2>1, <3>1, <3>2 DEF Pause, Begin, SchedInv, SchedTypeOK
  <2>2. CASE Stop(c)
    <3>1. call' = [call EXCEPT ![c] = [IdleCall EXCEPT !.pc = "join"]]
      BY <2>2 DEF Stop, Begin
    <3>2. [IdleCall EXCEPT !.pc = "join"] \in CallRecord /\ [IdleCall EXCEPT !.pc = "join"].pc = "join"
      BY CallRecords DEF CallPcs
    <3> QED
      BY <2>2, <3>1, <3>2 DEF Stop, Begin, SchedInv, SchedTypeOK
  <2> QED
    BY <2>1, <2>2
<1>2. /\ call' \in [Callers -> CallRecord]
      /\ call'[c] = z /\ \A d \in Callers : d # c => call'[d] = call[d]
  BY <1>1, MovesOK DEF SchedInv, Moves
<1>3. SchedTypeOK'
  BY <1>1, <1>2 DEF SchedInv, SchedTypeOK
<1>4. ObjectsOK'
  BY <1>1, <1>2 DEF SchedInv, ObjectsOK
<1>5. ASSUME ~raced' PROVE CallsOK' /\ AtMostOne' /\ LiveOK'
  <2>1. CallsOK /\ AtMostOne /\ LiveOK /\ ~Under({"relaunch", "spawn"})
    BY <1>1, <1>5 DEF SchedInv
  <2>2. ~Under({"spawn", "relaunch"})' /\ Under(PausePcs)' /\ (paused' \/ stopped')
    BY <1>1, <1>2, <2>1 DEF Under, PausePcs
  <2>3. CallsOK'
    BY <2>2 DEF CallsOK, Under
  <2>4. AtMostOne'
    BY <1>1, <2>1 DEF AtMostOne, Goroutines
  <2> QED
    BY <2>2, <2>3, <2>4 DEF LiveOK
<1> QED
  BY <1>3, <1>4, <1>5 DEF SchedInv

(* The second section of Pause, and the waiting of Pause and Stop.         *)
LEMMA SchedWait ==
    ASSUME SchedInv, ~Crashed, NEW c \in Callers, CancelAll(c) \/ Join(c) \/ Joined(c)
    PROVE  SchedInv'
<1>1. PICK z \in CallRecord :
         /\ call[c].pc \in PausePcs
         /\ z.pc \in PausePcs \union {"idle", "crashed"}
         /\ z.pc = "idle" => On = {}
         /\ call' = [call EXCEPT ![c] = z]
         /\ UNCHANGED <<entries, enabled, made, ctx, stopped, paused, calls, run, early, raced>>
         /\ cancelled' = cancelled \/ cancelled' = cancelled \union Cancels
  <2>1. call[c] \in CallRecord
    BY DEF SchedInv, SchedTypeOK
  <2>2. CASE CancelAll(c)
    <3>1. call' = [call EXCEPT ![c] = [call[c] EXCEPT !.pc = "join"]]
      BY <2>1, <2>2 DEF CancelAll, CallRecord
    <3>2. [call[c] EXCEPT !.pc = "join"] \in CallRecord /\ [call[c] EXCEPT !.pc = "join"].pc = "join"
      BY <2>1, CallRecords DEF CallPcs
    <3> QED
      BY <2>2, <3>1, <3>2 DEF CancelAll, PausePcs
  <2>3. CASE Join(c)
    <3>1. call' = [call EXCEPT ![c] = IF Waits THEN [call[c] EXCEPT !.pc = "wait"] ELSE IdleCall]
      BY <2>1, <2>3 DEF Join, CallRecord
    <3>2. [call[c] EXCEPT !.pc = "wait"] \in CallRecord /\ [call[c] EXCEPT !.pc = "wait"].pc = "wait"
      BY <2>1, CallRecords DEF CallPcs
    <3> QED
      BY <2>3, <3>1, <3>2, CallRecords DEF Join, PausePcs, Waits
  <2>4. CASE Joined(c)
    <3>1. call' = [call EXCEPT ![c] = IF On = {} THEN IdleCall ELSE [call[c] EXCEPT !.pc = "crashed"]]
      BY <2>1, <2>4 DEF Joined, CallRecord
    <3>2. [call[c] EXCEPT !.pc = "crashed"] \in CallRecord /\ [call[c] EXCEPT !.pc = "crashed"].pc = "crashed"
      BY <2>1, CallRecords DEF CallPcs
    <3> QED
      BY <2>4, <3>1, <3>2, CallRecords DEF Joined, PausePcs
  <2> QED
    BY <2>2, <2>3, <2>4
<1>2. /\ call' \in [Callers -> CallRecord]
      /\ call'[c] = z /\ \A d \in Callers : d # c => call'[d] = call[d]
  BY <1>1, MovesOK DEF SchedInv, Moves
<1>3. /\ Cancels \subseteq made \X Nat
      /\ \A p \in Cancels : p[2] <= ctx[p[1]]
  BY EntriesAssumption DEF Cancels, Listed, SchedInv, SchedTypeOK, ObjectsOK
<1>4. SchedTypeOK'
  BY <1>1, <1>2, <1>3 DEF SchedInv, SchedTypeOK
<1>5. ObjectsOK'
  BY <1>1, <1>2, <1>3 DEF SchedInv, ObjectsOK, PausePcs
<1>6. ASSUME ~raced' PROVE CallsOK' /\ AtMostOne' /\ LiveOK'
  <2>1. CallsOK /\ AtMostOne /\ LiveOK /\ Under(PausePcs)
    BY <1>1, <1>6 DEF SchedInv, Under
  <2>2. ~Under({"spawn", "relaunch"}) /\ (paused \/ stopped)
    BY <2>1 DEF CallsOK
  <2>3. ~Under({"spawn", "relaunch"})' /\ (paused' \/ stopped')
    BY <1>1, <1>2, <2>2 DEF Under, PausePcs
  <2>4. paused' /\ ~Crashed' /\ ~Under(PausePcs)' => OnlyEarly'
    BY <1>1, <1>2 DEF Crashed, Under, OnlyEarly, On
  <2>5. CallsOK'
    BY <2>3, <2>4 DEF CallsOK, Under
  <2>6. AtMostOne'
    BY <1>1, <2>1 DEF AtMostOne, Goroutines
  <2> QED
    BY <2>3, <2>5, <2>6 DEF LiveOK
<1> QED
  BY <1>4, <1>5, <1>6 DEF SchedInv

(* The first section of Resume.                                            *)
LEMMA SchedResume ==
    ASSUME SchedInv, ~Crashed, NEW c \in Callers, Resume(c)
    PROVE  SchedInv'
<1> DEFINE z == [IdleCall EXCEPT !.pc = "relaunch"]
<1>1. z \in CallRecord /\ z.pc = "relaunch" /\ call' = [call EXCEPT ![c] = z]
  BY CallRecords DEF CallPcs, Resume, Begin
<1> HIDE DEF z
<1>2. /\ call' \in [Callers -> CallRecord]
      /\ call'[c] = z /\ \A d \in Callers : d # c => call'[d] = call[d]
  BY <1>1, MovesOK DEF SchedInv, Moves
<1>3. SchedTypeOK'
  <2>1. /\ paused' \in BOOLEAN /\ calls' = calls + 1 /\ raced' \in BOOLEAN
        /\ UNCHANGED <<entries, enabled, made, ctx, cancelled, stopped, run, early>>
    BY DEF Resume, Begin
  <2> QED
    BY <1>2, <2>1 DEF SchedInv, SchedTypeOK
<1>4. ObjectsOK'
  BY <1>1, <1>2 DEF SchedInv, ObjectsOK, Resume
<1>5. ASSUME ~raced' PROVE CallsOK' /\ AtMostOne' /\ LiveOK'
  <2>1. CallsOK /\ AtMostOne /\ ~Under(PausePcs \union {"relaunch", "spawn"})
    BY <1>5 DEF SchedInv, Resume
  <2>2. OnlyEarly
    BY <2>1 DEF CallsOK, Resume, Under
  <2>3. /\ ~Under(PausePcs)' /\ ~Under({"spawn"})' /\ ~paused' /\ OnlyEarly'
        /\ \A d \in Callers : call'[d].pc = "relaunch" => d = c
    BY <1>1, <1>2, <2>1, <2>2 DEF Under, PausePcs, OnlyEarly, On, Resume
  <2>4. CallsOK'
    BY <2>3 DEF CallsOK, Under
  <2>5. AtMostOne'
    BY <2>1 DEF AtMostOne, Goroutines, Resume
  <2>6. Under({"relaunch"})'
    BY <1>1, <1>2 DEF Under
  <2> QED
    BY <2>4, <2>5, <2>6 DEF LiveOK, ContextsLive, Attended
<1> QED
  BY <1>3, <1>4, <1>5 DEF SchedInv

-----------------------------------------------------------------------------
(* The section of a registration under mu, and the two calls it is part of. *)
LEMMA SchedEnlist ==
    ASSUME SchedInv, ~Crashed, NEW c \in Callers, NEW n \in Names, call[c].pc \in {"idle", "register"},
           entries[n] = NoEntry, Enlist(c, n), calls' \in Nat,
           UNCHANGED <<ctx, cancelled, stopped, paused, run>>
    PROVE  SchedInv'
<1>1. PICK e \in Entries \ made, on \in BOOLEAN :
        /\ entries' = [entries EXCEPT ![n] = e]
        /\ made' = made \union {e}
        /\ enabled' = IF on THEN enabled \union {e} ELSE enabled
        /\ early' = IF paused THEN early \union {e} ELSE early
        /\ raced' = (raced \/ Under(PausePcs \union {"relaunch"}))
        /\ call' = [call EXCEPT ![c] = IF on THEN [pc |-> "spawn", name |-> n, obj |-> e]
                                       ELSE IdleCall]
  BY DEF Enlist
<1> DEFINE z == IF on THEN [pc |-> "spawn", name |-> n, obj |-> e] ELSE IdleCall
<1>2. z \in CallRecord /\ (on => z.pc = "spawn" /\ z.obj = e) /\ (~on => z.pc = "idle")
  BY CallRecords DEF CallRecord, CallPcs
<1>3. call' = [call EXCEPT ![c] = z]
  BY <1>1
<1> HIDE DEF z
<1>4. /\ call' \in [Callers -> CallRecord]
      /\ call'[c] = z /\ \A d \in Callers : d # c => call'[d] = call[d]
  BY <1>2, <1>3, MovesOK DEF SchedInv, Moves
<1>5. e \in Entries /\ e \notin made /\ e # NoEntry /\ e \notin early /\ e \notin enabled
  BY EntriesAssumption DEF SchedInv, SchedTypeOK
<1>6. SchedTypeOK'
  <2>1. entries' \in [Names -> Entries \union {NoEntry}]
    BY <1>1 DEF SchedInv, SchedTypeOK
  <2>2. cancelled' \subseteq made' \X Nat
    BY <1>1 DEF SchedInv, SchedTypeOK
  <2>3. enabled' \subseteq made' /\ early' \subseteq made' /\ made' \subseteq Entries /\ raced' \in BOOLEAN
    BY <1>1 DEF SchedInv, SchedTypeOK
  <2> QED
    BY <1>4, <2>1, <2>2, <2>3 DEF SchedInv, SchedTypeOK
<1>7. /\ entries'[n] = e /\ \A m \in Names : m # n => entries'[m] = entries[m]
      /\ Listed' = Listed \union {e} /\ e \notin Listed
  <2>1. entries'[n] = e /\ \A m \in Names : m # n => entries'[m] = entries[m]
    BY <1>1 DEF SchedInv, SchedTypeOK
  <2>2. e \notin Listed
    BY <1>5 DEF Listed, SchedInv, ObjectsOK
  <2> QED
    BY <1>5, <2>1, <2>2 DEF Listed
<1>8. ObjectsOK'
  <2>1. ObjectsOK
    BY DEF SchedInv
  <2>2. /\ \A m \in Names : entries'[m] \in made' \union {NoEntry}
        /\ \A m, k \in Names : entries'[m] = entries'[k] /\ entries'[m] # NoEntry => m = k
    BY <1>1, <1>5, <1>7, <2>1 DEF ObjectsOK
  <2>3. \A r \in Runners : IF run'[r].pc = "off" THEN run'[r].obj = NoEntry ELSE run'[r].obj \in made'
    BY <1>1, <2>1 DEF ObjectsOK
  <2>4. /\ \A d \in Callers : call'[d].pc = "spawn" => call'[d].obj \in made'
        /\ \A d \in Callers : call'[d].pc = "register" => call'[d].name \in Names
        /\ \A d, k \in Callers :
              call'[d].pc = "spawn" /\ call'[k].pc = "spawn" /\ call'[d].obj = call'[k].obj => d = k
    BY <1>1, <1>2, <1>4, <1>5, <2>1 DEF ObjectsOK
  <2> QED
    BY <2>1, <2>2, <2>3, <2>4 DEF ObjectsOK
<1>9. \A r \in Runners : run[r].obj # e
  BY <1>5 DEF SchedInv, ObjectsOK
<1>10. ASSUME ~raced' PROVE CallsOK' /\ AtMostOne' /\ LiveOK'
  <2>1. CallsOK /\ AtMostOne /\ LiveOK /\ ~Under(PausePcs \union {"relaunch"})
    BY <1>1, <1>10 DEF SchedInv
  <2>2. ~Under(PausePcs)' /\ ~Under({"relaunch"})' /\ ~Under({"relaunch"}) /\ ~Under(PausePcs)
    BY <1>2, <1>4, <2>1 DEF Under, PausePcs
  <2>8. run' = run /\ paused' = paused /\ early \subseteq early' /\ (paused => e \in early')
    BY <1>1
  <2>3. ASSUME NEW d \in Callers, call'[d].pc = "spawn"
        PROVE  /\ paused' => call'[d].obj \in early'
               /\ (call[d].obj \notin early => Goroutines(call[d].obj) = {})'
    <3>1. CASE d = c
      BY <1>2, <1>4, <1>9, <2>3, <2>8, <3>1 DEF Goroutines
    <3>2. CASE d # c
      BY <1>4, <2>1, <2>3, <2>8, <3>2 DEF CallsOK, Goroutines
    <3> QED
      BY <3>1, <3>2
  <2>4. paused' /\ ~Crashed' /\ ~Under(PausePcs)' => OnlyEarly'
    <3>1. paused => OnlyEarly
      BY <2>1, <2>2 DEF CallsOK
    <3> QED
      BY <2>8, <3>1 DEF OnlyEarly, On
  <2>5. CallsOK'
    BY <2>2, <2>3, <2>4 DEF CallsOK, Under
  <2>6. AtMostOne'
    BY <1>1, <2>1 DEF AtMostOne, Goroutines
  <2>7. LiveOK'
    <3>1. SUFFICES ASSUME ~paused, ~stopped PROVE ContextsLive' /\ Attended'
      BY DEF LiveOK
    <3>2. ContextsLive /\ Attended
      BY <2>1, <3>1 DEF LiveOK
    <3>3. ContextsLive'
      BY <1>5, <1>7, <2>2, <3>2 DEF ContextsLive, SchedInv, SchedTypeOK
    <3>4. ASSUME NEW x \in Listed' \intersect enabled'
          PROVE  \/ \E d \in Callers : call'[d].pc = "spawn" /\ call'[d].obj = x
                 \/ \E r \in Runners : Waiting(r, x)'
      <4>1. CASE x = e
        BY <1>1, <1>2, <1>4, <1>5, <3>4, <4>1
      <4>2. CASE x # e
        <5>1. x \in Listed \intersect enabled
          BY <1>1, <1>7, <3>4, <4>2
        <5>2. \/ \E d \in Callers : call[d].pc = "spawn" /\ call[d].obj = x
              \/ \E r \in Runners : Waiting(r, x)
          BY <2>2, <3>2, <5>1 DEF Attended
        <5> QED
          BY <1>4, <5>2 DEF Waiting
      <4> QED
        BY <4>1, <4>2
    <3> QED
      BY <3>3, <3>4 DEF Attended
  <2> QED
    BY <2>5, <2>6, <2>7
<1> QED
  BY <1>6, <1>8, <1>10 DEF SchedInv

(* A registration, on its own or after the name's removal.                 *)
LEMMA SchedRegister ==
    ASSUME SchedInv, ~Crashed, NEW c \in Callers, RegisterAndStart(c) \/ Reregister(c)
    PROVE  SchedInv'
<1>1. CASE RegisterAndStart(c)
  <2>1. calls' \in Nat
    BY <1>1 DEF RegisterAndStart, SchedInv, SchedTypeOK
  <2> QED
    BY <1>1, <2>1, SchedEnlist DEF RegisterAndStart
<1>2. CASE Reregister(c)
  <2>1. call[c].pc = "register" /\ call[c].name \in Names /\ calls' \in Nat
    BY <1>2 DEF Reregister, SchedInv, ObjectsOK, SchedTypeOK
  <2>2. CASE entries[call[c].name] = NoEntry
    BY <1>2, <2>1, <2>2, SchedEnlist DEF Reregister
  <2>3. CASE entries[call[c].name] # NoEntry
    <3>1. /\ call' = [call EXCEPT ![c] = IdleCall] /\ IdleCall \in CallRecord /\ IdleCall.pc = "idle"
          /\ UNCHANGED <<entries, enabled, made, ctx, cancelled, stopped, paused, run, calls, early, raced>>
      BY <1>2, <2>3, CallRecords DEF Reregister
    <3>2. /\ call' \in [Callers -> CallRecord]
          /\ call'[c] = IdleCall /\ \A d \in Callers : d # c => call'[d] = call[d]
      BY <3>1, MovesOK DEF SchedInv, Moves
    <3>3. SchedTypeOK' /\ ObjectsOK'
      BY <3>1, <3>2 DEF SchedInv, SchedTypeOK, ObjectsOK
    <3>4. ASSUME ~raced PROVE CallsOK' /\ AtMostOne' /\ LiveOK'
      <4>1. CallsOK /\ AtMostOne /\ LiveOK
        BY <3>4 DEF SchedInv
      <4>2. \A pcs \in {PausePcs, {"relaunch"}, {"spawn"}, {"spawn", "relaunch"}} : Under(pcs)' = Under(pcs)
        BY <2>1, <3>1, <3>2 DEF Under, PausePcs
      <4>3. Crashed' = Crashed /\ OnlyEarly' = OnlyEarly
        BY <2>1, <3>1, <3>2 DEF Crashed, OnlyEarly, On
      <4>4. CallsOK'
        BY <3>1, <3>2, <4>1, <4>2, <4>3 DEF CallsOK, Goroutines
      <4>5. AtMostOne'
        BY <3>1, <4>1 DEF AtMostOne, Goroutines
      <4>6. LiveOK'
        BY <2>1, <3>1, <3>2, <4>1, <4>2 DEF LiveOK, ContextsLive, Attended, Waiting, Listed
      <4> QED
        BY <4>4, <4>5, <4>6
    <3> QED
      BY <3>1, <3>3, <3>4 DEF SchedInv
  <2> QED
    BY <2>2, <2>3
<1> QED
  BY <1>1, <1>2

-----------------------------------------------------------------------------
(* The goroutine of a registration is launched.                            *)
LEMMA SchedSpawn ==
    ASSUME SchedInv, ~Crashed, NEW c \in Callers, Spawn(c)
    PROVE  SchedInv'
<1> DEFINE g == CHOOSE x \in Off : TRUE
           e == call[c].obj
           y == [pc |-> "go", obj |-> e, ctx |-> 0]
<1>1. /\ g \in Runners /\ run[g].pc = "off"
      /\ call[c].pc = "spawn" /\ e \in made /\ e \in Entries /\ e # NoEntry
      /\ run' = [run EXCEPT ![g] = y] /\ y \in RunRecord
      /\ call' = [call EXCEPT ![c] = IdleCall]
      /\ UNCHANGED <<entries, enabled, made, ctx, cancelled, stopped, paused, calls, early, raced>>
  <2>1. g \in Off
    BY DEF Spawn
  <2>2. call[c].pc = "spawn" /\ e \in made /\ e \in Entries /\ e # NoEntry
    BY EntriesAssumption DEF Spawn, SchedInv, ObjectsOK, SchedTypeOK
  <2>3. y \in RunRecord
    BY <2>2 DEF RunRecord, RunPcs
  <2> QED
    BY <2>1, <2>2, <2>3 DEF Spawn, Off, On
<1>2. y.pc = "go" /\ y.obj = e
  OBVIOUS
<1> HIDE DEF g, y
<1>3. /\ call' \in [Callers -> CallRecord]
      /\ call'[c] = IdleCall /\ \A d \in Callers : d # c => call'[d] = call[d]
  BY <1>1, CallRecords, MovesOK DEF SchedInv, Moves
<1>4. run'[g] = y /\ \A r \in Runners : r # g => run'[r] = run[r]
  BY <1>1 DEF SchedInv, SchedTypeOK
<1>5. SchedTypeOK'
  BY <1>1, <1>3 DEF SchedInv, SchedTypeOK
<1>6. ObjectsOK'
  <2>1. ObjectsOK
    BY DEF SchedInv
  <2>2. \A r \in Runners : IF run'[r].pc = "off" THEN run'[r].obj = NoEntry ELSE run'[r].obj \in made
    BY <1>1, <1>2, <1>4, <2>1 DEF ObjectsOK
  <2> QED
    BY <1>1, <1>3, <2>1, <2>2, CallRecords DEF ObjectsOK
<1>7. ASSUME ~raced' PROVE CallsOK' /\ AtMostOne' /\ LiveOK'
  <2>1. CallsOK /\ AtMostOne /\ LiveOK
    BY <1>1, <1>7 DEF SchedInv
  <2>2. Under({"spawn"}) /\ Under({"spawn", "relaunch"})
    BY <1>1 DEF Under
  <2>3. ~Under(PausePcs) /\ ~Under({"relaunch"})
    BY <2>1, <2>2 DEF CallsOK
  <2>4. ~Under(PausePcs)' /\ ~Under({"relaunch"})'
    BY <1>3, <2>3, CallRecords DEF Under, PausePcs
  <2>5. /\ paused => e \in early
        /\ e \notin early => Goroutines(e) = {}
    BY <1>1, <2>1 DEF CallsOK
  <2>6. \A d \in Callers : call'[d].pc = "spawn" =>
           d # c /\ call[d].pc = "spawn" /\ call'[d].obj = call[d].obj /\ call[d].obj # e
    BY <1>1, <1>3, CallRecords DEF SchedInv, ObjectsOK
  <2>7. ASSUME NEW d \in Callers, call'[d].pc = "spawn"
        PROVE  /\ (paused => call[d].obj \in early)'
               /\ (call[d].obj \notin early => Goroutines(call[d].obj) = {})'
    <3>1. /\ paused => call[d].obj \in early
          /\ call[d].obj \notin early => Goroutines(call[d].obj) = {}
      BY <2>1, <2>6, <2>7 DEF CallsOK
    <3> QED
      BY <1>1, <1>2, <1>4, <2>6, <2>7, <3>1 DEF Goroutines
  <2>8. paused' => OnlyEarly'
    <3>1. paused => OnlyEarly
      BY <2>1, <2>3 DEF CallsOK
    <3> QED
      BY <1>1, <1>2, <1>4, <2>5, <3>1 DEF OnlyEarly, On
  <2>9. CallsOK'
    BY <2>4, <2>7, <2>8 DEF CallsOK, Under
  <2>10. AtMostOne'
    BY <1>1, <1>2, <1>4, <2>1, <2>5 DEF AtMostOne, Goroutines
  <2>11. LiveOK'
    <3>1. SUFFICES ASSUME ~paused, ~stopped PROVE ContextsLive' /\ Attended'
      BY <1>1 DEF LiveOK
    <3>2. ContextsLive /\ Attended
      BY <2>1, <3>1 DEF LiveOK
    <3>3. ContextsLive'
      BY <1>1, <2>3, <3>2 DEF ContextsLive, Listed
    <3>4. ASSUME NEW x \in Listed \intersect enabled
          PROVE  \/ \E d \in Callers : call'[d].pc = "spawn" /\ call'[d].obj = x
                 \/ \E r \in Runners : Waiting(r, x)'
      <4>1. CASE x = e
        BY <1>1, <1>2, <1>4, <4>1 DEF Waiting
      <4>2. CASE x # e /\ \E d \in Callers : call[d].pc = "spawn" /\ call[d].obj = x
        BY <1>3, <4>2
      <4>3. CASE \E r \in Runners : Waiting(r, x)
        <5>1. PICK r \in Runners : Waiting(r, x)
          BY <4>3
        <5>2. x # NoEntry
          BY DEF Listed
        <5>3. r # g
          BY <1>1, <5>1, <5>2 DEF Waiting, SchedInv, ObjectsOK
        <5> QED
          BY <1>1, <1>4, <5>1, <5>3 DEF Waiting
      <4> QED
        BY <2>3, <3>2, <4>1, <4>2, <4>3 DEF Attended
    <3> QED
      BY <1>1, <3>3, <3>4 DEF Attended, Listed
  <2> QED
    BY <2>9, <2>10, <2>11
<1> QED
  BY <1>1, <1>5, <1>6, <1>7 DEF SchedInv

(* An entry is taken out of the map, and its context is cancelled.         *)
LEMMA SchedUnregister ==
    ASSUME SchedInv, ~Crashed, NEW c \in Callers, Unregister(c)
    PROVE  SchedInv'
<1>1. PICK n \in Names, next \in {"idle", "register"} :
         /\ entries[n] # NoEntry
         /\ Drop(n)
         /\ Begin(c, [IdleCall EXCEPT !.pc = next, !.name = IF next = "idle" THEN "none" ELSE n])
         /\ UNCHANGED <<enabled, made, ctx, stopped, paused, run, early, raced>>
  BY DEF Unregister
<1> DEFINE z == [IdleCall EXCEPT !.pc = next, !.name = IF next = "idle" THEN "none" ELSE n]
           e == entries[n]
<1>2. z \in CallRecord /\ z.pc \in {"idle", "register"} /\ (z.pc = "register" => z.name \in Names)
  BY DEF IdleCall, CallRecord, CallPcs
<1>3. call' = [call EXCEPT ![c] = z] /\ call[c].pc = "idle" /\ calls' = calls + 1
  BY <1>1 DEF Begin
<1> HIDE DEF z
<1>4. /\ call' \in [Callers -> CallRecord]
      /\ call'[c] = z /\ \A d \in Callers : d # c => call'[d] = call[d]
  BY <1>2, <1>3, MovesOK DEF SchedInv, Moves
<1>5. /\ e \in made /\ e \in Entries
      /\ cancelled' = cancelled \union {<<e, ctx[e]>>}
      /\ entries'[n] = NoEntry /\ \A m \in Names : m # n => entries'[m] = entries[m] /\ entries[m] # e
  BY <1>1 DEF Drop, SchedInv, SchedTypeOK, ObjectsOK
<1>6. Listed' \subseteq Listed /\ e \notin Listed'
  BY <1>1, <1>5 DEF Listed
<1>7. SchedTypeOK'
  <2>1. entries' \in [Names -> Entries \union {NoEntry}]
    BY <1>1 DEF SchedInv, SchedTypeOK, Drop
  <2>2. cancelled' \subseteq made \X Nat
    BY <1>5 DEF SchedInv, SchedTypeOK
  <2> QED
    BY <1>1, <1>3, <1>4, <2>1, <2>2 DEF SchedInv, SchedTypeOK
<1>8. ObjectsOK'
  <2>1. ObjectsOK
    BY DEF SchedInv
  <2>2. \A p \in cancelled' : p[2] <= ctx[p[1]]
    BY <1>5, <2>1 DEF ObjectsOK, SchedInv, SchedTypeOK
  <2>3. /\ \A m \in Names : entries'[m] \in made \union {NoEntry}
        /\ \A m, k \in Names : entries'[m] = entries'[k] /\ entries'[m] # NoEntry => m = k
    BY <1>5, <2>1 DEF ObjectsOK
  <2>4. /\ \A d \in Callers : call'[d].pc = "spawn" => call'[d].obj \in made
        /\ \A d \in Callers : call'[d].pc = "register" => call'[d].name \in Names
        /\ \A d, k \in Callers :
              call'[d].pc = "spawn" /\ call'[k].pc = "spawn" /\ call'[d].obj = call'[k].obj => d = k
    BY <1>2, <1>4, <2>1 DEF ObjectsOK
  <2> QED
    BY <1>1, <2>1, <2>2, <2>3, <2>4 DEF ObjectsOK
<1>9. ASSUME ~raced' PROVE CallsOK' /\ AtMostOne' /\ LiveOK'
  <2>1. CallsOK /\ AtMostOne /\ LiveOK
    BY <1>1, <1>9 DEF SchedInv
  <2>2. \A pcs \in {PausePcs, {"relaunch"}, {"spawn"}, {"spawn", "relaunch"}} : Under(pcs)' = Under(pcs)
    BY <1>2, <1>3, <1>4 DEF Under, PausePcs
  <2>3. Crashed' = Crashed /\ OnlyEarly' = OnlyEarly
    BY <1>1, <1>2, <1>3, <1>4 DEF Crashed, OnlyEarly, On
  <2>4. \A d \in Callers, p \in {"spawn", "relaunch"} :
           /\ call'[d].pc = p <=> call[d].pc = p
           /\ call[d].pc = p => call'[d] = call[d]
    BY <1>2, <1>3, <1>4
  <2>5. CallsOK'
    BY <1>1, <2>1, <2>2, <2>3, <2>4 DEF CallsOK, Goroutines
  <2>6. AtMostOne'
    BY <1>1, <2>1 DEF AtMostOne, Goroutines
  <2>7. LiveOK'
    <3>1. SUFFICES ASSUME ~paused, ~stopped PROVE ContextsLive' /\ Attended'
      BY <1>1 DEF LiveOK
    <3>2. ContextsLive /\ Attended
      BY <2>1, <3>1 DEF LiveOK
    <3>3. ContextsLive'
      BY <1>1, <1>5, <1>6, <2>2, <3>2 DEF ContextsLive
    <3>4. Attended'
      BY <1>1, <1>6, <2>2, <2>4, <3>2 DEF Attended, Waiting
    <3> QED
      BY <3>3, <3>4
  <2> QED
    BY <2>5, <2>6, <2>7
<1> QED
  BY <1>1, <1>7, <1>8, <1>9 DEF SchedInv

-----------------------------------------------------------------------------
(* There are no more entries in the map than names.                        *)
LEMMA ListedFinite == SchedTypeOK => IsFiniteSet(Listed)
<1> SUFFICES ASSUME SchedTypeOK PROVE IsFiniteSet(Listed)
  OBVIOUS
<1> DEFINE S == {n \in Names : entries[n] # NoEntry}
           f == [n \in S |-> entries[n]]
<1>1. IsFiniteSet(S)
  BY FS_Subset, RunnersAssumption
<1>2. f \in Surjection(S, Listed)
  BY DEF Surjection, Listed
<1> QED
  BY <1>1, <1>2, FS_Surjection

(* The second section of Resume: every enabled entry gets a goroutine and  *)
(* every listed one a context that nobody cancelled.                       *)
LEMMA SchedRelaunch ==
    ASSUME SchedInv, ~Crashed, NEW c \in Callers, Relaunch(c)
    PROVE  SchedInv'
<1> DEFINE f == Launch(Relaunched, Off)
           go(e) == [pc |-> "go", obj |-> e, ctx |-> 0]
<1>1. f \in [Relaunched -> Off] /\ \A a, b \in Relaunched : f[a] = f[b] => a = b
  <2>1. IsFiniteSet(Relaunched)
    BY ListedFinite, FS_Subset DEF Relaunched, SchedInv
  <2>2. IsFiniteSet(Off)
    BY FS_Subset, RunnersAssumption DEF Off
  <2> QED
    BY <2>1, <2>2, LaunchOK DEF Relaunch
<1>2. run' = [r \in Runners |->
                IF \E e \in Relaunched : f[e] = r
                THEN [pc |-> "go", obj |-> CHOOSE e \in Relaunched : f[e] = r, ctx |-> 0]
                ELSE run[r]]
  BY DEF Relaunch
<1> HIDE DEF f
<1>3. /\ \A e \in Relaunched : f[e] \in Off /\ run'[f[e]] = go(e)
      /\ \A r \in Runners :
            \/ run'[r] = run[r] /\ ~(\E e \in Relaunched : f[e] = r)
            \/ \E e \in Relaunched : r = f[e] /\ run'[r] = go(e)
  <2>1. Off \subseteq Runners
    BY DEF Off
  <2> QED
    BY <1>1, <1>2, <2>1, Launching
<1>4. \A e : go(e).pc = "go" /\ go(e).obj = e /\ (e \in Entries => go(e) \in RunRecord)
  BY DEF RunRecord, RunPcs
<1> HIDE DEF go
<1>5. Relaunched \subseteq Listed /\ Listed \subseteq made /\ Listed \subseteq Entries
      /\ NoEntry \notin Relaunched
  BY DEF Relaunched, Listed, SchedInv, SchedTypeOK, ObjectsOK
<1>6. /\ call[c].pc = "relaunch" /\ call' = [call EXCEPT ![c] = IdleCall]
      /\ ctx' \in [Entries -> Nat]
      /\ \A e \in Entries : ctx'[e] = IF e \in Listed THEN ctx[e] + 1 ELSE ctx[e]
      /\ UNCHANGED <<entries, enabled, made, cancelled, stopped, paused, calls, early, raced>>
  <2>1. ctx' = Renewed
    BY DEF Relaunch
  <2> QED
    BY <2>1 DEF Relaunch, Renewed, SchedInv, SchedTypeOK
<1>7. /\ call' \in [Callers -> CallRecord]
      /\ call'[c] = IdleCall /\ \A d \in Callers : d # c => call'[d] = call[d]
  BY <1>6, CallRecords, MovesOK DEF SchedInv, Moves
<1>8. SchedTypeOK'
  <2>1. run' \in [Runners -> RunRecord]
    <3>1. \A r \in Runners : run'[r] \in RunRecord
      BY <1>3, <1>4, <1>5 DEF SchedInv, SchedTypeOK
    <3> QED
      BY <1>2, <3>1
  <2> QED
    BY <1>6, <1>7, <2>1 DEF SchedInv, SchedTypeOK
<1>9. ObjectsOK'
  <2>1. ObjectsOK
    BY DEF SchedInv
  <2>2. ASSUME NEW r \in Runners
        PROVE  IF run'[r].pc = "off" THEN run'[r].obj = NoEntry ELSE run'[r].obj \in made
    BY <1>3, <1>4, <1>5, <2>1 DEF ObjectsOK
  <2>3. ASSUME NEW p \in cancelled PROVE p[2] <= ctx'[p[1]]
    <3>1. p[2] <= ctx[p[1]] /\ p[1] \in Entries /\ p[2] \in Nat
      BY <2>1 DEF ObjectsOK, SchedInv, SchedTypeOK
    <3>2. ctx[p[1]] <= ctx'[p[1]] /\ ctx[p[1]] \in Nat /\ ctx'[p[1]] \in Nat
      BY <1>6, <3>1 DEF SchedInv, SchedTypeOK
    <3> QED
      BY <3>1, <3>2
  <2> QED
    BY <1>6, <1>7, <2>1, <2>2, <2>3, CallRecords DEF ObjectsOK
<1>10. ASSUME ~raced' PROVE CallsOK' /\ AtMostOne' /\ LiveOK'
  <2>1. CallsOK /\ AtMostOne /\ LiveOK
    BY <1>6, <1>10 DEF SchedInv
  <2>2. Under({"relaunch"}) /\ Under({"spawn", "relaunch"})
    BY <1>6 DEF Under
  <2>3. ~paused /\ ~Under({"spawn"}) /\ ~Under(PausePcs) /\ OnlyEarly
    BY <2>1, <2>2 DEF CallsOK
  <2>4. ~Under({"spawn"})' /\ ~Under(PausePcs)' /\ ~Under({"relaunch"})'
    BY <1>6, <1>7, <2>1, <2>3, CallRecords DEF Under, PausePcs, CallsOK
  <2>5. CallsOK'
    BY <1>6, <2>3, <2>4 DEF CallsOK, Under
  <2>6. ASSUME NEW e \in Entries \ early, NEW r \in Runners, run'[r].obj = e PROVE r = f[e]
    <3>1. run[r].pc = "off" => run[r].obj = NoEntry
      BY DEF SchedInv, ObjectsOK
    <3>2. run'[r] # run[r]
      BY <2>3, <2>6, <3>1, EntriesAssumption DEF OnlyEarly, On
    <3>3. PICK x \in Relaunched : r = f[x] /\ run'[r] = go(x)
      BY <1>3, <3>2
    <3> QED
      BY <1>4, <2>6, <3>3
  <2>7. AtMostOne'
    <3>1. ASSUME NEW e \in Entries \ early, NEW r \in Goroutines(e)', NEW s \in Goroutines(e)' PROVE r = s
      BY <2>6 DEF Goroutines
    <3> QED
      BY <1>6, <3>1 DEF AtMostOne
  <2>8. ContextsLive'
    <3>1. ASSUME NEW e \in Listed PROVE <<e, ctx'[e]>> \notin cancelled
      <4>1. <<e, ctx[e] + 1>> \in cancelled => ctx[e] + 1 <= ctx[e]
        <5>1. ASSUME NEW p \in cancelled, p = <<e, ctx[e] + 1>> PROVE p[2] <= ctx[p[1]]
          BY <5>1 DEF SchedInv, ObjectsOK
        <5> QED
          BY <5>1
      <4>2. ctx[e] \in Nat /\ ctx'[e] = ctx[e] + 1
        BY <1>5, <1>6 DEF SchedInv, SchedTypeOK
      <4> QED
        BY <4>1, <4>2
    <3> QED
      BY <1>6, <3>1 DEF ContextsLive, Listed
  <2>9. Attended'
    <3>1. ASSUME NEW e \in Listed \intersect enabled PROVE \E r \in Runners : Waiting(r, e)'
      <4>1. PICK r \in Runners : r = f[e] /\ run'[r] = go(e)
        BY <1>3 DEF Relaunched, Off
      <4>2. run'[r].obj = e /\ run'[r].pc # "select"
        BY <1>4, <4>1
      <4> QED
        BY <4>2 DEF Waiting
    <3> QED
      BY <1>6, <3>1 DEF Attended, Listed
  <2> QED
    BY <2>5, <2>7, <2>8, <2>9 DEF LiveOK
<1> QED
  BY <1>6, <1>8, <1>9, <1>10 DEF SchedInv

-----------------------------------------------------------------------------
LEMMA SchedStep == SchedInv /\ [Next]_vars => SchedInv'
<1> SUFFICES ASSUME SchedInv, [Next]_vars PROVE SchedInv'
  OBVIOUS
<1>1. CASE UNCHANGED vars
  BY <1>1 DEF vars, SchedInv, SchedTypeOK, ObjectsOK, CallsOK, AtMostOne, LiveOK, ContextsLive,
              Attended, Waiting, OnlyEarly, On, Under, Crashed, Listed, Goroutines
<1>2. ASSUME ~Crashed, NEW c \in Callers, Start(c) \/ Work(c) PROVE SchedInv'
  BY <1>2, SchedPause, SchedResume, SchedRegister, SchedUnregister, SchedWait, SchedRelaunch,
     SchedSpawn DEF Start, Work
<1>3. ASSUME ~Crashed, NEW r \in Runners, Runner(r) PROVE SchedInv'
  BY <1>3, SchedRunner
<1> QED
  BY <1>1, <1>2, <1>3 DEF Next

LEMMA SchedAlways == Spec => []SchedInv
<1>1. Init => SchedInv
  BY SchedInit
<1>2. SchedInv /\ [Next]_vars => SchedInv'
  BY SchedStep
<1> QED
  BY <1>1, <1>2, PTL DEF Spec

(* Whatever pauses, resumes, updates and removals follow each other: a     *)
(* schedule is never run by two goroutines, and between the return of a    *)
(* Pause and the next Resume none runs.                                    *)
THEOREM SchedulesRunOnce == Spec => []OneGoroutineEach
<1>1. SchedInv => OneGoroutineEach
  <2> SUFFICES ASSUME SchedInv, ~raced
               PROVE  /\ \A e \in Entries \ early : Cardinality(Goroutines(e)) <= 1
                      /\ (paused /\ ~Crashed /\ ~Under(PausePcs) => \A r \in On : run[r].obj \in early)
    BY DEF OneGoroutineEach
  <2>1. CallsOK /\ AtMostOne
    BY DEF SchedInv
  <2>2. ASSUME NEW e \in Entries \ early PROVE Cardinality(Goroutines(e)) <= 1
    <3>1. CASE Goroutines(e) = {}
      BY <3>1, FS_EmptySet
    <3>2. CASE Goroutines(e) # {}
      <4>1. PICK r \in Goroutines(e) : TRUE
        BY <3>2
      <4>2. Goroutines(e) = {r}
        BY <2>1, <4>1 DEF AtMostOne
      <4> QED
        BY <4>2, FS_Singleton
    <3> QED
      BY <3>1, <3>2
  <2> QED
    BY <2>1, <2>2 DEF CallsOK, OnlyEarly
<1> QED
  BY <1>1, SchedAlways, PTL

(* No enabled schedule is silently dead: when no call is in progress and   *)
(* nothing is paused or stopped, each has a goroutine that waits on a live *)
(* context.                                                                *)
THEOREM EnabledSchedulesRun == Spec => []EnabledRuns
<1>1. SchedInv => EnabledRuns
  <2> SUFFICES ASSUME SchedInv, AllIdle, ~paused, ~stopped, ~raced, NEW e \in Listed \intersect enabled
               PROVE  \E r \in Goroutines(e) :
                         ~Cancelled(e, IF run[r].pc = "select" THEN run[r].ctx ELSE ctx[e])
    BY DEF EnabledRuns
  <2>1. ContextsLive /\ Attended
    BY DEF SchedInv, LiveOK
  <2>2. \A c \in Callers : call[c].pc = "idle"
    BY DEF AllIdle
  <2>3. ~Under({"relaunch"})
    BY <2>2 DEF Under
  <2>4. PICK r \in Runners : Waiting(r, e)
    BY <2>1, <2>2, <2>3 DEF Attended
  <2>5. <<e, ctx[e]>> \notin cancelled
    BY <2>1, <2>3 DEF ContextsLive
  <2>6. (IF run[r].pc = "select" THEN run[r].ctx ELSE ctx[e]) = ctx[e]
    BY <2>4 DEF Waiting
  <2> QED
    BY <2>4, <2>5, <2>6 DEF Goroutines, Waiting, Cancelled
<1> QED
  BY <1>1, SchedAlways, PTL
=============================================================================
