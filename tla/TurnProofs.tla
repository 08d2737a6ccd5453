----------------------------- MODULE TurnProofs -----------------------------
(* What holds of turns for any number of turns, chats, calls and stoppers, *)
(* and any budget of rounds.                                               *)
EXTENDS TurnProps, SequenceTheorems, TLAPS

Fields == {"pc", "tier", "gen", "rounds", "resp", "todo", "owed", "text", "last", "same",
           "denied", "cache", "records", "ran", "applied", "reason", "spent", "outcome", "saved"}

(* A turn's record has its fields, and those that are counted or run       *)
(* through have their types.                                               *)
Shape(x) ==
    /\ DOMAIN x = Fields
    /\ DOMAIN x.resp = {"calls", "content"}
    /\ x.resp.calls \in Seq(Calls) /\ x.todo \in Seq(Calls)
    /\ x.gen \in Nat /\ x.rounds \in Nat /\ x.owed \in Nat /\ x.same \in Nat
    /\ x.records \in Nat /\ x.ran \in Nat /\ x.applied \in Nat /\ x.spent \in Nat /\ x.saved \in Nat

Early   == {"new", "register", "prepare"}
InRound == {"boundary", "review", "start", "exec"}
AtCall  == {"review", "start", "exec"}

(* The calls that still have to be answered are those of the round that    *)
(* have not come to their turn; outside a round there are none.            *)
Answered(x) ==
    /\ x.owed = Len(x.todo)
    /\ x.pc \notin InRound => x.todo = << >>
    /\ x.pc \in AtCall => x.todo # << >>

(* One completion for the message and for each round, and a last word.     *)
Counted(x) ==
    /\ x.rounds <= MaxRounds
    /\ x.pc \in Early => x.spent = 0 /\ x.rounds = 0
    /\ x.pc \in InRound => x.spent = x.rounds /\ x.rounds > 0
    /\ x.pc \in {"complete", "loop", "finish"} => x.spent = x.rounds + 1
    /\ x.pc = "stopped" => x.spent <= x.rounds + 1
    /\ x.spent <= x.rounds + 2

(* A record for every call that ran; what has been saved is what ran.      *)
Booked(x) ==
    /\ x.applied = x.ran + (IF x.pc = "exec" THEN 1 ELSE 0)
    /\ x.ran <= x.records
    /\ x.pc \in Early => x.ran = 0
    /\ IF x.pc \in {"leave", "end"} THEN x.outcome # "unsaved" => x.saved = x.applied
       ELSE x.saved = 0

(* What a stopped turn's end looks like, by the reason it was stopped for. *)
EndsWell(reason, outcome) ==
    /\ reason \in {"requested", "cancelled"} => outcome \in {"answered", "unsaved"}
    /\ reason \in {"repeated", "rounds"} => outcome \in {"answered", "marked", "unsaved"}

(* Why a turn was stopped is known where its end is decided, and a turn    *)
(* the detector or the budget has stopped has a call to show.              *)
Reasoned(x) ==
    /\ x.pc \in Early \union InRound \union {"complete", "loop", "finish", "nudge"} => x.reason = "none"
    /\ x.pc \in Early => x.same = 0
    /\ x.pc = "boundary" => x.same <= x.records /\ (x.todo = << >> => x.records > 0)
    /\ x.pc \in AtCall => x.same <= x.records + 1
    /\ x.pc \in {"complete", "loop"} => x.same <= x.records /\ (x.rounds > 0 => x.records > 0)
    /\ x.reason \in {"repeated", "rounds"} => x.records > 0
    /\ x.pc = "fail" => x.reason \notin {"requested", "cancelled"}
    /\ x.pc \in {"leave", "end"} => EndsWell(x.reason, x.outcome)

TurnOK(x) == Shape(x) /\ Answered(x) /\ Counted(x) /\ Booked(x) /\ Reasoned(x)

(* The stops raised, and the turns they were raised for.                   *)
StopShape ==
    /\ DOMAIN turn = Turns
    /\ stopGen \in Nat
    /\ active = {t \in Turns : turn[t].pc \notin {"new", "register", "end"}}
    /\ told \subseteq Turns /\ cancelled \subseteq Turns
    /\ handle \in [Turns -> {"none", "requested", "cancelled"}]
    /\ stop \in [Stoppers -> [pc : {"idle", "fireall", "fire"}, left : SUBSET Turns]]
    /\ after \in [Turns -> [calls : Nat, spent : Nat]]

(* A turn has heard of the stops raised for it, and of no others.          *)
Hears(t) ==
    /\ turn[t].gen <= stopGen
    /\ turn[t].pc \notin {"new", "end"} /\ turn[t].gen # stopGen => t \in told
    /\ t \in told => turn[t].pc # "new" /\ (handle[t] # "none" \/ turn[t].gen # stopGen)
    /\ t \in cancelled => handle[t] # "none"
    /\ handle[t] = "requested" => t \in told
    /\ handle[t] = "cancelled" => t \in cancelled
    /\ turn[t].reason = "requested" => t \in told
    /\ turn[t].reason = "cancelled" => t \in cancelled
    /\ t \in told /\ turn[t].pc \in InRound /\ handle[t] = "none" => \E s \in Stoppers : stop[s].pc = "fireall"

(* What it has done since.                                                 *)
Obeys(t) ==
    /\ t \notin told => after[t].spent = 0
    /\ t \notin told \union cancelled => after[t].calls = 0
    /\ turn[t].pc \in Early \union InRound => after[t].spent = 0
    /\ turn[t].pc \in {"complete", "loop", "finish", "stopped"} => after[t].spent <= 1
    /\ turn[t].pc \in {"review", "start"} => after[t].calls = 0
    /\ after[t].spent <= 2 /\ after[t].calls <= 1

TurnInv == StopShape /\ \A t \in Turns : TurnOK(turn[t]) /\ Hears(t) /\ Obeys(t)

-----------------------------------------------------------------------------
(* A turn's own step leaves a turn that is in order.                       *)

(* What a model answers is a sequence of calls.                            *)
LEMMA AnswersAreSequences ==
    \A a \in Answers : a.calls \in Seq(Calls) /\ DOMAIN a = {"calls", "content"}
<1> SUFFICES ASSUME NEW a \in Answers PROVE a.calls \in Seq(Calls) /\ DOMAIN a = {"calls", "content"}
  OBVIOUS
<1>1. a.calls \in Asked \union {<< >>} /\ DOMAIN a = {"calls", "content"}
  BY DEF Answers, Response
<1>2. << >> \in Seq(Calls)
  OBVIOUS
<1>3. CASE a.calls \in Asked
  <2>1. PICK n \in 1 .. MaxFan : a.calls \in [1 .. n -> Calls]
    BY <1>3 DEF Asked
  <2>2. n \in Nat
    BY RoundAssumption
  <2>3. Seq(Calls) = UNION {[1 .. m -> Calls] : m \in Nat}
    BY SeqDef
  <2>4. DOMAIN a = {"calls", "content"}
    BY <1>1
  <2> QED
    BY <2>1, <2>2, <2>3, <2>4
<1> QED
  BY <1>1, <1>2, <1>3

(* A response that has been read asks for nothing.                        *)
LEMMA NoRespHasNoCalls == NoResp.calls \in Seq(Calls) /\ DOMAIN NoResp = {"calls", "content"}
BY DEF NoResp

(* Skipping the rest of a round leaves nothing to answer.                  *)
LEMMA CutShortIsOK ==
    ASSUME NEW x, NEW r, Shape(x), Answered(x), Counted(x), Booked(x),
           x.pc \in {"boundary", "review"}, r = "repeated" => x.records > 0, r # "rounds"
    PROVE  TurnOK(CutShort(x, r))
<1>1. Shape(CutShort(x, r))
  BY DEF Shape, Fields, Answered, InRound, AtCall, CutShort, Left, Skip
<1>2. Answered(CutShort(x, r))
  BY DEF Shape, Fields, Answered, InRound, AtCall, CutShort, Left, Skip
<1>3. Counted(CutShort(x, r))
  BY RoundAssumption DEF Shape, Fields, Counted, Early, InRound, CutShort, Left, Skip
<1>4. Booked(CutShort(x, r))
  BY DEF Shape, Fields, Booked, Early, CutShort, Left, Skip
<1>5. Reasoned(CutShort(x, r))
  BY DEF Shape, Fields, Reasoned, EndsWell, Early, InRound, AtCall, CutShort, Left, Skip
<1> QED
  BY <1>1, <1>2, <1>3, <1>4, <1>5 DEF TurnOK

(* A call that is dealt with has its record and its tool message.          *)
LEMMA RecordedIsOK ==
    ASSUME NEW x, Shape(x), Answered(x), Counted(x), x.pc \in InRound, x.todo # << >>,
           x.same <= x.records + 1, x.reason = "none", x.applied = x.ran, x.ran <= x.records + 1, x.saved = 0
    PROVE  TurnOK(Recorded(x))
<1>1. Shape(Recorded(x))
  BY DEF Shape, Fields, Answered, InRound, AtCall, Recorded
<1>2. Answered(Recorded(x))
  BY DEF Shape, Fields, Answered, InRound, AtCall, Recorded
<1>3. Counted(Recorded(x))
  BY DEF Shape, Fields, Counted, Early, InRound, Recorded
<1>4. Booked(Recorded(x))
  BY DEF Shape, Fields, Booked, Early, Recorded
<1>5. Reasoned(Recorded(x))
  BY DEF Shape, Fields, Reasoned, EndsWell, Early, InRound, AtCall, Recorded
<1> QED
  BY <1>1, <1>2, <1>3, <1>4, <1>5 DEF TurnOK

-----------------------------------------------------------------------------
(* A turn begins.                                                          *)
LEMMA BeginIsOK ==
    ASSUME NEW t \in Turns, DOMAIN turn = Turns, TurnOK(turn[t]), stopGen \in Nat, Begin(t)
    PROVE  TurnOK(turn'[t])
<1> DEFINE x == turn[t]
<1>1. x.pc = "new"
  BY DEF Begin, At
<1>2. \E tier \in Tiers : turn'[t] = [x EXCEPT !.pc = "register", !.tier = tier, !.gen = stopGen]
  BY DEF Begin, Set, Captured
<1>3. Shape(x) /\ Answered(x) /\ Counted(x) /\ Booked(x) /\ Reasoned(x)
  BY DEF TurnOK
<1> HIDE DEF x
<1>4. ASSUME NEW tier \in Tiers, turn'[t] = [x EXCEPT !.pc = "register", !.tier = tier, !.gen = stopGen]
      PROVE  TurnOK(turn'[t])
  <2>1. Shape(turn'[t])
    BY <1>1, <1>3, <1>4 DEF Shape, Fields
  <2>2. Answered(turn'[t])
    BY <1>1, <1>3, <1>4 DEF Shape, Fields, Answered, InRound, AtCall
  <2>3. Counted(turn'[t])
    BY <1>1, <1>3, <1>4 DEF Shape, Fields, Counted, Early, InRound
  <2>4. Booked(turn'[t])
    BY <1>1, <1>3, <1>4 DEF Shape, Fields, Booked, Early
  <2>5. Reasoned(turn'[t])
    BY <1>1, <1>3, <1>4 DEF Shape, Fields, Reasoned, EndsWell, Early, InRound, AtCall
  <2> QED
    BY <2>1, <2>2, <2>3, <2>4, <2>5 DEF TurnOK
<1> QED
  BY <1>2, <1>4

(* It registers.                                                           *)
LEMMA RegisterIsOK ==
    ASSUME NEW t \in Turns, DOMAIN turn = Turns, TurnOK(turn[t]), Register(t)
    PROVE  TurnOK(turn'[t])
<1> DEFINE x == turn[t]
<1>1. x.pc = "register"
  BY DEF Register, At
<1>2. turn'[t] = [x EXCEPT !.pc = "prepare"]
  BY DEF Register, Set
<1>3. Shape(x) /\ Answered(x) /\ Counted(x) /\ Booked(x) /\ Reasoned(x)
  BY DEF TurnOK
<1> HIDE DEF x
<1>4. CASE turn'[t] = [x EXCEPT !.pc = "prepare"]
  <2>1. Shape(turn'[t])
    BY <1>1, <1>3, <1>4 DEF Shape, Fields
  <2>2. Answered(turn'[t])
    BY <1>1, <1>3, <1>4 DEF Shape, Fields, Answered, InRound, AtCall
  <2>3. Counted(turn'[t])
    BY <1>1, <1>3, <1>4 DEF Shape, Fields, Counted, Early, InRound
  <2>4. Booked(turn'[t])
    BY <1>1, <1>3, <1>4 DEF Shape, Fields, Booked, Early
  <2>5. Reasoned(turn'[t])
    BY <1>1, <1>3, <1>4 DEF Shape, Fields, Reasoned, EndsWell, Early, InRound, AtCall
  <2> QED
    BY <2>1, <2>2, <2>3, <2>4, <2>5 DEF TurnOK
<1> QED
  BY <1>2, <1>4

(* Its message is stored, or is not.                                       *)
LEMMA PrepareIsOK ==
    ASSUME NEW t \in Turns, DOMAIN turn = Turns, TurnOK(turn[t]), Prepare(t)
    PROVE  TurnOK(turn'[t])
<1> DEFINE x == turn[t]
<1>1. x.pc = "prepare"
  BY DEF Prepare, At
<1>2. \/ turn'[t] = [x EXCEPT !.pc = "complete", !.spent = @ + 1]
      \/ turn'[t] = [x EXCEPT !.pc = "persist", !.outcome = @]
      \/ turn'[t] = [x EXCEPT !.pc = "leave", !.outcome = "error"]
  BY DEF Prepare, Set, Spend, TurnOK, Shape, Fields
<1>3. Shape(x) /\ Answered(x) /\ Counted(x) /\ Booked(x) /\ Reasoned(x)
  BY DEF TurnOK
<1> HIDE DEF x
<1>4. CASE turn'[t] = [x EXCEPT !.pc = "complete", !.spent = @ + 1]
  <2>1. Shape(turn'[t])
    BY <1>1, <1>3, <1>4 DEF Shape, Fields
  <2>2. Answered(turn'[t])
    BY <1>1, <1>3, <1>4 DEF Shape, Fields, Answered, InRound, AtCall
  <2>3. Counted(turn'[t])
    BY <1>1, <1>3, <1>4 DEF Shape, Fields, Counted, Early, InRound
  <2>4. Booked(turn'[t])
    BY <1>1, <1>3, <1>4 DEF Shape, Fields, Booked, Early
  <2>5. Reasoned(turn'[t])
    BY <1>1, <1>3, <1>4 DEF Shape, Fields, Reasoned, EndsWell, Early, InRound, AtCall, Counted
  <2> QED
    BY <2>1, <2>2, <2>3, <2>4, <2>5 DEF TurnOK
<1>5. CASE turn'[t] = [x EXCEPT !.pc = "persist", !.outcome = @]
  <2>1. Shape(turn'[t])
    BY <1>1, <1>3, <1>5 DEF Shape, Fields
  <2>2. Answered(turn'[t])
    BY <1>1, <1>3, <1>5 DEF Shape, Fields, Answered, InRound, AtCall
  <2>3. Counted(turn'[t])
    BY <1>1, <1>3, <1>5 DEF Shape, Fields, Counted, Early, InRound
  <2>4. Booked(turn'[t])
    BY <1>1, <1>3, <1>5 DEF Shape, Fields, Booked, Early
  <2>5. Reasoned(turn'[t])
    BY <1>1, <1>3, <1>5 DEF Shape, Fields, Reasoned, EndsWell, Early, InRound, AtCall
  <2> QED
    BY <2>1, <2>2, <2>3, <2>4, <2>5 DEF TurnOK
<1>6. CASE turn'[t] = [x EXCEPT !.pc = "leave", !.outcome = "error"]
  <2>1. Shape(turn'[t])
    BY <1>1, <1>3, <1>6 DEF Shape, Fields
  <2>2. Answered(turn'[t])
    BY <1>1, <1>3, <1>6 DEF Shape, Fields, Answered, InRound, AtCall
  <2>3. Counted(turn'[t])
    BY <1>1, <1>3, <1>6 DEF Shape, Fields, Counted, Early, InRound
  <2>4. Booked(turn'[t])
    BY <1>1, <1>3, <1>6 DEF Shape, Fields, Booked, Early
  <2>5. Reasoned(turn'[t])
    BY <1>1, <1>3, <1>6 DEF Shape, Fields, Reasoned, EndsWell, Early, InRound, AtCall
  <2> QED
    BY <2>1, <2>2, <2>3, <2>4, <2>5 DEF TurnOK
<1> QED
  BY <1>2, <1>4, <1>5, <1>6

(* The model answers.                                                      *)
LEMMA CompleteIsOK ==
    ASSUME NEW t \in Turns, DOMAIN turn = Turns, TurnOK(turn[t]), Complete(t)
    PROVE  TurnOK(turn'[t])
<1> DEFINE x == turn[t]
<1>1. x.pc = "complete"
  BY DEF Complete, At
<1>2. \/ \E a \in Answers : turn'[t] = [x EXCEPT !.resp = a, !.pc = "loop"]
      \/ \E a \in Answers : turn'[t] = [x EXCEPT !.resp = [a EXCEPT !.calls = << >>], !.pc = "finish"]
      \/ turn'[t] = [x EXCEPT !.pc = "fail"]
  BY DEF Complete, Set
<1>3. Shape(x) /\ Answered(x) /\ Counted(x) /\ Booked(x) /\ Reasoned(x)
  BY DEF TurnOK
<1> HIDE DEF x
<1>4. ASSUME NEW a \in Answers, turn'[t] = [x EXCEPT !.resp = a, !.pc = "loop"]
      PROVE  TurnOK(turn'[t])
  <2>1. Shape(turn'[t])
    BY <1>1, <1>3, <1>4, AnswersAreSequences DEF Shape, Fields
  <2>2. Answered(turn'[t])
    BY <1>1, <1>3, <1>4 DEF Shape, Fields, Answered, InRound, AtCall
  <2>3. Counted(turn'[t])
    BY <1>1, <1>3, <1>4 DEF Shape, Fields, Counted, Early, InRound
  <2>4. Booked(turn'[t])
    BY <1>1, <1>3, <1>4 DEF Shape, Fields, Booked, Early
  <2>5. Reasoned(turn'[t])
    BY <1>1, <1>3, <1>4 DEF Shape, Fields, Reasoned, EndsWell, Early, InRound, AtCall
  <2> QED
    BY <2>1, <2>2, <2>3, <2>4, <2>5 DEF TurnOK
<1>5. ASSUME NEW a \in Answers, turn'[t] = [x EXCEPT !.resp = [a EXCEPT !.calls = << >>], !.pc = "finish"]
      PROVE  TurnOK(turn'[t])
  <2>1. turn'[t] = [x EXCEPT !.resp = [a EXCEPT !.calls = << >>], !.pc = "finish"]
    BY <1>5
  <2>2. Shape(turn'[t])
    <3> DEFINE b == [a EXCEPT !.calls = << >>]
    <3>1. DOMAIN b = {"calls", "content"} /\ b.calls = << >>
      BY AnswersAreSequences
    <3>2. b.calls \in Seq(Calls)
      BY <3>1
    <3> HIDE DEF b
    <3> QED
      BY <1>3, <2>1, <3>1, <3>2 DEF Shape, Fields, b
  <2>3. Answered(turn'[t])
    BY <1>1, <1>3, <1>5 DEF Shape, Fields, Answered, InRound, AtCall
  <2>4. Counted(turn'[t])
    BY <1>1, <1>3, <1>5 DEF Shape, Fields, Counted, Early, InRound
  <2>5. Booked(turn'[t])
    BY <1>1, <1>3, <1>5 DEF Shape, Fields, Booked, Early
  <2>6. Reasoned(turn'[t])
    BY <1>1, <1>3, <1>5 DEF Shape, Fields, Reasoned, EndsWell, Early, InRound, AtCall
  <2> QED
    BY <2>2, <2>3, <2>4, <2>5, <2>6 DEF TurnOK
<1>6. CASE turn'[t] = [x EXCEPT !.pc = "fail"]
  <2>1. Shape(turn'[t])
    BY <1>1, <1>3, <1>6 DEF Shape, Fields
  <2>2. Answered(turn'[t])
    BY <1>1, <1>3, <1>6 DEF Shape, Fields, Answered, InRound, AtCall
  <2>3. Counted(turn'[t])
    BY <1>1, <1>3, <1>6 DEF Shape, Fields, Counted, Early, InRound
  <2>4. Booked(turn'[t])
    BY <1>1, <1>3, <1>6 DEF Shape, Fields, Booked, Early
  <2>5. Reasoned(turn'[t])
    BY <1>1, <1>3, <1>6 DEF Shape, Fields, Reasoned, EndsWell, Early, InRound, AtCall
  <2> QED
    BY <2>1, <2>2, <2>3, <2>4, <2>5 DEF TurnOK
<1> QED
  BY <1>2, <1>4, <1>5, <1>6

(* A round starts, or the loop is left.                                    *)
LEMMA LoopIsOK ==
    ASSUME NEW t \in Turns, DOMAIN turn = Turns, TurnOK(turn[t]), handle[t] \in {"none", "requested", "cancelled"}, Loop(t)
    PROVE  TurnOK(turn'[t])
<1> DEFINE x == turn[t]
<1>1. x.pc = "loop"
  BY DEF Loop, At
<1>2. \/ turn'[t] = Left(x, "finish")
      \/ ~RoundsLeft(x) /\ turn'[t] = [Left(x, "stopped") EXCEPT !.reason = "rounds", !.resp = NoResp]
      \/ \E reason \in {"requested", "cancelled"} : turn'[t] = [Left(x, "stopped") EXCEPT !.reason = reason, !.resp = NoResp, !.text = Heard(x)]
      \/ x.resp.calls # << >> /\ RoundsLeft(x) /\ turn'[t] = [x EXCEPT !.pc = "boundary", !.rounds = @ + 1, !.text = Heard(x), !.resp = NoResp,
                               !.todo = x.resp.calls, !.owed = @ + Len(x.resp.calls)]
  BY DEF Loop, Set, TurnStopReason
<1>3. Shape(x) /\ Answered(x) /\ Counted(x) /\ Booked(x) /\ Reasoned(x)
  BY DEF TurnOK
<1> HIDE DEF x
<1>4. CASE turn'[t] = Left(x, "finish")
  <2>1. Shape(turn'[t])
    BY <1>1, <1>3, <1>4 DEF Shape, Fields, Left
  <2>2. Answered(turn'[t])
    BY <1>1, <1>3, <1>4 DEF Shape, Fields, Answered, InRound, AtCall, Left
  <2>3. Counted(turn'[t])
    BY <1>1, <1>3, <1>4 DEF Shape, Fields, Counted, Early, InRound, Left
  <2>4. Booked(turn'[t])
    BY <1>1, <1>3, <1>4 DEF Shape, Fields, Booked, Early, Left
  <2>5. Reasoned(turn'[t])
    BY <1>1, <1>3, <1>4 DEF Shape, Fields, Reasoned, EndsWell, Early, InRound, AtCall, Left
  <2> QED
    BY <2>1, <2>2, <2>3, <2>4, <2>5 DEF TurnOK
<1>5. CASE ~RoundsLeft(x) /\ turn'[t] = [Left(x, "stopped") EXCEPT !.reason = "rounds", !.resp = NoResp]
  <2>1. turn'[t] = [Left(x, "stopped") EXCEPT !.reason = "rounds", !.resp = NoResp]
    BY <1>5
  <2>2. Shape(turn'[t])
    BY <1>3, <2>1, NoRespHasNoCalls DEF Shape, Fields, Left, RoundsLeft
  <2>3. Answered(turn'[t])
    BY <1>1, <1>3, <1>5 DEF Shape, Fields, Answered, InRound, AtCall, Left, RoundsLeft
  <2>4. Counted(turn'[t])
    BY <1>1, <1>3, <1>5 DEF Shape, Fields, Counted, Early, InRound, Left, RoundsLeft
  <2>5. Booked(turn'[t])
    BY <1>1, <1>3, <1>5 DEF Shape, Fields, Booked, Early, Left, RoundsLeft
  <2>6. Reasoned(turn'[t])
    BY <1>1, <1>3, <1>5, RoundAssumption DEF Shape, Fields, Reasoned, EndsWell, Early, InRound, AtCall, Left, RoundsLeft
  <2> QED
    BY <2>2, <2>3, <2>4, <2>5, <2>6 DEF TurnOK
<1>6. ASSUME NEW reason \in {"requested", "cancelled"}, turn'[t] = [Left(x, "stopped") EXCEPT !.reason = reason, !.resp = NoResp, !.text = Heard(x)]
      PROVE  TurnOK(turn'[t])
  <2>1. turn'[t] = [Left(x, "stopped") EXCEPT !.reason = reason, !.resp = NoResp, !.text = Heard(x)]
    BY <1>6
  <2>2. Shape(turn'[t])
    BY <1>3, <2>1, NoRespHasNoCalls DEF Shape, Fields, Left
  <2>3. Answered(turn'[t])
    BY <1>1, <1>3, <1>6 DEF Shape, Fields, Answered, InRound, AtCall, Left
  <2>4. Counted(turn'[t])
    BY <1>1, <1>3, <1>6 DEF Shape, Fields, Counted, Early, InRound, Left
  <2>5. Booked(turn'[t])
    BY <1>1, <1>3, <1>6 DEF Shape, Fields, Booked, Early, Left
  <2>6. Reasoned(turn'[t])
    BY <1>1, <1>3, <1>6 DEF Shape, Fields, Reasoned, EndsWell, Early, InRound, AtCall, Left
  <2> QED
    BY <2>2, <2>3, <2>4, <2>5, <2>6 DEF TurnOK
<1>7. CASE x.resp.calls # << >> /\ RoundsLeft(x) /\ turn'[t] = [x EXCEPT !.pc = "boundary", !.rounds = @ + 1, !.text = Heard(x), !.resp = NoResp,
                               !.todo = x.resp.calls, !.owed = @ + Len(x.resp.calls)]
  <2>1. turn'[t] = [x EXCEPT !.pc = "boundary", !.rounds = @ + 1, !.text = Heard(x), !.resp = NoResp,
                               !.todo = x.resp.calls, !.owed = @ + Len(x.resp.calls)]
    BY <1>7
  <2>2. Shape(turn'[t])
    BY <1>3, <2>1, NoRespHasNoCalls DEF Shape, Fields, RoundsLeft
  <2>3. Answered(turn'[t])
    BY <1>1, <1>3, <1>7 DEF Shape, Fields, Answered, InRound, AtCall, RoundsLeft
  <2>4. Counted(turn'[t])
    BY <1>1, <1>3, <1>7, RoundAssumption DEF Shape, Fields, Counted, Early, InRound, RoundsLeft
  <2>5. Booked(turn'[t])
    BY <1>1, <1>3, <1>7 DEF Shape, Fields, Booked, Early, RoundsLeft
  <2>6. Reasoned(turn'[t])
    BY <1>1, <1>3, <1>7 DEF Shape, Fields, Reasoned, EndsWell, Early, InRound, AtCall, RoundsLeft
  <2> QED
    BY <2>2, <2>3, <2>4, <2>5, <2>6 DEF TurnOK
<1> QED
  BY <1>2, <1>4, <1>5, <1>6, <1>7

(* The results of a round go to the model.                                 *)
LEMMA NextRoundIsOK ==
    ASSUME NEW t \in Turns, DOMAIN turn = Turns, TurnOK(turn[t]), NextRound(t)
    PROVE  TurnOK(turn'[t])
<1> DEFINE x == turn[t]
<1>1. x.pc = "boundary"
  BY DEF NextRound, At
<1>2. x.todo = << >> /\ turn'[t] = [x EXCEPT !.pc = "complete", !.spent = @ + 1]
  BY DEF NextRound, Set, Spend, TurnOK, Shape, Fields
<1>3. Shape(x) /\ Answered(x) /\ Counted(x) /\ Booked(x) /\ Reasoned(x)
  BY DEF TurnOK
<1> HIDE DEF x
<1>4. CASE x.todo = << >> /\ turn'[t] = [x EXCEPT !.pc = "complete", !.spent = @ + 1]
  <2>1. turn'[t] = [x EXCEPT !.pc = "complete", !.spent = @ + 1]
    BY <1>4
  <2>2. Shape(turn'[t])
    BY <1>3, <2>1 DEF Shape, Fields
  <2>3. Answered(turn'[t])
    BY <1>1, <1>3, <1>4 DEF Shape, Fields, Answered, InRound, AtCall
  <2>4. Counted(turn'[t])
    BY <1>1, <1>3, <1>4 DEF Shape, Fields, Counted, Early, InRound
  <2>5. Booked(turn'[t])
    BY <1>1, <1>3, <1>4 DEF Shape, Fields, Booked, Early
  <2>6. Reasoned(turn'[t])
    BY <1>1, <1>3, <1>4 DEF Shape, Fields, Reasoned, EndsWell, Early, InRound, AtCall
  <2> QED
    BY <2>2, <2>3, <2>4, <2>5, <2>6 DEF TurnOK
<1> QED
  BY <1>2, <1>4

(* The next call of a round comes to its turn.                             *)
LEMMA BoundaryIsOK ==
    ASSUME NEW t \in Turns, DOMAIN turn = Turns, TurnOK(turn[t]),
           handle[t] \in {"none", "requested", "cancelled"}, Boundary(t)
    PROVE  TurnOK(turn'[t])
<1> DEFINE x == turn[t]
           k == Head(x.todo)
           y == [x EXCEPT !.last = k, !.same = Same(x, k)]
<1>1. x.pc = "boundary" /\ x.todo # << >>
  BY DEF Boundary, At
<1>2. \/ \E reason \in {"requested", "cancelled"} : turn'[t] = CutShort(x, reason)
      \/ y.same >= 3 /\ turn'[t] = CutShort(y, "repeated")
      \/ turn'[t] = Recorded(y)
      \/ \E pc \in {"review", "start"} : turn'[t] = [y EXCEPT !.pc = pc]
  BY DEF Boundary, Set, Lookup, TurnStopReason
<1>3. Shape(x) /\ Answered(x) /\ Counted(x) /\ Booked(x) /\ Reasoned(x)
  BY DEF TurnOK
<1> HIDE DEF x, k
<1>4. /\ Shape(y) /\ Answered(y) /\ Counted(y) /\ Booked(y)
      /\ y.pc = "boundary" /\ y.todo # << >> /\ y.reason = "none"
      /\ y.same <= y.records + 1 /\ y.applied = y.ran /\ y.ran <= y.records /\ y.saved = 0
  <2>1. Same(x, k) \in Nat /\ Same(x, k) <= x.records + 1
    BY <1>1, <1>3 DEF Same, Shape, Reasoned
  <2>2. y.same = Same(x, k) /\ DOMAIN y = Fields /\ \A f \in Fields \ {"last", "same"} : y[f] = x[f]
    BY <1>3 DEF Shape, Fields
  <2>3. /\ y.pc = x.pc /\ y.resp = x.resp /\ y.todo = x.todo /\ y.gen = x.gen /\ y.rounds = x.rounds
        /\ y.owed = x.owed /\ y.records = x.records /\ y.ran = x.ran /\ y.applied = x.applied
        /\ y.spent = x.spent /\ y.saved = x.saved /\ y.reason = x.reason /\ y.outcome = x.outcome
    BY <2>2 DEF Fields
  <2> HIDE DEF y
  <2>4. Shape(y)
    BY <1>3, <2>1, <2>2, <2>3 DEF Shape
  <2>5. Answered(y)
    BY <1>3, <2>3 DEF Answered
  <2>6. Counted(y)
    BY <1>3, <2>3 DEF Counted
  <2>7. Booked(y)
    BY <1>3, <2>3 DEF Booked
  <2>8. y.reason = "none"
    BY <1>1, <1>3, <2>3 DEF Reasoned, InRound
  <2>9. y.applied = y.ran /\ y.ran <= y.records /\ y.saved = 0
    BY <1>1, <1>3, <2>3 DEF Booked, Shape
  <2> QED
    BY <1>1, <2>1, <2>2, <2>3, <2>4, <2>5, <2>6, <2>7, <2>8, <2>9
<1> HIDE DEF y
<1>5. ASSUME NEW reason \in {"requested", "cancelled"}, turn'[t] = CutShort(x, reason)
      PROVE  TurnOK(turn'[t])
  BY <1>1, <1>3, <1>5, CutShortIsOK
<1>6. CASE y.same >= 3 /\ turn'[t] = CutShort(y, "repeated")
  <2>1. y.records > 0
    BY <1>4, <1>6 DEF Shape
  <2> QED
    BY <1>4, <1>6, <2>1, CutShortIsOK
<1>7. CASE turn'[t] = Recorded(y)
  <2>1. y.pc \in InRound /\ y.ran <= y.records + 1
    BY <1>4 DEF InRound, Shape
  <2> QED
    BY <1>4, <1>7, <2>1, RecordedIsOK
<1>8. ASSUME NEW pc \in {"review", "start"}, turn'[t] = [y EXCEPT !.pc = pc]
      PROVE  TurnOK(turn'[t])
  <2>1. Shape(turn'[t])
    BY <1>4, <1>8 DEF Shape, Fields
  <2>2. Answered(turn'[t])
    BY <1>4, <1>8 DEF Shape, Fields, Answered, InRound, AtCall
  <2>3. Counted(turn'[t])
    BY <1>4, <1>8 DEF Shape, Fields, Counted, Early, InRound
  <2>4. Booked(turn'[t])
    BY <1>4, <1>8 DEF Shape, Fields, Booked, Early
  <2>5. Reasoned(turn'[t])
    BY <1>4, <1>8 DEF Shape, Fields, Reasoned, EndsWell, Early, InRound, AtCall
  <2> QED
    BY <2>1, <2>2, <2>3, <2>4, <2>5 DEF TurnOK
<1> QED
  BY <1>2, <1>5, <1>6, <1>7, <1>8

(* The call is granted, refused, or its wait is cut short.                 *)
LEMMA ReviewIsOK ==
    ASSUME NEW t \in Turns, DOMAIN turn = Turns, TurnOK(turn[t]),
           handle[t] \in {"none", "requested", "cancelled"}, Review(t)
    PROVE  TurnOK(turn'[t])
<1> DEFINE x == turn[t]
           y == [x EXCEPT !.denied = @ \union {Head(x.todo)}]
<1>1. x.pc = "review"
  BY DEF Review, At
<1>2. \/ turn'[t] = [x EXCEPT !.pc = "start"]
      \/ turn'[t] = Recorded(y)
      \/ \E reason \in {"requested", "cancelled"} : turn'[t] = CutShort(x, reason)
  BY DEF Review, Set, Aborted, TurnStopReason, TurnStopRequested
<1>3. Shape(x) /\ Answered(x) /\ Counted(x) /\ Booked(x) /\ Reasoned(x)
  BY DEF TurnOK
<1> HIDE DEF x
<1>4. CASE turn'[t] = [x EXCEPT !.pc = "start"]
  <2>1. Shape(turn'[t])
    BY <1>3, <1>4 DEF Shape, Fields
  <2>2. Answered(turn'[t])
    BY <1>1, <1>3, <1>4 DEF Shape, Fields, Answered, InRound, AtCall
  <2>3. Counted(turn'[t])
    BY <1>1, <1>3, <1>4 DEF Shape, Fields, Counted, Early, InRound
  <2>4. Booked(turn'[t])
    BY <1>1, <1>3, <1>4 DEF Shape, Fields, Booked, Early
  <2>5. Reasoned(turn'[t])
    BY <1>1, <1>3, <1>4 DEF Shape, Fields, Reasoned, EndsWell, Early, InRound, AtCall
  <2> QED
    BY <2>1, <2>2, <2>3, <2>4, <2>5 DEF TurnOK
<1>5. CASE turn'[t] = Recorded(y)
  <2>1. Shape(y)
    BY <1>3 DEF Shape, Fields
  <2>2. Answered(y) /\ y.todo # << >>
    BY <1>1, <1>3 DEF Shape, Fields, Answered, InRound, AtCall
  <2>3. Counted(y)
    BY <1>1, <1>3 DEF Shape, Fields, Counted, Early, InRound
  <2>4. y.pc \in InRound /\ y.same <= y.records + 1 /\ y.reason = "none"
    BY <1>1, <1>3 DEF Shape, Fields, Reasoned, InRound, AtCall
  <2>5. y.applied = y.ran /\ y.ran <= y.records + 1 /\ y.saved = 0
    BY <1>1, <1>3 DEF Shape, Fields, Booked
  <2> HIDE DEF y
  <2> QED
    BY <1>5, <2>1, <2>2, <2>3, <2>4, <2>5, RecordedIsOK
<1>6. ASSUME NEW reason \in {"requested", "cancelled"}, turn'[t] = CutShort(x, reason)
      PROVE  TurnOK(turn'[t])
  BY <1>1, <1>3, <1>6, CutShortIsOK
<1> QED
  BY <1>2, <1>4, <1>5, <1>6

(* It takes effect.                                                        *)
LEMMA ExecuteIsOK ==
    ASSUME NEW t \in Turns, DOMAIN turn = Turns, TurnOK(turn[t]), Execute(t)
    PROVE  TurnOK(turn'[t])
<1> DEFINE x == turn[t]
<1>1. x.pc = "start"
  BY DEF Execute, At
<1>2. turn'[t] = [x EXCEPT !.pc = "exec", !.applied = @ + 1]
  BY DEF Execute, Set
<1>3. Shape(x) /\ Answered(x) /\ Counted(x) /\ Booked(x) /\ Reasoned(x)
  BY DEF TurnOK
<1> HIDE DEF x
<1>4. CASE turn'[t] = [x EXCEPT !.pc = "exec", !.applied = @ + 1]
  <2>1. Shape(turn'[t])
    BY <1>1, <1>3, <1>4 DEF Shape, Fields
  <2>2. Answered(turn'[t])
    BY <1>1, <1>3, <1>4 DEF Shape, Fields, Answered, InRound, AtCall
  <2>3. Counted(turn'[t])
    BY <1>1, <1>3, <1>4 DEF Shape, Fields, Counted, Early, InRound
  <2>4. Booked(turn'[t])
    BY <1>1, <1>3, <1>4 DEF Shape, Fields, Booked, Early
  <2>5. Reasoned(turn'[t])
    BY <1>1, <1>3, <1>4 DEF Shape, Fields, Reasoned, EndsWell, Early, InRound, AtCall
  <2> QED
    BY <2>1, <2>2, <2>3, <2>4, <2>5 DEF TurnOK
<1> QED
  BY <1>2, <1>4

(* It returns.                                                             *)
LEMMA ReturnIsOK ==
    ASSUME NEW t \in Turns, DOMAIN turn = Turns, TurnOK(turn[t]), Return(t)
    PROVE  TurnOK(turn'[t])
<1> DEFINE x == turn[t]
           y(kept) == [x EXCEPT !.ran = @ + 1, !.cache = kept]
<1>1. x.pc = "exec"
  BY DEF Return, At
<1>2. PICK kept : turn'[t] = Recorded(y(kept))
  BY DEF Return, Set
<1>3. Shape(x) /\ Answered(x) /\ Counted(x) /\ Booked(x) /\ Reasoned(x)
  BY DEF TurnOK
<1> HIDE DEF x
<1>4. Shape(y(kept))
  BY <1>3 DEF Shape, Fields
<1>5. Answered(y(kept)) /\ y(kept).todo # << >>
  BY <1>1, <1>3 DEF Shape, Fields, Answered, InRound, AtCall
<1>6. Counted(y(kept))
  BY <1>1, <1>3 DEF Shape, Fields, Counted, Early, InRound
<1>7. y(kept).pc \in InRound /\ y(kept).same <= y(kept).records + 1 /\ y(kept).reason = "none"
  BY <1>1, <1>3 DEF Shape, Fields, Reasoned, InRound, AtCall
<1>8. /\ y(kept).applied = y(kept).ran /\ y(kept).ran <= y(kept).records + 1
      /\ y(kept).saved = 0
  BY <1>1, <1>3 DEF Shape, Fields, Booked
<1> HIDE DEF y
<1> QED
  BY <1>2, <1>4, <1>5, <1>6, <1>7, <1>8, RecordedIsOK

(* The loop has been stopped.                                              *)
LEMMA StoppedIsOK ==
    ASSUME NEW t \in Turns, DOMAIN turn = Turns, TurnOK(turn[t]), Stopped(t)
    PROVE  TurnOK(turn'[t])
<1> DEFINE x == turn[t]
<1>1. x.pc = "stopped"
  BY DEF Stopped, At
<1>2. \/ WrapsUp(x) /\ turn'[t] = [x EXCEPT !.pc = "wrapup", !.spent = @ + 1]
      \/ turn'[t] = [x EXCEPT !.pc = "persist"]
      \/ ~Marker(x) /\ turn'[t] = [x EXCEPT !.pc = "fail"]
  BY DEF Stopped, Set, Spend
<1>3. Shape(x) /\ Answered(x) /\ Counted(x) /\ Booked(x) /\ Reasoned(x)
  BY DEF TurnOK
<1> HIDE DEF x
<1>4. CASE WrapsUp(x) /\ turn'[t] = [x EXCEPT !.pc = "wrapup", !.spent = @ + 1]
  <2>1. Shape(turn'[t])
    BY <1>1, <1>3, <1>4 DEF Shape, Fields
  <2>2. Answered(turn'[t])
    BY <1>1, <1>3, <1>4 DEF Shape, Fields, Answered, InRound, AtCall
  <2>3. Counted(turn'[t])
    BY <1>1, <1>3, <1>4 DEF Shape, Fields, Counted, Early, InRound
  <2>4. Booked(turn'[t])
    BY <1>1, <1>3, <1>4 DEF Shape, Fields, Booked, Early
  <2>5. Reasoned(turn'[t])
    BY <1>1, <1>3, <1>4 DEF Shape, Fields, Reasoned, EndsWell, Early, InRound, AtCall
  <2> QED
    BY <2>1, <2>2, <2>3, <2>4, <2>5 DEF TurnOK
<1>5. CASE turn'[t] = [x EXCEPT !.pc = "persist"]
  <2>1. Shape(turn'[t])
    BY <1>1, <1>3, <1>5 DEF Shape, Fields
  <2>2. Answered(turn'[t])
    BY <1>1, <1>3, <1>5 DEF Shape, Fields, Answered, InRound, AtCall
  <2>3. Counted(turn'[t])
    BY <1>1, <1>3, <1>5 DEF Shape, Fields, Counted, Early, InRound
  <2>4. Booked(turn'[t])
    BY <1>1, <1>3, <1>5 DEF Shape, Fields, Booked, Early
  <2>5. Reasoned(turn'[t])
    BY <1>1, <1>3, <1>5 DEF Shape, Fields, Reasoned, EndsWell, Early, InRound, AtCall
  <2> QED
    BY <2>1, <2>2, <2>3, <2>4, <2>5 DEF TurnOK
<1>6. CASE ~Marker(x) /\ turn'[t] = [x EXCEPT !.pc = "fail"]
  <2>1. Shape(turn'[t])
    BY <1>1, <1>3, <1>6 DEF Shape, Fields
  <2>2. Answered(turn'[t])
    BY <1>1, <1>3, <1>6 DEF Shape, Fields, Answered, InRound, AtCall
  <2>3. Counted(turn'[t])
    BY <1>1, <1>3, <1>6 DEF Shape, Fields, Counted, Early, InRound
  <2>4. Booked(turn'[t])
    BY <1>1, <1>3, <1>6 DEF Shape, Fields, Booked, Early
  <2>5. Reasoned(turn'[t])
    BY <1>1, <1>3, <1>6 DEF Shape, Fields, Reasoned, EndsWell, Early, InRound, AtCall, Marker
  <2> QED
    BY <2>1, <2>2, <2>3, <2>4, <2>5 DEF TurnOK
<1> QED
  BY <1>2, <1>4, <1>5, <1>6

(* The last word arrives, or does not.                                     *)
LEMMA WrapUpIsOK ==
    ASSUME NEW t \in Turns, DOMAIN turn = Turns, TurnOK(turn[t]), WrapUp(t)
    PROVE  TurnOK(turn'[t])
<1> DEFINE x == turn[t]
<1>1. x.pc = "wrapup"
  BY DEF WrapUp, At
<1>2. \/ turn'[t] = [x EXCEPT !.pc = "persist"]
      \/ ~Marker(x) /\ turn'[t] = [x EXCEPT !.pc = "fail"]
  BY DEF WrapUp, Set
<1>3. Shape(x) /\ Answered(x) /\ Counted(x) /\ Booked(x) /\ Reasoned(x)
  BY DEF TurnOK
<1> HIDE DEF x
<1>4. CASE turn'[t] = [x EXCEPT !.pc = "persist"]
  <2>1. Shape(turn'[t])
    BY <1>1, <1>3, <1>4 DEF Shape, Fields
  <2>2. Answered(turn'[t])
    BY <1>1, <1>3, <1>4 DEF Shape, Fields, Answered, InRound, AtCall
  <2>3. Counted(turn'[t])
    BY <1>1, <1>3, <1>4 DEF Shape, Fields, Counted, Early, InRound
  <2>4. Booked(turn'[t])
    BY <1>1, <1>3, <1>4 DEF Shape, Fields, Booked, Early
  <2>5. Reasoned(turn'[t])
    BY <1>1, <1>3, <1>4 DEF Shape, Fields, Reasoned, EndsWell, Early, InRound, AtCall
  <2> QED
    BY <2>1, <2>2, <2>3, <2>4, <2>5 DEF TurnOK
<1>5. CASE ~Marker(x) /\ turn'[t] = [x EXCEPT !.pc = "fail"]
  <2>1. Shape(turn'[t])
    BY <1>1, <1>3, <1>5 DEF Shape, Fields
  <2>2. Answered(turn'[t])
    BY <1>1, <1>3, <1>5 DEF Shape, Fields, Answered, InRound, AtCall
  <2>3. Counted(turn'[t])
    BY <1>1, <1>3, <1>5 DEF Shape, Fields, Counted, Early, InRound
  <2>4. Booked(turn'[t])
    BY <1>1, <1>3, <1>5 DEF Shape, Fields, Booked, Early
  <2>5. Reasoned(turn'[t])
    BY <1>1, <1>3, <1>5 DEF Shape, Fields, Reasoned, EndsWell, Early, InRound, AtCall, Marker
  <2> QED
    BY <2>1, <2>2, <2>3, <2>4, <2>5 DEF TurnOK
<1> QED
  BY <1>2, <1>4, <1>5

(* The model has had its final word, or is asked once more.                *)
LEMMA FinishIsOK ==
    ASSUME NEW t \in Turns, DOMAIN turn = Turns, TurnOK(turn[t]), Finish(t)
    PROVE  TurnOK(turn'[t])
<1> DEFINE x == turn[t]
<1>1. x.pc = "finish"
  BY DEF Finish, At
<1>2. \/ turn'[t] = [x EXCEPT !.pc = "fail"]
      \/ turn'[t] = [x EXCEPT !.pc = "persist"]
      \/ turn'[t] = [x EXCEPT !.pc = "nudge", !.spent = @ + 1]
  BY DEF Finish, Set, Spend
<1>3. Shape(x) /\ Answered(x) /\ Counted(x) /\ Booked(x) /\ Reasoned(x)
  BY DEF TurnOK
<1> HIDE DEF x
<1>4. CASE turn'[t] = [x EXCEPT !.pc = "fail"]
  <2>1. Shape(turn'[t])
    BY <1>1, <1>3, <1>4 DEF Shape, Fields
  <2>2. Answered(turn'[t])
    BY <1>1, <1>3, <1>4 DEF Shape, Fields, Answered, InRound, AtCall
  <2>3. Counted(turn'[t])
    BY <1>1, <1>3, <1>4 DEF Shape, Fields, Counted, Early, InRound
  <2>4. Booked(turn'[t])
    BY <1>1, <1>3, <1>4 DEF Shape, Fields, Booked, Early
  <2>5. Reasoned(turn'[t])
    BY <1>1, <1>3, <1>4 DEF Shape, Fields, Reasoned, EndsWell, Early, InRound, AtCall
  <2> QED
    BY <2>1, <2>2, <2>3, <2>4, <2>5 DEF TurnOK
<1>5. CASE turn'[t] = [x EXCEPT !.pc = "persist"]
  <2>1. Shape(turn'[t])
    BY <1>1, <1>3, <1>5 DEF Shape, Fields
  <2>2. Answered(turn'[t])
    BY <1>1, <1>3, <1>5 DEF Shape, Fields, Answered, InRound, AtCall
  <2>3. Counted(turn'[t])
    BY <1>1, <1>3, <1>5 DEF Shape, Fields, Counted, Early, InRound
  <2>4. Booked(turn'[t])
    BY <1>1, <1>3, <1>5 DEF Shape, Fields, Booked, Early
  <2>5. Reasoned(turn'[t])
    BY <1>1, <1>3, <1>5 DEF Shape, Fields, Reasoned, EndsWell, Early, InRound, AtCall
  <2> QED
    BY <2>1, <2>2, <2>3, <2>4, <2>5 DEF TurnOK
<1>6. CASE turn'[t] = [x EXCEPT !.pc = "nudge", !.spent = @ + 1]
  <2>1. Shape(turn'[t])
    BY <1>1, <1>3, <1>6 DEF Shape, Fields
  <2>2. Answered(turn'[t])
    BY <1>1, <1>3, <1>6 DEF Shape, Fields, Answered, InRound, AtCall
  <2>3. Counted(turn'[t])
    BY <1>1, <1>3, <1>6 DEF Shape, Fields, Counted, Early, InRound
  <2>4. Booked(turn'[t])
    BY <1>1, <1>3, <1>6 DEF Shape, Fields, Booked, Early
  <2>5. Reasoned(turn'[t])
    BY <1>1, <1>3, <1>6 DEF Shape, Fields, Reasoned, EndsWell, Early, InRound, AtCall
  <2> QED
    BY <2>1, <2>2, <2>3, <2>4, <2>5 DEF TurnOK
<1> QED
  BY <1>2, <1>4, <1>5, <1>6

(* It has answered, or not.                                                *)
LEMMA NudgeIsOK ==
    ASSUME NEW t \in Turns, DOMAIN turn = Turns, TurnOK(turn[t]), Nudge(t)
    PROVE  TurnOK(turn'[t])
<1> DEFINE x == turn[t]
<1>1. x.pc = "nudge"
  BY DEF Nudge, At
<1>2. \E pc \in {"persist", "fail"} : turn'[t] = [x EXCEPT !.pc = pc]
  BY DEF Nudge, Set
<1>3. Shape(x) /\ Answered(x) /\ Counted(x) /\ Booked(x) /\ Reasoned(x)
  BY DEF TurnOK
<1> HIDE DEF x
<1>4. ASSUME NEW pc \in {"persist", "fail"}, turn'[t] = [x EXCEPT !.pc = pc]
      PROVE  TurnOK(turn'[t])
  <2>1. Shape(turn'[t])
    BY <1>1, <1>3, <1>4 DEF Shape, Fields
  <2>2. Answered(turn'[t])
    BY <1>1, <1>3, <1>4 DEF Shape, Fields, Answered, InRound, AtCall
  <2>3. Counted(turn'[t])
    BY <1>1, <1>3, <1>4 DEF Shape, Fields, Counted, Early, InRound
  <2>4. Booked(turn'[t])
    BY <1>1, <1>3, <1>4 DEF Shape, Fields, Booked, Early
  <2>5. Reasoned(turn'[t])
    BY <1>1, <1>3, <1>4 DEF Shape, Fields, Reasoned, EndsWell, Early, InRound, AtCall
  <2> QED
    BY <2>1, <2>2, <2>3, <2>4, <2>5 DEF TurnOK
<1> QED
  BY <1>2, <1>4

(* The answer and the records are stored.                                  *)
LEMMA PersistIsOK ==
    ASSUME NEW t \in Turns, DOMAIN turn = Turns, TurnOK(turn[t]), Persist(t)
    PROVE  TurnOK(turn'[t])
<1> DEFINE x == turn[t]
<1>1. x.pc = "persist"
  BY DEF Persist, At
<1>2. \/ turn'[t] = [x EXCEPT !.pc = "leave", !.outcome = "answered", !.saved = x.ran]
      \/ turn'[t] = [x EXCEPT !.pc = "leave", !.outcome = "unsaved"]
  BY DEF Persist, Set
<1>3. Shape(x) /\ Answered(x) /\ Counted(x) /\ Booked(x) /\ Reasoned(x)
  BY DEF TurnOK
<1> HIDE DEF x
<1>4. CASE turn'[t] = [x EXCEPT !.pc = "leave", !.outcome = "answered", !.saved = x.ran]
  <2>1. Shape(turn'[t])
    BY <1>1, <1>3, <1>4 DEF Shape, Fields
  <2>2. Answered(turn'[t])
    BY <1>1, <1>3, <1>4 DEF Shape, Fields, Answered, InRound, AtCall
  <2>3. Counted(turn'[t])
    BY <1>1, <1>3, <1>4 DEF Shape, Fields, Counted, Early, InRound
  <2>4. Booked(turn'[t])
    BY <1>1, <1>3, <1>4 DEF Shape, Fields, Booked, Early
  <2>5. Reasoned(turn'[t])
    BY <1>1, <1>3, <1>4 DEF Shape, Fields, Reasoned, EndsWell, Early, InRound, AtCall
  <2> QED
    BY <2>1, <2>2, <2>3, <2>4, <2>5 DEF TurnOK
<1>5. CASE turn'[t] = [x EXCEPT !.pc = "leave", !.outcome = "unsaved"]
  <2>1. Shape(turn'[t])
    BY <1>1, <1>3, <1>5 DEF Shape, Fields
  <2>2. Answered(turn'[t])
    BY <1>1, <1>3, <1>5 DEF Shape, Fields, Answered, InRound, AtCall
  <2>3. Counted(turn'[t])
    BY <1>1, <1>3, <1>5 DEF Shape, Fields, Counted, Early, InRound
  <2>4. Booked(turn'[t])
    BY <1>1, <1>3, <1>5 DEF Shape, Fields, Booked, Early
  <2>5. Reasoned(turn'[t])
    BY <1>1, <1>3, <1>5 DEF Shape, Fields, Reasoned, EndsWell, Early, InRound, AtCall
  <2> QED
    BY <2>1, <2>2, <2>3, <2>4, <2>5 DEF TurnOK
<1> QED
  BY <1>2, <1>4, <1>5

(* What an interrupted turn did is stored.                                 *)
LEMMA FailIsOK ==
    ASSUME NEW t \in Turns, DOMAIN turn = Turns, TurnOK(turn[t]), Fail(t)
    PROVE  TurnOK(turn'[t])
<1> DEFINE x == turn[t]
<1>1. x.pc = "fail"
  BY DEF Fail, At
<1>2. \/ \E o \in {"error", "partial"} : x.records = 0 /\ turn'[t] = [[x EXCEPT !.outcome = o] EXCEPT !.pc = "leave"]
      \/ turn'[t] = [[x EXCEPT !.outcome = "marked", !.saved = x.ran] EXCEPT !.pc = "leave"]
      \/ turn'[t] = [[x EXCEPT !.outcome = "unsaved"] EXCEPT !.pc = "leave"]
  <2>1. PICK z \in Kept(x) : turn'[t] = [z EXCEPT !.pc = "leave"]
    BY DEF Fail, Set
  <2>2. CASE x.records = 0
    <3>1. PICK o \in {"error", "partial"} : z = [x EXCEPT !.outcome = o]
      BY <2>2 DEF Kept
    <3> QED
      BY <2>1, <2>2, <3>1
  <2>3. CASE x.records # 0
    <3>1. z = [x EXCEPT !.outcome = "marked", !.saved = x.ran] \/ z = [x EXCEPT !.outcome = "unsaved"]
      BY <2>3 DEF Kept
    <3> HIDE DEF x
    <3> QED
      BY <2>1, <3>1
  <2> QED
    BY <2>2, <2>3
<1>3. Shape(x) /\ Answered(x) /\ Counted(x) /\ Booked(x) /\ Reasoned(x)
  BY DEF TurnOK
<1> HIDE DEF x
<1>4. ASSUME NEW o \in {"error", "partial"}, x.records = 0, turn'[t] = [[x EXCEPT !.outcome = o] EXCEPT !.pc = "leave"]
      PROVE  TurnOK(turn'[t])
  <2>1. Shape(turn'[t])
    BY <1>1, <1>3, <1>4 DEF Shape, Fields
  <2>2. Answered(turn'[t])
    BY <1>1, <1>3, <1>4 DEF Shape, Fields, Answered, InRound, AtCall
  <2>3. Counted(turn'[t])
    BY <1>1, <1>3, <1>4 DEF Shape, Fields, Counted, Early, InRound
  <2>4. Booked(turn'[t])
    BY <1>1, <1>3, <1>4 DEF Shape, Fields, Booked, Early
  <2>5. Reasoned(turn'[t])
    BY <1>1, <1>3, <1>4 DEF Shape, Fields, Reasoned, EndsWell, Early, InRound, AtCall
  <2> QED
    BY <2>1, <2>2, <2>3, <2>4, <2>5 DEF TurnOK
<1>5. CASE turn'[t] = [[x EXCEPT !.outcome = "marked", !.saved = x.ran] EXCEPT !.pc = "leave"]
  <2>1. Shape(turn'[t])
    BY <1>1, <1>3, <1>5 DEF Shape, Fields
  <2>2. Answered(turn'[t])
    BY <1>1, <1>3, <1>5 DEF Shape, Fields, Answered, InRound, AtCall
  <2>3. Counted(turn'[t])
    BY <1>1, <1>3, <1>5 DEF Shape, Fields, Counted, Early, InRound
  <2>4. Booked(turn'[t])
    BY <1>1, <1>3, <1>5 DEF Shape, Fields, Booked, Early
  <2>5. Reasoned(turn'[t])
    BY <1>1, <1>3, <1>5 DEF Shape, Fields, Reasoned, EndsWell, Early, InRound, AtCall
  <2> QED
    BY <2>1, <2>2, <2>3, <2>4, <2>5 DEF TurnOK
<1>6. CASE turn'[t] = [[x EXCEPT !.outcome = "unsaved"] EXCEPT !.pc = "leave"]
  <2>1. Shape(turn'[t])
    BY <1>1, <1>3, <1>6 DEF Shape, Fields
  <2>2. Answered(turn'[t])
    BY <1>1, <1>3, <1>6 DEF Shape, Fields, Answered, InRound, AtCall
  <2>3. Counted(turn'[t])
    BY <1>1, <1>3, <1>6 DEF Shape, Fields, Counted, Early, InRound
  <2>4. Booked(turn'[t])
    BY <1>1, <1>3, <1>6 DEF Shape, Fields, Booked, Early
  <2>5. Reasoned(turn'[t])
    BY <1>1, <1>3, <1>6 DEF Shape, Fields, Reasoned, EndsWell, Early, InRound, AtCall
  <2> QED
    BY <2>1, <2>2, <2>3, <2>4, <2>5 DEF TurnOK
<1> QED
  BY <1>2, <1>4, <1>5, <1>6

(* The turn unregisters.                                                   *)
LEMMA LeaveIsOK ==
    ASSUME NEW t \in Turns, DOMAIN turn = Turns, TurnOK(turn[t]), Leave(t)
    PROVE  TurnOK(turn'[t])
<1> DEFINE x == turn[t]
<1>1. x.pc = "leave"
  BY DEF Leave, At
<1>2. turn'[t] = [x EXCEPT !.pc = "end"]
  BY DEF Leave, Set
<1>3. Shape(x) /\ Answered(x) /\ Counted(x) /\ Booked(x) /\ Reasoned(x)
  BY DEF TurnOK
<1> HIDE DEF x
<1>4. CASE turn'[t] = [x EXCEPT !.pc = "end"]
  <2>1. Shape(turn'[t])
    BY <1>1, <1>3, <1>4 DEF Shape, Fields
  <2>2. Answered(turn'[t])
    BY <1>1, <1>3, <1>4 DEF Shape, Fields, Answered, InRound, AtCall
  <2>3. Counted(turn'[t])
    BY <1>1, <1>3, <1>4 DEF Shape, Fields, Counted, Early, InRound
  <2>4. Booked(turn'[t])
    BY <1>1, <1>3, <1>4 DEF Shape, Fields, Booked, Early
  <2>5. Reasoned(turn'[t])
    BY <1>1, <1>3, <1>4 DEF Shape, Fields, Reasoned, EndsWell, Early, InRound, AtCall
  <2> QED
    BY <2>1, <2>2, <2>3, <2>4, <2>5 DEF TurnOK
<1> QED
  BY <1>2, <1>4

-----------------------------------------------------------------------------
(* What a turn's own step changes of what stops depend on.                 *)

(* A completion is counted against a turn that was told to stop.           *)
SpentOne(t) == after' = [after EXCEPT ![t].spent = IF t \in told THEN @ + 1 ELSE @]
(* So is a call.                                                           *)
CalledOnce(t) == after' = [after EXCEPT ![t].calls = IF t \in told \union cancelled THEN @ + 1 ELSE @]

Moves(t) ==
    LET x == turn[t]
        y == turn'[t]
    IN  /\ turn' = [turn EXCEPT ![t] = y]
        /\ UNCHANGED <<stopGen, handle, stop, told, cancelled>>
        /\ active' = CASE x.pc = "register" -> active \union {t}
                       [] x.pc = "leave" -> active \ {t}
                       [] OTHER -> active
        /\ y.gen = IF x.pc = "new" THEN stopGen ELSE x.gen
        /\ \/ y.reason \in {x.reason, "repeated", "rounds"}
           \/ x.pc # "new" /\ TurnStopRequested(t) /\ y.reason = TurnStopReason(t)
        /\ x.pc = "new" <=> y.pc = "register"
        /\ x.pc = "register" <=> y.pc = "prepare"
        /\ x.pc = "leave" <=> y.pc = "end"
        /\ y.pc # "new" /\ x.pc # "end"
        /\ y.pc \in InRound => x.pc \in InRound \/ ~TurnStopRequested(t)
        /\ y.pc \in {"review", "start"} => x.pc = "review" \/ ~TurnStopRequested(t)
        /\ \/ /\ y.pc \in {"complete", "loop", "finish", "stopped"} => x.pc \in InRound \union {"complete", "loop"}
              /\ after' = after
           \/ x.pc \in {"prepare", "boundary"} /\ y.pc = "complete" /\ SpentOne(t)
           \/ x.pc \in {"stopped", "finish"} /\ y.pc \in {"wrapup", "nudge"} /\ SpentOne(t)
           \/ x.pc = "start" /\ y.pc = "exec" /\ CalledOnce(t)

(* Every step of a turn moves it in one of these ways.                     *)
LEMMA StepMoves ==
    ASSUME NEW t \in Turns, DOMAIN turn = Turns, TurnOK(turn[t]), TurnStep(t)
    PROVE  Moves(t)
<1> DEFINE x == turn[t]
           y == turn'[t]
<1>1. DOMAIN x = Fields
  BY DEF TurnOK, Shape
<1> HIDE DEF x, y
<1>2. CASE Begin(t)
  BY <1>1, <1>2 DEF Begin, At, Set, Quiet, Moves, Fields, InRound, x, Captured
<1>3. CASE Register(t)
  <2>1. turn' = [turn EXCEPT ![t] = y] /\ x.pc = "register"
    BY <1>3 DEF Register, At, Set, x, y
  <2>2. /\ y.gen = x.gen
        /\ y.pc = "prepare" /\ y.reason = x.reason
    BY <1>1, <1>3 DEF Register, At, Set, Fields, x, y
  <2>4. UNCHANGED <<stopGen, handle, stop, told, cancelled>> /\ active' = active \union {t} /\ after' = after
    BY <1>3 DEF Register, Quiet
  <2> QED
    BY <2>1, <2>2, <2>4 DEF Moves, InRound, x, y
<1>4. CASE Prepare(t)
  <2>1. turn' = [turn EXCEPT ![t] = y] /\ x.pc = "prepare"
    BY <1>4 DEF Prepare, At, Set, x, y, Spend
  <2>0. \/ y = [x EXCEPT !.pc = "complete", !.spent = @ + 1] /\ SpentOne(t)
        \/ \E o : \E pc \in {"persist", "leave"} : y = [x EXCEPT !.pc = pc, !.outcome = o] /\ after' = after
    BY <1>4 DEF Prepare, Set, x, y, Spend, SpentOne
  <2>2. /\ y.gen = x.gen
        /\ y.pc \in {"complete", "persist", "leave"} /\ y.reason = x.reason
        /\ (y.pc = "complete" /\ SpentOne(t)) \/ (y.pc # "complete" /\ after' = after)
    BY <1>1, <2>0 DEF Fields
  <2>4. UNCHANGED <<stopGen, handle, stop, told, cancelled>> /\ active' = active
    BY <1>4 DEF Prepare, Quiet
  <2> QED
    BY <2>1, <2>2, <2>4 DEF Moves, InRound, x, y
<1>5. CASE Complete(t)
  <2>1. turn' = [turn EXCEPT ![t] = y] /\ x.pc = "complete"
    BY <1>5 DEF Complete, At, Set, x, y
  <2>0. \/ \E a \in Answers : y = [x EXCEPT !.resp = a, !.pc = "loop"]
        \/ \E a \in Answers : y = [x EXCEPT !.resp = [a EXCEPT !.calls = << >>], !.pc = "finish"]
        \/ y = [x EXCEPT !.pc = "fail"]
    BY <1>5 DEF Complete, Set, x, y
  <2>2. /\ y.gen = x.gen
        /\ y.pc \in {"loop", "finish", "fail"} /\ y.reason = x.reason
    BY <1>1, <2>0 DEF Fields
  <2>4. UNCHANGED <<stopGen, handle, stop, told, cancelled>> /\ active' = active /\ after' = after
    BY <1>5 DEF Complete, Quiet
  <2> QED
    BY <2>1, <2>2, <2>4 DEF Moves, InRound, x, y
<1>6. CASE Loop(t)
  <2>1. turn' = [turn EXCEPT ![t] = y] /\ x.pc = "loop"
    BY <1>6 DEF Loop, At, Set, x, y
  <2>0. \/ y = Left(x, "finish")
        \/ y = [Left(x, "stopped") EXCEPT !.reason = "rounds", !.resp = NoResp]
        \/ TurnStopRequested(t) /\ y = [Left(x, "stopped") EXCEPT !.reason = TurnStopReason(t),
                                                                !.resp = NoResp, !.text = Heard(x)]
        \/ ~TurnStopRequested(t) /\ y = [x EXCEPT !.pc = "boundary", !.rounds = @ + 1, !.text = Heard(x),
                                                 !.resp = NoResp, !.todo = x.resp.calls,
                                                 !.owed = @ + Len(x.resp.calls)]
    BY <1>6 DEF Loop, Set, x, y
  <2>2. /\ y.gen = x.gen
        /\ y.pc \in {"finish", "stopped", "boundary"}
        /\ y.pc = "boundary" => ~TurnStopRequested(t)
        /\ y.reason \in {x.reason, "rounds"} \/ (TurnStopRequested(t) /\ y.reason = TurnStopReason(t))
    BY <1>1, <2>0 DEF Fields, Left
  <2>4. UNCHANGED <<stopGen, handle, stop, told, cancelled>> /\ active' = active /\ after' = after
    BY <1>6 DEF Loop, Quiet
  <2> QED
    BY <2>1, <2>2, <2>4 DEF Moves, InRound, x, y
<1>7. CASE NextRound(t)
  <2>1. turn' = [turn EXCEPT ![t] = y] /\ x.pc = "boundary"
    BY <1>7 DEF NextRound, At, Set, x, y, Spend
  <2>2. /\ y.gen = x.gen
        /\ y.pc = "complete" /\ y.reason = x.reason
    BY <1>1, <1>7 DEF NextRound, At, Set, Fields, x, y, Spend, SpentOne
  <2>3. SpentOne(t)
    BY <1>1, <1>7 DEF NextRound, At, Set, Fields, x, y, Spend, SpentOne
  <2>4. UNCHANGED <<stopGen, handle, stop, told, cancelled>> /\ active' = active
    BY <1>7 DEF NextRound, Quiet
  <2> QED
    BY <2>1, <2>2, <2>3, <2>4 DEF Moves, InRound, x, y
<1>8. CASE Boundary(t)
  <2> DEFINE w == [x EXCEPT !.last = Head(x.todo), !.same = Same(x, Head(x.todo))]
  <2>1. turn' = [turn EXCEPT ![t] = y] /\ x.pc = "boundary"
    BY <1>8 DEF Boundary, At, Set, x, y
  <2>0. \/ TurnStopRequested(t) /\ y = CutShort(x, TurnStopReason(t))
        \/ y = CutShort(w, "repeated")
        \/ ~TurnStopRequested(t) /\ y = Recorded(w)
        \/ ~TurnStopRequested(t) /\ \E pc \in {"review", "start"} : y = [w EXCEPT !.pc = pc]
    BY <1>8 DEF Boundary, Set, x, y, Lookup
  <2>5. DOMAIN w = Fields /\ w.gen = x.gen /\ w.reason = x.reason
    BY <1>1 DEF Fields
  <2> HIDE DEF w
  <2>2. /\ y.gen = x.gen
        /\ y.pc \in {"stopped", "boundary", "review", "start"}
        /\ y.pc \in {"review", "start"} => ~TurnStopRequested(t)
        /\ y.reason \in {x.reason, "repeated"} \/ (TurnStopRequested(t) /\ y.reason = TurnStopReason(t))
    <3>1. CASE TurnStopRequested(t) /\ y = CutShort(x, TurnStopReason(t))
      BY <1>1, <3>1 DEF Fields, CutShort, Left, Skip
    <3>2. CASE y = CutShort(w, "repeated")
      BY <2>5, <3>2 DEF Fields, CutShort, Left, Skip
    <3>3. CASE ~TurnStopRequested(t) /\ y = Recorded(w)
      BY <2>5, <3>3 DEF Fields, Recorded
    <3>4. ASSUME NEW pc \in {"review", "start"}, ~TurnStopRequested(t), y = [w EXCEPT !.pc = pc]
          PROVE  y.gen = x.gen /\ y.pc = pc /\ y.reason = x.reason
      BY <2>5, <3>4 DEF Fields
    <3> QED
      BY <2>0, <3>1, <3>2, <3>3, <3>4
  <2>4. UNCHANGED <<stopGen, handle, stop, told, cancelled>> /\ active' = active /\ after' = after
    BY <1>8 DEF Boundary, Quiet
  <2> QED
    BY <2>1, <2>2, <2>4 DEF Moves, InRound, x, y
<1>9. CASE Review(t)
  <2>1. turn' = [turn EXCEPT ![t] = y] /\ x.pc = "review"
    BY <1>9 DEF Review, At, Set, x, y
  <2>0. \/ y = [x EXCEPT !.pc = "start"]
        \/ \E denied : y = Recorded([x EXCEPT !.denied = denied])
        \/ TurnStopRequested(t) /\ y = CutShort(x, TurnStopReason(t))
    BY <1>9 DEF Review, Set, x, y, Aborted
  <2>2. /\ y.gen = x.gen
        /\ y.pc \in {"start", "boundary", "stopped"}
        /\ y.reason = x.reason \/ (TurnStopRequested(t) /\ y.reason = TurnStopReason(t))
    BY <1>1, <2>0 DEF Fields, Recorded, CutShort, Left, Skip
  <2>4. UNCHANGED <<stopGen, handle, stop, told, cancelled>> /\ active' = active /\ after' = after
    BY <1>9 DEF Review, Quiet
  <2> QED
    BY <2>1, <2>2, <2>4 DEF Moves, InRound, x, y
<1>10. CASE Execute(t)
  BY <1>1, <1>10 DEF Execute, At, Set, Quiet, Moves, Fields, InRound, x, CalledOnce
<1>11. CASE Return(t)
  <2>1. turn' = [turn EXCEPT ![t] = y] /\ x.pc = "exec"
    BY <1>11 DEF Return, At, Set, x, y
  <2>2. /\ y.gen = x.gen
        /\ y.pc = "boundary" /\ y.reason = x.reason
    BY <1>1, <1>11 DEF Return, At, Set, Fields, x, y, Recorded
  <2>4. UNCHANGED <<stopGen, handle, stop, told, cancelled>> /\ active' = active /\ after' = after
    BY <1>11 DEF Return, Quiet
  <2> QED
    BY <2>1, <2>2, <2>4 DEF Moves, InRound, x, y
<1>12. CASE Stopped(t)
  <2>1. turn' = [turn EXCEPT ![t] = y] /\ x.pc = "stopped"
    BY <1>12 DEF Stopped, At, Set, x, y, Spend
  <2>0. \/ y = [x EXCEPT !.pc = "wrapup", !.spent = @ + 1] /\ SpentOne(t)
        \/ \E pc \in {"persist", "fail"} : y = [x EXCEPT !.pc = pc] /\ after' = after
    BY <1>12 DEF Stopped, Set, x, y, Spend, SpentOne
  <2>2. /\ y.gen = x.gen
        /\ y.pc \in {"wrapup", "persist", "fail"} /\ y.reason = x.reason
        /\ (y.pc = "wrapup" /\ SpentOne(t)) \/ (y.pc # "wrapup" /\ after' = after)
    BY <1>1, <2>0 DEF Fields
  <2>4. UNCHANGED <<stopGen, handle, stop, told, cancelled>> /\ active' = active
    BY <1>12 DEF Stopped, Quiet
  <2> QED
    BY <2>1, <2>2, <2>4 DEF Moves, InRound, x, y
<1>13. CASE WrapUp(t)
  <2>1. turn' = [turn EXCEPT ![t] = y] /\ x.pc = "wrapup"
    BY <1>13 DEF WrapUp, At, Set, x, y
  <2>2. /\ y.gen = x.gen
        /\ y.pc \in {"persist", "fail"} /\ y.reason = x.reason
    BY <1>1, <1>13 DEF WrapUp, At, Set, Fields, x, y
  <2>4. UNCHANGED <<stopGen, handle, stop, told, cancelled>> /\ active' = active /\ after' = after
    BY <1>13 DEF WrapUp, Quiet
  <2> QED
    BY <2>1, <2>2, <2>4 DEF Moves, InRound, x, y
<1>14. CASE Finish(t)
  <2>1. turn' = [turn EXCEPT ![t] = y] /\ x.pc = "finish"
    BY <1>14 DEF Finish, At, Set, x, y, Spend
  <2>0. \/ y = [x EXCEPT !.pc = "nudge", !.spent = @ + 1] /\ SpentOne(t)
        \/ \E pc \in {"persist", "fail"} : y = [x EXCEPT !.pc = pc] /\ after' = after
    BY <1>14 DEF Finish, Set, x, y, Spend, SpentOne
  <2>2. /\ y.gen = x.gen
        /\ y.pc \in {"nudge", "persist", "fail"} /\ y.reason = x.reason
        /\ (y.pc = "nudge" /\ SpentOne(t)) \/ (y.pc # "nudge" /\ after' = after)
    BY <1>1, <2>0 DEF Fields
  <2>4. UNCHANGED <<stopGen, handle, stop, told, cancelled>> /\ active' = active
    BY <1>14 DEF Finish, Quiet
  <2> QED
    BY <2>1, <2>2, <2>4 DEF Moves, InRound, x, y
<1>15. CASE Nudge(t)
  <2>1. turn' = [turn EXCEPT ![t] = y] /\ x.pc = "nudge"
    BY <1>15 DEF Nudge, At, Set, x, y
  <2>2. /\ y.gen = x.gen
        /\ y.pc \in {"persist", "fail"} /\ y.reason = x.reason
    BY <1>1, <1>15 DEF Nudge, At, Set, Fields, x, y
  <2>4. UNCHANGED <<stopGen, handle, stop, told, cancelled>> /\ active' = active /\ after' = after
    BY <1>15 DEF Nudge, Quiet
  <2> QED
    BY <2>1, <2>2, <2>4 DEF Moves, InRound, x, y
<1>16. CASE Persist(t)
  <2>1. turn' = [turn EXCEPT ![t] = y] /\ x.pc = "persist"
    BY <1>16 DEF Persist, At, Set, x, y
  <2>0. \/ y = [x EXCEPT !.pc = "leave", !.outcome = "answered", !.saved = x.ran]
        \/ y = [x EXCEPT !.pc = "leave", !.outcome = "unsaved"]
    BY <1>16 DEF Persist, Set, x, y
  <2>2. /\ y.gen = x.gen
        /\ y.pc = "leave" /\ y.reason = x.reason
    BY <1>1, <2>0 DEF Fields
  <2>4. UNCHANGED <<stopGen, handle, stop, told, cancelled>> /\ active' = active /\ after' = after
    BY <1>16 DEF Persist, Quiet
  <2> QED
    BY <2>1, <2>2, <2>4 DEF Moves, InRound, x, y
<1>17. CASE Fail(t)
  <2>1. turn' = [turn EXCEPT ![t] = y] /\ x.pc = "fail"
    BY <1>17 DEF Fail, At, Set, x, y
  <2>0. \E z : z \in Kept(x) /\ y = [z EXCEPT !.pc = "leave"]
    BY <1>17 DEF Fail, Set, x, y
  <2>5. PICK z \in Kept(x) : y = [z EXCEPT !.pc = "leave"]
    BY <2>0
  <2>6. DOMAIN z = Fields /\ z.gen = x.gen /\ z.reason = x.reason
    BY <1>1 DEF Fields, Kept
  <2>2. /\ y.gen = x.gen
        /\ y.pc = "leave" /\ y.reason = x.reason
    BY <2>5, <2>6, <1>1, <2>0 DEF Fields
  <2>4. UNCHANGED <<stopGen, handle, stop, told, cancelled>> /\ active' = active /\ after' = after
    BY <1>17 DEF Fail, Quiet
  <2> QED
    BY <2>1, <2>2, <2>4 DEF Moves, InRound, x, y
<1>18. CASE Leave(t)
  BY <1>1, <1>18 DEF Leave, At, Set, Quiet, Moves, Fields, InRound, x
<1> QED
  BY <1>2, <1>3, <1>4, <1>5, <1>6, <1>7, <1>8, <1>9, <1>10, <1>11, <1>12, <1>13, <1>14, <1>15, <1>16, <1>17, <1>18 DEF TurnStep

-----------------------------------------------------------------------------
(* The invariant is inductive.                                             *)

(* Nobody has been told of anything, and no turn has begun.                *)
LEMMA InitOK == Init => TurnInv
<1> SUFFICES ASSUME Init PROVE TurnInv
  OBVIOUS
<1>1. StopShape
  BY DEF Init, StopShape, NewTurn, IdleStop
<1>2. ASSUME NEW t \in Turns PROVE TurnOK(turn[t]) /\ Hears(t) /\ Obeys(t)
  <2>1. turn[t] = NewTurn
    BY DEF Init
  <2>2. Shape(NewTurn)
    <3>1. << >> \in Seq(Calls) /\ 0 \in Nat
      OBVIOUS
    <3> QED
      BY <3>1, NoRespHasNoCalls DEF Shape, Fields, NewTurn
  <2>3. Answered(NewTurn) /\ Counted(NewTurn) /\ Booked(NewTurn) /\ Reasoned(NewTurn)
    BY RoundAssumption DEF Answered, Counted, Booked, Reasoned, EndsWell, NewTurn, Early, InRound, AtCall
  <2>4. Hears(t)
    BY <2>1 DEF Hears, Init, NewTurn, InRound
  <2>5. Obeys(t)
    BY <2>1 DEF Obeys, Init, NewTurn, InRound, Early
  <2> QED
    BY <2>1, <2>2, <2>3, <2>4, <2>5 DEF TurnOK
<1> QED
  BY <1>1, <1>2 DEF TurnInv

(* A turn's step concerns itself.                                          *)
LEMMA TurnStepKeepsInv ==
    ASSUME TurnInv, NEW t \in Turns, TurnStep(t)
    PROVE  TurnInv'
<1>1. StopShape /\ TurnOK(turn[t]) /\ Hears(t) /\ Obeys(t)
  BY DEF TurnInv
<1>2. DOMAIN turn = Turns /\ stopGen \in Nat /\ handle[t] \in {"none", "requested", "cancelled"}
  BY <1>1 DEF StopShape
<1>3. Moves(t)
  BY <1>1, <1>2, StepMoves
<1>4. TurnOK(turn'[t])
  BY <1>1, <1>2, BeginIsOK, RegisterIsOK, PrepareIsOK, CompleteIsOK, LoopIsOK, NextRoundIsOK, BoundaryIsOK, ReviewIsOK, ExecuteIsOK, ReturnIsOK, StoppedIsOK, WrapUpIsOK, FinishIsOK, NudgeIsOK, PersistIsOK, FailIsOK, LeaveIsOK DEF TurnStep
<1> DEFINE x == turn[t]
           y == turn'[t]
<1>5. turn[t].gen \in Nat
  BY <1>1 DEF TurnOK, Shape
<1>6. StopShape'
  <2>1. DOMAIN turn' = Turns /\ stopGen' \in Nat /\ told' \subseteq Turns /\ cancelled' \subseteq Turns
    BY <1>1, <1>3 DEF Moves, StopShape
  <2>2. active' = {u \in Turns : turn'[u].pc \notin {"new", "register", "end"}}
    BY <1>1, <1>3 DEF Moves, StopShape
  <2>3. handle' \in [Turns -> {"none", "requested", "cancelled"}]
    BY <1>1, <1>3 DEF Moves, StopShape
  <2>4. stop' \in [Stoppers -> [pc : {"idle", "fireall", "fire"}, left : SUBSET Turns]]
    BY <1>1, <1>3 DEF Moves, StopShape
  <2>5. after' \in [Turns -> [calls : Nat, spent : Nat]]
    BY <1>1, <1>3 DEF Moves, StopShape, SpentOne, CalledOnce
  <2> QED
    BY <2>1, <2>2, <2>3, <2>4, <2>5 DEF StopShape
<1>7. TurnStopRequested(t) <=> handle[t] # "none" \/ stopGen # x.gen
  BY DEF TurnStopRequested
<1>8. Hears(t)'
  <2>1. y.gen <= stopGen'
    BY <1>1, <1>2, <1>3 DEF Moves, Hears
  <2>2. y.pc \notin {"new", "end"} /\ y.gen # stopGen' => t \in told'
    BY <1>1, <1>3 DEF Moves, Hears
  <2>3. t \in told' => y.pc # "new" /\ (handle'[t] # "none" \/ y.gen # stopGen')
    BY <1>1, <1>3 DEF Moves, Hears
  <2>4. /\ t \in cancelled' => handle'[t] # "none"
        /\ handle'[t] = "requested" => t \in told'
        /\ handle'[t] = "cancelled" => t \in cancelled'
    BY <1>1, <1>3 DEF Moves, Hears
  <2>5. y.reason = "requested" => t \in told'
    BY <1>1, <1>3 DEF Moves, Hears, TurnStopRequested, TurnStopReason
  <2>6. y.reason = "cancelled" => t \in cancelled'
    BY <1>1, <1>3 DEF Moves, Hears, TurnStopRequested, TurnStopReason
  <2>7. t \in told' /\ y.pc \in InRound /\ handle'[t] = "none" => \E s \in Stoppers : stop'[s].pc = "fireall"
    BY <1>1, <1>3, <1>7 DEF Moves, Hears
  <2> QED
    BY <2>1, <2>2, <2>3, <2>4, <2>5, <2>6, <2>7 DEF Hears
<1>9. Obeys(t)'
  <2>1. /\ after[t] \in [calls : Nat, spent : Nat]
        /\ t \in told \union cancelled => TurnStopRequested(t)
    BY <1>1, <1>7 DEF StopShape, Hears
  <2>2. CASE after' = after
    BY <1>1, <1>3, <1>7, <2>1, <2>2 DEF Moves, Hears, Obeys, Early, InRound, SpentOne, CalledOnce
  <2>3. CASE x.pc \in {"prepare", "boundary"} /\ y.pc = "complete" /\ SpentOne(t)
    BY <1>1, <1>3, <2>1, <2>3 DEF Moves, Obeys, Early, InRound, SpentOne, StopShape
  <2>4. CASE x.pc \in {"stopped", "finish"} /\ y.pc \in {"wrapup", "nudge"} /\ SpentOne(t)
    BY <1>1, <1>3, <2>1, <2>4 DEF Moves, Obeys, Early, InRound, SpentOne, StopShape
  <2>5. CASE x.pc = "start" /\ y.pc = "exec" /\ CalledOnce(t)
    BY <1>1, <1>3, <2>1, <2>5 DEF Moves, Obeys, Early, InRound, CalledOnce, StopShape
  <2> QED
    BY <1>3, <2>2, <2>3, <2>4, <2>5 DEF Moves
<1>10. ASSUME NEW u \in Turns, u # t
       PROVE  TurnOK(turn'[u]) /\ Hears(u)' /\ Obeys(u)'
  <2>1. TurnOK(turn[u]) /\ Hears(u) /\ Obeys(u)
    BY DEF TurnInv
  <2>2. turn'[u] = turn[u] /\ UNCHANGED <<stopGen, handle, stop, told, cancelled>>
    BY <1>2, <1>3, <1>10 DEF Moves
  <2>3. after'[u] = after[u]
    BY <1>1, <1>3, <1>10 DEF Moves, SpentOne, CalledOnce, StopShape
  <2> QED
    BY <2>1, <2>2, <2>3 DEF Hears, Obeys
<1> QED
  BY <1>4, <1>6, <1>8, <1>9, <1>10 DEF TurnInv

(* A stopper's step concerns every turn it reaches.                        *)
LEMMA StopStepKeepsInv ==
    ASSUME TurnInv, NEW s \in Stoppers, StopStep(s)
    PROVE  TurnInv'
<1>1. StopShape /\ \A t \in Turns : TurnOK(turn[t]) /\ Hears(t) /\ Obeys(t)
  BY DEF TurnInv
<1>2. turn' = turn /\ after' = after /\ active' = active
  BY DEF StopStep, RequestStop, FireAll, RequestStopChat, FireOne
<1>3. \A t \in Turns : TurnOK(turn'[t])
  BY <1>1, <1>2
<1>4. \A t \in Turns : turn[t].gen \in Nat
  BY <1>1 DEF TurnOK, Shape
<1>5. CASE RequestStop(s)
  <2>1. StopShape'
    BY <1>1, <1>2, <1>5 DEF StopShape, RequestStop, Underway
  <2>2. ASSUME NEW t \in Turns PROVE Hears(t)' /\ Obeys(t)'
    <3>1. Hears(t) /\ Obeys(t) /\ turn[t].gen \in Nat /\ stopGen \in Nat
      BY <1>1, <1>4 DEF StopShape
    <3>2. stop'[s].pc = "fireall"
      BY <1>1, <1>5 DEF RequestStop, StopShape
    <3>3. t \in told' <=> t \in told \/ turn[t].pc \notin {"new", "end"}
      BY <1>5 DEF RequestStop, Underway
    <3>4. Hears(t)'
      BY <1>2, <1>5, <3>1, <3>2, <3>3 DEF Hears, RequestStop
    <3>5. Obeys(t)'
      BY <1>2, <1>5, <3>1, <3>3 DEF Obeys, RequestStop
    <3> QED
      BY <3>4, <3>5
  <2> QED
    BY <1>3, <2>1, <2>2 DEF TurnInv
<1>6. CASE FireAll(s)
  <2>1. StopShape'
    BY <1>1, <1>2, <1>6 DEF StopShape, FireAll, Fired, IdleStop
  <2>2. ASSUME NEW t \in Turns PROVE Hears(t)' /\ Obeys(t)'
    <3>1. Hears(t) /\ Obeys(t) /\ turn[t].gen \in Nat /\ stopGen \in Nat
      BY <1>1, <1>4 DEF StopShape
    <3>2. CASE t \in active
      <4>1. /\ turn[t].pc \notin {"new", "register", "end"} /\ t \in told'
            /\ handle'[t] = Fired(handle[t], "requested") /\ UNCHANGED <<stopGen, cancelled>>
        BY <1>1, <1>6, <3>2 DEF FireAll, StopShape
      <4> QED
        BY <1>2, <1>6, <3>1, <4>1 DEF Hears, Obeys, Fired, FireAll
    <3>3. CASE t \notin active
      <4>1. /\ turn[t].pc \in {"new", "register", "end"} /\ (t \in told' <=> t \in told)
            /\ handle'[t] = handle[t] /\ UNCHANGED <<stopGen, cancelled>>
        BY <1>1, <1>6, <3>3 DEF FireAll, StopShape
      <4> QED
        BY <1>2, <3>1, <4>1 DEF Hears, Obeys, InRound
    <3> QED
      BY <3>2, <3>3
  <2> QED
    BY <1>3, <2>1, <2>2 DEF TurnInv
<1>7. CASE RequestStopChat(s)
  <2>1. StopShape'
    <3>1. PICK hit \in SUBSET Turns : stop' = [stop EXCEPT ![s] = [pc |-> "fire", left |-> hit]]
      BY <1>1, <1>7 DEF RequestStopChat, StopShape
    <3> QED
      BY <1>1, <1>2, <1>7, <3>1 DEF StopShape, RequestStopChat
  <2>2. \A r \in Stoppers : stop[r].pc = "fireall" => stop'[r].pc = "fireall"
    BY <1>1, <1>7 DEF RequestStopChat, StopShape
  <2>3. ASSUME NEW t \in Turns PROVE Hears(t)' /\ Obeys(t)'
    <3>1. Hears(t) /\ Obeys(t)
      BY <1>1
    <3> QED
      BY <1>2, <1>7, <2>2, <3>1 DEF Hears, Obeys, RequestStopChat
  <2> QED
    BY <1>3, <2>1, <2>3 DEF TurnInv
<1>8. CASE FireOne(s)
  <2>1. PICK u \in stop[s].left :
           /\ handle' = [handle EXCEPT ![u] = Fired(@, "cancelled")]
           /\ cancelled' = cancelled \union {u}
           /\ stop' = [stop EXCEPT ![s] = IF stop[s].left = {u} THEN IdleStop
                                          ELSE [pc |-> "fire", left |-> stop[s].left \ {u}]]
    BY <1>1, <1>8 DEF FireOne, StopShape
  <2>2. u \in Turns
    BY <1>1, <2>1 DEF StopShape
  <2>3. StopShape'
    <3>1. handle' \in [Turns -> {"none", "requested", "cancelled"}]
      BY <1>1, <2>1, <2>2 DEF StopShape, Fired
    <3>2. stop[s] \in [pc : {"idle", "fireall", "fire"}, left : SUBSET Turns]
      BY <1>1 DEF StopShape
    <3>3. IdleStop \in [pc : {"idle", "fireall", "fire"}, left : SUBSET Turns]
      BY DEF IdleStop
    <3>4. [pc |-> "fire", left |-> stop[s].left \ {u}] \in [pc : {"idle", "fireall", "fire"}, left : SUBSET Turns]
      BY <3>2
    <3>5. stop' \in [Stoppers -> [pc : {"idle", "fireall", "fire"}, left : SUBSET Turns]]
      <4>1. stop' = [stop EXCEPT ![s] = stop'[s]]
        BY <1>1, <2>1 DEF StopShape
      <4>2. stop'[s] = IdleStop \/ stop'[s] = [pc |-> "fire", left |-> stop[s].left \ {u}]
        BY <1>1, <2>1 DEF StopShape
      <4> QED
        BY <1>1, <3>3, <3>4, <4>1, <4>2 DEF StopShape
    <3> QED
      BY <1>1, <1>2, <1>8, <2>1, <2>2, <3>1, <3>5 DEF StopShape, FireOne
  <2>4. \A r \in Stoppers : stop[r].pc = "fireall" => stop'[r].pc = "fireall"
    BY <1>1, <1>8, <2>1 DEF StopShape, FireOne
  <2>5. ASSUME NEW t \in Turns PROVE Hears(t)' /\ Obeys(t)'
    <3>1. Hears(t) /\ Obeys(t) /\ UNCHANGED <<stopGen, told>>
      BY <1>1, <1>8 DEF FireOne
    <3>2. /\ handle'[t] = IF t = u THEN Fired(handle[t], "cancelled") ELSE handle[t]
          /\ handle[t] \in {"none", "requested", "cancelled"}
          /\ t \in cancelled' <=> t \in cancelled \/ t = u
      BY <1>1, <2>1 DEF StopShape
    <3> QED
      BY <1>2, <2>4, <3>1, <3>2 DEF Hears, Obeys, Fired
  <2> QED
    BY <1>3, <2>3, <2>5 DEF TurnInv
<1> QED
  BY <1>5, <1>6, <1>7, <1>8 DEF StopStep

(* Nothing changes without a step.                                         *)
LEMMA StutterKeepsInv == TurnInv /\ UNCHANGED vars => TurnInv'
BY DEF TurnInv, StopShape, Hears, Obeys, vars

(* Every turn is in order, and has heard of its stops, in every state.     *)
THEOREM TurnsAreInOrder == Spec => []TurnInv
<1>1. TurnInv /\ [Next]_vars => TurnInv'
  BY TurnStepKeepsInv, StopStepKeepsInv, StutterKeepsInv DEF Next
<1> QED
  BY InitOK, <1>1, PTL DEF Spec

-----------------------------------------------------------------------------
(* What it gives.                                                          *)

(* Every request to the model carries a result for each call it made, from *)
(* whatever point a stop, a refusal or the detector cut the round short    *)
(* (engine.go, runRoundToolCalls and appendSyntheticResults).              *)
THEOREM RequestsAreValid == Spec => []RequestsAnswered
<1>1. ASSUME TurnInv, NEW t \in Turns, turn[t].pc \in {"complete", "wrapup", "nudge", "finish", "persist"}
      PROVE  turn[t].owed = 0
  <2>1. Answered(turn[t])
    BY <1>1 DEF TurnInv, TurnOK
  <2>2. turn[t].todo = << >>
    BY <1>1, <2>1 DEF Answered, InRound
  <2> QED
    BY <2>1, <2>2 DEF Answered
<1>2. TurnInv => RequestsAnswered
  BY <1>1 DEF RequestsAnswered
<1> QED
  BY <1>2, TurnsAreInOrder, PTL

(* However many stops are raised, and by however many goroutines, a turn   *)
(* starts one call at most after it was told (engine.go, turnStop).        *)
THEOREM OneCallAfterAStop == Spec => []StopWithinOneCall
<1>1. TurnInv => StopWithinOneCall
  BY DEF TurnInv, Obeys, StopWithinOneCall
<1> QED
  BY <1>1, TurnsAreInOrder, PTL

(* A parked turn has heard of an emergency stop once it was carried out,   *)
(* and no turn stops for a stop that was not meant for it.                 *)
THEOREM StopsAreScoped == Spec => []StopIsSelfScoping
<1>1. ASSUME TurnInv, AllIdle, NEW t \in told, turn[t].pc = "review"
      PROVE  handle[t] # "none"
  <2>1. t \in Turns
    BY <1>1 DEF TurnInv, StopShape
  <2> QED
    BY <1>1, <2>1 DEF TurnInv, Hears, AllIdle, InRound
<1>2. TurnInv => StopIsSelfScoping
  BY <1>1 DEF StopIsSelfScoping, TurnInv, Hears
<1> QED
  BY <1>2, TurnsAreInOrder, PTL

(* What a turn spends is bounded by its budget of rounds, for every budget *)
(* (engine.go, runToolLoop and finishStoppedToolLoop).                     *)
THEOREM SpendingIsBounded == Spec => []SpendIsBounded
<1>1. ASSUME TurnInv, NEW t \in Turns
      PROVE  turn[t].spent <= MaxRounds + 2 /\ after[t].spent <= 2
  <2>1. turn[t].spent \in Nat /\ turn[t].rounds \in Nat
    BY <1>1 DEF TurnInv, TurnOK, Shape
  <2>2. turn[t].spent <= turn[t].rounds + 2 /\ turn[t].rounds <= MaxRounds
    BY <1>1 DEF TurnInv, TurnOK, Counted
  <2>3. after[t].spent <= 2
    BY <1>1 DEF TurnInv, Obeys
  <2> QED
    BY <2>1, <2>2, <2>3, RoundAssumption
<1>2. TurnInv => SpendIsBounded
  BY <1>1 DEF SpendIsBounded
<1> QED
  BY <1>2, TurnsAreInOrder, PTL

(* The calls of a turn, however it ended, are on record                    *)
(* (engine.go, persistTurn and persistInterruptedProgress).                *)
THEOREM RecordsAreComplete == Spec => []SavedAsApplied
<1>1. TurnInv => SavedAsApplied
  BY DEF TurnInv, TurnOK, Booked, SavedAsApplied, Ended
<1> QED
  BY <1>1, TurnsAreInOrder, PTL

(* A stop leaves an answer or a marker, never an error: the budget of      *)
(* rounds that is not 0 is what makes "rounds" a reason with a record.     *)
THEOREM StoppedTurnsAnswer == Spec => []StoppedTurnAnswers
<1>1. TurnInv => StoppedTurnAnswers
  BY DEF TurnInv, TurnOK, Reasoned, EndsWell, StoppedTurnAnswers, Ended
<1> QED
  BY <1>1, TurnsAreInOrder, PTL
=============================================================================
