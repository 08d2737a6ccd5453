----------------------------- MODULE SkillsProps -----------------------------
(* What the files, the engine's list and the undo journal of an agent's    *)
(* skills promise together.                                                *)
EXTENDS Skills

Pictures  == SUBSET (Names \X Text)
Entries   == [text : Text, dir : BOOLEAN]
Revisions == [op : Tasks, name : Names, from : Names, prior : Text, armed : BOOLEAN,
              undone : Nat, was : Pictures]
Jobs      == [task : Tasks, pc : Pcs, name : Names \union {NoText}, from : Names \union {NoText},
              text : Text, prior : Text, rev : Nat, goal : Pictures]

(* The steps of each kind of call.                                         *)
PcsOf(task) ==
    CASE task = "create" -> {"lock", "check", "journal", "recheck", "write", "append"}
      [] task = "update" -> {"prior", "journal", "write", "replace"}
      [] task = "rename" -> {"prior", "journal", "write", "unlink", "forget", "append"}
      [] task = "delete" -> {"prior", "journal", "unlink", "forget"}
      [] task = "file"   -> {"convert", "register"}
      [] task = "revert" -> {"claim"}
      [] OTHER           -> {"idle"}

(* The types; every call is at one of its steps.                           *)
SkillTypeOK ==
    /\ flat \in [Names -> Text] /\ sub \in [Names -> Text]
    /\ mem \in [Names -> Seq(Entries)]
    /\ journal \in Seq(Revisions)
    /\ lock \in Threads \union {NoThread}
    /\ thr \in [Threads -> Jobs]
    /\ calls \in Nat /\ faults \in Nat /\ crashes \in Nat
    /\ by \in [Names -> Tasks]
    /\ left \subseteq Names /\ mixed \subseteq Names /\ late \subseteq Names
    /\ \A t \in Threads :
          /\ Busy(t) => thr[t].name \in Names /\ thr[t].from \in Names
          /\ At(t, "claim") => thr[t].rev \in DOMAIN journal
          /\ thr[t].pc \in PcsOf(thr[t].task)

-----------------------------------------------------------------------------
(* Skills that no two calls worked on at a time, and whose changes were    *)
(* undone in the order opposite to that of the changes.                    *)
Orderly == Names \ (mixed \union late)

(* skill_revert restores the file, up to the newline the writer appends    *)
(* (configmcp/handlers.go SkillPayloadFromFile: a file made by hand that   *)
(* has none comes back with one): the revert of the last change of a skill *)
(* that runs to its end, after any number of crashes and failed calls,     *)
(* brings back the files that the change found, and the engine serves      *)
(* them, but for a file that a rename could not remove.                    *)
Restored(t) ==
    LET S == {p[1] : p \in thr[t].goal}
    IN  Busy(t) /\ ~Busy(t)' /\ UNCHANGED <<faults, crashes>>
        /\ S \subseteq Orderly \ left /\ (\A n \in S : sub[n] = NoText)
        => \A p \in thr[t].goal : flat'[p[1]] = p[2] /\ mem'[p[1]] = Loaded(p[1])'

RevertRestores == [][\A t \in Threads : Restored(t)]_vars

(* What a step takes from a file is in the journal.                        *)
TextsKept(S) ==
    LET kept == {journal'[i].prior : i \in DOMAIN journal'}
    IN  \A n \in S : flat'[n] # flat[n] => flat[n] \in kept \union {NoText, sub'[n]}

(* Once the calls on a skill are over, the engine serves what a restart    *)
(* would load.                                                             *)
ServedIsStored ==
    \A n \in Orderly \ left :
        (\A t \in Threads : Busy(t) => n \notin Touched(thr[t])) /\ sub[n] = NoText
            => mem[n] = Loaded(n)

(* Journal, file and memory change in an order that loses no text of a     *)
(* skill and leaves memory and disk agreeing, whatever fails on the way.   *)
NothingLost == [][TextsKept(Orderly) /\ ServedIsStored']_vars

(* LockSkillCreate: the check of a create that the name is free holds      *)
(* through its write against every other create, and against the undo of a *)
(* delete; only an update or a rename gets in between.                     *)
CreatesExclude ==
    \A t \in Threads :
        thr[t].task = "create" /\ At(t, "write") /\ flat[thr[t].name] # NoText
            => by[thr[t].name] \in {"update", "rename"}

(* MarkSkillRevisionReverted: no revision is undone twice.                 *)
UndoneOnce ==
    \A i \in DOMAIN journal : journal[i].undone <= 1 /\ (journal[i].armed => journal[i].undone = 0)

-----------------------------------------------------------------------------
(* What the code does not keep (README, demonstrations).                   *)

(* "Every runtime skill change is recorded in an undo journal before it is *)
(* applied.  Each entry holds the file's raw prior bytes."  The undo of a  *)
(* rename writes over a skill created meanwhile under the old name.        *)
UndoLosesNothing == [][TextsKept(Names \ mixed)]_vars

(* "Callers hold LockSkillCreate so that check stays true through the      *)
(* write."  Updates and renames do not take the lock.                      *)
CreateFindsNone ==
    \A t \in Threads :
        thr[t].task = "create" /\ At(t, "write") => flat[thr[t].name] = NoText

(* An update or a delete of a skill in a directory reaches only the file   *)
(* that is not there: a restart brings the old text back.                  *)
DirectoriesToo ==
    \A n \in Orderly \ left :
        (\A t \in Threads : Busy(t) => n \notin Touched(thr[t]))
            => Served(n) = Exists(n) /\ (Served(n) => mem[n][1].text = Loaded(n)[1].text)
=============================================================================
