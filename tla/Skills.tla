------------------------------- MODULE Skills -------------------------------
(***************************************************************************)
(* The skills of one agent: their files, the list the engine serves, and   *)
(* the journal that makes changes revertible (internal/skilleffect, the    *)
(* skill tools of internal/configmcp, internal/mcpserver and internal/api, *)
(* the loader of internal/skill).                                          *)
(*                                                                         *)
(* A skill named n is a file n.md, or a directory n with a SKILL.md.  A    *)
(* file's content is a text, up to the newline with which every writer     *)
(* ends a file: an undo takes one off what the journal has, and the writer *)
(* appends one, so a file made by hand without it comes back with it       *)
(* (SkillPayloadFromFile), and the model takes the two for one text.  A    *)
(* text declares the name it is stored under, as every writer sees to.     *)
(* REST, the external MCP server and the agent's own tools call on         *)
(* goroutines of their own; only creates exclude each other.  A call goes  *)
(* from one read, write or critical section to the next; a crash cuts all  *)
(* of them short.                                                          *)
(***************************************************************************)
EXTENDS Naturals, Sequences, FiniteSets

CONSTANTS
    Names,       \* names of skills
    Threads,     \* goroutines that call
    NoThread,
    Starts,      \* the directories to begin with: [flat, sub : [Names -> Text]]
    FirstText,   \* texts below it are those of Starts
    MaxCalls, MaxFaults, MaxCrashes    \* bounds: calls, failing writes, crashes

NoText == 0
Text   == Nat

ASSUME TextAssumption == FirstText \in Nat \ {0}
ASSUME ThreadAssumption == NoThread \notin Threads
ASSUME StartsAssumption == Starts \subseteq [flat : [Names -> Text], sub : [Names -> Text]]

VARIABLES
    flat,     \* content of n.md, or NoText
    sub,      \* content of n/SKILL.md, or NoText
    mem,      \* what the engine serves under each name: [text, dir], the first one counts
    journal,  \* table skill_revisions, in the order of the ids
    lock,     \* who holds LockSkillCreate of the directory
    thr,      \* the calls
    calls, faults, crashes,
    by,       \* history: the kind of call that wrote n.md
    left,     \* history: names whose file a rename could not remove
    mixed,    \* history: names that two calls worked on at a time
    late      \* history: names with a change that was undone after later ones

disk  == <<flat, sub>>
hist  == <<by, left>>
odd   == <<mixed, late>>
count == <<calls, faults, crashes>>
vars  == <<flat, sub, mem, journal, lock, thr, calls, faults, crashes, by, left, mixed, late>>

Entry(text, dir) == [text |-> text, dir |-> dir]

(* What the loader makes of the files of n: a directory sorts before the   *)
(* file of the same name, and both are loaded.                             *)
Loaded(n) == (IF sub[n] # NoText THEN <<Entry(sub[n], TRUE)>> ELSE <<>>)
          \o (IF flat[n] # NoText THEN <<Entry(flat[n], FALSE)>> ELSE <<>>)

Exists(n) == flat[n] # NoText \/ sub[n] # NoText
Served(n) == mem[n] # <<>>

Tasks == {"create", "update", "rename", "delete", "file", "revert", "none"}
Pcs   == {"idle", "lock", "check", "prior", "journal", "recheck", "write", "unlink", "forget",
          "append", "replace", "convert", "register", "claim"}

(* goal is history: the files that an undo has to bring back.              *)
Idle   == [task |-> "none", pc |-> "idle", name |-> NoText, from |-> NoText, text |-> NoText,
           prior |-> NoText, rev |-> 0, goal |-> {}]

Init ==
    /\ \E s \in Starts : flat = s.flat /\ sub = s.sub
    /\ mem = [n \in Names |-> Loaded(n)]
    /\ journal = <<>>
    /\ lock = NoThread
    /\ thr = [t \in Threads |-> Idle]
    /\ calls = 0 /\ faults = 0 /\ crashes = 0
    /\ by = [n \in Names |-> "none"]
    /\ left = {}
    /\ mixed = {} /\ late = {}

-----------------------------------------------------------------------------
(* The steps of a tracked call.  The prior state is read and journaled     *)
(* before anything is written.                                             *)
First(task) ==
    CASE task = "create" -> "lock"
      [] task = "file"   -> "convert"
      [] task = "revert" -> "claim"
      [] OTHER           -> "prior"

Following(task, pc) ==
    CASE pc = "lock"              -> "check"
      [] pc \in {"check", "prior"} -> "journal"
      [] pc = "journal" -> (CASE task = "create" -> "recheck"
                              [] task = "delete" -> "unlink"
                              [] OTHER           -> "write")
      [] pc = "recheck" -> "write"
      [] pc = "write"   -> (CASE task = "create" -> "append"
                              [] task = "update" -> "replace"
                              [] OTHER           -> "unlink")
      [] pc = "unlink"  -> "forget"
      [] pc = "forget"  -> IF task = "rename" THEN "append" ELSE "idle"
      [] pc = "convert" -> "register"
      [] OTHER          -> "idle"

(* name is the file that is written or removed, from the old name of a     *)
(* rename.                                                                 *)
Job(task, name, from, text) ==
    [Idle EXCEPT !.task = task, !.pc = First(task), !.name = name, !.from = from, !.text = text]

Fresh == FirstText + calls

(* Each handler checks that the skill is there, or that its name is free:  *)
(* a create in memory and on disk, a rename in memory only.                *)
Requests ==
         {Job("create", n, n, Fresh) : n \in {m \in Names : ~Served(m) /\ ~Exists(m)}}
  \union {Job("update", n, n, Fresh) : n \in {m \in Names : Served(m)}}
  \union {Job("rename", p[1], p[2], Fresh) :
              p \in {q \in Names \X Names : ~Served(q[1]) /\ Served(q[2])}}
  \union {Job("delete", n, n, NoText) : n \in {m \in Names : Served(m)}}

(* skill_write_file works on the copy it read, and converts a flat skill   *)
(* to a directory first.  It goes past the journal.                        *)
FileRequests ==
    {[Job("file", n, n, mem[n][1].text) EXCEPT !.pc = IF mem[n][1].dir THEN "register" ELSE @] :
        n \in {m \in Names : Served(m)}}

(* The newest armed revision of a skill (LatestSkillRevision), which may   *)
(* be that of the agent, or one that is named by its transition: each call *)
(* is a transition of its own.                                             *)
Armed == {i \in DOMAIN journal : journal[i].armed}

RevertRequests ==
    {[Job("revert", journal[i].name, journal[i].from, NoText) EXCEPT !.rev = i] : i \in Armed}

Busy(t)     == thr[t].pc # "idle"
Touched(j)  == {j.name, j.from}

Begin(t) ==
    /\ ~Busy(t) /\ calls < MaxCalls
    /\ \E j \in Requests \union FileRequests \union RevertRequests :
          /\ thr' = [thr EXCEPT ![t] = j]
          /\ mixed' = mixed \union
                 (Touched(j) \intersect UNION {Touched(thr[u]) : u \in {v \in Threads : Busy(v)}})
    /\ calls' = calls + 1
    /\ UNCHANGED <<disk, mem, journal, lock, faults, crashes, hist, late>>

-----------------------------------------------------------------------------
At(t, pc) == thr[t].pc = pc

(* The deferred unlock runs when the call returns.                         *)
Unlocked(t) == lock' = IF lock = t THEN NoThread ELSE lock

Return(t) == thr' = [thr EXCEPT ![t] = Idle] /\ Unlocked(t)

Advance(t) ==
    LET next == Following(thr[t].task, thr[t].pc)
    IN  \/ next = "idle" /\ Return(t)
        \/ next # "idle" /\ thr' = [thr EXCEPT ![t].pc = next] /\ UNCHANGED lock

(* A statement or a system call fails, and the call returns its error.     *)
Fail == faults < MaxFaults /\ faults' = faults + 1

(* Mutant: creates do not exclude each other.                              *)
LockNothing(t) ==
    /\ At(t, "lock")
    /\ thr' = [thr EXCEPT ![t].pc = "check"]
    /\ UNCHANGED <<disk, mem, journal, lock, count, hist, odd>>

Lock(t) ==
    /\ At(t, "lock") /\ lock = NoThread
    /\ thr' = [thr EXCEPT ![t].pc = "check"]
    /\ lock' = t
    /\ UNCHANGED <<disk, mem, journal, count, hist, odd>>

(* RefuseExistingSkill: once before the journal, once before the write.    *)
Refuse(t) ==
    /\ At(t, "check") \/ At(t, "recheck")
    /\ IF Exists(thr[t].name) THEN Return(t) ELSE Advance(t)
    /\ UNCHANGED <<disk, mem, journal, count, hist, odd>>

(* The file the call replaces or takes away.                               *)
Source(t) == IF thr[t].task = "rename" THEN thr[t].from ELSE thr[t].name

(* readPrior looks for the flat file only.                                 *)
Prior(t) ==
    /\ At(t, "prior")
    /\ thr' = [thr EXCEPT ![t].prior = flat[Source(t)], ![t].pc = "journal"]
    /\ UNCHANGED <<disk, mem, journal, lock, count, hist, odd>>

(* What the journal says.  undone and was are history: how often it was    *)
(* undone, and the files the change found.                                 *)
Revision(t) ==
    [op |-> thr[t].task, name |-> thr[t].name, from |-> thr[t].from, prior |-> thr[t].prior,
     armed |-> TRUE, undone |-> 0, was |-> {<<n, flat[n]>> : n \in Touched(thr[t])}]

(* Mutant: a revision that cannot be written does not abort the call.      *)
JournalBestEffort(t) ==
    /\ At(t, "journal")
    /\ \/ journal' = Append(journal, Revision(t)) /\ UNCHANGED faults
       \/ Fail /\ UNCHANGED journal
    /\ Advance(t)
    /\ UNCHANGED <<disk, mem, calls, crashes, hist, odd>>

(* A revision that cannot be written aborts the call.                      *)
Journal(t) ==
    /\ At(t, "journal")
    /\ \/ journal' = Append(journal, Revision(t)) /\ Advance(t) /\ UNCHANGED faults
       \/ Fail /\ Return(t) /\ UNCHANGED journal
    /\ UNCHANGED <<disk, mem, calls, crashes, hist, odd>>

(* A temporary file and a rename: all of it or nothing.                    *)
Write(t) ==
    LET n == thr[t].name
    IN  /\ At(t, "write")
        /\ \/ /\ flat' = [flat EXCEPT ![n] = thr[t].text]
              /\ by' = [by EXCEPT ![n] = thr[t].task]
              /\ left' = left \ {n}
              /\ Advance(t)
              /\ UNCHANGED faults
           \/ Fail /\ Return(t) /\ UNCHANGED <<flat, hist>>
        /\ UNCHANGED <<sub, mem, journal, calls, crashes, odd>>

(* A delete stops when the file cannot be removed; a rename only logs it.  *)
Unlink(t) ==
    LET n == Source(t)
    IN  /\ At(t, "unlink")
        /\ \/ /\ flat' = [flat EXCEPT ![n] = NoText]
              /\ left' = left \ {n}
              /\ Advance(t)
              /\ UNCHANGED faults
           \/ /\ flat[n] # NoText /\ thr[t].task = "delete"
              /\ Fail /\ Return(t)
              /\ UNCHANGED <<flat, left>>
           \/ /\ flat[n] # NoText /\ thr[t].task = "rename"
              /\ Fail
              /\ left' = left \union {n}
              /\ thr' = [thr EXCEPT ![t].pc = "forget", ![t].goal = {}]
              /\ UNCHANGED <<flat, lock>>
        /\ UNCHANGED <<sub, mem, journal, calls, crashes, by, odd>>

(* RemoveSkill, AppendSkill and UpdateSkill of the engine.                 *)
Forget(t) ==
    LET n == Source(t)
    IN  /\ At(t, "forget")
        /\ mem' = [mem EXCEPT ![n] = IF @ = <<>> THEN @ ELSE Tail(@)]
        /\ Advance(t)
        /\ UNCHANGED <<disk, journal, count, hist, odd>>

AppendSkill(t) ==
    /\ At(t, "append")
    /\ mem' = [mem EXCEPT ![thr[t].name] = <<Entry(thr[t].text, FALSE)>>]
    /\ Advance(t)
    /\ UNCHANGED <<disk, journal, count, hist, odd>>

UpdateSkill(t, dir) ==
    mem' = [mem EXCEPT ![thr[t].name] =
               IF @ = <<>> THEN @ ELSE <<Entry(thr[t].text, dir)>> \o Tail(@)]

Replace(t) ==
    /\ At(t, "replace")
    /\ UpdateSkill(t, FALSE) /\ Advance(t)
    /\ UNCHANGED <<disk, journal, count, hist, odd>>

(* convertFlatToSubdir moves the file over any SKILL.md that is there.     *)
Convert(t) ==
    LET n == thr[t].name
    IN  /\ At(t, "convert")
        /\ \/ /\ sub' = [sub EXCEPT ![n] = IF flat[n] # NoText THEN flat[n] ELSE @]
              /\ flat' = [flat EXCEPT ![n] = NoText]
              /\ Advance(t)
              /\ UNCHANGED faults
           \/ Fail /\ Return(t) /\ UNCHANGED disk
        /\ UNCHANGED <<mem, journal, calls, crashes, hist, odd>>

(* The other file is written, and the copy is served as a directory.       *)
Register(t) ==
    /\ At(t, "register")
    /\ \/ UpdateSkill(t, TRUE) /\ UNCHANGED faults
       \/ Fail /\ UNCHANGED mem
    /\ Return(t)
    /\ UNCHANGED <<disk, journal, calls, crashes, hist, odd>>

-----------------------------------------------------------------------------
(* Mutant: the undo of a rename restores the old file and leaves the new.  *)
UndoingKeepsNew(r) ==
    IF r.prior = NoText THEN Job("delete", r.name, r.name, NoText)
    ELSE Job(IF r.op = "update" THEN "update" ELSE "create", r.from, r.from, r.prior)

(* The call that undoes a revision.  A revision without prior text says    *)
(* that the file did not exist.                                            *)
Undoing(r) ==
    CASE r.op = "delete" /\ r.prior # NoText -> Job("create", r.name, r.name, r.prior)
      [] r.op = "delete" /\ r.prior = NoText -> Idle
      [] r.op = "update" /\ r.prior # NoText -> Job("update", r.name, r.name, r.prior)
      [] r.op = "rename" /\ r.prior # NoText -> Job("rename", r.from, r.name, r.prior)
      [] OTHER                               -> Job("delete", r.name, r.name, NoText)

(* MarkSkillRevisionReverted.                                              *)
Claimable(r) == r.armed

(* No later change of the same skills is on record.                        *)
LastOf(i) == \A j \in DOMAIN journal : Touched(journal[j]) \intersect Touched(journal[i]) # {} => j <= i

(* What undoing revision i has to bring back.  A rename is on record with  *)
(* the file it takes, and as if there were none under the new name.        *)
Recorded(r) == r.op = "rename" => r.prior # NoText /\ <<r.name, NoText>> \in r.was
Goal(i)     == IF LastOf(i) /\ Recorded(journal[i]) THEN journal[i].was ELSE {}

(* Claimed first, undone then: a crash between them loses the undo.        *)
Claim(t) ==
    LET i == thr[t].rev
        r == journal[i]
    IN  /\ At(t, "claim")
        /\ \/ /\ Claimable(r)
              /\ journal' = [journal EXCEPT ![i].armed = FALSE, ![i].undone = @ + 1]
              /\ thr' = [thr EXCEPT ![t] =
                            [Undoing(r) EXCEPT !.goal = Goal(i)]]
              /\ late' = IF LastOf(i) THEN late ELSE late \union Touched(r)
              /\ UNCHANGED <<lock, faults>>
           \/ ~Claimable(r) /\ Return(t) /\ UNCHANGED <<journal, late, faults>>
           \/ Fail /\ Return(t) /\ UNCHANGED <<journal, late>>
        /\ UNCHANGED <<disk, mem, calls, crashes, hist, mixed>>

(* The process ends at any point and starts again from its files.          *)
Restart ==
    /\ crashes < MaxCrashes /\ crashes' = crashes + 1
    /\ thr' = [t \in Threads |-> Idle]
    /\ lock' = NoThread
    /\ mem' = [n \in Names |-> Loaded(n)]
    /\ left' = {}
    /\ UNCHANGED <<disk, journal, calls, faults, by, odd>>

Work(t) == \/ Lock(t) \/ Refuse(t) \/ Prior(t) \/ Journal(t) \/ Write(t) \/ Unlink(t)
           \/ Forget(t) \/ AppendSkill(t) \/ Replace(t) \/ Convert(t) \/ Register(t) \/ Claim(t)

Next == Restart \/ \E t \in Threads : Begin(t) \/ Work(t)

Spec == Init /\ [][Next]_vars
=============================================================================
