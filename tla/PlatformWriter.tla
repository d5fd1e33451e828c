--------------------------- MODULE PlatformWriter ---------------------------
(***************************************************************************)
(* The Writers of the Platform repository (internal/platformrepo over      *)
(* internal/git): how a command gets from a developer's terminal, or from  *)
(* the Deploy gate, onto main.                                             *)
(*                                                                         *)
(* Nothing locks main.  Every command clones it, checks and edits the      *)
(* clone, commits and pushes; git refuses the push when main has moved     *)
(* since the clone, and runWithRetry then runs the whole attempt once more *)
(* from a fresh clone.  A second refusal is reported as "main moved twice; *)
(* nothing was written".  Any other error ends the command at once: the    *)
(* clone fails, a file cannot be encrypted, the developer interrupts it,   *)
(* or the push's outcome is lost, in which case main may hold the commit.  *)
(*                                                                         *)
(* main is PlatformLedger's: one Application's tree.  Commits to other     *)
(* Applications and hand edits elsewhere are OtherCommit: they change      *)
(* nothing here, and still get every push in flight rejected.              *)
(***************************************************************************)
EXTENDS PlatformLedger

CONSTANT Writer   \* the CLI runs and Deploy gate calls that may be under way at once

NoCommand == [op |-> "none"]

VARIABLES
  phase,     \* where each Writer is
  command,   \* the command it runs
  retry,     \* whether this is the second attempt
  clone,     \* its clone of main; once committed, the tree its commit holds
  moved,     \* whether main got a commit since the clone was made
  answer     \* what the command returned

(* A history variable: how often the command a Writer runs reached main. *)
VARIABLE written

vars == <<main, phase, command, retry, clone, moved, answer, written>>

Phase == {"idle", "cloning", "checking", "pushing", "answered"}
Answer == {"none", "done", "unchanged", "refused", "moved twice", "failed"}

TypeOK ==
  /\ LedgerTypeOK
  /\ phase \in [Writer -> Phase]
  /\ command \in [Writer -> Command \cup {NoCommand}]
  /\ retry \in [Writer -> BOOLEAN]
  /\ clone \in [Writer -> Tree]
  /\ moved \in [Writer -> BOOLEAN]
  /\ answer \in [Writer -> Answer]
  /\ written \in [Writer -> 0..2]

Init ==
  /\ LedgerInit
  /\ phase = [w \in Writer |-> "idle"]
  /\ command = [w \in Writer |-> NoCommand]
  /\ retry = [w \in Writer |-> FALSE]
  /\ clone = [w \in Writer |-> EmptyTree]
  /\ moved = [w \in Writer |-> FALSE]
  /\ answer = [w \in Writer |-> "none"]
  /\ written = [w \in Writer |-> 0]

-----------------------------------------------------------------------------
(* git *)

(* A commit lands on main, and the Writers that hold a clone from before   *)
(* it have fallen behind; its own author, if a Writer, has not.            *)
FallBehind(writers) ==
  moved' = [w \in Writer |-> /\ w \in writers
                             /\ moved[w] \/ phase[w] \in {"checking", "pushing"}]

(* Mutant of CommitLands: a push that overwrites a main that moved. *)
CommitLandsAnyway(w) ==
  /\ main' = clone[w]
  /\ written' = [written EXCEPT ![w] = @ + 1]
  /\ FallBehind(Writer \ {w})

(* The push of w's commit updates main. *)
CommitLands(w) ==
  /\ ~moved[w]
  /\ main' = clone[w]
  /\ written' = [written EXCEPT ![w] = @ + 1]
  /\ FallBehind(Writer \ {w})

(* A Writer is done with its clone, and its command returns a. *)
Answers(w, a) ==
  /\ phase' = [phase EXCEPT ![w] = "answered"]
  /\ answer' = [answer EXCEPT ![w] = a]
  /\ command' = [command EXCEPT ![w] = NoCommand]
  /\ retry' = [retry EXCEPT ![w] = FALSE]
  /\ clone' = [clone EXCEPT ![w] = EmptyTree]

NothingLands(w) ==
  /\ moved' = [moved EXCEPT ![w] = FALSE]
  /\ UNCHANGED <<main, written>>

-----------------------------------------------------------------------------
(* A command *)

Call(w, c) ==
  /\ phase[w] = "idle"
  /\ phase' = [phase EXCEPT ![w] = "cloning"]
  /\ command' = [command EXCEPT ![w] = c]
  /\ UNCHANGED <<main, retry, clone, moved, answer, written>>

Clone(w) ==
  /\ phase[w] = "cloning"
  /\ phase' = [phase EXCEPT ![w] = "checking"]
  /\ clone' = [clone EXCEPT ![w] = main]
  /\ moved' = [moved EXCEPT ![w] = FALSE]
  /\ UNCHANGED <<main, command, retry, answer, written>>

(* The attempt's checks, edits and commit, all on the clone. *)
Commit(w) ==
  /\ phase[w] = "checking"
  /\ Outcome(command[w], clone[w]) = "commit"
  /\ phase' = [phase EXCEPT ![w] = "pushing"]
  /\ clone' = [clone EXCEPT ![w] = Result(command[w], clone[w])]
  /\ UNCHANGED <<main, command, retry, moved, answer, written>>

FindsNothingToCommit(w) ==
  /\ phase[w] = "checking"
  /\ Outcome(command[w], clone[w]) # "commit"
  /\ Answers(w, Outcome(command[w], clone[w]))
  /\ NothingLands(w)

PushAccepted(w) ==
  /\ phase[w] = "pushing"
  /\ CommitLands(w)
  /\ Answers(w, "done")

(* Mutant of PushRejected: pushes the same commit again. *)
PushesAgain(w) ==
  /\ phase[w] = "pushing"
  /\ moved[w]
  /\ ~retry[w]
  /\ retry' = [retry EXCEPT ![w] = TRUE]
  /\ NothingLands(w)
  /\ UNCHANGED <<phase, clone, command, answer>>

(* Mutant of PushRejected: tries again as often as main moves. *)
RetriesForEver(w) ==
  /\ phase[w] = "pushing"
  /\ moved[w]
  /\ phase' = [phase EXCEPT ![w] = "cloning"]
  /\ clone' = [clone EXCEPT ![w] = EmptyTree]
  /\ NothingLands(w)
  /\ UNCHANGED <<command, retry, answer>>

(* git says [rejected]: main moved since the clone. *)
PushRejected(w) ==
  /\ phase[w] = "pushing"
  /\ moved[w]
  /\ ~retry[w]
  /\ phase' = [phase EXCEPT ![w] = "cloning"]
  /\ retry' = [retry EXCEPT ![w] = TRUE]
  /\ clone' = [clone EXCEPT ![w] = EmptyTree]
  /\ NothingLands(w)
  /\ UNCHANGED <<command, answer>>

PushRejectedAgain(w) ==
  /\ phase[w] = "pushing"
  /\ moved[w]
  /\ retry[w]
  /\ Answers(w, "moved twice")
  /\ NothingLands(w)

(* Any error that is not [rejected], at any step up to the push, with      *)
(* nothing written.                                                        *)
Fails(w) ==
  /\ phase[w] \in {"cloning", "checking", "pushing"}
  /\ Answers(w, "failed")
  /\ NothingLands(w)

(* Mutant of LandsButFails: a lost answer is taken for a rejection. *)
LandsAndRetries(w) ==
  /\ phase[w] = "pushing"
  /\ CommitLands(w)
  /\ phase' = [phase EXCEPT ![w] = "cloning"]
  /\ retry' = [retry EXCEPT ![w] = TRUE]
  /\ clone' = [clone EXCEPT ![w] = EmptyTree]
  /\ UNCHANGED <<command, answer>>

(* The push lands, and then its answer is lost, or reading the new HEAD    *)
(* fails.                                                                  *)
LandsButFails(w) ==
  /\ phase[w] = "pushing"
  /\ CommitLands(w)
  /\ Answers(w, "failed")

(* The developer reads the answer; the Writer may run another command. *)
Return(w) ==
  /\ phase[w] = "answered"
  /\ phase' = [phase EXCEPT ![w] = "idle"]
  /\ answer' = [answer EXCEPT ![w] = "none"]
  /\ written' = [written EXCEPT ![w] = 0]
  /\ UNCHANGED <<main, command, retry, clone, moved>>

-----------------------------------------------------------------------------
(* Commits of others *)

OtherCommit ==
  /\ FallBehind(Writer)
  /\ UNCHANGED <<main, phase, command, retry, clone, answer, written>>

(* The bootstrap wizard, or an admin by hand, completes platform.yaml. *)
Configure ==
  /\ \E field \in Setting : CompleteSetting(field)
  /\ FallBehind(Writer)
  /\ UNCHANGED <<phase, command, retry, clone, answer, written>>

(* The steps of a command under way. *)
Step(w) ==
  \/ Clone(w) \/ Commit(w) \/ FindsNothingToCommit(w)
  \/ PushAccepted(w) \/ PushRejected(w) \/ PushRejectedAgain(w)
  \/ Fails(w) \/ LandsButFails(w)

Next ==
  \/ \E w \in Writer : (\E c \in Command : Call(w, c)) \/ Step(w) \/ Return(w)
  \/ OtherCommit
  \/ Configure

(* A command that was called keeps running: git's subprocesses return, and *)
(* between them the Writer only computes.  Nobody has to call one, and     *)
(* nothing has to fail.                                                    *)
Progress(w) ==
  Clone(w) \/ Commit(w) \/ FindsNothingToCommit(w)
    \/ PushAccepted(w) \/ PushRejected(w) \/ PushRejectedAgain(w)

Fairness == \A w \in Writer : WF_vars(Progress(w))

Spec == Init /\ [][Next]_vars /\ Fairness

-----------------------------------------------------------------------------
(* What the Writers owe the people who call them *)

(* An answer tells the truth about main: a command that says it was done   *)
(* reached main exactly once, one that says it refused, changed nothing or *)
(* met a main that "moved twice ... nothing was written" (writer.go:248)   *)
(* never did, and one that failed did at most once, whatever its retry     *)
(* met.                                                                    *)
AnswersAreTrue ==
  \A w \in Writer : phase[w] = "answered" =>
    /\ answer[w] = "done" => written[w] = 1
    /\ answer[w] = "failed" => written[w] \in {0, 1}
    /\ answer[w] \in {"unchanged", "refused", "moved twice"} => written[w] = 0

(* A commit whose push git would accept is the command applied to main as  *)
(* it is now: nothing another Writer, or an admin, put on main since is    *)
(* undone by it.                                                           *)
PushesAreCurrent ==
  \A w \in Writer : phase[w] = "pushing" /\ ~moved[w] =>
    /\ Outcome(command[w], main) = "commit"
    /\ clone[w] = Result(command[w], main)

(* Every command comes back with an answer: however often main moves, it   *)
(* tries twice and no more (writer.go, runWithRetry).                      *)
CommandsReturn ==
  \A w \in Writer : phase[w] = "cloning" ~> phase[w] = "answered"

(* main is the ledger of whole commands that PlatformLedger describes. *)
ImplementsLedger == LedgerSpec
=============================================================================
