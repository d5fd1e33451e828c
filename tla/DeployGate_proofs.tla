-------------------------- MODULE DeployGate_proofs --------------------------
(***************************************************************************)
(* The Platform repository under many hands, for any commands and any      *)
(* retries.  First PlatformWriter, with any number of Writers: its types,  *)
(* that no push undoes another commit, that answers are true, and that     *)
(* main is the ledger PlatformLedger describes, whose invariants therefore *)
(* hold of it.  Then the Deploy gate, with any number of handlers and      *)
(* restarts: what it pushes was authorised on the tree it changes, its     *)
(* handlers do not race each other, its Events are true, and main stays    *)
(* the ledger of whole commands.                                           *)
(*                                                                         *)
(* What a command does to a tree matters only to the type theorem, through *)
(* ResultIsTree; elsewhere Outcome and Result stay unexpanded.             *)
(***************************************************************************)
EXTENDS DeployGate, PlatformLedger_proofs

-----------------------------------------------------------------------------
(* Types *)

(* What TypeOK needs of the Writers' history: a command under way has not  *)
(* reached main, and a Writer past Call has a command.                     *)
Working == {"cloning", "checking", "pushing"}

Coherent ==
  \A w \in Writer :
    /\ phase[w] \in Working => command[w] \in Command
    /\ phase[w] # "answered" => written[w] = 0

(* The inductive form of TypeOK. *)
TypeInv == TypeOK /\ Coherent

LEMMA AnswersType ==
  ASSUME TypeInv, NEW w \in Writer, NEW a \in Answer, Answers(w, a),
         main' \in Tree, moved' \in [Writer -> BOOLEAN],
         written' \in [Writer -> 0..2], \A x \in Writer \ {w} : written'[x] = written[x]
  PROVE  TypeInv'
<1>1. TypeOK'
  BY EmptyTreeType DEF TypeInv, TypeOK, LedgerTypeOK, Answers, Phase
<1>2. Coherent'
  BY DEF TypeInv, TypeOK, Coherent, Answers, Working
<1> QED
  BY <1>1, <1>2 DEF TypeInv

(* What a landing push, and a step that lands nothing, do to the rest. *)
LEMMA CommitLandsType ==
  ASSUME TypeInv, NEW w \in Writer, phase[w] = "pushing", CommitLands(w)
  PROVE  /\ main' \in Tree /\ moved' \in [Writer -> BOOLEAN]
         /\ written' \in [Writer -> 0..2]
         /\ \A x \in Writer \ {w} : written'[x] = written[x]
BY DEF TypeInv, TypeOK, LedgerTypeOK, Coherent, CommitLands, FallBehind

LEMMA NothingLandsType ==
  ASSUME TypeInv, NEW w \in Writer, NothingLands(w)
  PROVE  /\ main' \in Tree /\ moved' \in [Writer -> BOOLEAN]
         /\ written' \in [Writer -> 0..2]
         /\ \A x \in Writer \ {w} : written'[x] = written[x]
BY DEF TypeInv, TypeOK, LedgerTypeOK, NothingLands

LEMMA TypeInvInit == Init => TypeInv
BY EmptyTreeType DEF Init, LedgerInit, TypeInv, TypeOK, LedgerTypeOK, Coherent, Phase, Answer, Working

LEMMA TypeInvStep == TypeInv /\ [Next]_vars => TypeInv'
<1> SUFFICES ASSUME TypeInv, [Next]_vars PROVE TypeInv'
  OBVIOUS
<1> USE DEF TypeInv
<1>1. ASSUME NEW w \in Writer, NEW c \in Command, Call(w, c) PROVE TypeInv'
  BY <1>1 DEF TypeOK, LedgerTypeOK, Coherent, Call, Phase, Working
<1>2. ASSUME NEW w \in Writer, Clone(w) PROVE TypeInv'
  BY <1>2 DEF TypeOK, LedgerTypeOK, Coherent, Clone, Phase, Working
<1>3. ASSUME NEW w \in Writer, Commit(w) PROVE TypeInv'
  <2>1. Result(command[w], clone[w]) \in Tree
    BY <1>3, CommittedType DEF TypeOK, Coherent, Commit, Working
  <2> QED
    BY <1>3, <2>1 DEF TypeOK, LedgerTypeOK, Coherent, Commit, Phase, Working
<1>4. ASSUME NEW w \in Writer, FindsNothingToCommit(w) PROVE TypeInv'
  <2>1. Outcome(command[w], clone[w]) \in Answer
    BY <1>4 DEF Outcome, Answer, FindsNothingToCommit
  <2> QED
    BY <1>4, <2>1, AnswersType, NothingLandsType DEF FindsNothingToCommit
<1>5. ASSUME NEW w \in Writer, PushAccepted(w) \/ LandsButFails(w) PROVE TypeInv'
  BY <1>5, CommitLandsType, AnswersType DEF PushAccepted, LandsButFails, Answer
<1>6. ASSUME NEW w \in Writer, PushRejected(w) PROVE TypeInv'
  BY <1>6, EmptyTreeType
  DEF TypeOK, LedgerTypeOK, Coherent, PushRejected, NothingLands, Phase, Working
<1>7. ASSUME NEW w \in Writer, PushRejectedAgain(w) \/ Fails(w) PROVE TypeInv'
  BY <1>7, AnswersType, NothingLandsType DEF PushRejectedAgain, Fails, Answer
<1>8. ASSUME NEW w \in Writer, Return(w) PROVE TypeInv'
  <2>1. TypeOK'
    <3>1. written' \in [Writer -> 0..2]
      BY <1>8 DEF TypeOK, Return
    <3>2. phase' \in [Writer -> Phase] /\ answer' \in [Writer -> Answer]
      BY <1>8 DEF TypeOK, Return, Phase, Answer
    <3> QED
      BY <1>8, <3>1, <3>2 DEF TypeOK, LedgerTypeOK, Return
  <2>2. Coherent'
    BY <1>8 DEF TypeOK, Coherent, Return, Working
  <2> QED
    BY <2>1, <2>2
<1>9. CASE OtherCommit
  BY <1>9 DEF TypeOK, LedgerTypeOK, Coherent, OtherCommit, FallBehind
<1>10. CASE Configure
  <2>1. main' \in Tree
    BY <1>10, ConfiguredType, CommandAssumption DEF TypeOK, LedgerTypeOK, Configure, CompleteSetting
  <2> QED
    BY <1>10, <2>1 DEF TypeOK, LedgerTypeOK, Coherent, Configure, FallBehind
<1>11. CASE UNCHANGED vars
  BY <1>11 DEF TypeOK, LedgerTypeOK, Coherent, vars
<1> QED
  BY <1>1, <1>2, <1>3, <1>4, <1>5, <1>6, <1>7, <1>8, <1>9, <1>10, <1>11
  DEF Next, Step

(* Every variable keeps its type, main above all: whatever the commands,   *)
(* the Writers and their interleaving, main holds a tree every command can *)
(* read.                                                                   *)
THEOREM WriterTypes == Spec => []TypeOK
<1>1. Spec => []TypeInv
  BY TypeInvInit, TypeInvStep, PTL DEF Spec
<1>2. TypeInv => TypeOK
  BY DEF TypeInv
<1> QED
  BY <1>1, <1>2, PTL

-----------------------------------------------------------------------------
(* Pushes *)

(* PushesAreCurrent is not inductive: the commit is made in an earlier     *)
(* step than the push.  What it rests on is that a Writer that has not     *)
(* fallen behind still holds main.                                         *)
ClonesAreCurrent ==
  \A w \in Writer : phase[w] = "checking" /\ ~moved[w] => clone[w] = main

CurrentInv == TypeInv /\ ClonesAreCurrent /\ PushesAreCurrent

LEMMA CurrentInvStep == CurrentInv /\ [Next]_vars => CurrentInv'
<1> SUFFICES ASSUME CurrentInv, [Next]_vars PROVE CurrentInv'
  OBVIOUS
<1>1. TypeInv /\ TypeInv'
  BY TypeInvStep DEF CurrentInv
<1> DEFINE Current == ClonesAreCurrent /\ PushesAreCurrent
<1>2. ASSUME NEW w \in Writer, NEW c \in Command, Call(w, c) PROVE Current'
  BY <1>1, <1>2 DEF CurrentInv, ClonesAreCurrent, PushesAreCurrent, TypeInv, TypeOK, Call
<1>3. ASSUME NEW w \in Writer, Clone(w) PROVE Current'
  BY <1>1, <1>3 DEF CurrentInv, ClonesAreCurrent, PushesAreCurrent, TypeInv, TypeOK, Clone
<1>4. ASSUME NEW w \in Writer, Commit(w) PROVE Current'
  BY <1>1, <1>4 DEF CurrentInv, ClonesAreCurrent, PushesAreCurrent, TypeInv, TypeOK, Commit
<1>5. ASSUME NEW w \in Writer, NEW a \in Answer, Answers(w, a), NothingLands(w)
      PROVE  Current'
  BY <1>1, <1>5
  DEF CurrentInv, ClonesAreCurrent, PushesAreCurrent, TypeInv, TypeOK, Answers, NothingLands
<1>6. ASSUME NEW w \in Writer, FindsNothingToCommit(w) PROVE Current'
  BY <1>5, <1>6 DEF FindsNothingToCommit, Outcome, Answer
<1>7. ASSUME NEW w \in Writer, NEW a \in Answer, Answers(w, a), CommitLands(w)
      PROVE  Current'
  BY <1>1, <1>7
  DEF CurrentInv, ClonesAreCurrent, PushesAreCurrent, TypeInv, TypeOK, Answers,
      CommitLands, FallBehind
<1>8. ASSUME NEW w \in Writer, PushAccepted(w) \/ LandsButFails(w) PROVE Current'
  BY <1>7, <1>8 DEF PushAccepted, LandsButFails, Answer
<1>9. ASSUME NEW w \in Writer, PushRejected(w) PROVE Current'
  BY <1>1, <1>9
  DEF CurrentInv, ClonesAreCurrent, PushesAreCurrent, TypeInv, TypeOK, PushRejected, NothingLands
<1>10. ASSUME NEW w \in Writer, PushRejectedAgain(w) \/ Fails(w) PROVE Current'
  BY <1>5, <1>10 DEF PushRejectedAgain, Fails, Answer
<1>11. ASSUME NEW w \in Writer, Return(w) PROVE Current'
  BY <1>1, <1>11 DEF CurrentInv, ClonesAreCurrent, PushesAreCurrent, TypeInv, TypeOK, Return
<1>12. ASSUME OtherCommit \/ Configure PROVE Current'
  BY <1>1, <1>12
  DEF CurrentInv, ClonesAreCurrent, PushesAreCurrent, TypeInv, TypeOK, OtherCommit,
      Configure, FallBehind
<1>13. ASSUME UNCHANGED vars PROVE Current'
  BY <1>13 DEF CurrentInv, ClonesAreCurrent, PushesAreCurrent, vars
<1>14. Current'
  BY <1>2, <1>3, <1>4, <1>6, <1>8, <1>9, <1>10, <1>11, <1>12, <1>13 DEF Next, Step
<1> QED
  BY <1>1, <1>14 DEF CurrentInv

LEMMA CurrentInvAlways == Spec => []CurrentInv
<1>1. Init => CurrentInv
  BY TypeInvInit DEF CurrentInv, ClonesAreCurrent, PushesAreCurrent, Init
<1> QED
  BY <1>1, CurrentInvStep, PTL DEF Spec

(* A push git accepts is the Writer's command applied to main as it is at  *)
(* that moment, for any number of Writers: no commit of another is undone. *)
THEOREM PushesStayCurrent == Spec => []PushesAreCurrent
<1>1. CurrentInv => PushesAreCurrent
  BY DEF CurrentInv
<1> QED
  BY <1>1, CurrentInvAlways, PTL

(* main changes only by whole commands, each applied to the tree main held:*)
(* clones, retries and lost answers do not show in it.                     *)
THEOREM WriterImplementsLedger == Spec => ImplementsLedger
<1>1. Init => LedgerInit
  BY DEF Init
<1>2. CurrentInv /\ [Next]_vars => [LedgerNext]_main
  <2> SUFFICES ASSUME CurrentInv, [Next]_vars PROVE [LedgerNext]_main
    OBVIOUS
  <2>1. ASSUME NEW w \in Writer, phase[w] = "pushing", CommitLands(w)
        PROVE  LedgerNext
    BY <2>1 DEF CurrentInv, PushesAreCurrent, TypeInv, Coherent, Working, CommitLands,
                LedgerNext, Apply
  <2>2. ASSUME NEW w \in Writer, PushAccepted(w) \/ LandsButFails(w)
        PROVE  LedgerNext
    BY <2>1, <2>2 DEF PushAccepted, LandsButFails
  <2>3. CASE Configure
    BY <2>3 DEF Configure, LedgerNext
  <2>4. ASSUME NEW w \in Writer,
               \/ \E c \in Command : Call(w, c)
               \/ Clone(w) \/ Commit(w) \/ FindsNothingToCommit(w) \/ PushRejected(w)
               \/ PushRejectedAgain(w) \/ Fails(w) \/ Return(w)
        PROVE  UNCHANGED main
    BY <2>4 DEF Call, Clone, Commit, FindsNothingToCommit, PushRejected,
                PushRejectedAgain, Fails, Return, NothingLands
  <2>5. CASE OtherCommit \/ UNCHANGED vars
    BY <2>5 DEF OtherCommit, vars
  <2> QED
    BY <2>2, <2>3, <2>4, <2>5 DEF Next, Step
<1> QED
  BY <1>1, <1>2, CurrentInvAlways, PTL DEF Spec, ImplementsLedger, LedgerSpec

(* So what the commands keep one after another, Writers keep that clone,   *)
(* race and retry: the invariants of the ledger hold of main.              *)
THEOREM WriterKeepsTheTree ==
  Spec => /\ [](PreviewsFollowStaging /\ DatabaseFindsItsCredentials)
          /\ []NamedSecretsExist /\ PasswordsMatchLevels
          /\ [](CapabilitiesAreUniform /\ OutcomesAreTrue)
          /\ SecretsSurvive
BY WriterImplementsLedger, PreviewsStayBehindStaging, DatabasesFindTheirCredentials,
   NamedSecretsStay, PasswordsFollowLevels, CapabilitiesStayUniform, OutcomesStayTrue,
   SecretsDoSurvive, PTL
DEF ImplementsLedger

-----------------------------------------------------------------------------
(* Answers *)

(* An answer and the number of times its command reached main agree. *)
Truthful(said, times) ==
  /\ said = "done" => times = 1
  /\ said = "failed" => times \in {0, 1}
  /\ said \in {"unchanged", "refused", "moved twice"} => times = 0

LEMMA TruthStep == TypeInv /\ AnswersAreTrue /\ [Next]_vars => AnswersAreTrue'
<1> SUFFICES ASSUME TypeInv, AnswersAreTrue, [Next]_vars PROVE AnswersAreTrue'
  OBVIOUS
<1> USE DEF TypeInv
<1>0. ASSUME NEW w \in Writer, NEW a, phase[w] # "answered", Answers(w, a),
             \A x \in Writer \ {w} : written'[x] = written[x],
             \/ written'[w] = 0 /\ a \in {"unchanged", "refused", "moved twice", "failed"}
             \/ written'[w] = 1 /\ a \in {"done", "failed"}
      PROVE  AnswersAreTrue'
  <2> SUFFICES ASSUME NEW x \in Writer, phase'[x] = "answered"
                  PROVE  Truthful(answer'[x], written'[x])
    BY DEF AnswersAreTrue, Truthful
  <2>1. CASE x = w
    <3>1. answer'[w] = a
      BY <1>0 DEF TypeOK, Answers
    <3>2. Truthful(a, written'[w])
      <4>1. CASE written'[w] = 0 /\ a \in {"unchanged", "refused", "moved twice", "failed"}
        BY <4>1 DEF Truthful
      <4>2. CASE written'[w] = 1 /\ a \in {"done", "failed"}
        BY <4>2 DEF Truthful
      <4> QED
        BY <1>0, <4>1, <4>2
    <3> QED
      BY <2>1, <3>1, <3>2
  <2>2. CASE x # w
    <3>1. phase[x] = "answered" /\ answer'[x] = answer[x] /\ written'[x] = written[x]
      BY <1>0, <2>2 DEF TypeOK, Answers
    <3> QED
      BY <3>1 DEF AnswersAreTrue, Truthful, TypeOK
  <2> QED
    BY <2>1, <2>2
<1>1. ASSUME NEW w \in Writer, NEW a \in {"unchanged", "refused", "moved twice", "failed"},
             phase[w] # "answered", Answers(w, a), NothingLands(w)
      PROVE  AnswersAreTrue'
  <2>1. written'[w] = 0 /\ \A x \in Writer \ {w} : written'[x] = written[x]
    BY <1>1 DEF Coherent, NothingLands
  <2> QED
    BY <1>0, <1>1, <2>1
<1>2. ASSUME NEW w \in Writer, NEW a \in {"done", "failed"},
             phase[w] # "answered", Answers(w, a), CommitLands(w)
      PROVE  AnswersAreTrue'
  <2>1. written'[w] = 1 /\ \A x \in Writer \ {w} : written'[x] = written[x]
    BY <1>2 DEF TypeOK, Coherent, CommitLands
  <2> QED
    BY <1>0, <1>2, <2>1
<1>3. ASSUME NEW w \in Writer,
             FindsNothingToCommit(w) \/ PushRejectedAgain(w) \/ Fails(w)
      PROVE  AnswersAreTrue'
  BY <1>1, <1>3 DEF FindsNothingToCommit, PushRejectedAgain, Fails, Outcome
<1>4. ASSUME NEW w \in Writer, PushAccepted(w) \/ LandsButFails(w)
      PROVE  AnswersAreTrue'
  BY <1>2, <1>4 DEF PushAccepted, LandsButFails
<1>5. ASSUME NEW w \in Writer,
             \/ \E c \in Command : Call(w, c)
             \/ Clone(w) \/ Commit(w) \/ PushRejected(w) \/ Return(w)
      PROVE  AnswersAreTrue'
  BY <1>5 DEF AnswersAreTrue, TypeOK, Call, Clone, Commit, PushRejected, Return, NothingLands
<1>6. CASE OtherCommit \/ Configure \/ UNCHANGED vars
  BY <1>6 DEF AnswersAreTrue, OtherCommit, Configure, vars
<1> QED
  BY <1>3, <1>4, <1>5, <1>6 DEF Next, Step

(* Whatever a Writer answers is true of main: done is exactly one commit,  *)
(* a refusal or "moved twice; nothing was written" is none.                *)
THEOREM AnswersStayTrue == Spec => []AnswersAreTrue
<1>1. Init => AnswersAreTrue
  BY DEF Init, AnswersAreTrue
<1> QED
  BY <1>1, TypeInvInit, TypeInvStep, TruthStep, PTL DEF Spec

-----------------------------------------------------------------------------
(* What a deploy writes *)

LEMMA TargetType ==
  ASSUME NEW c, NEW t
  PROVE  Target(c, t) \in Environment
BY DEF Target, Environment

(* A deploy that is not refused was authorised. *)
LEMMA DeployAuthorized ==
  ASSUME NEW c \in DeployCommand, NEW t, Outcome(c, t) # "refused"
  PROVE  HasDirectory(t) /\ Authorized(c, t)
BY DEF DeployCommand, Outcome, Allowed, SetImageTagAllowed

(* It changes its target alone, and writes the tag there. *)
LEMMA DeployWrites ==
  ASSUME NEW c \in DeployCommand, NEW t \in Tree, NEW e, e = Target(c, t),
         NEW u, u = Result(c, t)
  PROVE  /\ u.env = [t.env EXCEPT ![e] = u.env[e]]
         /\ u.env[e].tag = c.tag
<1>1. e \in Environment /\ u = SetImageTagResult(c, t)
  BY TargetType DEF DeployCommand, Result
<1> DEFINE v == t.env[e]
           migration == IF c.migration = "keep" THEN v.migration ELSE c.migration
           w == [v EXCEPT !.tag = c.tag, !.migration = migration, !.tasks = c.tasks]
<1>2. w.tag = c.tag
  <2>1. v \in EnvironmentType
    BY <1>1, TreeFields
  <2> HIDE DEF v, migration
  <2> QED
    BY <2>1 DEF EnvironmentType
<1>3. u = [t EXCEPT !.env[e] = w]
  BY <1>1 DEF SetImageTagResult
<1> HIDE DEF w
<1>4. u.env = [t.env EXCEPT ![e] = w] /\ u.env[e] = w
  BY <1>1, <1>3 DEF Tree
<1> QED
  BY <1>2, <1>4

-----------------------------------------------------------------------------
(* The inductive invariant *)

(* writeMu excludes. *)
Exclusive == \A r \in Writer : step[r] \in {"locked", "writing"} => writeMu = r

(* A Writer is at work only for its handler, on the deploy it was asked.   *)
Handling ==
  \A r \in Writer :
    /\ phase[r] # "idle" => step[r] = "writing"
    /\ step[r] \in {"waiting", "locked", "writing"} => asked[r] # NoCommand
    /\ command[r] \in DeployCommand \cup {NoCommand}

(* Until it ends, a deploy has no outcome; the Environment resolved on a   *)
(* clone that is current is the one of main; a 200 says what landed.       *)
Fate(r) ==
  /\ step[r] \in {"idle", "waiting", "locked"} \/ phase[r] \in Working
       => status[r] = "none" /\ landed[r] = ""
  /\ phase[r] = "pushing" /\ ~moved[r] => environment[r] = Target(command[r], main)
  /\ status[r] = "ok" => environment[r] \in Environment /\ landed[r] = environment[r]
  /\ status[r] = "unchanged" => environment[r] \in Environment /\ landed[r] = ""
  /\ step[r] # "answered" => event[r] = NoEvent

Fates == \A r \in Writer : Fate(r)

(* Every tag in a tree is of an image in the registry. *)
Tagged(t, tags) == \A e \in Environment : t.env[e].tag \in tags \cup {""}

Built ==
  /\ Tagged(main, images)
  /\ \A r \in Writer : /\ phase[r] = "checking" => Tagged(clone[r], images)
                       /\ phase[r] = "pushing" => command[r].tag \in images

GateInv ==
  /\ CurrentInv /\ LedgerInv
  /\ Exclusive /\ Handling /\ Fates /\ Built
  /\ AcceptedEventsAreTrue

-----------------------------------------------------------------------------
(* The Writer under the handler *)

(* A step that answers with nothing written, whatever made it so. *)
LEMMA GivesUpCurrent ==
  ASSUME CurrentInv, NEW w \in Writer, NEW a \in Answer, Answers(w, a), NothingLands(w)
  PROVE  CurrentInv'
<1>1. TypeInv'
  BY AnswersType, NothingLandsType DEF CurrentInv
<1>2. ClonesAreCurrent' /\ PushesAreCurrent'
  BY <1>1 DEF CurrentInv, ClonesAreCurrent, PushesAreCurrent, TypeInv, TypeOK, Answers,
              NothingLands
<1> QED
  BY <1>1, <1>2 DEF CurrentInv

(* Steps of SetImageTag are steps of a Writer, but for the two ways the    *)
(* registry stops it.                                                      *)
LEMMA SetImageTagSteps ==
  ASSUME NEW r \in Writer, SetImageTag(r)
  PROVE  Step(r) \/ ImageMissing(r) \/ ImageUnchecked(r)
BY DEF SetImageTag, DeployCommits, DeployFindsNothing, DeployFails, DeployLands, Step

(* Killed handlers leave no Writer behind. *)
LEMMA RestartCurrent == CurrentInv /\ Restart => CurrentInv'
<1> SUFFICES ASSUME CurrentInv, Restart PROVE CurrentInv'
  OBVIOUS
<1>1. main' = main /\ main' \in Tree
  BY DEF CurrentInv, TypeInv, TypeOK, LedgerTypeOK, Restart
<1>2. \A r \in Writer :
        \/ /\ phase'[r] = "idle" /\ command'[r] = NoCommand /\ retry'[r] = FALSE
           /\ clone'[r] = EmptyTree /\ moved'[r] = FALSE /\ answer'[r] = "none"
           /\ written'[r] = 0
        \/ /\ phase'[r] = phase[r] /\ command'[r] = command[r] /\ retry'[r] = retry[r]
           /\ clone'[r] = clone[r] /\ moved'[r] = moved[r] /\ answer'[r] = answer[r]
           /\ written'[r] = written[r]
  BY DEF Restart
<1>3. TypeOK'
  <2>1. TypeOK
    BY DEF CurrentInv, TypeInv
  <2>2. phase' \in [Writer -> Phase]
    BY <2>1 DEF TypeOK, Restart, Phase
  <2>3. command' \in [Writer -> Command \cup {NoCommand}]
    BY <2>1 DEF TypeOK, Restart
  <2>4. retry' \in [Writer -> BOOLEAN] /\ moved' \in [Writer -> BOOLEAN]
    BY <2>1 DEF TypeOK, Restart
  <2>5. answer' \in [Writer -> Answer]
    BY <2>1 DEF TypeOK, Restart, Answer
  <2>6. written' \in [Writer -> 0..2]
    BY <2>1 DEF TypeOK, Restart
  <2>7. clone' \in [Writer -> Tree]
    BY <2>1, EmptyTreeType DEF TypeOK, Restart
  <2> QED
    BY <1>1, <2>2, <2>3, <2>4, <2>5, <2>6, <2>7 DEF TypeOK, LedgerTypeOK
<1>4. Coherent' /\ ClonesAreCurrent' /\ PushesAreCurrent'
  BY <1>1, <1>2 DEF CurrentInv, TypeInv, Coherent, ClonesAreCurrent, PushesAreCurrent, Working
<1> QED
  BY <1>3, <1>4 DEF CurrentInv, TypeInv

(* A developer's commit makes every clone stale. *)
LEMMA DevelopCurrent == CurrentInv /\ Develop => CurrentInv'
<1> SUFFICES ASSUME CurrentInv, Develop PROVE CurrentInv'
  OBVIOUS
<1>1. CASE OtherCommit \/ Configure
  BY <1>1, CurrentInvStep DEF Next
<1>2. ASSUME NEW c \in Command, Apply(c), FallBehind(Writer),
             UNCHANGED <<phase, command, retry, clone, answer, written>>
      PROVE  CurrentInv'
  <2>1. main' \in Tree
    BY <1>2, CommittedType DEF CurrentInv, TypeInv, TypeOK, LedgerTypeOK, Apply
  <2>2. TypeInv'
    BY <1>2, <2>1 DEF CurrentInv, TypeInv, TypeOK, LedgerTypeOK, Coherent, FallBehind
  <2>3. \A w \in Writer : phase'[w] \in {"checking", "pushing"} => moved'[w]
    BY <1>2 DEF FallBehind
  <2> QED
    BY <2>2, <2>3 DEF CurrentInv, ClonesAreCurrent, PushesAreCurrent
<1> QED
  BY <1>1, <1>2 DEF Develop

LEMMA GateCurrent ==
  ASSUME GateInv, [GateNext]_allVars
  PROVE  CurrentInv'
<1>1. CurrentInv
  BY DEF GateInv
<1>2. ASSUME NEW r \in Writer, CallGate(r) PROVE CurrentInv'
  BY <1>1, <1>2, CurrentInvStep DEF CallGate, Receive, Retry, Finish
<1>3. ASSUME NEW r \in Writer, Handle(r) PROVE CurrentInv'
  <2>1. CASE Mint(r)
    <3>1. asked[r] \in Command
      BY <2>1 DEF GateInv, AcceptedEventsAreTrue, GateTypeOK, Handling, Mint
    <3> QED
      BY <1>1, <2>1, <3>1, CurrentInvStep DEF Mint, Next
  <2>2. CASE SetImageTag(r)
    <3>1. CASE Step(r)
      BY <1>1, <3>1, CurrentInvStep DEF Next
    <3>2. CASE ImageMissing(r) \/ ImageUnchecked(r)
      BY <1>1, <3>2, GivesUpCurrent DEF ImageMissing, ImageUnchecked, Answer
    <3> QED
      BY <2>2, <3>1, <3>2, SetImageTagSteps
  <2>3. CASE Unlock(r)
    BY <1>1, <2>3, CurrentInvStep DEF Unlock, Next
  <2>4. CASE TurnedAway(r) \/ Lock(r) \/ MintFails(r) \/ Respond(r)
    BY <1>1, <2>4, CurrentInvStep DEF TurnedAway, Lock, MintFails, Respond
  <2> QED
    BY <1>3, <2>1, <2>2, <2>3, <2>4 DEF Handle
<1>4. ASSUME NEW tag \in Tag, PushImage(tag) PROVE CurrentInv'
  BY <1>1, <1>4, CurrentInvStep DEF PushImage
<1>5. CASE UNCHANGED allVars
  BY <1>1, <1>5, CurrentInvStep DEF allVars
<1> QED
  BY <1>1, <1>2, <1>3, <1>4, <1>5, DevelopCurrent, RestartCurrent DEF GateNext

-----------------------------------------------------------------------------
(* main *)

(* A Writer at work runs a deploy. *)
LEMMA CommandIsDeploy ==
  ASSUME GateInv, NEW r \in Writer, phase[r] \in Working
  PROVE  command[r] \in Command \cap DeployCommand
<1>1. command[r] \in Command /\ command[r] \in DeployCommand \cup {NoCommand}
  BY DEF GateInv, CurrentInv, TypeInv, Coherent, Handling
<1>2. NoCommand \notin CommandType
  BY DEF NoCommand, CommandType, CreateCommand, AddCommand, BindCommand, DeleteCommand,
         SecretCommand, AccessCommand, DeployCommand
<1> QED
  BY <1>1, <1>2, CommandAssumption

(* What a landing deploy has behind it. *)
LEMMA DeployLandsOnMain ==
  ASSUME GateInv, NEW r \in Writer, DeployLands(r)
  PROVE  /\ command[r] \in Command \cap DeployCommand
         /\ Outcome(command[r], main) = "commit"
         /\ main' = Result(command[r], main)
         /\ command[r].tag \in images
         /\ environment[r] = Target(command[r], main)
         /\ written' = [written EXCEPT ![r] = @ + 1]
         /\ FallBehind(Writer \ {r})
<1>1. phase[r] = "pushing" /\ CommitLands(r)
  BY DEF DeployLands, PushAccepted, LandsButFails
<1>2. ~moved[r] /\ main' = clone[r]
  BY <1>1 DEF CommitLands
<1>3. command[r] \in Command \cap DeployCommand
  BY <1>1, CommandIsDeploy DEF Working
<1> QED
  BY <1>1, <1>2, <1>3
  DEF GateInv, CurrentInv, PushesAreCurrent, Fates, Fate, Built, CommitLands

(* Every step of the gate leaves main alone or applies a whole command to  *)
(* it.                                                                     *)
LEMMA MainUnchanged ==
  ASSUME NEW r \in Writer, CallGate(r) \/ Handle(r), ~DeployLands(r)
  PROVE  main' = main
<1>1. ASSUME SetImageTag(r) PROVE main' = main
  BY <1>1 DEF SetImageTag, DeployCommits, DeployFindsNothing, ImageMissing, ImageUnchecked,
              DeployFails, Clone, Commit, FindsNothingToCommit, PushRejected,
              PushRejectedAgain, Fails, NothingLands
<1> QED
  BY <1>1 DEF CallGate, Receive, Retry, Finish, Handle, TurnedAway, Lock, Mint, MintFails,
              Unlock, Respond, Call, Return, vars

LEMMA GateStepOfLedger ==
  ASSUME GateInv, [GateNext]_allVars
  PROVE  [LedgerNext]_main
<1>1. ASSUME NEW r \in Writer, CallGate(r) \/ Handle(r) PROVE [LedgerNext]_main
  <2>1. CASE DeployLands(r)
    BY <2>1, DeployLandsOnMain DEF LedgerNext, Apply
  <2>2. CASE ~DeployLands(r)
    BY <1>1, <2>2, MainUnchanged
  <2> QED
    BY <2>1, <2>2
<1>2. CASE Develop
  BY <1>2 DEF Develop, OtherCommit, Configure, LedgerNext
<1>3. ASSUME (\E tag \in Tag : PushImage(tag)) \/ Restart \/ UNCHANGED allVars
      PROVE  main' = main
  BY <1>3 DEF PushImage, Restart, allVars, vars
<1> QED
  BY <1>1, <1>2, <1>3 DEF GateNext

-----------------------------------------------------------------------------
(* The handlers *)

(* At most one handler holds writeMu, and only it is past Lock. *)
LEMMA ExclusiveStep ==
  ASSUME GateInv, [GateNext]_allVars
  PROVE  Exclusive'
<1>1. Exclusive /\ step \in [Writer -> StepName]
  BY DEF GateInv, AcceptedEventsAreTrue, GateTypeOK
<1>2. ASSUME NEW r \in Writer, CallGate(r) PROVE Exclusive'
  BY <1>1, <1>2 DEF Exclusive, CallGate, Receive, Retry, Finish, Goes
<1>3. ASSUME NEW r \in Writer, Handle(r) PROVE Exclusive'
  <2>1. CASE Lock(r)
    BY <1>1, <2>1, GateAssumption DEF Exclusive, Lock, Goes
  <2>2. CASE MintFails(r) \/ Unlock(r)
    BY <1>1, <2>2 DEF Exclusive, MintFails, Unlock, Goes
  <2>3. CASE TurnedAway(r) \/ Mint(r) \/ SetImageTag(r) \/ Respond(r)
    BY <1>1, <2>3 DEF Exclusive, TurnedAway, Mint, SetImageTag, Respond, Goes
  <2> QED
    BY <1>3, <2>1, <2>2, <2>3 DEF Handle
<1>4. CASE Restart
  BY <1>1, <1>4 DEF Exclusive, Restart
<1>5. CASE (\E tag \in Tag : PushImage(tag)) \/ Develop \/ UNCHANGED allVars
  BY <1>1, <1>5 DEF Exclusive, PushImage, Develop, gateVars, allVars
<1> QED
  BY <1>2, <1>3, <1>4, <1>5 DEF GateNext

(* Each Writer is its handler's, and runs the deploy it was asked. *)
LEMMA HandlingStep ==
  ASSUME GateInv, [GateNext]_allVars
  PROVE  Handling'
<1>1. /\ Handling /\ GateTypeOK /\ TypeOK
  BY DEF GateInv, AcceptedEventsAreTrue, GateTypeOK
<1>2. ASSUME NEW r \in Writer, CallGate(r) PROVE Handling'
  <2>1. \A c \in Command : c.op = "deploy" => c # NoCommand
    BY DEF NoCommand
  <2>2. phase' = phase /\ command' = command /\ step[r] # "writing"
    BY <1>2 DEF CallGate, Receive, Retry, Finish, vars
  <2>3. \A s \in Writer \ {r} : step'[s] = step[s] /\ asked'[s] = asked[s]
    BY <1>1, <1>2 DEF GateTypeOK, CallGate, Receive, Retry, Finish, Goes
  <2>4. step'[r] \in {"waiting", "locked", "writing"} => asked'[r] # NoCommand
    <3>1. ASSUME NEW c \in Command, NEW caller \in Caller, Receive(r, c, caller)
          PROVE  step'[r] \in {"waiting", "locked", "writing"} => asked'[r] # NoCommand
      BY <1>1, <2>1, <3>1 DEF GateTypeOK, Receive, Goes
    <3>2. CASE Retry(r) \/ Finish(r)
      BY <1>1, <3>2 DEF GateTypeOK, Retry, Finish, Goes
    <3> QED
      BY <1>2, <3>1, <3>2 DEF CallGate
  <2> QED
    BY <1>1, <2>2, <2>3, <2>4 DEF Handling
<1>3. ASSUME NEW r \in Writer, Handle(r) PROVE Handling'
  <2>1. CASE Mint(r)
    BY <1>1, <2>1 DEF Handling, GateTypeOK, TypeOK, Mint, Call, Goes
  <2>2. CASE SetImageTag(r)
    <3>1. /\ phase[r] # "idle"
          /\ \A s \in Writer \ {r} : phase'[s] = phase[s] /\ command'[s] = command[s]
          /\ command'[r] \in {command[r], NoCommand}
      BY <1>1, <2>2 DEF TypeOK, SetImageTag, DeployCommits, DeployFindsNothing, ImageMissing,
                        ImageUnchecked, DeployFails, DeployLands, Clone, Commit,
                        FindsNothingToCommit, PushAccepted, PushRejected, PushRejectedAgain,
                        Fails, LandsButFails, Answers
    <3>2. step' = step /\ asked' = asked
      BY <2>2 DEF SetImageTag
    <3> QED
      BY <1>1, <3>1, <3>2 DEF Handling
  <2>3. CASE Unlock(r)
    BY <1>1, <2>3 DEF Handling, GateTypeOK, TypeOK, Unlock, Return, Goes
  <2>4. CASE TurnedAway(r) \/ Lock(r) \/ MintFails(r) \/ Respond(r)
    BY <1>1, <2>4 DEF Handling, GateTypeOK, TypeOK, TurnedAway, Lock, MintFails, Respond, Goes,
                      vars
  <2> QED
    BY <1>3, <2>1, <2>2, <2>3, <2>4 DEF Handle
<1>4. CASE Restart
  <2>1. \A r \in Writer : step[r] # "idle" /\ phase[r] # "idle" => step[r] = "writing"
    BY <1>1 DEF Handling
  <2>2. \A r \in Writer :
          \/ step'[r] = "answered" /\ phase'[r] = "idle" /\ command'[r] = NoCommand
          \/ /\ step'[r] = step[r] /\ phase'[r] = phase[r] /\ command'[r] = command[r]
             /\ asked'[r] = asked[r]
    BY <1>4 DEF Restart
  <2> QED
    BY <1>1, <2>2 DEF Handling
<1>5. CASE (\E tag \in Tag : PushImage(tag)) \/ Develop \/ UNCHANGED allVars
  BY <1>1, <1>5 DEF Handling, PushImage, Develop, OtherCommit, Configure, gateVars, allVars, vars
<1> QED
  BY <1>2, <1>3, <1>4, <1>5 DEF GateNext

(* What the registry lacks, no commit carries: a deploy of a tag the       *)
(* Environment already runs is not checked, and need not be.               *)
LEMMA CommitIsBuilt ==
  ASSUME GateInv, NEW r \in Writer, DeployCommits(r)
  PROVE  /\ command[r] \in DeployCommand /\ Authorized(command[r], clone[r])
         /\ HasDirectory(clone[r]) /\ command[r].tag \in images
<1>1. phase[r] = "checking" /\ Outcome(command[r], clone[r]) = "commit"
      /\ ImageExists(command[r], clone[r])
  BY DEF DeployCommits, Commit
<1>2. command[r] \in DeployCommand
  BY <1>1, CommandIsDeploy DEF Working
<1>3. HasDirectory(clone[r]) /\ Authorized(command[r], clone[r])
  BY <1>1, <1>2, DeployAuthorized
<1>4. command[r].tag \in images
  <2>1. CASE clone[r].env[Target(command[r], clone[r])].tag = command[r].tag
    <3>1. command[r].tag # ""
      BY <1>2, TreeAssumption DEF DeployCommand
    <3> QED
      BY <1>1, <2>1, <3>1, TargetType DEF GateInv, Built, Tagged
  <2>2. CASE clone[r].env[Target(command[r], clone[r])].tag # command[r].tag
    BY <1>1, <1>3, <2>2 DEF ImageExists, ChecksImage
  <2> QED
    BY <2>1, <2>2
<1> QED
  BY <1>2, <1>3, <1>4

LEMMA BuiltStep ==
  ASSUME GateInv, [GateNext]_allVars
  PROVE  Built'
<1>1. Built /\ TypeOK /\ LedgerInv
  BY DEF GateInv, AcceptedEventsAreTrue, GateTypeOK
<1>2. ASSUME NEW r \in Writer, CallGate(r) PROVE Built'
  BY <1>1, <1>2 DEF Built, Tagged, CallGate, Receive, Retry, Finish, vars
<1>3. ASSUME NEW r \in Writer, SetImageTag(r) PROVE Built'
  <2>1. images' = images
    BY <1>3 DEF SetImageTag
  <2>2. CASE DeployLands(r)
    <3>1. /\ \A s \in Writer \ {r} : /\ phase'[s] = phase[s] /\ clone'[s] = clone[s]
                                     /\ command'[s] = command[s]
          /\ phase'[r] = "answered"
      BY <1>1, <2>2 DEF DeployLands, PushAccepted, LandsButFails, Answers, TypeOK
    <3>2. Tagged(main', images)
      <4>1. PICK c \in DeployCommand : /\ c.tag \in images
                                       /\ main' = Result(c, main)
        BY <2>2, DeployLandsOnMain
      <4>2. PICK e : e = Target(c, main)
        OBVIOUS
      <4>3. main'.env = [main.env EXCEPT ![e] = main'.env[e]] /\ main'.env[e].tag = c.tag
        BY <1>1, <4>1, <4>2, DeployWrites DEF LedgerInv
      <4>4. \A d \in Environment : main'.env[d] = main.env[d] \/ main'.env[d].tag = c.tag
        BY <1>1, <4>3 DEF LedgerInv, Tree
      <4> QED
        BY <1>1, <4>1, <4>4 DEF Built, Tagged
    <3> QED
      BY <1>1, <2>1, <3>1, <3>2 DEF Built, Tagged
  <2>3. CASE DeployCommits(r)
    <3>1. command[r].tag \in images
      BY <2>3, CommitIsBuilt
    <3>2. /\ main' = main /\ command' = command /\ phase'[r] = "pushing"
          /\ \A s \in Writer \ {r} : phase'[s] = phase[s] /\ clone'[s] = clone[s]
      BY <1>1, <2>3 DEF DeployCommits, Commit, TypeOK
    <3> QED
      BY <1>1, <2>1, <3>1, <3>2 DEF Built, Tagged
  <2>4. CASE ~DeployLands(r) /\ ~DeployCommits(r)
    <3>1. /\ main' = main
          /\ \A s \in Writer \ {r} : /\ phase'[s] = phase[s] /\ clone'[s] = clone[s]
                                     /\ command'[s] = command[s]
          /\ \/ phase'[r] \in {"answered", "cloning"}
             \/ phase'[r] = "checking" /\ clone'[r] = main
      BY <1>1, <1>3, <2>4
      DEF SetImageTag, DeployFindsNothing, ImageMissing, ImageUnchecked, DeployFails, Clone,
          FindsNothingToCommit, PushRejected, PushRejectedAgain, Fails, Answers, NothingLands,
          TypeOK
    <3> QED
      BY <1>1, <2>1, <3>1 DEF Built, Tagged
  <2> QED
    BY <2>2, <2>3, <2>4
<1>4. ASSUME NEW r \in Writer, Mint(r) PROVE Built'
  BY <1>1, <1>4 DEF Built, Tagged, Mint, Call, TypeOK
<1>5. ASSUME NEW r \in Writer, Unlock(r) PROVE Built'
  BY <1>1, <1>5 DEF Built, Tagged, Unlock, Return, TypeOK
<1>6. ASSUME NEW r \in Writer, TurnedAway(r) \/ Lock(r) \/ MintFails(r) \/ Respond(r)
      PROVE  Built'
  BY <1>1, <1>6 DEF Built, Tagged, TurnedAway, Lock, MintFails, Respond, vars
<1>7. CASE Restart
  <2>1. /\ main' = main /\ images' = images
        /\ \A s \in Writer :
             \/ phase'[s] = "idle"
             \/ phase'[s] = phase[s] /\ clone'[s] = clone[s] /\ command'[s] = command[s]
    BY <1>7 DEF Restart
  <2> QED
    BY <1>1, <2>1 DEF Built, Tagged
<1>8. ASSUME NEW tag \in Tag, PushImage(tag) PROVE Built'
  BY <1>1, <1>8 DEF Built, Tagged, PushImage, vars
<1>9. CASE Develop
  <2>1. Tagged(main', images)
    <3>1. ASSUME NEW c \in Command \ DeployCommand, Apply(c) PROVE Tagged(main', images)
      <4>1. c \in CommandType /\ Allowed(c, main) /\ main' = Result(c, main)
        BY <3>1, CommandAssumption DEF Apply, Outcome
      <4>2. c.op # "deploy"
        BY <3>1, <4>1 DEF CommandType, CreateCommand, AddCommand, BindCommand, DeleteCommand,
                          SecretCommand, AccessCommand
      <4>3. ASSUME NEW e \in Environment
            PROVE  TasksWrittenWithTag(c, main.env[e], main'.env[e])
        BY <1>1, <4>1, TasksComeWithTag DEF LedgerInv
      <4> QED
        BY <1>1, <4>2, <4>3 DEF Built, Tagged, TasksWrittenWithTag
    <3>2. ASSUME NEW field \in Setting, CompleteSetting(field) PROVE Tagged(main', images)
      BY <1>1, <3>2, SettingStep DEF Built, Tagged
    <3> QED
      BY <1>1, <1>9, <3>1, <3>2 DEF Develop, OtherCommit, Configure, Built
  <2> QED
    BY <1>1, <1>9, <2>1 DEF Built, Develop, OtherCommit, Configure, gateVars
<1>10. CASE UNCHANGED allVars
  BY <1>1, <1>10 DEF Built, Tagged, allVars, vars, gateVars
<1> QED
  BY <1>2, <1>3, <1>4, <1>5, <1>6, <1>7, <1>8, <1>9, <1>10 DEF GateNext, Handle

-----------------------------------------------------------------------------
(* What becomes of a deploy *)

(* A handler that took no part in a step keeps its fate: when main moved,  *)
(* its clone fell behind.                                                  *)
LEMMA OthersKeepTheirFate ==
  ASSUME NEW r \in Writer, Fate(r),
         step'[r] = step[r], phase'[r] = phase[r], status'[r] = status[r],
         landed'[r] = landed[r], environment'[r] = environment[r],
         event'[r] = event[r], command'[r] = command[r],
         phase[r] = "pushing" /\ ~moved'[r] => ~moved[r] /\ main' = main
  PROVE  Fate(r)'
BY DEF Fate

LEMMA FatesStep ==
  ASSUME GateInv, [GateNext]_allVars
  PROVE  Fates'
<1>1. Fates /\ Handling /\ GateTypeOK /\ TypeOK
  BY DEF GateInv, AcceptedEventsAreTrue, GateTypeOK
<1>2. ASSUME NEW r \in Writer, CallGate(r) PROVE Fates'
  <2>1. ASSUME NEW s \in Writer \ {r} PROVE Fate(s)'
    BY <1>1, <1>2, OthersKeepTheirFate
    DEF Fates, GateTypeOK, CallGate, Receive, Retry, Finish, Goes, vars
  <2>2. Fate(r)'
    <3>1. phase'[r] = "idle"
      BY <1>1, <1>2 DEF Handling, CallGate, Receive, Retry, Finish, vars
    <3>2. ASSUME NEW c \in Command, NEW caller \in Caller, Receive(r, c, caller)
          PROVE  Fate(r)'
      <4>1. step[r] = "idle" /\ landed' = landed /\ event' = event /\ environment' = environment
        BY <3>2 DEF Receive
      <4>2. \/ status'[r] = status[r]
            \/ step'[r] = "responding" /\ status'[r] = "refused"
        BY <1>1, <3>2 DEF Receive, GateTypeOK, Goes
      <4> QED
        BY <1>1, <3>1, <4>1, <4>2 DEF Fates, Fate, Working
    <3>3. CASE Retry(r) \/ Finish(r)
      <4>1. status'[r] = "none" /\ landed'[r] = "" /\ event'[r] = NoEvent
        BY <1>1, <3>3 DEF Retry, Finish, GateTypeOK
      <4> QED
        BY <3>1, <4>1 DEF Fate
    <3> QED
      BY <1>2, <3>2, <3>3 DEF CallGate
  <2> QED
    BY <2>1, <2>2 DEF Fates
<1>3. ASSUME NEW r \in Writer, SetImageTag(r) PROVE Fates'
  <2>1. ASSUME NEW s \in Writer \ {r} PROVE Fate(s)'
    <3>1. /\ step' = step /\ event' = event
          /\ status'[s] = status[s] /\ landed'[s] = landed[s]
          /\ environment'[s] = environment[s]
      BY <1>1, <1>3 DEF GateTypeOK, SetImageTag, DeployCommits, DeployFindsNothing,
                        ImageMissing, ImageUnchecked, DeployFails, DeployLands, Resolve, Answered
    <3>2. phase'[s] = phase[s] /\ command'[s] = command[s]
      BY <1>1, <1>3 DEF TypeOK, SetImageTag, DeployCommits, DeployFindsNothing, ImageMissing,
                        ImageUnchecked, DeployFails, DeployLands, Clone, Commit,
                        FindsNothingToCommit, PushAccepted, PushRejected, PushRejectedAgain,
                        Fails, LandsButFails, Answers
    <3>3. phase[s] = "pushing" /\ ~moved'[s] => ~moved[s] /\ main' = main
      <4>1. CASE DeployLands(r)
        BY <4>1 DEF DeployLands, PushAccepted, LandsButFails, CommitLands, FallBehind
      <4>2. CASE ~DeployLands(r)
        BY <1>1, <1>3, <4>2
        DEF TypeOK, SetImageTag, DeployCommits, DeployFindsNothing, ImageMissing,
            ImageUnchecked, DeployFails, Clone, Commit, FindsNothingToCommit, PushRejected,
            PushRejectedAgain, Fails, NothingLands
      <4> QED
        BY <4>1, <4>2
    <3> QED
      BY <1>1, <3>1, <3>2, <3>3, OthersKeepTheirFate DEF Fates
  <2>2. Fate(r)'
    <3>1. /\ step' = step /\ event' = event /\ phase[r] \in Working
          /\ step[r] = "writing"
      BY <1>1, <1>3 DEF Handling, Working, SetImageTag, DeployCommits, DeployFindsNothing,
                        ImageMissing, ImageUnchecked, DeployFails, DeployLands, Clone, Commit,
                        FindsNothingToCommit, PushAccepted, PushRejected, PushRejectedAgain,
                        Fails, LandsButFails
    <3>2. event[r] = NoEvent /\ status[r] = "none" /\ landed[r] = ""
      BY <1>1, <3>1 DEF Fates, Fate
    <3>3. CASE (Clone(r) \/ PushRejected(r)) /\ UNCHANGED <<environment, status, landed>>
      BY <1>1, <3>1, <3>2, <3>3 DEF Fate, TypeOK, Clone, PushRejected
    <3>4. CASE DeployCommits(r) /\ UNCHANGED landed
      <4>1. phase'[r] = "pushing" /\ moved' = moved /\ main' = main /\ command' = command
            /\ phase[r] = "checking"
        BY <1>1, <3>4 DEF DeployCommits, Commit, TypeOK
      <4>2. environment'[r] = Target(command[r], clone[r])
        BY <1>1, <3>4, CommitIsBuilt DEF DeployCommits, Resolve, GateTypeOK
      <4>3. ~moved[r] => clone[r] = main
        BY <4>1 DEF GateInv, CurrentInv, ClonesAreCurrent
      <4> QED
        BY <3>1, <3>2, <3>4, <4>1, <4>2, <4>3 DEF Fate, DeployCommits
    <3>5. CASE DeployFindsNothing(r) /\ UNCHANGED landed
      <4>1. phase'[r] = "answered"
        BY <1>1, <3>5 DEF DeployFindsNothing, FindsNothingToCommit, Answers, TypeOK
      <4>2. /\ status'[r] \in {"unchanged", "missing", "refused"}
            /\ status'[r] = "unchanged" => Outcome(command[r], clone[r]) = "unchanged"
        BY <1>1, <3>5 DEF DeployFindsNothing, Answered, GateTypeOK
      <4>3. Outcome(command[r], clone[r]) = "unchanged" => environment'[r] \in Environment
        <5>1. command[r] \in DeployCommand
          BY <3>1, CommandIsDeploy
        <5> QED
          BY <1>1, <3>5, <5>1, DeployAuthorized, TargetType
          DEF DeployFindsNothing, Resolve, GateTypeOK
      <4> QED
        BY <3>1, <3>2, <3>5, <4>1, <4>2, <4>3 DEF Fate, Working
    <3>6. CASE (ImageMissing(r) \/ ImageUnchecked(r) \/ DeployFails(r)) /\ UNCHANGED landed
      <4>1. phase'[r] = "answered"
        BY <1>1, <3>6 DEF ImageMissing, ImageUnchecked, DeployFails, PushRejectedAgain, Fails,
                          Answers, TypeOK
      <4>2. status'[r] \in {"refused", "unavailable", "error"}
        BY <1>1, <3>6 DEF ImageMissing, ImageUnchecked, DeployFails, Answered, GateTypeOK
      <4> QED
        BY <3>1, <3>2, <3>6, <4>1, <4>2 DEF Fate, Working
    <3>7. CASE DeployLands(r)
      <4>1. phase'[r] = "answered" /\ phase[r] = "pushing" /\ ~moved[r]
        BY <1>1, <3>7 DEF DeployLands, PushAccepted, LandsButFails, CommitLands, Answers, TypeOK
      <4>2. /\ status'[r] \in {"ok", "error"} /\ environment' = environment
            /\ landed'[r] = Target(command[r], main)
        BY <1>1, <3>7 DEF DeployLands, Answered, GateTypeOK
      <4>3. environment[r] = Target(command[r], main) /\ environment[r] \in Environment
        BY <1>1, <4>1, TargetType DEF Fates, Fate
      <4> QED
        BY <3>1, <3>2, <4>1, <4>2, <4>3 DEF Fate, Working
    <3> QED
      BY <1>3, <3>3, <3>4, <3>5, <3>6, <3>7 DEF SetImageTag
  <2> QED
    BY <2>1, <2>2 DEF Fates
<1>4. ASSUME NEW r \in Writer,
             TurnedAway(r) \/ Lock(r) \/ Mint(r) \/ MintFails(r) \/ Unlock(r) \/ Respond(r)
      PROVE  Fates'
  <2>1. ASSUME NEW s \in Writer \ {r} PROVE Fate(s)'
    <3>1. /\ step'[s] = step[s] /\ status'[s] = status[s] /\ landed' = landed
          /\ environment' = environment /\ event'[s] = event[s] /\ command'[s] = command[s]
          /\ phase'[s] = phase[s] /\ moved' = moved /\ main' = main
      BY <1>1, <1>4 DEF GateTypeOK, TypeOK, TurnedAway, Lock, Mint, MintFails, Unlock, Respond,
                        Goes, Call, Return, vars
    <3> QED
      BY <1>1, <3>1, OthersKeepTheirFate DEF Fates
  <2>2. Fate(r)'
    <3>1. CASE TurnedAway(r) \/ Lock(r) \/ MintFails(r)
      <4>1. phase'[r] = "idle"
        BY <1>1, <3>1 DEF Handling, TurnedAway, Lock, MintFails, vars
      <4> QED
        BY <1>1, <3>1, <4>1 DEF Fates, Fate, Working, GateTypeOK, TurnedAway, Lock, MintFails,
                                Goes
    <3>2. CASE Mint(r)
      BY <1>1, <3>2 DEF Fates, Fate, GateTypeOK, TypeOK, Mint, Call, Goes
    <3>3. CASE Unlock(r)
      BY <1>1, <3>3 DEF Fates, Fate, Working, GateTypeOK, TypeOK, Unlock, Return, Goes
    <3>4. CASE Respond(r)
      <4>1. phase'[r] = "idle"
        BY <1>1, <3>4 DEF Handling, Respond, vars
      <4> QED
        BY <1>1, <3>4, <4>1 DEF Fates, Fate, Working, GateTypeOK, Respond, Goes
    <3> QED
      BY <1>4, <3>1, <3>2, <3>3, <3>4
  <2> QED
    BY <2>1, <2>2 DEF Fates
<1>5. CASE Restart
  <2> SUFFICES ASSUME NEW s \in Writer PROVE Fate(s)'
    BY DEF Fates
  <2>1. event' = event /\ landed' = landed /\ environment' = environment /\ main' = main
    BY <1>5 DEF Restart
  <2>2. CASE step[s] \in {"waiting", "locked", "writing", "responding"}
    <3>1. step'[s] = "answered" /\ status'[s] = "lost" /\ phase'[s] = "idle"
      BY <1>5, <2>2 DEF Restart
    <3> QED
      BY <3>1 DEF Fate, Working
  <2>3. CASE step[s] \notin {"waiting", "locked", "writing", "responding"}
    <3>1. /\ step'[s] = step[s] /\ status'[s] = status[s] /\ phase'[s] = phase[s]
          /\ command'[s] = command[s] /\ moved'[s] = moved[s]
      BY <1>5, <2>3 DEF Restart
    <3> QED
      BY <1>1, <2>1, <3>1, OthersKeepTheirFate DEF Fates
  <2> QED
    BY <2>2, <2>3
<1>6. CASE Develop
  <2>1. \A s \in Writer : phase[s] = "pushing" => moved'[s]
    BY <1>6 DEF Develop, OtherCommit, Configure, FallBehind
  <2> QED
    BY <1>1, <1>6, <2>1, OthersKeepTheirFate
    DEF Fates, Develop, OtherCommit, Configure, gateVars
<1>7. CASE (\E tag \in Tag : PushImage(tag)) \/ UNCHANGED allVars
  BY <1>1, <1>7, OthersKeepTheirFate DEF Fates, PushImage, allVars, vars, gateVars
<1> QED
  BY <1>2, <1>3, <1>4, <1>5, <1>6, <1>7 DEF GateNext, Handle

-----------------------------------------------------------------------------
(* Types and Events *)

(* What AcceptedEventsAreTrue says of one Event, when its commit landed in  *)
(* l, or did not land and l = "".                                          *)
TrueEvent(ev, l) ==
  ev.reason = "DeployAccepted" => l = IF ev.commit THEN ev.environment ELSE ""

LEMMA TrueEvents ==
  AcceptedEventsAreTrue <=> GateTypeOK /\ \A r \in Writer : TrueEvent(event[r], landed[r])
BY DEF AcceptedEventsAreTrue, TrueEvent

LEMMA NoEventIsTrue == \A l : TrueEvent(NoEvent, l)
<1>1. NoEvent.reason = "none"
  BY DEF NoEvent
<1> QED
  BY <1>1 DEF TrueEvent

LEMMA RecordedEventIsTrue ==
  ASSUME GateInv, NEW r \in Writer
  PROVE  EventOf(r) \in EventType /\ TrueEvent(EventOf(r), landed[r])
<1>1. Fate(r) /\ environment[r] \in Environment \cup {""}
  BY DEF GateInv, Fates, AcceptedEventsAreTrue, GateTypeOK
<1>2. CASE status[r] \in {"ok", "unchanged"}
  <2> DEFINE ev == [reason |-> "DeployAccepted", environment |-> environment[r],
                    commit |-> status[r] = "ok"]
  <2>1. EventOf(r) = ev
    BY <1>2 DEF EventOf
  <2>2. environment[r] \in Environment
    BY <1>1, <1>2 DEF Fate
  <2>3. ev \in EventType
    BY <2>2 DEF EventType
  <2>4. ev.reason = "DeployAccepted" /\ ev.environment = environment[r]
        /\ ev.commit = (status[r] = "ok")
    OBVIOUS
  <2>5. CASE status[r] = "ok"
    <3>1. landed[r] = ev.environment
      BY <1>1, <2>4, <2>5 DEF Fate
    <3> QED
      BY <2>1, <2>3, <2>4, <2>5, <3>1 DEF TrueEvent
  <2>6. CASE status[r] = "unchanged"
    <3>1. landed[r] = "" /\ ~(status[r] = "ok")
      BY <1>1, <2>6 DEF Fate
    <3> QED
      BY <2>1, <2>3, <2>4, <3>1 DEF TrueEvent
  <2> QED
    BY <1>2, <2>5, <2>6
<1>3. CASE status[r] \in {"refused", "unavailable", "error"} /\ environment[r] # ""
  <2>1. EventOf(r) = [reason |-> "DeployRefused", environment |-> environment[r], commit |-> FALSE]
    BY <1>3 DEF EventOf
  <2>2. EventOf(r) \in EventType
    <3>1. environment[r] \in Environment
      BY <1>1, <1>3
    <3> QED
      BY <2>1, <3>1 DEF EventType
  <2>3. EventOf(r).reason = "DeployRefused"
    BY <2>1
  <2> QED
    BY <2>2, <2>3 DEF TrueEvent
<1>4. CASE /\ status[r] \notin {"ok", "unchanged"}
           /\ ~(status[r] \in {"refused", "unavailable", "error"} /\ environment[r] # "")
  <2>1. EventOf(r) = NoEvent
    BY <1>4 DEF EventOf
  <2> QED
    BY <2>1, NoEventIsTrue DEF EventType
<1> QED
  BY <1>2, <1>3, <1>4

LEMMA GateTypeStep ==
  ASSUME GateInv, [GateNext]_allVars, TypeOK'
  PROVE  GateTypeOK'
<1>1. GateTypeOK /\ Handling
  BY DEF GateInv, AcceptedEventsAreTrue
<1>0. MaxTries \in Nat \ {0}
  BY GateAssumption
<1>2. ASSUME NEW r \in Writer, CallGate(r) PROVE GateTypeOK'
  <2>1. ASSUME NEW c \in Command, NEW caller \in Caller, Receive(r, c, caller)
        PROVE  GateTypeOK'
    <3>1. c \in DeployCommand
      BY <2>1, CommandAssumption
      DEF Receive, CommandType, CreateCommand, AddCommand, BindCommand, DeleteCommand,
          SecretCommand, AccessCommand
    <3>2. asked' \in [Writer -> (Command \cap DeployCommand) \cup {NoCommand}]
      BY <1>1, <2>1, <3>1 DEF GateTypeOK, Receive
    <3>3. tries' \in [Writer -> 0..MaxTries]
      <4>1. 1 \in 0..MaxTries
        BY <1>0
      <4>2. tries \in [Writer -> 0..MaxTries] /\ tries' = [tries EXCEPT ![r] = 1]
        BY <1>1, <2>1 DEF GateTypeOK, Receive
      <4> QED
        BY <4>1, <4>2
    <3>4. step' \in [Writer -> StepName] /\ status' \in [Writer -> Status]
      BY <1>1, <2>1 DEF GateTypeOK, Receive, Goes, StepName, Status
    <3> QED
      BY <1>1, <2>1, <3>2, <3>3, <3>4 DEF GateTypeOK, Receive
  <2>2. CASE Retry(r)
    <3>1. tries' \in [Writer -> 0..MaxTries]
      <4>1. /\ tries \in [Writer -> 0..MaxTries] /\ tries[r] < MaxTries
            /\ tries' = [tries EXCEPT ![r] = @ + 1]
        BY <1>1, <2>2 DEF GateTypeOK, Retry
      <4>2. tries[r] \in 0..MaxTries
        BY <4>1
      <4>3. tries[r] + 1 \in 0..MaxTries
        BY <1>0, <4>1, <4>2
      <4> QED
        BY <4>1, <4>3
    <3>2. step' \in [Writer -> StepName] /\ status' \in [Writer -> Status]
      BY <1>1, <2>2 DEF GateTypeOK, Retry, Goes, StepName, Status
    <3>3. event' \in [Writer -> EventType]
      BY <1>1, <2>2 DEF GateTypeOK, Retry, EventType
    <3> QED
      BY <1>1, <2>2, <3>1, <3>2, <3>3 DEF GateTypeOK, Retry
  <2>3. CASE Finish(r)
    <3>1. tries' \in [Writer -> 0..MaxTries]
      <4>1. 0 \in 0..MaxTries
        BY <1>0
      <4>2. tries \in [Writer -> 0..MaxTries] /\ tries' = [tries EXCEPT ![r] = 0]
        BY <1>1, <2>3 DEF GateTypeOK, Finish
      <4> QED
        BY <4>1, <4>2
    <3>2. step' \in [Writer -> StepName] /\ status' \in [Writer -> Status]
      BY <1>1, <2>3 DEF GateTypeOK, Finish, Goes, StepName, Status
    <3>3. event' \in [Writer -> EventType]
      BY <1>1, <2>3 DEF GateTypeOK, Finish, EventType
    <3> QED
      BY <1>1, <2>3, <3>1, <3>2, <3>3 DEF GateTypeOK, Finish
  <2> QED
    BY <1>2, <2>1, <2>2, <2>3 DEF CallGate
<1>3. ASSUME NEW r \in Writer, SetImageTag(r) PROVE GateTypeOK'
  <2>1. status' \in [Writer -> Status]
    BY <1>1, <1>3 DEF GateTypeOK, SetImageTag, DeployCommits, DeployFindsNothing, ImageMissing,
                      ImageUnchecked, DeployFails, DeployLands, Answered, Status
  <2>2. environment' \in [Writer -> Environment \cup {""}]
    <3>1. environment \in [Writer -> Environment \cup {""}]
      BY <1>1 DEF GateTypeOK
    <3>2. Resolve(r) \/ environment' = environment
      BY <1>3 DEF SetImageTag, DeployCommits, DeployFindsNothing, ImageMissing,
                  ImageUnchecked, DeployFails, DeployLands
    <3>3. ASSUME Resolve(r) PROVE environment' \in [Writer -> Environment \cup {""}]
      <4>1. Target(command[r], clone[r]) \in Environment
        BY TargetType
      <4>2. PICK e \in Environment \cup {""} : environment' = [environment EXCEPT ![r] = e]
        <5>1. CASE ~HasDirectory(clone[r])
          BY <3>1, <3>3, <5>1 DEF Resolve
        <5>2. CASE HasDirectory(clone[r]) /\ Authorized(command[r], clone[r])
          BY <3>1, <3>3, <4>1, <5>2 DEF Resolve
        <5>3. CASE HasDirectory(clone[r]) /\ ~Authorized(command[r], clone[r])
          BY <3>1, <3>3, <5>3 DEF Resolve
        <5> QED
          BY <5>1, <5>2, <5>3
      <4> QED
        BY <3>1, <4>2
    <3> QED
      BY <3>1, <3>2, <3>3
  <2>3. landed' \in [Writer -> Environment \cup {""}]
    <3>1. landed \in [Writer -> Environment \cup {""}]
      BY <1>1 DEF GateTypeOK
    <3>2. \/ landed' = landed
          \/ landed' = [landed EXCEPT ![r] = Target(command[r], main)]
      BY <1>3 DEF SetImageTag, DeployLands
    <3>3. Target(command[r], main) \in Environment
      BY TargetType
    <3> QED
      BY <3>1, <3>2, <3>3
  <2> QED
    BY <1>1, <1>3, <2>1, <2>2, <2>3 DEF GateTypeOK, SetImageTag
<1>4. ASSUME NEW r \in Writer, Respond(r) PROVE GateTypeOK'
  <2>1. EventOf(r) \in EventType
    BY RecordedEventIsTrue
  <2> QED
    BY <1>1, <1>4, <2>1 DEF GateTypeOK, Respond, Goes, StepName
<1>5. ASSUME NEW r \in Writer,
             TurnedAway(r) \/ Lock(r) \/ Mint(r) \/ MintFails(r) \/ Unlock(r)
      PROVE  GateTypeOK'
  <2>1. step' \in [Writer -> StepName]
    BY <1>1, <1>5 DEF GateTypeOK, TurnedAway, Lock, Mint, MintFails, Unlock, Goes, StepName
  <2>2. writeMu' \in Writer \cup {Nobody}
    BY <1>1, <1>5 DEF GateTypeOK, TurnedAway, Lock, Mint, MintFails, Unlock
  <2>3. status' \in [Writer -> Status]
    BY <1>1, <1>5 DEF GateTypeOK, TurnedAway, Lock, Mint, MintFails, Unlock, Status
  <2> QED
    BY <1>1, <1>5, <2>1, <2>2, <2>3 DEF GateTypeOK, TurnedAway, Lock, Mint, MintFails, Unlock
<1>6. CASE Restart
  <2>1. step' \in [Writer -> StepName] /\ status' \in [Writer -> Status]
    BY <1>1, <1>6 DEF GateTypeOK, Restart, StepName, Status
  <2> QED
    BY <1>1, <1>6, <2>1 DEF GateTypeOK, Restart
<1>7. CASE (\E tag \in Tag : PushImage(tag)) \/ Develop \/ UNCHANGED allVars
  BY <1>1, <1>7 DEF GateTypeOK, PushImage, Develop, gateVars, allVars
<1> QED
  BY <1>2, <1>3, <1>4, <1>5, <1>6, <1>7 DEF GateNext, Handle

LEMMA EventsStep ==
  ASSUME GateInv, [GateNext]_allVars, GateTypeOK'
  PROVE  AcceptedEventsAreTrue'
<1> SUFFICES \A s \in Writer : TrueEvent(event'[s], landed'[s])
  BY DEF AcceptedEventsAreTrue, TrueEvent
<1>1. GateTypeOK /\ Handling /\ Fates
  BY DEF GateInv, AcceptedEventsAreTrue
<1>0. \A s \in Writer : TrueEvent(event[s], landed[s])
  BY TrueEvents DEF GateInv
<1>2. ASSUME NEW r \in Writer, SetImageTag(r)
      PROVE  \A s \in Writer : TrueEvent(event'[s], landed'[s])
  <2>1. TrueEvent(event'[r], landed'[r])
    <3>1. phase[r] # "idle"
      BY <1>2 DEF SetImageTag, DeployCommits, DeployFindsNothing, ImageMissing, ImageUnchecked,
                  DeployFails, DeployLands, Clone, Commit, FindsNothingToCommit, PushAccepted,
                  PushRejected, PushRejectedAgain, Fails, LandsButFails
    <3>2. step[r] = "writing"
      BY <1>1, <3>1 DEF Handling
    <3>3. event[r] = NoEvent
      BY <1>1, <3>2 DEF Fates, Fate
    <3>4. event' = event
      BY <1>2 DEF SetImageTag
    <3> QED
      BY <3>3, <3>4, NoEventIsTrue
  <2>2. event' = event /\ \A s \in Writer \ {r} : landed'[s] = landed[s]
    BY <1>1, <1>2 DEF SetImageTag, DeployLands, GateTypeOK
  <2> QED
    BY <1>0, <1>1, <2>1, <2>2
<1>3. ASSUME NEW r \in Writer, Respond(r)
      PROVE  \A s \in Writer : TrueEvent(event'[s], landed'[s])
  <2>1. /\ landed' = landed /\ event'[r] = EventOf(r)
        /\ \A s \in Writer \ {r} : event'[s] = event[s]
    BY <1>1, <1>3 DEF Respond, GateTypeOK
  <2> QED
    BY <1>0, <2>1, RecordedEventIsTrue
<1>4. ASSUME NEW r \in Writer, CallGate(r)
      PROVE  \A s \in Writer : TrueEvent(event'[s], landed'[s])
  <2>1. \A s \in Writer : \/ event'[s] = NoEvent
                          \/ event'[s] = event[s] /\ landed'[s] = landed[s]
    BY <1>1, <1>4 DEF CallGate, Receive, Retry, Finish, GateTypeOK
  <2> QED
    BY <1>0, <2>1, NoEventIsTrue
<1>5. ASSUME event' = event, landed' = landed
      PROVE  \A s \in Writer : TrueEvent(event'[s], landed'[s])
  BY <1>0, <1>5
<1>6. ASSUME NEW r \in Writer,
             TurnedAway(r) \/ Lock(r) \/ Mint(r) \/ MintFails(r) \/ Unlock(r)
      PROVE  event' = event /\ landed' = landed
  BY <1>6 DEF TurnedAway, Lock, Mint, MintFails, Unlock
<1>7. CASE (\E tag \in Tag : PushImage(tag)) \/ Develop \/ Restart \/ UNCHANGED allVars
  BY <1>5, <1>7 DEF PushImage, Develop, Restart, gateVars, allVars
<1> QED
  BY <1>2, <1>3, <1>4, <1>5, <1>6, <1>7 DEF GateNext, Handle

-----------------------------------------------------------------------------
(* The theorems *)

LEMMA GateInvInit == GateInit => GateInv
<1> SUFFICES ASSUME GateInit PROVE GateInv
  OBVIOUS
<1>1. CurrentInv
  BY TypeInvInit DEF GateInit, CurrentInv, ClonesAreCurrent, PushesAreCurrent, Init
<1>2. LedgerInv
  BY LedgerInvInit DEF GateInit, Init
<1>3. AcceptedEventsAreTrue
  <2>1. TypeOK
    BY <1>1 DEF CurrentInv, TypeInv
  <2>2. event \in [Writer -> EventType]
    BY DEF GateInit, EventType
  <2>3. tries \in [Writer -> 0..MaxTries]
    <3>1. 0 \in 0..MaxTries
      BY GateAssumption
    <3> QED
      BY <3>1 DEF GateInit
  <2>4. step \in [Writer -> StepName] /\ status \in [Writer -> Status]
    BY DEF GateInit, StepName, Status
  <2> QED
    BY <2>1, <2>2, <2>3, <2>4, NoEventIsTrue, TrueEvents DEF GateTypeOK, GateInit
<1>4. Built
  <2>1. NoEnvironment.tag = ""
    BY DEF NoEnvironment
  <2> QED
    BY <2>1 DEF Built, Tagged, GateInit, Init, LedgerInit, EmptyTree
<1>5. Exclusive /\ Handling /\ Fates
  BY DEF GateInit, Init, Exclusive, Handling, Fates, Fate, Working, NoCommand
<1> QED
  BY <1>1, <1>2, <1>3, <1>4, <1>5 DEF GateInv

LEMMA GateInvStep == GateInv /\ [GateNext]_allVars => GateInv'
<1> SUFFICES ASSUME GateInv, [GateNext]_allVars PROVE GateInv'
  OBVIOUS
<1>1. CurrentInv' /\ TypeOK'
  BY GateCurrent DEF CurrentInv, TypeInv
<1>2. LedgerInv'
  BY GateStepOfLedger, LedgerInvStep DEF GateInv
<1>3. AcceptedEventsAreTrue'
  BY <1>1, GateTypeStep, EventsStep
<1> QED
  BY <1>1, <1>2, <1>3, ExclusiveStep, HandlingStep, FatesStep, BuiltStep DEF GateInv

LEMMA GateInvAlways == GateSpec => []GateInv
BY GateInvInit, GateInvStep, PTL DEF GateSpec

(* A DeployAccepted Event is true of main, whatever the handler's attempts *)
(* resolved before, and however often it was called and killed; and every  *)
(* variable keeps its type.                                                *)
THEOREM AcceptedEventsStayTrue == GateSpec => []AcceptedEventsAreTrue
<1>1. GateInv => AcceptedEventsAreTrue
  BY DEF GateInv
<1> QED
  BY <1>1, GateInvAlways, PTL

(* Only a landing deploy raises a count of commits. *)
LEMMA OnlyDeploysAreWritten ==
  ASSUME GateInv, [GateNext]_allVars, NEW r \in Writer, written'[r] > written[r]
  PROVE  DeployLands(r)
<1>1. GateTypeOK /\ TypeOK
  BY DEF GateInv, AcceptedEventsAreTrue, GateTypeOK
<1>2. \A n \in 0..2 : ~(n > n) /\ ~(0 > n)
  OBVIOUS
<1>3. written[r] \in 0..2
  BY <1>1 DEF TypeOK
<1>4. ASSUME NEW s \in Writer, SetImageTag(s) PROVE DeployLands(r)
  <2>1. CASE DeployLands(s)
    <3>1. written' = [written EXCEPT ![s] = @ + 1]
      BY <2>1, DeployLandsOnMain
    <3>2. s = r
      BY <1>1, <1>2, <1>3, <3>1 DEF TypeOK
    <3> QED
      BY <2>1, <3>2
  <2>2. CASE ~DeployLands(s)
    <3>1. written' = written
      BY <1>4, <2>2
      DEF SetImageTag, DeployCommits, DeployFindsNothing, ImageMissing, ImageUnchecked,
          DeployFails, Clone, Commit, FindsNothingToCommit, PushRejected, PushRejectedAgain,
          Fails, NothingLands
    <3> QED
      BY <1>2, <1>3, <3>1
  <2> QED
    BY <2>1, <2>2
<1>5. CASE (\E s \in Writer : Unlock(s)) \/ Restart
  <2>1. written'[r] \in {written[r], 0}
    BY <1>1, <1>5 DEF Unlock, Return, Restart, TypeOK
  <2> QED
    BY <1>2, <1>3, <2>1
<1>6. ASSUME NEW s \in Writer,
             \/ CallGate(s)
             \/ TurnedAway(s) \/ Lock(s) \/ Mint(s) \/ MintFails(s) \/ Respond(s)
      PROVE  written' = written
  BY <1>6 DEF CallGate, Receive, Retry, Finish, TurnedAway, Lock, Mint, MintFails, Respond,
              Call, vars
<1>7. CASE (\E tag \in Tag : PushImage(tag)) \/ Develop \/ UNCHANGED allVars
  <2>1. written' = written
    BY <1>7 DEF PushImage, Develop, OtherCommit, Configure, allVars, vars
  <2> QED
    BY <1>2, <1>3, <2>1
<1> QED
  BY <1>2, <1>3, <1>4, <1>5, <1>6, <1>7 DEF GateNext, Handle

(* What lands was authorised on the very tree it changes, and its image    *)
(* was built: a rebind, a delete or a new staging between the check and    *)
(* the push cannot make it land elsewhere.                                 *)
THEOREM DeploysLandAuthorised == GateSpec => OnlyAuthorisedDeploysLand
<1> DEFINE Authorised ==
      \A r \in Writer : written'[r] > written[r] =>
        /\ Authorized(command[r], main)
        /\ command[r].tag \in images
        /\ main'.env = [main.env EXCEPT ![Target(command[r], main)] =
                          main'.env[Target(command[r], main)]]
<1>1. GateInv /\ [GateNext]_allVars => Authorised
  <2> SUFFICES ASSUME GateInv, [GateNext]_allVars, NEW r \in Writer, written'[r] > written[r]
               PROVE  /\ Authorized(command[r], main)
                      /\ command[r].tag \in images
                      /\ main'.env = [main.env EXCEPT ![Target(command[r], main)] =
                                        main'.env[Target(command[r], main)]]
    OBVIOUS
  <2>1. /\ command[r] \in DeployCommand
        /\ Outcome(command[r], main) = "commit" /\ main' = Result(command[r], main)
        /\ command[r].tag \in images
    BY OnlyDeploysAreWritten, DeployLandsOnMain
  <2>2. main \in Tree
    BY DEF GateInv, LedgerInv
  <2> QED
    BY <2>1, <2>2, DeployAuthorized, DeployWrites
<1> QED
  BY <1>1, GateInvAlways, PTL DEF GateSpec, OnlyAuthorisedDeploysLand

(* "Concurrent deploys queue instead of racing each other's pushes". *)
THEOREM DeploysDoNotRace == GateSpec => DeploysNeverRaceEachOther
<1> DEFINE Apart ==
      \A r \in Writer : ~moved[r] /\ moved'[r] =>
        \A s \in Writer : written'[s] <= written[s]
<1>1. GateInv /\ GateInv' /\ [GateNext]_allVars => Apart
  <2> SUFFICES ASSUME GateInv, GateInv', [GateNext]_allVars,
                      NEW r \in Writer, ~moved[r], moved'[r],
                      NEW s \in Writer, ~(written'[s] <= written[s])
               PROVE  FALSE
    OBVIOUS
  <2>1. written[s] \in 0..2 /\ written'[s] \in 0..2
    BY DEF GateInv, CurrentInv, TypeInv, TypeOK
  <2>2. DeployLands(s)
    BY <2>1, OnlyDeploysAreWritten
  <2>3. phase[s] # "idle" /\ FallBehind(Writer \ {s})
    BY <2>2, DeployLandsOnMain DEF DeployLands, PushAccepted, LandsButFails
  <2>4. r # s /\ phase[r] # "idle"
    BY <2>3 DEF FallBehind
  <2>5. writeMu = r /\ writeMu = s
    BY <2>3, <2>4 DEF GateInv, Handling, Exclusive
  <2> QED
    BY <2>4, <2>5
<1> QED
  BY <1>1, GateInvAlways, PTL DEF GateSpec, DeploysNeverRaceEachOther

(* No Event is recorded against an Application whose clone does not have   *)
(* the caller as its repository, though an earlier attempt's clone did.    *)
THEOREM StrangersStayUnrecorded == GateSpec => StrangersLeaveNoEvent
<1> DEFINE Unrecorded ==
      \A r \in Writer :
        phase[r] = "checking" /\ phase'[r] = "answered" /\ HasDirectory(clone[r])
          => (environment'[r] # "" => Authorized(command[r], clone[r]))
<1>1. GateInv /\ [GateNext]_allVars => Unrecorded
  <2> SUFFICES ASSUME GateInv, [GateNext]_allVars, NEW r \in Writer, phase[r] = "checking",
                      phase'[r] = "answered", HasDirectory(clone[r]), environment'[r] # ""
               PROVE  Authorized(command[r], clone[r])
    OBVIOUS
  <2>1. TypeOK /\ GateTypeOK
    BY DEF GateInv, AcceptedEventsAreTrue, GateTypeOK
  <2>2. ASSUME NEW s \in Writer, SetImageTag(s) PROVE s = r /\ Resolve(r)
    <3>1. s = r
      BY <2>1, <2>2 DEF TypeOK, SetImageTag, DeployCommits, DeployFindsNothing, ImageMissing,
                        ImageUnchecked, DeployFails, DeployLands, Clone, Commit,
                        FindsNothingToCommit, PushAccepted, PushRejected, PushRejectedAgain,
                        Fails, LandsButFails, Answers
    <3> QED
      BY <2>1, <2>2, <3>1 DEF TypeOK, SetImageTag, DeployCommits, DeployFindsNothing,
                        ImageMissing, ImageUnchecked, DeployFails, DeployLands, Clone,
                        PushAccepted, PushRejected, PushRejectedAgain, LandsButFails
  <2>3. ASSUME NEW s \in Writer, Mint(s) \/ Unlock(s) PROVE FALSE
    BY <2>1, <2>3 DEF TypeOK, Mint, Call, Unlock, Return
  <2>4. ASSUME NEW s \in Writer,
               CallGate(s) \/ TurnedAway(s) \/ Lock(s) \/ MintFails(s) \/ Respond(s)
        PROVE  phase' = phase
    BY <2>4 DEF CallGate, Receive, Retry, Finish, TurnedAway, Lock, MintFails, Respond, vars
  <2>5. CASE Restart
    BY <2>5 DEF Restart
  <2>6. CASE (\E tag \in Tag : PushImage(tag)) \/ Develop \/ UNCHANGED allVars
    BY <2>6 DEF PushImage, Develop, OtherCommit, Configure, allVars, vars
  <2>7. CASE Resolve(r)
    BY <2>1, <2>7 DEF Resolve, GateTypeOK
  <2> QED
    BY <2>2, <2>3, <2>4, <2>5, <2>6, <2>7 DEF GateNext, Handle
<1> QED
  BY <1>1, GateInvAlways, PTL DEF GateSpec, StrangersLeaveNoEvent

(* With the gate's handlers, their retries and their restarts beside the   *)
(* developers, main is still the ledger of whole commands, so everything   *)
(* the commands keep holds of it.                                          *)
THEOREM GateImplementsLedger ==
  GateSpec => /\ ImplementsLedger
              /\ [](PreviewsFollowStaging /\ DatabaseFindsItsCredentials)
              /\ []NamedSecretsExist /\ PasswordsMatchLevels
              /\ [](CapabilitiesAreUniform /\ OutcomesAreTrue)
<1>1. GateInit => LedgerInit
  BY DEF GateInit, Init
<1>2. GateSpec => LedgerSpec
  BY <1>1, GateStepOfLedger, GateInvAlways, PTL DEF GateSpec, LedgerSpec
<1> QED
  BY <1>2, PreviewsStayBehindStaging, DatabasesFindTheirCredentials, NamedSecretsStay,
     PasswordsFollowLevels, CapabilitiesStayUniform, OutcomesStayTrue, PTL
  DEF ImplementsLedger
=============================================================================
