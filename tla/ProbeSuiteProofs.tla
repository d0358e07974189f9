---------------------------- MODULE ProbeSuiteProofs ----------------------------
(***************************************************************************)
(* Proofs about ProbeRunner::run_detailed, for any lists of probes, any    *)
(* concurrency and any set of answers: what a run does, what it leaves     *)
(* behind, and that it implements SuiteVerdict.                            *)
(***************************************************************************)
EXTENDS ProbeSuite, FiniteSetTheorems, SequenceTheorems, TLAPS

----------------------------------------------------------------------------
(* Facts about the constants and the operators.                            *)

\* The calls of a phase are calls.
LEMMA PhaseCallsAreCalls == \A ph : Members(PhaseCalls(ph)) \subseteq Calls
  <1>1. \A i \in DOMAIN <<"ladder">> : <<"ladder">>[i] = "ladder"
    OBVIOUS
  <1>2. \A i \in DOMAIN <<"max_output_tokens">> :
          <<"max_output_tokens">>[i] = "max_output_tokens"
    OBVIOUS
  <1>3. \A i \in DOMAIN <<"xml_tool_calling">> :
          <<"xml_tool_calling">>[i] = "xml_tool_calling"
    OBVIOUS
  <1>4. Members(<< >>) = {}
    BY DEF Members
  <1> QED
    BY <1>1, <1>2, <1>3, <1>4 DEF PhaseCalls, Calls, Probes, Members

\* The ladder is a call of the ladder phase only.
LEMMA LadderPhase ==
    \A ph \in {"wave1", "wave2", "max_output", "xml"} : "ladder" \notin Members(PhaseCalls(ph))
  <1>1. \A i \in DOMAIN <<"max_output_tokens">> :
          <<"max_output_tokens">>[i] = "max_output_tokens"
    OBVIOUS
  <1>2. \A i \in DOMAIN <<"xml_tool_calling">> :
          <<"xml_tool_calling">>[i] = "xml_tool_calling"
    OBVIOUS
  <1> QED
    BY <1>1, <1>2, WavesAssumption DEF PhaseCalls, Probes, Members

\* What the model may answer, and what the runner answers for a skipped call.
LEMMA AnswerTypes ==
    /\ \A level \in Levels \cup {"none"} : Ok(level) \in Answers /\ Skip(level) \in Answers
    /\ \A says \in SUBSET Phrases : Fail("Transient", says) \in Answers
    /\ \A c \in Calls : CallAnswers[c] \subseteq Answers
    /\ \A c : SkipAnswer(c) \in Answers
    /\ NoAnswer \notin Answers
  <1>1. \A level \in Levels \cup {"none"} : Ok(level) \in Answers /\ Skip(level) \in Answers
    BY DEF Ok, Skip, Answers, Levels
  <1>2. \A says \in SUBSET Phrases : Fail("Transient", says) \in Answers
    BY DEF Fail, Answers, ErrorKinds
  <1>3. \A c \in Calls : CallAnswers[c] \subseteq Answers
    BY AnswersAssumption
  <1>4. \A c : SkipAnswer(c) \in Answers
    BY <1>1 DEF SkipAnswer, Levels
  <1>5. NoAnswer \notin Answers
    BY DEF NoAnswer, Answers, ErrorKinds
  <1> QED
    BY <1>1, <1>2, <1>3, <1>4, <1>5

\* A climb has between one and three rungs, whatever the suite and the prior, and
\* stops short of the third only where the next is not allowed.
LEMMA RungsPlanned ==
    ASSUME conf.advertised \in Nat
    PROVE  /\ PlannedRungs \in 1..3
           /\ conf.suite = "policy" => PlannedRungs = 1
           /\ \A i \in 2..PlannedRungs :
                  conf.advertised = 0 \/ RungSizes[i] <= conf.advertised
           /\ PlannedRungs < 3 =>
                  \/ conf.suite = "policy"
                  \/ conf.advertised # 0 /\ RungSizes[PlannedRungs + 1] > conf.advertised
  <1> DEFINE Fits(n) ==
        /\ conf.suite = "policy" => n = 1
        /\ \A i \in 2..n : conf.advertised = 0 \/ RungSizes[i] <= conf.advertised
        /\ n < 3 => \/ conf.suite = "policy"
                    \/ conf.advertised # 0 /\ RungSizes[n + 1] > conf.advertised
  <1>0. RungSizes[2] = 8192 /\ RungSizes[3] = 16384
    BY DEF RungSizes
  <1>1. \E n \in 1..3 : Fits(n)
    <2>1. CASE conf.suite = "policy" \/ (conf.advertised # 0 /\ 8192 > conf.advertised)
      <3>1. Fits(1)
        BY <2>1, <1>0
      <3> QED
        BY <3>1
    <2>2. CASE conf.suite # "policy" /\ conf.advertised # 0
               /\ 8192 <= conf.advertised /\ 16384 > conf.advertised
      <3>1. Fits(2)
        BY <2>2, <1>0
      <3> QED
        BY <3>1
    <2>3. CASE conf.suite # "policy" /\ (conf.advertised = 0 \/ 16384 <= conf.advertised)
      <3>1. Fits(3)
        BY <2>3, <1>0
      <3> QED
        BY <3>1
    <2> QED
      BY <2>1, <2>2, <2>3
  <1>2. PlannedRungs = CHOOSE n \in 1..3 : Fits(n)
    BY DEF PlannedRungs
  <1>3. PlannedRungs \in 1..3 /\ Fits(PlannedRungs)
    <2> HIDE DEF Fits
    <2> QED
      BY <1>1, <1>2
  <1> QED
    BY <1>3

\* A faithfulness row has a level and a note of its own.
LEMMA FaithfulnessType ==
    ASSUME NEW tokens, NEW hits, NEW a
    PROVE  Faithfulness(tokens, hits, a) \in [level : Levels, note : {"scored", "failed"}]
  BY DEF Faithfulness, ClassifyHits, Levels

----------------------------------------------------------------------------
(* Type correctness.                                                       *)

\* Only calls of the phase are out, each queued or running.
PhaseInv ==
    /\ waiting \cup running \subseteq Members(PhaseCalls(phase))
    /\ waiting \cap running = {}

\* Permits are free or held.
PermitInv == IsFiniteSet(running) /\ permits + Cardinality(running) = Concurrency

\* The climb starts at the first rung and stops at the last planned one.
ClimbInv ==
    /\ phase \in {"wave1", "wave2"} => ladder.next = 1
    /\ "ladder" \in waiting \cup running => ladder.next <= PlannedRungs

TypeInv == TypeOK /\ PhaseInv /\ PermitInv /\ ClimbInv

LEMMA TypeInit == Init => TypeInv
  <1> SUFFICES ASSUME Init PROVE TypeInv
    OBVIOUS
  <1>1. Unasked \in AnswersSoFar
    BY DEF Unasked, AnswersSoFar
  <1>2. NoRun \in Runs
    BY <1>1, SettingsAssumption DEF NoRun, Runs, Levels
  <1>3. TypeOK
    BY <1>1, <1>2, ConcurrencyAssumption, SettingsAssumption DEF Init, TypeOK
  <1>4. PhaseInv /\ PermitInv /\ ClimbInv
    BY FS_EmptySet, ConcurrencyAssumption DEF Init, PhaseInv, PermitInv, ClimbInv
  <1> QED
    BY <1>3, <1>4 DEF TypeInv

\* Starting a phase puts its calls in the queue or answers them.
LEMMA BeginType ==
    ASSUME NEW ph, NEW answers \in AnswersSoFar, Begin(ph, answers)
    PROVE  /\ phase' = ph
           /\ waiting' \subseteq Members(PhaseCalls(ph))
           /\ waiting' \subseteq Calls
           /\ answer' \in AnswersSoFar
  BY PhaseCallsAreCalls, AnswerTypes DEF Begin, AnswersSoFar

\* A call that ends gives its permit back.
LEMMA EndCallType ==
    ASSUME TypeInv, NEW c \in running, NEW a \in Answers, EndCall(c, a)
    PROVE  /\ answer' \in AnswersSoFar
           /\ running' \subseteq running
           /\ permits' \in 0..Concurrency
           /\ PermitInv'
  <1>1. answer' \in AnswersSoFar
    BY DEF EndCall, TypeInv, TypeOK, AnswersSoFar
  <1>2. running' = running \ {c} /\ permits' = permits + 1
    BY DEF EndCall
  <1>3. IsFiniteSet(running) /\ permits \in Nat /\ permits + Cardinality(running) = Concurrency
    BY DEF TypeInv, TypeOK, PermitInv
  <1>4. /\ IsFiniteSet(running') /\ Cardinality(running') = Cardinality(running) - 1
        /\ Cardinality(running') \in Nat /\ Cardinality(running) \in Nat
    BY <1>2, <1>3, FS_RemoveElement, FS_CardinalityType
  <1> QED
    BY <1>1, <1>2, <1>3, <1>4, ConcurrencyAssumption DEF PermitInv

LEMMA TypeStep == TypeInv /\ [Next]_vars => TypeInv'
  <1> SUFFICES ASSUME TypeInv, [Next]_vars PROVE TypeInv'
    OBVIOUS
  <1>t. TypeOK /\ PhaseInv /\ PermitInv /\ ClimbInv
    BY DEF TypeInv
  <1>r. PlannedRungs \in 1..3
    BY <1>t, RungsPlanned, SettingsAssumption DEF TypeOK
  <1>c. conf' = conf => PlannedRungs' = PlannedRungs
    BY DEF PlannedRungs
  <1>1. CASE StartRun
    <2>1. Unasked \in AnswersSoFar
      BY DEF Unasked, AnswersSoFar
    <2>2. /\ phase' = "wave1" /\ waiting' \subseteq Members(PhaseCalls("wave1"))
          /\ waiting' \subseteq Calls /\ answer' \in AnswersSoFar
      BY <1>1, <2>1, BeginType DEF StartRun
    <2>3. /\ UNCHANGED <<conf, lastRun, stored>> /\ runs' = runs + 1 /\ runs < MaxRuns
          /\ permits' = Concurrency /\ running' = {} /\ cacheable' = TRUE
          /\ verdict' = "none" /\ ladder' = [tokens |-> 0, hits |-> 0, next |-> 1]
      BY <1>1 DEF StartRun
    <2>4. TypeOK'
      BY <1>t, <2>2, <2>3, ConcurrencyAssumption, SettingsAssumption DEF TypeOK
    <2>5. PhaseInv' /\ PermitInv'
      BY <2>2, <2>3, FS_EmptySet, ConcurrencyAssumption DEF PhaseInv, PermitInv
    <2>6. ClimbInv'
      BY <1>r, <1>c, <2>3 DEF ClimbInv
    <2> QED
      BY <2>4, <2>5, <2>6 DEF TypeInv
  <1>2. CASE RejectIdentity
    <2>1. waiting = {} /\ running = {}
      BY <1>2, <1>t DEF RejectIdentity, Resting, PhaseInv, PhaseCalls, Members
    <2> QED
      BY <1>2, <2>1, <1>t, SettingsAssumption
      DEF RejectIdentity, TypeInv, TypeOK, PhaseInv, PermitInv, ClimbInv, ErrorKinds
  <1>3. CASE Acquire
    <2>1. PICK c \in waiting :
            /\ permits > 0
            /\ waiting' = waiting \ {c} /\ running' = running \cup {c}
            /\ permits' = permits - 1
            /\ UNCHANGED <<conf, phase, answer, ladder, cacheable, verdict, runs,
                           lastRun, stored>>
      BY <1>3 DEF Acquire
    <2>2. /\ c \in Calls /\ c \notin running
          /\ IsFiniteSet(running) /\ permits \in Nat
          /\ permits + Cardinality(running) = Concurrency
      BY <1>t DEF TypeOK, PhaseInv, PermitInv
    <2>3. /\ IsFiniteSet(running') /\ Cardinality(running') = Cardinality(running) + 1
          /\ Cardinality(running) \in Nat
      BY <2>1, <2>2, FS_AddElement, FS_CardinalityType
    <2>4. permits' \in 0..Concurrency /\ permits' + Cardinality(running') = Concurrency
      BY <2>1, <2>2, <2>3, ConcurrencyAssumption
    <2>5. TypeOK'
      BY <1>t, <2>1, <2>2, <2>4 DEF TypeOK
    <2>6. PhaseInv' /\ PermitInv'
      BY <1>t, <2>1, <2>3, <2>4 DEF PhaseInv, PermitInv
    <2>7. ClimbInv'
      BY <1>t, <1>c, <2>1 DEF ClimbInv
    <2> QED
      BY <2>5, <2>6, <2>7 DEF TypeInv
  <1>4. ASSUME NEW c \in running, NEW a \in Answers, EndCall(c, a),
               ladder' \in [tokens : Nat, hits : 0..3, next : 1..4],
               c = "ladder" \/ ladder' = ladder
        PROVE  TypeInv'
    <2>1. /\ answer' \in AnswersSoFar /\ running' \subseteq running
          /\ permits' \in 0..Concurrency /\ PermitInv'
      BY <1>4, EndCallType
    <2>2. /\ UNCHANGED <<conf, phase, waiting, cacheable, verdict, runs, lastRun, stored>>
          /\ running' = running \ {c}
      BY <1>4 DEF EndCall
    <2>3. TypeOK'
      BY <1>t, <1>4, <2>1, <2>2 DEF TypeOK
    <2>4. PhaseInv'
      BY <1>t, <2>1, <2>2 DEF PhaseInv
    <2>5. ClimbInv'
      <3>1. CASE ladder' = ladder
        BY <1>t, <1>c, <2>2, <3>1 DEF ClimbInv
      <3>2. CASE c = "ladder"
        <4>1. phase' \notin {"wave1", "wave2"}
          BY <1>t, <2>2, <3>2, LadderPhase DEF PhaseInv
        <4>2. "ladder" \notin waiting' \cup running'
          BY <1>t, <2>2, <3>2 DEF PhaseInv
        <4> QED
          BY <4>1, <4>2 DEF ClimbInv
      <3> QED
        BY <1>4, <3>1, <3>2
    <2> QED
      BY <2>1, <2>3, <2>4, <2>5 DEF TypeInv
  <1>5. CASE Respond
    <2>1. PICK c \in running \ {"ladder"} :
            \E a \in CallAnswers[c] : EndCall(c, a) /\ UNCHANGED ladder
      BY <1>5 DEF Respond
    <2>2. PICK a \in CallAnswers[c] : EndCall(c, a) /\ UNCHANGED ladder
      BY <2>1
    <2>3. a \in Answers
      BY <1>t, <2>1, AnswerTypes DEF TypeOK
    <2> QED
      BY <1>t, <1>4, <2>1, <2>2, <2>3 DEF TypeOK
  <1>6. CASE RungPasses
    <2>1. /\ "ladder" \in running /\ ladder.next \in 1..3
          /\ ladder' = [tokens |-> RungSizes[ladder.next], hits |-> 3, next |-> ladder.next + 1]
      BY <1>6, <1>t, <1>r DEF RungPasses, TypeOK, ClimbInv
    <2>2. ladder' \in [tokens : Nat, hits : 0..3, next : 1..4]
      BY <2>1 DEF RungSizes
    <2>3. CASE ladder.next = PlannedRungs
      <3>1. EndCall("ladder", Ok("none")) /\ Ok("none") \in Answers
        BY <1>6, <2>3, AnswerTypes DEF RungPasses
      <3> QED
        BY <1>4, <2>1, <2>2, <3>1
    <2>4. CASE ladder.next # PlannedRungs
      <3>1. UNCHANGED <<conf, phase, waiting, running, permits, answer, cacheable,
                        verdict, runs, lastRun, stored>>
        BY <1>6, <2>4 DEF RungPasses
      <3>2. TypeOK' /\ PhaseInv' /\ PermitInv'
        BY <1>t, <2>2, <3>1 DEF TypeOK, PhaseInv, PermitInv
      <3>3. ClimbInv'
        <4>1. phase \notin {"wave1", "wave2"}
          BY <1>t, <2>1, LadderPhase DEF PhaseInv
        <4>2. ladder.next + 1 <= PlannedRungs /\ ladder'.next = ladder.next + 1
          BY <1>t, <1>r, <2>1, <2>4 DEF ClimbInv
        <4> QED
          BY <1>c, <3>1, <4>1, <4>2 DEF ClimbInv
      <3> QED
        BY <3>2, <3>3 DEF TypeInv
    <2> QED
      BY <2>3, <2>4
  <1>7. CASE RungMisses
    <2>1. PICK m \in Misses :
            /\ ladder' = [ladder EXCEPT !.hits = m.hits]
            /\ EndCall("ladder", IF m.finish = "Length" THEN Fail("Transient", {})
                                 ELSE Ok("none"))
      BY <1>7 DEF RungMisses
    <2>2. "ladder" \in running /\ m.hits \in 0..3
      BY <1>7, LadderAssumption DEF RungMisses
    <2>3. ladder' \in [tokens : Nat, hits : 0..3, next : 1..4]
      BY <1>t, <2>1, <2>2 DEF TypeOK
    <2>4. (IF m.finish = "Length" THEN Fail("Transient", {}) ELSE Ok("none")) \in Answers
      BY AnswerTypes
    <2> QED
      BY <1>4, <2>1, <2>2, <2>3, <2>4
  <1>8. CASE RungFails
    <2>1. PICK a \in CallAnswers["ladder"] : EndCall("ladder", a)
      BY <1>8 DEF RungFails
    <2>2. "ladder" \in running /\ ladder' = ladder
      BY <1>8 DEF RungFails
    <2>3. a \in Answers
      BY <1>t, <2>2, AnswerTypes DEF TypeOK
    <2> QED
      BY <1>t, <1>4, <2>1, <2>2, <2>3 DEF TypeOK
  <1>9. CASE AbortRun
    <2>1. /\ waiting = {} /\ running = {} /\ phase' = "aborted"
          /\ UNCHANGED <<conf, waiting, running, permits, answer, ladder, cacheable,
                         runs, lastRun, stored>>
      BY <1>9 DEF AbortRun, PhaseOver
    <2>2. verdict' \in ErrorKinds
      BY <1>9 DEF AbortRun, AbortingCalls, Aborts, ErrorKinds
    <2> QED
      BY <1>t, <1>c, <2>1, <2>2 DEF TypeInv, TypeOK, PhaseInv, PermitInv, ClimbInv
  <1>10. ASSUME NEW from, NEW to, TakeAndBegin(from, to),
                to \in {"wave2", "ladder", "max_output", "xml"},
                to \in {"wave2", "ladder"} => from \in {"wave1", "wave2"}
         PROVE  TypeInv'
    <2>1. /\ phase = from /\ running = {} /\ cacheable' = Taken /\ Begin(to, answer)
          /\ UNCHANGED <<conf, running, permits, ladder, verdict, runs, lastRun, stored>>
      BY <1>10 DEF TakeAndBegin, PhaseOver
    <2>2. /\ phase' = to /\ waiting' \subseteq Members(PhaseCalls(to))
          /\ waiting' \subseteq Calls /\ answer' \in AnswersSoFar
      BY <1>t, <2>1, BeginType DEF TypeOK
    <2>3. TypeOK'
      BY <1>t, <1>10, <2>1, <2>2 DEF TypeOK, Taken
    <2>4. PhaseInv' /\ PermitInv'
      BY <1>t, <2>1, <2>2 DEF PhaseInv, PermitInv
    <2>5. ClimbInv'
      <3>1. "ladder" \in waiting' => to = "ladder"
        BY <1>10, <2>2, LadderPhase
      <3>2. to \in {"wave2", "ladder"} => ladder.next = 1
        BY <1>t, <1>10, <2>1 DEF ClimbInv
      <3>3. to # "wave1" /\ (to = "ladder" => ladder.next <= PlannedRungs)
        BY <1>10, <1>r, <3>2
      <3> QED
        BY <1>c, <2>1, <2>2, <3>1, <3>2, <3>3 DEF ClimbInv
    <2> QED
      BY <2>3, <2>4, <2>5 DEF TypeInv
  <1>11. CASE TakeWave1 \/ TakeWave2 \/ TakeLadder \/ TakeMaxOutput
    BY <1>10, <1>11 DEF TakeWave1, TakeWave2, TakeLadder, TakeMaxOutput
  <1>12. CASE Finish
    <2>1. /\ waiting = {} /\ running = {} /\ phase' = "done" /\ cacheable' = Taken
          /\ UNCHANGED <<conf, waiting, running, permits, answer, ladder, verdict,
                         runs, stored>>
      BY <1>12 DEF Finish, PhaseOver
    <2>2. lastRun' \in Runs
      <3>1. /\ Taken \in BOOLEAN /\ answer \in AnswersSoFar /\ runs \in 0..MaxRuns
            /\ ladder.tokens \in Nat
        BY <1>t DEF TypeOK, Taken
      <3> QED
        BY <1>12, <3>1, FaithfulnessType DEF Finish, Runs
    <2> QED
      BY <1>t, <1>c, <2>1, <2>2
      DEF TypeInv, TypeOK, PhaseInv, PermitInv, ClimbInv, Taken
  <1>13. CASE Persist
    BY <1>13, <1>t, <1>c DEF Persist, TypeInv, TypeOK, PhaseInv, PermitInv, ClimbInv
  <1>14. CASE UNCHANGED vars
    BY <1>14, <1>t, <1>c DEF vars, TypeInv, TypeOK, PhaseInv, PermitInv, ClimbInv
  <1> QED
    BY <1>1, <1>2, <1>3, <1>5, <1>6, <1>7, <1>8, <1>9, <1>11, <1>12, <1>13, <1>14
    DEF Next, RunStep

\* Every reachable state of a runner is well typed; in particular no more
\* permits are ever free than the semaphore was made with.
THEOREM TypeCorrect == Spec => []TypeOK
  <1>1. TypeInv => TypeOK
    BY DEF TypeInv
  <1> QED
    BY <1>1, TypeInit, TypeStep, PTL DEF Spec

----------------------------------------------------------------------------
(* Every call is accounted for.                                            *)

\* The calls of the phases after ph.
ToCome(ph) ==
    CASE ph = "wave1" -> Members(Wave2) \cup {"ladder", "max_output_tokens", "xml_tool_calling"}
      [] ph = "wave2" -> {"ladder", "max_output_tokens", "xml_tool_calling"}
      [] ph = "ladder" -> {"max_output_tokens", "xml_tool_calling"}
      [] ph = "max_output" -> {"xml_tool_calling"}
      [] OTHER -> {}

\* The calls of the phase that have no answer are exactly those still out, and
\* no call of a later phase has one yet: what the next phase asks is new.
AccountInv ==
    /\ waiting \cup running = {c \in Members(PhaseCalls(phase)) : answer[c] = NoAnswer}
    /\ \A c \in ToCome(phase) : answer[c] = NoAnswer

\* The members of each phase, and that phases share no call.
LEMMA PhaseMembers ==
    /\ Members(PhaseCalls("wave1")) = Members(Wave1)
    /\ Members(PhaseCalls("wave2")) = Members(Wave2)
    /\ Members(PhaseCalls("ladder")) = {"ladder"}
    /\ Members(PhaseCalls("max_output")) = {"max_output_tokens"}
    /\ Members(PhaseCalls("xml")) = {"xml_tool_calling"}
    /\ \A ph \in {"idle", "done", "aborted"} : Members(PhaseCalls(ph)) = {}
  <1>1. Members(<<"ladder">>) = {"ladder"}
    BY DEF Members
  <1>2. Members(<<"max_output_tokens">>) = {"max_output_tokens"}
    BY DEF Members
  <1>3. Members(<<"xml_tool_calling">>) = {"xml_tool_calling"}
    BY DEF Members
  <1>4. Members(<< >>) = {}
    BY DEF Members
  <1> QED
    BY <1>1, <1>2, <1>3, <1>4 DEF PhaseCalls

LEMMA ToComeApart ==
    \A ph \in {"wave1", "wave2", "ladder", "max_output", "xml"} :
        /\ ToCome(ph) \subseteq Calls
        /\ ToCome(ph) \cap Members(PhaseCalls(ph)) = {}
  <1>1. /\ Members(Wave1) \cap Members(Wave2) = {}
        /\ Members(Wave1) \cap {"ladder", "max_output_tokens", "xml_tool_calling"} = {}
        /\ Members(Wave2) \cap {"ladder", "max_output_tokens", "xml_tool_calling"} = {}
    BY WavesAssumption DEF Probes
  <1> QED
    BY <1>1, PhaseMembers DEF ToCome, Calls, Probes

\* A phase that begins with its calls unanswered leaves out only those it skips.
LEMMA BeginAccounts ==
    ASSUME NEW ph \in {"wave1", "wave2", "ladder", "max_output", "xml"},
           NEW answers \in AnswersSoFar,
           \A c \in Members(PhaseCalls(ph)) \cup ToCome(ph) : answers[c] = NoAnswer,
           Begin(ph, answers), running' = {}
    PROVE  AccountInv'
  <1> DEFINE all == Members(PhaseCalls(ph))
             asked == {c \in all : ~Skipped(c)}
  <1>1. all \subseteq Calls /\ ToCome(ph) \subseteq Calls /\ ToCome(ph) \cap all = {}
    BY PhaseCallsAreCalls, ToComeApart
  <1>2. /\ phase' = ph /\ waiting' = asked
        /\ answer' = [c \in Calls |-> IF c \in all \ asked THEN SkipAnswer(c) ELSE answers[c]]
    BY DEF Begin
  <1>3. \A c \in all : (answer'[c] = NoAnswer) <=> c \in asked
    BY <1>1, <1>2, AnswerTypes
  <1>4. \A c \in ToCome(ph) : answer'[c] = NoAnswer
    BY <1>1, <1>2
  <1>5. waiting' \cup running' = {c \in all : answer'[c] = NoAnswer}
    BY <1>2, <1>3
  <1> QED
    BY <1>2, <1>4, <1>5 DEF AccountInv

LEMMA AccountInit == Init => AccountInv
  BY PhaseMembers DEF Init, AccountInv, ToCome

LEMMA AccountStep == TypeInv /\ AccountInv /\ [Next]_vars => AccountInv'
  <1> SUFFICES ASSUME TypeInv, AccountInv, [Next]_vars PROVE AccountInv'
    OBVIOUS
  <1>t. TypeOK /\ PhaseInv
    BY DEF TypeInv
  <1>s. UNCHANGED <<phase, answer>> /\ waiting' \cup running' = waiting \cup running
          => AccountInv'
    BY DEF AccountInv
  <1>e. ASSUME NEW ph \in {"done", "aborted"}, phase' = ph, waiting' = {}, running' = {}
        PROVE  AccountInv'
    BY <1>e, PhaseMembers DEF AccountInv, ToCome
  <1>1. CASE StartRun
    <2>1. Unasked \in AnswersSoFar /\ \A c \in Calls : Unasked[c] = NoAnswer
      BY DEF Unasked, AnswersSoFar
    <2>2. Begin("wave1", Unasked) /\ running' = {}
      BY <1>1 DEF StartRun
    <2> QED
      BY <2>1, <2>2, BeginAccounts, PhaseCallsAreCalls, ToComeApart
  <1>2. CASE RejectIdentity
    <2>1. waiting = {} /\ running = {}
      BY <1>2, <1>t, PhaseMembers DEF RejectIdentity, Resting, PhaseInv
    <2> QED
      BY <1>2, <1>e, <2>1 DEF RejectIdentity
  <1>3. CASE Acquire
    BY <1>3, <1>s DEF Acquire
  <1>4. ASSUME NEW c \in running, NEW a \in Answers, EndCall(c, a) PROVE AccountInv'
    <2>1. /\ UNCHANGED <<phase, waiting>> /\ running' = running \ {c}
          /\ answer' = [answer EXCEPT ![c] = a] /\ a # NoAnswer
      BY <1>4, AnswerTypes DEF EndCall
    <2>2. c \in Calls /\ c \in Members(PhaseCalls(phase)) /\ c \notin waiting
      BY <1>t DEF TypeOK, PhaseInv
    <2>3. \A d \in Calls : answer'[d] = IF d = c THEN a ELSE answer[d]
      BY <1>t, <2>1, <2>2 DEF TypeOK, AnswersSoFar
    <2>4. phase \in {"wave1", "wave2", "ladder", "max_output", "xml"}
      BY <1>t, <2>2, PhaseMembers DEF TypeOK
    <2>5. c \notin ToCome(phase) /\ ToCome(phase) \subseteq Calls
      BY <2>2, <2>4, ToComeApart
    <2> QED
      BY <2>1, <2>2, <2>3, <2>5, PhaseCallsAreCalls DEF AccountInv
  <1>5. CASE Respond
    <2>1. PICK c \in running \ {"ladder"} :
            \E a \in CallAnswers[c] : EndCall(c, a) /\ UNCHANGED ladder
      BY <1>5 DEF Respond
    <2> QED
      BY <1>t, <1>4, <2>1, AnswerTypes DEF TypeOK
  <1>6. CASE RungPasses
    <2>1. Ok("none") \in Answers
      BY AnswerTypes
    <2> QED
      BY <1>4, <1>6, <1>s, <2>1 DEF RungPasses
  <1>7. CASE RungMisses \/ RungFails
    <2>1. \E a \in Answers : "ladder" \in running /\ EndCall("ladder", a)
      <3>1. Fail("Transient", {}) \in Answers /\ Ok("none") \in Answers
        BY AnswerTypes
      <3>2. "ladder" \in Calls
        BY DEF Calls
      <3> QED
        BY <1>7, <3>1, <3>2, AnswerTypes DEF RungMisses, RungFails
    <2> QED
      BY <1>4, <2>1
  <1>8. CASE AbortRun \/ Finish
    BY <1>8, <1>e DEF AbortRun, Finish, PhaseOver
  <1>9. ASSUME NEW from, NEW to, TakeAndBegin(from, to),
               <<from, to>> \in {<<"wave1", "wave2">>, <<"wave2", "ladder">>,
                                <<"ladder", "max_output">>, <<"max_output", "xml">>}
        PROVE  AccountInv'
    <2>1. phase = from /\ running' = {} /\ Begin(to, answer)
      BY <1>9 DEF TakeAndBegin, PhaseOver
    <2>2. Members(PhaseCalls(to)) \cup ToCome(to) = ToCome(from)
      BY <1>9, PhaseMembers DEF ToCome
    <2>3. \A c \in Members(PhaseCalls(to)) \cup ToCome(to) : answer[c] = NoAnswer
      BY <2>1, <2>2 DEF AccountInv
    <2> QED
      BY <1>9, <1>t, <2>1, <2>3, BeginAccounts DEF TypeOK
  <1>10. CASE TakeWave1 \/ TakeWave2 \/ TakeLadder \/ TakeMaxOutput
    BY <1>9, <1>10 DEF TakeWave1, TakeWave2, TakeLadder, TakeMaxOutput
  <1>11. CASE Persist \/ UNCHANGED vars
    BY <1>11, <1>s DEF Persist, vars
  <1> QED
    BY <1>1, <1>2, <1>3, <1>5, <1>6, <1>7, <1>8, <1>10, <1>11 DEF Next, RunStep

\* No call is lost, asked twice or taken unanswered, and no permit is lost.
THEOREM CallsAccountedFor == Spec => []EveryCallAccountedFor
  <1>1. TypeInv /\ AccountInv => EveryCallAccountedFor
    BY DEF TypeInv, PhaseInv, PermitInv, AccountInv, EveryCallAccountedFor
  <1> QED
    BY <1>1, TypeInit, TypeStep, AccountInit, AccountStep, PTL DEF Spec

----------------------------------------------------------------------------
(* What is stored was measured.                                            *)

\* A result that keeps its run cacheable says something about the model.
LEMMA CacheableIsMeasured ==
    ASSUME NEW c \in Calls, NEW a \in Answers, CallCacheable(c, a)
    PROVE  ~SessionLocal(c, a)
  <1> USE DEF Answers, Phrases, ErrorKinds
  <1>1. CASE c = "ladder"
    <2>1. CASE WindowRejection(a)
      BY <1>1, <2>1 DEF WindowRejection, SessionLocal
    <2>2. CASE ResolvesCacheable("effective_context_tokens", a)
      BY <1>1, <2>2 DEF ResolvesCacheable, CompletedWeak, Says, Answered, ToolProbes,
                        SessionLocal
    <2> QED
      BY <1>1, <2>1, <2>2 DEF CallCacheable, LadderCacheable
  <1>2. CASE c # "ladder"
    <2>1. a.kind = "Llm" \/ ResolvesCacheable(c, a)
          \/ ResolvesCacheable("max_output_tokens", a)
      BY <1>2 DEF CallCacheable, MaxOutputCacheable
    <2> QED
      BY <1>2, <2>1 DEF ResolvesCacheable, CompletedWeak, Says, Answered, SessionLocal
  <1> QED
    BY <1>1, <1>2

LEMMA QuietAnswers ==
    \A c \in Calls : ~SessionLocal(c, NoAnswer) /\ \A d : ~SessionLocal(c, SkipAnswer(d))
  BY DEF SessionLocal, NoAnswer, SkipAnswer, Skip

\* While the flag stands, only the calls of the phase under way can have an
\* answer that forbids storing the run; they are looked at when it is over.
MeasuredInv ==
    /\ cacheable /\ phase # "aborted" =>
          \A c \in Calls \ Members(PhaseCalls(phase)) : ~SessionLocal(c, answer[c])
    /\ lastRun.cacheable => \A c \in Calls : ~SessionLocal(c, lastRun.answer[c])
    /\ \A c \in Calls : ~SessionLocal(c, stored.answer[c])

LEMMA MeasuredInit == Init => MeasuredInv
  <1> SUFFICES ASSUME Init PROVE MeasuredInv
    OBVIOUS
  <1>1. \A c \in Calls : Unasked[c] = NoAnswer
    BY DEF Unasked
  <1> QED
    BY <1>1, QuietAnswers DEF Init, MeasuredInv, NoRun

\* When a phase is over and the flag still stands, every answer so far counts.
LEMMA TakenIsMeasured ==
    ASSUME TypeInv, AccountInv, MeasuredInv, PhaseOver, Taken, phase # "aborted",
           NEW c \in Calls
    PROVE  ~SessionLocal(c, answer[c])
  <1>1. CASE c \notin Members(PhaseCalls(phase))
    BY <1>1 DEF MeasuredInv, Taken
  <1>2. CASE c \in Members(PhaseCalls(phase))
    <2>1. answer[c] # NoAnswer
      BY <1>2 DEF AccountInv, PhaseOver
    <2>2. answer[c] \in Answers
      BY <2>1 DEF TypeInv, TypeOK, AnswersSoFar
    <2> QED
      BY <1>2, <2>2, CacheableIsMeasured DEF Taken
  <1> QED
    BY <1>1, <1>2

LEMMA MeasuredStep ==
    TypeInv /\ AccountInv /\ MeasuredInv /\ [Next]_vars => MeasuredInv'
  <1> SUFFICES ASSUME TypeInv, AccountInv, MeasuredInv, [Next]_vars PROVE MeasuredInv'
    OBVIOUS
  <1>t. TypeOK /\ PhaseInv
    BY DEF TypeInv
  <1>1. ASSUME NEW ph, NEW answers \in AnswersSoFar, Begin(ph, answers),
               cacheable' => \A c \in Calls : ~SessionLocal(c, answers[c]),
               UNCHANGED <<lastRun, stored>>
        PROVE  MeasuredInv'
    <2>1. phase' = ph /\ \A c \in Calls :
            (\E d : answer'[c] = SkipAnswer(d)) \/ answer'[c] = answers[c]
      BY <1>1 DEF Begin
    <2>2. cacheable' => \A c \in Calls : ~SessionLocal(c, answer'[c])
      BY <1>1, <2>1, QuietAnswers
    <2> QED
      BY <1>1, <2>2 DEF MeasuredInv
  <1>2. CASE StartRun
    <2>1. Begin("wave1", Unasked) /\ UNCHANGED <<lastRun, stored>>
      BY <1>2 DEF StartRun
    <2>2. Unasked \in AnswersSoFar /\ \A c \in Calls : ~SessionLocal(c, Unasked[c])
      BY QuietAnswers DEF Unasked, AnswersSoFar
    <2> QED
      BY <1>1, <2>1, <2>2
  <1>3. ASSUME phase' = "aborted", UNCHANGED <<lastRun, stored>> PROVE MeasuredInv'
    BY <1>3 DEF MeasuredInv
  <1>4. CASE RejectIdentity \/ AbortRun
    BY <1>3, <1>4 DEF RejectIdentity, AbortRun
  <1>5. ASSUME NEW c \in running, NEW a \in Answers, EndCall(c, a) PROVE MeasuredInv'
    <2>1. UNCHANGED <<phase, cacheable, lastRun, stored>> /\ answer' = [answer EXCEPT ![c] = a]
      BY <1>5 DEF EndCall
    <2>2. c \in Members(PhaseCalls(phase))
      BY <1>t DEF PhaseInv
    <2>3. \A d \in Calls \ Members(PhaseCalls(phase)) : answer'[d] = answer[d]
      BY <1>t, <2>1, <2>2 DEF TypeOK, AnswersSoFar
    <2> QED
      BY <2>1, <2>3 DEF MeasuredInv
  <1>s. UNCHANGED <<phase, answer, cacheable, lastRun, stored>> => MeasuredInv'
    BY DEF MeasuredInv
  <1>6. CASE Respond \/ RungPasses \/ RungMisses \/ RungFails
    <2>1. \/ \E c \in running, a \in Answers : EndCall(c, a)
          \/ UNCHANGED <<phase, answer, cacheable, lastRun, stored>>
      <3>1. Fail("Transient", {}) \in Answers /\ Ok("none") \in Answers
        BY AnswerTypes
      <3>2. \A c \in running : CallAnswers[c] \subseteq Answers
        BY <1>t, AnswerTypes DEF TypeOK
      <3> QED
        BY <1>6, <3>1, <3>2 DEF Respond, RungPasses, RungMisses, RungFails
    <2> QED
      BY <1>5, <1>s, <2>1
  <1>7. CASE Acquire \/ UNCHANGED vars
    BY <1>7, <1>s DEF Acquire, vars
  <1>8. ASSUME NEW from \in {"wave1", "wave2", "ladder", "max_output"}, NEW to,
               TakeAndBegin(from, to)
        PROVE  MeasuredInv'
    <2>1. /\ phase = from /\ PhaseOver /\ cacheable' = Taken /\ Begin(to, answer)
          /\ UNCHANGED <<lastRun, stored>>
      BY <1>8 DEF TakeAndBegin
    <2>2. cacheable' => \A c \in Calls : ~SessionLocal(c, answer[c])
      BY <2>1, TakenIsMeasured
    <2> QED
      BY <1>1, <1>t, <2>1, <2>2 DEF TypeOK
  <1>9. CASE TakeWave1 \/ TakeWave2 \/ TakeLadder \/ TakeMaxOutput
    BY <1>8, <1>9 DEF TakeWave1, TakeWave2, TakeLadder, TakeMaxOutput
  <1>10. CASE Finish
    <2>1. /\ phase # "aborted" /\ PhaseOver /\ cacheable' = Taken
          /\ lastRun'.cacheable = Taken /\ lastRun'.answer = answer
          /\ UNCHANGED <<answer, stored>>
      BY <1>10 DEF Finish
    <2>2. Taken => \A c \in Calls : ~SessionLocal(c, answer[c])
      BY <2>1, TakenIsMeasured
    <2> QED
      BY <2>1, <2>2 DEF MeasuredInv
  <1>11. CASE Persist
    BY <1>11 DEF Persist, MeasuredInv
  <1> QED
    BY <1>2, <1>4, <1>6, <1>7, <1>9, <1>10, <1>11 DEF Next, RunStep

\* Nothing that was only the weather of the session is stored for 30 days,
\* whichever call met it and in whatever order the answers came.
THEOREM StoredIsMeasured == Spec => []StoredRunIsMeasured
  <1>1. MeasuredInv => StoredRunIsMeasured
    BY DEF MeasuredInv, StoredRunIsMeasured
  <1> QED
    BY <1>1, TypeInit, TypeStep, AccountInit, AccountStep, MeasuredInit, MeasuredStep, PTL
    DEF Spec

----------------------------------------------------------------------------
(* The verdict does not depend on timing.                                  *)

\* Where the elements of two sequences are in their concatenation.
LEMMA Joined ==
    ASSUME NEW S, NEW s \in Seq(S), NEW t \in Seq(S)
    PROVE  /\ s \o t \in Seq(S)
           /\ Len(s \o t) = Len(s) + Len(t)
           /\ \A i \in 1..Len(s) : (s \o t)[i] = s[i]
           /\ \A i \in 1..Len(t) : (s \o t)[Len(s) + i] = t[i]
  OBVIOUS

\* The results of the last three calls are taken in this order.
LastCalls == {"ladder", "max_output_tokens", "xml_tool_calling"}
Names == STRING \cup LastCalls
Tail3 == <<"ladder", "max_output_tokens", "xml_tool_calling">>

\* They are three names, in that order.
LEMMA TailFacts ==
    /\ Tail3 \in Seq(Names) /\ Len(Tail3) = 3
    /\ Tail3[1] = "ladder" /\ Tail3[2] = "max_output_tokens"
    /\ Tail3[3] = "xml_tool_calling"
  <1>1. Len(Tail3) = 3 /\ DOMAIN Tail3 = 1..3
    BY DEF Tail3
  <1>2. Tail3[1] = "ladder" /\ Tail3[2] = "max_output_tokens" /\ Tail3[3] = "xml_tool_calling"
    BY DEF Tail3
  <1>3. Tail3 \in [1..3 -> LastCalls]
    <2>1. \A i \in 1..3 : Tail3[i] \in LastCalls
      BY <1>2 DEF LastCalls
    <2>2. Tail3 = [i \in 1..3 |-> Tail3[i]]
      BY DEF Tail3
    <2> QED
      BY <2>1, <2>2
  <1>4. Tail3 \in Seq(LastCalls)
    BY <1>3, SeqDef
  <1>5. Tail3 \in Seq(Names)
    BY <1>4, SeqMonotonic DEF Names
  <1> QED
    BY <1>1, <1>2, <1>5

\* The results of a phase are taken in a row, after those of other phases.
LEMMA PhaseInOrder ==
    ASSUME NEW ph \in {"wave1", "wave2", "ladder", "max_output", "xml"}
    PROVE  \E before \in Nat :
             /\ \A i \in DOMAIN PhaseCalls(ph) :
                  /\ i \in Nat \ {0} /\ before + i \in DOMAIN TakingOrder
                  /\ \A j \in 1..i : j \in DOMAIN PhaseCalls(ph)
                  /\ TakingOrder[before + i] = PhaseCalls(ph)[i]
             /\ \A j \in 1..before : TakingOrder[j] \in Calls \ Members(PhaseCalls(ph))
  <1> DEFINE n1 == Len(Wave1)
             n2 == Len(Wave2)
             w == Wave1 \o Wave2
  <1>0. Wave1 \in Seq(Names) /\ Wave2 \in Seq(Names)
    BY WavesAssumption, SeqMonotonic DEF Names
  <1>1. /\ n1 \in Nat /\ n2 \in Nat
        /\ DOMAIN Wave1 = 1..n1 /\ DOMAIN Wave2 = 1..n2
    BY WavesAssumption
  <1>2. /\ w \in Seq(Names) /\ Len(w) = n1 + n2
        /\ \A i \in 1..n1 : w[i] = Wave1[i]
        /\ \A i \in 1..n2 : w[n1 + i] = Wave2[i]
    BY <1>0, <1>1, Joined
  <1>3. TakingOrder = w \o Tail3
    BY <1>1, TailFacts DEF TakingOrder, Tail3
  <1> HIDE DEF w
  <1>4. /\ TakingOrder \in Seq(Names) /\ Len(TakingOrder) = n1 + n2 + 3
        /\ \A i \in 1..(n1 + n2) : TakingOrder[i] = w[i]
        /\ \A i \in 1..3 : TakingOrder[n1 + n2 + i] = Tail3[i]
    <2>1. /\ w \o Tail3 \in Seq(Names)
          /\ Len(w \o Tail3) = Len(w) + Len(Tail3)
          /\ \A i \in 1..Len(w) : (w \o Tail3)[i] = w[i]
          /\ \A i \in 1..Len(Tail3) : (w \o Tail3)[Len(w) + i] = Tail3[i]
      <3>1. w \in Seq(Names) /\ Tail3 \in Seq(Names)
        BY <1>2, TailFacts
      <3> QED
        BY <3>1, Joined, SMT
    <2>2. Len(w) = n1 + n2 /\ Len(Tail3) = 3
      BY <1>2, TailFacts
    <2> QED
      BY <1>3, <2>1, <2>2, Zenon
  <1>5. DOMAIN TakingOrder = 1..(n1 + n2 + 3)
    BY <1>4
  <1> HIDE DEF n1, n2
  <1>6. /\ \A i \in 1..n1 : TakingOrder[i] = Wave1[i]
        /\ \A i \in 1..n2 : TakingOrder[n1 + i] = Wave2[i]
        /\ TakingOrder[n1 + n2 + 1] = "ladder"
        /\ TakingOrder[n1 + n2 + 2] = "max_output_tokens"
        /\ TakingOrder[n1 + n2 + 3] = "xml_tool_calling"
    BY <1>1, <1>2, <1>4, TailFacts
  <1>7. \A j \in 1..n1 : TakingOrder[j] \in Members(Wave1)
    BY <1>1, <1>6 DEF Members
  <1>8. \A j \in 1..(n1 + n2) : TakingOrder[j] \in Probes
    <2> SUFFICES ASSUME NEW j \in 1..(n1 + n2), j \notin 1..n1
                 PROVE  TakingOrder[j] \in Members(Wave2)
      BY <1>7 DEF Probes
    <2>1. j - n1 \in 1..n2 /\ n1 + (j - n1) = j
      BY <1>1
    <2>2. TakingOrder[j] = Wave2[j - n1]
      BY <2>1, <1>6
    <2> QED
      BY <1>1, <2>1, <2>2 DEF Members
  <1>9. /\ Members(<<"ladder">>) = {"ladder"}
        /\ Members(<<"max_output_tokens">>) = {"max_output_tokens"}
        /\ Members(<<"xml_tool_calling">>) = {"xml_tool_calling"}
    BY DEF Members
  <1>10. CASE ph = "wave1"
    <2>1. PhaseCalls(ph) = Wave1
      BY <1>10 DEF PhaseCalls
    <2> WITNESS 0 \in Nat
    <2> QED
      BY <1>1, <1>5, <1>6, <2>1
  <1>11. CASE ph = "wave2"
    <2>1. PhaseCalls(ph) = Wave2
      BY <1>11 DEF PhaseCalls
    <2>2. Members(Wave1) \subseteq Calls \ Members(Wave2)
      BY WavesAssumption DEF Calls, Probes
    <2> n1 \in Nat
      BY <1>1
    <2> WITNESS n1 \in Nat
    <2> QED
      BY <1>1, <1>5, <1>6, <1>7, <2>1, <2>2
  <1>12. CASE ph = "ladder"
    <2>1. PhaseCalls(ph) = <<"ladder">>
      BY <1>12 DEF PhaseCalls
    <2>2. Probes \subseteq Calls \ {"ladder"}
      BY WavesAssumption DEF Calls
    <2>3. n1 + n2 \in Nat /\ DOMAIN <<"ladder">> = {1}
      BY <1>1
    <2> n1 + n2 \in Nat
      BY <1>1
    <2> WITNESS n1 + n2 \in Nat
    <2> QED
      BY <1>1, <1>5, <1>6, <1>8, <1>9, <2>1, <2>2, <2>3
  <1>13. CASE ph = "max_output"
    <2>1. PhaseCalls(ph) = <<"max_output_tokens">>
      BY <1>13 DEF PhaseCalls
    <2>2. Probes \cup {"ladder"} \subseteq Calls \ {"max_output_tokens"}
      BY WavesAssumption DEF Calls
    <2>3. n1 + n2 + 1 \in Nat /\ DOMAIN <<"max_output_tokens">> = {1}
      BY <1>1
    <2>4. \A j \in 1..(n1 + n2 + 1) : TakingOrder[j] \in Probes \cup {"ladder"}
      <3>1. \A j \in 1..(n1 + n2 + 1) : j \in 1..(n1 + n2) \/ j = n1 + n2 + 1
        BY <1>1
      <3> QED
        BY <1>6, <1>8, <3>1
    <2> n1 + n2 + 1 \in Nat
      BY <1>1
    <2> WITNESS n1 + n2 + 1 \in Nat
    <2> QED
      BY <1>1, <1>5, <1>6, <1>9, <2>1, <2>2, <2>3, <2>4
  <1>14. CASE ph = "xml"
    <2>1. PhaseCalls(ph) = <<"xml_tool_calling">>
      BY <1>14 DEF PhaseCalls
    <2>2. Probes \cup {"ladder", "max_output_tokens"} \subseteq Calls \ {"xml_tool_calling"}
      BY WavesAssumption DEF Calls
    <2>3. n1 + n2 + 2 \in Nat /\ DOMAIN <<"xml_tool_calling">> = {1}
      BY <1>1
    <2>4. \A j \in 1..(n1 + n2 + 2) :
            TakingOrder[j] \in Probes \cup {"ladder", "max_output_tokens"}
      <3>1. \A j \in 1..(n1 + n2 + 2) :
              j \in 1..(n1 + n2) \/ j = n1 + n2 + 1 \/ j = n1 + n2 + 2
        BY <1>1
      <3> QED
        BY <1>6, <1>8, <3>1
    <2> n1 + n2 + 2 \in Nat
      BY <1>1
    <2> WITNESS n1 + n2 + 2 \in Nat
    <2> QED
      BY <1>1, <1>5, <1>6, <1>9, <2>1, <2>2, <2>3, <2>4
  <1> QED
    BY <1>10, <1>11, <1>12, <1>13, <1>14

\* No call outside the phase under way has an answer that aborts the run: the
\* phases before it were over without one.  An aborted run returned the first.
PastInv ==
    /\ phase # "aborted" =>
          \A c \in Calls \ Members(PhaseCalls(phase)) : ~Aborts(answer[c])
    /\ VerdictIgnoresCompletionOrder

LEMMA QuietVerdict ==
    ~Aborts(NoAnswer) /\ \A c : ~Aborts(SkipAnswer(c))
  BY DEF Aborts, NoAnswer, SkipAnswer, Skip

LEMMA PastInit == Init => PastInv
  <1> SUFFICES ASSUME Init PROVE PastInv
    OBVIOUS
  <1>1. phase = "idle" /\ \A c \in Calls : ~Aborts(answer[c])
    BY QuietVerdict DEF Init, Unasked
  <1> QED
    BY <1>1 DEF PastInv, VerdictIgnoresCompletionOrder

\* The error AbortRun returns is the first in taking order.
LEMMA AbortIsFirst ==
    ASSUME TypeInv, PastInv, AbortRun PROVE PastInv'
  <1>1. PICK i \in AbortingCalls :
          /\ \A j \in AbortingCalls : i <= j
          /\ verdict' = answer[PhaseCalls(phase)[i]].kind
    BY DEF AbortRun
  <1>2. phase' = "aborted" /\ UNCHANGED <<answer, conf>>
    BY DEF AbortRun
  <1>3. i \in DOMAIN PhaseCalls(phase) /\ Aborts(answer[PhaseCalls(phase)[i]])
    BY <1>1 DEF AbortingCalls
  <1>4. phase \in {"wave1", "wave2", "ladder", "max_output", "xml"}
    <2>1. PhaseCalls(phase)[i] \in Members(PhaseCalls(phase))
      BY <1>3 DEF Members
    <2> QED
      BY <2>1, PhaseMembers DEF TypeInv, TypeOK
  <1>5. PICK before \in Nat :
          /\ \A k \in DOMAIN PhaseCalls(phase) :
               /\ k \in Nat \ {0} /\ before + k \in DOMAIN TakingOrder
               /\ \A j \in 1..k : j \in DOMAIN PhaseCalls(phase)
               /\ TakingOrder[before + k] = PhaseCalls(phase)[k]
          /\ \A j \in 1..before : TakingOrder[j] \in Calls \ Members(PhaseCalls(phase))
    BY <1>4, PhaseInOrder
  <1>6. /\ \A j \in 1..i : j \in DOMAIN PhaseCalls(phase)
        /\ i \in Nat \ {0} /\ before + i \in DOMAIN TakingOrder
        /\ TakingOrder[before + i] = PhaseCalls(phase)[i]
    BY <1>3, <1>5
  <1>7. \A j \in 1..(before + i - 1) : ~Aborts(answer[TakingOrder[j]])
    <2> SUFFICES ASSUME NEW j \in 1..(before + i - 1) PROVE ~Aborts(answer[TakingOrder[j]])
      OBVIOUS
    <2>1. CASE j \in 1..before
      BY <1>4, <1>5, <2>1 DEF PastInv
    <2>2. CASE j \notin 1..before
      <3>1. j - before \in DOMAIN PhaseCalls(phase) /\ before + (j - before) = j
        <4>1. j - before \in 1..i /\ before + (j - before) = j
          BY <1>6, <2>2
        <4> QED
          BY <1>6, <4>1
      <3>2. TakingOrder[j] = PhaseCalls(phase)[j - before]
        BY <1>5, <3>1
      <3>3. ~(i <= j - before)
        BY <1>6
      <3>4. j - before \notin AbortingCalls
        BY <1>1, <3>3
      <3> QED
        BY <3>1, <3>2, <3>4 DEF AbortingCalls
    <2> QED
      BY <2>1, <2>2
  <1>8. TakingOrder' = TakingOrder
    BY DEF TakingOrder
  <1>9. /\ Aborts(answer'[TakingOrder[before + i]])
        /\ verdict' = answer'[TakingOrder[before + i]].kind
        /\ \A j \in 1..((before + i) - 1) : ~Aborts(answer'[TakingOrder[j]])
    BY <1>1, <1>2, <1>3, <1>6, <1>7
  <1> QED
    BY <1>2, <1>6, <1>9 DEF PastInv, VerdictIgnoresCompletionOrder

\* When a phase is over and none of its calls aborts, no call so far does.
LEMMA NothingAborts ==
    ASSUME PastInv, phase # "aborted", AbortingCalls = {}, NEW c \in Calls
    PROVE  ~Aborts(answer[c])
  <1>1. CASE c \in Members(PhaseCalls(phase))
    <2>1. PICK i \in DOMAIN PhaseCalls(phase) : c = PhaseCalls(phase)[i]
      BY <1>1 DEF Members
    <2>2. i \notin AbortingCalls
      OBVIOUS
    <2> QED
      BY <2>1, <2>2 DEF AbortingCalls
  <1> QED
    BY <1>1 DEF PastInv

LEMMA PastStep == TypeInv /\ PastInv /\ [Next]_vars => PastInv'
  <1> SUFFICES ASSUME TypeInv, PastInv, [Next]_vars PROVE PastInv'
    OBVIOUS
  <1>t. TypeOK /\ PhaseInv
    BY DEF TypeInv
  <1>1. ASSUME NEW ph \in {"wave1", "wave2", "ladder", "max_output", "xml"},
               NEW answers, Begin(ph, answers),
               \A c \in Calls : ~Aborts(answers[c])
        PROVE  PastInv'
    <2>1. phase' = ph /\ \A c \in Calls :
            (\E d : answer'[c] = SkipAnswer(d)) \/ answer'[c] = answers[c]
      BY <1>1 DEF Begin
    <2>2. \A c \in Calls : ~Aborts(answer'[c])
      BY <1>1, <2>1, QuietVerdict
    <2> QED
      BY <1>1, <2>1, <2>2 DEF PastInv, VerdictIgnoresCompletionOrder
  <1>2. CASE StartRun
    <2>1. Begin("wave1", Unasked)
      BY <1>2 DEF StartRun
    <2>2. \A c \in Calls : ~Aborts(Unasked[c])
      BY QuietVerdict DEF Unasked
    <2> QED
      BY <1>1, <2>1, <2>2
  <1>3. CASE RejectIdentity
    BY <1>3 DEF RejectIdentity, PastInv, VerdictIgnoresCompletionOrder
  <1>4. CASE AbortRun
    BY <1>4, AbortIsFirst
  <1>5. ASSUME NEW c \in running, NEW a, EndCall(c, a) PROVE PastInv'
    <2>1. UNCHANGED <<conf, phase, verdict>> /\ answer' = [answer EXCEPT ![c] = a]
      BY <1>5 DEF EndCall
    <2>2. c \in Members(PhaseCalls(phase)) /\ phase \notin {"aborted", "done"}
      BY <1>t, PhaseMembers DEF PhaseInv
    <2>3. \A d \in Calls \ Members(PhaseCalls(phase)) : answer'[d] = answer[d]
      BY <1>t, <2>1, <2>2 DEF TypeOK, AnswersSoFar
    <2> QED
      BY <2>1, <2>2, <2>3 DEF PastInv, VerdictIgnoresCompletionOrder
  <1>s. UNCHANGED <<conf, phase, answer, verdict>> => PastInv'
    BY DEF PastInv, VerdictIgnoresCompletionOrder, TakingOrder
  <1>6. CASE Respond \/ RungPasses \/ RungMisses \/ RungFails
    <2>1. \/ \E c \in running : \E a : EndCall(c, a)
          \/ UNCHANGED <<conf, phase, answer, verdict>>
      BY <1>6 DEF Respond, RungPasses, RungMisses, RungFails
    <2> QED
      BY <1>5, <1>s, <2>1
  <1>7. CASE Acquire \/ Persist \/ UNCHANGED vars
    BY <1>7, <1>s DEF Acquire, Persist, vars
  <1>8. ASSUME NEW from \in {"wave1", "wave2", "ladder", "max_output"},
               NEW to \in {"wave2", "ladder", "max_output", "xml"},
               TakeAndBegin(from, to)
        PROVE  PastInv'
    <2>1. phase = from /\ AbortingCalls = {} /\ Begin(to, answer)
      BY <1>8 DEF TakeAndBegin
    <2>2. \A c \in Calls : ~Aborts(answer[c])
      BY <2>1, NothingAborts
    <2> QED
      BY <1>1, <2>1, <2>2
  <1>9. CASE TakeWave1 \/ TakeWave2 \/ TakeLadder \/ TakeMaxOutput
    BY <1>8, <1>9 DEF TakeWave1, TakeWave2, TakeLadder, TakeMaxOutput
  <1>10. CASE Finish
    <2>1. /\ phase # "aborted" /\ AbortingCalls = {}
          /\ phase' = "done" /\ UNCHANGED answer
      BY <1>10 DEF Finish
    <2>2. \A c \in Calls : ~Aborts(answer[c])
      BY <2>1, NothingAborts
    <2> QED
      BY <2>1, <2>2 DEF PastInv, VerdictIgnoresCompletionOrder
  <1> QED
    BY <1>2, <1>3, <1>4, <1>6, <1>7, <1>9, <1>10 DEF Next, RunStep

\* The error a run returns is that of the first aborting call in the order the
\* results are taken, and a run that ends in a profile met none, however the
\* calls were interleaved.
THEOREM VerdictOfFirstAbort == Spec => []VerdictIgnoresCompletionOrder
  <1>1. PastInv => VerdictIgnoresCompletionOrder
    BY DEF PastInv
  <1> QED
    BY <1>1, TypeInit, TypeStep, PastInit, PastStep, PTL DEF Spec

----------------------------------------------------------------------------
(* What a run leaves behind: the last profile, its window, the probes it   *)
(* asked, and that run_detailed implements SuiteVerdict.                   *)

\* The phases in which a run is on.
Busy == {"wave1", "wave2", "ladder", "max_output", "xml"}

----------------------------------------------------------------------------
(* The last profile.                                                       *)

\* Only an identified runner has a run on; profiles are numbered by their run,
\* and what is stored was the last profile once.
RunsInv ==
    /\ phase \in Busy => conf.identified /\ runs > 0
    /\ lastRun.run <= runs
    /\ LastRunIsWhole

LEMMA RunsInit == Init => RunsInv
  BY DEF Init, RunsInv, LastRunIsWhole, NoRun, Busy

\* The steps between the first and the last of a run, and what they leave alone.
Inside == Acquire \/ Respond \/ RungPasses \/ RungMisses \/ RungFails
             \/ TakeWave1 \/ TakeWave2 \/ TakeLadder \/ TakeMaxOutput

LEMMA InsideRun ==
    ASSUME TypeInv, Inside
    PROVE  /\ phase \in Busy /\ phase' \in Busy
           /\ UNCHANGED <<conf, verdict, runs, lastRun, stored>>
  <1>t. TypeOK /\ PhaseInv
    BY DEF TypeInv
  <1>1. ASSUME waiting \cup running # {}
        PROVE  phase \in Busy
    BY <1>t, <1>1, PhaseMembers DEF PhaseInv, TypeOK, Busy
  <1>2. ASSUME NEW c \in running, NEW a, EndCall(c, a)
        PROVE  phase \in Busy /\ UNCHANGED <<conf, phase, verdict, runs, lastRun, stored>>
    BY <1>1, <1>2 DEF EndCall
  <1>3. CASE Acquire
    BY <1>1, <1>3 DEF Acquire
  <1>4. CASE Respond \/ RungMisses \/ RungFails
    <2>1. \E c \in running : \E a : EndCall(c, a)
      BY <1>4 DEF Respond, RungMisses, RungFails
    <2> QED
      BY <1>2, <2>1
  <1>5. CASE RungPasses
    <2>1. \/ EndCall("ladder", Ok("none"))
          \/ UNCHANGED <<conf, phase, verdict, runs, lastRun, stored>>
      BY <1>5 DEF RungPasses
    <2>2. "ladder" \in running
      BY <1>5 DEF RungPasses
    <2> QED
      BY <1>1, <1>2, <2>1, <2>2
  <1>6. CASE TakeWave1 \/ TakeWave2 \/ TakeLadder \/ TakeMaxOutput
    BY <1>6 DEF TakeWave1, TakeWave2, TakeLadder, TakeMaxOutput, TakeAndBegin, Begin, Busy
  <1> QED
    BY <1>3, <1>4, <1>5, <1>6 DEF Inside

LEMMA RunsStep == TypeInv /\ RunsInv /\ [Next]_vars => RunsInv'
  <1> SUFFICES ASSUME TypeInv, RunsInv, [Next]_vars PROVE RunsInv'
    OBVIOUS
  <1>t. runs \in Nat /\ lastRun \in Runs /\ stored \in Runs
    BY SettingsAssumption DEF TypeInv, TypeOK
  <1>n. lastRun.run \in Nat /\ stored.run \in Nat
    BY <1>t, SettingsAssumption DEF Runs
  <1> USE DEF RunsInv, LastRunIsWhole, Busy
  <1>1. CASE StartRun
    BY <1>1, <1>t, <1>n DEF StartRun, Begin
  <1>2. CASE RejectIdentity
    BY <1>2, <1>t, <1>n DEF RejectIdentity
  <1>3. CASE Inside
    BY <1>3, <1>t, <1>n, InsideRun
  <1>4. CASE AbortRun
    <2>1. phase # "done"
      BY <1>4, PhaseMembers DEF AbortRun, AbortingCalls, Members
    <2> QED
      BY <1>4, <2>1, <1>t, <1>n DEF AbortRun
  <1>5. CASE Finish
    BY <1>5, <1>t, <1>n DEF Finish
  <1>6. CASE Persist
    BY <1>6, <1>t, <1>n DEF Persist
  <1>7. CASE UNCHANGED vars
    BY <1>7 DEF vars
  <1> QED
    BY <1>1, <1>2, <1>3, <1>4, <1>5, <1>6, <1>7 DEF Next, RunStep, Inside

\* What persist writes is the last run that ended in a profile, never a part
\* of an aborted one (last_run of run_detailed).
THEOREM LastProfileIsWhole == Spec => []LastRunIsWhole
  <1>1. RunsInv => LastRunIsWhole
    BY DEF RunsInv
  <1> QED
    BY <1>1, TypeInit, TypeStep, RunsInit, RunsStep, PTL DEF Spec

----------------------------------------------------------------------------
(* The window.                                                             *)

\* The tokens of a climb are those of a planned rung.
Planned(tokens) == tokens = 0 \/ \E i \in 1..PlannedRungs : tokens = RungSizes[i]

WindowInv ==
    /\ Planned(ladder.tokens)
    /\ lastRun.run > 0 =>
          /\ Planned(lastRun.floor)
          /\ lastRun.effective = (IF conf.suite = "policy" THEN 0 ELSE lastRun.floor)

\* A planned rung is the first or is under the prior.
LEMMA PlannedIsUnderPrior ==
    ASSUME conf.advertised \in Nat, NEW tokens, Planned(tokens)
    PROVE  /\ tokens \in Nat
           /\ conf.suite = "policy" => tokens <= 4096
           /\ \/ tokens <= 4096 \/ conf.advertised = 0
              \/ tokens <= conf.advertised
  <1> DEFINE Fits(n) ==
        /\ conf.suite = "policy" => n = 1
        /\ \A i \in 2..n : conf.advertised = 0 \/ RungSizes[i] <= conf.advertised
  <1>0. RungSizes[1] = 4096 /\ RungSizes[2] = 8192 /\ RungSizes[3] = 16384
    BY DEF RungSizes
  <1>1. PlannedRungs \in 1..3 /\ Fits(PlannedRungs)
    BY RungsPlanned
  <1>2. CASE tokens = 0
    BY <1>2
  <1>3. ASSUME NEW i \in 1..PlannedRungs, tokens = RungSizes[i]
        PROVE  /\ tokens \in Nat
               /\ conf.suite = "policy" => tokens <= 4096
               /\ \/ tokens <= 4096 \/ conf.advertised = 0
                  \/ tokens <= conf.advertised
    <2>1. i \in {1, 2, 3} /\ (conf.suite = "policy" => i = 1)
      BY <1>1, <1>3
    <2>2. i # 1 => i \in 2..PlannedRungs
      BY <1>1, <1>3
    <2>3. i # 1 => (conf.advertised = 0 \/ tokens <= conf.advertised)
      BY <1>1, <1>3, <2>2
    <2> QED
      BY <1>0, <1>3, <2>1, <2>3
  <1> QED
    BY <1>2, <1>3 DEF Planned

LEMMA WindowInit == Init => WindowInv
  BY DEF Init, WindowInv, NoRun, Planned

LEMMA WindowStep == TypeInv /\ WindowInv /\ [Next]_vars => WindowInv'
  <1> SUFFICES ASSUME TypeInv, WindowInv, [Next]_vars PROVE WindowInv'
    OBVIOUS
  <1>p. ASSUME conf' = conf
        PROVE  \A tokens : Planned(tokens) <=> Planned(tokens)'
    BY <1>p DEF Planned, PlannedRungs
  <1>c. conf' = conf
    BY DEF Next, RunStep, vars, StartRun, RejectIdentity, Acquire, Respond, EndCall, RungPasses,
           RungMisses, RungFails, AbortRun, TakeWave1, TakeWave2, TakeLadder, TakeMaxOutput,
           TakeAndBegin, Finish, Persist
  <1>s. UNCHANGED <<ladder, lastRun>> => WindowInv'
    BY <1>p, <1>c DEF WindowInv
  <1>1. CASE StartRun
    BY <1>1, <1>p, <1>c DEF StartRun, WindowInv, Planned
  <1>2. CASE RungPasses
    <2>1. ladder'.tokens = RungSizes[ladder.next] /\ lastRun' = lastRun
      BY <1>2 DEF RungPasses, EndCall
    <2>2. ladder.next \in 1..PlannedRungs
      BY <1>2 DEF RungPasses, TypeInv, TypeOK, ClimbInv
    <2>3. Planned(ladder'.tokens)
      BY <2>1, <2>2 DEF Planned
    <2> QED
      BY <2>1, <2>3, <1>p, <1>c DEF WindowInv
  <1>3. CASE RungMisses
    <2>1. ladder'.tokens = ladder.tokens /\ lastRun' = lastRun
      BY <1>3 DEF RungMisses, EndCall, TypeInv, TypeOK
    <2> QED
      BY <2>1, <1>p, <1>c DEF WindowInv
  <1>4. CASE Finish
    <2>1. /\ lastRun'.floor = ladder.tokens /\ ladder' = ladder
          /\ lastRun'.effective = IF conf.suite = "policy" THEN 0 ELSE ladder.tokens
      BY <1>4 DEF Finish
    <2> QED
      BY <2>1, <1>p, <1>c DEF WindowInv
  <1>5. CASE RejectIdentity \/ Acquire \/ Respond \/ RungFails \/ AbortRun
             \/ TakeWave1 \/ TakeWave2 \/ TakeLadder \/ TakeMaxOutput \/ Persist
    BY <1>5, <1>s DEF RejectIdentity, Acquire, Respond, RungFails, EndCall, AbortRun, TakeWave1,
                      TakeWave2, TakeLadder, TakeMaxOutput, TakeAndBegin, Persist
  <1>6. CASE UNCHANGED vars
    BY <1>6, <1>s DEF vars
  <1> QED
    BY <1>1, <1>2, <1>3, <1>4, <1>5, <1>6 DEF Next, RunStep

\* A climb that recalled everything to its end stands on the last planned rung,
\* and a finished run has published the rung it stands on.
FullClimbInv ==
    /\ answer["ladder"].kind = "Ok" /\ ladder.hits = 3 =>
          ladder.tokens = RungSizes[PlannedRungs]
    /\ phase = "done" => lastRun.floor = ladder.tokens

LEMMA FullClimbInit == Init => FullClimbInv
  BY DEF Init, FullClimbInv, Unasked, NoAnswer, Calls

\* A phase that begins leaves the ladder's answer, or is not the ladder's "Ok".
LEMMA BeginKeepsClimb ==
    ASSUME NEW ph \in Busy, NEW answers, Begin(ph, answers), conf' = conf,
           answers["ladder"].kind = "Ok" /\ ladder'.hits = 3 =>
               ladder'.tokens = RungSizes[PlannedRungs]
    PROVE  FullClimbInv'
  <1>1. phase' = ph /\ ph # "done"
    BY DEF Begin, Busy
  <1>2. "ladder" \in Calls
    BY DEF Calls
  <1>3. answer'["ladder"] = SkipAnswer("ladder") \/ answer'["ladder"] = answers["ladder"]
    BY <1>2 DEF Begin
  <1>4. SkipAnswer("ladder").kind # "Ok"
    BY DEF SkipAnswer, Skip
  <1>5. PlannedRungs' = PlannedRungs
    BY DEF PlannedRungs
  <1> QED
    BY <1>1, <1>3, <1>4, <1>5 DEF FullClimbInv

LEMMA FullClimbStep ==
    TypeInv /\ AccountInv /\ FullClimbInv /\ [Next]_vars => FullClimbInv'
  <1> SUFFICES ASSUME TypeInv, AccountInv, FullClimbInv, [Next]_vars PROVE FullClimbInv'
    OBVIOUS
  <1>t. answer \in AnswersSoFar /\ running \subseteq Calls /\ "ladder" \in Calls
    BY DEF TypeInv, TypeOK, Calls
  <1>r. ASSUME conf' = conf PROVE PlannedRungs' = PlannedRungs
    BY <1>r DEF PlannedRungs
  <1>s. UNCHANGED <<conf, phase, ladder, lastRun>> /\ answer'["ladder"] = answer["ladder"]
            => FullClimbInv'
    BY <1>r DEF FullClimbInv
  <1>d. running # {} => phase # "done"
    BY PhaseMembers DEF TypeInv, PhaseInv
  <1>l. ASSUME NEW a, EndCall("ladder", a)
        PROVE  answer'["ladder"] = a /\ UNCHANGED <<conf, phase, lastRun>>
    BY <1>l, <1>t DEF EndCall, AnswersSoFar
  <1>1. CASE StartRun
    <2>1. Begin("wave1", Unasked) /\ conf' = conf /\ "wave1" \in Busy
      BY <1>1 DEF StartRun, Busy
    <2>2. Unasked["ladder"].kind # "Ok"
      BY <1>t DEF Unasked, NoAnswer
    <2> QED
      BY <2>1, <2>2, BeginKeepsClimb
  <1>2. CASE RejectIdentity \/ AbortRun
    BY <1>2, <1>r DEF RejectIdentity, AbortRun, FullClimbInv
  <1>3. CASE Respond
    <2>1. PICK c \in running \ {"ladder"} : \E a \in CallAnswers[c] : EndCall(c, a) /\ UNCHANGED ladder
      BY <1>3 DEF Respond
    <2>2. answer'["ladder"] = answer["ladder"] /\ UNCHANGED <<conf, phase, ladder, lastRun>>
      BY <2>1, <1>t DEF EndCall, AnswersSoFar
    <2> QED
      BY <2>2, <1>s
  <1>4. CASE RungPasses
    <2>1. phase # "done" /\ ladder'.tokens = RungSizes[ladder.next]
      BY <1>4, <1>d DEF RungPasses
    <2>2. CASE ladder.next = PlannedRungs
      <3>1. EndCall("ladder", Ok("none"))
        BY <1>4, <2>2 DEF RungPasses
      <3> QED
        BY <3>1, <2>1, <2>2, <1>l, <1>r DEF FullClimbInv
    <2>3. CASE ladder.next # PlannedRungs
      <3>1. UNCHANGED <<conf, phase, answer>>
        BY <1>4, <2>3 DEF RungPasses
      <3>2. answer["ladder"] = NoAnswer
        BY <1>4 DEF RungPasses, AccountInv
      <3>3. answer'["ladder"].kind # "Ok"
        BY <3>1, <3>2 DEF NoAnswer
      <3> QED
        BY <3>1, <3>3, <2>1 DEF FullClimbInv
    <2> QED
      BY <2>2, <2>3
  <1>5. CASE RungMisses
    <2>1. PICK m \in Misses :
              /\ ladder' = [ladder EXCEPT !.hits = m.hits]
              /\ EndCall("ladder", IF m.finish = "Length" THEN Fail("Transient", {}) ELSE Ok("none"))
      BY <1>5 DEF RungMisses
    <2>2. m.hits # 3
      BY LadderAssumption
    <2>3. ladder'.hits # 3
      BY <2>1, <2>2 DEF TypeInv, TypeOK
    <2>4. phase # "done" /\ phase' = phase
      BY <1>5, <1>d, <2>1 DEF RungMisses, EndCall
    <2> QED
      BY <2>3, <2>4 DEF FullClimbInv
  <1>6. CASE RungFails
    <2>1. PICK a \in CallAnswers["ladder"] : EndCall("ladder", a)
      BY <1>6 DEF RungFails
    <2>2. a.kind # "Ok"
      BY LadderAssumption
    <2>3. phase # "done" /\ phase' = phase /\ answer'["ladder"] = a
      BY <1>6, <1>d, <1>l, <2>1 DEF RungFails
    <2> QED
      BY <2>2, <2>3 DEF FullClimbInv
  <1>7. ASSUME NEW from, NEW to \in Busy, TakeAndBegin(from, to)
        PROVE  FullClimbInv'
    <2>1. Begin(to, answer) /\ conf' = conf /\ ladder' = ladder
      BY <1>7 DEF TakeAndBegin
    <2> QED
      BY <2>1, BeginKeepsClimb DEF FullClimbInv
  <1>8. CASE TakeWave1 \/ TakeWave2 \/ TakeLadder \/ TakeMaxOutput
    BY <1>8, <1>7 DEF TakeWave1, TakeWave2, TakeLadder, TakeMaxOutput, Busy
  <1>9. CASE Finish
    <2>1. lastRun'.floor = ladder.tokens /\ UNCHANGED <<conf, answer, ladder>>
      BY <1>9 DEF Finish
    <2> QED
      BY <2>1, <1>r DEF FullClimbInv
  <1>10. CASE Acquire \/ Persist \/ UNCHANGED vars
    BY <1>10, <1>s DEF Acquire, Persist, vars
  <1> QED
    BY <1>1, <1>2, <1>3, <1>4, <1>5, <1>6, <1>8, <1>9, <1>10 DEF Next, RunStep

\* The last planned rung is the largest allowed.
LEMMA PlannedIsAllowed ==
    ASSUME conf.advertised \in Nat
    PROVE  \A i \in 1..3 : RungSizes[i] <= RungSizes[PlannedRungs] <=> Allowed(i)
  <1>1. /\ PlannedRungs \in {1, 2, 3}
        /\ conf.suite = "policy" => PlannedRungs = 1
        /\ \A i \in 2..PlannedRungs : conf.advertised = 0 \/ RungSizes[i] <= conf.advertised
        /\ PlannedRungs < 3 =>
               \/ conf.suite = "policy"
               \/ conf.advertised # 0 /\ RungSizes[PlannedRungs + 1] > conf.advertised
    BY RungsPlanned
  <1>2. RungSizes[1] = 4096 /\ RungSizes[2] = 8192 /\ RungSizes[3] = 16384
    BY DEF RungSizes
  <1>3. CASE PlannedRungs = 1
    BY <1>1, <1>2, <1>3 DEF Allowed
  <1>4. CASE PlannedRungs = 2
    BY <1>1, <1>2, <1>4 DEF Allowed
  <1>5. CASE PlannedRungs = 3
    <2>1. conf.suite # "policy" /\ (conf.advertised = 0 \/ (8192 <= conf.advertised /\ 16384 <= conf.advertised))
      BY <1>1, <1>2, <1>5
    <2> QED
      BY <1>2, <1>5, <2>1 DEF Allowed
  <1> QED
    BY <1>1, <1>3, <1>4, <1>5

\* A card's window was climbed to under the prior, a policy run publishes its
\* one rung as a floor only, and a model that recalls everything gets the
\* largest rung allowed (planned_context_rungs, run_detailed).
THEOREM WindowUnderPrior == Spec => []WindowFitsPrior
  <1>1. TypeInv /\ WindowInv /\ FullClimbInv => WindowFitsPrior
    <2> SUFFICES ASSUME TypeInv, WindowInv, FullClimbInv PROVE WindowFitsPrior
      OBVIOUS
    <2>1. conf.advertised \in Nat
      BY SettingsAssumption DEF TypeInv, TypeOK
    <2>2. lastRun.run > 0 =>
              /\ lastRun.effective \in {0, lastRun.floor}
              /\ conf.suite = "policy" => lastRun.effective = 0 /\ lastRun.floor <= 4096
              /\ \/ lastRun.floor <= 4096
                 \/ conf.advertised = 0
                 \/ lastRun.floor <= conf.advertised
      <3> SUFFICES ASSUME lastRun.run > 0
                   PROVE  /\ lastRun.effective \in {0, lastRun.floor}
                          /\ conf.suite = "policy" => lastRun.effective = 0 /\ lastRun.floor <= 4096
                          /\ \/ lastRun.floor <= 4096
                             \/ conf.advertised = 0
                             \/ lastRun.floor <= conf.advertised
        OBVIOUS
      <3>1. Planned(lastRun.floor)
        BY DEF WindowInv
      <3> QED
        BY <2>1, <3>1, PlannedIsUnderPrior DEF WindowInv
    <2>3. (phase = "done" /\ answer["ladder"].kind = "Ok" /\ ladder.hits = 3) =>
              lastRun.floor = RungSizes[PlannedRungs]
      BY DEF FullClimbInv
    <2> QED
      BY <2>1, <2>2, <2>3, PlannedIsAllowed DEF WindowFitsPrior
  <1> QED
    BY <1>1, TypeInit, TypeStep, AccountInit, AccountStep, WindowInit, WindowStep,
       FullClimbInit, FullClimbStep, PTL DEF Spec
----------------------------------------------------------------------------
(* The answers a profile is made from.                                     *)

\* The calls of the phases before ph.
Past(ph) == Calls \ (Members(PhaseCalls(ph)) \cup ToCome(ph))

\* The flag says whether every answer taken so far may be stored.
Storable == \A c \in Past(phase) : CallCacheable(c, answer[c])

\* Every call of an earlier phase is answered and the flag counts those answers
\* alone; the XML probe is on only where native calls are not Strong.  A call is
\* answered for by the runner exactly when the suite skips it.
OutcomeInv ==
    /\ phase \in Busy =>
          /\ \A c \in Past(phase) : answer[c] # NoAnswer
          /\ cacheable <=> Storable
    /\ phase = "xml" => ~NativeToolsStrong
    /\ phase \in Busy \cup {"done"} =>
          \A c \in Calls \ ToCome(phase) : answer[c].kind = "Skip" <=> Skipped(c)
    /\ phase = "done" => \A c \in Calls \ {"xml_tool_calling"} : answer[c] # NoAnswer

\* The calls before each phase: nothing before the first, all but the one of the
\* last before that.
LEMMA PastOf ==
    /\ Past("wave1") = {}
    /\ Past("wave2") = Past("wave1") \cup Members(PhaseCalls("wave1"))
    /\ Past("ladder") = Past("wave2") \cup Members(PhaseCalls("wave2"))
    /\ Past("max_output") = Past("ladder") \cup Members(PhaseCalls("ladder"))
    /\ Past("xml") = Past("max_output") \cup Members(PhaseCalls("max_output"))
    /\ Past("xml") = Calls \ {"xml_tool_calling"}
    /\ "tool_calling" \in Past("wave2") \cap Past("ladder") \cap Past("max_output") \cap Past("xml")
    /\ Probes \subseteq Past("max_output") /\ Probes \subseteq Past("xml")
  <1>1. /\ Members(Wave1) \cap Members(Wave2) = {}
        /\ Members(Wave1) \cap {"ladder", "max_output_tokens", "xml_tool_calling"} = {}
        /\ Members(Wave2) \cap {"ladder", "max_output_tokens", "xml_tool_calling"} = {}
        /\ "tool_calling" \in Members(Wave1)
    BY WavesAssumption DEF Probes
  <1> HIDE DEF Members
  <1> QED
    BY <1>1, PhaseMembers DEF Past, ToCome, Calls, Probes

\* A skipped call costs the run nothing.
LEMMA SkipsAreStorable ==
    \A c : CallCacheable(c, SkipAnswer(c)) /\ SkipAnswer(c).kind = "Skip"
  BY DEF CallCacheable, SkipAnswer, Skip, LadderCacheable, MaxOutputCacheable,
         ResolvesCacheable, Answered

\* The calls of a later phase are never skipped calls answered early.
LEMMA BeginOutcome ==
    ASSUME TypeOK, NEW ph \in Busy, NEW answers \in AnswersSoFar, Begin(ph, answers), conf' = conf,
           \A c \in Past(ph) : answers[c] # NoAnswer,
           \A c \in Past(ph) : answers[c].kind = "Skip" <=> Skipped(c),
           \A c \in Members(PhaseCalls(ph)) : answers[c] = NoAnswer,
           cacheable' <=> \A c \in Past(ph) : CallCacheable(c, answers[c]),
           ph = "xml" => ResolvedRow("tool_calling", answers["tool_calling"]).level # "Strong"
    PROVE  OutcomeInv'
  <1> DEFINE all == Members(PhaseCalls(ph))
  <1>1. phase' = ph /\ answer' = [c \in Calls |->
            IF c \in all /\ Skipped(c) THEN SkipAnswer(c) ELSE answers[c]]
    BY DEF Begin
  <1>2. all \subseteq Calls /\ Past(ph) \cap all = {} /\ Past(ph) \subseteq Calls
    BY PhaseCallsAreCalls DEF Past
  <1>3. \A c \in Past(ph) : answer'[c] = answers[c]
    BY <1>1, <1>2
  <1>4. \A c \in all : answer'[c].kind = "Skip" <=> Skipped(c)
    BY <1>1, <1>2, SkipsAreStorable DEF NoAnswer
  <1>5. \A c : Skipped(c)' <=> Skipped(c)
    BY DEF Skipped
  <1>6. Calls \ ToCome(ph) \subseteq Past(ph) \cup all
    BY DEF Past
  <1>7. ph = "xml" => answer'["tool_calling"] = answers["tool_calling"]
    BY <1>3, PastOf
  <1>8. Past(ph)' = Past(ph) /\ ToCome(ph)' = ToCome(ph)
    BY DEF Past, ToCome, PhaseCalls
  <1>9. ph # "done"
    BY DEF Busy
  <1>10. \A c \in Calls \ ToCome(ph) : answer'[c].kind = "Skip" <=> Skipped(c)
    BY <1>3, <1>4, <1>6
  <1>11. cacheable' <=> \A c \in Past(ph) : CallCacheable(c, answer'[c])
    BY <1>3
  <1>12. \A c \in Past(ph) : answer'[c] # NoAnswer
    BY <1>3
  <1>13. ph = "xml" => ResolvedRow("tool_calling", answer'["tool_calling"]).level # "Strong"
    BY <1>7
  <1>14. Storable' <=> \A c \in Past(ph) : CallCacheable(c, answer'[c])
    BY <1>1 DEF Storable, Past, ToCome, PhaseCalls
  <1>15. NativeToolsStrong' <=> ResolvedRow("tool_calling", answer'["tool_calling"]).level = "Strong"
    BY DEF NativeToolsStrong
  <1> HIDE DEF all
  <1> QED
    BY <1>1, <1>5, <1>9, <1>10, <1>11, <1>12, <1>13, <1>14, <1>15 DEF OutcomeInv

LEMMA OutcomeInit == Init => OutcomeInv
  BY DEF Init, OutcomeInv, Busy

\* When a phase is over, its answers join the earlier ones.
LEMMA OverIsTaken ==
    ASSUME TypeInv, AccountInv, OutcomeInv, phase \in Busy, PhaseOver
    PROVE  /\ \A c \in Past(phase) \cup Members(PhaseCalls(phase)) :
                 answer[c] # NoAnswer /\ (answer[c].kind = "Skip" <=> Skipped(c))
           /\ Taken <=> \A c \in Past(phase) \cup Members(PhaseCalls(phase)) :
                            CallCacheable(c, answer[c])
  <1>1. \A c \in Members(PhaseCalls(phase)) : answer[c] # NoAnswer
    BY DEF AccountInv, PhaseOver
  <1>2. \A c \in Past(phase) : answer[c] # NoAnswer
    BY DEF OutcomeInv
  <1>3. Past(phase) \cup Members(PhaseCalls(phase)) \subseteq Calls \ ToCome(phase)
    BY PhaseCallsAreCalls, ToComeApart DEF Past, Busy
  <1>4. \A c \in Calls \ ToCome(phase) : answer[c].kind = "Skip" <=> Skipped(c)
    BY DEF OutcomeInv
  <1>5. cacheable <=> \A c \in Past(phase) : CallCacheable(c, answer[c])
    BY DEF OutcomeInv, Storable
  <1> QED
    BY <1>1, <1>2, <1>3, <1>4, <1>5 DEF Taken

LEMMA OutcomeStep ==
    TypeInv /\ AccountInv /\ OutcomeInv /\ [Next]_vars => OutcomeInv'
  <1> SUFFICES ASSUME TypeInv, AccountInv, OutcomeInv, [Next]_vars PROVE OutcomeInv'
    OBVIOUS
  <1>t. TypeOK /\ PhaseInv
    BY DEF TypeInv
  <1>1. CASE StartRun
    <2>1. Unasked \in AnswersSoFar /\ \A c \in Calls : Unasked[c] = NoAnswer
      BY DEF Unasked, AnswersSoFar
    <2>2. Begin("wave1", Unasked) /\ conf' = conf /\ cacheable' = TRUE
      BY <1>1 DEF StartRun
    <2>3. Members(PhaseCalls("wave1")) \subseteq Calls /\ "wave1" \in Busy
      BY PhaseCallsAreCalls DEF Busy
    <2> QED
      BY <1>t, <2>1, <2>2, <2>3, PastOf, BeginOutcome
  <1>2. CASE RejectIdentity \/ AbortRun
    BY <1>2 DEF RejectIdentity, AbortRun, OutcomeInv, Busy
  <1>3. ASSUME NEW c \in running, NEW a \in Answers, a.kind # "Skip", EndCall(c, a)
        PROVE  OutcomeInv'
    <2>1. UNCHANGED <<conf, phase, cacheable>> /\ answer' = [answer EXCEPT ![c] = a]
      BY <1>3 DEF EndCall
    <2>2. c \in Members(PhaseCalls(phase)) /\ c \in Calls /\ phase \in Busy
      BY <1>t, PhaseMembers DEF PhaseInv, TypeOK, Busy
    <2>3. c \notin Past(phase)
      BY <2>2 DEF Past
    <2>4. /\ \A d \in Past(phase) : answer'[d] = answer[d]
          /\ \A d \in Calls \ {c} : answer'[d] = answer[d]
          /\ answer'[c] = a
      BY <1>t, <2>1, <2>2, <2>3 DEF TypeOK, AnswersSoFar, Past
    <2>5. answer[c] = NoAnswer /\ c \notin ToCome(phase)
      BY <2>2, ToComeApart DEF AccountInv, Busy
    <2>6. ~Skipped(c)
      BY <2>2, <2>5 DEF OutcomeInv, NoAnswer
    <2>7. phase = "xml" => answer'["tool_calling"] = answer["tool_calling"]
      BY <2>4, PastOf
    <2>8. \A d : Skipped(d)' <=> Skipped(d)
      BY <2>1 DEF Skipped
    <2>9. /\ \A d \in Past(phase) : answer'[d] # NoAnswer
          /\ Storable' <=> Storable
          /\ phase = "xml" => ~NativeToolsStrong'
          /\ \A d \in Calls \ ToCome(phase) : answer'[d].kind = "Skip" <=> Skipped(d)
      <3>1. \A d \in Past(phase) : answer'[d] # NoAnswer
        BY <2>2, <2>4 DEF OutcomeInv
      <3>2. Storable' <=> Storable
        BY <2>1, <2>4 DEF Storable, Past, ToCome, PhaseCalls
      <3>3. phase = "xml" => ~NativeToolsStrong'
        BY <2>7 DEF OutcomeInv, NativeToolsStrong
      <3>4. \A d \in Calls \ ToCome(phase) : answer'[d].kind = "Skip" <=> Skipped(d)
        BY <1>3, <2>2, <2>4, <2>6 DEF OutcomeInv
      <3> QED
        BY <3>1, <3>2, <3>3, <3>4
    <2>10. phase # "done" /\ phase' = phase /\ cacheable' = cacheable
      BY <2>1, <2>2 DEF Busy
    <2>11. Past(phase)' = Past(phase) /\ ToCome(phase)' = ToCome(phase)
      BY <2>1 DEF Past, ToCome, PhaseCalls
    <2>12. cacheable <=> Storable
      BY <2>2 DEF OutcomeInv
    <2> QED
      BY <2>2, <2>8, <2>9, <2>10, <2>11, <2>12 DEF OutcomeInv
  <1>s. UNCHANGED <<conf, phase, answer, cacheable>> => OutcomeInv'
    BY DEF OutcomeInv, Storable, NativeToolsStrong, Skipped, Past, ToCome, PhaseCalls
  <1>4. CASE Respond \/ RungPasses \/ RungMisses \/ RungFails
    <2>1. \/ \E c \in running, a \in Answers : a.kind # "Skip" /\ EndCall(c, a)
          \/ UNCHANGED <<conf, phase, answer, cacheable>>
      <3>1. /\ Fail("Transient", {}) \in Answers /\ Fail("Transient", {}).kind # "Skip"
            /\ Ok("none") \in Answers /\ Ok("none").kind # "Skip"
        BY AnswerTypes DEF Fail, Ok
      <3>2. \A c \in running : \A a \in CallAnswers[c] : a \in Answers /\ a.kind # "Skip"
        BY <1>t, AnswersAssumption DEF TypeOK
      <3> QED
        BY <1>4, <3>1, <3>2 DEF Respond, RungPasses, RungMisses, RungFails
    <2> QED
      BY <1>3, <1>s, <2>1
  <1>5. CASE Acquire \/ Persist \/ UNCHANGED vars
    BY <1>5, <1>s DEF Acquire, Persist, vars
  <1>6. ASSUME NEW from \in Busy, NEW to \in Busy, TakeAndBegin(from, to),
               Past(to) = Past(from) \cup Members(PhaseCalls(from)),
               Members(PhaseCalls(to)) \subseteq ToCome(from),
               to = "xml" => ~NativeToolsStrong
        PROVE  OutcomeInv'
    <2>1. phase = from /\ PhaseOver /\ cacheable' = Taken /\ Begin(to, answer) /\ conf' = conf
      BY <1>6 DEF TakeAndBegin
    <2>2. \A c \in Members(PhaseCalls(to)) : answer[c] = NoAnswer
      BY <1>6, <2>1 DEF AccountInv
    <2>3. /\ \A c \in Past(to) : answer[c] # NoAnswer /\ (answer[c].kind = "Skip" <=> Skipped(c))
          /\ Taken <=> \A c \in Past(to) : CallCacheable(c, answer[c])
      BY <1>6, <2>1, OverIsTaken
    <2>4. to = "xml" => ResolvedRow("tool_calling", answer["tool_calling"]).level # "Strong"
      BY <1>6 DEF NativeToolsStrong
    <2>5. answer \in AnswersSoFar
      BY <1>t DEF TypeOK
    <2> QED
      BY <1>6, <1>t, <2>1, <2>2, <2>3, <2>4, <2>5, BeginOutcome
  <1>7. CASE TakeWave1 \/ TakeWave2 \/ TakeLadder \/ TakeMaxOutput
    <2>1. /\ Members(PhaseCalls("wave2")) \subseteq ToCome("wave1")
          /\ Members(PhaseCalls("ladder")) \subseteq ToCome("wave2")
          /\ Members(PhaseCalls("max_output")) \subseteq ToCome("ladder")
          /\ Members(PhaseCalls("xml")) \subseteq ToCome("max_output")
      BY PhaseMembers DEF ToCome
    <2>2. Busy = {"wave1", "wave2", "ladder", "max_output", "xml"}
      BY DEF Busy
    <2>3. CASE TakeWave1
      BY <2>1, <2>2, <2>3, <1>6, PastOf DEF TakeWave1
    <2>4. CASE TakeWave2
      BY <2>1, <2>2, <2>4, <1>6, PastOf DEF TakeWave2
    <2>5. CASE TakeLadder
      BY <2>1, <2>2, <2>5, <1>6, PastOf DEF TakeLadder
    <2>6. CASE TakeMaxOutput
      BY <2>1, <2>2, <2>6, <1>6, PastOf DEF TakeMaxOutput
    <2> QED
      BY <1>7, <2>3, <2>4, <2>5, <2>6
  <1>8. CASE Finish
    <2>1. /\ phase \in {"max_output", "xml"} /\ PhaseOver
          /\ phase' = "done" /\ UNCHANGED <<conf, answer>>
      BY <1>8 DEF Finish
    <2>2. \A c \in Calls \ {"xml_tool_calling"} :
              answer[c] # NoAnswer /\ (answer[c].kind = "Skip" <=> Skipped(c))
      <3>1. Calls \ {"xml_tool_calling"} \subseteq Past(phase) \cup Members(PhaseCalls(phase))
        BY <2>1, PastOf
      <3> QED
        BY <2>1, <3>1, OverIsTaken DEF Busy
    <2>3. answer["xml_tool_calling"].kind = "Skip" <=> Skipped("xml_tool_calling")
      <3>1. CASE phase = "xml"
        BY <2>1, <3>1, OverIsTaken, PhaseMembers DEF Busy
      <3>2. CASE phase = "max_output"
        <4>1. answer["xml_tool_calling"] = NoAnswer
          BY <3>2 DEF AccountInv, ToCome
        <4>2. ~Skipped("xml_tool_calling")
          BY DEF Skipped, Diagnostics, Promoted
        <4> QED
          BY <4>1, <4>2 DEF NoAnswer
      <3> QED
        BY <2>1, <3>1, <3>2
    <2>4. \A c : Skipped(c)' <=> Skipped(c)
      BY <2>1 DEF Skipped
    <2> QED
      BY <2>1, <2>2, <2>3, <2>4 DEF OutcomeInv, Busy
  <1> QED
    BY <1>1, <1>2, <1>4, <1>5, <1>7, <1>8 DEF Next, RunStep

\* A finished run of the program's own probes asked, of its joins and its
\* ladder, exactly what planned_probe_names announces for its suite and vision
\* choice.
THEOREM AskedWhatWasPlanned ==
    ASSUME Probes = Members(Join1) \cup Members(Join2)
    PROVE  Spec => []AskedAsPlanned
  <1>1. TypeInv /\ OutcomeInv => AskedAsPlanned
    <2> SUFFICES ASSUME TypeInv, OutcomeInv, phase = "done"
                 PROVE  {Announced(c) : c \in Asked} = PlannedNames(conf.suite, conf.vision = "yes")
      BY DEF AskedAsPlanned
    <2>1. conf.suite \in {"policy", "full", "all"}
      BY SettingsAssumption DEF TypeInv, TypeOK
    <2>2. Asked = {c \in Probes \cup {"ladder"} : ~Skipped(c)}
      <3>1. Calls \ {"max_output_tokens", "xml_tool_calling"} = Probes \cup {"ladder"}
        BY WavesAssumption DEF Calls
      <3> SUFFICES ASSUME NEW c \in Probes \cup {"ladder"}
                   PROVE  answer[c].kind # "None" /\ (answer[c].kind = "Skip" <=> Skipped(c))
        BY <3>1 DEF Asked
      <3>2. c \in Calls \ ToCome("done") /\ answer[c] # NoAnswer
        BY <3>1 DEF OutcomeInv, Calls, ToCome
      <3>3. answer[c] \in Answers
        BY <3>2 DEF TypeInv, TypeOK, AnswersSoFar
      <3>4. answer[c].kind # "None"
        BY <3>3 DEF Answers, ErrorKinds
      <3> QED
        BY <3>2, <3>4 DEF OutcomeInv
    <2>3. Probes =
            {"tool_calling", "json_output", "instruction_following", "search_replace",
             "unified_diff", "complex_tool_calling", "nested_arguments", "tool_selection",
             "streaming_tool_calls", "code_syntax", "max_tokens_compliance",
             "system_message_adherence", "token_efficiency", "parallel_tool_scale", "vision",
             "one_shot_tool_plan", "multi_turn_task_sequencing", "multi_turn_memory"}
      BY DEF Members, Join1, Join2
    <2>4. \A c \in Probes : Announced(c) = c
      BY <2>3 DEF Announced
    <2>5. Announced("ladder") = "context_faithfulness" /\ ~Skipped("ladder")
      BY DEF Announced, Skipped, Diagnostics, Promoted
    <2>6. {Announced(c) : c \in Asked} =
              {c \in Probes : ~Skipped(c)} \cup {"context_faithfulness"}
      BY <2>2, <2>4, <2>5
    <2>7. {c \in Probes : ~Skipped(c)} \cup {"context_faithfulness"}
              = PlannedNames(conf.suite, conf.vision = "yes")
      <3>1. CASE conf.suite = "policy"
        BY <2>3, <3>1 DEF Skipped, PlannedNames, Diagnostics, Promoted
      <3>2. CASE conf.suite = "full"
        BY <2>3, <3>2 DEF Skipped, PlannedNames, Diagnostics, Promoted
      <3>3. CASE conf.suite = "all"
        BY <2>3, <3>3 DEF Skipped, PlannedNames, Diagnostics, Promoted
      <3> QED
        BY <2>1, <3>1, <3>2, <3>3
    <2> QED
      BY <2>6, <2>7
  <1> QED
    BY <1>1, TypeInit, TypeStep, AccountInit, AccountStep, OutcomeInit, OutcomeStep, PTL DEF Spec
----------------------------------------------------------------------------
(* run_detailed implements SuiteVerdict.                                   *)

\* The operators that both modules take from ProbeErrors are the same.
LEMMA SameReadings ==
    /\ Verdict!NoAnswer = NoAnswer /\ Verdict!Unasked = Unasked
    /\ Verdict!NoRun = CallersView(NoRun)
    /\ \A a : Verdict!Aborts(a) <=> Aborts(a)
    /\ Verdict!Answers = Answers
    /\ \A c, a : Verdict!FinalAnswer(c, a) <=> CallCacheable(c, a)
    /\ \A c, p : Verdict!Inferred(c, p) <=>
          c = "xml_tool_calling"
              /\ ResolvedRow("tool_calling", p["tool_calling"]).level = "Strong"
  <1>1. Verdict!NoAnswer = NoAnswer /\ Verdict!Unasked = Unasked
    BY DEF Verdict!NoAnswer, NoAnswer, Verdict!Unasked, Unasked
  <1>2. Verdict!NoRun = CallersView(NoRun)
    BY <1>1 DEF Verdict!NoRun, CallersView, NoRun
  <1>3. \A a : Verdict!Aborts(a) <=> Aborts(a)
    BY DEF Verdict!Aborts, Aborts
  <1>4. Verdict!Answers = Answers
    BY DEF Verdict!Answers, Answers, Verdict!Levels, Levels, Verdict!ErrorKinds, ErrorKinds,
           Verdict!Phrases, Phrases
  <1>5. \A a, phrase : Verdict!Says(a, phrase) <=> Says(a, phrase)
    BY DEF Verdict!Says, Says
  <1>6. Verdict!ToolProbes = ToolProbes
    BY DEF Verdict!ToolProbes, ToolProbes
  <1>7. \A c, a : Verdict!CompletedWeak(c, a) <=> CompletedWeak(c, a)
    BY <1>5, <1>6 DEF Verdict!CompletedWeak, CompletedWeak
  <1>8. \A a : Verdict!Answered(a) <=> Answered(a)
    BY DEF Verdict!Answered, Answered
  <1>9. \A c, a : Verdict!ResolvesCacheable(c, a) <=> ResolvesCacheable(c, a)
    BY <1>5, <1>7, <1>8 DEF Verdict!ResolvesCacheable, ResolvesCacheable
  <1>10. \A a : Verdict!LadderCacheable(a) <=> LadderCacheable(a)
    BY <1>3, <1>9 DEF Verdict!LadderCacheable, LadderCacheable, Verdict!WindowRejection,
                      WindowRejection
  <1>11. \A a : Verdict!MaxOutputCacheable(a) <=> MaxOutputCacheable(a)
    BY <1>9 DEF Verdict!MaxOutputCacheable, MaxOutputCacheable
  <1>12. \A c, a : Verdict!FinalAnswer(c, a) <=> CallCacheable(c, a)
    BY <1>9, <1>10, <1>11 DEF Verdict!FinalAnswer, CallCacheable
  <1>13. \A c, a : Verdict!ResolvedRow(c, a) = ResolvedRow(c, a)
    BY <1>7 DEF Verdict!ResolvedRow, ResolvedRow
  <1>14. \A c, p : Verdict!Inferred(c, p) <=>
            c = "xml_tool_calling"
                /\ ResolvedRow("tool_calling", p["tool_calling"]).level = "Strong"
    BY <1>13 DEF Verdict!Inferred
  <1> QED
    BY <1>1, <1>2, <1>3, <1>4, <1>12, <1>14

\* The calls are taken at positive positions.
LEMMA TakingPositions == \A i \in DOMAIN TakingOrder : i \in Nat \ {0} /\ TakingOrder[i] \in Calls
  <1>1. ASSUME NEW w \in Seq(STRING), Members(w) \subseteq Calls
        PROVE  w \in Seq(Calls)
    <2>1. Len(w) \in Nat /\ DOMAIN w = 1..Len(w) /\ w = [i \in 1..Len(w) |-> w[i]]
      OBVIOUS
    <2>2. \A i \in 1..Len(w) : w[i] \in Calls
      BY <1>1, <2>1 DEF Members
    <2>3. w \in [1..Len(w) -> Calls]
      BY <2>1, <2>2
    <2> QED
      BY <2>1, <2>3, SeqDef
  <1>2. Wave1 \in Seq(Calls) /\ Wave2 \in Seq(Calls)
    BY <1>1, WavesAssumption DEF Calls, Probes
  <1>3. Tail3 \in Seq(Calls)
    <2>1. Tail3 \in [1..3 -> Calls]
      <3>1. \A i \in 1..3 : Tail3[i] \in Calls
        BY TailFacts DEF Calls
      <3>2. Tail3 = [i \in 1..3 |-> Tail3[i]]
        BY DEF Tail3
      <3> QED
        BY <3>1, <3>2
    <2> QED
      BY <2>1, SeqDef
  <1>4. Wave1 \o Wave2 \in Seq(Calls)
    BY <1>2, Joined
  <1>5. TakingOrder = (Wave1 \o Wave2) \o Tail3
    BY <1>2, TailFacts DEF TakingOrder, Tail3
  <1>6. TakingOrder \in Seq(Calls)
    BY <1>3, <1>4, <1>5, Joined, Zenon
  <1> QED
    BY <1>6

\* A finished run's flag is that of its answers, XML left out where inferred.
LEMMA FinishedFlag ==
    ASSUME TypeInv, AccountInv, OutcomeInv, Finish
    PROVE  /\ \A c \in Calls : answer[c] = NoAnswer
                  <=> c = "xml_tool_calling" /\ NativeToolsStrong
           /\ Taken <=> \A c \in Calls :
                  (c = "xml_tool_calling" /\ NativeToolsStrong) \/ CallCacheable(c, answer[c])
  <1>1. phase \in {"max_output", "xml"} /\ PhaseOver /\ phase \in Busy
    BY DEF Finish, Busy
  <1>2. /\ \A c \in Past(phase) \cup Members(PhaseCalls(phase)) : answer[c] # NoAnswer
        /\ Taken <=> \A c \in Past(phase) \cup Members(PhaseCalls(phase)) :
                         CallCacheable(c, answer[c])
    BY <1>1, OverIsTaken
  <1>3. CASE phase = "xml"
    <2>1. ~NativeToolsStrong
      BY <1>3 DEF OutcomeInv
    <2>2. Past(phase) \cup Members(PhaseCalls(phase)) = Calls
      BY <1>3, PastOf, PhaseMembers DEF Calls
    <2> QED
      BY <1>2, <2>1, <2>2
  <1>4. CASE phase = "max_output"
    <2>1. NativeToolsStrong
      BY <1>4 DEF Finish
    <2>2. Past(phase) \cup Members(PhaseCalls(phase)) = Calls \ {"xml_tool_calling"}
      BY <1>4, PastOf
    <2>3. answer["xml_tool_calling"] = NoAnswer
      BY <1>4 DEF AccountInv, ToCome
    <2> QED
      BY <1>2, <2>1, <2>2, <2>3
  <1> QED
    BY <1>1, <1>3, <1>4

\* The first state is one of SuiteVerdict's.
LEMMA VerdictInit == Init => Verdict!Init
  BY SameReadings DEF Init, Verdict!Init, Resting

\* Starting, refusing, aborting, finishing and storing are SuiteVerdict's
\* actions; what lies inside a run does not show.
LEMMA VerdictStep ==
    TypeInv /\ AccountInv /\ PastInv /\ RunsInv /\ OutcomeInv /\ TypeInv' /\ PastInv'
        /\ [Next]_vars => [Verdict!Next]_(Verdict!vars)
  <1> SUFFICES ASSUME TypeInv, AccountInv, PastInv, RunsInv, OutcomeInv, TypeInv', PastInv',
                      [Next]_vars
               PROVE  [Verdict!Next]_(Verdict!vars)
    OBVIOUS
  <1>t. TypeOK /\ TypeOK' /\ answer' \in [Calls -> Answers \cup {NoAnswer}]
    BY DEF TypeInv, TypeOK, AnswersSoFar
  <1>r. (Resting <=> phase \notin Busy) /\ (Resting' <=> phase' \notin Busy)
    BY <1>t DEF TypeOK, Resting, Busy
  <1>1. CASE StartRun
    <2>1. /\ Resting /\ ~Resting' /\ runs < MaxRuns /\ runs' = runs + 1 /\ verdict' = "none"
          /\ UNCHANGED <<lastRun, stored>>
      BY <1>1 DEF StartRun, Begin, Resting
    <2>2. Verdict!BeginRun
      BY <2>1, SameReadings DEF Verdict!BeginRun, CallersView
    <2> QED
      BY <2>2 DEF Verdict!Next
  <1>2. CASE RejectIdentity
    <2>1. /\ Resting /\ Resting' /\ runs < MaxRuns /\ runs' = runs + 1 /\ verdict' = "Internal"
          /\ UNCHANGED <<answer, lastRun, stored>>
      BY <1>2 DEF RejectIdentity, Resting
    <2>2. Verdict!RefuseIdentity
      BY <2>1 DEF Verdict!RefuseIdentity, CallersView
    <2> QED
      BY <2>2 DEF Verdict!Next
  <1>3. CASE Inside
    <2>1. ~Resting /\ ~Resting' /\ UNCHANGED <<verdict, runs, lastRun, stored>>
      BY <1>3, <1>r, InsideRun
    <2>2. UNCHANGED Verdict!vars
      BY <2>1 DEF Verdict!vars, CallersView, Unasked, NoAnswer
    <2> QED
      BY <2>2
  <1>4. CASE AbortRun
    <2>1. /\ phase' = "aborted" /\ Resting' /\ UNCHANGED <<conf, answer, runs, lastRun, stored>>
      BY <1>4 DEF AbortRun, Resting
    <2>2. ~Resting /\ conf.identified
      <3>1. phase \in Busy
        BY <1>4, <1>t, PhaseMembers DEF AbortRun, AbortingCalls, Members, TypeOK, Busy
      <3> QED
        BY <3>1, <1>r DEF RunsInv
    <2>3. PICK i \in DOMAIN TakingOrder :
              /\ Aborts(answer'[TakingOrder[i]])
              /\ verdict' = answer'[TakingOrder[i]].kind
              /\ \A j \in 1..(i - 1) : ~Aborts(answer'[TakingOrder[j]])
      <3>1. TakingOrder' = TakingOrder
        BY DEF TakingOrder
      <3> QED
        BY <2>1, <2>2, <3>1 DEF PastInv, VerdictIgnoresCompletionOrder
    <2>4. i \in Verdict!Aborting(answer')
      BY <2>3, SameReadings DEF Verdict!Aborting
    <2>5. \A j \in Verdict!Aborting(answer') : i <= j
      <3> SUFFICES ASSUME NEW j \in Verdict!Aborting(answer') PROVE i <= j
        OBVIOUS
      <3>1. j \in DOMAIN TakingOrder /\ Aborts(answer'[TakingOrder[j]])
        BY SameReadings DEF Verdict!Aborting
      <3>2. j \notin 1..(i - 1)
        BY <2>3, <3>1
      <3> QED
        BY <3>1, <3>2, TakingPositions
    <2>6. Verdict!Abort
      BY <1>t, <2>1, <2>2, <2>3, <2>4, <2>5, SameReadings DEF Verdict!Abort, CallersView
    <2> QED
      BY <2>6 DEF Verdict!Next
  <1>5. CASE Finish
    <2>1. /\ phase \in Busy /\ ~Resting /\ Resting' /\ phase' = "done"
          /\ UNCHANGED <<answer, verdict, runs, stored>>
          /\ lastRun'.run = runs /\ lastRun'.cacheable = Taken /\ lastRun'.answer = answer
      BY <1>5, <1>r DEF Finish, Busy
    <2>2. Verdict!Aborting(answer') = {}
      <3>1. \A c \in Calls : ~Aborts(answer'[c])
        BY <2>1 DEF PastInv, VerdictIgnoresCompletionOrder
      <3> QED
        BY <3>1, TakingPositions, SameReadings DEF Verdict!Aborting
    <2>3. \A c \in Calls : Verdict!Inferred(c, answer') <=> answer'[c] = NoAnswer
      BY <1>5, <2>1, FinishedFlag, SameReadings DEF NativeToolsStrong
    <2>4. Taken <=> \A c \in Calls :
              Verdict!Inferred(c, answer') \/ Verdict!FinalAnswer(c, answer'[c])
      BY <1>5, <2>1, FinishedFlag, SameReadings DEF NativeToolsStrong
    <2>5. CallersView(lastRun)' = [run |-> runs, answer |-> answer',
              cacheable |-> \A c \in Calls :
                  Verdict!Inferred(c, answer') \/ Verdict!FinalAnswer(c, answer'[c])]
      <3>1. Taken \in BOOLEAN
        BY <1>t DEF Taken
      <3>2. Taken = \A c \in Calls :
                Verdict!Inferred(c, answer') \/ Verdict!FinalAnswer(c, answer'[c])
        BY <2>4, <3>1
      <3> QED
        BY <2>1, <3>2 DEF CallersView
    <2>6. Verdict!Profile
      BY <1>t, <2>1, <2>2, <2>3, <2>5, SameReadings DEF Verdict!Profile, CallersView
    <2> QED
      BY <2>6 DEF Verdict!Next
  <1>6. CASE Persist
    <2>1. /\ lastRun.run > 0 /\ lastRun.cacheable /\ stored' = lastRun
          /\ UNCHANGED <<phase, answer, verdict, runs, lastRun>>
      BY <1>6 DEF Persist
    <2>2. Verdict!Store
      BY <2>1 DEF Verdict!Store, CallersView, Resting, Unasked, NoAnswer
    <2> QED
      BY <2>2 DEF Verdict!Next
  <1>7. CASE UNCHANGED vars
    BY <1>7 DEF vars, Verdict!vars, CallersView, Resting, Unasked, NoAnswer
  <1> QED
    BY <1>1, <1>2, <1>3, <1>4, <1>5, <1>6, <1>7 DEF Next, RunStep, Inside

\* Two joins of concurrent probes, a ladder and a shared semaphore give the
\* caller the verdict that asking one call after the other would
\* (run_detailed): every behaviour of ProbeSuite is one of SuiteVerdict.
THEOREM ImplementsSuiteVerdict == Spec => ImplementsVerdict
  <1> QED
    BY TypeInit, TypeStep, AccountInit, AccountStep, PastInit, PastStep, RunsInit, RunsStep,
       OutcomeInit, OutcomeStep, VerdictInit, VerdictStep, PTL
    DEF Spec, ImplementsVerdict, Verdict!Spec
=============================================================================
