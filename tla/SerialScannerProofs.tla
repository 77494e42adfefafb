------------------------- MODULE SerialScannerProofs -------------------------
(***************************************************************************)
(* The safety properties of TaskGroup, by itself and with a SerialScanner  *)
(* that starts its tasks: for every finite set of ports, every choice of   *)
(* retries and tokens, and however often devices come and go.              *)
(***************************************************************************)
EXTENDS SerialScanner, FiniteSetTheorems, WellFoundedInduction, TLAPS

(* The task group.  The fields of a task, as TypeOK gives them. *)
TaskType ==
  [pc : {"new", "queued"} \union Holding \union Over,
   attempt : 0..(MaxRetries + 1), expected : Nat,
   rebooted : BOOLEAN, retrying : BOOLEAN, success : BOOLEAN,
   runs : 0..(MaxRetries + 1), announced : Nat, reasons : Nat]

(* The runs of a task that failed so far. *)
FailedRuns(t) == t.runs - (IF t.pc \in {"running", "done"} THEN 1 ELSE 0)

(* What is true of one task and its error: the attempts are counted from   *)
(* the start, an operation that was announced to fail knows it while it    *)
(* runs, and its failures are accounted for.                               *)
TaskOK(t, logged) ==
  /\ t.pc \in {"new", "queued"} => t.runs = t.attempt /\ t.attempt <= MaxRetries
  /\ t.pc \in Holding => t.runs = t.attempt + 1
  /\ t.pc = "failed" => t.attempt = MaxRetries + 1 /\ logged
  /\ t.pc = "running" /\ t.expected > 0 => t.retrying
  /\ t.pc # "cancelled" => FailedRuns(t) = t.reasons + (t.announced - t.expected)

(* The inductive invariant. *)
Inv ==
  /\ TypeOK
  /\ \A p \in Ports : TaskOK(task[p], p \in errors)
  /\ TokensAreExact
  /\ LinesAgreeWithLog

(* The inductive invariant contains the properties that the run checks. *)
LEMMA InvImpliesProperties ==
  Inv => TypeOK /\ TokensAreExact /\ AttemptsAreCounted /\ FailuresAreReported
<1> SUFFICES ASSUME Inv PROVE AttemptsAreCounted /\ FailuresAreAccounted
  BY DEF Inv, FailuresAreReported
<1>1. ASSUME NEW p \in Ports PROVE TaskOK(task[p], p \in errors)
  BY DEF Inv
<1> QED
  BY <1>1 DEF TaskOK, FailedRuns, AttemptsAreCounted, FailuresAreAccounted, Holding

(* A target is a name and a number. *)
LEMMA Targets ==
  ASSUME NEW p \in Ports
  PROVE  p[1] \in Names /\ p[2] \in Nat \ {0} /\ p = << p[1], p[2] >>
BY TaskGroupAssumption

(* No task has begun and no token is out when the group starts. *)
LEMMA InitInv == Init => Inv
<1> SUFFICES ASSUME Init PROVE Inv
  OBVIOUS
<1> USE TaskGroupAssumption
<1>1. TypeOK
  <2>1. NewTask \in TaskType
    BY DEF NewTask, TaskType, Holding, Over
  <2>2. task \in [Ports -> TaskType]
    BY <2>1 DEF Init
  <2> QED
    BY <2>2 DEF Init, TypeOK, TaskType, Texts
<1>2. ASSUME NEW p \in Ports PROVE TaskOK(task[p], p \in errors)
  BY DEF Init, TaskOK, FailedRuns, NewTask, Holding
<1>3. TokensAreExact
  <2>1. borrowers = {p \in Ports : task[p].pc \in Holding}
    BY DEF Init, NewTask, Holding
  <2>2. Cardinality(borrowers) = 0
    BY FS_EmptySet DEF Init
  <2> QED
    BY <2>1, <2>2 DEF TokensAreExact
<1>4. LinesAgreeWithLog
  BY DEF Init, LinesAgreeWithLog
<1> QED
  BY <1>1, <1>2, <1>3, <1>4 DEF Inv

(* Tokens given back or handed out keep to the limit. *)
LEMMA TokensAreBounded ==
  ASSUME NEW S \in SUBSET Ports, NEW p \in Ports
  PROVE  /\ Cardinality(S) \in Nat
         /\ Cardinality(S \ {p}) \in Nat
         /\ Cardinality(S \ {p}) <= Cardinality(S)
         /\ p \notin S => Cardinality(S \union {p}) = Cardinality(S) + 1
         /\ Cardinality({}) = 0
<1>1. IsFiniteSet(S)
  BY FS_Subset, TaskGroupAssumption
<1>2. Cardinality(S) \in Nat
  BY <1>1, FS_CardinalityType
<1>3. IsFiniteSet(S \ {p}) /\ Cardinality(S \ {p}) <= Cardinality(S)
  BY <1>1, FS_Subset, S \ {p} \subseteq S
<1>4. p \notin S => Cardinality(S \union {p}) = Cardinality(S) + 1
  BY <1>1, FS_AddElement
<1> QED
  BY <1>2, <1>3, <1>4, FS_EmptySet, FS_CardinalityType

(* A step that replaces the task of one target, the line of its name and   *)
(* its error, and hands over its token if need be, preserves the invariant *)
(* if what it puts there is right.                                         *)
LEMMA OneTargetStep ==
  ASSUME Inv, NEW p \in Ports,
         task' = [task EXCEPT ![p] = task'[p]], task'[p] \in TaskType,
         shown' = [shown EXCEPT ![p[1]] = shown'[p[1]]], shown'[p[1]] \in Texts,
         errors' \in {errors, errors \union {p}},
         TaskOK(task'[p], p \in errors'),
         task'[p].reasons >= task[p].reasons,
         TellsRetrying /\ shown'[p[1]] = "Failed" =>
           shown[p[1]] = "Failed" \/ task'[p].reasons > 0,
         cancelled' = cancelled,
         borrowers' \in SUBSET Ports,
         MaxConcurrency > 0 =>
           /\ borrowers' = IF task'[p].pc \in Holding THEN borrowers \union {p}
                                                     ELSE borrowers \ {p}
           /\ task'[p].pc \in Holding /\ p \notin borrowers => HasToken
  PROVE  Inv'
<1>0. \A q \in Ports \ {p} : task'[q] = task[q]
  BY DEF Inv, TypeOK
<1>1. TypeOK'
  BY Targets DEF Inv, TypeOK, TaskType
<1>2. ASSUME NEW q \in Ports PROVE TaskOK(task[q], q \in errors)'
  <2>1. CASE q = p
    BY <2>1
  <2>2. CASE q # p
    <3>1. (q \in errors') = (q \in errors)
      BY <2>2
    <3> QED
      BY <3>1, <2>2, <1>0 DEF Inv, TaskOK, FailedRuns
  <2> QED
    BY <2>1, <2>2
<1>3. TokensAreExact'
  <2> SUFFICES ASSUME MaxConcurrency > 0
               PROVE  /\ borrowers' = {q \in Ports : task'[q].pc \in Holding}
                      /\ Cardinality(borrowers') <= MaxConcurrency
    BY DEF TokensAreExact
  <2>1. borrowers = {q \in Ports : task[q].pc \in Holding} /\ Cardinality(borrowers) <= MaxConcurrency
    BY DEF Inv, TokensAreExact
  <2>2. \A q \in Ports \ {p} : task'[q] = task[q]
    BY DEF Inv, TypeOK
  <2>3. borrowers' = {q \in Ports : task'[q].pc \in Holding}
    BY <2>1, <2>2
  <2>4. MaxConcurrency \in Nat /\ borrowers \in SUBSET Ports
    BY TaskGroupAssumption DEF Inv, TypeOK
  <2>5. Cardinality(borrowers') <= MaxConcurrency
    <3>1. CASE task'[p].pc \notin Holding
      <4>1. borrowers' = borrowers \ {p}
        BY <3>1
      <4>2. /\ Cardinality(borrowers) \in Nat /\ Cardinality(borrowers \ {p}) \in Nat
            /\ Cardinality(borrowers \ {p}) <= Cardinality(borrowers)
        BY <2>4, TokensAreBounded
      <4> QED
        BY <4>1, <4>2, <2>1, <2>4
    <3>2. CASE task'[p].pc \in Holding /\ p \in borrowers
      <4>1. borrowers' = borrowers
        BY <3>2
      <4> QED
        BY <4>1, <2>1
    <3>3. CASE task'[p].pc \in Holding /\ p \notin borrowers
      BY <3>3, <2>1, <2>4, TokensAreBounded DEF HasToken
    <3> QED
      BY <3>1, <3>2, <3>3
  <2> QED
    BY <2>3, <2>5
<1>4. ASSUME NEW n \in Names, TellsRetrying, shown'[n] = "Failed"
      PROVE  \E q \in Ports : q[1] = n /\ task'[q].reasons > 0
  <2>1. CASE n = p[1] /\ task'[p].reasons > 0
    BY <2>1
  <2>2. CASE ~(n = p[1] /\ task'[p].reasons > 0)
    <3>1. shown[n] = "Failed"
      BY <1>4, <2>2 DEF Inv, TypeOK
    <3>2. PICK q \in Ports : q[1] = n /\ task[q].reasons > 0
      BY <1>4, <3>1 DEF Inv, LinesAgreeWithLog
    <3>3. task'[q].reasons > 0
      <4>1. CASE q = p
        <5>1. task[p].reasons \in Nat /\ task'[p].reasons \in Nat
          BY DEF Inv, TypeOK, TaskType
        <5> QED
          BY <4>1, <5>1, <3>2
      <4>2. CASE q # p
        BY <4>2, <3>2, <1>0
      <4> QED
        BY <4>1, <4>2
    <3> QED
      BY <3>2, <3>3
  <2> QED
    BY <2>1, <2>2
<1>5. LinesAgreeWithLog'
  BY <1>4 DEF LinesAgreeWithLog
<1> QED
  BY <1>1, <1>2, <1>3, <1>5 DEF Inv

------------------------------------------------------------------------------
(* One lemma per action. *)

(* What the invariant says of the target that an action is about. *)
LEMMA TargetFacts ==
  ASSUME Inv, NEW p \in Ports
  PROVE  /\ task[p] \in TaskType /\ TaskOK(task[p], p \in errors)
         /\ task \in [Ports -> TaskType] /\ shown \in [Names -> Texts]
         /\ p[1] \in Names
         /\ borrowers \in SUBSET Ports /\ MaxRetries \in Nat
         /\ MaxConcurrency > 0 => (p \in borrowers <=> task[p].pc \in Holding)
BY TaskGroupAssumption, Targets DEF Inv, TypeOK, TaskType, TokensAreExact

(* The line of a name is written by the task that shows something. *)
LEMMA ShowShows ==
  ASSUME Inv, NEW p \in Ports, NEW text \in Texts, Show(p, text)
  PROVE  /\ shown' = [shown EXCEPT ![p[1]] = shown'[p[1]]]
         /\ shown'[p[1]] \in Texts /\ shown'[p[1]] = text
BY TargetFacts DEF Show

(* The local variables of an operation are no part of what its task counts. *)
LEMMA EndedTask ==
  ASSUME NEW t \in TaskType
  PROVE  /\ Ended(t) \in TaskType
         /\ Ended(t).pc = t.pc /\ Ended(t).attempt = t.attempt
         /\ Ended(t).expected = t.expected /\ Ended(t).runs = t.runs
         /\ Ended(t).announced = t.announced /\ Ended(t).reasons = t.reasons
BY DEF Ended, TaskType

(* UploaderTaskGroup.start: the new task holds no token yet. *)
LEMMA StartStep == ASSUME Inv, NEW p \in Ports, Start(p) PROVE Inv'
<1>1. /\ task[p].pc = "new"
      /\ task' = [task EXCEPT ![p] = task'[p]]
      /\ task'[p] = [task[p] EXCEPT !.pc = "queued"]
  BY TargetFacts DEF Start
<1>2. task'[p] \in TaskType /\ task'[p].pc \notin Holding /\ task[p].pc \notin Holding
  BY <1>1, TargetFacts DEF TaskType, Holding
<1>3. TaskOK(task'[p], p \in errors') /\ task'[p].reasons >= task[p].reasons
  BY <1>1, TargetFacts DEF Start, TaskOK, FailedRuns, TaskType, Holding
<1>4. /\ shown' = [shown EXCEPT ![p[1]] = shown'[p[1]]]
      /\ shown'[p[1]] \in Texts /\ shown'[p[1]] = shown[p[1]]
  BY TargetFacts DEF Start
<1>5. MaxConcurrency > 0 => borrowers' = borrowers \ {p}
  BY <1>2, TargetFacts DEF Start
<1> QED
  BY <1>1, <1>2, <1>3, <1>4, <1>5, TargetFacts, OneTargetStep DEF Start

(* async with limiter: a token was free, and the attempt is counted. *)
LEMMA AcquireStep == ASSUME Inv, NEW p \in Ports, Acquire(p) PROVE Inv'
<1>1. /\ task[p].pc = "queued" /\ HasToken
      /\ task' = [task EXCEPT ![p] = task'[p]]
      /\ task'[p] = [task[p] EXCEPT !.pc = "running", !.runs = @ + 1,
                                   !.retrying = expecting_failure(task[p])]
  BY TargetFacts DEF Acquire
<1>2. expecting_failure(task[p]) \in BOOLEAN
  BY DEF expecting_failure
<1>3. task'[p] \in TaskType /\ task'[p].pc \in Holding /\ task[p].pc \notin Holding
  <2>1. task[p].runs = task[p].attempt /\ task[p].attempt <= MaxRetries
    BY <1>1, TargetFacts DEF TaskOK
  <2>2. task[p].runs + 1 \in 0..(MaxRetries + 1)
    BY <2>1, TargetFacts DEF TaskType
  <2>3. "running" \in {"new", "queued"} \union Holding \union Over
    BY DEF Holding
  <2>4. task'[p] \in TaskType
    BY <1>1, <1>2, <2>2, <2>3, TargetFacts, Zenon DEF TaskType
  <2> QED
    BY <1>1, <2>4, TargetFacts DEF TaskType, Holding
<1>4. TaskOK(task'[p], p \in errors') /\ task'[p].reasons >= task[p].reasons
  <2>1. /\ task'[p].pc = "running" /\ task'[p].runs = task[p].runs + 1
        /\ task'[p].attempt = task[p].attempt /\ task'[p].expected = task[p].expected
        /\ task'[p].announced = task[p].announced /\ task'[p].reasons = task[p].reasons
        /\ task'[p].retrying = expecting_failure(task[p])
    BY <1>1, TargetFacts DEF TaskType
  <2>2. /\ task[p].runs = task[p].attempt /\ task[p].runs \in Nat /\ task[p].reasons \in Nat
        /\ task[p].runs = task[p].reasons + (task[p].announced - task[p].expected)
    BY <1>1, TargetFacts DEF TaskOK, FailedRuns, TaskType
  <2>3. task'[p].expected > 0 => task'[p].retrying
    BY <2>1 DEF expecting_failure
  <2>4. FailedRuns(task'[p]) = task[p].runs
    BY <2>1, <2>2 DEF FailedRuns
  <2> QED
    BY <2>1, <2>2, <2>3, <2>4 DEF TaskOK, Holding
<1>5. /\ shown' = [shown EXCEPT ![p[1]] = shown'[p[1]]]
      /\ shown'[p[1]] \in Texts /\ shown'[p[1]] = "working"
  BY ShowShows DEF Acquire, Texts
<1>6. borrowers' \in SUBSET Ports
  BY TargetFacts DEF Acquire
<1>7. MaxConcurrency > 0 => borrowers' = borrowers \union {p}
  BY TaskGroupAssumption DEF Acquire
<1> QED
  BY <1>1, <1>3, <1>4, <1>5, <1>6, <1>7, OneTargetStep DEF Acquire

(* on_rebooted: the announced failures make the operation a retrying one,  *)
(* and add to those that are still announced.                              *)
LEMMA RebootedStep == ASSUME Inv, NEW p \in Ports, Rebooted(p) PROVE Inv'
<1>1. /\ task[p].pc = "running"
      /\ task' = [task EXCEPT ![p] = task'[p]]
      /\ task'[p] = [task[p] EXCEPT !.rebooted = TRUE, !.retrying = TRUE,
                        !.expected = task[p].expected + ExpectedAfterReboot,
                        !.announced = @ + ExpectedAfterReboot]
  BY TargetFacts DEF Rebooted, expect_failure
<1>2. task'[p] \in TaskType /\ task'[p].pc \in Holding /\ task[p].pc \in Holding
  <2>1. /\ task[p].expected + ExpectedAfterReboot \in Nat
        /\ task[p].announced + ExpectedAfterReboot \in Nat
    BY TargetFacts, TaskGroupAssumption DEF TaskType
  <2>2. task'[p] \in TaskType
    BY <1>1, <2>1, TargetFacts, Zenon DEF TaskType
  <2> QED
    BY <1>1, <2>2, TargetFacts DEF TaskType, Holding
<1>3. TaskOK(task'[p], p \in errors') /\ task'[p].reasons >= task[p].reasons
  <2>1. /\ task'[p].pc = "running" /\ task'[p].retrying
        /\ task'[p].runs = task[p].runs /\ task'[p].attempt = task[p].attempt
        /\ task'[p].reasons = task[p].reasons
        /\ task'[p].expected = task[p].expected + ExpectedAfterReboot
        /\ task'[p].announced = task[p].announced + ExpectedAfterReboot
    BY <1>1, TargetFacts DEF TaskType
  <2>2. /\ task[p].runs = task[p].attempt + 1
        /\ FailedRuns(task[p]) = task[p].reasons + (task[p].announced - task[p].expected)
    BY <1>1, TargetFacts DEF TaskOK, Holding
  <2>3. /\ task[p].expected \in Nat /\ task[p].announced \in Nat /\ task[p].reasons \in Nat
        /\ ExpectedAfterReboot \in Nat
    BY TargetFacts, TaskGroupAssumption DEF TaskType
  <2>4. FailedRuns(task'[p]) = FailedRuns(task[p])
    BY <1>1, <2>1 DEF FailedRuns
  <2>5. FailedRuns(task'[p]) = task'[p].reasons + (task'[p].announced - task'[p].expected)
    BY <2>1, <2>2, <2>3, <2>4
  <2> QED
    BY <2>1, <2>2, <2>3, <2>5 DEF TaskOK, Holding
<1>4. /\ shown' = [shown EXCEPT ![p[1]] = shown'[p[1]]]
      /\ shown'[p[1]] \in Texts /\ shown'[p[1]] = shown[p[1]]
  BY TargetFacts DEF Rebooted
<1>5. MaxConcurrency > 0 => p \in borrowers /\ borrowers' = borrowers \union {p}
  BY <1>2, TargetFacts DEF Rebooted
<1> QED
  BY <1>1, <1>2, <1>3, <1>4, <1>5, TargetFacts, OneTargetStep DEF Rebooted

(* A step that is reported changes the line only. *)
LEMMA ReportStep == ASSUME Inv, NEW p \in Ports, Report(p) PROVE Inv'
<1>1. task' = [task EXCEPT ![p] = task'[p]] /\ task'[p] = task[p]
  BY TargetFacts DEF Report
<1>2. /\ shown' = [shown EXCEPT ![p[1]] = shown'[p[1]]]
      /\ shown'[p[1]] \in Texts /\ shown'[p[1]] = "working"
  BY ShowShows DEF Report, Texts
<1>3. /\ task[p].pc \in Holding /\ errors' = errors
      /\ task[p].reasons \in Nat /\ task[p] \in TaskType
      /\ TaskOK(task'[p], p \in errors')
  BY <1>1, TargetFacts DEF Report, Holding, TaskType
<1>4. MaxConcurrency > 0 => p \in borrowers /\ borrowers' = borrowers \union {p}
  BY <1>3, TargetFacts DEF Report
<1> QED
  BY <1>1, <1>2, <1>3, <1>4, TargetFacts, OneTargetStep DEF Report

(* An operation that has completed still holds its token. *)
LEMMA CompleteStep == ASSUME Inv, NEW p \in Ports, Complete(p) PROVE Inv'
<1>1. /\ task[p].pc = "running"
      /\ task' = [task EXCEPT ![p] = task'[p]]
      /\ task'[p] = [task[p] EXCEPT !.success = TRUE]
  BY TargetFacts DEF Complete
<1>2. task'[p] \in TaskType /\ task'[p].pc \in Holding /\ task[p].pc \in Holding
  BY <1>1, TargetFacts DEF TaskType, Holding
<1>3. TaskOK(task'[p], p \in errors') /\ task'[p].reasons >= task[p].reasons
  BY <1>1, TargetFacts DEF Complete, TaskOK, FailedRuns, TaskType, Holding
<1>4. /\ shown' = [shown EXCEPT ![p[1]] = shown'[p[1]]]
      /\ shown'[p[1]] \in Texts /\ shown'[p[1]] = "Finished"
  BY ShowShows DEF Complete, Texts
<1>5. MaxConcurrency > 0 => p \in borrowers /\ borrowers' = borrowers \union {p}
  BY <1>2, TargetFacts DEF Complete
<1> QED
  BY <1>1, <1>2, <1>3, <1>4, <1>5, TargetFacts, OneTargetStep DEF Complete

(* The "finished" event writes one of four texts to the line, and "Failed" *)
(* only when no failure was announced and the operation has not completed. *)
LEMMA EndTexts ==
  ASSUME NEW t \in TaskType, NEW was_cancelled \in BOOLEAN
  PROVE  /\ EndText(t, was_cancelled) \in Texts
         /\ TellsRetrying /\ EndText(t, was_cancelled) = "Failed" =>
              ~t.retrying /\ ~t.success /\ ~was_cancelled
BY DEF EndText, Texts

(* The operation returns: the token is given back, the attempts stand. *)
LEMMA SucceedStep == ASSUME Inv, NEW p \in Ports, Succeed(p) PROVE Inv'
<1> DEFINE t == Ended(task[p])
<1>1. /\ task[p].pc = "running" /\ task[p].success
      /\ task' = [task EXCEPT ![p] = task'[p]]
      /\ task'[p] = [t EXCEPT !.pc = "done"]
  BY TargetFacts DEF Succeed
<1>2. /\ t \in TaskType /\ t.attempt = task[p].attempt /\ t.expected = task[p].expected
      /\ t.runs = task[p].runs /\ t.announced = task[p].announced
      /\ t.reasons = task[p].reasons
  BY TargetFacts, EndedTask
<1> HIDE DEF t
<1>3. task'[p] \in TaskType /\ task'[p].pc \notin Holding
  BY <1>1, <1>2 DEF TaskType, Holding, Over
<1>4. TaskOK(task'[p], p \in errors') /\ task'[p].reasons >= task[p].reasons
  BY <1>1, <1>2, TargetFacts DEF TaskOK, FailedRuns, TaskType, Holding
<1>5. EndText(task[p], FALSE) \in Texts /\ EndText(task[p], FALSE) = "Finished"
  BY <1>1 DEF EndText, Texts
<1>6. /\ shown' = [shown EXCEPT ![p[1]] = shown'[p[1]]]
      /\ shown'[p[1]] \in Texts /\ shown'[p[1]] = "Finished"
  BY <1>5, ShowShows DEF Succeed
<1>7. borrowers' \in SUBSET Ports /\ borrowers' = borrowers \ {p}
  BY TargetFacts DEF Succeed, Release
<1> QED
  BY <1>1, <1>3, <1>4, <1>6, <1>7, OneTargetStep DEF Succeed

(* What Retry leaves behind, whoever calls it: a run that failed has given *)
(* its reason, or has used up an announcement.                             *)
LEMMA RetryStep ==
  ASSUME Inv, NEW p \in Ports, NEW should_retry \in BOOLEAN, NEW given \in Nat,
         task[p].pc \in Holding, FailedRuns(task[p]) = task[p].runs - given,
         Retry(p, should_retry, given),
         shown' = [shown EXCEPT ![p[1]] = shown'[p[1]]], shown'[p[1]] \in Texts,
         shown'[p[1]] = shown[p[1]] \/ given > 0,
         cancelled' = cancelled
  PROVE  Inv'
<1> DEFINE next == NextAttempt(task[p], should_retry)
           t == Ended(task[p])
<1>1. /\ task' = [task EXCEPT ![p] = task'[p]]
      /\ task'[p] = [t EXCEPT !.attempt = next, !.reasons = @ + given,
                              !.pc = IF GoesOn(next) THEN "queued" ELSE "failed"]
  BY TargetFacts DEF Retry
<1>2. /\ t \in TaskType /\ t.expected = task[p].expected
      /\ t.runs = task[p].runs /\ t.announced = task[p].announced
      /\ t.reasons = task[p].reasons
  BY TargetFacts, EndedTask
<1>3. task[p].attempt \in 0..MaxRetries /\ task[p].runs = task[p].attempt + 1
  BY TargetFacts DEF TaskOK, TaskType, Holding
<1>4. /\ next \in 0..(MaxRetries + 1)
      /\ GoesOn(next) => next = task[p].runs
      /\ GoesOn(next) <=> next # MaxRetries + 1
  BY <1>3, TargetFacts DEF NextAttempt, GoesOn
<1>5. /\ errors' \in {errors, errors \union {p}}
      /\ ~GoesOn(next) => p \in errors'
      /\ borrowers' = borrowers \ {p} /\ borrowers' \in SUBSET Ports
  BY TargetFacts DEF Retry, Release
<1> HIDE DEF next, t
<1>6. /\ task'[p] \in TaskType /\ task'[p].attempt = next
      /\ task'[p].pc = (IF GoesOn(next) THEN "queued" ELSE "failed")
      /\ task'[p].expected = task[p].expected /\ task'[p].runs = task[p].runs
      /\ task'[p].announced = task[p].announced
      /\ task'[p].reasons = task[p].reasons + given
  <2>1. t.reasons + given \in Nat
    BY <1>2 DEF TaskType
  <2>2. (IF GoesOn(next) THEN "queued" ELSE "failed")
          \in {"new", "queued"} \union Holding \union Over
    BY DEF Over
  <2>3. task'[p] \in TaskType
    BY <1>1, <1>2, <1>4, <2>1, <2>2, Zenon DEF TaskType
  <2> QED
    BY <1>1, <1>2, <2>3 DEF TaskType
<1>7. FailedRuns(task'[p]) = task'[p].reasons + (task'[p].announced - task'[p].expected)
  <2>1. FailedRuns(task[p]) = task[p].reasons + (task[p].announced - task[p].expected)
    BY TargetFacts DEF TaskOK, Holding
  <2>2. FailedRuns(task'[p]) = task[p].runs
    BY <1>6, TargetFacts DEF FailedRuns, TaskType
  <2>3. /\ task[p].runs \in Nat /\ task[p].announced \in Nat /\ task[p].expected \in Nat
        /\ task[p].reasons \in Nat /\ FailedRuns(task[p]) = task[p].runs - given
    BY TargetFacts DEF TaskType
  <2>4. /\ task'[p].expected = task[p].expected /\ task'[p].announced = task[p].announced
        /\ task'[p].reasons = task[p].reasons + given
    BY <1>6
  <2> QED
    BY <2>1, <2>2, <2>3, <2>4
<1>8. TaskOK(task'[p], p \in errors') /\ task'[p].pc \notin Holding
  BY <1>4, <1>5, <1>6, <1>7, TargetFacts DEF TaskOK, TaskType, Holding, GoesOn
<1>9. /\ task'[p].reasons >= task[p].reasons
      /\ shown'[p[1]] = shown[p[1]] \/ task'[p].reasons > 0
  BY <1>6, TargetFacts DEF TaskType
<1> QED
  BY <1>1, <1>5, <1>6, <1>8, <1>9, OneTargetStep

(* An unexpected failure counts as an attempt, gives its reason and gives  *)
(* the token back.                                                         *)
LEMMA FailStep ==
  ASSUME Inv, NEW p \in Ports, NEW hopeless \in BOOLEAN, Fail(p, hopeless)
  PROVE  Inv'
<1> DEFINE should_retry == ~hopeless
<1>1. /\ task[p].pc = "running" /\ Retry(p, should_retry, 1)
      /\ Show(p, EndText(task[p], FALSE)) /\ cancelled' = cancelled
  BY DEF Fail
<1>2. shown' = [shown EXCEPT ![p[1]] = shown'[p[1]]] /\ shown'[p[1]] \in Texts
  BY <1>1, TargetFacts, EndTexts, ShowShows
<1>3. /\ should_retry \in BOOLEAN /\ 1 \in Nat /\ 1 > 0
      /\ task[p].pc \in Holding /\ FailedRuns(task[p]) = task[p].runs - 1
  BY <1>1 DEF FailedRuns, Holding
<1> HIDE DEF should_retry
<1> QED
  BY <1>1, <1>2, <1>3, RetryStep

(* The sleep after an expected failure ends: the next attempt follows. *)
LEMMA WakeStep == ASSUME Inv, NEW p \in Ports, Wake(p) PROVE Inv'
<1>1. task[p].pc = "sleeping" /\ Retry(p, TRUE, 0) /\ cancelled' = cancelled
  BY DEF Wake
<1>2. /\ shown' = [shown EXCEPT ![p[1]] = shown'[p[1]]]
      /\ shown'[p[1]] \in Texts /\ shown'[p[1]] = shown[p[1]]
  BY TargetFacts DEF Wake
<1>3. task[p].pc \in Holding /\ FailedRuns(task[p]) = task[p].runs - 0
  BY <1>1 DEF FailedRuns, Holding
<1> QED
  BY <1>1, <1>2, <1>3, RetryStep

(* An expected failure keeps the token while the task sleeps, and does not *)
(* show as one.                                                            *)
LEMMA FailAsExpectedStep == ASSUME Inv, NEW p \in Ports, FailAsExpected(p) PROVE Inv'
<1> DEFINE t == Ended(task[p])
<1>1. /\ task[p].pc = "running" /\ task[p].expected > 0
      /\ task' = [task EXCEPT ![p] = task'[p]]
      /\ task'[p] = [t EXCEPT !.pc = "sleeping", !.expected = @ - 1]
  BY TargetFacts DEF FailAsExpected
<1>2. /\ t \in TaskType /\ t.attempt = task[p].attempt /\ t.expected = task[p].expected
      /\ t.runs = task[p].runs /\ t.announced = task[p].announced
      /\ t.reasons = task[p].reasons
  BY TargetFacts, EndedTask
<1> HIDE DEF t
<1>3. task'[p] \in TaskType /\ task'[p].pc \in Holding /\ task[p].pc \in Holding
  <2>1. t.expected - 1 \in Nat
    BY <1>1, <1>2 DEF TaskType
  <2>2. "sleeping" \in {"new", "queued"} \union Holding \union Over
    BY DEF Holding
  <2>3. task'[p] \in TaskType
    BY <1>1, <1>2, <2>1, <2>2, Zenon DEF TaskType
  <2> QED
    BY <1>1, <1>2, <2>3 DEF TaskType, Holding
<1>4. TaskOK(task'[p], p \in errors') /\ task'[p].reasons >= task[p].reasons
  BY <1>1, <1>2, TargetFacts DEF TaskOK, FailedRuns, TaskType, Holding
<1>5. TellsRetrying => EndText(task[p], FALSE) # "Failed"
  BY <1>1, TargetFacts, EndTexts DEF TaskOK
<1>6. /\ shown' = [shown EXCEPT ![p[1]] = shown'[p[1]]] /\ shown'[p[1]] \in Texts
      /\ TellsRetrying => shown'[p[1]] # "Failed"
  BY <1>5, TargetFacts, EndTexts, ShowShows DEF FailAsExpected
<1>7. MaxConcurrency > 0 => p \in borrowers /\ borrowers' = borrowers \union {p}
  BY <1>3, TargetFacts DEF FailAsExpected
<1> QED
  BY <1>1, <1>3, <1>4, <1>6, <1>7, TargetFacts, OneTargetStep DEF FailAsExpected

(* Cancellation ends every task that was started and frees every token. *)
LEMMA CancelStep == ASSUME Inv, Cancel PROVE Inv'
<1>1. ASSUME NEW p \in Ports
      PROVE  /\ task'[p] \in TaskType /\ task'[p].pc \notin Holding
             /\ task'[p].reasons = task[p].reasons
             /\ TaskOK(task'[p], p \in errors')
  <2>1. CASE task[p].pc \in Over \union {"new"}
    <3>1. task'[p] = task[p] /\ errors' = errors
      BY <2>1 DEF Cancel, Over
    <3> QED
      BY <2>1, <3>1, TargetFacts DEF Over, Holding
  <2>2. CASE task[p].pc \notin Over \union {"new"}
    <3>1. task'[p] = [Ended(task[p]) EXCEPT !.pc = "cancelled"]
      BY <2>2 DEF Cancel
    <3>2. Ended(task[p]) \in TaskType /\ Ended(task[p]).reasons = task[p].reasons
      BY TargetFacts, EndedTask
    <3>3. /\ task'[p] \in TaskType /\ task'[p].pc = "cancelled"
          /\ task'[p].reasons = task[p].reasons
      BY <3>1, <3>2 DEF TaskType, Over
    <3> QED
      BY <3>3 DEF TaskOK, Holding
  <2> QED
    BY <2>1, <2>2
<1>2. task' \in [Ports -> TaskType]
  BY <1>1 DEF Cancel
<1>3. TypeOK'
  BY <1>2 DEF Inv, TypeOK, TaskType, Cancel
<1>4. TokensAreExact'
  <2>1. borrowers' = {} /\ Cardinality({}) = 0 /\ MaxConcurrency \in Nat
    BY FS_EmptySet, TaskGroupAssumption DEF Cancel
  <2> QED
    BY <2>1, <1>1 DEF TokensAreExact
<1>5. ASSUME NEW n \in Names, TellsRetrying, shown'[n] = "Failed"
      PROVE  shown[n] = "Failed"
  <2> DEFINE running == {p \in Ports : p[1] = n /\ task[p].pc = "running"}
  <2>1. shown'[n] \in IF running = {} THEN {shown[n]} ELSE {EndText(task[p], TRUE) : p \in running}
    BY DEF Cancel
  <2>2. \A p \in running : EndText(task[p], TRUE) # "Failed"
    BY <1>5, TargetFacts, EndTexts
  <2> QED
    BY <1>5, <2>1, <2>2
<1>6. LinesAgreeWithLog'
  BY <1>1, <1>5 DEF Inv, LinesAgreeWithLog
<1> QED
  BY <1>1, <1>3, <1>4, <1>6 DEF Inv

(* Every step of the group preserves the invariant. *)
LEMMA NextInv == Inv /\ [Next]_vars => Inv'
<1> SUFFICES ASSUME Inv, [Next]_vars PROVE Inv'
  OBVIOUS
<1>1. CASE UNCHANGED vars
  BY <1>1 DEF vars, Inv, TypeOK, TaskOK, FailedRuns, TokensAreExact, LinesAgreeWithLog
<1>2. CASE Exit
  BY <1>1, <1>2 DEF Exit
<1>3. CASE Cancel
  BY <1>3, CancelStep
<1>4. ASSUME NEW p \in Ports, Start(p) \/ Rebooted(p) \/ Report(p) \/ Step(p) PROVE Inv'
  BY <1>4, StartStep, RebootedStep, ReportStep, AcquireStep, CompleteStep,
     SucceedStep, FailStep, FailAsExpectedStep, WakeStep DEF Step
<1> QED
  BY <1>1, <1>2, <1>3, <1>4 DEF Next

(* The invariant holds in every reachable state. *)
LEMMA AlwaysInv == Spec => []Inv
BY InitInv, NextInv, PTL DEF Spec

------------------------------------------------------------------------------
(* The tasks keep their types: none ever begins more than MaxRetries + 1   *)
(* attempts (the loop of UploaderTask.run).                                *)
THEOREM TaskTypesCorrect == Spec => []TypeOK
BY AlwaysInv, InvImpliesProperties, PTL

(* No token of the limiter is lost or duplicated on any way through        *)
(* UploaderTask.run, cancellation included.                                *)
THEOREM TokensAreAlwaysExact == Spec => []TokensAreExact
BY AlwaysInv, InvImpliesProperties, PTL

(* However often the device reboots and announces failures, the attempts   *)
(* of UploaderTask.run are counted exactly.                                *)
THEOREM AttemptsAreAlwaysCounted == Spec => []AttemptsAreCounted
BY AlwaysInv, InvImpliesProperties, PTL

(* Every failed run of UploaderTask.run has logged its reason or used up a *)
(* failure that on_rebooted announced, however often the device reboots;   *)
(* and the line of a name says that an upload failed only if a task of     *)
(* that name has logged a reason (RichConsoleUI.handle_event).             *)
THEOREM FailuresAreAlwaysReported == Spec => []FailuresAreReported
BY AlwaysInv, InvImpliesProperties, PTL

------------------------------------------------------------------------------
(* The scanner and the task group behind it. *)

ScanTypeOK ==
  /\ plugged \subseteq Names /\ listed \subseteq Names /\ inspections \subseteq Names
  /\ plugs \in [Names -> Nat] /\ served \in [Names -> BOOLEAN]
  /\ pc \in {"listing", "listed"}
  /\ seen_ports \in [Names -> SerialPortState]

(* What the loop knows of a name: an inspection is under way only between  *)
(* a turn and the next list, only suitable ports without a task wait to be *)
(* yielded, and a port that has its task was yielded.                      *)
LoopOK ==
  /\ pc = "listed" => inspections = {}
  /\ pc = "listing" => listed = {}
  /\ \A n \in Names :
       /\ n \in inspections => seen_ports[n] = "inspecting"
       /\ seen_ports[n] = "to_yield" => n \in Suitable /\ ~served[n]
       /\ served[n] => seen_ports[n] = "yielded"

(* The port may still get a task for its present stay, the one that begins *)
(* when the list that is being processed misses it included.               *)
Owed(n) ==
  \/ ~served[n] /\ (n \in plugged \/ seen_ports[n] # "new" \/ n \in listed)
  \/ pc = "listed" /\ n \notin listed /\ n \in plugged

(* No name has more tasks than stays, and one less while one is owed to it. *)
StayOK(n) ==
  /\ plugs[n] > 0 => << n, plugs[n] >> \in Ports
  /\ Owed(n) => plugs[n] > 0
  /\ \A p \in Ports : p[1] = n /\ task[p].pc # "new" =>
       /\ p[2] <= plugs[n]
       /\ Owed(n) => p[2] # plugs[n]

(* The inductive invariant. *)
ScanInv == Inv /\ ScanTypeOK /\ LoopOK /\ \A n \in Names : StayOK(n)

------------------------------------------------------------------------------
(* Of the targets in a set one has the least number. *)
LEMMA LeastTarget ==
  ASSUME NEW T \in SUBSET Ports, T # {}
  PROVE  \E p \in T : \A q \in T : p[2] <= q[2]
<1> DEFINE R == OpToRel(<, Nat)
           I == {p[2] : p \in T}
<1>1. IsWellFoundedOn(R, Nat)
  BY NatLessThanWellFounded
<1>2. \A x, y \in Nat : << y, x >> \in R <=> y < x
  BY DEF OpToRel
<1>3. I \subseteq Nat /\ I # {}
  BY Targets
<1> HIDE DEF R
<1>4. PICK x \in I : \A y \in I : ~(<< y, x >> \in R)
  BY <1>1, <1>3, WFMin
<1>5. PICK p \in T : x = p[2]
  OBVIOUS
<1>6. ASSUME NEW q \in T PROVE p[2] <= q[2]
  <2>1. p[2] \in Nat /\ q[2] \in Nat /\ q[2] \in I
    BY Targets
  <2>2. ~(q[2] < p[2])
    BY <2>1, <1>2, <1>4, <1>5, Zenon
  <2> QED
    BY <2>1, <2>2
<1> QED
  BY <1>5, <1>6

(* A name to which a task is owed has a target left for it, and the one    *)
(* that is started next is none of a later stay.                           *)
LEMMA NextTaskExists ==
  ASSUME ScanInv, NEW n \in Names, Owed(n)
  PROVE  /\ NextTask(n) \in Ports /\ NextTask(n)[1] = n
         /\ task[NextTask(n)].pc = "new"
         /\ NextTask(n)[2] <= plugs[n]
<1> DEFINE T == {p \in Ports : p[1] = n /\ task[p].pc = "new"}
           last == << n, plugs[n] >>
<1>1. last \in Ports /\ last[1] = n /\ last[2] = plugs[n]
  BY DEF ScanInv, StayOK
<1>2. last \in T
  BY <1>1 DEF ScanInv, StayOK
<1>3. PICK p \in T : \A q \in T : p[2] <= q[2]
  BY <1>2, LeastTarget
<1>4. /\ NextTask(n) \in T
      /\ \A q \in T : NextTask(n)[2] <= q[2]
  BY <1>3 DEF NextTask
<1> QED
  BY <1>1, <1>2, <1>4

(* The scanner starts with no port, and no task with it. *)
LEMMA ScanInitInv == ScanInit => ScanInv
<1> SUFFICES ASSUME ScanInit PROVE ScanInv
  OBVIOUS
<1>1. Inv
  BY InitInv DEF ScanInit
<1>2. ScanTypeOK /\ LoopOK
  BY DEF ScanInit, ScanTypeOK, LoopOK, SerialPortState
<1>3. ASSUME NEW n \in Names PROVE StayOK(n)
  BY DEF ScanInit, Init, NewTask, StayOK, Owed
<1> QED
  BY <1>1, <1>2, <1>3 DEF ScanInv

------------------------------------------------------------------------------
(* One lemma per action.  First what most of them share: no task is        *)
(* started, no port appears, and none becomes owed a task.                 *)
LEMMA StayKept ==
  ASSUME NEW n \in Names, StayOK(n), plugs'[n] = plugs[n],
         \A p \in Ports : p[1] = n => (task'[p].pc = "new" <=> task[p].pc = "new"),
         Owed(n)' => Owed(n)
  PROVE  StayOK(n)'
BY DEF StayOK

(* The variables of the task group stay as they are. *)
LEMMA GroupKept == ASSUME Inv, UNCHANGED vars PROVE Inv'
BY NextInv

(* A port appears for the next time, and may be given its next task. *)
LEMMA PlugStep == ASSUME ScanInv, NEW n \in Names, Plug(n) PROVE ScanInv'
<1>1. Inv' /\ task' = task
  BY GroupKept DEF ScanInv, Plug, vars
<1>2. plugs[n] \in Nat /\ plugs' = [plugs EXCEPT ![n] = plugs[n] + 1]
  BY DEF ScanInv, ScanTypeOK, Plug
<1>3. ScanTypeOK' /\ LoopOK'
  BY <1>2 DEF ScanInv, ScanTypeOK, LoopOK, Plug
<1>4. ASSUME NEW m \in Names PROVE StayOK(m)'
  <2>1. CASE m = n
    <3>1. plugs'[n] = plugs[n] + 1 /\ << n, plugs'[n] >> \in Ports
      BY <1>2 DEF ScanInv, ScanTypeOK, Plug
    <3>2. ASSUME NEW p \in Ports, p[1] = n, task'[p].pc # "new"
          PROVE  p[2] <= plugs'[n] /\ p[2] # plugs'[n]
      <4>1. p[2] \in Nat /\ p[2] <= plugs[n]
        BY <3>2, <1>1, Targets DEF ScanInv, StayOK
      <4> QED
        BY <4>1, <3>1, <1>2
    <3> QED
      BY <2>1, <1>2, <3>1, <3>2 DEF StayOK
  <2>2. CASE m # n
    <3>1. plugs'[m] = plugs[m] /\ (Owed(m)' => Owed(m))
      BY <2>2, <1>2 DEF ScanInv, ScanTypeOK, Plug, Owed
    <3> QED
      BY <3>1, <1>1, StayKept DEF ScanInv
  <2> QED
    BY <2>1, <2>2
<1> QED
  BY <1>1, <1>3, <1>4 DEF ScanInv

(* A port that goes is owed nothing that it was not owed before. *)
LEMMA UnplugStep == ASSUME ScanInv, NEW n \in Names, Unplug(n) PROVE ScanInv'
<1>1. Inv' /\ task' = task
  BY GroupKept DEF ScanInv, Unplug, vars
<1>2. ScanTypeOK' /\ LoopOK'
  BY DEF ScanInv, ScanTypeOK, LoopOK, Unplug
<1>3. ASSUME NEW m \in Names PROVE StayOK(m)'
  <2>1. plugs'[m] = plugs[m] /\ (Owed(m)' => Owed(m))
    BY DEF Unplug, Owed
  <2> QED
    BY <2>1, <1>1, StayKept DEF ScanInv
<1> QED
  BY <1>1, <1>2, <1>3 DEF ScanInv

(* The list that is taken is that of the ports that exist. *)
LEMMA ListStep == ASSUME ScanInv, List PROVE ScanInv'
<1>1. Inv' /\ task' = task
  BY GroupKept DEF ScanInv, List, vars
<1>2. ScanTypeOK' /\ LoopOK'
  BY DEF ScanInv, ScanTypeOK, LoopOK, List
<1>3. ASSUME NEW m \in Names PROVE StayOK(m)'
  <2>1. plugs'[m] = plugs[m] /\ (Owed(m)' => Owed(m))
    BY DEF List, Owed
  <2> QED
    BY <2>1, <1>1, StayKept DEF ScanInv
<1> QED
  BY <1>1, <1>2, <1>3 DEF ScanInv

(* A verdict changes what is known of a port, but not what it is owed. *)
LEMMA InspectStep == ASSUME ScanInv, NEW n \in Names, Inspect(n) PROVE ScanInv'
<1>1. Inv' /\ task' = task
  BY GroupKept DEF ScanInv, Inspect, vars
<1>2. /\ seen_ports[n] = "inspecting" /\ ~served[n]
      /\ seen_ports'[n] = IF n \in Suitable THEN "to_yield" ELSE "ignored"
      /\ \A m \in Names \ {n} : seen_ports'[m] = seen_ports[m]
  BY DEF ScanInv, ScanTypeOK, LoopOK, Inspect
<1>3. ScanTypeOK'
  BY DEF ScanInv, ScanTypeOK, Inspect, SerialPortState
<1>4. LoopOK'
  BY <1>2 DEF ScanInv, LoopOK, Inspect
<1>5. ASSUME NEW m \in Names PROVE StayOK(m)'
  <2>1. plugs'[m] = plugs[m] /\ (Owed(m)' => Owed(m))
    BY <1>2 DEF Inspect, Owed
  <2> QED
    BY <2>1, <1>1, StayKept DEF ScanInv
<1> QED
  BY <1>1, <1>3, <1>4, <1>5 DEF ScanInv

(* The steps of the task group that the composition keeps start no task. *)
LEMMA TasksStartNone ==
  ASSUME Inv, Tasks, NEW q \in Ports
  PROVE  task'[q].pc = "new" <=> task[q].pc = "new"
<1>1. CASE Cancel
  <2>1. task'[q] = IF task[q].pc \in Over \union {"new"} THEN task[q]
                   ELSE [Ended(task[q]) EXCEPT !.pc = "cancelled"]
    BY <1>1 DEF Cancel
  <2>2. Ended(task[q]) \in TaskType
    BY TargetFacts, EndedTask
  <2> QED
    BY <2>1, <2>2 DEF TaskType
<1>2. ASSUME NEW p \in Ports, Rebooted(p) \/ Report(p) \/ Step(p)
      PROVE  task'[q].pc = "new" <=> task[q].pc = "new"
  <2>1. /\ task[p].pc # "new" /\ task'[p].pc # "new"
        /\ \A r \in Ports \ {p} : task'[r] = task[r]
    <3> USE TargetFacts, EndedTask DEF TaskType
    <3>1. CASE Rebooted(p) \/ Report(p)
      BY <3>1 DEF Rebooted, Report
    <3>2. CASE Acquire(p)
      BY <3>2 DEF Acquire
    <3>3. CASE Complete(p)
      BY <3>3 DEF Complete
    <3>4. CASE Succeed(p)
      BY <3>4 DEF Succeed
    <3>5. CASE FailAsExpected(p)
      BY <3>5 DEF FailAsExpected
    <3>6. ASSUME NEW retry \in BOOLEAN, NEW given \in {0, 1}, Retry(p, retry, given)
          PROVE  /\ task'[p].pc # "new"
                 /\ \A r \in Ports \ {p} : task'[r] = task[r]
      BY <3>6 DEF Retry
    <3>7. CASE Wake(p) \/ \E hopeless \in BOOLEAN : Fail(p, hopeless)
      BY <3>6, <3>7 DEF Wake, Fail
    <3> QED
      BY <1>2, <3>1, <3>2, <3>3, <3>4, <3>5, <3>7 DEF Step
  <2> QED
    BY <2>1
<1> QED
  BY <1>1, <1>2 DEF Tasks

(* Whatever the tasks do, what is owed stays what it was. *)
LEMMA TasksStep == ASSUME ScanInv, Tasks, UNCHANGED scanVars PROVE ScanInv'
<1>1. Inv'
  BY CancelStep, NextInv DEF ScanInv, Tasks, Next
<1>2. ScanTypeOK' /\ LoopOK'
  BY DEF ScanInv, ScanTypeOK, LoopOK, scanVars
<1>3. ASSUME NEW m \in Names PROVE StayOK(m)'
  <2>1. plugs'[m] = plugs[m] /\ (Owed(m)' => Owed(m))
    BY DEF scanVars, Owed
  <2> QED
    BY <2>1, TasksStartNone, StayKept DEF ScanInv
<1> QED
  BY <1>1, <1>2, <1>3 DEF ScanInv

(* The names that a turn of the loop yields, and the tasks that it starts. *)
Yielded == {n \in listed : seen_ports[n] = "to_yield"}
Started == {NextTask(n) : n \in Yielded}

(* A turn yields names that are owed a task. *)
LEMMA YieldedAreOwed ==
  ASSUME ScanInv, NEW n \in Yielded
  PROVE  n \in Names /\ n \in Suitable \intersect listed /\ ~served[n] /\ Owed(n)
BY DEF ScanInv, ScanTypeOK, LoopOK, Yielded, Owed

(* The tasks that a turn starts are new ones of the names that it yields. *)
LEMMA StartedAreNew ==
  ASSUME ScanInv, NEW p \in Started
  PROVE  /\ p \in Ports /\ task[p].pc = "new" /\ p[1] \in Yielded
         /\ p[2] <= plugs[p[1]]
<1>1. PICK n \in Yielded : p = NextTask(n)
  BY DEF Started
<1> QED
  BY <1>1, YieldedAreOwed, NextTaskExists

(* Starting several new tasks at once is as good as starting each of them: *)
(* none of them holds a token yet.                                         *)
LEMMA ProcessGroup == ASSUME ScanInv, Process PROVE Inv'
<1>1. /\ task' = [p \in Ports |-> IF p \in Started THEN [task[p] EXCEPT !.pc = "queued"]
                                                  ELSE task[p]]
      /\ UNCHANGED << borrowers, shown, errors, cancelled >>
  BY DEF Process, Started, Yielded
<1>2. ASSUME NEW p \in Ports
      PROVE  /\ task'[p] \in TaskType
             /\ task'[p].reasons = task[p].reasons
             /\ TaskOK(task'[p], p \in errors')
             /\ task'[p].pc \in Holding <=> task[p].pc \in Holding
  <2>1. CASE p \in Started
    <3>1. task[p].pc = "new" /\ task'[p] = [task[p] EXCEPT !.pc = "queued"]
      BY <2>1, <1>1, StartedAreNew
    <3>2. task[p] \in TaskType /\ TaskOK(task[p], p \in errors)
      BY TargetFacts DEF ScanInv
    <3> QED
      BY <3>1, <3>2, <1>1 DEF TaskType, TaskOK, FailedRuns, Holding
  <2>2. CASE p \notin Started
    <3>1. task'[p] = task[p]
      BY <2>2, <1>1
    <3> QED
      BY <3>1, <1>1, TargetFacts DEF ScanInv
  <2> QED
    BY <2>1, <2>2
<1>3. TypeOK'
  <2>1. task' \in [Ports -> TaskType]
    BY <1>1, <1>2
  <2> QED
    BY <2>1, <1>1 DEF ScanInv, Inv, TypeOK, TaskType
<1>4. TokensAreExact'
  BY <1>1, <1>2 DEF ScanInv, Inv, TokensAreExact
<1>5. LinesAgreeWithLog'
  BY <1>1, <1>2 DEF ScanInv, Inv, LinesAgreeWithLog
<1> QED
  BY <1>2, <1>3, <1>4, <1>5 DEF Inv

(* A turn starts a task for a name only if one is owed to it, and then it  *)
(* is not any more.                                                        *)
LEMMA ProcessStep == ASSUME ScanInv, Process PROVE ScanInv'
<1>1. /\ task' = [p \in Ports |-> IF p \in Started THEN [task[p] EXCEPT !.pc = "queued"]
                                                  ELSE task[p]]
      /\ served' = [n \in Names |-> n \in Yielded \/ (n \in listed /\ served[n])]
      /\ seen_ports' = [n \in Names |-> state_after(n)]
      /\ inspections' = inspections \union {n \in listed : seen_ports[n] = "new"}
      /\ pc = "listed" /\ pc' = "listing" /\ listed' = {}
      /\ plugged' = plugged /\ plugs' = plugs
  BY DEF Process, Started, Yielded
<1>2. inspections = {}
  BY <1>1 DEF ScanInv, LoopOK
<1>3. ASSUME NEW n \in Names
      PROVE  /\ state_after(n) \in SerialPortState \ {"to_yield"}
             /\ n \notin listed => state_after(n) = "new"
             /\ n \in listed => state_after(n) # "new"
             /\ n \in inspections' => state_after(n) = "inspecting"
             /\ served'[n] => state_after(n) = "yielded"
  <2>1. seen_ports[n] \in SerialPortState /\ (served[n] => seen_ports[n] = "yielded")
    BY DEF ScanInv, ScanTypeOK, LoopOK
  <2>2. /\ n \notin listed => state_after(n) = "new"
        /\ n \in listed /\ seen_ports[n] = "to_yield" => state_after(n) = "yielded"
        /\ n \in listed /\ seen_ports[n] = "new" => state_after(n) = "inspecting"
        /\ n \in listed /\ seen_ports[n] \in {"inspecting", "yielded", "ignored"}
             => state_after(n) = seen_ports[n]
    BY DEF state_after
  <2> QED
    BY <2>1, <2>2, <1>1, <1>2 DEF SerialPortState, Yielded
<1>4. ScanTypeOK'
  BY <1>1, <1>3 DEF ScanInv, ScanTypeOK
<1>5. LoopOK'
  BY <1>1, <1>3 DEF LoopOK
<1>6. ASSUME NEW n \in Names PROVE StayOK(n)'
  <2>1. CASE n \in Yielded
    <3>1. served'[n] /\ ~Owed(n)'
      BY <2>1, <1>1 DEF Owed
    <3>2. ASSUME NEW p \in Ports, p[1] = n, task'[p].pc # "new" PROVE p[2] <= plugs'[n]
      <4>1. CASE p \in Started
        BY <4>1, <3>2, <1>1, StartedAreNew
      <4>2. CASE p \notin Started
        BY <4>2, <3>2, <1>1 DEF ScanInv, StayOK
      <4> QED
        BY <4>1, <4>2
    <3> QED
      BY <3>1, <3>2, <1>1 DEF ScanInv, StayOK
  <2>2. CASE n \notin Yielded
    <3>1. ASSUME NEW p \in Ports, p[1] = n PROVE task'[p] = task[p]
      BY <2>2, <3>1, <1>1, StartedAreNew
    <3>2. Owed(n)' => Owed(n)
      BY <2>2, <1>1, <1>3 DEF Owed, Yielded
    <3>3. plugs'[n] = plugs[n]
      BY <1>1
    <3> QED
      BY <3>1, <3>2, <3>3, StayKept DEF ScanInv
  <2> QED
    BY <2>1, <2>2
<1> QED
  BY <1>4, <1>5, <1>6, ProcessGroup DEF ScanInv

(* Every step of the scanner, its devices and its tasks preserves the      *)
(* invariant.                                                              *)
LEMMA ScanNextInv == ScanInv /\ [ScanNext]_allVars => ScanInv'
<1> SUFFICES ASSUME ScanInv, [ScanNext]_allVars PROVE ScanInv'
  OBVIOUS
<1>1. ASSUME UNCHANGED allVars PROVE ScanInv'
  <2>1. Inv' /\ UNCHANGED vars /\ UNCHANGED scanVars
    BY <1>1, GroupKept DEF allVars, ScanInv
  <2>2. ScanTypeOK' /\ LoopOK'
    BY <2>1 DEF ScanInv, ScanTypeOK, LoopOK, scanVars
  <2>3. ASSUME NEW n \in Names PROVE StayOK(n)'
    BY <2>1 DEF ScanInv, StayOK, Owed, vars, scanVars
  <2> QED
    BY <2>1, <2>2, <2>3 DEF ScanInv
<1>2. CASE Device
  BY <1>2, PlugStep, UnplugStep DEF Device
<1>3. CASE Scan
  BY <1>3, ListStep, ProcessStep, InspectStep DEF Scan
<1>4. CASE Tasks /\ UNCHANGED scanVars
  BY <1>4, TasksStep
<1>5. CASE ScanExit
  BY <1>1, <1>5 DEF ScanExit, Exit, allVars
<1> QED
  BY <1>1, <1>2, <1>3, <1>4, <1>5 DEF ScanNext

(* The invariant holds in every reachable state. *)
LEMMA AlwaysScanInv == ScanSpec => []ScanInv
BY ScanInitInv, ScanNextInv, PTL DEF ScanSpec

(* A task that is started is one that a turn of the loop starts. *)
LEMMA OnlyTurnsStart ==
  ASSUME ScanInv, [ScanNext]_allVars,
         NEW p \in Ports, task[p].pc = "new", task'[p].pc # "new"
  PROVE  p[1] \in Suitable \intersect listed /\ ~served[p[1]]
<1>1. task' # task
  OBVIOUS
<1>2. ~(Device \/ List \/ (\E n \in Names : Inspect(n)) \/ ScanExit \/ UNCHANGED allVars)
  BY <1>1 DEF Device, Plug, Unplug, List, Inspect, ScanExit, Exit, allVars, vars
<1>3. ~Tasks
  BY TasksStartNone DEF ScanInv
<1>4. Process
  BY <1>2, <1>3 DEF ScanNext, Scan
<1>5. p \in Started
  BY <1>4 DEF Process, Started, Yielded
<1> QED
  BY <1>5, StartedAreNew, YieldedAreOwed

------------------------------------------------------------------------------
(* The tasks of a scanner keep their types (UploaderTask.run): none of     *)
(* them ever begins more than MaxRetries + 1 attempts.                     *)
THEOREM ScannedTaskTypesCorrect == ScanSpec => []TypeOK
BY AlwaysScanInv, InvImpliesProperties, PTL DEF ScanInv

(* Devices that come and go while a list is processed neither lose nor     *)
(* duplicate a token of the limiter (UploaderTask.run).                    *)
THEOREM ScannedTokensAreExact == ScanSpec => []TokensAreExact
BY AlwaysScanInv, InvImpliesProperties, PTL DEF ScanInv

(* Every task that a scanner starts has its attempts counted exactly       *)
(* (UploaderTask.run).                                                     *)
THEOREM ScannedAttemptsAreCounted == ScanSpec => []AttemptsAreCounted
BY AlwaysScanInv, InvImpliesProperties, PTL DEF ScanInv

(* That holds of tasks that start as devices come back as well, though all *)
(* tasks of a port share its line of the console (UploaderTask.run).       *)
THEOREM ScannedFailuresAreReported == ScanSpec => []FailuresAreReported
BY AlwaysScanInv, InvImpliesProperties, PTL DEF ScanInv

(* SerialPortScanner.run starts a task only for a suitable port that is in *)
(* its list and for which it has not started one since it last missed it,  *)
(* however the ports come and go between its polls.                        *)
THEOREM OneTaskPerStayAlways == ScanSpec => OneTaskPerStay
<1> DEFINE Starts ==
      \A p \in Ports : task[p].pc = "new" /\ task'[p].pc # "new" =>
        p[1] \in Suitable \intersect listed /\ ~served[p[1]]
<1>1. ScanInv /\ [ScanNext]_allVars => [Starts]_allVars
  BY OnlyTurnsStart
<1> QED
  BY <1>1, AlwaysScanInv, PTL DEF ScanSpec, OneTaskPerStay
==============================================================================
