------------------------------ MODULE TaskGroup ------------------------------
(***************************************************************************)
(* UploaderTaskGroup and UploaderTask of ap_uploader/uploader.py: the      *)
(* tasks that run an operation on several ports at once, each with its own *)
(* retries, behind one capacity limiter; and what the console shows of it. *)
(* The operation (upload_firmware, flash_bootloader or                     *)
(* perform_factory_reset) is seen from outside: it may reboot the device,  *)
(* complete, return, or raise, which it may do even when it has completed: *)
(* it still has to close its connection then.                              *)
(***************************************************************************)
EXTENDS Integers, FiniteSets

CONSTANTS
  Names,                  \* the names of targets: addresses or serial ports
  Ports,                  \* the targets: << name, k >> is the k-th of that name
  MaxRetries,             \* --retries: attempts beyond the first
  MaxConcurrency,         \* --max-concurrency, 0 for no limit
  ExpectedAfterReboot,    \* what on_rebooted announces: 3 for an upload, else 10
  TellsRetrying           \* the operation is upload_firmware, whose last event
                          \* tells whether a failure was expected

ASSUME TaskGroupAssumption ==
  /\ IsFiniteSet(Ports) /\ Ports \subseteq Names \X (Nat \ {0})
  /\ MaxRetries \in Nat /\ MaxConcurrency \in Nat
  /\ ExpectedAfterReboot \in Nat \ {0}
  /\ TellsRetrying \in BOOLEAN

VARIABLES
  task,         \* the UploaderTask of each target
  borrowers,    \* targets whose task holds a token of the limiter
  shown,        \* the lines of the console, one for each name
  errors,       \* targets for which an error was logged
  cancelled     \* the task group was cancelled

vars == << task, borrowers, shown, errors, cancelled >>

(* A task is new until start_soon, queued at the head of its loop, running *)
(* its operation, sleeping in _handle_exceptions, or over.  History: its   *)
(* runs of the operation, the failures that on_rebooted announced, and the *)
(* messages that gave a reason for a failure.                              *)
NewTask ==
  [pc |-> "new", attempt |-> 0, expected |-> 0, rebooted |-> FALSE,
   retrying |-> FALSE, success |-> FALSE, runs |-> 0, announced |-> 0, reasons |-> 0]

Over == {"done", "failed", "cancelled"}
Holding == {"running", "sleeping"}

(* What the line of a name can show. *)
Texts == {"nothing", "working", "Finished", "Waiting", "Failed", "Cancelled"}

(* The types of the tasks.  No task begins more attempts than the first    *)
(* one and --retries further ones.                                         *)
TypeOK ==
  /\ task \in [Ports -> [pc : {"new", "queued"} \union Holding \union Over,
                         attempt : 0..(MaxRetries + 1), expected : Nat,
                         rebooted : BOOLEAN, retrying : BOOLEAN, success : BOOLEAN,
                         runs : 0..(MaxRetries + 1), announced : Nat, reasons : Nat]]
  /\ borrowers \subseteq Ports
  /\ shown \in [Names -> Texts]
  /\ errors \subseteq Ports
  /\ cancelled \in BOOLEAN

Init ==
  /\ task = [p \in Ports |-> NewTask]
  /\ borrowers = {}
  /\ shown = [n \in Names |-> "nothing"]
  /\ errors = {}
  /\ cancelled = FALSE

------------------------------------------------------------------------------
(* RichConsoleUI.handle_event: every task of a name writes to its line. *)
Show(p, text) == shown' = [shown EXCEPT ![p[1]] = text]

(* What it makes of the "finished" event, with which every run of an       *)
(* operation ends.                                                         *)
EndText(t, was_cancelled) ==
  IF t.success THEN "Finished"
  ELSE IF was_cancelled THEN "Cancelled"
  ELSE IF TellsRetrying /\ t.retrying THEN "Waiting" ELSE "Failed"

(* start_upload_to, start_flash_bootloader_on, start_factory_reset_on. *)
Start(p) ==
  /\ ~cancelled
  /\ task[p].pc = "new"
  /\ task' = [task EXCEPT ![p].pc = "queued"]
  /\ UNCHANGED << borrowers, shown, errors, cancelled >>

HasToken == MaxConcurrency = 0 \/ Cardinality(borrowers) < MaxConcurrency

(* The argument of that name: an earlier attempt announced this failure. *)
expecting_failure(t) == t.expected > 0

(* The operation begins, as soon as the limiter lets it. *)
Acquire(p) ==
  /\ task[p].pc = "queued"
  /\ HasToken
  /\ borrowers' = IF MaxConcurrency = 0 THEN borrowers ELSE borrowers \union {p}
  /\ task' = [task EXCEPT ![p].pc = "running", ![p].runs = @ + 1,
                          ![p].retrying = expecting_failure(task[p])]
  /\ Show(p, "working")
  /\ UNCHANGED << errors, cancelled >>

(* Mutant: a new announcement replaces what is left of the last one. *)
expect_only(t, count) == count

(* _expect_failure *)
expect_failure(t, count) == t.expected + count

(* on_rebooted: the device had to be rebooted, once per operation. *)
Rebooted(p) ==
  /\ task[p].pc = "running" /\ ~task[p].rebooted /\ ~task[p].success
  /\ task' = [task EXCEPT ![p].rebooted = TRUE, ![p].retrying = TRUE,
                          ![p].expected = expect_failure(task[p], ExpectedAfterReboot),
                          ![p].announced = @ + ExpectedAfterReboot]
  /\ UNCHANGED << borrowers, shown, errors, cancelled >>

(* The operation reports a step on its way, ... *)
Report(p) ==
  /\ task[p].pc = "running" /\ ~task[p].success
  /\ Show(p, "working")
  /\ UNCHANGED << task, borrowers, errors, cancelled >>

(* ... and that it has finished, before it closes its connection. *)
Complete(p) ==
  /\ task[p].pc = "running" /\ ~task[p].success
  /\ task' = [task EXCEPT ![p].success = TRUE]
  /\ Show(p, "Finished")
  /\ UNCHANGED << borrowers, errors, cancelled >>

(* Mutant: an operation that fails keeps its token. *)
KeepToken(p) == UNCHANGED borrowers

(* The finally clause of run. *)
Release(p) == borrowers' = borrowers \ {p}

(* The local variables of an operation are gone when it ends, ... *)
Ended(t) == [t EXCEPT !.rebooted = FALSE, !.retrying = FALSE, !.success = FALSE]

(* ... be it that it returns, ... *)
Succeed(p) ==
  /\ task[p].pc = "running" /\ task[p].success
  /\ task' = [task EXCEPT ![p] = [Ended(task[p]) EXCEPT !.pc = "done"]]
  /\ Release(p)
  /\ Show(p, EndText(task[p], FALSE))
  /\ UNCHANGED << errors, cancelled >>

(* Mutant: a failure does not count as an attempt. *)
SameAttempt(t, should_retry) == IF should_retry THEN t.attempt ELSE MaxRetries

(* The number of the next attempt. *)
NextAttempt(t, should_retry) ==
  (IF should_retry THEN t.attempt ELSE MaxRetries) + 1

(* Mutant: one attempt too many. *)
GoesOnOnceMore(attempt) == attempt <= MaxRetries + 1

(* The condition of the loop of run. *)
GoesOn(attempt) == attempt <= MaxRetries

(* The rest of an iteration of run after an exception: the token is given  *)
(* back, and the loop goes on, with a warning if there is a reason to tell *)
(* (given is then 1), or ends with an error, reason or not.                *)
Retry(p, should_retry, given) ==
  LET next == NextAttempt(task[p], should_retry)
  IN  /\ task' = [task EXCEPT ![p] =
                     [Ended(task[p]) EXCEPT !.attempt = next, !.reasons = @ + given,
                                      !.pc = IF GoesOn(next) THEN "queued" ELSE "failed"]]
      /\ errors' = IF GoesOn(next) THEN errors ELSE errors \union {p}
      /\ Release(p)

(* ... or that it raises.  _handle_exceptions when no failure was          *)
(* announced: an OSError such as ENOENT is hopeless.                       *)
Fail(p, hopeless) ==
  /\ task[p].pc = "running" /\ task[p].expected = 0
  /\ Show(p, EndText(task[p], FALSE))
  /\ Retry(p, ~hopeless, 1)
  /\ UNCHANGED cancelled

(* An announced failure, whatever it is: sleep with the token held, ... *)
FailAsExpected(p) ==
  /\ task[p].pc = "running" /\ task[p].expected > 0
  /\ Show(p, EndText(task[p], FALSE))
  /\ task' = [task EXCEPT ![p] = [Ended(task[p]) EXCEPT !.pc = "sleeping", !.expected = @ - 1]]
  /\ UNCHANGED << borrowers, errors, cancelled >>

(* ... and try again. *)
Wake(p) ==
  /\ task[p].pc = "sleeping"
  /\ Retry(p, TRUE, 0)
  /\ UNCHANGED << shown, cancelled >>

(* The user interrupts the program, or the shared socket fails: the task   *)
(* group is cancelled.  Only operations that run have an event to emit; of *)
(* those with the same name the line shows the last.                       *)
Cancel ==
  /\ ~cancelled
  /\ cancelled' = TRUE
  /\ task' = [p \in Ports |-> IF task[p].pc \in Over \union {"new"} THEN task[p]
                              ELSE [Ended(task[p]) EXCEPT !.pc = "cancelled"]]
  /\ borrowers' = {}
  /\ shown' \in [Names -> Texts]
  /\ \A n \in Names :
       LET running == {p \in Ports : p[1] = n /\ task[p].pc = "running"}
       IN  shown'[n] \in IF running = {} THEN {shown[n]}
                         ELSE {EndText(task[p], TRUE) : p \in running}
  /\ UNCHANGED errors

(* The context of the task group is left when all of its tasks are over. *)
Exit ==
  /\ \A p \in Ports : task[p].pc \in Over \/ (cancelled /\ task[p].pc = "new")
  /\ UNCHANGED vars

Step(p) ==
  \/ Acquire(p) \/ Complete(p) \/ Succeed(p)
  \/ \E hopeless \in BOOLEAN : Fail(p, hopeless)
  \/ FailAsExpected(p) \/ Wake(p)

Next ==
  \/ \E p \in Ports : Start(p) \/ Rebooted(p) \/ Report(p) \/ Step(p)
  \/ Cancel
  \/ Exit

(* Every operation ends (see Upload!Finishes) and the event loop runs. *)
Spec == Init /\ [][Next]_vars /\ \A p \in Ports : WF_vars(Step(p))

------------------------------------------------------------------------------
(* Exactly the tasks whose operation runs, or that sleep before they retry *)
(* it, hold a token of the limiter, and never more than there are: none is *)
(* lost on any of the ways out of the loop.                                *)
TokensAreExact ==
  MaxConcurrency > 0 =>
    /\ borrowers = {p \in Ports : task[p].pc \in Holding}
    /\ Cardinality(borrowers) <= MaxConcurrency

(* A task runs its operation once more than it has used up attempts, and   *)
(* gives up only when the attempts are used up: a device that reboots over *)
(* and over does not get more of them.                                     *)
AttemptsAreCounted ==
  \A p \in Ports : LET t == task[p] IN
    /\ t.pc = "queued" => t.runs = t.attempt /\ t.attempt <= MaxRetries
    /\ t.pc \in Holding => t.runs = t.attempt + 1
    /\ t.pc = "failed" => t.attempt = MaxRetries + 1 /\ p \in errors

(* Every task that was started ends, even when all the others fail. *)
TasksEnd == \A p \in Ports : (task[p].pc = "queued") ~> (task[p].pc \in Over)

(* Every run of the operation that failed was told to the user with its    *)
(* reason or used up one of the failures that on_rebooted announced, and   *)
(* none did both: an announcement that comes while an earlier one is not   *)
(* used up adds to it (_expect_failure), and nothing else may swallow a    *)
(* reason.  The message of an announced failure is empty, though the one   *)
(* that uses up the last attempt is still logged as an error (run).        *)
FailuresAreAccounted ==
  \A p \in Ports : LET t == task[p] IN
    t.pc # "cancelled" =>
      t.runs - (IF t.pc \in {"running", "done"} THEN 1 ELSE 0)
        = t.reasons + (t.announced - t.expected)

(* Where the operation is an upload, no line says "Failed" unless a task   *)
(* of that name has given a reason: a run that fails as announced leaves   *)
(* "Waiting", or "Finished" when it failed only at closing its connection. *)
(* The other two operations say "Failed" of announced failures as well.    *)
LinesAgreeWithLog ==
  \A n \in Names : TellsRetrying /\ shown[n] = "Failed" =>
    \E p \in Ports : p[1] = n /\ task[p].reasons > 0

(* What a user can tell from the log and from the console. *)
FailuresAreReported == FailuresAreAccounted /\ LinesAgreeWithLog
==============================================================================
