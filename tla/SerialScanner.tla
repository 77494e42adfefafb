---------------------------- MODULE SerialScanner ----------------------------
(***************************************************************************)
(* SerialPortScanner of ap_uploader/scanners/serial.py with the tasks that *)
(* its targets start (the loop of cli/__main__.py): once a second the list *)
(* of serial ports is taken, new ports are inspected, and the next list    *)
(* that still has a suitable one starts a task for it.                     *)
(*                                                                         *)
(* The names of TaskGroup are those of serial ports here, and the target   *)
(* << name, k >> is the k-th that the scanner yields for one of them.      *)
(***************************************************************************)
EXTENDS TaskGroup, Sequences

CONSTANT
  Suitable      \* the names of ports with the VID and PID of a flight controller

ASSUME SerialScannerAssumption == Suitable \subseteq Names

VARIABLES
  plugged,      \* the ports that exist
  plugs,        \* how often each of them has appeared; Ports bounds it
  pc,           \* of run(): "listing" before comports(), "listed" after it
  listed,       \* what comports() returned
  seen_ports,   \* "new" stands for a name that is not in the dictionary
  inspections,  \* the tasks of run() that inspect a port
  served        \* history: a task was started since the port was last missed

scanVars == << plugged, plugs, pc, listed, seen_ports, inspections, served >>
allVars == << vars, scanVars >>

SerialPortState == {"to_yield", "yielded", "ignored", "inspecting", "new"}

ScanInit ==
  /\ Init
  /\ plugged = {} /\ plugs = [n \in Names |-> 0]
  /\ pc = "listing" /\ listed = {}
  /\ seen_ports = [n \in Names |-> "new"]
  /\ inspections = {}
  /\ served = [n \in Names |-> FALSE]

------------------------------------------------------------------------------
(* A device is plugged in, or comes back from a reboot; it goes away. *)
Plug(n) ==
  /\ n \notin plugged /\ << n, plugs[n] + 1 >> \in Ports
  /\ plugged' = plugged \union {n}
  /\ plugs' = [plugs EXCEPT ![n] = @ + 1]
  /\ UNCHANGED << vars, pc, listed, seen_ports, inspections, served >>

Unplug(n) ==
  /\ plugged' = plugged \ {n} /\ n \in plugged
  /\ UNCHANGED << vars, plugs, pc, listed, seen_ports, inspections, served >>

(* The next tick of periodic: comports() runs in a thread.  Even if it is  *)
(* late the loop has slept once, so that every inspection, which has no    *)
(* await, is over.                                                         *)
List ==
  /\ pc = "listing" /\ ~cancelled
  /\ inspections = {}
  /\ listed' = plugged
  /\ pc' = "listed"
  /\ UNCHANGED << vars, plugged, plugs, seen_ports, inspections, served >>

(* Mutants: ports that are not seen any more are remembered; a port that   *)
(* was yielded is not.                                                     *)
remembered(n) ==
  CASE n \in listed /\ seen_ports[n] = "to_yield" -> "yielded"
    [] n \in listed /\ seen_ports[n] = "new" -> "inspecting"
    [] OTHER -> seen_ports[n]
forgotten(n) ==
  CASE n \notin listed \/ seen_ports[n] = "to_yield" -> "new"
    [] n \in listed /\ seen_ports[n] = "new" -> "inspecting"
    [] OTHER -> seen_ports[n]

(* What a turn of the loop, its deletions included, makes of a name. *)
state_after(n) ==
  CASE n \notin listed -> "new"
    [] n \in listed /\ seen_ports[n] = "to_yield" -> "yielded"
    [] n \in listed /\ seen_ports[n] = "new" -> "inspecting"
    [] n \in listed /\ seen_ports[n] \in {"inspecting", "yielded", "ignored"} -> seen_ports[n]

(* The task that a target starts next. *)
NextTask(n) ==
  CHOOSE p \in Ports : /\ p[1] = n /\ task[p].pc = "new"
                       /\ \A q \in Ports : q[1] = n /\ task[q].pc = "new" => p[2] <= q[2]

(* A turn of the loop.  Nothing else runs between two targets: neither the *)
(* generators nor start_upload_to and its like wait for anything.          *)
Process ==
  /\ pc = "listed" /\ ~cancelled
  /\ LET yielded == {n \in listed : seen_ports[n] = "to_yield"}
         started == {NextTask(n) : n \in yielded}
     IN  /\ task' = [p \in Ports |-> IF p \in started THEN [task[p] EXCEPT !.pc = "queued"]
                                                      ELSE task[p]]
         /\ served' = [n \in Names |-> n \in yielded \/ (n \in listed /\ served[n])]
  /\ seen_ports' = [n \in Names |-> state_after(n)]
  /\ inspections' = inspections \union {n \in listed : seen_ports[n] = "new"}
  /\ pc' = "listing" /\ listed' = {}    \* no turn looks at an earlier list
  /\ UNCHANGED << borrowers, shown, errors, cancelled, plugged, plugs >>

(* _inspect_port and when_done. *)
Inspect(n) ==
  /\ n \in inspections /\ ~cancelled
  /\ seen_ports' = [seen_ports EXCEPT ![n] = IF n \in Suitable THEN "to_yield" ELSE "ignored"]
  /\ inspections' = inspections \ {n}
  /\ UNCHANGED << vars, plugged, plugs, pc, listed, served >>

(* The scanner never ends by itself: the program ends when it is cancelled. *)
ScanExit == cancelled /\ Exit /\ UNCHANGED scanVars

Device == \E n \in Names : Plug(n) \/ Unplug(n)
Scan == List \/ Process \/ (\E n \in Names : Inspect(n))
Tasks == Cancel \/ (\E p \in Ports : Rebooted(p) \/ Report(p) \/ Step(p))

ScanNext ==
  \/ Device
  \/ Scan
  \/ Tasks /\ UNCHANGED scanVars
  \/ ScanExit

ScanSpec ==
  /\ ScanInit /\ [][ScanNext]_allVars
  /\ WF_allVars(Scan)
  /\ \A p \in Ports : WF_allVars(Step(p) /\ UNCHANGED scanVars)

------------------------------------------------------------------------------
(* A task is started only for a suitable port that the scanner has not     *)
(* started one for since it last missed the port in a list: two tasks work *)
(* on the same port only if the device was gone in between.                *)
OneTaskPerStay ==
  [][\A p \in Ports : task[p].pc = "new" /\ task'[p].pc # "new" =>
       p[1] \in Suitable \intersect listed /\ ~served[p[1]]]_allVars

(* A suitable port that stays gets its task, however busy the other tasks  *)
(* are and however often it, or another port, has come and gone before. A  *)
(* port that a list has missed counts as a new one; one that goes and      *)
(* comes back between two lists does not, and keeps the task that it had.  *)
StayIsServed ==
  \A n \in Suitable :
    n \in plugged ~> (served[n] \/ n \notin plugged \/ cancelled)
==============================================================================
