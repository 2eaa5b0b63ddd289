--------------------------------- MODULE Boot ---------------------------------
(***************************************************************************)
(* Booting one tensor-parallel line: the orchestration script on the       *)
(* operator's host (dsv41_boot_tp4_v2.sh), the launcher it runs on every   *)
(* node over ssh (dsv41_tp4_launch.sh), the teardown around a gate row     *)
(* (dsv41_gate_run_v2.sh) and the kill of a chain (ladder_relaunch.sh).    *)
(*                                                                         *)
(* Every ssh may fail or time out; a launcher outlives its ssh once it has *)
(* printed its gate line.  Containers are vLLM ranks, outside the          *)
(* repository: they form an engine when one runs on every node.            *)
(***************************************************************************)
EXTENDS Integers

CONSTANTS
  NumRanks,              \* nodes of the line; rank 0 is the head
  MaxBoots,              \* bound: boots attempted
  MaxTries               \* health polls of a boot

ASSUME BootBounds == /\ NumRanks \in Nat \ {0, 1}
                     /\ MaxBoots \in Nat
                     /\ MaxTries \in Nat

VARIABLES
  boot, row,             \* the current boot; is it a gate row, torn down after
  pc, rank,              \* where the host is, and at which node
  tries,                 \* health polls left
  file,                  \* per node: the copy of the launcher it has
  launcher,              \* per node: the launcher process running there
  container,             \* per node: the container named CNAME
  log                    \* boot_tp4.log: markers of boots

vars == <<boot, row, pc, rank, tries, file, launcher, container, log>>

Ranks == 0 .. NumRanks - 1
Boots == 0 .. MaxBoots
Files == {"old", "new"}  \* the host's copy is the new one

NoLauncher == [boot |-> 0, file |-> "none", at |-> "none", attached |-> FALSE]
NoContainer == [boot |-> 0, file |-> "none", state |-> "none"]

(* A loaded rank holds the node's memory: MemFree and MemAvailable are low.*)
Loaded(r) == container[r].state = "loaded"
Running(r) == container[r].state \in {"starting", "loaded"}

(* What /health on the head answers: it may miss that a worker has exited. *)
Healthy == Loaded(0)

-----------------------------------------------------------------------------

Init ==
  /\ boot = 0 /\ row = FALSE
  /\ pc = "idle" /\ rank = 0
  /\ tries = 0
  /\ file \in [Ranks -> Files]
  /\ launcher = [r \in Ranks |-> NoLauncher]
  /\ container = [r \in Ranks |-> NoContainer]
  /\ log = {}

(* A gate row tears the line down first; boot_prod.sh does not.            *)
Start(isRow) ==
  /\ pc = "idle" /\ boot < MaxBoots
  /\ boot' = boot + 1 /\ row' = isRow
  /\ pc' = IF isRow THEN "teardown" ELSE "preflight"
  /\ rank' = 0
  /\ UNCHANGED <<tries, file, launcher, container, log>>

(* docker rm -f over ssh on each node in turn, the result unchecked: the   *)
(* teardown before and after a row, and launch_rank's cleanup.             *)
RemoveContainer ==
  /\ pc \in {"teardown", "cleanup", "final teardown"}
  /\ \/ container' = [container EXCEPT ![rank] = NoContainer]
     \/ UNCHANGED container
  /\ IF rank < NumRanks - 1 THEN rank' = rank + 1 /\ UNCHANGED pc
     ELSE /\ rank' = 0
          /\ pc' = CASE pc = "teardown" -> "preflight"
                     [] pc = "cleanup" -> "failed"
                     [] pc = "final teardown" -> "idle"
  /\ UNCHANGED <<boot, row, tries, file, launcher, log>>

Fails ==
  /\ pc' = "failed" /\ rank' = 0
  /\ UNCHANGED <<boot, row, tries, file, launcher, container, log>>

\* Fault: MemAvailable is not looked at.
PreflightNoMemory ==
  /\ pc = "preflight"
  /\ IF rank < NumRanks - 1 THEN rank' = rank + 1 /\ UNCHANGED pc
     ELSE rank' = 0 /\ pc' = "prep"
  /\ UNCHANGED <<boot, row, tries, file, launcher, container, log>>

(* One node passes: signature, image, mounts, and 100 GiB available.       *)
Preflight ==
  /\ pc = "preflight"
  /\ ~Loaded(rank)
  /\ IF rank < NumRanks - 1 THEN rank' = rank + 1 /\ UNCHANGED pc
     ELSE rank' = 0 /\ pc' = "prep"
  /\ UNCHANGED <<boot, row, tries, file, launcher, container, log>>

(* A node fails a check, or cannot be reached.                             *)
PreflightAborts == pc = "preflight" /\ Fails

(* dsv41_node_prep_v2.sh: image, patches and launcher agree on all nodes.  *)
Prep ==
  /\ pc = "prep"
  /\ \A r \in Ranks : file[r] = file[0]
  /\ pc' = "copy"
  /\ UNCHANGED <<boot, row, rank, tries, file, launcher, container, log>>

PrepAborts == pc = "prep" /\ Fails

\* Fault: the head is launched first.
CopyLauncherHeadFirst ==
  /\ pc = "copy"
  /\ file' \in {f \in [Ranks -> Files] : \A r \in Ranks : f[r] \in {file[r], "new"}}
  /\ pc' = "launch" /\ rank' = 0
  /\ UNCHANGED <<boot, row, tries, launcher, container, log>>

(* scp of the launcher to every node, the results unchecked; then the      *)
(* ranks are launched from the last worker down to the head.               *)
CopyLauncher ==
  /\ pc = "copy"
  /\ file' \in {f \in [Ranks -> Files] : \A r \in Ranks : f[r] \in {file[r], "new"}}
  /\ pc' = "launch" /\ rank' = NumRanks - 1
  /\ UNCHANGED <<boot, row, tries, launcher, container, log>>

(* launch_rank: ssh to the node's launcher.  A launcher left behind by an  *)
(* earlier boot has ended by then: its last steps take seconds, teardown,  *)
(* preflight and prep minutes.                                             *)
LaunchRank ==
  /\ pc = "launch"
  /\ \A r \in Ranks : launcher[r] = NoLauncher
  /\ launcher' = [launcher EXCEPT ![rank] =
       [boot |-> boot, file |-> file[rank], at |-> "gate", attached |-> TRUE]]
  /\ pc' = "launching"
  /\ UNCHANGED <<boot, row, rank, tries, file, container, log>>

\* Fault: a launcher that failed is not noticed.
LaunchedUnchecked ==
  /\ pc = "launching"
  /\ launcher[rank].at \in {"launched", "failed"}
  /\ launcher' = [launcher EXCEPT ![rank] = NoLauncher]
  /\ IF rank = 0 THEN pc' = "health" /\ tries' = MaxTries /\ UNCHANGED rank
     ELSE pc' = "launch" /\ rank' = rank - 1 /\ UNCHANGED tries
  /\ UNCHANGED <<boot, row, file, container, log>>

\* Fault: the loop over the ranks does not stop at the head.
LaunchedOnePastHead ==
  /\ pc = "launching"
  /\ launcher[rank].at = "launched"
  /\ launcher' = [launcher EXCEPT ![rank] = NoLauncher]
  /\ pc' = "launch" /\ rank' = rank - 1
  /\ UNCHANGED <<boot, row, tries, file, container, log>>

(* The output has "launched on": the next rank, or after the head the wait.*)
Launched ==
  /\ pc = "launching"
  /\ launcher[rank].at = "launched"
  /\ launcher' = [launcher EXCEPT ![rank] = NoLauncher]
  /\ IF rank = 0 THEN pc' = "health" /\ tries' = MaxTries /\ UNCHANGED rank
     ELSE pc' = "launch" /\ rank' = rank - 1 /\ UNCHANGED tries
  /\ UNCHANGED <<boot, row, file, container, log>>

(* It has not, the launcher having failed, or the ssh having died: then a  *)
(* launcher still at its gate dies of its next echo, a later one goes on.  *)
LaunchFailed ==
  /\ pc = "launching"
  /\ launcher' = [launcher EXCEPT ![rank] =
       IF @.at \in {"gate", "failed", "launched"} THEN NoLauncher
       ELSE [@ EXCEPT !.attached = FALSE]]
  /\ pc' = "cleanup" /\ rank' = 0
  /\ UNCHANGED <<boot, row, tries, file, container, log>>

\* Fault: the poll counts only when the head has a health endpoint.
PollUncounted ==
  /\ pc = "health" /\ tries > 0
  /\ Running(0)
  /\ UNCHANGED vars

(* A poll of /health fails and the head's container runs.                  *)
Poll ==
  /\ pc = "health" /\ tries > 0
  /\ Running(0)
  /\ tries' = tries - 1
  /\ UNCHANGED <<boot, row, pc, rank, file, launcher, container, log>>

(* The head exited, or the node did not answer: no container is removed.   *)
HeadGone == pc = "health" /\ tries > 0 /\ Fails

(* The loop ends, with an answer or without.                               *)
PollsEnd ==
  /\ pc = "health"
  /\ Healthy \/ tries = 0
  /\ pc' = "verdict"
  /\ UNCHANGED <<boot, row, rank, tries, file, launcher, container, log>>

(* One more poll decides.                                                  *)
DeclareHealthy ==
  /\ pc = "verdict" /\ Healthy
  /\ log' = log \cup {<<"HEALTHY", boot>>}
  /\ pc' = "bench"
  /\ UNCHANGED <<boot, row, rank, tries, file, launcher, container>>

NoHealth == pc = "verdict" /\ Fails

(* Smokes and benchmark, whose results are not looked at.                  *)
Bench ==
  /\ pc = "bench"
  /\ log' = log \cup {<<"BENCH-DONE", boot>>}
  /\ pc' = "done"
  /\ UNCHANGED <<boot, row, rank, tries, file, launcher, container>>

(* The script has exited: a row tears down, a production boot leaves all.  *)
End ==
  /\ pc \in {"failed", "done"}
  /\ pc' = IF row THEN "final teardown" ELSE "idle"
  /\ UNCHANGED <<boot, row, rank, tries, file, launcher, container, log>>

(* ladder_relaunch.sh kills the chain wherever it is and removes the       *)
(* containers.                                                             *)
KillChain ==
  /\ row /\ pc \notin {"idle", "final teardown"}
  /\ launcher' = [r \in Ranks |->
       IF launcher[r].at \in {"gate", "failed", "launched"} THEN NoLauncher
       ELSE [launcher[r] EXCEPT !.attached = FALSE]]
  /\ pc' = "final teardown" /\ rank' = 0
  /\ UNCHANGED <<boot, row, tries, file, container, log>>

-----------------------------------------------------------------------------
(* The launcher on node r.                                                 *)

Ends(r, at) ==
  launcher' = [launcher EXCEPT ![r] =
                 IF @.attached THEN [@ EXCEPT !.at = at] ELSE NoLauncher]

(* The memory gate comes before the old container is removed.              *)
MemGate(r) ==
  /\ launcher[r].at = "gate"
  /\ ~Loaded(r)
  /\ launcher' = [launcher EXCEPT ![r].at = "remove"]
  /\ UNCHANGED <<boot, row, pc, rank, tries, file, container, log>>

RemoveOld(r) ==
  /\ launcher[r].at = "remove"
  /\ container' = [container EXCEPT ![r] = NoContainer]
  /\ launcher' = [launcher EXCEPT ![r].at = "run"]
  /\ UNCHANGED <<boot, row, pc, rank, tries, file, log>>

(* docker run, refused when the name is taken.                             *)
DockerRun(r) ==
  /\ launcher[r].at = "run"
  /\ container[r] = NoContainer
  /\ container' = [container EXCEPT ![r] =
       [boot |-> launcher[r].boot, file |-> launcher[r].file, state |-> "starting"]]
  /\ Ends(r, "launched")
  /\ UNCHANGED <<boot, row, pc, rank, tries, file, log>>

(* The gate, a missing file, MemAvailable or docker refuses: set -e.       *)
LauncherExits(r) ==
  /\ launcher[r].at \in {"gate", "remove", "run"}
  /\ Ends(r, "failed")
  /\ UNCHANGED <<boot, row, pc, rank, tries, file, container, log>>

-----------------------------------------------------------------------------
(* The ranks.  With a container on every node they rendezvous and load, if *)
(* their configurations agree; a mismatch hangs silently.                  *)

EngineUp ==
  /\ \A r \in Ranks : container[r].state = "starting"
  /\ \A r \in Ranks : container[r].file = container[0].file
  /\ container' = [r \in Ranks |-> [container[r] EXCEPT !.state = "loaded"]]
  /\ UNCHANGED <<boot, row, pc, rank, tries, file, launcher, log>>

ContainerExits(r) ==
  /\ Running(r)
  /\ container' = [container EXCEPT ![r].state = "exited"]
  /\ UNCHANGED <<boot, row, pc, rank, tries, file, launcher, log>>

Host ==
  \/ RemoveContainer \/ Preflight \/ PreflightAborts \/ Prep \/ PrepAborts
  \/ CopyLauncher \/ LaunchRank \/ Launched \/ LaunchFailed
  \/ Poll \/ HeadGone \/ PollsEnd \/ DeclareHealthy \/ NoHealth \/ Bench \/ End

Node(r) == MemGate(r) \/ RemoveOld(r) \/ DockerRun(r) \/ LauncherExits(r)

Next ==
  \/ \E isRow \in BOOLEAN : Start(isRow)
  \/ Host \/ KillChain \/ EngineUp
  \/ \E r \in Ranks : Node(r) \/ ContainerExits(r)

(* What the host does by itself: the failures among its steps only when    *)
(* the state calls for them, or the timeout of the ssh to a launcher.      *)
HostProceeds ==
  \/ RemoveContainer
  \/ Preflight \/ (PreflightAborts /\ Loaded(rank))
  \/ Prep \/ (PrepAborts /\ \E r \in Ranks : file[r] # file[0])
  \/ CopyLauncher \/ LaunchRank \/ Launched \/ LaunchFailed
  \/ Poll \/ (HeadGone /\ ~Running(0)) \/ PollsEnd
  \/ DeclareHealthy \/ (NoHealth /\ ~Healthy) \/ Bench \/ End

(* Remote commands have timeouts and a launcher only local steps; nothing  *)
(* makes an engine come up, a node fail, a boot start or be killed.        *)
Fairness == WF_vars(HostProceeds) /\ \A r \in Ranks : WF_vars(Node(r))

Spec == Init /\ [][Next]_vars /\ Fairness

-----------------------------------------------------------------------------

TypeOK ==
  /\ boot \in Boots /\ row \in BOOLEAN
  /\ pc \in {"idle", "teardown", "preflight", "prep", "copy", "launch",
             "launching", "cleanup", "health", "verdict", "bench", "done",
             "failed", "final teardown"}
  /\ rank \in Ranks /\ tries \in 0 .. MaxTries
  /\ file \in [Ranks -> Files]
  /\ launcher \in [Ranks ->
       [boot : Boots, file : Files \cup {"none"}, attached : BOOLEAN,
        at : {"none", "gate", "remove", "run", "launched", "failed"}]]
  /\ container \in [Ranks ->
       [boot : Boots, file : Files \cup {"none"},
        state : {"none", "starting", "loaded", "exited"}]]
  /\ log \subseteq {"HEALTHY", "BENCH-DONE"} \X Boots

(* What a boot declares healthy, and benchmarks, is its own engine: no     *)
(* rank left over from a boot that failed, was killed or was not cleaned   *)
(* up takes part in it.                                                    *)
HealthyIsOneBoot ==
  [][DeclareHealthy => \A r \in Ranks : container[r].boot = boot]_vars

(* Worker-first: when the launcher its boot waits for starts the head, the *)
(* boot has started every worker, and no other boot has replaced one.      *)
WorkersBeforeHead ==
  [][DockerRun(0) /\ launcher[0].attached =>
       \A r \in Ranks \ {0} : container[r].boot = launcher[0].boot]_vars

(* An engine that was declared healthy loses a loaded rank to a teardown   *)
(* only, never to another boot's launchers or to its cleanup: its memory   *)
(* makes that boot stop at preflight.                                      *)
ServingSurvives ==
  [][\A r \in Ranks :
       /\ Loaded(r) /\ <<"HEALTHY", container[r].boot>> \in log
       /\ container'[r] = NoContainer
       => pc \in {"teardown", "final teardown"}]_vars

(* A boot ends, however its ranks, its nodes and their answers behave.     *)
BootEnds == pc # "idle" ~> pc = "idle"

(* "rank config mismatch -> silent hang (parity check)": the ranks a boot  *)
(* launches run the same launcher.                                         *)
LaunchersAgree ==
  \A r, q \in Ranks :
    container[r].boot = boot /\ container[q].boot = boot /\ boot > 0 =>
      container[r].file = container[q].file

=============================================================================
