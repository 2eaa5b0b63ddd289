------------------------------ MODULE Boot_proofs ------------------------------
(***************************************************************************)
(* Proofs, for every number of ranks, boots and polls, that a boot         *)
(* declares healthy its own engine only, that it starts the workers before *)
(* the head, and that no boot removes an engine that serves.               *)
(***************************************************************************)
EXTENDS Boot, TLAPS

Launcher ==
  [boot : Boots, file : Files \cup {"none"}, attached : BOOLEAN,
   at : {"none", "gate", "remove", "run", "launched", "failed"}]
Container ==
  [boot : Boots, file : Files \cup {"none"},
   state : {"none", "starting", "loaded", "exited"}]

Declared(b) == <<"HEALTHY", b>> \in log
Serving(r) == Loaded(r) /\ Declared(container[r].boot)

(* The ranks of which the current boot has started the container.          *)
Done(r) ==
  \/ pc \in {"launch", "launching"} /\ rank < r
  \/ pc = "launching" /\ r = rank /\ launcher[r].at = "launched"
  \/ pc \in {"health", "verdict"}

(* Only the rank being launched has a launcher that somebody waits for.    *)
OneLauncher ==
  /\ pc = "launching" => launcher[rank].attached /\ launcher[rank].boot = boot
  /\ \A r \in Ranks : launcher[r].attached => pc = "launching" /\ r = rank
  /\ pc = "launching" => \A r \in Ranks \ {rank} : launcher[r].at = "none"
  /\ (pc = "launch" /\ rank < NumRanks - 1) \/ pc \in {"health", "verdict", "bench", "done"} =>
       \A r \in Ranks : launcher[r].at = "none"

StartedByBoot == \A r \in Ranks : Done(r) => container[r].boot = boot

(* The ranks of an engine load together: the head, started last, no sooner *)
(* than the workers.                                                       *)
LoadedTogether ==
  Done(0) /\ Loaded(0) => \A r \in Ranks : container[r].state # "starting"

(* A boot is declared healthy at its end; its ranks do not start again.    *)
DeclaredEnded ==
  /\ \A b \in Boots : Declared(b) =>
       \/ b < boot
       \/ b = boot /\ pc \in {"bench", "done", "idle", "final teardown"}
  /\ \A r \in Ranks : Declared(container[r].boot) => container[r].state # "starting"
  /\ \A r \in Ranks : launcher[r].at # "none" => ~Declared(launcher[r].boot)

(* Nothing serves on a node that passed preflight, nor beside a launcher.  *)
NothingServes ==
  /\ \A r \in Ranks :
       \/ pc = "preflight" /\ r < rank
       \/ pc \in {"prep", "copy", "launch", "launching", "cleanup", "health", "verdict"}
       => ~Serving(r)
  /\ (\E r \in Ranks : launcher[r].at # "none") => \A q \in Ranks : ~Serving(q)

BInv == TypeOK /\ OneLauncher /\ StartedByBoot /\ LoadedTogether /\ DeclaredEnded /\ NothingServes

-----------------------------------------------------------------------------

(* What the steps do to launchers and containers.                          *)

LEMMA Types ==
  ASSUME TypeOK
  PROVE  /\ launcher \in [Ranks -> Launcher] /\ container \in [Ranks -> Container]
         /\ NoLauncher \in Launcher /\ NoContainer \in Container
         /\ NumRanks \in Nat /\ NumRanks > 1 /\ 0 \in Ranks /\ NumRanks - 1 \in Ranks
         /\ \A r \in Ranks : r \in Int /\ 0 <= r /\ r <= NumRanks - 1
<1>1. launcher \in [Ranks -> Launcher] /\ container \in [Ranks -> Container]
  BY DEF TypeOK, Launcher, Container
<1>2. 0 \in Boots
  BY BootBounds DEF Boots
<1>3. NoLauncher \in Launcher /\ NoContainer \in Container
  BY <1>2 DEF Launcher, Container, NoLauncher, NoContainer
<1>4. /\ NumRanks \in Nat /\ NumRanks > 1 /\ 0 \in Ranks /\ NumRanks - 1 \in Ranks
      /\ \A r \in Ranks : r \in Int /\ 0 <= r /\ r <= NumRanks - 1
  BY BootBounds DEF Ranks
<1> QED BY <1>1, <1>3, <1>4

LEMMA NodeEffect ==
  ASSUME TypeOK, NEW r \in Ranks, Node(r)
  PROVE  /\ UNCHANGED <<boot, row, pc, rank, tries, file, log>>
         /\ launcher' \in [Ranks -> Launcher] /\ container' \in [Ranks -> Container]
         /\ launcher[r].at # "none"
         /\ \A q \in Ranks \ {r} : launcher'[q] = launcher[q] /\ container'[q] = container[q]
         /\ \/ ~launcher[r].attached /\ ~launcher'[r].attached /\ launcher'[r].at = "none"
            \/ /\ launcher'[r].attached = launcher[r].attached
               /\ launcher'[r].boot = launcher[r].boot
         /\ \/ container'[r] = container[r] /\ launcher'[r].at # "launched"
            \/ container'[r].state = "none" /\ launcher'[r].at # "launched"
            \/ container'[r].boot = launcher[r].boot /\ container'[r].state = "starting"
<1>1. /\ launcher \in [Ranks -> Launcher] /\ container \in [Ranks -> Container]
      /\ NoLauncher \in Launcher /\ NoContainer \in Container
  BY Types
<1>2. PICK me \in Launcher : me = launcher[r]
  BY <1>1
<1>3. CASE MemGate(r)
  <2>1. launcher' = [launcher EXCEPT ![r] = [me EXCEPT !.at = "remove"]] /\ me.at = "gate"
    BY <1>1, <1>2, <1>3 DEF MemGate
  <2>2. [me EXCEPT !.at = "remove"] \in Launcher /\ me.at # "none"
    BY <1>2, <2>1 DEF Launcher, NoLauncher
  <2> QED BY <1>1, <1>2, <1>3, <2>1, <2>2 DEF MemGate, Launcher
<1>4. CASE RemoveOld(r)
  <2>1. launcher' = [launcher EXCEPT ![r] = [me EXCEPT !.at = "run"]] /\ me.at = "remove"
    BY <1>1, <1>2, <1>4 DEF RemoveOld
  <2>2. [me EXCEPT !.at = "run"] \in Launcher /\ me.at # "none"
    BY <1>2, <2>1 DEF Launcher, NoLauncher
  <2>3. NoContainer.state = "none"
    BY DEF NoContainer
  <2> QED BY <1>1, <1>2, <1>4, <2>1, <2>2, <2>3 DEF RemoveOld, Launcher
<1>5. ASSUME NEW at \in {"launched", "failed"}, Ends(r, at)
      PROVE  /\ launcher' \in [Ranks -> Launcher]
             /\ \A q \in Ranks \ {r} : launcher'[q] = launcher[q]
             /\ \/ ~launcher[r].attached /\ ~launcher'[r].attached /\ launcher'[r].at = "none"
                \/ /\ launcher'[r].attached = launcher[r].attached
                   /\ launcher'[r].boot = launcher[r].boot /\ launcher'[r].at = at
  <2> DEFINE new == IF me.attached THEN [me EXCEPT !.at = at] ELSE NoLauncher
  <2>1. launcher' = [launcher EXCEPT ![r] = new]
    BY <1>1, <1>2, <1>5 DEF Ends
  <2>2. new \in Launcher
    BY <1>1, <1>2 DEF Launcher
  <2>3. \/ ~me.attached /\ ~new.attached /\ new.at = "none"
        \/ new.attached = me.attached /\ new.boot = me.boot /\ new.at = at
    BY <1>2 DEF Launcher, NoLauncher
  <2> HIDE DEF new
  <2> QED BY <1>1, <1>2, <2>1, <2>2, <2>3
<1>6. CASE DockerRun(r)
  <2> DEFINE new == [boot |-> me.boot, file |-> me.file, state |-> "starting"]
  <2>1. /\ container' = [container EXCEPT ![r] = new] /\ me.at = "run" /\ Ends(r, "launched")
        /\ UNCHANGED <<boot, row, pc, rank, tries, file, log>>
    BY <1>2, <1>6 DEF DockerRun
  <2>2. new \in Container /\ new.boot = me.boot /\ new.state = "starting" /\ me.at # "none"
    BY <1>2, <2>1 DEF Launcher, Container, NoLauncher
  <2> HIDE DEF new
  <2> QED BY <1>1, <1>2, <1>5, <2>1, <2>2
<1>7. CASE LauncherExits(r)
  <2>1. me.at \in {"gate", "remove", "run"} /\ Ends(r, "failed") /\ container' = container
        /\ UNCHANGED <<boot, row, pc, rank, tries, file, log>>
    BY <1>2, <1>7 DEF LauncherExits
  <2>2. me.at # "none" /\ NoLauncher.at # "launched"
    BY <2>1 DEF NoLauncher
  <2> QED BY <1>1, <1>2, <1>5, <2>1, <2>2
<1> QED BY <1>3, <1>4, <1>6, <1>7 DEF Node

LEMMA ExitEffect ==
  ASSUME TypeOK, NEW r \in Ranks, ContainerExits(r)
  PROVE  /\ UNCHANGED <<boot, row, pc, rank, tries, file, launcher, log>>
         /\ container' \in [Ranks -> Container]
         /\ \A q \in Ranks : /\ container'[q].boot = container[q].boot
                             /\ container'[q].state \in {container[q].state, "exited"}
BY Types DEF ContainerExits, Container

LEMMA UpEffect ==
  ASSUME TypeOK, EngineUp
  PROVE  /\ UNCHANGED <<boot, row, pc, rank, tries, file, launcher, log>>
         /\ container' \in [Ranks -> Container]
         /\ \A q \in Ranks : /\ container'[q].boot = container[q].boot
                             /\ container[q].state = "starting" /\ container'[q].state = "loaded"
BY Types DEF EngineUp, Container

(* A launcher whose ssh has gone is dead, or goes on by itself.            *)
Detached(me) == IF me.at \in {"gate", "failed", "launched"} THEN NoLauncher
                ELSE [me EXCEPT !.attached = FALSE]

LEMMA DetachedFacts ==
  ASSUME NEW me \in Launcher
  PROVE  /\ Detached(me) \in Launcher /\ ~Detached(me).attached
         /\ Detached(me).at # "none" => me.at # "none" /\ Detached(me).boot = me.boot
<1>1. NoLauncher \in Launcher /\ ~NoLauncher.attached /\ NoLauncher.at = "none"
  BY BootBounds DEF Launcher, NoLauncher, Boots
<1>2. LET new == [me EXCEPT !.attached = FALSE] IN
      new \in Launcher /\ ~new.attached /\ new.boot = me.boot /\ new.at = me.at
  BY DEF Launcher
<1> QED BY <1>1, <1>2 DEF Detached

LEMMA KillEffect ==
  ASSUME TypeOK, KillChain
  PROVE  /\ UNCHANGED <<boot, row, tries, file, container, log>> /\ pc' = "final teardown"
         /\ rank' = 0 /\ launcher' \in [Ranks -> Launcher]
         /\ \A q \in Ranks : /\ ~launcher'[q].attached
                             /\ launcher'[q].at # "none" =>
                                  launcher[q].at # "none" /\ launcher'[q].boot = launcher[q].boot
<1>1. launcher' = [r \in Ranks |-> Detached(launcher[r])]
  BY DEF KillChain, Detached
<1>2. \A r \in Ranks : launcher[r] \in Launcher
  BY Types
<1>3. launcher' \in [Ranks -> Launcher]
  BY <1>1, <1>2, DetachedFacts
<1>4. ASSUME NEW q \in Ranks
      PROVE  /\ ~launcher'[q].attached
             /\ launcher'[q].at # "none" =>
                  launcher[q].at # "none" /\ launcher'[q].boot = launcher[q].boot
  BY <1>1, <1>2, DetachedFacts
<1> QED BY <1>3, <1>4 DEF KillChain

LEMMA FailedEffect ==
  ASSUME TypeOK, LaunchFailed
  PROVE  /\ UNCHANGED <<boot, row, tries, file, container, log>>
         /\ pc = "launching" /\ pc' = "cleanup"
         /\ rank' = 0 /\ launcher' \in [Ranks -> Launcher]
         /\ \A q \in Ranks \ {rank} : launcher'[q] = launcher[q]
         /\ ~launcher'[rank].attached
         /\ launcher'[rank].at # "none" =>
              launcher[rank].at # "none" /\ launcher'[rank].boot = launcher[rank].boot
<1>1. launcher' = [launcher EXCEPT ![rank] = Detached(launcher[rank])] /\ rank \in Ranks
  BY DEF LaunchFailed, TypeOK, Detached
<1>2. launcher \in [Ranks -> Launcher]
  BY Types
<1> QED BY <1>1, <1>2, DetachedFacts DEF LaunchFailed

LEMMA LaunchEffect ==
  ASSUME TypeOK, LaunchRank
  PROVE  /\ UNCHANGED <<boot, row, rank, tries, file, container, log>>
         /\ pc = "launch" /\ pc' = "launching" /\ rank \in Ranks
         /\ launcher' \in [Ranks -> Launcher]
         /\ \A q \in Ranks : launcher[q].at = "none" /\ ~launcher[q].attached
         /\ \A q \in Ranks \ {rank} : launcher'[q] = launcher[q]
         /\ launcher'[rank].attached /\ launcher'[rank].boot = boot
         /\ launcher'[rank].at = "gate"
<1> DEFINE new == [boot |-> boot, file |-> file[rank], at |-> "gate", attached |-> TRUE]
<1>1. launcher' = [launcher EXCEPT ![rank] = new] /\ rank \in Ranks
  BY DEF LaunchRank, TypeOK
<1>2. new \in Launcher /\ new.attached /\ new.boot = boot /\ new.at = "gate"
  BY <1>1 DEF Launcher, TypeOK
<1> HIDE DEF new
<1>3. NoLauncher.at = "none" /\ ~NoLauncher.attached
  BY DEF NoLauncher
<1> QED BY <1>1, <1>2, <1>3, Types DEF LaunchRank

LEMMA LaunchedEffect ==
  ASSUME TypeOK, Launched
  PROVE  /\ UNCHANGED <<boot, row, file, container, log>>
         /\ pc = "launching" /\ rank \in Ranks /\ launcher[rank].at = "launched"
         /\ launcher' \in [Ranks -> Launcher]
         /\ launcher'[rank].at = "none" /\ ~launcher'[rank].attached
         /\ \A q \in Ranks \ {rank} : launcher'[q] = launcher[q]
         /\ IF rank = 0 THEN pc' = "health" /\ tries' = MaxTries /\ rank' = rank
            ELSE pc' = "launch" /\ rank' = rank - 1 /\ tries' = tries
<1>1. NoLauncher.at = "none" /\ ~NoLauncher.attached
  BY DEF NoLauncher
<1> QED BY <1>1, Types DEF Launched, TypeOK

LEMMA RemoveEffect ==
  ASSUME TypeOK, RemoveContainer
  PROVE  /\ UNCHANGED <<boot, row, tries, file, launcher, log>>
         /\ container' \in [Ranks -> Container]
         /\ \A q \in Ranks : \/ container'[q] = container[q]
                            \/ container'[q].state = "none"
         /\ \/ pc = "teardown" /\ pc' \in {"teardown", "preflight"} /\ (pc' = "preflight" => rank' = 0)
            \/ pc = "cleanup" /\ pc' \in {"cleanup", "failed"}
            \/ pc = "final teardown" /\ pc' \in {"final teardown", "idle"}
         /\ rank' \in Ranks
<1>1. /\ UNCHANGED <<boot, row, tries, file, launcher, log>>
      /\ container' = [container EXCEPT ![rank] = NoContainer] \/ container' = container
      /\ pc \in {"teardown", "cleanup", "final teardown"}
  BY DEF RemoveContainer
<1>2. /\ container' \in [Ranks -> Container]
      /\ \A q \in Ranks : container'[q] = container[q] \/ container'[q].state = "none"
  <2>1. NoContainer.state = "none"
    BY DEF NoContainer
  <2> QED BY <1>1, <2>1, Types
<1>3. CASE rank < NumRanks - 1
  <2>1. rank' = rank + 1 /\ pc' = pc
    BY <1>3 DEF RemoveContainer
  <2>2. rank' \in Ranks
    <3>1. rank \in 0 .. NumRanks - 1 /\ NumRanks \in Nat
      BY BootBounds DEF TypeOK, Ranks
    <3> QED BY <1>3, <2>1, <3>1 DEF Ranks
  <2> QED BY <1>1, <1>2, <2>1, <2>2
<1>4. CASE ~(rank < NumRanks - 1)
  <2>1. rank' = 0 /\ pc' = CASE pc = "teardown" -> "preflight"
                             [] pc = "cleanup" -> "failed"
                             [] pc = "final teardown" -> "idle"
    BY <1>4 DEF RemoveContainer
  <2> QED BY <1>1, <1>2, <2>1, Types
<1> QED BY <1>3, <1>4

-----------------------------------------------------------------------------

LEMMA TypeInit == Init => TypeOK
<1> SUFFICES ASSUME Init PROVE TypeOK
  OBVIOUS
<1>1. NoLauncher \in Launcher /\ NoContainer \in Container /\ 0 \in Ranks /\ 0 \in Boots
  BY BootBounds DEF Launcher, Container, NoLauncher, NoContainer, Boots, Ranks
<1>2. launcher \in [Ranks -> Launcher] /\ container \in [Ranks -> Container]
  BY <1>1 DEF Init
<1>3. /\ launcher \in [Ranks ->
           [boot : Boots, file : Files \cup {"none"}, attached : BOOLEAN,
            at : {"none", "gate", "remove", "run", "launched", "failed"}]]
      /\ container \in [Ranks ->
           [boot : Boots, file : Files \cup {"none"},
            state : {"none", "starting", "loaded", "exited"}]]
  BY <1>2 DEF Launcher, Container
<1>4. 0 \in 0 .. MaxTries
  BY BootBounds
<1> QED BY <1>1, <1>3, <1>4 DEF Init, TypeOK

LEMMA TypeStep == TypeOK /\ [Next]_vars => TypeOK'
<1> SUFFICES ASSUME TypeOK, [Next]_vars PROVE TypeOK'
  OBVIOUS
<1>0. Ranks = 0 .. NumRanks - 1 /\ Boots = 0 .. MaxBoots /\ NumRanks \in Nat /\ NumRanks > 1
      /\ MaxBoots \in Nat /\ MaxTries \in Nat
  BY BootBounds DEF Ranks, Boots
<1>1. ASSUME NEW isRow \in BOOLEAN, Start(isRow) PROVE TypeOK'
  BY <1>0, <1>1 DEF Start, TypeOK
<1>2. CASE Preflight
  <2>1. rank' \in Ranks /\ pc' \in {"preflight", "prep"}
    <3>1. rank \in 0 .. NumRanks - 1
      BY <1>0 DEF TypeOK
    <3> QED BY <1>0, <1>2, <3>1 DEF Preflight
  <2> QED BY <1>2, <2>1 DEF Preflight, TypeOK
<1>3. CASE PreflightAborts
  BY <1>0, <1>3 DEF PreflightAborts, Fails, TypeOK
<1>4. CASE Prep
  BY <1>0, <1>4 DEF Prep, TypeOK
<1>5. CASE PrepAborts
  BY <1>0, <1>5 DEF PrepAborts, Fails, TypeOK
<1>6. CASE CopyLauncher
  BY <1>0, <1>6 DEF CopyLauncher, TypeOK
<1>7. CASE Poll
  BY <1>0, <1>7 DEF Poll, TypeOK
<1>8. CASE HeadGone
  BY <1>0, <1>8 DEF HeadGone, Fails, TypeOK
<1>9. CASE PollsEnd
  BY <1>0, <1>9 DEF PollsEnd, TypeOK
<1>10. CASE NoHealth
  BY <1>0, <1>10 DEF NoHealth, Fails, TypeOK
<1>11. CASE Bench
  BY <1>0, <1>11 DEF Bench, TypeOK
<1>12. CASE End
  BY <1>0, <1>12 DEF End, TypeOK
<1>13. CASE DeclareHealthy
  BY <1>0, <1>13 DEF DeclareHealthy, TypeOK
<1>14. CASE RemoveContainer
  BY <1>0, <1>14, RemoveEffect DEF TypeOK, Launcher, Container
<1>15. CASE LaunchRank
  BY <1>0, <1>15, LaunchEffect DEF TypeOK, Launcher, Container
<1>16. CASE Launched
  <2>1. rank' \in Ranks /\ tries' \in 0 .. MaxTries /\ launcher' \in [Ranks -> Launcher]
    <3>1. rank \in 0 .. NumRanks - 1 /\ tries \in 0 .. MaxTries
      BY <1>0 DEF TypeOK
    <3> QED BY <1>0, <1>16, <3>1, LaunchedEffect
  <2>2. /\ UNCHANGED <<boot, row, file, container, log>>
        /\ pc' \in {"launch", "health", "cleanup", "final teardown"}
    BY <1>16, LaunchedEffect
  <2> QED BY <2>1, <2>2 DEF TypeOK, Launcher
<1>17. CASE LaunchFailed
  <2>1. rank' \in Ranks /\ tries' \in 0 .. MaxTries /\ launcher' \in [Ranks -> Launcher]
    <3>1. rank \in 0 .. NumRanks - 1 /\ tries \in 0 .. MaxTries
      BY <1>0 DEF TypeOK
    <3> QED BY <1>0, <1>17, <3>1, FailedEffect
  <2>2. /\ UNCHANGED <<boot, row, file, container, log>>
        /\ pc' \in {"launch", "health", "cleanup", "final teardown"}
    BY <1>17, FailedEffect
  <2> QED BY <2>1, <2>2 DEF TypeOK, Launcher
<1>18. CASE KillChain
  <2>1. rank' \in Ranks /\ tries' \in 0 .. MaxTries /\ launcher' \in [Ranks -> Launcher]
    <3>1. rank \in 0 .. NumRanks - 1 /\ tries \in 0 .. MaxTries
      BY <1>0 DEF TypeOK
    <3>2. 0 \in 0 .. NumRanks - 1
      BY <1>0
    <3> QED BY <1>0, <1>18, <3>1, <3>2, KillEffect
  <2>2. /\ UNCHANGED <<boot, row, file, container, log>>
        /\ pc' \in {"launch", "health", "cleanup", "final teardown"}
    BY <1>18, KillEffect
  <2> QED BY <2>1, <2>2 DEF TypeOK, Launcher
<1>19. CASE EngineUp
  BY <1>0, <1>19, UpEffect DEF TypeOK, Launcher, Container
<1>20. ASSUME NEW r \in Ranks, Node(r) PROVE TypeOK'
  BY <1>20, NodeEffect DEF TypeOK, Launcher, Container
<1>21. ASSUME NEW r \in Ranks, ContainerExits(r) PROVE TypeOK'
  BY <1>21, ExitEffect DEF TypeOK, Container
<1>22. CASE UNCHANGED vars
  BY <1>22 DEF vars, TypeOK
<1> QED BY <1>1, <1>2, <1>3, <1>4, <1>5, <1>6, <1>7, <1>8, <1>9, <1>10, <1>11, <1>12, <1>13, <1>14, <1>15, <1>16, <1>17, <1>18, <1>19, <1>20, <1>21, <1>22 DEF Next, Host

LEMMA BInvStep == BInv /\ [Next]_vars => BInv'
<1> SUFFICES ASSUME BInv, [Next]_vars PROVE BInv'
  OBVIOUS
<1> USE DEF Declared, Serving, Loaded, Done
<1>0. /\ TypeOK /\ OneLauncher /\ StartedByBoot /\ LoadedTogether /\ DeclaredEnded /\ NothingServes
      /\ TypeOK' /\ Ranks = 0 .. NumRanks - 1 /\ Boots = 0 .. MaxBoots /\ 0 \in Ranks
      /\ NumRanks \in Nat /\ NumRanks > 1 /\ MaxBoots \in Nat
      /\ rank \in Ranks /\ boot \in Boots /\ rank' \in Ranks /\ boot' \in Boots
  <2>1. TypeOK /\ TypeOK'
    BY TypeStep DEF BInv
  <2>2. rank \in Ranks /\ boot \in Boots /\ rank' \in Ranks /\ boot' \in Boots
    BY <2>1 DEF TypeOK, Ranks, Boots
  <2>3. /\ Ranks = 0 .. NumRanks - 1 /\ Boots = 0 .. MaxBoots /\ 0 \in Ranks
        /\ NumRanks \in Nat /\ NumRanks > 1 /\ MaxBoots \in Nat
    BY BootBounds DEF Ranks, Boots
  <2> QED BY <2>1, <2>2, <2>3 DEF BInv
<1>a. launcher \in [Ranks -> Launcher] /\ container \in [Ranks -> Container]
  BY <1>0, Types
<1>1. ASSUME NEW isRow \in BOOLEAN, Start(isRow) PROVE BInv'
  <2>1. OneLauncher'
    BY <1>0, <1>1 DEF Start, OneLauncher
  <2>2. StartedByBoot'
    BY <1>0, <1>1 DEF Start, OneLauncher, StartedByBoot
  <2>3. LoadedTogether'
    BY <1>0, <1>1 DEF Start, OneLauncher, LoadedTogether
  <2>4. DeclaredEnded'
    BY <1>0, <1>1 DEF Start, OneLauncher, LoadedTogether, StartedByBoot, DeclaredEnded
  <2>5. NothingServes'
    BY <1>0, <1>1 DEF Start, OneLauncher, DeclaredEnded, NothingServes
  <2> QED BY <1>0, <2>1, <2>2, <2>3, <2>4, <2>5 DEF BInv
<1>2. CASE Preflight \/ PreflightAborts \/ Prep \/ PrepAborts \/ CopyLauncher
  <2>1. OneLauncher'
    BY <1>0, <1>2
    DEF Preflight, PreflightAborts, Prep, PrepAborts, CopyLauncher, Fails,
        OneLauncher
  <2>2. StartedByBoot'
    BY <1>0, <1>2
    DEF Preflight, PreflightAborts, Prep, PrepAborts, CopyLauncher, Fails,
        OneLauncher, StartedByBoot
  <2>3. LoadedTogether'
    BY <1>0, <1>2
    DEF Preflight, PreflightAborts, Prep, PrepAborts, CopyLauncher, Fails,
        OneLauncher, LoadedTogether
  <2>4. DeclaredEnded'
    BY <1>0, <1>2
    DEF Preflight, PreflightAborts, Prep, PrepAborts, CopyLauncher, Fails,
        OneLauncher, LoadedTogether, StartedByBoot, DeclaredEnded
  <2>5. NothingServes'
    <3>1. CASE Preflight
      BY <1>0, <3>1 DEF Preflight, NothingServes
    <3>2. CASE Prep \/ CopyLauncher
      BY <1>0, <3>2 DEF Prep, CopyLauncher, NothingServes
    <3>3. CASE PreflightAborts \/ PrepAborts
      BY <1>0, <3>3 DEF PreflightAborts, PrepAborts, Fails, NothingServes
    <3> QED BY <1>2, <3>1, <3>2, <3>3
  <2> QED BY <1>0, <2>1, <2>2, <2>3, <2>4, <2>5 DEF BInv
<1>3. CASE Poll \/ HeadGone \/ PollsEnd \/ NoHealth \/ Bench \/ End
  <2>1. OneLauncher'
    BY <1>0, <1>3
    DEF Poll, HeadGone, PollsEnd, NoHealth, Bench, End, Healthy, Fails,
        OneLauncher
  <2>2. StartedByBoot'
    BY <1>0, <1>3
    DEF Poll, HeadGone, PollsEnd, NoHealth, Bench, End, Healthy, Fails,
        OneLauncher, StartedByBoot
  <2>3. LoadedTogether'
    BY <1>0, <1>3
    DEF Poll, HeadGone, PollsEnd, NoHealth, Bench, End, Healthy, Fails,
        OneLauncher, LoadedTogether
  <2>4. DeclaredEnded'
    BY <1>0, <1>3
    DEF Poll, HeadGone, PollsEnd, NoHealth, Bench, End, Healthy, Fails,
        OneLauncher, LoadedTogether, StartedByBoot, DeclaredEnded
  <2>5. NothingServes'
    BY <1>0, <1>3
    DEF Poll, HeadGone, PollsEnd, NoHealth, Bench, End, Healthy, Fails,
        OneLauncher, DeclaredEnded, NothingServes
  <2> QED BY <1>0, <2>1, <2>2, <2>3, <2>4, <2>5 DEF BInv
<1>4. CASE DeclareHealthy
  <2>1. OneLauncher'
    BY <1>0, <1>4 DEF DeclareHealthy, Healthy, OneLauncher
  <2>2. StartedByBoot'
    BY <1>0, <1>4 DEF DeclareHealthy, Healthy, OneLauncher, StartedByBoot
  <2>3. LoadedTogether'
    BY <1>0, <1>4 DEF DeclareHealthy, Healthy, OneLauncher, LoadedTogether
  <2>4. DeclaredEnded'
    BY <1>0, <1>4 DEF DeclareHealthy, Healthy, OneLauncher, LoadedTogether, StartedByBoot, DeclaredEnded
  <2>5. NothingServes'
    BY <1>0, <1>4 DEF DeclareHealthy, Healthy, OneLauncher, DeclaredEnded, NothingServes
  <2> QED BY <1>0, <2>1, <2>2, <2>3, <2>4, <2>5 DEF BInv
<1>5. CASE RemoveContainer
  <2>1. OneLauncher'
    BY <1>0, <1>a, <1>5, RemoveEffect DEF OneLauncher
  <2>2. StartedByBoot'
    BY <1>0, <1>a, <1>5, RemoveEffect DEF OneLauncher, StartedByBoot
  <2>3. LoadedTogether'
    BY <1>0, <1>a, <1>5, RemoveEffect DEF OneLauncher, LoadedTogether
  <2>4. DeclaredEnded'
    BY <1>0, <1>a, <1>5, RemoveEffect DEF OneLauncher, LoadedTogether, StartedByBoot, DeclaredEnded
  <2>5. NothingServes'
    <3>1. ASSUME NEW q \in Ranks, Serving(q)' PROVE Serving(q)
      BY <1>0, <1>a, <1>5, <3>1, RemoveEffect
    <3>2. ASSUME NEW q \in Ranks, Serving(q)',
                 \/ pc' = "preflight" /\ q < rank'
                 \/ pc' \in {"prep", "copy", "launch", "launching", "cleanup", "health", "verdict"}
          PROVE FALSE
      <4>1. \/ pc = "teardown" /\ pc' \in {"teardown", "preflight"} /\ (pc' = "preflight" => rank' = 0)
            \/ pc = "cleanup" /\ pc' \in {"cleanup", "failed"}
            \/ pc = "final teardown" /\ pc' \in {"final teardown", "idle"}
        BY <1>0, <1>5, RemoveEffect
      <4>2. ~(q < 0)
        BY <1>0
      <4>4. pc = "cleanup"
        BY <3>2, <4>1, <4>2
      <4>3. Serving(q)
        BY <3>1, <3>2
      <4> QED BY <1>0, <4>4, <4>3 DEF NothingServes
    <3>3. ASSUME NEW q \in Ranks, Serving(q)', NEW p \in Ranks, launcher'[p].at # "none" PROVE FALSE
      <4>1. \E n \in Ranks : launcher[n].at # "none"
        BY <1>0, <1>5, <3>3, RemoveEffect
      <4> QED BY <3>1, <3>3, <4>1, <1>0 DEF NothingServes
    <3> QED BY <3>2, <3>3 DEF NothingServes
  <2> QED BY <1>0, <2>1, <2>2, <2>3, <2>4, <2>5 DEF BInv
<1>6. CASE LaunchRank
  <2>1. OneLauncher'
    BY <1>0, <1>a, <1>6, LaunchEffect DEF OneLauncher
  <2>2. StartedByBoot'
    BY <1>0, <1>a, <1>6, LaunchEffect DEF OneLauncher, StartedByBoot
  <2>3. LoadedTogether'
    BY <1>0, <1>a, <1>6, LaunchEffect DEF OneLauncher, LoadedTogether
  <2>4. DeclaredEnded'
    BY <1>0, <1>a, <1>6, LaunchEffect DEF OneLauncher, LoadedTogether, StartedByBoot, DeclaredEnded
  <2>5. NothingServes'
    BY <1>0, <1>a, <1>6, LaunchEffect DEF OneLauncher, DeclaredEnded, NothingServes
  <2> QED BY <1>0, <2>1, <2>2, <2>3, <2>4, <2>5 DEF BInv
<1>7. CASE Launched
  <2>1. OneLauncher'
    BY <1>0, <1>a, <1>7, LaunchedEffect DEF OneLauncher
  <2>2. StartedByBoot'
    BY <1>0, <1>a, <1>7, LaunchedEffect DEF OneLauncher, StartedByBoot
  <2>3. LoadedTogether'
    BY <1>0, <1>a, <1>7, LaunchedEffect DEF OneLauncher, LoadedTogether
  <2>4. DeclaredEnded'
    BY <1>0, <1>a, <1>7, LaunchedEffect DEF OneLauncher, LoadedTogether, StartedByBoot, DeclaredEnded
  <2>5. NothingServes'
    BY <1>0, <1>a, <1>7, LaunchedEffect DEF OneLauncher, DeclaredEnded, NothingServes
  <2> QED BY <1>0, <2>1, <2>2, <2>3, <2>4, <2>5 DEF BInv
<1>8. CASE LaunchFailed
  <2>1. OneLauncher'
    BY <1>0, <1>a, <1>8, FailedEffect DEF OneLauncher
  <2>2. StartedByBoot'
    BY <1>0, <1>a, <1>8, FailedEffect DEF OneLauncher, StartedByBoot
  <2>3. LoadedTogether'
    BY <1>0, <1>a, <1>8, FailedEffect DEF OneLauncher, LoadedTogether
  <2>4. DeclaredEnded'
    <3>1. \A b \in Boots : Declared(b)' =>
            \/ b < boot'
            \/ b = boot' /\ pc' \in {"bench", "done", "idle", "final teardown"}
      BY <1>0, <1>8, FailedEffect DEF OneLauncher, DeclaredEnded
    <3>2. ASSUME NEW q \in Ranks, Declared(container[q].boot)' PROVE container'[q].state # "starting"
      BY <1>0, <1>a, <1>8, <3>2, FailedEffect DEF DeclaredEnded
    <3>3. ASSUME NEW q \in Ranks, launcher'[q].at # "none" PROVE ~Declared(launcher[q].boot)'
      BY <1>0, <1>a, <1>8, <3>3, FailedEffect DEF DeclaredEnded
    <3> QED BY <3>1, <3>2, <3>3 DEF DeclaredEnded
  <2>5. NothingServes'
    <3>1. ASSUME NEW q \in Ranks, Serving(q)' PROVE Serving(q)
      BY <1>0, <1>a, <1>8, <3>1, FailedEffect
    <3>2. ASSUME NEW q \in Ranks, Serving(q)',
                 \/ pc' = "preflight" /\ q < rank'
                 \/ pc' \in {"prep", "copy", "launch", "launching", "cleanup", "health", "verdict"}
          PROVE FALSE
      BY <1>0, <1>8, <3>1, <3>2, FailedEffect DEF NothingServes
    <3>3. ASSUME NEW q \in Ranks, Serving(q)', NEW p \in Ranks, launcher'[p].at # "none" PROVE FALSE
      <4>1. \E n \in Ranks : launcher[n].at # "none"
        BY <1>0, <1>8, <3>3, FailedEffect
      <4> QED BY <3>1, <3>3, <4>1, <1>0 DEF NothingServes
    <3> QED BY <3>2, <3>3 DEF NothingServes
  <2> QED BY <1>0, <2>1, <2>2, <2>3, <2>4, <2>5 DEF BInv
<1>9. CASE KillChain
  <2>1. OneLauncher'
    BY <1>0, <1>a, <1>9, KillEffect DEF KillChain, OneLauncher
  <2>2. StartedByBoot'
    BY <1>0, <1>a, <1>9, KillEffect DEF KillChain, OneLauncher, StartedByBoot
  <2>3. LoadedTogether'
    BY <1>0, <1>a, <1>9, KillEffect DEF KillChain, OneLauncher, LoadedTogether
  <2>4. DeclaredEnded'
    BY <1>0, <1>a, <1>9, KillEffect DEF KillChain, OneLauncher, LoadedTogether, StartedByBoot, DeclaredEnded
  <2>5. NothingServes'
    BY <1>0, <1>a, <1>9, KillEffect DEF KillChain, OneLauncher, DeclaredEnded, NothingServes
  <2> QED BY <1>0, <2>1, <2>2, <2>3, <2>4, <2>5 DEF BInv
<1>10. CASE EngineUp
  <2>1. OneLauncher'
    BY <1>0, <1>a, <1>10, UpEffect DEF OneLauncher
  <2>2. StartedByBoot'
    BY <1>0, <1>a, <1>10, UpEffect DEF OneLauncher, StartedByBoot
  <2>3. LoadedTogether'
    BY <1>0, <1>a, <1>10, UpEffect DEF OneLauncher, LoadedTogether
  <2>4. DeclaredEnded'
    BY <1>0, <1>a, <1>10, UpEffect DEF OneLauncher, LoadedTogether, StartedByBoot, DeclaredEnded
  <2>5. NothingServes'
    BY <1>0, <1>a, <1>10, UpEffect DEF OneLauncher, DeclaredEnded, NothingServes
  <2> QED BY <1>0, <2>1, <2>2, <2>3, <2>4, <2>5 DEF BInv
<1>11. ASSUME NEW r \in Ranks, Node(r) PROVE BInv'
  <2>1. OneLauncher'
    BY <1>0, <1>a, <1>11, NodeEffect DEF OneLauncher
  <2>2. StartedByBoot'
    BY <1>0, <1>a, <1>11, NodeEffect DEF OneLauncher, StartedByBoot
  <2>3. LoadedTogether'
    BY <1>0, <1>a, <1>11, NodeEffect DEF OneLauncher, LoadedTogether
  <2>4. DeclaredEnded'
    <3>1. \A b \in Boots : Declared(b)' =>
            \/ b < boot'
            \/ b = boot' /\ pc' \in {"bench", "done", "idle", "final teardown"}
      BY <1>0, <1>11, NodeEffect DEF OneLauncher, DeclaredEnded
    <3>2. ASSUME NEW q \in Ranks, Declared(container[q].boot)' PROVE container'[q].state # "starting"
      <4>1. CASE q = r
        BY <1>0, <1>a, <1>11, <3>2, <4>1, NodeEffect DEF DeclaredEnded
      <4>2. CASE q \in Ranks \ {r}
        <5>1. container'[q] = container[q] /\ log' = log
          BY <1>0, <1>11, <4>2, NodeEffect
        <5> QED BY <1>0, <3>2, <5>1 DEF DeclaredEnded
      <4> QED BY <4>1, <4>2
    <3>3. ASSUME NEW q \in Ranks, launcher'[q].at # "none" PROVE ~Declared(launcher[q].boot)'
      BY <1>0, <1>a, <1>11, <3>3, NodeEffect DEF DeclaredEnded
    <3> QED BY <3>1, <3>2, <3>3 DEF DeclaredEnded
  <2>5. NothingServes'
    <3>1. ASSUME NEW q \in Ranks, Serving(q)' PROVE Serving(q)
      <4>1. CASE q = r
        BY <1>0, <1>a, <1>11, <3>1, <4>1, NodeEffect
      <4>2. CASE q \in Ranks \ {r}
        <5>1. container'[q] = container[q] /\ log' = log
          BY <1>0, <1>11, <4>2, NodeEffect
        <5> QED BY <3>1, <5>1
      <4> QED BY <4>1, <4>2
    <3>2. ASSUME NEW q \in Ranks, Serving(q)',
                 \/ pc' = "preflight" /\ q < rank'
                 \/ pc' \in {"prep", "copy", "launch", "launching", "cleanup", "health", "verdict"}
          PROVE FALSE
      BY <1>0, <1>11, <3>1, <3>2, NodeEffect DEF NothingServes
    <3>3. ASSUME NEW q \in Ranks, Serving(q)', NEW p \in Ranks, launcher'[p].at # "none" PROVE FALSE
      <4>1. \E n \in Ranks : launcher[n].at # "none"
        BY <1>0, <1>11, <3>3, NodeEffect
      <4> QED BY <3>1, <3>3, <4>1, <1>0 DEF NothingServes
    <3> QED BY <3>2, <3>3 DEF NothingServes
  <2> QED BY <1>0, <2>1, <2>2, <2>3, <2>4, <2>5 DEF BInv
<1>12. ASSUME NEW r \in Ranks, ContainerExits(r) PROVE BInv'
  <2>1. OneLauncher'
    BY <1>0, <1>a, <1>12, ExitEffect DEF OneLauncher
  <2>2. StartedByBoot'
    BY <1>0, <1>a, <1>12, ExitEffect DEF OneLauncher, StartedByBoot
  <2>3. LoadedTogether'
    BY <1>0, <1>a, <1>12, ExitEffect DEF OneLauncher, LoadedTogether
  <2>4. DeclaredEnded'
    <3>1. \A b \in Boots : Declared(b)' =>
            \/ b < boot'
            \/ b = boot' /\ pc' \in {"bench", "done", "idle", "final teardown"}
      BY <1>0, <1>12, ExitEffect DEF OneLauncher, DeclaredEnded
    <3>2. ASSUME NEW q \in Ranks, Declared(container[q].boot)' PROVE container'[q].state # "starting"
      BY <1>0, <1>a, <1>12, <3>2, ExitEffect DEF DeclaredEnded
    <3>3. ASSUME NEW q \in Ranks, launcher'[q].at # "none" PROVE ~Declared(launcher[q].boot)'
      BY <1>0, <1>a, <1>12, <3>3, ExitEffect DEF DeclaredEnded
    <3> QED BY <3>1, <3>2, <3>3 DEF DeclaredEnded
  <2>5. NothingServes'
    <3>1. ASSUME NEW q \in Ranks, Serving(q)' PROVE Serving(q)
      <4>1. /\ container'[q].boot = container[q].boot /\ log' = log
            /\ container'[q].state \in {container[q].state, "exited"}
        BY <1>0, <1>12, ExitEffect
      <4> QED BY <3>1, <4>1
    <3>2. ASSUME NEW q \in Ranks, Serving(q)',
                 \/ pc' = "preflight" /\ q < rank'
                 \/ pc' \in {"prep", "copy", "launch", "launching", "cleanup", "health", "verdict"}
          PROVE FALSE
      BY <1>0, <1>12, <3>1, <3>2, ExitEffect DEF NothingServes
    <3>3. ASSUME NEW q \in Ranks, Serving(q)', NEW p \in Ranks, launcher'[p].at # "none" PROVE FALSE
      <4>1. \E n \in Ranks : launcher[n].at # "none"
        BY <1>0, <1>12, <3>3, ExitEffect
      <4> QED BY <3>1, <3>3, <4>1, <1>0 DEF NothingServes
    <3> QED BY <3>2, <3>3 DEF NothingServes
  <2> QED BY <1>0, <2>1, <2>2, <2>3, <2>4, <2>5 DEF BInv
<1>13. CASE UNCHANGED vars
  <2>1. OneLauncher'
    BY <1>0, <1>13 DEF vars, OneLauncher
  <2>2. StartedByBoot'
    BY <1>0, <1>13 DEF vars, OneLauncher, StartedByBoot
  <2>3. LoadedTogether'
    BY <1>0, <1>13 DEF vars, OneLauncher, LoadedTogether
  <2>4. DeclaredEnded'
    BY <1>0, <1>13 DEF vars, OneLauncher, LoadedTogether, StartedByBoot, DeclaredEnded
  <2>5. NothingServes'
    BY <1>0, <1>13 DEF vars, OneLauncher, DeclaredEnded, NothingServes
  <2> QED BY <1>0, <2>1, <2>2, <2>3, <2>4, <2>5 DEF BInv
<1> QED BY <1>1, <1>2, <1>3, <1>4, <1>5, <1>6, <1>7, <1>8, <1>9, <1>10, <1>11, <1>12, <1>13
       DEF Next, Host

LEMMA InitBInv == Init => BInv
<1> SUFFICES ASSUME Init PROVE BInv
  OBVIOUS
<1>1. TypeOK
  BY TypeInit
<1>2. \A r \in Ranks : ~launcher[r].attached /\ launcher[r].at = "none"
  BY DEF Init, NoLauncher
<1>3. pc = "idle" /\ log = {}
  BY DEF Init
<1>4. OneLauncher /\ StartedByBoot /\ LoadedTogether
  BY <1>2, <1>3 DEF OneLauncher, StartedByBoot, LoadedTogether, Done
<1>5. DeclaredEnded /\ NothingServes
  BY <1>2, <1>3 DEF DeclaredEnded, NothingServes, Serving, Declared
<1> QED BY <1>1, <1>4, <1>5 DEF BInv

LEMMA Invariance == Spec => []BInv
BY InitBInv, BInvStep, PTL DEF Spec

-----------------------------------------------------------------------------

(* The state of every boot is well typed, whatever fails or is killed.     *)
THEOREM TypeCorrect == Spec => []TypeOK
<1>1. BInv => TypeOK
  BY DEF BInv
<1> QED BY <1>1, Invariance, PTL

(* For every number of ranks: the boot that passes the verdict of          *)
(* dsv41_boot_tp4_v2.sh has started every rank that then answers.          *)
THEOREM OneBoot == Spec => HealthyIsOneBoot
<1> DEFINE Own == DeclareHealthy => \A r \in Ranks : container[r].boot = boot
<1>1. BInv /\ [Next]_vars => [Own]_vars
  BY DEF BInv, StartedByBoot, Done, DeclareHealthy
<1>2. Spec => [][Own]_vars
  BY <1>1, Invariance, PTL DEF Spec
<1> QED BY <1>2 DEF HealthyIsOneBoot

(* For every number of ranks: the launcher of the head, waited for by its  *)
(* boot, runs docker only after that boot's launchers on all the workers.  *)
THEOREM WorkersFirst == Spec => WorkersBeforeHead
<1> DEFINE First == DockerRun(0) /\ launcher[0].attached =>
                      \A r \in Ranks \ {0} : container[r].boot = launcher[0].boot
<1>1. BInv /\ [Next]_vars => [First]_vars
  <2> SUFFICES ASSUME BInv, launcher[0].attached, NEW r \in Ranks \ {0}
               PROVE  container[r].boot = launcher[0].boot
    OBVIOUS
  <2>1. 0 \in Ranks /\ 0 < r
    BY Types DEF BInv
  <2>2. pc = "launching" /\ rank = 0 /\ launcher[0].boot = boot
    BY <2>1 DEF BInv, OneLauncher
  <2> QED BY <2>1, <2>2 DEF BInv, StartedByBoot, Done
<1>2. Spec => [][First]_vars
  BY <1>1, Invariance, PTL DEF Spec
<1> QED BY <1>2 DEF WorkersBeforeHead

(* For every number of ranks and boots: a rank of an engine that was       *)
(* declared healthy is removed by a teardown only.                         *)
THEOREM OnlyTeardown == Spec => ServingSurvives
<1> DEFINE Survives == \A r \in Ranks :
                         /\ Loaded(r) /\ <<"HEALTHY", container[r].boot>> \in log
                         /\ container'[r] = NoContainer
                         => pc \in {"teardown", "final teardown"}
<1>1. BInv /\ [Next]_vars => [Survives]_vars
  <2> SUFFICES ASSUME BInv, [Next]_vars, NEW r \in Ranks, Loaded(r),
                      <<"HEALTHY", container[r].boot>> \in log,
                      container'[r] = NoContainer
               PROVE  pc \in {"teardown", "final teardown"}
    OBVIOUS
  <2>0. container[r].state = "loaded" /\ container'[r].state = "none"
    BY DEF Loaded, NoContainer
  <2>1. TypeOK /\ Serving(r) /\ NothingServes
    BY DEF BInv, Serving, Declared
  <2>2. ASSUME NEW q \in Ranks, Node(q) PROVE FALSE
    <3>1. launcher[q].at # "none"
      BY <2>1, <2>2, NodeEffect
    <3> QED BY <2>1, <3>1 DEF NothingServes
  <2>3. ASSUME NEW q \in Ranks, ContainerExits(q) PROVE FALSE
    BY <2>0, <2>1, <2>3, ExitEffect
  <2>4. CASE EngineUp
    BY <2>0, <2>1, <2>4, UpEffect
  <2>5. CASE RemoveContainer
    BY <2>1, <2>5 DEF NothingServes, RemoveContainer
  <2>6. container' # container
    BY <2>0
  <2> QED BY <2>2, <2>3, <2>4, <2>5, <2>6 DEF Next, Host, Start, Preflight, PreflightAborts,
        Fails, Prep, PrepAborts, CopyLauncher, LaunchRank, Launched, LaunchFailed, Poll, HeadGone,
        PollsEnd, DeclareHealthy, NoHealth, Bench, End, KillChain, vars
<1>2. Spec => [][Survives]_vars
  BY <1>1, Invariance, PTL DEF Spec
<1> QED BY <1>2 DEF ServingSurvives

===============================================================================
