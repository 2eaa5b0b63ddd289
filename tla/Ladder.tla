-------------------------------- MODULE Ladder --------------------------------
(***************************************************************************)
(* The cumulative tuning ladder of a line: dsv41_ladder3.sh runs one gate  *)
(* row per lever on top of the accepted base and keeps the levers that     *)
(* win; ops/stack_next.sh waits for a verdict, settles it, and relaunches  *)
(* the ladder on a fresh base through ops/ladder_relaunch.sh.  The two run *)
(* side by side and share the accepted file, the results and the log; the  *)
(* operator edits the accepted file with ops/accept_lever, drop_lever.     *)
(*                                                                         *)
(* A bench result is modelled by the environment it was measured with and  *)
(* the numbers its json has, which are Perf of that environment.  How a    *)
(* row boots is module Boot.                                               *)
(***************************************************************************)
EXTENDS Integers, Sequences, FiniteSets, Functions

CONSTANTS
  Settings,              \* lever_env: lever -> sequence of <<key, value>>
  LeverText,             \* the same as text of the script, where a variable is
                         \* not expanded and a lever of the last case is absent
  ProfileLevers,         \* accepted on health and smoke alone: SERVE1M
  GatedLevers,           \* skipped while their files are missing: HOT
  Perf(_),               \* numbers of an environment: [c1, c6, prefill]
  Benches,               \* per label: sets of numbers its bench json may have
  AcceptPct, PrefillTol, \* ACCEPT_PCT, PREFILL_TOL of the ladders' environment
  FirstLevers,           \* levers the operator starts a ladder with
  Relaunches,            \* arguments of stack_next: [wait, xapply, levers]
  HandSettings,          \* arguments of accept_lever: sequences of settings
  HandPrefixes,          \* arguments of drop_lever: the keys with a prefix
  CarefulOperator,       \* starts no ladder on a base row older than the base,
                         \* repeats no lever that has results or is to run, and
                         \* edits the base only while no script does
  ByHand,                \* bound: ladders started and edits made by hand
  Stacks                 \* bound: runs of stack_next

VARIABLES
  acc,                   \* accepted-<LINE>.env: settings, in order
  results,               \* per label: the environment its bench json measured
  benched,               \* labels with a BENCH-DONE line in boot_tp4.log
  ladder,                \* the ladder process
  stack,                 \* the stack_next process
  log,                   \* verdicts in ladder-<LINE>.log
  smoke_lines,           \* smoke lines in ladder-<LINE>.log: of this row and
                         \* of the rows before it, 0 or 1 (more)
  left                   \* what the bounds leave

vars == <<acc, results, benched, ladder, stack, log, smoke_lines, left>>

Levers == DOMAIN Settings
Labels == Levers \cup {"G0"}

Sets(l) == Range(Settings[l]) \cup Range(LeverText[l])
Setting == UNION {Sets(l) : l \in Levers}
           \cup UNION {Range(args.xapply) : args \in Relaunches}
           \cup UNION {Range(list) : list \in HandSettings}
Keys == {kv[1] : kv \in Setting}

(* A lever has settings, and a list of levers to run names each once.      *)
ASSUME LadderArgs ==
  /\ "G0" \notin Levers
  /\ \A l \in Levers : Settings[l] \in Seq(Setting) \ {<<>>}
  /\ \A list \in FirstLevers \cup {args.levers : args \in Relaunches} :
       list \in Seq(Levers) /\ \A i, j \in DOMAIN list : list[i] = list[j] => i = j
  /\ \A args \in Relaunches : args.xapply \in Seq(Setting)
  /\ HandSettings \subseteq Seq(Setting)

Metrics == {"c1", "c6", "prefill"}

ASSUME BenchNumbers == Benches \in [Labels -> SUBSET SUBSET Metrics]

(* Expanded or not, a lever sets the same keys, each once; a setting that  *)
(* several levers share (ROCE=1) is the only value any gives its key.      *)
ASSUME SettingsAgree ==
  /\ \A l \in Levers :
       /\ \A kv, same \in Range(Settings[l]) : same[1] = kv[1] => same = kv
       /\ LeverText[l] \in Seq(Setting)
       /\ \A kv, same \in Range(LeverText[l]) : same[1] = kv[1] => same = kv
       /\ \A kv \in Range(LeverText[l]) : \E same \in Range(Settings[l]) : same[1] = kv[1]
  /\ \A l, other \in Levers : l # other =>
       \A kv \in Range(Settings[l]) \cap Sets(other) :
       \A any \in Levers : \A same \in Sets(any) : same[1] = kv[1] => same = kv

Default == "default"
Nan == [env |-> [k \in {} |-> Default], has |-> {}]    \* no bench json

(* The environment a list of settings amounts to: the last one of a key.   *)
Env(list) ==
  [k \in Keys |->
     IF \E i \in DOMAIN list : list[i][1] = k
     THEN list[CHOOSE i \in DOMAIN list :
                 /\ list[i][1] = k
                 /\ \A j \in DOMAIN list : list[j][1] = k => j <= i][2]
     ELSE Default]

(* The elements of a list at some of its positions, in order.              *)
Keep(list, positions) ==
  [k \in 1 .. Cardinality(positions) |->
     list[CHOOSE i \in positions : Cardinality({j \in positions : j <= i}) = k]]

(* for kv in ...; grep -qx "$kv" $ACC || echo "$kv" >> $ACC                *)
AppendMissing(file, list) ==
  file \o Keep(list, {i \in DOMAIN list :
                        /\ list[i] \notin Range(file)
                        /\ \A j \in DOMAIN list : j < i => list[j] # list[i]})

\* Fault: a number passes unless it is seen to be lower, so a nan passes.
AtLeastUnlessLower(row, base, m, pct) ==
  m \in row.has /\ m \in base.has =>
    Perf(row.env)[m] * 100 >= Perf(base.env)[m] * pct

(* A number is at least some percentage of the base's: false with a nan.   *)
AtLeast(row, base, m, pct) ==
  /\ m \in row.has /\ m \in base.has
  /\ Perf(row.env)[m] * 100 >= Perf(base.env)[m] * pct

(* Decode wins by ACCEPT_PCT at C1 or at C6, and prefill loses no more     *)
(* than PREFILL_TOL.                                                       *)
Wins(row, base) ==
  /\ \/ AtLeast(row, base, "c1", 100 + AcceptPct)
     \/ AtLeast(row, base, "c6", 100 + AcceptPct)
  /\ AtLeast(row, base, "prefill", 100 - PrefillTol)

(* The numbers, if there are any, are those of a list of settings.         *)
MeasuredWith(row, list) == row # Nan => row.env = Env(list)

Off == [pc |-> "off", todo |-> <<>>, base |-> Nan, row |-> Nan,
        append |-> <<>>]
NoStack == [pc |-> "off", wait |-> "", line0 |-> 0, xapply |-> <<>>, levers |-> <<>>]

Lever == Head(ladder.todo)

-----------------------------------------------------------------------------

Init ==
  /\ acc = <<>>
  /\ results = [label \in Labels |-> Nan]
  /\ benched = {}
  /\ ladder = Off /\ stack = NoStack
  /\ log = <<>> /\ smoke_lines = [row |-> 0, before |-> 0]
  /\ left = [hand |-> ByHand, stack |-> Stacks]

(* A G0 result that exists is the base; else the base row is run.          *)
Started(levers) == [Off EXCEPT !.pc = "base", !.todo = levers]

StartByHand ==
  /\ left.hand > 0 /\ ladder.pc = "off" /\ stack.pc = "off"
  /\ \E levers \in FirstLevers :
       /\ CarefulOperator => /\ MeasuredWith(results["G0"], acc)
                             /\ \A l \in Range(levers) : results[l] = Nan
       /\ ladder' = Started(levers)
  /\ left' = [left EXCEPT !.hand = @ - 1]
  /\ UNCHANGED <<acc, results, benched, stack, log, smoke_lines>>

(* accept_lever: the settings that are not in the file yet.                *)
AcceptByHand ==
  /\ left.hand > 0
  /\ CarefulOperator => ladder.pc = "off" /\ stack.pc = "off"
  /\ \E list \in HandSettings : acc' = AppendMissing(acc, list)
  /\ left' = [left EXCEPT !.hand = @ - 1]
  /\ UNCHANGED <<results, benched, ladder, stack, log, smoke_lines>>

(* drop_lever: the file without the lines of some keys, moved into place   *)
(* only if grep has a line to print.                                       *)
DropByHand ==
  /\ left.hand > 0
  /\ CarefulOperator => ladder.pc = "off" /\ stack.pc = "off"
  /\ \E keys \in HandPrefixes :
       LET others == {i \in DOMAIN acc : acc[i][1] \notin keys}
       IN acc' = IF others # {} THEN Keep(acc, others) ELSE acc
  /\ left' = [left EXCEPT !.hand = @ - 1]
  /\ UNCHANGED <<results, benched, ladder, stack, log, smoke_lines>>

(* stack_next has seen what it waits for, and acts within a poll of 30 s;  *)
(* a row that boots takes many minutes.                                    *)
StackActs ==
  \/ stack.pc \in {"act", "relaunch"}
  \/ /\ stack.pc = "wait"
     /\ \E i \in stack.line0 + 1 .. Len(log) : log[i].lever = stack.wait

(* What a gate row leaves, its boot over: no health, or smokes and a bench,*)
(* which may fail and yet logs BENCH-DONE.  Then run_row asks the log.     *)
RowEnds(label, list, smokes, healthy, ok, has) ==
  /\ ~healthy => smokes = 0 /\ ~ok
  /\ healthy => ~StackActs
  /\ results' = IF ok THEN [results EXCEPT ![label] = [env |-> Env(list), has |-> has]]
                ELSE results
  /\ benched' = IF healthy THEN benched \cup {label} ELSE benched
  /\ smoke_lines' = [row |-> smokes,
                     before |-> IF smoke_lines.row = 1 THEN 1 ELSE smoke_lines.before]

(* The base: read if its result exists, else measured.                     *)
BaseKept ==
  /\ ladder.pc = "base" /\ results["G0"] # Nan
  /\ ladder' = [ladder EXCEPT !.pc = "rung", !.base = results["G0"]]
  /\ UNCHANGED <<acc, results, benched, stack, log, smoke_lines, left>>

BaseRow ==
  /\ ladder.pc = "base" /\ results["G0"] = Nan
  /\ \E smokes \in 0 .. 1, healthy, ok \in BOOLEAN, has \in Benches["G0"] :
       RowEnds("G0", acc, smokes, healthy, ok, has)
  /\ ladder' = IF "G0" \in benched'
               THEN [ladder EXCEPT !.pc = "rung", !.base = results'["G0"]] ELSE Off
  /\ UNCHANGED <<acc, stack, log, left>>

\* Fault: the row runs the lever's settings without the accepted ones.
RungRowLeverAlone ==
  /\ ladder.pc = "rung" /\ ladder.todo # <<>>
  /\ \E smokes \in 0 .. 1, healthy, ok \in BOOLEAN, has \in Benches[Lever] :
       RowEnds(Lever, Settings[Lever], smokes, healthy, ok, has)
  /\ ladder' = IF Lever \in benched'
               THEN [ladder EXCEPT !.pc = "verdict", !.row = results'[Lever]]
               ELSE [ladder EXCEPT !.pc = "failed"]
  /\ UNCHANGED <<acc, stack, log, left>>

(* One rung: a gate row with the accepted settings and the lever's.        *)
RungRow ==
  /\ ladder.pc = "rung" /\ ladder.todo # <<>>
  /\ \E smokes \in 0 .. 1, healthy, ok \in BOOLEAN, has \in Benches[Lever] :
       RowEnds(Lever, acc \o Settings[Lever], smokes, healthy, ok, has)
  /\ ladder' = IF Lever \in benched'
               THEN [ladder EXCEPT !.pc = "verdict", !.row = results'[Lever]]
               ELSE [ladder EXCEPT !.pc = "failed"]
  /\ UNCHANGED <<acc, stack, log, left>>

(* HOT without its files: noted in the table, no verdict in the log.       *)
RungSkipped ==
  /\ ladder.pc = "rung" /\ ladder.todo # <<>> /\ Lever \in GatedLevers
  /\ ladder' = [ladder EXCEPT !.todo = Tail(@)]
  /\ UNCHANGED <<acc, results, benched, stack, log, smoke_lines, left>>

RungFailed ==
  /\ ladder.pc = "failed"
  /\ log' = Append(log, [lever |-> Lever, verdict |-> "reject", row |-> Nan,
                         base |-> ladder.base, smokes |-> 0])
  /\ ladder' = [ladder EXCEPT !.pc = "rung", !.todo = Tail(@)]
  /\ UNCHANGED <<acc, results, benched, stack, smoke_lines, left>>

\* Fault: the smoke lines of every row of the log count.
AcceptsOnAnySmoke ==
  /\ smoke_lines.row + smoke_lines.before >= 1
  /\ Lever \in ProfileLevers \/ Wins(ladder.row, ladder.base)

(* The rule, with the smoke lines this row added to the log.               *)
Accepts ==
  /\ smoke_lines.row >= 1
  /\ Lever \in ProfileLevers \/ Wins(ladder.row, ladder.base)

\* Fault: an accepted lever leaves the list before its settings are appended.
VerdictPopsLever ==
  /\ ladder.pc = "verdict"
  /\ log' = Append(log, [lever |-> Lever,
                         verdict |-> IF Accepts THEN "ACCEPT" ELSE "reject",
                         row |-> ladder.row, base |-> ladder.base,
                         smokes |-> smoke_lines.row])
  /\ ladder' = IF Accepts
               THEN [ladder EXCEPT !.pc = "append", !.append = Settings[Lever],
                                   !.todo = Tail(@)]
               ELSE [ladder EXCEPT !.pc = "rung", !.todo = Tail(@)]
  /\ UNCHANGED <<acc, results, benched, stack, smoke_lines, left>>

(* The verdict is logged, then the lever's settings are appended.          *)
Verdict ==
  /\ ladder.pc = "verdict"
  /\ log' = Append(log, [lever |-> Lever,
                         verdict |-> IF Accepts THEN "ACCEPT" ELSE "reject",
                         row |-> ladder.row, base |-> ladder.base,
                         smokes |-> smoke_lines.row])
  /\ ladder' = IF Accepts
               THEN [ladder EXCEPT !.pc = "append", !.append = Settings[Lever]]
               ELSE [ladder EXCEPT !.pc = "rung", !.todo = Tail(@)]
  /\ UNCHANGED <<acc, results, benched, stack, smoke_lines, left>>

(* echo "$kv" >> $ACC, a setting at a time; then the row is the base.      *)
AppendSetting ==
  /\ ladder.pc = "append"
  /\ acc' = Append(acc, Head(ladder.append))
  /\ ladder' = IF Len(ladder.append) > 1
               THEN [ladder EXCEPT !.append = Tail(@)]
               ELSE [ladder EXCEPT !.pc = "rung", !.append = <<>>, !.todo = Tail(@),
                                   !.base = ladder.row]
  /\ UNCHANGED <<results, benched, stack, log, smoke_lines, left>>

LadderDone ==
  /\ ladder.pc = "rung" /\ ladder.todo = <<>>
  /\ ladder' = Off
  /\ log' = Append(log, [lever |-> "LADDER-DONE", verdict |-> "", row |-> Nan,
                         base |-> Nan, smokes |-> 0])
  /\ UNCHANGED <<acc, results, benched, stack, smoke_lines, left>>

-----------------------------------------------------------------------------
(* stack_next.                                                             *)

StackStart ==
  /\ left.stack > 0 /\ stack.pc = "off"
  /\ \E args \in Relaunches :
       /\ CarefulOperator => \A l \in Range(args.levers) :
                               results[l] = Nan /\ l \notin Range(ladder.todo)
       /\ stack' = [pc |-> "wait", wait |-> args.wait, line0 |-> Len(log),
                    xapply |-> args.xapply, levers |-> args.levers]
  /\ left' = [left EXCEPT !.stack = @ - 1]
  /\ UNCHANGED <<acc, results, benched, ladder, log, smoke_lines>>

NewLines == {i \in stack.line0 + 1 .. Len(log) : log[i].lever = stack.wait}

\* Fault: the poll does not look whether the ladder is still there.
StackSeesLineOnly ==
  /\ stack.pc = "wait"
  /\ NewLines # {}
  /\ stack' = [stack EXCEPT !.pc = "act"]
  /\ UNCHANGED <<acc, results, benched, ladder, log, smoke_lines, left>>

(* A new line with the verdict, or the ladder has gone.                    *)
StackSees ==
  /\ stack.pc = "wait"
  /\ NewLines # {} \/ ladder.pc = "off"
  /\ stack' = [stack EXCEPT !.pc = "act"]
  /\ UNCHANGED <<acc, results, benched, ladder, log, smoke_lines, left>>

(* The verdict again, from the numbers of its line: 3 % and 5 % whatever   *)
(* the ladder used, no smokes, and no match of a line with a nan.          *)
Rederived(line) ==
  /\ line.row.has = Metrics /\ line.base.has = Metrics
  /\ \/ AtLeast(line.row, line.base, "c1", 103)
     \/ AtLeast(line.row, line.base, "c6", 103)
  /\ AtLeast(line.row, line.base, "prefill", 95)

(* The settings stack_next adds: the lever's, as the text of the ladder    *)
(* script has them, if the last of its verdicts passes, and those won on   *)
(* the other line.                                                         *)
Restated ==
  LET passes == \E i \in NewLines : (\A j \in NewLines : j <= i) /\ Rederived(log[i]) IN
  (IF stack.wait \in Levers /\ passes THEN LeverText[stack.wait] ELSE <<>>)
    \o stack.xapply

\* Fault: the re-derived verdict is not applied.
StackActForgetsLever ==
  /\ stack.pc = "act"
  /\ acc' = AppendMissing(acc, stack.xapply)
  /\ results' = [results EXCEPT !["G0"] = Nan]
  /\ stack' = [stack EXCEPT !.pc = "relaunch"]
  /\ UNCHANGED <<benched, ladder, log, smoke_lines, left>>

\* Fault: the old base row is not retired.
StackActKeepsBase ==
  /\ stack.pc = "act"
  /\ acc' = AppendMissing(acc, Restated)
  /\ stack' = [stack EXCEPT !.pc = "relaunch"]
  /\ UNCHANGED <<results, benched, ladder, log, smoke_lines, left>>

(* Append, and retire the old G0 row, so that a fresh base is measured.    *)
StackAct ==
  /\ stack.pc = "act"
  /\ acc' = AppendMissing(acc, Restated)
  /\ results' = [results EXCEPT !["G0"] = Nan]
  /\ stack' = [stack EXCEPT !.pc = "relaunch"]
  /\ UNCHANGED <<benched, ladder, log, smoke_lines, left>>

(* ladder_relaunch: kill the ladder wherever it is and start it anew.      *)
StackRelaunch ==
  /\ stack.pc = "relaunch"
  /\ ladder' = Started(stack.levers)
  /\ stack' = NoStack
  /\ UNCHANGED <<acc, results, benched, log, smoke_lines, left>>

LadderStep ==
  \/ BaseKept \/ BaseRow \/ RungRow \/ RungSkipped \/ RungFailed
  \/ Verdict \/ AppendSetting \/ LadderDone

StackStep == StackSees \/ StackAct \/ StackRelaunch

Next == StartByHand \/ AcceptByHand \/ DropByHand \/ StackStart \/ LadderStep \/ StackStep

(* Both are loops of commands with timeouts (a boot ends: Boot!BootEnds).  *)
Spec == Init /\ [][Next]_vars /\ WF_vars(LadderStep) /\ WF_vars(StackStep)

-----------------------------------------------------------------------------

Envs == [Keys -> {kv[2] : kv \in Setting} \cup {Default}]
Rows == [env : Envs, has : SUBSET Metrics] \cup {Nan}

TypeOK ==
  /\ Range(acc) \subseteq Setting
  /\ results \in [Labels -> Rows]
  /\ benched \subseteq Labels
  /\ ladder.pc \in {"off", "base", "rung", "verdict", "failed", "append"}
  /\ ladder.base \in Rows /\ ladder.row \in Rows
  /\ stack.pc \in {"off", "wait", "act", "relaunch"}
  /\ \A i \in DOMAIN log : log[i].verdict \in {"ACCEPT", "reject", ""}
  /\ ladder.pc \in {"verdict", "failed", "append"} => ladder.todo # <<>>
  /\ \A l \in {"G0"} \cup Levers : results[l] # Nan => l \in benched

(* "vs the current base": when a rung is accepted, the numbers it had to   *)
(* beat were measured with exactly the settings it was stacked on.         *)
BaseIsCurrent ==
  ladder.pc = "verdict" /\ Accepts => MeasuredWith(ladder.base, acc)

(* A lever is accepted on its own row: that row answered a smoke, and the  *)
(* numbers compared are those of the accepted settings plus the lever's,   *)
(* whatever earlier rows left in the logs and among the results, and       *)
(* whatever stack_next appended while the row ran.                         *)
AcceptedOnOwnRow ==
  ladder.pc = "verdict" /\ Accepts =>
    /\ smoke_lines.row > 0
    /\ Lever \notin ProfileLevers =>
         ladder.row # Nan /\ MeasuredWith(ladder.row, acc \o Settings[Lever])

(* A verdict that brings its lever into the base: accepted, or derived     *)
(* again by stack_next.                                                    *)
Taken(line) == line.verdict = "ACCEPT" \/ Rederived(line)

(* A verdict after line i of the log, stack_next or an edit by hand may    *)
(* set the key anew.                                                       *)
SetLater(i, k) ==
  \/ \E j \in i + 1 .. Len(log) : /\ Taken(log[j])
                                  /\ \E n \in DOMAIN Settings[log[j].lever] :
                                       Settings[log[j].lever][n][1] = k
  \/ \E args \in Relaunches : \E n \in DOMAIN args.xapply : args.xapply[n][1] = k
  \/ \E list \in HandSettings : \E n \in DOMAIN list : list[n][1] = k
  \/ k \in UNION HandPrefixes

(* A stack_next that waits for the verdict's lever comes to accept it too, *)
(* and the text it appends has the setting as the ladder does.             *)
Restatable(line, kv) ==
  (\E args \in Relaunches : args.wait = line.lever) =>
    Rederived(line) /\ kv \in Range(LeverText[line.lever])

(* A decode lever whose ACCEPT was logged is part of the base on which the *)
(* next ladder starts, although the ladder may have been killed before it  *)
(* appended the settings, or between two of them: every setting of it that *)
(* stack_next, if it waits for that lever, restates.                       *)
AcceptedSurvivesRelaunch ==
  ladder.pc = "base" =>
    \A i \in DOMAIN log :
      log[i].verdict = "ACCEPT" /\ log[i].lever \notin ProfileLevers =>
        \A kv \in Range(Settings[log[i].lever]) : Restatable(log[i], kv) =>
          SetLater(i, kv[1]) \/ Env(acc)[kv[1]] = kv[2]

(* stack_next always gets the line running again: a verdict that was       *)
(* skipped, or logged before it looked, does not keep it waiting.          *)
StackEnds == stack.pc = "wait" ~> stack.pc = "off"

=============================================================================
