----------------------------- MODULE Ladder_proofs -----------------------------
(***************************************************************************)
(* Theorems of module Ladder, for every set of levers, settings, arguments *)
(* and bounds: type correctness, and, under a careful operator, that a     *)
(* lever is accepted on its own row against a base measured with exactly   *)
(* the accepted settings, and that an accepted lever is still in force     *)
(* when the next ladder starts.                                            *)
(***************************************************************************)
EXTENDS Ladder, FiniteSetTheorems, WellFoundedInduction, TLAPS

Line == [lever : Levers \cup {"LADDER-DONE"},
         verdict : {"ACCEPT", "reject", ""},
         row : Rows, base : Rows, smokes : 0 .. 1]

(* The types, and which fields of the two processes are in use at which    *)
(* point: TypeOK is what it says of the files alone.                       *)
Typed ==
  /\ acc \in Seq(Setting)
  /\ results \in [Labels -> Rows]
  /\ benched \subseteq Labels
  /\ ladder \in [pc : {"off", "base", "rung", "verdict", "failed", "append"},
                 todo : Seq(Levers), base : Rows, row : Rows, append : Seq(Setting)]
  /\ stack.pc \in {"off", "wait", "act", "relaunch"}
  /\ stack = [pc |-> stack.pc, wait |-> stack.wait, line0 |-> stack.line0,
              xapply |-> stack.xapply, levers |-> stack.levers]
  /\ stack.line0 \in Nat /\ stack.xapply \in Seq(Setting) /\ stack.levers \in Seq(Levers)
  /\ log \in Seq(Line)
  /\ smoke_lines \in [row : 0 .. 1, before : 0 .. 1]
  /\ ladder.pc \in {"verdict", "failed", "append"} => ladder.todo # <<>>
  /\ ladder.pc = "append" => ladder.append # <<>>
  /\ \A l \in Labels : results[l] # Nan => l \in benched

Once(list) == \A i, j \in DOMAIN list : list[i] = list[j] => i = j

(* A lever still to run has no results: neither in the ladder's list, but  *)
(* for the rung it is on, nor in the list that stack_next holds.           *)
Fresh ==
  /\ Once(ladder.todo)
  /\ \A i \in DOMAIN ladder.todo :
       ladder.pc \in {"base", "rung"} \/ i > 1 => results[ladder.todo[i]] = Nan
  /\ stack.pc # "off" =>
       /\ Once(stack.levers)
       /\ \A i \in DOMAIN stack.levers :
            /\ results[stack.levers[i]] = Nan
            /\ \A j \in DOMAIN ladder.todo : stack.levers[i] # ladder.todo[j]

(* The numbers the ladder holds were measured with the accepted settings,  *)
(* and those of the rung, until stack_next appends to them; from then on   *)
(* it has retired the base row and kills the ladder.                       *)
Measured ==
  IF stack.pc = "relaunch" THEN results["G0"] = Nan
  ELSE /\ ladder.pc = "base" => MeasuredWith(results["G0"], acc)
       /\ ladder.pc \in {"rung", "verdict", "failed"} => MeasuredWith(ladder.base, acc)
       /\ ladder.pc = "append" => MeasuredWith(ladder.row, acc \o ladder.append)

(* A row that answered a smoke ended before stack_next had seen what it    *)
(* waits for, and its numbers are the rung's.                              *)
OwnRow ==
  ladder.pc = "verdict" /\ smoke_lines.row > 0 =>
    ~StackActs /\ MeasuredWith(ladder.row, acc \o Settings[Lever])

LInv == Typed /\ Fresh /\ Measured /\ OwnRow

-------------------------------------------------------------------------------
(* Lists.                                                                  *)

(* A finite set of positions has a member of every rank.                   *)
LEMMA Ranks ==
  ASSUME NEW n \in Nat, NEW P \in SUBSET (1 .. n), NEW k \in 1 .. Cardinality(P)
  PROVE  \E i \in P : Cardinality({j \in P : j <= i}) = k
<1> DEFINE upto(m) == {j \in P : j <= m}
           T == {m \in 1 .. n : k <= Cardinality(upto(m))}
<1>0. \A i \in P : i \in Nat /\ 1 <= i /\ i <= n
  OBVIOUS
<1>1. IsFiniteSet(P)
  <2>1. IsFiniteSet(1 .. n)
    BY FS_Interval
  <2> QED BY <2>1, FS_Subset
<1>2. \A m \in Nat : IsFiniteSet(upto(m)) /\ Cardinality(upto(m)) \in Nat
  BY <1>1, FS_Subset, FS_CardinalityType
<1>3. Cardinality(P) \in Nat
  BY <1>1, FS_CardinalityType
<1>4. T # {}
  <2>1. P # {}
    BY <1>1, <1>3, FS_EmptySet
  <2>2. upto(n) = P /\ n \in 1 .. n
    <3>1. upto(n) = P
      BY <1>0
    <3>2. PICK i \in P : TRUE
      BY <2>1
    <3> QED BY <3>1, <3>2, <1>0
  <2> QED BY <2>2, <1>3
<1>5. PICK m \in T : \A j \in T : <<j, m>> \notin OpToRel(<, Nat)
  <2>1. T \subseteq Nat
    OBVIOUS
  <2> HIDE DEF T
  <2> QED BY <1>4, <2>1, NatLessThanWellFounded, WFMin
<1>6. m \in 1 .. n /\ k <= Cardinality(upto(m))
  BY <1>5
<1>7. Cardinality(upto(m - 1)) < k
  <2>1. CASE m = 1
    <3>1. upto(m - 1) = {}
      <4>1. \A j \in P : ~(j <= m - 1)
        BY <2>1, <1>0
      <4> QED BY <4>1
    <3> QED BY <3>1, FS_EmptySet, <1>3
  <2>2. CASE m # 1
    <3>1. m - 1 \in 1 .. n /\ m - 1 < m
      BY <1>6, <2>2
    <3>2. m - 1 \notin T
      <4>1. <<m - 1, m>> \in OpToRel(<, Nat)
        BY <1>6, <3>1 DEF OpToRel
      <4> HIDE DEF T
      <4> QED BY <1>5, <4>1
    <3>3. ~(k <= Cardinality(upto(m - 1)))
      BY <3>1, <3>2
    <3> HIDE DEF upto
    <3> QED BY <3>1, <3>3, <1>2, <1>3
  <2> QED BY <2>1, <2>2
<1>8. upto(m) = IF m \in P THEN upto(m - 1) \cup {m} ELSE upto(m - 1)
  <2>1. \A j \in P : j <= m <=> j <= m - 1 \/ j = m
    BY <1>0, <1>6
  <2>2. m <= m
    BY <1>6
  <2> QED BY <2>1, <2>2, Zenon
<1>9. m \notin upto(m - 1) /\ m - 1 \in Nat
  BY <1>6
<1>10. Cardinality(upto(m - 1) \cup {m}) = Cardinality(upto(m - 1)) + 1
  <2> HIDE DEF upto
  <2> QED BY <1>2, <1>9, FS_AddElement
<1>11. m \in P /\ Cardinality(upto(m)) = k
  <2> HIDE DEF upto
  <2> QED BY <1>2, <1>3, <1>6, <1>7, <1>8, <1>9, <1>10
<1> QED BY <1>11

(* The elements at some positions are a list again.                        *)
LEMMA KeepIsSeq ==
  ASSUME NEW S, NEW list \in Seq(S), NEW P \in SUBSET (DOMAIN list)
  PROVE  Keep(list, P) \in Seq(S)
<1> DEFINE at(k) == CHOOSE i \in P : Cardinality({j \in P : j <= i}) = k
<1>1. Len(list) \in Nat /\ P \in SUBSET (1 .. Len(list))
  OBVIOUS
<1>2. IsFiniteSet(P) /\ Cardinality(P) \in Nat
  <2>1. IsFiniteSet(1 .. Len(list))
    BY <1>1, FS_Interval
  <2> QED BY <1>1, <2>1, FS_Subset, FS_CardinalityType
<1>3. \A k \in 1 .. Cardinality(P) : at(k) \in P
  BY <1>1, Ranks
<1>4. \A k \in 1 .. Cardinality(P) : list[at(k)] \in S
  <2> HIDE DEF at
  <2> QED BY <1>1, <1>3
<1>5. Keep(list, P) = [k \in 1 .. Cardinality(P) |-> list[at(k)]]
  BY DEF Keep
<1> HIDE DEF at
<1> QED BY <1>2, <1>4, <1>5

LEMMA Appended ==
  ASSUME NEW S, NEW file \in Seq(S), NEW list \in Seq(S)
  PROVE  AppendMissing(file, list) \in Seq(S)
<1> DEFINE new == {i \in DOMAIN list :
                     /\ list[i] \notin Range(file)
                     /\ \A j \in DOMAIN list : j < i => list[j] # list[i]}
<1>1. Keep(list, new) \in Seq(S)
  BY KeepIsSeq
<1>2. AppendMissing(file, list) = file \o Keep(list, new)
  BY DEF AppendMissing
<1> HIDE DEF new
<1> QED BY <1>1, <1>2

(* Of the positions of a list with some property there is a last one, and  *)
(* so a list of settings amounts to an environment.                        *)
LEMMA LastOne ==
  ASSUME NEW n \in Nat, NEW P \in SUBSET (1 .. n), P # {}
  PROVE  \E i \in P : \A j \in P : j <= i
<1> DEFINE T == {n - i : i \in P}
<1>1. T \subseteq Nat /\ T # {}
  <2>1. \A i \in P : n - i \in Nat
    OBVIOUS
  <2> QED BY <2>1
<1>2. PICK m \in T : \A j \in T : <<j, m>> \notin OpToRel(<, Nat)
  <2> HIDE DEF T
  <2> QED BY <1>1, NatLessThanWellFounded, WFMin
<1>3. PICK i \in P : m = n - i
  OBVIOUS
<1>4. ASSUME NEW j \in P PROVE j <= i
  <2>1. n - j \in T /\ n - j \in Nat /\ m \in Nat
    BY <1>1
  <2>2. ~(n - j < m)
    <3> HIDE DEF T
    <3> QED BY <1>2, <2>1 DEF OpToRel
  <2> QED BY <2>2, <1>3
<1> QED BY <1>4

LEMMA EnvTyped ==
  ASSUME NEW list \in Seq(Setting)
  PROVE  Env(list) \in Envs
<1> DEFINE of(k) == {i \in DOMAIN list : list[i][1] = k}
           last(k) == CHOOSE i \in DOMAIN list :
                        /\ list[i][1] = k
                        /\ \A j \in DOMAIN list : list[j][1] = k => j <= i
<1>1. ASSUME NEW k \in Keys, \E i \in DOMAIN list : list[i][1] = k
      PROVE  last(k) \in DOMAIN list
  <2>1. of(k) \in SUBSET (1 .. Len(list)) /\ of(k) # {} /\ Len(list) \in Nat
    BY <1>1
  <2>2. \E i \in of(k) : \A j \in of(k) : j <= i
    <3> HIDE DEF of
    <3> QED BY <2>1, LastOne
  <2>3. \E i \in DOMAIN list : /\ list[i][1] = k
                               /\ \A j \in DOMAIN list : list[j][1] = k => j <= i
    BY <2>2
  <2> QED BY <2>3
<1>2. ASSUME NEW i \in DOMAIN list PROVE list[i][2] \in {kv[2] : kv \in Setting}
  <2> HIDE DEF of, last
  <2>1. list[i] \in Setting
    OBVIOUS
  <2> QED BY <2>1
<1>3. Env(list) = [k \in Keys |-> IF \E i \in DOMAIN list : list[i][1] = k
                                  THEN list[last(k)][2] ELSE Default]
  BY DEF Env
<1> HIDE DEF last, of
<1>4. ASSUME NEW k \in Keys
      PROVE  (IF \E i \in DOMAIN list : list[i][1] = k THEN list[last(k)][2] ELSE Default)
                \in {kv[2] : kv \in Setting} \cup {Default}
  BY <1>1, <1>2
<1> QED BY <1>3, <1>4 DEF Envs

LEMMA HeadTail ==
  ASSUME NEW S, NEW list \in Seq(S), list # <<>>
  PROVE  /\ Head(list) \in S /\ Head(list) = list[1] /\ 1 \in DOMAIN list
         /\ Tail(list) \in Seq(S)
         /\ \A i \in DOMAIN Tail(list) : i + 1 \in DOMAIN list /\ Tail(list)[i] = list[i + 1]
         /\ Len(list) > 1 => Tail(list) # <<>>
<1>1. Len(list) \in Nat \ {0} /\ DOMAIN list = 1 .. Len(list)
  OBVIOUS
<1>2. Head(list) = list[1] /\ 1 \in DOMAIN list /\ Head(list) \in S
  BY <1>1
<1>3. Tail(list) \in Seq(S) /\ Len(Tail(list)) = Len(list) - 1
  BY <1>1
<1>4. ASSUME NEW i \in DOMAIN Tail(list)
      PROVE  i + 1 \in DOMAIN list /\ Tail(list)[i] = list[i + 1]
  BY <1>1, <1>3
<1>5. Len(list) > 1 => Tail(list) # <<>>
  <2>1. ASSUME NEW rest \in Seq(S), Len(rest) # 0
        PROVE  rest # <<>>
    BY <2>1
  <2>2. Len(list) > 1 => Len(Tail(list)) # 0
    BY <1>1, <1>3
  <2> QED BY <1>3, <2>1, <2>2, Zenon
<1> QED BY <1>2, <1>3, <1>4, <1>5

(* A list is appended an element at a time.                                *)
LEMMA OneByOne ==
  ASSUME NEW S, NEW file \in Seq(S), NEW list \in Seq(S), list # <<>>
  PROVE  /\ Append(file, Head(list)) \in Seq(S)
         /\ Append(file, Head(list)) \o Tail(list) = file \o list
         /\ Len(list) <= 1 => Append(file, Head(list)) = file \o list
<1>1. Append(file, Head(list)) \in Seq(S) /\ Tail(list) \in Seq(S)
  OBVIOUS
<1>2. Len(Append(file, Head(list)) \o Tail(list)) = Len(file \o list)
  OBVIOUS
<1>3. ASSUME NEW i \in 1 .. Len(file \o list)
      PROVE  (Append(file, Head(list)) \o Tail(list))[i] = (file \o list)[i]
  OBVIOUS
<1>4. Append(file, Head(list)) \o Tail(list) = file \o list
  BY <1>1, <1>2, <1>3
<1>5. Len(list) <= 1 => Append(file, Head(list)) = file \o list
  OBVIOUS
<1> QED BY <1>1, <1>4, <1>5

-------------------------------------------------------------------------------
(* Types.                                                                  *)

LEMMA SettingsTyped ==
  /\ "G0" \notin Levers
  /\ \A l \in Levers : Settings[l] \in Seq(Setting) /\ Settings[l] # <<>>
  /\ \A l \in Levers : LeverText[l] \in Seq(Setting)
  /\ \A args \in Relaunches : args.xapply \in Seq(Setting) /\ args.levers \in Seq(Levers)
  /\ \A args \in Relaunches : Once(args.levers)
  /\ \A levers \in FirstLevers : levers \in Seq(Levers) /\ Once(levers)
  /\ \A list \in HandSettings : list \in Seq(Setting)
BY LadderArgs, SettingsAgree DEF LadderArgs, SettingsAgree, Once

(* A row without a bench json neither wins nor passes again.               *)
LEMMA WinsOnRow ==
  /\ \A row, base : Wins(row, base) => row # Nan
  /\ \A line : Rederived(line) => line.row # Nan
BY DEF Wins, AtLeast, Rederived, Metrics, Nan

LEMMA NanTyped == Nan \in Rows
BY DEF Rows

(* What a row leaves: at most its own result, and with it BENCH-DONE; none *)
(* and no smoke when stack_next is about to act.                           *)
LEMMA RowEffect ==
  ASSUME Typed, NEW label \in Labels, NEW list \in Seq(Setting),
         NEW smokes \in 0 .. 1, NEW healthy \in BOOLEAN, NEW ok \in BOOLEAN,
         NEW has \in Benches[label], RowEnds(label, list, smokes, healthy, ok, has)
  PROVE  /\ results' \in [Labels -> Rows] /\ benched' \subseteq Labels
         /\ smoke_lines' \in [row : 0 .. 1, before : 0 .. 1] /\ smoke_lines'.row = smokes
         /\ \A l \in Labels : results'[l] # Nan => l \in benched'
         /\ \A l \in Labels : l # label => results'[l] = results[l]
         /\ results'[label] = results[label] \/ MeasuredWith(results'[label], list)
         /\ StackActs => results' = results /\ smokes = 0
<1> DEFINE row == [env |-> Env(list), has |-> has]
<1>1. row \in Rows /\ MeasuredWith(row, list)
  BY EnvTyped, BenchNumbers DEF BenchNumbers, Rows, MeasuredWith
<1>0. results' = IF ok THEN [results EXCEPT ![label] = row] ELSE results
  BY DEF RowEnds
<1> HIDE DEF row
<1>2. results' \in [Labels -> Rows] /\ benched' \subseteq Labels
  BY <1>0, <1>1 DEF Typed, RowEnds
<1>3. smoke_lines' \in [row : 0 .. 1, before : 0 .. 1] /\ smoke_lines'.row = smokes
  BY DEF Typed, RowEnds
<1>4. /\ \A l \in Labels : l # label => results'[l] = results[l]
      /\ results'[label] = results[label] \/ MeasuredWith(results'[label], list)
  BY <1>0, <1>1 DEF Typed
<1>5. \A l \in Labels : results'[l] # Nan => l \in benched'
  BY <1>0 DEF Typed, RowEnds
<1>6. StackActs => results' = results /\ smokes = 0
  BY DEF RowEnds
<1> QED BY <1>2, <1>3, <1>4, <1>5, <1>6

(* The fields of the ladder's state, one by one.                           *)
LEMMA LadderTyped ==
  ASSUME Typed
  PROVE  /\ ladder.pc \in {"off", "base", "rung", "verdict", "failed", "append"}
         /\ ladder.todo \in Seq(Levers) /\ ladder.base \in Rows /\ ladder.row \in Rows
         /\ ladder.append \in Seq(Setting)
         /\ ladder.todo # <<>> => /\ Lever \in Levers /\ Lever \in Labels
                                  /\ Tail(ladder.todo) \in Seq(Levers)
                                  /\ Settings[Lever] \in Seq(Setting)
                                  /\ Settings[Lever] # <<>>
<1>1. /\ ladder.pc \in {"off", "base", "rung", "verdict", "failed", "append"}
      /\ ladder.todo \in Seq(Levers) /\ ladder.base \in Rows /\ ladder.row \in Rows
      /\ ladder.append \in Seq(Setting)
  BY DEF Typed
<1>2. ASSUME ladder.todo # <<>>
      PROVE  Lever \in Levers /\ Tail(ladder.todo) \in Seq(Levers)
  BY <1>1, <1>2, HeadTail DEF Lever
<1> QED BY <1>1, <1>2, SettingsTyped DEF Labels

LEMMA OffTyped ==
  ASSUME NEW levers \in Seq(Levers)
  PROVE  /\ Started(levers).todo = levers /\ Started(levers).pc = "base"
         /\ Off.pc = "off" /\ Off.todo = <<>>
         /\ Started(levers) \in
              [pc : {"off", "base", "rung", "verdict", "failed", "append"},
               todo : Seq(Levers), base : Rows, row : Rows, append : Seq(Setting)]
         /\ Off \in
              [pc : {"off", "base", "rung", "verdict", "failed", "append"},
               todo : Seq(Levers), base : Rows, row : Rows, append : Seq(Setting)]
<1>1. <<>> \in Seq(Levers) /\ <<>> \in Seq(Setting)
  OBVIOUS
<1>2. Off = [pc |-> "off", todo |-> <<>>, base |-> Nan, row |-> Nan, append |-> <<>>]
  BY DEF Off
<1>3. Off \in [pc : {"off", "base", "rung", "verdict", "failed", "append"},
              todo : Seq(Levers), base : Rows, row : Rows, append : Seq(Setting)]
  BY <1>1, <1>2, NanTyped
<1>4. Started(levers) = [Off EXCEPT !.pc = "base", !.todo = levers]
  BY DEF Started
<1> HIDE DEF Off
<1> QED BY <1>2, <1>3, <1>4

LEMMA TypeInit == Init => Typed
<1> SUFFICES ASSUME Init PROVE Typed
  OBVIOUS
<1>1. <<>> \in Seq(Levers) /\ <<>> \in Seq(Setting) /\ <<>> \in Seq(Line)
  OBVIOUS
<1>2. results \in [Labels -> Rows]
  BY NanTyped DEF Init
<1>3. \A l \in Labels : results[l] = Nan
  BY DEF Init
<1>4. ladder = Off /\ Off.pc = "off"
  BY <1>1, OffTyped DEF Init
<1>5. stack = [pc |-> "off", wait |-> "", line0 |-> 0, xapply |-> <<>>, levers |-> <<>>]
  BY DEF Init, NoStack
<1>6. acc = <<>> /\ benched = {} /\ log = <<>> /\ smoke_lines = [row |-> 0, before |-> 0]
  BY DEF Init
<1>7. /\ stack.pc \in {"off", "wait", "act", "relaunch"}
      /\ stack = [pc |-> stack.pc, wait |-> stack.wait, line0 |-> stack.line0,
                  xapply |-> stack.xapply, levers |-> stack.levers]
      /\ stack.line0 \in Nat /\ stack.xapply \in Seq(Setting) /\ stack.levers \in Seq(Levers)
  BY <1>1, <1>5
<1>8. ladder.pc = "off" /\
      ladder \in [pc : {"off", "base", "rung", "verdict", "failed", "append"},
                 todo : Seq(Levers), base : Rows, row : Rows, append : Seq(Setting)]
  BY <1>1, <1>4, OffTyped
<1> QED BY <1>1, <1>2, <1>3, <1>6, <1>7, <1>8 DEF Typed

(* The accepted file through the operator's and stack_next's edits.        *)
LEMMA EditsTyped ==
  ASSUME acc \in Seq(Setting)
  PROVE  /\ \A list \in Seq(Setting) : AppendMissing(acc, list) \in Seq(Setting)
         /\ \A P \in SUBSET (DOMAIN acc) : Keep(acc, P) \in Seq(Setting)
BY Appended, KeepIsSeq

LEMMA RestatedTyped ==
  ASSUME Typed
  PROVE  Restated \in Seq(Setting)
<1>1. stack.xapply \in Seq(Setting)
  BY DEF Typed
<1>2. stack.wait \in Levers => LeverText[stack.wait] \in Seq(Setting)
  BY SettingsTyped
<1>3. <<>> \in Seq(Setting)
  OBVIOUS
<1> QED BY <1>1, <1>2, <1>3 DEF Restated

LEMMA TypeStep == Typed /\ [Next]_vars => Typed'
<1> SUFFICES ASSUME Typed, [Next]_vars PROVE Typed'
  OBVIOUS
<1> USE LadderTyped
<1>1. CASE StartByHand
  <2>1. PICK levers \in FirstLevers : ladder' = Started(levers)
    BY <1>1 DEF StartByHand
  <2>2. levers \in Seq(Levers)
    BY SettingsTyped
  <2> QED BY <1>1, <2>1, <2>2, OffTyped DEF StartByHand, Typed
<1>2. CASE AcceptByHand
  <2>1. acc' \in Seq(Setting)
    BY <1>2, EditsTyped, SettingsTyped DEF AcceptByHand, Typed
  <2> QED BY <1>2, <2>1 DEF AcceptByHand, Typed
<1>3. CASE DropByHand
  <2>1. acc' \in Seq(Setting)
    <3>1. PICK keys \in HandPrefixes :
            LET others == {i \in DOMAIN acc : acc[i][1] \notin keys}
            IN acc' = IF others # {} THEN Keep(acc, others) ELSE acc
      BY <1>3 DEF DropByHand
    <3> DEFINE others == {i \in DOMAIN acc : acc[i][1] \notin keys}
    <3>2. acc' = IF others # {} THEN Keep(acc, others) ELSE acc
      BY <3>1
    <3>3. others \in SUBSET (DOMAIN acc) /\ acc \in Seq(Setting)
      BY DEF Typed
    <3> HIDE DEF others
    <3> QED BY <3>2, <3>3, EditsTyped
  <2> QED BY <1>3, <2>1 DEF DropByHand, Typed
<1>4. CASE StackStart
  <2>1. PICK args \in Relaunches :
          stack' = [pc |-> "wait", wait |-> args.wait, line0 |-> Len(log),
                    xapply |-> args.xapply, levers |-> args.levers]
    BY <1>4 DEF StackStart
  <2>2. Len(log) \in Nat
    BY DEF Typed
  <2> QED BY <1>4, <2>1, <2>2, SettingsTyped DEF StackStart, Typed
<1>5. CASE BaseKept
  BY <1>5 DEF BaseKept, Typed, Labels
<1>6. CASE BaseRow
  <2>1. PICK smokes \in 0 .. 1, healthy \in BOOLEAN, ok \in BOOLEAN, has \in Benches["G0"] :
          RowEnds("G0", acc, smokes, healthy, ok, has)
    BY <1>6 DEF BaseRow
  <2>2. "G0" \in Labels /\ acc \in Seq(Setting)
    BY DEF Labels, Typed
  <2>3. /\ results' \in [Labels -> Rows] /\ benched' \subseteq Labels
        /\ smoke_lines' \in [row : 0 .. 1, before : 0 .. 1]
        /\ \A l \in Labels : results'[l] # Nan => l \in benched'
    BY <2>1, <2>2, RowEffect
  <2>4. results'["G0"] \in Rows
    BY <2>2, <2>3
  <2>5. \/ ladder' = [ladder EXCEPT !.pc = "rung", !.base = results'["G0"]]
        \/ ladder' = Off
    BY <1>6 DEF BaseRow
  <2>6. <<>> \in Seq(Levers)
    OBVIOUS
  <2> QED BY <1>6, <2>3, <2>4, <2>5, <2>6, OffTyped DEF BaseRow, Typed
<1>7. CASE RungRow
  <2>1. PICK smokes \in 0 .. 1, healthy \in BOOLEAN, ok \in BOOLEAN, has \in Benches[Lever] :
          RowEnds(Lever, acc \o Settings[Lever], smokes, healthy, ok, has)
    BY <1>7 DEF RungRow
  <2>2. Lever \in Labels /\ acc \o Settings[Lever] \in Seq(Setting) /\ ladder.todo # <<>>
    BY <1>7 DEF RungRow, Typed
  <2>3. /\ results' \in [Labels -> Rows] /\ benched' \subseteq Labels
        /\ smoke_lines' \in [row : 0 .. 1, before : 0 .. 1]
        /\ \A l \in Labels : results'[l] # Nan => l \in benched'
    BY <2>1, <2>2, RowEffect
  <2>4. results'[Lever] \in Rows
    BY <2>2, <2>3
  <2>5. \/ ladder' = [ladder EXCEPT !.pc = "verdict", !.row = results'[Lever]]
        \/ ladder' = [ladder EXCEPT !.pc = "failed"]
    BY <1>7 DEF RungRow
  <2> QED BY <1>7, <2>2, <2>3, <2>4, <2>5 DEF RungRow, Typed
<1>8. CASE RungSkipped
  BY <1>8 DEF RungSkipped, Typed
<1>9. CASE RungFailed
  <2>1. ladder.todo # <<>>
    BY <1>9 DEF RungFailed, Typed
  <2>2. log' \in Seq(Line)
    <3>1. [lever |-> Lever, verdict |-> "reject", row |-> Nan,
           base |-> ladder.base, smokes |-> 0] \in Line
      BY <2>1, NanTyped DEF Line
    <3> QED BY <1>9, <3>1 DEF RungFailed, Typed
  <2> QED BY <1>9, <2>1, <2>2 DEF RungFailed, Typed
<1>10. CASE Verdict
  <2>1. ladder.todo # <<>>
    BY <1>10 DEF Verdict, Typed
  <2>2. log' \in Seq(Line)
    <3> DEFINE line == [lever |-> Lever,
                        verdict |-> IF Accepts THEN "ACCEPT" ELSE "reject",
                        row |-> ladder.row, base |-> ladder.base,
                        smokes |-> smoke_lines.row]
    <3>1. smoke_lines.row \in 0 .. 1
      BY DEF Typed
    <3>2. line \in Line
      BY <2>1, <3>1 DEF Line
    <3>3. log' = Append(log, line) /\ log \in Seq(Line)
      BY <1>10 DEF Verdict, Typed
    <3> HIDE DEF line
    <3> QED BY <3>2, <3>3
  <2>3. \/ ladder' = [ladder EXCEPT !.pc = "append", !.append = Settings[Lever]]
        \/ ladder' = [ladder EXCEPT !.pc = "rung", !.todo = Tail(@)]
    BY <1>10 DEF Verdict
  <2> QED BY <1>10, <2>1, <2>2, <2>3 DEF Verdict, Typed
<1>11. CASE AppendSetting
  <2>1. ladder.todo # <<>> /\ ladder.append # <<>>
    BY <1>11 DEF AppendSetting, Typed
  <2>2. Tail(ladder.append) \in Seq(Setting)
        /\ (Len(ladder.append) > 1 => Tail(ladder.append) # <<>>)
    BY <2>1, HeadTail
  <2>3. acc' \in Seq(Setting)
    BY <1>11, <2>1, HeadTail DEF AppendSetting, Typed
  <2>4. <<>> \in Seq(Setting)
    OBVIOUS
  <2>5. \/ /\ ladder' = [ladder EXCEPT !.append = Tail(@)] /\ Len(ladder.append) > 1
        \/ ladder' = [ladder EXCEPT !.pc = "rung", !.append = <<>>, !.todo = Tail(@),
                                    !.base = ladder.row]
    BY <1>11 DEF AppendSetting
  <2> QED BY <1>11, <2>1, <2>2, <2>3, <2>4, <2>5 DEF AppendSetting, Typed
<1>12. CASE LadderDone
  <2>1. log' \in Seq(Line)
    <3> DEFINE line == [lever |-> "LADDER-DONE", verdict |-> "", row |-> Nan,
                        base |-> Nan, smokes |-> 0]
    <3>1. line \in Line
      BY NanTyped DEF Line
    <3>2. log' = Append(log, line) /\ log \in Seq(Line)
      BY <1>12 DEF LadderDone, Typed
    <3> HIDE DEF line
    <3> QED BY <3>1, <3>2
  <2>2. <<>> \in Seq(Levers)
    OBVIOUS
  <2> QED BY <1>12, <2>1, <2>2, OffTyped DEF LadderDone, Typed
<1>13. CASE StackSees
  BY <1>13 DEF StackSees, Typed
<1>14. CASE StackAct
  <2>1. acc' \in Seq(Setting)
    BY <1>14, RestatedTyped, EditsTyped DEF StackAct, Typed
  <2>2. results' \in [Labels -> Rows]
    BY <1>14, NanTyped DEF StackAct, Typed
  <2>3. \A l \in Labels : results'[l] # Nan => results[l] # Nan
    BY <1>14 DEF StackAct, Typed
  <2> QED BY <1>14, <2>1, <2>2, <2>3 DEF StackAct, Typed
<1>15. CASE StackRelaunch
  <2>1. stack.levers \in Seq(Levers)
    BY DEF Typed
  <2>2. <<>> \in Seq(Levers) /\ <<>> \in Seq(Setting)
    OBVIOUS
  <2> QED BY <1>15, <2>1, <2>2, OffTyped DEF StackRelaunch, NoStack, Typed
<1>16. CASE UNCHANGED vars
  BY <1>16 DEF vars, Typed
<1> QED BY <1>1, <1>2, <1>3, <1>4, <1>5, <1>6, <1>7, <1>8, <1>9, <1>10, <1>11, <1>12,
           <1>13, <1>14, <1>15, <1>16 DEF Next, LadderStep, StackStep

LEMMA TypeImplies == Typed => TypeOK
<1> SUFFICES ASSUME Typed PROVE TypeOK
  OBVIOUS
<1>1. Range(acc) \subseteq Setting
  BY DEF Typed, Range
<1>2. \A i \in DOMAIN log : log[i].verdict \in {"ACCEPT", "reject", ""}
  <2>1. \A i \in DOMAIN log : log[i] \in Line
    BY DEF Typed
  <2> QED BY <2>1 DEF Line
<1>3. "G0" \in Labels /\ Levers \subseteq Labels
  BY DEF Labels
<1> QED BY <1>1, <1>2, <1>3, LadderTyped DEF Typed, TypeOK, Labels

(* Types: every file and both processes keep theirs, a process in a rung   *)
(* has a lever to run, and a result is there only with its BENCH-DONE.     *)
THEOREM TypeCorrect == Spec => []TypeOK
<1>1. Spec => []Typed
  BY TypeInit, TypeStep, PTL DEF Spec
<1> QED BY <1>1, TypeImplies, PTL

-------------------------------------------------------------------------------
(* Levers still to run have no results.                                    *)

(* What the rest of the ladder's list keeps once a lever is taken off.     *)
LEMMA Popped ==
  ASSUME Typed, Fresh, ladder.todo # <<>>
  PROVE  /\ Once(Tail(ladder.todo))
         /\ \A i \in DOMAIN Tail(ladder.todo) : results[Tail(ladder.todo)[i]] = Nan
         /\ \A i \in DOMAIN Tail(ladder.todo) : Tail(ladder.todo)[i] # Lever
         /\ stack.pc # "off" =>
              \A i \in DOMAIN stack.levers : \A j \in DOMAIN Tail(ladder.todo) :
                stack.levers[i] # Tail(ladder.todo)[j]
<1> DEFINE rest == Tail(ladder.todo)
<1>1. /\ ladder.todo \in Seq(Levers) /\ Lever = ladder.todo[1] /\ 1 \in DOMAIN ladder.todo
      /\ \A i \in DOMAIN rest : i + 1 \in DOMAIN ladder.todo /\ rest[i] = ladder.todo[i + 1]
      /\ rest \in Seq(Levers)
  BY LadderTyped, HeadTail DEF Lever
<1>2. \A i \in DOMAIN rest : i \in Nat /\ i + 1 > 1
  BY <1>1
<1> HIDE DEF rest
<1>3. Once(rest)
  BY <1>1, <1>2 DEF Once, Fresh
<1>4. \A i \in DOMAIN rest : results[rest[i]] = Nan
  BY <1>1, <1>2 DEF Fresh
<1>5. \A i \in DOMAIN rest : rest[i] # Lever
  BY <1>1, <1>2 DEF Once, Fresh
<1>6. stack.pc # "off" =>
        \A i \in DOMAIN stack.levers : \A j \in DOMAIN rest : stack.levers[i] # rest[j]
  BY <1>1 DEF Fresh
<1> QED BY <1>3, <1>4, <1>5, <1>6 DEF rest

(* The lists hold levers.                                                  *)
LEMMA Lists ==
  ASSUME Typed
  PROVE  /\ \A i \in DOMAIN ladder.todo : ladder.todo[i] \in Levers /\ i \in Nat /\ i >= 1
         /\ \A i \in DOMAIN stack.levers : stack.levers[i] \in Levers
         /\ Levers \subseteq Labels /\ "G0" \in Labels /\ "G0" \notin Levers
<1>1. ladder.todo \in Seq(Levers) /\ stack.levers \in Seq(Levers)
  BY DEF Typed
<1>2. Levers \subseteq Labels /\ "G0" \in Labels
  BY DEF Labels
<1> QED BY <1>1, <1>2, SettingsTyped

LEMMA FreshStep ==
  ASSUME CarefulOperator, Typed, Fresh, [Next]_vars
  PROVE  Fresh'
<1> DEFINE Quiet == /\ \A l \in Levers : results'[l] = results[l]
                    /\ stack'.levers = stack.levers
                    /\ stack'.pc # "off" => stack.pc # "off"
<1>1. ASSUME Quiet, ladder'.todo = ladder.todo,
             ladder'.pc \in {"base", "rung"} => ladder.pc \in {"base", "rung"}
      PROVE  Fresh'
  BY <1>1, Lists DEF Fresh, Once
<1>2. ASSUME Quiet, ladder.todo # <<>>, ladder'.todo = Tail(ladder.todo)
      PROVE  Fresh'
  <2>1. \A i \in DOMAIN Tail(ladder.todo) : Tail(ladder.todo)[i] \in Levers
    <3>1. Tail(ladder.todo) \in Seq(Levers)
      BY <1>2, LadderTyped
    <3> QED BY <3>1
  <2> QED BY <1>2, <2>1, Popped, Lists DEF Fresh, Once
<1>3. ASSUME Quiet, ladder'.todo = <<>>
      PROVE  Fresh'
  <2>1. DOMAIN ladder'.todo = {}
    BY <1>3
  <2> QED BY <1>3, <2>1, Lists DEF Fresh, Once
<1>4. CASE StartByHand
  <2>1. PICK levers \in FirstLevers : /\ ladder' = Started(levers)
                                      /\ \A l \in Range(levers) : results[l] = Nan
    BY <1>4 DEF StartByHand
  <2>2. levers \in Seq(Levers) /\ Once(levers)
    BY SettingsTyped
  <2>3. ladder'.todo = levers /\ results' = results /\ stack' = stack /\ stack.pc = "off"
    BY <1>4, <2>1, <2>2, OffTyped DEF StartByHand
  <2>4. \A i \in DOMAIN levers : results[levers[i]] = Nan
    BY <2>1 DEF Range
  <2> QED BY <2>2, <2>3, <2>4 DEF Fresh, Once
<1>5. CASE AcceptByHand
  BY <1>1, <1>5 DEF AcceptByHand
<1>6. CASE DropByHand
  BY <1>1, <1>6 DEF DropByHand
<1>7. CASE StackStart
  <2>1. PICK args \in Relaunches :
          /\ \A l \in Range(args.levers) : results[l] = Nan /\ l \notin Range(ladder.todo)
          /\ stack' = [pc |-> "wait", wait |-> args.wait, line0 |-> Len(log),
                       xapply |-> args.xapply, levers |-> args.levers]
    BY <1>7 DEF StackStart
  <2>2. ladder' = ladder /\ results' = results /\ stack'.levers = args.levers
    BY <1>7, <2>1 DEF StackStart
  <2>3. Once(args.levers)
    BY SettingsTyped
  <2>4. \A i \in DOMAIN args.levers :
          /\ results[args.levers[i]] = Nan
          /\ \A j \in DOMAIN ladder.todo : args.levers[i] # ladder.todo[j]
    BY <2>1 DEF Range
  <2> QED BY <2>2, <2>3, <2>4 DEF Fresh, Once
<1>8. CASE BaseKept
  BY <1>1, <1>8, LadderTyped DEF BaseKept, Typed
<1>9. CASE BaseRow
  <2>1. PICK smokes \in 0 .. 1, healthy \in BOOLEAN, ok \in BOOLEAN, has \in Benches["G0"] :
          RowEnds("G0", acc, smokes, healthy, ok, has)
    BY <1>9 DEF BaseRow
  <2>2. \A l \in Levers : results'[l] = results[l]
    BY <2>1, RowEffect, Lists DEF Typed
  <2>3. \/ ladder' = [ladder EXCEPT !.pc = "rung", !.base = results'["G0"]]
        \/ ladder' = Off
    BY <1>9 DEF BaseRow
  <2>4. CASE ladder' = Off
    <3>1. ladder'.todo = <<>>
      BY <2>4 DEF Off
    <3>2. stack' = stack
      BY <1>9 DEF BaseRow
    <3> QED BY <1>3, <2>2, <3>1, <3>2
  <2>5. CASE ladder' = [ladder EXCEPT !.pc = "rung", !.base = results'["G0"]]
    BY <1>1, <1>9, <2>2, <2>5 DEF BaseRow, Typed
  <2> QED BY <2>3, <2>4, <2>5
<1>10. CASE RungRow
  <2>1. PICK smokes \in 0 .. 1, healthy \in BOOLEAN, ok \in BOOLEAN, has \in Benches[Lever] :
          RowEnds(Lever, acc \o Settings[Lever], smokes, healthy, ok, has)
    BY <1>10 DEF RungRow
  <2>2. Lever \in Labels /\ acc \o Settings[Lever] \in Seq(Setting) /\ ladder.todo # <<>>
    BY <1>10, LadderTyped DEF RungRow, Typed
  <2>3. \A l \in Levers : l # Lever => results'[l] = results[l]
    <3> DEFINE list == acc \o Settings[Lever]
    <3>1. list \in Seq(Setting) /\ RowEnds(Lever, list, smokes, healthy, ok, has)
      BY <2>1, <2>2
    <3> HIDE DEF list
    <3>2. \A l \in Labels : l # Lever => results'[l] = results[l]
      BY <2>2, <3>1, RowEffect
    <3> QED BY <3>2, Lists
  <2>4. /\ ladder'.todo = ladder.todo /\ ladder'.pc \notin {"base", "rung"}
        /\ stack' = stack /\ ladder.pc = "rung"
    BY <1>10 DEF RungRow, Typed
  <2>5. Lever = ladder.todo[1] /\ 1 \in DOMAIN ladder.todo
    BY <2>2, LadderTyped, HeadTail DEF Lever
  <2>6. \A i \in DOMAIN ladder.todo : i > 1 => ladder.todo[i] # Lever
    BY <2>5, Lists DEF Fresh, Once
  <2>7. stack.pc # "off" => \A i \in DOMAIN stack.levers : stack.levers[i] # Lever
    BY <2>5 DEF Fresh
  <2>8. \A i \in DOMAIN ladder.todo : i > 1 => results'[ladder.todo[i]] = Nan
    BY <2>3, <2>6, Lists DEF Fresh
  <2>9. stack.pc # "off" => \A i \in DOMAIN stack.levers : results'[stack.levers[i]] = Nan
    BY <2>3, <2>7, Lists DEF Fresh
  <2> QED BY <2>4, <2>8, <2>9 DEF Fresh, Once
<1>11. CASE RungSkipped
  BY <1>2, <1>11 DEF RungSkipped, Typed
<1>12. CASE RungFailed
  BY <1>2, <1>12 DEF RungFailed, Typed
<1>13. CASE Verdict
  <2>1. ladder.todo # <<>>
    BY <1>13 DEF Verdict, Typed
  <2>2. \/ ladder' = [ladder EXCEPT !.pc = "append", !.append = Settings[Lever]]
        \/ ladder' = [ladder EXCEPT !.pc = "rung", !.todo = Tail(@)]
    BY <1>13 DEF Verdict
  <2> QED BY <1>1, <1>2, <1>13, <2>1, <2>2 DEF Verdict, Typed
<1>14. CASE AppendSetting
  <2>1. ladder.todo # <<>>
    BY <1>14 DEF AppendSetting, Typed
  <2>2. \/ ladder' = [ladder EXCEPT !.append = Tail(@)]
        \/ ladder' = [ladder EXCEPT !.pc = "rung", !.append = <<>>, !.todo = Tail(@),
                                    !.base = ladder.row]
    BY <1>14 DEF AppendSetting
  <2> QED BY <1>1, <1>2, <1>14, <2>1, <2>2 DEF AppendSetting, Typed
<1>15. CASE LadderDone
  BY <1>3, <1>15 DEF LadderDone, Off
<1>16. CASE StackSees
  BY <1>1, <1>16 DEF StackSees, Typed
<1>17. CASE StackAct
  BY <1>1, <1>17, Lists DEF StackAct, Typed
<1>18. CASE StackRelaunch
  <2>1. ladder'.todo = stack.levers /\ results' = results /\ stack'.pc = "off"
        /\ stack.pc # "off"
    BY <1>18, OffTyped DEF StackRelaunch, NoStack, Typed
  <2> QED BY <2>1 DEF Fresh, Once
<1>19. CASE UNCHANGED vars
  BY <1>1, <1>19 DEF vars
<1> QED BY <1>4, <1>5, <1>6, <1>7, <1>8, <1>9, <1>10, <1>11, <1>12, <1>13, <1>14, <1>15,
           <1>16, <1>17, <1>18, <1>19 DEF Next, LadderStep, StackStep

-------------------------------------------------------------------------------
(* Numbers and the settings they were measured with.                       *)

LEMMA MeasuredStep ==
  ASSUME CarefulOperator, Typed, Fresh, Measured, OwnRow, [Next]_vars
  PROVE  Measured'
<1>1. CASE StartByHand
  <2>1. /\ MeasuredWith(results["G0"], acc) /\ ladder'.pc = "base"
        /\ acc' = acc /\ results' = results /\ stack' = stack /\ stack.pc = "off"
    <3>1. PICK levers \in FirstLevers : ladder' = Started(levers)
      BY <1>1 DEF StartByHand
    <3>2. levers \in Seq(Levers)
      BY SettingsTyped
    <3> QED BY <1>1, <3>1, <3>2, OffTyped DEF StartByHand
  <2> QED BY <2>1 DEF Measured
<1>2. CASE AcceptByHand
  BY <1>2 DEF AcceptByHand, Measured
<1>3. CASE DropByHand
  BY <1>3 DEF DropByHand, Measured
<1>4. CASE StackStart
  BY <1>4 DEF StackStart, Measured
<1>5. CASE BaseKept
  <2>1. /\ ladder.pc = "base" /\ ladder'.pc = "rung" /\ ladder'.base = results["G0"]
        /\ acc' = acc /\ results' = results /\ stack' = stack
    BY <1>5 DEF BaseKept, Typed
  <2> QED BY <2>1 DEF Measured
<1>6. CASE BaseRow
  <2>1. PICK smokes \in 0 .. 1, healthy \in BOOLEAN, ok \in BOOLEAN, has \in Benches["G0"] :
          RowEnds("G0", acc, smokes, healthy, ok, has)
    BY <1>6 DEF BaseRow
  <2>2. /\ results'["G0"] = results["G0"] \/ MeasuredWith(results'["G0"], acc)
        /\ StackActs => results' = results
    BY <2>1, RowEffect, Lists DEF Typed
  <2>3. /\ ladder.pc = "base" /\ results["G0"] = Nan
        /\ acc' = acc /\ stack' = stack
    BY <1>6 DEF BaseRow
  <2>4. \/ ladder'.pc = "rung" /\ ladder'.base = results'["G0"]
        \/ ladder'.pc = "off"
    <3>1. \/ ladder' = [ladder EXCEPT !.pc = "rung", !.base = results'["G0"]]
          \/ ladder' = Off
      BY <1>6 DEF BaseRow
    <3>2. Off.pc = "off"
      BY DEF Off
    <3> HIDE DEF Off
    <3> QED BY <3>1, <3>2 DEF Typed
  <2> QED BY <2>2, <2>3, <2>4 DEF Measured, StackActs
<1>7. CASE RungRow
  <2>1. PICK smokes \in 0 .. 1, healthy \in BOOLEAN, ok \in BOOLEAN, has \in Benches[Lever] :
          RowEnds(Lever, acc \o Settings[Lever], smokes, healthy, ok, has)
    BY <1>7 DEF RungRow
  <2>2. /\ Lever \in Levers /\ Lever \in Labels
        /\ acc \o Settings[Lever] \in Seq(Setting)
    BY <1>7, LadderTyped DEF RungRow, Typed
  <2>3. \A l \in Labels : l # Lever => results'[l] = results[l]
    <3> DEFINE list == acc \o Settings[Lever]
    <3>1. list \in Seq(Setting) /\ RowEnds(Lever, list, smokes, healthy, ok, has)
      BY <2>1, <2>2
    <3> HIDE DEF list
    <3> QED BY <2>1, <2>2, <3>1, RowEffect
  <2>4. results'["G0"] = results["G0"]
    BY <2>2, <2>3, Lists
  <2>5. /\ ladder.pc = "rung" /\ ladder'.pc \in {"verdict", "failed"}
        /\ ladder'.base = ladder.base /\ acc' = acc /\ stack' = stack
    BY <1>7 DEF RungRow, Typed
  <2> QED BY <2>4, <2>5 DEF Measured
<1>8. CASE RungSkipped
  <2>1. /\ ladder.pc = "rung" /\ ladder'.pc = "rung" /\ ladder'.base = ladder.base
        /\ acc' = acc /\ results' = results /\ stack' = stack
    BY <1>8 DEF RungSkipped, Typed
  <2> QED BY <2>1 DEF Measured
<1>9. CASE RungFailed
  <2>1. /\ ladder.pc = "failed" /\ ladder'.pc = "rung" /\ ladder'.base = ladder.base
        /\ acc' = acc /\ results' = results /\ stack' = stack
    BY <1>9 DEF RungFailed, Typed
  <2> QED BY <2>1 DEF Measured
<1>10. CASE Verdict
  <2>1. /\ ladder.pc = "verdict" /\ acc' = acc /\ results' = results /\ stack' = stack
    BY <1>10 DEF Verdict
  <2>2. CASE Accepts
    <3>1. /\ ladder'.pc = "append" /\ ladder'.append = Settings[Lever]
          /\ ladder'.row = ladder.row
      BY <1>10, <2>2 DEF Verdict, Typed
    <3>2. smoke_lines.row \in 0 .. 1 /\ smoke_lines.row >= 1
      BY <2>2 DEF Accepts, Typed
    <3>3. MeasuredWith(ladder.row, acc \o Settings[Lever])
      BY <2>1, <3>2 DEF OwnRow
    <3> QED BY <2>1, <3>1, <3>3 DEF Measured
  <2>3. CASE ~Accepts
    <3>1. ladder'.pc = "rung" /\ ladder'.base = ladder.base
      BY <1>10, <2>3 DEF Verdict, Typed
    <3> QED BY <2>1, <3>1 DEF Measured
  <2> QED BY <2>2, <2>3
<1>11. CASE AppendSetting
  <2>1. /\ ladder.pc = "append" /\ acc' = Append(acc, Head(ladder.append))
        /\ results' = results /\ stack' = stack
    BY <1>11 DEF AppendSetting
  <2>2. ladder.append \in Seq(Setting) /\ ladder.append # <<>> /\ acc \in Seq(Setting)
    BY <2>1 DEF Typed
  <2>3. /\ acc' \o Tail(ladder.append) = acc \o ladder.append
        /\ Len(ladder.append) <= 1 => acc' = acc \o ladder.append
    BY <2>1, <2>2, OneByOne
  <2>4. CASE Len(ladder.append) > 1
    <3>1. /\ ladder'.pc = "append" /\ ladder'.append = Tail(ladder.append)
          /\ ladder'.row = ladder.row
      BY <1>11, <2>1, <2>4 DEF AppendSetting, Typed
    <3> QED BY <2>1, <2>3, <3>1 DEF Measured
  <2>5. CASE ~(Len(ladder.append) > 1)
    <3>1. ladder'.pc = "rung" /\ ladder'.base = ladder.row
      BY <1>11, <2>5 DEF AppendSetting, Typed
    <3>2. acc' = acc \o ladder.append
      BY <2>2, <2>3, <2>5
    <3> QED BY <2>1, <3>1, <3>2 DEF Measured
  <2> QED BY <2>4, <2>5
<1>12. CASE LadderDone
  <2>1. ladder'.pc = "off" /\ results' = results /\ stack' = stack
    BY <1>12 DEF LadderDone, Off
  <2> QED BY <2>1 DEF Measured
<1>13. CASE StackSees
  <2>1. /\ stack.pc = "wait" /\ stack'.pc = "act"
        /\ acc' = acc /\ results' = results /\ ladder' = ladder
    BY <1>13 DEF StackSees, Typed
  <2> QED BY <2>1 DEF Measured
<1>14. CASE StackAct
  <2>1. stack'.pc = "relaunch" /\ results'["G0"] = Nan
    BY <1>14, Lists DEF StackAct, Typed
  <2> QED BY <2>1 DEF Measured
<1>15. CASE StackRelaunch
  <2>1. stack.levers \in Seq(Levers)
    BY DEF Typed
  <2>2. /\ stack.pc = "relaunch" /\ stack'.pc = "off" /\ ladder'.pc = "base"
        /\ acc' = acc /\ results' = results
    BY <1>15, <2>1, OffTyped DEF StackRelaunch, NoStack
  <2> QED BY <2>2 DEF Measured, MeasuredWith
<1>16. CASE UNCHANGED vars
  BY <1>16 DEF vars, Measured
<1> QED BY <1>1, <1>2, <1>3, <1>4, <1>5, <1>6, <1>7, <1>8, <1>9, <1>10, <1>11, <1>12,
           <1>13, <1>14, <1>15, <1>16 DEF Next, LadderStep, StackStep

LEMMA OwnRowStep ==
  ASSUME CarefulOperator, Typed, Fresh, OwnRow, [Next]_vars
  PROVE  OwnRow'
<1> SUFFICES ASSUME ladder'.pc = "verdict", smoke_lines'.row > 0
             PROVE  ~StackActs' /\ MeasuredWith(ladder'.row, acc' \o Settings[Lever'])
  BY DEF OwnRow
<1>1. CASE RungRow
  <2>1. PICK smokes \in 0 .. 1, healthy \in BOOLEAN, ok \in BOOLEAN, has \in Benches[Lever] :
          RowEnds(Lever, acc \o Settings[Lever], smokes, healthy, ok, has)
    BY <1>1 DEF RungRow
  <2>2. /\ Lever \in Levers /\ Lever \in Labels /\ ladder.todo # <<>>
        /\ acc \o Settings[Lever] \in Seq(Setting)
    BY <1>1, LadderTyped DEF RungRow, Typed
  <2>3. /\ \/ results'[Lever] = results[Lever]
           \/ MeasuredWith(results'[Lever], acc \o Settings[Lever])
        /\ smoke_lines'.row = smokes
        /\ StackActs => smokes = 0
    <3> DEFINE list == acc \o Settings[Lever]
    <3>1. list \in Seq(Setting) /\ RowEnds(Lever, list, smokes, healthy, ok, has)
      BY <2>1, <2>2
    <3> HIDE DEF list
    <3>2. /\ results'[Lever] = results[Lever] \/ MeasuredWith(results'[Lever], list)
          /\ smoke_lines'.row = smokes
          /\ StackActs => smokes = 0
      BY <2>2, <3>1, RowEffect
    <3> QED BY <3>2 DEF list
  <2>4. results[Lever] = Nan
    <3>1. Lever = ladder.todo[1] /\ 1 \in DOMAIN ladder.todo
      BY <2>2, LadderTyped, HeadTail DEF Lever
    <3> QED BY <1>1, <3>1 DEF RungRow, Fresh
  <2>5. ladder'.todo = ladder.todo /\ ladder'.row = results'[Lever]
    BY <1>1 DEF RungRow, Typed
  <2>6. acc' = acc /\ stack' = stack /\ log' = log
    BY <1>1 DEF RungRow
  <2>7. ~StackActs
    BY <2>3
  <2>8. ~StackActs' /\ Lever' = Lever
    BY <2>5, <2>6, <2>7 DEF StackActs, Lever
  <2>9. MeasuredWith(results'[Lever], acc \o Settings[Lever])
    BY <2>3, <2>4 DEF MeasuredWith
  <2> QED BY <2>5, <2>6, <2>8, <2>9
<1>2. ASSUME ladder' = ladder, smoke_lines' = smoke_lines, acc' = acc, ~StackActs => ~StackActs'
      PROVE  ~StackActs' /\ MeasuredWith(ladder'.row, acc' \o Settings[Lever'])
  BY <1>2 DEF OwnRow, Lever
<1>3. CASE AcceptByHand \/ DropByHand
  <2>1. ladder.pc = "off" /\ ladder' = ladder
    BY <1>3 DEF AcceptByHand, DropByHand
  <2> QED BY <2>1
<1>4. CASE StackStart
  <2>1. stack'.pc = "wait" /\ stack'.line0 = Len(log) /\ log' = log
    BY <1>4 DEF StackStart
  <2>2. Len(log) \in Nat
    BY DEF Typed
  <2>3. ~StackActs'
    BY <2>1, <2>2 DEF StackActs
  <2> QED BY <1>2, <1>4, <2>3 DEF StackStart
<1>5. CASE StackSees
  <2>1. ladder' = ladder /\ smoke_lines' = smoke_lines /\ stack.pc = "wait" /\ NewLines # {}
    BY <1>5 DEF StackSees
  <2>2. StackActs
    BY <2>1 DEF StackActs, NewLines
  <2> QED BY <2>1, <2>2 DEF OwnRow
<1>6. CASE StackAct
  <2>1. ladder' = ladder /\ smoke_lines' = smoke_lines /\ stack.pc = "act"
    BY <1>6 DEF StackAct
  <2>2. StackActs
    BY <2>1 DEF StackActs
  <2> QED BY <2>1, <2>2 DEF OwnRow
<1>7. CASE UNCHANGED vars
  <2>1. StackActs' = StackActs
    BY <1>7 DEF vars, StackActs
  <2> QED BY <1>2, <1>7, <2>1 DEF vars
<1>8. CASE StartByHand
  <2>1. PICK levers \in FirstLevers : ladder' = Started(levers)
    BY <1>8 DEF StartByHand
  <2> QED BY <2>1, SettingsTyped, OffTyped
<1>9. CASE StackRelaunch
  <2>1. stack.levers \in Seq(Levers) /\ ladder' = Started(stack.levers)
    BY <1>9 DEF StackRelaunch, Typed
  <2> QED BY <2>1, OffTyped
<1>10. CASE BaseRow
  <2>1. Off.pc = "off"
    BY DEF Off
  <2>2. \/ ladder' = [ladder EXCEPT !.pc = "rung", !.base = results'["G0"]]
        \/ ladder' = Off
    BY <1>10 DEF BaseRow
  <2> HIDE DEF Off
  <2> QED BY <2>1, <2>2 DEF Typed
<1>11. CASE BaseKept
  BY <1>11 DEF BaseKept, Typed
<1>12. CASE RungSkipped
  BY <1>12 DEF RungSkipped, Typed
<1>13. CASE RungFailed
  BY <1>13 DEF RungFailed, Typed
<1>14. CASE Verdict
  <2>1. \/ ladder' = [ladder EXCEPT !.pc = "append", !.append = Settings[Lever]]
        \/ ladder' = [ladder EXCEPT !.pc = "rung", !.todo = Tail(@)]
    BY <1>14 DEF Verdict
  <2> QED BY <2>1 DEF Typed
<1>15. CASE AppendSetting
  <2>1. \/ ladder' = [ladder EXCEPT !.append = Tail(@)]
        \/ ladder' = [ladder EXCEPT !.pc = "rung", !.append = <<>>, !.todo = Tail(@),
                                    !.base = ladder.row]
    BY <1>15 DEF AppendSetting
  <2>2. ladder.pc = "append"
    BY <1>15 DEF AppendSetting
  <2> QED BY <2>1, <2>2 DEF Typed
<1>16. CASE LadderDone
  BY <1>16 DEF LadderDone, Off
<1> QED BY <1>1, <1>3, <1>4, <1>5, <1>6, <1>7, <1>8, <1>9, <1>10, <1>11, <1>12, <1>13,
           <1>14, <1>15, <1>16 DEF Next, LadderStep, StackStep

-------------------------------------------------------------------------------

LEMMA InitLInv == Init => LInv
<1> SUFFICES ASSUME Init PROVE LInv
  OBVIOUS
<1>1. ladder.pc = "off" /\ ladder.todo = <<>>
  BY DEF Init, Off
<1>2. stack.pc = "off"
  BY DEF Init, NoStack
<1>3. DOMAIN ladder.todo = {}
  BY <1>1
<1>4. Fresh
  BY <1>2, <1>3 DEF Fresh, Once
<1> QED BY <1>1, <1>2, <1>4, TypeInit DEF LInv, Measured, OwnRow

LEMMA Invariance == CarefulOperator => (Spec => []LInv)
<1> SUFFICES ASSUME CarefulOperator PROVE Spec => []LInv
  OBVIOUS
<1>1. LInv /\ [Next]_vars => LInv'
  BY TypeStep, FreshStep, MeasuredStep, OwnRowStep DEF LInv
<1> QED BY <1>1, InitLInv, PTL DEF Spec

LEMMA AcceptingRow ==
  ASSUME LInv, ladder.pc = "verdict", Accepts
  PROVE  /\ smoke_lines.row > 0 /\ ~StackActs
         /\ MeasuredWith(ladder.row, acc \o Settings[Lever])
<1>1. smoke_lines.row \in 0 .. 1 /\ smoke_lines.row >= 1
  BY DEF Accepts, LInv, Typed
<1> QED BY <1>1 DEF LInv, OwnRow

(* "vs the current base": an operator who starts no ladder on an older     *)
(* base row, repeats no lever and edits the base only between ladders gets *)
(* every lever judged against numbers of exactly the accepted settings,    *)
(* however stack_next interleaves with the ladder.                         *)
THEOREM JudgedAgainstCurrentBase == CarefulOperator => (Spec => []BaseIsCurrent)
<1>1. LInv => BaseIsCurrent
  <2> SUFFICES ASSUME LInv, ladder.pc = "verdict", Accepts
               PROVE  MeasuredWith(ladder.base, acc)
    BY DEF BaseIsCurrent
  <2>1. stack.pc # "relaunch"
    BY AcceptingRow DEF StackActs
  <2> QED BY <2>1 DEF LInv, Measured
<1> QED BY <1>1, Invariance, PTL

(* ... and accepted on a smoke and numbers of its own row: the accepted    *)
(* settings and the lever's, never what an earlier row left.               *)
THEOREM JudgedOnOwnRow == CarefulOperator => (Spec => []AcceptedOnOwnRow)
<1>1. LInv => AcceptedOnOwnRow
  <2> SUFFICES ASSUME LInv, ladder.pc = "verdict", Accepts
               PROVE  /\ smoke_lines.row > 0
                      /\ Lever \notin ProfileLevers =>
                           /\ ladder.row # Nan
                           /\ MeasuredWith(ladder.row, acc \o Settings[Lever])
    BY DEF AcceptedOnOwnRow
  <2>1. Lever \notin ProfileLevers => ladder.row # Nan
    BY WinsOnRow DEF Accepts
  <2> QED BY <2>1, AcceptingRow
<1> QED BY <1>1, Invariance, PTL
-------------------------------------------------------------------------------
(* Which settings a list has, and which of them are in force.              *)

Rank(P, i) == Cardinality({j \in P : j <= i})

LEMMA RankGrows ==
  ASSUME NEW n \in Nat, NEW P \in SUBSET (1 .. n), NEW i \in P
  PROVE  /\ Rank(P, i) \in 1 .. Cardinality(P) /\ Cardinality(P) \in Nat
         /\ \A j \in P : i < j => Rank(P, i) < Rank(P, j)
<1> DEFINE upto(m) == {j \in P : j <= m}
<1>1. IsFiniteSet(P) /\ Cardinality(P) \in Nat
  <2>1. IsFiniteSet(1 .. n)
    BY FS_Interval
  <2> QED BY <2>1, FS_Subset, FS_CardinalityType
<1>2. \A m \in Nat : /\ IsFiniteSet(upto(m)) /\ Cardinality(upto(m)) \in Nat
                     /\ Cardinality(upto(m)) <= Cardinality(P)
  BY <1>1, FS_Subset, FS_CardinalityType
<1>3. i \in Nat /\ i \in upto(i)
  OBVIOUS
<1>4. Cardinality(upto(i)) # 0
  <2>1. IsFiniteSet(upto(i)) /\ i \in upto(i)
    BY <1>2, <1>3
  <2> HIDE DEF upto
  <2> QED BY <2>1, FS_EmptySet
<1>5. ASSUME NEW j \in P, i < j
      PROVE  Cardinality(upto(i)) < Cardinality(upto(j))
  <2>1. j \in Nat /\ j \notin upto(i) /\ upto(i) \cup {j} \subseteq upto(j)
    <3>1. \A m \in P : m \in Nat
      OBVIOUS
    <3>2. j \in Nat /\ i \in Nat /\ ~(j <= i) /\ j <= j
      BY <1>5, <3>1
    <3>3. \A m \in P : m <= i => m <= j
      BY <1>5, <3>1, <3>2
    <3> QED BY <3>2, <3>3
  <2> HIDE DEF upto
  <2>2. Cardinality(upto(i) \cup {j}) = Cardinality(upto(i)) + 1
    BY <1>2, <1>3, <2>1, FS_AddElement
  <2>3. Cardinality(upto(i) \cup {j}) <= Cardinality(upto(j))
    BY <1>2, <2>1, FS_Subset
  <2> QED BY <1>2, <1>3, <2>1, <2>2, <2>3
<1>6. \A m : Rank(P, m) = Cardinality(upto(m))
  BY DEF Rank
<1> HIDE DEF upto
<1> QED BY <1>1, <1>2, <1>3, <1>4, <1>5, <1>6

(* Keep has each of the chosen elements at its rank, and no other.         *)
LEMMA KeepAt ==
  ASSUME NEW S, NEW list \in Seq(S), NEW P \in SUBSET (DOMAIN list)
  PROVE  /\ Keep(list, P) \in Seq(S) /\ DOMAIN Keep(list, P) = 1 .. Cardinality(P)
         /\ Cardinality(P) \in Nat
         /\ \A i \in P : /\ Rank(P, i) \in DOMAIN Keep(list, P)
                         /\ Keep(list, P)[Rank(P, i)] = list[i]
         /\ \A k \in DOMAIN Keep(list, P) : \E i \in P : Rank(P, i) = k
<1> DEFINE at(k) == CHOOSE i \in P : Cardinality({j \in P : j <= i}) = k
<1>1. Len(list) \in Nat /\ P \in SUBSET (1 .. Len(list)) /\ \A i \in P : i \in Nat
  OBVIOUS
<1>2. Cardinality(P) \in Nat
  <2>1. IsFiniteSet(1 .. Len(list))
    BY <1>1, FS_Interval
  <2> QED BY <1>1, <2>1, FS_Subset, FS_CardinalityType
<1>3. Keep(list, P) = [k \in 1 .. Cardinality(P) |-> list[at(k)]]
  BY DEF Keep
<1>4. \A k \in 1 .. Cardinality(P) : \E i \in P : Rank(P, i) = k
  BY <1>1, Ranks DEF Rank
<1>5. ASSUME NEW i \in P
      PROVE  at(Rank(P, i)) = i
  <2>1. at(Rank(P, i)) \in P /\ Rank(P, at(Rank(P, i))) = Rank(P, i)
    <3>1. \E j \in P : Cardinality({m \in P : m <= j}) = Rank(P, i)
      BY DEF Rank
    <3>2. at(Rank(P, i)) \in P
      BY <3>1
    <3>3. Cardinality({m \in P : m <= at(Rank(P, i))}) = Rank(P, i)
      BY <3>1
    <3> HIDE DEF at
    <3> QED BY <3>2, <3>3 DEF Rank
  <2> HIDE DEF at
  <2>2. PICK j : j = at(Rank(P, i))
    OBVIOUS
  <2>3. j \in P /\ Rank(P, j) = Rank(P, i)
    BY <2>1, <2>2
  <2>4. Rank(P, i) \in Nat
    <3>1. Rank(P, i) \in 1 .. Cardinality(P)
      BY <1>1, RankGrows
    <3> QED BY <1>2, <3>1
  <2>5. ~(i < j) /\ ~(j < i)
    <3>1. i < j => Rank(P, i) < Rank(P, j)
      BY <1>1, <2>3, RankGrows
    <3>2. j < i => Rank(P, j) < Rank(P, i)
      BY <1>1, <2>3, RankGrows
    <3> QED BY <2>3, <2>4, <3>1, <3>2
  <2> QED BY <1>1, <2>2, <2>3, <2>5
<1>6. \A i \in P : Rank(P, i) \in 1 .. Cardinality(P)
  BY <1>1, RankGrows
<1>7. Keep(list, P) \in Seq(S)
  BY KeepIsSeq
<1> HIDE DEF at
<1>8. DOMAIN Keep(list, P) = 1 .. Cardinality(P)
  BY <1>3
<1>9. \A i \in P : Keep(list, P)[Rank(P, i)] = list[i]
  BY <1>3, <1>5, <1>6
<1> QED BY <1>2, <1>4, <1>6, <1>7, <1>8, <1>9

(* The setting of a key that is in force is the last one.                  *)
LEMMA InForce ==
  ASSUME NEW list \in Seq(Setting), NEW k \in Keys, NEW n \in DOMAIN list, list[n][1] = k,
         \A j \in DOMAIN list : list[j][1] = k => j <= n
  PROVE  Env(list)[k] = list[n][2]
<1> DEFINE last == CHOOSE i \in DOMAIN list :
                     /\ list[i][1] = k
                     /\ \A j \in DOMAIN list : list[j][1] = k => j <= i
<1>1. /\ last \in DOMAIN list /\ list[last][1] = k
      /\ \A j \in DOMAIN list : list[j][1] = k => j <= last
  <2>1. \E i \in DOMAIN list : /\ list[i][1] = k
                               /\ \A j \in DOMAIN list : list[j][1] = k => j <= i
    OBVIOUS
  <2> QED BY <2>1
<1>2. Env(list)[k] = list[last][2]
  BY DEF Env
<1> HIDE DEF last
<1>3. last = n
  BY <1>1
<1> QED BY <1>2, <1>3

LEMMA NotSet ==
  ASSUME NEW list \in Seq(Setting), NEW k \in Keys,
         \A j \in DOMAIN list : list[j][1] # k
  PROVE  Env(list)[k] = Default
BY DEF Env

LEMMA LastSetting ==
  ASSUME NEW list \in Seq(Setting), NEW k, \E j \in DOMAIN list : list[j][1] = k
  PROVE  \E n \in DOMAIN list : list[n][1] = k /\ \A j \in DOMAIN list : list[j][1] = k => j <= n
<1> DEFINE of == {i \in DOMAIN list : list[i][1] = k}
<1>1. of \in SUBSET (1 .. Len(list)) /\ of # {} /\ Len(list) \in Nat
  OBVIOUS
<1>2. \E i \in of : \A j \in of : j <= i
  <2> HIDE DEF of
  <2> QED BY <1>1, LastOne
<1> QED BY <1>2

(* Every setting of k in a list gives it v.                                *)
OnlyTo(list, k, v) == \A n \in DOMAIN list : list[n][1] = k => list[n][2] = v

(* What is appended changes a key if it sets it, ...                       *)
LEMMA Overridden ==
  ASSUME NEW file \in Seq(Setting), NEW new \in Seq(Setting), NEW k \in Keys, NEW v,
         OnlyTo(new, k, v), \E n \in DOMAIN new : new[n][1] = k
  PROVE  Env(file \o new)[k] = v
<1> DEFINE all == file \o new
<1>1. /\ all \in Seq(Setting) /\ Len(all) = Len(file) + Len(new)
      /\ Len(file) \in Nat /\ Len(new) \in Nat
      /\ DOMAIN all = 1 .. Len(file) + Len(new)
      /\ DOMAIN file = 1 .. Len(file) /\ DOMAIN new = 1 .. Len(new)
      /\ \A i \in DOMAIN file : all[i] = file[i]
      /\ \A i \in DOMAIN new : all[Len(file) + i] = new[i]
  OBVIOUS
<1> HIDE DEF all
<1>2. PICK n \in DOMAIN new : /\ new[n][1] = k
                              /\ \A j \in DOMAIN new : new[j][1] = k => j <= n
  BY LastSetting
<1>3. Len(file) + n \in DOMAIN all /\ all[Len(file) + n] = new[n] /\ n \in Nat /\ n >= 1
  BY <1>1
<1>4. ASSUME NEW j \in DOMAIN all, all[j][1] = k
      PROVE  j <= Len(file) + n
  <2>1. CASE j <= Len(file)
    BY <1>1, <1>3, <2>1
  <2>2. CASE j > Len(file)
    <3>1. j - Len(file) \in DOMAIN new /\ all[Len(file) + (j - Len(file))] = new[j - Len(file)]
          /\ Len(file) + (j - Len(file)) = j
      BY <1>1, <2>2
    <3>2. j - Len(file) <= n
      BY <1>2, <1>4, <3>1
    <3> QED BY <1>1, <1>3, <3>2
  <2> QED BY <1>1, <2>1, <2>2
<1>5. Env(all)[k] = all[Len(file) + n][2]
  <2>1. PICK m : m = Len(file) + n
    OBVIOUS
  <2>2. m \in DOMAIN all /\ all[m][1] = k /\ \A j \in DOMAIN all : all[j][1] = k => j <= m
    BY <1>2, <1>3, <1>4, <2>1
  <2>3. Env(all)[k] = all[m][2]
    BY <1>1, <2>2, InForce
  <2> QED BY <2>1, <2>3
<1> QED BY <1>2, <1>3, <1>5 DEF OnlyTo, all

(* ... and only then.                                                      *)
LEMMA Untouched ==
  ASSUME NEW file \in Seq(Setting), NEW new \in Seq(Setting), NEW k \in Keys, NEW v,
         \A n \in DOMAIN new : new[n][1] # k, Env(file)[k] = v
  PROVE  Env(file \o new)[k] = v
<1> DEFINE all == file \o new
<1>1. /\ all \in Seq(Setting) /\ Len(all) = Len(file) + Len(new)
      /\ Len(file) \in Nat /\ Len(new) \in Nat
      /\ DOMAIN all = 1 .. Len(file) + Len(new)
      /\ DOMAIN file = 1 .. Len(file) /\ DOMAIN new = 1 .. Len(new)
      /\ \A i \in DOMAIN file : all[i] = file[i]
      /\ \A i \in DOMAIN new : all[Len(file) + i] = new[i]
  OBVIOUS
<1> HIDE DEF all
<1>2. \A j \in DOMAIN all : all[j][1] = k => j \in DOMAIN file
  <2>1. SUFFICES ASSUME NEW j \in DOMAIN all, j > Len(file) PROVE all[j][1] # k
    BY <1>1
  <2>2. j - Len(file) \in DOMAIN new /\ all[Len(file) + (j - Len(file))] = new[j - Len(file)]
        /\ Len(file) + (j - Len(file)) = j
    BY <1>1, <2>1
  <2> QED BY <2>2
<1>3. CASE \E j \in DOMAIN file : file[j][1] = k
  <2>1. PICK n \in DOMAIN file : /\ file[n][1] = k
                                 /\ \A j \in DOMAIN file : file[j][1] = k => j <= n
    BY <1>3, LastSetting
  <2>2. Env(file)[k] = file[n][2]
    BY <2>1, InForce
  <2>3. n \in DOMAIN all /\ all[n] = file[n]
    BY <1>1
  <2>4. \A j \in DOMAIN all : all[j][1] = k => j <= n
    BY <1>1, <1>2, <2>1
  <2>5. Env(all)[k] = all[n][2]
    BY <1>1, <2>1, <2>3, <2>4, InForce
  <2> QED BY <2>2, <2>3, <2>5 DEF all
<1>4. CASE ~\E j \in DOMAIN file : file[j][1] = k
  <2>1. \A j \in DOMAIN all : all[j][1] # k
    BY <1>1, <1>2, <1>4
  <2>2. Env(file)[k] = Default /\ Env(all)[k] = Default
    BY <1>1, <1>4, <2>1, NotSet
  <2> QED BY <2>2 DEF all
<1> QED BY <1>3, <1>4

LEMMA Extended ==
  ASSUME NEW file \in Seq(Setting), NEW new \in Seq(Setting), NEW k \in Keys, NEW v,
         OnlyTo(new, k, v), Env(file)[k] = v
  PROVE  Env(file \o new)[k] = v
<1>1. CASE \E n \in DOMAIN new : new[n][1] = k
  BY <1>1, Overridden
<1>2. CASE \A n \in DOMAIN new : new[n][1] # k
  BY <1>2, Untouched
<1> QED BY <1>1, <1>2

(* Dropping elements that set other keys leaves a key as it is.            *)
LEMMA Kept ==
  ASSUME NEW list \in Seq(Setting), NEW P \in SUBSET (DOMAIN list), NEW k \in Keys,
         \A j \in DOMAIN list : list[j][1] = k => j \in P
  PROVE  Env(Keep(list, P))[k] = Env(list)[k]
<1> DEFINE kept == Keep(list, P)
<1>1. /\ kept \in Seq(Setting) /\ DOMAIN kept = 1 .. Cardinality(P) /\ Cardinality(P) \in Nat
      /\ \A i \in P : Rank(P, i) \in DOMAIN kept /\ kept[Rank(P, i)] = list[i]
      /\ \A m \in DOMAIN kept : \E i \in P : Rank(P, i) = m
  BY KeepAt
<1>2. P \in SUBSET (1 .. Len(list)) /\ Len(list) \in Nat
  OBVIOUS
<1> HIDE DEF kept
<1>3. CASE \E j \in DOMAIN list : list[j][1] = k
  <2>1. PICK n \in DOMAIN list : /\ list[n][1] = k
                                 /\ \A j \in DOMAIN list : list[j][1] = k => j <= n
    BY <1>3, LastSetting
  <2>2. n \in P /\ Env(list)[k] = list[n][2]
    BY <2>1, InForce
  <2>3. PICK m : m = Rank(P, n)
    OBVIOUS
  <2>4. m \in DOMAIN kept /\ kept[m] = list[n] /\ m \in Nat
    BY <1>1, <2>2, <2>3
  <2>5. ASSUME NEW j \in DOMAIN kept, kept[j][1] = k
        PROVE  j <= m
    <3>1. PICK i \in P : Rank(P, i) = j
      BY <1>1
    <3>2. kept[j] = list[i] /\ i \in DOMAIN list
      BY <1>1, <3>1
    <3>3. i <= n
      BY <2>1, <2>5, <3>2
    <3>4. i < n => Rank(P, i) < Rank(P, n)
      BY <1>2, <2>2, RankGrows
    <3>5. i \in Nat /\ n \in Nat /\ j \in Nat
      BY <1>1, <1>2, <2>2
    <3>6. CASE i = n
      BY <2>3, <2>4, <3>1, <3>6
    <3>7. CASE i < n
      BY <2>3, <2>4, <3>1, <3>4, <3>5, <3>7
    <3> QED BY <3>3, <3>5, <3>6, <3>7
  <2>6. Env(kept)[k] = kept[m][2]
    BY <1>1, <2>1, <2>4, <2>5, InForce
  <2> QED BY <2>2, <2>4, <2>6 DEF kept
<1>4. CASE ~\E j \in DOMAIN list : list[j][1] = k
  <2>1. ASSUME NEW m \in DOMAIN kept
        PROVE  kept[m][1] # k
    <3>1. PICK i \in P : Rank(P, i) = m
      BY <1>1
    <3>2. kept[m] = list[i] /\ i \in DOMAIN list
      BY <1>1, <3>1
    <3> QED BY <1>4, <3>2
  <2>2. Env(kept)[k] = Default /\ Env(list)[k] = Default
    BY <1>1, <1>4, <2>1, NotSet
  <2> QED BY <2>2 DEF kept
<1> QED BY <1>3, <1>4

(* grep -qx || echo: what is not in the file yet is appended.              *)
Adds(file, list, new) ==
  /\ AppendMissing(file, list) = file \o new
  /\ Range(new) \subseteq Range(list)
  /\ \A kv \in Range(list) : kv \in Range(file) \/ kv \in Range(new)

LEMMA Missing ==
  ASSUME NEW file \in Seq(Setting), NEW list \in Seq(Setting)
  PROVE  \E new \in Seq(Setting) : Adds(file, list, new)
<1> DEFINE P == {i \in DOMAIN list : /\ list[i] \notin Range(file)
                                     /\ \A j \in DOMAIN list : j < i => list[j] # list[i]}
           new == Keep(list, P)
<1>1. P \in SUBSET (DOMAIN list) /\ DOMAIN list = 1 .. Len(list) /\ Len(list) \in Nat
  OBVIOUS
<1>2. /\ new \in Seq(Setting)
      /\ \A i \in P : Rank(P, i) \in DOMAIN new /\ new[Rank(P, i)] = list[i]
      /\ \A m \in DOMAIN new : \E i \in P : Rank(P, i) = m
  <2> HIDE DEF P
  <2> QED BY <1>1, KeepAt
<1>3. AppendMissing(file, list) = file \o new
  BY DEF AppendMissing
<1>4. Range(new) \subseteq Range(list)
  <2> SUFFICES ASSUME NEW m \in DOMAIN new PROVE new[m] \in Range(list)
    BY DEF Range
  <2>1. PICK i \in P : Rank(P, i) = m
    BY <1>2
  <2>2. new[m] = list[i] /\ i \in DOMAIN list
    BY <1>1, <1>2, <2>1
  <2> QED BY <2>2 DEF Range
<1>5. ASSUME NEW kv \in Range(list), kv \notin Range(file)
      PROVE  kv \in Range(new)
  <2> DEFINE at == {i \in DOMAIN list : list[i] = kv}
  <2>1. at \subseteq Nat /\ at # {}
    <3>1. \E i \in DOMAIN list : list[i] = kv
      BY DEF Range
    <3> QED BY <1>1, <3>1
  <2>2. PICK i \in at : \A j \in at : <<j, i>> \notin OpToRel(<, Nat)
    <3> HIDE DEF at
    <3> QED BY <2>1, NatLessThanWellFounded, WFMin
  <2>3. \A j \in at : ~(j < i)
    BY <2>1, <2>2 DEF OpToRel
  <2>4. i \in DOMAIN list /\ list[i] = kv
    BY <2>2
  <2>5. \A j \in DOMAIN list : j < i => list[j] # list[i]
    BY <2>3, <2>4
  <2>6. i \in P
    BY <1>5, <2>4, <2>5
  <2>7. Rank(P, i) \in DOMAIN new /\ new[Rank(P, i)] = kv
    BY <1>2, <2>4, <2>6
  <2> HIDE DEF new
  <2> QED BY <2>7 DEF Range
<1> HIDE DEF new, P
<1>6. Adds(file, list, new)
  BY <1>3, <1>4, <1>5 DEF Adds
<1> QED BY <1>2, <1>6

-------------------------------------------------------------------------------
(* Accepted settings survive.                                              *)

(* Keys that only the ladder's levers set.                                 *)
OwnKey(k) ==
  /\ ~\E args \in Relaunches : \E n \in DOMAIN args.xapply : args.xapply[n][1] = k
  /\ ~\E list \in HandSettings : \E n \in DOMAIN list : list[n][1] = k
  /\ k \notin UNION HandPrefixes

(* A line that brings a lever into the base is of a lever that has         *)
(* results, so a lever whose verdict is due has no such line yet.          *)
LinesOK ==
  /\ \A i \in DOMAIN log : Taken(log[i]) =>
       /\ log[i].lever \in Levers
       /\ log[i].lever \notin ProfileLevers => results[log[i].lever] # Nan
  /\ ladder.pc = "verdict" =>
       /\ ladder.row = results[Lever]
       /\ Lever \notin ProfileLevers =>
            \A i \in DOMAIN log : Taken(log[i]) => log[i].lever # Lever

(* A setting of such a key came into the base with the line of a lever.    *)
Sourced ==
  \A n \in DOMAIN acc : OwnKey(acc[n][1]) =>
    \E i \in DOMAIN log : Taken(log[i]) /\ acc[n] \in Sets(log[i].lever)

(* While a lever's settings are appended, the last line is its verdict;    *)
(* stack_next, once it acts, acts on that line; and a setting of the       *)
(* lever that is in the base, and that stack_next would restate, is the    *)
(* one in force.                                                           *)
Appending ==
  ladder.pc = "append" =>
    /\ log # <<>> /\ log[Len(log)].verdict = "ACCEPT" /\ log[Len(log)].lever = Lever
    /\ Range(ladder.append) \subseteq Range(Settings[Lever])
    /\ StackActs => Len(log) > stack.line0 /\ stack.wait = Lever
    /\ Lever \notin ProfileLevers =>
         \A kv \in Range(Settings[Lever]) :
           OwnKey(kv[1]) /\ Restatable(log[Len(log)], kv) /\ kv \in Range(acc) =>
             Env(acc)[kv[1]] = kv[2]

(* What stack_next applies from the other line sets no such key; it waits  *)
(* for a lever it was told to; nothing is accepted after that line.        *)
Stacking ==
  stack.pc # "off" =>
    /\ \E args \in Relaunches : args.wait = stack.wait
    /\ \A n \in DOMAIN stack.xapply : ~OwnKey(stack.xapply[n][1])
    /\ \A j \in NewLines : \A i \in DOMAIN log : i > j => log[i].verdict # "ACCEPT"

(* An accepted setting is in force, or has still to be appended.           *)
Held(i, kv) ==
  \/ SetLater(i, kv[1])
  \/ Env(acc)[kv[1]] = kv[2]
  \/ /\ ladder.pc = "append" /\ i = Len(log) /\ stack.pc # "relaunch"
     /\ kv \in Range(ladder.append)

Survives ==
  \A i \in DOMAIN log :
    log[i].verdict = "ACCEPT" /\ log[i].lever \notin ProfileLevers =>
      \A kv \in Range(Settings[log[i].lever]) : Restatable(log[i], kv) => Held(i, kv)

SInv == LinesOK /\ Sourced /\ Appending /\ Stacking /\ Survives

(* The log only grows.                                                     *)
LEMMA Logged ==
  ASSUME Typed, NEW line, log' = Append(log, line)
  PROVE  /\ Len(log') = Len(log) + 1 /\ Len(log) \in Nat
         /\ DOMAIN log = 1 .. Len(log) /\ DOMAIN log' = 1 .. Len(log) + 1
         /\ \A i \in DOMAIN log : i \in DOMAIN log' /\ log'[i] = log[i]
         /\ log'[Len(log) + 1] = line
         /\ \A i \in DOMAIN log' : i \notin DOMAIN log => i = Len(log) + 1 /\ log'[i] = line
<1>1. log \in Seq(Line)
  BY DEF Typed
<1> QED BY <1>1

LEMMA VerdictLine ==
  ASSUME Typed, Verdict
  PROVE  \E line : /\ log' = Append(log, line)
                   /\ line.lever = Lever /\ Lever \in Levers
                   /\ line.row = ladder.row /\ line.base = ladder.base
                   /\ line.verdict = IF Accepts THEN "ACCEPT" ELSE "reject"
<1> DEFINE line == [lever |-> Lever,
                    verdict |-> IF Accepts THEN "ACCEPT" ELSE "reject",
                    row |-> ladder.row, base |-> ladder.base,
                    smokes |-> smoke_lines.row]
<1>1. log' = Append(log, line)
  BY DEF Verdict
<1>2. Lever \in Levers
  BY LadderTyped DEF Verdict, Typed
<1>3. /\ line.lever = Lever /\ line.row = ladder.row /\ line.base = ladder.base
      /\ line.verdict = IF Accepts THEN "ACCEPT" ELSE "reject"
  OBVIOUS
<1> HIDE DEF line
<1> QED BY <1>1, <1>2, <1>3

LEMMA LogGrows ==
  ASSUME Typed, [Next]_vars
  PROVE  \/ log' = log
         \/ /\ \E line : log' = Append(log, line)
            /\ acc' = acc /\ results' = results /\ stack' = stack
            /\ ladder.pc \in {"failed", "verdict", "rung"}
            /\ ladder'.pc # "verdict"
<1>1. CASE StartByHand \/ AcceptByHand \/ DropByHand \/ StackStart
  BY <1>1 DEF StartByHand, AcceptByHand, DropByHand, StackStart
<1>2. CASE BaseKept \/ BaseRow \/ RungRow \/ RungSkipped \/ AppendSetting
  BY <1>2 DEF BaseKept, BaseRow, RungRow, RungSkipped, AppendSetting
<1>3. CASE RungFailed
  BY <1>3 DEF RungFailed, Typed
<1>4. CASE Verdict
  <2>1. \/ ladder' = [ladder EXCEPT !.pc = "append", !.append = Settings[Lever]]
        \/ ladder' = [ladder EXCEPT !.pc = "rung", !.todo = Tail(@)]
    BY <1>4 DEF Verdict
  <2>2. \E line : log' = Append(log, line)
    BY <1>4, VerdictLine
  <2> QED BY <1>4, <2>1, <2>2 DEF Verdict, Typed
<1>5. CASE LadderDone
  <2>1. Off.pc = "off"
    BY DEF Off
  <2> QED BY <1>5, <2>1 DEF LadderDone
<1>6. CASE StackSees \/ StackAct \/ StackRelaunch
  BY <1>6 DEF StackSees, StackAct, StackRelaunch
<1>7. CASE UNCHANGED vars
  BY <1>7 DEF vars
<1> QED BY <1>1, <1>2, <1>3, <1>4, <1>5, <1>6, <1>7 DEF Next, LadderStep, StackStep

LEMMA Grows ==
  ASSUME Typed, [Next]_vars
  PROVE  /\ Len(log) \in Nat /\ Len(log') \in Nat /\ Len(log) <= Len(log')
         /\ DOMAIN log = 1 .. Len(log) /\ DOMAIN log' = 1 .. Len(log')
         /\ \A i \in DOMAIN log : i \in DOMAIN log' /\ log'[i] = log[i]
<1>1. log \in Seq(Line)
  BY DEF Typed
<1>2. CASE log' = log
  BY <1>1, <1>2
<1>3. CASE log' # log
  <2>1. PICK line : log' = Append(log, line)
    BY <1>3, LogGrows
  <2> QED BY <2>1, Logged
<1> QED BY <1>2, <1>3

LEMMA LaterGrows ==
  ASSUME Typed, [Next]_vars, NEW i \in DOMAIN log, NEW k
  PROVE  SetLater(i, k) => SetLater(i, k)'
<1>1. CASE \E j \in i + 1 .. Len(log) :
             Taken(log[j]) /\ \E n \in DOMAIN Settings[log[j].lever] :
                                Settings[log[j].lever][n][1] = k
  <2>1. PICK j \in i + 1 .. Len(log) :
             Taken(log[j]) /\ \E n \in DOMAIN Settings[log[j].lever] :
                                Settings[log[j].lever][n][1] = k
    BY <1>1
  <2>2. i \in 1 .. Len(log) /\ Len(log) \in Nat /\ Len(log') \in Nat /\ Len(log) <= Len(log')
    BY Grows
  <2>3. j \in 1 .. Len(log) /\ j \in i + 1 .. Len(log')
    BY <2>1, <2>2
  <2>4. log'[j] = log[j]
    BY <2>3, Grows
  <2> QED BY <2>1, <2>3, <2>4 DEF SetLater
<1> QED BY <1>1 DEF SetLater

LEMMA KeysOf ==
  ASSUME NEW kv \in Setting
  PROVE  kv[1] \in Keys
BY DEF Keys

LEMMA LeverSettings ==
  ASSUME NEW l \in Levers
  PROVE  /\ Range(Settings[l]) \subseteq Sets(l) /\ Range(LeverText[l]) \subseteq Sets(l)
         /\ \A kv \in Sets(l) : kv \in Setting /\ kv[1] \in Keys
         /\ \A kv, same \in Range(Settings[l]) : same[1] = kv[1] => same = kv
         /\ \A kv, same \in Range(LeverText[l]) : same[1] = kv[1] => same = kv
         /\ \A kv \in Sets(l) : \E n \in DOMAIN Settings[l] : Settings[l][n][1] = kv[1]
<1>1. \A kv \in Sets(l) : kv \in Setting
  BY DEF Setting
<1>2. /\ \A kv, same \in Range(Settings[l]) : same[1] = kv[1] => same = kv
      /\ \A kv, same \in Range(LeverText[l]) : same[1] = kv[1] => same = kv
      /\ \A kv \in Range(LeverText[l]) : \E same \in Range(Settings[l]) : same[1] = kv[1]
  BY SettingsAgree DEF SettingsAgree
<1>3. \A kv \in Sets(l) : \E same \in Range(Settings[l]) : same[1] = kv[1]
  BY <1>2 DEF Sets
<1>4. \A kv \in Sets(l) : \E n \in DOMAIN Settings[l] : Settings[l][n][1] = kv[1]
  BY <1>3 DEF Range
<1> QED BY <1>1, <1>2, <1>4, KeysOf DEF Sets

(* A setting that a lever shares with another is the only one of its key.  *)
LEMMA SharedSetting ==
  ASSUME NEW l \in Levers, NEW other \in Levers, l # other,
         NEW kv \in Range(Settings[l]), kv \in Sets(other),
         NEW any \in Levers, NEW same \in Sets(any), same[1] = kv[1]
  PROVE  same = kv
BY SettingsAgree DEF SettingsAgree

LEMMA LinesStep ==
  ASSUME CarefulOperator, LInv, LinesOK, [Next]_vars
  PROVE  LinesOK'
<1> USE DEF LInv
<1> DEFINE Lasting == \A l \in Levers : results[l] # Nan => results'[l] # Nan
<1>1. ASSUME log' = log, Lasting, ladder'.pc # "verdict"
      PROVE  LinesOK'
  BY <1>1 DEF LinesOK
<1>2. ASSUME log' = log, \A l \in Levers : results'[l] = results[l], ladder' = ladder
      PROVE  LinesOK'
  <2>1. ladder.pc = "verdict" => Lever \in Levers
    BY LadderTyped DEF Typed
  <2> QED BY <1>2, <2>1 DEF LinesOK, Lever
<1>3. ASSUME NEW line, log' = Append(log, line), results' = results, ladder'.pc # "verdict",
             Taken(line) => /\ line.lever \in Levers
                            /\ line.lever \notin ProfileLevers => results[line.lever] # Nan
      PROVE  LinesOK'
  <2>1. \A i \in DOMAIN log' : (i \in DOMAIN log /\ log'[i] = log[i]) \/ log'[i] = line
    BY <1>3, Logged
  <2> QED BY <1>3, <2>1 DEF LinesOK
<1>4. CASE StartByHand
  <2>1. PICK levers \in FirstLevers : ladder' = Started(levers)
    BY <1>4 DEF StartByHand
  <2>2. ladder'.pc = "base"
    BY <2>1, SettingsTyped, OffTyped
  <2> QED BY <1>1, <1>4, <2>2 DEF StartByHand
<1>5. CASE AcceptByHand \/ DropByHand \/ StackStart \/ StackSees
  BY <1>2, <1>5 DEF AcceptByHand, DropByHand, StackStart, StackSees
<1>6. CASE BaseKept
  BY <1>1, <1>6 DEF BaseKept, Typed
<1>7. CASE BaseRow
  <2>1. PICK smokes \in 0 .. 1, healthy \in BOOLEAN, ok \in BOOLEAN, has \in Benches["G0"] :
          RowEnds("G0", acc, smokes, healthy, ok, has)
    BY <1>7 DEF BaseRow
  <2>2. \A l \in Levers : results'[l] = results[l]
    BY <2>1, RowEffect, Lists DEF Typed
  <2>3. Off.pc = "off"
    BY DEF Off
  <2>4. ladder'.pc # "verdict"
    <3>1. \/ ladder' = [ladder EXCEPT !.pc = "rung", !.base = results'["G0"]]
          \/ ladder' = Off
      BY <1>7 DEF BaseRow
    <3> HIDE DEF Off
    <3> QED BY <2>3, <3>1 DEF Typed
  <2> QED BY <1>1, <1>7, <2>2, <2>4 DEF BaseRow
<1>8. CASE RungRow
  <2>1. PICK smokes \in 0 .. 1, healthy \in BOOLEAN, ok \in BOOLEAN, has \in Benches[Lever] :
          RowEnds(Lever, acc \o Settings[Lever], smokes, healthy, ok, has)
    BY <1>8 DEF RungRow
  <2>2. /\ Lever \in Levers /\ Lever \in Labels /\ ladder.todo # <<>>
        /\ acc \o Settings[Lever] \in Seq(Setting)
    BY <1>8, LadderTyped DEF RungRow, Typed
  <2>3. \A l \in Levers : l # Lever => results'[l] = results[l]
    <3> DEFINE list == acc \o Settings[Lever]
    <3>1. list \in Seq(Setting) /\ RowEnds(Lever, list, smokes, healthy, ok, has)
      BY <2>1, <2>2
    <3> HIDE DEF list
    <3>2. \A l \in Labels : l # Lever => results'[l] = results[l]
      BY <2>2, <3>1, RowEffect
    <3> QED BY <3>2, Lists
  <2>4. results[Lever] = Nan
    <3>1. Lever = ladder.todo[1] /\ 1 \in DOMAIN ladder.todo
      BY <2>2, LadderTyped, HeadTail DEF Lever
    <3> QED BY <1>8, <3>1 DEF RungRow, Fresh
  <2>5. /\ ladder'.todo = ladder.todo /\ log' = log
        /\ ladder'.pc = "verdict" => ladder'.row = results'[Lever]
    BY <1>8 DEF RungRow, Typed
  <2>6. Lever' = Lever
    BY <2>5 DEF Lever
  <2>7. Lever \notin ProfileLevers => \A i \in DOMAIN log : Taken(log[i]) => log[i].lever # Lever
    BY <2>4 DEF LinesOK
  <2>8. \A i \in DOMAIN log : Taken(log[i]) =>
          /\ log[i].lever \in Levers
          /\ log[i].lever \notin ProfileLevers => results'[log[i].lever] # Nan
    BY <2>3, <2>4 DEF LinesOK
  <2> QED BY <2>5, <2>6, <2>7, <2>8 DEF LinesOK
<1>9. CASE RungSkipped
  BY <1>1, <1>9 DEF RungSkipped, Typed
<1>10. CASE RungFailed
  <2> DEFINE line == [lever |-> Lever, verdict |-> "reject", row |-> Nan,
                      base |-> ladder.base, smokes |-> 0]
  <2>1. log' = Append(log, line) /\ results' = results /\ ladder'.pc # "verdict"
    BY <1>10 DEF RungFailed, Typed
  <2>2. ~Taken(line)
    <3>1. line.row = Nan /\ line.verdict # "ACCEPT"
      OBVIOUS
    <3> HIDE DEF line
    <3> QED BY <3>1, WinsOnRow DEF Taken
  <2> HIDE DEF line
  <2> QED BY <1>3, <2>1, <2>2
<1>11. CASE Verdict
  <2>1. PICK line : /\ log' = Append(log, line)
                    /\ line.lever = Lever /\ Lever \in Levers
                    /\ line.row = ladder.row
                    /\ line.verdict = IF Accepts THEN "ACCEPT" ELSE "reject"
    BY <1>11, VerdictLine
  <2>2. ladder.row = results[Lever] /\ results' = results /\ ladder'.pc # "verdict"
    <3>1. \/ ladder' = [ladder EXCEPT !.pc = "append", !.append = Settings[Lever]]
          \/ ladder' = [ladder EXCEPT !.pc = "rung", !.todo = Tail(@)]
      BY <1>11 DEF Verdict
    <3> QED BY <1>11, <3>1 DEF Verdict, LinesOK, Typed
  <2>3. Taken(line) /\ Lever \notin ProfileLevers => line.row # Nan
    BY <2>1, WinsOnRow DEF Taken, Accepts
  <2> QED BY <1>3, <2>1, <2>2, <2>3
<1>12. CASE AppendSetting
  <2>1. ladder'.pc # "verdict"
    <3>1. \/ ladder' = [ladder EXCEPT !.append = Tail(@)]
          \/ ladder' = [ladder EXCEPT !.pc = "rung", !.append = <<>>, !.todo = Tail(@),
                                      !.base = ladder.row]
      BY <1>12 DEF AppendSetting
    <3> QED BY <1>12, <3>1 DEF AppendSetting, Typed
  <2> QED BY <1>1, <1>12, <2>1 DEF AppendSetting
<1>13. CASE LadderDone
  <2> DEFINE line == [lever |-> "LADDER-DONE", verdict |-> "", row |-> Nan,
                      base |-> Nan, smokes |-> 0]
  <2>1. log' = Append(log, line) /\ results' = results /\ ladder'.pc # "verdict"
    BY <1>13 DEF LadderDone, Off
  <2>2. ~Taken(line)
    <3>1. line.row = Nan /\ line.verdict # "ACCEPT"
      OBVIOUS
    <3> HIDE DEF line
    <3> QED BY <3>1, WinsOnRow DEF Taken
  <2> HIDE DEF line
  <2> QED BY <1>3, <2>1, <2>2
<1>14. CASE StackAct
  BY <1>2, <1>14, Lists DEF StackAct, Typed
<1>15. CASE StackRelaunch
  <2>1. ladder'.pc = "base"
    BY <1>15, OffTyped DEF StackRelaunch, Typed
  <2> QED BY <1>1, <1>15, <2>1 DEF StackRelaunch
<1>16. CASE UNCHANGED vars
  BY <1>2, <1>16 DEF vars
<1> QED BY <1>4, <1>5, <1>6, <1>7, <1>8, <1>9, <1>10, <1>11, <1>12, <1>13, <1>14, <1>15,
           <1>16 DEF Next, LadderStep, StackStep

(* What stack_next appends, and from which line.                           *)
Passes == \E i \in NewLines : (\A j \in NewLines : j <= i) /\ Rederived(log[i])

LEMMA Restates ==
  ASSUME Typed, NEW kv \in Range(Restated)
  PROVE  \/ kv \in Range(stack.xapply)
         \/ /\ stack.wait \in Levers /\ kv \in Range(LeverText[stack.wait])
            /\ Passes
<1> DEFINE own == IF stack.wait \in Levers /\ Passes THEN LeverText[stack.wait] ELSE <<>>
<1>1. Restated = own \o stack.xapply
  BY DEF Restated, Passes
<1>2. own \in Seq(Setting) /\ stack.xapply \in Seq(Setting)
  <2>1. stack.wait \in Levers => LeverText[stack.wait] \in Seq(Setting)
    BY SettingsTyped
  <2>2. <<>> \in Seq(Setting)
    OBVIOUS
  <2> QED BY <2>1, <2>2 DEF Typed
<1> HIDE DEF own
<1>3. kv \in Range(own) \/ kv \in Range(stack.xapply)
  <2>1. PICK n \in DOMAIN Restated : kv = Restated[n]
    BY DEF Range
  <2>2. n \in 1 .. Len(own) + Len(stack.xapply)
        /\ Len(own) \in Nat /\ Len(stack.xapply) \in Nat
        /\ DOMAIN own = 1 .. Len(own) /\ DOMAIN stack.xapply = 1 .. Len(stack.xapply)
    BY <1>1, <1>2, <2>1
  <2>3. CASE n <= Len(own)
    <3>1. n \in DOMAIN own /\ kv = own[n]
      BY <1>1, <1>2, <2>1, <2>2, <2>3
    <3> QED BY <3>1 DEF Range
  <2>4. CASE n > Len(own)
    <3>1. n - Len(own) \in DOMAIN stack.xapply /\ kv = stack.xapply[n - Len(own)]
      BY <1>1, <1>2, <2>1, <2>2, <2>4
    <3> QED BY <3>1 DEF Range
  <2> QED BY <2>2, <2>3, <2>4
<1>4. CASE stack.wait \in Levers /\ Passes
  BY <1>3, <1>4 DEF own
<1>5. CASE ~(stack.wait \in Levers /\ Passes)
  <2>1. own = <<>>
    BY <1>5 DEF own
  <2>2. Range(own) = {}
    BY <2>1 DEF Range
  <2> QED BY <1>3, <2>2
<1> QED BY <1>4, <1>5

(* The state of the ladder as its settings are appended one by one.        *)
LEMMA AppendEffect ==
  ASSUME Typed, Appending, AppendSetting
  PROVE  \E kv \in Setting :
           /\ acc' = acc \o <<kv>> /\ <<kv>> \in Seq(Setting) /\ acc \in Seq(Setting)
           /\ kv \in Range(Settings[Lever]) /\ Lever \in Levers
           /\ log' = log /\ stack' = stack /\ results' = results
           /\ \/ /\ ladder'.pc = "append" /\ ladder'.todo = ladder.todo
                 /\ Range(ladder.append) \subseteq Range(ladder'.append) \cup {kv}
                 /\ Range(ladder'.append) \subseteq Range(ladder.append)
              \/ ladder'.pc = "rung" /\ Range(ladder.append) \subseteq {kv}
<1> DEFINE kv == Head(ladder.append)
<1>1. /\ ladder.append \in Seq(Setting) /\ ladder.append # <<>> /\ ladder.todo # <<>>
      /\ acc \in Seq(Setting) /\ ladder.pc = "append"
  BY DEF Typed, AppendSetting
<1>2. /\ kv \in Setting /\ kv = ladder.append[1] /\ 1 \in DOMAIN ladder.append
      /\ Tail(ladder.append) \in Seq(Setting) /\ Lever \in Levers
      /\ \A i \in DOMAIN Tail(ladder.append) :
           i + 1 \in DOMAIN ladder.append /\ Tail(ladder.append)[i] = ladder.append[i + 1]
  BY <1>1, HeadTail, LadderTyped
<1>3. acc' = acc \o <<kv>> /\ <<kv>> \in Seq(Setting)
  <2>1. acc' = Append(acc, kv)
    BY DEF AppendSetting
  <2>2. ASSUME NEW file \in Seq(Setting), NEW last \in Setting
        PROVE  Append(file, last) = file \o <<last>> /\ <<last>> \in Seq(Setting)
    OBVIOUS
  <2>3. acc \in Seq(Setting) /\ kv \in Setting
    BY <1>1, <1>2
  <2> HIDE DEF kv
  <2> QED BY <2>1, <2>2, <2>3, Zenon
<1>4. kv \in Range(Settings[Lever])
  <2>1. kv \in Range(ladder.append)
    BY <1>2 DEF Range
  <2> QED BY <1>1, <2>1 DEF Appending
<1>5. log' = log /\ stack' = stack /\ results' = results
  BY DEF AppendSetting
<1> DEFINE After == \/ /\ ladder'.pc = "append" /\ ladder'.todo = ladder.todo
                       /\ Range(ladder.append) \subseteq Range(ladder'.append) \cup {kv}
                       /\ Range(ladder'.append) \subseteq Range(ladder.append)
                    \/ ladder'.pc = "rung" /\ Range(ladder.append) \subseteq {kv}
<1>6. ASSUME Len(ladder.append) > 1 PROVE After
  <2>1. ladder' = [ladder EXCEPT !.append = Tail(@)]
    BY <1>6 DEF AppendSetting
  <2>2. ladder'.pc = "append" /\ ladder'.todo = ladder.todo /\ ladder'.append = Tail(ladder.append)
    BY <1>1, <2>1 DEF Typed
  <2>3. Range(Tail(ladder.append)) \subseteq Range(ladder.append)
    BY <1>2 DEF Range
  <2>4. Range(ladder.append) \subseteq Range(Tail(ladder.append)) \cup {kv}
    <3> SUFFICES ASSUME NEW i \in DOMAIN ladder.append, i # 1
                 PROVE  ladder.append[i] \in Range(Tail(ladder.append))
      BY <1>2 DEF Range
    <3>1. i - 1 \in DOMAIN Tail(ladder.append) /\ Tail(ladder.append)[i - 1] = ladder.append[i]
      BY <1>1
    <3> QED BY <3>1 DEF Range
  <2> HIDE DEF kv
  <2> QED BY <2>2, <2>3, <2>4
<1>7. ASSUME ~(Len(ladder.append) > 1) PROVE After
  <2>1. ladder'.pc = "rung"
    BY <1>1, <1>7 DEF AppendSetting, Typed
  <2>2. Range(ladder.append) \subseteq {kv}
    <3> SUFFICES ASSUME NEW i \in DOMAIN ladder.append PROVE ladder.append[i] = kv
      BY DEF Range
    <3>1. i = 1
      BY <1>1, <1>7
    <3> QED BY <1>2, <3>1
  <2> QED BY <2>1, <2>2
<1>8. After
  BY <1>6, <1>7
<1> HIDE DEF kv
<1>9. Lever \in Levers
  BY <1>2
<1> QED BY <1>1, <1>2, <1>3, <1>4, <1>5, <1>8, <1>9, Zenon

(* What stack_next's edit does to a key that only the ladder's levers set. *)
LEMMA StackEffect ==
  ASSUME Typed, Stacking, StackAct
  PROVE  \E new \in Seq(Setting) :
           /\ acc' = acc \o new
           /\ \A kv \in Range(new) : OwnKey(kv[1]) =>
                stack.wait \in Levers /\ kv \in Range(LeverText[stack.wait]) /\ Passes
           /\ Passes /\ stack.wait \in Levers =>
              \A kv \in Range(LeverText[stack.wait]) : kv \in Range(acc) \/ kv \in Range(new)
<1>1. acc \in Seq(Setting) /\ Restated \in Seq(Setting) /\ stack.pc = "act"
  BY RestatedTyped DEF Typed, StackAct
<1>2. acc' = AppendMissing(acc, Restated)
  BY DEF StackAct
<1>3. PICK new \in Seq(Setting) :
        /\ acc' = acc \o new
        /\ Range(new) \subseteq Range(Restated)
        /\ \A kv \in Range(Restated) : kv \in Range(acc) \/ kv \in Range(new)
  <2>1. PICK new \in Seq(Setting) : Adds(acc, Restated, new)
    BY <1>1, Missing
  <2> QED BY <1>2, <2>1 DEF Adds
<1>4. ASSUME NEW kv \in Range(new), OwnKey(kv[1])
      PROVE  stack.wait \in Levers /\ kv \in Range(LeverText[stack.wait]) /\ Passes
  <2>1. kv \in Range(Restated)
    BY <1>3
  <2>2. kv \notin Range(stack.xapply)
    BY <1>1, <1>4 DEF Stacking, Range
  <2> QED BY <2>1, <2>2, Restates
<1>5. ASSUME stack.wait \in Levers, NEW kv \in Range(LeverText[stack.wait]), Passes
      PROVE  kv \in Range(Restated)
  <2>1. Restated = LeverText[stack.wait] \o stack.xapply
    BY <1>5 DEF Restated, Passes
  <2>2. LeverText[stack.wait] \in Seq(Setting) /\ stack.xapply \in Seq(Setting)
    BY <1>5, SettingsTyped DEF Typed
  <2>3. PICK n \in DOMAIN LeverText[stack.wait] : kv = LeverText[stack.wait][n]
    BY DEF Range
  <2>4. n \in DOMAIN Restated /\ Restated[n] = kv
    <3>1. PICK own : own = LeverText[stack.wait]
      OBVIOUS
    <3>2. own \in Seq(Setting) /\ n \in 1 .. Len(own) /\ Len(own) \in Nat
          /\ Len(stack.xapply) \in Nat /\ kv = own[n]
      BY <2>2, <2>3, <3>1
    <3>3. n \in DOMAIN (own \o stack.xapply) /\ (own \o stack.xapply)[n] = own[n]
      BY <2>2, <3>2
    <3> QED BY <2>1, <3>1, <3>2, <3>3
  <2> QED BY <2>4 DEF Range
<1> QED BY <1>3, <1>4, <1>5

LEMMA SourcedStep ==
  ASSUME CarefulOperator, LInv, SInv, [Next]_vars
  PROVE  Sourced'
<1> USE DEF LInv, SInv
<1>0. acc \in Seq(Setting) /\ acc' \in Seq(Setting)
  <2>1. Typed'
    BY TypeStep
  <2> QED BY <2>1 DEF Typed
<1>1. ASSUME Range(acc') \subseteq Range(acc)
      PROVE  Sourced'
  <2> SUFFICES ASSUME NEW n \in DOMAIN acc', OwnKey(acc'[n][1])
               PROVE  \E i \in DOMAIN log' : /\ Taken(log'[i])
                                             /\ acc'[n] \in Sets(log'[i].lever)
    BY DEF Sourced
  <2>1. PICK m \in DOMAIN acc : acc'[n] = acc[m]
    BY <1>1 DEF Range
  <2>2. PICK i \in DOMAIN log : Taken(log[i]) /\ acc[m] \in Sets(log[i].lever)
    BY <2>1 DEF Sourced
  <2>3. i \in DOMAIN log' /\ log'[i] = log[i]
    BY Grows
  <2> QED BY <2>1, <2>2, <2>3
<1>2. ASSUME NEW new \in Seq(Setting), acc' = acc \o new, log' = log,
             \A kv \in Range(new) : OwnKey(kv[1]) =>
               \E i \in DOMAIN log : Taken(log[i]) /\ kv \in Sets(log[i].lever)
      PROVE  Sourced'
  <2> SUFFICES ASSUME NEW n \in DOMAIN acc', OwnKey(acc'[n][1])
               PROVE  \E i \in DOMAIN log : /\ Taken(log[i])
                                            /\ acc'[n] \in Sets(log[i].lever)
    BY <1>2 DEF Sourced
  <2>1. /\ DOMAIN acc' = 1 .. Len(acc) + Len(new)
        /\ DOMAIN acc = 1 .. Len(acc) /\ DOMAIN new = 1 .. Len(new)
        /\ Len(acc) \in Nat /\ Len(new) \in Nat
        /\ \A i \in DOMAIN acc : acc'[i] = acc[i]
        /\ \A i \in 1 .. Len(acc) + Len(new) : i > Len(acc) => acc'[i] = new[i - Len(acc)]
    BY <1>0, <1>2
  <2>2. CASE n <= Len(acc)
    <3>1. n \in DOMAIN acc /\ acc'[n] = acc[n]
      BY <2>1, <2>2
    <3> QED BY <3>1 DEF Sourced
  <2>3. CASE n > Len(acc)
    <3>1. n - Len(acc) \in DOMAIN new /\ acc'[n] = new[n - Len(acc)]
      BY <2>1, <2>3
    <3>2. acc'[n] \in Range(new)
      BY <3>1 DEF Range
    <3> QED BY <1>2, <3>2
  <2> QED BY <2>1, <2>2, <2>3
<1>3. CASE AcceptByHand
  <2>1. PICK list \in HandSettings : acc' = AppendMissing(acc, list)
    BY <1>3 DEF AcceptByHand
  <2>2. list \in Seq(Setting)
    BY SettingsTyped
  <2>3. PICK new \in Seq(Setting) : Adds(acc, list, new)
    BY <1>0, <2>2, Missing
  <2>4. acc' = acc \o new /\ Range(new) \subseteq Range(list)
    BY <2>1, <2>3 DEF Adds
  <2>5. \A kv \in Range(new) : ~OwnKey(kv[1])
    BY <2>4 DEF OwnKey, Range
  <2> QED BY <1>2, <1>3, <2>4, <2>5 DEF AcceptByHand
<1>4. CASE DropByHand
  <2>1. PICK keys \in HandPrefixes :
            LET others == {i \in DOMAIN acc : acc[i][1] \notin keys}
            IN acc' = IF others # {} THEN Keep(acc, others) ELSE acc
    BY <1>4 DEF DropByHand
  <2> DEFINE others == {i \in DOMAIN acc : acc[i][1] \notin keys}
  <2>2. acc' = IF others # {} THEN Keep(acc, others) ELSE acc
    BY <2>1
  <2>3. others \in SUBSET (DOMAIN acc)
    OBVIOUS
  <2> HIDE DEF others
  <2>4. Range(Keep(acc, others)) \subseteq Range(acc)
    <3> SUFFICES ASSUME NEW m \in DOMAIN Keep(acc, others)
                 PROVE  Keep(acc, others)[m] \in Range(acc)
      BY DEF Range
    <3>1. PICK i \in others : Rank(others, i) = m
      BY <1>0, <2>3, KeepAt
    <3>2. Keep(acc, others)[m] = acc[i]
      BY <1>0, <2>3, <3>1, KeepAt
    <3> QED BY <2>3, <3>2 DEF Range
  <2> QED BY <1>1, <2>2, <2>4
<1>5. CASE AppendSetting
  <2>1. PICK kv \in Setting :
           /\ acc' = acc \o <<kv>> /\ <<kv>> \in Seq(Setting)
           /\ kv \in Sets(Lever) /\ log' = log
    BY <1>5, AppendEffect, LeverSettings
  <2>2. /\ Len(log) \in DOMAIN log /\ log[Len(log)].verdict = "ACCEPT"
        /\ log[Len(log)].lever = Lever
    <3>1. log \in Seq(Line) /\ log # <<>>
      BY <1>5 DEF Appending, AppendSetting, Typed
    <3>2. Len(log) \in DOMAIN log
      BY <3>1
    <3> QED BY <1>5, <3>2 DEF Appending, AppendSetting
  <2>3. Taken(log[Len(log)])
    BY <2>2 DEF Taken
  <2>4. \A any \in Range(<<kv>>) : any = kv
    BY DEF Range
  <2>5. \A any \in Range(<<kv>>) : \E i \in DOMAIN log :
           Taken(log[i]) /\ any \in Sets(log[i].lever)
    BY <2>1, <2>2, <2>3, <2>4
  <2> QED BY <1>2, <2>1, <2>5
<1>6. CASE StackAct
  <2>1. PICK new \in Seq(Setting) :
           /\ acc' = acc \o new
           /\ \A kv \in Range(new) : OwnKey(kv[1]) =>
                stack.wait \in Levers /\ kv \in Range(LeverText[stack.wait]) /\ Passes
    BY <1>6, StackEffect
  <2>2. \A i \in NewLines : i \in DOMAIN log /\ log[i].lever = stack.wait
    <3>1. log \in Seq(Line) /\ stack.line0 \in Nat
      BY DEF Typed
    <3> QED BY <3>1 DEF NewLines
  <2>3. ASSUME NEW kv \in Range(new), OwnKey(kv[1])
        PROVE  \E i \in DOMAIN log : Taken(log[i]) /\ kv \in Sets(log[i].lever)
    <3>1. PICK i \in NewLines : Rederived(log[i])
      BY <2>1, <2>3 DEF Passes
    <3>2. kv \in Sets(stack.wait)
      BY <2>1, <2>3, LeverSettings
    <3> QED BY <2>2, <3>1, <3>2 DEF Taken
  <2> QED BY <1>2, <1>6, <2>1, <2>3 DEF StackAct
<1>7. CASE acc' = acc
  BY <1>1, <1>7
<1> QED BY <1>3, <1>4, <1>5, <1>6, <1>7 DEF Next, LadderStep, StackStep, StartByHand,
           StackStart, BaseKept, BaseRow, RungRow, RungSkipped, RungFailed, Verdict, LadderDone,
           StackSees, StackRelaunch, vars

LEMMA StackingStep ==
  ASSUME CarefulOperator, LInv, SInv, [Next]_vars
  PROVE  Stacking'
<1> USE DEF LInv, SInv
<1>0. log \in Seq(Line) /\ stack.line0 \in Nat /\ Len(log) \in Nat
  BY DEF Typed
<1>1. CASE StackStart
  <2>1. PICK args \in Relaunches :
           stack' = [pc |-> "wait", wait |-> args.wait, line0 |-> Len(log),
                     xapply |-> args.xapply, levers |-> args.levers]
    BY <1>1 DEF StackStart
  <2>2. \A n \in DOMAIN args.xapply : ~OwnKey(args.xapply[n][1])
    BY DEF OwnKey
  <2>3. NewLines' = {}
    <3>1. stack'.line0 = Len(log) /\ log' = log
      BY <1>1, <2>1 DEF StackStart
    <3>2. Len(log) + 1 .. Len(log) = {}
      BY <1>0
    <3> QED BY <3>1, <3>2 DEF NewLines
  <2>4. args.wait = stack'.wait
    BY <2>1
  <2> QED BY <2>1, <2>2, <2>3, <2>4 DEF Stacking
<1>2. CASE StackRelaunch
  <2>1. stack'.pc = "off"
    BY <1>2 DEF StackRelaunch, NoStack
  <2> QED BY <2>1 DEF Stacking
<1>3. ASSUME log' = log, stack'.xapply = stack.xapply, stack'.wait = stack.wait,
             stack'.line0 = stack.line0, stack'.pc # "off" => stack.pc # "off"
      PROVE  Stacking'
  BY <1>3 DEF Stacking, NewLines
<1>4. CASE StackSees \/ StackAct
  BY <1>3, <1>4 DEF StackSees, StackAct, Typed
<1>5. CASE log' = log /\ stack' = stack
  BY <1>3, <1>5
<1>6. ASSUME log' # log
      PROVE  Stacking'
  <2>1. /\ \E line : log' = Append(log, line)
        /\ stack' = stack /\ ladder.pc \in {"failed", "verdict", "rung"}
    BY <1>6, LogGrows
  <2>2. PICK line : log' = Append(log, line)
    BY <2>1
  <2>3. stack.pc # "off" /\ NewLines # {} => line.verdict # "ACCEPT"
    <3>1. CASE Verdict
      <4>1. PICK other : /\ log' = Append(log, other)
                         /\ other.verdict = IF Accepts THEN "ACCEPT" ELSE "reject"
        BY <3>1, VerdictLine
      <4>2. other = line
        <5>1. log'[Len(log) + 1] = line
          BY <2>2, Logged
        <5>2. log'[Len(log) + 1] = other
          BY <4>1, Logged
        <5> QED BY <5>1, <5>2
      <4>3. Accepts => ~StackActs
        BY <3>1, AcceptingRow DEF Verdict
      <4>4. stack.pc # "off" /\ NewLines # {} => StackActs
        BY DEF StackActs, NewLines, Typed
      <4> QED BY <4>1, <4>2, <4>3, <4>4
    <3>2. CASE ~Verdict
      <4>0. log'[Len(log) + 1] = line
        BY <2>2, Logged
      <4>1. CASE RungFailed
        <5> DEFINE other == [lever |-> Lever, verdict |-> "reject", row |-> Nan,
                             base |-> ladder.base, smokes |-> 0]
        <5>1. log' = Append(log, other) /\ other.verdict = "reject"
          BY <4>1 DEF RungFailed
        <5> HIDE DEF other
        <5>2. log'[Len(log) + 1] = other
          BY <5>1, Logged
        <5> QED BY <4>0, <5>1, <5>2
      <4>2. CASE LadderDone
        <5> DEFINE other == [lever |-> "LADDER-DONE", verdict |-> "", row |-> Nan,
                             base |-> Nan, smokes |-> 0]
        <5>1. log' = Append(log, other) /\ other.verdict = ""
          BY <4>2 DEF LadderDone
        <5> HIDE DEF other
        <5>2. log'[Len(log) + 1] = other
          BY <5>1, Logged
        <5> QED BY <4>0, <5>1, <5>2
      <4> QED BY <1>6, <3>2, <4>1, <4>2 DEF Next, LadderStep, StackStep, StartByHand,
           AcceptByHand, DropByHand, StackStart, BaseKept, BaseRow, RungRow, RungSkipped,
           AppendSetting, StackSees, StackAct, StackRelaunch, vars
    <3> QED BY <3>1, <3>2
  <2>4. /\ Len(log') = Len(log) + 1 /\ DOMAIN log' = 1 .. Len(log) + 1
        /\ DOMAIN log = 1 .. Len(log)
        /\ \A i \in DOMAIN log : log'[i] = log[i]
        /\ log'[Len(log) + 1] = line
    BY <2>2, Logged
  <2> SUFFICES ASSUME stack.pc # "off", NEW j \in NewLines', NEW i \in DOMAIN log', i > j
               PROVE  log'[i].verdict # "ACCEPT"
    BY <2>1 DEF Stacking
  <2>5. j \in 1 .. Len(log) /\ j > stack.line0 /\ log'[j].lever = stack.wait
    BY <1>0, <2>1, <2>4 DEF NewLines
  <2>6. j \in NewLines
    BY <1>0, <2>4, <2>5 DEF NewLines
  <2>7. CASE i \in DOMAIN log
    BY <2>4, <2>6, <2>7 DEF Stacking
  <2>8. CASE i \notin DOMAIN log
    <3>1. i = Len(log) + 1
      BY <1>0, <2>4, <2>8
    <3> QED BY <2>3, <2>4, <2>6, <3>1
  <2> QED BY <2>7, <2>8
<1> QED BY <1>1, <1>2, <1>4, <1>5, <1>6 DEF Next, LadderStep, StackStep, StartByHand,
           AcceptByHand, DropByHand, BaseKept, BaseRow, RungRow, RungSkipped, RungFailed,
           Verdict, AppendSetting, LadderDone, vars

(* A setting in force stays so if what is appended sets its key no other   *)
(* way.                                                                    *)
LEMMA StaysInForce ==
  ASSUME NEW file \in Seq(Setting), NEW new \in Seq(Setting), NEW kv \in Setting,
         \A other \in Range(new) : other[1] = kv[1] => other = kv
  PROVE  /\ Env(file)[kv[1]] = kv[2] => Env(file \o new)[kv[1]] = kv[2]
         /\ kv \in Range(new) => Env(file \o new)[kv[1]] = kv[2]
<1>0. PICK v : v = kv[2]
  OBVIOUS
<1>1. PICK k \in Keys : k = kv[1]
  BY KeysOf
<1>2. OnlyTo(new, k, v)
  <2>1. \A n \in DOMAIN new : new[n] \in Range(new)
    BY DEF Range
  <2> QED BY <1>0, <1>1, <2>1 DEF OnlyTo
<1>3. Env(file)[k] = v => Env(file \o new)[k] = v
  BY <1>2, Extended
<1>4. kv \in Range(new) => Env(file \o new)[k] = v
  <2>1. kv \in Range(new) => \E n \in DOMAIN new : new[n][1] = k
    BY <1>1 DEF Range
  <2> QED BY <1>2, <2>1, Overridden
<1> QED BY <1>0, <1>1, <1>3, <1>4

LEMMA InFile ==
  ASSUME NEW file \in Seq(Setting), NEW new \in Seq(Setting), NEW kv \in Range(file \o new)
  PROVE  kv \in Range(file) \/ kv \in Range(new)
<1>1. PICK n \in DOMAIN (file \o new) : kv = (file \o new)[n]
  BY DEF Range
<1>2. /\ n \in 1 .. Len(file) + Len(new)
      /\ Len(file) \in Nat /\ Len(new) \in Nat
  OBVIOUS
<1>3. CASE n <= Len(file)
  <2>1. n \in DOMAIN file /\ kv = file[n]
    BY <1>1, <1>2, <1>3
  <2> QED BY <2>1 DEF Range
<1>4. CASE n > Len(file)
  <2>1. n - Len(file) \in DOMAIN new /\ kv = new[n - Len(file)]
    BY <1>1, <1>2, <1>4
  <2> QED BY <2>1 DEF Range
<1> QED BY <1>2, <1>3, <1>4

LEMMA AppendingStep ==
  ASSUME CarefulOperator, LInv, SInv, [Next]_vars
  PROVE  Appending'
<1> USE DEF LInv, SInv
<1>0. /\ acc \in Seq(Setting) /\ log \in Seq(Line) /\ stack.line0 \in Nat
      /\ ladder.pc = "append" => Lever \in Levers
  BY LadderTyped DEF Typed
<1>1. ASSUME ladder'.pc # "append"
      PROVE  Appending'
  BY <1>1 DEF Appending
<1>2. ASSUME ladder'.pc = "append" => ladder' = ladder, log' = log, acc' = acc,
             StackActs' => StackActs, stack'.line0 = stack.line0, stack'.wait = stack.wait
      PROVE  Appending'
  BY <1>2 DEF Appending, Lever
<1>3. ASSUME NEW new \in Seq(Setting), acc' = acc \o new, log' = log, ladder.pc = "append",
             ladder'.todo = ladder.todo, Range(ladder'.append) \subseteq Range(ladder.append),
             \A kv \in Range(Settings[Lever]) :
               OwnKey(kv[1]) /\ Restatable(log[Len(log)], kv) =>
                 \A other \in Range(new) : other[1] = kv[1] => other = kv,
             StackActs' => StackActs, stack'.line0 = stack.line0, stack'.wait = stack.wait
      PROVE  Appending'
  <2>1. Lever' = Lever
    BY <1>3 DEF Lever
  <2>2. /\ log # <<>> /\ log[Len(log)].verdict = "ACCEPT" /\ log[Len(log)].lever = Lever
        /\ Range(ladder.append) \subseteq Range(Settings[Lever])
        /\ StackActs => Len(log) > stack.line0 /\ stack.wait = Lever
    BY <1>3 DEF Appending
  <2>3. ASSUME Lever \notin ProfileLevers, NEW kv \in Range(Settings[Lever]), OwnKey(kv[1]),
               Restatable(log[Len(log)], kv), kv \in Range(acc \o new)
        PROVE  Env(acc \o new)[kv[1]] = kv[2]
    <3>1. kv \in Setting
      BY <1>0, <1>3, <2>3, LeverSettings
    <3>2. \A other \in Range(new) : other[1] = kv[1] => other = kv
      BY <1>3, <2>3
    <3>3. /\ Env(acc)[kv[1]] = kv[2] => Env(acc \o new)[kv[1]] = kv[2]
          /\ kv \in Range(new) => Env(acc \o new)[kv[1]] = kv[2]
      BY <1>0, <3>1, <3>2, StaysInForce
    <3>4. kv \in Range(acc) \/ kv \in Range(new)
      BY <1>0, <2>3, InFile
    <3>5. kv \in Range(acc) => Env(acc)[kv[1]] = kv[2]
      BY <1>3, <2>3 DEF Appending
    <3> QED BY <3>3, <3>4, <3>5
  <2>4. Lever \notin ProfileLevers =>
          \A kv \in Range(Settings[Lever]) :
            OwnKey(kv[1]) /\ Restatable(log[Len(log)], kv) /\ kv \in Range(acc') =>
              Env(acc')[kv[1]] = kv[2]
    BY <1>3, <2>3
  <2> QED BY <1>3, <2>1, <2>2, <2>4 DEF Appending
<1>4. CASE StartByHand
  <2>1. PICK levers \in FirstLevers : ladder' = Started(levers)
    BY <1>4 DEF StartByHand
  <2>2. ladder'.pc = "base"
    BY <2>1, SettingsTyped, OffTyped
  <2> QED BY <1>1, <2>2
<1>5. CASE AcceptByHand \/ DropByHand
  BY <1>1, <1>5 DEF AcceptByHand, DropByHand
<1>6. CASE StackStart
  <2>1. stack'.pc = "wait" /\ stack'.line0 = Len(log) /\ log' = log /\ acc' = acc
        /\ ladder' = ladder
    BY <1>6 DEF StackStart
  <2>2. Len(log) \in Nat
    BY <1>0
  <2>3. ~StackActs'
    BY <2>1, <2>2 DEF StackActs
  <2> QED BY <2>1, <2>3 DEF Appending, Lever
<1>7. CASE BaseKept
  BY <1>1, <1>7 DEF BaseKept, Typed
<1>8. CASE BaseRow
  <2>1. Off.pc = "off"
    BY DEF Off
  <2>2. \/ ladder' = [ladder EXCEPT !.pc = "rung", !.base = results'["G0"]]
        \/ ladder' = Off
    BY <1>8 DEF BaseRow
  <2> HIDE DEF Off
  <2> QED BY <1>1, <2>1, <2>2 DEF Typed
<1>9. CASE RungRow \/ RungSkipped
  BY <1>1, <1>9 DEF RungRow, RungSkipped, Typed
<1>10. CASE RungFailed
  BY <1>1, <1>10 DEF RungFailed, Typed
<1>11. CASE Verdict
  <2>1. PICK line : /\ log' = Append(log, line)
                    /\ line.lever = Lever /\ Lever \in Levers
                    /\ line.row = ladder.row /\ line.base = ladder.base
                    /\ line.verdict = IF Accepts THEN "ACCEPT" ELSE "reject"
    BY <1>11, VerdictLine
  <2>2. /\ Len(log') = Len(log) + 1 /\ Len(log) \in Nat /\ log'[Len(log) + 1] = line
    BY <2>1, Logged
  <2>3. CASE Accepts
    <3>1. ladder' = [ladder EXCEPT !.pc = "append", !.append = Settings[Lever]]
      BY <1>11, <2>3 DEF Verdict
    <3>2. ladder'.todo = ladder.todo /\ ladder'.append = Settings[Lever]
      BY <3>1 DEF Typed
    <3>3. Lever' = Lever /\ acc' = acc /\ stack' = stack
      BY <1>11, <3>2 DEF Lever, Verdict
    <3>4. ~StackActs
      BY <1>11, <2>3, AcceptingRow DEF Verdict
    <3>5. StackActs' => Len(log') > stack.line0 /\ stack.wait = Lever
      <4>1. SUFFICES ASSUME StackActs' PROVE Len(log') > stack.line0 /\ stack.wait = Lever
        OBVIOUS
      <4>2. stack.pc = "wait"
        BY <3>3, <3>4, <4>1 DEF StackActs
      <4>3. PICK i \in stack.line0 + 1 .. Len(log') : log'[i].lever = stack.wait
        BY <3>3, <4>1, <4>2 DEF StackActs
      <4>4. ~(i \in stack.line0 + 1 .. Len(log))
        <5>1. i \in stack.line0 + 1 .. Len(log) => i \in DOMAIN log
          BY <1>0
        <5>2. i \in stack.line0 + 1 .. Len(log) => log[i].lever = stack.wait
          BY <2>1, <4>3, <5>1, Logged
        <5> QED BY <3>4, <4>2, <5>2 DEF StackActs
      <4>5. i = Len(log) + 1 /\ Len(log) + 1 > stack.line0
        BY <1>0, <2>2, <4>3, <4>4
      <4> QED BY <2>1, <2>2, <4>3, <4>5
    <3>7. ASSUME Lever \notin ProfileLevers, NEW kv \in Range(Settings[Lever]), OwnKey(kv[1]),
                 kv \in Range(acc)
          PROVE  Env(acc)[kv[1]] = kv[2]
      <4>1. PICK n \in DOMAIN acc : acc[n] = kv
        BY <3>7 DEF Range
      <4>2. PICK i \in DOMAIN log : Taken(log[i]) /\ kv \in Sets(log[i].lever)
        BY <3>7, <4>1 DEF Sourced
      <4>3. log[i].lever \in Levers /\ log[i].lever # Lever
        BY <1>11, <3>7, <4>2 DEF LinesOK, Verdict
      <4>4. kv \in Setting /\ kv[1] \in Keys
        BY <2>1, <3>7, LeverSettings
      <4>5. \A any \in Levers : \A same \in Sets(any) : same[1] = kv[1] => same = kv
        BY <2>1, <3>7, <4>2, <4>3, SharedSetting
      <4>6. \A j \in DOMAIN acc : acc[j][1] = kv[1] => acc[j] = kv
        <5> SUFFICES ASSUME NEW j \in DOMAIN acc, acc[j][1] = kv[1] PROVE acc[j] = kv
          OBVIOUS
        <5>1. PICK m \in DOMAIN log : Taken(log[m]) /\ acc[j] \in Sets(log[m].lever)
          BY <3>7 DEF Sourced
        <5>2. log[m].lever \in Levers
          BY <5>1 DEF LinesOK
        <5> QED BY <4>5, <5>1, <5>2
      <4>7. \E j \in DOMAIN acc : acc[j][1] = kv[1]
        BY <4>1
      <4>8. PICK k \in Keys : k = kv[1]
        BY <4>4
      <4>9. PICK m \in DOMAIN acc : /\ acc[m][1] = k
                                    /\ \A j \in DOMAIN acc : acc[j][1] = k => j <= m
        BY <1>0, <4>7, <4>8, LastSetting
      <4>10. Env(acc)[k] = acc[m][2]
        BY <1>0, <4>9, InForce
      <4> QED BY <4>6, <4>8, <4>9, <4>10
    <3>8. log' # <<>>
      BY <1>0, <2>1
    <3>9. Lever \notin ProfileLevers =>
            \A kv \in Range(Settings[Lever]) :
              OwnKey(kv[1]) /\ kv \in Range(acc) => Env(acc)[kv[1]] = kv[2]
      BY <3>7
    <3> QED BY <2>1, <2>2, <2>3, <3>2, <3>3, <3>5, <3>8, <3>9 DEF Appending
  <2>4. CASE ~Accepts
    BY <1>1, <1>11, <2>4 DEF Verdict, Typed
  <2> QED BY <2>3, <2>4
<1>12. CASE AppendSetting
  <2>1. PICK kv \in Setting :
           /\ acc' = acc \o <<kv>> /\ <<kv>> \in Seq(Setting)
           /\ kv \in Range(Settings[Lever]) /\ Lever \in Levers
           /\ log' = log /\ stack' = stack
           /\ \/ /\ ladder'.pc = "append" /\ ladder'.todo = ladder.todo
                 /\ Range(ladder'.append) \subseteq Range(ladder.append)
              \/ ladder'.pc = "rung"
    BY <1>12, AppendEffect
  <2>2. \A own \in Range(Settings[Lever]) : \A any \in Range(<<kv>>) :
          any[1] = own[1] => any = own
    <3>1. \A any \in Range(<<kv>>) : any = kv
      BY DEF Range
    <3> QED BY <2>1, <3>1, LeverSettings
  <2>3. StackActs' => StackActs
    BY <2>1 DEF StackActs
  <2>4. ladder.pc = "append"
    BY <1>12 DEF AppendSetting
  <2>5. CASE ladder'.pc = "rung"
    BY <1>1, <2>5
  <2>6. CASE ladder'.pc # "rung"
    BY <1>3, <2>1, <2>2, <2>3, <2>4, <2>6
  <2> QED BY <2>5, <2>6
<1>13. CASE LadderDone
  BY <1>1, <1>13 DEF LadderDone, Off
<1>14. CASE StackSees
  <2>1. stack'.line0 = stack.line0 /\ stack'.wait = stack.wait /\ ladder' = ladder
        /\ log' = log /\ acc' = acc /\ stack.pc = "wait"
    BY <1>14 DEF StackSees, Typed
  <2>2. CASE NewLines # {}
    <3>1. StackActs
      BY <2>1, <2>2 DEF StackActs, NewLines
    <3> QED BY <1>2, <2>1, <3>1
  <2>3. CASE ladder.pc = "off"
    BY <1>1, <2>1, <2>3
  <2> QED BY <1>14, <2>2, <2>3 DEF StackSees
<1>15. CASE StackAct
  <2>1. PICK new \in Seq(Setting) :
           /\ acc' = acc \o new
           /\ \A kv \in Range(new) : OwnKey(kv[1]) => kv \in Range(LeverText[stack.wait])
    BY <1>15, StackEffect
  <2>2. StackActs /\ log' = log /\ ladder' = ladder
        /\ stack'.line0 = stack.line0 /\ stack'.wait = stack.wait
    BY <1>15 DEF StackAct, StackActs, Typed
  <2>3. ladder.pc = "append" => stack.wait = Lever
    BY <2>2 DEF Appending
  <2>4. CASE ladder.pc = "append"
    <3>1. log[Len(log)].lever = Lever /\ \E args \in Relaunches : args.wait = Lever
      BY <1>15, <2>3, <2>4 DEF Appending, Stacking, StackAct
    <3>2. ASSUME NEW kv \in Range(Settings[Lever]), OwnKey(kv[1]), Restatable(log[Len(log)], kv),
                 NEW other \in Range(new), other[1] = kv[1]
          PROVE  other = kv
      <4>1. kv \in Range(LeverText[Lever])
        BY <3>1, <3>2 DEF Restatable
      <4>2. other \in Range(LeverText[Lever])
        BY <2>1, <2>3, <2>4, <3>2
      <4> QED BY <1>0, <2>4, <3>2, <4>1, <4>2, LeverSettings
    <3> QED BY <1>3, <2>1, <2>2, <2>4, <3>2
  <2>5. CASE ladder.pc # "append"
    BY <1>1, <2>2, <2>5
  <2> QED BY <2>4, <2>5
<1>16. CASE StackRelaunch
  <2>1. ladder'.pc = "base"
    BY <1>16, OffTyped DEF StackRelaunch, Typed
  <2> QED BY <1>1, <2>1
<1>17. CASE UNCHANGED vars
  <2>1. StackActs' = StackActs
    BY <1>17 DEF vars, StackActs
  <2> QED BY <1>2, <1>17, <2>1 DEF vars
<1> QED BY <1>4, <1>5, <1>6, <1>7, <1>8, <1>9, <1>10, <1>11, <1>12, <1>13, <1>14, <1>15,
           <1>16, <1>17 DEF Next, LadderStep, StackStep

LEMMA SurvivesStep ==
  ASSUME CarefulOperator, LInv, SInv, [Next]_vars
  PROVE  Survives'
<1> USE DEF LInv, SInv
<1>0. /\ acc \in Seq(Setting) /\ log \in Seq(Line) /\ stack.line0 \in Nat /\ Len(log) \in Nat
      /\ ladder.pc = "append" => Lever \in Levers
  BY LadderTyped DEF Typed
<1> DEFINE Decode(line) == line.verdict = "ACCEPT" /\ line.lever \notin ProfileLevers
<1>a. ASSUME NEW i \in DOMAIN log, Decode(log[i]), NEW kv \in Range(Settings[log[i].lever]),
             Restatable(log[i], kv)
      PROVE  /\ Held(i, kv) /\ kv \in Setting /\ kv[1] \in Keys /\ log[i].lever \in Levers
             /\ \A same \in Range(Settings[log[i].lever]) : same[1] = kv[1] => same = kv
             /\ ~SetLater(i, kv[1]) => OwnKey(kv[1])
  <2>1. log[i].lever \in Levers
    BY <1>a DEF LinesOK, Taken
  <2>2. Held(i, kv)
    BY <1>a DEF Survives
  <2>3. ~SetLater(i, kv[1]) => OwnKey(kv[1])
    BY DEF SetLater, OwnKey
  <2> QED BY <1>a, <2>1, <2>2, <2>3, LeverSettings
<1>1. ASSUME log' = log, acc' = acc,
             ladder.pc = "append" /\ stack.pc # "relaunch" =>
               ladder' = ladder /\ stack'.pc # "relaunch"
      PROVE  Survives'
  <2> SUFFICES ASSUME NEW i \in DOMAIN log, Decode(log[i]), NEW kv \in Range(Settings[log[i].lever]),
                      Restatable(log[i], kv)
               PROVE  Held(i, kv)'
    BY <1>1 DEF Survives
  <2>1. CASE SetLater(i, kv[1])
    BY <2>1, LaterGrows DEF Held
  <2>2. CASE ~SetLater(i, kv[1])
    BY <1>1, <1>a, <2>2 DEF Held
  <2> QED BY <2>1, <2>2
<1>2. ASSUME acc' = acc, ladder.pc # "append", NEW line, log' = Append(log, line),
             Decode(line) => /\ ladder'.pc = "append" /\ stack'.pc # "relaunch"
                             /\ ladder'.append = Settings[line.lever]
      PROVE  Survives'
  <2>1. \A i \in DOMAIN log' : \/ i \in DOMAIN log /\ log'[i] = log[i]
                               \/ i = Len(log') /\ log'[i] = line
    BY <1>2, Logged
  <2> SUFFICES ASSUME NEW i \in DOMAIN log', Decode(log'[i]),
                      NEW kv \in Range(Settings[log'[i].lever]), Restatable(log'[i], kv)
               PROVE  Held(i, kv)'
    BY DEF Survives
  <2>2. CASE i \in DOMAIN log /\ log'[i] = log[i]
    <3>1. SetLater(i, kv[1]) \/ Env(acc)[kv[1]] = kv[2]
      BY <1>2, <1>a, <2>2 DEF Held
    <3> QED BY <1>2, <2>2, <3>1, LaterGrows DEF Held
  <2>3. CASE i = Len(log') /\ log'[i] = line
    BY <1>2, <2>3 DEF Held
  <2> QED BY <2>1, <2>2, <2>3
<1>3. ASSUME NEW new \in Seq(Setting), acc' = acc \o new, log' = log,
             \A i \in DOMAIN log : \A kv \in Range(Settings[log[i].lever]) :
               Decode(log[i]) /\ Restatable(log[i], kv) /\ ~SetLater(i, kv[1]) =>
                 /\ \A other \in Range(new) : other[1] = kv[1] => other = kv
                 /\ ladder.pc = "append" /\ i = Len(log) /\ stack.pc # "relaunch"
                    /\ kv \in Range(ladder.append)
                    => \/ kv \in Range(new)
                       \/ Env(acc)[kv[1]] = kv[2]
                       \/ /\ ladder'.pc = "append" /\ stack'.pc # "relaunch"
                          /\ kv \in Range(ladder'.append)
      PROVE  Survives'
  <2> SUFFICES ASSUME NEW i \in DOMAIN log, Decode(log[i]), NEW kv \in Range(Settings[log[i].lever]),
                      Restatable(log[i], kv)
               PROVE  Held(i, kv)'
    BY <1>3 DEF Survives
  <2>1. CASE SetLater(i, kv[1])
    BY <2>1, LaterGrows DEF Held
  <2>2. CASE ~SetLater(i, kv[1])
    <3>1. kv \in Setting /\ \A other \in Range(new) : other[1] = kv[1] => other = kv
      BY <1>3, <1>a, <2>2
    <3>2. /\ Env(acc)[kv[1]] = kv[2] => Env(acc \o new)[kv[1]] = kv[2]
          /\ kv \in Range(new) => Env(acc \o new)[kv[1]] = kv[2]
      BY <1>0, <3>1, StaysInForce
    <3>3. \/ Env(acc)[kv[1]] = kv[2] \/ kv \in Range(new)
          \/ /\ ladder'.pc = "append" /\ stack'.pc # "relaunch" /\ i = Len(log)
             /\ kv \in Range(ladder'.append)
      BY <1>3, <1>a, <2>2 DEF Held
    <3> QED BY <1>3, <3>2, <3>3 DEF Held
  <2> QED BY <2>1, <2>2
<1>4. CASE AcceptByHand
  <2>1. PICK list \in HandSettings : acc' = AppendMissing(acc, list)
    BY <1>4 DEF AcceptByHand
  <2>2. list \in Seq(Setting)
    BY SettingsTyped
  <2>3. PICK new \in Seq(Setting) : Adds(acc, list, new)
    BY <1>0, <2>2, Missing
  <2>4. acc' = acc \o new /\ Range(new) \subseteq Range(list)
    BY <2>1, <2>3 DEF Adds
  <2>5. \A other \in Range(new) : ~OwnKey(other[1])
    BY <2>4 DEF OwnKey, Range
  <2>6. log' = log /\ ladder.pc # "append"
    BY <1>4 DEF AcceptByHand
  <2>7. ASSUME NEW i \in DOMAIN log, NEW kv \in Range(Settings[log[i].lever]), Decode(log[i]),
               Restatable(log[i], kv), ~SetLater(i, kv[1])
        PROVE  \A other \in Range(new) : other[1] = kv[1] => other = kv
    BY <1>a, <2>5, <2>7
  <2> QED BY <1>3, <2>4, <2>6, <2>7
<1>5. CASE DropByHand
  <2>1. PICK keys \in HandPrefixes :
            LET others == {i \in DOMAIN acc : acc[i][1] \notin keys}
            IN acc' = IF others # {} THEN Keep(acc, others) ELSE acc
    BY <1>5 DEF DropByHand
  <2> DEFINE others == {i \in DOMAIN acc : acc[i][1] \notin keys}
  <2>2. acc' = IF others # {} THEN Keep(acc, others) ELSE acc
    BY <2>1
  <2>3. others \in SUBSET (DOMAIN acc)
    OBVIOUS
  <2>4. log' = log /\ ladder.pc # "append"
    BY <1>5 DEF DropByHand
  <2> SUFFICES ASSUME NEW i \in DOMAIN log, Decode(log[i]), NEW kv \in Range(Settings[log[i].lever]),
                      Restatable(log[i], kv)
               PROVE  Held(i, kv)'
    BY <2>4 DEF Survives
  <2>5. CASE SetLater(i, kv[1])
    BY <2>5, LaterGrows DEF Held
  <2>6. CASE ~SetLater(i, kv[1])
    <3>1. kv[1] \in Keys /\ OwnKey(kv[1]) /\ Env(acc)[kv[1]] = kv[2]
      BY <1>a, <2>4, <2>6 DEF Held
    <3>2. PICK k \in Keys : k = kv[1]
      BY <3>1
    <3>3. \A j \in DOMAIN acc : acc[j][1] = k => j \in others
      BY <3>1, <3>2 DEF OwnKey
    <3> HIDE DEF others
    <3>4. Env(Keep(acc, others))[k] = Env(acc)[k]
      BY <1>0, <2>3, <3>3, Kept
    <3>5. Env(acc')[k] = kv[2]
      BY <2>2, <3>1, <3>2, <3>4
    <3> QED BY <3>2, <3>5 DEF Held
  <2> QED BY <2>5, <2>6
<1>6. CASE StartByHand \/ BaseKept \/ BaseRow \/ RungRow \/ RungSkipped
  <2>1. ladder.pc # "append" /\ log' = log /\ acc' = acc
    BY <1>6 DEF StartByHand, BaseKept, BaseRow, RungRow, RungSkipped
  <2> QED BY <1>1, <2>1
<1>7. CASE RungFailed
  <2> DEFINE line == [lever |-> Lever, verdict |-> "reject", row |-> Nan,
                      base |-> ladder.base, smokes |-> 0]
  <2>1. log' = Append(log, line) /\ acc' = acc /\ ladder.pc # "append" /\ ~Decode(line)
    BY <1>7 DEF RungFailed
  <2> HIDE DEF line
  <2> QED BY <1>2, <2>1
<1>8. CASE LadderDone
  <2> DEFINE line == [lever |-> "LADDER-DONE", verdict |-> "", row |-> Nan,
                      base |-> Nan, smokes |-> 0]
  <2>1. log' = Append(log, line) /\ acc' = acc /\ ladder.pc # "append" /\ ~Decode(line)
    BY <1>8 DEF LadderDone
  <2> HIDE DEF line
  <2> QED BY <1>2, <2>1
<1>9. CASE Verdict
  <2>1. PICK line : /\ log' = Append(log, line)
                    /\ line.lever = Lever
                    /\ line.verdict = IF Accepts THEN "ACCEPT" ELSE "reject"
    BY <1>9, VerdictLine
  <2>2. acc' = acc /\ stack' = stack /\ ladder.pc # "append"
    BY <1>9 DEF Verdict
  <2>3. ASSUME Decode(line)
        PROVE  /\ ladder'.pc = "append" /\ stack'.pc # "relaunch"
               /\ ladder'.append = Settings[line.lever]
    <3>1. Accepts
      BY <2>1, <2>3
    <3>2. ladder' = [ladder EXCEPT !.pc = "append", !.append = Settings[Lever]]
      BY <1>9, <3>1 DEF Verdict
    <3>3. stack.pc # "relaunch"
      BY <1>9, <3>1, AcceptingRow DEF Verdict, StackActs
    <3> QED BY <2>1, <2>2, <3>2, <3>3 DEF Typed
  <2> QED BY <1>2, <2>1, <2>2, <2>3
<1>10. CASE AppendSetting
  <2>1. PICK set \in Setting :
           /\ acc' = acc \o <<set>> /\ <<set>> \in Seq(Setting)
           /\ set \in Range(Settings[Lever]) /\ Lever \in Levers
           /\ log' = log /\ stack' = stack
           /\ \/ /\ ladder'.pc = "append"
                 /\ Range(ladder.append) \subseteq Range(ladder'.append) \cup {set}
              \/ ladder'.pc = "rung" /\ Range(ladder.append) \subseteq {set}
    BY <1>10, AppendEffect
  <2>2. Range(<<set>>) = {set}
    BY DEF Range
  <2>3. log[Len(log)].verdict = "ACCEPT" /\ log[Len(log)].lever = Lever /\ log # <<>>
    BY <1>10 DEF Appending, AppendSetting
  <2>4. ASSUME NEW i \in DOMAIN log, NEW kv \in Range(Settings[log[i].lever]), Decode(log[i]),
               Restatable(log[i], kv), ~SetLater(i, kv[1]), set[1] = kv[1]
        PROVE  set = kv
    <3>1. CASE i = Len(log)
      BY <1>a, <2>1, <2>3, <2>4, <3>1
    <3>2. CASE i # Len(log)
      <4>1. Len(log) \in i + 1 .. Len(log)
        BY <1>0, <3>2
      <4>2. PICK n \in DOMAIN Settings[Lever] : Settings[Lever][n] = set
        BY <2>1 DEF Range
      <4>3. SetLater(i, kv[1])
        BY <2>3, <2>4, <4>1, <4>2 DEF SetLater, Taken
      <4> QED BY <2>4, <4>3
    <3> QED BY <3>1, <3>2
  <2>5. ASSUME NEW kv \in Range(ladder.append), stack.pc # "relaunch"
        PROVE  \/ kv \in Range(<<set>>)
               \/ /\ ladder'.pc = "append" /\ stack'.pc # "relaunch"
                  /\ kv \in Range(ladder'.append)
    BY <2>1, <2>2, <2>5
  <2>6. \A i \in DOMAIN log : \A kv \in Range(Settings[log[i].lever]) :
               Decode(log[i]) /\ Restatable(log[i], kv) /\ ~SetLater(i, kv[1]) =>
                 /\ \A other \in Range(<<set>>) : other[1] = kv[1] => other = kv
                 /\ ladder.pc = "append" /\ i = Len(log) /\ stack.pc # "relaunch"
                    /\ kv \in Range(ladder.append)
                    => \/ kv \in Range(<<set>>)
                       \/ Env(acc)[kv[1]] = kv[2]
                       \/ /\ ladder'.pc = "append" /\ stack'.pc # "relaunch"
                          /\ kv \in Range(ladder'.append)
    BY <2>2, <2>4, <2>5
  <2>7. PICK new \in Seq(Setting) : new = <<set>>
    BY <2>1
  <2> QED BY <1>3, <2>1, <2>6, <2>7
<1>11. CASE StackSees \/ StackStart
  <2>1. ladder' = ladder /\ log' = log /\ acc' = acc /\ stack'.pc # "relaunch"
    BY <1>11 DEF StackSees, StackStart, Typed
  <2> QED BY <1>1, <2>1
<1>12. CASE StackAct
  <2>1. PICK new \in Seq(Setting) :
           /\ acc' = acc \o new
           /\ \A kv \in Range(new) : OwnKey(kv[1]) =>
                stack.wait \in Levers /\ kv \in Range(LeverText[stack.wait]) /\ Passes
           /\ Passes /\ stack.wait \in Levers =>
              \A kv \in Range(LeverText[stack.wait]) : kv \in Range(acc) \/ kv \in Range(new)
    BY <1>12, StackEffect
  <2>2. StackActs /\ log' = log /\ ladder' = ladder /\ stack.pc = "act"
    BY <1>12 DEF StackAct, StackActs
  <2>3. \A j \in NewLines : j \in DOMAIN log /\ log[j].lever = stack.wait
    BY <1>0 DEF NewLines
  <2>4. ASSUME NEW i \in DOMAIN log, NEW kv \in Range(Settings[log[i].lever]), Decode(log[i]),
               Restatable(log[i], kv), ~SetLater(i, kv[1]), NEW other \in Range(new), other[1] = kv[1]
        PROVE  other = kv
    <3>1. OwnKey(other[1])
      BY <1>a, <2>4
    <3>2. PICK j \in NewLines : Rederived(log[j])
      BY <2>1, <3>1 DEF Passes
    <3>3. other \in Range(LeverText[stack.wait]) /\ stack.wait \in Levers
      BY <2>1, <3>1
    <3>4. ~(i > j)
      BY <2>2, <2>4 DEF Stacking
    <3>5. j \in DOMAIN log /\ log[j].lever = stack.wait
      BY <2>3
    <3>6. CASE i = j
      <4>1. kv \in Range(LeverText[stack.wait])
        BY <2>2, <2>4, <3>5, <3>6 DEF Restatable, Stacking
      <4> QED BY <2>4, <3>3, <4>1, LeverSettings
    <3>7. CASE i # j
      <4>1. j \in i + 1 .. Len(log)
        BY <1>0, <3>4, <3>5, <3>7
      <4>2. PICK n \in DOMAIN Settings[stack.wait] : Settings[stack.wait][n][1] = other[1]
        BY <3>3, LeverSettings
      <4>3. SetLater(i, kv[1])
        BY <2>4, <3>2, <3>5, <4>1, <4>2 DEF SetLater, Taken
      <4> QED BY <2>4, <4>3
    <3> QED BY <3>6, <3>7
  <2>5. ASSUME ladder.pc = "append", Decode(log[Len(log)]), NEW kv \in Range(Settings[log[Len(log)].lever]),
               OwnKey(kv[1]), Restatable(log[Len(log)], kv)
        PROVE  kv \in Range(new) \/ Env(acc)[kv[1]] = kv[2]
    <3>1. /\ log # <<>> /\ log[Len(log)].lever = Lever /\ stack.wait = Lever /\ Lever \in Levers
          /\ Len(log) > stack.line0
          /\ Lever \notin ProfileLevers
      BY <1>0, <2>2, <2>5 DEF Appending
    <3>5. Rederived(log[Len(log)]) /\ kv \in Range(LeverText[stack.wait])
      BY <2>2, <2>5, <3>1 DEF Restatable, Stacking
    <3>2. Len(log) \in NewLines /\ \A j \in NewLines : j <= Len(log)
      BY <1>0, <3>1 DEF NewLines
    <3>3. kv \in Range(acc) \/ kv \in Range(new)
      BY <2>1, <2>5, <3>1, <3>2, <3>5 DEF Passes
    <3>4. kv \in Range(acc) => Env(acc)[kv[1]] = kv[2]
      BY <2>5, <3>1 DEF Appending
    <3> QED BY <3>3, <3>4
  <2>6. \A i \in DOMAIN log : \A kv \in Range(Settings[log[i].lever]) :
               Decode(log[i]) /\ Restatable(log[i], kv) /\ ~SetLater(i, kv[1]) =>
                 /\ \A other \in Range(new) : other[1] = kv[1] => other = kv
                 /\ ladder.pc = "append" /\ i = Len(log) /\ stack.pc # "relaunch"
                    /\ kv \in Range(ladder.append)
                    => \/ kv \in Range(new)
                       \/ Env(acc)[kv[1]] = kv[2]
                       \/ /\ ladder'.pc = "append" /\ stack'.pc # "relaunch"
                          /\ kv \in Range(ladder'.append)
    BY <1>a, <2>4, <2>5
  <2> QED BY <1>3, <2>1, <2>2, <2>6
<1>13. CASE StackRelaunch
  <2>1. log' = log /\ acc' = acc /\ stack.pc = "relaunch"
    BY <1>13 DEF StackRelaunch
  <2> QED BY <1>1, <2>1
<1>14. CASE UNCHANGED vars
  <2>1. log' = log /\ acc' = acc /\ ladder' = ladder /\ stack' = stack
    BY <1>14 DEF vars
  <2> QED BY <1>1, <2>1
<1> QED BY <1>4, <1>5, <1>6, <1>7, <1>8, <1>9, <1>10, <1>11, <1>12, <1>13, <1>14
        DEF Next, LadderStep, StackStep

LEMMA InitSInv == Init => SInv
<1> SUFFICES ASSUME Init PROVE SInv
  OBVIOUS
<1>1. log = <<>> /\ acc = <<>> /\ ladder.pc = "off" /\ stack.pc = "off"
  BY DEF Init, Off, NoStack
<1>2. DOMAIN log = {} /\ DOMAIN acc = {}
  BY <1>1
<1> QED BY <1>1, <1>2 DEF SInv, LinesOK, Sourced, Appending, Stacking, Survives

(* An accepted lever outlives the ladder that accepted it: under a careful *)
(* operator, whenever a ladder starts, every setting of every decode lever *)
(* accepted so far is in force, wherever stack_next killed the ladder      *)
(* before, unless a later verdict, stack_next's arguments or an edit by    *)
(* hand set its key anew.  Of a lever that a stack_next waits for, this is *)
(* so of the settings that its rule and the script's text restate.         *)
THEOREM AcceptedAreKept == CarefulOperator => (Spec => []AcceptedSurvivesRelaunch)
<1> SUFFICES ASSUME CarefulOperator PROVE Spec => []AcceptedSurvivesRelaunch
  OBVIOUS
<1>1. LInv /\ SInv /\ [Next]_vars => SInv'
  BY LinesStep, SourcedStep, AppendingStep, StackingStep, SurvivesStep DEF SInv
<1>2. SInv => AcceptedSurvivesRelaunch
  BY DEF SInv, Survives, Held, AcceptedSurvivesRelaunch
<1> QED BY <1>1, <1>2, InitSInv, Invariance, PTL DEF Spec
===============================================================================
