---------------------------- MODULE ReaperProofs ----------------------------
(***************************************************************************)
(* Theorems about the reaper beside the requests of the API.  Its types    *)
(* hold whatever runs; what it leaves alone, and what it leaves a trace    *)
(* of, is proved for one reaper that selects by age, as cmd_reap does by   *)
(* default, and a store whose writes succeed.                              *)
(***************************************************************************)
EXTENDS ReaperProperties, ServiceProofs

\* the states a reaper may select
Reapable == {"ERROR", "TERMINATING", "DECONTAMINATING"}

\* the places at which a pass works on a record
Working == {"vm", "switch", "disk", "row"}

\* a pass of r picked bunker i and is not done with it
Held(r, i) ==
  \/ i \in reaper[r].todo
  \/ reaper[r].pc \in Working /\ reaper[r].id = i

Resumed(r) ==
  /\ reaper[r].pc \in Working => reaper[r].id \in Ids \ reaper[r].todo
  /\ reaper[r].pc = "idle" => reaper[r] = NoPass

\* the type invariant, and that nothing of a finished pass stays
Passing ==
  /\ Linked
  /\ reaper \in [Reapers -> Pass]
  /\ \A r \in Reapers : Resumed(r)
  /\ warned \subseteq Trace /\ dropped \subseteq Trace

\* only the pass of r goes on
Sole(r) ==
  /\ reaper' \in [Reapers -> Pass]
  /\ \A s \in Reapers \ {r} : reaper'[s] = reaper[s]

-----------------------------------------------------------------------------
(* What each step of a pass does.                                           *)

LEMMA PassSet ==
  ASSUME reaper \in [Reapers -> Pass], NEW r \in Reapers, NEW q \in Pass,
         reaper' = [reaper EXCEPT ![r] = q]
  PROVE  Sole(r) /\ reaper'[r] = q
BY DEF Sole

LEMMA NoPassType ==
  /\ NoPass \in Pass /\ NoPass.pc = "idle" /\ NoPass.todo = {}
  /\ NoPass.left = {}
BY DEF NoPass, Pass

LEMMA ListStep ==
  ASSUME Passing, NEW r \in Reapers, ReapList(r)
  PROVE  /\ Sole(r) /\ reaper[r].pc = "idle" /\ reaper'[r].pc = "next"
         /\ reaper'[r].left = {}
         /\ \A i \in reaper'[r].todo :
              row[i].state \in Reapable /\ (AgeGate => ~Serving(i))
         /\ UNCHANGED <<host, row, warned, dropped>>
<1>0. PICK keep \in BOOLEAN, selected \in Selections :
        \E todo \in SUBSET Ids :
          /\ \A i \in todo : row[i].state \in selected \ NeverReap
          /\ \A i \in todo : AgeGate => ~Serving(i)
          /\ reaper' = [reaper EXCEPT ![r] =
                         [NoPass EXCEPT !.pc = "next", !.keep = keep, !.todo = todo]]
  BY DEF ReapList
<1>1. PICK todo \in SUBSET Ids :
        /\ \A i \in todo : row[i].state \in selected \ NeverReap
        /\ \A i \in todo : AgeGate => ~Serving(i)
        /\ reaper' = [reaper EXCEPT ![r] =
                       [NoPass EXCEPT !.pc = "next", !.keep = keep, !.todo = todo]]
  BY <1>0
<1> DEFINE q == [NoPass EXCEPT !.pc = "next", !.keep = keep, !.todo = todo]
<1>2. q \in Pass /\ q.pc = "next" /\ q.left = {} /\ q.todo = todo
  BY <1>1 DEF NoPass, Pass
<1>3. selected \ NeverReap \subseteq Reapable
  BY <1>1 DEF Selections, DefaultStates, NeverReap, Reapable, States!BunkerState
<1>4. reaper \in [Reapers -> Pass] /\ reaper' = [reaper EXCEPT ![r] = q]
  BY <1>1 DEF Passing
<1> HIDE DEF q
<1>5. Sole(r) /\ reaper'[r] = q
  BY <1>2, <1>4, PassSet
<1> QED BY <1>1, <1>2, <1>3, <1>5 DEF ReapList, ReapAt

LEMMA LoadStep ==
  ASSUME Passing, NEW r \in Reapers, ReapLoad(r)
  PROVE  /\ Sole(r) /\ reaper[r].pc = "next" /\ reaper'[r].pc = "vm"
         /\ reaper'[r].id \in reaper[r].todo
         /\ reaper'[r].todo = reaper[r].todo \ {reaper'[r].id}
         /\ reaper'[r].vm = row[reaper'[r].id].vm
         /\ reaper'[r].switch = row[reaper'[r].id].switch
         /\ reaper'[r].left = reaper[r].left
         /\ UNCHANGED <<host, row, warned, dropped>>
<1>1. PICK i \in reaper[r].todo :
        reaper' = [reaper EXCEPT ![r].pc = "vm", ![r].id = i, ![r].todo = @ \ {i},
                                 ![r].vm = row[i].vm, ![r].switch = row[i].switch]
  BY DEF ReapLoad
<1>2. /\ reaper \in [Reapers -> Pass] /\ reaper[r] \in Pass
      /\ row \in [Ids -> Record]
  BY DEF Passing, Linked, ServiceTypeOK, TypeOK
<1>3. i \in Ids /\ row[i].vm \in BOOLEAN /\ row[i].switch \in BOOLEAN
  BY <1>1, <1>2 DEF Pass, Record
<1> DEFINE q == [reaper[r] EXCEPT !.pc = "vm", !.id = i, !.todo = @ \ {i},
                                  !.vm = row[i].vm, !.switch = row[i].switch]
<1>4. q \in Pass
  BY <1>2, <1>3 DEF Pass
<1>5. /\ q.pc = "vm" /\ q.id = i /\ q.todo = reaper[r].todo \ {i}
      /\ q.vm = row[i].vm /\ q.switch = row[i].switch /\ q.left = reaper[r].left
  BY <1>2 DEF Pass
<1>6. reaper' = [reaper EXCEPT ![r] = q]
  BY <1>1, <1>2
<1> HIDE DEF q
<1>7. Sole(r) /\ reaper'[r] = q
  BY <1>2, <1>4, <1>6, PassSet
<1> QED BY <1>1, <1>5, <1>7 DEF ReapLoad, ReapAt

LEMMA NoteStep ==
  ASSUME Passing, NEW r \in Reapers, NEW res \in Resources,
         NEW l \in {"switch", "disk", "row"}, NEW ok \in BOOLEAN,
         ReapStep(r, res, l, ok), reaper[r].id \in Ids
  PROVE  /\ Sole(r) /\ reaper'[r].pc = l /\ reaper'[r].id = reaper[r].id
         /\ reaper'[r].todo = reaper[r].todo /\ reaper'[r].vm = reaper[r].vm
         /\ reaper'[r].switch = reaper[r].switch
         /\ reaper[r].left \subseteq reaper'[r].left
         /\ ~ok => <<reaper[r].id, res>> \in reaper'[r].left
<1> DEFINE left == IF ok THEN reaper[r].left
                   ELSE reaper[r].left \cup {<<reaper[r].id, res>>}
           q == [reaper[r] EXCEPT !.pc = l, !.left = left]
<1>1. reaper \in [Reapers -> Pass] /\ reaper[r] \in Pass
  BY DEF Passing
<1>2. reaper' = [reaper EXCEPT ![r] = q]
  BY <1>1 DEF ReapStep
<1>3. /\ left \subseteq Trace /\ reaper[r].left \subseteq left
      /\ ~ok => <<reaper[r].id, res>> \in left
  BY <1>1 DEF Pass, Trace
<1> HIDE DEF left
<1>4. q \in Pass
  BY <1>1, <1>3 DEF Pass
<1>5. /\ q.pc = l /\ q.id = reaper[r].id /\ q.todo = reaper[r].todo
      /\ q.vm = reaper[r].vm /\ q.switch = reaper[r].switch /\ q.left = left
  BY <1>1 DEF Pass
<1> HIDE DEF q
<1>6. Sole(r) /\ reaper'[r] = q
  BY <1>1, <1>2, <1>4, PassSet
<1> QED BY <1>3, <1>5, <1>6

LEMMA RowStep ==
  ASSUME Passing, NEW r \in Reapers, ReapRow(r)
  PROVE  /\ Sole(r) /\ reaper[r].pc = "row" /\ reaper'[r].pc = "next"
         /\ reaper'[r].todo = reaper[r].todo
         /\ reaper'[r].left = reaper[r].left
         /\ UNCHANGED <<host, warned, dropped>>
         /\ row' = row \/ row' = [row EXCEPT ![reaper[r].id] = NoRow]
<1> DEFINE q == [reaper[r] EXCEPT !.pc = "next", !.id = "none", !.vm = FALSE,
                                  !.switch = FALSE]
<1>1. reaper \in [Reapers -> Pass] /\ reaper[r] \in Pass
  BY DEF Passing
<1>2. reaper' = [reaper EXCEPT ![r] = q]
  BY <1>1 DEF ReapRow
<1>3. /\ q \in Pass /\ q.pc = "next" /\ q.todo = reaper[r].todo
      /\ q.left = reaper[r].left
  BY <1>1 DEF Pass
<1> HIDE DEF q
<1>4. Sole(r) /\ reaper'[r] = q
  BY <1>1, <1>2, <1>3, PassSet
<1> QED BY <1>3, <1>4 DEF ReapRow, ReapAt

\* the pass is over, printed or not
LEMMA OverStep ==
  ASSUME Passing, NEW r \in Reapers, ReapReport(r) \/ CrashReaper(r)
  PROVE  /\ Sole(r) /\ reaper'[r] = NoPass /\ UNCHANGED <<host, row>>
         /\ warned \subseteq warned' /\ dropped \subseteq dropped'
         /\ warned' \subseteq Trace /\ dropped' \subseteq Trace
         /\ \A x \in reaper[r].left : x[2] \in host[x[1]] => x \in warned' \cup dropped'
<1>1. reaper \in [Reapers -> Pass] /\ reaper[r] \in Pass
  BY DEF Passing
<1>2. reaper' = [reaper EXCEPT ![r] = NoPass]
  BY DEF ReapReport, CrashReaper
<1>3. Sole(r) /\ reaper'[r] = NoPass
  BY <1>1, <1>2, PassSet, NoPassType
<1>4. reaper[r].left \subseteq Trace
  BY <1>1 DEF Pass
<1> QED BY <1>3, <1>4 DEF ReapReport, CrashReaper, Passing
\* a pass that tries to remove something from the host
Swept(r, res, from, to) ==
  LET i == reaper[r].id IN
  /\ i \in Ids /\ reaper[r].pc = from /\ Sole(r)
  /\ reaper'[r].pc = to /\ reaper'[r].id = i
  /\ reaper'[r].todo = reaper[r].todo /\ reaper'[r].vm = reaper[r].vm
  /\ reaper'[r].switch = reaper[r].switch
  /\ reaper[r].left \subseteq reaper'[r].left
  /\ host' \in [Ids -> SUBSET Resources]
  /\ \A j \in Ids \ {i} : host'[j] = host[j]
  /\ host'[i] \subseteq host[i]
  /\ row' = row /\ SameTraces

LEMMA VmStep ==
  ASSUME Passing, NEW r \in Reapers, ReapVm(r)
  PROVE  /\ Swept(r, "vm", "vm", "switch")
         /\ "vm" \in host'[reaper[r].id] /\ reaper[r].vm =>
              <<reaper[r].id, "vm">> \in reaper'[r].left
<1> DEFINE i == reaper[r].id
<1>1. /\ i \in Ids /\ TypeOK /\ reaper[r].pc = "vm"
      /\ host \in [Ids -> SUBSET Resources]
  BY DEF Passing, Resumed, Working, Linked, ServiceTypeOK, TypeOK, ReapVm, ReapAt
<1>2. PICK ok \in BOOLEAN :
        /\ IF reaper[r].vm THEN RemoveVm(i, "reap", ok) ELSE ok /\ UNCHANGED host
        /\ ReapStep(r, "vm", "switch", ok)
  BY DEF ReapVm
<1>3. /\ Sole(r) /\ reaper'[r].pc = "switch" /\ reaper'[r].id = i
      /\ reaper'[r].todo = reaper[r].todo /\ reaper'[r].vm = reaper[r].vm
      /\ reaper'[r].switch = reaper[r].switch
      /\ reaper[r].left \subseteq reaper'[r].left
      /\ ~ok => <<i, "vm">> \in reaper'[r].left
  BY <1>1, <1>2, NoteStep DEF Resources
<1>4. /\ host' \in [Ids -> SUBSET Resources]
      /\ \A j \in Ids \ {i} : host'[j] = host[j]
      /\ host'[i] \subseteq host[i]
      /\ reaper[r].vm /\ ok => "vm" \notin host'[i]
  <2>1. CASE reaper[r].vm
    <3>1. RemoveVm(i, "reap", ok)
      BY <1>2, <2>1
    <3> HIDE DEF i
    <3> QED BY <1>1, <1>2, <3>1, RemoveVmHost, RemoveVmType
  <2>2. CASE ~reaper[r].vm
    BY <1>1, <1>2, <2>2
  <2> QED BY <2>1, <2>2
<1>5. row' = row /\ SameTraces
  BY <1>2 DEF ReapStep
<1> QED BY <1>1, <1>3, <1>4, <1>5 DEF Swept

LEMMA SwitchStep ==
  ASSUME Passing, NEW r \in Reapers, ReapSwitch(r)
  PROVE  /\ Swept(r, "switch", "switch", "disk")
         /\ /\ "switch" \in host'[reaper[r].id] /\ reaper[r].switch
            /\ "silent_switch" \notin Faults
            => <<reaper[r].id, "switch">> \in reaper'[r].left
<1> DEFINE i == reaper[r].id
<1>1. /\ i \in Ids /\ TypeOK /\ reaper[r].pc = "switch"
      /\ host \in [Ids -> SUBSET Resources]
  BY DEF Passing, Resumed, Working, Linked, ServiceTypeOK, TypeOK, ReapSwitch,
         ReapAt
<1>2. PICK ok \in BOOLEAN :
        /\ IF reaper[r].switch THEN Removal(i, "switch", "reap", ok)
           ELSE ok /\ UNCHANGED host
        /\ ReapStep(r, "switch", "disk", ok)
  BY DEF ReapSwitch
<1>3. /\ Sole(r) /\ reaper'[r].pc = "disk" /\ reaper'[r].id = i
      /\ reaper'[r].todo = reaper[r].todo /\ reaper'[r].vm = reaper[r].vm
      /\ reaper'[r].switch = reaper[r].switch
      /\ reaper[r].left \subseteq reaper'[r].left
      /\ ~ok => <<i, "switch">> \in reaper'[r].left
  BY <1>1, <1>2, NoteStep DEF Resources
<1>4. /\ host' \in [Ids -> SUBSET Resources]
      /\ \A j \in Ids \ {i} : host'[j] = host[j]
      /\ host'[i] \subseteq host[i]
      /\ reaper[r].switch /\ ok /\ "silent_switch" \notin Faults =>
           "switch" \notin host'[i]
  <2>1. CASE reaper[r].switch
    <3>1. Removal(i, "switch", "reap", ok)
      BY <1>2, <2>1
    <3> HIDE DEF i
    <3> QED BY <1>1, <1>2, <3>1, RemovalHost, RemovalType
  <2>2. CASE ~reaper[r].switch
    BY <1>1, <1>2, <2>2
  <2> QED BY <2>1, <2>2
<1>5. row' = row /\ SameTraces
  BY <1>2 DEF ReapStep
<1> QED BY <1>1, <1>3, <1>4, <1>5 DEF Swept

LEMMA DiskStep ==
  ASSUME Passing, NEW r \in Reapers, ReapDisk(r)
  PROVE  /\ Swept(r, "disk", "disk", "row")
         /\ "disk" \in host'[reaper[r].id] =>
              <<reaper[r].id, "disk">> \in reaper'[r].left
<1> DEFINE i == reaper[r].id
<1>1. /\ i \in Ids /\ TypeOK /\ reaper[r].pc = "disk"
      /\ host \in [Ids -> SUBSET Resources]
  BY DEF Passing, Resumed, Working, Linked, ServiceTypeOK, TypeOK, ReapDisk,
         ReapAt
<1>2. PICK ok \in BOOLEAN :
        /\ IF "disk" \in host[i] THEN Removal(i, "disk", "reap", ok)
           ELSE ok /\ UNCHANGED host
        /\ ReapStep(r, "disk", "row", ok)
  BY DEF ReapDisk
<1>3. /\ Sole(r) /\ reaper'[r].pc = "row" /\ reaper'[r].id = i
      /\ reaper'[r].todo = reaper[r].todo /\ reaper'[r].vm = reaper[r].vm
      /\ reaper'[r].switch = reaper[r].switch
      /\ reaper[r].left \subseteq reaper'[r].left
      /\ ~ok => <<i, "disk">> \in reaper'[r].left
  BY <1>1, <1>2, NoteStep DEF Resources
<1>4. /\ host' \in [Ids -> SUBSET Resources]
      /\ \A j \in Ids \ {i} : host'[j] = host[j]
      /\ host'[i] \subseteq host[i]
      /\ ok => "disk" \notin host'[i]
  <2>1. CASE "disk" \in host[i]
    <3>1. Removal(i, "disk", "reap", ok)
      BY <1>2, <2>1
    <3> HIDE DEF i
    <3> QED BY <1>1, <1>2, <3>1, RemovalHost, RemovalType
  <2>2. CASE "disk" \notin host[i]
    BY <1>1, <1>2, <2>2
  <2> QED BY <2>1, <2>2
<1>5. row' = row /\ SameTraces
  BY <1>2 DEF ReapStep
<1> QED BY <1>1, <1>3, <1>4, <1>5 DEF Swept

\* what may differ after a step of reaper r
ReaperShape(r) ==
  /\ Sole(r) /\ SameService
  /\ host' \in [Ids -> SUBSET Resources] /\ row' \in [Ids -> Record]
  /\ \A i \in Ids : host'[i] = host[i] \/ (host'[i] \subseteq host[i] /\ Held(r, i))
  /\ \A i \in Ids : \/ row'[i] = row[i]
                    \/ row'[i] = NoRow /\ Held(r, i) /\ ~Held(r, i)'
  /\ \A i \in Ids :
       Held(r, i)' => \/ Held(r, i)
                      \/ row[i].state \in Reapable /\ (AgeGate => ~Serving(i))
  /\ Resumed(r)' /\ warned' \subseteq Trace /\ dropped' \subseteq Trace

LEMMA SweptShape ==
  ASSUME Passing, NEW r \in Reapers, NEW res, NEW from \in {"vm", "switch", "disk"},
         NEW to \in {"switch", "disk", "row"}, Swept(r, res, from, to), SameService
  PROVE  ReaperShape(r)
<1> DEFINE i == reaper[r].id
<1>1. /\ i \in Ids /\ reaper[r].pc \in Working /\ reaper'[r].pc \in Working
      /\ reaper'[r].id = i /\ reaper'[r].todo = reaper[r].todo /\ Held(r, i)
      /\ reaper'[r].pc # "idle"
  BY DEF Swept, Working, Held
<1>2. Resumed(r)'
  BY <1>1 DEF Passing, Resumed
<1>3. \A j \in Ids : Held(r, j)' => Held(r, j)
  BY <1>1 DEF Held
<1>4. row' \in [Ids -> Record] /\ row' = row
  BY DEF Swept, Passing, Linked, ServiceTypeOK, TypeOK
<1>5. warned' \subseteq Trace /\ dropped' \subseteq Trace
  BY DEF Swept, SameTraces, Existing, Passing
<1>6. \A j \in Ids : host'[j] = host[j] \/ (host'[j] \subseteq host[j] /\ Held(r, j))
  BY <1>1 DEF Swept
<1> QED BY <1>2, <1>3, <1>4, <1>5, <1>6 DEF ReaperShape, Swept

LEMMA ReaperShaped ==
  ASSUME Passing, NEW r \in Reapers, ReaperStep(r)
  PROVE  ReaperShape(r)
<1>1. /\ SameService /\ host \in [Ids -> SUBSET Resources]
      /\ row \in [Ids -> Record] /\ warned \subseteq Trace /\ dropped \subseteq Trace
      /\ Resumed(r)
  BY DEF ReaperStep, ReapList, ReapLoad, ReapVm, ReapSwitch, ReapDisk, ReapRow,
         ReapReport, CrashReaper, ReapStep, Passing, Linked, ServiceTypeOK, TypeOK
<1>2. CASE ReapList(r)
  <2>1. /\ Sole(r) /\ reaper'[r].pc = "next"
        /\ \A i \in reaper'[r].todo :
             row[i].state \in Reapable /\ (AgeGate => ~Serving(i))
        /\ UNCHANGED <<host, row, warned, dropped>>
    BY <1>2, ListStep
  <2>2. \A i \in Ids :
          Held(r, i)' => row[i].state \in Reapable /\ (AgeGate => ~Serving(i))
    BY <2>1 DEF Held, Working
  <2>3. Resumed(r)'
    BY <2>1 DEF Resumed, Working
  <2> QED BY <1>1, <2>1, <2>2, <2>3 DEF ReaperShape
<1>3. CASE ReapLoad(r)
  <2>1. /\ Sole(r) /\ reaper[r].pc = "next" /\ reaper'[r].pc = "vm"
        /\ reaper'[r].id \in reaper[r].todo
        /\ reaper'[r].todo = reaper[r].todo \ {reaper'[r].id}
        /\ UNCHANGED <<host, row, warned, dropped>>
    BY <1>3, LoadStep
  <2>2. \A i \in Ids : Held(r, i)' => Held(r, i)
    BY <2>1 DEF Held
  <2>3. reaper[r].todo \subseteq Ids
    BY DEF Passing, Pass
  <2>4. Resumed(r)'
    BY <2>1, <2>3 DEF Resumed, Working
  <2> QED BY <1>1, <2>1, <2>2, <2>4 DEF ReaperShape
<1>4. CASE ReapVm(r)
  BY <1>1, <1>4, VmStep, SweptShape
<1>5. CASE ReapSwitch(r)
  BY <1>1, <1>5, SwitchStep, SweptShape
<1>6. CASE ReapDisk(r)
  BY <1>1, <1>6, DiskStep, SweptShape
<1>7. CASE ReapRow(r)
  <2>0. PICK j : j = reaper[r].id
    OBVIOUS
  <2>1. /\ Sole(r) /\ reaper[r].pc = "row" /\ reaper'[r].pc = "next"
        /\ reaper'[r].todo = reaper[r].todo
        /\ UNCHANGED <<host, warned, dropped>>
        /\ row' = row \/ row' = [row EXCEPT ![j] = NoRow]
    BY <1>7, <2>0, RowStep
  <2>2. j \in Ids \ reaper[r].todo
    BY <1>1, <2>0, <2>1 DEF Resumed, Working
  <2>3. /\ \A i \in Ids : Held(r, i)' => Held(r, i)
        /\ Held(r, j) /\ ~Held(r, j)'
    BY <2>0, <2>1, <2>2 DEF Held, Working
  <2>4. /\ row' \in [Ids -> Record]
        /\ \A i \in Ids : row'[i] = row[i] \/ (i = j /\ row'[i] = NoRow)
    BY <1>1, <2>1, <2>2, Constants
  <2>5. Resumed(r)'
    BY <2>1 DEF Resumed, Working
  <2> QED BY <1>1, <2>1, <2>3, <2>4, <2>5 DEF ReaperShape
<1>8. CASE ReapReport(r) \/ CrashReaper(r)
  <2>1. /\ Sole(r) /\ reaper'[r] = NoPass /\ UNCHANGED <<host, row>>
        /\ warned' \subseteq Trace /\ dropped' \subseteq Trace
    BY <1>8, OverStep
  <2>2. Resumed(r)' /\ \A i \in Ids : ~Held(r, i)'
    BY <2>1 DEF Resumed, Held, NoPass, Working
  <2> QED BY <1>1, <2>1, <2>2 DEF ReaperShape
<1> QED
  BY <1>2, <1>3, <1>4, <1>5, <1>6, <1>7, <1>8 DEF ReaperStep

-----------------------------------------------------------------------------
(* The types.                                                               *)

LEMMA ReaperLinked ==
  ASSUME Passing, NEW r \in Reapers, ReaperStep(r), Others
  PROVE  Passing'
<1>1. ReaperShape(r)
  BY ReaperShaped
<1>2. UNCHANGED <<state, inst, idOf, frame, registry, req>>
  BY <1>1 DEF ReaperShape, SameService
<1>3. TypeOK'
  BY <1>1, <1>2 DEF ReaperShape, Passing, Linked, ServiceTypeOK, TypeOK
<1>4. ServiceTypeOK'
  BY <1>2, <1>3, OthersType DEF Passing, Linked, ServiceTypeOK
<1>5. \A i \in Ids : row'[i].state = "none" => row'[i] = NoRow
  BY <1>1 DEF ReaperShape, Passing, Linked
<1>6. Linked'
  BY <1>2, <1>4, <1>5
  DEF Passing, Linked, LinkedTo, Self, Unused, Reached, Pristine
<1>7. \A s \in Reapers : Resumed(s)'
  BY <1>1 DEF ReaperShape, Sole, Passing, Resumed
<1> QED BY <1>1, <1>6, <1>7 DEF Passing, ReaperShape, Sole

LEMMA PassingNext ==
  ASSUME Passing, ReaperNext
  PROVE  Passing'
<1>1. CASE ServiceNext /\ UNCHANGED reaper /\ SameTraces
  <2>1. Linked'
    BY <1>1, NextLinked DEF Passing
  <2>2. warned' \subseteq Trace /\ dropped' \subseteq Trace
    BY <1>1 DEF SameTraces, Existing, Passing
  <2> QED BY <1>1, <2>1, <2>2 DEF Passing, Resumed
<1> QED BY <1>1, ReaperLinked DEF ReaperNext

LEMMA PassingInvariant == ReaperSpec => []Passing
<1>1. ReaperInit => Passing
  BY InitLinked, NoPassType
  DEF ReaperInit, Passing, Resumed, Working, Trace
<1>2. Passing /\ [ReaperNext]_reapAllVars => Passing'
  <2>1. ASSUME Passing, UNCHANGED reapAllVars PROVE Passing'
    BY <2>1, StutterLinked DEF reapAllVars, reaperVars, Passing, Resumed
  <2> QED BY <2>1, PassingNext
<1> QED BY <1>1, <1>2, PTL DEF ReaperSpec

\* The reaper's state has its type beside any requests, crashes and failures,
\* and the record a pass works on is one it will not come back to.
THEOREM ReaperTypeCorrect == ReaperSpec => []ReaperTypeOK
<1>1. Passing => ReaperTypeOK
  <2> SUFFICES ASSUME Passing PROVE ReaperTypeOK
    OBVIOUS
  <2>1. ASSUME NEW r \in Reapers, reaper[r].pc \notin {"idle", "next"}
        PROVE  reaper[r].id \in Ids \ reaper[r].todo
    BY <2>1 DEF Passing, Resumed, Working, Pass
  <2> QED BY <2>1 DEF Passing, Linked, ReaperTypeOK
<1> QED BY <1>1, PassingInvariant, PTL

-----------------------------------------------------------------------------
(* What the pass may rely on.  A record that is hours old has no request at *)
(* work on it when it is listed, and nothing wakes it up later: create      *)
(* refuses an identifier with a row, and the other requests go by a bunker  *)
(* in memory that says what the row says.                                   *)

\* one reaper, that selects by age, beside the API, over a store that saves
Regular ==
  /\ \A r, s \in Reapers : r = s
  /\ AgeGate
  /\ Commands \subseteq ApiCommands
  /\ "persist" \notin Faults

Claimed(i) == \E r \in Reapers : Held(r, i)

\* what a pass works on is reapable, and no method is at work on it
Sheltered(i) ==
  Claimed(i) => /\ row[i].state \in Reapable
                /\ \A t \in Threads :
                     req[t].pc \in {"call", "rollback"} => req[t].id # i

\* bunker o is what the row of i says
Alike(o, i) ==
  /\ state[o] = row[i].state
  /\ state[o] # "INITIALIZING" =>
       inst[o].vm = row[i].vm /\ inst[o].switch = row[i].switch

\* bunker o is what a reaper leaves: its row is gone, and no request wants it
Orphan(o, i) == state[o] \in Reapable /\ row[i] = NoRow

Creating(t) == req[t].cmd = "create" /\ req[t].pc \in {"call", "rollback"}

Agreed(i) ==
  registry[i] # NoObject =>
    \/ Alike(registry[i], i)
    \/ /\ state[registry[i]] \in Reapable
       /\ row[i] = NoRow \/ \E t \in Threads : Creating(t) /\ req[t].id = i

\* a request has the bunker of the registry, or makes a new one
Mirrored(t) ==
  LET o == req[t].o
      i == req[t].id IN
  /\ req[t].pc = "register" => Alike(o, i) \/ Orphan(o, i)
  /\ req[t].pc = "check" => registry[i] = o
  /\ req[t].pc = "call" /\ ~Creating(t) => registry[i] = o /\ Alike(o, i)
  /\ Creating(t) =>
       /\ registry[i] # o
       /\ registry[i] # NoObject => state[registry[i]] \in Reapable
       /\ frame[t].pc = "init_begin" => row[i] = NoRow
       /\ frame[t].pc # "init_begin" => Alike(o, i)

Running(i) == row[i].state \in {"READY", "ACTIVE"} => "vm" \in host[i]

Making(t) ==
  frame[t].pc \in {"init_guest", "init_ready"} => "vm" \in host[req[t].id]

Watched ==
  /\ Passing
  /\ \A t \in Threads : Orderly(t) /\ Mirrored(t) /\ Making(t)
  /\ \A i \in Ids : Sheltered(i) /\ Agreed(i) /\ Running(i)

\* the requests of the API, and what they call
LEMMA ApiOnly ==
  ASSUME Linked, Regular, NEW t \in Threads
  PROVE  /\ req[t].cmd \in ApiCommands \cup {"none"} /\ req[t].pc # "call2"
         /\ ~Serves(t, CliCommands)
         /\ req[t].pc # "idle" => Serves(t, ApiCommands)
<1>1. req[t] \in Request /\ req[t].cmd \in CommandsAt(req[t].pc)
  BY DEF Linked, LinkedTo, ServiceTypeOK
<1>2. req[t].cmd \in ApiCommands \cup {"none"}
  BY <1>1 DEF Request, Regular
<1>3. req[t].pc # "call2" /\ ~Serves(t, CliCommands)
  BY <1>1, <1>2 DEF CommandsAt, ApiCommands, CliCommands, Serves
<1>4. req[t].pc # "idle" => req[t].cmd # "none"
  BY <1>1
  DEF Request, ReqPcs, CommandsAt, ApiCommands, CliCommands, LookupCommands
<1> QED BY <1>2, <1>3, <1>4 DEF Serves

-----------------------------------------------------------------------------
(* A step of a method.                                                      *)

LEMMA TransitsAlike ==
  ASSUME TypeOK, NEW o \in Objects, NEW i \in Ids, idOf[o] = i, Transits(o),
         "persist" \notin Faults
  PROVE  Alike(o, i)' /\ state'[o] # state[o]
<1>1. /\ inst' = inst /\ state'[o] # state[o]
      /\ row'[i] = [state |-> state'[o], vm |-> inst[o].vm,
                    switch |-> inst[o].switch]
  BY TransitsRow
<1>2. /\ row'[i].state = state'[o] /\ row'[i].vm = inst[o].vm
      /\ row'[i].switch = inst[o].switch
  BY <1>1
<1> QED BY <1>1, <1>2 DEF Alike

\* a method keeps the bunker what its row says, and initialize makes it so
LEMMA AlikeStep ==
  ASSUME Linked, AllAnswers, Regular, NEW t \in Threads, NEW o \in Objects,
         NEW i \in Ids, o = req[t].o, i = req[t].id, MethodStep(t),
         MethodShape(t), Orderly(t), frame[t].pc # "init_begin" => Alike(o, i)
  PROVE  Alike(o, i)' /\ frame'[t].pc # "init_begin"
<1>0. /\ TypeOK /\ Self(t) = o /\ idOf[o] = i /\ frame[t].pc # "idle"
      /\ "persist" \notin Faults /\ Doing(t)
  BY DEF Linked, ServiceTypeOK, MethodShape, Regular, Orderly
<1>1. CASE Initializing(t) /\ InitStep(t)
  <2>1. InitPhase(t, o) /\ frame[t].pc \in InitPcs
    BY <1>0, <1>1 DEF Doing
  <2>2. frame'[t].pc # "init_begin"
    BY <1>0, <1>1, <2>1, InitPhaseStep
  <2>3. CASE Transits(o)
    BY <1>0, <2>2, <2>3, TransitsAlike
  <2>4. CASE ~Transits(o)
    <3>1. /\ frame[t].pc \in InitPcs \ {"init_begin", "init_ready", "init_error"}
          /\ UNCHANGED <<state, row>>
      BY <1>0, <1>1, <2>1, <2>4, InitMoves
    <3>2. state[o] = "INITIALIZING" /\ Alike(o, i)
      BY <2>1, <3>1 DEF InitPhase
    <3> QED BY <2>2, <3>1, <3>2 DEF Alike
  <2> QED BY <2>3, <2>4
<1>2. CASE (Activating(t) /\ ActStep(t)) \/ (Stopping(t) /\ TermStep(t))
  <2>1. frame[t].pc \in ActPcs \cup TermPcs
    BY <1>0, <1>2 DEF Doing
  <2>2. Alike(o, i)
    BY <2>1 DEF ActPcs, TermPcs
  <2>3. frame'[t].pc # "init_begin"
    <3>1. Doing(t)' /\ req' = req
      BY <1>0, DoingStep DEF MethodShape
    <3> QED
      BY <1>2, <3>1 DEF Doing, Activating, Stopping, ActPcs, TermPcs
  <2>4. CASE Transits(o)
    BY <1>0, <2>3, <2>4, TransitsAlike
  <2>5. CASE ~Transits(o)
    <3>1. UNCHANGED <<state, row>>
      BY <2>5 DEF MethodShape
    <3>2. inst'[o].vm = inst[o].vm /\ inst'[o].switch = inst[o].switch
      BY <1>0, <1>2, ActKeeps, TermKeeps
    <3> QED BY <2>2, <2>3, <3>1, <3>2 DEF Alike
  <2> QED BY <2>4, <2>5
<1> QED BY <1>0, <1>1, <1>2, DoingStep

\* on the way to READY the VM is there
LEMMA MakingStep ==
  ASSUME TypeOK, NEW t \in Threads, NEW o \in Objects, Self(t) = o,
         InitStep(t), frame'[t].pc \in {"init_guest", "init_ready"}, Making(t),
         req[t].id = idOf[o], req' = req
  PROVE  Making(t)'
<1> USE DEF At, Self, Goto
<1>0. /\ frame \in [Threads -> Frame] /\ idOf[o] \in Ids
      /\ host \in [Ids -> SUBSET Resources]
  BY DEF TypeOK
<1>1. CASE InitVm(t)
  <2>1. PICK disk \in SUBSET {"disk"} :
          \/ host' = [host EXCEPT ![idOf[o]] = @ \cup {"vm"} \cup disk]
          \/ frame' = [frame EXCEPT ![t].pc = "clean_vm"]
    BY <1>1 DEF InitVm
  <2> QED BY <1>0, <2>1 DEF Making, Frame
<1>2. CASE InitGuest(t)
  BY <1>2 DEF InitGuest, Making
<1>3. CASE ~InitVm(t) /\ ~InitGuest(t)
  <2>1. CASE InitReady(t) \/ InitError(t)
    <3>1. \/ frame' = [frame EXCEPT ![t].pc = "clean_vm"]
          \/ \E r : Return(t, r)
      BY <2>1 DEF InitReady, InitError, LastTransition
    <3> QED BY <1>0, <3>1 DEF Return, Idle, Frame
  <2>2. CASE ~InitReady(t) /\ ~InitError(t)
    <3>1. \E l \in InitPcs \ {"init_guest", "init_ready"} :
            \/ frame' = [frame EXCEPT ![t].pc = l]
            \/ frame' = [frame EXCEPT ![t].pc = l, ![t].ok = FALSE]
      BY <1>3, <2>2
      DEF InitStep, InitBegin, InitRaise, InitVerify, InitSwitch,
          CleanVm, CleanSwitch, CleanDisk, Transition, InitPcs
    <3> QED BY <1>0, <3>1 DEF Frame
  <2> QED BY <2>1, <2>2
<1> QED BY <1>1, <1>2, <1>3

\* a terminate that moves the bunker ends it, and removes what is on the host
\* only after that
LEMMA StopMoves ==
  ASSUME TypeOK, NEW t \in Threads, NEW o \in Objects, Self(t) = o,
         TermStep(t), StopPhase(t, o)
  PROVE  /\ state'[o] # state[o] => state'[o] \notin {"READY", "ACTIVE"}
         /\ state[o] \in {"READY", "ACTIVE"} => host' = host
<1> USE DEF At, Self
<1>0. state \in [Objects -> States!BunkerState]
  BY DEF TypeOK
<1>1. CASE TermCheck(t) \/ TermBegin(t) \/ TermError(t)
  <2>1. TransitionTo(o, "TERMINATING") \/ TransitionTo(o, "ERROR") \/ state' = state
    BY <1>1 DEF TermCheck, TermBegin, TermError, Transition, LastTransition
  <2>2. host' = host
    BY <1>1 DEF TermCheck, TermBegin, TermError
  <2> QED BY <1>0, <2>1, <2>2 DEF TransitionTo, States!Move
<1>2. CASE TermStop(t) \/ TermLayers(t) \/ TermPower(t)
  BY <1>2 DEF TermStop, TermLayers, TermPower
<1>3. CASE TermDecon(t)
  <2>1. TransitionTo(o, "DECONTAMINATING") \/ state' = state
    BY <1>3 DEF TermDecon
  <2> QED BY <1>0, <1>3, <2>1 DEF TermDecon, TransitionTo, States!Move
<1>4. CASE \/ DeconPower(t) \/ DeconDisk(t) \/ DeconSwitch(t) \/ DeconVm(t)
           \/ DeconVerify(t)
  <2>1. state' = state
    BY <1>4
    DEF DeconPower, DeconDisk, DeconSwitch, DeconVm, DeconVerify, DeconStep
  <2>2. state[o] = "DECONTAMINATING"
    BY <1>4
    DEF DeconPower, DeconDisk, DeconSwitch, DeconVm, DeconVerify, StopPhase,
        TermPcs, Down
  <2> QED BY <2>1, <2>2
<1>5. CASE TermEnd(t)
  <2>1. TransitionTo(o, "DESTROYED") \/ TransitionTo(o, "ERROR") \/ state' = state
    BY <1>5 DEF TermEnd
  <2> QED BY <1>0, <1>5, <2>1 DEF TermEnd, TransitionTo, States!Move
<1> QED BY <1>1, <1>2, <1>3, <1>4, <1>5 DEF TermStep

\* a method that leaves its bunker READY or ACTIVE leaves it its VM
LEMMA RunningStep ==
  ASSUME Linked, AllAnswers, Regular, NEW t \in Threads, NEW o \in Objects,
         NEW i \in Ids, o = req[t].o, i = req[t].id, MethodStep(t),
         MethodShape(t), Orderly(t), frame[t].pc # "init_begin" => Alike(o, i),
         Making(t), Running(i)
  PROVE  Running(i)' /\ Making(t)'
<1>0. /\ TypeOK /\ Self(t) = o /\ idOf[o] = i /\ frame[t].pc # "idle"
      /\ Doing(t) /\ req' = req
  BY DEF Linked, ServiceTypeOK, MethodShape, Orderly
<1>a. Alike(o, i)' /\ state'[o] = row'[i].state
  BY AlikeStep DEF Alike
<1>1. CASE Initializing(t) /\ InitStep(t)
  <2>1. InitPhase(t, o) /\ frame[t].pc \in InitPcs
    BY <1>0, <1>1 DEF Doing
  <2>2. Making(t)'
    <3>1. CASE frame'[t].pc \in {"init_guest", "init_ready"}
      BY <1>0, <1>1, <3>1, MakingStep
    <3> QED BY <3>1 DEF Making
  <2>3. Running(i)'
    <3>1. CASE frame[t].pc = "init_ready" /\ Transits(o)
      BY <1>0, <3>1 DEF Making, Running, Transits
    <3>2. CASE state'[o] \in {"INITIALIZING", "ERROR"}
      BY <1>a, <3>2 DEF Running
    <3>3. CASE /\ frame[t].pc \in InitPcs \ {"init_begin", "init_ready", "init_error"}
               /\ UNCHANGED <<state, row>>
      BY <1>a, <2>1, <3>3 DEF Running, InitPhase
    <3> QED BY <1>0, <1>1, <2>1, <3>1, <3>2, <3>3, InitMoves
  <2> QED BY <2>2, <2>3
<1>2. CASE (Activating(t) /\ ActStep(t)) \/ (Stopping(t) /\ TermStep(t))
  <2>1. frame[t].pc \in ActPcs \cup TermPcs
    BY <1>0, <1>2 DEF Doing
  <2>2. Alike(o, i) /\ state[o] = row[i].state
    BY <2>1 DEF ActPcs, TermPcs, Alike
  <2>3. Making(t)'
    <3>1. Doing(t)'
      BY <1>0, DoingStep
    <3>2. frame'[t].pc \notin {"init_guest", "init_ready"}
      BY <1>0, <1>2, <3>1
      DEF Doing, Activating, Stopping, ActPcs, TermPcs
    <3> QED BY <3>2 DEF Making
  <2>4. Running(i)'
    <3>1. CASE Activating(t) /\ ActStep(t)
      <4>1. host' = host /\ ActPhase(t, o)
        BY <1>0, <3>1, ActKeeps DEF Doing
      <4>2. frame[t].pc \in ActPcs
        BY <1>0, <3>1 DEF Doing
      <4>3. state[o] \in {"READY", "ACTIVE"}
        BY <4>1, <4>2 DEF ActPhase
      <4> QED BY <2>2, <4>1, <4>3 DEF Running
    <3>2. CASE Stopping(t) /\ TermStep(t)
      <4>1. StopPhase(t, o)
        BY <1>0, <3>2 DEF Doing
      <4>2. /\ state'[o] # state[o] => state'[o] \notin {"READY", "ACTIVE"}
            /\ state[o] \in {"READY", "ACTIVE"} => host' = host
        BY <1>0, <3>2, <4>1, StopMoves
      <4> QED BY <1>a, <2>2, <4>2 DEF Running
    <3> QED BY <1>2, <3>1, <3>2
  <2> QED BY <2>3, <2>4
<1> QED BY <1>0, <1>1, <1>2, DoingStep

\* what a step leaves of a bunker it is not about
LEMMA Apart ==
  ASSUME Linked, NEW j \in Ids,
         row'[j] = row[j], host'[j] = host[j], registry'[j] = registry[j],
         registry[j] # NoObject => Kept(registry[j]),
         \A u \in Threads :
           /\ Creating(u) /\ req[u].id = j => req'[u] = req[u]
           /\ req'[u].pc \in {"call", "rollback"} /\ req'[u].id = j =>
                req'[u] = req[u],
         reaper' = reaper, Sheltered(j), Agreed(j), Running(j)
  PROVE  Sheltered(j)' /\ Agreed(j)' /\ Running(j)'
<1>1. Sheltered(j)'
  BY DEF Sheltered, Claimed, Held
<1>2. Agreed(j)'
  <2>0. PICK p : p = registry[j] /\ p = registry'[j]
    OBVIOUS
  <2>1. CASE p = NoObject
    BY <2>0, <2>1 DEF Agreed
  <2>2. CASE p # NoObject /\ Alike(p, j)
    BY <2>0, <2>2 DEF Agreed, Alike, Kept
  <2>3. CASE p # NoObject /\ state[p] \in Reapable /\ row[j] = NoRow
    BY <2>0, <2>3 DEF Agreed, Kept
  <2>4. ASSUME p # NoObject, state[p] \in Reapable, NEW u \in Threads, Creating(u),
               req[u].id = j
        PROVE  Agreed(j)'
    BY <2>0, <2>4 DEF Agreed, Kept, Creating
  <2> QED BY <2>0, <2>1, <2>2, <2>3, <2>4 DEF Agreed
<1>3. Running(j)'
  BY DEF Running
<1> QED BY <1>1, <1>2, <1>3

\* and of the other requests
LEMMA MirrorKept ==
  ASSUME Linked, NEW u \in Threads, req'[u] = req[u], frame'[u] = frame[u],
         Mirrored(u), Making(u),
         req[u].pc # "idle" =>
           /\ host'[req[u].id] = host[req[u].id] /\ row'[req[u].id] = row[req[u].id]
           /\ registry'[req[u].id] = registry[req[u].id]
           /\ registry[req[u].id] # NoObject => Kept(registry[req[u].id]),
         req[u].pc \in HasObject => Kept(req[u].o)
  PROVE  Mirrored(u)' /\ Making(u)'
<1> DEFINE o == req[u].o
           i == req[u].id
<1>1. req'[u].o = o /\ req'[u].id = i
  OBVIOUS
<1>2. CASE req[u].pc = "idle"
  <2>1. frame[u].pc = "idle"
    BY <1>2 DEF Linked, ServiceTypeOK
  <2> QED BY <1>2, <2>1 DEF Mirrored, Making, Creating
<1>3. CASE req[u].pc # "idle"
  <2>1. Making(u)'
    BY <1>3 DEF Making
  <2>2. Mirrored(u)'
    BY <1>3 DEF Mirrored, Creating, Alike, Orphan, Kept, HasObject
  <2> QED BY <2>1, <2>2
<1> QED BY <1>2, <1>3

LEMMA MethodWatched ==
  ASSUME Watched, Serialized, Regular, NEW t \in Threads, MethodStep(t),
         MethodRemembers(t), reaper' = reaper, Passing'
  PROVE  Watched'
<1>0. /\ Linked /\ Orderly(t) /\ Mirrored(t) /\ Making(t) /\ AllAnswers
      /\ NoObject \notin Objects
  BY AllTold, BunkerAssumption DEF Watched, Passing, BunkerAssumption
<1>1. MethodShape(t)
  BY <1>0, MethodShaped
<1>2. PICK o \in Objects, i \in Ids : o = req[t].o /\ i = req[t].id
  BY <1>1 DEF MethodShape
<1>3. /\ req' = req /\ registry' = registry /\ idOf' = idOf
      /\ frame[t].pc # "idle" /\ req[t].pc = "call" /\ idOf[o] = i
      /\ \A u \in Threads \ {t} : frame'[u] = frame[u]
      /\ \A p \in Objects \ {o} : Kept(p)
      /\ \A j \in Ids \ {i} : host'[j] = host[j] /\ row'[j] = row[j]
  BY <1>0, <1>1, <1>2, ApiOnly DEF MethodShape, Footprint, Kept
<1>4. frame[t].pc # "init_begin" => Alike(o, i)
  <2>1. CASE Creating(t)
    BY <1>0, <1>2, <2>1 DEF Mirrored
  <2>2. CASE ~Creating(t)
    BY <1>0, <1>2, <1>3, <2>2 DEF Mirrored
  <2> QED BY <2>1, <2>2
<1>5. /\ Alike(o, i)' /\ frame'[t].pc # "init_begin"
      /\ Running(i)' /\ Making(t)'
  <2>1. Running(i)
    BY DEF Watched
  <2> QED BY <1>0, <1>1, <1>2, <1>4, <2>1, AlikeStep, RunningStep
<1>6. ASSUME NEW j \in Ids \ {i} PROVE Sheltered(j)' /\ Agreed(j)' /\ Running(j)'
  <2>1. registry[j] # NoObject => Kept(registry[j])
    BY <1>0, <1>3 DEF Linked, ServiceTypeOK
  <2>2. Sheltered(j) /\ Agreed(j) /\ Running(j)
    BY DEF Watched
  <2> QED BY <1>0, <1>3, <2>1, <2>2, Apart
<1>7. ASSUME NEW u \in Threads \ {t}
      PROVE  Orderly(u)' /\ Mirrored(u)' /\ Making(u)'
  <2>1. req[u].pc # "idle" => req[u].id \in Ids /\ req[u].id # i
    BY <1>0, <1>2, <1>3, Elsewhere
  <2>2. req[u].pc \in HasObject => req[u].o \in Objects /\ req[u].o # o
    BY <1>0, <1>2, <1>3, Elsewhere DEF HasObject
  <2>3. req[u].pc # "idle" /\ registry[req[u].id] # NoObject =>
          Kept(registry[req[u].id])
    BY <1>0, <1>3, <2>1 DEF Linked, ServiceTypeOK
  <2>4. Orderly(u) /\ Mirrored(u) /\ Making(u)
    BY DEF Watched
  <2>5. Orderly(u)'
    BY <1>0, <1>3, <2>2, <2>4, OrderlyKept DEF Kept
  <2>6. Mirrored(u)' /\ Making(u)'
    BY <1>0, <1>3, <2>1, <2>2, <2>3, <2>4, MirrorKept
  <2> QED BY <2>5, <2>6
<1>8. Orderly(t)'
  BY <1>0, <1>1, OrderlyStep
<1>9. Mirrored(t)' /\ Agreed(i)'
  <2>1. CASE Creating(t)
    <3>1. /\ registry[i] # o
          /\ registry[i] # NoObject => state[registry[i]] \in Reapable
      BY <1>0, <1>2, <2>1 DEF Mirrored
    <3>2. registry[i] # NoObject => state'[registry[i]] \in Reapable
      BY <1>0, <1>3, <3>1 DEF Linked, ServiceTypeOK, Kept
    <3>3. Creating(t)' /\ req'[t].id = i
      BY <1>2, <1>3, <2>1 DEF Creating
    <3>4. Agreed(i)'
      BY <1>3, <3>2, <3>3 DEF Agreed
    <3>5. Mirrored(t)'
      BY <1>2, <1>3, <1>5, <3>1, <3>2, <3>3 DEF Mirrored, Creating
    <3> QED BY <3>4, <3>5
  <2>2. CASE ~Creating(t)
    <3>1. registry[i] = o
      BY <1>0, <1>2, <1>3, <2>2 DEF Mirrored
    <3>2. ~Creating(t)'
      BY <1>3, <2>2 DEF Creating
    <3> QED BY <1>2, <1>3, <1>5, <3>1, <3>2 DEF Mirrored, Agreed
  <2> QED BY <2>1, <2>2
<1>10. Sheltered(i)'
  <2>1. ~Claimed(i)
    BY <1>2, <1>3 DEF Watched, Sheltered
  <2> QED BY <2>1 DEF Sheltered, Claimed, Held
<1> QED BY <1>5, <1>6, <1>7, <1>8, <1>9, <1>10 DEF Watched

-----------------------------------------------------------------------------
(* A step of a request outside the methods.                                 *)

\* the bunker is looked up in the registry
Looked(t) ==
  /\ req[t].pc = "lookup" /\ req'[t].id = req[t].id
  /\ req'[t].pc \in {"load", "check"}
  /\ req'[t].pc = "check" => req'[t].o = registry[req[t].id]
  /\ frame'[t].pc = "idle" /\ UNCHANGED <<row, registry>>

\* the restored bunker is put into the registry
Filed(t) ==
  /\ req[t].pc = "register" /\ req[t].o \in Objects
  /\ req'[t].pc = "check" /\ req'[t].id = req[t].id /\ req'[t].o = req[t].o
  /\ frame'[t].pc = "idle" /\ row' = row
  /\ registry' = [registry EXCEPT ![req[t].id] = req[t].o]

\* the request is over: as nothing, with a new bunker, or rolled back
Over(t) ==
  /\ req'[t] = NoRequest /\ frame'[t] = Idle
  /\ \/ ~Creating(t) /\ UNCHANGED <<row, registry>>
     \/ /\ Creating(t) /\ frame[t].pc = "idle" /\ row' = row
        /\ req[t].o \in Objects
        /\ registry' = [registry EXCEPT ![req[t].id] = req[t].o]
     \/ /\ Creating(t) /\ req[t].pc = "rollback" /\ registry' = registry
        /\ row' = [row EXCEPT ![req[t].id] = NoRow]

LEMMA FinishOver ==
  ASSUME Linked, NEW t \in Threads, NEW reg, FinishWith(t, reg)
  PROVE  /\ req'[t] = NoRequest /\ frame'[t] = Idle /\ registry' = reg
BY DEF FinishWith, Linked, ServiceTypeOK, TypeOK

LEMMA RequestMoves ==
  ASSUME Linked, Regular, NEW t \in Threads, RequestStep(t)
  PROVE  /\ req[t].pc # "idle"
         /\ \/ Constructed(t) /\ req[t].cmd = "create"
            \/ Restored(t) /\ req'[t].pc = "register"
            \/ Entered(t) /\ req[t].cmd \in {"start", "stop", "activate"}
            \/ Failed(t) \/ Looked(t) \/ Filed(t) \/ Over(t)
<1>0. /\ req[t].cmd \in ApiCommands \cup {"none"} /\ req[t].pc # "call2"
      /\ req \in [Threads -> Request] /\ LinkedTo(t)
      /\ req[t].cmd \in CommandsAt(req[t].pc)
  BY ApiOnly DEF Linked, ServiceTypeOK, LinkedTo
<1>1. Served(t)
  BY RequestServed
<1>2. CASE CreateExists(t)
  <2>1. req[t].pc = "exists" /\ req[t].cmd = "create"
    BY <1>0, <1>2 DEF CreateExists, ReqAt, CommandsAt
  <2>2. CASE Finish(t) /\ UNCHANGED <<host, row>>
    BY <2>1, <2>2, FinishOver DEF Finish, Over, Creating
  <2>3. CASE row[req[t].id] = NoRow /\ \E o \in Objects : Construct(t, o)
    <3>1. req'[t].pc = "call" /\ frame'[t].pc = "init_begin"
      BY <1>0, <2>3
      DEF Construct, Enter, Linked, ServiceTypeOK, TypeOK, Idle
    <3>2. ~Quiet(t) /\ ~Failed(t) /\ ~Entered(t) /\ ~Restored(t)
      BY <2>1, <3>1 DEF Quiet, Failed, Entered, Restored
    <3> QED BY <1>1, <2>1, <3>2 DEF Served, Passed
  <2> QED BY <1>2, <2>2, <2>3 DEF CreateExists
<1>3. CASE CreateAnswered(t)
  <2>1. /\ req[t].pc = "call" /\ frame[t].pc = "idle" /\ req[t].cmd = "create"
        /\ req[t].o \in Objects
    BY <1>0, <1>3 DEF CreateAnswered, ReqAt, At, LinkedTo, HasObject
  <2>2. CASE /\ FinishWith(t, [registry EXCEPT ![req[t].id] = req[t].o])
             /\ UNCHANGED <<host, row>>
    BY <2>1, <2>2, FinishOver DEF Over, Creating
  <2>3. CASE /\ frame[t].result # "true" /\ ReqGoto(t, "rollback")
             /\ Same /\ UNCHANGED <<frame, registry>>
    BY <2>1, <2>3 DEF Failed, ReqGoto, Same
  <2> QED BY <1>3, <2>1, <2>2, <2>3 DEF CreateAnswered
<1>4. CASE CreateRollback(t)
  <2>1. req[t].pc = "rollback" /\ req[t].cmd = "create"
    BY <1>0, <1>4 DEF CreateRollback, ReqAt, CommandsAt
  <2>2. row' = [row EXCEPT ![req[t].id] = NoRow]
    BY <1>4 DEF CreateRollback, May, Regular
  <2>3. FinishWith(t, registry)
    BY <1>4 DEF CreateRollback, Finish
  <2> QED BY <2>1, <2>2, <2>3, FinishOver DEF Over, Creating
<1>5. CASE Lookup(t)
  <2> DEFINE o == registry[req[t].id]
             l == IF o = NoObject THEN "load" ELSE "check"
             r == [req[t] EXCEPT !.pc = l, !.o = o]
  <2>1. req[t].pc = "lookup" /\ frame[t].pc = "idle" /\ req[t] \in Request
    BY <1>0, <1>5 DEF Lookup, ReqAt, At
  <2>2. req' = [req EXCEPT ![t] = r] /\ frame' = frame /\ UNCHANGED <<row, registry>>
    BY <1>0, <1>5 DEF Lookup, Same
  <2>3. /\ r.pc \in {"load", "check"} /\ r.o = o /\ r.id = req[t].id
    BY <2>1 DEF Request
  <2> HIDE DEF r
  <2>4. req'[t] = r
    BY <1>0, <2>2
  <2> QED BY <2>1, <2>2, <2>3, <2>4 DEF Looked
<1>6. CASE Load(t)
  <2>1. req[t].pc = "load" /\ req[t].cmd # "cli_stop"
    BY <1>0, <1>6 DEF Load, ReqAt, ApiCommands
  <2>2. CASE Finish(t)
    BY <1>6, <2>1, <2>2, FinishOver DEF Finish, Over, Creating, Load
  <2>3. CASE ~Finish(t)
    <3>1. PICK o \in Objects : req' = [req EXCEPT ![t].pc = "register", ![t].o = o]
      BY <1>6, <2>1, <2>3 DEF Load
    <3>2. req'[t].pc = "register"
      BY <1>0, <3>1 DEF Request
    <3>3. ~Failed(t) /\ ~Entered(t) /\ ~Constructed(t)
      BY <2>1, <3>2, <1>0 DEF Failed, Entered, Constructed, Request
    <3>4. Restored(t)
      <4>1. ASSUME Passed(t) PROVE FALSE
        <5>1. ~Unused(o)'
          BY <1>0, <3>1, InUseNext DEF Request
        <5>2. Unused(o)
          <6>1. PICK p \in Objects :
                  /\ Restore(t, p)
                  /\ req' = [req EXCEPT ![t].pc = "register", ![t].o = p]
            BY <1>6, <2>1, <2>3 DEF Load
          <6>2. p = o
            <7>1. req'[t].o = o
              BY <1>0, <3>1 DEF Request
            <7>2. req'[t].o = p
              BY <1>0, <6>1 DEF Request
            <7> QED BY <7>1, <7>2
          <6> QED BY <6>1, <6>2 DEF Restore
        <5> QED BY <4>1, <5>1, <5>2 DEF Passed
      <4> QED BY <1>1, <3>3, <4>1 DEF Served
    <3> QED BY <2>1, <3>2, <3>4
  <2> QED BY <2>2, <2>3
<1>7. CASE Register(t)
  <2> DEFINE r == [req[t] EXCEPT !.pc = "check"]
  <2>1. /\ req[t].pc = "register" /\ frame[t].pc = "idle" /\ req[t] \in Request
        /\ req[t].o \in Objects
    BY <1>0, <1>7 DEF Register, ReqAt, At, LinkedTo, HasObject
  <2>2. /\ req' = [req EXCEPT ![t] = r] /\ UNCHANGED <<frame, row>>
        /\ registry' = [registry EXCEPT ![req[t].id] = req[t].o]
    BY <1>0, <1>7 DEF Register
  <2>3. r.pc = "check" /\ r.o = req[t].o /\ r.id = req[t].id
    BY <2>1 DEF Request
  <2> HIDE DEF r
  <2>4. req'[t] = r
    BY <1>0, <2>2
  <2> QED BY <2>1, <2>2, <2>3, <2>4 DEF Filed
<1>8. CASE Check(t)
  <2>1. req[t].pc = "check"
    BY <1>8 DEF Check, ReqAt
  <2>2. CASE Finish(t) /\ UNCHANGED <<host, row>>
    BY <2>1, <2>2, FinishOver DEF Finish, Over, Creating
  <2>3. CASE ReqGoto(t, "call")
    <3>1. req'[t].pc = "call" /\ req'[t].cmd = req[t].cmd
      BY <1>0, <2>3 DEF ReqGoto, Request
    <3>2. ~Failed(t) /\ ~Constructed(t) /\ ~Passed(t) /\ ~Restored(t)
      BY <1>0, <2>1, <3>1
      DEF Failed, Constructed, Passed, Quiet, Restored, CommandsAt,
          LookupCommands
    <3>3. Entered(t)
      BY <1>1, <3>2 DEF Served
    <3> QED BY <2>1, <3>3 DEF Entered
  <2> QED BY <1>8, <2>1, <2>2, <2>3 DEF Check
<1>9. CASE Answered(t)
  <2>1. req[t].pc = "call" /\ ~Creating(t) /\ Finish(t) /\ UNCHANGED <<host, row>>
    BY <1>9 DEF Answered, ReqAt, Creating
  <2> QED BY <2>1, FinishOver DEF Finish, Over
<1>10. ~CliConstruct(t) /\ ~CliActivate(t) /\ ~CliStarted(t)
  BY <1>0 DEF CliConstruct, CliActivate, CliStarted, ReqAt, ApiCommands
<1> QED
  BY <1>2, <1>3, <1>4, <1>5, <1>6, <1>7, <1>8, <1>9, <1>10 DEF RequestStep

\* what holds of a request and its bunker after a step of its own
Calm(t, i) ==
  /\ Mirrored(t) /\ Making(t)
  /\ Sheltered(i) /\ Agreed(i) /\ Running(i)

\* a request that has come to nothing, or to a place without a bunker
LEMMA QuietCalm ==
  ASSUME NEW t \in Threads, NEW i \in Ids,
         Sheltered(i), Agreed(i), Running(i), host' = host, row' = row,
         registry' = registry, reaper' = reaper,
         \A u \in Threads \ {t} : req'[u] = req[u],
         registry[i] # NoObject => Kept(registry[i]),
         req'[t].pc \in {"idle", "load", "check"}, frame'[t].pc = "idle",
         req'[t].pc = "check" => req'[t].o = registry[req'[t].id],
         ~Creating(t)
  PROVE  Calm(t, i)'
<1>1. Mirrored(t)' /\ Making(t)'
  BY DEF Mirrored, Making, Creating
<1>2. Sheltered(i)' /\ Running(i)'
  BY DEF Sheltered, Claimed, Held, Running
<1>3. Agreed(i)'
  <2>0. PICK p : p = registry[i] /\ p = registry'[i]
    OBVIOUS
  <2>1. CASE p = NoObject
    BY <2>0, <2>1 DEF Agreed
  <2>2. CASE p # NoObject /\ Alike(p, i)
    BY <2>0, <2>2 DEF Agreed, Alike, Kept
  <2>3. CASE p # NoObject /\ state[p] \in Reapable /\ row[i] = NoRow
    BY <2>0, <2>3 DEF Agreed, Kept
  <2>4. ASSUME p # NoObject, state[p] \in Reapable, NEW u \in Threads, Creating(u),
               req[u].id = i
        PROVE  Agreed(i)'
    <3>1. u # t
      BY <2>4
    <3> QED BY <2>0, <2>4, <3>1 DEF Agreed, Kept, Creating
  <2> QED BY <2>0, <2>1, <2>2, <2>3, <2>4 DEF Agreed
<1> QED BY <1>1, <1>2, <1>3 DEF Calm

LEMMA ServedCalm ==
  ASSUME Watched, Serialized, Regular, NEW t \in Threads, NEW i \in Ids,
         i = req[t].id, RequestStep(t), Linked', reaper' = reaper
  PROVE  Calm(t, i)'
<1>0. /\ Linked /\ Mirrored(t) /\ Making(t) /\ NoObject \notin Objects
      /\ Sheltered(i) /\ Agreed(i) /\ Running(i)
      /\ req[t].pc # "idle" /\ RequestShape(t) /\ Placed(t)'
      /\ host' = host /\ \A u \in Threads \ {t} : req'[u] = req[u]
      /\ row \in [Ids -> Record]
      /\ registry \in [Ids -> Objects \cup {NoObject}]
  BY RequestMoves, RequestServed, BunkerAssumption
  DEF Watched, Passing, BunkerAssumption, Linked, ServiceTypeOK, TypeOK, Served,
      RequestShape
<1>r. row[i] = NoRow => ~Claimed(i)
  BY <1>0 DEF Sheltered, NoRow, Reapable
<1>u. ASSUME NEW u \in Threads, req[u].pc # "idle", req[u].id = i PROVE u = t
  BY <1>0, <1>u DEF Serialized
<1>k. ASSUME NEW p \in Objects, ~Unused(p), ~Unused(p)' PROVE Kept(p)
  BY <1>0, <1>k DEF RequestShape
<1>g. registry[i] # NoObject /\ registry'[i] = registry[i] => Kept(registry[i])
  <2>1. ASSUME registry[i] # NoObject, registry'[i] = registry[i]
        PROVE  Kept(registry[i])
    <3>0. PICK p \in Objects : p = registry[i] /\ p = registry'[i]
      BY <1>0, <2>1
    <3>1. ~Unused(p) /\ ~Unused(p)'
      BY <3>0, InUse, InUseNext
    <3> QED BY <1>k, <3>0, <3>1
  <2> QED BY <2>1
\* what no pass works on may be worked on
<1>c. ~Claimed(i) => Sheltered(i)'
  BY DEF Claimed, Held, Sheltered
<1>1. CASE Constructed(t) /\ req[t].cmd = "create"
  <2>0. PICK o \in Objects : o = req'[t].o
    BY <1>1 DEF Constructed
  <2>1. /\ row[i] = NoRow /\ row' = row /\ registry' = registry /\ Unused(o)
        /\ state' = state /\ inst' = inst /\ frame'[t].pc = "init_begin"
        /\ req'[t].pc = "call" /\ req'[t].cmd = "create" /\ req'[t].id = i
    <3>1. req[t] \in Request
      BY <1>0 DEF Linked, ServiceTypeOK
    <3> QED BY <1>0, <1>1, <2>0, <3>1 DEF Constructed, Request
  <2>2. registry[i] # NoObject => state[registry[i]] \in Reapable
    <3>1. ASSUME registry[i] # NoObject, Alike(registry[i], i) PROVE FALSE
      <4>1. state[registry[i]] \in States!BunkerState
        BY <1>0, <3>1 DEF Linked, ServiceTypeOK, TypeOK
      <4> QED BY <2>1, <3>1, <4>1 DEF Alike, NoRow, States!BunkerState
    <3> QED BY <1>0, <3>1 DEF Agreed
  <2>3. registry[i] # o
    BY <2>1, InUse
  <2>4. Mirrored(t)' /\ Making(t)'
    BY <2>0, <2>1, <2>2, <2>3 DEF Mirrored, Making, Creating
  <2>5. Agreed(i)' /\ Running(i)'
    BY <2>1, <2>2 DEF Agreed, Running, NoRow
  <2> QED BY <1>r, <1>c, <2>1, <2>4, <2>5 DEF Calm
<1>2. CASE Restored(t) /\ req'[t].pc = "register"
  <2>0. PICK o \in Objects : o = req'[t].o
    BY <1>2 DEF Restored
  <2>1. /\ row' = row /\ registry' = registry /\ frame'[t].pc = "idle"
        /\ req'[t].id = i /\ req'[t].cmd = req[t].cmd
        /\ state'[o] = row[i].state /\ inst'[o].vm = row[i].vm
        /\ inst'[o].switch = row[i].switch /\ req[t].pc \notin {"call", "rollback"}
        /\ Unused(o)
    <3>1. req[t].pc \notin {"call", "rollback"}
      <4>1. ASSUME req[t].pc \in {"call", "rollback"} PROVE FALSE
        <5>1. req[t].o \in Objects /\ ~Unused(req[t].o)
          BY <1>0, <4>1, InUse DEF Linked, LinkedTo, HasObject
        <5>2. req[t].cmd \in LookupCommands
          <6>1. LinkedTo(t)'
            BY DEF Linked
          <6> QED BY <1>2, <6>1 DEF LinkedTo, CommandsAt, Restored
        <5>3. CASE req[t].pc = "rollback"
          BY <1>0, <5>2, <5>3 DEF Linked, LinkedTo, CommandsAt, LookupCommands
        <5>4. CASE req[t].pc = "call"
          <6>1. RequestStep(t) /\ req[t].cmd # "create"
            BY <5>2 DEF LookupCommands
          <6>2. Answered(t)
            BY <1>0, <5>4, <5>2, <6>1, ApiOnly
            DEF RequestStep, CreateExists, CreateAnswered, CreateRollback, Lookup,
                Load, Register, Check, CliConstruct, CliActivate, CliStarted,
                ReqAt, LookupCommands
          <6>3. req'[t] = NoRequest
            BY <1>0, <6>2, FinishOver DEF Answered, Finish
          <6> QED BY <1>2, <6>3 DEF NoRequest
        <5> QED BY <4>1, <5>3, <5>4
      <4> QED BY <4>1
    <3> QED BY <1>2, <2>0, <3>1 DEF Restored, Quiet
  <2>2. Mirrored(t)' /\ Making(t)'
    BY <1>2, <2>0, <2>1 DEF Mirrored, Making, Creating, Alike
  <2>3. Sheltered(i)' /\ Running(i)'
    BY <1>0, <1>2, <2>1 DEF Sheltered, Claimed, Held, Running
  <2>4. Agreed(i)'
    <3>0. PICK p : p = registry[i] /\ p = registry'[i]
      BY <2>1
    <3>1. \A u \in Threads : ~(Creating(u) /\ req[u].id = i)
      BY <1>u, <2>1 DEF Creating
    <3>2. CASE p = NoObject
      BY <3>0, <3>2 DEF Agreed
    <3>3. CASE p # NoObject /\ Alike(p, i)
      BY <1>g, <2>1, <3>0, <3>3 DEF Agreed, Alike, Kept
    <3>4. CASE p # NoObject /\ state[p] \in Reapable /\ row[i] = NoRow
      BY <1>g, <2>1, <3>0, <3>4 DEF Agreed, Kept
    <3> QED BY <1>0, <3>0, <3>1, <3>2, <3>3, <3>4 DEF Agreed
  <2> QED BY <2>2, <2>3, <2>4 DEF Calm
<1>3. CASE Entered(t) /\ req[t].cmd \in {"start", "stop", "activate"}
  <2>0. PICK o \in Objects : o = req[t].o
    BY <1>3 DEF Entered
  <2>1. /\ req'[t].o = o /\ req'[t].id = i /\ req'[t].cmd = req[t].cmd
        /\ req[t].pc = "check" /\ req'[t].pc = "call"
        /\ state[o] = Expected[req[t].cmd] /\ frame'[t].pc = Method[req[t].cmd]
        /\ state' = state /\ inst' = inst /\ row' = row /\ registry' = registry
    BY <1>0, <1>3, <2>0 DEF Entered
  <2>2. registry[i] = o /\ state[o] \in {"DESTROYED", "ACTIVE", "READY"}
    BY <1>0, <1>3, <2>0, <2>1 DEF Mirrored, Expected
  <2>3. Alike(o, i)
    BY <1>0, <2>0, <2>2 DEF Agreed, Reapable
  <2>4. ~Claimed(i)
    BY <1>0, <2>2, <2>3 DEF Sheltered, Alike, Reapable
  <2>5. Alike(o, i)'
    BY <2>1, <2>3 DEF Alike
  <2>6. Mirrored(t)' /\ Agreed(i)'
    BY <1>3, <2>1, <2>2, <2>5 DEF Mirrored, Creating, Agreed
  <2>7. Making(t)' /\ Running(i)'
    BY <1>0, <1>3, <2>1 DEF Making, Method, Running
  <2> QED BY <1>c, <2>4, <2>6, <2>7 DEF Calm
<1>4. CASE Failed(t)
  <2>0. PICK o \in Objects : o = req[t].o
    BY <1>0, <1>4 DEF Failed, Linked, LinkedTo, HasObject
  <2>1. /\ req'[t].o = o /\ req'[t].id = i /\ req'[t].cmd = "create"
        /\ req'[t].pc = "rollback" /\ Creating(t) /\ frame'[t].pc = "idle"
        /\ state' = state /\ inst' = inst /\ row' = row /\ registry' = registry
        /\ frame[t].pc = "idle"
    <3>1. req \in [Threads -> Request]
      BY <1>0 DEF Linked, ServiceTypeOK
    <3> QED BY <1>4, <2>0, <3>1 DEF Failed, Request, Creating
  <2>2. Mirrored(t)'
    <3>1. Alike(o, i)'
      BY <1>0, <2>0, <2>1 DEF Mirrored, Alike
    <3> QED BY <1>0, <2>0, <2>1, <3>1 DEF Mirrored, Creating
  <2>3. Agreed(i)'
    <3>1. Creating(t)' /\ req'[t].id = i
      BY <2>1 DEF Creating
    <3>2. registry[i] # NoObject => state[registry[i]] \in Reapable
      BY <1>0, <2>1 DEF Mirrored
    <3> QED BY <2>1, <3>1, <3>2 DEF Agreed
  <2>4. ~Claimed(i)
    BY <1>0, <2>1 DEF Sheltered, Creating
  <2>5. Making(t)' /\ Running(i)'
    BY <1>0, <2>1 DEF Making, Running
  <2> QED BY <1>c, <2>2, <2>3, <2>4, <2>5 DEF Calm
<1>5. CASE Looked(t)
  <2>1. ~Creating(t)
    BY <1>5 DEF Looked, Creating
  <2>2. /\ row' = row /\ registry' = registry /\ frame'[t].pc = "idle"
        /\ req'[t].pc \in {"idle", "load", "check"}
        /\ req'[t].pc = "check" => req'[t].o = registry[req'[t].id]
    BY <1>5 DEF Looked
  <2> QED BY <1>0, <1>g, <2>1, <2>2, QuietCalm
<1>6. CASE Filed(t)
  <2>0. PICK o \in Objects : o = req[t].o
    BY <1>6 DEF Filed
  <2>1. /\ req'[t].o = o /\ req'[t].id = i /\ req'[t].pc = "check"
        /\ frame'[t].pc = "idle" /\ row' = row /\ registry'[i] = o
        /\ req[t].pc = "register"
    BY <1>0, <1>6, <2>0 DEF Filed
  <2>2. Kept(o)
    BY <1>k, <2>0, <2>1, InUse, InUseNext
  <2>3. Alike(o, i) \/ Orphan(o, i)
    BY <1>0, <2>0, <2>1 DEF Mirrored
  <2>4. Mirrored(t)' /\ Making(t)'
    BY <2>1 DEF Mirrored, Making, Creating
  <2>5. Agreed(i)'
    BY <2>1, <2>2, <2>3 DEF Agreed, Alike, Orphan, Kept
  <2>6. Sheltered(i)' /\ Running(i)'
    BY <1>0, <2>1 DEF Sheltered, Claimed, Held, Running
  <2> QED BY <2>4, <2>5, <2>6 DEF Calm
<1>7. CASE Over(t)
  <2>0. req'[t].pc = "idle" /\ frame'[t].pc = "idle"
    BY <1>7 DEF Over, NoRequest, Idle
  <2>1. CASE ~Creating(t) /\ UNCHANGED <<row, registry>>
    BY <1>0, <1>g, <2>0, <2>1, QuietCalm
  <2>t. Mirrored(t)' /\ Making(t)'
    BY <2>0 DEF Mirrored, Making, Creating
  <2>c. Creating(t) => ~Claimed(i)
    BY <1>0 DEF Sheltered, Creating
  <2>2. CASE /\ Creating(t) /\ frame[t].pc = "idle" /\ row' = row
             /\ req[t].o \in Objects
             /\ registry' = [registry EXCEPT ![req[t].id] = req[t].o]
    <3>0. PICK o \in Objects : o = req[t].o
      BY <2>2
    <3>1. registry'[i] = o /\ Alike(o, i)
      BY <1>0, <2>2, <3>0 DEF Mirrored
    <3>2. Kept(o)
      BY <1>k, <3>0, <3>1, InUse, InUseNext
    <3>3. Agreed(i)' /\ Running(i)'
      BY <1>0, <2>2, <3>1, <3>2 DEF Agreed, Alike, Kept, Running
    <3> QED BY <1>c, <2>c, <2>t, <2>2, <3>3 DEF Calm
  <2>3. CASE /\ Creating(t) /\ req[t].pc = "rollback" /\ registry' = registry
             /\ row' = [row EXCEPT ![req[t].id] = NoRow]
    <3>1. row'[i] = NoRow
      BY <1>0, <2>3
    <3>2. registry[i] # NoObject => state'[registry[i]] \in Reapable
      BY <1>0, <1>g, <2>3 DEF Mirrored, Kept
    <3>3. Agreed(i)' /\ Running(i)'
      BY <2>3, <3>1, <3>2 DEF Agreed, Running, NoRow
    <3> QED BY <1>c, <2>c, <2>t, <2>3, <3>3 DEF Calm
  <2> QED BY <1>7, <2>1, <2>2, <2>3 DEF Over
<1>8. \/ Constructed(t) /\ req[t].cmd = "create"
      \/ Restored(t) /\ req'[t].pc = "register"
      \/ Entered(t) /\ req[t].cmd \in {"start", "stop", "activate"}
      \/ Failed(t) \/ Looked(t) \/ Filed(t) \/ Over(t)
  BY <1>0, RequestMoves
<1> QED BY <1>1, <1>2, <1>3, <1>4, <1>5, <1>6, <1>7, <1>8

LEMMA RequestWatched ==
  ASSUME Watched, Serialized, Regular, NEW t \in Threads, RequestStep(t),
         reaper' = reaper, Passing'
  PROVE  Watched'
<1>0. /\ Linked /\ Linked' /\ NoObject \notin Objects /\ req[t].pc # "idle"
      /\ RequestShape(t) /\ Served(t)
      /\ \A u \in Threads \ {t} : req'[u] = req[u] /\ frame'[u] = frame[u]
      /\ registry \in [Ids -> Objects \cup {NoObject}]
  BY RequestMoves, RequestServed, BunkerAssumption
  DEF Watched, Passing, BunkerAssumption, Linked, ServiceTypeOK, Served,
      RequestShape
<1>1. PICK i \in Ids : i = req[t].id
  BY <1>0 DEF Linked, ServiceTypeOK
<1>2. \A j \in Ids \ {i} :
        row'[j] = row[j] /\ host'[j] = host[j] /\ registry'[j] = registry[j]
  BY <1>0, <1>1 DEF RequestShape
<1>3. ASSUME NEW p \in Objects, ~Unused(p), ~Unused(p)' PROVE Kept(p)
  BY <1>0, <1>3 DEF RequestShape
<1>4. ASSUME NEW j \in Ids \ {i}, registry[j] # NoObject PROVE Kept(registry[j])
  <2>0. PICK p \in Objects : p = registry[j] /\ p = registry'[j]
    BY <1>0, <1>2, <1>4
  <2>1. ~Unused(p) /\ ~Unused(p)'
    BY <2>0, InUse, InUseNext
  <2> QED BY <1>3, <2>0, <2>1
<1>5. ASSUME NEW u \in Threads \ {t}, req[u].pc \in HasObject
      PROVE  Kept(req[u].o)
  <2>0. PICK p \in Objects : p = req[u].o /\ p = req'[u].o
    BY <1>0, <1>5 DEF Linked, LinkedTo
  <2>1. ~Unused(p) /\ ~Unused(p)'
    BY <2>0, InUse, InUseNext
  <2> QED BY <1>3, <2>0, <2>1
<1>6. Calm(t, i)' /\ Orderly(t)'
  BY <1>0, <1>1, ServedCalm, OrderlyServed DEF Watched
<1>7. ASSUME NEW u \in Threads \ {t}
      PROVE  Orderly(u)' /\ Mirrored(u)' /\ Making(u)'
  <2>1. req[u].pc # "idle" => req[u].id \in Ids \ {i}
    BY <1>0, <1>1, Elsewhere
  <2>2. Orderly(u) /\ Mirrored(u) /\ Making(u)
    BY DEF Watched
  <2>3. Orderly(u)'
    BY <1>0, <1>5, <2>2, OrderlyKept DEF Kept
  <2>4. Mirrored(u)' /\ Making(u)'
    BY <1>0, <1>2, <1>4, <1>5, <2>1, <2>2, MirrorKept
  <2> QED BY <2>3, <2>4
<1>8. ASSUME NEW j \in Ids \ {i} PROVE Sheltered(j)' /\ Agreed(j)' /\ Running(j)'
  <2>1. \A u \in Threads :
          /\ Creating(u) /\ req[u].id = j => req'[u] = req[u]
          /\ req'[u].pc \in {"call", "rollback"} /\ req'[u].id = j =>
               req'[u] = req[u]
    <3>1. req'[t].id = i \/ req'[t].pc = "idle"
      <4>1. req[t] \in Request /\ req \in [Threads -> Request]
        BY <1>0 DEF Linked, ServiceTypeOK
      <4>2. CASE Constructed(t) \/ Failed(t)
        BY <1>1, <4>1, <4>2 DEF Constructed, Failed, Request
      <4>3. CASE Restored(t) \/ Entered(t) \/ Looked(t) \/ Filed(t) \/ Over(t)
        BY <1>1, <4>3
        DEF Restored, Entered, Looked, Filed, Over, NoRequest
      <4> QED BY <1>0, <4>2, <4>3, RequestMoves
    <3> QED BY <1>0, <1>1, <3>1
  <2>2. Sheltered(j) /\ Agreed(j) /\ Running(j)
    BY DEF Watched
  <2> QED BY <1>0, <1>2, <1>4, <2>1, <2>2, Apart
<1> QED BY <1>1, <1>6, <1>7, <1>8 DEF Watched, Calm

LEMMA InvokeWatched ==
  ASSUME Watched, Regular, NEW t \in Threads, NEW c \in Commands, NEW i \in Ids,
         Invoke(t, c, i), reaper' = reaper, Passing'
  PROVE  Watched'
<1>0. /\ Linked /\ Linked' /\ req[t].pc = "idle" /\ frame[t].pc = "idle"
      /\ registry' = registry /\ frame' = frame
      /\ req \in [Threads -> Request] /\ Served(t)
      /\ UNCHANGED <<state, inst, idOf, host, row>>
  BY InvokeServed
  DEF Watched, Passing, Invoke, ReqAt, At, Same, Linked, ServiceTypeOK
<1>1. /\ \A u \in Threads \ {t} : req'[u] = req[u]
      /\ req'[t].pc \notin {"register", "check", "call", "rollback"}
  <2> DEFINE l == CASE c = "create" -> "exists"
                    [] c \in {"start", "stop", "activate", "get"} -> "lookup"
                    [] OTHER -> "load"
             r == [pc |-> l, cmd |-> c, id |-> i, o |-> NoObject]
  <2>1. l \in {"exists", "lookup", "load"}
    BY DEF Regular, ApiCommands
  <2>2. req' = [req EXCEPT ![t] = r] /\ r.pc = l
    BY DEF Invoke
  <2> HIDE DEF r, l
  <2> QED BY <1>0, <2>1, <2>2
<1>2. ASSUME NEW j \in Ids PROVE Sheltered(j)' /\ Agreed(j)' /\ Running(j)'
  <2>1. registry[j] # NoObject => Kept(registry[j])
    BY <1>0 DEF Kept
  <2>2. \A u \in Threads :
          /\ Creating(u) /\ req[u].id = j => req'[u] = req[u]
          /\ req'[u].pc \in {"call", "rollback"} /\ req'[u].id = j =>
               req'[u] = req[u]
    BY <1>0, <1>1 DEF Creating
  <2>3. Sheltered(j) /\ Agreed(j) /\ Running(j)
    BY DEF Watched
  <2> QED BY <1>0, <2>1, <2>2, <2>3, Apart
<1>3. ASSUME NEW u \in Threads \ {t}
      PROVE  Orderly(u)' /\ Mirrored(u)' /\ Making(u)'
  <2>1. Orderly(u) /\ Mirrored(u) /\ Making(u)
    BY DEF Watched
  <2>2. Orderly(u)'
    BY <1>0, <1>1, <2>1, OrderlyKept
  <2>3. Mirrored(u)' /\ Making(u)'
    BY <1>0, <1>1, <2>1, MirrorKept DEF Kept
  <2> QED BY <2>2, <2>3
<1>4. Orderly(t)' /\ Mirrored(t)' /\ Making(t)'
  <2>1. Orderly(t)'
    BY <1>0, OrderlyServed DEF Watched
  <2> QED BY <1>0, <1>1, <2>1 DEF Mirrored, Making, Creating
<1> QED BY <1>2, <1>3, <1>4 DEF Watched

\* when the API dies nothing refers to a bunker any more
LEMMA CrashWatched ==
  ASSUME Watched, Regular, CrashApi, reaper' = reaper, Passing'
  PROVE  Watched'
<1>0. Linked
  BY DEF Watched, Passing
<1>1. PICK ts : ts = {t \in Threads : Serves(t, ApiCommands)}
  OBVIOUS
<1>2. DieShape(ts) /\ registry' = [i \in Ids |-> NoObject]
  BY <1>0, <1>1, DieShaped DEF CrashApi
<1>3. ASSUME NEW t \in Threads
      PROVE  req'[t].pc = "idle" /\ frame'[t].pc = "idle"
  <2>1. CASE t \in ts
    BY <1>2, <2>1 DEF DieShape, NoRequest, Idle
  <2>2. CASE t \notin ts
    <3>1. req[t].pc = "idle"
      BY <1>0, <1>1, <2>2, ApiOnly
    <3>2. frame[t].pc = "idle"
      BY <1>0, <3>1 DEF Linked, ServiceTypeOK
    <3> QED BY <1>2, <2>2, <3>1, <3>2 DEF DieShape
  <2> QED BY <2>1, <2>2
<1>4. ASSUME NEW t \in Threads PROVE Orderly(t)' /\ Mirrored(t)' /\ Making(t)'
  BY <1>3
  DEF Orderly, Doing, Initializing, Activating, Stopping, Built, Mirrored,
      Creating, Making
<1>5. ASSUME NEW i \in Ids PROVE Sheltered(i)' /\ Agreed(i)' /\ Running(i)'
  <2>1. Sheltered(i) /\ Running(i) /\ row' = row /\ host' = host
    BY <1>2 DEF Watched, DieShape
  <2>2. Sheltered(i)' /\ Running(i)'
    BY <1>3, <2>1 DEF Sheltered, Claimed, Held, Running
  <2>3. Agreed(i)'
    BY <1>2 DEF Agreed
  <2> QED BY <2>2, <2>3
<1> QED BY <1>4, <1>5 DEF Watched

\* a reaper touches only what it holds
LEMMA ReaperWatched ==
  ASSUME Watched, Regular, NEW r \in Reapers, ReaperStep(r), Passing'
  PROVE  Watched'
<1>0. /\ ReaperShape(r) /\ Linked /\ \A s \in Reapers : s = r
      /\ UNCHANGED <<state, inst, idOf, frame, registry, req>>
      /\ AgeGate
  BY ReaperShaped DEF Watched, Passing, Regular, ReaperShape, SameService
<1>1. ASSUME NEW i \in Ids, Held(r, i)
      PROVE  /\ row[i].state \in Reapable
             /\ \A t \in Threads :
                  req[t].pc \in {"call", "rollback"} => req[t].id # i
  BY <1>1 DEF Watched, Sheltered, Claimed
<1>2. ASSUME NEW i \in Ids
      PROVE  /\ row'[i] = row[i] \/ (row'[i] = NoRow /\ Held(r, i) /\ ~Held(r, i)')
             /\ host'[i] = host[i] \/ Held(r, i)
  BY <1>0 DEF ReaperShape
<1>3. ASSUME NEW i \in Ids PROVE Sheltered(i)'
  <2>1. CASE Held(r, i)' /\ Held(r, i)
    BY <1>0, <1>1, <1>2, <2>1 DEF Sheltered
  <2>2. CASE Held(r, i)' /\ ~Held(r, i)
    <3>1. row[i].state \in Reapable /\ ~Serving(i)
      BY <1>0, <2>2 DEF ReaperShape
    <3>2. \A t \in Threads : req'[t].id # i
      BY <1>0, <3>1 DEF Serving
    <3> QED BY <1>2, <2>2, <3>1, <3>2 DEF Sheltered
  <2>3. CASE ~Held(r, i)'
    BY <1>0, <2>3 DEF Sheltered, Claimed
  <2> QED BY <2>1, <2>2, <2>3
<1>4. ASSUME NEW i \in Ids PROVE Agreed(i)' /\ Running(i)'
  <2>1. Agreed(i) /\ Running(i)
    BY DEF Watched
  <2>2. CASE row'[i] = row[i]
    <3>1. Running(i)'
      BY <1>1, <1>2, <2>1, <2>2 DEF Running, Reapable
    <3>2. Agreed(i)'
      BY <1>0, <2>1, <2>2 DEF Agreed, Alike, Creating
    <3> QED BY <3>1, <3>2
  <2>3. CASE row'[i] = NoRow /\ Held(r, i)
    <3>1. row[i].state \in Reapable
      BY <1>1, <2>3
    <3>2. registry[i] # NoObject => state[registry[i]] \in Reapable
      BY <2>1, <3>1 DEF Agreed, Alike
    <3> QED BY <1>0, <2>3, <3>2 DEF Agreed, Running, NoRow
  <2> QED BY <1>2, <2>2, <2>3
<1>5. ASSUME NEW t \in Threads PROVE Orderly(t)' /\ Mirrored(t)' /\ Making(t)'
  <2>1. Orderly(t) /\ Mirrored(t) /\ Making(t)
    BY DEF Watched
  <2>2. Orderly(t)'
    BY <1>0, <2>1, OrderlyKept
  <2>3. /\ req[t].pc # "idle" => req[t].id \in Ids
        /\ frame[t].pc # "idle" => req[t].pc = "call"
    BY <1>0, ApiOnly DEF Linked, ServiceTypeOK
  <2>4. Making(t)'
    BY <1>0, <1>1, <1>2, <2>1, <2>3 DEF Making
  <2>5. Mirrored(t)'
    <3>0. PICK i, o : i = req[t].id /\ o = req[t].o
      OBVIOUS
    <3>1. CASE req[t].pc \in {"call", "rollback"}
      <4>1. i \in Ids /\ row'[i] = row[i]
        BY <1>1, <1>2, <2>3, <3>0, <3>1
      <4> QED
        BY <1>0, <2>1, <3>0, <3>1, <4>1 DEF Mirrored, Creating, Alike
    <3>2. CASE req[t].pc = "register"
      <4>1. /\ i \in Ids /\ (Alike(o, i) \/ Orphan(o, i))
            /\ row'[i] = row[i] \/ (row'[i] = NoRow /\ row[i].state \in Reapable)
        BY <1>1, <1>2, <2>1, <2>3, <3>0, <3>2 DEF Mirrored
      <4>2. (Alike(o, i) \/ Orphan(o, i))'
        BY <1>0, <4>1 DEF Alike, Orphan
      <4> QED BY <1>0, <3>0, <3>2, <4>2 DEF Mirrored, Creating
    <3>3. CASE req[t].pc \notin {"call", "rollback", "register"}
      BY <1>0, <2>1, <3>3 DEF Mirrored, Creating
    <3> QED BY <3>1, <3>2, <3>3
  <2> QED BY <2>2, <2>4, <2>5
<1> QED BY <1>3, <1>4, <1>5 DEF Watched

LEMMA WatchedNext ==
  ASSUME Watched, Serialized, Regular, ReaperNext
  PROVE  Watched'
<1>0. Passing'
  BY PassingNext DEF Watched
<1>1. ASSUME NEW r \in Reapers, ReaperStep(r) PROVE Watched'
  BY <1>0, <1>1, ReaperWatched
<1>2. CASE ServiceNext /\ UNCHANGED reaper
  <2>1. ASSUME NEW t \in Threads, NEW c \in Commands, NEW i \in Ids, Invoke(t, c, i)
        PROVE  Watched'
    BY <1>0, <1>2, <2>1, InvokeWatched
  <2>2. ASSUME NEW t \in Threads, RequestStep(t) PROVE Watched'
    BY <1>0, <1>2, <2>2, RequestWatched
  <2>3. ASSUME NEW t \in Threads, MethodStep(t), MethodRemembers(t) PROVE Watched'
    BY <1>0, <1>2, <2>3, MethodWatched
  <2>4. ASSUME NEW t \in Threads, CrashCli(t) PROVE Watched'
    BY <2>4, ApiOnly DEF CrashCli, Watched, Passing
  <2>5. CASE CrashApi
    BY <1>0, <1>2, <2>5, CrashWatched
  <2> QED BY <1>2, <2>1, <2>2, <2>3, <2>4, <2>5 DEF ServiceNext
<1> QED BY <1>1, <1>2 DEF ReaperNext

LEMMA StutterWatched ==
  ASSUME Watched, UNCHANGED reapAllVars
  PROVE  Watched'
<1>0. /\ Linked /\ UNCHANGED allVars /\ reaper' = reaper
      /\ UNCHANGED <<warned, dropped>>
      /\ UNCHANGED <<state, inst, idOf, host, row, frame, registry, req>>
  BY DEF Watched, Passing, reapAllVars, reaperVars, allVars, vars, serviceVars
<1>1. Passing'
  BY <1>0, StutterLinked DEF Watched, Passing, Resumed
<1>2. ASSUME NEW t \in Threads PROVE Orderly(t)' /\ Mirrored(t)' /\ Making(t)'
  <2>1. Orderly(t) /\ Mirrored(t) /\ Making(t)
    BY DEF Watched
  <2>2. Orderly(t)'
    BY <1>0, <2>1, OrderlyKept
  <2> QED
    BY <1>0, <2>1, <2>2 DEF Mirrored, Making, Creating, Alike, Orphan
<1>3. ASSUME NEW i \in Ids PROVE Sheltered(i)' /\ Agreed(i)' /\ Running(i)'
  <2>1. Sheltered(i) /\ Agreed(i) /\ Running(i)
    BY DEF Watched
  <2> QED
    BY <1>0, <2>1 DEF Sheltered, Claimed, Held, Agreed, Alike, Creating, Running
<1> QED BY <1>1, <1>2, <1>3 DEF Watched

LEMMA InitWatched ==
  ASSUME ReaperInit
  PROVE  Watched
<1>1. Passing
  BY InitLinked, NoPassType DEF ReaperInit, Passing, Resumed, Working, Trace
<1>2. /\ \A t \in Threads : req[t].pc = "idle" /\ frame[t].pc = "idle"
      /\ \A i \in Ids : row[i].state = "none" /\ registry[i] = NoObject
      /\ \A r \in Reapers : reaper[r].pc = "idle" /\ reaper[r].todo = {}
  BY NoPassType
  DEF ReaperInit, ServiceInit, NoRequest, Idle, NoRow
<1>3. ASSUME NEW t \in Threads PROVE Orderly(t) /\ Mirrored(t) /\ Making(t)
  BY <1>2
  DEF Orderly, Doing, Initializing, Activating, Stopping, Built, Mirrored,
      Creating, Making
<1>4. ASSUME NEW i \in Ids PROVE Sheltered(i) /\ Agreed(i) /\ Running(i)
  BY <1>2 DEF Sheltered, Claimed, Held, Working, Agreed, Running
<1> QED BY <1>1, <1>3, <1>4 DEF Watched

LEMMA WatchedInvariant ==
  ASSUME Regular
  PROVE  ReaperSpec /\ []Serialized => []Watched
<1>1. ReaperInit => Watched
  BY InitWatched
<1>2. Watched /\ Serialized /\ [ReaperNext]_reapAllVars => Watched'
  BY WatchedNext, StutterWatched
<1> QED BY <1>1, <1>2, PTL DEF ReaperSpec

-----------------------------------------------------------------------------

\* reaper.py:23-25: one reaper that selects by age never touches the resources
\* or the row of a bunker whose row, at that time, says INITIALIZING, READY,
\* ACTIVE, QUARANTINE or DESTROYED, whatever the API does meanwhile and
\* whichever process dies: nothing revives a bunker between the listing, which
\* looks at its state, and the deletion of its row.
THEOREM ReaperSparesLiveAlways ==
  ASSUME Regular
  PROVE  ReaperSpec /\ []Serialized => ReaperSparesLive
<1>1. Watched /\ [ReaperNext]_reapAllVars =>
        [\A r \in Reapers : reaper'[r] # reaper[r] =>
           \A i \in Ids : row[i].state \in NeverReap =>
             host'[i] = host[i] /\ row'[i] = row[i]]_reapAllVars
  <2> SUFFICES ASSUME Watched, ReaperNext, NEW r \in Reapers,
                      reaper'[r] # reaper[r], NEW i \in Ids,
                      row[i].state \in NeverReap
               PROVE  host'[i] = host[i] /\ row'[i] = row[i]
    OBVIOUS
  <2>1. PICK s \in Reapers : ReaperStep(s)
    BY DEF ReaperNext
  <2>2. ReaperShape(s)
    BY <2>1, ReaperShaped DEF Watched
  <2>3. ~Held(s, i)
    BY DEF Watched, Sheltered, Claimed, Reapable, NeverReap
  <2> QED BY <2>2, <2>3 DEF ReaperShape
<1> QED BY <1>1, WatchedInvariant, PTL DEF ReaperSpec, ReaperSparesLive

\* The registry of the API and the store tell the same state of a bunker when
\* no request is under way, with a reaper at work and processes that die; a
\* bunker whose row the reaper deleted is in a state no request accepts.
THEOREM RegistryAgreesAlways ==
  ASSUME Regular
  PROVE  ReaperSpec /\ []Serialized => []RegistryAgrees
<1>1. Watched => RegistryAgrees
  BY DEF Watched, Agreed, Alike, Creating, RegistryAgrees, Serving, Reapable
<1> QED BY <1>1, WatchedInvariant, PTL

\* A row that says READY or ACTIVE has its VM, whatever the reaper removes.
THEOREM RunningHasVmAlways ==
  ASSUME Regular
  PROVE  ReaperSpec /\ []Serialized => []RunningHasVm
<1>1. Watched => RunningHasVm
  BY DEF Watched, Running, RunningHasVm
<1> QED BY <1>1, WatchedInvariant, PTL

-----------------------------------------------------------------------------
(* What is on the host without a row.  An initialize that fails has to      *)
(* remove what it made, and the switch removal has to tell the truth: what  *)
(* they leave is named nowhere.                                             *)

Honest ==
  Faults \cap {"late_vm", "clean_vm", "clean_switch", "clean_disk",
               "silent_switch"} = {}

\* a residual report names the resource, or is to
Noted(i, res) ==
  \/ <<i, res>> \in warned \cup dropped
  \/ \E r \in Reapers : <<i, res>> \in reaper[r].left

\* what x has the names of; the disk is named after the identifier
NamesOf(x) == {"disk"} \cup {res \in {"vm", "switch"} : x[res]}

Found(i) ==
  /\ row[i] = NoRow => \A res \in host[i] : Noted(i, res)
  /\ row[i].state \notin {"none", "INITIALIZING"} =>
       \A res \in host[i] : res \in NamesOf(row[i]) \/ Noted(i, res)

\* what a failed initialize would not remove is noted
Remaining(t) ==
  /\ frame[t].pc \in InitPcs \ {"init_begin"} =>
       \A res \in host[req[t].id] : res \in Remains(t) \/ Noted(req[t].id, res)
  /\ Creating(t) /\ Undone(t) =>
       \A res \in host[req[t].id] : Noted(req[t].id, res)

\* stop is let through for an ACTIVE bunker only
Stops(t) == Stopping(t) => TermPhase(t, req[t].o)

\* a pass has the names of the row, and has noted what it did not remove
Tidy(r) ==
  LET i == reaper[r].id
      l == reaper[r].pc IN
  /\ l = "vm" => reaper[r].vm = row[i].vm
  /\ l \in {"vm", "switch"} => reaper[r].switch = row[i].switch
  /\ l \in {"switch", "disk", "row"} /\ "vm" \in host[i] => Noted(i, "vm")
  /\ l \in {"disk", "row"} /\ "switch" \in host[i] => Noted(i, "switch")
  /\ l = "row" /\ "disk" \in host[i] => Noted(i, "disk")

Traced ==
  /\ Watched
  /\ \A i \in Ids : Found(i)
  /\ \A t \in Threads : Remaining(t) /\ Stops(t)
  /\ \A r \in Reapers : Tidy(r)

\* initialize makes what it can name, and forgets a name with what it named
LEMMA RemainsHost ==
  ASSUME TypeOK, Honest, NEW t \in Threads, NEW o \in Objects, Self(t) = o,
         NEW i \in Ids, idOf[o] = i, InitStep(t), UNCHANGED state,
         InitPhase(t, o), frame'[t].pc \in InitPcs \ {"init_begin"}, Self(t)' = o
  PROVE  host'[i] \ Remains(t)' \subseteq host[i] \ Remains(t)
<1> USE DEF At, Self, Goto
<1>o. /\ frame \in [Threads -> Frame] /\ inst \in [Objects -> Instance]
      /\ inst[o] \in Instance /\ host \in [Ids -> SUBSET Resources]
      /\ host[i] \subseteq Resources /\ state \in [Objects -> States!BunkerState]
      /\ "late_vm" \notin Faults /\ "clean_vm" \notin Faults
      /\ "clean_switch" \notin Faults /\ "clean_disk" \notin Faults
      /\ "silent_switch" \notin Faults
  BY DEF TypeOK, Honest
<1>r. /\ Remains(t)' = {r \in {"vm", "switch"} : inst'[o][r]} \cup
                        (IF frame'[t].pc = "init_error" THEN {} ELSE {"disk"})
      /\ Remains(t) = {r \in {"vm", "switch"} : inst[o][r]} \cup
                       (IF frame[t].pc = "init_error" THEN {} ELSE {"disk"})
  BY DEF Remains
<1>1. CASE InitBegin(t) \/ InitReady(t) \/ InitError(t)
  <2>1. state[o] = "DESTROYED" \/ frame[t].pc # "init_begin"
    BY DEF InitPhase
  <2>2. /\ frame[t].pc # "init_begin" => state[o] = "INITIALIZING"
    BY <1>1 DEF InitBegin, InitReady, InitError, InitPhase, InitPcs
  <2> QED
    BY <1>1, <1>o, <2>1, <2>2
    DEF InitBegin, InitReady, InitError, Transition, LastTransition,
        TransitionTo, Refused, States!Move, States!ValidNext
<1>2. CASE InitRaise(t) \/ InitVerify(t)
  <2>1. /\ frame'[t].pc \in {"clean_vm", "init_switch"}
        /\ frame[t].pc # "init_error"
        /\ UNCHANGED <<inst, host>>
    BY <1>2, <1>o DEF InitRaise, InitVerify, Frame
  <2> QED BY <1>r, <2>1
<1>3. CASE InitSwitch(t)
  <2>1. /\ frame'[t].pc = "init_vm" /\ frame[t].pc = "init_switch"
        /\ inst'[o].switch /\ inst'[o].vm = inst[o].vm
        /\ host'[i] \subseteq host[i] \cup {"switch"}
    BY <1>3, <1>o DEF InitSwitch, Frame, Instance
  <2> QED BY <1>r, <2>1
<1>4. CASE InitVm(t)
  <2>1. frame'[t].pc # "init_error" /\ frame[t].pc = "init_vm"
    BY <1>4, <1>o DEF InitVm, Frame
  <2>2. PICK disk \in SUBSET {"disk"} :
          \/ /\ host' = [host EXCEPT ![i] = @ \cup {"vm"} \cup disk]
             /\ inst' = [inst EXCEPT ![o].vm = TRUE]
          \/ /\ \E vm \in SUBSET {"vm"} :
                  /\ May(IF vm = {} THEN "create_vm" ELSE "late_vm")
                  /\ host' = [host EXCEPT ![i] = @ \cup vm \cup disk]
             /\ inst' = inst
    BY <1>4 DEF InitVm
  <2>3. CASE /\ host' = [host EXCEPT ![i] = @ \cup {"vm"} \cup disk]
             /\ inst' = [inst EXCEPT ![o].vm = TRUE]
    <3>1. /\ inst'[o].vm /\ inst'[o].switch = inst[o].switch
          /\ host'[i] \subseteq host[i] \cup {"vm", "disk"}
      BY <1>o, <2>3 DEF Instance
    <3> QED BY <1>r, <2>1, <3>1
  <2>4. CASE /\ \E vm \in SUBSET {"vm"} :
                  /\ May(IF vm = {} THEN "create_vm" ELSE "late_vm")
                  /\ host' = [host EXCEPT ![i] = @ \cup vm \cup disk]
             /\ inst' = inst
    <3>1. PICK vm \in SUBSET {"vm"} :
            /\ May(IF vm = {} THEN "create_vm" ELSE "late_vm")
            /\ host' = [host EXCEPT ![i] = @ \cup vm \cup disk]
      BY <2>4
    <3>2. vm = {}
      BY <1>o, <3>1 DEF May
    <3>3. host'[i] \subseteq host[i] \cup {"disk"}
      BY <1>o, <3>1, <3>2
    <3> QED BY <1>r, <2>1, <2>4, <3>3
  <2> QED BY <2>2, <2>3, <2>4
<1>5. CASE InitGuest(t)
  <2>1. /\ frame'[t].pc = "init_ready" /\ frame[t].pc = "init_guest"
        /\ inst'[o].switch = inst[o].switch /\ inst'[o].vm = inst[o].vm
        /\ host' = host
    BY <1>5, <1>o DEF InitGuest, Frame, Instance
  <2> QED BY <1>r, <2>1
<1>6. CASE CleanVm(t)
  <2>1. /\ frame'[t].pc = "clean_switch" /\ frame[t].pc = "clean_vm"
        /\ inst'[o].switch = inst[o].switch /\ inst'[o].vm = FALSE
    BY <1>6, <1>o DEF CleanVm, Frame, Instance
  <2>2. CASE inst[o].vm
    <3>1. PICK ok \in BOOLEAN : RemoveVm(i, "clean_vm", ok)
      BY <1>6, <2>2 DEF CleanVm
    <3>2. host'[i] \subseteq host[i] /\ "vm" \notin host'[i]
      BY <1>o, <3>1, RemoveVmHost
    <3> QED BY <1>r, <2>1, <3>2
  <2>3. CASE ~inst[o].vm
    <3>1. host' = host
      BY <1>6, <2>3 DEF CleanVm
    <3> QED BY <1>r, <2>1, <2>3, <3>1
  <2> QED BY <2>2, <2>3
<1>7. CASE CleanSwitch(t)
  <2>1. /\ frame'[t].pc = "clean_disk" /\ frame[t].pc = "clean_switch"
        /\ inst'[o].vm = inst[o].vm /\ inst'[o].switch = FALSE
    BY <1>7, <1>o DEF CleanSwitch, Frame, Instance
  <2>2. CASE inst[o].switch
    <3>1. PICK ok \in BOOLEAN : Removal(i, "switch", "clean_switch", ok)
      BY <1>7, <2>2 DEF CleanSwitch
    <3>2. host'[i] \subseteq host[i] /\ "switch" \notin host'[i]
      BY <1>o, <3>1, RemovalHost
    <3> QED BY <1>r, <2>1, <3>2
  <2>3. CASE ~inst[o].switch
    <3>1. host' = host
      BY <1>7, <2>3 DEF CleanSwitch
    <3> QED BY <1>r, <2>1, <2>3, <3>1
  <2> QED BY <2>2, <2>3
<1>8. CASE CleanDisk(t)
  <2>1. /\ frame'[t].pc = "init_error" /\ frame[t].pc = "clean_disk"
        /\ inst' = inst
    BY <1>8, <1>o DEF CleanDisk, Frame
  <2>2. PICK ok \in BOOLEAN : Removal(i, "disk", "clean_disk", ok)
    BY <1>8 DEF CleanDisk
  <2>3. host'[i] \subseteq host[i] \ {"disk"}
    BY <1>o, <2>2, RemovalHost
  <2> QED BY <1>r, <2>1, <2>3
<1> QED
  BY <1>1, <1>2, <1>3, <1>4, <1>5, <1>6, <1>7, <1>8 DEF InitStep

\* what is noted stays noted while it exists, beside the requests
LEMMA NotedKept ==
  ASSUME reaper' = reaper, SameTraces, NEW i, NEW res \in host'[i], Noted(i, res)
  PROVE  Noted(i, res)'
BY DEF Noted, SameTraces, Existing

\* and in every step of a pass
LEMMA NotedNext ==
  ASSUME Passing, NEW r \in Reapers, ReaperStep(r), NEW i \in Ids
  PROVE  \A res \in host'[i] : Noted(i, res) => Noted(i, res)'
<1> SUFFICES ASSUME NEW res \in host'[i], Noted(i, res) PROVE Noted(i, res)'
  OBVIOUS
<1>0. /\ \A s \in Reapers \ {r} : reaper'[s] = reaper[s]
      /\ host'[i] \subseteq host[i]
  BY ReaperShaped DEF ReaperShape, Sole
<1>1. CASE ReapList(r)
  <2>1. reaper[r].left = {} /\ UNCHANGED <<warned, dropped>>
    BY <1>1, ListStep, NoPassType DEF Passing, Resumed
  <2> QED BY <1>0, <2>1 DEF Noted
<1>2. CASE ReapLoad(r)
  BY <1>0, <1>2, LoadStep DEF Noted
<1>3. CASE ReapVm(r) \/ ReapSwitch(r) \/ ReapDisk(r)
  <2>1. reaper[r].left \subseteq reaper'[r].left /\ SameTraces
    BY <1>3, VmStep, SwitchStep, DiskStep DEF Swept
  <2> QED BY <1>0, <2>1 DEF Noted, SameTraces, Existing
<1>4. CASE ReapRow(r)
  BY <1>0, <1>4, RowStep DEF Noted
<1>5. CASE ReapReport(r) \/ CrashReaper(r)
  <2>1. /\ warned \subseteq warned' /\ dropped \subseteq dropped'
        /\ \A x \in reaper[r].left :
             x[2] \in host[x[1]] => x \in warned' \cup dropped'
    BY <1>5, OverStep
  <2>2. <<i, res>> \in reaper[r].left => <<i, res>> \in warned' \cup dropped'
    BY <1>0, <2>1
  <2> QED BY <1>0, <2>1, <2>2 DEF Noted
<1> QED BY <1>1, <1>2, <1>3, <1>4, <1>5 DEF ReaperStep

\* a pass notes what it leaves of the bunker it works on
LEMMA TidyStep ==
  ASSUME Traced, Honest, NEW r \in Reapers, ReaperStep(r)
  PROVE  Tidy(r)'
<1>0. /\ Passing /\ ReaperShape(r) /\ Tidy(r) /\ Resumed(r)
      /\ "silent_switch" \notin Faults
      /\ \A i \in Ids, res \in {"vm", "switch"} :
           /\ row[i].state \in Reapable /\ res \in host[i] /\ ~row[i][res]
           => Noted(i, res)
  <2>1. Passing /\ Tidy(r) /\ Resumed(r)
    BY DEF Traced, Watched, Passing
  <2>2. ASSUME NEW i \in Ids, NEW res \in {"vm", "switch"},
               row[i].state \in Reapable, res \in host[i], ~row[i][res]
        PROVE  Noted(i, res)
    BY <2>2 DEF Traced, Found, NamesOf, Reapable
  <2> QED BY <2>1, <2>2, ReaperShaped DEF Honest
<1>1. CASE ReapList(r) \/ ReapRow(r) \/ ReapReport(r) \/ CrashReaper(r)
  <2>1. reaper'[r].pc \in {"idle", "next"}
    BY <1>0, <1>1, ListStep, RowStep, OverStep, NoPassType
  <2> QED BY <2>1 DEF Tidy
<1>2. CASE ReapLoad(r)
  <2>1. /\ reaper'[r].pc = "vm" /\ row' = row
        /\ reaper'[r].vm = row[reaper'[r].id].vm
        /\ reaper'[r].switch = row[reaper'[r].id].switch
    BY <1>0, <1>2, LoadStep
  <2> QED BY <2>1 DEF Tidy
<1>3. PICK i : i = reaper[r].id
  OBVIOUS
<1>4. reaper[r].pc \in Working =>
        i \in Ids /\ row[i].state \in Reapable /\ host'[i] \subseteq host[i]
  <2>1. ASSUME reaper[r].pc \in Working PROVE i \in Ids /\ Held(r, i)
    BY <1>0, <1>3, <2>1 DEF Resumed, Held
  <2> QED BY <1>0, <2>1 DEF Traced, Watched, Sheltered, Claimed, ReaperShape
<1>n. reaper[r].pc \in Working =>
        \A res \in host'[i] : Noted(i, res) => Noted(i, res)'
  BY <1>0, <1>4, NotedNext
<1>5. CASE ReapVm(r)
  <2>1. /\ reaper[r].pc = "vm" /\ reaper'[r].pc = "switch" /\ reaper'[r].id = i
        /\ reaper'[r].switch = reaper[r].switch /\ row' = row
        /\ "vm" \in host'[i] /\ reaper[r].vm => <<i, "vm">> \in reaper'[r].left
    BY <1>0, <1>3, <1>5, VmStep DEF Swept
  <2>2. reaper[r].vm = row[i].vm /\ reaper[r].switch = row[i].switch
    BY <1>0, <1>3, <2>1 DEF Tidy
  <2>3. "vm" \in host'[i] => Noted(i, "vm")'
    <3>1. CASE reaper[r].vm
      BY <2>1, <3>1 DEF Noted
    <3>2. CASE ~reaper[r].vm
      BY <1>0, <1>4, <1>n, <2>1, <2>2, <3>2 DEF Working
    <3> QED BY <3>1, <3>2
  <2> QED BY <2>1, <2>2, <2>3 DEF Tidy
<1>6. CASE ReapSwitch(r)
  <2>1. /\ reaper[r].pc = "switch" /\ reaper'[r].pc = "disk" /\ reaper'[r].id = i
        /\ "switch" \in host'[i] /\ reaper[r].switch =>
             <<i, "switch">> \in reaper'[r].left
    BY <1>0, <1>3, <1>6, SwitchStep DEF Swept
  <2>2. /\ reaper[r].switch = row[i].switch
        /\ "vm" \in host[i] => Noted(i, "vm")
    BY <1>0, <1>3, <2>1 DEF Tidy
  <2>3. "switch" \in host'[i] => Noted(i, "switch")'
    <3>1. CASE reaper[r].switch
      BY <2>1, <3>1 DEF Noted
    <3>2. CASE ~reaper[r].switch
      BY <1>0, <1>4, <1>n, <2>1, <2>2, <3>2 DEF Working
    <3> QED BY <3>1, <3>2
  <2>4. "vm" \in host'[i] => Noted(i, "vm")'
    BY <1>4, <1>n, <2>1, <2>2 DEF Working
  <2> QED BY <2>1, <2>3, <2>4 DEF Tidy
<1>7. CASE ReapDisk(r)
  <2>1. /\ reaper[r].pc = "disk" /\ reaper'[r].pc = "row" /\ reaper'[r].id = i
        /\ "disk" \in host'[i] => <<i, "disk">> \in reaper'[r].left
    BY <1>0, <1>3, <1>7, DiskStep DEF Swept
  <2>2. /\ "vm" \in host[i] => Noted(i, "vm")
        /\ "switch" \in host[i] => Noted(i, "switch")
    BY <1>0, <1>3, <2>1 DEF Tidy
  <2>3. "disk" \in host'[i] => Noted(i, "disk")'
    BY <2>1 DEF Noted
  <2>4. /\ "vm" \in host'[i] => Noted(i, "vm")'
        /\ "switch" \in host'[i] => Noted(i, "switch")'
    BY <1>4, <1>n, <2>1, <2>2 DEF Working
  <2> QED BY <2>1, <2>3, <2>4 DEF Tidy
<1> QED BY <1>1, <1>2, <1>5, <1>6, <1>7 DEF ReaperStep

LEMMA ReaperTraced ==
  ASSUME Traced, Honest, Regular, NEW r \in Reapers, ReaperStep(r), Watched'
  PROVE  Traced'
<1>0. /\ ReaperShape(r) /\ Passing /\ \A s \in Reapers : s = r
      /\ UNCHANGED <<state, inst, idOf, frame, registry, req>>
      /\ host \in [Ids -> SUBSET Resources] /\ row \in [Ids -> Record]
  BY ReaperShaped
  DEF Traced, Watched, Passing, Regular, ReaperShape, SameService, Linked,
      ServiceTypeOK, TypeOK
<1>n. \A i \in Ids : \A res \in host'[i] : Noted(i, res) => Noted(i, res)'
  BY <1>0, NotedNext
<1>1. ASSUME NEW s \in Reapers PROVE Tidy(s)'
  BY <1>0, TidyStep
<1>2. ASSUME NEW i \in Ids PROVE Found(i)'
  <2>0. Found(i) /\ host'[i] \subseteq host[i]
    BY <1>0 DEF Traced, ReaperShape
  <2>1. CASE row'[i] = row[i]
    BY <1>n, <2>0, <2>1 DEF Found, NamesOf
  <2>2. CASE row'[i] # row[i]
    <3>1. row'[i] = NoRow /\ ReapRow(r) /\ i = reaper[r].id /\ reaper[r].pc = "row"
      <4>1. ReapRow(r)
        <5>1. ASSUME ReapVm(r) \/ ReapSwitch(r) \/ ReapDisk(r) PROVE row' = row
          BY <1>0, <5>1, VmStep, SwitchStep, DiskStep DEF Swept
        <5>2. ASSUME \/ ReapList(r) \/ ReapLoad(r) \/ ReapReport(r)
                     \/ CrashReaper(r)
              PROVE  row' = row
          BY <5>2 DEF ReapList, ReapLoad, ReapReport, CrashReaper
        <5> QED BY <2>2, <5>1, <5>2 DEF ReaperStep
      <4>2. /\ reaper[r].pc = "row"
            /\ row' = row \/ row' = [row EXCEPT ![reaper[r].id] = NoRow]
        BY <1>0, <4>1, RowStep
      <4>3. row'[i] = NoRow
        BY <1>0, <2>2 DEF ReaperShape
      <4> QED BY <1>0, <2>2, <4>1, <4>2, <4>3
    <3>2. Tidy(r)
      BY DEF Traced
    <3>3. \A res \in host[i] : Noted(i, res)
      BY <1>0, <3>1, <3>2 DEF Tidy, Resources
    <3>4. \A res \in host'[i] : Noted(i, res)'
      BY <1>n, <2>0, <3>3
    <3>5. row'[i].state = "none"
      BY <3>1 DEF NoRow
    <3> QED BY <3>4, <3>5 DEF Found
  <2> QED BY <2>1, <2>2
<1>3. ASSUME NEW t \in Threads PROVE Remaining(t)' /\ Stops(t)'
  <2>0. /\ Remaining(t) /\ Stops(t)
        /\ frame[t].pc # "idle" => req[t].pc = "call" /\ req[t].id \in Ids
        /\ req[t].pc # "idle" => req[t].id \in Ids
    <3>1. Remaining(t) /\ Stops(t) /\ Linked
      BY <1>0 DEF Traced, Passing
    <3> QED BY <3>1, ApiOnly DEF Linked, ServiceTypeOK
  <2>1. Stops(t)'
    BY <1>0, <2>0 DEF Stops, Stopping, TermPhase
  <2>2. ASSUME frame[t].pc # "idle" \/ Creating(t)
        PROVE  host'[req[t].id] \subseteq host[req[t].id]
    BY <1>0, <2>0, <2>2 DEF ReaperShape, Creating
  <2>3. Remaining(t)'
    <3>1. CASE frame[t].pc \in InitPcs \ {"init_begin"}
      <4>1. frame[t].pc # "idle"
        BY <3>1, PlacesApart
      <4>2. Remains(t)' = Remains(t)
        BY <1>0 DEF Remains, Self
      <4> QED
        BY <1>0, <1>n, <2>0, <2>2, <3>1, <4>1, <4>2 DEF Remaining, Undone
    <3>2. CASE frame[t].pc \notin InitPcs \ {"init_begin"}
      BY <1>0, <1>n, <2>0, <2>2, <3>2 DEF Remaining, Undone, Creating
    <3> QED BY <3>1, <3>2
  <2> QED BY <2>1, <2>3
<1> QED BY <1>1, <1>2, <1>3 DEF Traced

\* what a step without a reaper leaves of a bunker, a request and a pass
LEMMA FoundKept ==
  ASSUME reaper' = reaper, SameTraces, NEW i \in Ids, Found(i),
         row'[i] = row[i], host'[i] \subseteq host[i]
  PROVE  Found(i)'
BY NotedKept DEF Found, NamesOf

LEMMA RemainingKept ==
  ASSUME Linked, reaper' = reaper, SameTraces, NEW u \in Threads,
         Remaining(u), Stops(u), req'[u] = req[u], frame'[u] = frame[u],
         req[u].pc # "idle" => host'[req[u].id] \subseteq host[req[u].id],
         req[u].pc \in HasObject => Kept(req[u].o)
  PROVE  Remaining(u)' /\ Stops(u)'
<1>0. /\ frame[u].pc # "idle" => req[u].pc \in HasObject /\ Self(u) = req[u].o
      /\ "call" # "idle" /\ "rollback" # "idle" /\ "call" \in HasObject
  BY DEF Linked, LinkedTo, ServiceTypeOK, HasObject
<1>1. Stops(u)'
  BY <1>0 DEF Stops, Stopping, TermPhase, Kept
<1>2. PICK i : i = req[u].id /\ i = req'[u].id
  OBVIOUS
<1>n. \A res \in host'[i] : Noted(i, res) => Noted(i, res)'
  BY NotedKept
<1>3. CASE frame[u].pc \in InitPcs \ {"init_begin"}
  <2>1. frame[u].pc # "idle" /\ req[u].pc # "idle"
    BY <1>0, <1>3, PlacesApart DEF HasObject
  <2>2. Remains(u)' = Remains(u)
    BY <1>0, <2>1 DEF Remains, Self, Kept
  <2>3. \A res \in host'[i] : res \in Remains(u)' \/ Noted(i, res)'
    BY <1>2, <1>3, <1>n, <2>1, <2>2 DEF Remaining
  <2>4. ~Undone(u)'
    BY <2>1 DEF Undone
  <2> QED BY <1>1, <1>2, <2>3, <2>4 DEF Remaining
<1>4. CASE frame[u].pc \notin InitPcs \ {"init_begin"}
  <2>1. ASSUME Creating(u), Undone(u) PROVE \A res \in host'[i] : Noted(i, res)'
    BY <1>2, <1>n, <2>1 DEF Remaining, Creating
  <2>2. Creating(u)' = Creating(u) /\ Undone(u)' = Undone(u)
    BY DEF Creating, Undone
  <2> QED BY <1>1, <1>2, <1>4, <2>1, <2>2 DEF Remaining
<1> QED BY <1>3, <1>4

LEMMA TidyKept ==
  ASSUME reaper' = reaper, SameTraces, NEW r \in Reapers, Tidy(r),
         reaper[r].pc \in Working =>
           /\ row'[reaper[r].id] = row[reaper[r].id]
           /\ host'[reaper[r].id] = host[reaper[r].id]
  PROVE  Tidy(r)'
<1>1. PICK i : i = reaper[r].id /\ i = reaper'[r].id
  OBVIOUS
<1>n. \A res \in host'[i] : Noted(i, res) => Noted(i, res)'
  BY NotedKept
<1>2. CASE reaper[r].pc \in Working
  BY <1>1, <1>2, <1>n DEF Tidy
<1>3. CASE reaper[r].pc \notin Working
  BY <1>3 DEF Tidy, Working
<1> QED BY <1>2, <1>3

\* a method leaves its bunker with what it made named in the row, or noted
LEMMA FoundStep ==
  ASSUME Traced, Honest, AllAnswers, Regular, NEW t \in Threads,
         NEW o \in Objects, NEW i \in Ids, o = req[t].o, i = req[t].id,
         MethodStep(t), MethodShape(t), reaper' = reaper, SameTraces
  PROVE  Found(i)' /\ Remaining(t)' /\ Stops(t)'
<1>0. /\ Linked /\ TypeOK /\ Self(t) = o /\ idOf[o] = i /\ frame[t].pc # "idle"
      /\ req[t].pc = "call" /\ Doing(t) /\ Built(t) /\ Orderly(t) /\ Found(i)
      /\ Remaining(t) /\ Stops(t) /\ Mirrored(t) /\ req' = req
      /\ frame'[t].pc # "idle" => Self(t)' = o
      /\ state[o] \in States!BunkerState /\ inst[o] \in Instance
      /\ "persist" \notin Faults
  BY ApiOnly
  DEF Traced, Watched, Passing, Linked, ServiceTypeOK, TypeOK, MethodShape,
      Orderly, Regular
<1>n. \A res \in host'[i] : Noted(i, res) => Noted(i, res)'
  BY NotedKept
<1>4. frame[t].pc # "init_begin" => Alike(o, i)
  <2>1. CASE Creating(t)
    BY <1>0, <2>1 DEF Mirrored
  <2>2. CASE ~Creating(t)
    BY <1>0, <2>2 DEF Mirrored
  <2> QED BY <2>1, <2>2
<1>a. Alike(o, i)' /\ row'[i].state = state'[o]
  BY <1>0, <1>4, AlikeStep DEF Alike
<1>i. row'[i].state = "INITIALIZING" => Found(i)'
  BY DEF Found, NoRow
<1>1. CASE Initializing(t) /\ InitStep(t)
  <2>0. /\ InitPhase(t, o) /\ frame[t].pc \in InitPcs /\ ~Stopping(t)'
        /\ frame'[t].pc # "idle" \/ frame'[t].pc \notin InitPcs
    BY <1>0, <1>1, PlacesApart DEF Doing, Initializing, Stopping
  <2>r. /\ Remains(t) = {r \in {"vm", "switch"} : inst[o][r]} \cup
                         (IF frame[t].pc = "init_error" THEN {} ELSE {"disk"})
        /\ frame'[t].pc # "idle" =>
             Remains(t)' = {r \in {"vm", "switch"} : inst'[o][r]} \cup
                         (IF frame'[t].pc = "init_error" THEN {} ELSE {"disk"})
    BY <1>0 DEF Remains
  <2>1. CASE /\ frame[t].pc = "init_begin" /\ Transits(o)
             /\ frame'[t].pc = "init_verify" /\ state'[o] = "INITIALIZING"
    <3>1. host' = host /\ inst' = inst /\ state[o] = "DESTROYED"
      BY <2>0, <2>1 DEF Transits, InitPhase
    <3>2. ASSUME NEW res \in host[i] PROVE res \in Remains(t)' \/ Noted(i, res)
      <4>1. CASE Creating(t)
        BY <1>0, <2>1, <3>2, <4>1 DEF Mirrored, Found
      <4>2. CASE ~Creating(t)
        <5>1. Alike(o, i)
          BY <1>0, <4>2 DEF Mirrored
        <5>2. /\ row[i].state = "DESTROYED" /\ row[i].vm = inst[o].vm
              /\ row[i].switch = inst[o].switch
          BY <3>1, <5>1 DEF Alike
        <5>3. res \in NamesOf(row[i]) \/ Noted(i, res)
          BY <1>0, <3>2, <5>2 DEF Found
        <5> QED BY <2>1, <2>r, <3>1, <5>2, <5>3 DEF NamesOf
      <4> QED BY <4>1, <4>2
    <3>3. ~Undone(t)'
      BY <2>1 DEF Undone
    <3>4. Remaining(t)'
      BY <1>0, <1>n, <3>1, <3>2, <3>3 DEF Remaining
    <3> QED BY <1>a, <1>i, <2>0, <2>1, <3>4 DEF Stops
  <2>2. CASE /\ frame[t].pc = "init_ready" /\ Transits(o)
             /\ frame'[t].pc = "idle" /\ frame'[t].result = "true"
             /\ state'[o] = "READY"
    <3>1. host' = host /\ inst' = inst
      BY <2>2 DEF Transits
    <3>2. /\ row'[i].state = "READY" /\ row'[i].vm = inst[o].vm
          /\ row'[i].switch = inst[o].switch
      BY <1>a, <2>2, <3>1 DEF Alike
    <3>3. ASSUME NEW res \in host[i] PROVE res \in NamesOf(row'[i]) \/ Noted(i, res)
      <4>1. res \in Remains(t) \/ Noted(i, res)
        BY <1>0, <2>0, <2>2, <3>3 DEF Remaining
      <4> QED BY <2>r, <2>2, <3>2, <4>1 DEF NamesOf
    <3>4. Found(i)'
      BY <1>n, <3>1, <3>2, <3>3 DEF Found, NoRow
    <3>5. Remaining(t)'
      BY <1>0, <2>0, <2>2 DEF Remaining, Undone
    <3> QED BY <2>0, <3>4, <3>5 DEF Stops
  <2>3. CASE /\ frame[t].pc = "init_error" /\ Transits(o)
             /\ frame'[t].pc = "idle" /\ frame'[t].result \in {"false", "raised"}
             /\ state'[o] = "ERROR"
    <3>1. host' = host
      BY <2>3 DEF Transits
    <3>2. Remains(t) = {}
      BY <1>0, <2>3, <2>r DEF Built
    <3>3. \A res \in host'[i] : Noted(i, res)'
      BY <1>0, <1>n, <2>0, <2>3, <3>1, <3>2 DEF Remaining
    <3>4. Found(i)' /\ Remaining(t)'
      BY <1>0, <2>0, <2>3, <3>3 DEF Found, Remaining
    <3> QED BY <2>0, <3>4 DEF Stops
  <2>4. CASE /\ frame[t].pc \in InitPcs \ {"init_begin", "init_ready", "init_error"}
             /\ UNCHANGED <<state, row>>
             /\ frame'[t].pc \in InitPcs \ {"init_begin"}
    <3>1. frame'[t].pc # "idle" /\ Self(t)' = o
      BY <1>0, <2>0, <2>4
    <3>2. host'[i] \ Remains(t)' \subseteq host[i] \ Remains(t)
      BY <1>0, <1>1, <2>0, <2>4, <3>1, RemainsHost
    <3>3. \A res \in host'[i] : res \in Remains(t)' \/ Noted(i, res)'
      BY <1>0, <1>n, <2>4, <3>2 DEF Remaining
    <3>4. ~Undone(t)'
      BY <3>1 DEF Undone
    <3>5. row'[i].state = "INITIALIZING"
      BY <1>a, <2>0, <2>4 DEF InitPhase
    <3> QED BY <1>0, <1>i, <2>0, <3>3, <3>4, <3>5 DEF Remaining, Stops
  <2> QED BY <1>0, <1>1, <2>0, <2>1, <2>2, <2>3, <2>4, InitMoves
<1>2. CASE (Activating(t) /\ ActStep(t)) \/ (Stopping(t) /\ TermStep(t))
  <2>1. frame[t].pc \in ActPcs \cup TermPcs
    BY <1>0, <1>2 DEF Doing
  <2>2. Alike(o, i) /\ state[o] # "INITIALIZING"
    <3>1. Alike(o, i)
      BY <1>4, <2>1 DEF ActPcs, TermPcs
    <3>2. CASE Activating(t) /\ ActStep(t)
      <4>1. ActPhase(t, o) /\ frame[t].pc \in ActPcs
        BY <1>0, <3>2 DEF Doing
      <4> QED BY <3>1, <4>1 DEF ActPhase
    <3>3. CASE Stopping(t) /\ TermStep(t)
      <4>1. TermPhase(t, o) /\ frame[t].pc \in TermPcs
        BY <1>0, <3>3 DEF Doing, Stops
      <4> QED BY <3>1, <4>1 DEF TermPhase
    <3> QED BY <1>2, <3>1, <3>2, <3>3
  <2>3. /\ host'[i] \subseteq host[i]
        /\ inst'[o].vm = inst[o].vm /\ inst'[o].switch = inst[o].switch
    BY <1>0, <1>2, ActKeeps, TermKeeps
  <2>4. Found(i)'
    <3>1. CASE state'[o] = "INITIALIZING"
      BY <1>a, <1>i, <3>1
    <3>2. CASE state'[o] # "INITIALIZING"
      <4>1. /\ row'[i].vm = row[i].vm /\ row'[i].switch = row[i].switch
            /\ row[i].state \notin {"none", "INITIALIZING"}
        BY <1>0, <1>a, <2>2, <2>3, <3>2 DEF Alike, States!BunkerState
      <4>2. NamesOf(row'[i]) = NamesOf(row[i])
        BY <4>1 DEF NamesOf
      <4>3. \A res \in host'[i] : res \in NamesOf(row'[i]) \/ Noted(i, res)'
        BY <1>0, <1>n, <2>3, <4>1, <4>2 DEF Found
      <4>4. TypeOK'
        BY <1>0, MethodShaped
      <4>5. row'[i].state # "none"
        BY <1>a, <4>4 DEF TypeOK, States!BunkerState
      <4> QED BY <4>3, <4>5 DEF Found, NoRow
    <3> QED BY <3>1, <3>2
  <2>5. Remaining(t)'
    <3>1. Doing(t)'
      BY <1>0, DoingStep
    <3>2. frame'[t].pc \notin InitPcs \ {"init_begin"}
      BY <1>0, <1>2, <3>1, PlacesApart
      DEF Doing, Activating, Stopping, ActPcs, TermPcs, InitPcs
    <3>3. ~Creating(t)'
      BY <1>0, <1>2 DEF Creating, Activating, Stopping
    <3> QED BY <3>2, <3>3 DEF Remaining
  <2>6. Stops(t)'
    <3>1. CASE Stopping(t) /\ TermStep(t)
      <4>1. TermPhase(t, o)'
        BY <1>0, <3>1, TermPhaseStep DEF Stops
      <4> QED BY <1>0, <4>1 DEF Stops
    <3>2. CASE Activating(t)
      BY <1>0, <3>2 DEF Stops, Stopping, Activating
    <3> QED BY <1>2, <3>1, <3>2
  <2> QED BY <2>4, <2>5, <2>6
<1> QED BY <1>0, <1>1, <1>2, DoingStep

LEMMA MethodTraced ==
  ASSUME Traced, Serialized, Regular, Honest, NEW t \in Threads, MethodStep(t),
         reaper' = reaper, SameTraces, Watched'
  PROVE  Traced'
<1>0. /\ Linked /\ AllAnswers /\ Passing /\ Watched
  BY AllTold DEF Traced, Watched, Passing
<1>1. MethodShape(t)
  BY <1>0, MethodShaped
<1>2. PICK o \in Objects, i \in Ids : o = req[t].o /\ i = req[t].id
  BY <1>1 DEF MethodShape
<1>3. /\ req' = req /\ frame[t].pc # "idle" /\ req[t].pc = "call" /\ idOf[o] = i
      /\ \A u \in Threads \ {t} : frame'[u] = frame[u]
      /\ \A p \in Objects \ {o} : Kept(p)
      /\ \A j \in Ids \ {i} : host'[j] = host[j] /\ row'[j] = row[j]
  BY <1>0, <1>1, <1>2, ApiOnly DEF MethodShape, Footprint, Kept
<1>4. Found(i)' /\ Remaining(t)' /\ Stops(t)'
  BY <1>0, <1>1, <1>2, FoundStep
<1>5. ASSUME NEW j \in Ids \ {i} PROVE Found(j)'
  <2>1. Found(j) /\ row'[j] = row[j] /\ host'[j] \subseteq host[j]
    BY <1>3 DEF Traced
  <2> QED BY <2>1, FoundKept
<1>6. ASSUME NEW u \in Threads \ {t} PROVE Remaining(u)' /\ Stops(u)'
  <2>1. req[u].pc # "idle" => req[u].id \in Ids /\ req[u].id # i
    BY <1>0, <1>2, <1>3, Elsewhere
  <2>2. req[u].pc \in HasObject => Kept(req[u].o)
    BY <1>0, <1>2, <1>3, Elsewhere DEF HasObject
  <2>3. /\ Remaining(u) /\ Stops(u) /\ req'[u] = req[u] /\ frame'[u] = frame[u]
        /\ req[u].pc # "idle" => host'[req[u].id] \subseteq host[req[u].id]
    BY <1>3, <2>1 DEF Traced
  <2> QED BY <1>0, <2>2, <2>3, RemainingKept
<1>7. ASSUME NEW r \in Reapers PROVE Tidy(r)'
  <2>1. ASSUME reaper[r].pc \in Working PROVE reaper[r].id \in Ids \ {i}
    <3>1. reaper[r].id \in Ids /\ Claimed(reaper[r].id)
      BY <1>0, <2>1 DEF Passing, Resumed, Claimed, Held
    <3> QED BY <1>0, <1>2, <1>3, <3>1 DEF Watched, Sheltered
  <2>2. Tidy(r)
    BY DEF Traced
  <2> QED BY <1>3, <2>1, <2>2, TidyKept
<1> QED BY <1>4, <1>5, <1>6, <1>7 DEF Traced

LEMMA RequestTraced ==
  ASSUME Traced, Serialized, Regular, NEW t \in Threads, RequestStep(t),
         reaper' = reaper, SameTraces, Watched'
  PROVE  Traced'
<1>0. /\ Linked /\ Passing /\ Watched /\ NoObject \notin Objects
      /\ req[t].pc # "idle" /\ RequestShape(t) /\ host' = host
      /\ \A u \in Threads \ {t} : req'[u] = req[u] /\ frame'[u] = frame[u]
      /\ req \in [Threads -> Request] /\ row \in [Ids -> Record]
      /\ frame[t].pc # "idle" => req[t].pc = "call"
  BY RequestMoves, RequestServed, BunkerAssumption, ApiOnly
  DEF Traced, Watched, Passing, BunkerAssumption, Linked, ServiceTypeOK, TypeOK,
      Served, RequestShape
<1>1. PICK i \in Ids : i = req[t].id
  BY <1>0 DEF Linked, ServiceTypeOK
<1>2. \A j \in Ids \ {i} : row'[j] = row[j]
  BY <1>0, <1>1 DEF RequestShape
<1>n. \A j \in Ids : \A res \in host'[j] : Noted(j, res) => Noted(j, res)'
  BY NotedKept
<1>m. \/ Constructed(t) /\ req[t].cmd = "create"
      \/ Restored(t) /\ req'[t].pc = "register"
      \/ Entered(t) /\ req[t].cmd \in {"start", "stop", "activate"}
      \/ Failed(t) \/ Looked(t) \/ Filed(t) \/ Over(t)
  BY <1>0, RequestMoves
\* only the rollback touches a row
<1>3. \/ row' = row
      \/ Creating(t) /\ Undone(t) /\ row' = [row EXCEPT ![i] = NoRow]
  <2>1. ASSUME Over(t)
        PROVE  \/ row' = row
               \/ Creating(t) /\ Undone(t) /\ row' = [row EXCEPT ![i] = NoRow]
    <3>1. req[t].pc = "rollback" => frame[t].pc = "idle"
      BY <1>0
    <3> QED BY <1>1, <2>1, <3>1 DEF Over, Undone
  <2> QED
    BY <1>m, <2>1 DEF Constructed, Restored, Entered, Failed, Looked, Filed
<1>4. ASSUME NEW j \in Ids PROVE Found(j)'
  <2>0. Found(j) /\ host'[j] \subseteq host[j]
    BY <1>0 DEF Traced
  <2>1. CASE row'[j] = row[j]
    BY <2>0, <2>1, FoundKept
  <2>2. CASE row'[j] # row[j]
    <3>1. j = i /\ Creating(t) /\ Undone(t) /\ row'[j] = NoRow
      BY <1>0, <1>2, <1>3, <2>2
    <3>2. \A res \in host[j] : Noted(j, res)
      BY <1>1, <3>1 DEF Traced, Remaining
    <3>3. \A res \in host'[j] : Noted(j, res)'
      BY <1>0, <1>n, <3>2
    <3> QED BY <3>1, <3>3 DEF Found
  <2> QED BY <2>1, <2>2
<1>5. Remaining(t)' /\ Stops(t)'
  <2>0. req[t] \in Request
    BY <1>0
  <2>1. CASE Constructed(t) /\ req[t].cmd = "create"
    <3>1. frame'[t].pc = "init_begin" /\ req'[t].cmd = "create"
      BY <2>0, <2>1 DEF Constructed, Request
    <3> QED BY <3>1 DEF Remaining, Undone, Stops, Stopping
  <2>2. CASE Entered(t) /\ req[t].cmd \in {"start", "stop", "activate"}
    <3>0. PICK o \in Objects : o = req[t].o
      BY <2>2 DEF Entered
    <3>1. /\ req'[t].o = o /\ req'[t].cmd = req[t].cmd
          /\ state[o] = Expected[req[t].cmd] /\ frame'[t].pc = Method[req[t].cmd]
          /\ state' = state
      BY <2>2, <3>0 DEF Entered
    <3>2. /\ frame'[t].pc \in {"init_begin", "act_check", "term_check"}
          /\ req[t].cmd = "stop" => frame'[t].pc = "term_check" /\ state[o] = "ACTIVE"
      BY <2>2, <3>1 DEF Method, Expected
    <3>3. Remaining(t)'
      BY <2>2, <3>1, <3>2 DEF Remaining, Creating, InitPcs
    <3>4. Stops(t)'
      BY <2>2, <3>1, <3>2 DEF Stops, Stopping, TermPhase, TermPcs, Down
    <3> QED BY <3>3, <3>4
  <2>3. CASE Failed(t)
    <3>1. /\ Creating(t) /\ Undone(t) /\ req'[t].id = i /\ req'[t].cmd = "create"
          /\ frame'[t].pc = "idle"
      BY <1>0, <1>1, <2>0, <2>3 DEF Failed, Creating, Undone, Request
    <3>2. \A res \in host'[i] : Noted(i, res)'
      BY <1>0, <1>1, <1>n, <3>1 DEF Traced, Remaining
    <3> QED
      BY <3>1, <3>2, PlacesApart DEF Remaining, Stops, Stopping
  <2>4. CASE \/ Restored(t) /\ req'[t].pc = "register"
             \/ Looked(t) \/ Filed(t) \/ Over(t)
    <3>1. /\ frame'[t].pc = "idle"
          /\ req'[t].pc \in {"register", "load", "check", "idle"}
      BY <2>4
      DEF Restored, Quiet, Looked, Filed, Over, NoRequest, Idle
    <3> QED
      BY <3>1, PlacesApart DEF Remaining, Creating, Stops, Stopping
  <2> QED BY <1>m, <2>1, <2>2, <2>3, <2>4
<1>6. ASSUME NEW u \in Threads \ {t} PROVE Remaining(u)' /\ Stops(u)'
  <2>1. ASSUME req[u].pc \in HasObject PROVE Kept(req[u].o)
    <3>0. PICK p \in Objects : p = req[u].o /\ p = req'[u].o
      BY <1>0, <2>1 DEF Linked, LinkedTo
    <3>1. ~Unused(p) /\ ~Unused(p)'
      BY <1>0, <2>1, <3>0, InUse, InUseNext
    <3> QED BY <1>0, <3>0, <3>1 DEF RequestShape
  <2>2. Remaining(u) /\ Stops(u) /\ req'[u] = req[u] /\ frame'[u] = frame[u]
    BY <1>0 DEF Traced
  <2> QED BY <1>0, <2>1, <2>2, RemainingKept
<1>7. ASSUME NEW r \in Reapers PROVE Tidy(r)'
  <2>1. ASSUME reaper[r].pc \in Working
        PROVE  row'[reaper[r].id] = row[reaper[r].id]
    <3>1. reaper[r].id \in Ids /\ Claimed(reaper[r].id)
      BY <1>0, <2>1 DEF Passing, Resumed, Claimed, Held
    <3>2. Creating(t) => reaper[r].id # i
      BY <1>0, <1>1, <3>1 DEF Watched, Sheltered, Creating
    <3> QED BY <1>2, <1>3, <3>1, <3>2
  <2>2. Tidy(r)
    BY DEF Traced
  <2> QED BY <1>0, <2>1, <2>2, TidyKept
<1> QED BY <1>4, <1>5, <1>6, <1>7 DEF Traced

LEMMA InvokeTraced ==
  ASSUME Traced, Regular, NEW t \in Threads, NEW c \in Commands, NEW i \in Ids,
         Invoke(t, c, i), reaper' = reaper, SameTraces, Watched'
  PROVE  Traced'
<1>0. /\ Linked /\ req[t].pc = "idle" /\ frame[t].pc = "idle" /\ frame' = frame
      /\ req \in [Threads -> Request]
      /\ UNCHANGED <<state, inst, idOf, host, row>>
  BY
  DEF Traced, Watched, Passing, Invoke, ReqAt, At, Same, Linked, ServiceTypeOK
<1>1. /\ \A u \in Threads \ {t} : req'[u] = req[u]
      /\ req'[t].pc \notin {"register", "check", "call", "rollback"}
  <2> DEFINE l == CASE c = "create" -> "exists"
                    [] c \in {"start", "stop", "activate", "get"} -> "lookup"
                    [] OTHER -> "load"
             r == [pc |-> l, cmd |-> c, id |-> i, o |-> NoObject]
  <2>1. l \in {"exists", "lookup", "load"}
    BY DEF Regular, ApiCommands
  <2>2. req' = [req EXCEPT ![t] = r] /\ r.pc = l
    BY DEF Invoke
  <2> HIDE DEF r, l
  <2> QED BY <1>0, <2>1, <2>2
<1>2. ASSUME NEW j \in Ids PROVE Found(j)'
  BY <1>0, FoundKept DEF Traced
<1>3. ASSUME NEW u \in Threads \ {t} PROVE Remaining(u)' /\ Stops(u)'
  <2>1. Remaining(u) /\ Stops(u)
    BY DEF Traced
  <2> QED BY <1>0, <1>1, <2>1, RemainingKept DEF Kept
<1>4. Remaining(t)' /\ Stops(t)'
  BY <1>0, <1>1, PlacesApart DEF Remaining, Creating, Stops, Stopping
<1>5. ASSUME NEW r \in Reapers PROVE Tidy(r)'
  BY <1>0, TidyKept DEF Traced
<1> QED BY <1>2, <1>3, <1>4, <1>5 DEF Traced

LEMMA CrashTraced ==
  ASSUME Traced, Regular, CrashApi, reaper' = reaper, SameTraces, Watched'
  PROVE  Traced'
<1>0. Linked
  BY DEF Traced, Watched, Passing
<1>1. PICK ts : ts = {t \in Threads : Serves(t, ApiCommands)}
  OBVIOUS
<1>2. DieShape(ts)
  BY <1>0, <1>1, DieShaped DEF CrashApi
<1>3. ASSUME NEW t \in Threads
      PROVE  req'[t].pc = "idle" /\ frame'[t].pc = "idle"
  <2>1. CASE t \in ts
    BY <1>2, <2>1 DEF DieShape, NoRequest, Idle
  <2>2. CASE t \notin ts
    <3>1. req[t].pc = "idle"
      BY <1>0, <1>1, <2>2, ApiOnly
    <3>2. frame[t].pc = "idle"
      BY <1>0, <3>1 DEF Linked, ServiceTypeOK
    <3> QED BY <1>2, <2>2, <3>1, <3>2 DEF DieShape
  <2> QED BY <2>1, <2>2
<1>4. ASSUME NEW t \in Threads PROVE Remaining(t)' /\ Stops(t)'
  BY <1>3, PlacesApart DEF Remaining, Creating, Stops, Stopping
<1>5. ASSUME NEW i \in Ids PROVE Found(i)'
  BY <1>2, FoundKept DEF Traced, DieShape
<1>6. ASSUME NEW r \in Reapers PROVE Tidy(r)'
  BY <1>2, TidyKept DEF Traced, DieShape
<1> QED BY <1>4, <1>5, <1>6 DEF Traced

LEMMA TracedNext ==
  ASSUME Traced, Serialized, Regular, Honest, ReaperNext
  PROVE  Traced'
<1>0. Watched'
  BY WatchedNext DEF Traced
<1>1. ASSUME NEW r \in Reapers, ReaperStep(r) PROVE Traced'
  BY <1>0, <1>1, ReaperTraced
<1>2. CASE ServiceNext /\ UNCHANGED reaper /\ SameTraces
  <2>1. ASSUME NEW t \in Threads, NEW c \in Commands, NEW i \in Ids, Invoke(t, c, i)
        PROVE  Traced'
    BY <1>0, <1>2, <2>1, InvokeTraced
  <2>2. ASSUME NEW t \in Threads, RequestStep(t) PROVE Traced'
    BY <1>0, <1>2, <2>2, RequestTraced
  <2>3. ASSUME NEW t \in Threads, MethodStep(t) PROVE Traced'
    BY <1>0, <1>2, <2>3, MethodTraced
  <2>4. ASSUME NEW t \in Threads, CrashCli(t) PROVE Traced'
    BY <2>4, ApiOnly DEF CrashCli, Traced, Watched, Passing
  <2>5. CASE CrashApi
    BY <1>0, <1>2, <2>5, CrashTraced
  <2> QED BY <1>2, <2>1, <2>2, <2>3, <2>4, <2>5 DEF ServiceNext
<1> QED BY <1>1, <1>2 DEF ReaperNext

LEMMA StutterTraced ==
  ASSUME Traced, UNCHANGED reapAllVars
  PROVE  Traced'
<1>0. /\ Linked /\ reaper' = reaper /\ UNCHANGED <<warned, dropped>>
      /\ UNCHANGED <<state, inst, idOf, host, row, frame, registry, req>>
  BY
  DEF Traced, Watched, Passing, reapAllVars, reaperVars, allVars, vars,
      serviceVars
<1>1. Watched'
  BY StutterWatched DEF Traced
<1>2. ASSUME NEW i \in Ids PROVE Found(i)'
  <2>1. Found(i)
    BY DEF Traced
  <2> QED BY <1>0, <2>1 DEF Found, NamesOf, Noted
<1>3. ASSUME NEW t \in Threads PROVE Remaining(t)' /\ Stops(t)'
  <2>1. Remaining(t) /\ Stops(t)
    BY DEF Traced
  <2> QED
    BY <1>0, <2>1
    DEF Remaining, Stops, Stopping, TermPhase, Remains, Self, Noted, Creating,
        Undone
<1>4. ASSUME NEW r \in Reapers PROVE Tidy(r)'
  <2>1. Tidy(r)
    BY DEF Traced
  <2> QED BY <1>0, <2>1 DEF Tidy, Noted
<1> QED BY <1>1, <1>2, <1>3, <1>4 DEF Traced

LEMMA InitTraced ==
  ASSUME ReaperInit
  PROVE  Traced
<1>1. /\ \A t \in Threads : req[t].pc = "idle" /\ frame[t].pc = "idle"
      /\ \A i \in Ids : host[i] = {}
      /\ \A r \in Reapers : reaper[r].pc = "idle"
  BY NoPassType DEF ReaperInit, ServiceInit, NoRequest, Idle
<1>2. ASSUME NEW t \in Threads PROVE Remaining(t) /\ Stops(t)
  BY <1>1, PlacesApart DEF Remaining, Creating, Stops, Stopping
<1>3. ASSUME NEW i \in Ids PROVE Found(i)
  BY <1>1 DEF Found
<1>4. ASSUME NEW r \in Reapers PROVE Tidy(r)
  BY <1>1 DEF Tidy
<1> QED BY <1>2, <1>3, <1>4, InitWatched DEF Traced

LEMMA TracedInvariant ==
  ASSUME Regular, Honest
  PROVE  ReaperSpec /\ []Serialized => []Traced
<1>1. ReaperInit => Traced
  BY InitTraced
<1>2. Traced /\ Serialized /\ [ReaperNext]_reapAllVars => Traced'
  BY TracedNext, StutterTraced
<1> QED BY <1>1, <1>2, PTL DEF ReaperSpec

\* Nothing is ever on the host without a row and without a trace: with one
\* reaper that selects by age, a store that saves, and removals that tell the
\* truth, whatever has no row was named in a residual report, or was about to
\* be when the process of the reaper died (cli.py:371-374).
THEOREM NothingLostAlways ==
  ASSUME Regular, Honest
  PROVE  ReaperSpec /\ []Serialized => []NothingLost
<1>1. Traced => NothingLost
  BY DEF Traced, Found, Noted, NothingLost
<1> QED BY <1>1, TracedInvariant, PTL
=============================================================================
