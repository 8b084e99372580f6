--------------------------- MODULE ServiceProofs ---------------------------
(***************************************************************************)
(* Theorems about BunkerService, for every set of identifiers, objects,    *)
(* threads and commands.  Those that two requests on one identifier can    *)
(* break assume that no two are served at a time.                          *)
(***************************************************************************)
EXTENDS ServiceProperties, MethodProofs

LEMMA AllTold == AllAnswers
BY ServiceAssumption DEF ServiceAssumption, AllAnswers

-----------------------------------------------------------------------------
(* Who refers to which bunker.                                              *)

\* the places of a request that has a bunker
HasObject == {"call", "call2", "rollback", "register", "check"}

LookupCommands == {"start", "stop", "activate", "get"}

CommandsAt(l) ==
  CASE l \in {"exists", "rollback"}             -> {"create"}
    [] l \in {"lookup", "register", "check"}    -> LookupCommands
    [] l = "load"                               -> LookupCommands \cup CliCommands
    [] l = "call"    -> (ApiCommands \cup CliCommands) \ {"get"}
    [] l = "call2"                              -> {"cli_start"}
    [] OTHER                                    -> {"none"}

LinkedTo(t) ==
  /\ req[t].cmd \in CommandsAt(req[t].pc)
  /\ req[t].pc = "idle" => req[t] = NoRequest
  /\ req[t].pc \in HasObject =>
       req[t].o \in Objects /\ idOf[req[t].o] = req[t].id
  /\ req[t].pc \notin HasObject => req[t].o = NoObject
  /\ frame[t].pc # "idle" => Self(t) = req[t].o

Pristine(o) == state[o] = "DESTROYED" /\ inst[o] = Fresh

Linked ==
  /\ ServiceTypeOK
  /\ \A t \in Threads : LinkedTo(t)
  /\ \A i \in Ids : registry[i] # NoObject => idOf[registry[i]] = i
  /\ \A i \in Ids : row[i].state = "none" => row[i] = NoRow
  /\ \A o \in Objects : Unused(o) => Pristine(o)

Kept(o) == state'[o] = state[o] /\ inst'[o] = inst[o] /\ idOf'[o] = idOf[o]

\* what differs after a step of request t that is in no method
RequestShape(t) ==
  /\ host' = host
  /\ \A u \in Threads \ {t} : frame'[u] = frame[u] /\ req'[u] = req[u]
  /\ \A i \in Ids :
       row'[i] = row[i] \/ (i = req[t].id /\ row'[i] = NoRow)
  /\ \A i \in Ids :
       \/ registry'[i] = registry[i]
       \/ i = req[t].id /\ registry'[i] = req[t].o /\ req[t].o \in Objects
  /\ \A o \in Objects :
       \/ Kept(o) /\ (Unused(o)' => Unused(o))
       \/ Unused(o)' /\ Pristine(o)' /\ idOf'[o] = idOf[o]
       \/ Unused(o) /\ o = req'[t].o

RequestTypes ==
  /\ TypeOK
  /\ registry \in [Ids -> Objects \cup {NoObject}]
  /\ req \in [Threads -> Request]

LEMMA InUse ==
  ASSUME NEW o \in Objects
  PROVE  Unused(o) <=> /\ \A i \in Ids : registry[i] # o
                       /\ \A t \in Threads : req[t].o # o
BY DEF Unused, Reached

LEMMA InUseNext ==
  ASSUME NEW o \in Objects
  PROVE  Unused(o)' <=> /\ \A i \in Ids : registry'[i] # o
                        /\ \A t \in Threads : req'[t].o # o
BY DEF Unused, Reached

LEMMA OthersType ==
  ASSUME ServiceTypeOK, TypeOK', Others
  PROVE  /\ forgotten' \in [Ids -> SUBSET Resources] /\ unsaved' \subseteq Ids
         /\ unsaved' = unsaved
         /\ \A i \in Ids : forgotten'[i] = host'[i] \cap forgotten[i]
BY DEF ServiceTypeOK, TypeOK, Others, Remember

\* the request of t is where it says it is
Placed(t) ==
  /\ LinkedTo(t)
  /\ req[t].pc # "idle" => req[t].id \in Ids
  /\ frame[t].pc # "idle" => req[t].pc \in {"call", "call2"}

LEMMA ShapeLinked ==
  ASSUME Linked, NEW t \in Threads, RequestShape(t), RequestTypes', Placed(t)',
         Others
  PROVE  Linked'
<1> USE DEF Linked
<1>n. NoObject \notin Objects
  BY BunkerAssumption DEF BunkerAssumption
<1>1. ASSUME NEW o \in Objects, ~Unused(o), ~Unused(o)' PROVE Kept(o)
  BY <1>1 DEF RequestShape
<1>2. ASSUME NEW o \in Objects, ~Unused(o) PROVE idOf'[o] = idOf[o]
  BY <1>2 DEF RequestShape, Kept
<1>3. ASSUME NEW u \in Threads PROVE Placed(u)'
  <2>1. CASE u = t
    BY <2>1
  <2>2. CASE u # t
    <3>1. frame'[u] = frame[u] /\ req'[u] = req[u]
      BY <2>2 DEF RequestShape
    <3>2. req[u].pc \in HasObject => idOf'[req[u].o] = idOf[req[u].o]
      BY <1>2, InUse DEF LinkedTo
    <3> QED
      BY <3>1, <3>2 DEF Placed, LinkedTo, ServiceTypeOK, Self
  <2> QED BY <2>1, <2>2
<1>4. ServiceTypeOK'
  BY <1>3, OthersType DEF RequestTypes, ServiceTypeOK, Placed
<1>5. ASSUME NEW i \in Ids, registry'[i] # NoObject
      PROVE  idOf'[registry'[i]] = i
  <2>1. CASE registry'[i] = registry[i]
    <3>1. registry[i] \in Objects
      BY <1>5, <2>1 DEF ServiceTypeOK
    <3> QED BY <1>2, <1>5, <2>1, <3>1, InUse
  <2>2. CASE /\ i = req[t].id /\ registry'[i] = req[t].o
             /\ req[t].o \in Objects
    <3>1. idOf[req[t].o] = i
      BY <1>n, <2>2 DEF LinkedTo
    <3> QED BY <1>2, <2>2, <3>1, InUse
  <2> QED BY <2>1, <2>2 DEF RequestShape
<1>6. ASSUME NEW o \in Objects, Unused(o)' PROVE Pristine(o)'
  BY <1>6, InUseNext DEF RequestShape, Kept, Pristine
<1>7. \A i \in Ids : row'[i].state = "none" => row'[i] = NoRow
  BY DEF RequestShape
<1> QED BY <1>3, <1>4, <1>5, <1>6, <1>7 DEF Placed
-----------------------------------------------------------------------------
(* The steps of a request outside the methods, each with its shape.         *)

LEMMA Constants ==
  /\ Idle \in Frame /\ NoRequest \in Request /\ Fresh \in Instance
  /\ NoRow \in Record /\ "DESTROYED" \in States!BunkerState
<1>1. 0 \in 0..NumLayers
  BY BunkerAssumption DEF BunkerAssumption
<1> QED
  BY <1>1
  DEF Idle, Frame, NoRequest, Request, ReqPcs, Fresh, Instance, NoRow, Record,
      States!BunkerState

\* what the end of a request leaves unreached is as good as new
LEMMA CollectShape ==
  ASSUME Collect(registry', req'), idOf' = idOf, NEW o \in Objects
  PROVE  \/ Kept(o) /\ (Unused(o)' => Unused(o))
         \/ Unused(o)' /\ Pristine(o)' /\ idOf'[o] = idOf[o]
<1>1. CASE o \in Reached(registry', req')
  BY <1>1 DEF Collect, Kept, Unused
<1>2. CASE o \notin Reached(registry', req')
  BY <1>2 DEF Collect, Unused, Pristine
<1> QED BY <1>1, <1>2

LEMMA CollectType ==
  ASSUME TypeOK, Collect(registry', req')
  PROVE  /\ state' \in [Objects -> States!BunkerState]
         /\ inst' \in [Objects -> Instance]
BY Constants DEF TypeOK, Collect

LEMMA FinishShape ==
  ASSUME Linked, NEW t \in Threads, NEW reg, FinishWith(t, reg),
         \/ reg = registry
         \/ /\ req[t].o \in Objects
            /\ reg = [registry EXCEPT ![req[t].id] = req[t].o],
         host' = host, row' \in [Ids -> Record],
         \A i \in Ids :
           row'[i] = row[i] \/ (i = req[t].id /\ row'[i] = NoRow)
  PROVE  /\ RequestShape(t) /\ RequestTypes' /\ Placed(t)'
         /\ req'[t] = NoRequest /\ frame'[t] = Idle
<1>1. /\ registry' = reg /\ req' = [req EXCEPT ![t] = NoRequest]
      /\ frame' = [frame EXCEPT ![t] = Idle]
      /\ Collect(registry', req') /\ idOf' = idOf
  BY DEF FinishWith
<1>2. /\ registry \in [Ids -> Objects \cup {NoObject}]
      /\ req \in [Threads -> Request] /\ frame \in [Threads -> Frame] /\ TypeOK
  BY DEF Linked, ServiceTypeOK, TypeOK
<1>3. req'[t] = NoRequest /\ frame'[t] = Idle
  BY <1>1, <1>2
<1>4. /\ \A u \in Threads \ {t} : frame'[u] = frame[u] /\ req'[u] = req[u]
      /\ frame' \in [Threads -> Frame] /\ req' \in [Threads -> Request]
  BY <1>1, <1>2, Constants
<1>5. /\ registry' \in [Ids -> Objects \cup {NoObject}]
      /\ \A i \in Ids :
           \/ registry'[i] = registry[i]
           \/ i = req[t].id /\ registry'[i] = req[t].o /\ req[t].o \in Objects
  BY <1>1, <1>2
<1>6. RequestShape(t)
  BY <1>1, <1>4, <1>5, CollectShape DEF RequestShape
<1>7. TypeOK'
  <2>1. \A u \in Threads : frame'[u].pc # "idle" => frame'[u].o \in Objects
    BY <1>2, <1>3, <1>4 DEF TypeOK, Idle
  <2> QED BY <1>1, <1>2, <1>4, <2>1, CollectType DEF TypeOK
<1>8. Placed(t)'
  BY <1>3 DEF Placed, LinkedTo, NoRequest, Idle, CommandsAt, HasObject
<1> QED BY <1>3, <1>4, <1>5, <1>6, <1>7, <1>8 DEF RequestTypes

\* a step that neither makes nor ends anything
LEMMA StandShape ==
  ASSUME Linked, NEW t \in Threads, NEW r \in Request,
         req' = [req EXCEPT ![t] = r], r.o = req[t].o \/ req[t].o = NoObject,
         UNCHANGED <<state, inst, idOf, host, row, registry>>,
         frame' \in [Threads -> Frame],
         \A u \in Threads \ {t} : frame'[u] = frame[u],
         frame'[t].pc # "idle" => frame'[t].o \in Objects
  PROVE  /\ RequestShape(t) /\ RequestTypes' /\ req'[t] = r
<1>n. NoObject \notin Objects
  BY BunkerAssumption DEF BunkerAssumption
<1>2. /\ registry \in [Ids -> Objects \cup {NoObject}]
      /\ req \in [Threads -> Request] /\ frame \in [Threads -> Frame] /\ TypeOK
  BY DEF Linked, ServiceTypeOK, TypeOK
<1>3. /\ req'[t] = r /\ req' \in [Threads -> Request]
      /\ \A u \in Threads \ {t} : req'[u] = req[u]
  BY <1>2
<1>4. ASSUME NEW o \in Objects PROVE Kept(o) /\ (Unused(o)' => Unused(o))
  <2>1. Unused(o)' => Unused(o)
    BY <1>n, <1>3, InUse, InUseNext
  <2> QED BY <2>1 DEF Kept
<1>5. TypeOK'
  BY <1>2 DEF TypeOK
<1> QED BY <1>2, <1>3, <1>4, <1>5 DEF RequestShape, RequestTypes

LEMMA EnterType ==
  ASSUME TypeOK, NEW t \in Threads, NEW o \in Objects, NEW e \in Entry,
         Enter(t, o, e)
  PROVE  /\ frame' \in [Threads -> Frame] /\ frame'[t].o = o /\ frame'[t].pc = e
         /\ frame'[t].pc # "idle"
         /\ \A u \in Threads \ {t} : frame'[u] = frame[u]
<1> DEFINE f == [Idle EXCEPT !.pc = e, !.o = o]
<1>1. /\ f \in Frame /\ f.pc = e /\ f.o = o /\ e # "idle"
  BY Constants DEF Idle, Frame, Entry, InitPcs, ActPcs, TermPcs, QuarPcs
<1>2. frame' = [frame EXCEPT ![t] = f] /\ frame \in [Threads -> Frame]
  BY DEF Enter, TypeOK
<1> HIDE DEF f
<1> QED BY <1>1, <1>2

\* an object nobody refers to becomes the request's
LEMMA MadeShape ==
  ASSUME Linked, NEW t \in Threads, req[t].id \in Ids, req[t].o = NoObject,
         NEW o \in Objects, Unused(o), NEW r \in Request, r.o = o,
         req' = [req EXCEPT ![t] = r],
         idOf' = [idOf EXCEPT ![o] = req[t].id],
         UNCHANGED <<host, row, registry>>,
         \A p \in Objects \ {o} : state'[p] = state[p] /\ inst'[p] = inst[p],
         state' \in [Objects -> States!BunkerState],
         inst' \in [Objects -> Instance],
         frame' \in [Threads -> Frame],
         \A u \in Threads \ {t} : frame'[u] = frame[u],
         frame'[t].pc # "idle" => frame'[t].o \in Objects
  PROVE  /\ RequestShape(t) /\ RequestTypes' /\ req'[t] = r
         /\ idOf'[o] = req[t].id
<1>n. NoObject \notin Objects
  BY BunkerAssumption DEF BunkerAssumption
<1>2. /\ registry \in [Ids -> Objects \cup {NoObject}]
      /\ req \in [Threads -> Request] /\ frame \in [Threads -> Frame] /\ TypeOK
      /\ idOf \in [Objects -> Ids]
  BY DEF Linked, ServiceTypeOK, TypeOK
<1>3. /\ req'[t] = r /\ req' \in [Threads -> Request]
      /\ \A u \in Threads \ {t} : req'[u] = req[u]
      /\ idOf' \in [Objects -> Ids] /\ idOf'[o] = req[t].id
      /\ \A p \in Objects \ {o} : idOf'[p] = idOf[p]
  BY <1>2
<1>4. ASSUME NEW p \in Objects \ {o} PROVE Kept(p) /\ (Unused(p)' => Unused(p))
  <2>1. Unused(p)' => Unused(p)
    BY <1>n, <1>3, InUse, InUseNext
  <2> QED BY <1>3, <2>1 DEF Kept
<1>5. TypeOK'
  BY <1>2, <1>3 DEF TypeOK
<1>6. \A p \in Objects :
        \/ Kept(p) /\ (Unused(p)' => Unused(p))
        \/ Unused(p) /\ p = req'[t].o
  BY <1>3, <1>4
<1> QED BY <1>2, <1>3, <1>5, <1>6 DEF RequestShape, RequestTypes
-----------------------------------------------------------------------------
(* What each step of a request comes to.                                    *)

\* the request is in no method, and has no answer of one to act on
Quiet(t) ==
  frame'[t].pc = "idle" /\ req'[t].pc \notin {"call", "call2", "rollback"}

\* a new bunker, about to be initialized
Constructed(t) ==
  LET o == req'[t].o IN
  /\ req[t].cmd \in {"create", "cli_start"} /\ req[t].id \in Ids
  /\ req[t].cmd = "create" => row[req[t].id] = NoRow
  /\ o \in Objects /\ Unused(o)
  /\ req'[t] = [req[t] EXCEPT !.pc = "call", !.o = o]
  /\ frame'[t].pc = "init_begin"
  /\ UNCHANGED <<state, inst, row, registry>>

\* a bunker with what the row tells of it
Restored(t) ==
  LET i == req[t].id
      o == req'[t].o IN
  /\ i \in Ids /\ row[i] # NoRow /\ o \in Objects /\ Unused(o)
  /\ req'[t].id = i /\ req'[t].cmd = req[t].cmd
  /\ state'[o] = row[i].state
  /\ inst'[o].vm = row[i].vm /\ inst'[o].switch = row[i].switch
  /\ \/ Quiet(t) /\ req'[t].pc = "register"
     \/ /\ req'[t].pc = "call" /\ req[t].cmd = "cli_stop"
        /\ frame'[t].pc = "term_check"
  /\ UNCHANGED <<row, registry>>

\* a method on the bunker the request has
Entered(t) ==
  LET o == req[t].o IN
  /\ o \in Objects /\ req'[t].o = o /\ req'[t].id = req[t].id
  /\ req'[t].cmd = req[t].cmd
  /\ \/ /\ req[t].cmd \in {"start", "stop", "activate"}
        /\ req[t].pc = "check" /\ req'[t].pc = "call"
        /\ state[o] = Expected[req[t].cmd]
        /\ frame'[t].pc = Method[req[t].cmd]
     \/ /\ req[t].cmd = "cli_start"
        /\ req[t].pc = "call" /\ req'[t].pc = "call2"
        /\ frame[t].pc = "idle" /\ frame[t].result = "true"
        /\ frame'[t].pc = "act_check"
  /\ UNCHANGED <<state, inst, row, registry>>

\* a create that is to be undone
Failed(t) ==
  /\ req[t].cmd = "create" /\ req[t].pc = "call"
  /\ frame[t].pc = "idle" /\ frame[t].result # "true"
  /\ req' = [req EXCEPT ![t].pc = "rollback"]
  /\ UNCHANGED <<state, inst, frame, row, registry>>

\* the request is over, or looks the bunker up or puts it into the registry
Passed(t) ==
  /\ Quiet(t)
  /\ \A o \in Objects : ~Unused(o)' => ~Unused(o)
  /\ \/ row' = row
     \/ /\ req[t].pc = "rollback" /\ frame[t].pc = "idle"
        /\ row' = [row EXCEPT ![req[t].id] = NoRow]
  /\ \/ registry' = registry
     \/ /\ registry' = [registry EXCEPT ![req[t].id] = req[t].o]
        /\ frame[t].pc = "idle" /\ req[t].o \in Objects
        /\ \/ req[t].pc = "register"
           \/ /\ req[t].pc = "call" /\ req[t].cmd = "create"
              /\ frame[t].result = "true"

Served(t) ==
  /\ RequestShape(t) /\ RequestTypes' /\ Placed(t)'
  /\ \/ Constructed(t) \/ Restored(t) \/ Entered(t) \/ Failed(t) \/ Passed(t)

\* a step after which no more is reached than before
LEMMA NothingNew ==
  ASSUME Linked, NEW t \in Threads, RequestShape(t),
         req'[t].o \in {req[t].o, NoObject} \cup {registry[i] : i \in Ids}
  PROVE  \A o \in Objects : ~Unused(o)' => ~Unused(o)
<1>n. NoObject \notin Objects
  BY BunkerAssumption DEF BunkerAssumption
<1> QED BY <1>n, InUse, InUseNext DEF RequestShape

LEMMA FinishServed ==
  ASSUME Linked, NEW t \in Threads, NEW reg, FinishWith(t, reg), host' = host,
         frame[t].pc = "idle",
         \/ reg = registry
         \/ /\ req[t].o \in Objects
            /\ reg = [registry EXCEPT ![req[t].id] = req[t].o]
            /\ req[t].pc = "call" /\ req[t].cmd = "create"
            /\ frame[t].result = "true",
         \/ row' = row
         \/ /\ req[t].pc = "rollback" /\ frame[t].pc = "idle"
            /\ row' = [row EXCEPT ![req[t].id] = NoRow]
  PROVE  Served(t)
<1>1. row \in [Ids -> Record]
  BY DEF Linked, ServiceTypeOK, TypeOK
<1>2. /\ row' \in [Ids -> Record]
      /\ \A i \in Ids :
           row'[i] = row[i] \/ (i = req[t].id /\ row'[i] = NoRow)
  BY <1>1, Constants
<1>3. /\ RequestShape(t) /\ RequestTypes' /\ Placed(t)'
      /\ req'[t] = NoRequest /\ frame'[t] = Idle /\ registry' = reg
  BY <1>2, FinishShape DEF FinishWith
<1>4. Quiet(t)
  BY <1>3 DEF Quiet, NoRequest, Idle
<1>5. \A o \in Objects : ~Unused(o)' => ~Unused(o)
  BY <1>3, NothingNew DEF NoRequest
<1> QED BY <1>3, <1>4, <1>5 DEF Served, Passed

LEMMA InvokeServed ==
  ASSUME Linked, NEW t \in Threads, NEW c \in Commands, NEW i \in Ids,
         Invoke(t, c, i)
  PROVE  Served(t) /\ req[t].pc = "idle" /\ UNCHANGED <<frame, row, registry>>
<1> DEFINE l == CASE c = "create" -> "exists"
                  [] c \in {"start", "stop", "activate", "get"} -> "lookup"
                  [] OTHER -> "load"
           r == [pc |-> l, cmd |-> c, id |-> i, o |-> NoObject]
<1>1. c \in ApiCommands \cup CliCommands
  BY ServiceAssumption DEF ServiceAssumption
<1>2. \/ c = "create" /\ l = "exists"
      \/ c \in LookupCommands /\ l = "lookup"
      \/ c \in CliCommands /\ l = "load"
  BY <1>1 DEF ApiCommands, CliCommands, LookupCommands
<1>3. r \in Request /\ r.o = NoObject /\ r.pc \in {"exists", "lookup", "load"}
      /\ r.pc = l /\ r.cmd = c /\ r.id = i
  BY <1>2 DEF Request, ReqPcs
<1>4. /\ req' = [req EXCEPT ![t] = r] /\ req[t].pc = "idle"
      /\ frame[t].pc = "idle" /\ frame' = frame
      /\ UNCHANGED <<state, inst, idOf, host, row, registry>>
  BY DEF Invoke, ReqAt, At, Same
<1> HIDE DEF r
<1>5. req[t].o = NoObject /\ frame \in [Threads -> Frame]
  BY <1>4 DEF Linked, LinkedTo, HasObject, ServiceTypeOK, TypeOK
<1>6. RequestShape(t) /\ RequestTypes' /\ req'[t] = r
  BY <1>3, <1>4, <1>5, StandShape
<1>7. Placed(t)'
  <2>1. c \in CommandsAt(l)
    BY <1>2 DEF CommandsAt, LookupCommands
  <2> HIDE DEF l
  <2> QED BY <1>3, <1>4, <1>6, <2>1 DEF Placed, LinkedTo, HasObject
<1>8. \A o \in Objects : ~Unused(o)' => ~Unused(o)
  BY <1>3, <1>6, NothingNew
<1>9. Quiet(t)
  BY <1>3, <1>4, <1>6 DEF Quiet
<1> QED BY <1>4, <1>6, <1>7, <1>8, <1>9 DEF Served, Passed
LEMMA ConstructServed ==
  ASSUME Linked, NEW t \in Threads, NEW o \in Objects, Construct(t, o),
         req[t].pc \in {"exists", "load"}, req[t].cmd \in {"create", "cli_start"},
         req[t].cmd = "create" => row[req[t].id] = NoRow
  PROVE  Served(t)
<1> DEFINE r == [req[t] EXCEPT !.pc = "call", !.o = o]
<1>1. /\ req[t] \in Request /\ req \in [Threads -> Request] /\ TypeOK
      /\ req[t].id \in Ids /\ req[t].o = NoObject
  BY DEF Linked, LinkedTo, HasObject, ServiceTypeOK
<1>2. /\ r \in Request /\ r.pc = "call" /\ r.o = o /\ r.cmd = req[t].cmd
      /\ r.id = req[t].id
  BY <1>1 DEF Request, ReqPcs
<1>3. /\ Unused(o) /\ idOf' = [idOf EXCEPT ![o] = req[t].id]
      /\ req' = [req EXCEPT ![t] = r]
      /\ Enter(t, o, "init_begin")
      /\ UNCHANGED <<state, inst, host, row, registry>>
  BY <1>1 DEF Construct
<1> HIDE DEF r
<1>4. /\ frame' \in [Threads -> Frame] /\ frame'[t].o = o
      /\ frame'[t].pc = "init_begin"
      /\ \A u \in Threads \ {t} : frame'[u] = frame[u]
  BY <1>1, <1>3, EnterType DEF Entry
<1>5. /\ RequestShape(t) /\ RequestTypes' /\ req'[t] = r
      /\ idOf'[o] = req[t].id
  BY <1>1, <1>2, <1>3, <1>4, MadeShape DEF TypeOK
<1>6. Placed(t)'
  BY <1>1, <1>2, <1>4, <1>5
  DEF Placed, LinkedTo, HasObject, CommandsAt, ApiCommands, CliCommands, Self
<1>7. Constructed(t)
  BY <1>1, <1>2, <1>3, <1>4, <1>5 DEF Constructed, r
<1> QED BY <1>5, <1>6, <1>7 DEF Served

LEMMA RestoreServed ==
  ASSUME Linked, NEW t \in Threads, NEW o \in Objects, Restore(t, o),
         req[t].pc = "load", req[t].cmd # "cli_start", row[req[t].id] # NoRow,
         UNCHANGED <<host, row, registry>>, At(t, "idle"),
         IF req[t].cmd = "cli_stop"
         THEN /\ req' = [req EXCEPT ![t].pc = "call", ![t].o = o]
              /\ Enter(t, o, "term_check")
         ELSE /\ req' = [req EXCEPT ![t].pc = "register", ![t].o = o]
              /\ UNCHANGED frame
  PROVE  Served(t)
<1> DEFINE i == req[t].id
           stop == req[t].cmd = "cli_stop"
           l == IF stop THEN "call" ELSE "register"
           r == [req[t] EXCEPT !.pc = l, !.o = o]
           x == [inst[o] EXCEPT !.vm = row[i].vm, !.switch = row[i].switch]
<1>1. /\ req[t] \in Request /\ req \in [Threads -> Request] /\ TypeOK
      /\ i \in Ids /\ req[t].o = NoObject
      /\ req[t].cmd \in LookupCommands \cup {"cli_stop"}
      /\ row[i].state = "none" => row[i] = NoRow
  BY DEF Linked, LinkedTo, HasObject, ServiceTypeOK, CommandsAt, CliCommands
<1>2. /\ r \in Request /\ r.pc = l /\ r.o = o /\ r.cmd = req[t].cmd
      /\ r.id = i /\ l \in {"call", "register"}
  BY <1>1 DEF Request, ReqPcs
<1>3. /\ req' = [req EXCEPT ![t] = r]
      /\ IF stop THEN Enter(t, o, "term_check") ELSE UNCHANGED frame
  BY <1>1
<1>4. /\ frame' \in [Threads -> Frame]
      /\ IF stop THEN frame'[t].pc = "term_check" /\ frame'[t].o = o
                 ELSE frame'[t].pc = "idle"
      /\ \A u \in Threads \ {t} : frame'[u] = frame[u]
  <2>1. CASE stop
    BY <1>1, <1>3, <2>1, EnterType DEF Entry
  <2>2. CASE ~stop
    BY <1>1, <1>3, <2>2 DEF TypeOK, At
  <2> QED BY <2>1, <2>2
<1>5. /\ Unused(o) /\ idOf' = [idOf EXCEPT ![o] = i]
      /\ state' = [state EXCEPT ![o] = row[i].state]
      /\ inst' = [inst EXCEPT ![o] = x]
  BY <1>1 DEF Restore, TypeOK
<1>6. /\ row[i] \in Record /\ inst[o] \in Instance
      /\ state \in [Objects -> States!BunkerState]
      /\ inst \in [Objects -> Instance]
  BY <1>1 DEF TypeOK
<1>7. x \in Instance /\ x.vm = row[i].vm /\ x.switch = row[i].switch
  BY <1>6 DEF Instance, Record
<1>8. row[i].state \in States!BunkerState
  BY <1>1, <1>6 DEF Record
<1> HIDE DEF r, x, l
<1>9. /\ state' \in [Objects -> States!BunkerState]
      /\ inst' \in [Objects -> Instance]
      /\ state'[o] = row[i].state
      /\ inst'[o].vm = row[i].vm /\ inst'[o].switch = row[i].switch
      /\ \A p \in Objects \ {o} : state'[p] = state[p] /\ inst'[p] = inst[p]
  BY <1>5, <1>6, <1>7, <1>8
<1>10. /\ RequestShape(t) /\ RequestTypes' /\ req'[t] = r
       /\ idOf'[o] = req[t].id
  <2>1. frame'[t].pc # "idle" => frame'[t].o \in Objects
    BY <1>4
  <2>2. UNCHANGED <<host, row, registry>>
    OBVIOUS
  <2>3. /\ req[t].id \in Ids /\ req[t].o = NoObject /\ Unused(o) /\ r \in Request
        /\ r.o = o /\ req' = [req EXCEPT ![t] = r]
        /\ idOf' = [idOf EXCEPT ![o] = req[t].id]
    BY <1>1, <1>2, <1>3, <1>5
  <2>4. /\ frame' \in [Threads -> Frame]
        /\ \A u \in Threads \ {t} : frame'[u] = frame[u]
    BY <1>4
  <2> QED BY <1>9, <2>1, <2>2, <2>3, <2>4, MadeShape
<1>11. /\ stop => l = "call"
       /\ ~stop => l = "register"
  BY DEF l
<1>12. Placed(t)'
  <2>1. CASE stop
    BY <1>1, <1>2, <1>4, <1>10, <1>11, <2>1
    DEF Placed, LinkedTo, HasObject, CommandsAt, ApiCommands, CliCommands, Self
  <2>2. CASE ~stop
    BY <1>1, <1>2, <1>4, <1>10, <1>11, <2>2
    DEF Placed, LinkedTo, HasObject, CommandsAt
  <2> QED BY <2>1, <2>2
<1>13. \/ Quiet(t) /\ req'[t].pc = "register"
       \/ /\ req'[t].pc = "call" /\ req[t].cmd = "cli_stop"
          /\ frame'[t].pc = "term_check"
  BY <1>2, <1>4, <1>10, <1>11 DEF Quiet
<1>14. Restored(t)
  BY <1>1, <1>2, <1>5, <1>9, <1>10, <1>13 DEF Restored
<1> QED BY <1>10, <1>12, <1>14 DEF Served

\* a method is entered on the bunker the request has
LEMMA EnterServed ==
  ASSUME Linked, NEW t \in Threads, NEW l \in {"call", "call2"},
         NEW e \in {"init_begin", "act_check", "term_check"},
         req[t].o \in Objects, req[t].pc \in HasObject,
         req[t].cmd \in CommandsAt(l),
         ReqGoto(t, l), Enter(t, req[t].o, e), Same, UNCHANGED registry
  PROVE  /\ RequestShape(t) /\ RequestTypes' /\ Placed(t)'
         /\ req'[t].pc = l /\ req'[t].o = req[t].o /\ req'[t].id = req[t].id
         /\ req'[t].cmd = req[t].cmd /\ frame'[t].pc = e
<1> DEFINE o == req[t].o
           r == [req[t] EXCEPT !.pc = l]
<1>1. /\ req[t] \in Request /\ req \in [Threads -> Request] /\ TypeOK
      /\ req[t].id \in Ids /\ idOf[o] = req[t].id
  BY DEF Linked, LinkedTo, HasObject, ServiceTypeOK
<1>2. /\ r \in Request /\ r.pc = l /\ r.o = o /\ r.cmd = req[t].cmd
      /\ r.id = req[t].id
  BY <1>1 DEF Request, ReqPcs
<1>3. req' = [req EXCEPT ![t] = r] /\ UNCHANGED <<state, inst, idOf, host, row>>
  BY <1>1 DEF ReqGoto, Same
<1>4. /\ frame' \in [Threads -> Frame] /\ frame'[t].o = o /\ frame'[t].pc = e
      /\ \A u \in Threads \ {t} : frame'[u] = frame[u]
  BY <1>1, EnterType DEF Entry
<1> HIDE DEF r
<1>5. RequestShape(t) /\ RequestTypes' /\ req'[t] = r
  BY <1>2, <1>3, <1>4, StandShape
<1>6. Placed(t)'
  BY <1>1, <1>2, <1>3, <1>4, <1>5 DEF Placed, LinkedTo, HasObject, Self
<1> QED BY <1>2, <1>4, <1>5, <1>6

LEMMA CheckServed ==
  ASSUME Linked, NEW t \in Threads, Check(t)
  PROVE  Served(t)
<1>1. /\ req[t].pc = "check" /\ frame[t].pc = "idle" /\ req[t].o \in Objects
      /\ req[t].cmd \in LookupCommands
  BY DEF Check, ReqAt, At, Linked, LinkedTo, HasObject, CommandsAt
<1>2. CASE Finish(t) /\ UNCHANGED <<host, row>>
  BY <1>1, <1>2, FinishServed DEF Finish
<1>3. CASE /\ req[t].cmd # "get" /\ state[req[t].o] = Expected[req[t].cmd]
           /\ ReqGoto(t, "call")
           /\ Enter(t, req[t].o, Method[req[t].cmd])
           /\ Same /\ UNCHANGED registry
  <2>1. req[t].cmd \in {"start", "stop", "activate"}
    BY <1>1, <1>3 DEF LookupCommands
  <2>2. Method[req[t].cmd] \in {"init_begin", "act_check", "term_check"}
    BY <2>1 DEF Method
  <2>3. req[t].cmd \in CommandsAt("call")
    BY <2>1 DEF CommandsAt, ApiCommands
  <2>4. /\ RequestShape(t) /\ RequestTypes' /\ Placed(t)'
        /\ req'[t].pc = "call" /\ req'[t].o = req[t].o
        /\ req'[t].id = req[t].id /\ req'[t].cmd = req[t].cmd
        /\ frame'[t].pc = Method[req[t].cmd]
    BY <1>1, <1>3, <2>2, <2>3, EnterServed DEF HasObject
  <2>5. Entered(t)
    BY <1>1, <1>3, <2>1, <2>4 DEF Entered, Same
  <2> QED BY <2>4, <2>5 DEF Served
<1> QED BY <1>2, <1>3 DEF Check

LEMMA CliActivateServed ==
  ASSUME Linked, NEW t \in Threads, CliActivate(t)
  PROVE  Served(t)
<1>1. /\ req[t].pc = "call" /\ frame[t].pc = "idle" /\ req[t].o \in Objects
      /\ req[t].cmd = "cli_start"
  BY DEF CliActivate, ReqAt, At, Linked, LinkedTo, HasObject
<1>2. CASE Finish(t) /\ UNCHANGED <<host, row>>
  BY <1>1, <1>2, FinishServed DEF Finish
<1>3. CASE /\ frame[t].result = "true" /\ ReqGoto(t, "call2")
           /\ Enter(t, req[t].o, "act_check")
           /\ Same /\ UNCHANGED registry
  <2>1. "cli_start" \in CommandsAt("call2")
    BY DEF CommandsAt
  <2>2. /\ RequestShape(t) /\ RequestTypes' /\ Placed(t)'
        /\ req'[t].pc = "call2" /\ req'[t].o = req[t].o
        /\ req'[t].id = req[t].id /\ req'[t].cmd = req[t].cmd
        /\ frame'[t].pc = "act_check"
    BY <1>1, <1>3, <2>1, EnterServed DEF HasObject
  <2>3. Entered(t)
    BY <1>1, <1>3, <2>2 DEF Entered, Same
  <2> QED BY <2>2, <2>3 DEF Served
<1> QED BY <1>2, <1>3 DEF CliActivate
LEMMA LookupServed ==
  ASSUME Linked, NEW t \in Threads, Lookup(t)
  PROVE  Served(t)
<1> DEFINE o == registry[req[t].id]
           l == IF o = NoObject THEN "load" ELSE "check"
           r == [req[t] EXCEPT !.pc = l, !.o = o]
<1>1. /\ req[t] \in Request /\ req \in [Threads -> Request] /\ TypeOK
      /\ req[t].id \in Ids /\ req[t].o = NoObject /\ req[t].pc = "lookup"
      /\ req[t].cmd \in LookupCommands
      /\ o \in Objects \cup {NoObject}
      /\ o # NoObject => idOf[o] = req[t].id
      /\ frame[t].pc = "idle" /\ frame \in [Threads -> Frame]
  BY DEF Linked, LinkedTo, HasObject, ServiceTypeOK, TypeOK, Lookup, ReqAt, At,
         CommandsAt
<1>2. /\ r \in Request /\ r.pc = l /\ r.o = o /\ r.cmd = req[t].cmd
      /\ r.id = req[t].id
  BY <1>1 DEF Request, ReqPcs
<1>3. /\ req' = [req EXCEPT ![t] = r] /\ frame' = frame
      /\ UNCHANGED <<state, inst, idOf, host, row, registry>>
  BY <1>1 DEF Lookup, Same
<1>4. \/ o = NoObject /\ l = "load"
      \/ o \in Objects /\ l = "check"
  BY <1>1
<1> HIDE DEF r, l
<1>5. RequestShape(t) /\ RequestTypes' /\ req'[t] = r
  BY <1>1, <1>2, <1>3, StandShape
<1>6. Placed(t)'
  <2>1. CASE o = NoObject /\ l = "load"
    BY <1>1, <1>2, <1>3, <1>5, <2>1
    DEF Placed, LinkedTo, HasObject, CommandsAt, LookupCommands
  <2>2. CASE o \in Objects /\ l = "check"
    <3>1. o # NoObject
      BY <2>2, BunkerAssumption DEF BunkerAssumption
    <3> QED
      BY <1>1, <1>2, <1>3, <1>5, <2>2, <3>1
      DEF Placed, LinkedTo, HasObject, CommandsAt
  <2> QED BY <1>4, <2>1, <2>2
<1>7. \A p \in Objects : ~Unused(p)' => ~Unused(p)
  BY <1>1, <1>2, <1>5, NothingNew
<1>8. Quiet(t)
  BY <1>1, <1>2, <1>3, <1>4, <1>5 DEF Quiet
<1> QED BY <1>3, <1>5, <1>6, <1>7, <1>8 DEF Served, Passed

LEMMA RegisterServed ==
  ASSUME Linked, NEW t \in Threads, Register(t)
  PROVE  Served(t)
<1> DEFINE o == req[t].o
           r == [req[t] EXCEPT !.pc = "check"]
<1>1. /\ req[t] \in Request /\ req \in [Threads -> Request] /\ TypeOK
      /\ req[t].id \in Ids /\ o \in Objects /\ req[t].pc = "register"
      /\ idOf[o] = req[t].id /\ req[t].cmd \in LookupCommands
      /\ registry \in [Ids -> Objects \cup {NoObject}]
      /\ frame[t].pc = "idle" /\ frame \in [Threads -> Frame]
  BY DEF Linked, LinkedTo, HasObject, ServiceTypeOK, TypeOK, Register, ReqAt, At,
         CommandsAt
<1>2. /\ r \in Request /\ r.pc = "check" /\ r.o = o /\ r.cmd = req[t].cmd
      /\ r.id = req[t].id
  BY <1>1 DEF Request, ReqPcs
<1>3. /\ req' = [req EXCEPT ![t] = r]
      /\ registry' = [registry EXCEPT ![req[t].id] = o]
      /\ Collect(registry', req')
      /\ UNCHANGED <<idOf, host, row, frame>>
  BY <1>1 DEF Register
<1> HIDE DEF r
<1>4. /\ req'[t] = r /\ req' \in [Threads -> Request]
      /\ \A u \in Threads \ {t} : req'[u] = req[u]
  BY <1>1, <1>2, <1>3
<1>5. /\ registry' \in [Ids -> Objects \cup {NoObject}]
      /\ \A i \in Ids :
           \/ registry'[i] = registry[i]
           \/ i = req[t].id /\ registry'[i] = o /\ o \in Objects
  BY <1>1, <1>3
<1>6. RequestShape(t)
  BY <1>3, <1>4, <1>5, CollectShape DEF RequestShape
<1>7. TypeOK'
  BY <1>1, <1>3, CollectType DEF TypeOK
<1>8. Placed(t)'
  BY <1>1, <1>2, <1>3, <1>4 DEF Placed, LinkedTo, HasObject, CommandsAt
<1>9. Quiet(t)
  BY <1>1, <1>2, <1>3, <1>4 DEF Quiet
<1>10. \A p \in Objects : ~Unused(p)' => ~Unused(p)
  BY <1>2, <1>4, <1>6, NothingNew
<1>11. Passed(t)
  BY <1>1, <1>3, <1>9, <1>10 DEF Passed
<1> QED BY <1>4, <1>5, <1>6, <1>7, <1>8, <1>11 DEF Served, RequestTypes

LEMMA CreateAnsweredServed ==
  ASSUME Linked, NEW t \in Threads, CreateAnswered(t)
  PROVE  Served(t)
<1>1. /\ req[t].pc = "call" /\ frame[t].pc = "idle" /\ req[t].o \in Objects
      /\ req[t].cmd = "create" /\ req[t].id \in Ids
      /\ req[t] \in Request /\ req \in [Threads -> Request] /\ TypeOK
      /\ idOf[req[t].o] = req[t].id
  BY DEF CreateAnswered, ReqAt, At, Linked, LinkedTo, HasObject, ServiceTypeOK
<1>2. CASE /\ frame[t].result = "true"
           /\ FinishWith(t, [registry EXCEPT ![req[t].id] = req[t].o])
           /\ UNCHANGED <<host, row>>
  BY <1>1, <1>2, FinishServed
<1>3. CASE /\ frame[t].result # "true" /\ ReqGoto(t, "rollback")
           /\ Same /\ UNCHANGED <<frame, registry>>
  <2> DEFINE r == [req[t] EXCEPT !.pc = "rollback"]
  <2>1. /\ r \in Request /\ r.pc = "rollback" /\ r.o = req[t].o
        /\ r.cmd = "create" /\ r.id = req[t].id
    BY <1>1 DEF Request, ReqPcs
  <2>2. req' = [req EXCEPT ![t] = r]
    BY <1>1, <1>3 DEF ReqGoto
  <2> HIDE DEF r
  <2>3. RequestShape(t) /\ RequestTypes' /\ req'[t] = r
    BY <1>1, <1>3, <2>1, <2>2, StandShape DEF Same, TypeOK
  <2>4. Placed(t)'
    BY <1>1, <1>3, <2>1, <2>3
    DEF Placed, LinkedTo, HasObject, CommandsAt, Same
  <2>5. Failed(t)
    BY <1>1, <1>3 DEF Failed, ReqGoto, Same
  <2> QED BY <2>3, <2>4, <2>5 DEF Served
<1> QED BY <1>2, <1>3 DEF CreateAnswered

LEMMA RequestServed ==
  ASSUME Linked, NEW t \in Threads, RequestStep(t)
  PROVE  Served(t)
<1>1. CASE CreateExists(t)
  <2>1. /\ req[t].pc = "exists" /\ frame[t].pc = "idle" /\ req[t].cmd = "create"
    BY <1>1 DEF CreateExists, ReqAt, At, Linked, LinkedTo, CommandsAt
  <2>2. CASE Finish(t) /\ UNCHANGED <<host, row>>
    BY <2>1, <2>2, FinishServed DEF Finish
  <2>3. CASE row[req[t].id] = NoRow /\ \E o \in Objects : Construct(t, o)
    BY <2>1, <2>3, ConstructServed
  <2> QED BY <1>1, <2>2, <2>3 DEF CreateExists
<1>2. CASE CreateAnswered(t)
  BY <1>2, CreateAnsweredServed
<1>3. CASE CreateRollback(t)
  <2>1. req[t].pc = "rollback" /\ frame[t].pc = "idle"
    BY <1>3 DEF CreateRollback, ReqAt, At
  <2> QED BY <1>3, <2>1, FinishServed DEF CreateRollback, Finish
<1>4. CASE Load(t)
  <2>1. /\ req[t].pc = "load" /\ frame[t].pc = "idle" /\ req[t].cmd # "cli_start"
        /\ UNCHANGED <<host, row>>
    BY <1>4 DEF Load, ReqAt, At
  <2>2. CASE Finish(t)
    BY <2>1, <2>2, FinishServed DEF Finish
  <2>3. CASE /\ row[req[t].id] # NoRow
             /\ \E o \in Objects :
                  /\ Restore(t, o)
                  /\ IF req[t].cmd = "cli_stop"
                     THEN /\ req' = [req EXCEPT ![t].pc = "call", ![t].o = o]
                          /\ Enter(t, o, "term_check")
                     ELSE /\ req' = [req EXCEPT ![t].pc = "register", ![t].o = o]
                          /\ UNCHANGED frame
             /\ UNCHANGED registry
    BY <2>1, <2>3, RestoreServed DEF At
  <2> QED BY <1>4, <2>2, <2>3 DEF Load
<1>5. CASE Answered(t) \/ CliStarted(t)
  <2>1. frame[t].pc = "idle" /\ Finish(t) /\ UNCHANGED <<host, row>>
    BY <1>5 DEF Answered, CliStarted, ReqAt, At
  <2> QED BY <2>1, FinishServed DEF Finish
<1>6. CASE CliConstruct(t)
  <2>1. /\ req[t].pc = "load" /\ req[t].cmd = "cli_start"
        /\ \E o \in Objects : Construct(t, o)
    BY <1>6 DEF CliConstruct, ReqAt
  <2> QED BY <2>1, ConstructServed
<1> QED
  BY <1>1, <1>2, <1>3, <1>4, <1>5, <1>6, LookupServed, RegisterServed,
     CheckServed, CliActivateServed
  DEF RequestStep
-----------------------------------------------------------------------------
(* The structural invariant, and the type correctness it carries.           *)

\* what a step inside a method of the request leaves alone
MethodShape(t) ==
  LET o == req[t].o IN
  /\ frame[t].pc # "idle" /\ req[t].pc \in {"call", "call2"}
  /\ o \in Objects /\ Self(t) = o /\ req[t].id \in Ids /\ idOf[o] = req[t].id
  /\ Footprint(t, o) /\ req' = req /\ registry' = registry
  /\ frame'[t].pc # "idle" => Self(t)' = o
  /\ Transits(o) \/ UNCHANGED <<state, row>>

LEMMA MethodShaped ==
  ASSUME Linked, NEW t \in Threads, MethodStep(t)
  PROVE  MethodShape(t) /\ TypeOK'
<1>1. TypeOK /\ Step(t) /\ req' = req /\ registry' = registry
  BY DEF Linked, ServiceTypeOK, MethodStep
<1>2. frame[t].pc # "idle"
  BY <1>1, StepInside
<1>3. /\ req[t].pc \in {"call", "call2"} /\ req[t].id \in Ids
      /\ req[t].o \in Objects /\ Self(t) = req[t].o /\ idOf[req[t].o] = req[t].id
  BY <1>2 DEF Linked, LinkedTo, HasObject, ServiceTypeOK
<1>4. Footprint(t, req[t].o)
  BY <1>1, <1>3, StepFootprint
<1>5. frame'[t].pc # "idle" => Self(t)' = req[t].o
  BY <1>1, <1>3, StepSelf
<1>6. Transits(req[t].o) \/ UNCHANGED <<state, row>>
  BY <1>1, <1>3, StepTransits
<1>7. TypeOK'
  BY <1>1, InitStepType, ActStepType, TermStepType, QuarStepType DEF Step
<1> QED BY <1>1, <1>2, <1>3, <1>4, <1>5, <1>6, <1>7 DEF MethodShape

LEMMA MethodLinked ==
  ASSUME Linked, NEW t \in Threads, MethodStep(t), MethodRemembers(t)
  PROVE  Linked'
<1> DEFINE o == req[t].o
<1>1. MethodShape(t) /\ TypeOK'
  BY MethodShaped
<1>2. /\ frame[t].pc # "idle" /\ req[t].pc \in {"call", "call2"}
      /\ o \in Objects /\ Self(t) = o /\ req[t].id \in Ids
      /\ req' = req /\ registry' = registry /\ idOf' = idOf
      /\ \A u \in Threads \ {t} : frame'[u] = frame[u]
      /\ \A p \in Objects \ {o} : state'[p] = state[p] /\ inst'[p] = inst[p]
      /\ \A i \in Ids \ {idOf[o]} : row'[i] = row[i]
      /\ frame'[t].pc # "idle" => Self(t)' = o
  BY <1>1 DEF MethodShape, Footprint
<1>3. forgotten' \in [Ids -> SUBSET Resources] /\ unsaved' \subseteq Ids
  <2>1. idOf[Self(t)] \in Ids /\ unsaved \subseteq Ids
    BY <1>2 DEF Linked, ServiceTypeOK, TypeOK
  <2>2. \/ unsaved' = unsaved \/ unsaved' = unsaved \cup {idOf[Self(t)]}
        \/ unsaved' = unsaved \ {idOf[Self(t)]}
    BY DEF MethodRemembers
  <2>3. forgotten' \in [Ids -> SUBSET Resources]
    BY <1>1 DEF MethodRemembers, Remember, TypeOK
  <2> QED BY <2>1, <2>2, <2>3
<1>4. ServiceTypeOK'
  <2>1. \A u \in Threads : frame'[u].pc # "idle" => req'[u].pc \in {"call", "call2"}
    BY <1>2 DEF Linked, ServiceTypeOK
  <2> QED BY <1>1, <1>2, <1>3, <2>1 DEF Linked, ServiceTypeOK
<1>5. ASSUME NEW u \in Threads PROVE LinkedTo(u)'
  BY <1>2 DEF Linked, LinkedTo, Self
<1>6. ASSUME NEW i \in Ids, row'[i].state = "none" PROVE row'[i] = NoRow
  <2>1. CASE row'[i] = row[i]
    BY <1>6, <2>1 DEF Linked
  <2>2. CASE row'[i] # row[i]
    <3>1. Transits(o)
      BY <1>1, <2>2 DEF MethodShape
    <3>2. PICK s \in States!BunkerState : Persist(o, s)
      BY <3>1 DEF Transits
    <3> DEFINE rec == [state |-> s, vm |-> inst[o].vm, switch |-> inst[o].switch]
    <3>3. row' = [row EXCEPT ![idOf[o]] = rec]
      BY <2>2, <3>2 DEF Persist
    <3>4. i = idOf[o] /\ rec.state = s /\ s # "none"
      BY <1>2, <2>2 DEF States!BunkerState
    <3> HIDE DEF rec
    <3> QED BY <1>6, <3>3, <3>4 DEF Linked, ServiceTypeOK, TypeOK
  <2> QED BY <2>1, <2>2
<1>7. ASSUME NEW p \in Objects, Unused(p)' PROVE Pristine(p)'
  <2>1. Unused(p) /\ p # o
    BY <1>2, <1>7, InUse, InUseNext
  <2> QED BY <1>2, <2>1 DEF Linked, Pristine
<1> QED BY <1>2, <1>4, <1>5, <1>6, <1>7 DEF Linked

\* what is left after the requests of the threads in ts have died
DieShape(ts) ==
  /\ \A t \in Threads : t \in ts => req'[t] = NoRequest /\ frame'[t] = Idle
  /\ \A t \in Threads : t \notin ts => req'[t] = req[t] /\ frame'[t] = frame[t]
  /\ \A i \in Ids : registry'[i] \in {registry[i], NoObject}
  /\ UNCHANGED <<idOf, host, row>>
  /\ \A o \in Objects : Kept(o) \/ (Unused(o)' /\ Pristine(o)')
  /\ \A o \in Objects : Unused(o)' => Pristine(o)'
  /\ \A o \in Objects : ~Unused(o)' => ~Unused(o)

LEMMA DieShaped ==
  ASSUME Linked, NEW ts, NEW reg, Die(ts, reg),
         reg = registry \/ reg = [i \in Ids |-> NoObject]
  PROVE  /\ DieShape(ts) /\ RequestTypes'
         /\ registry' = reg
<1>1. /\ registry' = reg /\ UNCHANGED <<idOf, host, row>>
      /\ req' = [t \in Threads |-> IF t \in ts THEN NoRequest ELSE req[t]]
      /\ frame' = [t \in Threads |-> IF t \in ts THEN Idle ELSE frame[t]]
      /\ Collect(registry', req')
  BY DEF Die
<1>2. /\ registry \in [Ids -> Objects \cup {NoObject}]
      /\ req \in [Threads -> Request] /\ frame \in [Threads -> Frame] /\ TypeOK
      /\ NoObject \notin Objects
  BY BunkerAssumption DEF Linked, ServiceTypeOK, TypeOK, BunkerAssumption
<1>3. /\ \A i \in Ids : registry'[i] \in {registry[i], NoObject}
      /\ registry' \in [Ids -> Objects \cup {NoObject}]
  BY <1>1, <1>2
<1>4. /\ req' \in [Threads -> Request] /\ frame' \in [Threads -> Frame]
      /\ \A t \in Threads : frame'[t].pc # "idle" => frame'[t].o \in Objects
  BY <1>1, <1>2, Constants DEF TypeOK, Idle
<1>5. TypeOK'
  BY <1>1, <1>2, <1>4, CollectType DEF TypeOK
<1>6. ASSUME NEW o \in Objects
      PROVE  /\ Kept(o) \/ (Unused(o)' /\ Pristine(o)')
             /\ Unused(o)' => Pristine(o)'
             /\ ~Unused(o)' => ~Unused(o)
  <2>1. Unused(o)' => Pristine(o)'
    BY <1>1 DEF Collect, Unused, Pristine
  <2>2. ~Unused(o)' => ~Unused(o)
    BY <1>1, <1>2, <1>3, InUse, InUseNext DEF NoRequest
  <2> QED BY <1>1, <2>1, <2>2, CollectShape
<1> QED BY <1>1, <1>3, <1>4, <1>5, <1>6 DEF DieShape, RequestTypes

LEMMA DieLinked ==
  ASSUME Linked, NEW ts, NEW reg, Die(ts, reg), Others,
         reg = registry \/ reg = [i \in Ids |-> NoObject]
  PROVE  Linked'
<1>1. DieShape(ts) /\ RequestTypes'
  BY DieShaped
<1>2. \A u \in Threads : Placed(u)'
  <2>1. ASSUME NEW u \in Threads, u \in ts PROVE Placed(u)'
    BY <1>1, <2>1
    DEF DieShape, Placed, LinkedTo, NoRequest, Idle, CommandsAt, HasObject
  <2>2. ASSUME NEW u \in Threads, u \notin ts PROVE Placed(u)'
    BY <1>1, <2>2
    DEF DieShape, Placed, LinkedTo, Linked, ServiceTypeOK, Self
  <2> QED BY <2>1, <2>2
<1>3. ServiceTypeOK'
  BY <1>1, <1>2, OthersType DEF Linked, RequestTypes, ServiceTypeOK, Placed
<1> QED BY <1>1, <1>2, <1>3 DEF Linked, DieShape, Placed

LEMMA InitLinked == ServiceInit => Linked
<1> SUFFICES ASSUME ServiceInit PROVE Linked
  OBVIOUS
<1>1. ServiceTypeOK
  BY Constants
  DEF ServiceInit, ServiceTypeOK, TypeOK, NoRequest, Idle
<1> QED
  BY <1>1
  DEF ServiceInit, Linked, LinkedTo, CommandsAt, HasObject, NoRequest, Idle,
      Pristine

LEMMA NextLinked ==
  ASSUME Linked, ServiceNext
  PROVE  Linked'
<1>1. ASSUME NEW t \in Threads, MethodStep(t), MethodRemembers(t) PROVE Linked'
  BY <1>1, MethodLinked
<1>2. ASSUME NEW t \in Threads, RequestStep(t), Others PROVE Linked'
  BY <1>2, RequestServed, ShapeLinked DEF Served
<1>3. ASSUME NEW t \in Threads, NEW c \in Commands, NEW i \in Ids,
             Invoke(t, c, i), Others
      PROVE  Linked'
  BY <1>3, InvokeServed, ShapeLinked DEF Served
<1>4. CASE CrashApi /\ Others
  BY <1>4, DieLinked DEF CrashApi
<1>5. ASSUME NEW t \in Threads, CrashCli(t), Others PROVE Linked'
  BY <1>5, DieLinked DEF CrashCli
<1> QED BY <1>1, <1>2, <1>3, <1>4, <1>5 DEF ServiceNext

LEMMA StutterLinked ==
  ASSUME Linked, UNCHANGED allVars
  PROVE  Linked'
BY DEF Linked, LinkedTo, ServiceTypeOK, TypeOK, Unused, Reached, Pristine, Self,
       allVars, vars, serviceVars

LEMMA LinkedInvariant == ServiceSpec => []Linked
<1>1. Linked /\ [ServiceNext]_allVars => Linked'
  BY NextLinked, StutterLinked
<1> QED BY <1>1, InitLinked, PTL DEF ServiceSpec

\* Every variable of the API and of the command line has its type, whatever
\* requests overlap and whatever process dies; a thread is inside a bunker
\* method only for a request that called it.
THEOREM ServiceTypeCorrect == ServiceSpec => []ServiceTypeOK
<1>1. Linked => ServiceTypeOK
  BY DEF Linked
<1> QED BY <1>1, LinkedInvariant, PTL
-----------------------------------------------------------------------------
(* No two requests on one identifier.  Two that overlap break what follows: *)
(* of two creates the second may roll back the row of the first.            *)

Serialized ==
  \A t, u \in Threads :
    req[t].pc # "idle" /\ req[u].pc # "idle" /\ req[t].id = req[u].id => t = u

\* which method the request is in
Initializing(t) ==
  req[t].pc = "call" /\ req[t].cmd \in {"create", "start", "cli_start"}

Activating(t) ==
  \/ req[t].pc = "call" /\ req[t].cmd = "activate"
  \/ req[t].pc = "call2"

Stopping(t) == req[t].pc = "call" /\ req[t].cmd \in {"stop", "cli_stop"}

\* terminate may be called in any state, and gets past its first step in one
StopPhase(t, o) ==
  /\ frame[t].pc = "term_begin" => state[o] = "ACTIVE"
  /\ frame[t].pc \in Down \ {"term_error"} => state[o] = "TERMINATING"
  /\ frame[t].pc \in TermPcs \ ({"term_check", "term_begin"} \cup Down) =>
       state[o] = "DECONTAMINATING"

Doing(t) ==
  LET o == req[t].o IN
  /\ Initializing(t) =>
       frame[t].pc \in {"idle"} \cup InitPcs /\ InitPhase(t, o)
  /\ Activating(t) =>
       frame[t].pc \in {"idle"} \cup ActPcs /\ ActPhase(t, o)
  /\ Stopping(t) =>
       frame[t].pc \in {"idle"} \cup TermPcs /\ StopPhase(t, o)

\* the states in which a bunker has its VM and its switch
Lively == {"READY", "ACTIVE", "TERMINATING", "DECONTAMINATING"}

Wired(o) == state[o] \in Lively => inst[o].vm /\ inst[o].switch

WiredRow(i) == row[i].state \in Lively => row[i].vm /\ row[i].switch

\* initialize on its way up, and on its way down again
Built(t) ==
  LET o == Self(t) IN
  /\ frame[t].pc \in {"init_vm", "init_guest", "init_ready"} => inst[o].switch
  /\ frame[t].pc \in {"init_guest", "init_ready"} => inst[o].vm
  /\ frame[t].pc \in {"clean_switch", "clean_disk", "init_error"} => ~inst[o].vm
  /\ frame[t].pc \in {"clean_disk", "init_error"} => ~inst[o].switch

\* what decontamination has removed so far, unless one of its steps failed
Emptied(t) ==
  LET i == req[t].id IN
  "silent_switch" \notin Faults =>
    /\ frame[t].pc \in {"decon_power", "decon_disk", "decon_switch", "decon_vm"}
         => frame[t].vm
    /\ frame[t].pc \in {"decon_switch", "decon_vm", "decon_verify", "term_end"}
         /\ frame[t].ok => "disk" \notin host[i]
    /\ frame[t].pc \in {"decon_vm", "decon_verify", "term_end"} /\ frame[t].ok =>
         "switch" \notin host[i]
    /\ frame[t].pc \in {"decon_verify", "term_end"} /\ frame[t].ok =>
         "vm" \notin host[i]

\* from the first transition of initialize on the row says INITIALIZING
Saved(t) ==
  frame[t].pc \in InitPcs \ {"init_begin"} =>
    req[t].id \in unsaved \/ row[req[t].id].state = "INITIALIZING"

\* what the cleanup of initialize has yet to remove
Remains(t) ==
  {r \in {"vm", "switch"} : inst[Self(t)][r]} \cup
  (IF frame[t].pc = "init_error" THEN {} ELSE {"disk"})

\* initialize has come back without a bunker
Undone(t) ==
  /\ frame[t].pc = "idle"
  /\ \/ req[t].pc = "rollback"
     \/ req[t].pc = "call" /\ frame[t].result # "true"

\* a create that fails leaves what was forgotten, and no more
Known(t) ==
  LET i == req[t].id IN
  req[t].cmd = "create" =>
    /\ frame[t].pc = "init_begin" => row[i] = NoRow
    /\ "clean_disk" \notin Faults /\ i \notin unsaved =>
         /\ frame[t].pc \in InitPcs \ {"init_begin"} =>
              host[i] \ forgotten[i] \subseteq Remains(t)
         /\ Undone(t) => host[i] \subseteq forgotten[i]

\* a row that is gone, or says DESTROYED, has left nothing but what was forgotten
Settled(i) ==
  i \notin unsaved =>
    /\ "clean_disk" \notin Faults /\ row[i] = NoRow => host[i] \subseteq forgotten[i]
    /\ "silent_switch" \notin Faults /\ row[i].state = "DESTROYED" =>
         host[i] \subseteq forgotten[i]

\* a request and its bunker
Orderly(t) == Doing(t) /\ Built(t)

Accounted(t) == Emptied(t) /\ Saved(t) /\ Known(t)

ServiceInv ==
  /\ Linked
  /\ \A t \in Threads : Orderly(t) /\ Accounted(t)
  /\ \A o \in Objects : Wired(o)
  /\ \A i \in Ids : WiredRow(i) /\ Settled(i)

-----------------------------------------------------------------------------
(* A step of a method, seen from the request that called it.                *)

LEMMA StopPhaseStep ==
  ASSUME TypeOK, AllAnswers, NEW t \in Threads, NEW o \in Objects, Self(t) = o,
         TermStep(t), StopPhase(t, o)
  PROVE  Stays(t, o, TermPcs) /\ StopPhase(t, o)'
<1> USE DEF At, Self, Goto
<1>p. frame[t].pc \in TermPcs /\ frame[t].pc # "idle"
  BY StepPlace, PlacesApart
<1>o. /\ frame[t].o = o /\ state \in [Objects -> States!BunkerState]
      /\ frame \in [Threads -> Frame]
  BY <1>p DEF TypeOK
<1>1. CASE TermCheck(t)
  <2>1. \/ frame'[t].pc = "term_begin" /\ state'[o] = "ACTIVE"
        \/ frame'[t].pc = "term_error"
    BY <1>1, <1>o DEF TermCheck, Frame
  <2>2. frame'[t].o = o
    BY <1>1, <1>o DEF TermCheck, Frame
  <2> QED BY <2>1, <2>2 DEF Stays, StopPhase, TermPcs, Down
<1>2. CASE TermBegin(t)
  <2>1. state[o] = "ACTIVE"
    BY <1>2 DEF TermBegin, StopPhase
  <2>2. /\ frame'[t].pc = "term_stop" /\ frame'[t].o = o
        /\ state'[o] = "TERMINATING"
    BY <1>2, <1>o, <2>1
    DEF TermBegin, Transition, TransitionTo, Refused, States!Move,
        States!ValidNext, Frame
  <2> QED BY <2>2 DEF Stays, StopPhase, TermPcs, Down
<1>3. CASE TermStop(t) \/ TermLayers(t) \/ TermPower(t)
  <2>1. /\ frame'[t].pc \in Down /\ frame'[t].o = o /\ state' = state
    BY <1>3, <1>o DEF TermStop, TermLayers, TermPower, Frame, Down
  <2>2. state[o] = "TERMINATING"
    BY <1>3 DEF TermStop, TermLayers, TermPower, StopPhase, Down
  <2> QED BY <2>1, <2>2 DEF StopPhase, Stays, Down, TermPcs
<1>4. CASE TermDecon(t)
  <2>1. state[o] = "TERMINATING"
    BY <1>4 DEF TermDecon, StopPhase, Down
  <2>2. /\ frame'[t].pc = "decon_power" /\ frame'[t].o = o
        /\ state'[o] = "DECONTAMINATING"
    BY <1>4, <1>o, <2>1
    DEF TermDecon, TransitionTo, Refused, States!Move, States!ValidNext, Frame
  <2> QED BY <2>2 DEF StopPhase, Stays, Down, TermPcs
<1>5. CASE \/ DeconPower(t) \/ DeconDisk(t) \/ DeconSwitch(t) \/ DeconVm(t)
           \/ DeconVerify(t)
  <2>1. \E l \in {"decon_disk", "decon_switch", "decon_vm", "decon_verify",
                  "term_end"} : \E ok : DeconStep(t, l, ok)
    BY <1>5 DEF DeconPower, DeconDisk, DeconSwitch, DeconVm, DeconVerify
  <2>2. /\ frame'[t].pc \in TermPcs \ ({"term_check", "term_begin"} \cup Down)
        /\ frame'[t].o = o /\ state' = state
    BY <2>1, <1>o DEF DeconStep, TermPcs, Frame, Down
  <2>3. state[o] = "DECONTAMINATING"
    BY <1>5
    DEF DeconPower, DeconDisk, DeconSwitch, DeconVm, DeconVerify, StopPhase,
        TermPcs, Down
  <2> QED BY <2>2, <2>3, PlacesApart DEF StopPhase, Stays
<1>6. CASE TermEnd(t)
  <2>1. state[o] = "DECONTAMINATING"
    BY <1>6 DEF TermEnd, StopPhase, TermPcs, Down
  <2>2. \E r : Return(t, r)
    BY <1>6, <1>o, <2>1
    DEF TermEnd, TransitionTo, Refused, States!Move, States!ValidNext
  <2>3. frame'[t].pc = "idle"
    BY <1>o, <2>2 DEF Return, Idle
  <2> QED BY <2>3 DEF StopPhase, Stays, TermPcs, Down
<1>7. CASE TermError(t)
  <2>1. \E r : Return(t, r)
    BY <1>7 DEF TermError, LastTransition
  <2>2. frame'[t].pc = "idle"
    BY <1>o, <2>1 DEF Return, Idle
  <2> QED BY <2>2 DEF StopPhase, Stays, TermPcs, Down
<1> QED BY <1>1, <1>2, <1>3, <1>4, <1>5, <1>6, <1>7 DEF TermStep
\* a step that moves the bunker writes its row, or leaves the row behind
LEMMA TransitsRow ==
  ASSUME TypeOK, NEW o \in Objects, Transits(o)
  PROVE  LET i == idOf[o] IN
         /\ state'[o] # state[o] /\ state'[o] \in States!ValidNext(state[o])
         /\ UNCHANGED <<inst, idOf, host>>
         /\ \/ row' = row /\ "persist" \in Faults
            \/ row'[i] = [state |-> state'[o], vm |-> inst[o].vm,
                          switch |-> inst[o].switch]
<1>1. PICK s \in States!BunkerState : States!Move(o, s) /\ Persist(o, s)
  BY DEF Transits
<1>2. state'[o] = s /\ s \in States!ValidNext(state[o]) /\ state[o] # s
  BY <1>1 DEF TypeOK, States!Move, States!ValidNext, States!BunkerState
<1> DEFINE rec == [state |-> s, vm |-> inst[o].vm, switch |-> inst[o].switch]
<1>3. \/ row' = row /\ "persist" \in Faults
      \/ row' = [row EXCEPT ![idOf[o]] = rec]
  BY <1>1 DEF Persist, May
<1>4. row \in [Ids -> Record] /\ idOf[o] \in Ids
  BY DEF TypeOK
<1>5. \/ row' = row /\ "persist" \in Faults
      \/ row'[idOf[o]] = rec
  <2> HIDE DEF rec
  <2> QED BY <1>3, <1>4
<1> QED BY <1>2, <1>5 DEF Transits

\* what the service remembers of a step of a method
Memory(t) ==
  LET o == req[t].o
      i == req[t].id IN
  /\ \A j \in Ids \ {i} :
       /\ forgotten'[j] = host'[j] \cap forgotten[j]
       /\ j \in unsaved' <=> j \in unsaved
  /\ forgotten'[i] = host'[i] \cap ((forgotten[i] \cup Forgets(t)) \ Names(t))
  /\ state'[o] = state[o] => unsaved' = unsaved
  /\ state'[o] # state[o] /\ i \notin unsaved' =>
       row'[i].state = state'[o] /\ (i \notin unsaved \/ host[i] = {})

LEMMA Remembered ==
  ASSUME Linked, NEW t \in Threads, MethodShape(t), MethodRemembers(t)
  PROVE  Memory(t)
<1> DEFINE o == req[t].o
           i == req[t].id
<1>1. /\ Self(t) = o /\ idOf[o] = i /\ i \in Ids
  BY DEF MethodShape
<1>2. forgotten' = [j \in Ids |-> host'[j] \cap
         (IF j = i THEN (forgotten[j] \cup Forgets(t)) \ Names(t)
                   ELSE forgotten[j])]
  BY <1>1 DEF MethodRemembers, Remember
<1>3. unsaved' = IF state'[o] = state[o] THEN unsaved
                 ELSE IF row'[i].state # state'[o] THEN unsaved \cup {i}
                 ELSE IF host[i] = {} THEN unsaved \ {i} ELSE unsaved
  BY <1>1 DEF MethodRemembers
<1>4. /\ \A j \in Ids \ {i} : forgotten'[j] = host'[j] \cap forgotten[j]
      /\ forgotten'[i] = host'[i] \cap ((forgotten[i] \cup Forgets(t)) \ Names(t))
  BY <1>1, <1>2
<1>5. /\ \A j \in Ids \ {i} : j \in unsaved' <=> j \in unsaved
      /\ state'[o] = state[o] => unsaved' = unsaved
      /\ state'[o] # state[o] /\ i \notin unsaved' =>
           row'[i].state = state'[o] /\ (i \notin unsaved \/ host[i] = {})
  BY <1>3
<1> QED BY <1>4, <1>5 DEF Memory

\* a method that moves on is the one its request called
LEMMA DoingStep ==
  ASSUME Linked, AllAnswers, NEW t \in Threads, MethodStep(t), MethodShape(t),
         Doing(t)
  PROVE  /\ Doing(t)'
         /\ \/ Initializing(t) /\ InitStep(t)
            \/ Activating(t) /\ ActStep(t)
            \/ Stopping(t) /\ TermStep(t)
<1> DEFINE o == req[t].o
<1>1. /\ TypeOK /\ Step(t) /\ Self(t) = o /\ o \in Objects /\ req' = req
      /\ frame[t].pc # "idle" /\ req[t].pc \in {"call", "call2"}
      /\ req[t].cmd \in CommandsAt(req[t].pc)
  BY DEF Linked, LinkedTo, ServiceTypeOK, MethodStep, MethodShape
<1>2. Initializing(t) \/ Activating(t) \/ Stopping(t)
  BY <1>1 DEF CommandsAt, ApiCommands, CliCommands, Initializing, Activating,
              Stopping
<1>3. CASE Initializing(t)
  <2>1. frame[t].pc \in InitPcs /\ InitPhase(t, o)
    BY <1>1, <1>3 DEF Doing
  <2>2. InitStep(t)
    BY <1>1, <2>1, StepPlace, PlacesApart DEF Step
  <2>3. Stays(t, o, InitPcs) /\ InitPhase(t, o)'
    BY <1>1, <2>1, <2>2, InitPhaseStep
  <2>4. Initializing(t)' /\ ~Activating(t)' /\ ~Stopping(t)'
    BY <1>1, <1>3 DEF Initializing, Activating, Stopping
  <2>5. InitPhase(t, req[t].o)'
    BY <1>1, <2>3 DEF InitPhase
  <2> QED BY <1>3, <2>2, <2>3, <2>4, <2>5 DEF Doing, Stays
<1>4. CASE Activating(t)
  <2>1. frame[t].pc \in ActPcs /\ ActPhase(t, o)
    BY <1>1, <1>4 DEF Doing
  <2>2. ActStep(t)
    BY <1>1, <2>1, StepPlace, PlacesApart DEF Step
  <2>3. Stays(t, o, ActPcs) /\ ActPhase(t, o)'
    BY <1>1, <2>1, <2>2, ActPhaseStep
  <2>4. Activating(t)' /\ ~Initializing(t)' /\ ~Stopping(t)'
    BY <1>1, <1>4 DEF Initializing, Activating, Stopping
  <2>5. ActPhase(t, req[t].o)'
    BY <1>1, <2>3 DEF ActPhase
  <2> QED BY <1>4, <2>2, <2>3, <2>4, <2>5 DEF Doing, Stays
<1>5. CASE Stopping(t)
  <2>1. frame[t].pc \in TermPcs /\ StopPhase(t, o)
    BY <1>1, <1>5 DEF Doing
  <2>2. TermStep(t)
    BY <1>1, <2>1, StepPlace, PlacesApart DEF Step
  <2>3. Stays(t, o, TermPcs) /\ StopPhase(t, o)'
    BY <1>1, <2>1, <2>2, StopPhaseStep
  <2>4. Stopping(t)' /\ ~Initializing(t)' /\ ~Activating(t)'
    BY <1>1, <1>5 DEF Initializing, Activating, Stopping
  <2>5. StopPhase(t, req[t].o)'
    BY <1>1, <2>3 DEF StopPhase
  <2> QED BY <1>5, <2>2, <2>3, <2>4, <2>5 DEF Doing, Stays
<1> QED BY <1>2, <1>3, <1>4, <1>5
LEMMA BuiltStep ==
  ASSUME TypeOK, AllAnswers, NEW t \in Threads, NEW o \in Objects, Self(t) = o,
         InitStep(t), InitPhase(t, o), Built(t), frame'[t].pc # "idle" => Self(t)' = o
  PROVE  Built(t)'
<1> USE DEF Self, Goto, At
<1>o. /\ frame \in [Threads -> Frame] /\ inst \in [Objects -> Instance]
      /\ inst[o] \in Instance /\ state \in [Objects -> States!BunkerState]
  BY DEF TypeOK
<1>1. CASE InitBegin(t)
  <2>1. state[o] = "DESTROYED"
    BY <1>1 DEF InitBegin, InitPhase
  <2>2. frame'[t].pc = "init_verify"
    BY <1>1, <1>o, <2>1
    DEF InitBegin, Transition, TransitionTo, Refused, States!Move,
        States!ValidNext, Frame
  <2> QED BY <2>2 DEF Built
<1>2. CASE InitRaise(t)
  <2>1. frame'[t].pc = "clean_vm"
    BY <1>2, <1>o DEF InitRaise, Frame
  <2> QED BY <2>1 DEF Built
<1>3. CASE InitVerify(t)
  <2>1. frame'[t].pc \in {"init_switch", "clean_vm"}
    BY <1>3, <1>o DEF InitVerify, Frame
  <2> QED BY <2>1 DEF Built
<1>4. CASE InitSwitch(t)
  <2>1. frame'[t].pc = "init_vm" /\ inst'[o].switch /\ frame'[t].o = o
    BY <1>4, <1>o DEF InitSwitch, Frame, Instance
  <2> QED BY <2>1 DEF Built
<1>5. CASE InitVm(t)
  <2>1. \/ /\ frame' = [frame EXCEPT ![t].pc = "init_guest"]
           /\ inst' = [inst EXCEPT ![o].vm = TRUE]
        \/ frame' = [frame EXCEPT ![t].pc = "clean_vm"]
    BY <1>5 DEF InitVm
  <2>2. inst[o].switch
    BY <1>5 DEF InitVm, Built
  <2>3. CASE /\ frame' = [frame EXCEPT ![t].pc = "init_guest"]
             /\ inst' = [inst EXCEPT ![o].vm = TRUE]
    <3>1. frame'[t].pc = "init_guest" /\ inst'[o].vm /\ inst'[o].switch
      BY <1>o, <2>2, <2>3 DEF Frame, Instance
    <3> QED BY <3>1 DEF Built
  <2>4. CASE frame' = [frame EXCEPT ![t].pc = "clean_vm"]
    <3>1. frame'[t].pc = "clean_vm"
      BY <1>o, <2>4 DEF Frame
    <3> QED BY <3>1 DEF Built
  <2> QED BY <2>1, <2>3, <2>4
<1>6. CASE InitGuest(t)
  <2>1. /\ frame'[t].pc = "init_ready" /\ inst'[o].vm = inst[o].vm
        /\ inst'[o].switch = inst[o].switch
    BY <1>6, <1>o DEF InitGuest, Frame, Instance
  <2>2. inst[o].vm /\ inst[o].switch
    BY <1>6 DEF InitGuest, Built
  <2> QED BY <2>1, <2>2 DEF Built
<1>7. CASE InitReady(t) \/ InitError(t)
  <2>1. \/ frame' = [frame EXCEPT ![t].pc = "clean_vm"]
        \/ \E r \in {"true", "false", "raised"} : Return(t, r)
    BY <1>7 DEF InitReady, InitError, LastTransition
  <2>2. frame'[t].pc \in {"clean_vm", "idle"}
    BY <1>o, <2>1 DEF Return, Idle, Frame
  <2> QED BY <2>2 DEF Built
<1>8. CASE CleanVm(t)
  <2>1. frame'[t].pc = "clean_switch" /\ ~inst'[o].vm /\ frame'[t].o = o
    BY <1>8, <1>o DEF CleanVm, Frame, Instance
  <2> QED BY <2>1 DEF Built
<1>9. CASE CleanSwitch(t)
  <2>1. /\ frame'[t].pc = "clean_disk" /\ ~inst'[o].switch
        /\ inst'[o].vm = inst[o].vm /\ frame'[t].o = o
    BY <1>9, <1>o DEF CleanSwitch, Frame, Instance
  <2> QED BY <1>9, <2>1 DEF Built, CleanSwitch
<1>10. CASE CleanDisk(t)
  <2>1. frame'[t].pc = "init_error" /\ inst' = inst
    BY <1>10, <1>o DEF CleanDisk, Frame
  <2> QED BY <1>10, <2>1 DEF Built, CleanDisk
<1> QED
  BY <1>1, <1>2, <1>3, <1>4, <1>5, <1>6, <1>7, <1>8, <1>9, <1>10 DEF InitStep

\* a step of initialize past its first place moves the bunker only to its end
LEMMA InitMoves ==
  ASSUME TypeOK, AllAnswers, NEW t \in Threads, NEW o \in Objects, Self(t) = o,
         InitStep(t), InitPhase(t, o)
  PROVE  \/ /\ frame[t].pc = "init_begin" /\ Transits(o)
            /\ frame'[t].pc = "init_verify" /\ state'[o] = "INITIALIZING"
         \/ /\ frame[t].pc = "init_ready" /\ Transits(o)
            /\ frame'[t].pc = "idle" /\ frame'[t].result = "true"
            /\ state'[o] = "READY"
         \/ /\ frame[t].pc = "init_error" /\ Transits(o)
            /\ frame'[t].pc = "idle" /\ frame'[t].result \in {"false", "raised"}
            /\ state'[o] = "ERROR"
         \/ /\ frame[t].pc \in InitPcs \ {"init_begin", "init_ready", "init_error"}
            /\ UNCHANGED <<state, row>>
            /\ frame'[t].pc \in InitPcs \ {"init_begin"}
<1> USE DEF At, Self, Goto
<1>o. /\ frame \in [Threads -> Frame] /\ state \in [Objects -> States!BunkerState]
  BY DEF TypeOK
<1>1. CASE InitBegin(t)
  <2>1. state[o] = "DESTROYED" /\ frame[t].pc = "init_begin"
    BY <1>1 DEF InitBegin, InitPhase
  <2>2. frame'[t].pc = "init_verify" /\ state'[o] = "INITIALIZING"
    BY <1>1, <1>o, <2>1
    DEF InitBegin, Transition, TransitionTo, Refused, States!Move,
        States!ValidNext, Frame
  <2>3. Transits(o)
    BY <1>o, <2>1, <2>2, StepTransits, <1>1 DEF Step
  <2> QED BY <2>1, <2>2, <2>3
<1>2. CASE InitReady(t)
  <2>1. state[o] = "INITIALIZING" /\ frame[t].pc = "init_ready"
    BY <1>2 DEF InitReady, InitPhase, InitPcs
  <2>2. Return(t, "true") /\ state'[o] = "READY"
    BY <1>2, <1>o, <2>1
    DEF InitReady, TransitionTo, Refused, States!Move, States!ValidNext
  <2>3. frame'[t].pc = "idle" /\ frame'[t].result = "true"
    BY <1>o, <2>2 DEF Return, AllAnswers, Idle
  <2>4. Transits(o)
    BY <1>o, <2>1, <2>2, StepTransits DEF Step
  <2> QED BY <2>1, <2>2, <2>3, <2>4
<1>3. CASE InitError(t)
  <2>1. state[o] = "INITIALIZING" /\ frame[t].pc = "init_error"
    BY <1>3 DEF InitError, InitPhase, InitPcs
  <2>2. /\ \E r \in {"false", "raised"} : Return(t, r)
        /\ state'[o] = "ERROR"
    BY <1>3, <1>o, <2>1
    DEF InitError, LastTransition, TransitionTo, Refused, States!Move,
        States!ValidNext
  <2>3. frame'[t].pc = "idle" /\ frame'[t].result \in {"false", "raised"}
    BY <1>o, <2>2 DEF Return, AllAnswers, Idle
  <2>4. Transits(o)
    BY <1>o, <2>1, <2>2, StepTransits DEF Step
  <2> QED BY <2>1, <2>2, <2>3, <2>4
<1>4. CASE \/ InitRaise(t) \/ InitVerify(t) \/ InitSwitch(t) \/ InitVm(t)
           \/ InitGuest(t) \/ CleanVm(t) \/ CleanSwitch(t) \/ CleanDisk(t)
  <2>1. /\ UNCHANGED <<state, row>>
        /\ frame[t].pc \in InitPcs \ {"init_begin", "init_ready", "init_error"}
    BY <1>4
    DEF InitRaise, InitVerify, InitSwitch, InitVm, InitGuest, CleanVm,
        CleanSwitch, CleanDisk, InitPcs
  <2>2. \E l \in InitPcs \ {"init_begin"} :
          \/ frame' = [frame EXCEPT ![t].pc = l]
          \/ frame' = [frame EXCEPT ![t].pc = l, ![t].ok = FALSE]
    BY <1>4
    DEF InitRaise, InitVerify, InitSwitch, InitVm, InitGuest, CleanVm,
        CleanSwitch, CleanDisk, InitPcs
  <2>3. frame'[t].pc \in InitPcs \ {"init_begin"}
    BY <1>o, <2>2 DEF Frame
  <2> QED BY <2>1, <2>3
<1> QED BY <1>1, <1>2, <1>3, <1>4 DEF InitStep
LEMMA TermMoves ==
  ASSUME TypeOK, NEW t \in Threads, NEW o \in Objects, Self(t) = o,
         TermStep(t), StopPhase(t, o)
  PROVE  /\ state'[o] = "DESTROYED" /\ state'[o] # state[o] =>
              frame[t].pc = "term_end" /\ frame[t].ok
         /\ state'[o] \in Lively => state[o] \in Lively
<1> USE DEF At, Self
<1>o. state \in [Objects -> States!BunkerState]
  BY DEF TypeOK
<1>1. CASE TermBegin(t)
  <2>1. state[o] = "ACTIVE"
    BY <1>1 DEF TermBegin, StopPhase
  <2>2. state'[o] = "TERMINATING"
    BY <1>1, <1>o, <2>1
    DEF TermBegin, Transition, TransitionTo, Refused, States!Move,
        States!ValidNext
  <2> QED BY <2>1, <2>2 DEF Lively
<1>2. CASE TermDecon(t)
  <2>1. state[o] = "TERMINATING"
    BY <1>2 DEF TermDecon, StopPhase, Down
  <2>2. state'[o] = "DECONTAMINATING"
    BY <1>2, <1>o, <2>1
    DEF TermDecon, TransitionTo, Refused, States!Move, States!ValidNext
  <2> QED BY <2>1, <2>2 DEF Lively
<1>3. CASE TermEnd(t)
  <2>1. state[o] = "DECONTAMINATING" /\ frame[t].pc = "term_end"
    BY <1>3 DEF TermEnd, StopPhase, TermPcs, Down
  <2>2. state'[o] = IF frame[t].ok THEN "DESTROYED" ELSE "ERROR"
    BY <1>3, <1>o, <2>1
    DEF TermEnd, TransitionTo, Refused, States!Move, States!ValidNext
  <2> QED BY <2>1, <2>2 DEF Lively
<1>4. CASE TermError(t)
  <2>1. state'[o] = "ERROR" \/ state' = state
    BY <1>4, <1>o
    DEF TermError, LastTransition, TransitionTo, States!Move
  <2> QED BY <2>1 DEF Lively
<1>5. CASE ~(TermBegin(t) \/ TermDecon(t) \/ TermEnd(t) \/ TermError(t))
  <2>1. state' = state
    BY <1>5
    DEF TermStep, TermCheck, TermStop, TermLayers, TermPower, DeconPower,
        DeconDisk, DeconSwitch, DeconVm, DeconVerify, DeconStep
  <2> QED BY <2>1
<1> QED BY <1>1, <1>2, <1>3, <1>4, <1>5

LEMMA EmptiedStep ==
  ASSUME TypeOK, NEW t \in Threads, NEW o \in Objects, Self(t) = o,
         TermStep(t), StopPhase(t, o), Wired(o), Emptied(t),
         req[t].id = idOf[o], req' = req
  PROVE  Emptied(t)'
<1> USE DEF At, Self, Goto
<1> DEFINE i == req[t].id
<1>o. /\ i \in Ids /\ i = idOf[o] /\ host \in [Ids -> SUBSET Resources]
      /\ inst[o] \in Instance /\ req'[t].id = i
      /\ frame \in [Threads -> Frame] /\ frame[t] \in Frame
      /\ host'[i] \subseteq host[i]
  BY TermKeeps DEF TypeOK
<1>1. ASSUME NEW l, NEW ok \in BOOLEAN, DeconStep(t, l, ok)
      PROVE  /\ frame'[t].pc = l /\ frame'[t].vm = frame[t].vm
             /\ frame'[t].ok => frame[t].ok /\ ok
  <2>1. frame[t].ok \in BOOLEAN
    BY <1>o DEF Frame
  <2>2. frame' = [frame EXCEPT ![t].pc = l, ![t].ok = @ /\ ok]
    BY <1>1 DEF DeconStep
  <2>3. /\ frame'[t].pc = l /\ frame'[t].vm = frame[t].vm
        /\ frame'[t].ok = (frame[t].ok /\ ok)
    BY <1>o, <2>2 DEF Frame
  <2> QED BY <2>3
<1>2. CASE TermDecon(t)
  <2>1. inst[o].vm
    BY <1>2 DEF TermDecon, StopPhase, Down, Wired, Lively
  <2>2. \/ frame' = [frame EXCEPT ![t].pc = "term_error"]
        \/ frame' = [frame EXCEPT ![t].pc = "decon_power", ![t].ok = TRUE,
                                  ![t].vm = inst[o].vm]
    BY <1>2 DEF TermDecon
  <2>3. \/ frame'[t].pc = "decon_power" /\ frame'[t].vm
        \/ frame'[t].pc = "term_error"
    BY <1>o, <2>1, <2>2 DEF Frame
  <2> QED BY <2>3 DEF Emptied
<1>3. CASE DeconPower(t)
  <2>1. PICK ok \in BOOLEAN : DeconStep(t, "decon_disk", ok)
    BY <1>3 DEF DeconPower
  <2>2. frame'[t].pc = "decon_disk" /\ frame'[t].vm = frame[t].vm
    BY <1>1, <2>1
  <2> QED BY <1>3, <2>2 DEF DeconPower, Emptied
<1>4. CASE DeconDisk(t)
  <2>1. PICK ok \in BOOLEAN : /\ DeconStep(t, "decon_switch", ok)
                              /\ Removal(i, "disk", "decon_disk", ok)
    BY <1>4, <1>o DEF DeconDisk
  <2>2. ASSUME ok PROVE "disk" \notin host'[i]
    BY <1>o, <2>1, <2>2 DEF Removal
  <2>3. /\ frame'[t].pc = "decon_switch" /\ frame'[t].vm = frame[t].vm
        /\ frame'[t].ok => ok
    BY <1>1, <2>1
  <2> QED BY <1>4, <1>o, <2>2, <2>3 DEF DeconDisk, Emptied
<1>5. CASE DeconSwitch(t)
  <2>1. PICK ok \in BOOLEAN :
          /\ DeconStep(t, "decon_vm", ok)
          /\ Removal(i, "switch", "decon_switch", ok)
    BY <1>5, <1>o DEF DeconSwitch
  <2>2. ASSUME ok, "silent_switch" \notin Faults PROVE "switch" \notin host'[i]
    BY <1>o, <2>1, <2>2 DEF Removal, May
  <2>3. /\ frame'[t].pc = "decon_vm" /\ frame'[t].vm = frame[t].vm
        /\ frame'[t].ok => ok /\ frame[t].ok
    BY <1>1, <2>1
  <2> QED BY <1>5, <1>o, <2>2, <2>3 DEF DeconSwitch, Emptied
<1>6. CASE DeconVm(t)
  <2>1. PICK ok \in BOOLEAN :
          /\ DeconStep(t, "decon_verify", ok)
          /\ frame[t].vm => RemoveVm(i, "decon_vm", ok)
    BY <1>6, <1>o DEF DeconVm
  <2>2. ok /\ frame[t].vm => "vm" \notin host'[i]
    BY <1>o, <2>1, RemoveVmHost
  <2>3. /\ frame'[t].pc = "decon_verify"
        /\ frame'[t].ok => ok /\ frame[t].ok
    BY <1>1, <2>1
  <2> QED BY <1>6, <1>o, <2>2, <2>3 DEF DeconVm, Emptied
<1>7. CASE DeconVerify(t)
  <2>1. PICK ok \in BOOLEAN :
          DeconStep(t, "term_end", ok /\ inst[o].baseline)
    BY <1>7 DEF DeconVerify
  <2>2. (ok /\ inst[o].baseline) \in BOOLEAN
    OBVIOUS
  <2>3. frame'[t].pc = "term_end" /\ (frame'[t].ok => frame[t].ok)
    BY <1>1, <2>1, <2>2
  <2> QED BY <1>7, <1>o, <2>3 DEF DeconVerify, Emptied
<1>8. CASE TermEnd(t) \/ TermError(t)
  <2>1. \/ frame' = [frame EXCEPT ![t].pc = "term_error"]
        \/ \E r \in {"true", "false", "raised"} : Return(t, r)
    BY <1>8 DEF TermEnd, TermError, LastTransition
  <2>2. frame'[t].pc \in {"term_error", "idle"}
    BY <1>o, <2>1 DEF Return, Idle, Frame
  <2> QED BY <2>2 DEF Emptied
<1>9. CASE \/ TermCheck(t) \/ TermBegin(t) \/ TermStop(t) \/ TermLayers(t)
           \/ TermPower(t)
  <2>1. \E l \in {"term_begin", "term_error", "term_stop", "term_layers",
                  "term_power", "term_decon"} : frame'[t].pc = l
    BY <1>9, <1>o
    DEF TermCheck, TermBegin, Transition, TermStop, TermLayers, TermPower, Frame
  <2> QED BY <2>1 DEF Emptied
<1> QED
  BY <1>2, <1>3, <1>4, <1>5, <1>6, <1>7, <1>8, <1>9 DEF TermStep

\* initialize makes and removes only what is named, or forgotten, or a disk
LEMMA KnownHost ==
  ASSUME TypeOK, NEW t \in Threads, NEW o \in Objects, Self(t) = o,
         NEW i \in Ids, idOf[o] = i, InitStep(t), UNCHANGED state,
         InitPhase(t, o), Built(t), "clean_disk" \notin Faults,
         frame'[t].pc \in InitPcs \ {"init_begin"}, Self(t)' = o,
         forgotten'[i] = host'[i] \cap ((forgotten[i] \cup Forgets(t)) \ Names(t)),
         host[i] \ forgotten[i] \subseteq Remains(t)
  PROVE  host'[i] \ forgotten'[i] \subseteq Remains(t)'
<1> USE DEF At, Self, Goto
<1>o. /\ frame \in [Threads -> Frame] /\ inst \in [Objects -> Instance]
      /\ inst[o] \in Instance /\ host \in [Ids -> SUBSET Resources]
      /\ host[i] \subseteq Resources /\ state \in [Objects -> States!BunkerState]
  BY DEF TypeOK
<1>h. /\ host'[i] \ forgotten'[i] =
            (host'[i] \ (forgotten[i] \cup Forgets(t))) \cup (host'[i] \cap Names(t))
      /\ Names(t) \subseteq {r \in {"vm", "switch"} : inst'[o][r]}
  BY DEF Names
<1>r. /\ Remains(t)' = {r \in {"vm", "switch"} : inst'[o][r]} \cup
                        (IF frame'[t].pc = "init_error" THEN {} ELSE {"disk"})
      /\ Remains(t) = {r \in {"vm", "switch"} : inst[o][r]} \cup
                       (IF frame[t].pc = "init_error" THEN {} ELSE {"disk"})
  BY DEF Remains
<1>1. CASE InitBegin(t)
  <2>1. state[o] = "DESTROYED"
    BY <1>1 DEF InitBegin, InitPhase
  <2> QED
    BY <1>1, <1>o, <2>1
    DEF InitBegin, Transition, TransitionTo, Refused, States!Move,
        States!ValidNext
<1>2. CASE InitRaise(t) \/ InitVerify(t)
  <2>1. /\ frame'[t].pc \in {"clean_vm", "init_switch"}
        /\ frame[t].pc # "init_error"
        /\ UNCHANGED <<inst, host>>
    BY <1>2, <1>o DEF InitRaise, InitVerify, Frame
  <2> QED BY <1>h, <1>r, <2>1
<1>3. CASE InitSwitch(t)
  <2>1. /\ frame'[t].pc = "init_vm" /\ frame[t].pc = "init_switch"
        /\ inst'[o].switch /\ inst'[o].vm = inst[o].vm
        /\ host'[i] \subseteq host[i] \cup {"switch"}
    BY <1>3, <1>o DEF InitSwitch, Frame, Instance
  <2> QED BY <1>h, <1>r, <2>1
<1>4. CASE InitVm(t)
  <2>1. frame'[t].pc # "init_error" /\ frame[t].pc = "init_vm"
    BY <1>4, <1>o DEF InitVm, Frame
  <2>2. \E disk \in SUBSET {"disk"}, vm \in SUBSET {"vm"} :
          host' = [host EXCEPT ![i] = @ \cup vm \cup disk]
    BY <1>4 DEF InitVm
  <2>3. host'[i] \subseteq host[i] \cup {"vm", "disk"}
    BY <1>o, <2>2
  <2>4. CASE inst' = [inst EXCEPT ![o].vm = TRUE]
    <3>1. inst'[o].vm /\ inst'[o].switch = inst[o].switch
      BY <1>o, <2>4 DEF Instance
    <3> QED BY <1>h, <1>r, <2>1, <2>3, <3>1
  <2>5. CASE inst' = inst
    <3>1. inst[o].vm \/ "vm" \in Forgets(t)
      BY <2>1, <2>5 DEF Forgets
    <3> QED BY <1>h, <1>r, <2>1, <2>3, <2>5, <3>1
  <2> QED BY <1>4, <2>4, <2>5 DEF InitVm
<1>5. CASE InitGuest(t)
  <2>1. /\ frame'[t].pc = "init_ready" /\ frame[t].pc = "init_guest"
        /\ inst'[o].switch = inst[o].switch /\ inst'[o].vm = inst[o].vm
        /\ host' = host
    BY <1>5, <1>o DEF InitGuest, Frame, Instance
  <2> QED BY <1>h, <1>r, <2>1
<1>6. CASE CleanVm(t)
  <2>1. /\ frame'[t].pc = "clean_switch" /\ frame[t].pc = "clean_vm"
        /\ inst'[o].switch = inst[o].switch /\ inst'[o].vm = FALSE
    BY <1>6, <1>o DEF CleanVm, Frame, Instance
  <2>2. CASE inst[o].vm
    <3>1. PICK ok \in BOOLEAN : RemoveVm(i, "clean_vm", ok)
      BY <1>6, <2>2 DEF CleanVm
    <3>2. host'[i] \subseteq host[i] /\ "vm" \in Forgets(t)
      BY <1>o, <2>1, <2>2, <3>1, RemoveVmHost DEF Forgets
    <3> QED BY <1>h, <1>r, <2>1, <3>2
  <2>3. CASE ~inst[o].vm
    <3>1. host' = host
      BY <1>6, <2>3 DEF CleanVm
    <3> QED BY <1>h, <1>r, <2>1, <2>3, <3>1
  <2> QED BY <2>2, <2>3
<1>7. CASE CleanSwitch(t)
  <2>1. /\ frame'[t].pc = "clean_disk" /\ frame[t].pc = "clean_switch"
        /\ inst'[o].vm = inst[o].vm /\ inst'[o].switch = FALSE
    BY <1>7, <1>o DEF CleanSwitch, Frame, Instance
  <2>2. CASE inst[o].switch
    <3>1. PICK ok \in BOOLEAN : Removal(i, "switch", "clean_switch", ok)
      BY <1>7, <2>2 DEF CleanSwitch
    <3>2. host'[i] \subseteq host[i] /\ "switch" \in Forgets(t)
      BY <1>o, <2>1, <2>2, <3>1, RemovalHost DEF Forgets
    <3> QED BY <1>h, <1>r, <2>1, <3>2
  <2>3. CASE ~inst[o].switch
    <3>1. host' = host
      BY <1>7, <2>3 DEF CleanSwitch
    <3> QED BY <1>h, <1>r, <2>1, <2>3, <3>1
  <2> QED BY <2>2, <2>3
<1>8. CASE CleanDisk(t)
  <2>1. /\ frame'[t].pc = "init_error" /\ frame[t].pc = "clean_disk"
        /\ inst' = inst
    BY <1>8, <1>o DEF CleanDisk, Frame
  <2>2. PICK ok \in BOOLEAN : Removal(i, "disk", "clean_disk", ok)
    BY <1>8 DEF CleanDisk
  <2>3. host'[i] \subseteq host[i] \ {"disk"}
    BY <1>o, <2>2, RemovalHost
  <2> QED BY <1>h, <1>r, <2>1, <2>3
<1>9. CASE InitReady(t) \/ InitError(t)
  <2>1. state[o] = "INITIALIZING"
    BY <1>9 DEF InitReady, InitError, InitPhase, InitPcs
  <2> QED
    BY <1>9, <1>o, <2>1
    DEF InitReady, InitError, LastTransition, TransitionTo, Refused,
        States!Move, States!ValidNext
<1> QED
  BY <1>1, <1>2, <1>3, <1>4, <1>5, <1>6, <1>7, <1>8, <1>9 DEF InitStep
-----------------------------------------------------------------------------
(* A step of a method keeps what the invariant says of its own request.     *)

LEMMA SavedStep ==
  ASSUME Linked, AllAnswers, NEW t \in Threads, MethodStep(t), MethodShape(t),
         Memory(t), Doing(t), Saved(t)
  PROVE  Saved(t)'
<1> DEFINE o == req[t].o
           i == req[t].id
<1>1. /\ TypeOK /\ o \in Objects /\ Self(t) = o /\ req' = req
  BY DEF Linked, ServiceTypeOK, MethodShape
<1>2. CASE Initializing(t) /\ InitStep(t)
  <2>1. InitPhase(t, o)
    BY <1>2 DEF Doing
  <2>2. CASE frame[t].pc = "init_begin" /\ state'[o] = "INITIALIZING"
    <3>1. state[o] = "DESTROYED"
      BY <2>1, <2>2 DEF InitPhase
    <3>2. i \in unsaved' \/ row'[i].state = "INITIALIZING"
      BY <2>2, <3>1 DEF Memory
    <3> QED BY <1>1, <3>2 DEF Saved
  <2>3. CASE frame'[t].pc = "idle"
    BY <2>3 DEF Saved, InitPcs
  <2>4. CASE /\ UNCHANGED <<state, row>>
             /\ frame[t].pc \in InitPcs \ {"init_begin", "init_ready", "init_error"}
    <3>1. unsaved' = unsaved
      BY <2>4 DEF Memory
    <3> QED BY <1>1, <2>4, <3>1 DEF Saved
  <2> QED BY <1>1, <1>2, <2>1, <2>2, <2>3, <2>4, InitMoves
<1>3. CASE ~(Initializing(t) /\ InitStep(t))
  <2>1. frame'[t].pc \in {"idle"} \cup ActPcs \cup TermPcs
    BY <1>1, <1>3, DoingStep DEF Doing, Activating, Stopping
  <2> QED BY <2>1, PlacesApart DEF Saved
<1> QED BY <1>2, <1>3

LEMMA KnownStep ==
  ASSUME Linked, AllAnswers, NEW t \in Threads, MethodStep(t), MethodShape(t),
         Memory(t), Orderly(t), Known(t), Settled(req[t].id)
  PROVE  Known(t)'
<1> DEFINE o == req[t].o
           i == req[t].id
<1>1. /\ TypeOK /\ o \in Objects /\ Self(t) = o /\ req' = req /\ i \in Ids
      /\ idOf[o] = i /\ Doing(t) /\ Built(t)
      /\ frame'[t].pc # "idle" => Self(t)' = o
  BY DEF Linked, ServiceTypeOK, MethodShape, Orderly
<1> SUFFICES ASSUME req[t].cmd = "create" PROVE Known(t)'
  BY <1>1 DEF Known
<1>2. req[t].pc = "call"
  BY DEF MethodShape, Linked, LinkedTo, CommandsAt
<1>3. InitStep(t) /\ InitPhase(t, o)
  BY <1>2, DoingStep, <1>1 DEF Doing, Initializing, Activating, Stopping
<1>4. ASSUME Transits(o)
      PROVE  /\ forgotten'[i] = host'[i] \cap (forgotten[i] \cup Forgets(t))
             /\ host' = host
             /\ i \notin unsaved' => i \notin unsaved \/ host[i] = {}
  <2>1. UNCHANGED <<inst, host>> /\ state'[o] # state[o]
    BY <1>1, <1>4, TransitsRow
  <2>2. Names(t) = {}
    BY <2>1 DEF Names
  <2> QED BY <2>1, <2>2 DEF Memory
<1>5. CASE /\ frame[t].pc = "init_begin" /\ Transits(o)
           /\ frame'[t].pc = "init_verify"
  <2>1. ASSUME "clean_disk" \notin Faults, i \notin unsaved'
        PROVE  host'[i] \ forgotten'[i] = {}
    <3>1. row[i] = NoRow
      BY <1>5 DEF Known
    <3>2. host[i] \subseteq forgotten[i]
      BY <1>4, <1>5, <2>1, <3>1 DEF Settled
    <3> QED BY <1>4, <1>5, <3>2
  <2> QED BY <1>1, <1>5, <2>1 DEF Known, Undone
<1>6. CASE /\ frame[t].pc = "init_ready" /\ frame'[t].pc = "idle"
           /\ frame'[t].result = "true"
  BY <1>1, <1>2, <1>6 DEF Known, Undone, InitPcs
<1>7. CASE /\ frame[t].pc = "init_error" /\ Transits(o)
           /\ frame'[t].pc = "idle"
  <2>1. ASSUME "clean_disk" \notin Faults, i \notin unsaved'
        PROVE  host'[i] \subseteq forgotten'[i]
    <3>1. CASE host[i] = {}
      BY <1>4, <1>7, <3>1
    <3>2. CASE i \notin unsaved
      <4>1. ~inst[o].vm /\ ~inst[o].switch
        BY <1>1, <1>7 DEF Built
      <4>2. Remains(t) = {}
        BY <1>1, <1>7, <4>1 DEF Remains
      <4>3. host[i] \ forgotten[i] \subseteq Remains(t)
        BY <1>7, <2>1, <3>2 DEF Known, InitPcs
      <4> QED BY <1>4, <1>7, <4>2, <4>3
    <3> QED BY <1>4, <1>7, <2>1, <3>1, <3>2
  <2> QED BY <1>1, <1>7, <2>1 DEF Known, InitPcs
<1>8. CASE /\ frame[t].pc \in InitPcs \ {"init_begin", "init_ready", "init_error"}
           /\ UNCHANGED <<state, row>>
           /\ frame'[t].pc \in InitPcs \ {"init_begin"}
  <2>1. unsaved' = unsaved
    BY <1>8 DEF Memory
  <2>2. ASSUME "clean_disk" \notin Faults, i \notin unsaved
        PROVE  host'[i] \ forgotten'[i] \subseteq Remains(t)'
    <3>1. host[i] \ forgotten[i] \subseteq Remains(t)
      BY <1>8, <2>2 DEF Known
    <3>2. Self(t)' = o
      BY <1>1, <1>8 DEF InitPcs
    <3>3. forgotten'[i] = host'[i] \cap ((forgotten[i] \cup Forgets(t)) \ Names(t))
      BY DEF Memory
    <3> QED BY <1>1, <1>3, <1>8, <2>2, <3>1, <3>2, <3>3, KnownHost
  <2>3. frame'[t].pc # "idle" /\ frame'[t].pc # "init_begin"
    BY <1>8 DEF InitPcs
  <2> QED BY <1>1, <2>1, <2>2, <2>3 DEF Known, Undone
<1> QED BY <1>1, <1>3, <1>5, <1>6, <1>7, <1>8, InitMoves

LEMMA OrderlyStep ==
  ASSUME Linked, AllAnswers, NEW t \in Threads, MethodStep(t), MethodShape(t),
         Orderly(t)
  PROVE  Orderly(t)'
<1> DEFINE o == req[t].o
<1>1. /\ TypeOK /\ o \in Objects /\ Self(t) = o /\ req' = req
      /\ frame'[t].pc # "idle" => Self(t)' = o
  BY DEF Linked, ServiceTypeOK, MethodShape
<1>2. Doing(t)'
  BY DoingStep DEF Orderly
<1>3. CASE Initializing(t) /\ InitStep(t)
  <2>1. InitPhase(t, o)
    BY <1>3 DEF Doing, Orderly
  <2>2. Built(t)'
    BY <1>1, <1>3, <2>1, BuiltStep DEF Orderly
  <2> QED BY <1>2, <2>2 DEF Orderly
<1>4. CASE Activating(t) \/ Stopping(t)
  <2>1. frame'[t].pc \in {"idle"} \cup ActPcs \cup TermPcs
    BY <1>1, <1>2, <1>4 DEF Doing, Activating, Stopping
  <2>2. Built(t)'
    BY <2>1 DEF Built, ActPcs, TermPcs
  <2> QED BY <1>2, <2>2 DEF Orderly
<1> QED BY <1>3, <1>4, DoingStep DEF Orderly

LEMMA OwnStep ==
  ASSUME Linked, AllAnswers, NEW t \in Threads, MethodStep(t), MethodShape(t),
         Memory(t), Orderly(t), Accounted(t), Settled(req[t].id),
         Wired(req[t].o)
  PROVE  Accounted(t)'
<1> DEFINE o == req[t].o
<1>1. /\ TypeOK /\ o \in Objects /\ Self(t) = o /\ req' = req
      /\ req[t].id = idOf[o]
  BY DEF Linked, ServiceTypeOK, MethodShape
<1>2. Doing(t)'
  BY DoingStep DEF Orderly
<1>3. CASE Initializing(t) \/ Activating(t)
  <2>1. frame'[t].pc \in {"idle"} \cup InitPcs \cup ActPcs
    BY <1>1, <1>2, <1>3 DEF Doing, Activating, Initializing
  <2>2. Emptied(t)'
    BY <2>1 DEF Emptied, InitPcs, ActPcs
  <2> QED BY <2>2, SavedStep, KnownStep DEF Orderly, Accounted
<1>4. CASE Stopping(t) /\ TermStep(t)
  <2>1. StopPhase(t, o)
    BY <1>4 DEF Doing, Orderly
  <2>2. Emptied(t)'
    BY <1>1, <1>4, <2>1, EmptiedStep DEF Accounted
  <2> QED BY <2>2, SavedStep, KnownStep DEF Orderly, Accounted
<1> QED BY <1>3, <1>4, DoingStep DEF Orderly

LEMMA WiredStep ==
  ASSUME Linked, AllAnswers, NEW t \in Threads, MethodStep(t), MethodShape(t),
         Orderly(t), Wired(req[t].o)
  PROVE  Wired(req[t].o)'
<1> DEFINE o == req[t].o
<1>1. TypeOK /\ o \in Objects /\ Self(t) = o /\ req' = req
  BY DEF Linked, ServiceTypeOK, MethodShape
<1>2. CASE Initializing(t) /\ InitStep(t)
  <2>1. InitPhase(t, o)
    BY <1>2 DEF Doing, Orderly
  <2>2. CASE frame[t].pc = "init_ready" /\ Transits(o)
    <3>1. inst' = inst /\ inst[o].vm /\ inst[o].switch
      BY <1>1, <2>2 DEF Built, Orderly, Transits
    <3> QED BY <1>1, <3>1 DEF Wired
  <2>3. CASE state'[o] \in {"INITIALIZING", "ERROR"}
    BY <1>1, <2>3 DEF Wired, Lively
  <2>4. CASE state' = state /\ frame[t].pc \in InitPcs \ {"init_begin"}
    BY <1>1, <2>1, <2>4 DEF Wired, Lively, InitPhase
  <2> QED BY <1>1, <1>2, <2>1, <2>2, <2>3, <2>4, InitMoves
<1>3. CASE Activating(t) /\ ActStep(t)
  <2>1. frame[t].pc \in ActPcs /\ ActPhase(t, o)
    BY <1>3 DEF Doing, Orderly, MethodShape
  <2>2. state[o] \in Lively
    BY <2>1 DEF ActPhase, Lively, Ready
  <2> QED BY <1>1, <1>3, <2>2, ActKeeps DEF Wired
<1>4. CASE Stopping(t) /\ TermStep(t)
  <2>1. StopPhase(t, o)
    BY <1>4 DEF Doing, Orderly
  <2> QED BY <1>1, <1>4, <2>1, TermMoves, TermKeeps DEF Wired
<1> QED BY <1>2, <1>3, <1>4, DoingStep DEF Orderly

LEMMA SettledStep ==
  ASSUME Linked, AllAnswers, NEW t \in Threads, MethodStep(t), MethodShape(t),
         Memory(t), Orderly(t), Accounted(t), Settled(req[t].id)
  PROVE  Settled(req[t].id)'
<1> DEFINE o == req[t].o
           i == req[t].id
<1>1. /\ TypeOK /\ o \in Objects /\ Self(t) = o /\ req' = req
      /\ i = idOf[o] /\ i \in Ids /\ host[i] \subseteq Resources
      /\ frame[t].pc # "idle"
  BY DEF Linked, ServiceTypeOK, MethodShape, TypeOK
<1>2. ASSUME UNCHANGED <<inst, host>>
      PROVE  host[i] = {} => host'[i] \subseteq forgotten'[i]
  BY <1>2
<1>3. CASE state'[o] # state[o]
  <2>1. Transits(o)
    BY <1>3 DEF MethodShape
  <2>2. /\ UNCHANGED <<inst, host>>
        /\ row'[i].state = state'[o] \/ i \in unsaved'
    BY <1>1, <1>3, <2>1 DEF Transits, Memory
  <2>3. state'[o] # "none"
    BY <1>1, <2>1, TransitsRow DEF States!ValidNext, TypeOK, States!BunkerState
  <2>4. CASE state'[o] = "DESTROYED"
    <3>1. Stopping(t) /\ TermStep(t)
      <4>1. Initializing(t) /\ InitStep(t) => state'[o] # "DESTROYED"
        <5>1. ASSUME Initializing(t), InitStep(t) PROVE state'[o] # "DESTROYED"
          <6>1. InitPhase(t, o)
            BY <5>1 DEF Doing, Orderly
          <6> QED BY <1>1, <1>3, <5>1, <6>1, InitMoves
        <5> QED BY <5>1
      <4>2. Activating(t) => state[o] \in {"READY", "ACTIVE"}
        BY <1>1 DEF Doing, Orderly, ActPhase
      <4>3. state'[o] \in States!ValidNext(state[o])
        BY <1>1, <2>1, TransitsRow
      <4>4. state[o] \in {"READY", "ACTIVE"} => state'[o] # "DESTROYED"
        BY <4>3 DEF States!ValidNext
      <4> QED BY <2>4, <4>1, <4>2, <4>4, DoingStep DEF Orderly
    <3>2. StopPhase(t, o)
      BY <3>1 DEF Doing, Orderly
    <3>3. frame[t].pc = "term_end" /\ frame[t].ok
      BY <1>1, <1>3, <2>4, <3>1, <3>2, TermMoves
    <3>4. "silent_switch" \notin Faults => host[i] = {}
      BY <1>1, <3>3 DEF Accounted, Emptied, Resources
    <3>5. row'[i] # NoRow \/ i \in unsaved'
      BY <2>2, <2>3 DEF NoRow
    <3> QED BY <1>1, <2>2, <3>4, <3>5 DEF Settled
  <2>5. CASE state'[o] # "DESTROYED"
    BY <1>1, <2>2, <2>3, <2>5 DEF Settled, NoRow
  <2> QED BY <2>4, <2>5
<1>4. CASE state'[o] = state[o]
  <2>1. UNCHANGED <<state, row>>
    BY <1>1, <1>4, TransitsRow DEF MethodShape
  <2>2. unsaved' = unsaved
    BY <1>4 DEF Memory
  <2>3. CASE Initializing(t) /\ InitStep(t)
    <3>1. InitPhase(t, o)
      BY <2>3 DEF Doing, Orderly
    <3>2. frame[t].pc \in InitPcs \ {"init_begin"}
      BY <1>1, <2>1, <2>3, <3>1, InitMoves, TransitsRow
    <3>3. i \in unsaved \/ row[i].state = "INITIALIZING"
      BY <3>2 DEF Accounted, Saved
    <3> QED BY <1>1, <2>1, <2>2, <3>3 DEF Settled, NoRow
  <2>4. CASE ~(Initializing(t) /\ InitStep(t))
    <3>1. /\ host'[i] \subseteq host[i]
          /\ inst'[o].vm = inst[o].vm /\ inst'[o].switch = inst[o].switch
      BY <1>1, <2>4, DoingStep, ActKeeps, TermKeeps DEF Orderly
    <3>2. Names(t) = {}
      BY <1>1, <3>1 DEF Names
    <3>3. forgotten'[i] = host'[i] \cap (forgotten[i] \cup Forgets(t))
      BY <3>2 DEF Memory
    <3> QED BY <1>1, <2>1, <2>2, <3>1, <3>3 DEF Settled
  <2> QED BY <2>3, <2>4
<1> QED BY <1>3, <1>4

\* what a step that is not its own leaves of a request
LEMMA OrderlyKept ==
  ASSUME Linked, NEW u \in Threads, Orderly(u),
         req'[u] = req[u], frame'[u] = frame[u],
         req[u].pc \in HasObject =>
           state'[req[u].o] = state[req[u].o] /\ inst'[req[u].o] = inst[req[u].o]
  PROVE  Orderly(u)'
<1>1. frame[u].pc # "idle" => Self(u) = req[u].o /\ req[u].pc \in HasObject
  BY DEF Linked, LinkedTo, ServiceTypeOK, HasObject
<1>2. Self(u)' = Self(u)
  BY DEF Self
<1>3. Doing(u)'
  BY DEF Orderly, Doing, Initializing, Activating, Stopping, InitPhase,
         ActPhase, StopPhase, HasObject
<1>4. Built(u)'
  BY <1>1, <1>2 DEF Orderly, Built
<1> QED BY <1>3, <1>4 DEF Orderly

LEMMA AccountedKept ==
  ASSUME Linked, NEW u \in Threads, Accounted(u),
         req'[u] = req[u], frame'[u] = frame[u],
         req[u].pc \in HasObject => inst'[req[u].o] = inst[req[u].o],
         req[u].pc # "idle" =>
           /\ host'[req[u].id] = host[req[u].id] /\ row'[req[u].id] = row[req[u].id]
           /\ forgotten'[req[u].id] = host'[req[u].id] \cap forgotten[req[u].id]
           /\ req[u].id \in unsaved' <=> req[u].id \in unsaved
  PROVE  Accounted(u)'
<1> DEFINE o == req[u].o
           i == req[u].id
<1>1. CASE req[u].pc = "idle"
  <2>1. req[u] = NoRequest /\ frame[u].pc = "idle"
    BY <1>1 DEF Linked, LinkedTo, ServiceTypeOK
  <2> QED BY <2>1 DEF Accounted, Emptied, Saved, Known, NoRequest, InitPcs
<1>2. CASE req[u].pc # "idle"
  <2>1. /\ host'[i] = host[i] /\ row'[i] = row[i]
        /\ forgotten'[i] = host'[i] \cap forgotten[i]
        /\ i \in unsaved' <=> i \in unsaved
    BY <1>2
  <2>2. frame[u].pc # "idle" => Self(u) = o /\ req[u].pc \in HasObject
    BY DEF Linked, LinkedTo, ServiceTypeOK, HasObject
  <2>3. Self(u)' = Self(u)
    BY DEF Self
  <2>4. Emptied(u)' /\ Saved(u)'
    BY <2>1 DEF Accounted, Emptied, Saved
  <2>5. frame[u].pc # "idle" => Remains(u)' = Remains(u)
    BY <2>2, <2>3 DEF Remains
  <2>6. Known(u)'
    BY <2>1, <2>5 DEF Accounted, Known, Undone, InitPcs
  <2> QED BY <2>4, <2>6 DEF Accounted
<1> QED BY <1>1, <1>2

-----------------------------------------------------------------------------
(* Every step keeps the invariant, as long as no two requests overlap.      *)

\* the other requests are for other identifiers, and have other bunkers
LEMMA Elsewhere ==
  ASSUME Linked, Serialized, NEW t \in Threads, NEW u \in Threads \ {t},
         req[t].pc # "idle", req[u].pc # "idle"
  PROVE  /\ req[u].id \in Ids /\ req[u].id # req[t].id
         /\ req[u].pc \in HasObject /\ req[t].pc \in HasObject =>
              req[u].o \in Objects /\ req[u].o # req[t].o
BY DEF Linked, LinkedTo, ServiceTypeOK, Serialized

LEMMA MethodKeeps ==
  ASSUME ServiceInv, Serialized, NEW t \in Threads, MethodStep(t),
         MethodRemembers(t)
  PROVE  ServiceInv'
<1> DEFINE o == req[t].o
           i == req[t].id
<1>1. /\ Linked /\ MethodShape(t) /\ Memory(t) /\ Linked' /\ AllAnswers
      /\ Orderly(t) /\ Accounted(t) /\ Settled(i) /\ Wired(o)
  <2>1. Linked /\ MethodShape(t)
    BY MethodShaped DEF ServiceInv
  <2> QED BY <2>1, Remembered, MethodLinked, AllTold DEF ServiceInv, MethodShape
<1>2. /\ o \in Objects /\ i \in Ids /\ i = idOf[o] /\ Footprint(t, o)
      /\ req' = req /\ req[t].pc # "idle" /\ req[t].pc \in HasObject
  BY <1>1 DEF MethodShape, HasObject
<1>3. ASSUME NEW u \in Threads PROVE Orderly(u)' /\ Accounted(u)'
  <2>1. CASE u = t
    BY <1>1, <2>1, OwnStep, OrderlyStep
  <2>2. CASE u # t
    <3>1. frame'[u] = frame[u] /\ req'[u] = req[u]
      BY <1>2, <2>2 DEF Footprint
    <3>2. req[u].pc \in HasObject =>
            state'[req[u].o] = state[req[u].o] /\ inst'[req[u].o] = inst[req[u].o]
      <4>1. "idle" \notin HasObject
        BY DEF HasObject
      <4> QED BY <1>1, <1>2, <2>2, <4>1, Elsewhere DEF Footprint
    <3>3. req[u].pc # "idle" =>
           /\ host'[req[u].id] = host[req[u].id] /\ row'[req[u].id] = row[req[u].id]
           /\ forgotten'[req[u].id] = host'[req[u].id] \cap forgotten[req[u].id]
           /\ req[u].id \in unsaved' <=> req[u].id \in unsaved
      BY <1>1, <1>2, <2>2, Elsewhere DEF Footprint, Memory
    <3>4. Orderly(u) /\ Accounted(u)
      BY DEF ServiceInv
    <3> QED BY <1>1, <3>1, <3>2, <3>3, <3>4, OrderlyKept, AccountedKept
  <2> QED BY <2>1, <2>2
<1>4. ASSUME NEW p \in Objects PROVE Wired(p)'
  <2>1. CASE p = o
    BY <1>1, <1>2, <2>1, WiredStep
  <2>2. CASE p # o
    BY <1>2, <2>2 DEF Footprint, ServiceInv, Wired
  <2> QED BY <2>1, <2>2
<1>5. ASSUME NEW j \in Ids PROVE WiredRow(j)'
  <2>1. CASE row'[j] = row[j]
    BY <2>1 DEF ServiceInv, WiredRow
  <2>2. CASE row'[j] # row[j]
    <3>1. j = i /\ Transits(o) /\ TypeOK
      BY <1>1, <1>2, <2>2 DEF Footprint, MethodShape, Linked, ServiceTypeOK
    <3>2. /\ row'[i] = [state |-> state'[o], vm |-> inst[o].vm,
                        switch |-> inst[o].switch]
          /\ inst' = inst
      BY <1>2, <2>2, <3>1, TransitsRow
    <3> QED BY <1>2, <1>4, <3>1, <3>2 DEF Wired, WiredRow
  <2> QED BY <2>1, <2>2
<1>6. ASSUME NEW j \in Ids PROVE Settled(j)'
  <2>1. CASE j = i
    BY <1>1, <1>2, <2>1, SettledStep
  <2>2. CASE j # i
    <3>1. /\ host'[j] = host[j] /\ row'[j] = row[j]
          /\ forgotten'[j] = host'[j] \cap forgotten[j]
          /\ j \in unsaved' <=> j \in unsaved
      BY <1>1, <1>2, <2>2 DEF Footprint, Memory
    <3> QED BY <3>1 DEF ServiceInv, Settled
  <2> QED BY <2>1, <2>2
<1> QED BY <1>1, <1>3, <1>4, <1>5, <1>6 DEF ServiceInv

\* what a step outside the methods leaves of the books
LEMMA OthersBooks ==
  ASSUME Linked, Linked', Others, host' = host
  PROVE  /\ unsaved' = unsaved
         /\ \A i \in Ids : /\ forgotten'[i] = host'[i] \cap forgotten[i]
                           /\ host[i] \subseteq forgotten[i] =>
                                host'[i] \subseteq forgotten'[i]
BY OthersType DEF Linked, ServiceTypeOK

\* a request that is in no method now asks for nothing
LEMMA QuietKept ==
  ASSUME NEW t \in Threads, Quiet(t)
  PROVE  Orderly(t)' /\ Accounted(t)'
<1>1. frame'[t].pc = "idle" /\ req'[t].pc \notin {"call", "call2", "rollback"}
  BY DEF Quiet
<1>2. Orderly(t)'
  BY <1>1 DEF Orderly, Doing, Built, Initializing, Activating, Stopping
<1>3. Accounted(t)'
  BY <1>1 DEF Accounted, Emptied, Saved, Known, Undone, InitPcs
<1> QED BY <1>2, <1>3

\* where a request stands after a step outside the methods
LEMMA ServedPlace ==
  ASSUME Linked, NEW t \in Threads, Orderly(t), Served(t), Linked'
  PROVE  \/ Quiet(t)
         \/ /\ Constructed(t) /\ req'[t].cmd = req[t].cmd
            /\ req'[t].id = req[t].id /\ req'[t].pc = "call"
            /\ state'[req'[t].o] = "DESTROYED"
         \/ /\ req'[t].cmd = "cli_stop" /\ req'[t].pc = "call"
            /\ frame'[t].pc = "term_check"
         \/ /\ Entered(t)
            /\ \/ /\ req[t].cmd = "start" /\ req'[t].pc = "call"
                  /\ frame'[t].pc = "init_begin"
                  /\ state[req[t].o] = "DESTROYED"
               \/ /\ req[t].cmd = "stop" /\ req'[t].pc = "call"
                  /\ frame'[t].pc = "term_check"
                  /\ state[req[t].o] = "ACTIVE"
               \/ /\ req[t].cmd = "activate" /\ req'[t].pc = "call"
                  /\ frame'[t].pc = "act_check" /\ state[req[t].o] = "READY"
               \/ /\ req[t].cmd = "cli_start" /\ req'[t].pc = "call2"
                  /\ frame'[t].pc = "act_check" /\ state[req[t].o] = "READY"
         \/ Failed(t)
<1>1. Doing(t)
  BY DEF Orderly
<1>2. CASE Constructed(t)
  <2>1. /\ req'[t].cmd = req[t].cmd /\ req'[t].id = req[t].id
        /\ req'[t].pc = "call"
    BY <1>2 DEF Constructed, Linked, ServiceTypeOK, Request
  <2>2. state'[req'[t].o] = "DESTROYED"
    BY <1>2 DEF Constructed, Linked, Pristine
  <2> QED BY <1>2, <2>1, <2>2
<1>3. CASE Entered(t)
  <2>1. CASE req[t].cmd = "cli_start"
    <3>1. /\ req[t].pc = "call" /\ frame[t].pc = "idle"
          /\ frame[t].result = "true" /\ req'[t].pc = "call2"
          /\ frame'[t].pc = "act_check"
      BY <1>3, <2>1 DEF Entered
    <3> QED BY <1>1, <1>3, <2>1, <3>1 DEF Doing, Initializing, InitPhase
  <2>2. CASE req[t].cmd # "cli_start"
    BY <1>3, <2>2 DEF Entered, Expected, Method
  <2> QED BY <2>1, <2>2
<1>4. CASE Restored(t)
  BY <1>4 DEF Restored
<1> QED BY <1>2, <1>3, <1>4 DEF Served, Passed

LEMMA OrderlyServed ==
  ASSUME Linked, NEW t \in Threads, Orderly(t), Served(t), Linked'
  PROVE  Orderly(t)'
<1>1. CASE Constructed(t) /\ req'[t].pc = "call" /\ state'[req'[t].o] = "DESTROYED"
  <2>1. /\ frame'[t].pc = "init_begin" /\ req'[t].cmd \in {"create", "cli_start"}
    BY <1>1 DEF Constructed, Linked, ServiceTypeOK, Request
  <2> QED
    BY <1>1, <2>1
    DEF Orderly, Doing, Built, Initializing, Activating, Stopping, InitPhase,
        InitPcs
<1>2. CASE /\ req'[t].cmd = "cli_stop" /\ req'[t].pc = "call"
           /\ frame'[t].pc = "term_check"
  BY <1>2
  DEF Orderly, Doing, Built, Initializing, Activating, Stopping, StopPhase,
      TermPcs, Down
<1>3. CASE Entered(t) /\ ~Quiet(t) /\ ~Failed(t)
  <2>1. /\ req'[t].cmd = req[t].cmd /\ req'[t].o = req[t].o /\ state' = state
    BY <1>3 DEF Entered
  <2>2. req[t].cmd \in {"start", "stop", "activate", "cli_start"}
    BY <1>3 DEF Entered
  <2> QED
    BY <1>3, <2>1, <2>2, ServedPlace
    DEF Orderly, Doing, Built, Initializing, Activating, Stopping, InitPhase,
        ActPhase, StopPhase, InitPcs, ActPcs, TermPcs, Ready, Down, Constructed
<1>4. CASE Failed(t)
  <2>1. req'[t].pc = "rollback" /\ frame'[t].pc = "idle"
    BY <1>4 DEF Failed, Linked, ServiceTypeOK, Request
  <2> QED
    BY <2>1 DEF Orderly, Doing, Built, Initializing, Activating, Stopping
<1> QED BY <1>1, <1>2, <1>3, <1>4, QuietKept, ServedPlace

LEMMA AccountedServed ==
  ASSUME Linked, NEW t \in Threads, Orderly(t), Accounted(t), Served(t), Linked',
         Others
  PROVE  Accounted(t)'
<1>1. host' = host
  BY DEF Served, RequestShape
<1>2. CASE Constructed(t) /\ req'[t].cmd = req[t].cmd /\ req'[t].id = req[t].id
  <2>1. /\ frame'[t].pc = "init_begin" /\ row' = row
        /\ req[t].cmd = "create" => row[req[t].id] = NoRow
    BY <1>2 DEF Constructed
  <2> QED BY <1>2, <2>1 DEF Accounted, Emptied, Saved, Known, Undone, Linked,
             ServiceTypeOK, Request, Constructed
<1>3. CASE /\ req'[t].cmd = "cli_stop" /\ req'[t].pc = "call"
           /\ frame'[t].pc = "term_check"
  BY <1>3 DEF Accounted, Emptied, Saved, Known, Undone, InitPcs
<1>4. CASE Entered(t)
  <2>1. /\ req'[t].cmd = req[t].cmd /\ req[t].cmd # "create"
        /\ frame'[t].pc \in {"init_begin", "term_check", "act_check"}
    BY <1>4 DEF Entered, Method
  <2> QED BY <2>1 DEF Accounted, Emptied, Saved, Known, InitPcs
<1>5. CASE Failed(t)
  <2>1. /\ req'[t].pc = "rollback" /\ req'[t].cmd = "create"
        /\ req'[t].id = req[t].id /\ req[t].id \in Ids
        /\ frame'[t].pc = "idle" /\ Undone(t) /\ req[t].cmd = "create"
    BY <1>5 DEF Failed, Linked, ServiceTypeOK, Request, Undone
  <2>2. Known(t)'
    BY <1>1, <2>1, OthersBooks DEF Accounted, Known, InitPcs
  <2> QED BY <2>1, <2>2 DEF Accounted, Emptied, Saved, InitPcs
<1> QED BY <1>2, <1>3, <1>4, <1>5, QuietKept, ServedPlace

LEMMA ServedKeeps ==
  ASSUME ServiceInv, Serialized, NEW t \in Threads, Served(t), Others,
         req[t].pc # "idle" \/ row' = row
  PROVE  ServiceInv'
<1> DEFINE i == req[t].id
<1>1. /\ Linked /\ RequestShape(t) /\ Linked' /\ host' = host
  BY ShapeLinked DEF ServiceInv, Served, RequestShape
<1>2. /\ unsaved' = unsaved
      /\ \A j \in Ids : /\ forgotten'[j] = host'[j] \cap forgotten[j]
                        /\ host[j] \subseteq forgotten[j] =>
                             host'[j] \subseteq forgotten'[j]
  BY <1>1, OthersBooks
<1>3. ASSUME NEW u \in Threads PROVE Orderly(u)' /\ Accounted(u)'
  <2>1. CASE u = t
    BY <1>1, <2>1, OrderlyServed, AccountedServed DEF ServiceInv
  <2>2. CASE u # t
    <3>1. frame'[u] = frame[u] /\ req'[u] = req[u] /\ Orderly(u) /\ Accounted(u)
      BY <1>1, <2>2 DEF RequestShape, ServiceInv
    <3>2. req[u].pc \in HasObject =>
            state'[req[u].o] = state[req[u].o] /\ inst'[req[u].o] = inst[req[u].o]
      <4>1. ASSUME NEW o \in Objects, o = req[u].o PROVE Kept(o)
        <5>1. ~Unused(o) /\ ~Unused(o)'
          BY <3>1, <4>1, InUse, InUseNext
        <5> QED BY <1>1, <5>1 DEF RequestShape
      <4> QED BY <1>1, <4>1 DEF Linked, LinkedTo, Kept
    <3>3. req[u].pc # "idle" => req[u].id \in Ids /\ row'[req[u].id] = row[req[u].id]
      <4>1. ASSUME req[u].pc # "idle" PROVE req[u].id \in Ids
        BY <1>1, <4>1 DEF Linked, ServiceTypeOK
      <4>2. ASSUME req[u].pc # "idle", req[t].pc # "idle" PROVE req[u].id # i
        BY <1>1, <2>2, <4>2, Elsewhere
      <4> QED BY <1>1, <4>1, <4>2 DEF RequestShape
    <3>4. req[u].pc # "idle" =>
           /\ host'[req[u].id] = host[req[u].id] /\ row'[req[u].id] = row[req[u].id]
           /\ forgotten'[req[u].id] = host'[req[u].id] \cap forgotten[req[u].id]
           /\ req[u].id \in unsaved' <=> req[u].id \in unsaved
      BY <1>1, <1>2, <3>3
    <3> QED BY <1>1, <3>1, <3>2, <3>4, OrderlyKept, AccountedKept
  <2> QED BY <2>1, <2>2
<1>4. ASSUME NEW p \in Objects PROVE Wired(p)'
  <2>1. CASE Kept(p)
    BY <2>1 DEF Kept, ServiceInv, Wired
  <2>2. CASE Pristine(p)'
    BY <2>2 DEF Pristine, Wired, Lively
  <2>3. CASE Unused(p) /\ p = req'[t].o
    <3>1. Pristine(p)
      BY <1>1, <2>3 DEF Linked
    <3>2. CASE UNCHANGED <<state, inst>>
      BY <3>1, <3>2 DEF Pristine, Wired, Lively
    <3>3. CASE Restored(t)
      BY <2>3, <3>3 DEF Restored, ServiceInv, WiredRow, Wired
    <3>4. CASE Passed(t)
      <4>1. ~Unused(p)'
        BY <2>3, InUseNext
      <4> QED BY <2>3, <3>4, <4>1 DEF Passed
    <3> QED BY <3>2, <3>3, <3>4 DEF Served, Constructed, Entered, Failed
  <2> QED BY <1>1, <2>1, <2>2, <2>3 DEF RequestShape
<1>5. ASSUME NEW j \in Ids PROVE WiredRow(j)'
  BY <1>1 DEF RequestShape, ServiceInv, WiredRow, NoRow, Lively
<1>6. ASSUME NEW j \in Ids PROVE Settled(j)'
  <2>1. CASE row'[j] = row[j]
    BY <1>2, <2>1 DEF ServiceInv, Settled
  <2>2. CASE row'[j] # row[j]
    <3>1. j = i /\ row'[j] = NoRow
      BY <1>1, <2>2 DEF RequestShape
    <3>2. req[t].pc = "rollback" /\ frame[t].pc = "idle"
      BY <2>2 DEF Served, Constructed, Restored, Entered, Failed, Passed
    <3>3. req[t].cmd = "create"
      BY <1>1, <3>2 DEF Linked, LinkedTo, CommandsAt
    <3>4. "clean_disk" \notin Faults /\ j \notin unsaved =>
            host[j] \subseteq forgotten[j]
      BY <3>1, <3>2, <3>3 DEF ServiceInv, Accounted, Known, Undone
    <3> QED BY <1>2, <3>1, <3>4 DEF Settled, NoRow
  <2> QED BY <2>1, <2>2
<1> QED BY <1>1, <1>3, <1>4, <1>5, <1>6 DEF ServiceInv

LEMMA DieKeeps ==
  ASSUME ServiceInv, NEW ts, NEW reg, Die(ts, reg), Others,
         reg = registry \/ reg = [i \in Ids |-> NoObject]
  PROVE  ServiceInv'
<1>1. Linked /\ DieShape(ts) /\ Linked' /\ UNCHANGED <<host, row>>
  BY DieShaped, DieLinked DEF ServiceInv, DieShape
<1>2. /\ unsaved' = unsaved
      /\ \A j \in Ids : /\ forgotten'[j] = host'[j] \cap forgotten[j]
                        /\ host[j] \subseteq forgotten[j] =>
                             host'[j] \subseteq forgotten'[j]
  BY <1>1, OthersBooks
<1>3. ASSUME NEW u \in Threads PROVE Orderly(u)' /\ Accounted(u)'
  <2>1. CASE u \in ts
    <3>1. Quiet(u)
      BY <1>1, <2>1 DEF DieShape, Quiet, NoRequest, Idle
    <3> QED BY <3>1, QuietKept
  <2>2. CASE u \notin ts
    <3>1. frame'[u] = frame[u] /\ req'[u] = req[u] /\ Orderly(u) /\ Accounted(u)
      BY <1>1, <2>2 DEF DieShape, ServiceInv
    <3>2. req[u].pc \in HasObject =>
            state'[req[u].o] = state[req[u].o] /\ inst'[req[u].o] = inst[req[u].o]
      <4>1. ASSUME NEW o \in Objects, o = req[u].o PROVE Kept(o)
        <5>1. ~Unused(o)'
          BY <3>1, <4>1, InUseNext
        <5> QED BY <1>1, <5>1 DEF DieShape
      <4> QED BY <1>1, <4>1 DEF Linked, LinkedTo, Kept
    <3>3. req[u].pc # "idle" =>
           /\ host'[req[u].id] = host[req[u].id] /\ row'[req[u].id] = row[req[u].id]
           /\ forgotten'[req[u].id] = host'[req[u].id] \cap forgotten[req[u].id]
           /\ req[u].id \in unsaved' <=> req[u].id \in unsaved
      BY <1>1, <1>2 DEF Linked, ServiceTypeOK
    <3> QED BY <1>1, <3>1, <3>2, <3>3, OrderlyKept, AccountedKept
  <2> QED BY <2>1, <2>2
<1>4. ASSUME NEW p \in Objects PROVE Wired(p)'
  BY <1>1 DEF DieShape, Kept, Pristine, ServiceInv, Wired, Lively
<1>5. ASSUME NEW j \in Ids PROVE WiredRow(j)' /\ Settled(j)'
  BY <1>1, <1>2 DEF ServiceInv, WiredRow, Settled
<1> QED BY <1>1, <1>3, <1>4, <1>5 DEF ServiceInv
LEMMA InitServiceInv == ServiceInit => ServiceInv
<1> SUFFICES ASSUME ServiceInit PROVE ServiceInv
  OBVIOUS
<1>1. /\ Linked
      /\ \A t \in Threads : req[t] = NoRequest /\ frame[t] = Idle
      /\ \A o \in Objects : state[o] = "DESTROYED"
      /\ \A i \in Ids : row[i] = NoRow /\ host[i] = {}
  BY InitLinked DEF ServiceInit
<1>2. ASSUME NEW t \in Threads PROVE Orderly(t) /\ Accounted(t)
  <2>1. req[t].pc = "idle" /\ frame[t].pc = "idle" /\ req[t].cmd = "none"
    BY <1>1 DEF NoRequest, Idle
  <2>2. Orderly(t)
    BY <2>1 DEF Orderly, Doing, Built, Initializing, Activating, Stopping
  <2>3. Accounted(t)
    BY <2>1 DEF Accounted, Emptied, Saved, Known, InitPcs
  <2> QED BY <2>2, <2>3
<1> QED
  BY <1>1, <1>2 DEF ServiceInv, Wired, WiredRow, Settled, Lively, NoRow

LEMMA StutterServiceInv ==
  ASSUME ServiceInv, UNCHANGED allVars
  PROVE  ServiceInv'
<1>1. Linked' /\ Linked
  BY StutterLinked DEF ServiceInv
<1>2. UNCHANGED <<state, inst, idOf, host, row, frame, registry, req, forgotten,
                  unsaved>>
  BY DEF allVars, vars, serviceVars
<1>3. ASSUME NEW u \in Threads PROVE Orderly(u)' /\ Accounted(u)'
  <2>1. Orderly(u) /\ Accounted(u)
    BY DEF ServiceInv
  <2> QED
    BY <1>2, <2>1
    DEF Orderly, Doing, Built, Initializing, Activating, Stopping, InitPhase,
        ActPhase, StopPhase, Accounted, Emptied, Saved, Known, Undone, Remains,
        Self
<1> QED BY <1>1, <1>2, <1>3 DEF ServiceInv, Wired, WiredRow, Settled

LEMMA ServiceInvariant == ServiceSpec /\ []Serialized => []ServiceInv
<1>1. ASSUME ServiceInv, Serialized, ServiceNext PROVE ServiceInv'
  <2>1. ASSUME NEW t \in Threads, MethodStep(t), MethodRemembers(t)
        PROVE  ServiceInv'
    BY <1>1, <2>1, MethodKeeps
  <2>2. ASSUME NEW t \in Threads, RequestStep(t), Others PROVE ServiceInv'
    <3>1. Served(t)
      BY <1>1, <2>2, RequestServed DEF ServiceInv
    <3>2. req[t].pc # "idle"
      BY <2>2
      DEF RequestStep, CreateExists, CreateAnswered, CreateRollback, Lookup,
          Load, Register, Check, Answered, CliConstruct, CliActivate,
          CliStarted, ReqAt
    <3> QED BY <1>1, <2>2, <3>1, <3>2, ServedKeeps
  <2>3. ASSUME NEW t \in Threads, NEW c \in Commands, NEW i \in Ids,
               Invoke(t, c, i), Others
        PROVE  ServiceInv'
    <3>1. Served(t) /\ row' = row
      BY <1>1, <2>3, InvokeServed DEF ServiceInv
    <3> QED BY <1>1, <2>3, <3>1, ServedKeeps
  <2>4. CASE CrashApi /\ Others
    BY <1>1, <2>4, DieKeeps DEF CrashApi
  <2>5. ASSUME NEW t \in Threads, CrashCli(t), Others PROVE ServiceInv'
    BY <1>1, <2>5, DieKeeps DEF CrashCli
  <2> QED BY <1>1, <2>1, <2>2, <2>3, <2>4, <2>5 DEF ServiceNext
<1>2. ServiceInv /\ Serialized /\ [ServiceNext]_allVars => ServiceInv'
  BY <1>1, StutterServiceInv
<1> QED BY <1>2, InitServiceInv, PTL DEF ServiceSpec

-----------------------------------------------------------------------------

\* Whatever is on the host can be found through the store, after any crash and
\* any failed call but one: a disk the cleanup of a failed initialize could not
\* delete stays behind on its own, and the rollback of the create deletes the
\* row (bunker.py:470-475, api.py:332-339).  A VM or a switch that was
\* forgotten, and what was made while a save had failed, is what the property
\* itself sets aside.
THEOREM TraceableAlways ==
  ASSUME "clean_disk" \notin Faults
  PROVE  ServiceSpec /\ []Serialized => []Traceable
<1>1. ServiceInv => Traceable
  <2> SUFFICES ASSUME ServiceInv, NEW i \in Ids \ unsaved, row[i] = NoRow
               PROVE  host[i] \ forgotten[i] = {}
    BY DEF Traceable
  <2> QED BY DEF ServiceInv, Settled
<1> QED BY <1>1, ServiceInvariant, PTL

\* A row that says DESTROYED has left nothing on the host but what an earlier
\* initialize on the same identifier had dropped, whatever fails, dies or
\* restarts, unless a switch removal answers True with the switch still there.
THEOREM DestroyedIsCleanAlways ==
  ASSUME "silent_switch" \notin Faults
  PROVE  ServiceSpec /\ []Serialized => []DestroyedIsClean
<1>1. ServiceInv => DestroyedIsClean
  BY DEF ServiceInv, Settled, DestroyedIsClean
<1> QED BY <1>1, ServiceInvariant, PTL
=============================================================================
