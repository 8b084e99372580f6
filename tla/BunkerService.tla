--------------------------- MODULE BunkerService ---------------------------
(***************************************************************************)
(* The processes that share the state store and the host: the handlers of  *)
(* lumenos_sandbox/api.py, over one in-memory registry, and the start and  *)
(* stop commands of cli.py, each a process of its own.  A request runs on  *)
(* a thread of Bunker; a process may die between any two steps, and what   *)
(* it held in memory is gone.                                              *)
(***************************************************************************)
EXTENDS BunkerProperties

CONSTANTS
  Commands,     \* the requests that clients of this instance make
  Crashes       \* whether processes may die

\* handlers of api.py; "get" stands for those that only look a bunker up
ApiCommands == {"create", "start", "stop", "activate", "get"}

\* cmd_start and cmd_stop of cli.py
CliCommands == {"cli_start", "cli_stop"}

ASSUME ServiceAssumption ==
  /\ Commands \subseteq ApiCommands \cup CliCommands
  /\ Crashes \in BOOLEAN
  /\ {"true", "false", "raised"} \subseteq Answers

VARIABLES
  registry,     \* registry[i]: api._bunkers
  req,          \* req[t]: the request that thread t serves
  forgotten,    \* forgotten[i]: what is on the host though a failed initialize
                \* dropped its name, or never had it
  unsaved       \* the ids with a transition that was not saved, until one is
                \* saved while nothing of theirs is on the host

serviceVars == <<registry, req, forgotten, unsaved>>

allVars == <<vars, serviceVars>>

\* labels of a request: the one below "call" and "call2" is in a bunker method
ReqPcs == {"idle", "exists", "call", "call2", "rollback", "lookup", "load",
           "register", "check"}

NoRequest == [pc |-> "idle", cmd |-> "none", id |-> "none", o |-> NoObject]

Request == [pc : ReqPcs, cmd : Commands \cup {"none"},
            id : Ids \cup {"none"}, o : Objects \cup {NoObject}]

ServiceInit ==
  /\ state = [o \in Objects |-> "DESTROYED"]
  /\ inst = [o \in Objects |-> Fresh]
  /\ \E i \in Ids : idOf = [o \in Objects |-> i]
  /\ host = [i \in Ids |-> {}]
  /\ row = [i \in Ids |-> NoRow]
  /\ frame = [t \in Threads |-> Idle]
  /\ registry = [i \in Ids |-> NoObject]
  /\ req = [t \in Threads |-> NoRequest]
  /\ forgotten = [i \in Ids |-> {}]
  /\ unsaved = {}

-----------------------------------------------------------------------------

ReqAt(t, l) == req[t].pc = l /\ At(t, "idle")

ReqGoto(t, l) == req' = [req EXCEPT ![t].pc = l]

Enter(t, o, entry) ==
  frame' = [frame EXCEPT ![t] = [Idle EXCEPT !.pc = entry, !.o = o]]

\* objects that some reference of the program still reaches
Reached(reg, rq) ==
  {reg[i] : i \in Ids} \cup {rq[t].o : t \in Threads}

Unused(o) == o \notin Reached(registry, req)

\* what no reference reaches any longer is forgotten
Collect(reg, rq) ==
  /\ state' = [o \in Objects |-> IF o \in Reached(reg, rq) THEN state[o]
                                 ELSE "DESTROYED"]
  /\ inst' = [o \in Objects |-> IF o \in Reached(reg, rq) THEN inst[o]
                                ELSE Fresh]

\* the request is over, with an answer or an HTTP error
FinishWith(t, reg) ==
  /\ registry' = reg
  /\ req' = [req EXCEPT ![t] = NoRequest]
  /\ frame' = [frame EXCEPT ![t] = Idle]
  /\ Collect(reg, [req EXCEPT ![t] = NoRequest])
  /\ UNCHANGED idOf

Finish(t) == FinishWith(t, registry)

Same == UNCHANGED <<state, inst, idOf, host, row>>

-----------------------------------------------------------------------------

Invoke(t, c, i) ==
  /\ ReqAt(t, "idle")
  /\ req' = [req EXCEPT ![t] =
       [pc |-> CASE c = "create" -> "exists"
                 [] c \in {"start", "stop", "activate", "get"} -> "lookup"
                 [] OTHER -> "load",
        cmd |-> c, id |-> i, o |-> NoObject]]
  /\ Same /\ UNCHANGED <<frame, registry>>

\* a Bunker built from the configuration of the request: create, cmd_start
Construct(t, o) ==
  /\ Unused(o)
  /\ idOf' = [idOf EXCEPT ![o] = req[t].id]
  /\ req' = [req EXCEPT ![t].pc = "call", ![t].o = o]
  /\ Enter(t, o, "init_begin")
  /\ UNCHANGED <<state, inst, host, row, registry>>

-----------------------------------------------------------------------------
(* create_bunker                                                           *)

\* a bug to catch: a known id is created again
CreateAnyway(t) ==
  /\ ReqAt(t, "exists")
  /\ \E o \in Objects : Construct(t, o)

\* 409 when the store has a row of the id
CreateExists(t) ==
  /\ ReqAt(t, "exists")
  /\ \/ row[req[t].id] # NoRow /\ Finish(t) /\ UNCHANGED <<host, row>>
     \/ row[req[t].id] = NoRow /\ \E o \in Objects : Construct(t, o)

\* registered when initialize answered True
CreateAnswered(t) ==
  /\ ReqAt(t, "call") /\ req[t].cmd = "create"
  /\ \/ /\ frame[t].result = "true"
        /\ FinishWith(t, [registry EXCEPT ![req[t].id] = req[t].o])
        /\ UNCHANGED <<host, row>>
     \/ /\ frame[t].result # "true"
        /\ ReqGoto(t, "rollback")
        /\ Same /\ UNCHANGED <<frame, registry>>

\* the row goes, whoever wrote it; a failing delete is ignored
CreateRollback(t) ==
  /\ ReqAt(t, "rollback")
  /\ \/ row' = [row EXCEPT ![req[t].id] = NoRow]
     \/ May("persist") /\ UNCHANGED row
  /\ Finish(t)
  /\ UNCHANGED host

-----------------------------------------------------------------------------
(* _get_bunker, and the handlers that look a bunker up                     *)

Lookup(t) ==
  LET o == registry[req[t].id] IN
  /\ ReqAt(t, "lookup")
  /\ req' = [req EXCEPT ![t].pc = IF o = NoObject THEN "load" ELSE "check",
                        ![t].o = o]
  /\ Same /\ UNCHANGED <<frame, registry>>

\* a bug to catch: the new object keeps the state it is constructed in
RestoreFresh(t, o) ==
  /\ Unused(o)
  /\ idOf' = [idOf EXCEPT ![o] = req[t].id]
  /\ inst' = [inst EXCEPT ![o].vm = row[req[t].id].vm,
                          ![o].switch = row[req[t].id].switch]
  /\ UNCHANGED state

\* a new object gets the state and the names of the row, and nothing else
Restore(t, o) ==
  /\ Unused(o)
  /\ idOf' = [idOf EXCEPT ![o] = req[t].id]
  /\ inst' = [inst EXCEPT ![o].vm = row[req[t].id].vm,
                          ![o].switch = row[req[t].id].switch]
  /\ state' = [state EXCEPT ![o] = row[req[t].id].state]

\* 404 without a row; cmd_stop goes straight to terminate
Load(t) ==
  /\ ReqAt(t, "load") /\ req[t].cmd # "cli_start"
  /\ \/ row[req[t].id] = NoRow /\ Finish(t)
     \/ /\ row[req[t].id] # NoRow
        /\ \E o \in Objects :
             /\ Restore(t, o)
             /\ IF req[t].cmd = "cli_stop"
                THEN /\ req' = [req EXCEPT ![t].pc = "call", ![t].o = o]
                     /\ Enter(t, o, "term_check")
                ELSE /\ req' = [req EXCEPT ![t].pc = "register", ![t].o = o]
                     /\ UNCHANGED frame
        /\ UNCHANGED registry
  /\ UNCHANGED <<host, row>>

\* an object that another request registered meanwhile is replaced
Register(t) ==
  LET reg == [registry EXCEPT ![req[t].id] = req[t].o]
      rq  == [req EXCEPT ![t].pc = "check"] IN
  /\ ReqAt(t, "register")
  /\ registry' = reg
  /\ req' = rq
  /\ Collect(reg, rq)
  /\ UNCHANGED <<idOf, host, row, frame>>

Expected == [start |-> "DESTROYED", stop |-> "ACTIVE", activate |-> "READY"]

Method == [start |-> "init_begin", stop |-> "term_check",
           activate |-> "act_check"]

\* 409 in any other state
Check(t) ==
  /\ ReqAt(t, "check")
  /\ IF req[t].cmd # "get" /\ state[req[t].o] = Expected[req[t].cmd]
     THEN /\ ReqGoto(t, "call")
          /\ Enter(t, req[t].o, Method[req[t].cmd])
          /\ Same /\ UNCHANGED registry
     ELSE Finish(t) /\ UNCHANGED <<host, row>>

\* True is a 200, False a 500, an exception a 500; the command exits
Answered(t) ==
  /\ ReqAt(t, "call") /\ req[t].cmd \in {"start", "stop", "activate", "cli_stop"}
  /\ Finish(t)
  /\ UNCHANGED <<host, row>>

\* cmd_start looks nothing up: a new Bunker on whatever the id had
CliConstruct(t) ==
  /\ ReqAt(t, "load") /\ req[t].cmd = "cli_start"
  /\ \E o \in Objects : Construct(t, o)

CliActivate(t) ==
  /\ ReqAt(t, "call") /\ req[t].cmd = "cli_start"
  /\ \/ /\ frame[t].result = "true"
        /\ ReqGoto(t, "call2")
        /\ Enter(t, req[t].o, "act_check")
        /\ Same /\ UNCHANGED registry
     \/ frame[t].result # "true" /\ Finish(t) /\ UNCHANGED <<host, row>>

CliStarted(t) ==
  /\ ReqAt(t, "call2")
  /\ Finish(t)
  /\ UNCHANGED <<host, row>>

-----------------------------------------------------------------------------
(* A process dies: the API with every handler and the registry, or one     *)
(* command.                                                                *)

Die(ts, reg) ==
  LET rq == [t \in Threads |-> IF t \in ts THEN NoRequest ELSE req[t]] IN
  /\ registry' = reg
  /\ req' = rq
  /\ frame' = [t \in Threads |-> IF t \in ts THEN Idle ELSE frame[t]]
  /\ Collect(reg, rq)
  /\ UNCHANGED <<idOf, host, row>>

Serves(t, cmds) == req[t].cmd \in cmds

CrashApi ==
  /\ Crashes
  /\ Die({t \in Threads : Serves(t, ApiCommands)}, [i \in Ids |-> NoObject])

CrashCli(t) ==
  /\ Crashes
  /\ Serves(t, CliCommands)
  /\ Die({t}, registry)

-----------------------------------------------------------------------------

RequestStep(t) ==
  \/ CreateExists(t) \/ CreateAnswered(t) \/ CreateRollback(t)
  \/ Lookup(t) \/ Load(t) \/ Register(t) \/ Check(t) \/ Answered(t)
  \/ CliConstruct(t) \/ CliActivate(t) \/ CliStarted(t)

MethodStep(t) == Step(t) /\ UNCHANGED <<registry, req>>

\* a removal of _cleanup_on_failure that failed, and a VM that was made by a
\* create_vm that answered False: nothing in memory or in the row names it now
Forgets(t) ==
  CASE At(t, "clean_vm") /\ inst[Self(t)].vm         -> {"vm"}
    [] At(t, "clean_switch") /\ inst[Self(t)].switch -> {"switch"}
    [] At(t, "init_vm") /\ ~inst'[Self(t)].vm        -> {"vm"}
    [] OTHER                                         -> {}

\* an initialize gives the name to what it makes
Names(t) ==
  {res \in {"vm", "switch"} : inst'[Self(t)][res] /\ ~inst[Self(t)][res]}

Remember(forgets(_)) == forgotten' = [i \in Ids |-> host'[i] \cap forgets(i)]

MethodRemembers(t) ==
  LET o == Self(t) IN
  /\ Remember(LAMBDA i : IF i = idOf[o] THEN (forgotten[i] \cup Forgets(t)) \ Names(t)
                         ELSE forgotten[i])
  /\ unsaved' = IF state'[o] = state[o] THEN unsaved
                ELSE IF row'[idOf[o]].state # state'[o] THEN unsaved \cup {idOf[o]}
                ELSE IF host[idOf[o]] = {} THEN unsaved \ {idOf[o]} ELSE unsaved

Others == Remember(LAMBDA i : forgotten[i]) /\ UNCHANGED unsaved

ServiceNext ==
  \/ \E t \in Threads :
       \/ (\E c \in Commands, i \in Ids : Invoke(t, c, i)) /\ Others
       \/ RequestStep(t) /\ Others
       \/ MethodStep(t) /\ MethodRemembers(t)
       \/ CrashCli(t) /\ Others
  \/ CrashApi /\ Others

ServiceSpec == ServiceInit /\ [][ServiceNext]_allVars
=============================================================================
