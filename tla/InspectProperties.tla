------------------------- MODULE InspectProperties -------------------------
(* What an analysis owes the caller, the host and the next analysis.         *)
EXTENDS Inspect, FiniteSets

\* The analysis variables have their types, and a worker that is in a bunker
\* method is there for its own bunker.
InspectTypeOK ==
  /\ TypeOK
  /\ slots \in 0..MaxInFlight
  /\ job \in [Threads -> Job]
  /\ monitor \in [Threads -> Monitor]
  /\ \A t \in Threads : ~At(t, "idle") => Self(t) = job[t].o

\* A slot is taken from the admission of an analysis to the end of its worker,
\* and is given back exactly once, whether the caller got an answer or gave up
\* with a 504 long before (api.py:507-543).
SlotsBalance ==
  slots + Cardinality({t \in Threads : Working(t)}) = MaxInFlight

\* "Decontaminate - ALWAYS, even on failure or deadline abort" (inspect.py:684):
\* wherever the cycle failed, raised or ran out of time, a bunker whose
\* analysis is over is not up, and has no row left to be restored from.
AlwaysDecontaminated ==
  \A t \in Threads : job[t].pc \in {"report", "answer"} /\ Bkr(t) # NoObject =>
    /\ state[Bkr(t)] \in {"DESTROYED", "READY", "ERROR"}
    /\ "vm" \in host[idOf[Bkr(t)]] => ~job[t].success
    /\ row[idOf[Bkr(t)]] = NoRow

\* A report that says the decontamination succeeded is about a bunker that has
\* nothing left on the host (inspect.py:566 "nothing active was leaked once
\* resources are removed", decontamination.py:54).
SuccessIsClean ==
  \A t \in Threads : JobAt(t, "answer") /\ job[t].success =>
    host[idOf[Bkr(t)]] = {}

\* When the report is built, a verdict other than error is about a sample that
\* was executed, whose monitor has not yet met a check that could not look, and
\* clean means that nothing was collected (inspect.py:654-691).  The monitor may
\* still be in a round by then: what it finds later is in no report.
VerdictIsEarned ==
  [][\A t \in Threads :
       JobAt(t, "report") /\ job'[t].verdict \notin {"none", "error"} =>
         /\ job[t].executed /\ ~monitor[t].unavailable
         /\ job'[t].verdict = "clean" => job[t].iocs = {}]_inspectAllVars

\* inspect.py:687-688 "A guest capability that was never consulted must not
\* read as a clean guest": behind a clean verdict every check of the monitor
\* was made at least once.
CleanWasLookedAt ==
  \A t \in Threads : JobAt(t, "answer") /\ job[t].verdict = "clean" =>
    monitor[t].looked

\* Wherever the process of the API dies, in a method of the bunker, between the
\* removals of the fallback or before the row is deleted, what it leaves on the
\* host has a row (bunker.py:200-210, inspect.py:566-574: the row goes last).  It
\* does not say so of a process that dies with the report in its hands: the row of
\* a decontamination that failed is deleted too.
InterruptedIsTraceable ==
  \A t \in Threads :
    job[t].pc = "dead" /\ job[t].died \notin {"report", "answer"} /\ host[idOf[Bkr(t)]] # {} =>
      row[idOf[Bkr(t)]] # NoRow

\* Every admitted analysis ends and its slot comes back, also when the caller
\* is gone, the deadline has passed or a step fails, unless the process dies.
AnalysisEnds ==
  \A t \in Threads : Working(t) ~> ~Working(t)
=============================================================================
