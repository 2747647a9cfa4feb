------------------------- MODULE ProcessGroupProofs -------------------------
(***************************************************************************)
(* Proofs about ProcessGroup, for every number of descendants, every pipe, *)
(* every output limit and either platform.                                 *)
(***************************************************************************)
EXTENDS ProcessGroup, TLAPS

Calling == {"start", "read", "wait"}
Ending == {"term", "grace", "drain", "final"}

Typed ==
    /\ call \in {"run", "run_bounded"}
    /\ pc \in Calling \cup Ending \cup {"done"}
    /\ result \in {"none", "error", "exit", "timeout", "exceeded"}
    /\ proc \in [Family -> Processes]
    /\ captured \in Nat /\ buffer \in Nat /\ written \in Nat

\* While the call reads, every byte written is captured or in the pipe; from
\* the end of the streams on, the pipe is empty and nobody can write to it.
BytesInv ==
    /\ pc \in Calling => captured + buffer = written
    /\ pc = "wait" \/ result = "exit" =>
          captured = written /\ buffer = 0 /\ Holders = {}
    /\ call = "run_bounded" => captured <= MaxOutput
    /\ call = "run_bounded" /\ result = "exceeded" => written > MaxOutput

\* The result is set when the reading ends, the first signal comes later,
\* and the child is collected once, at the end or before the pipes drain.
OrderInv ==
    /\ result = "none" <=> pc \in Calling
    /\ pc \in Calling \/ result \in {"exit", "error"} => signals = {}
    /\ result \in {"exit", "error"} => pc = "done"
    /\ pc = "start" => \A p \in Family : Is(p, "unborn")
    /\ Is(Child, "reaped") => pc \in {"drain", "final", "done"}
    /\ pc = "done" /\ result # "error" => Is(Child, "reaped")

IInv == Typed /\ BytesInv /\ OrderInv

LEMMA ChildInFamily == Child \in Family /\ Child \notin Descendants
BY GroupAssumption DEF Family, Child

LEMMA InitHolds == Init => IInv
<1> SUFFICES ASSUME Init PROVE IInv
  OBVIOUS
<1> USE DEF Init
<1>1. Typed
  BY DEF Typed, Calling, Processes
<1>2. BytesInv
  BY GroupAssumption DEF BytesInv, Calling
<1>3. OrderInv
  BY ChildInFamily DEF OrderInv, Calling, Is
<1> QED
  BY <1>1, <1>2, <1>3 DEF IInv

-----------------------------------------------------------------------------
(* The tool and the kernel: what they do to the processes                  *)

\* A process that is neither born nor collected by the step keeps its end of
\* the pipe or closes it, and no process gets one from nowhere.
LEMMA ProcessStep ==
    ASSUME IInv, proc' \in [Family -> Processes],
           UNCHANGED <<wrapper, buffer, written>>,
           Holders = {} => Holders' = {},
           Is(Child, "reaped") <=> Is(Child, "reaped")',
           pc # "start"
    PROVE  IInv'
<1>1. UNCHANGED <<call, pc, result, captured, signals, buffer, written>>
  BY DEF wrapper
<1>2. Typed'
  BY <1>1 DEF IInv, Typed
<1>3. BytesInv'
  BY <1>1 DEF IInv, BytesInv
<1>4. OrderInv'
  BY <1>1 DEF IInv, OrderInv
<1> QED
  BY <1>2, <1>3, <1>4 DEF IInv

LEMMA NobodyBeforeStart ==
    ASSUME IInv, NEW p \in Family, Is(p, "alive") \/ Is(p, "dying")
    PROVE  pc # "start"
BY DEF IInv, OrderInv, Is

LEMMA ForkStep ==
    ASSUME IInv, NEW p \in Family, NEW d \in Descendants, NEW b \in BOOLEAN,
           Fork(p, d, b)
    PROVE  IInv'
<1>1. pc # "start" /\ UNCHANGED <<wrapper, buffer, written>>
  BY NobodyBeforeStart DEF Fork
<1>2. d \in Family /\ d # Child /\ p # d
  BY ChildInFamily DEF Family, Fork, Is
<1>3. /\ proc \in [Family -> Processes] /\ Is(p, "alive")
      /\ proc' = [proc EXCEPT ![d] = [status |-> "alive", stubborn |-> b,
                                      open |-> proc[p].open,
                                      inGroup |-> proc[p].inGroup]]
  BY DEF IInv, Typed, Fork
<1>4. proc[p].open \in BOOLEAN /\ proc[p].inGroup \in BOOLEAN
  BY <1>3 DEF Processes
<1>5. proc' \in [Family -> Processes]
  BY <1>2, <1>3, <1>4 DEF Processes
<1>6. Holders = {} => Holders' = {}
  <2>1. ASSUME NEW q \in Holders' PROVE Holders # {}
    <3>1. CASE q = d
      BY <1>2, <1>3, <2>1, <3>1 DEF Holders, Is
    <3>2. CASE q # d
      BY <1>2, <1>3, <2>1, <3>2 DEF Holders
    <3> QED
      BY <3>1, <3>2
  <2> QED
    BY <2>1
<1>7. Is(Child, "reaped") <=> Is(Child, "reaped")'
  BY <1>2, <1>3, ChildInFamily DEF Is
<1> QED
  BY <1>1, <1>5, <1>6, <1>7, ProcessStep

LEMMA OutputStep == ASSUME IInv, NEW p \in Family, Output(p) PROVE IInv'
<1>1. pc # "start" /\ p \in Holders
  BY NobodyBeforeStart DEF Output, Holders, Is
<1>2. /\ UNCHANGED <<call, pc, result, captured, signals, proc>>
      /\ buffer' = buffer + 1 /\ written' = written + 1
  BY DEF Output, wrapper
<1>3. Typed'
  BY <1>2 DEF IInv, Typed
<1>4. BytesInv'
  <2>1. pc # "wait" /\ result # "exit"
    BY <1>1 DEF IInv, BytesInv
  <2> QED
    BY <1>2, <2>1, GroupAssumption DEF IInv, BytesInv, Typed
<1>5. OrderInv'
  BY <1>1, <1>2 DEF IInv, OrderInv, Is
<1> QED
  BY <1>3, <1>4, <1>5 DEF IInv

\* A process takes no end of the pipe up again, and is not collected.
Fades(old, new) ==
    /\ new \in Processes
    /\ new.open => old.open
    /\ new.status \in {"alive", "dying"} => old.status \in {"alive", "dying"}
    /\ new.status = "reaped" <=> old.status = "reaped"

\* Closing the pipe, exiting, leaving the group and dying of a signal.
LEMMA LeavingStep ==
    ASSUME IInv, NEW p \in Family,
           \/ CloseOutput(p) \/ Exit(p) \/ Die(p)
           \/ p \in Descendants /\ Leave(p)
    PROVE  IInv'
<1>1. pc # "start" /\ UNCHANGED <<wrapper, buffer, written>>
  BY NobodyBeforeStart DEF CloseOutput, Exit, Die, Leave
<1>2. /\ proc \in [Family -> Processes]
      /\ Is(p, "alive") \/ Is(p, "dying")
      /\ \/ proc' = [proc EXCEPT ![p].open = FALSE]
         \/ proc' = [proc EXCEPT ![p].status = "dead"]
         \/ proc' = [proc EXCEPT ![p].inGroup = FALSE]
  BY DEF IInv, Typed, CloseOutput, Exit, Die, Leave
<1>3. proc[p] \in Processes
  BY <1>2
<1>5. Fades(proc[p], proc'[p])
  <2>1. CASE proc' = [proc EXCEPT ![p].open = FALSE]
    <3>1. proc'[p] = [proc[p] EXCEPT !.open = FALSE]
      BY <1>2, <2>1
    <3> QED
      BY <1>2, <1>3, <3>1 DEF Processes, Is, Fades
  <2>2. CASE proc' = [proc EXCEPT ![p].status = "dead"]
    <3>1. proc'[p] = [proc[p] EXCEPT !.status = "dead"]
      BY <1>2, <2>2
    <3> QED
      BY <1>2, <1>3, <3>1 DEF Processes, Is, Fades
  <2>3. CASE proc' = [proc EXCEPT ![p].inGroup = FALSE]
    <3>1. proc'[p] = [proc[p] EXCEPT !.inGroup = FALSE]
      BY <1>2, <2>3
    <3> QED
      BY <1>2, <1>3, <3>1 DEF Processes, Is, Fades
  <2> QED
    BY <1>2, <2>1, <2>2, <2>3
<1>6. /\ proc' = [q \in Family |-> proc'[q]]
      /\ \A q \in Family \ {p} : proc'[q] = proc[q]
  BY <1>2
<1>7. \A q \in Family : Fades(proc[q], proc'[q])
  <2> TAKE q \in Family
  <2>1. CASE q = p
    BY <1>5, <2>1
  <2>2. CASE q # p
    <3>1. proc'[q] = proc[q] /\ proc[q] \in Processes
      BY <1>2, <1>6, <2>2
    <3> QED
      BY <3>1 DEF Fades
  <2> QED
    BY <2>1, <2>2
<1>8. proc' \in [Family -> Processes]
  BY <1>6, <1>7 DEF Fades
<1>9. Holders' \subseteq Holders /\ (Is(Child, "reaped") <=> Is(Child, "reaped")')
  BY <1>7, ChildInFamily DEF Holders, Is, Fades
<1> QED
  BY <1>1, <1>8, <1>9, ProcessStep

-----------------------------------------------------------------------------
(* The wrapper                                                             *)

LEMMA SignalKeeps ==
    ASSUME Typed, NEW targets, proc' = Signal(targets)
    PROVE  /\ proc' \in [Family -> Processes]
           /\ Holders' \subseteq Holders
           /\ Is(Child, "reaped") <=> Is(Child, "reaped")'
<1>1. ASSUME NEW p \in Family
      PROVE  /\ proc'[p] \in Processes /\ proc'[p].open = proc[p].open
             /\ proc'[p].status # proc[p].status =>
                   proc[p].status = "alive" /\ proc'[p].status = "dying"
  <2>1. proc[p] \in Processes
    BY DEF Typed
  <2>2. proc'[p] \in {proc[p], [proc[p] EXCEPT !.status = "dying"]}
        /\ (~ Is(p, "alive") => proc'[p] = proc[p])
    BY DEF Signal
  <2> QED
    BY <2>1, <2>2 DEF Processes, Is
<1>2. proc' \in [Family -> Processes]
  BY <1>1 DEF Signal
<1> QED
  BY <1>1, <1>2, ChildInFamily DEF Holders, Is

\* The child is collected by the step: nothing else about it changes.
LEMMA ReapKeeps ==
    ASSUME Typed, proc' = [proc EXCEPT ![Child].status = "reaped"]
    PROVE  /\ proc' \in [Family -> Processes]
           /\ Holders' \subseteq Holders
           /\ Is(Child, "reaped")'
<1>1. proc \in [Family -> Processes] /\ proc[Child] \in Processes
  BY ChildInFamily DEF Typed
<1>2. proc'[Child] = [proc[Child] EXCEPT !.status = "reaped"]
      /\ \A q \in Family \ {Child} : proc'[q] = proc[q]
  BY <1>1, ChildInFamily
<1>3. proc'[Child] \in Processes /\ proc'[Child].status = "reaped"
  BY <1>1, <1>2 DEF Processes
<1>4. proc' = [proc EXCEPT ![Child] = proc'[Child]]
  BY <1>1, <1>2
<1>5. proc' \in [Family -> Processes]
  BY <1>1, <1>3, <1>4
<1> QED
  BY <1>2, <1>3, <1>5 DEF Holders, Is

LEMMA StartStep == ASSUME IInv, NEW b \in BOOLEAN, Start(b) PROVE IInv'
<1>1. /\ pc = "start" /\ pc' = "read"
      /\ UNCHANGED <<call, result, captured, signals, buffer, written>>
      /\ proc \in [Family -> Processes]
  BY DEF Start, IInv, Typed
<1>2. proc' \in [Family -> Processes] /\ proc'[Child].status = "alive"
  BY <1>1, ChildInFamily DEF Start, Processes
<1>3. Typed'
  BY <1>1, <1>2 DEF IInv, Typed, Calling
<1>4. BytesInv'
  BY <1>1 DEF IInv, BytesInv, Calling, OrderInv
<1>5. OrderInv'
  BY <1>1, <1>2 DEF IInv, OrderInv, Calling, Is
<1> QED
  BY <1>3, <1>4, <1>5 DEF IInv

LEMMA RefuseStep == ASSUME IInv, Refuse PROVE IInv'
<1>1. /\ pc = "start" /\ pc' = "done" /\ result' = "error"
      /\ UNCHANGED <<call, captured, signals, proc, buffer, written>>
  BY DEF Refuse
<1>2. Typed'
  BY <1>1 DEF IInv, Typed
<1>3. BytesInv' /\ OrderInv'
  BY <1>1 DEF IInv, BytesInv, OrderInv, Calling, Is
<1> QED
  BY <1>2, <1>3 DEF IInv

LEMMA ReadStep == ASSUME IInv, NEW n \in 1..PipeSize, Read(n) PROVE IInv'
<1> USE GroupAssumption
<1>1. /\ pc = "read" /\ n \in 1..buffer /\ buffer' = buffer - n
      /\ UNCHANGED <<call, signals, proc, written>>
      /\ captured \in Nat /\ buffer \in Nat /\ written \in Nat
      /\ captured + buffer = written /\ result = "none"
  BY DEF Read, IInv, Typed, BytesInv, OrderInv, Calling
<1>2. CASE call = "run_bounded" /\ captured + n > MaxOutput
  <2>1. pc' = "term" /\ result' = "exceeded" /\ captured' = captured
    BY <1>2 DEF Read
  <2>2. written > MaxOutput
    BY <1>1, <1>2
  <2>3. Typed'
    BY <1>1, <2>1 DEF IInv, Typed, Ending
  <2>4. BytesInv' /\ OrderInv'
    BY <1>1, <2>1, <2>2 DEF IInv, BytesInv, OrderInv, Calling, Is
  <2> QED
    BY <2>3, <2>4 DEF IInv
<1>3. CASE ~ (call = "run_bounded" /\ captured + n > MaxOutput)
  <2>1. pc' = pc /\ result' = result /\ captured' = captured + n
    BY <1>3 DEF Read
  <2>2. Typed'
    BY <1>1, <2>1 DEF IInv, Typed
  <2>3. captured' + buffer' = written'
        /\ (call = "run_bounded" => captured' <= MaxOutput)
    BY <1>1, <1>3, <2>1
  <2>4. BytesInv' /\ OrderInv'
    BY <1>1, <2>1, <2>3 DEF IInv, BytesInv, OrderInv, Calling, Is
  <2> QED
    BY <2>2, <2>4 DEF IInv
<1> QED
  BY <1>2, <1>3

LEMMA ReadEndStep == ASSUME IInv, ReadEnd PROVE IInv'
<1>1. /\ pc = "read" /\ pc' = "wait" /\ buffer = 0 /\ Holders = {}
      /\ UNCHANGED <<call, result, captured, signals, proc, buffer, written>>
      /\ captured \in Nat /\ captured + buffer = written
  BY DEF ReadEnd, EndOfFile, IInv, Typed, BytesInv, Calling
<1>2. captured = written /\ Holders' = {}
  BY <1>1 DEF Holders, Is
<1>3. Typed'
  BY <1>1 DEF IInv, Typed, Calling
<1>4. BytesInv' /\ OrderInv'
  BY <1>1, <1>2 DEF IInv, BytesInv, OrderInv, Calling, Is
<1> QED
  BY <1>3, <1>4 DEF IInv

LEMMA WaitedStep == ASSUME IInv, Waited PROVE IInv'
<1>1. /\ pc = "wait" /\ pc' = "done" /\ result' = "exit"
      /\ UNCHANGED <<call, captured, signals, buffer, written>>
      /\ proc' = [proc EXCEPT ![Child].status = "reaped"]
  BY DEF Waited
<1>2. /\ proc' \in [Family -> Processes] /\ Holders' \subseteq Holders
      /\ Is(Child, "reaped")'
  BY <1>1, ReapKeeps DEF IInv
<1>3. Typed'
  BY <1>1, <1>2 DEF IInv, Typed
<1>4. BytesInv' /\ OrderInv'
  BY <1>1, <1>2 DEF IInv, BytesInv, OrderInv, Calling
<1> QED
  BY <1>3, <1>4 DEF IInv

LEMMA TimeoutStep == ASSUME IInv, Timeout PROVE IInv'
<1>1. /\ pc \in {"read", "wait"} /\ pc' = "term" /\ result' = "timeout"
      /\ UNCHANGED <<call, captured, signals, proc, buffer, written>>
  BY DEF Timeout
<1>2. Typed'
  BY <1>1 DEF IInv, Typed, Ending
<1>3. BytesInv' /\ OrderInv'
  BY <1>1 DEF IInv, BytesInv, OrderInv, Calling, Is
<1> QED
  BY <1>2, <1>3 DEF IInv

\* The steps that end the group: no result and no captured byte changes.
LEMMA EndingStep ==
    ASSUME IInv, pc \in Ending, pc' \in Ending \cup {"done"},
           UNCHANGED <<call, result, captured, written>>,
           buffer' \in Nat, proc' \in [Family -> Processes],
           Is(Child, "reaped")' => pc' \in {"drain", "final", "done"},
           pc' = "done" => Is(Child, "reaped")'
    PROVE  IInv'
<1>1. Typed'
  BY DEF IInv, Typed
<1>2. result \notin {"none", "exit", "error"}
  BY DEF IInv, OrderInv, Calling, Ending
<1>3. BytesInv'
  BY <1>2 DEF IInv, BytesInv, Calling, Ending
<1>4. OrderInv'
  BY <1>2 DEF IInv, OrderInv, Calling, Ending
<1> QED
  BY <1>1, <1>3, <1>4 DEF IInv

LEMMA WrapperEnds ==
    ASSUME IInv, \/ Terminate \/ NoGroup \/ GraceEnds \/ Kill
                 \/ Drain \/ DrainEnds \/ DrainTimeout
    PROVE  IInv'
<1>0. proc \in [Family -> Processes] /\ buffer \in Nat
      /\ (Is(Child, "reaped") => pc \in {"drain", "final", "done"})
  BY DEF IInv, Typed, OrderInv
<1>1. CASE Terminate \/ Kill \/ DrainTimeout
  <2>1. PICK targets : proc' = Signal(targets)
    BY <1>1 DEF Terminate, Kill, DrainTimeout
  <2>2. /\ proc' \in [Family -> Processes]
        /\ Is(Child, "reaped") <=> Is(Child, "reaped")'
    BY <2>1, SignalKeeps DEF IInv
  <2>3. /\ pc \in Ending /\ pc' \in Ending
        /\ UNCHANGED <<call, result, captured, written, buffer>>
        /\ Is(Child, "reaped") => pc' \in {"drain", "final", "done"}
    BY <1>0, <1>1 DEF Terminate, Kill, DrainTimeout, Ending
  <2> QED
    BY <1>0, <2>2, <2>3, EndingStep DEF Ending
<1>2. CASE GraceEnds \/ DrainEnds
  <2>1. proc' = [proc EXCEPT ![Child].status = "reaped"]
    BY <1>2 DEF GraceEnds, DrainEnds
  <2>2. proc' \in [Family -> Processes] /\ Is(Child, "reaped")'
    BY <2>1, ReapKeeps DEF IInv
  <2>3. /\ pc \in Ending /\ pc' \in {"drain", "done"}
        /\ UNCHANGED <<call, result, captured, written, buffer>>
    BY <1>2 DEF GraceEnds, DrainEnds, Ending
  <2> QED
    BY <1>0, <2>2, <2>3, EndingStep DEF Ending
<1>3. CASE NoGroup \/ Drain
  <2>1. /\ pc \in Ending /\ pc' \in {"drain", "final"}
        /\ UNCHANGED <<call, result, captured, written, proc>>
        /\ buffer' \in Nat
    BY <1>0, <1>3 DEF NoGroup, Drain, wrapper, Ending
  <2> QED
    BY <1>0, <2>1, EndingStep DEF Ending, Is
<1> QED
  BY <1>1, <1>2, <1>3

-----------------------------------------------------------------------------
(* The theorems                                                            *)

LEMMA NextHolds == IInv /\ [Next]_vars => IInv'
<1> SUFFICES ASSUME IInv, [Next]_vars PROVE IInv'
  OBVIOUS
<1>1. CASE Tool
  <2>1. ASSUME NEW d \in Descendants, Leave(d) PROVE IInv'
    BY <2>1, LeavingStep DEF Family
  <2> QED
    BY <1>1, <2>1, ForkStep, OutputStep, LeavingStep DEF Tool
<1>2. CASE Wrapper
  BY <1>2, RefuseStep, StartStep, ReadStep, ReadEndStep, WaitedStep,
     WrapperEnds DEF Wrapper
<1>3. CASE Timers
  BY <1>3, TimeoutStep, WrapperEnds DEF Timers
<1>4. ASSUME NEW p \in Family, Die(p) PROVE IInv'
  BY <1>4, LeavingStep
<1>5. CASE UNCHANGED vars
  <2>1. UNCHANGED <<call, pc, result, captured, signals, proc, buffer, written>>
    BY <1>5 DEF vars
  <2> QED
    BY <2>1 DEF IInv, Typed, BytesInv, OrderInv, Holders, Is
<1> QED
  BY <1>1, <1>2, <1>3, <1>4, <1>5 DEF Next

\* The inductive invariant holds in every state of every call.
THEOREM InvHolds == Spec => []IInv
<1> QED
  BY InitHolds, NextHolds, PTL DEF Spec

\* What run() and run_bounded() report is what happened.
THEOREM ResultHolds == Spec => []ResultIsTrue
<1>1. IInv => ResultIsTrue
  BY DEF IInv, BytesInv, OrderInv, Calling, ResultIsTrue
<1> QED
  BY <1>1, InvHolds, PTL

\* _terminate_process_group(): no signal goes to the group of a child that
\* was collected.
THEOREM SignalsHold == Spec => NoSignalAfterReap
<1>1. ASSUME IInv, [Next]_vars
      PROVE  [signals' # signals => ~ Is(Child, "reaped")]_vars
  <2>1. ASSUME signals' # signals PROVE pc \in {"term", "grace"}
    BY <1>1, <2>1 DEF Next, Tool, Wrapper, Timers, Fork, Output, CloseOutput,
       Exit, Die, Leave, Refuse, Start, Read, ReadEnd, Waited, Timeout, Terminate,
       NoGroup, GraceEnds, Kill, Drain, DrainEnds, DrainTimeout, wrapper, vars
  <2> QED
    BY <1>1, <2>1 DEF IInv, OrderInv
<1> QED
  BY <1>1, InvHolds, PTL DEF Spec, NoSignalAfterReap

\* SIGKILL reaches everybody it is sent to.
KillInv == "KILL" \in signals => Alive \cap Group = {}

LEMMA KillStep == IInv /\ KillInv /\ [Next]_vars => KillInv'
<1> SUFFICES ASSUME IInv, KillInv, [Next]_vars, "KILL" \in signals'
             PROVE  (Alive \cap Group)' = {}
  BY DEF KillInv
<1>0. proc \in [Family -> Processes] /\ (pc = "start" => signals = {})
  BY DEF IInv, Typed, OrderInv, Calling
<1>1. CASE Kill
  <2>1. proc' = Signal(Group)
    BY <1>1 DEF Kill
  <2>2. ASSUME NEW p \in Family PROVE ~ (Is(p, "alive") /\ proc[p].inGroup)'
    BY <1>0, <2>1, <2>2 DEF Signal, Is, Group, Processes
  <2> QED
    BY <2>2 DEF Alive, Group
<1>2. CASE ~ Kill
  <2>1. "KILL" \in signals
    BY <1>2 DEF Next, Tool, Wrapper, Timers, Fork, Leave, Output, CloseOutput,
       Exit, Die, Refuse, Start, Read, ReadEnd, Waited, Timeout, Terminate,
       NoGroup, GraceEnds, Drain, DrainEnds, DrainTimeout, wrapper, vars
  <2>2. \A p \in Family : ~ (Is(p, "alive") /\ proc[p].inGroup)
    BY <2>1 DEF KillInv, Alive, Group
  <2>3. ASSUME NEW p \in Family PROVE ~ (Is(p, "alive") /\ proc[p].inGroup)'
    <3>1. CASE \E q \in Family, d \in Descendants, b \in BOOLEAN : Fork(q, d, b)
      <4>1. PICK q \in Family, d \in Descendants, b \in BOOLEAN :
              /\ Is(q, "alive")
              /\ proc' = [proc EXCEPT ![d] = [status |-> "alive",
                             stubborn |-> b, open |-> proc[q].open,
                             inGroup |-> proc[q].inGroup]]
        BY <3>1 DEF Fork
      <4>2. ~ proc[q].inGroup /\ d \in Family
        BY <2>2, <4>1 DEF Family
      <4>3. CASE p = d
        BY <1>0, <4>1, <4>2, <4>3 DEF Is
      <4>4. CASE p # d
        BY <1>0, <2>2, <4>1, <4>2, <4>4 DEF Is
      <4> QED
        BY <4>3, <4>4
    <3>2. CASE \E q \in Family : CloseOutput(q) \/ Exit(q) \/ Die(q)
                                \/ (q \in Descendants /\ Leave(q))
      <4>1. PICK q \in Family :
              \/ proc' = [proc EXCEPT ![q].open = FALSE]
              \/ proc' = [proc EXCEPT ![q].status = "dead"]
              \/ proc' = [proc EXCEPT ![q].inGroup = FALSE]
        BY <3>2 DEF CloseOutput, Exit, Die, Leave
      <4> QED
        BY <1>0, <2>2, <4>1 DEF Is, Processes
    <3>3. CASE \/ Terminate \/ DrainTimeout
      <4>1. PICK targets : proc' = Signal(targets)
        BY <3>3 DEF Terminate, DrainTimeout
      <4> QED
        BY <1>0, <2>2, <4>1 DEF Signal, Is, Processes
    <3>4. CASE proc' = [proc EXCEPT ![Child].status = "reaped"]
      BY <1>0, <2>2, <3>4 DEF Is, Processes
    <3>5. CASE proc' = proc
      BY <2>2, <3>5 DEF Is
    <3>6. ~ \E b \in BOOLEAN : Start(b)
      BY <1>0, <2>1 DEF Start
    <3>7. CASE Tool \/ \E q \in Family : Die(q)
      <4>1. \A d \in Descendants : d \in Family
        BY DEF Family
      <4>2. CASE \E q \in Family : Output(q)
        BY <3>5, <4>2 DEF Output
      <4> QED
        BY <3>1, <3>2, <3>7, <4>1, <4>2 DEF Tool
    <3>8. CASE UNCHANGED vars
      BY <3>5, <3>8 DEF vars
    <3>9. CASE Timers \/ Wrapper
      BY <1>2, <3>3, <3>4, <3>5, <3>6, <3>9 DEF Timers, Wrapper, Refuse, Read,
         ReadEnd, Waited, Timeout, NoGroup, GraceEnds, Drain, DrainEnds
    <3> QED
      BY <3>7, <3>8, <3>9 DEF Next
  <2> QED
    BY <2>3 DEF Alive, Group
<1> QED
  BY <1>1, <1>2

\* Once SIGKILL was sent, no process of the group goes on running: what
\* NothingLeftRunning asks for, which the code gives only on this path.
THEOREM KilledGroupIsGone ==
    Spec => []("KILL" \in signals => NothingLeftRunning)
<1>1. Init => KillInv
  BY DEF Init, KillInv
<1>2. KillInv => ("KILL" \in signals => NothingLeftRunning)
  BY DEF KillInv, NothingLeftRunning
<1> QED
  BY <1>1, <1>2, KillStep, InvHolds, PTL DEF Spec
=============================================================================
