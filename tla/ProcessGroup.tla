---------------------------- MODULE ProcessGroup ----------------------------
(***************************************************************************)
(* proc.run and proc.run_bounded of src/iacreview/proc.py: an external     *)
(* tool is started as the leader of a process group, its output is read    *)
(* until every holder of the pipe has closed it, and when the wall clock   *)
(* or the output limit runs out the group is terminated.                   *)
(*                                                                         *)
(* The tool is free: it and its descendants fork, write, close the pipe,   *)
(* ignore SIGTERM, exit or run forever, and a descendant may leave the     *)
(* group that is signalled.  stdout and stderr are one pipe here, since    *)
(* both are read to the end and share one limit.  Time is a timer that may *)
(* ring whenever the code waits with a timeout.                            *)
(***************************************************************************)
EXTENDS Integers, FiniteSets

CONSTANTS
    Descendants,    \* processes that the tool may fork
    MaxOutput,      \* max_output_bytes of run_bounded
    PipeSize,       \* what a pipe buffers
    ZombieHasGroup, \* the platform finds the group of a child that exited
                    \* and was not waited for (Linux does)
    MaxWritten      \* bound: how much they write in all

ASSUME GroupAssumption ==
    /\ MaxOutput \in Nat \ {0}
    /\ PipeSize \in Nat \ {0}
    /\ ZombieHasGroup \in BOOLEAN
    /\ MaxWritten \in Nat
    /\ "child" \notin Descendants

VARIABLES
    call,       \* "run" or "run_bounded"
    pc,         \* where the wrapper is in the call
    result,     \* what it returned or raised
    captured,   \* output the caller will be given
    signals,    \* the signals sent to the group
    proc,       \* process -> its status, SIGTERM disposition, pipe end and
                \* whether it is in the process group of the child
    buffer,     \* bytes in the pipe
    written     \* history: everything the tool ever wrote

vars == <<call, pc, result, captured, signals, proc, buffer, written>>
wrapper == <<call, pc, result, captured, signals>>

Child == "child"
Family == {Child} \cup Descendants

\* "dying": a fatal signal is pending.  "dead": for the child, a zombie
\* that wait() has not collected yet.
Processes == [status : {"unborn", "alive", "dying", "dead", "reaped"},
              stubborn : BOOLEAN, open : BOOLEAN, inGroup : BOOLEAN]

Is(p, s) == proc[p].status = s
Alive == {p \in Family : Is(p, "alive")}
Group == {p \in Family : proc[p].inGroup}
Holders == {p \in Family : proc[p].open /\ proc[p].status \in
                                             {"alive", "dying"}}
EndOfFile == buffer = 0 /\ Holders = {}

Init == /\ call \in {"run", "run_bounded"}
        /\ pc = "start"
        /\ result = "none"
        /\ captured = 0
        /\ signals = {}
        /\ proc = [p \in Family |-> [status |-> "unborn", stubborn |-> FALSE,
                                     open |-> FALSE, inGroup |-> FALSE]]
        /\ buffer = 0
        /\ written = 0

-----------------------------------------------------------------------------
(* The tool and its descendants *)

Fork(p, d, stubborn) ==
    /\ Is(p, "alive") /\ Is(d, "unborn")
    /\ proc' = [proc EXCEPT ![d] = [status |-> "alive",
                                    stubborn |-> stubborn,
                                    open |-> proc[p].open,
                                    inGroup |-> proc[p].inGroup]]
    /\ UNCHANGED <<wrapper, buffer, written>>

(* setsid() or setpgid(), for good.  The child cannot: it leads a session. *)
Leave(d) ==
    /\ Is(d, "alive") /\ proc[d].inGroup
    /\ proc' = [proc EXCEPT ![d].inGroup = FALSE]
    /\ UNCHANGED <<wrapper, buffer, written>>

Output(p) ==
    /\ Is(p, "alive") /\ proc[p].open
    /\ buffer < PipeSize /\ written < MaxWritten
    /\ buffer' = buffer + 1
    /\ written' = written + 1
    /\ UNCHANGED <<wrapper, proc>>

CloseOutput(p) ==
    /\ Is(p, "alive") /\ proc[p].open
    /\ proc' = [proc EXCEPT ![p].open = FALSE]
    /\ UNCHANGED <<wrapper, buffer, written>>

Exit(p) ==
    /\ Is(p, "alive")
    /\ proc' = [proc EXCEPT ![p].status = "dead"]
    /\ UNCHANGED <<wrapper, buffer, written>>

(* The kernel delivers a fatal signal *)
Die(p) ==
    /\ Is(p, "dying")
    /\ proc' = [proc EXCEPT ![p].status = "dead"]
    /\ UNCHANGED <<wrapper, buffer, written>>

-----------------------------------------------------------------------------
(* The wrapper *)

Signal(targets) ==
    [p \in Family |-> IF p \in targets /\ Is(p, "alive")
                     THEN [proc[p] EXCEPT !.status = "dying"]
                     ELSE proc[p]]

(* Malformed argv, a tool that is not on PATH, a Popen that fails *)
Refuse ==
    /\ pc = "start"
    /\ pc' = "done" /\ result' = "error"
    /\ UNCHANGED <<call, captured, signals, proc, buffer, written>>

(* Popen with start_new_session: the child leads a group of its own *)
Start(stubborn) ==
    /\ pc = "start"
    /\ pc' = "read"
    /\ proc' = [proc EXCEPT ![Child] = [status |-> "alive",
                                        stubborn |-> stubborn,
                                        open |-> TRUE, inGroup |-> TRUE]]
    /\ UNCHANGED <<call, result, captured, signals, buffer, written>>

\* Faulty variant: run_bounded keeps what exceeds its limit.
Read_KeepAll(n) ==
    /\ pc = "read"
    /\ n \in 1..buffer
    /\ buffer' = buffer - n
    /\ captured' = captured + n
    /\ IF call = "run_bounded" /\ captured + n > MaxOutput
       THEN /\ pc' = "term" /\ result' = "exceeded"
       ELSE UNCHANGED <<pc, result>>
    /\ UNCHANGED <<call, signals, proc, written>>

(* Some output is read; run_bounded drops what exceeds its limit *)
Read(n) ==
    /\ pc = "read"
    /\ n \in 1..buffer
    /\ buffer' = buffer - n
    /\ IF call = "run_bounded" /\ captured + n > MaxOutput
       THEN /\ pc' = "term" /\ result' = "exceeded"
            /\ UNCHANGED captured
       ELSE /\ captured' = captured + n
            /\ UNCHANGED <<pc, result>>
    /\ UNCHANGED <<call, signals, proc, written>>

\* Faulty variant: reading stops when the child exits.
ReadEnd_ChildOnly ==
    /\ pc = "read"
    /\ EndOfFile \/ Is(Child, "dead")
    /\ pc' = "wait"
    /\ UNCHANGED <<call, result, captured, signals, proc, buffer, written>>

(* Both streams are at their end; the child may still be running *)
ReadEnd ==
    /\ pc = "read" /\ EndOfFile
    /\ pc' = "wait"
    /\ UNCHANGED <<call, result, captured, signals, proc, buffer, written>>

Waited ==
    /\ pc = "wait" /\ Is(Child, "dead")
    /\ pc' = "done" /\ result' = "exit"
    /\ proc' = [proc EXCEPT ![Child].status = "reaped"]
    /\ UNCHANGED <<call, captured, signals, buffer, written>>

\* Faulty variant: the wait for the child has no timeout.
Timeout_ReadOnly ==
    /\ pc = "read"
    /\ pc' = "term" /\ result' = "timeout"
    /\ UNCHANGED <<call, captured, signals, proc, buffer, written>>

(* timeout_s is over before the output ended or the child was collected *)
Timeout ==
    /\ pc \in {"read", "wait"}
    /\ pc' = "term" /\ result' = "timeout"
    /\ UNCHANGED <<call, captured, signals, proc, buffer, written>>

(* _terminate_process_group(): SIGTERM to the group of the child ... *)
Terminate ==
    /\ pc = "term"
    /\ pc' = "grace"
    /\ signals' = signals \cup {"TERM"}
    /\ proc' = Signal({p \in Group : ~ proc[p].stubborn})
    /\ UNCHANGED <<call, result, captured, buffer, written>>

(* ... unless the platform finds no group for a child that is a zombie *)
NoGroup ==
    /\ pc = "term" /\ Is(Child, "dead") /\ ~ ZombieHasGroup
    /\ pc' = "drain"
    /\ UNCHANGED <<call, result, captured, signals, proc, buffer, written>>

(* ... wait(_TERMINATE_GRACE_S) for the child ... *)
GraceEnds ==
    /\ pc = "grace" /\ Is(Child, "dead")
    /\ pc' = "drain"
    /\ proc' = [proc EXCEPT ![Child].status = "reaped"]
    /\ UNCHANGED <<call, result, captured, signals, buffer, written>>

(* ... SIGKILL to the group when that wait times out ... *)
Kill ==
    /\ pc = "grace"
    /\ pc' = "drain"
    /\ signals' = signals \cup {"KILL"}
    /\ proc' = Signal(Group)
    /\ UNCHANGED <<call, result, captured, buffer, written>>

(* ... and communicate(): what still comes is read and thrown away ... *)
Drain ==
    /\ pc \in {"drain", "final"} /\ buffer > 0
    /\ buffer' = 0
    /\ UNCHANGED <<wrapper, proc, written>>

\* Faulty variant: the call returns without collecting the child.
DrainEnds_NoWait ==
    /\ pc \in {"drain", "final"} /\ EndOfFile
    /\ pc' = "done"
    /\ UNCHANGED <<call, result, captured, signals, proc, buffer, written>>

(* ... until the streams end and the child is collected ... *)
DrainEnds ==
    /\ pc \in {"drain", "final"} /\ EndOfFile
    /\ Is(Child, "dead") \/ Is(Child, "reaped")
    /\ pc' = "done"
    /\ proc' = [proc EXCEPT ![Child].status = "reaped"]
    /\ UNCHANGED <<call, result, captured, signals, buffer, written>>

\* Faulty variant: the last resort signals the group again.
DrainTimeout_KillGroup ==
    /\ pc = "drain"
    /\ pc' = "final"
    /\ signals' = signals \cup {"KILL"}
    /\ proc' = Signal(Group)
    /\ UNCHANGED <<call, result, captured, buffer, written>>

(* ... or, after another grace period, kill() and communicate() without a  *)
(* timeout.  kill() does nothing to a child that was collected.            *)
DrainTimeout ==
    /\ pc = "drain"
    /\ pc' = "final"
    /\ proc' = Signal({Child})
    /\ UNCHANGED <<call, result, captured, signals, buffer, written>>

Tool == \/ \E p \in Family :
              \/ \E d \in Descendants, b \in BOOLEAN : Fork(p, d, b)
              \/ Output(p)
              \/ CloseOutput(p)
              \/ Exit(p)
        \/ \E d \in Descendants : Leave(d)

Timers == Timeout \/ Kill \/ DrainTimeout

Wrapper == \/ Refuse
           \/ \E b \in BOOLEAN : Start(b)
           \/ \E n \in 1..PipeSize : Read(n)
           \/ ReadEnd \/ Waited \/ Terminate \/ NoGroup
           \/ GraceEnds \/ Drain \/ DrainEnds

Next == Tool \/ Wrapper \/ Timers \/ \E p \in Family : Die(p)

Spec == Init /\ [][Next]_vars

(* The wrapper runs, its timers ring and the kernel delivers signals; the  *)
(* tool owes nothing to anybody.                                           *)
Fairness == /\ WF_vars(Wrapper)
            /\ WF_vars(Timers)
            /\ \A p \in Family : WF_vars(Die(p))

FairSpec == Spec /\ Fairness

-----------------------------------------------------------------------------
(* What a call reports is what happened, and it reports it when it reads   *)
(* no more. An exit status is that of a tool nobody signalled, with the    *)
(* whole output, also what descendants wrote that outlived the tool;       *)
(* run_bounded hands over no more than its limit and says it was exceeded  *)
(* only when it was; and whichever way a call ends, the child was          *)
(* collected: "no zombie remains".                                         *)
ResultIsTrue ==
    /\ result = "none" <=> pc \in {"start", "read", "wait"}
    /\ result = "exit" => captured = written /\ signals = {}
    /\ call = "run_bounded" => /\ captured <= MaxOutput
                               /\ result = "exceeded" => written > MaxOutput
    /\ pc = "done" /\ result # "error" => Is(Child, "reaped")

(* The process group is signalled only while its leader has not been       *)
(* collected: afterwards the kernel may give the number to a stranger.     *)
NoSignalAfterReap ==
    [][signals' # signals => ~ Is(Child, "reaped")]_vars

(* The only way for a call to hang: the last communicate() waits for a     *)
(* descendant that holds the pipe and that SIGKILL did not reach. Either   *)
(* SIGKILL was not sent at all, because the tool itself was gone within    *)
(* the grace period (or its group could no longer be found), or the        *)
(* descendant had left the group.                                          *)
Hung == /\ pc = "final"
        /\ \E d \in Descendants \cap Alive \cap Holders :
              "KILL" \in signals => d \notin Group

(* A call always ends, however long the tool runs and whatever it forks,   *)
(* unless it is hung for one of those reasons, and for good.               *)
CallEnds == <>(pc = "done") \/ <>[]Hung

(* "Sends SIGTERM to the whole group, waits up to _TERMINATE_GRACE_S for   *)
(* it to exit, then sends SIGKILL to whatever is left": after a timeout no *)
(* process of the group goes on running. (A process that left the group is *)
(* not one of it.)                                                         *)
NothingLeftRunning ==
    pc = "done" /\ result \in {"timeout", "exceeded"} => Alive \cap Group = {}
=============================================================================
