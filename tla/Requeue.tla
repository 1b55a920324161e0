------------------------------ MODULE Requeue ------------------------------
(***************************************************************************)
(* The governed requeue of exhausted tasks (ops.py, requeue_exhausted_task *)
(* and recovery_conflicts) with its external ledger (integrity.py).        *)
(*                                                                         *)
(* The requeue commits to SQLite and appends to a file afterwards: read,   *)
(* write and fsync.  Until both agree, init_assurance raises, so that no   *)
(* process enters the system; one that entered before may still work.  If  *)
(* the append raises, another transaction takes the requeue back.          *)
(*                                                                         *)
(* A provenance row stands for the record, the audit entry and the event   *)
(* it names; signatures verify what this code signed.                      *)
(***************************************************************************)
EXTENDS Integers, Sequences, FiniteSets

CONSTANTS
    Task,          \* the tasks of the allowlist, 145 and 146
    Approvable,    \* those whose requeue needs the Chairman's approval: 146
    Caller,        \* processes the CEO requeues from
    Executor,      \* processes that claim tasks
    None,
    Faults,        \* what may go wrong: "open", "fsync"
    DiesAt,        \* where the process of a requeue may die
    MaxGeneration, \* bound: claims of a task
    MaxRecord      \* bound: requeues ever committed

ASSUME RequeueAssumption ==
    /\ Approvable \subseteq Task
    /\ Faults \subseteq {"open", "fsync"}
    /\ DiesAt \subseteq {"read", "write", "sync", "undo"}
    /\ None \notin Task \cup Executor
    /\ MaxGeneration \in Nat \ {0} /\ MaxRecord \in Nat

VARIABLES
    state,      \* tasks.status and task_executions.recovery_status
    generation, \* task_executions.generation
    holder,     \* whose fencing token the execution row carries
    dead,       \* the recorded process was found dead
    approved,   \* task 145's decision package is approved
    anchors,    \* the rows <<id, task>> of task_recovery_provenance
    nextId,     \* sqlite_sequence of task_recovery_records, plus one
    ledger,     \* the lines of task-recovery-ledger.jsonl
    requeue,    \* where each caller is
    entered,    \* the executors that passed init_assurance
    interrupted, \* history: the rows of the requeues that died before their line
                 \* or in the compensation, or failed to sync it
    overlapped  \* history: two requeues were under way at once

taskVars == <<state, generation, holder, dead>>
sqlVars == <<taskVars, approved, anchors, nextId>>
history == <<interrupted, overlapped>>
vars == <<sqlVars, ledger, requeue, entered, history>>

TaskState == {"exhausted", "requeued", "running", "done"}

\* A line names its place, the line before it, by its record, and its values.
Line(sequence, previous, values) ==
    [sequence |-> sequence, previous |-> previous, values |-> values]

Away == [at |-> "away", row |-> <<0, None>>, sequence |-> 0, previous |-> 0]

Init ==
    /\ state = [t \in Task |-> "exhausted"]
    /\ generation = [t \in Task |-> 1]
    /\ holder = [t \in Task |-> None]
    /\ dead \in [Task -> BOOLEAN]
    /\ approved = FALSE
    /\ anchors = {} /\ nextId = 1 /\ ledger = <<>>
    /\ requeue = [c \in Caller |-> Away]
    /\ entered = {}
    /\ interrupted = {} /\ overlapped = FALSE

-----------------------------------------------------------------------------
(* The ledger                                                              *)

LastOf(lines) == IF lines = <<>> THEN 0 ELSE lines[Len(lines)].values[1]

\* read_recovery_ledger raises unless every line continues the one before.
LedgerReadable ==
    \A i \in DOMAIN ledger :
      /\ ledger[i].sequence = i
      /\ ledger[i].previous = IF i = 1 THEN 0 ELSE ledger[i - 1].values[1]

\* The rows the file holds, and whether they come in the order of their ids.
Written == {ledger[i].values : i \in DOMAIN ledger}
Sorted == \A i, j \in DOMAIN ledger : i < j => ledger[i].values[1] < ledger[j].values[1]

\* recovery_conflicts: the lines are the provenance rows, ordered by their ids.
Agree == LedgerReadable /\ Sorted /\ Written = anchors

\* The requeue of a caller, once committed.
To(c, at) == requeue' = [requeue EXCEPT ![c].at = at]
Leave(c) == requeue' = [requeue EXCEPT ![c] = Away]
UnderWay(c) == requeue[c].at # "away"

-----------------------------------------------------------------------------
(* Callers                                                                 *)

\* One transaction, from the checks to the provenance row and the event.
\* recover_task asks init_assurance first, the command itself does not.
Commit(c, t) ==
    /\ ~UnderWay(c) /\ nextId <= MaxRecord
    /\ state[t] = "exhausted" /\ dead[t]
    /\ t \in Approvable => approved
    /\ state' = [state EXCEPT ![t] = "requeued"]
    /\ holder' = [holder EXCEPT ![t] = None]
    /\ dead' = [dead EXCEPT ![t] = FALSE]
    /\ anchors' = anchors \cup {<<nextId, t>>}
    /\ nextId' = nextId + 1
    /\ requeue' = [requeue EXCEPT ![c] = [Away EXCEPT !.at = "read", !.row = <<nextId, t>>]]
    /\ overlapped' = (overlapped \/ \E d \in Caller : UnderWay(d))
    /\ UNCHANGED <<generation, approved, ledger, entered, interrupted>>

\* append_recovery_ledger reads the whole file and computes the next line.
ReadLedger(c) ==
    /\ requeue[c].at = "read" /\ LedgerReadable
    /\ requeue' = [requeue EXCEPT ![c].at = "write",
                                  ![c].sequence = Len(ledger) + 1,
                                  ![c].previous = LastOf(ledger)]
    /\ UNCHANGED <<sqlVars, ledger, entered, history>>

\* Mutant: the line is chained to the first one.
ChainedToFirst(c) == 0
\* Mutant: the line names none before it.
Unchained(c) == None
Chained(c) == requeue[c].previous

\* os.write with O_APPEND.
WriteLine(c) ==
    /\ requeue[c].at = "write"
    /\ ledger' = Append(ledger, Line(requeue[c].sequence, Chained(c), requeue[c].row))
    /\ To(c, "sync")
    /\ UNCHANGED <<sqlVars, entered, history>>

\* os.fsync, and the notification that ends the requeue.
Synced(c) ==
    /\ requeue[c].at = "sync"
    /\ Leave(c)
    /\ UNCHANGED <<sqlVars, ledger, entered, history>>

\* The file is unreadable, cannot be opened or not synced.
Raises(c) ==
    \/ requeue[c].at = "read" /\ ~LedgerReadable
    \/ requeue[c].at \in {"read", "write"} /\ "open" \in Faults
    \/ requeue[c].at = "sync" /\ "fsync" \in Faults

AppendFails(c) ==
    /\ Raises(c)
    /\ To(c, "undo")
    /\ interrupted' = IF requeue[c].at = "sync"
                      THEN interrupted \cup {requeue[c].row} ELSE interrupted
    /\ UNCHANGED <<sqlVars, ledger, entered, overlapped>>

\* Mutant: the provenance row stays.
AllRows(c) == anchors
OtherRows(c) == anchors \ {requeue[c].row}

\* The compensation deletes what was inserted and writes the previous task and
\* execution back, whatever became of them; the generation it leaves alone.
Compensate(c) ==
    LET t == requeue[c].row[2] IN
    /\ requeue[c].at = "undo"
    /\ anchors' = OtherRows(c)
    /\ state' = [state EXCEPT ![t] = "exhausted"]
    /\ holder' = [holder EXCEPT ![t] = None]
    /\ dead' = [dead EXCEPT ![t] = TRUE]
    /\ Leave(c)
    /\ UNCHANGED <<generation, approved, nextId, ledger, entered, history>>

\* The process dies between two of its steps.
Crash(c) ==
    /\ requeue[c].at \in DiesAt
    /\ Leave(c)
    /\ interrupted' = IF requeue[c].at # "sync"
                      THEN interrupted \cup {requeue[c].row} ELSE interrupted
    /\ UNCHANGED <<sqlVars, ledger, entered, overlapped>>

-----------------------------------------------------------------------------
(* Everybody else                                                          *)

\* CompanyOS.init: init_assurance raises while SQLite and the ledger differ.
Enter(e) ==
    /\ e \notin entered /\ Agree
    /\ entered' = entered \cup {e}
    /\ UNCHANGED <<sqlVars, ledger, requeue, history>>

\* claim_task after its init: a difference between the ledger and SQLite alone
\* does not stop it, _assert_recovery_integrity looks at the other conflicts.
Claim(e, t) ==
    /\ e \in entered /\ entered' = entered \ {e}
    /\ state[t] = "requeued" /\ generation[t] < MaxGeneration
    /\ state' = [state EXCEPT ![t] = "running"]
    /\ generation' = [generation EXCEPT ![t] = @ + 1]
    /\ holder' = [holder EXCEPT ![t] = e]
    /\ UNCHANGED <<dead, approved, anchors, nextId, ledger, requeue, history>>

\* The operation the process entered for is another one, or it is refused.
Exit(e) ==
    /\ e \in entered /\ entered' = entered \ {e}
    /\ UNCHANGED <<sqlVars, ledger, requeue, history>>

\* complete_task, under the token of the claim.
Complete(e, t) ==
    /\ e \in entered /\ entered' = entered \ {e}
    /\ state[t] = "running" /\ holder[t] = e
    /\ state' = [state EXCEPT ![t] = "done"]
    /\ UNCHANGED <<generation, holder, dead, approved, anchors, nextId, ledger, requeue, history>>

\* The cycle finds the last attempt of an execution over; the process of the
\* row may or may not be found dead later.
Exhaust(e, t, found) ==
    /\ e \in entered /\ entered' = entered \ {e}
    /\ state[t] = "running"
    /\ state' = [state EXCEPT ![t] = "exhausted"]
    /\ dead' = [dead EXCEPT ![t] = found]
    /\ UNCHANGED <<generation, holder, approved, anchors, nextId, ledger, requeue, history>>

\* decide: the Chairman approves task 145's package.
Approve ==
    /\ ~approved /\ approved' = TRUE
    /\ UNCHANGED <<taskVars, anchors, nextId, ledger, requeue, entered, history>>

-----------------------------------------------------------------------------
Proceed(c) ==
    ReadLedger(c) \/ WriteLine(c) \/ Synced(c) \/ AppendFails(c) \/ Compensate(c)

Next ==
    \/ \E c \in Caller : Proceed(c) \/ Crash(c) \/ \E t \in Task : Commit(c, t)
    \/ \E e \in Executor : Enter(e) \/ Exit(e)
    \/ \E e \in Executor, t \in Task :
          Claim(e, t) \/ Complete(e, t) \/ \E found \in BOOLEAN : Exhaust(e, t, found)
    \/ Approve

Spec == Init /\ [][Next]_vars

-----------------------------------------------------------------------------
(* Properties                                                              *)

Row == Nat \X (Task \cup {None})

TypeOK ==
    /\ state \in [Task -> TaskState]
    /\ generation \in [Task -> 1 .. MaxGeneration]
    /\ holder \in [Task -> Executor \cup {None}]
    /\ dead \in [Task -> BOOLEAN] /\ approved \in BOOLEAN
    /\ anchors \subseteq Row /\ nextId \in Nat
    /\ ledger \in Seq([sequence: Nat, previous: Nat, values: Row])
    /\ requeue \in [Caller -> [at: {"away", "read", "write", "sync", "undo"},
                               row: Row, sequence: Nat, previous: Nat]]
    /\ entered \subseteq Executor
    /\ interrupted \subseteq Row /\ overlapped \in BOOLEAN

Settled == \A c \in Caller : ~UnderWay(c)

\* What ops.py:1047-1048 says of a failed append, that SQLite is compensated to
\* its state before: once no requeue is under way the ledger and SQLite agree,
\* and nobody is refused by init_assurance for good.
LedgerInStep == Settled => Agree

\* Whatever fails, dies or overlaps: once no requeue is under way, a provenance
\* row without a line, or a line without a row, is that of a requeue that died
\* before its line or in its compensation, or could not sync the line, and the
\* lines are a chain in the order of the rows unless two requeues overlapped.
\* Nothing else keeps processes out of init_assurance.
DifferencesExplained ==
    Settled =>
      /\ (anchors \ Written) \cup (Written \ anchors) \subseteq interrupted
      /\ ~overlapped => LedgerReadable /\ Sorted

\* A task is requeued at most once for each time its attempts were exhausted,
\* however often and by however many callers the command is repeated.
OncePerExhaustion ==
    \A t \in Task :
      Cardinality({row \in anchors : row[2] = t}) <= generation[t]
=============================================================================
