--------------------------- MODULE RequeueProofs ---------------------------
(* Theorems of Requeue: its types, the count of requeues, and what the     *)
(* differences between rows and lines come from, for every value of its    *)
(* constants: any callers, any fault, a death at any step.                 *)
EXTENDS Requeue, FiniteSetTheorems, TLAPS

-----------------------------------------------------------------------------
(* The inductive invariant of the rows                                     *)

RowsOf(t) == {row \in anchors : row[2] = t}

\* A requeue that is not over has its row, which no other requeue shares.
RowsHeld ==
    /\ \A c \in Caller : requeue[c].at # "away" => requeue[c].row \in anchors
    /\ \A c, d \in Caller :
         c # d /\ requeue[c].at # "away" /\ requeue[d].at # "away"
           => requeue[c].row # requeue[d].row

\* AUTOINCREMENT gives no id twice.
RowsOld ==
    /\ IsFiniteSet(anchors)
    /\ \A row \in anchors : row[1] < nextId

\* A task has a row for each claim but the one that exhausted it last; the
\* row of its present requeue waits for the next claim.
RoomLeft ==
    \A t \in Task :
      /\ Cardinality(RowsOf(t)) <= generation[t]
      /\ state[t] # "requeued" => Cardinality(RowsOf(t)) < generation[t]

RequeueInv == TypeOK /\ RowsHeld /\ RowsOld /\ RoomLeft

-----------------------------------------------------------------------------
(* Types                                                                   *)

Phase == {"away", "read", "write", "sync", "undo"}
Requeues == [at: Phase, row: Row, sequence: Nat, previous: Nat]
Lines == [sequence: Nat, previous: Nat, values: Row]

LEMMA AwayType == Away \in Requeues
BY DEF Away, Requeues, Phase, Row

\* What a line is made of, for a step that writes one.
LEMMA LineType ==
  ASSUME NEW n \in Nat, NEW p \in Nat, NEW row \in Row
  PROVE  Line(n, p, row) \in Lines
BY DEF Line, Lines

LEMMA LastOfType ==
  ASSUME ledger \in Seq(Lines)
  PROVE  LastOf(ledger) \in Nat
<1>1. CASE ledger = <<>>
  BY <1>1 DEF LastOf
<1>2. CASE ledger # <<>>
  <2>1. Len(ledger) \in DOMAIN ledger
    BY <1>2
  <2>2. ledger[Len(ledger)] \in Lines
    BY <2>1
  <2>3. ledger[Len(ledger)].values \in Nat \X (Task \cup {None})
    BY <2>2 DEF Lines, Row
  <2>4. QED
    BY <1>2, <2>3 DEF LastOf
<1>3. QED
  BY <1>1, <1>2

\* The types of the SQL state, of the file and of the processes apart.
SqlTypes ==
    /\ state \in [Task -> TaskState]
    /\ generation \in [Task -> 1 .. MaxGeneration]
    /\ holder \in [Task -> Executor \cup {None}]
    /\ dead \in [Task -> BOOLEAN] /\ approved \in BOOLEAN
    /\ anchors \subseteq Row /\ nextId \in Nat
FileTypes == ledger \in Seq(Lines)
ProcessTypes == requeue \in [Caller -> Requeues] /\ entered \subseteq Executor
HistoryTypes == interrupted \subseteq Row /\ overlapped \in BOOLEAN

LEMMA TypesApart ==
  /\ TypeOK <=> SqlTypes /\ FileTypes /\ ProcessTypes /\ HistoryTypes
  /\ TypeOK' <=> SqlTypes' /\ FileTypes' /\ ProcessTypes' /\ HistoryTypes'
BY DEF TypeOK, SqlTypes, FileTypes, ProcessTypes, HistoryTypes, Lines, Requeues, Phase

LEMMA InitTypes == Init => TypeOK
<1>1. Init => SqlTypes
  <2>1. 1 \in 1 .. MaxGeneration /\ 1 \in Nat
    BY RequeueAssumption
  <2>2. QED
    BY <2>1 DEF Init, SqlTypes, TaskState
<1>2. Init => FileTypes /\ ProcessTypes
  BY AwayType DEF Init, FileTypes, ProcessTypes
<1>3. Init => HistoryTypes
  BY DEF Init, HistoryTypes
<1>4. QED
  BY <1>1, <1>2, <1>3, TypesApart

\* A step of a caller keeps the types.
LEMMA CallerTypes ==
  ASSUME TypeOK, NEW c \in Caller, Proceed(c) \/ Crash(c)
  PROVE  TypeOK'
<1> USE RequeueAssumption
<1>0. SqlTypes /\ FileTypes /\ ProcessTypes /\ HistoryTypes
  BY TypesApart
<1>1. requeue[c] \in Requeues
  BY <1>0 DEF ProcessTypes
<1>h. HistoryTypes'
  <2>1. requeue[c].row \in Row
    BY <1>1 DEF Requeues
  <2>2. interrupted' = interrupted \/ interrupted' = interrupted \cup {requeue[c].row}
    BY DEF Proceed, ReadLedger, WriteLine, Synced, AppendFails, Compensate, Crash, history
  <2>3. overlapped' = overlapped
    BY DEF Proceed, ReadLedger, WriteLine, Synced, AppendFails, Compensate, Crash, history
  <2>4. QED
    BY <1>0, <2>1, <2>2, <2>3 DEF HistoryTypes
<1>2. CASE ReadLedger(c)
  <2>1. Len(ledger) + 1 \in Nat /\ LastOf(ledger) \in Nat
    BY <1>0, LastOfType DEF FileTypes
  <2>0. [requeue[c] EXCEPT !.at = "write", !.sequence = Len(ledger) + 1,
                           !.previous = LastOf(ledger)] \in Requeues
    BY <1>1, <2>1 DEF Requeues, Phase
  <2>2. ProcessTypes'
    BY <1>0, <1>2, <2>0 DEF ReadLedger, ProcessTypes
  <2>3. SqlTypes' /\ FileTypes'
    BY <1>0, <1>2 DEF ReadLedger, sqlVars, taskVars, SqlTypes, FileTypes
  <2>4. QED
    BY <1>h, <2>2, <2>3, TypesApart
<1>3. CASE WriteLine(c)
  <2>1. Line(requeue[c].sequence, requeue[c].previous, requeue[c].row) \in Lines
    BY <1>1, LineType DEF Requeues
  <2>2. FileTypes'
    BY <1>0, <1>3, <2>1 DEF WriteLine, Chained, FileTypes
  <2>3. ProcessTypes'
    BY <1>0, <1>3 DEF WriteLine, To, ProcessTypes, Requeues, Phase
  <2>4. SqlTypes'
    BY <1>0, <1>3 DEF WriteLine, sqlVars, taskVars, SqlTypes
  <2>5. QED
    BY <1>h, <2>2, <2>3, <2>4, TypesApart
<1>4. CASE Synced(c) \/ AppendFails(c) \/ Crash(c)
  <2>1. ProcessTypes'
    BY <1>0, <1>4, AwayType
       DEF Synced, AppendFails, Crash, To, Leave, ProcessTypes, Requeues, Phase
  <2>2. SqlTypes' /\ FileTypes'
    BY <1>0, <1>4
       DEF Synced, AppendFails, Crash, sqlVars, taskVars, SqlTypes, FileTypes
  <2>3. QED
    BY <1>h, <2>1, <2>2, TypesApart
<1>5. CASE Compensate(c)
  <2>1. ProcessTypes' /\ FileTypes'
    BY <1>0, <1>5, AwayType DEF Compensate, Leave, ProcessTypes, FileTypes
  <2>2. SqlTypes'
    BY <1>0, <1>5 DEF Compensate, OtherRows, SqlTypes, TaskState
  <2>3. QED
    BY <1>h, <2>1, <2>2, TypesApart
<1>6. QED
  BY <1>2, <1>3, <1>4, <1>5 DEF Proceed

LEMMA CommitTypes ==
  ASSUME TypeOK, NEW c \in Caller, NEW t \in Task, Commit(c, t)
  PROVE  TypeOK'
<1> USE RequeueAssumption
<1>0. SqlTypes /\ FileTypes /\ ProcessTypes /\ HistoryTypes
  BY TypesApart
<1>1. <<nextId, t>> \in Row
  BY <1>0 DEF SqlTypes, Row
<1>2. [Away EXCEPT !.at = "read", !.row = <<nextId, t>>] \in Requeues
  BY <1>1, AwayType DEF Requeues, Phase
<1>3. ProcessTypes' /\ FileTypes'
  BY <1>0, <1>2 DEF Commit, ProcessTypes, FileTypes
<1>h. HistoryTypes'
  BY <1>0 DEF Commit, HistoryTypes
<1>4. SqlTypes'
  BY <1>0, <1>1 DEF Commit, SqlTypes, TaskState
<1>5. QED
  BY <1>h, <1>3, <1>4, TypesApart

\* A step of an executor, or the Chairman's.
Others ==
    \/ \E e \in Executor : Enter(e) \/ Exit(e)
    \/ \E e \in Executor, t \in Task :
          Claim(e, t) \/ Complete(e, t) \/ \E found \in BOOLEAN : Exhaust(e, t, found)
    \/ Approve

\* They leave the rows, the file and the callers alone.
LEMMA OthersLeave ==
  Others => UNCHANGED <<anchors, nextId, ledger, requeue, history>>
BY DEF Others, Enter, Exit, Claim, Complete, Exhaust, Approve, sqlVars, taskVars

LEMMA OthersTypes ==
  ASSUME TypeOK, Others
  PROVE  TypeOK'
<1> USE RequeueAssumption
<1>0. SqlTypes /\ FileTypes /\ ProcessTypes /\ HistoryTypes
  BY TypesApart
<1>1. FileTypes' /\ HistoryTypes'
  BY <1>0, OthersLeave DEF FileTypes, HistoryTypes, history
<1>2. ProcessTypes'
  <2>1. entered' \subseteq Executor
    BY <1>0 DEF Others, Enter, Exit, Claim, Complete, Exhaust, Approve, ProcessTypes
  <2>2. QED
    BY <1>0, <2>1, OthersLeave DEF ProcessTypes
<1>3. SqlTypes'
  <2>1. CASE \E e \in Executor : Enter(e) \/ Exit(e)
    BY <1>0, <2>1 DEF Enter, Exit, sqlVars, taskVars, SqlTypes
  <2>2. ASSUME NEW e \in Executor, NEW t \in Task, Claim(e, t)
        PROVE  SqlTypes'
    BY <1>0, <2>2 DEF Claim, SqlTypes, TaskState
  <2>3. ASSUME NEW e \in Executor, NEW t \in Task, Complete(e, t)
        PROVE  SqlTypes'
    BY <1>0, <2>3 DEF Complete, SqlTypes, TaskState
  <2>4. ASSUME NEW e \in Executor, NEW t \in Task, NEW found \in BOOLEAN,
               Exhaust(e, t, found)
        PROVE  SqlTypes'
    BY <1>0, <2>4 DEF Exhaust, SqlTypes, TaskState
  <2>5. CASE Approve
    BY <1>0, <2>5 DEF Approve, taskVars, SqlTypes
  <2>6. QED
    BY <2>1, <2>2, <2>3, <2>4, <2>5 DEF Others
<1>4. QED
  BY <1>1, <1>2, <1>3, TypesApart

LEMMA NextApart ==
  ASSUME Next
  PROVE  \/ \E c \in Caller : Proceed(c) \/ Crash(c)
         \/ \E c \in Caller, t \in Task : Commit(c, t)
         \/ Others
BY DEF Next, Others

LEMMA StepTypes ==
  ASSUME TypeOK, [Next]_vars
  PROVE  TypeOK'
<1>1. CASE Next
  BY <1>1, NextApart, CallerTypes, CommitTypes, OthersTypes
<1>2. CASE UNCHANGED vars
  BY <1>2 DEF TypeOK, vars, sqlVars, taskVars, history
<1>3. QED
  BY <1>1, <1>2

\* Requeues, rows, lines and ids stay what the code and its schema make them:
\* no compensation, crash or failed append leaves a line without its chain.
THEOREM RequeueTypeOK == Spec => []TypeOK
<1>1. QED
  BY InitTypes, StepTypes, PTL DEF Spec

-----------------------------------------------------------------------------
(* Rows and claims                                                         *)

LEMMA InitInv == Init => RequeueInv
<1> SUFFICES ASSUME Init PROVE RequeueInv
  OBVIOUS
<1>1. RowsHeld /\ RowsOld
  BY FS_EmptySet DEF Init, RowsHeld, RowsOld, Away
<1>2. RoomLeft
  <2>1. ASSUME NEW t \in Task
        PROVE  Cardinality(RowsOf(t)) = 0 /\ generation[t] = 1
    <3>1. RowsOf(t) = {}
      BY DEF Init, RowsOf
    <3>2. QED
      BY <3>1, FS_EmptySet DEF Init
  <2>2. QED
    BY <2>1 DEF RoomLeft
<1>3. QED
  BY <1>1, <1>2, InitTypes DEF RequeueInv

\* What the numbers of RoomLeft are.
LEMMA RowsCounted ==
  ASSUME TypeOK, RowsOld, NEW t \in Task
  PROVE  /\ IsFiniteSet(RowsOf(t)) /\ Cardinality(RowsOf(t)) \in Nat
         /\ generation[t] \in Nat
<1>1. RowsOf(t) \subseteq anchors
  BY DEF RowsOf
<1>2. generation[t] \in 1 .. MaxGeneration /\ MaxGeneration \in Nat
  BY RequeueAssumption DEF TypeOK
<1>3. generation[t] \in Nat
  BY <1>2
<1>4. QED
  BY <1>1, <1>3, FS_Subset, FS_CardinalityType DEF RowsOld

\* A new row is one more of its task, and none of the others.
LEMMA OneRowMore ==
  ASSUME TypeOK, RowsOld, NEW t \in Task, anchors' = anchors \cup {<<nextId, t>>}
  PROVE  /\ Cardinality(RowsOf(t)') = Cardinality(RowsOf(t)) + 1
         /\ \A u \in Task \ {t} : RowsOf(u)' = RowsOf(u)
<1>1. RowsOf(t)' = RowsOf(t) \cup {<<nextId, t>>}
  BY DEF RowsOf
<1>2. <<nextId, t>> \notin RowsOf(t)
  <2>1. \A row \in RowsOf(t) : row[1] \in Nat /\ row[1] < nextId
    BY DEF RowsOf, RowsOld, TypeOK, Row
  <2>2. nextId \in Nat
    BY DEF TypeOK
  <2>3. QED
    BY <2>1, <2>2
<1>3. \A u \in Task \ {t} : RowsOf(u)' = RowsOf(u)
  BY DEF RowsOf
<1>4. QED
  BY <1>1, <1>2, <1>3, RowsCounted, FS_AddElement

\* A row taken back is one less of its task, and none of the others.
LEMMA OneRowLess ==
  ASSUME TypeOK, RowsOld, NEW t \in Task, NEW row \in anchors, row[2] = t,
         anchors' = anchors \ {row}
  PROVE  /\ Cardinality(RowsOf(t)') = Cardinality(RowsOf(t)) - 1
         /\ \A u \in Task \ {t} : RowsOf(u)' = RowsOf(u)
<1>1. RowsOf(t)' = RowsOf(t) \ {row} /\ row \in RowsOf(t)
  BY DEF RowsOf
<1>2. \A u \in Task \ {t} : RowsOf(u)' = RowsOf(u)
  BY DEF RowsOf
<1>3. QED
  BY <1>1, <1>2, RowsCounted, FS_RemoveElement

LEMMA RowsStep ==
  ASSUME RequeueInv, [Next]_vars
  PROVE  RowsHeld' /\ RowsOld'
<1> USE DEF RequeueInv
<1>1. ASSUME NEW c \in Caller, NEW t \in Task, Commit(c, t)
      PROVE  RowsHeld' /\ RowsOld'
  <2>1. /\ requeue'[c].row = <<nextId, t>>
        /\ \A d \in Caller \ {c} : requeue'[d] = requeue[d]
    BY <1>1 DEF Commit, TypeOK, Away
  <2>2. nextId \in Nat /\ nextId' = nextId + 1
    BY <1>1 DEF Commit, TypeOK
  <2>3. /\ anchors' = anchors \cup {<<nextId, t>>}
        /\ \A row \in anchors : row[1] \in Nat /\ row[1] < nextId
    BY <1>1 DEF Commit, RowsOld, TypeOK, Row
  <2>4. <<nextId, t>> \notin anchors
    BY <2>2, <2>3
  <2>5. RowsHeld'
    BY <2>1, <2>3, <2>4 DEF RowsHeld
  <2>6. IsFiniteSet(anchors')
    BY <2>3, FS_AddElement DEF RowsOld
  <2>7. \A row \in anchors' : row[1] < nextId'
    BY <2>2, <2>3
  <2>8. QED
    BY <2>5, <2>6, <2>7 DEF RowsOld
<1>2. ASSUME NEW c \in Caller, Compensate(c)
      PROVE  RowsHeld' /\ RowsOld'
  <2>1. /\ anchors' = anchors \ {requeue[c].row} /\ nextId' = nextId
        /\ requeue'[c].at = "away" /\ requeue[c].at # "away"
        /\ \A d \in Caller \ {c} : requeue'[d] = requeue[d]
    BY <1>2 DEF Compensate, OtherRows, Leave, TypeOK, Away
  <2>2. IsFiniteSet(anchors')
    BY <2>1, FS_Subset DEF RowsOld
  <2>3. QED
    BY <2>1, <2>2 DEF RowsHeld, RowsOld
<1>3. ASSUME NEW c \in Caller,
             ReadLedger(c) \/ WriteLine(c) \/ Synced(c) \/ AppendFails(c) \/ Crash(c)
      PROVE  RowsHeld' /\ RowsOld'
  <2>1. anchors' = anchors /\ nextId' = nextId
    BY <1>3 DEF ReadLedger, WriteLine, Synced, AppendFails, Crash, sqlVars
  <2>2. \A d \in Caller : requeue'[d].at # "away" =>
          requeue[d].at # "away" /\ requeue'[d].row = requeue[d].row
    <3>1. \A d \in Caller \ {c} : requeue'[d] = requeue[d]
      BY <1>3 DEF ReadLedger, WriteLine, Synced, AppendFails, Crash, To, Leave, TypeOK
    <3>2. requeue'[c].at # "away" =>
            requeue[c].at # "away" /\ requeue'[c].row = requeue[c].row
      BY <1>3 DEF ReadLedger, WriteLine, Synced, AppendFails, Crash, Raises, To,
                  Leave, Away, TypeOK
    <3>3. QED
      BY <3>1, <3>2
  <2>3. QED
    BY <2>1, <2>2 DEF RowsHeld, RowsOld
<1>4. CASE Others \/ UNCHANGED vars
  <2>1. UNCHANGED <<anchors, nextId, requeue>>
    BY <1>4, OthersLeave DEF vars, sqlVars
  <2>2. QED
    BY <2>1 DEF RowsHeld, RowsOld
<1>5. QED
  BY <1>1, <1>2, <1>3, <1>4, NextApart DEF Proceed

LEMMA RoomStep ==
  ASSUME RequeueInv, [Next]_vars
  PROVE  RoomLeft'
<1> USE DEF RequeueInv
<1>0. \A t \in Task : Cardinality(RowsOf(t)) \in Nat /\ generation[t] \in Nat
  BY RowsCounted
<1>1. ASSUME NEW c \in Caller, NEW t \in Task, Commit(c, t)
      PROVE  RoomLeft'
  <2>1. /\ Cardinality(RowsOf(t)') = Cardinality(RowsOf(t)) + 1
        /\ \A u \in Task \ {t} : RowsOf(u)' = RowsOf(u)
    BY <1>1, OneRowMore DEF Commit
  <2>2. /\ state[t] # "requeued" /\ state'[t] = "requeued" /\ generation' = generation
        /\ \A u \in Task \ {t} : state'[u] = state[u]
    BY <1>1 DEF Commit, TypeOK
  <2>3. Cardinality(RowsOf(t)') <= generation'[t]
    BY <1>0, <2>1, <2>2 DEF RoomLeft
  <2>4. QED
    BY <2>1, <2>2, <2>3 DEF RoomLeft
<1>2. ASSUME NEW c \in Caller, Compensate(c)
      PROVE  RoomLeft'
  <2>0. PICK t : t = requeue[c].row[2]
    OBVIOUS
  <2>1. /\ requeue[c].row \in anchors /\ anchors' = anchors \ {requeue[c].row}
        /\ generation' = generation /\ state' = [state EXCEPT ![t] = "exhausted"]
    BY <1>2, <2>0 DEF Compensate, OtherRows, RowsHeld
  <2>2. CASE t \in Task
    <3>1. /\ Cardinality(RowsOf(t)') = Cardinality(RowsOf(t)) - 1
          /\ \A u \in Task \ {t} : RowsOf(u)' = RowsOf(u)
      BY <2>0, <2>1, <2>2, OneRowLess
    <3>2. /\ Cardinality(RowsOf(t)') <= generation'[t]
          /\ Cardinality(RowsOf(t)') < generation'[t]
      <4>1. /\ Cardinality(RowsOf(t)) \in Nat /\ generation[t] \in Nat
            /\ Cardinality(RowsOf(t)) <= generation[t]
        BY <1>0, <2>2 DEF RoomLeft
      <4>2. generation'[t] = generation[t]
        BY <2>1
      <4>3. QED
        BY <3>1, <4>1, <4>2
    <3>3. \A u \in Task \ {t} : state'[u] = state[u]
      BY <2>1 DEF TypeOK
    <3>4. QED
      BY <2>1, <3>1, <3>2, <3>3 DEF RoomLeft
  <2>3. CASE t \notin Task
    <3>1. \A u \in Task : RowsOf(u)' = RowsOf(u) /\ state'[u] = state[u]
      BY <2>0, <2>1, <2>3 DEF RowsOf, TypeOK
    <3>2. QED
      BY <2>1, <3>1 DEF RoomLeft
  <2>4. QED
    BY <2>2, <2>3
<1>3. ASSUME NEW c \in Caller,
             ReadLedger(c) \/ WriteLine(c) \/ Synced(c) \/ AppendFails(c) \/ Crash(c)
      PROVE  RoomLeft'
  BY <1>3 DEF ReadLedger, WriteLine, Synced, AppendFails, Crash, sqlVars, taskVars,
              RoomLeft, RowsOf
<1>4. CASE Others
  <2>1. \A t \in Task : RowsOf(t)' = RowsOf(t)
    BY <1>4, OthersLeave DEF RowsOf
  <2>2. ASSUME NEW e \in Executor, NEW t \in Task, Claim(e, t)
        PROVE  RoomLeft'
    <3>1. /\ generation'[t] = generation[t] + 1
          /\ \A u \in Task \ {t} : generation'[u] = generation[u] /\ state'[u] = state[u]
      BY <2>2 DEF Claim, TypeOK
    <3>2. Cardinality(RowsOf(t)') < generation'[t] /\ Cardinality(RowsOf(t)') <= generation'[t]
      BY <1>0, <2>1, <3>1 DEF RoomLeft
    <3>3. QED
      BY <2>1, <3>1, <3>2 DEF RoomLeft
  <2>3. ASSUME NEW e \in Executor, NEW t \in Task,
               Complete(e, t) \/ \E found \in BOOLEAN : Exhaust(e, t, found)
        PROVE  RoomLeft'
    <3>1. /\ generation' = generation /\ state[t] # "requeued"
          /\ \A u \in Task \ {t} : state'[u] = state[u]
      BY <2>3 DEF Complete, Exhaust, TypeOK
    <3>2. QED
      BY <2>1, <3>1 DEF RoomLeft
  <2>4. CASE Approve \/ \E e \in Executor : Enter(e) \/ Exit(e)
    <3>1. UNCHANGED <<state, generation>>
      BY <2>4 DEF Approve, Enter, Exit, sqlVars, taskVars
    <3>2. QED
      BY <2>1, <3>1 DEF RoomLeft
  <2>5. QED
    BY <1>4, <2>2, <2>3, <2>4 DEF Others
<1>5. CASE UNCHANGED vars
  BY <1>5 DEF vars, sqlVars, taskVars, RoomLeft, RowsOf
<1>6. QED
  BY <1>1, <1>2, <1>3, <1>4, <1>5, NextApart DEF Proceed

THEOREM RequeueInvariant == Spec => []RequeueInv
<1>1. RequeueInv /\ [Next]_vars => RequeueInv'
  BY StepTypes, RowsStep, RoomStep DEF RequeueInv
<1>2. QED
  BY <1>1, InitInv, PTL DEF Spec

\* However often, and by however many callers, the command is repeated, no
\* exhaustion of a task is answered with two requeues, whatever fails.
THEOREM RequeuedOnce == Spec => []OncePerExhaustion
<1>1. RequeueInv => OncePerExhaustion
  BY DEF RequeueInv, RoomLeft, OncePerExhaustion, RowsOf
<1>2. QED
  BY <1>1, RequeueInvariant, PTL

-----------------------------------------------------------------------------
(* The rows and the lines                                                  *)

\* The ids of the lines were given; a requeue whose line is not written has none,
\* one whose line is written has it, and one that is taken back has one only if
\* it failed to sync it.
LinesPlaced ==
    /\ \A row \in Written : row[1] < nextId
    /\ \A c \in Caller :
         /\ requeue[c].at \in {"read", "write"} => requeue[c].row \notin Written
         /\ requeue[c].at = "sync" => requeue[c].row \in Written
         /\ requeue[c].at = "undo" => requeue[c].row \notin Written \ interrupted

Unwritten(row) ==
    \E c \in Caller : requeue[c].row = row /\ requeue[c].at \in {"read", "write", "undo"}

\* A row without a line is interrupted or that of a requeue under way, a line
\* without a row is interrupted.
GapsExplained ==
    /\ \A row \in anchors \ Written : row \in interrupted \/ Unwritten(row)
    /\ Written \ anchors \subseteq interrupted

\* While no two requeues overlap, the file is a chain whose end the one under way
\* has read, and its row comes after all the lines.
ChainKept ==
    ~overlapped =>
      /\ LedgerReadable /\ Sorted
      /\ \A c, d \in Caller : UnderWay(c) /\ UnderWay(d) => c = d
      /\ \A c \in Caller :
           /\ requeue[c].at \in {"read", "write"} =>
                \A row \in Written : row[1] < requeue[c].row[1]
           /\ requeue[c].at = "write" =>
                /\ requeue[c].sequence = Len(ledger) + 1
                /\ requeue[c].previous = LastOf(ledger)

LedgerInv == RequeueInv /\ LinesPlaced /\ GapsExplained /\ ChainKept

LEMMA InitLedger == Init => LedgerInv
<1> SUFFICES ASSUME Init PROVE LedgerInv
  OBVIOUS
<1>1. ledger = <<>> /\ anchors = {} /\ \A c \in Caller : requeue[c] = Away
  BY DEF Init
<1>2. DOMAIN ledger = {}
  BY <1>1
<1>3. LedgerReadable /\ Sorted /\ Written = {}
  BY <1>1, <1>2 DEF LedgerReadable, Sorted, Written
<1>4. LinesPlaced /\ GapsExplained /\ ChainKept
  BY <1>1, <1>3 DEF LinesPlaced, GapsExplained, ChainKept, UnderWay, Away
<1>5. QED
  BY <1>4, InitInv DEF LedgerInv

\* The lines hold rows.
LEMMA WrittenRows ==
  ASSUME TypeOK
  PROVE  Written \subseteq Row /\ \A row \in Written : row[1] \in Nat
<1>1. ledger \in Seq(Lines)
  BY DEF TypeOK, Lines
<1>2. \A i \in DOMAIN ledger : ledger[i] \in Lines
  BY <1>1
<1>3. Written \subseteq Row
  BY <1>2 DEF Written, Lines
<1>4. QED
  BY <1>3 DEF Row

\* The line of the row that comes after all the others continues the chain.
LEMMA AppendedLine ==
  ASSUME ledger \in Seq(Lines), LedgerReadable, Sorted, NEW row \in Row,
         \A old \in Written : old[1] < row[1],
         ledger' = Append(ledger, Line(Len(ledger) + 1, LastOf(ledger), row))
  PROVE  LedgerReadable' /\ Sorted' /\ Written' = Written \cup {row}
<1> DEFINE new == Line(Len(ledger) + 1, LastOf(ledger), row)
           n == Len(ledger)
<1>1. /\ n \in Nat /\ DOMAIN ledger = 1 .. n /\ DOMAIN ledger' = 1 .. (n + 1)
      /\ ledger'[n + 1] = new /\ \A i \in 1 .. n : ledger'[i] = ledger[i]
  <2>1. new \in Lines
    <3>1. Len(ledger) + 1 \in Nat /\ LastOf(ledger) \in Nat
      BY LastOfType
    <3>2. QED
      BY <3>1, LineType
  <2>2. n \in Nat /\ DOMAIN ledger = 1 .. n
    OBVIOUS
  <2>3. ledger' = Append(ledger, new)
    OBVIOUS
  <2> HIDE DEF new
  <2>4. QED
    BY <2>1, <2>2, <2>3
<1>2. /\ new.sequence = n + 1 /\ new.previous = LastOf(ledger) /\ new.values = row
  BY DEF Line
<1> HIDE DEF new
<1>3. \A i \in 1 .. n : ledger[i].values \in Written
  BY <1>1 DEF Written
<1>4. Written' = Written \cup {row}
  BY <1>1, <1>2 DEF Written
<1>5. LedgerReadable'
  <2> SUFFICES ASSUME NEW i \in 1 .. (n + 1)
               PROVE  /\ ledger'[i].sequence = i
                      /\ ledger'[i].previous = IF i = 1 THEN 0 ELSE ledger'[i - 1].values[1]
    BY <1>1 DEF LedgerReadable
  <2>1. CASE i \in 1 .. n
    <3>1. i # 1 => i - 1 \in 1 .. n
      BY <1>1, <2>1
    <3>2. ledger'[i] = ledger[i] /\ (i # 1 => ledger'[i - 1] = ledger[i - 1])
      BY <1>1, <2>1, <3>1
    <3>3. QED
      BY <1>1, <2>1, <3>2 DEF LedgerReadable
  <2>2. CASE i = n + 1
    <3>1. n = 0 <=> ledger = <<>>
      OBVIOUS
    <3>2. i # 1 => /\ ledger'[i - 1] = ledger[n]
                   /\ LastOf(ledger) = ledger[n].values[1]
      <4>1. i # 1 => n \in 1 .. n /\ i - 1 = n
        BY <1>1, <2>2
      <4>2. QED
        BY <1>1, <2>2, <3>1, <4>1 DEF LastOf
    <3>3. i = 1 => LastOf(ledger) = 0
      BY <1>1, <2>2, <3>1 DEF LastOf
    <3>4. QED
      BY <1>1, <1>2, <2>2, <3>2, <3>3
  <2>3. QED
    BY <1>1, <2>1, <2>2
<1>6. Sorted'
  <2> SUFFICES ASSUME NEW i \in 1 .. (n + 1), NEW j \in 1 .. (n + 1), i < j
               PROVE  ledger'[i].values[1] < ledger'[j].values[1]
    BY <1>1 DEF Sorted
  <2>1. i \in 1 .. n /\ (j \in 1 .. n \/ j = n + 1)
    BY <1>1
  <2>2. CASE j \in 1 .. n
    BY <1>1, <2>1, <2>2 DEF Sorted
  <2>3. CASE j = n + 1
    BY <1>1, <1>2, <1>3, <2>1, <2>3
  <2>4. QED
    BY <2>1, <2>2, <2>3
<1>7. QED
  BY <1>4, <1>5, <1>6

\* Whatever a caller writes, the file holds the row besides what it held.
LEMMA AppendedRow ==
  ASSUME ledger \in Seq(Lines), NEW n \in Nat, NEW p \in Nat, NEW row \in Row,
         ledger' = Append(ledger, Line(n, p, row))
  PROVE  Written' = Written \cup {row}
<1> DEFINE new == Line(n, p, row)
           len == Len(ledger)
<1>1. new \in Lines
  BY LineType
<1>2. new.values = row
  BY DEF Line
<1>3. ledger' = Append(ledger, new)
  OBVIOUS
<1> HIDE DEF new
<1>4. /\ len \in Nat /\ DOMAIN ledger = 1 .. len /\ DOMAIN ledger' = 1 .. (len + 1)
      /\ ledger'[len + 1] = new /\ \A i \in 1 .. len : ledger'[i] = ledger[i]
  BY <1>1, <1>3
<1>5. QED
  BY <1>2, <1>4 DEF Written

\* A step that leaves the file leaves what is said of it.
LEMMA FileKept ==
  ASSUME ledger' = ledger
  PROVE  /\ Written' = Written /\ LedgerReadable' = LedgerReadable /\ Sorted' = Sorted
         /\ LastOf(ledger') = LastOf(ledger)
BY DEF Written, LedgerReadable, Sorted, LastOf

LEMMA CommitLedger ==
  ASSUME LedgerInv, NEW c \in Caller, NEW t \in Task, Commit(c, t)
  PROVE  LinesPlaced' /\ GapsExplained' /\ ChainKept'
<1>1. /\ requeue[c].at = "away" /\ requeue'[c].at = "read"
      /\ requeue'[c].row = <<nextId, t>>
      /\ \A d \in Caller \ {c} : requeue'[d] = requeue[d]
      /\ anchors' = anchors \cup {<<nextId, t>>} /\ interrupted' = interrupted
      /\ ledger' = ledger /\ nextId' = nextId + 1 /\ nextId \in Nat
  BY DEF Commit, UnderWay, LedgerInv, RequeueInv, TypeOK, Away
<1>2. /\ Written' = Written /\ LedgerReadable' = LedgerReadable /\ Sorted' = Sorted
      /\ LastOf(ledger') = LastOf(ledger)
  BY <1>1, FileKept
<1>3. \A row \in Written : row[1] \in Nat /\ row[1] < nextId
  BY WrittenRows DEF LedgerInv, LinesPlaced, RequeueInv
<1>4. <<nextId, t>> \notin Written
  BY <1>1, <1>3
<1>5. LinesPlaced'
  <2>1. \A row \in Written' : row[1] < nextId'
    BY <1>1, <1>2, <1>3
  <2>2. \A d \in Caller \ {c} :
          /\ requeue'[d].at \in {"read", "write"} => requeue'[d].row \notin Written'
          /\ requeue'[d].at = "sync" => requeue'[d].row \in Written'
          /\ requeue'[d].at = "undo" => requeue'[d].row \notin Written' \ interrupted'
    BY <1>1, <1>2 DEF LedgerInv, LinesPlaced
  <2>3. requeue'[c].row \notin Written' /\ requeue'[c].at = "read"
    BY <1>1, <1>2, <1>4
  <2>4. QED
    BY <2>1, <2>2, <2>3 DEF LinesPlaced
<1>6. GapsExplained'
  BY <1>1, <1>2 DEF LedgerInv, GapsExplained, Unwritten
<1>7. ChainKept'
  <2> SUFFICES ASSUME ~overlapped'
               PROVE  ChainKept'
    BY DEF ChainKept
  <2>1. ~overlapped /\ \A d \in Caller : ~UnderWay(d)
    BY DEF Commit
  <2>2. \A d \in Caller \ {c} : requeue'[d].at = "away"
    BY <1>1, <2>1 DEF UnderWay
  <2>3. \A row \in Written' : row[1] < requeue'[c].row[1]
    BY <1>1, <1>2, <1>3
  <2>4. LedgerReadable' /\ Sorted'
    BY <1>2, <2>1 DEF LedgerInv, ChainKept
  <2>5. QED
    BY <1>1, <2>2, <2>3, <2>4 DEF ChainKept, UnderWay
<1>8. QED
  BY <1>5, <1>6, <1>7

LEMMA ReadStep ==
  ASSUME LedgerInv, NEW c \in Caller, ReadLedger(c)
  PROVE  LinesPlaced' /\ GapsExplained' /\ ChainKept'
<1>1. /\ requeue[c].at = "read" /\ requeue'[c].at = "write"
      /\ requeue'[c].row = requeue[c].row
      /\ requeue'[c].sequence = Len(ledger) + 1
      /\ requeue'[c].previous = LastOf(ledger)
      /\ \A d \in Caller \ {c} : requeue'[d] = requeue[d]
      /\ UNCHANGED <<anchors, nextId, ledger, interrupted, overlapped>>
  BY DEF ReadLedger, sqlVars, history, LedgerInv, RequeueInv, TypeOK
<1>2. /\ Written' = Written /\ LedgerReadable' = LedgerReadable /\ Sorted' = Sorted
      /\ LastOf(ledger') = LastOf(ledger)
  BY <1>1, FileKept
<1>3. LinesPlaced'
  BY <1>1, <1>2 DEF LedgerInv, LinesPlaced
<1>4. GapsExplained'
  <2>1. \A row : Unwritten(row) => Unwritten(row)'
    BY <1>1 DEF Unwritten
  <2>2. QED
    BY <1>1, <1>2, <2>1 DEF LedgerInv, GapsExplained
<1>5. ChainKept'
  <2> SUFFICES ASSUME ~overlapped'
               PROVE  ChainKept'
    BY DEF ChainKept
  <2>1. ~overlapped
    BY <1>1
  <2>2. \A d \in Caller : UnderWay(d)' <=> UnderWay(d)
    BY <1>1 DEF UnderWay
  <2>3. \A row \in Written' : row[1] < requeue'[c].row[1]
    BY <1>1, <1>2, <2>1 DEF LedgerInv, ChainKept
  <2>4. QED
    BY <1>1, <1>2, <2>1, <2>2, <2>3 DEF LedgerInv, ChainKept
<1>6. QED
  BY <1>3, <1>4, <1>5

LEMMA WriteStep ==
  ASSUME LedgerInv, NEW c \in Caller, WriteLine(c)
  PROVE  LinesPlaced' /\ GapsExplained' /\ ChainKept'
<1>0. TypeOK /\ ledger \in Seq(Lines)
  BY DEF LedgerInv, RequeueInv, TypeOK, Lines
<1> DEFINE row == requeue[c].row
<1>1. /\ requeue[c].at = "write" /\ requeue'[c].at = "sync" /\ requeue'[c].row = row
      /\ \A d \in Caller \ {c} : requeue'[d] = requeue[d]
      /\ UNCHANGED <<anchors, nextId, interrupted, overlapped>>
      /\ ledger' = Append(ledger, Line(requeue[c].sequence, requeue[c].previous, row))
  BY <1>0 DEF WriteLine, Chained, To, sqlVars, history, TypeOK
<1>2. /\ row \in Row /\ row \in anchors /\ row[1] < nextId
      /\ requeue[c].sequence \in Nat /\ requeue[c].previous \in Nat
  BY <1>0, <1>1 DEF TypeOK, LedgerInv, RequeueInv, RowsHeld, RowsOld
<1>3. Written' = Written \cup {row}
  BY <1>0, <1>1, <1>2, AppendedRow
<1>4. \A d \in Caller \ {c} : requeue[d].at # "away" => requeue[d].row # row
  BY <1>1 DEF LedgerInv, RequeueInv, RowsHeld
<1>5. LinesPlaced'
  <2>1. \A old \in Written' : old[1] < nextId'
    BY <1>1, <1>2, <1>3 DEF LedgerInv, LinesPlaced
  <2>2. \A d \in Caller \ {c} :
          /\ requeue'[d].at \in {"read", "write"} => requeue'[d].row \notin Written'
          /\ requeue'[d].at = "sync" => requeue'[d].row \in Written'
          /\ requeue'[d].at = "undo" => requeue'[d].row \notin Written' \ interrupted'
    BY <1>1, <1>3, <1>4 DEF LedgerInv, LinesPlaced
  <2>3. requeue'[c].at = "sync" /\ requeue'[c].row \in Written'
    BY <1>1, <1>3
  <2>4. QED
    BY <2>1, <2>2, <2>3 DEF LinesPlaced
<1>6. GapsExplained'
  <2>1. \A old : Unwritten(old) /\ old # row => Unwritten(old)'
    BY <1>1 DEF Unwritten
  <2>2. QED
    BY <1>1, <1>2, <1>3, <2>1 DEF LedgerInv, GapsExplained
<1>7. ChainKept'
  <2> SUFFICES ASSUME ~overlapped'
               PROVE  ChainKept'
    BY DEF ChainKept
  <2>1. /\ LedgerReadable /\ Sorted
        /\ \A d, e \in Caller : UnderWay(d) /\ UnderWay(e) => d = e
        /\ \A old \in Written : old[1] < row[1]
        /\ requeue[c].sequence = Len(ledger) + 1
        /\ requeue[c].previous = LastOf(ledger)
    BY <1>1 DEF LedgerInv, ChainKept
  <2>2. LedgerReadable' /\ Sorted'
    BY <1>0, <1>1, <1>2, <2>1, AppendedLine
  <2>3. \A d \in Caller \ {c} : requeue'[d].at = "away"
    BY <1>1, <2>1 DEF UnderWay
  <2>4. QED
    BY <1>1, <2>2, <2>3 DEF ChainKept, UnderWay
<1>8. QED
  BY <1>5, <1>6, <1>7

\* The steps that end the append, or the process.
LEMMA EndStep ==
  ASSUME LedgerInv, NEW c \in Caller, Synced(c) \/ AppendFails(c) \/ Crash(c)
  PROVE  LinesPlaced' /\ GapsExplained' /\ ChainKept'
<1>0. TypeOK
  BY DEF LedgerInv, RequeueInv
<1>1. UNCHANGED <<anchors, nextId, ledger, overlapped>>
  BY DEF Synced, AppendFails, Crash, sqlVars, history
<1>2. /\ Written' = Written /\ LedgerReadable' = LedgerReadable /\ Sorted' = Sorted
      /\ LastOf(ledger') = LastOf(ledger)
  BY <1>1, FileKept
<1>3. \A d \in Caller \ {c} : requeue'[d] = requeue[d]
  BY <1>0 DEF Synced, AppendFails, Crash, To, Leave, TypeOK
<1>4. /\ requeue[c].at # "away"
      /\ \/ requeue'[c].at = "away"
         \/ requeue'[c].at = "undo" /\ requeue'[c].row = requeue[c].row
  <2>1. CASE Synced(c)
    BY <1>0, <2>1 DEF Synced, Leave, Away, TypeOK
  <2>2. CASE AppendFails(c)
    BY <1>0, <2>2 DEF AppendFails, Raises, To, TypeOK
  <2>3. CASE Crash(c)
    BY <1>0, <2>3, RequeueAssumption DEF Crash, Leave, Away, TypeOK
  <2>4. QED
    BY <2>1, <2>2, <2>3
<1>5. /\ interrupted \subseteq interrupted'
      /\ \/ requeue[c].at = "sync" /\ requeue'[c].at = "away"
         \/ requeue[c].at \in {"read", "write"} /\ requeue'[c].at = "undo"
         \/ requeue[c].row \in interrupted'
  <2>1. CASE Synced(c)
    BY <1>0, <2>1 DEF Synced, Leave, Away, TypeOK, history
  <2>2. CASE AppendFails(c)
    BY <1>0, <2>2 DEF AppendFails, Raises, To, TypeOK
  <2>3. CASE Crash(c)
    BY <1>0, <2>3 DEF Crash, Leave, Away, TypeOK
  <2>4. QED
    BY <2>1, <2>2, <2>3
<1>6. LinesPlaced'
  BY <1>1, <1>2, <1>3, <1>4, <1>5 DEF LedgerInv, LinesPlaced
<1>7. GapsExplained'
  <2>1. ASSUME NEW row \in anchors \ Written, Unwritten(row)
        PROVE  row \in interrupted' \/ Unwritten(row)'
    <3>1. PICK d \in Caller :
            requeue[d].row = row /\ requeue[d].at \in {"read", "write", "undo"}
      BY <2>1 DEF Unwritten
    <3>2. CASE d = c
      BY <1>3, <1>4, <1>5, <3>1, <3>2 DEF Unwritten
    <3>3. CASE d # c
      BY <1>3, <3>1, <3>3 DEF Unwritten
    <3>4. QED
      BY <3>2, <3>3
  <2>2. QED
    BY <1>1, <1>2, <1>5, <2>1 DEF LedgerInv, GapsExplained
<1>8. ChainKept'
  <2> SUFFICES ASSUME ~overlapped'
               PROVE  ChainKept'
    BY DEF ChainKept
  <2>1. ~overlapped
    BY <1>1
  <2>2. \A d \in Caller : UnderWay(d)' => UnderWay(d)
    BY <1>3, <1>4 DEF UnderWay
  <2>3. QED
    BY <1>1, <1>2, <1>3, <1>4, <2>1, <2>2 DEF LedgerInv, ChainKept
<1>9. QED
  BY <1>6, <1>7, <1>8

LEMMA CompensateStep ==
  ASSUME LedgerInv, NEW c \in Caller, Compensate(c)
  PROVE  LinesPlaced' /\ GapsExplained' /\ ChainKept'
<1>1. /\ requeue[c].at = "undo" /\ requeue'[c].at = "away"
      /\ \A d \in Caller \ {c} : requeue'[d] = requeue[d]
      /\ UNCHANGED <<nextId, ledger, interrupted, overlapped>>
      /\ anchors' = anchors \ {requeue[c].row}
  BY DEF Compensate, OtherRows, Leave, Away, history, LedgerInv, RequeueInv, TypeOK
<1>2. /\ Written' = Written /\ LedgerReadable' = LedgerReadable /\ Sorted' = Sorted
      /\ LastOf(ledger') = LastOf(ledger)
  BY <1>1, FileKept
<1>3. LinesPlaced'
  BY <1>1, <1>2 DEF LedgerInv, LinesPlaced
<1>4. GapsExplained'
  <2>1. requeue[c].row \notin Written \ interrupted
    BY <1>1 DEF LedgerInv, LinesPlaced
  <2>2. \A row : row # requeue[c].row /\ Unwritten(row) => Unwritten(row)'
    BY <1>1 DEF Unwritten
  <2>3. QED
    BY <1>1, <1>2, <2>1, <2>2 DEF LedgerInv, GapsExplained
<1>5. ChainKept'
  <2>1. \A d \in Caller : UnderWay(d)' => UnderWay(d)
    BY <1>1 DEF UnderWay
  <2>2. QED
    BY <1>1, <1>2, <2>1 DEF LedgerInv, ChainKept
<1>6. QED
  BY <1>3, <1>4, <1>5

LEMMA LedgerStep ==
  ASSUME LedgerInv, [Next]_vars
  PROVE  LedgerInv'
<1>1. RequeueInv'
  BY StepTypes, RowsStep, RoomStep DEF LedgerInv, RequeueInv
<1>2. ASSUME NEW c \in Caller, Proceed(c) \/ Crash(c)
      PROVE  LinesPlaced' /\ GapsExplained' /\ ChainKept'
  BY <1>2, ReadStep, WriteStep, EndStep, CompensateStep DEF Proceed
<1>3. CASE Others \/ UNCHANGED vars
  <2>1. UNCHANGED <<anchors, nextId, ledger, requeue, interrupted, overlapped>>
    BY <1>3, OthersLeave DEF vars, sqlVars, history
  <2>2. /\ Written' = Written /\ LedgerReadable' = LedgerReadable /\ Sorted' = Sorted
        /\ LastOf(ledger') = LastOf(ledger)
    BY <2>1, FileKept
  <2>3. LinesPlaced' /\ GapsExplained'
    BY <2>1, <2>2 DEF LedgerInv, LinesPlaced, GapsExplained, Unwritten
  <2>4. ChainKept'
    <3>1. \A c \in Caller : UnderWay(c)' <=> UnderWay(c)
      BY <2>1 DEF UnderWay
    <3>2. ChainKept
      BY DEF LedgerInv
    <3>3. QED
      BY <2>1, <2>2, <3>1, <3>2 DEF ChainKept
  <2>5. QED
    BY <1>1, <2>3, <2>4 DEF LedgerInv
<1>4. QED
  BY <1>1, <1>2, <1>3, CommitLedger, NextApart DEF LedgerInv

\* Whatever fails or dies, and however many callers there are: once no requeue is
\* under way, the rows and the lines differ by requeues that were interrupted
\* alone, and the file is a chain in order unless two requeues overlapped.
THEOREM LedgerDifferencesExplained == Spec => []DifferencesExplained
<1>1. LedgerInv => DifferencesExplained
  <2> SUFFICES ASSUME LedgerInv, Settled
               PROVE  /\ (anchors \ Written) \cup (Written \ anchors) \subseteq interrupted
                      /\ ~overlapped => LedgerReadable /\ Sorted
    BY DEF DifferencesExplained
  <2>1. \A row : ~Unwritten(row)
    BY DEF Settled, UnderWay, Unwritten
  <2>2. QED
    BY <2>1 DEF LedgerInv, GapsExplained, ChainKept
<1>2. QED
  BY <1>1, InitLedger, LedgerStep, PTL DEF Spec

=============================================================================
