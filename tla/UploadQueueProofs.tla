------------------------- MODULE UploadQueueProofs -------------------------
(***************************************************************************)
(* The queue under the assumptions of CarefulSpec, for any pictures, paths *)
(* and callers and any number of rows and failures: nothing takes away the *)
(* file of a picture of the library, and accepted pictures are kept.  The  *)
(* argument: one process is up; a web upload has its staged path for       *)
(* itself; and of the rows that are still to be processed no two have one  *)
(* staged file, nor has the library that file yet.  That a row once        *)
(* settled stays as it is, and that every row gets its turn, needs only    *)
(* that one process is up (AloneSpec).                                     *)
(***************************************************************************)
EXTENDS UploadQueue, FiniteSetTheorems, WellFoundedInduction, TLAPS

AddPc   == {"idle", "hash", "library", "queue", "insert", "drop"}
BatchPc == {"idle", "next", "prepare", "compare", "remove", "analyze", "keep", "save", "mark"}
AddingType == [pc : AddPc, path : Paths \cup {Nil}, hash : Pictures \cup {Nil}]
BatchType  == [pc : BatchPc, todo : SUBSET Nat, hash : Pictures \cup {Nil}]

\* TypeOK without what counts the rows.
Types ==
    /\ files \in [Paths -> Pictures \cup {Nil}]
    /\ images \in [Pictures -> Paths \cup {Nil}]
    /\ rows \in Seq(Row)
    /\ up \subseteq Procs
    /\ scan \subseteq Staged
    /\ adding \in [Actors -> AddingType]
    /\ batch \in [Procs -> BatchType]
    /\ accepted \subseteq Pictures
    /\ trouble \in 0..MaxTrouble

LEMMA InitTypes == Init => Types
<1> SUFFICES ASSUME Init PROVE Types
  OBVIOUS
<1>1. files \in [Paths -> Pictures \cup {Nil}] /\ images \in [Pictures -> Paths \cup {Nil}]
  BY DEF Init
<1>2. rows \in Seq(Row) /\ up \subseteq Procs /\ scan \subseteq Staged /\ accepted \subseteq Pictures
      /\ trouble \in 0..MaxTrouble
  BY DEF Init
<1>3. adding \in [Actors -> AddingType]
  BY DEF Init, NotAdding, AddingType, AddPc
<1>4. batch \in [Procs -> BatchType]
  BY DEF Init, NoBatch, BatchType, BatchPc
<1> QED BY <1>1, <1>2, <1>3, <1>4 DEF Types

LEMMA TroubleType ==
    ASSUME Types, Trouble \/ NoTrouble
    PROVE  trouble' \in 0..MaxTrouble
BY BoundsAssumption DEF Types, Trouble, NoTrouble

\* How an actor moves on.
LEMMA AddingTypes ==
    ASSUME Types, NEW a \in Actors
    PROVE  /\ \A p \in Paths : Begin(a, p) => adding' \in [Actors -> AddingType]
           /\ \A s \in AddPc : Goto(a, s) => adding' \in [Actors -> AddingType]
           /\ Return(a) => adding' \in [Actors -> AddingType]
           /\ Refused(a) => adding' \in [Actors -> AddingType]
<1>1. \A e \in AddingType : [adding EXCEPT ![a] = e] \in [Actors -> AddingType]
  BY DEF Types
<1>2. ASSUME NEW p \in Paths, Begin(a, p) PROVE adding' \in [Actors -> AddingType]
  <2>1. [pc |-> "hash", path |-> p, hash |-> Nil] \in AddingType
    BY DEF AddingType, AddPc
  <2> QED BY <1>1, <1>2, <2>1 DEF Begin
<1>3. ASSUME NEW s \in AddPc, Goto(a, s) PROVE adding' \in [Actors -> AddingType]
  <2>1. adding[a] \in AddingType
    BY DEF Types
  <2>2. [adding[a] EXCEPT !.pc = s] \in AddingType
    BY <2>1 DEF AddingType
  <2>3. adding' = [adding EXCEPT ![a] = [adding[a] EXCEPT !.pc = s]]
    BY <1>3 DEF Goto, Types
  <2> QED BY <1>1, <2>2, <2>3
<1>4. ASSUME Return(a) PROVE adding' \in [Actors -> AddingType]
  BY <1>1, <1>4 DEF Return, NotAdding, AddingType, AddPc
<1>5. ASSUME Refused(a) PROVE adding' \in [Actors -> AddingType]
  BY <1>3, <1>4, <1>5 DEF Refused, AddPc
<1> QED BY <1>2, <1>3, <1>4, <1>5

\* The status of row i becomes s, or stays when the UPDATE fails.
Sets(i, s) == rows' = rows \/ rows' = [rows EXCEPT ![i].status = s]

LEMMA RowsTypes ==
    ASSUME Types
    PROVE  /\ \A r \in Row : Append(rows, r) \in Seq(Row) /\ Len(Append(rows, r)) = Len(rows) + 1
           /\ \A i \in 1..Len(rows) : rows[i] \in Row
           /\ \A i \in 1..Len(rows), s \in Status : Sets(i, s) =>
                  /\ rows' \in Seq(Row) /\ Len(rows') = Len(rows)
                  /\ \A j \in 1..Len(rows) :
                        rows'[j].path = rows[j].path /\ rows'[j].hash = rows[j].hash /\ (j # i => rows'[j] = rows[j])
                  /\ rows'[i].status \in {rows[i].status, s}
           /\ \A i, s : SetStatus(i, s) => Sets(i, s) /\ (Trouble \/ NoTrouble)
<1>1. \A r \in Row : Append(rows, r) \in Seq(Row) /\ Len(Append(rows, r)) = Len(rows) + 1
  BY DEF Types
<1>2. \A i \in 1..Len(rows) : rows[i] \in Row
  BY DEF Types
<1>3. ASSUME NEW i \in 1..Len(rows), NEW s \in Status, Sets(i, s)
      PROVE  /\ rows' \in Seq(Row) /\ Len(rows') = Len(rows)
             /\ \A j \in 1..Len(rows) :
                   rows'[j].path = rows[j].path /\ rows'[j].hash = rows[j].hash /\ (j # i => rows'[j] = rows[j])
             /\ rows'[i].status \in {rows[i].status, s}
  <2>1. CASE rows' = [rows EXCEPT ![i].status = s]
    <3> DEFINE r == [rows[i] EXCEPT !.status = s]
    <3>1. r \in Row /\ r.path = rows[i].path /\ r.hash = rows[i].hash /\ r.status = s
      BY <1>2 DEF Row
    <3>2. rows' = [rows EXCEPT ![i] = r]
      BY <2>1
    <3> HIDE DEF r
    <3>3. rows' \in Seq(Row) /\ Len(rows') = Len(rows) /\ rows'[i] = r
          /\ \A j \in 1..Len(rows) : j # i => rows'[j] = rows[j]
      BY <3>1, <3>2 DEF Types
    <3> QED BY <3>1, <3>3
  <2>2. CASE rows' = rows
    BY <2>2 DEF Types
  <2> QED BY <1>3, <2>1, <2>2 DEF Sets
<1>4. \A i, s : SetStatus(i, s) => Sets(i, s) /\ (Trouble \/ NoTrouble)
  BY DEF SetStatus, Sets
<1> QED BY <1>1, <1>2, <1>3, <1>4

LEMMA BatchTypes ==
    ASSUME Types, NEW p \in Procs
    PROVE  /\ \A s \in BatchPc : GoOn(p, s) =>
                  /\ batch' \in [Procs -> BatchType]
                  /\ batch'[p] = [pc |-> s, todo |-> batch[p].todo, hash |-> batch[p].hash]
                  /\ \A q \in Procs : q # p => batch'[q] = batch[q]
           /\ \A i : NextRow(p, i) =>
                  /\ batch' \in [Procs -> BatchType]
                  /\ batch'[p] = [pc |-> "next", todo |-> batch[p].todo \ {i}, hash |-> Nil]
                  /\ \A q \in Procs : q # p => batch'[q] = batch[q]
           /\ \A e \in BatchType : batch' = [batch EXCEPT ![p] = e] =>
                  /\ batch' \in [Procs -> BatchType] /\ batch'[p] = e
                  /\ \A q \in Procs : q # p => batch'[q] = batch[q]
<1>1. ASSUME NEW e \in BatchType, batch' = [batch EXCEPT ![p] = e]
      PROVE  /\ batch' \in [Procs -> BatchType] /\ batch'[p] = e
             /\ \A q \in Procs : q # p => batch'[q] = batch[q]
  BY <1>1 DEF Types
<1>2. batch[p] \in BatchType
  BY DEF Types
<1>3. ASSUME NEW s \in BatchPc, GoOn(p, s)
      PROVE  /\ batch' \in [Procs -> BatchType]
             /\ batch'[p] = [pc |-> s, todo |-> batch[p].todo, hash |-> batch[p].hash]
             /\ \A q \in Procs : q # p => batch'[q] = batch[q]
  <2> DEFINE e == [pc |-> s, todo |-> batch[p].todo, hash |-> batch[p].hash]
  <2>1. e \in BatchType
    BY <1>2 DEF BatchType
  <2>2. e = [batch[p] EXCEPT !.pc = s]
    BY <1>2 DEF BatchType
  <2>3. batch' = [batch EXCEPT ![p] = e]
    BY <1>3, <2>2 DEF GoOn, Types
  <2> QED BY <1>1, <2>1, <2>3
<1>4. ASSUME NEW i, NextRow(p, i)
      PROVE  /\ batch' \in [Procs -> BatchType]
             /\ batch'[p] = [pc |-> "next", todo |-> batch[p].todo \ {i}, hash |-> Nil]
             /\ \A q \in Procs : q # p => batch'[q] = batch[q]
  <2>1. [pc |-> "next", todo |-> batch[p].todo \ {i}, hash |-> Nil] \in BatchType
    BY <1>2 DEF BatchType, BatchPc
  <2> QED BY <1>1, <1>4, <2>1 DEF NextRow
<1> QED BY <1>1, <1>3, <1>4

LEMMA FilesTypes ==
    ASSUME Types, NEW p \in Paths, NEW c \in Pictures \cup {Nil}
    PROVE  /\ [files EXCEPT ![p] = c] \in [Paths -> Pictures \cup {Nil}]
           /\ \A d \in Pictures : [images EXCEPT ![d] = p] \in [Pictures -> Paths \cup {Nil}]
BY DEF Types

-----------------------------------------------------------------------------
(* The inductive invariant.                                                *)

Active(a) == adding[a].pc # "idle"
Free(s) == \A c \in Pictures : images[c] # s

\* Who runs belongs to a process that is up, and of these there is one.
Running ==
    /\ \A p, q \in up : p = q
    /\ \A a \in Actors : Active(a) => ProcOf(a) \in up
    /\ \A p \in Procs : batch[p].pc # "idle" => p \in up
    /\ scan # {} => "cli" \in up
    /\ batch["cli"].pc # "idle" => scan = {} /\ ~Active("cli")

\* The command scans before the library has pictures under uploads/.
Scanning == "cli" \in up /\ batch["cli"].pc = "idle" => \A s \in Staged : Free(s)

\* An actor holds a path whose file it has read.
Held(a) ==
    /\ Active(a) => adding[a].path \in IF a = "folder" THEN Folder ELSE Staged
    /\ adding[a].pc \in {"library", "queue", "insert"} =>
           adding[a].hash \in Pictures /\ files[adding[a].path] = adding[a].hash
    /\ a = "cli" /\ adding[a].pc = "insert" => ~Queued(adding[a].hash)
    /\ adding[a].pc = "drop" => a # "folder"
    /\ a = "cli" /\ adding[a].pc = "drop" =>
           /\ adding[a].hash \in Pictures /\ files[adding[a].path] = adding[a].hash
           /\ images[adding[a].hash] # Nil

\* That of a web upload is its own.
Own(h) == Active(h) =>
    /\ \A i \in 1..Len(rows) : rows[i].path # adding[h].path
    /\ Free(adding[h].path)
    /\ \A b \in Actors : b # h /\ Active(b) => adding[b].path # adding[h].path

\* The rows that a batch has still to do, and the first of them, which it is at.
First(p, i) == i \in batch[p].todo /\ \A j \in batch[p].todo : i <= j

Todo(p, i) ==
    /\ i \in 1..Len(rows) /\ batch[p].pc # "idle"
    /\ ~First(p, i) \/ batch[p].pc = "next" => rows[i].status = "pending"
    /\ First(p, i) /\ batch[p].pc # "next" => rows[i].status # "pending"
    /\ First(p, i) /\ batch[p].pc \in {"prepare", "compare", "analyze", "save", "mark"} =>
           rows[i].status = "processing"
    /\ First(p, i) /\ batch[p].pc \in {"compare", "remove", "analyze", "keep", "save"} =>
           batch[p].hash \in Pictures /\ files[rows[i].path] = batch[p].hash
    /\ First(p, i) /\ batch[p].pc = "remove" => Similar(batch[p].hash)

\* Rows that may still be processed (Ahead), or stand for one file with such a row.
Before == {"prepare", "compare", "remove", "analyze", "keep", "save"}
Taken(i) == \E p \in Procs : batch[p].pc \in Before /\ First(p, i)
Ahead(i) == rows[i].status = "pending" \/ Taken(i)
Live(i)  == rows[i].status \in {"pending", "processing"} \/ Taken(i)

RowsApart ==
    \A i, j \in 1..Len(rows) :
        i # j /\ rows[i].path \in Staged /\ Live(i) /\ Live(j) => rows[i].path # rows[j].path
RowsNew ==
    \A i \in 1..Len(rows) : rows[i].path \in Staged =>
        /\ Ahead(i) => Free(rows[i].path)
        /\ Live(i) => files[rows[i].path] \in {rows[i].hash, Nil}

QueueInv ==
    /\ Types /\ Running /\ Scanning /\ LibraryFiles
    /\ \A a \in Actors : Held(a)
    /\ \A h \in Handlers : Own(h)
    /\ \A p \in Procs : \A i \in batch[p].todo : Todo(p, i)
    /\ RowsApart /\ RowsNew

LEMMA InitQueue == Init => QueueInv
<1> SUFFICES ASSUME Init PROVE QueueInv
  OBVIOUS
<1>1. \A a \in Actors : ~Active(a) /\ adding[a].pc = "idle"
  BY DEF Init, NotAdding, Active
<1>2. \A p \in Procs : batch[p].pc = "idle" /\ batch[p].todo = {}
  BY DEF Init, NoBatch
<1>3. Len(rows) = 0 /\ \A c \in Pictures : images[c] = Nil
  BY DEF Init
<1>4. Running
  BY <1>2 DEF Init, Running, Active, NotAdding, Procs, Actors
<1>5. Scanning /\ LibraryFiles
  BY <1>3 DEF Init, Scanning, LibraryFiles
<1>6. (\A a \in Actors : Held(a)) /\ \A h \in Handlers : Own(h)
  BY <1>1 DEF Held, Own, Actors
<1>7. \A p \in Procs : \A i \in batch[p].todo : Todo(p, i)
  BY <1>2
<1>8. RowsApart /\ RowsNew
  BY <1>3 DEF RowsApart, RowsNew
<1> QED BY <1>4, <1>5, <1>6, <1>7, <1>8, InitTypes DEF QueueInv

\* While a process has a batch the other one is down and the command adds nothing.
LEMMA AloneBatch ==
    ASSUME QueueInv, NEW p \in Procs, batch[p].pc # "idle"
    PROVE  /\ p \in up /\ up = {p}
           /\ \A q \in Procs : q # p => batch[q].pc = "idle" /\ batch[q].todo = {}
           /\ ~Active("cli") /\ (p = "cli" => \A a \in Actors : ~Active(a))
<1>1. up = {p}
  BY DEF QueueInv, Running
<1>2. \A q \in Procs : q # p => batch[q].pc = "idle"
  BY <1>1 DEF QueueInv, Running
<1>3. \A q \in Procs : q # p => batch[q].todo = {}
  BY <1>2 DEF QueueInv, Todo
<1>4. p = "cli" => ~Active("cli")
  BY DEF QueueInv, Running
<1>5. \A a \in Actors : Active(a) => ProcOf(a) = p
  BY <1>1 DEF QueueInv, Running
<1>6. "cli" \in Actors /\ ProcOf("cli") = "cli"
  BY DEF Actors, ProcOf
<1>7. \A a \in Actors : a # "cli" => ProcOf(a) = "server"
  BY DEF ProcOf
<1> QED BY <1>1, <1>2, <1>3, <1>4, <1>5, <1>6, <1>7

\* While the command adds something nobody else does, and there is no batch.
LEMMA AloneCommand ==
    ASSUME QueueInv, Active("cli") \/ scan # {}
    PROVE  /\ up = {"cli"} /\ \A a \in Actors : a # "cli" => ~Active(a)
           /\ \A q \in Procs : batch[q].pc = "idle" /\ batch[q].todo = {}
           /\ \A s \in Staged : Free(s)
<1>1. up = {"cli"}
  BY DEF QueueInv, Running, Actors, ProcOf
<1>2. \A a \in Actors : a # "cli" => ~Active(a)
  BY <1>1 DEF QueueInv, Running, ProcOf
<1>3. \A q \in Procs : batch[q].pc = "idle"
  BY <1>1 DEF QueueInv, Running, Procs
<1>4. \A q \in Procs : batch[q].todo = {}
  BY <1>3 DEF QueueInv, Todo
<1>5. \A s \in Staged : Free(s)
  BY <1>1, <1>3 DEF QueueInv, Scanning, Procs
<1> QED BY <1>1, <1>2, <1>3, <1>4, <1>5

\* No row is taken when there is no batch; and the row a batch is at is one.
LEMMA TakenRow ==
    ASSUME QueueInv, NEW p \in Procs, batch[p].pc # "idle", NEW i, First(p, i)
    PROVE  /\ i \in 1..Len(rows)
           /\ \A j : Taken(j) <=> j = i /\ batch[p].pc \in Before
           /\ \A j : First(p, j) => j = i
<1>1. i \in 1..Len(rows)
  BY DEF QueueInv, First, Todo
<1>2. \A j : First(p, j) => j = i
  BY <1>1 DEF QueueInv, First, Todo
<1>3. \A q \in Procs : \A j : First(q, j) => q = p
  BY AloneBatch DEF First
<1> QED BY <1>1, <1>2, <1>3 DEF Taken

-----------------------------------------------------------------------------
(* The steps of AddUpload and its callers.                                 *)

\* A step of one actor that leaves files, library and rows alone.
LEMMA ActorMoves ==
    ASSUME QueueInv, NEW a \in Actors, UNCHANGED <<disk, rows, up, batch>>,
           adding' \in [Actors -> AddingType], scan' \subseteq scan,
           accepted' = accepted, Trouble \/ NoTrouble,
           \A b \in Actors : b # a => adding'[b] = adding[b],
           adding'[a].pc # "idle" => ProcOf(a) \in up,
           a = "cli" /\ adding'[a].pc # "idle" => Active(a) \/ scan # {},
           Held(a)', a \in Handlers => Own(a)',
           adding'[a].pc # "idle" => \A h \in Handlers : h # a /\ Active(h) => adding'[a].path # adding[h].path
    PROVE  QueueInv'
<1>1. Types'
  BY TroubleType DEF QueueInv, Types, disk
<1>2. Running'
  <2>1. \A b \in Actors : adding'[b].pc # "idle" => ProcOf(b) \in up
    BY DEF QueueInv, Running, Active
  <2>2. batch["cli"].pc # "idle" => scan' = {} /\ adding'["cli"].pc = "idle"
    <3> SUFFICES ASSUME batch["cli"].pc # "idle" PROVE scan' = {} /\ adding'["cli"].pc = "idle"
      OBVIOUS
    <3>1. scan = {} /\ ~Active("cli")
      BY DEF QueueInv, Running
    <3>2. "cli" \in Actors
      BY DEF Actors
    <3> QED BY <3>1, <3>2 DEF Active
  <2>3. scan' # {} => "cli" \in up
    BY DEF QueueInv, Running
  <2> QED BY <2>1, <2>2, <2>3 DEF QueueInv, Running, Active
<1>3. Scanning' /\ LibraryFiles'
  BY DEF QueueInv, Scanning, LibraryFiles, Free, disk
<1>4. ASSUME NEW b \in Actors PROVE Held(b)'
  <2>1. CASE b = a
    BY <2>1
  <2>2. CASE b # a
    <3>1. adding'[b] = adding[b] /\ Held(b)
      BY <2>2 DEF QueueInv
    <3> QED BY <3>1 DEF Held, Active, Queued, disk
  <2> QED BY <2>1, <2>2
<1>5. ASSUME NEW h \in Handlers PROVE Own(h)'
  <2>1. CASE h = a
    BY <2>1
  <2>2. CASE h # a
    <3>1. adding'[h] = adding[h] /\ Own(h) /\ h \in Actors
      BY <2>2 DEF QueueInv, Actors
    <3> QED BY <3>1 DEF Own, Active, Free, disk
  <2> QED BY <2>1, <2>2
<1>6. \A p \in Procs : \A i \in batch'[p].todo : Todo(p, i)'
  BY DEF QueueInv, Todo, First, Similar, disk
<1>7. RowsApart' /\ RowsNew'
  BY DEF QueueInv, RowsApart, RowsNew, Live, Ahead, Taken, First, Free, disk
<1> QED BY <1>1, <1>2, <1>3, <1>4, <1>5, <1>6, <1>7 DEF QueueInv

\* An actor that goes on with its path, or returns.
LEMMA ActorGoesOn ==
    ASSUME QueueInv, NEW a \in Actors, Active(a), UNCHANGED <<disk, rows, up, scan, batch, accepted>>,
           adding' \in [Actors -> AddingType], Trouble \/ NoTrouble,
           \A b \in Actors : b # a => adding'[b] = adding[b],
           adding'[a].path = adding[a].path \/ adding'[a].pc = "idle", Held(a)'
    PROVE  QueueInv'
<1>1. ProcOf(a) \in up
  BY DEF QueueInv, Running
<1>2. a \in Handlers => Own(a)'
  <2> SUFFICES ASSUME a \in Handlers, adding'[a].pc # "idle" PROVE Own(a)'
    BY DEF Own, Active
  <2>1. Own(a)
    BY DEF QueueInv
  <2> QED BY <2>1 DEF Own, Active, Free, disk
<1>3. \A h \in Handlers : h # a /\ Active(h) => adding[a].path # adding[h].path
  BY DEF QueueInv, Own
<1> QED BY <1>1, <1>2, <1>3, ActorMoves

LEMMA ActorStates ==
    ASSUME Types, NEW a \in Actors
    PROVE  /\ \A s \in AddPc : Goto(a, s) =>
                  /\ adding'[a] = [pc |-> s, path |-> adding[a].path, hash |-> adding[a].hash]
                  /\ \A b \in Actors : b # a => adding'[b] = adding[b]
           /\ Return(a) => adding'[a] = NotAdding /\ \A b \in Actors : b # a => adding'[b] = adding[b]
           /\ \A p \in Paths : Begin(a, p) =>
                  /\ adding'[a] = [pc |-> "hash", path |-> p, hash |-> Nil]
                  /\ \A b \in Actors : b # a => adding'[b] = adding[b]
BY DEF Types, AddingType, Goto, Return, Begin

LEMMA RefusedStates ==
    ASSUME Types, NEW a \in Actors, Refused(a)
    PROVE  /\ adding' \in [Actors -> AddingType]
           /\ \A b \in Actors : b # a => adding'[b] = adding[b]
           /\ IF a \in Handlers
              THEN adding'[a] = [pc |-> "drop", path |-> adding[a].path, hash |-> adding[a].hash]
              ELSE adding'[a] = NotAdding
<1>1. "drop" \in AddPc
  BY DEF AddPc
<1> QED BY <1>1, AddingTypes, ActorStates DEF Refused

LEMMA RefusedStep ==
    ASSUME QueueInv, NEW a \in Actors, Active(a), Refused(a), Trouble \/ NoTrouble,
           UNCHANGED <<disk, rows, up, scan, batch, accepted>>
    PROVE  QueueInv'
<1>1. Types /\ Held(a)
  BY DEF QueueInv
<1>2. /\ adding' \in [Actors -> AddingType]
      /\ \A b \in Actors : b # a => adding'[b] = adding[b]
      /\ IF a \in Handlers
         THEN adding'[a] = [pc |-> "drop", path |-> adding[a].path, hash |-> adding[a].hash]
         ELSE adding'[a] = NotAdding
  BY <1>1, RefusedStates
<1>3. adding'[a].path = adding[a].path \/ adding'[a].pc = "idle"
  BY <1>2 DEF NotAdding
<1>4. Held(a)'
  <2>1. CASE a \in Handlers
    <3>1. a # "folder" /\ a # "cli"
      BY <2>1, PicturesAssumption
    <3> QED BY <1>1, <1>2, <2>1, <3>1 DEF Held, Active
  <2>2. CASE a \notin Handlers
    BY <1>2, <2>2 DEF Held, Active, NotAdding
  <2> QED BY <2>1, <2>2
<1> QED BY <1>2, <1>3, <1>4, ActorGoesOn

LEMMA ReceiveStep ==
    ASSUME QueueInv, FreshNames, NEW h \in Handlers, Receive(h)
    PROVE  QueueInv'
<1>1. Types /\ h \in Actors /\ ~Active(h) /\ h # "folder" /\ h # "cli"
  BY PicturesAssumption DEF QueueInv, Actors, Active, Receive
<1>2. PICK p \in Staged, c \in Pictures :
        /\ files' = [files EXCEPT ![p] = c]
        /\ (Begin(h, p) /\ NoTrouble) \/ (Trouble /\ UNCHANGED adding)
  <2>1. PICK p \in Staged :
            \/ (\E c \in Pictures : files' = [files EXCEPT ![p] = c]) /\ Begin(h, p) /\ NoTrouble
            \/ (\E c \in Broken : files' = [files EXCEPT ![p] = c]) /\ Trouble /\ UNCHANGED adding
    BY DEF Receive
  <2> QED BY <2>1, PicturesAssumption
<1>3. UNCHANGED <<images, rows, up, scan, batch, accepted>> /\ "server" \in up /\ ProcOf(h) = "server"
  BY <1>1 DEF Receive, ProcOf
<1>4. p \in Paths /\ \A q \in Paths : q # p => files'[q] = files[q]
  BY <1>1, <1>2 DEF Paths, Types
<1>5. Unused(p) \/ (files' = files /\ UNCHANGED adding)
  <2>1. files'[p] = c /\ c # Nil
    BY <1>1, <1>2, <1>4, PicturesAssumption DEF Types
  <2>2. CASE Begin(h, p)
    <3>1. adding'[h] = [pc |-> "hash", path |-> p, hash |-> Nil]
      BY <1>1, <1>4, <2>2, ActorStates
    <3>2. adding[h].pc = "idle" /\ adding'[h].pc = "hash" /\ adding'[h].path = p
      BY <1>1, <3>1 DEF Active
    <3> QED BY <3>2 DEF FreshNames
  <2>3. CASE UNCHANGED adding /\ files[p] = c
    BY <1>1, <1>2, <2>3 DEF Types
  <2>4. CASE files[p] # c
    BY <2>1, <2>4 DEF FreshNames
  <2> QED BY <1>2, <2>2, <2>3, <2>4
<1>6. CASE files' = files /\ UNCHANGED adding
  <2>1. Trouble \/ NoTrouble
    BY <1>2
  <2>2. Held(h)'
    <3>1. Held(h)
      BY <1>1 DEF QueueInv
    <3> QED BY <1>3, <1>6, <3>1 DEF Held, Active, Queued
  <2>3. Own(h)'
    BY <1>1, <1>6 DEF Own, Active
  <2> QED BY <1>1, <1>3, <1>6, <2>1, <2>2, <2>3, ActorMoves DEF disk, Types, Active
<1>7. CASE Unused(p)
  <2>1. files[p] = Nil /\ p \notin scan /\ (\A i \in 1..Len(rows) : rows[i].path # p)
        /\ \A b \in Actors : adding[b].path # p
    BY <1>7 DEF Unused
  <2>2. Free(p)
    BY <2>1, PicturesAssumption, <1>4 DEF QueueInv, LibraryFiles, Free
  <2>3. adding' \in [Actors -> AddingType] /\ (\A b \in Actors : b # h => adding'[b] = adding[b])
        /\ (adding'[h] = [pc |-> "hash", path |-> p, hash |-> Nil] \/ adding' = adding)
    BY <1>1, <1>2, <1>4, AddingTypes, ActorStates DEF Types
  <2>4. Types'
    <3>1. files' \in [Paths -> Pictures \cup {Nil}]
      BY <1>1, <1>2, <1>4, FilesTypes
    <3>2. trouble' \in 0..MaxTrouble
      BY <1>1, <1>2, TroubleType
    <3> QED BY <1>1, <1>3, <2>3, <3>1, <3>2 DEF Types
  <2>5. Running'
    <3>1. \A b \in Actors : adding'[b].pc # "idle" => ProcOf(b) \in up
      BY <1>3, <2>3 DEF QueueInv, Running, Active
    <3>2. adding'["cli"] = adding["cli"]
      BY <1>1, <2>3 DEF Actors
    <3> QED BY <1>3, <3>1, <3>2 DEF QueueInv, Running, Active
  <2>6. Scanning'
    BY <1>3 DEF QueueInv, Scanning, Free
  <2>7. LibraryFiles'
    <3> SUFFICES ASSUME NEW d \in Pictures, images[d] # Nil PROVE files'[images[d]] = d
      BY <1>3 DEF LibraryFiles
    <3>1. images[d] \in Paths /\ images[d] # p
      BY <1>1, <2>2 DEF Types, Free
    <3> QED BY <1>4, <3>1 DEF QueueInv, LibraryFiles
  <2>8. ASSUME NEW b \in Actors PROVE Held(b)'
    <3>1. CASE adding'[b] = adding[b]
      <4>1. Held(b) /\ adding[b].path # p
        BY <2>1 DEF QueueInv
      <4>2. Active(b) => files'[adding[b].path] = files[adding[b].path]
        BY <1>4, <4>1 DEF Held, Paths
      <4> QED BY <1>3, <3>1, <4>1, <4>2 DEF Held, Active, Queued
    <3>2. CASE b = h /\ adding'[h] = [pc |-> "hash", path |-> p, hash |-> Nil]
      BY <1>1, <3>2 DEF Held, Active
    <3> QED BY <2>3, <3>1, <3>2
  <2>9. ASSUME NEW g \in Handlers PROVE Own(g)'
    <3>1. g \in Actors /\ Own(g)
      BY DEF QueueInv, Actors
    <3>2. CASE g # h
      <4>1. adding'[g] = adding[g] /\ adding[g].path # p
        BY <2>1, <2>3, <3>1, <3>2
      <4> QED BY <1>3, <2>3, <3>1, <4>1 DEF Own, Active, Free
    <3>3. CASE g = h
      BY <1>1, <1>3, <2>1, <2>2, <2>3, <3>3 DEF Own, Active, Free
    <3> QED BY <3>2, <3>3
  <2>10. ASSUME NEW q \in Procs, NEW i \in batch'[q].todo PROVE Todo(q, i)'
    <3>1. Todo(q, i) /\ i \in 1..Len(rows) /\ rows[i].path \in Paths /\ rows[i].path # p
      BY <1>1, <1>3, <2>1, RowsTypes DEF QueueInv, Todo, Row
    <3>2. files'[rows[i].path] = files[rows[i].path]
      BY <1>4, <3>1
    <3> QED BY <1>3, <3>1, <3>2 DEF Todo, First, Similar
  <2>11. RowsApart'
    BY <1>3 DEF QueueInv, RowsApart, Live, Taken, First
  <2>12. RowsNew'
    <3>1. \A i \in 1..Len(rows) : files'[rows[i].path] = files[rows[i].path]
      BY <1>1, <1>4, <2>1, RowsTypes DEF Row
    <3> QED BY <1>3, <3>1 DEF QueueInv, RowsNew, Ahead, Live, Taken, First, Free
  <2> QED BY <2>4, <2>5, <2>6, <2>7, <2>8, <2>9, <2>10, <2>11, <2>12 DEF QueueInv
<1> QED BY <1>5, <1>6, <1>7

LEMMA IngestFileStep ==
    ASSUME QueueInv, IngestFile
    PROVE  QueueInv'
<1>1. Types /\ "folder" \in Actors /\ ProcOf("folder") = "server" /\ "folder" \notin Handlers
  BY PicturesAssumption DEF QueueInv, Actors, ProcOf
<1>2. PICK p \in Folder : Begin("folder", p)
  BY DEF IngestFile
<1>3. /\ adding' \in [Actors -> AddingType]
      /\ adding'["folder"] = [pc |-> "hash", path |-> p, hash |-> Nil]
      /\ \A b \in Actors : b # "folder" => adding'[b] = adding[b]
  BY <1>1, <1>2, AddingTypes, ActorStates DEF Paths
<1>4. Held("folder")'
  BY <1>3 DEF Held, Active
<1>5. \A h \in Handlers : Active(h) => p # adding[h].path
  BY PicturesAssumption DEF QueueInv, Held, Actors
<1> QED BY <1>1, <1>3, <1>4, <1>5, ActorMoves DEF IngestFile, disk, NoTrouble

LEMMA ScanFileStep ==
    ASSUME QueueInv, ScanFile
    PROVE  QueueInv'
<1>1. Types /\ "cli" \in Actors /\ ProcOf("cli") = "cli" /\ "cli" \notin Handlers
  BY PicturesAssumption DEF QueueInv, Actors, ProcOf
<1>2. PICK p \in scan : Begin("cli", p) /\ scan' = scan \ {p}
  BY DEF ScanFile
<1>3. p \in Staged /\ p \in Paths
  BY <1>1 DEF Types, Paths
<1>4. /\ adding' \in [Actors -> AddingType]
      /\ adding'["cli"] = [pc |-> "hash", path |-> p, hash |-> Nil]
      /\ \A b \in Actors : b # "cli" => adding'[b] = adding[b]
  BY <1>1, <1>2, <1>3, AddingTypes, ActorStates
<1>5. Held("cli")'
  BY <1>3, <1>4 DEF Held, Active
<1>6. \A h \in Handlers : ~Active(h)
  BY <1>1, <1>2, AloneCommand DEF Actors
<1>7. "cli" \in up
  BY <1>2, AloneCommand
<1> QED BY <1>1, <1>2, <1>4, <1>5, <1>6, <1>7, ActorMoves DEF ScanFile, disk, NoTrouble

LEMMA HashUploadStep ==
    ASSUME QueueInv, NEW a \in Actors, HashUpload(a)
    PROVE  QueueInv'
<1>1. Types /\ Held(a) /\ Active(a) /\ adding[a] \in AddingType
  BY DEF QueueInv, Types, HashUpload, Active
<1>2. CASE Refused(a) /\ (Trouble \/ NoTrouble)
  BY <1>1, <1>2, RefusedStep DEF HashUpload, disk
<1>3. CASE /\ files[adding[a].path] # Nil /\ NoTrouble
           /\ adding' = [adding EXCEPT ![a].pc = "library", ![a].hash = files[adding[a].path]]
  <2>1. adding[a].path \in Paths /\ files[adding[a].path] \in Pictures
    BY <1>1, <1>3 DEF Held, Types, Paths
  <2>2. PICK n : n = [adding[a] EXCEPT !.pc = "library", !.hash = files[adding[a].path]]
    OBVIOUS
  <2>3. n \in AddingType /\ n.pc = "library" /\ n.path = adding[a].path /\ n.hash = files[adding[a].path]
    BY <1>1, <2>1, <2>2 DEF AddingType, AddPc
  <2>4. adding' \in [Actors -> AddingType] /\ adding'[a] = n
        /\ \A b \in Actors : b # a => adding'[b] = adding[b]
    <3>1. adding' = [adding EXCEPT ![a] = n]
      BY <1>1, <1>3, <2>2 DEF Types
    <3> QED BY <1>1, <2>3, <3>1 DEF Types
  <2>5. Held(a)'
    BY <1>1, <2>1, <2>3, <2>4 DEF Held, Active, HashUpload, disk
  <2> QED BY <1>1, <1>3, <2>3, <2>4, <2>5, ActorGoesOn DEF HashUpload, disk
<1> QED BY <1>2, <1>3 DEF HashUpload

LEMMA LookupQueueStep ==
    ASSUME QueueInv, QueueRead, NEW a \in Actors, LookupQueue(a)
    PROVE  QueueInv'
<1>1. Types /\ Held(a) /\ Active(a) /\ adding[a].pc = "queue"
  BY DEF QueueInv, LookupQueue, Active
<1>2. CASE Refused(a) /\ NoTrouble
  BY <1>1, <1>2, RefusedStep DEF LookupQueue, disk
<1>3. CASE Goto(a, "insert") /\ (NoTrouble \/ Trouble)
  <2>1. /\ adding' \in [Actors -> AddingType]
        /\ adding'[a] = [pc |-> "insert", path |-> adding[a].path, hash |-> adding[a].hash]
        /\ \A b \in Actors : b # a => adding'[b] = adding[b]
    BY <1>1, <1>3, AddingTypes, ActorStates DEF AddPc
  <2>2. ~Queued(adding[a].hash)
    BY <1>1, <2>1 DEF QueueRead
  <2>3. Held(a)'
    BY <1>1, <2>1, <2>2 DEF Held, Active, Queued, LookupQueue, disk
  <2> QED BY <1>1, <1>3, <2>1, <2>3, ActorGoesOn DEF LookupQueue
<1> QED BY <1>2, <1>3 DEF LookupQueue

\* A new row: it settles the matter at once, or it is the first one of its file.
LEMMA NewRow ==
    ASSUME QueueInv, NEW r \in Row, rows' = Append(rows, r), UNCHANGED <<disk, batch>>,
           r.status = "duplicate" \/
               (r.path \in Staged =>
                    /\ Free(r.path) /\ files[r.path] = r.hash
                    /\ \A i \in 1..Len(rows) : Live(i) => rows[i].path # r.path)
    PROVE  /\ rows' \in Seq(Row) /\ Len(rows') = Len(rows) + 1 /\ rows'[Len(rows) + 1] = r
           /\ \A i \in 1..Len(rows) : rows'[i] = rows[i]
           /\ LibraryFiles' /\ RowsApart' /\ RowsNew'
           /\ \A p \in Procs : \A i \in batch'[p].todo : Todo(p, i)'
<1>1. Types
  BY DEF QueueInv
<1>2. PICK n \in Nat : n = Len(rows)
  BY <1>1 DEF Types
<1>3. rows' \in Seq(Row) /\ Len(rows') = n + 1 /\ rows'[n + 1] = r /\ \A i \in 1..n : rows'[i] = rows[i]
  BY <1>1, <1>2, RowsTypes DEF Types
<1>4. \A i : Taken(i) => i \in 1..n
  BY <1>2 DEF QueueInv, Taken, First, Todo
<1>5. \A i : Taken(i)' <=> Taken(i)
  BY DEF Taken, First
<1>6. \A i \in 1..n : (Live(i)' <=> Live(i)) /\ (Ahead(i)' <=> Ahead(i))
  BY <1>3, <1>5 DEF Live, Ahead
<1>7. r.status = "duplicate" => ~Live(n + 1)' /\ ~Ahead(n + 1)'
  BY <1>2, <1>3, <1>4, <1>5 DEF Live, Ahead
<1>8. RowsApart'
  <2> SUFFICES ASSUME NEW i \in 1..(n + 1), NEW j \in 1..(n + 1), i # j,
                      rows'[i].path \in Staged, Live(i)', Live(j)'
               PROVE  rows'[i].path # rows'[j].path
    BY <1>2, <1>3 DEF RowsApart
  <2>1. CASE i \in 1..n /\ j \in 1..n
    BY <1>2, <1>3, <1>6, <2>1 DEF QueueInv, RowsApart
  <2>2. CASE i = n + 1 /\ j \in 1..n
    BY <1>2, <1>3, <1>6, <1>7, <2>2
  <2>3. CASE i \in 1..n /\ j = n + 1
    BY <1>2, <1>3, <1>6, <1>7, <2>3
  <2> QED BY <1>2, <2>1, <2>2, <2>3
<1>9. RowsNew'
  <2> SUFFICES ASSUME NEW i \in 1..(n + 1), rows'[i].path \in Staged
               PROVE  /\ Ahead(i)' => Free(rows[i].path)'
                      /\ Live(i)' => files'[rows'[i].path] \in {rows'[i].hash, Nil}
    BY <1>2, <1>3 DEF RowsNew
  <2>1. CASE i \in 1..n
    <3>1. rows'[i] = rows[i] /\ rows[i].path \in Staged
      BY <1>3, <2>1
    <3>2. Ahead(i) => Free(rows[i].path)
      BY <1>2, <2>1, <3>1 DEF QueueInv, RowsNew
    <3>3. Live(i) => files[rows[i].path] \in {rows[i].hash, Nil}
      BY <1>2, <2>1, <3>1 DEF QueueInv, RowsNew
    <3> QED BY <1>6, <2>1, <3>1, <3>2, <3>3 DEF Free, disk
  <2>2. CASE i = n + 1
    BY <1>3, <1>7, <2>2 DEF Free, disk
  <2> QED BY <1>2, <2>1, <2>2
<1>10. ASSUME NEW p \in Procs, NEW i \in batch'[p].todo PROVE Todo(p, i)'
  <2>1. Todo(p, i) /\ i \in 1..n /\ i \in 1..(n + 1)
    BY <1>2 DEF QueueInv, Todo
  <2> QED BY <1>3, <2>1 DEF Todo, First, Similar, disk
<1> QED BY <1>2, <1>3, <1>8, <1>9, <1>10 DEF QueueInv, LibraryFiles, disk

\* What a new row means for the actors.
LEMMA NewRowActors ==
    ASSUME QueueInv, NEW a \in Actors, NEW r \in Row, rows' = Append(rows, r),
           UNCHANGED <<disk, up, scan, batch>>, Active(a),
           adding' \in [Actors -> AddingType],
           \A b \in Actors : b # a => adding'[b] = adding[b],
           a = "cli" \/ (\A h \in Handlers : Active(h) /\ (h # a \/ adding'[a].pc # "idle") => adding[h].path # r.path),
           adding'[a].path = adding[a].path \/ adding'[a].pc = "idle", adding'[a].pc \in {"idle", "drop"}, Held(a)'
    PROVE  /\ Running' /\ Scanning' /\ (\A b \in Actors : Held(b)') /\ \A h \in Handlers : Own(h)'
<1>1. Running'
  <2>1. \A b \in Actors : adding'[b].pc # "idle" => ProcOf(b) \in up
    BY DEF QueueInv, Running, Active
  <2>2. batch["cli"].pc # "idle" => scan = {} /\ adding'["cli"].pc = "idle"
    <3>1. "cli" \in Actors
      BY DEF Actors
    <3> QED BY <3>1 DEF QueueInv, Running, Active
  <2> QED BY <2>1, <2>2 DEF QueueInv, Running, Active
<1>2. Scanning'
  BY DEF QueueInv, Scanning, Free, disk
<1>3. ASSUME NEW b \in Actors PROVE Held(b)'
  <2>1. CASE b = a
    BY <2>1
  <2>2. CASE b # a /\ b # "cli"
    <3>1. adding'[b] = adding[b] /\ Held(b)
      BY <2>2 DEF QueueInv
    <3> QED BY <2>2, <3>1 DEF Held, Active, disk
  <2>3. CASE b # a /\ b = "cli"
    <3>1. adding'[b] = adding[b] /\ ~Active(b)
      BY <2>3, AloneCommand
    <3> QED BY <3>1 DEF Held, Active
  <2> QED BY <2>1, <2>2, <2>3
<1>4. ASSUME NEW h \in Handlers PROVE Own(h)'
  <2> SUFFICES ASSUME adding'[h].pc # "idle" PROVE Own(h)'
    BY DEF Own, Active
  <2>1. h \in Actors /\ h # "cli" /\ Own(h) /\ Types
    BY PicturesAssumption DEF QueueInv, Actors
  <2>2. Active(h) /\ adding'[h].path = adding[h].path
    BY <2>1 DEF Active
  <2>3. a # "cli" /\ adding[h].path # r.path
    BY <2>1, <2>2, AloneCommand
  <2>4. \A i \in 1..Len(rows') : rows'[i] = r \/ \E j \in 1..Len(rows) : rows'[i] = rows[j]
    BY <2>1 DEF Types
  <2>5. \A i \in 1..Len(rows') : rows'[i].path # adding[h].path
    BY <2>1, <2>2, <2>3, <2>4 DEF Own
  <2>6. \A b \in Actors : b # h /\ adding'[b].pc # "idle" => adding'[b].path # adding[h].path
    BY <2>1, <2>2 DEF Own, Active
  <2> QED BY <2>1, <2>2, <2>5, <2>6 DEF Own, Active, Free, disk
<1> QED BY <1>1, <1>2, <1>3, <1>4

LEMMA LookupLibraryStep ==
    ASSUME QueueInv, NEW a \in Actors, LookupLibrary(a)
    PROVE  QueueInv'
<1>1. Types /\ Held(a) /\ Active(a) /\ adding[a].pc = "library" /\ adding[a].hash \in Pictures
  BY DEF QueueInv, LookupLibrary, Active, Held
<1>2. CASE Refused(a) /\ Trouble /\ UNCHANGED rows
  BY <1>1, <1>2, RefusedStep DEF LookupLibrary
<1>3. CASE Goto(a, "queue") /\ (NoTrouble \/ Trouble) /\ UNCHANGED rows
  <2>1. /\ adding' \in [Actors -> AddingType]
        /\ adding'[a] = [pc |-> "queue", path |-> adding[a].path, hash |-> adding[a].hash]
        /\ \A b \in Actors : b # a => adding'[b] = adding[b]
    BY <1>1, <1>3, AddingTypes, ActorStates DEF AddPc
  <2>2. Held(a)'
    BY <1>1, <2>1 DEF Held, Active, LookupLibrary, disk
  <2> QED BY <1>1, <1>3, <2>1, <2>2, ActorGoesOn DEF LookupLibrary
<1>4. CASE /\ images[adding[a].hash] # Nil /\ NoTrouble
           /\ rows' = Append(rows, [path |-> images[adding[a].hash], hash |-> adding[a].hash, status |-> "duplicate"])
           /\ IF a = "folder" THEN Return(a) ELSE Goto(a, "drop")
  <2> DEFINE r == [path |-> images[adding[a].hash], hash |-> adding[a].hash, status |-> "duplicate"]
  <2>1. r \in Row /\ r.status = "duplicate" /\ rows' = Append(rows, r)
    BY <1>1, <1>4 DEF Types, Row, Status
  <2>2. \A h \in Handlers : Active(h) => adding[h].path # r.path
    BY <1>1 DEF QueueInv, Own, Free
  <2>3. /\ adding' \in [Actors -> AddingType]
        /\ \A b \in Actors : b # a => adding'[b] = adding[b]
        /\ IF a = "folder" THEN adding'[a] = NotAdding
           ELSE adding'[a] = [pc |-> "drop", path |-> adding[a].path, hash |-> adding[a].hash]
    BY <1>1, <1>4, AddingTypes, ActorStates DEF AddPc
  <2>4. Held(a)'
    BY <1>1, <1>4, <2>3 DEF Held, Active, LookupLibrary, disk, NotAdding
  <2>5. UNCHANGED <<disk, up, scan, batch, accepted, trouble>>
    BY <1>4 DEF LookupLibrary, NoTrouble
  <2> HIDE DEF r
  <2>6. /\ rows' \in Seq(Row) /\ LibraryFiles' /\ RowsApart' /\ RowsNew'
        /\ \A p \in Procs : \A i \in batch'[p].todo : Todo(p, i)'
    BY <2>1, <2>5, NewRow
  <2>7. Types'
    BY <1>1, <2>3, <2>5, <2>6 DEF Types, disk
  <2>8. /\ adding'[a].path = adding[a].path \/ adding'[a].pc = "idle"
        /\ adding'[a].pc \in {"idle", "drop"}
    BY <2>3 DEF NotAdding
  <2>9. Running' /\ Scanning' /\ (\A b \in Actors : Held(b)') /\ \A h \in Handlers : Own(h)'
    BY <1>1, <2>1, <2>2, <2>3, <2>4, <2>5, <2>8, NewRowActors
  <2> QED BY <2>6, <2>7, <2>9 DEF QueueInv
<1> QED BY <1>2, <1>3, <1>4 DEF LookupLibrary

LEMMA InsertPendingStep ==
    ASSUME QueueInv, NEW a \in Actors, InsertPending(a)
    PROVE  QueueInv'
<1>1. Types /\ Held(a) /\ Active(a) /\ adding[a].pc = "insert"
      /\ adding[a].hash \in Pictures /\ files[adding[a].path] = adding[a].hash
  BY DEF QueueInv, InsertPending, Active, Held
<1>2. CASE Refused(a) /\ Trouble /\ UNCHANGED <<rows, accepted>>
  BY <1>1, <1>2, RefusedStep DEF InsertPending
<1>3. CASE /\ rows' = Append(rows, [path |-> adding[a].path, hash |-> adding[a].hash, status |-> "pending"])
           /\ accepted' = accepted \cup {adding[a].hash}
           /\ Return(a) /\ NoTrouble
  <2> DEFINE r == [path |-> adding[a].path, hash |-> adding[a].hash, status |-> "pending"]
  <2>1. r \in Row /\ rows' = Append(rows, r) /\ r.path = adding[a].path /\ r.hash = adding[a].hash
        /\ r.status = "pending"
    BY <1>1, <1>3 DEF Types, Row, Status, Held, Paths
  <2> HIDE DEF r
  <2>2. ASSUME adding[a].path \in Staged
        PROVE  /\ Free(adding[a].path)
               /\ \A i \in 1..Len(rows) : Live(i) => rows[i].path # adding[a].path
    <3>1. CASE a \in Handlers
      BY <1>1, <3>1 DEF QueueInv, Own
    <3>2. CASE a = "cli"
      <4>1. Free(adding[a].path)
        BY <1>1, <2>2, <3>2, AloneCommand
      <4>2. ASSUME NEW i \in 1..Len(rows), Live(i), rows[i].path = adding[a].path PROVE FALSE
        <5>1. ~Taken(i)
          BY <1>1, <3>2, AloneCommand DEF Taken, First
        <5>2. rows[i].status \in {"pending", "processing"}
          BY <4>2, <5>1 DEF Live
        <5>3. files[rows[i].path] \in {rows[i].hash, Nil}
          BY <2>2, <4>2 DEF QueueInv, RowsNew
        <5>4. rows[i].hash = adding[a].hash
          BY <1>1, <4>2, <5>3, PicturesAssumption
        <5>5. ~Queued(adding[a].hash)
          BY <1>1, <3>2 DEF Held
        <5> QED BY <5>2, <5>4, <5>5 DEF Queued
      <4> QED BY <4>1, <4>2
    <3>3. CASE a = "folder"
      BY <1>1, <2>2, <3>3, PicturesAssumption DEF Held
    <3> QED BY <3>1, <3>2, <3>3 DEF Actors
  <2>3. UNCHANGED <<disk, up, scan, batch, trouble>>
    BY <1>3 DEF InsertPending, NoTrouble
  <2>4. /\ rows' \in Seq(Row) /\ LibraryFiles' /\ RowsApart' /\ RowsNew'
        /\ \A p \in Procs : \A i \in batch'[p].todo : Todo(p, i)'
    BY <1>1, <2>1, <2>2, <2>3, NewRow
  <2>5. /\ adding' \in [Actors -> AddingType]
        /\ \A b \in Actors : b # a => adding'[b] = adding[b]
        /\ adding'[a] = NotAdding
    BY <1>1, <1>3, AddingTypes, ActorStates
  <2>6. adding'[a].pc = "idle" /\ Held(a)'
    BY <2>5 DEF Held, Active, NotAdding
  <2>7. Types'
    BY <1>1, <1>3, <2>3, <2>4, <2>5 DEF Types, disk
  <2>8. \A h \in Handlers : Active(h) /\ (h # a \/ adding'[a].pc # "idle") => adding[h].path # r.path
    BY <1>1, <2>1, <2>6 DEF QueueInv, Own
  <2>9. Running' /\ Scanning' /\ (\A b \in Actors : Held(b)') /\ \A h \in Handlers : Own(h)'
    BY <1>1, <2>1, <2>3, <2>5, <2>6, <2>8, NewRowActors
  <2> QED BY <2>4, <2>7, <2>9 DEF QueueInv
<1> QED BY <1>2, <1>3 DEF InsertPending

LEMMA DropUploadStep ==
    ASSUME QueueInv, NEW a \in Actors, DropUpload(a)
    PROVE  QueueInv'
<1>1. Types /\ Held(a) /\ Active(a) /\ adding[a].path \in Staged /\ adding[a].path \in Paths /\ a # "folder"
  BY DEF QueueInv, DropUpload, Active, Held, Paths
<1>2. PICK p \in Staged : p = adding[a].path
  BY <1>1
<1>3. /\ files' \in [Paths -> Pictures \cup {Nil}] /\ files'[p] = Nil
      /\ \A q \in Paths : q # p => files'[q] = files[q]
      /\ UNCHANGED <<images, rows, up, scan, batch, accepted, trouble>>
  BY <1>1, <1>2, FilesTypes DEF DropUpload, Types
<1>4. /\ adding' \in [Actors -> AddingType] /\ adding'[a] = NotAdding
      /\ \A b \in Actors : b # a => adding'[b] = adding[b]
  BY <1>1, AddingTypes, ActorStates DEF DropUpload
<1>5. Free(p)
  <2>1. CASE a \in Handlers
    BY <1>1, <1>2, <2>1 DEF QueueInv, Own
  <2>2. CASE a = "cli"
    BY <1>1, <1>2, <2>2, AloneCommand
  <2> QED BY <1>1, <2>1, <2>2 DEF Actors
<1>6. Types'
  BY <1>1, <1>3, <1>4 DEF Types
<1>7. Running' /\ Scanning'
  BY <1>3, <1>4 DEF QueueInv, Running, Scanning, Active, Free, NotAdding, Actors
<1>8. LibraryFiles'
  BY <1>1, <1>3, <1>5 DEF QueueInv, LibraryFiles, Types, Free
<1>9. ASSUME NEW b \in Actors PROVE Held(b)'
  <2>1. CASE b = a
    BY <1>4, <2>1 DEF Held, Active, NotAdding
  <2>2. CASE b # a
    <3> SUFFICES ASSUME Active(b) PROVE Held(b)'
      BY <1>4, <2>2 DEF Held, Active
    <3>1. adding'[b] = adding[b] /\ Held(b)
      BY <1>4, <2>2 DEF QueueInv
    <3>2. a # "cli" /\ a \in Handlers
      BY <1>1, <2>2, AloneCommand DEF Actors
    <3>3. adding[b].path # p /\ adding[b].path \in Paths
      BY <1>1, <1>2, <2>2, <3>1, <3>2 DEF QueueInv, Own, Held, Paths
    <3> QED BY <1>3, <3>1, <3>3 DEF Held, Active, Queued
  <2> QED BY <2>1, <2>2
<1>10. ASSUME NEW h \in Handlers PROVE Own(h)'
  <2>1. h \in Actors /\ Own(h)
    BY DEF QueueInv, Actors
  <2> QED BY <1>3, <1>4, <2>1 DEF Own, Active, Free, NotAdding
<1>11. ASSUME NEW q \in Procs, NEW i \in batch'[q].todo PROVE Todo(q, i)'
  <2>1. Todo(q, i) /\ i \in 1..Len(rows) /\ rows[i] \in Row
    BY <1>1, <1>3, RowsTypes DEF QueueInv, Todo
  <2>2. a # "cli"
    BY <1>1, <1>3, AloneCommand
  <2>3. rows[i].path # p /\ rows[i].path \in Paths
    BY <1>1, <1>2, <2>1, <2>2 DEF QueueInv, Own, Actors, Row
  <2> QED BY <1>3, <2>1, <2>3 DEF Todo, First, Similar
<1>12. RowsApart'
  BY <1>3 DEF QueueInv, RowsApart, Live, Taken, First
<1>13. RowsNew'
  <2>1. \A i \in 1..Len(rows) : files'[rows[i].path] \in {files[rows[i].path], Nil}
    BY <1>1, <1>3, RowsTypes DEF Row
  <2> QED BY <1>3, <2>1 DEF QueueInv, RowsNew, Ahead, Live, Taken, First, Free
<1> QED BY <1>6, <1>7, <1>8, <1>9, <1>10, <1>11, <1>12, <1>13 DEF QueueInv

-----------------------------------------------------------------------------
(* The steps of a batch.                                                   *)

\* What a step of the batch of p at its row i may do.
RowMoves(p, i) ==
    /\ UNCHANGED <<up, scan, adding, accepted>> /\ (Trouble \/ NoTrouble)
    /\ rows' \in Seq(Row) /\ Len(rows') = Len(rows)
    /\ \A j \in 1..Len(rows) :
           rows'[j].path = rows[j].path /\ rows'[j].hash = rows[j].hash /\ (j # i => rows'[j] = rows[j])
    /\ batch' \in [Procs -> BatchType] /\ \A q \in Procs : q # p => batch'[q] = batch[q]
    /\ \/ batch'[p].pc = "next" /\ batch'[p].todo = batch[p].todo \ {i}
       \/ batch'[p].pc \notin {"idle", "next"} /\ batch'[p].todo = batch[p].todo /\ Todo(p, i)'
    /\ \/ files' = files
       \/ files' = [files EXCEPT ![rows[i].path] = Nil] /\ rows[i].path \in Staged /\ Taken(i)
    /\ \/ images' = images
       \/ /\ Taken(i) /\ ~Ahead(i)' /\ files' = files
          /\ \E c \in Pictures :
                 images[c] = Nil /\ files[rows[i].path] = c /\ images' = [images EXCEPT ![c] = rows[i].path]
    /\ (Ahead(i)' => Ahead(i)) /\ (Live(i)' => Live(i))

LEMMA RowMovesInv ==
    ASSUME QueueInv, NEW p \in Procs, batch[p].pc # "idle", NEW i, First(p, i), RowMoves(p, i)
    PROVE  QueueInv'
<1>1. Types /\ i \in 1..Len(rows) /\ rows[i] \in Row /\ rows[i].path \in Paths
  BY TakenRow, RowsTypes DEF QueueInv, Row
<1>2. /\ up = {p} /\ \A q \in Procs : q # p => batch[q].pc = "idle" /\ batch[q].todo = {}
      /\ ~Active("cli") /\ (p = "cli" => \A a \in Actors : ~Active(a))
  BY AloneBatch
<1>3. UNCHANGED <<up, scan, adding, accepted>> /\ (Trouble \/ NoTrouble)
  BY DEF RowMoves
<1>4. /\ rows' \in Seq(Row) /\ Len(rows') = Len(rows)
      /\ \A j \in 1..Len(rows) :
            rows'[j].path = rows[j].path /\ rows'[j].hash = rows[j].hash /\ (j # i => rows'[j] = rows[j])
  BY DEF RowMoves
<1>5. /\ batch' \in [Procs -> BatchType] /\ \A q \in Procs : q # p => batch'[q] = batch[q]
      /\ \/ batch'[p].pc = "next" /\ batch'[p].todo = batch[p].todo \ {i}
         \/ batch'[p].pc \notin {"idle", "next"} /\ batch'[p].todo = batch[p].todo /\ Todo(p, i)'
  BY DEF RowMoves
<1>6. \/ files' = files
      \/ files' = [files EXCEPT ![rows[i].path] = Nil] /\ rows[i].path \in Staged /\ Taken(i)
  BY DEF RowMoves
<1>7. \/ images' = images
      \/ /\ Taken(i) /\ ~Ahead(i)' /\ files' = files
         /\ \E c \in Pictures :
                images[c] = Nil /\ files[rows[i].path] = c /\ images' = [images EXCEPT ![c] = rows[i].path]
  BY DEF RowMoves
<1>8. (Ahead(i)' => Ahead(i)) /\ (Live(i)' => Live(i))
  BY DEF RowMoves
<1>9. Types'
  <2>1. files' \in [Paths -> Pictures \cup {Nil}] /\ images' \in [Pictures -> Paths \cup {Nil}]
    BY <1>1, <1>6, <1>7, FilesTypes DEF Types
  <2> QED BY <1>1, <1>3, <1>4, <1>5, <2>1, TroubleType DEF Types
<1>10. \A q \in Procs : batch'[q].pc # "idle" <=> batch[q].pc # "idle"
  BY <1>5
<1>11. Running'
  <2>1. "cli" \in Procs
    BY DEF Procs
  <2> QED BY <1>3, <1>10, <2>1 DEF QueueInv, Running, Active
<1>12. Scanning'
  BY <1>2, <1>3, <1>10 DEF Scanning
<1>13. LibraryFiles'
  <2> SUFFICES ASSUME NEW d \in Pictures, images'[d] # Nil PROVE files'[images'[d]] = d
    BY DEF LibraryFiles
  <2>1. CASE images' = images /\ files' = files
    BY <2>1 DEF QueueInv, LibraryFiles
  <2>2. CASE images' = images /\ files' = [files EXCEPT ![rows[i].path] = Nil] /\ rows[i].path \in Staged /\ Taken(i)
    <3>1. Free(rows[i].path)
      BY <1>1, <2>2 DEF QueueInv, RowsNew, Ahead
    <3>2. files[images[d]] = d /\ images[d] \in Paths /\ images[d] # rows[i].path
      BY <1>1, <2>2, <3>1 DEF QueueInv, LibraryFiles, Types, Free
    <3> QED BY <1>1, <2>2, <3>2 DEF Types
  <2>3. CASE files' = files /\ \E c \in Pictures :
                images[c] = Nil /\ files[rows[i].path] = c /\ images' = [images EXCEPT ![c] = rows[i].path]
    BY <1>1, <2>3 DEF QueueInv, LibraryFiles, Types
  <2> QED BY <1>6, <1>7, <2>1, <2>2, <2>3
<1>14. ASSUME NEW a \in Actors PROVE Held(a)'
  <2> SUFFICES ASSUME Active(a) PROVE Held(a)'
    BY <1>3 DEF Held, Active
  <2>1. Held(a) /\ a # "cli" /\ adding[a].path \in Paths
    BY <1>2 DEF QueueInv, Held, Paths
  <2>2. files'[adding[a].path] = files[adding[a].path]
    <3>1. CASE a = "folder"
      <4>1. adding[a].path \in Folder
        BY <2>1, <3>1 DEF Held
      <4> QED BY <1>1, <1>6, <2>1, <4>1, PicturesAssumption DEF Types
    <3>2. CASE a \in Handlers
      <4>1. rows[i].path # adding[a].path
        BY <1>1, <3>2 DEF QueueInv, Own
      <4> QED BY <1>1, <1>6, <2>1, <4>1 DEF Types
    <3> QED BY <2>1, <3>1, <3>2 DEF Actors
  <2> QED BY <1>3, <2>1, <2>2 DEF Held, Active
<1>15. ASSUME NEW h \in Handlers PROVE Own(h)'
  <2> SUFFICES ASSUME Active(h) PROVE Own(h)'
    BY <1>3 DEF Own, Active
  <2>1. Own(h)
    BY DEF QueueInv
  <2>2. \A j \in 1..Len(rows') : rows'[j].path # adding[h].path
    BY <1>4, <2>1 DEF Own
  <2>3. \A c \in Pictures : images'[c] # adding[h].path
    BY <1>1, <1>7, <2>1 DEF Own, Free, Types
  <2> QED BY <1>3, <2>1, <2>2, <2>3 DEF Own, Active, Free
<1>16. \A j : First(p, j) => j = i
  BY TakenRow
<1>17. ASSUME NEW q \in Procs, NEW j \in batch'[q].todo PROVE Todo(q, j)'
  <2>1. CASE q # p
    BY <1>2, <1>5, <2>1
  <2>2. CASE q = p /\ batch'[p].pc = "next"
    <3>1. j \in batch[p].todo /\ j # i /\ ~First(p, j)
      BY <1>5, <1>16, <2>2
    <3>2. rows'[j].status = "pending" /\ j \in 1..Len(rows)
      BY <1>4, <3>1 DEF QueueInv, Todo
    <3> QED BY <1>4, <2>2, <3>2 DEF Todo
  <2>3. CASE q = p /\ j = i /\ batch'[p].pc # "next"
    BY <1>5, <2>3
  <2>4. CASE q = p /\ j # i /\ batch'[p].pc # "next"
    <3>1. j \in batch[p].todo /\ ~First(p, j) /\ ~First(p, j)'
      BY <1>5, <1>16, <2>4 DEF First
    <3>2. rows'[j].status = "pending" /\ j \in 1..Len(rows)
      BY <1>4, <2>4, <3>1 DEF QueueInv, Todo
    <3> QED BY <1>4, <1>5, <2>4, <3>1, <3>2 DEF Todo
  <2> QED BY <2>1, <2>2, <2>3, <2>4
<1>18. \A j : j # i => ~Taken(j) /\ ~Taken(j)'
  <2>1. \A j : Taken(j) => j = i
    BY TakenRow
  <2>2. ASSUME NEW j, j # i, Taken(j)' PROVE FALSE
    <3>1. PICK q \in Procs : batch'[q].pc \in Before /\ First(q, j)'
      BY <2>2 DEF Taken
    <3>2. q = p
      BY <1>2, <1>5, <3>1 DEF First
    <3>3. batch'[p].todo = batch[p].todo
      BY <1>5, <3>1, <3>2 DEF Before
    <3> QED BY <1>16, <2>2, <3>1, <3>2, <3>3 DEF First
  <2> QED BY <2>1, <2>2
<1>19. \A j \in 1..Len(rows) : (Ahead(j)' => Ahead(j)) /\ (Live(j)' => Live(j))
  BY <1>4, <1>8, <1>18 DEF Ahead, Live
<1>20. RowsApart'
  BY <1>4, <1>19 DEF QueueInv, RowsApart
<1>21. RowsNew'
  <2> SUFFICES ASSUME NEW j \in 1..Len(rows), rows[j].path \in Staged
               PROVE  /\ Ahead(j)' => \A c \in Pictures : images'[c] # rows[j].path
                      /\ Live(j)' => files'[rows[j].path] \in {rows[j].hash, Nil}
    BY <1>4 DEF RowsNew, Free
  <2>1. ASSUME Ahead(j)' PROVE \A c \in Pictures : images'[c] # rows[j].path
    <3>1. Free(rows[j].path)
      BY <1>19, <2>1 DEF QueueInv, RowsNew
    <3>2. CASE images' = images
      BY <3>1, <3>2 DEF Free
    <3>3. CASE Taken(i) /\ ~Ahead(i)' /\ \E c \in Pictures : images' = [images EXCEPT ![c] = rows[i].path]
      <4>1. j # i
        BY <2>1, <3>3
      <4>2. Live(j) /\ Live(i)
        BY <1>19, <2>1, <3>3 DEF Ahead, Live
      <4>3. rows[j].path # rows[i].path
        BY <1>1, <4>1, <4>2 DEF QueueInv, RowsApart
      <4> QED BY <1>1, <3>1, <3>3, <4>3 DEF Free, Types
    <3> QED BY <1>7, <3>2, <3>3
  <2>2. ASSUME Live(j)' PROVE files'[rows[j].path] \in {rows[j].hash, Nil}
    <3>1. files[rows[j].path] \in {rows[j].hash, Nil} /\ rows[j].path \in Paths
      BY <1>19, <2>2 DEF QueueInv, RowsNew, Paths
    <3> QED BY <1>1, <1>6, <3>1 DEF Types
  <2> QED BY <2>1, <2>2
<1> QED BY <1>9, <1>11, <1>12, <1>13, <1>14, <1>15, <1>17, <1>20, <1>21 DEF QueueInv

\* Where a batch is at a row: it may not be done with it yet.
LEMMA AtRow ==
    ASSUME QueueInv, NEW p \in Procs, NEW s \in BatchPc \ {"idle"}, NEW i, At(p, s, i)
    PROVE  /\ Types /\ batch[p].pc = s /\ First(p, i) /\ Todo(p, i)
           /\ i \in 1..Len(rows) /\ rows[i] \in Row
           /\ Live(i) /\ (s # "mark" => Ahead(i))
           /\ s \in Before => Taken(i)
           /\ \A q \in Procs : q # p => batch[q].pc = "idle" /\ batch[q].todo = {}
<1>1. batch[p].pc = s /\ First(p, i) /\ Todo(p, i) /\ Types
  BY DEF At, First, QueueInv
<1>2. i \in 1..Len(rows) /\ rows[i] \in Row
  BY <1>1, RowsTypes DEF Todo
<1>3. s \in Before => Taken(i)
  BY <1>1 DEF Taken
<1>4. s = "next" => rows[i].status = "pending"
  BY <1>1 DEF Todo
<1>5. s = "mark" => rows[i].status = "processing"
  BY <1>1 DEF Todo
<1>6. s \in Before \cup {"next", "mark"}
  BY DEF BatchPc, Before
<1>7. Live(i) /\ (s # "mark" => Ahead(i))
  BY <1>3, <1>4, <1>5, <1>6 DEF Live, Ahead
<1> QED BY <1>1, <1>2, <1>3, <1>7, AloneBatch

\* A batch that leaves its row.
LEMMA LeaveRow ==
    ASSUME QueueInv, NEW p \in Procs, NEW s \in BatchPc \ {"idle"}, NEW i, At(p, s, i), NextRow(p, i),
           UNCHANGED <<up, scan, adding, accepted>>, Trouble \/ NoTrouble,
           \E t \in Settled : Sets(i, t),
           \/ UNCHANGED files
           \/ files' = [files EXCEPT ![rows[i].path] = Nil] /\ rows[i].path \in Staged /\ s \in Before,
           \/ images' = images
           \/ /\ s \in Before /\ files' = files
              /\ \E c \in Pictures :
                     images[c] = Nil /\ files[rows[i].path] = c /\ images' = [images EXCEPT ![c] = rows[i].path]
    PROVE  QueueInv'
<1>1. /\ Types /\ batch[p].pc = s /\ First(p, i) /\ Todo(p, i)
      /\ i \in 1..Len(rows) /\ rows[i] \in Row
      /\ Live(i) /\ (s # "mark" => Ahead(i))
      /\ s \in Before => Taken(i)
      /\ \A q \in Procs : q # p => batch[q].pc = "idle" /\ batch[q].todo = {}
  BY AtRow
<1>2. /\ batch' \in [Procs -> BatchType]
      /\ batch'[p] = [pc |-> "next", todo |-> batch[p].todo \ {i}, hash |-> Nil]
      /\ \A q \in Procs : q # p => batch'[q] = batch[q]
  BY <1>1, BatchTypes
<1>3. /\ rows' \in Seq(Row) /\ Len(rows') = Len(rows)
      /\ \A j \in 1..Len(rows) :
            rows'[j].path = rows[j].path /\ rows'[j].hash = rows[j].hash /\ (j # i => rows'[j] = rows[j])
      /\ rows'[i].status \in {rows[i].status} \cup Settled
  <2>1. PICK t \in Settled : Sets(i, t)
    OBVIOUS
  <2>2. t \in Status
    BY DEF Settled, Status
  <2> QED BY <1>1, <2>1, <2>2, RowsTypes
<1>4. ~Taken(i)'
  BY <1>1, <1>2 DEF Taken, First, Before
<1>5. rows'[i].status = "pending" => s = "next"
  <2>1. s # "next" => rows[i].status # "pending"
    BY <1>1 DEF Todo
  <2> QED BY <1>3, <2>1 DEF Settled
<1>6. (Ahead(i)' => Ahead(i)) /\ (Live(i)' => Live(i)) /\ (s \in Before => ~Ahead(i)')
  BY <1>1, <1>4, <1>5 DEF Ahead, Before
<1>7. RowMoves(p, i)
  <2>1. \/ files' = files
        \/ files' = [files EXCEPT ![rows[i].path] = Nil] /\ rows[i].path \in Staged /\ Taken(i)
    BY <1>1
  <2>2. \/ images' = images
        \/ /\ Taken(i) /\ ~Ahead(i)' /\ files' = files
           /\ \E c \in Pictures :
                  images[c] = Nil /\ files[rows[i].path] = c /\ images' = [images EXCEPT ![c] = rows[i].path]
    BY <1>1, <1>6
  <2> QED BY <1>2, <1>3, <1>6, <2>1, <2>2 DEF RowMoves
<1> QED BY <1>1, <1>7, RowMovesInv

\* A batch that goes on with its row, at t and with the picture c.
Stays(p, i, t, c) ==
    /\ batch' = [batch EXCEPT ![p] = [pc |-> t, todo |-> batch[p].todo, hash |-> c]]
    /\ UNCHANGED <<files, up, scan, adding, accepted>> /\ (Trouble \/ NoTrouble)
    /\ \E u \in Status \ {"pending"} : Sets(i, u)
    /\ rows'[i].status # "pending"
    /\ t \in {"prepare", "compare", "analyze", "save", "mark"} => rows'[i].status = "processing"
    /\ t \in {"compare", "remove", "analyze", "keep", "save"} => c \in Pictures /\ files[rows[i].path] = c
    /\ t = "remove" => Similar(c)
    /\ \/ images' = images
       \/ /\ batch[p].pc \in Before /\ t = "mark"
          /\ \E d \in Pictures :
                 images[d] = Nil /\ files[rows[i].path] = d /\ images' = [images EXCEPT ![d] = rows[i].path]

LEMMA StayAtRow ==
    ASSUME QueueInv, NEW p \in Procs, NEW s \in BatchPc \ {"idle", "mark"}, NEW i, At(p, s, i),
           NEW t \in BatchPc \ {"idle", "next"}, NEW c \in Pictures \cup {Nil}, Stays(p, i, t, c)
    PROVE  QueueInv'
<1>1. /\ Types /\ batch[p].pc = s /\ First(p, i) /\ Todo(p, i)
      /\ i \in 1..Len(rows) /\ rows[i] \in Row
      /\ Live(i) /\ Ahead(i) /\ (s \in Before => Taken(i))
      /\ \A q \in Procs : q # p => batch[q].pc = "idle" /\ batch[q].todo = {}
  BY AtRow
<1>2. batch' \in [Procs -> BatchType] /\ batch'[p] = [pc |-> t, todo |-> batch[p].todo, hash |-> c]
      /\ \A q \in Procs : q # p => batch'[q] = batch[q]
  <2>1. [pc |-> t, todo |-> batch[p].todo, hash |-> c] \in BatchType
    BY <1>1 DEF Types, BatchType
  <2> QED BY <1>1, <2>1, BatchTypes DEF Stays
<1>3. /\ rows' \in Seq(Row) /\ Len(rows') = Len(rows)
      /\ \A j \in 1..Len(rows) :
            rows'[j].path = rows[j].path /\ rows'[j].hash = rows[j].hash /\ (j # i => rows'[j] = rows[j])
  <2>1. PICK u \in Status \ {"pending"} : Sets(i, u)
    BY DEF Stays
  <2> QED BY <1>1, <2>1, RowsTypes
<1>4. Todo(p, i)'
  BY <1>1, <1>2, <1>3 DEF Stays, Todo, First, Similar
<1>5. t = "mark" => ~Ahead(i)'
  BY <1>1, <1>2 DEF Stays, Ahead, Taken, First, Before
<1>6. RowMoves(p, i)
  BY <1>1, <1>2, <1>3, <1>4, <1>5 DEF Stays, RowMoves
<1> QED BY <1>1, <1>6, RowMovesInv

LEMMA GoOnBatch ==
    ASSUME Types, NEW p \in Procs, NEW s \in BatchPc, GoOn(p, s)
    PROVE  /\ batch' = [batch EXCEPT ![p] = [pc |-> s, todo |-> batch[p].todo, hash |-> batch[p].hash]]
           /\ batch[p].hash \in Pictures \cup {Nil}
<1>1. batch[p] \in BatchType
  BY DEF Types
<1>2. [batch[p] EXCEPT !.pc = s] = [pc |-> s, todo |-> batch[p].todo, hash |-> batch[p].hash]
  BY <1>1 DEF BatchType
<1>3. batch' = [batch EXCEPT ![p] = [batch[p] EXCEPT !.pc = s]]
  BY DEF GoOn, Types
<1> QED BY <1>1, <1>2, <1>3 DEF BatchType

LEMMA MarkProcessingStep ==
    ASSUME QueueInv, Marked', NEW p \in Procs, NEW i, MarkProcessing(p, i)
    PROVE  QueueInv'
<1>1. At(p, "next", i) /\ "next" \in BatchPc \ {"idle", "mark"} /\ "prepare" \in BatchPc \ {"idle", "next"}
  BY DEF MarkProcessing, BatchPc
<1>2. Types /\ batch[p].pc = "next" /\ First(p, i) /\ i \in 1..Len(rows) /\ batch[p] \in BatchType
  BY <1>1, AtRow DEF Types
<1>3. /\ batch' = [batch EXCEPT ![p] = [pc |-> "prepare", todo |-> batch[p].todo, hash |-> batch[p].hash]]
      /\ batch[p].hash \in Pictures \cup {Nil}
  BY <1>1, <1>2, GoOnBatch DEF MarkProcessing
<1>4. SetStatus(i, "processing") /\ UNCHANGED <<disk, up, scan, adding, accepted>>
  BY DEF MarkProcessing
<1>5. /\ Len(rows') = Len(rows) /\ rows'[i].status \in {rows[i].status, "processing"}
      /\ (Trouble \/ NoTrouble)
  BY <1>2, <1>4, RowsTypes DEF Status
<1>6. rows'[i].status # "pending"
  <2>1. batch'[p].pc = "prepare" /\ batch'[p].todo = batch[p].todo
    BY <1>2, <1>3, BatchTypes DEF MarkProcessing, BatchPc
  <2>2. At(p, batch[p].pc, i)'
    BY <1>2, <2>1 DEF At, First
  <2> QED BY <1>2, <1>5, <2>1, <2>2 DEF Marked
<1>7. rows'[i].status = "processing"
  BY <1>1, <1>2, <1>5, <1>6, AtRow DEF Todo
<1>8. \E u \in Status \ {"pending"} : Sets(i, u)
  BY <1>2, <1>4, RowsTypes DEF Status
<1>9. UNCHANGED <<files, images, up, scan, adding, accepted>> /\ (Trouble \/ NoTrouble)
  BY <1>4, <1>5 DEF disk
<1>10. Stays(p, i, "prepare", batch[p].hash)
  BY <1>1, <1>3, <1>6, <1>7, <1>8, <1>9 DEF Stays
<1> QED BY <1>1, <1>3, <1>10, StayAtRow

\* A status that was or was not set, in the form of the lemmas above.
LEMMA StatusSet ==
    ASSUME QueueInv, NEW i \in 1..Len(rows)
    PROVE  /\ \A s \in Status : SetStatus(i, s) =>
                  Sets(i, s) /\ (Trouble \/ NoTrouble) /\ rows'[i].status \in {rows[i].status, s}
           /\ UNCHANGED rows => \A s : Sets(i, s)
BY RowsTypes DEF QueueInv, Sets

LEMMA PrepareImageStep ==
    ASSUME QueueInv, NEW p \in Procs, NEW i, PrepareImage(p, i)
    PROVE  QueueInv'
<1>1. /\ At(p, "prepare", i) /\ "prepare" \in BatchPc \ {"idle", "mark"} /\ "prepare" \in BatchPc \ {"idle"}
      /\ "compare" \in BatchPc \ {"idle", "next"} /\ "failed" \in Settled
      /\ "failed" \in Status \ {"pending"}
      /\ UNCHANGED <<files, images, up, scan, adding, accepted>>
  BY DEF PrepareImage, BatchPc, Settled, Status, disk
<1>2. Types /\ Todo(p, i) /\ First(p, i) /\ batch[p].pc = "prepare" /\ i \in 1..Len(rows) /\ rows[i] \in Row
  BY <1>1, AtRow
<1>3. CASE SetStatus(i, "failed") /\ NextRow(p, i)
  <2>1. (Trouble \/ NoTrouble) /\ \E t \in Settled : Sets(i, t)
    BY <1>1, <1>2, <1>3, StatusSet
  <2> QED BY <1>1, <1>3, <2>1, LeaveRow
<1>4. CASE /\ files[rows[i].path] # Nil /\ NoTrouble /\ UNCHANGED rows
           /\ batch' = [batch EXCEPT ![p].pc = "compare", ![p].hash = files[rows[i].path]]
  <2>1. PICK c \in Pictures : c = files[rows[i].path]
    BY <1>2, <1>4 DEF Types, Row
  <2>2. batch' = [batch EXCEPT ![p] = [pc |-> "compare", todo |-> batch[p].todo, hash |-> c]]
    <3>1. batch[p] \in BatchType
      BY <1>2 DEF Types
    <3>2. PICK n : n = [batch[p] EXCEPT !.pc = "compare", !.hash = c]
      OBVIOUS
    <3>3. n = [pc |-> "compare", todo |-> batch[p].todo, hash |-> c]
      BY <3>1, <3>2 DEF BatchType
    <3>4. batch' = [batch EXCEPT ![p] = n]
      BY <1>2, <1>4, <2>1, <3>2 DEF Types
    <3> QED BY <3>3, <3>4
  <2>3. rows'[i].status = "processing" /\ rows'[i].status # "pending"
    BY <1>2, <1>4 DEF Todo
  <2>4. \E u \in Status \ {"pending"} : Sets(i, u)
    BY <1>1, <1>2, <1>4, StatusSet
  <2>5. Stays(p, i, "compare", c)
    BY <1>1, <1>4, <2>1, <2>2, <2>3, <2>4 DEF Stays
  <2> QED BY <1>1, <2>1, <2>5, StayAtRow
<1> QED BY <1>3, <1>4 DEF PrepareImage

LEMMA ComparePictureStep ==
    ASSUME QueueInv, NEW p \in Procs, NEW i, ComparePicture(p, i)
    PROVE  QueueInv'
<1>1. /\ At(p, "compare", i) /\ "compare" \in BatchPc \ {"idle", "mark"}
      /\ "remove" \in BatchPc \ {"idle", "next"} /\ "analyze" \in BatchPc \ {"idle", "next"}
      /\ "duplicate" \in Status \ {"pending"}
      /\ UNCHANGED <<files, images, up, scan, adding, accepted>>
  BY DEF ComparePicture, BatchPc, Status, disk
<1>2. Types /\ Todo(p, i) /\ First(p, i) /\ batch[p].pc = "compare" /\ i \in 1..Len(rows)
  BY <1>1, AtRow
<1>3. batch[p].hash \in Pictures /\ files[rows[i].path] = batch[p].hash /\ rows[i].status = "processing"
  BY <1>2 DEF Todo
<1>4. CASE Similar(batch[p].hash) /\ SetStatus(i, "duplicate") /\ GoOn(p, "remove")
  <2>1. batch' = [batch EXCEPT ![p] = [pc |-> "remove", todo |-> batch[p].todo, hash |-> batch[p].hash]]
    BY <1>1, <1>2, <1>4, GoOnBatch
  <2>2. (Trouble \/ NoTrouble) /\ rows'[i].status # "pending"
    BY <1>1, <1>2, <1>3, <1>4, StatusSet
  <2>3. \E u \in Status \ {"pending"} : Sets(i, u)
    BY <1>1, <1>2, <1>4, StatusSet
  <2>4. Stays(p, i, "remove", batch[p].hash)
    BY <1>1, <1>3, <1>4, <2>1, <2>2, <2>3 DEF Stays
  <2> QED BY <1>1, <1>3, <2>4, StayAtRow
<1>5. CASE GoOn(p, "analyze") /\ (NoTrouble \/ Trouble) /\ UNCHANGED rows
  <2>1. batch' = [batch EXCEPT ![p] = [pc |-> "analyze", todo |-> batch[p].todo, hash |-> batch[p].hash]]
    BY <1>1, <1>2, <1>5, GoOnBatch
  <2>2. rows'[i].status = "processing" /\ rows'[i].status # "pending"
    BY <1>3, <1>5
  <2>3. \E u \in Status \ {"pending"} : Sets(i, u)
    BY <1>1, <1>2, <1>5, StatusSet
  <2>4. Stays(p, i, "analyze", batch[p].hash)
    BY <1>1, <1>3, <1>5, <2>1, <2>2, <2>3 DEF Stays
  <2> QED BY <1>1, <1>3, <2>4, StayAtRow
<1> QED BY <1>4, <1>5 DEF ComparePicture

LEMMA RemoveSimilarStep ==
    ASSUME QueueInv, NEW p \in Procs, NEW i, RemoveSimilar(p, i)
    PROVE  QueueInv'
<1>1. /\ At(p, "remove", i) /\ "remove" \in BatchPc \ {"idle"} /\ "remove" \in Before
      /\ UNCHANGED <<images, rows, up, scan, adding, accepted>> /\ NoTrouble /\ NextRow(p, i)
  BY DEF RemoveSimilar, BatchPc, Before, NoTrouble
<1>2. \/ UNCHANGED files
      \/ files' = [files EXCEPT ![rows[i].path] = Nil] /\ rows[i].path \in Staged
  BY DEF RemoveSimilar
<1>3. \E t \in Settled : Sets(i, t)
  BY <1>1 DEF Sets, Settled
<1> QED BY <1>1, <1>2, <1>3, LeaveRow

LEMMA AnalyzeImageStep ==
    ASSUME QueueInv, NEW p \in Procs, NEW i, AnalyzeImage(p, i)
    PROVE  QueueInv'
<1>1. /\ At(p, "analyze", i) /\ "analyze" \in BatchPc \ {"idle", "mark"}
      /\ "save" \in BatchPc \ {"idle", "next"} /\ "keep" \in BatchPc \ {"idle", "next"}
      /\ "failed" \in Status \ {"pending"}
      /\ UNCHANGED <<files, images, up, scan, adding, accepted>>
  BY DEF AnalyzeImage, BatchPc, Status, disk
<1>2. Types /\ Todo(p, i) /\ First(p, i) /\ batch[p].pc = "analyze" /\ i \in 1..Len(rows) /\ rows[i] \in Row
  BY <1>1, AtRow
<1>3. batch[p].hash \in Pictures /\ files[rows[i].path] = batch[p].hash /\ rows[i].status = "processing"
  BY <1>2 DEF Todo
<1>4. CASE GoOn(p, "save") /\ NoTrouble /\ UNCHANGED rows
  <2>1. batch' = [batch EXCEPT ![p] = [pc |-> "save", todo |-> batch[p].todo, hash |-> batch[p].hash]]
    BY <1>1, <1>2, <1>4, GoOnBatch
  <2>2. rows'[i].status = "processing" /\ rows'[i].status # "pending"
    BY <1>3, <1>4
  <2>3. \E u \in Status \ {"pending"} : Sets(i, u)
    BY <1>1, <1>2, <1>4, StatusSet
  <2>4. Stays(p, i, "save", batch[p].hash)
    BY <1>1, <1>3, <1>4, <2>1, <2>2, <2>3 DEF Stays
  <2> QED BY <1>1, <1>3, <2>4, StayAtRow
<1>5. CASE Trouble /\ rows' = [rows EXCEPT ![i].status = "failed"] /\ GoOn(p, "keep")
  <2>1. batch' = [batch EXCEPT ![p] = [pc |-> "keep", todo |-> batch[p].todo, hash |-> batch[p].hash]]
    BY <1>1, <1>2, <1>5, GoOnBatch
  <2>2. Sets(i, "failed")
    BY <1>5 DEF Sets
  <2>3. rows'[i].status # "pending"
    BY <1>1, <1>2, <1>3, <2>2, RowsTypes
  <2>4. Stays(p, i, "keep", batch[p].hash)
    BY <1>1, <1>3, <1>5, <2>1, <2>2, <2>3 DEF Stays
  <2> QED BY <1>1, <1>3, <2>4, StayAtRow
<1> QED BY <1>4, <1>5 DEF AnalyzeImage

LEMMA KeepUnanalyzedStep ==
    ASSUME QueueInv, NEW p \in Procs, NEW i, KeepUnanalyzed(p, i)
    PROVE  QueueInv'
<1>1. /\ At(p, "keep", i) /\ "keep" \in BatchPc \ {"idle"} /\ "keep" \in Before /\ NextRow(p, i)
      /\ UNCHANGED <<files, rows, up, scan, adding, accepted>> /\ (Trouble \/ NoTrouble)
  BY DEF KeepUnanalyzed, BatchPc, Before
<1>2. Todo(p, i) /\ First(p, i) /\ batch[p].pc = "keep"
  BY <1>1, AtRow
<1>3. batch[p].hash \in Pictures /\ files[rows[i].path] = batch[p].hash
  BY <1>2 DEF Todo
<1>4. \/ images' = images
      \/ images[batch[p].hash] = Nil /\ images' = [images EXCEPT ![batch[p].hash] = rows[i].path]
  BY DEF KeepUnanalyzed, Listed
<1>5. \E t \in Settled : Sets(i, t)
  BY <1>1 DEF Sets, Settled
<1> QED BY <1>1, <1>3, <1>4, <1>5, LeaveRow

LEMMA SaveImageStep ==
    ASSUME QueueInv, NEW p \in Procs, NEW i, SaveImage(p, i)
    PROVE  QueueInv'
<1>1. /\ At(p, "save", i) /\ "save" \in BatchPc \ {"idle", "mark"} /\ "save" \in BatchPc \ {"idle"}
      /\ "save" \in Before /\ "mark" \in BatchPc \ {"idle", "next"}
      /\ "failed" \in Settled /\ "failed" \in Status \ {"pending"}
      /\ UNCHANGED <<files, up, scan, adding, accepted>>
  BY DEF SaveImage, BatchPc, Before, Settled, Status
<1>2. Types /\ Todo(p, i) /\ First(p, i) /\ batch[p].pc = "save" /\ i \in 1..Len(rows)
  BY <1>1, AtRow
<1>3. batch[p].hash \in Pictures /\ files[rows[i].path] = batch[p].hash /\ rows[i].status = "processing"
  BY <1>2 DEF Todo
<1>4. CASE /\ images[batch[p].hash] = Nil /\ Listed(batch[p].hash, rows[i].path)
           /\ GoOn(p, "mark") /\ NoTrouble /\ UNCHANGED rows
  <2>1. batch' = [batch EXCEPT ![p] = [pc |-> "mark", todo |-> batch[p].todo, hash |-> batch[p].hash]]
    BY <1>1, <1>2, <1>4, GoOnBatch
  <2>2. rows'[i].status = "processing" /\ rows'[i].status # "pending"
    BY <1>3, <1>4
  <2>3. \E u \in Status \ {"pending"} : Sets(i, u)
    BY <1>1, <1>2, <1>4, StatusSet
  <2>4. images' = [images EXCEPT ![batch[p].hash] = rows[i].path]
    BY <1>4 DEF Listed
  <2>5. Stays(p, i, "mark", batch[p].hash)
    BY <1>1, <1>3, <1>4, <2>1, <2>2, <2>3, <2>4, <1>2 DEF Stays, Before
  <2> QED BY <1>1, <1>3, <2>5, StayAtRow
<1>5. CASE /\ SetStatus(i, "failed") \/ (Trouble /\ rows' = [rows EXCEPT ![i].status = "failed"])
           /\ NextRow(p, i) /\ UNCHANGED images
  <2>1. Sets(i, "failed") /\ (Trouble \/ NoTrouble)
    BY <1>1, <1>2, <1>5, StatusSet DEF Sets
  <2> QED BY <1>1, <1>5, <2>1, LeaveRow
<1> QED BY <1>4, <1>5 DEF SaveImage

LEMMA MarkDoneStep ==
    ASSUME QueueInv, NEW p \in Procs, NEW i, MarkDone(p, i)
    PROVE  QueueInv'
<1>1. /\ At(p, "mark", i) /\ "mark" \in BatchPc \ {"idle"} /\ "done" \in Settled /\ "done" \in Status
      /\ SetStatus(i, "done") /\ NextRow(p, i) /\ UNCHANGED <<files, images, up, scan, adding, accepted>>
  BY DEF MarkDone, BatchPc, Settled, Status, disk
<1>2. i \in 1..Len(rows)
  BY <1>1, AtRow
<1>3. Sets(i, "done") /\ (Trouble \/ NoTrouble)
  BY <1>1, <1>2, StatusSet
<1> QED BY <1>1, <1>3, LeaveRow

-----------------------------------------------------------------------------
(* Batches begin and end, processes start and die.                         *)

LEMMA ProcessNowStep ==
    ASSUME QueueInv, NEW p \in Procs, ProcessNow(p)
    PROVE  QueueInv'
<1>1. Types /\ p \in up /\ batch[p].pc = "idle" /\ UNCHANGED <<disk, rows, up, scan, adding, accepted, trouble>>
      /\ (p = "cli" => scan = {} /\ ~Active("cli"))
  BY DEF QueueInv, ProcessNow, ReadyToProcess, Active
<1>2. PICK e : e = [pc |-> "next", todo |-> PendingList, hash |-> Nil]
  OBVIOUS
<1>3. /\ e \in BatchType /\ e.pc = "next"
      /\ \A j \in e.todo : j \in 1..Len(rows) /\ rows[j].status = "pending"
  BY <1>2 DEF BatchType, BatchPc, PendingList, Pending
<1>4. /\ batch' \in [Procs -> BatchType] /\ batch'[p] = e
      /\ \A q \in Procs : q # p => batch'[q] = batch[q]
  BY <1>1, <1>2, <1>3, BatchTypes DEF ProcessNow
<1>5. up = {p} /\ \A q \in Procs : q # p => batch[q].pc = "idle"
  BY <1>1 DEF QueueInv, Running
<1>6. Types'
  BY <1>1, <1>4 DEF Types, disk
<1>7. Running'
  BY <1>1, <1>3, <1>4, <1>5 DEF QueueInv, Running, Active, Procs
<1>8. Scanning' /\ LibraryFiles'
  BY <1>1, <1>3, <1>4, <1>5 DEF QueueInv, Scanning, LibraryFiles, Free, disk, Procs
<1>9. (\A a \in Actors : Held(a)') /\ \A h \in Handlers : Own(h)'
  BY <1>1 DEF QueueInv, Held, Own, Active, Free, Queued, disk
<1>10. ASSUME NEW q \in Procs, NEW j \in batch'[q].todo PROVE Todo(q, j)'
  <2>1. CASE q = p
    BY <1>1, <1>3, <1>4, <2>1 DEF Todo
  <2>2. CASE q # p
    BY <1>4, <1>5, <2>2 DEF QueueInv, Todo
  <2> QED BY <2>1, <2>2
<1>11. \A j : ~Taken(j)'
  BY <1>3, <1>4, <1>5 DEF Taken, Before
<1>12. RowsApart' /\ RowsNew'
  BY <1>1, <1>11 DEF QueueInv, RowsApart, RowsNew, Live, Ahead, Free, disk
<1> QED BY <1>6, <1>7, <1>8, <1>9, <1>10, <1>12 DEF QueueInv

\* The end of processes: what they did not do is not done.
LEMMA Leaving ==
    ASSUME QueueInv, UNCHANGED <<disk, rows, accepted>>, Types', Running', Scanning',
           \A a \in Actors : adding'[a] \in {adding[a], NotAdding},
           \A q \in Procs : batch'[q] \in {batch[q], NoBatch}
    PROVE  QueueInv'
<1>1. \A a \in Actors : Held(a)'
  BY DEF QueueInv, Held, Active, NotAdding, Queued, disk
<1>2. \A h \in Handlers : Own(h)'
  <2> SUFFICES ASSUME NEW h \in Handlers PROVE Own(h)'
    OBVIOUS
  <2>1. h \in Actors /\ Own(h)
    BY DEF QueueInv, Actors
  <2>2. \A b \in Actors : adding'[b].pc # "idle" => adding'[b] = adding[b]
    BY DEF NotAdding
  <2> QED BY <2>1, <2>2 DEF Own, Active, Free, disk
<1>3. ASSUME NEW q \in Procs, NEW j \in batch'[q].todo PROVE Todo(q, j)'
  <2>1. batch'[q] = batch[q] /\ Todo(q, j)
    BY <1>3 DEF QueueInv, NoBatch
  <2> QED BY <2>1 DEF Todo, First, Similar, disk
<1>4. \A j : Taken(j)' => Taken(j)
  BY DEF Taken, First, NoBatch, Before
<1>5. RowsApart' /\ RowsNew'
  BY <1>4 DEF QueueInv, RowsApart, RowsNew, Live, Ahead, Free, disk
<1> QED BY <1>1, <1>2, <1>3, <1>5 DEF QueueInv, LibraryFiles, disk

LEMMA FinishBatchStep ==
    ASSUME QueueInv, NEW p \in Procs, FinishBatch(p)
    PROVE  QueueInv'
<1>1. Types /\ batch[p].pc = "next" /\ UNCHANGED <<disk, rows, scan, adding, accepted, trouble>>
      /\ up' = up \ ({p} \cap {"cli"})
  BY DEF QueueInv, FinishBatch
<1>2. /\ p \in up /\ up = {p} /\ \A q \in Procs : q # p => batch[q].pc = "idle" /\ batch[q].todo = {}
      /\ ~Active("cli") /\ (p = "cli" => \A a \in Actors : ~Active(a))
  BY <1>1, AloneBatch
<1>3. batch' \in [Procs -> BatchType] /\ batch'[p] = NoBatch /\ \A q \in Procs : q # p => batch'[q] = batch[q]
  <2>1. NoBatch \in BatchType
    BY DEF NoBatch, BatchType, BatchPc
  <2> QED BY <1>1, <2>1, BatchTypes DEF FinishBatch
<1>4. Types'
  BY <1>1, <1>3 DEF Types, disk
<1>5. \A q \in Procs : batch'[q].pc = "idle"
  BY <1>2, <1>3 DEF NoBatch
<1>6. scan # {} => FALSE
  BY <1>1, <1>2, AloneCommand
<1>7. Running'
  BY <1>1, <1>2, <1>5, <1>6 DEF QueueInv, Running, Active, Procs
<1>8. Scanning'
  BY <1>1, <1>2 DEF Scanning
<1> QED BY <1>1, <1>3, <1>4, <1>7, <1>8, Leaving

LEMMA EndWithoutBatchStep ==
    ASSUME QueueInv, EndWithoutBatch
    PROVE  QueueInv'
<1>1. Types /\ "cli" \in up /\ batch["cli"].pc = "idle" /\ scan = {} /\ ~Active("cli")
      /\ up' = up \ {"cli"} /\ UNCHANGED <<disk, rows, scan, adding, batch, accepted>> /\ (Trouble \/ NoTrouble)
  BY DEF QueueInv, EndWithoutBatch, ReadyToProcess, Active
<1>2. up = {"cli"}
  BY <1>1 DEF QueueInv, Running
<1>3. \A a \in Actors : ~Active(a)
  BY <1>1, <1>2 DEF QueueInv, Running, ProcOf
<1>4. Types'
  BY <1>1, TroubleType DEF Types, disk
<1>5. Running' /\ Scanning'
  BY <1>1, <1>2, <1>3 DEF QueueInv, Running, Scanning, Active, Procs
<1> QED BY <1>1, <1>4, <1>5, Leaving

\* At most one process: they are the same.
LEMMA OneUp ==
    ASSUME NEW S, S \subseteq Procs, Cardinality(S) <= 1
    PROVE  \A p, q \in S : p = q
<1> SUFFICES ASSUME NEW p \in S, NEW q \in S, p # q PROVE FALSE
  OBVIOUS
<1>1. IsFiniteSet({p}) /\ Cardinality({p}) = 1
  BY FS_Singleton
<1>2. Cardinality({p} \cup {q}) = 2
  <2>1. Cardinality({p} \cup {q}) = IF q \in {p} THEN Cardinality({p}) ELSE Cardinality({p}) + 1
    BY <1>1, FS_AddElement, Zenon
  <2> QED BY <1>1, <2>1
<1>3. S = {p} \cup {q}
  BY DEF Procs
<1> QED BY <1>2, <1>3

LEMMA StartStep ==
    ASSUME QueueInv, OneProcess', FirstScan, NEW p \in Procs, Start(p)
    PROVE  QueueInv'
<1>1. Types /\ p \notin up /\ up' = up \cup {p} /\ UNCHANGED <<disk, rows, adding, batch, accepted, trouble>>
  BY DEF QueueInv, Start
<1>2. scan' \subseteq Staged /\ (p # "cli" => scan' = scan)
  <2>1. Uploads \subseteq Staged
    BY DEF Uploads
  <2>2. IF p = "cli" THEN scan' = Uploads ELSE scan' = scan
    BY DEF Start
  <2> QED BY <1>1, <2>1, <2>2 DEF Types
<1>3. up' \subseteq Procs /\ \A q, r \in up' : q = r
  <2>1. up' \subseteq Procs
    BY <1>1 DEF Types
  <2>2. Cardinality(up') <= 1
    BY DEF OneProcess
  <2> QED BY <2>1, <2>2, OneUp
<1>4. up = {}
  BY <1>1, <1>3
<1>5. Types'
  BY <1>1, <1>2, <1>3 DEF Types, disk
<1>6. (\A a \in Actors : ~Active(a)) /\ (\A q \in Procs : batch[q].pc = "idle") /\ scan = {}
  BY <1>4 DEF QueueInv, Running
<1>7. Running'
  BY <1>1, <1>2, <1>3, <1>6 DEF Running, Active, Procs
<1>8. Scanning'
  BY <1>1, <1>4 DEF FirstScan, Scanning, Free, disk
<1> QED BY <1>1, <1>5, <1>7, <1>8, Leaving

LEMMA CrashStep ==
    ASSUME QueueInv, NEW p \in Procs, Crash(p)
    PROVE  QueueInv'
<1>1. Types /\ p \in up /\ Trouble /\ up' = up \ {p} /\ UNCHANGED <<disk, rows, accepted>>
      /\ scan' = (IF p = "cli" THEN {} ELSE scan)
      /\ adding' = [a \in Actors |-> IF ProcOf(a) = p THEN NotAdding ELSE adding[a]]
      /\ batch' = [batch EXCEPT ![p] = NoBatch]
  BY DEF QueueInv, Crash
<1>2. up = {p}
  BY <1>1 DEF QueueInv, Running
<1>3. NotAdding \in AddingType /\ NoBatch \in BatchType
  BY DEF NotAdding, NoBatch, AddingType, BatchType, AddPc, BatchPc
<1>4. batch' \in [Procs -> BatchType] /\ batch'[p] = NoBatch /\ \A q \in Procs : q # p => batch'[q] = batch[q]
  BY <1>1, <1>3, BatchTypes
<1>5. adding' \in [Actors -> AddingType] /\ \A a \in Actors : adding'[a] \in {adding[a], NotAdding}
  BY <1>1, <1>3 DEF Types
<1>6. Types'
  BY <1>1, <1>4, <1>5, TroubleType DEF Types, disk
<1>7. \A a \in Actors : adding'[a].pc = "idle"
  BY <1>1, <1>2 DEF QueueInv, Running, Active, NotAdding
<1>8. \A q \in Procs : batch'[q].pc = "idle"
  BY <1>2, <1>4 DEF QueueInv, Running, NoBatch
<1>9. scan' = {}
  BY <1>1, <1>2 DEF QueueInv, Running
<1>10. Running' /\ Scanning'
  BY <1>1, <1>2, <1>7, <1>8, <1>9 DEF Running, Scanning, Active, Procs
<1> QED BY <1>1, <1>4, <1>5, <1>6, <1>10, Leaving

LEMMA RowInv ==
    ASSUME QueueInv, Marked', NEW p \in Procs, NEW i, RowStep(p, i)
    PROVE  QueueInv'
BY MarkProcessingStep, PrepareImageStep, ComparePictureStep, RemoveSimilarStep, AnalyzeImageStep,
   KeepUnanalyzedStep, SaveImageStep, MarkDoneStep DEF RowStep

LEMMA AddInv ==
    ASSUME QueueInv, QueueRead, NEW a \in Actors, AddStep(a)
    PROVE  QueueInv'
BY HashUploadStep, LookupLibraryStep, LookupQueueStep, InsertPendingStep, DropUploadStep DEF AddStep

LEMMA QueueStep == QueueInv /\ [Next /\ Careful]_vars => QueueInv'
<1> SUFFICES ASSUME QueueInv, [Next /\ Careful]_vars PROVE QueueInv'
  OBVIOUS
<1>1. CASE UNCHANGED vars
  BY <1>1 DEF vars, disk, QueueInv, Types, Running, Scanning, LibraryFiles, Held, Own, Todo, RowsApart, RowsNew,
              Live, Ahead, Taken, First, Free, Active, Queued, Similar
<1>2. CASE Next /\ Careful
  <2>1. OneProcess' /\ FirstScan /\ FreshNames /\ QueueRead /\ Marked'
    BY <1>2 DEF Careful
  <2>2. ASSUME NEW h \in Handlers, Receive(h) PROVE QueueInv'
    BY <2>1, <2>2, ReceiveStep
  <2>3. CASE IngestFile \/ ScanFile \/ EndWithoutBatch
    BY <2>3, IngestFileStep, ScanFileStep, EndWithoutBatchStep
  <2>4. ASSUME NEW a \in Actors, AddStep(a) PROVE QueueInv'
    BY <2>1, <2>4, AddInv
  <2>5. ASSUME NEW p \in Procs, ProcessNow(p) \/ BatchStep(p) \/ Start(p) \/ Crash(p) PROVE QueueInv'
    BY <2>1, <2>5, ProcessNowStep, FinishBatchStep, RowInv, StartStep, CrashStep DEF BatchStep
  <2> QED BY <1>2, <2>2, <2>3, <2>4, <2>5 DEF Next
<1> QED BY <1>1, <1>2

(***************************************************************************)
(* The file of a picture of the library stays where it is, with its bytes, *)
(* whatever uploads, batches, errors and deaths come (AddUpload, its       *)
(* callers and processUpload).                                             *)
(***************************************************************************)
THEOREM LibraryStays == CarefulSpec => []LibraryFiles
<1>1. QueueInv => LibraryFiles
  BY DEF QueueInv
<1> QED BY <1>1, InitQueue, QueueStep, PTL DEF CarefulSpec

-----------------------------------------------------------------------------
(* Settled rows need one process at a time and nothing else: whatever      *)
(* names repeat, whatever calls fail and whatever the library holds.       *)

AloneSpec == Init /\ [][Next /\ OneProcess']_vars

Named(a) ==
    /\ Active(a) => adding[a].path \in Paths
    /\ adding[a].pc \in {"library", "queue", "insert"} => adding[a].hash \in Pictures

\* A row that a batch has still to do is not settled.
Yet(p, i) ==
    /\ i \in 1..Len(rows)
    /\ ~First(p, i) \/ batch[p].pc = "next" => rows[i].status = "pending"
    /\ First(p, i) /\ batch[p].pc \in {"prepare", "compare", "analyze", "save", "mark"} =>
           rows[i].status \in {"pending", "processing"}

OneBatch ==
    /\ \A p, q \in up : p = q
    /\ \A p \in Procs : batch[p].pc # "idle" => p \in up
    /\ \A p \in Procs : batch[p].pc = "idle" => batch[p].todo = {}

AloneInv ==
    /\ Types /\ OneBatch
    /\ \A a \in Actors : Named(a)
    /\ \A p \in Procs : \A i \in batch[p].todo : Yet(p, i)

LEMMA InitAlone == Init => AloneInv
<1> SUFFICES ASSUME Init PROVE AloneInv
  OBVIOUS
<1>1. OneBatch
  BY DEF Init, OneBatch, NoBatch
<1>2. \A a \in Actors : Named(a)
  BY DEF Init, Named, Active, NotAdding
<1>3. \A p \in Procs : \A i \in batch[p].todo : Yet(p, i)
  BY DEF Init, NoBatch
<1> QED BY <1>1, <1>2, <1>3, InitTypes DEF AloneInv

\* A row that comes leaves the others as they are.
LEMMA RowsGrow ==
    ASSUME Types, NEW r \in Row, rows' = Append(rows, r)
    PROVE  /\ rows' \in Seq(Row) /\ Len(rows') = Len(rows) + 1
           /\ \A j \in 1..Len(rows) : rows'[j] = rows[j]
BY DEF Types

\* Neither actors nor the command's scan disturb a batch.
LEMMA AloneActors ==
    ASSUME AloneInv, UNCHANGED <<up, batch>>,
           Types', \A a \in Actors : Named(a)',
           rows' = rows \/ \E r \in Row : rows' = Append(rows, r)
    PROVE  AloneInv'
<1>1. Types /\ Len(rows) \in Nat
  BY DEF AloneInv, Types
<1>2. Len(rows') >= Len(rows) /\ Len(rows') \in Nat /\ \A j \in 1..Len(rows) : rows'[j] = rows[j]
  BY <1>1, RowsGrow
<1>3. OneBatch'
  BY DEF AloneInv, OneBatch
<1>4. ASSUME NEW p \in Procs, NEW i \in batch'[p].todo PROVE Yet(p, i)'
  <2>1. Yet(p, i)
    BY <1>4 DEF AloneInv
  <2>2. i \in 1..Len(rows') /\ rows'[i] = rows[i]
    BY <1>1, <1>2, <2>1 DEF Yet
  <2> QED BY <2>1, <2>2 DEF Yet, First
<1> QED BY <1>3, <1>4 DEF AloneInv

\* How an actor moves on, and what it is called.
LEMMA NamedMoves ==
    ASSUME Types, \A b \in Actors : Named(b), NEW a \in Actors
    PROVE  /\ \A p \in Paths : Begin(a, p) => \A b \in Actors : Named(b)'
           /\ Return(a) => \A b \in Actors : Named(b)'
           /\ Active(a) /\ Refused(a) => \A b \in Actors : Named(b)'
           /\ \A s \in AddPc : Active(a) /\ Goto(a, s)
                  /\ (s \in {"library", "queue", "insert"} => adding[a].hash \in Pictures)
                      => \A b \in Actors : Named(b)'
<1>1. ASSUME NEW n \in AddingType, adding' = [adding EXCEPT ![a] = n],
             n.pc # "idle" => n.path \in Paths,
             n.pc \in {"library", "queue", "insert"} => n.hash \in Pictures
      PROVE  \A b \in Actors : Named(b)'
  BY <1>1 DEF Types, Named, Active
<1>2. ASSUME NEW p \in Paths, Begin(a, p) PROVE \A b \in Actors : Named(b)'
  <2>1. [pc |-> "hash", path |-> p, hash |-> Nil] \in AddingType
    BY DEF AddingType, AddPc
  <2> QED BY <1>1, <1>2, <2>1 DEF Begin
<1>3. ASSUME Return(a) PROVE \A b \in Actors : Named(b)'
  <2>1. NotAdding \in AddingType /\ NotAdding.pc = "idle"
    BY DEF AddingType, AddPc, NotAdding
  <2> QED BY <1>1, <1>3, <2>1 DEF Return
<1>4. ASSUME NEW s \in AddPc, Active(a), Goto(a, s),
             s \in {"library", "queue", "insert"} => adding[a].hash \in Pictures
      PROVE  \A b \in Actors : Named(b)'
  <2>1. adding[a] \in AddingType /\ adding[a].path \in Paths
    BY <1>4 DEF Types, Named
  <2>2. PICK n : n = [adding[a] EXCEPT !.pc = s]
    OBVIOUS
  <2>3. n \in AddingType /\ n.pc = s /\ n.path = adding[a].path /\ n.hash = adding[a].hash
    BY <2>1, <2>2 DEF AddingType
  <2>4. adding' = [adding EXCEPT ![a] = n]
    BY <1>4, <2>2 DEF Goto, Types
  <2> QED BY <1>1, <1>4, <2>1, <2>3, <2>4
<1>5. ASSUME Active(a), Refused(a) PROVE \A b \in Actors : Named(b)'
  BY <1>3, <1>4, <1>5 DEF Refused, AddPc
<1> QED BY <1>2, <1>3, <1>4, <1>5

LEMMA AloneComes ==
    ASSUME AloneInv, (\E h \in Handlers : Receive(h)) \/ IngestFile \/ ScanFile
    PROVE  AloneInv'
<1>1. Types /\ \A b \in Actors : Named(b)
  BY DEF AloneInv
<1>2. ASSUME NEW h \in Handlers, Receive(h) PROVE AloneInv'
  <2>1. h \in Actors /\ UNCHANGED <<images, rows, up, scan, batch, accepted>>
    BY <1>2 DEF Actors, Receive
  <2>2. PICK p \in Staged :
          \/ (\E c \in Pictures : files' = [files EXCEPT ![p] = c]) /\ Begin(h, p) /\ NoTrouble
          \/ (\E c \in Broken : files' = [files EXCEPT ![p] = c]) /\ Trouble /\ UNCHANGED adding
    BY <1>2 DEF Receive
  <2>3. p \in Paths /\ files' \in [Paths -> Pictures \cup {Nil}] /\ (Trouble \/ NoTrouble)
    <3>1. p \in Paths /\ (Trouble \/ NoTrouble)
      BY <2>2 DEF Paths
    <3>2. PICK c \in Pictures : files' = [files EXCEPT ![p] = c]
      BY <2>2, PicturesAssumption
    <3> QED BY <1>1, <3>1, <3>2, FilesTypes
  <2>4. adding' \in [Actors -> AddingType]
    BY <1>1, <2>1, <2>2, <2>3, AddingTypes DEF Types
  <2>5. Types'
    BY <1>1, <2>1, <2>3, <2>4, TroubleType DEF Types
  <2>6. \A b \in Actors : Named(b)'
    <3>1. CASE Begin(h, p)
      BY <1>1, <2>1, <2>3, <3>1, NamedMoves
    <3>2. CASE UNCHANGED adding
      BY <1>1, <3>2 DEF Named, Active
    <3> QED BY <2>2, <3>1, <3>2
  <2> QED BY <2>1, <2>5, <2>6, AloneActors
<1>3. CASE IngestFile
  <2>1. PICK p \in Folder : Begin("folder", p)
    BY <1>3 DEF IngestFile
  <2>2. p \in Paths /\ "folder" \in Actors /\ UNCHANGED <<disk, rows, up, scan, batch, accepted, trouble>>
    BY <1>3 DEF IngestFile, Paths, Actors
  <2>3. Types'
    BY <1>1, <2>1, <2>2, AddingTypes DEF Types, disk
  <2>4. \A b \in Actors : Named(b)'
    BY <1>1, <2>1, <2>2, NamedMoves
  <2> QED BY <2>2, <2>3, <2>4, AloneActors
<1>4. CASE ScanFile
  <2>1. PICK p \in scan : Begin("cli", p) /\ scan' = scan \ {p}
    BY <1>4 DEF ScanFile
  <2>2. p \in Paths /\ "cli" \in Actors /\ UNCHANGED <<disk, rows, up, batch, accepted, trouble>>
    BY <1>1, <1>4 DEF ScanFile, Types, Paths, Actors
  <2>3. Types'
    BY <1>1, <2>1, <2>2, AddingTypes DEF Types, disk
  <2>4. \A b \in Actors : Named(b)'
    BY <1>1, <2>1, <2>2, NamedMoves
  <2> QED BY <2>2, <2>3, <2>4, AloneActors
<1> QED BY <1>2, <1>3, <1>4

LEMMA AloneAdds ==
    ASSUME AloneInv, NEW a \in Actors, AddStep(a)
    PROVE  AloneInv'
<1>1. Types /\ (\A b \in Actors : Named(b)) /\ Named(a) /\ Active(a) /\ adding[a] \in AddingType
      /\ adding[a].path \in Paths /\ UNCHANGED <<up, scan, batch>>
  BY DEF AloneInv, Types, AddStep, HashUpload, LookupLibrary, LookupQueue, InsertPending, DropUpload, Active, Named
<1>2. Trouble \/ NoTrouble
  BY DEF AddStep, HashUpload, LookupLibrary, LookupQueue, InsertPending, DropUpload, NoTrouble
<1>3. adding[a].pc \in {"library", "queue", "insert"} => adding[a].hash \in Pictures
  BY <1>1 DEF Named
<1>4. rows' = rows \/ \E r \in Row : rows' = Append(rows, r)
  <2>1. CASE rows' = Append(rows, [path |-> images[adding[a].hash], hash |-> adding[a].hash, status |-> "duplicate"])
             /\ images[adding[a].hash] # Nil /\ adding[a].pc = "library"
    BY <1>1, <1>3, <2>1 DEF Types, Row, Status
  <2>2. CASE rows' = Append(rows, [path |-> adding[a].path, hash |-> adding[a].hash, status |-> "pending"])
             /\ adding[a].pc = "insert"
    BY <1>1, <1>3, <2>2 DEF Row, Status
  <2> QED BY <2>1, <2>2 DEF AddStep, HashUpload, LookupLibrary, LookupQueue, InsertPending, DropUpload
<1>5. files' \in [Paths -> Pictures \cup {Nil}] /\ images' = images
  BY <1>1, FilesTypes DEF AddStep, HashUpload, LookupLibrary, LookupQueue, InsertPending, DropUpload, Types, disk
<1>6. accepted' \subseteq Pictures
  BY <1>1, <1>3 DEF AddStep, HashUpload, LookupLibrary, LookupQueue, InsertPending, DropUpload, Types
<1>7. \/ Refused(a) \/ Return(a)
      \/ \E s \in AddPc : Goto(a, s) /\ (s \in {"library", "queue", "insert"} => adding[a].hash \in Pictures)
      \/ /\ files[adding[a].path] \in Pictures
         /\ adding' = [adding EXCEPT ![a].pc = "library", ![a].hash = files[adding[a].path]]
  <2>1. CASE HashUpload(a)
    BY <1>1, <2>1 DEF HashUpload, Types
  <2>2. CASE LookupLibrary(a)
    <3>1. adding[a].hash \in Pictures /\ {"drop", "queue"} \subseteq AddPc
      BY <1>3, <2>2 DEF LookupLibrary, AddPc
    <3> QED BY <2>2, <3>1 DEF LookupLibrary
  <2>3. CASE LookupQueue(a)
    <3>1. adding[a].hash \in Pictures /\ "insert" \in AddPc
      BY <1>3, <2>3 DEF LookupQueue, AddPc
    <3> QED BY <2>3, <3>1 DEF LookupQueue
  <2>4. CASE InsertPending(a) \/ DropUpload(a)
    BY <2>4 DEF InsertPending, DropUpload
  <2> QED BY <2>1, <2>2, <2>3, <2>4 DEF AddStep
<1>8. adding' \in [Actors -> AddingType] /\ \A b \in Actors : Named(b)'
  <2>1. CASE Refused(a) \/ Return(a)
    BY <1>1, <2>1, AddingTypes, NamedMoves
  <2>2. CASE \E s \in AddPc : Goto(a, s) /\ (s \in {"library", "queue", "insert"} => adding[a].hash \in Pictures)
    BY <1>1, <2>2, AddingTypes, NamedMoves
  <2>3. CASE /\ files[adding[a].path] \in Pictures
             /\ adding' = [adding EXCEPT ![a].pc = "library", ![a].hash = files[adding[a].path]]
    <3>1. PICK n : n = [adding[a] EXCEPT !.pc = "library", !.hash = files[adding[a].path]]
      OBVIOUS
    <3>2. n \in AddingType /\ n.path \in Paths /\ n.hash \in Pictures
      BY <1>1, <2>3, <3>1 DEF AddingType, AddPc
    <3>3. adding' = [adding EXCEPT ![a] = n]
      BY <1>1, <2>3, <3>1 DEF Types
    <3> QED BY <1>1, <3>2, <3>3 DEF Types, Named, Active
  <2> QED BY <1>7, <2>1, <2>2, <2>3
<1>9. rows' \in Seq(Row)
  BY <1>1, <1>4, RowsGrow DEF Types
<1>10. Types'
  BY <1>1, <1>2, <1>5, <1>6, <1>8, <1>9, TroubleType DEF Types
<1> QED BY <1>1, <1>4, <1>8, <1>10, AloneActors

\* A batch that goes on with the row it is at, or leaves it.
LEMMA AloneMoves ==
    ASSUME AloneInv, NEW p \in Procs, batch[p].pc # "idle", NEW i, First(p, i),
           Types', UNCHANGED <<up, scan, adding>>, NEW u \in Status, Sets(i, u),
           \/ NextRow(p, i)
           \/ \E s \in BatchPc \ {"idle", "next"} :
                 /\ batch'[p].pc = s /\ batch'[p].todo = batch[p].todo
                 /\ \A q \in Procs : q # p => batch'[q] = batch[q]
                 /\ s \in {"prepare", "compare", "analyze", "save", "mark"} =>
                        rows'[i].status \in {"pending", "processing"}
    PROVE  AloneInv'
<1>1. Types /\ Yet(p, i) /\ i \in 1..Len(rows)
  BY DEF AloneInv, First, Yet
<1>2. /\ Len(rows') = Len(rows)
      /\ \A j \in 1..Len(rows) : j # i => rows'[j] = rows[j]
  BY <1>1, RowsTypes
<1>3. up = {p} /\ \A q \in Procs : q # p => batch[q].pc = "idle" /\ batch[q].todo = {}
  BY DEF AloneInv, OneBatch
<1>4. \A j : First(p, j) => j = i
  BY <1>1 DEF AloneInv, First, Yet
<1>5. \A a \in Actors : Named(a)'
  BY DEF AloneInv, Named, Active
<1>6. /\ \A q \in Procs : q # p => batch'[q] = batch[q]
      /\ batch'[p].pc # "idle"
      /\ \/ batch'[p].pc = "next" /\ batch'[p].todo = batch[p].todo \ {i}
         \/ /\ batch'[p].pc # "next" /\ batch'[p].todo = batch[p].todo
            /\ batch'[p].pc \in {"prepare", "compare", "analyze", "save", "mark"} =>
                   rows'[i].status \in {"pending", "processing"}
  <2>1. CASE NextRow(p, i)
    <3>1. /\ batch'[p] = [pc |-> "next", todo |-> batch[p].todo \ {i}, hash |-> Nil]
          /\ \A q \in Procs : q # p => batch'[q] = batch[q]
      BY <1>1, <2>1, BatchTypes
    <3> QED BY <3>1
  <2>2. CASE ~NextRow(p, i)
    BY <2>2
  <2> QED BY <2>1, <2>2
<1>7. OneBatch'
  BY <1>3, <1>6 DEF AloneInv, OneBatch
<1>8. ASSUME NEW q \in Procs, NEW j \in batch'[q].todo PROVE Yet(q, j)'
  <2>1. q = p /\ j \in batch[p].todo /\ Yet(p, j)
    BY <1>3, <1>6, <1>8 DEF AloneInv
  <2>2. CASE j # i
    <3>1. ~First(p, j)
      BY <1>4, <2>2
    <3>2. rows'[j].status = "pending" /\ j \in 1..Len(rows')
      BY <1>2, <2>1, <2>2, <3>1 DEF Yet
    <3>3. First(p, j)' => batch'[p].pc = "next"
      BY <1>6, <2>1, <3>1 DEF First
    <3> QED BY <2>1, <3>2, <3>3 DEF Yet
  <2>3. CASE j = i
    <3>1. batch'[p].pc # "next" /\ batch'[p].todo = batch[p].todo
      BY <1>6, <1>8, <2>1, <2>3
    <3>2. First(p, i)'
      BY <3>1 DEF First
    <3> QED BY <1>1, <1>2, <1>6, <2>1, <2>3, <3>1, <3>2 DEF Yet
  <2> QED BY <2>2, <2>3
<1> QED BY <1>5, <1>7, <1>8 DEF AloneInv

LEMMA AloneRow ==
    ASSUME AloneInv, NEW p \in Procs, NEW i, RowStep(p, i)
    PROVE  AloneInv'
<1>1. PICK s \in BatchPc \ {"idle"} : At(p, s, i)
  BY DEF RowStep, MarkProcessing, PrepareImage, ComparePicture, RemoveSimilar, AnalyzeImage,
         KeepUnanalyzed, SaveImage, MarkDone, BatchPc
<1>2. batch[p].pc = s /\ First(p, i) /\ Yet(p, i) /\ Types /\ i \in 1..Len(rows) /\ batch[p].pc # "idle"
  BY <1>1 DEF At, First, AloneInv, Yet
<1>3. rows[i] \in Row /\ rows[i].path \in Paths /\ batch[p] \in BatchType
  BY <1>2, RowsTypes DEF Types, Row
<1>4. UNCHANGED <<up, scan, adding, accepted>>
  BY DEF RowStep, MarkProcessing, PrepareImage, ComparePicture, RemoveSimilar, AnalyzeImage,
         KeepUnanalyzed, SaveImage, MarkDone
<1>5. Trouble \/ NoTrouble
  BY DEF RowStep, MarkProcessing, PrepareImage, ComparePicture, RemoveSimilar, AnalyzeImage,
         KeepUnanalyzed, SaveImage, MarkDone, SetStatus, NoTrouble
<1>6. files' \in [Paths -> Pictures \cup {Nil}]
  <2>1. files' = files \/ files' = [files EXCEPT ![rows[i].path] = Nil]
    BY DEF RowStep, MarkProcessing, PrepareImage, ComparePicture, RemoveSimilar, AnalyzeImage,
           KeepUnanalyzed, SaveImage, MarkDone, disk
  <2> QED BY <1>2, <1>3, <2>1 DEF Types
<1>7. images' \in [Pictures -> Paths \cup {Nil}]
  <2>1. images' = images \/ images' = [images EXCEPT ![batch[p].hash] = rows[i].path]
    BY DEF RowStep, MarkProcessing, PrepareImage, ComparePicture, RemoveSimilar, AnalyzeImage,
           KeepUnanalyzed, SaveImage, MarkDone, disk, Listed
  <2> QED BY <1>2, <1>3, <2>1 DEF Types
<1>8. /\ \E u \in Status : Sets(i, u)
      /\ \/ NextRow(p, i)
         \/ /\ \E t \in {"remove", "keep"} : GoOn(p, t)
         \/ /\ \E t \in BatchPc \ {"idle", "next"} : GoOn(p, t)
            /\ \E u \in {"pending", "processing"} : rows'[i].status = u
         \/ /\ batch' = [batch EXCEPT ![p].pc = "compare", ![p].hash = files[rows[i].path]]
            /\ files[rows[i].path] \in Pictures /\ rows'[i].status \in {"pending", "processing"}
  <2>1. s \in {"next", "prepare", "compare", "analyze", "save", "mark"} => rows[i].status \in {"pending", "processing"}
    BY <1>2 DEF Yet
  <2>2. \A u \in Status : SetStatus(i, u) => Sets(i, u) /\ rows'[i].status \in {rows[i].status, u}
    BY <1>2, RowsTypes
  <2>3. "failed" \in Status /\ "duplicate" \in Status /\ "done" \in Status /\ "processing" \in Status
    BY DEF Status
  <2>4. \A u \in Status : (UNCHANGED rows => Sets(i, u)) /\ (rows' = [rows EXCEPT ![i].status = u] => Sets(i, u))
    BY DEF Sets
  <2>5. CASE MarkProcessing(p, i)
    <3>1. rows'[i].status \in {"pending", "processing"} /\ Sets(i, "processing") /\ GoOn(p, "prepare")
      BY <1>1, <1>2, <2>1, <2>2, <2>3, <2>5 DEF MarkProcessing, At
    <3> QED BY <2>3, <3>1 DEF BatchPc
  <2>6. CASE PrepareImage(p, i)
    <3>1. CASE SetStatus(i, "failed") /\ NextRow(p, i)
      BY <2>2, <2>3, <3>1
    <3>2. CASE /\ files[rows[i].path] # Nil /\ UNCHANGED rows
               /\ batch' = [batch EXCEPT ![p].pc = "compare", ![p].hash = files[rows[i].path]]
      <4>1. s = "prepare"
        BY <1>2, <2>6 DEF PrepareImage, At
      <4>2. files[rows[i].path] \in Pictures
        BY <1>2, <1>3, <3>2 DEF Types
      <4> QED BY <2>1, <2>3, <2>4, <3>2, <4>1, <4>2
    <3> QED BY <2>6, <3>1, <3>2 DEF PrepareImage
  <2>7. CASE ComparePicture(p, i)
    <3>1. s = "compare" /\ "analyze" \in BatchPc \ {"idle", "next"}
      BY <1>2, <2>7 DEF ComparePicture, At, BatchPc
    <3> QED BY <2>1, <2>2, <2>3, <2>4, <2>7, <3>1 DEF ComparePicture
  <2>8. CASE RemoveSimilar(p, i) \/ KeepUnanalyzed(p, i)
    BY <2>3, <2>4, <2>8 DEF RemoveSimilar, KeepUnanalyzed
  <2>9. CASE AnalyzeImage(p, i)
    <3>1. s = "analyze" /\ "save" \in BatchPc \ {"idle", "next"}
      BY <1>2, <2>9 DEF AnalyzeImage, At, BatchPc
    <3> QED BY <2>1, <2>3, <2>4, <2>9, <3>1 DEF AnalyzeImage
  <2>10. CASE SaveImage(p, i)
    <3>1. s = "save" /\ "mark" \in BatchPc \ {"idle", "next"}
      BY <1>2, <2>10 DEF SaveImage, At, BatchPc
    <3> QED BY <2>1, <2>2, <2>3, <2>4, <2>10, <3>1 DEF SaveImage
  <2>11. CASE MarkDone(p, i)
    BY <2>2, <2>3, <2>11 DEF MarkDone
  <2> QED BY <2>5, <2>6, <2>7, <2>8, <2>9, <2>10, <2>11 DEF RowStep
<1>9. PICK u \in Status : Sets(i, u)
  BY <1>8
<1>10. rows' \in Seq(Row)
  BY <1>2, <1>9, RowsTypes
<1>11. /\ batch' \in [Procs -> BatchType]
       /\ \/ NextRow(p, i)
          \/ \E t \in BatchPc \ {"idle", "next"} :
                /\ batch'[p].pc = t /\ batch'[p].todo = batch[p].todo
                /\ \A q \in Procs : q # p => batch'[q] = batch[q]
                /\ t \in {"prepare", "compare", "analyze", "save", "mark"} =>
                       rows'[i].status \in {"pending", "processing"}
  <2>1. CASE NextRow(p, i)
    BY <1>2, <2>1, BatchTypes
  <2>2. CASE \E t \in {"remove", "keep"} : GoOn(p, t)
    <3>1. PICK t \in {"remove", "keep"} : GoOn(p, t)
      BY <2>2
    <3>2. t \in BatchPc \ {"idle", "next"} /\ t \in BatchPc
      BY DEF BatchPc
    <3>3. /\ batch' \in [Procs -> BatchType]
          /\ batch'[p] = [pc |-> t, todo |-> batch[p].todo, hash |-> batch[p].hash]
          /\ \A q \in Procs : q # p => batch'[q] = batch[q]
      BY <1>2, <3>1, <3>2, BatchTypes
    <3> QED BY <3>2, <3>3
  <2>3. CASE /\ \E t \in BatchPc \ {"idle", "next"} : GoOn(p, t)
             /\ \E v \in {"pending", "processing"} : rows'[i].status = v
    <3>1. PICK t \in BatchPc \ {"idle", "next"} : GoOn(p, t)
      BY <2>3
    <3>2. /\ batch' \in [Procs -> BatchType]
          /\ batch'[p] = [pc |-> t, todo |-> batch[p].todo, hash |-> batch[p].hash]
          /\ \A q \in Procs : q # p => batch'[q] = batch[q]
      BY <1>2, <3>1, BatchTypes
    <3> QED BY <2>3, <3>2
  <2>4. CASE /\ batch' = [batch EXCEPT ![p].pc = "compare", ![p].hash = files[rows[i].path]]
             /\ files[rows[i].path] \in Pictures /\ rows'[i].status \in {"pending", "processing"}
    <3>1. PICK n : n = [batch[p] EXCEPT !.pc = "compare", !.hash = files[rows[i].path]]
      OBVIOUS
    <3>2. n \in BatchType /\ n.pc = "compare" /\ n.todo = batch[p].todo
      BY <1>3, <2>4, <3>1 DEF BatchType, BatchPc
    <3>3. batch' = [batch EXCEPT ![p] = n]
      BY <1>2, <2>4, <3>1 DEF Types
    <3>4. /\ batch' \in [Procs -> BatchType] /\ batch'[p] = n
          /\ \A q \in Procs : q # p => batch'[q] = batch[q]
      BY <1>2, <3>2, <3>3, BatchTypes
    <3> QED BY <2>4, <3>2, <3>4 DEF BatchPc
  <2> QED BY <1>8, <2>1, <2>2, <2>3, <2>4
<1>12. Types'
  BY <1>2, <1>4, <1>5, <1>6, <1>7, <1>10, <1>11, TroubleType DEF Types
<1> QED BY <1>2, <1>4, <1>9, <1>11, <1>12, AloneMoves

LEMMA AloneProcs ==
    ASSUME AloneInv, OneProcess', NEW p \in Procs,
           ProcessNow(p) \/ FinishBatch(p) \/ EndWithoutBatch \/ Start(p) \/ Crash(p)
    PROVE  AloneInv'
<1>1. Types /\ OneBatch /\ \A a \in Actors : Named(a)
  BY DEF AloneInv
<1>2. UNCHANGED <<disk, rows, accepted>> /\ (Trouble \/ NoTrouble)
  BY DEF ProcessNow, FinishBatch, EndWithoutBatch, Start, Crash, NoTrouble
<1>3. up' \subseteq Procs /\ \A q, r \in up' : q = r
  <2>1. up' \subseteq Procs
    BY <1>1 DEF Types, ProcessNow, FinishBatch, EndWithoutBatch, Start, Crash
  <2>2. Cardinality(up') <= 1
    BY DEF OneProcess
  <2> QED BY <2>1, <2>2, OneUp
<1>4. scan' \subseteq Staged
  BY <1>1 DEF Types, ProcessNow, FinishBatch, EndWithoutBatch, Start, Crash, Uploads
<1>5. NotAdding \in AddingType /\ NoBatch \in BatchType /\ NoBatch.pc = "idle" /\ NoBatch.todo = {}
  BY DEF NotAdding, NoBatch, AddingType, BatchType, AddPc, BatchPc
<1>6. adding' \in [Actors -> AddingType] /\ \A a \in Actors : adding'[a] \in {adding[a], NotAdding}
  <2>1. adding' = adding \/ adding' = [a \in Actors |-> IF ProcOf(a) = p THEN NotAdding ELSE adding[a]]
    BY DEF ProcessNow, FinishBatch, EndWithoutBatch, Start, Crash
  <2> QED BY <1>1, <1>5, <2>1 DEF Types
<1>7. \A a \in Actors : Named(a)'
  BY <1>1, <1>6 DEF Named, Active, NotAdding
<1>8. CASE ProcessNow(p)
  <2>1. PICK e : e = [pc |-> "next", todo |-> PendingList, hash |-> Nil]
    OBVIOUS
  <2>2. e \in BatchType /\ e.pc = "next" /\ \A j \in e.todo : j \in 1..Len(rows) /\ rows[j].status = "pending"
    BY <2>1 DEF BatchType, BatchPc, PendingList, Pending
  <2>3. batch' \in [Procs -> BatchType] /\ batch'[p] = e /\ \A q \in Procs : q # p => batch'[q] = batch[q]
    BY <1>1, <1>8, <2>1, <2>2, BatchTypes DEF ProcessNow
  <2>4. p \in up /\ up' = up
    BY <1>8 DEF ProcessNow, ReadyToProcess
  <2>5. OneBatch'
    BY <1>1, <2>2, <2>3, <2>4 DEF OneBatch
  <2>6. ASSUME NEW q \in Procs, NEW j \in batch'[q].todo PROVE Yet(q, j)'
    <3>1. CASE q = p
      BY <1>2, <2>2, <2>3, <2>6, <3>1 DEF Yet
    <3>2. CASE q # p
      BY <1>1, <2>3, <2>4, <2>6, <3>2 DEF OneBatch
    <3> QED BY <3>1, <3>2
  <2>7. Types'
    BY <1>1, <1>2, <1>3, <1>4, <1>6, <2>3, TroubleType DEF Types, disk
  <2> QED BY <1>7, <2>5, <2>6, <2>7 DEF AloneInv
<1>9. CASE ~ProcessNow(p)
  <2>1. /\ batch' \in [Procs -> BatchType]
        /\ \A q \in Procs : batch'[q] = batch[q] \/ (q = p /\ batch'[q] = NoBatch)
    <3>1. batch' = batch \/ batch' = [batch EXCEPT ![p] = NoBatch]
      BY <1>9 DEF FinishBatch, EndWithoutBatch, Start, Crash
    <3> QED BY <1>1, <1>5, <3>1 DEF Types
  <2>2. \A q \in Procs : batch'[q].pc # "idle" => q \in up'
    <3> SUFFICES ASSUME NEW q \in Procs, batch'[q].pc # "idle" PROVE q \in up'
      OBVIOUS
    <3>1. batch'[q] = batch[q] /\ q \in up
      BY <1>1, <1>5, <2>1 DEF OneBatch
    <3>2. CASE FinishBatch(p)
      BY <1>1, <1>5, <3>1, <3>2 DEF FinishBatch, Types
    <3>3. CASE EndWithoutBatch
      BY <3>1, <3>3 DEF EndWithoutBatch, ReadyToProcess
    <3>4. CASE Start(p)
      BY <3>1, <3>4 DEF Start
    <3>5. CASE Crash(p)
      BY <1>1, <1>5, <3>1, <3>5 DEF Crash, Types
    <3> QED BY <1>9, <3>2, <3>3, <3>4, <3>5
  <2>3. OneBatch'
    BY <1>1, <1>3, <1>5, <2>1, <2>2 DEF OneBatch
  <2>4. ASSUME NEW q \in Procs, NEW j \in batch'[q].todo PROVE Yet(q, j)'
    <3>1. batch'[q] = batch[q] /\ Yet(q, j)
      BY <1>5, <2>1, <2>4 DEF AloneInv
    <3> QED BY <1>2, <3>1 DEF Yet, First
  <2>5. Types'
    BY <1>1, <1>2, <1>3, <1>4, <1>6, <2>1, TroubleType DEF Types, disk
  <2> QED BY <1>7, <2>3, <2>4, <2>5 DEF AloneInv
<1> QED BY <1>8, <1>9

LEMMA AloneStep == AloneInv /\ [Next /\ OneProcess']_vars => AloneInv'
<1> SUFFICES ASSUME AloneInv, [Next /\ OneProcess']_vars PROVE AloneInv'
  OBVIOUS
<1>1. CASE UNCHANGED vars
  BY <1>1 DEF vars, disk, AloneInv, Types, OneBatch, Named, Active, Yet, First
<1>2. CASE Next /\ OneProcess'
  <2>1. CASE (\E h \in Handlers : Receive(h)) \/ IngestFile \/ ScanFile
    BY <2>1, AloneComes
  <2>2. CASE EndWithoutBatch
    BY <1>2, <2>2, AloneProcs DEF Procs
  <2>3. ASSUME NEW a \in Actors, AddStep(a) PROVE AloneInv'
    BY <2>3, AloneAdds
  <2>4. ASSUME NEW p \in Procs, ProcessNow(p) \/ BatchStep(p) \/ Start(p) \/ Crash(p) PROVE AloneInv'
    BY <1>2, <2>4, AloneProcs, AloneRow DEF BatchStep
  <2> QED BY <1>2, <2>1, <2>2, <2>3, <2>4 DEF Next
<1> QED BY <1>1, <1>2

LEMMA RowStays ==
    ASSUME AloneInv, NEW p \in Procs, NEW i, RowStep(p, i),
           NEW j \in 1..Len(rows), rows[j].status \in Settled
    PROVE  rows'[j] = rows[j]
<1>1. PICK s \in BatchPc \ {"idle"} : At(p, s, i) /\ batch[p].pc = s
  BY DEF RowStep, MarkProcessing, PrepareImage, ComparePicture, RemoveSimilar, AnalyzeImage,
         KeepUnanalyzed, SaveImage, MarkDone, At, BatchPc
<1>2. Types /\ First(p, i) /\ Yet(p, i) /\ i \in 1..Len(rows)
  BY <1>1 DEF AloneInv, At, First, Yet
<1>3. CASE rows' = rows
  BY <1>3
<1>4. CASE rows' # rows
  <2>1. s \in {"next", "prepare", "compare", "analyze", "save", "mark"}
    BY <1>1, <1>4 DEF RowStep, RemoveSimilar, KeepUnanalyzed, At, MarkProcessing, PrepareImage, ComparePicture,
                      AnalyzeImage, SaveImage, MarkDone
  <2>2. rows[i].status \in {"pending", "processing"}
    BY <1>1, <1>2, <2>1 DEF Yet
  <2>3. \E u \in Status : rows' = [rows EXCEPT ![i].status = u]
    BY <1>4 DEF RowStep, MarkProcessing, PrepareImage, ComparePicture, RemoveSimilar, AnalyzeImage,
                KeepUnanalyzed, SaveImage, MarkDone, SetStatus, Status
  <2>4. j # i
    BY <2>2 DEF Settled
  <2> QED BY <1>2, <2>3, <2>4, RowsTypes DEF Sets
<1> QED BY <1>3, <1>4

LEMMA SettledStep ==
    AloneInv /\ [Next /\ OneProcess']_vars
        => [\A i \in 1..Len(rows) : rows[i].status \in Settled => rows'[i] = rows[i]]_vars
<1> SUFFICES ASSUME AloneInv, Next, NEW j \in 1..Len(rows), rows[j].status \in Settled
             PROVE  rows'[j] = rows[j]
  OBVIOUS
<1>1. CASE rows' = rows
  BY <1>1
<1>2. ASSUME NEW a \in Actors, AddStep(a), rows' # rows PROVE rows'[j] = rows[j]
  <2>1. Types
    BY DEF AloneInv
  <2>2. \E r : rows' = Append(rows, r)
    BY <1>2 DEF AddStep, HashUpload, LookupLibrary, LookupQueue, InsertPending, DropUpload
  <2> QED BY <2>1, <2>2 DEF Types
<1>3. ASSUME NEW p \in Procs, BatchStep(p), rows' # rows PROVE rows'[j] = rows[j]
  <2>1. PICK i : RowStep(p, i)
    BY <1>3 DEF BatchStep, FinishBatch
  <2> QED BY <2>1, RowStays
<1>4. rows' = rows \/ (\E a \in Actors : AddStep(a)) \/ \E p \in Procs : BatchStep(p)
  BY DEF Next, Receive, IngestFile, ScanFile, EndWithoutBatch, ProcessNow, Start, Crash
<1> QED BY <1>1, <1>2, <1>3, <1>4

(***************************************************************************)
(* A row whose status is final is never touched again by a batch of either *)
(* process (processUpload), as long as one process runs at a time.         *)
(***************************************************************************)
THEOREM SettledKept == AloneSpec => SettledStays
<1> QED BY InitAlone, AloneStep, SettledStep, PTL DEF AloneSpec, SettledStays

-----------------------------------------------------------------------------
(* Turns: what QueueDrains needs of the steps.  Rows that arrive do not    *)
(* pass those that wait, a batch takes the rows that have waited longest,  *)
(* it comes to its end, and a row whose turn it is gets settled.           *)

\* How far a batch is with its first row, and the steps that it has left.
Stage(s) ==
    CASE s = "next" -> 6 [] s = "prepare" -> 5 [] s = "compare" -> 4
      [] s \in {"analyze", "remove"} -> 3 [] s \in {"save", "keep"} -> 2 [] s = "mark" -> 1
      [] OTHER -> 0
BatchLeft(p) == 6 * Cardinality(batch[p].todo) + Stage(batch[p].pc)

\* A batch has never more than its limit to do, and never a row to go on with
\* that is not there.
AtWork(p) ==
    /\ BatchLeft(p) \in 0..(6 * MaxPerBatch + 6)
    /\ batch[p].pc \in {"idle", "next"} \/ \E i \in 1..Len(rows) : At(p, batch[p].pc, i)

Older(i)      == {j \in Pending : j < i}
NoneOvertakes == \A i \in Pending : Older(i)' \subseteq Older(i)

\* A pending row is taken, or as many as there is room for are older.
TakesOldest(p) ==
    /\ batch'[p].todo \subseteq Pending
    /\ \A i \in Pending :
           i \in batch'[p].todo \/ Cardinality({j \in batch'[p].todo : j < i}) = MaxPerBatch

Turn(p) == BatchStep(p) \/ batch'[p] # batch[p] =>
    IF batch[p].pc = "idle" THEN TakesOldest(p) ELSE BatchLeft(p)' < BatchLeft(p)

\* Without a failing call the first row of a batch goes on until it is settled.
Undecided  == {"next", "prepare", "compare", "analyze", "save", "mark"}
OneTurn(p) == BatchStep(p) /\ trouble' = trouble =>
    \A i \in batch[p].todo : First(p, i) /\ batch[p].pc \in Undecided =>
        rows'[i].status \in Settled \/ (First(p, i)' /\ batch'[p].pc \in Undecided)

TurnInv == AloneInv /\ \A p \in Procs :
    /\ Cardinality(batch[p].todo) <= MaxPerBatch
    /\ batch[p].pc \notin {"idle", "next"} => batch[p].todo # {}
    /\ batch[p].pc = "idle" => batch[p] = NoBatch

\* A finite set of numbers has a greatest and a least one.
LEMMA Newest ==
    ASSUME NEW S, S \subseteq Int, IsFiniteSet(S), S # {}
    PROVE  \E x \in S : \A y \in S : y <= x
<1> DEFINE Over(x) == {y \in S : y > x}
           T == {Over(x) : x \in S}
<1>1. T \subseteq FiniteSubsetsOf(S) /\ T # {}
  <2>1. FiniteSubsetsOf(S) = SUBSET S
    BY FS_FiniteSubsetsOfFinite
  <2>2. T \subseteq SUBSET S
    OBVIOUS
  <2>3. T # {}
    <3>1. PICK x : x \in S
      OBVIOUS
    <3>2. Over(x) \in T
      BY <3>1
    <3> QED BY <3>2
  <2> HIDE DEF T
  <2> QED BY <2>1, <2>2, <2>3
<1>2. PICK t \in T : \A u \in T : ~(<<u, t>> \in StrictSubsetOrdering(S))
  <2> HIDE DEF T
  <2> QED BY <1>1, WFMin, FS_StrictSubsetOrderingWellFounded, Zenon
<1>3. PICK x \in S : t = Over(x)
  BY <1>2
<1>4. ASSUME NEW y \in S, y > x PROVE FALSE
  <2>1. Over(y) \subseteq t /\ y \in t /\ y \notin Over(y)
    <3>1. \A z \in Over(y) : z > x
      BY <1>4
    <3>2. Over(y) \subseteq Over(x)
      BY <3>1
    <3>3. y \in Over(x)
      BY <1>4
    <3>4. y \notin Over(y)
      OBVIOUS
    <3> QED BY <1>3, <3>2, <3>3, <3>4, Zenon
  <2>2. Over(y) \in T /\ Over(y) \in SUBSET S /\ t \in SUBSET S
    BY <1>3
  <2> QED BY <1>2, <2>1, <2>2 DEF StrictSubsetOrdering
<1> QED BY <1>4

LEMMA Least ==
    ASSUME NEW S, S \subseteq Int, IsFiniteSet(S), S # {}
    PROVE  \E x \in S : \A y \in S : x <= y
<1> DEFINE N == {-x : x \in S}
<1>1. IsFiniteSet(N)
  <2> DEFINE f == [x \in S |-> -x]
  <2>1. f \in Surjection(S, N)
    BY DEF Surjection
  <2> HIDE DEF f, N
  <2> QED BY <2>1, FS_Surjection
<1>2. N \subseteq Int
  OBVIOUS
<1>3. N # {}
  <2>1. PICK x : x \in S
    OBVIOUS
  <2>2. -x \in N
    BY <2>1
  <2> QED BY <2>2
<1>4. PICK m \in N : \A n \in N : n <= m
  <2> HIDE DEF N
  <2> QED BY <1>1, <1>2, <1>3, Newest
<1>5. PICK x \in S : m = -x
  BY <1>4
<1>6. ASSUME NEW y \in S PROVE x <= y
  <2>1. -y \in N
    OBVIOUS
  <2>2. -y <= -x /\ x \in Int /\ y \in Int
    BY <1>4, <1>5, <2>1
  <2> QED BY ONLY <2>2
<1> QED BY <1>6

\* What GetPendingList returns: the oldest rows, as many as a batch may have.
LEMMA OldestFirst ==
    ASSUME Types
    PROVE  /\ PendingList \subseteq Pending /\ IsFiniteSet(Pending) /\ Pending \subseteq 1..Len(rows)
           /\ Cardinality(PendingList) <= MaxPerBatch
           /\ \A i \in Pending : i \in PendingList \/ Cardinality({j \in PendingList : j < i}) = MaxPerBatch
<1>1. Len(rows) \in Nat /\ MaxPerBatch \in Nat /\ MaxPerBatch > 0
  BY BoundsAssumption DEF Types
<1>2. PendingList \subseteq Pending /\ Pending \subseteq 1..Len(rows) /\ IsFiniteSet(1..Len(rows))
  BY <1>1, FS_Interval DEF PendingList, Pending
<1>3. /\ \A S \in SUBSET Pending : IsFiniteSet(S) /\ Cardinality(S) \in Nat
      /\ \A S, T \in SUBSET Pending : S \subseteq T => Cardinality(S) <= Cardinality(T)
  <2>1. IsFiniteSet(Pending)
    BY <1>2, FS_Subset
  <2>2. \A S \in SUBSET Pending : IsFiniteSet(S)
    BY <2>1, FS_Subset
  <2> QED BY <2>2, FS_Subset, FS_CardinalityType
<1>4. \A i : i \in PendingList <=> i \in Pending /\ Cardinality(Older(i)) < MaxPerBatch
  BY DEF PendingList, Older
<1>5. Cardinality(PendingList) <= MaxPerBatch
  <2>1. CASE PendingList = {}
    BY <1>1, <2>1, FS_EmptySet
  <2>2. CASE PendingList # {}
    <3>1. PICK m \in PendingList : \A j \in PendingList : j <= m
      <4>1. PendingList \subseteq Int /\ IsFiniteSet(PendingList)
        BY <1>2, <1>3
      <4> QED BY <2>2, <4>1, Newest
    <3>2. PendingList \ {m} \subseteq Older(m) /\ Older(m) \in SUBSET Pending
      BY <1>2, <3>1 DEF Older
    <3>3. Cardinality(PendingList \ {m}) <= Cardinality(Older(m))
      BY <1>2, <1>3, <3>2
    <3>4. Cardinality(PendingList \ {m}) = Cardinality(PendingList) - 1
      BY <1>2, <1>3, <3>1, FS_RemoveElement
    <3>5. Cardinality(Older(m)) < MaxPerBatch
      BY <1>4, <3>1
    <3>6. Cardinality(PendingList) \in Nat /\ Cardinality(Older(m)) \in Nat
      BY <1>2, <1>3, <3>2
    <3> QED BY <1>1, <3>3, <3>4, <3>5, <3>6
  <2> QED BY <2>1, <2>2
<1>6. ASSUME NEW i \in Pending, i \notin PendingList
      PROVE  Cardinality({j \in PendingList : j < i}) = MaxPerBatch
  <2> DEFINE Taking == {j \in PendingList : j < i}
  <2>1. Taking \in SUBSET Pending /\ Taking \subseteq PendingList /\ PendingList \in SUBSET Pending
    BY <1>2
  <2>2. Cardinality(Taking) <= MaxPerBatch /\ Cardinality(Taking) \in Nat
    <3>1. Cardinality(Taking) <= Cardinality(PendingList) /\ Cardinality(Taking) \in Nat /\ Cardinality(PendingList) \in Nat
      BY <1>3, <2>1
    <3> QED BY <1>1, <1>5, <3>1
  <2>3. ASSUME Cardinality(Taking) < MaxPerBatch PROVE FALSE
    <3> DEFINE Left == Pending \ PendingList
    <3>1. PICK k \in Left : \A j \in Left : k <= j
      <4>1. Left \subseteq Int /\ IsFiniteSet(Left) /\ Left # {}
        BY <1>2, <1>3, <1>6
      <4> HIDE DEF Left
      <4> QED BY <4>1, Least
    <3>2. Older(k) \subseteq PendingList
      <4> SUFFICES ASSUME NEW j \in Older(k), j \notin PendingList PROVE FALSE
        OBVIOUS
      <4>1. j \in Left /\ j < k /\ j \in Int /\ k \in Int
        BY <1>2 DEF Older
      <4> QED BY <3>1, <4>1
    <3>3. k \in Pending /\ k <= i /\ k \in Int /\ i \in Int
      BY <1>2, <1>6, <3>1
    <3>4. Older(k) \subseteq Taking /\ Older(k) \in SUBSET Pending
      <4> SUFFICES ASSUME NEW j \in Older(k) PROVE j \in Taking
        BY DEF Older
      <4>1. j \in PendingList /\ j < k /\ j \in Int
        BY <1>2, <3>2 DEF Older
      <4> QED BY <3>3, <4>1
    <3>5. Cardinality(Older(k)) <= Cardinality(Taking) /\ Cardinality(Older(k)) \in Nat
      BY <1>3, <2>1, <3>4
    <3>6. Cardinality(Older(k)) < MaxPerBatch
      BY <1>1, <2>2, <2>3, <3>5
    <3> QED BY <1>4, <3>1, <3>6
  <2> QED BY <1>1, <2>2, <2>3
<1> QED BY <1>2, <1>3, <1>5, <1>6

\* How a step of a row moves its batch and its row.
Order(s, t) ==
    \/ s = "next" /\ t = "prepare"
    \/ s = "prepare" /\ t = "compare"
    \/ s = "compare" /\ t \in {"analyze", "remove"}
    \/ s = "analyze" /\ t \in {"save", "keep"}
    \/ s = "save" /\ t = "mark"

LEMMA RowTurn ==
    ASSUME AloneInv, NEW p \in Procs, NEW i, RowStep(p, i)
    PROVE  /\ First(p, i) /\ i \in 1..Len(rows) /\ batch[p].pc \in BatchPc \ {"idle"}
           /\ \A q \in Procs : q # p => batch'[q] = batch[q]
           /\ \/ /\ batch[p].pc # "next"
                 /\ batch'[p].pc = "next" /\ batch'[p].todo = batch[p].todo \ {i}
              \/ Order(batch[p].pc, batch'[p].pc) /\ batch'[p].todo = batch[p].todo
           /\ Len(rows') = Len(rows)
           /\ \A j \in 1..Len(rows) : rows'[j].status = "pending" => rows[j].status = "pending"
           /\ trouble' = trouble /\ batch[p].pc \in Undecided
                  => rows'[i].status \in Settled \/ batch'[p].pc \in Undecided \ {"next"}
<1>1. PICK s \in BatchPc \ {"idle"} : At(p, s, i) /\ batch[p].pc = s
  BY DEF RowStep, MarkProcessing, PrepareImage, ComparePicture, RemoveSimilar, AnalyzeImage,
         KeepUnanalyzed, SaveImage, MarkDone, At, BatchPc
<1>2. Types /\ First(p, i) /\ Yet(p, i) /\ i \in 1..Len(rows) /\ batch[p] \in BatchType
  BY <1>1 DEF AloneInv, At, First, Yet, Types
<1> DEFINE Moved(t) == /\ batch'[p].pc = t /\ batch'[p].todo = batch[p].todo
                       /\ \A q \in Procs : q # p => batch'[q] = batch[q]
           Left     == /\ batch'[p].pc = "next" /\ batch'[p].todo = batch[p].todo \ {i}
                       /\ \A q \in Procs : q # p => batch'[q] = batch[q]
<1>3. (\A t \in BatchPc : GoOn(p, t) => Moved(t)) /\ (NextRow(p, i) => Left)
  <2>1. ASSUME NEW t \in BatchPc, GoOn(p, t) PROVE Moved(t)
    <3>1. /\ batch'[p] = [pc |-> t, todo |-> batch[p].todo, hash |-> batch[p].hash]
          /\ \A q \in Procs : q # p => batch'[q] = batch[q]
      BY <1>2, <2>1, BatchTypes
    <3> QED BY <3>1
  <2>2. ASSUME NextRow(p, i) PROVE Left
    <3>1. /\ batch'[p] = [pc |-> "next", todo |-> batch[p].todo \ {i}, hash |-> Nil]
          /\ \A q \in Procs : q # p => batch'[q] = batch[q]
      BY <1>2, <2>2, BatchTypes
    <3> QED BY <3>1
  <2> QED BY <2>1, <2>2
<1>4. \A u \in Status \ {"pending"} : SetStatus(i, u) \/ UNCHANGED rows \/ rows' = [rows EXCEPT ![i].status = u] =>
          /\ Len(rows') = Len(rows)
          /\ \A j \in 1..Len(rows) : rows'[j].status = "pending" => rows[j].status = "pending"
  <2> SUFFICES ASSUME NEW u \in Status \ {"pending"},
                      SetStatus(i, u) \/ UNCHANGED rows \/ rows' = [rows EXCEPT ![i].status = u]
               PROVE  /\ Len(rows') = Len(rows)
                      /\ \A j \in 1..Len(rows) : rows'[j].status = "pending" => rows[j].status = "pending"
    OBVIOUS
  <2>1. Sets(i, u)
    BY DEF SetStatus, Sets
  <2>2. /\ Len(rows') = Len(rows) /\ rows'[i].status \in {rows[i].status, u}
        /\ \A j \in 1..Len(rows) : j # i => rows'[j] = rows[j]
    BY <1>2, <2>1, RowsTypes
  <2> QED BY <2>2
<1>5. \A u \in Status : (trouble' = trouble /\ SetStatus(i, u)) \/ rows' = [rows EXCEPT ![i].status = u] =>
          rows'[i].status = u
  <2> SUFFICES ASSUME NEW u \in Status, rows' = [rows EXCEPT ![i].status = u] PROVE rows'[i].status = u
    <3>1. ~(Trouble /\ trouble' = trouble)
      BY <1>2 DEF Trouble, Types
    <3> QED BY <3>1 DEF SetStatus
  <2>1. rows \in Seq(Row) /\ rows[i] \in Row
    BY <1>2, RowsTypes DEF Types
  <2>2. PICK r : r = [rows[i] EXCEPT !.status = u]
    OBVIOUS
  <2>3. rows' = [rows EXCEPT ![i] = r] /\ r.status = u
    BY <2>1, <2>2 DEF Row
  <2> QED BY <1>2, <2>1, <2>3
<1>6. /\ {"failed", "duplicate", "done"} \subseteq Settled /\ {"failed", "duplicate", "done", "processing"} \subseteq Status \ {"pending"}
      /\ Status \ {"pending"} \subseteq Status
      /\ {"prepare", "compare", "analyze", "remove", "save", "keep", "mark", "next"} \subseteq BatchPc
  BY DEF Settled, Status, BatchPc
<1>7. CASE MarkProcessing(p, i)
  <2>1. s = "next" /\ SetStatus(i, "processing") /\ GoOn(p, "prepare")
    BY <1>1, <1>7 DEF MarkProcessing, At
  <2>2. Moved("prepare")
    BY <1>3, <1>6, <2>1
  <2> QED BY <1>1, <1>2, <1>4, <1>6, <2>1, <2>2 DEF Order, Undecided
<1>8. CASE PrepareImage(p, i)
  <2>1. s = "prepare"
    BY <1>1, <1>8 DEF PrepareImage, At
  <2>2. CASE SetStatus(i, "failed") /\ NextRow(p, i)
    BY <1>1, <1>2, <1>3, <1>4, <1>5, <1>6, <2>1, <2>2
  <2>3. CASE UNCHANGED rows /\ batch' = [batch EXCEPT ![p].pc = "compare", ![p].hash = files[rows[i].path]]
    <3>1. Moved("compare")
      <4>1. PICK n : n = [batch[p] EXCEPT !.pc = "compare", !.hash = files[rows[i].path]]
        OBVIOUS
      <4>2. n.pc = "compare" /\ n.todo = batch[p].todo
        BY <1>2, <4>1 DEF BatchType
      <4>3. batch' = [batch EXCEPT ![p] = n]
        BY <1>2, <2>3, <4>1 DEF Types
      <4> QED BY <1>2, <4>2, <4>3 DEF Types
    <3> QED BY <1>1, <1>2, <1>4, <1>6, <2>1, <2>3, <3>1 DEF Order, Undecided
  <2> QED BY <1>8, <2>2, <2>3 DEF PrepareImage
<1>9. CASE ComparePicture(p, i)
  <2>1. s = "compare"
    BY <1>1, <1>9 DEF ComparePicture, At
  <2>2. CASE SetStatus(i, "duplicate") /\ GoOn(p, "remove")
    BY <1>1, <1>2, <1>3, <1>4, <1>5, <1>6, <2>1, <2>2 DEF Order
  <2>3. CASE UNCHANGED rows /\ GoOn(p, "analyze")
    BY <1>1, <1>2, <1>3, <1>4, <1>6, <2>1, <2>3 DEF Order, Undecided
  <2> QED BY <1>9, <2>2, <2>3 DEF ComparePicture
<1>10. CASE RemoveSimilar(p, i) \/ KeepUnanalyzed(p, i)
  <2>1. s \in {"remove", "keep"} /\ UNCHANGED rows /\ NextRow(p, i)
    BY <1>1, <1>10 DEF RemoveSimilar, KeepUnanalyzed, At
  <2> QED BY <1>1, <1>2, <1>3, <1>4, <1>6, <2>1 DEF Undecided
<1>11. CASE AnalyzeImage(p, i)
  <2>1. s = "analyze"
    BY <1>1, <1>11 DEF AnalyzeImage, At
  <2>2. CASE UNCHANGED rows /\ GoOn(p, "save")
    BY <1>1, <1>2, <1>3, <1>4, <1>6, <2>1, <2>2 DEF Order, Undecided
  <2>3. CASE rows' = [rows EXCEPT ![i].status = "failed"] /\ GoOn(p, "keep")
    BY <1>1, <1>2, <1>3, <1>4, <1>5, <1>6, <2>1, <2>3 DEF Order
  <2> QED BY <1>11, <2>2, <2>3 DEF AnalyzeImage
<1>12. CASE SaveImage(p, i)
  <2>1. s = "save"
    BY <1>1, <1>12 DEF SaveImage, At
  <2>2. CASE UNCHANGED rows /\ GoOn(p, "mark")
    BY <1>1, <1>2, <1>3, <1>4, <1>6, <2>1, <2>2 DEF Order, Undecided
  <2>3. CASE (SetStatus(i, "failed") \/ rows' = [rows EXCEPT ![i].status = "failed"]) /\ NextRow(p, i)
    BY <1>1, <1>2, <1>3, <1>4, <1>5, <1>6, <2>1, <2>3
  <2> QED BY <1>12, <2>2, <2>3 DEF SaveImage
<1>13. CASE MarkDone(p, i)
  <2>1. s = "mark" /\ SetStatus(i, "done") /\ NextRow(p, i)
    BY <1>1, <1>13 DEF MarkDone, At
  <2> QED BY <1>1, <1>2, <1>3, <1>4, <1>5, <1>6, <2>1
<1> QED BY <1>7, <1>8, <1>9, <1>10, <1>11, <1>12, <1>13 DEF RowStep

LEMMA Stages ==
    /\ \A s : Stage(s) \in 0..6
    /\ \A s \in BatchPc \ {"idle"} : Stage(s) > 0
    /\ \A s, t : Order(s, t) => Stage(t) < Stage(s) /\ t \notin {"idle", "next"}
    /\ Stage("next") = 6 /\ Stage("idle") = 0
<1>1. \A s \in BatchPc \ {"idle"} : Stage(s) > 0
  BY DEF Stage, BatchPc
<1>2. \A s, t : Order(s, t) => Stage(t) < Stage(s) /\ t \notin {"idle", "next"}
  BY DEF Stage, Order
<1> QED BY <1>1, <1>2 DEF Stage

\* What a batch has to do is finite, and its first row is there.
LEMMA TodoSet ==
    ASSUME TurnInv, NEW p \in Procs
    PROVE  /\ IsFiniteSet(batch[p].todo) /\ Cardinality(batch[p].todo) \in 0..MaxPerBatch
           /\ batch[p].todo \subseteq 1..Len(rows) /\ batch[p].pc \in BatchPc
           /\ batch[p].todo # {} => \E i \in 1..Len(rows) : First(p, i)
<1>1. Len(rows) \in Nat /\ MaxPerBatch \in Nat /\ batch[p].pc \in BatchPc
  BY BoundsAssumption DEF TurnInv, AloneInv, Types, BatchType
<1>2. batch[p].todo \subseteq 1..Len(rows)
  BY DEF TurnInv, AloneInv, Yet
<1>3. IsFiniteSet(batch[p].todo)
  <2>1. 1 \in Int /\ Len(rows) \in Int
    BY <1>1
  <2>2. IsFiniteSet(1..Len(rows))
    BY <2>1, FS_Interval
  <2> QED BY <1>2, <2>2, FS_Subset
<1>4. Cardinality(batch[p].todo) \in 0..MaxPerBatch
  <2>1. Cardinality(batch[p].todo) \in Nat
    BY <1>3, FS_CardinalityType
  <2>2. Cardinality(batch[p].todo) <= MaxPerBatch
    BY DEF TurnInv
  <2> QED BY <1>1, <2>1, <2>2
<1>5. ASSUME batch[p].todo # {} PROVE \E i \in 1..Len(rows) : First(p, i)
  <2>1. PICK i \in batch[p].todo : \A j \in batch[p].todo : i <= j
    BY <1>1, <1>2, <1>3, <1>5, Least
  <2> QED BY <1>2, <2>1 DEF First
<1> QED BY <1>1, <1>2, <1>3, <1>4, <1>5

LEMMA TurnAtWork == TurnInv => \A p \in Procs : AtWork(p)
<1> SUFFICES ASSUME TurnInv, NEW p \in Procs PROVE AtWork(p)
  OBVIOUS
<1>1. BatchLeft(p) \in 0..(6 * MaxPerBatch + 6)
  <2>1. PICK c : c = Cardinality(batch[p].todo)
    OBVIOUS
  <2>2. PICK d : d = Stage(batch[p].pc)
    OBVIOUS
  <2>3. c \in 0..MaxPerBatch /\ d \in 0..6 /\ MaxPerBatch \in Nat
    BY <2>1, <2>2, TodoSet, Stages, BoundsAssumption
  <2>4. 6 * c + d \in 0..(6 * MaxPerBatch + 6)
    BY ONLY <2>3
  <2> QED BY <2>1, <2>2, <2>4 DEF BatchLeft
<1>2. ASSUME batch[p].pc \notin {"idle", "next"} PROVE \E i \in 1..Len(rows) : At(p, batch[p].pc, i)
  <2>1. batch[p].todo # {}
    BY <1>2 DEF TurnInv
  <2> QED BY <2>1, TodoSet DEF First, At
<1> QED BY <1>1, <1>2 DEF AtWork

\* A step of a batch takes it nearer to its end.
LEMMA BatchFalls ==
    ASSUME TurnInv, NEW p \in Procs, BatchStep(p)
    PROVE  /\ batch[p].pc # "idle" /\ BatchLeft(p)' < BatchLeft(p)
           /\ \A q \in Procs : q # p => batch'[q] = batch[q]
           /\ Cardinality(batch'[p].todo) <= MaxPerBatch
           /\ batch'[p].pc \notin {"idle", "next"} => batch'[p].todo # {}
           /\ batch'[p].pc = "idle" => batch'[p] = NoBatch
<1>1. AloneInv /\ MaxPerBatch \in Nat
  BY BoundsAssumption DEF TurnInv
<1>2. CASE FinishBatch(p)
  <2>1. batch[p].pc = "next" /\ batch[p].todo = {} /\ batch'[p] = NoBatch
        /\ \A q \in Procs : q # p => batch'[q] = batch[q]
    BY <1>1, <1>2 DEF FinishBatch, AloneInv, Types
  <2>2. NoBatch.pc = "idle" /\ NoBatch.todo = {} /\ Cardinality({}) = 0
    BY FS_EmptySet DEF NoBatch
  <2>3. BatchLeft(p) = 6 /\ BatchLeft(p)' = 0
    BY <2>1, <2>2, Stages DEF BatchLeft
  <2> QED BY <1>1, <2>1, <2>2, <2>3
<1>3. ASSUME NEW i, RowStep(p, i)
      PROVE  /\ batch[p].pc # "idle" /\ BatchLeft(p)' < BatchLeft(p)
             /\ \A q \in Procs : q # p => batch'[q] = batch[q]
             /\ Cardinality(batch'[p].todo) <= MaxPerBatch
             /\ batch'[p].pc \notin {"idle", "next"} => batch'[p].todo # {}
             /\ batch'[p].pc = "idle" => batch'[p] = NoBatch
  <2>1. /\ First(p, i) /\ batch[p].pc \in BatchPc \ {"idle"}
        /\ \A q \in Procs : q # p => batch'[q] = batch[q]
        /\ \/ batch'[p].pc = "next" /\ batch'[p].todo = batch[p].todo \ {i}
           \/ Order(batch[p].pc, batch'[p].pc) /\ batch'[p].todo = batch[p].todo
    BY <1>1, <1>3, RowTurn
  <2>2. i \in batch[p].todo /\ IsFiniteSet(batch[p].todo) /\ Cardinality(batch[p].todo) \in 0..MaxPerBatch
    BY <2>1, TodoSet DEF First
  <2>3. PICK c : c = Cardinality(batch[p].todo)
    OBVIOUS
  <2>4. PICK d : d = Stage(batch[p].pc)
    OBVIOUS
  <2>5. c \in 0..MaxPerBatch /\ d \in 0..6 /\ d > 0
    BY <2>1, <2>2, <2>3, <2>4, Stages
  <2>6. CASE batch'[p].pc = "next" /\ batch'[p].todo = batch[p].todo \ {i}
    <3>1. Cardinality(batch'[p].todo) = c - 1
      <4>1. Cardinality(batch[p].todo \ {i}) = Cardinality(batch[p].todo) - 1
        BY <2>2, FS_RemoveElement, Zenon
      <4> QED BY <2>3, <2>6, <4>1
    <3>2. BatchLeft(p)' = 6 * (c - 1) + 6
      BY <2>6, <3>1, Stages DEF BatchLeft
    <3>3. 6 * (c - 1) + 6 < 6 * c + d /\ c - 1 <= MaxPerBatch
      BY ONLY <1>1, <2>5
    <3> QED BY <2>1, <2>3, <2>4, <2>6, <3>1, <3>2, <3>3 DEF BatchLeft
  <2>7. CASE Order(batch[p].pc, batch'[p].pc) /\ batch'[p].todo = batch[p].todo
    <3>1. PICK e : e = Stage(batch'[p].pc)
      OBVIOUS
    <3>2. e \in 0..6 /\ e < d /\ batch'[p].pc \notin {"idle", "next"}
      BY <2>4, <2>7, <3>1, Stages
    <3>3. 6 * c + e < 6 * c + d /\ c <= MaxPerBatch
      BY ONLY <1>1, <2>5, <3>2
    <3>4. BatchLeft(p)' = 6 * c + e
      BY <2>3, <2>7, <3>1 DEF BatchLeft
    <3>5. BatchLeft(p) = 6 * c + d
      BY <2>3, <2>4 DEF BatchLeft
    <3> QED BY <2>1, <2>2, <2>3, <2>7, <3>2, <3>3, <3>4, <3>5
  <2> QED BY <2>1, <2>6, <2>7
<1> QED BY <1>2, <1>3 DEF BatchStep

\* Otherwise a batch begins, ends in a crash, or is left alone.
LEMMA BatchMoves ==
    ASSUME TurnInv, Next, NEW p \in Procs
    PROVE  \/ BatchStep(p)
           \/ ProcessNow(p) /\ batch'[p] = [pc |-> "next", todo |-> PendingList, hash |-> Nil]
           \/ batch'[p] = batch[p]
           \/ batch'[p] = NoBatch
<1>1. batch \in [Procs -> BatchType]
  BY DEF TurnInv, AloneInv, Types
<1>2. ASSUME NEW q \in Procs, ProcessNow(q) PROVE
        batch'[p] = batch[p] \/ (q = p /\ batch'[p] = [pc |-> "next", todo |-> PendingList, hash |-> Nil])
  BY <1>1, <1>2 DEF ProcessNow
<1>3. ASSUME NEW q \in Procs, BatchStep(q) PROVE q = p \/ batch'[p] = batch[p]
  BY <1>3, BatchFalls
<1>4. ASSUME NEW q \in Procs, Crash(q) PROVE batch'[p] \in {batch[p], NoBatch}
  BY <1>1, <1>4 DEF Crash
<1>5. batch' = batch \/ \E q \in Procs : ProcessNow(q) \/ BatchStep(q) \/ Crash(q)
  BY DEF Next, Receive, IngestFile, ScanFile, EndWithoutBatch, Start, AddStep, HashUpload, LookupLibrary,
         LookupQueue, InsertPending, DropUpload
<1> QED BY <1>2, <1>3, <1>4, <1>5

LEMMA TurnStep == TurnInv /\ [Next /\ OneProcess']_vars => TurnInv'
<1> SUFFICES ASSUME TurnInv, [Next /\ OneProcess']_vars PROVE TurnInv'
  OBVIOUS
<1>1. AloneInv'
  BY AloneStep DEF TurnInv
<1>2. ASSUME NEW p \in Procs
      PROVE  /\ Cardinality(batch'[p].todo) <= MaxPerBatch
             /\ batch'[p].pc \notin {"idle", "next"} => batch'[p].todo # {}
             /\ batch'[p].pc = "idle" => batch'[p] = NoBatch
  <2>1. CASE batch'[p] = batch[p]
    BY <2>1 DEF TurnInv
  <2>2. CASE batch'[p] = NoBatch
    BY <2>2, FS_EmptySet, BoundsAssumption DEF NoBatch
  <2>3. CASE BatchStep(p)
    BY <2>3, BatchFalls
  <2>4. CASE batch'[p] = [pc |-> "next", todo |-> PendingList, hash |-> Nil]
    <3>1. Types
      BY DEF TurnInv, AloneInv
    <3>2. Cardinality(PendingList) <= MaxPerBatch
      BY <3>1, OldestFirst
    <3> QED BY <2>4, <3>2
  <2>5. CASE UNCHANGED vars
    BY <2>1, <2>5 DEF vars
  <2> QED BY <2>1, <2>2, <2>3, <2>4, <2>5, BatchMoves
<1> QED BY <1>1, <1>2 DEF TurnInv

\* No step makes a row wait that did not.
LEMMA RowsWait ==
    ASSUME TurnInv, Next
    PROVE  NoneOvertakes
<1>1. Types /\ AloneInv /\ Len(rows) \in Nat
  BY DEF TurnInv, AloneInv, Types
<1>2. /\ Len(rows) <= Len(rows')
      /\ \A j \in 1..Len(rows) : rows'[j].status = "pending" => rows[j].status = "pending"
  <2>1. CASE rows' = rows
    BY <1>1, <2>1
  <2>2. ASSUME NEW a \in Actors, AddStep(a), rows' # rows
        PROVE  /\ Len(rows) <= Len(rows')
               /\ \A j \in 1..Len(rows) : rows'[j].status = "pending" => rows[j].status = "pending"
    <3>1. \E r : rows' = Append(rows, r)
      BY <2>2 DEF AddStep, HashUpload, LookupLibrary, LookupQueue, InsertPending, DropUpload
    <3> QED BY <1>1, <3>1 DEF Types
  <2>3. ASSUME NEW p \in Procs, NEW i, RowStep(p, i)
        PROVE  /\ Len(rows) <= Len(rows')
               /\ \A j \in 1..Len(rows) : rows'[j].status = "pending" => rows[j].status = "pending"
    <3>1. /\ Len(rows') = Len(rows)
          /\ \A j \in 1..Len(rows) : rows'[j].status = "pending" => rows[j].status = "pending"
      BY <1>1, <2>3, RowTurn
    <3> QED BY <1>1, <3>1
  <2>4. rows' = rows \/ (\E a \in Actors : AddStep(a)) \/ \E p \in Procs : \E i \in 1..Len(rows) : RowStep(p, i)
    BY DEF Next, Receive, IngestFile, ScanFile, EndWithoutBatch, ProcessNow, Start, Crash, BatchStep, FinishBatch
  <2> QED BY <2>1, <2>2, <2>3, <2>4
<1>3. ASSUME NEW i \in Pending, NEW j \in Older(i)' PROVE j \in Older(i)
  <2>1. j \in 1..Len(rows') /\ rows'[j].status = "pending" /\ j < i /\ i \in 1..Len(rows)
    BY <1>3 DEF Older, Pending
  <2>2. j \in 1..Len(rows)
    BY <1>1, <1>2, <2>1
  <2> QED BY <1>2, <2>1, <2>2 DEF Older, Pending
<1> QED BY <1>3 DEF NoneOvertakes

LEMMA TurnTaken ==
    ASSUME TurnInv, Next, NEW p \in Procs
    PROVE  Turn(p) /\ OneTurn(p)
<1>1. Types /\ AloneInv
  BY DEF TurnInv, AloneInv
<1>2. Turn(p)
  <2>1. CASE BatchStep(p)
    BY <2>1, BatchFalls DEF Turn
  <2>2. CASE ~BatchStep(p) /\ batch'[p] = batch[p]
    BY <2>2 DEF Turn
  <2>3. CASE ProcessNow(p) /\ batch'[p] = [pc |-> "next", todo |-> PendingList, hash |-> Nil]
    <3>1. batch[p].pc = "idle" /\ batch'[p].todo = PendingList
      BY <2>3 DEF ProcessNow, ReadyToProcess
    <3>2. TakesOldest(p)
      BY <1>1, <3>1, OldestFirst DEF TakesOldest
    <3> QED BY <3>1, <3>2 DEF Turn
  <2>4. CASE ~BatchStep(p) /\ batch'[p] = NoBatch /\ batch'[p] # batch[p]
    <3>1. batch[p].pc \in BatchPc \ {"idle"}
      BY <2>4, TodoSet DEF TurnInv
    <3>2. BatchLeft(p)' = 0
      BY <2>4, FS_EmptySet, Stages DEF BatchLeft, NoBatch
    <3>3. Stage(batch[p].pc) \in 0..6 /\ Stage(batch[p].pc) > 0 /\ Cardinality(batch[p].todo) \in 0..MaxPerBatch
      BY <3>1, Stages, TodoSet
    <3>4. BatchLeft(p) > 0
      BY <3>3 DEF BatchLeft
    <3> QED BY <3>1, <3>2, <3>4 DEF Turn
  <2> QED BY <2>1, <2>2, <2>3, <2>4, BatchMoves
<1>3. OneTurn(p)
  <2> SUFFICES ASSUME BatchStep(p), trouble' = trouble, NEW i \in batch[p].todo, First(p, i),
                      batch[p].pc \in Undecided
               PROVE  rows'[i].status \in Settled \/ (First(p, i)' /\ batch'[p].pc \in Undecided)
    BY DEF OneTurn
  <2>1. PICK k \in 1..Len(rows) : RowStep(p, k)
    BY DEF BatchStep, FinishBatch
  <2>2. /\ First(p, k)
        /\ \/ batch'[p].pc = "next" /\ batch'[p].todo = batch[p].todo \ {k}
           \/ batch'[p].todo = batch[p].todo
        /\ rows'[k].status \in Settled \/ batch'[p].pc \in Undecided \ {"next"}
    BY <1>1, <2>1, RowTurn
  <2>3. k = i
    <3>1. i \in Int /\ k \in Int
      BY <2>1, TodoSet
    <3> QED BY <2>2, <3>1 DEF First
  <2> QED BY <2>2, <2>3 DEF First
<1> QED BY <1>2, <1>3

LEMMA InitTurn == Init => TurnInv
<1> SUFFICES ASSUME Init PROVE TurnInv
  OBVIOUS
<1>1. AloneInv
  BY InitAlone
<1>2. \A p \in Procs : batch[p] = NoBatch /\ batch[p].pc = "idle" /\ batch[p].todo = {}
  BY DEF Init, NoBatch
<1>3. Cardinality({}) <= MaxPerBatch
  BY FS_EmptySet, BoundsAssumption
<1> QED BY <1>1, <1>2, <1>3 DEF TurnInv

(***************************************************************************)
(* Rows get their turn (GetPendingList, ProcessNow, processUpload) as long *)
(* as one process runs at a time, whatever calls fail and whatever dies:   *)
(* rows that arrive later never pass one that waits; a batch that begins   *)
(* takes the row, or as many older ones as it has room for; every step of  *)
(* a batch leaves fewer of a bounded number of steps, and a batch at work  *)
(* has its next row; and without a failing call the row whose turn it is   *)
(* goes on until its status is final.  QueueDrains adds the fairness.      *)
(***************************************************************************)
THEOREM TurnsCome ==
    AloneSpec => /\ [](\A p \in Procs : AtWork(p))
                 /\ [][NoneOvertakes /\ \A p \in Procs : Turn(p) /\ OneTurn(p)]_vars
<1>1. TurnInv /\ [Next /\ OneProcess']_vars
          => [NoneOvertakes /\ \A p \in Procs : Turn(p) /\ OneTurn(p)]_vars
  BY RowsWait, TurnTaken
<1> QED BY <1>1, InitTurn, TurnStep, TurnAtWork, PTL DEF AloneSpec

-----------------------------------------------------------------------------
(* Accepted pictures: there is a file of it that no web upload is about to *)
(* give up, or the library has one like it.                                *)

Lasting(p) == \A h \in Handlers : Active(h) => adding[h].path # p
Given(c) == images[c] # Nil \/ (c \in alike /\ Similar(c))
Safe(c)  == Given(c) \/ \E p \in Paths : files[p] = c /\ Lasting(p)
KeptInv  == alike \subseteq Pictures /\ \A c \in accepted : Safe(c)

\* A file that lasts is left alone, or the library has its picture, or one like it.
LEMMA KeptMoves ==
    ASSUME QueueInv, KeptInv, accepted' = accepted, alike \subseteq alike', alike' \subseteq Pictures,
           \A d \in Pictures : images[d] # Nil => images'[d] = images[d],
           \A p \in Paths : files[p] \in Pictures /\ Lasting(p) =>
               \/ images[files[p]] # Nil
               \/ files[p] \in alike' /\ Similar(files[p])
               \/ files'[p] = files[p] /\ Lasting(p)'
    PROVE  KeptInv'
<1> SUFFICES ASSUME NEW c \in accepted PROVE Safe(c)'
  BY DEF KeptInv
<1>1. c \in Pictures /\ Safe(c)
  BY DEF QueueInv, Types, KeptInv
<1>2. Similar(c) => Similar(c)'
  BY DEF Similar
<1>3. (images[c] # Nil => images'[c] # Nil) /\ (c \in alike => c \in alike')
  BY <1>1
<1>4. Given(c) \/ (c \in alike' /\ Similar(c)) => Given(c)'
  BY <1>2, <1>3 DEF Given
<1>5. ASSUME NEW p \in Paths, files[p] = c, Lasting(p) PROVE Safe(c)'
  BY <1>1, <1>3, <1>4, <1>5 DEF Safe, Given
<1> QED BY <1>1, <1>4, <1>5 DEF Safe

\* An actor that goes on keeps its path, or returns.
LEMMA PathStays ==
    ASSUME Types, NEW a \in Actors, (\E s \in AddPc : Goto(a, s)) \/ Return(a) \/ Refused(a)
    PROVE  /\ \A b \in Actors : b # a => adding'[b] = adding[b]
           /\ adding'[a].path = adding[a].path \/ adding'[a].pc = "idle"
<1>1. ASSUME NEW s \in AddPc, Goto(a, s)
      PROVE  adding'[a].path = adding[a].path /\ \A b \in Actors : b # a => adding'[b] = adding[b]
  <2>1. PICK n : n = [pc |-> s, path |-> adding[a].path, hash |-> adding[a].hash]
    OBVIOUS
  <2>2. n.path = adding[a].path
    BY <2>1
  <2> QED BY <1>1, <2>1, <2>2, ActorStates
<1>2. ASSUME Return(a)
      PROVE  adding'[a].pc = "idle" /\ \A b \in Actors : b # a => adding'[b] = adding[b]
  <2>1. NotAdding.pc = "idle"
    BY DEF NotAdding
  <2> QED BY <1>2, <2>1, ActorStates
<1>3. "drop" \in AddPc
  BY DEF AddPc
<1> QED BY <1>1, <1>2, <1>3 DEF Refused

LEMMA KeptStep == QueueInv /\ KeptInv /\ [Next /\ Careful]_vars => KeptInv'
<1> SUFFICES ASSUME QueueInv, KeptInv, [Next /\ Careful]_vars PROVE KeptInv'
  OBVIOUS
<1>1. Types /\ alike \subseteq Pictures
  BY DEF QueueInv, KeptInv
<1>2. CASE UNCHANGED vars
  BY <1>2 DEF vars, disk, KeptInv, Safe, Given, Similar, Lasting, Active
<1>3. ASSUME NEW h \in Handlers, Receive(h), FreshNames PROVE KeptInv'
  <2>1. PICK p \in Staged, c \in Pictures :
          /\ files' = [files EXCEPT ![p] = c] /\ (Begin(h, p) \/ UNCHANGED adding)
    <3>1. PICK p \in Staged :
              \/ (\E c \in Pictures : files' = [files EXCEPT ![p] = c]) /\ Begin(h, p)
              \/ (\E c \in Broken : files' = [files EXCEPT ![p] = c]) /\ UNCHANGED adding
      BY <1>3 DEF Receive
    <3> QED BY <3>1, PicturesAssumption
  <2>2. h \in Actors /\ p \in Paths /\ adding[h].pc = "idle" /\ UNCHANGED <<images, accepted, alike>>
    BY <1>3 DEF Actors, Paths, Receive
  <2>3. files'[p] = c /\ (\A q \in Paths : q # p => files'[q] = files[q]) /\ c # Nil
    BY <1>1, <2>1, <2>2, PicturesAssumption DEF Types
  <2>4. /\ adding'[h] = [pc |-> "hash", path |-> p, hash |-> Nil] \/ UNCHANGED adding
        /\ \A b \in Actors : b # h => adding'[b] = adding[b]
    BY <1>1, <2>1, <2>2, ActorStates
  <2>5. (adding'[h].pc # "hash" /\ files'[p] = files[p]) \/ files[p] = Nil
    <3>1. adding'[h].pc = "hash" => adding'[h].path = p
      BY <2>2, <2>4
    <3>2. adding'[h].pc = "hash" => Unused(p)
      BY <1>3, <2>2, <3>1 DEF FreshNames
    <3>3. files'[p] # files[p] => Unused(p)
      BY <1>3, <2>3 DEF FreshNames
    <3> QED BY <3>2, <3>3 DEF Unused
  <2>6. ASSUME NEW q \in Paths, files[q] \in Pictures, Lasting(q)
        PROVE  files'[q] = files[q] /\ Lasting(q)'
    <3>1. files'[q] = files[q] /\ (q = p => adding'[h].pc # "hash")
      BY <2>3, <2>5, <2>6, PicturesAssumption
    <3>2. \A g \in Handlers : adding'[g].pc # "idle" => adding'[g].path # q
      BY <2>2, <2>4, <2>6, <3>1 DEF Lasting, Active, Actors
    <3> QED BY <3>1, <3>2 DEF Lasting, Active
  <2> QED BY <1>1, <2>2, <2>6, KeptMoves
<1>4. ASSUME NEW a \in Actors, DropUpload(a) PROVE KeptInv'
  <2>1. Held(a) /\ Active(a) /\ adding[a].pc = "drop" /\ adding[a].path \in Staged /\ adding[a].path \in Paths
        /\ a \in Handlers \cup {"cli"} /\ UNCHANGED <<images, accepted, alike>>
    BY <1>4 DEF QueueInv, Held, DropUpload, Active, Actors, Paths
  <2>2. adding'[a] = NotAdding /\ \A b \in Actors : b # a => adding'[b] = adding[b]
    BY <1>1, <1>4, ActorStates DEF DropUpload
  <2>3. \A q \in Paths : q # adding[a].path => files'[q] = files[q]
    BY <1>1, <1>4 DEF DropUpload, Types
  <2>4. a = "cli" => images[files[adding[a].path]] # Nil
    BY <2>1 DEF Held
  <2>5. a \in Handlers => ~Lasting(adding[a].path)
    BY <2>1 DEF Lasting
  <2>6. \A q : Lasting(q) => Lasting(q)'
    BY <2>2 DEF Lasting, Active, NotAdding, Actors
  <2>7. \A q \in Paths : Lasting(q) => images[files[q]] # Nil \/ (files'[q] = files[q] /\ Lasting(q)')
    BY <2>1, <2>3, <2>4, <2>5, <2>6
  <2> QED BY <1>1, <2>1, <2>7, KeptMoves
<1>5. ASSUME NEW a \in Actors, InsertPending(a) PROVE KeptInv'
  <2>1. Held(a) /\ Active(a) /\ adding[a].pc = "insert" /\ adding[a].path \in Paths
        /\ files[adding[a].path] = adding[a].hash /\ UNCHANGED <<disk, alike>>
    BY <1>5 DEF QueueInv, Held, InsertPending, Active, Paths
  <2>2. /\ \A b \in Actors : b # a => adding'[b] = adding[b]
        /\ adding'[a].path = adding[a].path \/ adding'[a].pc = "idle"
    BY <1>1, <1>5, PathStays DEF InsertPending
  <2>3. \A q : Lasting(q) => Lasting(q)'
    BY <2>1, <2>2 DEF Lasting, Active, Actors
  <2>4. ASSUME accepted' = accepted PROVE KeptInv'
    BY <1>1, <2>1, <2>3, <2>4, KeptMoves DEF disk
  <2>5. ASSUME accepted' = accepted \cup {adding[a].hash}, Return(a) PROVE KeptInv'
    <3>1. adding'[a].pc = "idle"
      BY <1>1, <2>5, ActorStates DEF NotAdding
    <3>2. PICK q, c : q \in Paths /\ q = adding[a].path /\ c = adding[a].hash /\ files[q] = c
      BY <2>1
    <3>3. Lasting(q)'
      <4>1. \A h \in Handlers : h # a /\ Active(h) => adding[h].path # q
        BY <2>1, <3>2 DEF QueueInv, Own
      <4> QED BY <2>2, <3>1, <4>1 DEF Lasting, Active, Actors
    <3>4. Safe(c)'
      BY <2>1, <3>2, <3>3 DEF Safe, disk
    <3>5. \A d \in accepted : Safe(d)'
      BY <2>1, <2>3 DEF KeptInv, Safe, Given, Similar, disk
    <3> QED BY <1>1, <2>1, <2>5, <3>2, <3>4, <3>5 DEF KeptInv
  <2> QED BY <1>5, <2>4, <2>5 DEF InsertPending
<1>6. ASSUME NEW a \in Actors, HashUpload(a) \/ LookupLibrary(a) \/ LookupQueue(a) PROVE KeptInv'
  <2>1. Active(a) /\ UNCHANGED <<disk, accepted, alike>>
    BY <1>6 DEF HashUpload, LookupLibrary, LookupQueue, Active, disk
  <2>2. /\ \A b \in Actors : b # a => adding'[b] = adding[b]
        /\ adding'[a].path = adding[a].path \/ adding'[a].pc = "idle"
    <3>1. CASE (\E s \in AddPc : Goto(a, s)) \/ Return(a) \/ Refused(a)
      BY <1>1, <3>1, PathStays
    <3>2. CASE adding' = [adding EXCEPT ![a].pc = "library", ![a].hash = files[adding[a].path]]
      <4>1. PICK n : n = [adding[a] EXCEPT !.pc = "library", !.hash = files[adding[a].path]]
        OBVIOUS
      <4>2. n.path = adding[a].path
        BY <1>1, <4>1 DEF Types, AddingType
      <4>3. adding' = [adding EXCEPT ![a] = n]
        BY <1>1, <3>2, <4>1 DEF Types
      <4> QED BY <1>1, <4>2, <4>3 DEF Types
    <3> QED BY <1>6, <3>1, <3>2 DEF HashUpload, LookupLibrary, LookupQueue, AddPc
  <2>3. \A q : Lasting(q) => Lasting(q)'
    BY <2>1, <2>2 DEF Lasting, Active, Actors
  <2> QED BY <1>1, <2>1, <2>3, KeptMoves DEF disk
<1>7. ASSUME NEW p \in Procs, NEW i, RowStep(p, i) PROVE KeptInv'
  <2>1. PICK s \in BatchPc \ {"idle"} : At(p, s, i) /\ batch[p].pc = s
    BY <1>7 DEF RowStep, MarkProcessing, PrepareImage, ComparePicture, RemoveSimilar, AnalyzeImage,
           KeepUnanalyzed, SaveImage, MarkDone, At, BatchPc
  <2>2. Todo(p, i) /\ First(p, i)
    BY <2>1, AtRow
  <2>3. UNCHANGED <<adding, accepted>> /\ (RemoveSimilar(p, i) \/ alike' = alike)
    BY <1>7 DEF RowStep, MarkProcessing, PrepareImage, ComparePicture, RemoveSimilar, AnalyzeImage,
           KeepUnanalyzed, SaveImage, MarkDone
  <2>4. \A q : Lasting(q) => Lasting(q)'
    BY <2>3 DEF Lasting, Active
  <2>5. \A d \in Pictures : images[d] # Nil => images'[d] = images[d]
    BY <1>1, <1>7 DEF RowStep, MarkProcessing, PrepareImage, ComparePicture, RemoveSimilar, AnalyzeImage,
           KeepUnanalyzed, SaveImage, MarkDone, Listed, Types, disk
  <2>6. CASE RemoveSimilar(p, i)
    <3>1. PICK q : q = rows[i].path /\ (q \in Paths => Similar(files[q]) /\ files[q] \in Pictures)
      BY <2>2, <2>6 DEF RemoveSimilar, At, Todo
    <3>2. files' = files \/ files' = [files EXCEPT ![q] = Nil]
      BY <2>6, <3>1 DEF RemoveSimilar
    <3>3. \A r \in Paths : r # q => files'[r] = files[r]
      BY <1>1, <3>2 DEF Types
    <3>4. alike' = alike \cup ({files[q]} \ {files'[q]})
      BY <2>6, <3>1 DEF RemoveSimilar
    <3>5. q \in Paths
      <4>1. i \in 1..Len(rows) /\ rows \in Seq(Row)
        BY <1>1, <2>2 DEF Types, Todo
      <4>2. rows[i] \in Row
        BY <4>1
      <4> QED BY <3>1, <4>2 DEF Row
    <3>6. \A r \in Paths : Lasting(r) =>
            (files[r] \in alike' /\ Similar(files[r])) \/ (files'[r] = files[r] /\ Lasting(r)')
      BY <2>4, <3>1, <3>3, <3>4, <3>5
    <3>7. alike \subseteq alike' /\ alike' \subseteq Pictures
      BY <1>1, <3>1, <3>4, <3>5
    <3> QED BY <2>3, <2>5, <3>6, <3>7, KeptMoves
  <2>7. CASE ~RemoveSimilar(p, i)
    <3>1. files' = files
      BY <1>7, <2>7 DEF RowStep, MarkProcessing, PrepareImage, ComparePicture, AnalyzeImage,
             KeepUnanalyzed, SaveImage, MarkDone, disk
    <3> QED BY <1>1, <2>3, <2>4, <2>5, <2>7, <3>1, KeptMoves
  <2> QED BY <2>6, <2>7
<1>8. ASSUME UNCHANGED <<disk, accepted, alike>>, \A h \in Handlers : adding'[h] = adding[h] \/ adding'[h] = NotAdding
      PROVE  KeptInv'
  <2>1. \A q : Lasting(q) => Lasting(q)'
    BY <1>8 DEF Lasting, Active, NotAdding
  <2> QED BY <1>1, <1>8, <2>1, KeptMoves DEF disk
<1>9. CASE IngestFile \/ ScanFile \/ EndWithoutBatch
  <2>1. \A h \in Handlers : h \in Actors /\ h # "folder" /\ h # "cli"
    BY PicturesAssumption DEF Actors
  <2>2. \A h \in Handlers : adding'[h] = adding[h]
    BY <1>1, <1>9, <2>1 DEF IngestFile, ScanFile, EndWithoutBatch, Begin, Types
  <2>3. UNCHANGED <<disk, accepted, alike>>
    BY <1>9 DEF IngestFile, ScanFile, EndWithoutBatch, disk
  <2> QED BY <1>8, <2>2, <2>3
<1>10. ASSUME NEW p \in Procs, ProcessNow(p) \/ FinishBatch(p) \/ Start(p) \/ Crash(p) PROVE KeptInv'
  <2>1. UNCHANGED <<disk, accepted, alike>>
    BY <1>10 DEF ProcessNow, FinishBatch, Start, Crash, disk
  <2>2. \A h \in Handlers : adding'[h] = adding[h] \/ adding'[h] = NotAdding
    BY <1>10 DEF ProcessNow, FinishBatch, Start, Crash, Actors
  <2> QED BY <1>8, <2>1, <2>2
<1> QED
  BY <1>2, <1>3, <1>4, <1>5, <1>6, <1>7, <1>9, <1>10 DEF Next, Careful, AddStep, BatchStep

-----------------------------------------------------------------------------
(* The rows are as many as there is room for: an addition that has begun   *)
(* makes one row at most, and began with room for one.                     *)

Busy == {a \in Actors : adding[a].pc \notin {"idle", "drop"}}
CountInv == Len(rows) + Cardinality(scan) + Cardinality(Busy) <= MaxRows

LEMMA OneMore ==
    ASSUME NEW S, NEW x, IsFiniteSet(S)
    PROVE  /\ IsFiniteSet(S \cup {x}) /\ Cardinality(S \cup {x}) \in Nat
           /\ Cardinality(S \cup {x}) <= Cardinality(S) + 1
<1>1. IsFiniteSet(S \cup {x})
  BY FS_AddElement
<1>2. Cardinality(S \cup {x}) \in {Cardinality(S), Cardinality(S) + 1}
  BY FS_AddElement
<1>3. Cardinality(S) \in Nat /\ Cardinality(S \cup {x}) \in Nat
  BY <1>1, FS_CardinalityType
<1> QED BY <1>1, <1>2, <1>3

LEMMA Counted ==
    ASSUME Types
    PROVE  /\ Len(rows) \in Nat /\ MaxRows \in Nat /\ IsFiniteSet(Actors)
           /\ IsFiniteSet(scan) /\ Cardinality(scan) \in Nat
           /\ \A S : S \subseteq Actors => IsFiniteSet(S) /\ Cardinality(S) \in Nat
<1>1. IsFiniteSet(Handlers \cup {"folder"})
  BY FiniteAssumption, FS_AddElement
<1>2. IsFiniteSet((Handlers \cup {"folder"}) \cup {"cli"})
  BY <1>1, FS_AddElement
<1>3. (Handlers \cup {"folder"}) \cup {"cli"} = Actors
  BY DEF Actors
<1>4. IsFiniteSet(Actors)
  BY <1>2, <1>3
<1>5. \A S : S \subseteq Actors => IsFiniteSet(S)
  BY <1>4, FS_Subset
<1>6. IsFiniteSet(scan)
  BY FiniteAssumption, FS_Subset DEF Types
<1>7. Len(rows) \in Nat
  BY DEF Types
<1> QED BY <1>4, <1>5, <1>6, <1>7, FS_CardinalityType, BoundsAssumption

\* Nobody has begun and no row has come.
LEMMA NoneComes ==
    ASSUME Types, CountInv, Len(rows') = Len(rows), scan' \subseteq scan, Busy' \subseteq Busy
    PROVE  CountInv'
<1>1. Busy \subseteq Actors /\ Busy' \subseteq Actors
  BY DEF Busy
<1>2. PICK B, C, s, t : B = Busy /\ C = Busy' /\ s = scan /\ t = scan'
  OBVIOUS
<1>3. IsFiniteSet(B) /\ IsFiniteSet(s) /\ Cardinality(B) \in Nat /\ Cardinality(s) \in Nat /\ Len(rows) \in Nat
  BY <1>1, <1>2, Counted
<1>4. Cardinality(C) <= Cardinality(B) /\ Cardinality(t) <= Cardinality(s)
  BY <1>2, <1>3, FS_Subset
<1>5. Cardinality(C) \in Nat /\ Cardinality(t) \in Nat
  <2>1. IsFiniteSet(C) /\ IsFiniteSet(t)
    BY <1>2, <1>3, FS_Subset
  <2> QED BY <2>1, FS_CardinalityType
<1>6. Len(rows) + Cardinality(s) + Cardinality(B) <= MaxRows
  BY <1>2 DEF CountInv
<1>7. Len(rows) + Cardinality(t) + Cardinality(C) <= MaxRows
  BY <1>3, <1>4, <1>5, <1>6, BoundsAssumption
<1> QED BY <1>2, <1>7 DEF CountInv

\* An actor begins when there is room.
LEMMA OneBegins ==
    ASSUME Types, NEW a \in Actors, Room, ~Active(a), Len(rows') = Len(rows), scan' = scan,
           Busy' \subseteq Busy \cup {a}
    PROVE  CountInv'
<1> DEFINE A == {b \in Actors : adding[b].pc # "idle"}
<1>1. Len(rows) + Cardinality(scan) + Cardinality(A) < MaxRows
  BY DEF Room, Coming
<1>2. Busy' \subseteq A \cup {a}
  BY DEF Busy
<1>3. IsFiniteSet(A) /\ Cardinality(A) \in Nat /\ Cardinality(scan) \in Nat /\ Len(rows) \in Nat /\ MaxRows \in Nat
  BY Counted
<1>4. IsFiniteSet(A \cup {a}) /\ Cardinality(A \cup {a}) <= Cardinality(A) + 1 /\ Cardinality(A \cup {a}) \in Nat
  BY <1>3, OneMore
<1>5. PICK C : C = Busy'
  OBVIOUS
<1>6. Cardinality(C) <= Cardinality(A \cup {a}) /\ Cardinality(C) \in Nat
  BY <1>2, <1>4, <1>5, FS_Subset, FS_CardinalityType
<1> HIDE DEF A
<1>7. Len(rows) + Cardinality(scan) + Cardinality(C) <= MaxRows
  BY <1>1, <1>3, <1>4, <1>6
<1> QED BY <1>5, <1>7 DEF CountInv

\* The command begins with a file that it has collected.
LEMMA CommandBegins ==
    ASSUME Types, CountInv, NEW a \in Actors, NEW p \in scan, Len(rows') = Len(rows), scan' = scan \ {p},
           Busy' \subseteq Busy \cup {a}
    PROVE  CountInv'
<1>1. PICK B, C, s, t : B = Busy /\ C = Busy' /\ s = scan /\ t = scan'
  OBVIOUS
<1>2. B \subseteq Actors
  BY <1>1 DEF Busy
<1>3. IsFiniteSet(B) /\ IsFiniteSet(s) /\ Cardinality(B) \in Nat /\ Cardinality(s) \in Nat /\ Len(rows) \in Nat
  BY <1>1, <1>2, Counted
<1>4. Cardinality(t) = Cardinality(s) - 1
  BY <1>1, <1>3, FS_RemoveElement
<1>5. IsFiniteSet(B \cup {a}) /\ Cardinality(B \cup {a}) <= Cardinality(B) + 1 /\ Cardinality(B \cup {a}) \in Nat
  BY <1>3, OneMore
<1>6. Cardinality(C) <= Cardinality(B \cup {a}) /\ Cardinality(C) \in Nat
  BY <1>1, <1>5, FS_Subset, FS_CardinalityType
<1>7. Len(rows) + Cardinality(s) + Cardinality(B) <= MaxRows
  BY <1>1 DEF CountInv
<1>8. Len(rows) + Cardinality(t) + Cardinality(C) <= MaxRows
  BY <1>3, <1>4, <1>5, <1>6, <1>7, BoundsAssumption
<1> QED BY <1>1, <1>8 DEF CountInv

\* An actor that had begun makes its row.
LEMMA RowComes ==
    ASSUME Types, CountInv, NEW a \in Busy, Len(rows') = Len(rows) + 1, scan' = scan, Busy' \subseteq Busy \ {a}
    PROVE  CountInv'
<1>1. PICK B, C : B = Busy /\ C = Busy'
  OBVIOUS
<1>2. B \subseteq Actors
  BY <1>1 DEF Busy
<1>3. IsFiniteSet(B) /\ Cardinality(B) \in Nat /\ Cardinality(scan) \in Nat /\ Len(rows) \in Nat
  BY <1>1, <1>2, Counted
<1>4. IsFiniteSet(B \ {a}) /\ Cardinality(B \ {a}) = Cardinality(B) - 1
  BY <1>1, <1>3, FS_RemoveElement
<1>5. Cardinality(C) <= Cardinality(B \ {a}) /\ Cardinality(C) \in Nat
  BY <1>1, <1>4, FS_Subset, FS_CardinalityType
<1>6. Len(rows) + Cardinality(scan) + Cardinality(B) <= MaxRows
  BY <1>1 DEF CountInv
<1>7. (Len(rows) + 1) + Cardinality(scan) + Cardinality(C) <= MaxRows
  BY <1>3, <1>4, <1>5, <1>6, BoundsAssumption
<1> QED BY <1>1, <1>7 DEF CountInv

LEMMA CountStep ==
    QueueInv /\ CountInv /\ [Next /\ Careful]_vars => CountInv'
<1> SUFFICES ASSUME QueueInv, CountInv, [Next /\ Careful]_vars PROVE CountInv'
  OBVIOUS
<1>1. Types
  BY DEF QueueInv
<1>2. CASE UNCHANGED vars
  BY <1>2 DEF vars, CountInv, Busy
<1>3. ASSUME NEW h \in Handlers, Receive(h) PROVE CountInv'
  <2>1. h \in Actors /\ Room /\ ~Active(h) /\ rows' = rows /\ scan' = scan
    BY <1>3 DEF Receive, Actors, Active
  <2>2. \A b \in Actors : b # h => adding'[b] = adding[b]
    BY <1>1, <1>3 DEF Receive, Begin, Types
  <2>3. Busy' \subseteq Busy \cup {h}
    BY <2>2 DEF Busy
  <2> QED BY <1>1, <2>1, <2>3, OneBegins
<1>4. CASE IngestFile
  <2>1. "folder" \in Actors /\ Room /\ ~Active("folder") /\ rows' = rows /\ scan' = scan
    BY <1>4 DEF IngestFile, Actors, Active
  <2>2. \A b \in Actors : b # "folder" => adding'[b] = adding[b]
    BY <1>1, <1>4 DEF IngestFile, Begin, Types
  <2>3. Busy' \subseteq Busy \cup {"folder"}
    BY <2>2 DEF Busy
  <2> QED BY <1>1, <2>1, <2>3, OneBegins
<1>5. CASE ScanFile
  <2>1. PICK p \in scan : Begin("cli", p) /\ scan' = scan \ {p}
    BY <1>5 DEF ScanFile
  <2>2. "cli" \in Actors /\ rows' = rows
    BY <1>5 DEF ScanFile, Actors
  <2>3. \A b \in Actors : b # "cli" => adding'[b] = adding[b]
    BY <1>1, <2>1 DEF Begin, Types
  <2>4. Busy' \subseteq Busy \cup {"cli"}
    BY <2>3 DEF Busy
  <2> QED BY <1>1, <2>1, <2>2, <2>4, CommandBegins
<1>6. ASSUME NEW a \in Actors, AddStep(a) PROVE CountInv'
  <2>1. scan' = scan
    BY <1>6 DEF AddStep, HashUpload, LookupLibrary, LookupQueue, InsertPending, DropUpload
  <2>2. ASSUME adding[a].pc # "idle", adding'[a].pc \in {"idle", "drop"} \/ adding[a].pc # "drop",
               \A b \in Actors : b # a => adding'[b] = adding[b]
        PROVE  Busy' \subseteq Busy
    BY <2>2 DEF Busy
  <2>3. Return(a) => adding'[a].pc = "idle" /\ \A b \in Actors : b # a => adding'[b] = adding[b]
    BY <1>1, ActorStates DEF NotAdding
  <2>4. ASSUME NEW s \in AddPc, Goto(a, s)
        PROVE  adding'[a].pc = s /\ \A b \in Actors : b # a => adding'[b] = adding[b]
    <3>1. PICK n : n = [pc |-> s, path |-> adding[a].path, hash |-> adding[a].hash]
      OBVIOUS
    <3>2. n.pc = s
      BY <3>1
    <3> QED BY <1>1, <2>4, <3>1, <3>2, ActorStates
  <2>5. Refused(a) => adding'[a].pc \in {"idle", "drop"} /\ \A b \in Actors : b # a => adding'[b] = adding[b]
    BY <2>3, <2>4 DEF Refused, AddPc
  <2>6. CASE rows' = rows
    <3>1. adding[a].pc # "idle"
      BY <1>6 DEF AddStep, HashUpload, LookupLibrary, LookupQueue, InsertPending, DropUpload
    <3>2. CASE DropUpload(a)
      BY <1>1, <2>1, <2>2, <2>3, <2>6, <3>1, <3>2, NoneComes DEF DropUpload
    <3>3. CASE ~DropUpload(a)
      <4>1. adding[a].pc # "drop" /\ \A b \in Actors : b # a => adding'[b] = adding[b]
        BY <1>1, <1>6, <2>3, <2>4, <2>5, <3>3
           DEF AddStep, HashUpload, LookupLibrary, LookupQueue, InsertPending, AddPc, Types
      <4> QED BY <1>1, <2>1, <2>2, <2>6, <3>1, <4>1, NoneComes
    <3> QED BY <3>2, <3>3
  <2>7. CASE rows' # rows
    <3>1. a \in Busy /\ \E r : rows' = Append(rows, r)
      BY <1>6, <2>7 DEF AddStep, HashUpload, LookupLibrary, LookupQueue, InsertPending, DropUpload, Busy
    <3>2. adding'[a].pc \in {"idle", "drop"} /\ \A b \in Actors : b # a => adding'[b] = adding[b]
      BY <1>6, <2>3, <2>4, <2>7
         DEF AddStep, HashUpload, LookupLibrary, LookupQueue, InsertPending, DropUpload, AddPc
    <3>3. Busy' \subseteq Busy \ {a}
      BY <3>2 DEF Busy
    <3>4. Len(rows') = Len(rows) + 1
      BY <1>1, <3>1 DEF Types
    <3> QED BY <1>1, <2>1, <3>1, <3>3, <3>4, RowComes
  <2> QED BY <2>6, <2>7
<1>7. ASSUME NEW p \in Procs, NEW i \in 1..Len(rows), RowStep(p, i) PROVE CountInv'
  <2>1. UNCHANGED <<scan, adding>>
    BY <1>7 DEF RowStep, MarkProcessing, PrepareImage, ComparePicture, RemoveSimilar, AnalyzeImage,
           KeepUnanalyzed, SaveImage, MarkDone
  <2>2. \/ UNCHANGED rows \/ \E s : rows' = [rows EXCEPT ![i].status = s]
    BY <1>7 DEF RowStep, MarkProcessing, PrepareImage, ComparePicture, RemoveSimilar, AnalyzeImage,
           KeepUnanalyzed, SaveImage, MarkDone, SetStatus
  <2>3. Len(rows') = Len(rows)
    BY <1>1, <2>2 DEF Types
  <2>4. Busy' = Busy
    BY <2>1 DEF Busy
  <2> QED BY <1>1, <2>1, <2>3, <2>4, NoneComes
<1>8. ASSUME NEW p \in Procs, Start(p) PROVE CountInv'
  <2>1. adding' = adding /\ rows' = rows
    BY <1>8 DEF Start
  <2>2. Busy' = Busy
    BY <2>1 DEF Busy
  <2>3. CASE p # "cli"
    BY <1>1, <1>8, <2>1, <2>2, <2>3, NoneComes DEF Start
  <2>4. CASE p = "cli"
    <3> DEFINE A == {b \in Actors : adding[b].pc # "idle"}
    <3>1. scan' = Uploads /\ Len(rows) + Cardinality(scan) + Cardinality(A) + Cardinality(Uploads) <= MaxRows
      BY <1>8, <2>4 DEF Start, Coming
    <3>2. IsFiniteSet(A) /\ Cardinality(A) \in Nat /\ Cardinality(scan) \in Nat /\ Len(rows) \in Nat
          /\ MaxRows \in Nat
      BY <1>1, Counted
    <3>3. PICK B : B = Busy
      OBVIOUS
    <3>4. B \subseteq A
      BY <3>3 DEF Busy
    <3>5. Cardinality(B) <= Cardinality(A) /\ Cardinality(B) \in Nat
      BY <3>2, <3>4, FS_Subset, FS_CardinalityType
    <3>6. Cardinality(Uploads) \in Nat
      BY FiniteAssumption, FS_Subset, FS_CardinalityType DEF Uploads
    <3> HIDE DEF A
    <3>7. Len(rows) + Cardinality(Uploads) + Cardinality(B) <= MaxRows
      BY <3>1, <3>2, <3>5, <3>6
    <3> QED BY <2>1, <2>2, <3>1, <3>3, <3>7 DEF CountInv
  <2> QED BY <2>3, <2>4
<1>9. ASSUME NEW p \in Procs, ProcessNow(p) \/ FinishBatch(p) \/ Crash(p) \/ EndWithoutBatch PROVE CountInv'
  <2>1. rows' = rows /\ scan' \subseteq scan
    BY <1>9 DEF ProcessNow, FinishBatch, Crash, EndWithoutBatch
  <2>2. \A b \in Actors : adding'[b] = adding[b] \/ adding'[b] = NotAdding
    BY <1>9 DEF ProcessNow, FinishBatch, Crash, EndWithoutBatch
  <2>3. Busy' \subseteq Busy
    BY <2>2 DEF Busy, NotAdding
  <2> QED BY <1>1, <2>1, <2>3, NoneComes
<1>10. "cli" \in Procs
  BY DEF Procs
<1> QED
  BY <1>2, <1>3, <1>4, <1>5, <1>6, <1>7, <1>8, <1>9, <1>10 DEF Next, BatchStep

LEMMA InitCount == Init => CountInv
<1> SUFFICES ASSUME Init PROVE CountInv
  OBVIOUS
<1>1. scan = {} /\ Len(rows) = 0
  BY DEF Init
<1>2. Busy = {}
  BY DEF Init, Busy, NotAdding
<1> QED BY <1>1, <1>2, FS_EmptySet, BoundsAssumption DEF CountInv

LEMMA InitKept == Init => KeptInv
BY DEF Init, KeptInv

LEMMA KeptTypes ==
    ASSUME QueueInv, KeptInv, CountInv
    PROVE  AcceptedKept
<1>1. Types /\ Len(rows) \in Nat /\ Cardinality(scan) \in Nat /\ Cardinality(Busy) \in Nat
  BY Counted DEF QueueInv, Busy
<1>2. Len(rows) <= MaxRows
  BY <1>1, BoundsAssumption DEF CountInv
<1>3. ASSUME NEW p \in Procs
      PROVE  batch[p] \in [pc : BatchPc, todo : SUBSET (1..MaxRows), hash : Pictures \cup {Nil}]
  <2>1. \A i \in batch[p].todo : i \in 1..Len(rows)
    BY DEF QueueInv, Todo
  <2>2. batch[p].todo \in SUBSET (1..MaxRows)
    BY <1>1, <1>2, <2>1, BoundsAssumption
  <2>3. batch[p] \in BatchType
    BY <1>1 DEF Types
  <2> QED BY <2>2, <2>3 DEF BatchType
<1>4. batch \in [Procs -> [pc : BatchPc, todo : SUBSET (1..MaxRows), hash : Pictures \cup {Nil}]]
  BY <1>1, <1>3 DEF Types
<1>5. TypeOK
  BY <1>1, <1>2, <1>4 DEF Types, TypeOK, KeptInv, AddingType, AddPc, BatchPc
<1>6. ASSUME NEW c \in accepted
      PROVE  \/ OnDisk(c)
             \/ c \in alike /\ \E d \in Pictures :
                    images[d] # Nil /\ PHash[d] = PHash[c] /\ files[images[d]] = d
  <2>1. c \in Pictures /\ Safe(c) /\ LibraryFiles
    BY <1>1 DEF Types, QueueInv, KeptInv
  <2>2. CASE images[c] # Nil
    BY <1>1, <2>1, <2>2 DEF Types, OnDisk, LibraryFiles
  <2> QED BY <2>1, <2>2 DEF Safe, Given, Similar, OnDisk, LibraryFiles
<1> QED BY <1>5, <1>6 DEF AcceptedKept

(***************************************************************************)
(* A picture that was accepted stays on disk, but for the one exception    *)
(* that the design document rules out: processUpload removed its file for  *)
(* a picture of the library that looks like it, whose file then is there   *)
(* (AddUpload, processUpload, isStagedUploadSource).                       *)
(***************************************************************************)
THEOREM AcceptedStays == CarefulSpec => []AcceptedKept
<1>1. Init => QueueInv /\ KeptInv /\ CountInv
  BY InitQueue, InitKept, InitCount
<1>2. QueueInv /\ KeptInv /\ CountInv /\ [Next /\ Careful]_vars => (QueueInv /\ KeptInv /\ CountInv)'
  BY QueueStep, KeptStep, CountStep
<1>3. QueueInv /\ KeptInv /\ CountInv => AcceptedKept
  BY KeptTypes
<1> QED BY <1>1, <1>2, <1>3, PTL DEF CarefulSpec

=============================================================================
