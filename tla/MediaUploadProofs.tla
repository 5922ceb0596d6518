------------------------- MODULE MediaUploadProofs -------------------------
(***************************************************************************)
(* Theorems about MediaUpload, for every set of sessions, contents,        *)
(* requests and any number of crashes and failing calls: types, what a     *)
(* completed session stands for, that no answer is taken back, and, below, *)
(* the originals on disk.                                                  *)
(***************************************************************************)
EXTENDS MediaUpload, SequenceTheorems, TLAPS

-----------------------------------------------------------------------------
(* Contents are the sequences of chunks of at most MaxSize units.          *)

LEMMA ContentIsSeq ==
    ASSUME NEW c
    PROVE  c \in Content <=> c \in Seq(Chunks) /\ Len(c) <= MaxSize
<1>1. ASSUME c \in Content PROVE c \in Seq(Chunks) /\ Len(c) <= MaxSize
  <2>1. PICK n \in 0..MaxSize : c \in [1..n -> Chunks]
    BY <1>1 DEF Content
  <2>2. n \in Nat /\ c \in Seq(Chunks)
    BY <2>1, SeqDef, BoundsAssumption
  <2>3. Len(c) = n
    BY <2>1, <2>2, LenProperties
  <2> QED
    BY <2>1, <2>2, <2>3
<1>2. ASSUME c \in Seq(Chunks), Len(c) <= MaxSize PROVE c \in Content
  <2>1. Len(c) \in Nat /\ c \in [1..Len(c) -> Chunks]
    BY <1>2, LenProperties
  <2>2. Len(c) \in 0..MaxSize
    BY <2>1, <1>2, BoundsAssumption
  <2>3. [1..Len(c) -> Chunks] \in {[1..n -> Chunks] : n \in 0..MaxSize}
    BY <2>2
  <2> QED
    BY <2>1, <2>3 DEF Content
<1> QED
  BY <1>1, <1>2

LEMMA EmptyContent == <<>> \in Content /\ Len(<<>>) = 0
<1>1. <<>> \in Seq(Chunks) /\ Len(<<>>) = 0
  BY EmptySeq
<1>2. Len(<<>>) <= MaxSize
  BY <1>1, BoundsAssumption
<1> QED
  BY <1>1, <1>2, ContentIsSeq

\* What WriteAt leaves is a file of at most MaxSize units if the run ends there.
LEMMA WriteAtContent ==
    ASSUME NEW f \in Content, NEW d \in Content, NEW off \in Nat,
           off + Len(d) <= MaxSize
    PROVE  WriteAt(f, off, d) \in Content
<1> DEFINE n == IF Len(f) > off + Len(d) THEN Len(f) ELSE off + Len(d)
<1>1. /\ f \in Seq(Chunks) /\ Len(f) \in Nat /\ Len(f) <= MaxSize
      /\ d \in Seq(Chunks) /\ Len(d) \in Nat
  BY ContentIsSeq, LenProperties
<1>2. n \in 0..MaxSize
  BY <1>1, BoundsAssumption
<1>3. ASSUME NEW k \in 1..n
      PROVE  (IF k \in off + 1 .. off + Len(d) THEN d[k - off]
              ELSE IF k <= Len(f) THEN f[k] ELSE Zero) \in Chunks
  <2>1. CASE k \in off + 1 .. off + Len(d)
    <3>1. k - off \in 1..Len(d)
      BY <1>1, <2>1
    <3> QED
      BY <1>1, <2>1, <3>1, ElementOfSeq
  <2>2. CASE k \notin off + 1 .. off + Len(d) /\ k <= Len(f)
    <3>1. k \in 1..Len(f)
      BY <1>1, <1>2, <2>2
    <3> QED
      BY <1>1, <2>2, <3>1, ElementOfSeq
  <2>3. CASE k \notin off + 1 .. off + Len(d) /\ ~(k <= Len(f))
    BY <2>3, ConstantsAssumption
  <2> QED
    BY <2>1, <2>2, <2>3
<1>4. WriteAt(f, off, d) \in [1..n -> Chunks]
  BY <1>3 DEF WriteAt
<1> QED
  BY <1>2, <1>4 DEF Content

LEMMA PrefixContent ==
    ASSUME NEW d \in Content, NEW n \in 0..Len(d)
    PROVE  SubSeq(d, 1, n) \in Content /\ Len(SubSeq(d, 1, n)) = n
<1>1. d \in Seq(Chunks) /\ Len(d) \in Nat /\ Len(d) <= MaxSize
  BY ContentIsSeq, LenProperties
<1>2. \A i \in 1..n : d[i] \in Chunks
  BY <1>1, ElementOfSeq
<1>3. SubSeq(d, 1, n) \in Seq(Chunks) /\ Len(SubSeq(d, 1, n)) = IF 1 <= n THEN n - 1 + 1 ELSE 0
  BY <1>1, <1>2, SubSeqProperties
<1>4. Len(SubSeq(d, 1, n)) = n
  BY <1>1, <1>3
<1>5. Len(SubSeq(d, 1, n)) <= MaxSize
  BY <1>1, <1>4, BoundsAssumption
<1> QED
  BY <1>3, <1>4, <1>5, ContentIsSeq

LEMMA ConcatContent ==
    ASSUME NEW c \in Content, NEW d \in Content, Len(c) + Len(d) <= MaxSize
    PROVE  c \o d \in Content /\ Len(c \o d) = Len(c) + Len(d)
<1>1. c \in Seq(Chunks) /\ d \in Seq(Chunks)
  BY ContentIsSeq
<1>2. c \o d \in Seq(Chunks) /\ Len(c \o d) = Len(c) + Len(d)
  BY <1>1, ConcatProperties
<1> QED
  BY <1>2, ContentIsSeq

-----------------------------------------------------------------------------
(* Type correctness.  TypeOK alone is not inductive: the history of        *)
(* acknowledged bytes stays within MaxSize because it is as long as the    *)
(* received offset, and a row is only updated by a handler that found it.  *)

Stored == {"recheck", "link", "job", "mark"}
Hashed == {"lookup", "stat", "open", "copy", "rename", "verify", "commit"} \cup Stored

SessionInv(u) ==
    /\ acked[u] = Nil => part[u] = Nil /\ row[u].status # "absent"
    /\ acked[u] # Nil /\ row[u].status \in {"absent", "uploading"} =>
            Len(acked[u]) = row[u].received
    /\ op[u].pc = "session" => row[u].status = "absent"
    /\ op[u].pc = "offset" =>
            /\ acked[u] # Nil /\ row[u].status = "uploading"
            /\ op[u].next = row[u].received + Len(op[u].chunk)
    /\ op[u].pc \in Hashed => op[u].hash # Nil /\ row[u].status = "uploading"
    /\ op[u].pc \in Stored => assets[op[u].hash] # Nil

TypeInv == TypeOK /\ \A u \in Uploads : SessionInv(u)

LEMMA NilFacts ==
    /\ \A c \in Content : c # Nil
    /\ \A u \in Uploads : u # Nil
    /\ \A a \in Asset : a # Nil
    /\ \A f \in File : f # Nil
BY NilAssumption

LEMMA RequestFacts ==
    ASSUME TypeOK, NEW u \in Uploads
    PROVE  /\ req[u].size \in 0..MaxSize
           /\ req[u].sha \in Content \cup {Nil}
           /\ req[u].ext \in Exts
           /\ req[u].dev \in DeviceAssets \cup {Nil}
BY DEF TypeOK, Request

LEMMA InitType == Init => TypeInv
<1> SUFFICES ASSUME Init PROVE TypeInv
  OBVIOUS
<1>1. req \in [Uploads -> Request]
  BY ConstantsAssumption DEF Init
<1>2. TypeOK
  BY <1>1, EmptyContent, BoundsAssumption
  DEF Init, TypeOK, Row, Status, Op, Step, Idle
<1>3. ASSUME NEW u \in Uploads PROVE SessionInv(u)
  BY EmptyContent, NilFacts DEF Init, SessionInv, Idle, Hashed, Stored
<1> QED
  BY <1>2, <1>3 DEF TypeInv

\* What a handler does to its own record of locals.
LEMMA GotoOp ==
    ASSUME op \in [Uploads -> Op], NEW u \in Uploads, NEW p \in Step, Goto(u, p)
    PROVE  /\ op' \in [Uploads -> Op]
           /\ \A v \in Uploads : v # u => op'[v] = op[v]
           /\ op'[u].pc = p /\ op'[u].hash = op[u].hash /\ op'[u].created = op[u].created
           /\ op'[u].fresh = op[u].fresh /\ op'[u].next = op[u].next
           /\ op'[u].chunk = op[u].chunk
BY DEF Goto, Op

LEMMA ReturnOp ==
    ASSUME op \in [Uploads -> Op], NEW u \in Uploads, Return(u)
    PROVE  /\ op' \in [Uploads -> Op]
           /\ \A v \in Uploads : v # u => op'[v] = op[v]
           /\ op'[u] = Idle /\ op'[u].pc = "idle"
<1>1. Idle \in Op
  BY EmptyContent, BoundsAssumption DEF Idle, Op, Step
<1> QED
  BY <1>1 DEF Return, Idle

LEMMA FlagOp ==
    ASSUME op \in [Uploads -> Op], NEW u \in Uploads, NEW p \in Step,
           \/ op' = [op EXCEPT ![u].pc = p, ![u].created = TRUE]
           \/ op' = [op EXCEPT ![u].pc = p, ![u].fresh = TRUE]
    PROVE  /\ op' \in [Uploads -> Op]
           /\ \A v \in Uploads : v # u => op'[v] = op[v]
           /\ op'[u].pc = p /\ op'[u].hash = op[u].hash
<1> DEFINE r == [op[u] EXCEPT !.pc = p, !.created = TRUE]
           q == [op[u] EXCEPT !.pc = p, !.fresh = TRUE]
<1>1. op[u] \in Op
  OBVIOUS
<1>2. r \in Op /\ r.pc = p /\ r.hash = op[u].hash
  BY <1>1, Zenon DEF Op
<1>3. q \in Op /\ q.pc = p /\ q.hash = op[u].hash
  BY <1>1, Zenon DEF Op
<1>4. op' = [op EXCEPT ![u] = r] \/ op' = [op EXCEPT ![u] = q]
  BY Zenon
<1> HIDE DEF r, q
<1> QED
  BY <1>2, <1>3, <1>4

LEMMA TroubleType ==
    ASSUME trouble \in 0..MaxTrouble, Trouble \/ NoTrouble \/ UNCHANGED trouble
    PROVE  trouble' \in 0..MaxTrouble
BY BoundsAssumption DEF Trouble, NoTrouble

\* What a handler does to the row of its session.
LEMMA StatusRow ==
    ASSUME row \in [Uploads -> Row], NEW u \in Uploads, NEW s \in Status,
           row' = [row EXCEPT ![u].status = s]
    PROVE  /\ row' \in [Uploads -> Row]
           /\ \A v \in Uploads : v # u => row'[v] = row[v]
           /\ row'[u].status = s /\ row'[u].received = row[u].received
BY DEF Row

\* The sessions of other handlers keep their invariant.
LEMMA SessionFrame ==
    ASSUME TypeInv, NEW v \in Uploads,
           op'[v] = op[v], row'[v] = row[v], part'[v] = part[v], acked'[v] = acked[v],
           \A c \in Content : assets[c] # Nil => assets'[c] # Nil
    PROVE  SessionInv(v)'
<1>1. op[v].hash # Nil => op[v].hash \in Content
  BY DEF TypeInv, TypeOK, Op
<1>2. op[v].pc \in Stored => op[v].pc \in Hashed
  BY DEF Hashed
<1>3. SessionInv(v)
  BY DEF TypeInv
<1> QED
  BY <1>1, <1>2, <1>3 DEF SessionInv

LEMMA CreateType ==
    ASSUME TypeInv, NEW u \in Uploads,
           CreateUpload(u) \/ InsertSession(u) \/ Expire(u)
    PROVE  TypeInv'
<1> USE DEF TypeInv
<1>0. TypeOK /\ trouble \in 0..MaxTrouble /\ op \in [Uploads -> Op] /\ row \in [Uploads -> Row]
      /\ SessionInv(u)
  BY DEF TypeOK
<1>1. CASE CreateUpload(u)
  <2>1. /\ op' \in [Uploads -> Op]
        /\ \A v \in Uploads : v # u => op'[v] = op[v]
        /\ op'[u].pc = "session"
    BY <1>0, <1>1, GotoOp DEF CreateUpload, Step
  <2>2. TypeOK'
    BY <1>0, <1>1, <2>1, EmptyContent DEF CreateUpload, TypeOK, dbVars
  <2>3. SessionInv(u)'
    BY <1>0, <1>1, <2>1, EmptyContent DEF CreateUpload, dbVars, SessionInv, Hashed, Stored
  <2>4. ASSUME NEW v \in Uploads, v # u PROVE SessionInv(v)'
    BY <1>0, <1>1, <2>1, <2>4, SessionFrame DEF CreateUpload, dbVars, TypeOK
  <2> QED
    BY <2>2, <2>3, <2>4
<1>2. CASE InsertSession(u)
  <2>1. /\ op' \in [Uploads -> Op]
        /\ \A v \in Uploads : v # u => op'[v] = op[v]
        /\ op'[u].pc = "idle"
    BY <1>0, <1>2, ReturnOp DEF InsertSession
  <2>2. /\ row' \in [Uploads -> Row]
        /\ \A v \in Uploads : v # u => row'[v] = row[v]
        /\ row'[u].received = row[u].received
        /\ row'[u].status = "uploading" \/ (row'[u].status = "absent" /\ part'[u] = Nil)
        /\ row[u].status = "absent"
    <3>1. row[u].status = "absent"
      BY <1>0, <1>2 DEF InsertSession, SessionInv
    <3>2. CASE row' = [row EXCEPT ![u].status = "uploading"]
      BY <1>0, <3>1, <3>2 DEF Row, Status
    <3>3. CASE part' = [part EXCEPT ![u] = Nil] /\ UNCHANGED row
      BY <1>0, <3>1, <3>3 DEF TypeOK
    <3> QED
      BY <1>2, <3>2, <3>3 DEF InsertSession
  <2>3. trouble' \in 0..MaxTrouble
    BY <1>0, <1>2, TroubleType DEF InsertSession
  <2>4. TypeOK'
    BY <1>0, <1>2, <2>1, <2>2, <2>3 DEF InsertSession, TypeOK
  <2>5. SessionInv(u)'
    BY <1>0, <1>2, <2>1, <2>2 DEF InsertSession, SessionInv, Hashed, Stored
  <2>6. ASSUME NEW v \in Uploads, v # u PROVE SessionInv(v)'
    BY <1>0, <1>2, <2>1, <2>2, <2>6, SessionFrame DEF InsertSession, TypeOK
  <2> QED
    BY <2>4, <2>5, <2>6
<1>3. CASE Expire(u)
  BY <1>3 DEF Expire, TypeOK, dbVars, fileVars, SessionInv
<1> QED
  BY <1>1, <1>2, <1>3

LEMMA AppendType ==
    ASSUME TypeInv, NEW u \in Uploads, NEW off \in 0..MaxSize, NEW d \in Sends,
           AppendChunk(u, off, d)
    PROVE  TypeInv'
<1> USE DEF TypeInv
<1>1. /\ d \in Content /\ Len(d) \in Nat /\ part[u] \in Content /\ off + Len(d) <= MaxSize
      /\ off \in Nat /\ off + Len(d) \in 0..MaxSize
      /\ off = row[u].received /\ row[u].status = "uploading" /\ op[u].pc = "idle"
      /\ op \in [Uploads -> Op] /\ op[u] \in Op /\ trouble \in 0..MaxTrouble /\ SessionInv(u)
  <2>1. d \in Content /\ Len(d) \in Nat
    BY ConstantsAssumption, ContentIsSeq, LenProperties
  <2>2. req[u].size \in 0..MaxSize
    BY RequestFacts
  <2> QED
    BY <2>1, <2>2, BoundsAssumption DEF AppendChunk, ChunkAccepted, TypeOK
<1>2. acked[u] # Nil
  BY <1>1, NilFacts DEF SessionInv
<1>3. ASSUME part' = [part EXCEPT ![u] = WriteAt(@, off, d)],
             op' = [op EXCEPT ![u].pc = "offset", ![u].chunk = d, ![u].next = off + Len(d)],
             NoTrouble
      PROVE  TypeInv'
  <2>1. WriteAt(part[u], off, d) \in Content
    BY <1>1, WriteAtContent
  <2>2. /\ op' \in [Uploads -> Op]
        /\ \A v \in Uploads : v # u => op'[v] = op[v]
        /\ op'[u].pc = "offset" /\ op'[u].chunk = d /\ op'[u].next = off + Len(d)
    BY <1>1, <1>3 DEF Op, Step
  <2>3. trouble' \in 0..MaxTrouble
    BY <1>1, <1>3, TroubleType
  <2>4. TypeOK'
    BY <1>1, <1>3, <2>1, <2>2, <2>3 DEF AppendChunk, TypeOK, dbVars
  <2>5. SessionInv(u)'
    BY <1>1, <1>2, <2>2 DEF AppendChunk, dbVars, SessionInv, Hashed, Stored
  <2>6. ASSUME NEW v \in Uploads, v # u PROVE SessionInv(v)'
    BY <1>3, <2>2, <2>6, SessionFrame DEF AppendChunk, dbVars, TypeOK
  <2> QED
    BY <2>4, <2>5, <2>6
<1>4. ASSUME Trouble, NEW n \in 0..(Len(d) - 1),
             part' = [part EXCEPT ![u] = WriteAt(@, off, SubSeq(d, 1, n))],
             UNCHANGED op
      PROVE  TypeInv'
  <2>1. n \in 0..Len(d)
    BY <1>1
  <2>2. SubSeq(d, 1, n) \in Content /\ Len(SubSeq(d, 1, n)) = n
    BY <1>1, <2>1, PrefixContent
  <2>3. off + Len(SubSeq(d, 1, n)) <= MaxSize
    BY <1>1, <2>1, <2>2, BoundsAssumption
  <2>4. WriteAt(part[u], off, SubSeq(d, 1, n)) \in Content
    BY <1>1, <2>2, <2>3, WriteAtContent
  <2>5. trouble' \in 0..MaxTrouble
    BY <1>1, <1>4, TroubleType
  <2>6. TypeOK'
    BY <1>1, <1>4, <2>4, <2>5 DEF AppendChunk, TypeOK, dbVars
  <2>7. SessionInv(u)'
    BY <1>1, <1>2, <1>4 DEF AppendChunk, dbVars, SessionInv, Hashed, Stored
  <2>8. ASSUME NEW v \in Uploads, v # u PROVE SessionInv(v)'
    BY <1>4, <2>8, SessionFrame DEF AppendChunk, dbVars, TypeOK
  <2> QED
    BY <2>6, <2>7, <2>8
<1> QED
  BY <1>3, <1>4 DEF AppendChunk

LEMMA ExpireType ==
    ASSUME TypeInv, NEW u \in Uploads, ChunkExpired(u) \/ MarkCancelled(u)
    PROVE  TypeInv'
<1> USE DEF TypeInv
<1>0. /\ TypeOK /\ trouble \in 0..MaxTrouble /\ op \in [Uploads -> Op]
      /\ row \in [Uploads -> Row] /\ SessionInv(u)
  BY DEF TypeOK
<1>1. CASE ChunkExpired(u)
  <2>1. /\ row' \in [Uploads -> Row]
        /\ \A v \in Uploads : v # u => row'[v] = row[v]
        /\ row'[u].status = "expired"
    BY <1>0, <1>1, StatusRow DEF ChunkExpired, Status
  <2>2. TypeOK'
    BY <1>0, <1>1, <2>1 DEF ChunkExpired, TypeOK, fileVars
  <2>3. SessionInv(u)'
    BY <1>0, <1>1, <2>1 DEF ChunkExpired, fileVars, SessionInv, Hashed, Stored
  <2>4. ASSUME NEW v \in Uploads, v # u PROVE SessionInv(v)'
    BY <1>1, <2>1, <2>4, SessionFrame DEF ChunkExpired, fileVars
  <2> QED
    BY <2>2, <2>3, <2>4
<1>2. CASE MarkCancelled(u)
  <2>1. /\ op' \in [Uploads -> Op]
        /\ \A v \in Uploads : v # u => op'[v] = op[v]
        /\ op'[u].pc = "idle"
    BY <1>0, <1>2, ReturnOp DEF MarkCancelled
  <2>2. /\ row' \in [Uploads -> Row]
        /\ \A v \in Uploads : v # u => row'[v] = row[v]
        /\ row'[u] = row[u] \/ row'[u].status = "cancelled"
    BY <1>0, <1>2, StatusRow DEF MarkCancelled, Status
  <2>3. trouble' \in 0..MaxTrouble
    BY <1>0, <1>2, TroubleType DEF MarkCancelled
  <2>4. TypeOK'
    BY <1>0, <1>2, <2>1, <2>2, <2>3 DEF MarkCancelled, TypeOK, fileVars
  <2>5. SessionInv(u)'
    BY <1>0, <1>2, <2>1, <2>2 DEF MarkCancelled, fileVars, SessionInv, Hashed, Stored
  <2>6. ASSUME NEW v \in Uploads, v # u PROVE SessionInv(v)'
    BY <1>2, <2>1, <2>2, <2>6, SessionFrame DEF MarkCancelled, fileVars
  <2> QED
    BY <2>4, <2>5, <2>6
<1> QED
  BY <1>1, <1>2

LEMMA OffsetType ==
    ASSUME TypeInv, NEW u \in Uploads, UpdateOffset(u)
    PROVE  TypeInv'
<1> USE DEF TypeInv
<1>0. /\ TypeOK /\ trouble \in 0..MaxTrouble /\ op \in [Uploads -> Op]
      /\ row \in [Uploads -> Row] /\ SessionInv(u) /\ op[u] \in Op
  BY DEF TypeOK
<1>1. /\ acked[u] \in Content /\ op[u].chunk \in Content
      /\ Len(acked[u]) = row[u].received /\ row[u].status = "uploading"
      /\ op[u].next = Len(acked[u]) + Len(op[u].chunk) /\ op[u].next \in 0..MaxSize
  BY <1>0 DEF UpdateOffset, TypeOK, SessionInv, Op
<1>2. /\ acked[u] \o op[u].chunk \in Content
      /\ Len(acked[u] \o op[u].chunk) = op[u].next
  <2>1. Len(acked[u]) + Len(op[u].chunk) <= MaxSize
    BY <1>1, BoundsAssumption
  <2> QED
    BY <1>1, <2>1, ConcatContent
<1>3. /\ op' \in [Uploads -> Op]
      /\ \A v \in Uploads : v # u => op'[v] = op[v]
      /\ op'[u].pc = "idle"
  BY <1>0, ReturnOp DEF UpdateOffset
<1>4. /\ row' \in [Uploads -> Row]
      /\ \A v \in Uploads : v # u => row'[v] = row[v]
      /\ row'[u].status = row[u].status
      /\ \/ row'[u].received = op[u].next /\ acked'[u] = acked[u] \o op[u].chunk
         \/ row' = row /\ acked' = acked
  <2>1. CASE row' = [row EXCEPT ![u].received = op[u].next] /\ acked' = [acked EXCEPT ![u] = @ \o op[u].chunk]
    <3>1. acked'[u] = acked[u] \o op[u].chunk
      BY <1>0, <2>1 DEF TypeOK
    <3> QED
      BY <1>0, <1>1, <2>1, <3>1 DEF Row
  <2>2. CASE UNCHANGED <<row, acked>>
    BY <1>0, <2>2
  <2> QED
    BY <2>1, <2>2 DEF UpdateOffset
<1>5. trouble' \in 0..MaxTrouble
  BY <1>0, TroubleType DEF UpdateOffset
<1>6. /\ acked' \in [Uploads -> Content \cup {Nil}]
      /\ \A v \in Uploads : v # u => acked'[v] = acked[v]
  BY <1>0, <1>2 DEF UpdateOffset, TypeOK
<1>7. TypeOK'
  BY <1>0, <1>3, <1>4, <1>5, <1>6 DEF UpdateOffset, TypeOK, fileVars
<1>8. SessionInv(u)'
  BY <1>0, <1>1, <1>2, <1>3, <1>4, NilFacts DEF UpdateOffset, fileVars, SessionInv, Hashed, Stored
<1>9. ASSUME NEW v \in Uploads, v # u PROVE SessionInv(v)'
  BY <1>3, <1>4, <1>6, <1>9, SessionFrame DEF UpdateOffset, fileVars
<1> QED
  BY <1>7, <1>8, <1>9

LEMMA CompleteType ==
    ASSUME TypeInv, NEW u \in Uploads, CompleteUpload(u)
    PROVE  TypeInv'
<1> USE DEF TypeInv
<1>0. /\ TypeOK /\ op \in [Uploads -> Op] /\ row \in [Uploads -> Row]
      /\ SessionInv(u) /\ part[u] \in Content /\ part[u] # Nil
  BY DEF TypeOK, CompleteUpload
<1>1. CASE op' = [op EXCEPT ![u].pc = "lookup", ![u].hash = part[u]] /\ UNCHANGED row
  <2>1. /\ op' \in [Uploads -> Op]
        /\ \A v \in Uploads : v # u => op'[v] = op[v]
        /\ op'[u].pc = "lookup" /\ op'[u].hash = part[u]
    BY <1>0, <1>1 DEF Op, Step
  <2>2. TypeOK'
    BY <1>0, <1>1, <2>1 DEF CompleteUpload, TypeOK, fileVars
  <2>3. SessionInv(u)'
    BY <1>0, <1>1, <2>1 DEF CompleteUpload, fileVars, SessionInv, Hashed, Stored
  <2>4. ASSUME NEW v \in Uploads, v # u PROVE SessionInv(v)'
    BY <1>1, <2>1, <2>4, SessionFrame DEF CompleteUpload, fileVars
  <2> QED
    BY <2>2, <2>3, <2>4
<1>2. CASE row' = [row EXCEPT ![u].status = "failed"] /\ UNCHANGED op
  <2>1. /\ row' \in [Uploads -> Row]
        /\ \A v \in Uploads : v # u => row'[v] = row[v]
        /\ row'[u].status = "failed"
    BY <1>0, <1>2, StatusRow DEF Status
  <2>2. TypeOK'
    BY <1>0, <1>2, <2>1 DEF CompleteUpload, TypeOK, fileVars
  <2>3. SessionInv(u)'
    BY <1>0, <1>2, <2>1 DEF CompleteUpload, fileVars, SessionInv, Hashed, Stored
  <2>4. ASSUME NEW v \in Uploads, v # u PROVE SessionInv(v)'
    BY <1>2, <2>1, <2>4, SessionFrame DEF CompleteUpload, fileVars
  <2> QED
    BY <2>2, <2>3, <2>4
<1> QED
  BY <1>1, <1>2 DEF CompleteUpload

LEMMA MarkType ==
    ASSUME TypeInv, NEW u \in Uploads, MarkCompleted(u)
    PROVE  TypeInv'
<1> USE DEF TypeInv
<1>0. /\ TypeOK /\ op \in [Uploads -> Op] /\ row \in [Uploads -> Row]
      /\ SessionInv(u) /\ trouble \in 0..MaxTrouble
  BY DEF TypeOK
<1>1. Hash(u) \in Content /\ req[u].size \in 0..MaxSize
  BY <1>0, RequestFacts DEF MarkCompleted, Hash, SessionInv, Op, Hashed, Stored
<1>2. trouble' \in 0..MaxTrouble
  BY <1>0, TroubleType DEF MarkCompleted
<1>3. /\ op' \in [Uploads -> Op]
      /\ \A v \in Uploads : v # u => op'[v] = op[v]
      /\ op'[u].pc \in {"idle", "unstage"}
  BY <1>0, GotoOp, ReturnOp DEF MarkCompleted, Step
<1>4. /\ row' \in [Uploads -> Row]
      /\ \A v \in Uploads : v # u => row'[v] = row[v]
      /\ row'[u] = row[u] \/ row'[u].status = "completed"
  BY <1>0, <1>1 DEF MarkCompleted, Row, Status
<1>5. TypeOK'
  BY <1>0, <1>2, <1>3, <1>4 DEF MarkCompleted, TypeOK, fileVars
<1>6. SessionInv(u)'
  BY <1>0, <1>3, <1>4 DEF MarkCompleted, fileVars, SessionInv, Hashed, Stored
<1>7. ASSUME NEW v \in Uploads, v # u PROVE SessionInv(v)'
  BY <1>3, <1>4, <1>7, SessionFrame DEF MarkCompleted, fileVars
<1> QED
  BY <1>5, <1>6, <1>7

LEMMA DropType ==
    ASSUME TypeInv, NEW u \in Uploads, RemoveStaging(u) \/ CancelUpload(u)
    PROVE  TypeInv'
<1> USE DEF TypeInv
<1>0. /\ TypeOK /\ op \in [Uploads -> Op] /\ SessionInv(u)
  BY DEF TypeOK
<1>1. /\ op' \in [Uploads -> Op]
      /\ \A v \in Uploads : v # u => op'[v] = op[v]
      /\ op'[u].pc \in {"idle", "cancel"}
  BY <1>0, GotoOp, ReturnOp DEF RemoveStaging, CancelUpload, Step
<1>2. /\ part' = [part EXCEPT ![u] = Nil] /\ part'[u] = Nil
      /\ acked' = acked \/ (acked' = [acked EXCEPT ![u] = Nil] /\ row[u].status # "absent")
  BY <1>0 DEF RemoveStaging, CancelUpload, TypeOK
<1>3. UNCHANGED <<req, row, late, assets, copies, links, jobs, tmp, orig, unseen, trouble>>
  BY DEF RemoveStaging, CancelUpload, dbVars
<1>4. TypeOK'
  BY <1>0, <1>1, <1>2, <1>3 DEF TypeOK
<1>5. SessionInv(u)'
  BY <1>0, <1>1, <1>2, <1>3 DEF SessionInv, Hashed, Stored, TypeOK
<1>6. ASSUME NEW v \in Uploads, v # u PROVE SessionInv(v)'
  BY <1>1, <1>2, <1>3, <1>6, SessionFrame DEF TypeOK
<1> QED
  BY <1>4, <1>5, <1>6

-----------------------------------------------------------------------------
(* The steps of ImportFile change no session row and no staging file.      *)

ImportFrame(u) ==
    /\ op' \in [Uploads -> Op]
    /\ \A v \in Uploads : v # u => op'[v] = op[v]
    /\ \/ op'[u].pc = "idle"
       \/ /\ op'[u].pc \in Hashed /\ op'[u].hash = op[u].hash
          /\ op'[u].pc \in Stored => assets'[op[u].hash] # Nil
    /\ \A c \in Content : assets[c] # Nil => assets'[c] # Nil

LEMMA ImportFrameType ==
    ASSUME TypeInv, NEW u \in Uploads, op[u].pc \in Hashed, ImportFrame(u),
           UNCHANGED <<req, row, late, part, acked>>,
           assets' \in [Content -> Asset \cup {Nil}], copies' \in SUBSET Content,
           links' \in [DeviceAssets -> Content \cup {Nil}], jobs' \in SUBSET Content,
           tmp' \in [Key -> File \cup {Nil}], orig' \in [Key -> File \cup {Nil}],
           unseen' \in SUBSET Content, trouble' \in 0..MaxTrouble
    PROVE  TypeInv'
<1>1. TypeOK'
  BY DEF TypeInv, TypeOK, ImportFrame
<1>2. SessionInv(u)'
  BY DEF TypeInv, SessionInv, ImportFrame, Hashed, Stored
<1>3. ASSUME NEW v \in Uploads, v # u PROVE SessionInv(v)'
  BY <1>3, SessionFrame DEF ImportFrame
<1> QED
  BY <1>1, <1>2, <1>3 DEF TypeInv

\* The hash and the destination of a running import are a content and a key.
LEMMA ImportKey ==
    ASSUME TypeInv, NEW u \in Uploads, op[u].pc \in Hashed
    PROVE  Hash(u) \in Content /\ Hash(u) = op[u].hash /\ Dest(u) \in Key
           /\ Dest(u) = <<Hash(u), req[u].ext>>
<1>1. Hash(u) \in Content /\ Hash(u) = op[u].hash
  BY DEF TypeInv, TypeOK, SessionInv, Op, Hash
<1>2. req[u].ext \in Exts
  BY RequestFacts DEF TypeInv
<1> QED
  BY <1>1, <1>2 DEF Dest, Hash, Key

LEMMA LookupType ==
    ASSUME TypeInv, NEW u \in Uploads, Lookup(u) \/ RecheckOriginal(u) \/ StatOriginal(u)
    PROVE  TypeInv'
<1>0. /\ op \in [Uploads -> Op] /\ trouble \in 0..MaxTrouble /\ op[u].pc \in Hashed
      /\ Hash(u) \in Content /\ Hash(u) = op[u].hash
  <2>1. op[u].pc \in Hashed
    BY DEF Lookup, RecheckOriginal, StatOriginal, Hashed, Stored
  <2> QED
    BY <2>1, ImportKey DEF TypeInv, TypeOK
<1>1. UNCHANGED <<req, row, late, part, acked, assets, links, jobs, tmp, orig>>
  BY DEF Lookup, RecheckOriginal, StatOriginal, dbVars, fileVars
<1>2. copies' \in SUBSET Content
  BY <1>0 DEF Lookup, RecheckOriginal, StatOriginal, dbVars, TypeInv, TypeOK
<1>3. trouble' \in 0..MaxTrouble /\ unseen' \in SUBSET Content
  BY <1>0, TroubleType DEF Lookup, RecheckOriginal, StatOriginal, TypeInv, TypeOK
<1>4. ASSUME op[u].pc = "recheck" PROVE assets[op[u].hash] # Nil
  BY <1>4 DEF TypeInv, SessionInv, Stored
<1>5. \/ Goto(u, "recheck") /\ assets[Hash(u)] # Nil
      \/ Goto(u, "stat") \/ Goto(u, "open") \/ Goto(u, "verify")
      \/ Goto(u, "link") /\ assets[Hash(u)] # Nil
      \/ Return(u)
  BY <1>0, <1>4 DEF Lookup, RecheckOriginal, StatOriginal
<1>6. ImportFrame(u)
  <2>1. CASE Return(u)
    BY <1>0, <1>1, <2>1, ReturnOp DEF ImportFrame
  <2>2. CASE Goto(u, "stat")
    BY <1>0, <1>1, <2>2, GotoOp DEF ImportFrame, Hashed, Stored, Step
  <2>3. CASE Goto(u, "open")
    BY <1>0, <1>1, <2>3, GotoOp DEF ImportFrame, Hashed, Stored, Step
  <2>4. CASE Goto(u, "verify")
    BY <1>0, <1>1, <2>4, GotoOp DEF ImportFrame, Hashed, Stored, Step
  <2>5. CASE Goto(u, "recheck") /\ assets[Hash(u)] # Nil
    BY <1>0, <1>1, <2>5, GotoOp DEF ImportFrame, Hashed, Stored, Step
  <2>6. CASE Goto(u, "link") /\ assets[Hash(u)] # Nil
    BY <1>0, <1>1, <2>6, GotoOp DEF ImportFrame, Hashed, Stored, Step
  <2> QED
    BY <1>5, <2>1, <2>2, <2>3, <2>4, <2>5, <2>6
<1> QED
  BY <1>0, <1>1, <1>2, <1>3, <1>6, ImportFrameType DEF TypeInv, TypeOK

LEMMA MaterializeType ==
    ASSUME TypeInv, NEW u \in Uploads, OpenTemp(u) \/ CopyBytes(u) \/ RenameTemp(u)
    PROVE  TypeInv'
<1>0. /\ op \in [Uploads -> Op] /\ trouble \in 0..MaxTrouble /\ op[u].pc \in Hashed
      /\ Hash(u) \in Content /\ Hash(u) = op[u].hash /\ Dest(u) \in Key
      /\ tmp \in [Key -> File \cup {Nil}] /\ orig \in [Key -> File \cup {Nil}]
  <2>1. op[u].pc \in Hashed
    BY DEF OpenTemp, CopyBytes, RenameTemp, Hashed, Stored
  <2> QED
    BY <2>1, ImportKey DEF TypeInv, TypeOK
<1>1. /\ UNCHANGED <<req, row, late, part, acked, assets, copies, links, jobs>>
      /\ unseen' \in SUBSET Content
  BY DEF OpenTemp, CopyBytes, RenameTemp, dbVars, TypeInv, TypeOK
<1>2. /\ Closed(tmp, u) \in [Key -> File \cup {Nil}]
      /\ Closed(orig, u) \in [Key -> File \cup {Nil}]
      /\ Written(tmp, u) \in [Key -> File \cup {Nil}]
      /\ Written(orig, u) \in [Key -> File \cup {Nil}]
  BY <1>0 DEF Closed, Written, File
<1>3. [bytes |-> <<>>, writer |-> u] \in File
  BY EmptyContent DEF File
<1>4. tmp' \in [Key -> File \cup {Nil}] /\ orig' \in [Key -> File \cup {Nil}]
  <2>1. CASE OpenTemp(u)
    BY <1>0, <1>3, <2>1 DEF OpenTemp
  <2>2. CASE CopyBytes(u)
    BY <1>0, <1>2, <2>2 DEF CopyBytes
  <2>3. CASE RenameTemp(u)
    BY <1>0, <2>3 DEF RenameTemp
  <2> QED
    BY <2>1, <2>2, <2>3
<1>5. trouble' \in 0..MaxTrouble
  BY <1>0, TroubleType DEF OpenTemp, CopyBytes, RenameTemp
<1>6. ImportFrame(u)
  <2>1. CASE Return(u)
    BY <1>0, <1>1, <2>1, ReturnOp DEF ImportFrame
  <2>2. CASE Goto(u, "copy")
    BY <1>0, <1>1, <2>2, GotoOp DEF ImportFrame, Hashed, Stored, Step
  <2>3. CASE Goto(u, "rename")
    BY <1>0, <1>1, <2>3, GotoOp DEF ImportFrame, Hashed, Stored, Step
  <2>4. CASE op' = [op EXCEPT ![u].pc = "verify", ![u].created = TRUE]
    <3>1. /\ op' \in [Uploads -> Op]
          /\ \A v \in Uploads : v # u => op'[v] = op[v]
          /\ op'[u].pc = "verify" /\ op'[u].hash = op[u].hash
      BY <1>0, <2>4, FlagOp, Zenon DEF Step
    <3> QED
      BY <1>1, <3>1 DEF ImportFrame, Hashed, Stored
  <2> QED
    BY <2>1, <2>2, <2>3, <2>4 DEF OpenTemp, CopyBytes, RenameTemp
<1> QED
  BY <1>0, <1>1, <1>4, <1>5, <1>6, ImportFrameType DEF TypeInv, TypeOK

LEMMA CommitType ==
    ASSUME TypeInv, NEW u \in Uploads, VerifyOriginal(u) \/ CommitAsset(u)
    PROVE  TypeInv'
<1>0. /\ op \in [Uploads -> Op] /\ trouble \in 0..MaxTrouble /\ op[u].pc \in Hashed
      /\ Hash(u) \in Content /\ Hash(u) = op[u].hash /\ Dest(u) \in Key
      /\ assets \in [Content -> Asset \cup {Nil}] /\ copies \in SUBSET Content
      /\ orig \in [Key -> File \cup {Nil}] /\ tmp \in [Key -> File \cup {Nil}]
      /\ req[u].dev \in DeviceAssets \cup {Nil}
  <2>1. op[u].pc \in Hashed
    BY DEF VerifyOriginal, CommitAsset, Hashed, Stored
  <2> QED
    BY <2>1, ImportKey, RequestFacts DEF TypeInv, TypeOK
<1>1. /\ UNCHANGED <<req, row, late, part, acked, links, jobs, tmp>>
      /\ unseen' \in SUBSET Content
  BY DEF VerifyOriginal, CommitAsset, dbVars, TypeInv, TypeOK
<1>2. orig' \in [Key -> File \cup {Nil}]
  BY <1>0 DEF VerifyOriginal, CommitAsset, DropCreated
<1>3. trouble' \in 0..MaxTrouble
  BY <1>0, TroubleType DEF VerifyOriginal, CommitAsset
<1>4. CASE UNCHANGED <<assets, copies>> /\ (Goto(u, "commit") \/ Return(u))
  <2>1. CASE Return(u)
    <3>1. ImportFrame(u)
      BY <1>0, <1>4, <2>1, ReturnOp DEF ImportFrame
    <3> QED
      BY <1>0, <1>1, <1>2, <1>3, <1>4, <3>1, ImportFrameType DEF TypeInv, TypeOK
  <2>2. CASE Goto(u, "commit")
    <3>1. ImportFrame(u)
      BY <1>0, <1>4, <2>2, GotoOp DEF ImportFrame, Hashed, Stored, Step
    <3> QED
      BY <1>0, <1>1, <1>2, <1>3, <1>4, <3>1, ImportFrameType DEF TypeInv, TypeOK
  <2> QED
    BY <1>4, <2>1, <2>2
<1>5. ASSUME assets' = [assets EXCEPT ![Hash(u)] =
                [key |-> Dest(u), dev |-> req[u].dev, preview |-> "pending"]],
             copies' = copies \cup {Hash(u)},
             op' = [op EXCEPT ![u].pc = "link", ![u].fresh = TRUE]
      PROVE  TypeInv'
  <2>1. [key |-> Dest(u), dev |-> req[u].dev, preview |-> "pending"] \in Asset
    BY <1>0 DEF Asset
  <2>2. /\ assets' \in [Content -> Asset \cup {Nil}] /\ assets'[Hash(u)] # Nil
        /\ \A c \in Content : assets[c] # Nil => assets'[c] # Nil
        /\ copies' \in SUBSET Content
    BY <1>0, <1>5, <2>1, NilFacts
  <2>3. /\ op' \in [Uploads -> Op]
        /\ \A v \in Uploads : v # u => op'[v] = op[v]
        /\ op'[u].pc = "link" /\ op'[u].hash = op[u].hash
    BY <1>0, <1>5, FlagOp, Zenon DEF Step
  <2>4. ImportFrame(u)
    BY <1>0, <2>2, <2>3 DEF ImportFrame, Hashed, Stored
  <2> QED
    BY <1>0, <1>1, <1>2, <1>3, <2>2, <2>4, ImportFrameType DEF TypeInv, TypeOK
<1> QED
  BY <1>4, <1>5 DEF VerifyOriginal, CommitAsset, dbVars

LEMMA LinkType ==
    ASSUME TypeInv, NEW u \in Uploads, LinkDeviceAsset(u) \/ QueueThumbnail(u)
    PROVE  TypeInv'
<1>0. /\ op \in [Uploads -> Op] /\ trouble \in 0..MaxTrouble /\ op[u].pc \in Hashed
      /\ Hash(u) \in Content /\ Hash(u) = op[u].hash
      /\ assets \in [Content -> Asset \cup {Nil}] /\ assets[Hash(u)] \in Asset
      /\ req[u].dev \in DeviceAssets \cup {Nil}
  <2>1. op[u].pc \in Hashed /\ op[u].pc \in Stored
    BY DEF LinkDeviceAsset, QueueThumbnail, Hashed, Stored
  <2>2. assets[op[u].hash] # Nil
    BY <2>1 DEF TypeInv, SessionInv
  <2> QED
    BY <2>1, <2>2, ImportKey, RequestFacts DEF TypeInv, TypeOK
<1>1. /\ UNCHANGED <<req, row, late, part, acked, copies, tmp, orig>>
      /\ unseen' \in SUBSET Content
  BY DEF LinkDeviceAsset, QueueThumbnail, fileVars, TypeInv, TypeOK
<1>2. links' \in [DeviceAssets -> Content \cup {Nil}]
  BY <1>0 DEF LinkDeviceAsset, QueueThumbnail, TypeInv, TypeOK
<1>3. jobs' \in SUBSET Content
  BY <1>0 DEF LinkDeviceAsset, QueueThumbnail, TypeInv, TypeOK
<1>4. trouble' \in 0..MaxTrouble
  BY <1>0, TroubleType DEF LinkDeviceAsset, QueueThumbnail
<1>5. /\ assets' \in [Content -> Asset \cup {Nil}]
      /\ \A c \in Content : assets[c] # Nil => assets'[c] # Nil
  <2>1. CASE assets' = [assets EXCEPT ![Hash(u)].preview = "unavailable"]
    <3>1. [assets[Hash(u)] EXCEPT !.preview = "unavailable"] \in Asset
      BY <1>0 DEF Asset
    <3>2. assets' = [assets EXCEPT ![Hash(u)] =
                        [assets[Hash(u)] EXCEPT !.preview = "unavailable"]]
      BY <1>0, <2>1
    <3> QED
      BY <1>0, <3>1, <3>2, NilFacts
  <2>2. CASE UNCHANGED assets
    BY <1>0, <2>2
  <2> QED
    BY <2>1, <2>2 DEF LinkDeviceAsset, QueueThumbnail
<1>6. ImportFrame(u)
  <2>1. CASE Return(u)
    BY <1>0, <1>5, <2>1, ReturnOp DEF ImportFrame
  <2>2. CASE Goto(u, "job")
    BY <1>0, <1>5, <2>2, GotoOp, NilFacts DEF ImportFrame, Hashed, Stored, Step
  <2>3. CASE Goto(u, "mark")
    BY <1>0, <1>5, <2>3, GotoOp, NilFacts DEF ImportFrame, Hashed, Stored, Step
  <2> QED
    BY <2>1, <2>2, <2>3 DEF LinkDeviceAsset, QueueThumbnail
<1> QED
  BY <1>0, <1>1, <1>2, <1>3, <1>4, <1>5, <1>6, ImportFrameType DEF TypeInv, TypeOK

LEMMA CrashType ==
    ASSUME TypeInv, Crash
    PROVE  TypeInv'
<1>1. Idle \in Op /\ Idle.pc = "idle"
  BY EmptyContent, BoundsAssumption DEF Idle, Op, Step
<1>2. op' \in [Uploads -> Op] /\ \A v \in Uploads : op'[v].pc = "idle"
  BY <1>1 DEF Crash
<1>3. tmp' \in [Key -> File \cup {Nil}] /\ orig' \in [Key -> File \cup {Nil}]
  BY DEF Crash, TypeInv, TypeOK, File
<1>4. trouble' \in 0..MaxTrouble
  BY TroubleType DEF Crash, TypeInv, TypeOK
<1>5. TypeOK'
  BY <1>2, <1>3, <1>4 DEF Crash, TypeInv, TypeOK, dbVars
<1>6. ASSUME NEW v \in Uploads PROVE SessionInv(v)'
  BY <1>2 DEF Crash, TypeInv, SessionInv, dbVars, Hashed, Stored
<1> QED
  BY <1>5, <1>6 DEF TypeInv

LEMMA StepType == TypeInv /\ [Next]_vars => TypeInv'
<1> SUFFICES ASSUME TypeInv, [Next]_vars PROVE TypeInv'
  OBVIOUS
<1>1. ASSUME NEW u \in Uploads, Handler(u) PROVE TypeInv'
  BY <1>1, CreateType, OffsetType, LookupType, MaterializeType, CommitType, LinkType,
     MarkType, DropType, ExpireType
  DEF Handler, Import
<1>2. ASSUME NEW u \in Uploads, Client(u) PROVE TypeInv'
  BY <1>2, CreateType, ExpireType, AppendType, CompleteType, DropType DEF Client
<1>3. ASSUME NEW u \in Uploads, Expire(u) PROVE TypeInv'
  BY <1>3, CreateType
<1>4. CASE UNCHANGED vars
  BY <1>4 DEF vars, dbVars, TypeInv, TypeOK, SessionInv
<1> QED
  BY <1>1, <1>2, <1>3, <1>4, CrashType DEF Next

(***************************************************************************)
(* Every variable keeps its type, whatever the clients send and whatever   *)
(* fails: no chunk grows a .part file beyond the limit, and no import step *)
(* uses a hash or a catalogue row that is not there.                       *)
(***************************************************************************)
THEOREM TypeCorrect == Spec => []TypeOK
<1>1. TypeInv => TypeOK
  BY DEF TypeInv
<1> QED
  BY <1>1, InitType, StepType, PTL DEF Spec

-----------------------------------------------------------------------------
(* The bytes of a session.  A .part file begins with what was acknowledged *)
(* and never grows beyond the declared size, so that when all is received  *)
(* it is just that; each step of the import leaves its record before the   *)
(* next one, and none of these records is ever taken back.                 *)

\* The file f begins with the bytes a.
Begins(f, a) == Len(a) <= Len(f) /\ \A i \in 1..Len(a) : f[i] = a[i]

StagedInv(u) ==
    /\ part[u] # Nil => Len(part[u]) <= req[u].size /\ Begins(part[u], acked[u])
    /\ row[u].status = "uploading" /\ acked[u] # Nil => part[u] # Nil
    /\ row[u].status = "absent" => row[u].received = 0
    /\ row[u].status # "completed" => row[u].asset = Nil
    /\ op[u].pc = "session" => part[u] # Nil
    /\ op[u].pc = "offset" => part[u] # Nil /\ Begins(part[u], acked[u] \o op[u].chunk)
    /\ op[u].pc = "cancel" => row[u].status \notin {"absent", "completed"}
    /\ op[u].pc = "unstage" => row[u].status = "completed"

Received(u, c) ==
    c # Nil /\ c = acked[u] /\ Len(c) = req[u].size /\ row[u].received = req[u].size
    /\ req[u].sha \in {Nil, c}

\* What the import of c for u has done.
Linked(u) == req[u].dev # Nil => links[req[u].dev] # Nil
Previewed(c) == IsImage(c) => c \in jobs

ImportInv(u) ==
    /\ op[u].pc \in Hashed => op[u].hash = part[u] /\ Received(u, op[u].hash)
    /\ op[u].pc \in {"link", "job", "mark"} => op[u].hash \in copies
    /\ op[u].pc \in {"job", "mark"} => Linked(u)
    /\ op[u].pc = "mark" => Previewed(op[u].hash)
    /\ row[u].status = "completed" =>
           /\ row[u].asset \in Content /\ Received(u, row[u].asset)
           /\ assets[row[u].asset] # Nil /\ row[u].asset \in copies
           /\ Linked(u) /\ Previewed(row[u].asset)

\* An image whose preview was ruled out would never get a job.
PreviewsOpen == \A c \in Content : assets[c] # Nil /\ IsImage(c) => assets[c].preview = "pending"

WholeInv == PreviewsOpen /\ \A u \in Uploads : StagedInv(u) /\ ImportInv(u)

LEMMA BeginsPrefix ==
    ASSUME NEW f \in Content, NEW a \in Content, Begins(f, a)
    PROVE  /\ SubSeq(f, 1, Len(a)) = a
           /\ Len(f) <= Len(a) => f = a
<1>1. /\ f \in Seq(Chunks) /\ Len(f) \in Nat /\ a \in Seq(Chunks) /\ Len(a) \in Nat
      /\ Len(a) <= Len(f) /\ \A i \in 1..Len(a) : f[i] = a[i]
  BY ContentIsSeq, LenProperties DEF Begins
<1>2. \A i \in 1..Len(a) : f[i] \in Chunks
  BY <1>1, ElementOfSeq
<1>3. /\ SubSeq(f, 1, Len(a)) \in Seq(Chunks)
      /\ Len(SubSeq(f, 1, Len(a))) = IF 1 <= Len(a) THEN Len(a) - 1 + 1 ELSE 0
      /\ \A i \in 1..Len(a) - 1 + 1 : SubSeq(f, 1, Len(a))[i] = f[1 + i - 1]
  BY <1>1, <1>2, SubSeqProperties
<1>4. /\ Len(SubSeq(f, 1, Len(a))) = Len(a)
      /\ \A i \in 1..Len(a) : SubSeq(f, 1, Len(a))[i] = a[i]
  BY <1>1, <1>3
<1>5. SubSeq(f, 1, Len(a)) = a
  BY <1>1, <1>3, <1>4, SeqEqual
<1>6. Len(f) <= Len(a) => f = a
  BY <1>1, SeqEqual
<1> QED
  BY <1>5, <1>6

\* A run that is written where the acknowledged bytes end keeps them and follows them.
LEMMA WriteAtBegins ==
    ASSUME NEW f \in Content, NEW a \in Content, NEW d \in Content,
           Begins(f, a), Len(a) + Len(d) <= MaxSize
    PROVE  LET g == WriteAt(f, Len(a), d) IN
           /\ Begins(g, a \o d) /\ Begins(g, a)
           /\ Len(g) <= Len(f) \/ Len(g) <= Len(a) + Len(d)
<1> DEFINE g == WriteAt(f, Len(a), d)
<1>1. /\ f \in Seq(Chunks) /\ Len(f) \in Nat
      /\ a \in Seq(Chunks) /\ Len(a) \in Nat
      /\ d \in Seq(Chunks) /\ Len(d) \in Nat
      /\ Len(a) <= Len(f) /\ \A i \in 1..Len(a) : f[i] = a[i]
  BY ContentIsSeq, LenProperties DEF Begins
<1>2. PICK n \in Nat : n = IF Len(f) > Len(a) + Len(d) THEN Len(f) ELSE Len(a) + Len(d)
  BY <1>1
<1>3. g \in Content
  BY <1>1, WriteAtContent
<1>4. g \in Seq(Chunks) /\ Len(g) = n
  <2>1. g \in Seq(Chunks) /\ Len(g) \in Nat /\ DOMAIN g = 1..Len(g)
    BY <1>3, ContentIsSeq, LenProperties
  <2>2. DOMAIN g = 1..n
    BY <1>2 DEF WriteAt
  <2> HIDE DEF g
  <2>3. \A i \in Nat : i \in 1..Len(g) <=> i \in 1..n
    BY <2>1, <2>2
  <2>4. n \in 1..n => n \in 1..Len(g)
    BY <1>2, <2>3
  <2>5. Len(g) \in 1..Len(g) => Len(g) \in 1..n
    BY <2>1, <2>3
  <2>6. PICK m \in Nat : m = Len(g)
    BY <2>1
  <2>7. m = n
    BY <1>2, <2>4, <2>5, <2>6
  <2> QED
    BY <2>1, <2>6, <2>7
<1>5. \A i \in 1..n : g[i] = IF i \in Len(a) + 1 .. Len(a) + Len(d) THEN d[i - Len(a)]
                             ELSE IF i <= Len(f) THEN f[i] ELSE Zero
  BY <1>2 DEF WriteAt
<1>6. \A i \in 1..Len(a) : g[i] = a[i]
  BY <1>1, <1>2, <1>5
<1>7. \A i \in Len(a) + 1 .. Len(a) + Len(d) : g[i] = d[i - Len(a)]
  BY <1>1, <1>2, <1>5
<1>8. /\ Len(a \o d) = Len(a) + Len(d)
      /\ \A i \in 1..Len(a) + Len(d) : (a \o d)[i] = IF i <= Len(a) THEN a[i] ELSE d[i - Len(a)]
  BY <1>1, ConcatProperties
<1> HIDE DEF g
<1>9. \A i \in 1..Len(a \o d) : g[i] = (a \o d)[i]
  BY <1>1, <1>6, <1>7, <1>8
<1>10. /\ Begins(g, a \o d) /\ Begins(g, a)
       /\ Len(g) <= Len(f) \/ Len(g) <= Len(a) + Len(d)
  BY <1>1, <1>2, <1>4, <1>6, <1>8, <1>9 DEF Begins
<1> QED
  BY <1>10 DEF g

LEMMA WholeInit == Init => WholeInv
<1> SUFFICES ASSUME Init PROVE WholeInv
  OBVIOUS
<1>1. PreviewsOpen
  BY DEF Init, PreviewsOpen
<1>2. ASSUME NEW u \in Uploads PROVE StagedInv(u) /\ ImportInv(u)
  BY DEF Init, Idle, StagedInv, ImportInv, Hashed, Stored
<1> QED
  BY <1>1, <1>2 DEF WholeInv

\* What the import of one session records, no other takes back.
Recorded ==
    /\ copies \subseteq copies' /\ jobs \subseteq jobs'
    /\ \A d \in DeviceAssets : links[d] # Nil => links'[d] # Nil
    /\ \A c \in Content : assets[c] # Nil => assets'[c] # Nil /\ assets'[c].key = assets[c].key

LEMMA RecordedStays ==
    ASSUME TypeInv, Recorded, UNCHANGED req, NEW u \in Uploads, NEW c \in Content
    PROVE  /\ Linked(u) => Linked(u)'
           /\ assets[c] # Nil /\ Previewed(c) => Previewed(c)'
           /\ c \in copies => c \in copies'
<1>1. req[u].dev \in DeviceAssets \cup {Nil}
  BY RequestFacts DEF TypeInv
<1> QED
  BY <1>1 DEF Recorded, Linked, Previewed, IsImage

\* The sessions of other handlers keep their part.
LEMMA WholeFrame ==
    ASSUME TypeInv, WholeInv, Recorded, UNCHANGED req, NEW v \in Uploads,
           op'[v] = op[v], row'[v] = row[v], part'[v] = part[v], acked'[v] = acked[v]
    PROVE  StagedInv(v)' /\ ImportInv(v)'
<1>1. StagedInv(v) /\ ImportInv(v)
  BY DEF WholeInv
<1>2. StagedInv(v)'
  BY <1>1 DEF StagedInv
<1>3. op[v].pc \in {"link", "job", "mark"} =>
          /\ op[v].pc \in Hashed /\ op[v].hash \in Content /\ assets[op[v].hash] # Nil
  <2> SUFFICES ASSUME op[v].pc \in {"link", "job", "mark"}
               PROVE  op[v].pc \in Hashed /\ op[v].hash \in Content /\ assets[op[v].hash] # Nil
    OBVIOUS
  <2>1. op[v].pc \in Hashed /\ op[v].pc \in Stored
    BY DEF Hashed, Stored
  <2> QED
    BY <2>1, ImportKey DEF TypeInv, SessionInv
<1>4. /\ op[v].pc \in {"link", "job", "mark"} => op[v].hash \in copies'
      /\ op[v].pc \in {"job", "mark"} => Linked(v)'
      /\ op[v].pc = "mark" => Previewed(op[v].hash)'
  <2>1. op[v].pc \in {"job", "mark"} => Linked(v)'
    <3>1. CASE op[v].pc \in {"job", "mark"}
      BY <1>1, <1>3, <3>1, RecordedStays DEF ImportInv
    <3> QED
      BY <3>1
  <2>2. op[v].pc = "mark" => op'[v].hash = op[v].hash /\ Previewed(op[v].hash)'
    <3>1. CASE op[v].pc = "mark"
      <4>1. PICK c \in Content : c = op[v].hash
        BY <1>3, <3>1
      <4>2. assets[c] # Nil /\ Previewed(c)
        BY <1>1, <1>3, <3>1, <4>1 DEF ImportInv
      <4>3. Previewed(c)'
        BY <4>2, RecordedStays
      <4> QED
        BY <4>1, <4>3 DEF Previewed, IsImage
    <3> QED
      BY <3>1
  <2>3. op[v].pc \in {"link", "job", "mark"} => op[v].hash \in copies'
    BY <1>1 DEF ImportInv, Recorded
  <2> QED
    BY <2>1, <2>2, <2>3
<1>5. op[v].pc \in Hashed => op[v].hash = part[v] /\ Received(v, op[v].hash)'
  BY <1>1 DEF ImportInv, Received
<1>6. ASSUME row[v].status = "completed"
      PROVE  /\ row'[v].asset \in Content /\ Received(v, row[v].asset)'
             /\ assets'[row[v].asset] # Nil /\ row[v].asset \in copies'
             /\ Linked(v)' /\ Previewed(row[v].asset)'
  <2>1. PICK c \in Content : c = row[v].asset
    BY <1>1, <1>6 DEF ImportInv
  <2>2. /\ Received(v, c) /\ assets[c] # Nil /\ c \in copies /\ Linked(v) /\ Previewed(c)
    BY <1>1, <1>6, <2>1 DEF ImportInv
  <2>3. assets'[c] # Nil /\ c \in copies' /\ Linked(v)' /\ Previewed(c)'
    BY <2>2, RecordedStays DEF Recorded
  <2>4. Received(v, c)'
    BY <2>2 DEF Received
  <2> QED
    BY <2>1, <2>3, <2>4 DEF Received, Previewed, IsImage
<1>7. ImportInv(v)'
  BY <1>1, <1>4, <1>5, <1>6 DEF ImportInv, Received, Previewed, IsImage
<1> QED
  BY <1>2, <1>7

\* A step that leaves the records of the catalogue alone.
LEMMA WholeStep ==
    ASSUME TypeInv, WholeInv, UNCHANGED <<req, assets, copies, links, jobs>>, NEW u \in Uploads,
           \A v \in Uploads : v # u => /\ op'[v] = op[v] /\ row'[v] = row[v]
                                       /\ part'[v] = part[v] /\ acked'[v] = acked[v],
           StagedInv(u)', ImportInv(u)'
    PROVE  WholeInv'
<1>1. Recorded
  BY DEF Recorded
<1>2. PreviewsOpen'
  BY DEF WholeInv, PreviewsOpen, IsImage
<1>3. ASSUME NEW v \in Uploads, v # u PROVE StagedInv(v)' /\ ImportInv(v)'
  BY <1>1, <1>3, WholeFrame
<1> QED
  BY <1>2, <1>3 DEF WholeInv

LEMMA CreateWhole ==
    ASSUME TypeInv, WholeInv, NEW u \in Uploads,
           CreateUpload(u) \/ InsertSession(u) \/ Expire(u)
    PROVE  WholeInv'
<1>0. /\ op \in [Uploads -> Op] /\ row \in [Uploads -> Row] /\ part \in [Uploads -> Content \cup {Nil}]
      /\ SessionInv(u) /\ StagedInv(u) /\ ImportInv(u) /\ acked[u] \in Content \cup {Nil}
      /\ req[u].size \in 0..MaxSize
  BY RequestFacts DEF TypeInv, TypeOK, WholeInv
<1>1. UNCHANGED <<req, assets, copies, links, jobs, acked>>
  BY DEF CreateUpload, InsertSession, Expire, dbVars
<1>2. CASE CreateUpload(u)
  <2>1. /\ \A v \in Uploads : v # u => op'[v] = op[v] /\ part'[v] = part[v]
        /\ op'[u].pc = "session" /\ part'[u] = <<>> /\ row' = row /\ row[u].status = "absent"
    BY <1>0, <1>2, GotoOp DEF CreateUpload, Step, dbVars
  <2>2. acked[u] \in Content /\ Len(acked[u]) = 0 /\ Len(<<>>) = 0 /\ <<>> # Nil
    BY <1>0, <2>1, EmptyContent, NilFacts DEF SessionInv, StagedInv
  <2>3. Begins(<<>>, acked[u])
    BY <2>2 DEF Begins
  <2>4. StagedInv(u)' /\ ImportInv(u)'
    BY <1>0, <1>1, <2>1, <2>2, <2>3 DEF StagedInv, ImportInv, Hashed, Stored
  <2> QED
    BY <1>1, <2>1, <2>4, WholeStep
<1>3. CASE InsertSession(u)
  <2>1. /\ \A v \in Uploads : v # u => op'[v] = op[v]
        /\ op'[u].pc = "idle" /\ op[u].pc = "session" /\ row[u].status = "absent"
    BY <1>0, <1>3, ReturnOp DEF InsertSession, SessionInv
  <2>2. \/ /\ part' = part /\ row'[u].status = "uploading" /\ row'[u].asset = row[u].asset
           /\ \A v \in Uploads : v # u => row'[v] = row[v]
        \/ /\ row' = row /\ part'[u] = Nil /\ \A v \in Uploads : v # u => part'[v] = part[v]
    <3>1. CASE row' = [row EXCEPT ![u].status = "uploading"] /\ UNCHANGED part
      BY <1>0, <3>1 DEF Row
    <3>2. CASE part' = [part EXCEPT ![u] = Nil] /\ UNCHANGED row
      BY <1>0, <3>2
    <3> QED
      BY <1>3, <3>1, <3>2 DEF InsertSession
  <2>3. StagedInv(u)' /\ ImportInv(u)'
    BY <1>0, <1>1, <2>1, <2>2 DEF StagedInv, ImportInv, Hashed, Stored
  <2> QED
    BY <1>1, <2>1, <2>2, <2>3, WholeStep
<1>4. CASE Expire(u)
  BY <1>4 DEF Expire, dbVars, fileVars, WholeInv, PreviewsOpen, StagedInv, ImportInv,
     Received, Linked, Previewed, IsImage
<1> QED
  BY <1>2, <1>3, <1>4

LEMMA AppendWhole ==
    ASSUME TypeInv, WholeInv, NEW u \in Uploads, NEW off \in 0..MaxSize, NEW d \in Sends,
           AppendChunk(u, off, d)
    PROVE  WholeInv'
<1>0. /\ op \in [Uploads -> Op] /\ part \in [Uploads -> Content \cup {Nil}]
      /\ SessionInv(u) /\ StagedInv(u) /\ ImportInv(u) /\ acked[u] \in Content \cup {Nil}
      /\ req[u].size \in 0..MaxSize /\ d \in Content
  BY RequestFacts, ConstantsAssumption DEF TypeInv, TypeOK, WholeInv
<1>1. /\ UNCHANGED <<req, row, assets, copies, links, jobs, acked>>
      /\ op[u].pc = "idle" /\ row[u].status = "uploading" /\ off = row[u].received
      /\ off + Len(d) <= req[u].size /\ part[u] # Nil
  BY DEF AppendChunk, ChunkAccepted, dbVars
<1>2. /\ acked[u] \in Content /\ acked[u] # Nil /\ Len(acked[u]) = off /\ part[u] \in Content
      /\ Begins(part[u], acked[u]) /\ Len(part[u]) <= req[u].size
  BY <1>0, <1>1 DEF SessionInv, StagedInv
<1>3. /\ Len(d) \in Nat /\ Len(part[u]) \in Nat /\ off \in Nat /\ off + Len(d) <= MaxSize
  BY <1>0, <1>1, <1>2, ContentIsSeq, LenProperties, BoundsAssumption
<1>4. ASSUME part' = [part EXCEPT ![u] = WriteAt(@, off, d)],
             op' = [op EXCEPT ![u].pc = "offset", ![u].chunk = d, ![u].next = off + Len(d)]
      PROVE  WholeInv'
  <2>1. PICK g \in Content : g = WriteAt(part[u], off, d)
    BY <1>2, <1>3, WriteAtContent, <1>0
  <2>2. Begins(g, acked[u] \o d) /\ Begins(g, acked[u])
        /\ (Len(g) <= Len(part[u]) \/ Len(g) <= off + Len(d))
    BY <1>0, <1>2, <1>3, <2>1, WriteAtBegins
  <2>3. Len(g) <= req[u].size /\ g # Nil
    <3>1. Len(g) \in Nat
      BY ContentIsSeq, LenProperties
    <3> QED
      BY <1>0, <1>1, <1>2, <1>3, <2>2, <3>1, NilFacts, BoundsAssumption
  <2>4. /\ \A v \in Uploads : v # u => op'[v] = op[v] /\ part'[v] = part[v]
        /\ op'[u].pc = "offset" /\ op'[u].chunk = d /\ part'[u] = g
    BY <1>0, <1>4, <2>1 DEF Op
  <2>5. StagedInv(u)' /\ ImportInv(u)'
    BY <1>0, <1>1, <2>2, <2>3, <2>4 DEF StagedInv, ImportInv, Hashed, Stored
  <2> QED
    BY <1>1, <2>4, <2>5, WholeStep
<1>5. ASSUME NEW n \in 0..(Len(d) - 1),
             part' = [part EXCEPT ![u] = WriteAt(@, off, SubSeq(d, 1, n))],
             UNCHANGED op
      PROVE  WholeInv'
  <2>1. PICK e \in Content : e = SubSeq(d, 1, n) /\ Len(e) = n
    <3>1. n \in 0..Len(d)
      BY <1>3
    <3> QED
      BY <1>0, <3>1, PrefixContent
  <2>2. off + Len(e) <= req[u].size /\ off + Len(e) <= MaxSize /\ Len(e) \in Nat
    BY <1>0, <1>1, <1>3, <2>1, BoundsAssumption
  <2>3. PICK g \in Content : g = WriteAt(part[u], off, e)
    BY <1>2, <1>3, <2>1, <2>2, WriteAtContent
  <2>4. Begins(g, acked[u]) /\ (Len(g) <= Len(part[u]) \/ Len(g) <= off + Len(e))
    BY <1>2, <1>3, <2>2, <2>3, WriteAtBegins
  <2>5. Len(g) <= req[u].size /\ g # Nil
    <3>1. Len(g) \in Nat
      BY ContentIsSeq, LenProperties
    <3> QED
      BY <1>0, <1>2, <1>3, <2>2, <2>4, <3>1, NilFacts, BoundsAssumption
  <2>6. /\ \A v \in Uploads : v # u => part'[v] = part[v]
        /\ part'[u] = g /\ op' = op
    BY <1>0, <1>5, <2>1, <2>3
  <2>7. StagedInv(u)' /\ ImportInv(u)'
    BY <1>0, <1>1, <2>4, <2>5, <2>6 DEF StagedInv, ImportInv, Hashed, Stored
  <2> QED
    BY <1>1, <2>6, <2>7, WholeStep
<1> QED
  BY <1>4, <1>5 DEF AppendChunk

LEMMA OffsetWhole ==
    ASSUME TypeInv, WholeInv, NEW u \in Uploads, UpdateOffset(u) \/ ChunkExpired(u)
    PROVE  WholeInv'
<1>0. /\ op \in [Uploads -> Op] /\ row \in [Uploads -> Row] /\ op[u] \in Op
      /\ acked \in [Uploads -> Content \cup {Nil}] /\ req[u].size \in 0..MaxSize
      /\ SessionInv(u) /\ StagedInv(u) /\ ImportInv(u)
  BY RequestFacts DEF TypeInv, TypeOK, WholeInv
<1>1. UNCHANGED <<req, part, assets, copies, links, jobs>>
  BY DEF UpdateOffset, ChunkExpired, fileVars
<1>2. CASE UpdateOffset(u)
  <2>1. /\ \A v \in Uploads : v # u => op'[v] = op[v]
        /\ op'[u].pc = "idle" /\ op[u].pc = "offset" /\ row[u].status = "uploading"
        /\ acked[u] \in Content /\ op[u].chunk \in Content
    BY <1>0, <1>2, ReturnOp DEF UpdateOffset, SessionInv, Op
  <2>2. \/ /\ row'[u].status = "uploading" /\ row'[u].asset = row[u].asset
           /\ acked'[u] = acked[u] \o op[u].chunk
           /\ \A v \in Uploads : v # u => row'[v] = row[v] /\ acked'[v] = acked[v]
        \/ UNCHANGED <<row, acked>>
    <3>1. CASE row' = [row EXCEPT ![u].received = op[u].next]
               /\ acked' = [acked EXCEPT ![u] = @ \o op[u].chunk]
      <4>1. row'[u].status = "uploading" /\ row'[u].asset = row[u].asset
            /\ \A v \in Uploads : v # u => row'[v] = row[v]
        BY <1>0, <2>1, <3>1 DEF Row
      <4> QED
        BY <1>0, <3>1, <4>1
    <3> QED
      BY <1>2, <3>1 DEF UpdateOffset
  <2>3. StagedInv(u)' /\ ImportInv(u)'
    BY <1>0, <1>1, <2>1, <2>2 DEF StagedInv, ImportInv, Hashed, Stored
  <2> QED
    BY <1>1, <2>1, <2>2, <2>3, WholeStep
<1>3. CASE ChunkExpired(u)
  <2>1. /\ row'[u].status = "expired" /\ row'[u].asset = row[u].asset /\ row[u].status = "uploading"
        /\ \A v \in Uploads : v # u => row'[v] = row[v]
        /\ op' = op /\ acked' = acked /\ op[u].pc = "idle"
    BY <1>0, <1>3 DEF ChunkExpired, Row
  <2>2. StagedInv(u)' /\ ImportInv(u)'
    BY <1>0, <1>1, <2>1 DEF StagedInv, ImportInv, Hashed, Stored
  <2> QED
    BY <1>1, <2>1, <2>2, WholeStep
<1> QED
  BY <1>2, <1>3

\* All is received, so the .part file is what was acknowledged.
LEMMA CompleteWhole ==
    ASSUME TypeInv, WholeInv, NEW u \in Uploads, CompleteUpload(u)
    PROVE  WholeInv'
<1>0. /\ op \in [Uploads -> Op] /\ row \in [Uploads -> Row] /\ op[u] \in Op
      /\ acked[u] \in Content \cup {Nil} /\ part[u] \in Content /\ part[u] # Nil
      /\ SessionInv(u) /\ StagedInv(u) /\ ImportInv(u)
  BY DEF TypeInv, TypeOK, WholeInv, CompleteUpload
<1>1. /\ UNCHANGED <<req, part, acked, assets, copies, links, jobs>>
      /\ op[u].pc = "idle" /\ row[u].status = "uploading" /\ row[u].received = req[u].size
  BY DEF CompleteUpload, fileVars
<1>2. CASE /\ req[u].sha \in {Nil, part[u]}
           /\ op' = [op EXCEPT ![u].pc = "lookup", ![u].hash = part[u]]
           /\ UNCHANGED row
  <2>1. acked[u] \in Content /\ Len(acked[u]) = req[u].size /\ part[u] = acked[u]
    BY <1>0, <1>1, BeginsPrefix DEF SessionInv, StagedInv
  <2>2. /\ \A v \in Uploads : v # u => op'[v] = op[v]
        /\ op'[u].pc = "lookup" /\ op'[u].hash = part[u]
    BY <1>0, <1>2 DEF Op
  <2>3. Received(u, part[u])'
    BY <1>0, <1>1, <1>2, <2>1 DEF Received
  <2>4. StagedInv(u)' /\ ImportInv(u)'
    BY <1>0, <1>1, <1>2, <2>2, <2>3 DEF StagedInv, ImportInv, Received
  <2> QED
    BY <1>1, <1>2, <2>2, <2>4, WholeStep
<1>3. CASE row' = [row EXCEPT ![u].status = "failed"] /\ UNCHANGED op
  <2>1. /\ row'[u].status = "failed" /\ row'[u].asset = row[u].asset
        /\ \A v \in Uploads : v # u => row'[v] = row[v]
    BY <1>0, <1>3 DEF Row
  <2>2. StagedInv(u)' /\ ImportInv(u)'
    BY <1>0, <1>1, <1>3, <2>1 DEF StagedInv, ImportInv, Hashed, Stored
  <2> QED
    BY <1>1, <1>3, <2>1, <2>2, WholeStep
<1> QED
  BY <1>2, <1>3 DEF CompleteUpload

\* A step of an import leaves the session as it is.
LEMMA ImportWhole ==
    ASSUME TypeInv, WholeInv, Recorded, PreviewsOpen', NEW u \in Uploads, op[u].pc \in Hashed,
           UNCHANGED <<req, row, part, acked>>,
           \A v \in Uploads : v # u => op'[v] = op[v],
           op'[u].pc = "idle" \/ (op'[u].pc \in Hashed /\ op'[u].hash = op[u].hash),
           op'[u].pc \in {"link", "job", "mark"} => op[u].hash \in copies',
           op'[u].pc \in {"job", "mark"} => Linked(u)',
           op'[u].pc = "mark" => Previewed(op[u].hash)'
    PROVE  WholeInv'
<1>1. /\ StagedInv(u) /\ ImportInv(u) /\ row[u].status = "uploading"
  BY DEF WholeInv, TypeInv, SessionInv
<1>2. StagedInv(u)'
  BY <1>1 DEF StagedInv, Hashed, Stored
<1>3. ImportInv(u)'
  <2>1. PICK c \in Content : c = op[u].hash
    BY ImportKey
  <2>2. c = part[u] /\ Received(u, c)'
    BY <1>1, <2>1 DEF ImportInv, Received
  <2>3. op'[u].pc \in Hashed => op'[u].hash = part'[u] /\ Received(u, op[u].hash)'
    BY <2>1, <2>2 DEF Hashed, Stored, Received
  <2>4. row'[u].status # "completed" /\ "idle" \notin Hashed
    BY <1>1 DEF Hashed, Stored
  <2>5. op'[u].pc \in {"link", "job", "mark"} => op'[u].hash \in copies'
    BY <2>4
  <2> QED
    BY <2>3, <2>4, <2>5 DEF ImportInv
<1>4. ASSUME NEW v \in Uploads, v # u PROVE StagedInv(v)' /\ ImportInv(v)'
  BY <1>4, WholeFrame
<1> QED
  BY <1>2, <1>3, <1>4 DEF WholeInv

LEMMA MaterializeWhole ==
    ASSUME TypeInv, WholeInv, NEW u \in Uploads,
           \/ Lookup(u) \/ RecheckOriginal(u) \/ StatOriginal(u)
           \/ OpenTemp(u) \/ CopyBytes(u) \/ RenameTemp(u) \/ VerifyOriginal(u)
    PROVE  WholeInv'
<1>0. /\ op \in [Uploads -> Op] /\ op[u].pc \in Hashed /\ Hash(u) = op[u].hash
  <2>1. op[u].pc \in Hashed
    BY DEF Lookup, RecheckOriginal, StatOriginal, OpenTemp, CopyBytes, RenameTemp,
       VerifyOriginal, Hashed, Stored
  <2> QED
    BY <2>1, ImportKey DEF TypeInv, TypeOK
<1>1. UNCHANGED <<req, row, part, acked, assets, links, jobs>> /\ copies \subseteq copies'
  BY DEF Lookup, RecheckOriginal, StatOriginal, OpenTemp, CopyBytes, RenameTemp,
     VerifyOriginal, dbVars, fileVars
<1>2. Recorded /\ PreviewsOpen'
  BY <1>1 DEF Recorded, WholeInv, PreviewsOpen, IsImage
<1>3. ASSUME NEW p \in {"recheck", "stat", "open", "copy", "rename", "verify", "commit"}, Goto(u, p)
      PROVE  WholeInv'
  <2>1. /\ \A v \in Uploads : v # u => op'[v] = op[v]
        /\ op'[u].pc = p /\ op'[u].hash = op[u].hash
    BY <1>0, <1>3, GotoOp DEF Step
  <2>2. p \in Hashed /\ p \notin {"link", "job", "mark"}
    BY DEF Hashed, Stored
  <2> QED
    BY <1>0, <1>1, <1>2, <2>1, <2>2, ImportWhole
<1>4. CASE Return(u)
  <2>1. op'[u].pc = "idle" /\ \A v \in Uploads : v # u => op'[v] = op[v]
    BY <1>0, <1>4, ReturnOp
  <2> QED
    BY <1>0, <1>1, <1>2, <2>1, ImportWhole
<1>5. CASE Goto(u, "link") /\ copies' = copies \cup {Hash(u)}
  <2>1. /\ \A v \in Uploads : v # u => op'[v] = op[v]
        /\ op'[u].pc = "link" /\ op'[u].hash = op[u].hash
    BY <1>0, <1>5, GotoOp DEF Step
  <2>2. op'[u].pc \in Hashed /\ op'[u].pc \notin {"job", "mark"} /\ op[u].hash \in copies'
    BY <1>0, <1>5, <2>1 DEF Hashed, Stored
  <2> QED
    BY <1>0, <1>1, <1>2, <2>1, <2>2, ImportWhole
<1>6. CASE op' = [op EXCEPT ![u].pc = "verify", ![u].created = TRUE]
  <2>1. /\ \A v \in Uploads : v # u => op'[v] = op[v]
        /\ op'[u].pc = "verify" /\ op'[u].hash = op[u].hash
    BY <1>0, <1>6, FlagOp, Zenon DEF Step
  <2>2. op'[u].pc \in Hashed /\ op'[u].pc \notin {"link", "job", "mark"}
    BY <2>1 DEF Hashed, Stored
  <2> QED
    BY <1>0, <1>1, <1>2, <2>1, <2>2, ImportWhole
<1> QED
  BY <1>3, <1>4, <1>5, <1>6
  DEF Lookup, RecheckOriginal, StatOriginal, OpenTemp, CopyBytes, RenameTemp, VerifyOriginal

LEMMA CommitWhole ==
    ASSUME TypeInv, WholeInv, NEW u \in Uploads, CommitAsset(u)
    PROVE  WholeInv'
<1>0. /\ op \in [Uploads -> Op] /\ op[u].pc \in Hashed /\ Hash(u) = op[u].hash
      /\ Hash(u) \in Content /\ Dest(u) \in Key /\ assets \in [Content -> Asset \cup {Nil}]
      /\ req[u].dev \in DeviceAssets \cup {Nil}
  <2>1. op[u].pc \in Hashed
    BY DEF CommitAsset, Hashed
  <2> QED
    BY <2>1, ImportKey, RequestFacts DEF TypeInv, TypeOK
<1>1. UNCHANGED <<req, row, part, acked, links, jobs>>
  BY DEF CommitAsset
<1>2. CASE Return(u) /\ UNCHANGED <<assets, copies>>
  <2>1. op'[u].pc = "idle" /\ \A v \in Uploads : v # u => op'[v] = op[v]
    BY <1>0, <1>2, ReturnOp
  <2>2. Recorded /\ PreviewsOpen'
    BY <1>1, <1>2 DEF Recorded, WholeInv, PreviewsOpen, IsImage
  <2> QED
    BY <1>0, <1>1, <2>1, <2>2, ImportWhole
<1>3. ASSUME assets[Hash(u)] = Nil,
             assets' = [assets EXCEPT ![Hash(u)] =
                [key |-> Dest(u), dev |-> req[u].dev, preview |-> "pending"]],
             copies' = copies \cup {Hash(u)},
             op' = [op EXCEPT ![u].pc = "link", ![u].fresh = TRUE]
      PROVE  WholeInv'
  <2>1. /\ \A v \in Uploads : v # u => op'[v] = op[v]
        /\ op'[u].pc = "link" /\ op'[u].hash = op[u].hash
    BY <1>0, <1>3, FlagOp, Zenon DEF Step
  <2>2. /\ assets'[Hash(u)].preview = "pending"
        /\ \A c \in Content : c # Hash(u) => assets'[c] = assets[c]
    BY <1>0, <1>3
  <2>3. Recorded
    BY <1>1, <1>3, <2>2 DEF Recorded
  <2>4. PreviewsOpen'
    <3>1. ASSUME NEW c \in Content, assets'[c] # Nil, assets'[c].key[2] \in ImageExts
          PROVE  assets'[c].preview = "pending"
      BY <2>2, <3>1 DEF WholeInv, PreviewsOpen, IsImage
    <3> QED
      BY <3>1 DEF PreviewsOpen, IsImage
  <2>5. op'[u].pc \in Hashed /\ op'[u].pc \notin {"job", "mark"} /\ op[u].hash \in copies'
    BY <1>0, <1>3, <2>1 DEF Hashed, Stored
  <2> QED
    BY <1>0, <1>1, <2>1, <2>3, <2>4, <2>5, ImportWhole
<1> QED
  BY <1>2, <1>3 DEF CommitAsset, Insertable

LEMMA LinkWhole ==
    ASSUME TypeInv, WholeInv, NEW u \in Uploads, LinkDeviceAsset(u)
    PROVE  WholeInv'
<1>0. /\ op \in [Uploads -> Op] /\ op[u].pc = "link" /\ op[u].pc \in Hashed
      /\ Hash(u) = op[u].hash /\ Hash(u) \in Content /\ Hash(u) # Nil /\ op[u].hash \in copies
      /\ links \in [DeviceAssets -> Content \cup {Nil}] /\ req[u].dev \in DeviceAssets \cup {Nil}
  <2>1. op[u].pc \in Hashed /\ op[u].pc = "link"
    BY DEF LinkDeviceAsset, Hashed, Stored
  <2>2. op[u].hash \in copies
    BY <2>1 DEF WholeInv, ImportInv
  <2> QED
    BY <2>1, <2>2, ImportKey, RequestFacts, NilFacts DEF TypeInv, TypeOK
<1>1. UNCHANGED <<req, row, part, acked, assets, copies, jobs>>
  BY DEF LinkDeviceAsset, fileVars
<1>2. PreviewsOpen'
  BY <1>1 DEF WholeInv, PreviewsOpen, IsImage
<1>3. CASE Return(u) /\ UNCHANGED links
  <2>1. op'[u].pc = "idle" /\ \A v \in Uploads : v # u => op'[v] = op[v]
    BY <1>0, <1>3, ReturnOp
  <2>2. Recorded
    BY <1>1, <1>3 DEF Recorded
  <2> QED
    BY <1>0, <1>1, <1>2, <2>1, <2>2, ImportWhole
<1>4. CASE /\ links' = IF req[u].dev = Nil THEN links ELSE [links EXCEPT ![req[u].dev] = Hash(u)]
           /\ Goto(u, "job")
  <2>1. /\ \A v \in Uploads : v # u => op'[v] = op[v]
        /\ op'[u].pc = "job" /\ op'[u].hash = op[u].hash
    BY <1>0, <1>4, GotoOp DEF Step
  <2>2. Linked(u)' /\ Recorded
    BY <1>0, <1>1, <1>4 DEF Linked, Recorded
  <2>3. op'[u].pc \in Hashed /\ op'[u].pc # "mark" /\ op[u].hash \in copies'
    BY <1>0, <1>1, <2>1 DEF Hashed, Stored
  <2> QED
    BY <1>0, <1>1, <1>2, <2>1, <2>2, <2>3, ImportWhole
<1> QED
  BY <1>3, <1>4 DEF LinkDeviceAsset

LEMMA QueueWhole ==
    ASSUME TypeInv, WholeInv, NEW u \in Uploads, QueueThumbnail(u)
    PROVE  WholeInv'
<1>0. /\ op \in [Uploads -> Op] /\ op[u].pc = "job" /\ op[u].pc \in Hashed
      /\ Hash(u) = op[u].hash /\ Hash(u) \in Content /\ op[u].hash \in copies /\ Linked(u)
      /\ assets \in [Content -> Asset \cup {Nil}] /\ assets[Hash(u)] # Nil
  <2>1. op[u].pc \in Hashed /\ op[u].pc = "job" /\ op[u].pc \in Stored
    BY DEF QueueThumbnail, Hashed, Stored
  <2>2. op[u].hash \in copies /\ Linked(u)
    BY <2>1 DEF WholeInv, ImportInv
  <2>3. assets[op[u].hash] # Nil
    BY <2>1 DEF TypeInv, SessionInv
  <2> QED
    BY <2>1, <2>2, <2>3, ImportKey DEF TypeInv, TypeOK
<1>1. UNCHANGED <<req, row, part, acked, copies, links>>
  BY DEF QueueThumbnail, fileVars
<1>2. \/ UNCHANGED assets
      \/ /\ ~IsImage(Hash(u))
         /\ assets'[Hash(u)] # Nil /\ assets'[Hash(u)].key = assets[Hash(u)].key
         /\ \A c \in Content : c # Hash(u) => assets'[c] = assets[c]
  <2>1. CASE ~ThumbnailDue(u) /\ op[u].fresh
             /\ assets' = [assets EXCEPT ![Hash(u)].preview = "unavailable"]
    <3>1. assets[Hash(u)] \in Asset
      BY <1>0
    <3> DEFINE r == [assets[Hash(u)] EXCEPT !.preview = "unavailable"]
    <3>2. r \in Asset /\ r.key = assets[Hash(u)].key
      BY <3>1 DEF Asset
    <3>3. assets' = [assets EXCEPT ![Hash(u)] = r]
      BY <1>0, <2>1
    <3>4. ~IsImage(Hash(u))
      BY <2>1 DEF ThumbnailDue
    <3> HIDE DEF r
    <3>5. assets'[Hash(u)] = r /\ r # Nil /\ \A c \in Content : c # Hash(u) => assets'[c] = assets[c]
      BY <1>0, <3>2, <3>3, NilFacts
    <3> QED
      BY <3>2, <3>4, <3>5
  <2> QED
    BY <2>1 DEF QueueThumbnail
<1>3. Recorded
  BY <1>0, <1>1, <1>2 DEF Recorded, QueueThumbnail
<1>4. PreviewsOpen'
  <2>1. ASSUME NEW c \in Content, assets'[c] # Nil, assets'[c].key[2] \in ImageExts
        PROVE  assets'[c].preview = "pending"
    BY <1>2, <2>1 DEF WholeInv, PreviewsOpen, IsImage
  <2> QED
    BY <2>1 DEF PreviewsOpen, IsImage
<1>5. CASE Return(u)
  <2>1. op'[u].pc = "idle" /\ \A v \in Uploads : v # u => op'[v] = op[v]
    BY <1>0, <1>5, ReturnOp
  <2> QED
    BY <1>0, <1>1, <1>3, <1>4, <2>1, ImportWhole
<1>6. CASE Goto(u, "mark") /\ (Hash(u) \in jobs' \/ ~ThumbnailDue(u))
  <2>1. /\ \A v \in Uploads : v # u => op'[v] = op[v]
        /\ op'[u].pc = "mark" /\ op'[u].hash = op[u].hash
    BY <1>0, <1>6, GotoOp DEF Step
  <2>2. Hash(u) \in jobs' \/ ~IsImage(Hash(u))
    BY <1>0, <1>6 DEF ThumbnailDue, WholeInv, PreviewsOpen
  <2>3. Previewed(op[u].hash)'
    <3>1. assets'[Hash(u)].key = assets[Hash(u)].key
      BY <1>0, <1>2
    <3> QED
      BY <1>0, <2>1, <2>2, <3>1 DEF Previewed, IsImage
  <2>4. Linked(u)'
    BY <1>0, <1>1 DEF Linked
  <2>5. op'[u].pc \in Hashed /\ op[u].hash \in copies'
    BY <1>0, <1>1, <2>1 DEF Hashed, Stored
  <2> QED
    BY <1>0, <1>1, <1>3, <1>4, <2>1, <2>3, <2>4, <2>5, ImportWhole
<1> QED
  BY <1>5, <1>6 DEF QueueThumbnail

LEMMA MarkWhole ==
    ASSUME TypeInv, WholeInv, NEW u \in Uploads, MarkCompleted(u)
    PROVE  WholeInv'
<1>0. /\ op \in [Uploads -> Op] /\ row \in [Uploads -> Row] /\ op[u].pc = "mark"
      /\ StagedInv(u) /\ ImportInv(u) /\ row[u].status = "uploading"
      /\ Hash(u) = op[u].hash /\ Hash(u) \in Content /\ assets[op[u].hash] # Nil
      /\ Received(u, op[u].hash)
  <2>1. op[u].pc \in Hashed /\ op[u].pc \in Stored /\ op[u].pc = "mark"
    BY DEF MarkCompleted, Hashed, Stored
  <2>2. ImportInv(u) /\ SessionInv(u)
    BY DEF WholeInv, TypeInv
  <2> QED
    BY <2>1, <2>2, ImportKey DEF TypeInv, TypeOK, WholeInv, SessionInv, ImportInv
<1>1. UNCHANGED <<req, part, acked, assets, copies, links, jobs>>
  BY DEF MarkCompleted, fileVars
<1>2. CASE row' = [row EXCEPT ![u] = [status |-> "completed", received |-> req[u].size,
                                      asset |-> Hash(u)]] /\ Goto(u, "unstage")
  <2>1. /\ \A v \in Uploads : v # u => op'[v] = op[v] /\ row'[v] = row[v]
        /\ op'[u].pc = "unstage" /\ row'[u].status = "completed"
        /\ row'[u].received = req[u].size /\ row'[u].asset = Hash(u)
    BY <1>0, <1>2, GotoOp DEF Step
  <2>2. StagedInv(u)'
    BY <1>0, <1>1, <2>1 DEF StagedInv
  <2>3. PICK c \in Content : c = op[u].hash
    BY <1>0
  <2>4. Received(u, c) /\ c \in copies /\ Linked(u) /\ Previewed(c) /\ assets[c] # Nil
    BY <1>0, <2>3 DEF ImportInv
  <2>5. Received(u, c)' /\ c \in copies' /\ Linked(u)' /\ Previewed(c)' /\ assets'[c] # Nil
    BY <1>1, <2>1, <2>4 DEF Received, Linked, Previewed, IsImage
  <2>6. row'[u].asset = c
    BY <1>0, <2>1, <2>3
  <2>7. ImportInv(u)'
    BY <2>1, <2>5, <2>6 DEF ImportInv, Hashed, Stored, Received, Previewed, IsImage
  <2> QED
    BY <1>1, <2>1, <2>2, <2>7, WholeStep
<1>3. CASE Return(u) /\ UNCHANGED row
  <2>1. op'[u].pc = "idle" /\ \A v \in Uploads : v # u => op'[v] = op[v]
    BY <1>0, <1>3, ReturnOp
  <2>2. StagedInv(u)' /\ ImportInv(u)'
    BY <1>0, <1>1, <1>3, <2>1 DEF StagedInv, ImportInv, Hashed, Stored
  <2> QED
    BY <1>1, <1>3, <2>1, <2>2, WholeStep
<1> QED
  BY <1>2, <1>3 DEF MarkCompleted

LEMMA DropWhole ==
    ASSUME TypeInv, WholeInv, NEW u \in Uploads,
           RemoveStaging(u) \/ CancelUpload(u) \/ MarkCancelled(u)
    PROVE  WholeInv'
<1>0. /\ op \in [Uploads -> Op] /\ row \in [Uploads -> Row] /\ part \in [Uploads -> Content \cup {Nil}]
      /\ acked \in [Uploads -> Content \cup {Nil}]
      /\ StagedInv(u) /\ ImportInv(u)
  BY DEF TypeInv, TypeOK, WholeInv
<1>1. UNCHANGED <<req, assets, copies, links, jobs>>
  BY DEF RemoveStaging, CancelUpload, MarkCancelled, dbVars, fileVars
<1>2. CASE RemoveStaging(u)
  <2>1. /\ \A v \in Uploads : v # u => op'[v] = op[v] /\ part'[v] = part[v]
        /\ op'[u].pc = "idle" /\ part'[u] = Nil /\ UNCHANGED <<row, acked>>
        /\ row[u].status = "completed"
    BY <1>0, <1>2, ReturnOp DEF RemoveStaging, dbVars, StagedInv
  <2>2. StagedInv(u)'
    BY <1>0, <1>1, <2>1 DEF StagedInv
  <2>3. ImportInv(u)'
    BY <1>0, <1>1, <2>1 DEF ImportInv, Hashed, Stored, Received, Linked, Previewed, IsImage
  <2> QED
    BY <1>1, <2>1, <2>2, <2>3, WholeStep
<1>3. CASE CancelUpload(u)
  <2>1. /\ \A v \in Uploads : v # u => op'[v] = op[v] /\ part'[v] = part[v] /\ acked'[v] = acked[v]
        /\ op'[u].pc = "cancel" /\ part'[u] = Nil /\ acked'[u] = Nil /\ row' = row
        /\ row[u].status \notin {"absent", "completed"}
    BY <1>0, <1>3, GotoOp DEF CancelUpload, dbVars, Step
  <2>2. StagedInv(u)' /\ ImportInv(u)'
    BY <1>0, <1>1, <2>1 DEF StagedInv, ImportInv, Hashed, Stored
  <2> QED
    BY <1>1, <2>1, <2>2, WholeStep
<1>4. CASE MarkCancelled(u)
  <2>1. /\ \A v \in Uploads : v # u => op'[v] = op[v] /\ row'[v] = row[v]
        /\ op'[u].pc = "idle" /\ UNCHANGED <<part, acked>>
        /\ row[u].status \notin {"absent", "completed"}
        /\ row' = row \/ (row'[u].status = "cancelled" /\ row'[u].asset = row[u].asset)
    <3>1. \A v \in Uploads : v # u => op'[v] = op[v]
      BY <1>0, <1>4, ReturnOp DEF MarkCancelled
    <3>2. op'[u].pc = "idle" /\ UNCHANGED <<part, acked>> /\ row[u].status \notin {"absent", "completed"}
      BY <1>0, <1>4, ReturnOp DEF MarkCancelled, fileVars, StagedInv
    <3>3. CASE row' = [row EXCEPT ![u].status = "cancelled"]
      BY <1>0, <3>1, <3>2, <3>3 DEF Row
    <3>4. CASE UNCHANGED row
      BY <3>1, <3>2, <3>4
    <3> QED
      BY <1>4, <3>3, <3>4 DEF MarkCancelled
  <2>2. StagedInv(u)' /\ ImportInv(u)'
    BY <1>0, <1>1, <2>1 DEF StagedInv, ImportInv, Hashed, Stored
  <2> QED
    BY <1>1, <2>1, <2>2, WholeStep
<1> QED
  BY <1>2, <1>3, <1>4

LEMMA CrashWhole ==
    ASSUME TypeInv, WholeInv, Crash
    PROVE  WholeInv'
<1>1. /\ UNCHANGED <<req, row, part, acked, assets, copies, links, jobs>>
      /\ \A u \in Uploads : op'[u].pc = "idle"
  BY DEF Crash, dbVars, Idle
<1>2. ASSUME NEW u \in Uploads PROVE StagedInv(u)' /\ ImportInv(u)'
  <2>1. StagedInv(u) /\ ImportInv(u) /\ op'[u].pc = "idle"
    BY <1>1 DEF WholeInv
  <2>2. StagedInv(u)'
    BY <1>1, <2>1 DEF StagedInv
  <2>3. ImportInv(u)'
    BY <1>1, <2>1 DEF ImportInv, Hashed, Stored, Received, Linked, Previewed, IsImage
  <2> QED
    BY <2>2, <2>3
<1>3. PreviewsOpen'
  BY <1>1 DEF WholeInv, PreviewsOpen, IsImage
<1> QED
  BY <1>2, <1>3 DEF WholeInv

LEMMA WholeNext == TypeInv /\ WholeInv /\ [Next]_vars => WholeInv'
<1> SUFFICES ASSUME TypeInv, WholeInv, [Next]_vars PROVE WholeInv'
  OBVIOUS
<1>1. ASSUME NEW u \in Uploads, Handler(u) PROVE WholeInv'
  BY <1>1, CreateWhole, OffsetWhole, MaterializeWhole, CommitWhole, LinkWhole, QueueWhole,
     MarkWhole, DropWhole
  DEF Handler, Import
<1>2. ASSUME NEW u \in Uploads, Client(u) PROVE WholeInv'
  BY <1>2, CreateWhole, OffsetWhole, AppendWhole, CompleteWhole, DropWhole DEF Client
<1>3. ASSUME NEW u \in Uploads, Expire(u) PROVE WholeInv'
  BY <1>3, CreateWhole
<1>4. CASE UNCHANGED vars
  BY <1>4 DEF vars, dbVars, WholeInv, PreviewsOpen, StagedInv, ImportInv,
     Received, Linked, Previewed, IsImage
<1> QED
  BY <1>1, <1>2, <1>3, <1>4, CrashWhole DEF Next

LEMMA WholeCorrect == Spec => [](TypeInv /\ WholeInv)
<1>1. Init => TypeInv /\ WholeInv
  BY InitType, WholeInit
<1>2. TypeInv /\ WholeInv /\ [Next]_vars => TypeInv' /\ WholeInv'
  BY StepType, WholeNext
<1> QED
  BY <1>1, <1>2, PTL DEF Spec

(***************************************************************************)
(* A completed session has just the bytes that were received and declared, *)
(* and all records of its import, however the imports of one content and   *)
(* the requests on one session interleave (CompleteUpload, ImportFile).    *)
(***************************************************************************)
THEOREM CompletedWhole == Spec => []CompletedIsWhole
<1>1. TypeInv /\ WholeInv => CompletedIsWhole
  <2> SUFFICES ASSUME TypeInv, WholeInv, NEW u \in Uploads, row[u].status = "completed"
               PROVE  LET c == row[u].asset IN
                      /\ c # Nil /\ c = acked[u] /\ req[u].sha \in {Nil, c}
                      /\ assets[c] # Nil /\ c \in copies
                      /\ req[u].dev # Nil => links[req[u].dev] # Nil
                      /\ IsImage(c) => c \in jobs
    BY DEF CompletedIsWhole
  <2>1. ImportInv(u)
    BY DEF WholeInv
  <2> QED
    BY <2>1 DEF ImportInv, Received, Linked, Previewed
<1> QED
  BY <1>1, WholeCorrect, PTL

(***************************************************************************)
(* An offset is never taken back, a completed session never changes, and a *)
(* failed or expired one can only be cancelled (service.go, the status     *)
(* checks of AppendChunk, CompleteUpload and CancelUpload).                *)
(***************************************************************************)
THEOREM SessionsProgress == Spec => SessionProgress
<1> DEFINE Onward(u) ==
        /\ row'[u].received >= row[u].received
        /\ row[u].status = "completed" => row'[u] = row[u]
        /\ row[u].status \in {"failed", "expired", "cancelled"} =>
                row'[u].status \in {row[u].status, "cancelled"}
<1>1. ASSUME TypeInv, WholeInv, Next, NEW v \in Uploads PROVE Onward(v)
  <2>0. /\ row \in [Uploads -> Row] /\ row[v] \in Row /\ row[v].received \in Nat
        /\ \A u \in Uploads : SessionInv(u) /\ StagedInv(u) /\ ImportInv(u)
    BY <1>1, BoundsAssumption DEF TypeInv, TypeOK, WholeInv, Row
  <2>1. CASE row'[v] = row[v]
    BY <2>0, <2>1
  <2>2. ASSUME NEW u \in Uploads, InsertSession(u) \/ ChunkExpired(u) \/ CompleteUpload(u) \/ MarkCancelled(u)
        PROVE  Onward(v)
    <3>1. CASE u # v
      BY <2>0, <2>1, <2>2, <3>1 DEF InsertSession, ChunkExpired, CompleteUpload, MarkCancelled
    <3>2. ASSUME NEW s \in Status, row' = [row EXCEPT ![u].status = s], u = v,
                 row[v].status \in {"absent", "uploading"} \/ (s = "cancelled" /\ row[v].status # "completed")
          PROVE  Onward(v)
      <4>1. row'[v].status = s /\ row'[v].received = row[v].received
        BY <2>0, <3>2, StatusRow
      <4> QED
        BY <2>0, <3>2, <4>1
    <3>3. /\ InsertSession(u) => row[u].status = "absent"
          /\ MarkCancelled(u) => row[u].status # "completed"
      BY <2>0, <2>2 DEF InsertSession, MarkCancelled, SessionInv, StagedInv
    <3> QED
      BY <2>1, <2>2, <3>1, <3>2, <3>3
      DEF InsertSession, ChunkExpired, CompleteUpload, MarkCancelled, Status
  <2>3. ASSUME NEW u \in Uploads, UpdateOffset(u) PROVE Onward(v)
    <3>1. CASE u # v
      BY <2>0, <2>1, <2>3, <3>1 DEF UpdateOffset
    <3>2. CASE u = v /\ row' = [row EXCEPT ![u].received = op[u].next]
      <4>1. /\ row'[v].received = op[v].next /\ row'[v].status = row[v].status
            /\ row[v].status = "uploading" /\ op[v].next = row[v].received + Len(op[v].chunk)
        BY <2>0, <2>3, <3>2 DEF UpdateOffset, SessionInv, Row
      <4>2. Len(op[v].chunk) \in Nat
        <5>1. op[v].chunk \in Content
          BY <1>1 DEF TypeInv, TypeOK, Op
        <5> QED
          BY <5>1, ContentIsSeq, LenProperties
      <4> QED
        BY <2>0, <4>1, <4>2
    <3> QED
      BY <2>1, <2>3, <3>1, <3>2 DEF UpdateOffset
  <2>4. ASSUME NEW u \in Uploads, MarkCompleted(u) PROVE Onward(v)
    <3>1. CASE u # v
      BY <2>0, <2>1, <2>4, <3>1 DEF MarkCompleted
    <3>2. CASE u = v /\ row' = [row EXCEPT ![u] = [status |-> "completed", received |-> req[u].size,
                                                   asset |-> Hash(u)]]
      <4>1. op[v].pc \in Hashed
        BY <2>4, <3>2 DEF MarkCompleted, Hashed, Stored
      <4>2. row[v].status = "uploading" /\ row[v].received = req[v].size
        BY <2>0, <4>1 DEF SessionInv, ImportInv, Received
      <4>3. row'[v].received = req[v].size
        BY <2>0, <3>2
      <4> QED
        BY <2>0, <4>2, <4>3
    <3> QED
      BY <2>1, <2>4, <3>1, <3>2 DEF MarkCompleted
  <2>5. ASSUME NEW u \in Uploads,
               \/ CreateUpload(u) \/ Expire(u) \/ Import(u) \/ RemoveStaging(u) \/ CancelUpload(u)
               \/ \E off \in 0..MaxSize, d \in Sends : AppendChunk(u, off, d)
        PROVE  Onward(v)
    BY <2>1, <2>5 DEF CreateUpload, Expire, Import, RemoveStaging, CancelUpload, AppendChunk, dbVars,
       Lookup, RecheckOriginal, StatOriginal, OpenTemp, CopyBytes, RenameTemp, VerifyOriginal,
       CommitAsset, LinkDeviceAsset, QueueThumbnail
  <2>6. CASE Crash
    BY <2>1, <2>6 DEF Crash, dbVars
  <2> QED
    BY <1>1, <2>2, <2>3, <2>4, <2>5, <2>6 DEF Next, Handler, Client
<1>2. TypeInv /\ WholeInv /\ [Next]_vars => [\A u \in Uploads : Onward(u)]_vars
  BY <1>1
<1> QED
  BY <1>2, WholeCorrect, PTL DEF Spec, SessionProgress

-----------------------------------------------------------------------------
(***************************************************************************)
(* The originals on disk, when nobody uses a path that an import is making *)
(* (SerialSpec).  The argument: a file that is being written is a .tmp of  *)
(* the one handler that copies it; a handler that may still remove or      *)
(* replace an original aims at a path that no catalogue row names; and the *)
(* row of an asset names a path that holds its bytes.  All of this is said *)
(* of the assets that no failing stat has put at risk.  With what is said  *)
(* of sessions above it follows that acknowledged bytes survive, and that  *)
(* uploads implement Archive.                                              *)
(***************************************************************************)

Writing == {"open", "copy", "rename"}
Placed  == {"verify", "commit"}
After   == {"link", "job", "mark", "unstage"}

\* Some asset that no failing stat has put at risk names the path k.
Catalogued(k) == \E c \in Content : Listed(c, k) /\ c \notin unseen

HandlerInv(u) ==
    /\ op[u].pc \notin Placed \cup After => op[u].created = FALSE
    /\ op[u].pc = "copy" => tmp[Dest(u)] = [bytes |-> <<>>, writer |-> u]
    /\ op[u].pc = "rename" => tmp[Dest(u)] = [bytes |-> Hash(u), writer |-> Nil]
    /\ op[u].pc \in Placed => orig[Dest(u)] # Nil
    /\ op[u].pc \in Writing \/ (op[u].pc \in Placed /\ op[u].created # FALSE) =>
            ~Catalogued(Dest(u))

WritersOpen ==
    \A k \in Key : tmp[k] # Nil /\ tmp[k].writer # Nil =>
        op[tmp[k].writer].pc = "copy" /\ Dest(tmp[k].writer) = k

FileInv ==
    /\ OriginalsAreWhole
    /\ NoLostOriginal
    /\ WritersOpen
    /\ \A u \in Uploads : HandlerInv(u)

LEMMA FileInit == Init => FileInv /\ SerialImports
<1> SUFFICES ASSUME Init PROVE FileInv /\ SerialImports
  OBVIOUS
<1>1. \A u \in Uploads : op[u].pc = "idle" /\ op[u].created = FALSE
  <2>1. op = [u \in Uploads |-> Idle]
    BY DEF Init
  <2> QED
    BY <2>1 DEF Idle
<1>2. OriginalsAreWhole /\ NoLostOriginal /\ WritersOpen
  BY DEF Init, OriginalsAreWhole, NoLostOriginal, WritersOpen
<1>3. \A u \in Uploads : HandlerInv(u)
  BY <1>1 DEF HandlerInv, Placed, After, Writing
<1>4. SerialImports
  BY <1>1 DEF SerialImports, Making
<1> QED
  BY <1>2, <1>3, <1>4 DEF FileInv

\* A step of u that touches no file under originals/, no catalogued path, and
\* no other handler, and that does not bring u to a path under originals/.
LEMMA FileFrame ==
    ASSUME FileInv, TypeOK, NEW u \in Uploads, op[u].pc # "copy",
           UNCHANGED <<req, tmp, orig, unseen>>,
           \A v \in Uploads : v # u => op'[v] = op[v],
           op'[u].pc \notin Writing \cup Placed,
           op'[u].created = FALSE \/ op'[u].pc \in After,
           \A c \in Content : /\ assets'[c] = Nil <=> assets[c] = Nil
                              /\ assets[c] # Nil => assets'[c].key = assets[c].key
    PROVE  FileInv'
<1>1. OriginalsAreWhole'
  BY DEF FileInv, OriginalsAreWhole
<1>2. NoLostOriginal'
  BY DEF FileInv, NoLostOriginal, Archived
<1>3. \A v \in Uploads : v # u => Dest(v)' = Dest(v) /\ Hash(v)' = Hash(v)
  BY DEF Dest, Hash
<1>4. WritersOpen'
  <2>1. \A k \in Key : tmp[k] # Nil /\ tmp[k].writer # Nil => tmp[k].writer \in Uploads
    BY DEF TypeOK, File
  <2> QED
    BY <1>3, <2>1 DEF FileInv, WritersOpen
<1>6. HandlerInv(u)'
  BY DEF HandlerInv, Writing, Placed
<1>7. ASSUME NEW v \in Uploads, v # u PROVE HandlerInv(v)'
  <2>1. HandlerInv(v) /\ op'[v] = op[v] /\ req'[v] = req[v] /\ tmp' = tmp /\ orig' = orig
    BY <1>7 DEF FileInv
  <2> QED
    BY <2>1 DEF HandlerInv, Catalogued, Listed, Dest, Hash
<1> QED
  BY <1>1, <1>2, <1>4, <1>6, <1>7 DEF FileInv

\* Requests on a session, before and after the import of its file.
LEMMA SessionFiles ==
    ASSUME FileInv, TypeInv, NEW u \in Uploads,
           \/ CreateUpload(u) \/ InsertSession(u) \/ Expire(u) \/ ChunkExpired(u)
           \/ UpdateOffset(u) \/ CompleteUpload(u) \/ MarkCompleted(u) \/ RemoveStaging(u)
           \/ CancelUpload(u) \/ MarkCancelled(u)
           \/ \E off \in 0..MaxSize, d \in Sends : AppendChunk(u, off, d)
    PROVE  FileInv'
<1>0. TypeOK /\ op \in [Uploads -> Op] /\ HandlerInv(u)
  BY DEF TypeInv, TypeOK, FileInv
<1>1. UNCHANGED <<req, tmp, orig, assets, unseen>>
  BY Zenon DEF CreateUpload, InsertSession, Expire, ChunkExpired, UpdateOffset, CompleteUpload,
         MarkCompleted, RemoveStaging, CancelUpload, MarkCancelled, AppendChunk, dbVars, fileVars
<1>2. CASE Return(u) /\ op[u].pc # "copy"
  <2>1. op'[u].pc = "idle" /\ op'[u].created = FALSE /\ \A v \in Uploads : v # u => op'[v] = op[v]
    BY <1>0, <1>2, ReturnOp DEF Idle
  <2> QED
    BY <1>0, <1>1, <1>2, <2>1, FileFrame DEF Writing, Placed
<1>3. CASE UNCHANGED op /\ op[u].pc = "idle"
  BY <1>0, <1>1, <1>3, FileFrame DEF HandlerInv, Writing, Placed, After
<1>4. ASSUME NEW p \in {"session", "cancel"}, Goto(u, p), op[u].pc = "idle" PROVE FileInv'
  <2>1. /\ \A v \in Uploads : v # u => op'[v] = op[v]
        /\ op'[u].pc = p /\ op'[u].created = op[u].created
    BY <1>0, <1>4, GotoOp DEF Step
  <2>2. op[u].created = FALSE
    BY <1>0, <1>4 DEF HandlerInv, Placed, After
  <2> QED
    BY <1>0, <1>1, <1>4, <2>1, <2>2, FileFrame DEF Writing, Placed
<1>5. CASE MarkCompleted(u)
  <2>1. CASE Goto(u, "unstage")
    BY <1>0, <1>1, <1>5, <2>1, GotoOp, FileFrame DEF MarkCompleted, Writing, Placed, After, Step
  <2> QED
    BY <1>2, <1>5, <2>1 DEF MarkCompleted
<1>6. CASE Expire(u)
  <2>1. UNCHANGED <<op, req, tmp, orig, assets, unseen>>
    BY <1>6 DEF Expire, dbVars, fileVars
  <2> QED
    BY <2>1 DEF FileInv, OriginalsAreWhole, NoLostOriginal, Archived, WritersOpen,
       HandlerInv, Catalogued, Listed, Dest, Hash
<1>7. ASSUME NEW p \in {"offset", "lookup"}, op[u].pc = "idle",
             \A v \in Uploads : v # u => op'[v] = op[v],
             op'[u].pc = p, op'[u].created = op[u].created
      PROVE  FileInv'
  <2>1. op[u].created = FALSE
    BY <1>0, <1>7 DEF HandlerInv, Placed, After
  <2> QED
    BY <1>0, <1>1, <1>7, <2>1, FileFrame DEF Writing, Placed
<1>8. CASE CompleteUpload(u)
  <2>1. CASE op' = [op EXCEPT ![u].pc = "lookup", ![u].hash = part[u]]
    BY <1>0, <1>7, <1>8, <2>1 DEF CompleteUpload, Op
  <2> QED
    BY <1>3, <1>8, <2>1 DEF CompleteUpload
<1>9. CASE \E off \in 0..MaxSize, d \in Sends : AppendChunk(u, off, d)
  <2>1. PICK off \in 0..MaxSize, d \in Sends : AppendChunk(u, off, d)
    BY <1>9
  <2>2. CASE op' = [op EXCEPT ![u].pc = "offset", ![u].chunk = d, ![u].next = off + Len(d)]
    <3>1. op[u].pc = "idle" /\ op[u] \in Op
      BY <1>0, <2>1 DEF AppendChunk, ChunkAccepted
    <3>2. /\ \A v \in Uploads : v # u => op'[v] = op[v]
          /\ op'[u].pc = "offset" /\ op'[u].created = op[u].created
      BY <1>0, <2>2, <3>1, Zenon DEF Op
    <3> QED
      BY <1>7, <3>1, <3>2
  <2> QED
    BY <1>3, <2>1, <2>2 DEF AppendChunk, ChunkAccepted
<1> QED
  BY <1>2, <1>3, <1>4, <1>5, <1>6, <1>8, <1>9
  DEF CreateUpload, InsertSession, ChunkExpired, UpdateOffset,
      RemoveStaging, CancelUpload, MarkCancelled

\* The import steps that touch no file.
LEMMA CatalogueFiles ==
    ASSUME FileInv, TypeInv, NEW u \in Uploads,
           Lookup(u) \/ RecheckOriginal(u) \/ LinkDeviceAsset(u) \/ QueueThumbnail(u)
    PROVE  FileInv'
<1>0. /\ TypeOK /\ op \in [Uploads -> Op] /\ HandlerInv(u) /\ op[u].pc # "copy"
      /\ assets \in [Content -> Asset \cup {Nil}]
  BY DEF TypeInv, TypeOK, FileInv, Lookup, RecheckOriginal, LinkDeviceAsset, QueueThumbnail
<1>1. UNCHANGED <<req, tmp, orig, unseen>>
  BY DEF Lookup, RecheckOriginal, LinkDeviceAsset, QueueThumbnail, fileVars
<1>2. \A c \in Content : /\ assets'[c] = Nil <=> assets[c] = Nil
                         /\ assets[c] # Nil => assets'[c].key = assets[c].key
  <2>1. CASE QueueThumbnail(u) /\ assets' = [assets EXCEPT ![Hash(u)].preview = "unavailable"]
    <3>1. op[u].pc \in Hashed /\ op[u].pc \in Stored
      BY <2>1 DEF QueueThumbnail, Hashed, Stored
    <3>2. Hash(u) \in Content /\ assets[Hash(u)] # Nil
      BY <3>1, ImportKey DEF TypeInv, SessionInv
    <3>3. assets[Hash(u)] \in Asset
      BY <1>0, <3>2
    <3>4. [assets[Hash(u)] EXCEPT !.preview = "unavailable"] \in Asset
      BY <3>3 DEF Asset
    <3>5. assets' = [assets EXCEPT ![Hash(u)] =
                        [assets[Hash(u)] EXCEPT !.preview = "unavailable"]]
      BY <1>0, <2>1, <3>2
    <3>6. [assets[Hash(u)] EXCEPT !.preview = "unavailable"].key = assets[Hash(u)].key
      BY <3>3 DEF Asset
    <3> QED
      BY <1>0, <3>2, <3>4, <3>5, <3>6, NilFacts
  <2>2. CASE UNCHANGED assets
    BY <2>2
  <2> QED
    BY <2>1, <2>2 DEF Lookup, RecheckOriginal, LinkDeviceAsset, QueueThumbnail, dbVars
<1>3. CASE Return(u)
  <2>1. op'[u].pc = "idle" /\ op'[u].created = FALSE /\ \A v \in Uploads : v # u => op'[v] = op[v]
    BY <1>0, <1>3, ReturnOp DEF Idle
  <2> QED
    BY <1>0, <1>1, <1>2, <2>1, FileFrame DEF Writing, Placed
<1>4. ASSUME NEW p \in {"recheck", "stat"}, Goto(u, p), op[u].pc = "lookup" PROVE FileInv'
  <2>1. /\ \A v \in Uploads : v # u => op'[v] = op[v]
        /\ op'[u].pc = p /\ op'[u].created = op[u].created
    BY <1>0, <1>4, GotoOp DEF Step
  <2>2. op[u].created = FALSE
    BY <1>0, <1>4 DEF HandlerInv, Placed, After
  <2> QED
    BY <1>0, <1>1, <1>2, <1>4, <2>1, <2>2, FileFrame DEF Writing, Placed
<1>5. ASSUME NEW p \in {"link", "job", "mark"}, Goto(u, p) PROVE FileInv'
  <2>1. /\ \A v \in Uploads : v # u => op'[v] = op[v]
        /\ op'[u].pc = p
    BY <1>0, <1>5, GotoOp DEF Step
  <2> QED
    BY <1>0, <1>1, <1>2, <1>5, <2>1, FileFrame DEF Writing, Placed, After
<1> QED
  BY <1>3, <1>4, <1>5 DEF Lookup, RecheckOriginal, LinkDeviceAsset, QueueThumbnail

\* While a handler makes an original, another one is at another path.
LEMMA OtherPath ==
    ASSUME SerialImports, NEW u \in Uploads, NEW v \in Uploads, v # u,
           op[u].pc \in Writing \cup Placed, op[v].pc \in Writing \cup Placed,
           Making(u) \/ Making(v)
    PROVE  Dest(v) # Dest(u)
BY DEF SerialImports, Importing, Writing, Placed

LEMMA StatFiles ==
    ASSUME FileInv, TypeInv, SerialImports, NEW u \in Uploads, StatOriginal(u)
    PROVE  FileInv'
<1>0. /\ TypeOK /\ op \in [Uploads -> Op] /\ HandlerInv(u) /\ op[u].pc = "stat"
      /\ op[u].created = FALSE
      /\ UNCHANGED <<req, tmp, orig, assets>> /\ unseen \subseteq unseen'
  BY DEF TypeInv, TypeOK, FileInv, StatOriginal, HandlerInv, Placed, After, dbVars, fileVars
<1>1. /\ \A v \in Uploads : v # u => op'[v] = op[v]
      /\ \/ op'[u].pc = "open" /\ orig[Dest(u)] = Nil
         \/ op'[u].pc = "verify" /\ orig[Dest(u)] # Nil
         \/ /\ op'[u].pc = "open"
            /\ unseen' = unseen \cup {c \in {Hash(u)} : Listed(c, Dest(u))}
      /\ op'[u].created = FALSE /\ op'[u].hash = op[u].hash
  BY <1>0, GotoOp DEF StatOriginal, Step
<1>2. OriginalsAreWhole' /\ NoLostOriginal'
  BY <1>0 DEF FileInv, OriginalsAreWhole, NoLostOriginal, Archived
<1>3. WritersOpen'
  <2>1. \A k \in Key : tmp[k] # Nil /\ tmp[k].writer # Nil => tmp[k].writer \in Uploads
    BY <1>0 DEF TypeOK, File
  <2> QED
    BY <1>0, <1>1, <2>1 DEF FileInv, WritersOpen, Dest
<1>4. ASSUME op'[u].pc = "open", NEW c \in Content, Listed(c, Dest(u)), c \notin unseen'
      PROVE  FALSE
  <2>1. Archived(c) /\ assets[c].key = Dest(u)
    BY <1>0, <1>4 DEF FileInv, NoLostOriginal, Listed
  <2>2. Dest(u)[1] = Hash(u)
    BY DEF Dest, Hash
  <2>3. c = Hash(u) /\ orig[Dest(u)] # Nil
    BY <2>1, <2>2 DEF Archived
  <2> QED
    BY <1>1, <1>4, <2>3
<1>5. HandlerInv(u)'
  BY <1>0, <1>1, <1>4 DEF HandlerInv, Writing, Placed, After, Catalogued, Listed, Dest, Hash
<1>6. ASSUME NEW v \in Uploads, v # u PROVE HandlerInv(v)'
  <2>1. HandlerInv(v) /\ op'[v] = op[v]
    BY <1>1, <1>6 DEF FileInv
  <2> QED
    BY <1>0, <2>1 DEF HandlerInv, Catalogued, Listed, Dest, Hash
<1> QED
  BY <1>2, <1>3, <1>5, <1>6 DEF FileInv

\* The steps on the temporary file of u: only its own temporary file changes.
LEMMA TempFiles ==
    ASSUME FileInv, TypeInv, SerialImports, NEW u \in Uploads, OpenTemp(u) \/ CopyBytes(u)
    PROVE  FileInv'
<1>0. /\ TypeOK /\ op \in [Uploads -> Op] /\ HandlerInv(u) /\ op[u].pc \in {"open", "copy"}
      /\ op[u].created = FALSE /\ ~Catalogued(Dest(u)) /\ UNCHANGED <<req, assets, unseen>>
      /\ tmp \in [Key -> File \cup {Nil}] /\ orig \in [Key -> File \cup {Nil}]
  BY DEF TypeInv, TypeOK, FileInv, OpenTemp, CopyBytes, HandlerInv, Placed, After, Writing, dbVars
<1>1. Dest(u) \in Key /\ Hash(u) \in Content /\ u # Nil
  <2>1. op[u].pc \in Hashed
    BY <1>0 DEF Hashed
  <2> QED
    BY <2>1, ImportKey, NilFacts
<1>2. /\ \A v \in Uploads : v # u => op'[v] = op[v]
      /\ op'[u].created = FALSE
      /\ \/ op'[u].pc = "idle" /\ tmp'[Dest(u)] = Nil
         \/ op'[u].pc = "copy" /\ op'[u].hash = op[u].hash /\ tmp'[Dest(u)] = [bytes |-> <<>>, writer |-> u]
         \/ op'[u].pc = "rename" /\ op'[u].hash = op[u].hash /\ tmp'[Dest(u)] = [bytes |-> Hash(u), writer |-> Nil]
      /\ \A k \in Key : k # Dest(u) => tmp'[k] = tmp[k]
      /\ orig' = orig /\ tmp' \in [Key -> File \cup {Nil}]
  <2>1. CASE OpenTemp(u)
    <3>1. tmp' \in [Key -> File \cup {Nil}] /\ orig' = orig
      BY <2>1, MaterializeType DEF TypeInv, TypeOK, OpenTemp
    <3>2. CASE Goto(u, "copy") /\ tmp' = [tmp EXCEPT ![Dest(u)] = [bytes |-> <<>>, writer |-> u]]
      BY <1>0, <1>1, <3>1, <3>2, GotoOp DEF Step
    <3>3. CASE Return(u) /\ tmp' = [tmp EXCEPT ![Dest(u)] = Nil]
      BY <1>0, <1>1, <3>1, <3>3, ReturnOp DEF Idle
    <3> QED
      BY <2>1, <3>2, <3>3 DEF OpenTemp
  <2>2. CASE CopyBytes(u)
    <3>1. tmp' \in [Key -> File \cup {Nil}] /\ op[u].pc = "copy"
      BY <2>2, MaterializeType DEF TypeInv, TypeOK, CopyBytes
    <3>2. /\ tmp[Dest(u)] = [bytes |-> <<>>, writer |-> u]
          /\ \A k \in Key : tmp[k] # Nil /\ tmp[k].writer = u => k = Dest(u)
      BY <1>0, <1>1, <3>1 DEF FileInv, HandlerInv, WritersOpen
    <3>3. \A k \in Key : orig[k] # Nil => orig[k].writer # u
      <4> SUFFICES ASSUME NEW k \in Key, orig[k] # Nil PROVE orig[k].writer # u
        OBVIOUS
      <4>1. orig[k] = [bytes |-> k[1], writer |-> Nil]
        BY DEF FileInv, OriginalsAreWhole
      <4>2. orig[k].writer = Nil
        BY <4>1
      <4> QED
        BY <1>1, <4>2
    <3>4. Written(orig, u) = orig /\ Closed(orig, u) = orig
      BY <1>0, <3>3 DEF Written, Closed
    <3>5. tmp[Dest(u)] \in File /\ tmp[Dest(u)] # Nil /\ tmp[Dest(u)].writer = u
      BY <1>0, <1>1, <3>2, EmptyContent, NilFacts DEF File
    <3>6. CASE tmp' = Written(tmp, u) /\ orig' = Written(orig, u) /\ Goto(u, "rename")
      BY <1>0, <1>1, <3>1, <3>2, <3>4, <3>5, <3>6, GotoOp DEF Written, Step
    <3>7. CASE tmp' = [Closed(tmp, u) EXCEPT ![Dest(u)] = Nil] /\ orig' = Closed(orig, u) /\ Return(u)
      <4>1. tmp'[Dest(u)] = Nil /\ \A k \in Key : k # Dest(u) => tmp'[k] = tmp[k]
        BY <1>0, <1>1, <3>2, <3>7 DEF Closed
      <4> QED
        BY <1>0, <3>1, <3>4, <3>7, <4>1, ReturnOp DEF Idle
    <3> QED
      BY <2>2, <3>6, <3>7 DEF CopyBytes
  <2> QED
    BY <2>1, <2>2
<1>3. OriginalsAreWhole' /\ NoLostOriginal'
  BY <1>0, <1>2 DEF FileInv, OriginalsAreWhole, NoLostOriginal, Archived
<1>4. WritersOpen'
  <2>1. ASSUME NEW k \in Key, k # Dest(u), tmp[k] # Nil, tmp[k].writer # Nil
        PROVE  tmp[k].writer \in Uploads /\ tmp[k].writer # u
    BY <1>0, <2>1 DEF File, FileInv, WritersOpen
  <2> QED
    BY <1>0, <1>1, <1>2, <2>1 DEF FileInv, WritersOpen, Dest
<1>5. HandlerInv(u)'
  BY <1>0, <1>2 DEF HandlerInv, Writing, Placed, After, Catalogued, Listed, Dest, Hash
<1>6. ASSUME NEW v \in Uploads, v # u PROVE HandlerInv(v)'
  <2>1. HandlerInv(v) /\ op'[v] = op[v]
    BY <1>2, <1>6 DEF FileInv
  <2>2. op[v].pc \in {"copy", "rename"} => Dest(v) \in Key /\ tmp'[Dest(v)] = tmp[Dest(v)]
    <3>1. op[v].pc \in {"copy", "rename"} => Dest(v) # Dest(u)
      BY <1>0, <1>6, OtherPath DEF Writing, Making
    <3>2. op[v].pc \in {"copy", "rename"} => Dest(v) \in Key
      BY ImportKey DEF Hashed
    <3> QED
      BY <1>2, <3>1, <3>2
  <2> QED
    BY <1>0, <1>2, <2>1, <2>2 DEF HandlerInv, Catalogued, Listed, Dest, Hash
<1> QED
  BY <1>3, <1>4, <1>5, <1>6 DEF FileInv

LEMMA RenameFiles ==
    ASSUME FileInv, TypeInv, SerialImports, NEW u \in Uploads, RenameTemp(u)
    PROVE  FileInv'
<1>0. /\ TypeOK /\ op \in [Uploads -> Op] /\ HandlerInv(u) /\ op[u].pc = "rename"
      /\ ~Catalogued(Dest(u)) /\ UNCHANGED <<req, assets, unseen>>
      /\ tmp[Dest(u)] = [bytes |-> Hash(u), writer |-> Nil]
      /\ tmp \in [Key -> File \cup {Nil}] /\ orig \in [Key -> File \cup {Nil}]
  BY DEF TypeInv, TypeOK, FileInv, RenameTemp, HandlerInv, Writing, dbVars
<1>1. /\ Dest(u) \in Key /\ Hash(u) \in Content /\ Dest(u)[1] = Hash(u)
      /\ tmp[Dest(u)] \in File /\ tmp[Dest(u)] # Nil
  <2>1. op[u].pc \in Hashed
    BY <1>0 DEF Hashed
  <2>2. Dest(u) \in Key /\ Hash(u) \in Content /\ Dest(u)[1] = Hash(u)
    BY <2>1, ImportKey
  <2> QED
    BY <1>0, <2>2, NilFacts DEF File
<1>2. /\ \A v \in Uploads : v # u => op'[v] = op[v]
      /\ \/ op'[u].pc = "idle" /\ op'[u].created = FALSE
         \/ op'[u].pc = "verify" /\ op'[u].hash = op[u].hash /\ orig'[Dest(u)] # Nil
      /\ tmp'[Dest(u)] = Nil
      /\ orig' = orig \/ orig'[Dest(u)] = [bytes |-> Hash(u), writer |-> Nil]
      /\ \A k \in Key : k # Dest(u) => tmp'[k] = tmp[k] /\ orig'[k] = orig[k]
  <2>1. CASE orig' = [orig EXCEPT ![Dest(u)] = tmp[Dest(u)]] /\ tmp' = [tmp EXCEPT ![Dest(u)] = Nil]
    <3>1. /\ tmp'[Dest(u)] = Nil /\ orig'[Dest(u)] = tmp[Dest(u)]
          /\ \A k \in Key : k # Dest(u) => tmp'[k] = tmp[k] /\ orig'[k] = orig[k]
      BY <1>0, <1>1, <2>1
    <3>2. CASE op' = [op EXCEPT ![u].pc = "verify", ![u].created = TRUE]
      <4>1. /\ op'[u].pc = "verify" /\ op'[u].hash = op[u].hash
            /\ \A v \in Uploads : v # u => op'[v] = op[v]
        BY <1>0, <3>2, FlagOp, Zenon DEF Step
      <4> QED
        BY <1>0, <1>1, <3>1, <4>1
    <3>3. CASE Return(u)
      BY <1>0, <1>1, <3>1, <3>3, ReturnOp DEF Idle
    <3> QED
      BY <1>1, <2>1, <3>2, <3>3 DEF RenameTemp
  <2>2. CASE tmp' = [tmp EXCEPT ![Dest(u)] = Nil] /\ Return(u) /\ UNCHANGED orig
    BY <1>0, <1>1, <2>2, ReturnOp DEF Idle
  <2> QED
    BY <1>1, <2>1, <2>2 DEF RenameTemp
<1>3. OriginalsAreWhole'
  BY <1>1, <1>2 DEF FileInv, OriginalsAreWhole
<1>4. NoLostOriginal'
  BY <1>0, <1>2 DEF FileInv, NoLostOriginal, Archived, Catalogued, Listed, TypeOK, Asset
<1>5. WritersOpen'
  <2>1. ASSUME NEW k \in Key, k # Dest(u), tmp[k] # Nil, tmp[k].writer # Nil
        PROVE  tmp[k].writer \in Uploads /\ tmp[k].writer # u
    BY <1>0, <2>1 DEF File, FileInv, WritersOpen
  <2> QED
    BY <1>0, <1>1, <1>2, <2>1 DEF FileInv, WritersOpen, Dest
<1>6. HandlerInv(u)'
  BY <1>0, <1>2 DEF HandlerInv, Writing, Placed, After, Catalogued, Listed, Dest, Hash
<1>7. ASSUME NEW v \in Uploads, v # u PROVE HandlerInv(v)'
  <2>1. HandlerInv(v) /\ op'[v] = op[v]
    BY <1>2, <1>7 DEF FileInv
  <2>2. op[v].pc \in Writing \cup Placed =>
            tmp'[Dest(v)] = tmp[Dest(v)] /\ orig'[Dest(v)] = orig[Dest(v)]
    <3>1. op[v].pc \in Writing \cup Placed => Dest(v) # Dest(u)
      BY <1>0, <1>7, OtherPath DEF Writing, Making
    <3>2. op[v].pc \in Writing \cup Placed => Dest(v) \in Key
      BY ImportKey DEF Hashed, Writing, Placed
    <3> QED
      BY <1>2, <3>1, <3>2
  <2> QED
    BY <1>0, <2>1, <2>2 DEF HandlerInv, Catalogued, Listed, Dest, Hash, Writing, Placed
<1> QED
  BY <1>3, <1>4, <1>5, <1>6, <1>7 DEF FileInv

\* Dropping a destination that this call created, or passing to the commit.
LEMMA DropFiles ==
    ASSUME FileInv, TypeInv, SerialImports, NEW u \in Uploads, op[u].pc \in Placed,
           UNCHANGED <<req, assets, tmp, unseen>>,
           \/ DropCreated(u) /\ Return(u)
           \/ UNCHANGED orig /\ Goto(u, "commit")
    PROVE  FileInv'
<1>0. /\ TypeOK /\ op \in [Uploads -> Op] /\ HandlerInv(u) /\ Dest(u) \in Key
      /\ orig \in [Key -> File \cup {Nil}] /\ op[u].created \in BOOLEAN
  BY ImportKey DEF TypeInv, TypeOK, FileInv, Hashed, Placed, Op
<1>1. /\ \A v \in Uploads : v # u => op'[v] = op[v]
      /\ \/ op'[u].pc = "idle" /\ op'[u].created = FALSE
         \/ /\ op'[u].pc = "commit" /\ op'[u].hash = op[u].hash
            /\ op'[u].created = op[u].created /\ orig' = orig
  BY <1>0, GotoOp, ReturnOp DEF Step, Idle
<1>2. \/ orig' = orig
      \/ orig' = [orig EXCEPT ![Dest(u)] = Nil] /\ ~Catalogued(Dest(u))
  BY <1>0 DEF DropCreated, HandlerInv
<1>3. OriginalsAreWhole'
  BY <1>0, <1>2 DEF FileInv, OriginalsAreWhole
<1>4. NoLostOriginal'
  BY <1>0, <1>2 DEF FileInv, NoLostOriginal, Archived, Catalogued, Listed, TypeOK, Asset
<1>5. WritersOpen'
  <2>1. \A k \in Key : tmp[k] # Nil /\ tmp[k].writer # Nil =>
            tmp[k].writer \in Uploads /\ tmp[k].writer # u
    BY <1>0 DEF TypeOK, File, FileInv, WritersOpen, Placed
  <2> QED
    BY <1>1, <2>1 DEF FileInv, WritersOpen, Dest
<1>6. HandlerInv(u)'
  BY <1>0, <1>1 DEF HandlerInv, Writing, Placed, After, Catalogued, Listed, Dest, Hash
<1>7. ASSUME NEW v \in Uploads, v # u PROVE HandlerInv(v)'
  <2>1. HandlerInv(v) /\ op'[v] = op[v]
    BY <1>1, <1>7 DEF FileInv
  <2>2. op[v].pc \in Placed => Dest(v) \in Key
    BY ImportKey DEF Hashed, Placed
  <2>3. op[v].pc \in Placed => orig'[Dest(v)] = orig[Dest(v)]
    <3>1. CASE op[u].created
      <4>1. op[v].pc \in Placed => Dest(v) # Dest(u)
        BY <1>7, <3>1, OtherPath DEF Making, Placed
      <4> QED
        BY <1>0, <1>2, <2>2, <4>1
    <3>2. CASE ~op[u].created
      BY <3>2 DEF DropCreated
    <3> QED
      BY <3>1, <3>2
  <2> QED
    BY <2>1, <2>3 DEF HandlerInv, Catalogued, Listed, Dest, Hash
<1> QED
  BY <1>3, <1>4, <1>5, <1>6, <1>7 DEF FileInv

LEMMA VerifyFiles ==
    ASSUME FileInv, TypeInv, SerialImports, NEW u \in Uploads, VerifyOriginal(u)
    PROVE  FileInv'
BY DropFiles DEF VerifyOriginal, dbVars, Placed

\* The new row names a path that holds its bytes, and no other handler aims there.
LEMMA CommitFiles ==
    ASSUME FileInv, TypeInv, SerialImports, NEW u \in Uploads, CommitAsset(u)
    PROVE  FileInv'
<1>0. /\ TypeOK /\ op \in [Uploads -> Op] /\ HandlerInv(u) /\ op[u].pc = "commit"
      /\ Dest(u) \in Key /\ Hash(u) \in Content /\ Dest(u)[1] = Hash(u)
      /\ assets \in [Content -> Asset \cup {Nil}] /\ UNCHANGED <<req, tmp, unseen>>
  <2>1. op[u].pc \in Hashed /\ op[u].pc = "commit"
    BY DEF CommitAsset, Hashed
  <2>2. Dest(u) = <<Hash(u), req[u].ext>>
    BY <2>1, ImportKey
  <2> QED
    BY <2>1, <2>2, ImportKey DEF TypeInv, TypeOK, FileInv, CommitAsset
<1>1. CASE DropCreated(u) /\ Return(u) /\ UNCHANGED assets
  BY <1>0, <1>1, DropFiles DEF Placed
<1>2. ASSUME assets' = [assets EXCEPT ![Hash(u)] =
                [key |-> Dest(u), dev |-> req[u].dev, preview |-> "pending"]],
             op' = [op EXCEPT ![u].pc = "link", ![u].fresh = TRUE],
             UNCHANGED orig
      PROVE  FileInv'
  <2>1. /\ op'[u].pc = "link" /\ op'[u].hash = op[u].hash
        /\ \A v \in Uploads : v # u => op'[v] = op[v]
    BY <1>0, <1>2, FlagOp, Zenon DEF Step
  <2>2. /\ assets'[Hash(u)].key = Dest(u)
        /\ \A c \in Content : c # Hash(u) => assets'[c] = assets[c]
    BY <1>0, <1>2
  <2>3. orig[Dest(u)] = [bytes |-> Hash(u), writer |-> Nil] /\ orig[Dest(u)] # Nil
    BY <1>0 DEF FileInv, HandlerInv, OriginalsAreWhole, Placed
  <2>4. OriginalsAreWhole'
    BY <1>2 DEF FileInv, OriginalsAreWhole
  <2>5. NoLostOriginal'
    <3>1. ASSUME NEW c \in Content, assets'[c] # Nil, c \notin unseen
          PROVE  /\ assets'[c].key[1] = c /\ orig[assets'[c].key] # Nil
                 /\ orig[assets'[c].key].bytes = c
      <4>1. CASE c = Hash(u)
        BY <1>0, <2>2, <2>3, <4>1
      <4>2. CASE c # Hash(u)
        BY <2>2, <3>1, <4>2 DEF FileInv, NoLostOriginal, Archived
      <4> QED
        BY <4>1, <4>2
    <3> QED
      BY <1>0, <1>2, <3>1 DEF NoLostOriginal, Archived
  <2>6. WritersOpen'
    <3>1. \A k \in Key : tmp[k] # Nil /\ tmp[k].writer # Nil =>
              tmp[k].writer \in Uploads /\ tmp[k].writer # u
      BY <1>0 DEF TypeOK, File, FileInv, WritersOpen
    <3> QED
      BY <1>0, <2>1, <3>1 DEF FileInv, WritersOpen, Dest
  <2>7. HandlerInv(u)'
    BY <2>1 DEF HandlerInv, Writing, Placed, After
  <2>8. ASSUME NEW v \in Uploads, v # u PROVE HandlerInv(v)'
    <3>1. HandlerInv(v) /\ op'[v] = op[v]
      BY <2>1, <2>8 DEF FileInv
    <3>2. op[v].pc \in Writing \cup Placed /\ Making(v) => Dest(v) # Dest(u)
      BY <1>0, <2>8, OtherPath DEF Placed
    <3>3. op[v].pc \in Writing \cup Placed /\ Making(v) /\ ~Catalogued(Dest(v)) =>
            ~\E c \in Content : assets'[c] # Nil /\ assets'[c].key = Dest(v) /\ c \notin unseen
      BY <1>0, <2>2, <3>2 DEF Catalogued, Listed
    <3>4. op[v].pc \in Writing \/ (op[v].pc \in Placed /\ op[v].created # FALSE) => Making(v)
      <4>1. op[v].created \in BOOLEAN
        BY <1>0 DEF Op
      <4> QED
        BY <4>1 DEF Making, Writing, Placed
    <3>5. op[v].pc \in Writing \/ (op[v].pc \in Placed /\ op[v].created # FALSE) =>
            ~\E c \in Content : assets'[c] # Nil /\ assets'[c].key = Dest(v) /\ c \notin unseen
      BY <3>1, <3>3, <3>4 DEF HandlerInv
    <3> QED
      BY <1>0, <1>2, <3>1, <3>5 DEF HandlerInv, Catalogued, Listed, Dest, Hash
  <2> QED
    BY <2>4, <2>5, <2>6, <2>7, <2>8 DEF FileInv
<1> QED
  BY <1>1, <1>2 DEF CommitAsset

LEMMA CrashFiles ==
    ASSUME FileInv, TypeInv, Crash
    PROVE  FileInv'
<1>1. \A u \in Uploads : op'[u].pc = "idle" /\ op'[u].created = FALSE
  BY DEF Crash, Idle
<1>2. orig' = orig /\ UNCHANGED <<req, assets, unseen>>
  <2>1. orig \in [Key -> File \cup {Nil}]
    BY DEF TypeInv, TypeOK
  <2>2. ASSUME NEW k \in Key, orig[k] # Nil PROVE [orig[k] EXCEPT !.writer = Nil] = orig[k]
    <3> DEFINE r == [bytes |-> k[1], writer |-> Nil]
    <3>1. orig[k] = r
      BY <2>2 DEF FileInv, OriginalsAreWhole
    <3>2. [r EXCEPT !.writer = Nil] = r
      OBVIOUS
    <3> QED
      BY <3>1, <3>2, Zenon
  <2> QED
    <3>1. UNCHANGED <<req, assets, unseen>>
      BY DEF Crash, dbVars
    <3>2. orig' = [k \in Key |-> IF orig[k] = Nil THEN Nil ELSE [orig[k] EXCEPT !.writer = Nil]]
      BY DEF Crash
    <3>3. orig' = [k \in Key |-> orig[k]]
      BY <2>2, <3>2
    <3> QED
      BY <2>1, <3>1, <3>3
<1>3. \A k \in Key : tmp'[k] = Nil \/ tmp'[k].writer = Nil
  BY DEF Crash, TypeInv, TypeOK, File
<1>4. OriginalsAreWhole' /\ NoLostOriginal' /\ WritersOpen'
  BY <1>2, <1>3 DEF FileInv, OriginalsAreWhole, NoLostOriginal, Archived, WritersOpen
<1>5. \A u \in Uploads : HandlerInv(u)'
  BY <1>1 DEF HandlerInv, Writing, Placed, After
<1> QED
  BY <1>4, <1>5 DEF FileInv

LEMMA FileStep ==
    ASSUME FileInv, TypeInv, SerialImports, [Next /\ SerialImports']_vars
    PROVE  FileInv' /\ SerialImports'
<1>1. ASSUME NEW u \in Uploads, Handler(u) PROVE FileInv'
  BY <1>1, SessionFiles, CatalogueFiles, StatFiles, TempFiles, RenameFiles, VerifyFiles, CommitFiles
  DEF Handler, Import
<1>2. ASSUME NEW u \in Uploads, Client(u) PROVE FileInv'
  BY <1>2, SessionFiles DEF Client
<1>3. ASSUME NEW u \in Uploads, Expire(u) PROVE FileInv'
  BY <1>3, SessionFiles
<1>4. CASE Next /\ SerialImports'
  BY <1>1, <1>2, <1>3, <1>4, CrashFiles DEF Next
<1>5. CASE UNCHANGED vars
  BY <1>5 DEF vars, FileInv, OriginalsAreWhole, NoLostOriginal, Archived, WritersOpen,
     HandlerInv, Catalogued, Listed, Dest, Hash, SerialImports, Making, Importing
<1> QED
  BY <1>4, <1>5

LEMMA FilesCorrect == SerialSpec => []FileInv
<1>1. Init => TypeInv /\ FileInv /\ SerialImports
  BY InitType, FileInit
<1>2. /\ TypeInv /\ FileInv /\ SerialImports /\ [Next /\ SerialImports']_vars =>
         TypeInv' /\ FileInv' /\ SerialImports'
  BY StepType, FileStep
<1> QED
  BY <1>1, <1>2, PTL DEF SerialSpec

(***************************************************************************)
(* No crash and no failing call leaves a partial or foreign file at a      *)
(* content-derived path under originals/ (materializeOriginal).            *)
(***************************************************************************)
THEOREM OriginalsWhole == SerialSpec => []OriginalsAreWhole
<1>1. FileInv => OriginalsAreWhole
  BY DEF FileInv
<1> QED
  BY <1>1, FilesCorrect, PTL

(***************************************************************************)
(* No import removes or damages the original of a committed asset, as long *)
(* as no import uses a path while another one makes it and no stat of that *)
(* original has failed (ImportFile's error paths).                         *)
(***************************************************************************)
THEOREM OriginalsKept == SerialSpec => []NoLostOriginal
<1>1. FileInv => NoLostOriginal
  BY DEF FileInv
<1> QED
  BY <1>1, FilesCorrect, PTL

LEMMA SerialIsSpec == SerialSpec => Spec
<1>1. [Next /\ SerialImports']_vars => [Next]_vars
  OBVIOUS
<1> QED
  BY <1>1, PTL DEF SerialSpec, Spec

(***************************************************************************)
(* Whatever fails, the bytes that a client was told are received are in    *)
(* its .part file or in the archived original (CompleteUpload: "Keep       *)
(* staging intact until the asset and upload session are committed"); only *)
(* once the session is completed can a later stat that fails cost them.    *)
(***************************************************************************)
THEOREM AckedKept == SerialSpec => []AckedBytesSurvive
<1>1. TypeInv /\ WholeInv /\ FileInv => AckedBytesSurvive
  <2> SUFFICES ASSUME TypeInv, WholeInv, FileInv, NEW u \in Uploads,
                      row[u].status \in {"uploading", "completed"}, acked[u] # Nil
               PROVE  /\ Len(acked[u]) = row[u].received
                      /\ \/ part[u] # Nil /\ SubSeq(part[u], 1, Len(acked[u])) = acked[u]
                         \/ Archived(acked[u])
                         \/ row[u].status = "completed" /\ acked[u] \in unseen
    BY DEF AckedBytesSurvive
  <2>1. /\ StagedInv(u) /\ ImportInv(u) /\ SessionInv(u) /\ acked[u] \in Content
        /\ part[u] \in Content \cup {Nil}
    BY DEF TypeInv, TypeOK, WholeInv
  <2>2. CASE row[u].status = "uploading"
    BY <2>1, <2>2, BeginsPrefix DEF StagedInv, SessionInv
  <2>3. CASE row[u].status = "completed"
    BY <2>1, <2>3 DEF ImportInv, Received, FileInv, NoLostOriginal
  <2> QED
    BY <2>2, <2>3
<1> QED
  BY <1>1, SerialIsSpec, WholeCorrect, FilesCorrect, PTL

-----------------------------------------------------------------------------
(* The refinement.  What is catalogued is archived, except for contents    *)
(* that are at risk, so the archive grows in CommitAsset and at these      *)
(* contents only; contents come to be at risk in StatOriginal; and an      *)
(* answer is given in MarkCompleted, once.                                 *)

LEMMA ArchiveIsCatalogue ==
    ASSUME FileInv
    PROVE  /\ ArchiveState \ unseen = {c \in Content : assets[c] # Nil} \ unseen
           /\ ArchiveState \subseteq Content
BY DEF FileInv, NoLostOriginal, ArchiveState, Archived

\* The steps that archive nothing and answer nothing.
LEMMA QuietSteps ==
    ASSUME TypeInv, WholeInv, Next,
           ~\E u \in Uploads : CommitAsset(u) \/ MarkCompleted(u) \/ StatOriginal(u)
    PROVE  /\ UNCHANGED unseen
           /\ \A c \in Content : assets'[c] # Nil <=> assets[c] # Nil
           /\ \A u \in Uploads : row'[u].asset = row[u].asset
<1> DEFINE Quiet == /\ UNCHANGED unseen
                    /\ \A c \in Content : assets'[c] # Nil <=> assets[c] # Nil
                    /\ \A u \in Uploads : row'[u].asset = row[u].asset
<1>1. row \in [Uploads -> Row] /\ assets \in [Content -> Asset \cup {Nil}]
  BY DEF TypeInv, TypeOK
<1>2. ASSUME NEW u \in Uploads, InsertSession(u) \/ ChunkExpired(u) \/ CompleteUpload(u) \/ MarkCancelled(u)
      PROVE  Quiet
  <2>1. UNCHANGED <<assets, unseen>>
    BY <1>2 DEF InsertSession, ChunkExpired, CompleteUpload, MarkCancelled
  <2>2. UNCHANGED row \/ \E s \in Status : row' = [row EXCEPT ![u].status = s]
    BY <1>2 DEF InsertSession, ChunkExpired, CompleteUpload, MarkCancelled, Status
  <2>3. ASSUME NEW s \in Status, row' = [row EXCEPT ![u].status = s]
        PROVE  \A v \in Uploads : row'[v].asset = row[v].asset
    BY <1>1, <2>3 DEF Row
  <2> QED
    BY <2>1, <2>2, <2>3
<1>3. ASSUME NEW u \in Uploads, UpdateOffset(u) PROVE Quiet
  <2>1. CASE row' = [row EXCEPT ![u].received = op[u].next]
    BY <1>1, <1>3, <2>1 DEF UpdateOffset, Row
  <2> QED
    BY <1>3, <2>1 DEF UpdateOffset
<1>4. ASSUME NEW u \in Uploads, QueueThumbnail(u) PROVE Quiet
  <2>1. UNCHANGED <<row, unseen>>
    BY <1>4 DEF QueueThumbnail
  <2>2. op[u].pc \in Hashed /\ op[u].pc \in Stored
    BY <1>4 DEF QueueThumbnail, Hashed, Stored
  <2>3. Hash(u) \in Content /\ assets[Hash(u)] \in Asset
    BY <1>1, <2>2, ImportKey DEF TypeInv, SessionInv
  <2>4. CASE assets' = [assets EXCEPT ![Hash(u)].preview = "unavailable"]
    <3> DEFINE r == [assets[Hash(u)] EXCEPT !.preview = "unavailable"]
    <3>1. r \in Asset
      BY <2>3 DEF Asset
    <3>2. assets' = [assets EXCEPT ![Hash(u)] = r]
      BY <1>1, <2>4
    <3> HIDE DEF r
    <3> QED
      BY <1>1, <2>1, <2>3, <3>1, <3>2, NilFacts
  <2> QED
    BY <1>4, <2>1, <2>4 DEF QueueThumbnail
<1>5. ASSUME NEW u \in Uploads,
             \/ CreateUpload(u) \/ Expire(u) \/ RemoveStaging(u) \/ CancelUpload(u)
             \/ Lookup(u) \/ RecheckOriginal(u) \/ OpenTemp(u) \/ CopyBytes(u)
             \/ RenameTemp(u) \/ VerifyOriginal(u) \/ LinkDeviceAsset(u)
             \/ \E off \in 0..MaxSize, d \in Sends : AppendChunk(u, off, d)
      PROVE  Quiet
  BY <1>5 DEF CreateUpload, Expire, RemoveStaging, CancelUpload, AppendChunk, dbVars, fileVars,
     Lookup, RecheckOriginal, OpenTemp, CopyBytes, RenameTemp, VerifyOriginal, LinkDeviceAsset
<1>6. CASE Crash
  BY <1>6 DEF Crash, dbVars
<1> QED
  BY <1>2, <1>3, <1>4, <1>5, <1>6 DEF Next, Handler, Client, Import

LEMMA ArchiveInit == Init => A!Init
<1> SUFFICES ASSUME Init PROVE ArchiveState = {} /\ unseen = {} /\ AnswerState = [u \in Uploads |-> Nil]
  BY DEF A!Init
<1>1. ArchiveState = {}
  BY DEF Init, ArchiveState, Archived
<1>2. AnswerState = [u \in Uploads |-> Nil]
  BY DEF Init, AnswerState
<1>3. unseen = {}
  BY DEF Init
<1> QED
  BY <1>1, <1>2, <1>3

LEMMA ArchiveStep ==
    ASSUME TypeInv, WholeInv, FileInv, FileInv', Next
    PROVE  A!Next \/ UNCHANGED A!vars
<1>1. /\ ArchiveState \ unseen = {c \in Content : assets[c] # Nil} \ unseen
      /\ ArchiveState' \ unseen' = {c \in Content : assets'[c] # Nil} \ unseen'
  BY DEF FileInv, NoLostOriginal, ArchiveState, Archived
<1>2. row \in [Uploads -> Row] /\ assets \in [Content -> Asset \cup {Nil}]
  BY DEF TypeInv, TypeOK
<1>3. ASSUME UNCHANGED unseen,
             \A c \in Content : assets'[c] # Nil <=> assets[c] # Nil,
             \A u \in Uploads : row'[u].asset = row[u].asset
      PROVE  A!Next
  <2>1. ArchiveState' \ unseen = ArchiveState \ unseen
    BY <1>1, <1>3
  <2>2. AnswerState' = AnswerState
    BY <1>3 DEF AnswerState
  <2>3. A!LoseOrRestore
    BY <1>3, <2>1, <2>2 DEF A!LoseOrRestore
  <2> QED
    BY <2>3 DEF A!Next
<1>4. ASSUME NEW u \in Uploads, CommitAsset(u) PROVE A!Next
  <2>1. UNCHANGED <<row, unseen>>
    BY <1>4 DEF CommitAsset
  <2>2. op[u].pc \in Hashed
    BY <1>4 DEF CommitAsset, Hashed
  <2>3. Hash(u) \in Content /\ Dest(u) \in Key
    BY <2>2, ImportKey
  <2>4. CASE UNCHANGED assets
    BY <1>3, <2>1, <2>4
  <2>5. CASE /\ assets[Hash(u)] = Nil /\ UNCHANGED orig
             /\ assets' = [assets EXCEPT ![Hash(u)] =
                    [key |-> Dest(u), dev |-> req[u].dev, preview |-> "pending"]]
    <3>1. /\ Dest(u) = <<Hash(u), req[u].ext>> /\ orig[Dest(u)] # Nil
          /\ orig[Dest(u)] = [bytes |-> Dest(u)[1], writer |-> Nil]
      BY <1>4, <2>3, ImportKey DEF FileInv, HandlerInv, Placed, OriginalsAreWhole, CommitAsset, Hashed
    <3>2. /\ assets'[Hash(u)] = [key |-> Dest(u), dev |-> req[u].dev, preview |-> "pending"]
          /\ \A c \in Content : c # Hash(u) => assets'[c] = assets[c]
      BY <1>2, <2>3, <2>5
    <3>3. assets'[Hash(u)] # Nil /\ assets'[Hash(u)].key = Dest(u)
      <4>1. req[u].dev \in DeviceAssets \cup {Nil}
        BY RequestFacts DEF TypeInv
      <4>2. [key |-> Dest(u), dev |-> req[u].dev, preview |-> "pending"] \in Asset
        BY <2>3, <4>1 DEF Asset
      <4> QED
        BY <3>2, <4>2, NilFacts
    <3>4. \A c \in Content : c = Hash(u) => Archived(c)'
      BY <2>5, <3>1, <3>3 DEF Archived
    <3>5. \A c \in Content : c # Hash(u) => (Archived(c)' <=> Archived(c))
      BY <2>5, <3>2, Zenon DEF Archived
    <3>6. ArchiveState' = ArchiveState \cup {Hash(u)}
      BY <2>3, <3>4, <3>5 DEF ArchiveState
    <3>7. AnswerState' = AnswerState
      BY <2>1 DEF AnswerState
    <3> QED
      BY <2>1, <2>3, <3>6, <3>7 DEF A!Next, A!Enter
  <2> QED
    BY <1>4, <2>4, <2>5 DEF CommitAsset, Insertable
<1>5. ASSUME NEW u \in Uploads, MarkCompleted(u) PROVE A!Next
  <2>1. UNCHANGED <<assets, orig, unseen>>
    BY <1>5 DEF MarkCompleted, fileVars
  <2>2. op[u].pc \in Hashed /\ op[u].pc \in Stored
    BY <1>5 DEF MarkCompleted, Hashed, Stored
  <2>3. Hash(u) \in Content /\ assets[Hash(u)] # Nil /\ row[u].asset = Nil
    BY <2>2, ImportKey DEF TypeInv, SessionInv, WholeInv, StagedInv
  <2>4. CASE UNCHANGED row
    BY <1>3, <2>1, <2>4
  <2>5. CASE row' = [row EXCEPT ![u] = [status |-> "completed", received |-> req[u].size,
                                        asset |-> Hash(u)]]
    <3>1. AnswerState' = [AnswerState EXCEPT ![u] = Hash(u)]
      BY <1>2, <2>5 DEF AnswerState
    <3>2. AnswerState[u] = Nil
      BY <2>3 DEF AnswerState
    <3>3. Hash(u) \in ArchiveState \cup unseen
      BY <1>1, <2>3
    <3>4. ArchiveState' = ArchiveState
      BY <2>1 DEF ArchiveState, Archived
    <3> QED
      BY <2>1, <2>3, <3>1, <3>2, <3>3, <3>4 DEF A!Next, A!Answer
  <2> QED
    BY <1>5, <2>4, <2>5 DEF MarkCompleted
<1>6. ASSUME NEW u \in Uploads, StatOriginal(u) PROVE A!Next
  <2>1. UNCHANGED <<assets, orig, row>>
    BY <1>6 DEF StatOriginal, dbVars, fileVars
  <2>2. ArchiveState' = ArchiveState /\ AnswerState' = AnswerState
    BY <2>1 DEF ArchiveState, AnswerState, Archived
  <2>3. CASE UNCHANGED unseen
    BY <1>3, <2>1, <2>3
  <2>4. CASE unseen' = unseen \cup {Hash(u)} /\ Hash(u) \notin unseen /\ Listed(Hash(u), Dest(u))
    <3>1. Hash(u) \in Content
      BY <1>6, ImportKey DEF StatOriginal, Hashed
    <3>2. Hash(u) \in ArchiveState
      BY <1>1, <2>4, <3>1 DEF Listed
    <3> QED
      BY <2>2, <2>4, <3>1, <3>2 DEF A!Next, A!Endanger
  <2>5. \/ UNCHANGED unseen
        \/ unseen' = unseen \cup {c \in {Hash(u)} : Listed(c, Dest(u))}
    BY <1>6 DEF StatOriginal
  <2> QED
    BY <2>3, <2>4, <2>5
<1> QED
  BY <1>3, <1>4, <1>5, <1>6, QuietSteps

(***************************************************************************)
(* Uploads implement the archive of Archive.tla: content that entered it   *)
(* stays, whatever later imports do and whatever fails, unless a stat of   *)
(* its original failed (which README.md, "Media lifecycle", does not       *)
(* allow for), and "completed" is answered once, for content that was      *)
(* archived.                                                               *)
(***************************************************************************)
THEOREM ArchiveImplemented == SerialSpec => ImplementsArchive
<1>1. TypeInv /\ WholeInv /\ FileInv /\ FileInv' /\ [Next]_vars => [A!Next]_(A!vars)
  <2>1. CASE Next
    BY <2>1, ArchiveStep
  <2>2. CASE UNCHANGED vars
    BY <2>2 DEF vars, A!vars, ArchiveState, AnswerState, Archived
  <2> QED
    BY <2>1, <2>2
<1> QED
  BY <1>1, ArchiveInit, SerialIsSpec, WholeCorrect, FilesCorrect, PTL
  DEF SerialSpec, Spec, ImplementsArchive, A!Spec

-----------------------------------------------------------------------------
(* The safety half of Settles: how often an import can fail.  An attempt   *)
(* of a session whose bytes are all there fails because a call fails or    *)
(* the process dies (at most MaxTrouble times), or because another session *)
(* archived the same bytes after this one had looked (once: the next       *)
(* attempt finds them).  Only a refused session, whose device asset is     *)
(* archived with other bytes, fails again and again, and one whose bytes   *)
(* are listed but lost.                                                    *)

\* The attempt under way, if any, did not find the bytes of u in the catalogue.
Unlisted(u) ==
    assets[acked[u]] = Nil \/ op[u].pc \in {"stat", "open", "copy", "rename", "verify", "commit"}

\* Steps from here to the answer, if nothing fails.
Ahead(p) ==
    CASE p = "lookup" -> 10
      [] p = "stat" -> 9
      [] p = "open" -> 8
      [] p = "copy" -> 7
      [] p = "rename" -> 6
      [] p = "verify" -> 5
      [] p \in {"recheck", "commit"} -> 4
      [] p = "link" -> 3
      [] p = "job" -> 2
      [] p = "mark" -> 1
      [] OTHER -> 11

StepsLeft(u) == 12 * (MaxTrouble - trouble + IF Unlisted(u) THEN 1 ELSE 0) + Ahead(op[u].pc)

LEMMA AheadBounds == \A p : Ahead(p) \in 1..11
BY DEF Ahead

LEMMA StepsBounds ==
    ASSUME TypeOK, NEW u \in Uploads
    PROVE  StepsLeft(u) \in 1..(12 * MaxTrouble + 23)
<1>1. trouble \in 0..MaxTrouble /\ MaxTrouble \in Nat
  BY BoundsAssumption DEF TypeOK
<1>2. Ahead(op[u].pc) \in 1..11
  BY AheadBounds
<1> QED
  BY <1>1, <1>2 DEF StepsLeft

\* What makes fewer steps left.
LEMMA Fewer ==
    ASSUME TypeOK, TypeOK', NEW u \in Uploads,
           \/ /\ trouble' = trouble /\ (Unlisted(u)' => Unlisted(u))
              /\ Ahead(op[u].pc)' < Ahead(op[u].pc)
           \/ trouble' = trouble /\ Unlisted(u) /\ ~Unlisted(u)'
           \/ trouble' = trouble + 1 /\ (Unlisted(u)' => Unlisted(u))
           \/ trouble' = trouble + 1 /\ Ahead(op[u].pc)' < Ahead(op[u].pc)
    PROVE  StepsLeft(u)' < StepsLeft(u)
<1>1. trouble \in 0..MaxTrouble /\ trouble' \in 0..MaxTrouble /\ MaxTrouble \in Nat
  BY BoundsAssumption DEF TypeOK
<1>2. Ahead(op[u].pc) \in 1..11 /\ Ahead(op[u].pc)' \in 1..11
  BY AheadBounds
<1> QED
  BY <1>1, <1>2 DEF StepsLeft

\* What is listed stays listed.
LEMMA ListedStays ==
    ASSUME TypeInv, WholeInv, Next, NEW c \in Content, assets[c] # Nil
    PROVE  assets'[c] # Nil
<1>1. ASSUME NEW u \in Uploads, CommitAsset(u) PROVE assets'[c] # Nil
  <2>1. Hash(u) \in Content /\ Dest(u) \in Key /\ req[u].dev \in DeviceAssets \cup {Nil}
    BY <1>1, ImportKey, RequestFacts DEF CommitAsset, Hashed, TypeInv
  <2>2. [key |-> Dest(u), dev |-> req[u].dev, preview |-> "pending"] \in Asset
    BY <2>1 DEF Asset
  <2>3. assets \in [Content -> Asset \cup {Nil}]
    BY DEF TypeInv, TypeOK
  <2> QED
    BY <1>1, <2>1, <2>2, <2>3, NilFacts DEF CommitAsset
<1>2. ASSUME NEW u \in Uploads, MarkCompleted(u) \/ StatOriginal(u) PROVE assets'[c] # Nil
  BY <1>2 DEF MarkCompleted, StatOriginal, dbVars
<1> QED
  BY <1>1, <1>2, QuietSteps

\* A handler that returns after a failing call has used it up.
LEMMA FailedAttempt ==
    ASSUME TypeInv, TypeInv', NEW u \in Uploads, Trouble, op'[u].pc = "idle",
           acked'[u] = acked[u], assets[acked[u]] # Nil => assets'[acked[u]] # Nil
    PROVE  StepsLeft(u)' < StepsLeft(u)
<1>1. Unlisted(u)' => Unlisted(u)
  BY DEF Unlisted
<1>2. trouble' = trouble + 1
  BY DEF Trouble
<1> QED
  BY <1>1, <1>2, Fewer DEF TypeInv

LEMMA AttemptStep ==
    ASSUME TypeInv, TypeInv', WholeInv, FileInv, NEW u \in Uploads,
           FullyReceived(u), FullyReceived(u)', ~Refused(u), ~Lost(acked[u]), Next,
           Import(u) \/ MarkCompleted(u) \/ CompleteUpload(u)
    PROVE  StepsLeft(u)' < StepsLeft(u)
<1>0. /\ TypeOK /\ TypeOK' /\ op \in [Uploads -> Op] /\ HandlerInv(u) /\ SessionInv(u)
      /\ acked' = acked /\ acked[u] \in Content
      /\ orig \in [Key -> File \cup {Nil}]
  BY DEF TypeInv, TypeOK, FileInv, FullyReceived, MarkCompleted, CompleteUpload, Import, Lookup,
     RecheckOriginal, StatOriginal, OpenTemp, CopyBytes, RenameTemp, VerifyOriginal, CommitAsset,
     LinkDeviceAsset, QueueThumbnail
<1>01. op \in [Uploads -> Op]
  BY <1>0
<1>1. op[u].pc \in Hashed => Hash(u) = acked[u] /\ Hash(u) \in Content /\ Dest(u) \in Key
                             /\ Dest(u)[1] = Hash(u)
  BY ImportKey DEF WholeInv, ImportInv, Received, Hash
<1>2. assets[acked[u]] # Nil => assets'[acked[u]] # Nil
  BY <1>0, ListedStays
<1>3. ASSUME Return(u), Trouble PROVE StepsLeft(u)' < StepsLeft(u)
  BY <1>0, <1>2, <1>3, ReturnOp, FailedAttempt
<1>4. ASSUME op'[u].pc \in Step, Ahead(op'[u].pc) < Ahead(op[u].pc), Unlisted(u)' => Unlisted(u),
             Trouble \/ NoTrouble
      PROVE  StepsLeft(u)' < StepsLeft(u)
  BY <1>0, <1>4, Fewer DEF Trouble, NoTrouble
<1>5. CASE Lookup(u)
  <2>1. op[u].pc = "lookup" /\ Hash(u) = acked[u] /\ assets' = assets
    BY <1>1, <1>5 DEF Lookup, Hashed, dbVars
  <2>2. CASE assets[Hash(u)] # Nil /\ Goto(u, "recheck") /\ NoTrouble
    BY <1>0, <1>4, <2>1, <2>2, GotoOp DEF Ahead, Step, Unlisted
  <2>3. CASE assets[Hash(u)] = Nil /\ Goto(u, "stat") /\ NoTrouble
    BY <1>0, <1>4, <2>1, <2>3, GotoOp DEF Ahead, Step, Unlisted
  <2>4. CASE Goto(u, "stat") /\ Trouble
    <3>1. op'[u].pc = "stat"
      BY <1>0, <2>4, GotoOp DEF Step
    <3>2. Ahead(op'[u].pc) < Ahead(op[u].pc)
      BY <2>1, <3>1 DEF Ahead
    <3> QED
      BY <1>0, <2>4, <3>2, Fewer DEF Trouble
  <2> QED
    BY <1>5, <2>2, <2>3, <2>4 DEF Lookup
<1>6. CASE RecheckOriginal(u)
  <2>1. op[u].pc = "recheck" /\ assets[Hash(u)] # Nil /\ Hash(u) \in Content /\ Hash(u) = acked[u]
    BY <1>0, <1>1, <1>6 DEF RecheckOriginal, SessionInv, Stored, Hashed, Hash
  <2>2. orig[assets[Hash(u)].key] # Nil /\ orig[assets[Hash(u)].key].bytes = Hash(u)
    BY <2>1 DEF FileInv, NoLostOriginal, Lost, Archived
  <2>3. CASE Goto(u, "link") /\ NoTrouble
    <3>1. op'[u].pc = "link"
      BY <1>0, <2>3, GotoOp DEF Step
    <3>2. Unlisted(u)' => Unlisted(u)
      BY <1>0, <1>2, <3>1 DEF Unlisted
    <3> QED
      BY <1>4, <2>1, <2>3, <3>1, <3>2 DEF Ahead, Step
  <2> QED
    BY <1>3, <1>6, <2>2, <2>3 DEF RecheckOriginal
<1>7. CASE StatOriginal(u) \/ OpenTemp(u) \/ CopyBytes(u) \/ RenameTemp(u) \/ VerifyOriginal(u)
  <2>1. Unlisted(u) /\ op[u].pc \in Hashed
    BY <1>7 DEF Unlisted, StatOriginal, OpenTemp, CopyBytes, RenameTemp, VerifyOriginal, Hashed
  <2>2. CASE StatOriginal(u)
    <3>1. op[u].pc = "stat" /\ op'[u].pc \in {"open", "verify"} /\ (Trouble \/ NoTrouble)
      BY <1>0, <2>2, GotoOp DEF StatOriginal, Step, NoTrouble
    <3> QED
      BY <1>4, <2>1, <3>1 DEF Ahead, Step
  <2>3. CASE OpenTemp(u)
    <3>1. CASE Goto(u, "copy") /\ NoTrouble
      <4>1. op[u].pc = "open" /\ op'[u].pc = "copy"
        BY <1>0, <2>3, <3>1, GotoOp DEF OpenTemp, Step
      <4> QED
        BY <1>4, <2>1, <3>1, <4>1 DEF Ahead, Step
    <3> QED
      BY <1>3, <2>3, <3>1 DEF OpenTemp
  <2>4. CASE CopyBytes(u)
    <3>1. CASE Goto(u, "rename") /\ NoTrouble
      <4>1. op[u].pc = "copy" /\ op'[u].pc = "rename"
        BY <1>0, <2>4, <3>1, GotoOp DEF CopyBytes, Step
      <4> QED
        BY <1>4, <2>1, <3>1, <4>1 DEF Ahead, Step
    <3> QED
      BY <1>3, <2>4, <3>1 DEF CopyBytes
  <2>5. CASE RenameTemp(u)
    <3>1. op[u].pc = "rename" /\ tmp[Dest(u)] # Nil
      <4>1. op[u].pc = "rename" /\ tmp[Dest(u)] = [bytes |-> Hash(u), writer |-> Nil]
        BY <1>0, <2>5 DEF RenameTemp, HandlerInv
      <4>2. [bytes |-> Hash(u), writer |-> Nil] \in File
        BY <1>1, <2>1 DEF File
      <4> QED
        BY <4>1, <4>2, NilFacts
    <3>2. CASE op' = [op EXCEPT ![u].pc = "verify", ![u].created = TRUE] /\ NoTrouble
      <4>0. op' = [op EXCEPT ![u].pc = "verify", ![u].created = TRUE]
        BY <3>2
      <4>1. /\ op'[u].pc = "verify" /\ op'[u].hash = op[u].hash
            /\ \A v \in Uploads : v # u => op'[v] = op[v]
        BY <1>01, <4>0, "verify" \in Step, FlagOp, Zenon DEF Step
      <4> QED
        BY <1>4, <2>1, <3>1, <3>2, <4>1 DEF Ahead, Step
    <3> QED
      BY <1>3, <2>5, <3>1, <3>2 DEF RenameTemp
  <2>6. CASE VerifyOriginal(u)
    <3>1. op[u].pc = "verify" /\ orig[Dest(u)] # Nil /\ orig[Dest(u)].bytes = Hash(u)
      <4>1. op[u].pc = "verify" /\ orig[Dest(u)] # Nil
        BY <1>0, <2>6 DEF VerifyOriginal, HandlerInv, Placed
      <4>2. orig[Dest(u)] = [bytes |-> Dest(u)[1], writer |-> Nil]
        BY <1>1, <2>1, <4>1 DEF FileInv, OriginalsAreWhole
      <4>3. orig[Dest(u)].bytes = Dest(u)[1]
        BY <4>2
      <4> QED
        BY <1>1, <2>1, <4>1, <4>3
    <3>2. CASE Goto(u, "commit") /\ NoTrouble
      <4>1. op'[u].pc = "commit"
        BY <1>0, <3>2, GotoOp DEF Step
      <4> QED
        BY <1>4, <2>1, <3>1, <3>2, <4>1 DEF Ahead, Step
    <3> QED
      BY <1>3, <2>6, <3>1, <3>2 DEF VerifyOriginal
  <2> QED
    BY <1>7, <2>2, <2>3, <2>4, <2>5, <2>6
<1>8. CASE CommitAsset(u)
  <2>1. Unlisted(u) /\ Hash(u) = acked[u] /\ Hash(u) \in Content /\ Dest(u) \in Key
    BY <1>1, <1>8 DEF CommitAsset, Unlisted, Hashed
  <2>2. ASSUME NoTrouble, assets'[acked[u]] # Nil, op'[u].pc \in {"link", "idle"}
        PROVE  StepsLeft(u)' < StepsLeft(u)
    <3>1. ~Unlisted(u)'
      BY <1>0, <2>2 DEF Unlisted
    <3> QED
      BY <1>0, <2>1, <2>2, <3>1, Fewer DEF NoTrouble
  <2>3. CASE Insertable(u) /\ op' = [op EXCEPT ![u].pc = "link", ![u].fresh = TRUE] /\ NoTrouble
    <3>0. op' = [op EXCEPT ![u].pc = "link", ![u].fresh = TRUE]
      BY <2>3
    <3>1. /\ op'[u].pc = "link" /\ op'[u].hash = op[u].hash
          /\ \A v \in Uploads : v # u => op'[v] = op[v]
      BY <1>01, <3>0, "link" \in Step, FlagOp, Zenon DEF Step
    <3>2. assets'[acked[u]] # Nil
      <4>1. Return(u) => op'[u].pc = "idle"
        BY <1>0, ReturnOp
      <4>2. assets' = [assets EXCEPT ![Hash(u)] =
                [key |-> Dest(u), dev |-> req[u].dev, preview |-> "pending"]]
        BY <1>8, <3>1, <4>1 DEF CommitAsset
      <4>3. req[u].dev \in DeviceAssets \cup {Nil}
        BY <1>0, RequestFacts
      <4>4. [key |-> Dest(u), dev |-> req[u].dev, preview |-> "pending"] \in Asset
        BY <2>1, <4>3 DEF Asset
      <4>5. assets \in [Content -> Asset \cup {Nil}]
        BY <1>0 DEF TypeOK
      <4> QED
        BY <2>1, <4>2, <4>4, <4>5, NilFacts
    <3> QED
      BY <2>2, <2>3, <3>1, <3>2
  <2>4. CASE ~Insertable(u) /\ Return(u) /\ NoTrouble
    <3>1. assets[acked[u]] # Nil
      BY <2>1, <2>4 DEF Insertable, Refused
    <3>2. op'[u].pc = "idle"
      BY <1>0, <2>4, ReturnOp
    <3> QED
      BY <1>2, <2>2, <2>4, <3>1, <3>2
  <2> QED
    BY <1>3, <1>8, <2>3, <2>4 DEF CommitAsset
<1>9. CASE LinkDeviceAsset(u)
  <2>1. CASE Goto(u, "job") /\ NoTrouble
    <3>1. op[u].pc = "link" /\ op'[u].pc = "job"
      BY <1>0, <1>9, <2>1, GotoOp DEF LinkDeviceAsset, Step
    <3>2. Unlisted(u)' => Unlisted(u)
      BY <1>0, <1>2, <3>1 DEF Unlisted
    <3> QED
      BY <1>4, <2>1, <3>1, <3>2 DEF Ahead, Step
  <2> QED
    BY <1>3, <1>9, <2>1 DEF LinkDeviceAsset
<1>10. CASE QueueThumbnail(u)
  <2>1. CASE Goto(u, "mark") /\ (Trouble \/ NoTrouble)
    <3>1. op[u].pc = "job" /\ op'[u].pc = "mark"
      BY <1>0, <1>10, <2>1, GotoOp DEF QueueThumbnail, Step
    <3>2. Unlisted(u)' => Unlisted(u)
      BY <1>0, <1>2, <3>1 DEF Unlisted
    <3> QED
      BY <1>4, <2>1, <3>1, <3>2 DEF Ahead, Step
  <2> QED
    BY <1>3, <1>10, <2>1 DEF QueueThumbnail
<1>11. CASE MarkCompleted(u)
  <2>1. CASE row' = [row EXCEPT ![u] = [status |-> "completed", received |-> req[u].size,
                                        asset |-> Hash(u)]]
    <3>1. row'[u].status = "completed"
      BY <1>0, <2>1 DEF TypeOK
    <3> QED
      BY <3>1 DEF FullyReceived
  <2> QED
    BY <1>3, <1>11, <2>1 DEF MarkCompleted
<1>12. CASE CompleteUpload(u)
  <2>1. CASE row' = [row EXCEPT ![u].status = "failed"]
    <3>1. row'[u].status = "failed"
      BY <1>0, <2>1 DEF TypeOK, Row
    <3> QED
      BY <3>1 DEF FullyReceived
  <2>2. CASE op' = [op EXCEPT ![u].pc = "lookup", ![u].hash = part[u]] /\ NoTrouble
    <3>1. op[u].pc = "idle" /\ op[u] \in Op
      BY <1>0, <1>12 DEF CompleteUpload
    <3>2. op'[u].pc = "lookup"
      BY <1>0, <2>2, <3>1 DEF Op
    <3>3. Unlisted(u)' => Unlisted(u)
      BY <1>0, <1>2, <3>2 DEF Unlisted
    <3> QED
      BY <1>4, <2>2, <3>1, <3>2, <3>3 DEF Ahead, Step
  <2> QED
    BY <1>12, <2>1, <2>2 DEF CompleteUpload, NoTrouble
<1> QED
  BY <1>5, <1>6, <1>7, <1>8, <1>9, <1>10, <1>11, <1>12 DEF Import

\* A step for v leaves the other sessions alone, and at most one call fails in it.
Alone(v) ==
    /\ \A w \in Uploads : w # v => op'[w] = op[w] /\ acked'[w] = acked[w]
    /\ Trouble \/ trouble' = trouble

LEMMA AloneStep ==
    ASSUME TypeOK, NEW v \in Uploads, Handler(v) \/ Client(v) \/ Expire(v)
    PROVE  Alone(v)
<1>1. op \in [Uploads -> Op] /\ acked \in [Uploads -> Content \cup {Nil}]
  BY DEF TypeOK
<1>2. CASE CreateUpload(v) \/ InsertSession(v) \/ ChunkExpired(v) \/ Expire(v) \/ CompleteUpload(v)
  BY <1>1, <1>2 DEF CreateUpload, InsertSession, ChunkExpired, Expire, CompleteUpload, Goto, Return,
     NoTrouble, Alone
<1>3. ASSUME NEW off \in 0..MaxSize, NEW d \in Sends, AppendChunk(v, off, d) PROVE Alone(v)
  <2>1. acked' = acked /\ (Trouble \/ trouble' = trouble)
    BY <1>3 DEF AppendChunk, NoTrouble
  <2>2. CASE op' = [op EXCEPT ![v].pc = "offset", ![v].chunk = d, ![v].next = off + Len(d)]
    BY <1>1, <2>1, <2>2 DEF Alone
  <2>3. CASE op' = op
    BY <2>1, <2>3 DEF Alone
  <2> QED
    BY <1>3, <2>2, <2>3 DEF AppendChunk
<1>4. CASE UpdateOffset(v) \/ CancelUpload(v) \/ MarkCancelled(v)
  BY <1>1, <1>4 DEF UpdateOffset, CancelUpload, MarkCancelled, Goto, Return, NoTrouble, Alone
<1>5. CASE Lookup(v) \/ RecheckOriginal(v) \/ StatOriginal(v)
  BY <1>1, <1>5 DEF Lookup, RecheckOriginal, StatOriginal, Goto, Return, NoTrouble, Alone
<1>6. CASE OpenTemp(v) \/ CopyBytes(v) \/ VerifyOriginal(v)
  BY <1>1, <1>6 DEF OpenTemp, CopyBytes, VerifyOriginal, Goto, Return, NoTrouble, Alone
<1>7. CASE RenameTemp(v) \/ CommitAsset(v)
  <2>1. acked' = acked /\ (Trouble \/ trouble' = trouble)
    BY <1>7 DEF RenameTemp, CommitAsset, NoTrouble
  <2>2. CASE Return(v)
    BY <1>1, <2>1, <2>2, ReturnOp DEF Alone
  <2>3. CASE op' = [op EXCEPT ![v].pc = "verify", ![v].created = TRUE]
    BY <1>1, <2>1, <2>3 DEF Alone
  <2>4. CASE op' = [op EXCEPT ![v].pc = "link", ![v].fresh = TRUE]
    BY <1>1, <2>1, <2>4 DEF Alone
  <2> QED
    BY <1>7, <2>2, <2>3, <2>4 DEF RenameTemp, CommitAsset
<1>8. CASE LinkDeviceAsset(v) \/ QueueThumbnail(v) \/ MarkCompleted(v) \/ RemoveStaging(v)
  BY <1>1, <1>8 DEF LinkDeviceAsset, QueueThumbnail, MarkCompleted, RemoveStaging, Goto, Return,
     NoTrouble, Alone
<1> QED
  BY <1>2, <1>3, <1>4, <1>5, <1>6, <1>7, <1>8 DEF Handler, Client, Import

\* Nobody takes away what an attempt has reached.
LEMMA NoStepsBack ==
    ASSUME TypeInv, TypeInv', WholeInv, FileInv, Next, NEW u \in Uploads,
           FullyReceived(u), FullyReceived(u)', ~Refused(u), ~Lost(acked[u])
    PROVE  StepsLeft(u)' <= StepsLeft(u)
<1>0. /\ TypeOK /\ TypeOK' /\ op \in [Uploads -> Op] /\ row \in [Uploads -> Row] /\ SessionInv(u)
      /\ trouble \in 0..MaxTrouble /\ trouble' \in 0..MaxTrouble /\ MaxTrouble \in Nat
      /\ acked[u] \in Content
      /\ acked[u] # Nil /\ row[u].status = "uploading" /\ acked'[u] # Nil /\ row'[u].status = "uploading"
  BY BoundsAssumption DEF TypeInv, TypeOK, FullyReceived
<1>1. Ahead(op[u].pc) \in 1..11 /\ Ahead(op[u].pc)' \in 1..11
  BY AheadBounds
<1>2. ASSUME acked'[u] = acked[u], Trouble \/ trouble' = trouble,
             \/ op'[u].pc = op[u].pc
             \/ Ahead(op[u].pc) = 11 /\ op'[u].pc \in {"idle", "offset"}
      PROVE  StepsLeft(u)' <= StepsLeft(u)
  <2>1. Unlisted(u)' => Unlisted(u)
    BY <1>0, <1>2, ListedStays DEF Unlisted
  <2>2. Ahead(op'[u].pc) <= Ahead(op[u].pc)
    BY <1>1, <1>2 DEF Ahead
  <2>3. trouble' = trouble \/ trouble' = trouble + 1
    BY <1>2 DEF Trouble
  <2> QED
    BY <1>0, <1>1, <2>1, <2>2, <2>3 DEF StepsLeft
<1>3. StepsLeft(u)' < StepsLeft(u) => StepsLeft(u)' <= StepsLeft(u)
  BY <1>0, <1>1 DEF StepsLeft
<1>4. CASE Crash
  <2>1. op'[u].pc = "idle" /\ acked'[u] = acked[u] /\ assets' = assets /\ Trouble
    BY <1>4 DEF Crash, Idle, dbVars
  <2> QED
    BY <1>3, <2>1, FailedAttempt
<1>5. ASSUME NEW v \in Uploads, v # u, Handler(v) \/ Client(v) \/ Expire(v)
      PROVE  StepsLeft(u)' <= StepsLeft(u)
  BY <1>0, <1>2, <1>5, AloneStep DEF Alone
<1>6. CASE Import(u) \/ MarkCompleted(u) \/ CompleteUpload(u)
  BY <1>3, <1>6, AttemptStep
<1>7. CASE CreateUpload(u) \/ InsertSession(u)
  BY <1>0, <1>7 DEF CreateUpload, InsertSession, SessionInv
<1>8. CASE Expire(u)
  BY <1>2, <1>8 DEF Expire
<1>9. CASE ChunkExpired(u)
  <2>1. row'[u].status = "expired"
    BY <1>0, <1>9 DEF ChunkExpired, Row
  <2> QED
    BY <1>0, <2>1
<1>10. CASE CancelUpload(u)
  <2>1. acked'[u] = Nil
    BY <1>0, <1>10 DEF CancelUpload, TypeOK
  <2> QED
    BY <1>0, <2>1
<1>11. ASSUME NEW off \in 0..MaxSize, NEW d \in Sends, AppendChunk(u, off, d)
       PROVE  StepsLeft(u)' <= StepsLeft(u)
  <2>1. acked' = acked /\ (Trouble \/ trouble' = trouble) /\ op[u].pc = "idle"
    BY <1>11 DEF AppendChunk, ChunkAccepted, NoTrouble
  <2>2. op'[u].pc \in {"idle", "offset"}
    <3>1. CASE op' = [op EXCEPT ![u].pc = "offset", ![u].chunk = d, ![u].next = off + Len(d)]
      BY <1>0, <3>1 DEF Op
    <3> QED
      BY <1>11, <2>1, <3>1 DEF AppendChunk
  <2> QED
    BY <1>2, <2>1, <2>2 DEF Ahead
<1>12. CASE UpdateOffset(u)
  <2>1. op[u].pc = "offset" /\ op'[u].pc = "idle" /\ (Trouble \/ trouble' = trouble)
    BY <1>0, <1>12, ReturnOp DEF UpdateOffset, NoTrouble
  <2>2. acked'[u] = acked[u]
    <3>1. CASE /\ row' = [row EXCEPT ![u].received = op[u].next]
               /\ acked' = [acked EXCEPT ![u] = @ \o op[u].chunk]
      <4>1. row[u].received = req[u].size /\ row'[u].received = req[u].size
        BY <1>12 DEF FullyReceived, UpdateOffset
      <4>2. row'[u].received = row[u].received + Len(op[u].chunk)
        BY <1>0, <2>1, <3>1 DEF SessionInv, Row
      <4>3. op[u].chunk \in Content /\ row[u].received \in Nat
        BY <1>0, BoundsAssumption DEF Op, Row
      <4>4. op[u].chunk \in Seq(Chunks) /\ acked[u] \in Seq(Chunks) /\ Len(op[u].chunk) \in Nat
        BY <1>0, <4>3, ContentIsSeq
      <4>5. Len(op[u].chunk) = 0
        BY <4>1, <4>2, <4>3, <4>4
      <4>6. acked[u] \o op[u].chunk = acked[u]
        BY <4>4, <4>5, EmptySeq, ConcatEmptySeq
      <4> QED
        BY <1>0, <3>1, <4>6 DEF TypeOK
    <3> QED
      BY <1>12, <3>1 DEF UpdateOffset
  <2> QED
    BY <1>2, <2>1, <2>2 DEF Ahead
<1>13. CASE RemoveStaging(u)
  <2>1. op[u].pc = "unstage" /\ op'[u].pc = "idle" /\ acked' = acked /\ trouble' = trouble
    BY <1>0, <1>13, ReturnOp DEF RemoveStaging
  <2> QED
    BY <1>2, <2>1 DEF Ahead
<1>14. CASE MarkCancelled(u)
  <2>1. op[u].pc = "cancel" /\ op'[u].pc = "idle" /\ acked' = acked /\ (Trouble \/ trouble' = trouble)
    BY <1>0, <1>14, ReturnOp DEF MarkCancelled, NoTrouble
  <2> QED
    BY <1>2, <2>1 DEF Ahead
<1> QED
  BY <1>4, <1>5, <1>6, <1>7, <1>8, <1>9, <1>10, <1>11, <1>12, <1>13, <1>14
  DEF Next, Handler, Client

(***************************************************************************)
(* While a session has all its bytes, is not refused and the original of   *)
(* its bytes is not lost to a stat that failed, every step of              *)
(* CompleteUpload and ImportFile for it uses up one of at most             *)
(* 12 * MaxTrouble + 23, and no other session, expiry, chunk or crash      *)
(* gives one back: after that many steps it is completed, failed (a wrong  *)
(* digest) or withdrawn by its client.                                     *)
(***************************************************************************)
THEOREM AttemptsBounded ==
    SerialSpec =>
        /\ [](\A u \in Uploads : StepsLeft(u) \in 1..(12 * MaxTrouble + 23))
        /\ [][\A u \in Uploads : FullyReceived(u) /\ FullyReceived(u)' /\ ~Refused(u) /\ ~Lost(acked[u]) =>
                 /\ StepsLeft(u)' <= StepsLeft(u)
                 /\ Import(u) \/ MarkCompleted(u) \/ CompleteUpload(u) =>
                        StepsLeft(u)' < StepsLeft(u)]_vars
<1> DEFINE Bounded == \A u \in Uploads : StepsLeft(u) \in 1..(12 * MaxTrouble + 23)
           Shrink == \A u \in Uploads : FullyReceived(u) /\ FullyReceived(u)' /\ ~Refused(u) /\ ~Lost(acked[u]) =>
                        /\ StepsLeft(u)' <= StepsLeft(u)
                        /\ Import(u) \/ MarkCompleted(u) \/ CompleteUpload(u) =>
                               StepsLeft(u)' < StepsLeft(u)
<1>1. TypeInv => Bounded
  <2> SUFFICES ASSUME TypeInv, NEW u \in Uploads PROVE StepsLeft(u) \in 1..(12 * MaxTrouble + 23)
    BY Zenon
  <2>1. TypeOK
    BY DEF TypeInv
  <2> QED
    BY <2>1, StepsBounds
<1>2. TypeInv /\ TypeInv' /\ WholeInv /\ FileInv /\ [Next]_vars => [Shrink]_vars
  <2> SUFFICES ASSUME TypeInv, TypeInv', WholeInv, FileInv, Next PROVE Shrink
    OBVIOUS
  <2> QED
    BY AttemptStep, NoStepsBack
<1> HIDE DEF Bounded, Shrink
<1>3. SerialSpec => []Bounded /\ [][Shrink]_vars
  BY <1>1, <1>2, SerialIsSpec, WholeCorrect, FilesCorrect, PTL DEF Spec
<1> QED
  BY <1>3 DEF Bounded, Shrink

=============================================================================
