---------------------------- MODULE IngestProofs ----------------------------
(***************************************************************************)
(* For any number of pictures, workers, failures and killed runs, and any  *)
(* capacity of the channels: the bulk run accounts for every picture it    *)
(* took on, no pipeline loses a picture without a trace, the vector the    *)
(* bulk run stores is that of its caption, and the run does not hang.      *)
(*                                                                         *)
(* The argument: a picture is carried (InPipe) from the channel that takes *)
(* it in until a row looks like it or it is given up (CarryInv); rows are  *)
(* never removed and keep their looks, because a hash names one content    *)
(* (RowInv).  The stages of the bulk run are left in order, each when what *)
(* feeds the next is empty (StageInv), so a run that is done carries       *)
(* nothing.  Each step moves one picture from one place to the next or     *)
(* counts it (CountInv).                                                   *)
(***************************************************************************)
EXTENDS Ingest, FiniteSetTheorems, SequenceTheorems, TLAPS

-----------------------------------------------------------------------------
(* The inductive invariant.                                                *)

Stages == {"start", "vision", "llm", "db", "done"}
Flow(q) == [vision : Seq(Files), work : [Workers(q) -> Item], llmQ : Seq(Item), dbQ : Seq(Item)]

Types ==
    /\ disk \in [Files -> {"absent", "part", "whole"}] /\ looks \in Looks
    /\ DOMAIN pipe = Pipelines /\ \A q \in Pipelines : pipe[q] \in Flow(q)
    /\ jobs \in Seq(Files) /\ main \in Stages
    /\ count \in [processed : Nat, skipped : Nat, failed : Nat]
    /\ pending \subseteq Files /\ heard \subseteq Files
    /\ givenUp \in [Pipelines -> SUBSET Files]

\* What a pipeline carries, from the vision workers on.
Busy(q)  == {w \in Workers(q) : pipe[q].work[w].pc # "idle"}
Items(q) == Range(pipe[q].llmQ) \cup Range(pipe[q].dbQ) \cup {pipe[q].work[w] : w \in Busy(q)}
InPipe(q, f) == f \in Range(pipe[q].vision) \/ \E r \in Items(q) : r.file = f

\* An item has a hash that its file had, and a row the looks of any file of its hash.
HashOf(f, h) == h = Content[f] \/ h = PartHash(f)
ItemInv ==
    \A q \in Pipelines :
        /\ Len(pipe[q].llmQ) <= QueueCap /\ Len(pipe[q].dbQ) <= QueueCap
        /\ \A r \in Items(q) : r.file \in Files /\ HashOf(r.file, r.hash)
ARow(n) == n = [looks |-> n.looks, caption |-> n.caption, vector |-> n.vector]
RowInv ==
    \A h \in DOMAIN rows :
        /\ ARow(rows[h])
        /\ h \in Hashes /\ rows[h].caption \in Pipelines \cup {"failed"} /\ rows[h].vector \in Pipelines \cup {Nil}
        /\ rows[h].vector = "bulk" => rows[h].caption = "bulk"
        /\ \A f \in Files : HashOf(f, h) => rows[h].looks = looks[Content[f]]

\* The stages of the bulk run are left in order.
StageInv ==
    /\ main = "start" => pipe["bulk"] = Idle("bulk") /\ jobs = <<>> /\ count = Zero
    /\ main \in {"llm", "db", "done"} => VisionDone
    /\ main \in {"db", "done"} => LLMDone
    /\ main = "done" => DBDone

\* A picture is carried, or there is one like it, or it was given up.
Settled(q, f) == Alike(f) \/ f \in givenUp[q]
TakenInv == \A f \in Range(jobs) : InPipe("bulk", f) \/ Settled("bulk", f)
HeardInv == \A f \in heard : f \in pending \/ InPipe("daemon", f) \/ Settled("daemon", f)

Total == count.processed + count.skipped + count.failed
CountInv == Total + InFlight = Len(jobs)

CarryInv ==
    /\ Types /\ ItemInv /\ RowInv /\ TakenInv /\ HeardInv
    /\ Len(pipe["daemon"].vision) <= QueueCap
IngestInv == CarryInv /\ StageInv /\ CountInv

-----------------------------------------------------------------------------
(* Channels.                                                               *)

LEMMA Taken ==
    ASSUME NEW S, NEW s \in Seq(S), s # <<>>
    PROVE  /\ Tail(s) \in Seq(S) /\ Len(Tail(s)) = Len(s) - 1 /\ Len(s) \in Nat /\ Len(s) > 0
           /\ Head(s) \in S /\ Head(s) \in Range(s)
           /\ \A e : e \in Range(s) => e = Head(s) \/ e \in Range(Tail(s))
           /\ Range(Tail(s)) \subseteq Range(s)
<1>1. Tail(s) \in Seq(S) /\ Len(Tail(s)) = Len(s) - 1 /\ Len(s) \in Nat /\ Len(s) > 0 /\ Head(s) = s[1]
  OBVIOUS
<1>2. DOMAIN s = 1..Len(s) /\ DOMAIN Tail(s) = 1..(Len(s) - 1)
  BY <1>1
<1>3. \A i \in 1..(Len(s) - 1) : Tail(s)[i] = s[i + 1]
  BY <1>1
<1>4. Head(s) \in Range(s) /\ Head(s) \in S
  BY <1>1, <1>2 DEF Range
<1>5. ASSUME NEW e \in Range(s), e # Head(s) PROVE e \in Range(Tail(s))
  <2>1. PICK i \in 1..Len(s) : e = s[i]
    BY <1>2 DEF Range
  <2>2. i - 1 \in 1..(Len(s) - 1) /\ (i - 1) + 1 = i
    BY <1>1, <1>5, <2>1
  <2> QED BY <1>2, <1>3, <2>1, <2>2 DEF Range
<1>6. ASSUME NEW e \in Range(Tail(s)) PROVE e \in Range(s)
  <2>1. PICK i \in 1..(Len(s) - 1) : e = Tail(s)[i]
    BY <1>2 DEF Range
  <2>2. i + 1 \in 1..Len(s)
    BY <1>1
  <2> QED BY <1>2, <1>3, <2>1, <2>2 DEF Range
<1> QED BY <1>1, <1>4, <1>5, <1>6

LEMMA Sent ==
    ASSUME NEW S, NEW s \in Seq(S), NEW e \in S
    PROVE  /\ Append(s, e) \in Seq(S) /\ Len(Append(s, e)) = Len(s) + 1 /\ Len(s) \in Nat
           /\ Range(Append(s, e)) = Range(s) \cup {e}
<1>1. Append(s, e) \in Seq(S) /\ Len(Append(s, e)) = Len(s) + 1 /\ Len(s) \in Nat
  OBVIOUS
<1>2. DOMAIN s = 1..Len(s) /\ DOMAIN Append(s, e) = 1..(Len(s) + 1)
  BY <1>1
<1>3. (\A i \in 1..Len(s) : Append(s, e)[i] = s[i]) /\ Append(s, e)[Len(s) + 1] = e
  OBVIOUS
<1>4. 1..(Len(s) + 1) = (1..Len(s)) \cup {Len(s) + 1}
  BY <1>1
<1>5. Range(Append(s, e)) = Range(s) \cup {e}
  BY <1>2, <1>3, <1>4 DEF Range
<1> QED BY <1>1, <1>5

LEMMA NoneSent ==
    /\ Range(<<>>) = {} /\ Len(<<>>) = 0 /\ \A S : <<>> \in Seq(S)
BY DEF Range

-----------------------------------------------------------------------------
(* How a step changes one pipeline.                                        *)

Apart(q) == DOMAIN pipe' = Pipelines /\ \A p \in Pipelines : p # q => pipe'[p] = pipe[p]

LEMMA FlowFields ==
    ASSUME Types, NEW q \in Pipelines
    PROVE  /\ pipe[q].vision \in Seq(Files) /\ pipe[q].llmQ \in Seq(Item) /\ pipe[q].dbQ \in Seq(Item)
           /\ pipe[q].work \in [Workers(q) -> Item]
           /\ \A w \in Workers(q) : pipe[q].work[w].pc \in {"idle", "decode", "send"}
                                    /\ pipe[q].work[w].hash \in Hashes \cup {Nil}
<1>1. pipe[q] \in Flow(q)
  BY DEF Types
<1>2. pipe[q].work \in [Workers(q) -> Item]
  BY <1>1 DEF Flow
<1> QED BY <1>1, <1>2 DEF Flow, Item

LEMMA WorkMoves ==
    ASSUME Types, NEW q \in Pipelines, NEW w \in Workers(q), NEW s, Work(q, w, s)
    PROVE  /\ Apart(q)
           /\ pipe'[q].vision = pipe[q].vision /\ pipe'[q].llmQ = pipe[q].llmQ /\ pipe'[q].dbQ = pipe[q].dbQ
           /\ pipe'[q].work = [pipe[q].work EXCEPT ![w] = s]
           /\ s \in Item => pipe'[q] \in Flow(q)
<1>1. PICK n : n = [pipe[q] EXCEPT !.work[w] = s]
  OBVIOUS
<1>2. pipe[q] \in Flow(q)
  BY DEF Types
<1>3. /\ n.vision = pipe[q].vision /\ n.llmQ = pipe[q].llmQ /\ n.dbQ = pipe[q].dbQ
      /\ n.work = [pipe[q].work EXCEPT ![w] = s]
  BY <1>1, <1>2 DEF Flow
<1>4. ASSUME s \in Item PROVE n \in Flow(q)
  <2>1. [pipe[q].work EXCEPT ![w] = s] \in [Workers(q) -> Item]
    BY <1>4, FlowFields
  <2> QED BY <1>1, <1>2, <2>1 DEF Flow
<1>5. pipe' = [pipe EXCEPT ![q] = n]
  BY <1>1 DEF Work
<1>6. Apart(q) /\ pipe'[q] = n
  BY <1>5 DEF Types, Apart
<1> QED BY <1>3, <1>4, <1>6

Takes(q, w, s) == pipe' = [pipe EXCEPT ![q].vision = Tail(@), ![q].work[w] = s]
Answers(q, d) ==
    \/ d = pipe[q].dbQ /\ pipe' = [pipe EXCEPT ![q].llmQ = Tail(@)]
    \/ d = Append(pipe[q].dbQ, Head(pipe[q].llmQ))
       /\ pipe' = [pipe EXCEPT ![q].llmQ = Tail(@), ![q].dbQ = Append(@, Head(pipe[q].llmQ))]
Writes(q) == pipe' = [pipe EXCEPT ![q].dbQ = Tail(@)]

LEMMA TakeMoves ==
    ASSUME Types, NEW q \in Pipelines, NEW w \in Workers(q), NEW s \in Item, pipe[q].vision # <<>>,
           Takes(q, w, s)
    PROVE  /\ Apart(q)
           /\ pipe'[q].vision = Tail(pipe[q].vision) /\ pipe'[q].llmQ = pipe[q].llmQ /\ pipe'[q].dbQ = pipe[q].dbQ
           /\ pipe'[q].work = [pipe[q].work EXCEPT ![w] = s]
           /\ pipe'[q] \in Flow(q)
<1>1. PICK n : n = [pipe[q] EXCEPT !.vision = Tail(@), !.work[w] = s]
  OBVIOUS
<1>2. pipe[q] \in Flow(q) /\ Tail(pipe[q].vision) \in Seq(Files)
  BY FlowFields, Taken DEF Types
<1>3. /\ n.vision = Tail(pipe[q].vision) /\ n.llmQ = pipe[q].llmQ /\ n.dbQ = pipe[q].dbQ
      /\ n.work = [pipe[q].work EXCEPT ![w] = s]
  BY <1>1, <1>2 DEF Flow
<1>4. n \in Flow(q)
  <2>1. [pipe[q].work EXCEPT ![w] = s] \in [Workers(q) -> Item]
    BY FlowFields
  <2> QED BY <1>1, <1>2, <2>1 DEF Flow
<1>5. pipe' = [pipe EXCEPT ![q] = n]
  BY <1>1 DEF Types, Takes
<1>6. Apart(q) /\ pipe'[q] = n
  BY <1>5 DEF Types, Apart
<1> QED BY <1>3, <1>4, <1>6

LEMMA SendMoves ==
    ASSUME Types, NEW q \in Pipelines, NEW w \in Workers(q), SendVision(q, w)
    PROVE  /\ Apart(q)
           /\ pipe'[q].vision = pipe[q].vision /\ pipe'[q].dbQ = pipe[q].dbQ
           /\ pipe'[q].llmQ = Append(pipe[q].llmQ, pipe[q].work[w])
           /\ pipe'[q].work = [pipe[q].work EXCEPT ![w] = Rest]
           /\ pipe'[q] \in Flow(q)
<1>1. PICK n : n = [pipe[q] EXCEPT !.work[w] = Rest, !.llmQ = Append(@, pipe[q].work[w])]
  OBVIOUS
<1>2. pipe[q] \in Flow(q) /\ pipe[q].work[w] \in Item /\ Append(pipe[q].llmQ, pipe[q].work[w]) \in Seq(Item)
  BY FlowFields, Sent DEF Types
<1>3. /\ n.vision = pipe[q].vision /\ n.dbQ = pipe[q].dbQ /\ n.llmQ = Append(pipe[q].llmQ, pipe[q].work[w])
      /\ n.work = [pipe[q].work EXCEPT ![w] = Rest]
  BY <1>1, <1>2 DEF Flow
<1>4. n \in Flow(q)
  <2>1. Rest \in Item
    BY DEF Rest, Item
  <2>2. [pipe[q].work EXCEPT ![w] = Rest] \in [Workers(q) -> Item]
    BY <2>1, FlowFields
  <2> QED BY <1>1, <1>2, <2>2 DEF Flow
<1>5. pipe' = [pipe EXCEPT ![q] = n]
  BY <1>1 DEF Types, SendVision
<1>6. Apart(q) /\ pipe'[q] = n
  BY <1>5 DEF Types, Apart
<1> QED BY <1>3, <1>4, <1>6

LEMMA AnswerMoves ==
    ASSUME Types, NEW q \in Pipelines, pipe[q].llmQ # <<>>, NEW d \in Seq(Item),
           Answers(q, d)
    PROVE  /\ Apart(q)
           /\ pipe'[q].vision = pipe[q].vision /\ pipe'[q].work = pipe[q].work
           /\ pipe'[q].llmQ = Tail(pipe[q].llmQ) /\ pipe'[q].dbQ = d
           /\ pipe'[q] \in Flow(q)
<1>1. PICK n : n = [pipe[q] EXCEPT !.llmQ = Tail(@), !.dbQ = d]
  OBVIOUS
<1>2. pipe[q] \in Flow(q) /\ Tail(pipe[q].llmQ) \in Seq(Item)
  BY FlowFields, Taken DEF Types
<1>3. /\ n.vision = pipe[q].vision /\ n.work = pipe[q].work /\ n.llmQ = Tail(pipe[q].llmQ) /\ n.dbQ = d
      /\ n \in Flow(q)
  BY <1>1, <1>2 DEF Flow
<1>4. CASE d = pipe[q].dbQ /\ pipe' = [pipe EXCEPT ![q].llmQ = Tail(@)]
  <2>1. n = [pipe[q] EXCEPT !.llmQ = Tail(@)]
    BY <1>1, <1>2, <1>4 DEF Flow
  <2>2. pipe' = [pipe EXCEPT ![q] = n]
    BY <1>4, <2>1 DEF Types
  <2> QED BY <1>3, <2>2 DEF Types, Apart
<1>5. CASE /\ d = Append(pipe[q].dbQ, Head(pipe[q].llmQ))
           /\ pipe' = [pipe EXCEPT ![q].llmQ = Tail(@), ![q].dbQ = Append(@, Head(pipe[q].llmQ))]
  <2>1. n = [pipe[q] EXCEPT !.llmQ = Tail(@), !.dbQ = Append(@, Head(pipe[q].llmQ))]
    BY <1>1, <1>2, <1>5 DEF Flow
  <2>2. pipe' = [pipe EXCEPT ![q] = n]
    BY <1>5, <2>1 DEF Types
  <2> QED BY <1>3, <2>2 DEF Types, Apart
<1> QED BY <1>4, <1>5 DEF Answers

LEMMA WriteMoves ==
    ASSUME Types, NEW q \in Pipelines, pipe[q].dbQ # <<>>, Writes(q)
    PROVE  /\ Apart(q)
           /\ pipe'[q].vision = pipe[q].vision /\ pipe'[q].work = pipe[q].work
           /\ pipe'[q].llmQ = pipe[q].llmQ /\ pipe'[q].dbQ = Tail(pipe[q].dbQ)
           /\ pipe'[q] \in Flow(q)
<1>1. PICK n : n = [pipe[q] EXCEPT !.dbQ = Tail(@)]
  OBVIOUS
<1>2. pipe[q] \in Flow(q) /\ Tail(pipe[q].dbQ) \in Seq(Item)
  BY FlowFields, Taken DEF Types
<1>3. /\ n.vision = pipe[q].vision /\ n.work = pipe[q].work /\ n.llmQ = pipe[q].llmQ /\ n.dbQ = Tail(pipe[q].dbQ)
      /\ n \in Flow(q)
  BY <1>1, <1>2 DEF Flow
<1>4. pipe' = [pipe EXCEPT ![q] = n]
  BY <1>1 DEF Types, Writes
<1> QED BY <1>3, <1>4 DEF Types, Apart

LEMMA VisionMoves ==
    ASSUME Types, NEW q \in Pipelines, NEW v \in Seq(Files), pipe' = [pipe EXCEPT ![q].vision = v]
    PROVE  /\ Apart(q)
           /\ pipe'[q].vision = v /\ pipe'[q].work = pipe[q].work
           /\ pipe'[q].llmQ = pipe[q].llmQ /\ pipe'[q].dbQ = pipe[q].dbQ
           /\ pipe'[q] \in Flow(q)
<1>1. PICK n : n = [pipe[q] EXCEPT !.vision = v]
  OBVIOUS
<1>2. pipe[q] \in Flow(q)
  BY DEF Types
<1>3. /\ n.vision = v /\ n.work = pipe[q].work /\ n.llmQ = pipe[q].llmQ /\ n.dbQ = pipe[q].dbQ
      /\ n \in Flow(q)
  BY <1>1, <1>2 DEF Flow
<1>4. pipe' = [pipe EXCEPT ![q] = n]
  BY <1>1 DEF Types
<1> QED BY <1>3, <1>4 DEF Types, Apart

LEMMA IdleFlow ==
    ASSUME NEW q \in Pipelines
    PROVE  /\ Idle(q) \in Flow(q) /\ Rest \in Item
           /\ Idle(q).vision = <<>> /\ Idle(q).llmQ = <<>> /\ Idle(q).dbQ = <<>>
           /\ \A w \in Workers(q) : Idle(q).work[w].pc = "idle"
<1>1. Rest \in Item /\ Rest.pc = "idle"
  BY DEF Rest, Item
<1>2. PICK g : g = [w \in Workers(q) |-> Rest]
  OBVIOUS
<1>3. g \in [Workers(q) -> Item] /\ \A w \in Workers(q) : g[w].pc = "idle"
  BY <1>1, <1>2
<1>4. Idle(q) = [vision |-> <<>>, work |-> g, llmQ |-> <<>>, dbQ |-> <<>>]
  BY <1>2 DEF Idle
<1> QED BY <1>1, <1>3, <1>4, NoneSent DEF Flow

-----------------------------------------------------------------------------
(* What it carries then.                                                   *)

LEMMA TakeItems ==
    ASSUME Types, NEW q \in Pipelines, NEW w \in Workers(q), NEW s \in Item, pipe[q].vision # <<>>,
           pipe[q].work[w].pc = "idle",
           Takes(q, w, s)
    PROVE  /\ \A r \in Items(q)' : r \in Items(q) \/ (r = s /\ s.pc # "idle")
           /\ \A f : InPipe(q, f) => f = Head(pipe[q].vision) \/ InPipe(q, f)'
           /\ s.pc # "idle" => InPipe(q, s.file)'
<1>1. /\ pipe'[q].vision = Tail(pipe[q].vision) /\ pipe'[q].llmQ = pipe[q].llmQ /\ pipe'[q].dbQ = pipe[q].dbQ
      /\ pipe'[q].work = [pipe[q].work EXCEPT ![w] = s]
  BY TakeMoves
<1>2. /\ pipe'[q].work[w] = s /\ \A v \in Workers(q) : v # w => pipe'[q].work[v] = pipe[q].work[v]
  BY <1>1, FlowFields
<1>3. \A r \in Items(q)' : r \in Items(q) \/ (r = s /\ s.pc # "idle")
  BY <1>1, <1>2 DEF Items, Busy
<1>4. \A r \in Items(q) : r \in Items(q)'
  BY <1>1, <1>2 DEF Items, Busy
<1>5. s.pc # "idle" => s \in Items(q)'
  BY <1>2 DEF Items, Busy
<1>6. \A f \in Range(pipe[q].vision) : f = Head(pipe[q].vision) \/ f \in Range(pipe'[q].vision)
  BY <1>1, FlowFields, Taken
<1> QED BY <1>3, <1>4, <1>5, <1>6 DEF InPipe

LEMMA WorkItems ==
    ASSUME Types, NEW q \in Pipelines, NEW w \in Workers(q), NEW s \in Item, Work(q, w, s),
           pipe[q].work[w].pc # "idle"
    PROVE  /\ pipe[q].work[w] \in Items(q)
           /\ \A r \in Items(q)' : r \in Items(q) \/ (r = s /\ s.pc # "idle")
           /\ \A f : InPipe(q, f) => f = pipe[q].work[w].file \/ InPipe(q, f)'
           /\ s.pc # "idle" => InPipe(q, s.file)'
<1>1. /\ pipe'[q].vision = pipe[q].vision /\ pipe'[q].llmQ = pipe[q].llmQ /\ pipe'[q].dbQ = pipe[q].dbQ
      /\ pipe'[q].work = [pipe[q].work EXCEPT ![w] = s]
  BY WorkMoves
<1>2. /\ pipe'[q].work[w] = s /\ \A v \in Workers(q) : v # w => pipe'[q].work[v] = pipe[q].work[v]
  BY <1>1, FlowFields
<1>3. \A r \in Items(q)' : r \in Items(q) \/ (r = s /\ s.pc # "idle")
  BY <1>1, <1>2 DEF Items, Busy
<1>4. \A r \in Items(q) : r = pipe[q].work[w] \/ r \in Items(q)'
  BY <1>1, <1>2 DEF Items, Busy
<1>5. (s.pc # "idle" => s \in Items(q)') /\ pipe[q].work[w] \in Items(q)
  BY <1>2 DEF Items, Busy
<1> QED BY <1>1, <1>3, <1>4, <1>5 DEF InPipe

LEMMA SendItems ==
    ASSUME Types, NEW q \in Pipelines, NEW w \in Workers(q), SendVision(q, w)
    PROVE  /\ \A r \in Items(q)' : r \in Items(q)
           /\ \A f : InPipe(q, f) => InPipe(q, f)'
<1>1. /\ pipe'[q].vision = pipe[q].vision /\ pipe'[q].dbQ = pipe[q].dbQ
      /\ pipe'[q].llmQ = Append(pipe[q].llmQ, pipe[q].work[w])
      /\ pipe'[q].work = [pipe[q].work EXCEPT ![w] = Rest]
  BY SendMoves
<1>2. /\ pipe'[q].work[w] = Rest /\ \A v \in Workers(q) : v # w => pipe'[q].work[v] = pipe[q].work[v]
  BY <1>1, FlowFields
<1>3. Range(pipe'[q].llmQ) = Range(pipe[q].llmQ) \cup {pipe[q].work[w]}
  BY <1>1, FlowFields, Sent
<1>4. w \in Busy(q) /\ Rest.pc = "idle"
  BY DEF SendVision, Busy, Rest
<1>5. \A r \in Items(q)' : r \in Items(q)
  BY <1>1, <1>2, <1>3, <1>4 DEF Items, Busy
<1>6. \A r \in Items(q) : r \in Items(q)'
  BY <1>1, <1>2, <1>3, <1>4 DEF Items, Busy
<1> QED BY <1>1, <1>5, <1>6 DEF InPipe

LEMMA AnswerItems ==
    ASSUME Types, NEW q \in Pipelines, pipe[q].llmQ # <<>>, NEW d \in Seq(Item),
           Answers(q, d)
    PROVE  /\ Head(pipe[q].llmQ) \in Items(q)
           /\ \A r \in Items(q)' : r \in Items(q)
           /\ \A f : InPipe(q, f) => f = Head(pipe[q].llmQ).file \/ InPipe(q, f)'
           /\ d # pipe[q].dbQ => \A f : InPipe(q, f) => InPipe(q, f)'
<1>1. /\ pipe'[q].vision = pipe[q].vision /\ pipe'[q].work = pipe[q].work
      /\ pipe'[q].llmQ = Tail(pipe[q].llmQ) /\ pipe'[q].dbQ = d
  BY AnswerMoves
<1>2. /\ Head(pipe[q].llmQ) \in Range(pipe[q].llmQ) /\ Range(pipe'[q].llmQ) \subseteq Range(pipe[q].llmQ)
      /\ \A e \in Range(pipe[q].llmQ) : e = Head(pipe[q].llmQ) \/ e \in Range(pipe'[q].llmQ)
  BY <1>1, FlowFields, Taken
<1>a. d = pipe[q].dbQ \/ d = Append(pipe[q].dbQ, Head(pipe[q].llmQ))
  BY DEF Answers
<1>b. Head(pipe[q].llmQ) \in Item /\ pipe[q].dbQ \in Seq(Item)
  BY FlowFields, Taken
<1>c. Range(Append(pipe[q].dbQ, Head(pipe[q].llmQ))) = Range(pipe[q].dbQ) \cup {Head(pipe[q].llmQ)}
  BY <1>b, Sent
<1>3. Range(d) = Range(pipe[q].dbQ) \/ Range(d) = Range(pipe[q].dbQ) \cup {Head(pipe[q].llmQ)}
  BY <1>a, <1>c
<1>4. d # pipe[q].dbQ => Range(d) = Range(pipe[q].dbQ) \cup {Head(pipe[q].llmQ)}
  BY <1>a, <1>c
<1>5. \A r \in Items(q)' : r \in Items(q)
  BY <1>1, <1>2, <1>3 DEF Items, Busy
<1>6. \A r \in Items(q) : r = Head(pipe[q].llmQ) \/ r \in Items(q)'
  BY <1>1, <1>2, <1>3 DEF Items, Busy
<1>7. d # pipe[q].dbQ => \A r \in Items(q) : r \in Items(q)'
  BY <1>1, <1>2, <1>4 DEF Items, Busy
<1>8. Head(pipe[q].llmQ) \in Items(q)
  BY <1>2 DEF Items
<1> QED BY <1>1, <1>5, <1>6, <1>7, <1>8 DEF InPipe

LEMMA WriteItems ==
    ASSUME Types, NEW q \in Pipelines, pipe[q].dbQ # <<>>, Writes(q)
    PROVE  /\ Head(pipe[q].dbQ) \in Items(q)
           /\ \A r \in Items(q)' : r \in Items(q)
           /\ \A f : InPipe(q, f) => f = Head(pipe[q].dbQ).file \/ InPipe(q, f)'
<1>1. /\ pipe'[q].vision = pipe[q].vision /\ pipe'[q].work = pipe[q].work
      /\ pipe'[q].llmQ = pipe[q].llmQ /\ pipe'[q].dbQ = Tail(pipe[q].dbQ)
  BY WriteMoves
<1>2. /\ Head(pipe[q].dbQ) \in Range(pipe[q].dbQ) /\ Range(pipe'[q].dbQ) \subseteq Range(pipe[q].dbQ)
      /\ \A e \in Range(pipe[q].dbQ) : e = Head(pipe[q].dbQ) \/ e \in Range(pipe'[q].dbQ)
  BY <1>1, FlowFields, Taken
<1>3. \A r \in Items(q)' : r \in Items(q)
  BY <1>1, <1>2 DEF Items, Busy
<1>4. \A r \in Items(q) : r = Head(pipe[q].dbQ) \/ r \in Items(q)'
  BY <1>1, <1>2 DEF Items, Busy
<1>5. Head(pipe[q].dbQ) \in Items(q)
  BY <1>2 DEF Items
<1> QED BY <1>1, <1>3, <1>4, <1>5 DEF InPipe

-----------------------------------------------------------------------------
(* Rows.                                                                   *)

RowsStay == \A h \in DOMAIN rows : h \in DOMAIN rows' /\ rows'[h].looks = rows[h].looks

LEMMA AlikeStays ==
    ASSUME RowsStay, looks' = looks, NEW f, Alike(f)
    PROVE  Alike(f)'
BY DEF RowsStay, Alike

\* A row of a hash that the file has, or had, looks like it.
LEMMA RowAlike ==
    ASSUME RowInv, NEW f \in Files, NEW h \in DOMAIN rows, HashOf(f, h)
    PROVE  Alike(f)
BY DEF RowInv, Alike

\* Two files of one hash have one content.
LEMMA SameHash ==
    ASSUME NEW f \in Files, NEW g \in Files, NEW h, HashOf(f, h), HashOf(g, h)
    PROVE  Content[f] = Content[g]
<1>1. PartHash(f) \notin Contents /\ PartHash(g) \notin Contents /\ Content[f] \in Contents /\ Content[g] \in Contents
  BY FilesAssumption DEF Contents
<1>2. PartHash(f) = PartHash(g) => f = g
  BY DEF PartHash
<1> QED BY <1>1, <1>2 DEF HashOf

LEMMA HashType ==
    ASSUME NEW f \in Files, NEW h, HashOf(f, h)
    PROVE  h \in Hashes
BY DEF HashOf, Hashes, Contents

\* One row is written for a picture.
LEMMA OneRow ==
    ASSUME RowInv, looks' = looks, NEW f \in Files, NEW h, HashOf(f, h), NEW n, ARow(n),
           rows' = [k \in DOMAIN rows \cup {h} |-> IF k # h THEN rows[k] ELSE n],
           n.caption \in Pipelines \cup {"failed"}, n.vector \in Pipelines \cup {Nil},
           n.vector = "bulk" => n.caption = "bulk", n.looks = looks[Content[f]]
    PROVE  RowInv' /\ RowsStay /\ Alike(f)'
<1>1. DOMAIN rows' = DOMAIN rows \cup {h} /\ rows'[h] = n /\ \A k \in DOMAIN rows : k # h => rows'[k] = rows[k]
  OBVIOUS
<1>2. h \in DOMAIN rows => rows[h].looks = n.looks
  BY DEF RowInv
<1>3. RowsStay
  BY <1>1, <1>2 DEF RowsStay
<1>4. Alike(f)'
  BY <1>1 DEF Alike
<1>5. ASSUME NEW k \in DOMAIN rows'
      PROVE  /\ ARow(rows'[k])
             /\ k \in Hashes /\ rows'[k].caption \in Pipelines \cup {"failed"} /\ rows'[k].vector \in Pipelines \cup {Nil}
             /\ rows'[k].vector = "bulk" => rows'[k].caption = "bulk"
             /\ \A g \in Files : HashOf(g, k) => rows'[k].looks = looks[Content[g]]
  <2>1. CASE k = h
    BY <1>1, <2>1, HashType, SameHash
  <2>2. CASE k # h
    BY <1>1, <2>2 DEF RowInv
  <2> QED BY <2>1, <2>2
<1>6. RowInv'
  BY <1>5 DEF RowInv, HashOf, ARow
<1> QED BY <1>3, <1>4, <1>6

-----------------------------------------------------------------------------
(* No step loses a picture.                                                *)

CountType == [processed : Nat, skipped : Nat, failed : Nat]

LEMMA Noted ==
    ASSUME Types, NEW q \in Pipelines
    PROVE  /\ \A what \in {"processed", "skipped", "failed"} : Count(q, what) =>
                  count' \in CountType /\ Total' = IF q = "bulk" THEN Total + 1 ELSE Total
           /\ \A f \in Files : GiveUp(q, f) =>
                  /\ givenUp' \in [Pipelines -> SUBSET Files] /\ f \in givenUp'[q]
                  /\ \A p \in Pipelines : givenUp[p] \subseteq givenUp'[p]
<1>1. ASSUME NEW what \in {"processed", "skipped", "failed"}, Count(q, what)
      PROVE  count' \in CountType /\ Total' = IF q = "bulk" THEN Total + 1 ELSE Total
  <2>1. CASE q # "bulk"
    BY <1>1, <2>1 DEF Count, Types, Total, CountType
  <2>2. CASE q = "bulk"
    <3>1. count' = [count EXCEPT ![what] = @ + 1]
      BY <1>1, <2>2 DEF Count
    <3>2. count \in CountType
      BY DEF Types, CountType
    <3>3. CASE what = "processed"
      BY <2>2, <3>1, <3>2, <3>3 DEF Total, CountType
    <3>4. CASE what = "skipped"
      BY <2>2, <3>1, <3>2, <3>4 DEF Total, CountType
    <3>5. CASE what = "failed"
      BY <2>2, <3>1, <3>2, <3>5 DEF Total, CountType
    <3> QED BY <3>3, <3>4, <3>5
  <2> QED BY <2>1, <2>2
<1>2. ASSUME NEW f \in Files, GiveUp(q, f)
      PROVE  /\ givenUp' \in [Pipelines -> SUBSET Files] /\ f \in givenUp'[q]
             /\ \A p \in Pipelines : givenUp[p] \subseteq givenUp'[p]
  BY <1>2 DEF GiveUp, Types
<1> QED BY <1>1, <1>2

LEMMA BothPipes == "bulk" \in Pipelines /\ "daemon" \in Pipelines
BY DEF Pipelines

LEMMA Onward ==
    ASSUME CarryInv, NEW q \in Pipelines, Apart(q), pipe'[q] \in Flow(q),
           Len(pipe'[q].llmQ) <= QueueCap, Len(pipe'[q].dbQ) <= QueueCap,
           q = "daemon" => Len(pipe'[q].vision) <= QueueCap,
           \A r \in Items(q)' : r \in Items(q) \/ (r.file \in Files /\ HashOf(r.file, r.hash)),
           \A f : InPipe(q, f) => InPipe(q, f)' \/ Settled(q, f)',
           RowInv', RowsStay, folder' = folder, jobs' = jobs, main' = main, count' \in CountType,
           pending' = pending, heard' = heard, givenUp' \in [Pipelines -> SUBSET Files],
           \A p \in Pipelines : givenUp[p] \subseteq givenUp'[p]
    PROVE  CarryInv'
<1>1. Types'
  BY DEF CarryInv, Types, Apart, folder, CountType
<1>2. \A p \in Pipelines : p # q => Items(p)' = Items(p) /\ \A f : InPipe(p, f)' <=> InPipe(p, f)
  BY DEF Items, Busy, InPipe, Apart
<1>3. ItemInv'
  <2> SUFFICES ASSUME NEW p \in Pipelines
               PROVE  /\ Len(pipe'[p].llmQ) <= QueueCap /\ Len(pipe'[p].dbQ) <= QueueCap
                      /\ \A r \in Items(p)' : r.file \in Files /\ HashOf(r.file, r.hash)
    BY DEF ItemInv, HashOf
  <2>1. CASE p = q
    BY <2>1 DEF CarryInv, ItemInv
  <2>2. CASE p # q
    BY <1>2, <2>2 DEF CarryInv, ItemInv, Apart
  <2> QED BY <2>1, <2>2
<1>4. \A p \in Pipelines, f \in Files : Settled(p, f) => Settled(p, f)'
  BY AlikeStays DEF Settled, folder
<1>5. \A p \in Pipelines, f \in Files : InPipe(p, f) => InPipe(p, f)' \/ Settled(p, f)'
  BY <1>2
<1>6. TakenInv'
  <2>1. \A f \in Range(jobs) : f \in Files
    BY DEF CarryInv, Types, Range
  <2> QED BY <1>4, <1>5, <2>1, BothPipes DEF CarryInv, TakenInv
<1>7. HeardInv'
  <2>1. \A f \in heard : f \in Files
    BY DEF CarryInv, Types
  <2> QED BY <1>4, <1>5, <2>1, BothPipes DEF CarryInv, HeardInv
<1>8. Len(pipe'["daemon"].vision) <= QueueCap
  BY BothPipes DEF CarryInv, Apart
<1> QED BY <1>1, <1>3, <1>6, <1>7, <1>8 DEF CarryInv

LEMMA Same ==
    ASSUME CarryInv
    PROVE  /\ count \in CountType /\ givenUp \in [Pipelines -> SUBSET Files]
           /\ rows' = rows /\ looks' = looks => RowInv' /\ RowsStay
           /\ \A q \in Pipelines :
                /\ Len(pipe[q].llmQ) <= QueueCap /\ Len(pipe[q].dbQ) <= QueueCap
                /\ q = "daemon" => Len(pipe[q].vision) <= QueueCap
<1>1. RowInv
  BY DEF CarryInv
<1>2. rows' = rows /\ looks' = looks => RowInv' /\ RowsStay
  BY <1>1 DEF RowInv, RowsStay, HashOf, ARow
<1> QED BY <1>2 DEF CarryInv, Types, CountType, ItemInv

LEMMA HashNow ==
    ASSUME NEW f \in Files
    PROVE  HashOf(f, Hash(f)) /\ Hash(f) \in Hashes
BY HashType DEF HashOf, Hash

LEMMA TakeCarries ==
    ASSUME CarryInv, NEW q \in Pipelines, NEW w \in Workers(q), Take(q, w)
    PROVE  CarryInv'
<1>1. Types /\ pipe[q].vision # <<>> /\ pipe[q].work[w].pc = "idle"
  BY DEF CarryInv, Take
<1>2. PICK f : f = Head(pipe[q].vision)
  OBVIOUS
<1>3. f \in Files /\ Len(Tail(pipe[q].vision)) <= Len(pipe[q].vision) /\ Len(pipe[q].vision) \in Nat
      /\ Len(Tail(pipe[q].vision)) \in Nat
  <2>1. pipe[q].vision \in Seq(Files)
    BY <1>1, FlowFields
  <2> QED BY <1>1, <1>2, <2>1, Taken
<1>4. PICK s : s = IF q = "daemon" /\ Hash(f) \in DOMAIN rows THEN Rest
                   ELSE [pc |-> "decode", file |-> f, hash |-> Hash(f)]
  OBVIOUS
<1>5. s \in Item /\ (s.pc # "idle" => s.file = f /\ s.hash = Hash(f))
  BY <1>3, <1>4, HashNow, IdleFlow DEF Item, Rest
<1>6. s.pc = "idle" => Hash(f) \in DOMAIN rows
  BY <1>4
<1>7. Takes(q, w, s)
  BY <1>2, <1>4 DEF Take, Takes
<1>8. /\ Apart(q) /\ pipe'[q] \in Flow(q) /\ pipe'[q].vision = Tail(pipe[q].vision)
      /\ pipe'[q].llmQ = pipe[q].llmQ /\ pipe'[q].dbQ = pipe[q].dbQ
  BY <1>1, <1>5, <1>7, TakeMoves
<1>9. UNCHANGED <<folder, rows, scan, count, pending, heard, givenUp, trouble>>
  BY DEF Take
<1>10. Settled(q, f)' \/ s.pc # "idle"
  <2>1. Hash(f) \in DOMAIN rows => Alike(f)
    BY <1>3, HashNow, RowAlike DEF CarryInv
  <2> QED BY <1>6, <1>9, <2>1 DEF Settled, Alike, folder
<1>11. \A g : InPipe(q, g) => InPipe(q, g)' \/ Settled(q, g)'
  BY <1>1, <1>2, <1>5, <1>7, <1>10, TakeItems
<1>12. \A r \in Items(q)' : r \in Items(q) \/ (r.file \in Files /\ HashOf(r.file, r.hash))
  BY <1>1, <1>3, <1>5, <1>7, HashNow, TakeItems
<1>13. /\ Len(pipe'[q].llmQ) <= QueueCap /\ Len(pipe'[q].dbQ) <= QueueCap
       /\ q = "daemon" => Len(pipe'[q].vision) <= QueueCap
  BY <1>3, <1>8, Same, BoundsAssumption
<1> QED BY <1>8, <1>9, <1>11, <1>12, <1>13, Same, Onward DEF scan, folder

LEMMA DecodeCarries ==
    ASSUME CarryInv, NEW q \in Pipelines, NEW w \in Workers(q), Decode(q, w)
    PROVE  CarryInv'
<1>1. PICK r : r = pipe[q].work[w]
  OBVIOUS
<1>2. Types /\ r.pc = "decode" /\ r \in Item
  BY <1>1, FlowFields DEF CarryInv, Decode
<1>3. r \in Items(q)
  BY <1>1, <1>2 DEF Items, Busy
<1>4. r.file \in Files /\ HashOf(r.file, r.hash)
  BY <1>3 DEF CarryInv, ItemInv
<1>5. UNCHANGED <<folder, rows, scan, pending, heard>>
  BY DEF Decode
<1>6. ASSUME NEW s \in Item, Work(q, w, s), s.pc # "idle" => s.file = r.file /\ s.hash = r.hash,
             s.pc = "idle" => Settled(q, r.file)',
             count' \in CountType, givenUp' \in [Pipelines -> SUBSET Files],
             \A p \in Pipelines : givenUp[p] \subseteq givenUp'[p]
      PROVE  CarryInv'
  <2>1. /\ Apart(q) /\ pipe'[q] \in Flow(q) /\ pipe'[q].vision = pipe[q].vision
        /\ pipe'[q].llmQ = pipe[q].llmQ /\ pipe'[q].dbQ = pipe[q].dbQ
    BY <1>2, <1>6, WorkMoves
  <2>2. \A g : InPipe(q, g) => InPipe(q, g)' \/ Settled(q, g)'
    BY <1>1, <1>2, <1>6, WorkItems
  <2>3. \A i \in Items(q)' : i \in Items(q) \/ (i.file \in Files /\ HashOf(i.file, i.hash))
    BY <1>1, <1>2, <1>4, <1>6, WorkItems
  <2> QED BY <1>5, <1>6, <2>1, <2>2, <2>3, Same, Onward DEF scan, folder
<1>7. CASE /\ disk[r.file] = "part" /\ Work(q, w, Rest) /\ Count(q, "failed") /\ GiveUp(q, r.file)
  BY <1>2, <1>4, <1>6, <1>7, IdleFlow, Noted DEF Rest, Settled
<1>8. CASE Alike(r.file) /\ Work(q, w, Rest) /\ Count(q, "skipped") /\ UNCHANGED givenUp
  <2>1. Settled(q, r.file)'
    BY <1>5, <1>8 DEF Settled, Alike, folder
  <2> QED BY <1>2, <1>4, <1>6, <1>8, <2>1, IdleFlow, Noted, Same DEF Rest
<1>9. CASE Work(q, w, [r EXCEPT !.pc = "send"]) /\ UNCHANGED <<count, givenUp>>
  <2>1. PICK s : s = [r EXCEPT !.pc = "send"]
    OBVIOUS
  <2>2. s \in Item /\ s.pc = "send" /\ s.file = r.file /\ s.hash = r.hash
    BY <1>2, <2>1 DEF Item
  <2> QED BY <1>6, <1>9, <2>1, <2>2, Same
<1> QED BY <1>1, <1>7, <1>8, <1>9 DEF Decode

LEMMA SendCarries ==
    ASSUME CarryInv, NEW q \in Pipelines, NEW w \in Workers(q), SendVision(q, w)
    PROVE  CarryInv'
<1>1. Types /\ Len(pipe[q].llmQ) < QueueCap
  BY DEF CarryInv, SendVision
<1>2. /\ Apart(q) /\ pipe'[q] \in Flow(q) /\ pipe'[q].vision = pipe[q].vision /\ pipe'[q].dbQ = pipe[q].dbQ
      /\ pipe'[q].llmQ = Append(pipe[q].llmQ, pipe[q].work[w])
  BY <1>1, SendMoves
<1>3. Len(pipe'[q].llmQ) <= QueueCap
  <2>1. pipe[q].llmQ \in Seq(Item) /\ pipe[q].work[w] \in Item
    BY <1>1, FlowFields
  <2>2. Len(pipe'[q].llmQ) = Len(pipe[q].llmQ) + 1 /\ Len(pipe[q].llmQ) \in Nat
    BY <1>2, <2>1, Sent
  <2> QED BY <1>1, <2>2, BoundsAssumption
<1>4. /\ \A r \in Items(q)' : r \in Items(q)
      /\ \A f : InPipe(q, f) => InPipe(q, f)'
  BY <1>1, SendItems
<1>5. UNCHANGED <<folder, rows, scan, count, pending, heard, givenUp, trouble>>
  BY DEF SendVision
<1> QED BY <1>2, <1>3, <1>4, <1>5, Same, Onward DEF scan, folder

\* INSERT OR IGNORE leaves a row like the picture.
LEMMA IgnoredRow ==
    ASSUME RowInv, looks' = looks, NEW f \in Files, NEW h, HashOf(f, h), InsertIgnore(f, h, "failed")
    PROVE  RowInv' /\ RowsStay /\ Alike(f)'
<1>1. CASE h \in DOMAIN rows
  <2>1. DOMAIN rows' = DOMAIN rows /\ \A k \in DOMAIN rows : rows'[k] = rows[k]
    BY <1>1 DEF InsertIgnore
  <2>2. RowInv' /\ RowsStay
    BY <2>1 DEF RowInv, RowsStay, HashOf, ARow
  <2> QED BY <1>1, <2>2, RowAlike, AlikeStays
<1>2. CASE h \notin DOMAIN rows
  <2>1. PICK n : n = NewRow(f, "failed")
    OBVIOUS
  <2>2. rows' = [k \in DOMAIN rows \cup {h} |-> IF k # h THEN rows[k] ELSE n]
    BY <1>2, <2>1 DEF InsertIgnore
  <2>3. n.caption = "failed" /\ n.vector = Nil /\ n.looks = looks[Content[f]] /\ ARow(n)
    BY <2>1 DEF NewRow, ARow
  <2>4. n.vector # "bulk"
    BY <2>3, FilesAssumption DEF Pipelines
  <2> QED BY <2>2, <2>3, <2>4, OneRow
<1> QED BY <1>1, <1>2

LEMMA AnalyzeCarries ==
    ASSUME CarryInv, NEW q \in Pipelines, AnalyzeImage(q)
    PROVE  CarryInv'
<1>1. Types /\ pipe[q].llmQ # <<>>
  BY DEF CarryInv, AnalyzeImage
<1>2. PICK r : r = Head(pipe[q].llmQ)
  OBVIOUS
<1>3. pipe[q].llmQ \in Seq(Item) /\ pipe[q].dbQ \in Seq(Item)
  BY <1>1, FlowFields
<1>4. r \in Item /\ r \in Items(q)
  BY <1>1, <1>2, <1>3, Taken DEF Items
<1>5. r.file \in Files /\ HashOf(r.file, r.hash)
  BY <1>4 DEF CarryInv, ItemInv
<1>6. UNCHANGED <<folder, scan, pending, heard>>
  BY DEF AnalyzeImage
<1>7. ASSUME NEW d \in Seq(Item), Answers(q, d), Len(d) <= QueueCap,
             d # pipe[q].dbQ \/ Settled(q, r.file)', RowInv', RowsStay,
             count' \in CountType, givenUp' \in [Pipelines -> SUBSET Files],
             \A p \in Pipelines : givenUp[p] \subseteq givenUp'[p]
      PROVE  CarryInv'
  <2>1. /\ Apart(q) /\ pipe'[q] \in Flow(q) /\ pipe'[q].vision = pipe[q].vision
        /\ pipe'[q].llmQ = Tail(pipe[q].llmQ) /\ pipe'[q].dbQ = d
    BY <1>1, <1>7, AnswerMoves
  <2>2. \A g : InPipe(q, g) => InPipe(q, g)' \/ Settled(q, g)'
    BY <1>1, <1>2, <1>7, AnswerItems
  <2>3. \A i \in Items(q)' : i \in Items(q)
    BY <1>1, <1>7, AnswerItems
  <2>4. Len(pipe'[q].llmQ) <= QueueCap
    <3>1. Len(pipe'[q].llmQ) = Len(pipe[q].llmQ) - 1 /\ Len(pipe[q].llmQ) \in Nat /\ Len(pipe[q].llmQ) <= QueueCap
      BY <1>1, <1>3, <2>1, Taken, Same
    <3> QED BY <3>1, BoundsAssumption
  <2> QED BY <1>6, <1>7, <2>1, <2>2, <2>3, <2>4, Same, Onward DEF scan, folder
<1>8. CASE /\ Len(pipe[q].dbQ) < QueueCap
           /\ pipe' = [pipe EXCEPT ![q].llmQ = Tail(@), ![q].dbQ = Append(@, r)]
           /\ UNCHANGED <<rows, count, givenUp>>
  <2>1. PICK d : d = Append(pipe[q].dbQ, r)
    OBVIOUS
  <2>2. d \in Seq(Item) /\ Len(d) = Len(pipe[q].dbQ) + 1 /\ Len(pipe[q].dbQ) \in Nat
    BY <1>3, <1>4, <2>1, Sent
  <2>3. Len(d) <= QueueCap /\ d # pipe[q].dbQ
    BY <1>8, <2>2, BoundsAssumption
  <2>4. Answers(q, d)
    BY <1>2, <1>8, <2>1 DEF Answers
  <2> QED BY <1>6, <1>7, <1>8, <2>2, <2>3, <2>4, Same DEF folder
<1>9. CASE /\ pipe' = [pipe EXCEPT ![q].llmQ = Tail(@)] /\ Count(q, "failed")
           /\ IF q = "bulk" THEN InsertFailed(r.file, r.hash)
              ELSE GiveUp(q, r.file) /\ UNCHANGED rows
  <2>1. Answers(q, pipe[q].dbQ)
    BY <1>9 DEF Answers
  <2>2. count' \in CountType
    BY <1>1, <1>9, Noted
  <2>3. CASE q = "bulk" /\ InsertIgnore(r.file, r.hash, "failed") /\ UNCHANGED givenUp
    <3>1. RowInv' /\ RowsStay /\ Alike(r.file)'
      BY <1>5, <1>6, <2>3, IgnoredRow DEF CarryInv, folder
    <3> QED BY <1>3, <1>7, <2>1, <2>2, <2>3, <3>1, Same DEF Settled
  <2>4. CASE GiveUp(q, r.file) /\ UNCHANGED rows
    <3>1. /\ givenUp' \in [Pipelines -> SUBSET Files] /\ r.file \in givenUp'[q]
          /\ \A p \in Pipelines : givenUp[p] \subseteq givenUp'[p]
      BY <1>1, <1>5, <2>4, Noted
    <3>2. RowInv' /\ RowsStay
      BY <1>6, <2>4, Same DEF folder
    <3> QED BY <1>3, <1>7, <2>1, <2>2, <3>1, <3>2, Same DEF Settled
  <2> QED BY <1>9, <2>3, <2>4 DEF InsertFailed
<1> QED BY <1>2, <1>8, <1>9 DEF AnalyzeImage

\* INSERT writes a new row; a refused one leaves the old row or its vector.
LEMMA WrittenRow ==
    ASSUME RowInv, looks' = looks, NEW q \in Pipelines, NEW r, r.file \in Files, HashOf(r.file, r.hash),
           NEW embeds, embeds => r.hash \notin DOMAIN rows \/ q = "daemon", WriteRow(q, r, embeds)
    PROVE  RowInv' /\ RowsStay /\ Alike(r.file)'
<1>1. PICK v \in IF embeds THEN BOOLEAN ELSE {FALSE} :
          rows' = [h \in DOMAIN rows \cup {r.hash} |->
              IF h # r.hash THEN rows[h]
              ELSE LET row == IF h \in DOMAIN rows THEN rows[h] ELSE NewRow(r.file, q)
                   IN IF v THEN [row EXCEPT !.vector = q] ELSE row]
  BY DEF WriteRow
<1>2. PICK row : row = IF r.hash \in DOMAIN rows THEN rows[r.hash] ELSE NewRow(r.file, q)
  OBVIOUS
<1>3. PICK n : n = IF v THEN [row EXCEPT !.vector = q] ELSE row
  OBVIOUS
<1>4. rows' = [h \in DOMAIN rows \cup {r.hash} |-> IF h # r.hash THEN rows[h] ELSE n]
  BY <1>1, <1>2, <1>3
<1>5. CASE r.hash \notin DOMAIN rows
  <2>1. row = [looks |-> looks[Content[r.file]], caption |-> q, vector |-> Nil]
    BY <1>2, <1>5 DEF NewRow
  <2>2. n.looks = looks[Content[r.file]] /\ n.caption = q /\ n.vector \in {q, Nil} /\ ARow(n)
    BY <1>3, <2>1 DEF ARow
  <2> QED BY <1>4, <2>2, FilesAssumption, OneRow DEF Pipelines
<1>6. CASE r.hash \in DOMAIN rows /\ ~v
  <2>1. DOMAIN rows' = DOMAIN rows /\ \A k \in DOMAIN rows : rows'[k] = rows[k]
    BY <1>2, <1>3, <1>4, <1>6
  <2>2. RowInv' /\ RowsStay
    BY <2>1 DEF RowInv, RowsStay, HashOf, ARow
  <2> QED BY <1>6, <2>2, RowAlike, AlikeStays
<1>7. CASE r.hash \in DOMAIN rows /\ v
  <2>1. q = "daemon"
    BY <1>1, <1>7
  <2>2. /\ ARow(row) /\ row.looks = looks[Content[r.file]] /\ row.caption \in Pipelines \cup {"failed"}
    BY <1>2, <1>7 DEF RowInv
  <2>3. n = [looks |-> row.looks, caption |-> row.caption, vector |-> q]
    BY <1>3, <1>7, <2>2 DEF ARow
  <2>4. ARow(n) /\ n.looks = looks[Content[r.file]] /\ n.caption = row.caption /\ n.vector = "daemon"
    BY <2>1, <2>2, <2>3 DEF ARow
  <2> QED BY <1>4, <2>2, <2>4, OneRow DEF Pipelines
<1> QED BY <1>5, <1>6, <1>7

LEMMA InsertCarries ==
    ASSUME CarryInv, NEW q \in Pipelines, InsertImage(q)
    PROVE  CarryInv'
<1>1. Types /\ pipe[q].dbQ # <<>>
  BY DEF CarryInv, InsertImage
<1>2. PICK r : r = Head(pipe[q].dbQ)
  OBVIOUS
<1>3. pipe[q].dbQ \in Seq(Item)
  BY <1>1, FlowFields
<1>4. r.file \in Files /\ HashOf(r.file, r.hash)
  <2>1. r \in Items(q)
    BY <1>1, <1>2, <1>3, Taken DEF Items
  <2> QED BY <2>1 DEF CarryInv, ItemInv
<1>5. UNCHANGED <<folder, scan, pending, heard>> /\ Writes(q)
  BY DEF InsertImage, Writes
<1>6. \E what \in {"processed", "failed"} : Count(q, what)
  BY DEF InsertImage
<1>7. count' \in CountType
  BY <1>1, <1>6, Noted
<1>8. /\ Settled(q, r.file)' /\ RowInv' /\ RowsStay /\ givenUp' \in [Pipelines -> SUBSET Files]
      /\ \A p \in Pipelines : givenUp[p] \subseteq givenUp'[p]
  <2>1. ASSUME NEW embeds, embeds => r.hash \notin DOMAIN rows \/ q = "daemon", WriteRow(q, r, embeds),
               UNCHANGED givenUp
        PROVE  /\ Settled(q, r.file)' /\ RowInv' /\ RowsStay /\ givenUp' \in [Pipelines -> SUBSET Files]
               /\ \A p \in Pipelines : givenUp[p] \subseteq givenUp'[p]
    <3>1. RowInv' /\ RowsStay /\ Alike(r.file)'
      BY <1>4, <1>5, <2>1, WrittenRow DEF CarryInv, folder
    <3> QED BY <2>1, <3>1, Same DEF Settled
  <2>2. CASE UNCHANGED rows /\ GiveUp(q, r.file)
    <3>1. /\ givenUp' \in [Pipelines -> SUBSET Files] /\ r.file \in givenUp'[q]
          /\ \A p \in Pipelines : givenUp[p] \subseteq givenUp'[p]
      BY <1>1, <1>4, <2>2, Noted
    <3> QED BY <1>5, <2>2, <3>1, Same DEF Settled, folder
  <2> QED BY <1>2, <2>1, <2>2 DEF InsertImage, EmbedsRefused
<1>9. /\ Apart(q) /\ pipe'[q] \in Flow(q) /\ pipe'[q].vision = pipe[q].vision
      /\ pipe'[q].llmQ = pipe[q].llmQ /\ pipe'[q].dbQ = Tail(pipe[q].dbQ)
  BY <1>1, <1>5, WriteMoves
<1>10. Len(pipe'[q].dbQ) <= QueueCap
  <2>1. Len(pipe'[q].dbQ) = Len(pipe[q].dbQ) - 1 /\ Len(pipe[q].dbQ) \in Nat /\ Len(pipe[q].dbQ) <= QueueCap
    BY <1>1, <1>3, <1>9, Taken, Same
  <2> QED BY <2>1, BoundsAssumption
<1>11. \A g : InPipe(q, g) => InPipe(q, g)' \/ Settled(q, g)'
  BY <1>1, <1>2, <1>5, <1>8, WriteItems
<1>12. \A i \in Items(q)' : i \in Items(q)
  BY <1>1, <1>5, WriteItems
<1> QED BY <1>5, <1>7, <1>8, <1>9, <1>10, <1>11, <1>12, Same, Onward DEF scan, folder

\* What a step of the folder, the walk, a kill or a tick leaves.
LEMMA VisionItems ==
    ASSUME Types, NEW q \in Pipelines, NEW v \in Seq(Files), pipe' = [pipe EXCEPT ![q].vision = v]
    PROVE  Items(q)' = Items(q) /\ (\A p \in Pipelines : p # q => Items(p)' = Items(p))
<1>1. Apart(q) /\ pipe'[q].work = pipe[q].work /\ pipe'[q].llmQ = pipe[q].llmQ /\ pipe'[q].dbQ = pipe[q].dbQ
  BY VisionMoves
<1> QED BY <1>1 DEF Items, Busy, Apart

LEMMA FolderCarries ==
    ASSUME CarryInv, NEW f \in Files, StartCopy(f) \/ FinishCopy(f)
    PROVE  CarryInv'
<1>1. UNCHANGED <<looks, rows, pipe, scan, count, givenUp>>
  BY DEF StartCopy, FinishCopy
<1>2. \/ pending' = pending \cup {f} /\ heard' = heard \cup {f}
      \/ pending' = pending /\ heard' = heard
  BY DEF StartCopy, FinishCopy
<1>3. disk' \in [Files -> {"absent", "part", "whole"}]
  BY DEF CarryInv, Types, StartCopy, FinishCopy
<1>4. Types'
  BY <1>1, <1>2, <1>3 DEF CarryInv, Types, scan
<1>5. \A q \in Pipelines : Items(q)' = Items(q) /\ \A g : InPipe(q, g) <=> InPipe(q, g)'
  BY <1>1 DEF Items, Busy, InPipe
<1>6. \A q \in Pipelines, g \in Files : Settled(q, g) <=> Settled(q, g)'
  BY <1>1 DEF Settled, Alike
<1>7. ItemInv' /\ RowInv'
  BY <1>1, <1>5 DEF CarryInv, ItemInv, RowInv, HashOf, ARow
<1>8. TakenInv'
  BY <1>1, <1>5, <1>6, BothPipes DEF CarryInv, Types, TakenInv, scan, Range
<1>9. HeardInv'
  BY <1>2, <1>5, <1>6, BothPipes DEF CarryInv, Types, HeardInv
<1> QED BY <1>1, <1>4, <1>7, <1>8, <1>9 DEF CarryInv

LEMMA StartCarries ==
    ASSUME CarryInv, StageInv, StartIngest
    PROVE  CarryInv' /\ jobs' \in Seq(Files)
<1>1. jobs' \in Seq(Files)
  <2> DEFINE wanted == {f \in Files : Wanted(f)}
  <2>1. PICK walk \in [1..Cardinality(wanted) -> wanted] : jobs' = walk
    BY DEF StartIngest
  <2>2. IsFiniteSet(Files)
    BY FilesAssumption, FS_Interval DEF Files
  <2>3. Cardinality(wanted) \in Nat
    BY <2>2, FS_Subset, FS_CardinalityType
  <2>4. walk \in [1..Cardinality(wanted) -> Files]
    BY <2>1
  <2> HIDE DEF wanted
  <2> QED BY <2>1, <2>3, <2>4, SeqDef
<1>2. pipe' = [pipe EXCEPT !["bulk"].vision = jobs'] /\ Types /\ "bulk" \in Pipelines
  BY BothPipes DEF StartIngest, CarryInv
<1>3. UNCHANGED <<folder, rows, pending, heard, givenUp>> /\ main' = "vision" /\ count' = Zero
  BY DEF StartIngest
<1>4. PICK v \in Seq(Files) : v = jobs'
  BY <1>1
<1>5. /\ Apart("bulk") /\ pipe'["bulk"] \in Flow("bulk") /\ pipe'["bulk"].vision = v
      /\ pipe'["bulk"].llmQ = pipe["bulk"].llmQ /\ pipe'["bulk"].dbQ = pipe["bulk"].dbQ
      /\ \A q \in Pipelines : Items(q)' = Items(q)
  BY <1>2, <1>4, VisionMoves, VisionItems
<1>6. Types'
  BY <1>1, <1>2, <1>3, <1>5 DEF Types, Apart, folder, Zero, Stages
<1>7. ItemInv'
  BY <1>5 DEF CarryInv, ItemInv, HashOf, Apart
<1>8. RowInv'
  BY <1>3, Same DEF folder
<1>9. TakenInv'
  BY <1>4, <1>5 DEF TakenInv, InPipe
<1>10. HeardInv'
  <2>1. \A f : InPipe("daemon", f) => InPipe("daemon", f)'
    BY <1>5, BothPipes DEF InPipe, Apart
  <2>2. \A f : Settled("daemon", f) => Settled("daemon", f)'
    BY <1>3 DEF Settled, Alike, folder
  <2> QED BY <1>3, <2>1, <2>2 DEF CarryInv, HeardInv
<1>11. Len(pipe'["daemon"].vision) <= QueueCap
  BY <1>5, BothPipes DEF CarryInv, Apart
<1> QED BY <1>1, <1>6, <1>7, <1>8, <1>9, <1>10, <1>11 DEF CarryInv

LEMMA WaitCarries ==
    ASSUME CarryInv, Wait
    PROVE  CarryInv'
<1>1. UNCHANGED <<folder, rows, pipe, jobs, count, pending, heard, givenUp>> /\ main' \in Stages
  BY DEF Wait, Stages
<1>2. Types'
  BY <1>1 DEF CarryInv, Types, folder
<1>3. ItemInv' /\ RowInv'
  BY <1>1 DEF CarryInv, ItemInv, RowInv, HashOf, Items, Busy, folder, ARow
<1>4. TakenInv' /\ HeardInv'
  BY <1>1 DEF CarryInv, TakenInv, HeardInv, InPipe, Items, Busy, Settled, Alike, folder
<1> QED BY <1>1, <1>2, <1>3, <1>4 DEF CarryInv

LEMMA KillCarries ==
    ASSUME CarryInv, KillIngest
    PROVE  CarryInv' /\ pipe'["bulk"] = Idle("bulk")
<1>1. /\ UNCHANGED <<folder, rows, pending, heard, givenUp>> /\ main' = "start" /\ jobs' = <<>> /\ count' = Zero
      /\ pipe' = [pipe EXCEPT !["bulk"] = Idle("bulk")]
  BY DEF KillIngest
<1>2. Apart("bulk") /\ pipe'["bulk"] = Idle("bulk")
  BY <1>1, BothPipes DEF CarryInv, Types, Apart
<1>3. Types'
  BY <1>1, <1>2, BothPipes, IdleFlow, NoneSent DEF CarryInv, Types, Apart, folder, Zero, Stages
<1>4. Items("bulk")' = {} /\ Items("daemon")' = Items("daemon")
  <2>1. Items("bulk")' = {}
    BY <1>2, BothPipes, IdleFlow, NoneSent DEF Items, Busy
  <2>2. pipe'["daemon"] = pipe["daemon"]
    BY <1>2, BothPipes DEF Apart
  <2> QED BY <2>1, <2>2 DEF Items, Busy
<1>5. ItemInv'
  <2>1. Len(<<>>) <= QueueCap
    BY NoneSent, BoundsAssumption
  <2> QED BY <1>2, <1>4, <2>1, BothPipes, IdleFlow DEF CarryInv, ItemInv, HashOf, Apart, Pipelines
<1>6. RowInv'
  BY <1>1, Same DEF folder
<1>7. TakenInv'
  BY <1>1, NoneSent DEF TakenInv
<1>8. HeardInv'
  <2>1. \A f : InPipe("daemon", f) => InPipe("daemon", f)'
    BY <1>2, <1>4, BothPipes DEF InPipe, Apart
  <2>2. \A f : Settled("daemon", f) => Settled("daemon", f)'
    BY <1>1 DEF Settled, Alike, folder
  <2> QED BY <1>1, <2>1, <2>2 DEF CarryInv, HeardInv
<1>9. Len(pipe'["daemon"].vision) <= QueueCap
  BY <1>2, BothPipes DEF CarryInv, Apart
<1> QED BY <1>2, <1>3, <1>5, <1>6, <1>7, <1>8, <1>9 DEF CarryInv

LEMMA BatchCarries ==
    ASSUME CarryInv, SendBatch
    PROVE  CarryInv' /\ pipe'["bulk"] = pipe["bulk"]
<1>1. PICK f \in pending : pending' = pending \ {f} /\ pipe' = [pipe EXCEPT !["daemon"].vision = Append(@, f)]
  BY DEF SendBatch
<1>2. UNCHANGED <<folder, rows, scan, count, heard, givenUp>> /\ Len(pipe["daemon"].vision) < QueueCap
  BY DEF SendBatch
<1>3. Types /\ f \in Files /\ pipe["daemon"].vision \in Seq(Files)
  BY BothPipes, FlowFields DEF CarryInv, Types
<1>4. PICK v : v = Append(pipe["daemon"].vision, f)
  OBVIOUS
<1>5. v \in Seq(Files) /\ Len(v) <= QueueCap /\ Range(v) = Range(pipe["daemon"].vision) \cup {f}
  BY <1>2, <1>3, <1>4, Sent, BoundsAssumption
<1>6. pipe' = [pipe EXCEPT !["daemon"].vision = v]
  BY <1>1, <1>3, <1>4, BothPipes DEF Types
<1>7. /\ Apart("daemon") /\ pipe'["daemon"] \in Flow("daemon") /\ pipe'["daemon"].vision = v
      /\ pipe'["daemon"].llmQ = pipe["daemon"].llmQ /\ pipe'["daemon"].dbQ = pipe["daemon"].dbQ
      /\ \A q \in Pipelines : Items(q)' = Items(q)
  BY <1>3, <1>5, <1>6, BothPipes, VisionMoves, VisionItems
<1>8. Types'
  BY <1>1, <1>2, <1>3, <1>7 DEF Types, Apart, folder, scan
<1>9. ItemInv'
  BY <1>7 DEF CarryInv, ItemInv, HashOf, Apart
<1>10. RowInv'
  BY <1>2, Same DEF folder
<1>11. \A q \in Pipelines, g \in Files : Settled(q, g) => Settled(q, g)'
  BY <1>2 DEF Settled, Alike, folder
<1>12. \A q \in Pipelines, g \in Files : InPipe(q, g) => InPipe(q, g)'
  BY <1>5, <1>7 DEF InPipe, Apart
<1>13. TakenInv'
  BY <1>2, <1>11, <1>12, BothPipes DEF CarryInv, Types, TakenInv, scan, Range
<1>14. HeardInv'
  <2>1. InPipe("daemon", f)'
    BY <1>5, <1>7 DEF InPipe
  <2> QED BY <1>1, <1>2, <1>11, <1>12, <2>1, BothPipes DEF CarryInv, Types, HeardInv
<1>15. pipe'["bulk"] = pipe["bulk"]
  BY <1>7 DEF Apart, Pipelines
<1> QED BY <1>5, <1>7, <1>8, <1>9, <1>10, <1>13, <1>14, <1>15 DEF CarryInv

-----------------------------------------------------------------------------
(* The stages of the bulk run and its counters.                            *)

Filled == Len(pipe["bulk"].vision) + Len(pipe["bulk"].llmQ) + Len(pipe["bulk"].dbQ)

LEMMA Counted ==
    ASSUME Types
    PROVE  /\ InFlight = Filled + Cardinality(Busy("bulk"))
           /\ IsFiniteSet(Busy("bulk")) /\ Cardinality(Busy("bulk")) \in Nat
           /\ Total \in Nat /\ Len(jobs) \in Nat
           /\ Len(pipe["bulk"].vision) \in Nat /\ Len(pipe["bulk"].llmQ) \in Nat /\ Len(pipe["bulk"].dbQ) \in Nat
           /\ Filled \in Nat
<1>1. Workers("bulk") = BulkWorkers
  BY DEF Workers
<1>2. IsFiniteSet(Busy("bulk"))
  BY <1>1, BoundsAssumption, FS_Subset DEF Busy
<1>3. InFlight = Filled + Cardinality(Busy("bulk"))
  BY <1>1 DEF InFlight, Filled, Busy
<1>4. Total \in Nat /\ Len(jobs) \in Nat
  BY DEF Types, Total
<1>5. Len(pipe["bulk"].vision) \in Nat /\ Len(pipe["bulk"].llmQ) \in Nat /\ Len(pipe["bulk"].dbQ) \in Nat
  BY FlowFields, BothPipes
<1>6. Filled \in Nat
  <2>1. \A a, b, c \in Nat : a + b + c \in Nat
    OBVIOUS
  <2> QED BY ONLY <1>5, <2>1 DEF Filled
<1> QED BY <1>2, <1>3, <1>4, <1>5, <1>6, FS_CardinalityType

LEMMA BusyMoves ==
    ASSUME Types, NEW w \in Workers("bulk"), NEW s \in Item,
           pipe'["bulk"].work = [pipe["bulk"].work EXCEPT ![w] = s]
    PROVE  LET n == Cardinality(Busy("bulk"))
               m == Cardinality(Busy("bulk")')
               before == pipe["bulk"].work[w].pc # "idle"
           IN  /\ ~before /\ s.pc # "idle" => m = n + 1
               /\ before /\ s.pc = "idle" => m = n - 1
               /\ before /\ s.pc # "idle" => m = n
<1>1. /\ pipe'["bulk"].work[w] = s
      /\ \A v \in Workers("bulk") : v # w => pipe'["bulk"].work[v] = pipe["bulk"].work[v]
  BY FlowFields, BothPipes
<1>2. PICK B, C : B = Busy("bulk") /\ C = Busy("bulk")'
  OBVIOUS
<1>3. IsFiniteSet(B)
  BY <1>2, Counted
<1>4. w \in B <=> pipe["bulk"].work[w].pc # "idle"
  BY <1>2 DEF Busy
<1>5. s.pc # "idle" => C = B \cup {w}
  BY <1>1, <1>2 DEF Busy
<1>6. s.pc = "idle" => C = B \ {w}
  BY <1>1, <1>2 DEF Busy
<1>7. Cardinality(B \cup {w}) = IF w \in B THEN Cardinality(B) ELSE Cardinality(B) + 1
  BY <1>3, FS_AddElement
<1>8. Cardinality(B \ {w}) = IF w \in B THEN Cardinality(B) - 1 ELSE Cardinality(B)
  BY <1>3, FS_RemoveElement
<1> QED BY <1>2, <1>4, <1>5, <1>6, <1>7, <1>8

LEMMA Filling ==
    ASSUME Types, NEW v \in Int, NEW l \in Int, NEW d \in Int,
           Len(pipe'["bulk"].vision) = Len(pipe["bulk"].vision) + v,
           Len(pipe'["bulk"].llmQ) = Len(pipe["bulk"].llmQ) + l,
           Len(pipe'["bulk"].dbQ) = Len(pipe["bulk"].dbQ) + d
    PROVE  Filled' = Filled + v + l + d
<1>1. /\ Len(pipe["bulk"].vision) \in Nat /\ Len(pipe["bulk"].llmQ) \in Nat
      /\ Len(pipe["bulk"].dbQ) \in Nat
  BY Counted
<1>2. \A a, b, c \in Nat : (a + v) + (b + l) + (c + d) = (a + b + c) + v + l + d
  OBVIOUS
<1>3. Filled' = (Len(pipe["bulk"].vision) + v) + (Len(pipe["bulk"].llmQ) + l) + (Len(pipe["bulk"].dbQ) + d)
  BY DEF Filled
<1> QED BY ONLY <1>1, <1>2, <1>3 DEF Filled

\* What leaves one place enters another, or is counted.
LEMMA Balance ==
    ASSUME Types, CountInv, jobs' = jobs, NEW n \in 0..1, Total' = Total + n,
           Filled' + Cardinality(Busy("bulk")') = Filled + Cardinality(Busy("bulk")) - n
    PROVE  CountInv'
<1>1. InFlight' = Filled' + Cardinality(Busy("bulk")')
  BY DEF InFlight, Filled, Busy, Workers
<1>2. /\ InFlight = Filled + Cardinality(Busy("bulk")) /\ Filled \in Nat
      /\ Cardinality(Busy("bulk")) \in Nat /\ Total \in Nat /\ Len(jobs) \in Nat
  BY Counted
<1>3. Total + InFlight = Len(jobs)
  BY DEF CountInv
<1>4. Total' + InFlight' = Len(jobs')
  BY <1>1, <1>2, <1>3
<1> QED BY <1>4 DEF CountInv

BulkInv == StageInv /\ CountInv

\* What is not the bulk run's leaves it alone.
LEMMA BulkStays ==
    ASSUME Types, BulkInv, pipe'["bulk"] = pipe["bulk"], UNCHANGED <<jobs, main, count>>
    PROVE  BulkInv'
<1>1. InFlight' = InFlight /\ Total' = Total
  BY DEF InFlight, Total
<1>2. CountInv'
  BY <1>1 DEF BulkInv, CountInv
<1>3. StageInv'
  BY DEF BulkInv, StageInv, VisionDone, LLMDone, DBDone
<1> QED BY <1>2, <1>3 DEF BulkInv

LEMMA DaemonStays ==
    ASSUME Types, BulkInv, Apart("daemon"), UNCHANGED <<jobs, main>>,
           count' = count \/ \E what : Count("daemon", what)
    PROVE  BulkInv'
<1>1. pipe'["bulk"] = pipe["bulk"] /\ count' = count
  BY DEF Apart, Pipelines, Count
<1> QED BY <1>1, BulkStays

\* A worker that is busy, or has something to do, is one of the first stage.
LEMMA VisionStage ==
    ASSUME Types, BulkInv,
           pipe["bulk"].vision # <<>> \/ \E w \in Workers("bulk") : pipe["bulk"].work[w].pc # "idle"
    PROVE  main = "vision"
<1>1. ~VisionDone
  BY DEF VisionDone, Workers
<1>2. main # "start"
  BY BothPipes, IdleFlow DEF BulkInv, StageInv
<1> QED BY <1>1, <1>2 DEF BulkInv, StageInv, Types, Stages

LEMMA TakeCounts ==
    ASSUME Types, BulkInv, NEW w \in BulkWorkers, Take("bulk", w)
    PROVE  BulkInv'
<1>1. pipe["bulk"].vision # <<>> /\ pipe["bulk"].work[w].pc = "idle" /\ w \in Workers("bulk")
  BY DEF Take, Workers
<1>2. PICK f : f = Head(pipe["bulk"].vision)
  OBVIOUS
<1>3. f \in Files /\ pipe["bulk"].vision \in Seq(Files)
  BY <1>1, <1>2, BothPipes, FlowFields, Taken
<1>4. PICK s : s = [pc |-> "decode", file |-> f, hash |-> Hash(f)]
  OBVIOUS
<1>5. s \in Item /\ s.pc = "decode" /\ Takes("bulk", w, s)
  BY <1>2, <1>3, <1>4, HashNow DEF Item, Take, Takes
<1>6. /\ pipe'["bulk"].vision = Tail(pipe["bulk"].vision)
      /\ pipe'["bulk"].llmQ = pipe["bulk"].llmQ /\ pipe'["bulk"].dbQ = pipe["bulk"].dbQ
      /\ pipe'["bulk"].work = [pipe["bulk"].work EXCEPT ![w] = s]
  BY <1>1, <1>5, BothPipes, TakeMoves
<1>7. Len(pipe'["bulk"].vision) = Len(pipe["bulk"].vision) - 1
  BY <1>1, <1>3, <1>6, Taken
<1>8. Cardinality(Busy("bulk")') = Cardinality(Busy("bulk")) + 1
  BY <1>1, <1>5, <1>6, BusyMoves
<1>9. UNCHANGED <<jobs, main, count>>
  BY DEF Take, scan
<1>10. CountInv'
  <2>1. Filled' + Cardinality(Busy("bulk")') = Filled + Cardinality(Busy("bulk")) - 0
    <3>1. Filled' = Filled + (-1) + 0 + 0
      BY <1>6, <1>7, Counted, Filling
    <3> QED BY <3>1, <1>8, Counted
  <2>2. Total' = Total + 0
    BY <1>9, Counted DEF Total
  <2> QED BY <1>9, <2>1, <2>2, Balance DEF BulkInv
<1> QED BY <1>1, <1>9, <1>10, VisionStage DEF BulkInv, StageInv

LEMMA DecodeCounts ==
    ASSUME Types, BulkInv, NEW w \in BulkWorkers, Decode("bulk", w)
    PROVE  BulkInv'
<1>1. PICK r : r = pipe["bulk"].work[w]
  OBVIOUS
<1>2. r.pc = "decode" /\ r \in Item /\ w \in Workers("bulk")
  BY <1>1, BothPipes, FlowFields DEF Decode, Workers
<1>3. UNCHANGED <<jobs, main>>
  BY DEF Decode, scan
<1>4. ASSUME NEW s \in Item, Work("bulk", w, s), NEW n \in 0..1, Total' = Total + n,
             (s.pc = "idle" /\ n = 1) \/ (s.pc # "idle" /\ n = 0)
      PROVE  CountInv'
  <2>1. /\ pipe'["bulk"].vision = pipe["bulk"].vision
        /\ pipe'["bulk"].llmQ = pipe["bulk"].llmQ /\ pipe'["bulk"].dbQ = pipe["bulk"].dbQ
        /\ pipe'["bulk"].work = [pipe["bulk"].work EXCEPT ![w] = s]
    BY <1>2, <1>4, BothPipes, WorkMoves
  <2>2. Cardinality(Busy("bulk")') = Cardinality(Busy("bulk")) - n
    <3>1. pipe["bulk"].work[w].pc # "idle"
      BY <1>1, <1>2
    <3> QED BY <1>2, <1>4, <2>1, <3>1, BusyMoves, Counted
  <2>3. Filled' + Cardinality(Busy("bulk")') = Filled + Cardinality(Busy("bulk")) - n
    BY <2>1, <2>2, Counted DEF Filled
  <2> QED BY <1>3, <1>4, <2>3, Balance DEF BulkInv
<1>5. ASSUME Work("bulk", w, Rest), \E what \in {"failed", "skipped"} : Count("bulk", what)
      PROVE  CountInv'
  <2>1. Total' = Total + 1
    BY <1>5, BothPipes, Noted
  <2>2. Rest \in Item /\ Rest.pc = "idle"
    BY BothPipes, IdleFlow DEF Rest
  <2> QED BY <1>4, <1>5, <2>1, <2>2
<1>6. ASSUME Work("bulk", w, [r EXCEPT !.pc = "send"]), UNCHANGED count
      PROVE  CountInv'
  <2>1. PICK s : s = [r EXCEPT !.pc = "send"]
    OBVIOUS
  <2>2. s \in Item /\ s.pc = "send"
    BY <1>2, <2>1 DEF Item
  <2>3. Total' = Total + 0
    BY <1>6, Counted DEF Total
  <2>4. Work("bulk", w, s) /\ s.pc # "idle"
    BY <1>6, <2>1, <2>2
  <2> QED BY <1>4, <2>2, <2>3, <2>4
<1>7. CountInv'
  BY <1>1, <1>5, <1>6 DEF Decode
<1>8. main = "vision"
  BY <1>1, <1>2, VisionStage
<1> QED BY <1>3, <1>7, <1>8 DEF BulkInv, StageInv

LEMMA SendCounts ==
    ASSUME Types, BulkInv, NEW w \in BulkWorkers, SendVision("bulk", w)
    PROVE  BulkInv'
<1>1. pipe["bulk"].work[w].pc = "send" /\ w \in Workers("bulk")
  BY DEF SendVision, Workers
<1>2. /\ pipe'["bulk"].vision = pipe["bulk"].vision /\ pipe'["bulk"].dbQ = pipe["bulk"].dbQ
      /\ pipe'["bulk"].llmQ = Append(pipe["bulk"].llmQ, pipe["bulk"].work[w])
      /\ pipe'["bulk"].work = [pipe["bulk"].work EXCEPT ![w] = Rest]
  BY <1>1, BothPipes, SendMoves
<1>3. Len(pipe'["bulk"].llmQ) = Len(pipe["bulk"].llmQ) + 1
  <2>1. pipe["bulk"].llmQ \in Seq(Item) /\ pipe["bulk"].work[w] \in Item
    BY <1>1, BothPipes, FlowFields
  <2> QED BY <1>2, <2>1, Sent
<1>4. Rest \in Item /\ Rest.pc = "idle"
  BY BothPipes, IdleFlow DEF Rest
<1>5. Cardinality(Busy("bulk")') = Cardinality(Busy("bulk")) - 1
  BY <1>1, <1>2, <1>4, BusyMoves
<1>6. UNCHANGED <<jobs, main, count>>
  BY DEF SendVision, scan
<1>7. CountInv'
  <2>1. Filled' + Cardinality(Busy("bulk")') = Filled + Cardinality(Busy("bulk")) - 0
    <3>1. Filled' = Filled + 0 + 1 + 0
      BY <1>2, <1>3, Counted, Filling
    <3> QED BY <3>1, <1>5, Counted
  <2>2. Total' = Total + 0
    BY <1>6, Counted DEF Total
  <2> QED BY <1>6, <2>1, <2>2, Balance DEF BulkInv
<1>8. main = "vision"
  BY <1>1, VisionStage
<1> QED BY <1>6, <1>7, <1>8 DEF BulkInv, StageInv

\* The model's goroutine works in the first two stages, the writer in the first three.
LEMMA AnalyzeCounts ==
    ASSUME Types, BulkInv, AnalyzeImage("bulk")
    PROVE  BulkInv'
<1>1. pipe["bulk"].llmQ # <<>> /\ pipe["bulk"].llmQ \in Seq(Item) /\ pipe["bulk"].dbQ \in Seq(Item)
  BY BothPipes, FlowFields DEF AnalyzeImage
<1>2. UNCHANGED <<jobs, main>>
  BY DEF AnalyzeImage, scan
<1>3. PICK r : r = Head(pipe["bulk"].llmQ)
  OBVIOUS
<1>4. r \in Item
  BY <1>1, <1>3, Taken
<1>5. ASSUME NEW d \in Seq(Item), Answers("bulk", d), NEW n \in 0..1, Total' = Total + n,
             Len(d) = Len(pipe["bulk"].dbQ) + (1 - n)
      PROVE  BulkInv'
  <2>1. /\ pipe'["bulk"].vision = pipe["bulk"].vision /\ pipe'["bulk"].work = pipe["bulk"].work
        /\ pipe'["bulk"].llmQ = Tail(pipe["bulk"].llmQ) /\ pipe'["bulk"].dbQ = d
    BY <1>1, <1>5, BothPipes, AnswerMoves
  <2>2. Len(pipe'["bulk"].llmQ) = Len(pipe["bulk"].llmQ) + (-1)
    <3>1. Len(Tail(pipe["bulk"].llmQ)) = Len(pipe["bulk"].llmQ) - 1 /\ Len(pipe["bulk"].llmQ) \in Nat
      BY <1>1, Taken
    <3> QED BY <2>1, <3>1
  <2>3. Len(pipe'["bulk"].vision) = Len(pipe["bulk"].vision) + 0
    BY <2>1, Counted
  <2>4. Filled' = Filled + 0 + (-1) + (1 - n)
    BY <1>5, <2>1, <2>2, <2>3, Filling
  <2>5. Busy("bulk")' = Busy("bulk")
    BY <2>1 DEF Busy
  <2>6. Filled' + Cardinality(Busy("bulk")') = Filled + Cardinality(Busy("bulk")) - n
    BY <2>4, <2>5, Counted
  <2>7. CountInv'
    BY <1>2, <1>5, <2>6, Balance DEF BulkInv
  <2>8. main \in {"vision", "llm"}
    BY <1>1, BothPipes, IdleFlow DEF BulkInv, StageInv, Types, Stages, LLMDone
  <2>9. VisionDone => VisionDone'
    BY <2>1 DEF VisionDone
  <2> QED BY <1>2, <2>7, <2>8, <2>9 DEF BulkInv, StageInv
<1>6. CASE /\ pipe' = [pipe EXCEPT !["bulk"].llmQ = Tail(@), !["bulk"].dbQ = Append(@, r)]
           /\ UNCHANGED count
  <2>1. PICK d : d = Append(pipe["bulk"].dbQ, r)
    OBVIOUS
  <2>2. d \in Seq(Item) /\ Len(d) = Len(pipe["bulk"].dbQ) + (1 - 0)
    <3>1. Len(d) = Len(pipe["bulk"].dbQ) + 1 /\ d \in Seq(Item)
      BY <1>1, <1>4, <2>1, Sent
    <3> QED BY <3>1
  <2>3. Answers("bulk", d)
    BY <1>3, <1>6, <2>1 DEF Answers
  <2>4. Total' = Total + 0
    BY <1>6, Counted DEF Total
  <2> QED BY <1>5, <2>2, <2>3, <2>4
<1>7. CASE pipe' = [pipe EXCEPT !["bulk"].llmQ = Tail(@)] /\ Count("bulk", "failed")
  <2>1. Answers("bulk", pipe["bulk"].dbQ)
    BY <1>7 DEF Answers
  <2>2. Total' = Total + 1
    BY <1>7, BothPipes, Noted
  <2>3. Len(pipe["bulk"].dbQ) = Len(pipe["bulk"].dbQ) + (1 - 1)
    BY Counted
  <2> QED BY <1>1, <1>5, <2>1, <2>2, <2>3
<1> QED BY <1>3, <1>6, <1>7 DEF AnalyzeImage

LEMMA InsertCounts ==
    ASSUME Types, BulkInv, InsertImage("bulk")
    PROVE  BulkInv'
<1>1. pipe["bulk"].dbQ # <<>> /\ pipe["bulk"].dbQ \in Seq(Item)
  BY BothPipes, FlowFields DEF InsertImage
<1>2. UNCHANGED <<jobs, main>> /\ Writes("bulk") /\ \E what \in {"processed", "failed"} : Count("bulk", what)
  BY DEF InsertImage, scan, Writes
<1>3. /\ pipe'["bulk"].vision = pipe["bulk"].vision /\ pipe'["bulk"].work = pipe["bulk"].work
      /\ pipe'["bulk"].llmQ = pipe["bulk"].llmQ /\ pipe'["bulk"].dbQ = Tail(pipe["bulk"].dbQ)
  BY <1>1, <1>2, BothPipes, WriteMoves
<1>4. Len(pipe'["bulk"].dbQ) = Len(pipe["bulk"].dbQ) + (-1)
  <2>1. Len(Tail(pipe["bulk"].dbQ)) = Len(pipe["bulk"].dbQ) - 1 /\ Len(pipe["bulk"].dbQ) \in Nat
    BY <1>1, Taken
  <2> QED BY <1>3, <2>1
<1>5. Len(pipe'["bulk"].vision) = Len(pipe["bulk"].vision) + 0 /\ Len(pipe'["bulk"].llmQ) = Len(pipe["bulk"].llmQ) + 0
  BY <1>3, Counted
<1>6. Filled' = Filled + 0 + 0 + (-1)
  BY <1>4, <1>5, Filling
<1>7. Busy("bulk")' = Busy("bulk")
  BY <1>3 DEF Busy
<1>8. Filled' + Cardinality(Busy("bulk")') = Filled + Cardinality(Busy("bulk")) - 1
  BY <1>6, <1>7, Counted
<1>9. Total' = Total + 1
  BY <1>2, BothPipes, Noted
<1>10. CountInv'
  BY <1>2, <1>8, <1>9, Balance DEF BulkInv
<1>11. main \in {"vision", "llm", "db"}
  BY <1>1, BothPipes, IdleFlow DEF BulkInv, StageInv, Types, Stages, DBDone
<1>12. (VisionDone => VisionDone') /\ (LLMDone => LLMDone')
  BY <1>3 DEF VisionDone, LLMDone
<1> QED BY <1>2, <1>10, <1>11, <1>12 DEF BulkInv, StageInv

\* What starts the run and ends it.
LEMMA StartCounts ==
    ASSUME Types, BulkInv, StartIngest, jobs' \in Seq(Files)
    PROVE  BulkInv'
<1>1. pipe["bulk"] = Idle("bulk")
  BY DEF BulkInv, StageInv, StartIngest
<1>2. pipe' = [pipe EXCEPT !["bulk"].vision = jobs'] /\ main' = "vision" /\ count' = Zero
  BY DEF StartIngest
<1>3. PICK v \in Seq(Files) : v = jobs'
  OBVIOUS
<1>4. /\ pipe'["bulk"].vision = v /\ pipe'["bulk"].work = pipe["bulk"].work
      /\ pipe'["bulk"].llmQ = pipe["bulk"].llmQ /\ pipe'["bulk"].dbQ = pipe["bulk"].dbQ
  BY <1>2, <1>3, BothPipes, VisionMoves
<1>5. Busy("bulk")' = {}
  BY <1>1, <1>4, BothPipes, IdleFlow DEF Busy
<1>6. Filled' = Len(v) + 0 + 0
  BY <1>1, <1>4, BothPipes, IdleFlow, NoneSent DEF Filled
<1>7. InFlight' = Filled' + Cardinality(Busy("bulk")')
  BY DEF InFlight, Filled, Busy, Workers
<1>8. Total' = 0
  BY <1>2 DEF Total, Zero
<1>9. Total' + InFlight' = Len(jobs')
  <2>1. Len(v) \in Nat
    OBVIOUS
  <2>2. Cardinality(Busy("bulk")') = 0
    BY <1>5, FS_EmptySet
  <2>3. Total' + InFlight' = 0 + ((Len(v) + 0 + 0) + 0)
    BY <1>6, <1>7, <1>8, <2>2
  <2> QED BY <1>3, <2>1, <2>3
<1> QED BY <1>2, <1>9 DEF BulkInv, StageInv, CountInv

LEMMA WaitCounts ==
    ASSUME Types, BulkInv, Wait
    PROVE  BulkInv'
<1>1. UNCHANGED <<pipe, jobs, count>>
  BY DEF Wait
<1>2. CountInv'
  BY <1>1 DEF BulkInv, CountInv, InFlight, Total
<1>3. (VisionDone' <=> VisionDone) /\ (LLMDone' <=> LLMDone) /\ (DBDone' <=> DBDone)
  BY <1>1 DEF VisionDone, LLMDone, DBDone
<1>4. StageInv'
  BY <1>3 DEF Wait, BulkInv, StageInv
<1> QED BY <1>2, <1>4 DEF BulkInv

LEMMA IdleCounts ==
    ASSUME pipe["bulk"] = Idle("bulk"), jobs = <<>>, count = Zero
    PROVE  Total = 0 /\ InFlight = 0 /\ Len(jobs) = 0
<1>1. Busy("bulk") = {}
  BY BothPipes, IdleFlow DEF Busy
<1>2. Filled = 0 + 0 + 0
  BY BothPipes, IdleFlow, NoneSent DEF Filled
<1>3. InFlight = Filled + Cardinality(Busy("bulk"))
  BY DEF InFlight, Filled, Busy, Workers
<1> QED BY <1>1, <1>2, <1>3, FS_EmptySet, NoneSent DEF Total, Zero

LEMMA KillCounts ==
    ASSUME KillIngest, pipe'["bulk"] = Idle("bulk")
    PROVE  BulkInv'
<1>1. main' = "start" /\ jobs' = <<>> /\ count' = Zero
  BY DEF KillIngest
<1>2. Busy("bulk")' = {}
  BY BothPipes, IdleFlow DEF Busy
<1>3. Filled' = 0 + 0 + 0
  BY BothPipes, IdleFlow, NoneSent DEF Filled
<1>4. InFlight' = Filled' + Cardinality(Busy("bulk")')
  BY DEF InFlight, Filled, Busy, Workers
<1>5. Total' = 0
  BY <1>1 DEF Total, Zero
<1>6. CountInv'
  BY <1>1, <1>2, <1>3, <1>4, <1>5, FS_EmptySet, NoneSent DEF CountInv
<1>7. StageInv'
  BY <1>1 DEF StageInv, Idle
<1> QED BY <1>6, <1>7 DEF BulkInv

\* What the daemon does leaves the bulk run alone.
LEMMA DaemonApart ==
    ASSUME Types, NEW w \in Workers("daemon"), Worker("daemon", w)
    PROVE  Apart("daemon")
<1>1. CASE Take("daemon", w)
  <2>1. pipe["daemon"].vision # <<>>
    BY <1>1 DEF Take
  <2>2. PICK f : f = Head(pipe["daemon"].vision)
    OBVIOUS
  <2>3. f \in Files
    BY <2>1, <2>2, BothPipes, FlowFields, Taken
  <2>4. PICK s : s = IF Hash(f) \in DOMAIN rows THEN Rest
                     ELSE [pc |-> "decode", file |-> f, hash |-> Hash(f)]
    OBVIOUS
  <2>5. s \in Item
    BY <2>3, <2>4, HashNow, BothPipes, IdleFlow DEF Item
  <2>6. Takes("daemon", w, s)
    BY <1>1, <2>2, <2>4 DEF Take, Takes
  <2> QED BY <2>1, <2>5, <2>6, BothPipes, TakeMoves
<1>2. CASE Decode("daemon", w)
  BY <1>2, BothPipes, WorkMoves DEF Decode
<1>3. CASE SendVision("daemon", w)
  BY <1>3, BothPipes, SendMoves
<1> QED BY <1>1, <1>2, <1>3 DEF Worker

-----------------------------------------------------------------------------
(* The invariant holds throughout.                                         *)

LEMMA WorkerKeeps ==
    ASSUME IngestInv, NEW q \in Pipelines, NEW w \in Workers(q), Worker(q, w)
    PROVE  IngestInv'
<1>1. CarryInv'
  BY TakeCarries, DecodeCarries, SendCarries DEF IngestInv, Worker
<1>2. Types /\ BulkInv
  BY DEF IngestInv, CarryInv, BulkInv
<1>3. CASE q = "bulk"
  <2>1. w \in BulkWorkers
    BY <1>3 DEF Workers
  <2> QED BY <1>1, <1>2, <1>3, <2>1, TakeCounts, DecodeCounts, SendCounts DEF Worker, IngestInv, BulkInv
<1>4. CASE q = "daemon"
  <2>1. Apart("daemon")
    BY <1>2, <1>4, DaemonApart
  <2>2. UNCHANGED <<jobs, main>> /\ (count' = count \/ \E what : Count("daemon", what))
    BY <1>4 DEF Worker, Take, Decode, SendVision, scan
  <2> QED BY <1>1, <1>2, <2>1, <2>2, DaemonStays DEF IngestInv, BulkInv
<1> QED BY <1>3, <1>4 DEF Pipelines

LEMMA AnalyzeKeeps ==
    ASSUME IngestInv, NEW q \in Pipelines, AnalyzeImage(q)
    PROVE  IngestInv'
<1>1. CarryInv'
  BY AnalyzeCarries DEF IngestInv
<1>2. Types /\ BulkInv
  BY DEF IngestInv, CarryInv, BulkInv
<1>3. CASE q = "bulk"
  BY <1>1, <1>2, <1>3, AnalyzeCounts DEF IngestInv, BulkInv
<1>4. CASE q = "daemon"
  <2>1. Apart("daemon")
    BY <1>2, <1>4 DEF AnalyzeImage, Apart, Types
  <2>2. UNCHANGED <<jobs, main>> /\ (count' = count \/ \E what : Count("daemon", what))
    BY <1>4 DEF AnalyzeImage, scan
  <2> QED BY <1>1, <1>2, <2>1, <2>2, DaemonStays DEF IngestInv, BulkInv
<1> QED BY <1>3, <1>4 DEF Pipelines

LEMMA InsertKeeps ==
    ASSUME IngestInv, NEW q \in Pipelines, InsertImage(q)
    PROVE  IngestInv'
<1>1. CarryInv'
  BY InsertCarries DEF IngestInv
<1>2. Types /\ BulkInv
  BY DEF IngestInv, CarryInv, BulkInv
<1>3. CASE q = "bulk"
  BY <1>1, <1>2, <1>3, InsertCounts DEF IngestInv, BulkInv
<1>4. CASE q = "daemon"
  <2>1. Apart("daemon")
    BY <1>2, <1>4 DEF InsertImage, Apart, Types
  <2>2. UNCHANGED <<jobs, main>> /\ (count' = count \/ \E what : Count("daemon", what))
    BY <1>4 DEF InsertImage, scan
  <2> QED BY <1>1, <1>2, <2>1, <2>2, DaemonStays DEF IngestInv, BulkInv
<1> QED BY <1>3, <1>4 DEF Pipelines

LEMMA InitIngest == Init => IngestInv
<1> SUFFICES ASSUME Init PROVE IngestInv
  OBVIOUS
<1>1. \A q \in Pipelines : pipe[q] = Idle(q)
  BY DEF Init
<1>2. Types
  BY <1>1, IdleFlow, NoneSent DEF Init, Types, Zero, Stages
<1>3. \A q \in Pipelines : Items(q) = {}
  BY <1>1, IdleFlow, NoneSent DEF Items, Busy
<1>4. \A q \in Pipelines : Len(pipe[q].vision) = 0 /\ Len(pipe[q].llmQ) = 0 /\ Len(pipe[q].dbQ) = 0
  BY <1>1, IdleFlow, NoneSent
<1>5. 0 <= QueueCap
  BY BoundsAssumption
<1>6. ItemInv
  BY <1>3, <1>4, <1>5 DEF ItemInv
<1>7. RowInv
  <2>1. DOMAIN rows = {}
    BY DEF Init
  <2> QED BY <2>1 DEF RowInv
<1>8. TakenInv /\ HeardInv
  BY NoneSent DEF Init, TakenInv, HeardInv
<1>9. CarryInv
  BY <1>2, <1>4, <1>5, <1>6, <1>7, <1>8, BothPipes DEF CarryInv
<1>10. StageInv
  BY <1>1, BothPipes DEF Init, StageInv
<1>11. CountInv
  BY <1>1, BothPipes, IdleCounts DEF Init, CountInv
<1> QED BY <1>9, <1>10, <1>11 DEF IngestInv

LEMMA IngestStep == IngestInv /\ [Next]_vars => IngestInv'
<1> SUFFICES ASSUME IngestInv, [Next]_vars PROVE IngestInv'
  OBVIOUS
<1>1. CarryInv /\ StageInv /\ Types /\ BulkInv
  BY DEF IngestInv, CarryInv, BulkInv
<1>2. ASSUME NEW f \in Files, StartCopy(f) \/ FinishCopy(f) PROVE IngestInv'
  <2>1. pipe' = pipe /\ UNCHANGED <<jobs, main, count>>
    BY <1>2 DEF StartCopy, FinishCopy, scan
  <2> QED BY <1>1, <1>2, <2>1, FolderCarries, BulkStays DEF IngestInv, BulkInv
<1>3. CASE StartIngest
  BY <1>1, <1>3, StartCarries, StartCounts DEF IngestInv, BulkInv
<1>4. CASE Wait
  BY <1>1, <1>4, WaitCarries, WaitCounts DEF IngestInv, BulkInv
<1>5. CASE KillIngest
  BY <1>1, <1>5, KillCarries, KillCounts DEF IngestInv, BulkInv
<1>6. CASE SendBatch
  <2>1. UNCHANGED <<jobs, main, count>>
    BY <1>6 DEF SendBatch, scan
  <2> QED BY <1>1, <1>6, <2>1, BatchCarries, BulkStays DEF IngestInv, BulkInv
<1>7. CASE UNCHANGED vars
  <2>1. UNCHANGED <<disk, looks, rows, pipe, jobs, main, count, pending, heard, givenUp>>
    BY <1>7 DEF vars, folder, scan
  <2>2. Types'
    BY <1>1, <2>1 DEF Types
  <2>3. ItemInv' /\ RowInv'
    BY <2>1 DEF IngestInv, CarryInv, ItemInv, RowInv, HashOf, Items, Busy, ARow
  <2>4. TakenInv' /\ HeardInv'
    BY <2>1 DEF IngestInv, CarryInv, TakenInv, HeardInv, InPipe, Items, Busy, Settled, Alike
  <2>5. CarryInv'
    BY <1>1, <2>1, <2>2, <2>3, <2>4 DEF CarryInv
  <2> QED BY <1>1, <2>1, <2>5, BulkStays DEF IngestInv, BulkInv
<1> QED BY <1>2, <1>3, <1>4, <1>5, <1>6, <1>7, WorkerKeeps, AnalyzeKeeps, InsertKeeps DEF Next

LEMMA Always == Spec => []IngestInv
BY InitIngest, IngestStep, PTL DEF Spec

-----------------------------------------------------------------------------
(* The properties.                                                         *)

LEMMA TypesHold == IngestInv => TypeOK
<1> SUFFICES ASSUME IngestInv PROVE TypeOK
  OBVIOUS
<1>1. Types /\ ItemInv /\ RowInv /\ Len(pipe["daemon"].vision) <= QueueCap
  BY DEF IngestInv, CarryInv
<1>2. /\ DOMAIN rows \subseteq Hashes
      /\ \A h \in DOMAIN rows :
            /\ rows[h].caption \in Pipelines \cup {"failed"}
            /\ rows[h].vector \in Pipelines \cup {Nil}
  BY <1>1 DEF RowInv
<1>3. ASSUME NEW q \in Pipelines
      PROVE  /\ Len(pipe[q].llmQ) <= QueueCap /\ Len(pipe[q].dbQ) <= QueueCap
             /\ \A r \in Range(pipe[q].llmQ) \cup Range(pipe[q].dbQ) : r \in Item /\ r.hash \in Hashes
             /\ \A w \in Workers(q) : pipe[q].work[w] \in Item
  <2>1. /\ pipe[q].llmQ \in Seq(Item) /\ pipe[q].dbQ \in Seq(Item)
        /\ pipe[q].work \in [Workers(q) -> Item]
    BY <1>1, FlowFields
  <2>2. Range(pipe[q].llmQ) \subseteq Item /\ Range(pipe[q].dbQ) \subseteq Item
    BY <2>1 DEF Range
  <2>3. \A r \in Items(q) : r.hash \in Hashes
    BY <1>1, HashType DEF ItemInv
  <2> QED BY <1>1, <2>1, <2>2, <2>3 DEF ItemInv, Items
<1>4. disk \in [Files -> {"absent", "part", "whole"}] /\ looks \in Looks /\ pending \subseteq Files
  BY <1>1 DEF Types
<1> QED BY <1>1, <1>2, <1>3, <1>4 DEF TypeOK

\* Nothing is left in the pipeline of a run that is done.
LEMMA DoneIsEmpty ==
    ASSUME IngestInv, main = "done"
    PROVE  InFlight = 0 /\ \A f : ~InPipe("bulk", f)
<1>1. pipe["bulk"].vision = <<>> /\ pipe["bulk"].llmQ = <<>> /\ pipe["bulk"].dbQ = <<>>
  BY DEF IngestInv, StageInv, VisionDone, LLMDone, DBDone
<1>2. Busy("bulk") = {}
  BY DEF IngestInv, StageInv, VisionDone, Busy, Workers
<1>3. InFlight = 0
  <2>1. InFlight = Filled + Cardinality(Busy("bulk"))
    BY DEF InFlight, Filled, Busy, Workers
  <2>2. Filled = 0 + 0 + 0
    BY <1>1, NoneSent DEF Filled
  <2> QED BY <1>2, <2>1, <2>2, FS_EmptySet
<1>4. \A f : ~InPipe("bulk", f)
  BY <1>1, <1>2, NoneSent DEF InPipe, Items
<1> QED BY <1>3, <1>4

\* No picture falls out of the bulk run uncounted, the channels keep to their capacity,
\* and none is left in them when RunIngest prints its three counters and returns.
THEOREM EveryPictureCounted == Spec => []Accounted
<1>1. IngestInv => Accounted
  <2> SUFFICES ASSUME IngestInv PROVE Accounted
    OBVIOUS
  <2>1. Total + InFlight = Len(jobs)
    BY DEF IngestInv, CountInv
  <2> QED BY <2>1, TypesHold, DoneIsEmpty DEF Accounted, Total
<1> QED BY <1>1, Always, PTL

\* A picture the bulk run took on is in the library when the run is done, or one that
\* looks like it is, or it could not be decoded, or its INSERT failed: whatever the daemon
\* wrote meanwhile and however often the run was killed.
THEOREM TakenIsKept == Spec => []Kept
<1>1. IngestInv => Kept
  <2> SUFFICES ASSUME IngestInv, main = "done", NEW f \in Range(jobs) \ givenUp["bulk"]
               PROVE  Alike(f)
    BY DEF Kept
  <2>1. InPipe("bulk", f) \/ Settled("bulk", f)
    BY DEF IngestInv, CarryInv, TakenInv
  <2> QED BY <2>1, DoneIsEmpty DEF Settled
<1> QED BY <1>1, Always, PTL

\* A picture inotify reported to the daemon is on its way through it, or it is in the
\* library or one like it, or it could not be read or analysed: no channel that fills up
\* and no row of the bulk run makes the daemon forget one.
THEOREM HeardIsNotLost == Spec => []HeardIsKept
<1>1. IngestInv => HeardIsKept
  <2> SUFFICES ASSUME IngestInv, NEW f \in heard
               PROVE  OnItsWay(f) \/ Alike(f) \/ f \in givenUp["daemon"]
    BY DEF HeardIsKept
  <2>1. f \in pending \/ InPipe("daemon", f) \/ Settled("daemon", f)
    BY DEF IngestInv, CarryInv, HeardInv
  <2>2. InPipe("daemon", f) => OnItsWay(f)
    BY DEF InPipe, OnItsWay, Items, Busy, Workers
  <2> QED BY <2>1, <2>2 DEF Settled, OnItsWay
<1> QED BY <1>1, Always, PTL

\* The vector the bulk run stored is that of the caption it stored, although the daemon
\* may write the row of the same hash first: RunIngest goes on with the next picture after
\* an INSERT that was refused.
THEOREM VectorFitsCaption == Spec => []VectorOfCaption
<1>1. IngestInv => VectorOfCaption
  BY DEF IngestInv, CarryInv, RowInv, VectorOfCaption
<1> QED BY <1>1, Always, PTL

-----------------------------------------------------------------------------
(* The safety half of IngestEnds: a run has a bounded number of steps left *)
(* and, until it is done, one that can be taken.                           *)

BulkStep ==
    \/ \E w \in BulkWorkers : Worker("bulk", w)
    \/ AnalyzeImage("bulk") \/ InsertImage("bulk") \/ StartIngest \/ Wait

Decoding == {w \in BulkWorkers : pipe["bulk"].work[w].pc = "decode"}

\* The steps that the pictures in a run's channels and workers have before them.
Ahead ==
    LET b == pipe["bulk"] IN
    5 * Len(b.vision) + 3 * Cardinality(Busy("bulk")) + Cardinality(Decoding)
    + 2 * Len(b.llmQ) + Len(b.dbQ)
WaitsLeft(m) == CASE m = "vision" -> 3 [] m = "llm" -> 2 [] m = "db" -> 1 [] m = "done" -> 0

RunLeft == IF main = "start" THEN 5 * NumFiles + 4 ELSE Ahead + WaitsLeft(main)

\* What a run took on is on the disk, and it works on nothing else.
JobsInv ==
    /\ Len(jobs) <= NumFiles
    /\ \A f \in Range(jobs) : disk[f] # "absent"
    /\ \A f \in Files : InPipe("bulk", f) => f \in Range(jobs)

LEMMA DecodingCounted ==
    ASSUME Types
    PROVE  /\ IsFiniteSet(Decoding) /\ Cardinality(Decoding) \in Nat
           /\ Decoding \subseteq Busy("bulk") /\ Cardinality(Decoding) <= Cardinality(Busy("bulk"))
<1>1. Decoding \subseteq Busy("bulk")
  BY DEF Decoding, Busy, Workers
<1> QED BY <1>1, Counted, FS_Subset, FS_CardinalityType

LEMMA DecodingMoves ==
    ASSUME Types, NEW w \in Workers("bulk"), NEW s \in Item,
           pipe'["bulk"].work = [pipe["bulk"].work EXCEPT ![w] = s]
    PROVE  LET n == Cardinality(Decoding)
               m == Cardinality(Decoding')
               before == pipe["bulk"].work[w].pc = "decode"
           IN  /\ ~before /\ s.pc = "decode" => m = n + 1
               /\ before /\ s.pc # "decode" => m = n - 1
               /\ ~before /\ s.pc # "decode" => m = n
<1>1. /\ pipe'["bulk"].work[w] = s
      /\ \A v \in Workers("bulk") : v # w => pipe'["bulk"].work[v] = pipe["bulk"].work[v]
  BY FlowFields, BothPipes
<1>2. PICK B, C : B = Decoding /\ C = Decoding'
  OBVIOUS
<1>3. IsFiniteSet(B)
  BY <1>2, DecodingCounted
<1>4. w \in B <=> pipe["bulk"].work[w].pc = "decode"
  BY <1>2 DEF Decoding, Workers
<1>5. s.pc = "decode" => C = B \cup {w}
  BY <1>1, <1>2 DEF Decoding, Workers
<1>6. s.pc # "decode" => C = B \ {w}
  BY <1>1, <1>2 DEF Decoding, Workers
<1>7. Cardinality(B \cup {w}) = IF w \in B THEN Cardinality(B) ELSE Cardinality(B) + 1
  BY <1>3, FS_AddElement
<1>8. Cardinality(B \ {w}) = IF w \in B THEN Cardinality(B) - 1 ELSE Cardinality(B)
  BY <1>3, FS_RemoveElement
<1> QED BY <1>2, <1>4, <1>5, <1>6, <1>7, <1>8

\* A step changes Ahead by what it moves.
LEMMA Falls ==
    ASSUME Types, NEW v \in Int, NEW b \in Int, NEW c \in Int, NEW l \in Int, NEW d \in Int,
           Len(pipe'["bulk"].vision) = Len(pipe["bulk"].vision) + v,
           Cardinality(Busy("bulk")') = Cardinality(Busy("bulk")) + b,
           Cardinality(Decoding') = Cardinality(Decoding) + c,
           Len(pipe'["bulk"].llmQ) = Len(pipe["bulk"].llmQ) + l,
           Len(pipe'["bulk"].dbQ) = Len(pipe["bulk"].dbQ) + d,
           5 * v + 3 * b + c + 2 * l + d < 0
    PROVE  Ahead' \in Int /\ Ahead' < Ahead
<1>1. PICK V, B, C, L, D :
        /\ V = Len(pipe["bulk"].vision) /\ B = Cardinality(Busy("bulk")) /\ C = Cardinality(Decoding)
        /\ L = Len(pipe["bulk"].llmQ) /\ D = Len(pipe["bulk"].dbQ)
  OBVIOUS
<1>2. V \in Nat /\ B \in Nat /\ C \in Nat /\ L \in Nat /\ D \in Nat
  BY <1>1, Counted, DecodingCounted
<1>3. Ahead = 5 * V + 3 * B + C + 2 * L + D
  BY <1>1 DEF Ahead
<1>4. Ahead' = 5 * (V + v) + 3 * (B + b) + (C + c) + 2 * (L + l) + (D + d)
  BY <1>1 DEF Ahead
<1>5. 5 * v + 3 * b + c + 2 * l + d < 0
  OBVIOUS
<1> QED BY ONLY <1>2, <1>3, <1>4, <1>5, v \in Int, b \in Int, c \in Int, l \in Int, d \in Int

LEMMA AheadBounds ==
    ASSUME IngestInv, JobsInv
    PROVE  Ahead \in 0..(5 * NumFiles)
<1>1. Types /\ Total + InFlight = Len(jobs) /\ Len(jobs) <= NumFiles
  BY DEF IngestInv, CarryInv, CountInv, JobsInv
<1>2. PICK V, B, C, L, D :
        /\ V = Len(pipe["bulk"].vision) /\ B = Cardinality(Busy("bulk")) /\ C = Cardinality(Decoding)
        /\ L = Len(pipe["bulk"].llmQ) /\ D = Len(pipe["bulk"].dbQ)
  OBVIOUS
<1>3. V \in Nat /\ B \in Nat /\ C \in Nat /\ L \in Nat /\ D \in Nat /\ C <= B
  BY <1>1, <1>2, Counted, DecodingCounted
<1>4. Ahead = 5 * V + 3 * B + C + 2 * L + D
  BY <1>2 DEF Ahead
<1>5. InFlight = (V + L + D) + B
  BY <1>1, <1>2, Counted DEF Filled
<1>6. Total \in Nat /\ Len(jobs) \in Nat /\ NumFiles \in Nat
  BY <1>1, Counted, FilesAssumption
<1> QED BY ONLY <1>1, <1>3, <1>4, <1>5, <1>6

LEMMA RunLeftBounds ==
    ASSUME IngestInv, JobsInv
    PROVE  /\ RunLeft \in 0..(5 * NumFiles + 4)
           /\ main # "done" => RunLeft >= 1
<1>1. Ahead \in 0..(5 * NumFiles) /\ NumFiles \in Nat
  BY AheadBounds, FilesAssumption
<1>2. main \in Stages
  BY DEF IngestInv, CarryInv, Types
<1>3. CASE main = "start"
  BY <1>1, <1>3 DEF RunLeft
<1>4. CASE main # "start"
  <2>1. RunLeft = Ahead + WaitsLeft(main)
    BY <1>4 DEF RunLeft
  <2>2. WaitsLeft(main) \in 0..3 /\ (main # "done" => WaitsLeft(main) >= 1)
    BY <1>2, <1>4 DEF Stages, WaitsLeft
  <2> QED BY <1>1, <1>4, <2>1, <2>2
<1> QED BY <1>3, <1>4

\* A worker or goroutine of the run brings a picture further, and no other picture in.
Onwards ==
    /\ UNCHANGED <<disk, jobs, main>> /\ Ahead' \in Int /\ Ahead' < Ahead
    /\ \A f : InPipe("bulk", f)' => InPipe("bulk", f)

LEMMA TakeOnwards ==
    ASSUME Types, NEW w \in BulkWorkers, Take("bulk", w)
    PROVE  Onwards
<1>1. pipe["bulk"].vision # <<>> /\ pipe["bulk"].work[w].pc = "idle" /\ w \in Workers("bulk")
  BY DEF Take, Workers
<1>2. PICK f : f = Head(pipe["bulk"].vision)
  OBVIOUS
<1>3. /\ f \in Files /\ f \in Range(pipe["bulk"].vision) /\ pipe["bulk"].vision \in Seq(Files)
      /\ Range(Tail(pipe["bulk"].vision)) \subseteq Range(pipe["bulk"].vision)
  BY <1>1, <1>2, BothPipes, FlowFields, Taken
<1>4. PICK s : s = [pc |-> "decode", file |-> f, hash |-> Hash(f)]
  OBVIOUS
<1>5. s \in Item /\ s.pc = "decode" /\ s.file = f /\ Takes("bulk", w, s)
  BY <1>2, <1>3, <1>4, HashNow DEF Item, Take, Takes
<1>6. /\ pipe'["bulk"].vision = Tail(pipe["bulk"].vision)
      /\ pipe'["bulk"].llmQ = pipe["bulk"].llmQ /\ pipe'["bulk"].dbQ = pipe["bulk"].dbQ
      /\ pipe'["bulk"].work = [pipe["bulk"].work EXCEPT ![w] = s]
  BY <1>1, <1>5, BothPipes, TakeMoves
<1>7. Len(pipe'["bulk"].vision) = Len(pipe["bulk"].vision) + (-1)
  <2>1. Len(Tail(pipe["bulk"].vision)) = Len(pipe["bulk"].vision) - 1 /\ Len(pipe["bulk"].vision) \in Nat
    BY <1>1, <1>3, Taken
  <2> QED BY <1>6, <2>1
<1>8. Cardinality(Busy("bulk")') = Cardinality(Busy("bulk")) + 1
  BY <1>1, <1>5, <1>6, BusyMoves
<1>9. Cardinality(Decoding') = Cardinality(Decoding) + 1
  BY <1>1, <1>5, <1>6, DecodingMoves
<1>10. /\ Len(pipe'["bulk"].llmQ) = Len(pipe["bulk"].llmQ) + 0
       /\ Len(pipe'["bulk"].dbQ) = Len(pipe["bulk"].dbQ) + 0
  BY <1>6, Counted
<1>12. Ahead' \in Int /\ Ahead' < Ahead
  <2>1. -1 \in Int /\ 0 \in Int /\ 1 \in Int /\ 5 * (-1) + 3 * 1 + 1 + 2 * 0 + 0 < 0
    OBVIOUS
  <2> QED BY <1>7, <1>8, <1>9, <1>10, <2>1, Falls, Zenon
<1>13. \A g : InPipe("bulk", g)' => InPipe("bulk", g)
  <2>1. \A r \in Items("bulk")' : r \in Items("bulk") \/ r.file \in Range(pipe["bulk"].vision)
    BY <1>1, <1>3, <1>5, BothPipes, TakeItems
  <2> QED BY <1>3, <1>6, <2>1 DEF InPipe
<1> QED BY <1>12, <1>13 DEF Take, folder, scan, Onwards

LEMMA DecodeOnwards ==
    ASSUME Types, NEW w \in BulkWorkers, Decode("bulk", w)
    PROVE  Onwards
<1>1. PICK r : r = pipe["bulk"].work[w]
  OBVIOUS
<1>2. r.pc = "decode" /\ r \in Item /\ w \in Workers("bulk")
  BY <1>1, BothPipes, FlowFields DEF Decode, Workers
<1>3. r \in Items("bulk")
  BY <1>1, <1>2 DEF Items, Busy
<1>4. ASSUME NEW s \in Item, Work("bulk", w, s), s.pc # "decode", s.pc # "idle" => s.file = r.file
      PROVE  Onwards
  <2>1. /\ pipe'["bulk"].vision = pipe["bulk"].vision
        /\ pipe'["bulk"].llmQ = pipe["bulk"].llmQ /\ pipe'["bulk"].dbQ = pipe["bulk"].dbQ
        /\ pipe'["bulk"].work = [pipe["bulk"].work EXCEPT ![w] = s]
    BY <1>2, <1>4, BothPipes, WorkMoves
  <2>2. Cardinality(Decoding') = Cardinality(Decoding) + (-1)
    BY <1>1, <1>2, <1>4, <2>1, DecodingMoves, DecodingCounted
  <2>3. PICK b \in {-1, 0} : Cardinality(Busy("bulk")') = Cardinality(Busy("bulk")) + b
    <3>1. pipe["bulk"].work[w].pc # "idle"
      BY <1>1, <1>2
    <3>2. s.pc = "idle" => Cardinality(Busy("bulk")') = Cardinality(Busy("bulk")) + (-1)
      BY <1>2, <2>1, <3>1, BusyMoves, Counted
    <3>3. s.pc # "idle" => Cardinality(Busy("bulk")') = Cardinality(Busy("bulk")) + 0
      BY <1>2, <2>1, <3>1, BusyMoves, Counted
    <3> QED BY <3>2, <3>3
  <2>4. /\ Len(pipe'["bulk"].vision) = Len(pipe["bulk"].vision) + 0
        /\ Len(pipe'["bulk"].llmQ) = Len(pipe["bulk"].llmQ) + 0
        /\ Len(pipe'["bulk"].dbQ) = Len(pipe["bulk"].dbQ) + 0
    BY <2>1, Counted
  <2>6. Ahead' \in Int /\ Ahead' < Ahead
    <3>1. -1 \in Int /\ 0 \in Int /\ b \in Int /\ 5 * 0 + 3 * b + (-1) + 2 * 0 + 0 < 0
      OBVIOUS
    <3> QED BY <2>2, <2>3, <2>4, <3>1, Falls, Zenon
  <2>7. \A g : InPipe("bulk", g)' => InPipe("bulk", g)
    <3>1. \A i \in Items("bulk")' : i \in Items("bulk") \/ (i.file = r.file)
      BY <1>1, <1>2, <1>4, BothPipes, WorkItems
    <3> QED BY <1>3, <2>1, <3>1 DEF InPipe
  <2> QED BY <2>6, <2>7 DEF Decode, folder, scan, Onwards
<1>5. ASSUME Work("bulk", w, Rest) PROVE Onwards
  <2>1. Rest \in Item /\ Rest.pc = "idle"
    BY BothPipes, IdleFlow DEF Rest
  <2> QED BY <1>4, <1>5, <2>1
<1>6. ASSUME Work("bulk", w, [r EXCEPT !.pc = "send"]) PROVE Onwards
  <2>1. PICK s : s = [r EXCEPT !.pc = "send"]
    OBVIOUS
  <2>2. s \in Item /\ s.pc = "send" /\ s.file = r.file
    BY <1>2, <2>1 DEF Item
  <2> QED BY <1>4, <1>6, <2>1, <2>2
<1> QED BY <1>1, <1>5, <1>6 DEF Decode

LEMMA SendOnwards ==
    ASSUME Types, NEW w \in BulkWorkers, SendVision("bulk", w)
    PROVE  Onwards
<1>1. pipe["bulk"].work[w].pc = "send" /\ w \in Workers("bulk")
  BY DEF SendVision, Workers
<1>2. /\ pipe'["bulk"].vision = pipe["bulk"].vision /\ pipe'["bulk"].dbQ = pipe["bulk"].dbQ
      /\ pipe'["bulk"].llmQ = Append(pipe["bulk"].llmQ, pipe["bulk"].work[w])
      /\ pipe'["bulk"].work = [pipe["bulk"].work EXCEPT ![w] = Rest]
  BY <1>1, BothPipes, SendMoves
<1>3. Len(pipe'["bulk"].llmQ) = Len(pipe["bulk"].llmQ) + 1
  <2>1. pipe["bulk"].llmQ \in Seq(Item) /\ pipe["bulk"].work[w] \in Item
    BY <1>1, BothPipes, FlowFields
  <2> QED BY <1>2, <2>1, Sent
<1>4. Rest \in Item /\ Rest.pc = "idle"
  BY BothPipes, IdleFlow DEF Rest
<1>5. Cardinality(Busy("bulk")') = Cardinality(Busy("bulk")) + (-1)
  BY <1>1, <1>2, <1>4, BusyMoves, Counted
<1>6. Cardinality(Decoding') = Cardinality(Decoding) + 0
  BY <1>1, <1>2, <1>4, DecodingMoves, DecodingCounted
<1>7. /\ Len(pipe'["bulk"].vision) = Len(pipe["bulk"].vision) + 0
      /\ Len(pipe'["bulk"].dbQ) = Len(pipe["bulk"].dbQ) + 0
  BY <1>2, Counted
<1>9. Ahead' \in Int /\ Ahead' < Ahead
  <2>1. -1 \in Int /\ 0 \in Int /\ 1 \in Int /\ 5 * 0 + 3 * (-1) + 0 + 2 * 1 + 0 < 0
    OBVIOUS
  <2> QED BY <1>3, <1>5, <1>6, <1>7, <2>1, Falls, Zenon
<1>10. \A g : InPipe("bulk", g)' => InPipe("bulk", g)
  <2>1. \A i \in Items("bulk")' : i \in Items("bulk")
    BY <1>1, BothPipes, SendItems
  <2> QED BY <1>2, <2>1 DEF InPipe
<1> QED BY <1>9, <1>10 DEF SendVision, folder, scan, Onwards

LEMMA AnalyzeOnwards ==
    ASSUME Types, AnalyzeImage("bulk")
    PROVE  Onwards
<1>1. pipe["bulk"].llmQ # <<>> /\ pipe["bulk"].llmQ \in Seq(Item) /\ pipe["bulk"].dbQ \in Seq(Item)
  BY BothPipes, FlowFields DEF AnalyzeImage
<1>2. PICK r : r = Head(pipe["bulk"].llmQ)
  OBVIOUS
<1>3. r \in Item
  BY <1>1, <1>2, Taken
<1>4. ASSUME NEW d \in Seq(Item), Answers("bulk", d), NEW n \in 0..1,
             Len(d) = Len(pipe["bulk"].dbQ) + n
      PROVE  Onwards
  <2>1. /\ pipe'["bulk"].vision = pipe["bulk"].vision /\ pipe'["bulk"].work = pipe["bulk"].work
        /\ pipe'["bulk"].llmQ = Tail(pipe["bulk"].llmQ) /\ pipe'["bulk"].dbQ = d
    BY <1>1, <1>4, BothPipes, AnswerMoves
  <2>2. Len(pipe'["bulk"].llmQ) = Len(pipe["bulk"].llmQ) + (-1)
    <3>1. Len(Tail(pipe["bulk"].llmQ)) = Len(pipe["bulk"].llmQ) - 1 /\ Len(pipe["bulk"].llmQ) \in Nat
      BY <1>1, Taken
    <3> QED BY <2>1, <3>1
  <2>3. Busy("bulk")' = Busy("bulk") /\ Decoding' = Decoding
    BY <2>1 DEF Busy, Decoding
  <2>4. /\ Len(pipe'["bulk"].vision) = Len(pipe["bulk"].vision) + 0
        /\ Cardinality(Busy("bulk")') = Cardinality(Busy("bulk")) + 0
        /\ Cardinality(Decoding') = Cardinality(Decoding) + 0
    BY <2>1, <2>3, Counted, DecodingCounted
  <2>5. Len(pipe'["bulk"].dbQ) = Len(pipe["bulk"].dbQ) + n
    BY <1>4, <2>1
  <2>7. Ahead' \in Int /\ Ahead' < Ahead
    <3>1. -1 \in Int /\ 0 \in Int /\ n \in Int /\ 5 * 0 + 3 * 0 + 0 + 2 * (-1) + n < 0
      OBVIOUS
    <3> QED BY <2>2, <2>4, <2>5, <3>1, Falls, Zenon
  <2>8. \A g : InPipe("bulk", g)' => InPipe("bulk", g)
    <3>1. \A i \in Items("bulk")' : i \in Items("bulk")
      BY <1>1, <1>4, BothPipes, AnswerItems
    <3> QED BY <2>1, <3>1 DEF InPipe
  <2> QED BY <2>7, <2>8 DEF AnalyzeImage, folder, scan, Onwards
<1>5. CASE pipe' = [pipe EXCEPT !["bulk"].llmQ = Tail(@), !["bulk"].dbQ = Append(@, r)]
  <2>1. PICK d : d = Append(pipe["bulk"].dbQ, r)
    OBVIOUS
  <2>2. d \in Seq(Item) /\ Len(d) = Len(pipe["bulk"].dbQ) + 1
    BY <1>1, <1>3, <2>1, Sent
  <2>3. Answers("bulk", d)
    BY <1>2, <1>5, <2>1 DEF Answers
  <2> QED BY <1>4, <2>2, <2>3
<1>6. CASE pipe' = [pipe EXCEPT !["bulk"].llmQ = Tail(@)]
  <2>1. Answers("bulk", pipe["bulk"].dbQ)
    BY <1>6 DEF Answers
  <2>2. Len(pipe["bulk"].dbQ) = Len(pipe["bulk"].dbQ) + 0
    BY Counted
  <2> QED BY <1>1, <1>4, <2>1, <2>2
<1> QED BY <1>2, <1>5, <1>6 DEF AnalyzeImage

LEMMA InsertOnwards ==
    ASSUME Types, InsertImage("bulk")
    PROVE  Onwards
<1>1. pipe["bulk"].dbQ # <<>> /\ pipe["bulk"].dbQ \in Seq(Item) /\ Writes("bulk")
  BY BothPipes, FlowFields DEF InsertImage, Writes
<1>2. /\ pipe'["bulk"].vision = pipe["bulk"].vision /\ pipe'["bulk"].work = pipe["bulk"].work
      /\ pipe'["bulk"].llmQ = pipe["bulk"].llmQ /\ pipe'["bulk"].dbQ = Tail(pipe["bulk"].dbQ)
  BY <1>1, BothPipes, WriteMoves
<1>3. Len(pipe'["bulk"].dbQ) = Len(pipe["bulk"].dbQ) + (-1)
  <2>1. Len(Tail(pipe["bulk"].dbQ)) = Len(pipe["bulk"].dbQ) - 1 /\ Len(pipe["bulk"].dbQ) \in Nat
    BY <1>1, Taken
  <2> QED BY <1>2, <2>1
<1>4. Busy("bulk")' = Busy("bulk") /\ Decoding' = Decoding
  BY <1>2 DEF Busy, Decoding
<1>5. /\ Len(pipe'["bulk"].vision) = Len(pipe["bulk"].vision) + 0
      /\ Len(pipe'["bulk"].llmQ) = Len(pipe["bulk"].llmQ) + 0
      /\ Cardinality(Busy("bulk")') = Cardinality(Busy("bulk")) + 0
      /\ Cardinality(Decoding') = Cardinality(Decoding) + 0
  BY <1>2, <1>4, Counted, DecodingCounted
<1>7. Ahead' \in Int /\ Ahead' < Ahead
  <2>1. -1 \in Int /\ 0 \in Int /\ 1 \in Int /\ 5 * 0 + 3 * 0 + 0 + 2 * 0 + (-1) < 0
    OBVIOUS
  <2> QED BY <1>3, <1>5, <2>1, Falls, Zenon
<1>8. \A g : InPipe("bulk", g)' => InPipe("bulk", g)
  <2>1. \A i \in Items("bulk")' : i \in Items("bulk")
    BY <1>1, BothPipes, WriteItems
  <2> QED BY <1>2, <2>1 DEF InPipe
<1> QED BY <1>7, <1>8 DEF InsertImage, folder, scan, Onwards

\* The walk takes on files that are on the disk, each once.
LEMMA StartTakes ==
    ASSUME Types, BulkInv, StartIngest
    PROVE  /\ jobs' \in Seq(Files) /\ Len(jobs') <= NumFiles
           /\ \A f \in Range(jobs') : disk'[f] # "absent"
           /\ \A f : InPipe("bulk", f)' => f \in Range(jobs')
           /\ main' = "vision" /\ Ahead' = 5 * Len(jobs')
<1> DEFINE wanted == {f \in Files : Wanted(f)}
<1>1. PICK walk \in [1..Cardinality(wanted) -> wanted] : jobs' = walk
  BY DEF StartIngest
<1>2. IsFiniteSet(Files) /\ Cardinality(Files) = NumFiles
  BY FilesAssumption, FS_Interval DEF Files
<1>3. Cardinality(wanted) \in Nat /\ Cardinality(wanted) <= NumFiles
  BY <1>2, FS_Subset, FS_CardinalityType
<1>4. \A f \in wanted : f \in Files /\ disk[f] # "absent"
  BY DEF Wanted, Present
<1>5. jobs' \in Seq(Files) /\ Len(jobs') = Cardinality(wanted) /\ Range(jobs') \subseteq wanted
  <2> HIDE DEF wanted
  <2>1. DOMAIN jobs' = 1..Cardinality(wanted) /\ \A i \in 1..Cardinality(wanted) : jobs'[i] \in wanted
    BY <1>1
  <2>2. jobs' \in [1..Cardinality(wanted) -> Files]
    BY <1>1, <1>4
  <2>3. jobs' \in Seq(Files)
    BY <1>3, <2>2, SeqDef
  <2>4. Len(jobs') = Cardinality(wanted)
    BY <1>3, <2>1, <2>3
  <2> QED BY <2>1, <2>3, <2>4 DEF Range
<1>6. pipe["bulk"] = Idle("bulk") /\ pipe' = [pipe EXCEPT !["bulk"].vision = jobs'] /\ main' = "vision" /\ disk' = disk
  BY DEF StartIngest, BulkInv, StageInv, folder
<1>7. PICK v \in Seq(Files) : v = jobs'
  BY <1>5
<1>8. /\ pipe'["bulk"].vision = v /\ pipe'["bulk"].work = pipe["bulk"].work
      /\ pipe'["bulk"].llmQ = pipe["bulk"].llmQ /\ pipe'["bulk"].dbQ = pipe["bulk"].dbQ
  BY <1>6, <1>7, BothPipes, VisionMoves
<1>9. Busy("bulk")' = {} /\ Decoding' = {}
  BY <1>6, <1>8, BothPipes, IdleFlow DEF Busy, Decoding, Workers
<1>10. Len(pipe'["bulk"].llmQ) = 0 /\ Len(pipe'["bulk"].dbQ) = 0 /\ Len(v) \in Nat
  BY <1>6, <1>8, BothPipes, IdleFlow, NoneSent
<1>11. Ahead' = 5 * Len(v) + 3 * 0 + 0 + 2 * 0 + 0
  BY <1>8, <1>9, <1>10, FS_EmptySet DEF Ahead
<1>12. Ahead' = 5 * Len(jobs')
  BY <1>7, <1>10, <1>11
<1>13. Items("bulk")' = {}
  BY <1>6, <1>8, <1>9, BothPipes, IdleFlow, NoneSent DEF Items
<1>14. \A f : InPipe("bulk", f)' => f \in Range(jobs')
  BY <1>7, <1>8, <1>13 DEF InPipe
<1> HIDE DEF wanted
<1> QED BY <1>3, <1>4, <1>5, <1>6, <1>12, <1>14

LEMMA BulkOnwards ==
    ASSUME Types, (\E w \in BulkWorkers : Worker("bulk", w)) \/ AnalyzeImage("bulk") \/ InsertImage("bulk")
    PROVE  Onwards
BY TakeOnwards, DecodeOnwards, SendOnwards, AnalyzeOnwards, InsertOnwards DEF Worker

\* What the folder and the daemon do leaves the run alone, but for files that are made.
LEMMA OthersLeaveRun ==
    ASSUME Types, [Next]_vars, ~BulkStep, ~KillIngest
    PROVE  /\ UNCHANGED <<jobs, main>> /\ pipe'["bulk"] = pipe["bulk"]
           /\ \A f \in Files : disk[f] # "absent" => disk'[f] # "absent"
<1>1. CASE \E f \in Files : StartCopy(f) \/ FinishCopy(f)
  <2>1. PICK g \in Files : StartCopy(g) \/ FinishCopy(g)
    BY <1>1
  <2>2. PICK v : disk' = [disk EXCEPT ![g] = v] /\ v # "absent"
    BY <2>1 DEF StartCopy, FinishCopy
  <2>3. disk \in [Files -> {"absent", "part", "whole"}]
    BY DEF Types
  <2>4. UNCHANGED <<pipe, scan>>
    BY <2>1 DEF StartCopy, FinishCopy
  <2> QED BY <2>2, <2>3, <2>4 DEF scan
<1>2. CASE \E q \in Pipelines : (\E w \in Workers(q) : Worker(q, w)) \/ AnalyzeImage(q) \/ InsertImage(q)
  <2>1. PICK q \in Pipelines : (\E w \in Workers(q) : Worker(q, w)) \/ AnalyzeImage(q) \/ InsertImage(q)
    BY <1>2
  <2>2. q = "daemon"
    BY <2>1 DEF Pipelines, BulkStep, Workers
  <2>3. UNCHANGED <<jobs, main, disk>>
    <3>1. CASE AnalyzeImage(q) \/ InsertImage(q)
      BY <3>1 DEF AnalyzeImage, InsertImage, folder, scan
    <3>2. CASE \E w \in Workers(q) : Worker(q, w)
      <4>1. PICK w \in Workers(q) : Take(q, w) \/ Decode(q, w) \/ SendVision(q, w)
        BY <3>2 DEF Worker
      <4> QED BY <4>1 DEF Take, Decode, SendVision, folder, scan
    <3> QED BY <2>1, <3>1, <3>2
  <2>4. CASE \E w \in Workers(q) : Worker(q, w)
    <3>1. Apart("daemon")
      BY <2>2, <2>4, DaemonApart
    <3> QED BY <2>3, <3>1, BothPipes DEF Apart
  <2>5. CASE AnalyzeImage(q)
    <3>1. Apart("daemon")
      BY <2>2, <2>5 DEF AnalyzeImage, Apart, Types
    <3> QED BY <2>3, <3>1, BothPipes DEF Apart
  <2>6. CASE InsertImage(q)
    <3>1. Apart("daemon")
      BY <2>2, <2>6 DEF InsertImage, Apart, Types
    <3> QED BY <2>3, <3>1, BothPipes DEF Apart
  <2> QED BY <2>1, <2>4, <2>5, <2>6
<1>3. CASE SendBatch
  <2>1. UNCHANGED <<jobs, main, disk>>
    BY <1>3 DEF SendBatch, folder, scan
  <2> QED BY <1>3, <2>1 DEF SendBatch, Types
<1>4. CASE UNCHANGED vars
  BY <1>4 DEF vars, folder, scan
<1> QED BY <1>1, <1>2, <1>3, <1>4 DEF Next, BulkStep

LEMMA JobsStep == IngestInv /\ JobsInv /\ [Next]_vars => JobsInv'
<1> SUFFICES ASSUME IngestInv, JobsInv, [Next]_vars PROVE JobsInv'
  OBVIOUS
<1>1. Types /\ BulkInv
  BY DEF IngestInv, CarryInv, BulkInv
<1>2. CASE (\E w \in BulkWorkers : Worker("bulk", w)) \/ AnalyzeImage("bulk") \/ InsertImage("bulk")
  BY <1>1, <1>2, BulkOnwards DEF Onwards, JobsInv
<1>3. CASE StartIngest
  BY <1>1, <1>3, StartTakes DEF JobsInv
<1>4. CASE Wait
  <2>1. UNCHANGED <<pipe, jobs, disk>>
    BY <1>4 DEF Wait, folder
  <2> QED BY <2>1 DEF JobsInv, InPipe, Items, Busy
<1>5. CASE KillIngest
  <2>1. pipe'["bulk"] = Idle("bulk") /\ jobs' = <<>>
    BY <1>1, <1>5, BothPipes DEF KillIngest, Types
  <2>2. \A f : ~InPipe("bulk", f)'
    BY <2>1, BothPipes, IdleFlow, NoneSent DEF InPipe, Items, Busy
  <2> QED BY <2>1, <2>2, NoneSent, FilesAssumption DEF JobsInv
<1>6. CASE ~BulkStep /\ ~KillIngest
  <2>1. /\ UNCHANGED <<jobs, main>> /\ pipe'["bulk"] = pipe["bulk"]
        /\ \A f \in Files : disk[f] # "absent" => disk'[f] # "absent"
    BY <1>1, <1>6, OthersLeaveRun
  <2>2. Range(jobs) \subseteq Files
    BY <1>1 DEF Types, Range
  <2> QED BY <2>1, <2>2 DEF JobsInv, InPipe, Items, Busy
<1> QED BY <1>2, <1>3, <1>4, <1>5, <1>6 DEF BulkStep

LEMMA RunStep ==
    ASSUME IngestInv, JobsInv, [Next]_vars
    PROVE  /\ BulkStep => RunLeft' < RunLeft
           /\ ~BulkStep /\ ~KillIngest => RunLeft' = RunLeft
<1>1. Types /\ BulkInv /\ Ahead \in Nat /\ NumFiles \in Nat
  BY AheadBounds, FilesAssumption DEF IngestInv, CarryInv, BulkInv
<1>2. ASSUME (\E w \in BulkWorkers : Worker("bulk", w)) \/ AnalyzeImage("bulk") \/ InsertImage("bulk")
      PROVE  RunLeft' < RunLeft
  <2>1. Ahead' \in Int /\ Ahead' < Ahead /\ main' = main
    BY <1>1, <1>2, BulkOnwards DEF Onwards
  <2>2. main \in Stages \ {"start"}
    <3>1. \/ pipe["bulk"].vision # <<>> \/ pipe["bulk"].llmQ # <<>> \/ pipe["bulk"].dbQ # <<>>
          \/ \E w \in Workers("bulk") : pipe["bulk"].work[w].pc # "idle"
      <4>1. CASE AnalyzeImage("bulk") \/ InsertImage("bulk")
        BY <4>1 DEF AnalyzeImage, InsertImage
      <4>2. CASE \E w \in BulkWorkers : Worker("bulk", w)
        <5>1. PICK w \in BulkWorkers : Take("bulk", w) \/ Decode("bulk", w) \/ SendVision("bulk", w)
          BY <4>2 DEF Worker
        <5>2. pipe["bulk"].vision # <<>> \/ pipe["bulk"].work[w].pc \in {"decode", "send"}
          BY <5>1 DEF Take, Decode, SendVision
        <5> QED BY <5>2 DEF Workers
      <4> QED BY <1>2, <4>1, <4>2
    <3>2. pipe["bulk"] # Idle("bulk")
      BY <3>1, BothPipes, IdleFlow
    <3> QED BY <1>1, <3>2 DEF BulkInv, StageInv, Types
  <2>3. WaitsLeft(main) \in Nat
    BY <2>2 DEF Stages, WaitsLeft
  <2>4. RunLeft = Ahead + WaitsLeft(main) /\ RunLeft' = Ahead' + WaitsLeft(main)
    BY <2>1, <2>2 DEF RunLeft
  <2> QED BY <1>1, <2>1, <2>3, <2>4
<1>3. ASSUME StartIngest PROVE RunLeft' < RunLeft
  <2>1. main = "start" /\ main' = "vision" /\ Ahead' = 5 * Len(jobs') /\ Len(jobs') <= NumFiles /\ jobs' \in Seq(Files)
    BY <1>1, <1>3, StartTakes DEF StartIngest
  <2>2. RunLeft = 5 * NumFiles + 4 /\ RunLeft' = 5 * Len(jobs') + 3
    BY <2>1 DEF RunLeft, WaitsLeft
  <2>3. Len(jobs') \in Nat
    BY <2>1
  <2> QED BY <1>1, <2>1, <2>2, <2>3
<1>4. ASSUME Wait PROVE RunLeft' < RunLeft
  <2>1. Ahead' = Ahead
    BY <1>4 DEF Wait, Ahead, Busy, Decoding
  <2>2. /\ main \in {"vision", "llm", "db"} /\ main' # "start"
        /\ WaitsLeft(main) \in Nat /\ WaitsLeft(main') = WaitsLeft(main) - 1
    BY <1>4 DEF Wait, WaitsLeft
  <2> QED BY <1>1, <2>1, <2>2 DEF RunLeft
<1>5. ASSUME ~BulkStep, ~KillIngest PROVE RunLeft' = RunLeft
  <2>1. main' = main /\ pipe'["bulk"] = pipe["bulk"]
    BY <1>1, <1>5, OthersLeaveRun
  <2> QED BY <2>1 DEF RunLeft, Ahead, Busy, Decoding
<1> QED BY <1>2, <1>3, <1>4, <1>5 DEF BulkStep

\* A goroutine of the run finds what it waits for: the walk that opens it, a picture to
\* take, one to read, room in the next channel, an answer to write, or the end of the
\* goroutines that RunIngest waits for.
CanGoOn ==
    LET b == pipe["bulk"] IN
    \/ main = "start"
    \/ \E w \in BulkWorkers :
        \/ b.work[w].pc = "idle" /\ b.vision # <<>>
        \/ b.work[w].pc = "decode" /\ disk[b.work[w].file] \in {"part", "whole"}
        \/ b.work[w].pc = "send" /\ Len(b.llmQ) < QueueCap
    \/ b.llmQ # <<>> /\ Len(b.dbQ) < QueueCap
    \/ b.dbQ # <<>>
    \/ main = "vision" /\ VisionDone
    \/ main = "llm" /\ LLMDone
    \/ main = "db" /\ DBDone

\* No goroutine waits for another one in a circle, however small the channels are.
LEMMA SomeoneGoesOn ==
    ASSUME IngestInv, JobsInv, main # "done"
    PROVE  CanGoOn
<1>1. Types
  BY DEF IngestInv, CarryInv
<1>2. pipe["bulk"].llmQ \in Seq(Item) /\ pipe["bulk"].dbQ \in Seq(Item) /\ QueueCap \in Nat \ {0}
  BY <1>1, BothPipes, FlowFields, BoundsAssumption
<1>3. ASSUME pipe["bulk"].llmQ # <<>> \/ pipe["bulk"].dbQ # <<>> PROVE CanGoOn
  <2>1. pipe["bulk"].dbQ = <<>> => Len(pipe["bulk"].dbQ) < QueueCap
    BY <1>2, NoneSent
  <2> QED BY <1>3, <2>1 DEF CanGoOn
<1>4. CASE main = "vision"
  <2>1. PICK w \in BulkWorkers : pipe["bulk"].work[w].pc # "idle" \/ pipe["bulk"].vision # <<>> \/ VisionDone
    BY BoundsAssumption DEF VisionDone
  <2>2. CASE VisionDone
    BY <1>4, <2>2 DEF CanGoOn
  <2>3. CASE pipe["bulk"].work[w].pc = "idle"
    BY <2>1, <2>2, <2>3 DEF CanGoOn
  <2>4. CASE pipe["bulk"].work[w].pc = "decode"
    <3>1. w \in Busy("bulk")
      BY <2>4 DEF Busy, Workers
    <3>2. InPipe("bulk", pipe["bulk"].work[w].file)
      BY <3>1 DEF InPipe, Items
    <3>3. pipe["bulk"].work[w].file \in Range(jobs)
      <4>1. pipe["bulk"].work[w].file \in Files
        BY <3>1, BothPipes DEF IngestInv, CarryInv, ItemInv, Items
      <4> QED BY <3>2, <4>1 DEF JobsInv
    <3>4. disk[pipe["bulk"].work[w].file] \in {"part", "whole"}
      <4>1. Range(jobs) \subseteq Files
        BY <1>1 DEF Types, Range
      <4> QED BY <1>1, <3>3, <4>1 DEF JobsInv, Types
    <3> QED BY <2>4, <3>4 DEF CanGoOn
  <2>5. CASE pipe["bulk"].work[w].pc = "send"
    <3>1. CASE pipe["bulk"].llmQ = <<>>
      <4>1. Len(pipe["bulk"].llmQ) < QueueCap
        BY <1>2, <3>1, NoneSent
      <4> QED BY <2>5, <4>1 DEF CanGoOn
    <3> QED BY <1>3, <3>1
  <2>6. pipe["bulk"].work[w].pc \in {"idle", "decode", "send"}
    BY <1>1, BothPipes, FlowFields DEF Workers
  <2> QED BY <2>3, <2>4, <2>5, <2>6
<1>5. CASE main \in {"llm", "db"}
  BY <1>3, <1>5 DEF CanGoOn, LLMDone, DBDone
<1>6. CASE main = "start"
  BY <1>6 DEF CanGoOn
<1> QED BY <1>1, <1>4, <1>5, <1>6 DEF Types, Stages

(***************************************************************************)
(* A bulk run does not hang and does not go on for ever: until it prints   *)
(* its counters one of its goroutines or RunIngest itself can take a step, *)
(* whatever is in the channels and however small they are; every such step *)
(* uses up one of at most 5 for each file and 4, and neither the daemon    *)
(* nor files that are still copied give one back.  Only a run that is      *)
(* killed and started again begins anew.                                   *)
(***************************************************************************)
THEOREM RunEnds ==
    Spec => /\ [](main # "done" => CanGoOn /\ RunLeft \in 1..(5 * NumFiles + 4))
            /\ [][/\ BulkStep => RunLeft' < RunLeft
                  /\ ~BulkStep /\ ~KillIngest => RunLeft' = RunLeft]_vars
<1> DEFINE Lively == main # "done" => CanGoOn /\ RunLeft \in 1..(5 * NumFiles + 4)
           Shrink == /\ BulkStep => RunLeft' < RunLeft
                     /\ ~BulkStep /\ ~KillIngest => RunLeft' = RunLeft
<1>1. Init => IngestInv /\ JobsInv
  <2> SUFFICES ASSUME Init PROVE JobsInv
    BY InitIngest
  <2>1. pipe["bulk"] = Idle("bulk") /\ jobs = <<>>
    BY BothPipes DEF Init
  <2>2. \A f : ~InPipe("bulk", f)
    BY <2>1, BothPipes, IdleFlow, NoneSent DEF InPipe, Items, Busy
  <2> QED BY <2>1, <2>2, NoneSent, FilesAssumption DEF JobsInv
<1>2. IngestInv /\ JobsInv /\ [Next]_vars => IngestInv' /\ JobsInv'
  BY IngestStep, JobsStep
<1>3. IngestInv /\ JobsInv => Lively
  <2> SUFFICES ASSUME IngestInv, JobsInv, main # "done" PROVE CanGoOn /\ RunLeft \in 1..(5 * NumFiles + 4)
    OBVIOUS
  <2>1. RunLeft \in 0..(5 * NumFiles + 4) /\ RunLeft >= 1 /\ NumFiles \in Nat
    BY RunLeftBounds, FilesAssumption
  <2> QED BY <2>1, SomeoneGoesOn
<1>4. IngestInv /\ JobsInv /\ [Next]_vars => [Shrink]_vars
  BY RunStep
<1> HIDE DEF Lively, Shrink
<1>5. Spec => []Lively /\ [][Shrink]_vars
  BY <1>1, <1>2, <1>3, <1>4, PTL DEF Spec
<1> QED BY <1>5 DEF Lively, Shrink

=============================================================================
