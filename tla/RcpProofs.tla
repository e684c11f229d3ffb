----------------------------- MODULE RcpProofs -----------------------------
(***************************************************************************)
(* Proofs about the coordinator and the node together: for any tasks and    *)
(* commands, and any number of lost connections, crashes, retries and       *)
(* deletions, the journal is a prefix of the node's ledger, nothing is      *)
(* forgotten between the two, a task's commands are published one after the *)
(* other, stops reach the turns they are meant for, nothing outlives a      *)
(* deleted task, and while none is deleted no message ends the node.        *)
(***************************************************************************)
EXTENDS Rcp, TLAPS, FiniteSetTheorems, SequenceTheorems, WellFoundedInduction

(* Messages on their way or about to be sent or committed.                  *)
Rising == Range(toCoord) \cup {h.msg : h \in handling}
Falling == Range(toNode) \cup {s.msg : s \in sends}

(* A message of the node is about a command that was submitted, and while   *)
(* that is admitted it says what the ledger says.                           *)
Honest(m) ==
    /\ cmd[m.cmd] # "new"
    /\ Admitted(m.cmd) =>
         /\ m.type \in {"ack_execution", "publish"} => rec[m.cmd] # None
         /\ m.type = "ack_stop" => m.cmd \in nstop \/ Ended(m.cmd)
         /\ m.type = "publish" =>
              /\ m.from + Len(m.events) <= Len(ev[m.cmd])
              /\ \A i \in 1..Len(m.events) : m.events[i] = ev[m.cmd][m.from + i]

(* A message of the coordinator is about a command that was submitted, and  *)
(* accepts no more than the journal has.                                    *)
Grounded(m) ==
    m.type # "error" =>
        /\ cmd[m.cmd] # "new"
        /\ (m.type = "accepted" /\ Admitted(m.cmd)) => m.through < stream[m.cmd].next

MessagesInv == (\A m \in Rising : Honest(m)) /\ (\A m \in Falling : Grounded(m))

(* Nothing is known of a command before it is submitted.                    *)
Unheard(c) ==
    cmd[c] = "new" =>
        /\ rec[c] = None /\ c \notin pending /\ c \notin nstop /\ stopping # c
        /\ stream[c] = NoStream /\ stops[c] = "none"
        /\ \A i \in DOMAIN journal[TaskOf[c]] : journal[TaskOf[c]][i].cmd # c

(* A command goes with its task, and a ledger without it has no records.    *)
Consistent(c) ==
    /\ Admitted(c) => task[TaskOf[c]] = "open"
    /\ cmd[c] = "deleted" => task[TaskOf[c]] = "deleted"
    /\ rec[c] = None => ev[c] = <<>>
    /\ (stopping = c /\ Admitted(c)) => c \in nstop

(* The journal has the records of an admitted command up to its cursor, as  *)
(* the ledger has them, each once and in their order.                       *)
Recorded(c) ==
    {i \in DOMAIN journal[TaskOf[c]] :
        journal[TaskOf[c]][i].cmd = c /\ journal[TaskOf[c]][i].kind # "submitted"}
Copied(c) ==
    Admitted(c) =>
        LET j == journal[TaskOf[c]] IN
        /\ stream[c].next <= Len(ev[c])
        /\ \A n \in 1..stream[c].next : \E i \in Recorded(c) : j[i].seq = n - 1
        /\ \A i \in Recorded(c) :
             /\ j[i].seq < stream[c].next /\ j[i] = Record(c, j[i].seq, ev[c][j[i].seq + 1])
             /\ \A k \in Recorded(c) : i < k => j[i].seq < j[k].seq

(* An admitted command is pending or in the ledger, whose cursor is behind  *)
(* the journal's, and a delivered stop is in the ledger.                    *)
Remembered(c) ==
    Admitted(c) =>
        /\ c \in pending \/ rec[c] # None
        /\ rec[c] # None => rec[c].pub <= stream[c].next
        /\ stops[c] = "delivered" => c \in nstop \/ Ended(c)

(* Of a deleted command the coordinator has nothing.                        *)
Gone(c) ==
    cmd[c] = "deleted" =>
        c \notin pending /\ stops[c] = "none" /\ stream[c] = NoStream /\ journal[TaskOf[c]] = <<>>

(* The invariant of the journal.                                            *)
Rows(c) == Unheard(c) /\ Consistent(c) /\ Copied(c) /\ Remembered(c) /\ Gone(c)
JournalInv == MessagesInv /\ \A c \in Commands : Rows(c)

(* A running turn u of task t: its command is an unfinished one of the task *)
(* and the first of them; it is cancelled only by a stop in the ledger and  *)
(* not before it registers, and knows of the stop once it has checked.      *)
GoodTurn(u, r, asked, signal, t) ==
    u.step \in {"spawned", "registered", "checked", "started"} =>
        /\ u.cmd \in Commands /\ TaskOf[u.cmd] = t /\ r[u.cmd] # None /\ ~r[u.cmd].terminal
        /\ u.cancelled => u.cmd \in asked /\ u.step # "spawned"
        /\ (u.step \in {"checked", "started"} /\ u.cmd \in asked /\ signal # u.cmd) => u.cancelled
        /\ \A d \in Commands :
             (TaskOf[d] = t /\ r[d] # None /\ r[d].order < r[u.cmd].order) => r[d].terminal

(* The invariant of turns and stops.                                        *)
TurnsInv ==
    /\ \A t \in Tasks : GoodTurn(turn[t], rec, nstop, stopping, t)
    /\ (stopping # None /\ rec[stopping] # None /\ ~rec[stopping].terminal) => stopping \in nstop
    /\ CancelledOnlyWhenAsked
-----------------------------------------------------------------------------
(* The assumptions on tasks, commands and None.                             *)
Assumptions == RcpAssumption /\ LedgerAssumption

(* A finite set of numbers that is not empty has a greatest member.         *)
LEMMA GreatestNatural ==
    ASSUME NEW S \in SUBSET Nat, IsFiniteSet(S), S # {}
    PROVE  \E x \in S : \A y \in S : x >= y
  <1> DEFINE Without == {A \in SUBSET S : A # {} /\ ~\E x \in A : \A y \in A : x >= y}
  <1>1. IsWellFoundedOn(StrictSubsetOrdering(S), SUBSET S)
    BY FS_StrictSubsetOrderingWellFounded, FS_FiniteSubsetsOfFinite
  <1>2. SUFFICES ASSUME Without # {} PROVE FALSE
    OBVIOUS
  <1>3. PICK A \in Without : \A B \in Without : <<B, A>> \notin StrictSubsetOrdering(S)
    <2>1. Without \subseteq SUBSET S
      OBVIOUS
    <2> HIDE DEF Without
    <2> QED BY <1>1, <1>2, <2>1, WFMin
  <1>4. PICK a \in A : TRUE
    OBVIOUS
  <1>5. <<A \ {a}, A>> \in StrictSubsetOrdering(S)
    BY <1>4 DEF StrictSubsetOrdering
  <1>6. A \ {a} \notin Without
    BY <1>3, <1>5
  <1>7. CASE A \ {a} = {}
    <2>1. \A y \in A : a >= y
      BY <1>4, <1>7
    <2> QED BY <1>4, <2>1
  <1>8. CASE A \ {a} # {}
    <2>1. PICK x \in A \ {a} : \A y \in A \ {a} : x >= y
      BY <1>6, <1>8
    <2>2. (\A y \in A : x >= y) \/ (\A y \in A : a >= y)
      BY <1>4, <2>1
    <2> QED BY <1>4, <2>1, <2>2
  <1> QED BY <1>7, <1>8

(* A set of numbers that is not empty has a smallest member.                *)
LEMMA SmallestMember ==
    ASSUME NEW S \in SUBSET Nat, S # {}
    PROVE  \E x \in S : \A y \in S : x <= y
  <1>1. PICK n \in S : TRUE
    OBVIOUS
  <1> DEFINE Below == {n - k : k \in {m \in S : m <= n}}
  <1>2. Below \in SUBSET Nat /\ Below # {} /\ \A b \in Below : b <= n
    <2>1. n - n \in Below
      BY <1>1
    <2> QED BY <2>1
  <1>3. IsFiniteSet(Below)
    BY <1>2, FS_BoundedSetOfNaturals
  <1>4. PICK b \in Below : \A y \in Below : b >= y
    <2> HIDE DEF Below
    <2> QED BY <1>2, <1>3, GreatestNatural
  <1>5. PICK x \in S : x <= n /\ b = n - x
    OBVIOUS
  <1>6. ASSUME NEW y \in S PROVE x <= y
    <2>1. CASE y > n
      BY <1>5, <2>1
    <2>2. CASE y <= n
      <3>1. n - y \in Below
        BY <2>2
      <3>2. b >= n - y
        BY <1>4, <3>1
      <3> QED BY <1>5, <2>2, <3>2
    <2> QED BY <2>1, <2>2
  <1> QED BY <1>6

(* The values of a function on a finite set are finitely many.              *)
LEMMA FiniteRange ==
    ASSUME NEW f, IsFiniteSet(DOMAIN f)
    PROVE  IsFiniteSet(Range(f))
  <1> DEFINE g == [x \in DOMAIN f |-> f[x]]
  <1>1. g \in Surjection(DOMAIN f, Range(f))
    BY DEF Surjection, Range
  <1> QED BY <1>1, FS_Surjection

(* An enumeration of a finite set is a sequence of its members.             *)
LEMMA Enumerated ==
    ASSUME NEW S, IsFiniteSet(S), NEW q \in SetToSeqs(S)
    PROVE  q \in Seq(S) /\ Range(q) \subseteq S
  <1>1. Cardinality(S) \in Nat
    BY FS_CardinalityType
  <1>2. q \in [1..Cardinality(S) -> S]
    BY DEF SetToSeqs
  <1>3. q \in Seq(S)
    BY <1>1, <1>2
  <1> QED BY <1>2, <1>3 DEF Range

(* Members of sequences.                                                    *)
LEMMA RangeAppend ==
    ASSUME NEW S, NEW q \in Seq(S), NEW x \in S
    PROVE  Append(q, x) \in Seq(S) /\ Range(Append(q, x)) = Range(q) \cup {x}
  <1>1. Append(q, x) \in Seq(S) /\ Len(Append(q, x)) = Len(q) + 1
    OBVIOUS
  <1>2. \A i \in 1..Len(q) + 1 : Append(q, x)[i] = IF i <= Len(q) THEN q[i] ELSE x
    OBVIOUS
  <1>3. DOMAIN q = 1..Len(q) /\ DOMAIN Append(q, x) = 1..Len(q) + 1 /\ Len(q) \in Nat
    BY <1>1
  <1>4. Range(Append(q, x)) = {Append(q, x)[i] : i \in 1..Len(q) + 1} /\ Range(q) = {q[i] : i \in 1..Len(q)}
    BY <1>3 DEF Range
  <1> QED BY <1>1, <1>2, <1>3, <1>4

LEMMA RangeTail ==
    ASSUME NEW S, NEW q \in Seq(S), q # <<>>
    PROVE  Tail(q) \in Seq(S) /\ Range(Tail(q)) \subseteq Range(q) /\ Head(q) \in Range(q) /\ Head(q) \in S
  <1>1. Len(q) \in Nat /\ Len(q) > 0 /\ DOMAIN q = 1..Len(q)
    OBVIOUS
  <1>2. Tail(q) \in Seq(S) /\ Len(Tail(q)) = Len(q) - 1 /\ DOMAIN Tail(q) = 1..Len(q) - 1
    BY <1>1
  <1>3. \A i \in 1..Len(q) - 1 : Tail(q)[i] = q[i + 1]
    BY <1>1
  <1>4. Head(q) = q[1]
    BY <1>1
  <1> QED BY <1>1, <1>2, <1>3, <1>4 DEF Range

LEMMA RangeConcat ==
    ASSUME NEW S, NEW q \in Seq(S), NEW r \in Seq(S)
    PROVE  q \o r \in Seq(S) /\ Range(q \o r) = Range(q) \cup Range(r)
  <1>1. /\ q \o r \in Seq(S) /\ Len(q \o r) = Len(q) + Len(r)
        /\ Len(q) \in Nat /\ Len(r) \in Nat
    OBVIOUS
  <1>2. \A i \in 1..Len(q) + Len(r) : (q \o r)[i] = IF i <= Len(q) THEN q[i] ELSE r[i - Len(q)]
    OBVIOUS
  <1>3. DOMAIN q = 1..Len(q) /\ DOMAIN r = 1..Len(r) /\ DOMAIN (q \o r) = 1..Len(q) + Len(r)
    BY <1>1
  <1>4. \A j \in 1..Len(r) : (q \o r)[Len(q) + j] = r[j] /\ Len(q) + j \in 1..Len(q) + Len(r)
    BY <1>1, <1>2
  <1> QED BY <1>1, <1>2, <1>3, <1>4 DEF Range
(* Positions in a concatenation.                                            *)
LEMMA Beyond ==
    ASSUME NEW k \in Nat, NEW l \in Nat, NEW i \in 1..k + l
    PROVE  i \in 1..k \/ \E x \in 1..l : i = k + x
  <1>1. CASE i <= k
    BY <1>1
  <1>2. CASE i > k
    <2>1. i - k \in 1..l /\ i = k + (i - k)
      BY <1>2
    <2> QED BY <2>1
  <1> QED BY <1>1, <1>2

LEMMA ConcatFacts ==
    ASSUME NEW S, NEW q \in Seq(S), NEW r \in Seq(S)
    PROVE  /\ DOMAIN q = 1..Len(q) /\ DOMAIN (q \o r) = 1..Len(q) + Len(r) /\ Len(q) \in Nat
           /\ \A i \in 1..Len(q) : (q \o r)[i] = q[i]
           /\ \A x \in 1..Len(r) : (q \o r)[Len(q) + x] = r[x]
           /\ \A i \in 1..Len(q) + Len(r) : i \in 1..Len(q) \/ \E x \in 1..Len(r) : i = Len(q) + x
  <1>1. Len(q) \in Nat /\ Len(r) \in Nat
    OBVIOUS
  <1>2. \A i \in 1..Len(q) + Len(r) : i \in 1..Len(q) \/ \E x \in 1..Len(r) : i = Len(q) + x
    BY <1>1, Beyond
  <1> QED BY <1>1, <1>2

-----------------------------------------------------------------------------
(* Messages: what each constructor builds and what a typed message has.     *)
LEMMA Constructors ==
    ASSUME NEW c \in Commands
    PROVE  /\ Execute(c) \in Downward /\ Stop(c) \in Downward /\ Acknowledged(c) \in Downward
           /\ \A n \in Int : Accepted(c, n) \in Downward
           /\ Error \in Downward
           /\ AckExecution(c) \in Upward /\ AckStop(c) \in Upward
           /\ \A n \in Nat, s \in Seq(Kinds) : Publish(c, n, s) \in Upward
  BY DEF Execute, Stop, Acknowledged, Accepted, Error, AckExecution, AckStop, Publish, Downward, Upward

LEMMA DownwardFields ==
    ASSUME NEW m \in Downward
    PROVE  /\ m.type # "error" => m.cmd \in Commands
           /\ m.type = "accepted" => m.through \in Int
  BY DEF Downward, Error

LEMMA UpwardFields ==
    ASSUME NEW m \in Upward
    PROVE  /\ m.type \in {"ack_execution", "ack_stop", "publish"} /\ m.cmd \in Commands
           /\ m.type = "publish" => m.from \in Nat /\ m.events \in Seq(Kinds)
  BY DEF Upward

(* What publication sends: about executions of the ledger, and records as   *)
(* they stand in it.                                                        *)
Faithful(m, r, e) ==
    /\ m \in Upward /\ m.type \in {"ack_execution", "publish"} /\ r[m.cmd] # None
    /\ m.type = "publish" =>
         /\ m.from + Len(m.events) <= Len(e[m.cmd])
         /\ \A i \in 1..Len(m.events) : m.events[i] = e[m.cmd][m.from + i]

Ledgers == [Commands -> Executions \cup {None}]
Records == [Commands -> Seq(Kinds)]

LEMMA BatchOfLedger ==
    ASSUME Assumptions, NEW r \in Ledgers, NEW e \in Records, NEW c \in Commands,
           r[c] # None, r[c].pub < Len(e[c])
    PROVE  /\ PublicationBatch(r, e, c) \in Seq(Kinds)
           /\ r[c].pub \in Nat /\ r[c].pub + Len(PublicationBatch(r, e, c)) <= Len(e[c])
           /\ \A i \in 1..Len(PublicationBatch(r, e, c)) :
                PublicationBatch(r, e, c)[i] = e[c][r[c].pub + i]
  <1> DEFINE last == IF Len(e[c]) - r[c].pub > MaxBatch THEN r[c].pub + MaxBatch ELSE Len(e[c])
  <1>1. r[c] \in Executions /\ r[c].pub \in Nat /\ e[c] \in Seq(Kinds) /\ Len(e[c]) \in Nat
    BY DEF Ledgers, Records, Executions
  <1>2. last \in Nat /\ r[c].pub < last /\ last <= Len(e[c])
    BY <1>1 DEF Assumptions, RcpAssumption
  <1>3. PublicationBatch(r, e, c) = SubSeq(e[c], r[c].pub + 1, last)
    BY DEF PublicationBatch
  <1> HIDE DEF last
  <1> DEFINE pub == r[c].pub
             q == e[c]
  <1>4. pub \in Nat /\ last \in Nat /\ pub < last /\ last <= Len(q) /\ q \in Seq(Kinds)
    BY <1>1, <1>2
  <1>5. PublicationBatch(r, e, c) = SubSeq(q, pub + 1, last)
    BY <1>3
  <1> HIDE DEF pub, q
  <1>6. /\ SubSeq(q, pub + 1, last) \in Seq(Kinds)
        /\ Len(SubSeq(q, pub + 1, last)) = last - pub
        /\ \A i \in 1..(last - pub) : SubSeq(q, pub + 1, last)[i] = q[pub + i]
    <2>1. pub + 1 \in 1..last + 1 /\ last \in pub + 1 - 1..Len(q) /\ Len(q) \in Nat
      BY <1>4
    <2>2. /\ SubSeq(q, pub + 1, last) \in Seq(Kinds)
          /\ Len(SubSeq(q, pub + 1, last)) = last - (pub + 1) + 1
          /\ \A i \in 1..last - (pub + 1) + 1 : SubSeq(q, pub + 1, last)[i] = q[pub + 1 + i - 1]
      BY <1>4, <2>1, SubSeqProperties
    <2>3. last - (pub + 1) + 1 = last - pub /\ \A i \in 1..last - pub : pub + 1 + i - 1 = pub + i
      BY <1>4
    <2> QED BY <2>2, <2>3
  <1>7. /\ PublicationBatch(r, e, c) \in Seq(Kinds)
        /\ pub \in Nat /\ pub + Len(PublicationBatch(r, e, c)) <= Len(q)
        /\ \A i \in 1..Len(PublicationBatch(r, e, c)) : PublicationBatch(r, e, c)[i] = q[pub + i]
    BY <1>4, <1>5, <1>6
  <1> QED BY <1>7 DEF pub, q

LEMMA RefreshedType ==
    ASSUME NEW p \in [Commands -> Publications], NEW r, NEW e
    PROVE  /\ Refreshed(p, r, e) \in [Commands -> Publications]
           /\ \A c \in Commands : Refreshed(p, r, e)[c].open => c \in Owed(r, e)
  BY DEF Refreshed, Publications, Closed, Opened

LEMMA OutgoingFaithful ==
    ASSUME Assumptions, NEW p, NEW r \in Ledgers, NEW e \in Records
    PROVE  /\ IsFiniteSet(Outgoing(p, r, e)) /\ Outgoing(p, r, e) \subseteq Upward
           /\ \A m \in Outgoing(p, r, e) : Faithful(m, r, e)
  <1> DEFINE A == {d \in Owed(r, e) : p[d].open /\ ~r[d].acked /\ ~p[d].admission}
             B == {d \in Owed(r, e) : Publishes(p, r, e, d)}
             M == {AckExecution(c) : c \in A}
             N == {Publish(c, r[c].pub, PublicationBatch(r, e, c)) : c \in B}
  <1>1. Outgoing(p, r, e) = M \cup N
    BY DEF Outgoing
  <1>2. A \subseteq Commands /\ B \subseteq Commands
    BY DEF Owed
  <1>3. IsFiniteSet(A) /\ IsFiniteSet(B)
    <2>1. IsFiniteSet(Commands)
      BY DEF Assumptions, LedgerAssumption
    <2> HIDE DEF A, B
    <2> QED BY <1>2, <2>1, FS_Subset
  <1>4. IsFiniteSet(M) /\ IsFiniteSet(N)
    <2> HIDE DEF A, B
    <2> DEFINE f == [c \in A |-> AckExecution(c)]
               g == [c \in B |-> Publish(c, r[c].pub, PublicationBatch(r, e, c))]
    <2>1. M = Range(f) /\ N = Range(g) /\ DOMAIN f = A /\ DOMAIN g = B
      BY DEF Range
    <2> HIDE DEF f, g, M, N
    <2> QED BY <1>3, <2>1, FiniteRange
  <1>5. ASSUME NEW c \in A PROVE Faithful(AckExecution(c), r, e)
    <2>1. c \in Commands /\ r[c] # None
      BY DEF Owed
    <2>2. AckExecution(c).type = "ack_execution" /\ AckExecution(c).cmd = c
      BY DEF AckExecution
    <2>3. AckExecution(c) \in Upward
      BY <2>1, Constructors
    <2> QED BY <2>1, <2>2, <2>3 DEF Faithful
  <1>6. ASSUME NEW c \in B PROVE Faithful(Publish(c, r[c].pub, PublicationBatch(r, e, c)), r, e)
    <2>1. c \in Commands /\ r[c] # None /\ r[c].pub < Len(e[c])
      BY DEF Owed, Publishes
    <2> DEFINE batch == PublicationBatch(r, e, c)
    <2>2. /\ batch \in Seq(Kinds) /\ r[c].pub \in Nat /\ r[c].pub + Len(batch) <= Len(e[c])
          /\ \A i \in 1..Len(batch) : batch[i] = e[c][r[c].pub + i]
      BY <2>1, BatchOfLedger
    <2> HIDE DEF batch
    <2>3. Publish(c, r[c].pub, batch) \in Upward
      BY <2>1, <2>2, Constructors
    <2>4. /\ Publish(c, r[c].pub, batch).type = "publish" /\ Publish(c, r[c].pub, batch).cmd = c
          /\ Publish(c, r[c].pub, batch).from = r[c].pub /\ Publish(c, r[c].pub, batch).events = batch
      BY DEF Publish
    <2>5. Faithful(Publish(c, r[c].pub, batch), r, e)
      BY <2>1, <2>2, <2>3, <2>4 DEF Faithful
    <2> QED BY <2>5 DEF batch
  <1>7. \A m \in M \cup N : Faithful(m, r, e)
    BY <1>5, <1>6
  <1> QED
    <2> HIDE DEF M, N
    <2>1. IsFiniteSet(M \cup N)
      BY <1>4, FS_Union
    <2> QED BY <1>1, <1>7, <2>1 DEF Faithful

(* refresh_publications and send_pending: what is added to the connection   *)
(* is faithful to the ledger.                                               *)
LEMMA Resumed ==
    ASSUME Assumptions, NEW p \in [Commands -> Publications], NEW before \in Seq(Upward),
           NEW r \in Ledgers, NEW e \in Records, Resume(p, before, r, e)
    PROVE  /\ pubs' \in [Commands -> Publications] /\ toCoord' \in Seq(Upward)
           /\ \A m \in Range(toCoord') : m \in Range(before) \/ Faithful(m, r, e)
  <1> DEFINE fresh == Refreshed(p, r, e)
  <1>1. fresh \in [Commands -> Publications] /\ \A c \in Commands : fresh[c].open => c \in Owed(r, e)
    BY RefreshedType
  <1>2. /\ pubs' = [c \in Commands |-> SentPublication(fresh, r, e, c)]
        /\ \E q \in InSendOrder(Outgoing(fresh, r, e), r) : toCoord' = before \o q
    BY DEF Resume
  <1> HIDE DEF fresh
  <1>3. ASSUME NEW c \in Commands PROVE SentPublication(fresh, r, e, c) \in Publications
    <2>1. fresh[c] \in Publications
      BY <1>1
    <2>2. CASE Publishes(fresh, r, e, c)
      <3>1. c \in Owed(r, e) /\ r[c] # None /\ r[c].pub < Len(e[c])
        BY <1>1, <2>2 DEF Publishes, Owed
      <3>2. PublicationBatch(r, e, c) \in Seq(Kinds) /\ r[c].pub \in Nat
        BY <3>1, BatchOfLedger
      <3>3. r[c].pub + Len(PublicationBatch(r, e, c)) \in Nat
        BY <3>2
      <3>4. (fresh[c].admission \/ (fresh[c].open /\ ~r[c].acked)) \in BOOLEAN
        OBVIOUS
      <3> QED BY <2>1, <2>2, <3>3, <3>4 DEF SentPublication, Publications
    <2>3. CASE ~Publishes(fresh, r, e, c)
      <3>1. (fresh[c].admission \/ (fresh[c].open /\ ~r[c].acked)) \in BOOLEAN
        OBVIOUS
      <3> QED BY <2>1, <2>3, <3>1 DEF SentPublication, Publications
    <2> QED BY <2>2, <2>3
  <1>4. PICK q \in InSendOrder(Outgoing(fresh, r, e), r) : toCoord' = before \o q
    BY <1>2
  <1>5. /\ IsFiniteSet(Outgoing(fresh, r, e)) /\ Outgoing(fresh, r, e) \subseteq Upward
        /\ \A m \in Outgoing(fresh, r, e) : Faithful(m, r, e)
    BY OutgoingFaithful
  <1>6. q \in SetToSeqs(Outgoing(fresh, r, e))
    BY DEF InSendOrder
  <1>7. q \in Seq(Outgoing(fresh, r, e)) /\ Range(q) \subseteq Outgoing(fresh, r, e)
    BY <1>5, <1>6, Enumerated
  <1>8. q \in Seq(Upward)
    BY <1>5, <1>7, SeqMonotonic
  <1>9. before \o q \in Seq(Upward) /\ Range(before \o q) = Range(before) \cup Range(q)
    BY <1>8, RangeConcat
  <1> QED BY <1>2, <1>3, <1>4, <1>5, <1>7, <1>9

(* schedule_pending: a turn stays, or is the first unfinished command of    *)
(* its task, about to start.                                                *)
Fresh(c) == [NoTurn EXCEPT !.cmd = c, !.step = "spawned"]
First(r, t, c) ==
    /\ c \in Commands /\ TaskOf[c] = t /\ r[c] # None /\ ~r[c].terminal
    /\ \A d \in Commands : (TaskOf[d] = t /\ r[d] # None /\ r[d].order < r[c].order) => r[d].terminal

LEMMA Rescheduled ==
    ASSUME Assumptions, NEW running \in [Tasks -> TurnsOf], NEW r \in Ledgers
    PROVE  /\ Scheduled(running, r) \in [Tasks -> TurnsOf]
           /\ \A t \in Tasks : \/ Scheduled(running, r)[t] = running[t]
                               \/ \E c \in Commands : First(r, t, c) /\ Scheduled(running, r)[t] = Fresh(c)
  <1>1. ASSUME NEW t \in Tasks
        PROVE  \/ Scheduled(running, r)[t] = running[t]
               \/ \E c \in Commands : First(r, t, c) /\ Scheduled(running, r)[t] = Fresh(c)
    <2> DEFINE waiting == {c \in Commands : TaskOf[c] = t /\ r[c] # None /\ ~r[c].terminal}
               first == CHOOSE c \in waiting : \A d \in waiting : r[c].order <= r[d].order
    <2>1. Scheduled(running, r)[t] = IF running[t] # NoTurn \/ waiting = {} THEN running[t] ELSE Fresh(first)
      BY DEF Scheduled, Fresh
    <2>2. CASE running[t] # NoTurn \/ waiting = {}
      <3> HIDE DEF waiting, first
      <3> QED BY <2>1, <2>2
    <2>3. CASE ~(running[t] # NoTurn \/ waiting = {})
      <3> DEFINE orders == {r[c].order : c \in waiting}
      <3>1. \A c \in waiting : c \in Commands /\ r[c] \in Executions /\ r[c].order \in Nat
        BY DEF Ledgers, Executions
      <3>2. orders \in SUBSET Nat /\ orders # {}
        BY <2>3, <3>1
      <3>3. PICK n \in orders : \A k \in orders : n <= k
        <4> HIDE DEF orders
        <4> QED BY <3>2, SmallestMember
      <3>4. \E c \in waiting : \A d \in waiting : r[c].order <= r[d].order
        BY <3>3
      <3>5. first \in waiting /\ \A d \in waiting : r[first].order <= r[d].order
        <4> HIDE DEF waiting
        <4> QED BY <3>4
      <3> HIDE DEF first
      <3>6. First(r, t, first)
        <4>1. ASSUME NEW d \in Commands, TaskOf[d] = t, r[d] # None, r[d].order < r[first].order
              PROVE  r[d].terminal
          <5>1. SUFFICES ASSUME ~r[d].terminal PROVE FALSE
            OBVIOUS
          <5>2. d \in waiting
            BY <4>1, <5>1
          <5>3. r[first].order <= r[d].order /\ r[d].order \in Nat /\ r[first].order \in Nat
            BY <3>1, <3>5, <5>2
          <5> QED BY <4>1, <5>3
        <4> QED BY <3>5, <4>1 DEF First
      <3>7. Scheduled(running, r)[t] = Fresh(first)
        <4> HIDE DEF waiting
        <4> QED BY <2>1, <2>3
      <3> QED BY <3>5, <3>6, <3>7
    <2> QED BY <2>2, <2>3
  <1>2. \A t \in Tasks : Scheduled(running, r)[t] \in TurnsOf
    <2>1. \A c \in Commands : Fresh(c) \in TurnsOf
      BY DEF Fresh, NoTurn, TurnsOf
    <2> QED BY <1>1, <2>1
  <1>3. Scheduled(running, r) = [t \in Tasks |-> Scheduled(running, r)[t]]
    BY DEF Scheduled
  <1> QED BY <1>1, <1>2, <1>3

(* A new admission comes after every other one.                             *)
LEMMA NextOrderAbove ==
    ASSUME Assumptions, rec \in Ledgers
    PROVE  NextOrder \in Nat /\ \A c \in Known : rec[c].order < NextOrder
  <1> DEFINE orders == {0} \cup {rec[d].order : d \in Known}
             f == [d \in Known |-> rec[d].order]
  <1>1. Known \subseteq Commands /\ \A d \in Known : rec[d].order \in Nat
    BY DEF Known, Ledgers, Executions
  <1>2. IsFiniteSet(Known)
    BY <1>1, FS_Subset DEF Assumptions, LedgerAssumption
  <1>3. IsFiniteSet(Range(f))
    <2>1. DOMAIN f = Known
      OBVIOUS
    <2> HIDE DEF f
    <2> QED BY <1>2, <2>1, FiniteRange
  <1>4. orders = {0} \cup Range(f)
    BY DEF Range
  <1>5. IsFiniteSet(orders)
    <2> HIDE DEF orders, f
    <2>1. IsFiniteSet({0})
      BY FS_Singleton
    <2> QED BY <1>3, <1>4, <2>1, FS_Union
  <1>6. orders \in SUBSET Nat /\ orders # {}
    BY <1>1
  <1>7. \E x \in orders : \A y \in orders : x >= y
    <2> HIDE DEF orders
    <2> QED BY <1>5, <1>6, GreatestNatural
  <1>8. Max(orders) \in orders /\ \A y \in orders : Max(orders) >= y
    <2> HIDE DEF orders
    <2> QED BY <1>7 DEF Max
  <1>9. NextOrder = 1 + Max(orders)
    BY DEF NextOrder
  <1>10. \A d \in Known : rec[d].order \in orders
    OBVIOUS
  <1> HIDE DEF orders, f
  <1>11. Max(orders) \in Nat
    BY <1>6, <1>8
  <1>12. \A d \in Known : Max(orders) >= rec[d].order
    BY <1>8, <1>10
  <1> QED BY <1>1, <1>9, <1>11, <1>12
-----------------------------------------------------------------------------
(* Types: the requests of surfaces and the steps of the coordinator *)

LEMMA InitTyped == ASSUME Assumptions PROVE Init => TypeOK /\ TurnsInv
  <1> SUFFICES ASSUME Init PROVE TypeOK /\ TurnsInv
    OBVIOUS
  <1> USE DEF Init, CoordInit, NodeInit
  <1>1. TablesOK
    BY DEF TablesOK, NoStream
  <1>2. LedgerOK
    <2>1. pubs \in [Commands -> Publications] /\ turn \in [Tasks -> TurnsOf]
      BY DEF NoPublications, Closed, NoTurn, Publications, TurnsOf
    <2>2. rec \in [Commands -> Executions \cup {None}] /\ ev \in [Commands -> Seq(Kinds)]
      <3>1. <<>> \in Seq(Kinds)
        OBVIOUS
      <3> QED BY <3>1
    <2> QED BY <2>1, <2>2 DEF LedgerOK
  <1>3. ConnectionOK
    BY DEF ConnectionOK
  <1>4. TurnsInv
    BY DEF TurnsInv, GoodTurn, NoTurn, CancelledOnlyWhenAsked, Known
  <1> QED BY <1>1, <1>2, <1>3, <1>4 DEF TypeOK

(* What the parts of the state that no step of the coordinator changes say. *)
LEMMA NodeIdleKeeps ==
    ASSUME TypeOK, TurnsInv, NodeIdle
    PROVE  LedgerOK' /\ TurnsInv'
  BY DEF TypeOK, LedgerOK, TurnsInv, NodeIdle, nodeVars, nodeDurable, nodeVolatile,
         CancelledOnlyWhenAsked, Known

LEMMA CoordIdleKeeps ==
    ASSUME TypeOK, CoordIdle
    PROVE  TablesOK' /\ UNCHANGED <<coordDurable, link, sends, handling>>
  BY DEF TypeOK, TablesOK, CoordIdle, coordDurable, coordVolatile

LEMMA SurfaceTyped ==
    ASSUME Assumptions, TypeOK, Surface
    PROVE  TablesOK' /\ ConnectionOK'
  <1> USE DEF TypeOK
  <1>1. ASSUME NEW t \in Tasks, OpenTask(t) PROVE TablesOK' /\ ConnectionOK'
    BY <1>1 DEF OpenTask, TablesOK, ConnectionOK, coordVolatile, wire
  <1>2. ASSUME NEW t \in Tasks, DeleteTask(t) PROVE TablesOK' /\ ConnectionOK'
    <2>1. ConnectionOK'
      BY <1>2 DEF DeleteTask, ConnectionOK, coordVolatile, wire
    <2>2. NoStream \in [next : Nat, terminal : BOOLEAN] /\ <<>> \in Seq(Entries)
      BY DEF NoStream
    <2>3. journal' \in [Tasks -> Seq(Entries)] /\ task' \in [Tasks -> {"new", "open", "deleted"}]
      BY <1>2, <2>2 DEF DeleteTask, TablesOK
    <2>4. /\ cmd' \in [Commands -> {"new", "admitted", "deleted"}]
          /\ pending' \subseteq Commands
          /\ stops' \in [Commands -> {"none", "recorded", "delivered"}]
      BY <1>2 DEF DeleteTask, TablesOK
    <2>5. stream' \in [Commands -> [next : Nat, terminal : BOOLEAN]]
      BY <1>2, <2>2 DEF DeleteTask, TablesOK
    <2> QED BY <2>1, <2>3, <2>4, <2>5 DEF TablesOK
  <1>3. ASSUME NEW m \in Downward, sends' = sends \cup {[conn |-> link, msg |-> m]},
               UNCHANGED <<live, lastConn, toNode, toCoord, link, handling>>
        PROVE  ConnectionOK'
    BY <1>3 DEF ConnectionOK
  <1>4. ASSUME NEW c \in Commands, Submit(c) PROVE TablesOK' /\ ConnectionOK'
    <2>1. ConnectionOK'
      <3>1. Execute(c) \in Downward
        BY Constructors
      <3> QED BY <1>3, <1>4, <3>1 DEF Submit, wire
    <2>2. Submitted(c) \in Entries /\ TaskOf[c] \in Tasks
      BY DEF Submitted, Entries, Assumptions, RcpAssumption
    <2>3. journal' \in [Tasks -> Seq(Entries)]
      BY <1>4, <2>2 DEF Submit, InsertCommand, TablesOK
    <2> QED BY <1>4, <2>1, <2>3 DEF Submit, InsertCommand, TablesOK
  <1>5. ASSUME NEW c \in Commands, ResubmitExisting(c) PROVE TablesOK' /\ ConnectionOK'
    <2>1. Execute(c) \in Downward
      BY Constructors
    <2>2. ConnectionOK'
      BY <1>3, <1>5, <2>1 DEF ResubmitExisting, wire
    <2> QED BY <1>5, <2>2 DEF ResubmitExisting, TablesOK, coordDurable
  <1>6. ASSUME NEW c \in Commands, AdmitStop(c) PROVE TablesOK' /\ ConnectionOK'
    <2>1. Stop(c) \in Downward
      BY Constructors
    <2>2. ConnectionOK'
      <3>1. CASE link = 0
        BY <1>6, <3>1 DEF AdmitStop, ConnectionOK, wire
      <3>2. CASE link # 0
        BY <1>3, <1>6, <2>1, <3>2 DEF AdmitStop, wire
      <3> QED BY <3>1, <3>2
    <2> QED BY <1>6, <2>2 DEF AdmitStop, TablesOK
  <1>7. ASSUME NEW c \in Commands, RepeatStop(c) PROVE TablesOK' /\ ConnectionOK'
    <2>1. Stop(c) \in Downward
      BY Constructors
    <2>2. ConnectionOK'
      BY <1>3, <1>7, <2>1 DEF RepeatStop, wire
    <2> QED BY <1>7, <2>2 DEF RepeatStop, TablesOK, coordDurable
  <1> QED BY <1>1, <1>2, <1>4, <1>5, <1>6, <1>7 DEF Surface

(* A step that appends a typed message to the node's connection, or none.   *)
LEMMA Delivered ==
    ASSUME ConnectionOK, NEW m \in Downward, NEW k,
           toNode' = (IF k = live THEN Append(toNode, m) ELSE toNode)
    PROVE  /\ toNode' \in Seq(Downward)
           /\ \A x \in Range(toNode') : x = m \/ x \in Range(toNode)
  BY RangeAppend DEF ConnectionOK

(* The records a publication adds to the journal.                           *)
LEMMA NewRecords ==
    ASSUME TablesOK, NEW c \in Commands, NEW from \in Nat, NEW events \in Seq(Kinds), from <= stream[c].next
    PROVE  LET known == stream[c].next - from
               new == New(c, from, events)
           IN  /\ new \in Seq(Entries) /\ known \in Nat
               /\ Len(new) = IF Len(events) > known THEN Len(events) - known ELSE 0
               /\ \A i \in 1..Len(new) : /\ known + i \in 1..Len(events)
                                         /\ new[i] = Record(c, stream[c].next + i - 1, events[known + i])
  <1> DEFINE known == stream[c].next - from
             size == IF Len(events) > known THEN Len(events) - known ELSE 0
             new == New(c, from, events)
  <1>1. stream[c].next \in Nat /\ known \in Nat /\ Len(events) \in Nat /\ size \in Nat
    BY DEF TablesOK
  <1>2. new = [i \in 1..size |-> Record(c, stream[c].next + i - 1, events[known + i])]
    BY DEF New
  <1> HIDE DEF known
  <1>3. \A i \in 1..size : known + i \in 1..Len(events)
    BY <1>1
  <1>4. ASSUME NEW i \in 1..size PROVE Record(c, stream[c].next + i - 1, events[known + i]) \in Entries
    <2>1. events[known + i] \in Kinds
      BY <1>3
    <2>2. stream[c].next + i - 1 \in Nat
      BY <1>1
    <2> QED BY <2>1, <2>2 DEF Record, Entries
  <1> HIDE DEF size
  <1>5. new \in [1..size -> Entries]
    BY <1>2, <1>4
  <1>6. new \in Seq(Entries) /\ Len(new) = size
    BY <1>1, <1>5
  <1>7. \A i \in 1..Len(new) : new[i] = Record(c, stream[c].next + i - 1, events[known + i])
    BY <1>2, <1>6
  <1> QED BY <1>1, <1>3, <1>6, <1>7 DEF size, known

LEMMA CoordinatorTyped ==
    ASSUME Assumptions, TypeOK, Coordinator
    PROVE  TablesOK' /\ ConnectionOK'
  <1> USE DEF TypeOK
  <1>1. CASE SendToNode
    <2>1. PICK s \in sends : /\ sends' = sends \ {s}
                             /\ toNode' = IF s.conn = live THEN Append(toNode, s.msg) ELSE toNode
                             /\ UNCHANGED <<coordDurable, link, handling, resent, live, lastConn, toCoord, faults>>
      BY <1>1 DEF SendToNode
    <2>2. s.msg \in Downward
      BY DEF ConnectionOK
    <2>3. toNode' \in Seq(Downward)
      BY <2>1, <2>2, Delivered
    <2> QED BY <2>1, <2>3 DEF ConnectionOK, TablesOK, coordDurable
  <1>2. CASE TakeOperation
    <2>1. toCoord \in Seq(Upward) /\ toCoord # <<>> /\ live \in Nat
      BY <1>2 DEF TakeOperation, ConnectionOK
    <2>2. Head(toCoord) \in Upward /\ Tail(toCoord) \in Seq(Upward)
      BY <2>1
    <2> QED BY <1>2, <2>1, <2>2 DEF TakeOperation, ConnectionOK, TablesOK, coordDurable
  <1>3. CASE HandleOperation
    <2>1. PICK h \in handling :
            /\ AcknowledgeExecution(h) \/ AcknowledgeStop(h) \/ AppendEvents(h)
            /\ handling' = handling \ {h}
            /\ UNCHANGED <<link, sends, resent, live, lastConn, toCoord, faults>>
      BY <1>3 DEF HandleOperation
    <2>2. h.msg \in Upward
      BY DEF ConnectionOK
    <2>3. h.msg.cmd \in Commands /\ TaskOf[h.msg.cmd] \in Tasks
      BY <2>2, UpwardFields DEF Assumptions, RcpAssumption
    <2>4. SUFFICES TablesOK' /\ toNode' \in Seq(Downward)
      BY <2>1 DEF ConnectionOK
    <2>5. CASE AcknowledgeExecution(h)
      <3>1. \E m \in Downward : Reply(h, m)
        BY <2>3, <2>5, Constructors DEF AcknowledgeExecution
      <3>2. toNode' \in Seq(Downward)
        BY <3>1, Delivered DEF Reply
      <3> QED BY <2>5, <3>2 DEF AcknowledgeExecution, TablesOK
    <2>6. CASE AcknowledgeStop(h)
      BY <2>3, <2>6 DEF AcknowledgeStop, TablesOK, ConnectionOK
    <2>7. CASE AppendEvents(h)
      <3> DEFINE c == h.msg.cmd
                 new == New(c, h.msg.from, h.msg.events)
                 next == stream[c].next + Len(new)
      <3>1. h.msg.from \in Nat /\ h.msg.events \in Seq(Kinds)
        BY <2>2, <2>7, UpwardFields DEF AppendEvents
      <3>2. CASE Fits(c, h.msg.from, h.msg.events)
        <4>1. new \in Seq(Entries)
          BY <2>3, <3>1, <3>2, NewRecords DEF Fits
        <4>2. next \in Nat /\ next - 1 \in Int
          BY <2>3, <4>1 DEF TablesOK
        <4>3. journal' = [journal EXCEPT ![TaskOf[c]] = @ \o new]
          BY <2>7, <3>2 DEF AppendEvents
        <4>4. stream' = [stream EXCEPT ![c] =
                 [next |-> next,
                  terminal |-> IF new = <<>> THEN @.terminal ELSE IsTerminal(Last(new).kind)]]
          BY <2>7, <3>2 DEF AppendEvents
        <4>5. Reply(h, Accepted(c, next - 1))
          BY <2>7, <3>2 DEF AppendEvents
        <4>6. UNCHANGED <<task, cmd, pending, stops>>
          BY <2>7 DEF AppendEvents
        <4> HIDE DEF new, next
        <4>7. toNode' \in Seq(Downward)
          <5>1. Accepted(c, next - 1) \in Downward
            BY <2>3, <4>2, Constructors
          <5> QED BY <4>5, <5>1, Delivered DEF Reply
        <4>8. journal' \in [Tasks -> Seq(Entries)]
          BY <2>3, <4>1, <4>3 DEF TablesOK
        <4>9. (IF new = <<>> THEN stream[c].terminal ELSE IsTerminal(Last(new).kind)) \in BOOLEAN
          <5>1. stream[c].terminal \in BOOLEAN
            BY <2>3 DEF TablesOK
          <5>2. IsTerminal(Last(new).kind) \in BOOLEAN
            BY DEF IsTerminal
          <5> HIDE DEF c
          <5> QED BY <5>1, <5>2
        <4>10. stream' \in [Commands -> [next : Nat, terminal : BOOLEAN]]
          BY <2>3, <4>2, <4>4, <4>9 DEF TablesOK
        <4> QED BY <4>6, <4>7, <4>8, <4>10 DEF TablesOK
      <3>3. CASE ~Fits(c, h.msg.from, h.msg.events)
        <4>1. Reply(h, Error) /\ UNCHANGED <<task, journal, cmd, pending, stream, stops>>
          BY <2>7, <3>3 DEF AppendEvents
        <4>2. Error \in Downward
          BY DEF Downward
        <4>3. toNode' \in Seq(Downward)
          BY <4>1, <4>2, Delivered DEF Reply
        <4> QED BY <4>1, <4>3 DEF TablesOK
      <3> QED BY <3>2, <3>3
    <2> QED BY <2>1, <2>5, <2>6, <2>7
  <1>4. CASE CleanupConnection
    BY <1>4 DEF CleanupConnection, ConnectionOK, TablesOK, coordDurable, wire
  <1> QED BY <1>1, <1>2, <1>3, <1>4 DEF Coordinator
-----------------------------------------------------------------------------
(* Types and turns: the steps of the node *)

LEMMA LedgerTypes ==
    ASSUME TypeOK
    PROVE  rec \in Ledgers /\ ev \in Records /\ turn \in [Tasks -> TurnsOf] /\ pubs \in [Commands -> Publications]
  BY DEF TypeOK, LedgerOK, Ledgers, Records

LEMMA ScheduledGood ==
    ASSUME Assumptions, NEW running \in [Tasks -> TurnsOf], NEW r \in Ledgers, NEW asked, NEW signal,
           \A t \in Tasks : GoodTurn(running[t], r, asked, signal, t)
    PROVE  \A t \in Tasks : GoodTurn(Scheduled(running, r)[t], r, asked, signal, t)
  <1> SUFFICES ASSUME NEW t \in Tasks PROVE GoodTurn(Scheduled(running, r)[t], r, asked, signal, t)
    OBVIOUS
  <1>1. ASSUME NEW c \in Commands, First(r, t, c) PROVE GoodTurn(Fresh(c), r, asked, signal, t)
    <2>1. Fresh(c).cmd = c /\ Fresh(c).step = "spawned" /\ Fresh(c).cancelled = FALSE
      BY DEF Fresh, NoTurn
    <2> QED BY <1>1, <2>1 DEF GoodTurn, First
  <1> QED BY <1>1, Rescheduled

(* A ledger whose executions keep their order and their end, and the same   *)
(* turns, stops and records.                                                *)
LEMMA LedgerTouched ==
    ASSUME TurnsInv, UNCHANGED <<turn, nstop, ev, stopping, unlinked>>,
           \A c \in Commands : /\ rec'[c] = None <=> rec[c] = None
                               /\ rec[c] # None => /\ rec'[c].order = rec[c].order
                                                   /\ rec'[c].terminal = rec[c].terminal,
           stopping \in Commands \cup {None}
    PROVE  TurnsInv'
  <1>1. ASSUME NEW t \in Tasks PROVE GoodTurn(turn[t], rec', nstop, stopping, t)
    BY DEF TurnsInv, GoodTurn
  <1>2. CancelledOnlyWhenAsked'
    BY DEF TurnsInv, CancelledOnlyWhenAsked, Known
  <1>3. (stopping # None /\ rec'[stopping] # None /\ ~rec'[stopping].terminal) => stopping \in nstop
    BY DEF TurnsInv
  <1> QED BY <1>1, <1>2, <1>3 DEF TurnsInv

(* The session ends with an error, or with the process: turns are dropped.  *)
LEMMA TurnsDropped ==
    ASSUME TurnsInv, turn' = [t \in Tasks |-> NoTurn], UNCHANGED nodeDurable,
           stopping' \in {stopping, None}, LedgerOK, unlinked' = ReasonsLost
    PROVE  TurnsInv' /\ unlinked' \in [Commands -> {"no", "held", "lost"}]
  <1>1. unlinked' \in [Commands -> {"no", "held", "lost"}] /\ \A c \in Commands : unlinked[c] # "no" => unlinked'[c] # "no"
    BY DEF LedgerOK, ReasonsLost
  <1> QED BY <1>1 DEF TurnsInv, GoodTurn, NoTurn, CancelledOnlyWhenAsked, Known, nodeDurable

LEMMA VolatileTypes ==
    /\ NoPublications \in [Commands -> Publications]
    /\ [t \in Tasks |-> NoTurn] \in [Tasks -> TurnsOf] /\ NoTurn \in TurnsOf
    /\ \A S : <<>> \in Seq(S)
  BY DEF NoPublications, Closed, Publications, NoTurn, TurnsOf

LEMMA FailKeeps ==
    ASSUME TypeOK, TurnsInv, CoordIdle, Fail
    PROVE  LedgerOK' /\ ConnectionOK' /\ TurnsInv'
  <1>1. TurnsInv' /\ unlinked' \in [Commands -> {"no", "held", "lost"}]
    BY TurnsDropped DEF Fail, TypeOK
  <1>2. LedgerOK'
    BY <1>1, VolatileTypes DEF TypeOK, LedgerOK, Fail, nodeDurable
  <1>3. ConnectionOK'
    BY VolatileTypes DEF TypeOK, ConnectionOK, Fail, CoordIdle, coordVolatile
  <1> QED BY <1>1, <1>2, <1>3

(* A message is taken from the connection.                                  *)
LEMMA TakenTyped ==
    ASSUME TypeOK, NEW type, Receive(type), type # "error"
    PROVE  /\ Head(toNode) \in Downward /\ Head(toNode) \in Range(toNode) /\ Head(toNode).type = type
           /\ Head(toNode).cmd \in Commands
           /\ Tail(toNode) \in Seq(Downward) /\ Range(Tail(toNode)) \subseteq Range(toNode)
  <1>1. toNode \in Seq(Downward) /\ toNode # <<>> /\ Head(toNode).type = type
    BY DEF TypeOK, ConnectionOK, Receive
  <1> QED BY <1>1, RangeTail, DownwardFields

LEMMA ReceivedTyped ==
    ASSUME TypeOK, CoordIdle, NEW type, Receive(type), type # "error", Taken, toCoord' \in Seq(Upward)
    PROVE  ConnectionOK'
  BY TakenTyped DEF Taken, TypeOK, ConnectionOK, CoordIdle, coordVolatile

LEMMA HandleExecuteKeeps ==
    ASSUME Assumptions, TypeOK, TurnsInv, CoordIdle, HandleExecute
    PROVE  LedgerOK' /\ ConnectionOK' /\ TurnsInv'
  <1> DEFINE c == Head(toNode).cmd
  <1>1. Receive("execute") /\ Taken /\ UNCHANGED <<nstop, node, stopping, draining, unlinked, faults>>
    BY DEF HandleExecute
  <1>2. c \in Commands
    BY <1>1, TakenTyped
  <1> HIDE DEF c
  <1>3. rec \in Ledgers /\ ev \in Records /\ turn \in [Tasks -> TurnsOf]
        /\ pubs \in [Commands -> Publications] /\ toCoord \in Seq(Upward)
    BY LedgerTypes DEF TypeOK, ConnectionOK
  <1>4. CASE draining
    <2>1. UNCHANGED <<rec, ev, dirty, turn>> /\ Resume(pubs, toCoord, rec, ev)
      BY <1>4 DEF HandleExecute
    <2>2. pubs' \in [Commands -> Publications] /\ toCoord' \in Seq(Upward)
      BY <1>3, <2>1, Resumed
    <2>3. ConnectionOK'
      BY <1>1, <2>2, ReceivedTyped
    <2>4. LedgerOK'
      BY <1>1, <2>1, <2>2 DEF TypeOK, LedgerOK
    <2>5. TurnsInv'
      BY <1>1, <2>1 DEF TurnsInv, CancelledOnlyWhenAsked, Known
    <2> QED BY <2>3, <2>4, <2>5
  <1>5. CASE ~draining
    <2>1. /\ rec' = Admit(c)
          /\ ev' = [ev EXCEPT ![c] = IF rec[c] = None THEN <<"started">> ELSE @]
          /\ dirty' = TRUE /\ turn' = Scheduled(turn, rec') /\ Resume(pubs, toCoord, rec', ev')
      BY <1>5 DEF HandleExecute, c
    <2>2. NextOrder \in Nat /\ \A d \in Known : rec[d].order < NextOrder
      BY <1>3, NextOrderAbove
    <2> DEFINE row == IF rec[c] = None
                      THEN [order |-> NextOrder, acked |-> FALSE, terminal |-> FALSE, pub |-> 0]
                      ELSE [rec[c] EXCEPT !.acked = FALSE]
    <2>3. rec' = [rec EXCEPT ![c] = row]
      BY <2>1 DEF Admit
    <2>4. row \in Executions
      BY <1>2, <1>3, <2>2 DEF Ledgers, Executions
    <2>5. rec' \in Ledgers
      BY <1>3, <2>3, <2>4 DEF Ledgers
    <2>6. ev' \in Records
      <3>1. <<"started">> \in Seq(Kinds)
        BY DEF Kinds
      <3> QED BY <1>3, <2>1, <3>1 DEF Records
    <2>7. pubs' \in [Commands -> Publications] /\ toCoord' \in Seq(Upward)
      BY <1>3, <2>1, <2>5, <2>6, Resumed
    <2>8. turn' \in [Tasks -> TurnsOf]
      BY <1>3, <2>1, <2>5, Rescheduled
    <2>9. LedgerOK'
      BY <1>1, <2>1, <2>5, <2>6, <2>7, <2>8 DEF TypeOK, LedgerOK, Ledgers, Records
    <2>10. ConnectionOK'
      BY <1>1, <2>7, ReceivedTyped
    <2>11. ASSUME NEW d \in Commands, rec[d] # None
           PROVE  rec'[d] # None /\ rec'[d].order = rec[d].order /\ rec'[d].terminal = rec[d].terminal
      <3>1. rec[d] \in Executions
        BY <1>3, <2>11 DEF Ledgers
      <3>2. rec'[d] # None
        BY <1>3, <2>3, <2>4, <2>11 DEF Ledgers, Assumptions, LedgerAssumption
      <3> QED BY <1>3, <2>3, <2>11, <3>1, <3>2 DEF Ledgers, Executions
    <2>12. ASSUME NEW d \in Commands, rec'[d] # None, rec[d] = None
           PROVE  d = c /\ rec'[d].order = NextOrder /\ rec'[d].terminal = FALSE
      BY <1>3, <2>3, <2>12 DEF Ledgers
    <2>13. \A t \in Tasks : GoodTurn(turn[t], rec', nstop, stopping, t)
      <3> SUFFICES ASSUME NEW t \in Tasks,
                          turn[t].step \in {"spawned", "registered", "checked", "started"}
                   PROVE  GoodTurn(turn[t], rec', nstop, stopping, t)
        BY DEF GoodTurn
      <3> DEFINE k == turn[t].cmd
      <3>1. GoodTurn(turn[t], rec, nstop, stopping, t)
        BY DEF TurnsInv
      <3>2. k \in Commands /\ TaskOf[k] = t /\ rec[k] # None /\ ~rec[k].terminal
        BY <3>1 DEF GoodTurn
      <3>3. rec'[k] # None /\ rec'[k].order = rec[k].order /\ rec'[k].terminal = rec[k].terminal
        BY <2>11, <3>2
      <3>4. rec[k].order < NextOrder /\ rec[k].order \in Nat
        BY <1>3, <2>2, <3>2 DEF Known, Ledgers, Executions
      <3>5. ASSUME NEW d \in Commands, TaskOf[d] = t, rec'[d] # None, rec'[d].order < rec'[k].order
            PROVE  rec'[d].terminal
        <4>1. CASE rec[d] = None
          <5>1. NextOrder < rec[k].order
            BY <2>12, <3>3, <3>5, <4>1
          <5> HIDE DEF row, k
          <5> QED BY <2>2, <3>4, <5>1
        <4>2. CASE rec[d] # None
          BY <2>11, <3>1, <3>3, <3>5, <4>2 DEF GoodTurn
        <4> QED BY <4>1, <4>2
      <3> QED BY <3>1, <3>2, <3>3, <3>5 DEF GoodTurn
    <2>14. \A t \in Tasks : GoodTurn(turn'[t], rec', nstop, stopping, t)
      BY <1>3, <2>1, <2>5, <2>13, ScheduledGood
    <2>15. CancelledOnlyWhenAsked'
      <3> SUFFICES ASSUME NEW d \in Commands, rec'[d] # None, ev'[d] # <<>>, Last(ev'[d]) = "cancelled"
                   PROVE  d \in nstop \/ unlinked[d] # "no"
        BY <1>1 DEF CancelledOnlyWhenAsked, Known
      <3>1. CASE rec[d] = None
        <4>1. d = c /\ ev'[d] = <<"started">>
          BY <1>2, <1>3, <2>1, <2>12, <3>1 DEF Records
        <4>2. Last(<<"started">>) = "started"
          BY DEF Last
        <4> QED BY <4>1, <4>2
      <3>2. CASE rec[d] # None
        <4>1. ev'[d] = ev[d]
          BY <1>3, <2>1, <3>2 DEF Records
        <4> QED BY <3>2, <4>1 DEF TurnsInv, CancelledOnlyWhenAsked, Known
      <3> QED BY <3>1, <3>2
    <2>16. stopping = None
      BY <1>1 DEF Receive, InSession
    <2> QED BY <1>1, <2>9, <2>10, <2>14, <2>15, <2>16 DEF TurnsInv
  <1> QED BY <1>4, <1>5

LEMMA AcknowledgeAdmissionKeeps ==
    ASSUME Assumptions, TypeOK, TurnsInv, CoordIdle, AcknowledgeAdmission
    PROVE  LedgerOK' /\ ConnectionOK' /\ TurnsInv'
  <1> DEFINE c == Head(toNode).cmd
             r == [rec EXCEPT ![c].acked = TRUE]
  <1>1. Receive("acknowledged") /\ UNCHANGED faults
    BY DEF AcknowledgeAdmission
  <1>2. c \in Commands
    BY <1>1, TakenTyped
  <1>3. CASE ~pubs[c].open \/ ~pubs[c].admission \/ rec[c] = None
    BY <1>3, FailKeeps DEF AcknowledgeAdmission
  <1>4. CASE ~(~pubs[c].open \/ ~pubs[c].admission \/ rec[c] = None)
    <2>1. /\ rec' = r
          /\ pubs' = Refreshed([pubs EXCEPT ![c].admission = FALSE], r, ev)
          /\ Taken /\ UNCHANGED <<ev, nstop, node, dirty, turn, stopping, draining, unlinked, toCoord>>
      BY <1>4 DEF AcknowledgeAdmission
    <2> HIDE DEF c
    <2>2. rec \in Ledgers /\ rec[c] \in Executions /\ pubs \in [Commands -> Publications]
      BY <1>2, <1>4, LedgerTypes DEF Ledgers
    <2>3. r \in Ledgers /\ r[c] = [rec[c] EXCEPT !.acked = TRUE] /\ \A d \in Commands : d # c => r[d] = rec[d]
      BY <1>2, <2>2 DEF Ledgers, Executions
    <2>4. [pubs EXCEPT ![c].admission = FALSE] \in [Commands -> Publications]
      BY <1>2, <2>2 DEF Publications
    <2>5. pubs' \in [Commands -> Publications]
      BY <2>1, <2>4, RefreshedType
    <2>6. toCoord' \in Seq(Upward)
      BY <2>1 DEF TypeOK, ConnectionOK
    <2>7. ConnectionOK'
      BY <1>1, <2>1, <2>6, ReceivedTyped
    <2>8. LedgerOK'
      BY <2>1, <2>3, <2>5 DEF TypeOK, LedgerOK, Ledgers
    <2>9. \A d \in Commands : /\ rec'[d] = None <=> rec[d] = None
                              /\ rec[d] # None => /\ rec'[d].order = rec[d].order
                                                  /\ rec'[d].terminal = rec[d].terminal
      <3> HIDE DEF r
      <3>1. r[c] \in Executions /\ r[c].order = rec[c].order /\ r[c].terminal = rec[c].terminal
        BY <2>2, <2>3 DEF Executions
      <3> QED BY <1>4, <2>1, <2>3, <3>1 DEF Assumptions, LedgerAssumption
    <2>10. TurnsInv'
      BY <2>1, <2>9, LedgerTouched DEF TypeOK, LedgerOK
    <2> QED BY <2>7, <2>8, <2>10
  <1> QED BY <1>3, <1>4

LEMMA EventsAcceptedKeeps ==
    ASSUME Assumptions, TypeOK, TurnsInv, CoordIdle, EventsAccepted
    PROVE  LedgerOK' /\ ConnectionOK' /\ TurnsInv'
  <1> DEFINE c == Head(toNode).cmd
             through == Head(toNode).through + 1
             r == [rec EXCEPT ![c].pub = IF @ < through THEN through ELSE @]
  <1>1. Receive("accepted") /\ UNCHANGED faults
    BY DEF EventsAccepted
  <1>2. c \in Commands
    BY <1>1, TakenTyped
  <1>3. CASE ~pubs[c].open \/ pubs[c].flight # through \/ rec[c] = None
    BY <1>3, FailKeeps DEF EventsAccepted
  <1>4. CASE ~(~pubs[c].open \/ pubs[c].flight # through \/ rec[c] = None)
    <2>1. /\ rec' = r
          /\ Resume([pubs EXCEPT ![c].flight = 0], toCoord, r, ev)
          /\ Taken /\ UNCHANGED <<ev, nstop, node, dirty, turn, stopping, draining, unlinked>>
      BY <1>4 DEF EventsAccepted
    <2> HIDE DEF c, through
    <2>2. rec \in Ledgers /\ rec[c] \in Executions /\ pubs \in [Commands -> Publications] /\ ev \in Records
      BY <1>2, <1>4, LedgerTypes DEF Ledgers
    <2>3. through \in Nat
      BY <1>2, <1>4, <2>2 DEF Publications
    <2>4. /\ r[c] = [rec[c] EXCEPT !.pub = IF rec[c].pub < through THEN through ELSE rec[c].pub]
          /\ \A d \in Commands : d # c => r[d] = rec[d]
      BY <1>2, <2>2 DEF Ledgers
    <2>5. r[c] \in Executions /\ r[c].order = rec[c].order /\ r[c].terminal = rec[c].terminal
      BY <2>2, <2>3, <2>4 DEF Executions
    <2>6. r \in Ledgers
      BY <2>2, <2>4, <2>5 DEF Ledgers
    <2>7. [pubs EXCEPT ![c].flight = 0] \in [Commands -> Publications]
      BY <1>2, <2>2 DEF Publications
    <2>8. toCoord \in Seq(Upward)
      BY DEF TypeOK, ConnectionOK
    <2>9. pubs' \in [Commands -> Publications] /\ toCoord' \in Seq(Upward)
      <3> HIDE DEF r
      <3> QED BY <2>1, <2>2, <2>6, <2>7, <2>8, Resumed
    <2>10. ConnectionOK'
      BY <1>1, <2>1, <2>9, ReceivedTyped
    <2>11. LedgerOK'
      BY <2>1, <2>6, <2>9 DEF TypeOK, LedgerOK, Ledgers
    <2>12. \A d \in Commands : /\ rec'[d] = None <=> rec[d] = None
                               /\ rec[d] # None => /\ rec'[d].order = rec[d].order
                                                   /\ rec'[d].terminal = rec[d].terminal
      BY <1>4, <2>1, <2>4, <2>5 DEF Assumptions, LedgerAssumption
    <2>13. TurnsInv'
      BY <2>1, <2>12, LedgerTouched DEF TypeOK, LedgerOK
    <2> QED BY <2>10, <2>11, <2>13
  <1> QED BY <1>3, <1>4

LEMMA RecordStopKeeps ==
    ASSUME Assumptions, TypeOK, TurnsInv, CoordIdle, RecordStop
    PROVE  LedgerOK' /\ ConnectionOK' /\ TurnsInv'
  <1> DEFINE c == Head(toNode).cmd
  <1>1. Receive("stop") /\ Taken /\ UNCHANGED <<rec, ev, node, pubs, dirty, turn, draining, unlinked, faults>>
    BY DEF RecordStop
  <1>2. c \in Commands /\ stopping = None
    BY <1>1, TakenTyped DEF Receive, InSession
  <1>3. CASE Ended(c)
    <2>1. toCoord' = Append(toCoord, AckStop(c)) /\ UNCHANGED <<nstop, stopping>>
      BY <1>3 DEF RecordStop
    <2>2. toCoord' \in Seq(Upward)
      BY <1>2, <2>1, Constructors DEF TypeOK, ConnectionOK
    <2>3. ConnectionOK'
      BY <1>1, <2>2, ReceivedTyped
    <2> QED BY <1>1, <2>1, <2>3 DEF TypeOK, LedgerOK, TurnsInv, CancelledOnlyWhenAsked, Known
  <1>4. CASE ~Ended(c)
    <2>1. nstop' = nstop \cup {c} /\ stopping' = c /\ UNCHANGED toCoord
      BY <1>4 DEF RecordStop
    <2>2. toCoord' \in Seq(Upward)
      BY <2>1 DEF TypeOK, ConnectionOK
    <2>3. ConnectionOK'
      BY <1>1, <2>2, ReceivedTyped
    <2> HIDE DEF c
    <2>4. LedgerOK'
      BY <1>1, <1>2, <2>1 DEF TypeOK, LedgerOK
    <2>5. ASSUME NEW t \in Tasks PROVE GoodTurn(turn[t], rec, nstop', stopping', t)
      <3>1. GoodTurn(turn[t], rec, nstop, stopping, t) /\ None \notin Commands
        BY DEF TurnsInv, Assumptions, RcpAssumption
      <3> QED BY <1>2, <2>1, <3>1 DEF GoodTurn
    <2>6. CancelledOnlyWhenAsked'
      BY <1>1, <2>1 DEF TurnsInv, CancelledOnlyWhenAsked, Known
    <2> QED BY <1>1, <2>1, <2>3, <2>4, <2>5, <2>6 DEF TurnsInv
  <1> QED BY <1>3, <1>4

LEMMA CancelTurnKeeps ==
    ASSUME Assumptions, TypeOK, TurnsInv, CoordIdle, CancelTurn
    PROVE  LedgerOK' /\ ConnectionOK' /\ TurnsInv'
  <1>1. stopping \in Commands /\ stopping # None
    BY DEF CancelTurn, TypeOK, LedgerOK
  <1>2. ConnectionOK'
    <2>1. AckStop(stopping) \in Upward
      BY <1>1, Constructors
    <2> QED BY <2>1 DEF CancelTurn, TypeOK, ConnectionOK, CoordIdle, coordVolatile
  <1>3. \A t \in Tasks : turn[t] \in TurnsOf
    BY LedgerTypes
  <1>4. ASSUME NEW t \in Tasks
        PROVE  /\ turn'[t] \in TurnsOf /\ turn'[t].cmd = turn[t].cmd /\ turn'[t].step = turn[t].step
               /\ turn'[t].cancelled = (turn[t].cancelled \/ (turn[t].cmd = stopping /\ Registered(t)))
    <2>1. turn'[t] = IF turn[t].cmd = stopping /\ Registered(t) THEN [turn[t] EXCEPT !.cancelled = TRUE] ELSE turn[t]
      BY DEF CancelTurn
    <2>2. turn[t] \in TurnsOf
      BY <1>3
    <2> QED BY <2>1, <2>2 DEF TurnsOf
  <1>5. turn' \in [Tasks -> TurnsOf]
    <2>1. turn' = [t \in Tasks |-> turn'[t]]
      BY DEF CancelTurn
    <2> QED BY <1>4, <2>1
  <1>6. UNCHANGED <<rec, ev, nstop, node, pubs, dirty, draining, unlinked>> /\ stopping' = None
    BY DEF CancelTurn, nodeDurable
  <1>7. LedgerOK'
    BY <1>5, <1>6 DEF TypeOK, LedgerOK
  <1>8. ASSUME NEW t \in Tasks PROVE GoodTurn(turn'[t], rec, nstop, None, t)
    <2> SUFFICES ASSUME turn[t].step \in {"spawned", "registered", "checked", "started"}
                 PROVE  GoodTurn(turn'[t], rec, nstop, None, t)
      BY <1>4 DEF GoodTurn
    <2>1. GoodTurn(turn[t], rec, nstop, stopping, t)
      BY DEF TurnsInv
    <2>2. turn[t].cmd = stopping => stopping \in nstop
      BY <1>1, <2>1 DEF GoodTurn, TurnsInv
    <2>3. turn[t].step \in {"registered", "checked", "started"} <=> Registered(t)
      BY DEF Registered
    <2>4. CASE turn[t].cmd = stopping /\ Registered(t)
      <3>1. turn'[t].cancelled = TRUE
        BY <1>4, <2>4
      <3> QED BY <1>4, <2>1, <2>2, <2>3, <2>4, <3>1 DEF GoodTurn
    <2>5. CASE ~(turn[t].cmd = stopping /\ Registered(t))
      <3>1. turn'[t] = turn[t]
        BY <2>5 DEF CancelTurn
      <3> QED BY <2>1, <2>3, <2>5, <3>1 DEF GoodTurn
    <2> QED BY <2>4, <2>5
  <1>9. CancelledOnlyWhenAsked'
    BY <1>6 DEF TurnsInv, CancelledOnlyWhenAsked, Known
  <1> QED BY <1>2, <1>6, <1>7, <1>8, <1>9 DEF TurnsInv

LEMMA CommitSignalKeeps ==
    ASSUME Assumptions, TypeOK, TurnsInv, CoordIdle, CommitSignal
    PROVE  LedgerOK' /\ ConnectionOK' /\ TurnsInv'
  <1>1. /\ dirty' = FALSE /\ Resume(pubs, toCoord, rec, ev)
        /\ UNCHANGED <<rec, ev, nstop, node, turn, stopping, draining, unlinked, live, lastConn, toNode, faults>>
    BY DEF CommitSignal, nodeDurable
  <1>2. toCoord \in Seq(Upward)
    BY DEF TypeOK, ConnectionOK
  <1>3. pubs' \in [Commands -> Publications] /\ toCoord' \in Seq(Upward)
    BY <1>1, <1>2, LedgerTypes, Resumed
  <1>4. LedgerOK'
    BY <1>1, <1>3 DEF TypeOK, LedgerOK
  <1>5. ConnectionOK'
    BY <1>1, <1>3 DEF TypeOK, ConnectionOK, CoordIdle, coordVolatile
  <1>6. TurnsInv'
    BY <1>1 DEF TurnsInv, CancelledOnlyWhenAsked, Known
  <1> QED BY <1>4, <1>5, <1>6

LEMMA SessionKeeps ==
    ASSUME Assumptions, TypeOK, TurnsInv, Session
    PROVE  LedgerOK' /\ ConnectionOK' /\ TurnsInv'
  <1>1. CoordIdle
    BY DEF Session
  <1>2. CASE Rejected
    BY <1>1, <1>2, FailKeeps DEF Rejected
  <1> QED BY <1>1, <1>2, HandleExecuteKeeps, AcknowledgeAdmissionKeeps, EventsAcceptedKeeps,
             RecordStopKeeps, CancelTurnKeeps, CommitSignalKeeps DEF Session

(* A step of a turn leaves the connection alone.                            *)
LEMMA TurnOnlyKeeps ==
    ASSUME TypeOK, CoordIdle, TurnOnly
    PROVE  ConnectionOK' /\ UNCHANGED <<node, pubs, stopping, draining, unlinked, wire>>
  BY DEF TurnOnly, wire, TypeOK, ConnectionOK, CoordIdle, coordVolatile

(* A running turn and its command.                                          *)
LEMMA RunningTurn ==
    ASSUME TypeOK, TurnsInv, NEW t \in Tasks, turn[t].step \in {"spawned", "registered", "checked", "started"}
    PROVE  /\ turn[t] \in TurnsOf /\ turn[t].cmd \in Commands /\ TaskOf[turn[t].cmd] = t
           /\ rec[turn[t].cmd] \in Executions /\ rec[turn[t].cmd] # None /\ ~rec[turn[t].cmd].terminal
           /\ turn[t].cancelled => turn[t].cmd \in nstop
           /\ GoodTurn(turn[t], rec, nstop, stopping, t)
  <1>1. GoodTurn(turn[t], rec, nstop, stopping, t) /\ turn[t] \in TurnsOf
    BY LedgerTypes DEF TurnsInv
  <1>2. turn[t].cmd \in Commands /\ rec[turn[t].cmd] # None
    BY <1>1 DEF GoodTurn
  <1>3. rec[turn[t].cmd] \in Executions
    BY <1>2, LedgerTypes DEF Ledgers
  <1> QED BY <1>1, <1>2, <1>3 DEF GoodTurn

(* A turn moves on.                                                         *)
LEMMA TurnStep ==
    ASSUME TypeOK, TurnsInv, NEW t \in Tasks, NEW u \in TurnsOf, turn' = [turn EXCEPT ![t] = u],
           GoodTurn(u, rec, nstop, stopping, t)
    PROVE  turn' \in [Tasks -> TurnsOf] /\ \A s \in Tasks : GoodTurn(turn'[s], rec, nstop, stopping, s)
  BY LedgerTypes DEF TurnsInv

LEMMA RegisterKeeps ==
    ASSUME Assumptions, TypeOK, TurnsInv, CoordIdle, NEW t \in Tasks, Register(t)
    PROVE  LedgerOK' /\ ConnectionOK' /\ TurnsInv'
  <1> DEFINE u == [turn[t] EXCEPT !.step = "registered"]
  <1>1. ConnectionOK' /\ UNCHANGED <<node, pubs, stopping, draining, unlinked, rec, ev, nstop, dirty>>
    BY TurnOnlyKeeps DEF Register, nodeDurable
  <1>2. turn[t].step = "spawned" /\ turn' = [turn EXCEPT ![t] = u]
    BY DEF Register, Step
  <1>3. turn[t] \in TurnsOf /\ GoodTurn(turn[t], rec, nstop, stopping, t)
    BY <1>2, RunningTurn
  <1>4. u \in TurnsOf /\ u.cmd = turn[t].cmd /\ u.step = "registered" /\ u.cancelled = turn[t].cancelled
    BY <1>3 DEF TurnsOf
  <1> HIDE DEF u
  <1>5. GoodTurn(u, rec, nstop, stopping, t)
    BY <1>2, <1>3, <1>4 DEF GoodTurn
  <1>6. turn' \in [Tasks -> TurnsOf] /\ \A s \in Tasks : GoodTurn(turn'[s], rec, nstop, stopping, s)
    BY <1>2, <1>4, <1>5, TurnStep
  <1> QED BY <1>1, <1>6 DEF TypeOK, LedgerOK, TurnsInv, CancelledOnlyWhenAsked, Known

LEMMA CheckStopKeeps ==
    ASSUME Assumptions, TypeOK, TurnsInv, CoordIdle, NEW t \in Tasks, CheckStop(t)
    PROVE  LedgerOK' /\ ConnectionOK' /\ TurnsInv'
  <1> DEFINE u == [turn[t] EXCEPT !.step = "checked", !.cancelled = @ \/ turn[t].cmd \in nstop]
  <1>1. ConnectionOK' /\ UNCHANGED <<node, pubs, stopping, draining, unlinked, rec, ev, nstop, dirty>>
    BY TurnOnlyKeeps DEF CheckStop, nodeDurable
  <1>2. turn[t].step = "registered" /\ turn[t] \in TurnsOf
    BY LedgerTypes DEF CheckStop
  <1>3. turn' = [turn EXCEPT ![t] = u]
    BY <1>2, LedgerTypes DEF CheckStop, TurnsOf
  <1>4. GoodTurn(turn[t], rec, nstop, stopping, t)
    BY <1>2, RunningTurn
  <1>5. /\ u \in TurnsOf /\ u.cmd = turn[t].cmd /\ u.step = "checked"
        /\ u.cancelled = (turn[t].cancelled \/ turn[t].cmd \in nstop)
    BY <1>2 DEF TurnsOf
  <1> HIDE DEF u
  <1>6. GoodTurn(u, rec, nstop, stopping, t)
    <2>1. CASE turn[t].cmd \in nstop
      BY <1>2, <1>4, <1>5, <2>1 DEF GoodTurn
    <2>2. CASE turn[t].cmd \notin nstop
      BY <1>2, <1>4, <1>5, <2>2 DEF GoodTurn
    <2> QED BY <2>1, <2>2
  <1>7. turn' \in [Tasks -> TurnsOf] /\ \A s \in Tasks : GoodTurn(turn'[s], rec, nstop, stopping, s)
    BY <1>3, <1>5, <1>6, TurnStep
  <1> QED BY <1>1, <1>7 DEF TypeOK, LedgerOK, TurnsInv, CancelledOnlyWhenAsked, Known

(* A record that is not the cancelled one is appended for a running turn.   *)
LEMMA AppendedKeeps ==
    ASSUME TypeOK, TurnsInv, NEW c \in Commands, NEW kind \in Kinds \ {"cancelled"},
           ev' = [ev EXCEPT ![c] = Append(@, kind)] \/ ev' = ev, UNCHANGED <<rec, nstop, unlinked>>
    PROVE  ev' \in Records /\ CancelledOnlyWhenAsked'
  <1>1. ev \in Records /\ ev[c] \in Seq(Kinds)
    BY LedgerTypes DEF Records
  <1>2. Append(ev[c], kind) \in Seq(Kinds) /\ Last(Append(ev[c], kind)) = kind
    BY <1>1 DEF Last
  <1>3. ev' \in Records
    BY <1>1, <1>2 DEF Records
  <1> QED BY <1>1, <1>2, <1>3 DEF Records, TurnsInv, CancelledOnlyWhenAsked, Known

LEMMA AppendTurnStartedKeeps ==
    ASSUME Assumptions, TypeOK, TurnsInv, CoordIdle, NEW t \in Tasks, AppendTurnStarted(t)
    PROVE  LedgerOK' /\ ConnectionOK' /\ TurnsInv'
  <1> DEFINE u == [turn[t] EXCEPT !.step = "started"]
  <1>1. ConnectionOK' /\ UNCHANGED <<node, pubs, stopping, draining, unlinked, rec, nstop>> /\ dirty' = TRUE
    BY TurnOnlyKeeps DEF AppendTurnStarted
  <1>2. turn[t].step = "checked" /\ turn' = [turn EXCEPT ![t] = u]
    BY DEF AppendTurnStarted, Step
  <1>3. turn[t] \in TurnsOf /\ turn[t].cmd \in Commands /\ GoodTurn(turn[t], rec, nstop, stopping, t)
    BY <1>2, RunningTurn
  <1>4. u \in TurnsOf /\ u.cmd = turn[t].cmd /\ u.step = "started" /\ u.cancelled = turn[t].cancelled
    BY <1>3 DEF TurnsOf
  <1> HIDE DEF u
  <1>5. GoodTurn(u, rec, nstop, stopping, t)
    BY <1>2, <1>3, <1>4 DEF GoodTurn
  <1>6. turn' \in [Tasks -> TurnsOf] /\ \A s \in Tasks : GoodTurn(turn'[s], rec, nstop, stopping, s)
    BY <1>2, <1>4, <1>5, TurnStep
  <1>7. ev' = [ev EXCEPT ![turn[t].cmd] = Append(@, "turn")] \/ ev' = ev
    BY <1>3, LedgerTypes DEF AppendTurnStarted, Records
  <1>8. "turn" \in Kinds \ {"cancelled"}
    BY DEF Kinds
  <1>9. ev' \in Records /\ CancelledOnlyWhenAsked'
    BY <1>1, <1>3, <1>7, <1>8, AppendedKeeps
  <1>10. LedgerOK'
    BY <1>1, <1>6, <1>9 DEF TypeOK, LedgerOK, Records
  <1> QED BY <1>1, <1>6, <1>9, <1>10 DEF TurnsInv

LEMMA AppendProgressKeeps ==
    ASSUME Assumptions, TypeOK, TurnsInv, CoordIdle, NEW t \in Tasks, AppendProgress(t)
    PROVE  LedgerOK' /\ ConnectionOK' /\ TurnsInv'
  <1>1. ConnectionOK' /\ UNCHANGED <<node, pubs, stopping, draining, unlinked, rec, nstop, turn>> /\ dirty' = TRUE
    BY TurnOnlyKeeps DEF AppendProgress
  <1>2. turn[t].cmd \in Commands
    BY RunningTurn DEF AppendProgress
  <1>3. ev' = [ev EXCEPT ![turn[t].cmd] = Append(@, "progress")]
    BY DEF AppendProgress, InsertEvent
  <1>4. "progress" \in Kinds \ {"cancelled"}
    BY DEF Kinds
  <1>5. ev' \in Records /\ CancelledOnlyWhenAsked'
    BY <1>1, <1>2, <1>3, <1>4, AppendedKeeps
  <1>6. LedgerOK'
    BY <1>1, <1>5 DEF TypeOK, LedgerOK, Records
  <1> QED BY <1>1, <1>5, <1>6 DEF TurnsInv

(* A turn ends with a terminal kind, as cancelled only after a stop or a    *)
(* link that reached nobody.                                                *)
LEMMA EndKinds ==
    ASSUME NEW t \in Tasks, NEW kind \in Outcomes(t) \cup {"failed"} \cup MayCancel(t)
    PROVE  kind \in Terminals /\ (kind = "cancelled" => turn[t].cancelled \/ unlinked[turn[t].cmd] # "no")
  BY DEF Outcomes, MayCancel, Terminals

(* A turn ends: its command becomes terminal with the record of its outcome.*)
LEMMA FinishKeeps ==
    ASSUME Assumptions, TypeOK, TurnsInv, CoordIdle, NEW t \in Tasks, TurnOnly,
           turn[t].step \in {"checked", "started"}, turn' = [turn EXCEPT ![t].step = "done"],
           NEW kind \in Outcomes(t) \cup {"failed"} \cup MayCancel(t), Finish(turn[t].cmd, kind)
    PROVE  LedgerOK' /\ ConnectionOK' /\ TurnsInv'
  <1> DEFINE c == turn[t].cmd
             row == [rec[c] EXCEPT !.terminal = TRUE]
  <1>1. ConnectionOK' /\ UNCHANGED <<node, pubs, stopping, draining, unlinked, nstop>> /\ dirty' = TRUE
    BY TurnOnlyKeeps DEF Finish
  <1>2. /\ turn[t] \in TurnsOf /\ c \in Commands /\ TaskOf[c] = t
        /\ rec[c] \in Executions /\ rec[c] # None /\ ~rec[c].terminal
        /\ turn[t].cancelled => c \in nstop
    BY RunningTurn
  <1>3. ev' = [ev EXCEPT ![c] = Append(@, kind)] /\ rec' = [rec EXCEPT ![c] = row]
    BY DEF Finish, InsertEvent
  <1>4. kind \in Kinds /\ (kind = "cancelled" => c \in nstop \/ unlinked[c] # "no")
    BY <1>2, EndKinds DEF Kinds
  <1>5. turn' = [turn EXCEPT ![t] = [turn[t] EXCEPT !.step = "done"]]
    OBVIOUS
  <1>6. row \in Executions /\ row.order = rec[c].order /\ row.terminal = TRUE
    BY <1>2 DEF Executions
  <1>7. [turn[t] EXCEPT !.step = "done"] \in TurnsOf /\ [turn[t] EXCEPT !.step = "done"].step = "done"
    BY <1>2 DEF TurnsOf
  <1> HIDE DEF row, c
  <1>8. turn' \in [Tasks -> TurnsOf] /\ turn'[t].step = "done" /\ \A s \in Tasks \ {t} : turn'[s] = turn[s]
    BY <1>5, <1>7, LedgerTypes
  <1>9. rec' \in Ledgers /\ rec'[c] = row /\ \A d \in Commands : d # c => rec'[d] = rec[d]
    BY <1>2, <1>3, <1>6, LedgerTypes DEF Ledgers
  <1>10. /\ ev \in Records /\ ev[c] \in Seq(Kinds) /\ ev'[c] = Append(ev[c], kind)
         /\ \A d \in Commands : d # c => ev'[d] = ev[d]
    BY <1>2, <1>3, LedgerTypes DEF Records
  <1>11. Append(ev[c], kind) \in Seq(Kinds) /\ Last(Append(ev[c], kind)) = kind
    BY <1>4, <1>10 DEF Last
  <1>12. ev' \in Records
    BY <1>3, <1>10, <1>11 DEF Records
  <1>13. LedgerOK'
    BY <1>1, <1>8, <1>9, <1>12 DEF TypeOK, LedgerOK, Ledgers, Records
  <1>14. ASSUME NEW s \in Tasks PROVE GoodTurn(turn'[s], rec', nstop, stopping, s)
    <2>1. CASE s = t
      BY <1>8, <2>1 DEF GoodTurn
    <2>2. CASE s # t
      <3>1. GoodTurn(turn[s], rec, nstop, stopping, s) /\ turn'[s] = turn[s]
        BY <1>8, <2>2 DEF TurnsInv
      <3>2. ASSUME NEW d \in Commands, TaskOf[d] = s PROVE rec'[d] = rec[d]
        BY <1>2, <1>9, <2>2, <3>2
      <3> QED BY <3>1, <3>2 DEF GoodTurn
    <2> QED BY <2>1, <2>2
  <1>15. CancelledOnlyWhenAsked'
    <2> SUFFICES ASSUME NEW d \in Commands, rec'[d] # None, ev'[d] # <<>>, Last(ev'[d]) = "cancelled"
                 PROVE  d \in nstop \/ unlinked[d] # "no"
      BY <1>1 DEF CancelledOnlyWhenAsked, Known
    <2>1. CASE d = c
      BY <1>4, <1>10, <1>11, <2>1
    <2>2. CASE d # c
      BY <1>9, <1>10, <2>2 DEF TurnsInv, CancelledOnlyWhenAsked, Known
    <2> QED BY <2>1, <2>2
  <1>16. (stopping # None /\ rec'[stopping] # None /\ ~rec'[stopping].terminal) => stopping \in nstop
    <2>1. CASE stopping = c
      BY <1>6, <1>9, <2>1
    <2>2. CASE stopping # c
      BY <1>9, <2>2 DEF TurnsInv, TypeOK, LedgerOK
    <2> QED BY <2>1, <2>2
  <1> QED BY <1>1, <1>13, <1>14, <1>15, <1>16 DEF TurnsInv

LEMMA JoinKeeps ==
    ASSUME Assumptions, TypeOK, TurnsInv, CoordIdle, NEW t \in Tasks, Join(t)
    PROVE  LedgerOK' /\ ConnectionOK' /\ TurnsInv'
  <1> DEFINE running == [turn EXCEPT ![t] = NoTurn]
  <1>1. ConnectionOK'
    BY DEF Join, wire, TypeOK, ConnectionOK, CoordIdle, coordVolatile
  <1>2. turn' = Scheduled(running, rec) /\ UNCHANGED <<rec, ev, nstop, node, pubs, dirty, stopping, draining, unlinked>>
    BY DEF Join, nodeDurable
  <1>3. running \in [Tasks -> TurnsOf]
    BY LedgerTypes, VolatileTypes
  <1>4. \A s \in Tasks : GoodTurn(running[s], rec, nstop, stopping, s)
    BY <1>3, LedgerTypes DEF TurnsInv, GoodTurn, NoTurn
  <1> HIDE DEF running
  <1>5. turn' \in [Tasks -> TurnsOf] /\ \A s \in Tasks : GoodTurn(turn'[s], rec, nstop, stopping, s)
    BY <1>2, <1>3, <1>4, LedgerTypes, Rescheduled, ScheduledGood
  <1> QED BY <1>1, <1>2, <1>5 DEF TypeOK, LedgerOK, TurnsInv, CancelledOnlyWhenAsked, Known

LEMMA TurnKeeps ==
    ASSUME Assumptions, TypeOK, TurnsInv, NEW t \in Tasks, Turn(t)
    PROVE  LedgerOK' /\ ConnectionOK' /\ TurnsInv'
  <1>1. CoordIdle
    BY DEF Turn
  <1>2. CASE FinishUnstarted(t)
    BY <1>1, <1>2, FinishKeeps DEF FinishUnstarted, Step
  <1>3. CASE FinishTurn(t)
    BY <1>1, <1>3, FinishKeeps DEF FinishTurn, Step
  <1>4. CASE LinkFails(t)
    <2>1. UNCHANGED <<rec, ev, nstop, node, pubs, dirty, turn, stopping, draining, wire>>
      BY <1>4 DEF LinkFails, nodeDurable
    <2>2. /\ unlinked' \in [Commands -> {"no", "held", "lost"}]
          /\ \A c \in Commands : unlinked[c] # "no" => unlinked'[c] # "no"
      BY <1>4 DEF LinkFails, TypeOK, LedgerOK
    <2>3. ConnectionOK'
      BY <1>1, <2>1 DEF wire, TypeOK, ConnectionOK, CoordIdle, coordVolatile
    <2> QED BY <2>1, <2>2, <2>3 DEF TypeOK, LedgerOK, TurnsInv, CancelledOnlyWhenAsked, Known
  <1> QED BY <1>1, <1>2, <1>3, <1>4, RegisterKeeps, CheckStopKeeps, AppendTurnStartedKeeps,
             AppendProgressKeeps, JoinKeeps DEF Turn, Turns

(* The process ends.                                                        *)
LEMMA ExitKeeps ==
    ASSUME TypeOK, TurnsInv, CoordIdle, Exit
    PROVE  LedgerOK' /\ ConnectionOK' /\ TurnsInv'
  <1>1. TurnsInv' /\ unlinked' \in [Commands -> {"no", "held", "lost"}]
    BY TurnsDropped DEF Exit, TypeOK
  <1>2. LedgerOK'
    BY <1>1, VolatileTypes DEF TypeOK, LedgerOK, Exit, nodeDurable
  <1>3. ConnectionOK'
    BY VolatileTypes DEF TypeOK, ConnectionOK, Exit, LinkLost, CoordIdle, coordVolatile
  <1> QED BY <1>1, <1>2, <1>3

LEMMA RestartKeeps ==
    ASSUME Assumptions, TypeOK, TurnsInv, CoordIdle, Restart
    PROVE  LedgerOK' /\ ConnectionOK' /\ TurnsInv'
  <1>1. ConnectionOK'
    BY DEF Restart, wire, TypeOK, ConnectionOK, CoordIdle, coordVolatile
  <1>2. turn' = Scheduled(turn, rec) /\ node' = "up" /\ UNCHANGED <<rec, ev, nstop, pubs, dirty, stopping, draining, unlinked>>
    BY DEF Restart, nodeDurable
  <1>3. \A t \in Tasks : GoodTurn(turn[t], rec, nstop, stopping, t)
    BY DEF TurnsInv
  <1>4. turn' \in [Tasks -> TurnsOf] /\ \A t \in Tasks : GoodTurn(turn'[t], rec, nstop, stopping, t)
    BY <1>2, <1>3, LedgerTypes, Rescheduled, ScheduledGood
  <1> QED BY <1>1, <1>2, <1>4 DEF TypeOK, LedgerOK, TurnsInv, CancelledOnlyWhenAsked, Known

LEMMA ProcessKeeps ==
    ASSUME Assumptions, TypeOK, TurnsInv, Process
    PROVE  LedgerOK' /\ ConnectionOK' /\ TurnsInv'
  <1>1. CoordIdle
    BY DEF Process
  <1>2. CASE Drain
    <2>1. UNCHANGED <<rec, ev, nstop, node, pubs, dirty, turn, stopping, unlinked, wire>> /\ draining' = TRUE
      BY <1>2 DEF Drain, nodeDurable
    <2>2. ConnectionOK'
      BY <1>1, <2>1 DEF wire, TypeOK, ConnectionOK, CoordIdle, coordVolatile
    <2> QED BY <2>1, <2>2 DEF TypeOK, LedgerOK, TurnsInv, CancelledOnlyWhenAsked, Known
  <1>3. CASE Drained
    BY <1>1, <1>3, ExitKeeps DEF Drained
  <1> QED BY <1>1, <1>2, <1>3, RestartKeeps DEF Process

LEMMA ForgetKeeps ==
    ASSUME Assumptions, TypeOK, TurnsInv, CoordIdle, NEW t \in Tasks, ForgetTask(t)
    PROVE  LedgerOK' /\ ConnectionOK' /\ TurnsInv'
  <1> DEFINE mine == {c \in Commands : TaskOf[c] = t}
  <1>1. UNCHANGED <<node, pubs, dirty, turn, stopping, draining, unlinked, wire>> /\ nstop' = nstop \ mine
    BY DEF ForgetTask, nodeVolatile
  <1>2. ConnectionOK'
    BY <1>1 DEF wire, TypeOK, ConnectionOK, CoordIdle, coordVolatile
  <1>3. /\ rec' = [c \in Commands |-> IF c \in mine THEN None ELSE rec[c]]
        /\ ev' = [c \in Commands |-> IF c \in mine THEN <<>> ELSE ev[c]]
        /\ \A c \in mine : rec[c] # None => rec[c].terminal
    BY DEF ForgetTask, Known
  <1>4. rec' \in Ledgers /\ ev' \in Records
    BY <1>3, LedgerTypes, VolatileTypes DEF Ledgers, Records
  <1>5. LedgerOK'
    BY <1>1, <1>4 DEF TypeOK, LedgerOK, Ledgers, Records
  <1>6. ASSUME NEW s \in Tasks PROVE GoodTurn(turn[s], rec', nstop', stopping, s)
    <2> SUFFICES ASSUME turn[s].step \in {"spawned", "registered", "checked", "started"}
                 PROVE  GoodTurn(turn[s], rec', nstop', stopping, s)
      BY DEF GoodTurn
    <2>1. /\ turn[s].cmd \in Commands /\ TaskOf[turn[s].cmd] = s /\ rec[turn[s].cmd] # None
          /\ ~rec[turn[s].cmd].terminal /\ GoodTurn(turn[s], rec, nstop, stopping, s)
      BY RunningTurn
    <2>2. s # t
      BY <1>3, <2>1
    <2>3. \A d \in Commands : TaskOf[d] = s => rec'[d] = rec[d] /\ (d \in nstop' <=> d \in nstop)
      BY <1>1, <1>3, <2>2
    <2> HIDE DEF mine
    <2> QED BY <2>1, <2>3 DEF GoodTurn
  <1>7. CancelledOnlyWhenAsked'
    BY <1>1, <1>3 DEF TurnsInv, CancelledOnlyWhenAsked, Known
  <1>8. (stopping # None /\ rec'[stopping] # None /\ ~rec'[stopping].terminal) => stopping \in nstop'
    BY <1>1, <1>3 DEF TurnsInv, TypeOK, LedgerOK
  <1> QED BY <1>1, <1>2, <1>5, <1>6, <1>7, <1>8 DEF TurnsInv

(* The messages of an activation.                                           *)
LEMMA ActivationTyped ==
    ASSUME Assumptions, TypeOK, NEW owed \in InTaskOrder(pending), NEW cancelled \in SetToSeqs(PendingStops)
    PROVE  LET messages == ActivationMessages(owed, cancelled) IN
           /\ messages \in Seq(Downward)
           /\ \A m \in Range(messages) : \/ \E c \in pending : m = Execute(c)
                                         \/ \E c \in Commands : Admitted(c) /\ m = Stop(c)
  <1> DEFINE A == [i \in DOMAIN owed |-> Execute(owed[i])]
             B == [i \in DOMAIN cancelled |-> Stop(cancelled[i])]
  <1>1. pending \subseteq Commands /\ PendingStops \subseteq Commands /\ IsFiniteSet(Commands)
    BY DEF TypeOK, TablesOK, Assumptions, LedgerAssumption, PendingStops
  <1>2. IsFiniteSet(pending) /\ IsFiniteSet(PendingStops)
    BY <1>1, FS_Subset
  <1>3. owed \in SetToSeqs(pending)
    BY DEF InTaskOrder
  <1>4. owed \in Seq(pending) /\ cancelled \in Seq(PendingStops)
    BY <1>2, <1>3, Enumerated
  <1>5. \A i \in DOMAIN owed : owed[i] \in pending /\ Execute(owed[i]) \in Downward
    BY <1>1, <1>4, Constructors
  <1>6. \A i \in DOMAIN cancelled : cancelled[i] \in PendingStops /\ Stop(cancelled[i]) \in Downward
    BY <1>1, <1>4, Constructors
  <1>7. /\ DOMAIN owed = 1..Len(owed) /\ Len(owed) \in Nat
        /\ DOMAIN cancelled = 1..Len(cancelled) /\ Len(cancelled) \in Nat
    BY <1>4
  <1>8. A \in [1..Len(owed) -> Downward] /\ B \in [1..Len(cancelled) -> Downward]
    BY <1>5, <1>6, <1>7
  <1>9. A \in Seq(Downward) /\ B \in Seq(Downward)
    <2> HIDE DEF A, B
    <2> QED BY <1>7, <1>8
  <1>10. ActivationMessages(owed, cancelled) = A \o B
    BY DEF ActivationMessages
  <1>11. \A m \in Range(A) : \E c \in pending : m = Execute(c)
    BY <1>5 DEF Range
  <1>12. \A m \in Range(B) : \E c \in PendingStops : m = Stop(c)
    BY <1>6 DEF Range
  <1> HIDE DEF A, B
  <1>13. A \o B \in Seq(Downward) /\ Range(A \o B) = Range(A) \cup Range(B)
    BY <1>9, RangeConcat
  <1> QED BY <1>10, <1>11, <1>12, <1>13 DEF PendingStops

LEMMA ConnectKeeps ==
    ASSUME Assumptions, TypeOK, TurnsInv, Connect
    PROVE  TypeOK' /\ TurnsInv'
  <1>1. PICK owed \in InTaskOrder(pending), cancelled \in SetToSeqs(PendingStops) :
          OpenSession(ActivationMessages(owed, cancelled))
    BY DEF Connect
  <1> DEFINE messages == ActivationMessages(owed, cancelled)
  <1>2. /\ live' = lastConn + 1 /\ lastConn' = lastConn + 1 /\ toNode' = messages
        /\ Resume(NoPublications, <<>>, rec, ev)
        /\ UNCHANGED <<rec, ev, nstop, node, dirty, turn, stopping, draining, unlinked>>
    BY <1>1 DEF OpenSession, nodeDurable
  <1>3. link' = live' /\ UNCHANGED <<coordDurable, sends, handling>>
    BY DEF Connect
  <1>4. messages \in Seq(Downward)
    BY ActivationTyped
  <1> HIDE DEF messages
  <1>5. pubs' \in [Commands -> Publications] /\ toCoord' \in Seq(Upward)
    BY <1>2, LedgerTypes, VolatileTypes, Resumed
  <1>6. ConnectionOK'
    BY <1>2, <1>3, <1>4, <1>5 DEF TypeOK, ConnectionOK
  <1>7. LedgerOK'
    BY <1>2, <1>5 DEF TypeOK, LedgerOK
  <1>8. TablesOK'
    BY <1>3 DEF TypeOK, TablesOK, coordDurable
  <1>9. TurnsInv'
    BY <1>2 DEF TurnsInv, CancelledOnlyWhenAsked, Known
  <1> QED BY <1>6, <1>7, <1>8, <1>9 DEF TypeOK

LEMMA SessionLostKeeps ==
    ASSUME TypeOK, TurnsInv, SessionLost
    PROVE  /\ LedgerOK' /\ TurnsInv'
           /\ live' = 0 /\ toNode' = <<>> /\ toCoord' = <<>> /\ UNCHANGED <<lastConn, nodeDurable, stopping>>
  <1>1. /\ live' = 0 /\ toNode' = <<>> /\ toCoord' = <<>> /\ lastConn' = lastConn
        /\ pubs' = NoPublications /\ UNCHANGED <<rec, ev, nstop, node, dirty, turn, stopping, draining, unlinked>>
    BY DEF SessionLost, LinkLost, nodeDurable
  <1>2. LedgerOK'
    BY <1>1, VolatileTypes DEF TypeOK, LedgerOK
  <1>3. TurnsInv'
    BY <1>1 DEF TurnsInv, CancelledOnlyWhenAsked, Known
  <1> QED BY <1>1, <1>2, <1>3 DEF nodeDurable

(* The types and the turns are kept by every step.                          *)
LEMMA NextKeeps ==
    ASSUME Assumptions, TypeOK, TurnsInv, Next
    PROVE  TypeOK' /\ TurnsInv'
  <1>1. CASE Surface
    BY <1>1, SurfaceTyped, NodeIdleKeeps DEF Surface, TypeOK
  <1>2. CASE Coordinator
    BY <1>2, CoordinatorTyped, NodeIdleKeeps DEF Coordinator, TypeOK
  <1>3. CASE Session
    BY <1>3, SessionKeeps, CoordIdleKeeps DEF Session, TypeOK
  <1>4. CASE Process
    BY <1>4, ProcessKeeps, CoordIdleKeeps DEF Process, TypeOK
  <1>5. ASSUME NEW t \in Tasks, Turn(t) PROVE TypeOK' /\ TurnsInv'
    BY <1>5, TurnKeeps, CoordIdleKeeps DEF Turn, TypeOK
  <1>6. ASSUME NEW t \in Tasks, Forget(t) PROVE TypeOK' /\ TurnsInv'
    BY <1>6, ForgetKeeps, CoordIdleKeeps DEF Forget, TypeOK
  <1>7. CASE Connect
    BY <1>7, ConnectKeeps
  <1>8. CASE LoseLink
    <2>1. SessionLost /\ CoordIdle
      BY <1>8 DEF LoseLink, CoordIdle
    <2>2. ConnectionOK'
      BY <2>1, SessionLostKeeps, VolatileTypes DEF TypeOK, ConnectionOK, CoordIdle, coordVolatile
    <2> QED BY <2>1, <2>2, SessionLostKeeps, CoordIdleKeeps DEF TypeOK
  <1>9. CASE NodeCrash
    <2>1. Exit /\ CoordIdle
      BY <1>9 DEF NodeCrash, CoordIdle
    <2> QED BY <2>1, ExitKeeps, CoordIdleKeeps DEF TypeOK
  <1>10. CASE CoordinatorCrash
    <2>1. SessionLost /\ link' = 0 /\ sends' = {} /\ handling' = {} /\ UNCHANGED coordDurable
      BY <1>10 DEF CoordinatorCrash
    <2>2. ConnectionOK'
      <3>1. live' = 0 /\ toNode' = <<>> /\ toCoord' = <<>> /\ lastConn' = lastConn /\ lastConn \in Nat
        BY <2>1, SessionLostKeeps DEF TypeOK, ConnectionOK
      <3> QED BY <2>1, <3>1 DEF ConnectionOK
    <2>3. TablesOK'
      BY <2>1 DEF TypeOK, TablesOK, coordDurable
    <2> QED BY <2>1, <2>2, <2>3, SessionLostKeeps DEF TypeOK
  <1> QED BY <1>1, <1>2, <1>3, <1>4, <1>5, <1>6, <1>7, <1>8, <1>9, <1>10 DEF Next

LEMMA StutterKeeps ==
    ASSUME TypeOK, TurnsInv, UNCHANGED vars
    PROVE  TypeOK' /\ TurnsInv'
  <1>1. NodeIdle /\ CoordIdle /\ UNCHANGED wire
    BY DEF vars, NodeIdle, CoordIdle
  <1>2. ConnectionOK'
    BY <1>1 DEF TypeOK, ConnectionOK, CoordIdle, coordVolatile, wire
  <1> QED BY <1>1, <1>2, NodeIdleKeeps, CoordIdleKeeps DEF TypeOK

(* The coordinator's tables, the node's ledger and the messages between     *)
(* them keep their types, and the turns their invariant.                    *)
THEOREM RcpTyped == ASSUME Assumptions PROVE Spec => [](TypeOK /\ TurnsInv)
  <1>1. Init => TypeOK /\ TurnsInv
    BY InitTyped
  <1>2. TypeOK /\ TurnsInv /\ [Next]_vars => (TypeOK /\ TurnsInv)'
    BY NextKeeps, StutterKeeps
  <1> QED BY <1>1, <1>2, PTL DEF Spec
-----------------------------------------------------------------------------
(* The journal: what messages and rows need of a step *)

(* Rows only grow in what messages say of an admitted command.              *)
Grows(c) ==
    /\ cmd[c] # "new" => cmd'[c] # "new" /\ (cmd'[c] = "admitted" => Admitted(c))
    /\ (Admitted(c) /\ cmd'[c] = "admitted") =>
         /\ rec[c] # None => rec'[c] # None
         /\ (c \in nstop \/ Ended(c)) => (c \in nstop' \/ Ended(c)')
         /\ Len(ev[c]) <= Len(ev'[c]) /\ \A i \in 1..Len(ev[c]) : ev'[c][i] = ev[c][i]
         /\ stream[c].next <= stream'[c].next

LEMMA MessagesTyped ==
    ASSUME TypeOK
    PROVE  Rising \subseteq Upward /\ Falling \subseteq Downward
  <1>1. Range(toCoord) \subseteq Upward /\ Range(toNode) \subseteq Downward
    BY RangeOfSeq DEF TypeOK, ConnectionOK
  <1>2. {h.msg : h \in handling} \subseteq Upward /\ {s.msg : s \in sends} \subseteq Downward
    BY DEF TypeOK, ConnectionOK
  <1> QED BY <1>1, <1>2 DEF Rising, Falling

LEMMA MessagesGrow ==
    ASSUME TypeOK, TypeOK', MessagesInv, \A c \in Commands : Grows(c),
           \A m \in Rising' : m \in Rising \/ Honest(m)',
           \A m \in Falling' : m \in Falling \/ Grounded(m)'
    PROVE  MessagesInv'
  <1>1. ASSUME NEW m \in Rising PROVE Honest(m)'
    <2>1. m \in Upward /\ m.cmd \in Commands /\ (m.type = "publish" => m.from \in Nat /\ m.events \in Seq(Kinds))
      BY MessagesTyped, UpwardFields
    <2>2. Honest(m) /\ Grows(m.cmd)
      BY <2>1 DEF MessagesInv
    <2>3. cmd[m.cmd] # "new" /\ cmd'[m.cmd] # "new" /\ (cmd'[m.cmd] = "admitted" => Admitted(m.cmd))
      BY <2>2 DEF Honest, Grows
    <2>4. CASE cmd'[m.cmd] # "admitted"
      BY <2>3, <2>4 DEF Honest, Admitted
    <2>5. CASE cmd'[m.cmd] = "admitted"
      <3>1. /\ rec[m.cmd] # None => rec'[m.cmd] # None
            /\ (m.cmd \in nstop \/ Ended(m.cmd)) => (m.cmd \in nstop' \/ Ended(m.cmd)')
            /\ Len(ev[m.cmd]) <= Len(ev'[m.cmd])
            /\ \A i \in 1..Len(ev[m.cmd]) : ev'[m.cmd][i] = ev[m.cmd][i]
        BY <2>2, <2>3, <2>5 DEF Grows
      <3>2. /\ m.type \in {"ack_execution", "publish"} => rec'[m.cmd] # None
            /\ m.type = "ack_stop" => m.cmd \in nstop' \/ Ended(m.cmd)'
        BY <2>2, <2>3, <2>5, <3>1 DEF Honest
      <3>3. ASSUME m.type = "publish"
            PROVE  /\ m.from + Len(m.events) <= Len(ev'[m.cmd])
                   /\ \A i \in 1..Len(m.events) : m.events[i] = ev'[m.cmd][m.from + i]
        <4>1. /\ m.from + Len(m.events) <= Len(ev[m.cmd])
              /\ \A i \in 1..Len(m.events) : m.events[i] = ev[m.cmd][m.from + i]
          BY <2>2, <2>3, <2>5, <3>3 DEF Honest
        <4>2. m.from \in Nat /\ Len(m.events) \in Nat /\ Len(ev[m.cmd]) \in Nat /\ Len(ev'[m.cmd]) \in Nat
          BY <2>1, <3>3 DEF TypeOK, LedgerOK
        <4>3. \A i \in 1..Len(m.events) : m.from + i \in 1..Len(ev[m.cmd])
          BY <4>1, <4>2
        <4>4. m.from + Len(m.events) <= Len(ev'[m.cmd])
          BY <3>1, <4>1, <4>2
        <4>5. ASSUME NEW i \in 1..Len(m.events) PROVE m.events[i] = ev'[m.cmd][m.from + i]
          BY <3>1, <4>1, <4>3
        <4> QED BY <4>4, <4>5
      <3> QED BY <2>3, <2>5, <3>2, <3>3 DEF Honest
    <2> QED BY <2>4, <2>5
  <1>2. ASSUME NEW m \in Falling PROVE Grounded(m)'
    <2> SUFFICES ASSUME m.type # "error" PROVE Grounded(m)'
      BY DEF Grounded
    <2>1. m \in Downward /\ m.cmd \in Commands /\ (m.type = "accepted" => m.through \in Int)
      BY MessagesTyped, DownwardFields
    <2>2. Grounded(m) /\ Grows(m.cmd)
      BY <2>1 DEF MessagesInv
    <2>3. cmd[m.cmd] # "new" /\ cmd'[m.cmd] # "new" /\ (cmd'[m.cmd] = "admitted" => Admitted(m.cmd))
      BY <2>2 DEF Grounded, Grows
    <2>4. ASSUME m.type = "accepted", cmd'[m.cmd] = "admitted" PROVE m.through < stream'[m.cmd].next
      <3>1. m.through < stream[m.cmd].next /\ stream[m.cmd].next <= stream'[m.cmd].next
        BY <2>2, <2>3, <2>4 DEF Grounded, Grows, Admitted
      <3>2. stream[m.cmd].next \in Nat /\ stream'[m.cmd].next \in Nat
        BY <2>1 DEF TypeOK, TablesOK
      <3> QED BY <2>1, <2>4, <3>1, <3>2
    <2> QED BY <2>3, <2>4 DEF Grounded, Admitted
  <1> QED BY <1>1, <1>2 DEF MessagesInv

(* What a step that leaves the coordinator's tables alone does to the       *)
(* ledger of a command.                                                     *)
Advances(c) ==
    /\ Admitted(c) =>
         /\ rec[c] # None => rec'[c] # None /\ (rec[c].terminal => rec'[c].terminal)
         /\ c \in nstop => c \in nstop'
         /\ Len(ev[c]) <= Len(ev'[c]) /\ \A i \in 1..Len(ev[c]) : ev'[c][i] = ev[c][i]
         /\ rec'[c] # None => rec'[c].pub <= stream[c].next
         /\ stopping' = c => c \in nstop'
    /\ cmd[c] = "new" => rec'[c] = None /\ c \notin nstop' /\ stopping' # c
    /\ rec'[c] = None => ev'[c] = <<>>

LEMMA RecordedEntries ==
    ASSUME Assumptions, TypeOK, NEW c \in Commands, NEW i \in Recorded(c)
    PROVE  /\ TaskOf[c] \in Tasks /\ journal[TaskOf[c]] \in Seq(Entries)
           /\ i \in 1..Len(journal[TaskOf[c]]) /\ journal[TaskOf[c]][i] \in Entries
           /\ journal[TaskOf[c]][i].seq \in Nat
  <1>1. TaskOf[c] \in Tasks
    BY DEF Assumptions, RcpAssumption
  <1>2. journal[TaskOf[c]] \in Seq(Entries)
    BY <1>1 DEF TypeOK, TablesOK
  <1>3. i \in 1..Len(journal[TaskOf[c]])
    BY <1>2 DEF Recorded
  <1>4. journal[TaskOf[c]][i] \in Entries
    BY <1>2, <1>3
  <1> QED BY <1>1, <1>2, <1>3, <1>4 DEF Entries

LEMMA RowsAdvance ==
    ASSUME Assumptions, TypeOK, TypeOK', JournalInv, UNCHANGED coordDurable, NEW c \in Commands, Advances(c)
    PROVE  Rows(c)' /\ Grows(c)
  <1>1. Rows(c) /\ UNCHANGED <<task, journal, cmd, pending, stream, stops>>
    BY DEF JournalInv, coordDurable
  <1>2. Unheard(c)' /\ Consistent(c)' /\ Gone(c)'
    BY <1>1 DEF Rows, Unheard, Consistent, Gone, Admitted, Advances
  <1>3. Remembered(c)'
    BY <1>1 DEF Rows, Remembered, Admitted, Ended, Advances
  <1>4. Copied(c)'
    <2> SUFFICES ASSUME Admitted(c) PROVE Copied(c)'
      BY <1>1 DEF Copied, Admitted
    <2> DEFINE j == journal[TaskOf[c]]
    <2>1. /\ stream[c].next <= Len(ev[c])
          /\ \A n \in 1..stream[c].next : \E i \in Recorded(c) : j[i].seq = n - 1
          /\ \A i \in Recorded(c) :
               /\ j[i].seq < stream[c].next /\ j[i] = Record(c, j[i].seq, ev[c][j[i].seq + 1])
               /\ \A k \in Recorded(c) : i < k => j[i].seq < j[k].seq
      BY <1>1 DEF Rows, Copied
    <2>2. Recorded(c)' = Recorded(c)
      BY <1>1 DEF Recorded
    <2>3. stream[c].next \in Nat /\ Len(ev[c]) \in Nat /\ Len(ev'[c]) \in Nat
      BY DEF TypeOK, TablesOK, LedgerOK
    <2>4. Len(ev[c]) <= Len(ev'[c]) /\ \A i \in 1..Len(ev[c]) : ev'[c][i] = ev[c][i]
      BY DEF Advances
    <2>5. stream[c].next <= Len(ev'[c])
      BY <2>1, <2>3, <2>4
    <2>6. ASSUME NEW i \in Recorded(c) PROVE j[i] = Record(c, j[i].seq, ev'[c][j[i].seq + 1])
      <3>1. j[i].seq \in Nat
        BY RecordedEntries
      <3>2. j[i].seq + 1 \in 1..Len(ev[c])
        BY <2>1, <2>3, <3>1
      <3>3. ev'[c][j[i].seq + 1] = ev[c][j[i].seq + 1]
        BY <2>4, <3>2
      <3> QED BY <2>1, <3>3
    <2>7. journal'[TaskOf[c]] = j /\ stream'[c].next = stream[c].next
      BY <1>1
    <2> HIDE DEF j
    <2> QED BY <2>1, <2>2, <2>5, <2>6, <2>7 DEF Copied
  <1>5. Grows(c)
    BY <1>1 DEF Grows, Advances, Admitted, Ended, TypeOK, TablesOK
  <1> QED BY <1>2, <1>3, <1>4, <1>5 DEF Rows

LEMMA RowsOf == ASSUME JournalInv, NEW c \in Commands PROVE Rows(c)
  BY DEF JournalInv

(* A faithful message is honest.                                            *)
LEMMA FaithfulHonest ==
    ASSUME NEW m \in Upward, Rows(m.cmd)', Faithful(m, rec', ev')
    PROVE  Honest(m)'
  <1>1. rec'[m.cmd] # None /\ cmd'[m.cmd] # "new"
    BY DEF Rows, Unheard, Faithful
  <1> QED BY <1>1 DEF Faithful, Honest

(* An acknowledged stop that the ledger holds.                              *)
Holds(m) ==
    \E c \in Commands : /\ m = AckStop(c) /\ cmd'[c] # "new"
                        /\ cmd'[c] = "admitted" => c \in nstop' \/ Ended(c)'

(* A step of the node, or of both, that leaves the coordinator's tables.    *)
LEMMA NodeStep ==
    ASSUME Assumptions, TypeOK, TypeOK', JournalInv, UNCHANGED coordDurable,
           sends' \subseteq sends, handling' \subseteq handling,
           \A c \in Commands : Advances(c),
           \A m \in Range(toNode') : m \in Range(toNode) \/ Grounded(m)',
           \A m \in Range(toCoord') : m \in Range(toCoord) \/ Faithful(m, rec', ev') \/ Holds(m)
    PROVE  JournalInv'
  <1>1. \A c \in Commands : Rows(c)' /\ Grows(c)
    BY RowsAdvance
  <1>2. \A m \in Falling' : m \in Falling \/ Grounded(m)'
    BY DEF Falling
  <1>3. ASSUME NEW m \in Range(toCoord'), m \notin Range(toCoord) PROVE Honest(m)'
    <2>1. m \in Upward /\ m.cmd \in Commands
      <3>1. m \in Upward
        BY RangeOfSeq DEF TypeOK, ConnectionOK
      <3> QED BY <3>1, UpwardFields
    <2>2. CASE Faithful(m, rec', ev')
      BY <1>1, <2>1, <2>2, FaithfulHonest
    <2>3. CASE Holds(m)
      <3>1. PICK c \in Commands : /\ m = AckStop(c) /\ cmd'[c] # "new"
                                  /\ cmd'[c] = "admitted" => c \in nstop' \/ Ended(c)'
        BY <2>3 DEF Holds
      <3>2. m.cmd = c /\ m.type = "ack_stop"
        BY <3>1 DEF AckStop
      <3> QED BY <3>1, <3>2 DEF Honest, Admitted
    <2> QED BY <1>3, <2>2, <2>3
  <1>4. \A m \in Rising' : m \in Rising \/ Honest(m)'
    BY <1>3 DEF Rising
  <1>5. MessagesInv'
    BY <1>1, <1>2, <1>4, MessagesGrow DEF JournalInv
  <1> QED BY <1>1, <1>5 DEF JournalInv

(* A ledger that stays, with the same or no stop to pass on.                *)
LEMMA StaysAdvances ==
    ASSUME TypeOK, JournalInv, NEW c \in Commands, UNCHANGED nodeDurable, stopping' \in {stopping, None},
           None \notin Commands
    PROVE  Advances(c)
  <1>1. Rows(c)
    BY RowsOf
  <1>2. UNCHANGED <<rec, ev, nstop>> /\ Len(ev[c]) \in Nat
    BY DEF nodeDurable, TypeOK, LedgerOK
  <1> QED BY <1>1, <1>2 DEF Rows, Unheard, Consistent, Remembered, Advances

LEMMA InitJournal == ASSUME Assumptions PROVE Init => JournalInv
  <1> SUFFICES ASSUME Init PROVE JournalInv
    OBVIOUS
  <1>1. Range(toNode) = {} /\ Range(toCoord) = {} /\ sends = {} /\ handling = {}
    BY DEF Init, CoordInit, Range
  <1>2. MessagesInv
    BY <1>1 DEF MessagesInv, Rising, Falling
  <1>3. ASSUME NEW c \in Commands PROVE Rows(c)
    <2>1. TaskOf[c] \in Tasks /\ None \notin Commands
      BY DEF Assumptions, RcpAssumption
    <2> QED BY <2>1 DEF Init, CoordInit, NodeInit, Rows, Unheard, Consistent, Copied, Remembered, Gone, Admitted
  <1> QED BY <1>2, <1>3 DEF JournalInv
-----------------------------------------------------------------------------
(* The journal: the steps of the node *)

LEMMA EmptyRange == Range(<<>>) = {}
  BY DEF Range

LEMMA CoordIdleFacts ==
    ASSUME CoordIdle
    PROVE  UNCHANGED coordDurable /\ sends' = sends /\ handling' = handling
  BY DEF CoordIdle, coordVolatile

LEMMA NoneIsNoCommand == ASSUME Assumptions PROVE None \notin Commands
  BY DEF Assumptions, RcpAssumption

(* The command a message of the coordinator names was submitted.            *)
LEMMA ReceivedKnown ==
    ASSUME TypeOK, JournalInv, NEW type, Receive(type), type # "error"
    PROVE  Head(toNode).cmd \in Commands /\ cmd[Head(toNode).cmd] # "new" /\ Grounded(Head(toNode))
  <1>1. Head(toNode) \in Range(toNode) /\ Head(toNode).type = type /\ Head(toNode).cmd \in Commands
    BY TakenTyped
  <1>2. Grounded(Head(toNode))
    BY <1>1 DEF JournalInv, MessagesInv, Falling
  <1> QED BY <1>1, <1>2 DEF Grounded

LEMMA TakenRange ==
    ASSUME TypeOK, NEW type, Receive(type), type # "error", Taken
    PROVE  Range(toNode') \subseteq Range(toNode)
  BY TakenTyped DEF Taken

LEMMA FailJournal ==
    ASSUME Assumptions, TypeOK, TypeOK', JournalInv, CoordIdle, Fail
    PROVE  JournalInv'
  <1>1. Range(toNode') = {} /\ Range(toCoord') = {} /\ UNCHANGED <<nodeDurable, stopping>>
    BY EmptyRange DEF Fail
  <1>2. \A c \in Commands : Advances(c)
    BY <1>1, StaysAdvances, NoneIsNoCommand
  <1> QED BY <1>1, <1>2, CoordIdleFacts, NodeStep

LEMMA HandleExecuteJournal ==
    ASSUME Assumptions, TypeOK, TypeOK', JournalInv, CoordIdle, HandleExecute
    PROVE  JournalInv'
  <1> DEFINE c == Head(toNode).cmd
  <1>1. Receive("execute") /\ Taken /\ UNCHANGED <<nstop, node, stopping, draining, unlinked, faults>>
    BY DEF HandleExecute
  <1>2. c \in Commands /\ cmd[c] # "new"
    BY <1>1, ReceivedKnown
  <1>3. Range(toNode') \subseteq Range(toNode)
    BY <1>1, TakenRange
  <1> HIDE DEF c
  <1>4. /\ rec \in Ledgers /\ ev \in Records /\ pubs \in [Commands -> Publications] /\ toCoord \in Seq(Upward)
        /\ rec' \in Ledgers /\ ev' \in Records
    BY LedgerTypes DEF TypeOK, ConnectionOK, LedgerOK, Ledgers, Records
  <1>5. CASE draining
    <2>1. UNCHANGED <<rec, ev, dirty, turn>> /\ Resume(pubs, toCoord, rec, ev)
      BY <1>5 DEF HandleExecute
    <2>2. \A m \in Range(toCoord') : m \in Range(toCoord) \/ Faithful(m, rec', ev')
      BY <1>4, <2>1, Resumed
    <2>3. \A d \in Commands : Advances(d)
      BY <1>1, <2>1, StaysAdvances, NoneIsNoCommand DEF nodeDurable
    <2> QED BY <1>3, <2>2, <2>3, CoordIdleFacts, NodeStep
  <1>6. CASE ~draining
    <2>1. /\ rec' = Admit(c)
          /\ ev' = [ev EXCEPT ![c] = IF rec[c] = None THEN <<"started">> ELSE @]
          /\ Resume(pubs, toCoord, rec', ev')
      BY <1>6 DEF HandleExecute, c
    <2>2. \A m \in Range(toCoord') : m \in Range(toCoord) \/ Faithful(m, rec', ev')
      BY <1>4, <2>1, Resumed
    <2>3. ASSUME NEW d \in Commands, d # c PROVE rec'[d] = rec[d] /\ ev'[d] = ev[d]
      BY <1>4, <2>1, <2>3 DEF Admit, Ledgers, Records
    <2>4. rec[c] = None => rec'[c].pub = 0 /\ rec'[c].terminal = FALSE /\ ev'[c] = <<"started">> /\ ev[c] = <<>>
      <3>1. Rows(c)
        BY <1>2, RowsOf
      <3> QED BY <1>2, <1>4, <2>1, <3>1 DEF Admit, Ledgers, Records, Rows, Consistent
    <2>5. rec[c] # None => rec'[c].pub = rec[c].pub /\ rec'[c].terminal = rec[c].terminal /\ ev'[c] = ev[c]
      BY <1>2, <1>4, <2>1 DEF Admit, Ledgers, Executions, Records
    <2>6. rec'[c] # None
      <3>1. CASE rec[c] = None
        <4>1. NextOrder \in Nat
          BY <1>4, NextOrderAbove
        <4>2. rec'[c] \in Executions
          BY <1>2, <1>4, <2>1, <3>1, <4>1 DEF Admit, Ledgers, Executions
        <4> QED BY <4>2 DEF Assumptions, LedgerAssumption
      <3>2. CASE rec[c] # None
        <4>1. rec'[c] \in Executions
          BY <1>2, <1>4, <2>1, <3>2 DEF Admit, Ledgers, Executions
        <4> QED BY <4>1 DEF Assumptions, LedgerAssumption
      <3> QED BY <3>1, <3>2
    <2>7. ASSUME NEW d \in Commands PROVE Advances(d)
      <3>1. Rows(d) /\ Len(ev[d]) \in Nat /\ stream[d].next \in Nat /\ stopping' = stopping /\ nstop' = nstop
        BY <1>1, RowsOf DEF TypeOK, LedgerOK, TablesOK
      <3>2. CASE d # c
        BY <2>3, <3>1, <3>2 DEF Rows, Unheard, Consistent, Remembered, Advances
      <3>3. CASE d = c /\ rec[c] # None
        BY <1>2, <2>5, <2>6, <3>1, <3>3 DEF Rows, Unheard, Consistent, Remembered, Advances
      <3>4. CASE d = c /\ rec[c] = None
        <4>1. Len(ev[c]) = 0 /\ Len(ev'[c]) = 1
          BY <2>4, <3>4
        <4> QED BY <1>2, <2>4, <2>6, <3>1, <3>4, <4>1 DEF Rows, Unheard, Consistent, Remembered, Advances
      <3> QED BY <3>2, <3>3, <3>4
    <2> QED BY <1>3, <2>2, <2>7, CoordIdleFacts, NodeStep
  <1> QED BY <1>5, <1>6

LEMMA AcknowledgeAdmissionJournal ==
    ASSUME Assumptions, TypeOK, TypeOK', JournalInv, CoordIdle, AcknowledgeAdmission
    PROVE  JournalInv'
  <1> DEFINE c == Head(toNode).cmd
             r == [rec EXCEPT ![c].acked = TRUE]
  <1>1. Receive("acknowledged")
    BY DEF AcknowledgeAdmission
  <1>2. c \in Commands
    BY <1>1, ReceivedKnown
  <1>3. CASE ~pubs[c].open \/ ~pubs[c].admission \/ rec[c] = None
    BY <1>3, FailJournal DEF AcknowledgeAdmission
  <1>4. CASE ~(~pubs[c].open \/ ~pubs[c].admission \/ rec[c] = None)
    <2>1. rec' = r /\ Taken /\ UNCHANGED <<ev, nstop, stopping, toCoord>>
      BY <1>4 DEF AcknowledgeAdmission
    <2>2. Range(toNode') \subseteq Range(toNode)
      BY <1>1, <2>1, TakenRange
    <2> HIDE DEF c
    <2>3. rec \in Ledgers /\ rec[c] \in Executions /\ rec' \in Ledgers
      BY <1>2, <1>4, LedgerTypes DEF Ledgers, TypeOK, LedgerOK
    <2>4. /\ rec'[c] = [rec[c] EXCEPT !.acked = TRUE] /\ \A d \in Commands : d # c => rec'[d] = rec[d]
      BY <1>2, <2>1, <2>3 DEF Ledgers
    <2>5. rec'[c] \in Executions /\ rec'[c].pub = rec[c].pub /\ rec'[c].terminal = rec[c].terminal
      BY <2>3, <2>4 DEF Executions
    <2>6. rec'[c] # None
      BY <2>5 DEF Assumptions, LedgerAssumption
    <2>7. ASSUME NEW d \in Commands PROVE Advances(d)
      <3>1. Rows(d) /\ Len(ev[d]) \in Nat
        BY RowsOf DEF TypeOK, LedgerOK
      <3> QED BY <1>4, <2>1, <2>4, <2>5, <2>6, <3>1 DEF Rows, Unheard, Consistent, Remembered, Advances
    <2> QED BY <2>1, <2>2, <2>7, CoordIdleFacts, NodeStep
  <1> QED BY <1>3, <1>4

LEMMA EventsAcceptedJournal ==
    ASSUME Assumptions, TypeOK, TypeOK', JournalInv, CoordIdle, EventsAccepted
    PROVE  JournalInv'
  <1> DEFINE c == Head(toNode).cmd
             through == Head(toNode).through + 1
             r == [rec EXCEPT ![c].pub = IF @ < through THEN through ELSE @]
  <1>1. Receive("accepted")
    BY DEF EventsAccepted
  <1>2. c \in Commands /\ Grounded(Head(toNode)) /\ Head(toNode).type = "accepted"
    BY <1>1, ReceivedKnown DEF Receive
  <1>3. CASE ~pubs[c].open \/ pubs[c].flight # through \/ rec[c] = None
    BY <1>3, FailJournal DEF EventsAccepted
  <1>4. CASE ~(~pubs[c].open \/ pubs[c].flight # through \/ rec[c] = None)
    <2>1. /\ rec' = r /\ Resume([pubs EXCEPT ![c].flight = 0], toCoord, r, ev)
          /\ Taken /\ UNCHANGED <<ev, nstop, stopping>>
      BY <1>4 DEF EventsAccepted
    <2>2. Range(toNode') \subseteq Range(toNode)
      BY <1>1, <2>1, TakenRange
    <2>3. /\ rec \in Ledgers /\ rec[c] \in Executions /\ rec' \in Ledgers /\ ev \in Records
          /\ pubs \in [Commands -> Publications] /\ toCoord \in Seq(Upward) /\ stream[c].next \in Nat
      BY <1>2, <1>4, LedgerTypes DEF Ledgers, TypeOK, LedgerOK, ConnectionOK, TablesOK
    <2>4. through \in Nat /\ (Admitted(c) => through <= stream[c].next)
      <3>1. through \in Nat
        BY <1>2, <1>4, <2>3 DEF Publications
      <3>2. Head(toNode).through \in Int
        BY <1>1, <1>2, TakenTyped, DownwardFields
      <3> QED BY <1>2, <2>3, <3>1, <3>2 DEF Grounded
    <2> HIDE DEF c, through
    <2>5. /\ rec'[c] = [rec[c] EXCEPT !.pub = IF rec[c].pub < through THEN through ELSE rec[c].pub]
          /\ \A d \in Commands : d # c => rec'[d] = rec[d]
      BY <1>2, <2>1, <2>3 DEF Ledgers
    <2>6. /\ rec'[c] \in Executions /\ rec'[c].terminal = rec[c].terminal
          /\ rec'[c].pub \in {rec[c].pub, through}
      BY <2>3, <2>4, <2>5 DEF Executions
    <2>7. rec'[c] # None
      BY <2>6 DEF Assumptions, LedgerAssumption
    <2>8. [pubs EXCEPT ![c].flight = 0] \in [Commands -> Publications]
      BY <1>2, <2>3 DEF Publications
    <2>9. \A m \in Range(toCoord') : m \in Range(toCoord) \/ Faithful(m, rec', ev')
      <3> HIDE DEF r
      <3> QED BY <2>1, <2>3, <2>8, Resumed
    <2>10. ASSUME NEW d \in Commands PROVE Advances(d)
      <3>1. Rows(d) /\ Len(ev[d]) \in Nat
        BY RowsOf DEF TypeOK, LedgerOK
      <3> QED BY <1>4, <2>1, <2>4, <2>5, <2>6, <2>7, <3>1 DEF Rows, Unheard, Consistent, Remembered, Advances
    <2> QED BY <2>2, <2>9, <2>10, CoordIdleFacts, NodeStep
  <1> QED BY <1>3, <1>4

LEMMA RecordStopJournal ==
    ASSUME Assumptions, TypeOK, TypeOK', JournalInv, CoordIdle, RecordStop
    PROVE  JournalInv'
  <1> DEFINE c == Head(toNode).cmd
  <1>1. Receive("stop") /\ Taken /\ UNCHANGED <<rec, ev, node, pubs, dirty, turn, draining, unlinked, faults>>
    BY DEF RecordStop
  <1>2. c \in Commands /\ cmd[c] # "new" /\ UNCHANGED cmd
    BY <1>1, ReceivedKnown, CoordIdleFacts DEF coordDurable
  <1>3. Range(toNode') \subseteq Range(toNode) /\ toCoord \in Seq(Upward)
    BY <1>1, TakenRange DEF TypeOK, ConnectionOK
  <1>4. CASE Ended(c)
    <2>1. toCoord' = Append(toCoord, AckStop(c)) /\ UNCHANGED <<nstop, stopping>>
      BY <1>4 DEF RecordStop
    <2> HIDE DEF c
    <2>2. AckStop(c) \in Upward
      BY <1>2, Constructors
    <2>3. Range(toCoord') = Range(toCoord) \cup {AckStop(c)}
      BY <1>3, <2>1, <2>2, RangeAppend
    <2>4. Holds(AckStop(c))
      BY <1>1, <1>2, <1>4 DEF Holds, Ended
    <2>5. \A d \in Commands : Advances(d)
      BY <1>1, <2>1, StaysAdvances, NoneIsNoCommand DEF nodeDurable
    <2> QED BY <1>3, <2>3, <2>4, <2>5, CoordIdleFacts, NodeStep
  <1>5. CASE ~Ended(c)
    <2>1. nstop' = nstop \cup {c} /\ stopping' = c /\ UNCHANGED toCoord
      BY <1>5 DEF RecordStop
    <2> HIDE DEF c
    <2>2. ASSUME NEW d \in Commands PROVE Advances(d)
      <3>1. Rows(d) /\ Len(ev[d]) \in Nat
        BY RowsOf DEF TypeOK, LedgerOK
      <3> QED BY <1>1, <1>2, <2>1, <3>1 DEF Rows, Unheard, Consistent, Remembered, Advances
    <2> QED BY <1>3, <2>1, <2>2, CoordIdleFacts, NodeStep
  <1> QED BY <1>4, <1>5

LEMMA CancelTurnJournal ==
    ASSUME Assumptions, TypeOK, TypeOK', JournalInv, CoordIdle, CancelTurn
    PROVE  JournalInv'
  <1>1. stopping \in Commands /\ UNCHANGED <<nodeDurable, toNode, cmd>> /\ stopping' = None
    BY CoordIdleFacts DEF CancelTurn, TypeOK, LedgerOK, coordDurable
  <1>2. AckStop(stopping) \in Upward /\ toCoord \in Seq(Upward)
    BY <1>1, Constructors DEF TypeOK, ConnectionOK
  <1>3. Range(toCoord') \subseteq Range(toCoord) \cup {AckStop(stopping)}
    BY <1>2, RangeAppend DEF CancelTurn
  <1>4. Rows(stopping)
    BY <1>1, RowsOf
  <1>5. cmd[stopping] # "new" /\ (cmd[stopping] = "admitted" => stopping \in nstop)
    BY <1>4 DEF Rows, Unheard, Consistent, Admitted
  <1>6. Holds(AckStop(stopping))
    BY <1>1, <1>5 DEF Holds, nodeDurable
  <1>7. \A d \in Commands : Advances(d)
    BY <1>1, StaysAdvances, NoneIsNoCommand
  <1> QED BY <1>1, <1>3, <1>6, <1>7, CoordIdleFacts, NodeStep

LEMMA CommitSignalJournal ==
    ASSUME Assumptions, TypeOK, TypeOK', JournalInv, CoordIdle, CommitSignal
    PROVE  JournalInv'
  <1>1. Resume(pubs, toCoord, rec, ev) /\ UNCHANGED <<nodeDurable, stopping, toNode>>
    BY DEF CommitSignal
  <1>2. toCoord \in Seq(Upward) /\ UNCHANGED <<rec, ev>>
    BY <1>1 DEF TypeOK, ConnectionOK, nodeDurable
  <1>3. \A m \in Range(toCoord') : m \in Range(toCoord) \/ Faithful(m, rec', ev')
    BY <1>1, <1>2, LedgerTypes, Resumed
  <1>4. \A d \in Commands : Advances(d)
    BY <1>1, StaysAdvances, NoneIsNoCommand
  <1> QED BY <1>1, <1>3, <1>4, CoordIdleFacts, NodeStep

LEMMA SessionJournal ==
    ASSUME Assumptions, TypeOK, TypeOK', JournalInv, Session
    PROVE  JournalInv'
  <1>1. CoordIdle
    BY DEF Session
  <1>2. CASE Rejected
    BY <1>1, <1>2, FailJournal DEF Rejected
  <1> QED BY <1>1, <1>2, HandleExecuteJournal, AcknowledgeAdmissionJournal, EventsAcceptedJournal,
             RecordStopJournal, CancelTurnJournal, CommitSignalJournal DEF Session

(* A step that touches neither the ledger nor the connection.               *)
LEMMA QuietJournal ==
    ASSUME Assumptions, TypeOK, TypeOK', JournalInv, CoordIdle,
           UNCHANGED <<nodeDurable, wire>>, stopping' \in {stopping, None}
    PROVE  JournalInv'
  <1>1. UNCHANGED <<toNode, toCoord>> /\ \A c \in Commands : Advances(c)
    BY StaysAdvances, NoneIsNoCommand DEF wire
  <1> QED BY <1>1, CoordIdleFacts, NodeStep

(* A running turn adds to the records of its command.                       *)
LEMMA WrittenJournal ==
    ASSUME Assumptions, TypeOK, TypeOK', TurnsInv, JournalInv, CoordIdle, UNCHANGED <<wire, nstop, stopping>>,
           NEW c \in Commands, rec[c] # None, NEW kind \in Kinds,
           ev' = [ev EXCEPT ![c] = Append(@, kind)] \/ ev' = ev,
           rec' = [rec EXCEPT ![c].terminal = TRUE] \/ rec' = rec
    PROVE  JournalInv'
  <1>1. rec \in Ledgers /\ ev \in Records /\ rec[c] \in Executions /\ ev[c] \in Seq(Kinds)
    BY LedgerTypes DEF Ledgers, Records
  <1>2. /\ rec'[c] # None /\ rec'[c].pub = rec[c].pub /\ (rec[c].terminal => rec'[c].terminal)
        /\ \A d \in Commands : d # c => rec'[d] = rec[d]
    <2>1. CASE rec' = rec
      BY <2>1
    <2>2. CASE rec' = [rec EXCEPT ![c].terminal = TRUE]
      <3>1. rec'[c] = [rec[c] EXCEPT !.terminal = TRUE] /\ \A d \in Commands : d # c => rec'[d] = rec[d]
        BY <1>1, <2>2 DEF Ledgers
      <3>2. rec'[c] \in Executions /\ rec'[c].pub = rec[c].pub /\ rec'[c].terminal = TRUE
        BY <1>1, <3>1 DEF Executions
      <3> QED BY <3>1, <3>2 DEF Assumptions, LedgerAssumption
    <2> QED BY <2>1, <2>2
  <1>3. /\ \A d \in Commands : d # c => ev'[d] = ev[d]
        /\ Len(ev[c]) <= Len(ev'[c]) /\ \A i \in 1..Len(ev[c]) : ev'[c][i] = ev[c][i]
    <2>1. CASE ev' = ev
      BY <1>1, <2>1
    <2>2. CASE ev' = [ev EXCEPT ![c] = Append(@, kind)]
      <3>1. ev'[c] = Append(ev[c], kind) /\ \A d \in Commands : d # c => ev'[d] = ev[d]
        BY <1>1, <2>2 DEF Records
      <3> QED BY <1>1, <3>1
    <2> QED BY <2>1, <2>2
  <1>4. ASSUME NEW d \in Commands PROVE Advances(d)
    <2>1. Rows(d) /\ Len(ev[d]) \in Nat
      BY RowsOf DEF TypeOK, LedgerOK
    <2> QED BY <1>2, <1>3, <2>1 DEF Rows, Unheard, Consistent, Remembered, Advances
  <1> QED BY <1>4, CoordIdleFacts, NodeStep DEF wire

LEMMA TurnJournal ==
    ASSUME Assumptions, TypeOK, TypeOK', TurnsInv, JournalInv, NEW t \in Tasks, Turn(t)
    PROVE  JournalInv'
  <1>1. CoordIdle
    BY DEF Turn
  <1>2. CASE Register(t) \/ CheckStop(t)
    BY <1>1, <1>2, QuietJournal DEF Register, CheckStop, TurnOnly
  <1>3. CASE LinkFails(t) \/ Join(t)
    BY <1>1, <1>3, QuietJournal DEF LinkFails, Join
  <1>4. CASE AppendTurnStarted(t)
    <2>1. turn[t].cmd \in Commands /\ rec[turn[t].cmd] # None
      BY <1>4, RunningTurn DEF AppendTurnStarted, Step
    <2>2. UNCHANGED <<wire, nstop, stopping, rec>>
      BY <1>4 DEF AppendTurnStarted, TurnOnly
    <2>3. ev' = [ev EXCEPT ![turn[t].cmd] = Append(@, "turn")] \/ ev' = ev
      BY <1>4, <2>1, LedgerTypes DEF AppendTurnStarted, Records
    <2>4. "turn" \in Kinds
      BY DEF Kinds
    <2> QED BY <1>1, <2>1, <2>2, <2>3, <2>4, WrittenJournal
  <1>5. CASE AppendProgress(t)
    <2>1. turn[t].cmd \in Commands /\ rec[turn[t].cmd] # None
      BY <1>5, RunningTurn DEF AppendProgress
    <2>2. UNCHANGED <<wire, nstop, stopping, rec>>
      BY <1>5 DEF AppendProgress, TurnOnly
    <2>3. ev' = [ev EXCEPT ![turn[t].cmd] = Append(@, "progress")] /\ "progress" \in Kinds
      BY <1>5 DEF AppendProgress, InsertEvent, Kinds
    <2> QED BY <1>1, <2>1, <2>2, <2>3, WrittenJournal
  <1>6. ASSUME NEW kind \in Terminals, Finish(turn[t].cmd, kind), TurnOnly,
               turn[t].step \in {"checked", "started"}
        PROVE  JournalInv'
    <2>1. turn[t].cmd \in Commands /\ rec[turn[t].cmd] # None
      BY <1>6, RunningTurn
    <2>2. UNCHANGED <<wire, nstop, stopping>>
      BY <1>6 DEF TurnOnly, Finish
    <2>3. kind \in Kinds
      BY DEF Kinds
    <2>4. ev' = [ev EXCEPT ![turn[t].cmd] = Append(@, kind)] /\ rec' = [rec EXCEPT ![turn[t].cmd].terminal = TRUE]
      BY <1>6 DEF Finish, InsertEvent
    <2> QED BY <1>1, <2>1, <2>2, <2>3, <2>4, WrittenJournal
  <1>7. CASE FinishUnstarted(t)
    BY <1>6, <1>7, EndKinds DEF FinishUnstarted, Step
  <1>8. CASE FinishTurn(t)
    BY <1>6, <1>8, EndKinds DEF FinishTurn, Step
  <1> QED BY <1>2, <1>3, <1>4, <1>5, <1>7, <1>8 DEF Turn, Turns

(* The connection goes away, with or without the process.                   *)
LEMMA LostJournal ==
    ASSUME Assumptions, TypeOK, TypeOK', JournalInv, UNCHANGED coordDurable,
           sends' \subseteq sends, handling' \subseteq handling,
           LinkLost, UNCHANGED nodeDurable, stopping' \in {stopping, None}
    PROVE  JournalInv'
  <1>1. Range(toNode') = {} /\ Range(toCoord') = {}
    BY EmptyRange DEF LinkLost
  <1>2. \A c \in Commands : Advances(c)
    BY StaysAdvances, NoneIsNoCommand
  <1> QED BY <1>1, <1>2, NodeStep

LEMMA ProcessJournal ==
    ASSUME Assumptions, TypeOK, TypeOK', JournalInv, Process
    PROVE  JournalInv'
  <1>1. CoordIdle
    BY DEF Process
  <1>2. CASE Drain
    BY <1>1, <1>2, QuietJournal DEF Drain
  <1>3. CASE Drained
    BY <1>1, <1>3, CoordIdleFacts, LostJournal DEF Drained, Exit
  <1>4. CASE Restart
    BY <1>1, <1>4, QuietJournal DEF Restart
  <1> QED BY <1>2, <1>3, <1>4 DEF Process

LEMMA ForgetJournal ==
    ASSUME Assumptions, TypeOK, TypeOK', JournalInv, NEW t \in Tasks, Forget(t)
    PROVE  JournalInv'
  <1> DEFINE mine == {c \in Commands : TaskOf[c] = t}
  <1>1. CoordIdle /\ task[t] = "deleted" /\ UNCHANGED <<wire, stopping>> /\ nstop' = nstop \ mine
    BY DEF Forget, ForgetTask, nodeVolatile
  <1>2. /\ rec' = [c \in Commands |-> IF c \in mine THEN None ELSE rec[c]]
        /\ ev' = [c \in Commands |-> IF c \in mine THEN <<>> ELSE ev[c]]
    BY DEF Forget, ForgetTask
  <1>3. ASSUME NEW d \in Commands PROVE Advances(d)
    <2>1. Rows(d) /\ Len(ev[d]) \in Nat
      BY RowsOf DEF TypeOK, LedgerOK
    <2>2. CASE d \in mine
      <3>1. ~Admitted(d) /\ rec'[d] = None /\ ev'[d] = <<>>
        BY <1>1, <1>2, <2>1, <2>2 DEF Rows, Consistent
      <3> QED BY <1>1, <2>1, <3>1 DEF Rows, Unheard, Advances
    <2>3. CASE d \notin mine
      <3>1. rec'[d] = rec[d] /\ ev'[d] = ev[d] /\ (d \in nstop' <=> d \in nstop)
        BY <1>1, <1>2, <2>3
      <3> QED BY <1>1, <2>1, <3>1 DEF Rows, Unheard, Consistent, Remembered, Advances
    <2> QED BY <2>2, <2>3
  <1> QED BY <1>1, <1>3, CoordIdleFacts, NodeStep DEF wire

LEMMA ConnectJournal ==
    ASSUME Assumptions, TypeOK, TypeOK', JournalInv, Connect
    PROVE  JournalInv'
  <1>1. PICK owed \in InTaskOrder(pending), cancelled \in SetToSeqs(PendingStops) :
          OpenSession(ActivationMessages(owed, cancelled))
    BY DEF Connect
  <1> DEFINE messages == ActivationMessages(owed, cancelled)
  <1>2. toNode' = messages /\ Resume(NoPublications, <<>>, rec, ev) /\ UNCHANGED <<nodeDurable, stopping>>
    BY <1>1 DEF OpenSession
  <1>3. UNCHANGED <<coordDurable, sends, handling>> /\ UNCHANGED <<cmd, stream, rec, ev>>
    BY <1>2 DEF Connect, coordDurable, nodeDurable
  <1>4. \A m \in Range(messages) : \/ \E c \in pending : m = Execute(c)
                                   \/ \E c \in Commands : Admitted(c) /\ m = Stop(c)
    BY ActivationTyped
  <1> HIDE DEF messages
  <1>5. ASSUME NEW c \in pending PROVE Grounded(Execute(c))'
    <2>1. c \in Commands
      BY DEF TypeOK, TablesOK
    <2>2. cmd[c] # "new"
      BY <2>1, RowsOf DEF Rows, Unheard
    <2> QED BY <1>3, <2>2 DEF Grounded, Execute
  <1>6. ASSUME NEW c \in Commands, Admitted(c) PROVE Grounded(Stop(c))'
    BY <1>3, <1>6 DEF Grounded, Stop, Admitted
  <1>7. \A m \in Range(toNode') : Grounded(m)'
    BY <1>2, <1>4, <1>5, <1>6
  <1>8. \A m \in Range(toCoord') : Faithful(m, rec', ev')
    BY <1>2, <1>3, LedgerTypes, VolatileTypes, Resumed, EmptyRange
  <1>9. \A c \in Commands : Advances(c)
    BY <1>2, StaysAdvances, NoneIsNoCommand
  <1> QED BY <1>3, <1>7, <1>8, <1>9, NodeStep
-----------------------------------------------------------------------------
(* The journal: the requests of surfaces and the steps of the coordinator *)

LEMMA NodeIdleFacts == ASSUME NodeIdle PROVE UNCHANGED <<rec, ev, nstop, stopping, nodeDurable>>
  BY DEF NodeIdle, nodeVars, nodeDurable, nodeVolatile

LEMMA GrowsIdle ==
    ASSUME TypeOK, NodeIdle, NEW c \in Commands,
           cmd[c] # "new" => cmd'[c] # "new" /\ (cmd'[c] = "admitted" => Admitted(c)),
           cmd'[c] = "admitted" => stream[c].next <= stream'[c].next
    PROVE  Grows(c)
  <1>1. UNCHANGED <<rec, ev, nstop>> /\ Len(ev[c]) \in Nat
    BY NodeIdleFacts DEF TypeOK, LedgerOK
  <1> QED BY <1>1 DEF Grows, Ended

LEMMA CoordStep ==
    ASSUME TypeOK, TypeOK', JournalInv, \A c \in Commands : Rows(c)' /\ Grows(c),
           Rising' \subseteq Rising, \A m \in Falling' : m \in Falling \/ Grounded(m)'
    PROVE  JournalInv'
  BY MessagesGrow DEF JournalInv

(* A step that leaves the coordinator's tables and the node alone.          *)
LEMMA TablesStay ==
    ASSUME Assumptions, TypeOK, TypeOK', JournalInv, NodeIdle, UNCHANGED coordDurable
    PROVE  \A c \in Commands : Rows(c)' /\ Grows(c)
  BY NodeIdleFacts, StaysAdvances, NoneIsNoCommand, RowsAdvance

(* The records of a command stay where they are.                            *)
LEMMA CopiedKept ==
    ASSUME NEW c \in Commands, Copied(c), cmd'[c] = cmd[c], stream'[c] = stream[c], ev' = ev,
           Recorded(c)' = Recorded(c),
           \A i \in Recorded(c) : journal'[TaskOf[c]][i] = journal[TaskOf[c]][i]
    PROVE  Copied(c)'
  <1> SUFFICES ASSUME Admitted(c) PROVE Copied(c)'
    BY DEF Copied, Admitted
  <1> DEFINE j == journal[TaskOf[c]]
             k == journal'[TaskOf[c]]
  <1>1. /\ stream[c].next <= Len(ev[c])
        /\ \A n \in 1..stream[c].next : \E i \in Recorded(c) : j[i].seq = n - 1
        /\ \A i \in Recorded(c) :
             /\ j[i].seq < stream[c].next /\ j[i] = Record(c, j[i].seq, ev[c][j[i].seq + 1])
             /\ \A l \in Recorded(c) : i < l => j[i].seq < j[l].seq
    BY DEF Copied
  <1>2. \A i \in Recorded(c) : k[i] = j[i]
    OBVIOUS
  <1> HIDE DEF j
  <1>3. /\ stream[c].next <= Len(ev[c])
        /\ \A n \in 1..stream[c].next : \E i \in Recorded(c) : k[i].seq = n - 1
        /\ \A i \in Recorded(c) :
             /\ k[i].seq < stream[c].next /\ k[i] = Record(c, k[i].seq, ev[c][k[i].seq + 1])
             /\ \A l \in Recorded(c) : i < l => k[i].seq < k[l].seq
    <2> HIDE DEF k
    <2> QED BY <1>1, <1>2
  <1> QED BY <1>3 DEF Copied

LEMMA OpenTaskJournal ==
    ASSUME Assumptions, TypeOK, TypeOK', JournalInv, NodeIdle, NEW t \in Tasks, OpenTask(t)
    PROVE  JournalInv'
  <1>1. /\ task[t] = "new" /\ task' = [task EXCEPT ![t] = "open"]
        /\ UNCHANGED <<journal, cmd, pending, stream, stops, toNode, toCoord, sends, handling>>
    BY DEF OpenTask, coordVolatile, wire
  <1>2. UNCHANGED <<rec, ev, nstop, stopping>>
    BY NodeIdleFacts
  <1>3. ASSUME NEW c \in Commands PROVE Rows(c)' /\ Grows(c)
    <2>1. Rows(c) /\ TaskOf[c] \in Tasks /\ stream[c].next \in Nat
      BY RowsOf DEF Assumptions, RcpAssumption, TypeOK, TablesOK
    <2>2. Grows(c)
      BY <1>1, <2>1, GrowsIdle DEF Admitted
    <2>3. Consistent(c)'
      BY <1>1, <1>2, <2>1 DEF Rows, Consistent, Admitted, TypeOK, TablesOK
    <2>4. Unheard(c)' /\ Gone(c)' /\ Remembered(c)'
      BY <1>1, <1>2, <2>1 DEF Rows, Unheard, Gone, Remembered, Admitted, Ended
    <2>5. Copied(c)'
      <3>1. Recorded(c)' = Recorded(c)
        BY <1>1 DEF Recorded
      <3> QED BY <1>1, <1>2, <2>1, <3>1, CopiedKept DEF Rows
    <2> QED BY <2>2, <2>3, <2>4, <2>5 DEF Rows
  <1> QED BY <1>1, <1>3, CoordStep DEF Rising, Falling

(* A handler is about to send a message about an admitted command.          *)
LEMMA SendsGrounded ==
    ASSUME NEW c \in Commands, cmd'[c] # "new", UNCHANGED <<toNode, toCoord, handling>>,
           NEW m \in {Execute(c), Stop(c)},
           sends' \subseteq sends \cup {[conn |-> link, msg |-> m]}
    PROVE  Rising' \subseteq Rising /\ \A x \in Falling' : x \in Falling \/ Grounded(x)'
  <1>1. Grounded(m)'
    BY DEF Grounded, Execute, Stop
  <1> QED BY <1>1 DEF Rising, Falling

LEMMA SubmitJournal ==
    ASSUME Assumptions, TypeOK, TypeOK', JournalInv, NodeIdle, NEW c \in Commands, Submit(c)
    PROVE  JournalInv'
  <1> DEFINE T == TaskOf[c]
             j == journal[T]
  <1>1. /\ task[T] = "open" /\ cmd[c] = "new"
        /\ cmd' = [cmd EXCEPT ![c] = "admitted"] /\ pending' = pending \cup {c}
        /\ journal' = [journal EXCEPT ![T] = Append(@, Submitted(c))]
        /\ sends' = sends \cup {[conn |-> link, msg |-> Execute(c)]}
        /\ UNCHANGED <<task, stream, stops, handling, toNode, toCoord>>
    BY DEF Submit, InsertCommand, wire
  <1>2. UNCHANGED <<rec, ev, nstop, stopping>>
    BY NodeIdleFacts
  <1>3. T \in Tasks /\ j \in Seq(Entries) /\ Submitted(c) \in Entries
    BY DEF Assumptions, RcpAssumption, TypeOK, TablesOK, Submitted, Entries
  <1>4. cmd'[c] = "admitted" /\ \A d \in Commands : d # c => cmd'[d] = cmd[d]
    BY <1>1 DEF TypeOK, TablesOK
  <1>5. /\ journal'[T] = Append(j, Submitted(c)) /\ \A s \in Tasks : s # T => journal'[s] = journal[s]
    BY <1>1, <1>3 DEF TypeOK, TablesOK
  <1>6. /\ DOMAIN j = 1..Len(j) /\ DOMAIN journal'[T] = 1..Len(j) + 1 /\ Len(j) \in Nat
        /\ \A i \in 1..Len(j) : journal'[T][i] = j[i]
        /\ journal'[T][Len(j) + 1] = Submitted(c)
    BY <1>3, <1>5
  <1>7. Submitted(c).cmd = c /\ Submitted(c).kind = "submitted"
    BY DEF Submitted
  <1> HIDE DEF T, j
  <1>8. ASSUME NEW d \in Commands, d # c PROVE Rows(d)' /\ Grows(d)
    <2>1. Rows(d) /\ TaskOf[d] \in Tasks /\ stream[d].next \in Nat
      BY RowsOf DEF Assumptions, RcpAssumption, TypeOK, TablesOK
    <2>2. Grows(d)
      BY <1>1, <1>4, <1>8, <2>1, GrowsIdle DEF Admitted
    <2>3. Consistent(d)' /\ Remembered(d)'
      BY <1>1, <1>2, <1>4, <1>8, <2>1 DEF Rows, Consistent, Remembered, Admitted, Ended
    <2>4. \A i \in DOMAIN journal'[TaskOf[d]] : journal'[TaskOf[d]][i].cmd = d =>
             i \in DOMAIN journal[TaskOf[d]] /\ journal'[TaskOf[d]][i] = journal[TaskOf[d]][i]
      <3>1. CASE TaskOf[d] # T
        BY <1>5, <2>1, <3>1
      <3>2. CASE TaskOf[d] = T
        <4>1. ASSUME NEW i \in 1..Len(j) + 1, journal'[T][i].cmd = d PROVE i \in 1..Len(j)
          <5>1. i # Len(j) + 1
            BY <1>6, <1>7, <1>8, <4>1
          <5> QED BY <1>6, <5>1
        <4> QED BY <1>6, <3>2, <4>1 DEF j
      <3> QED BY <3>1, <3>2
    <2>5. /\ DOMAIN journal[TaskOf[d]] \subseteq DOMAIN journal'[TaskOf[d]]
          /\ \A i \in DOMAIN journal[TaskOf[d]] : journal'[TaskOf[d]][i] = journal[TaskOf[d]][i]
      <3>1. CASE TaskOf[d] # T
        BY <1>5, <2>1, <3>1
      <3>2. CASE TaskOf[d] = T
        BY <1>6, <3>2 DEF j
      <3> QED BY <3>1, <3>2
    <2>6. Recorded(d)' = Recorded(d)
      BY <2>4, <2>5 DEF Recorded
    <2>7. Copied(d)'
      <3>1. \A i \in Recorded(d) : journal'[TaskOf[d]][i] = journal[TaskOf[d]][i]
        BY <2>5 DEF Recorded
      <3> QED BY <1>1, <1>2, <1>4, <1>8, <2>1, <2>6, <3>1, CopiedKept DEF Rows
    <2>8. Unheard(d)'
      BY <1>1, <1>2, <1>4, <1>8, <2>1, <2>4 DEF Rows, Unheard
    <2>9. Gone(d)'
      <3>1. cmd[d] = "deleted" => TaskOf[d] # T
        BY <1>1, <2>1 DEF Rows, Consistent
      <3> QED BY <1>1, <1>4, <1>5, <1>8, <2>1, <3>1 DEF Rows, Gone
    <2> QED BY <2>2, <2>3, <2>7, <2>8, <2>9 DEF Rows
  <1>9. Rows(c)' /\ Grows(c)
    <2>1. /\ rec[c] = None /\ c \notin nstop /\ stopping # c /\ stream[c] = NoStream /\ stops[c] = "none"
          /\ \A i \in DOMAIN j : j[i].cmd # c
          /\ ev[c] = <<>>
      BY <1>1, RowsOf DEF Rows, Unheard, Consistent, j, T
    <2>2. Grows(c)
      BY <1>1 DEF Grows, Admitted
    <2>3. Unheard(c)' /\ Gone(c)'
      BY <1>4 DEF Unheard, Gone
    <2>4. Consistent(c)' /\ Remembered(c)'
      BY <1>1, <1>2, <1>4, <2>1 DEF Consistent, Remembered, T
    <2>5. Recorded(c)' = {}
      <3>1. \A i \in 1..Len(j) + 1 : journal'[T][i].cmd = c => journal'[T][i].kind = "submitted"
        <4>1. ASSUME NEW i \in 1..Len(j) + 1, journal'[T][i].cmd = c PROVE i = Len(j) + 1
          <5>1. i \notin 1..Len(j)
            BY <1>6, <2>1, <4>1
          <5> QED BY <1>6, <5>1
        <4> QED BY <1>6, <1>7, <4>1
      <3> QED BY <1>6, <3>1 DEF Recorded, T
    <2>6. Copied(c)'
      <3>1. stream'[c].next = 0 /\ Len(ev'[c]) = 0
        BY <1>1, <1>2, <2>1 DEF NoStream
      <3> QED BY <2>5, <3>1 DEF Copied
    <2> QED BY <2>2, <2>3, <2>4, <2>6 DEF Rows
  <1>10. Rising' \subseteq Rising /\ \A x \in Falling' : x \in Falling \/ Grounded(x)'
    BY <1>1, <1>4, SendsGrounded
  <1> QED BY <1>8, <1>9, <1>10, CoordStep

LEMMA AdmitStopJournal ==
    ASSUME Assumptions, TypeOK, TypeOK', JournalInv, NodeIdle, NEW c \in Commands, AdmitStop(c)
    PROVE  JournalInv'
  <1>1. /\ Admitted(c) /\ stops' = [stops EXCEPT ![c] = "recorded"]
        /\ sends' \subseteq sends \cup {[conn |-> link, msg |-> Stop(c)]}
        /\ UNCHANGED <<task, journal, cmd, pending, stream, handling, toNode, toCoord>>
    BY DEF AdmitStop, wire
  <1>2. UNCHANGED <<rec, ev, nstop, stopping>>
    BY NodeIdleFacts
  <1>3. stops'[c] = "recorded" /\ \A d \in Commands : d # c => stops'[d] = stops[d]
    BY <1>1 DEF TypeOK, TablesOK
  <1>4. ASSUME NEW d \in Commands PROVE Rows(d)' /\ Grows(d)
    <2>1. Rows(d) /\ stream[d].next \in Nat
      BY RowsOf DEF TypeOK, TablesOK
    <2>2. Grows(d)
      BY <1>1, <2>1, GrowsIdle DEF Admitted
    <2>3. Consistent(d)' /\ Unheard(d)' /\ Gone(d)' /\ Remembered(d)'
      BY <1>1, <1>2, <1>3, <2>1 DEF Rows, Consistent, Unheard, Gone, Remembered, Admitted, Ended
    <2>4. Copied(d)'
      <3>1. Recorded(d)' = Recorded(d)
        BY <1>1 DEF Recorded
      <3> QED BY <1>1, <1>2, <2>1, <3>1, CopiedKept DEF Rows
    <2> QED BY <2>2, <2>3, <2>4 DEF Rows
  <1>5. cmd'[c] # "new"
    BY <1>1 DEF Admitted
  <1>6. Rising' \subseteq Rising /\ \A x \in Falling' : x \in Falling \/ Grounded(x)'
    BY <1>1, <1>5, SendsGrounded
  <1> QED BY <1>4, <1>6, CoordStep

LEMMA DeleteTaskJournal ==
    ASSUME Assumptions, TypeOK, TypeOK', JournalInv, NodeIdle, NEW t \in Tasks, DeleteTask(t)
    PROVE  JournalInv'
  <1> DEFINE mine == {c \in Commands : TaskOf[c] = t}
  <1>1. /\ task' = [task EXCEPT ![t] = "deleted"]
        /\ journal' = [journal EXCEPT ![t] = <<>>]
        /\ cmd' = [c \in Commands |-> IF c \in mine /\ Admitted(c) THEN "deleted" ELSE cmd[c]]
        /\ pending' = pending \ mine
        /\ stream' = [c \in Commands |-> IF c \in mine THEN NoStream ELSE stream[c]]
        /\ stops' = [c \in Commands |-> IF c \in mine THEN "none" ELSE stops[c]]
        /\ UNCHANGED <<sends, handling, toNode, toCoord>>
    BY DEF DeleteTask, coordVolatile, wire
  <1>2. UNCHANGED <<rec, ev, nstop, stopping>>
    BY NodeIdleFacts
  <1>3. ASSUME NEW c \in Commands PROVE Rows(c)' /\ Grows(c)
    <2>1. Rows(c) /\ TaskOf[c] \in Tasks /\ stream[c].next \in Nat /\ cmd[c] \in {"new", "admitted", "deleted"}
      BY RowsOf DEF Assumptions, RcpAssumption, TypeOK, TablesOK
    <2>2. CASE TaskOf[c] = t
      <3>1. /\ cmd'[c] = (IF Admitted(c) THEN "deleted" ELSE cmd[c]) /\ cmd'[c] # "admitted"
            /\ c \notin pending' /\ stream'[c] = NoStream /\ stops'[c] = "none"
            /\ task'[t] = "deleted" /\ journal'[t] = <<>>
        BY <1>1, <2>1, <2>2 DEF Admitted, TypeOK, TablesOK
      <3>2. Grows(c)
        BY <2>1, <3>1, GrowsIdle DEF Admitted
      <3>3. Consistent(c)' /\ Copied(c)' /\ Remembered(c)' /\ Gone(c)'
        BY <1>2, <2>1, <2>2, <3>1 DEF Rows, Consistent, Copied, Remembered, Gone, Admitted
      <3>4. Unheard(c)'
        <4>1. cmd'[c] = "new" => cmd[c] = "new"
          BY <3>1
        <4> QED BY <1>2, <2>1, <2>2, <3>1, <4>1 DEF Rows, Unheard
      <3> QED BY <3>2, <3>3, <3>4 DEF Rows
    <2>3. CASE TaskOf[c] # t
      <3>1. /\ cmd'[c] = cmd[c] /\ (c \in pending' <=> c \in pending) /\ stream'[c] = stream[c]
            /\ stops'[c] = stops[c] /\ task'[TaskOf[c]] = task[TaskOf[c]]
            /\ journal'[TaskOf[c]] = journal[TaskOf[c]]
        BY <1>1, <2>1, <2>3 DEF TypeOK, TablesOK
      <3>2. Grows(c)
        BY <2>1, <3>1, GrowsIdle DEF Admitted
      <3>3. Consistent(c)' /\ Unheard(c)' /\ Gone(c)' /\ Remembered(c)'
        BY <1>2, <2>1, <3>1 DEF Rows, Consistent, Unheard, Gone, Remembered, Admitted, Ended
      <3>4. Copied(c)'
        <4>1. Recorded(c)' = Recorded(c)
          BY <3>1 DEF Recorded
        <4> QED BY <1>2, <2>1, <3>1, <4>1, CopiedKept DEF Rows
      <3> QED BY <3>2, <3>3, <3>4 DEF Rows
    <2> QED BY <2>2, <2>3
  <1> QED BY <1>1, <1>3, CoordStep DEF Rising, Falling

LEMMA SurfaceJournal ==
    ASSUME Assumptions, TypeOK, TypeOK', JournalInv, Surface
    PROVE  JournalInv'
  <1>1. NodeIdle
    BY DEF Surface
  <1>2. ASSUME NEW c \in Commands, ResubmitExisting(c) \/ RepeatStop(c) PROVE JournalInv'
    <2>1. Admitted(c) /\ UNCHANGED <<coordDurable, handling, toNode, toCoord>>
      BY <1>2 DEF ResubmitExisting, RepeatStop, wire
    <2>2. \E m \in {Execute(c), Stop(c)} : sends' \subseteq sends \cup {[conn |-> link, msg |-> m]}
      BY <1>2 DEF ResubmitExisting, RepeatStop
    <2>3. cmd'[c] # "new"
      BY <2>1 DEF Admitted, coordDurable
    <2>4. Rising' \subseteq Rising /\ \A x \in Falling' : x \in Falling \/ Grounded(x)'
      BY <2>1, <2>2, <2>3, SendsGrounded
    <2> QED BY <1>1, <2>1, <2>4, TablesStay, CoordStep
  <1> QED BY <1>1, <1>2, OpenTaskJournal, DeleteTaskJournal, SubmitJournal, AdmitStopJournal DEF Surface

(* append_contiguous_execution_events: the records a publication adds are   *)
(* the next ones of the ledger.                                             *)
LEMMA AppendedRows ==
    ASSUME Assumptions, TypeOK, TypeOK', JournalInv, NodeIdle, NEW c \in Commands,
           NEW from \in Nat, NEW events \in Seq(Kinds), Fits(c, from, events),
           from + Len(events) <= Len(ev[c]),
           \A i \in 1..Len(events) : events[i] = ev[c][from + i],
           UNCHANGED <<task, cmd, pending, stops>>,
           journal' = [journal EXCEPT ![TaskOf[c]] = @ \o New(c, from, events)],
           \A d \in Commands : d # c => stream'[d] = stream[d],
           stream'[c].next = stream[c].next + Len(New(c, from, events))
    PROVE  \A d \in Commands : Rows(d)' /\ Grows(d)
  <1> DEFINE T == TaskOf[c]
             j == journal[T]
             new == New(c, from, events)
             n == stream[c].next
             known == n - from
  <1>1. UNCHANGED <<rec, ev, nstop, stopping>>
    BY NodeIdleFacts
  <1>2. T \in Tasks /\ j \in Seq(Entries) /\ n \in Nat /\ Len(ev[c]) \in Nat /\ Len(events) \in Nat
    <2>1. T \in Tasks
      BY DEF Assumptions, RcpAssumption
    <2>2. j \in Seq(Entries) /\ n \in Nat
      BY <2>1 DEF TypeOK, TablesOK
    <2>3. ev[c] \in Seq(Kinds)
      BY DEF TypeOK, LedgerOK
    <2> QED BY <2>1, <2>2, <2>3
  <1>3. from <= n /\ Admitted(c)
    BY DEF Fits
  <1>4. /\ new \in Seq(Entries) /\ known \in Nat
        /\ Len(new) = IF Len(events) > known THEN Len(events) - known ELSE 0
        /\ \A i \in 1..Len(new) : known + i \in 1..Len(events) /\ new[i] = Record(c, n + i - 1, events[known + i])
    BY <1>3, NewRecords DEF TypeOK
  <1>5. Rows(c) /\ n <= Len(ev[c])
    BY <1>3, RowsOf DEF Rows, Copied
  <1>6. journal'[T] = j \o new /\ \A s \in Tasks : s # T => journal'[s] = journal[s]
    BY <1>2 DEF TypeOK, TablesOK
  <1>7. Len(new) \in Nat /\ n + Len(new) <= Len(ev[c])
    <2>1. Len(new) \in Nat
      BY <1>4
    <2>2. CASE Len(events) > known
      <3>1. Len(new) = Len(events) - known
        BY <1>4, <2>2
      <3> HIDE DEF new
      <3> QED BY <1>2, <2>1, <3>1
    <2>3. CASE ~(Len(events) > known)
      <3>1. Len(new) = 0
        BY <1>4, <2>3
      <3> HIDE DEF new
      <3> QED BY <1>2, <1>5, <3>1
    <2> QED BY <2>2, <2>3
  <1>8. ASSUME NEW i \in 1..Len(new)
        PROVE  new[i] = Record(c, n + i - 1, ev[c][n + i]) /\ new[i].cmd = c /\ new[i].kind # "submitted"
               /\ new[i].seq = n + i - 1
    <2>1. known + i \in 1..Len(events) /\ new[i] = Record(c, n + i - 1, events[known + i])
      BY <1>4
    <2>2. events[known + i] = ev[c][from + (known + i)] /\ events[known + i] \in Kinds
      BY <2>1
    <2>3. from + (known + i) = n + i
      BY <1>2
    <2>4. new[i] = Record(c, n + i - 1, ev[c][n + i])
      BY <2>1, <2>2, <2>3
    <2> HIDE DEF new, known, n
    <2> QED BY <2>1, <2>2, <2>4 DEF Record, Kinds, Terminals
  <1>9. stream'[c].next = n + Len(new)
    OBVIOUS
  <1>10. from + Len(events) \in Nat
    BY <1>2
  <1> HIDE DEF T, j, new, n, known
  <1>11. /\ DOMAIN j = 1..Len(j) /\ DOMAIN journal'[T] = 1..Len(j) + Len(new) /\ Len(j) \in Nat
         /\ \A i \in 1..Len(j) : journal'[T][i] = j[i]
         /\ \A x \in 1..Len(new) : journal'[T][Len(j) + x] = new[x]
    <2>1. j \in Seq(Entries) /\ new \in Seq(Entries)
      BY <1>2, <1>4
    <2>2. /\ DOMAIN j = 1..Len(j) /\ DOMAIN (j \o new) = 1..Len(j) + Len(new) /\ Len(j) \in Nat
          /\ \A i \in 1..Len(j) : (j \o new)[i] = j[i]
          /\ \A x \in 1..Len(new) : (j \o new)[Len(j) + x] = new[x]
      BY ONLY <2>1, ConcatFacts
    <2>3. journal'[T] = j \o new
      BY <1>6
    <2> QED BY ONLY <2>2, <2>3
  <1>12. \A i \in 1..Len(j) + Len(new) : i \in 1..Len(j) \/ \E x \in 1..Len(new) : i = Len(j) + x
    BY ONLY <1>7, <1>11, Beyond
  <1>13. ASSUME NEW d \in Commands, d # c PROVE Rows(d)' /\ Grows(d)
    <2>1. Rows(d) /\ TaskOf[d] \in Tasks /\ stream[d].next \in Nat /\ stream'[d] = stream[d]
      BY <1>13, RowsOf DEF Assumptions, RcpAssumption, TypeOK, TablesOK
    <2>2. Grows(d)
      BY <2>1, GrowsIdle DEF Admitted
    <2>3. Consistent(d)' /\ Remembered(d)'
      BY <1>1, <2>1 DEF Rows, Consistent, Remembered, Admitted, Ended
    <2>4. \A i \in DOMAIN journal'[TaskOf[d]] : journal'[TaskOf[d]][i].cmd = d =>
             i \in DOMAIN journal[TaskOf[d]] /\ journal'[TaskOf[d]][i] = journal[TaskOf[d]][i]
      <3>1. CASE TaskOf[d] # T
        BY <1>6, <2>1, <3>1
      <3>2. CASE TaskOf[d] = T
        <4>1. ASSUME NEW i \in 1..Len(j) + Len(new), journal'[T][i].cmd = d PROVE i \in 1..Len(j)
          <5>1. \A x \in 1..Len(new) : journal'[T][Len(j) + x].cmd = c
            BY <1>8, <1>11
          <5> QED BY <1>12, <1>13, <4>1, <5>1
        <4> QED BY <1>11, <3>2, <4>1 DEF j
      <3> QED BY <3>1, <3>2
    <2>5. /\ DOMAIN journal[TaskOf[d]] \subseteq DOMAIN journal'[TaskOf[d]]
          /\ \A i \in DOMAIN journal[TaskOf[d]] : journal'[TaskOf[d]][i] = journal[TaskOf[d]][i]
      <3>1. CASE TaskOf[d] # T
        BY <1>6, <2>1, <3>1
      <3>2. CASE TaskOf[d] = T
        BY <1>7, <1>11, <3>2 DEF j
      <3> QED BY <3>1, <3>2
    <2>6. Recorded(d)' = Recorded(d)
      BY <2>4, <2>5 DEF Recorded
    <2>7. Copied(d)'
      <3>1. \A i \in Recorded(d) : journal'[TaskOf[d]][i] = journal[TaskOf[d]][i]
        BY <2>5 DEF Recorded
      <3> QED BY <1>1, <2>1, <2>6, <3>1, CopiedKept DEF Rows
    <2>8. Unheard(d)'
      BY <1>1, <2>1, <2>4 DEF Rows, Unheard
    <2>9. Gone(d)'
      <3>1. cmd[d] = "deleted" => TaskOf[d] # T
        BY <1>3, <1>5, <2>1 DEF Rows, Consistent, T
      <3> QED BY <1>6, <2>1, <3>1 DEF Rows, Gone
    <2> QED BY <2>2, <2>3, <2>7, <2>8, <2>9 DEF Rows
  <1>14. Rows(c)' /\ Grows(c)
    <2>1. Grows(c)
      BY <1>2, <1>7, <1>9, GrowsIdle DEF Admitted, n
    <2>2. Unheard(c)' /\ Gone(c)' /\ Consistent(c)'
      BY <1>1, <1>3, <1>5 DEF Rows, Unheard, Gone, Consistent, Admitted
    <2>3. Remembered(c)'
      <3>1. rec[c] # None => rec[c].pub \in Nat /\ rec[c].pub <= n
        BY <1>3, <1>5, LedgerTypes DEF Rows, Remembered, Ledgers, Executions, n
      <3>2. rec[c] # None => rec[c].pub <= n + Len(new)
        BY <1>2, <1>7, <3>1
      <3> QED BY <1>1, <1>3, <1>5, <1>9, <3>2 DEF Rows, Remembered, Admitted, Ended
    <2>4. /\ \A m \in 1..n : \E i \in Recorded(c) : j[i].seq = m - 1
          /\ \A i \in Recorded(c) :
               /\ j[i].seq < n /\ j[i] = Record(c, j[i].seq, ev[c][j[i].seq + 1])
               /\ \A l \in Recorded(c) : i < l => j[i].seq < j[l].seq
      BY <1>3, <1>5 DEF Rows, Copied, j, n, T
    <2>5. \A i \in Recorded(c) : i \in 1..Len(j) /\ j[i].seq \in Nat
      BY RecordedEntries DEF j, T
    <2>6. \A i : i \in Recorded(c)' <=> i \in Recorded(c) \/ \E x \in 1..Len(new) : i = Len(j) + x
      <3>1. ASSUME NEW i \in 1..Len(j) PROVE i \in Recorded(c)' <=> i \in Recorded(c)
        BY <1>7, <1>11 DEF Recorded, j, T
      <3>2. ASSUME NEW x \in 1..Len(new) PROVE Len(j) + x \in Recorded(c)'
        <4>1. Len(j) + x \in 1..Len(j) + Len(new)
          BY <1>7, <1>11
        <4>2. journal'[T][Len(j) + x].cmd = c /\ journal'[T][Len(j) + x].kind # "submitted"
          BY <1>8, <1>11
        <4> QED BY <1>11, <4>1, <4>2 DEF Recorded, T
      <3>3. ASSUME NEW i \in Recorded(c)' PROVE i \in 1..Len(j) \/ \E x \in 1..Len(new) : i = Len(j) + x
        <4>1. i \in 1..Len(j) + Len(new)
          BY <1>11 DEF Recorded, T
        <4> QED BY <1>12, <4>1
      <3> QED BY <2>5, <3>1, <3>2, <3>3
    <2>7. ASSUME NEW i \in Recorded(c) PROVE journal'[T][i] = j[i]
      BY <1>11, <2>5
    <2>8. ASSUME NEW x \in 1..Len(new)
          PROVE  /\ journal'[T][Len(j) + x].seq = n + x - 1
                 /\ journal'[T][Len(j) + x] = Record(c, n + x - 1, ev[c][n + x])
      BY <1>8, <1>11
    <2>9. ASSUME NEW m \in 1..n + Len(new) PROVE \E i \in Recorded(c)' : journal'[T][i].seq = m - 1
      <3>1. m \in 1..n \/ \E x \in 1..Len(new) : m = n + x
        BY <1>2, <1>7, Beyond
      <3>2. CASE m \in 1..n
        <4>1. PICK i \in Recorded(c) : j[i].seq = m - 1
          BY <2>4, <3>2
        <4> QED BY <2>6, <2>7, <4>1
      <3>3. CASE \E x \in 1..Len(new) : m = n + x
        <4>1. PICK x \in 1..Len(new) : m = n + x
          BY <3>3
        <4>2. Len(j) + x \in Recorded(c)' /\ journal'[T][Len(j) + x].seq = n + x - 1
          BY <2>6, <2>8
        <4>3. n + x - 1 = m - 1
          BY ONLY <1>2, <4>1, x \in 1..Len(new), <1>7
        <4>4. journal'[T][Len(j) + x].seq = m - 1
          BY ONLY <4>2, <4>3
        <4> QED BY ONLY <4>2, <4>4
      <3> QED BY <3>1, <3>2, <3>3
    <2>10. ASSUME NEW i \in Recorded(c)'
           PROVE  /\ journal'[T][i].seq < n + Len(new)
                  /\ journal'[T][i] = Record(c, journal'[T][i].seq, ev[c][journal'[T][i].seq + 1])
      <3>1. CASE i \in Recorded(c)
        <4>1. journal'[T][i] = j[i] /\ j[i].seq \in Nat /\ j[i].seq < n
          BY <2>4, <2>5, <2>7, <3>1
        <4>2. j[i].seq < n + Len(new)
          BY <1>2, <1>7, <4>1
        <4> QED BY <2>4, <3>1, <4>1, <4>2
      <3>2. ASSUME NEW x \in 1..Len(new), i = Len(j) + x
            PROVE  /\ journal'[T][i].seq < n + Len(new)
                   /\ journal'[T][i] = Record(c, journal'[T][i].seq, ev[c][journal'[T][i].seq + 1])
        <4>1. n + x - 1 < n + Len(new) /\ (n + x - 1) + 1 = n + x
          BY ONLY <1>2, <1>7, x \in 1..Len(new)
        <4>2. journal'[T][i].seq = n + x - 1 /\ journal'[T][i] = Record(c, n + x - 1, ev[c][n + x])
          BY <2>8, <3>2
        <4>3. journal'[T][i] = Record(c, n + x - 1, ev[c][(n + x - 1) + 1])
          BY ONLY <4>1, <4>2
        <4>4. journal'[T][i] = Record(c, journal'[T][i].seq, ev[c][journal'[T][i].seq + 1])
          BY ONLY <4>2, <4>3
        <4> QED BY ONLY <4>1, <4>2, <4>4
      <3> QED BY <2>6, <3>1, <3>2
    <2>11. ASSUME NEW i \in Recorded(c)', NEW l \in Recorded(c)', i < l
           PROVE  journal'[T][i].seq < journal'[T][l].seq
      <3>1. CASE i \in Recorded(c) /\ l \in Recorded(c)
        BY <2>4, <2>7, <2>11, <3>1
      <3>2. ASSUME NEW y \in 1..Len(new), l = Len(j) + y, i \in Recorded(c)
            PROVE  journal'[T][i].seq < journal'[T][l].seq
        <4>1. journal'[T][i].seq = j[i].seq /\ j[i].seq \in Nat /\ j[i].seq < n
          BY <2>4, <2>5, <2>7, <3>2
        <4>2. journal'[T][l].seq = n + y - 1
          BY <2>8, <3>2
        <4>3. j[i].seq < n + y - 1
          BY ONLY <1>2, <1>7, <4>1, y \in 1..Len(new)
        <4> QED BY <4>1, <4>2, <4>3
      <3>3. ASSUME NEW x \in 1..Len(new), i = Len(j) + x, l \in Recorded(c) PROVE FALSE
        <4>1. l \in 1..Len(j)
          BY <2>5, <3>3
        <4> QED BY <1>7, <1>11, <2>11, <3>3, <4>1
      <3>4. ASSUME NEW x \in 1..Len(new), NEW y \in 1..Len(new), i = Len(j) + x, l = Len(j) + y
            PROVE  journal'[T][i].seq < journal'[T][l].seq
        <4>1. journal'[T][i].seq = n + x - 1 /\ journal'[T][l].seq = n + y - 1
          BY <2>8, <3>4
        <4>2. x < y
          BY <1>7, <1>11, <2>11, <3>4
        <4>3. n + x - 1 < n + y - 1
          BY ONLY <1>2, <1>7, <4>2, x \in 1..Len(new), y \in 1..Len(new)
        <4> QED BY <4>1, <4>3
      <3> QED BY <2>6, <3>1, <3>2, <3>3, <3>4
    <2>12. Copied(c)'
      BY <1>1, <1>7, <1>9, <2>9, <2>10, <2>11 DEF Copied, T
    <2> QED BY <2>1, <2>2, <2>3, <2>12 DEF Rows
  <1> QED BY <1>13, <1>14

(* The coordinator answers an operation it commits.                         *)
LEMMA AnsweredStep ==
    ASSUME Assumptions, TypeOK, TypeOK', JournalInv, \A c \in Commands : Rows(c)' /\ Grows(c),
           NEW h \in handling, NEW m \in Downward, Grounded(m)', Reply(h, m),
           handling' \subseteq handling, UNCHANGED <<sends, toCoord>>
    PROVE  JournalInv'
  <1>1. \A x \in Range(toNode') : x = m \/ x \in Range(toNode)
    BY Delivered DEF TypeOK, Reply
  <1>2. Rising' \subseteq Rising /\ \A x \in Falling' : x \in Falling \/ Grounded(x)'
    BY <1>1 DEF Rising, Falling
  <1> QED BY <1>2, CoordStep

LEMMA AcknowledgeExecutionJournal ==
    ASSUME Assumptions, TypeOK, TypeOK', JournalInv, NodeIdle, NEW h \in handling, AcknowledgeExecution(h),
           handling' \subseteq handling, UNCHANGED <<sends, toCoord>>
    PROVE  JournalInv'
  <1> DEFINE c == h.msg.cmd
  <1>1. h.msg \in Rising /\ h.msg \in Upward /\ c \in Commands
    BY MessagesTyped, UpwardFields DEF Rising
  <1>2. h.msg.type = "ack_execution" /\ UNCHANGED <<task, journal, cmd, stream, stops>>
    BY DEF AcknowledgeExecution
  <1>3. UNCHANGED <<rec, ev, nstop, stopping>>
    BY NodeIdleFacts
  <1>4. pending' \subseteq pending /\ \A d \in pending : d \in pending' \/ (d = c /\ Admitted(c))
    BY DEF AcknowledgeExecution
  <1>5. Admitted(c) => rec[c] # None
    BY <1>1, <1>2 DEF JournalInv, MessagesInv, Honest
  <1>6. ASSUME NEW d \in Commands PROVE Rows(d)' /\ Grows(d)
    <2>1. Rows(d) /\ stream[d].next \in Nat
      BY RowsOf DEF TypeOK, TablesOK
    <2>2. Grows(d)
      BY <1>2, <2>1, GrowsIdle DEF Admitted
    <2>3. Unheard(d)' /\ Gone(d)' /\ Consistent(d)'
      BY <1>2, <1>3, <1>4, <2>1 DEF Rows, Unheard, Gone, Consistent, Admitted
    <2>4. Remembered(d)'
      BY <1>2, <1>3, <1>4, <1>5, <2>1 DEF Rows, Remembered, Admitted, Ended
    <2>5. Copied(d)'
      <3>1. Recorded(d)' = Recorded(d)
        BY <1>2 DEF Recorded
      <3> QED BY <1>2, <1>3, <2>1, <3>1, CopiedKept DEF Rows
    <2> QED BY <2>2, <2>3, <2>4, <2>5 DEF Rows
  <1>7. \E m \in {Acknowledged(c), Error} : Reply(h, m) /\ (m = Acknowledged(c) => Admitted(c))
    BY DEF AcknowledgeExecution, Acknowledged, Error
  <1>8. Error \in Downward /\ Acknowledged(c) \in Downward /\ Grounded(Error)'
    BY <1>1, Constructors DEF Grounded, Error
  <1>9. Admitted(c) => Grounded(Acknowledged(c))'
    BY <1>2 DEF Grounded, Acknowledged, Admitted
  <1> QED BY <1>6, <1>7, <1>8, <1>9, AnsweredStep

LEMMA AcknowledgeStopJournal ==
    ASSUME Assumptions, TypeOK, TypeOK', JournalInv, NodeIdle, NEW h \in handling, AcknowledgeStop(h),
           handling' \subseteq handling, UNCHANGED <<sends, toCoord>>
    PROVE  JournalInv'
  <1> DEFINE c == h.msg.cmd
  <1>1. h.msg \in Rising /\ h.msg \in Upward /\ c \in Commands
    BY MessagesTyped, UpwardFields DEF Rising
  <1>2. h.msg.type = "ack_stop" /\ UNCHANGED <<task, journal, cmd, pending, stream, toNode>>
    BY DEF AcknowledgeStop
  <1>3. UNCHANGED <<rec, ev, nstop, stopping>>
    BY NodeIdleFacts
  <1>4. \A d \in Commands : stops'[d] = stops[d] \/ (d = c /\ stops[d] = "recorded" /\ stops'[d] = "delivered")
    BY <1>1 DEF AcknowledgeStop, TypeOK, TablesOK
  <1>5. Admitted(c) => c \in nstop \/ Ended(c)
    BY <1>1, <1>2 DEF JournalInv, MessagesInv, Honest
  <1>6. ASSUME NEW d \in Commands PROVE Rows(d)' /\ Grows(d)
    <2>1. Rows(d) /\ stream[d].next \in Nat
      BY RowsOf DEF TypeOK, TablesOK
    <2>2. Grows(d)
      BY <1>2, <2>1, GrowsIdle DEF Admitted
    <2>3. Unheard(d)' /\ Gone(d)' /\ Consistent(d)'
      BY <1>2, <1>3, <1>4, <2>1 DEF Rows, Unheard, Gone, Consistent, Admitted
    <2>4. Remembered(d)'
      BY <1>2, <1>3, <1>4, <1>5, <2>1 DEF Rows, Remembered, Admitted, Ended
    <2>5. Copied(d)'
      <3>1. Recorded(d)' = Recorded(d)
        BY <1>2 DEF Recorded
      <3> QED BY <1>2, <1>3, <2>1, <3>1, CopiedKept DEF Rows
    <2> QED BY <2>2, <2>3, <2>4, <2>5 DEF Rows
  <1>7. Rising' \subseteq Rising /\ Falling' \subseteq Falling
    BY <1>2 DEF Rising, Falling
  <1> QED BY <1>6, <1>7, CoordStep

LEMMA AppendEventsJournal ==
    ASSUME Assumptions, TypeOK, TypeOK', JournalInv, NodeIdle, NEW h \in handling, AppendEvents(h),
           handling' \subseteq handling, UNCHANGED <<sends, toCoord>>
    PROVE  JournalInv'
  <1> DEFINE c == h.msg.cmd
             from == h.msg.from
             events == h.msg.events
             new == New(c, from, events)
             next == stream[c].next + Len(new)
  <1>1. h.msg \in Rising /\ h.msg \in Upward /\ c \in Commands
    BY MessagesTyped, UpwardFields DEF Rising
  <1>2. h.msg.type = "publish" /\ UNCHANGED <<task, cmd, pending, stops, deletes>>
    BY DEF AppendEvents
  <1>3. from \in Nat /\ events \in Seq(Kinds)
    BY <1>1, <1>2, UpwardFields
  <1>4. Honest(h.msg)
    BY <1>1 DEF JournalInv, MessagesInv
  <1>5. CASE Fits(c, from, events)
    <2>1. /\ from + Len(events) <= Len(ev[c])
          /\ \A i \in 1..Len(events) : events[i] = ev[c][from + i]
      BY <1>2, <1>4, <1>5 DEF Honest, Fits
    <2>2. /\ journal' = [journal EXCEPT ![TaskOf[c]] = @ \o new]
          /\ stream' = [stream EXCEPT ![c] =
                 [next |-> next,
                  terminal |-> IF new = <<>> THEN @.terminal ELSE IsTerminal(Last(new).kind)]]
          /\ Reply(h, Accepted(c, next - 1))
      BY <1>5 DEF AppendEvents
    <2>3. Len(new) \in Nat /\ stream[c].next \in Nat
      <3>1. new \in Seq(Entries) /\ stream[c].next \in Nat
        BY <1>1, <1>3, <1>5, NewRecords DEF Fits, TypeOK, TablesOK
      <3> HIDE DEF new
      <3> QED BY <3>1
    <2>4. stream'[c].next = next /\ \A d \in Commands : d # c => stream'[d] = stream[d]
      <3> HIDE DEF next, new, c
      <3> QED BY <1>1, <2>2 DEF TypeOK, TablesOK
    <2>5. \A d \in Commands : Rows(d)' /\ Grows(d)
      <3>1. stream'[c].next = stream[c].next + Len(New(c, from, events))
        BY <2>4
      <3> HIDE DEF c, from, events
      <3> QED BY <1>1, <1>2, <1>3, <1>5, <2>1, <2>2, <2>4, <3>1, AppendedRows
    <2> HIDE DEF next, new
    <2>6. PICK k \in Nat : k = next
      BY <2>3 DEF next
    <2>7. k - 1 \in Int /\ k - 1 < k /\ stream'[c].next = k /\ Reply(h, Accepted(c, k - 1))
      BY <2>2, <2>4, <2>6
    <2>8. Accepted(c, k - 1) \in Downward
      BY <1>1, <2>7, Constructors
    <2>9. Grounded(Accepted(c, k - 1))'
      BY <1>2, <1>4, <2>7 DEF Grounded, Accepted, Honest
    <2> QED BY <2>5, <2>7, <2>8, <2>9, AnsweredStep
  <1>6. CASE ~Fits(c, from, events)
    <2>1. Reply(h, Error) /\ UNCHANGED coordDurable
      BY <1>2, <1>6 DEF AppendEvents, coordDurable
    <2>2. Error \in Downward /\ Grounded(Error)'
      BY DEF Downward, Grounded, Error
    <2> QED BY <2>1, <2>2, TablesStay, AnsweredStep
  <1> QED BY <1>5, <1>6

LEMMA CoordinatorJournal ==
    ASSUME Assumptions, TypeOK, TypeOK', JournalInv, Coordinator
    PROVE  JournalInv'
  <1>1. NodeIdle
    BY DEF Coordinator
  <1>2. CASE SendToNode
    <2>1. PICK s \in sends : /\ sends' = sends \ {s}
                             /\ toNode' = IF s.conn = live THEN Append(toNode, s.msg) ELSE toNode
                             /\ UNCHANGED <<coordDurable, handling, toCoord>>
      BY <1>2 DEF SendToNode
    <2>2. s.msg \in Downward
      BY DEF TypeOK, ConnectionOK
    <2>3. \A x \in Range(toNode') : x = s.msg \/ x \in Range(toNode)
      BY <2>1, <2>2, Delivered DEF TypeOK
    <2>4. Rising' \subseteq Rising /\ Falling' \subseteq Falling
      BY <2>1, <2>3 DEF Rising, Falling
    <2> QED BY <1>1, <2>1, <2>4, TablesStay, CoordStep
  <1>3. CASE TakeOperation
    <2>1. /\ toCoord # <<>> /\ toCoord' = Tail(toCoord) /\ toCoord \in Seq(Upward)
          /\ handling' = {[conn |-> live, msg |-> Head(toCoord)]} \cup handling
          /\ UNCHANGED <<coordDurable, sends, toNode>>
      BY <1>3 DEF TakeOperation, TypeOK, ConnectionOK
    <2>2. Range(Tail(toCoord)) \subseteq Range(toCoord) /\ Head(toCoord) \in Range(toCoord)
      BY <2>1, RangeTail
    <2>3. Rising' \subseteq Rising /\ Falling' \subseteq Falling
      BY <2>1, <2>2 DEF Rising, Falling
    <2> QED BY <1>1, <2>1, <2>3, TablesStay, CoordStep
  <1>4. CASE HandleOperation
    <2>1. PICK h \in handling :
            /\ AcknowledgeExecution(h) \/ AcknowledgeStop(h) \/ AppendEvents(h)
            /\ handling' = handling \ {h}
            /\ UNCHANGED <<link, sends, resent, live, lastConn, toCoord, faults>>
      BY <1>4 DEF HandleOperation
    <2>2. handling' \subseteq handling /\ UNCHANGED <<sends, toCoord>>
      BY <2>1
    <2> QED BY <1>1, <2>1, <2>2, AcknowledgeExecutionJournal, AcknowledgeStopJournal, AppendEventsJournal
  <1>5. CASE CleanupConnection
    <2>1. UNCHANGED <<coordDurable, sends, handling, toNode, toCoord>>
      BY <1>5 DEF CleanupConnection, wire
    <2>2. Rising' \subseteq Rising /\ Falling' \subseteq Falling
      BY <2>1 DEF Rising, Falling
    <2> QED BY <1>1, <2>1, <2>2, TablesStay, CoordStep
  <1> QED BY <1>2, <1>3, <1>4, <1>5 DEF Coordinator
-----------------------------------------------------------------------------
(* Every step, and the theorems *)

LEMMA NextJournal ==
    ASSUME Assumptions, TypeOK, TypeOK', TurnsInv, JournalInv, Next
    PROVE  JournalInv'
  <1>1. CASE LoseLink
    <2>1. LinkLost /\ UNCHANGED <<coordDurable, sends, handling, nodeDurable, stopping>>
      BY <1>1 DEF LoseLink, SessionLost, coordVolatile
    <2> QED BY <2>1, LostJournal
  <1>2. CASE NodeCrash
    <2>1. LinkLost /\ UNCHANGED <<coordDurable, sends, handling, nodeDurable>> /\ stopping' = None
      BY <1>2 DEF NodeCrash, Exit, coordVolatile
    <2> QED BY <2>1, LostJournal
  <1>3. CASE CoordinatorCrash
    <2>1. /\ LinkLost /\ UNCHANGED <<coordDurable, nodeDurable, stopping>>
          /\ sends' \subseteq sends /\ handling' \subseteq handling
      BY <1>3 DEF CoordinatorCrash, SessionLost
    <2> QED BY <2>1, LostJournal
  <1> QED BY <1>1, <1>2, <1>3, SurfaceJournal, CoordinatorJournal, SessionJournal, ProcessJournal,
             TurnJournal, ForgetJournal, ConnectJournal DEF Next

LEMMA StutterJournal ==
    ASSUME Assumptions, TypeOK, TypeOK', JournalInv, UNCHANGED vars
    PROVE  JournalInv'
  <1>1. CoordIdle /\ UNCHANGED <<nodeDurable, wire, stopping>>
    BY DEF vars, CoordIdle, nodeVars, nodeVolatile
  <1> QED BY <1>1, QuietJournal

(* The invariant of the two ledgers and the messages between them.          *)
THEOREM JournalInvariant == ASSUME Assumptions PROVE Spec => []JournalInv
  <1>1. Init => JournalInv
    BY InitJournal
  <1>2. TypeOK /\ TypeOK' /\ TurnsInv /\ JournalInv /\ [Next]_vars => JournalInv'
    BY NextJournal, StutterJournal
  <1> QED BY <1>1, <1>2, RcpTyped, PTL DEF Spec

(* The journal holds a node's records of a command once, in their order,    *)
(* without a gap and never beyond the ledger, whatever was resent           *)
(* (append_contiguous_execution_events).                                    *)
THEOREM JournalFollowsLedger == ASSUME Assumptions PROVE Spec => []JournalIsPrefix
  <1>1. JournalInv => JournalIsPrefix
    BY DEF JournalInv, Rows, Copied, Recorded, JournalIsPrefix
  <1> QED BY <1>1, JournalInvariant, PTL

(* An admitted command is owed to the node until its ledger has it, and the *)
(* node's cursor never passes what the coordinator committed                *)
(* (pending_executions, EventsAccepted).                                    *)
THEOREM NothingIsForgotten == ASSUME Assumptions PROVE Spec => []NothingForgotten
  <1>1. JournalInv => NothingForgotten
    BY DEF JournalInv, Rows, Remembered, NothingForgotten
  <1> QED BY <1>1, JournalInvariant, PTL

(* The coordinator gives up a stop only when the node has recorded it or    *)
(* has ended the command (acknowledge_stop), and a stop the node recorded   *)
(* cancels every turn that checked for it (RunningTurns, stop_requested).   *)
THEOREM StopsArrive == ASSUME Assumptions PROVE Spec => [](DeliveredStopIsHeld /\ NoLostStop)
  <1>1. JournalInv => DeliveredStopIsHeld
    BY DEF JournalInv, Rows, Remembered, DeliveredStopIsHeld
  <1>2. TurnsInv => NoLostStop
    BY DEF TurnsInv, GoodTurn, NoLostStop
  <1> QED BY <1>1, <1>2, JournalInvariant, RcpTyped, PTL

(* A command ends as cancelled only after a stop for it, and no turn runs   *)
(* while an earlier command of its task is unfinished (schedule_pending).   *)
THEOREM TurnsAreOrderly == ASSUME Assumptions PROVE Spec => [](CancelledOnlyWhenAsked /\ TurnsInAdmissionOrder)
  <1>1. TurnsInv => CancelledOnlyWhenAsked /\ TurnsInAdmissionOrder
    BY DEF TurnsInv, GoodTurn, TurnsInAdmissionOrder, Running, Known, Ended
  <1> QED BY <1>1, RcpTyped, PTL

(* Nothing of a deleted task comes back, although operations of the node    *)
(* that were taken before the deletion are committed after it.              *)
THEOREM DeletedTasksStayEmpty == ASSUME Assumptions PROVE Spec => []NothingOutlivesTask
  <1>1. JournalInv => NothingOutlivesTask
    BY DEF JournalInv, Rows, Gone, NothingOutlivesTask
  <1> QED BY <1>1, JournalInvariant, PTL

(* The terminal record of a command in the ledger and in the journal.       *)
LedgerFinal(c) == (Ended(c) /\ rec'[c] # None) => ev'[c] = ev[c]
JournalFinal(c) == (Settled(c) /\ cmd'[c] = "admitted") => stream'[c] = stream[c]

LEMMA TurnFinal ==
    ASSUME TypeOK, TurnsInv, NEW t \in Tasks, Turn(t), NEW c \in Commands
    PROVE  LedgerFinal(c)
  <1>1. ASSUME turn[t].step \in {"checked", "started"},
               \E q : ev' = [ev EXCEPT ![turn[t].cmd] = q]
        PROVE  LedgerFinal(c)
    <2>1. turn[t].cmd \in Commands /\ ~Ended(turn[t].cmd)
      BY <1>1, RunningTurn DEF Ended
    <2> QED BY <1>1, <2>1 DEF LedgerFinal, TypeOK, LedgerOK
  <1>2. CASE Register(t) \/ CheckStop(t) \/ LinkFails(t) \/ Join(t)
    BY <1>2 DEF Register, CheckStop, LinkFails, Join, nodeDurable, LedgerFinal
  <1>3. CASE AppendTurnStarted(t)
    BY <1>1, <1>3 DEF AppendTurnStarted, Step
  <1>4. CASE AppendProgress(t)
    BY <1>1, <1>4 DEF AppendProgress, InsertEvent
  <1>5. CASE FinishUnstarted(t)
    BY <1>1, <1>5 DEF FinishUnstarted, Step, Finish, InsertEvent
  <1>6. CASE FinishTurn(t)
    BY <1>1, <1>6 DEF FinishTurn, Step, Finish, InsertEvent
  <1> QED BY <1>2, <1>3, <1>4, <1>5, <1>6 DEF Turn, Turns

LEMMA SessionFinal ==
    ASSUME TypeOK, JournalInv, Session, NEW c \in Commands
    PROVE  LedgerFinal(c)
  <1>1. CASE HandleExecute
    <2>1. Head(toNode).cmd \in Commands
      BY <1>1, ReceivedKnown DEF HandleExecute
    <2>2. ev' = ev \/ ev' = [ev EXCEPT ![Head(toNode).cmd] = IF rec[Head(toNode).cmd] = None THEN <<"started">> ELSE @]
      BY <1>1 DEF HandleExecute
    <2> QED BY <2>1, <2>2 DEF LedgerFinal, Ended, TypeOK, LedgerOK
  <1>2. CASE AcknowledgeAdmission \/ EventsAccepted \/ Rejected \/ RecordStop \/ CancelTurn \/ CommitSignal
    <2>1. ev' = ev
      BY <1>2 DEF AcknowledgeAdmission, EventsAccepted, Rejected, Fail, RecordStop, CancelTurn, CommitSignal, nodeDurable
    <2> QED BY <2>1 DEF LedgerFinal
  <1> QED BY <1>1, <1>2 DEF Session

LEMMA NextLedgerFinal ==
    ASSUME TypeOK, TurnsInv, JournalInv, Next, NEW c \in Commands
    PROVE  LedgerFinal(c)
  <1>1. CASE Surface \/ Coordinator
    BY <1>1, NodeIdleFacts DEF Surface, Coordinator, LedgerFinal
  <1>2. CASE Process
    BY <1>2 DEF Process, Drain, Drained, Restart, Exit, nodeDurable, LedgerFinal
  <1>3. ASSUME NEW t \in Tasks, Forget(t) PROVE LedgerFinal(c)
    BY <1>3 DEF Forget, ForgetTask, LedgerFinal
  <1>4. CASE Connect
    BY <1>4 DEF Connect, OpenSession, nodeDurable, LedgerFinal
  <1>5. CASE LoseLink \/ NodeCrash \/ CoordinatorCrash
    BY <1>5 DEF LoseLink, NodeCrash, CoordinatorCrash, SessionLost, Exit, nodeDurable, LedgerFinal
  <1> QED BY <1>1, <1>2, <1>3, <1>4, <1>5, SessionFinal, TurnFinal DEF Next

LEMMA AppendFinal ==
    ASSUME TypeOK, NEW h \in handling, AppendEvents(h), NEW c \in Commands
    PROVE  JournalFinal(c)
  <1> DEFINE d == h.msg.cmd
             from == h.msg.from
             events == h.msg.events
             new == New(d, from, events)
             n == stream[d].next
  <1>1. d \in Commands /\ from \in Nat /\ events \in Seq(Kinds)
    BY UpwardFields DEF AppendEvents, TypeOK, ConnectionOK
  <1>2. CASE ~Fits(d, from, events)
    BY <1>2 DEF AppendEvents, JournalFinal
  <1>3. CASE Fits(d, from, events) /\ Settled(d)
    <2>1. n \in Nat /\ Len(events) \in Nat /\ from + Len(events) <= n /\ from <= n
      <3>1. n \in Nat /\ Len(events) \in Nat /\ from <= n
        BY <1>1, <1>3 DEF Fits, TypeOK, TablesOK
      <3>2. ~(from + Len(events) > n)
        BY <1>3 DEF Fits, Settled
      <3> HIDE DEF n, events, from
      <3> QED BY <1>1, <3>1, <3>2
    <2>2. ~(Len(events) > n - from)
      <3> HIDE DEF n, events, from
      <3> QED BY <1>1, <2>1
    <2>3. new \in Seq(Entries) /\ Len(new) = 0
      BY <1>1, <2>1, <2>2, NewRecords DEF TypeOK
    <2> HIDE DEF new
    <2>4. new = <<>> /\ n + Len(new) = n
      BY <2>1, <2>3
    <2>5. stream' = [stream EXCEPT ![d] = [next |-> n + Len(new),
                        terminal |-> IF new = <<>> THEN @.terminal ELSE IsTerminal(Last(new).kind)]]
      BY <1>3 DEF AppendEvents, new
    <2>6. stream' = [stream EXCEPT ![d] = [next |-> n, terminal |-> stream[d].terminal]]
      BY <1>1, <2>4, <2>5 DEF TypeOK, TablesOK
    <2>7. stream[d] = [next |-> n, terminal |-> stream[d].terminal]
      BY <1>1 DEF TypeOK, TablesOK
    <2> QED BY <1>1, <2>6, <2>7 DEF JournalFinal, TypeOK, TablesOK
  <1>4. CASE Fits(d, from, events) /\ ~Settled(d)
    <2>1. \E q : stream' = [stream EXCEPT ![d] = q]
      BY <1>4 DEF AppendEvents
    <2> QED BY <1>1, <1>4, <2>1 DEF JournalFinal, TypeOK, TablesOK
  <1> QED BY <1>2, <1>3, <1>4

LEMMA NextJournalFinal ==
    ASSUME Assumptions, TypeOK, JournalInv, Next, NEW c \in Commands
    PROVE  JournalFinal(c)
  <1>1. CASE Surface
    <2>1. ASSUME NEW t \in Tasks, DeleteTask(t) PROVE JournalFinal(c)
      <3>1. /\ cmd'[c] = IF TaskOf[c] = t /\ Admitted(c) THEN "deleted" ELSE cmd[c]
            /\ stream'[c] = IF TaskOf[c] = t THEN NoStream ELSE stream[c]
        BY <2>1 DEF DeleteTask
      <3>2. Settled(c) /\ cmd'[c] = "admitted" => TaskOf[c] # t
        BY <3>1 DEF Admitted
      <3> QED BY <3>1, <3>2 DEF JournalFinal
    <2>2. ASSUME NEW t \in Tasks, OpenTask(t) PROVE JournalFinal(c)
      BY <2>2 DEF OpenTask, JournalFinal
    <2>3. ASSUME NEW d \in Commands, Submit(d) \/ ResubmitExisting(d) \/ AdmitStop(d) \/ RepeatStop(d)
          PROVE  JournalFinal(c)
      BY <2>3 DEF Submit, ResubmitExisting, AdmitStop, RepeatStop, coordDurable, JournalFinal
    <2> QED BY <1>1, <2>1, <2>2, <2>3 DEF Surface
  <1>2. CASE Coordinator
    <2>1. CASE SendToNode \/ TakeOperation \/ CleanupConnection
      BY <2>1 DEF SendToNode, TakeOperation, CleanupConnection, coordDurable, JournalFinal
    <2>2. CASE HandleOperation
      <3>1. PICK h \in handling : AcknowledgeExecution(h) \/ AcknowledgeStop(h) \/ AppendEvents(h)
        BY <2>2 DEF HandleOperation
      <3>2. CASE AcknowledgeExecution(h) \/ AcknowledgeStop(h)
        BY <3>2 DEF AcknowledgeExecution, AcknowledgeStop, JournalFinal
      <3> QED BY <3>1, <3>2, AppendFinal
    <2> QED BY <1>2, <2>1, <2>2 DEF Coordinator
  <1>3. CASE CoordIdle \/ Connect \/ LoseLink \/ NodeCrash \/ CoordinatorCrash
    BY <1>3 DEF CoordIdle, Connect, LoseLink, NodeCrash, CoordinatorCrash, coordDurable, JournalFinal
  <1> QED BY <1>1, <1>2, <1>3 DEF Next, Session, Process, Turn, Forget

(* What a command's terminal record says never changes, and nothing follows *)
(* it: neither in the ledger nor in the journal (finish_execution,          *)
(* append_contiguous_execution_events).                                     *)
THEOREM TerminalsAreFinal == ASSUME Assumptions PROVE Spec => RcpSteps
  <1>1. TypeOK /\ TurnsInv /\ JournalInv /\ [Next]_vars => [TerminalIsFinal]_vars
    BY NextLedgerFinal, NextJournalFinal DEF TerminalIsFinal, LedgerFinal, JournalFinal
  <1> QED BY <1>1, RcpTyped, JournalInvariant, PTL DEF Spec, RcpSteps
-----------------------------------------------------------------------------
(* The journal of a task, command after command *)

(* The node has nothing left to publish of a command.                       *)
Cleared(c) == Ended(c) /\ rec[c].pub >= Len(ev[c])
(* Records of a command are in the journal or on their way.                 *)
Under(c) == stream[c].next > 0 \/ \E m \in Rising : m.type = "publish" /\ m.cmd = c
Before(c, d) ==
    /\ Admitted(c) /\ Admitted(d) /\ TaskOf[c] = TaskOf[d] /\ rec[c] # None /\ rec[d] # None
    /\ rec[c].order < rec[d].order
InTurn == \A c, d \in Commands : (Before(c, d) /\ Under(d)) => Cleared(c)

(* An ended command has its terminal record, and a journal that has it is   *)
(* settled.                                                                 *)
Closing(c) ==
    /\ Ended(c) => ev[c] # <<>> /\ IsTerminal(ev[c][Len(ev[c])])
    /\ (Admitted(c) /\ stream[c].next > 0 /\ IsTerminal(ev[c][stream[c].next])) => Settled(c)
OrderInv == InTurn /\ \A c \in Commands : Closing(c)

(* What a step does to the ledger of a command.                             *)
Moves(c) ==
    /\ LedgerFinal(c)
    /\ Admitted(c) => Len(ev[c]) <= Len(ev'[c]) /\ \A i \in 1..Len(ev[c]) : ev'[c][i] = ev[c][i]
    /\ rec'[c] # None =>
         \/ /\ rec[c] # None /\ rec'[c].order = rec[c].order /\ rec[c].pub <= rec'[c].pub
            /\ rec[c].terminal => rec'[c].terminal
         \/ rec[c] = None /\ \A d \in Known : rec[d].order < rec'[c].order
    /\ (Ended(c)' /\ ~Ended(c)) => ev'[c] # <<>> /\ IsTerminal(ev'[c][Len(ev'[c])])

(* send_pending publishes a command when the earlier ones of its task have  *)
(* nothing left to publish.                                                 *)
LEMMA ResumedInTurn ==
    ASSUME Assumptions, NEW p \in [Commands -> Publications], NEW before \in Seq(Upward),
           NEW r \in Ledgers, NEW e \in Records, Resume(p, before, r, e)
    PROVE  \A m \in Range(toCoord') :
             \/ m \in Range(before)
             \/ m.type = "publish" => \A c \in Commands :
                  (TaskOf[c] = TaskOf[m.cmd] /\ r[c] # None /\ r[c].order < r[m.cmd].order)
                      => r[c].terminal /\ r[c].pub >= Len(e[c])
  <1> DEFINE fresh == Refreshed(p, r, e)
  <1>1. \A c \in Commands : fresh[c].open <=> c \in Owed(r, e)
    BY DEF Refreshed, Closed, Opened
  <1>2. PICK q \in InSendOrder(Outgoing(fresh, r, e), r) : toCoord' = before \o q
    BY DEF Resume
  <1> HIDE DEF fresh
  <1>3. IsFiniteSet(Outgoing(fresh, r, e)) /\ Outgoing(fresh, r, e) \subseteq Upward
    BY OutgoingFaithful
  <1>4. q \in SetToSeqs(Outgoing(fresh, r, e))
    BY DEF InSendOrder
  <1>5. q \in Seq(Outgoing(fresh, r, e)) /\ Range(q) \subseteq Outgoing(fresh, r, e)
    BY <1>3, <1>4, Enumerated
  <1>6. q \in Seq(Upward)
    BY <1>3, <1>5, SeqMonotonic
  <1>7. Range(toCoord') = Range(before) \cup Range(q)
    BY <1>2, <1>6, RangeConcat
  <1>8. ASSUME NEW m \in Outgoing(fresh, r, e), m.type = "publish" PROVE Publishes(fresh, r, e, m.cmd)
    BY <1>8 DEF Outgoing, AckExecution, Publish
  <1>9. ASSUME NEW d \in Commands, Publishes(fresh, r, e, d), NEW c \in Commands,
               TaskOf[c] = TaskOf[d], r[c] # None, r[c].order < r[d].order
        PROVE  r[c].terminal /\ r[c].pub >= Len(e[c])
    <2>1. r[c] \in Executions /\ r[c].pub \in Nat /\ r[c].terminal \in BOOLEAN /\ Len(e[c]) \in Nat
      BY <1>9 DEF Ledgers, Executions, Records
    <2>2. CASE c \in Owed(r, e)
      BY <1>1, <1>9, <2>1, <2>2 DEF Publishes, Blocks
    <2>3. CASE c \notin Owed(r, e)
      BY <1>9, <2>1, <2>3 DEF Owed
    <2> QED BY <2>2, <2>3
  <1>10. \A m \in Range(q) : m.cmd \in Commands
    BY <1>3, <1>5, UpwardFields
  <1> QED BY <1>5, <1>7, <1>8, <1>9, <1>10

(* A step that leaves the ledger alone.                                     *)
LEMMA Unmoved ==
    ASSUME TypeOK, NEW c \in Commands, rec' = rec, ev' = ev
    PROVE  Moves(c)
  <1>1. Len(ev[c]) \in Nat /\ (rec[c] # None => rec[c].pub \in Nat)
    BY DEF TypeOK, LedgerOK, Executions
  <1> QED BY <1>1 DEF Moves, LedgerFinal, Ended

LEMMA SessionMoves ==
    ASSUME Assumptions, TypeOK, TypeOK', JournalInv, Session, NEW d \in Commands
    PROVE  Moves(d)
  <1> DEFINE c == Head(toNode).cmd
  <1>1. rec \in Ledgers /\ ev \in Records /\ rec' \in Ledgers /\ ev' \in Records
    BY LedgerTypes DEF TypeOK, LedgerOK, Ledgers, Records
  <1>2. LedgerFinal(d) /\ Len(ev[d]) \in Nat
    BY <1>1, SessionFinal DEF Records
  <1>3. CASE HandleExecute
    <2>1. c \in Commands
      BY <1>3, ReceivedKnown DEF HandleExecute
    <2> HIDE DEF c
    <2>2. CASE draining
      BY <1>3, <2>2, Unmoved DEF HandleExecute
    <2>3. CASE ~draining
      <3>1. /\ rec' = Admit(c)
            /\ ev' = [ev EXCEPT ![c] = IF rec[c] = None THEN <<"started">> ELSE @]
        BY <1>3, <2>3 DEF HandleExecute, c
      <3>2. CASE d # c
        <4>1. rec'[d] = rec[d] /\ ev'[d] = ev[d]
          BY <1>1, <3>1, <3>2 DEF Admit, Ledgers, Records
        <4> QED BY <1>1, <1>2, <4>1 DEF Moves, Ended, Ledgers, Executions
      <3>3. CASE d = c /\ rec[c] # None
        <4>1. /\ rec'[d].order = rec[d].order /\ rec'[d].pub = rec[d].pub /\ rec'[d].terminal = rec[d].terminal
              /\ ev'[d] = ev[d] /\ rec[d].pub \in Nat
          BY <1>1, <2>1, <3>1, <3>3 DEF Admit, Ledgers, Executions, Records
        <4> QED BY <1>2, <3>3, <4>1 DEF Moves, Ended
      <3>4. CASE d = c /\ rec[c] = None
        <4>1. rec'[d].order = NextOrder /\ rec'[d].terminal = FALSE
          BY <1>1, <2>1, <3>1, <3>4 DEF Admit, Ledgers
        <4>2. \A k \in Known : rec[k].order < rec'[d].order
          BY <1>1, <4>1, NextOrderAbove
        <4>3. Len(ev[d]) = 0 /\ Len(ev'[d]) = 1
          <5>1. ev[d] = <<>> /\ ev'[d] = <<"started">>
            BY <1>1, <2>1, <3>1, <3>4, RowsOf DEF Records, Rows, Consistent
          <5> QED BY <5>1
        <4> QED BY <1>2, <3>4, <4>1, <4>2, <4>3 DEF Moves, Ended
      <3> QED BY <3>2, <3>3, <3>4
    <2> QED BY <2>2, <2>3
  <1>4. ASSUME rec[c] # None, c \in Commands, ev' = ev, NEW r \in Executions,
               rec' = [rec EXCEPT ![c] = r], r.order = rec[c].order, r.terminal = rec[c].terminal,
               rec[c].pub <= r.pub
        PROVE  Moves(d)
    <2> HIDE DEF c
    <2>1. CASE d # c
      <3>1. rec'[d] = rec[d]
        BY <1>1, <1>4, <2>1 DEF Ledgers
      <3> QED BY <1>1, <1>2, <1>4, <3>1 DEF Moves, Ended, Ledgers, Executions
    <2>2. CASE d = c
      <3>1. rec'[d] = r
        BY <1>1, <1>4, <2>2 DEF Ledgers
      <3> QED BY <1>2, <1>4, <2>2, <3>1 DEF Moves, Ended
    <2> QED BY <2>1, <2>2
  <1>5. CASE AcknowledgeAdmission
    <2>1. c \in Commands
      BY <1>5, ReceivedKnown DEF AcknowledgeAdmission
    <2>2. CASE ~pubs[c].open \/ ~pubs[c].admission \/ rec[c] = None
      BY <1>5, <2>2, Unmoved DEF AcknowledgeAdmission, Fail, nodeDurable
    <2>3. CASE ~(~pubs[c].open \/ ~pubs[c].admission \/ rec[c] = None)
      <3>1. rec' = [rec EXCEPT ![c].acked = TRUE] /\ ev' = ev
        BY <1>5, <2>3 DEF AcknowledgeAdmission
      <3> HIDE DEF c
      <3>2. rec[c] \in Executions /\ rec[c].pub \in Nat
        BY <1>1, <2>1, <2>3 DEF Ledgers, Executions
      <3> DEFINE r == [rec[c] EXCEPT !.acked = TRUE]
      <3>3. r \in Executions /\ r.order = rec[c].order /\ r.terminal = rec[c].terminal /\ r.pub = rec[c].pub
        BY <3>2 DEF Executions
      <3>4. rec' = [rec EXCEPT ![c] = r]
        BY <3>1
      <3> HIDE DEF r
      <3>5. rec[c].pub <= r.pub
        BY <3>2, <3>3
      <3> QED BY <1>4, <2>1, <2>3, <3>1, <3>3, <3>4, <3>5 DEF c
    <2> QED BY <2>2, <2>3
  <1>6. CASE EventsAccepted
    <2> DEFINE through == Head(toNode).through + 1
    <2>1. c \in Commands
      BY <1>6, ReceivedKnown DEF EventsAccepted
    <2>2. CASE ~pubs[c].open \/ pubs[c].flight # through \/ rec[c] = None
      BY <1>6, <2>2, Unmoved DEF EventsAccepted, Fail, nodeDurable
    <2>3. CASE ~(~pubs[c].open \/ pubs[c].flight # through \/ rec[c] = None)
      <3>1. rec' = [rec EXCEPT ![c].pub = IF @ < through THEN through ELSE @] /\ ev' = ev
        BY <1>6, <2>3 DEF EventsAccepted
      <3> HIDE DEF c, through
      <3>2. rec[c] \in Executions /\ rec[c].pub \in Nat /\ through \in Nat
        BY <1>1, <2>1, <2>3, LedgerTypes DEF Ledgers, Executions, Publications
      <3> DEFINE r == [rec[c] EXCEPT !.pub = IF rec[c].pub < through THEN through ELSE rec[c].pub]
      <3>3. /\ r \in Executions /\ r.order = rec[c].order /\ r.terminal = rec[c].terminal
            /\ rec' = [rec EXCEPT ![c] = r] /\ rec[c].pub <= r.pub
        BY <3>1, <3>2 DEF Executions
      <3> HIDE DEF r
      <3> QED BY <1>4, <2>1, <2>3, <3>1, <3>3 DEF c
    <2> QED BY <2>2, <2>3
  <1>7. CASE Rejected \/ RecordStop \/ CancelTurn \/ CommitSignal
    BY <1>7, Unmoved DEF Rejected, Fail, RecordStop, CancelTurn, CommitSignal, nodeDurable
  <1> QED BY <1>3, <1>5, <1>6, <1>7 DEF Session

LEMMA TurnMoves ==
    ASSUME Assumptions, TypeOK, TypeOK', TurnsInv, NEW t \in Tasks, Turn(t), NEW d \in Commands
    PROVE  Moves(d)
  <1> DEFINE c == turn[t].cmd
  <1>1. rec \in Ledgers /\ ev \in Records /\ rec' \in Ledgers /\ ev' \in Records
    BY LedgerTypes DEF TypeOK, LedgerOK, Ledgers, Records
  <1>2. LedgerFinal(d) /\ ev[d] \in Seq(Kinds) /\ Len(ev[d]) \in Nat
    BY <1>1, TurnFinal DEF Records
  <1>3. CASE Register(t) \/ CheckStop(t) \/ LinkFails(t) \/ Join(t)
    BY <1>3, Unmoved DEF Register, CheckStop, LinkFails, Join, nodeDurable
  <1>4. ASSUME turn[t].step \in {"checked", "started"}, NEW kind \in Kinds,
               ev' = [ev EXCEPT ![c] = Append(@, kind)] \/ ev' = ev,
               \/ rec' = rec
               \/ ev' # ev /\ rec' = [rec EXCEPT ![c].terminal = TRUE] /\ IsTerminal(kind)
        PROVE  Moves(d)
    <2>1. c \in Commands /\ rec[c] \in Executions /\ rec[c] # None /\ ~rec[c].terminal
      BY <1>4, RunningTurn
    <2> HIDE DEF c
    <2>2. CASE d # c
      <3>1. rec'[d] = rec[d] /\ ev'[d] = ev[d]
        BY <1>1, <1>4, <2>2 DEF Ledgers, Records
      <3> QED BY <1>1, <1>2, <3>1 DEF Moves, Ended, Ledgers, Executions
    <2>3. CASE d = c
      <3>1. /\ rec'[d].order = rec[d].order /\ rec'[d].pub = rec[d].pub /\ rec[d].pub \in Nat
            /\ rec'[d].terminal = rec[d].terminal \/ (ev' # ev /\ IsTerminal(kind))
        BY <1>1, <1>4, <2>1, <2>3 DEF Ledgers, Executions
      <3>2. ev'[d] = ev[d] \/ ev'[d] = Append(ev[d], kind)
        BY <1>1, <1>4, <2>1, <2>3 DEF Records
      <3>3. Len(ev[d]) <= Len(ev'[d]) /\ \A i \in 1..Len(ev[d]) : ev'[d][i] = ev[d][i]
        BY <1>2, <3>2
      <3>4. ASSUME ev' # ev PROVE ev'[d] # <<>> /\ ev'[d][Len(ev'[d])] = kind
        <4>1. ev'[d] = Append(ev[d], kind)
          BY <1>1, <1>4, <2>1, <2>3, <3>4 DEF Records
        <4> QED BY <1>2, <4>1
      <3>5. ASSUME Ended(d)', ~Ended(d) PROVE ev'[d] # <<>> /\ IsTerminal(ev'[d][Len(ev'[d])])
        BY <2>1, <2>3, <3>1, <3>4, <3>5 DEF Ended
      <3> QED BY <1>2, <2>1, <2>3, <3>1, <3>3, <3>5 DEF Moves
    <2> QED BY <2>2, <2>3
  <1>5. "turn" \in Kinds /\ "progress" \in Kinds /\ \A kind \in Terminals : kind \in Kinds /\ IsTerminal(kind)
    BY DEF Kinds, Terminals, IsTerminal
  <1>6. CASE AppendTurnStarted(t)
    <2>1. c \in Commands
      BY <1>6, RunningTurn DEF AppendTurnStarted, Step
    <2>2. ev' = [ev EXCEPT ![c] = Append(@, "turn")] \/ ev' = ev
      BY <1>1, <1>6, <2>1 DEF AppendTurnStarted, Records
    <2> QED BY <1>4, <1>5, <1>6, <2>2 DEF AppendTurnStarted, Step
  <1>7. CASE AppendProgress(t)
    BY <1>4, <1>5, <1>7 DEF AppendProgress, InsertEvent
  <1>8. ASSUME NEW kind \in Terminals, Finish(c, kind), turn[t].step \in {"checked", "started"}
        PROVE  Moves(d)
    <2>1. c \in Commands
      BY <1>8, RunningTurn
    <2>2. ev' = [ev EXCEPT ![c] = Append(@, kind)] /\ rec' = [rec EXCEPT ![c].terminal = TRUE]
      BY <1>8 DEF Finish, InsertEvent
    <2>3. ev' # ev
      <3> HIDE DEF c
      <3>1. ev'[c] = Append(ev[c], kind) /\ ev[c] \in Seq(Kinds)
        BY <1>1, <2>1, <2>2 DEF Records
      <3>2. Len(ev'[c]) # Len(ev[c])
        BY <3>1
      <3> QED BY <3>2
    <2> QED BY <1>4, <1>5, <1>8, <2>2, <2>3
  <1>9. CASE FinishUnstarted(t)
    BY <1>8, <1>9, EndKinds DEF FinishUnstarted, Step
  <1>10. CASE FinishTurn(t)
    BY <1>8, <1>10, EndKinds DEF FinishTurn, Step
  <1> QED BY <1>3, <1>6, <1>7, <1>9, <1>10 DEF Turn, Turns

LEMMA NextMoves ==
    ASSUME Assumptions, TypeOK, TypeOK', TurnsInv, JournalInv, Next, NEW c \in Commands
    PROVE  Moves(c)
  <1>1. CASE Surface \/ Coordinator
    BY <1>1, NodeIdleFacts, Unmoved DEF Surface, Coordinator
  <1>2. CASE Process
    BY <1>2, Unmoved DEF Process, Drain, Drained, Restart, Exit, nodeDurable
  <1>3. ASSUME NEW t \in Tasks, Forget(t) PROVE Moves(c)
    <2>1. /\ task[t] = "deleted"
          /\ rec'[c] = IF TaskOf[c] = t THEN None ELSE rec[c]
          /\ ev'[c] = IF TaskOf[c] = t THEN <<>> ELSE ev[c]
      BY <1>3 DEF Forget, ForgetTask
    <2>2. Rows(c) /\ Len(ev[c]) \in Nat /\ (rec[c] # None => rec[c].pub \in Nat)
      BY RowsOf DEF TypeOK, LedgerOK, Executions
    <2>3. CASE TaskOf[c] = t
      <3>1. ~Admitted(c) /\ rec'[c] = None
        BY <2>1, <2>2, <2>3 DEF Rows, Consistent
      <3> QED BY <3>1 DEF Moves, LedgerFinal, Ended
    <2>4. CASE TaskOf[c] # t
      BY <2>1, <2>2, <2>4 DEF Moves, LedgerFinal, Ended
    <2> QED BY <2>3, <2>4
  <1>4. CASE Connect
    BY <1>4, Unmoved DEF Connect, OpenSession, nodeDurable
  <1>5. CASE LoseLink \/ NodeCrash \/ CoordinatorCrash
    BY <1>5, Unmoved DEF LoseLink, NodeCrash, CoordinatorCrash, SessionLost, Exit, nodeDurable
  <1> QED BY <1>1, <1>2, <1>3, <1>4, <1>5, SessionMoves, TurnMoves DEF Next

(* What has nothing left to publish stays so.                               *)
LEMMA StaysCleared ==
    ASSUME TypeOK, TypeOK', NEW c \in Commands, Moves(c), Cleared(c), rec'[c] # None
    PROVE  Cleared(c)'
  <1>1. rec[c] # None /\ rec[c].terminal /\ rec[c].pub >= Len(ev[c]) /\ ev'[c] = ev[c]
    BY DEF Cleared, Ended, Moves, LedgerFinal
  <1>2. rec'[c].terminal /\ rec[c].pub <= rec'[c].pub
    BY <1>1 DEF Moves
  <1>3. rec[c].pub \in Nat /\ rec'[c].pub \in Nat /\ Len(ev[c]) \in Nat
    BY <1>1 DEF TypeOK, LedgerOK, Executions
  <1>4. rec'[c].pub >= Len(ev'[c])
    BY <1>1, <1>2, <1>3
  <1> QED BY <1>2, <1>4 DEF Cleared, Ended

(* Records under way are of an execution the ledger has.                    *)
LEMMA UnderKnown ==
    ASSUME TypeOK, JournalInv, NEW d \in Commands, Admitted(d), Under(d)
    PROVE  rec[d] # None
  <1>1. CASE stream[d].next > 0
    <2>1. Rows(d) /\ stream[d].next \in Nat /\ Len(ev[d]) \in Nat
      BY RowsOf DEF TypeOK, TablesOK, LedgerOK
    <2>2. stream[d].next <= Len(ev[d]) /\ (rec[d] = None => ev[d] = <<>>)
      BY <2>1 DEF Rows, Copied, Consistent
    <2>3. ev[d] # <<>>
      BY <1>1, <2>1, <2>2
    <2> QED BY <2>2, <2>3
  <1>2. CASE \E m \in Rising : m.type = "publish" /\ m.cmd = d
    BY <1>2 DEF JournalInv, MessagesInv, Honest
  <1> QED BY <1>1, <1>2 DEF Under

LEMMA OrderStep ==
    ASSUME Assumptions, TypeOK, TypeOK', JournalInv, JournalInv', OrderInv, \A c \in Commands : Moves(c),
           \A c \in Commands : cmd'[c] = "admitted" => cmd[c] \in {"new", "admitted"},
           \A d \in Commands : (cmd'[d] = "admitted" /\ Under(d)') =>
               (Admitted(d) /\ Under(d)) \/ \A c \in Commands : Before(c, d)' => Cleared(c)',
           \A c \in Commands : cmd'[c] = "admitted" =>
               \/ Admitted(c) /\ stream'[c] = stream[c]
               \/ stream'[c].next > 0 /\ IsTerminal(ev'[c][stream'[c].next]) => stream'[c].terminal
    PROVE  OrderInv'
  <1>1. ASSUME NEW c \in Commands, NEW d \in Commands, Before(c, d)', Under(d)' PROVE Cleared(c)'
    <2>1. /\ cmd'[c] = "admitted" /\ cmd'[d] = "admitted" /\ TaskOf[c] = TaskOf[d]
          /\ rec'[c] # None /\ rec'[d] # None /\ rec'[c].order < rec'[d].order
      BY <1>1 DEF Before, Admitted
    <2>2. SUFFICES ASSUME Admitted(d), Under(d) PROVE Cleared(c)'
      BY <1>1, <2>1
    <2>3. rec[d] # None /\ rec'[d].order = rec[d].order /\ d \in Known
      <3>1. rec[d] # None
        BY <2>2, UnderKnown
      <3> QED BY <2>1, <3>1 DEF Moves, Known
    <2>4. rec'[c].order \in Nat /\ rec'[d].order \in Nat
      BY <2>1 DEF TypeOK, LedgerOK, Executions
    <2>5. rec[c] # None /\ rec'[c].order = rec[c].order
      <3>1. CASE rec[c] = None
        <4>1. rec'[d].order < rec'[c].order
          BY <2>1, <2>3, <3>1 DEF Moves
        <4> QED BY <2>1, <2>4, <4>1
      <3>2. CASE rec[c] # None
        BY <2>1, <3>2 DEF Moves
      <3> QED BY <3>1, <3>2
    <2>6. Admitted(c)
      BY <2>1, <2>5, RowsOf DEF Rows, Unheard, Admitted
    <2>7. Cleared(c)
      BY <2>1, <2>2, <2>3, <2>5, <2>6 DEF OrderInv, InTurn, Before
    <2> QED BY <2>1, <2>7, StaysCleared
  <1>2. ASSUME NEW c \in Commands PROVE Closing(c)'
    <2>1. Closing(c) /\ Moves(c)
      BY DEF OrderInv
    <2>2. ASSUME Ended(c)' PROVE ev'[c] # <<>> /\ IsTerminal(ev'[c][Len(ev'[c])])
      <3>1. CASE Ended(c)
        <4>1. ev'[c] = ev[c]
          BY <2>1, <2>2, <3>1 DEF Moves, LedgerFinal, Ended
        <4> QED BY <2>1, <3>1, <4>1 DEF Closing
      <3>2. CASE ~Ended(c)
        BY <2>1, <2>2, <3>2 DEF Moves
      <3> QED BY <3>1, <3>2
    <2>3. ASSUME cmd'[c] = "admitted", stream'[c].next > 0, IsTerminal(ev'[c][stream'[c].next])
          PROVE  stream'[c].terminal
      <3>1. CASE Admitted(c) /\ stream'[c] = stream[c]
        <4>1. stream[c].next \in Nat /\ Len(ev[c]) \in Nat /\ Rows(c)
          BY RowsOf DEF TypeOK, TablesOK, LedgerOK
        <4>2. stream[c].next \in 1..Len(ev[c])
          BY <2>3, <3>1, <4>1 DEF Rows, Copied
        <4>3. ev'[c][stream[c].next] = ev[c][stream[c].next]
          BY <2>1, <3>1, <4>2 DEF Moves
        <4> QED BY <2>1, <2>3, <3>1, <4>3 DEF Closing, Settled
      <3>2. CASE ~(Admitted(c) /\ stream'[c] = stream[c])
        BY <2>3, <3>2
      <3> QED BY <3>1, <3>2
    <2> QED BY <2>2, <2>3 DEF Closing, Admitted, Settled
  <1> QED BY <1>1, <1>2 DEF OrderInv, InTurn

(* A step of the node, or of both, that leaves the coordinator's tables.    *)
LEMMA NodeOrder ==
    ASSUME Assumptions, TypeOK, TypeOK', JournalInv, JournalInv', OrderInv, \A c \in Commands : Moves(c),
           UNCHANGED coordDurable, handling' \subseteq handling,
           \A m \in Range(toCoord') :
             \/ m \in Range(toCoord)
             \/ m.type = "publish" => \A c \in Commands :
                  (TaskOf[c] = TaskOf[m.cmd] /\ rec'[c] # None /\ rec'[c].order < rec'[m.cmd].order)
                      => rec'[c].terminal /\ rec'[c].pub >= Len(ev'[c])
    PROVE  OrderInv'
  <1>1. UNCHANGED <<cmd, stream>>
    BY DEF coordDurable
  <1>2. ASSUME NEW d \in Commands, cmd'[d] = "admitted", Under(d)', ~Under(d), NEW c \in Commands, Before(c, d)'
        PROVE  Cleared(c)'
    <2>1. PICK m \in Rising' : m.type = "publish" /\ m.cmd = d
      BY <1>1, <1>2 DEF Under
    <2>2. m \in Range(toCoord') /\ m \notin Range(toCoord)
      BY <1>2, <2>1 DEF Under, Rising
    <2> QED BY <1>2, <2>1, <2>2 DEF Before, Cleared, Ended
  <1> QED BY <1>1, <1>2, OrderStep DEF Admitted

(* A step of the coordinator that adds no record to the journal.            *)
LEMMA CoordOrder ==
    ASSUME Assumptions, TypeOK, TypeOK', JournalInv, JournalInv', OrderInv, \A c \in Commands : Moves(c),
           Rising' \subseteq Rising,
           \A c \in Commands : cmd'[c] = "admitted" => cmd[c] \in {"new", "admitted"} /\ stream'[c] = stream[c]
    PROVE  OrderInv'
  <1>1. ASSUME NEW c \in Commands, cmd'[c] = "admitted", cmd[c] = "new" PROVE stream'[c].next = 0 /\ ~Under(c)'
    <2>1. stream'[c].next = 0
      BY <1>1, RowsOf DEF Rows, Unheard, NoStream
    <2>2. \A m \in Rising' : m.cmd # c
      BY <1>1 DEF JournalInv, MessagesInv, Honest
    <2> QED BY <2>1, <2>2 DEF Under
  <1>2. ASSUME NEW c \in Commands, cmd'[c] = "admitted", Under(c)' PROVE Admitted(c) /\ Under(c)
    BY <1>1, <1>2 DEF Under, Admitted
  <1>3. ASSUME NEW c \in Commands, cmd'[c] = "admitted"
        PROVE  \/ Admitted(c) /\ stream'[c] = stream[c]
               \/ stream'[c].next > 0 /\ IsTerminal(ev'[c][stream'[c].next]) => stream'[c].terminal
    BY <1>1, <1>3 DEF Admitted
  <1> QED BY <1>2, <1>3, OrderStep

LEMMA InitOrder == ASSUME Assumptions PROVE Init => OrderInv
  BY DEF Init, CoordInit, NodeInit, OrderInv, InTurn, Before, Admitted, Closing, Ended

LEMMA SurfaceOrder ==
    ASSUME Assumptions, TypeOK, TypeOK', TurnsInv, JournalInv, JournalInv', OrderInv, Surface
    PROVE  OrderInv'
  <1>1. \A c \in Commands : Moves(c)
    BY NextMoves DEF Next
  <1>2. Rising' = Rising
    BY DEF Surface, OpenTask, DeleteTask, Submit, ResubmitExisting, AdmitStop, RepeatStop, coordVolatile, wire, Rising
  <1>3. ASSUME NEW c \in Commands, cmd'[c] = "admitted"
        PROVE  cmd[c] \in {"new", "admitted"} /\ stream'[c] = stream[c]
    <2>1. ASSUME NEW t \in Tasks, DeleteTask(t) PROVE cmd[c] = "admitted" /\ stream'[c] = stream[c]
      <3>1. /\ cmd'[c] = IF TaskOf[c] = t /\ Admitted(c) THEN "deleted" ELSE cmd[c]
            /\ stream'[c] = IF TaskOf[c] = t THEN NoStream ELSE stream[c]
        BY <2>1 DEF DeleteTask
      <3> QED BY <1>3, <3>1 DEF Admitted
    <2>2. ASSUME NEW t \in Tasks, OpenTask(t) PROVE cmd[c] = "admitted" /\ stream'[c] = stream[c]
      BY <1>3, <2>2 DEF OpenTask
    <2>3. ASSUME NEW d \in Commands, Submit(d) PROVE cmd[c] \in {"new", "admitted"} /\ stream'[c] = stream[c]
      BY <1>3, <2>3 DEF Submit, InsertCommand, TypeOK, TablesOK
    <2>4. ASSUME NEW d \in Commands, ResubmitExisting(d) \/ AdmitStop(d) \/ RepeatStop(d)
          PROVE  cmd[c] = "admitted" /\ stream'[c] = stream[c]
      BY <1>3, <2>4 DEF ResubmitExisting, AdmitStop, RepeatStop, coordDurable
    <2> QED BY <2>1, <2>2, <2>3, <2>4 DEF Surface
  <1> QED BY <1>1, <1>2, <1>3, CoordOrder

(* append_contiguous_execution_events: the cursor moves over the records    *)
(* that arrived, and settles the command with its terminal record.          *)
LEMMA AppendOrder ==
    ASSUME Assumptions, TypeOK, TypeOK', JournalInv, JournalInv', OrderInv, NodeIdle, \A c \in Commands : Moves(c),
           NEW h \in handling, AppendEvents(h), Rising' \subseteq Rising
    PROVE  OrderInv'
  <1> DEFINE c == h.msg.cmd
             from == h.msg.from
             events == h.msg.events
             new == New(c, from, events)
             n == stream[c].next
  <1>1. h.msg \in Rising /\ c \in Commands /\ from \in Nat /\ events \in Seq(Kinds) /\ h.msg.type = "publish"
    BY UpwardFields DEF AppendEvents, TypeOK, ConnectionOK, Rising
  <1>2. UNCHANGED <<cmd, rec, ev>>
    BY NodeIdleFacts DEF AppendEvents
  <1>3. CASE ~Fits(c, from, events)
    BY <1>2, <1>3, CoordOrder DEF AppendEvents
  <1>4. CASE Fits(c, from, events)
    <2>1. Admitted(c) /\ from <= n /\ n \in Nat /\ Len(events) \in Nat
      BY <1>1, <1>4 DEF Fits, TypeOK, TablesOK
    <2>2. /\ new \in Seq(Entries) /\ n - from \in Nat
          /\ Len(new) = IF Len(events) > n - from THEN Len(events) - (n - from) ELSE 0
          /\ \A i \in 1..Len(new) : /\ (n - from) + i \in 1..Len(events)
                                    /\ new[i] = Record(c, n + i - 1, events[(n - from) + i])
      BY <1>1, <2>1, NewRecords DEF TypeOK
    <2>3. \A i \in 1..Len(events) : events[i] = ev[c][from + i]
      BY <1>1, <2>1 DEF JournalInv, MessagesInv, Honest
    <2>4. stream' = [stream EXCEPT ![c] = [next |-> n + Len(new),
                        terminal |-> IF new = <<>> THEN @.terminal ELSE IsTerminal(Last(new).kind)]]
      BY <1>4 DEF AppendEvents
    <2> HIDE DEF new, c, from, events
    <2>5. \A d \in Commands : d # c => stream'[d] = stream[d]
      BY <1>1, <2>4 DEF TypeOK, TablesOK
    <2>6. CASE new = <<>>
      <3>1. n + Len(new) = n
        BY <2>1, <2>6
      <3>2. stream'[c] = [next |-> n, terminal |-> stream[c].terminal]
        BY <1>1, <2>4, <2>6, <3>1 DEF TypeOK, TablesOK
      <3>3. stream[c] = [next |-> n, terminal |-> stream[c].terminal]
        BY <1>1 DEF TypeOK, TablesOK
      <3> QED BY <1>2, <2>5, <3>2, <3>3, CoordOrder
    <2>7. CASE new # <<>>
      <3>1. Len(new) \in Nat \ {0} /\ Last(new) = new[Len(new)]
        BY <2>2, <2>7 DEF Last
      <3>2. stream'[c] = [next |-> n + Len(new), terminal |-> IsTerminal(Last(new).kind)]
        BY <1>1, <2>4, <2>7 DEF TypeOK, TablesOK
      <3>3. Last(new).kind = ev[c][n + Len(new)]
        <4> HIDE DEF n
        <4>5. Len(new) \in 1..Len(new)
          BY <3>1
        <4>1. (n - from) + Len(new) \in 1..Len(events) /\ Last(new) = Record(c, n + Len(new) - 1, events[(n - from) + Len(new)])
          BY <2>2, <3>1, <4>5
        <4>2. Last(new).kind = events[(n - from) + Len(new)]
          BY <4>1 DEF Record
        <4>3. from + ((n - from) + Len(new)) = n + Len(new)
          BY <1>1, <2>1, <3>1
        <4>4. events[(n - from) + Len(new)] = ev[c][from + ((n - from) + Len(new))]
          BY <2>3, <4>1
        <4> QED BY <4>2, <4>3, <4>4
      <3>4. IsTerminal(ev'[c][stream'[c].next]) => stream'[c].terminal
        BY <1>2, <3>2, <3>3
      <3>5. Under(c)
        BY <1>1 DEF Under, c
      <3>6. ASSUME NEW d \in Commands, Under(d)' PROVE Under(d)
        BY <2>5, <3>5, <3>6 DEF Under
      <3> QED BY <1>2, <2>5, <3>4, <3>6, OrderStep DEF Admitted
    <2> QED BY <2>6, <2>7
  <1> QED BY <1>3, <1>4

LEMMA CoordinatorOrder ==
    ASSUME Assumptions, TypeOK, TypeOK', TurnsInv, JournalInv, JournalInv', OrderInv, Coordinator
    PROVE  OrderInv'
  <1>1. NodeIdle /\ \A c \in Commands : Moves(c)
    BY NextMoves DEF Next, Coordinator
  <1>2. CASE SendToNode \/ CleanupConnection
    <2>1. UNCHANGED <<cmd, stream, handling, toCoord>>
      BY <1>2 DEF SendToNode, CleanupConnection, coordDurable, wire
    <2> QED BY <1>1, <2>1, CoordOrder DEF Rising
  <1>3. CASE TakeOperation
    <2>1. /\ toCoord # <<>> /\ toCoord' = Tail(toCoord) /\ toCoord \in Seq(Upward)
          /\ handling' = {[conn |-> live, msg |-> Head(toCoord)]} \cup handling
          /\ UNCHANGED <<cmd, stream>>
      BY <1>3 DEF TakeOperation, TypeOK, ConnectionOK, coordDurable
    <2>2. Range(Tail(toCoord)) \subseteq Range(toCoord) /\ Head(toCoord) \in Range(toCoord)
      BY <2>1, RangeTail
    <2>3. Rising' \subseteq Rising
      BY <2>1, <2>2 DEF Rising
    <2> QED BY <1>1, <2>1, <2>3, CoordOrder
  <1>4. CASE HandleOperation
    <2>1. PICK h \in handling :
            /\ AcknowledgeExecution(h) \/ AcknowledgeStop(h) \/ AppendEvents(h)
            /\ handling' = handling \ {h} /\ UNCHANGED toCoord
      BY <1>4 DEF HandleOperation
    <2>2. Rising' \subseteq Rising
      BY <2>1 DEF Rising
    <2>3. CASE AcknowledgeExecution(h) \/ AcknowledgeStop(h)
      <3>1. UNCHANGED <<cmd, stream>>
        BY <2>3 DEF AcknowledgeExecution, AcknowledgeStop
      <3> QED BY <1>1, <2>2, <3>1, CoordOrder
    <2> QED BY <1>1, <2>1, <2>2, <2>3, AppendOrder
  <1> QED BY <1>2, <1>3, <1>4 DEF Coordinator

(* The messages a step of the node adds are published in turn.              *)
InOrder(before) ==
    \A m \in Range(toCoord') :
        \/ m \in Range(before)
        \/ m.type = "publish" => \A c \in Commands :
             (TaskOf[c] = TaskOf[m.cmd] /\ rec'[c] # None /\ rec'[c].order < rec'[m.cmd].order)
                 => rec'[c].terminal /\ rec'[c].pub >= Len(ev'[c])

LEMMA SessionOrder ==
    ASSUME Assumptions, TypeOK, TypeOK', TurnsInv, JournalInv, JournalInv', OrderInv, Session
    PROVE  OrderInv'
  <1>1. CoordIdle /\ \A c \in Commands : Moves(c)
    BY NextMoves DEF Next, Session
  <1>2. /\ pubs \in [Commands -> Publications] /\ toCoord \in Seq(Upward)
        /\ rec \in Ledgers /\ ev \in Records /\ rec' \in Ledgers /\ ev' \in Records
    BY DEF TypeOK, ConnectionOK, LedgerOK, Ledgers, Records
  <1>3. SUFFICES InOrder(toCoord)
    BY <1>1, CoordIdleFacts, NodeOrder DEF InOrder
  <1>4. ASSUME NEW p \in [Commands -> Publications], Resume(p, toCoord, rec', ev') PROVE InOrder(toCoord)
    BY <1>2, <1>4, ResumedInTurn DEF InOrder
  <1>5. CASE HandleExecute
    <2>1. Resume(pubs, toCoord, rec', ev')
      BY <1>5 DEF HandleExecute
    <2> QED BY <1>2, <1>4, <2>1
  <1>6. CASE EventsAccepted
    <2> DEFINE c == Head(toNode).cmd
    <2>1. Receive("accepted") /\ (Fail \/ (Resume([pubs EXCEPT ![c].flight = 0], toCoord, rec', ev')))
      BY <1>6 DEF EventsAccepted
    <2>2. c \in Commands
      BY <2>1, ReceivedKnown
    <2> HIDE DEF c
    <2>3. [pubs EXCEPT ![c].flight = 0] \in [Commands -> Publications]
      BY <1>2, <2>2 DEF Publications
    <2>4. CASE Fail
      BY <2>4, EmptyRange DEF Fail, InOrder
    <2> QED BY <1>4, <2>1, <2>3, <2>4
  <1>7. CASE CommitSignal
    <2>1. Resume(pubs, toCoord, rec', ev')
      BY <1>7 DEF CommitSignal, nodeDurable
    <2> QED BY <1>2, <1>4, <2>1
  <1>8. CASE AcknowledgeAdmission \/ Rejected
    <2>1. toCoord' = toCoord \/ toCoord' = <<>>
      BY <1>8 DEF AcknowledgeAdmission, Rejected, Fail
    <2> QED BY <2>1, EmptyRange DEF InOrder
  <1>9. CASE RecordStop \/ CancelTurn
    <2>1. PICK c \in Commands : toCoord' = toCoord \/ toCoord' = Append(toCoord, AckStop(c))
      <3>1. CASE RecordStop
        <4>1. Head(toNode).cmd \in Commands
          BY <3>1, ReceivedKnown DEF RecordStop
        <4> QED BY <3>1, <4>1 DEF RecordStop
      <3>2. CASE CancelTurn
        BY <3>2 DEF CancelTurn, TypeOK, LedgerOK
      <3> QED BY <1>9, <3>1, <3>2
    <2>2. AckStop(c) \in Upward /\ AckStop(c).type # "publish"
      BY Constructors DEF AckStop
    <2>3. toCoord' = toCoord \/ Range(toCoord') = Range(toCoord) \cup {AckStop(c)}
      <3>1. Range(Append(toCoord, AckStop(c))) = Range(toCoord) \cup {AckStop(c)}
        BY <1>2, <2>2, RangeAppend
      <3> QED BY <2>1, <3>1
    <2> QED BY <2>2, <2>3 DEF InOrder
  <1> QED BY <1>5, <1>6, <1>7, <1>8, <1>9 DEF Session

LEMMA NextOrderInv ==
    ASSUME Assumptions, TypeOK, TypeOK', TurnsInv, JournalInv, JournalInv', OrderInv, Next
    PROVE  OrderInv'
  <1>1. \A c \in Commands : Moves(c)
    BY NextMoves
  <1>2. ASSUME UNCHANGED coordDurable, handling' \subseteq handling, InOrder(<<>>) \/ toCoord' = toCoord
        PROVE  OrderInv'
    BY <1>1, <1>2, EmptyRange, NodeOrder DEF InOrder
  <1>3. toCoord' = <<>> => InOrder(<<>>)
    BY EmptyRange DEF InOrder
  <1>4. ASSUME NEW t \in Tasks, Turn(t) \/ Forget(t) PROVE OrderInv'
    <2>1. CoordIdle /\ toCoord' = toCoord
      BY <1>4 DEF Turn, Turns, Forget, ForgetTask, Register, CheckStop, FinishUnstarted, AppendTurnStarted,
                  FinishTurn, AppendProgress, LinkFails, Join, TurnOnly, wire
    <2> QED BY <1>2, <2>1, CoordIdleFacts
  <1>5. CASE Process
    <2>1. CoordIdle /\ (toCoord' = toCoord \/ toCoord' = <<>>)
      BY <1>5 DEF Process, Drain, Drained, Exit, LinkLost, Restart, wire
    <2> QED BY <1>2, <1>3, <2>1, CoordIdleFacts
  <1>6. CASE LoseLink \/ NodeCrash \/ CoordinatorCrash
    <2>1. UNCHANGED coordDurable /\ handling' \subseteq handling /\ toCoord' = <<>>
      BY <1>6 DEF LoseLink, NodeCrash, CoordinatorCrash, SessionLost, Exit, LinkLost, coordVolatile
    <2> QED BY <1>2, <1>3, <2>1
  <1>7. CASE Connect
    <2>1. /\ UNCHANGED coordDurable /\ handling' = handling
          /\ Resume(NoPublications, <<>>, rec', ev')
      BY <1>7 DEF Connect, OpenSession, nodeDurable
    <2>2. NoPublications \in [Commands -> Publications] /\ <<>> \in Seq(Upward)
      BY VolatileTypes
    <2>3. rec' \in Ledgers /\ ev' \in Records
      BY DEF TypeOK, LedgerOK, Ledgers, Records
    <2>4. InOrder(<<>>)
      BY <2>1, <2>2, <2>3, ResumedInTurn DEF InOrder
    <2> QED BY <1>2, <2>1, <2>4
  <1> QED BY <1>4, <1>5, <1>6, <1>7, SurfaceOrder, CoordinatorOrder, SessionOrder DEF Next

LEMMA StutterOrder ==
    ASSUME Assumptions, TypeOK, TypeOK', JournalInv, JournalInv', OrderInv, UNCHANGED vars
    PROVE  OrderInv'
  <1>1. UNCHANGED coordDurable /\ UNCHANGED <<handling, toCoord, rec, ev>>
    BY DEF vars, coordVolatile, nodeVars, nodeDurable, wire
  <1>2. \A c \in Commands : Moves(c)
    BY <1>1, Unmoved
  <1> QED BY <1>1, <1>2, NodeOrder

(* While records of a command are in the journal or on their way, the node  *)
(* has nothing left to publish of the earlier commands of its task          *)
(* (send_pending's blocked tasks), through every fault and retry.           *)
THEOREM OrderInvariant == ASSUME Assumptions PROVE Spec => []OrderInv
  <1>1. Init => OrderInv
    BY InitOrder
  <1>2. TypeOK /\ TypeOK' /\ TurnsInv /\ JournalInv /\ JournalInv' /\ OrderInv /\ [Next]_vars => OrderInv'
    BY NextOrderInv, StutterOrder
  <1> QED BY <1>1, <1>2, RcpTyped, JournalInvariant, PTL DEF Spec

(* The journal of a task grows command after command: a later command       *)
(* appears only behind the terminal record of every earlier one the node    *)
(* admitted (send_pending, append_contiguous_execution_events).             *)
THEOREM PublishedCommandByCommand == ASSUME Assumptions PROVE Spec => []PublishedInTurn
  <1>1. TypeOK /\ JournalInv /\ OrderInv => PublishedInTurn
    <2> SUFFICES ASSUME TypeOK, JournalInv, OrderInv, NEW c \in Commands, NEW d \in Commands,
                        Before(c, d), stream[d].next > 0
                 PROVE  Settled(c)
      BY DEF PublishedInTurn, Before
    <2>1. Cleared(c) /\ Closing(c) /\ Rows(c) /\ Admitted(c)
      BY RowsOf DEF OrderInv, InTurn, Under, Before
    <2>2. rec[c] \in Executions /\ rec[c].pub \in Nat /\ stream[c].next \in Nat /\ ev[c] \in Seq(Kinds)
      BY <2>1 DEF Cleared, Ended, TypeOK, TablesOK, LedgerOK, Executions
    <2>3. rec[c].pub <= stream[c].next /\ stream[c].next <= Len(ev[c]) /\ rec[c].pub >= Len(ev[c])
      BY <2>1 DEF Rows, Remembered, Copied, Cleared, Ended
    <2>4. ev[c] # <<>> /\ IsTerminal(ev[c][Len(ev[c])])
      BY <2>1 DEF Closing, Cleared
    <2>5. stream[c].next = Len(ev[c]) /\ stream[c].next > 0
      BY <2>2, <2>3, <2>4
    <2> QED BY <2>1, <2>4, <2>5 DEF Closing
  <1> QED BY <1>1, RcpTyped, JournalInvariant, OrderInvariant, PTL
-----------------------------------------------------------------------------
(* The node's session: each exchange is in one place, and answered once *)

(* The exchange a message belongs to: an admission or a publication of a    *)
(* command, asked by the node and answered by the coordinator.              *)
Asks(m) == m.type \in {"ack_execution", "publish"}
Answers(m) == m.type \in {"acknowledged", "accepted"}
OfAdmission(m) == m.type \in {"ack_execution", "acknowledged"}
Same(m, n) == m.cmd = n.cmd /\ (OfAdmission(m) <=> OfAdmission(n))

(* The node waits for the answer to m.                                      *)
Awaited(m, p) ==
    /\ m.cmd \in Commands /\ p[m.cmd].open
    /\ OfAdmission(m) => p[m.cmd].admission
    /\ ~OfAdmission(m) => p[m.cmd].flight # 0
    /\ m.type = "publish" => p[m.cmd].flight = m.from + Len(m.events)
    /\ m.type = "accepted" => p[m.cmd].flight = m.through + 1

(* Every exchange is in one place: on its way up, being committed, or on    *)
(* its way down.                                                            *)
OncePerExchange(up, down, held) ==
    /\ \A i, j \in 1..Len(up) : i # j /\ Asks(up[i]) /\ Asks(up[j]) => ~Same(up[i], up[j])
    /\ \A i, j \in 1..Len(down) : i # j /\ Answers(down[i]) /\ Answers(down[j]) => ~Same(down[i], down[j])
    /\ \A i \in 1..Len(up), j \in 1..Len(down) : Asks(up[i]) /\ Answers(down[j]) => ~Same(up[i], down[j])
    /\ \A m \in held : Asks(m) =>
         /\ \A i \in 1..Len(up) : Asks(up[i]) => ~Same(up[i], m)
         /\ \A j \in 1..Len(down) : Answers(down[j]) => ~Same(down[j], m)
    /\ \A m, n \in held : m = n
AllAwaited(up, down, held, p) ==
    /\ \A i \in 1..Len(up) : Asks(up[i]) => Awaited(up[i], p)
    /\ \A j \in 1..Len(down) : Answers(down[j]) => Awaited(down[j], p)
    /\ \A m \in held : Asks(m) => Awaited(m, p)
Talk(up, down, held, p) == OncePerExchange(up, down, held) /\ AllAwaited(up, down, held, p)
Held == {h.msg : h \in {x \in handling : x.conn = live}}

(* What a publication under way says of the ledger.                         *)
Standing(p, r, e, s, c) ==
    /\ p[c].open => r[c] # None
    /\ p[c].admission => p[c].open /\ ~r[c].acked
    /\ p[c].flight # 0 => p[c].open /\ r[c].pub < p[c].flight /\ p[c].flight <= Len(e[c]) /\ s[c].next <= p[c].flight
    /\ r[c] # None => s[c].next <= r[c].pub + MaxBatch
Bounded(m, p, r) ==
    /\ r[m.cmd] # None /\ m.from <= r[m.cmd].pub
    /\ m.from + Len(m.events) <= r[m.cmd].pub + MaxBatch
    /\ p[m.cmd].flight # 0 => m.from + Len(m.events) <= p[m.cmd].flight

Wired ==
    /\ live = 0 => toNode = <<>> /\ toCoord = <<>>
    /\ \A h \in handling : h.conn \in 1..lastConn
    /\ \A s \in sends : s.conn # 0 /\ s.msg.type \in {"execute", "stop"}
    /\ \A m \in Range(toNode) : m.type # "error"
Serving ==
    /\ node # "failed" /\ Wired /\ \A t \in Tasks : task[t] # "deleted"
    /\ Talk(toCoord, toNode, Held, pubs)
    /\ \A c \in Commands : Standing(pubs, rec, ev, stream, c)
    /\ \A m \in Rising : m.type = "publish" => Bounded(m, pubs, rec)
ServeInv == deletes \in Nat /\ (deletes = 0 => Serving)

LEMMA NothingSaid == ASSUME NEW p PROVE Talk(<<>>, <<>>, {}, p)
  BY DEF Talk, OncePerExchange, AllAwaited

(* The node is in a session again, or is told something nobody asked for.   *)
LEMMA ToldMore ==
    ASSUME NEW up, NEW down \in Seq(Downward), NEW held, NEW p, Talk(up, down, held, p), NEW m \in Downward, ~Answers(m)
    PROVE  Talk(up, Append(down, m), held, p)
  <1>1. /\ Len(down) \in Nat /\ Len(Append(down, m)) = Len(down) + 1
        /\ \A j \in 1..Len(down) + 1 : Append(down, m)[j] = IF j <= Len(down) THEN down[j] ELSE m
    OBVIOUS
  <1>2. \A j \in 1..Len(Append(down, m)) : Answers(Append(down, m)[j]) => j \in 1..Len(down) /\ Append(down, m)[j] = down[j]
    BY <1>1
  <1> QED BY <1>2 DEF Talk, OncePerExchange, AllAwaited

LEMMA SaidMore ==
    ASSUME NEW up \in Seq(Upward), NEW down, NEW held, NEW p, Talk(up, down, held, p), NEW m \in Upward, ~Asks(m)
    PROVE  Talk(Append(up, m), down, held, p)
  <1>1. /\ Len(up) \in Nat /\ Len(Append(up, m)) = Len(up) + 1
        /\ \A j \in 1..Len(up) + 1 : Append(up, m)[j] = IF j <= Len(up) THEN up[j] ELSE m
    OBVIOUS
  <1>2. \A j \in 1..Len(Append(up, m)) : Asks(Append(up, m)[j]) => j \in 1..Len(up) /\ Append(up, m)[j] = up[j]
    BY <1>1
  <1> QED BY <1>2 DEF Talk, OncePerExchange, AllAwaited

(* The node takes a message; what it waits for otherwise stays.             *)
LEMMA HeadTaken ==
    ASSUME NEW up, NEW down \in Seq(Downward), down # <<>>, NEW held, NEW p, NEW q, Talk(up, down, held, p),
           \A m : Awaited(m, p) /\ (Answers(Head(down)) => ~Same(m, Head(down))) => Awaited(m, q)
    PROVE  Talk(up, Tail(down), held, q)
  <1>1. /\ Len(down) \in Nat /\ Len(Tail(down)) = Len(down) - 1 /\ 1 \in 1..Len(down) /\ Head(down) = down[1]
        /\ \A j \in 1..Len(Tail(down)) : j + 1 \in 1..Len(down) /\ Tail(down)[j] = down[j + 1] /\ j + 1 # 1
    OBVIOUS
  <1>2. \A i, j \in 1..Len(Tail(down)) : i # j => i + 1 # j + 1
    BY <1>1
  <1>3. OncePerExchange(up, Tail(down), held)
    BY <1>1, <1>2 DEF Talk, OncePerExchange
  <1>4. AllAwaited(up, Tail(down), held, q)
    <2>1. \A i \in 1..Len(up) : Asks(up[i]) => Awaited(up[i], p) /\ (Answers(Head(down)) => ~Same(up[i], Head(down)))
      BY <1>1 DEF Talk, OncePerExchange, AllAwaited
    <2>2. \A m \in held : Asks(m) => Awaited(m, p) /\ (Answers(Head(down)) => ~Same(m, Head(down)))
      BY <1>1 DEF Talk, OncePerExchange, AllAwaited, Same
    <2>3. \A j \in 1..Len(Tail(down)) : Answers(Tail(down)[j]) =>
            Awaited(Tail(down)[j], p) /\ (Answers(Head(down)) => ~Same(Tail(down)[j], Head(down)))
      BY <1>1 DEF Talk, OncePerExchange, AllAwaited
    <2> QED BY <2>1, <2>2, <2>3 DEF AllAwaited
  <1> QED BY <1>3, <1>4 DEF Talk

(* The coordinator takes an operation.                                      *)
LEMMA OperationTaken ==
    ASSUME NEW up \in Seq(Upward), up # <<>>, NEW down, NEW p, Talk(up, down, {}, p)
    PROVE  Talk(Tail(up), down, {Head(up)}, p)
  <1>1. /\ Len(up) \in Nat /\ Len(Tail(up)) = Len(up) - 1 /\ 1 \in 1..Len(up) /\ Head(up) = up[1]
        /\ \A j \in 1..Len(Tail(up)) : j + 1 \in 1..Len(up) /\ Tail(up)[j] = up[j + 1] /\ j + 1 # 1
    OBVIOUS
  <1>2. \A i, j \in 1..Len(Tail(up)) : i # j => i + 1 # j + 1
    BY <1>1
  <1>3. OncePerExchange(Tail(up), down, {Head(up)})
    BY <1>1, <1>2 DEF Talk, OncePerExchange, Same
  <1>4. AllAwaited(Tail(up), down, {Head(up)}, p)
    BY <1>1 DEF Talk, AllAwaited
  <1> QED BY <1>3, <1>4 DEF Talk

(* The coordinator answers the operation it commits.                        *)
LEMMA OperationAnswered ==
    ASSUME NEW up, NEW down \in Seq(Downward), NEW m, NEW p, Talk(up, down, {m}, p), NEW a \in Downward,
           Asks(m), Answers(a), Same(a, m), Awaited(a, p)
    PROVE  Talk(up, Append(down, a), {}, p)
  <1>1. /\ Len(down) \in Nat /\ Len(Append(down, a)) = Len(down) + 1
        /\ \A j \in 1..Len(down) + 1 : Append(down, a)[j] = IF j <= Len(down) THEN down[j] ELSE a
    OBVIOUS
  <1>2. \A j \in 1..Len(Append(down, a)) : \/ j \in 1..Len(down) /\ Append(down, a)[j] = down[j]
                                           \/ j = Len(down) + 1 /\ Append(down, a)[j] = a
    BY <1>1
  <1>3. /\ \A i \in 1..Len(up) : Asks(up[i]) => ~Same(up[i], a)
        /\ \A j \in 1..Len(down) : Answers(down[j]) => ~Same(down[j], a) /\ ~Same(a, down[j])
    BY DEF Talk, OncePerExchange, Same
  <1>4. OncePerExchange(up, Append(down, a), {})
    BY <1>2, <1>3 DEF Talk, OncePerExchange
  <1>5. AllAwaited(up, Append(down, a), {}, p)
    BY <1>2 DEF Talk, AllAwaited
  <1> QED BY <1>4, <1>5 DEF Talk

LEMMA OperationDone ==
    ASSUME NEW up, NEW down, NEW held, NEW p, Talk(up, down, held, p) PROVE Talk(up, down, {}, p)
  BY DEF Talk, OncePerExchange, AllAwaited

(* The node asks anew, for exchanges that are not under way.                *)
LEMMA AskedAnew ==
    ASSUME NEW up \in Seq(Upward), NEW down, NEW held, NEW p, NEW q, Talk(up, down, held, p), NEW new \in Seq(Upward),
           \A m : Awaited(m, p) => Awaited(m, q),
           \A i \in 1..Len(new) : Awaited(new[i], q),
           \A i \in 1..Len(new) : IF OfAdmission(new[i]) THEN ~p[new[i].cmd].admission ELSE p[new[i].cmd].flight = 0,
           \A i, j \in 1..Len(new) : i # j => ~Same(new[i], new[j])
    PROVE  Talk(up \o new, down, held, q)
  <1>1. /\ \A i \in 1..Len(up) : (up \o new)[i] = up[i]
        /\ \A x \in 1..Len(new) : (up \o new)[Len(up) + x] = new[x]
        /\ \A i \in 1..Len(up) + Len(new) : i \in 1..Len(up) \/ \E x \in 1..Len(new) : i = Len(up) + x
    BY ConcatFacts
  <1>2. Len(up \o new) = Len(up) + Len(new)
    OBVIOUS
  <1>3. \A i \in 1..Len(up \o new) : \/ i \in 1..Len(up) /\ (up \o new)[i] = up[i]
                                     \/ \E x \in 1..Len(new) : i = Len(up) + x /\ (up \o new)[i] = new[x]
    BY <1>1, <1>2
  <1>4. ASSUME NEW m, Awaited(m, p), NEW x \in 1..Len(new) PROVE ~Same(m, new[x]) /\ ~Same(new[x], m)
    BY <1>4 DEF Awaited, Same
  <1> DEFINE all == up \o new
  <1>5. /\ \A i \in 1..Len(up) : Asks(up[i]) => Awaited(up[i], p)
        /\ \A j \in 1..Len(down) : Answers(down[j]) => Awaited(down[j], p)
        /\ \A m \in held : Asks(m) => Awaited(m, p)
    BY DEF Talk, AllAwaited
  <1>6. \A i \in 1..Len(all) : Asks(all[i]) => Awaited(all[i], q)
    BY <1>3, <1>5
  <1>7. \A i, j \in 1..Len(all) : i # j /\ Asks(all[i]) /\ Asks(all[j]) => ~Same(all[i], all[j])
    <2> SUFFICES ASSUME NEW i \in 1..Len(all), NEW j \in 1..Len(all), i # j, Asks(all[i]), Asks(all[j]) PROVE ~Same(all[i], all[j])
      OBVIOUS
    <2>1. CASE i \in 1..Len(up) /\ all[i] = up[i] /\ j \in 1..Len(up) /\ all[j] = up[j]
      BY <2>1 DEF Talk, OncePerExchange
    <2>2. CASE i \in 1..Len(up) /\ all[i] = up[i] /\ \E x \in 1..Len(new) : j = Len(up) + x /\ all[j] = new[x]
      BY <1>4, <1>5, <2>2
    <2>3. CASE j \in 1..Len(up) /\ all[j] = up[j] /\ \E x \in 1..Len(new) : i = Len(up) + x /\ all[i] = new[x]
      BY <1>4, <1>5, <2>3
    <2>4. CASE (\E x \in 1..Len(new) : i = Len(up) + x /\ all[i] = new[x]) /\ \E x \in 1..Len(new) : j = Len(up) + x /\ all[j] = new[x]
      BY <2>4
    <2> QED BY <1>3, <2>1, <2>2, <2>3, <2>4
  <1>8. \A i \in 1..Len(all), j \in 1..Len(down) : Asks(all[i]) /\ Answers(down[j]) => ~Same(all[i], down[j])
    BY <1>3, <1>4, <1>5 DEF Talk, OncePerExchange
  <1>9. \A m \in held : Asks(m) => \A i \in 1..Len(all) : Asks(all[i]) => ~Same(all[i], m)
    BY <1>3, <1>4, <1>5 DEF Talk, OncePerExchange
  <1>10. OncePerExchange(all, down, held)
    BY <1>7, <1>8, <1>9 DEF Talk, OncePerExchange
  <1>11. AllAwaited(all, down, held, q)
    BY <1>5, <1>6 DEF AllAwaited
  <1> QED BY <1>10, <1>11 DEF Talk

(* A batch ends where the ledger or the limit of a message ends.            *)
LEMMA BatchEnds ==
    ASSUME Assumptions, NEW r \in Ledgers, NEW e \in Records, NEW c \in Commands,
           r[c] # None, r[c].pub < Len(e[c])
    PROVE  /\ Len(PublicationBatch(r, e, c)) \in Nat \ {0} /\ r[c].pub \in Nat
           /\ r[c].pub + Len(PublicationBatch(r, e, c)) <= Len(e[c])
           /\ r[c].pub + Len(PublicationBatch(r, e, c)) <= r[c].pub + MaxBatch
           /\ \A k \in Nat : k <= Len(e[c]) /\ k <= r[c].pub + MaxBatch => k <= r[c].pub + Len(PublicationBatch(r, e, c))
  <1> DEFINE last == IF Len(e[c]) - r[c].pub > MaxBatch THEN r[c].pub + MaxBatch ELSE Len(e[c])
  <1>1. r[c] \in Executions /\ r[c].pub \in Nat /\ e[c] \in Seq(Kinds) /\ Len(e[c]) \in Nat
    BY DEF Ledgers, Records, Executions
  <1>2. /\ last \in Nat /\ r[c].pub < last /\ last <= Len(e[c]) /\ last <= r[c].pub + MaxBatch
        /\ \A k \in Nat : k <= Len(e[c]) /\ k <= r[c].pub + MaxBatch => k <= last
    BY <1>1 DEF Assumptions, RcpAssumption
  <1>3. PublicationBatch(r, e, c) = SubSeq(e[c], r[c].pub + 1, last)
    BY DEF PublicationBatch
  <1> HIDE DEF last
  <1>4. r[c].pub + 1 \in 1..last + 1 /\ last \in r[c].pub + 1 - 1..Len(e[c])
    BY <1>1, <1>2
  <1>5. Len(PublicationBatch(r, e, c)) = last - (r[c].pub + 1) + 1
    BY <1>1, <1>3, <1>4, SubSeqProperties
  <1>6. Len(PublicationBatch(r, e, c)) = last - r[c].pub
    BY <1>1, <1>2, <1>5
  <1> HIDE DEF PublicationBatch
  <1> DEFINE l == Len(PublicationBatch(r, e, c))
             b == r[c].pub
  <1>7. l = last - b /\ b \in Nat /\ last \in Nat /\ b < last
    BY <1>1, <1>2, <1>6
  <1>8. l \in Nat \ {0} /\ b + l = last
    <2> HIDE DEF l, b
    <2> QED BY <1>7
  <1> QED BY <1>1, <1>2, <1>8

(* Reading the ledger again drops no exchange that is under way.            *)
LEMMA RefreshKeeps ==
    ASSUME NEW p \in [Commands -> Publications], NEW r \in Ledgers, NEW e \in Records, NEW s, NEW c \in Commands,
           Standing(p, r, e, s, c), s[c].next \in Nat
    PROVE  /\ Refreshed(p, r, e)[c].admission = p[c].admission /\ Refreshed(p, r, e)[c].flight = p[c].flight
           /\ Refreshed(p, r, e)[c].open => r[c] # None
           /\ (p[c].admission \/ p[c].flight # 0) => Refreshed(p, r, e)[c].open
  <1>1. p[c] \in Publications /\ Len(e[c]) \in Nat /\ (r[c] # None => r[c].pub \in Nat)
    BY DEF Ledgers, Records, Executions
  <1>2. Refreshed(p, r, e)[c] = IF c \notin Owed(r, e) THEN Closed ELSE IF p[c].open THEN p[c] ELSE Opened
    BY DEF Refreshed
  <1>3. c \in Owed(r, e) <=> r[c] # None /\ (~r[c].terminal \/ ~r[c].acked \/ r[c].pub < Len(e[c]))
    BY DEF Owed
  <1>4. (p[c].admission \/ p[c].flight # 0) => p[c].open /\ c \in Owed(r, e)
    BY <1>1, <1>3 DEF Standing, Publications
  <1>5. CASE p[c].admission \/ p[c].flight # 0
    BY <1>2, <1>3, <1>4, <1>5
  <1>6. CASE ~p[c].admission /\ p[c].flight = 0
    <2>1. p[c].admission = FALSE
      BY <1>1, <1>6 DEF Publications
    <2>2. Refreshed(p, r, e)[c].admission = FALSE /\ Refreshed(p, r, e)[c].flight = 0
      BY <1>2, <1>6, <2>1 DEF Closed, Opened
    <2>3. c \notin Owed(r, e) => ~Refreshed(p, r, e)[c].open
      BY <1>2 DEF Closed
    <2> QED BY <1>3, <1>6, <2>1, <2>2, <2>3
  <1> QED BY <1>5, <1>6

(* What is sent to publish the ledger: to which exchange it belongs.        *)
LEMMA SentFields ==
    ASSUME NEW p \in [Commands -> Publications], NEW r, NEW e, NEW c \in Commands
    PROVE  /\ SentPublication(p, r, e, c).open = p[c].open
           /\ SentPublication(p, r, e, c).admission = (p[c].admission \/ (p[c].open /\ ~r[c].acked))
           /\ SentPublication(p, r, e, c).flight =
                IF Publishes(p, r, e, c) THEN r[c].pub + Len(PublicationBatch(r, e, c)) ELSE p[c].flight
  BY DEF SentPublication, Publications

LEMMA OutgoingForms ==
    ASSUME NEW p, NEW r, NEW e, NEW m \in Outgoing(p, r, e)
    PROVE  /\ m.cmd \in Owed(r, e) /\ m.cmd \in Commands
           /\ \/ m = AckExecution(m.cmd) /\ p[m.cmd].open /\ ~r[m.cmd].acked /\ ~p[m.cmd].admission
              \/ m = Publish(m.cmd, r[m.cmd].pub, PublicationBatch(r, e, m.cmd)) /\ Publishes(p, r, e, m.cmd)
  BY DEF Outgoing, AckExecution, Publish, Owed

(* The publications after a refresh and its sends.                          *)
LEMMA SentStands ==
    ASSUME Assumptions, NEW p \in [Commands -> Publications], NEW r \in Ledgers, NEW e \in Records, NEW s, NEW c \in Commands,
           Standing(p, r, e, s, c), s[c].next \in Nat, s[c].next <= Len(e[c]), NEW q,
           q[c] = SentPublication(Refreshed(p, r, e), r, e, c)
    PROVE  /\ Standing(q, r, e, s, c)
           /\ p[c].admission => q[c].admission
           /\ p[c].flight # 0 => q[c].flight = p[c].flight
           /\ (p[c].admission \/ p[c].flight # 0) => q[c].open
           /\ \/ q[c].flight = p[c].flight
              \/ /\ p[c].flight = 0 /\ r[c] # None /\ r[c].pub < Len(e[c])
                 /\ q[c].flight = r[c].pub + Len(PublicationBatch(r, e, c))
  <1> DEFINE f == Refreshed(p, r, e)
  <1>1. f \in [Commands -> Publications]
    BY RefreshedType
  <1>2. /\ f[c].admission = p[c].admission /\ f[c].flight = p[c].flight
        /\ f[c].open => r[c] # None
        /\ (p[c].admission \/ p[c].flight # 0) => f[c].open
    BY RefreshKeeps
  <1> HIDE DEF f
  <1>3. /\ q[c].open = f[c].open
        /\ q[c].admission = (f[c].admission \/ (f[c].open /\ ~r[c].acked))
        /\ q[c].flight = IF Publishes(f, r, e, c) THEN r[c].pub + Len(PublicationBatch(r, e, c)) ELSE f[c].flight
    BY <1>1, SentFields DEF f
  <1>4. q[c].open => r[c] # None
    BY <1>2, <1>3
  <1>5. q[c].admission => q[c].open /\ ~r[c].acked
    <2>1. p[c].admission => ~r[c].acked
      BY DEF Standing
    <2> QED BY <1>2, <1>3, <2>1
  <1>6. CASE Publishes(f, r, e, c)
    <2>1. f[c].open /\ f[c].flight = 0 /\ r[c] # None /\ r[c].pub < Len(e[c])
      BY <1>2, <1>6 DEF Publishes
    <2>2. /\ Len(PublicationBatch(r, e, c)) \in Nat \ {0} /\ r[c].pub \in Nat
          /\ r[c].pub + Len(PublicationBatch(r, e, c)) <= Len(e[c])
          /\ \A k \in Nat : k <= Len(e[c]) /\ k <= r[c].pub + MaxBatch => k <= r[c].pub + Len(PublicationBatch(r, e, c))
      BY <2>1, BatchEnds
    <2>3. q[c].flight = r[c].pub + Len(PublicationBatch(r, e, c))
      BY <1>3, <1>6
    <2>4. s[c].next <= r[c].pub + MaxBatch
      BY <2>1 DEF Standing
    <2>5. s[c].next <= q[c].flight
      BY <2>2, <2>3, <2>4
    <2>6. r[c].pub < q[c].flight /\ q[c].flight <= Len(e[c])
      BY <2>2, <2>3
    <2>7. Standing(q, r, e, s, c)
      BY <1>3, <1>4, <1>5, <2>1, <2>4, <2>5, <2>6 DEF Standing
    <2> QED BY <1>2, <1>3, <2>1, <2>3, <2>7
  <1>7. CASE ~Publishes(f, r, e, c)
    <2>1. q[c].flight = p[c].flight
      BY <1>2, <1>3, <1>7
    <2>2. Standing(q, r, e, s, c)
      BY <1>2, <1>3, <1>4, <1>5, <2>1 DEF Standing
    <2> QED BY <1>2, <1>3, <2>1, <2>2
  <1> QED BY <1>6, <1>7

Streams == [Commands -> [next : Nat, terminal : BOOLEAN]]

(* refresh_publications and send_pending open exchanges that are not under  *)
(* way, one message each, and keep the others.                              *)
LEMMA ResumedServes ==
    ASSUME Assumptions, NEW p \in [Commands -> Publications], NEW up \in Seq(Upward), NEW down, NEW held,
           NEW r \in Ledgers, NEW e \in Records, NEW s \in Streams, Resume(p, up, r, e), Talk(up, down, held, p),
           \A c \in Commands : Standing(p, r, e, s, c) /\ s[c].next <= Len(e[c])
    PROVE  /\ Talk(toCoord', down, held, pubs')
           /\ \A c \in Commands : Standing(pubs', r, e, s, c)
           /\ \A m \in Range(toCoord') : m.type = "publish" => m \in Range(up) \/ Bounded(m, pubs', r)
           /\ \A m \in Upward : m.type = "publish" /\ Bounded(m, p, r) /\ m.from + Len(m.events) <= Len(e[m.cmd])
                => Bounded(m, pubs', r)
  <1> DEFINE f == Refreshed(p, r, e)
             new == [c \in Commands |-> SentPublication(f, r, e, c)]
  <1>1. f \in [Commands -> Publications]
    BY RefreshedType
  <1>2. pubs' = new /\ \E q \in InSendOrder(Outgoing(f, r, e), r) : toCoord' = up \o q
    BY DEF Resume
  <1>3. \A c \in Commands : s[c].next \in Nat
    BY DEF Streams
  <1>4. ASSUME NEW c \in Commands
        PROVE  /\ Standing(new, r, e, s, c)
               /\ p[c].admission => new[c].admission
               /\ p[c].flight # 0 => new[c].flight = p[c].flight
               /\ (p[c].admission \/ p[c].flight # 0) => new[c].open
               /\ \/ new[c].flight = p[c].flight
                  \/ /\ p[c].flight = 0 /\ r[c] # None /\ r[c].pub < Len(e[c])
                     /\ new[c].flight = r[c].pub + Len(PublicationBatch(r, e, c))
    <2>1. new[c] = SentPublication(Refreshed(p, r, e), r, e, c)
      OBVIOUS
    <2> HIDE DEF new, f
    <2> QED BY <1>3, <2>1, SentStands
  <1>5. ASSUME NEW c \in Commands
        PROVE  /\ new[c].open = f[c].open
               /\ new[c].admission = (f[c].admission \/ (f[c].open /\ ~r[c].acked))
               /\ new[c].flight = IF Publishes(f, r, e, c) THEN r[c].pub + Len(PublicationBatch(r, e, c)) ELSE f[c].flight
    <2>1. new[c] = SentPublication(f, r, e, c)
      OBVIOUS
    <2> HIDE DEF new, f
    <2> QED BY <1>1, <2>1, SentFields
  <1>6. ASSUME NEW c \in Commands
        PROVE  /\ f[c].admission = p[c].admission /\ f[c].flight = p[c].flight
               /\ f[c].open => r[c] # None
    BY <1>3, RefreshKeeps
  <1> HIDE DEF new, f
  <1>7. PICK q \in InSendOrder(Outgoing(f, r, e), r) : toCoord' = up \o q
    BY <1>2
  <1>8. /\ IsFiniteSet(Outgoing(f, r, e)) /\ Outgoing(f, r, e) \subseteq Upward
    BY OutgoingFaithful
  <1>9. q \in SetToSeqs(Outgoing(f, r, e))
    BY DEF InSendOrder
  <1>10. q \in Seq(Outgoing(f, r, e)) /\ Range(q) \subseteq Outgoing(f, r, e)
    BY <1>8, <1>9, Enumerated
  <1>11. q \in Seq(Upward)
    BY <1>8, <1>10, SeqMonotonic
  <1>12. \A i, j \in 1..Len(q) : q[i] \in Outgoing(f, r, e) /\ (i # j => q[i] # q[j])
    <2>1. q \in [1..Cardinality(Outgoing(f, r, e)) -> Outgoing(f, r, e)] /\ Cardinality(Outgoing(f, r, e)) \in Nat
      BY <1>8, <1>9, FS_CardinalityType DEF SetToSeqs
    <2>2. Len(q) = Cardinality(Outgoing(f, r, e))
      BY <1>10, <2>1
    <2> QED BY <1>9, <2>1, <2>2 DEF SetToSeqs
  <1>13. ASSUME NEW m \in Outgoing(f, r, e)
         PROVE  /\ m.cmd \in Commands
                /\ \/ /\ m = AckExecution(m.cmd) /\ m.type = "ack_execution"
                      /\ f[m.cmd].open /\ ~r[m.cmd].acked /\ ~f[m.cmd].admission
                   \/ /\ m = Publish(m.cmd, r[m.cmd].pub, PublicationBatch(r, e, m.cmd)) /\ m.type = "publish"
                      /\ m.from = r[m.cmd].pub /\ m.events = PublicationBatch(r, e, m.cmd) /\ Publishes(f, r, e, m.cmd)
    BY OutgoingForms DEF AckExecution, Publish
  <1>14. ASSUME NEW m \in Outgoing(f, r, e)
         PROVE  /\ Awaited(m, new)
                /\ IF OfAdmission(m) THEN ~p[m.cmd].admission ELSE p[m.cmd].flight = 0
                /\ m.type = "publish" => Bounded(m, new, r)
    <2>1. CASE m.type = "ack_execution"
      <3>1. m.cmd \in Commands /\ f[m.cmd].open /\ ~r[m.cmd].acked /\ ~f[m.cmd].admission
        BY <1>13, <2>1
      <3>2. new[m.cmd].open /\ new[m.cmd].admission /\ ~p[m.cmd].admission
        BY <1>5, <1>6, <3>1
      <3> QED BY <2>1, <3>1, <3>2 DEF Awaited, OfAdmission
    <2>2. CASE m.type = "publish"
      <3>1. m.cmd \in Commands /\ m.from = r[m.cmd].pub /\ m.events = PublicationBatch(r, e, m.cmd) /\ Publishes(f, r, e, m.cmd)
        BY <1>13, <2>2
      <3>2. f[m.cmd].open /\ f[m.cmd].flight = 0 /\ r[m.cmd].pub < Len(e[m.cmd]) /\ r[m.cmd] # None
        BY <1>6, <3>1 DEF Publishes
      <3>3. /\ Len(m.events) \in Nat \ {0} /\ r[m.cmd].pub \in Nat
            /\ m.from + Len(m.events) <= r[m.cmd].pub + MaxBatch
        BY <3>1, <3>2, BatchEnds
      <3>4. new[m.cmd].open /\ new[m.cmd].flight = m.from + Len(m.events) /\ p[m.cmd].flight = 0
        BY <1>5, <1>6, <3>1, <3>2
      <3>5. new[m.cmd].flight # 0 /\ m.from <= r[m.cmd].pub /\ m.from + Len(m.events) <= new[m.cmd].flight
        BY <3>1, <3>3, <3>4
      <3> QED BY <2>2, <3>1, <3>2, <3>3, <3>4, <3>5 DEF Awaited, OfAdmission, Bounded
    <2> QED BY <1>13, <2>1, <2>2
  <1>15. Talk(toCoord', down, held, pubs')
    <2>1. ASSUME NEW m, Awaited(m, p) PROVE Awaited(m, new)
      <3>1. m.cmd \in Commands /\ (p[m.cmd].admission \/ p[m.cmd].flight # 0)
        BY <2>1 DEF Awaited
      <3>2. /\ p[m.cmd].admission => new[m.cmd].admission
            /\ p[m.cmd].flight # 0 => new[m.cmd].flight = p[m.cmd].flight
            /\ new[m.cmd].open
        BY <1>4, <3>1
      <3> QED BY <2>1, <3>1, <3>2 DEF Awaited, OfAdmission
    <2>2. \A i, j \in 1..Len(q) : i # j => ~Same(q[i], q[j])
      <3> SUFFICES ASSUME NEW i \in 1..Len(q), NEW j \in 1..Len(q), i # j, Same(q[i], q[j]) PROVE FALSE
        OBVIOUS
      <3>1. q[i] \in Outgoing(f, r, e) /\ q[j] \in Outgoing(f, r, e) /\ q[i] # q[j] /\ q[i].cmd = q[j].cmd
        BY <1>12 DEF Same
      <3>2. q[i].type = q[j].type
        BY <1>13, <3>1 DEF Same, OfAdmission
      <3> QED BY <1>13, <3>1, <3>2
    <2>3. Talk(up \o q, down, held, new)
      BY <1>11, <1>12, <1>14, <2>1, <2>2, AskedAnew
    <2> QED BY <1>2, <1>7, <2>3
  <1>16. \A m \in Range(toCoord') : m.type = "publish" => m \in Range(up) \/ Bounded(m, pubs', r)
    <2>1. Range(up \o q) = Range(up) \cup Range(q)
      BY <1>11, RangeConcat
    <2> QED BY <1>2, <1>7, <1>10, <1>14, <2>1
  <1>17. ASSUME NEW m \in Upward, m.type = "publish", Bounded(m, p, r), m.from + Len(m.events) <= Len(e[m.cmd])
         PROVE  Bounded(m, new, r)
    <2> DEFINE c == m.cmd
               k == m.from + Len(m.events)
    <2>1. c \in Commands /\ m.from \in Nat /\ Len(m.events) \in Nat /\ k \in Nat
      BY <1>17, UpwardFields
    <2>2. r[c] # None /\ m.from <= r[c].pub /\ k <= r[c].pub + MaxBatch /\ (p[c].flight # 0 => k <= p[c].flight)
      BY <1>17 DEF Bounded
    <2>3. CASE new[c].flight = p[c].flight
      BY <2>2, <2>3 DEF Bounded
    <2>4. CASE r[c].pub < Len(e[c]) /\ new[c].flight = r[c].pub + Len(PublicationBatch(r, e, c))
      <3>1. k <= r[c].pub + Len(PublicationBatch(r, e, c))
        <4>1. \A n \in Nat : n <= Len(e[c]) /\ n <= r[c].pub + MaxBatch => n <= r[c].pub + Len(PublicationBatch(r, e, c))
          BY <2>1, <2>2, <2>4, BatchEnds
        <4>2. k <= Len(e[c])
          BY <1>17
        <4> HIDE DEF k
        <4> QED BY <2>1, <2>2, <4>1, <4>2
      <3> QED BY <2>2, <2>4, <3>1 DEF Bounded
    <2> QED BY <1>4, <2>1, <2>3, <2>4
  <1> QED BY <1>2, <1>4, <1>15, <1>16, <1>17

(* While no task is deleted every command the ledgers know is admitted.     *)
LEMMA ServedCommands ==
    ASSUME Assumptions, TypeOK, JournalInv, Serving
    PROVE  /\ \A c \in Commands : cmd[c] # "deleted" /\ stream[c].next \in Nat /\ stream[c].next <= Len(ev[c])
           /\ \A m \in Rising : m \in Upward /\ m.cmd \in Commands /\ Admitted(m.cmd)
           /\ \A m \in Rising : m.type = "publish" => m.from + Len(m.events) <= Len(ev[m.cmd])
           /\ stream \in Streams
  <1>1. ASSUME NEW c \in Commands
        PROVE  cmd[c] # "deleted" /\ stream[c].next \in Nat /\ stream[c].next <= Len(ev[c])
    <2>1. Rows(c) /\ stream[c].next \in Nat /\ Len(ev[c]) \in Nat /\ cmd[c] \in {"new", "admitted", "deleted"}
      BY RowsOf DEF TypeOK, TablesOK, LedgerOK
    <2>2. TaskOf[c] \in Tasks
      BY DEF Assumptions, RcpAssumption
    <2>3. cmd[c] # "deleted"
      BY <2>1, <2>2 DEF Serving, Rows, Consistent
    <2>4. CASE cmd[c] = "new"
      <3>1. stream[c].next = 0
        BY <2>1, <2>4 DEF Rows, Unheard, NoStream
      <3> QED BY <2>1, <2>3, <3>1
    <2>5. CASE cmd[c] = "admitted"
      BY <2>1, <2>3, <2>5 DEF Rows, Copied, Admitted
    <2> QED BY <2>1, <2>3, <2>4, <2>5
  <1>2. ASSUME NEW m \in Rising PROVE m \in Upward /\ m.cmd \in Commands /\ Admitted(m.cmd) /\ Honest(m)
    <2>1. m \in Upward /\ m.cmd \in Commands /\ Honest(m)
      BY MessagesTyped, UpwardFields DEF JournalInv, MessagesInv
    <2>2. cmd[m.cmd] \in {"new", "admitted", "deleted"} /\ cmd[m.cmd] # "new" /\ cmd[m.cmd] # "deleted"
      BY <1>1, <2>1 DEF TypeOK, TablesOK, Honest
    <2> QED BY <2>1, <2>2 DEF Admitted
  <1>3. stream \in Streams
    BY DEF TypeOK, TablesOK, Streams
  <1> QED BY <1>1, <1>2, <1>3 DEF Honest

(* The ends of the connection after a step that leaves it established.      *)
LEMMA WiredKept ==
    ASSUME Wired, UNCHANGED <<live, lastConn, handling, sends>>, Range(toNode') \subseteq Range(toNode),
           live # 0 \/ UNCHANGED <<toNode, toCoord>>
    PROVE  Wired' /\ Held' = Held
  <1>1. Held' = Held
    BY DEF Held
  <1>2. Wired'
    BY DEF Wired
  <1> QED BY <1>1, <1>2

(* A step that leaves connection and publications alone, and no execution   *)
(* of the ledger less published or acknowledged.                            *)
LEMMA QuietServes ==
    ASSUME TypeOK, TypeOK', Serving, UNCHANGED <<live, lastConn, toNode, toCoord, handling, sends, task, stream, pubs>>,
           node' # "failed",
           \A c \in Commands :
             /\ rec'[c] = None <=> rec[c] = None
             /\ rec[c] # None => rec'[c].acked = rec[c].acked /\ rec'[c].pub = rec[c].pub
             /\ Len(ev[c]) <= Len(ev'[c])
    PROVE  Serving'
  <1>1. Wired' /\ Held' = Held /\ Rising' = Rising
    BY WiredKept DEF Serving, Rising
  <1>2. Talk(toCoord', toNode', Held', pubs')
    BY <1>1 DEF Serving
  <1>3. ASSUME NEW c \in Commands PROVE Standing(pubs', rec', ev', stream', c)
    <2>1. Standing(pubs, rec, ev, stream, c)
      BY DEF Serving
    <2>2. Len(ev[c]) \in Nat /\ Len(ev'[c]) \in Nat /\ pubs[c].flight \in Nat /\ Len(ev[c]) <= Len(ev'[c])
      BY DEF TypeOK, LedgerOK, Publications
    <2>3. pubs' = pubs /\ stream' = stream
      OBVIOUS
    <2>4. pubs[c].open => rec'[c] # None
      BY <2>1 DEF Standing
    <2>5. pubs[c].admission => pubs[c].open /\ ~rec'[c].acked
      BY <2>1 DEF Standing
    <2>6. pubs[c].flight # 0 => /\ pubs[c].open /\ rec'[c].pub < pubs[c].flight /\ pubs[c].flight <= Len(ev'[c])
                                /\ stream[c].next <= pubs[c].flight
      BY <2>1, <2>2 DEF Standing
    <2>7. rec'[c] # None => stream[c].next <= rec'[c].pub + MaxBatch
      BY <2>1 DEF Standing
    <2> QED BY <2>3, <2>4, <2>5, <2>6, <2>7 DEF Standing
  <1>4. ASSUME NEW m \in Rising', m.type = "publish" PROVE Bounded(m, pubs', rec')
    <2>1. m.cmd \in Commands /\ Bounded(m, pubs, rec)
      BY <1>1, <1>4, MessagesTyped, UpwardFields DEF Serving
    <2> QED BY <2>1 DEF Bounded
  <1>5. \A t \in Tasks : task'[t] # "deleted"
    BY DEF Serving
  <1> QED BY <1>1, <1>2, <1>3, <1>4, <1>5 DEF Serving

(* The session publishes the ledger again on the connection it has.         *)
LEMMA SessionServes ==
    ASSUME Assumptions, TypeOK, TypeOK', JournalInv, Serving, CoordIdle, UNCHANGED <<live, lastConn, node>>, live # 0,
           Range(toNode') \subseteq Range(toNode),
           NEW p \in [Commands -> Publications], Resume(p, toCoord, rec', ev'), Talk(toCoord, toNode', Held, p),
           \A c \in Commands : Standing(p, rec', ev', stream, c) /\ Len(ev[c]) <= Len(ev'[c]),
           \A m \in Rising : m.type = "publish" => Bounded(m, p, rec')
    PROVE  Serving'
  <1>1. UNCHANGED <<task, stream, handling, sends>>
    BY CoordIdleFacts DEF coordDurable
  <1>2. Wired' /\ Held' = Held
    BY <1>1, WiredKept DEF Serving
  <1>3. toCoord \in Seq(Upward) /\ rec' \in Ledgers /\ ev' \in Records /\ stream \in Streams
    BY ServedCommands DEF TypeOK, ConnectionOK, LedgerOK, Ledgers, Records
  <1>4. \A c \in Commands : stream[c].next <= Len(ev'[c])
    <2> SUFFICES ASSUME NEW c \in Commands PROVE stream[c].next <= Len(ev'[c])
      OBVIOUS
    <2>1. Len(ev[c]) \in Nat /\ Len(ev'[c]) \in Nat /\ Len(ev[c]) <= Len(ev'[c])
      BY DEF TypeOK, LedgerOK
    <2>2. stream[c].next \in Nat /\ stream[c].next <= Len(ev[c])
      BY ServedCommands
    <2> QED BY <2>1, <2>2
  <1>5. /\ Talk(toCoord', toNode', Held, pubs')
        /\ \A c \in Commands : Standing(pubs', rec', ev', stream, c)
        /\ \A m \in Range(toCoord') : m.type = "publish" => m \in Range(toCoord) \/ Bounded(m, pubs', rec')
        /\ \A m \in Upward : m.type = "publish" /\ Bounded(m, p, rec') /\ m.from + Len(m.events) <= Len(ev'[m.cmd])
             => Bounded(m, pubs', rec')
    BY <1>3, <1>4, ResumedServes
  <1>6. ASSUME NEW m \in Rising, m.type = "publish" PROVE Bounded(m, pubs', rec')
    <2>1. m \in Upward /\ m.cmd \in Commands /\ m.from + Len(m.events) <= Len(ev[m.cmd])
      BY <1>6, ServedCommands
    <2>2. m.from \in Nat /\ Len(m.events) \in Nat /\ Len(ev[m.cmd]) \in Nat /\ Len(ev'[m.cmd]) \in Nat
      BY <1>6, <2>1, UpwardFields DEF TypeOK, LedgerOK
    <2>3. m.from + Len(m.events) <= Len(ev'[m.cmd])
      <3>1. Len(ev[m.cmd]) <= Len(ev'[m.cmd])
        BY <2>1
      <3> QED BY <2>1, <2>2, <3>1
    <2> QED BY <1>5, <1>6, <2>1, <2>3
  <1>7. \A m \in Rising' : m.type = "publish" => Bounded(m, pubs', rec')
    BY <1>1, <1>5, <1>6 DEF Rising
  <1> QED BY <1>1, <1>2, <1>5, <1>7 DEF Serving

(* A request of the coordinator is taken: nobody waits for it.              *)
LEMMA RequestTaken ==
    ASSUME TypeOK, Serving, NEW type \in {"execute", "stop"}, Receive(type), Taken
    PROVE  /\ Talk(toCoord, toNode', Held, pubs) /\ Range(toNode') \subseteq Range(toNode)
           /\ live # 0 /\ UNCHANGED <<live, lastConn>>
  <1>1. toNode \in Seq(Downward) /\ toNode # <<>> /\ Head(toNode).type = type /\ live # 0
    BY DEF TypeOK, ConnectionOK, Receive, InSession
  <1>2. ~Answers(Head(toNode))
    BY <1>1 DEF Answers
  <1>3. Talk(toCoord, toNode, Held, pubs)
    BY DEF Serving
  <1>4. \A m : Awaited(m, pubs) /\ (Answers(Head(toNode)) => ~Same(m, Head(toNode))) => Awaited(m, pubs)
    OBVIOUS
  <1>5. Talk(toCoord, Tail(toNode), Held, pubs)
    BY <1>1, <1>3, <1>4, HeadTaken
  <1> QED BY <1>1, <1>5, TakenRange DEF Taken

LEMMA HandleExecuteServes ==
    ASSUME Assumptions, TypeOK, TypeOK', JournalInv, Serving, CoordIdle, HandleExecute
    PROVE  Serving'
  <1> DEFINE c == Head(toNode).cmd
  <1>1. Receive("execute") /\ Taken /\ UNCHANGED node
    BY DEF HandleExecute
  <1>2. c \in Commands
    BY <1>1, ReceivedKnown
  <1>3. /\ Talk(toCoord, toNode', Held, pubs) /\ Range(toNode') \subseteq Range(toNode)
        /\ live # 0 /\ UNCHANGED <<live, lastConn>>
    BY <1>1, RequestTaken
  <1> HIDE DEF c
  <1>4. /\ rec \in Ledgers /\ ev \in Records /\ pubs \in [Commands -> Publications]
        /\ rec' \in Ledgers /\ ev' \in Records
    BY LedgerTypes DEF TypeOK, LedgerOK, Ledgers, Records
  <1>5. CASE draining
    <2>1. UNCHANGED <<rec, ev>> /\ Resume(pubs, toCoord, rec, ev)
      BY <1>5 DEF HandleExecute
    <2>2. \A d \in Commands : Standing(pubs, rec', ev', stream, d) /\ Len(ev[d]) <= Len(ev'[d])
      BY <1>4, <2>1 DEF Serving, Records
    <2>3. \A m \in Rising : m.type = "publish" => Bounded(m, pubs, rec')
      BY <2>1 DEF Serving
    <2>4. Resume(pubs, toCoord, rec', ev')
      BY <2>1
    <2> QED BY <1>1, <1>3, <1>4, <2>2, <2>3, <2>4, SessionServes
  <1>6. CASE ~draining
    <2>1. /\ rec' = Admit(c)
          /\ ev' = [ev EXCEPT ![c] = IF rec[c] = None THEN <<"started">> ELSE @]
          /\ Resume(pubs, toCoord, rec', ev')
      BY <1>6 DEF HandleExecute, c
    <2>2. ASSUME NEW d \in Commands, d # c PROVE rec'[d] = rec[d] /\ ev'[d] = ev[d]
      BY <1>4, <2>1, <2>2 DEF Admit, Ledgers, Records
    <2>3. rec[c] # None => rec'[c] # None /\ rec'[c].pub = rec[c].pub /\ ~rec'[c].acked /\ ev'[c] = ev[c]
      <3>1. rec[c] # None => rec'[c].pub = rec[c].pub /\ ~rec'[c].acked /\ ev'[c] = ev[c]
        BY <1>2, <1>4, <2>1 DEF Admit, Ledgers, Executions, Records
      <3>2. ASSUME rec[c] # None PROVE rec'[c] \in Executions
        <4>1. rec'[c] = [rec[c] EXCEPT !.acked = FALSE] /\ rec[c] \in Executions
          BY <1>2, <1>4, <2>1, <3>2 DEF Admit, Ledgers
        <4> QED BY <4>1 DEF Executions
      <3> QED BY <3>1, <3>2 DEF Assumptions, LedgerAssumption
    <2>4. rec[c] = None => rec'[c].pub = 0 /\ ~rec'[c].acked /\ ev[c] = <<>> /\ stream[c].next = 0
      <3>1. Rows(c) /\ stream[c].next \in Nat /\ stream[c].next <= Len(ev[c])
        BY <1>2, RowsOf, ServedCommands
      <3>2. rec[c] = None => ev[c] = <<>> /\ stream[c].next = 0
        BY <3>1 DEF Rows, Consistent
      <3> QED BY <1>2, <1>4, <2>1, <3>2 DEF Admit, Ledgers
    <2>5. ASSUME NEW d \in Commands PROVE Standing(pubs, rec', ev', stream, d) /\ Len(ev[d]) <= Len(ev'[d])
      <3>1. Standing(pubs, rec, ev, stream, d) /\ Len(ev[d]) \in Nat /\ Len(ev'[d]) \in Nat
        BY <1>4 DEF Serving, Records
      <3>2. CASE d # c
        BY <2>2, <3>1, <3>2 DEF Standing
      <3>3. CASE d = c /\ rec[c] # None
        BY <2>3, <3>1, <3>3 DEF Standing
      <3>4. CASE d = c /\ rec[c] = None
        <4>1. ~pubs[c].open /\ ~pubs[c].admission /\ pubs[c].flight = 0
          BY <3>1, <3>4 DEF Standing
        <4>2. stream[c].next <= rec'[c].pub + MaxBatch /\ Len(ev[c]) <= Len(ev'[c])
          BY <2>4, <3>1, <3>4 DEF Assumptions, RcpAssumption
        <4> QED BY <3>4, <4>1, <4>2 DEF Standing
      <3> QED BY <3>2, <3>3, <3>4
    <2>6. ASSUME NEW m \in Rising, m.type = "publish" PROVE Bounded(m, pubs, rec')
      <3>1. m.cmd \in Commands /\ Bounded(m, pubs, rec)
        BY <2>6, ServedCommands DEF Serving
      <3>2. rec[m.cmd] # None => rec'[m.cmd] # None /\ rec'[m.cmd].pub = rec[m.cmd].pub
        BY <2>2, <2>3, <3>1
      <3> QED BY <3>1, <3>2 DEF Bounded
    <2> QED BY <1>1, <1>3, <1>4, <2>1, <2>5, <2>6, SessionServes
  <1> QED BY <1>5, <1>6

LEMMA CommitSignalServes ==
    ASSUME Assumptions, TypeOK, TypeOK', JournalInv, Serving, CoordIdle, CommitSignal
    PROVE  Serving'
  <1>1. /\ live # 0 /\ Resume(pubs, toCoord, rec, ev) /\ UNCHANGED <<rec, ev, node, live, lastConn, toNode>>
    BY DEF CommitSignal, InSession, nodeDurable
  <1>2. pubs \in [Commands -> Publications] /\ \A d \in Commands : Len(ev[d]) <= Len(ev'[d])
    BY <1>1 DEF TypeOK, LedgerOK
  <1>3. Resume(pubs, toCoord, rec', ev') /\ Talk(toCoord, toNode', Held, pubs)
    BY <1>1 DEF Serving
  <1>4. /\ \A d \in Commands : Standing(pubs, rec', ev', stream, d) /\ Len(ev[d]) <= Len(ev'[d])
        /\ \A m \in Rising : m.type = "publish" => Bounded(m, pubs, rec')
    BY <1>1, <1>2 DEF Serving
  <1>5. Range(toNode') \subseteq Range(toNode)
    BY <1>1
  <1> QED BY <1>1, <1>2, <1>3, <1>4, <1>5, SessionServes

(* An answer finds the exchange it belongs to.                              *)
LEMMA AnswerAwaited ==
    ASSUME TypeOK, Serving, NEW type \in {"acknowledged", "accepted"}, Receive(type)
    PROVE  /\ Answers(Head(toNode)) /\ Awaited(Head(toNode), pubs) /\ Head(toNode).cmd \in Commands /\ Head(toNode).type = type
           /\ rec[Head(toNode).cmd] # None
  <1>1. toNode \in Seq(Downward) /\ toNode # <<>> /\ Head(toNode).type = type
    BY DEF TypeOK, ConnectionOK, Receive
  <1>2. 1 \in 1..Len(toNode) /\ Head(toNode) = toNode[1]
    BY <1>1
  <1>3. Answers(Head(toNode))
    BY <1>1 DEF Answers
  <1>4. Awaited(Head(toNode), pubs)
    BY <1>2, <1>3 DEF Serving, Talk, AllAwaited
  <1>5. Head(toNode).cmd \in Commands /\ pubs[Head(toNode).cmd].open
    BY <1>4 DEF Awaited
  <1> QED BY <1>1, <1>3, <1>4, <1>5 DEF Serving, Standing

LEMMA RefreshStands ==
    ASSUME NEW p \in [Commands -> Publications], NEW r \in Ledgers, NEW e \in Records, NEW s, NEW c \in Commands,
           Standing(p, r, e, s, c), s[c].next \in Nat
    PROVE  Standing(Refreshed(p, r, e), r, e, s, c)
  <1>1. /\ Refreshed(p, r, e)[c].admission = p[c].admission /\ Refreshed(p, r, e)[c].flight = p[c].flight
        /\ Refreshed(p, r, e)[c].open => r[c] # None
        /\ (p[c].admission \/ p[c].flight # 0) => Refreshed(p, r, e)[c].open
    BY RefreshKeeps
  <1> QED BY <1>1 DEF Standing

LEMMA AcknowledgeAdmissionServes ==
    ASSUME Assumptions, TypeOK, TypeOK', JournalInv, Serving, CoordIdle, AcknowledgeAdmission
    PROVE  Serving'
  <1> DEFINE c == Head(toNode).cmd
             r == [rec EXCEPT ![c].acked = TRUE]
             p == [pubs EXCEPT ![c].admission = FALSE]
  <1>1. Receive("acknowledged")
    BY DEF AcknowledgeAdmission
  <1>2. /\ Answers(Head(toNode)) /\ Awaited(Head(toNode), pubs) /\ c \in Commands
        /\ Head(toNode).type = "acknowledged" /\ rec[c] # None
    BY <1>1, AnswerAwaited
  <1>3. pubs[c].open /\ pubs[c].admission
    BY <1>2 DEF Awaited, OfAdmission
  <1>4. /\ rec' = r /\ pubs' = Refreshed(p, r, ev) /\ Taken
        /\ UNCHANGED <<ev, node, toCoord>>
    BY <1>2, <1>3 DEF AcknowledgeAdmission
  <1>5. OfAdmission(Head(toNode)) /\ toNode # <<>> /\ live # 0
    BY <1>1, <1>2 DEF OfAdmission, Receive, InSession
  <1>6. UNCHANGED <<task, stream, handling, sends, live, lastConn>> /\ toNode' = Tail(toNode)
    BY <1>4, CoordIdleFacts DEF coordDurable, Taken
  <1>7. Wired' /\ Held' = Held
    BY <1>1, <1>4, <1>5, <1>6, WiredKept, TakenRange DEF Serving
  <1>8. /\ rec \in Ledgers /\ rec[c] \in Executions /\ rec' \in Ledgers /\ ev \in Records
        /\ pubs \in [Commands -> Publications] /\ toNode \in Seq(Downward)
    BY <1>2, LedgerTypes DEF Ledgers, TypeOK, LedgerOK, ConnectionOK
  <1>9. p \in [Commands -> Publications] /\ \A d \in Commands : d # c => p[d] = pubs[d]
    BY <1>2, <1>8 DEF Publications
  <1>10. p[c].open = pubs[c].open /\ ~p[c].admission /\ p[c].flight = pubs[c].flight
    BY <1>2, <1>8 DEF Publications
  <1>11. rec'[c].pub = rec[c].pub /\ \A d \in Commands : d # c => rec'[d] = rec[d]
    <2> HIDE DEF c
    <2> QED BY <1>2, <1>4, <1>8 DEF Ledgers, Executions
  <1>12. rec'[c] # None
    <2>1. rec'[c] = [rec[c] EXCEPT !.acked = TRUE]
      BY <1>2, <1>4, <1>8 DEF Ledgers
    <2>2. rec'[c] \in Executions
      BY <1>8, <2>1 DEF Executions
    <2> QED BY <2>2 DEF Assumptions, LedgerAssumption
  <1>13. pubs' = Refreshed(p, rec', ev) /\ ev' = ev
    BY <1>4
  <1> HIDE DEF p, r
  <1>14. ASSUME NEW d \in Commands PROVE Standing(p, rec', ev, stream, d)
    <2>1. Standing(pubs, rec, ev, stream, d)
      BY DEF Serving
    <2>2. CASE d # c
      BY <1>9, <1>11, <2>1, <2>2 DEF Standing
    <2>3. CASE d = c
      BY <1>10, <1>11, <1>12, <1>2, <2>1, <2>3 DEF Standing
    <2> QED BY <2>2, <2>3
  <1>15. \A d \in Commands : stream[d].next \in Nat
    BY ServedCommands
  <1>16. ASSUME NEW d \in Commands PROVE Standing(pubs', rec', ev', stream', d)
    BY <1>6, <1>8, <1>9, <1>13, <1>14, <1>15, RefreshStands
  <1>17. ASSUME NEW d \in Commands
         PROVE  /\ pubs'[d].admission = p[d].admission /\ pubs'[d].flight = p[d].flight
                /\ (p[d].admission \/ p[d].flight # 0) => pubs'[d].open
    BY <1>8, <1>9, <1>13, <1>14, <1>15, RefreshKeeps
  <1>18. \A d \in Commands : pubs'[d].flight = pubs[d].flight
    BY <1>9, <1>10, <1>17
  <1>19. ASSUME NEW m, Awaited(m, pubs), ~Same(m, Head(toNode)) PROVE Awaited(m, pubs')
    <2>1. m.cmd \in Commands
      BY <1>19 DEF Awaited
    <2>2. CASE m.cmd = c
      <3>1. ~OfAdmission(m)
        BY <1>5, <1>19, <2>2 DEF Same
      <3>2. pubs[c].flight # 0 /\ pubs'[c].flight = pubs[c].flight /\ pubs'[c].open
        BY <1>2, <1>10, <1>17, <1>18, <1>19, <2>2, <3>1 DEF Awaited
      <3> QED BY <1>19, <2>2, <3>1, <3>2 DEF Awaited
    <2>3. CASE m.cmd # c
      <3>1. p[m.cmd] = pubs[m.cmd] /\ pubs'[m.cmd].flight = pubs[m.cmd].flight /\ pubs'[m.cmd].admission = pubs[m.cmd].admission
        BY <1>9, <1>17, <2>1, <2>3
      <3>2. pubs[m.cmd].admission \/ pubs[m.cmd].flight # 0
        BY <1>19 DEF Awaited
      <3>3. pubs'[m.cmd].open
        BY <1>17, <2>1, <3>1, <3>2
      <3> QED BY <1>19, <3>1, <3>3 DEF Awaited
    <2> QED BY <2>2, <2>3
  <1>20. Talk(toCoord', toNode', Held', pubs')
    <2>1. Talk(toCoord, toNode, Held, pubs)
      BY DEF Serving
    <2>2. Talk(toCoord, Tail(toNode), Held, pubs')
      BY <1>2, <1>5, <1>8, <1>19, <2>1, HeadTaken
    <2> QED BY <1>4, <1>6, <1>7, <2>2
  <1>21. Rising' = Rising
    BY <1>4, <1>6 DEF Rising
  <1>22. ASSUME NEW m \in Rising', m.type = "publish" PROVE Bounded(m, pubs', rec')
    <2>1. m.cmd \in Commands /\ Bounded(m, pubs, rec)
      BY <1>21, <1>22, ServedCommands DEF Serving
    <2>2. rec'[m.cmd].pub = rec[m.cmd].pub /\ (rec[m.cmd] # None => rec'[m.cmd] # None)
      BY <1>11, <1>12, <2>1
    <2> QED BY <1>18, <2>1, <2>2 DEF Bounded
  <1> QED BY <1>4, <1>6, <1>7, <1>16, <1>20, <1>22 DEF Serving

LEMMA EventsAcceptedServes ==
    ASSUME Assumptions, TypeOK, TypeOK', JournalInv, Serving, CoordIdle, EventsAccepted
    PROVE  Serving'
  <1> DEFINE c == Head(toNode).cmd
             through == Head(toNode).through + 1
             r == [rec EXCEPT ![c].pub = IF @ < through THEN through ELSE @]
             p == [pubs EXCEPT ![c].flight = 0]
  <1>1. Receive("accepted")
    BY DEF EventsAccepted
  <1>2. /\ Answers(Head(toNode)) /\ Awaited(Head(toNode), pubs) /\ c \in Commands
        /\ Head(toNode).type = "accepted" /\ rec[c] # None
    BY <1>1, AnswerAwaited
  <1>3. ~OfAdmission(Head(toNode)) /\ toNode # <<>> /\ live # 0
    BY <1>1, <1>2 DEF OfAdmission, Receive, InSession
  <1>4. pubs[c].open /\ pubs[c].flight = through /\ pubs[c].flight # 0
    BY <1>2, <1>3 DEF Awaited
  <1>5. /\ rec' = r /\ Resume(p, toCoord, r, ev) /\ Taken /\ UNCHANGED <<ev, node>>
    BY <1>2, <1>4 DEF EventsAccepted
  <1>6. UNCHANGED <<live, lastConn>> /\ toNode' = Tail(toNode) /\ Range(toNode') \subseteq Range(toNode)
    BY <1>1, <1>5, TakenRange DEF Taken
  <1>7. /\ rec \in Ledgers /\ rec[c] \in Executions /\ rec' \in Ledgers /\ ev \in Records
        /\ pubs \in [Commands -> Publications] /\ toNode \in Seq(Downward)
    BY <1>2, LedgerTypes DEF Ledgers, TypeOK, LedgerOK, ConnectionOK
  <1>8. /\ p \in [Commands -> Publications] /\ \A d \in Commands : d # c => p[d] = pubs[d]
        /\ p[c].open = pubs[c].open /\ p[c].admission = pubs[c].admission /\ p[c].flight = 0
    BY <1>2, <1>7 DEF Publications
  <1>9. Standing(pubs, rec, ev, stream, c) /\ rec[c].pub \in Nat /\ through \in Nat
    BY <1>2, <1>4, <1>7 DEF Serving, Executions, Publications
  <1>10. rec[c].pub < through /\ stream[c].next <= through
    BY <1>4, <1>9 DEF Standing
  <1>11. rec'[c] = [rec[c] EXCEPT !.pub = through] /\ \A d \in Commands : d # c => rec'[d] = rec[d]
    <2>1. rec'[c] = [rec[c] EXCEPT !.pub = IF rec[c].pub < through THEN through ELSE rec[c].pub]
      BY <1>2, <1>5, <1>7 DEF Ledgers
    <2>2. \A d \in Commands : d # c => rec'[d] = rec[d]
      BY <1>5, <1>7 DEF Ledgers
    <2> QED BY <1>10, <2>1, <2>2
  <1>12. /\ rec'[c] \in Executions /\ rec'[c].pub = through /\ rec'[c].acked = rec[c].acked
    <2> HIDE DEF through, c
    <2> QED BY <1>7, <1>9, <1>11 DEF Executions
  <1>13. rec'[c] # None
    BY <1>12 DEF Assumptions, LedgerAssumption
  <1>14. Resume(p, toCoord, rec', ev') /\ ev' = ev
    BY <1>5
  <1> HIDE DEF p, r, through
  <1>15. ASSUME NEW d \in Commands PROVE Standing(p, rec', ev', stream, d) /\ Len(ev[d]) <= Len(ev'[d])
    <2>1. Standing(pubs, rec, ev, stream, d) /\ Len(ev[d]) \in Nat /\ stream[d].next \in Nat
      BY <1>7, ServedCommands DEF Serving, Records
    <2>2. CASE d # c
      BY <1>8, <1>11, <1>14, <2>1, <2>2 DEF Standing
    <2>3. CASE d = c
      <3>1. stream[c].next <= rec'[c].pub + MaxBatch
        BY <1>9, <1>10, <1>12, <2>1, <2>3 DEF Assumptions, RcpAssumption
      <3>2. p[c].admission => p[c].open /\ ~rec'[c].acked
        BY <1>8, <1>9, <1>12 DEF Standing
      <3> QED BY <1>8, <1>13, <1>14, <2>1, <2>3, <3>1, <3>2 DEF Standing
    <2> QED BY <2>2, <2>3
  <1>16. ASSUME NEW m \in Rising, m.type = "publish" PROVE Bounded(m, p, rec')
    <2>1. m \in Upward /\ m.cmd \in Commands /\ Bounded(m, pubs, rec)
      BY <1>16, ServedCommands DEF Serving
    <2>2. CASE m.cmd # c
      BY <1>8, <1>11, <2>1, <2>2 DEF Bounded
    <2>3. CASE m.cmd = c
      <3>1. m.from \in Nat /\ Len(m.events) \in Nat /\ MaxBatch \in Nat
        BY <1>16, <2>1, UpwardFields DEF Assumptions, RcpAssumption
      <3>2. m.from <= rec[c].pub /\ m.from + Len(m.events) <= rec[c].pub + MaxBatch
        BY <2>1, <2>3 DEF Bounded
      <3>3. m.from <= rec'[c].pub /\ m.from + Len(m.events) <= rec'[c].pub + MaxBatch
        <4>1. rec[c].pub \in Nat /\ rec[c].pub < rec'[c].pub /\ rec'[c].pub \in Nat
          BY <1>9, <1>10, <1>12
        <4> DEFINE a == m.from
                   l == Len(m.events)
                   b == rec[c].pub
                   n == rec'[c].pub
        <4>2. /\ a \in Nat /\ l \in Nat /\ b \in Nat /\ n \in Nat /\ b < n /\ MaxBatch \in Nat
              /\ a <= b /\ a + l <= b + MaxBatch
          BY <3>1, <3>2, <4>1
        <4>3. a <= n /\ a + l <= n + MaxBatch
          <5> HIDE DEF a, l, b, n
          <5> QED BY <4>2
        <4> QED BY <4>3
      <3> QED BY <1>8, <1>13, <2>3, <3>3 DEF Bounded
    <2> QED BY <2>2, <2>3
  <1>17. ASSUME NEW m, Awaited(m, pubs), ~Same(m, Head(toNode)) PROVE Awaited(m, p)
    <2>1. m.cmd \in Commands
      BY <1>17 DEF Awaited
    <2>2. CASE m.cmd = c
      <3>1. OfAdmission(m)
        BY <1>3, <1>17, <2>2 DEF Same
      <3>2. pubs[c].open /\ pubs[c].admission /\ m.type # "publish" /\ m.type # "accepted"
        BY <1>17, <2>2, <3>1 DEF Awaited, OfAdmission
      <3> QED BY <1>8, <2>1, <2>2, <3>1, <3>2 DEF Awaited
    <2>3. CASE m.cmd # c
      BY <1>8, <1>17, <2>1, <2>3 DEF Awaited
    <2> QED BY <2>2, <2>3
  <1>18. Talk(toCoord, toNode', Held, p)
    <2>1. Talk(toCoord, toNode, Held, pubs)
      BY DEF Serving
    <2> QED BY <1>2, <1>3, <1>6, <1>7, <1>17, <2>1, HeadTaken
  <1> QED BY <1>3, <1>5, <1>6, <1>8, <1>14, <1>15, <1>16, <1>18, SessionServes

(* The node acknowledges a stop: the coordinator answers nothing to it.     *)
LEMMA StopTold ==
    ASSUME Assumptions, TypeOK, TypeOK', JournalInv, Serving, CoordIdle, NEW c \in Commands, live # 0,
           Range(toNode') \subseteq Range(toNode), Talk(toCoord, toNode', Held, pubs),
           toCoord' \in {toCoord, Append(toCoord, AckStop(c))}, UNCHANGED <<rec, ev, node, pubs, live, lastConn>>
    PROVE  Serving'
  <1>1. UNCHANGED <<task, stream, handling, sends>>
    BY CoordIdleFacts DEF coordDurable
  <1>2. Wired' /\ Held' = Held
    BY <1>1, WiredKept DEF Serving
  <1>3. toCoord \in Seq(Upward) /\ AckStop(c) \in Upward /\ ~Asks(AckStop(c)) /\ AckStop(c).type = "ack_stop"
    BY Constructors DEF TypeOK, ConnectionOK, AckStop, Asks
  <1>4. Talk(toCoord', toNode', Held, pubs)
    BY <1>3, SaidMore
  <1>5. \A m \in Range(toCoord') : m \in Range(toCoord) \/ m.type = "ack_stop"
    <2>1. Range(Append(toCoord, AckStop(c))) = Range(toCoord) \cup {AckStop(c)}
      BY <1>3, RangeAppend
    <2> QED BY <1>3, <2>1
  <1>6. \A m \in Rising' : m \in Rising \/ m.type = "ack_stop"
    BY <1>1, <1>5 DEF Rising
  <1>7. \A m \in Rising' : m.type = "publish" => Bounded(m, pubs', rec')
    BY <1>6 DEF Serving
  <1> QED BY <1>1, <1>2, <1>4, <1>7 DEF Serving

LEMMA RecordStopServes ==
    ASSUME Assumptions, TypeOK, TypeOK', JournalInv, Serving, CoordIdle, RecordStop
    PROVE  Serving'
  <1>1. Receive("stop") /\ Taken /\ UNCHANGED <<rec, ev, node, pubs>>
        /\ toCoord' \in {toCoord, Append(toCoord, AckStop(Head(toNode).cmd))}
    BY DEF RecordStop
  <1>2. Head(toNode).cmd \in Commands
    BY <1>1, ReceivedKnown
  <1>3. /\ Talk(toCoord, toNode', Held, pubs) /\ Range(toNode') \subseteq Range(toNode)
        /\ live # 0 /\ UNCHANGED <<live, lastConn>>
    BY <1>1, RequestTaken
  <1> QED BY <1>1, <1>2, <1>3, StopTold

LEMMA CancelTurnServes ==
    ASSUME Assumptions, TypeOK, TypeOK', JournalInv, Serving, CoordIdle, CancelTurn
    PROVE  Serving'
  <1>1. /\ stopping \in Commands /\ UNCHANGED <<rec, ev, node, pubs, live, lastConn, toNode>>
        /\ toCoord' = IF live = 0 THEN toCoord ELSE Append(toCoord, AckStop(stopping))
    BY DEF CancelTurn, nodeDurable, TypeOK, LedgerOK
  <1>2. CASE live = 0
    <2>1. UNCHANGED <<task, stream, handling, sends, toCoord>> /\ node' # "failed"
      BY <1>1, <1>2, CoordIdleFacts DEF coordDurable, Serving
    <2>2. \A c \in Commands : Len(ev[c]) <= Len(ev'[c])
      BY <1>1 DEF TypeOK, LedgerOK
    <2> QED BY <1>1, <2>1, <2>2, QuietServes
  <1>3. CASE live # 0
    <2>1. Talk(toCoord, toNode', Held, pubs) /\ Range(toNode') \subseteq Range(toNode)
      BY <1>1 DEF Serving
    <2> QED BY <1>1, <1>3, <2>1, StopTold
  <1> QED BY <1>2, <1>3

LEMMA SessionKeepsServing ==
    ASSUME Assumptions, TypeOK, TypeOK', JournalInv, Serving, Session
    PROVE  Serving'
  <1>1. CoordIdle
    BY DEF Session
  <1>2. ~Rejected
    <2>1. Receive("error") => FALSE
      <3> SUFFICES ASSUME Receive("error") PROVE FALSE
        OBVIOUS
      <3>1. toNode \in Seq(Downward) /\ toNode # <<>> /\ Head(toNode).type = "error"
        BY DEF TypeOK, ConnectionOK, Receive
      <3>2. Head(toNode) \in Range(toNode)
        BY <3>1, RangeTail
      <3> QED BY <3>1, <3>2 DEF Serving, Wired
    <2> QED BY <2>1 DEF Rejected
  <1> QED BY <1>1, <1>2, HandleExecuteServes, AcknowledgeAdmissionServes, EventsAcceptedServes, RecordStopServes,
             CancelTurnServes, CommitSignalServes DEF Session

(* A turn writes to the ledger of its command.                              *)
LEMMA WrittenServes ==
    ASSUME Assumptions, TypeOK, TypeOK', Serving, CoordIdle, UNCHANGED <<wire, pubs, node>>,
           NEW c \in Commands, rec[c] # None, NEW kind \in Kinds,
           ev' = [ev EXCEPT ![c] = Append(@, kind)] \/ ev' = ev,
           rec' = [rec EXCEPT ![c].terminal = TRUE] \/ rec' = rec
    PROVE  Serving'
  <1>1. rec \in Ledgers /\ ev \in Records /\ rec[c] \in Executions /\ ev[c] \in Seq(Kinds)
    BY LedgerTypes DEF Ledgers, Records
  <1>2. /\ rec'[c] # None /\ rec'[c].pub = rec[c].pub /\ rec'[c].acked = rec[c].acked
        /\ \A d \in Commands : d # c => rec'[d] = rec[d]
    <2>1. CASE rec' = rec
      BY <2>1
    <2>2. CASE rec' = [rec EXCEPT ![c].terminal = TRUE]
      <3>1. rec'[c] = [rec[c] EXCEPT !.terminal = TRUE] /\ \A d \in Commands : d # c => rec'[d] = rec[d]
        BY <1>1, <2>2 DEF Ledgers
      <3>2. rec'[c] \in Executions /\ rec'[c].pub = rec[c].pub /\ rec'[c].acked = rec[c].acked
        BY <1>1, <3>1 DEF Executions
      <3> QED BY <3>1, <3>2 DEF Assumptions, LedgerAssumption
    <2> QED BY <2>1, <2>2
  <1>3. (\A d \in Commands : d # c => ev'[d] = ev[d]) /\ Len(ev[c]) <= Len(ev'[c])
    <2>1. CASE ev' = ev
      BY <1>1, <2>1
    <2>2. CASE ev' = [ev EXCEPT ![c] = Append(@, kind)]
      <3>1. ev'[c] = Append(ev[c], kind) /\ \A d \in Commands : d # c => ev'[d] = ev[d]
        BY <1>1, <2>2 DEF Records
      <3> QED BY <1>1, <3>1
    <2> QED BY <2>1, <2>2
  <1>4. ASSUME NEW d \in Commands
        PROVE  /\ rec'[d] = None <=> rec[d] = None
               /\ rec[d] # None => rec'[d].acked = rec[d].acked /\ rec'[d].pub = rec[d].pub
               /\ Len(ev[d]) <= Len(ev'[d])
    <2>1. Len(ev[d]) \in Nat
      BY <1>1 DEF Records
    <2> QED BY <1>2, <1>3, <2>1
  <1>5. UNCHANGED <<live, lastConn, toNode, toCoord, handling, sends, task, stream, pubs>> /\ node' # "failed"
    BY CoordIdleFacts DEF coordDurable, wire, Serving
  <1> QED BY <1>4, <1>5, QuietServes

(* A step that changes neither ledger, connection nor publications.         *)
LEMMA IdleServes ==
    ASSUME TypeOK, TypeOK', Serving, CoordIdle, UNCHANGED <<wire, pubs, rec, ev>>, node' # "failed"
    PROVE  Serving'
  <1>1. UNCHANGED <<live, lastConn, toNode, toCoord, handling, sends, task, stream, pubs>>
    BY CoordIdleFacts DEF coordDurable, wire
  <1>2. \A d \in Commands : Len(ev[d]) <= Len(ev'[d])
    BY DEF TypeOK, LedgerOK
  <1> QED BY <1>1, <1>2, QuietServes

LEMMA TurnServes ==
    ASSUME Assumptions, TypeOK, TypeOK', TurnsInv, Serving, NEW t \in Tasks, Turn(t)
    PROVE  Serving'
  <1>1. CoordIdle /\ node # "failed"
    BY DEF Turn, Serving
  <1>2. CASE Register(t) \/ CheckStop(t)
    BY <1>1, <1>2, IdleServes DEF Register, CheckStop, TurnOnly, nodeDurable
  <1>3. CASE LinkFails(t) \/ Join(t)
    BY <1>1, <1>3, IdleServes DEF LinkFails, Join, nodeDurable
  <1>4. CASE AppendTurnStarted(t)
    <2>1. turn[t].cmd \in Commands /\ rec[turn[t].cmd] # None
      BY <1>4, RunningTurn DEF AppendTurnStarted, Step
    <2>2. UNCHANGED <<wire, pubs, node, rec>>
      BY <1>4 DEF AppendTurnStarted, TurnOnly
    <2>3. ev' = [ev EXCEPT ![turn[t].cmd] = Append(@, "turn")] \/ ev' = ev
      BY <1>4, <2>1, LedgerTypes DEF AppendTurnStarted, Records
    <2>4. "turn" \in Kinds
      BY DEF Kinds
    <2> QED BY <1>1, <2>1, <2>2, <2>3, <2>4, WrittenServes
  <1>5. CASE AppendProgress(t)
    <2>1. turn[t].cmd \in Commands /\ rec[turn[t].cmd] # None
      BY <1>5, RunningTurn DEF AppendProgress
    <2>2. UNCHANGED <<wire, pubs, node, rec>>
      BY <1>5 DEF AppendProgress, TurnOnly
    <2>3. ev' = [ev EXCEPT ![turn[t].cmd] = Append(@, "progress")] /\ "progress" \in Kinds
      BY <1>5 DEF AppendProgress, InsertEvent, Kinds
    <2> QED BY <1>1, <2>1, <2>2, <2>3, WrittenServes
  <1>6. ASSUME NEW kind \in Terminals, Finish(turn[t].cmd, kind), TurnOnly,
               turn[t].step \in {"checked", "started"}
        PROVE  Serving'
    <2>1. turn[t].cmd \in Commands /\ rec[turn[t].cmd] # None
      BY <1>6, RunningTurn
    <2>2. UNCHANGED <<wire, pubs, node>>
      BY <1>6 DEF TurnOnly
    <2>3. kind \in Kinds
      BY DEF Kinds
    <2>4. ev' = [ev EXCEPT ![turn[t].cmd] = Append(@, kind)] /\ rec' = [rec EXCEPT ![turn[t].cmd].terminal = TRUE]
      BY <1>6 DEF Finish, InsertEvent
    <2> QED BY <1>1, <2>1, <2>2, <2>3, <2>4, WrittenServes
  <1>7. CASE FinishUnstarted(t)
    BY <1>6, <1>7, EndKinds DEF FinishUnstarted, Step
  <1>8. CASE FinishTurn(t)
    BY <1>6, <1>8, EndKinds DEF FinishTurn, Step
  <1> QED BY <1>2, <1>3, <1>4, <1>5, <1>7, <1>8 DEF Turn, Turns

(* The connection is lost, with or without one of the processes.            *)
LEMMA LostServes ==
    ASSUME Assumptions, TypeOK, TypeOK', Serving, LinkLost, pubs' = NoPublications, UNCHANGED <<rec, ev, stream, task>>,
           node' # "failed", sends' \subseteq sends, handling' \subseteq handling
    PROVE  Serving'
  <1>1. live' = 0 /\ toNode' = <<>> /\ toCoord' = <<>> /\ lastConn' = lastConn
    BY DEF LinkLost
  <1>2. \A h \in handling' : h.conn \in 1..lastConn
    BY DEF Serving, Wired
  <1>3. Held' = {}
    <2>1. \A h \in handling' : h.conn # 0
      BY <1>2
    <2> QED BY <1>1, <2>1 DEF Held
  <1>4. Wired'
    BY <1>1, <1>2, EmptyRange DEF Serving, Wired
  <1>5. Talk(toCoord', toNode', Held', pubs')
    BY <1>1, <1>3, NothingSaid
  <1>6. \A c \in Commands : ~pubs'[c].open /\ ~pubs'[c].admission /\ pubs'[c].flight = 0
    BY DEF NoPublications, Closed
  <1>7. \A c \in Commands : Standing(pubs', rec', ev', stream', c)
    BY <1>6 DEF Serving, Standing
  <1>8. Rising' \subseteq Rising
    BY <1>1, EmptyRange DEF Rising
  <1>9. ASSUME NEW m \in Rising', m.type = "publish" PROVE Bounded(m, pubs', rec')
    <2>1. m.cmd \in Commands /\ Bounded(m, pubs, rec)
      BY <1>8, <1>9, MessagesTyped, UpwardFields DEF Serving
    <2> QED BY <1>6, <2>1 DEF Bounded
  <1> QED BY <1>4, <1>5, <1>7, <1>9 DEF Serving

LEMMA ProcessServes ==
    ASSUME Assumptions, TypeOK, TypeOK', Serving, Process
    PROVE  Serving'
  <1>1. CoordIdle /\ UNCHANGED <<stream, task, sends, handling>> /\ node # "failed"
    BY CoordIdleFacts DEF Process, coordDurable, Serving
  <1>2. CASE Drain
    BY <1>1, <1>2, IdleServes DEF Drain, nodeDurable
  <1>3. CASE Drained
    <2>1. LinkLost /\ pubs' = NoPublications /\ UNCHANGED <<rec, ev>> /\ node' = "down"
      BY <1>3 DEF Drained, Exit, nodeDurable
    <2> QED BY <1>1, <2>1, LostServes
  <1>4. CASE Restart
    BY <1>1, <1>4, IdleServes DEF Restart, nodeDurable
  <1> QED BY <1>2, <1>3, <1>4 DEF Process

LEMMA FaultServes ==
    ASSUME Assumptions, TypeOK, TypeOK', Serving, LoseLink \/ NodeCrash \/ CoordinatorCrash
    PROVE  Serving'
  <1>1. LinkLost /\ pubs' = NoPublications /\ UNCHANGED <<rec, ev>> /\ node' # "failed"
    BY DEF LoseLink, NodeCrash, CoordinatorCrash, SessionLost, Exit, nodeDurable, Serving
  <1>2. UNCHANGED <<stream, task>> /\ sends' \subseteq sends /\ handling' \subseteq handling
    BY DEF LoseLink, NodeCrash, CoordinatorCrash, coordDurable, coordVolatile
  <1> QED BY <1>1, <1>2, LostServes

(* append_contiguous_execution_events, in terms of the ledger: the cursor   *)
(* moves to the end of the batch, unless it is there already.               *)
LEMMA AppendEffect ==
    ASSUME TypeOK, JournalInv, NEW h \in handling, AppendEvents(h),
           Fits(h.msg.cmd, h.msg.from, h.msg.events)
    PROVE  /\ h.msg.cmd \in Commands /\ \A d \in Commands : d # h.msg.cmd => stream'[d] = stream[d]
           /\ stream'[h.msg.cmd].next = IF h.msg.from + Len(h.msg.events) > stream[h.msg.cmd].next
                                        THEN h.msg.from + Len(h.msg.events) ELSE stream[h.msg.cmd].next
           /\ \/ stream'[h.msg.cmd] = stream[h.msg.cmd]
              \/ /\ stream'[h.msg.cmd].next \in 1..Len(ev[h.msg.cmd])
                 /\ stream'[h.msg.cmd].terminal = IsTerminal(ev[h.msg.cmd][stream'[h.msg.cmd].next])
           /\ Reply(h, Accepted(h.msg.cmd, stream'[h.msg.cmd].next - 1))
  <1> DEFINE c == h.msg.cmd
             from == h.msg.from
             events == h.msg.events
             new == New(c, from, events)
             n == stream[c].next
             next == n + Len(new)
  <1>1. h.msg \in Rising /\ c \in Commands /\ from \in Nat /\ events \in Seq(Kinds) /\ h.msg.type = "publish"
    BY UpwardFields DEF AppendEvents, TypeOK, ConnectionOK, Rising
  <1>2. Admitted(c) /\ from <= n /\ n \in Nat /\ Len(events) \in Nat
    BY <1>1 DEF Fits, TypeOK, TablesOK
  <1>3. /\ new \in Seq(Entries) /\ n - from \in Nat
        /\ Len(new) = IF Len(events) > n - from THEN Len(events) - (n - from) ELSE 0
        /\ \A i \in 1..Len(new) : /\ (n - from) + i \in 1..Len(events)
                                  /\ new[i] = Record(c, n + i - 1, events[(n - from) + i])
    BY <1>1, <1>2, NewRecords DEF TypeOK
  <1>4. /\ from + Len(events) <= Len(ev[c]) /\ Len(ev[c]) \in Nat
        /\ \A i \in 1..Len(events) : events[i] = ev[c][from + i]
    BY <1>1, <1>2 DEF JournalInv, MessagesInv, Honest, TypeOK, LedgerOK
  <1>5. /\ stream' = [stream EXCEPT ![c] = [next |-> n + Len(new),
                       terminal |-> IF new = <<>> THEN @.terminal ELSE IsTerminal(Last(new).kind)]]
        /\ Reply(h, Accepted(c, next - 1))
    <2>1. Fits(c, from, events)
      OBVIOUS
    <2>2. stream' = [stream EXCEPT ![c] = [next |-> n + Len(new),
                       terminal |-> IF new = <<>> THEN @.terminal ELSE IsTerminal(Last(new).kind)]]
      BY <2>1 DEF AppendEvents
    <2>3. Reply(h, Accepted(c, next - 1))
      BY <2>1 DEF AppendEvents
    <2> QED BY <2>2, <2>3
  <1>11. next = n + Len(new)
    OBVIOUS
  <1> HIDE DEF new, c, from, events, next
  <1>6. /\ \A d \in Commands : d # c => stream'[d] = stream[d]
        /\ stream'[c].next = n + Len(new)
        /\ stream'[c] = [next |-> n + Len(new), terminal |-> IF new = <<>> THEN stream[c].terminal ELSE IsTerminal(Last(new).kind)]
    BY <1>1, <1>5 DEF TypeOK, TablesOK
  <1>7. n + Len(new) = IF from + Len(events) > n THEN from + Len(events) ELSE n
    <2> HIDE DEF n
    <2> QED BY <1>1, <1>2, <1>3
  <1>8. ASSUME new = <<>> PROVE stream'[c] = stream[c]
    <2>1. n + Len(new) = n
      BY <1>2, <1>8
    <2>2. stream'[c] = [next |-> n, terminal |-> stream[c].terminal]
      BY <1>6, <1>8, <2>1
    <2>3. stream[c] = [next |-> n, terminal |-> stream[c].terminal]
      BY <1>1 DEF TypeOK, TablesOK
    <2> QED BY <2>2, <2>3
  <1>9. ASSUME new # <<>>
        PROVE  stream'[c].next \in 1..Len(ev[c]) /\ stream'[c].terminal = IsTerminal(ev[c][stream'[c].next])
    <2>10. Len(new) \in Nat \ {0} /\ Last(new) = new[Len(new)]
      BY <1>3, <1>9 DEF Last
    <2>1. Len(new) \in Nat \ {0} /\ Last(new) = new[Len(new)] /\ Len(new) \in 1..Len(new)
      BY <2>10
    <2>2. stream'[c].terminal = IsTerminal(Last(new).kind)
      BY <1>6, <1>9
    <2>3. /\ (n - from) + Len(new) \in 1..Len(events)
          /\ Last(new) = Record(c, n + Len(new) - 1, events[(n - from) + Len(new)])
      BY <1>3, <2>1
    <2> HIDE DEF n
    <2>4. from + ((n - from) + Len(new)) = n + Len(new) /\ n + Len(new) \in 1..Len(ev[c])
      BY <1>1, <1>2, <1>3, <1>4, <2>1, <2>3
    <2>5. Last(new).kind = events[(n - from) + Len(new)]
      BY <2>3 DEF Record
    <2>6. events[(n - from) + Len(new)] = ev[c][from + ((n - from) + Len(new))]
      BY <1>4, <2>3
    <2>7. stream'[c].terminal = IsTerminal(ev[c][stream'[c].next])
      BY <1>6, <2>2, <2>4, <2>5, <2>6
    <2>8. stream'[c].next \in 1..Len(ev[c])
      BY <1>6, <2>4
    <2> QED BY <2>7, <2>8
  <1>10. /\ \/ stream'[c] = stream[c]
            \/ stream'[c].next \in 1..Len(ev[c]) /\ stream'[c].terminal = IsTerminal(ev[c][stream'[c].next])
         /\ Reply(h, Accepted(c, stream'[c].next - 1))
         /\ stream'[c].next = IF from + Len(events) > n THEN from + Len(events) ELSE n
         /\ c \in Commands /\ \A d \in Commands : d # c => stream'[d] = stream[d]
    <2>1. stream'[c].next = IF from + Len(events) > n THEN from + Len(events) ELSE n
      BY <1>6, <1>7
    <2>2. Reply(h, Accepted(c, stream'[c].next - 1))
      <3>1. next = stream'[c].next
        BY <1>6, <1>11
      <3> QED BY <1>5, <3>1, Zenon
    <2> QED BY <1>1, <1>6, <1>8, <1>9, <2>1, <2>2
  <1> QED BY <1>10, Zenon DEF c, from, events, n

(* A terminal record is the last of its ledger, and a settled command has   *)
(* all of it in the journal.                                                *)
Sealed(c) ==
    /\ \A i \in 1..Len(ev[c]) : IsTerminal(ev[c][i]) => i = Len(ev[c]) /\ Ended(c)
    /\ Settled(c) => Ended(c) /\ stream[c].next = Len(ev[c])
SealInv == \A c \in Commands : Sealed(c)

(* What a step writes to the ledger of a command.                           *)
Writes(c) ==
    \/ ev'[c] = <<>> /\ ~Settled(c)
    \/ ev'[c] = ev[c] /\ (Ended(c) => Ended(c)')
    \/ ~Ended(c) /\ \E kind \in Kinds : ev'[c] = Append(ev[c], kind) /\ (IsTerminal(kind) => Ended(c)')

LEMMA SealedStep ==
    ASSUME TypeOK, NEW c \in Commands, Sealed(c), Writes(c),
           \/ stream'[c] = stream[c] \/ stream'[c] = NoStream
           \/ /\ ev'[c] = ev[c] /\ stream'[c].next \in 1..Len(ev[c])
              /\ stream'[c].terminal = IsTerminal(ev[c][stream'[c].next])
    PROVE  Sealed(c)'
  <1>1. ev[c] \in Seq(Kinds) /\ Len(ev[c]) \in Nat
    BY DEF TypeOK, LedgerOK
  <1>2. \A i \in 1..Len(ev'[c]) : IsTerminal(ev'[c][i]) => i = Len(ev'[c]) /\ Ended(c)'
    <2>1. CASE ev'[c] = <<>>
      BY <2>1
    <2>2. CASE ev'[c] = ev[c] /\ (Ended(c) => Ended(c)')
      BY <2>2 DEF Sealed
    <2>3. CASE ~Ended(c) /\ \E kind \in Kinds : ev'[c] = Append(ev[c], kind) /\ (IsTerminal(kind) => Ended(c)')
      <3>1. PICK kind \in Kinds : ev'[c] = Append(ev[c], kind) /\ (IsTerminal(kind) => Ended(c)')
        BY <2>3
      <3>2. /\ Len(ev'[c]) = Len(ev[c]) + 1
            /\ \A i \in 1..Len(ev[c]) + 1 : ev'[c][i] = IF i <= Len(ev[c]) THEN ev[c][i] ELSE kind
        BY <1>1, <3>1
      <3>3. \A i \in 1..Len(ev[c]) : ~IsTerminal(ev[c][i])
        BY <2>3 DEF Sealed
      <3> QED BY <1>1, <3>1, <3>2, <3>3
    <2> QED BY <2>1, <2>2, <2>3 DEF Writes
  <1>3. Settled(c)' => Ended(c)' /\ stream'[c].next = Len(ev'[c])
    <2> SUFFICES ASSUME Settled(c)' PROVE Ended(c)' /\ stream'[c].next = Len(ev'[c])
      OBVIOUS
    <2>1. CASE stream'[c] = stream[c]
      <3>1. Settled(c) /\ Ended(c) /\ stream[c].next = Len(ev[c])
        BY <2>1 DEF Settled, Sealed
      <3> QED BY <2>1, <3>1 DEF Writes
    <2>2. stream'[c] # NoStream
      BY DEF Settled, NoStream
    <2>3. CASE /\ ev'[c] = ev[c] /\ stream'[c].next \in 1..Len(ev[c])
               /\ stream'[c].terminal = IsTerminal(ev[c][stream'[c].next])
      BY <1>2, <2>3 DEF Settled
    <2> QED BY <2>1, <2>2, <2>3
  <1> QED BY <1>2, <1>3 DEF Sealed

LEMMA SessionWrites ==
    ASSUME Assumptions, TypeOK, TypeOK', JournalInv, Session, NEW d \in Commands
    PROVE  Writes(d)
  <1> DEFINE c == Head(toNode).cmd
  <1>1. rec \in Ledgers /\ ev \in Records /\ rec' \in Ledgers /\ ev' \in Records
    BY LedgerTypes DEF TypeOK, LedgerOK, Ledgers, Records
  <1>2. CASE rec'[d] = rec[d] /\ ev'[d] = ev[d]
    BY <1>2 DEF Writes, Ended
  <1>3. CASE HandleExecute
    <2>1. c \in Commands
      BY <1>3, ReceivedKnown DEF HandleExecute
    <2> HIDE DEF c
    <2>2. CASE draining
      BY <1>2, <1>3, <2>2 DEF HandleExecute
    <2>3. CASE ~draining
      <3>1. /\ rec' = Admit(c)
            /\ ev' = [ev EXCEPT ![c] = IF rec[c] = None THEN <<"started">> ELSE @]
        BY <1>3, <2>3 DEF HandleExecute, c
      <3>2. CASE d # c
        <4>1. rec'[d] = rec[d] /\ ev'[d] = ev[d]
          BY <1>1, <3>1, <3>2 DEF Admit, Ledgers, Records
        <4> QED BY <1>2, <4>1
      <3>3. CASE d = c /\ rec[c] # None
        <4>1. rec'[d] = [rec[d] EXCEPT !.acked = FALSE] /\ ev'[d] = ev[d] /\ rec[d] \in Executions
          BY <1>1, <2>1, <3>1, <3>3 DEF Admit, Ledgers, Records
        <4>2. rec'[d] \in Executions /\ rec'[d].terminal = rec[d].terminal
          BY <4>1 DEF Executions
        <4>3. rec'[d] # None
          BY <4>2 DEF Assumptions, LedgerAssumption
        <4> QED BY <4>1, <4>2, <4>3 DEF Writes, Ended
      <3>4. CASE d = c /\ rec[c] = None
        <4>1. ev[d] = <<>> /\ ev'[d] = <<"started">> /\ ~Ended(d)
          BY <1>1, <2>1, <3>1, <3>4, RowsOf DEF Records, Rows, Consistent, Ended
        <4>2. ev'[d] = Append(ev[d], "started")
          BY <4>1
        <4>3. "started" \in Kinds /\ ~IsTerminal("started")
          BY DEF Kinds, IsTerminal, Terminals
        <4> QED BY <4>1, <4>2, <4>3 DEF Writes
      <3> QED BY <3>2, <3>3, <3>4
    <2> QED BY <2>2, <2>3
  <1>4. ASSUME rec[c] # None, c \in Commands, ev' = ev, NEW r \in Executions,
               rec' = [rec EXCEPT ![c] = r], r.terminal = rec[c].terminal
        PROVE  Writes(d)
    <2> HIDE DEF c
    <2>1. CASE d # c
      BY <1>1, <1>2, <1>4, <2>1 DEF Ledgers
    <2>2. CASE d = c
      <3>1. rec'[d] = r /\ r # None
        BY <1>1, <1>4, <2>2 DEF Ledgers, Assumptions, LedgerAssumption
      <3> QED BY <1>4, <2>2, <3>1 DEF Writes, Ended
    <2> QED BY <2>1, <2>2
  <1>5. CASE AcknowledgeAdmission
    <2>1. c \in Commands
      BY <1>5, ReceivedKnown DEF AcknowledgeAdmission
    <2>2. CASE ~pubs[c].open \/ ~pubs[c].admission \/ rec[c] = None
      BY <1>2, <1>5, <2>2 DEF AcknowledgeAdmission, Fail, nodeDurable
    <2>3. CASE ~(~pubs[c].open \/ ~pubs[c].admission \/ rec[c] = None)
      <3>1. rec' = [rec EXCEPT ![c].acked = TRUE] /\ ev' = ev
        BY <1>5, <2>3 DEF AcknowledgeAdmission
      <3> HIDE DEF c
      <3>2. rec[c] \in Executions
        BY <1>1, <2>1, <2>3 DEF Ledgers
      <3> DEFINE r == [rec[c] EXCEPT !.acked = TRUE]
      <3>3. r \in Executions /\ r.terminal = rec[c].terminal
        BY <3>2 DEF Executions
      <3>4. rec' = [rec EXCEPT ![c] = r]
        BY <3>1
      <3> HIDE DEF r
      <3> QED BY <1>4, <2>1, <2>3, <3>1, <3>3, <3>4 DEF c
    <2> QED BY <2>2, <2>3
  <1>6. CASE EventsAccepted
    <2> DEFINE through == Head(toNode).through + 1
    <2>1. c \in Commands
      BY <1>6, ReceivedKnown DEF EventsAccepted
    <2>2. CASE ~pubs[c].open \/ pubs[c].flight # through \/ rec[c] = None
      BY <1>2, <1>6, <2>2 DEF EventsAccepted, Fail, nodeDurable
    <2>3. CASE ~(~pubs[c].open \/ pubs[c].flight # through \/ rec[c] = None)
      <3>1. rec' = [rec EXCEPT ![c].pub = IF @ < through THEN through ELSE @] /\ ev' = ev
        BY <1>6, <2>3 DEF EventsAccepted
      <3> HIDE DEF c, through
      <3>2. rec[c] \in Executions /\ through \in Nat
        BY <1>1, <2>1, <2>3, LedgerTypes DEF Ledgers, Publications
      <3> DEFINE r == [rec[c] EXCEPT !.pub = IF rec[c].pub < through THEN through ELSE rec[c].pub]
      <3>3. r \in Executions /\ r.terminal = rec[c].terminal /\ rec' = [rec EXCEPT ![c] = r]
        BY <3>1, <3>2 DEF Executions
      <3> HIDE DEF r
      <3> QED BY <1>4, <2>1, <2>3, <3>1, <3>3 DEF c
    <2> QED BY <2>2, <2>3
  <1>7. CASE Rejected \/ RecordStop \/ CancelTurn \/ CommitSignal
    BY <1>2, <1>7 DEF Rejected, Fail, RecordStop, CancelTurn, CommitSignal, nodeDurable
  <1> QED BY <1>3, <1>5, <1>6, <1>7 DEF Session

LEMMA TurnWrites ==
    ASSUME Assumptions, TypeOK, TypeOK', TurnsInv, NEW t \in Tasks, Turn(t), NEW d \in Commands
    PROVE  Writes(d)
  <1> DEFINE c == turn[t].cmd
  <1>1. rec \in Ledgers /\ ev \in Records
    BY LedgerTypes DEF TypeOK, LedgerOK, Ledgers, Records
  <1>2. CASE rec'[d] = rec[d] /\ ev'[d] = ev[d]
    BY <1>2 DEF Writes, Ended
  <1>3. CASE Register(t) \/ CheckStop(t) \/ LinkFails(t) \/ Join(t)
    BY <1>2, <1>3 DEF Register, CheckStop, LinkFails, Join, nodeDurable
  <1>4. ASSUME turn[t].step \in {"checked", "started"}, NEW kind \in Kinds,
               \/ rec' = rec /\ ~IsTerminal(kind)
               \/ rec' = [rec EXCEPT ![c].terminal = TRUE],
               ev' = [ev EXCEPT ![c] = Append(@, kind)]
        PROVE  Writes(d)
    <2>1. c \in Commands /\ rec[c] \in Executions /\ rec[c] # None /\ ~rec[c].terminal
      BY <1>4, RunningTurn
    <2> HIDE DEF c
    <2>2. CASE d # c
      <3>1. rec'[d] = rec[d] /\ ev'[d] = ev[d]
        BY <1>1, <1>4, <2>2 DEF Ledgers, Records
      <3> QED BY <1>2, <3>1
    <2>3. CASE d = c
      <3>1. ev'[d] = Append(ev[d], kind) /\ ~Ended(d)
        BY <1>1, <1>4, <2>1, <2>3 DEF Records, Ended
      <3>2. IsTerminal(kind) => Ended(d)'
        <4>1. CASE rec' = [rec EXCEPT ![c].terminal = TRUE]
          <5>1. rec'[d] = [rec[d] EXCEPT !.terminal = TRUE]
            BY <1>1, <2>1, <2>3, <4>1 DEF Ledgers
          <5>2. rec'[d] \in Executions /\ rec'[d].terminal = TRUE
            BY <2>1, <2>3, <5>1 DEF Executions
          <5> QED BY <5>2 DEF Ended, Assumptions, LedgerAssumption
        <4> QED BY <1>4, <4>1
      <3> QED BY <3>1, <3>2 DEF Writes
    <2> QED BY <2>2, <2>3
  <1>5. /\ "turn" \in Kinds /\ "progress" \in Kinds /\ ~IsTerminal("turn") /\ ~IsTerminal("progress")
        /\ \A kind \in Terminals : kind \in Kinds
    BY DEF Kinds, Terminals, IsTerminal
  <1>6. CASE AppendTurnStarted(t)
    <2>1. c \in Commands /\ turn[t].step \in {"checked", "started"} /\ rec' = rec
      BY <1>6, RunningTurn DEF AppendTurnStarted, Step
    <2>2. ev' = [ev EXCEPT ![c] = Append(@, "turn")] \/ ev' = ev
      BY <1>1, <1>6, <2>1 DEF AppendTurnStarted, Records
    <2> QED BY <1>2, <1>4, <1>5, <2>1, <2>2
  <1>7. CASE AppendProgress(t)
    BY <1>4, <1>5, <1>7 DEF AppendProgress, InsertEvent
  <1>8. ASSUME NEW kind \in Terminals, Finish(c, kind), turn[t].step \in {"checked", "started"}
        PROVE  Writes(d)
    BY <1>4, <1>5, <1>8 DEF Finish, InsertEvent
  <1>9. CASE FinishUnstarted(t)
    BY <1>8, <1>9, EndKinds DEF FinishUnstarted, Step
  <1>10. CASE FinishTurn(t)
    BY <1>8, <1>10, EndKinds DEF FinishTurn, Step
  <1> QED BY <1>3, <1>6, <1>7, <1>9, <1>10 DEF Turn, Turns

LEMMA NextSeals ==
    ASSUME Assumptions, TypeOK, TypeOK', TurnsInv, JournalInv, SealInv, Next
    PROVE  SealInv'
  <1> SUFFICES ASSUME NEW c \in Commands PROVE Sealed(c)'
    BY DEF SealInv
  <1>1. Sealed(c)
    BY DEF SealInv
  <1>2. ASSUME rec' = rec, ev' = ev PROVE Writes(c)
    BY <1>2 DEF Writes, Ended
  <1>3. CASE Session
    <2>1. stream' = stream
      BY <1>3, CoordIdleFacts DEF Session, coordDurable
    <2> QED BY <1>1, <1>3, <2>1, SessionWrites, SealedStep
  <1>4. ASSUME NEW t \in Tasks, Turn(t) PROVE Sealed(c)'
    <2>1. stream' = stream
      BY <1>4, CoordIdleFacts DEF Turn, coordDurable
    <2> QED BY <1>1, <1>4, <2>1, TurnWrites, SealedStep
  <1>5. CASE Process \/ Connect \/ LoseLink \/ NodeCrash \/ CoordinatorCrash
    <2>1. rec' = rec /\ ev' = ev
      BY <1>5 DEF Process, Drain, Drained, Exit, Restart, Connect, OpenSession, LoseLink, NodeCrash, CoordinatorCrash,
                  SessionLost, nodeDurable
    <2>2. stream' = stream
      BY <1>5, CoordIdleFacts DEF Process, Connect, LoseLink, NodeCrash, CoordinatorCrash, coordDurable
    <2> QED BY <1>1, <1>2, <2>1, <2>2, SealedStep
  <1>6. ASSUME NEW t \in Tasks, Forget(t) PROVE Sealed(c)'
    <2>1. stream' = stream /\ task[t] = "deleted" /\ ForgetTask(t)
      BY <1>6, CoordIdleFacts DEF Forget, coordDurable
    <2>2. CASE TaskOf[c] = t
      <3>1. ev'[c] = <<>>
        BY <2>1, <2>2 DEF ForgetTask
      <3>2. ~Admitted(c) /\ cmd[c] \in {"new", "admitted", "deleted"}
        BY <2>1, <2>2, RowsOf DEF Rows, Consistent, TypeOK, TablesOK
      <3>3. stream[c] = NoStream
        BY <3>2, RowsOf DEF Rows, Unheard, Gone, Admitted
      <3>4. ~Settled(c)
        BY <3>3 DEF Settled, NoStream
      <3>5. Writes(c)
        BY <3>1, <3>4 DEF Writes
      <3> QED BY <1>1, <2>1, <3>5, SealedStep
    <2>3. CASE TaskOf[c] # t
      <3>1. ev'[c] = ev[c] /\ rec'[c] = rec[c]
        BY <2>1, <2>3 DEF ForgetTask
      <3>2. Writes(c)
        BY <3>1 DEF Writes, Ended
      <3> QED BY <1>1, <2>1, <3>2, SealedStep
    <2> QED BY <2>2, <2>3
  <1>7. CASE Surface
    <2>1. rec' = rec /\ ev' = ev
      BY <1>7, NodeIdleFacts DEF Surface
    <2>2. stream'[c] = stream[c] \/ stream'[c] = NoStream
      BY <1>7 DEF Surface, OpenTask, DeleteTask, Submit, ResubmitExisting, AdmitStop, RepeatStop, coordDurable
    <2> QED BY <1>1, <1>2, <2>1, <2>2, SealedStep
  <1>8. CASE Coordinator
    <2>1. rec' = rec /\ ev' = ev
      BY <1>8, NodeIdleFacts DEF Coordinator
    <2>2. ASSUME stream' = stream PROVE Sealed(c)'
      BY <1>1, <1>2, <2>1, <2>2, SealedStep
    <2>3. CASE SendToNode \/ TakeOperation \/ CleanupConnection
      BY <2>2, <2>3 DEF SendToNode, TakeOperation, CleanupConnection, coordDurable
    <2>4. CASE HandleOperation
      <3>1. PICK h \in handling : AcknowledgeExecution(h) \/ AcknowledgeStop(h) \/ AppendEvents(h)
        BY <2>4 DEF HandleOperation
      <3>2. CASE AcknowledgeExecution(h) \/ AcknowledgeStop(h)
        BY <2>2, <3>2 DEF AcknowledgeExecution, AcknowledgeStop
      <3>3. CASE AppendEvents(h) /\ ~Fits(h.msg.cmd, h.msg.from, h.msg.events)
        BY <2>2, <3>3 DEF AppendEvents
      <3>4. CASE AppendEvents(h) /\ Fits(h.msg.cmd, h.msg.from, h.msg.events)
        <4>1. /\ \A d \in Commands : d # h.msg.cmd => stream'[d] = stream[d]
              /\ \/ stream'[h.msg.cmd] = stream[h.msg.cmd]
                 \/ /\ stream'[h.msg.cmd].next \in 1..Len(ev[h.msg.cmd])
                    /\ stream'[h.msg.cmd].terminal = IsTerminal(ev[h.msg.cmd][stream'[h.msg.cmd].next])
          BY <3>4, AppendEffect
        <4>2. \/ stream'[c] = stream[c]
              \/ stream'[c].next \in 1..Len(ev[c]) /\ stream'[c].terminal = IsTerminal(ev[c][stream'[c].next])
          BY <4>1
        <4> QED BY <1>1, <1>2, <2>1, <4>2, SealedStep
      <3> QED BY <3>1, <3>2, <3>3, <3>4
    <2> QED BY <1>8, <2>3, <2>4 DEF Coordinator
  <1> QED BY <1>3, <1>4, <1>5, <1>6, <1>7, <1>8 DEF Next

LEMMA InitSeals == ASSUME Assumptions PROVE Init => SealInv
  BY DEF Init, CoordInit, NodeInit, NoStream, SealInv, Sealed, Settled

(* A settled command is complete: the journal has every record of its       *)
(* ledger, and the node ended it with the last of them                      *)
(* (append_contiguous_execution_events, Finish).                            *)
THEOREM SettledIsComplete == ASSUME Assumptions PROVE Spec => []SealInv
  <1>1. Init => SealInv
    BY InitSeals
  <1>2. TypeOK /\ TypeOK' /\ TurnsInv /\ JournalInv /\ SealInv /\ [Next]_vars => SealInv'
    <2>1. SealInv /\ UNCHANGED vars => SealInv'
      BY DEF vars, coordDurable, nodeVars, nodeDurable, SealInv, Sealed, Settled, Ended
    <2> QED BY <2>1, NextSeals
  <1> QED BY <1>1, <1>2, RcpTyped, JournalInvariant, PTL DEF Spec
-----------------------------------------------------------------------------
LEMMA ConnectServes ==
    ASSUME Assumptions, TypeOK, TypeOK', JournalInv, Serving, Connect
    PROVE  Serving'
  <1>1. PICK owed \in InTaskOrder(pending), cancelled \in SetToSeqs(PendingStops) :
          OpenSession(ActivationMessages(owed, cancelled))
    BY DEF Connect
  <1> DEFINE messages == ActivationMessages(owed, cancelled)
  <1>2. /\ toNode' = messages /\ Resume(NoPublications, <<>>, rec, ev) /\ UNCHANGED <<rec, ev, node>>
        /\ live' = lastConn + 1 /\ lastConn' = lastConn + 1 /\ lastConn \in Nat
    BY <1>1 DEF OpenSession, nodeDurable, TypeOK, ConnectionOK
  <1>3. UNCHANGED <<task, stream, sends, handling>>
    BY DEF Connect, coordDurable
  <1>4. /\ messages \in Seq(Downward)
        /\ \A m \in Range(messages) : (\E c \in pending : m = Execute(c)) \/ \E c \in Commands : Admitted(c) /\ m = Stop(c)
    BY ActivationTyped
  <1> HIDE DEF messages
  <1>5. \A m \in Range(messages) : m.type \in {"execute", "stop"}
    BY <1>4 DEF Execute, Stop
  <1>6. \A h \in handling : h.conn \in 1..lastConn' /\ h.conn # live'
    <2>1. \A h \in handling : h.conn \in 1..lastConn
      BY DEF Serving, Wired
    <2> QED BY <1>2, <2>1
  <1>7. Held' = {}
    BY <1>3, <1>6 DEF Held
  <1>8. Wired'
    <2>1. live' # 0
      BY <1>2
    <2> QED BY <1>2, <1>3, <1>5, <1>6, <2>1 DEF Serving, Wired
  <1>9. Talk(<<>>, messages, {}, NoPublications)
    <2>1. \A j \in 1..Len(messages) : ~Answers(messages[j])
      <3>1. \A j \in 1..Len(messages) : messages[j] \in Range(messages)
        BY <1>4 DEF Range
      <3> QED BY <1>5, <3>1 DEF Answers
    <2> QED BY <2>1 DEF Talk, OncePerExchange, AllAwaited
  <1>10. \A c \in Commands : ~NoPublications[c].open /\ ~NoPublications[c].admission /\ NoPublications[c].flight = 0
    BY DEF NoPublications, Closed
  <1>11. \A c \in Commands : Standing(NoPublications, rec, ev, stream, c) /\ stream[c].next <= Len(ev[c])
    BY <1>10, ServedCommands DEF Serving, Standing
  <1>12. /\ rec \in Ledgers /\ ev \in Records /\ stream \in Streams
         /\ NoPublications \in [Commands -> Publications] /\ <<>> \in Seq(Upward)
    BY LedgerTypes, VolatileTypes, ServedCommands
  <1>13. /\ Talk(toCoord', messages, {}, pubs')
         /\ \A c \in Commands : Standing(pubs', rec, ev, stream, c)
         /\ \A m \in Range(toCoord') : m.type = "publish" => m \in Range(<<>>) \/ Bounded(m, pubs', rec)
         /\ \A m \in Upward : m.type = "publish" /\ Bounded(m, NoPublications, rec) /\ m.from + Len(m.events) <= Len(ev[m.cmd])
              => Bounded(m, pubs', rec)
    BY <1>2, <1>9, <1>11, <1>12, ResumedServes
  <1>14. ASSUME NEW m \in Rising, m.type = "publish" PROVE Bounded(m, pubs', rec)
    <2>1. m \in Upward /\ m.cmd \in Commands /\ m.from + Len(m.events) <= Len(ev[m.cmd]) /\ Bounded(m, pubs, rec)
      BY <1>14, ServedCommands DEF Serving
    <2>2. Bounded(m, NoPublications, rec)
      BY <1>10, <2>1 DEF Bounded
    <2> QED BY <1>13, <1>14, <2>1, <2>2
  <1>15. \A m \in Rising' : m.type = "publish" => Bounded(m, pubs', rec')
    BY <1>2, <1>3, <1>13, <1>14, EmptyRange DEF Rising
  <1> QED BY <1>2, <1>3, <1>7, <1>8, <1>13, <1>15 DEF Serving

(* A step of the coordinator that leaves the node's exchanges as they are.  *)
LEMMA TablesServe ==
    ASSUME Assumptions, TypeOK, TypeOK', JournalInv, Serving, NodeIdle,
           UNCHANGED <<live, lastConn, stream, task>>, Wired', Talk(toCoord', toNode', Held', pubs), Rising' \subseteq Rising
    PROVE  Serving'
  <1>1. UNCHANGED <<rec, ev, node, pubs>>
    BY DEF NodeIdle, nodeVars, nodeDurable, nodeVolatile
  <1>2. \A m \in Rising' : m.type = "publish" => Bounded(m, pubs', rec')
    BY <1>1 DEF Serving
  <1> QED BY <1>1, <1>2 DEF Serving

LEMMA SurfaceServes ==
    ASSUME Assumptions, TypeOK, TypeOK', JournalInv, Serving, Surface, deletes' = 0, deletes \in Nat
    PROVE  Serving'
  <1>1. NodeIdle
    BY DEF Surface
  <1>2. ~\E t \in Tasks : DeleteTask(t)
    BY DEF DeleteTask
  <1>3. UNCHANGED <<live, lastConn, toNode, toCoord, handling, stream>>
    BY <1>2 DEF Surface, OpenTask, Submit, ResubmitExisting, AdmitStop, RepeatStop, coordDurable, coordVolatile, wire
  <1>4. \A t \in Tasks : task'[t] # "deleted"
    <2>1. CASE \E t \in Tasks : OpenTask(t)
      BY <2>1 DEF OpenTask, Serving, TypeOK, TablesOK
    <2>2. CASE ~\E t \in Tasks : OpenTask(t)
      <3>1. task' = task
        BY <1>2, <2>2 DEF Surface, Submit, ResubmitExisting, AdmitStop, RepeatStop, coordDurable
      <3> QED BY <3>1 DEF Serving
    <2> QED BY <2>1, <2>2
  <1>5. \A s \in sends' : s \in sends \/ (s.conn # 0 /\ s.msg.type \in {"execute", "stop"})
    <2>1. \A c \in Commands : Execute(c).type = "execute" /\ Stop(c).type = "stop"
      BY DEF Execute, Stop
    <2>2. CASE \E t \in Tasks : OpenTask(t)
      BY <2>2 DEF OpenTask, coordVolatile
    <2>3. ASSUME NEW c \in Commands, Submit(c) \/ ResubmitExisting(c)
          PROVE  link # 0 /\ sends' = sends \cup {[conn |-> link, msg |-> Execute(c)]}
      BY <2>3 DEF Submit, ResubmitExisting
    <2>4. ASSUME NEW c \in Commands, AdmitStop(c) \/ RepeatStop(c)
          PROVE  sends' = sends \/ (link # 0 /\ sends' = sends \cup {[conn |-> link, msg |-> Stop(c)]})
      BY <2>4 DEF AdmitStop, RepeatStop
    <2> QED BY <1>2, <2>1, <2>2, <2>3, <2>4 DEF Surface
  <1>6. Held' = Held /\ Rising' = Rising
    BY <1>3 DEF Held, Rising
  <1>7. Wired'
    BY <1>3, <1>5 DEF Serving, Wired
  <1>8. UNCHANGED <<rec, ev, node, pubs>>
    BY <1>1 DEF NodeIdle, nodeVars, nodeDurable, nodeVolatile
  <1>9. Talk(toCoord', toNode', Held', pubs')
    BY <1>3, <1>6, <1>8 DEF Serving
  <1>10. \A c \in Commands : Standing(pubs', rec', ev', stream', c)
    BY <1>3, <1>8 DEF Serving
  <1>11. \A m \in Rising' : m.type = "publish" => Bounded(m, pubs', rec')
    BY <1>6, <1>8 DEF Serving
  <1> QED BY <1>4, <1>7, <1>8, <1>9, <1>10, <1>11 DEF Serving

LEMMA SendServes ==
    ASSUME Assumptions, TypeOK, TypeOK', JournalInv, Serving, NodeIdle, SendToNode
    PROVE  Serving'
  <1>1. PICK s \in sends :
          /\ sends' = sends \ {s}
          /\ toNode' = IF s.conn = live THEN Append(toNode, s.msg) ELSE toNode
          /\ UNCHANGED <<coordDurable, handling, live, lastConn, toCoord>>
    BY DEF SendToNode
  <1>2. s.conn # 0 /\ s.msg.type \in {"execute", "stop"} /\ s.msg \in Downward /\ toNode \in Seq(Downward)
    BY DEF Serving, Wired, TypeOK, ConnectionOK
  <1>3. Talk(toCoord, toNode, Held, pubs) /\ ~Answers(s.msg)
    BY <1>2 DEF Serving, Answers
  <1>4. Talk(toCoord, toNode', Held, pubs)
    BY <1>1, <1>2, <1>3, ToldMore
  <1>5. Held' = Held /\ Rising' = Rising
    BY <1>1 DEF Held, Rising
  <1>6. \A m \in Range(toNode') : m = s.msg \/ m \in Range(toNode)
    BY <1>1, <1>2, Delivered DEF TypeOK
  <1>7. Wired'
    <2>1. live' = 0 => toNode' = <<>> /\ toCoord' = <<>>
      BY <1>1, <1>2 DEF Serving, Wired
    <2> QED BY <1>1, <1>2, <1>6, <2>1 DEF Serving, Wired
  <1> QED BY <1>1, <1>4, <1>5, <1>7, TablesServe DEF coordDurable

LEMMA TakeServes ==
    ASSUME Assumptions, TypeOK, TypeOK', JournalInv, Serving, NodeIdle, TakeOperation
    PROVE  Serving'
  <1>1. /\ toCoord # <<>> /\ \A h \in handling : h.conn # live
        /\ handling' = {[conn |-> live, msg |-> Head(toCoord)]} \cup handling
        /\ toCoord' = Tail(toCoord) /\ UNCHANGED <<task, stream, sends, live, lastConn, toNode>>
    BY DEF TakeOperation, coordDurable
  <1>2. toCoord \in Seq(Upward) /\ live \in {0, lastConn} /\ lastConn \in Nat
    BY DEF TypeOK, ConnectionOK
  <1>3. live \in 1..lastConn
    BY <1>1, <1>2 DEF Serving, Wired
  <1>4. Held = {} /\ Held' = {Head(toCoord)}
    <2>1. Held = {}
      BY <1>1 DEF Held
    <2> DEFINE z == [conn |-> live, msg |-> Head(toCoord)]
    <2>2. z \in handling' /\ z.msg = Head(toCoord) /\ \A x \in handling' : x.conn = live' <=> x = z
      BY <1>1
    <2> HIDE DEF z
    <2>3. \A m : m \in Held' <=> \E x \in handling' : x.conn = live' /\ x.msg = m
      BY DEF Held
    <2>4. \A m : m \in Held' <=> m = Head(toCoord)
      BY <2>2, <2>3
    <2> QED BY <2>1, <2>4
  <1>5. Talk(toCoord', toNode', Held', pubs)
    BY <1>1, <1>2, <1>4, OperationTaken DEF Serving
  <1>6. Range(Tail(toCoord)) \subseteq Range(toCoord) /\ Head(toCoord) \in Range(toCoord)
    BY <1>1, <1>2, RangeTail
  <1>7. Rising' \subseteq Rising
    BY <1>1, <1>6 DEF Rising
  <1>8. Wired'
    BY <1>1, <1>3 DEF Serving, Wired
  <1> QED BY <1>1, <1>5, <1>7, <1>8, TablesServe

(* The end of an operation: what is left of it on the connection.           *)
LEMMA OperationLeaves ==
    ASSUME TypeOK, Serving, NEW h \in handling, handling' = handling \ {h}, UNCHANGED live
    PROVE  /\ h.conn = live => Held = {h.msg} /\ Talk(toCoord, toNode, {h.msg}, pubs)
           /\ h.conn # live => Held' = Held
           /\ h.conn = live => Held' = {}
  <1>1. \A m, n \in Held : m = n
    BY DEF Serving, Talk, OncePerExchange
  <1>2. h.conn = live => h.msg \in Held
    BY DEF Held
  <1>3. Held' \subseteq Held
    BY DEF Held
  <1>4. h.conn # live => Held' = Held
    BY DEF Held
  <1>5. h.conn = live => Held = {h.msg}
    BY <1>1, <1>2
  <1>6. h.conn = live => Talk(toCoord, toNode, {h.msg}, pubs)
    BY <1>5 DEF Serving
  <1>7. ASSUME h.conn = live PROVE Held' = {}
    <2>1. ASSUME NEW x \in handling', x.conn = live PROVE FALSE
      <3>1. x \in handling /\ x # h /\ x.msg \in Held
        BY <2>1 DEF Held
      <3>2. x.msg = h.msg /\ x.conn = h.conn
        BY <1>5, <1>7, <2>1, <3>1
      <3>3. x \in [conn : Nat, msg : Upward] /\ h \in [conn : Nat, msg : Upward]
        BY <3>1 DEF TypeOK, ConnectionOK
      <3> QED BY <3>1, <3>2, <3>3
    <2> QED BY <2>1 DEF Held
  <1> QED BY <1>4, <1>5, <1>6, <1>7

(* The ends of the connection after the coordinator answered.               *)
LEMMA AnsweredWired ==
    ASSUME TypeOK, Serving, NEW h \in handling, NEW a \in Downward, a.type # "error",
           toNode' = (IF h.conn = live THEN Append(toNode, a) ELSE toNode),
           handling' = handling \ {h}, UNCHANGED <<sends, live, lastConn, toCoord>>
    PROVE  Wired'
  <1>1. \A m \in Range(toNode') : m = a \/ m \in Range(toNode)
    BY Delivered DEF TypeOK
  <1>2. h.conn \in 1..lastConn
    BY DEF Serving, Wired
  <1>3. h.conn # 0
    BY <1>2
  <1>4. live' = 0 => toNode' = <<>> /\ toCoord' = <<>>
    BY <1>3 DEF Serving, Wired
  <1> QED BY <1>1, <1>4 DEF Serving, Wired

LEMMA AcknowledgeExecutionServes ==
    ASSUME Assumptions, TypeOK, TypeOK', JournalInv, Serving, NodeIdle, NEW h \in handling, AcknowledgeExecution(h),
           handling' = handling \ {h}, UNCHANGED <<sends, live, lastConn, toCoord>>
    PROVE  Serving'
  <1> DEFINE c == h.msg.cmd
             a == Acknowledged(c)
  <1>1. h.msg \in Rising
    BY DEF Rising
  <1>2. h.msg \in Upward /\ c \in Commands /\ Admitted(c)
    BY <1>1, ServedCommands
  <1>3. h.msg.type = "ack_execution" /\ Reply(h, a) /\ UNCHANGED <<task, stream>>
    BY <1>2 DEF AcknowledgeExecution
  <1>4. a \in Downward /\ a.type = "acknowledged" /\ a.cmd = c
    BY <1>2, Constructors DEF Acknowledged
  <1>5. toNode' = IF h.conn = live THEN Append(toNode, a) ELSE toNode
    BY <1>3 DEF Reply
  <1> HIDE DEF c, a
  <1>6. Wired'
    BY <1>4, <1>5, AnsweredWired
  <1>7. Talk(toCoord', toNode', Held', pubs)
    <2>1. CASE h.conn # live
      BY <1>5, <2>1, OperationLeaves DEF Serving
    <2>2. CASE h.conn = live
      <3>1. Held = {h.msg} /\ Talk(toCoord, toNode, {h.msg}, pubs) /\ Held' = {}
        BY <2>2, OperationLeaves
      <3>2. Asks(h.msg) /\ Answers(a) /\ OfAdmission(h.msg) /\ OfAdmission(a) /\ Same(a, h.msg)
        BY <1>3, <1>4 DEF Asks, Answers, OfAdmission, Same, c
      <3>3. Awaited(h.msg, pubs)
        BY <3>1, <3>2 DEF Talk, AllAwaited
      <3>4. Awaited(a, pubs)
        BY <1>4, <3>2, <3>3 DEF Awaited, c
      <3>5. toNode \in Seq(Downward)
        BY DEF TypeOK, ConnectionOK
      <3>6. Talk(toCoord, Append(toNode, a), {}, pubs)
        BY <1>4, <3>1, <3>2, <3>4, <3>5, OperationAnswered
      <3> QED BY <1>5, <2>2, <3>1, <3>6
    <2> QED BY <2>1, <2>2
  <1>8. Rising' \subseteq Rising
    BY DEF Rising
  <1> QED BY <1>3, <1>6, <1>7, <1>8, TablesServe

LEMMA AcknowledgeStopServes ==
    ASSUME Assumptions, TypeOK, TypeOK', JournalInv, Serving, NodeIdle, NEW h \in handling, AcknowledgeStop(h),
           handling' = handling \ {h}, UNCHANGED <<sends, live, lastConn, toCoord>>
    PROVE  Serving'
  <1>1. UNCHANGED <<task, stream, toNode>>
    BY DEF AcknowledgeStop
  <1>2. Talk(toCoord', toNode', Held', pubs)
    <2>1. Held' = Held \/ Held' = {}
      BY OperationLeaves
    <2>2. Talk(toCoord, toNode, Held, pubs)
      BY DEF Serving
    <2>3. Talk(toCoord, toNode, {}, pubs)
      BY <2>2, OperationDone
    <2> QED BY <1>1, <2>1, <2>2, <2>3
  <1>3. Wired'
    BY <1>1 DEF Serving, Wired
  <1>4. Rising' \subseteq Rising
    BY DEF Rising
  <1> QED BY <1>1, <1>2, <1>3, <1>4, TablesServe

LEMMA AppendEventsServes ==
    ASSUME Assumptions, TypeOK, TypeOK', JournalInv, SealInv, Serving, NodeIdle, NEW h \in handling, AppendEvents(h),
           handling' = handling \ {h}, UNCHANGED <<sends, live, lastConn, toCoord>>
    PROVE  Serving'
  <1> DEFINE c == h.msg.cmd
             from == h.msg.from
             n == Len(h.msg.events)
             s == stream[c].next
             k == stream'[c].next
             a == Accepted(c, k - 1)
  <1>1. h.msg \in Rising /\ h.msg.type = "publish" /\ task' = task
    BY DEF Rising, AppendEvents
  <1>2. h.msg \in Upward /\ c \in Commands /\ Admitted(c) /\ from + n <= Len(ev[c])
    BY <1>1, ServedCommands
  <1>3. from \in Nat /\ n \in Nat /\ s \in Nat /\ Len(ev[c]) \in Nat
    <2>1. from \in Nat /\ h.msg.events \in Seq(Kinds)
      BY <1>1, <1>2, UpwardFields
    <2>2. s \in Nat /\ ev[c] \in Seq(Kinds)
      BY <1>2 DEF TypeOK, TablesOK, LedgerOK
    <2> QED BY <2>1, <2>2
  <1>4. Bounded(h.msg, pubs, rec) /\ Standing(pubs, rec, ev, stream, c) /\ Sealed(c) /\ Rows(c)
    BY <1>1, <1>2, RowsOf DEF Serving, SealInv
  <1>5. /\ rec[c] # None /\ from <= rec[c].pub /\ from + n <= rec[c].pub + MaxBatch
        /\ pubs[c].flight # 0 => from + n <= pubs[c].flight
    BY <1>4 DEF Bounded
  <1>6. rec[c].pub <= s /\ rec[c].pub \in Nat
    BY <1>2, <1>4, <1>5 DEF Rows, Remembered, TypeOK, LedgerOK, Executions
  <1>7. Fits(c, from, h.msg.events)
    <2>1. from <= s
      BY <1>3, <1>5, <1>6
    <2>2. stream[c].terminal => s = Len(ev[c])
      BY <1>4 DEF Sealed, Settled
    <2>3. from + n > s => ~stream[c].terminal
      <3> HIDE DEF from, n, s, c
      <3> QED BY <1>2, <1>3, <2>2
    <2> QED BY <1>2, <2>1, <2>3 DEF Fits
  <1>8. /\ \A d \in Commands : d # c => stream'[d] = stream[d]
        /\ k = IF from + n > s THEN from + n ELSE s
        /\ Reply(h, a)
    BY <1>7, AppendEffect
  <1>9. k \in Nat /\ k - 1 \in Int /\ (k - 1) + 1 = k
    BY <1>3, <1>8
  <1>10. a \in Downward /\ a.type = "accepted" /\ a.cmd = c /\ a.through = k - 1
    BY <1>2, <1>9, Constructors DEF Accepted
  <1>11. toNode' = IF h.conn = live THEN Append(toNode, a) ELSE toNode
    BY <1>8 DEF Reply
  <1>12. UNCHANGED <<rec, ev, node, pubs>>
    BY DEF NodeIdle, nodeVars, nodeDurable, nodeVolatile
  <1> HIDE DEF c, from, n, s, k, a
  <1>13. Wired'
    BY <1>10, <1>11, AnsweredWired
  <1>14. ASSUME NEW d \in Commands PROVE Standing(pubs', rec', ev', stream', d)
    <2>1. Standing(pubs, rec, ev, stream, d)
      BY DEF Serving
    <2>2. CASE d # c
      BY <1>8, <1>12, <2>1, <2>2 DEF Standing
    <2>3. CASE d = c
      <3>1. k <= rec[c].pub + MaxBatch /\ (pubs[c].flight # 0 => k <= pubs[c].flight)
        <4>1. s <= rec[c].pub + MaxBatch /\ (pubs[c].flight # 0 => s <= pubs[c].flight)
          BY <1>4, <1>5 DEF Standing, s
        <4> QED BY <1>5, <1>8, <4>1
      <3>2. stream'[c].next = k
        BY DEF k
      <3> QED BY <1>12, <2>1, <2>3, <3>1, <3>2 DEF Standing
    <2> QED BY <2>2, <2>3
  <1>15. Talk(toCoord', toNode', Held', pubs)
    <2>1. CASE h.conn # live
      BY <1>11, <2>1, OperationLeaves DEF Serving
    <2>2. CASE h.conn = live
      <3>1. Held = {h.msg} /\ Talk(toCoord, toNode, {h.msg}, pubs) /\ Held' = {}
        BY <2>2, OperationLeaves
      <3>2. Asks(h.msg) /\ Answers(a) /\ ~OfAdmission(h.msg) /\ ~OfAdmission(a) /\ Same(a, h.msg)
        BY <1>1, <1>10 DEF Asks, Answers, OfAdmission, Same, c
      <3>3. Awaited(h.msg, pubs)
        BY <3>1, <3>2 DEF Talk, AllAwaited
      <3>4. pubs[c].open /\ pubs[c].flight # 0 /\ pubs[c].flight = from + n
        BY <1>1, <3>2, <3>3 DEF Awaited, c, from, n
      <3>5. s <= pubs[c].flight
        BY <1>4, <3>4 DEF Standing, s
      <3>6. k = pubs[c].flight
        BY <1>3, <1>8, <3>4, <3>5
      <3>7. Awaited(a, pubs)
        BY <1>2, <1>9, <1>10, <3>2, <3>4, <3>6 DEF Awaited
      <3>8. toNode \in Seq(Downward)
        BY DEF TypeOK, ConnectionOK
      <3>9. Talk(toCoord, Append(toNode, a), {}, pubs)
        BY <1>10, <3>1, <3>2, <3>7, <3>8, OperationAnswered
      <3> QED BY <1>11, <2>2, <3>1, <3>9
    <2> QED BY <2>1, <2>2
  <1>16. \A m \in Rising' : m.type = "publish" => Bounded(m, pubs', rec')
    <2>1. Rising' \subseteq Rising
      BY DEF Rising
    <2> QED BY <1>12, <2>1 DEF Serving
  <1> QED BY <1>1, <1>12, <1>13, <1>14, <1>15, <1>16 DEF Serving

LEMMA CoordinatorServes ==
    ASSUME Assumptions, TypeOK, TypeOK', JournalInv, SealInv, Serving, Coordinator
    PROVE  Serving'
  <1>1. NodeIdle
    BY DEF Coordinator
  <1>2. CASE HandleOperation
    <2>1. PICK h \in handling :
            /\ AcknowledgeExecution(h) \/ AcknowledgeStop(h) \/ AppendEvents(h)
            /\ handling' = handling \ {h} /\ UNCHANGED <<sends, live, lastConn, toCoord>>
      BY <1>2 DEF HandleOperation
    <2> QED BY <1>1, <2>1, AcknowledgeExecutionServes, AcknowledgeStopServes, AppendEventsServes
  <1>3. CASE CleanupConnection
    <2>1. UNCHANGED <<task, stream, sends, handling, live, lastConn, toNode, toCoord>>
      BY <1>3 DEF CleanupConnection, coordDurable, wire
    <2>2. Wired' /\ Held' = Held
      BY <2>1, WiredKept DEF Serving
    <2>3. Rising' = Rising
      BY <2>1 DEF Rising
    <2>4. Talk(toCoord', toNode', Held', pubs)
      BY <2>1, <2>2 DEF Serving
    <2> QED BY <1>1, <2>1, <2>2, <2>3, <2>4, TablesServe
  <1> QED BY <1>1, <1>2, <1>3, SendServes, TakeServes DEF Coordinator

LEMMA NextServes ==
    ASSUME Assumptions, TypeOK, TypeOK', TurnsInv, JournalInv, SealInv, ServeInv, Next
    PROVE  ServeInv'
  <1>1. deletes \in Nat
    BY DEF ServeInv
  <1>2. deletes' = deletes \/ deletes' = deletes + 1
    <2>1. CASE Surface
      BY <2>1 DEF Surface, OpenTask, DeleteTask, Submit, ResubmitExisting, AdmitStop, RepeatStop, coordDurable
    <2>2. CASE Coordinator
      <3>1. CASE SendToNode \/ TakeOperation \/ CleanupConnection
        BY <3>1 DEF SendToNode, TakeOperation, CleanupConnection, coordDurable
      <3>2. CASE HandleOperation
        <4>1. PICK h \in handling : AcknowledgeExecution(h) \/ AcknowledgeStop(h) \/ AppendEvents(h)
          BY <3>2 DEF HandleOperation
        <4>2. ASSUME AcknowledgeExecution(h) \/ AcknowledgeStop(h) PROVE deletes' = deletes
          BY <4>2 DEF AcknowledgeExecution, AcknowledgeStop
        <4>3. ASSUME AppendEvents(h) PROVE deletes' = deletes
          BY <4>3 DEF AppendEvents
        <4> QED BY <4>1, <4>2, <4>3
      <3> QED BY <2>2, <3>1, <3>2 DEF Coordinator
    <2>3. CASE Session \/ Process \/ \E t \in Tasks : Turn(t) \/ Forget(t)
      BY <2>3, CoordIdleFacts DEF Session, Process, Turn, Forget, coordDurable
    <2>4. CASE Connect \/ LoseLink \/ NodeCrash \/ CoordinatorCrash
      BY <2>4 DEF Connect, LoseLink, NodeCrash, CoordinatorCrash, coordDurable
    <2> QED BY <2>1, <2>2, <2>3, <2>4 DEF Next
  <1>3. deletes' \in Nat /\ (deletes' = 0 => deletes = 0)
    BY <1>1, <1>2
  <1>4. ASSUME deletes' = 0 PROVE Serving'
    <2>1. Serving
      BY <1>3, <1>4 DEF ServeInv
    <2>2. ~\E t \in Tasks : Forget(t)
      BY <2>1 DEF Forget, Serving
    <2> QED BY <1>1, <1>4, <2>1, <2>2, SurfaceServes, CoordinatorServes, SessionKeepsServing, ProcessServes, TurnServes,
               ConnectServes, FaultServes DEF Next
  <1> QED BY <1>3, <1>4 DEF ServeInv

LEMMA InitServes == ASSUME Assumptions PROVE Init => ServeInv
  <1> SUFFICES ASSUME Init PROVE deletes = 0 /\ Serving
    BY DEF ServeInv
  <1>1. /\ deletes = 0 /\ live = 0 /\ toNode = <<>> /\ toCoord = <<>> /\ handling = {} /\ sends = {}
        /\ node = "up" /\ pubs = NoPublications
        /\ \A c \in Commands : rec[c] = None
        /\ \A t \in Tasks : task[t] = "new"
    BY DEF Init, CoordInit, NodeInit
  <1>2. Held = {} /\ Rising = {}
    BY <1>1, EmptyRange DEF Held, Rising
  <1>3. Wired
    BY <1>1, EmptyRange DEF Wired
  <1>4. Talk(toCoord, toNode, Held, pubs)
    BY <1>1, <1>2, NothingSaid
  <1>5. \A c \in Commands : Standing(pubs, rec, ev, stream, c)
    BY <1>1 DEF Standing, NoPublications, Closed
  <1> QED BY <1>1, <1>2, <1>3, <1>4, <1>5 DEF Serving

LEMMA StutterServes == ASSUME ServeInv, UNCHANGED vars PROVE ServeInv'
  <1>1. UNCHANGED <<deletes, live, lastConn, toNode, toCoord, handling, sends, node, pubs, rec, ev, stream, task>>
    BY DEF vars, coordDurable, coordVolatile, nodeVars, nodeDurable, nodeVolatile, wire
  <1>2. Held' = Held /\ Rising' = Rising
    BY <1>1 DEF Held, Rising
  <1>3. Wired <=> Wired'
    BY <1>1 DEF Wired
  <1>4. Serving => Serving'
    BY <1>1, <1>2, <1>3 DEF Serving
  <1> QED BY <1>1, <1>4 DEF ServeInv

(* The node asks each question once and the coordinator answers what was    *)
(* asked: while no task is deleted, no message on its way ends the node     *)
(* with a protocol error (AcknowledgeAdmission, EventsAccepted, Rejected).  *)
THEOREM TheNodeServes == ASSUME Assumptions PROVE Spec => [](deletes = 0 => NodeServes)
  <1>1. Init => ServeInv
    BY InitServes
  <1>2. TypeOK /\ TypeOK' /\ TurnsInv /\ JournalInv /\ SealInv /\ ServeInv /\ [Next]_vars => ServeInv'
    BY NextServes, StutterServes
  <1>3. ServeInv => (deletes = 0 => NodeServes)
    BY DEF ServeInv, Serving, NodeServes
  <1> QED BY <1>1, <1>2, <1>3, RcpTyped, JournalInvariant, SettledIsComplete, PTL DEF Spec

(* What the owner of a task relies on, all of it: for any tasks and         *)
(* commands and any number of faults, retries and deletions (the journal,   *)
(* the order of publication, turns and stops, deleted tasks, and the node's *)
(* session).                                                                *)
THEOREM RcpIsSafe == ASSUME Assumptions PROVE Spec => []RcpSafe
  <1>1. /\ TypeOK /\ JournalIsPrefix /\ NothingForgotten /\ PublishedInTurn
        /\ TurnsInAdmissionOrder /\ NoLostStop /\ DeliveredStopIsHeld
        /\ CancelledOnlyWhenAsked /\ NothingOutlivesTask /\ (deletes = 0 => NodeServes)
        => RcpSafe
    BY DEF RcpSafe
  <1> QED BY <1>1, RcpTyped, JournalFollowsLedger, NothingIsForgotten, PublishedCommandByCommand, TurnsAreOrderly,
             StopsArrive, DeletedTasksStayEmpty, TheNodeServes, PTL
=============================================================================
