-------------------------- MODULE RpcChannel_proofs --------------------------
(***************************************************************************)
(* Proofs for RpcChannel: calls, callers, cores and sockets are kept apart *)
(* for any number of callers, calls and cores that dial.                   *)
(***************************************************************************)
EXTENDS RpcChannel, SequenceTheorems, TLAPS

CallerRec ==
  [pc : {"idle"}, id : {0}] \union [pc : {"checked", "registered", "waiting", "timedOut", "claimed"}, id : Id]
CallRec == [state : {"none", "open", "answered", "failed", "closed"}, data : Answer, over : 0 .. MaxSocks]
WireRec == [up : BOOLEAN, hup : BOOLEAN, asked : SUBSET Id, back : Seq(Token)]
Task == [op : {"write"}, n : Id] \union [op : {"swap"}, n : Sock]

\* The sequences are sequences.
SeqInv == queue \in Seq(Task) /\ buf \in Seq(Token)

-----------------------------------------------------------------------------
(* Who has which call. *)

\* An id is given out once and belongs to one caller; a call that is not yet in the map, or that is
\* in it, is open, and the io thread fills none of them.
Busy(c) == caller[c].pc # "idle"
IdInv ==
  /\ \A c \in Caller : caller[c].id < nextId
  /\ \A c, d \in Caller : Busy(c) /\ Busy(d) /\ caller[c].id = caller[d].id => c = d
Fresh(i) == call[i].state = "open" /\ (io.pc = "fill" => io.id # i)
MapInv ==
  /\ \A i \in pending : Fresh(i) /\ i < nextId
  /\ \A c \in Caller : caller[c].pc = "checked" => Fresh(caller[c].id) /\ caller[c].id \notin pending
  /\ io.pc = "fill" => io.id \in Id /\ io.id < nextId

-----------------------------------------------------------------------------
(* What comes back over a socket. *)

\* Headers and data alternate, and the data is that of its header.
Framed(q) ==
  /\ Len(q) > 0 => q[1].part = "header"
  /\ \A k \in 1 .. Len(q) - 1 :
       /\ q[k].part = "header" => q[k + 1] = [part |-> "data", id |-> q[k].id]
       /\ q[k].part = "data" => q[k + 1].part = "header"
\* The last frame is complete.
Whole(q) == Len(q) > 0 => q[Len(q)].part = "data"

\* All that came over a socket and is not processed yet: its half-read frame is in the buffer.
Stream(s) == IF s = sock THEN buf \o wire[s].back ELSE wire[s].back
Flows(s) == Framed(Stream(s)) /\ (wire[s].up => Whole(Stream(s)))
StreamInv ==
  /\ \A s \in Sock : s >= sock => Flows(s)
  /\ \A s \in Sock : s > dialed => wire[s].back = << >> /\ ~wire[s].up
  /\ sock = 0 => buf = << >>
\* What is handed over belongs to the call.
FillInv == io.pc = "fill" => io.data = io.id

-----------------------------------------------------------------------------
(* The order of the queue. *)

IsSwap(j) == queue[j].op = "swap"
\* Sockets are swapped in in the order they dialed, and the last one not before its swap is queued.
SwapInv ==
  /\ sock <= dialed
  /\ \A j \in 1 .. Len(queue) : IsSwap(j) => sock < queue[j].n /\ queue[j].n <= dialed
  /\ \A j, k \in 1 .. Len(queue) : IsSwap(j) /\ IsSwap(k) /\ j < k => queue[j].n < queue[k].n
  /\ main \in {"wake", "post"} => sock < dialed /\ \A j \in 1 .. Len(queue) : IsSwap(j) => queue[j].n < dialed
  /\ connected => main = "idle"

\* Socket v, or a later one, is in use, or will be before position k of the queue is reached.
SwappedBefore(v, k) == v <= sock \/ \E j \in 1 .. Len(queue) : j < k /\ IsSwap(j) /\ v <= queue[j].n
OrderInv ==
  /\ main \in {"idle", "store"} => SwappedBefore(dialed, Len(queue) + 1)
  /\ \A c \in Caller : caller[c].pc \in {"checked", "registered"} =>
       SwappedBefore(call[caller[c].id].over, Len(queue) + 1)
  /\ \A k \in 1 .. Len(queue) : ~IsSwap(k) => queue[k].n < nextId /\ SwappedBefore(call[queue[k].n].over, k)
  /\ \A s \in Sock : \A i \in wire[s].asked : i < nextId

\* The inductive invariant.
IInv ==
  /\ TypeOK /\ SeqInv
  /\ OwnAnswer /\ NoOrphan /\ NewSocketOnly
  /\ IdInv /\ MapInv
  /\ StreamInv /\ FillInv
  /\ SwapInv /\ OrderInv

-----------------------------------------------------------------------------
(* Sequences of tokens. *)

Header(i) == [part |-> "header", id |-> i]
Data(i) == [part |-> "data", id |-> i]

\* A token is a header or data.
LEMMA Tokens ==
  /\ \A t \in Token : t.part \in {"header", "data"} /\ t.id \in Id
  /\ \A i \in Id : Header(i) \in Token /\ Data(i) \in Token
  BY DEF Token, Header, Data

\* What is read is taken from one and added to the other.
LEMMA ReadJoins ==
  ASSUME NEW b \in Seq(Token), NEW q \in Seq(Token), NEW n \in 1 .. Len(q)
  PROVE  /\ SubSeq(q, 1, n) \in Seq(Token) /\ SubSeq(q, n + 1, Len(q)) \in Seq(Token)
         /\ (b \o SubSeq(q, 1, n)) \o SubSeq(q, n + 1, Len(q)) = b \o q
<1>1. Len(q) \in Nat /\ \A i \in 1 .. Len(q) : q[i] \in Token
  BY LenProperties, ElementOfSeq
<1>2. SubSeq(q, 1, n) \in Seq(Token) /\ SubSeq(q, n + 1, Len(q)) \in Seq(Token)
  BY <1>1, SubSeqProperties
<1>3. SubSeq(q, 1, n) \o SubSeq(q, n + 1, Len(q)) = SubSeq(q, 1, Len(q))
  BY <1>1, ConcatAdjacentSubSeq
<1>4. SubSeq(q, 1, Len(q)) = q
  BY SubSeqFull
<1> DEFINE x == SubSeq(q, 1, n)
           y == SubSeq(q, n + 1, Len(q))
<1>5. x \in Seq(Token) /\ y \in Seq(Token) /\ x \o y = q
  BY <1>2, <1>3, <1>4
<1> HIDE DEF x, y
<1>6. ASSUME NEW u \in Seq(Token), NEW v \in Seq(Token) PROVE (b \o u) \o v = b \o (u \o v)
  BY ConcatAssociative, SMTT(30)
<1>7. (b \o x) \o y = b \o q
  BY <1>5, <1>6, Zenon
<1> QED BY <1>2, <1>7 DEF x, y

\* A frame is taken off the front.
LEMMA FrameTaken ==
  ASSUME NEW b \in Seq(Token), NEW q \in Seq(Token), Len(b) >= 2, Framed(b \o q)
  PROVE  /\ b[1] \in Token /\ b[1].part = "header" /\ b[2] = Data(b[1].id)
         /\ SubSeq(b, 3, Len(b)) \in Seq(Token)
         /\ Framed(SubSeq(b, 3, Len(b)) \o q)
         /\ Whole(b \o q) => Whole(SubSeq(b, 3, Len(b)) \o q)
<1> DEFINE r == SubSeq(b, 3, Len(b))
           all == b \o q
           rest == r \o q
<1>1. Len(b) \in Nat /\ Len(q) \in Nat /\ \A i \in 1 .. Len(b) : b[i] \in Token
  BY LenProperties, ElementOfSeq
<1>2. r \in Seq(Token) /\ Len(r) = Len(b) - 2 /\ \A i \in 1 .. Len(b) - 2 : r[i] = b[i + 2]
  <2>1. \A i \in 3 .. Len(b) : b[i] \in Token
    BY <1>1
  <2>2. /\ r \in Seq(Token) /\ Len(r) = IF 3 <= Len(b) THEN Len(b) - 3 + 1 ELSE 0
        /\ \A i \in 1 .. Len(b) - 3 + 1 : r[i] = b[3 + i - 1]
    BY <1>1, <2>1, SubSeqProperties
  <2> HIDE DEF r
  <2>3. Len(r) = Len(b) - 2
    <3>1. CASE 3 <= Len(b)
      BY <1>1, <2>2, <3>1
    <3>2. CASE ~(3 <= Len(b))
      <4> DEFINE n == Len(b)
      <4>0. n \in Nat /\ n >= 2 /\ ~(3 <= n)
        BY <1>1, <3>2
      <4> HIDE DEF n
      <4>1. n = 2
        BY <4>0
      <4> USE DEF n
      <4> QED BY <2>2, <3>2, <4>1
    <3> QED BY <3>1, <3>2
  <2>4. ASSUME NEW i \in 1 .. Len(b) - 2 PROVE r[i] = b[i + 2]
    <3>1. i \in 1 .. Len(b) - 3 + 1 /\ 3 + i - 1 = i + 2
      BY <1>1
    <3> QED BY <2>2, <3>1
  <2> QED BY <2>2, <2>3, <2>4
<1>3. /\ all \in Seq(Token) /\ Len(all) = Len(b) + Len(q)
      /\ \A i \in 1 .. Len(b) + Len(q) : all[i] = IF i <= Len(b) THEN b[i] ELSE q[i - Len(b)]
  BY ConcatProperties
<1> HIDE DEF r
<1>4. /\ rest \in Seq(Token) /\ Len(rest) = Len(r) + Len(q)
      /\ \A i \in 1 .. Len(r) + Len(q) : rest[i] = IF i <= Len(r) THEN r[i] ELSE q[i - Len(r)]
  BY <1>2, ConcatProperties
<1> HIDE DEF all, rest
<1>5. ASSUME NEW i \in 1 .. Len(rest) PROVE rest[i] = all[i + 2]
  <2>1. i + 2 \in 1 .. Len(b) + Len(q) /\ Len(r) = Len(b) - 2
    BY <1>1, <1>2, <1>4
  <2>2. CASE i <= Len(r)
    <3>1. rest[i] = r[i] /\ r[i] = b[i + 2]
      BY <1>1, <1>2, <1>4, <2>2
    <3>2. all[i + 2] = b[i + 2]
      BY <1>1, <1>3, <2>1, <2>2
    <3> QED BY <3>1, <3>2
  <2>3. CASE i > Len(r)
    <3>1. rest[i] = q[i - Len(r)]
      BY <1>1, <1>2, <1>4, <2>3
    <3>2. all[i + 2] = q[(i + 2) - Len(b)]
      BY <1>1, <1>3, <2>1, <2>3
    <3>3. (i + 2) - Len(b) = i - Len(r)
      BY <1>1, <2>1
    <3> QED BY <3>1, <3>2, <3>3
  <2> QED BY <1>1, <2>1, <2>2, <2>3
<1>6. Len(all) = Len(rest) + 2 /\ Len(rest) \in Nat
  BY <1>1, <1>2, <1>3, <1>4
<1>7. Framed(all)
  BY DEF all
<1>8. all[1].part = "header" /\ all[2] = Data(all[1].id)
  BY <1>6, <1>7 DEF Framed, Data
<1>9. Len(rest) > 0 => rest[1].part = "header"
  <2> SUFFICES ASSUME Len(rest) > 0 PROVE rest[1].part = "header"
    OBVIOUS
  <2>1. 2 \in 1 .. Len(all) - 1 /\ 2 + 1 = 3 /\ 1 \in 1 .. Len(rest) /\ 1 + 2 = 3
    BY <1>6
  <2>2. all[2].part = "data"
    BY <1>8 DEF Data
  <2>3. all[2 + 1].part = "header"
    BY <1>7, <2>1, <2>2 DEF Framed
  <2> QED BY <1>5, <2>1, <2>3
<1>10. Framed(rest)
  <2> SUFFICES ASSUME NEW k \in 1 .. Len(rest) - 1
               PROVE  /\ rest[k].part = "header" => rest[k + 1] = [part |-> "data", id |-> rest[k].id]
                      /\ rest[k].part = "data" => rest[k + 1].part = "header"
    BY <1>9 DEF Framed
  <2>1. k + 2 \in 1 .. Len(all) - 1 /\ rest[k] = all[k + 2] /\ rest[k + 1] = all[(k + 2) + 1]
    BY <1>5, <1>6
  <2> QED BY <1>7, <2>1 DEF Framed
<1>11. Whole(all) => Whole(rest)
  BY <1>5, <1>6 DEF Whole
<1>12. b[1] = all[1] /\ b[2] = all[2] /\ b[1] \in Token
  BY <1>1, <1>3
<1> QED BY <1>2, <1>8, <1>10, <1>11, <1>12 DEF all, rest, r

\* What is cut off at any byte is framed as far as it goes.
LEMMA CutFramed ==
  ASSUME NEW q \in Seq(Token), Framed(q), NEW n \in 0 .. Len(q)
  PROVE  SubSeq(q, 1, n) \in Seq(Token) /\ Framed(SubSeq(q, 1, n))
<1> DEFINE r == SubSeq(q, 1, n)
<1>1. Len(q) \in Nat /\ \A i \in 1 .. Len(q) : q[i] \in Token
  BY LenProperties, ElementOfSeq
<1>2. r \in Seq(Token) /\ Len(r) = n /\ \A i \in 1 .. n : r[i] = q[i]
  <2>1. /\ r \in Seq(Token) /\ Len(r) = IF 1 <= n THEN n - 1 + 1 ELSE 0
        /\ \A i \in 1 .. n - 1 + 1 : r[i] = q[1 + i - 1]
    BY <1>1, SubSeqProperties
  <2> QED BY <1>1, <2>1
<1> HIDE DEF r
<1>3. Framed(r)
  BY <1>1, <1>2 DEF Framed
<1> QED BY <1>2, <1>3 DEF r

\* The same of what is still in the socket, behind what is in the buffer.
LEMMA CutBehind ==
  ASSUME NEW b \in Seq(Token), NEW q \in Seq(Token), Framed(b \o q), NEW n \in 0 .. Len(q)
  PROVE  Framed(b \o SubSeq(q, 1, n))
<1>1. Len(b) \in Nat /\ Len(q) \in Nat /\ \A i \in 1 .. Len(q) : q[i] \in Token
  BY LenProperties, ElementOfSeq
<1> DEFINE r == SubSeq(q, 1, n)
           all == b \o q
           cut == b \o r
<1>2. r \in Seq(Token) /\ Len(r) = n /\ \A i \in 1 .. n : r[i] = q[i]
  <2>1. /\ r \in Seq(Token) /\ Len(r) = IF 1 <= n THEN n - 1 + 1 ELSE 0
        /\ \A i \in 1 .. n - 1 + 1 : r[i] = q[1 + i - 1]
    BY <1>1, SubSeqProperties
  <2> QED BY <1>1, <2>1
<1>3. /\ Len(all) = Len(b) + Len(q)
      /\ \A i \in 1 .. Len(b) + Len(q) : all[i] = IF i <= Len(b) THEN b[i] ELSE q[i - Len(b)]
  BY ConcatProperties
<1> HIDE DEF r
<1>4. /\ Len(cut) = Len(b) + n
      /\ \A i \in 1 .. Len(b) + n : cut[i] = IF i <= Len(b) THEN b[i] ELSE r[i - Len(b)]
  BY <1>2, ConcatProperties
<1> HIDE DEF all, cut
<1>5. \A i \in 1 .. Len(cut) : cut[i] = all[i] /\ i \in 1 .. Len(all)
  BY <1>1, <1>2, <1>3, <1>4
<1>6. Len(cut) \in Nat /\ Len(all) \in Nat /\ Len(cut) <= Len(all)
  BY <1>1, <1>3, <1>4
<1>7. Framed(all)
  BY DEF all
<1>8. Framed(cut)
  <2>1. Len(cut) > 0 => cut[1].part = "header"
    BY <1>5, <1>6, <1>7 DEF Framed
  <2>2. ASSUME NEW k \in 1 .. Len(cut) - 1
        PROVE  /\ cut[k].part = "header" => cut[k + 1] = [part |-> "data", id |-> cut[k].id]
               /\ cut[k].part = "data" => cut[k + 1].part = "header"
    <3>1. k \in 1 .. Len(all) - 1 /\ cut[k] = all[k] /\ cut[k + 1] = all[k + 1]
      BY <1>5, <1>6
    <3> QED BY <1>7, <3>1 DEF Framed
  <2> QED BY <2>1, <2>2 DEF Framed
<1> QED BY <1>8 DEF cut, r

\* A frame is added to whole ones.
LEMMA FrameAdded ==
  ASSUME NEW q \in Seq(Token), Framed(q), Whole(q), NEW i \in Id
  PROVE  /\ q \o <<Header(i), Data(i)>> \in Seq(Token)
         /\ Framed(q \o <<Header(i), Data(i)>>) /\ Whole(q \o <<Header(i), Data(i)>>)
<1> DEFINE f == <<Header(i), Data(i)>>
           r == q \o f
<1>1. f \in Seq(Token) /\ Len(f) = 2 /\ f[1] = Header(i) /\ f[2] = Data(i)
  BY Tokens
<1>2. Len(q) \in Nat /\ \A k \in 1 .. Len(q) : q[k] \in Token
  BY LenProperties, ElementOfSeq
<1> HIDE DEF f
<1>0. /\ r \in Seq(Token) /\ Len(r) = Len(q) + Len(f)
      /\ \A k \in 1 .. Len(q) + Len(f) : r[k] = IF k <= Len(q) THEN q[k] ELSE f[k - Len(q)]
  BY <1>1, ConcatProperties
<1>3. /\ r \in Seq(Token) /\ Len(r) = Len(q) + 2
      /\ \A k \in 1 .. Len(q) + 2 : r[k] = IF k <= Len(q) THEN q[k] ELSE f[k - Len(q)]
  BY <1>0, <1>1
<1> HIDE DEF r
<1>4. /\ \A k \in 1 .. Len(q) : r[k] = q[k]
      /\ r[Len(q) + 1] = Header(i) /\ r[Len(q) + 2] = Data(i)
  BY <1>1, <1>2, <1>3, SMTT(30)
<1>5. Header(i).part = "header" /\ Data(i).part = "data" /\ Data(i) = [part |-> "data", id |-> Header(i).id]
  BY DEF Header, Data
<1>6. r[1].part = "header"
  BY <1>2, <1>4, <1>5 DEF Framed
<1>7. ASSUME NEW k \in 1 .. Len(r) - 1
      PROVE  /\ r[k].part = "header" => r[k + 1] = [part |-> "data", id |-> r[k].id]
             /\ r[k].part = "data" => r[k + 1].part = "header"
  <2>1. CASE k < Len(q)
    <3>1. k \in 1 .. Len(q) - 1 /\ r[k] = q[k] /\ r[k + 1] = q[k + 1]
      BY <1>2, <1>4, <2>1
    <3> QED BY <3>1 DEF Framed
  <2>2. CASE k = Len(q)
    <3>1. r[k] = q[Len(q)] /\ r[k + 1] = Header(i) /\ q[Len(q)].part = "data"
      BY <1>2, <1>4, <2>2 DEF Whole
    <3> QED BY <1>5, <3>1
  <2>3. CASE k = Len(q) + 1
    BY <1>2, <1>4, <1>5, <2>3
  <2> QED BY <1>2, <1>3, <2>1, <2>2, <2>3
<1>8. Framed(r)
  BY <1>6, <1>7 DEF Framed
<1>9. Whole(r)
  BY <1>2, <1>3, <1>4, <1>5 DEF Whole
<1> QED BY <1>3, <1>8, <1>9 DEF r, f


-----------------------------------------------------------------------------
(* The queue. *)

\* A task is added at its end; what was swapped in before a position still is.
LEMMA QueueGrows ==
  ASSUME SeqInv, NEW t \in Task, queue' = Append(queue, t), sock' = sock
  PROVE  /\ queue' \in Seq(Task) /\ Len(queue) \in Nat /\ Len(queue') = Len(queue) + 1
         /\ \A k \in 1 .. Len(queue) : queue[k] \in Task /\ queue'[k] = queue[k]
         /\ queue'[Len(queue) + 1] = t
         /\ \A v, k : k \in 1 .. Len(queue) + 1 /\ SwappedBefore(v, k) => SwappedBefore(v, k)'
<1>1. /\ Len(queue') = Len(queue) + 1 /\ queue' \in Seq(Task) /\ queue'[Len(queue) + 1] = t
      /\ \A k \in 1 .. Len(queue) : queue'[k] = queue[k]
  BY AppendProperties DEF SeqInv
<1>2. Len(queue) \in Nat /\ \A k \in 1 .. Len(queue) : queue[k] \in Task
  BY LenProperties, ElementOfSeq DEF SeqInv
<1>3. ASSUME NEW v, NEW k \in 1 .. Len(queue) + 1, SwappedBefore(v, k) PROVE SwappedBefore(v, k)'
  <2>1. CASE v <= sock
    BY <2>1 DEF SwappedBefore
  <2>2. CASE \E j \in 1 .. Len(queue) : j < k /\ IsSwap(j) /\ v <= queue[j].n
    <3>1. PICK j \in 1 .. Len(queue) : j < k /\ IsSwap(j) /\ v <= queue[j].n
      BY <2>2
    <3>2. j \in 1 .. Len(queue') /\ IsSwap(j)' /\ v <= queue'[j].n
      BY <1>1, <1>2, <3>1 DEF IsSwap
    <3> QED BY <3>1, <3>2 DEF SwappedBefore
  <2> QED BY <1>3, <2>1, <2>2 DEF SwappedBefore
<1> QED BY <1>1, <1>2, <1>3

\* Its first task is taken.
LEMMA QueueMoves ==
  ASSUME SeqInv, queue # << >>, queue' = Tail(queue)
  PROVE  /\ queue' \in Seq(Task) /\ Len(queue) \in Nat \ {0} /\ Len(queue') = Len(queue) - 1
         /\ Head(queue) = queue[1] /\ queue[1] \in Task
         /\ \A k \in 1 .. Len(queue) - 1 : queue'[k] = queue[k + 1] /\ queue'[k] \in Task
<1>1. Len(queue) \in Nat /\ \A k \in 1 .. Len(queue) : queue[k] \in Task
  BY LenProperties, ElementOfSeq DEF SeqInv
<1>2. /\ Head(queue) = queue[1] /\ queue' \in Seq(Task) /\ Len(queue') = Len(queue) - 1
      /\ \A k \in 1 .. Len(queue) - 1 : queue'[k] = queue[k + 1]
  BY HeadTailProperties DEF SeqInv
<1>3. Len(queue) # 0
  BY EmptySeq DEF SeqInv
<1> QED BY <1>1, <1>2, <1>3

-----------------------------------------------------------------------------
(* The records. *)

\* The types of what the steps update.
LEMMA Types ==
  ASSUME TypeOK
  PROVE  call \in [Id -> CallRec] /\ wire \in [Sock -> WireRec] /\ caller \in [Caller -> CallerRec]
  BY DEF TypeOK, CallRec, WireRec, CallerRec

\* A step that leaves queue and sockets alone and has no caller enter keeps the order.
LEMMA OrderKept ==
  ASSUME TypeOK, SeqInv, OrderInv, UNCHANGED <<queue, sock, dialed, nextId>>,
         \A i \in Id : call'[i].over = call[i].over,
         main' \in {"idle", "store"} => main \in {"idle", "store"},
         \A d \in Caller : caller'[d].pc \in {"checked", "registered"} => caller'[d] = caller[d],
         \A s \in Sock : wire'[s].asked \subseteq wire[s].asked
  PROVE  OrderInv'
<1>1. \A d \in Caller : caller[d].pc \in {"checked", "registered"} => caller[d].id \in Id
  BY Types DEF CallerRec
<1>2. ASSUME NEW k \in 1 .. Len(queue), ~IsSwap(k) PROVE queue[k].n \in Id
  <2>1. queue[k] \in Task
    BY ElementOfSeq DEF SeqInv
  <2> QED BY <1>2, <2>1 DEF IsSwap, Task
<1>3. main' \in {"idle", "store"} => SwappedBefore(dialed, Len(queue) + 1)'
  BY DEF OrderInv, SwappedBefore, IsSwap
<1>4. ASSUME NEW d \in Caller, caller'[d].pc \in {"checked", "registered"}
      PROVE  SwappedBefore(call[caller[d].id].over, Len(queue) + 1)'
  <2>1. caller'[d] = caller[d] /\ call'[caller[d].id].over = call[caller[d].id].over
    BY <1>1, <1>4
  <2>2. SwappedBefore(call[caller[d].id].over, Len(queue) + 1)
    BY <1>4, <2>1 DEF OrderInv
  <2> QED BY <2>1, <2>2 DEF SwappedBefore, IsSwap
<1>5. ASSUME NEW k \in 1 .. Len(queue), ~IsSwap(k)
      PROVE  queue[k].n < nextId' /\ SwappedBefore(call[queue[k].n].over, k)'
  <2>1. call'[queue[k].n].over = call[queue[k].n].over
    BY <1>2, <1>5
  <2>2. queue[k].n < nextId /\ SwappedBefore(call[queue[k].n].over, k)
    BY <1>5 DEF OrderInv
  <2> QED BY <2>1, <2>2 DEF SwappedBefore, IsSwap
<1>6. \A s \in Sock : \A i \in wire'[s].asked : i < nextId'
  BY DEF OrderInv
<1> QED BY <1>3, <1>4, <1>5, <1>6 DEF OrderInv, IsSwap

-----------------------------------------------------------------------------
(* The steps. *)

\* Before the first call.
LEMMA InitIInv == Init => IInv
<1> SUFFICES ASSUME Init PROVE IInv OBVIOUS
<1> USE BoundAssumption DEF Init, IoIdle
<1>1. TypeOK
  <2>1. caller \in [Caller -> CallerRec] /\ call \in [Id -> CallRec]
    BY DEF CallerRec, CallRec, Answer, Garbage
  <2>2. [up |-> FALSE, hup |-> FALSE, asked |-> {}, back |-> << >>] \in WireRec
    BY EmptySeq DEF WireRec
  <2>3. wire \in [Sock -> WireRec]
    BY <2>2, Zenon
  <2>4. io \in [pc : {"idle", "fill", "wake"}, id : 0 .. MaxCalls, data : Answer]
    BY DEF Answer, Garbage
  <2>5. /\ nextId \in 1 .. MaxCalls + 1 /\ pending \subseteq Id
        /\ sock \in 0 .. MaxSocks /\ main \in {"idle", "wake", "post", "store"} /\ dialed \in 0 .. MaxSocks
    OBVIOUS
  <2>8. connected \in BOOLEAN
    BY Zenon
  <2>6. DOMAIN queue = {} /\ DOMAIN buf = {}
    OBVIOUS
  <2>7. /\ \A i \in DOMAIN queue : queue[i] \in [op : {"write"}, n : Id] \union [op : {"swap"}, n : Sock]
        /\ \A i \in DOMAIN buf : buf[i] \in Token
    BY <2>6, Zenon
  <2> HIDE DEF Init
  <2> QED BY <2>1, <2>3, <2>4, <2>5, <2>7, <2>8 DEF TypeOK, CallerRec, CallRec, WireRec
<1>2. SeqInv
  BY EmptySeq DEF SeqInv
<1>3. OwnAnswer /\ NoOrphan /\ NewSocketOnly /\ IdInv /\ MapInv /\ FillInv
  BY DEF OwnAnswer, NoOrphan, NewSocketOnly, IdInv, Busy, MapInv, FillInv
<1>4. StreamInv
  <2>1. Len(<< >>) = 0
    BY EmptySeq
  <2>2. Framed(<< >>) /\ Whole(<< >>)
    BY <2>1 DEF Framed, Whole
  <2> QED BY <2>2 DEF StreamInv, Flows, Stream, Sock
<1>5. SwapInv
  BY EmptySeq DEF SwapInv, IsSwap
<1>6. OrderInv
  BY EmptySeq DEF OrderInv, SwappedBefore, IsSwap
<1> QED BY <1>1, <1>2, <1>3, <1>4, <1>5, <1>6 DEF IInv

\* A call is given its id.
LEMMA ChecksStep ==
  ASSUME IInv, NEW c \in Caller, Checks(c)
  PROVE  IInv'
<1> USE BoundAssumption DEF IInv, Checks
<1>0. /\ nextId \in Id /\ nextId \in Nat /\ dialed \in 0 .. MaxSocks /\ call'[nextId] \in CallRec
      /\ call'[nextId].state = "open" /\ call'[nextId].over = dialed /\ call'[nextId].data = call[nextId].data
      /\ \A i \in Id : i # nextId => call'[i] = call[i]
      /\ \A i \in Id : i < nextId => call'[i] = call[i]
  <2>1. nextId \in Id /\ nextId \in Nat /\ dialed \in 0 .. MaxSocks
    BY DEF TypeOK, Id
  <2>2. call[nextId] \in CallRec
    BY <2>1, Types
  <2>3. call'[nextId] = [call[nextId] EXCEPT !.state = "open", !.over = dialed]
    BY <2>1, Types
  <2>4. /\ call'[nextId] \in CallRec /\ call'[nextId].state = "open" /\ call'[nextId].over = dialed
        /\ call'[nextId].data = call[nextId].data
    <3> HIDE DEF Checks
    <3> QED BY <2>1, <2>2, <2>3 DEF CallRec
  <2>5. \A i \in Id : i # nextId => call'[i] = call[i]
    BY Types
  <2>6. \A i \in Id : i < nextId => i # nextId
    BY <2>1 DEF Id
  <2> QED BY <2>1, <2>4, <2>5, <2>6
<1>a. /\ caller'[c].pc = "checked" /\ caller'[c].id = nextId
      /\ \A d \in Caller : d # c => caller'[d] = caller[d]
  BY Types
<1>b. nextId' = nextId + 1 /\ \A i \in Nat : i < nextId => i < nextId' /\ i # nextId
  BY <1>0
<1>1. SeqInv' /\ StreamInv' /\ FillInv' /\ SwapInv'
  BY DEF SeqInv, StreamInv, Flows, Stream, FillInv, SwapInv, IsSwap
<1>2. TypeOK'
  <2>1. caller' \in [Caller -> CallerRec]
    BY <1>0, <1>a, Types DEF CallerRec
  <2>2. nextId' \in 1 .. MaxCalls + 1
    BY <1>0 DEF Id
  <2>3. call' \in [Id -> CallRec]
    BY <1>0, Types
  <2> QED BY <2>1, <2>2, <2>3 DEF TypeOK, CallerRec, CallRec, WireRec, Task
<1>3. OwnAnswer'
  BY <1>0 DEF OwnAnswer
<1>4. NoOrphan'
  <2> SUFFICES ASSUME NEW i \in pending PROVE \E d \in Caller : caller'[d].id = i /\ caller'[d].pc # "idle"
    BY DEF NoOrphan
  <2>1. PICK d \in Caller : caller[d].id = i /\ caller[d].pc # "idle"
    BY DEF NoOrphan
  <2> QED BY <1>a, <2>1
<1>5. NewSocketOnly'
  <2> SUFFICES ASSUME NEW s \in Sock, NEW i \in wire[s].asked PROVE call'[i].over <= s
    BY DEF NewSocketOnly
  <2>1. i \in Id /\ i < nextId
    BY Types DEF OrderInv, WireRec
  <2> QED BY <1>0, <2>1 DEF NewSocketOnly
<1>6. IdInv'
  <2>1. \A d \in Caller : caller[d].id \in Nat /\ caller[d].id < nextId /\ caller[d].id # nextId
    BY <1>b, Types DEF IdInv, CallerRec, Id
  <2>2. \A d \in Caller : caller'[d].id < nextId'
    BY <1>0, <1>a, <1>b, <2>1
  <2> QED BY <1>a, <2>1, <2>2 DEF IdInv, Busy
<1>7. MapInv'
  <2>1. \A d \in Caller : caller[d].pc = "checked" => caller[d].id \in Id /\ caller[d].id < nextId
    BY Types DEF IdInv, CallerRec
  <2>2. \A i \in pending : i \in Id /\ i \in Nat /\ i < nextId
    BY DEF MapInv, TypeOK, Id
  <2>3. nextId \notin pending /\ (io.pc = "fill" => io.id # nextId)
    BY <1>0, <1>b, <2>2 DEF MapInv, Id
  <2>4. \A i \in pending : Fresh(i)' /\ i < nextId'
    BY <1>0, <1>b, <2>2 DEF MapInv, Fresh
  <2>5. \A d \in Caller : caller'[d].pc = "checked" => Fresh(caller[d].id)' /\ caller'[d].id \notin pending
    <3>1. io' = io
      OBVIOUS
    <3>2. ASSUME NEW n, n = nextId PROVE Fresh(n)'
      BY <1>0, <2>3, <3>1, <3>2 DEF Fresh
    <3>3. ASSUME NEW d \in Caller, d # c, caller[d].pc = "checked", NEW n, n = caller[d].id
          PROVE  Fresh(n)' /\ n \notin pending
      <4>1. call'[n] = call[n]
        BY <1>0, <2>1, <3>3
      <4> QED BY <3>1, <3>3, <4>1 DEF MapInv, Fresh
    <3>4. ASSUME NEW d \in Caller, caller'[d].pc = "checked"
          PROVE  Fresh(caller[d].id)' /\ caller'[d].id \notin pending
      <4>1. CASE d = c
        BY <1>a, <2>3, <3>2, <4>1 DEF Fresh
      <4>2. CASE d # c
        BY <1>a, <3>3, <3>4, <4>2 DEF Fresh
      <4> QED BY <4>1, <4>2
    <3> QED BY <3>4
  <2>6. io.pc = "fill" => io.id \in Id /\ io.id < nextId'
    BY <1>b DEF MapInv, Id
  <2> QED BY <2>4, <2>5, <2>6 DEF MapInv
<1>8. OrderInv'
  <2>1. SwappedBefore(dialed, Len(queue) + 1)
    BY DEF OrderInv, SwapInv
  <2>2. ASSUME NEW k \in 1 .. Len(queue), ~IsSwap(k)
        PROVE  queue[k].n < nextId' /\ call'[queue[k].n].over = call[queue[k].n].over
    <3>1. queue[k] \in Task
      BY ElementOfSeq DEF SeqInv
    <3>2. queue[k].n \in Id /\ queue[k].n < nextId
      BY <2>2, <3>1 DEF OrderInv, IsSwap, Task
    <3>3. call'[queue[k].n] = call[queue[k].n]
      BY <1>0, <3>2
    <3>4. queue[k].n < nextId'
      BY <1>b, <3>2 DEF Id
    <3> QED BY <3>3, <3>4
  <2>3. ASSUME NEW k \in 1 .. Len(queue), ~IsSwap(k)
        PROVE  queue[k].n < nextId' /\ SwappedBefore(call[queue[k].n].over, k)'
    <3>1. SwappedBefore(call[queue[k].n].over, k)
      BY <2>3 DEF OrderInv
    <3> QED BY <2>2, <2>3, <3>1 DEF SwappedBefore, IsSwap
  <2>4. ASSUME NEW d \in Caller, caller'[d].pc \in {"checked", "registered"}
        PROVE  SwappedBefore(call[caller[d].id].over, Len(queue) + 1)'
    <3>1. CASE d = c
      <4>1. call'[caller'[d].id].over = dialed
        BY <1>0, <1>a, <3>1
      <4> QED BY <2>1, <4>1 DEF SwappedBefore, IsSwap
    <3>2. CASE d # c
      <4>1. caller'[d] = caller[d] /\ caller[d].id \in Id /\ caller[d].id < nextId
        BY <1>a, <2>4, <3>2, Types DEF IdInv, CallerRec
      <4>2. call'[caller[d].id] = call[caller[d].id]
        BY <1>0, <4>1
      <4>3. SwappedBefore(call[caller[d].id].over, Len(queue) + 1)
        BY <2>4, <4>1 DEF OrderInv
      <4> QED BY <4>1, <4>2, <4>3 DEF SwappedBefore, IsSwap
    <3> QED BY <3>1, <3>2
  <2>5. ASSUME NEW s \in Sock, NEW i \in wire[s].asked PROVE i < nextId'
    <3>1. i \in Id /\ i < nextId
      BY Types DEF OrderInv, WireRec
    <3> QED BY <1>b, <3>1 DEF Id
  <2>6. SwappedBefore(dialed, Len(queue) + 1)'
    BY <2>1 DEF SwappedBefore, IsSwap
  <2> QED BY <2>3, <2>4, <2>5, <2>6 DEF OrderInv, IsSwap
<1> QED BY <1>1, <1>2, <1>3, <1>4, <1>5, <1>6, <1>7, <1>8

\* It is put into the map.
LEMMA RegistersStep ==
  ASSUME IInv, NEW c \in Caller, Registers(c)
  PROVE  IInv'
<1> USE BoundAssumption DEF IInv, Registers, Go
<1>0. /\ caller[c].id \in Id /\ caller'[c].id = caller[c].id /\ caller'[c].pc = "registered"
      /\ \A d \in Caller \ {c} : caller'[d] = caller[d]
  BY DEF TypeOK
<1>1. SeqInv' /\ OwnAnswer' /\ NewSocketOnly' /\ StreamInv' /\ FillInv' /\ SwapInv'
  BY DEF SeqInv, OwnAnswer, NewSocketOnly, StreamInv, Flows, Stream, FillInv, SwapInv, IsSwap
<1>2. TypeOK'
  <2>1. caller' \in [Caller -> CallerRec]
    BY <1>0 DEF TypeOK, CallerRec, Id
  <2>2. pending' \subseteq Id
    BY <1>0 DEF TypeOK
  <2> QED BY <2>1, <2>2 DEF TypeOK, CallerRec, CallRec, WireRec, Task
<1>3. NoOrphan'
  BY <1>0 DEF NoOrphan, TypeOK
<1>4. IdInv'
  BY <1>0 DEF IdInv, Busy, TypeOK, Id
<1>5. MapInv'
  <2>1. Fresh(caller[c].id) /\ caller[c].id < nextId
    BY DEF MapInv, IdInv
  <2>2. \A d \in Caller \ {c} : caller[d].pc = "checked" => caller[d].id # caller[c].id
    BY DEF IdInv, Busy
  <2> QED BY <1>0, <2>1, <2>2 DEF MapInv, Fresh
<1>6. OrderInv'
  BY <1>0 DEF OrderInv, SwappedBefore, IsSwap
<1> QED BY <1>1, <1>2, <1>3, <1>4, <1>5, <1>6

\* Its request is queued.
LEMMA DispatchesWriteStep ==
  ASSUME IInv, NEW c \in Caller, DispatchesWrite(c)
  PROVE  IInv'
<1> USE BoundAssumption DEF IInv, DispatchesWrite, Go
<1>0. /\ caller[c].id \in Id /\ caller'[c].id = caller[c].id /\ caller'[c].pc = "waiting"
      /\ \A d \in Caller \ {c} : caller'[d] = caller[d]
  BY DEF TypeOK
<1> DEFINE t == [op |-> "write", n |-> caller[c].id]
<1>a. t \in Task /\ t.op = "write" /\ t.n = caller[c].id
  BY <1>0 DEF Task
<1>b. queue' = Append(queue, t)
  OBVIOUS
<1> HIDE DEF t
<1>c. /\ queue' \in Seq(Task) /\ Len(queue) \in Nat /\ Len(queue') = Len(queue) + 1
      /\ \A k \in 1 .. Len(queue) : queue[k] \in Task /\ queue'[k] = queue[k]
      /\ queue'[Len(queue) + 1] = t
      /\ \A v, k : k \in 1 .. Len(queue) + 1 /\ SwappedBefore(v, k) => SwappedBefore(v, k)'
  BY <1>a, <1>b, QueueGrows
<1>d. \A k \in 1 .. Len(queue') : k \in 1 .. Len(queue) \/ k = Len(queue) + 1
  BY <1>c
<1>1. OwnAnswer' /\ NewSocketOnly' /\ StreamInv' /\ FillInv'
  BY DEF OwnAnswer, NewSocketOnly, StreamInv, Flows, Stream, FillInv
<1>2. TypeOK'
  <2>1. caller' \in [Caller -> CallerRec]
    BY <1>0 DEF TypeOK, CallerRec, Id
  <2>2. \A i \in DOMAIN queue' : queue'[i] \in Task
    BY <1>c, ElementOfSeq, LenProperties
  <2> QED BY <2>1, <2>2 DEF TypeOK, CallerRec, CallRec, WireRec, Task
<1>3. SeqInv'
  BY <1>c DEF SeqInv
<1>4. NoOrphan'
  BY <1>0 DEF NoOrphan, TypeOK
<1>5. IdInv'
  BY <1>0 DEF IdInv, Busy, TypeOK, Id
<1>6. MapInv'
  BY <1>0 DEF MapInv, Fresh, IdInv, Busy, TypeOK, Id
<1>7. SwapInv'
  BY <1>a, <1>c, <1>d DEF SwapInv, IsSwap
<1>8. OrderInv'
  <2>0. ASSUME NEW v, SwappedBefore(v, Len(queue) + 1)
        PROVE  v <= sock' \/ \E j \in 1 .. Len(queue') : j < Len(queue') + 1 /\ IsSwap(j)' /\ v <= queue'[j].n
    <3>1. Len(queue) + 1 \in 1 .. Len(queue) + 1
      BY <1>c
    <3>2. ASSUME NEW k, k = Len(queue) + 1
          PROVE  v <= sock' \/ \E j \in 1 .. Len(queue') : j < k /\ IsSwap(j)' /\ v <= queue'[j].n
      BY <1>c, <2>0, <3>1, <3>2 DEF SwappedBefore
    <3> QED BY <1>c, <3>2
  <2>1. main' \in {"idle", "store"} => SwappedBefore(dialed, Len(queue) + 1)'
    BY <2>0 DEF OrderInv, SwappedBefore
  <2>2. ASSUME NEW d \in Caller, caller'[d].pc \in {"checked", "registered"}
        PROVE  SwappedBefore(call[caller[d].id].over, Len(queue) + 1)'
    <3>1. d # c /\ caller'[d] = caller[d]
      BY <1>0, <2>2
    <3>2. SwappedBefore(call[caller[d].id].over, Len(queue) + 1)
      BY <2>2, <3>1 DEF OrderInv
    <3> QED BY <2>0, <3>1, <3>2 DEF SwappedBefore
  <2>3. ASSUME NEW k \in 1 .. Len(queue'), ~IsSwap(k)'
        PROVE  queue'[k].n < nextId /\ SwappedBefore(call[queue[k].n].over, k)'
    <3>1. CASE k \in 1 .. Len(queue)
      <4>1. queue'[k] = queue[k] /\ ~IsSwap(k)
        BY <1>c, <2>3, <3>1 DEF IsSwap
      <4>2. queue[k].n < nextId /\ SwappedBefore(call[queue[k].n].over, k)
        BY <3>1, <4>1 DEF OrderInv
      <4>3. k \in 1 .. Len(queue) + 1
        BY <1>c, <3>1
      <4>4. ASSUME NEW v, v = call[queue[k].n].over PROVE SwappedBefore(v, k)'
        BY <1>c, <4>2, <4>3, <4>4
      <4> QED BY <4>1, <4>2, <4>4 DEF SwappedBefore
    <3>2. CASE k = Len(queue) + 1
      <4>1. queue'[k].n = caller[c].id /\ caller[c].id < nextId /\ k = Len(queue')
        BY <1>a, <1>c, <3>2 DEF IdInv
      <4>2. SwappedBefore(call[caller[c].id].over, k)
        BY <3>2 DEF OrderInv
      <4>3. k \in 1 .. Len(queue) + 1
        BY <1>c, <3>2
      <4>4. ASSUME NEW v, v = call[caller[c].id].over PROVE SwappedBefore(v, k)'
        BY <1>c, <4>2, <4>3, <4>4
      <4> QED BY <4>1, <4>4 DEF SwappedBefore
    <3> QED BY <1>d, <3>1, <3>2
  <2>4. \A s \in Sock : \A i \in wire'[s].asked : i < nextId'
    BY DEF OrderInv
  <2> QED BY <2>1, <2>2, <2>3, <2>4 DEF OrderInv
<1> QED BY <1>1, <1>2, <1>3, <1>4, <1>5, <1>6, <1>7, <1>8

\* It is over.
LEMMA WokenStep ==
  ASSUME IInv, NEW c \in Caller, Woken(c)
  PROVE  IInv'
<1> USE BoundAssumption DEF IInv, Woken, Return, Done
<1>0. /\ caller[c].id \in Id /\ caller[c].id \notin pending
      /\ caller'[c].pc = "idle" /\ caller'[c].id = 0
      /\ \A d \in Caller \ {c} : caller'[d] = caller[d]
  BY DEF TypeOK, MapInv, Fresh
<1>1. SeqInv' /\ OwnAnswer' /\ NewSocketOnly' /\ StreamInv' /\ FillInv' /\ SwapInv'
  BY DEF SeqInv, OwnAnswer, NewSocketOnly, StreamInv, Flows, Stream, FillInv, SwapInv, IsSwap
<1>2. TypeOK'
  <2>1. caller' \in [Caller -> CallerRec]
    BY <1>0 DEF TypeOK, CallerRec, Id
  <2> QED BY <2>1 DEF TypeOK, CallerRec, CallRec, WireRec, Task
<1>3. NoOrphan'
  <2> SUFFICES ASSUME NEW i \in pending PROVE \E d \in Caller : caller'[d].id = i /\ caller'[d].pc # "idle"
    BY DEF NoOrphan
  <2>1. PICK d \in Caller : caller[d].id = i /\ caller[d].pc # "idle"
    BY DEF NoOrphan
  <2> QED BY <1>0, <2>1
<1>4. IdInv'
  BY <1>0 DEF IdInv, Busy, TypeOK, Id
<1>5. MapInv'
  BY <1>0 DEF MapInv, Fresh, IdInv, Busy, TypeOK, Id
<1>6. OrderInv'
  BY <1>0 DEF OrderInv, SwappedBefore, IsSwap
<1> QED BY <1>1, <1>2, <1>3, <1>4, <1>5, <1>6

\* It times out.
LEMMA TimesOutStep ==
  ASSUME IInv, NEW c \in Caller, TimesOut(c)
  PROVE  IInv'
<1> USE BoundAssumption DEF IInv, TimesOut, Go
<1>1. SeqInv' /\ OwnAnswer' /\ NewSocketOnly' /\ StreamInv' /\ FillInv' /\ SwapInv'
  BY DEF SeqInv, OwnAnswer, NewSocketOnly, StreamInv, Flows, Stream, FillInv, SwapInv, IsSwap
<1>2. TypeOK'
  <2>1. caller' \in [Caller -> CallerRec]
    BY DEF TypeOK, CallerRec, Id
  <2> QED BY <2>1 DEF TypeOK, CallerRec, CallRec, WireRec, Task
<1>3. NoOrphan'
  BY DEF NoOrphan, TypeOK
<1>4. IdInv'
  BY DEF IdInv, Busy, TypeOK, Id
<1>5. MapInv'
  BY DEF MapInv, Fresh, IdInv, Busy, TypeOK, Id
<1>6. OrderInv'
  BY DEF OrderInv, SwappedBefore, IsSwap
<1> QED BY <1>1, <1>2, <1>3, <1>4, <1>5, <1>6

\* The caller takes its slot back, or waits for the answer that is on its way.
LEMMA ReclaimsStep ==
  ASSUME IInv, NEW c \in Caller, Reclaims(c)
  PROVE  IInv'
<1> USE BoundAssumption DEF IInv, Reclaims, Return, Go, Unregistered
<1>0. /\ caller[c].id \in Id /\ Busy(c) /\ caller'[c].pc \in {"idle", "claimed"}
      /\ caller[c].id \in pending => caller'[c].pc = "idle" /\ caller'[c].id = 0
      /\ caller[c].id \notin pending => caller'[c].pc = "claimed" /\ caller'[c].id = caller[c].id
      /\ \A d \in Caller : d # c => caller'[d] = caller[d]
  BY DEF TypeOK, Busy
<1>a. /\ \A i \in Id : i # caller[c].id => call'[i] = call[i]
      /\ \A i \in Id : call'[i].over = call[i].over /\ call'[i].data = call[i].data /\ call'[i] \in CallRec
      /\ caller[c].id \in pending => call'[caller[c].id].state = "closed"
      /\ caller[c].id \notin pending => call' = call
      /\ call' \in [Id -> CallRec]
  <2>1. CASE caller[c].id \in pending
    <3>1. call'[caller[c].id] = [call[caller[c].id] EXCEPT !.state = "closed"] /\ call[caller[c].id] \in CallRec
      BY <1>0, <2>1, Types
    <3>2. \A i \in Id : i # caller[c].id => call'[i] = call[i] /\ call[i] \in CallRec
      BY <2>1, Types
    <3>3. /\ call'[caller[c].id].state = "closed" /\ call'[caller[c].id].data = call[caller[c].id].data
          /\ call'[caller[c].id].over = call[caller[c].id].over /\ call'[caller[c].id] \in CallRec
      BY <3>1 DEF CallRec
    <3>4. call' \in [Id -> CallRec]
      BY <2>1, <3>2, <3>3, Types
    <3> QED BY <2>1, <3>2, <3>3, <3>4
  <2>2. CASE caller[c].id \notin pending
    BY <2>2, Types
  <2> QED BY <2>1, <2>2
<1>1. SeqInv' /\ StreamInv' /\ FillInv' /\ SwapInv'
  BY DEF SeqInv, StreamInv, Flows, Stream, FillInv, SwapInv, IsSwap
<1>2. TypeOK'
  <2>1. caller' \in [Caller -> CallerRec]
    <3>1. caller'[c] \in CallerRec
      BY <1>0, Types DEF CallerRec
    <3> QED BY <3>1, Types
  <2>2. pending' \subseteq Id
    BY <1>0 DEF TypeOK
  <2>3. call' \in [Id -> CallRec]
    BY <1>a
  <2> QED BY <2>1, <2>2, <2>3 DEF TypeOK, CallerRec, CallRec, WireRec, Task
<1>3. OwnAnswer'
  BY <1>0, <1>a DEF OwnAnswer
<1>4. NoOrphan'
  <2> SUFFICES ASSUME NEW i \in pending' PROVE \E d \in Caller : caller'[d].id = i /\ caller'[d].pc # "idle"
    BY DEF NoOrphan
  <2>1. PICK d \in Caller : caller[d].id = i /\ caller[d].pc # "idle"
    BY DEF NoOrphan
  <2> QED BY <1>0, <2>1
<1>5. NewSocketOnly'
  BY <1>a, Types DEF NewSocketOnly, WireRec
<1>6. IdInv'
  <2>1. 0 < nextId
    BY DEF TypeOK
  <2> QED BY <1>0, <2>1 DEF IdInv, Busy
<1>7. MapInv'
  <2>1. \A d \in Caller : caller'[d].pc = "checked" => d # c /\ caller'[d] = caller[d] /\ caller[d].id # caller[c].id /\ caller[d].id \in Id
    BY <1>0 DEF IdInv, Busy, TypeOK
  <2> QED BY <1>0, <1>a, <2>1 DEF MapInv, Fresh, TypeOK
<1>8. OrderInv'
  <2>1. \A d \in Caller : caller'[d].pc \in {"checked", "registered"} => caller'[d] = caller[d]
    BY <1>0
  <2> QED BY <1>a, <2>1, OrderKept
<1> QED BY <1>1, <1>2, <1>3, <1>4, <1>5, <1>6, <1>7, <1>8

\* The io thread runs a task.
LEMMA RunsTaskStep ==
  ASSUME IInv, RunsTask
  PROVE  IInv'
<1> USE BoundAssumption DEF IInv, RunsTask, Emptied
<1>0. /\ queue' \in Seq(Task) /\ Len(queue) \in Nat \ {0} /\ Len(queue') = Len(queue) - 1
      /\ Head(queue) = queue[1] /\ queue[1] \in Task
      /\ \A k \in 1 .. Len(queue) - 1 : queue'[k] = queue[k + 1] /\ queue'[k] \in Task
  BY QueueMoves
<1>a. /\ 1 \in 1 .. Len(queue) /\ (sock # 0 => sock \in Sock) /\ sock \in Nat /\ Sock \subseteq Nat
      /\ \A k \in 1 .. Len(queue') : k + 1 \in 1 .. Len(queue) /\ queue'[k] = queue[k + 1]
  BY <1>0 DEF TypeOK, Sock
\* A write: its request goes to a socket not older than its call.
<1>b. ASSUME ~IsSwap(1)
      PROVE  /\ sock' = sock /\ buf' = buf /\ queue[1].n \in Id /\ queue[1].n < nextId
             /\ call[queue[1].n].over <= sock
             /\ wire' \in [Sock -> WireRec]
             /\ \A s \in Sock : wire'[s].back = wire[s].back /\ wire'[s].up = wire[s].up
             /\ \A s \in Sock : \/ wire'[s].asked = wire[s].asked
                                \/ s = sock /\ wire'[s].asked = wire[s].asked \union {queue[1].n}
  <2>1. queue[1].op = "write" /\ queue[1].n \in Id
    BY <1>0, <1>b DEF IsSwap, Task
  <2>2. queue[1].n < nextId /\ call[queue[1].n].over <= sock
    <3>1. queue[1].n < nextId /\ SwappedBefore(call[queue[1].n].over, 1)
      BY <1>a, <1>b DEF OrderInv
    <3>2. \A j \in 1 .. Len(queue) : ~(j < 1)
      BY <1>0
    <3> QED BY <3>1, <3>2 DEF SwappedBefore
  <2>3. sock' = sock /\ buf' = buf
    BY <1>0, <2>1
  <2>4. CASE sock = 0 \/ ~wire[sock].up
    <3>1. wire' = wire
      BY <1>0, <2>1, <2>4
    <3> QED BY <2>1, <2>2, <2>3, <3>1, Types
  <2>5. CASE ~(sock = 0 \/ ~wire[sock].up)
    <3>1. wire' = [wire EXCEPT ![sock].asked = @ \union {queue[1].n}]
      BY <1>0, <2>1, <2>5
    <3>2. sock \in Sock /\ wire[sock] \in WireRec
      BY <1>a, <2>5, Types
    <3>3. wire'[sock] = [wire[sock] EXCEPT !.asked = wire[sock].asked \union {queue[1].n}]
      BY <3>1, <3>2, Types
    <3>4. wire[sock].asked \union {queue[1].n} \in SUBSET Id
      BY <2>1, <3>2 DEF WireRec
    <3>5. /\ wire'[sock] \in WireRec /\ wire'[sock].up = wire[sock].up /\ wire'[sock].back = wire[sock].back
          /\ wire'[sock].asked = wire[sock].asked \union {queue[1].n}
      BY <3>2, <3>3, <3>4 DEF WireRec
    <3>6. \A s \in Sock : s # sock => wire'[s] = wire[s]
      BY <3>1, Types
    <3>7. wire' \in [Sock -> WireRec]
      BY <3>1, <3>5, Types
    <3> QED BY <2>1, <2>2, <2>3, <3>5, <3>6, <3>7
  <2> QED BY <2>4, <2>5
\* A swap: to a later socket.
<1>c. ASSUME IsSwap(1)
      PROVE  /\ sock' = queue[1].n /\ sock' \in Sock /\ sock < sock' /\ buf' = << >>
             /\ wire' \in [Sock -> WireRec]
             /\ \A s \in Sock : wire'[s].back = wire[s].back /\ wire'[s].asked = wire[s].asked /\ (wire'[s].up => wire[s].up)
  <2>1. queue[1].op = "swap" /\ queue[1].n \in Sock /\ sock < queue[1].n
    BY <1>0, <1>a, <1>c DEF IsSwap, Task, SwapInv
  <2>2. sock' = queue[1].n /\ buf' = << >>
    BY <1>0, <2>1
  <2>3. CASE sock = 0
    <3>1. wire' = wire
      BY <1>0, <2>1, <2>3
    <3> QED BY <2>1, <2>2, <3>1, Types
  <2>4. CASE sock # 0
    <3>1. wire' = [wire EXCEPT ![sock].up = FALSE, ![sock].hup = FALSE]
      BY <1>0, <2>1, <2>4
    <3>2. sock \in Sock /\ wire[sock] \in WireRec
      BY <1>a, <2>4, Types
    <3>3. wire'[sock] = [wire[sock] EXCEPT !.up = FALSE, !.hup = FALSE]
      BY <3>1, <3>2, Types
    <3>5. /\ wire'[sock] \in WireRec /\ wire'[sock].up = FALSE /\ wire'[sock].back = wire[sock].back
          /\ wire'[sock].asked = wire[sock].asked
      BY <3>2, <3>3 DEF WireRec
    <3>6. \A s \in Sock : s # sock => wire'[s] = wire[s]
      BY <3>1, Types
    <3>7. wire' \in [Sock -> WireRec]
      BY <3>1, <3>5, Types
    <3> QED BY <2>1, <2>2, <3>5, <3>6, <3>7
  <2> QED BY <2>3, <2>4
<1>d. UNCHANGED <<caller, nextId, pending, call, connected, io, main, dialed>>
  OBVIOUS
<1> HIDE DEF RunsTask
<1>1. OwnAnswer' /\ NoOrphan' /\ IdInv' /\ MapInv' /\ FillInv'
  BY <1>d DEF OwnAnswer, NoOrphan, IdInv, Busy, MapInv, Fresh, FillInv
<1>2. TypeOK'
  <2>1. \A i \in DOMAIN queue' : queue'[i] \in Task
    BY <1>0, LenProperties
  <2>2. sock' \in 0 .. MaxSocks
    BY <1>b, <1>c DEF TypeOK, Sock
  <2>3. \A i \in DOMAIN buf' : buf'[i] \in Token
    BY <1>b, <1>c, EmptySeq DEF TypeOK
  <2>4. wire' \in [Sock -> WireRec]
    BY <1>b, <1>c
  <2> QED BY <1>d, <2>1, <2>2, <2>3, <2>4 DEF TypeOK, CallerRec, CallRec, WireRec, Task
<1>3. SeqInv'
  BY <1>0, <1>b, <1>c, EmptySeq DEF SeqInv
<1>4. NewSocketOnly'
  BY <1>b, <1>c, <1>d DEF NewSocketOnly
<1>5. StreamInv'
  <2>1. ASSUME NEW s \in Sock, s >= sock' PROVE Flows(s)'
    <3>1. CASE ~IsSwap(1)
      <4>1. Stream(s)' = Stream(s) /\ wire'[s].up = wire[s].up /\ s >= sock
        BY <1>b, <2>1, <3>1 DEF Stream
      <4>2. Flows(s)
        BY <4>1 DEF StreamInv
      <4> QED BY <4>1, <4>2 DEF Flows
    <3>2. CASE IsSwap(1)
      <4>1. s # sock /\ s >= sock /\ (wire'[s].up => wire[s].up)
        <5>1. s \in Nat /\ sock' \in Nat /\ sock < sock' /\ (wire'[s].up => wire[s].up)
          BY <1>a, <1>c, <3>2
        <5> QED BY <1>a, <2>1, <5>1
      <4>2. wire[s].back \in Seq(Token)
        BY Types DEF WireRec
      <4>3. << >> \o wire[s].back = wire[s].back
        BY <4>2, ConcatEmptySeq
      <4>4. Stream(s)' = wire[s].back /\ Stream(s) = wire[s].back
        BY <1>c, <3>2, <4>1, <4>3 DEF Stream
      <4>5. Flows(s)
        BY <4>1 DEF StreamInv
      <4> QED BY <4>1, <4>4, <4>5 DEF Flows
    <3> QED BY <3>1, <3>2
  <2>2. sock' = 0 => buf' = << >>
    BY <1>b, <1>c DEF StreamInv, Sock
  <2>3. \A s \in Sock : s > dialed' => wire'[s].back = << >> /\ ~wire'[s].up
    BY <1>b, <1>c, <1>d DEF StreamInv
  <2> QED BY <2>1, <2>2, <2>3 DEF StreamInv
<1>6. SwapInv'
  <2>1. \A k \in 1 .. Len(queue') : IsSwap(k)' <=> IsSwap(k + 1)
    BY <1>a DEF IsSwap
  <2>2. \A j, k \in 1 .. Len(queue') : j < k => j + 1 < k + 1
    BY <1>0
  <2>3. \A k \in 1 .. Len(queue') : 1 < k + 1
    BY <1>0
  <2>4. CASE ~IsSwap(1)
    BY <1>a, <1>b, <1>d, <2>1, <2>2, <2>4 DEF SwapInv
  <2>5. CASE IsSwap(1)
    <3>1. sock' <= dialed
      BY <1>a, <1>c, <2>5 DEF SwapInv
    <3>2. \A j \in 1 .. Len(queue') : IsSwap(j)' => sock' < queue'[j].n /\ queue'[j].n <= dialed
      BY <1>a, <1>c, <2>1, <2>3, <2>5 DEF SwapInv
    <3>3. \A j, k \in 1 .. Len(queue') : IsSwap(j)' /\ IsSwap(k)' /\ j < k => queue'[j].n < queue'[k].n
      BY <1>a, <2>1, <2>2 DEF SwapInv
    <3>4. main \in {"wake", "post"} => sock' < dialed /\ \A j \in 1 .. Len(queue') : IsSwap(j)' => queue'[j].n < dialed
      BY <1>a, <1>c, <2>1, <2>5 DEF SwapInv
    <3> QED BY <1>d, <3>1, <3>2, <3>3, <3>4 DEF SwapInv
  <2> QED BY <2>4, <2>5
<1>7. OrderInv'
  <2>1. ASSUME NEW v \in 0 .. MaxSocks, NEW k \in 1 .. Len(queue), SwappedBefore(v, k + 1) PROVE SwappedBefore(v, k)'
    <3>1. CASE v <= sock
      <4>1. v <= sock'
        BY <1>a, <1>b, <1>c, <3>1 DEF Sock
      <4> QED BY <4>1 DEF SwappedBefore
    <3>2. CASE \E j \in 1 .. Len(queue) : j < k + 1 /\ IsSwap(j) /\ v <= queue[j].n
      <4>1. PICK j \in 1 .. Len(queue) : j < k + 1 /\ IsSwap(j) /\ v <= queue[j].n
        BY <3>2
      <4>2. CASE j = 1
        <5>1. v <= sock'
          BY <1>c, <4>1, <4>2
        <5> QED BY <5>1 DEF SwappedBefore
      <4>3. CASE j # 1
        <5>1. j - 1 \in 1 .. Len(queue') /\ (j - 1) + 1 = j /\ j - 1 < k
          BY <1>0, <4>1, <4>3
        <5>2. IsSwap(j - 1)' /\ v <= queue'[j - 1].n
          BY <1>a, <4>1, <5>1 DEF IsSwap
        <5> QED BY <5>1, <5>2 DEF SwappedBefore
      <4> QED BY <4>2, <4>3
    <3> QED BY <2>1, <3>1, <3>2 DEF SwappedBefore
  <2>2. Len(queue) \in 1 .. Len(queue) /\ Len(queue') + 1 = Len(queue)
    BY <1>0
  <2>3. main' \in {"idle", "store"} => SwappedBefore(dialed, Len(queue) + 1)'
    <3> SUFFICES ASSUME main \in {"idle", "store"} PROVE SwappedBefore(dialed, Len(queue) + 1)'
      BY <1>d
    <3>1. SwappedBefore(dialed, Len(queue) + 1) /\ dialed \in 0 .. MaxSocks
      BY DEF OrderInv, TypeOK
    <3>2. ASSUME NEW v, NEW n, v = dialed, n = Len(queue) PROVE SwappedBefore(v, n)'
      BY <2>1, <2>2, <3>1, <3>2
    <3> QED BY <1>d, <2>2, <3>2 DEF SwappedBefore
  <2>4. ASSUME NEW d \in Caller, caller'[d].pc \in {"checked", "registered"}
        PROVE  SwappedBefore(call[caller[d].id].over, Len(queue) + 1)'
    <3>1. SwappedBefore(call[caller[d].id].over, Len(queue) + 1) /\ call[caller[d].id].over \in 0 .. MaxSocks
      BY <1>d, <2>4, Types DEF OrderInv, CallerRec, CallRec
    <3>2. ASSUME NEW v, NEW n, v = call[caller[d].id].over, n = Len(queue) PROVE SwappedBefore(v, n)'
      BY <2>1, <2>2, <3>1, <3>2
    <3> QED BY <1>d, <2>2, <3>2 DEF SwappedBefore
  <2>5. ASSUME NEW k \in 1 .. Len(queue'), ~IsSwap(k)'
        PROVE  queue'[k].n < nextId' /\ SwappedBefore(call[queue[k].n].over, k)'
    <3>1. k + 1 \in 1 .. Len(queue) /\ queue'[k] = queue[k + 1] /\ ~IsSwap(k + 1) /\ queue'[k] \in Task /\ k \in 1 .. Len(queue)
      BY <1>0, <1>a, <2>5 DEF IsSwap
    <3>2. queue[k + 1].n < nextId /\ SwappedBefore(call[queue[k + 1].n].over, k + 1)
      BY <3>1 DEF OrderInv
    <3>3. queue[k + 1].n \in Id
      BY <3>1 DEF Task, IsSwap
    <3>4. call[queue[k + 1].n].over \in 0 .. MaxSocks
      BY <3>3, Types DEF CallRec
    <3>5. ASSUME NEW v, v = call[queue[k + 1].n].over PROVE SwappedBefore(v, k)'
      BY <2>1, <3>1, <3>2, <3>4, <3>5
    <3> QED BY <1>d, <3>1, <3>2, <3>5 DEF SwappedBefore
  <2>6. \A s \in Sock : \A i \in wire'[s].asked : i < nextId'
    BY <1>b, <1>c, <1>d DEF OrderInv
  <2> QED BY <2>3, <2>4, <2>5, <2>6 DEF OrderInv
<1> QED BY <1>1, <1>2, <1>3, <1>4, <1>5, <1>6, <1>7

\* The io thread reads.
LEMMA ReadsStep ==
  ASSUME IInv, Reads
  PROVE  IInv'
<1> USE BoundAssumption DEF IInv, Reads
<1>0. PICK n \in 1 .. Len(wire[sock].back) :
        /\ buf' = buf \o SubSeq(wire[sock].back, 1, n)
        /\ wire' = [wire EXCEPT ![sock].back = SubSeq(@, n + 1, Len(@))]
  OBVIOUS
<1> DEFINE q == wire[sock].back
           rest == SubSeq(q, n + 1, Len(q))
<1>a. sock \in Sock /\ wire[sock] \in WireRec /\ q \in Seq(Token) /\ buf \in Seq(Token)
  BY Types DEF TypeOK, Sock, WireRec, SeqInv
<1>b. rest \in Seq(Token) /\ buf' \in Seq(Token) /\ buf' \o rest = buf \o q
  <2>1. SubSeq(q, 1, n) \in Seq(Token) /\ rest \in Seq(Token) /\ (buf \o SubSeq(q, 1, n)) \o rest = buf \o q
    BY <1>a, ReadJoins
  <2>2. buf \o SubSeq(q, 1, n) \in Seq(Token)
    BY <1>a, <2>1, ConcatProperties
  <2> QED BY <1>0, <2>1, <2>2
<1>c. /\ wire' \in [Sock -> WireRec] /\ wire'[sock].back = rest
      /\ \A s \in Sock : s # sock => wire'[s] = wire[s]
      /\ \A s \in Sock : wire'[s].up = wire[s].up /\ wire'[s].asked = wire[s].asked
  <2>1. wire'[sock] = [wire[sock] EXCEPT !.back = rest] /\ \A s \in Sock : s # sock => wire'[s] = wire[s]
    BY <1>0, <1>a, Types
  <2> HIDE DEF rest
  <2>2. wire'[sock] \in WireRec /\ wire'[sock].back = rest /\ wire'[sock].up = wire[sock].up /\ wire'[sock].asked = wire[sock].asked
    BY <1>a, <1>b, <2>1 DEF WireRec
  <2>3. wire' \in [Sock -> WireRec]
    BY <1>0, <2>2, Types
  <2> QED BY <2>1, <2>2, <2>3
<1>d. sock # 0 /\ UNCHANGED <<caller, nextId, pending, call, connected, queue, io, sock, main, dialed>>
  OBVIOUS
<1> HIDE DEF Reads, q, rest
<1>1. OwnAnswer' /\ NoOrphan' /\ IdInv' /\ MapInv' /\ FillInv' /\ SwapInv'
  BY <1>d DEF OwnAnswer, NoOrphan, IdInv, Busy, MapInv, Fresh, FillInv, SwapInv, IsSwap
<1>2. TypeOK'
  <2>1. \A i \in DOMAIN buf' : buf'[i] \in Token
    BY <1>b, ElementOfSeq, LenProperties
  <2>2. wire' \in [Sock -> WireRec]
    BY <1>c
  <2> QED BY <1>d, <2>1, <2>2 DEF TypeOK, CallerRec, CallRec, WireRec, Task
<1>3. SeqInv'
  BY <1>b, <1>d DEF SeqInv
<1>4. NewSocketOnly'
  BY <1>c, <1>d DEF NewSocketOnly
<1>5. StreamInv'
  <2>1. ASSUME NEW s \in Sock PROVE Stream(s)' = Stream(s)
    BY <1>b, <1>c, <1>d DEF Stream, q
  <2>2. ASSUME NEW s \in Sock, s >= sock' PROVE Flows(s)'
    <3>1. Flows(s)
      BY <1>d, <2>2 DEF StreamInv
    <3> QED BY <1>c, <2>1, <3>1 DEF Flows
  <2>3. sock <= dialed /\ sock \in Nat /\ dialed \in Nat
    BY DEF SwapInv, TypeOK
  <2>4. ASSUME NEW s \in Sock, s > dialed' PROVE wire'[s].back = << >> /\ ~wire'[s].up
    <3>1. s # sock /\ s > dialed
      BY <1>d, <2>3, <2>4 DEF Sock
    <3> QED BY <1>c, <3>1 DEF StreamInv
  <2> QED BY <1>d, <2>2, <2>4 DEF StreamInv
<1>6. OrderInv'
  BY <1>c, <1>d, OrderKept
<1> QED BY <1>1, <1>2, <1>3, <1>4, <1>5, <1>6

\* A frame is processed.
LEMMA ClaimsStep ==
  ASSUME IInv, Claims
  PROVE  IInv'
<1> USE BoundAssumption DEF IInv, Claims
<1>0. buf \in Seq(Token) /\ \A s \in Sock : wire[s].back \in Seq(Token)
  BY Types DEF SeqInv, WireRec
<1>a. sock # 0 /\ sock \in Sock
  <2>1. buf # << >>
    BY EmptySeq
  <2> QED BY <2>1 DEF StreamInv, TypeOK, Sock
<1>b. Framed(buf \o wire[sock].back) /\ (wire[sock].up => Whole(buf \o wire[sock].back))
  <2>1. Flows(sock)
    BY <1>a DEF StreamInv, Sock
  <2> QED BY <2>1 DEF Flows, Stream
<1>c. /\ buf[1] \in Token /\ buf[1].part = "header" /\ buf[2] = Data(buf[1].id)
      /\ buf' \in Seq(Token) /\ Framed(buf' \o wire[sock].back)
      /\ wire[sock].up => Whole(buf' \o wire[sock].back)
  BY <1>0, <1>a, <1>b, FrameTaken
<1>e. /\ buf[1].id \in Id /\ pending' = pending \ {buf[1].id}
      /\ buf[1].id \in pending => io' = [pc |-> "fill", id |-> buf[1].id, data |-> buf[1].id]
      /\ buf[1].id \notin pending => io' = io
  <2>1. buf[1].id \in Id
    BY <1>c, Tokens
  <2>2. buf[1].part = "header" /\ buf[2] = [part |-> "data", id |-> buf[1].id]
    BY <1>c DEF Data
  <2> QED BY <2>1, <2>2
<1>d. io.pc = "idle" /\ UNCHANGED <<caller, nextId, call, connected, queue, sock, main, dialed, wire>>
  OBVIOUS
<1> HIDE DEF Claims
<1>1. OwnAnswer' /\ NewSocketOnly' /\ IdInv' /\ SwapInv' /\ OrderInv'
  BY <1>d DEF OwnAnswer, NewSocketOnly, IdInv, Busy, SwapInv, IsSwap, OrderInv, SwappedBefore
<1>2. TypeOK'
  <2>1. pending' \subseteq Id
    BY <1>e DEF TypeOK
  <2>2. io' \in [pc : {"idle", "fill", "wake"}, id : 0 .. MaxCalls, data : Answer]
    BY <1>e DEF TypeOK, Answer, Id
  <2>3. \A i \in DOMAIN buf' : buf'[i] \in Token
    BY <1>c, ElementOfSeq, LenProperties
  <2> QED BY <1>d, <2>1, <2>2, <2>3 DEF TypeOK, CallerRec, CallRec, WireRec, Task
<1>3. SeqInv'
  BY <1>c, <1>d DEF SeqInv
<1>4. NoOrphan'
  BY <1>d, <1>e DEF NoOrphan
<1>5. MapInv'
  BY <1>d, <1>e DEF MapInv, Fresh
<1>6. StreamInv'
  <2>1. ASSUME NEW s \in Sock, s >= sock' PROVE Flows(s)'
    <3>1. CASE s = sock
      <4>1. Stream(s)' = buf' \o wire[sock].back
        BY <1>d, <3>1 DEF Stream
      <4> QED BY <1>c, <1>d, <3>1, <4>1 DEF Flows
    <3>2. CASE s # sock
      <4>1. Stream(s)' = Stream(s) /\ Flows(s)
        BY <1>d, <2>1, <3>2 DEF Stream, StreamInv
      <4> QED BY <1>d, <4>1 DEF Flows
    <3> QED BY <3>1, <3>2
  <2> QED BY <1>a, <1>d, <2>1 DEF StreamInv
<1>7. FillInv'
  BY <1>d, <1>e DEF FillInv
<1> QED BY <1>1, <1>2, <1>3, <1>4, <1>5, <1>6, <1>7

\* The answer is handed over.
LEMMA FillsStep ==
  ASSUME IInv, Fills
  PROVE  IInv'
<1> USE BoundAssumption DEF IInv, Fills
<1>0. /\ io.id \in Id /\ io.data = io.id /\ io'.pc = "idle"
      /\ call'[io.id].state = "answered" /\ call'[io.id].data = io.id
      /\ \A i \in Id : i # io.id => call'[i] = call[i]
      /\ \A i \in Id : call'[i].over = call[i].over
      /\ call' \in [Id -> CallRec]
  <2>1. io.id \in Id /\ io.data = io.id /\ io.data \in Answer /\ io'.pc = "idle"
    BY DEF MapInv, FillInv, TypeOK, IoIdle
  <2>2. call'[io.id] = [call[io.id] EXCEPT !.state = "answered", !.data = io.data] /\ call[io.id] \in CallRec
    BY <2>1, Types
  <2>3. /\ call'[io.id] \in CallRec /\ call'[io.id].state = "answered" /\ call'[io.id].data = io.data
        /\ call'[io.id].over = call[io.id].over
    <3> HIDE DEF Fills
    <3> QED BY <2>1, <2>2 DEF CallRec
  <2>4. \A i \in Id : i # io.id => call'[i] = call[i]
    BY Types
  <2>5. call' \in [Id -> CallRec]
    BY <2>3, Types
  <2> QED BY <2>1, <2>3, <2>4, <2>5
<1>1. SeqInv' /\ NoOrphan' /\ IdInv' /\ StreamInv' /\ SwapInv'
  BY DEF SeqInv, NoOrphan, IdInv, Busy, StreamInv, Flows, Stream, SwapInv, IsSwap
<1>2. TypeOK'
  <2>1. call' \in [Id -> CallRec]
    BY <1>0
  <2>2. io' \in [pc : {"idle", "fill", "wake"}, id : 0 .. MaxCalls, data : Answer]
    BY <1>0 DEF TypeOK, IoIdle, Answer, Garbage, Id
  <2> QED BY <2>1, <2>2 DEF TypeOK, CallerRec, CallRec, WireRec, Task
<1>3. OwnAnswer'
  BY <1>0 DEF OwnAnswer
<1>4. NewSocketOnly'
  BY <1>0, Types DEF NewSocketOnly, WireRec
<1>5. MapInv'
  <2>1. \A d \in Caller : caller[d].pc = "checked" => caller[d].id \in Id
    BY Types DEF CallerRec
  <2>2. pending \subseteq Id
    BY DEF TypeOK
  <2> QED BY <1>0, <2>1, <2>2 DEF MapInv, Fresh
<1>6. FillInv'
  BY <1>0 DEF FillInv
<1>7. OrderInv'
  BY <1>0, OrderKept
<1> QED BY <1>1, <1>2, <1>3, <1>4, <1>5, <1>6, <1>7

\* The socket hangs up.
LEMMA HangsUpStep ==
  ASSUME IInv, HangsUp
  PROVE  IInv'
<1> USE BoundAssumption DEF IInv, HangsUp
<1>1. SeqInv' /\ OwnAnswer' /\ NoOrphan' /\ IdInv'
  BY DEF SeqInv, OwnAnswer, NoOrphan, IdInv, Busy
<1>2. TypeOK'
  <2>1. connected' \in BOOLEAN
    BY DEF TypeOK
  <2>2. io' \in [pc : {"idle", "fill", "wake"}, id : 0 .. MaxCalls, data : Answer]
    BY DEF TypeOK, IoIdle, Answer, Garbage, Id
  <2>3. wire' \in [Sock -> WireRec]
    BY ZenonT(60) DEF TypeOK, WireRec
  <2> QED BY <2>1, <2>2, <2>3 DEF TypeOK, CallerRec, CallRec, WireRec, Task
<1>3. NewSocketOnly'
  BY DEF NewSocketOnly, TypeOK
<1>4. MapInv'
  BY DEF MapInv, Fresh, IdInv, Busy, TypeOK, Id
<1>5. StreamInv'
  BY DEF StreamInv, Flows, Stream
<1>6. FillInv'
  BY DEF FillInv, IoIdle
<1>7. SwapInv'
  BY DEF SwapInv, IsSwap
<1>8. OrderInv'
  BY DEF OrderInv, SwappedBefore, IsSwap
<1> QED BY <1>1, <1>2, <1>3, <1>4, <1>5, <1>6, <1>7, <1>8

\* One that is not in use does.
LEMMA HangsUpUnheardStep ==
  ASSUME IInv, NEW s \in Sock, HangsUpUnheard(s)
  PROVE  IInv'
<1> USE BoundAssumption DEF IInv, HangsUpUnheard
<1>1. SeqInv' /\ OwnAnswer' /\ NoOrphan' /\ IdInv' /\ MapInv' /\ FillInv' /\ SwapInv'
  BY DEF SeqInv, OwnAnswer, NoOrphan, IdInv, Busy, MapInv, Fresh, FillInv, SwapInv, IsSwap
<1>2. TypeOK'
  <2>1. wire' \in [Sock -> WireRec]
    BY DEF TypeOK, WireRec
  <2> QED BY <2>1 DEF TypeOK, CallerRec, CallRec, WireRec, Task
<1>3. NewSocketOnly'
  BY DEF NewSocketOnly, TypeOK
<1>4. StreamInv'
  BY DEF StreamInv, Flows, Stream
<1>5. OrderInv'
  BY DEF OrderInv, SwappedBefore, IsSwap
<1> QED BY <1>1, <1>2, <1>3, <1>4, <1>5

\* Every call in the map fails.
LEMMA IoWakesStep ==
  ASSUME IInv, IoWakes
  PROVE  IInv'
<1> USE BoundAssumption DEF IInv, IoWakes, WakeAll
<1>0. /\ pending' = {} /\ call' \in [Id -> CallRec]
      /\ \A i \in Id : i \notin pending => call'[i] = call[i]
      /\ \A i \in pending : i \in Id /\ call'[i].state = "failed"
      /\ \A i \in Id : call'[i].over = call[i].over
  <2>1. pending \subseteq Id
    BY DEF TypeOK
  <2>2. \A i \in Id : i \notin pending => call'[i] = call[i]
    OBVIOUS
  <2>3. ASSUME NEW i \in pending
        PROVE  call'[i] \in CallRec /\ call'[i].state = "failed" /\ call'[i].over = call[i].over
    <3>1. call'[i] = [call[i] EXCEPT !.state = "failed"] /\ call[i] \in CallRec
      BY <2>1, Types
    <3> QED BY <3>1 DEF CallRec
  <2>4. call' \in [Id -> CallRec]
    <3>1. call' = [i \in Id |-> call'[i]]
      OBVIOUS
    <3>2. \A i \in Id : call'[i] \in CallRec
      BY <2>2, <2>3, Types
    <3> QED BY <3>1, <3>2
  <2> QED BY <2>1, <2>2, <2>3, <2>4
<1>1. SeqInv' /\ IdInv' /\ StreamInv' /\ SwapInv'
  BY DEF SeqInv, IdInv, Busy, StreamInv, Flows, Stream, SwapInv, IsSwap
<1>2. TypeOK'
  <2>1. pending' \subseteq Id
    BY <1>0 DEF TypeOK
  <2>2. call' \in [Id -> CallRec]
    BY <1>0
  <2>3. io' \in [pc : {"idle", "fill", "wake"}, id : 0 .. MaxCalls, data : Answer]
    BY <1>0 DEF TypeOK, IoIdle, Answer, Garbage, Id
  <2> QED BY <2>1, <2>2, <2>3 DEF TypeOK, CallerRec, CallRec, WireRec, Task
<1>3. OwnAnswer'
  BY <1>0 DEF OwnAnswer
<1>4. NoOrphan'
  BY <1>0 DEF NoOrphan
<1>5. NewSocketOnly'
  BY <1>0, Types DEF NewSocketOnly, WireRec
<1>6. MapInv'
  <2>1. \A d \in Caller : caller[d].pc = "checked" => caller[d].id \in Id
    BY Types DEF CallerRec
  <2> QED BY <1>0, <2>1 DEF MapInv, Fresh, IoIdle
<1>7. FillInv'
  BY <1>0 DEF FillInv, IoIdle
<1>8. OrderInv'
  BY <1>0, OrderKept
<1> QED BY <1>1, <1>2, <1>3, <1>4, <1>5, <1>6, <1>7, <1>8

\* A core has dialed.
LEMMA ReconnectStep ==
  ASSUME IInv, Reconnect
  PROVE  IInv'
<1> USE BoundAssumption DEF IInv, Reconnect
<1>0. dialed \in Nat /\ dialed + 1 \in Sock /\ sock <= dialed /\ sock \in Nat
  BY DEF TypeOK, Sock, SwapInv
<1>a. /\ wire' \in [Sock -> WireRec]
      /\ \A s \in Sock : s # dialed + 1 => wire'[s] = wire[s]
      /\ \A s \in Sock : wire'[s].back = wire[s].back /\ wire'[s].asked = wire[s].asked
  <2>1. wire'[dialed + 1] = [wire[dialed + 1] EXCEPT !.up = TRUE] /\ wire[dialed + 1] \in WireRec
    BY <1>0, Types
  <2>2. \A s \in Sock : s # dialed + 1 => wire'[s] = wire[s]
    BY Types
  <2>3. wire'[dialed + 1] \in WireRec /\ wire'[dialed + 1].back = wire[dialed + 1].back /\ wire'[dialed + 1].asked = wire[dialed + 1].asked
    BY <2>1, ZenonT(60) DEF WireRec
  <2>4. wire' \in [Sock -> WireRec]
    BY <2>3, Types
  <2> QED BY <2>2, <2>3, <2>4
<1>b. dialed' = dialed + 1 /\ connected' = FALSE /\ main' = "wake" /\ main = "idle"
  OBVIOUS
<1>d. UNCHANGED <<caller, nextId, pending, call, queue, io, sock, buf>>
  OBVIOUS
<1> HIDE DEF Reconnect
<1>1. SeqInv' /\ OwnAnswer' /\ NoOrphan' /\ IdInv' /\ MapInv' /\ FillInv'
  BY <1>d DEF SeqInv, OwnAnswer, NoOrphan, IdInv, Busy, MapInv, Fresh, FillInv
<1>2. TypeOK'
  <2>1. connected' \in BOOLEAN
    BY <1>b
  <2>2. main' \in {"idle", "wake", "post", "store"}
    BY <1>b
  <2>3. dialed' \in 0 .. MaxSocks
    BY <1>0, <1>b DEF Sock
  <2>4. wire' \in [Sock -> WireRec]
    BY <1>a
  <2> QED BY <1>d, <2>1, <2>2, <2>3, <2>4 DEF TypeOK, CallerRec, CallRec, WireRec, Task
<1>3. NewSocketOnly'
  BY <1>a, <1>d DEF NewSocketOnly
<1>4. StreamInv'
  <2>1. ASSUME NEW s \in Sock, s >= sock' PROVE Flows(s)'
    <3>1. Stream(s)' = Stream(s)
      BY <1>a, <1>d DEF Stream
    <3>2. Flows(s)
      BY <1>d, <2>1 DEF StreamInv
    <3>3. CASE s # dialed + 1
      BY <1>a, <3>1, <3>2, <3>3 DEF Flows
    <3>4. CASE s = dialed + 1
      <4>1. s # sock /\ s > dialed
        BY <1>0, <3>4
      <4>2. Stream(s) = << >>
        BY <4>1 DEF Stream, StreamInv
      <4>3. Whole(<< >>)
        BY EmptySeq DEF Whole
      <4> QED BY <3>1, <3>2, <4>2, <4>3 DEF Flows
    <3> QED BY <3>3, <3>4
  <2>2. ASSUME NEW s \in Sock, s > dialed' PROVE wire'[s].back = << >> /\ ~wire'[s].up
    <3>1. s # dialed + 1 /\ s > dialed
      BY <1>0, <1>b, <2>2 DEF Sock
    <3> QED BY <1>a, <3>1 DEF StreamInv
  <2> QED BY <1>d, <2>1, <2>2 DEF StreamInv
<1>5. SwapInv'
  <2>1. ASSUME NEW j \in 1 .. Len(queue), IsSwap(j) PROVE sock < queue[j].n /\ queue[j].n < dialed + 1 /\ queue[j].n <= dialed + 1
    <3>1. queue[j] \in Task
      BY ElementOfSeq DEF SeqInv
    <3>2. queue[j].n \in Nat
      BY <2>1, <3>1 DEF Task, IsSwap, Sock
    <3>3. sock < queue[j].n /\ queue[j].n <= dialed
      BY <2>1 DEF SwapInv
    <3> QED BY <1>0, <3>2, <3>3
  <2>2. sock < dialed + 1 /\ sock <= dialed + 1
    BY <1>0
  <2> QED BY <1>b, <1>d, <2>1, <2>2 DEF SwapInv, IsSwap
<1>6. OrderInv'
  <2>1. \A k \in 1 .. Len(queue) : ~IsSwap(k) => queue[k].n < nextId /\ SwappedBefore(call[queue[k].n].over, k)
    BY DEF OrderInv
  <2>2. \A s \in Sock : \A i \in wire'[s].asked : i < nextId
    BY <1>a DEF OrderInv
  <2>3. \A d \in Caller : caller[d].pc \in {"checked", "registered"} => SwappedBefore(call[caller[d].id].over, Len(queue) + 1)
    BY DEF OrderInv
  <2> QED BY <1>b, <1>d, <2>1, <2>2, <2>3 DEF OrderInv, SwappedBefore, IsSwap
<1> QED BY <1>1, <1>2, <1>3, <1>4, <1>5, <1>6

\* Every call in the map fails.
LEMMA MainWakesStep ==
  ASSUME IInv, MainWakes
  PROVE  IInv'
<1> USE BoundAssumption DEF IInv, MainWakes, WakeAll
<1>0. /\ pending' = {} /\ call' \in [Id -> CallRec]
      /\ \A i \in Id : i \notin pending => call'[i] = call[i]
      /\ \A i \in pending : i \in Id /\ call'[i].state = "failed"
      /\ \A i \in Id : call'[i].over = call[i].over
  <2>1. pending \subseteq Id
    BY DEF TypeOK
  <2>2. \A i \in Id : i \notin pending => call'[i] = call[i]
    OBVIOUS
  <2>3. ASSUME NEW i \in pending
        PROVE  call'[i] \in CallRec /\ call'[i].state = "failed" /\ call'[i].over = call[i].over
    <3>1. call'[i] = [call[i] EXCEPT !.state = "failed"] /\ call[i] \in CallRec
      BY <2>1, Types
    <3> QED BY <3>1 DEF CallRec
  <2>4. call' \in [Id -> CallRec]
    <3>1. call' = [i \in Id |-> call'[i]]
      OBVIOUS
    <3>2. \A i \in Id : call'[i] \in CallRec
      BY <2>2, <2>3, Types
    <3> QED BY <3>1, <3>2
  <2> QED BY <2>1, <2>2, <2>3, <2>4
<1>1. SeqInv' /\ IdInv' /\ StreamInv' /\ FillInv'
  BY DEF SeqInv, IdInv, Busy, StreamInv, Flows, Stream, FillInv
<1>2. TypeOK'
  <2>1. pending' \subseteq Id
    BY <1>0 DEF TypeOK
  <2>2. call' \in [Id -> CallRec]
    BY <1>0
  <2>3. main' \in {"idle", "wake", "post", "store"}
    BY <1>0 DEF TypeOK
  <2> QED BY <2>1, <2>2, <2>3 DEF TypeOK, CallerRec, CallRec, WireRec, Task
<1>3. OwnAnswer'
  BY <1>0 DEF OwnAnswer
<1>4. NoOrphan'
  BY <1>0 DEF NoOrphan
<1>5. NewSocketOnly'
  BY <1>0, Types DEF NewSocketOnly, WireRec
<1>6. MapInv'
  <2>1. \A d \in Caller : caller[d].pc = "checked" => caller[d].id \in Id
    BY Types DEF CallerRec
  <2> QED BY <1>0, <2>1 DEF MapInv, Fresh, IoIdle
<1>7. SwapInv'
  BY <1>0 DEF SwapInv, IsSwap
<1>8. OrderInv'
  BY <1>0, OrderKept
<1> QED BY <1>1, <1>2, <1>3, <1>4, <1>5, <1>6, <1>7, <1>8

\* The swap is queued.
LEMMA PostsSwapStep ==
  ASSUME IInv, PostsSwap
  PROVE  IInv'
<1> USE BoundAssumption DEF IInv, PostsSwap, SwapFirst
<1>0. main = "post" /\ main' = "store" /\ dialed \in Sock /\ sock < dialed
  BY DEF TypeOK, SwapInv, Sock
<1> DEFINE t == [op |-> "swap", n |-> dialed]
<1>a. t \in Task /\ t.op = "swap" /\ t.n = dialed
  BY <1>0 DEF Task
<1>b. queue' = Append(queue, t)
  OBVIOUS
<1>d. UNCHANGED <<caller, nextId, pending, call, connected, io, sock, buf, dialed, wire>>
  OBVIOUS
<1> HIDE DEF t, PostsSwap
<1>c. /\ queue' \in Seq(Task) /\ Len(queue) \in Nat /\ Len(queue') = Len(queue) + 1
      /\ \A k \in 1 .. Len(queue) : queue[k] \in Task /\ queue'[k] = queue[k]
      /\ queue'[Len(queue) + 1] = t
      /\ \A v, k : k \in 1 .. Len(queue) + 1 /\ SwappedBefore(v, k) => SwappedBefore(v, k)'
  BY <1>a, <1>b, <1>d, QueueGrows
<1>e. \A k \in 1 .. Len(queue') : k \in 1 .. Len(queue) \/ k = Len(queue) + 1
  BY <1>c
<1>1. OwnAnswer' /\ NoOrphan' /\ NewSocketOnly' /\ IdInv' /\ MapInv' /\ StreamInv' /\ FillInv'
  BY <1>d DEF OwnAnswer, NoOrphan, NewSocketOnly, IdInv, Busy, MapInv, Fresh, StreamInv, Flows, Stream, FillInv
<1>2. TypeOK'
  <2>1. \A i \in DOMAIN queue' : queue'[i] \in Task
    BY <1>c, ElementOfSeq, LenProperties
  <2>2. main' \in {"idle", "wake", "post", "store"}
    BY <1>0
  <2> QED BY <1>d, <2>1, <2>2 DEF TypeOK, CallerRec, CallRec, WireRec, Task
<1>3. SeqInv'
  BY <1>c, <1>d DEF SeqInv
<1>4. SwapInv'
  <2>1. \A j \in 1 .. Len(queue) : IsSwap(j) => sock < queue[j].n /\ queue[j].n < dialed /\ queue[j].n <= dialed
    BY <1>0 DEF SwapInv
  <2>2. \A j \in 1 .. Len(queue) : IsSwap(j)' <=> IsSwap(j)
    BY <1>c DEF IsSwap
  <2>3. queue'[Len(queue) + 1].n = dialed /\ sock < dialed /\ dialed <= dialed /\ dialed \in Nat
    BY <1>0, <1>a, <1>c DEF Sock
  <2>4. \A j \in 1 .. Len(queue') : IsSwap(j)' => sock < queue'[j].n /\ queue'[j].n <= dialed
    BY <1>c, <1>e, <2>1, <2>2, <2>3
  <2>5. ASSUME NEW j \in 1 .. Len(queue'), NEW k \in 1 .. Len(queue'), IsSwap(j)', IsSwap(k)', j < k
        PROVE  queue'[j].n < queue'[k].n
    <3>1. j \in 1 .. Len(queue)
      BY <1>c, <1>e, <2>5
    <3>2. CASE k \in 1 .. Len(queue)
      BY <1>c, <2>2, <2>5, <3>1, <3>2 DEF SwapInv
    <3>3. CASE k = Len(queue) + 1
      BY <1>c, <2>1, <2>2, <2>3, <2>5, <3>1, <3>3
    <3> QED BY <1>e, <3>2, <3>3
  <2>6. sock <= dialed /\ ~connected
    BY <1>0 DEF SwapInv
  <2> QED BY <1>0, <1>d, <2>4, <2>5, <2>6 DEF SwapInv
<1>5. OrderInv'
  <2>0. ASSUME NEW v, SwappedBefore(v, Len(queue) + 1)
        PROVE  v <= sock' \/ \E j \in 1 .. Len(queue') : j < Len(queue') + 1 /\ IsSwap(j)' /\ v <= queue'[j].n
    <3>1. Len(queue) + 1 \in 1 .. Len(queue) + 1
      BY <1>c
    <3>2. ASSUME NEW k, k = Len(queue) + 1
          PROVE  v <= sock' \/ \E j \in 1 .. Len(queue') : j < k /\ IsSwap(j)' /\ v <= queue'[j].n
      BY <1>c, <2>0, <3>1, <3>2 DEF SwappedBefore
    <3> QED BY <1>c, <3>2
  <2>1. SwappedBefore(dialed, Len(queue) + 1)'
    <3>1. Len(queue') \in 1 .. Len(queue') /\ Len(queue') < Len(queue') + 1 /\ Len(queue') = Len(queue) + 1
      BY <1>c
    <3>2. queue'[Len(queue')].op = "swap" /\ dialed' <= queue'[Len(queue')].n
      BY <1>0, <1>a, <1>c, <1>d, <3>1 DEF Sock
    <3> QED BY <3>1, <3>2 DEF SwappedBefore, IsSwap
  <2>2. ASSUME NEW d \in Caller, caller'[d].pc \in {"checked", "registered"}
        PROVE  SwappedBefore(call[caller[d].id].over, Len(queue) + 1)'
    <3>1. SwappedBefore(call[caller[d].id].over, Len(queue) + 1)
      BY <1>d, <2>2 DEF OrderInv
    <3> QED BY <1>d, <2>0, <3>1 DEF SwappedBefore
  <2>3. ASSUME NEW k \in 1 .. Len(queue'), ~IsSwap(k)'
        PROVE  queue'[k].n < nextId' /\ SwappedBefore(call[queue[k].n].over, k)'
    <3>0. k # Len(queue) + 1
      BY <1>a, <1>c, <2>3 DEF IsSwap
    <3>1. queue'[k] = queue[k] /\ ~IsSwap(k) /\ k \in 1 .. Len(queue) /\ k \in 1 .. Len(queue) + 1
      BY <1>c, <1>e, <2>3, <3>0 DEF IsSwap
    <3>2. queue[k].n < nextId /\ SwappedBefore(call[queue[k].n].over, k)
      BY <3>1 DEF OrderInv
    <3>3. ASSUME NEW v, v = call[queue[k].n].over PROVE SwappedBefore(v, k)'
      BY <1>c, <3>1, <3>2, <3>3
    <3> QED BY <1>d, <3>1, <3>2, <3>3 DEF SwappedBefore
  <2>4. \A s \in Sock : \A i \in wire'[s].asked : i < nextId'
    BY <1>d DEF OrderInv
  <2> QED BY <2>1, <2>2, <2>3, <2>4 DEF OrderInv
<1> QED BY <1>1, <1>2, <1>3, <1>4, <1>5

\* Calls are let through.
LEMMA StoresConnectedStep ==
  ASSUME IInv, StoresConnected
  PROVE  IInv'
<1> USE BoundAssumption DEF IInv, StoresConnected, SwapFirst
<1>1. SeqInv' /\ OwnAnswer' /\ NoOrphan' /\ NewSocketOnly' /\ IdInv' /\ MapInv' /\ StreamInv' /\ FillInv'
  BY DEF SeqInv, OwnAnswer, NoOrphan, NewSocketOnly, IdInv, Busy, MapInv, Fresh, StreamInv, Flows, Stream,
     FillInv
<1>2. TypeOK'
  <2>1. connected' \in BOOLEAN
    BY DEF TypeOK
  <2>2. main' \in {"idle", "wake", "post", "store"}
    BY DEF TypeOK
  <2> QED BY <2>1, <2>2 DEF TypeOK, CallerRec, CallRec, WireRec, Task
<1>3. SwapInv'
  BY DEF SwapInv, IsSwap
<1>4. OrderInv'
  BY DEF OrderInv, SwappedBefore, IsSwap
<1> QED BY <1>1, <1>2, <1>3, <1>4

\* The core answers.
LEMMA CoreAnswersStep ==
  ASSUME IInv, NEW s \in Sock, CoreAnswers(s)
  PROVE  IInv'
<1> USE BoundAssumption DEF IInv, CoreAnswers
<1>0. PICK i \in wire[s].asked :
        wire' = [wire EXCEPT ![s].asked = @ \ {i},
                             ![s].back = @ \o << [part |-> "header", id |-> i], [part |-> "data", id |-> i] >>]
  OBVIOUS
<1> DEFINE q == wire[s].back
           f == <<Header(i), Data(i)>>
<1>a. wire[s] \in WireRec /\ i \in Id /\ q \in Seq(Token) /\ buf \in Seq(Token) /\ s <= dialed /\ wire[s].up
  <2>1. wire[s] \in WireRec /\ buf \in Seq(Token) /\ wire[s].up
    BY Types DEF SeqInv
  <2> QED BY <2>1, SMTT(30) DEF WireRec, StreamInv, TypeOK, Sock
<1>b. f \in Seq(Token) /\ q \o f \in Seq(Token)
  <2>1. f \in Seq(Token)
    BY <1>a, Tokens
  <2> QED BY <1>a, <2>1, ConcatProperties
<1>c. /\ wire' \in [Sock -> WireRec] /\ wire'[s].back = q \o f /\ wire'[s].up = wire[s].up
      /\ \A x \in Sock : x # s => wire'[x] = wire[x]
      /\ \A x \in Sock : wire'[x].asked \subseteq wire[x].asked
  <2>1. wire'[s] = [wire[s] EXCEPT !.asked = wire[s].asked \ {i}, !.back = q \o f]
    BY <1>0, Types DEF Header, Data
  <2>2. \A x \in Sock : x # s => wire'[x] = wire[x]
    BY <1>0, Types
  <2>3. wire[s].asked \ {i} \in SUBSET Id
    BY <1>a DEF WireRec
  <2> DEFINE back == q \o f
             asked == wire[s].asked \ {i}
  <2>4. back \in Seq(Token) /\ asked \in SUBSET Id /\ wire'[s] = [wire[s] EXCEPT !.asked = asked, !.back = back]
    BY <1>b, <2>1, <2>3
  <2> HIDE DEF q, f, CoreAnswers, back, asked
  <2>5. wire'[s] \in WireRec /\ wire'[s].back = back /\ wire'[s].up = wire[s].up /\ wire'[s].asked = asked
    BY <1>a, <2>4 DEF WireRec
  <2>6. wire' \in [Sock -> WireRec]
    BY <1>0, <2>5, Types
  <2> QED BY <2>2, <2>5, <2>6 DEF back, asked
<1>d. UNCHANGED <<caller, nextId, pending, call, connected, queue, io, sock, buf, main, dialed>>
  OBVIOUS
<1> HIDE DEF CoreAnswers, q, f
<1>1. SeqInv' /\ OwnAnswer' /\ NoOrphan' /\ IdInv' /\ MapInv' /\ FillInv' /\ SwapInv'
  BY <1>d DEF SeqInv, OwnAnswer, NoOrphan, IdInv, Busy, MapInv, Fresh, FillInv, SwapInv, IsSwap
<1>2. TypeOK'
  <2>1. wire' \in [Sock -> WireRec]
    BY <1>c
  <2> QED BY <1>d, <2>1 DEF TypeOK, CallerRec, CallRec, WireRec, Task
<1>3. NewSocketOnly'
  BY <1>c, <1>d DEF NewSocketOnly
<1>4. StreamInv'
  <2>1. ASSUME NEW x \in Sock, x >= sock' PROVE Flows(x)'
    <3>1. Flows(x)
      BY <1>d, <2>1 DEF StreamInv
    <3>2. CASE x # s
      BY <1>c, <1>d, <3>1, <3>2 DEF Flows, Stream
    <3>3. CASE x = s
      <4>1. Stream(s) \in Seq(Token) /\ Framed(Stream(s)) /\ Whole(Stream(s))
        <5>1. Stream(s) \in Seq(Token)
          BY <1>a, ConcatProperties DEF Stream, q
        <5> QED BY <1>a, <3>1, <3>3, <5>1 DEF Flows
      <4>2. Framed(Stream(s) \o f) /\ Whole(Stream(s) \o f)
        BY <1>a, <4>1, FrameAdded DEF f
      <4>3. Stream(s)' = Stream(s) \o f
        <5>1. ASSUME NEW u \in Seq(Token), NEW v \in Seq(Token), NEW w \in Seq(Token) PROVE (u \o v) \o w = u \o (v \o w)
          BY ConcatAssociative, SMTT(30)
        <5>2. (buf \o q) \o f = buf \o (q \o f)
          BY <1>a, <1>b, <5>1, Zenon
        <5>3. CASE s = sock
          BY <1>c, <1>d, <5>2, <5>3 DEF Stream, q
        <5>4. CASE s # sock
          BY <1>c, <1>d, <5>4 DEF Stream, q
        <5> QED BY <5>3, <5>4
      <4> QED BY <3>3, <4>2, <4>3 DEF Flows
    <3> QED BY <3>2, <3>3
  <2>2. ASSUME NEW x \in Sock, x > dialed' PROVE wire'[x].back = << >> /\ ~wire'[x].up
    <3>1. x # s /\ x > dialed
      BY <1>a, <1>d, <2>2 DEF Sock, TypeOK
    <3> QED BY <1>c, <3>1 DEF StreamInv
  <2> QED BY <1>d, <2>1, <2>2 DEF StreamInv
<1>5. OrderInv'
  BY <1>c, <1>d, OrderKept
<1> QED BY <1>1, <1>2, <1>3, <1>4, <1>5

\* The core dies.
LEMMA CoreDiesStep ==
  ASSUME IInv, NEW s \in Sock, CoreDies(s)
  PROVE  IInv'
<1> USE BoundAssumption DEF IInv, CoreDies
<1>0. PICK n \in 0 .. Len(wire[s].back) :
        wire' = [wire EXCEPT ![s] = [up |-> FALSE, hup |-> TRUE, asked |-> {}, back |-> SubSeq(@.back, 1, n)]]
  OBVIOUS
<1> DEFINE q == wire[s].back
           cut == SubSeq(q, 1, n)
<1>a. wire[s] \in WireRec /\ q \in Seq(Token) /\ buf \in Seq(Token) /\ s <= dialed /\ wire[s].up
  <2>1. wire[s] \in WireRec /\ buf \in Seq(Token) /\ wire[s].up
    BY Types DEF SeqInv
  <2>2. s <= dialed
    BY <2>1 DEF StreamInv, TypeOK, Sock
  <2>3. q \in Seq(Token)
    BY <2>1 DEF WireRec
  <2> QED BY <2>1, <2>2, <2>3
<1>b. cut \in Seq(Token)
  <2>1. Len(q) \in Nat /\ \A k \in 1 .. Len(q) : q[k] \in Token
    BY <1>a, LenProperties, ElementOfSeq
  <2> QED BY <1>a, <2>1, SubSeqProperties
<1>c. /\ wire' \in [Sock -> WireRec] /\ wire'[s].back = cut /\ wire'[s].up = FALSE
      /\ \A x \in Sock : x # s => wire'[x] = wire[x]
      /\ \A x \in Sock : wire'[x].asked \subseteq wire[x].asked
  <2>1. wire'[s] = [up |-> FALSE, hup |-> TRUE, asked |-> {}, back |-> cut]
    BY <1>0, Types
  <2>2. \A x \in Sock : x # s => wire'[x] = wire[x]
    BY <1>0, Types
  <2> HIDE DEF cut, q, CoreDies
  <2>3. wire'[s] \in WireRec /\ wire'[s].back = cut /\ wire'[s].up = FALSE /\ wire'[s].asked = {}
    BY <1>b, <2>1 DEF WireRec
  <2>4. wire' \in [Sock -> WireRec]
    BY <1>0, <2>3, Types
  <2> QED BY <2>2, <2>3, <2>4
<1>d. UNCHANGED <<caller, nextId, pending, call, connected, queue, io, sock, buf, main, dialed>>
  OBVIOUS
<1> HIDE DEF CoreDies, q, cut
<1>1. SeqInv' /\ OwnAnswer' /\ NoOrphan' /\ IdInv' /\ MapInv' /\ FillInv' /\ SwapInv'
  BY <1>d DEF SeqInv, OwnAnswer, NoOrphan, IdInv, Busy, MapInv, Fresh, FillInv, SwapInv, IsSwap
<1>2. TypeOK'
  <2>1. wire' \in [Sock -> WireRec]
    BY <1>c
  <2> QED BY <1>d, <2>1 DEF TypeOK, CallerRec, CallRec, WireRec, Task
<1>3. NewSocketOnly'
  BY <1>c, <1>d DEF NewSocketOnly
<1>4. StreamInv'
  <2>1. ASSUME NEW x \in Sock, x >= sock' PROVE Flows(x)'
    <3>1. Flows(x)
      BY <1>d, <2>1 DEF StreamInv
    <3>2. CASE x # s
      BY <1>c, <1>d, <3>1, <3>2 DEF Flows, Stream
    <3>3. CASE x = s
      <4>1. n \in 0 .. Len(q)
        BY DEF q
      <4>2. CASE s = sock
        <5>1. Framed(buf \o q)
          BY <3>1, <3>3, <4>2 DEF Flows, Stream, q
        <5>2. Framed(buf \o cut)
          BY <1>a, <4>1, <5>1, CutBehind DEF cut
        <5> QED BY <1>c, <1>d, <3>3, <4>2, <5>2 DEF Flows, Stream
      <4>3. CASE s # sock
        <5>1. Framed(q)
          BY <3>1, <3>3, <4>3 DEF Flows, Stream, q
        <5>2. Framed(cut)
          BY <1>a, <4>1, <5>1, CutFramed DEF cut
        <5> QED BY <1>c, <1>d, <3>3, <4>3, <5>2 DEF Flows, Stream
      <4> QED BY <4>2, <4>3
    <3> QED BY <3>2, <3>3
  <2>2. ASSUME NEW x \in Sock, x > dialed' PROVE wire'[x].back = << >> /\ ~wire'[x].up
    <3>1. x # s /\ x > dialed
      BY <1>a, <1>d, <2>2 DEF Sock, TypeOK
    <3> QED BY <1>c, <3>1 DEF StreamInv
  <2> QED BY <1>d, <2>1, <2>2 DEF StreamInv
<1>5. OrderInv'
  BY <1>c, <1>d, OrderKept
<1> QED BY <1>1, <1>2, <1>3, <1>4, <1>5

\* Every step keeps the invariant.
LEMMA NextIInv == IInv /\ [Next]_vars => IInv'
<1> SUFFICES ASSUME IInv, [Next]_vars PROVE IInv' OBVIOUS
<1>1. ASSUME NEW c \in Caller, Checks(c) \/ CallSteps(c) PROVE IInv'
  BY <1>1, ChecksStep, RegistersStep, DispatchesWriteStep, WokenStep, TimesOutStep, ReclaimsStep DEF CallSteps
<1>2. CASE IoSteps
  BY <1>2, RunsTaskStep, ReadsStep, ClaimsStep, FillsStep, HangsUpStep, IoWakesStep, HangsUpUnheardStep
     DEF IoSteps
<1>3. CASE Reconnect \/ MainSteps
  BY <1>3, ReconnectStep, MainWakesStep, PostsSwapStep, StoresConnectedStep DEF MainSteps
<1>4. ASSUME NEW s \in Sock, CoreAnswers(s) \/ CoreDies(s) PROVE IInv'
  BY <1>4, CoreAnswersStep, CoreDiesStep
<1>5. CASE UNCHANGED vars
  BY <1>5 DEF vars, IInv, TypeOK, SeqInv, OwnAnswer, NoOrphan, NewSocketOnly, IdInv, Busy, MapInv, Fresh,
     StreamInv,
     Flows, Stream, FillInv, SwapInv, IsSwap, OrderInv, SwappedBefore
<1> QED BY <1>1, <1>2, <1>3, <1>4, <1>5 DEF Next

\* A call gets the answer to its own request, whole; the map holds only calls someone waits for; and no
\* request goes to a core that was replaced before its call was made.  For any number of callers, calls
\* and cores, whatever times out, dies or arrives in parts.
THEOREM CallsNeverMix == Spec => []CallsAreKeptApart
<1>1. IInv => CallsAreKeptApart
  BY DEF IInv, CallsAreKeptApart
<1> QED BY <1>1, InitIInv, NextIInv, PTL DEF Spec

=============================================================================
