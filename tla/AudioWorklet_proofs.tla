------------------------ MODULE AudioWorklet_proofs ------------------------
(***************************************************************************)
(* Theorems about AudioWorklet, for every buffer size, every set of        *)
(* quantum lengths within it and every bound.                              *)
(***************************************************************************)
EXTENDS AudioWorklet, TLAPS

USE SizeAssumption DEF SizeAssumption, Index

\* The messages of the two directions.
Msg  == [cmd : {"start_nothreads", "chunk", "stop"}, from : Nat, to : Nat, data : Seq(Nat)]
Note == [from : Nat, to : Nat]

-----------------------------------------------------------------------------
(* Sequences and buffers. *)

(* Taking the head off a queue: what becomes of the rest. *)
LEMMA TailFacts ==
  ASSUME NEW S, NEW q \in Seq(S), q # <<>>
  PROVE  /\ Len(q) \in Nat \ {0}
         /\ Head(q) = q[1]
         /\ Head(q) \in S
         /\ Tail(q) \in Seq(S)
         /\ Len(Tail(q)) = Len(q) - 1
         /\ DOMAIN Tail(q) = 1..Len(q) - 1
         /\ \A k \in 1..Len(q) - 1 : Tail(q)[k] = q[k + 1]
  OBVIOUS

(* Appending to a queue. *)
LEMMA AppendFacts ==
  ASSUME NEW S, NEW q \in Seq(S), NEW e \in S
  PROVE  /\ Append(q, e) \in Seq(S)
         /\ Append(q, e) # <<>>
         /\ Len(Append(q, e)) = Len(q) + 1
         /\ DOMAIN Append(q, e) = 1..Len(q) + 1
         /\ \A k \in 1..Len(q) : Append(q, e)[k] = q[k]
         /\ Append(q, e)[Len(q) + 1] = e
         /\ Head(Append(q, e)) = IF q = <<>> THEN e ELSE Head(q)
  OBVIOUS

(* The empty queue. *)
LEMMA EmptyFacts ==
  ASSUME NEW S, NEW q \in Seq(S)
  PROVE  q = <<>> <=> Len(q) = 0
  OBVIOUS

(* Slots are indices of the buffer. *)
LEMMA SlotInIndex ==
  ASSUME NEW p \in 0..Size, NEW i \in Index
  PROVE  Slot(p, i) \in Index
  BY DEF Slot

(* A quantum is a sequence of samples. *)
LEMMA TakenType ==
  ASSUME NEW buffer \in [Index -> Nat], NEW p \in 0..Size, NEW n \in 1..Size
  PROVE  Taken(buffer, p, n) \in Seq(Nat) /\ Len(Taken(buffer, p, n)) = n
<1>1. ASSUME NEW i \in 1..n
      PROVE  buffer[Slot(p, i - 1)] \in Nat
  <2>1. i - 1 \in Index
    OBVIOUS
  <2> QED  BY <2>1, SlotInIndex
<1> QED  BY <1>1 DEF Taken

(* Filling keeps the type of a buffer. *)
LEMMA FilledType ==
  ASSUME NEW buffer \in [Index -> Nat], NEW p \in Index, NEW data \in Seq(Nat)
  PROVE  Filled(buffer, p, data) \in [Index -> Nat]
<1>1. ASSUME NEW k \in Index
      PROVE  /\ k >= p /\ k - p < Len(data) => data[k - p + 1] \in Nat
             /\ ~(k >= p) /\ k + Size - p < Len(data) => data[k + Size - p + 1] \in Nat
             /\ k >= p => k + Size - p >= k - p
  OBVIOUS
<1>2. \A k \in Index : Filled(buffer, p, data)[k] \in Nat
  BY <1>1 DEF Filled
<1> QED  BY <1>2 DEF Filled

(* What a write leaves in the slots it fills. *)
LEMMA FilledInside ==
  ASSUME NEW buffer, NEW p \in Index, NEW data \in Seq(Nat), Len(data) <= Size,
         NEW i \in 0..Len(data) - 1
  PROVE  Filled(buffer, p, data)[Slot(p, i)] = data[i + 1]
<1>1. i \in Index /\ Slot(p, i) \in Index
  BY SlotInIndex
<1>2. CASE p + i < Size
  BY <1>1, <1>2 DEF Filled, Slot
<1>3. CASE ~(p + i < Size)
  <2>1. Slot(p, i) = p + i - Size /\ ~(Slot(p, i) >= p) /\ Slot(p, i) + Size - p = i
    BY <1>3 DEF Slot
  <2> QED  BY <1>1, <2>1 DEF Filled
<1> QED  BY <1>2, <1>3

(* A write leaves the slots alone that lie before it, as far round as there is
   room. *)
LEMMA FilledOutside ==
  ASSUME NEW buffer, NEW p \in Index, NEW data \in Seq(Nat), Len(data) <= Size,
         NEW i \in Len(data)..Size - 1
  PROVE  Filled(buffer, p, data)[Slot(p, i)] = buffer[Slot(p, i)]
<1>1. Len(data) \in Nat /\ i \in Index /\ p \in 0..Size
  OBVIOUS
<1>4. Slot(p, i) \in Index
  BY <1>1, SlotInIndex
<1>2. CASE p + i < Size
  <2>1. Slot(p, i) = p + i /\ ~(Slot(p, i) - p < Len(data)) /\ ~(Slot(p, i) + Size - p < Len(data))
    BY <1>1, <1>2 DEF Slot
  <2> QED  BY <1>1, <1>4, <2>1 DEF Filled
<1>3. CASE ~(p + i < Size)
  <2>1. Slot(p, i) = p + i - Size /\ ~(Slot(p, i) >= p) /\ ~(Slot(p, i) + Size - p < Len(data))
    BY <1>1, <1>3 DEF Slot
  <2> QED  BY <1>1, <1>4, <2>1 DEF Filled
<1> QED  BY <1>2, <1>3

(* Reading back what has just been written gives it unchanged. *)
LEMMA TakenFilled ==
  ASSUME NEW buffer, NEW p \in Index, NEW data \in Seq(Nat), Len(data) \in 1..Size
  PROVE  \A i \in 1..Len(data) : Taken(Filled(buffer, p, data), p, Len(data))[i] = data[i]
<1> SUFFICES ASSUME NEW i \in 1..Len(data)
             PROVE  Taken(Filled(buffer, p, data), p, Len(data))[i] = data[i]
  OBVIOUS
<1>1. i - 1 \in 0..Len(data) - 1 /\ (i - 1) + 1 = i
  OBVIOUS
<1> QED  BY <1>1, FilledInside DEF Taken

-----------------------------------------------------------------------------
(* Chains of messages. *)

(* A message appended to a chain at its end lengthens it. *)
LEMMA ChainAppend ==
  ASSUME NEW S, NEW q \in Seq(S), NEW e \in S, NEW a \in Int, NEW b \in Int,
         \A k \in 1..Len(q) : q[k].from \in Nat /\ q[k].to \in Nat,
         e.from = b, e.to \in Nat, b <= e.to, Chain(q, a, b)
  PROVE  Chain(Append(q, e), a, e.to)
<1> DEFINE r == Append(q, e)
<1>1. /\ Len(q) \in Nat /\ Len(r) = Len(q) + 1 /\ r # <<>>
      /\ \A k \in 1..Len(q) : r[k] = q[k]
      /\ r[Len(q) + 1] = e
  BY AppendFacts
<1>2. q = <<>> <=> Len(q) = 0
  OBVIOUS
<1> HIDE DEF r
<1>3. \A k \in 1..Len(r) : r[k].from <= r[k].to /\ r[k].to <= e.to
  BY <1>1 DEF Chain
<1>4. ASSUME NEW k \in 1..Len(r) - 1
      PROVE  r[k + 1].from = r[k].to
  <2>1. CASE k \in 1..Len(q) - 1
    <3>1. k \in 1..Len(q) /\ k + 1 \in 1..Len(q)
      BY <1>1, <2>1
    <3> QED  BY <1>1, <2>1, <3>1 DEF Chain
  <2>2. CASE k = Len(q)
    <3>1. k \in 1..Len(q) /\ q # <<>>
      BY <1>1, <1>2, <2>2
    <3> QED  BY <1>1, <2>2, <3>1 DEF Chain
  <2> QED  BY <1>1, <2>1, <2>2
<1>5. r[1].from = a /\ r[Len(r)].to = e.to
  BY <1>1, <1>2 DEF Chain
<1> QED  BY <1>1, <1>3, <1>4, <1>5 DEF Chain, r

(* Without its first message a chain starts where that message ends. *)
LEMMA ChainTail ==
  ASSUME NEW S, NEW q \in Seq(S), q # <<>>, NEW a \in Int, NEW b \in Int,
         \A k \in 1..Len(q) : q[k].from \in Nat /\ q[k].to \in Nat,
         Chain(q, a, b)
  PROVE  /\ q[1].from = a /\ a <= q[1].to /\ q[1].to <= b
         /\ Chain(Tail(q), q[1].to, b)
<1> DEFINE r == Tail(q)
<1>1. /\ Len(q) \in Nat \ {0} /\ r \in Seq(S) /\ Len(r) = Len(q) - 1
      /\ \A k \in 1..Len(q) - 1 : r[k] = q[k + 1]
  BY TailFacts
<1>2. r = <<>> <=> Len(r) = 0
  BY <1>1, EmptyFacts
<1> HIDE DEF r
<1>3. q[1].from = a /\ a <= q[1].to /\ q[1].to <= b
  BY <1>1 DEF Chain
<1>4. ASSUME NEW k \in 1..Len(r)
      PROVE  r[k].from <= r[k].to /\ r[k].to <= b
  <2>1. k + 1 \in 1..Len(q) /\ r[k] = q[k + 1]
    BY <1>1
  <2>2. q[k + 1].from <= q[k + 1].to /\ q[k + 1].to <= b
    BY <2>1 DEF Chain
  <2> QED  BY <2>1, <2>2
<1>5. \A k \in 1..Len(r) - 1 : r[k + 1].from = r[k].to
  BY <1>1 DEF Chain
<1>6. r # <<>> => r[1].from = q[1].to /\ r[Len(r)].to = b
  BY <1>1, <1>2 DEF Chain
<1>7. r = <<>> => q[1].to = b
  <2>1. r = <<>> => Len(q) = 1
    BY <1>1, <1>2
  <2> QED  BY <2>1 DEF Chain
<1> QED  BY <1>3, <1>4, <1>5, <1>6, <1>7 DEF Chain, r

-----------------------------------------------------------------------------
(* The invariant holds at the start and every step keeps it. *)

LEMMA InitInv == Init => IInv
<1> SUFFICES ASSUME Init PROVE IInv
  OBVIOUS
<1>1. /\ output.buffer = [k \in Index |-> 0] /\ output.avail = 0
      /\ output.rpos = 0 /\ output.wpos = 0
      /\ output = [buffer |-> [k \in Index |-> 0], avail |-> 0, rpos |-> 0, wpos |-> 0]
  BY DEF Init, NewRing
<1>2. TypeOK
  <2>1. output \in [buffer : [Index -> Nat], avail : 0..Size, rpos : 0..Size, wpos : Index]
    BY <1>1
  <2>2. speaker \in Seq(Nat) /\ toWorklet \in Seq(Msg) /\ toMain \in Seq(Note)
    BY DEF Init
  <2>3. heap \in [Index -> Nat] /\ mixed \in Nat /\ wpos \in Index /\ heard \in Nat
    BY DEF Init
  <2>4. driver \in {"none", "connected", "closed"} /\ state \in {"idle", "playing", "stopped"}
    BY DEF Init
  <2> QED  BY <2>1, <2>2, <2>3, <2>4 DEF TypeOK, Msg, Note
<1>3. RingOK
  <2>1. output.rpos + output.avail = output.wpos
    BY <1>1
  <2> QED  BY <1>1, <2>1 DEF RingOK, Holds
<1>4. ChainsOK /\ MessagesOK
  BY <1>1 DEF Init, ChainsOK, MessagesOK, Chain
<1>5. LifeOK
  BY <1>1 DEF Init, LifeOK
<1> QED  BY <1>2, <1>3, <1>4, <1>5 DEF IInv

(* What the types say of the messages under way. *)
LEMMA MessageTypes ==
  ASSUME TypeOK
  PROVE  /\ toWorklet \in Seq(Msg) /\ toMain \in Seq(Note)
         /\ \A k \in 1..Len(toWorklet) :
              /\ toWorklet[k] \in Msg
              /\ toWorklet[k].from \in Nat /\ toWorklet[k].to \in Nat
         /\ \A k \in 1..Len(toMain) :
              /\ toMain[k] \in Note
              /\ toMain[k].from \in Nat /\ toMain[k].to \in Nat
         /\ output.buffer \in [Index -> Nat] /\ output.avail \in 0..Size
         /\ output.rpos \in 0..Size /\ output.wpos \in Index
         /\ heard \in Nat /\ mixed \in Nat /\ wpos \in Index /\ heap \in [Index -> Nat]
<1>1. toWorklet \in Seq(Msg) /\ toMain \in Seq(Note)
  BY DEF TypeOK, Msg, Note
<1>2. /\ \A k \in 1..Len(toWorklet) : toWorklet[k] \in Msg
      /\ \A k \in 1..Len(toMain) : toMain[k] \in Note
  BY <1>1
<1>3. /\ \A k \in 1..Len(toWorklet) : toWorklet[k].from \in Nat /\ toWorklet[k].to \in Nat
      /\ \A k \in 1..Len(toMain) : toMain[k].from \in Nat /\ toMain[k].to \in Nat
  BY <1>2 DEF Msg, Note
<1> QED  BY <1>1, <1>2, <1>3 DEF TypeOK

LEMMA StartInv == IInv /\ Start => IInv'
<1> SUFFICES ASSUME IInv, Start PROVE IInv'
  OBVIOUS
<1>1. /\ toWorklet = <<>> /\ toMain = <<>> /\ state = "idle" /\ heard = 0
      /\ output.avail = 0 /\ mixed = Size /\ \A k \in Index : heap[k] = k
  BY DEF IInv, LifeOK, Start
<1>2. PICK data : data = Taken(heap, 0, Size)
  OBVIOUS
<1>3. data \in Seq(Nat) /\ Len(data) = Size
  <2>1. heap \in [Index -> Nat] /\ 0 \in 0..Size /\ Size \in 1..Size
    BY DEF IInv, TypeOK
  <2> QED  BY <1>2, <2>1, TakenType
<1>4. Stream(data, 0)
  <2>1. \A i \in 1..Size : data[i] = i - 1
    BY <1>1, <1>2 DEF Taken, Slot
  <2> QED  BY <1>3, <2>1 DEF Stream
<1>5. PICK m : m = Message("start_nothreads", 0, data)
  OBVIOUS
<1>6. /\ m \in Msg /\ m.cmd = "start_nothreads" /\ m.from = 0
      /\ m.to = Size /\ m.data = data
  BY <1>3, <1>5 DEF Message, Msg
<1>7. toWorklet' = Append(<<>>, m)
  BY <1>1, <1>2, <1>5 DEF Start
<1>8. /\ toWorklet' \in Seq(Msg) /\ Len(toWorklet') = 1 /\ toWorklet'[1] = m
      /\ toWorklet' # <<>>
  BY <1>6, <1>7
<1>9. UNCHANGED <<heap, wpos, mixed, state, output, speaker, heard, toMain>> /\ driver' = "connected"
  BY DEF Start, audioVars
<1>10. TypeOK'
  BY <1>8, <1>9 DEF IInv, TypeOK, Msg
<1>11. RingOK'
  BY <1>9 DEF IInv, RingOK
<1>12. ChainsOK'
  <2>1. Chain(toWorklet', 0, Size)
    BY <1>6, <1>8 DEF Chain
  <2>2. Chain(toMain', 0, 0)
    BY <1>1, <1>9 DEF Chain
  <2> QED  BY <1>1, <1>9, <2>1, <2>2 DEF ChainsOK
<1>13. MessagesOK'
  BY <1>1, <1>3, <1>4, <1>6, <1>8, <1>9 DEF MessagesOK, MessageOK
<1>14. LifeOK'
  BY <1>1, <1>6, <1>8, <1>9 DEF LifeOK
<1> QED  BY <1>10, <1>11, <1>12, <1>13, <1>14 DEF IInv

LEMMA CloseInv == IInv /\ Close => IInv'
<1> SUFFICES ASSUME IInv, Close PROVE IInv'
  OBVIOUS
<1>1. PICK m : m = Message("stop", mixed, <<>>)
  OBVIOUS
<1>2. /\ m \in Msg /\ m.cmd = "stop" /\ m.from = mixed /\ m.to = mixed /\ m.data = <<>>
      /\ mixed \in Nat
  <2>1. Len(<<>>) = 0 /\ <<>> \in Seq(Nat) /\ mixed \in Nat
    BY DEF IInv, TypeOK
  <2> QED  BY <1>1, <2>1 DEF Message, Msg
<1>3. /\ toWorklet' = Append(toWorklet, m) /\ driver = "connected" /\ driver' = "closed"
      /\ UNCHANGED <<heap, wpos, mixed, state, output, speaker, heard, toMain>>
  BY <1>1 DEF Close, audioVars
<1>4. /\ toWorklet \in Seq(Msg) /\ Len(toWorklet) \in Nat
      /\ toWorklet' \in Seq(Msg) /\ toWorklet' # <<>> /\ Len(toWorklet') = Len(toWorklet) + 1
      /\ \A k \in 1..Len(toWorklet) : toWorklet'[k] = toWorklet[k]
      /\ toWorklet'[Len(toWorklet) + 1] = m
  <2>1. toWorklet \in Seq(Msg) /\ m \in Msg
    BY <1>2, MessageTypes DEF IInv
  <2> HIDE <1>1
  <2>2. toWorklet' = Append(toWorklet, m)
    BY <1>3
  <2> QED  BY <2>1, <2>2, AppendFacts
<1>5. TypeOK'
  BY <1>3, <1>4 DEF IInv, TypeOK, Msg
<1>6. RingOK'
  BY <1>3 DEF IInv, RingOK
<1>7. state # "stopped"
  BY <1>3 DEF IInv, LifeOK
<1>8. ChainsOK'
  <2>1. Chain(toWorklet, heard + output.avail, mixed)
    BY <1>3, <1>7 DEF IInv, ChainsOK
  <2>2. heard + output.avail \in Int /\ mixed \in Int
    BY MessageTypes DEF IInv
  <2>3. \A k \in 1..Len(toWorklet) : toWorklet[k].from \in Nat /\ toWorklet[k].to \in Nat
    BY MessageTypes DEF IInv
  <2>4. m.from = mixed /\ m.to = mixed /\ m.to \in Nat /\ mixed <= m.to /\ m \in Msg
    BY <1>2
  <2>5. Chain(Append(toWorklet, m), heard + output.avail, m.to)
    BY <1>4, <2>1, <2>2, <2>3, <2>4, ChainAppend
  <2>6. Chain(toWorklet', heard + output.avail, mixed)
    BY <1>3, <2>4, <2>5
  <2> QED  BY <1>3, <2>6 DEF ChainsOK
<1>9. MessagesOK'
  <2>1. ASSUME NEW k \in 1..Len(toWorklet')
        PROVE  MessageOK(k)'
    <3>1. CASE k \in 1..Len(toWorklet)
      <4>1. MessageOK(k)
        BY <3>1 DEF IInv, MessagesOK
      <4>2. toWorklet[k].cmd # "stop"
        BY <1>3, <4>1 DEF MessageOK
      <4>3. toWorklet'[k] = toWorklet[k]
        BY <1>4, <3>1
      <4> QED  BY <1>3, <4>1, <4>2, <4>3 DEF MessageOK
    <3>2. CASE k = Len(toWorklet) + 1
      <4>1. toWorklet'[k] = m /\ k = Len(toWorklet') /\ driver' = "closed"
        BY <1>3, <1>4, <3>2
      <4>2. Stream(<<>>, mixed)
        BY DEF Stream
      <4> QED  BY <1>2, <4>1, <4>2 DEF MessageOK
    <3> QED  BY <1>4, <3>1, <3>2
  <2> QED  BY <1>3, <2>1 DEF IInv, MessagesOK
<1>10. LifeOK'
  BY <1>3, <1>4, <1>7 DEF IInv, LifeOK
<1> QED  BY <1>5, <1>6, <1>8, <1>9, <1>10 DEF IInv

(* Where the free slots are: those that follow the ring's data from its write
   position on are those that follow it from its read position on. *)
LEMMA SlotAhead ==
  ASSUME NEW r \in 0..Size, NEW w \in Index, NEW avail \in 0..Size,
         r + avail \in {w, w + Size, w + 2 * Size},
         NEW i \in Index
  PROVE  /\ i >= avail => Slot(w, i - avail) = Slot(r, i)
         /\ i < avail => Slot(w, i + (Size - avail)) = Slot(r, i)
  BY DEF Slot

(* Where the write position goes when n samples are written. *)
Wpos(w, n) == IF Size - w = n THEN 0 ELSE IF Size - w > n THEN w + n ELSE n - (Size - w)

(* The data still ends at the write position. *)
LEMMA WposMoved ==
  ASSUME NEW r \in 0..Size, NEW w \in Index, NEW avail \in 0..Size,
         r + avail \in {w, w + Size, w + 2 * Size},
         NEW n \in Nat, avail + n <= Size
  PROVE  /\ Wpos(w, n) \in Index
         /\ r + (avail + n) \in {Wpos(w, n), Wpos(w, n) + Size, Wpos(w, n) + 2 * Size}
<1>1. CASE Size - w > n
  <2>1. Wpos(w, n) = w + n /\ Wpos(w, n) \in Index
    BY <1>1 DEF Wpos
  <2> QED  BY <2>1
<1>2. CASE ~(Size - w > n)
  <2>1. Wpos(w, n) = w + n - Size /\ Wpos(w, n) \in Index
    BY <1>2 DEF Wpos
  <2>2. r + avail = w \/ r + avail = w + Size
    BY <1>2
  <2> QED  BY <2>1, <2>2
<1> QED  BY <1>1, <1>2

(* Where the read position goes when n samples are read. *)
Rpos(r, n) == IF r + n > Size THEN r + n - Size ELSE r + n

(* The data still ends at the write position. *)
LEMMA RposMoved ==
  ASSUME NEW r \in 0..Size, NEW w \in Index, NEW avail \in 0..Size,
         r + avail \in {w, w + Size, w + 2 * Size},
         NEW n \in 1..Size, n <= avail
  PROVE  /\ Rpos(r, n) \in 0..Size
         /\ Rpos(r, n) + (avail - n) \in {w, w + Size, w + 2 * Size}
  BY DEF Rpos

(* A read position that has moved, round the end or not. *)
LEMMA SlotMoved ==
  ASSUME NEW r \in 0..Size, NEW n \in 1..Size, NEW i \in Nat, i + n < Size
  PROVE  Slot(Rpos(r, n), i) = Slot(r, i + n)
  BY DEF Slot, Rpos

(* What a buffer holds, once data is written into the room that it has. *)
LEMMA HoldsMore ==
  ASSUME NEW buffer, NEW avail \in 0..Size, NEW r \in 0..Size, NEW w \in Index,
         r + avail \in {w, w + Size, w + 2 * Size},
         NEW h \in Nat, Holds(buffer, r, avail, h),
         NEW data \in Seq(Nat), avail + Len(data) <= Size, Stream(data, h + avail)
  PROVE  Holds(Filled(buffer, w, data), r, avail + Len(data), h)
<1> SUFFICES ASSUME NEW i \in 0..(avail + Len(data)) - 1
             PROVE  Filled(buffer, w, data)[Slot(r, i)] = h + i
  BY DEF Holds
<1>1. i \in Index /\ Len(data) <= Size /\ Len(data) \in Nat
  OBVIOUS
<1>2. CASE i < avail
  <2>1. i + (Size - avail) \in Len(data)..Size - 1
    BY <1>1, <1>2
  <2>2. Slot(w, i + (Size - avail)) = Slot(r, i)
    BY <1>1, <1>2, SlotAhead
  <2>3. Filled(buffer, w, data)[Slot(w, i + (Size - avail))] = buffer[Slot(w, i + (Size - avail))]
    BY <1>1, <2>1, FilledOutside
  <2>4. buffer[Slot(r, i)] = h + i
    BY <1>2 DEF Holds
  <2> QED  BY <2>2, <2>3, <2>4
<1>3. CASE i >= avail
  <2>1. i - avail \in 0..Len(data) - 1 /\ (i - avail) + 1 \in 1..Len(data)
    BY <1>1, <1>3
  <2>2. Slot(w, i - avail) = Slot(r, i)
    BY <1>1, <1>3, SlotAhead
  <2>3. Filled(buffer, w, data)[Slot(w, i - avail)] = data[(i - avail) + 1]
    BY <1>1, <2>1, FilledInside
  <2>4. data[(i - avail) + 1] = h + i
    BY <2>1 DEF Stream
  <2> QED  BY <2>2, <2>3, <2>4
<1> QED  BY <1>2, <1>3

(* What a buffer holds, once n samples are read. *)
LEMMA HoldsRest ==
  ASSUME NEW buffer, NEW avail \in 0..Size, NEW r \in 0..Size,
         NEW h \in Nat, Holds(buffer, r, avail, h), NEW n \in 1..Size, n <= avail
  PROVE  Holds(buffer, Rpos(r, n), avail - n, h + n)
<1>1. ASSUME NEW i \in 0..(avail - n) - 1
      PROVE  buffer[Slot(Rpos(r, n), i)] = (h + n) + i
  <2>1. i + n \in 0..avail - 1 /\ i + n < Size /\ i \in Nat
    OBVIOUS
  <2>2. Slot(Rpos(r, n), i) = Slot(r, i + n)
    BY <2>1, SlotMoved
  <2>3. buffer[Slot(r, i + n)] = h + (i + n)
    BY <2>1 DEF Holds
  <2> QED  BY <2>2, <2>3
<1> QED  BY <1>1 DEF Holds

(* What is read are the samples that the buffer holds. *)
LEMMA HoldsTaken ==
  ASSUME NEW buffer, NEW avail \in 0..Size, NEW r \in 0..Size,
         NEW h \in Nat, Holds(buffer, r, avail, h), NEW n \in 1..Size, n <= avail
  PROVE  \A i \in 1..n : buffer[Slot(r, i - 1)] = h + i - 1
<1> SUFFICES ASSUME NEW i \in 1..n
             PROVE  buffer[Slot(r, i - 1)] = h + i - 1
  OBVIOUS
<1>1. i - 1 \in 0..avail - 1 /\ h + (i - 1) = h + i - 1
  OBVIOUS
<1> QED  BY <1>1 DEF Holds

(* The ring buffer's fields. *)
Ring == [buffer : [Index -> Nat], avail : 0..Size, rpos : 0..Size, wpos : Index]

(* A write into a buffer with room for it. *)
LEMMA WriteRing ==
  ASSUME TypeOK, RingOK, NEW data \in Seq(Nat), output.avail + Len(data) <= Size,
         Stream(data, heard + output.avail),
         output' = Write(output, data), heard' = heard
  PROVE  output' \in Ring /\ output'.avail = output.avail + Len(data) /\ RingOK'
<1>1. /\ Len(data) \in Nat /\ output \in Ring /\ output.avail \in 0..Size /\ output.rpos \in 0..Size
      /\ output.wpos \in Index /\ output.buffer \in [Index -> Nat] /\ heard \in Nat
  <2>1. Len(data) \in Nat
    OBVIOUS
  <2>2. output \in Ring
    BY DEF TypeOK, Ring
  <2>3. heard \in Nat
    BY DEF TypeOK
  <2>4. /\ output.avail \in 0..Size /\ output.rpos \in 0..Size
        /\ output.wpos \in Index /\ output.buffer \in [Index -> Nat]
    BY <2>2 DEF Ring
  <2> QED  BY <2>1, <2>2, <2>3, <2>4
<1>2. /\ output'.buffer = Filled(output.buffer, output.wpos, data)
      /\ output'.avail = output.avail + Len(data)
      /\ output'.rpos = output.rpos
      /\ output'.wpos = Wpos(output.wpos, Len(data))
      /\ output' = [buffer |-> output'.buffer, avail |-> output'.avail,
                    rpos |-> output'.rpos, wpos |-> output'.wpos]
  BY <1>1 DEF Write, Wpos, Ring
<1>3. output.rpos + output.avail \in {output.wpos, output.wpos + Size, output.wpos + 2 * Size}
  BY DEF RingOK
<1>4. /\ output'.wpos \in Index
      /\ output.rpos + (output.avail + Len(data)) \in {output'.wpos, output'.wpos + Size, output'.wpos + 2 * Size}
  <2> PICK w : w = Wpos(output.wpos, Len(data))
    OBVIOUS
  <2>1. w \in Index /\ output.rpos + (output.avail + Len(data)) \in {w, w + Size, w + 2 * Size}
    BY <1>1, <1>3, WposMoved
  <2>2. output'.wpos = w
    BY <1>2
  <2> QED  BY <2>1, <2>2
<1>5. output'.buffer \in [Index -> Nat]
  <2>1. Filled(output.buffer, output.wpos, data) \in [Index -> Nat]
    BY <1>1, FilledType
  <2> QED  BY <1>2, <2>1
<1>6. Holds(output.buffer, output.rpos, output.avail, heard)
  BY DEF RingOK
<1>7. Holds(output'.buffer, output'.rpos, output'.avail, heard)
  BY <1>1, <1>2, <1>3, <1>6, HoldsMore
<1>8. output'.avail \in 0..Size /\ output'.rpos \in 0..Size
  BY <1>1, <1>2
<1>9. output' \in Ring
  BY <1>2, <1>4, <1>5, <1>8 DEF Ring
<1>10. RingOK'
  BY <1>2, <1>4, <1>7 DEF RingOK
<1> QED  BY <1>2, <1>9, <1>10

(* A read of what is there. *)
LEMMA ReadRing ==
  ASSUME TypeOK, RingOK, NEW n \in 1..Size, n <= output.avail,
         output' = Read(output, n), heard' = heard + n
  PROVE  /\ output' \in Ring /\ output'.avail = output.avail - n /\ RingOK'
         /\ Taken(output.buffer, output.rpos, n) = [i \in 1..n |-> heard + i - 1]
<1>1. /\ output \in Ring /\ output.avail \in 0..Size /\ output.rpos \in 0..Size
      /\ output.wpos \in Index /\ output.buffer \in [Index -> Nat] /\ heard \in Nat
  BY DEF TypeOK, Ring
<1>2. /\ output'.buffer = output.buffer
      /\ output'.avail = output.avail - n
      /\ output'.rpos = Rpos(output.rpos, n)
      /\ output'.wpos = output.wpos
      /\ output' = [buffer |-> output'.buffer, avail |-> output'.avail,
                    rpos |-> output'.rpos, wpos |-> output'.wpos]
  BY <1>1 DEF Read, Rpos, Ring
<1>3. output.rpos + output.avail \in {output.wpos, output.wpos + Size, output.wpos + 2 * Size}
  BY DEF RingOK
<1>4. /\ output'.rpos \in 0..Size
      /\ output'.rpos + (output.avail - n) \in {output.wpos, output.wpos + Size, output.wpos + 2 * Size}
  <2> PICK p : p = Rpos(output.rpos, n)
    OBVIOUS
  <2>1. p \in 0..Size /\ p + (output.avail - n) \in {output.wpos, output.wpos + Size, output.wpos + 2 * Size}
    BY <1>1, <1>3, RposMoved
  <2>2. output'.rpos = p
    BY <1>2
  <2> QED  BY <2>1, <2>2
<1>5. Holds(output.buffer, output.rpos, output.avail, heard)
  BY DEF RingOK
<1>6. /\ Holds(output'.buffer, output'.rpos, output'.avail, heard + n)
      /\ Taken(output.buffer, output.rpos, n) = [i \in 1..n |-> heard + i - 1]
  <2>1. PICK b, r, a : b = output.buffer /\ r = output.rpos /\ a = output.avail
    OBVIOUS
  <2>2. Holds(b, Rpos(r, n), a - n, heard + n)
    BY <1>1, <1>5, <2>1, HoldsRest
  <2>3. Taken(b, r, n) = [i \in 1..n |-> heard + i - 1]
    <3>1. a \in 0..Size /\ r \in 0..Size /\ heard \in Nat /\ Holds(b, r, a, heard) /\ n <= a
      BY <1>1, <1>5, <2>1
    <3>2. \A i \in 1..n : b[Slot(r, i - 1)] = heard + i - 1
      BY <3>1, HoldsTaken
    <3> QED  BY <3>2 DEF Taken
  <2> QED  BY <1>2, <2>1, <2>2, <2>3
<1>7. output'.avail \in 0..Size
  BY <1>1, <1>2
<1>8. output' \in Ring
  BY <1>1, <1>2, <1>4, <1>7 DEF Ring
<1>9. RingOK'
  BY <1>2, <1>4, <1>6 DEF RingOK
<1> QED  BY <1>2, <1>6, <1>8, <1>9

-----------------------------------------------------------------------------
(* The steps that pass messages on. *)

(* The same types, from the whole invariant. *)
LEMMA InvTypes ==
  ASSUME IInv
  PROVE  /\ toWorklet \in Seq(Msg) /\ toMain \in Seq(Note)
         /\ Len(toWorklet) \in Nat /\ Len(toMain) \in Nat
         /\ \A k \in 1..Len(toWorklet) : toWorklet[k].from \in Nat /\ toWorklet[k].to \in Nat
         /\ \A k \in 1..Len(toMain) : toMain[k].from \in Nat /\ toMain[k].to \in Nat
         /\ output.avail \in 0..Size /\ heard + output.avail \in Int
         /\ heard \in Nat /\ mixed \in Nat /\ wpos \in Index /\ heap \in [Index -> Nat]
         /\ heard \in Int /\ mixed \in Int /\ mixed - Size \in Int
<1>1. TypeOK
  BY DEF IInv
<1>2. /\ toWorklet \in Seq(Msg) /\ toMain \in Seq(Note)
      /\ \A k \in 1..Len(toWorklet) : toWorklet[k].from \in Nat /\ toWorklet[k].to \in Nat
      /\ \A k \in 1..Len(toMain) : toMain[k].from \in Nat /\ toMain[k].to \in Nat
      /\ output.avail \in 0..Size
      /\ heard \in Nat /\ mixed \in Nat /\ wpos \in Index /\ heap \in [Index -> Nat]
  BY <1>1, MessageTypes
<1>3. Len(toWorklet) \in Nat /\ Len(toMain) \in Nat
  BY <1>2
<1>4. /\ heard + output.avail \in Int /\ heard \in Int /\ mixed \in Int /\ mixed - Size \in Int
  BY <1>2
<1> QED  BY <1>2, <1>3, <1>4

(* What of the invariant concerns the first message to the audio thread. *)
LEMMA HeadToWorklet ==
  ASSUME IInv, toWorklet # <<>>
  PROVE  /\ Head(toWorklet) = toWorklet[1] /\ toWorklet[1] \in Msg /\ MessageOK(1)
         /\ driver # "none" /\ state # "stopped"
         /\ toWorklet[1].from = heard + output.avail /\ toWorklet[1].to <= mixed
         /\ Chain(Tail(toWorklet), toWorklet[1].to, mixed)
         /\ Tail(toWorklet) \in Seq(Msg) /\ Len(Tail(toWorklet)) = Len(toWorklet) - 1
         /\ \A k \in 1..Len(toWorklet) - 1 : Tail(toWorklet)[k] = toWorklet[k + 1] /\ MessageOK(k + 1)
<1>1. /\ toWorklet \in Seq(Msg)
      /\ \A k \in 1..Len(toWorklet) : toWorklet[k].from \in Nat /\ toWorklet[k].to \in Nat
      /\ heard + output.avail \in Int /\ mixed \in Int
  BY InvTypes
<1>2. /\ Len(toWorklet) \in Nat \ {0} /\ Head(toWorklet) = toWorklet[1] /\ toWorklet[1] \in Msg
      /\ Tail(toWorklet) \in Seq(Msg) /\ Len(Tail(toWorklet)) = Len(toWorklet) - 1
      /\ \A k \in 1..Len(toWorklet) - 1 : Tail(toWorklet)[k] = toWorklet[k + 1]
  BY <1>1, TailFacts
<1>3. driver # "none" /\ state # "stopped"
  BY DEF IInv, LifeOK
<1>4. Chain(toWorklet, heard + output.avail, mixed)
  BY <1>3 DEF IInv, ChainsOK
<1>5. /\ toWorklet[1].from = heard + output.avail /\ toWorklet[1].to <= mixed
      /\ Chain(Tail(toWorklet), toWorklet[1].to, mixed)
  BY <1>1, <1>4, ChainTail
<1>6. \A k \in 1..Len(toWorklet) : MessageOK(k)
  BY DEF IInv, MessagesOK
<1>7. MessageOK(1) /\ \A k \in 1..Len(toWorklet) - 1 : MessageOK(k + 1)
  BY <1>2, <1>6
<1> QED  BY <1>2, <1>3, <1>5, <1>7

(* What of the invariant concerns the first message from the audio thread. *)
LEMMA HeadToMain ==
  ASSUME IInv, toMain # <<>>
  PROVE  /\ Head(toMain) = toMain[1] /\ toMain[1] \in Note
         /\ toMain[1].from \in Nat /\ toMain[1].to \in Nat
         /\ toMain[1].to - toMain[1].from \in 1..Size
         /\ Tail(toMain) \in Seq(Note)
         /\ \A k \in 1..Len(Tail(toMain)) :
              Tail(toMain)[k].from < Tail(toMain)[k].to /\ Tail(toMain)[k].to <= Tail(toMain)[k].from + Size
         /\ state # "idle" /\ driver # "none"
         /\ driver # "closed" =>
              /\ toMain[1].from = mixed - Size /\ toMain[1].to <= heard
              /\ Chain(Tail(toMain), toMain[1].to, heard)
<1>1. /\ toMain \in Seq(Note)
      /\ \A k \in 1..Len(toMain) : toMain[k].from \in Nat /\ toMain[k].to \in Nat
      /\ heard \in Int /\ mixed - Size \in Int
  BY InvTypes
<1>2. /\ Len(toMain) \in Nat \ {0} /\ Head(toMain) = toMain[1] /\ toMain[1] \in Note
      /\ Tail(toMain) \in Seq(Note) /\ Len(Tail(toMain)) = Len(toMain) - 1
      /\ \A k \in 1..Len(toMain) - 1 : Tail(toMain)[k] = toMain[k + 1]
  BY <1>1, TailFacts
<1>3. state # "idle" /\ driver # "none"
  BY DEF IInv, LifeOK
<1>4. ASSUME driver # "closed"
      PROVE  /\ toMain[1].from = mixed - Size /\ toMain[1].to <= heard
             /\ Chain(Tail(toMain), toMain[1].to, heard)
  <2>1. Chain(toMain, mixed - Size, heard)
    BY <1>4 DEF IInv, ChainsOK
  <2> QED  BY <1>1, <2>1, ChainTail
<1>5. \A k \in 1..Len(toMain) : toMain[k].from < toMain[k].to /\ toMain[k].to <= toMain[k].from + Size
  BY DEF IInv, MessagesOK
<1>6. toMain[1].from \in Nat /\ toMain[1].to \in Nat /\ toMain[1].to - toMain[1].from \in 1..Size
  BY <1>1, <1>2, <1>5
<1>7. \A k \in 1..Len(Tail(toMain)) :
        Tail(toMain)[k].from < Tail(toMain)[k].to /\ Tail(toMain)[k].to <= Tail(toMain)[k].from + Size
  BY <1>2, <1>5
<1> QED  BY <1>2, <1>3, <1>4, <1>6, <1>7

LEMMA OnMessageInv == IInv /\ OnMessage => IInv'
<1> SUFFICES ASSUME IInv, OnMessage PROVE IInv'
  OBVIOUS
<1>1. /\ toMain # <<>> /\ toMain' = Tail(toMain)
      /\ UNCHANGED <<driver, state, output, speaker, heard>>
  BY DEF OnMessage, audioVars
<1>2. /\ Tail(toMain) \in Seq(Note)
      /\ \A k \in 1..Len(Tail(toMain)) :
           Tail(toMain)[k].from < Tail(toMain)[k].to /\ Tail(toMain)[k].to <= Tail(toMain)[k].from + Size
      /\ state # "idle" /\ driver # "none"
  BY <1>1, HeadToMain
<1>3. RingOK'
  BY <1>1 DEF IInv, RingOK
<1>4. CASE driver = "closed"
  <2>1. UNCHANGED <<heap, mixed, wpos, toWorklet>>
    BY <1>4 DEF OnMessage
  <2>2. TypeOK'
    BY <1>1, <1>2, <2>1 DEF IInv, TypeOK, Note
  <2>3. ChainsOK'
    BY <1>1, <1>4, <2>1 DEF IInv, ChainsOK
  <2>4. MessagesOK'
    BY <1>1, <1>2, <2>1 DEF IInv, MessagesOK, MessageOK
  <2>5. LifeOK'
    BY <1>1, <1>2, <2>1 DEF IInv, LifeOK
  <2> QED  BY <1>3, <2>2, <2>3, <2>4, <2>5 DEF IInv
<1>5. CASE driver = "connected"
  <2>1. PICK n : n = toMain[1].to - toMain[1].from
    OBVIOUS
  <2>2. /\ n \in 1..Size /\ toMain[1].to = mixed - Size + n /\ toMain[1].to <= heard
        /\ Chain(Tail(toMain), toMain[1].to, heard) /\ Head(toMain) = toMain[1]
    BY <1>1, <1>5, <2>1, HeadToMain
  <2>3. PICK fresh : fresh = [i \in 1..n |-> mixed + i - 1]
    OBVIOUS
  <2>4. PICK heap2 : heap2 = Filled(heap, wpos, fresh)
    OBVIOUS
  <2>5. PICK data : data = Taken(heap2, wpos, n)
    OBVIOUS
  <2>6. PICK m : m = Message("chunk", mixed, data)
    OBVIOUS
  <2>7. Consumed(n)
    BY <1>5, <2>1, <2>2 DEF OnMessage
  <2>8. /\ heap' = heap2 /\ mixed' = mixed + n /\ wpos' = Slot(wpos, n)
        /\ toWorklet' = Append(toWorklet, m)
    BY <2>3, <2>4, <2>5, <2>6, <2>7 DEF Consumed
  <2>9. /\ heap \in [Index -> Nat] /\ wpos \in Index /\ mixed \in Nat /\ heard \in Nat
        /\ output.avail \in 0..Size /\ toWorklet \in Seq(Msg) /\ Len(toWorklet) \in Nat
        /\ \A k \in 1..Len(toWorklet) : toWorklet[k].from \in Nat /\ toWorklet[k].to \in Nat
    BY InvTypes
  <2>10. fresh \in Seq(Nat) /\ Len(fresh) = n
    BY <2>2, <2>3, <2>9
  <2>11. heap2 \in [Index -> Nat]
    BY <2>4, <2>9, <2>10, FilledType
  <2>12. data \in Seq(Nat) /\ Len(data) = n
    BY <2>2, <2>5, <2>9, <2>11, TakenType
  <2>13. Stream(data, mixed)
    <3>1. data = Taken(Filled(heap, wpos, fresh), wpos, Len(fresh)) /\ Len(fresh) \in 1..Size
      BY <2>2, <2>4, <2>5, <2>10
    <3>2. \A i \in 1..Len(fresh) : data[i] = fresh[i]
      BY <2>9, <2>10, <3>1, TakenFilled
    <3> QED  BY <2>3, <2>10, <2>12, <3>2 DEF Stream
  <2>14. /\ m \in Msg /\ m.cmd = "chunk" /\ m.from = mixed /\ m.to = mixed + n /\ m.data = data
    BY <2>2, <2>6, <2>9, <2>12 DEF Message, Msg
  <2>15. /\ toWorklet' \in Seq(Msg) /\ toWorklet' # <<>> /\ Len(toWorklet') = Len(toWorklet) + 1
         /\ \A k \in 1..Len(toWorklet) : toWorklet'[k] = toWorklet[k]
         /\ toWorklet'[Len(toWorklet) + 1] = m
    BY <2>8, <2>9, <2>14, AppendFacts
  <2>16. wpos' \in Index /\ mixed' \in Nat
    BY <2>2, <2>8, <2>9 DEF Slot
  <2>17. TypeOK'
    BY <1>1, <1>2, <2>8, <2>11, <2>15, <2>16 DEF IInv, TypeOK, Msg, Note
  <2>18. ChainsOK'
    <3>1. Chain(toMain', mixed' - Size, heard')
      <4>1. mixed' - Size = toMain[1].to
        BY <2>2, <2>8, <2>9
      <4> QED  BY <1>1, <2>2, <4>1
    <3>2. state # "stopped" => Chain(toWorklet', heard' + output'.avail, mixed')
      <4> SUFFICES ASSUME state # "stopped"
                   PROVE  Chain(toWorklet', heard + output.avail, mixed + n)
        BY <1>1, <2>8
      <4>1. Chain(toWorklet, heard + output.avail, mixed)
        BY <1>5 DEF IInv, ChainsOK
      <4>2. /\ heard + output.avail \in Int /\ mixed \in Int /\ m.to \in Nat /\ mixed <= m.to
            /\ m.from = mixed /\ m \in Msg
        BY <2>2, <2>9, <2>14
      <4>3. Chain(Append(toWorklet, m), heard + output.avail, m.to)
        BY <2>9, <4>1, <4>2, ChainAppend
      <4> QED  BY <2>8, <2>14, <4>3
    <3> QED  BY <1>1, <3>1, <3>2 DEF ChainsOK
  <2>19. MessagesOK'
    <3>1. ASSUME NEW k \in 1..Len(toWorklet')
          PROVE  MessageOK(k)'
      <4>1. CASE k \in 1..Len(toWorklet)
        <5>1. MessageOK(k)
          BY <4>1 DEF IInv, MessagesOK
        <5>2. toWorklet[k].cmd # "stop"
          BY <1>5, <5>1 DEF MessageOK
        <5>3. toWorklet'[k] = toWorklet[k]
          BY <2>15, <4>1
        <5> QED  BY <1>1, <5>1, <5>2, <5>3 DEF MessageOK
      <4>2. CASE k = Len(toWorklet) + 1
        <5>1. toWorklet'[k] = m
          BY <2>15, <4>2
        <5>2. state = "playing"
          BY <1>2, <1>5 DEF IInv, LifeOK, TypeOK
        <5>3. m.to = m.from + Len(m.data)
          BY <2>12, <2>14
        <5>4. state' = "playing" /\ m.cmd = "chunk" /\ Stream(m.data, m.from)
          BY <1>1, <2>13, <2>14, <5>2
        <5> QED  BY <5>1, <5>3, <5>4 DEF MessageOK
      <4> QED  BY <2>9, <2>15, <4>1, <4>2
    <3> QED  BY <1>1, <1>2, <3>1 DEF MessagesOK
  <2>20. LifeOK'
    <3>1. mixed' <= heard' + Size /\ heard' + output'.avail <= mixed'
      <4>1. heard + output.avail <= mixed
        BY DEF IInv, LifeOK
      <4> QED  BY <1>1, <2>2, <2>8, <2>9, <4>1
    <3>2. state' # "idle" /\ driver' # "none" /\ state' # "stopped"
      BY <1>1, <1>2, <1>5 DEF IInv, LifeOK
    <3> QED  BY <3>1, <3>2 DEF LifeOK
  <2> QED  BY <1>3, <2>17, <2>18, <2>19, <2>20 DEF IInv
<1> QED  BY <1>4, <1>5 DEF OnMessage

LEMMA ParseMessageInv == IInv /\ ParseMessage => IInv'
<1> SUFFICES ASSUME IInv, ParseMessage PROVE IInv'
  OBVIOUS
<1>1. /\ toWorklet # <<>> /\ toWorklet' = Tail(toWorklet)
      /\ UNCHANGED <<driver, heap, wpos, mixed, speaker, heard, toMain>>
  BY DEF ParseMessage, mainVars
<1>2. PICK m : m = toWorklet[1]
  OBVIOUS
<1>3. /\ Head(toWorklet) = m /\ m \in Msg /\ m.data \in Seq(Nat) /\ Len(m.data) \in Nat
      /\ m.from = heard + output.avail /\ m.to <= mixed
      /\ Chain(toWorklet', m.to, mixed) /\ driver # "none" /\ state # "stopped"
  <2>1. /\ Head(toWorklet) = m /\ m \in Msg
        /\ m.from = heard + output.avail /\ m.to <= mixed
        /\ Chain(toWorklet', m.to, mixed) /\ driver # "none" /\ state # "stopped"
    BY <1>1, <1>2, HeadToWorklet
  <2>2. m.data \in Seq(Nat)
    BY <2>1 DEF Msg
  <2> QED  BY <2>1, <2>2
<1>4. /\ m.to = m.from + Len(m.data) /\ Stream(m.data, m.from)
      /\ m.cmd = "start_nothreads" => state = "idle" /\ Len(m.data) = Size
      /\ m.cmd = "chunk" => state = "playing"
      /\ m.cmd = "stop" => 1 = Len(toWorklet) /\ driver = "closed" /\ m.data = <<>>
  <2>1. MessageOK(1)
    BY <1>1, HeadToWorklet
  <2> QED  BY <1>2, <2>1 DEF MessageOK
<1>5. /\ toWorklet' \in Seq(Msg) /\ Len(toWorklet) \in Nat \ {0} /\ Len(toWorklet') = Len(toWorklet) - 1
      /\ \A k \in 1..Len(toWorklet') :
           /\ k \in 1..Len(toWorklet) - 1
           /\ toWorklet'[k] = toWorklet[k + 1] /\ MessageOK(k + 1)
  <2>1. /\ toWorklet' \in Seq(Msg) /\ Len(toWorklet') = Len(toWorklet) - 1
        /\ \A k \in 1..Len(toWorklet) - 1 : toWorklet'[k] = toWorklet[k + 1] /\ MessageOK(k + 1)
    BY <1>1, HeadToWorklet
  <2>2. toWorklet \in Seq(Msg)
    BY InvTypes
  <2> QED  BY <1>1, <2>1, <2>2
<1>6. /\ output.avail \in 0..Size /\ heard \in Nat /\ mixed \in Nat
      /\ heard + output.avail <= mixed /\ mixed <= heard + Size
      /\ state = "idle" => heard = 0 /\ output.avail = 0 /\ mixed = Size /\ toMain = <<>>
  BY InvTypes DEF IInv, LifeOK
\* A message further back finds what it expects when the first one did.
<1>7. ASSUME state' = "playing" \/ toWorklet' = <<>>
      PROVE  MessagesOK'
  <2>1. ASSUME NEW k \in 1..Len(toWorklet')
        PROVE  MessageOK(k)'
    <3>1. toWorklet'[k] = toWorklet[k + 1] /\ MessageOK(k + 1) /\ k + 1 # 1 /\ state' = "playing"
      BY <1>5, <1>7, <2>1
    <3>2. k + 1 = Len(toWorklet) => k = Len(toWorklet')
      BY <1>5, <2>1
    <3> QED  BY <1>1, <3>1, <3>2 DEF MessageOK
  <2>2. \A k \in 1..Len(toMain') : toMain'[k].from < toMain'[k].to /\ toMain'[k].to <= toMain'[k].from + Size
    BY <1>1 DEF IInv, MessagesOK
  <2> QED  BY <2>1, <2>2 DEF MessagesOK
<1>8. ASSUME output' \in Ring, state' \in {"idle", "playing", "stopped"}
      PROVE  TypeOK'
  BY <1>1, <1>5, <1>8 DEF IInv, TypeOK, Msg, Ring
<1>9. ASSUME heard + output'.avail = m.to
      PROVE  ChainsOK'
  BY <1>1, <1>3, <1>9 DEF IInv, ChainsOK
<1>10. CASE m.cmd = "start_nothreads"
  <2>1. /\ state' = "playing" /\ state = "idle" /\ Len(m.data) = Size
        /\ output' = [buffer |-> [k \in Index |-> m.data[k + 1]], avail |-> Size, rpos |-> 0, wpos |-> 0]
    BY <1>3, <1>4, <1>10 DEF ParseMessage, NewRing
  <2>2. ASSUME NEW k \in Index
        PROVE  m.data[k + 1] \in Nat /\ m.data[k + 1] = m.from + k
    <3>1. k + 1 \in 1..Len(m.data)
      BY <2>1
    <3>2. m.data[k + 1] = m.from + (k + 1) - 1
      BY <1>4, <3>1 DEF Stream
    <3> QED  BY <1>3, <1>6, <3>1, <3>2
  <2>3. output' \in Ring
    <3>1. [k \in Index |-> m.data[k + 1]] \in [Index -> Nat]
      BY <2>2
    <3> QED  BY <2>1, <3>1 DEF Ring
  <2>4. output'.avail = Size /\ output'.rpos = 0 /\ output'.wpos = 0
    BY <2>1
  <2>5. RingOK'
    <3>1. ASSUME NEW i \in 0..Size - 1
          PROVE  output'.buffer[Slot(0, i)] = heard + i
      <4>1. Slot(0, i) = i
        BY DEF Slot
      <4>2. output'.buffer[i] = m.data[i + 1] /\ i \in Index
        BY <2>1
      <4>3. m.data[i + 1] = m.from + i
        BY <2>2, <4>2
      <4>4. m.from = heard
        <5>1. state = "idle"
          BY <2>1
        <5> QED  BY <1>3, <1>6, <5>1
      <4> QED  BY <4>1, <4>2, <4>3, <4>4
    <3>2. Holds(output'.buffer, 0, Size, heard)
      BY <3>1 DEF Holds
    <3> QED  BY <1>1, <2>4, <3>2 DEF RingOK
  <2>6. heard + output'.avail = m.to
    BY <1>3, <1>4, <1>6, <2>1, <2>4
  <2>7. LifeOK'
    BY <1>1, <1>3, <1>6, <2>1, <2>4 DEF LifeOK
  <2> QED  BY <1>7, <1>8, <1>9, <2>1, <2>3, <2>5, <2>6, <2>7 DEF IInv
<1>11. CASE m.cmd = "chunk"
  <2>1. state' = state /\ output' = Write(output, m.data) /\ state = "playing"
    BY <1>3, <1>4, <1>11 DEF ParseMessage
  <2>2. TypeOK /\ RingOK /\ heard' = heard
    BY <1>1 DEF IInv
  <2>3. output.avail + Len(m.data) <= Size /\ Stream(m.data, heard + output.avail)
    BY <1>3, <1>4, <1>6
  <2>4. output' \in Ring /\ output'.avail = output.avail + Len(m.data) /\ RingOK'
    BY <1>3, <2>1, <2>2, <2>3, WriteRing
  <2>5. heard + output'.avail = m.to
    BY <1>3, <1>4, <1>6, <2>4
  <2>6. LifeOK'
    BY <1>1, <1>3, <1>6, <2>1, <2>5 DEF LifeOK
  <2> QED  BY <1>7, <1>8, <1>9, <2>1, <2>4, <2>5, <2>6 DEF IInv
<1>12. CASE m.cmd = "stop"
  <2>1. state' = "stopped" /\ output' = output /\ driver = "closed"
    BY <1>3, <1>4, <1>12 DEF ParseMessage
  <2>2. toWorklet' = <<>>
    BY <1>4, <1>5, <1>12
  <2>3. output' \in Ring /\ RingOK'
    BY <1>1, <2>1 DEF IInv, TypeOK, RingOK, Ring
  <2>4. ChainsOK'
    BY <1>1, <2>1 DEF ChainsOK
  <2>5. LifeOK'
    BY <1>1, <1>6, <2>1, <2>2 DEF LifeOK
  <2> QED  BY <1>7, <1>8, <2>1, <2>2, <2>3, <2>4, <2>5 DEF IInv
<1> QED  BY <1>3, <1>10, <1>11, <1>12 DEF ParseMessage

LEMMA ProcessInv == ASSUME NEW n \in Chunk PROVE IInv /\ Process(n) => IInv'
<1> SUFFICES ASSUME IInv, Process(n) PROVE IInv'
  OBVIOUS
<1>1. /\ state = "playing" /\ n \in 1..Size /\ n <= output.avail
      /\ output' = Read(output, n) /\ heard' = heard + n
      /\ speaker' = Taken(output.buffer, output.rpos, n)
      /\ UNCHANGED <<driver, heap, wpos, mixed, state, toWorklet>>
  <2>1. n \in Nat /\ output.avail \in Nat /\ n \in 1..Size
    BY InvTypes
  <2> QED  BY <2>1 DEF Process, mainVars
<1>2. TypeOK /\ RingOK
  BY DEF IInv
<1>3. /\ output' \in Ring /\ output'.avail = output.avail - n /\ RingOK'
      /\ Taken(output.buffer, output.rpos, n) = [i \in 1..n |-> heard + i - 1]
  BY <1>1, <1>2, ReadRing
<1>4. heard \in Nat /\ mixed \in Nat /\ output.avail \in 0..Size /\ mixed - Size \in Int
  BY InvTypes
<1>5. PICK e : e = Notice(heard, heard + n)
  OBVIOUS
<1>6. e \in Note /\ e.from = heard /\ e.to = heard + n /\ e.to \in Nat
  BY <1>1, <1>4, <1>5 DEF Notice, Note
<1>7. toMain' = Append(toMain, e)
  BY <1>5 DEF Process
<1>8. /\ toMain \in Seq(Note) /\ Len(toMain) \in Nat
      /\ \A k \in 1..Len(toMain) : toMain[k].from \in Nat /\ toMain[k].to \in Nat
  BY InvTypes
<1>9. /\ toMain' \in Seq(Note) /\ Len(toMain') = Len(toMain) + 1
      /\ \A k \in 1..Len(toMain) : toMain'[k] = toMain[k]
      /\ toMain'[Len(toMain) + 1] = e
  BY <1>6, <1>7, <1>8, AppendFacts
<1>10. TypeOK'
  <2>1. speaker' \in Seq(Nat)
    BY <1>1, <1>3, <1>4
  <2>2. heard' \in Nat
    BY <1>1, <1>4
  <2> QED  BY <1>1, <1>2, <1>3, <1>9, <2>1, <2>2 DEF TypeOK, Ring, Note
<1>11. ChainsOK'
  <2>1. driver # "closed" => Chain(toMain', mixed - Size, heard + n)
    <3> SUFFICES ASSUME driver # "closed" PROVE Chain(toMain', mixed - Size, heard + n)
      OBVIOUS
    <3>1. Chain(toMain, mixed - Size, heard)
      BY DEF IInv, ChainsOK
    <3>2. heard \in Int /\ heard <= e.to
      BY <1>1, <1>4, <1>6
    <3>3. Chain(Append(toMain, e), mixed - Size, e.to)
      BY <1>4, <1>6, <1>8, <3>1, <3>2, ChainAppend
    <3> QED  BY <1>6, <1>7, <3>3
  <2>2. driver # "none" /\ state # "stopped" => Chain(toWorklet, heard + output.avail, mixed)
    BY DEF IInv, ChainsOK
  <2>3. heard' + output'.avail = heard + output.avail
    BY <1>1, <1>3, <1>4
  <2> QED  BY <1>1, <2>1, <2>2, <2>3 DEF ChainsOK
<1>12. MessagesOK'
  <2>1. ASSUME NEW k \in 1..Len(toWorklet')
        PROVE  MessageOK(k)'
    BY <1>1, <2>1 DEF IInv, MessagesOK, MessageOK
  <2>2. ASSUME NEW k \in 1..Len(toMain')
        PROVE  toMain'[k].from < toMain'[k].to /\ toMain'[k].to <= toMain'[k].from + Size
    <3>1. CASE k \in 1..Len(toMain)
      BY <1>9, <3>1 DEF IInv, MessagesOK
    <3>2. CASE k = Len(toMain) + 1
      BY <1>1, <1>4, <1>6, <1>9, <3>2
    <3> QED  BY <1>8, <1>9, <3>1, <3>2
  <2> QED  BY <2>1, <2>2 DEF MessagesOK
<1>13. LifeOK'
  <2>1. mixed' <= heard' + Size /\ heard' + output'.avail <= mixed'
    BY <1>1, <1>3, <1>4 DEF IInv, LifeOK
  <2>2. driver # "none"
    BY <1>1 DEF IInv, LifeOK
  <2> QED  BY <1>1, <2>1, <2>2 DEF LifeOK
<1> QED  BY <1>3, <1>10, <1>11, <1>12, <1>13 DEF IInv

LEMMA StutterInv == IInv /\ UNCHANGED vars => IInv'
<1> SUFFICES ASSUME IInv, UNCHANGED vars PROVE IInv'
  OBVIOUS
<1>1. /\ UNCHANGED <<driver, heap, wpos, mixed, state, output, speaker, heard, toWorklet, toMain>>
  BY DEF vars, mainVars, audioVars
<1> QED  BY <1>1 DEF IInv, TypeOK, RingOK, ChainsOK, MessagesOK, MessageOK, LifeOK

-----------------------------------------------------------------------------
(* The theorems. *)

(* Every state that can be reached satisfies the inductive invariant. *)
THEOREM Invariance == Spec => []IInv
<1>1. Init => IInv
  BY InitInv
<1>2. IInv /\ [Next]_vars => IInv'
  BY StartInv, OnMessageInv, CloseInv, ParseMessageInv, ProcessInv, StutterInv DEF Next
<1> QED  BY <1>1, <1>2, PTL DEF Spec

(* The variables of both threads and of the port keep their types. *)
THEOREM TypeCorrect == Spec => []TypeOK
<1>1. IInv => TypeOK
  BY DEF IInv
<1> QED  BY <1>1, Invariance, PTL

(* A chunk never overwrites samples that have not been played. *)
THEOREM ChunksAlwaysFit == Spec => []ChunksFit
<1>1. IInv => ChunksFit
  <2> SUFFICES ASSUME IInv, NEW k \in DOMAIN toWorklet, toWorklet[k].cmd = "chunk"
               PROVE  /\ state # "stopped"
                      /\ k = 1 => state = "playing" /\ output.avail + Len(toWorklet[k].data) <= Size
    BY DEF ChunksFit
  <2>1. toWorklet \in Seq(Msg) /\ k \in 1..Len(toWorklet) /\ toWorklet # <<>>
    BY InvTypes
  <2>2. state # "stopped"
    BY <2>1, HeadToWorklet
  <2>3. ASSUME k = 1
        PROVE  state = "playing" /\ output.avail + Len(toWorklet[k].data) <= Size
    <3>1. MessageOK(1) /\ toWorklet[1].from = heard + output.avail /\ toWorklet[1].to <= mixed
      BY <2>1, HeadToWorklet
    <3>2. state = "playing" /\ toWorklet[1].to = toWorklet[1].from + Len(toWorklet[1].data)
      BY <2>3, <3>1 DEF MessageOK
    <3>3. mixed <= heard + Size /\ heard \in Nat /\ mixed \in Nat /\ output.avail \in 0..Size
      BY InvTypes DEF IInv, LifeOK
    <3>4. toWorklet[1].data \in Seq(Nat)
      <4>1. toWorklet[1] \in Msg
        BY <2>1, HeadToWorklet
      <4> QED  BY <4>1 DEF Msg
    <3> QED  BY <2>3, <3>1, <3>2, <3>3, <3>4
  <2> QED  BY <2>2, <2>3
<1> QED  BY <1>1, Invariance, PTL

(* Each step of the two threads is a step of the abstract sample stream, or
   none: what is mixed is played once and in its order. *)
THEOREM Refinement == Spec => PlaysInOrder
<1>1. Init => Abstract!Init
  BY DEF Init, Abstract!Init
<1>2. IInv /\ [Next]_vars => [Abstract!Next]_(Abstract!vars)
  <2> SUFFICES ASSUME IInv, [Next]_vars
               PROVE  Abstract!Next \/ UNCHANGED <<mixed, heard, speaker>>
    BY DEF Abstract!vars
  <2>1. CASE Start \/ Close \/ ParseMessage
    BY <2>1 DEF Start, Close, ParseMessage, mainVars, audioVars
  <2>2. CASE UNCHANGED vars
    BY <2>2 DEF vars, mainVars, audioVars
  <2>3. CASE OnMessage
    <3>1. CASE driver = "closed"
      BY <2>3, <3>1 DEF OnMessage, audioVars
    <3>2. CASE driver = "connected"
      <4>1. PICK n : n = toMain[1].to - toMain[1].from
        OBVIOUS
      <4>2. toMain # <<>> /\ UNCHANGED <<heard, speaker>>
        BY <2>3 DEF OnMessage, audioVars
      <4>3. /\ n \in 1..Size /\ toMain[1].from = mixed - Size /\ toMain[1].to <= heard
            /\ Head(toMain) = toMain[1] /\ toMain[1].to \in Nat
        BY <3>2, <4>1, <4>2, HeadToMain
      <4>4. mixed' = mixed + n
        BY <2>3, <3>2, <4>1, <4>3 DEF OnMessage, Consumed
      <4>5. heard \in Nat /\ mixed \in Nat
        BY InvTypes
      <4>6. mixed + n - heard <= Size
        BY <4>1, <4>3, <4>5
      <4>7. Abstract!Mix(n)
        BY <4>2, <4>4, <4>6 DEF Abstract!Mix
      <4> QED  BY <4>3, <4>7 DEF Abstract!Next
    <3> QED  BY <2>3, <3>1, <3>2 DEF OnMessage
  <2>4. ASSUME NEW n \in Chunk, Process(n)
        PROVE  Abstract!Next
    <3>1. /\ n \in 1..Size /\ n <= output.avail /\ output' = Read(output, n) /\ heard' = heard + n
          /\ speaker' = Taken(output.buffer, output.rpos, n) /\ mixed' = mixed
      <4>1. n \in Nat /\ output.avail \in Nat /\ n \in 1..Size
        <5>1. output.avail \in 0..Size
          BY InvTypes
        <5> QED  BY <2>4, <5>1
      <4> QED  BY <2>4, <4>1 DEF Process, mainVars
    <3>2. TypeOK /\ RingOK
      BY DEF IInv
    <3>3. Taken(output.buffer, output.rpos, n) = [i \in 1..n |-> heard + i - 1]
      BY <3>1, <3>2, ReadRing
    <3>4. heard + output.avail <= mixed /\ heard \in Nat /\ mixed \in Nat /\ output.avail \in 0..Size
      BY InvTypes DEF IInv, LifeOK
    <3>5. n <= mixed - heard
      BY <3>1, <3>4
    <3>6. Abstract!Play(n)
      BY <3>1, <3>3, <3>5 DEF Abstract!Play
    <3> QED  BY <3>1, <3>6 DEF Abstract!Next
  <2> QED  BY <2>1, <2>2, <2>3, <2>4 DEF Next
<1> QED  BY <1>1, <1>2, Invariance, PTL DEF Spec, PlaysInOrder, Abstract!Spec

(* What SoundGoesOn needs besides fairness: in every state there is either a message
   under way or a full ring buffer to play from, and the messages run out. *)
THEOREM SoundDriven == Spec => SoundIsDriven
<1>1. IInv => (driver = "connected" /\ Pending = 0 => state = "playing" /\ output.avail = Size)
  <2> SUFFICES ASSUME IInv, driver = "connected", Pending = 0
               PROVE  state = "playing" /\ output.avail = Size
    OBVIOUS
  <2>1. toWorklet = <<>> /\ toMain = <<>>
    <3>1. Len(toWorklet) = 0 /\ Len(toMain) = 0
      BY InvTypes DEF Pending
    <3> QED  BY <3>1, InvTypes
  <2>2. state = "playing"
    BY <2>1 DEF IInv, TypeOK, LifeOK
  <2>3. heard + output.avail = mixed /\ mixed - Size = heard
    BY <2>1, <2>2 DEF IInv, ChainsOK, Chain
  <2>4. heard \in Nat /\ mixed \in Nat /\ output.avail \in Nat
    <3>1. output.avail \in 0..Size
      BY InvTypes
    <3> QED  BY <3>1, InvTypes
  <2> QED  BY <2>2, <2>3, <2>4
<1>2. IInv /\ [Next]_vars => [heard' > heard \/ driver' # driver \/ Pending' < Pending]_vars
  <2> SUFFICES ASSUME IInv, Next
               PROVE  heard' > heard \/ driver' # driver \/ Pending' < Pending
    OBVIOUS
  <2>1. CASE Start \/ Close
    BY <2>1 DEF Start, Close
  <2>2. CASE OnMessage
    <3>1. toMain # <<>> /\ toMain' = Tail(toMain)
      BY <2>2 DEF OnMessage
    <3>2. Len(toMain) \in Nat \ {0} /\ Len(toMain') = Len(toMain) - 1
      BY <3>1, InvTypes, TailFacts
    <3>3. Len(toWorklet') \in {Len(toWorklet), Len(toWorklet) + 1}
      <4>1. CASE UNCHANGED toWorklet
        BY <4>1
      <4>2. ASSUME NEW m, toWorklet' = Append(toWorklet, m) PROVE Len(toWorklet') = Len(toWorklet) + 1
        BY <4>2, InvTypes
      <4> QED  BY <2>2, <4>1, <4>2 DEF OnMessage, Consumed
    <3> QED  BY <3>2, <3>3, InvTypes DEF Pending
  <2>3. CASE ParseMessage
    <3>1. toWorklet # <<>> /\ toWorklet' = Tail(toWorklet) /\ UNCHANGED toMain
      BY <2>3 DEF ParseMessage
    <3>2. Len(toWorklet) \in Nat \ {0} /\ Len(toWorklet') = Len(toWorklet) - 1
      BY <3>1, InvTypes, TailFacts
    <3> QED  BY <3>1, <3>2, InvTypes DEF Pending
  <2>4. ASSUME NEW n \in Chunk, Process(n) PROVE heard' > heard
    <3>1. n \in Nat \ {0} /\ heard' = heard + n
      BY <2>4 DEF Process
    <3> QED  BY <3>1, InvTypes
  <2> QED  BY <2>1, <2>2, <2>3, <2>4 DEF Next
<1> QED  BY <1>1, <1>2, Invariance, PTL DEF Spec, SoundIsDriven
=============================================================================
