------------------------ MODULE SessionStream_proofs ------------------------
(***************************************************************************)
(* SessionStream delivers what EventDelivery promises, for every buffer    *)
(* limit, channel capacity and number of events.  NoSilentGap is not       *)
(* inductive: that the client will see the right things depends on what is *)
(* in flight (WireInOrder), on a live session having sent everything       *)
(* (LiveSent), on a replaying one holding the rest (ReplaySent), and on    *)
(* the buffer having no hole that missed_since could overlook              *)
(* (BufferIsSuffix, BufferKept).                                           *)
(***************************************************************************)
EXTENDS SessionStream, TLAPS

\* Where the counters stand.
Counters ==
  /\ lost \subseteq 2..seq /\ last <= seq
  /\ cursor <= published /\ mine \subseteq 1..published /\ lagged \subseteq 1..cursor
  /\ at >= 1
  /\ ~open => wire = <<>>
  /\ phase \in {"greeting", "subscribing"} => seq = 1 /\ buffer = <<>> /\ stamped = {}
  /\ phase = "greeting" => wire = <<>> /\ last = 0
  /\ phase \in {"live", "parked", "replaying"} => seq >= 1 /\ start <= cursor

\* What the buffer holds was sent or collected, never lost.
BufferKept == \A i \in 1..Len(buffer) : buffer[i] \in (2..seq) \ lost

Carries(i, n) == wire[i].kind # "resumed" /\ wire[i].seq = n

\* Frames in flight: ahead of the client, in order, and none missing before any.
WireInOrder ==
  /\ \A i \in 1..Len(wire) :
       /\ wire[i].seq \in 1..seq
       /\ wire[i].kind # "resumed" => wire[i].seq > last /\ wire[i].seq \notin lost
       /\ wire[i].kind = "resumed" => wire[i].seq >= last
  /\ \A i, j \in 1..Len(wire) : i < j =>
       /\ wire[j].kind # "resumed" => wire[i].seq < wire[j].seq
       /\ wire[j].kind = "resumed" => wire[i].seq <= wire[j].seq
  /\ \A i \in 1..Len(wire), n \in Nat :
       last < n /\ n <= wire[i].seq /\ n \notin lost =>
         \E k \in 1..i : Carries(k, n)

\* A live session on an open socket has sent all there is to see.
LiveSent ==
  phase \in {"subscribing", "live"} /\ open =>
    \A n \in Nat : last < n /\ n <= seq /\ n \notin lost =>
      \E k \in 1..Len(wire) : Carries(k, n)

\* A resume has sent, or still holds, all there is to see; what it still has to
\* send is ahead of what it has sent.
ReplaySent ==
  phase = "replaying" /\ open =>
    /\ after <= last
    /\ \A n \in Nat : last < n /\ n <= seq /\ n \notin lost =>
         \/ \E k \in 1..Len(wire) : Carries(k, n)
         \/ \E j \in at..Len(buffer) : buffer[j] = n
    /\ \A j \in at..Len(buffer) : buffer[j] > after =>
         buffer[j] > last /\ \A i \in 1..Len(wire) : wire[i].seq < buffer[j]

IInv == /\ TypeOK /\ Counters /\ BufferIsSuffix /\ BufferKept /\ WireInOrder
        /\ LiveSent /\ ReplaySent /\ NoSilentGap /\ EachEventStamped

----------------------------------------------------------------------------
(* Sequences.                                                              *)

\* What Append leaves where it was.
LEMMA AppendProperties ==
  ASSUME NEW S, NEW s \in Seq(S), NEW x \in S
  PROVE  /\ Append(s, x) \in Seq(S)
         /\ Len(Append(s, x)) = Len(s) + 1
         /\ \A i \in 1..Len(s) : Append(s, x)[i] = s[i]
         /\ Append(s, x)[Len(s) + 1] = x
OBVIOUS

\* What Tail moves where.
LEMMA TailProperties ==
  ASSUME NEW S, NEW s \in Seq(S), s # <<>>
  PROVE  /\ Head(s) = s[1] /\ Head(s) \in S
         /\ Tail(s) \in Seq(S)
         /\ Len(s) \in Nat \ {0}
         /\ Len(Tail(s)) = Len(s) - 1
         /\ \A i \in 1..Len(Tail(s)) : Tail(s)[i] = s[i + 1]
OBVIOUS

\* resume.rs push: the new seq last, the others shifted by one exactly when the
\* buffer was full.
LEMMA PushProperties ==
  ASSUME NEW b \in Seq(Nat), NEW n \in Nat, Len(b) <= Limit
  PROVE  /\ Push(b, n) \in Seq(Nat)
         /\ \E k \in 0..1 :
              /\ k = 1 <=> Len(b) = Limit
              /\ Len(Push(b, n)) = Len(b) + 1 - k
              /\ Push(b, n)[Len(b) + 1 - k] = n
              /\ \A i \in 1..(Len(b) - k) : Push(b, n)[i] = b[i + k]
<1> DEFINE grown == Append(b, n)
<1>1. /\ grown \in Seq(Nat) /\ Len(grown) = Len(b) + 1 /\ grown[Len(b) + 1] = n
      /\ \A i \in 1..Len(b) : grown[i] = b[i]
  BY AppendProperties
<1>2. Len(b) \in Nat
  OBVIOUS
<1> HIDE DEF grown
<1>3. CASE Len(b) = Limit
  <2>1. Push(b, n) = Tail(grown)
    BY <1>1, <1>3, LimitAssumption DEF Push, grown
  <2>2. grown # <<>>
    BY <1>1, <1>2
  <2>3. /\ Tail(grown) \in Seq(Nat) /\ Len(Tail(grown)) = Limit
        /\ \A i \in 1..Limit : Tail(grown)[i] = grown[i + 1]
    BY <1>1, <1>3, <2>2, TailProperties, LimitAssumption
  <2>4. \A i \in 1..(Len(b) - 1) : grown[i + 1] = b[i + 1]
    BY <1>1, <1>2
  <2> QED BY <1>1, <1>3, <2>1, <2>3, <2>4, LimitAssumption
<1>4. CASE Len(b) < Limit
  <2>1. Push(b, n) = grown
    BY <1>1, <1>2, <1>4, LimitAssumption DEF Push, grown
  <2> QED BY <1>1, <1>2, <1>4, <2>1, LimitAssumption
<1> QED BY <1>2, <1>3, <1>4, LimitAssumption

----------------------------------------------------------------------------
(* Reading the channel.                                                    *)

\* The next event of the channel is numbered or skipped: the account of which
\* events have a seq extends to the new cursor.
LEMMA ReadEvents ==
  ASSUME TypeOK, Counters, EachEventStamped,
         cursor < published, cursor' = cursor + 1,
         UNCHANGED <<mine, start, lagged>>,
         phase \in {"live", "parked", "replaying"},
         stamped' = IF cursor + 1 \in mine THEN stamped \cup {cursor + 1} ELSE stamped,
         start <= cursor
  PROVE  EachEventStamped'
<1>1. stamped = {e \in mine : start < e /\ e <= cursor} \ lagged
  BY DEF EachEventStamped
<1>2. cursor + 1 \notin lagged /\ start < cursor + 1
  BY DEF Counters, TypeOK
<1>3. mine \subseteq Nat /\ cursor \in Nat /\ start \in Nat
  BY DEF TypeOK
<1>4. ASSUME NEW e
      PROVE  e \in stamped' <=>
               e \in {d \in mine : start < d /\ d <= cursor + 1} \ lagged
  <2>1. CASE e = cursor + 1
    BY <1>1, <1>2, <1>3, <2>1
  <2>2. CASE e # cursor + 1
    <3>1. e \in stamped' <=> e \in stamped
      BY <2>2
    <3>2. e \in mine => (e <= cursor <=> e <= cursor + 1)
      BY <1>3, <2>2
    <3> QED BY <1>1, <3>1, <3>2
  <2> QED BY <2>1, <2>2
<1>5. stamped' = {d \in mine : start < d /\ d <= cursor + 1} \ lagged
  BY <1>4
<1> QED BY <1>5 DEF EachEventStamped

\* What is retained: seqs numbered and not lost, in order, and all of those up
\* to top that a full buffer has not evicted.
Suffix(b, top, gone) ==
  /\ \A i \in 1..Len(b) : b[i] \in (2..top) \ gone
  /\ \A i, j \in 1..Len(b) : i < j => b[i] < b[j]
  /\ \A n \in (2..top) \ gone :
       \/ Len(b) = Limit /\ n < b[1]
       \/ \E i \in 1..Len(b) : b[i] = n

\* A buffer with room takes the next number.
LEMMA Extended ==
  ASSUME NEW b \in Seq(Nat), NEW c \in Seq(Nat), NEW top \in Nat, top >= 1,
         NEW gone, gone \subseteq 2..top, Suffix(b, top, gone),
         Len(b) < Limit, Len(c) = Len(b) + 1, c[Len(b) + 1] = top + 1,
         \A i \in 1..Len(b) : c[i] = b[i]
  PROVE  Suffix(c, top + 1, gone)
<1> DEFINE l == Len(b)
<1>1. l \in Nat /\ Len(c) = l + 1 /\ c[l + 1] = top + 1
  OBVIOUS
<1>2. \A i \in 1..(l + 1) : i = l + 1 \/ i \in 1..l
  BY <1>1
<1>3. \A i \in 1..l : c[i] = b[i] /\ c[i] \in 2..top /\ c[i] \notin gone
  BY DEF Suffix
<1>4. \A i, j \in 1..l : i < j => c[i] < c[j]
  BY <1>3 DEF Suffix
<1>5. top + 1 \in 2..(top + 1) /\ top + 1 \notin gone /\ 2..top \subseteq 2..(top + 1)
  BY <1>1
<1> HIDE DEF l
<1>6. ASSUME NEW i \in 1..(l + 1)
      PROVE  c[i] \in (2..(top + 1)) \ gone
  BY <1>1, <1>2, <1>3, <1>5
<1>7. ASSUME NEW i \in 1..(l + 1), NEW j \in 1..(l + 1), i < j
      PROVE  c[i] < c[j]
  <2>1. i \in 1..l
    BY <1>1, <1>7
  <2>2. CASE j = l + 1
    <3>1. c[j] = top + 1
      BY <1>1, <2>2
    <3>2. c[i] \in 2..top
      BY <1>3, <2>1
    <3> QED BY <3>1, <3>2
  <2>3. CASE j \in 1..l
    BY <1>4, <1>7, <2>1, <2>3
  <2> QED BY <1>2, <2>2, <2>3
<1>8. ASSUME NEW n \in (2..(top + 1)) \ gone
      PROVE  \E i \in 1..(l + 1) : c[i] = n
  <2>1. CASE n = top + 1
    BY <1>1, <2>1
  <2>2. CASE n # top + 1
    <3>1. n \in (2..top) \ gone
      BY <1>8, <2>2
    <3>2. PICK i \in 1..l : b[i] = n
      BY <3>1, LimitAssumption DEF Suffix, l
    <3> QED BY <1>1, <1>3, <3>2
  <2> QED BY <2>1, <2>2
<1> QED BY <1>1, <1>6, <1>7, <1>8 DEF Suffix

\* A full buffer evicts its oldest entry to take the next number.
LEMMA Shifted ==
  ASSUME NEW b \in Seq(Nat), NEW c \in Seq(Nat), NEW top \in Nat, top >= 1,
         NEW gone, gone \subseteq 2..top, Suffix(b, top, gone),
         Len(b) = Limit, Len(c) = Limit, c[Limit] = top + 1,
         \A i \in 1..(Limit - 1) : c[i] = b[i + 1]
  PROVE  Suffix(c, top + 1, gone)
<1>1. Limit \in Nat /\ Limit >= 1
  BY LimitAssumption
<1>2. \A i \in 1..Limit : i = Limit \/ i \in 1..(Limit - 1)
  BY <1>1
<1>3. \A i \in 1..(Limit - 1) : i + 1 \in 1..Limit
  BY <1>1
<1>4. \A i \in 1..Limit : b[i] \in 2..top /\ b[i] \notin gone
  BY DEF Suffix
<1>5. \A i \in 1..(Limit - 1) : c[i] \in 2..top /\ c[i] \notin gone
  BY <1>3, <1>4
<1>6. \A i, j \in 1..(Limit - 1) : i < j => i + 1 < j + 1
  BY <1>1
<1>7. \A i, j \in 1..Limit : i < j => b[i] < b[j]
  BY DEF Suffix
<1>8. \A i, j \in 1..(Limit - 1) : i < j => c[i] < c[j]
  BY <1>3, <1>6, <1>7
<1>9. top + 1 \in 2..(top + 1) /\ top + 1 \notin gone /\ 2..top \subseteq 2..(top + 1)
  OBVIOUS
<1>10. ASSUME NEW i \in 1..Limit
       PROVE  c[i] \in (2..(top + 1)) \ gone
  BY <1>2, <1>5, <1>9
<1>11. ASSUME NEW i \in 1..Limit, NEW j \in 1..Limit, i < j
       PROVE  c[i] < c[j]
  <2>1. i \in 1..(Limit - 1)
    BY <1>1, <1>11
  <2>2. CASE j = Limit
    BY <1>5, <2>1, <2>2
  <2>3. CASE j \in 1..(Limit - 1)
    BY <1>8, <1>11, <2>1, <2>3
  <2> QED BY <1>2, <2>2, <2>3
<1>12. ASSUME NEW n \in (2..(top + 1)) \ gone
       PROVE  n < c[1] \/ \E i \in 1..Limit : c[i] = n
  <2>1. CASE n = top + 1
    BY <1>1, <2>1
  <2>2. CASE n # top + 1
    <3>1. n \in (2..top) \ gone
      BY <1>12, <2>2
    <3>2. b[1] < c[1]
      <4>1. CASE Limit = 1
        BY <1>4, <4>1
      <4>2. CASE Limit # 1
        <5>1. c[1] = b[2] /\ 1 \in 1..Limit /\ 2 \in 1..Limit
          BY <1>1, <4>2
        <5> QED BY <1>7, <5>1
      <4> QED BY <4>1, <4>2
    <3>3. b[1] \in Nat /\ c[1] \in Nat /\ n \in Nat
      BY <1>1, <1>4, <1>10, <3>1
    <3>4. CASE n < b[1]
      BY <3>2, <3>3, <3>4
    <3>5. CASE \E i \in 1..Limit : b[i] = n
      <4>1. PICK i \in 1..Limit : b[i] = n
        BY <3>5
      <4>2. CASE i = 1
        BY <3>2, <4>1, <4>2
      <4>3. CASE i # 1
        <5> DEFINE j == i - 1
        <5>1. j \in 1..(Limit - 1) /\ j + 1 = i
          BY <1>1, <4>1, <4>3
        <5>2. c[j] = b[i]
          BY <5>1
        <5> QED BY <1>1, <4>1, <5>1, <5>2
      <4> QED BY <4>2, <4>3
    <3> QED BY <3>1, <3>4, <3>5 DEF Suffix
  <2> QED BY <2>1, <2>2
<1> QED BY <1>1, <1>10, <1>11, <1>12 DEF Suffix

\* Retaining the next seq keeps the buffer a suffix of what was numbered.
LEMMA RetainNext ==
  ASSUME TypeOK, Counters, BufferIsSuffix, BufferKept,
         seq' = seq + 1, lost' = lost, buffer' = Push(buffer, seq + 1), seq >= 1
  PROVE  buffer' \in Seq(Nat) /\ BufferIsSuffix' /\ BufferKept'
<1> DEFINE c == Push(buffer, seq + 1)
<1>1. /\ buffer \in Seq(Nat) /\ Len(buffer) \in Nat /\ Len(buffer) <= Limit
      /\ seq \in Nat /\ seq + 1 \in Nat /\ lost \subseteq 2..seq
  BY DEF TypeOK, BufferIsSuffix, Counters
<1>2. Suffix(buffer, seq, lost)
  BY <1>1 DEF Suffix, BufferIsSuffix, BufferKept
<1>3. c \in Seq(Nat)
  BY <1>1, PushProperties
<1>4. PICK k \in 0..1 :
        /\ k = 1 <=> Len(buffer) = Limit
        /\ Len(c) = Len(buffer) + 1 - k
        /\ c[Len(buffer) + 1 - k] = seq + 1
        /\ \A i \in 1..(Len(buffer) - k) : c[i] = buffer[i + k]
  BY <1>1, PushProperties
<1> HIDE DEF c
<1>5. Suffix(c, seq + 1, lost)
  <2>1. CASE k = 1
    <3>1. Len(buffer) = Limit /\ Limit \in Nat
      BY <1>4, <2>1, LimitAssumption
    <3>2. /\ Len(c) = Limit /\ c[Limit] = seq + 1
          /\ \A i \in 1..(Limit - 1) : c[i] = buffer[i + 1]
      BY <1>4, <2>1, <3>1
    <3> QED BY <1>1, <1>2, <1>3, <3>1, <3>2, Shifted
  <2>2. CASE k = 0
    <3>1. Len(buffer) < Limit
      BY <1>1, <1>4, <2>2, LimitAssumption
    <3>2. /\ Len(c) = Len(buffer) + 1 /\ c[Len(buffer) + 1] = seq + 1
          /\ \A i \in 1..Len(buffer) : c[i] = buffer[i]
      BY <1>1, <1>4, <2>2
    <3> QED BY <1>1, <1>2, <1>3, <3>1, <3>2, Extended
  <2> QED BY <2>1, <2>2
<1>6. Len(c) <= Limit /\ Len(c) \in Nat
  BY <1>1, <1>4, LimitAssumption
<1>7. buffer' = c
  BY DEF c
<1>8. ASSUME NEW n \in 2..(seq + 1), n \notin lost
      PROVE  \/ Len(c) = Limit /\ n < c[1]
             \/ \E i \in 1..Len(c) : c[i] = n
  <2>1. n \in (2..(seq + 1)) \ lost
    BY <1>8
  <2> QED BY <1>5, <2>1 DEF Suffix
<1>9. \A i \in 1..Len(c) : c[i] \in (2..(seq + 1)) \ lost
  BY <1>5 DEF Suffix
<1>10. \A i, j \in 1..Len(c) : i < j => c[i] < c[j]
  BY <1>5 DEF Suffix
<1> QED BY <1>3, <1>6, <1>7, <1>8, <1>9, <1>10 DEF BufferIsSuffix, BufferKept

----------------------------------------------------------------------------
(* Frames in flight.                                                       *)

\* A frame that carries on where the wire left off keeps it in order, and what
\* the wire and the frame cover is then in flight.
LEMMA SendFrame ==
  ASSUME TypeOK, WireInOrder, NEW f \in Frame,
         wire' = Append(wire, f), last' = last, lost' = lost,
         seq' \in Nat, seq <= seq', f.seq \in 1..seq',
         f.kind # "resumed" =>
           /\ f.seq > last /\ f.seq \notin lost
           /\ \A i \in 1..Len(wire) : wire[i].seq < f.seq,
         f.kind = "resumed" =>
           /\ f.seq >= last
           /\ \A i \in 1..Len(wire) : wire[i].seq <= f.seq,
         \A n \in Nat : last < n /\ n <= f.seq /\ n \notin lost =>
           \/ \E k \in 1..Len(wire) : Carries(k, n)
           \/ f.kind # "resumed" /\ f.seq = n
  PROVE  /\ wire' \in Seq(Frame)
         /\ WireInOrder'
         /\ Len(wire') = Len(wire) + 1
         /\ \A i \in 1..Len(wire) : wire'[i] = wire[i]
         /\ wire'[Len(wire) + 1] = f
<1> DEFINE l == Len(wire)
<1>1. /\ l \in Nat /\ wire' \in Seq(Frame) /\ Len(wire') = l + 1
      /\ \A i \in 1..l : wire'[i] = wire[i]
      /\ wire'[l + 1] = f
  BY AppendProperties DEF TypeOK
<1>2. /\ \A i \in 1..(l + 1) : i \in 1..l \/ i = l + 1
      /\ \A i \in 1..l : i \in 1..(l + 1)
  BY <1>1
<1>3. /\ seq \in Nat /\ last \in Nat
      /\ \A i \in 1..l : wire[i] \in Frame /\ wire[i].seq \in Nat
  <2>1. seq \in Nat /\ last \in Nat /\ wire \in Seq(Frame)
    BY DEF TypeOK
  <2>2. \A i \in 1..l : wire[i] \in Frame
    BY <2>1
  <2> QED BY <2>1, <2>2 DEF Frame
<1> HIDE DEF l
<1>4. ASSUME NEW i \in 1..(l + 1)
      PROVE  /\ wire'[i].seq \in 1..seq'
             /\ wire'[i].kind # "resumed" => wire'[i].seq > last /\ wire'[i].seq \notin lost
             /\ wire'[i].kind = "resumed" => wire'[i].seq >= last
  <2>1. CASE i = l + 1
    BY <1>1, <2>1
  <2>2. CASE i \in 1..l
    <3>1. wire'[i] = wire[i]
      BY <1>1, <2>2
    <3>2. /\ wire[i].seq \in 1..seq
          /\ wire[i].kind # "resumed" => wire[i].seq > last /\ wire[i].seq \notin lost
          /\ wire[i].kind = "resumed" => wire[i].seq >= last
      BY <2>2 DEF WireInOrder, l
    <3> QED BY <1>3, <3>1, <3>2
  <2> QED BY <1>2, <2>1, <2>2
<1>5. ASSUME NEW i \in 1..(l + 1), NEW j \in 1..(l + 1), i < j
      PROVE  /\ wire'[j].kind # "resumed" => wire'[i].seq < wire'[j].seq
             /\ wire'[j].kind = "resumed" => wire'[i].seq <= wire'[j].seq
  <2>1. i \in 1..l /\ wire'[i] = wire[i]
    BY <1>1, <1>5
  <2>2. CASE j = l + 1
    BY <1>1, <2>1, <2>2 DEF l
  <2>3. CASE j \in 1..l
    <3>1. wire'[j] = wire[j]
      BY <1>1, <2>3
    <3> QED BY <1>5, <2>1, <2>3, <3>1 DEF WireInOrder, l
  <2> QED BY <1>2, <2>2, <2>3
<1>6. ASSUME NEW i \in 1..(l + 1), NEW n \in Nat,
             last < n, n <= wire'[i].seq, n \notin lost
      PROVE  \E k \in 1..i : wire'[k].kind # "resumed" /\ wire'[k].seq = n
  <2>1. CASE i = l + 1
    <3>1. CASE \E k \in 1..l : Carries(k, n)
      <4>1. PICK k \in 1..l : Carries(k, n)
        BY <3>1
      <4>2. wire'[k] = wire[k] /\ k \in 1..i
        BY <1>1, <1>2, <2>1, <4>1
      <4> QED BY <4>1, <4>2 DEF Carries
    <3>2. CASE f.kind # "resumed" /\ f.seq = n
      BY <1>1, <2>1, <3>2
    <3> QED BY <1>1, <1>6, <2>1, <3>1, <3>2 DEF l
  <2>2. CASE i \in 1..l
    <3>1. wire'[i] = wire[i]
      BY <1>1, <2>2
    <3>2. PICK k \in 1..i : Carries(k, n)
      BY <1>6, <2>2, <3>1 DEF WireInOrder, l
    <3>3. k \in 1..l
      BY <1>1, <2>2, <3>2
    <3>4. wire'[k] = wire[k]
      BY <1>1, <3>3
    <3> QED BY <3>2, <3>4 DEF Carries
  <2> QED BY <1>2, <2>1, <2>2
<1> QED BY <1>1, <1>4, <1>5, <1>6 DEF WireInOrder, Carries, l

\* The frame at the head of the wire is the client's next: whatever lies between
\* was lost.
LEMMA HeadIsNext ==
  ASSUME TypeOK, Counters, WireInOrder, wire # <<>>
  PROVE  /\ wire[1] \in Frame /\ wire[1].seq \in 1..seq /\ wire[1].seq >= last
         /\ wire[1].kind # "resumed" => wire[1].seq > last /\ wire[1].seq \notin lost
         /\ \A n \in Nat : last < n /\ n <= wire[1].seq /\ n \notin lost =>
              wire[1].kind # "resumed" /\ wire[1].seq = n
<1>1. wire \in Seq(Frame) /\ Len(wire) \in Nat \ {0} /\ last \in Nat /\ seq \in Nat
  BY TailProperties DEF TypeOK
<1>2. 1 \in 1..Len(wire)
  BY <1>1
<1>3. wire[1] \in Frame
  BY <1>1, <1>2
<1>4. /\ wire[1].seq \in 1..seq
      /\ wire[1].kind # "resumed" => wire[1].seq > last /\ wire[1].seq \notin lost
      /\ wire[1].kind = "resumed" => wire[1].seq >= last
  BY <1>2 DEF WireInOrder
<1>5. ASSUME NEW n \in Nat, last < n, n <= wire[1].seq, n \notin lost
      PROVE  wire[1].kind # "resumed" /\ wire[1].seq = n
  <2>1. PICK k \in 1..1 : Carries(k, n)
    BY <1>2, <1>5 DEF WireInOrder
  <2>2. k = 1
    OBVIOUS
  <2> QED BY <2>1, <2>2 DEF Carries
<1> QED BY <1>1, <1>3, <1>4, <1>5

\* The client takes the next frame: what is left is in order behind it, and
\* nothing it still has to see is gone.
LEMMA ReceiveFrame ==
  ASSUME IInv, Receive
  PROVE  TypeOK' /\ Counters' /\ WireInOrder' /\ LiveSent' /\ ReplaySent' /\ NoSilentGap'
<1> DEFINE l == Len(wire)
           s == wire[1].seq
<1>1. TypeOK /\ Counters /\ WireInOrder /\ LiveSent /\ ReplaySent /\ NoSilentGap
  BY DEF IInv
<1>2. /\ open /\ wire # <<>> /\ wire' = Tail(wire) /\ last' = s
      /\ got' = IF wire[1].kind = "resumed" THEN got ELSE got \cup {s}
      /\ pending' = (pending /\ Head(wire).kind = "event")
      /\ UNCHANGED <<published, mine, phase, seq, buffer, cursor, stamped, lagged,
                     lost, start, after, at, open>>
  BY <1>1, TailProperties DEF Receive, stream, session, TypeOK
<1>3. /\ wire[1] \in Frame /\ s \in 1..seq /\ s >= last
      /\ wire[1].kind # "resumed" => s > last /\ s \notin lost
      /\ \A n \in Nat : last < n /\ n <= s /\ n \notin lost =>
           wire[1].kind # "resumed" /\ s = n
  BY <1>1, <1>2, HeadIsNext
<1>4. /\ wire' \in Seq(Frame) /\ l \in Nat \ {0} /\ Len(wire') = l - 1
      /\ \A i \in 1..(l - 1) : wire'[i] = wire[i + 1]
  BY <1>1, <1>2, TailProperties DEF TypeOK
<1>5. \A i \in 1..(l - 1) : i + 1 \in 1..l /\ 1 < i + 1
  BY <1>4
<1>6. seq \in Nat /\ last \in Nat /\ got \subseteq Nat /\ s \in Nat /\ 1 \in 1..l
  BY <1>1, <1>3, <1>4 DEF TypeOK
<1>7. \A i \in 1..l : wire[i] \in Frame /\ wire[i].seq \in Nat
  <2>1. \A i \in 1..l : wire[i] \in Frame
    BY <1>1 DEF TypeOK
  <2> QED BY <2>1 DEF Frame
<1> HIDE DEF l, s
<1>8. TypeOK'
  <2>1. pending' \in BOOLEAN
    BY <1>1, <1>2 DEF TypeOK
  <2> QED BY <1>1, <1>2, <1>4, <1>6, <2>1 DEF TypeOK
<1>9. Counters'
  <2>1. phase \notin {"greeting"}
    BY <1>1, <1>2 DEF Counters
  <2> QED BY <1>1, <1>2, <1>3, <2>1 DEF Counters
<1>10. NoSilentGap'
  <2>1. got = (1..last) \ lost
    BY <1>1 DEF NoSilentGap
  <2>2. CASE wire[1].kind = "resumed"
    <3>1. \A n \in Nat : last < n /\ n <= s => n \in lost
      BY <1>3, <2>2
    <3>2. (1..s) \ lost = (1..last) \ lost
      BY <1>3, <1>6, <3>1
    <3> QED BY <1>2, <2>1, <2>2, <3>2 DEF NoSilentGap
  <2>3. CASE wire[1].kind # "resumed"
    <3>1. \A n \in Nat : last < n /\ n < s => n \in lost
      BY <1>3, <1>6
    <3>2. (1..s) \ lost = ((1..last) \ lost) \cup {s}
      BY <1>3, <1>6, <2>3, <3>1
    <3> QED BY <1>2, <2>1, <2>3, <3>2 DEF NoSilentGap
  <2> QED BY <2>2, <2>3
<1>11. ASSUME NEW n \in Nat, s < n, NEW m \in 0..(l - 1),
              \E k \in 1..(m + 1) : Carries(k, n)
       PROVE  \E k \in 1..m : wire'[k].kind # "resumed" /\ wire'[k].seq = n
  <2>1. PICK k \in 1..(m + 1) : Carries(k, n)
    BY <1>11
  <2>2. k # 1
    BY <1>6, <1>11, <2>1 DEF Carries, s
  <2> DEFINE j == k - 1
  <2>3. j \in 1..m /\ j \in 1..(l - 1) /\ j + 1 = k
    BY <1>4, <2>1, <2>2
  <2>4. wire'[j] = wire[k]
    BY <1>4, <2>3
  <2> QED BY <2>1, <2>3, <2>4 DEF Carries
<1>12. WireInOrder'
  <2>1. ASSUME NEW i \in 1..(l - 1)
        PROVE  /\ wire'[i].seq \in 1..seq
               /\ wire'[i].kind # "resumed" => wire'[i].seq > s /\ wire'[i].seq \notin lost
               /\ wire'[i].kind = "resumed" => wire'[i].seq >= s
    <3>1. wire'[i] = wire[i + 1] /\ i + 1 \in 1..l /\ 1 < i + 1
      BY <1>4, <1>5, <2>1
    <3>2. /\ wire[i + 1].seq \in 1..seq
          /\ wire[i + 1].kind # "resumed" => wire[i + 1].seq \notin lost
          /\ wire[i + 1].kind # "resumed" => wire[1].seq < wire[i + 1].seq
          /\ wire[i + 1].kind = "resumed" => wire[1].seq <= wire[i + 1].seq
      BY <1>1, <1>6, <3>1 DEF WireInOrder, l
    <3> QED BY <1>6, <3>1, <3>2 DEF s
  <2>2. ASSUME NEW i \in 1..(l - 1), NEW j \in 1..(l - 1), i < j
        PROVE  /\ wire'[j].kind # "resumed" => wire'[i].seq < wire'[j].seq
               /\ wire'[j].kind = "resumed" => wire'[i].seq <= wire'[j].seq
    <3>1. /\ wire'[i] = wire[i + 1] /\ wire'[j] = wire[j + 1]
          /\ i + 1 \in 1..l /\ j + 1 \in 1..l /\ i + 1 < j + 1
      BY <1>4, <1>5, <2>2
    <3> QED BY <1>1, <3>1 DEF WireInOrder, l
  <2>3. ASSUME NEW i \in 1..(l - 1), NEW n \in Nat,
               s < n, n <= wire'[i].seq, n \notin lost
        PROVE  \E k \in 1..i : wire'[k].kind # "resumed" /\ wire'[k].seq = n
    <3>1. wire'[i] = wire[i + 1] /\ i + 1 \in 1..l /\ i \in 0..(l - 1)
      BY <1>4, <1>5, <2>3
    <3>2. last < n
      BY <1>3, <1>6, <2>3
    <3>3. \E k \in 1..(i + 1) : Carries(k, n)
      BY <1>1, <2>3, <3>1, <3>2 DEF WireInOrder, l
    <3> QED BY <1>11, <2>3, <3>1, <3>3
  <2> QED BY <1>2, <1>4, <2>1, <2>2, <2>3 DEF WireInOrder, Carries
<1>13. \A n \in Nat : s < n => last < n
  BY <1>3, <1>6
<1>14. \A n \in Nat : s < n /\ (\E k \in 1..l : Carries(k, n)) =>
         \E k \in 1..(l - 1) : wire'[k].kind # "resumed" /\ wire'[k].seq = n
  <2>1. l - 1 \in 0..(l - 1) /\ (l - 1) + 1 = l
    BY <1>4
  <2> QED BY <1>11, <2>1
<1>15. LiveSent'
  <2> SUFFICES ASSUME phase \in {"subscribing", "live"},
                      NEW n \in Nat, s < n, n <= seq, n \notin lost
               PROVE  \E k \in 1..(l - 1) : wire'[k].kind # "resumed" /\ wire'[k].seq = n
    BY <1>2, <1>4 DEF LiveSent, Carries
  <2>1. \E k \in 1..l : Carries(k, n)
    BY <1>1, <1>2, <1>13 DEF LiveSent, l
  <2> QED BY <1>14, <2>1
<1>16. ReplaySent'
  <2> SUFFICES ASSUME phase = "replaying"
               PROVE  /\ after <= s
                      /\ \A n \in Nat : s < n /\ n <= seq /\ n \notin lost =>
                           \/ \E k \in 1..(l - 1) :
                                wire'[k].kind # "resumed" /\ wire'[k].seq = n
                           \/ \E j \in at..Len(buffer) : buffer[j] = n
                      /\ \A j \in at..Len(buffer) : buffer[j] > after =>
                           buffer[j] > s /\ \A i \in 1..(l - 1) : wire'[i].seq < buffer[j]
    BY <1>2, <1>4 DEF ReplaySent, Carries
  <2>1. /\ after <= last
        /\ \A n \in Nat : last < n /\ n <= seq /\ n \notin lost =>
             \/ \E k \in 1..l : Carries(k, n)
             \/ \E j \in at..Len(buffer) : buffer[j] = n
        /\ \A j \in at..Len(buffer) : buffer[j] > after =>
             buffer[j] > last /\ \A i \in 1..l : wire[i].seq < buffer[j]
    BY <1>1, <1>2 DEF ReplaySent, l
  <2>2. after <= s
    BY <1>1, <1>3, <1>6, <2>1 DEF TypeOK
  <2>3. ASSUME NEW n \in Nat, s < n, n <= seq, n \notin lost
        PROVE  \/ \E k \in 1..(l - 1) : wire'[k].kind # "resumed" /\ wire'[k].seq = n
               \/ \E j \in at..Len(buffer) : buffer[j] = n
    BY <1>13, <1>14, <2>1, <2>3
  <2>4. ASSUME NEW j \in at..Len(buffer), buffer[j] > after
        PROVE  buffer[j] > s /\ \A i \in 1..(l - 1) : wire'[i].seq < buffer[j]
    <3>1. \A i \in 1..l : wire[i].seq < buffer[j]
      BY <2>1, <2>4
    <3>2. wire[1].seq < buffer[j]
      BY <1>6, <3>1
    <3>3. j \in 1..Len(buffer)
      BY <1>1 DEF Counters, TypeOK
    <3>4. buffer[j] \in Nat
      BY <1>1, <3>3 DEF TypeOK
    <3>5. buffer[j] > s
      BY <1>6, <3>2, <3>4 DEF s
    <3> QED BY <1>4, <1>5, <3>1, <3>5
  <2> QED BY <2>2, <2>3, <2>4
<1> QED BY <1>8, <1>9, <1>10, <1>12, <1>15, <1>16

----------------------------------------------------------------------------
(* Each step keeps the invariant.                                          *)

\* Any part of the server publishes an event.
LEMMA PublishStep == IInv /\ Publish => IInv'
<1> SUFFICES ASSUME IInv, Publish PROVE IInv'
  OBVIOUS
<1> USE DEF IInv, Publish, stream, session, socket
<1>1. TypeOK'
  BY BoundAssumption DEF TypeOK
<1>2. Counters'
  BY DEF Counters, TypeOK
<1>3. BufferIsSuffix' /\ BufferKept'
  BY DEF BufferIsSuffix, BufferKept
<1>4. WireInOrder' /\ LiveSent' /\ ReplaySent'
  BY DEF WireInOrder, LiveSent, ReplaySent, Carries
<1>5. NoSilentGap'
  BY DEF NoSilentGap
<1>6. EachEventStamped'
  <2>1. \A e \in mine' : e <= cursor => e \in mine
    BY DEF Counters, TypeOK
  <2> QED BY <2>1 DEF EachEventStamped
<1> QED BY <1>1, <1>2, <1>3, <1>4, <1>5, <1>6

\* The receiver is moved over events the channel no longer has: they are put
\* down as lagged, and the account of the rest stands.
LEMMA SkipLaggedStep == IInv /\ SkipLagged => IInv'
<1> SUFFICES ASSUME IInv, SkipLagged PROVE IInv'
  OBVIOUS
<1>1. /\ TypeOK /\ Counters /\ EachEventStamped /\ phase \in {"live", "parked"}
      /\ cursor' = published - ChannelCap
      /\ lagged' = lagged \cup {e \in mine : cursor < e /\ e <= cursor'}
      /\ published - cursor > ChannelCap
      /\ UNCHANGED <<published, mine, phase, seq, buffer, stamped, lost, start,
                     after, at, wire, open, last, pending, got>>
  BY DEF IInv, SkipLagged, session, socket
<1>2. /\ published \in Nat /\ cursor \in Nat /\ ChannelCap \in Nat /\ start \in Nat
      /\ cursor' \in Nat /\ cursor < cursor' /\ cursor' <= published
  BY <1>1, LimitAssumption DEF TypeOK
<1>3. TypeOK'
  BY <1>1, <1>2 DEF TypeOK
<1>4. Counters'
  <2>1. lagged' \subseteq 1..cursor'
    <3>1. lagged \subseteq 1..cursor /\ mine \subseteq 1..published
      BY <1>1 DEF Counters
    <3>2. \A e \in lagged' : e \in 1..cursor'
      BY <1>1, <1>2, <3>1
    <3> QED BY <3>2
  <2>2. phase \in {"live", "parked", "replaying"} => start <= cursor'
    BY <1>1, <1>2 DEF Counters
  <2> QED BY <1>1, <1>2, <2>1, <2>2 DEF Counters
<1>5. BufferIsSuffix' /\ BufferKept'
  BY <1>1 DEF IInv, BufferIsSuffix, BufferKept
<1>6. WireInOrder' /\ LiveSent' /\ ReplaySent'
  BY <1>1 DEF IInv, WireInOrder, LiveSent, ReplaySent, Carries
<1>7. NoSilentGap'
  BY <1>1 DEF IInv, NoSilentGap
<1>8. EachEventStamped'
  <2>1. stamped = {e \in mine : start < e /\ e <= cursor} \ lagged
    BY <1>1 DEF EachEventStamped
  <2>2. ASSUME NEW e \in mine
        PROVE  start < e /\ e <= cursor /\ e \notin lagged <=>
                 start < e /\ e <= cursor' /\ e \notin lagged'
    <3>1. e \in Nat
      BY <1>1 DEF TypeOK
    <3> QED BY <1>1, <1>2, <3>1
  <2> QED BY <1>1, <2>1, <2>2 DEF EachEventStamped
<1> QED BY <1>3, <1>4, <1>5, <1>6, <1>7, <1>8 DEF IInv

\* An event for somebody else is read and dropped.
LEMMA SkipOthersStep == IInv /\ SkipOthers => IInv'
<1> SUFFICES ASSUME IInv, SkipOthers PROVE IInv'
  OBVIOUS
<1>1. /\ TypeOK /\ Counters /\ EachEventStamped /\ phase \in {"live", "parked"}
      /\ cursor < published /\ cursor + 1 \notin mine /\ cursor' = cursor + 1
      /\ UNCHANGED <<published, mine, phase, seq, buffer, stamped, lagged, lost,
                     start, after, at, wire, open, last, pending, got>>
  BY DEF IInv, SkipOthers, Readable, session, socket
<1>2. TypeOK'
  BY <1>1 DEF TypeOK
<1>3. Counters'
  BY <1>1 DEF Counters, TypeOK
<1>4. BufferIsSuffix' /\ BufferKept'
  BY <1>1 DEF IInv, BufferIsSuffix, BufferKept
<1>5. WireInOrder' /\ LiveSent' /\ ReplaySent'
  BY <1>1 DEF IInv, WireInOrder, LiveSent, ReplaySent, Carries
<1>6. NoSilentGap'
  BY <1>1 DEF IInv, NoSilentGap
<1>7. EachEventStamped'
  BY <1>1, ReadEvents DEF Counters
<1> QED BY <1>2, <1>3, <1>4, <1>5, <1>6, <1>7 DEF IInv

\* What Stamp does to the invariant, whatever becomes of the event: the account
\* extends to it.
LEMMA StampStep ==
  ASSUME IInv, Stamp, phase \in {"live", "parked"}, phase' \in {"live", "parked"}
  PROVE  /\ EachEventStamped' /\ seq \in Nat /\ seq' = seq + 1 /\ seq >= 1
         /\ cursor' \in Nat /\ cursor' <= published /\ start <= cursor'
         /\ lagged' \subseteq 1..cursor' /\ stamped' \subseteq Nat
         /\ UNCHANGED <<published, mine, lagged, start, after, at>>
<1>1. /\ TypeOK /\ Counters /\ EachEventStamped
      /\ cursor < published /\ cursor + 1 \in mine
      /\ cursor' = cursor + 1 /\ seq' = seq + 1 /\ stamped' = stamped \cup {cursor + 1}
      /\ UNCHANGED <<published, mine, lagged, start, after, at>>
  BY DEF IInv, Stamp, Readable, session
<1>2. start <= cursor /\ seq >= 1
  BY <1>1 DEF Counters
<1>3. cursor \in Nat /\ start \in Nat /\ seq \in Nat /\ published \in Nat
  BY <1>1 DEF TypeOK
<1>4. EachEventStamped'
  <2>1. stamped' = IF cursor + 1 \in mine THEN stamped \cup {cursor + 1} ELSE stamped
    BY <1>1
  <2> QED BY <1>1, <1>2, <2>1, ReadEvents
<1>5. lagged' \subseteq 1..cursor' /\ stamped' \subseteq Nat
  BY <1>1, <1>3 DEF Counters, TypeOK
<1> QED BY <1>1, <1>2, <1>3, <1>4, <1>5

\* A live session numbers an event, sends it behind what is in flight and
\* retains it.
LEMMA DeliverStep == IInv /\ Deliver => IInv'
<1> SUFFICES ASSUME IInv, Deliver PROVE IInv'
  OBVIOUS
<1> DEFINE f == [seq |-> seq + 1, kind |-> "event"]
<1>1. /\ TypeOK /\ Counters /\ BufferIsSuffix /\ BufferKept /\ WireInOrder /\ LiveSent
      /\ NoSilentGap
  BY DEF IInv
<1>2. /\ phase = "live" /\ phase' = "live"
      /\ wire' = (IF open THEN Append(wire, f) ELSE wire)
      /\ buffer' = Push(buffer, seq + 1)
      /\ UNCHANGED <<lost, open, last, pending, got>>
  BY DEF Deliver, Transmit
<1>3. /\ EachEventStamped' /\ seq \in Nat /\ seq' = seq + 1 /\ seq >= 1
      /\ cursor' \in Nat /\ cursor' <= published /\ start <= cursor'
      /\ lagged' \subseteq 1..cursor' /\ stamped' \subseteq Nat
      /\ UNCHANGED <<published, mine, lagged, start, after, at>>
  BY <1>2, StampStep DEF Deliver
<1>4. buffer' \in Seq(Nat) /\ BufferIsSuffix' /\ BufferKept'
  BY <1>1, <1>2, <1>3, RetainNext
<1>5. f \in Frame /\ f.kind # "resumed" /\ f.seq = seq + 1
  BY <1>3 DEF Frame, Kind
<1>6. lost \subseteq 2..seq /\ last <= seq /\ last \in Nat
  BY <1>1 DEF Counters, TypeOK
<1> HIDE DEF f
<1>7. ASSUME open
      PROVE  wire' \in Seq(Frame) /\ WireInOrder' /\ LiveSent'
  <2>1. \A i \in 1..Len(wire) : wire[i].seq < f.seq
    <3>1. \A i \in 1..Len(wire) : wire[i].seq \in 1..seq
      BY <1>1 DEF WireInOrder
    <3> QED BY <1>3, <1>5, <3>1
  <2>2. \A n \in Nat : last < n /\ n <= seq /\ n \notin lost =>
          \E k \in 1..Len(wire) : Carries(k, n)
    BY <1>1, <1>2, <1>7 DEF LiveSent
  <2>3. \A n \in Nat : n <= f.seq => n <= seq \/ f.seq = n
    BY <1>3, <1>5
  <2>4. \A n \in Nat : last < n /\ n <= f.seq /\ n \notin lost =>
          \/ \E k \in 1..Len(wire) : Carries(k, n)
          \/ f.kind # "resumed" /\ f.seq = n
    BY <1>5, <2>2, <2>3
  <2>5. f.seq > last /\ f.seq \notin lost /\ f.seq \in 1..seq' /\ seq' \in Nat /\ seq <= seq'
    BY <1>3, <1>5, <1>6
  <2>6. /\ wire' \in Seq(Frame) /\ WireInOrder'
        /\ Len(wire') = Len(wire) + 1
        /\ \A i \in 1..Len(wire) : wire'[i] = wire[i]
        /\ wire'[Len(wire) + 1] = f
    BY <1>1, <1>2, <1>5, <1>7, <2>1, <2>4, <2>5, SendFrame
  <2>7. LiveSent'
    <3>1. Len(wire) + 1 \in 1..Len(wire')
      BY <1>1, <2>6 DEF TypeOK
    <3>2. \A n \in Nat : last' < n /\ n <= seq' /\ n \notin lost' =>
            \E k \in 1..Len(wire') : wire'[k].kind # "resumed" /\ wire'[k].seq = n
      BY <1>2, <1>3, <1>5, <2>6, <3>1 DEF WireInOrder, Carries
    <3> QED BY <3>2 DEF LiveSent, Carries
  <2> QED BY <2>6, <2>7
<1>8. ASSUME ~open
      PROVE  wire' = <<>> /\ wire' \in Seq(Frame) /\ WireInOrder' /\ LiveSent'
  <2>1. wire' = <<>>
    BY <1>1, <1>2, <1>8 DEF Counters
  <2>2. wire' \in Seq(Frame)
    BY <2>1
  <2>3. WireInOrder'
    BY <2>1 DEF WireInOrder
  <2> QED BY <1>2, <1>8, <2>1, <2>2, <2>3 DEF LiveSent
<1>9. wire' \in Seq(Frame) /\ WireInOrder' /\ LiveSent' /\ (~open' => wire' = <<>>)
  BY <1>2, <1>7, <1>8
<1>10. TypeOK'
  BY <1>1, <1>2, <1>3, <1>4, <1>9 DEF TypeOK
<1>11. Counters'
  BY <1>1, <1>2, <1>3, <1>6, <1>9 DEF Counters
<1>12. ReplaySent' /\ NoSilentGap'
  BY <1>1, <1>2 DEF ReplaySent, NoSilentGap
<1> QED BY <1>3, <1>4, <1>9, <1>10, <1>11, <1>12 DEF IInv

\* A send that fails leaves its number with no event; the socket is gone, so the
\* client is told of it by nothing but the next number.
LEMMA DeliverFailsStep == IInv /\ DeliverFails => IInv'
<1> SUFFICES ASSUME IInv, DeliverFails PROVE IInv'
  OBVIOUS
<1>1. /\ TypeOK /\ Counters /\ BufferIsSuffix /\ BufferKept /\ NoSilentGap
      /\ phase = "live" /\ ~open /\ phase' = "parked" /\ lost' = lost \cup {seq + 1}
      /\ UNCHANGED <<buffer, wire, open, last, pending, got>>
  BY DEF IInv, DeliverFails, socket
<1>2. /\ EachEventStamped' /\ seq \in Nat /\ seq' = seq + 1 /\ seq >= 1
      /\ cursor' \in Nat /\ cursor' <= published /\ start <= cursor'
      /\ lagged' \subseteq 1..cursor' /\ stamped' \subseteq Nat
      /\ UNCHANGED <<published, mine, lagged, start, after, at>>
  BY <1>1, StampStep DEF DeliverFails
<1>3. lost \subseteq 2..seq /\ last <= seq /\ last \in Nat /\ wire = <<>>
  BY <1>1 DEF Counters, TypeOK
<1>4. TypeOK'
  BY <1>1, <1>2 DEF TypeOK, Phase
<1>5. Counters'
  <2>1. lost' \subseteq 2..seq' /\ last <= seq'
    BY <1>1, <1>2, <1>3
  <2> QED BY <1>1, <1>2, <2>1 DEF Counters
<1>6. BufferIsSuffix' /\ BufferKept'
  <2>1. \A i \in 1..Len(buffer) : buffer[i] \in (2..seq') \ lost'
    BY <1>1, <1>2 DEF BufferKept
  <2>2. \A n \in 2..seq' : n \in 2..seq \/ n \in lost'
    BY <1>1, <1>2
  <2> QED BY <1>1, <2>1, <2>2 DEF BufferIsSuffix, BufferKept
<1>7. WireInOrder' /\ LiveSent' /\ ReplaySent'
  BY <1>1, <1>3 DEF WireInOrder, LiveSent, ReplaySent
<1>8. NoSilentGap'
  BY <1>1, <1>2, <1>3 DEF NoSilentGap
<1> QED BY <1>2, <1>4, <1>5, <1>6, <1>7, <1>8 DEF IInv

\* A parked session retains without sending; what a half-dead socket still has
\* in flight is behind it.
LEMMA CollectStep == IInv /\ Collect => IInv'
<1> SUFFICES ASSUME IInv, Collect PROVE IInv'
  OBVIOUS
<1>1. /\ TypeOK /\ Counters /\ BufferIsSuffix /\ BufferKept /\ WireInOrder
      /\ NoSilentGap /\ phase = "parked" /\ phase' = "parked"
      /\ buffer' = Push(buffer, seq + 1)
      /\ UNCHANGED <<lost, wire, open, last, pending, got>>
  BY DEF IInv, Collect, socket
<1>2. /\ EachEventStamped' /\ seq \in Nat /\ seq' = seq + 1 /\ seq >= 1
      /\ cursor' \in Nat /\ cursor' <= published /\ start <= cursor'
      /\ lagged' \subseteq 1..cursor' /\ stamped' \subseteq Nat
      /\ UNCHANGED <<published, mine, lagged, start, after, at>>
  BY <1>1, StampStep DEF Collect
<1>3. buffer' \in Seq(Nat) /\ BufferIsSuffix' /\ BufferKept'
  BY <1>1, <1>2, RetainNext
<1>4. TypeOK'
  BY <1>1, <1>2, <1>3 DEF TypeOK
<1>5. Counters'
  <2>1. lost' \subseteq 2..seq' /\ last' <= seq'
    BY <1>1, <1>2 DEF Counters, TypeOK
  <2> QED BY <1>1, <1>2, <2>1 DEF Counters
<1>6. WireInOrder'
  <2>1. \A i \in 1..Len(wire) : wire[i].seq \in 1..seq'
    BY <1>1, <1>2 DEF WireInOrder
  <2> QED BY <1>1, <2>1 DEF WireInOrder, Carries
<1>7. LiveSent' /\ ReplaySent' /\ NoSilentGap'
  BY <1>1 DEF LiveSent, ReplaySent, NoSilentGap
<1> QED BY <1>2, <1>3, <1>4, <1>5, <1>6, <1>7 DEF IInv

\* IDENTIFY starts everything over.
LEMMA IdentifyStep == IInv /\ Identify => IInv'
<1> SUFFICES ASSUME IInv, Identify PROVE IInv'
  OBVIOUS
<1> USE DEF IInv, Identify
<1>1. TypeOK' /\ Counters'
  <2>1. wire' \in Seq(Frame) /\ buffer' \in Seq(Nat)
    OBVIOUS
  <2>2. TypeOK'
    BY <2>1 DEF TypeOK, Phase
  <2>3. Counters'
    BY DEF TypeOK, Counters
  <2> QED BY <2>2, <2>3
<1>2. BufferIsSuffix' /\ BufferKept'
  BY LimitAssumption DEF BufferIsSuffix, BufferKept
<1>3. WireInOrder' /\ LiveSent' /\ ReplaySent'
  BY DEF WireInOrder, LiveSent, ReplaySent
<1>4. NoSilentGap' /\ EachEventStamped'
  BY DEF NoSilentGap, EachEventStamped
<1> QED BY <1>1, <1>2, <1>3, <1>4

\* READY is the first frame of an empty wire.
LEMMA SendReadyStep == IInv /\ SendReady => IInv'
<1> SUFFICES ASSUME IInv, SendReady PROVE IInv'
  OBVIOUS
<1> DEFINE f == [seq |-> 1, kind |-> "ready"]
<1>1. /\ TypeOK /\ Counters /\ BufferIsSuffix /\ BufferKept /\ WireInOrder /\ NoSilentGap
      /\ phase = "greeting" /\ phase' = "subscribing"
      /\ wire' = (IF open THEN Append(wire, f) ELSE wire)
      /\ UNCHANGED <<published, mine, seq, buffer, cursor, stamped, lagged, lost, start,
                     after, at, open, last, pending, got>>
  BY DEF IInv, SendReady, Transmit, stream, session
<1>2. seq = 1 /\ wire = <<>> /\ last = 0 /\ lost \subseteq 2..1 /\ buffer = <<>>
  BY <1>1 DEF Counters
<1>3. f \in Frame /\ f.kind # "resumed" /\ f.seq = 1
  BY DEF Frame, Kind
<1> HIDE DEF f
<1>4. ASSUME open
      PROVE  wire' \in Seq(Frame) /\ WireInOrder' /\ LiveSent'
  <2>1. Len(wire) = 0 /\ lost = {}
    BY <1>2
  <2>2. /\ wire' \in Seq(Frame) /\ WireInOrder'
        /\ Len(wire') = Len(wire) + 1
        /\ wire'[Len(wire) + 1] = f
    BY <1>1, <1>2, <1>3, <1>4, <2>1, SendFrame
  <2>3. \A n \in Nat : last' < n /\ n <= seq' /\ n \notin lost' =>
          wire'[1].kind # "resumed" /\ wire'[1].seq = n
    BY <1>1, <1>2, <1>3, <2>1, <2>2
  <2>4. 1 \in 1..Len(wire')
    BY <2>1, <2>2
  <2> QED BY <2>2, <2>3, <2>4 DEF LiveSent, Carries
<1>5. ASSUME ~open
      PROVE  wire' = <<>> /\ wire' \in Seq(Frame) /\ WireInOrder' /\ LiveSent'
  <2>1. wire' = <<>>
    BY <1>1, <1>2, <1>5
  <2>2. wire' \in Seq(Frame)
    BY <2>1
  <2>3. WireInOrder'
    BY <2>1 DEF WireInOrder
  <2> QED BY <1>1, <1>5, <2>1, <2>2, <2>3 DEF LiveSent
<1>6. wire' \in Seq(Frame) /\ WireInOrder' /\ LiveSent' /\ (~open' => wire' = <<>>)
  BY <1>1, <1>4, <1>5
<1>7. TypeOK'
  BY <1>1, <1>6 DEF TypeOK, Phase
<1>8. Counters'
  BY <1>1, <1>2, <1>6 DEF Counters
<1>9. BufferIsSuffix' /\ BufferKept'
  BY <1>1 DEF BufferIsSuffix, BufferKept
<1>10. ReplaySent' /\ NoSilentGap' /\ EachEventStamped'
  BY <1>1 DEF ReplaySent, NoSilentGap, EachEventStamped
<1> QED BY <1>6, <1>7, <1>8, <1>9, <1>10 DEF IInv

\* The subscription starts an empty account.
LEMMA SubscribeStep == IInv /\ Subscribe => IInv'
<1> SUFFICES ASSUME IInv, Subscribe PROVE IInv'
  OBVIOUS
<1>1. /\ TypeOK /\ Counters /\ phase = "subscribing" /\ phase' = "live"
      /\ cursor' = published /\ start' = published
      /\ UNCHANGED <<published, mine, seq, buffer, stamped, lagged, lost, after,
                     at, wire, open, last, pending, got>>
  BY DEF IInv, Subscribe, socket
<1>2. stamped = {} /\ published \in Nat /\ seq = 1
  BY <1>1 DEF IInv, Counters, TypeOK
<1>3. TypeOK'
  BY <1>1, <1>2 DEF TypeOK, Phase
<1>4. Counters'
  <2>1. lagged \subseteq 1..published
    BY <1>1 DEF Counters, TypeOK
  <2> QED BY <1>1, <1>2, <2>1 DEF Counters
<1>5. BufferIsSuffix' /\ BufferKept'
  BY <1>1 DEF IInv, BufferIsSuffix, BufferKept
<1>6. WireInOrder' /\ LiveSent' /\ ReplaySent'
  BY <1>1 DEF IInv, WireInOrder, LiveSent, ReplaySent, Carries
<1>7. NoSilentGap'
  BY <1>1 DEF IInv, NoSilentGap
<1>8. EachEventStamped'
  <2>1. \A e \in mine : ~(published < e /\ e <= published)
    BY <1>1 DEF TypeOK
  <2> QED BY <1>1, <1>2, <2>1 DEF EachEventStamped
<1> QED BY <1>3, <1>4, <1>5, <1>6, <1>7, <1>8 DEF IInv

\* The task gives up its socket, or everything.
LEMMA StopStep == IInv /\ (Park \/ End \/ RefuseResume) => IInv'
<1> SUFFICES ASSUME IInv, Park \/ End \/ RefuseResume PROVE IInv'
  OBVIOUS
<1>1. /\ TypeOK /\ Counters
      /\ phase' \in {"parked", "gone"} /\ (phase' = "parked" => phase = "live")
      /\ UNCHANGED <<published, mine, seq, buffer, cursor, stamped, lagged, lost,
                     start, after, at, wire, open, last, pending, got>>
  BY DEF IInv, Park, End, RefuseResume, stream, session, socket
<1>2. TypeOK'
  BY <1>1 DEF TypeOK, Phase
<1>3. Counters'
  BY <1>1 DEF Counters
<1>4. BufferIsSuffix' /\ BufferKept'
  BY <1>1 DEF IInv, BufferIsSuffix, BufferKept
<1>5. WireInOrder' /\ LiveSent' /\ ReplaySent'
  BY <1>1 DEF IInv, WireInOrder, LiveSent, ReplaySent, Carries
<1>6. NoSilentGap' /\ EachEventStamped'
  BY <1>1 DEF IInv, NoSilentGap, EachEventStamped
<1> QED BY <1>2, <1>3, <1>4, <1>5, <1>6 DEF IInv

\* resume.rs missed_since: when it answers Some, every number past the client's
\* is retained or lost - nothing was evicted that the client needs.
LEMMA CoversIsComplete ==
  ASSUME IInv, Covers(buffer, seq, last)
  PROVE  \A n \in Nat : last < n /\ n <= seq /\ n \notin lost /\ last >= 1 =>
           \E j \in 1..Len(buffer) : buffer[j] = n
<1> SUFFICES ASSUME NEW n \in Nat, last < n, n <= seq, n \notin lost, last >= 1
             PROVE  \E j \in 1..Len(buffer) : buffer[j] = n
  OBVIOUS
<1>1. last \in Nat /\ seq \in Nat /\ buffer \in Seq(Nat)
  BY DEF IInv, TypeOK
<1>2. n \in 2..seq
  BY <1>1
<1>3. CASE Len(buffer) = Limit /\ n < buffer[1]
  <2>1. buffer # <<>> /\ Head(buffer) <= last + 1
    BY <1>1 DEF Covers
  <2>2. Head(buffer) = buffer[1] /\ Head(buffer) \in Nat
    BY <1>1, <2>1, TailProperties
  <2> QED BY <1>1, <1>3, <2>1, <2>2
<1> QED BY <1>2, <1>3 DEF IInv, BufferIsSuffix

\* A resume starts with an empty wire and all the client lacks in the buffer.
LEMMA ResumeStep == IInv /\ Resume => IInv'
<1> SUFFICES ASSUME IInv, Resume PROVE IInv'
  OBVIOUS
<1>1. /\ TypeOK /\ Counters /\ BufferKept
      /\ phase = "parked" /\ last >= 1 /\ Covers(buffer, seq, last)
      /\ after' = last /\ at' = 1 /\ phase' = "replaying" /\ wire' = <<>> /\ open' = TRUE
      /\ pending' = TRUE
      /\ UNCHANGED <<published, mine, seq, buffer, cursor, stamped, lagged, lost,
                     start, last, got>>
  BY DEF IInv, Resume, stream
<1>2. wire' \in Seq(Frame)
  BY <1>1
<1>3. TypeOK'
  BY <1>1, <1>2 DEF TypeOK, Phase
<1>4. Counters'
  BY <1>1 DEF Counters
<1>5. BufferIsSuffix' /\ BufferKept'
  BY <1>1 DEF IInv, BufferIsSuffix, BufferKept
<1>6. WireInOrder' /\ LiveSent'
  BY <1>1 DEF WireInOrder, LiveSent
<1>7. ReplaySent'
  <2>1. \A n \in Nat : last < n /\ n <= seq /\ n \notin lost =>
          \E j \in 1..Len(buffer) : buffer[j] = n
    BY <1>1, CoversIsComplete
  <2>2. Len(wire') = 0 /\ last \in Nat
    BY <1>1 DEF TypeOK
  <2> QED BY <1>1, <2>1, <2>2 DEF ReplaySent
<1>8. NoSilentGap' /\ EachEventStamped'
  BY <1>1 DEF IInv, NoSilentGap, EachEventStamped
<1> QED BY <1>3, <1>4, <1>5, <1>6, <1>7, <1>8 DEF IInv

\* An entry the client has is passed over; nothing it lacks is.
LEMMA ReplaySkips ==
  ASSUME IInv, phase = "replaying", at <= Len(buffer), buffer[at] <= after,
         at' = at + 1,
         UNCHANGED <<phase, seq, buffer, lost, after, wire, open, last>>
  PROVE  ReplaySent'
<1>1. TypeOK /\ Counters /\ ReplaySent
  BY DEF IInv
<1>2. /\ at \in Nat /\ at >= 1 /\ Len(buffer) \in Nat /\ after \in Nat /\ last \in Nat
      /\ \A j \in (at + 1)..Len(buffer) : j \in at..Len(buffer)
      /\ \A j \in at..Len(buffer) : j = at \/ j \in (at + 1)..Len(buffer)
  BY <1>1 DEF TypeOK, Counters
<1> SUFFICES ASSUME open
             PROVE  /\ after <= last
                    /\ \A n \in Nat : last < n /\ n <= seq /\ n \notin lost =>
                         \/ \E k \in 1..Len(wire) : Carries(k, n)
                         \/ \E j \in (at + 1)..Len(buffer) : buffer[j] = n
                    /\ \A j \in (at + 1)..Len(buffer) : buffer[j] > after =>
                         buffer[j] > last /\ \A i \in 1..Len(wire) : wire[i].seq < buffer[j]
  BY DEF ReplaySent, Carries
<1>3. /\ after <= last
      /\ \A n \in Nat : last < n /\ n <= seq /\ n \notin lost =>
           \/ \E k \in 1..Len(wire) : Carries(k, n)
           \/ \E j \in at..Len(buffer) : buffer[j] = n
      /\ \A j \in at..Len(buffer) : buffer[j] > after =>
           buffer[j] > last /\ \A i \in 1..Len(wire) : wire[i].seq < buffer[j]
  BY <1>1 DEF ReplaySent
<1>4. buffer[at] \in Nat
  BY <1>1, <1>2 DEF TypeOK
<1>5. ASSUME NEW n \in Nat, last < n, n <= seq, n \notin lost
      PROVE  \/ \E k \in 1..Len(wire) : Carries(k, n)
             \/ \E j \in (at + 1)..Len(buffer) : buffer[j] = n
  <2>1. n # buffer[at]
    BY <1>2, <1>3, <1>4, <1>5
  <2> QED BY <1>2, <1>3, <1>5, <2>1
<1> QED BY <1>2, <1>3, <1>5

\* An entry the client lacks goes onto the wire, behind all that is there.
LEMMA ReplaySends ==
  ASSUME IInv, phase = "replaying", open, at <= Len(buffer), buffer[at] > after,
         at' = at + 1,
         wire' = Append(wire, [seq |-> buffer[at], kind |-> "event"]),
         UNCHANGED <<phase, seq, buffer, lost, after, open, last>>
  PROVE  wire' \in Seq(Frame) /\ WireInOrder' /\ ReplaySent'
<1> DEFINE f == [seq |-> buffer[at], kind |-> "event"]
           l == Len(wire)
<1>1. TypeOK /\ Counters /\ BufferIsSuffix /\ BufferKept /\ WireInOrder /\ ReplaySent
  BY DEF IInv
<1>2. /\ at \in Nat /\ at >= 1 /\ Len(buffer) \in Nat /\ after \in Nat /\ last \in Nat
      /\ seq \in Nat /\ l \in Nat
      /\ \A j \in (at + 1)..Len(buffer) : j \in at..Len(buffer) /\ at < j
      /\ \A j \in at..Len(buffer) : j = at \/ j \in (at + 1)..Len(buffer)
      /\ \A j \in at..Len(buffer) : j \in 1..Len(buffer)
      /\ at \in at..Len(buffer)
  BY <1>1 DEF TypeOK, Counters
<1>3. /\ after <= last
      /\ \A n \in Nat : last < n /\ n <= seq /\ n \notin lost =>
           \/ \E k \in 1..l : Carries(k, n)
           \/ \E j \in at..Len(buffer) : buffer[j] = n
      /\ \A j \in at..Len(buffer) : buffer[j] > after =>
           buffer[j] > last /\ \A i \in 1..l : wire[i].seq < buffer[j]
  BY <1>1 DEF ReplaySent
<1>4. \A j \in at..Len(buffer) : buffer[j] \in 2..seq /\ buffer[j] \notin lost
  BY <1>1, <1>2 DEF BufferKept
<1>5. f \in Frame /\ f.kind # "resumed" /\ f.seq = buffer[at]
  BY <1>2, <1>4 DEF Frame, Kind
<1>6. \A j \in (at + 1)..Len(buffer) : buffer[at] < buffer[j]
  BY <1>1, <1>2 DEF BufferIsSuffix
<1> HIDE DEF f, l
<1>7. \A n \in Nat : last < n /\ n <= f.seq /\ n \notin lost =>
        (\E k \in 1..l : Carries(k, n)) \/ (f.kind # "resumed" /\ f.seq = n)
  <2> SUFFICES ASSUME NEW n \in Nat, last < n, n <= buffer[at], n \notin lost,
                      ~ \E k \in 1..l : Carries(k, n)
               PROVE  n = buffer[at]
    BY <1>5
  <2>1. n <= seq
    BY <1>2, <1>4
  <2>2. PICK j \in at..Len(buffer) : buffer[j] = n
    BY <1>3, <2>1
  <2> QED BY <1>2, <1>4, <1>6, <2>2
<1>8. /\ f.seq > last /\ f.seq \notin lost /\ f.seq \in 1..seq /\ seq <= seq
      /\ \A i \in 1..l : wire[i].seq < f.seq
  BY <1>2, <1>3, <1>4, <1>5
<1>9. /\ wire' \in Seq(Frame) /\ WireInOrder' /\ Len(wire') = l + 1
      /\ \A i \in 1..l : wire'[i] = wire[i]
      /\ wire'[l + 1] = f
  <2>1. wire' = Append(wire, f)
    BY DEF f
  <2> QED BY <1>1, <1>2, <1>5, <1>7, <1>8, <2>1, SendFrame DEF l
<1>10. ReplaySent'
  <2> SUFFICES
        /\ after <= last
        /\ \A n \in Nat : last < n /\ n <= seq /\ n \notin lost =>
             \/ \E k \in 1..(l + 1) : wire'[k].kind # "resumed" /\ wire'[k].seq = n
             \/ \E j \in (at + 1)..Len(buffer) : buffer[j] = n
        /\ \A j \in (at + 1)..Len(buffer) : buffer[j] > after =>
             buffer[j] > last /\ \A i \in 1..(l + 1) : wire'[i].seq < buffer[j]
    BY <1>9 DEF ReplaySent, Carries
  <2>1. ASSUME NEW n \in Nat, last < n, n <= seq, n \notin lost
        PROVE  \/ \E k \in 1..(l + 1) : wire'[k].kind # "resumed" /\ wire'[k].seq = n
               \/ \E j \in (at + 1)..Len(buffer) : buffer[j] = n
    <3>1. CASE \E k \in 1..l : Carries(k, n)
      <4>1. PICK k \in 1..l : Carries(k, n)
        BY <3>1
      <4>2. wire'[k] = wire[k] /\ k \in 1..(l + 1)
        BY <1>2, <1>9, <4>1
      <4> QED BY <4>1, <4>2 DEF Carries
    <3>2. CASE \E j \in at..Len(buffer) : buffer[j] = n
      <4>1. PICK j \in at..Len(buffer) : buffer[j] = n
        BY <3>2
      <4>2. CASE j = at
        <5>1. l + 1 \in 1..(l + 1)
          BY <1>2
        <5> QED BY <1>5, <1>9, <4>1, <4>2, <5>1
      <4>3. CASE j \in (at + 1)..Len(buffer)
        BY <4>1, <4>3
      <4> QED BY <1>2, <4>1, <4>2, <4>3
    <3> QED BY <1>3, <2>1, <3>1, <3>2
  <2>2. ASSUME NEW j \in (at + 1)..Len(buffer), buffer[j] > after,
               NEW i \in 1..(l + 1)
        PROVE  wire'[i].seq < buffer[j]
    <3>1. CASE i \in 1..l
      BY <1>2, <1>3, <1>9, <2>2, <3>1
    <3>2. CASE i = l + 1
      <4>1. wire'[i].seq = buffer[at]
        BY <1>5, <1>9, <3>2
      <4> QED BY <1>6, <4>1
    <3>3. i \in 1..l \/ i = l + 1
      <4>1. l \in Nat
        BY <1>2
      <4> QED BY <4>1
    <3> QED BY <3>1, <3>2, <3>3
  <2>3. \A j \in (at + 1)..Len(buffer) : buffer[j] > after => buffer[j] > last
    BY <1>2, <1>3
  <2> QED BY <1>3, <2>1, <2>2, <2>3
<1> QED BY <1>9, <1>10

\* send_resumed, one retained event at a time.
LEMMA ReplayStep == IInv /\ Replay => IInv'
<1> SUFFICES ASSUME IInv, Replay PROVE IInv'
  OBVIOUS
<1>1. /\ TypeOK /\ Counters /\ WireInOrder
      /\ phase = "replaying" /\ at <= Len(buffer) /\ at' = at + 1
      /\ UNCHANGED <<published, mine, phase, seq, buffer, cursor, stamped, lagged, lost,
                     start, after, open, last, pending, got>>
  BY DEF IInv, Replay, stream
<1>2. wire' \in Seq(Frame) /\ WireInOrder' /\ ReplaySent' /\ (~open' => wire' = <<>>)
  <2>1. CASE buffer[at] > after /\ open
    <3>1. wire' = Append(wire, [seq |-> buffer[at], kind |-> "event"])
      <4>1. at \in 1..Len(buffer) /\ buffer[at] \in Nat /\ after \in Nat
        BY <1>1 DEF TypeOK, Counters
      <4> QED BY <2>1, <4>1 DEF Replay, Transmit
    <3> QED BY <1>1, <2>1, <3>1, ReplaySends
  <2>2. CASE ~open
    <3>1. wire' = wire /\ wire = <<>>
      BY <1>1, <2>2 DEF Replay, Transmit, Counters
    <3>2. WireInOrder'
      BY <3>1 DEF WireInOrder
    <3> QED BY <1>1, <2>2, <3>1, <3>2 DEF ReplaySent, TypeOK
  <2>3. CASE buffer[at] <= after /\ open
    <3>1. wire' = wire
      <4>1. at \in 1..Len(buffer) /\ buffer[at] \in Nat /\ after \in Nat
        BY <1>1 DEF TypeOK, Counters
      <4> QED BY <2>3, <4>1 DEF Replay
    <3>2. WireInOrder'
      BY <1>1, <3>1 DEF WireInOrder, Carries
    <3> QED BY <1>1, <2>3, <3>1, <3>2, ReplaySkips DEF TypeOK
  <2>4. at \in 1..Len(buffer) /\ buffer[at] \in Nat /\ after \in Nat
    BY <1>1 DEF TypeOK, Counters
  <2> QED BY <2>1, <2>2, <2>3, <2>4
<1>3. TypeOK'
  BY <1>1, <1>2 DEF TypeOK
<1>4. Counters'
  BY <1>1, <1>2 DEF Counters, TypeOK
<1>5. BufferIsSuffix' /\ BufferKept'
  BY <1>1 DEF IInv, BufferIsSuffix, BufferKept
<1>6. LiveSent' /\ NoSilentGap' /\ EachEventStamped'
  BY <1>1 DEF IInv, LiveSent, NoSilentGap, EachEventStamped
<1> QED BY <1>2, <1>3, <1>4, <1>5, <1>6 DEF IInv

\* The confirmation follows the last retained event, so the session is live with
\* all there is to see on the wire.
LEMMA ConfirmResumeStep == IInv /\ ConfirmResume => IInv'
<1> SUFFICES ASSUME IInv, ConfirmResume PROVE IInv'
  OBVIOUS
<1> DEFINE f == [seq |-> seq, kind |-> "resumed"]
<1>1. /\ TypeOK /\ Counters /\ WireInOrder /\ ReplaySent
      /\ phase = "replaying" /\ at > Len(buffer) /\ phase' = "live"
      /\ wire' = (IF open THEN Append(wire, f) ELSE wire)
      /\ UNCHANGED <<published, mine, seq, buffer, cursor, stamped, lagged, lost,
                     start, after, at, open, last, pending, got>>
  BY DEF IInv, ConfirmResume, Transmit, stream, session
<1>2. seq \in Nat /\ seq >= 1 /\ last <= seq /\ last \in Nat /\ at \in Nat
  BY <1>1 DEF Counters, TypeOK
<1>3. f \in Frame /\ f.kind = "resumed" /\ f.seq = seq
  BY <1>2 DEF Frame, Kind
<1> HIDE DEF f
<1>4. ASSUME open
      PROVE  wire' \in Seq(Frame) /\ WireInOrder' /\ LiveSent'
  <2>1. Len(buffer) \in Nat /\ ~ \E j \in at..Len(buffer) : TRUE
    BY <1>1, <1>2 DEF TypeOK
  <2>2. \A n \in Nat : last < n /\ n <= seq /\ n \notin lost =>
          \E k \in 1..Len(wire) : Carries(k, n)
    BY <1>1, <1>4, <2>1 DEF ReplaySent
  <2>3. \A i \in 1..Len(wire) : wire[i].seq <= f.seq
    BY <1>1, <1>2, <1>3 DEF WireInOrder
  <2>4. f.seq >= last /\ f.seq \in 1..seq /\ seq <= seq
    BY <1>2, <1>3
  <2>5. /\ wire' \in Seq(Frame) /\ WireInOrder' /\ Len(wire') = Len(wire) + 1
        /\ \A i \in 1..Len(wire) : wire'[i] = wire[i]
    BY <1>1, <1>2, <1>3, <1>4, <2>2, <2>3, <2>4, SendFrame
  <2>6. \A k \in 1..Len(wire) : k \in 1..Len(wire')
    BY <1>1, <2>5 DEF TypeOK
  <2>7. \A n \in Nat : last < n /\ n <= seq /\ n \notin lost =>
          \E k \in 1..Len(wire') : wire'[k].kind # "resumed" /\ wire'[k].seq = n
    BY <2>2, <2>5, <2>6 DEF Carries
  <2> QED BY <1>1, <2>5, <2>7 DEF LiveSent, Carries
<1>5. ASSUME ~open
      PROVE  wire' = <<>> /\ wire' \in Seq(Frame) /\ WireInOrder' /\ LiveSent'
  <2>1. wire' = <<>>
    BY <1>1, <1>5 DEF Counters
  <2>2. wire' \in Seq(Frame)
    BY <2>1
  <2>3. WireInOrder'
    BY <2>1 DEF WireInOrder
  <2> QED BY <1>1, <1>5, <2>1, <2>2, <2>3 DEF LiveSent
<1>6. wire' \in Seq(Frame) /\ WireInOrder' /\ LiveSent' /\ (~open' => wire' = <<>>)
  BY <1>1, <1>4, <1>5
<1>7. TypeOK'
  BY <1>1, <1>6 DEF TypeOK, Phase
<1>8. Counters'
  BY <1>1, <1>6 DEF Counters
<1>9. BufferIsSuffix' /\ BufferKept'
  BY <1>1 DEF IInv, BufferIsSuffix, BufferKept
<1>10. ReplaySent' /\ NoSilentGap' /\ EachEventStamped'
  BY <1>1 DEF IInv, ReplaySent, NoSilentGap, EachEventStamped
<1> QED BY <1>6, <1>7, <1>8, <1>9, <1>10 DEF IInv

\* The client takes a frame.
LEMMA ReceiveStep == IInv /\ Receive => IInv'
<1> SUFFICES ASSUME IInv, Receive PROVE IInv'
  OBVIOUS
<1>1. TypeOK' /\ Counters' /\ WireInOrder' /\ LiveSent' /\ ReplaySent' /\ NoSilentGap'
  BY ReceiveFrame
<1>2. BufferIsSuffix' /\ BufferKept' /\ EachEventStamped'
  BY DEF IInv, Receive, stream, session, BufferIsSuffix, BufferKept, EachEventStamped
<1> QED BY <1>1, <1>2 DEF IInv

\* What was in flight is gone; nobody owes an offline client anything yet.
LEMMA BreakStep == IInv /\ Break => IInv'
<1> SUFFICES ASSUME IInv, Break PROVE IInv'
  OBVIOUS
<1>1. /\ TypeOK /\ Counters /\ ~open' /\ open' \in BOOLEAN /\ wire' = <<>>
      /\ UNCHANGED <<published, mine, phase, seq, buffer, cursor, stamped, lagged, lost,
                     start, after, at, last, pending, got>>
  BY DEF IInv, Break, stream, session
<1>2. wire' \in Seq(Frame)
  BY <1>1
<1>3. TypeOK'
  BY <1>1, <1>2 DEF TypeOK
<1>4. Counters'
  BY <1>1 DEF Counters
<1>5. BufferIsSuffix' /\ BufferKept'
  BY <1>1 DEF IInv, BufferIsSuffix, BufferKept
<1>6. WireInOrder' /\ LiveSent' /\ ReplaySent'
  BY <1>1 DEF WireInOrder, LiveSent, ReplaySent
<1>7. NoSilentGap' /\ EachEventStamped'
  BY <1>1 DEF IInv, NoSilentGap, EachEventStamped
<1> QED BY <1>3, <1>4, <1>5, <1>6, <1>7 DEF IInv

----------------------------------------------------------------------------
(* The theorems.                                                           *)

\* Before anything happens.
LEMMA InitIInv == Init => IInv
<1> SUFFICES ASSUME Init PROVE IInv
  OBVIOUS
<1>1. TypeOK
  <2>1. wire \in Seq(Frame) /\ buffer \in Seq(Nat)
    BY DEF Init
  <2>2. phase \in Phase /\ open \in BOOLEAN /\ pending \in BOOLEAN
    BY DEF Init, Phase
  <2>3. /\ published = 0 /\ mine = {} /\ seq = 0 /\ cursor = 0 /\ start = 0
        /\ stamped = {} /\ lagged = {} /\ lost = {} /\ after = 0 /\ at = 1
        /\ last = 0 /\ got = {}
    BY DEF Init
  <2> QED BY <2>1, <2>2, <2>3 DEF TypeOK
<1>2. Counters
  BY DEF Init, Counters
<1>3. BufferIsSuffix /\ BufferKept
  BY LimitAssumption DEF Init, BufferIsSuffix, BufferKept
<1>4. WireInOrder /\ LiveSent /\ ReplaySent
  BY DEF Init, WireInOrder, LiveSent, ReplaySent
<1>5. NoSilentGap /\ EachEventStamped
  BY DEF Init, NoSilentGap, EachEventStamped
<1> QED BY <1>1, <1>2, <1>3, <1>4, <1>5 DEF IInv

\* Every step of the server, the client and the network.
LEMMA NextIInv == IInv /\ [Next]_vars => IInv'
<1> SUFFICES ASSUME IInv, [Next]_vars PROVE IInv'
  OBVIOUS
<1>1. CASE Publish
  BY <1>1, PublishStep
<1>2. CASE SkipLagged
  BY <1>2, SkipLaggedStep
<1>3. CASE SkipOthers
  BY <1>3, SkipOthersStep
<1>4. CASE Deliver
  BY <1>4, DeliverStep
<1>5. CASE DeliverFails
  BY <1>5, DeliverFailsStep
<1>6. CASE Collect
  BY <1>6, CollectStep
<1>7. CASE SendReady
  BY <1>7, SendReadyStep
<1>8. CASE Subscribe
  BY <1>8, SubscribeStep
<1>9. CASE Replay
  BY <1>9, ReplayStep
<1>10. CASE ConfirmResume
  BY <1>10, ConfirmResumeStep
<1>11. CASE Identify
  BY <1>11, IdentifyStep
<1>12. CASE Resume
  BY <1>12, ResumeStep
<1>13. CASE Park \/ End \/ RefuseResume
  BY <1>13, StopStep
<1>14. CASE Receive
  BY <1>14, ReceiveStep
<1>15. CASE Break
  BY <1>15, BreakStep
<1>16. CASE UNCHANGED vars
  BY <1>16 DEF vars, IInv, TypeOK, Counters, BufferIsSuffix, BufferKept, WireInOrder,
               LiveSent, ReplaySent, NoSilentGap, EachEventStamped, Carries
<1> QED BY <1>1, <1>2, <1>3, <1>4, <1>5, <1>6, <1>7, <1>8, <1>9, <1>10, <1>11, <1>12,
           <1>13, <1>14, <1>15, <1>16 DEF Next, Read, Serve

\* The invariant holds of every behaviour.
THEOREM Invariance == Spec => []IInv
<1>1. Init => IInv
  BY InitIInv
<1>2. IInv /\ [Next]_vars => IInv'
  BY NextIInv
<1> QED BY <1>1, <1>2, PTL DEF Spec

\* The variables keep their types.
THEOREM TypeCorrect == Spec => []TypeOK
<1>1. IInv => TypeOK
  BY DEF IInv
<1> QED BY <1>1, Invariance, PTL

\* resume.rs:44: for any buffer limit, any channel capacity and any run of
\* drops, resumes and lagged reads, the client's view has no gap but the seqs
\* whose live send failed.
THEOREM ResumeIsWhole == Spec => []NoSilentGap
<1>1. IInv => NoSilentGap
  BY DEF IInv
<1> QED BY <1>1, Invariance, PTL

\* resume.rs push and missed_since agree: the buffer is sorted, bounded and
\* without holes but the lost, so its oldest entry decides what it covers.
THEOREM BufferDecides == Spec => []BufferIsSuffix
<1>1. IInv => BufferIsSuffix
  BY DEF IInv
<1> QED BY <1>1, Invariance, PTL

\* resume.rs:14: the handed-over receiver numbers each of the session's events
\* once, across any number of handovers, into a buffer that missed_since can trust.
THEOREM HandoverStampsOnce == Spec => []StampedOnce
<1>1. IInv => StampedOnce
  BY DEF IInv, StampedOnce
<1> QED BY <1>1, Invariance, PTL

\* A frame the client takes moves it on to the next number it has to see, or
\* confirms that it is there.
LEMMA ReceiveSees ==
  ASSUME IInv, Receive
  PROVE  (\E n \in 1..seq : Delivered!See(n)) \/ UNCHANGED Delivered!vars
<1>1. TypeOK /\ Counters /\ WireInOrder /\ NoSilentGap
  BY DEF IInv
<1> DEFINE s == wire[1].seq
<1>2. /\ wire # <<>> /\ last' = s
      /\ got' = IF wire[1].kind = "resumed" THEN got ELSE got \cup {s}
      /\ UNCHANGED <<seq, lost>>
  BY <1>1, TailProperties DEF Receive, stream, TypeOK
<1>3. /\ s \in 1..seq /\ s >= last
      /\ wire[1].kind # "resumed" => s > last /\ s \notin lost
      /\ \A n \in Nat : last < n /\ n <= s /\ n \notin lost =>
           wire[1].kind # "resumed" /\ s = n
  BY <1>1, <1>2, HeadIsNext
<1>4. last \in Nat /\ seq \in Nat /\ s \in Nat
  BY <1>1, <1>3 DEF TypeOK
<1> HIDE DEF s
<1>5. CASE s = last
  <2>1. wire[1].kind = "resumed"
    BY <1>3, <1>4, <1>5
  <2> QED BY <1>2, <1>5, <2>1 DEF Delivered!vars
<1>6. CASE s > last
  <2>1. \A m \in (last + 1)..(s - 1) : m \in lost
    BY <1>3, <1>4
  <2>2. got' = got \cup ({s} \ lost)
    <3>1. CASE wire[1].kind = "resumed"
      <4>1. s \in lost
        BY <1>3, <1>4, <1>6, <3>1
      <4> QED BY <1>2, <3>1, <4>1
    <3>2. CASE wire[1].kind # "resumed"
      BY <1>2, <1>3, <3>2
    <3> QED BY <3>1, <3>2
  <2>3. Delivered!See(s)
    BY <1>2, <1>3, <1>4, <1>6, <2>1, <2>2 DEF Delivered!See
  <2> QED BY <1>3, <2>3
<1> QED BY <1>3, <1>4, <1>5, <1>6

\* Every step is one of the channel that never broke, or none.
LEMMA StepDelivers == IInv /\ [Next]_vars => [Delivered!Next]_(Delivered!vars)
<1> SUFFICES ASSUME IInv, [Next]_vars PROVE [Delivered!Next]_(Delivered!vars)
  OBVIOUS
<1> USE DEF Delivered!Next, Delivered!vars
<1>1. CASE Deliver \/ Collect
  BY <1>1 DEF Deliver, Collect, Stamp, socket, Delivered!Assign
<1>2. CASE DeliverFails
  BY <1>2 DEF DeliverFails, Stamp, socket, Delivered!Assign
<1>3. CASE Identify
  BY <1>3 DEF Identify, Delivered!Restart
<1>4. CASE Receive
  BY <1>4, ReceiveSees
<1>5. CASE Publish \/ SkipLagged \/ SkipOthers
  BY <1>5 DEF Publish, SkipLagged, SkipOthers, stream, session, socket
<1>6. CASE SendReady \/ Subscribe \/ Replay \/ ConfirmResume
  BY <1>6 DEF SendReady, Subscribe, Replay, ConfirmResume, stream, session, socket
<1>7. CASE Resume \/ RefuseResume \/ Park \/ End \/ Break
  BY <1>7 DEF Resume, RefuseResume, Park, End, Break, stream, session, socket
<1>8. CASE UNCHANGED vars
  BY <1>8 DEF vars
<1> QED BY <1>1, <1>2, <1>3, <1>4, <1>5, <1>6, <1>7, <1>8 DEF Next, Read, Serve

\* Parking, handover, replay, lag and failed sends together implement the
\* channel of module EventDelivery: events in order, each at most once, passed
\* over only when dropped at numbering.
THEOREM Refinement == Spec => ImplementsDelivery
<1>1. Init => Delivered!Init
  BY DEF Init, Delivered!Init
<1>2. IInv /\ [Next]_vars => [Delivered!Next]_(Delivered!vars)
  BY StepDelivers
<1> QED BY <1>1, <1>2, Invariance, PTL DEF Spec, ImplementsDelivery, Delivered!Spec

=============================================================================
