----------------------------- MODULE WireProofs -----------------------------
(***************************************************************************)
(* Theorems about messages: writing and reading a buffer (MessageBuffer),  *)
(* the encodings, and that the connections of Wire deliver what is sent,   *)
(* for any nodes, threads, contents and capacity.                          *)
(***************************************************************************)
EXTENDS Wire, SequenceTheorems, FiniteSetTheorems, TLAPS

----------------------------------------------------------------------------
(***************************************************************************)
(* Buffers                                                                 *)
(***************************************************************************)

\* What a buffer is made of, and a message by its parts.
Cell == Nat \cup {Junk}

Parts(buffer, head_size, data_size, tail_size) ==
  [buffer |-> buffer, head_size |-> head_size, data_size |-> data_size,
   tail_size |-> tail_size]

\* Appending cells is associative.
LEMMA CellsAssociative ==
  \A a, b, c \in Seq(Cell) : (a \o b) \o c = a \o (b \o c)
BY ConcatAssociative

\* Appending, under a name that the provers leave alone.
Cat(x, y) == x \o y

\* Five sequences, appended in two ways.
LEMMA CellsRegrouped ==
  ASSUME NEW a \in Seq(Cell), NEW b \in Seq(Cell), NEW c \in Seq(Cell),
         NEW d \in Seq(Cell), NEW e \in Seq(Cell)
  PROVE  Cat(Cat(a, Cat(b, c)), Cat(d, e)) = Cat(Cat(a, b), Cat(Cat(c, d), e))
<1> DEFINE Cells == Seq(Cell)
<1>1. \A x, y, z \in Cells : Cat(Cat(x, y), z) = Cat(x, Cat(y, z))
  BY CellsAssociative DEF Cat
<1>2. \A x, y \in Cells : Cat(x, y) \in Cells
  BY ConcatProperties DEF Cat
<1>3. a \in Cells /\ b \in Cells /\ c \in Cells /\ d \in Cells /\ e \in Cells
  OBVIOUS
<1> HIDE DEF Cells
<1>4. Cat(a, Cat(b, c)) = Cat(Cat(a, b), c) /\ Cat(Cat(c, d), e) = Cat(c, Cat(d, e))
  BY <1>1, <1>3
<1>5. Cat(Cat(Cat(a, b), c), Cat(d, e)) = Cat(Cat(a, b), Cat(c, Cat(d, e)))
  BY <1>1, <1>2, <1>3
<1> QED BY <1>4, <1>5

\* A message is its parts.
LEMMA PartsFields ==
  ASSUME NEW b, NEW h, NEW d, NEW t
  PROVE  /\ Parts(b, h, d, t).buffer = b /\ Parts(b, h, d, t).head_size = h
         /\ Parts(b, h, d, t).data_size = d /\ Parts(b, h, d, t).tail_size = t
BY DEF Parts

\* put and pull move one bound.
LEMMA BoundMoved ==
  ASSUME NEW b, NEW h \in Nat, NEW d \in Nat, NEW t \in Nat, NEW cells \in Nat
  PROVE  /\ Put(Parts(b, h, d, t), cells) = Parts(b, h, d + cells, t - cells)
         /\ Pull(Parts(b, h, d, t), cells) = Parts(b, h + cells, d - cells, t)
<1> DEFINE msg    == Parts(b, h, d, t)
           put    == [msg EXCEPT !.data_size = @ + cells]
           pulled == [msg EXCEPT !.head_size = @ + cells]
<1>1. put = Parts(b, h, d + cells, t) /\ pulled = Parts(b, h + cells, d, t)
  BY DEF Parts
<1>2. /\ Put(msg, cells) = [put EXCEPT !.tail_size = msg.tail_size - cells]
      /\ Pull(msg, cells) = [pulled EXCEPT !.data_size = msg.data_size - cells]
  BY DEF Put, Pull
<1> HIDE DEF put, pulled
<1>3. /\ [put EXCEPT !.tail_size = msg.tail_size - cells]
           = Parts(b, h, d + cells, t - cells)
      /\ [pulled EXCEPT !.data_size = msg.data_size - cells]
           = Parts(b, h + cells, d - cells, t)
  BY <1>1 DEF Parts
<1> QED BY <1>2, <1>3

\* What makes a message well-formed, part by part.
LEMMA Formed ==
  ASSUME NEW msg
  PROVE  WellFormed(msg) <=>
           /\ msg = Parts(msg.buffer, msg.head_size, msg.data_size, msg.tail_size)
           /\ msg.buffer \in Seq(Cell)
           /\ msg.head_size \in Nat /\ msg.data_size \in Nat /\ msg.tail_size \in Nat
           /\ Len(msg.buffer) = msg.head_size + msg.data_size + msg.tail_size
BY DEF WellFormed, Room, Cell, Parts

\* Parts that add up to the buffer make a well-formed message.
LEMMA PartsFormed ==
  ASSUME NEW b \in Seq(Cell), NEW h \in Nat, NEW d \in Nat, NEW t \in Nat,
         Len(b) = h + d + t
  PROVE  WellFormed(Parts(b, h, d, t))
BY DEF WellFormed, Room, Cell, Parts

\* Making room keeps the data, and makes enough of it.
LEMMA RoomMade ==
  ASSUME NEW msg, WellFormed(msg), NEW cells \in Nat
  PROVE  /\ WellFormed(Roomy(msg, cells))
         /\ Roomy(msg, cells).tail_size >= cells
         /\ Data(Roomy(msg, cells)) = Data(msg)
<1>1. CASE CanPut(msg, cells)
  BY <1>1 DEF Roomy, CanPut
<1>2. CASE ~ CanPut(msg, cells)
  <2> DEFINE len  == Len(msg.buffer)
             tail == NewTail(msg, cells)
             size == msg.head_size + msg.data_size + tail
             new  == [i \in 1 .. size |-> IF i \in 1 .. len THEN msg.buffer[i] ELSE Junk]
  <2>1. /\ msg.buffer \in Seq(Cell)
        /\ msg.head_size \in Nat /\ msg.data_size \in Nat /\ msg.tail_size \in Nat
        /\ len = msg.head_size + msg.data_size + msg.tail_size
    BY Formed
  <2>2. tail \in Nat /\ tail >= cells
    BY <2>1 DEF NewTail
  <2> HIDE DEF tail
  <2>3. size \in Nat
    BY <2>1, <2>2
  <2>4. \A i \in 1 .. len : msg.buffer[i] \in Cell
    BY <2>1
  <2>5. new \in Seq(Cell) /\ Len(new) = size
    <3>1. new \in [1 .. size -> Cell]
      BY <2>4 DEF Cell
    <3> QED BY <2>3, <3>1
  <2>6. Roomy(msg, cells) = Parts(new, msg.head_size, msg.data_size, tail)
    <3>1. \A i \in 1 .. size : i - (msg.head_size - msg.head_size) = i
      BY <2>1, <2>3
    <3> QED BY <1>2, <2>1, <2>2, <3>1 DEF Roomy, Resize, Parts, tail
  <2>7. \A i \in 1 .. msg.data_size :
          new[msg.head_size + i] = msg.buffer[msg.head_size + i]
    BY <2>1, <2>2
  <2> HIDE DEF new
  <2>8. WellFormed(Roomy(msg, cells))
    BY <2>1, <2>2, <2>5, <2>6, Formed, PartsFields
  <2>9. Data(Roomy(msg, cells)) = Data(msg)
    BY <2>6, <2>7, PartsFields DEF Data
  <2> QED BY <2>2, <2>6, <2>8, <2>9, PartsFields
<1> QED BY <1>1, <1>2

\* Sequences are equal when their elements are.
LEMMA SequencesEqual ==
  ASSUME NEW c \in Seq(Cell), NEW e \in Seq(Cell), Len(c) = Len(e),
         \A i \in 1 .. Len(c) : c[i] = e[i]
  PROVE  c = e
<1>1. c = [i \in 1 .. Len(c) |-> c[i]] /\ e = [i \in 1 .. Len(e) |-> e[i]]
  OBVIOUS
<1> QED BY <1>1

\* A sequence behind another one, by its elements.
LEMMA Concatenation ==
  ASSUME NEW s \in Seq(Cell), NEW xs \in Seq(Cell),
         NEW c, c = [i \in 1 .. Len(s) + Len(xs) |->
                       IF i <= Len(s) THEN s[i] ELSE xs[i - Len(s)]]
  PROVE  c = s \o xs
<1>1. Len(s) \in Nat /\ Len(xs) \in Nat
  OBVIOUS
<1>2. s \o xs \in Seq(Cell) /\ Len(s \o xs) = Len(s) + Len(xs)
  OBVIOUS
<1>3. \A i \in 1 .. Len(s) + Len(xs) :
        (s \o xs)[i] = IF i <= Len(s) THEN s[i] ELSE xs[i - Len(s)]
  OBVIOUS
<1>4. \A i \in 1 .. Len(s) : s[i] \in Cell
  OBVIOUS
<1>5. \A i \in 1 .. Len(xs) : xs[i] \in Cell
  OBVIOUS
<1>6. c \in [1 .. Len(s) + Len(xs) -> Cell]
  BY <1>1, <1>4, <1>5
<1>7. c \in Seq(Cell) /\ Len(c) = Len(s) + Len(xs)
  BY <1>1, <1>6
<1>8. \A i \in 1 .. Len(c) : c[i] = (s \o xs)[i]
  BY <1>3, <1>7
<1> DEFINE e == s \o xs
<1>9. e \in Seq(Cell) /\ Len(c) = Len(e) /\ \A i \in 1 .. Len(c) : c[i] = e[i]
  BY <1>2, <1>7, <1>8
<1> HIDE DEF e
<1>10. c = e
  BY <1>7, <1>9, SequencesEqual
<1> QED BY <1>10 DEF e

\* The data is the part of the buffer behind the head room.
LEMMA DataIsSequence ==
  ASSUME NEW msg, WellFormed(msg)
  PROVE  /\ Data(msg) \in Seq(Cell) /\ Len(Data(msg)) = msg.data_size
         /\ \A i \in 1 .. msg.data_size : Data(msg)[i] = msg.buffer[msg.head_size + i]
<1>1. /\ msg.buffer \in Seq(Cell)
      /\ msg.head_size \in Nat /\ msg.data_size \in Nat /\ msg.tail_size \in Nat
      /\ Len(msg.buffer) = msg.head_size + msg.data_size + msg.tail_size
  BY Formed
<1>2. \A i \in 1 .. msg.data_size : msg.buffer[msg.head_size + i] \in Cell
  BY <1>1
<1>3. Data(msg) \in [1 .. msg.data_size -> Cell]
  BY <1>2 DEF Data
<1>4. \A i \in 1 .. msg.data_size : Data(msg)[i] = msg.buffer[msg.head_size + i]
  BY DEF Data
<1> HIDE DEF Data
<1> QED BY <1>1, <1>3, <1>4

\* Writing into a message with enough room.
LEMMA FilledAppends ==
  ASSUME NEW msg, WellFormed(msg), NEW xs \in Seq(Cell), Len(xs) <= msg.tail_size
  PROVE  /\ WellFormed(Put(Filled(msg, xs), Len(xs)))
         /\ Data(Put(Filled(msg, xs), Len(xs))) = Data(msg) \o xs
<1> DEFINE b     == msg.buffer
           h     == msg.head_size
           d     == msg.data_size
           t     == msg.tail_size
           x     == Len(xs)
           start == h + d
           New(k) == IF k - start \in 1 .. x THEN xs[k - start] ELSE b[k]
           new   == [i \in 1 .. Len(b) |-> New(i)]
           out   == Parts(new, h, d + x, t - x)
<1>1. /\ msg = Parts(b, h, d, t)
      /\ b \in Seq(Cell) /\ h \in Nat /\ d \in Nat /\ t \in Nat
      /\ Len(b) = h + d + t
  BY Formed
<1>2. x \in Nat /\ x <= t
  OBVIOUS
<1>3. Put(Filled(msg, xs), Len(xs)) = out
  <2>1. Filled(msg, xs) = [msg EXCEPT !.buffer = new]
    BY <1>1 DEF Filled
  <2> HIDE DEF new, b, h, d, t
  <2>2. [msg EXCEPT !.buffer = new] = Parts(new, h, d, t)
    BY <1>1 DEF Parts
  <2>3. Put(Filled(msg, xs), x) = Put(Parts(new, h, d, t), x)
    BY <2>1, <2>2
  <2>4. h \in Nat /\ d \in Nat /\ t \in Nat /\ x \in Nat
    BY <1>1, <1>2
  <2>5. ASSUME NEW n, NEW i \in Nat, NEW j \in Nat, NEW k \in Nat, NEW l \in Nat
        PROVE  Put(Parts(n, i, j, k), l) = Parts(n, i, j + l, k - l)
    BY BoundMoved
  <2> HIDE DEF x
  <2> QED BY <2>3, <2>4, <2>5 DEF x
<1>4. new \in Seq(Cell) /\ Len(new) = Len(b)
  <2>1. \A i \in 1 .. Len(b) : b[i] \in Cell
    BY <1>1
  <2>2. \A i \in 1 .. x : xs[i] \in Cell
    OBVIOUS
  <2>3. \A i \in 1 .. Len(b) : New(i) \in Cell
    BY <2>1, <2>2
  <2>4. new \in [1 .. Len(b) -> Cell]
    BY <2>3
  <2>5. Len(b) \in Nat
    BY <1>1
  <2> HIDE DEF new
  <2> QED BY <2>4, <2>5
<1>5. WellFormed(out)
  <2> HIDE DEF new
  <2>1. t - x \in Nat /\ d + x \in Nat /\ h + d + t = h + (d + x) + (t - x)
    BY <1>1, <1>2
  <2>2. new \in Seq(Cell) /\ Len(new) = h + (d + x) + (t - x) /\ h \in Nat
    BY <1>1, <1>4, <2>1
  <2> HIDE DEF b, h, d, t, x
  <2> QED BY <2>1, <2>2, PartsFormed
<1>6. \A i \in 1 .. d + x :
        new[h + i] = IF i <= d THEN Data(msg)[i] ELSE xs[i - d]
  <2> SUFFICES ASSUME NEW i \in 1 .. d + x
               PROVE  new[h + i] = IF i <= d THEN Data(msg)[i] ELSE xs[i - d]
    OBVIOUS
  <2>1. h + i \in 1 .. Len(b)
    BY <1>1, <1>2
  <2>2. new[h + i] = IF h + i - start \in 1 .. x THEN xs[h + i - start] ELSE b[h + i]
    <3> HIDE DEF b, h, d, x
    <3> QED BY <1>1, <1>2, <2>1
  <2> HIDE DEF new
  <2>3. CASE i <= d
    <3>1. i \in 1 .. d /\ h + i - start \notin 1 .. x
      BY <1>1, <1>2, <2>3
    <3>2. Data(msg)[i] = b[h + i]
      BY <3>1, DataIsSequence
    <3>3. new[h + i] = b[h + i]
      BY <2>2, <3>1, Zenon
    <3> QED BY <2>3, <3>2, <3>3
  <2>4. CASE i > d
    <3>1. h + i - start = i - d /\ i - d \in 1 .. x /\ ~ i <= d
      BY <1>1, <1>2, <2>4
    <3>2. new[h + i] = xs[i - d]
      BY <2>2, <3>1, Zenon
    <3> QED BY <3>1, <3>2
  <2> QED BY <1>1, <1>2, <2>3, <2>4
<1>7. Data(out) =
        [i \in 1 .. d + x |-> IF i <= d THEN Data(msg)[i] ELSE xs[i - d]]
  <2> HIDE DEF new
  <2>1. Data(out) = [i \in 1 .. d + x |-> new[h + i]]
    BY PartsFields DEF Data
  <2> QED BY <1>6, <2>1
<1>8. Data(out) = Data(msg) \o xs
  <2>1. Data(msg) \in Seq(Cell) /\ Len(Data(msg)) = d
    BY DataIsSequence
  <2> HIDE DEF out, d, x
  <2>2. Data(out) = [i \in 1 .. Len(Data(msg)) + Len(xs) |->
                       IF i <= Len(Data(msg)) THEN Data(msg)[i]
                                              ELSE xs[i - Len(Data(msg))]]
    BY <1>7, <2>1 DEF x
  <2> QED BY <2>1, <2>2, Concatenation
<1> QED BY <1>3, <1>5, <1>8

\* edsm_message_write puts what it is given behind the data, whether there was
\* room for it or not (message.c:124-132).
THEOREM WriteAppends ==
  ASSUME NEW msg, WellFormed(msg), NEW xs \in Seq(Cell)
  PROVE  /\ WellFormed(Write(msg, xs))
         /\ Data(Write(msg, xs)) = Data(msg) \o xs
<1>1. Len(xs) \in Nat
  OBVIOUS
<1> DEFINE old == Roomy(msg, Len(xs))
<1>2. /\ WellFormed(old) /\ old.tail_size >= Len(xs) /\ Data(old) = Data(msg)
  BY <1>1, RoomMade
<1>3. Write(msg, xs) = Put(Filled(old, xs), Len(xs))
  BY DEF Write
<1> HIDE DEF old
<1>4. old.tail_size \in Nat
  BY <1>2, Formed
<1>5. Len(xs) <= old.tail_size
  BY <1>1, <1>2, <1>4
<1> QED BY <1>2, <1>3, <1>5, FilledAppends

\* edsm_message_read takes cells from the front of the data; when there are too
\* few it fails and takes none (message.c:133-142).
THEOREM ReadTakes ==
  ASSUME NEW msg, WellFormed(msg), NEW cells \in Nat
  PROVE  /\ Read(msg, cells).ok <=> cells <= msg.data_size
         /\ Read(msg, cells).ok => Len(Read(msg, cells).out) = cells
         /\ WellFormed(Read(msg, cells).msg)
         /\ Data(msg) = Read(msg, cells).out \o Data(Read(msg, cells).msg)
<1> DEFINE got  == SubSeq(Data(msg), 1, cells)
           left == Pull(msg, cells)
<1>1. /\ msg = Parts(msg.buffer, msg.head_size, msg.data_size, msg.tail_size)
      /\ msg.buffer \in Seq(Cell)
      /\ msg.head_size \in Nat /\ msg.data_size \in Nat /\ msg.tail_size \in Nat
      /\ Len(msg.buffer) = msg.head_size + msg.data_size + msg.tail_size
  BY Formed
<1>2. /\ Data(msg) \in Seq(Cell) /\ Len(Data(msg)) = msg.data_size
      /\ \A i \in 1 .. msg.data_size : Data(msg)[i] = msg.buffer[msg.head_size + i]
      /\ Data(msg) = [i \in 1 .. msg.data_size |-> Data(msg)[i]]
  <2>1. Data(msg) = [i \in 1 .. msg.data_size |-> Data(msg)[i]]
    BY DEF Data
  <2> QED BY <2>1, DataIsSequence
<1>3. CASE CanPull(msg, cells)
  <2>1. cells <= msg.data_size
    BY <1>1, <1>3 DEF CanPull
  <2>2. Read(msg, cells) = [ok |-> TRUE, out |-> got, msg |-> left]
    BY <1>3 DEF Read
  <2>3. left = Parts(msg.buffer, msg.head_size + cells, msg.data_size - cells,
                     msg.tail_size)
    BY <1>1, BoundMoved
  <2>4. WellFormed(left)
    <3>1. /\ msg.head_size + cells \in Nat /\ msg.data_size - cells \in Nat
          /\ msg.head_size + cells + (msg.data_size - cells) + msg.tail_size
               = Len(msg.buffer)
      BY <1>1, <2>1
    <3>2. WellFormed(Parts(msg.buffer, msg.head_size + cells, msg.data_size - cells,
                           msg.tail_size))
      BY <1>1, <3>1, PartsFormed
    <3> QED BY <2>3, <3>2
  <2>5. /\ got \in Seq(Cell) /\ Len(got) = cells
        /\ \A i \in 1 .. cells : got[i] = Data(msg)[i]
    <3> DEFINE data == Data(msg)
    <3>1. data \in Seq(Cell) /\ cells \in 0 .. Len(data)
      BY <1>1, <1>2, <2>1
    <3> HIDE DEF data
    <3>2. /\ SubSeq(data, 1, cells) \in Seq(Cell) /\ Len(SubSeq(data, 1, cells)) = cells
          /\ \A i \in 1 .. cells : SubSeq(data, 1, cells)[i] = data[i]
      BY <3>1
    <3> QED BY <3>2 DEF data
  <2> HIDE DEF got
  <2>6. /\ Data(left) \in Seq(Cell) /\ Len(Data(left)) = msg.data_size - cells
        /\ \A i \in 1 .. msg.data_size - cells :
             Data(left)[i] = Data(msg)[i + cells]
    <3>1. /\ Data(left) \in Seq(Cell) /\ Len(Data(left)) = left.data_size
          /\ \A i \in 1 .. left.data_size :
               Data(left)[i] = left.buffer[left.head_size + i]
      BY <2>4, DataIsSequence
    <3> HIDE DEF left
    <3>2. ASSUME NEW i \in 1 .. msg.data_size - cells
          PROVE  Data(left)[i] = Data(msg)[i + cells]
      <4>1. i + cells \in 1 .. msg.data_size
        BY <1>1, <2>1
      <4>2. Data(msg)[i + cells] = msg.buffer[msg.head_size + (i + cells)]
        BY <1>2, <4>1
      <4>3. msg.head_size + (i + cells) = msg.head_size + cells + i
        BY <1>1, <4>1
      <4> QED BY <2>3, <3>1, <4>2, <4>3, PartsFields
    <3> QED BY <2>3, <3>1, <3>2, PartsFields
  <2> HIDE DEF left
  <2>7. \A i \in 1 .. msg.data_size :
          Data(msg)[i] = IF i <= Len(got) THEN got[i] ELSE Data(left)[i - Len(got)]
    <3> SUFFICES ASSUME NEW i \in 1 .. msg.data_size
                 PROVE  Data(msg)[i] = IF i <= cells THEN got[i]
                                                     ELSE Data(left)[i - cells]
      BY <2>5
    <3>1. CASE i <= cells
      BY <2>5, <3>1
    <3>2. CASE ~ i <= cells
      <4>1. i - cells \in 1 .. msg.data_size - cells /\ i - cells + cells = i
        BY <1>1, <2>1, <3>2
      <4> QED BY <2>6, <3>2, <4>1
    <3> QED BY <3>1, <3>2
  <2>8. Data(msg) = [i \in 1 .. Len(got) + Len(Data(left)) |->
                       IF i <= Len(got) THEN got[i] ELSE Data(left)[i - Len(got)]]
    <3>1. Len(got) + Len(Data(left)) = msg.data_size
      BY <1>1, <2>1, <2>5, <2>6
    <3> QED BY <1>2, <2>7, <3>1
  <2>9. Data(msg) = got \o Data(left)
    BY <2>5, <2>6, <2>8, Concatenation
  <2> QED BY <2>1, <2>2, <2>4, <2>5, <2>9
<1>4. CASE ~ CanPull(msg, cells)
  <2>1. ~ cells <= msg.data_size
    BY <1>1, <1>4 DEF CanPull
  <2>2. Read(msg, cells) = [ok |-> FALSE, out |-> << >>, msg |-> msg]
    BY <1>4 DEF Read
  <2>3. Data(msg) = << >> \o Data(msg)
    BY <1>2
  <2>4. /\ Read(msg, cells).ok = FALSE /\ Read(msg, cells).out = << >>
        /\ Read(msg, cells).msg = msg
    BY <2>2
  <2> QED BY <2>1, <2>3, <2>4
<1> QED BY <1>3, <1>4

\* msg is a message whose data is xs.
Holds(msg, xs) == WellFormed(msg) /\ xs \in Seq(Cell) /\ Data(msg) = xs

\* What is read when the data begins with xs.
LEMMA ReadFront ==
  ASSUME NEW msg, NEW xs \in Seq(Cell), NEW ys \in Seq(Cell), Holds(msg, xs \o ys)
  PROVE  /\ Read(msg, Len(xs)).ok = TRUE
         /\ Read(msg, Len(xs)).out = xs
         /\ Holds(Read(msg, Len(xs)).msg, ys)
<1> DEFINE got == Read(msg, Len(xs))
           zs  == Data(got.msg)
<1>0. WellFormed(msg) /\ Data(msg) = xs \o ys
  BY DEF Holds
<1>1. Len(xs) \in Nat /\ Len(ys) \in Nat /\ Len(xs \o ys) = Len(xs) + Len(ys)
  BY ConcatProperties
<1>2. /\ msg.data_size = Len(xs) + Len(ys) /\ Len(xs) <= msg.data_size
  <2>1. Len(Data(msg)) = msg.data_size
    BY <1>0, DataIsSequence
  <2>2. msg.data_size = Len(xs) + Len(ys)
    BY <1>0, <1>1, <2>1, Zenon
  <2> QED BY <1>1, <2>2
<1>3. got.ok /\ Len(got.out) = Len(xs) /\ WellFormed(got.msg) /\ xs \o ys = got.out \o zs
  BY <1>0, <1>1, <1>2, ReadTakes
<1>4. got.ok = TRUE /\ got.out = SubSeq(xs \o ys, 1, Len(xs))
  BY <1>0, <1>3 DEF Read
<1> HIDE DEF got
<1>5. zs \in Seq(Cell)
  BY <1>3, DataIsSequence
<1>6. SubSeq(xs \o ys, 1, Len(xs)) = xs
  <2> DEFINE c == xs \o ys
             d == SubSeq(c, 1, Len(xs))
  <2>1. /\ c \in Seq(Cell) /\ Len(c) = Len(xs) + Len(ys)
        /\ \A i \in 1 .. Len(xs) : c[i] = xs[i]
    BY <1>1, ConcatProperties
  <2> HIDE DEF c
  <2>2. d \in Seq(Cell) /\ Len(d) = Len(xs) /\ \A i \in 1 .. Len(xs) : d[i] = c[i]
    BY <1>1, <2>1
  <2> HIDE DEF d
  <2>3. d = xs
    BY <2>1, <2>2, SequencesEqual
  <2> QED BY <2>3 DEF c, d
<1>7. got.out = xs
  BY <1>4, <1>6
<1>8. zs = ys
  BY <1>3, <1>5, <1>7, ConcatSimplifications
<1> QED BY <1>3, <1>4, <1>7, <1>8 DEF got, Holds

\* One cell is read from the front.
LEMMA ReadCell ==
  ASSUME NEW msg, NEW xs \in Seq(Cell), NEW ys \in Seq(Cell), Holds(msg, xs \o ys),
         Len(xs) = 1
  PROVE  /\ Read(msg, 1).ok = TRUE /\ Read(msg, 1).out = xs
         /\ Holds(Read(msg, 1).msg, ys)
<1>1. /\ Read(msg, Len(xs)).ok = TRUE /\ Read(msg, Len(xs)).out = xs
      /\ Holds(Read(msg, Len(xs)).msg, ys)
  BY ReadFront
<1> QED BY <1>1

----------------------------------------------------------------------------
(***************************************************************************)
(* Encodings                                                               *)
(***************************************************************************)

\* What is written goes behind what there is.
LEMMA WriteBehind ==
  ASSUME NEW msg, NEW xs, NEW ys \in Seq(Cell), Holds(msg, xs)
  PROVE  Holds(Write(msg, ys), xs \o ys)
BY WriteAppends, ConcatProperties DEF Holds

\* An empty buffer is well-formed and holds nothing.
LEMMA Created ==
  ASSUME NEW h \in Nat, NEW t \in Nat
  PROVE  Holds(Create(h, t), << >>)
<1> DEFINE b == [i \in 1 .. h + t |-> Junk]
<1>1. h + t \in Nat /\ b \in [1 .. h + t -> Cell]
  BY DEF Cell
<1>2. b \in Seq(Cell) /\ Len(b) = h + 0 + t
  BY <1>1
<1>3. Create(h, t) = Parts(b, h, 0, t)
  BY DEF Create, Parts
<1> HIDE DEF b
<1>4. WellFormed(Create(h, t)) /\ Create(h, t).data_size = 0
  BY <1>2, <1>3, PartsFormed, PartsFields
<1> QED BY <1>4, DataIsSequence, EmptySeq DEF Holds

\* A message made of xs holds xs.
LEMMA HoldingData ==
  ASSUME NEW xs \in Seq(Cell)
  PROVE  Holds(Holding(xs), xs)
<1> DEFINE msg == Create(0, Len(xs))
<1>1. Len(xs) \in Nat
  OBVIOUS
<1>2. WellFormed(msg) /\ Data(msg) = << >> /\ msg.tail_size = Len(xs)
  BY <1>1, Created DEF Create, Holds
<1>3. Holding(xs) = Put(Filled(msg, xs), Len(xs))
  BY DEF Holding
<1> HIDE DEF msg
<1>4. WellFormed(Holding(xs)) /\ Data(Holding(xs)) = << >> \o xs
  BY <1>1, <1>2, <1>3, FilledAppends
<1> QED BY <1>4, ConcatEmptySeq DEF Holds

\* edsm_message_clone copies the data.
LEMMA CloneData ==
  ASSUME NEW msg, NEW xs, Holds(msg, xs)
  PROVE  Holds(Clone(msg), xs)
<1> DEFINE b == msg.buffer
           h == msg.head_size
           d == msg.data_size
           t == msg.tail_size
           New(i) == IF i - h \in 1 .. d THEN b[i] ELSE Junk
           new == [i \in 1 .. Len(b) |-> New(i)]
<1>1. /\ msg = Parts(b, h, d, t)
      /\ b \in Seq(Cell) /\ h \in Nat /\ d \in Nat /\ t \in Nat
      /\ Len(b) = h + d + t
  BY Formed DEF Holds
<1>2. new \in Seq(Cell) /\ Len(new) = Len(b)
  <2>1. \A i \in 1 .. Len(b) : New(i) \in Cell
    BY <1>1 DEF Cell
  <2>2. Len(b) \in Nat /\ new \in [1 .. Len(b) -> Cell]
    BY <1>1, <2>1
  <2> HIDE DEF new
  <2> QED BY <2>2
<1>3. Clone(msg) = Parts(new, h, d, t)
  <2>1. Clone(msg) = [msg EXCEPT !.buffer = new]
    BY DEF Clone
  <2> HIDE DEF new, b, h, d, t
  <2> QED BY <1>1, <2>1 DEF Parts
<1>4. \A i \in 1 .. d : new[h + i] = b[h + i]
  <2> TAKE i \in 1 .. d
  <2> DEFINE j == h + i
  <2>1. j \in 1 .. Len(b) /\ j - h \in 1 .. d
    BY <1>1
  <2> HIDE DEF j, b, h, d
  <2>2. new[j] = b[j]
    BY <2>1
  <2> QED BY <2>2 DEF j
<1> HIDE DEF new
<1>5. WellFormed(Clone(msg))
  BY <1>1, <1>2, <1>3, PartsFormed
<1>6. Data(Clone(msg)) = [i \in 1 .. d |-> new[h + i]]
  BY <1>3, PartsFields DEF Data
<1>7. Data(Clone(msg)) = Data(msg)
  BY <1>4, <1>6 DEF Data
<1> QED BY <1>5, <1>7 DEF Holds

\* A message is not NULL.
LEMMA NotNull ==
  ASSUME NEW msg, NEW xs, Holds(msg, xs)
  PROVE  msg # NoMessage
<1>1. DOMAIN msg = {"buffer", "head_size", "data_size", "tail_size"}
  BY DEF Holds, WellFormed, Room
<1>2. DOMAIN NoMessage = {"none"}
  BY DEF NoMessage
<1> QED BY <1>1, <1>2

\* How strings and messages in a message are laid out: a length and so many cells.
Prefixed(xs) == <<Len(xs)>> \o xs

\* Numbers are cells.
LEMMA NumbersAreCells ==
  /\ \A k \in Nat : <<k>> \in Seq(Cell) /\ Len(<<k>>) = 1 /\ <<k>>[1] = k
  /\ \A xs \in Seq(Nat) : /\ xs \in Seq(Cell) /\ Prefixed(xs) \in Seq(Cell)
                          /\ <<Len(xs)>> \in Seq(Cell)
<1>1. \A k \in Nat : <<k>> \in Seq(Cell) /\ Len(<<k>>) = 1 /\ <<k>>[1] = k
  BY DEF Cell
<1>2. ASSUME NEW xs \in Seq(Nat)
      PROVE  /\ xs \in Seq(Cell) /\ Prefixed(xs) \in Seq(Cell)
             /\ <<Len(xs)>> \in Seq(Cell)
  <2>1. xs \in Seq(Cell)
    BY SeqMonotonic DEF Cell
  <2>2. <<Len(xs)>> \in Seq(Cell)
    BY <1>1
  <2> QED BY <2>1, <2>2, ConcatProperties DEF Prefixed
<1> QED BY <1>1, <1>2

\* edsm_message_write_string
LEMMA StringWritten ==
  ASSUME NEW dst, NEW ds, NEW xs \in Seq(Nat), Holds(dst, ds)
  PROVE  Holds(WriteString(dst, xs), ds \o Prefixed(xs))
<1> DEFINE size  == <<Len(xs)>>
           sized == Write(dst, size)
<1>1. size \in Seq(Cell) /\ xs \in Seq(Cell) /\ ds \in Seq(Cell)
  BY NumbersAreCells DEF Holds
<1>2. WriteString(dst, xs) = Write(sized, xs)
  BY DEF WriteString
<1>3. Prefixed(xs) = size \o xs
  BY DEF Prefixed
<1> HIDE DEF size
<1>4. Holds(sized, ds \o size)
  BY <1>1, WriteBehind
<1> HIDE DEF sized
<1>5. Holds(WriteString(dst, xs), (ds \o size) \o xs)
  BY <1>1, <1>2, <1>4, WriteBehind
<1>6. (ds \o size) \o xs = ds \o (size \o xs)
  BY <1>1, CellsAssociative, Zenon
<1> QED BY <1>3, <1>5, <1>6

\* edsm_message_write_message, of NULL too.
LEMMA MessageWritten ==
  ASSUME NEW dst, NEW ds, NEW xs \in Seq(Nat), Holds(dst, ds)
  PROVE  Holds(WriteMessage(dst, Submessage(xs)), ds \o Prefixed(xs))
<1>1. CASE xs = << >>
  <2>1. WriteMessage(dst, Submessage(xs)) = Write(dst, <<0>>)
    BY <1>1 DEF WriteMessage, Submessage
  <2>2. <<0>> \in Seq(Cell)
    BY NumbersAreCells
  <2>3. Prefixed(xs) = <<0>>
    BY <1>1, <2>2, ConcatEmptySeq DEF Prefixed
  <2> QED BY <2>1, <2>2, <2>3, WriteBehind
<1>2. CASE xs # << >>
  <2> DEFINE val == Holding(xs)
  <2>1. Holds(val, xs)
    BY NumbersAreCells, HoldingData
  <2>2. Data(val) = xs /\ val.data_size = Len(xs)
    BY <2>1, DataIsSequence DEF Holds
  <2>3. val # NoMessage
    BY <2>1, NotNull
  <2>4. Submessage(xs) = val
    BY <1>2 DEF Submessage
  <2> HIDE DEF val
  <2>5. WriteMessage(dst, Submessage(xs)) = WriteString(dst, xs)
    BY <2>2, <2>3, <2>4 DEF WriteMessage, WriteString
  <2> QED BY <2>5, StringWritten
<1> QED BY <1>1, <1>2

\* edsm_message_read_string
LEMMA StringRead ==
  ASSUME NEW msg, NEW xs \in Seq(Nat), NEW ys \in Seq(Cell),
         Holds(msg, Prefixed(xs) \o ys)
  PROVE  /\ ReadString(msg).ok = TRUE /\ ReadString(msg).out = xs
         /\ Holds(ReadString(msg).msg, ys)
<1> DEFINE size == Read(msg, 1)
           cell == <<Len(xs)>>
<1>1. cell \in Seq(Cell) /\ Len(cell) = 1 /\ cell[1] = Len(xs) /\ xs \in Seq(Cell)
  BY NumbersAreCells, LenProperties
<1>2. Prefixed(xs) = cell \o xs
  BY DEF Prefixed
<1> HIDE DEF cell
<1>3. xs \o ys \in Seq(Cell) /\ Holds(msg, cell \o (xs \o ys))
  <2>1. (cell \o xs) \o ys = cell \o (xs \o ys)
    BY <1>1, CellsAssociative, Zenon
  <2>2. xs \o ys \in Seq(Cell)
    BY <1>1, ConcatProperties
  <2> QED BY <1>2, <2>1, <2>2
<1>4. size.ok = TRUE /\ size.out = cell /\ Holds(size.msg, xs \o ys)
  BY <1>1, <1>3, ReadCell
<1>5. ReadString(msg) = Read(size.msg, Len(xs))
  BY <1>1, <1>4 DEF ReadString
<1> HIDE DEF size
<1>6. /\ Read(size.msg, Len(xs)).ok = TRUE /\ Read(size.msg, Len(xs)).out = xs
      /\ Holds(Read(size.msg, Len(xs)).msg, ys)
  BY <1>1, <1>4, ReadFront
<1> QED BY <1>5, <1>6

\* edsm_message_read_message
LEMMA MessageRead ==
  ASSUME NEW msg, NEW xs \in Seq(Nat), NEW ys \in Seq(Cell),
         Holds(msg, Prefixed(xs) \o ys)
  PROVE  /\ ReadMessage(msg).ok = TRUE
         /\ Contents(ReadMessage(msg).out) = xs
         /\ Holds(ReadMessage(msg).msg, ys)
<1> DEFINE size == Read(msg, 1)
           body == Read(size.msg, Len(xs))
           cell == <<Len(xs)>>
<1>1. cell \in Seq(Cell) /\ Len(cell) = 1 /\ cell[1] = Len(xs) /\ xs \in Seq(Cell)
  BY NumbersAreCells, LenProperties
<1>2. Prefixed(xs) = cell \o xs
  BY DEF Prefixed
<1> HIDE DEF cell
<1>3. xs \o ys \in Seq(Cell) /\ Holds(msg, cell \o (xs \o ys))
  <2>1. (cell \o xs) \o ys = cell \o (xs \o ys)
    BY <1>1, CellsAssociative, Zenon
  <2>2. xs \o ys \in Seq(Cell)
    BY <1>1, ConcatProperties
  <2> QED BY <1>2, <2>1, <2>2
<1>4. size.ok = TRUE /\ size.out = cell /\ Holds(size.msg, xs \o ys)
  BY <1>1, <1>3, ReadCell
<1>5. ReadMessage(msg) =
        IF Len(xs) = 0
        THEN [ok |-> TRUE, out |-> NoMessage, msg |-> size.msg]
        ELSE [ok |-> body.ok, out |-> Holding(body.out), msg |-> body.msg]
  BY <1>1, <1>4 DEF ReadMessage
<1> HIDE DEF size
<1>6. body.ok = TRUE /\ body.out = xs /\ Holds(body.msg, ys)
  BY <1>1, <1>4, ReadFront
<1> HIDE DEF body
<1>7. CASE xs = << >>
  <2>1. ReadMessage(msg) = [ok |-> TRUE, out |-> NoMessage, msg |-> size.msg]
    BY <1>5, <1>7
  <2>2. xs \o ys = ys
    BY <1>7, ConcatEmptySeq
  <2> QED BY <1>4, <1>7, <2>1, <2>2 DEF Contents
<1>8. CASE xs # << >>
  <2>1. Len(xs) # 0
    BY <1>8, EmptySeq
  <2>2. ReadMessage(msg) = [ok |-> TRUE, out |-> Holding(xs), msg |-> body.msg]
    BY <1>5, <1>6, <2>1
  <2>3. Data(Holding(xs)) = xs /\ Holding(xs) # NoMessage
    BY <1>1, HoldingData, NotNull DEF Holds
  <2> QED BY <1>6, <2>2, <2>3 DEF Contents
<1> QED BY <1>7, <1>8

\* The messages by their kinds.
TaskContent == [kind : {"task"}, name : Seq(Nat), event : Nat, data : Seq(Nat)]
IdContent   == [kind : {"create", "get"}, id : Nat]
HaveContent == [kind : {"get_reply"}, id : Nat, have : Nat]
ObjContent  == [kind : {"obj_msg"}, id : Nat, data : Seq(Nat)]

\* A reply to a GET is one of them.
LEMMA MessageKinds ==
  ASSUME NEW c \in Message
  PROVE  c \in TaskContent \/ c \in IdContent \/ c \in HaveContent \/ c \in ObjContent
<1>1. ASSUME NEW d \in Content
      PROVE  d \in TaskContent \/ d \in IdContent \/ d \in HaveContent \/ d \in ObjContent
  BY ContentAssumption DEF TaskContent, IdContent, HaveContent, ObjContent
<1>2. ASSUME NEW d \in Content, d.kind = "get"
      PROVE  GetReply(d) \in HaveContent
  <2>1. d \in IdContent
    BY <1>1, <1>2 DEF TaskContent, IdContent, HaveContent, ObjContent
  <2> QED BY <2>1 DEF IdContent, HaveContent, GetReply
<1> QED BY <1>1, <1>2 DEF Message

\* edsm_task_handle_up_call reads what edsm_task_send_up_call has written.
LEMMA UpCallRead ==
  ASSUME NEW c \in TaskContent
  PROVE  \E xs : /\ Holds(UpCallMessage(c), xs)
                 /\ \A msg : Holds(msg, xs) => ReadUpCall(msg) = c
<1> DEFINE as    == Prefixed(c.name)
           bs    == <<c.event>>
           ds    == Prefixed(c.data)
           named == WriteString(Create(0, TaskRoom), c.name)
           done  == Write(named, bs)
<1>1. c.name \in Seq(Nat) /\ c.event \in Nat /\ c.data \in Seq(Nat)
  BY DEF TaskContent
<1>2. /\ as \in Seq(Cell) /\ ds \in Seq(Cell)
      /\ bs \in Seq(Cell) /\ Len(bs) = 1 /\ bs[1] = c.event
  BY <1>1, NumbersAreCells
<1>3. Holds(named, as)
  <2> DEFINE empty == Create(0, TaskRoom)
  <2>1. Holds(empty, << >>)
    BY CapacityAssumption, Created
  <2> HIDE DEF empty
  <2>2. Holds(WriteString(empty, c.name), << >> \o Prefixed(c.name))
    BY <1>1, <2>1, StringWritten
  <2>3. << >> \o Prefixed(c.name) = as
    BY <1>2, ConcatEmptySeq
  <2> QED BY <2>2, <2>3 DEF empty
<1> HIDE DEF named, as, bs
<1>4. Holds(done, as \o bs)
  BY <1>2, <1>3, WriteBehind
<1>5. Holds(UpCallMessage(c), (as \o bs) \o ds)
  <2>1. UpCallMessage(c) = WriteMessage(done, Submessage(c.data))
    BY DEF UpCallMessage, named, bs
  <2> HIDE DEF done
  <2> QED BY <1>1, <1>4, <2>1, MessageWritten
<1> HIDE DEF ds
<1>6. bs \o ds \in Seq(Cell) /\ (as \o bs) \o ds = as \o (bs \o ds)
  <2>1. bs \o ds \in Seq(Cell)
    BY <1>2, ConcatProperties
  <2>2. as \in Seq(Cell) /\ bs \in Seq(Cell) /\ ds \in Seq(Cell)
    BY <1>2
  <2>3. (as \o bs) \o ds = as \o (bs \o ds)
    BY <2>2, CellsAssociative, Zenon
  <2> QED BY <2>1, <2>3
<1>7. ASSUME NEW msg, Holds(msg, (as \o bs) \o ds)
      PROVE  ReadUpCall(msg) = c
  <2> DEFINE name  == ReadString(msg)
             event == Read(name.msg, 1)
             data  == ReadMessage(event.msg)
  <2>1. name.ok = TRUE /\ name.out = c.name /\ Holds(name.msg, bs \o ds)
    BY <1>1, <1>6, <1>7, StringRead DEF as
  <2>2. event.ok = TRUE /\ event.out = bs /\ Holds(event.msg, ds)
    <3> HIDE DEF name
    <3> QED BY <1>2, <2>1, ReadCell
  <2>3. data.ok = TRUE /\ Contents(data.out) = c.data
    <3>1. << >> \in Seq(Cell) /\ ds = ds \o << >>
      BY <1>2, EmptySeq, ConcatEmptySeq
    <3>2. Holds(event.msg, Prefixed(c.data) \o << >>)
      BY <2>2, <3>1 DEF ds
    <3> HIDE DEF event
    <3> QED BY <1>1, <3>1, <3>2, MessageRead
  <2>4. ReadUpCall(msg) =
          IF name.ok /\ event.ok /\ data.ok
          THEN [kind |-> "task", name |-> name.out, event |-> event.out[1],
                data |-> Contents(data.out)]
          ELSE Unreadable
    BY DEF ReadUpCall
  <2> HIDE DEF name, event, data
  <2>5. ReadUpCall(msg) = [kind |-> "task", name |-> c.name, event |-> c.event,
                           data |-> c.data]
    BY <1>2, <2>1, <2>2, <2>3, <2>4
  <2> QED BY <2>5 DEF TaskContent
<1> QED BY <1>5, <1>7

\* A type, as the handler tells it.
LEMMA CodesDiffer ==
  \A a, b \in Nat : a # b => <<a>> # <<b>>
OBVIOUS

\* The type and the id, with which every message of the dobj layer begins.
LEMMA HeadWritten ==
  ASSUME NEW room \in Nat, NEW code \in Nat, NEW id \in Nat
  PROVE  Holds(Write(Write(Create(0, room), <<code>>), <<id>>), <<code>> \o <<id>>)
<1> DEFINE as    == <<code>>
           bs    == <<id>>
           empty == Create(0, room)
<1>1. as \in Seq(Cell) /\ bs \in Seq(Cell)
  BY NumbersAreCells
<1>2. Holds(empty, << >>)
  BY Created
<1> HIDE DEF as, bs, empty
<1>3. Holds(Write(empty, as), << >> \o as) /\ << >> \o as = as
  BY <1>1, <1>2, WriteBehind, ConcatEmptySeq
<1>4. Holds(Write(Write(empty, as), bs), as \o bs)
  BY <1>1, <1>3, WriteBehind
<1> QED BY <1>4 DEF as, bs, empty

\* They are read before the rest.
LEMMA HeadRead ==
  ASSUME NEW msg, NEW code \in Nat, NEW id \in Nat, NEW ys \in Seq(Cell),
         Holds(msg, (<<code>> \o <<id>>) \o ys)
  PROVE  /\ Read(msg, 1).out = <<code>>
         /\ Read(Read(msg, 1).msg, 1).ok = TRUE
         /\ Read(Read(msg, 1).msg, 1).out[1] = id
         /\ Holds(Read(Read(msg, 1).msg, 1).msg, ys)
<1> DEFINE as   == <<code>>
           bs   == <<id>>
           type == Read(msg, 1)
<1>1. /\ as \in Seq(Cell) /\ Len(as) = 1
      /\ bs \in Seq(Cell) /\ Len(bs) = 1 /\ bs[1] = id
  BY NumbersAreCells
<1>2. Holds(msg, (as \o bs) \o ys)
  OBVIOUS
<1> HIDE DEF as, bs
<1>3. (as \o bs) \o ys = as \o (bs \o ys) /\ bs \o ys \in Seq(Cell)
  <2>1. bs \o ys \in Seq(Cell)
    BY <1>1, ConcatProperties
  <2>2. as \in Seq(Cell) /\ bs \in Seq(Cell)
    BY <1>1
  <2>3. (as \o bs) \o ys = as \o (bs \o ys)
    BY <2>2, CellsAssociative, Zenon
  <2> QED BY <2>1, <2>3
<1>4. type.out = as /\ Holds(type.msg, bs \o ys)
  BY <1>1, <1>2, <1>3, ReadCell
<1> HIDE DEF type
<1>5. /\ Read(type.msg, 1).ok = TRUE /\ Read(type.msg, 1).out = bs
      /\ Holds(Read(type.msg, 1).msg, ys)
  BY <1>1, <1>4, ReadCell
<1> QED BY <1>1, <1>4, <1>5 DEF as, type

\* edsm_dobj_handle_message reads what edsm_dobj_create and edsm_dobj_send_get have
\* written,
LEMMA IdRead ==
  ASSUME NEW c \in IdContent
  PROVE  \E xs : /\ Holds(Encoded(c), xs)
                 /\ \A msg : Holds(msg, xs) => ReadDobj(msg) = c
<1> DEFINE code == IF c.kind = "create" THEN DOBJ_MSG_TYPE_CREATE
                                        ELSE DOBJ_MSG_TYPE_GET
           head == <<code>> \o <<c.id>>
<1>1. c.id \in Nat /\ c.kind \in {"create", "get"} /\ code \in {1, 2} /\ code \in Nat
  BY DEF IdContent, DOBJ_MSG_TYPE_CREATE, DOBJ_MSG_TYPE_GET
<1>2. Encoded(c) = Write(Write(Create(0, 2), <<code>>), <<c.id>>)
  BY <1>1 DEF Encoded, CreateMessage, GetMessage
<1> HIDE DEF code
<1>3. Holds(Encoded(c), head)
  BY <1>1, <1>2, HeadWritten
<1>4. ASSUME NEW msg, Holds(msg, head)
      PROVE  ReadDobj(msg) = c
  <2> DEFINE type == Read(msg, 1)
             id   == Read(type.msg, 1)
  <2>1. type.out = <<code>> /\ id.ok = TRUE /\ id.out[1] = c.id
    <3>1. << >> \in Seq(Cell) /\ head \o << >> = head
      BY <1>4, EmptySeq, ConcatEmptySeq DEF Holds
    <3>2. Holds(msg, (<<code>> \o <<c.id>>) \o << >>)
      BY <1>4, <3>1
    <3> QED BY <1>1, <3>1, <3>2, HeadRead
  <2>2. /\ code = 1 => ReadDobj(msg) = [kind |-> "create", id |-> id.out[1]]
        /\ code = 2 => ReadDobj(msg) = [kind |-> "get", id |-> id.out[1]]
    <3>1. <<1>> # <<2>> /\ <<1>> # <<3>> /\ <<1>> # <<4>> /\ <<2>> # <<3>> /\ <<2>> # <<4>>
      BY CodesDiffer
    <3>2. type.out = <<code>> /\ id.ok
      BY <2>1
    <3> QED BY <3>1, <3>2, Zenon
        DEF ReadDobj, DOBJ_MSG_TYPE_CREATE, DOBJ_MSG_TYPE_GET,
            DOBJ_MSG_TYPE_GET_REPLY, DOBJ_MSG_TYPE_OBJ_MSG
  <2> HIDE DEF id, type
  <2>3. c = [kind |-> c.kind, id |-> c.id]
    BY DEF IdContent
  <2> QED BY <1>1, <2>1, <2>2, <2>3
      DEF code, DOBJ_MSG_TYPE_CREATE, DOBJ_MSG_TYPE_GET
<1> QED BY <1>3, <1>4

\* edsm_dobj_send_get_reply,
LEMMA HaveRead ==
  ASSUME NEW c \in HaveContent
  PROVE  \E xs : /\ Holds(Encoded(c), xs)
                 /\ \A msg : Holds(msg, xs) => ReadDobj(msg) = c
<1> DEFINE headed == Write(Write(Create(0, 2), <<3>>), <<c.id>>)
           head   == <<3>> \o <<c.id>>
           ys     == <<c.have>>
<1>1. c.id \in Nat /\ c.have \in Nat /\ c.kind = "get_reply" /\ 3 \in Nat
  BY DEF HaveContent
<1>2. Encoded(c) = Write(headed, ys)
  BY <1>1 DEF Encoded, GetReplyMessage, DOBJ_MSG_TYPE_GET_REPLY
<1>3. Holds(headed, head)
  BY <1>1, HeadWritten
<1>4. ys \in Seq(Cell) /\ Len(ys) = 1 /\ ys[1] = c.have
  BY <1>1, NumbersAreCells
<1> HIDE DEF headed, ys
<1>5. Holds(Encoded(c), head \o ys)
  BY <1>2, <1>3, <1>4, WriteBehind
<1>6. ASSUME NEW msg, Holds(msg, head \o ys)
      PROVE  ReadDobj(msg) = c
  <2> DEFINE type == Read(msg, 1)
             id   == Read(type.msg, 1)
             have == Read(id.msg, 1)
  <2>1. type.out = <<3>> /\ id.out[1] = c.id /\ Holds(id.msg, ys)
    <3> DEFINE code == 3
               cid  == c.id
    <3>1. Holds(msg, (<<code>> \o <<cid>>) \o ys)
      BY <1>6
    <3>2. ys \in Seq(Cell) /\ code \in Nat /\ cid \in Nat
      BY <1>1, <1>4
    <3> HIDE DEF code, cid
    <3>3. /\ type.out = <<code>> /\ id.out[1] = cid
          /\ Holds(id.msg, ys)
      BY <3>1, <3>2, HeadRead
    <3> QED BY <3>3 DEF code, cid
  <2>2. have.ok = TRUE /\ have.out[1] = c.have
    <3>1. << >> \in Seq(Cell) /\ ys \o << >> = ys
      BY <1>4, EmptySeq, ConcatEmptySeq
    <3>2. Holds(id.msg, ys \o << >>)
      BY <2>1, <3>1
    <3> HIDE DEF id
    <3> QED BY <1>4, <3>1, <3>2, ReadCell
  <2>3. ReadDobj(msg) = [kind |-> "get_reply", id |-> id.out[1], have |-> have.out[1]]
    <3>1. <<1>> # <<3>> /\ <<2>> # <<3>> /\ <<3>> # <<4>>
      BY CodesDiffer
    <3>2. type.out = <<3>> /\ have.ok
      BY <2>1, <2>2
    <3> QED BY <3>1, <3>2, Zenon
        DEF ReadDobj, DOBJ_MSG_TYPE_CREATE, DOBJ_MSG_TYPE_GET,
            DOBJ_MSG_TYPE_GET_REPLY, DOBJ_MSG_TYPE_OBJ_MSG
  <2> HIDE DEF id, type, have
  <2>4. c = [kind |-> "get_reply", id |-> c.id, have |-> c.have]
    BY DEF HaveContent
  <2> QED BY <2>1, <2>2, <2>3, <2>4
<1> QED BY <1>5, <1>6

\* and edsm_dobj_send.
LEMMA ObjMsgRead ==
  ASSUME NEW c \in ObjContent
  PROVE  \E xs : /\ Holds(Encoded(c), xs)
                 /\ \A msg : Holds(msg, xs) => ReadDobj(msg) = c
<1> DEFINE room   == 2 + Len(c.data)
           headed == Write(Write(Create(0, room), <<4>>), <<c.id>>)
           head   == <<4>> \o <<c.id>>
           ys     == Prefixed(c.data)
<1>1. /\ c.id \in Nat /\ c.data \in Seq(Nat) /\ c.kind = "obj_msg"
      /\ room \in Nat /\ 4 \in Nat
  BY DEF ObjContent
<1>2. Encoded(c) = WriteMessage(headed, Submessage(c.data))
  BY <1>1 DEF Encoded, ObjMsgMessage, DOBJ_MSG_TYPE_OBJ_MSG
<1> HIDE DEF room
<1>3. Holds(headed, head)
  BY <1>1, HeadWritten
<1> HIDE DEF headed
<1>4. ys \in Seq(Cell)
  BY <1>1, NumbersAreCells
<1>5. Holds(Encoded(c), head \o ys)
  BY <1>1, <1>2, <1>3, MessageWritten
<1> HIDE DEF ys
<1>6. ASSUME NEW msg, Holds(msg, head \o ys)
      PROVE  ReadDobj(msg) = c
  <2> DEFINE type == Read(msg, 1)
             id   == Read(type.msg, 1)
             data == ReadMessage(id.msg)
  <2>1. type.out = <<4>> /\ id.out[1] = c.id /\ Holds(id.msg, ys)
    <3> DEFINE code == 4
               cid  == c.id
    <3>1. Holds(msg, (<<code>> \o <<cid>>) \o ys)
      BY <1>6
    <3>2. ys \in Seq(Cell) /\ code \in Nat /\ cid \in Nat
      BY <1>1, <1>4
    <3> HIDE DEF code, cid
    <3>3. /\ type.out = <<code>> /\ id.out[1] = cid
          /\ Holds(id.msg, ys)
      BY <3>1, <3>2, HeadRead
    <3> QED BY <3>3 DEF code, cid
  <2>2. data.ok = TRUE /\ Contents(data.out) = c.data
    <3>1. << >> \in Seq(Cell) /\ ys \o << >> = ys
      BY <1>4, EmptySeq, ConcatEmptySeq
    <3>2. Holds(id.msg, Prefixed(c.data) \o << >>)
      BY <2>1, <3>1 DEF ys
    <3> HIDE DEF id
    <3> QED BY <1>1, <3>1, <3>2, MessageRead
  <2>3. ReadDobj(msg) =
          [kind |-> "obj_msg", id |-> id.out[1], data |-> Contents(data.out)]
    <3>1. <<1>> # <<4>> /\ <<2>> # <<4>> /\ <<3>> # <<4>>
      BY CodesDiffer
    <3>2. type.out = <<4>> /\ data.ok
      BY <2>1, <2>2
    <3> QED BY <3>1, <3>2, Zenon
        DEF ReadDobj, DOBJ_MSG_TYPE_CREATE, DOBJ_MSG_TYPE_GET,
            DOBJ_MSG_TYPE_GET_REPLY, DOBJ_MSG_TYPE_OBJ_MSG
  <2> HIDE DEF id, type, data
  <2>4. c = [kind |-> "obj_msg", id |-> c.id, data |-> c.data]
    BY DEF ObjContent
  <2> QED BY <2>1, <2>2, <2>3, <2>4
<1> QED BY <1>5, <1>6

\* A handler reads from the data of an encoded message what was sent.
LEMMA EncodedRead ==
  ASSUME NEW c \in Message
  PROVE  \E xs : /\ Holds(Encoded(c), xs)
                 /\ \A msg : Holds(msg, xs) => Handled(TypeOf(c), msg) = c
<1>1. CASE c \in TaskContent
  <2>1. c.kind = "task" /\ Encoded(c) = UpCallMessage(c)
    BY <1>1 DEF TaskContent, Encoded
  <2>2. \A msg : Handled(TypeOf(c), msg) = ReadUpCall(msg)
    BY <2>1 DEF Handled, TypeOf, MSG_TYPE_TASK, MSG_TYPE_DOBJ
  <2> QED BY <1>1, <2>1, <2>2, UpCallRead
<1>2. CASE c \in IdContent \/ c \in HaveContent \/ c \in ObjContent
  <2>1. c.kind # "task"
    BY <1>2 DEF IdContent, HaveContent, ObjContent
  <2>2. \A msg : Handled(TypeOf(c), msg) = ReadDobj(msg)
    BY <2>1 DEF Handled, TypeOf, MSG_TYPE_TASK, MSG_TYPE_DOBJ
  <2>3. \E xs : Holds(Encoded(c), xs) /\ \A msg : Holds(msg, xs) => ReadDobj(msg) = c
    BY <1>2, IdRead, HaveRead, ObjMsgRead
  <2> QED BY <2>2, <2>3
<1> QED BY <1>1, <1>2, MessageKinds

----------------------------------------------------------------------------
(***************************************************************************)
(* Frames                                                                  *)
(***************************************************************************)

\* fd_send_message begins with the size, and the listener reads from the rest what
\* was sent.
THEOREM FramesAreRead ==
  ASSUME NEW c \in Message
  PROVE  /\ Frame[c] \in Seq(Cell) /\ Len(Frame[c]) >= 2
         /\ Frame[c][1] = Len(Frame[c]) - 1
         /\ Received[Tail(Frame[c])] = c
<1>1. PICK xs : /\ Holds(Encoded(c), xs)
                /\ \A msg : Holds(msg, xs) => Handled(TypeOf(c), msg) = c
  BY EncodedRead
<1> DEFINE type == TypeOf(c)
           code == <<type>>
           body == code \o xs
<1>2. xs \in Seq(Cell) /\ Len(xs) \in Nat
  BY <1>1 DEF Holds
<1>3. type \in Nat
  BY DEF TypeOf, MSG_TYPE_TASK, MSG_TYPE_DOBJ
<1>4. Frame[c] = <<Len(xs) + 1, type>> \o xs
  <2>1. Data(Encoded(c)) = xs /\ Encoded(c).data_size = Len(xs)
    BY <1>1, DataIsSequence DEF Holds
  <2> QED BY <2>1 DEF Frame
<1> HIDE DEF type
<1>5. code \in Seq(Cell) /\ Len(code) = 1 /\ code[1] = type
  BY <1>3, NumbersAreCells
<1>6. /\ Frame[c] \in Seq(Cell) /\ Len(Frame[c]) = Len(xs) + 2
      /\ Frame[c][1] = Len(xs) + 1 /\ Tail(Frame[c]) = body
  <2> DEFINE size == <<Len(xs) + 1, type>>
  <2>1. /\ size \in Seq(Cell) /\ Len(size) = 2
        /\ size[1] = Len(xs) + 1 /\ size[2] = type
    BY <1>2, <1>3 DEF Cell
  <2> HIDE DEF size
  <2> DEFINE f == size \o xs
  <2>2. /\ f \in Seq(Cell) /\ Len(f) = Len(xs) + 2
        /\ \A i \in 1 .. Len(xs) + 2 : f[i] = IF i <= 2 THEN size[i] ELSE xs[i - 2]
    <3>1. /\ f \in Seq(Cell) /\ Len(f) = Len(size) + Len(xs)
          /\ \A i \in 1 .. Len(size) + Len(xs) :
               f[i] = IF i <= Len(size) THEN size[i] ELSE xs[i - Len(size)]
      BY <1>2, <2>1, ConcatProperties
    <3>2. Len(size) = 2 /\ Len(size) + Len(xs) = Len(xs) + 2
      BY <1>2, <2>1
    <3> HIDE DEF f
    <3> QED BY <3>1, <3>2
  <2>3. /\ body \in Seq(Cell) /\ Len(body) = Len(xs) + 1
        /\ \A i \in 1 .. Len(xs) + 1 : body[i] = IF i <= 1 THEN type ELSE xs[i - 1]
    <3> HIDE DEF code
    <3>1. /\ body \in Seq(Cell) /\ Len(body) = Len(code) + Len(xs)
          /\ \A i \in 1 .. Len(code) + Len(xs) :
               body[i] = IF i <= Len(code) THEN code[i] ELSE xs[i - Len(code)]
      BY <1>2, <1>5, ConcatProperties
    <3> HIDE DEF body
    <3>2. Len(code) = 1 /\ Len(code) + Len(xs) = Len(xs) + 1
      BY <1>2, <1>5
    <3>3. \A i \in 1 .. Len(xs) + 1 : i <= 1 => i = 1
      BY <1>2
    <3> QED BY <1>5, <3>1, <3>2, <3>3
  <2> HIDE DEF f, body
  <2>4. /\ Tail(f) \in Seq(Cell) /\ Len(Tail(f)) = Len(xs) + 1
        /\ \A i \in 1 .. Len(xs) + 1 : Tail(f)[i] = f[i + 1]
    BY <1>2, <2>2, EmptySeq, HeadTailProperties
  <2>5. \A i \in 1 .. Len(xs) + 1 : Tail(f)[i] = body[i]
    <3> TAKE i \in 1 .. Len(xs) + 1
    <3>1. CASE i = 1
      BY <1>2, <2>1, <2>2, <2>3, <2>4, <3>1
    <3>2. CASE i # 1
      BY <1>2, <2>2, <2>3, <2>4, <3>2
    <3> QED BY <3>1, <3>2
  <2>6. Tail(f) = body
    BY <2>3, <2>4, <2>5, SequencesEqual
  <2>7. Frame[c] = f
    BY <1>4 DEF f, size
  <2> QED BY <1>2, <2>1, <2>2, <2>6, <2>7
<1>7. body \in Seq(Cell)
  BY <1>2, <1>5, ConcatProperties
<1>8. Received[body] = c
  <2> DEFINE msg  == Holding(body)
             read == Read(msg, 1)
  <2>1. body \in Bodies
    BY <1>6 DEF Bodies
  <2>2. Received[body] = Handled(read.out[1], read.msg)
    BY <2>1 DEF Received
  <2>3. Holds(msg, code \o xs)
    BY <1>7, HoldingData
  <2> HIDE DEF msg, code
  <2>4. read.out = code /\ Holds(read.msg, xs)
    BY <1>2, <1>5, <2>3, ReadCell
  <2> HIDE DEF read, body
  <2> QED BY <1>1, <1>5, <2>2, <2>4 DEF type
<1> HIDE DEF body
<1>9. Len(Frame[c]) >= 2 /\ Frame[c][1] = Len(Frame[c]) - 1
  BY <1>2, <1>6
<1> QED BY <1>6, <1>8, <1>9

\* S is the frames of the messages Q, one behind the other: B is where they end.
Framed(S, Q) ==
  \E B \in [0 .. Len(Q) -> Nat] :
    /\ B[0] = 0 /\ B[Len(Q)] = Len(S)
    /\ \A i, j \in 0 .. Len(Q) : i <= j => B[i] <= B[j]
    /\ \A i \in 1 .. Len(Q) :
         /\ B[i] = B[i - 1] + Len(Frame[Q[i]])
         /\ \A k \in 1 .. Len(Frame[Q[i]]) : S[B[i - 1] + k] = Frame[Q[i]][k]

\* No messages, no cells.
LEMMA NothingFramed == Framed(<< >>, << >>)
<1> DEFINE B == [i \in 0 .. 0 |-> 0]
<1>1. Len(<< >>) = 0
  OBVIOUS
<1>2. B \in [0 .. 0 -> Nat] /\ B[0] = 0
  OBVIOUS
<1>3. \A i, j \in 0 .. 0 : i <= j => B[i] <= B[j]
  BY <1>2
<1>4. 1 .. 0 = {}
  OBVIOUS
<1> HIDE DEF B
<1> QED BY <1>1, <1>2, <1>3, <1>4, Zenon DEF Framed

\* A frame is added at the end.
LEMMA FrameAdded ==
  ASSUME NEW S \in Seq(Cell), NEW Q \in Seq(Message), NEW c \in Message, Framed(S, Q)
  PROVE  Framed(S \o Frame[c], Append(Q, c))
<1> DEFINE f  == Frame[c]
           S2 == S \o f
           Q2 == Append(Q, c)
           q  == Len(Q)
<1>1. PICK B \in [0 .. q -> Nat] :
        /\ B[0] = 0 /\ B[q] = Len(S)
        /\ \A i, j \in 0 .. q : i <= j => B[i] <= B[j]
        /\ \A i \in 1 .. q :
             /\ B[i] = B[i - 1] + Len(Frame[Q[i]])
             /\ \A k \in 1 .. Len(Frame[Q[i]]) : S[B[i - 1] + k] = Frame[Q[i]][k]
  BY DEF Framed
<1>2. q \in Nat /\ Len(S) \in Nat
  OBVIOUS
<1>3. f \in Seq(Cell) /\ Len(f) \in Nat
  BY FramesAreRead
<1>4. /\ S2 \in Seq(Cell) /\ Len(S2) = Len(S) + Len(f)
      /\ \A i \in 1 .. Len(S) : S2[i] = S[i]
      /\ \A i \in 1 .. Len(f) : S2[Len(S) + i] = f[i]
  <2> HIDE DEF f
  <2>1. /\ S2 \in Seq(Cell) /\ Len(S2) = Len(S) + Len(f)
        /\ \A i \in 1 .. Len(S) + Len(f) :
             S2[i] = IF i <= Len(S) THEN S[i] ELSE f[i - Len(S)]
    BY <1>3, ConcatProperties
  <2>2. ASSUME NEW i \in 1 .. Len(f)
        PROVE  S2[Len(S) + i] = f[i]
    <3>1. /\ Len(S) + i \in 1 .. Len(S) + Len(f) /\ ~ Len(S) + i <= Len(S)
          /\ Len(S) + i - Len(S) = i
      BY <1>2, <1>3
    <3> HIDE DEF S2
    <3> QED BY <2>1, <3>1
  <2> HIDE DEF S2
  <2> QED BY <1>2, <1>3, <2>1, <2>2
<1>5. /\ Len(Q2) = q + 1 /\ Q2[q + 1] = c
      /\ \A i \in 1 .. q : Q2[i] = Q[i]
  OBVIOUS
<1> HIDE DEF f, S2, Q2, q
<1> DEFINE C == [i \in 0 .. q + 1 |-> IF i = q + 1 THEN Len(S2) ELSE B[i]]
<1>6. /\ C \in [0 .. q + 1 -> Nat] /\ C[q + 1] = Len(S2)
      /\ \A i \in 0 .. q : C[i] = B[i]
  BY <1>1, <1>2, <1>3, <1>4
<1> HIDE DEF C
<1>7. C[0] = 0 /\ C[Len(Q2)] = Len(S2)
  BY <1>1, <1>2, <1>5, <1>6
<1>8. \A i \in 0 .. q : C[i] <= Len(S)
  BY <1>1, <1>2, <1>6
<1>9. \A i, j \in 0 .. Len(Q2) : i <= j => C[i] <= C[j]
  BY <1>1, <1>2, <1>3, <1>4, <1>5, <1>6, <1>8
<1>10. ASSUME NEW i \in 1 .. Len(Q2)
       PROVE  /\ C[i] = C[i - 1] + Len(Frame[Q2[i]])
              /\ \A k \in 1 .. Len(Frame[Q2[i]]) : S2[C[i - 1] + k] = Frame[Q2[i]][k]
  <2>1. CASE i = q + 1
    <3>1. Frame[Q2[i]] = f /\ C[i] = Len(S2) /\ C[i - 1] = Len(S)
      BY <1>1, <1>2, <1>5, <1>6, <2>1 DEF f
    <3> QED BY <1>4, <3>1
  <2>2. CASE i # q + 1
    <3>1. i \in 1 .. q /\ i - 1 \in 0 .. q /\ i \in 0 .. q
      BY <1>2, <1>5, <2>2
    <3>2. Q2[i] = Q[i] /\ C[i] = B[i] /\ C[i - 1] = B[i - 1]
      BY <1>5, <1>6, <3>1
    <3>3. C[i] = C[i - 1] + Len(Frame[Q2[i]])
      BY <1>1, <3>1, <3>2
    <3>4. ASSUME NEW k \in 1 .. Len(Frame[Q2[i]])
          PROVE  S2[C[i - 1] + k] = Frame[Q2[i]][k]
      <4>1. S[C[i - 1] + k] = Frame[Q2[i]][k]
        BY <1>1, <3>1, <3>2, <3>4
      <4>2. Q[i] \in Message
        BY <3>1 DEF q
      <4>3. Len(Frame[Q2[i]]) \in Nat
        BY <3>2, <4>2, FramesAreRead
      <4>4. C[i] <= Len(S) /\ C[i - 1] \in Nat /\ C[i] \in Nat
        BY <1>2, <1>6, <1>8, <3>1
      <4>5. C[i - 1] + k \in 1 .. Len(S)
        <5> DEFINE m == Len(Frame[Q2[i]])
                   x == C[i - 1]
                   y == C[i]
        <5>1. /\ m \in Nat /\ x \in Nat /\ y \in Nat /\ y <= Len(S) /\ y = x + m
              /\ k \in 1 .. m
          BY <3>3, <3>4, <4>3, <4>4
        <5> HIDE DEF m, x, y
        <5>2. x + k \in 1 .. Len(S)
          BY <1>2, <5>1
        <5> QED BY <5>2 DEF x
      <4> QED BY <1>4, <4>1, <4>5
    <3> QED BY <3>3, <3>4
  <2> QED BY <2>1, <2>2
<1>11. C \in [0 .. Len(Q2) -> Nat]
  BY <1>5, <1>6
<1>12. Framed(S2, Q2)
  BY <1>7, <1>9, <1>10, <1>11 DEF Framed
<1> QED BY <1>12 DEF S2, Q2, f

\* The first frame is at the front.
LEMMA FirstFrame ==
  ASSUME NEW S \in Seq(Cell), NEW Q \in Seq(Message), Framed(S, Q), S # << >>
  PROVE  /\ Q # << >> /\ Head(Q) \in Message
         /\ Len(Frame[Head(Q)]) <= Len(S)
         /\ \A k \in 1 .. Len(Frame[Head(Q)]) : S[k] = Frame[Head(Q)][k]
         /\ Len(Q) = 1 => Len(Frame[Head(Q)]) = Len(S)
<1> DEFINE q == Len(Q)
<1>1. PICK B \in [0 .. q -> Nat] :
        /\ B[0] = 0 /\ B[q] = Len(S)
        /\ \A i, j \in 0 .. q : i <= j => B[i] <= B[j]
        /\ \A i \in 1 .. q :
             /\ B[i] = B[i - 1] + Len(Frame[Q[i]])
             /\ \A k \in 1 .. Len(Frame[Q[i]]) : S[B[i - 1] + k] = Frame[Q[i]][k]
  BY DEF Framed
<1>2. q \in Nat /\ Len(S) \in Nat \ {0}
  BY EmptySeq
<1>3. q # 0 /\ Q # << >>
  BY <1>1, <1>2
<1>4. Head(Q) \in Message /\ Head(Q) = Q[1]
  BY <1>3
<1>5. 1 \in 1 .. q /\ 1 \in 0 .. q /\ q \in 0 .. q
  BY <1>2, <1>3
<1> HIDE DEF q
<1>6. Len(Frame[Q[1]]) \in Nat
  BY <1>4, FramesAreRead
<1>7. B[1] = Len(Frame[Q[1]])
  BY <1>1, <1>5, <1>6
<1>8. \A k \in 1 .. Len(Frame[Q[1]]) : S[k] = Frame[Q[1]][k]
  <2> TAKE k \in 1 .. Len(Frame[Q[1]])
  <2>1. S[B[0] + k] = Frame[Q[1]][k]
    <3>1. \A j \in 1 .. Len(Frame[Q[1]]) : S[B[1 - 1] + j] = Frame[Q[1]][j]
      BY <1>1, <1>5
    <3>2. 1 - 1 = 0
      OBVIOUS
    <3> QED BY <3>1, <3>2
  <2>2. B[0] + k = k
    BY <1>1, <1>6
  <2> QED BY <2>1, <2>2
<1>9. B[1] <= B[q]
  BY <1>1, <1>2, <1>5
<1> QED BY <1>1, <1>3, <1>4, <1>7, <1>8, <1>9 DEF q

\* It is taken from the front.
LEMMA FrameTaken ==
  ASSUME NEW h \in Seq(Cell), NEW R \in Seq(Cell), NEW Q \in Seq(Message), Q # << >>,
         Framed(h \o R, Q), Len(h) = Len(Frame[Head(Q)])
  PROVE  Framed(R, Tail(Q))
<1> DEFINE S  == h \o R
           Q2 == Tail(Q)
           q  == Len(Q)
           l  == Len(h)
<1>1. PICK B \in [0 .. q -> Nat] :
        /\ B[0] = 0 /\ B[q] = Len(S)
        /\ \A i, j \in 0 .. q : i <= j => B[i] <= B[j]
        /\ \A i \in 1 .. q :
             /\ B[i] = B[i - 1] + Len(Frame[Q[i]])
             /\ \A k \in 1 .. Len(Frame[Q[i]]) : S[B[i - 1] + k] = Frame[Q[i]][k]
  BY DEF Framed
<1>2. q \in Nat \ {0} /\ l \in Nat /\ Len(R) \in Nat
  BY EmptySeq
<1>3. /\ Len(S) = l + Len(R)
      /\ \A i \in 1 .. Len(R) : S[l + i] = R[i]
  <2>1. /\ Len(S) = l + Len(R)
        /\ \A i \in 1 .. l + Len(R) : S[i] = IF i <= l THEN h[i] ELSE R[i - l]
    BY ConcatProperties
  <2> HIDE DEF S, l
  <2>2. ASSUME NEW i \in 1 .. Len(R)
        PROVE  S[l + i] = R[i]
    <3> DEFINE j == l + i
    <3>1. j \in 1 .. l + Len(R) /\ ~ j <= l /\ j - l = i
      BY <1>2
    <3> HIDE DEF j
    <3>2. S[j] = R[j - l]
      BY <2>1, <3>1
    <3> QED BY <3>1, <3>2 DEF j
  <2> QED BY <2>1, <2>2
<1>4. /\ Len(Q2) = q - 1 /\ Head(Q) = Q[1]
      /\ \A i \in 1 .. q - 1 : Q2[i] = Q[i + 1]
  BY HeadTailProperties
<1>5. l = Len(Frame[Q[1]])
  BY <1>4
<1>6. \A i \in 1 .. q : Q[i] \in Message
  OBVIOUS
<1> HIDE DEF S, Q2, q, l
<1>7. B[1] = l
  BY <1>1, <1>2, <1>5
<1>8. \A i \in 1 .. q : B[i] \in Nat /\ l <= B[i] /\ B[i] <= Len(S)
  BY <1>1, <1>2, <1>7
<1> DEFINE C == [i \in 0 .. q - 1 |-> B[i + 1] - l]
<1>9. \A i \in 0 .. q - 1 : i + 1 \in 1 .. q /\ i + 1 \in 0 .. q /\ C[i] = B[i + 1] - l
  BY <1>2
<1>10. C \in [0 .. q - 1 -> Nat]
  BY <1>2, <1>8, <1>9
<1> HIDE DEF C
<1>11. C[0] = 0 /\ C[q - 1] = Len(R)
  <2>1. 0 \in 0 .. q - 1 /\ q - 1 \in 0 .. q - 1 /\ 0 + 1 = 1 /\ q - 1 + 1 = q
    BY <1>2
  <2>2. C[0] = B[1] - l /\ C[q - 1] = B[q] - l
    BY <1>9, <2>1
  <2> QED BY <1>1, <1>2, <1>3, <1>7, <2>2
<1>12. ASSUME NEW i \in 0 .. q - 1, NEW j \in 0 .. q - 1, i <= j
       PROVE  C[i] <= C[j]
  <2>1. B[i + 1] <= B[j + 1]
    BY <1>1, <1>2, <1>9, <1>12
  <2>2. C[i] = B[i + 1] - l /\ C[j] = B[j + 1] - l
    BY <1>9, <1>12
  <2>3. i + 1 \in 1 .. q /\ j + 1 \in 1 .. q
    BY <1>2, <1>12
  <2>4. l \in Nat /\ B[i + 1] \in Nat /\ B[j + 1] \in Nat
    BY <1>1, <1>2, <1>8, <1>9, <2>3
  <2> HIDE DEF l
  <2> QED BY <2>1, <2>2, <2>4
<1>13. ASSUME NEW i \in 1 .. q - 1
       PROVE  /\ C[i] = C[i - 1] + Len(Frame[Q2[i]])
              /\ \A k \in 1 .. Len(Frame[Q2[i]]) : R[C[i - 1] + k] = Frame[Q2[i]][k]
  <2> DEFINE f == Frame[Q2[i]]
  <2>1. /\ i + 1 \in 1 .. q /\ i \in 1 .. q /\ i \in 0 .. q - 1 /\ i - 1 \in 0 .. q - 1
        /\ (i + 1) - 1 = i /\ (i - 1) + 1 = i
    BY <1>2
  <2>2. Q2[i] = Q[i + 1] /\ C[i] = B[i + 1] - l /\ C[i - 1] = B[i] - l
    BY <1>4, <1>9, <2>1
  <2>3. Len(f) \in Nat
    <3>1. Q2[i] \in Message
      BY <1>6, <2>1, <2>2
    <3>2. Frame[Q2[i]] \in Seq(Cell)
      BY <3>1, FramesAreRead
    <3> HIDE DEF f
    <3> QED BY <3>2 DEF f
  <2>4. B[i + 1] = B[i] + Len(f) /\ \A k \in 1 .. Len(f) : S[B[i] + k] = f[k]
    <3> DEFINE j == i + 1
    <3>1. j \in 1 .. q /\ j - 1 = i /\ Frame[Q[j]] = f
      BY <2>1, <2>2
    <3> HIDE DEF j, f
    <3>2. /\ B[j] = B[j - 1] + Len(Frame[Q[j]])
          /\ \A k \in 1 .. Len(Frame[Q[j]]) : S[B[j - 1] + k] = Frame[Q[j]][k]
      BY <1>1, <3>1
    <3> QED BY <3>1, <3>2 DEF j
  <2> HIDE DEF f
  <2>5. C[i] = C[i - 1] + Len(f)
    <3> DEFINE x == B[i]
               y == B[i + 1]
    <3>1. /\ x \in Nat /\ y \in Nat /\ y = x + Len(f)
          /\ C[i] = y - l /\ C[i - 1] = x - l
      BY <1>8, <2>1, <2>2, <2>4
    <3> HIDE DEF x, y
    <3> QED BY <1>2, <2>3, <3>1
  <2>6. ASSUME NEW k \in 1 .. Len(f)
        PROVE  R[C[i - 1] + k] = f[k]
    <3>1. B[i] \in Nat /\ B[i + 1] \in Nat /\ l <= B[i] /\ B[i + 1] <= Len(S)
      BY <1>8, <2>1
    <3>2. C[i - 1] + k \in 1 .. Len(R) /\ l + (C[i - 1] + k) = B[i] + k
      <4> DEFINE x == B[i]
                 y == B[i + 1]
                 z == C[i - 1]
      <4>1. /\ x \in Nat /\ y \in Nat /\ y = x + Len(f) /\ z = x - l /\ l <= x
            /\ y <= l + Len(R)
        BY <1>3, <2>2, <2>4, <3>1
      <4> HIDE DEF x, y, z
      <4>2. z + k \in 1 .. Len(R) /\ l + (z + k) = x + k
        BY <1>2, <2>3, <2>6, <4>1
      <4> QED BY <4>2 DEF x, z
    <3>3. S[l + (C[i - 1] + k)] = R[C[i - 1] + k]
      BY <1>3, <3>2
    <3> QED BY <2>4, <3>2, <3>3
  <2> QED BY <2>5, <2>6 DEF f
<1> QED
  <2>1. C \in [0 .. Len(Q2) -> Nat] /\ C[0] = 0 /\ C[Len(Q2)] = Len(R)
    BY <1>4, <1>10, <1>11
  <2>2. \A i, j \in 0 .. Len(Q2) : i <= j => C[i] <= C[j]
    BY <1>4, <1>12
  <2>3. \A i \in 1 .. Len(Q2) :
          /\ C[i] = C[i - 1] + Len(Frame[Q2[i]])
          /\ \A k \in 1 .. Len(Frame[Q2[i]]) : R[C[i - 1] + k] = Frame[Q2[i]][k]
    BY <1>4, <1>13
  <2>4. Framed(R, Q2)
    BY <2>1, <2>2, <2>3 DEF Framed
  <2> QED BY <2>4 DEF Q2

----------------------------------------------------------------------------
(***************************************************************************)
(* Parts of sequences                                                      *)
(***************************************************************************)

\* The smaller of two numbers.
LEMMA MinOfTwo ==
  ASSUME NEW k \in Nat, NEW l \in Nat
  PROVE  Min({k, l}) = IF k <= l THEN k ELSE l
<1> DEFINE m == IF k <= l THEN k ELSE l
<1>1. m \in {k, l} /\ \A y \in {k, l} : m =< y
  OBVIOUS
<1>2. ASSUME NEW x \in {k, l}, \A y \in {k, l} : x =< y
      PROVE  x = m
  BY <1>2
<1> HIDE DEF m
<1>3. Min({k, l}) = m
  BY <1>1, <1>2 DEF Min
<1> QED BY <1>3 DEF m

\* The cells up to a place and those behind it make up the sequence.
LEMMA CutInTwo ==
  ASSUME NEW xs \in Seq(Cell), NEW k \in Nat
  PROVE  /\ UpTo(xs, k) \in Seq(Cell) /\ Behind(xs, k) \in Seq(Cell)
         /\ Len(UpTo(xs, k)) <= k
         /\ UpTo(xs, k) \o Behind(xs, k) = xs
         /\ UpTo(xs, k) \o Behind(xs, Len(UpTo(xs, k))) = xs
<1> DEFINE l == Len(xs)
           m == IF k <= l THEN k ELSE l
           u == SubSeq(xs, 1, m)
<1>1. UpTo(xs, k) = u
  BY MinOfTwo DEF UpTo
<1>2. /\ l \in Nat /\ m \in Nat /\ m <= k /\ m <= l
      /\ \A i \in 1 .. l : xs[i] \in Cell
  OBVIOUS
<1> HIDE DEF m
<1>3. /\ u \in Seq(Cell) /\ Len(u) = m
  BY <1>2, SubSeqProperties
<1>4. \A j \in Nat : Behind(xs, j) \in Seq(Cell)
  BY <1>2 DEF Behind
<1>5. u \o Behind(xs, m) = xs
  <2>1. u \o SubSeq(xs, m + 1, l) = SubSeq(xs, 1, l)
    <3>1. 1 \in 1 .. l + 1 /\ m \in 1 - 1 .. l /\ l \in m .. l
      BY <1>2
    <3> HIDE DEF u
    <3> QED BY <3>1, ConcatAdjacentSubSeq DEF u, l
  <2>2. SubSeq(xs, 1, l) = xs
    BY SubSeqFull
  <2> QED BY <2>1, <2>2 DEF Behind
<1>6. u \o Behind(xs, k) = xs
  <2>1. CASE k <= l
    BY <1>5, <2>1 DEF m
  <2>2. CASE ~ k <= l
    <3>1. m = l
      BY <2>2 DEF m
    <3>2. Behind(xs, k) = << >> /\ Behind(xs, l) = << >>
      BY <1>2, <2>2, SubSeqEmpty DEF Behind
    <3> QED BY <1>5, <3>1, <3>2
  <2> QED BY <2>1, <2>2
<1> HIDE DEF u
<1> QED BY <1>1, <1>2, <1>3, <1>4, <1>5, <1>6

\* One place of a function of functions is changed.
LEMMA PlaceChanged ==
  ASSUME NEW A, NEW B, NEW S, NEW f \in [A -> [B -> S]],
         NEW a \in A, NEW b \in B, NEW x \in S, NEW g, g = [f EXCEPT ![a][b] = x]
  PROVE  /\ g \in [A -> [B -> S]] /\ g[a][b] = x
         /\ \A c \in A, d \in B : c # a \/ d # b => g[c][d] = f[c][d]
         /\ \A c \in A : c # a => g[c] = f[c]
OBVIOUS

----------------------------------------------------------------------------
(***************************************************************************)
(* The invariant                                                           *)
(***************************************************************************)

Sending == [to : Node, content : Message]

Reading == [from : Node, want : Nat, data : Seq(Cell)]

TypeOK ==
  /\ calls \in [Node -> [Thread -> Nat]]
  /\ outbox \in [Node -> [Actor -> Seq(Sending)]]
  /\ rest \in [Node -> [Actor -> Seq(Cell)]]
  /\ send_lock \in [Node -> [Node -> Actor \cup {NoActor}]]
  /\ pipe \in [Node -> [Node -> Seq(Cell)]]
  /\ reading \in [Node -> SUBSET Reading]
  /\ chan \in [Node -> [Node -> Seq(Message)]]
  /\ handled \in [Node -> [Node -> Seq(Message)]]

\* Thread a of n is in the middle of a message to p.
Writing(n, a, p) == rest[n][a] # << >> /\ Head(outbox[n][a]).to = p

\* The send lock of a peer is held by who is in the middle of a message to it.
LockInv ==
  \A n \in Node, a \in Actor :
    /\ rest[n][a] # << >> => outbox[n][a] # << >>
    /\ \A p \in Node : send_lock[n][p] = a <=> Writing(n, a, p)

\* A listener reads one message at a time, not beyond its end, and has nothing to
\* send meanwhile.
ListenInv ==
  \A n \in Node :
    /\ \A r, s \in reading[n] : r = s
    /\ \A r \in reading[n] : Len(r.data) <= r.want
    /\ reading[n] # {} => outbox[n][Listener] = << >>

\* What the holder of the send lock has still to write, and the message it is part of
\* behind those that have been written.
Unwritten(p, n) ==
  IF send_lock[p][n] \in Actor THEN rest[p][send_lock[p][n]] ELSE << >>

Queue(p, n) ==
  IF send_lock[p][n] \in Actor
  THEN Append(chan[p][n], Head(outbox[p][send_lock[p][n]]).content)
  ELSE chan[p][n]

\* What n has still to read from p, and what it has in hand.
Flow(p, n) == pipe[p][n] \o Unwritten(p, n)

InHand(r) == <<r.want>> \o r.data

\* The cells from p to n, wherever they are, are the frames of the messages that n
\* has still to handle.
Stream(p, n) ==
  /\ (\A r \in reading[n] : r.from # p) => Framed(Flow(p, n), Queue(p, n))
  /\ \A r \in reading[n] :
       r.from = p => Framed(InHand(r) \o Flow(p, n), Queue(p, n))

StreamInv == \A p, n \in Node : Stream(p, n)

Inv == TypeOK /\ LockInv /\ ListenInv /\ StreamInv

\* What is sent can be looked up.
LEMMA NextSending ==
  ASSUME TypeOK, NEW n \in Node, NEW a \in Actor, outbox[n][a] # << >>
  PROVE  /\ Head(outbox[n][a]) \in Sending
         /\ Head(outbox[n][a]).to \in Node /\ Head(outbox[n][a]).content \in Message
         /\ Tail(outbox[n][a]) \in Seq(Sending)
<1>1. outbox[n][a] \in Seq(Sending)
  BY DEF TypeOK
<1>2. Head(outbox[n][a]) \in Sending /\ Tail(outbox[n][a]) \in Seq(Sending)
  BY <1>1, HeadTailProperties
<1> QED BY <1>2 DEF Sending

\* The types of a stream.
LEMMA StreamTypes ==
  ASSUME TypeOK, LockInv, NEW p \in Node, NEW n \in Node
  PROVE  /\ pipe[p][n] \in Seq(Cell) /\ Unwritten(p, n) \in Seq(Cell)
         /\ Flow(p, n) \in Seq(Cell)
         /\ chan[p][n] \in Seq(Message) /\ Queue(p, n) \in Seq(Message)
         /\ \A r \in reading[n] :
              /\ r \in Reading /\ r.from \in Node /\ r.want \in Nat
              /\ r.data \in Seq(Cell) /\ InHand(r) \in Seq(Cell)
<1>1. pipe[p][n] \in Seq(Cell) /\ chan[p][n] \in Seq(Message)
  BY DEF TypeOK
<1>2. Unwritten(p, n) \in Seq(Cell)
  BY EmptySeq DEF TypeOK, Unwritten
<1>3. Flow(p, n) \in Seq(Cell)
  <2> DEFINE u == Unwritten(p, n)
             x == pipe[p][n]
  <2> HIDE DEF u, x
  <2>1. x \o u \in Seq(Cell)
    BY <1>1, <1>2, ConcatProperties DEF u, x
  <2> QED BY <2>1 DEF Flow, u, x
<1>4. Queue(p, n) \in Seq(Message)
  <2>1. CASE send_lock[p][n] \in Actor
    <3> DEFINE a == send_lock[p][n]
    <3>1. a \in Actor /\ outbox[p][a] # << >>
      BY <2>1 DEF LockInv, Writing
    <3> HIDE DEF a
    <3>2. Head(outbox[p][a]).content \in Message
      BY <3>1, NextSending
    <3>3. Queue(p, n) = Append(chan[p][n], Head(outbox[p][a]).content)
      BY <2>1 DEF Queue, a
    <3> QED BY <1>1, <3>2, <3>3
  <2>2. CASE send_lock[p][n] \notin Actor
    BY <1>1, <2>2 DEF Queue
  <2> QED BY <2>1, <2>2
<1>5. ASSUME NEW r \in reading[n]
      PROVE  /\ r \in Reading /\ r.from \in Node /\ r.want \in Nat
             /\ r.data \in Seq(Cell) /\ InHand(r) \in Seq(Cell)
  <2>1. r \in Reading
    BY DEF TypeOK
  <2>2. r.from \in Node /\ r.want \in Nat /\ r.data \in Seq(Cell)
    BY <2>1 DEF Reading
  <2>3. <<r.want>> \in Seq(Cell)
    BY <2>2, NumbersAreCells
  <2>4. InHand(r) \in Seq(Cell)
    <3> DEFINE w == <<r.want>>
    <3> HIDE DEF w
    <3>1. w \o r.data \in Seq(Cell)
      BY <2>2, <2>3, ConcatProperties DEF w
    <3> QED BY <3>1 DEF InHand, w
  <2> QED BY <2>1, <2>2, <2>4
<1> QED BY <1>1, <1>2, <1>3, <1>4, <1>5

\* A stream is as before when its cells and messages are.
LEMMA StreamKept ==
  ASSUME NEW p \in Node, NEW n \in Node, Stream(p, n),
         Flow(p, n)' = Flow(p, n), Queue(p, n)' = Queue(p, n),
         reading'[n] = reading[n]
  PROVE  Stream(p, n)'
BY DEF Stream, InHand

\* What is to be written is as before when the holder of the lock and its message are.
LEMMA HolderKept ==
  ASSUME NEW p \in Node, NEW n \in Node, send_lock'[p][n] = send_lock[p][n],
         chan'[p][n] = chan[p][n],
         send_lock[p][n] \in Actor =>
           /\ rest'[p][send_lock[p][n]] = rest[p][send_lock[p][n]]
           /\ outbox'[p][send_lock[p][n]] = outbox[p][send_lock[p][n]]
  PROVE  Unwritten(p, n)' = Unwritten(p, n) /\ Queue(p, n)' = Queue(p, n)
BY DEF Unwritten, Queue

\* The invariant holds at the start.
LEMMA InitInv == Init => Inv
<1> SUFFICES ASSUME Init PROVE Inv
  OBVIOUS
<1>1. TypeOK
  BY EmptySeq DEF Init, TypeOK
<1>2. LockInv
  BY ActorAssumption DEF Init, LockInv, Writing, Actor
<1>3. ListenInv
  BY DEF Init, ListenInv
<1>4. ASSUME NEW p \in Node, NEW n \in Node
      PROVE  Stream(p, n)
  <2>1. send_lock[p][n] \notin Actor /\ pipe[p][n] = << >> /\ chan[p][n] = << >>
        /\ reading[n] = {}
    BY ActorAssumption DEF Init, Actor
  <2>2. Flow(p, n) = << >> /\ Queue(p, n) = << >>
    BY <2>1 DEF Flow, Queue, Unwritten
  <2> QED BY <2>1, <2>2, NothingFramed DEF Stream
<1> QED BY <1>1, <1>2, <1>3, <1>4 DEF Inv, StreamInv

----------------------------------------------------------------------------
(***************************************************************************)
(* Steps of a sender                                                       *)
(***************************************************************************)

\* A thread without a message to send holds no send lock.
LEMMA IdleHoldsNothing ==
  ASSUME LockInv, NEW n \in Node, NEW a \in Actor, rest[n][a] = << >>
  PROVE  \A p \in Node : send_lock[n][p] # a
BY DEF LockInv, Writing

\* Who has nothing to send has nothing to write.
LEMMA NothingToWrite ==
  ASSUME LockInv, NEW n \in Node, NEW a \in Actor, outbox[n][a] = << >>
  PROVE  rest[n][a] = << >>
BY DEF LockInv

\* It does not matter to the streams what a thread has to send that holds no lock.
LEMMA OutboxChanged ==
  ASSUME Inv, NEW n \in Node, NEW a \in Actor, rest[n][a] = << >>,
         NEW x \in Seq(Sending), outbox' = [outbox EXCEPT ![n][a] = x],
         UNCHANGED <<rest, send_lock>>
  PROVE  /\ outbox' \in [Node -> [Actor -> Seq(Sending)]]
         /\ LockInv'
         /\ \A p, q \in Node : chan'[p][q] = chan[p][q] =>
              Unwritten(p, q)' = Unwritten(p, q) /\ Queue(p, q)' = Queue(p, q)
<1>1. outbox \in [Node -> [Actor -> Seq(Sending)]]
  BY DEF Inv, TypeOK
<1>2. /\ outbox' \in [Node -> [Actor -> Seq(Sending)]] /\ outbox'[n][a] = x
      /\ \A m \in Node, b \in Actor : m # n \/ b # a => outbox'[m][b] = outbox[m][b]
  BY <1>1, PlaceChanged
<1>3. \A p \in Node : send_lock[n][p] # a
  BY IdleHoldsNothing DEF Inv
<1>4. LockInv'
  <2> SUFFICES ASSUME NEW m \in Node, NEW b \in Actor
               PROVE  /\ rest'[m][b] # << >> => outbox'[m][b] # << >>
                      /\ \A p \in Node : send_lock'[m][p] = b <=> Writing(m, b, p)'
    BY DEF LockInv
  <2>1. CASE m = n /\ b = a
    BY <1>3, <2>1 DEF Writing
  <2>2. CASE m # n \/ b # a
    BY <1>2, <2>2 DEF Inv, LockInv, Writing
  <2> QED BY <2>1, <2>2
<1>5. ASSUME NEW p \in Node, NEW q \in Node, chan'[p][q] = chan[p][q]
      PROVE  Unwritten(p, q)' = Unwritten(p, q) /\ Queue(p, q)' = Queue(p, q)
  <2>1. send_lock[p][q] \in Actor => p # n \/ send_lock[p][q] # a
    BY <1>3
  <2> QED BY <1>2, <1>5, <2>1, HolderKept
<1> QED BY <1>2, <1>4, <1>5

\* edsm_proto_send begins, to one peer or to all.
LEMMA SendInv ==
  ASSUME Inv, NEW n \in Node, NEW t \in Thread, NEW c \in Content,
         NEW targets \in Seq(Node), Send(n, t, c, targets)
  PROVE  Inv' /\ UNCHANGED <<chan, handled>>
<1> DEFINE x == [i \in DOMAIN targets |-> [to |-> targets[i], content |-> c]]
<1>1. /\ outbox[n][t] = << >> /\ outbox' = [outbox EXCEPT ![n][t] = x]
      /\ calls' = [calls EXCEPT ![n][t] = @ + 1]
      /\ UNCHANGED <<rest, send_lock, pipe, reading, chan, handled>>
  BY DEF Send
<1>2. x \in Seq(Sending)
  <2>1. Len(targets) \in Nat /\ DOMAIN targets = 1 .. Len(targets)
    OBVIOUS
  <2>2. \A i \in 1 .. Len(targets) : [to |-> targets[i], content |-> c] \in Sending
    BY DEF Sending, Message
  <2>3. x = [i \in 1 .. Len(targets) |-> [to |-> targets[i], content |-> c]]
    BY <2>1
  <2>4. x \in [1 .. Len(targets) -> Sending]
    BY <2>2, <2>3
  <2> HIDE DEF x
  <2> QED BY <2>1, <2>4
<1> HIDE DEF x
<1>3. t \in Actor /\ rest[n][t] = << >>
  <2>1. t \in Actor
    BY DEF Actor
  <2> QED BY <1>1, <2>1, NothingToWrite DEF Inv
<1>4. /\ outbox' \in [Node -> [Actor -> Seq(Sending)]]
      /\ LockInv'
      /\ \A p, q \in Node : Unwritten(p, q)' = Unwritten(p, q) /\ Queue(p, q)' = Queue(p, q)
  BY <1>1, <1>2, <1>3, OutboxChanged
<1>5. TypeOK'
  <2>1. calls \in [Node -> [Thread -> Nat]] /\ calls[n][t] + 1 \in Nat
    BY DEF Inv, TypeOK
  <2>2. calls' \in [Node -> [Thread -> Nat]]
    BY <1>1, <2>1, PlaceChanged
  <2> QED BY <1>1, <1>4, <2>2 DEF Inv, TypeOK
<1>6. ListenInv'
  <2>1. t # Listener
    BY ActorAssumption
  <2>2. \A m \in Node : outbox'[m][Listener] = outbox[m][Listener]
    <3>1. outbox \in [Node -> [Actor -> Seq(Sending)]] /\ Listener \in Actor
      BY DEF Inv, TypeOK, Actor
    <3>2. \A m \in Node, b \in Actor : m # n \/ b # t => outbox'[m][b] = outbox[m][b]
      BY <1>1, <1>2, <1>3, <3>1, PlaceChanged
    <3> QED BY <2>1, <3>1, <3>2
  <2> QED BY <1>1, <2>2 DEF Inv, ListenInv
<1>7. StreamInv'
  <2> SUFFICES ASSUME NEW p \in Node, NEW q \in Node
               PROVE  Stream(p, q)'
    BY DEF StreamInv
  <2>1. Stream(p, q)
    BY DEF Inv, StreamInv
  <2>2. Flow(p, q)' = Flow(p, q) /\ Queue(p, q)' = Queue(p, q) /\ reading'[q] = reading[q]
    BY <1>1, <1>4 DEF Flow
  <2> QED BY <2>1, <2>2, StreamKept
<1> QED BY <1>1, <1>4, <1>5, <1>6, <1>7 DEF Inv

\* edsm_proto_send of an up-call to the node itself.
LEMMA SendSelfInv ==
  ASSUME Inv, NEW n \in Node, NEW t \in Thread, SendSelf(n, t)
  PROVE  Inv' /\ \E m \in Message : Abstract!SendSelf(n, m)
<1>1. PICK c \in Content :
        /\ c.kind = "task"
        /\ handled' = [handled EXCEPT ![n][n] = <<Handled(TypeOf(c), Clone(Encoded(c)))>>]
  BY DEF SendSelf
<1>2. /\ calls' = [calls EXCEPT ![n][t] = @ + 1]
      /\ UNCHANGED <<outbox, rest, send_lock, pipe, reading, chan>>
  BY DEF SendSelf
<1>3. c \in Message
  BY DEF Message
<1>4. Handled(TypeOf(c), Clone(Encoded(c))) = c
  <2>1. PICK xs : /\ Holds(Encoded(c), xs)
                  /\ \A msg : Holds(msg, xs) => Handled(TypeOf(c), msg) = c
    BY <1>3, EncodedRead
  <2> QED BY <2>1, CloneData
<1>5. handled' = [handled EXCEPT ![n][n] = <<c>>]
  BY <1>1, <1>4
<1>6. TypeOK'
  <2>1. calls \in [Node -> [Thread -> Nat]] /\ calls[n][t] + 1 \in Nat
    BY DEF Inv, TypeOK
  <2>2. calls' \in [Node -> [Thread -> Nat]]
    BY <1>2, <2>1, PlaceChanged
  <2>3. handled \in [Node -> [Node -> Seq(Message)]] /\ <<c>> \in Seq(Message)
    BY <1>3 DEF Inv, TypeOK
  <2>4. handled' \in [Node -> [Node -> Seq(Message)]]
    BY <1>5, <2>3, PlaceChanged
  <2> QED BY <1>2, <2>2, <2>4 DEF Inv, TypeOK
<1>7. LockInv' /\ ListenInv'
  BY <1>2 DEF Inv, LockInv, Writing, ListenInv
<1>8. StreamInv'
  BY <1>2 DEF Inv, StreamInv, Stream, Flow, Queue, Unwritten, InHand
<1>9. Abstract!SendSelf(n, c)
  BY <1>2, <1>5 DEF Abstract!SendSelf
<1> QED BY <1>3, <1>6, <1>7, <1>8, <1>9 DEF Inv

\* A send lock is taken.
LEMMA LockPeerInv ==
  ASSUME Inv, NEW n \in Node, NEW a \in Actor, LockPeer(n, a)
  PROVE  Inv' /\ UNCHANGED <<chan, handled>>
<1>1. outbox[n][a] # << >>
  BY DEF LockPeer
<1>2. PICK p \in Node, c \in Message :
        Head(outbox[n][a]).to = p /\ Head(outbox[n][a]).content = c
  BY <1>1, NextSending DEF Inv
<1> DEFINE f == Frame[c]
<1>3. f \in Seq(Cell) /\ f # << >>
  BY FramesAreRead, EmptySeq
<1>4. /\ rest[n][a] = << >> /\ send_lock[n][p] = NoActor
      /\ send_lock' = [send_lock EXCEPT ![n][p] = a]
      /\ rest' = [rest EXCEPT ![n][a] = f]
      /\ UNCHANGED <<calls, outbox, pipe, reading, chan, handled>>
  BY <1>2 DEF LockPeer
<1> HIDE DEF f
<1>5. /\ send_lock' \in [Node -> [Node -> Actor \cup {NoActor}]] /\ send_lock'[n][p] = a
      /\ \A m, q \in Node : m # n \/ q # p => send_lock'[m][q] = send_lock[m][q]
  <2>1. send_lock \in [Node -> [Node -> Actor \cup {NoActor}]]
    BY DEF Inv, TypeOK
  <2> QED BY <1>2, <1>4, <2>1, PlaceChanged
<1>6. /\ rest' \in [Node -> [Actor -> Seq(Cell)]] /\ rest'[n][a] = f
      /\ \A m \in Node, b \in Actor : m # n \/ b # a => rest'[m][b] = rest[m][b]
  <2>1. rest \in [Node -> [Actor -> Seq(Cell)]]
    BY DEF Inv, TypeOK
  <2> QED BY <1>3, <1>4, <2>1, PlaceChanged
<1>7. a # NoActor /\ NoActor \notin Actor /\ \A q \in Node : send_lock[n][q] # a
  BY <1>4, ActorAssumption, IdleHoldsNothing DEF Inv, Actor
<1>8. TypeOK'
  BY <1>4, <1>5, <1>6 DEF Inv, TypeOK
<1>9. LockInv'
  <2> SUFFICES ASSUME NEW m \in Node, NEW b \in Actor
               PROVE  /\ rest'[m][b] # << >> => outbox'[m][b] # << >>
                      /\ \A q \in Node : send_lock'[m][q] = b <=> Writing(m, b, q)'
    BY DEF LockInv
  <2>1. CASE m = n /\ b = a
    <3>1. rest'[m][b] # << >> /\ outbox'[m][b] # << >> /\ Head(outbox'[m][b]).to = p
      BY <1>1, <1>2, <1>3, <1>4, <1>6, <2>1
    <3>2. \A q \in Node : send_lock'[m][q] = b <=> q = p
      BY <1>5, <1>7, <2>1
    <3> QED BY <3>1, <3>2 DEF Writing
  <2>2. CASE m # n \/ b # a
    <3>1. rest'[m][b] = rest[m][b] /\ outbox'[m][b] = outbox[m][b]
      BY <1>4, <1>6, <2>2
    <3>2. \A q \in Node : send_lock'[m][q] = b <=> send_lock[m][q] = b
      BY <1>4, <1>5, <1>7, <2>2
    <3> QED BY <3>1, <3>2 DEF Inv, LockInv, Writing
  <2> QED BY <2>1, <2>2
<1>10. ListenInv'
  BY <1>4 DEF Inv, ListenInv
<1>11. Stream(n, p)'
  <2> DEFINE x == pipe[n][p]
             Q == Queue(n, p)
  <2>1. Unwritten(n, p) = << >> /\ Unwritten(n, p)' = f
    BY <1>4, <1>5, <1>6, <1>7 DEF Unwritten
  <2>2. Queue(n, p)' = Append(Q, c)
    BY <1>2, <1>4, <1>5, <1>7 DEF Queue
  <2>3. /\ x \in Seq(Cell) /\ Q \in Seq(Message)
        /\ \A r \in reading[p] : InHand(r) \in Seq(Cell)
    BY <1>2, StreamTypes DEF Inv
  <2>4. Flow(n, p) = x
    BY <2>1, <2>3, ConcatEmptySeq DEF Flow
  <2>5. Flow(n, p)' = x \o f
    BY <1>4, <2>1 DEF Flow
  <2>6. Stream(n, p)
    BY <1>2 DEF Inv, StreamInv
  <2> HIDE DEF x, Q
  <2>7. ASSUME \A r \in reading[p] : r.from # n
        PROVE  Framed(x \o f, Append(Q, c))
    <3>1. Framed(x, Q)
      BY <2>4, <2>6, <2>7 DEF Stream, Q
    <3> QED BY <1>2, <2>3, <3>1, FrameAdded DEF f
  <2>8. ASSUME NEW r \in reading[p], r.from = n
        PROVE  Framed(InHand(r) \o (x \o f), Append(Q, c))
    <3> DEFINE h == InHand(r)
    <3>1. Framed(h \o x, Q)
      BY <2>4, <2>6, <2>8 DEF Stream, Q
    <3>2. h \in Seq(Cell)
      BY <2>3
    <3> HIDE DEF h
    <3>3. h \o x \in Seq(Cell)
      BY <2>3, <3>2, ConcatProperties
    <3>4. Framed((h \o x) \o f, Append(Q, c))
      <4> DEFINE y == h \o x
      <4> HIDE DEF y
      <4>1. Framed(y \o Frame[c], Append(Q, c))
        BY <1>2, <2>3, <3>1, <3>3, FrameAdded DEF y
      <4> QED BY <4>1 DEF y, f
    <3>5. (h \o x) \o f = h \o (x \o f)
      BY <1>3, <2>3, <3>2, CellsAssociative, Zenon
    <3> QED BY <3>4, <3>5 DEF h
  <2>9. reading' = reading
    BY <1>4
  <2> QED BY <2>2, <2>5, <2>7, <2>8, <2>9 DEF Stream, InHand
<1>12. ASSUME NEW m \in Node, NEW q \in Node, m # n \/ q # p
       PROVE  Stream(m, q)'
  <2>1. send_lock[m][q] \in Actor => m # n \/ send_lock[m][q] # a
    BY <1>7
  <2>2. Unwritten(m, q)' = Unwritten(m, q) /\ Queue(m, q)' = Queue(m, q)
    BY <1>4, <1>5, <1>6, <1>12, <2>1, HolderKept
  <2>3. Flow(m, q)' = Flow(m, q) /\ reading'[q] = reading[q]
    BY <1>4, <2>2 DEF Flow
  <2>4. Stream(m, q)
    BY DEF Inv, StreamInv
  <2> QED BY <2>2, <2>3, <2>4, StreamKept
<1>13. StreamInv'
  BY <1>11, <1>12 DEF StreamInv
<1> QED BY <1>4, <1>8, <1>9, <1>10, <1>13 DEF Inv

\* Cells are written; with the last one the lock is released.
LEMMA WriteCellsInv ==
  ASSUME Inv, NEW n \in Node, NEW a \in Actor, WriteCells(n, a)
  PROVE  /\ Inv'
         /\ \/ UNCHANGED <<chan, handled>>
            \/ \E p \in Node, c \in Message : Abstract!Send(n, p, c)
<1>1. rest[n][a] # << >> /\ outbox[n][a] # << >>
  BY DEF WriteCells, Inv, LockInv
<1>2. PICK p \in Node, c \in Message :
        /\ Head(outbox[n][a]).to = p /\ Head(outbox[n][a]).content = c
        /\ Tail(outbox[n][a]) \in Seq(Sending)
  BY <1>1, NextSending DEF Inv
<1>3. PICK room \in Nat : room > 0 /\ room = Capacity - Len(pipe[n][p])
  <2>1. pipe[n][p] \in Seq(Cell) /\ Capacity \in Nat
    BY CapacityAssumption DEF Inv, TypeOK
  <2>2. Capacity - Len(pipe[n][p]) > 0
    BY <1>2 DEF WriteCells
  <2>3. Len(pipe[n][p]) \in Nat
    BY <2>1
  <2> DEFINE room == Capacity - Len(pipe[n][p])
  <2>4. room \in Nat /\ room > 0
    BY <2>1, <2>2, <2>3
  <2> QED BY <2>4
<1>4. PICK u \in Seq(Cell), left \in Seq(Cell) :
        /\ rest[n][a] = u \o left /\ u = UpTo(rest[n][a], room)
        /\ left = Behind(rest[n][a], room)
  <2>1. rest[n][a] \in Seq(Cell)
    BY DEF Inv, TypeOK
  <2> QED BY <2>1, CutInTwo
<1>5. /\ pipe' = [pipe EXCEPT ![n][p] = @ \o u]
      /\ rest' = [rest EXCEPT ![n][a] = left]
      /\ left = << >> => /\ chan' = [chan EXCEPT ![n][p] = Append(@, c)]
                         /\ outbox' = [outbox EXCEPT ![n][a] = Tail(@)]
                         /\ send_lock' = [send_lock EXCEPT ![n][p] = NoActor]
      /\ left # << >> => UNCHANGED <<chan, outbox, send_lock>>
      /\ UNCHANGED <<calls, reading, handled>>
  BY <1>2, <1>3, <1>4 DEF WriteCells, Unlocked
<1>6. /\ pipe' \in [Node -> [Node -> Seq(Cell)]] /\ pipe'[n][p] = pipe[n][p] \o u
      /\ \A m, q \in Node : m # n \/ q # p => pipe'[m][q] = pipe[m][q]
  <2>1. pipe \in [Node -> [Node -> Seq(Cell)]]
    BY DEF Inv, TypeOK
  <2>2. pipe[n][p] \o u \in Seq(Cell)
    <3> DEFINE x == pipe[n][p]
    <3>1. x \in Seq(Cell)
      BY <2>1
    <3> HIDE DEF x
    <3>2. x \o u \in Seq(Cell)
      BY <3>1, ConcatProperties
    <3> QED BY <3>2 DEF x
  <2> QED BY <1>5, <2>1, <2>2, PlaceChanged
<1>7. /\ rest' \in [Node -> [Actor -> Seq(Cell)]] /\ rest'[n][a] = left
      /\ \A m \in Node, b \in Actor : m # n \/ b # a => rest'[m][b] = rest[m][b]
  <2>1. rest \in [Node -> [Actor -> Seq(Cell)]]
    BY DEF Inv, TypeOK
  <2> QED BY <1>5, <2>1, PlaceChanged
<1>8. /\ outbox' \in [Node -> [Actor -> Seq(Sending)]]
      /\ \A m \in Node, b \in Actor : m # n \/ b # a => outbox'[m][b] = outbox[m][b]
  <2>1. outbox \in [Node -> [Actor -> Seq(Sending)]]
    BY DEF Inv, TypeOK
  <2>2. CASE left = << >>
    <3> DEFINE x == Tail(outbox[n][a])
    <3>1. outbox' = [outbox EXCEPT ![n][a] = x]
      BY <1>5, <2>2
    <3>2. x \in Seq(Sending)
      BY <1>2
    <3> HIDE DEF x
    <3>3. /\ outbox' \in [Node -> [Actor -> Seq(Sending)]] /\ outbox'[n][a] = x
          /\ \A m \in Node, e \in Actor : m # n \/ e # a => outbox'[m][e] = outbox[m][e]
      BY <2>1, <3>1, <3>2, PlaceChanged
    <3> QED BY <3>3 DEF x
  <2>3. CASE left # << >>
    BY <1>5, <2>1, <2>3
  <2> QED BY <2>2, <2>3
<1>9. /\ chan' \in [Node -> [Node -> Seq(Message)]]
      /\ left = << >> => chan'[n][p] = Append(chan[n][p], c)
      /\ \A m, q \in Node : m # n \/ q # p => chan'[m][q] = chan[m][q]
  <2>1. chan \in [Node -> [Node -> Seq(Message)]] /\ Append(chan[n][p], c) \in Seq(Message)
    BY DEF Inv, TypeOK
  <2>2. CASE left = << >>
    <3> DEFINE x == Append(chan[n][p], c)
    <3>1. chan' = [chan EXCEPT ![n][p] = x]
      BY <1>5, <2>2
    <3>2. x \in Seq(Message)
      BY <2>1
    <3> HIDE DEF x
    <3>3. /\ chan' \in [Node -> [Node -> Seq(Message)]] /\ chan'[n][p] = x
          /\ \A m \in Node, e \in Node : m # n \/ e # p => chan'[m][e] = chan[m][e]
      BY <2>1, <3>1, <3>2, PlaceChanged
    <3> QED BY <3>3 DEF x
  <2>3. CASE left # << >>
    BY <1>5, <2>1, <2>3
  <2> QED BY <2>2, <2>3
<1>10. /\ send_lock' \in [Node -> [Node -> Actor \cup {NoActor}]]
       /\ left = << >> => send_lock'[n][p] = NoActor
       /\ \A m, q \in Node : m # n \/ q # p => send_lock'[m][q] = send_lock[m][q]
  <2>1. send_lock \in [Node -> [Node -> Actor \cup {NoActor}]]
    BY DEF Inv, TypeOK
  <2>2. CASE left = << >>
    <3> DEFINE x == NoActor
    <3>1. send_lock' = [send_lock EXCEPT ![n][p] = x]
      BY <1>5, <2>2
    <3>2. x \in (Actor \cup {NoActor})
      OBVIOUS
    <3> HIDE DEF x
    <3>3. /\ send_lock' \in [Node -> [Node -> (Actor \cup {NoActor})]] /\ send_lock'[n][p] = x
          /\ \A m \in Node, e \in Node : m # n \/ e # p => send_lock'[m][e] = send_lock[m][e]
      BY <2>1, <3>1, <3>2, PlaceChanged
    <3> QED BY <3>3 DEF x
  <2>3. CASE left # << >>
    BY <1>5, <2>1, <2>3
  <2> QED BY <2>2, <2>3
<1>11. send_lock[n][p] = a /\ \A q \in Node : send_lock[n][q] = a => q = p
  BY <1>1, <1>2 DEF Inv, LockInv, Writing
<1>12. TypeOK'
  BY <1>5, <1>6, <1>7, <1>8, <1>9, <1>10 DEF Inv, TypeOK
<1>13. LockInv'
  <2> SUFFICES ASSUME NEW m \in Node, NEW b \in Actor
               PROVE  /\ rest'[m][b] # << >> => outbox'[m][b] # << >>
                      /\ \A q \in Node : send_lock'[m][q] = b <=> Writing(m, b, q)'
    BY DEF LockInv
  <2>1. b # NoActor
    BY ActorAssumption DEF Actor
  <2>2. CASE m = n /\ b = a
    <3>1. CASE left = << >>
      <4>1. rest'[m][b] = << >>
        BY <1>7, <2>2, <3>1
      <4>2. \A q \in Node : send_lock'[m][q] # b
        BY <1>10, <1>11, <2>1, <2>2, <3>1
      <4> QED BY <4>1, <4>2 DEF Writing
    <3>2. CASE left # << >>
      <4>1. outbox' = outbox /\ send_lock' = send_lock /\ rest'[m][b] # << >>
        BY <1>5, <1>7, <2>2, <3>2
      <4> QED BY <1>1, <2>2, <4>1 DEF Inv, LockInv, Writing
    <3> QED BY <3>1, <3>2
  <2>3. CASE m # n \/ b # a
    <3>1. rest'[m][b] = rest[m][b] /\ outbox'[m][b] = outbox[m][b]
      BY <1>7, <1>8, <2>3
    <3>2. \A q \in Node : send_lock'[m][q] = b <=> send_lock[m][q] = b
      BY <1>5, <1>10, <1>11, <2>1, <2>3
    <3> QED BY <3>1, <3>2 DEF Inv, LockInv, Writing
  <2> QED BY <2>2, <2>3
<1>14. ListenInv'
  <2>1. \A m \in Node : outbox[m][Listener] = << >> => outbox'[m][Listener] = << >>
    <3>1. Listener \in Actor
      BY DEF Actor
    <3> QED BY <1>1, <1>8, <3>1
  <2> QED BY <1>5, <2>1 DEF Inv, ListenInv
<1>15. Unwritten(n, p) = u \o left /\ Queue(n, p) = Append(chan[n][p], c)
  BY <1>2, <1>4, <1>11 DEF Unwritten, Queue
<1>16. Unwritten(n, p)' = left /\ Queue(n, p)' = Queue(n, p)
  <2>1. CASE left = << >>
    <3>1. send_lock'[n][p] \notin Actor
      BY <1>10, <2>1, ActorAssumption DEF Actor
    <3> QED BY <1>9, <1>15, <2>1, <3>1 DEF Unwritten, Queue
  <2>2. CASE left # << >>
    <3>1. UNCHANGED <<chan, outbox, send_lock>>
      BY <1>5, <2>2
    <3> QED BY <1>7, <1>11, <3>1 DEF Unwritten, Queue
  <2> QED BY <2>1, <2>2
<1>17. Stream(n, p)'
  <2> DEFINE x == pipe[n][p]
  <2>1. x \in Seq(Cell)
    BY DEF Inv, TypeOK
  <2>2. Flow(n, p) = x \o (u \o left)
    BY <1>15 DEF Flow
  <2>3. Flow(n, p)' = (x \o u) \o left
    BY <1>6, <1>16 DEF Flow
  <2> HIDE DEF x
  <2>4. Flow(n, p)' = Flow(n, p)
    BY <2>1, <2>2, <2>3, CellsAssociative, Zenon
  <2>5. Stream(n, p) /\ reading'[p] = reading[p]
    BY <1>5 DEF Inv, StreamInv
  <2> QED BY <1>16, <2>4, <2>5, StreamKept
<1>18. ASSUME NEW m \in Node, NEW q \in Node, m # n \/ q # p
       PROVE  Stream(m, q)'
  <2>1. send_lock[m][q] \in Actor => m # n \/ send_lock[m][q] # a
    BY <1>11, <1>18
  <2>2. Unwritten(m, q)' = Unwritten(m, q) /\ Queue(m, q)' = Queue(m, q)
    <3>1. send_lock'[m][q] = send_lock[m][q] /\ chan'[m][q] = chan[m][q]
      BY <1>9, <1>10, <1>18
    <3>2. send_lock[m][q] \in Actor =>
            /\ rest'[m][send_lock[m][q]] = rest[m][send_lock[m][q]]
            /\ outbox'[m][send_lock[m][q]] = outbox[m][send_lock[m][q]]
      BY <1>7, <1>8, <2>1
    <3> QED BY <3>1, <3>2, HolderKept
  <2>3. Flow(m, q)' = Flow(m, q) /\ reading'[q] = reading[q]
    BY <1>5, <1>6, <1>18, <2>2 DEF Flow
  <2>4. Stream(m, q)
    BY DEF Inv, StreamInv
  <2> QED BY <2>2, <2>3, <2>4, StreamKept
<1>19. StreamInv'
  BY <1>17, <1>18 DEF StreamInv
<1>20. \/ UNCHANGED <<chan, handled>>
       \/ \E q \in Node, m \in Message : Abstract!Send(n, q, m)
  BY <1>5 DEF Abstract!Send
<1> QED BY <1>12, <1>13, <1>14, <1>19, <1>20 DEF Inv

----------------------------------------------------------------------------
(***************************************************************************)
(* Steps of a listener                                                     *)
(***************************************************************************)

\* What reads from a connection does not touch the senders.
LEMMA SendersKept ==
  ASSUME LockInv, UNCHANGED <<outbox, rest, send_lock, chan>>
  PROVE  /\ LockInv'
         /\ \A p, n \in Node :
              Unwritten(p, n)' = Unwritten(p, n) /\ Queue(p, n)' = Queue(p, n)
BY DEF LockInv, Writing, Unwritten, Queue

\* The size is read.
LEMMA ReadSizeInv ==
  ASSUME Inv, NEW n \in Node, NEW p \in Node, ReadSize(n, p)
  PROVE  Inv' /\ UNCHANGED <<chan, handled>>
<1> DEFINE x == pipe[p][n]
           w == Head(x)
           U == Unwritten(p, n)
           Q == Queue(p, n)
           r == [from |-> p, want |-> w, data |-> << >>]
<1>1. /\ reading[n] = {} /\ outbox[n][Listener] = << >> /\ x # << >>
      /\ reading' = [reading EXCEPT ![n] = {r}]
      /\ pipe' = [pipe EXCEPT ![p][n] = Tail(x)]
      /\ UNCHANGED <<calls, outbox, rest, send_lock, chan, handled>>
  BY DEF ReadSize, Polling
<1>2. x \in Seq(Cell) /\ U \in Seq(Cell) /\ Q \in Seq(Message)
  BY StreamTypes DEF Inv
<1>3. Framed(x \o U, Q)
  <2>1. Stream(p, n)
    BY DEF Inv, StreamInv
  <2> QED BY <1>1, <2>1 DEF Stream, Flow
<1>4. PICK tail \in Seq(Cell) : tail = Tail(x) /\ <<w>> \o tail = x /\ <<w>> \in Seq(Cell)
  <2>1. Tail(x) \in Seq(Cell) /\ w \in Cell
    BY <1>1, <1>2, HeadTailProperties
  <2>2. <<w>> \in Seq(Cell)
    BY <2>1
  <2>3. <<w>> \o Tail(x) = x
    BY <1>1, <1>2
  <2> QED BY <2>1, <2>2, <2>3
<1> HIDE DEF x, U, Q
<1>5. w \in Nat
  <2> DEFINE S == x \o U
             f == Frame[Head(Q)]
  <2>1. /\ S \in Seq(Cell) /\ S # << >> /\ S[1] = x[1]
    <3>1. /\ S \in Seq(Cell) /\ Len(S) = Len(x) + Len(U)
          /\ \A i \in 1 .. Len(x) + Len(U) :
               S[i] = IF i <= Len(x) THEN x[i] ELSE U[i - Len(x)]
      BY <1>2, ConcatProperties
    <3>2. Len(x) \in Nat \ {0} /\ Len(U) \in Nat
      BY <1>1, <1>2, EmptySeq
    <3> HIDE DEF S
    <3>3. 1 \in 1 .. Len(x) + Len(U) /\ 1 <= Len(x) /\ Len(S) # 0
      BY <3>1, <3>2
    <3> QED BY <3>1, <3>3, EmptySeq
  <2> HIDE DEF S
  <2>2. Q # << >> /\ Head(Q) \in Message /\ \A k \in 1 .. Len(f) : S[k] = f[k]
    BY <1>2, <1>3, <2>1, FirstFrame DEF S
  <2>3. f \in Seq(Cell) /\ Len(f) >= 2 /\ f[1] = Len(f) - 1
    BY <2>2, FramesAreRead
  <2> HIDE DEF f
  <2>4. Len(f) \in Nat /\ 1 \in 1 .. Len(f)
    BY <2>3
  <2>5. S[1] = Len(f) - 1
    BY <2>2, <2>3, <2>4
  <2>6. w = x[1]
    BY <1>1, <1>2
  <2> HIDE DEF w
  <2>7. w = Len(f) - 1
    BY <2>1, <2>5, <2>6
  <2> QED BY <2>3, <2>4, <2>7
<1>6. PICK v \in Nat : v = w
  BY <1>5
<1>7. InHand(r) = <<v>> /\ r.from = p /\ r.want = v /\ r.data = << >> /\ r \in Reading
  <2>1. <<v>> \o << >> = <<v>>
    BY <1>4, <1>6, ConcatEmptySeq
  <2>2. << >> \in Seq(Cell)
    BY EmptySeq
  <2> QED BY <1>6, <2>1, <2>2 DEF InHand, Reading
<1>8. PICK s \in Reading : s = r
  BY <1>7
<1> HIDE DEF r, w
<1>9. /\ pipe' \in [Node -> [Node -> Seq(Cell)]] /\ pipe'[p][n] = tail
      /\ \A m, q \in Node : m # p \/ q # n => pipe'[m][q] = pipe[m][q]
  <2>1. pipe \in [Node -> [Node -> Seq(Cell)]]
    BY DEF Inv, TypeOK
  <2> QED BY <1>1, <1>4, <2>1, PlaceChanged
<1>10. /\ reading' \in [Node -> SUBSET Reading] /\ reading'[n] = {s}
       /\ \A m \in Node : m # n => reading'[m] = reading[m]
  BY <1>1, <1>8 DEF Inv, TypeOK
<1>11. TypeOK'
  BY <1>1, <1>9, <1>10 DEF Inv, TypeOK
<1>12. /\ LockInv'
       /\ \A m, q \in Node : Unwritten(m, q)' = Unwritten(m, q) /\ Queue(m, q)' = Queue(m, q)
  BY <1>1, SendersKept DEF Inv
<1>13. ListenInv'
  <2>1. Len(s.data) <= s.want
    BY <1>7, <1>8
  <2> QED BY <1>1, <1>10, <2>1 DEF Inv, ListenInv
<1>14. Stream(p, n)'
  <2>1. InHand(s) = <<v>> /\ s.from = p
    BY <1>7, <1>8
  <2>2. Flow(p, n)' = tail \o U
    BY <1>9, <1>12 DEF Flow, U
  <2>3. <<v>> \o (tail \o U) = x \o U
    <3> DEFINE vs == <<v>>
    <3>1. vs \in Seq(Cell) /\ vs \o tail = x
      BY <1>4, <1>6
    <3> HIDE DEF vs
    <3>2. vs \o (tail \o U) = (vs \o tail) \o U
      BY <1>2, <3>1, CellsAssociative, Zenon
    <3> QED BY <3>1, <3>2 DEF vs
  <2>4. Framed(InHand(s) \o Flow(p, n)', Queue(p, n)')
    BY <1>3, <1>12, <2>1, <2>2, <2>3 DEF Q
  <2> QED BY <1>10, <2>1, <2>4 DEF Stream, InHand
<1>15. ASSUME NEW m \in Node, NEW q \in Node, m # p \/ q # n
       PROVE  Stream(m, q)'
  <2>1. Flow(m, q)' = Flow(m, q) /\ Queue(m, q)' = Queue(m, q)
    BY <1>9, <1>12, <1>15 DEF Flow
  <2>2. Stream(m, q)
    BY DEF Inv, StreamInv
  <2>3. CASE q # n
    BY <1>10, <2>1, <2>2, <2>3, StreamKept
  <2>4. CASE q = n
    <3>1. Framed(Flow(m, q)', Queue(m, q)')
      BY <1>1, <2>1, <2>2, <2>4 DEF Stream
    <3>2. s.from # m
      BY <1>7, <1>8, <1>15, <2>4
    <3> QED BY <1>10, <2>4, <3>1, <3>2 DEF Stream
  <2> QED BY <2>3, <2>4
<1>16. StreamInv'
  BY <1>14, <1>15 DEF StreamInv
<1> QED BY <1>1, <1>11, <1>12, <1>13, <1>16 DEF Inv

\* Cells of the message are read.
LEMMA ReadCellsInv ==
  ASSUME Inv, NEW n \in Node, ReadCells(n)
  PROVE  Inv' /\ UNCHANGED <<chan, handled>>
<1>1. PICK r \in reading[n] :
        LET got == UpTo(pipe[r.from][n], r.want - Len(r.data))
        IN  /\ reading' = [reading EXCEPT ![n] = {[r EXCEPT !.data = @ \o got]}]
            /\ pipe' = [pipe EXCEPT ![r.from][n] = Behind(@, Len(got))]
  BY DEF ReadCells
<1>2. /\ r \in Reading /\ r.want \in Nat /\ r.data \in Seq(Cell) /\ r.from \in Node
      /\ Len(r.data) <= r.want /\ outbox[n][Listener] = << >>
      /\ \A s \in reading[n] : s = r
  <2>1. r \in Reading /\ r.want \in Nat /\ r.data \in Seq(Cell) /\ r.from \in Node
    BY StreamTypes DEF Inv
  <2> QED BY <2>1 DEF Inv, ListenInv
<1>3. PICK p \in Node : p = r.from
  BY <1>2
<1>4. PICK k \in Nat : k = r.want - Len(r.data)
  <2>1. Len(r.data) \in Nat
    BY <1>2
  <2> DEFINE k == r.want - Len(r.data)
  <2>2. k \in Nat
    BY <1>2, <2>1
  <2> QED BY <2>2
<1> DEFINE x == pipe[p][n]
           U == Unwritten(p, n)
           Q == Queue(p, n)
<1>5. x \in Seq(Cell) /\ U \in Seq(Cell) /\ Q \in Seq(Message)
  BY StreamTypes DEF Inv
<1>6. PICK got \in Seq(Cell), tail \in Seq(Cell) :
        /\ got = UpTo(x, k) /\ tail = Behind(x, Len(got)) /\ Len(got) <= k
        /\ got \o tail = x
  <2> HIDE DEF x
  <2>1. UpTo(x, k) \in Seq(Cell)
    BY <1>5, CutInTwo
  <2>2. Len(UpTo(x, k)) \in Nat
    BY <2>1
  <2>3. Behind(x, Len(UpTo(x, k))) \in Seq(Cell)
    BY <1>5, <2>2 DEF Behind
  <2> QED BY <1>5, <2>1, <2>3, CutInTwo
<1>7. PICK data \in Seq(Cell) :
        data = r.data \o got /\ Len(data) = Len(r.data) + Len(got)
  <2> DEFINE d == r.data
  <2>1. d \in Seq(Cell)
    BY <1>2
  <2> HIDE DEF d
  <2>2. d \o got \in Seq(Cell) /\ Len(d \o got) = Len(d) + Len(got)
    BY <2>1, ConcatProperties
  <2> QED BY <2>2 DEF d
<1>8. PICK s \in Reading :
        /\ s = [r EXCEPT !.data = data]
        /\ s.from = p /\ s.want = r.want /\ s.data = data
  <2> DEFINE s == [r EXCEPT !.data = data]
  <2>1. s \in Reading /\ s.from = p /\ s.want = r.want /\ s.data = data
    BY <1>2, <1>3 DEF Reading
  <2> HIDE DEF s
  <2> QED BY <2>1 DEF s
<1>9. /\ reading' = [reading EXCEPT ![n] = {s}]
      /\ pipe' = [pipe EXCEPT ![p][n] = tail]
      /\ UNCHANGED <<calls, outbox, rest, send_lock, chan, handled>>
  BY <1>1, <1>3, <1>4, <1>6, <1>7, <1>8 DEF ReadCells
<1>10. /\ pipe' \in [Node -> [Node -> Seq(Cell)]] /\ pipe'[p][n] = tail
       /\ \A m, q \in Node : m # p \/ q # n => pipe'[m][q] = pipe[m][q]
  <2>1. pipe \in [Node -> [Node -> Seq(Cell)]]
    BY DEF Inv, TypeOK
  <2> QED BY <1>6, <1>9, <2>1, PlaceChanged
<1>11. /\ reading' \in [Node -> SUBSET Reading] /\ reading'[n] = {s}
       /\ \A m \in Node : m # n => reading'[m] = reading[m]
  BY <1>8, <1>9 DEF Inv, TypeOK
<1>12. TypeOK'
  BY <1>9, <1>10, <1>11 DEF Inv, TypeOK
<1>13. /\ LockInv'
       /\ \A m, q \in Node : Unwritten(m, q)' = Unwritten(m, q) /\ Queue(m, q)' = Queue(m, q)
  BY <1>9, SendersKept DEF Inv
<1>14. ListenInv'
  <2>1. Len(s.data) <= s.want
    <3>1. Len(r.data) \in Nat /\ Len(got) \in Nat
      BY <1>2
    <3>2. Len(data) <= r.want
      <4> DEFINE i == Len(r.data)
                 j == Len(got)
                 l == Len(data)
      <4>1. i \in Nat /\ j \in Nat /\ l = i + j /\ j <= k /\ k = r.want - i
        BY <1>4, <1>6, <1>7, <3>1
      <4> HIDE DEF i, j, l
      <4>2. l <= r.want
        BY <1>2, <4>1
      <4> QED BY <4>2 DEF l
    <3> QED BY <1>8, <3>2
  <2> QED BY <1>2, <1>9, <1>11, <2>1 DEF Inv, ListenInv
<1>15. Stream(p, n)'
  <2>1. Framed(InHand(r) \o (x \o U), Q)
    <3>1. Stream(p, n)
      BY DEF Inv, StreamInv
    <3> QED BY <1>3, <3>1 DEF Stream, Flow
  <2>2. Flow(p, n)' = tail \o U
    BY <1>10, <1>13 DEF Flow
  <2>3. InHand(s) \o (tail \o U) = InHand(r) \o (x \o U)
    <3> DEFINE w == <<r.want>>
               d == r.data
    <3>1. w \in Seq(Cell) /\ d \in Seq(Cell)
      BY <1>2, NumbersAreCells
    <3>2. InHand(r) = w \o d /\ InHand(s) = w \o (d \o got)
      BY <1>7, <1>8 DEF InHand
    <3> HIDE DEF w, d, x, U
    <3>3. Cat(Cat(w, Cat(d, got)), Cat(tail, U)) = Cat(Cat(w, d), Cat(Cat(got, tail), U))
      BY <1>5, <3>1, CellsRegrouped
    <3>4. (w \o (d \o got)) \o (tail \o U) = (w \o d) \o ((got \o tail) \o U)
      BY <3>3, Zenon DEF Cat
    <3> QED BY <1>6, <3>2, <3>4
  <2>4. Framed(InHand(s) \o Flow(p, n)', Queue(p, n)')
    BY <1>13, <2>1, <2>2, <2>3
  <2> QED BY <1>8, <1>11, <2>4 DEF Stream, InHand
<1>16. ASSUME NEW m \in Node, NEW q \in Node, m # p \/ q # n
       PROVE  Stream(m, q)'
  <2>1. Flow(m, q)' = Flow(m, q) /\ Queue(m, q)' = Queue(m, q)
    BY <1>10, <1>13, <1>16 DEF Flow
  <2>2. Stream(m, q)
    BY DEF Inv, StreamInv
  <2>3. CASE q # n
    BY <1>11, <2>1, <2>2, <2>3, StreamKept
  <2>4. CASE q = n
    <3>1. \A t \in reading[q] : t.from # m
      BY <1>2, <1>3, <1>16, <2>4
    <3>2. Framed(Flow(m, q)', Queue(m, q)')
      BY <2>1, <2>2, <3>1 DEF Stream
    <3>3. s.from # m
      BY <1>8, <1>16, <2>4
    <3> QED BY <1>11, <2>4, <3>2, <3>3 DEF Stream
  <2> QED BY <2>3, <2>4
<1>17. StreamInv'
  BY <1>15, <1>16 DEF StreamInv
<1> QED BY <1>9, <1>12, <1>13, <1>14, <1>17 DEF Inv

\* A message in hand that is complete is the first that has been written.
LEMMA CompleteIsFirst ==
  ASSUME Inv, NEW n \in Node, NEW r \in reading[n], Len(r.data) >= r.want,
         NEW p \in Node, p = r.from
  PROVE  /\ chan[p][n] # << >> /\ Head(chan[p][n]) \in Message
         /\ r.data = Tail(Frame[Head(chan[p][n])])
         /\ Framed(Flow(p, n), Tail(Queue(p, n)))
<1> DEFINE h == InHand(r)
           R == Flow(p, n)
           Q == Queue(p, n)
           S == h \o R
           c == Head(Q)
           f == Frame[c]
<1>1. /\ h \in Seq(Cell) /\ R \in Seq(Cell) /\ Q \in Seq(Message)
      /\ r.want \in Nat /\ r.data \in Seq(Cell) /\ Len(r.data) = r.want
  <2>1. /\ h \in Seq(Cell) /\ R \in Seq(Cell) /\ Q \in Seq(Message)
        /\ r.want \in Nat /\ r.data \in Seq(Cell)
    BY StreamTypes DEF Inv
  <2>2. Len(r.data) <= r.want /\ Len(r.data) \in Nat
    BY <2>1 DEF Inv, ListenInv
  <2> QED BY <2>1, <2>2
<1>2. Framed(S, Q)
  <2>1. Stream(p, n)
    BY DEF Inv, StreamInv
  <2> QED BY <2>1 DEF Stream
<1>3. /\ Len(h) = r.want + 1 /\ h[1] = r.want /\ Tail(h) = r.data
  <2> DEFINE w == <<r.want>>
             d == r.data
  <2>1. w \in Seq(Cell) /\ Len(w) = 1 /\ w[1] = r.want /\ d \in Seq(Cell)
    BY <1>1, NumbersAreCells
  <2>2. h = w \o d
    BY DEF InHand
  <2> HIDE DEF w, d, h
  <2>3. /\ Len(h) = 1 + Len(d)
        /\ \A i \in 1 .. 1 + Len(d) : h[i] = IF i <= 1 THEN w[i] ELSE d[i - 1]
    <3>1. /\ Len(h) = Len(w) + Len(d)
          /\ \A i \in 1 .. Len(w) + Len(d) :
               h[i] = IF i <= Len(w) THEN w[i] ELSE d[i - Len(w)]
      BY <2>1, <2>2, ConcatProperties
    <3> QED BY <2>1, <3>1
  <2>4. Len(d) \in Nat /\ h # << >>
    BY <2>1, <2>3, EmptySeq
  <2>5. /\ Tail(h) \in Seq(Cell) /\ Len(Tail(h)) = Len(d)
        /\ \A i \in 1 .. Len(d) : Tail(h)[i] = h[i + 1]
    BY <1>1, <2>3, <2>4, HeadTailProperties
  <2>6. \A i \in 1 .. Len(d) : h[i + 1] = d[i]
    BY <2>3, <2>4
  <2>7. Tail(h) = d
    BY <2>1, <2>5, <2>6, SequencesEqual
  <2>8. h[1] = r.want
    BY <2>1, <2>3, <2>4
  <2> QED BY <1>1, <2>3, <2>7, <2>8 DEF d
<1> HIDE DEF h, R, Q
<1>4. /\ S \in Seq(Cell) /\ Len(S) = Len(h) + Len(R) /\ Len(R) \in Nat
      /\ \A i \in 1 .. Len(h) : S[i] = h[i]
  <2>1. /\ S \in Seq(Cell) /\ Len(S) = Len(h) + Len(R)
        /\ \A i \in 1 .. Len(h) + Len(R) :
             S[i] = IF i <= Len(h) THEN h[i] ELSE R[i - Len(h)]
    BY <1>1, ConcatProperties
  <2>2. Len(h) \in Nat /\ Len(R) \in Nat
    BY <1>1
  <2> HIDE DEF S
  <2> QED BY <2>1, <2>2
<1> HIDE DEF S
<1>5. S # << >>
  BY <1>1, <1>3, <1>4, EmptySeq
<1>6. /\ Q # << >> /\ c \in Message
      /\ Len(f) <= Len(S) /\ \A k \in 1 .. Len(f) : S[k] = f[k]
      /\ Len(Q) = 1 => Len(f) = Len(S)
  BY <1>1, <1>2, <1>4, <1>5, FirstFrame
<1>7. f \in Seq(Cell) /\ Len(f) >= 2 /\ f[1] = Len(f) - 1 /\ Len(f) \in Nat
  <2>1. f \in Seq(Cell) /\ Len(f) >= 2 /\ f[1] = Len(f) - 1
    BY <1>6, FramesAreRead
  <2> HIDE DEF f
  <2> QED BY <2>1
<1> HIDE DEF c, f
<1>8. Len(f) = Len(h) /\ f = h
  <2>1. S[1] = f[1] /\ S[1] = h[1]
    <3>1. 1 \in 1 .. Len(f) /\ 1 \in 1 .. Len(h)
      BY <1>1, <1>3, <1>7
    <3> QED BY <1>4, <1>6, <3>1
  <2>2. Len(f) = Len(h)
    BY <1>1, <1>3, <1>7, <2>1
  <2>3. \A k \in 1 .. Len(f) : f[k] = h[k]
    BY <1>4, <1>6, <2>2
  <2> QED BY <1>1, <1>7, <2>2, <2>3, SequencesEqual
<1>9. r.data = Tail(f)
  BY <1>3, <1>8
<1>10. Framed(R, Tail(Q))
  BY <1>1, <1>2, <1>6, <1>8, FrameTaken DEF S, f, c
<1>11. chan[p][n] # << >>
  <2> SUFFICES ASSUME chan[p][n] = << >>
               PROVE  FALSE
    OBVIOUS
  <2>1. send_lock[p][n] \in Actor
    BY <1>6 DEF Q, Queue
  <2> DEFINE a == send_lock[p][n]
  <2>2. rest[p][a] # << >> /\ rest[p][a] \in Seq(Cell) /\ Unwritten(p, n) = rest[p][a]
    BY <2>1 DEF Inv, TypeOK, LockInv, Writing, Unwritten
  <2>3. Len(Q) = 1
    BY <2>1 DEF Q, Queue
  <2>4. Len(R) = 0
    BY <1>1, <1>3, <1>4, <1>6, <1>8, <2>3
  <2> DEFINE x == pipe[p][n]
             u == rest[p][a]
  <2>5. R = x \o u /\ x \in Seq(Cell)
    BY <2>2 DEF R, Flow, Inv, TypeOK
  <2> HIDE DEF x, u, a
  <2>6. Len(R) = Len(x) + Len(u) /\ Len(x) \in Nat /\ Len(u) \in Nat \ {0}
    BY <2>2, <2>5, EmptySeq, ConcatProperties DEF u
  <2> QED BY <2>4, <2>6
<1>12. c = Head(chan[p][n])
  <2>1. chan[p][n] \in Seq(Message)
    BY DEF Inv, TypeOK
  <2> QED BY <1>11, <2>1 DEF c, Q, Queue
<1> QED BY <1>6, <1>9, <1>10, <1>11, <1>12 DEF R, Q, f

\* A reply to a GET is a message.
LEMMA ReplyIsSent ==
  ASSUME NEW c \in Message, NEW p \in Node
  PROVE  Reply(c, p) \in Seq(Sending)
<1>1. CASE c.kind = "get"
  <2>1. c \in Content
    BY <1>1 DEF Message, GetReply
  <2>2. GetReply(c) \in Message
    BY <1>1, <2>1 DEF Message
  <2>3. [to |-> p, content |-> GetReply(c)] \in Sending
    BY <2>2 DEF Sending
  <2> QED BY <1>1, <2>3 DEF Reply
<1>2. CASE c.kind # "get"
  BY <1>2, EmptySeq DEF Reply
<1> QED BY <1>1, <1>2

\* The message is handled, and perhaps answered.
LEMMA HandleInv ==
  ASSUME Inv, NEW n \in Node, Handle(n)
  PROVE  Inv' /\ \E p \in Node : Abstract!Handle(p, n)
<1>1. PICK r \in reading[n] :
        LET c == IF r.data \in Bodies THEN Received[r.data] ELSE Unreadable
        IN  /\ Len(r.data) >= r.want
            /\ chan' = [chan EXCEPT ![r.from][n] = Behind(@, 1)]
            /\ handled' = [handled EXCEPT ![r.from][n] = <<c>>]
            /\ outbox' = [outbox EXCEPT ![n][Listener] = Reply(c, r.from)]
  BY DEF Handle
<1>2. PICK p \in Node : p = r.from
  BY StreamTypes DEF Inv
<1>3. /\ chan[p][n] # << >> /\ Head(chan[p][n]) \in Message
      /\ r.data = Tail(Frame[Head(chan[p][n])])
      /\ Framed(Flow(p, n), Tail(Queue(p, n)))
  BY <1>1, <1>2, CompleteIsFirst
<1>4. PICK c \in Message : c = Head(chan[p][n])
  BY <1>3
<1>5. r.data \in Bodies /\ Received[r.data] = c
  BY <1>3, <1>4, FramesAreRead DEF Bodies
<1> DEFINE x   == chan[p][n]
           rep == Reply(c, p)
<1>6. x \in Seq(Message) /\ x # << >> /\ Tail(x) \in Seq(Message)
  <2>1. x \in Seq(Message)
    BY DEF Inv, TypeOK
  <2> HIDE DEF x
  <2>2. x # << >>
    BY <1>3 DEF x
  <2> QED BY <2>1, <2>2, HeadTailProperties
<1>7. Behind(x, 1) = Tail(x)
  <2> HIDE DEF x
  <2>1. Tail(x) = SubSeq(x, 2, Len(x))
    BY <1>6, TailIsSubSeq
  <2>2. 1 + 1 = 2
    OBVIOUS
  <2> QED BY <2>1, <2>2 DEF Behind
<1>8. /\ chan' = [chan EXCEPT ![p][n] = Tail(x)]
      /\ handled' = [handled EXCEPT ![p][n] = <<c>>]
      /\ outbox' = [outbox EXCEPT ![n][Listener] = rep]
      /\ reading' = [reading EXCEPT ![n] = {}]
      /\ UNCHANGED <<calls, rest, send_lock, pipe>>
  BY <1>1, <1>2, <1>5, <1>7 DEF Handle
<1>9. rep \in Seq(Sending)
  BY ReplyIsSent
<1> HIDE DEF x, rep
<1>10. Listener \in Actor /\ outbox[n][Listener] = << >> /\ rest[n][Listener] = << >>
  <2>1. Listener \in Actor
    BY DEF Actor
  <2>2. outbox[n][Listener] = << >>
    BY DEF Inv, ListenInv
  <2> QED BY <2>1, <2>2, NothingToWrite DEF Inv
<1>11. /\ outbox' \in [Node -> [Actor -> Seq(Sending)]]
       /\ LockInv'
       /\ \A m, q \in Node : chan'[m][q] = chan[m][q] =>
            Unwritten(m, q)' = Unwritten(m, q) /\ Queue(m, q)' = Queue(m, q)
  BY <1>8, <1>9, <1>10, OutboxChanged
<1>12. /\ chan' \in [Node -> [Node -> Seq(Message)]] /\ chan'[p][n] = Tail(x)
       /\ \A m, q \in Node : m # p \/ q # n => chan'[m][q] = chan[m][q]
  <2>1. chan \in [Node -> [Node -> Seq(Message)]]
    BY DEF Inv, TypeOK
  <2> QED BY <1>6, <1>8, <2>1, PlaceChanged
<1>13. handled' \in [Node -> [Node -> Seq(Message)]]
  <2>1. handled \in [Node -> [Node -> Seq(Message)]] /\ <<c>> \in Seq(Message)
    BY DEF Inv, TypeOK
  <2> QED BY <1>8, <2>1, PlaceChanged
<1>14. /\ reading' \in [Node -> SUBSET Reading] /\ reading'[n] = {}
       /\ \A m \in Node : m # n => reading'[m] = reading[m]
  BY <1>8 DEF Inv, TypeOK
<1>15. TypeOK'
  BY <1>8, <1>11, <1>12, <1>13, <1>14 DEF Inv, TypeOK
<1>16. ListenInv'
  <2>1. \A m \in Node : m # n => outbox'[m] = outbox[m]
    <3>1. outbox \in [Node -> [Actor -> Seq(Sending)]]
      BY DEF Inv, TypeOK
    <3> QED BY <1>8, <1>9, <1>10, <3>1, PlaceChanged
  <2> QED BY <1>14, <2>1 DEF Inv, ListenInv
<1>17. Unwritten(p, n)' = Unwritten(p, n) /\ Queue(p, n)' = Tail(Queue(p, n))
  <2>1. CASE send_lock[p][n] \in Actor
    <3>1. PICK a \in Actor : a = send_lock[p][n]
      BY <2>1
    <3>2. p # n \/ a # Listener
      BY <1>10, <3>1, IdleHoldsNothing DEF Inv
    <3>3. outbox'[p][a] = outbox[p][a]
      <4>1. outbox \in [Node -> [Actor -> Seq(Sending)]]
        BY DEF Inv, TypeOK
      <4> QED BY <1>8, <1>9, <1>10, <3>2, <4>1, PlaceChanged
    <3>4. outbox[p][a] # << >>
      BY <3>1 DEF Inv, LockInv, Writing
    <3>5. PICK m \in Message : m = Head(outbox[p][a]).content
      BY <3>4, NextSending DEF Inv
    <3>6. Queue(p, n) = Append(x, m) /\ Queue(p, n)' = Append(Tail(x), m)
      BY <1>8, <1>12, <3>1, <3>3, <3>5 DEF Queue, x
    <3>7. Tail(Append(x, m)) = Append(Tail(x), m)
      BY <1>6
    <3>8. Unwritten(p, n)' = Unwritten(p, n)
      BY <1>8 DEF Unwritten
    <3> QED BY <3>6, <3>7, <3>8
  <2>2. CASE send_lock[p][n] \notin Actor
    BY <1>8, <1>12, <2>2 DEF Queue, Unwritten, x
  <2> QED BY <2>1, <2>2
<1>18. Stream(p, n)'
  <2>1. Flow(p, n)' = Flow(p, n)
    BY <1>8, <1>17 DEF Flow
  <2>2. Framed(Flow(p, n)', Queue(p, n)')
    BY <1>3, <1>17, <2>1
  <2> QED BY <1>14, <2>2 DEF Stream
<1>19. ASSUME NEW m \in Node, NEW q \in Node, m # p \/ q # n
       PROVE  Stream(m, q)'
  <2>1. Unwritten(m, q)' = Unwritten(m, q) /\ Queue(m, q)' = Queue(m, q)
    BY <1>11, <1>12, <1>19
  <2>2. Flow(m, q)' = Flow(m, q)
    BY <1>8, <2>1 DEF Flow
  <2>3. Stream(m, q)
    BY DEF Inv, StreamInv
  <2>4. CASE q # n
    BY <1>14, <2>1, <2>2, <2>3, <2>4, StreamKept
  <2>5. CASE q = n
    <3>1. \A t \in reading[q] : t.from # m
      BY <1>2, <1>19, <2>5 DEF Inv, ListenInv
    <3>2. Framed(Flow(m, q)', Queue(m, q)')
      BY <2>1, <2>2, <2>3, <3>1 DEF Stream
    <3> QED BY <1>14, <2>5, <3>2 DEF Stream
  <2> QED BY <2>4, <2>5
<1>20. StreamInv'
  BY <1>18, <1>19 DEF StreamInv
<1>21. Abstract!Handle(p, n)
  BY <1>3, <1>4, <1>8 DEF Abstract!Handle, x
<1> QED BY <1>11, <1>15, <1>16, <1>20, <1>21 DEF Inv

----------------------------------------------------------------------------
(***************************************************************************)
(* The theorems                                                            *)
(***************************************************************************)

\* A broadcast is to some sequence of nodes.
LEMMA OrdersAreSequences ==
  ASSUME NEW n \in Node, NEW order \in SetToSeqs(Node \ {n})
  PROVE  order \in Seq(Node)
<1> DEFINE S == Node \ {n}
           l == Cardinality(S)
<1>1. IsFiniteSet(S)
  BY NodeAssumption, FS_RemoveElement
<1>2. l \in Nat
  BY <1>1, FS_CardinalityType
<1>3. order \in [1 .. l -> S]
  BY DEF SetToSeqs
<1> HIDE DEF l
<1>4. order \in [1 .. l -> Node]
  BY <1>3
<1> QED BY <1>2, <1>4

\* Every step keeps the invariant, and is a step of Connections or none.
LEMMA StepInv ==
  ASSUME Inv, [Next]_vars
  PROVE  Inv' /\ [Abstract!Next]_(Abstract!vars)
<1>1. CASE UNCHANGED vars
  BY <1>1 DEF vars, Inv, TypeOK, LockInv, Writing, ListenInv, StreamInv, Stream,
       Flow, Queue, Unwritten, InHand, Abstract!vars
<1>2. ASSUME NEW n \in Node, NEW t \in Thread, SendOne(n, t) \/ Broadcast(n, t)
      PROVE  Inv' /\ UNCHANGED <<chan, handled>>
  <2>1. CASE SendOne(n, t)
    <3>1. PICK c \in Content, p \in Node \ {n} : Send(n, t, c, <<p>>)
      BY <2>1 DEF SendOne
    <3>2. <<p>> \in Seq(Node)
      OBVIOUS
    <3> QED BY <3>1, <3>2, SendInv
  <2>2. CASE Broadcast(n, t)
    <3>1. PICK c \in Content, order \in SetToSeqs(Node \ {n}) : Send(n, t, c, order)
      BY <2>2 DEF Broadcast
    <3> QED BY <3>1, OrdersAreSequences, SendInv
  <2> QED BY <1>2, <2>1, <2>2
<1>3. ASSUME NEW n \in Node, NEW t \in Thread, SendSelf(n, t)
      PROVE  Inv' /\ Abstract!Next
  BY <1>3, SendSelfInv DEF Abstract!Next
<1>4. ASSUME NEW n \in Node, NEW a \in Actor, WriteOn(n, a)
      PROVE  Inv' /\ (UNCHANGED <<chan, handled>> \/ Abstract!Next)
  <2>1. CASE LockPeer(n, a)
    BY <2>1, LockPeerInv
  <2>2. CASE WriteCells(n, a)
    BY <2>2, WriteCellsInv DEF Abstract!Next
  <2> QED BY <1>4, <2>1, <2>2 DEF WriteOn
<1>5. ASSUME NEW n \in Node, Listen(n)
      PROVE  Inv' /\ (UNCHANGED <<chan, handled>> \/ Abstract!Next)
  <2>1. ASSUME NEW p \in Node \ {n}, ReadSize(n, p)
        PROVE  Inv' /\ UNCHANGED <<chan, handled>>
    BY <2>1, ReadSizeInv
  <2>2. CASE ReadCells(n)
    BY <2>2, ReadCellsInv
  <2>3. CASE Handle(n)
    BY <2>3, HandleInv DEF Abstract!Next
  <2> QED BY <1>5, <2>1, <2>2, <2>3 DEF Listen
<1> QED BY <1>1, <1>2, <1>3, <1>4, <1>5 DEF Next, Abstract!vars

\* The invariant holds: threads write a message under the send lock of its peer, a
\* listener reads no further than the message, and what is on a connection are the
\* messages that have been sent, whole and in order (edsm_proto_send,
\* read_message_from_socket).
THEOREM WireCorrect == Spec => []Inv
<1>1. Init => Inv
  BY InitInv
<1>2. Inv /\ [Next]_vars => Inv'
  BY StepInv
<1> QED BY <1>1, <1>2, PTL DEF Spec

\* The connections are reliable and in order, as the other modules take them to be:
\* handle_message is given what edsm_proto_send was given, message by message.
THEOREM WireDelivers == Spec => ImplementsConnections
<1>1. Init => Abstract!Init
  BY DEF Init, Abstract!Init
<1>2. Inv /\ [Next]_vars => [Abstract!Next]_(Abstract!vars)
  BY StepInv
<1> QED BY <1>1, <1>2, WireCorrect, PTL DEF Spec, ImplementsConnections, Abstract!Spec
=============================================================================
