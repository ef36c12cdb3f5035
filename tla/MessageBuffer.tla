---------------------------- MODULE MessageBuffer ----------------------------
(***************************************************************************)
(* struct edsm_message and the functions of src/message.c.                 *)
(*                                                                         *)
(* A message is a buffer in three parts: head room, data and tail room.    *)
(* Writing takes cells from the tail, and from a larger buffer when they   *)
(* do not suffice; reading gives cells of the data to the head.  A cell    *)
(* stands for a value that is written and read as a whole.                 *)
(*                                                                         *)
(* The functions change a message in place; here they return the new one.  *)
(* malloc succeeds, and a cell that nobody has written holds Junk.         *)
(***************************************************************************)
EXTENDS Integers, Sequences

CONSTANT Junk   \* what malloc leaves in a buffer; the other cells are numbers

ASSUME JunkAssumption == Junk \notin Nat

Room == [buffer : Seq(Nat \cup {Junk}), head_size : Nat, data_size : Nat,
         tail_size : Nat]

\* The parts make up the buffer.
WellFormed(msg) ==
  /\ msg \in Room
  /\ Len(msg.buffer) = msg.head_size + msg.data_size + msg.tail_size

\* The data of a message.
Data(msg) ==
  [i \in 1 .. msg.data_size |-> msg.buffer[msg.head_size + i]]

Create(head_size, tail_size) ==
  [buffer |-> [i \in 1 .. head_size + tail_size |-> Junk],
   head_size |-> head_size, data_size |-> 0, tail_size |-> tail_size]

----------------------------------------------------------------------------
(***************************************************************************)
(* The parts                                                               *)
(***************************************************************************)

\* edsm_message_put, push, pull and pull_tail move the bounds of the data; each
\* one asserts that there is room.
CanPut(msg, cells) == msg.tail_size >= cells

Put(msg, cells) == [msg EXCEPT !.data_size = @ + cells, !.tail_size = @ - cells]

CanPush(msg, cells) == msg.head_size >= cells

Push(msg, cells) == [msg EXCEPT !.data_size = @ + cells, !.head_size = @ - cells]

CanPull(msg, cells) == msg.data_size >= cells

Pull(msg, cells) == [msg EXCEPT !.head_size = @ + cells, !.data_size = @ - cells]

PullTail(msg, cells) ==
  [msg EXCEPT !.tail_size = @ + cells, !.data_size = @ - cells]

----------------------------------------------------------------------------
(***************************************************************************)
(* Copies                                                                  *)
(***************************************************************************)

\* edsm_message_resize: the old buffer is copied so that the data begins behind
\* the new head room; what does not fit is cut off at the end.
Resize(msg, new_head_size, new_tail_size) ==
  LET shift == new_head_size - msg.head_size
      Copied(i) == i - shift \in 1 .. Len(msg.buffer)
  IN  [buffer |-> [i \in 1 .. new_head_size + msg.data_size + new_tail_size |->
                     IF Copied(i) THEN msg.buffer[i - shift] ELSE Junk],
       head_size |-> new_head_size, data_size |-> msg.data_size,
       tail_size |-> new_tail_size]

\* edsm_message_clone: only the data is copied.
Clone(msg) ==
  [msg EXCEPT !.buffer =
     [i \in 1 .. Len(@) |->
        IF i - msg.head_size \in 1 .. msg.data_size THEN @[i] ELSE Junk]]

----------------------------------------------------------------------------
(***************************************************************************)
(* Writing and reading                                                     *)
(***************************************************************************)

\* The tail room that edsm_message_write asks for when it has too little.
NewTail(msg, cells) ==
  IF Len(msg.buffer) > cells THEN 2 * Len(msg.buffer) ELSE 2 * cells

\* msg with tail room for so many cells.
Roomy(msg, cells) ==
  IF CanPut(msg, cells) THEN msg
                        ELSE Resize(msg, msg.head_size, NewTail(msg, cells))

\* The memcpy of edsm_message_write: xs behind the data.
Filled(msg, xs) ==
  LET start == msg.head_size + msg.data_size
  IN  [msg EXCEPT !.buffer =
         [i \in 1 .. Len(@) |->
            IF i - start \in 1 .. Len(xs) THEN xs[i - start] ELSE @[i]]]

\* edsm_message_write
Write(msg, xs) == Put(Filled(Roomy(msg, Len(xs)), xs), Len(xs))

\* edsm_message_read: whether it succeeds, what is read, and what is left.
Read(msg, cells) ==
  IF CanPull(msg, cells)
  THEN [ok |-> TRUE, out |-> SubSeq(Data(msg), 1, cells), msg |-> Pull(msg, cells)]
  ELSE [ok |-> FALSE, out |-> << >>, msg |-> msg]

\* The NULL message.
NoMessage == [none |-> TRUE]

\* edsm_message_write_message
WriteMessage(dst, val) ==
  IF val = NoMessage THEN Write(dst, <<0>>)
                     ELSE Write(Write(dst, <<val.data_size>>), Data(val))

\* A message that holds xs, as the readers make one.
Holding(xs) == Put(Filled(Create(0, Len(xs)), xs), Len(xs))

\* edsm_message_read_message: a message without data is read as NULL.
ReadMessage(msg) ==
  LET size == Read(msg, 1)
      body == Read(size.msg, size.out[1])
  IN  IF ~ size.ok THEN [ok |-> FALSE, out |-> NoMessage, msg |-> msg]
      ELSE IF size.out[1] = 0
      THEN [ok |-> TRUE, out |-> NoMessage, msg |-> size.msg]
      ELSE [ok |-> body.ok, out |-> Holding(body.out), msg |-> body.msg]

\* edsm_message_write_string
WriteString(dst, str) == Write(Write(dst, <<Len(str)>>), str)

\* edsm_message_read_string
ReadString(msg) ==
  LET size == Read(msg, 1)
  IN  IF ~ size.ok THEN [ok |-> FALSE, out |-> << >>, msg |-> msg]
                   ELSE Read(size.msg, size.out[1])
==============================================================================
