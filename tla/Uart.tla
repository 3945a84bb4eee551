-------------------------------- MODULE Uart --------------------------------
(***************************************************************************)
(* The interrupt driven UART driver (uart/uart.c): the two rings between   *)
(* its interrupt handler and the tasks that read and write.  The ring      *)
(* operations run with interrupts off, and a writer that finds the ring    *)
(* full begins to wait in the same step: a system call is an interrupt     *)
(* task, and the command line thread has interrupts off (CpuScheduler).    *)
(***************************************************************************)
EXTENDS Integers, Sequences

CONSTANTS
  RingSize,    \* RX_RING_SIZE and TX_RING_SIZE
  Threads,     \* kernel threads that write with uart_puts
  Processes,   \* processes that write with the uart_write system call
  Texts,       \* the texts a writer may have to write
  DebugTexts,  \* the texts uart_debug_puts may print
  Inputs       \* the bytes that may arrive together

ASSUME RingAssumption == RingSize \in Nat \ {0}

VARIABLES
  tx, rx,     \* the rings: bytes, head and tail
  thr_empty,  \* the THR_EMPTY bit of the interrupt enable register
  todo,       \* what each writer has left to write
  waiting,    \* writers waiting for TASK_WAIT_UART_WRITE
  polled,     \* uart_debug_puts has emptied tx under the waiting writers
  put, sent,  \* the bytes the last step put into tx or sent to the line
  stored, got \* the bytes the last step put into rx or took out of it

vars == <<tx, rx, thr_empty, todo, waiting, polled, put, sent, stored, got>>

Writers == Threads \cup Processes
Bytes   == {"a", "\r", "\n"}
Slots   == 0..(RingSize - 1)

ASSUME TextAssumption ==
  Texts \cup DebugTexts \cup Inputs \subseteq Seq(Bytes)

Rings   == [bytes : [Slots -> Bytes \cup {"used"}], head : Slots, tail : Slots]

TypeOK ==
  /\ tx \in Rings
  /\ rx \in Rings
  /\ thr_empty \in BOOLEAN
  /\ todo \in [Writers -> Seq(Bytes)]
  /\ waiting \subseteq Writers
  /\ polled \in BOOLEAN
  /\ {put, sent, stored, got} \subseteq Seq(Bytes)

Empty == [bytes |-> [s \in Slots |-> "used"], head |-> 0, tail |-> 0]

Init ==
  /\ tx = Empty
  /\ rx = Empty
  /\ thr_empty = FALSE
  /\ todo \in [Writers -> Texts]
  /\ waiting = {}
  /\ polled = FALSE
  /\ put = << >> /\ sent = << >>
  /\ stored = << >> /\ got = << >>

-----------------------------------------------------------------------------
(* Rings.                                                                  *)

Full(ring) == (ring.head + 1) % RingSize = ring.tail

\* Faulty variant: the last slot is used too, and a full ring looks empty.
StoreAlways(ring, c) ==
  [ring EXCEPT !.bytes[ring.head] = c, !.head = (@ + 1) % RingSize]

Store(ring, c) ==
  IF Full(ring) THEN ring
  ELSE [ring EXCEPT !.bytes[ring.head] = c, !.head = (@ + 1) % RingSize]

Count(ring) == (RingSize + ring.head - ring.tail) % RingSize

\* The first n bytes of a ring, and the ring without them: what a slot holds
\* once it has been read is not looked at again.
First(ring, n) == [i \in 1..n |-> ring.bytes[(ring.tail + i - 1) % RingSize]]
Drop(ring, n) ==
  LET read == {(ring.tail + i) % RingSize : i \in 0..(n - 1)}
  IN  [ring EXCEPT !.tail = (@ + n) % RingSize,
                   !.bytes = [s \in Slots |->
                                IF s \in read THEN "used" ELSE @[s]]]
Content(ring) == First(ring, Count(ring))

-----------------------------------------------------------------------------
(* Output.                                                                 *)

NoInput == UNCHANGED rx /\ stored' = << >> /\ got' = << >>
NoOutput ==
  UNCHANGED <<tx, thr_empty, todo, waiting, polled>> /\ put' = << >> /\ sent' = << >>

\* A write in progress: the ring, the bytes put into it and how many bytes of
\* the text they stand for.
Writing(ring) == [tx |-> ring, put |-> << >>, count |-> 0, stop |-> FALSE]

\* _uart_put_core.
PutCore(w, c) ==
  IF Full(w.tx) THEN [w EXCEPT !.stop = TRUE]
  ELSE [w EXCEPT !.tx = Store(@, c), !.put = Append(@, c)]

\* One turn of the loop of uart_put_bytes.
PutByte(w, c) ==
  IF w.stop THEN w
  ELSE LET return == IF c = "\n" THEN PutCore(w, "\r") ELSE w
           done == PutCore(return, c)
       IN  IF done.stop THEN done ELSE [done EXCEPT !.count = @ + 1]

uart_put_bytes(text) ==
  LET F[i \in 0..Len(text)] ==
        IF i = 0 THEN Writing(tx) ELSE PutByte(F[i-1], text[i])
  IN  F[Len(text)]

\* Faulty variant: a writer does not ask for interrupts.
WriteUnarmed(w) ==
  LET write == uart_put_bytes(todo[w])
  IN  /\ w \notin waiting
      /\ todo[w] # << >>
      /\ tx' = write.tx
      /\ put' = write.put
      /\ sent' = << >>
      /\ NoInput
      /\ todo' = [todo EXCEPT ![w] = SubSeq(@, write.count + 1, Len(@))]
      /\ waiting' = IF (w \in Threads /\ todo'[w] # << >>) \/ write.count = 0
                    THEN waiting \cup {w} ELSE waiting
      /\ UNCHANGED <<thr_empty, polled>>

\* One turn of uart_puts, or one uart_write system call.  uart_puts waits
\* until all is written, the system call only when it could write nothing.
Write(w) ==
  LET write == uart_put_bytes(todo[w])
  IN  /\ w \notin waiting
      /\ todo[w] # << >>
      /\ tx' = write.tx
      /\ put' = write.put
      /\ sent' = << >>
      /\ NoInput
      /\ thr_empty' = (thr_empty \/ write.put # << >>)
      /\ todo' = [todo EXCEPT ![w] = SubSeq(@, write.count + 1, Len(@))]
      /\ waiting' = IF (w \in Threads /\ todo'[w] # << >>) \/ write.count = 0
                    THEN waiting \cup {w} ELSE waiting
      /\ UNCHANGED polled

\* Faulty variant: the text overtakes what is in the ring.
uart_debug_puts_direct(text) ==
  /\ sent' = text
  /\ put' = text
  /\ NoInput
  /\ UNCHANGED <<tx, thr_empty, todo, waiting, polled>>

\* The ring is drained by polling; nobody is told of the room in it.
uart_debug_puts(text) ==
  /\ sent' = Content(tx) \o text
  /\ put' = text
  /\ tx' = Drop(tx, Count(tx))
  /\ polled' = (waiting # {})
  /\ NoInput
  /\ UNCHANGED <<thr_empty, todo, waiting>>

-----------------------------------------------------------------------------
(* The interrupt handler.                                                  *)

\* The bytes that have arrived go into the ring as long as it has room.
Receive(bytes) ==
  LET F[i \in 0..Len(bytes)] == IF i = 0 THEN rx ELSE Store(F[i-1], bytes[i])
      room == RingSize - 1 - Count(rx)
  IN  /\ rx' = F[Len(bytes)]
      /\ stored' = SubSeq(bytes, 1,
                          IF Len(bytes) <= room THEN Len(bytes) ELSE room)
      /\ got' = << >>

\* Faulty variant: the writers are told only of an empty ring.
TransmitQuiet(n, drained) ==
  /\ n <= Count(tx)
  /\ drained => n = Count(tx)
  /\ sent' = First(tx, n)
  /\ put' = << >>
  /\ tx' = Drop(tx, n)
  /\ thr_empty' = (thr_empty /\ ~ drained)
  /\ waiting' = IF n > 0 /\ drained THEN {} ELSE waiting
  /\ polled' = (polled /\ waiting' # {})

\* The transmitter takes n bytes, until it is busy or the ring is drained.
Transmit(n, drained) ==
  /\ n <= Count(tx)
  /\ drained => n = Count(tx)
  /\ sent' = First(tx, n)
  /\ put' = << >>
  /\ tx' = Drop(tx, n)
  /\ thr_empty' = (thr_empty /\ ~ drained)
  /\ waiting' = IF n > 0 THEN {} ELSE waiting
  /\ polled' = (polled /\ waiting' # {})

\* The interrupt comes when bytes have arrived, or when the transmitter is
\* ready and its interrupt is enabled.
uart_irq_handler(bytes, n, drained) ==
  /\ bytes # << >> \/ (thr_empty /\ (n > 0 \/ drained))
  /\ Receive(bytes)
  /\ Transmit(n, drained)
  /\ UNCHANGED todo

uart_get_bytes(n) ==
  LET read == IF n <= Count(rx) THEN n ELSE Count(rx)
  IN  /\ rx' = Drop(rx, read)
      /\ got' = First(rx, read)
      /\ stored' = << >>
      /\ NoOutput

Next ==
  \/ \E w \in Writers : Write(w)
  \/ \E text \in DebugTexts : uart_debug_puts(text)
  \/ \E bytes \in Inputs, n \in Slots, drained \in BOOLEAN :
       uart_irq_handler(bytes, n, drained)
  \/ \E n \in 1..RingSize : uart_get_bytes(n)

Spec == Init /\ [][Next]_vars

-----------------------------------------------------------------------------
(* Properties.                                                             *)

\* Every byte put into a ring is taken out of it once, in order: sent, also
\* around the end of the ring and with debug output in between, or read.
BytesOrdered ==
  [][/\ sent' \o Content(tx)' = Content(tx) \o put'
     /\ got' \o Content(rx)' = Content(rx) \o stored']_vars

\* The interrupt that empties the transmit ring is asked for while there is
\* anything to empty: output never stops half way.
OutputArmed == TypeOK /\ (tx.head # tx.tail => thr_empty)

\* A writer waits only while the ring is full: the interrupt that makes room
\* has not come yet, and it will wake the writer.  The exception is debug
\* output, which makes room without an interrupt.
WritersWaitForRoom == waiting # {} => Full(tx) \/ polled

=============================================================================
