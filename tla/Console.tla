------------------------------ MODULE Console ------------------------------
(***************************************************************************)
(* kernel/console.c and kernel/uart.c: the line editor between the UART's  *)
(* interrupt and read(), and the two ways in which bytes reach the         *)
(* transmitter: the ring of uartputc(), for write(), and uartputc_sync(),  *)
(* for echoes, which does not take uart_tx_lock.                           *)
(*                                                                         *)
(* The device is modelled from its use: a transmit FIFO whose LSR_TX_IDLE  *)
(* bit says that it is empty and which drops what it has no room for, and  *)
(* an interrupt when the FIFO has emptied or a key was typed.  The PLIC    *)
(* gives the interrupt to one CPU at a time.                               *)
(***************************************************************************)
EXTENDS Naturals, Sequences
LOCAL INSTANCE SequencesExt

CONSTANTS
  Writers,           \* processes writing to the console
  TxBuf,             \* UART_TX_BUF_SIZE
  FifoSize,          \* the transmitter's FIFO
  InputBuf,          \* INPUT_BUF
  CMod,              \* 2^32: r, w and e wrap
  Keys,              \* what may be typed: "a" (any text), "nl", "D", "U", "H"
  MaxRx,             \* keys the receiver holds
  MaxWork,           \* bound on the keys typed, the bytes written and the
                     \* reads that fail
  ReadSize           \* the n of every read()

ASSUME ConsoleAssumption ==
  /\ {TxBuf, FifoSize, InputBuf, CMod, ReadSize} \subseteq Nat \ {0}
  /\ {MaxRx, MaxWork} \subseteq Nat /\ CMod % InputBuf = 0 /\ CMod > InputBuf
  /\ Keys \subseteq {"a", "nl", "D", "U", "H"}

VARIABLES
  cons,         \* [buf, r, w, e]
  rpc, rgot,    \* the reader: "user", "read" or "asleep"; what this read() has got
  intr,         \* [pc, c, echo] of the interrupt handler
  tx,           \* [buf, r, w] of the transmit ring
  txlock,       \* who holds uart_tx_lock, or "free"
  hand,         \* the byte uartstart() has taken out of the ring, or 0
  wpc,          \* the writers: "user", "putc" or "asleep"
  fifo, irq, rx,      \* the device: bytes to send, interrupt pending, keys not read
  work, typed, eaten, reads, sentOut
    \* ghosts: keys, bytes and failures so far; the edited stream; how much of it was
    \* taken, and the results of read(), each with what it took and did not
    \* return; bytes of write() that have been sent

consVars == <<cons, rpc, rgot, intr, tx, txlock, hand, wpc, fifo, irq, rx,
              work, typed, eaten, reads, sentOut>>

\* An echo is 0; the bytes of write() are numbered as they enter the ring.
Echo == 0
Minus(a, b) == (a + CMod - b) % CMod
BufAt(c, k) == c.buf[k % InputBuf]

\* The shell waits for a line, when the indices are about to wrap.
ConsInit ==
  /\ cons = [buf |-> [k \in 0 .. InputBuf - 1 |-> "nl"],
             r |-> CMod - 1, w |-> CMod - 1, e |-> CMod - 1]
  /\ rpc = "asleep" /\ rgot = <<>> /\ intr = [pc |-> "idle", c |-> "none", echo |-> 0]
  /\ tx = [buf |-> [k \in 0 .. TxBuf - 1 |-> Echo], r |-> 0, w |-> 0]
  /\ txlock = "free" /\ hand = Echo
  /\ wpc = [p \in Writers |-> "user"]
  /\ fifo = <<>> /\ irq = FALSE /\ rx = <<>>
  /\ work = 0 /\ typed = [done |-> <<>>, line |-> <<>>] /\ eaten = 0 /\ reads = <<>>
  /\ sentOut = 0

InSame == UNCHANGED <<cons, rpc, rgot, typed, eaten, reads>>
OutSame == UNCHANGED <<tx, hand, wpc>>

---------------------------------------------------------------------------
(* The device.                                                             *)

Send ==
  /\ fifo # <<>> /\ fifo' = Tail(fifo) /\ irq' = (irq \/ Len(fifo) = 1)
  /\ sentOut' = IF Head(fifo) = Echo THEN sentOut ELSE sentOut + 1
  /\ UNCHANGED <<intr, txlock, rx, work>> /\ InSame /\ OutSame
TypeKey ==
  /\ work < MaxWork /\ work' = work + 1 /\ Len(rx) < MaxRx /\ irq' = TRUE
  /\ \E c \in Keys : rx' = Append(rx, c)
  /\ UNCHANGED <<intr, txlock, fifo, sentOut>> /\ InSame /\ OutSame
\* WriteReg(THR, c)
WriteThr(c) == fifo' = IF Len(fifo) < FifoSize THEN Append(fifo, c) ELSE fifo

---------------------------------------------------------------------------
(* Input.                                                                  *)

\* cons.e after ^U: back to the last newline or to what is committed.
KillLine(c) ==
  CHOOSE e \in 0 .. CMod - 1 :
    /\ Minus(e, c.w) <= Minus(c.e, c.w)
    /\ e = c.w \/ BufAt(c, Minus(e, 1)) = "nl"
    /\ \A k \in 1 .. Minus(c.e, e) : BufAt(c, Minus(c.e, k)) # "nl"
HasRoom(c) == Minus(c.e, c.r) < InputBuf
Stored(c, key) == [c EXCEPT !.buf[c.e % InputBuf] = key, !.e = (c.e + 1) % CMod]
Commits(c, key) == key \in {"nl", "D"} \/ c.e = (c.r + InputBuf) % CMod

\* consoleintr(): the buffer it leaves and the bytes it echoes first.
consoleintr(c, key) ==
  IF key = "U" THEN [c EXCEPT !.e = KillLine(c)]
  ELSE IF key = "H" THEN [c EXCEPT !.e = IF c.e # c.w THEN Minus(@, 1) ELSE @]
  ELSE IF ~HasRoom(c) THEN c
  ELSE LET d == Stored(c, key) IN IF Commits(d, key) THEN [d EXCEPT !.w = d.e] ELSE d
consputc(c, key) ==
  IF key = "U" THEN 3 * Minus(c.e, KillLine(c))
  ELSE IF key = "H" THEN IF c.e # c.w THEN 3 ELSE 0
  ELSE IF HasRoom(c) THEN 1 ELSE 0

\* The same keys on an unbounded stream: lines that are done, or as much of
\* one as there is room for, and the line that can still be edited.
Edited(t, key) ==
  LET line == Append(t.line, key)
      unread == Len(t.done) - eaten
  IN  IF key = "U" THEN [t EXCEPT !.line = <<>>]
      ELSE IF key = "H"
      THEN [t EXCEPT !.line = IF @ = <<>> THEN @ ELSE SubSeq(@, 1, Len(@) - 1)]
      ELSE IF unread + Len(t.line) = InputBuf THEN t
      ELSE IF key \in {"nl", "D"} \/ unread + Len(line) = InputBuf
      THEN [done |-> t.done \o line, line |-> <<>>]
      ELSE [t EXCEPT !.line = line]

\* uartintr() takes the keys one by one; cons.lock is held from Getc until
\* the key is stored, the spinning of uartputc_sync() included.
Interrupt ==
  /\ intr.pc = "idle" /\ irq /\ irq' = FALSE /\ intr' = [intr EXCEPT !.pc = "get"]
  /\ UNCHANGED <<txlock, fifo, rx, work, sentOut>> /\ InSame /\ OutSame
Getc ==
  /\ intr.pc = "get" /\ rx # <<>> /\ rx' = Tail(rx)
  /\ intr' = [pc |-> "echo", c |-> Head(rx), echo |-> consputc(cons, Head(rx))]
  /\ UNCHANGED <<txlock, fifo, irq, work, sentOut>> /\ InSame /\ OutSame
SyncIdle ==
  /\ intr.pc = "echo" /\ intr.echo > 0 /\ fifo = <<>> /\ intr' = [intr EXCEPT !.pc = "thr"]
  /\ UNCHANGED <<txlock, fifo, irq, rx, work, sentOut>> /\ InSame /\ OutSame
SyncPut ==
  /\ intr.pc = "thr" /\ WriteThr(Echo)
  /\ intr' = [intr EXCEPT !.pc = "echo", !.echo = @ - 1]
  /\ UNCHANGED <<txlock, irq, rx, work, sentOut>> /\ InSame /\ OutSame
Store ==
  /\ intr.pc = "echo" /\ intr.echo = 0 /\ intr' = [intr EXCEPT !.pc = "get"]
  /\ cons' = consoleintr(cons, intr.c) /\ typed' = Edited(typed, intr.c)
  /\ rpc' = IF rpc = "asleep" /\ cons'.w # cons.w THEN "read" ELSE rpc
  /\ UNCHANGED <<rgot, eaten, reads, txlock, fifo, irq, rx, work, sentOut>> /\ OutSame

ConsLockFree == intr.pc \notin {"echo", "thr"}

\* One turn of consoleread()'s outer loop.
TakesEof(c, n) == (c.r + 1) % CMod                \* mutant: ^D is not kept
AfterEof(c, n) == IF n < ReadSize THEN c.r ELSE (c.r + 1) % CMod
ReadReturns(got, took) ==
  rpc' = "user" /\ rgot' = <<>> /\ reads' = Append(reads, [got |-> got, took |-> took])
Read ==
  LET c == BufAt(cons, cons.r)
      n == ReadSize - Len(rgot)
      next == IF c = "D" THEN AfterEof(cons, n) ELSE (cons.r + 1) % CMod
  IN  /\ rpc \in {"user", "read"} /\ ConsLockFree
      /\ IF cons.r = cons.w
         THEN rpc' = "asleep" /\ UNCHANGED <<cons, rgot, eaten, reads>>
         ELSE /\ cons' = [cons EXCEPT !.r = next]
              /\ eaten' = IF next = cons.r THEN eaten ELSE eaten + 1
              /\ IF c = "D" THEN ReadReturns(rgot, IF next = cons.r THEN <<>> ELSE <<c>>)
                 ELSE IF c = "nl" \/ n = 1 THEN ReadReturns(Append(rgot, c), <<>>)
                 ELSE rpc' = "read" /\ rgot' = Append(rgot, c) /\ UNCHANGED reads
      /\ UNCHANGED <<intr, txlock, fifo, irq, rx, work, sentOut, typed>> /\ OutSame

\* consoleread() fails: either_copyout() does, for the key just taken, and what
\* was copied before is returned; or there is no input and the process was
\* killed, and read() is -1 whatever it has copied.  The next read() is that of
\* another process.
ReadFails ==
  LET c == BufAt(cons, cons.r) IN
  /\ work < MaxWork /\ work' = work + 1 /\ ConsLockFree
  /\ \/ /\ rpc \in {"user", "read"} /\ cons.r # cons.w /\ c # "D"
        /\ cons' = [cons EXCEPT !.r = (@ + 1) % CMod] /\ eaten' = eaten + 1
        /\ ReadReturns(rgot, <<c>>)
     \/ cons.r = cons.w /\ ReadReturns(<<>>, rgot) /\ UNCHANGED <<cons, eaten>>
  /\ UNCHANGED <<intr, txlock, fifo, irq, rx, sentOut, typed>> /\ OutSame

---------------------------------------------------------------------------
(* Output.                                                                 *)

\* uartputc(): sleep while the ring is full, then put and uartstart().
NoWakeup(pcs) == pcs                              \* mutant: no wakeup(&uart_tx_r)
WakeWriting(pcs) == [p \in Writers |-> IF pcs[p] = "asleep" THEN "putc" ELSE pcs[p]]
consolewrite(p) ==
  /\ wpc[p] = "user" /\ txlock # p /\ work < MaxWork /\ work' = work + 1
  /\ wpc' = [wpc EXCEPT ![p] = "putc"]
  /\ UNCHANGED <<tx, hand, txlock, intr, fifo, irq, rx, sentOut>> /\ InSame
Putc(p) ==
  /\ wpc[p] = "putc" /\ txlock = "free"
  /\ IF tx.w = tx.r + TxBuf
     THEN wpc' = [wpc EXCEPT ![p] = "asleep"] /\ UNCHANGED <<tx, txlock>>
     ELSE /\ tx' = [tx EXCEPT !.buf[tx.w % TxBuf] = tx.w + 1, !.w = @ + 1]
          /\ txlock' = p /\ wpc' = [wpc EXCEPT ![p] = "user"]
  /\ UNCHANGED <<hand, intr, fifo, irq, rx, work, sentOut>> /\ InSame

\* The end of uartintr().
IntrTx ==
  /\ intr.pc = "get" /\ rx = <<>> /\ txlock = "free" /\ txlock' = "intr"
  /\ intr' = [intr EXCEPT !.pc = "start"]
  /\ UNCHANGED <<fifo, irq, rx, work, sentOut>> /\ InSame /\ OutSame

\* uartstart(), with the lock: done, or a byte is taken out of the ring and
\* then given to the device.
TxEmptied == tx.r = tx.w                          \* mutant: LSR_TX_IDLE not read
TxDone == tx.r = tx.w \/ fifo # <<>>
UartStart ==
  /\ txlock # "free" /\ hand = Echo
  /\ IF TxDone
     THEN /\ txlock' = "free" /\ UNCHANGED <<tx, hand, wpc>>
          /\ intr' = IF txlock = "intr" THEN [intr EXCEPT !.pc = "idle"] ELSE intr
     ELSE /\ hand' = tx.buf[tx.r % TxBuf] /\ tx' = [tx EXCEPT !.r = @ + 1]
          /\ wpc' = WakeWriting(wpc) /\ UNCHANGED <<txlock, intr>>
  /\ UNCHANGED <<fifo, irq, rx, work, sentOut>> /\ InSame
UartPut ==
  /\ hand # Echo /\ WriteThr(hand) /\ hand' = Echo
  /\ UNCHANGED <<tx, wpc, txlock, intr, irq, rx, work, sentOut>> /\ InSame

ConsNext ==
  \/ Send \/ TypeKey \/ Interrupt \/ Getc \/ SyncIdle \/ SyncPut \/ Store \/ Read \/ ReadFails
  \/ \E p \in Writers : consolewrite(p) \/ Putc(p)
  \/ IntrTx \/ UartStart \/ UartPut

\* The device sends, a pending interrupt is taken, a CPU that holds a lock
\* or spins goes on, and processes that can run are scheduled.  Nobody has to
\* type or to write.
ConsFairness ==
  /\ WF_consVars(Send) /\ WF_consVars(Interrupt) /\ WF_consVars(Getc)
  /\ WF_consVars(SyncIdle) /\ WF_consVars(SyncPut) /\ WF_consVars(Store)
  /\ WF_consVars(UartStart) /\ WF_consVars(UartPut)
  /\ WF_consVars(IntrTx) /\ WF_consVars(Read) /\ \A p \in Writers : WF_consVars(Putc(p))

---------------------------------------------------------------------------
(* Properties.                                                             *)

Ring(from, to) == [k \in 1 .. Minus(to, from) |-> BufAt(cons, (from + k - 1) % CMod)]

\* cons.buf is the edited input: between r and w what is done and was not
\* read, between w and e the line being edited, at every wrap of the
\* indices, and no key overwrites what a read() has still to get.
InputKept ==
  /\ Ring(cons.r, cons.w) = SubSeq(typed.done, eaten + 1, Len(typed.done))
  /\ Ring(cons.w, cons.e) = typed.line

\* What read() has returned and what it took and did not return (the ^D of an
\* end of file, a key that could not be copied, the keys of a process that
\* was killed) are the stream that was typed.  None returns more than a line;
\* one that took no more than it returned and ends before the line does and
\* before n is followed by an end of file, which is empty.
EndOfFile == [got |-> <<>>, took |-> <<"D">>]
ReadsLines ==
  /\ FlattenSeq([k \in DOMAIN reads |-> reads[k].got \o reads[k].took]) \o rgot
       = SubSeq(typed.done, 1, eaten)
  /\ \A k \in DOMAIN reads : LET s == reads[k].got IN
       /\ \A j \in DOMAIN s : s[j] # "D" /\ (s[j] = "nl" => j = Len(s))
       /\ s # <<>> /\ s[Len(s)] # "nl" /\ Len(s) < ReadSize /\ reads[k].took = <<>> /\ k < Len(reads)
            => reads[k + 1] = EndOfFile
       /\ reads[k].took = <<"D">> => s = <<>>

\* Bytes of write() that are not sent yet are in order in the device, in the
\* hands of the holder of uart_tx_lock, and in the ring; and the device has
\* room for every byte it is given, though echoes take no lock.
NothingLost ==
  LET pending == SelectSeq(fifo, LAMBDA b : b # Echo)
                 \o (IF hand = Echo THEN <<>> ELSE <<hand>>)
                 \o [k \in 1 .. tx.w - tx.r |-> tx.buf[(tx.r + k - 1) % TxBuf]]
  IN  /\ pending = [k \in 1 .. tx.w - sentOut |-> sentOut + k]
      /\ intr.pc = "thr" \/ hand # Echo => Len(fifo) < FifoSize

\* In the end every byte is sent, every writer has returned and the reader
\* has got all that was committed: no wakeup and no interrupt is missed.
ConsoleQuiet ==
  <>[](/\ \A p \in Writers : wpc[p] = "user"
       /\ fifo = <<>> /\ tx.r = tx.w /\ rx = <<>> /\ eaten = Len(typed.done))
=============================================================================
