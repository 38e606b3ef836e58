------------------------------- MODULE UartRing -------------------------------
(***************************************************************************)
(* The receive ring of a UART: an interrupt, or whoever injects bytes, at  *)
(* the head, and one reader at the tail, without a lock.  The accesses     *)
(* take effect in program order, as they do between an interrupt and a     *)
(* task of one core.                                                       *)
(***************************************************************************)
EXTENDS Integers, Sequences

CONSTANTS
  UartBytes,    \* the bytes on the line
  UartSize,     \* UART_RB_SIZE, ZHIO_HOST_UART_RB_SZ: a power of two
  UartMaxLen,   \* bound of a run: bytes of one call
  NoByte        \* what the ring holds where nothing was written

ASSUME UartAssumption == UartSize \in Nat \ {0} /\ UartMaxLen \in Nat

VARIABLES
  ring,   \* buf, head and tail
  input,  \* the writer: where it is and the bytes it still has
  reader  \* the reader: where it is, the bytes it has and those it wants

uartVars == <<ring, input, reader>>

Next1(i) == (i + 1) % UartSize
UartUsed == (ring.head - ring.tail) % UartSize

EmptyRing == [buf |-> [i \in 0..(UartSize - 1) |-> NoByte], head |-> 0, tail |-> 0]

UartTypes ==
  /\ ring.head \in 0..(UartSize - 1) /\ ring.tail \in 0..(UartSize - 1)
  /\ input.pc \in {"rest", "check", "write", "publish"}
  /\ input.pc # "rest" => input.left # <<>>
  /\ reader.pc \in {"rest", "check", "read", "advance"}
  /\ reader.pc # "rest" => reader.want > 0

UartStart ==
  /\ ring = EmptyRing
  /\ input = [pc |-> "rest", left |-> <<>>, lost |-> FALSE]
  /\ reader = [pc |-> "rest", want |-> 0, byte |-> NoByte, last |-> NoByte]

(* hal_uart_init, uart_rb_init: before the ring is used again.             *)
UartInit ==
  /\ input.pc = "rest" /\ reader.pc = "rest"
  /\ ring' = EmptyRing
  /\ UNCHANGED <<input, reader>>

-----------------------------------------------------------------------------
Inject(bytes) ==
  /\ input.pc = "rest"
  /\ input' = [pc |-> "check", left |-> bytes, lost |-> FALSE]
  /\ UNCHANGED <<ring, reader>>

(* One byte was stored or dropped; BUSY is returned when any was dropped.  *)
NextByte(dropped) ==
  input' = [pc   |-> IF Len(input.left) > 1 THEN "check" ELSE "rest",
            left |-> Tail(input.left),
            lost |-> input.lost \/ dropped]

(* As PushCheck, without the test for a full ring.                         *)
PushCheckNever ==
  /\ input.pc = "check"
  /\ input' = [input EXCEPT !.pc = "write"]
  /\ UNCHANGED <<ring, reader>>

PushCheck ==
  /\ input.pc = "check"
  /\ IF Next1(ring.head) = ring.tail THEN NextByte(TRUE)
     ELSE input' = [input EXCEPT !.pc = "write"]
  /\ UNCHANGED <<ring, reader>>

PushWrite ==
  /\ input.pc = "write"
  /\ ring' = [ring EXCEPT !.buf[ring.head] = Head(input.left)]
  /\ input' = [input EXCEPT !.pc = "publish"]
  /\ UNCHANGED reader

PushPublish ==
  /\ input.pc = "publish"
  /\ ring' = [ring EXCEPT !.head = Next1(@)]
  /\ NextByte(FALSE)
  /\ UNCHANGED reader

-----------------------------------------------------------------------------
Receive(n) ==
  /\ reader.pc = "rest"
  /\ reader' = [reader EXCEPT !.pc = "check", !.want = n]
  /\ UNCHANGED <<ring, input>>

PopCheck ==
  /\ reader.pc = "check"
  /\ ring.head # ring.tail
  /\ reader' = [reader EXCEPT !.pc = "read"]
  /\ UNCHANGED <<ring, input>>

PopRead ==
  /\ reader.pc = "read"
  /\ reader' = [reader EXCEPT !.pc = "advance", !.byte = ring.buf[ring.tail]]
  /\ UNCHANGED <<ring, input>>

PopAdvance ==
  /\ reader.pc = "advance"
  /\ ring' = [ring EXCEPT !.tail = Next1(@)]
  /\ reader' = [reader EXCEPT !.pc = IF reader.want > 1 THEN "check" ELSE "rest",
                              !.want = @ - 1, !.byte = NoByte, !.last = reader.byte]
  /\ UNCHANGED input

(* Nothing came in time: the bytes that were read are not given back.      *)
ReceiveTimeout ==
  /\ reader.pc = "check"
  /\ ring.head = ring.tail
  /\ reader' = [reader EXCEPT !.pc = "rest", !.want = 0]
  /\ UNCHANGED <<ring, input>>

UartNext ==
  \/ UartInit
  \/ \E n \in 1..UartMaxLen :
       Receive(n) \/ \E bytes \in [1..n -> UartBytes] : Inject(bytes)
  \/ PushCheck \/ PushWrite \/ PushPublish
  \/ PopCheck \/ PopRead \/ PopAdvance \/ ReceiveTimeout

UartSpec == UartStart /\ [][UartNext]_uartVars

-----------------------------------------------------------------------------
(* What the ring shows to the outside: the bytes between tail and head.    *)
UartContents == [i \in 1..UartUsed |-> ring.buf[(ring.tail + i - 1) % UartSize]]

Ring == INSTANCE Fifo WITH
  Messages <- UartBytes, Capacity <- UartSize - 1, None <- NoByte,
  contents <- UartContents, out <- reader.last

(* Bytes come out of the ring in the order in which they went in, once     *)
(* each and whole, although writer and reader share no lock: a full ring   *)
(* drops the new byte and overwrites no unread one (uart_rb_push,          *)
(* uart_rb_pop, hal_uart_rx_inject, hal_uart_receive).                     *)
RingIsFifo == Ring!Spec
=============================================================================
