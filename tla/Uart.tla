--------------------------------- MODULE Uart ---------------------------------
(***************************************************************************)
(* design/Uart.v: the serial port, clock by clock.  The divisor latch, the *)
(* interrupt enables and the scratch registers are left out (LCR.DLAB and  *)
(* IER stay at their reset value 0, as under the firmware), so offset 0 is *)
(* always THR/RBR and the interrupt line is never raised.                  *)
(***************************************************************************)
EXTENDS Integers

CONSTANTS
  BITS            \* data bits of a frame (8 in the code)

ASSUME BitsAssumption == BITS \in Nat \ {0}

VARIABLES
  uart            \* the registers of the transmitter and of the receiver

Byte == 0..2^BITS - 1

Bit(b, i) == (b \div 2^i) % 2

WithBit(b, i, v) == b + (v - Bit(b, i)) * 2^i

States == {"IDLE", "START", "DATA", "STOP"}

\* Reset leaves the shift registers alone: their first value is any of junk.
UartReset(junk) == {[tx |-> 1, tx_state |-> "IDLE", tx_clk_count |-> 0,
               tx_bit_index |-> 0, tx_shift_reg |-> t,
               rx_state |-> "IDLE", rx_clk_count |-> 0, rx_bit_index |-> 0,
               rx_shift_reg |-> r, rx_data_reg |-> 0,
               rx_ready |-> FALSE, rx_prev |-> 1] : t, r \in junk}

tx_busy(u) == u.tx_state # "IDLE"

Writes(bus, reg) == bus.slave = "uart" /\ bus.we /\ bus.reg = reg

Reads(bus, reg) == bus.slave = "uart" /\ ~bus.we /\ bus.reg = reg

TxLine(u) ==
  IF u.tx_state = "START" THEN 0
  ELSE IF u.tx_state = "DATA" THEN Bit(u.tx_shift_reg, u.tx_bit_index) ELSE 1

TxNext_NoIdle(u) ==
  IF u.tx_state = "START" THEN "DATA"
  ELSE IF u.tx_bit_index = BITS - 1 THEN "STOP" ELSE "DATA"

TxNext(u) ==
  IF u.tx_state = "START" THEN "DATA"
  ELSE IF u.tx_state = "STOP" THEN "IDLE"
  ELSE IF u.tx_bit_index = BITS - 1 THEN "STOP" ELSE "DATA"

TxBitOver(u, clks) == u.tx_clk_count = clks - 1

TxEdge(u, bus, clks) ==
  IF ~tx_busy(u)
  THEN IF Writes(bus, "THR")
       THEN [u EXCEPT !.tx = 1, !.tx_shift_reg = bus.data,
                      !.tx_state = "START", !.tx_clk_count = 0]
       ELSE [u EXCEPT !.tx = 1]
  ELSE IF TxBitOver(u, clks)
  THEN [u EXCEPT !.tx = TxLine(u), !.tx_clk_count = 0,
                 !.tx_state = TxNext(u),
                 !.tx_bit_index = IF u.tx_state = "START" THEN 0
                                  ELSE IF TxNext(u) = "DATA" THEN @ + 1
                                  ELSE @]
  ELSE [u EXCEPT !.tx = TxLine(u), !.tx_clk_count = @ + 1]

RxPeriod_FullStart(u, clks) == clks

\* A start bit is confirmed half a bit after its edge; every later sample is
\* one bit period after the last.
RxPeriod(u, clks) == IF u.rx_state = "START" THEN clks \div 2 ELSE clks

\* The receiver finishes a byte at this edge.
RxDone(u, clks) == u.rx_state = "STOP" /\ u.rx_clk_count = clks - 1

RxReady_ReadWins(u, bus, clks) ==
  (RxDone(u, clks) \/ u.rx_ready) /\ ~Reads(bus, "RBR")

\* A read of RBR takes the byte, unless another one is finished by the same
\* edge.
RxReady(u, bus, clks) ==
  RxDone(u, clks) \/ (u.rx_ready /\ ~Reads(bus, "RBR"))

\* What the receiver's state machine does with a level rx of the line.
RxSample(u, rx, clks) ==
  CASE u.rx_state = "IDLE" ->
         [u EXCEPT !.rx_clk_count = 0,
                   !.rx_state = IF u.rx_prev = 1 /\ rx = 0 THEN "START"
                                ELSE "IDLE"]
    [] u.rx_state # "IDLE" /\ u.rx_clk_count # RxPeriod(u, clks) - 1 ->
         [u EXCEPT !.rx_clk_count = @ + 1]
    [] u.rx_state = "START" /\ u.rx_clk_count = RxPeriod(u, clks) - 1 ->
         IF rx = 0
         THEN [u EXCEPT !.rx_clk_count = 0, !.rx_bit_index = 0,
                        !.rx_state = "DATA"]
         ELSE [u EXCEPT !.rx_state = "IDLE"]
    [] u.rx_state = "DATA" /\ u.rx_clk_count = RxPeriod(u, clks) - 1 ->
         LET last == u.rx_bit_index = BITS - 1
         IN  [u EXCEPT !.rx_clk_count = 0,
                       !.rx_shift_reg = WithBit(@, u.rx_bit_index, rx),
                       !.rx_state = IF last THEN "STOP" ELSE "DATA",
                       !.rx_bit_index = IF last THEN @ ELSE @ + 1]
    [] RxDone(u, clks) ->
         [u EXCEPT !.rx_clk_count = 0, !.rx_data_reg = u.rx_shift_reg,
                   !.rx_state = "IDLE"]

RxEdge(u, bus, rx, clks) ==
  [RxSample(u, rx, clks) EXCEPT !.rx_prev = rx,
                                !.rx_ready = RxReady(u, bus, clks)]

\* One clock with the line looped back, transmitter to receiver.
UartEdge(bus, clks) ==
  uart' = RxEdge(TxEdge(uart, bus, clks), bus, uart.tx, clks)

\* What a read of a register returns.
UartRead(u, reg) ==
  IF reg = "RBR" THEN u.rx_data_reg
  ELSE [THRE |-> ~tx_busy(u), DR |-> u.rx_ready]

\* The registers and their widths.
UartRegisters(clks) ==
  [tx : {0, 1}, tx_state : States, tx_clk_count : 0..clks - 1,
   tx_bit_index : 0..BITS - 1, tx_shift_reg : Byte,
   rx_state : States, rx_clk_count : 0..clks - 1,
   rx_bit_index : 0..BITS - 1, rx_shift_reg : Byte,
   rx_data_reg : Byte, rx_ready : BOOLEAN, rx_prev : {0, 1}]

UartTypeOK(clks) == uart \in UartRegisters(clks)

=============================================================================
