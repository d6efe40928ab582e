------------------------------- MODULE Boards -------------------------------
(***************************************************************************)
(* The families of boards the driver knows, as xpci3xxx_init_priv_data     *)
(* describes them (privdata.h): what each of the three timer units can be  *)
(* used as and where its registers are, and which other functions the      *)
(* board has.                                                              *)
(*                                                                         *)
(* The board information is allocated by kmalloc and                       *)
(* memset(data, 0, sizeof(data)) clears the first eight bytes of it (the   *)
(* size of the pointer), so a capability that a family does not assign has *)
(* the value the memory had.  It is written Unset here, and resolved by a  *)
(* choice when a board is initialised (Tcw).                               *)
(***************************************************************************)
EXTENDS Integers

TIMER == "timer"
COUNTER == "counter"
WATCHDOG == "watchdog"
Kinds == {TIMER, COUNTER, WATCHDOG}

(* ADDIDATA_MAX_TCW units, each with a set of kinds or Unset. *)
Units == 0 .. 2
Unset == {"unset"}
T == {TIMER}
TC == {TIMER, COUNTER}
TW == {TIMER, WATCHDOG}

(* The analog input function: numbers of channels, whether single or       *)
(* differential may be chosen, whether there is DMA, and the smallest      *)
(* convert time in microseconds and delay time in its first base (0: the   *)
(* function takes no time).                                                *)
Analog(n, choose, dma, convert, delay) ==
  [channels |-> n, seDiff |-> choose, dma |-> dma, convert |-> convert, delay |-> delay]

xPCIe3021 ==
  [ name |-> "xPCIe-3021", units |-> <<T, Unset, Unset>>, offset |-> <<128, 0, 0>>,
    digital |-> TRUE, ttl |-> FALSE, outputs |-> {0},
    input |-> Analog({4, 8, 16}, TRUE, TRUE, 10, 10) ]

xPCIe3521 ==
  [ name |-> "xPCIe-3521", units |-> <<T, TW, Unset>>, offset |-> <<128, 160, 0>>,
    digital |-> TRUE, ttl |-> FALSE, outputs |-> {4, 8},
    input |-> Analog({0}, TRUE, TRUE, 10, 10) ]

xPCIe3121 ==
  [ name |-> "xPCIe-3121", units |-> <<T, TW, Unset>>, offset |-> <<128, 160, 0>>,
    digital |-> TRUE, ttl |-> FALSE, outputs |-> {4, 8},
    input |-> Analog({8, 16}, TRUE, TRUE, 10, 10) ]

xPCI3002 ==
  [ name |-> "xPCI-3002/xPCI-3003", units |-> <<T, {}, {}>>, offset |-> <<64, 0, 0>>,
    digital |-> TRUE, ttl |-> FALSE, outputs |-> {0},
    input |-> Analog({4, 8, 16}, FALSE, TRUE, 5, 1) ]

xPCI3002Audi ==
  [ name |-> "xPCI-3002 Audi", units |-> <<TC, TC, TC>>, offset |-> <<64, 96, 128>>,
    digital |-> TRUE, ttl |-> FALSE, outputs |-> {0},
    input |-> Analog({16}, FALSE, TRUE, 5, 1) ]

xPCI3116 ==
  [ name |-> "xPCI-3116/xPCI-3110", units |-> <<TC, Kinds, Kinds>>, offset |-> <<128, 160, 192>>,
    digital |-> TRUE, ttl |-> TRUE, outputs |-> {4},
    input |-> Analog({8, 16}, TRUE, TRUE, 5, 1) ]

xPCI3016 ==
  [ name |-> "xPCI-3016/xPCI-3010", units |-> <<TC, TC, Kinds>>, offset |-> <<128, 160, 192>>,
    digital |-> TRUE, ttl |-> TRUE, outputs |-> {0},
    input |-> Analog({4, 8, 16}, TRUE, TRUE, 5, 1) ]

xPCI3106 ==
  [ name |-> "xPCI-3106/xPCI-3100", units |-> <<TC, TC, TC>>, offset |-> <<128, 160, 192>>,
    digital |-> FALSE, ttl |-> TRUE, outputs |-> {4},
    input |-> Analog({8, 16}, TRUE, FALSE, 10, 1) ]

xPCI3006 ==
  [ name |-> "xPCI-3006/xPCI-3000", units |-> <<TC, TC, TC>>, offset |-> <<128, 160, 192>>,
    digital |-> FALSE, ttl |-> TRUE, outputs |-> {0},
    input |-> Analog({4, 8, 16}, TRUE, FALSE, 10, 1) ]

xPCI3500 ==
  [ name |-> "xPCI-3500", units |-> <<TC, TC, TC>>, offset |-> <<128, 160, 192>>,
    digital |-> FALSE, ttl |-> TRUE, outputs |-> {4},
    input |-> Analog({0}, FALSE, FALSE, 0, 0) ]

xPCI3501 ==
  [ name |-> "xPCI-3501", units |-> <<TW, Unset, Unset>>, offset |-> <<32, 64, 96>>,
    digital |-> TRUE, ttl |-> FALSE, outputs |-> {8},
    input |-> Analog({0}, FALSE, FALSE, 0, 0) ]

(* The loop that sets the offsets of this family is commented out. *)
xPCI3009 ==
  [ name |-> "xPCI-3009", units |-> <<TC, {}, {}>>, offset |-> <<-1, -1, -1>>,
    digital |-> TRUE, ttl |-> FALSE, outputs |-> {4},
    input |-> Analog({16}, TRUE, TRUE, 5, 1) ]

AllFamilies ==
  { xPCIe3021, xPCIe3521, xPCIe3121, xPCI3002, xPCI3002Audi, xPCI3116, xPCI3016,
    xPCI3106, xPCI3006, xPCI3500, xPCI3501, xPCI3009 }

(* How xpci3xxx_init_priv_data fills the table for unit u of a family. *)
CapabilityOf(f, u) == f.units[u + 1]
OffsetOf(f, u) == f.offset[u + 1]

=============================================================================
