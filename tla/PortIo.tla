------------------------------- MODULE PortIo -------------------------------
(***************************************************************************)
(* The digital, TTL and analog outputs and the digital and TTL inputs of a *)
(* board (primary_do.c, primary_di.c, primary_ttl.c, primary_ao.c and the  *)
(* commands that call them), and the commands that access a port directly  *)
(* (io_access.c).  Each command runs under the board's lock.               *)
(*                                                                         *)
(* The driver keeps one word for all outputs: bits 0 to 3 are the digital  *)
(* outputs, 16 to 23 the TTL port that always is an output, and 24 to 31   *)
(* the TTL port whose direction can be set.  A word is the set of its bits. *)
(***************************************************************************)
EXTENDS Boards, FiniteSets

CONSTANTS
  Families,   \* the families of boards
  Words,      \* the words callers pass
  Values,     \* the analog values
  AnalogOutputs, VoltageModes, Directions, Flags, Reloads   \* the other arguments

ASSUME PortAssumption ==
  /\ Families \subseteq AllFamilies
  /\ \A w \in Words : w \subseteq 0 .. 31
  /\ AnalogOutputs \cup VoltageModes \cup Values \cup Directions \subseteq Nat

BIPOLAR == 0
UNIPOLAR == 1
OUTPUT == 1

VARIABLES
  family,     \* the board
  priv,       \* its board information: output word, memory, directions, voltage mode
  ports,      \* the output registers of the board, as bits of the word
  direction,  \* the direction register of the second TTL port
  voltage,    \* the voltage mode register
  level,      \* the last value and polarity written to an analog output
  filter,     \* the filter of the digital inputs
  known,      \* history: what calls have set since the board was probed
  written     \* history: the analog outputs written since the voltage mode was set

portVars == <<family, priv, ports, direction, voltage, level, filter, known, written>>

Digital == 0 .. 3
TTL0 == 16 .. 23
TTL2 == 24 .. 31

NewPriv == [word |-> {}, memory |-> FALSE, direction |-> 0, voltage |-> BIPOLAR]
None == [value |-> 0, polarity |-> BIPOLAR]

PortInit ==
  /\ family \in Families
  /\ priv = NewPriv
  /\ ports = {}
  /\ direction = 0
  /\ voltage = BIPOLAR
  /\ level = [c \in 0 .. 7 |-> None]
  /\ filter = [on |-> FALSE, reload |-> 0]
  /\ known = {}
  /\ written = {}

(* A call that returns an error, or only reads, changes nothing. *)
Returns(code) == code # 0 /\ UNCHANGED portVars
analog == <<voltage, level, written>>

-----------------------------------------------------------------------------
(* Digital and TTL outputs. *)

(* The output registers after the bits of a word in Lines were written. *)
Write(lines, word, out) == (out \ lines) \cup (word \cap lines)

SetTTLOutputPort(p, out) ==
  LET first == Write(TTL0, p.word, out)
  IN IF p.direction = OUTPUT THEN Write(TTL2, p.word, first) ELSE first
SetDigitalOutputPort(p, out) == Write(Digital, p.word, out)

(* Both, if the board has them. *)
(* Variant: only the digital outputs are written. *)
SetPorts_Digital(p) ==
  IF family.digital THEN SetDigitalOutputPort(p, ports) ELSE ports
SetPorts(p) ==
  LET ttl == IF family.ttl THEN SetTTLOutputPort(p, ports) ELSE ports
  IN IF family.digital THEN SetDigitalOutputPort(p, ttl) ELSE ttl

Switches(word) ==
  /\ priv' = [priv EXCEPT !.word = word]
  /\ ports' = SetPorts(priv')
  /\ known' = known \cup {"word"} \cup (IF priv.direction = OUTPUT THEN {"second port"} ELSE {})
  /\ UNCHANGED <<family, direction, analog, filter>>

Set32DigitalOutputsOn(w) == Switches(IF priv.memory THEN priv.word \cup w ELSE w)

(* Only with the memory on. *)
Set32DigitalOutputsOff(w) ==
  \/ ~priv.memory /\ Returns(2)
  \/ priv.memory /\ Switches(priv.word \ w)

SetDigitalOutputMemory(on) ==
  /\ priv' = [priv EXCEPT !.memory = on]
  /\ UNCHANGED <<family, ports, direction, analog, filter, known>>
SetDigitalOutputMemoryOn == SetDigitalOutputMemory(TRUE)
SetDigitalOutputMemoryOff == SetDigitalOutputMemory(FALSE)

(* What Get32DigitalOutputStatus reads back from the board. *)
GetTTLOutputPort == ports \cap (TTL0 \cup IF priv.direction = OUTPUT THEN TTL2 ELSE {})
GetDigitalOutputPort == ports \cap Digital
Get32DigitalOutputStatus ==
  (IF family.ttl THEN GetTTLOutputPort ELSE {})
    \cup (IF family.digital THEN GetDigitalOutputPort ELSE {})

-----------------------------------------------------------------------------
(* Inputs: the ports that Read32DigitalInputs reads, as bits of its word,  *)
(* and the filter.                                                         *)

ReadTTLInputPort == TTL0 \cup IF priv.direction = OUTPUT THEN {} ELSE TTL2
ReadDigitalInputPort == Digital
Read32DigitalInputs ==
  (IF family.ttl THEN ReadTTLInputPort ELSE {})
    \cup (IF family.digital THEN ReadDigitalInputPort ELSE {})

(* The reload value is written before the flag.  The registers are looked  *)
(* for behind base address 2 on all boards; those of the xPCI-3501 are     *)
(* behind base address 1 and are not reached.                              *)
InitDigitalInputModuleFilter(f, reload) ==
  \/ ~family.digital /\ Returns(4)
  \/ family.digital /\ f \notin {0, 1} /\ Returns(2)
  \/ family.digital /\ f \in {0, 1} /\ reload > 255 /\ Returns(3)
  \/ /\ family.digital /\ f \in {0, 1} /\ reload <= 255
     /\ filter' = IF family = xPCI3501 THEN filter ELSE [on |-> f = 1, reload |-> reload]
     /\ UNCHANGED <<family, priv, ports, direction, analog, known>>

(* The direction of the second TTL port; its output register stays. *)
SetTTLPortConfiguration(d) ==
  \/ d \notin {0, 1} /\ Returns(22)
  \/ d \in {0, 1} /\ ~family.ttl /\ Returns(2)
  \/ /\ d \in {0, 1} /\ family.ttl
     /\ direction' = d
     /\ priv' = [priv EXCEPT !.direction = d]
     /\ known' = (known \ {"second port"}) \cup {"direction"}
     /\ UNCHANGED <<family, ports, analog, filter>>

-----------------------------------------------------------------------------
(* Analog outputs. *)

Channels == CHOOSE n \in family.outputs : \A o \in family.outputs : o <= n

(* One voltage mode for the board, whatever the channel; refused unless    *)
(* the last conversion has ended.                                          *)
(* Variant: the mode is kept although the board is not ready. *)
InitAnalogOutput_NotReady(c, m) ==
  \/ c >= Channels /\ Returns(2)
  \/ c < Channels /\ m >= 2 /\ Returns(3)
  \/ /\ c < Channels /\ m < 2
     /\ priv' = [priv EXCEPT !.voltage = m]
     /\ \/ voltage' = m /\ known' = known \cup {"mode"} /\ written' = {}
        \/ UNCHANGED <<voltage, known, written>>
     /\ UNCHANGED <<family, ports, direction, level, filter>>
InitAnalogOutput(c, m) ==
  \/ c >= Channels /\ Returns(2)
  \/ c < Channels /\ m >= 2 /\ Returns(3)
  \/ c < Channels /\ m < 2 /\ Returns(4)
  \/ /\ c < Channels /\ m < 2
     /\ voltage' = m
     /\ priv' = [priv EXCEPT !.voltage = m]
     /\ known' = known \cup {"mode"}
     /\ written' = {}
     /\ UNCHANGED <<family, ports, direction, level, filter>>

(* The largest unipolar value; a bipolar one has a bit more. *)
Unipolar == CASE family = xPCI3501 -> 8191
              [] family \in {xPCIe3121, xPCIe3521} -> 32767
              [] OTHER -> 2047
Largest(m) == IF m = UNIPOLAR THEN Unipolar ELSE 2 * Unipolar + 1

(* The command word: channel, value and polarity. *)
WriteAnalogOutputValue(c, v) ==
  \/ c >= Channels /\ Returns(2)
  \/ c < Channels /\ v > Largest(priv.voltage) /\ Returns(4)
  \/ /\ c < Channels /\ v <= Largest(priv.voltage)
     /\ level' = [level EXCEPT ![c] = [value |-> v, polarity |-> priv.voltage]]
     /\ written' = written \cup {c}
     /\ UNCHANGED <<family, priv, ports, direction, voltage, filter, known>>

-----------------------------------------------------------------------------
(* Direct access, and the removal of the driver: the registers keep what   *)
(* they have, and the next probe knows nothing of it.                      *)

(* One of the output ports, or the direction, behind base address 2. *)
OUTPORTDW(lines, w) ==
  /\ family # xPCI3501
  /\ ports' = Write(lines, w, ports)
  /\ known' = known \ {"word", "second port"}
  /\ UNCHANGED <<family, priv, direction, analog, filter>>
OUTPORTDW_Direction(d) ==
  /\ family.ttl
  /\ direction' = d
  /\ known' = known \ {"direction"}
  /\ UNCHANGED <<family, priv, ports, analog, filter>>

Reload ==
  /\ priv' = NewPriv
  /\ known' = {}
  /\ written' = {}
  /\ UNCHANGED <<family, ports, direction, voltage, level, filter>>

DigitalCommands ==
  \/ \E w \in Words : Set32DigitalOutputsOn(w) \/ Set32DigitalOutputsOff(w)
  \/ SetDigitalOutputMemoryOn
  \/ SetDigitalOutputMemoryOff
  \/ \E f \in Flags, r \in Reloads : InitDigitalInputModuleFilter(f, r)
  \/ \E d \in Directions : SetTTLPortConfiguration(d)
AnalogCommands ==
  \/ \E c \in AnalogOutputs, m \in VoltageModes : InitAnalogOutput(c, m)
  \/ \E c \in AnalogOutputs, v \in Values : WriteAnalogOutputValue(c, v)
AccessCommands ==
  \/ family.digital /\ \E w \in Words : OUTPORTDW(Digital, w)
  \/ family.ttl /\ \E w \in Words, lines \in {TTL0, TTL2} : OUTPORTDW(lines, w)
  \/ \E d \in Directions \cap {0, 1} : OUTPORTDW_Direction(d)

PortNext ==
  \/ DigitalCommands
  \/ AnalogCommands
  \/ AccessCommands
  \/ Reload

PortSpec == PortInit /\ [][PortNext]_portVars
-----------------------------------------------------------------------------

(* What the driver knows of the ports is true.  Once a call has switched   *)
(* outputs, the status read back from the board is the word the driver     *)
(* keeps, so that with the memory on the next call changes only the        *)
(* outputs it names; for the second TTL port only after outputs were       *)
(* switched while it was an output.  Once its direction was set by a call, *)
(* that port is read as an input exactly if it does not drive its lines.   *)
(* All this as long as nothing writes the ports directly                   *)
(* (Set32DigitalOutputsOn and Off, Get32DigitalOutputStatus,               *)
(* Read32DigitalInputs, SetTTLPortConfiguration).                          *)
Switched == IF "second port" \in known THEN 0 .. 31 ELSE 0 .. 23
Outputs == (IF family.digital THEN Digital ELSE {})
             \cup (IF family.ttl THEN TTL0 \cup TTL2 ELSE {})
StatusIsWord ==
  /\ "word" \in known =>
       Get32DigitalOutputStatus \cap Switched = priv.word \cap Outputs \cap Switched
  /\ "direction" \in known /\ family.ttl =>
       (TTL2 \subseteq Read32DigitalInputs <=> direction # OUTPUT)

(* Once the voltage mode was set by a call, the values that were written   *)
(* since have the polarity of the mode the board is in, and fit it.        *)
ValuesFitMode ==
  \A c \in written :
    /\ level[c].value <= Largest(level[c].polarity)
    /\ "mode" \in known => level[c].polarity = voltage

=============================================================================
