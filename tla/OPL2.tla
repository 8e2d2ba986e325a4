-------------------------------- MODULE OPL2 --------------------------------
(***************************************************************************)
(* The YM3812 driver of User/headers/YM3812/OPL2.c.  The chip cannot be    *)
(* read, so the driver keeps shadow registers and computes every new value *)
(* from them: it masks out the field it sets, adds the field's new value,  *)
(* stores the result in the shadow and writes it to the chip.              *)
(*                                                                         *)
(* The driver state is one record, and each function of the driver an      *)
(* operator from a state to the next; bus lists the writes made by the     *)
(* current call, oldest first.                                             *)
(***************************************************************************)
EXTENDS Integers, Sequences

CONSTANTS
  ChannelsSet,   \* the channels calls are made for, of 0..8
  Arguments,     \* the arguments calls are made with
  FNumbers,      \* the F-numbers calls are made with
  Instruments,   \* the instruments calls are made with, as 11 bytes each
  MaxCalls       \* how many calls are made: a bound

OPL2_NUM_CHANNELS == 9
OPERATOR1         == 0
OPERATOR2         == 1
NUM_OCTAVES       == 7

ASSUME OPL2Assumption ==
  /\ ChannelsSet \subseteq 0 .. OPL2_NUM_CHANNELS - 1
  /\ Arguments \subseteq 0..255
  /\ FNumbers \subseteq 0..1023
  /\ Instruments \subseteq [1..11 -> 0..255]
  /\ MaxCalls \in Nat

Operators == {OPERATOR1, OPERATOR2}

registerOffsets ==
  [op \in Operators |->
    IF op = OPERATOR1 THEN <<0, 1, 2, 8, 9, 10, 16, 17, 18>>
                      ELSE <<3, 4, 5, 11, 12, 13, 19, 20, 21>>]

noteFNumbers ==
  <<342, 363, 385, 408, 432, 458, 485, 514, 544, 577, 611, 647>>

drumChannels == <<6, 7, 8, 8, 7>>
drumBits     == <<16, 8, 4, 2, 1>>

(* drumRegisterOffsets: a drum uses the operators its entry is not 0xFF for*)
drumOperators ==
  <<{OPERATOR1, OPERATOR2}, {OPERATOR2}, {OPERATOR1}, {OPERATOR2}, {OPERATOR1}>>

(* What C's operators & and | make of two bytes, and << by a number of bits.*)
Weights == <<1, 2, 4, 8, 16, 32, 64, 128>>

x & y ==
  LET both(w) == IF (x \div w) % 2 = 1 /\ (y \div w) % 2 = 1 THEN w ELSE 0
  IN  both(1) + both(2) + both(4) + both(8) + both(16) + both(32) + both(64) + both(128)

x | y == x + y - (x & y)

clampValue(amt, low, high) == IF amt < low THEN low ELSE IF amt > high THEN high ELSE amt

-----------------------------------------------------------------------------
(* Chip, channel and operator registers: where the shadow is, where the    *)
(* chip has it, and how one is read and written.                           *)
getChipRegisterOffset(reg) ==
  CASE reg = 8   -> 1
    [] reg = 189 -> 2
    [] OTHER     -> 0

getChannelRegisterOffset(base, ch) ==
  ((ch % OPL2_NUM_CHANNELS) * 3) +
    (CASE base = 176 -> 1 [] base = 192 -> 2 [] OTHER -> 0)

getOperatorRegisterOffset(base, ch, op) ==
  ((ch % OPL2_NUM_CHANNELS) * 10) + ((op % 2) * 5) +
    (CASE base = 64  -> 1 [] base = 96  -> 2
       [] base = 128 -> 3 [] base = 224 -> 4 [] OTHER -> 0)

getRegisterOffset(ch, op) == registerOffsets[op % 2][(ch % 9) + 1]

YM3812_Write(r, reg, value) ==
  [r EXCEPT !.chip[reg] = value, !.bus = Append(@, <<reg, value>>)]

getChipRegister(r, reg) == r.chipRegisters[getChipRegisterOffset(reg)]

setChipRegister(r, reg, value) ==
  YM3812_Write([r EXCEPT !.chipRegisters[getChipRegisterOffset(reg)] = value],
               reg, value)

getChannelRegister(r, base, ch) ==
  r.channelRegisters[getChannelRegisterOffset(base, ch)]

(* Mutant: the shadow is not kept. *)
setChannelRegisterUnshadowed(r, base, ch, value) ==
  YM3812_Write(r, base + (ch % 9), value)

setChannelRegister(r, base, ch, value) ==
  YM3812_Write(
    [r EXCEPT !.channelRegisters[getChannelRegisterOffset(base, ch)] = value],
    base + (ch % 9), value)

getOperatorRegister(r, base, ch, op) ==
  r.operatorRegisters[getOperatorRegisterOffset(base, ch, op)]

setOperatorRegister(r, base, ch, op, value) ==
  YM3812_Write(
    [r EXCEPT !.operatorRegisters[getOperatorRegisterOffset(base, ch, op)] =
       value],
    base + getRegisterOffset(ch, op), value)

-----------------------------------------------------------------------------
(* The fields of the registers.  A setter keeps the bits of keep and adds  *)
(* the bits of low of its parameter, shifted; a getter takes the bits of   *)
(* take and shifts them back.                                              *)
Field(base, keep, low, shift, take) ==
  [base |-> base, keep |-> keep, low |-> low, shift |-> shift, take |-> take]

Fields20 ==
  [Tremolo         |-> Field(32, 127,  1, 7, 128),
   Vibrato         |-> Field(32, 191,  1, 6,  64),
   MaintainSustain |-> Field(32, 223,  1, 5,  32),
   EnvelopeScaling |-> Field(32, 239,  1, 4,  16),
   Multiplier      |-> Field(32, 240, 15, 0,  15)]

Fields40 ==
  [ScalingLevel |-> Field(64,  63,  3, 6, 192),
   Volume       |-> Field(64, 192, 63, 0,  63)]

Fields60and80 ==
  [Attack  |-> Field( 96,  15, 15, 4, 240),
   Decay   |-> Field( 96, 240, 15, 0,  15),
   Sustain |-> Field(128,  15, 15, 4, 240),
   Release |-> Field(128, 240, 15, 0,  15)]

FieldsE0 == [WaveForm |-> Field(224, 248, 7, 0, 7)]

OperatorFields(f) ==
  CASE f \in DOMAIN Fields20      -> Fields20[f]
    [] f \in DOMAIN Fields40      -> Fields40[f]
    [] f \in DOMAIN Fields60and80 -> Fields60and80[f]
    [] f \in DOMAIN FieldsE0      -> FieldsE0[f]

OperatorFieldNames ==
  DOMAIN Fields20 \cup DOMAIN Fields40 \cup DOMAIN Fields60and80
    \cup DOMAIN FieldsE0

(* Mutant: setBlock's mask also drops the high bits of the F-number. *)
FieldsBCBlockWide ==
  [Block     |-> Field(176, 224, 7, 2, 28),
   KeyOn     |-> Field(176, 223, 1, 5, 32),
   Feedback  |-> Field(192, 241, 7, 1, 14),
   SynthMode |-> Field(192, 254, 1, 0,  1)]

FieldsBC ==
  [Block     |-> Field(176, 227, 7, 2, 28),
   KeyOn     |-> Field(176, 223, 1, 5, 32),
   Feedback  |-> Field(192, 241, 7, 1, 14),
   SynthMode |-> Field(192, 254, 1, 0,  1)]

(* setNoteSelect sets its whole register.                                  *)
ChipFields ==
  [DeepTremolo    |-> Field(189, 127,  1, 7, 128),
   DeepVibrato    |-> Field(189, 191,  1, 6,  64),
   Percussion     |-> Field(189, 223,  1, 5,  32),
   Drums          |-> Field(189, 224, 31, 0,  31),
   WaveFormSelect |-> Field(  1, 223,  1, 5,  32),
   NoteSelect     |-> Field(  8,   0,  1, 6,  64)]

InPlace(f, v)     == (v & f.low) * Weights[f.shift + 1]

Put(old, f, v)    == ((old & f.keep) + InPlace(f, v)) % 256
Take(register, f) == (register & f.take) \div Weights[f.shift + 1]

getOperatorField(r, f, ch, op) ==
  Take(getOperatorRegister(r, OperatorFields(f).base, ch, op),
       OperatorFields(f))

setOperatorField(r, f, ch, op, v) ==
  LET F == OperatorFields(f)
  IN  setOperatorRegister(r, F.base, ch, op,
        Put(getOperatorRegister(r, F.base, ch, op), F, v))

getChannelField(r, f, ch) ==
  Take(getChannelRegister(r, FieldsBC[f].base, ch), FieldsBC[f])

setChannelField(r, f, ch, v) ==
  LET F == FieldsBC[f]
  IN  setChannelRegister(r, F.base, ch,
        Put(getChannelRegister(r, F.base, ch), F, v))

getChipField(r, f) ==
  Take(getChipRegister(r, ChipFields[f].base), ChipFields[f])

setChipField(r, f, v) ==
  LET F == ChipFields[f]
  IN  setChipRegister(r, F.base, Put(getChipRegister(r, F.base), F, v))

setDrums(r, drums) == setChipField(setChipField(r, "Drums", 0), "Drums", drums)

getFNumber(r, ch) ==
  ((getChannelRegister(r, 176, ch) & 3) * 256)
    + getChannelRegister(r, 160, ch)

setFNumber(r, ch, fNumber) ==
  LET high == setChannelRegister(r, 176, ch,
                (getChannelRegister(r, 176, ch) & 252) + (fNumber \div 256))
  IN  setChannelRegister(high, 160, ch, fNumber % 256)

setChannelVolume(r, ch, volume) ==
  LET r1 == IF getChannelField(r, "SynthMode", ch) # 0
              THEN setOperatorField(r, "Volume", ch, OPERATOR1, volume) ELSE r
  IN  setOperatorField(r1, "Volume", ch, OPERATOR2, volume)

-----------------------------------------------------------------------------
(* An instrument, unpacked from the Adlib format.                          *)
loadInstrument(data) ==
  LET register(op, base) == data[(op * 5) + (base \div 32) + 1]
  IN  [operators |->
         [op \in Operators |->
           [f \in OperatorFieldNames |->
             CASE OperatorFields(f).base = 224 ->
                    IF op = OPERATOR1 THEN data[11] & 7
                                      ELSE (data[11] & 112) \div 16
               [] OTHER ->
                    Take(register(op, OperatorFields(f).base),
                         OperatorFields(f))]],
       feedback        |-> (data[6] & 14) \div 2,
       isAdditiveSynth |-> data[6] & 1]

(* The volume, a float between 0 and 1 in the code, is in percent.         *)
OutputLevel(level, volume) ==
  63 - (((63 - level) * clampValue(volume, 0, 100)) \div 100)

(* A register of an operator as setInstrument puts it together.            *)
Packed(level, base) ==
  LET bits(f) == InPlace(OperatorFields(f), level[f])
  IN  CASE base = 32  -> bits("Tremolo") + bits("Vibrato") + bits("MaintainSustain")
                           + bits("EnvelopeScaling") + bits("Multiplier")
        [] base = 64  -> bits("ScalingLevel") + bits("Volume")
        [] base = 96  -> bits("Attack") + bits("Decay")
        [] base = 128 -> bits("Sustain") + bits("Release")
        [] base = 224 -> bits("WaveForm")

setOperatorInstrument(r, ch, op, instrument, volume) ==
  LET level == [instrument.operators[op] EXCEPT !["Volume"] = OutputLevel(@, volume)]
      set(q, base) == setOperatorRegister(q, base, ch, op, Packed(level, base))
  IN  set(set(set(set(set(r, 32), 64), 96), 128), 224)

setFeedbackAndMode(r, ch, instrument) ==
  setChannelRegister(r, 192, ch,
    (getChannelRegister(r, 192, ch) & 240)
      + InPlace(FieldsBC["Feedback"], instrument.feedback)
      + instrument.isAdditiveSynth)

setInstrument(r, ch, instrument, volume) ==
  LET r1 == setChipField(r, "WaveFormSelect", 1)
      r2 == setOperatorInstrument(r1, ch, OPERATOR1, instrument, volume)
      r3 == setOperatorInstrument(r2, ch, OPERATOR2, instrument, volume)
  IN  setFeedbackAndMode(r3, ch, instrument)

setDrumInstrument(r, instrument, drumType, volume) ==
  LET drum == clampValue(drumType, 0, 4) + 1
      ch   == drumChannels[drum]
      set(q, op) == IF op \in drumOperators[drum]
                      THEN setOperatorInstrument(q, ch, op, instrument, volume) ELSE q
      r1   == set(setChipField(r, "WaveFormSelect", 1), OPERATOR1)
      r2   == set(r1, OPERATOR2)
  IN  setFeedbackAndMode(r2, ch, instrument)

-----------------------------------------------------------------------------
(* Mutant: the channel is not keyed off before it is retuned. *)
playNoteLegato(r, ch, octave, note) ==
  LET r2 == setChannelField(r, "Block", ch, clampValue(octave, 0, NUM_OCTAVES))
      r3 == setFNumber(r2, ch, noteFNumbers[(note % 12) + 1])
  IN  setChannelField(r3, "KeyOn", ch, 1)

playNote(r, ch, octave, note) ==
  LET r1 == IF getChannelField(r, "KeyOn", ch) # 0
              THEN setChannelField(r, "KeyOn", ch, 0) ELSE r
      r2 == setChannelField(r1, "Block", ch, clampValue(octave, 0, NUM_OCTAVES))
      r3 == setFNumber(r2, ch, noteFNumbers[(note % 12) + 1])
  IN  setChannelField(r3, "KeyOn", ch, 1)

playDrum(r, drumType, octave, note) ==
  LET drum  == (drumType % 5) + 1
      state == getChipField(r, "Drums")
      ch    == drumChannels[drum]
      r1    == setDrums(r, state & (31 - drumBits[drum]))
      r2    == setChannelField(r1, "Block", ch, clampValue(octave, 0, NUM_OCTAVES))
      r3    == setFNumber(r2, ch, noteFNumbers[(note % 12) + 1])
  IN  setDrums(r3, state | drumBits[drum])

(* YM3812_Begin resets the chip and loads TEST_INSTRUMENT everywhere; the  *)
(* shadows are zero from the start of the program.                         *)
TEST_INSTRUMENT == <<0, 1, 16, 240, 119, 6, 1, 0, 240, 119, 0>>

Addresses ==
  {1, 8, 189}
    \cup {base + ch : base \in {160, 176, 192}, ch \in 0..8}
    \cup {base + getRegisterOffset(ch, op) :
            base \in {32, 64, 96, 128, 224}, ch \in 0..8, op \in Operators}

Zeroed ==
  [chipRegisters     |-> [i \in 0..2  |-> 0],
   channelRegisters  |-> [i \in 0..26 |-> 0],
   operatorRegisters |-> [i \in 0..89 |-> 0],
   chip              |-> [a \in Addresses |-> 0],
   bus               |-> <<>>]

YM3812_Begin ==
  LET set(r, ch) == setInstrument(r, ch, loadInstrument(TEST_INSTRUMENT), 100)
  IN  set(set(set(set(set(set(set(set(set(Zeroed, 0), 1), 2), 3), 4), 5), 6), 7), 8)

-----------------------------------------------------------------------------
VARIABLES
  regs,    \* the driver's state and the chip
  asked,   \* what the last call asked for: fields and their new values
  calls    \* how many calls have been made

driverVars == <<regs, asked, calls>>

id :> v == [i \in {id} |-> v]
f @@ g == [id \in DOMAIN f \cup DOMAIN g |-> IF id \in DOMAIN f THEN f[id] ELSE g[id]]

NothingAsked == [id \in {} |-> 0]

DriverInit ==
  /\ regs = [YM3812_Begin EXCEPT !.bus = <<>>]
  /\ asked = NothingAsked
  /\ calls = 0

Fresh == [regs EXCEPT !.bus = <<>>]

Call(newRegs, fields) ==
  /\ calls < MaxCalls
  /\ calls' = calls + 1
  /\ regs' = newRegs
  /\ asked' = fields

(* The setters of these fields have a parameter of type bool, which C makes*)
(* 1 of any argument but 0.  The others take a byte and mask it.           *)
Flags ==
  {"Tremolo", "Vibrato", "MaintainSustain", "EnvelopeScaling", "KeyOn", "DeepTremolo",
   "DeepVibrato", "Percussion", "WaveFormSelect", "NoteSelect"}
AsParameter(f, v) == IF f \in Flags /\ v # 0 THEN 1 ELSE v

SetOperatorField(f, ch, op, v) ==
  LET p == AsParameter(f, v)
  IN  Call(setOperatorField(Fresh, f, ch, op, p),
           <<f, ch, op>> :> (p & OperatorFields(f).low))

SetChannelField(f, ch, v) ==
  LET p == AsParameter(f, v)
  IN  Call(setChannelField(Fresh, f, ch, p), <<f, ch>> :> (p & FieldsBC[f].low))

SetChipField(f, v) ==
  LET p == AsParameter(f, v)
  IN  Call(IF f = "Drums" THEN setDrums(Fresh, p) ELSE setChipField(Fresh, f, p),
           <<f>> :> (p & ChipFields[f].low))

SetFNumber(ch, fNumber) ==
  Call(setFNumber(Fresh, ch, fNumber), <<"FNumber", ch>> :> fNumber)

SetChannelVolume(ch, v) ==
  Call(setChannelVolume(Fresh, ch, v),
       [id \in {<<"Volume", ch, op>> : op \in
                 IF getChannelField(regs, "SynthMode", ch) = 1
                   THEN Operators ELSE {OPERATOR2}} |-> v & 63])

Pitched(ch, octave, note) ==
  <<"Block", ch>> :> clampValue(octave, 0, NUM_OCTAVES)
    @@ <<"FNumber", ch>> :> noteFNumbers[(note % 12) + 1]

PlayNote(ch, octave, note) ==
  Call(playNote(Fresh, ch, octave, note),
       Pitched(ch, octave, note) @@ <<"KeyOn", ch>> :> 1)

PlayDrum(drum, octave, note) ==
  Call(playDrum(Fresh, drum, octave, note),
       Pitched(drumChannels[drum + 1], octave, note)
         @@ <<"Drums">> :> (getChipField(regs, "Drums") | drumBits[drum + 1]))

InstrumentFields(ch, ops, instrument, volume) ==
  [id \in {<<f, ch, op>> : f \in OperatorFieldNames, op \in ops} |->
     IF id[1] = "Volume"
       THEN OutputLevel(instrument.operators[id[3]]["Volume"], volume)
       ELSE instrument.operators[id[3]][id[1]]]
    @@ <<"Feedback", ch>> :> instrument.feedback
    @@ <<"SynthMode", ch>> :> instrument.isAdditiveSynth
    @@ <<"WaveFormSelect">> :> 1

SetInstrument(ch, data, volume) ==
  LET instrument == loadInstrument(data)
  IN  Call(setInstrument(Fresh, ch, instrument, volume),
           InstrumentFields(ch, Operators, instrument, volume))

SetDrumInstrument(drum, data, volume) ==
  LET instrument == loadInstrument(data)
  IN  Call(setDrumInstrument(Fresh, instrument, drum, volume),
           InstrumentFields(drumChannels[drum + 1], drumOperators[drum + 1],
                            instrument, volume))

DriverNext ==
  \/ \E ch \in ChannelsSet, v \in Arguments :
       \/ \E f \in OperatorFieldNames, op \in Operators :
            SetOperatorField(f, ch, op, v)
       \/ \E f \in DOMAIN FieldsBC : SetChannelField(f, ch, v)
       \/ SetChannelVolume(ch, v)
       \/ PlayNote(ch, v, v)
  \/ \E v \in Arguments :
       \/ \E f \in DOMAIN ChipFields : SetChipField(f, v)
       \/ \E drum \in 0..4 : PlayDrum(drum, v, v)
  \/ \E ch \in ChannelsSet, n \in FNumbers : SetFNumber(ch, n)
  \/ \E data \in Instruments, volume \in {0, 50, 100} :
       \/ \E ch \in ChannelsSet : SetInstrument(ch, data, volume)
       \/ \E drum \in 0..4 : SetDrumInstrument(drum, data, volume)

DriverSpec == DriverInit /\ [][DriverNext]_driverVars

-----------------------------------------------------------------------------
(* Every shadow and every register of the chip holds a byte, and fields    *)
(* asked for are numbers that fit them.                                    *)
DriverTypeOK ==
  /\ regs.chipRegisters \in [0..2 -> 0..255]
  /\ regs.channelRegisters \in [0..26 -> 0..255]
  /\ regs.operatorRegisters \in [0..89 -> 0..255]
  /\ regs.chip \in [Addresses -> 0..255]
  /\ calls \in 0..MaxCalls

(* The comments at OPL2.c:211, 257 and 302 have a register's current value *)
(* in its shadow.  No call loses track of the chip, and no two registers   *)
(* share a shadow.                                                         *)
ShadowsAreChip ==
  /\ \A reg \in {1, 8, 189} : getChipRegister(regs, reg) = regs.chip[reg]
  /\ \A base \in {160, 176, 192}, ch \in 0..8 :
       getChannelRegister(regs, base, ch) = regs.chip[base + ch]
  /\ \A base \in {32, 64, 96, 128, 224}, ch \in 0..8, op \in Operators :
       getOperatorRegister(regs, base, ch, op)
         = regs.chip[base + getRegisterOffset(ch, op)]

FieldIds ==
  {<<f, ch, op>> : f \in OperatorFieldNames, ch \in ChannelsSet,
                   op \in Operators}
    \cup {<<f, ch>> : f \in DOMAIN FieldsBC \cup {"FNumber"},
                     ch \in ChannelsSet}
    \cup {<<f>> : f \in DOMAIN ChipFields}

FieldValue(r, id) ==
  CASE Len(id) = 3            -> getOperatorField(r, id[1], id[2], id[3])
    [] id[1] = "FNumber"      -> getFNumber(r, id[2])
    [] Len(id) = 2 /\ id[1] # "FNumber" -> getChannelField(r, id[1], id[2])
    [] Len(id) = 1            -> getChipField(r, id[1])

(* What a setter, an instrument or a note sets is what the getters return. *)
AskedIsStored ==
  \A id \in DOMAIN asked : FieldValue(regs, id) = asked[id]

(* However the shadow registers are split into fields, the chip itself has *)
(* what was asked for.                                                     *)
ChipAsAsked == DriverTypeOK /\ ShadowsAreChip /\ AskedIsStored

(* A call changes no field but those it is about, in any channel, although *)
(* it rewrites whole registers that hold other fields.                     *)
OthersKept ==
  [][\A id \in FieldIds \ DOMAIN asked' :
       FieldValue(regs', id) = FieldValue(regs, id)]_driverVars

(* playNote retunes a channel only while it is keyed off, so that the old  *)
(* note never glides to the new pitch, and keys it on last.                *)
NoteStartsInTune ==
  \A ch \in ChannelsSet :
    {<<"KeyOn", ch>>, <<"Block", ch>>} \subseteq DOMAIN asked =>
      LET last == Len(regs.bus)
      IN  /\ regs.bus[last][1] = 176 + ch
          /\ \A i \in 1 .. last - 1 :
               /\ regs.bus[i][1] \in {160 + ch, 176 + ch}
               /\ regs.bus[i][1] = 176 + ch => regs.bus[i][2] & 32 = 0
=============================================================================
