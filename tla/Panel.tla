-------------------------------- MODULE Panel -------------------------------
(***************************************************************************)
(* The front panel: four potentiometers behind a CD4051 multiplexer and    *)
(* one ADC, two buttons, and a menu of seven pages that says what each     *)
(* potentiometer sets (User/headers/inputs.c, adc_helpers.c, menu.c and    *)
(* User/main.c).                                                           *)
(*                                                                         *)
(* A periodic timer calls Poll_Inputs from the SysTick interrupt with      *)
(* interrupts disabled, so a poll is one step.  The shell's command        *)
(* Read_Potentiometers_Debug makes the same conversions in a thread, which *)
(* a poll interrupts anywhere.                                             *)
(*                                                                         *)
(* A parameter of the YM3812 is a name and an operator, or a name alone;   *)
(* the panel sets it in all nine channels at once.                         *)
(***************************************************************************)
EXTENDS Integers, Sequences

CONSTANTS
  Positions,        \* what a potentiometer can make the ADC convert to
  Start,            \* where the potentiometers stand at power-on
  Turned,           \* the potentiometers the player turns
  calibrationVal,   \* the ADC's offset, measured at power-on
  ShellReads,       \* the shell's command is used
  MaxTurns,         \* how often potentiometers are turned: a bound
  MaxPresses        \* how often buttons are pressed: a bound

Pots == 1..4

ASSUME PanelAssumption ==
  /\ Positions \subseteq 0..4095
  /\ Start \in Positions
  /\ Turned \subseteq Pots
  /\ calibrationVal \in -4095..4095
  /\ ShellReads \in BOOLEAN
  /\ MaxTurns \in Nat /\ MaxPresses \in Nat

POTENTIOMETER_INTERRUPT_DIFFERENCE == 25
MENU_PAGES == 7
ADC_RESOLUTION == 4096

VARIABLES
  position,      \* how the player has set each potentiometer
  pressed,       \* the buttons that are down, of "left" and "right"
  mux,           \* the potentiometer the CD4051 connects
  adc,           \* the ADC: its state and its data register
  potVal,        \* pot1Val .. pot4Val
  potPrevVal,    \* pot1PrevVal .. pot4PrevVal
  buttonPrev,    \* the buttons the last poll found down
  Menu_Index,    \* the page on the display
  handlers,      \* the page whose functions Pot1..4_Interrupt_Handler are
  field,         \* the parameters in the registers of the YM3812
  shown,         \* the slider on each quarter of the display
  shell,         \* where Read_Potentiometers_Debug is
  turns, presses,  \* how often the player has acted
  seen,          \* history: each potentiometer when its handler last ran
  turned,        \* history: those whose handler ran since the page came up
  fresh,         \* history: nothing was touched since the last poll
  mixed          \* history: a poll has taken a conversion of the shell

inputVars   == <<position, pressed, turns, presses>>
pollVars    == <<potPrevVal, buttonPrev, Menu_Index, handlers, field, shown,
                 seen, turned, mixed>>
vars == <<inputVars, mux, adc, potVal, pollVars, shell, fresh>>

-----------------------------------------------------------------------------
(* The pages: for each potentiometer the parameter its Change_ function    *)
(* sets and how many values Clamp scales the reading to.                   *)
Control(name, op, scale) == [param |-> <<name, op>>, scale |-> scale]
Global(name, scale)      == [param |-> <<name>>, scale |-> scale]
Blank                    == [param |-> <<>>, scale |-> 0]

EnvelopePage(op) ==
  <<Control("Attack", op, 16), Control("Decay", op, 16),
    Control("Sustain", op, 16), Control("Release", op, 16)>>

SoundPage(op) ==
  <<Control("Multiplier", op, 16), Control("ScalingLevel", op, 4),
    Control("MaintainSustain", op, 2), Control("WaveForm", op, 16)>>

EffectPage(op) ==
  <<Control("Tremolo", op, 2), Control("Vibrato", op, 2),
    Control("EnvelopeScaling", op, 2), Blank>>

GlobalPage ==
  <<Global("DeepTremolo", 2), Global("DeepVibrato", 2),
    Global("SynthMode", 2), Global("Feedback", 8)>>

Main_Menu ==
  <<EnvelopePage(1), EnvelopePage(2), SoundPage(1), SoundPage(2),
    EffectPage(1), EffectPage(2), GlobalPage>>

Page(i)  == Main_Menu[i + 1]
Params   == {Page(i)[k].param : i \in 0 .. MENU_PAGES - 1, k \in Pots}
              \ {Blank.param}
Generic  == MENU_PAGES   \* handlers before the first button: they only log

(* What loading TEST_INSTRUMENT leaves in the registers.                   *)
TestInstrument(param) ==
  CASE param[1] = "Attack"               -> 15
    [] param[1] \in {"Sustain", "Release"} -> 7
    [] param[1] = "Feedback"             -> 3
    [] param[1] = "Multiplier"           -> 1
    [] OTHER                             -> 0

-----------------------------------------------------------------------------
Apply_Calibration_Offset(val) ==
  CASE val + calibrationVal < 0                       -> 0
    [] val + calibrationVal > 4095 \/ val = 4095      -> 4095
    [] OTHER                                          -> val + calibrationVal

Reading(k) == Apply_Calibration_Offset(position[k])

(* Mutant: the scale's end is taken for its last value. *)
ClampToLast(val, scale) == (scale * val) \div (ADC_RESOLUTION - 1)

Clamp(val, scale) == (scale * val) \div ADC_RESOLUTION

(* How many values a field has: a setter of OPL2.c masks out the rest.     *)
Values(param) ==
  CASE param[1] \in {"Attack", "Decay", "Sustain", "Release", "Multiplier"} -> 16
    [] param[1] \in {"WaveForm", "Feedback"} -> 8
    [] param[1] = "ScalingLevel" -> 4
    [] OTHER -> 2

Stored(param, value) == value % Values(param)

Slider(params, param) == [param |-> param, value |-> params[param]]
Nothing               == [param |-> <<>>, value |-> 0]

(* The Draw_ functions of a page.                                          *)
Draw(i, params) ==
  [k \in Pots |-> IF Page(i)[k] = Blank THEN Nothing
                                        ELSE Slider(params, Page(i)[k].param)]

(* The conversion behind potentiometer k reads the multiplexer's output.   *)
Idle == [state |-> "idle", data |-> 0]

Init ==
  /\ position = [k \in Pots |-> Start]
  /\ pressed = {}
  /\ mux = 4
  /\ adc = Idle
  /\ potVal = [k \in Pots |-> Reading(k)]
  /\ potPrevVal = potVal
  /\ buttonPrev = {}
  /\ Menu_Index = 0
  /\ handlers = Generic
  /\ field = [p \in Params |-> TestInstrument(p)]
  /\ shown = Draw(0, field)
  /\ shell = [at |-> "idle", pot |-> 1]
  /\ turns = 0 /\ presses = 0
  /\ seen = potVal
  /\ turned = {}
  /\ fresh = TRUE
  /\ mixed = FALSE

-----------------------------------------------------------------------------
Turn(k, p) ==
  /\ turns < MaxTurns
  /\ p # position[k]
  /\ position' = [position EXCEPT ![k] = p]
  /\ turns' = turns + 1
  /\ fresh' = FALSE
  /\ UNCHANGED <<pressed, presses, mux, adc, potVal, pollVars, shell>>

Press(b) ==
  /\ b \notin pressed
  /\ presses < MaxPresses
  /\ pressed' = pressed \cup {b}
  /\ presses' = presses + 1
  /\ fresh' = FALSE
  /\ UNCHANGED <<position, turns, mux, adc, potVal, pollVars, shell>>

LetGo(b) ==
  /\ b \in pressed
  /\ pressed' = pressed \ {b}
  /\ fresh' = FALSE
  /\ UNCHANGED <<position, turns, presses, mux, adc, potVal, pollVars, shell>>

-----------------------------------------------------------------------------
(* Read_Potentiometers in one go: the first Get_ADC_Val finds EOC set when *)
(* a conversion of the thread has just ended, and takes what that left.    *)
Read_Potentiometers ==
  [k \in Pots |-> IF k = 1 /\ adc.state = "done"
                    THEN Apply_Calibration_Offset(adc.data) ELSE Reading(k)]

Moved(val, prev) ==
  \/ val - prev > POTENTIOMETER_INTERRUPT_DIFFERENCE
  \/ prev - val > POTENTIOMETER_INTERRUPT_DIFFERENCE

(* Mutants: the previous value is always updated, or never. *)
PrevAlways(val, prev) == val
PrevNever(val, prev)  == prev

Prev(val, prev) == IF Moved(val, prev) THEN val ELSE prev

(* The Change_ functions of page i for the potentiometers that moved; the  *)
(* ones called Blank change nothing and draw the slider for the release.   *)
Change(i, moved, val) ==
  [p \in Params |->
     IF \E k \in moved : Page(i)[k].param = p
       THEN LET k == CHOOSE k \in moved : Page(i)[k].param = p
            IN  Stored(p, Clamp(val[k], Page(i)[k].scale))
       ELSE field[p]]

(* Mutant: the slider is drawn before the parameter is set. *)
RedrawFirst(i, moved, params) ==
  [k \in Pots |->
     CASE k \notin moved     -> shown[k]
       [] k \in moved /\ Page(i)[k] # Blank ->
            Slider(field, Page(i)[k].param)
       [] k \in moved /\ Page(i)[k] = Blank ->
            Slider(field, <<"Release", Page(i)[1].param[2]>>)]

Redraw(i, moved, params) ==
  [k \in Pots |->
     CASE k \notin moved     -> shown[k]
       [] k \in moved /\ Page(i)[k] # Blank ->
            Slider(params, Page(i)[k].param)
       [] k \in moved /\ Page(i)[k] = Blank ->
            Slider(params, <<"Release", Page(i)[1].param[2]>>)]

LeftOf(i)  == IF i = 0 THEN MENU_PAGES - 1 ELSE i - 1
RightOf(i) == IF i = MENU_PAGES - 1 THEN 0 ELSE i + 1

(* Handle_Button_Left runs before Handle_Button_Right.                     *)
Turnover(down, i) ==
  LET afterLeft == IF "left" \in down THEN LeftOf(i) ELSE i
  IN  IF "right" \in down THEN RightOf(afterLeft) ELSE afterLeft

Poll_Inputs ==
  LET val    == Read_Potentiometers
      moved  == {k \in Pots : Moved(val[k], potPrevVal[k])}
      down   == pressed \ buttonPrev
      wired  == IF handlers = Generic THEN {} ELSE moved
      params == Change(handlers, wired, val)
  IN  /\ potVal' = val
      /\ potPrevVal' = [k \in Pots |-> Prev(val[k], potPrevVal[k])]
      /\ field' = params
      /\ buttonPrev' = pressed
      /\ Menu_Index' = Turnover(down, Menu_Index)
      /\ IF down = {}
           THEN /\ shown' = Redraw(handlers, wired, params)
                /\ turned' = turned \cup moved
                /\ UNCHANGED handlers
           ELSE /\ shown' = Draw(Menu_Index', params)
                /\ turned' = {}
                /\ handlers' = Menu_Index'
      /\ seen' = [k \in Pots |-> IF k \in moved THEN Reading(k) ELSE seen[k]]
      /\ fresh' = TRUE
      /\ mixed' = (mixed \/ adc.state = "done")
      /\ mux' = 4
      /\ adc' = Idle
      /\ UNCHANGED <<inputVars, shell>>

-----------------------------------------------------------------------------
(* Read_Potentiometers in the thread of the shell, for its potentiometer.  *)
ShellSelect ==
  /\ ShellReads
  /\ shell.at = "idle"
  /\ mux' = shell.pot
  /\ shell' = [shell EXCEPT !.at = "start"]
  /\ UNCHANGED <<inputVars, adc, potVal, pollVars, fresh>>

ShellStart ==
  /\ shell.at = "start"
  /\ adc' = [adc EXCEPT !.state = "busy"]
  /\ shell' = [shell EXCEPT !.at = "wait"]
  /\ UNCHANGED <<inputVars, mux, potVal, pollVars, fresh>>

Convert ==
  /\ adc.state = "busy"
  /\ adc' = [state |-> "done", data |-> position[mux]]
  /\ UNCHANGED <<inputVars, mux, potVal, pollVars, shell, fresh>>

(* EOC ends the wait; reading the data register clears it.                 *)
ShellTake ==
  /\ shell.at = "wait"
  /\ adc.state = "done"
  /\ potVal' = [potVal EXCEPT ![shell.pot] = Apply_Calibration_Offset(adc.data)]
  /\ adc' = Idle
  /\ IF shell.pot = 4
       THEN shell' = [at |-> "idle", pot |-> 1] /\ UNCHANGED mux
       ELSE shell' = [at |-> "start", pot |-> shell.pot + 1]
            /\ mux' = shell.pot + 1
  /\ UNCHANGED <<inputVars, pollVars, fresh>>

Next ==
  \/ \E k \in Turned, p \in Positions : Turn(k, p)
  \/ \E b \in {"left", "right"} : Press(b) \/ LetGo(b)
  \/ Poll_Inputs
  \/ ShellSelect
  \/ ShellStart
  \/ ShellTake
  \/ Convert

Spec == Init /\ [][Next]_vars

-----------------------------------------------------------------------------
(* Type correctness: the menu index is a page, and a parameter fits its    *)
(* field.                                                                  *)
TypeOK ==
  /\ position \in [Pots -> Positions]
  /\ pressed \subseteq {"left", "right"} /\ buttonPrev \subseteq {"left", "right"}
  /\ mux \in Pots
  /\ adc.state \in {"idle", "busy", "done"} /\ adc.data \in 0..4095
  /\ potVal \in [Pots -> 0..4095] /\ potPrevVal \in [Pots -> 0..4095]
  /\ Menu_Index \in 0 .. MENU_PAGES - 1
  /\ handlers \in 0 .. MENU_PAGES
  /\ \A p \in Params : field[p] \in 0 .. Values(p) - 1
  /\ \A k \in Pots : shown[k] = Nothing \/ shown[k].param \in Params
  /\ shell \in [at : {"idle", "start", "wait"}, pot : Pots]

Near(a, b) == ~Moved(a, b)

(* A poll can take a conversion of the shell only for its first.           *)
Reliable == IF mixed THEN 2..4 ELSE Pots

Follows(k) ==
  /\ Near(Reading(k), seen[k])
  /\ k \in turned /\ Page(Menu_Index)[k] # Blank =>
       LET control == Page(Menu_Index)[k]
       IN  field[control.param]
             = Stored(control.param, Clamp(seen[k], control.scale))

(* After a poll every potentiometer is within the threshold of where its   *)
(* handler last saw it, however slowly it was turned, and those turned     *)
(* since the page came up have set the parameters of that page.  That      *)
(* holds of the first potentiometer until a poll takes one of the shell's  *)
(* conversions for its own, and of the others always.                      *)
Tracks == fresh /\ handlers # Generic => \A k \in Reliable : Follows(k)

(* A potentiometer turned up to the end of its scale, where Clamp is one   *)
(* step from a value the setters' masks wrap to zero, gives the parameter  *)
(* its largest value.                                                      *)
EndOfScale ==
  fresh /\ handlers # Generic =>
    \A k \in turned \cap Reliable :
      LET param == Page(Menu_Index)[k].param
      IN  seen[k] = 4095 /\ param # Blank.param
            => field[param] = Values(param) - 1

(* No poll sets a parameter to what its field cannot hold, nor, with the   *)
(* potentiometer at its end, to less than the field holds.                 *)
InScale == TypeOK /\ EndOfScale

(* Every slider on the display is the page's and shows its parameter as it *)
(* is in the registers, across page changes, potentiometers turned on      *)
(* other pages and conversions mixed up with the shell's.  A quarter the   *)
(* page has no parameter for may come to show the release.                 *)
ShownIsStored ==
  \A k \in Pots :
    /\ shown[k] # Nothing => shown[k].value = field[shown[k].param]
    /\ Page(Menu_Index)[k] # Blank => shown[k].param = Page(Menu_Index)[k].param

(* The comment at inputs.c:151: a parameter changes only when its          *)
(* potentiometer, on the page in control, has been turned by more than the *)
(* threshold since it last changed something, the first potentiometer      *)
(* excepted once a poll takes one of the shell's conversions for its own.  *)
OnlyWhenMoved ==
  [][\A p \in Params : field'[p] # field[p] =>
       \E k \in Pots :
         /\ handlers # Generic
         /\ Page(handlers)[k].param = p
         /\ (k = 1 /\ mixed') \/ Moved(Reading(k), seen[k])]_vars
=============================================================================
